---------------------------- MODULE TerminalsProofs ----------------------------
(***************************************************************************)
(* Proofs about Terminals, for every value of its constants.               *)
(*                                                                         *)
(*   Base    types; what was accepted is what the shell got, what is held  *)
(*           and what is queued; which session is in whose hands; a tab is *)
(*           spawned once: TypeOK, InputInOrder                            *)
(*   Calm    as long as nothing has gone wrong: what a tab shows, what is  *)
(*           on its way to it and what it has asked for fit together, and  *)
(*           the backend has room for what it is asked: ShownIsReal        *)
(***************************************************************************)
EXTENDS Terminals, FiniteSetTheorems, WellFoundedInduction, TLAPS

-----------------------------------------------------------------------------
(* Sequences: what is put at the end or taken from the front.                *)
LEMMA PuttingLast ==
    ASSUME NEW S, NEW s \in Seq(S), NEW x \in S
    PROVE  /\ Append(s, x) \in Seq(S) /\ Len(Append(s, x)) = Len(s) + 1
           /\ DOMAIN Append(s, x) = 1..(Len(s) + 1) /\ DOMAIN s = 1..Len(s) /\ Len(s) \in Nat
           /\ Append(s, x)[Len(s) + 1] = x
           /\ \A i \in 1..Len(s) : Append(s, x)[i] = s[i]
OBVIOUS

LEMMA TakingFirst ==
    ASSUME NEW S, NEW s \in Seq(S), s # <<>>
    PROVE  /\ Tail(s) \in Seq(S) /\ Len(s) \in Nat \ {0} /\ Len(Tail(s)) = Len(s) - 1
           /\ DOMAIN Tail(s) = 1..(Len(s) - 1) /\ DOMAIN s = 1..Len(s)
           /\ Head(s) \in S /\ Head(s) = s[1]
           /\ \A i \in 1..(Len(s) - 1) : Tail(s)[i] = s[i + 1]
OBVIOUS

(* Induction over the natural numbers, for a set instead of a formula.       *)
Precedes == {ab \in Nat \X Nat : ab[1] < ab[2]}

LEMMA LeastNumber ==
    ASSUME NEW T \in SUBSET Nat, T # {}
    PROVE  \E least \in T : \A n \in T : least <= n
<1>1. IsWellFoundedOn(Precedes, Nat)
  BY NatLessThanWellFounded DEF OpToRel, Precedes
<1>2. \E least \in T : \A n \in T : <<n, least>> \notin Precedes
  BY <1>1, WFMin
<1>3. ASSUME NEW n \in Nat, NEW least \in Nat, <<n, least>> \notin Precedes PROVE least <= n
  <2>1. <<n, least>> \in Nat \X Nat /\ <<n, least>>[1] = n /\ <<n, least>>[2] = least
    OBVIOUS
  <2>2. ~(n < least)
    BY <1>3, <2>1 DEF Precedes
  <2> QED
    BY <2>2
<1> QED
  BY <1>2, <1>3

LEMMA Induction ==
    ASSUME NEW S, 0 \in S, \A n \in Nat : n \in S => n + 1 \in S
    PROVE  \A n \in Nat : n \in S
<1> SUFFICES ASSUME NEW k \in Nat, k \notin S PROVE FALSE
  OBVIOUS
<1> DEFINE T == {n \in Nat : n \notin S}
<1>1. T \in SUBSET Nat /\ T # {}
  OBVIOUS
<1>2. PICK least \in T : \A n \in T : least <= n
  BY <1>1, LeastNumber
<1>3. least # 0
  BY <1>2
<1>4. least - 1 \in Nat /\ least - 1 \notin T /\ (least - 1) + 1 = least
  BY <1>2, <1>3
<1> QED
  BY <1>2, <1>4

-----------------------------------------------------------------------------
(* Writes(queue) walks along the queue.                                      *)
Queued == {Query} \cup Inputs

WalkStep(q, g, n) ==
    IF n = 0 THEN <<>> ELSE IF q[n] = Query THEN g[n - 1] ELSE Append(g[n - 1], q[n])
Walk(q) == CHOOSE g : g = [n \in 0..Len(q) |-> WalkStep(q, g, n)]
Follows(g, q, m) == \A n \in 0..m : g[n] = WalkStep(q, g, n)
Walks(g, q, m) == g \in [0..m -> Seq(Inputs)] /\ Follows(g, q, m)
Alike(p, q, m) == \A n \in 1..m : p[n] = q[n]

LEMMA WritesIsWalk == ASSUME NEW q PROVE Writes(q) = Walk(q)[Len(q)]
  BY DEF Writes, Walk, WalkStep

LEMMA WalkExists ==
    ASSUME NEW q \in Seq(Queued)
    PROVE  \E g : Walks(g, q, Len(q))
<1> DEFINE S == {m \in Nat : m <= Len(q) => \E g : Walks(g, q, m)}
<1>0. Len(q) \in Nat /\ \A n \in 1..Len(q) : q[n] \in Queued
  OBVIOUS
<1>1. 0 \in S
  <2> DEFINE g == [n \in 0..0 |-> <<>>]
  <2>1. g \in [0..0 -> Seq(Inputs)] /\ \A n \in 0..0 : n = 0 /\ g[n] = <<>>
    OBVIOUS
  <2> HIDE DEF g
  <2>2. Walks(g, q, 0)
    BY <2>1 DEF Walks, Follows, WalkStep
  <2> QED
    BY <2>2
<1>2. ASSUME NEW m \in Nat, m \in S PROVE m + 1 \in S
  <2> SUFFICES ASSUME m + 1 <= Len(q) PROVE \E h : Walks(h, q, m + 1)
    OBVIOUS
  <2>1. PICK g : Walks(g, q, m)
    BY <1>0, <1>2
  <2>2. g \in [0..m -> Seq(Inputs)] /\ \A n \in 0..m : g[n] = WalkStep(q, g, n)
    BY <2>1 DEF Walks, Follows
  <2> DEFINE last == IF q[m + 1] = Query THEN g[m] ELSE Append(g[m], q[m + 1])
             h    == [n \in 0..(m + 1) |-> IF n = m + 1 THEN last ELSE g[n]]
  <2>3. last \in Seq(Inputs)
    <3>1. g[m] \in Seq(Inputs) /\ q[m + 1] \in Queued
      BY <1>0, <2>2
    <3>2. q[m + 1] # Query => q[m + 1] \in Inputs
      BY <3>1 DEF Queued
    <3> QED
      BY <3>1, <3>2
  <2> HIDE DEF last
  <2>4. /\ h \in [0..(m + 1) -> Seq(Inputs)] /\ h[m + 1] = last
        /\ \A n \in 0..m : n \in 0..(m + 1) /\ n # m + 1 /\ h[n] = g[n]
    BY <2>2, <2>3
  <2> HIDE DEF h
  <2>5. ASSUME NEW n \in 0..(m + 1) PROVE h[n] = WalkStep(q, h, n)
    <3>1. CASE n = m + 1
      <4>1. n # 0 /\ n - 1 = m /\ m \in 0..m
        BY <3>1
      <4>2. h[n - 1] = g[m]
        BY <2>4, <4>1
      <4> QED
        BY <2>4, <3>1, <4>1, <4>2 DEF WalkStep, last
    <3>2. CASE n \in 0..m
      <4>1. n = 0 \/ n - 1 \in 0..m
        BY <3>2
      <4>2. WalkStep(q, h, n) = WalkStep(q, g, n)
        BY <2>4, <4>1 DEF WalkStep
      <4> QED
        BY <2>2, <2>4, <3>2, <4>2
    <3> QED
      BY <3>1, <3>2
  <2>6. Walks(h, q, m + 1)
    BY <2>4, <2>5 DEF Walks, Follows
  <2> QED
    BY <2>6
<1> HIDE DEF S
<1>3. \A m \in Nat : m \in S
  BY <1>1, <1>2, Induction
<1> QED
  BY <1>0, <1>3 DEF S

(* Two walks along the same elements agree.                                  *)
LEMMA WalksAgree ==
    ASSUME NEW m \in Nat, NEW p, NEW q, NEW g, NEW h, Alike(p, q, m),
           Follows(g, p, m), Follows(h, q, m)
    PROVE  \A n \in 0..m : g[n] = h[n]
<1> DEFINE S == {n \in Nat : n <= m => g[n] = h[n]}
<1>1. 0 \in S
  <2>1. 0 \in 0..m
    OBVIOUS
  <2>2. g[0] = <<>> /\ h[0] = <<>>
    BY <2>1 DEF Follows, WalkStep
  <2> QED
    BY <2>2
<1>2. ASSUME NEW n \in Nat, n \in S PROVE n + 1 \in S
  <2> SUFFICES ASSUME n + 1 <= m PROVE g[n + 1] = h[n + 1]
    OBVIOUS
  <2>1. n + 1 \in 0..m /\ n + 1 \in 1..m /\ n + 1 # 0 /\ (n + 1) - 1 = n
    OBVIOUS
  <2>2. g[n] = h[n] /\ p[n + 1] = q[n + 1]
    BY <1>2, <2>1 DEF Alike
  <2>3. g[n + 1] = WalkStep(p, g, n + 1) /\ h[n + 1] = WalkStep(q, h, n + 1)
    BY <2>1 DEF Follows
  <2> QED
    BY <2>1, <2>2, <2>3 DEF WalkStep
<1> HIDE DEF S
<1>3. \A n \in Nat : n \in S
  BY <1>1, <1>2, Induction
<1> QED
  BY <1>3 DEF S

LEMMA WalkWalks == ASSUME NEW q \in Seq(Queued) PROVE Walks(Walk(q), q, Len(q))
<1>1. PICK g : Walks(g, q, Len(q))
  BY WalkExists
<1>2. g = [n \in 0..Len(q) |-> WalkStep(q, g, n)]
  BY <1>1 DEF Walks, Follows
<1>3. Walk(q) = [n \in 0..Len(q) |-> WalkStep(q, Walk(q), n)]
  BY <1>2 DEF Walk
<1> DEFINE w == Walk(q)
<1>4. w = [n \in 0..Len(q) |-> WalkStep(q, w, n)]
  BY <1>3
<1> HIDE DEF w
<1>5. Follows(w, q, Len(q))
  BY <1>4 DEF Follows
<1>6. Follows(g, q, Len(q)) /\ \A n \in 0..Len(q) : g[n] \in Seq(Inputs)
  BY <1>1 DEF Walks
<1>7. Len(q) \in Nat /\ Alike(q, q, Len(q))
  BY DEF Alike
<1>8. \A n \in 0..Len(q) : w[n] = g[n]
  BY <1>5, <1>6, <1>7, WalksAgree
<1>9. w \in [0..Len(q) -> Seq(Inputs)]
  <2>1. \A n \in 0..Len(q) : WalkStep(q, w, n) \in Seq(Inputs)
    BY <1>5, <1>6, <1>8 DEF Follows
  <2> QED
    BY <1>4, <2>1
<1> QED
  BY <1>5, <1>9 DEF Walks, w

LEMMA WritesNone == Writes(<<>>) = <<>>
<1>1. <<>> \in Seq(Queued) /\ Len(<<>>) = 0 /\ 0 \in 0..0
  OBVIOUS
<1>2. Walks(Walk(<<>>), <<>>, 0)
  BY <1>1, WalkWalks
<1>3. Walk(<<>>)[0] = <<>>
  BY <1>1, <1>2 DEF Walks, Follows, WalkStep
<1> QED
  BY <1>1, <1>3, WritesIsWalk

LEMMA WritesType == ASSUME NEW q \in Seq(Queued) PROVE Writes(q) \in Seq(Inputs)
<1>1. Len(q) \in 0..Len(q)
  OBVIOUS
<1>2. Walk(q) \in [0..Len(q) -> Seq(Inputs)]
  BY WalkWalks DEF Walks, Follows
<1> QED
  BY <1>1, <1>2, WritesIsWalk

LEMMA WritesLonger ==
    ASSUME NEW q \in Seq(Queued), NEW x \in Queued
    PROVE  Writes(Append(q, x)) = IF x = Query THEN Writes(q) ELSE Append(Writes(q), x)
<1> DEFINE p == Append(q, x)
           m == Len(q)
           g == Walk(p)
           h == Walk(q)
<1>1. /\ p \in Seq(Queued) /\ Len(p) = m + 1 /\ m \in Nat /\ p[m + 1] = x
      /\ \A n \in 1..m : p[n] = q[n]
  BY PuttingLast
<1>2. Walks(g, p, m + 1) /\ Walks(h, q, m)
  BY <1>1, WalkWalks
<1>3. Writes(p) = g[m + 1] /\ Writes(q) = h[m]
  BY <1>1, WritesIsWalk
<1> HIDE DEF p, m, g, h
<1>4. \A n \in 0..(m + 1) : g[n] = WalkStep(p, g, n)
  BY <1>2 DEF Walks, Follows
<1>5. Follows(h, q, m)
  BY <1>2 DEF Walks
<1>6. Alike(p, q, m) /\ Follows(g, p, m)
  <2>1. \A n \in 0..m : n \in 0..(m + 1)
    BY <1>1
  <2> QED
    BY <1>1, <1>4, <2>1 DEF Alike, Follows
<1>7. \A n \in 0..m : g[n] = h[n]
  BY <1>1, <1>5, <1>6, WalksAgree
<1>8. m + 1 \in 0..(m + 1) /\ m + 1 # 0 /\ (m + 1) - 1 = m /\ m \in 0..m
  BY <1>1
<1>9. g[m + 1] = IF x = Query THEN h[m] ELSE Append(h[m], x)
  BY <1>1, <1>4, <1>7, <1>8 DEF WalkStep
<1> QED
  BY <1>3, <1>9 DEF p

(* Concatenation under a name of its own.                                    *)
Cat(p, q) == p \o q
One(x) == <<x>>

LEMMA CatType == ASSUME NEW S PROVE \A p, q \in Seq(S) : Cat(p, q) \in Seq(S)
  BY DEF Cat
LEMMA Regroup == ASSUME NEW S PROVE \A p, q, r \in Seq(S) : Cat(Cat(p, q), r) = Cat(p, Cat(q, r))
  BY DEF Cat
LEMMA CatNone == ASSUME NEW S PROVE \A p \in Seq(S) : Cat(p, <<>>) = p /\ Cat(<<>>, p) = p
  BY DEF Cat
LEMMA OneType == ASSUME NEW S PROVE \A x \in S : One(x) \in Seq(S)
  BY DEF One
LEMMA PutAsCat == ASSUME NEW S PROVE \A p \in Seq(S), x \in S : Append(p, x) = Cat(p, One(x))
  BY DEF Cat, One
LEMMA FirstAndRest ==
    ASSUME NEW S PROVE \A p \in Seq(S) : p # <<>> => p = Cat(One(Head(p)), Tail(p))
  BY DEF Cat, One

(* Where a sequence is cut in two.                                           *)
LEMMA Cut ==
    ASSUME NEW S, NEW h \in Seq(S), NEW k \in 0..Len(h)
    PROVE  /\ SubSeq(h, 1, k) \in Seq(S) /\ SubSeq(h, k + 1, Len(h)) \in Seq(S)
           /\ h = Cat(SubSeq(h, 1, k), SubSeq(h, k + 1, Len(h)))
<1> DEFINE a == SubSeq(h, 1, k)
           b == SubSeq(h, k + 1, Len(h))
           n == Len(h)
<1>1. n \in Nat /\ k \in 0..n /\ k \in Nat
  OBVIOUS
<1>2. a \in Seq(S) /\ Len(a) = k /\ \A i \in 1..k : a[i] = h[i]
  OBVIOUS
<1>3. b \in Seq(S) /\ Len(b) = n - k /\ \A i \in 1..(n - k) : b[i] = h[k + i]
  OBVIOUS
<1> HIDE DEF a, b
<1>4. /\ Cat(a, b) \in Seq(S) /\ Len(Cat(a, b)) = k + (n - k)
      /\ \A i \in 1..n : Cat(a, b)[i] = IF i <= k THEN a[i] ELSE b[i - k]
  BY <1>1, <1>2, <1>3 DEF Cat
<1>5. \A i \in 1..n : Cat(a, b)[i] = h[i]
  <2> TAKE i \in 1..n
  <2>1. CASE i <= k
    <3>1. i \in 1..k
      BY <2>1, <1>1
    <3> QED
      BY <1>2, <1>4, <2>1, <3>1
  <2>2. CASE ~(i <= k)
    <3>1. i - k \in 1..(n - k) /\ k + (i - k) = i
      BY <2>2, <1>1
    <3> QED
      BY <1>3, <1>4, <2>2, <3>1
  <2> QED
    BY <2>1, <2>2
<1> DEFINE c == Cat(a, b)
<1>6. c \in Seq(S) /\ Len(c) = Len(h) /\ \A i \in 1..Len(h) : c[i] = h[i]
  BY <1>1, <1>4, <1>5
<1> HIDE DEF c
<1>7. h = c
  BY <1>6
<1> QED
  BY <1>2, <1>3, <1>7 DEF a, b, c

(* Where the first element is taken from.                                    *)
LEMMA WritesTaken ==
    ASSUME NEW q \in Seq(Queued), q # <<>>
    PROVE  /\ Head(q) = Query => Writes(q) = Writes(Tail(q))
           /\ Head(q) # Query => /\ Head(q) \in Inputs
                                 /\ Writes(q) = Cat(One(Head(q)), Writes(Tail(q)))
<1> DEFINE t   == Tail(q)
           m   == Len(t)
           g   == Walk(q)
           h   == Walk(t)
           pre == IF Head(q) = Query THEN <<>> ELSE One(Head(q))
           S   == {n \in Nat : n <= m => g[n + 1] = Cat(pre, h[n])}
<1>1. /\ t \in Seq(Queued) /\ Len(q) = m + 1 /\ m \in Nat /\ Head(q) = q[1] /\ Head(q) \in Queued
      /\ \A n \in 1..m : t[n] = q[n + 1]
  BY TakingFirst
<1>2. Walks(g, q, m + 1) /\ Walks(h, t, m)
  BY <1>1, WalkWalks
<1>3. Writes(q) = g[m + 1] /\ Writes(t) = h[m]
  BY <1>1, WritesIsWalk
<1>4. Head(q) # Query => Head(q) \in Inputs
  BY <1>1 DEF Queued
<1> HIDE DEF t, m, g, h
<1>5. pre \in Seq(Inputs)
  BY <1>4, OneType
<1>6. /\ \A n \in 0..(m + 1) : g[n] = WalkStep(q, g, n)
      /\ \A n \in 0..m : h[n] = WalkStep(t, h, n) /\ h[n] \in Seq(Inputs)
  BY <1>2 DEF Walks, Follows
<1>7. 0 \in S
  <2>1. 0 \in 0..(m + 1) /\ 1 \in 0..(m + 1) /\ 1 # 0 /\ 1 - 1 = 0 /\ 0 \in 0..m
    BY <1>1
  <2>2. g[0] = <<>> /\ h[0] = <<>>
    BY <1>6, <2>1 DEF WalkStep
  <2>3. g[1] = IF q[1] = Query THEN g[0] ELSE Append(g[0], q[1])
    BY <1>6, <2>1 DEF WalkStep
  <2>4. g[1] = pre
    <3>1. CASE q[1] = Query
      BY <1>1, <2>2, <2>3, <3>1
    <3>2. CASE q[1] # Query
      <4>1. Append(<<>>, q[1]) = <<q[1]>>
        OBVIOUS
      <4> QED
        BY <1>1, <2>2, <2>3, <3>2, <4>1 DEF One
    <3> QED
      BY <3>1, <3>2
  <2>5. Cat(pre, h[0]) = pre
    BY <1>5, <2>2, CatNone
  <2> QED
    BY <2>4, <2>5
<1> HIDE DEF pre
<1>8. ASSUME NEW n \in Nat, n \in S PROVE n + 1 \in S
  <2> SUFFICES ASSUME n + 1 <= m PROVE g[(n + 1) + 1] = Cat(pre, h[n + 1])
    OBVIOUS
  <2> DEFINE a == g[n + 1]
             b == h[n]
             x == q[(n + 1) + 1]
  <2>1. /\ (n + 1) + 1 \in 0..(m + 1) /\ (n + 1) + 1 # 0 /\ ((n + 1) + 1) - 1 = n + 1
        /\ n + 1 \in 0..m /\ n + 1 \in 1..m /\ n + 1 # 0 /\ (n + 1) - 1 = n /\ n \in 0..m
    BY <1>1
  <2>2. a = Cat(pre, b) /\ b \in Seq(Inputs) /\ t[n + 1] = x
    BY <1>1, <1>6, <1>8, <2>1
  <2>3. g[(n + 1) + 1] = IF x = Query THEN a ELSE Append(a, x)
    BY <1>6, <2>1 DEF WalkStep
  <2>4. h[n + 1] = IF x = Query THEN b ELSE Append(b, x)
    BY <1>6, <2>1, <2>2 DEF WalkStep
  <2>5. x \in Queued
    BY <1>1, <2>1, <2>2
  <2> HIDE DEF a, b, x
  <2>6. CASE x = Query
    BY <2>2, <2>3, <2>4, <2>6
  <2>7. CASE x # Query
    <3>1. x \in Inputs
      BY <2>5, <2>7 DEF Queued
    <3>2. a \in Seq(Inputs)
      BY <1>5, <2>2, CatType
    <3>3. Append(a, x) = Cat(a, One(x)) /\ Append(b, x) = Cat(b, One(x)) /\ One(x) \in Seq(Inputs)
      BY <2>2, <3>1, <3>2, PutAsCat, OneType
    <3>4. Cat(Cat(pre, b), One(x)) = Cat(pre, Cat(b, One(x)))
      BY <1>5, <2>2, <3>3, Regroup
    <3> QED
      BY <2>2, <2>3, <2>4, <2>7, <3>3, <3>4
  <2> QED
    BY <2>6, <2>7
<1> HIDE DEF S
<1>9. m \in S
  BY <1>1, <1>7, <1>8, Induction
<1>10. g[m + 1] = Cat(pre, h[m])
  BY <1>1, <1>9 DEF S
<1>11. h[m] \in Seq(Inputs)
  BY <1>1, <1>3, WritesType
<1>12. CASE Head(q) = Query
  <2>1. Cat(<<>>, h[m]) = h[m]
    BY <1>11, CatNone
  <2> QED
    BY <1>3, <1>10, <1>12, <2>1 DEF pre, t
<1>13. CASE Head(q) # Query
  BY <1>3, <1>4, <1>10, <1>13 DEF pre, t
<1> QED
  BY <1>12, <1>13

-----------------------------------------------------------------------------
(* The values of the variables.                                              *)
Kinds    == {"started", "startFailed", "truncated", "exited", "note"}
Codes    == {"none", "zero", "own", "unknown"}
EventSet == [kind : Kinds, tab : {0} \cup Tabs, code : Codes]
Orders   == {"spawn", "restart", "write", "stop"}
CommandSet == [kind : Orders, tab : Tabs, input : {0} \cup Inputs]
TabSet   == [phase : {"none", "starting", "running", "stopping", "ended"}, code : Codes,
             truncated : BOOLEAN, stopped : BOOLEAN]
Heard    == {"output", "failed", "exited"}
SessionSet ==
    [tab : {0} \cup Tabs, at : {"none", "loop", "joining", "gone"}, flag : BOOLEAN,
     queue : Seq(Queued), ready : BOOLEAN, held : Seq(Inputs), shell : {"none", "alive", "dead"},
     hindrance : {"none", "deaf", "job"}, out : Seq(Heard), truncated : BOOLEAN,
     reported : BOOLEAN, unknown : BOOLEAN, accepted : Seq(Inputs), got : Seq(Inputs)]
Afters   == {"loop", "start", "exited", "quit"}
Runtimes == [at : {"loop", "join", "emit", "stopped"}, tab : {0} \cup Tabs,
             session : {0} \cup Sessions, then : Afters, out : Seq(EventSet), todo : SUBSET Tabs]

LEMMA Limits ==
    /\ MaxTerminalTabs \in Nat \ {0} /\ CommandCapacity \in Nat \ {0} /\ EventCapacity \in Nat \ {0}
    /\ QueueCapacity \in Nat \ {0} /\ OutCapacity \in Nat \ {0} /\ DrainLimit \in Nat \ {0}
    /\ MaxOpens \in Nat \ {0} /\ MaxStarts \in Nat \ {0} /\ MaxExtras \in Nat
  BY LimitsAssumption, BoundsAssumption

(* One session: its queues keep to their capacity, and what was accepted is  *)
(* what the shell got and, in the loop, what is held and what is queued.     *)
Starts(p, q) == \E r \in Seq(Inputs) : q = Cat(p, r)
InOrder(s) ==
    /\ Starts(s.got, s.accepted)
    /\ s.at = "loop" => /\ s.ready => s.held = <<>>
                        /\ s.accepted = Cat(s.got, Cat(s.held, Writes(s.queue)))

Sound(s) ==
    /\ s \in SessionSet
    /\ Len(s.queue) <= QueueCapacity /\ Len(s.out) <= OutCapacity
    /\ s.at = "none" <=> s.tab = 0
    /\ s.at \in {"none", "gone"} => s.shell # "alive"
    /\ s.reported => s.truncated

Told127(s) == s.unknown \/ \E k \in DOMAIN s.out : s.out[k] = "exited"

(* What a session and its shell do by themselves.                            *)
Evolves(s, n) ==
    /\ n.tab = s.tab /\ (n.at = "none" <=> s.at = "none") /\ n.reported = s.reported
    /\ s.at \in {"none", "gone"} => /\ n.at = s.at /\ n.out = s.out
                                    /\ n.truncated = s.truncated /\ n.unknown = s.unknown
    /\ n.at = "gone" => s.at = "gone" \/ Told127(n)

Fine(s) == Sound(s) /\ InOrder(s)
Moves(s, n) == Fine(n) /\ Evolves(s, n)

LEMMA Fields ==
    ASSUME NEW s, Sound(s)
    PROVE  /\ s.queue \in Seq(Queued) /\ s.held \in Seq(Inputs) /\ s.out \in Seq(Heard)
           /\ s.accepted \in Seq(Inputs) /\ s.got \in Seq(Inputs)
           /\ Len(s.queue) \in Nat /\ Len(s.out) \in Nat
  BY DEF Sound, SessionSet

LEMMA NoSessionIsFine == Fine(NoSession)
<1>1. <<>> \in Seq(Queued) /\ <<>> \in Seq(Inputs) /\ <<>> \in Seq(Heard) /\ Len(<<>>) = 0
  OBVIOUS
<1>2. Cat(<<>>, <<>>) = <<>>
  BY <1>1, CatNone
<1>3. Starts(<<>>, <<>>)
  BY <1>1, <1>2 DEF Starts
<1>4. Sound(NoSession)
  BY <1>1, Limits DEF Sound, SessionSet, NoSession
<1> QED
  BY <1>3, <1>4 DEF Fine, InOrder, NoSession

(* What a session has to say is put in its queue, or dropped.                *)
LEMMA OfferedOut ==
    ASSUME NEW s, Sound(s), NEW e \in Heard
    PROVE  /\ Offer(s, e).out \in Seq(Heard) /\ Len(Offer(s, e).out) <= OutCapacity
           /\ Offer(s, e) = [s EXCEPT !.out = Offer(s, e).out]
           /\ \/ Len(s.out) = OutCapacity
              \/ \E k \in DOMAIN Offer(s, e).out : Offer(s, e).out[k] = e
<1> DEFINE o == s.out
           p == Append(o, e)
<1>1. o \in Seq(Heard) /\ Len(o) <= OutCapacity /\ s \in SessionSet
  BY Fields DEF Sound
<1>2. /\ p \in Seq(Heard) /\ Len(p) = Len(o) + 1 /\ Len(o) \in Nat /\ p[Len(o) + 1] = e
      /\ Len(o) + 1 \in DOMAIN p
  BY <1>1, PuttingLast
<1>3. CASE Len(o) < OutCapacity
  <2>1. Offer(s, e) = [s EXCEPT !.out = p]
    BY <1>3 DEF Offer
  <2>2. Offer(s, e).out = p
    BY <1>1, <2>1 DEF SessionSet
  <2>3. Len(p) <= OutCapacity
    BY <1>2, <1>3, Limits
  <2> HIDE DEF p
  <2> QED
    BY <1>2, <2>1, <2>2, <2>3
<1>4. CASE ~(Len(o) < OutCapacity)
  <2>1. Offer(s, e) = s
    BY <1>4 DEF Offer
  <2>2. Len(o) = OutCapacity
    BY <1>1, <1>2, <1>4, Limits
  <2>3. s = [s EXCEPT !.out = o]
    BY <1>1 DEF SessionSet
  <2> QED
    BY <1>1, <2>1, <2>2, <2>3
<1> QED
  BY <1>3, <1>4

(* The loop is left: what is held and queued is given up.                    *)
LEMMA Accounted ==
    ASSUME NEW s, Fine(s)
    PROVE  /\ Writes(s.queue) \in Seq(Inputs) /\ Cat(s.held, Writes(s.queue)) \in Seq(Inputs)
           /\ s.at = "loop" => s.accepted = Cat(s.got, Cat(s.held, Writes(s.queue)))
<1>1. s.queue \in Seq(Queued) /\ s.held \in Seq(Inputs)
  BY Fields DEF Fine
<1>2. Writes(s.queue) \in Seq(Inputs)
  BY <1>1, WritesType
<1> QED
  BY <1>1, <1>2, CatType DEF Fine, InOrder

LEMMA LeavesSound ==
    ASSUME NEW s, Sound(s), s.at # "none"
    PROVE  /\ Sound(Leaves(s)) /\ Leaves(s).at = "joining" /\ Leaves(s).tab = s.tab
           /\ Leaves(s).got = s.got /\ Leaves(s).accepted = s.accepted
           /\ Leaves(s).reported = s.reported /\ Leaves(s).out = s.out
<1> DEFINE h == IF windows \/ s.hindrance = "deaf" THEN "none" ELSE s.hindrance
<1>1. Leaves(s) = [s EXCEPT !.at = "joining", !.shell = "dead", !.hindrance = h]
  BY DEF Leaves
<1>2. s \in SessionSet /\ h \in {"none", "deaf", "job"}
  BY DEF Sound, SessionSet
<1> HIDE DEF h
<1>3. [s EXCEPT !.at = "joining", !.shell = "dead", !.hindrance = h] \in SessionSet
  BY <1>2 DEF SessionSet
<1> QED
  BY <1>1, <1>2, <1>3 DEF Sound, SessionSet

LEMMA LeavingMoves ==
    ASSUME NEW s, Fine(s), s.at = "loop"
    PROVE  Moves(s, Leaves(s))
<1>1. Sound(s) /\ Starts(s.got, s.accepted)
  BY DEF Fine, InOrder
<1>2. /\ Sound(Leaves(s)) /\ Leaves(s).at = "joining" /\ Leaves(s).tab = s.tab
      /\ Leaves(s).got = s.got /\ Leaves(s).accepted = s.accepted
      /\ Leaves(s).reported = s.reported /\ Leaves(s).out = s.out
  BY <1>1, LeavesSound
<1> QED
  BY <1>1, <1>2 DEF Moves, Fine, InOrder, Evolves

(* A failure: a part of what is held may have been written before.           *)
LEMMA BreakingMoves ==
    ASSUME NEW s, Fine(s), s.at = "loop", NEW k \in 0..Len(s.held)
    PROVE  Moves(s, Breaks([s EXCEPT !.got = @ \o SubSeq(s.held, 1, k)]))
<1> DEFINE h    == s.held
           a    == SubSeq(h, 1, k)
           b    == SubSeq(h, k + 1, Len(h))
           rest == Writes(s.queue)
           g    == Cat(s.got, a)
           r    == [s EXCEPT !.got = g]
           o    == Offer(r, "failed")
<1>1. /\ Sound(s) /\ s \in SessionSet /\ h \in Seq(Inputs) /\ s.got \in Seq(Inputs)
      /\ rest \in Seq(Inputs) /\ s.accepted = Cat(s.got, Cat(h, rest))
  BY Fields, Accounted DEF Fine, Sound
<1>2. a \in Seq(Inputs) /\ b \in Seq(Inputs) /\ h = Cat(a, b)
  BY <1>1, Cut
<1>3. [s EXCEPT !.got = @ \o SubSeq(s.held, 1, k)] = r
  BY DEF Cat
<1>4. Breaks(r) = [Leaves(o) EXCEPT !.unknown = TRUE]
  BY DEF Breaks
<1> HIDE DEF h, a, b, rest
<1>5. g \in Seq(Inputs) /\ Cat(b, rest) \in Seq(Inputs)
  BY <1>1, <1>2, CatType
<1>6. s.accepted = Cat(g, Cat(b, rest))
  <2>1. Cat(h, rest) = Cat(a, Cat(b, rest))
    BY <1>1, <1>2, Regroup
  <2>2. Cat(s.got, Cat(a, Cat(b, rest))) = Cat(Cat(s.got, a), Cat(b, rest))
    BY <1>1, <1>2, <1>5, Regroup
  <2> QED
    BY <1>1, <2>1, <2>2
<1>7. Starts(g, s.accepted)
  BY <1>5, <1>6 DEF Starts
<1> HIDE DEF g
<1>8. Sound(r) /\ r.got = g /\ r.accepted = s.accepted /\ r.at = "loop" /\ r.tab = s.tab
      /\ r.reported = s.reported /\ r \in SessionSet
  BY <1>1, <1>5 DEF Sound, SessionSet
<1> HIDE DEF r
<1>9. /\ o = [r EXCEPT !.out = o.out] /\ o.out \in Seq(Heard) /\ Len(o.out) <= OutCapacity
  BY <1>8, OfferedOut DEF Heard
<1> HIDE DEF o
<1>10. /\ Sound(o) /\ o.got = g /\ o.accepted = s.accepted /\ o.at = "loop" /\ o.tab = s.tab
       /\ o.reported = s.reported
  <2> DEFINE p == o.out
  <2>1. o = [r EXCEPT !.out = p] /\ p \in Seq(Heard) /\ Len(p) <= OutCapacity
    BY <1>9
  <2> HIDE DEF p
  <2> QED
    BY <1>8, <2>1 DEF Sound, SessionSet
<1> DEFINE l == Leaves(o)
<1>11. /\ Sound(l) /\ l.at = "joining" /\ l.tab = s.tab /\ l.got = g
       /\ l.accepted = s.accepted /\ l.reported = s.reported
  BY <1>10, LeavesSound
<1> HIDE DEF l
<1> DEFINE n == [l EXCEPT !.unknown = TRUE]
<1>12. /\ Sound(n) /\ n.at = "joining" /\ n.tab = s.tab /\ n.got = g
       /\ n.accepted = s.accepted /\ n.reported = s.reported
  BY <1>11 DEF Sound, SessionSet
<1>13. Breaks(r) = n
  BY <1>4 DEF l
<1> HIDE DEF n
<1>14. Moves(s, n)
  BY <1>7, <1>12, <1>8 DEF Moves, Fine, InOrder, Evolves
<1> QED
  BY <1>3, <1>13, <1>14

(* A command is taken from the queue.                                        *)
LEMMA ObeyedMoves ==
    ASSUME NEW s, Fine(s), s.at = "loop", s.queue # <<>>
    PROVE  Moves(s, Obeyed(s))
<1> DEFINE q == s.queue
           x == Head(q)
           t == Tail(q)
           w == Writes(t)
           h == s.held
           g == s.got
           acc == s.accepted
<1>1. /\ Sound(s) /\ s \in SessionSet /\ q \in Seq(Queued) /\ h \in Seq(Inputs) /\ g \in Seq(Inputs)
      /\ acc \in Seq(Inputs) /\ Len(q) \in Nat
  BY Fields DEF Fine, Sound
<1>2. acc = Cat(g, Cat(h, Writes(q))) /\ (s.ready => h = <<>>) /\ Len(q) <= QueueCapacity
  BY DEF Fine, InOrder, Sound
<1>3. /\ t \in Seq(Queued) /\ Len(t) = Len(q) - 1
  BY <1>1, TakingFirst
<1>4. /\ x = Query => Writes(q) = w
      /\ x # Query => x \in Inputs /\ Writes(q) = Cat(One(x), w)
  BY <1>1, WritesTaken
<1>5. w \in Seq(Inputs)
  BY <1>3, WritesType
<1>6. Len(t) <= QueueCapacity
  BY <1>1, <1>2, <1>3, Limits
<1>7. Obeyed(s) = IF x = Query THEN [s EXCEPT !.queue = t, !.ready = TRUE, !.held = <<>>, !.got = Cat(g, h)]
                  ELSE IF s.ready THEN [s EXCEPT !.queue = t, !.got = Append(g, x)]
                  ELSE [s EXCEPT !.queue = t, !.held = Append(h, x)]
  BY <1>1 DEF Obeyed, Cat, SessionSet
<1> HIDE DEF q, x, t, w, h, g, acc
<1>8. CASE x = Query
  <2> DEFINE c == Cat(g, h)
             n == [s EXCEPT !.queue = t, !.ready = TRUE, !.held = <<>>, !.got = c]
  <2>1. c \in Seq(Inputs) /\ <<>> \in Seq(Inputs)
    BY <1>1, CatType
  <2>2. Cat(c, w) = acc
    BY <1>1, <1>2, <1>4, <1>5, <1>8, Regroup
  <2>3. Cat(<<>>, w) = w
    BY <1>5, CatNone
  <2> HIDE DEF c
  <2>4. /\ n \in SessionSet /\ n.queue = t /\ n.out = s.out /\ n.at = "loop" /\ n.tab = s.tab
        /\ n.ready = TRUE /\ n.held = <<>> /\ n.got = c /\ n.accepted = s.accepted
        /\ n.reported = s.reported /\ n.truncated = s.truncated /\ n.shell = s.shell
    BY <1>1, <1>3, <2>1 DEF SessionSet
  <2>5. n = Obeyed(s)
    BY <1>7, <1>8 DEF c
  <2> HIDE DEF n
  <2>6. Sound(n)
    BY <1>1, <1>6, <2>4 DEF Sound
  <2>7. Starts(c, acc)
    BY <1>5, <2>2 DEF Starts
  <2>8. InOrder(n)
    BY <2>2, <2>3, <2>4, <2>7 DEF InOrder, w, acc
  <2>9. Evolves(s, n)
    BY <2>4 DEF Evolves
  <2> QED
    BY <2>5, <2>6, <2>8, <2>9 DEF Moves, Fine
<1>9. CASE x # Query /\ s.ready
  <2> DEFINE c == Append(g, x)
             n == [s EXCEPT !.queue = t, !.got = c]
  <2>1. c \in Seq(Inputs) /\ c = Cat(g, One(x)) /\ One(x) \in Seq(Inputs)
    BY <1>1, <1>4, <1>9, PutAsCat, OneType
  <2>2. Cat(c, w) = Cat(g, Cat(One(x), w))
    BY <1>1, <1>5, <2>1, Regroup
  <2>3. Writes(q) = Cat(One(x), w) /\ Cat(One(x), w) \in Seq(Inputs)
    BY <1>4, <1>5, <1>9, <2>1, CatType
  <2>4. Cat(<<>>, w) = w /\ Cat(<<>>, Cat(One(x), w)) = Cat(One(x), w)
    BY <1>5, <2>3, CatNone
  <2>5. h = <<>>
    BY <1>2, <1>9
  <2>6. acc = Cat(c, w)
    BY <1>2, <2>2, <2>3, <2>4, <2>5
  <2> HIDE DEF c
  <2>7. /\ n \in SessionSet /\ n.queue = t /\ n.out = s.out /\ n.at = "loop" /\ n.tab = s.tab
        /\ n.ready = s.ready /\ n.held = s.held /\ n.got = c /\ n.accepted = s.accepted
        /\ n.reported = s.reported /\ n.truncated = s.truncated /\ n.shell = s.shell
    BY <1>1, <1>3, <2>1 DEF SessionSet
  <2>8. n = Obeyed(s)
    BY <1>7, <1>9 DEF c
  <2> HIDE DEF n
  <2>9. Sound(n)
    BY <1>1, <1>6, <2>7 DEF Sound
  <2>10. Starts(c, acc)
    BY <1>5, <2>6 DEF Starts
  <2>11. InOrder(n)
    BY <2>4, <2>5, <2>6, <2>7, <2>10 DEF InOrder, w, acc, h
  <2>12. Evolves(s, n)
    BY <2>7 DEF Evolves
  <2> QED
    BY <2>8, <2>9, <2>11, <2>12 DEF Moves, Fine
<1>10. CASE x # Query /\ ~s.ready
  <2> DEFINE c == Append(h, x)
             n == [s EXCEPT !.queue = t, !.held = c]
  <2>1. c \in Seq(Inputs) /\ c = Cat(h, One(x)) /\ One(x) \in Seq(Inputs)
    BY <1>1, <1>4, <1>10, PutAsCat, OneType
  <2>2. Cat(c, w) = Cat(h, Cat(One(x), w))
    BY <1>1, <1>5, <2>1, Regroup
  <2>3. Writes(q) = Cat(One(x), w)
    BY <1>4, <1>10
  <2>4. acc = Cat(g, Cat(c, w))
    BY <1>2, <2>2, <2>3
  <2> HIDE DEF c
  <2>5. /\ n \in SessionSet /\ n.queue = t /\ n.out = s.out /\ n.at = "loop" /\ n.tab = s.tab
        /\ n.ready = s.ready /\ n.held = c /\ n.got = g /\ n.accepted = s.accepted
        /\ n.reported = s.reported /\ n.truncated = s.truncated /\ n.shell = s.shell
    BY <1>1, <1>3, <2>1 DEF SessionSet, g
  <2>6. n = Obeyed(s)
    BY <1>7, <1>10 DEF c
  <2> HIDE DEF n
  <2>7. Sound(n)
    BY <1>1, <1>6, <2>5 DEF Sound
  <2>8. Starts(n.got, n.accepted)
    BY <2>5 DEF g, Fine, InOrder
  <2>9. InOrder(n)
    BY <1>10, <2>4, <2>5, <2>8 DEF InOrder, w, acc
  <2>10. Evolves(s, n)
    BY <2>5 DEF Evolves
  <2> QED
    BY <2>6, <2>7, <2>9, <2>10 DEF Moves, Fine
<1> QED
  BY <1>8, <1>9, <1>10

(* The reader puts output, and now and then a query.                         *)
LEMMA ReadingMoves ==
    ASSUME NEW s, Fine(s), s.at \in {"loop", "joining"}, NEW query \in BOOLEAN,
           NEW a, a = IF query /\ Len(s.queue) < QueueCapacity
                      THEN [s EXCEPT !.queue = Append(@, Query)] ELSE s,
           NEW n, n = [Offer(a, "output") EXCEPT !.truncated = @ \/ Len(s.out) = OutCapacity]
    PROVE  Moves(s, n)
<1>1. Sound(s) /\ s \in SessionSet /\ s.queue \in Seq(Queued) /\ Query \in Queued /\ Len(s.queue) \in Nat
  BY Fields DEF Fine, Queued, Sound
<1> DEFINE q == IF query /\ Len(s.queue) < QueueCapacity THEN Append(s.queue, Query) ELSE s.queue
<1>2. q \in Seq(Queued) /\ Len(q) <= QueueCapacity /\ Writes(q) = Writes(s.queue)
  <2> DEFINE p == Append(s.queue, Query)
  <2>1. /\ p \in Seq(Queued) /\ Len(p) = Len(s.queue) + 1
    BY <1>1, PuttingLast
  <2>2. Writes(p) = Writes(s.queue)
    BY <1>1, WritesLonger
  <2> HIDE DEF p
  <2>3. Len(s.queue) < QueueCapacity => Len(p) <= QueueCapacity
    BY <1>1, <2>1, Limits
  <2>4. Len(s.queue) <= QueueCapacity
    BY <1>1 DEF Sound
  <2>5. q = IF query /\ Len(s.queue) < QueueCapacity THEN p ELSE s.queue
    BY DEF p
  <2> HIDE DEF q
  <2> QED
    BY <1>1, <2>1, <2>2, <2>3, <2>4, <2>5
<1>3. a = [s EXCEPT !.queue = q]
  BY <1>1 DEF SessionSet
<1> HIDE DEF q
<1>4. /\ a \in SessionSet /\ a.queue = q /\ a.out = s.out /\ a.at = s.at /\ a.tab = s.tab
      /\ a.ready = s.ready /\ a.held = s.held /\ a.got = s.got /\ a.accepted = s.accepted
      /\ a.reported = s.reported /\ a.truncated = s.truncated /\ a.shell = s.shell
  BY <1>1, <1>2, <1>3 DEF SessionSet
<1>5. Sound(a)
  BY <1>1, <1>2, <1>4 DEF Sound
<1> DEFINE o == Offer(a, "output").out
           u == s.truncated \/ Len(s.out) = OutCapacity
<1>6. Offer(a, "output") = [a EXCEPT !.out = o] /\ o \in Seq(Heard) /\ Len(o) <= OutCapacity
  BY <1>5, OfferedOut DEF Heard
<1>7. u \in BOOLEAN
  BY <1>4 DEF SessionSet
<1> HIDE DEF o
<1>8. n = [a EXCEPT !.out = o, !.truncated = u]
  BY <1>4, <1>6 DEF SessionSet
<1> HIDE DEF u
<1>9. /\ n \in SessionSet /\ n.queue = q /\ n.out = o /\ n.at = s.at /\ n.tab = s.tab
      /\ n.ready = s.ready /\ n.held = s.held /\ n.got = s.got /\ n.accepted = s.accepted
      /\ n.reported = s.reported /\ n.truncated = u /\ n.shell = s.shell
  <2>0. a \in SessionSet /\ o \in Seq(Heard) /\ u \in BOOLEAN
    BY <1>4, <1>6, <1>7
  <2>1. n \in SessionSet
    BY <2>0, <1>8 DEF SessionSet
  <2>2. /\ n.queue = a.queue /\ n.out = o /\ n.at = a.at /\ n.tab = a.tab
        /\ n.ready = a.ready /\ n.held = a.held /\ n.got = a.got /\ n.accepted = a.accepted
        /\ n.reported = a.reported /\ n.shell = a.shell
    BY <2>0, <1>8 DEF SessionSet
  <2>3. n.truncated = u
    BY <2>0, <1>8 DEF SessionSet
  <2> QED
    BY <1>4, <2>1, <2>2, <2>3
<1>10. s.truncated => u
  BY DEF u
<1>11. Sound(n)
  BY <1>1, <1>2, <1>6, <1>9, <1>10 DEF Sound
<1>12. InOrder(n)
  BY <1>2, <1>9 DEF InOrder, Fine
<1>13. Evolves(s, n)
  BY <1>9 DEF Evolves
<1> QED
  BY <1>11, <1>12, <1>13 DEF Moves, Fine

(* The reader is joined, and the last word of the session is its exit.       *)
LEMMA JoiningMoves ==
    ASSUME NEW s, Fine(s), s.at = "joining",
           NEW n, n = [NoSession EXCEPT !.tab = s.tab, !.at = "gone", !.shell = "dead",
                           !.out = Offer(s, "exited").out, !.truncated = s.truncated,
                           !.reported = s.reported, !.unknown = s.unknown \/ Len(s.out) = OutCapacity]
    PROVE  Moves(s, n)
<1> DEFINE o == Offer(s, "exited").out
           u == s.unknown \/ Len(s.out) = OutCapacity
<1>1. Sound(s) /\ s \in SessionSet /\ s.tab # 0
  BY DEF Fine, Sound
<1>2. /\ o \in Seq(Heard) /\ Len(o) <= OutCapacity
      /\ Len(s.out) = OutCapacity \/ \E k \in DOMAIN o : o[k] = "exited"
  BY <1>1, OfferedOut DEF Heard
<1>3. s.tab \in {0} \cup Tabs /\ s.truncated \in BOOLEAN /\ s.reported \in BOOLEAN /\ u \in BOOLEAN
  BY <1>1 DEF SessionSet
<1>4. NoSession \in SessionSet /\ Sound(NoSession)
  BY NoSessionIsFine DEF Fine, Sound
<1>5. u \/ \E k \in DOMAIN o : o[k] = "exited"
  BY <1>2
<1>6. n = [NoSession EXCEPT !.tab = s.tab, !.at = "gone", !.shell = "dead", !.out = o,
               !.truncated = s.truncated, !.reported = s.reported, !.unknown = u]
  OBVIOUS
<1> HIDE DEF o, u
<1>7. n \in SessionSet
  <2> DEFINE m == [NoSession EXCEPT !.tab = s.tab, !.at = "gone", !.shell = "dead", !.out = o]
  <2>1. m \in SessionSet
    BY <1>2, <1>3, <1>4 DEF SessionSet
  <2>2. n = [m EXCEPT !.truncated = s.truncated, !.reported = s.reported, !.unknown = u]
    BY <1>6 DEF NoSession
  <2> HIDE DEF m
  <2> QED
    BY <1>3, <2>1, <2>2 DEF SessionSet
<1>8. /\ n.tab = s.tab /\ n.at = "gone" /\ n.shell = "dead" /\ n.out = o /\ n.truncated = s.truncated
      /\ n.reported = s.reported /\ n.unknown = u
  BY <1>4, <1>6 DEF SessionSet
<1>9. n.queue = <<>> /\ n.got = <<>> /\ n.accepted = <<>>
  BY <1>6 DEF NoSession
<1>10. Sound(n)
  <2>1. s.reported => s.truncated
    BY <1>1 DEF Sound
  <2>2. Len(n.queue) <= QueueCapacity
    BY <1>9, Limits
  <2> QED
    BY <1>1, <1>2, <1>7, <1>8, <2>1, <2>2 DEF Sound
<1>11. InOrder(n)
  <2>1. Starts(<<>>, <<>>)
    BY NoSessionIsFine DEF Fine, InOrder, NoSession
  <2> QED
    BY <1>8, <1>9, <2>1 DEF InOrder
<1>12. Evolves(s, n)
  <2>1. Told127(n)
    BY <1>5, <1>8 DEF Told127
  <2> QED
    BY <1>8, <2>1 DEF Evolves
<1> QED
  BY <1>10, <1>11, <1>12 DEF Moves, Fine

(* The shell, what runs in it, and the flag change nothing of this.          *)
LEMMA ShellMoves ==
    ASSUME NEW s, Fine(s), NEW sh \in {"none", "alive", "dead"}, sh = "alive" => s.shell = "alive",
           NEW hi \in {"none", "deaf", "job"}, NEW fl \in BOOLEAN
    PROVE  Moves(s, [s EXCEPT !.shell = sh, !.hindrance = hi, !.flag = fl])
<1> DEFINE n == [s EXCEPT !.shell = sh, !.hindrance = hi, !.flag = fl]
<1>1. Sound(s) /\ s \in SessionSet
  BY DEF Fine, Sound
<1>2. n \in SessionSet
  BY <1>1 DEF SessionSet
<1>3. /\ n.queue = s.queue /\ n.out = s.out /\ n.at = s.at /\ n.tab = s.tab /\ n.shell = sh
      /\ n.ready = s.ready /\ n.held = s.held /\ n.got = s.got /\ n.accepted = s.accepted
      /\ n.reported = s.reported /\ n.truncated = s.truncated /\ n.unknown = s.unknown
  BY <1>1 DEF SessionSet
<1> HIDE DEF n
<1>4. Sound(n)
  BY <1>1, <1>2, <1>3 DEF Sound
<1>5. InOrder(n)
  BY <1>3 DEF InOrder, Fine
<1>6. Evolves(s, n)
  BY <1>3 DEF Evolves
<1> QED
  BY <1>4, <1>5, <1>6 DEF Moves, Fine, n

(* Input is accepted.                                                        *)
LEMMA AcceptedIsFine ==
    ASSUME NEW s, Fine(s), s.at # "gone", s.at # "none", Len(s.queue) < QueueCapacity,
           NEW x \in Inputs
    PROVE  Moves(s, [s EXCEPT !.queue = Append(@, x), !.accepted = Append(@, x)])
<1> DEFINE q == Append(s.queue, x)
           c == Append(s.accepted, x)
           w == Writes(s.queue)
           n == [s EXCEPT !.queue = q, !.accepted = c]
<1>1. /\ Sound(s) /\ s \in SessionSet /\ s.queue \in Seq(Queued) /\ s.held \in Seq(Inputs)
      /\ s.got \in Seq(Inputs) /\ s.accepted \in Seq(Inputs) /\ Len(s.queue) \in Nat
  BY Fields DEF Fine, Sound
<1>2. x \in Queued /\ x # Query
  BY DEF Queued, Inputs, Query
<1>3. q \in Seq(Queued) /\ Len(q) = Len(s.queue) + 1 /\ Writes(q) = Append(w, x)
  BY <1>1, <1>2, PuttingLast, WritesLonger
<1>4. Len(q) <= QueueCapacity
  BY <1>1, <1>3, Limits
<1>5. w \in Seq(Inputs) /\ One(x) \in Seq(Inputs)
  BY <1>1, WritesType, OneType
<1>6. Append(w, x) = Cat(w, One(x)) /\ c = Cat(s.accepted, One(x)) /\ c \in Seq(Inputs)
  BY <1>1, <1>5, PutAsCat
<1> HIDE DEF q, c, w
<1>7. n \in SessionSet
  BY <1>1, <1>3, <1>6 DEF SessionSet
<1>8. /\ n.queue = q /\ n.out = s.out /\ n.at = s.at /\ n.tab = s.tab /\ n.shell = s.shell
      /\ n.ready = s.ready /\ n.held = s.held /\ n.got = s.got /\ n.accepted = c
      /\ n.reported = s.reported /\ n.truncated = s.truncated /\ n.unknown = s.unknown
  BY <1>1 DEF SessionSet
<1>9. n = [s EXCEPT !.queue = Append(@, x), !.accepted = Append(@, x)]
  BY <1>1 DEF SessionSet, q, c
<1> HIDE DEF n
<1>10. Sound(n)
  BY <1>1, <1>4, <1>7, <1>8 DEF Sound
<1>11. Starts(s.got, c)
  <2>1. PICK r \in Seq(Inputs) : s.accepted = Cat(s.got, r)
    BY DEF Fine, InOrder, Starts
  <2> DEFINE g == s.got
             y == One(x)
  <2>2. g \in Seq(Inputs) /\ y \in Seq(Inputs) /\ c = Cat(Cat(g, r), y)
    BY <1>1, <1>5, <1>6, <2>1
  <2> HIDE DEF g, y
  <2>3. c = Cat(g, Cat(r, y))
    BY <2>2, Regroup
  <2>4. Cat(r, y) \in Seq(Inputs)
    BY <2>2, CatType
  <2> QED
    BY <2>3, <2>4 DEF Starts, g
<1>12. s.at = "loop" => c = Cat(s.got, Cat(s.held, Writes(q)))
  <2> SUFFICES ASSUME s.at = "loop" PROVE c = Cat(s.got, Cat(s.held, Writes(q)))
    OBVIOUS
  <2>1. s.accepted = Cat(s.got, Cat(s.held, w)) /\ Cat(s.held, w) \in Seq(Inputs)
    BY Accounted DEF w
  <2>2. c = Cat(s.got, Cat(Cat(s.held, w), One(x)))
    BY <1>1, <1>5, <1>6, <2>1, Regroup
  <2>3. Cat(Cat(s.held, w), One(x)) = Cat(s.held, Cat(w, One(x)))
    BY <1>1, <1>5, Regroup
  <2> QED
    BY <1>3, <1>6, <2>2, <2>3
<1>13. InOrder(n)
  BY <1>8, <1>11, <1>12 DEF InOrder, Fine
<1>14. Evolves(s, n)
  BY <1>8 DEF Evolves
<1> QED
  BY <1>9, <1>10, <1>13, <1>14 DEF Moves, Fine

(* A shell is started.                                                       *)
LEMMA SpawnedIsFine ==
    ASSUME NEW t \in Tabs, windows \in BOOLEAN
    PROVE  Fine(Spawned(t)) /\ Spawned(t).tab = t /\ Spawned(t).at = "loop" /\ Spawned(t).reported = FALSE
<1>1. NoSession \in SessionSet /\ Sound(NoSession) /\ Starts(<<>>, <<>>)
  BY NoSessionIsFine DEF Fine, Sound, InOrder, NoSession
<1> DEFINE w == ~windows
           n == [NoSession EXCEPT !.tab = t, !.at = "loop", !.ready = w, !.shell = "alive"]
<1>2. n = Spawned(t) /\ w \in BOOLEAN
  BY DEF Spawned
<1> HIDE DEF w
<1>3. n \in SessionSet /\ n.tab = t /\ n.at = "loop" /\ n.shell = "alive"
  BY <1>1, <1>2 DEF SessionSet
<1>4. n.queue = <<>> /\ n.out = <<>> /\ n.held = <<>> /\ n.got = <<>> /\ n.accepted = <<>>
      /\ n.reported = FALSE
  BY DEF NoSession
<1> HIDE DEF n
<1>5. <<>> \in Seq(Inputs) /\ Len(<<>>) = 0 /\ t # 0
  BY DEF Tabs
<1>6. Cat(<<>>, Cat(<<>>, Writes(<<>>))) = <<>>
  BY <1>5, WritesNone, CatNone
<1>7. Sound(n)
  BY <1>3, <1>4, <1>5, Limits DEF Sound
<1>8. InOrder(n)
  BY <1>1, <1>4, <1>6 DEF InOrder
<1> QED
  BY <1>2, <1>3, <1>4, <1>7, <1>8 DEF Fine

(* What the backend keeps of a session that it drops.                        *)
LEMMA ForgottenIsFine ==
    ASSUME NEW i, Fine(session[i]), session[i].at # "none", NEW told \in BOOLEAN
    PROVE  /\ Fine(Forgotten(i, told)) /\ Forgotten(i, told).tab = session[i].tab
           /\ Forgotten(i, told).at = "gone" /\ Forgotten(i, told).reported = FALSE
           /\ Forgotten(i, told).truncated = (told /\ session[i].truncated)
           /\ Forgotten(i, told).unknown = (told /\ session[i].unknown)
<1>1. NoSession \in SessionSet /\ Sound(NoSession) /\ Starts(<<>>, <<>>)
  BY NoSessionIsFine DEF Fine, Sound, InOrder, NoSession
<1> DEFINE d == session[i].tab
           a == told /\ session[i].truncated
           b == told /\ session[i].unknown
           n == [NoSession EXCEPT !.tab = d, !.at = "gone", !.shell = "dead", !.truncated = a, !.unknown = b]
<1>2. n = Forgotten(i, told)
  BY DEF Forgotten
<1>3. d \in {0} \cup Tabs /\ d # 0 /\ a \in BOOLEAN /\ b \in BOOLEAN
  BY DEF Fine, Sound, SessionSet
<1> HIDE DEF d, a, b
<1>4. n \in SessionSet
  BY <1>1, <1>3 DEF SessionSet
<1>5. n.tab = d /\ n.at = "gone" /\ n.shell = "dead" /\ n.truncated = a /\ n.unknown = b
  BY <1>1 DEF SessionSet
<1>6. n.queue = <<>> /\ n.out = <<>> /\ n.got = <<>> /\ n.accepted = <<>> /\ n.reported = FALSE
  BY DEF NoSession
<1> HIDE DEF n
<1>7. Sound(n)
  BY <1>3, <1>4, <1>5, <1>6, Limits DEF Sound
<1>8. InOrder(n)
  BY <1>1, <1>5, <1>6 DEF InOrder
<1> QED
  BY <1>2, <1>5, <1>6, <1>7, <1>8 DEF Fine, a, b, d

-----------------------------------------------------------------------------
(* Which session is whose.  One that is in no hand any more is gone.         *)
LiveIn(T) == {t \in Tabs : T[t] # 0}
Owners(S, T)   == \A t \in LiveIn(T) : S[T[t]].tab = t
Joins(S, T, b) == b.at = "join" => /\ b.session \in Sessions /\ b.tab \in Tabs
                                   /\ S[b.session].tab = b.tab /\ b.tab \notin LiveIn(T)
InHands(S, T, b) ==
    \A i \in Sessions : \/ S[i].at \in {"none", "gone"}
                        \/ \E t \in LiveIn(T) : T[t] = i
                        \/ b.at = "join" /\ b.session = i
InTurn(S)      == \A i, j \in Sessions : i < j /\ S[i].at = "none" => S[j].at = "none"
Newest(S, T)   == \A t \in LiveIn(T) : \A j \in Sessions : S[j].tab = t => j <= T[t]
WillTell(S, T) == \A t \in LiveIn(T) : S[T[t]].at = "gone" => Told127(S[T[t]])
Links(S, T, b) ==
    Owners(S, T) /\ Joins(S, T, b) /\ InHands(S, T, b) /\ InTurn(S) /\ Newest(S, T) /\ WillTell(S, T)

AllFine(S) == \A i \in Sessions : Fine(S[i])
Terms == [Tabs -> {0} \cup Sessions]
Put(S, i, s) == [S EXCEPT ![i] = s]
Off(T, t) == [T EXCEPT ![t] = 0]
On(T, t, i) == [T EXCEPT ![t] = i]

LEMMA LiveTerm ==
    ASSUME NEW T \in Terms, NEW t \in LiveIn(T)
    PROVE  t \in Tabs /\ T[t] \in Sessions
  BY DEF Terms, LiveIn

LEMMA FineFields ==
    ASSUME NEW s, Fine(s)
    PROVE  /\ s \in SessionSet /\ (s.at = "none" <=> s.tab = 0) /\ s.tab \in {0} \cup Tabs
           /\ (s.reported => s.truncated) /\ s.out \in Seq(Heard) /\ s.unknown \in BOOLEAN
           /\ s.truncated \in BOOLEAN /\ s.reported \in BOOLEAN
  BY DEF Fine, Sound, SessionSet

(* What is common to all that happens to a session that is not dropped.      *)
Keeps(s, n) ==
    /\ n.tab = s.tab /\ (n.at = "none" <=> s.at = "none")
    /\ s.at \in {"none", "gone"} => n.at = s.at
    /\ n.at = "gone" /\ (s.at = "gone" => Told127(s)) => Told127(n)

LEMMA EvolvesKeeps == ASSUME NEW s, NEW n, Evolves(s, n) PROVE Keeps(s, n)
<1>1. s.at = "gone" => n.out = s.out /\ n.unknown = s.unknown
  BY DEF Evolves
<1>2. s.at = "gone" => (Told127(s) => Told127(n))
  BY <1>1 DEF Told127
<1> QED
  BY <1>2 DEF Evolves, Keeps

LEMMA LinksKept ==
    ASSUME NEW S, NEW Z, NEW T \in Terms, NEW b, Links(S, T, b),
           \A j \in Sessions : Keeps(S[j], Z[j])
    PROVE  Links(Z, T, b)
<1>1. \A j \in Sessions : Z[j].tab = S[j].tab /\ (Z[j].at = "none" <=> S[j].at = "none")
  BY DEF Keeps
<1>2. \A t \in LiveIn(T) : T[t] \in Sessions
  BY LiveTerm
<1>3. Owners(Z, T)
  BY <1>1, <1>2 DEF Owners, Links
<1>4. Joins(Z, T, b)
  BY <1>1 DEF Joins, Links
<1>5. InHands(Z, T, b)
  <2>1. \A i \in Sessions : S[i].at \in {"none", "gone"} => Z[i].at \in {"none", "gone"}
    BY DEF Keeps
  <2> QED
    BY <2>1 DEF InHands, Links
<1>6. InTurn(Z)
  BY <1>1 DEF InTurn, Links
<1>7. Newest(Z, T)
  BY <1>1 DEF Newest, Links
<1>8. WillTell(Z, T)
  <2> SUFFICES ASSUME NEW t \in LiveIn(T), Z[T[t]].at = "gone" PROVE Told127(Z[T[t]])
    BY DEF WillTell
  <2>1. Keeps(S[T[t]], Z[T[t]])
    BY <1>2
  <2>2. S[T[t]].at = "gone" => Told127(S[T[t]])
    BY DEF Links, WillTell
  <2> QED
    BY <2>1, <2>2 DEF Keeps
<1> QED
  BY <1>3, <1>4, <1>5, <1>6, <1>7, <1>8 DEF Links

(* The backend goes on with something else than a join.                      *)
LEMMA LinksElsewhere ==
    ASSUME NEW S, NEW T, NEW b, NEW c, Links(S, T, b), b.at # "join", c.at # "join"
    PROVE  Links(S, T, c)
  BY DEF Links, Joins, InHands

(* A session is taken out of its tab, to be joined.                          *)
LEMMA LinksShut ==
    ASSUME NEW S, NEW T \in Terms, NEW b, NEW c, NEW t \in LiveIn(T), Links(S, T, b), b.at # "join",
           c.at = "join", c.tab = t, c.session = T[t]
    PROVE  Off(T, t) \in Terms /\ LiveIn(Off(T, t)) = LiveIn(T) \ {t} /\ Links(S, Off(T, t), c)
<1> DEFINE Y == Off(T, t)
<1>0. t \in Tabs
  BY LiveTerm
<1>1. /\ Y \in Terms /\ Y[t] = 0 /\ \A u \in Tabs : u # t => Y[u] = T[u]
  BY <1>0 DEF Terms, Off
<1> HIDE DEF Y
<1>2. LiveIn(Y) = LiveIn(T) \ {t}
  BY <1>1 DEF LiveIn
<1>3. \A u \in LiveIn(Y) : u \in LiveIn(T) /\ u # t /\ Y[u] = T[u]
  BY <1>1, <1>2 DEF LiveIn
<1>4. t \in Tabs /\ T[t] \in Sessions
  BY LiveTerm
<1>5. Owners(S, Y)
  BY <1>3 DEF Owners, Links
<1>6. Joins(S, Y, c)
  BY <1>2, <1>4 DEF Joins, Links, Owners
<1>7. InHands(S, Y, c)
  <2> SUFFICES ASSUME NEW i \in Sessions, S[i].at \notin {"none", "gone"}
               PROVE  (\E u \in LiveIn(Y) : Y[u] = i) \/ c.session = i
    BY DEF InHands
  <2>1. PICK u \in LiveIn(T) : T[u] = i
    BY DEF InHands, Links
  <2>2. CASE u = t
    BY <2>1, <2>2
  <2>3. CASE u # t
    BY <1>2, <1>3, <2>1, <2>3
  <2> QED
    BY <2>2, <2>3
<1>8. Newest(S, Y)
  BY <1>3 DEF Newest, Links
<1>9. WillTell(S, Y)
  BY <1>3 DEF WillTell, Links
<1>10. InTurn(S)
  BY DEF Links
<1> QED
  BY <1>1, <1>2, <1>5, <1>6, <1>7, <1>8, <1>9, <1>10 DEF Links, Y

(* A session that was joined is dropped.                                     *)
LEMMA LinksDropped ==
    ASSUME NEW S, NEW T \in Terms, NEW b, NEW c, Links(S, T, b), b.at = "join", c.at # "join",
           NEW n, n.tab = S[b.session].tab, n.at = "gone", S[b.session].at # "none",
           DOMAIN S = Sessions
    PROVE  Links(Put(S, b.session, n), T, c)
<1> DEFINE i == b.session
           Z == Put(S, i, n)
<1>1. i \in Sessions /\ b.tab \in Tabs /\ S[i].tab = b.tab /\ b.tab \notin LiveIn(T)
  BY DEF Links, Joins
<1>2. Z[i] = n /\ \A j \in Sessions : j # i => Z[j] = S[j]
  BY <1>1 DEF Put
<1>3. \A j \in Sessions : Z[j].tab = S[j].tab /\ (Z[j].at = "none" <=> S[j].at = "none")
  BY <1>2
<1>4. \A t \in LiveIn(T) : T[t] \in Sessions /\ T[t] # i /\ Z[T[t]] = S[T[t]]
  BY <1>1, <1>2, LiveTerm DEF Links, Owners
<1> HIDE DEF Z, i
<1>5. Owners(Z, T)
  BY <1>4 DEF Owners, Links
<1>6. Joins(Z, T, c)
  BY DEF Joins
<1>7. InHands(Z, T, c)
  <2> SUFFICES ASSUME NEW j \in Sessions, Z[j].at \notin {"none", "gone"}
               PROVE  \E u \in LiveIn(T) : T[u] = j
    BY DEF InHands
  <2>1. j # i /\ S[j].at \notin {"none", "gone"}
    BY <1>2
  <2> QED
    BY <2>1 DEF InHands, Links, i
<1>8. Newest(Z, T)
  BY <1>3 DEF Newest, Links
<1>9. WillTell(Z, T)
  BY <1>4 DEF WillTell, Links
<1>10. InTurn(Z)
  BY <1>3 DEF InTurn, Links
<1> QED
  BY <1>5, <1>6, <1>7, <1>8, <1>9, <1>10 DEF Links, Z, i

(* The end of a session is told, and it is dropped.                          *)
LEMMA LinksEnded ==
    ASSUME NEW S, NEW T \in Terms, NEW b, NEW c, NEW t \in LiveIn(T), Links(S, T, b),
           b.at # "join", c.at # "join", DOMAIN S = Sessions, S[T[t]].at # "none",
           NEW n, n.tab = t, n.at = "gone"
    PROVE  /\ Off(T, t) \in Terms /\ LiveIn(Off(T, t)) = LiveIn(T) \ {t}
           /\ Links(Put(S, T[t], n), Off(T, t), c)
<1> DEFINE d == [at |-> "join", tab |-> t, session |-> T[t]]
<1>1. d.at = "join" /\ d.tab = t /\ d.session = T[t]
  OBVIOUS
<1> HIDE DEF d
<1>2. Off(T, t) \in Terms /\ LiveIn(Off(T, t)) = LiveIn(T) \ {t} /\ Links(S, Off(T, t), d)
  BY <1>1, LinksShut
<1>3. S[T[t]].tab = t
  BY DEF Links, Owners
<1>4. Links(Put(S, T[t], n), Off(T, t), c)
  BY <1>1, <1>2, <1>3, LinksDropped
<1> QED
  BY <1>2, <1>4

(* A shell is started for a tab that has none.                               *)
LEMMA LinksStarted ==
    ASSUME NEW S, NEW T \in Terms, NEW b, NEW t \in Tabs, t \notin LiveIn(T), Links(S, T, b),
           AllFine(S), b.at # "join", DOMAIN S = Sessions,
           NEW i \in Sessions, S[i].at = "none", \A j \in Sessions : S[j].at = "none" => i <= j,
           NEW n, n.tab = t, n.at = "loop"
    PROVE  /\ On(T, t, i) \in Terms /\ LiveIn(On(T, t, i)) = LiveIn(T) \cup {t}
           /\ Links(Put(S, i, n), On(T, t, i), b)
<1> DEFINE Y == On(T, t, i)
           Z == Put(S, i, n)
<1>1. Y \in Terms /\ Y[t] = i /\ \A u \in Tabs : u # t => Y[u] = T[u]
  BY DEF Terms, On
<1>2. i # 0 /\ i \in Nat
  BY DEF Sessions
<1>3. LiveIn(Y) = LiveIn(T) \cup {t}
  BY <1>1, <1>2 DEF LiveIn
<1>4. Z[i] = n /\ \A j \in Sessions : j # i => Z[j] = S[j]
  BY DEF Put
<1> HIDE DEF Y, Z
<1>5. \A j \in Sessions : S[j].tab = 0 <=> S[j].at = "none"
  BY FineFields DEF AllFine
<1>6. \A u \in LiveIn(T) : u # t /\ Y[u] = T[u] /\ T[u] \in Sessions /\ T[u] # i /\ u # 0 /\ Z[T[u]] = S[T[u]]
  <2> TAKE u \in LiveIn(T)
  <2>1. u # t /\ u \in Tabs /\ T[u] \in Sessions /\ S[T[u]].tab = u
    BY LiveTerm DEF Links, Owners
  <2>2. u # 0
    BY <2>1 DEF Tabs
  <2>3. T[u] # i
    BY <1>5, <2>1, <2>2
  <2> QED
    BY <1>1, <1>4, <2>1, <2>2, <2>3
<1>7. Owners(Z, Y)
  <2> SUFFICES ASSUME NEW u \in LiveIn(Y) PROVE Z[Y[u]].tab = u
    BY DEF Owners
  <2>1. CASE u = t
    BY <1>1, <1>4, <2>1
  <2>2. CASE u # t
    <3>1. u \in LiveIn(T)
      BY <1>3, <2>2
    <3>2. Z[Y[u]] = S[T[u]]
      BY <1>6, <3>1
    <3> QED
      BY <3>1, <3>2 DEF Owners, Links
  <2> QED
    BY <2>1, <2>2
<1>8. Joins(Z, Y, b)
  BY DEF Joins
<1>9. InHands(Z, Y, b)
  <2> SUFFICES ASSUME NEW j \in Sessions, Z[j].at \notin {"none", "gone"}
               PROVE  \E u \in LiveIn(Y) : Y[u] = j
    BY DEF InHands
  <2>1. CASE j = i
    BY <1>1, <1>3, <2>1
  <2>2. CASE j # i
    <3>1. S[j].at \notin {"none", "gone"}
      BY <1>4, <2>2
    <3>2. PICK u \in LiveIn(T) : T[u] = j
      BY <3>1 DEF InHands, Links
    <3> QED
      BY <1>3, <1>6, <3>2
  <2> QED
    BY <2>1, <2>2
<1>10. InTurn(Z)
  <2> SUFFICES ASSUME NEW j \in Sessions, NEW k \in Sessions, j < k, Z[j].at = "none"
               PROVE  Z[k].at = "none"
    BY DEF InTurn
  <2>1. j # i /\ S[j].at = "none"
    BY <1>4
  <2>2. i <= j /\ k # i
    BY <2>1 DEF Sessions
  <2>3. S[k].at = "none"
    BY <2>1 DEF InTurn, Links
  <2> QED
    BY <1>4, <2>2, <2>3
<1>11. Newest(Z, Y)
  <2> SUFFICES ASSUME NEW u \in LiveIn(Y), NEW j \in Sessions, Z[j].tab = u PROVE j <= Y[u]
    BY DEF Newest
  <2>1. CASE u = t
    <3>1. CASE j = i
      BY <1>1, <1>2, <2>1, <3>1
    <3>2. CASE j # i
      <4>1. S[j].tab = t /\ t # 0
        BY <1>4, <2>1, <3>2 DEF Tabs
      <4>2. S[j].at # "none"
        BY <1>5, <4>1
      <4>3. ~(i < j)
        BY <4>2 DEF InTurn, Links
      <4> QED
        BY <1>1, <2>1, <4>3 DEF Sessions
    <3> QED
      BY <3>1, <3>2
  <2>2. CASE u # t
    <3>1. u \in LiveIn(T)
      BY <1>3, <2>2
    <3>2. j # i
      BY <1>4, <2>2
    <3> QED
      BY <1>4, <1>6, <3>1, <3>2 DEF Newest, Links
  <2> QED
    BY <2>1, <2>2
<1>12. WillTell(Z, Y)
  <2> SUFFICES ASSUME NEW u \in LiveIn(Y), Z[Y[u]].at = "gone" PROVE Told127(Z[Y[u]])
    BY DEF WillTell
  <2>1. u # t
    BY <1>1, <1>4
  <2>2. u \in LiveIn(T)
    BY <1>3, <2>1
  <2>3. Z[Y[u]] = S[T[u]]
    BY <1>6, <2>2
  <2> QED
    BY <2>2, <2>3 DEF WillTell, Links
<1> QED
  BY <1>1, <1>3, <1>7, <1>8, <1>9, <1>10, <1>11, <1>12 DEF Links, Y, Z

-----------------------------------------------------------------------------
(* A tab is spawned once, and nothing has its number before.                 *)
Asks(S, C, o) ==
    /\ \A i \in Sessions : S[i].tab <= o
    /\ \A i \in DOMAIN C : C[i].tab <= o
    /\ \A i \in DOMAIN C : C[i].kind = "write" => C[i].input \in Inputs
    /\ \A i \in DOMAIN C : C[i].kind = "spawn" => \A j \in Sessions : S[j].tab # C[i].tab
    /\ \A i, j \in DOMAIN C : i < j /\ C[j].kind = "spawn" => C[i].tab # C[j].tab

LEMMA AsksSame ==
    ASSUME NEW S, NEW Z, NEW C, NEW o, Asks(S, C, o),
           \A j \in Sessions : \E k \in Sessions : Z[j].tab = S[k].tab
    PROVE  Asks(Z, C, o)
<1>1. \A i \in Sessions : Z[i].tab <= o
  BY DEF Asks
<1>2. \A i \in DOMAIN C : C[i].kind = "spawn" => \A j \in Sessions : Z[j].tab # C[i].tab
  BY DEF Asks
<1> QED
  BY <1>1, <1>2 DEF Asks

LEMMA AsksTaken ==
    ASSUME NEW S, NEW Z, NEW C \in Seq(CommandSet), C # <<>>, NEW o, Asks(S, C, o),
           \A j \in Sessions : Z[j].tab \in {S[j].tab, Head(C).tab}
    PROVE  Asks(Z, Tail(C), o)
<1> DEFINE D == Tail(C)
           n == Len(C)
<1>1. /\ n \in Nat \ {0} /\ DOMAIN D = 1..(n - 1) /\ DOMAIN C = 1..n /\ Head(C) = C[1]
      /\ \A i \in 1..(n - 1) : D[i] = C[i + 1]
  BY TakingFirst
<1> HIDE DEF D, n
<1>2. 1 \in DOMAIN C /\ \A i \in DOMAIN D : i \in Nat /\ i + 1 \in DOMAIN C /\ 1 < i + 1 /\ D[i] = C[i + 1]
  BY <1>1
<1>3. \A i \in DOMAIN D : D[i].kind = "spawn" => C[1].tab # D[i].tab
  BY <1>2 DEF Asks
<1>4. \A i \in Sessions : Z[i].tab <= o
  BY <1>1, <1>2 DEF Asks
<1>5. \A i \in DOMAIN D : D[i].tab <= o /\ (D[i].kind = "write" => D[i].input \in Inputs)
  BY <1>2 DEF Asks
<1>6. \A i \in DOMAIN D : D[i].kind = "spawn" => \A j \in Sessions : Z[j].tab # D[i].tab
  BY <1>1, <1>2, <1>3 DEF Asks
<1>7. \A i, j \in DOMAIN D : i < j /\ D[j].kind = "spawn" => D[i].tab # D[j].tab
  <2> TAKE i, j \in DOMAIN D
  <2>1. i < j => i + 1 < j + 1
    BY <1>2
  <2> QED
    BY <1>2, <2>1 DEF Asks
<1> QED
  BY <1>4, <1>5, <1>6, <1>7 DEF Asks, D

(* Something else than a spawn is asked.                                     *)
LEMMA AsksMore ==
    ASSUME NEW S, NEW C \in Seq(CommandSet), NEW o, Asks(S, C, o), NEW c \in CommandSet,
           c.kind # "spawn", c.tab <= o, c.kind = "write" => c.input \in Inputs
    PROVE  Asks(S, Append(C, c), o)
<1> DEFINE D == Append(C, c)
           n == Len(C)
<1>1. /\ n \in Nat /\ DOMAIN D = 1..(n + 1) /\ DOMAIN C = 1..n /\ D[n + 1] = c
      /\ \A i \in 1..n : D[i] = C[i]
  BY PuttingLast
<1> HIDE DEF D, n
<1>2. \A i \in DOMAIN D : i \in Nat /\ ((i \in DOMAIN C /\ D[i] = C[i]) \/ (i = n + 1 /\ D[i] = c))
  BY <1>1
<1>3. \A i \in DOMAIN D : D[i].tab <= o /\ (D[i].kind = "write" => D[i].input \in Inputs)
  BY <1>2 DEF Asks
<1>4. \A i \in DOMAIN D : D[i].kind = "spawn" => \A j \in Sessions : S[j].tab # D[i].tab
  BY <1>2 DEF Asks
<1>5. \A i, j \in DOMAIN D : i < j /\ D[j].kind = "spawn" => D[i].tab # D[j].tab
  <2> TAKE i, j \in DOMAIN D
  <2>1. SUFFICES ASSUME i < j, D[j].kind = "spawn" PROVE D[i].tab # D[j].tab
    OBVIOUS
  <2>2. j \in DOMAIN C /\ D[j] = C[j]
    BY <1>2, <2>1
  <2>3. i \in DOMAIN C /\ D[i] = C[i]
    BY <1>1, <1>2, <2>1, <2>2
  <2> QED
    BY <2>1, <2>2, <2>3 DEF Asks
<1> QED
  BY <1>3, <1>4, <1>5 DEF Asks, D

(* A tab is opened.                                                          *)
LEMMA AsksOpen ==
    ASSUME NEW S, NEW C \in Seq(CommandSet), NEW o \in Nat, Asks(S, C, o), NEW c \in CommandSet,
           c.kind = "spawn", c.tab = o + 1, \A j \in Sessions : S[j].tab \in Nat
    PROVE  Asks(S, Append(C, c), o + 1) /\ Asks(S, C, o + 1)
<1> DEFINE D == Append(C, c)
           n == Len(C)
<1>1. /\ n \in Nat /\ DOMAIN D = 1..(n + 1) /\ DOMAIN C = 1..n /\ D[n + 1] = c
      /\ \A i \in 1..n : D[i] = C[i] /\ C[i] \in CommandSet
  BY PuttingLast
<1> HIDE DEF D, n
<1>2. \A i \in DOMAIN D : i \in Nat /\ ((i \in DOMAIN C /\ D[i] = C[i]) \/ (i = n + 1 /\ D[i] = c))
  BY <1>1
<1>3. \A i \in DOMAIN C : C[i].tab \in Nat /\ C[i].tab <= o /\ C[i].tab < o + 1 /\ C[i].tab <= o + 1
  BY <1>1 DEF Asks, CommandSet, Tabs
<1>4. \A i \in Sessions : S[i].tab <= o /\ S[i].tab < o + 1 /\ S[i].tab <= o + 1
  BY DEF Asks
<1>5. \A i \in DOMAIN D : D[i].tab <= o + 1 /\ (D[i].kind = "write" => D[i].input \in Inputs)
  BY <1>2, <1>3 DEF Asks
<1>6. \A i \in DOMAIN D : D[i].kind = "spawn" => \A j \in Sessions : S[j].tab # D[i].tab
  BY <1>2, <1>4 DEF Asks
<1>7. \A i, j \in DOMAIN D : i < j /\ D[j].kind = "spawn" => D[i].tab # D[j].tab
  <2> TAKE i, j \in DOMAIN D
  <2>1. SUFFICES ASSUME i < j, D[j].kind = "spawn" PROVE D[i].tab # D[j].tab
    OBVIOUS
  <2>2. i \in DOMAIN C /\ D[i] = C[i]
    BY <1>1, <1>2, <2>1
  <2>3. CASE j \in DOMAIN C /\ D[j] = C[j]
    BY <2>1, <2>2, <2>3 DEF Asks
  <2>4. CASE j = n + 1 /\ D[j] = c
    BY <1>3, <2>2, <2>4
  <2> QED
    BY <1>2, <2>3, <2>4
<1>8. Asks(S, D, o + 1)
  BY <1>4, <1>5, <1>6, <1>7 DEF Asks
<1>9. Asks(S, C, o + 1)
  BY <1>3, <1>4 DEF Asks
<1> QED
  BY <1>8, <1>9 DEF D

-----------------------------------------------------------------------------
(* What holds of every reachable state, whatever has gone wrong.             *)
Holes == {"refused", "missed", "late"}

TypeInv ==
    /\ windows \in BOOLEAN /\ quitting \in BOOLEAN
    /\ opened \in 0..MaxOpens /\ tab \in [Tabs -> TabSet]
    /\ commands \in Seq(CommandSet) /\ Len(commands) <= CommandCapacity
    /\ events \in Seq(EventSet) /\ Len(events) <= EventCapacity
    /\ terminals \in Terms /\ holes \subseteq Holes
    /\ extras \in 0..MaxExtras /\ inputs \in 0..extras

Working(b, L) ==
    /\ b \in Runtimes /\ b.todo \subseteq L
    /\ b.at = "emit" <=> b.out # <<>>
    /\ b.at = "join" <=> b.then # "loop"

SessionsInv == DOMAIN session = Sessions /\ AllFine(session)
LinksInv == Links(session, terminals, backend)
AsksInv  == Asks(session, commands, opened)
TabsInv  == \A t \in Tabs : tab[t].phase # "none" => t <= opened /\ ~quitting
Base ==
    /\ TypeInv /\ Working(backend, LiveIn(terminals))
    /\ SessionsInv /\ LinksInv /\ AsksInv /\ TabsInv

LEMMA LiveIs == Live = LiveIn(terminals)
  BY DEF Live, LiveIn

(* What the sessions and the backend leave alone.                            *)
LEMMA SameTabs ==
    ASSUME TypeInv, TabsInv, UNCHANGED <<windows, uiVars, quitting>>, holes' \subseteq Holes,
           extras' \in 0..MaxExtras, inputs' = inputs, inputs \in 0..extras',
           commands' \in Seq(CommandSet), Len(commands') <= CommandCapacity,
           events' \in Seq(EventSet), Len(events') <= EventCapacity, terminals' \in Terms
    PROVE  TypeInv' /\ TabsInv'
  BY DEF TypeInv, TabsInv, uiVars

-----------------------------------------------------------------------------
(* The sessions go on by themselves.                                         *)
LEMMA SupervisorMoves ==
    ASSUME SessionsInv, NEW i \in Sessions, Supervisor(i)
    PROVE  \E n : Moves(session[i], n) /\ Becomes(i, n)
<1>1. Fine(session[i])
  BY DEF SessionsInv, AllFine
<1>2. CASE SeeExit(i)
  BY <1>1, <1>2, LeavingMoves DEF SeeExit, At
<1>3. CASE Obey(i)
  BY <1>1, <1>3, ObeyedMoves DEF Obey, At
<1>4. CASE GracefulExit(i)
  BY <1>1, <1>4, LeavingMoves DEF GracefulExit, At
<1>5. CASE JoinReader(i)
  BY <1>1, <1>5, JoiningMoves DEF JoinReader, At
<1> QED
  BY <1>2, <1>3, <1>4, <1>5 DEF Supervisor

LEMMA FailingMoves ==
    ASSUME SessionsInv, NEW i \in Sessions, Fails(i)
    PROVE  \E n : Moves(session[i], n) /\ Becomes(i, n)
<1> DEFINE s == session[i]
           most == IF s.queue # <<>> /\ Head(s.queue) = Query THEN Len(s.held) ELSE 0
<1>1. Fine(s) /\ s.at = "loop"
  BY DEF SessionsInv, AllFine, Fails, At
<1>2. PICK k \in 0..most : Becomes(i, Breaks([s EXCEPT !.got = @ \o SubSeq(s.held, 1, k)]))
  BY DEF Fails
<1>3. k \in 0..Len(s.held)
  <2>1. Len(s.held) \in Nat
    BY <1>1, Fields DEF Fine
  <2> HIDE DEF s
  <2> QED
    BY <2>1
<1> HIDE DEF s, most
<1>4. Moves(s, Breaks([s EXCEPT !.got = @ \o SubSeq(s.held, 1, k)]))
  BY <1>1, <1>3, BreakingMoves
<1> QED
  BY <1>2, <1>4 DEF s

LEMMA ReaderMoves ==
    ASSUME SessionsInv, NEW i \in Sessions, Read(i)
    PROVE  \E n : Moves(session[i], n) /\ Becomes(i, n)
<1> DEFINE s == session[i]
           Asked(query) == IF query /\ Len(s.queue) < QueueCapacity
                           THEN [s EXCEPT !.queue = Append(@, Query)] ELSE s
           After(query) == [Offer(Asked(query), "output") EXCEPT !.truncated = @ \/ Len(s.out) = OutCapacity]
<1>1. Fine(s) /\ s.at \in {"loop", "joining"}
  BY DEF SessionsInv, AllFine, Read
<1>2. PICK query \in BOOLEAN : Becomes(i, After(query))
  BY DEF Read
<1> HIDE DEF s
<1>3. Moves(s, After(query))
  BY <1>1, ReadingMoves
<1> QED
  BY <1>2, <1>3 DEF s

LEMMA ShellStepMoves ==
    ASSUME SessionsInv, NEW i \in Sessions, Shell(i)
    PROVE  \E n : Moves(session[i], n) /\ Becomes(i, n)
<1> DEFINE s == session[i]
<1>1. Fine(s) /\ s \in SessionSet
  BY FineFields DEF SessionsInv, AllFine
<1>2. s.shell \in {"none", "alive", "dead"} /\ s.hindrance \in {"none", "deaf", "job"} /\ s.flag \in BOOLEAN
  BY <1>1 DEF SessionSet
<1>3. CASE ShellExits(i)
  <2>1. Becomes(i, [s EXCEPT !.shell = "dead"])
    BY <1>3 DEF ShellExits
  <2> HIDE DEF s
  <2>2. [s EXCEPT !.shell = "dead"] = [s EXCEPT !.shell = "dead", !.hindrance = s.hindrance, !.flag = s.flag]
    BY <1>1 DEF SessionSet
  <2>3. Moves(s, [s EXCEPT !.shell = "dead", !.hindrance = s.hindrance, !.flag = s.flag])
    BY <1>1, <1>2, ShellMoves
  <2> QED
    BY <2>1, <2>2, <2>3 DEF s
<1>4. ASSUME NEW h \in {"none", "deaf", "job"}, Becomes(i, [s EXCEPT !.hindrance = h])
      PROVE  \E n : Moves(s, n) /\ Becomes(i, n)
  <2> HIDE DEF s
  <2>1. [s EXCEPT !.hindrance = h] = [s EXCEPT !.shell = s.shell, !.hindrance = h, !.flag = s.flag]
    BY <1>1 DEF SessionSet
  <2>2. Moves(s, [s EXCEPT !.shell = s.shell, !.hindrance = h, !.flag = s.flag])
    BY <1>1, <1>2, ShellMoves
  <2> QED
    BY <1>4, <2>1, <2>2
<1>5. CASE Hinder(i)
  <2>1. PICK what \in (IF windows THEN {"deaf"} ELSE {"deaf", "job"}) :
          Becomes(i, [s EXCEPT !.hindrance = what])
    BY <1>5 DEF Hinder
  <2>2. what \in {"none", "deaf", "job"}
    OBVIOUS
  <2> QED
    BY <1>4, <2>1, <2>2
<1>6. CASE HindranceEnds(i)
  BY <1>4, <1>6 DEF HindranceEnds
<1> QED
  BY <1>3, <1>5, <1>6 DEF Shell

SessionStep(i) == Supervisor(i) \/ Fails(i) \/ Read(i) \/ Shell(i)

LEMMA SessionSteps ==
    ASSUME SessionsInv, NEW i \in Sessions, SessionStep(i)
    PROVE  /\ DOMAIN session' = Sessions
           /\ \A j \in Sessions : Fine(session'[j]) /\ Evolves(session[j], session'[j])
<1>1. PICK n : Moves(session[i], n) /\ Becomes(i, n)
  BY SupervisorMoves, FailingMoves, ReaderMoves, ShellStepMoves DEF SessionStep
<1>2. session' = Put(session, i, n) /\ DOMAIN session = Sessions
  BY <1>1 DEF Becomes, Put, SessionsInv
<1>3. /\ DOMAIN session' = Sessions /\ session'[i] = n
      /\ \A j \in Sessions : j # i => session'[j] = session[j]
  BY <1>2 DEF Put
<1>4. \A j \in Sessions : Fine(session[j])
  BY DEF SessionsInv, AllFine
<1>6. \A j \in Sessions : Evolves(session[j], session[j])
  BY DEF Evolves
<1> QED
  BY <1>1, <1>3, <1>4, <1>6 DEF Moves

LEMMA SessionFrame ==
    ASSUME TypeInv, NEW i \in Sessions, SessionStep(i)
    PROVE  /\ UNCHANGED notSession /\ inputs' = inputs
           /\ extras' \in 0..MaxExtras /\ inputs \in 0..extras'
<1>1. UNCHANGED notSession /\ inputs' = inputs /\ (UNCHANGED extras \/ Extra)
  BY DEF SessionStep, Supervisor, SeeExit, Obey, GracefulExit, JoinReader, Fails, Read, Shell,
         ShellExits, Hinder, HindranceEnds, counters
<1>2. extras \in 0..MaxExtras /\ inputs \in 0..extras
  BY DEF TypeInv
<1>3. CASE UNCHANGED extras
  BY <1>1, <1>2, <1>3
<1>4. CASE Extra
  BY <1>1, <1>2, <1>4, Limits DEF Extra
<1> QED
  BY <1>1, <1>3, <1>4

LEMMA SessionsKeepBase ==
    ASSUME Base, NEW i \in Sessions, SessionStep(i)
    PROVE  Base'
<1>1. /\ UNCHANGED notSession /\ inputs' = inputs
      /\ extras' \in 0..MaxExtras /\ inputs \in 0..extras'
  BY SessionFrame DEF Base
<1>2. /\ DOMAIN session' = Sessions
      /\ \A j \in Sessions : Fine(session'[j]) /\ Evolves(session[j], session'[j])
  BY SessionSteps DEF Base
<1>3. TypeInv' /\ TabsInv'
  BY <1>1, SameTabs DEF Base, TypeInv, notSession
<1>4. SessionsInv'
  BY <1>2 DEF SessionsInv, AllFine
<1>5. \A j \in Sessions : Keeps(session[j], session'[j])
  BY <1>2, EvolvesKeeps
<1>6. Links(session', terminals, backend)
  BY <1>5, LinksKept DEF Base, LinksInv, TypeInv
<1>7. Asks(session', commands, opened)
  <2>1. \A j \in Sessions : session'[j].tab = session[j].tab
    BY <1>5 DEF Keeps
  <2> QED
    BY <2>1, AsksSame DEF Base, AsksInv
<1> QED
  BY <1>1, <1>3, <1>4, <1>6, <1>7 DEF Base, LinksInv, AsksInv, notSession, uiVars

-----------------------------------------------------------------------------
(* What the backend does next.                                               *)
LEMMA Replying ==
    ASSUME NEW L, L \subseteq Tabs, NEW out \in Seq(EventSet), NEW todo, todo \subseteq L, Reply(out, todo)
    PROVE  /\ Working(backend', L) /\ backend'.at \in {"loop", "emit"} /\ backend'.out = out
           /\ backend'.then = "loop" /\ backend'.todo = todo /\ backend'.tab = 0
           /\ (out = <<>> => backend' = Loop(todo))
<1>1. CASE out = <<>>
  <2>1. backend' = Loop(todo)
    BY <1>1 DEF Reply
  <2> QED
    BY <1>1, <2>1 DEF Loop, Working, Runtimes, Afters
<1>2. CASE out # <<>>
  <2>1. backend' = [Loop(todo) EXCEPT !.at = "emit", !.out = out]
    BY <1>2 DEF Reply
  <2>2. backend' = [at |-> "emit", tab |-> 0, session |-> 0, then |-> "loop", out |-> out, todo |-> todo]
    BY <2>1 DEF Loop
  <2> QED
    BY <1>2, <2>2 DEF Working, Runtimes, Afters
<1> QED
  BY <1>1, <1>2

(* start_terminal.                                                           *)
StartMay(S, b, t) ==
    /\ DOMAIN S = Sessions /\ AllFine(S) /\ b.at # "join" /\ Links(S, terminals, b)
    /\ t \in Tabs /\ t \notin LiveIn(terminals)

LEMMA EventTypes ==
    ASSUME NEW t \in Tabs, NEW kind \in Kinds, NEW code \in Codes
    PROVE  Event(kind, t, code) \in EventSet /\ <<Event(kind, t, code)>> \in Seq(EventSet)
  BY DEF Event, EventSet

StartFails(S, t) ==
    /\ session' = S /\ terminals' = terminals
    /\ Reply(<<Event("startFailed", t, "none")>>, LiveIn(terminals))
StartsAs(S, t, i) ==
    /\ S[i].at = "none" /\ \A j \in Sessions : S[j].at = "none" => i <= j
    /\ session' = Put(S, i, Spawned(t)) /\ terminals' = On(terminals, t, i)
    /\ Reply(<<Event("started", t, "none")>>, LiveIn(terminals) \cup {t})

LEMMA Starting ==
    ASSUME NEW S, NEW t, StartTerminal(t, S)
    PROVE  StartFails(S, t) \/ \E i \in Sessions : StartsAs(S, t, i)
  BY LiveIs DEF StartTerminal, Put, On, StartFails, StartsAs

LEMMA StartingKeeps ==
    ASSUME TypeInv, NEW S, NEW b, NEW t, StartMay(S, b, t), StartTerminal(t, S)
    PROVE  /\ terminals' \in Terms /\ Working(backend', LiveIn(terminals')) /\ SessionsInv'
           /\ Links(session', terminals', backend') /\ backend'.at = "emit"
           /\ \A j \in Sessions : session'[j].tab \in {S[j].tab, t}
<1>0. /\ t \in Tabs /\ LiveIn(terminals) \subseteq Tabs /\ terminals \in Terms /\ DOMAIN S = Sessions
      /\ \A j \in Sessions : Fine(S[j])
  BY DEF StartMay, LiveIn, TypeInv, AllFine
<1>1. CASE StartFails(S, t)
  <2> DEFINE L == LiveIn(terminals)
             out == <<Event("startFailed", t, "none")>>
  <2>1. out \in Seq(EventSet) /\ out # <<>> /\ L \subseteq Tabs /\ Reply(out, L)
    BY <1>0, <1>1, EventTypes DEF Kinds, Codes, StartFails
  <2> HIDE DEF out, L
  <2>2. Working(backend', L) /\ backend'.at \in {"loop", "emit"} /\ backend'.out = out
    BY <2>1, Replying
  <2>3. backend'.at = "emit"
    BY <2>1, <2>2 DEF Working
  <2>4. Links(S, terminals, backend')
    BY <2>3, LinksElsewhere DEF StartMay
  <2> QED
    BY <1>0, <1>1, <2>2, <2>3, <2>4 DEF SessionsInv, AllFine, L, StartFails
<1>2. ASSUME NEW i \in Sessions, StartsAs(S, t, i)
      PROVE  /\ terminals' \in Terms /\ Working(backend', LiveIn(terminals')) /\ SessionsInv'
             /\ Links(session', terminals', backend') /\ backend'.at = "emit"
             /\ \A j \in Sessions : session'[j].tab \in {S[j].tab, t}
  <2> DEFINE L == LiveIn(terminals) \cup {t}
             out == <<Event("started", t, "none")>>
  <2>1. out \in Seq(EventSet) /\ out # <<>> /\ L \subseteq Tabs /\ Reply(out, L)
    BY <1>0, <1>2, EventTypes DEF Kinds, Codes, StartsAs
  <2> HIDE DEF out
  <2>2. /\ S[i].at = "none" /\ \A j \in Sessions : S[j].at = "none" => i <= j
        /\ session' = Put(S, i, Spawned(t)) /\ terminals' = On(terminals, t, i)
    BY <1>2 DEF StartsAs
  <2>3. Fine(Spawned(t)) /\ Spawned(t).tab = t /\ Spawned(t).at = "loop"
    BY <1>0, SpawnedIsFine DEF TypeInv
  <2>4. /\ terminals' \in Terms /\ LiveIn(terminals') = L
        /\ Links(session', terminals', b)
    BY <1>0, <2>2, <2>3, LinksStarted DEF StartMay
  <2> HIDE DEF L
  <2>5. Working(backend', L) /\ backend'.at \in {"loop", "emit"} /\ backend'.out = out
    BY <2>1, Replying
  <2>6. backend'.at = "emit"
    BY <2>1, <2>5 DEF Working
  <2>7. Links(session', terminals', backend')
    BY <2>4, <2>6, LinksElsewhere DEF StartMay
  <2>8. /\ DOMAIN session' = Sessions /\ session'[i] = Spawned(t)
        /\ \A j \in Sessions : j # i => session'[j] = S[j]
    BY <1>0, <2>2 DEF Put
  <2>9. SessionsInv' /\ \A j \in Sessions : session'[j].tab \in {S[j].tab, t}
    BY <1>0, <2>3, <2>8 DEF SessionsInv, AllFine
  <2> QED
    BY <2>4, <2>5, <2>6, <2>7, <2>9
<1> QED
  BY <1>1, <1>2, Starting

(* What is left to show of a step of the backend.                            *)
BackendKeeps ==
    /\ terminals' \in Terms /\ Working(backend', LiveIn(terminals')) /\ SessionsInv'
    /\ Links(session', terminals', backend') /\ Asks(session', commands', opened)

LEMMA BackendBase ==
    ASSUME Base, UNCHANGED <<windows, uiVars, quitting, counters>>, holes' \subseteq Holes,
           commands' \in Seq(CommandSet), Len(commands') <= CommandCapacity,
           events' \in Seq(EventSet), Len(events') <= EventCapacity, BackendKeeps
    PROVE  Base'
<1>1. TypeInv' /\ TabsInv'
  BY SameTabs DEF Base, TypeInv, counters, BackendKeeps
<1> QED
  BY <1>1 DEF Base, BackendKeeps, LinksInv, AsksInv, uiVars

LEMMA TakingKeeps ==
    ASSUME Base, NEW kind, Take(kind)
    PROVE  /\ commands \in Seq(CommandSet) /\ commands # <<>>
           /\ commands' = Tail(commands) /\ commands' \in Seq(CommandSet) /\ Len(commands') <= CommandCapacity
           /\ Head(commands) \in CommandSet /\ Head(commands) = commands[1] /\ 1 \in DOMAIN commands
           /\ Head(commands).kind = kind
           /\ Taken \in Tabs /\ backend = Loop({}) /\ ~quitting
           /\ backend.at = "loop" /\ UNCHANGED notBackend /\ events' = events
<1>1. commands \in Seq(CommandSet) /\ commands # <<>> /\ commands' = Tail(commands) /\ Head(commands).kind = kind
      /\ Len(commands) <= CommandCapacity /\ backend = Loop({}) /\ UNCHANGED notBackend /\ events' = events
      /\ ~quitting
  BY DEF Take, Base, TypeInv
<1>2. /\ Tail(commands) \in Seq(CommandSet) /\ Len(commands) \in Nat \ {0} /\ Len(Tail(commands)) = Len(commands) - 1
      /\ DOMAIN commands = 1..Len(commands) /\ Head(commands) \in CommandSet /\ Head(commands) = commands[1]
  BY <1>1, TakingFirst
<1>3. Len(commands') <= CommandCapacity /\ 1 \in DOMAIN commands
  BY <1>1, <1>2, Limits
<1>4. Taken \in Tabs
  BY <1>2 DEF Taken, CommandSet
<1>5. backend.at = "loop"
  BY <1>1 DEF Loop
<1> QED
  BY <1>1, <1>2, <1>3, <1>4, <1>5

LEMMA TakenKeeps ==
    ASSUME Base, NEW kind, Take(kind), BackendKeeps
    PROVE  Base'
<1>1. /\ commands' \in Seq(CommandSet) /\ Len(commands') <= CommandCapacity
      /\ UNCHANGED notBackend /\ events' = events
  BY TakingKeeps
<1>2. holes' \subseteq Holes /\ events' \in Seq(EventSet) /\ Len(events') <= EventCapacity
      /\ UNCHANGED <<windows, uiVars, quitting, counters>>
  BY <1>1 DEF Base, TypeInv, notBackend
<1> QED
  BY <1>1, <1>2, BackendBase

LEMMA StartTaken ==
    ASSUME Base, NEW kind, Take(kind), Taken \notin Live, StartTerminal(Taken, session)
    PROVE  Base'
<1>1. /\ commands \in Seq(CommandSet) /\ commands # <<>> /\ commands' = Tail(commands)
      /\ Taken \in Tabs /\ backend.at = "loop"
  BY TakingKeeps
<1>2. StartMay(session, backend, Taken)
  BY <1>1, LiveIs DEF StartMay, Base, SessionsInv, LinksInv
<1>3. /\ terminals' \in Terms /\ Working(backend', LiveIn(terminals')) /\ SessionsInv'
      /\ Links(session', terminals', backend')
      /\ \A j \in Sessions : session'[j].tab \in {session[j].tab, Taken}
  BY <1>2, StartingKeeps DEF Base
<1>4. Asks(session', commands', opened)
  BY <1>1, <1>3, AsksTaken DEF Base, AsksInv, Taken
<1>5. BackendKeeps
  BY <1>3, <1>4 DEF BackendKeeps
<1> QED
  BY <1>5, TakenKeeps

LEMMA SpawnedNew ==
    ASSUME Base, Take("spawn")
    PROVE  Taken \notin Live /\ \A j \in Sessions : session[j].tab # Taken
<1>1. /\ 1 \in DOMAIN commands /\ commands[1].kind = "spawn" /\ commands[1].tab = Taken
  BY TakingKeeps DEF Taken
<1>2. \A j \in Sessions : session[j].tab # Taken
  BY <1>1 DEF Base, AsksInv, Asks
<1>3. \A t \in LiveIn(terminals) : terminals[t] \in Sessions /\ session[terminals[t]].tab = t
  BY LiveTerm DEF Base, TypeInv, LinksInv, Links, Owners
<1> QED
  BY <1>2, <1>3, LiveIs

LEMMA SpawnKeepsBase == ASSUME Base, RunSpawn PROVE Base'
  BY SpawnedNew, StartTaken DEF RunSpawn

(* A session is told to end and is waited for.                               *)
LEMMA Shutting ==
    ASSUME Base, backend.at # "join", NEW t \in Live, NEW next \in Afters \ {"loop"}, ShutThen(t, next)
    PROVE  /\ terminals' = Off(terminals, t) /\ terminals' \in Terms
           /\ LiveIn(terminals') = LiveIn(terminals) \ {t}
           /\ Working(backend', LiveIn(terminals')) /\ SessionsInv'
           /\ Links(session', terminals', backend')
           /\ \A j \in Sessions : Evolves(session[j], session'[j])
           /\ backend'.at = "join" /\ backend'.tab = t /\ backend'.then = next
           /\ backend'.session = terminals[t] /\ backend'.out = <<>>
<1> DEFINE i == terminals[t]
           s == session[i]
           n == [s EXCEPT !.shell = s.shell, !.hindrance = s.hindrance, !.flag = TRUE]
<1>1. t \in LiveIn(terminals) /\ t \in Tabs /\ i \in Sessions /\ terminals \in Terms
  BY LiveIs, LiveTerm DEF Base, TypeInv
<1>2. DOMAIN session = Sessions /\ \A j \in Sessions : Fine(session[j])
  BY DEF Base, SessionsInv, AllFine
<1>3. session' = [session EXCEPT ![i].flag = TRUE] /\ terminals' = Off(terminals, t)
      /\ backend' = [Loop({}) EXCEPT !.at = "join", !.tab = t, !.session = i, !.then = next]
  BY DEF ShutThen, Shut, Off
<1>4. Fine(s) /\ s \in SessionSet
  BY <1>1, <1>2, FineFields
<1>5. backend' = [at |-> "join", tab |-> t, session |-> i, then |-> next, out |-> <<>>, todo |-> {}]
  BY <1>3 DEF Loop
<1> HIDE DEF i
<1>6. n = [s EXCEPT !.flag = TRUE] /\ s.shell \in {"none", "alive", "dead"} /\ s.hindrance \in {"none", "deaf", "job"}
  BY <1>4 DEF SessionSet
<1>7. session'[i] = n /\ DOMAIN session' = Sessions /\ \A j \in Sessions : j # i => session'[j] = session[j]
  BY <1>1, <1>2, <1>3, <1>6
<1> HIDE DEF s
<1>8. Moves(s, n)
  BY <1>4, <1>6, ShellMoves
<1> HIDE DEF n
<1>9. \A j \in Sessions : Evolves(session[j], session[j])
  BY DEF Evolves
<1>10. \A j \in Sessions : Fine(session'[j]) /\ Evolves(session[j], session'[j])
  BY <1>2, <1>7, <1>8, <1>9 DEF Moves, s
<1>11. backend'.at = "join" /\ backend'.tab = t /\ backend'.session = terminals[t]
       /\ backend'.then = next /\ backend'.out = <<>>
  BY <1>5 DEF i
<1>12. /\ terminals' \in Terms /\ LiveIn(terminals') = LiveIn(terminals) \ {t}
       /\ Links(session, terminals', backend')
  <2>1. Links(session, terminals, backend)
    BY DEF Base, LinksInv
  <2>2. /\ Off(terminals, t) \in Terms /\ LiveIn(Off(terminals, t)) = LiveIn(terminals) \ {t}
        /\ Links(session, Off(terminals, t), backend')
    BY <1>1, <1>11, <2>1, LinksShut
  <2> QED
    BY <1>3, <2>2
<1>13. Links(session', terminals', backend')
  BY <1>10, <1>12, EvolvesKeeps, LinksKept
<1>14. Working(backend', LiveIn(terminals'))
  BY <1>1, <1>5 DEF Working, Runtimes
<1> QED
  BY <1>3, <1>7, <1>10, <1>11, <1>12, <1>13, <1>14 DEF SessionsInv, AllFine

LEMMA ShutTaken ==
    ASSUME Base, NEW kind, Take(kind), Taken \in Live, NEW next \in Afters \ {"loop"}, ShutThen(Taken, next)
    PROVE  Base'
<1>1. /\ commands \in Seq(CommandSet) /\ commands # <<>> /\ commands' = Tail(commands)
      /\ backend.at = "loop"
  BY TakingKeeps
<1>2. /\ terminals' \in Terms /\ Working(backend', LiveIn(terminals')) /\ SessionsInv'
      /\ Links(session', terminals', backend')
      /\ \A j \in Sessions : Evolves(session[j], session'[j])
  BY <1>1, Shutting
<1>3. Asks(session', commands', opened)
  <2>1. \A j \in Sessions : session'[j].tab \in {session[j].tab, Head(commands).tab}
    BY <1>2 DEF Evolves
  <2> QED
    BY <1>1, <2>1, AsksTaken DEF Base, AsksInv
<1>4. BackendKeeps
  BY <1>2, <1>3 DEF BackendKeeps
<1> QED
  BY <1>4, TakenKeeps

LEMMA RestartKeepsBase == ASSUME Base, RunRestart PROVE Base'
<1>1. CASE Taken \in Live
  BY <1>1, ShutTaken DEF RunRestart, Afters
<1>2. CASE Taken \notin Live
  BY <1>2, StartTaken DEF RunRestart
<1> QED
  BY <1>1, <1>2

(* A step of the backend that does not touch which session is whose.         *)
LEMMA TakenQuietly ==
    ASSUME Base, NEW kind, Take(kind), terminals' = terminals,
           NEW out \in Seq(EventSet), Reply(out, Live), DOMAIN session' = Sessions,
           \A j \in Sessions : Fine(session'[j]) /\ Evolves(session[j], session'[j])
    PROVE  Base'
<1>1. /\ commands \in Seq(CommandSet) /\ commands # <<>> /\ commands' = Tail(commands)
      /\ backend.at = "loop"
  BY TakingKeeps
<1>2. /\ Working(backend', LiveIn(terminals)) /\ backend'.at \in {"loop", "emit"}
  <2>1. Live \subseteq Tabs /\ Live = LiveIn(terminals)
    BY LiveIs DEF LiveIn
  <2> QED
    BY <2>1, Replying
<1>3. Links(session', terminals, backend')
  <2>1. Links(session, terminals, backend) /\ terminals \in Terms
    BY DEF Base, LinksInv, TypeInv
  <2>2. Links(session, terminals, backend')
    BY <1>1, <1>2, <2>1, LinksElsewhere
  <2>3. \A j \in Sessions : Keeps(session[j], session'[j])
    BY EvolvesKeeps
  <2> QED
    BY <2>1, <2>2, <2>3, LinksKept
<1>4. Asks(session', commands', opened)
  <2>1. \A j \in Sessions : session'[j].tab \in {session[j].tab, Head(commands).tab}
    BY DEF Evolves
  <2> QED
    BY <1>1, <2>1, AsksTaken DEF Base, AsksInv
<1>5. SessionsInv' /\ terminals' \in Terms
  BY DEF Base, TypeInv, SessionsInv, AllFine
<1>6. BackendKeeps
  BY <1>2, <1>3, <1>4, <1>5 DEF BackendKeeps
<1> QED
  BY <1>6, TakenKeeps

LEMMA QuietSessions ==
    ASSUME Base
    PROVE  /\ DOMAIN session = Sessions
           /\ \A j \in Sessions : Fine(session[j]) /\ Evolves(session[j], session[j])
  BY DEF Base, SessionsInv, AllFine, Evolves

LEMMA NoteType == Note \in EventSet /\ <<Note>> \in Seq(EventSet) /\ <<>> \in Seq(EventSet)
  BY DEF Note, Event, EventSet, Kinds, Codes

(* What a write does to the session.                                         *)
LEMMA WriteEffect ==
    ASSUME Base, RunWrite
    PROVE  /\ terminals' = terminals /\ \E out \in {<<>>, <<Note>>} : Reply(out, Live)
           /\ DOMAIN session' = Sessions
           /\ \A j \in Sessions : Fine(session'[j]) /\ Evolves(session[j], session'[j])
<1> DEFINE i == terminals[Taken]
           x == Head(commands).input
           s == session[i]
           n == [s EXCEPT !.queue = Append(@, x), !.accepted = Append(@, x)]
<1>1. terminals' = terminals /\ Take("write")
  BY DEF RunWrite
<1>2. x \in Inputs /\ Taken \in Tabs
  BY <1>1, TakingKeeps DEF Base, AsksInv, Asks
<1>3. CASE Taken \notin Live
  BY <1>1, <1>3, QuietSessions DEF RunWrite
<1>4. CASE Taken \in Live /\ ~(s.at # "gone" /\ Len(s.queue) < QueueCapacity)
  BY <1>1, <1>4, QuietSessions DEF RunWrite
<1>5. CASE Taken \in Live /\ s.at # "gone" /\ Len(s.queue) < QueueCapacity
  <2>1. Taken \in LiveIn(terminals) /\ terminals \in Terms
    BY <1>5, LiveIs DEF Base, TypeInv
  <2>2. i \in Sessions /\ s.tab = Taken
    BY <2>1, LiveTerm DEF Base, LinksInv, Links, Owners
  <2>3. Fine(s) /\ s \in SessionSet /\ s.at # "none"
    <3>1. Fine(s) /\ Taken # 0
      BY <1>2, <2>2, QuietSessions DEF Tabs
    <3> QED
      BY <2>2, <3>1, FineFields
  <2>4. session' = [session EXCEPT ![i].queue = Append(@, x), ![i].accepted = Append(@, x)]
        /\ Reply(<<>>, Live)
    BY <1>5 DEF RunWrite
  <2>5. DOMAIN session = Sessions
    BY QuietSessions
  <2> HIDE DEF i, x
  <2>6. session'[i] = n /\ DOMAIN session' = Sessions /\ \A j \in Sessions : j # i => session'[j] = session[j]
    BY <2>2, <2>3, <2>4, <2>5 DEF SessionSet
  <2> HIDE DEF s
  <2>7. Moves(s, n)
    BY <1>2, <1>5, <2>3, AcceptedIsFine
  <2> HIDE DEF n
  <2>8. \A j \in Sessions : Fine(session'[j]) /\ Evolves(session[j], session'[j])
    BY <2>6, <2>7, QuietSessions DEF Moves, s
  <2> QED
    BY <1>1, <2>4, <2>6, <2>8
<1> QED
  BY <1>3, <1>4, <1>5

LEMMA WriteKeepsBase == ASSUME Base, RunWrite PROVE Base'
<1>1. Take("write")
  BY DEF RunWrite
<1> QED
  BY <1>1, WriteEffect, NoteType, TakenQuietly

LEMMA StopKeepsBase == ASSUME Base, RunStop PROVE Base'
<1>1. Take("stop") /\ Taken \in Tabs
  BY TakingKeeps DEF RunStop
<1>2. CASE Taken \in Live
  BY <1>1, <1>2, ShutTaken DEF RunStop, Afters
<1>3. CASE Taken \notin Live
  <2>1. <<Event("exited", Taken, "zero")>> \in Seq(EventSet)
    BY <1>1, EventTypes DEF Kinds, Codes
  <2>2. /\ terminals' = terminals /\ session' = session
        /\ Reply(<<Event("exited", Taken, "zero")>>, Live)
    BY <1>3 DEF RunStop
  <2> QED
    BY <1>1, <2>1, <2>2, QuietSessions, TakenQuietly
<1> QED
  BY <1>2, <1>3

(* A session that has been joined is dropped.                                *)
AfterJoin == Put(session, backend.session, Forgotten(backend.session, FALSE))

LEMMA JoinedSessions ==
    ASSUME Base, backend.at = "join", At(backend.session, "gone")
    PROVE  /\ StartMay(AfterJoin, Loop({}), backend.tab)
           /\ \A j \in Sessions : \E k \in Sessions : AfterJoin[j].tab = session[k].tab
           /\ \E k \in Sessions : backend.tab = session[k].tab
<1> DEFINE i == backend.session
           n == Forgotten(i, FALSE)
<1>1. Links(session, terminals, backend) /\ terminals \in Terms /\ Loop({}).at # "join"
  BY DEF Base, LinksInv, TypeInv, Loop
<1>2. i \in Sessions /\ backend.tab \in Tabs /\ session[i].tab = backend.tab /\ backend.tab \notin LiveIn(terminals)
  BY <1>1 DEF Links, Joins
<1>3. DOMAIN session = Sessions /\ \A j \in Sessions : Fine(session[j])
  BY QuietSessions
<1>4. Fine(session[i]) /\ session[i].at = "gone"
  BY <1>2, <1>3 DEF At
<1>5. Fine(n) /\ n.tab = session[i].tab /\ n.at = "gone"
  BY <1>4, ForgottenIsFine
<1>6. Links(AfterJoin, terminals, Loop({}))
  <2> HIDE DEF n
  <2>1. Links(Put(session, i, n), terminals, Loop({}))
    BY <1>1, <1>3, <1>4, <1>5, LinksDropped
  <2> QED
    BY <2>1 DEF AfterJoin, n
<1>7. /\ AfterJoin[i] = n /\ DOMAIN AfterJoin = Sessions
      /\ \A j \in Sessions : j # i => AfterJoin[j] = session[j]
  BY <1>2, <1>3 DEF AfterJoin, Put
<1> HIDE DEF n, i
<1>8. AllFine(AfterJoin) /\ \A j \in Sessions : AfterJoin[j].tab = session[j].tab
  BY <1>3, <1>5, <1>7 DEF AllFine
<1> QED
  BY <1>1, <1>2, <1>6, <1>7, <1>8 DEF StartMay

LEMMA JoinedKeepsBase == ASSUME Base, Joined PROVE Base'
<1> DEFINE J == AfterJoin
           t == backend.tab
<1>1. backend.at = "join" /\ At(backend.session, "gone") /\ UNCHANGED <<notBackend, commands, events>>
  BY DEF Joined
<1>2. /\ StartMay(J, Loop({}), t)
      /\ \A j \in Sessions : \E k \in Sessions : J[j].tab = session[k].tab
      /\ \E k \in Sessions : t = session[k].tab
  BY <1>1, JoinedSessions
<1>3. SUFFICES BackendKeeps
  <2>1. UNCHANGED <<windows, uiVars, quitting, counters>> /\ holes' \subseteq Holes
        /\ commands' \in Seq(CommandSet) /\ Len(commands') <= CommandCapacity
        /\ events' \in Seq(EventSet) /\ Len(events') <= EventCapacity
    BY <1>1 DEF Base, TypeInv, notBackend
  <2> QED
    BY <2>1, BackendBase
<1>4. /\ Asks(session, commands, opened) /\ commands' = commands /\ terminals \in Terms /\ TypeInv
      /\ LiveIn(terminals) \subseteq Tabs
  BY <1>1 DEF Base, AsksInv, TypeInv, LiveIn
<1>5. \/ backend.then = "start" /\ StartTerminal(t, J)
      \/ /\ Reply(<<Event("exited", t, "zero")>>, Live) /\ session' = J /\ terminals' = terminals
      \/ /\ backend' = Loop({}) /\ session' = J /\ terminals' = terminals
  BY DEF Joined, AfterJoin, Put
<1>6. CASE StartTerminal(t, J)
  <2>1. /\ terminals' \in Terms /\ Working(backend', LiveIn(terminals')) /\ SessionsInv'
        /\ Links(session', terminals', backend')
        /\ \A j \in Sessions : session'[j].tab \in {J[j].tab, t}
    BY <1>2, <1>4, <1>6, StartingKeeps
  <2>2. \A j \in Sessions : \E k \in Sessions : session'[j].tab = session[k].tab
    BY <1>2, <2>1
  <2>3. Asks(session', commands', opened)
    BY <1>4, <2>2, AsksSame
  <2> QED
    BY <2>1, <2>3 DEF BackendKeeps
<1>7. CASE /\ Working(backend', LiveIn(terminals)) /\ backend'.at # "join"
           /\ session' = J /\ terminals' = terminals
  <2>1. /\ DOMAIN J = Sessions /\ AllFine(J) /\ Links(J, terminals, Loop({})) /\ Loop({}).at # "join"
    BY <1>2 DEF StartMay
  <2>2. Links(J, terminals, backend')
    BY <1>7, <2>1, LinksElsewhere
  <2>3. Asks(J, commands', opened)
    BY <1>2, <1>4, AsksSame
  <2> QED
    BY <1>4, <1>7, <2>1, <2>2, <2>3 DEF BackendKeeps, SessionsInv
<1>8. CASE /\ Reply(<<Event("exited", t, "zero")>>, Live) /\ session' = J /\ terminals' = terminals
  <2>1. t \in Tabs
    BY <1>2 DEF StartMay
  <2>2. <<Event("exited", t, "zero")>> \in Seq(EventSet) /\ LiveIn(terminals) = Live
    BY <2>1, EventTypes, LiveIs DEF Kinds, Codes
  <2>3. Working(backend', LiveIn(terminals)) /\ backend'.at \in {"loop", "emit"}
    BY <1>4, <1>8, <2>2, Replying
  <2> QED
    BY <1>7, <1>8, <2>3
<1>9. CASE /\ backend' = Loop({}) /\ session' = J /\ terminals' = terminals
  <2>1. Working(backend', LiveIn(terminals)) /\ backend'.at # "join"
    BY <1>9 DEF Loop, Working, Runtimes, Afters
  <2> QED
    BY <1>7, <1>9, <2>1
<1> QED
  BY <1>5, <1>6, <1>8, <1>9

(* The sessions are not touched.                                             *)
LEMMA SameSessions ==
    ASSUME Base, terminals' = terminals, session' = session, commands' = commands,
           opened' = opened,
           Working(backend', LiveIn(terminals)), backend.at # "join", backend'.at # "join"
    PROVE  BackendKeeps
<1>1. Links(session, terminals, backend) /\ terminals \in Terms /\ SessionsInv
      /\ Asks(session, commands, opened)
  BY DEF Base, LinksInv, TypeInv, AsksInv
<1>2. Links(session, terminals, backend')
  BY <1>1, LinksElsewhere
<1> QED
  BY <1>1, <1>2 DEF BackendKeeps, SessionsInv

LEMMA EmitKeepsBase == ASSUME Base, Emit PROVE Base'
<1> DEFINE o == backend.out
<1>1. Working(backend, LiveIn(terminals)) /\ backend.at = "emit" /\ o \in Seq(EventSet)
  BY DEF Base, Emit, Working, Runtimes
<1>2. o # <<>> /\ backend.todo \subseteq LiveIn(terminals)
  BY <1>1 DEF Working
<1>3. Reply(Tail(o), backend.todo) /\ UNCHANGED <<windows, uiVars, quitting, counters, commands, terminals, session>>
      /\ \/ Len(events) < EventCapacity /\ events' = Append(events, Head(o)) /\ holes' = holes
         \/ holes' = holes \cup {"missed"} /\ events' = events
  BY DEF Emit, Hole
<1>4. /\ Tail(o) \in Seq(EventSet) /\ Head(o) \in EventSet
  BY <1>1, <1>2, TakingFirst
<1> HIDE DEF o
<1>5. LiveIn(terminals) \subseteq Tabs
  BY DEF LiveIn
<1>6. Working(backend', LiveIn(terminals)) /\ backend'.at \in {"loop", "emit"}
  BY <1>2, <1>3, <1>4, <1>5, Replying
<1>7. BackendKeeps
  BY <1>1, <1>3, <1>6, SameSessions DEF uiVars
<1>8. events \in Seq(EventSet) /\ Len(events) <= EventCapacity /\ holes \subseteq Holes
      /\ commands \in Seq(CommandSet) /\ Len(commands) <= CommandCapacity
  BY DEF Base, TypeInv
<1>9. events' \in Seq(EventSet) /\ Len(events') <= EventCapacity
  <2>1. CASE events' = events
    BY <1>8, <2>1
  <2>2. CASE Len(events) < EventCapacity /\ events' = Append(events, Head(o))
    <3>1. events' \in Seq(EventSet) /\ Len(events') = Len(events) + 1 /\ Len(events) \in Nat
      BY <1>4, <1>8, <2>2, PuttingLast
    <3> QED
      BY <2>2, <3>1, Limits
  <2> QED
    BY <1>3, <2>1, <2>2
<1>10. holes' \subseteq Holes
  BY <1>3, <1>8 DEF Holes
<1> QED
  BY <1>3, <1>7, <1>8, <1>9, <1>10, BackendBase

LEMMA QuietlyKept ==
    ASSUME Base, UNCHANGED <<notBackend, commands, events>>, BackendKeeps
    PROVE  Base'
<1>1. UNCHANGED <<windows, uiVars, quitting, counters>> /\ holes' \subseteq Holes
      /\ commands' \in Seq(CommandSet) /\ Len(commands') <= CommandCapacity
      /\ events' \in Seq(EventSet) /\ Len(events') <= EventCapacity
  BY DEF Base, TypeInv, notBackend
<1> QED
  BY <1>1, BackendBase

LEMMA NoCommandKeepsBase == ASSUME Base, NoCommand PROVE Base'
<1>1. backend = Loop({}) /\ backend' = Loop(Live) /\ UNCHANGED <<notBackend, commands, events, terminals, session>>
  BY DEF NoCommand
<1>2. Working(backend', LiveIn(terminals)) /\ backend.at # "join" /\ backend'.at # "join"
  BY <1>1, LiveIs DEF Loop, Working, Runtimes, Afters, LiveIn
<1>3. BackendKeeps
  BY <1>1, <1>2, SameSessions DEF notBackend, uiVars
<1> QED
  BY <1>1, <1>3, QuietlyKept

LEMMA StopBackendKeepsBase == ASSUME Base, StopBackend PROVE Base'
<1>1. backend = Loop({}) /\ UNCHANGED <<notBackend, commands, events>> /\ backend.at # "join"
  BY DEF StopBackend, Loop
<1>2. CASE backend' = [Loop({}) EXCEPT !.at = "stopped"] /\ UNCHANGED <<terminals, session>>
  <2>1. backend' = [at |-> "stopped", tab |-> 0, session |-> 0, then |-> "loop", out |-> <<>>, todo |-> {}]
    BY <1>2 DEF Loop
  <2>2. Working(backend', LiveIn(terminals)) /\ backend'.at # "join"
    BY <2>1 DEF Working, Runtimes, Afters
  <2>3. BackendKeeps
    BY <1>1, <1>2, <2>2, SameSessions DEF notBackend, uiVars
  <2> QED
    BY <1>1, <2>3, QuietlyKept
<1>3. ASSUME NEW t \in Live, ShutThen(t, "quit") PROVE Base'
  <2>1. /\ terminals' \in Terms /\ Working(backend', LiveIn(terminals')) /\ SessionsInv'
        /\ Links(session', terminals', backend')
        /\ \A j \in Sessions : Evolves(session[j], session'[j])
    BY <1>1, <1>3, Shutting DEF Afters
  <2>2. Asks(session', commands', opened)
    <3>1. \A j \in Sessions : \E k \in Sessions : session'[j].tab = session[k].tab
      BY <2>1 DEF Evolves
    <3> QED
      BY <1>1, <3>1, AsksSame DEF Base, AsksInv
  <2>3. BackendKeeps
    BY <2>1, <2>2 DEF BackendKeeps
  <2> QED
    BY <1>1, <2>3, QuietlyKept
<1> QED
  BY <1>2, <1>3 DEF StopBackend

(* What is read of a session in one round, and what is left of it.           *)
ReadOf(s) == IF Len(s.out) < DrainLimit THEN Len(s.out) ELSE DrainLimit
TakenOf(s) == SubSeq(s.out, 1, ReadOf(s))
RestOf(s) == [s EXCEPT !.out = SubSeq(s.out, ReadOf(s) + 1, Len(s.out)), !.reported = s.truncated]
CodeOf(s) == ExitCode(s, TakenOf(s))
ToldOf(t, s) == Drained(t, s, TakenOf(s), CodeOf(s))

LEMMA CodeType == ASSUME NEW s PROVE CodeOf(s) \in {"unknown", "own", "none"}
  BY DEF CodeOf, ExitCode

LEMMA ToldType ==
    ASSUME NEW t \in Tabs, NEW s PROVE ToldOf(t, s) \in Seq(EventSet)
<1> DEFINE taken == TakenOf(s)
           code == CodeOf(s)
           a == IF \E i \in DOMAIN taken : taken[i] # "exited" THEN <<Note>> ELSE <<>>
           b == IF s.truncated /\ ~s.reported THEN <<Event("truncated", t, "none")>> ELSE <<>>
           c == IF code = "none" THEN <<>> ELSE <<Event("exited", t, code)>>
<1>1. ToldOf(t, s) = a \o b \o c
  BY DEF ToldOf, Drained
<1>2. a \in Seq(EventSet) /\ b \in Seq(EventSet)
  BY NoteType, EventTypes DEF Kinds, Codes
<1>3. c \in Seq(EventSet)
  <2>1. code \in Codes /\ "exited" \in Kinds
    BY CodeType DEF Codes, Kinds
  <2> HIDE DEF code
  <2> QED
    BY <2>1, NoteType, EventTypes
<1> HIDE DEF a, b, c
<1> QED
  BY <1>1, <1>2, <1>3

LEMMA RestKeeps ==
    ASSUME NEW s, Fine(s), CodeOf(s) = "none"
    PROVE  Fine(RestOf(s)) /\ Keeps(s, RestOf(s))
<1> DEFINE o == s.out
           n == ReadOf(s)
           p == SubSeq(o, n + 1, Len(o))
           r == RestOf(s)
           u == s.truncated
<1>1. Sound(s) /\ s \in SessionSet /\ o \in Seq(Heard) /\ Len(o) <= OutCapacity /\ u \in BOOLEAN
  BY FineFields DEF Fine, Sound
<1>2. Len(o) \in Nat /\ n \in 0..Len(o)
  BY <1>1, Limits DEF ReadOf
<1>3. /\ p \in Seq(Heard) /\ Len(p) = Len(o) - n
      /\ \A k \in 1..(Len(o) - n) : p[k] = o[n + k]
  <2> HIDE DEF o, n
  <2> QED
    BY <1>1, <1>2
<1>4. r = [s EXCEPT !.out = p, !.reported = u]
  BY DEF RestOf
<1> HIDE DEF o, p, r, u, n
<1>5. Len(p) <= OutCapacity
  BY <1>1, <1>2, <1>3, Limits
<1>6. r \in SessionSet
  BY <1>1, <1>3, <1>4 DEF SessionSet
<1>7. /\ r.queue = s.queue /\ r.out = p /\ r.at = s.at /\ r.tab = s.tab /\ r.shell = s.shell
      /\ r.ready = s.ready /\ r.held = s.held /\ r.got = s.got /\ r.accepted = s.accepted
  BY <1>1, <1>4 DEF SessionSet
<1>8. r.reported = u /\ r.truncated = s.truncated /\ r.unknown = s.unknown
  BY <1>1, <1>4 DEF SessionSet
<1>9. Sound(r)
  BY <1>1, <1>5, <1>6, <1>7, <1>8 DEF Sound, u
<1>10. InOrder(r)
  BY <1>7 DEF Fine, InOrder
<1>11. s.at = "gone" /\ Told127(s) => Told127(r)
  <2> SUFFICES ASSUME s.at = "gone", Told127(s), ~s.unknown PROVE Told127(r)
    BY <1>8 DEF Told127
  <2>1. PICK k \in DOMAIN o : o[k] = "exited"
    BY DEF Told127, o
  <2>2. k \in 1..Len(o)
    BY <1>1, <2>1
  <2>3. "exited" \notin Range(TakenOf(s))
    BY DEF CodeOf, ExitCode
  <2>4. TakenOf(s) = SubSeq(o, 1, n)
    BY DEF TakenOf, o, n
  <2>5. ~(k <= n)
    <3> SUFFICES ASSUME k <= n PROVE FALSE
      OBVIOUS
    <3>1. k \in 1..n
      BY <1>2, <2>2
    <3>2. k \in DOMAIN SubSeq(o, 1, n) /\ SubSeq(o, 1, n)[k] = o[k]
      BY <1>1, <1>2, <3>1
    <3> QED
      BY <2>1, <2>3, <2>4, <3>2 DEF Range
  <2>6. k - n \in 1..(Len(o) - n) /\ n + (k - n) = k
    BY <1>2, <2>2, <2>5
  <2>7. k - n \in DOMAIN p /\ p[k - n] = "exited"
    BY <1>3, <2>1, <2>6
  <2> QED
    BY <1>7, <2>7 DEF Told127
<1>12. Keeps(s, r)
  BY <1>7, <1>11 DEF Keeps
<1> QED
  BY <1>9, <1>10, <1>12 DEF Fine, r

DrainsOn(t) ==
    /\ CodeOf(session[terminals[t]]) = "none"
    /\ session' = Put(session, terminals[t], RestOf(session[terminals[t]]))
    /\ terminals' = terminals
DrainsOut(t) ==
    /\ CodeOf(session[terminals[t]]) # "none"
    /\ session' = Put(session, terminals[t], Forgotten(terminals[t], TRUE))
    /\ terminals' = Off(terminals, t)

LEMMA Draining ==
    ASSUME Base, NEW t \in Tabs, Drain(t)
    PROVE  /\ backend.at = "loop" /\ t \in backend.todo /\ t \in LiveIn(terminals)
           /\ terminals[t] \in Sessions /\ Fine(session[terminals[t]])
           /\ session[terminals[t]] \in SessionSet /\ session[terminals[t]].tab = t
           /\ session[terminals[t]].at # "none"
           /\ DrainsOn(t) \/ DrainsOut(t)
           /\ Reply(ToldOf(t, session[terminals[t]]), backend.todo \ {t})
           /\ UNCHANGED <<notBackend, commands, events>>
<1> DEFINE s == session[terminals[t]]
<1>1. backend.at = "loop" /\ t \in backend.todo /\ UNCHANGED <<notBackend, commands, events>>
  BY DEF Drain
<1>2. t \in LiveIn(terminals)
  BY <1>1 DEF Base, Working
<1>3. terminals[t] \in Sessions /\ s.tab = t /\ t # 0
  BY <1>2, LiveTerm DEF Base, TypeInv, LinksInv, Links, Owners, Tabs
<1>4. Fine(s)
  BY <1>3, QuietSessions
<1>5. s \in SessionSet /\ s.at # "none"
  BY <1>3, <1>4, FineFields
<1>6. /\ Becomes(terminals[t], IF CodeOf(s) # "none" THEN Forgotten(terminals[t], TRUE)
                                ELSE [s EXCEPT !.out = SubSeq(@, ReadOf(s) + 1, Len(@)), !.reported = s.truncated])
      /\ terminals' = IF CodeOf(s) = "none" THEN terminals ELSE Off(terminals, t)
      /\ Reply(ToldOf(t, s), backend.todo \ {t})
  BY DEF Drain, ReadOf, TakenOf, CodeOf, ToldOf, Off
<1>7. [s EXCEPT !.out = SubSeq(@, ReadOf(s) + 1, Len(@)), !.reported = s.truncated] = RestOf(s)
  BY <1>5 DEF SessionSet, RestOf
<1>8. DrainsOn(t) \/ DrainsOut(t)
  BY <1>6, <1>7 DEF DrainsOn, DrainsOut, Becomes, Put
<1> QED
  BY <1>1, <1>2, <1>3, <1>4, <1>5, <1>6, <1>8

LEMMA DrainKeepsBase == ASSUME Base, NEW t \in Tabs, Drain(t) PROVE Base'
<1> DEFINE i == terminals[t]
           s == session[i]
           L == LiveIn(terminals)
<1>1. /\ backend.at = "loop" /\ t \in L /\ i \in Sessions /\ Fine(s) /\ s.tab = t /\ s.at # "none"
      /\ Reply(ToldOf(t, s), backend.todo \ {t})
      /\ UNCHANGED <<notBackend, commands, events>>
  BY Draining
<1>2. Links(session, terminals, backend) /\ terminals \in Terms /\ DOMAIN session = Sessions
      /\ Asks(session, commands, opened) /\ \A j \in Sessions : Fine(session[j])
  BY QuietSessions DEF Base, LinksInv, TypeInv, AsksInv
<1>3. L \subseteq Tabs /\ backend.todo \subseteq L
  BY DEF LiveIn, Base, Working
<1>4. ToldOf(t, s) \in Seq(EventSet)
  BY ToldType
<1>5. SUFFICES BackendKeeps
  BY <1>1, QuietlyKept
<1>6. ASSUME NEW n, Fine(n), n.tab = s.tab, session' = Put(session, i, n)
      PROVE  SessionsInv' /\ Asks(session', commands', opened)
  <2> HIDE DEF i
  <2>1. session'[i] = n /\ DOMAIN session' = Sessions /\ \A j \in Sessions : j # i => session'[j] = session[j]
    BY <1>1, <1>2, <1>6 DEF Put
  <2>2. \A j \in Sessions : session'[j].tab = session[j].tab
    BY <1>6, <2>1
  <2>3. Asks(session', commands, opened)
    BY <1>2, <2>2, AsksSame
  <2> QED
    BY <1>1, <1>2, <1>6, <2>1, <2>3 DEF SessionsInv, AllFine
<1>7. CASE DrainsOn(t)
  <2>1. Fine(RestOf(s)) /\ Keeps(s, RestOf(s)) /\ RestOf(s).tab = s.tab
    BY <1>1, <1>7, RestKeeps DEF DrainsOn, Keeps
  <2>2. session' = Put(session, i, RestOf(s)) /\ terminals' = terminals
    BY <1>7 DEF DrainsOn
  <2>3. SessionsInv' /\ Asks(session', commands', opened)
    BY <1>6, <2>1, <2>2
  <2>4. \A j \in Sessions : Keeps(session[j], session'[j])
    <3> HIDE DEF i
    <3>1. session'[i] = RestOf(s) /\ \A j \in Sessions : j # i => session'[j] = session[j]
      BY <1>1, <1>2, <2>2 DEF Put
    <3>2. \A j \in Sessions : Keeps(session[j], session[j])
      BY DEF Keeps
    <3> QED
      BY <2>1, <3>1, <3>2
  <2>5. Working(backend', L) /\ backend'.at \in {"loop", "emit"}
    <3>1. backend.todo \ {t} \subseteq L
      BY <1>3
    <3> HIDE DEF L, s
    <3> QED
      BY <1>1, <1>3, <1>4, <3>1, Replying
  <2>6. Links(session, terminals, backend')
    BY <1>1, <1>2, <2>5, LinksElsewhere
  <2>7. Links(session', terminals, backend')
    BY <1>2, <2>4, <2>6, LinksKept
  <2> QED
    BY <1>2, <2>2, <2>3, <2>5, <2>7 DEF BackendKeeps
<1>8. CASE DrainsOut(t)
  <2> DEFINE n == Forgotten(i, TRUE)
  <2>1. Fine(n) /\ n.tab = t /\ n.at = "gone"
    BY <1>1, ForgottenIsFine
  <2>2. session' = Put(session, i, n) /\ terminals' = Off(terminals, t)
    BY <1>8 DEF DrainsOut
  <2> HIDE DEF n
  <2>3. SessionsInv' /\ Asks(session', commands', opened)
    BY <1>1, <1>6, <2>1, <2>2
  <2>4. Off(terminals, t) \in Terms /\ LiveIn(Off(terminals, t)) = L \ {t}
    <3>1. \A u \in Tabs : u # t => Off(terminals, t)[u] = terminals[u]
      BY <1>2 DEF Off, Terms
    <3>2. t \in Tabs /\ Off(terminals, t)[t] = 0 /\ Off(terminals, t) \in Terms
      BY <1>2 DEF Off, Terms
    <3> QED
      BY <3>1, <3>2 DEF LiveIn
  <2>5. Working(backend', L \ {t}) /\ backend'.at \in {"loop", "emit"}
    <3>1. backend.todo \ {t} \subseteq L \ {t} /\ L \ {t} \subseteq Tabs
      BY <1>3
    <3> HIDE DEF L, s
    <3> QED
      BY <1>1, <1>4, <3>1, Replying
  <2>6. Links(session', Off(terminals, t), backend')
    <3>1. backend.at # "join" /\ backend'.at # "join"
      BY <1>1, <2>5
    <3> QED
      BY <1>1, <1>2, <2>1, <2>2, <3>1, LinksEnded
  <2> QED
    BY <2>2, <2>3, <2>4, <2>5, <2>6 DEF BackendKeeps
<1> QED
  BY <1>7, <1>8, Draining

LEMMA BackendKeepsBase == ASSUME Base, Backend PROVE Base'
  BY DrainKeepsBase, NoCommandKeepsBase, SpawnKeepsBase, RestartKeepsBase, WriteKeepsBase,
     StopKeepsBase, JoinedKeepsBase, EmitKeepsBase, StopBackendKeepsBase DEF Backend

-----------------------------------------------------------------------------
(* The reducer and the user.                                                 *)
TabsKeep(o) ==
    tab' \in [Tabs -> TabSet] /\ \A t \in Tabs : tab'[t].phase # "none" => t <= o

LEMMA UiBase ==
    ASSUME Base, UNCHANGED <<windows, backend, terminals, session>>, quitting' \in BOOLEAN,
           opened' \in 0..MaxOpens, tab' \in [Tabs -> TabSet], TabsInv',
           commands' \in Seq(CommandSet), Len(commands') <= CommandCapacity,
           Asks(session, commands', opened'),
           events' \in Seq(EventSet), Len(events') <= EventCapacity, holes' \subseteq Holes,
           extras' \in 0..MaxExtras, inputs' \in 0..extras'
    PROVE  Base'
<1>1. TypeInv'
  BY DEF Base, TypeInv
<1> QED
  BY <1>1 DEF Base, SessionsInv, LinksInv, AsksInv

(* An event changes a tab that is known, if any.                             *)
Alters(t) == \E n \in TabSet : tab' = [tab EXCEPT ![t] = n]

LEMMA NextEvent ==
    ASSUME Base, NEW kind, NextIs(kind)
    PROVE  /\ Head(events) \in EventSet /\ events \in Seq(EventSet) /\ events # <<>>
           /\ events' = Tail(events) /\ events' \in Seq(EventSet) /\ Len(events') <= EventCapacity
           /\ Head(events).kind = kind /\ ~quitting /\ UNCHANGED <<notUi, commands, opened, counters>>
           /\ (Known(About) => About \in Tabs /\ tab[About] \in TabSet)
<1>1. /\ events \in Seq(EventSet) /\ events # <<>> /\ events' = Tail(events) /\ Len(events) <= EventCapacity
      /\ Head(events).kind = kind /\ ~quitting /\ UNCHANGED <<notUi, commands, opened, counters>>
  BY DEF NextIs, Base, TypeInv
<1>2. /\ Tail(events) \in Seq(EventSet) /\ Len(events) \in Nat \ {0} /\ Len(Tail(events)) = Len(events) - 1
      /\ Head(events) \in EventSet
  BY <1>1, TakingFirst
<1>3. Len(events') <= EventCapacity
  BY <1>1, <1>2, Limits
<1>4. About # 0 => About \in Tabs
  BY <1>2 DEF About, EventSet
<1>5. Known(About) => About \in Tabs /\ tab[About] \in TabSet
  BY <1>4 DEF Known, Base, TypeInv
<1> QED
  BY <1>1, <1>2, <1>3, <1>5

LEMMA EventKeepsBase ==
    ASSUME Base, NEW kind, NextIs(kind), holes' \subseteq Holes,
           tab' = tab \/ (Known(About) /\ Alters(About))
    PROVE  Base'
<1>1. /\ events' \in Seq(EventSet) /\ Len(events') <= EventCapacity
      /\ ~quitting /\ UNCHANGED <<notUi, commands, opened, counters>>
      /\ (Known(About) => About \in Tabs)
  BY NextEvent
<1>2. tab \in [Tabs -> TabSet] /\ opened \in 0..MaxOpens /\ quitting \in BOOLEAN
      /\ commands \in Seq(CommandSet) /\ Len(commands) <= CommandCapacity /\ AsksInv
      /\ extras \in 0..MaxExtras /\ inputs \in 0..extras
  BY DEF Base, TypeInv
<1>3. tab' \in [Tabs -> TabSet] /\ TabsInv'
  <2>1. CASE tab' = tab
    BY <1>1, <1>2, <2>1 DEF Base, TabsInv, notUi
  <2>2. CASE Known(About) /\ Alters(About)
    <3> DEFINE t == About
    <3>1. t \in Tabs /\ tab[t].phase # "none"
      BY <1>1, <2>2 DEF Known
    <3>2. PICK n \in TabSet : tab' = [tab EXCEPT ![t] = n]
      BY <2>2 DEF Alters
    <3> HIDE DEF t
    <3>3. tab' \in [Tabs -> TabSet] /\ \A u \in Tabs : u # t => tab'[u] = tab[u]
      BY <1>2, <3>1, <3>2
    <3>4. \A u \in Tabs : tab'[u].phase # "none" => tab[u].phase # "none"
      BY <3>1, <3>3
    <3> QED
      BY <1>1, <3>3, <3>4 DEF TabsInv, Base, notUi
  <2> QED
    BY <2>1, <2>2
<1> QED
  BY <1>1, <1>2, <1>3, UiBase DEF notUi, counters, AsksInv

(* What an event makes of the tab.                                           *)
LEMMA ReduceKeepsBase == ASSUME Base, Reduce PROVE Base'
<1> DEFINE t == About
           v == tab[t]
           code == Head(events).code
<1>1. PICK kind \in Kinds : NextIs(kind)
  BY DEF Reduce, ReduceStarted, ReduceStartFailed, ReduceTruncated, ReduceExited, ReduceNote, Kinds
<1>2. Known(t) => t \in Tabs /\ v \in TabSet
  BY <1>1, NextEvent
<1>3. code \in Codes
  BY <1>1, NextEvent DEF EventSet
<1>4. holes \subseteq Holes /\ (holes' = holes \/ holes' = holes \cup {"late"})
  BY DEF Reduce, ReduceStarted, ReduceStartFailed, ReduceTruncated, ReduceExited, ReduceNote, Hole,
         Base, TypeInv
<1>5. holes' \subseteq Holes
  BY <1>4 DEF Holes
<1>6. SUFFICES tab' = tab \/ (Known(t) /\ Alters(t))
  BY <1>1, <1>5, EventKeepsBase
<1>7. SUFFICES ASSUME Known(t), tab' # tab PROVE Alters(t)
  BY DEF Reduce, ReduceStarted, ReduceStartFailed, ReduceTruncated, ReduceExited, ReduceNote
<1>8. \/ tab' = [tab EXCEPT ![t] = [NoTab EXCEPT !.phase = "running"]]
      \/ tab' = [tab EXCEPT ![t].phase = "ended"]
      \/ tab' = [tab EXCEPT ![t].truncated = TRUE]
      \/ tab' = [tab EXCEPT ![t].phase = "ended", ![t].code = code]
  BY <1>7 DEF Reduce, ReduceStarted, ReduceStartFailed, ReduceTruncated, ReduceExited, ReduceNote
<1> HIDE DEF t, code
<1>9. tab \in [Tabs -> TabSet] /\ t \in Tabs /\ v \in TabSet
  BY <1>2, <1>7 DEF Base, TypeInv
<1>10. CASE tab' = [tab EXCEPT ![t] = [NoTab EXCEPT !.phase = "running"]]
  <2>1. [NoTab EXCEPT !.phase = "running"] \in TabSet
    BY DEF NoTab, TabSet, Codes
  <2> QED
    BY <1>10, <2>1 DEF Alters
<1>11. CASE tab' = [tab EXCEPT ![t].phase = "ended"]
  <2>1. [v EXCEPT !.phase = "ended"] \in TabSet
    BY <1>9 DEF TabSet
  <2> QED
    BY <1>9, <1>11, <2>1 DEF Alters
<1>12. CASE tab' = [tab EXCEPT ![t].truncated = TRUE]
  <2>1. [v EXCEPT !.truncated = TRUE] \in TabSet
    BY <1>9 DEF TabSet
  <2> QED
    BY <1>9, <1>12, <2>1 DEF Alters
<1>13. CASE tab' = [tab EXCEPT ![t].phase = "ended", ![t].code = code]
  <2>1. [v EXCEPT !.phase = "ended", !.code = code] \in TabSet
    BY <1>3, <1>9 DEF TabSet
  <2>2. tab' = [tab EXCEPT ![t] = [v EXCEPT !.phase = "ended", !.code = code]]
    BY <1>9, <1>13 DEF TabSet
  <2> QED
    BY <2>1, <2>2 DEF Alters
<1> QED
  BY <1>8, <1>10, <1>11, <1>12, <1>13

-----------------------------------------------------------------------------
(* What the user does.                                                       *)
LEMMA Dispatching ==
    ASSUME Base, NEW kind \in Orders \ {"spawn"}, NEW t \in Tabs, t <= opened, NEW x \in {0} \cup Inputs,
           kind = "write" => x \in Inputs, Dispatch(kind, t, x) \/ UNCHANGED <<commands, holes>>
    PROVE  /\ commands' \in Seq(CommandSet) /\ Len(commands') <= CommandCapacity
           /\ Asks(session, commands', opened) /\ holes' \subseteq Holes
<1> DEFINE c == Command(kind, t, x)
<1>1. commands \in Seq(CommandSet) /\ Len(commands) <= CommandCapacity /\ holes \subseteq Holes
      /\ Asks(session, commands, opened)
  BY DEF Base, TypeInv, AsksInv
<1>2. c \in CommandSet /\ c.kind = kind /\ c.tab = t /\ c.input = x
  BY DEF CommandSet, Command
<1>3. \/ Len(commands) < CommandCapacity /\ commands' = Append(commands, c) /\ holes' = holes
      \/ commands' = commands /\ (holes' = holes \/ holes' = holes \cup {"refused"})
  BY DEF Dispatch, Hole
<1> HIDE DEF c
<1>4. CASE Len(commands) < CommandCapacity /\ commands' = Append(commands, c) /\ holes' = holes
  <2>1. commands' \in Seq(CommandSet) /\ Len(commands') = Len(commands) + 1 /\ Len(commands) \in Nat
    BY <1>1, <1>2, <1>4, PuttingLast
  <2>2. Len(commands') <= CommandCapacity
    BY <1>4, <2>1, Limits
  <2>3. Asks(session, Append(commands, c), opened)
    BY <1>1, <1>2, AsksMore
  <2> QED
    BY <1>1, <1>4, <2>1, <2>2, <2>3
<1>5. CASE commands' = commands /\ (holes' = holes \/ holes' = holes \cup {"refused"})
  BY <1>1, <1>5 DEF Holes
<1> QED
  BY <1>3, <1>4, <1>5

LEMMA UserKeepsBase ==
    ASSUME Base, UserMay, opened' = opened, NEW t \in Tabs, tab[t].phase # "none",
           tab' = tab \/ \E n \in TabSet : tab' = [tab EXCEPT ![t] = n],
           commands' \in Seq(CommandSet), Len(commands') <= CommandCapacity,
           Asks(session, commands', opened), holes' \subseteq Holes,
           extras' \in 0..MaxExtras, inputs' \in 0..extras'
    PROVE  Base'
<1>1. UNCHANGED <<windows, backend, terminals, session, quitting, events>> /\ ~quitting
  BY DEF UserMay, notUi
<1>2. tab \in [Tabs -> TabSet] /\ opened \in 0..MaxOpens /\ quitting \in BOOLEAN /\ TabsInv
      /\ events \in Seq(EventSet) /\ Len(events) <= EventCapacity
  BY DEF Base, TypeInv
<1>3. tab' \in [Tabs -> TabSet] /\ \A u \in Tabs : tab'[u].phase # "none" => tab[u].phase # "none"
  <2>1. CASE tab' = tab
    BY <1>2, <2>1
  <2>2. ASSUME NEW n \in TabSet, tab' = [tab EXCEPT ![t] = n]
        PROVE tab' \in [Tabs -> TabSet] /\ \A u \in Tabs : tab'[u].phase # "none" => tab[u].phase # "none"
    <3>1. tab' \in [Tabs -> TabSet] /\ \A u \in Tabs : u # t => tab'[u] = tab[u]
      BY <1>2, <2>2
    <3> QED
      BY <3>1
  <2> QED
    BY <2>1, <2>2
<1>4. TabsInv'
  BY <1>1, <1>2, <1>3 DEF TabsInv
<1> QED
  BY <1>1, <1>2, <1>3, <1>4, UiBase

LEMMA ExtraTypes ==
    ASSUME TypeInv
    PROVE  /\ UNCHANGED counters => extras' \in 0..MaxExtras /\ inputs' \in 0..extras'
           /\ Extra /\ inputs' = inputs + 1 => /\ extras' \in 0..MaxExtras /\ inputs' \in 0..extras'
                                               /\ inputs + 1 \in Inputs
<1>1. extras \in 0..MaxExtras /\ inputs \in 0..extras
  BY DEF TypeInv
<1>2. UNCHANGED counters => extras' \in 0..MaxExtras /\ inputs' \in 0..extras'
  BY <1>1 DEF counters
<1>3. Extra /\ inputs' = inputs + 1 => /\ extras' \in 0..MaxExtras /\ inputs' \in 0..extras'
                                       /\ inputs + 1 \in Inputs
  BY <1>1, Limits DEF Extra, Inputs
<1> QED
  BY <1>2, <1>3

LEMMA CloseKeepsBase == ASSUME Base, NEW t \in Tabs, CloseTab(t) PROVE Base'
<1>1. /\ UserMay /\ tab[t].phase # "none" /\ tab' = [tab EXCEPT ![t] = NoTab] /\ UNCHANGED <<opened, counters>>
      /\ Dispatch("stop", t, 0) \/ UNCHANGED <<commands, holes>>
  BY DEF CloseTab
<1>2. t <= opened /\ NoTab \in TabSet
  BY <1>1 DEF Base, TabsInv, NoTab, TabSet, Codes
<1>3. /\ commands' \in Seq(CommandSet) /\ Len(commands') <= CommandCapacity
      /\ Asks(session, commands', opened) /\ holes' \subseteq Holes
  <2>1. "stop" \in Orders \ {"spawn"} /\ 0 \in {0} \cup Inputs
    BY DEF Orders
  <2> QED
    BY <1>1, <1>2, <2>1, Dispatching
<1>4. extras' \in 0..MaxExtras /\ inputs' \in 0..extras'
  BY <1>1, ExtraTypes DEF Base, counters
<1> QED
  BY <1>1, <1>2, <1>3, <1>4, UserKeepsBase

LEMMA RestartTabKeepsBase == ASSUME Base, NEW t \in Tabs, Restart(t) PROVE Base'
<1>1. /\ UserMay /\ tab[t].phase # "none" /\ tab' = [tab EXCEPT ![t] = [NoTab EXCEPT !.phase = "starting"]]
      /\ UNCHANGED <<opened, counters>> /\ Dispatch("restart", t, 0)
  BY DEF Restart
<1>2. t <= opened /\ [NoTab EXCEPT !.phase = "starting"] \in TabSet
  BY <1>1 DEF Base, TabsInv, NoTab, TabSet, Codes
<1>3. /\ commands' \in Seq(CommandSet) /\ Len(commands') <= CommandCapacity
      /\ Asks(session, commands', opened) /\ holes' \subseteq Holes
  <2>1. "restart" \in Orders \ {"spawn"} /\ 0 \in {0} \cup Inputs
    BY DEF Orders
  <2> QED
    BY <1>1, <1>2, <2>1, Dispatching
<1>4. extras' \in 0..MaxExtras /\ inputs' \in 0..extras'
  BY <1>1, ExtraTypes DEF Base, counters
<1> QED
  BY <1>1, <1>2, <1>3, <1>4, UserKeepsBase

LEMMA StopTabKeepsBase == ASSUME Base, NEW t \in Tabs, Stop(t) PROVE Base'
<1> DEFINE n == [tab[t] EXCEPT !.phase = "stopping", !.stopped = TRUE]
<1>1. /\ UserMay /\ tab[t].phase # "none" /\ tab' = [tab EXCEPT ![t].phase = "stopping", ![t].stopped = TRUE]
      /\ UNCHANGED <<opened, counters>> /\ Dispatch("stop", t, 0)
  BY DEF Stop
<1>2. tab \in [Tabs -> TabSet] /\ tab[t] \in TabSet
  BY DEF Base, TypeInv
<1>3. n \in TabSet
  BY <1>2 DEF TabSet
<1>4. tab' = [tab EXCEPT ![t] = n]
  BY <1>1, <1>2 DEF TabSet
<1>5. t <= opened
  BY <1>1 DEF Base, TabsInv
<1>6. /\ commands' \in Seq(CommandSet) /\ Len(commands') <= CommandCapacity
      /\ Asks(session, commands', opened) /\ holes' \subseteq Holes
  <2>1. "stop" \in Orders \ {"spawn"} /\ 0 \in {0} \cup Inputs
    BY DEF Orders
  <2> QED
    BY <1>1, <1>5, <2>1, Dispatching
<1>7. extras' \in 0..MaxExtras /\ inputs' \in 0..extras'
  BY <1>1, ExtraTypes DEF Base, counters
<1> HIDE DEF n
<1> QED
  BY <1>1, <1>3, <1>4, <1>6, <1>7, UserKeepsBase

LEMMA InputKeepsBase == ASSUME Base, NEW t \in Tabs, Input(t) PROVE Base'
<1>1. /\ UserMay /\ tab[t].phase # "none" /\ UNCHANGED uiVars
      /\ Extra /\ inputs' = inputs + 1 /\ Dispatch("write", t, inputs + 1)
  BY DEF Input
<1>2. t <= opened /\ tab' = tab /\ opened' = opened
  BY <1>1 DEF Base, TabsInv, uiVars
<1>3. extras' \in 0..MaxExtras /\ inputs' \in 0..extras' /\ inputs + 1 \in Inputs
  BY <1>1, ExtraTypes DEF Base
<1>4. /\ commands' \in Seq(CommandSet) /\ Len(commands') <= CommandCapacity
      /\ Asks(session, commands', opened) /\ holes' \subseteq Holes
  <2>1. "write" \in Orders \ {"spawn"} /\ inputs + 1 \in {0} \cup Inputs
    BY <1>3 DEF Orders
  <2> QED
    BY <1>1, <1>2, <1>3, <2>1, Dispatching
<1> QED
  BY <1>1, <1>2, <1>3, <1>4, UserKeepsBase

LEMMA OpenKeepsBase == ASSUME Base, OpenTab PROVE Base'
<1> DEFINE t == opened + 1
           c == Command("spawn", t, 0)
           n == [tab[t] EXCEPT !.phase = "starting"]
<1>1. /\ UserMay /\ opened < MaxOpens /\ opened' = t
      /\ tab' = [tab EXCEPT ![t].phase = "starting"]
      /\ Dispatch("spawn", t, 0) /\ UNCHANGED counters
  BY DEF OpenTab
<1>2. tab \in [Tabs -> TabSet] /\ opened \in 0..MaxOpens /\ commands \in Seq(CommandSet)
      /\ Len(commands) <= CommandCapacity /\ Asks(session, commands, opened) /\ holes \subseteq Holes
      /\ TabsInv /\ events \in Seq(EventSet) /\ Len(events) <= EventCapacity
  BY DEF Base, TypeInv, AsksInv
<1>3. t \in Tabs /\ t \in 0..MaxOpens /\ opened \in Nat /\ opened <= t
  BY <1>1, <1>2, Limits DEF Tabs
<1>4. UNCHANGED <<windows, backend, terminals, session, events, quitting>> /\ ~quitting
  BY <1>1 DEF UserMay, notUi
<1>5. c \in CommandSet /\ c.kind = "spawn" /\ c.tab = opened + 1
  BY <1>3 DEF CommandSet, Command, Orders
<1>6. \/ Len(commands) < CommandCapacity /\ commands' = Append(commands, c) /\ holes' = holes
      \/ commands' = commands /\ holes' = holes \cup {"refused"}
  BY <1>1 DEF Dispatch, Hole
<1>7. \A j \in Sessions : session[j].tab \in Nat
  BY QuietSessions, FineFields DEF Tabs
<1>8. n \in TabSet /\ tab' = [tab EXCEPT ![t] = n]
  BY <1>1, <1>2, <1>3 DEF TabSet
<1>9. extras' \in 0..MaxExtras /\ inputs' \in 0..extras'
  BY <1>1, ExtraTypes DEF Base, counters
<1> HIDE DEF c, n
<1>10. Asks(session, Append(commands, c), opened + 1) /\ Asks(session, commands, opened + 1)
  BY <1>2, <1>3, <1>5, <1>7, AsksOpen
<1>11. /\ commands' \in Seq(CommandSet) /\ Len(commands') <= CommandCapacity
       /\ Asks(session, commands', opened') /\ holes' \subseteq Holes
  <2>1. CASE Len(commands) < CommandCapacity /\ commands' = Append(commands, c) /\ holes' = holes
    <3>1. commands' \in Seq(CommandSet) /\ Len(commands') = Len(commands) + 1 /\ Len(commands) \in Nat
      BY <1>2, <1>5, <2>1, PuttingLast
    <3>2. Len(commands') <= CommandCapacity
      BY <2>1, <3>1, Limits
    <3> QED
      BY <1>1, <1>2, <1>10, <2>1, <3>1, <3>2
  <2>2. CASE commands' = commands /\ holes' = holes \cup {"refused"}
    BY <1>1, <1>2, <1>10, <2>2 DEF Holes
  <2> QED
    BY <1>6, <2>1, <2>2
<1>12. tab' \in [Tabs -> TabSet] /\ TabsInv'
  <2>1. tab' \in [Tabs -> TabSet] /\ \A u \in Tabs : u # t => tab'[u] = tab[u]
    BY <1>2, <1>8
  <2>2. ASSUME NEW u \in Tabs, tab'[u].phase # "none" PROVE u <= t /\ ~quitting
    <3>1. CASE u = t
      BY <1>3, <1>4, <3>1
    <3>2. CASE u # t
      <4>1. u <= opened
        BY <1>2, <2>1, <2>2, <3>2 DEF TabsInv
      <4> QED
        BY <1>3, <1>4, <4>1 DEF Tabs
    <3> QED
      BY <3>1, <3>2
  <2> QED
    BY <1>1, <1>4, <2>1, <2>2 DEF TabsInv
<1> QED
  BY <1>1, <1>2, <1>3, <1>4, <1>9, <1>11, <1>12, UiBase DEF Base, TypeInv

LEMMA QuitKeepsBase == ASSUME Base, Quit PROVE Base'
<1>1. /\ tab' = [t \in Tabs |-> NoTab] /\ opened' = MaxOpens /\ quitting' = TRUE
      /\ commands' = <<>> /\ events' = <<>> /\ holes' = {}
      /\ UNCHANGED <<windows, backend, terminals, session, counters>>
  BY DEF Quit
<1>2. NoTab \in TabSet /\ NoTab.phase = "none"
  BY DEF NoTab, TabSet, Codes
<1>3. tab' \in [Tabs -> TabSet] /\ TabsInv'
  BY <1>1, <1>2 DEF TabsInv
<1>4. Asks(session, <<>>, MaxOpens)
  <2>1. \A j \in Sessions : session[j].tab <= MaxOpens
    BY QuietSessions, FineFields, Limits DEF Tabs
  <2> QED
    BY <2>1 DEF Asks
<1>5. extras' \in 0..MaxExtras /\ inputs' \in 0..extras'
  BY <1>1, ExtraTypes DEF Base, counters
<1>6. <<>> \in Seq(CommandSet) /\ <<>> \in Seq(EventSet) /\ Len(<<>>) = 0 /\ MaxOpens \in 0..MaxOpens
      /\ 0 <= CommandCapacity /\ 0 <= EventCapacity
  BY Limits
<1> QED
  BY <1>1, <1>3, <1>4, <1>5, <1>6, UiBase

LEMMA AllUsersKeepBase == ASSUME Base, User PROVE Base'
  BY CloseKeepsBase, RestartTabKeepsBase, StopTabKeepsBase, InputKeepsBase, OpenKeepsBase, QuitKeepsBase
     DEF User

-----------------------------------------------------------------------------
(* The base of the invariant.                                                *)
LEMMA BaseInit == ASSUME Init PROVE Base
<1>1. NoTab \in TabSet /\ NoTab.phase = "none"
  BY DEF NoTab, TabSet, Codes
<1>2. TypeInv
  <2>1. <<>> \in Seq(CommandSet) /\ <<>> \in Seq(EventSet) /\ Len(<<>>) = 0
    OBVIOUS
  <2>2. tab \in [Tabs -> TabSet] /\ terminals \in Terms
    BY <1>1 DEF Init, Terms
  <2>3. opened \in 0..MaxOpens /\ extras \in 0..MaxExtras /\ inputs \in 0..extras
    BY Limits DEF Init
  <2>4. windows \in BOOLEAN /\ quitting \in BOOLEAN /\ holes \subseteq Holes
    BY DEF Init
  <2>5. /\ commands \in Seq(CommandSet) /\ Len(commands) <= CommandCapacity
        /\ events \in Seq(EventSet) /\ Len(events) <= EventCapacity
    BY <2>1, Limits DEF Init
  <2> QED
    BY <2>2, <2>3, <2>4, <2>5 DEF TypeInv
<1>3. Working(backend, LiveIn(terminals))
  BY DEF Init, Loop, Working, Runtimes, Afters
<1>4. LiveIn(terminals) = {} /\ \A i \in Sessions : session[i] = NoSession
  BY DEF Init, LiveIn
<1>5. SessionsInv
  BY <1>4, NoSessionIsFine DEF Init, SessionsInv, AllFine
<1>6. NoSession.at = "none" /\ NoSession.tab = 0
  BY DEF NoSession
<1>7. LinksInv
  <2>1. backend.at # "join"
    BY DEF Init, Loop
  <2> QED
    BY <1>4, <1>6, <2>1 DEF LinksInv, Links, Owners, Joins, InHands, InTurn, Newest, WillTell
<1>8. AsksInv
  BY <1>4, <1>6 DEF Init, AsksInv, Asks
<1>9. TabsInv
  BY <1>1 DEF Init, TabsInv
<1> QED
  BY <1>2, <1>3, <1>5, <1>7, <1>8, <1>9 DEF Base

LEMMA BaseStep == ASSUME Base, [Next]_vars PROVE Base'
<1>1. CASE UNCHANGED vars
  BY <1>1 DEF vars, uiVars, counters, Base, TypeInv, SessionsInv, LinksInv, AsksInv, TabsInv
<1>2. ASSUME NEW i \in Sessions, Supervisor(i) \/ Fails(i) \/ Read(i) \/ Shell(i) PROVE Base'
  BY <1>2, SessionsKeepBase DEF SessionStep
<1>3. CASE Exited
  BY <1>1, <1>3 DEF Exited
<1> QED
  BY <1>1, <1>2, <1>3, BackendKeepsBase, ReduceKeepsBase, AllUsersKeepBase DEF Next

LEMMA BaseAlways == Spec => []Base
<1>1. Init => Base
  BY BaseInit
<1>2. Base /\ [Next]_vars => Base'
  BY BaseStep
<1> QED
  BY <1>1, <1>2, PTL DEF Spec

LEMMA PrefixOf ==
    ASSUME NEW p \in Seq(Inputs), NEW q \in Seq(Inputs), Starts(p, q)
    PROVE  IsPrefix(p, q)
<1>1. PICK r \in Seq(Inputs) : q = p \o r
  BY DEF Starts, Cat
<1>2. Len(p) <= Len(q) /\ \A k \in 1..Len(p) : q[k] = p[k]
  BY <1>1
<1> QED
  BY <1>2 DEF IsPrefix

(* The values of the variables; every channel keeps to its capacity.         *)
THEOREM TypesHold == Spec => []TypeOK
<1>1. ASSUME Base PROVE TypeOK
  <2>1. /\ windows \in BOOLEAN /\ quitting \in BOOLEAN
        /\ opened \in 0..MaxOpens /\ tab \in [Tabs -> TabSet]
        /\ commands \in Seq(CommandSet) /\ Len(commands) <= CommandCapacity
        /\ events \in Seq(EventSet) /\ Len(events) <= EventCapacity
        /\ terminals \in Terms /\ holes \subseteq Holes
    BY <1>1 DEF Base, TypeInv
  <2>2. \A i \in DOMAIN commands : commands[i].kind \in {"spawn", "restart", "write", "stop"}
    <3>1. \A i \in DOMAIN commands : commands[i] \in CommandSet
      BY <2>1
    <3> QED
      BY <3>1 DEF CommandSet, Orders
  <2>3. \A i \in DOMAIN events :
          events[i].kind \in {"started", "startFailed", "truncated", "exited", "note"}
    <3>1. \A i \in DOMAIN events : events[i] \in EventSet
      BY <2>1
    <3> QED
      BY <3>1 DEF EventSet, Kinds
  <2>4. backend.at \in {"loop", "join", "emit", "stopped"} /\ backend.todo \subseteq Live
    BY <1>1, LiveIs DEF Base, Working, Runtimes
  <2>5. ASSUME NEW i \in Sessions
        PROVE  LET s == session[i]
               IN  /\ s.at \in {"none", "loop", "joining", "gone"}
                   /\ Range(s.queue) \subseteq Inputs \cup {Query} /\ Len(s.queue) <= QueueCapacity
                   /\ Range(s.out) \subseteq {"output", "failed", "exited"} /\ Len(s.out) <= OutCapacity
                   /\ s.hindrance \in {"none", "deaf", "job"}
    <3> DEFINE s == session[i]
    <3>1. Fine(s)
      BY <1>1, QuietSessions
    <3>2. s \in SessionSet /\ Len(s.queue) <= QueueCapacity /\ Len(s.out) <= OutCapacity
          /\ s.queue \in Seq(Queued) /\ s.out \in Seq(Heard)
      BY <3>1, Fields DEF Fine, Sound
    <3> HIDE DEF s
    <3>3. Range(s.queue) \subseteq Inputs \cup {Query} /\ Range(s.out) \subseteq {"output", "failed", "exited"}
      BY <3>2 DEF Range, Queued, Heard
    <3>4. s.at \in {"none", "loop", "joining", "gone"} /\ s.hindrance \in {"none", "deaf", "job"}
      BY <3>2 DEF SessionSet
    <3> QED
      BY <3>2, <3>3, <3>4 DEF s
  <2>6. holes \subseteq {"refused", "missed", "late"}
    BY <2>1 DEF Holes
  <2> QED
    BY <2>1, <2>2, <2>3, <2>4, <2>5, <2>6 DEF TypeOK, TabSet, Codes, Terms
<1> QED
  BY <1>1, BaseAlways, PTL

(* Whatever is typed while the shell starts, and however queries fall in     *)
(* between, a shell gets the accepted input in its order, each once, and     *)
(* none is left behind while the session lasts.                              *)
THEOREM InputKeepsItsOrder == Spec => []InputInOrder
<1>1. ASSUME Base PROVE InputInOrder
  <2> SUFFICES ASSUME NEW i \in Sessions
               PROVE  /\ IsPrefix(session[i].got, session[i].accepted)
                      /\ session[i].at = "loop" =>
                           session[i].got \o (session[i].held \o Writes(session[i].queue)) = session[i].accepted
    BY DEF InputInOrder
  <2> DEFINE s == session[i]
  <2>1. Fine(s)
    BY <1>1, QuietSessions
  <2>2. s.got \in Seq(Inputs) /\ s.accepted \in Seq(Inputs)
    BY <2>1, Fields DEF Fine
  <2>3. Starts(s.got, s.accepted) /\ (s.at = "loop" => s.accepted = Cat(s.got, Cat(s.held, Writes(s.queue))))
    BY <2>1 DEF Fine, InOrder
  <2> HIDE DEF s
  <2>4. IsPrefix(s.got, s.accepted)
    BY <2>2, <2>3, PrefixOf
  <2>5. s.at = "loop" => s.got \o (s.held \o Writes(s.queue)) = s.accepted
    BY <2>3 DEF Cat
  <2> QED
    BY <2>4, <2>5 DEF s
<1> QED
  BY <1>1, BaseAlways, PTL

-----------------------------------------------------------------------------
(* As long as nothing has gone wrong.  Of the commands and of the events on  *)
(* their way a tab sees those of a rank; where all fits, they are in the     *)
(* order of their ranks.                                                     *)
Calm == holes = {} /\ ~quitting

Ranks(q, r)  == {r[q[i]] : i \in DOMAIN q} \ {0}
Rising(q, r) == \A i, j \in DOMAIN q : i < j /\ r[q[i]] # 0 /\ r[q[j]] # 0 => r[q[i]] < r[q[j]]
Leads(q, r)  == \E k \in DOMAIN q : r[q[k]] = 6 /\ \A j \in DOMAIN q : j < k => r[q[j]] = 0
Covered(q, r) ==
    \A i \in DOMAIN q : r[q[i]] \in {2, 3} => \E j \in DOMAIN q : i < j /\ r[q[j]] = 1

CommandRank(t) ==
    [c \in CommandSet |->
        IF c.tab # t THEN 0
        ELSE IF c.kind = "stop" THEN 1
        ELSE IF c.kind = "spawn" THEN 2
        ELSE IF c.kind = "restart" THEN 3 ELSE 0]

EventRank(t) ==
    [e \in EventSet |->
        IF e.tab # t THEN 0
        ELSE IF e.kind = "started" THEN 1
        ELSE IF e.kind = "startFailed" THEN 2
        ELSE IF e.kind = "truncated" THEN 3
        ELSE IF e.kind # "exited" THEN 0
        ELSE IF e.code = "zero" THEN 6
        ELSE IF e.code = "unknown" THEN 5 ELSE 4]

(* The events that the reducer will read.                                    *)
Pipe == Cat(events, backend.out)
Wishes(t)     == Ranks(commands, CommandRank(t))
Tidings(t)    == Ranks(Pipe, EventRank(t))
CommandsUp(t) == Rising(commands, CommandRank(t))
PipeUp(t)     == Rising(Pipe, EventRank(t))
Cover(t)      == Covered(commands, CommandRank(t))
Late(t)       == Leads(Pipe, EventRank(t))
IsLive(t)     == t \in LiveIn(terminals)

(* Whether the backend waits for the session of the tab, and for what; what  *)
(* the session has told of its lost output, and what is known of the last    *)
(* session when it is in no hand any more.                                   *)
Join(t) == IF backend.at = "join" /\ backend.tab = t THEN backend.then ELSE "loop"
Rep(t)  == IsLive(t) /\ session[terminals[t]].reported
Mark(s) == [truncated |-> s.truncated, unknown |-> s.unknown]
Tale(t) == {Mark(session[i]) : i \in {j \in Latest(t) : ~IsLive(t) /\ Join(t) = "loop"}}

(* The states of a tab.                                                      *)
Free(t) == ~IsLive(t) /\ Join(t) = "loop"
Runs(t, shown) == IsLive(t) /\ ((shown \/ 3 \in Tidings(t)) <=> Rep(t))
Left(t, shown) ==
    /\ Free(t)
    /\ \A p \in Tale(t) : /\ (shown \/ 3 \in Tidings(t)) <=> p.truncated
                          /\ 5 \in Tidings(t) => p.unknown
Honest(t) ==
    tab[t].code # "none" =>
        /\ tab[t].code = "zero" => tab[t].stopped
        /\ \A p \in Tale(t) : /\ tab[t].code = "unknown" => p.unknown
                              /\ tab[t].code # "zero" => tab[t].truncated = p.truncated
Fresh(t) == Tidings(t) \ {3}

InTime(t) == CommandsUp(t) /\ PipeUp(t)
StartFits(t) ==
    /\ tab[t].phase = "starting" /\ tab[t].code = "none" /\ InTime(t)
    /\ \/ Wishes(t) \in {{2}, {3}, {1, 3}} /\ Tidings(t) = {} /\ Free(t)
       \/ Wishes(t) = {} /\ Tidings(t) = {2} /\ Free(t)
       \/ Wishes(t) = {} /\ Fresh(t) = {1} /\ Runs(t, FALSE)
       \/ Wishes(t) = {} /\ Fresh(t) \in {{1, 4}, {1, 5}} /\ Left(t, FALSE)
RunFits(t) ==
    /\ tab[t].phase = "running" /\ InTime(t) /\ Wishes(t) = {}
    /\ \/ Fresh(t) = {} /\ Runs(t, tab[t].truncated)
       \/ Fresh(t) \in {{4}, {5}} /\ Left(t, tab[t].truncated)
StopFits(t) ==
    /\ tab[t].phase = "stopping" /\ tab[t].stopped /\ InTime(t)
    /\ \/ Wishes(t) = {1} /\ Fresh(t) = {} /\ Runs(t, tab[t].truncated)
       \/ Wishes(t) = {1} /\ Fresh(t) \in {{4}, {5}} /\ Left(t, tab[t].truncated)
       \/ Wishes(t) = {} /\ Fresh(t) \in {{4, 6}, {5, 6}} /\ Left(t, tab[t].truncated)
       \/ Wishes(t) = {} /\ Fresh(t) = {6} /\ Free(t)
       \/ Wishes(t) = {} /\ Fresh(t) = {} /\ ~IsLive(t) /\ Join(t) = "exited"
EndFits(t) ==
    /\ tab[t].phase = "ended" /\ InTime(t) /\ Honest(t) /\ Free(t)
    /\ \/ Wishes(t) = {} /\ Tidings(t) = {}
       \/ tab[t].stopped /\ Wishes(t) = {1} /\ Tidings(t) = {}
       \/ tab[t].stopped /\ Wishes(t) = {} /\ Tidings(t) = {6}
NewFits(t) ==
    /\ tab[t].phase = "none" /\ t > opened /\ tab[t].code = "none"
    /\ Wishes(t) = {} /\ Tidings(t) = {} /\ Free(t)
ClosedFits(t) ==
    /\ tab[t].phase = "none" /\ ~(t > opened)
    /\ Cover(t) /\ (IsLive(t) \/ Join(t) = "start" => 1 \in Wishes(t))
(* The exit of a shell that was stopped will reach a tab that starts again.  *)
Doomed(t) ==
    /\ tab[t].phase = "starting" /\ Late(t)
    /\ 3 \in Wishes(t) \/ Join(t) = "start" \/ 1 \in Tidings(t) \/ 2 \in Tidings(t)

Shown(t) ==
    \/ NewFits(t) \/ StartFits(t) \/ RunFits(t) \/ StopFits(t) \/ EndFits(t)
    \/ ClosedFits(t) \/ Doomed(t)

(* The tabs that can have a shell when the command i is taken.               *)
Behind(C, kind, u, i) == \E j \in DOMAIN C : i < j /\ C[j].kind = kind /\ C[j].tab = u
Holders(v, C, i) ==
    {u \in Tabs : (v[u].phase # "none" \/ Behind(C, "stop", u, i)) /\ ~Behind(C, "spawn", u, i)}
Roomy(v, C) == \A i \in DOMAIN C : C[i].kind = "spawn" => Cardinality(Holders(v, C, i)) <= MaxTerminalTabs

CalmInv == Calm => (\A t \in Tabs : Shown(t)) /\ Roomy(tab, commands)

(* Ranks along two sequences, one after the other.                           *)
LEMMA CatParts ==
    ASSUME NEW S, NEW p \in Seq(S), NEW s \in Seq(S)
    PROVE  /\ Len(p) \in Nat /\ Len(s) \in Nat /\ DOMAIN p = 1..Len(p) /\ DOMAIN s = 1..Len(s)
           /\ DOMAIN Cat(p, s) = 1..(Len(p) + Len(s))
           /\ \A i \in 1..Len(p) : Cat(p, s)[i] = p[i]
           /\ \A i \in 1..Len(s) : Cat(p, s)[Len(p) + i] = s[i]
  BY DEF Cat

(* Every place of the two is a place of one of them.                         *)
Spliced(q, p, s, m, n) ==
    /\ m \in Nat /\ n \in Nat /\ DOMAIN p = 1..m /\ DOMAIN s = 1..n /\ DOMAIN q = 1..(m + n)
    /\ \A i \in 1..m : q[i] = p[i]
    /\ \A i \in 1..n : q[m + i] = s[i]

LEMMA CatSplices ==
    ASSUME NEW S, NEW p \in Seq(S), NEW s \in Seq(S)
    PROVE  Spliced(Cat(p, s), p, s, Len(p), Len(s))
  BY CatParts DEF Spliced

LEMMA Places ==
    ASSUME NEW q, NEW p, NEW s, NEW m, NEW n, Spliced(q, p, s, m, n)
    PROVE  /\ \A i \in DOMAIN q : i \in Nat /\ (i \in DOMAIN p \/ (i - m \in DOMAIN s /\ i > m))
           /\ \A i \in DOMAIN p : i \in Nat /\ i \in DOMAIN q /\ q[i] = p[i] /\ i <= m
           /\ \A i \in DOMAIN s : i \in Nat /\ m + i \in DOMAIN q /\ q[m + i] = s[i] /\ m < m + i
           /\ \A i \in DOMAIN q : i > m => q[i] = s[i - m] /\ i - m \in DOMAIN s
<1>1. m \in Nat /\ n \in Nat /\ DOMAIN p = 1..m /\ DOMAIN s = 1..n /\ DOMAIN q = 1..(m + n)
  BY DEF Spliced
<1>2. \A i \in 1..(m + n) : i \in Nat /\ (i \in 1..m \/ (i - m \in 1..n /\ i > m))
  BY <1>1
<1>3. \A i \in 1..m : i \in Nat /\ i \in 1..(m + n) /\ i <= m
  BY <1>1
<1>4. \A i \in 1..n : i \in Nat /\ m + i \in 1..(m + n) /\ m < m + i
  BY <1>1
<1>5. \A i \in 1..(m + n) : i > m => i - m \in 1..n /\ m + (i - m) = i
  BY <1>1
<1>6. \A i \in 1..(m + n) : i > m => q[i] = s[i - m]
  BY <1>5 DEF Spliced
<1> QED
  BY <1>1, <1>2, <1>3, <1>4, <1>5, <1>6 DEF Spliced

LEMMA RanksCat ==
    ASSUME NEW S, NEW p \in Seq(S), NEW s \in Seq(S), NEW r
    PROVE  Ranks(Cat(p, s), r) = Ranks(p, r) \cup Ranks(s, r)
<1> DEFINE q == Cat(p, s)
           m == Len(p)
<1>1. Spliced(q, p, s, m, Len(s))
  BY CatSplices
<1> HIDE DEF q, m
<1>2. ASSUME NEW x \in Ranks(q, r) PROVE x \in Ranks(p, r) \cup Ranks(s, r)
  <2>1. PICK i \in DOMAIN q : x = r[q[i]]
    BY DEF Ranks
  <2>2. x # 0
    BY DEF Ranks
  <2>3. i \in DOMAIN p \/ (i - m \in DOMAIN s /\ i > m)
    BY <1>1, Places
  <2>4. CASE i \in DOMAIN p
    <3>1. q[i] = p[i]
      BY <1>1, <2>4, Places
    <3> QED
      BY <2>1, <2>2, <2>4, <3>1 DEF Ranks
  <2>5. CASE i - m \in DOMAIN s /\ i > m
    <3>1. q[i] = s[i - m]
      BY <1>1, <2>5, Places
    <3> QED
      BY <2>1, <2>2, <2>5, <3>1 DEF Ranks
  <2> QED
    BY <2>3, <2>4, <2>5
<1>3. ASSUME NEW x \in Ranks(p, r) PROVE x \in Ranks(q, r)
  <2>1. PICK i \in DOMAIN p : x = r[p[i]]
    BY DEF Ranks
  <2>2. i \in DOMAIN q /\ q[i] = p[i]
    BY <1>1, Places
  <2> QED
    BY <2>1, <2>2 DEF Ranks
<1>4. ASSUME NEW x \in Ranks(s, r) PROVE x \in Ranks(q, r)
  <2>1. PICK i \in DOMAIN s : x = r[s[i]]
    BY DEF Ranks
  <2>2. m + i \in DOMAIN q /\ q[m + i] = s[i]
    BY <1>1, Places
  <2> QED
    BY <2>1, <2>2 DEF Ranks
<1> QED
  BY <1>2, <1>3, <1>4 DEF q

LEMMA RisingCat ==
    ASSUME NEW S, NEW p \in Seq(S), NEW s \in Seq(S), NEW r
    PROVE  Rising(Cat(p, s), r) <=>
             /\ Rising(p, r) /\ Rising(s, r)
             /\ \A x \in Ranks(p, r), y \in Ranks(s, r) : x < y
<1> DEFINE q == Cat(p, s)
           m == Len(p)
           n == Len(s)
<1>1. Spliced(q, p, s, m, n)
  BY CatSplices
<1> HIDE DEF q, m, n
<1>2. m \in Nat
  BY <1>1 DEF Spliced
<1>3. ASSUME Rising(q, r) PROVE Rising(p, r)
  <2>1. \A i \in DOMAIN p : i \in DOMAIN q /\ q[i] = p[i]
    BY <1>1, Places
  <2> QED
    BY <1>3, <2>1 DEF Rising
<1>4. ASSUME Rising(q, r) PROVE Rising(s, r)
  <2>1. \A i \in DOMAIN s : i \in Nat /\ m + i \in DOMAIN q /\ q[m + i] = s[i]
    BY <1>1, Places
  <2>2. \A i, j \in DOMAIN s : i < j => m + i < m + j
    BY <1>2, <2>1
  <2> QED
    BY <1>4, <2>1, <2>2 DEF Rising
<1>5. ASSUME Rising(q, r), NEW x \in Ranks(p, r), NEW y \in Ranks(s, r) PROVE x < y
  <2>1. PICK i \in DOMAIN p : x = r[p[i]] /\ x # 0
    BY DEF Ranks
  <2>2. PICK j \in DOMAIN s : y = r[s[j]] /\ y # 0
    BY DEF Ranks
  <2>3. i \in Nat /\ i \in DOMAIN q /\ q[i] = p[i] /\ i <= m
    BY <1>1, Places
  <2>4. j \in Nat /\ m + j \in DOMAIN q /\ q[m + j] = s[j] /\ m < m + j
    BY <1>1, Places
  <2>5. i < m + j
    BY <1>2, <2>3, <2>4
  <2> QED
    BY <1>5, <2>1, <2>2, <2>3, <2>4, <2>5 DEF Rising
<1>6. ASSUME Rising(p, r), Rising(s, r), \A x \in Ranks(p, r), y \in Ranks(s, r) : x < y
      PROVE  Rising(q, r)
  <2> SUFFICES ASSUME NEW i \in DOMAIN q, NEW j \in DOMAIN q, i < j, r[q[i]] # 0, r[q[j]] # 0
               PROVE  r[q[i]] < r[q[j]]
    BY DEF Rising
  <2>1. i \in Nat /\ j \in Nat
    BY <1>1, Places
  <2>2. CASE i \in DOMAIN p /\ j \in DOMAIN p
    <3>1. q[i] = p[i] /\ q[j] = p[j]
      BY <1>1, <2>2, Places
    <3> QED
      BY <1>6, <2>2, <3>1 DEF Rising
  <2>3. CASE i \in DOMAIN p /\ j > m /\ j - m \in DOMAIN s
    <3>1. q[i] = p[i] /\ q[j] = s[j - m]
      BY <1>1, <2>3, Places
    <3>2. r[q[i]] \in Ranks(p, r) /\ r[q[j]] \in Ranks(s, r)
      BY <2>3, <3>1 DEF Ranks
    <3> QED
      BY <1>6, <3>2
  <2>4. CASE i > m /\ j > m /\ i - m \in DOMAIN s /\ j - m \in DOMAIN s
    <3>1. q[i] = s[i - m] /\ q[j] = s[j - m]
      BY <1>1, <2>4, Places
    <3>2. i - m < j - m
      BY <1>2, <2>1
    <3> QED
      BY <1>6, <2>4, <3>1, <3>2 DEF Rising
  <2>5. i \in DOMAIN p \/ (i > m /\ i - m \in DOMAIN s)
    BY <1>1, Places
  <2>6. j \in DOMAIN p \/ (j > m /\ j - m \in DOMAIN s)
    BY <1>1, Places
  <2>7. ~(i > m /\ j \in DOMAIN p)
    <3>1. j \in DOMAIN p => j <= m
      BY <1>1, Places
    <3> QED
      BY <1>2, <2>1, <3>1
  <2> QED
    BY <2>2, <2>3, <2>4, <2>5, <2>6, <2>7
<1> QED
  BY <1>3, <1>4, <1>5, <1>6 DEF q

LEMMA LeadsCat ==
    ASSUME NEW S, NEW p \in Seq(S), NEW s \in Seq(S), NEW r
    PROVE  Leads(Cat(p, s), r) <=> Leads(p, r) \/ (Ranks(p, r) = {} /\ Leads(s, r))
<1> DEFINE q == Cat(p, s)
           m == Len(p)
           n == Len(s)
<1>1. Spliced(q, p, s, m, n)
  BY CatSplices
<1> HIDE DEF q, m, n
<1>2. m \in Nat
  BY <1>1 DEF Spliced
<1>3. ASSUME Leads(p, r) PROVE Leads(q, r)
  <2>1. PICK k \in DOMAIN p : r[p[k]] = 6 /\ \A j \in DOMAIN p : j < k => r[p[j]] = 0
    BY <1>3 DEF Leads
  <2>2. k \in DOMAIN q /\ q[k] = p[k] /\ k \in Nat /\ k <= m
    BY <1>1, Places
  <2>3. ASSUME NEW j \in DOMAIN q, j < k PROVE r[q[j]] = 0
    <3>1. j \in Nat /\ (j \in DOMAIN p \/ j > m)
      BY <1>1, Places
    <3>2. j \in DOMAIN p
      BY <1>2, <2>2, <2>3, <3>1
    <3>3. q[j] = p[j]
      BY <1>1, <3>2, Places
    <3> QED
      BY <2>1, <2>3, <3>2, <3>3
  <2> QED
    BY <2>1, <2>2, <2>3 DEF Leads
<1>4. ASSUME Ranks(p, r) = {}, Leads(s, r) PROVE Leads(q, r)
  <2>1. PICK k \in DOMAIN s : r[s[k]] = 6 /\ \A j \in DOMAIN s : j < k => r[s[j]] = 0
    BY <1>4 DEF Leads
  <2>2. m + k \in DOMAIN q /\ q[m + k] = s[k] /\ k \in Nat
    BY <1>1, Places
  <2>3. ASSUME NEW j \in DOMAIN q, j < m + k PROVE r[q[j]] = 0
    <3>1. j \in Nat /\ (j \in DOMAIN p \/ (j - m \in DOMAIN s /\ j > m))
      BY <1>1, Places
    <3>2. CASE j \in DOMAIN p
      <4>1. q[j] = p[j]
        BY <1>1, <3>2, Places
      <4>2. \A i \in DOMAIN p : r[p[i]] = 0
        BY <1>4 DEF Ranks
      <4> QED
        BY <3>2, <4>1, <4>2
    <3>3. CASE j - m \in DOMAIN s /\ j > m
      <4>1. q[j] = s[j - m]
        BY <1>1, <3>3, Places
      <4>2. j - m < k
        BY <1>2, <2>2, <2>3, <3>1
      <4> QED
        BY <2>1, <3>3, <4>1, <4>2
    <3> QED
      BY <3>1, <3>2, <3>3
  <2> QED
    BY <2>1, <2>2, <2>3 DEF Leads
<1>5. ASSUME Leads(q, r), ~Leads(p, r) PROVE Ranks(p, r) = {} /\ Leads(s, r)
  <2>1. PICK k \in DOMAIN q : r[q[k]] = 6 /\ \A j \in DOMAIN q : j < k => r[q[j]] = 0
    BY <1>5 DEF Leads
  <2>2. \A j \in DOMAIN p : j \in Nat /\ j \in DOMAIN q /\ q[j] = p[j] /\ j <= m
    BY <1>1, Places
  <2>3. k \notin DOMAIN p
    <3> SUFFICES ASSUME k \in DOMAIN p PROVE FALSE
      OBVIOUS
    <3>1. r[p[k]] = 6 /\ \A j \in DOMAIN p : j < k => r[p[j]] = 0
      BY <2>1, <2>2
    <3> QED
      BY <1>5, <3>1 DEF Leads
  <2>4. k \in Nat /\ k - m \in DOMAIN s /\ k > m
    BY <1>1, <2>3, Places
  <2>5. q[k] = s[k - m]
    BY <1>1, <2>4, Places
  <2>6. \A j \in DOMAIN p : r[p[j]] = 0
    <3> TAKE j \in DOMAIN p
    <3>1. j < k
      BY <1>2, <2>2, <2>4
    <3> QED
      BY <2>1, <2>2, <3>1
  <2>7. Ranks(p, r) = {}
    BY <2>6 DEF Ranks
  <2>8. ASSUME NEW j \in DOMAIN s, j < k - m PROVE r[s[j]] = 0
    <3>1. j \in Nat /\ m + j \in DOMAIN q /\ q[m + j] = s[j]
      BY <1>1, Places
    <3>2. m + j < k
      BY <1>2, <2>4, <2>8, <3>1
    <3> QED
      BY <2>1, <3>1, <3>2
  <2> QED
    BY <2>1, <2>4, <2>5, <2>7, <2>8 DEF Leads
<1> QED
  BY <1>3, <1>4, <1>5 DEF q

LEMMA CoveredCat ==
    ASSUME NEW S, NEW p \in Seq(S), NEW s \in Seq(S), NEW r
    PROVE  Covered(Cat(p, s), r) <=> Covered(s, r) /\ (Covered(p, r) \/ 1 \in Ranks(s, r))
<1> DEFINE q == Cat(p, s)
           m == Len(p)
           n == Len(s)
<1>1. Spliced(q, p, s, m, n)
  BY CatSplices
<1> HIDE DEF q, m, n
<1>2. m \in Nat
  BY <1>1 DEF Spliced
<1>3. \A i \in DOMAIN p : i \in Nat /\ i \in DOMAIN q /\ q[i] = p[i] /\ i <= m
  BY <1>1, Places
<1>4. \A i \in DOMAIN s : i \in Nat /\ m + i \in DOMAIN q /\ q[m + i] = s[i] /\ m < m + i
  BY <1>1, Places
<1>5. \A i \in DOMAIN q : i \in Nat /\ (i \in DOMAIN p \/ (i - m \in DOMAIN s /\ i > m))
  BY <1>1, Places
<1>6. \A i \in DOMAIN q : i > m => q[i] = s[i - m] /\ i - m \in DOMAIN s
  BY <1>1, Places
<1>7. ASSUME Covered(q, r) PROVE Covered(s, r)
  <2> SUFFICES ASSUME NEW i \in DOMAIN s, r[s[i]] \in {2, 3}
               PROVE  \E j \in DOMAIN s : i < j /\ r[s[j]] = 1
    BY DEF Covered
  <2>1. PICK k \in DOMAIN q : m + i < k /\ r[q[k]] = 1
    BY <1>4, <1>7 DEF Covered
  <2>2. i \in Nat /\ k \in Nat
    BY <1>4, <1>5
  <2>3. k > m /\ i < k - m
    BY <1>2, <2>1, <2>2
  <2> QED
    BY <1>6, <2>1, <2>3
<1>8. ASSUME Covered(q, r), 1 \notin Ranks(s, r) PROVE Covered(p, r)
  <2> SUFFICES ASSUME NEW i \in DOMAIN p, r[p[i]] \in {2, 3}
               PROVE  \E j \in DOMAIN p : i < j /\ r[p[j]] = 1
    BY DEF Covered
  <2>1. PICK k \in DOMAIN q : i < k /\ r[q[k]] = 1
    BY <1>3, <1>8 DEF Covered
  <2>2. k \in DOMAIN p
    <3> SUFFICES ASSUME k \notin DOMAIN p PROVE FALSE
      OBVIOUS
    <3>1. k - m \in DOMAIN s /\ r[s[k - m]] = 1
      BY <1>5, <1>6, <2>1
    <3>2. 1 # 0
      OBVIOUS
    <3> QED
      BY <1>8, <3>1, <3>2 DEF Ranks
  <2> QED
    BY <1>3, <2>1, <2>2
<1>9. ASSUME Covered(s, r), Covered(p, r) \/ 1 \in Ranks(s, r) PROVE Covered(q, r)
  <2> SUFFICES ASSUME NEW i \in DOMAIN q, r[q[i]] \in {2, 3}
               PROVE  \E j \in DOMAIN q : i < j /\ r[q[j]] = 1
    BY DEF Covered
  <2>1. CASE i \in DOMAIN p /\ Covered(p, r)
    <3>1. PICK j \in DOMAIN p : i < j /\ r[p[j]] = 1
      BY <1>3, <2>1 DEF Covered
    <3> QED
      BY <1>3, <3>1
  <2>2. CASE i \in DOMAIN p /\ 1 \in Ranks(s, r)
    <3>1. PICK j \in DOMAIN s : r[s[j]] = 1
      BY <2>2 DEF Ranks
    <3>2. i < m + j
      BY <1>2, <1>3, <1>4, <2>2
    <3> QED
      BY <1>4, <3>1, <3>2
  <2>3. CASE i > m
    <3>1. i - m \in DOMAIN s /\ r[s[i - m]] \in {2, 3} /\ i \in Nat
      BY <1>5, <1>6, <2>3
    <3>2. PICK j \in DOMAIN s : i - m < j /\ r[s[j]] = 1
      BY <1>9, <3>1 DEF Covered
    <3>3. i < m + j
      BY <1>2, <1>4, <3>1, <3>2
    <3> QED
      BY <1>4, <3>2, <3>3
  <2> QED
    BY <1>5, <1>9, <2>1, <2>2, <2>3
<1> QED
  BY <1>7, <1>8, <1>9 DEF q

-----------------------------------------------------------------------------
(* One element.                                                              *)
LEMMA RanksOne ==
    ASSUME NEW x, NEW r
    PROVE  /\ Ranks(One(x), r) = {r[x]} \ {0} /\ Rising(One(x), r)
           /\ Leads(One(x), r) <=> r[x] = 6
           /\ Covered(One(x), r) <=> r[x] \notin {2, 3}
<1> DEFINE q == One(x)
<1>1. DOMAIN q = {1} /\ q[1] = x
  BY DEF One
<1> HIDE DEF q
<1>2. Ranks(q, r) = {r[x]} \ {0}
  BY <1>1 DEF Ranks
<1>3. Rising(q, r)
  BY <1>1 DEF Rising
<1>4. Leads(q, r) <=> r[x] = 6
  BY <1>1 DEF Leads
<1>5. Covered(q, r) <=> r[x] \notin {2, 3}
  BY <1>1 DEF Covered
<1> QED
  BY <1>2, <1>3, <1>4, <1>5 DEF q

LEMMA RanksNone ==
    ASSUME NEW r
    PROVE  Ranks(<<>>, r) = {} /\ Rising(<<>>, r) /\ ~Leads(<<>>, r) /\ Covered(<<>>, r)
  BY DEF Ranks, Rising, Leads, Covered

(* Where no rank is, nothing is out of order.                                *)
LEMMA Unranked ==
    ASSUME NEW S, NEW q \in Seq(S), NEW r
    PROVE  /\ Ranks(q, r) = {} => Rising(q, r)
           /\ 2 \notin Ranks(q, r) /\ 3 \notin Ranks(q, r) => Covered(q, r)
           /\ Ranks(q, r) = {6} => Leads(q, r)
<1>1. \A i \in DOMAIN q : r[q[i]] # 0 => r[q[i]] \in Ranks(q, r)
  BY DEF Ranks
<1>2. Ranks(q, r) = {} => Rising(q, r)
  BY <1>1 DEF Rising
<1>3. 2 \notin Ranks(q, r) /\ 3 \notin Ranks(q, r) => Covered(q, r)
  BY <1>1 DEF Covered
<1>4. ASSUME Ranks(q, r) = {6} PROVE Leads(q, r)
  <2> DEFINE T == {i \in DOMAIN q : r[q[i]] # 0}
  <2>1. T \in SUBSET Nat
    BY DEF T
  <2>2. 6 \in Ranks(q, r) => T # {}
    BY DEF Ranks
  <2>3. T # {}
    BY <1>4, <2>2
  <2>4. PICK k \in T : \A n \in T : k <= n
    BY <2>1, <2>3, LeastNumber
  <2>5. k \in DOMAIN q /\ k \in Nat /\ r[q[k]] = 6
    BY <1>1, <1>4, <2>1, <2>4
  <2>6. ASSUME NEW j \in DOMAIN q, j < k PROVE r[q[j]] = 0
    <3>1. j \in Nat
      OBVIOUS
    <3>2. j \in T => k <= j
      BY <2>4
    <3> QED
      BY <2>5, <2>6, <3>1, <3>2
  <2> QED
    BY <2>5, <2>6 DEF Leads
<1> QED
  BY <1>2, <1>3, <1>4

(* Something is put at the end, or the first is taken.                       *)
LEMMA RanksPut ==
    ASSUME NEW S, NEW q \in Seq(S), NEW x \in S, NEW r
    PROVE  /\ Ranks(Append(q, x), r) = Ranks(q, r) \cup ({r[x]} \ {0})
           /\ Rising(Append(q, x), r) <=>
                Rising(q, r) /\ (r[x] # 0 => \A y \in Ranks(q, r) : y < r[x])
           /\ Covered(Append(q, x), r) <=> r[x] \notin {2, 3} /\ (Covered(q, r) \/ r[x] = 1)
<1>1. Append(q, x) = Cat(q, One(x)) /\ One(x) \in Seq(S)
  BY PutAsCat, OneType
<1>2. /\ Ranks(One(x), r) = {r[x]} \ {0} /\ Rising(One(x), r)
      /\ Covered(One(x), r) <=> r[x] \notin {2, 3}
  BY RanksOne
<1> DEFINE o == One(x)
<1>3. Ranks(Cat(q, o), r) = Ranks(q, r) \cup Ranks(o, r)
  BY <1>1, RanksCat
<1>4. Rising(Cat(q, o), r) <=>
         Rising(q, r) /\ Rising(o, r) /\ \A y \in Ranks(q, r), z \in Ranks(o, r) : y < z
  BY <1>1, RisingCat
<1>5. Covered(Cat(q, o), r) <=> Covered(o, r) /\ (Covered(q, r) \/ 1 \in Ranks(o, r))
  BY <1>1, CoveredCat
<1>6. Ranks(Append(q, x), r) = Ranks(q, r) \cup ({r[x]} \ {0})
  BY <1>1, <1>2, <1>3
<1>7. Rising(Append(q, x), r) <=>
        Rising(q, r) /\ (r[x] # 0 => \A y \in Ranks(q, r) : y < r[x])
  <2>1. (\A y \in Ranks(q, r), z \in Ranks(o, r) : y < z)
        <=> (r[x] # 0 => \A y \in Ranks(q, r) : y < r[x])
    BY <1>2
  <2> QED
    BY <1>1, <1>2, <1>4, <2>1
<1>8. Covered(Append(q, x), r) <=> r[x] \notin {2, 3} /\ (Covered(q, r) \/ r[x] = 1)
  <2>1. 1 \in Ranks(o, r) <=> r[x] = 1
    BY <1>2
  <2> QED
    BY <1>1, <1>2, <1>5, <2>1
<1> QED
  BY <1>6, <1>7, <1>8

LEMMA RanksTaken ==
    ASSUME NEW S, NEW q \in Seq(S), q # <<>>, NEW r, NEW h, h = r[Head(q)]
    PROVE  /\ Ranks(q, r) = Ranks(Tail(q), r) \cup ({h} \ {0})
           /\ Rising(q, r) => Rising(Tail(q), r) /\ (h # 0 => \A y \in Ranks(Tail(q), r) : h < y)
           /\ Covered(q, r) => Covered(Tail(q), r) /\ (h \in {2, 3} => 1 \in Ranks(Tail(q), r))
           /\ Leads(q, r) => h = 6 \/ (h = 0 /\ Leads(Tail(q), r))
<1>1. q = Cat(One(Head(q)), Tail(q)) /\ Head(q) \in S /\ Tail(q) \in Seq(S)
  BY FirstAndRest, TakingFirst
<1> DEFINE o == One(Head(q))
           t == Tail(q)
<1>2. o \in Seq(S) /\ t \in Seq(S) /\ q = Cat(o, t)
  BY <1>1, OneType
<1>3. /\ Ranks(o, r) = {h} \ {0} /\ (Covered(o, r) <=> h \notin {2, 3}) /\ (Leads(o, r) <=> h = 6)
  BY RanksOne
<1> HIDE DEF o, t
<1>4. Ranks(q, r) = Ranks(o, r) \cup Ranks(t, r)
  BY <1>2, RanksCat
<1>5. Rising(q, r) => Rising(t, r) /\ \A y \in Ranks(o, r), z \in Ranks(t, r) : y < z
  BY <1>2, RisingCat
<1>6. Covered(q, r) => Covered(t, r) /\ (Covered(o, r) \/ 1 \in Ranks(t, r))
  BY <1>2, CoveredCat
<1>7. Leads(q, r) => Leads(o, r) \/ (Ranks(o, r) = {} /\ Leads(t, r))
  BY <1>2, LeadsCat
<1>8. Ranks(o, r) = {} => h = 0
  BY <1>3
<1>9. h # 0 => h \in Ranks(o, r)
  BY <1>3
<1>10. Ranks(q, r) = Ranks(t, r) \cup ({h} \ {0})
  BY <1>3, <1>4
<1>11. Rising(q, r) => Rising(t, r) /\ (h # 0 => \A y \in Ranks(t, r) : h < y)
  BY <1>5, <1>9
<1> QED
  BY <1>3, <1>6, <1>7, <1>8, <1>10, <1>11 DEF t

-----------------------------------------------------------------------------
(* What a step does to the wishes and to the tidings of a tab.               *)
NoWish(u) ==
    Wishes(u)' = Wishes(u) /\ (CommandsUp(u) => CommandsUp(u)') /\ (Cover(u) => Cover(u)')
WishTaken(u, h) ==
    /\ Wishes(u) = Wishes(u)' \cup {h}
    /\ CommandsUp(u) => CommandsUp(u)' /\ \A y \in Wishes(u)' : h < y
    /\ Cover(u) => Cover(u)' /\ (h \in {2, 3} => 1 \in Wishes(u)')
WishMade(u, h) ==
    /\ Wishes(u)' = Wishes(u) \cup {h}
    /\ CommandsUp(u) /\ (\A y \in Wishes(u) : y < h) => CommandsUp(u)'
    /\ h = 1 => Cover(u)'
NoNews(u) ==
    Tidings(u)' = Tidings(u) /\ (PipeUp(u) => PipeUp(u)') /\ (Late(u) => Late(u)')
NewsRead(u, h) ==
    /\ Tidings(u) = Tidings(u)' \cup {h}
    /\ PipeUp(u) => PipeUp(u)' /\ \A y \in Tidings(u)' : h < y
    /\ Late(u) => h = 6
NewsTold(u, R) ==
    /\ Tidings(u)' = Tidings(u) \cup R
    /\ PipeUp(u) /\ (\A x \in Tidings(u), y \in R : x < y) => PipeUp(u)'
    /\ Late(u) \/ (Tidings(u) = {} /\ R = {6}) => Late(u)'

LEMMA RankTypes ==
    ASSUME NEW t
    PROVE  /\ \A c \in CommandSet : CommandRank(t)[c] \in {0, 1, 2, 3}
           /\ \A e \in EventSet : EventRank(t)[e] \in {0, 1, 2, 3, 4, 5, 6}
           /\ \A c \in CommandSet : c.tab # t => CommandRank(t)[c] = 0
           /\ \A e \in EventSet : e.tab # t => EventRank(t)[e] = 0
  BY DEF CommandRank, EventRank

LEMMA OrderRanks ==
    ASSUME NEW t, NEW c \in CommandSet, c.tab = t
    PROVE  /\ c.kind = "stop" => CommandRank(t)[c] = 1
           /\ c.kind = "spawn" => CommandRank(t)[c] = 2
           /\ c.kind = "restart" => CommandRank(t)[c] = 3
           /\ c.kind = "write" => CommandRank(t)[c] = 0
  BY DEF CommandRank

LEMMA NewsRanks ==
    ASSUME NEW t, NEW e \in EventSet, e.tab = t
    PROVE  /\ e.kind = "started" => EventRank(t)[e] = 1
           /\ e.kind = "startFailed" => EventRank(t)[e] = 2
           /\ e.kind = "truncated" => EventRank(t)[e] = 3
           /\ e.kind = "note" => EventRank(t)[e] = 0
           /\ e.kind = "exited" => /\ e.code = "zero" => EventRank(t)[e] = 6
                                   /\ e.code = "unknown" => EventRank(t)[e] = 5
                                   /\ e.code \notin {"zero", "unknown"} => EventRank(t)[e] = 4
  BY DEF EventRank

LEMMA SameCommands == ASSUME commands' = commands, NEW u PROVE NoWish(u)
  BY DEF NoWish, Wishes, CommandsUp, Cover

LEMMA SamePipe == ASSUME Pipe' = Pipe, NEW u PROVE NoNews(u)
  BY DEF NoNews, Tidings, PipeUp, Late

LEMMA CommandTaken ==
    ASSUME commands \in Seq(CommandSet), commands # <<>>, commands' = Tail(commands), NEW u,
           NEW h, h = CommandRank(u)[Head(commands)]
    PROVE  /\ h = 0 => NoWish(u)
           /\ h # 0 => WishTaken(u, h)
<1> DEFINE C == commands
           r == CommandRank(u)
<1>1. /\ Ranks(C, r) = Ranks(Tail(C), r) \cup ({h} \ {0})
      /\ Rising(C, r) => Rising(Tail(C), r) /\ (h # 0 => \A y \in Ranks(Tail(C), r) : h < y)
      /\ Covered(C, r) => Covered(Tail(C), r) /\ (h \in {2, 3} => 1 \in Ranks(Tail(C), r))
  BY RanksTaken
<1>2. /\ Wishes(u) = Ranks(C, r) /\ CommandsUp(u) = Rising(C, r) /\ Cover(u) = Covered(C, r)
      /\ Wishes(u)' = Ranks(Tail(C), r) /\ CommandsUp(u)' = Rising(Tail(C), r)
      /\ Cover(u)' = Covered(Tail(C), r)
  BY DEF Wishes, CommandsUp, Cover
<1> QED
  BY <1>1, <1>2 DEF NoWish, WishTaken

LEMMA CommandPut ==
    ASSUME commands \in Seq(CommandSet), NEW c \in CommandSet, commands' = Append(commands, c), NEW u,
           NEW h, h = CommandRank(u)[c]
    PROVE  /\ h = 0 => NoWish(u)
           /\ h # 0 => WishMade(u, h)
<1> DEFINE C == commands
           D == Append(C, c)
           r == CommandRank(u)
<1>1. /\ Ranks(D, r) = Ranks(C, r) \cup ({h} \ {0})
      /\ Rising(D, r) <=> Rising(C, r) /\ (h # 0 => \A y \in Ranks(C, r) : y < h)
      /\ Covered(D, r) <=> h \notin {2, 3} /\ (Covered(C, r) \/ h = 1)
  BY RanksPut
<1>2. /\ Wishes(u) = Ranks(C, r) /\ CommandsUp(u) = Rising(C, r) /\ Cover(u) = Covered(C, r)
      /\ Wishes(u)' = Ranks(D, r) /\ CommandsUp(u)' = Rising(D, r) /\ Cover(u)' = Covered(D, r)
  BY DEF Wishes, CommandsUp, Cover
<1> HIDE DEF C, D, r
<1> QED
  BY <1>1, <1>2 DEF NoWish, WishMade

(* The events are read from one end of the pipe, and put at the other.       *)
LEMMA PipeTypes ==
    ASSUME Base
    PROVE  /\ events \in Seq(EventSet) /\ backend.out \in Seq(EventSet) /\ Pipe \in Seq(EventSet)
           /\ backend.at # "emit" => backend.out = <<>> /\ Pipe = events
<1>1. events \in Seq(EventSet) /\ backend.out \in Seq(EventSet)
  BY DEF Base, TypeInv, Working, Runtimes
<1>2. backend.at # "emit" => backend.out = <<>>
  BY DEF Base, Working
<1>3. Pipe \in Seq(EventSet)
  BY <1>1, CatType DEF Pipe
<1>4. Cat(events, <<>>) = events
  BY <1>1, CatNone
<1> QED
  BY <1>1, <1>2, <1>3, <1>4 DEF Pipe

LEMMA PipeTaken ==
    ASSUME Base, events # <<>>, events' = Tail(events), backend' = backend
    PROVE  Pipe # <<>> /\ Pipe' = Tail(Pipe) /\ Head(Pipe) = Head(events) /\ Head(events) \in EventSet
<1> DEFINE o == backend.out
           e == events
<1>1. e \in Seq(EventSet) /\ o \in Seq(EventSet)
  BY PipeTypes
<1>2. Pipe = Cat(e, o) /\ Pipe' = Cat(Tail(e), o)
  BY DEF Pipe
<1> HIDE DEF e, o
<1>3. e # <<>>
  BY DEF e
<1>4. Cat(e, o) # <<>> /\ Tail(Cat(e, o)) = Cat(Tail(e), o) /\ Head(Cat(e, o)) = Head(e)
  BY <1>1, <1>3 DEF Cat
<1> QED
  BY <1>1, <1>2, <1>3, <1>4, TakingFirst DEF e

LEMMA PipeTold ==
    ASSUME Base, backend.at # "emit", events' = events, NEW out \in Seq(EventSet), backend'.out = out
    PROVE  Pipe \in Seq(EventSet) /\ Pipe' = Cat(Pipe, out)
  BY PipeTypes DEF Pipe

LEMMA EventRead ==
    ASSUME Base, events # <<>>, events' = Tail(events), backend' = backend, NEW u,
           NEW h, h = EventRank(u)[Head(events)]
    PROVE  /\ h = 0 => NoNews(u)
           /\ h # 0 => NewsRead(u, h)
<1> DEFINE P == Pipe
           Q == Pipe'
           r == EventRank(u)
<1>1. P \in Seq(EventSet) /\ P # <<>> /\ Q = Tail(P) /\ h = r[Head(P)]
  BY PipeTypes, PipeTaken
<1>2. /\ Tidings(u) = Ranks(P, r) /\ PipeUp(u) = Rising(P, r) /\ Late(u) = Leads(P, r)
      /\ Tidings(u)' = Ranks(Q, r) /\ PipeUp(u)' = Rising(Q, r) /\ Late(u)' = Leads(Q, r)
  BY DEF Tidings, PipeUp, Late
<1> HIDE DEF P, Q, r
<1>3. /\ Ranks(P, r) = Ranks(Q, r) \cup ({h} \ {0})
      /\ Rising(P, r) => Rising(Q, r) /\ (h # 0 => \A y \in Ranks(Q, r) : h < y)
      /\ Leads(P, r) => h = 6 \/ (h = 0 /\ Leads(Q, r))
  BY <1>1, RanksTaken
<1> QED
  BY <1>2, <1>3 DEF NoNews, NewsRead

LEMMA EventsTold ==
    ASSUME Base, backend.at # "emit", events' = events, NEW out \in Seq(EventSet), backend'.out = out,
           NEW u, Rising(out, EventRank(u)), NEW R, R = Ranks(out, EventRank(u))
    PROVE  /\ R = {} => NoNews(u)
           /\ NewsTold(u, R)
<1> DEFINE P == Pipe
           Q == Pipe'
           r == EventRank(u)
<1>1. P \in Seq(EventSet) /\ Q = Cat(P, out)
  BY PipeTold
<1>2. /\ Tidings(u) = Ranks(P, r) /\ PipeUp(u) = Rising(P, r) /\ Late(u) = Leads(P, r)
      /\ Tidings(u)' = Ranks(Q, r) /\ PipeUp(u)' = Rising(Q, r) /\ Late(u)' = Leads(Q, r)
  BY DEF Tidings, PipeUp, Late
<1>3. Rising(out, r) /\ R = Ranks(out, r)
  OBVIOUS
<1> HIDE DEF P, Q, r
<1>4. Ranks(Q, r) = Ranks(P, r) \cup R
  BY <1>1, <1>3, RanksCat
<1>5. Rising(Q, r) <=> Rising(P, r) /\ Rising(out, r) /\ \A x \in Ranks(P, r), y \in R : x < y
  BY <1>1, <1>3, RisingCat
<1>6. Leads(Q, r) <=> Leads(P, r) \/ (Ranks(P, r) = {} /\ Leads(out, r))
  BY <1>1, LeadsCat
<1>7. R = {6} => Leads(out, r)
  BY <1>3, Unranked
<1>8. R = {} => NoNews(u)
  BY <1>2, <1>3, <1>4, <1>5, <1>6 DEF NoNews
<1>9. NewsTold(u, R)
  BY <1>2, <1>3, <1>4, <1>5, <1>6, <1>7 DEF NewsTold
<1> QED
  BY <1>8, <1>9

(* One event is told, of the tab or of another one.                          *)
LEMMA EventTold ==
    ASSUME Base, backend.at # "emit", events' = events, NEW e \in EventSet, backend'.out = <<e>>,
           NEW u, NEW h, h = EventRank(u)[e]
    PROVE  /\ h = 0 => NoNews(u)
           /\ h # 0 => NewsTold(u, {h})
<1>1. One(e) \in Seq(EventSet) /\ backend'.out = One(e)
  BY OneType DEF One
<1>2. Rising(One(e), EventRank(u)) /\ Ranks(One(e), EventRank(u)) = {h} \ {0}
  BY RanksOne
<1>3. /\ ({h} \ {0} = {} => NoNews(u)) /\ NewsTold(u, {h} \ {0})
  BY <1>1, <1>2, EventsTold
<1>4. (h = 0 => {h} \ {0} = {}) /\ (h # 0 => {h} \ {0} = {h})
  OBVIOUS
<1> QED
  BY <1>3, <1>4

LEMMA NothingTold ==
    ASSUME Base, backend.at # "emit", events' = events, backend'.out = <<>>, NEW u
    PROVE  NoNews(u)
<1>1. Pipe' = Cat(Pipe, <<>>) /\ Pipe \in Seq(EventSet)
  <2>1. <<>> \in Seq(EventSet)
    OBVIOUS
  <2> QED
    BY <2>1, PipeTold
<1>2. \A p \in Seq(EventSet) : Cat(p, <<>>) = p
  BY CatNone
<1>3. Pipe' = Pipe
  BY <1>1, <1>2
<1> QED
  BY <1>3, SamePipe

-----------------------------------------------------------------------------
(* A tab that a step is not about.                                           *)
Apart(u) ==
    /\ IsLive(u)' = IsLive(u)
    /\ Join(u)' = Join(u) /\ Rep(u)' = Rep(u) /\ Tale(u)' \subseteq Tale(u)
SameTab(u) == tab'[u] = tab[u] /\ (u > opened') = (u > opened)

LEMMA Unconcerned ==
    ASSUME NEW u, Shown(u), SameTab(u), NoWish(u), NoNews(u), Apart(u)
    PROVE  Shown(u)'
<1>1. /\ (CommandsUp(u) /\ PipeUp(u)) => (CommandsUp(u) /\ PipeUp(u))'
      /\ Cover(u) => Cover(u)'
      /\ Late(u) => Late(u)'
  BY DEF NoWish, NoNews
<1>2. Wishes(u)' = Wishes(u) /\ Tidings(u)' = Tidings(u)
  BY DEF NoWish, NoNews
<1>3. tab'[u] = tab[u] /\ (u > opened') = (u > opened)
  BY DEF SameTab
<1>4. /\ IsLive(u)' = IsLive(u)
      /\ Join(u)' = Join(u) /\ Rep(u)' = Rep(u) /\ Tale(u)' \subseteq Tale(u)
  BY DEF Apart
<1>5. (Free(u) => Free(u)') /\ (InTime(u) => InTime(u)') /\ Fresh(u)' = Fresh(u)
  BY <1>1, <1>2, <1>4 DEF Free, InTime, Fresh
<1>6. \A shown : Runs(u, shown) => Runs(u, shown)'
  BY <1>2, <1>4 DEF Runs
<1>7. \A shown : Left(u, shown) => Left(u, shown)'
  BY <1>2, <1>4, <1>5 DEF Left
<1>8. Honest(u) => Honest(u)'
  BY <1>3, <1>4 DEF Honest
<1>9. StartFits(u) => StartFits(u)'
  BY <1>2, <1>3, <1>5, <1>6, <1>7 DEF StartFits
<1>10. RunFits(u) => RunFits(u)'
  BY <1>2, <1>3, <1>5, <1>6, <1>7 DEF RunFits
<1>11. StopFits(u) => StopFits(u)'
  BY <1>2, <1>3, <1>4, <1>5, <1>6, <1>7 DEF StopFits
<1>12. EndFits(u) => EndFits(u)'
  BY <1>2, <1>3, <1>5, <1>8 DEF EndFits
<1>13. NewFits(u) => NewFits(u)'
  BY <1>2, <1>3, <1>5 DEF NewFits
<1>14. ClosedFits(u) => ClosedFits(u)'
  BY <1>1, <1>2, <1>3, <1>4 DEF ClosedFits
<1>15. Doomed(u) => Doomed(u)'
  BY <1>1, <1>2, <1>3, <1>4 DEF Doomed
<1> QED
  BY <1>9, <1>10, <1>11, <1>12, <1>13, <1>14, <1>15 DEF Shown

(* Its sessions stay as they are, as far as anything is told of them.        *)
SameKnown(s, n) ==
    n.reported = s.reported /\ (s.at = "gone" => n.truncated = s.truncated /\ n.unknown = s.unknown)
Aside(u) ==
    /\ terminals'[u] = terminals[u] /\ Join(u)' = Join(u)
    /\ \A j \in Sessions : session'[j].tab = u <=> session[j].tab = u
    /\ \A j \in Sessions : session[j].tab = u => SameKnown(session[j], session'[j])

(* The session of a tab that is neither driven nor waited for is gone.       *)
LEMMA Idle ==
    ASSUME Base, NEW u \in Tabs, ~IsLive(u), Join(u) = "loop", NEW j \in Sessions, session[j].tab = u
    PROVE  session[j].at = "gone"
<1>1. Sound(session[j])
  BY DEF Base, SessionsInv, AllFine, Fine
<1>2. u # 0
  BY Limits DEF Tabs
<1>3. session[j].at # "none"
  BY <1>1, <1>2 DEF Sound
<1>4. ASSUME NEW t \in LiveIn(terminals), terminals[t] = j PROVE FALSE
  <2>1. session[terminals[t]].tab = t
    BY DEF Base, LinksInv, Links, Owners
  <2> QED
    BY <1>4, <2>1 DEF IsLive
<1>5. ASSUME backend.at = "join", backend.session = j PROVE FALSE
  <2>1. backend.tab = u
    BY <1>5 DEF Base, LinksInv, Links, Joins
  <2>2. backend.then # "loop"
    BY <1>5 DEF Base, Working
  <2> QED
    BY <1>5, <2>1, <2>2 DEF Join
<1>6. InHands(session, terminals, backend)
  BY DEF Base, LinksInv, Links
<1> QED
  BY <1>3, <1>4, <1>5, <1>6 DEF InHands

LEMMA AsideIsApart ==
    ASSUME Base, NEW u \in Tabs, Aside(u), terminals' \in Terms
    PROVE  Apart(u)
<1>1. terminals'[u] = terminals[u] /\ Join(u)' = Join(u)
  BY DEF Aside
<1>2. IsLive(u)' = IsLive(u)
  BY <1>1 DEF IsLive, LiveIn
<1>3. Rep(u)' = Rep(u)
  <2>1. CASE IsLive(u)
    <3>1. terminals[u] \in Sessions /\ session[terminals[u]].tab = u
      BY <2>1, LiveTerm DEF IsLive, Base, TypeInv, LinksInv, Links, Owners
    <3>2. session'[terminals[u]].reported = session[terminals[u]].reported
      BY <3>1 DEF Aside, SameKnown
    <3> QED
      BY <1>1, <1>2, <2>1, <3>2 DEF Rep
  <2>2. CASE ~IsLive(u)
    BY <1>2, <2>2 DEF Rep
  <2> QED
    BY <2>1, <2>2
<1>4. ASSUME NEW j \in Latest(u)', ~IsLive(u), Join(u) = "loop"
      PROVE  j \in Latest(u) /\ Mark(session'[j]) = Mark(session[j])
  <2>1. j \in Sessions /\ session'[j].tab = u /\ \A k \in Sessions : session'[k].tab = u => k <= j
    BY <1>4 DEF Latest
  <2>2. \A k \in Sessions : session'[k].tab = u <=> session[k].tab = u
    BY DEF Aside
  <2>3. session[j].tab = u
    BY <2>1, <2>2
  <2>4. session[j].at = "gone"
    BY <1>4, <2>1, <2>3, Idle
  <2>5. SameKnown(session[j], session'[j])
    BY <2>1, <2>3 DEF Aside
  <2>6. Mark(session'[j]) = Mark(session[j])
    BY <2>4, <2>5 DEF SameKnown, Mark
  <2> QED
    BY <2>1, <2>2, <2>3, <2>6 DEF Latest
<1>5. Tale(u)' \subseteq Tale(u)
  <2> SUFFICES ASSUME NEW p \in Tale(u)' PROVE p \in Tale(u)
    OBVIOUS
  <2>1. PICK j \in Latest(u)' : ~IsLive(u)' /\ Join(u)' = "loop" /\ p = Mark(session'[j])
    BY DEF Tale
  <2>2. j \in Latest(u) /\ p = Mark(session[j])
    BY <1>1, <1>2, <1>4, <2>1
  <2> QED
    BY <1>1, <1>2, <2>1, <2>2 DEF Tale
<1> QED
  BY <1>1, <1>2, <1>3, <1>5 DEF Apart

(* Sessions that go on by themselves.                                        *)
LEMMA EvolvingAside ==
    ASSUME NEW u, terminals'[u] = terminals[u], Join(u)' = Join(u),
           \A j \in Sessions : Evolves(session[j], session'[j])
    PROVE  Aside(u)
<1>1. ASSUME NEW s, NEW n, Evolves(s, n) PROVE n.tab = s.tab /\ SameKnown(s, n)
  BY <1>1 DEF Evolves, SameKnown
<1> QED
  BY <1>1 DEF Aside

(* One session is dropped, or told, and is not of this tab.                  *)
LEMMA PuttingAside ==
    ASSUME NEW u, DOMAIN session = Sessions, terminals'[u] = terminals[u], Join(u)' = Join(u),
           NEW i \in Sessions, NEW n, session' = Put(session, i, n),
           session[i].tab # u, n.tab # u
    PROVE  Aside(u)
<1>1. \A j \in Sessions : session'[j] = IF j = i THEN n ELSE session[j]
  BY DEF Put
<1>2. \A s : SameKnown(s, s)
  BY DEF SameKnown
<1> QED
  BY <1>1, <1>2 DEF Aside

-----------------------------------------------------------------------------
(* A tab that a step is about.                                               *)
LEMMA ShownRanks ==
    ASSUME Base, NEW t
    PROVE  Wishes(t) \subseteq {1, 2, 3} /\ Tidings(t) \subseteq {1, 2, 3, 4, 5, 6}
<1>1. commands \in Seq(CommandSet) /\ Pipe \in Seq(EventSet)
  BY PipeTypes DEF Base, TypeInv
<1> DEFINE P == Pipe
           C == commands
<1>2. C \in Seq(CommandSet) /\ P \in Seq(EventSet)
  BY <1>1
<1>3. Wishes(t) = Ranks(C, CommandRank(t)) /\ Tidings(t) = Ranks(P, EventRank(t))
  BY DEF Wishes, Tidings
<1> HIDE DEF P, C
<1>4. (\A i \in DOMAIN C : C[i] \in CommandSet) /\ (\A i \in DOMAIN P : P[i] \in EventSet)
  BY <1>2
<1>5. Ranks(C, CommandRank(t)) \subseteq {1, 2, 3}
  BY <1>4, RankTypes DEF Ranks
<1>6. Ranks(P, EventRank(t)) \subseteq {1, 2, 3, 4, 5, 6}
  BY <1>4, RankTypes DEF Ranks
<1> QED
  BY <1>3, <1>5, <1>6

(* A shell is started, or not, for a tab that asked for it.                  *)
LEMMA ShownStarting ==
    ASSUME NEW t, Shown(t), SameTab(t), ~IsLive(t), Join(t) = "loop", Join(t)' = "loop",
           NEW h \in {2, 3}, WishTaken(t, h),
           \/ IsLive(t)' /\ ~Rep(t)' /\ NewsTold(t, {1})
           \/ ~IsLive(t)' /\ NewsTold(t, {2})
    PROVE  Shown(t)'
<1>1. /\ Wishes(t) = Wishes(t)' \cup {h} /\ (Cover(t) => Cover(t)' /\ 1 \in Wishes(t)')
      /\ CommandsUp(t) => CommandsUp(t)' /\ \A y \in Wishes(t)' : h < y
  BY DEF WishTaken
<1>2. /\ \/ IsLive(t)' /\ ~Rep(t)' /\ Tidings(t)' = Tidings(t) \cup {1}
         \/ ~IsLive(t)' /\ Tidings(t)' = Tidings(t) \cup {2}
      /\ Late(t) => Late(t)'
      /\ Tidings(t) = {} /\ PipeUp(t) => PipeUp(t)'
  BY DEF NewsTold
<1>3. tab'[t] = tab[t] /\ (t > opened') = (t > opened)
  BY DEF SameTab
<1>4. Wishes(t) # {} /\ Wishes(t) # {1}
  BY <1>1
<1>5. CASE StartFits(t)
  <2>1. Tidings(t) = {} /\ Wishes(t) \in {{2}, {3}, {1, 3}} /\ InTime(t)
    BY <1>4, <1>5 DEF StartFits
  <2>2. Wishes(t)' = {}
    BY <1>1, <2>1 DEF InTime
  <2>3. InTime(t)'
    BY <1>1, <1>2, <2>1 DEF InTime
  <2>4. CASE IsLive(t)' /\ ~Rep(t)' /\ Tidings(t)' = {1}
    <3>1. Fresh(t)' = {1} /\ Runs(t, FALSE)'
      BY <2>4 DEF Fresh, Runs
    <3> QED
      BY <1>3, <1>5, <2>2, <2>3, <3>1 DEF StartFits, Shown
  <2>5. CASE ~IsLive(t)' /\ Tidings(t)' = {2}
    BY <1>3, <1>5, <2>2, <2>3, <2>5 DEF StartFits, Shown, Free
  <2> QED
    BY <1>2, <2>1, <2>4, <2>5
<1>6. CASE Doomed(t)
  BY <1>2, <1>3, <1>6 DEF Shown, Doomed
<1>7. CASE ClosedFits(t)
  BY <1>1, <1>3, <1>7 DEF Shown, ClosedFits
<1>8. ~NewFits(t) /\ ~RunFits(t) /\ ~StopFits(t) /\ ~EndFits(t)
  BY <1>4 DEF NewFits, RunFits, StopFits, EndFits
<1> QED
  BY <1>5, <1>6, <1>7, <1>8 DEF Shown

(* A session is told to end, on behalf of a stop or of a restart.            *)
LEMMA ShownShut ==
    ASSUME NEW t, Shown(t), SameTab(t), IsLive(t), Join(t) = "loop", ~IsLive(t)', NoNews(t),
           \/ WishTaken(t, 3) /\ Join(t)' = "start"
           \/ WishTaken(t, 1) /\ Join(t)' = "exited"
    PROVE  Shown(t)'
<1>1. \/ /\ Wishes(t) = Wishes(t)' \cup {3} /\ Join(t)' = "start"
         /\ Cover(t) => Cover(t)' /\ 1 \in Wishes(t)'
      \/ /\ Wishes(t) = Wishes(t)' \cup {1} /\ Join(t)' = "exited"
         /\ Cover(t) => Cover(t)'
         /\ CommandsUp(t) => CommandsUp(t)' /\ 1 \notin Wishes(t)'
  BY DEF WishTaken
<1>2. Tidings(t)' = Tidings(t) /\ (PipeUp(t) => PipeUp(t)') /\ (Late(t) => Late(t)')
  BY DEF NoNews
<1>3. tab'[t] = tab[t] /\ (t > opened') = (t > opened)
  BY DEF SameTab
<1>4. Wishes(t) # {}
  BY <1>1
<1>5. CASE StopFits(t)
  <2>1. Wishes(t) = {1} /\ Fresh(t) = {} /\ InTime(t)
    BY <1>4, <1>5 DEF StopFits, Left, Free
  <2>2. Join(t)' = "exited" /\ Wishes(t)' = {} /\ InTime(t)'
    <3>1. 3 \notin Wishes(t)
      BY <2>1
    <3> QED
      BY <1>1, <1>2, <2>1, <3>1 DEF InTime
  <2>3. Fresh(t)' = {}
    BY <1>2, <2>1 DEF Fresh
  <2> QED
    BY <1>3, <1>5, <2>2, <2>3 DEF StopFits, Shown
<1>6. CASE Doomed(t)
  BY <1>1, <1>2, <1>3, <1>6 DEF Shown, Doomed
<1>7. CASE ClosedFits(t)
  BY <1>1, <1>3, <1>7 DEF Shown, ClosedFits
<1>8. ~NewFits(t) /\ ~StartFits(t) /\ ~RunFits(t) /\ ~EndFits(t)
  BY <1>4 DEF NewFits, StartFits, RunFits, EndFits, Free
<1> QED
  BY <1>5, <1>6, <1>7, <1>8 DEF Shown

(* A stop finds no session.                                                  *)
LEMMA ShownStopAnswered ==
    ASSUME NEW t, Shown(t), SameTab(t), ~IsLive(t), Join(t) = "loop", Join(t)' = "loop", ~IsLive(t)',
           WishTaken(t, 1), NewsTold(t, {6}), Tale(t)' \subseteq Tale(t)
    PROVE  Shown(t)'
<1>1. /\ Wishes(t) = Wishes(t)' \cup {1} /\ (Cover(t) => Cover(t)')
      /\ CommandsUp(t) => CommandsUp(t)' /\ 1 \notin Wishes(t)'
  BY DEF WishTaken
<1>2. /\ Tidings(t)' = Tidings(t) \cup {6}
      /\ PipeUp(t) /\ (\A x \in Tidings(t) : x < 6) => PipeUp(t)'
      /\ Late(t) \/ Tidings(t) = {} => Late(t)'
  BY DEF NewsTold
<1>3. tab'[t] = tab[t] /\ (t > opened') = (t > opened)
  BY DEF SameTab
<1>4. Wishes(t) # {} /\ Free(t) /\ Free(t)'
  BY <1>1 DEF Free
<1>5. CASE StartFits(t)
  <2>1. Wishes(t) = {1, 3} /\ Tidings(t) = {}
    BY <1>1, <1>4, <1>5 DEF StartFits
  <2>2. 3 \in Wishes(t)' /\ Late(t)'
    BY <1>1, <1>2, <2>1
  <2> QED
    BY <1>3, <1>5, <2>2 DEF StartFits, Doomed, Shown
<1>6. CASE StopFits(t)
  <2>1. Wishes(t) = {1} /\ Fresh(t) \in {{4}, {5}} /\ InTime(t) /\ Left(t, tab[t].truncated)
    BY <1>4, <1>6 DEF StopFits, Runs
  <2>2. Wishes(t)' = {} /\ CommandsUp(t)'
    BY <1>1, <2>1 DEF InTime
  <2>3. \A x \in Tidings(t) : x \in {3, 4, 5}
    BY <2>1 DEF Fresh
  <2>4. InTime(t)'
    BY <1>2, <2>1, <2>2, <2>3 DEF InTime
  <2>5. Fresh(t)' \in {{4, 6}, {5, 6}}
    BY <1>2, <2>1 DEF Fresh
  <2>6. Left(t, tab[t].truncated)'
    BY <1>2, <1>3, <1>4, <2>1 DEF Left
  <2> QED
    BY <1>3, <1>6, <2>2, <2>4, <2>5, <2>6 DEF StopFits, Shown
<1>7. CASE EndFits(t)
  <2>1. Wishes(t) = {1} /\ Tidings(t) = {} /\ tab[t].stopped /\ InTime(t) /\ Honest(t)
    BY <1>4, <1>7 DEF EndFits
  <2>2. Wishes(t)' = {} /\ Tidings(t)' = {6} /\ InTime(t)'
    BY <1>1, <1>2, <2>1 DEF InTime
  <2>3. Honest(t)'
    BY <1>3, <2>1 DEF Honest
  <2> QED
    BY <1>3, <1>4, <1>7, <2>1, <2>2, <2>3 DEF EndFits, Shown
<1>8. CASE Doomed(t)
  BY <1>1, <1>2, <1>3, <1>8 DEF Shown, Doomed
<1>9. CASE ClosedFits(t)
  BY <1>1, <1>3, <1>9 DEF Shown, ClosedFits
<1>10. ~NewFits(t) /\ ~RunFits(t)
  BY <1>4 DEF NewFits, RunFits
<1> QED
  BY <1>5, <1>6, <1>7, <1>8, <1>9, <1>10 DEF Shown

(* The session has been joined.                                              *)
LEMMA ShownJoined ==
    ASSUME NEW t, Shown(t), SameTab(t), ~IsLive(t), Join(t)' = "loop", NoWish(t),
           \/ /\ Join(t) = "start"
              /\ NewsTold(t, {1}) \/ NewsTold(t, {2})
           \/ Join(t) = "exited" /\ ~IsLive(t)' /\ NewsTold(t, {6})
           \/ Join(t) = "quit" /\ ~IsLive(t)' /\ NoNews(t)
    PROVE  Shown(t)'
<1>1. /\ Wishes(t)' = Wishes(t) /\ (CommandsUp(t) => CommandsUp(t)') /\ (Cover(t) => Cover(t)')
  BY DEF NoWish
<1>2. /\ Late(t) => Late(t)'
      /\ \/ Join(t) = "start" /\ (1 \in Tidings(t)' \/ 2 \in Tidings(t)')
         \/ /\ Join(t) = "exited" /\ ~IsLive(t)' /\ Tidings(t)' = Tidings(t) \cup {6}
            /\ PipeUp(t) /\ (\A x \in Tidings(t) : x < 6) => PipeUp(t)'
         \/ Join(t) = "quit" /\ ~IsLive(t)' /\ Tidings(t)' = Tidings(t)
  BY DEF NewsTold, NoNews
<1>3. tab'[t] = tab[t] /\ (t > opened') = (t > opened)
  BY DEF SameTab
<1>4. ~Free(t) /\ (\A x : ~Left(t, x)) /\ (\A x : ~Runs(t, x))
  BY <1>2 DEF Free, Left, Runs
<1>5. CASE StopFits(t)
  <2>1. Wishes(t) = {} /\ Fresh(t) = {} /\ Join(t) = "exited" /\ InTime(t)
    BY <1>4, <1>5 DEF StopFits
  <2>2. \A x \in Tidings(t) : x = 3
    BY <2>1 DEF Fresh
  <2>3. /\ Tidings(t)' = Tidings(t) \cup {6} /\ ~IsLive(t)'
        /\ PipeUp(t) /\ (\A x \in Tidings(t) : x < 6) => PipeUp(t)'
    BY <1>2, <2>1
  <2>4. PipeUp(t)'
    BY <2>1, <2>2, <2>3 DEF InTime
  <2>5. Fresh(t)' = {6} /\ Free(t)'
    BY <2>2, <2>3 DEF Fresh, Free
  <2> QED
    BY <1>1, <1>3, <1>5, <2>1, <2>4, <2>5 DEF StopFits, Shown, InTime
<1>6. CASE Doomed(t)
  BY <1>1, <1>2, <1>3, <1>6 DEF Shown, Doomed
<1>7. CASE ClosedFits(t)
  BY <1>1, <1>2, <1>3, <1>7 DEF Shown, ClosedFits
<1>8. ~NewFits(t) /\ ~StartFits(t) /\ ~RunFits(t) /\ ~EndFits(t)
  BY <1>4 DEF NewFits, StartFits, RunFits, EndFits
<1> QED
  BY <1>5, <1>6, <1>7, <1>8 DEF Shown

(* A session is read: its lost output is told once, and then its end.        *)
Marks(t, m) == IF m /\ ~Rep(t) THEN {3} ELSE {}

LEMMA ShownDrainedOn ==
    ASSUME NEW t, Shown(t), SameTab(t), IsLive(t), IsLive(t)', Join(t) = "loop", Join(t)' = "loop",
           NoWish(t), NEW m \in BOOLEAN, Rep(t) => m, Rep(t)' = m, NewsTold(t, Marks(t, m))
    PROVE  Shown(t)'
<1>1. /\ Wishes(t)' = Wishes(t) /\ (CommandsUp(t) => CommandsUp(t)') /\ (Cover(t) => Cover(t)')
  BY DEF NoWish
<1>2. /\ Tidings(t)' = Tidings(t) \cup Marks(t, m)
      /\ PipeUp(t) /\ (\A x \in Tidings(t), y \in Marks(t, m) : x < y) => PipeUp(t)'
      /\ Late(t) => Late(t)'
  BY DEF NewsTold
<1>3. tab'[t] = tab[t] /\ (t > opened') = (t > opened)
  BY DEF SameTab
<1>4. ~Free(t) /\ (\A x : ~Left(t, x)) /\ ~Free(t)'
  BY DEF Free, Left
<1>5. Fresh(t)' = Fresh(t)
  BY <1>2 DEF Fresh, Marks
<1>6. ASSUME NEW shown, Runs(t, shown) PROVE Runs(t, shown)'
  BY <1>2, <1>6 DEF Runs, Marks
<1>7. ASSUME NEW shown, Runs(t, shown), Fresh(t) \subseteq {1}, InTime(t) PROVE InTime(t)'
  <2>1. ASSUME NEW x \in Tidings(t), NEW y \in Marks(t, m) PROVE x < y
    <3>1. y = 3 /\ ~Rep(t)
      BY <2>1 DEF Marks
    <3>2. 3 \notin Tidings(t)
      BY <1>7, <3>1 DEF Runs
    <3>3. x = 1
      BY <1>7, <2>1, <3>2 DEF Fresh
    <3> QED
      BY <3>1, <3>3
  <2> QED
    BY <1>1, <1>2, <1>7, <2>1 DEF InTime
<1>8. CASE StartFits(t)
  <2>1. Wishes(t) = {} /\ Fresh(t) = {1} /\ Runs(t, FALSE) /\ InTime(t)
    BY <1>4, <1>8 DEF StartFits
  <2>2. InTime(t)' /\ Runs(t, FALSE)'
    BY <1>6, <1>7, <2>1
  <2> QED
    BY <1>1, <1>3, <1>5, <1>8, <2>1, <2>2 DEF StartFits, Shown
<1>9. CASE RunFits(t)
  <2>1. Wishes(t) = {} /\ Fresh(t) = {} /\ Runs(t, tab[t].truncated) /\ InTime(t)
    BY <1>4, <1>9 DEF RunFits
  <2>2. InTime(t)' /\ Runs(t, tab[t].truncated)'
    BY <1>3, <1>6, <1>7, <2>1 DEF Runs
  <2> QED
    BY <1>1, <1>3, <1>5, <1>9, <2>1, <2>2 DEF RunFits, Shown
<1>10. CASE StopFits(t)
  <2>1. Wishes(t) = {1} /\ Fresh(t) = {} /\ Runs(t, tab[t].truncated) /\ InTime(t)
    BY <1>4, <1>10 DEF StopFits
  <2>2. InTime(t)' /\ Runs(t, tab[t].truncated)'
    BY <1>3, <1>6, <1>7, <2>1 DEF Runs
  <2> QED
    BY <1>1, <1>3, <1>5, <1>10, <2>1, <2>2 DEF StopFits, Shown
<1>11. CASE Doomed(t)
  BY <1>1, <1>2, <1>3, <1>11 DEF Shown, Doomed
<1>12. CASE ClosedFits(t)
  BY <1>1, <1>3, <1>12 DEF Shown, ClosedFits
<1>13. ~NewFits(t) /\ ~EndFits(t)
  BY <1>4 DEF NewFits, EndFits
<1> QED
  BY <1>8, <1>9, <1>10, <1>11, <1>12, <1>13 DEF Shown

LEMMA ShownDrainedOut ==
    ASSUME NEW t, Shown(t), SameTab(t), IsLive(t), ~IsLive(t)', Join(t) = "loop", Join(t)' = "loop",
           NoWish(t), NEW m \in BOOLEAN, Rep(t) => m, NEW x \in {4, 5},
           NewsTold(t, Marks(t, m) \cup {x}),
           \A p \in Tale(t)' : p.truncated = m /\ (x = 5 => p.unknown)
    PROVE  Shown(t)'
<1>1. /\ Wishes(t)' = Wishes(t) /\ (CommandsUp(t) => CommandsUp(t)') /\ (Cover(t) => Cover(t)')
  BY DEF NoWish
<1>2. /\ Tidings(t)' = Tidings(t) \cup (Marks(t, m) \cup {x})
      /\ PipeUp(t) /\ (\A y \in Tidings(t), z \in Marks(t, m) \cup {x} : y < z) => PipeUp(t)'
      /\ Late(t) => Late(t)'
  BY DEF NewsTold
<1>3. tab'[t] = tab[t] /\ (t > opened') = (t > opened)
  BY DEF SameTab
<1>4. ~Free(t) /\ (\A y : ~Left(t, y)) /\ Free(t)'
  BY DEF Free, Left
<1>5. Fresh(t)' = Fresh(t) \cup {x}
  BY <1>2 DEF Fresh, Marks
<1>6. ASSUME NEW shown, Runs(t, shown), Fresh(t) \subseteq {1} PROVE Left(t, shown)'
  <2>1. (shown \/ 3 \in Tidings(t)) <=> Rep(t)
    BY <1>6 DEF Runs
  <2>2. (shown \/ 3 \in Tidings(t)') <=> m
    BY <1>2, <2>1 DEF Marks
  <2>3. 5 \in Tidings(t)' => x = 5
    BY <1>2, <1>6 DEF Fresh, Marks
  <2>4. \A p \in Tale(t)' : p.truncated = m /\ (x = 5 => p.unknown)
    OBVIOUS
  <2> QED
    BY <1>4, <2>2, <2>3, <2>4 DEF Left
<1>7. ASSUME NEW shown, Runs(t, shown), Fresh(t) \subseteq {1}, InTime(t) PROVE InTime(t)'
  <2>1. ASSUME NEW y \in Tidings(t), NEW z \in Marks(t, m) \cup {x} PROVE y < z
    <3>1. y \in {1, 3}
      BY <1>7 DEF Fresh
    <3>2. CASE z = x
      BY <3>1, <3>2
    <3>3. CASE z \in Marks(t, m)
      <4>1. z = 3 /\ ~Rep(t)
        BY <3>3 DEF Marks
      <4>2. 3 \notin Tidings(t)
        BY <1>7, <4>1 DEF Runs
      <4> QED
        BY <3>1, <4>1, <4>2
    <3> QED
      BY <3>2, <3>3
  <2> QED
    BY <1>1, <1>2, <1>7, <2>1 DEF InTime
<1>8. CASE StartFits(t)
  <2>1. Wishes(t) = {} /\ Fresh(t) = {1} /\ Runs(t, FALSE) /\ InTime(t)
    BY <1>4, <1>8 DEF StartFits
  <2>2. InTime(t)' /\ Left(t, FALSE)'
    BY <1>6, <1>7, <2>1
  <2>3. Fresh(t)' \in {{1, 4}, {1, 5}}
    BY <1>5, <2>1
  <2> QED
    BY <1>1, <1>3, <1>8, <2>1, <2>2, <2>3 DEF StartFits, Shown
<1>9. CASE RunFits(t)
  <2>1. Wishes(t) = {} /\ Fresh(t) = {} /\ Runs(t, tab[t].truncated) /\ InTime(t)
    BY <1>4, <1>9 DEF RunFits
  <2>2. InTime(t)' /\ Left(t, tab[t].truncated)'
    BY <1>3, <1>6, <1>7, <2>1 DEF Left
  <2>3. Fresh(t)' \in {{4}, {5}}
    BY <1>5, <2>1
  <2> QED
    BY <1>1, <1>3, <1>9, <2>1, <2>2, <2>3 DEF RunFits, Shown
<1>10. CASE StopFits(t)
  <2>1. Wishes(t) = {1} /\ Fresh(t) = {} /\ Runs(t, tab[t].truncated) /\ InTime(t)
    BY <1>4, <1>10 DEF StopFits
  <2>2. InTime(t)' /\ Left(t, tab[t].truncated)'
    BY <1>3, <1>6, <1>7, <2>1 DEF Left
  <2>3. Fresh(t)' \in {{4}, {5}}
    BY <1>5, <2>1
  <2> QED
    BY <1>1, <1>3, <1>10, <2>1, <2>2, <2>3 DEF StopFits, Shown
<1>11. CASE Doomed(t)
  BY <1>1, <1>2, <1>3, <1>11 DEF Shown, Doomed
<1>12. CASE ClosedFits(t)
  BY <1>1, <1>3, <1>12 DEF Shown, ClosedFits
<1>13. ~NewFits(t) /\ ~EndFits(t)
  BY <1>4 DEF NewFits, EndFits
<1> QED
  BY <1>8, <1>9, <1>10, <1>11, <1>12, <1>13 DEF Shown

(* The reducer reads an event about the tab: none of its sessions changes.   *)
Reads(t, h) == NoWish(t) /\ NewsRead(t, h) /\ Apart(t) /\ (t > opened') = (t > opened)

LEMMA ReadingTells ==
    ASSUME NEW t, NEW h \in Nat, Reads(t, h)
    PROVE  /\ Wishes(t)' = Wishes(t) /\ (CommandsUp(t) => CommandsUp(t)') /\ (Cover(t) => Cover(t)')
           /\ Tidings(t) = Tidings(t)' \cup {h} /\ (Late(t) => h = 6)
           /\ InTime(t) => /\ InTime(t)' /\ Tidings(t)' = Tidings(t) \ {h}
                           /\ \A y \in Tidings(t)' : h < y
           /\ (Free(t) <=> Free(t)') /\ IsLive(t)' = IsLive(t) /\ Join(t)' = Join(t) /\ Rep(t)' = Rep(t)
           /\ (t > opened') = (t > opened)
           /\ Tale(t)' \subseteq Tale(t)
<1>1. /\ Wishes(t)' = Wishes(t) /\ (CommandsUp(t) => CommandsUp(t)') /\ (Cover(t) => Cover(t)')
  BY DEF Reads, NoWish
<1>2. /\ Tidings(t) = Tidings(t)' \cup {h} /\ (Late(t) => h = 6)
      /\ PipeUp(t) => PipeUp(t)' /\ \A y \in Tidings(t)' : h < y
  BY DEF Reads, NewsRead
<1>3. /\ IsLive(t)' = IsLive(t) /\ Join(t)' = Join(t) /\ Rep(t)' = Rep(t) /\ Tale(t)' \subseteq Tale(t)
      /\ (t > opened') = (t > opened)
  BY DEF Reads, Apart
<1>4. ASSUME InTime(t)
      PROVE  InTime(t)' /\ Tidings(t)' = Tidings(t) \ {h} /\ \A y \in Tidings(t)' : h < y
  <2>1. InTime(t)' /\ \A y \in Tidings(t)' : h < y
    BY <1>1, <1>2, <1>4 DEF InTime
  <2>2. h \notin Tidings(t)' \/ h < h
    BY <2>1
  <2>3. ~(h < h) => Tidings(t)' = Tidings(t) \ {h}
    BY <1>2, <2>2
  <2>4. h < h => FALSE
    OBVIOUS
  <2> QED
    BY <2>1, <2>3, <2>4
<1>5. Free(t) <=> Free(t)'
  BY <1>3 DEF Free
<1> QED
  BY <1>1, <1>2, <1>3, <1>4, <1>5

LEMMA ShownReadClosed ==
    ASSUME NEW t, Shown(t), tab[t].phase = "none", tab'[t] = tab[t], NEW h \in Nat, Reads(t, h)
    PROVE  Shown(t)'
<1>1. ClosedFits(t)
  <2>1. Tidings(t) # {}
    BY ReadingTells
  <2> QED
    BY <2>1 DEF Shown, NewFits, StartFits, RunFits, StopFits, EndFits, Doomed
<1>2. ClosedFits(t)'
  BY <1>1, ReadingTells DEF ClosedFits
<1> QED
  BY <1>2 DEF Shown

LEMMA ShownReadStarted ==
    ASSUME NEW t, Shown(t), tab[t].phase # "none", Reads(t, 1),
           tab'[t].phase = "running", tab'[t].truncated = FALSE
    PROVE  Shown(t)'
<1>1. StartFits(t)
  <2>1. 1 \in Tidings(t) /\ ~Late(t)
    BY ReadingTells
  <2> QED
    BY <2>1 DEF Shown, NewFits, RunFits, StopFits, EndFits, ClosedFits, Doomed, Fresh
<1>2. /\ InTime(t)' /\ Tidings(t)' = Tidings(t) \ {1} /\ 1 \in Tidings(t)
      /\ Wishes(t)' = Wishes(t) /\ (Free(t) => Free(t)') /\ IsLive(t)' = IsLive(t) /\ Rep(t)' = Rep(t)
      /\ Tale(t)' \subseteq Tale(t)
  BY <1>1, ReadingTells DEF StartFits
<1>3. Fresh(t)' = Fresh(t) \ {1}
  BY <1>2 DEF Fresh
<1>4. ASSUME Fresh(t) = {1}, Runs(t, FALSE) PROVE Fresh(t)' = {} /\ Runs(t, tab[t].truncated)'
  <2>1. Runs(t, FALSE)'
    BY <1>2, <1>4 DEF Runs
  <2> QED
    BY <1>3, <1>4, <2>1 DEF Runs
<1>5. ASSUME Fresh(t) \in {{1, 4}, {1, 5}}, Left(t, FALSE)
      PROVE  Fresh(t)' \in {{4}, {5}} /\ Left(t, tab[t].truncated)'
  <2>1. Left(t, FALSE)'
    BY <1>2, <1>5 DEF Left
  <2>2. {1, 4} \ {1} = {4} /\ {1, 5} \ {1} = {5}
    OBVIOUS
  <2> QED
    BY <1>3, <1>5, <2>1, <2>2 DEF Left
<1>6. /\ Wishes(t) = {}
      /\ \/ Fresh(t) = {1} /\ Runs(t, FALSE)
         \/ Fresh(t) \in {{1, 4}, {1, 5}} /\ Left(t, FALSE)
  <2>1. Tidings(t) # {} /\ Tidings(t) # {2}
    BY <1>2
  <2> QED
    BY <1>1, <2>1 DEF StartFits
<1>7. RunFits(t)'
  <2>1. CASE Fresh(t) = {1} /\ Runs(t, FALSE)
    BY <1>2, <1>4, <1>6, <2>1 DEF RunFits
  <2>2. CASE Fresh(t) \in {{1, 4}, {1, 5}} /\ Left(t, FALSE)
    BY <1>2, <1>5, <1>6, <2>2 DEF RunFits
  <2> QED
    BY <1>6, <2>1, <2>2
<1> QED
  BY <1>7 DEF Shown

LEMMA ShownReadFailed ==
    ASSUME NEW t, Shown(t), tab[t].phase # "none", Reads(t, 2),
           tab'[t].phase = "ended", tab'[t].code = tab[t].code
    PROVE  Shown(t)'
<1>1. StartFits(t)
  <2>1. 2 \in Tidings(t) /\ ~Late(t)
    BY ReadingTells
  <2> QED
    BY <2>1 DEF Shown, NewFits, RunFits, StopFits, EndFits, ClosedFits, Doomed, Fresh
<1>2. /\ InTime(t)' /\ Tidings(t)' = Tidings(t) \ {2} /\ 2 \in Tidings(t)
      /\ Wishes(t)' = Wishes(t) /\ (Free(t) => Free(t)')
  BY <1>1, ReadingTells DEF StartFits
<1>3. Tidings(t) = {2} /\ Wishes(t) = {} /\ Free(t) /\ tab[t].code = "none"
  <2>1. 2 \in Fresh(t) /\ Tidings(t) # {}
    BY <1>2 DEF Fresh
  <2>2. Fresh(t) # {1} /\ Fresh(t) \notin {{1, 4}, {1, 5}}
    BY <2>1
  <2> QED
    BY <1>1, <2>1, <2>2 DEF StartFits
<1>4. Tidings(t)' = {}
  BY <1>2, <1>3
<1>5. Honest(t)'
  BY <1>3 DEF Honest
<1> QED
  BY <1>2, <1>3, <1>4, <1>5 DEF EndFits, Shown

LEMMA ShownReadMark ==
    ASSUME NEW t, Shown(t), tab[t].phase # "none", Reads(t, 3),
           tab'[t].phase = tab[t].phase, tab'[t].stopped = tab[t].stopped, tab'[t].truncated = TRUE
    PROVE  Shown(t)'
<1>0. 3 \in Tidings(t) /\ ~Late(t)
  BY ReadingTells
<1>1. RunFits(t) \/ StopFits(t)
  <2>1. ~StartFits(t)
    <3>1. ASSUME StartFits(t) PROVE FALSE
      <4>1. Tidings(t)' = Tidings(t) \ {3} /\ \A y \in Tidings(t)' : 3 < y
        BY <3>1, ReadingTells DEF StartFits
      <4>2. Fresh(t) \in {{1}, {1, 4}, {1, 5}}
        <5>1. Tidings(t) # {} /\ Tidings(t) # {2}
          BY <1>0
        <5> QED
          BY <3>1, <5>1 DEF StartFits
      <4>3. 1 \in Tidings(t)
        BY <4>2 DEF Fresh
      <4> QED
        BY <4>1, <4>3
    <3> QED
      BY <3>1
  <2> QED
    BY <1>0, <2>1 DEF Shown, NewFits, EndFits, ClosedFits, Doomed
<1>2. /\ InTime(t)' /\ Tidings(t)' = Tidings(t) \ {3}
      /\ Wishes(t)' = Wishes(t) /\ (Free(t) => Free(t)') /\ IsLive(t)' = IsLive(t) /\ Rep(t)' = Rep(t)
      /\ Join(t)' = Join(t) /\ Tale(t)' \subseteq Tale(t)
  BY <1>1, ReadingTells DEF RunFits, StopFits
<1>3. Fresh(t)' = Fresh(t)
  BY <1>2 DEF Fresh
<1>4. Runs(t, tab[t].truncated) => Runs(t, tab[t].truncated)'
  BY <1>0, <1>2 DEF Runs
<1>5. Left(t, tab[t].truncated) => Left(t, tab[t].truncated)'
  BY <1>0, <1>2 DEF Left
<1>6. CASE RunFits(t)
  BY <1>2, <1>3, <1>4, <1>5, <1>6 DEF RunFits, Shown
<1>7. CASE StopFits(t)
  BY <1>2, <1>3, <1>4, <1>5, <1>7 DEF StopFits, Shown
<1> QED
  BY <1>1, <1>6, <1>7

LEMMA ShownReadExit ==
    ASSUME NEW t, Shown(t), tab[t].phase \notin {"none", "starting"}, NEW h \in {4, 5, 6}, Reads(t, h),
           tab'[t].phase = "ended", tab'[t].truncated = tab[t].truncated, tab'[t].stopped = tab[t].stopped,
           tab'[t].code = "zero" <=> h = 6, tab'[t].code = "unknown" => h = 5,
           tab[t].truncated \in BOOLEAN, \A p \in Tale(t) : p.truncated \in BOOLEAN
    PROVE  Shown(t)'
<1>0. RunFits(t) \/ StopFits(t) \/ EndFits(t)
  BY DEF Shown, NewFits, StartFits, ClosedFits, Doomed
<1>1. /\ InTime(t)' /\ Tidings(t)' = Tidings(t) \ {h} /\ h \in Tidings(t) /\ \A y \in Tidings(t)' : h < y
      /\ Wishes(t)' = Wishes(t) /\ (Free(t) => Free(t)') /\ Tale(t)' \subseteq Tale(t)
  <2>1. InTime(t)
    BY <1>0 DEF RunFits, StopFits, EndFits
  <2> QED
    BY <2>1, ReadingTells
<1>2. h \in Fresh(t)
  BY <1>1 DEF Fresh
<1>3. 3 \notin Tidings(t)
  BY <1>1
<1>4. Fresh(t) = Tidings(t)
  BY <1>3 DEF Fresh
<1>5. ASSUME h \in {4, 5}, Left(t, tab[t].truncated) PROVE Honest(t)'
  <2>1. \A p \in Tale(t)' : (tab[t].truncated <=> p.truncated) /\ (h = 5 => p.unknown)
    BY <1>1, <1>3, <1>5 DEF Left
  <2>2. \A p \in Tale(t)' : tab[t].truncated = p.truncated
    BY <1>1, <2>1
  <2>3. tab'[t].code # "zero"
    BY <1>5
  <2> QED
    BY <2>1, <2>2, <2>3 DEF Honest
<1>6. ASSUME h = 6, tab[t].stopped PROVE Honest(t)'
  BY <1>6 DEF Honest
<1>7. CASE RunFits(t)
  <2>1. Wishes(t) = {} /\ Fresh(t) \in {{4}, {5}} /\ Left(t, tab[t].truncated)
    BY <1>2, <1>7 DEF RunFits
  <2>2. h \in {4, 5} /\ Tidings(t)' = {} /\ Free(t)
    BY <1>1, <1>2, <1>4, <2>1 DEF Left
  <2>3. Honest(t)'
    BY <1>5, <2>1, <2>2
  <2> QED
    BY <1>1, <2>1, <2>2, <2>3 DEF EndFits, Shown
<1>8. CASE StopFits(t)
  <2>1. tab[t].stopped /\ tab'[t].stopped
    BY <1>8 DEF StopFits
  <2>2. \/ Wishes(t) = {1} /\ Fresh(t) \in {{4}, {5}} /\ Left(t, tab[t].truncated)
        \/ Wishes(t) = {} /\ Fresh(t) \in {{4, 6}, {5, 6}} /\ Left(t, tab[t].truncated)
        \/ Wishes(t) = {} /\ Fresh(t) = {6} /\ Free(t)
    BY <1>2, <1>8 DEF StopFits
  <2>3. CASE Wishes(t) = {1} /\ Fresh(t) \in {{4}, {5}} /\ Left(t, tab[t].truncated)
    <3>1. h \in {4, 5} /\ Tidings(t)' = {} /\ Free(t)
      BY <1>1, <1>2, <1>4, <2>3 DEF Left
    <3>2. Honest(t)'
      BY <1>5, <2>3, <3>1
    <3> QED
      BY <1>1, <2>1, <2>3, <3>1, <3>2 DEF EndFits, Shown
  <2>4. CASE Wishes(t) = {} /\ Fresh(t) \in {{4, 6}, {5, 6}} /\ Left(t, tab[t].truncated)
    <3>1. h # 6
      <4>1. 4 \in Tidings(t) \/ 5 \in Tidings(t)
        BY <1>4, <2>4
      <4> QED
        BY <1>1, <4>1
    <3>2. h \in {4, 5} /\ Tidings(t)' = {6} /\ Free(t)
      BY <1>1, <1>2, <1>4, <2>4, <3>1 DEF Left
    <3>3. Honest(t)'
      BY <1>5, <2>4, <3>2
    <3> QED
      BY <1>1, <2>1, <2>4, <3>2, <3>3 DEF EndFits, Shown
  <2>5. CASE Wishes(t) = {} /\ Fresh(t) = {6} /\ Free(t)
    <3>1. h = 6 /\ Tidings(t)' = {}
      BY <1>1, <1>2, <1>4, <2>5
    <3>2. Honest(t)'
      BY <1>6, <2>1, <3>1
    <3> QED
      BY <1>1, <2>1, <2>5, <3>1, <3>2 DEF EndFits, Shown
  <2> QED
    BY <2>2, <2>3, <2>4, <2>5
<1>9. CASE EndFits(t)
  <2>1. tab[t].stopped /\ Wishes(t) = {} /\ Tidings(t) = {6} /\ Free(t)
    BY <1>1, <1>9 DEF EndFits
  <2>2. h = 6 /\ Tidings(t)' = {}
    BY <1>1, <2>1
  <2>3. Honest(t)'
    BY <1>6, <2>1, <2>2
  <2> QED
    BY <1>1, <2>1, <2>2, <2>3 DEF EndFits, Shown
<1> QED
  BY <1>0, <1>7, <1>8, <1>9

(* The user asks something of the tab.                                       *)
Asked(t, h) == WishMade(t, h) /\ NoNews(t) /\ Apart(t)

LEMMA AskingTells ==
    ASSUME NEW t, NEW h, Asked(t, h)
    PROVE  /\ Wishes(t)' = Wishes(t) \cup {h} /\ (h = 1 => Cover(t)')
           /\ InTime(t) /\ (\A y \in Wishes(t) : y < h) => InTime(t)'
           /\ Tidings(t)' = Tidings(t) /\ Fresh(t)' = Fresh(t) /\ (Late(t) => Late(t)')
           /\ (Free(t) => Free(t)') /\ IsLive(t)' = IsLive(t) /\ Join(t)' = Join(t) /\ Rep(t)' = Rep(t)
           /\ Tale(t)' \subseteq Tale(t)
<1>1. /\ Wishes(t)' = Wishes(t) \cup {h} /\ (h = 1 => Cover(t)')
      /\ CommandsUp(t) /\ (\A y \in Wishes(t) : y < h) => CommandsUp(t)'
  BY DEF Asked, WishMade
<1>2. Tidings(t)' = Tidings(t) /\ (PipeUp(t) => PipeUp(t)') /\ (Late(t) => Late(t)')
  BY DEF Asked, NoNews
<1>3. /\ IsLive(t)' = IsLive(t) /\ Join(t)' = Join(t) /\ Rep(t)' = Rep(t) /\ Tale(t)' \subseteq Tale(t)
  BY DEF Asked, Apart
<1>4. InTime(t) /\ (\A y \in Wishes(t) : y < h) => InTime(t)'
  BY <1>1, <1>2 DEF InTime
<1>5. Fresh(t)' = Fresh(t)
  BY <1>2 DEF Fresh
<1>6. Free(t) => Free(t)'
  BY <1>3 DEF Free
<1> QED
  BY <1>1, <1>2, <1>3, <1>4, <1>5, <1>6

LEMMA QuietRanks ==
    ASSUME Base, NEW t
    PROVE  /\ Wishes(t) = {} /\ Tidings(t) = {} => InTime(t)
           /\ Wishes(t) \subseteq {1} => Cover(t)
           /\ Tidings(t) = {6} => Late(t)
<1> DEFINE P == Pipe
           C == commands
<1>1. C \in Seq(CommandSet) /\ P \in Seq(EventSet)
  BY PipeTypes DEF Base, TypeInv
<1>2. /\ Wishes(t) = Ranks(C, CommandRank(t)) /\ Tidings(t) = Ranks(P, EventRank(t))
      /\ CommandsUp(t) = Rising(C, CommandRank(t)) /\ PipeUp(t) = Rising(P, EventRank(t))
      /\ Cover(t) = Covered(C, CommandRank(t)) /\ Late(t) = Leads(P, EventRank(t))
  BY DEF Wishes, Tidings, CommandsUp, PipeUp, Cover, Late
<1> HIDE DEF P, C
<1>3. /\ Ranks(C, CommandRank(t)) = {} => Rising(C, CommandRank(t))
      /\ 2 \notin Ranks(C, CommandRank(t)) /\ 3 \notin Ranks(C, CommandRank(t))
         => Covered(C, CommandRank(t))
  BY <1>1, Unranked
<1>4. /\ Ranks(P, EventRank(t)) = {} => Rising(P, EventRank(t))
      /\ Ranks(P, EventRank(t)) = {6} => Leads(P, EventRank(t))
  BY <1>1, Unranked
<1>5. Wishes(t) \subseteq {1} => 2 \notin Wishes(t) /\ 3 \notin Wishes(t)
  OBVIOUS
<1> QED
  BY <1>2, <1>3, <1>4, <1>5 DEF InTime

LEMMA ShownOpened ==
    ASSUME Base, NEW t, Shown(t), tab[t].phase = "none", t > opened, Asked(t, 2),
           tab'[t].phase = "starting", tab'[t].code = tab[t].code
    PROVE  Shown(t)'
<1>1. NewFits(t)
  BY DEF Shown, StartFits, RunFits, StopFits, EndFits, ClosedFits, Doomed
<1>2. Wishes(t) = {} /\ Tidings(t) = {} /\ Free(t) /\ InTime(t) /\ tab[t].code = "none"
  BY <1>1, QuietRanks DEF NewFits
<1>3. Wishes(t)' = {2} /\ Tidings(t)' = {} /\ Free(t)' /\ InTime(t)'
  BY <1>2, AskingTells
<1> QED
  BY <1>2, <1>3 DEF StartFits, Shown

LEMMA ShownClosed ==
    ASSUME Base, NEW t, Shown(t), tab[t].phase # "none", ~(t > opened'), tab'[t].phase = "none",
           \/ Asked(t, 1)
           \/ tab[t].phase = "ended" /\ NoWish(t) /\ NoNews(t) /\ Apart(t)
    PROVE  Shown(t)'
<1>1. CASE Asked(t, 1)
  <2>1. Cover(t)' /\ 1 \in Wishes(t)'
    BY <1>1, AskingTells
  <2> QED
    BY <2>1 DEF ClosedFits, Shown
<1>2. CASE tab[t].phase = "ended" /\ NoWish(t) /\ NoNews(t) /\ Apart(t)
  <2>1. EndFits(t)
    BY <1>2 DEF Shown, NewFits, StartFits, RunFits, StopFits, ClosedFits, Doomed
  <2>2. Wishes(t) \subseteq {1} /\ ~IsLive(t) /\ Join(t) = "loop"
    BY <2>1 DEF EndFits, Free
  <2>3. Cover(t)' /\ ~IsLive(t)' /\ Join(t)' = "loop"
    BY <1>2, <2>2, QuietRanks DEF NoWish, Apart
  <2> QED
    BY <2>3 DEF ClosedFits, Shown
<1> QED
  BY <1>1, <1>2

LEMMA ShownRestarted ==
    ASSUME Base, NEW t, Shown(t), tab[t].phase = "ended", Asked(t, 3),
           tab'[t].phase = "starting", tab'[t].code = "none"
    PROVE  Shown(t)'
<1>1. EndFits(t)
  BY DEF Shown, NewFits, StartFits, RunFits, StopFits, ClosedFits, Doomed
<1>2. CASE Tidings(t) = {}
  <2>1. Wishes(t) \in {{}, {1}} /\ Free(t) /\ InTime(t)
    BY <1>1, <1>2 DEF EndFits
  <2>2. \A y \in Wishes(t) : y < 3
    BY <2>1
  <2>3. Wishes(t)' \in {{3}, {1, 3}} /\ Tidings(t)' = {} /\ Free(t)' /\ InTime(t)'
    <3>1. Wishes(t)' = Wishes(t) \cup {3}
      BY AskingTells
    <3>2. Wishes(t)' \in {{3}, {1, 3}}
      BY <2>1, <3>1
    <3> QED
      BY <1>2, <2>1, <2>2, <3>2, AskingTells
  <2> QED
    BY <2>3 DEF StartFits, Shown
<1>3. CASE Tidings(t) = {6}
  <2>1. 3 \in Wishes(t)' /\ Late(t)'
    BY <1>3, QuietRanks, AskingTells
  <2> QED
    BY <2>1 DEF Doomed, Shown
<1> QED
  BY <1>1, <1>2, <1>3 DEF EndFits

LEMMA ShownStopped ==
    ASSUME NEW t, Shown(t), tab[t].phase = "running", Asked(t, 1),
           tab'[t].phase = "stopping", tab'[t].stopped, tab'[t].truncated = tab[t].truncated
    PROVE  Shown(t)'
<1>1. RunFits(t)
  BY DEF Shown, NewFits, StartFits, EndFits, StopFits, ClosedFits, Doomed
<1>2. Wishes(t) = {} /\ InTime(t)
  BY <1>1 DEF RunFits
<1>3. /\ Wishes(t)' = {1} /\ Tidings(t)' = Tidings(t) /\ Fresh(t)' = Fresh(t) /\ InTime(t)'
      /\ (Free(t) => Free(t)') /\ IsLive(t)' = IsLive(t) /\ Rep(t)' = Rep(t) /\ Tale(t)' \subseteq Tale(t)
  BY <1>2, AskingTells
<1>4. Runs(t, tab[t].truncated) => Runs(t, tab[t].truncated)'
  BY <1>3 DEF Runs
<1>5. Left(t, tab[t].truncated) => Left(t, tab[t].truncated)'
  BY <1>3 DEF Left
<1> QED
  BY <1>1, <1>3, <1>4, <1>5 DEF RunFits, StopFits, Shown

-----------------------------------------------------------------------------
(* What every tab shows, through a step that is about one tab at most.       *)
Showing == \A u \in Tabs : Shown(u)
Passes(u) == SameTab(u) /\ NoWish(u) /\ NoNews(u) /\ Aside(u)

LEMMA ShowingWith ==
    ASSUME Base, Base', Showing, NEW t, \A u \in Tabs : u # t => Passes(u), t \in Tabs => Shown(t)'
    PROVE  Showing'
<1> SUFFICES ASSUME NEW u \in Tabs PROVE Shown(u)'
  BY DEF Showing
<1>1. CASE u = t
  BY <1>1
<1>2. CASE u # t
  <2>1. Shown(u) /\ Passes(u) /\ terminals' \in Terms
    BY <1>2 DEF Showing, Base, TypeInv
  <2>2. Apart(u)
    BY <2>1, AsideIsApart DEF Passes
  <2> QED
    BY <2>1, <2>2, Unconcerned DEF Passes
<1> QED
  BY <1>1, <1>2

LEMMA ShowingAll ==
    ASSUME Base, Base', Showing, \A u \in Tabs : Passes(u)
    PROVE  Showing'
<1>1. 0 \notin Tabs
  BY DEF Tabs
<1> QED
  BY <1>1, ShowingWith

LEMMA UntouchedAside ==
    ASSUME NEW u, terminals'[u] = terminals[u], Join(u)' = Join(u),
           \A j \in Sessions : session'[j] = session[j] \/ (session[j].tab # u /\ session'[j].tab # u)
    PROVE  Aside(u)
<1>1. \A s : SameKnown(s, s)
  BY DEF SameKnown
<1> QED
  BY <1>1 DEF Aside

LEMMA JoinNone ==
    ASSUME NEW u
    PROVE  /\ backend.at # "join" \/ backend.tab # u => Join(u) = "loop"
           /\ backend'.at # "join" \/ backend'.tab # u => Join(u)' = "loop"
           /\ backend.at = "join" /\ backend.tab = u => Join(u) = backend.then
           /\ backend'.at = "join" /\ backend'.tab = u => Join(u)' = backend'.then
  BY DEF Join

LEMMA SessionsShow ==
    ASSUME Base, Base', Showing, NEW i \in Sessions, SessionStep(i)
    PROVE  Showing'
<1>1. UNCHANGED notSession /\ \A j \in Sessions : Evolves(session[j], session'[j])
  BY SessionSteps, SessionFrame DEF Base
<1> SUFFICES ASSUME NEW u \in Tabs PROVE Passes(u)
  BY ShowingAll
<1>2. UNCHANGED <<tab, opened, commands, events, backend, terminals>>
  BY <1>1 DEF notSession, uiVars
<1>3. NoWish(u) /\ NoNews(u)
  <2>1. Pipe' = Pipe
    BY <1>2 DEF Pipe
  <2> QED
    BY <1>2, <2>1, SameCommands, SamePipe
<1>4. Aside(u)
  BY <1>1, <1>2, EvolvingAside DEF Join
<1> QED
  BY <1>2, <1>3, <1>4 DEF Passes, SameTab

(* A round of the backend ends.                                              *)
LEMMA NoCommandShows ==
    ASSUME Base, Base', Showing, NoCommand
    PROVE  Showing'
<1>1. /\ backend.at = "loop" /\ backend'.at = "loop" /\ backend'.out = <<>>
      /\ UNCHANGED <<tab, opened, commands, events, terminals, session>>
  BY DEF NoCommand, Loop, notBackend, uiVars
<1> SUFFICES ASSUME NEW u \in Tabs PROVE Passes(u)
  BY ShowingAll
<1>2. NoWish(u) /\ NoNews(u)
  BY <1>1, SameCommands, NothingTold
<1>3. Aside(u)
  <2>1. Join(u)' = Join(u)
    BY <1>1, JoinNone
  <2> QED
    BY <1>1, <2>1, UntouchedAside
<1> QED
  BY <1>1, <1>2, <1>3 DEF Passes, SameTab

(* An event goes from the hand of the backend into the queue.                *)
LEMMA EmitShows ==
    ASSUME Base, Base', Showing, Emit, Calm'
    PROVE  Showing'
<1> DEFINE e == events
           o == backend.out
<1>1. /\ events' = Append(e, Head(o)) /\ backend.at = "emit" /\ Reply(Tail(o), backend.todo)
      /\ UNCHANGED <<tab, opened, commands, terminals, session>>
  <2>1. holes' = {}
    BY DEF Calm
  <2>2. ~Hole("missed")
    BY <2>1 DEF Hole
  <2> QED
    BY <2>2 DEF Emit, uiVars
<1>2. e \in Seq(EventSet) /\ o \in Seq(EventSet) /\ o # <<>>
  BY <1>1, PipeTypes DEF Base, Working
<1>3. Tail(o) \in Seq(EventSet) /\ Head(o) \in EventSet
  BY <1>2, TakingFirst
<1>4. backend'.out = Tail(o) /\ backend'.at # "join"
  <2>1. backend.todo \subseteq LiveIn(terminals) /\ LiveIn(terminals) \subseteq Tabs
    BY DEF Base, Working, LiveIn
  <2>2. backend'.out = Tail(o) /\ backend'.at \in {"loop", "emit"}
    BY <1>1, <1>3, <2>1, Replying
  <2> QED
    BY <2>2
<1>5. Pipe' = Pipe
  <2>1. Pipe' = Cat(Append(e, Head(o)), Tail(o)) /\ Pipe = Cat(e, o)
    BY <1>1, <1>4 DEF Pipe
  <2> HIDE DEF e, o
  <2>2. Append(e, Head(o)) = Cat(e, One(Head(o))) /\ One(Head(o)) \in Seq(EventSet)
    BY <1>2, <1>3, PutAsCat, OneType
  <2>3. Cat(Cat(e, One(Head(o))), Tail(o)) = Cat(e, Cat(One(Head(o)), Tail(o)))
    <3> DEFINE x == One(Head(o))
               r == Tail(o)
    <3>1. x \in Seq(EventSet) /\ r \in Seq(EventSet) /\ e \in Seq(EventSet)
      BY <1>2, <1>3, <2>2
    <3> HIDE DEF x, r
    <3>2. Cat(Cat(e, x), r) = Cat(e, Cat(x, r))
      BY <3>1, Regroup
    <3> QED
      BY <3>2 DEF x, r
  <2>4. o = Cat(One(Head(o)), Tail(o))
    BY <1>2, FirstAndRest
  <2> QED
    BY <2>1, <2>2, <2>3, <2>4
<1> SUFFICES ASSUME NEW u \in Tabs PROVE Passes(u)
  BY ShowingAll
<1>6. NoWish(u) /\ NoNews(u)
  BY <1>1, <1>5, SameCommands, SamePipe
<1>7. Aside(u)
  <2>1. Join(u)' = Join(u)
    BY <1>1, <1>4, JoinNone
  <2> QED
    BY <1>1, <2>1, UntouchedAside
<1> QED
  BY <1>1, <1>6, <1>7 DEF Passes, SameTab

(* A command is taken: it is a wish of its tab only.                         *)
LEMMA TakingShows ==
    ASSUME Base, NEW kind, Take(kind), NEW u \in Tabs
    PROVE  /\ SameTab(u) /\ Join(u) = "loop" /\ events' = events /\ backend.at = "loop"
           /\ u # Taken \/ kind = "write" => NoWish(u)
           /\ u = Taken => /\ kind = "stop" => WishTaken(u, 1)
                           /\ kind = "spawn" => WishTaken(u, 2)
                           /\ kind = "restart" => WishTaken(u, 3)
<1>1. /\ commands \in Seq(CommandSet) /\ commands # <<>> /\ commands' = Tail(commands)
      /\ Head(commands) \in CommandSet /\ Head(commands).kind = kind
      /\ backend.at = "loop" /\ UNCHANGED notBackend /\ events' = events
  BY TakingKeeps
<1>2. SameTab(u) /\ Join(u) = "loop"
  BY <1>1, JoinNone DEF notBackend, uiVars, SameTab
<1> DEFINE h == CommandRank(u)[Head(commands)]
<1>3. (h = 0 => NoWish(u)) /\ (h # 0 => WishTaken(u, h))
  BY <1>1, CommandTaken
<1>4. /\ u # Taken => h = 0
      /\ u = Taken => /\ kind = "stop" => h = 1
                      /\ kind = "spawn" => h = 2
                      /\ kind = "restart" => h = 3
                      /\ kind = "write" => h = 0
  BY <1>1, RankTypes, OrderRanks DEF Taken
<1> QED
  BY <1>1, <1>2, <1>3, <1>4

LEMMA NoteOfNone ==
    ASSUME NEW u \in Tabs PROVE Note \in EventSet /\ EventRank(u)[Note] = 0
<1>1. Note \in EventSet /\ Note.tab = 0 /\ u # 0
  BY NoteType DEF Note, Event, Tabs
<1> QED
  BY <1>1, RankTypes

(* The backend says nothing, or one thing, and does not wait.                *)
LEMMA ReplyShows ==
    ASSUME Base, backend.at # "emit", events' = events, NEW L, L \subseteq Tabs,
           NEW e \in EventSet, Reply(<<e>>, L), NEW u \in Tabs
    PROVE  /\ backend'.at = "emit" /\ Join(u)' = "loop"
           /\ EventRank(u)[e] = 0 => NoNews(u)
           /\ EventRank(u)[e] # 0 => NewsTold(u, {EventRank(u)[e]})
<1>1. <<e>> \in Seq(EventSet) /\ <<e>> # <<>>
  OBVIOUS
<1>2. backend'.out = <<e>> /\ backend'.at \in {"loop", "emit"} /\ Working(backend', L)
  BY <1>1, Replying
<1>3. backend'.at = "emit"
  BY <1>1, <1>2 DEF Working
<1> DEFINE h == EventRank(u)[e]
<1>4. (h = 0 => NoNews(u)) /\ (h # 0 => NewsTold(u, {h}))
  BY <1>2, EventTold
<1> QED
  BY <1>3, <1>4, JoinNone

LEMMA WriteShows ==
    ASSUME Base, Base', Showing, RunWrite
    PROVE  Showing'
<1>1. Take("write")
  BY DEF RunWrite
<1>2. /\ terminals' = terminals /\ \A j \in Sessions : Evolves(session[j], session'[j])
      /\ Reply(<<>>, Live) \/ Reply(<<Note>>, Live)
  BY WriteEffect
<1> SUFFICES ASSUME NEW u \in Tabs PROVE Passes(u)
  BY ShowingAll
<1>3. SameTab(u) /\ NoWish(u) /\ Join(u) = "loop" /\ events' = events /\ backend.at = "loop"
  BY <1>1, TakingShows
<1>4. Live \subseteq Tabs
  BY DEF Live
<1>5. NoNews(u) /\ Join(u)' = "loop"
  <2>1. CASE Reply(<<Note>>, Live)
    BY <1>3, <1>4, <2>1, NoteOfNone, ReplyShows
  <2>2. CASE Reply(<<>>, Live)
    <3>1. backend' = Loop(Live)
      BY <2>2 DEF Reply
    <3>2. backend'.out = <<>> /\ backend'.at = "loop"
      BY <3>1 DEF Loop
    <3> QED
      BY <1>3, <3>2, NothingTold, JoinNone
  <2> QED
    BY <1>2, <2>1, <2>2
<1>6. Aside(u)
  BY <1>2, <1>3, <1>5, EvolvingAside
<1> QED
  BY <1>3, <1>5, <1>6 DEF Passes

(* A shell is started for the tab, or not; S is what the sessions are when   *)
(* it starts.                                                                *)
LEMMA StartShows ==
    ASSUME Base, Base', Showing, backend.at # "emit", events' = events, NEW t \in Tabs, ~IsLive(t),
           NEW S, DOMAIN S = Sessions, \A j \in Sessions : S[j].at = "none" => S[j].tab = 0,
           \A j \in Sessions : S[j] = session[j] \/ (session[j].tab = t /\ S[j].tab = t),
           StartTerminal(t, S), backend.at = "join" => backend.tab = t,
           \A u \in Tabs : SameTab(u) /\ (u # t => NoWish(u))
    PROVE  /\ \A u \in Tabs : u # t => Passes(u)
           /\ Join(t)' = "loop"
           /\ \/ IsLive(t)' /\ ~Rep(t)' /\ NewsTold(t, {1})
              \/ ~IsLive(t)' /\ NewsTold(t, {2})
<1> DEFINE e == Event("started", t, "none")
           f == Event("startFailed", t, "none")
<1>1. e \in EventSet /\ f \in EventSet /\ e.tab = t /\ f.tab = t
      /\ EventRank(t)[e] = 1 /\ EventRank(t)[f] = 2
  <2>1. e \in EventSet /\ f \in EventSet
    BY EventTypes DEF Kinds, Codes
  <2>2. e.tab = t /\ f.tab = t /\ e.kind = "started" /\ f.kind = "startFailed"
    BY DEF Event
  <2> HIDE DEF e, f
  <2> QED
    BY <2>1, <2>2, NewsRanks
<1>2. \A u \in Tabs : u # t => EventRank(u)[e] = 0 /\ EventRank(u)[f] = 0
  BY <1>1, RankTypes
<1>3. /\ LiveIn(terminals) \subseteq Tabs /\ LiveIn(terminals) \cup {t} \subseteq Tabs
      /\ terminals \in Terms /\ 0 \notin Tabs /\ 0 \notin Sessions
  BY DEF LiveIn, Base, TypeInv, Tabs, Sessions
<1>4. \A u \in Tabs : u # t => Join(u) = "loop"
  BY JoinNone
<1>5. ASSUME NEW u \in Tabs, u # t, Join(u)' = "loop", NoNews(u), terminals'[u] = terminals[u],
             \A j \in Sessions : session'[j] = S[j] \/ (S[j].tab # u /\ session'[j].tab = t)
      PROVE  Passes(u)
  <2>1. \A j \in Sessions : session'[j] = session[j] \/ (session[j].tab # u /\ session'[j].tab # u)
    BY <1>5
  <2>2. Aside(u)
    BY <1>4, <1>5, <2>1, UntouchedAside
  <2> QED
    BY <1>5, <2>2 DEF Passes
<1> HIDE DEF e, f
<1>6. CASE StartFails(S, t)
  <2>1. session' = S /\ terminals' = terminals /\ Reply(<<f>>, LiveIn(terminals))
    BY <1>6 DEF StartFails, f
  <2>2. ASSUME NEW u \in Tabs
        PROVE  Join(u)' = "loop" /\ (u # t => NoNews(u)) /\ (u = t => NewsTold(u, {2}))
    <3>1. /\ Join(u)' = "loop"
          /\ EventRank(u)[f] = 0 => NoNews(u)
          /\ EventRank(u)[f] # 0 => NewsTold(u, {EventRank(u)[f]})
      BY <1>1, <1>3, <2>1, ReplyShows
    <3> QED
      BY <1>1, <1>2, <3>1
  <2>3. \A u \in Tabs : u # t => Passes(u)
    BY <1>5, <2>1, <2>2
  <2>4. ~IsLive(t)'
    BY <2>1 DEF IsLive
  <2> QED
    BY <2>2, <2>3, <2>4
<1>7. ASSUME NEW i \in Sessions, StartsAs(S, t, i)
      PROVE  /\ \A u \in Tabs : u # t => Passes(u)
             /\ Join(t)' = "loop" /\ IsLive(t)' /\ ~Rep(t)' /\ NewsTold(t, {1})
  <2>1. /\ S[i].at = "none" /\ session' = Put(S, i, Spawned(t)) /\ terminals' = On(terminals, t, i)
        /\ Reply(<<e>>, LiveIn(terminals) \cup {t})
    BY <1>7 DEF StartsAs, e
  <2>2. ASSUME NEW u \in Tabs
        PROVE  Join(u)' = "loop" /\ (u # t => NoNews(u)) /\ (u = t => NewsTold(u, {1}))
    <3>1. /\ Join(u)' = "loop"
          /\ EventRank(u)[e] = 0 => NoNews(u)
          /\ EventRank(u)[e] # 0 => NewsTold(u, {EventRank(u)[e]})
      BY <1>1, <1>3, <2>1, ReplyShows
    <3> QED
      BY <1>1, <1>2, <3>1
  <2>3. /\ \A u \in Tabs : u # t => terminals'[u] = terminals[u]
        /\ terminals'[t] = i
    BY <1>3, <2>1 DEF On, Terms
  <2>4. /\ session'[i] = Spawned(t) /\ S[i].tab = 0
        /\ \A j \in Sessions : j # i => session'[j] = S[j]
    BY <2>1 DEF Put
  <2>5. Spawned(t).tab = t /\ Spawned(t).reported = FALSE
    BY SpawnedIsFine DEF Base, TypeInv
  <2>6. \A u \in Tabs : u # t => Passes(u)
    <3>1. ASSUME NEW u \in Tabs, NEW j \in Sessions
          PROVE  session'[j] = S[j] \/ (S[j].tab # u /\ session'[j].tab = t)
      BY <1>3, <2>4, <2>5
    <3> QED
      BY <1>5, <2>2, <2>3, <3>1
  <2>7. IsLive(t)'
    BY <1>3, <2>3 DEF IsLive, LiveIn
  <2>8. ~Rep(t)'
    BY <2>3, <2>4, <2>5 DEF Rep
  <2> QED
    BY <2>2, <2>6, <2>7, <2>8
<1> QED
  BY <1>6, <1>7, Starting

LEMMA SessionTabs ==
    ASSUME Base PROVE DOMAIN session = Sessions /\ \A j \in Sessions : session[j].at = "none" => session[j].tab = 0
  BY DEF Base, SessionsInv, AllFine, Fine, Sound

LEMMA StartTakenShows ==
    ASSUME Base, Base', Showing, NEW kind \in {"spawn", "restart"}, Take(kind), ~IsLive(Taken),
           StartTerminal(Taken, session)
    PROVE  Showing'
<1>1. PICK t \in Tabs : t = Taken
  BY TakingKeeps
<1>2. /\ \A u \in Tabs : /\ SameTab(u) /\ Join(u) = "loop" /\ events' = events /\ backend.at = "loop"
                         /\ u # t => NoWish(u)
      /\ \E h \in {2, 3} : WishTaken(t, h)
  <2>1. \A u \in Tabs : /\ SameTab(u) /\ Join(u) = "loop" /\ events' = events /\ backend.at = "loop"
                        /\ u # Taken => NoWish(u)
                        /\ u = Taken => WishTaken(u, 2) \/ WishTaken(u, 3)
    BY TakingShows
  <2> QED
    BY <1>1, <2>1
<1>3. DOMAIN session = Sessions /\ \A j \in Sessions : session[j].at = "none" => session[j].tab = 0
  BY SessionTabs
<1>4. StartTerminal(t, session) /\ ~IsLive(t)
  BY <1>1
<1>5. /\ \A u \in Tabs : u # t => Passes(u)
      /\ Join(t)' = "loop"
      /\ \/ IsLive(t)' /\ ~Rep(t)' /\ NewsTold(t, {1})
         \/ ~IsLive(t)' /\ NewsTold(t, {2})
  <2>1. backend.at # "emit" /\ events' = events /\ backend.at # "join"
    BY <1>1, <1>2
  <2> QED
    BY <1>1, <1>2, <1>3, <1>4, <2>1, StartShows
<1>6. Shown(t)'
  <2>1. Shown(t) /\ SameTab(t) /\ Join(t) = "loop"
    BY <1>1, <1>2 DEF Showing
  <2>2. PICK h \in {2, 3} : WishTaken(t, h)
    BY <1>2
  <2> QED
    BY <1>4, <1>5, <2>1, <2>2, ShownStarting
<1> QED
  BY <1>5, <1>6, ShowingWith

LEMMA SpawnShows == ASSUME Base, Base', Showing, RunSpawn PROVE Showing'
<1>1. Take("spawn") /\ StartTerminal(Taken, session)
  BY DEF RunSpawn
<1>2. ~IsLive(Taken)
  BY <1>1, SpawnedNew, LiveIs DEF IsLive
<1> QED
  BY <1>1, <1>2, StartTakenShows

(* A session is told to end.                                                 *)
LEMMA ShutTakenShows ==
    ASSUME Base, Base', Showing, NEW kind, Take(kind), IsLive(Taken), NEW next, ShutThen(Taken, next),
           (kind = "restart" /\ next = "start") \/ (kind = "stop" /\ next = "exited")
    PROVE  Showing'
<1>0. PICK t \in Tabs : t = Taken
  BY TakingKeeps
<1>1. t \in Live /\ next \in Afters \ {"loop"} /\ ShutThen(t, next)
  BY <1>0, LiveIs DEF IsLive, Afters
<1>2. /\ \A u \in Tabs : /\ SameTab(u) /\ Join(u) = "loop" /\ events' = events /\ backend.at = "loop"
                         /\ u # t => NoWish(u)
      /\ (kind = "stop" /\ WishTaken(t, 1)) \/ (kind = "restart" /\ WishTaken(t, 3))
  <2>1. \A u \in Tabs : /\ SameTab(u) /\ Join(u) = "loop" /\ events' = events /\ backend.at = "loop"
                        /\ u # Taken => NoWish(u)
                        /\ u = Taken => /\ kind = "stop" => WishTaken(u, 1)
                                        /\ kind = "restart" => WishTaken(u, 3)
    BY TakingShows
  <2> QED
    BY <1>0, <2>1
<1>3. IsLive(t)
  BY <1>0
<1>4. backend.at # "emit" /\ backend.at # "join" /\ events' = events
  BY <1>1, <1>2
<1>5. /\ terminals' = Off(terminals, t) /\ LiveIn(terminals') = LiveIn(terminals) \ {t}
      /\ \A j \in Sessions : Evolves(session[j], session'[j])
      /\ backend'.at = "join" /\ backend'.tab = t /\ backend'.then = next /\ backend'.out = <<>>
  BY <1>1, <1>4, Shutting
<1>6. \A u \in Tabs : NoNews(u)
  BY <1>4, <1>5, NothingTold
<1>7. ASSUME NEW u \in Tabs, u # t PROVE Passes(u)
  <2>1. Join(u)' = Join(u)
    BY <1>2, <1>5, <1>7, JoinNone
  <2>2. terminals'[u] = terminals[u]
    BY <1>5, <1>7 DEF Base, TypeInv, Terms, Off
  <2>3. Aside(u)
    BY <1>5, <2>1, <2>2, EvolvingAside
  <2> QED
    BY <1>2, <1>6, <1>7, <2>3 DEF Passes
<1>8. Shown(t)'
  <2>1. Shown(t) /\ SameTab(t) /\ Join(t) = "loop" /\ NoNews(t)
    BY <1>1, <1>2, <1>6 DEF Showing
  <2>2. ~IsLive(t)' /\ Join(t)' = next
    BY <1>5, JoinNone DEF IsLive
  <2> QED
    BY <1>2, <1>3, <2>1, <2>2, ShownShut
<1> QED
  BY <1>7, <1>8, ShowingWith

LEMMA RestartShows == ASSUME Base, Base', Showing, RunRestart PROVE Showing'
<1>1. Take("restart") /\ (Taken \in Live <=> IsLive(Taken))
  BY LiveIs DEF RunRestart, IsLive
<1>2. CASE IsLive(Taken)
  BY <1>1, <1>2, ShutTakenShows DEF RunRestart
<1>3. CASE ~IsLive(Taken)
  BY <1>1, <1>3, StartTakenShows DEF RunRestart
<1> QED
  BY <1>2, <1>3

(* A stop that finds no session is answered at once.                         *)
LEMMA ExitZero ==
    ASSUME NEW t \in Tabs, NEW e, e = Event("exited", t, "zero")
    PROVE  e \in EventSet /\ \A u \in Tabs : EventRank(u)[e] = IF u = t THEN 6 ELSE 0
<1>1. e \in EventSet
  BY EventTypes DEF Kinds, Codes
<1>2. e.tab = t /\ e.kind = "exited" /\ e.code = "zero"
  BY DEF Event
<1> QED
  BY <1>1, <1>2, NewsRanks, RankTypes

LEMMA StopShows == ASSUME Base, Base', Showing, RunStop PROVE Showing'
<1>1. Take("stop") /\ (Taken \in Live <=> IsLive(Taken))
  BY LiveIs DEF RunStop, IsLive
<1>2. CASE IsLive(Taken)
  BY <1>1, <1>2, ShutTakenShows DEF RunStop
<1>3. CASE ~IsLive(Taken)
  <2>1. PICK t \in Tabs : t = Taken
    BY <1>1, TakingKeeps
  <2>2. PICK e : e = Event("exited", t, "zero")
    OBVIOUS
  <2>3. terminals' = terminals /\ session' = session /\ Reply(<<e>>, Live)
    BY <1>1, <1>3, <2>1, <2>2 DEF RunStop
  <2>4. /\ \A u \in Tabs : /\ SameTab(u) /\ Join(u) = "loop" /\ events' = events /\ backend.at = "loop"
                           /\ u # t => NoWish(u)
        /\ WishTaken(t, 1)
    <3>1. \A u \in Tabs : /\ SameTab(u) /\ Join(u) = "loop" /\ events' = events /\ backend.at = "loop"
                          /\ u # Taken => NoWish(u)
                          /\ u = Taken => WishTaken(u, 1)
      BY <1>1, TakingShows
    <3> QED
      BY <2>1, <3>1
  <2>5. e \in EventSet /\ \A u \in Tabs : EventRank(u)[e] = IF u = t THEN 6 ELSE 0
    BY <2>2, ExitZero
  <2>6. ASSUME NEW u \in Tabs
        PROVE  Join(u)' = "loop" /\ (u # t => NoNews(u)) /\ (u = t => NewsTold(u, {6}))
    <3>1. Live \subseteq Tabs
      BY DEF Live
    <3>2. /\ Join(u)' = "loop"
          /\ EventRank(u)[e] = 0 => NoNews(u)
          /\ EventRank(u)[e] # 0 => NewsTold(u, {EventRank(u)[e]})
      BY <2>3, <2>4, <2>5, <3>1, ReplyShows
    <3> QED
      BY <2>5, <3>2
  <2>7. ASSUME NEW u \in Tabs PROVE Aside(u)
    BY <2>3, <2>4, <2>6, UntouchedAside
  <2>8. \A u \in Tabs : u # t => Passes(u)
    BY <2>4, <2>6, <2>7 DEF Passes
  <2>9. Shown(t)'
    <3>1. terminals' \in Terms
      BY DEF Base, TypeInv
    <3>2. Apart(t)
      BY <2>7, <3>1, AsideIsApart
    <3>3. Shown(t) /\ SameTab(t) /\ ~IsLive(t) /\ Join(t) = "loop" /\ Join(t)' = "loop" /\ ~IsLive(t)'
          /\ WishTaken(t, 1) /\ NewsTold(t, {6}) /\ Tale(t)' \subseteq Tale(t)
      BY <1>3, <2>1, <2>4, <2>6, <3>2 DEF Showing, Apart
    <3> QED
      BY <3>3, ShownStopAnswered
  <2> QED
    BY <2>8, <2>9, ShowingWith
<1> QED
  BY <1>2, <1>3

(* The session of a tab has ended as it was told to.                         *)
LEMMA JoinedShows == ASSUME Base, Base', Showing, Joined PROVE Showing'
<1>1. /\ backend.at = "join" /\ At(backend.session, "gone") /\ UNCHANGED <<notBackend, commands, events>>
      /\ \/ backend.then = "start" /\ StartTerminal(backend.tab, AfterJoin)
         \/ /\ backend.then = "exited" /\ Reply(<<Event("exited", backend.tab, "zero")>>, Live)
            /\ session' = AfterJoin /\ terminals' = terminals
         \/ /\ backend.then = "quit" /\ backend' = Loop({})
            /\ session' = AfterJoin /\ terminals' = terminals
  BY DEF Joined, AfterJoin, Put
<1>2. PICK t : t = backend.tab
  OBVIOUS
<1>3. StartMay(AfterJoin, Loop({}), t)
  BY <1>1, <1>2, JoinedSessions
<1>4. t \in Tabs /\ ~IsLive(t) /\ DOMAIN AfterJoin = Sessions /\ AllFine(AfterJoin)
  BY <1>3 DEF StartMay, IsLive
<1>5. \A j \in Sessions : AfterJoin[j].at = "none" => AfterJoin[j].tab = 0
  BY <1>4, FineFields DEF AllFine
<1>6. \A j \in Sessions : AfterJoin[j] = session[j] \/ (session[j].tab = t /\ AfterJoin[j].tab = t)
  <2> DEFINE n == Forgotten(backend.session, FALSE)
  <2>1. backend.session \in Sessions /\ session[backend.session].tab = t
    BY <1>1, <1>2 DEF Base, LinksInv, Links, Joins
  <2>2. n.tab = t
    BY <2>1 DEF Forgotten, NoSession
  <2> HIDE DEF n
  <2>3. DOMAIN session = Sessions /\ AfterJoin = Put(session, backend.session, n)
    BY QuietSessions DEF AfterJoin, n
  <2>4. \A j \in Sessions : AfterJoin[j] = IF j = backend.session THEN n ELSE session[j]
    BY <2>1, <2>3 DEF Put
  <2> QED
    BY <2>1, <2>2, <2>4
<1>7. \A u \in Tabs : SameTab(u) /\ NoWish(u)
  BY <1>1, SameCommands DEF SameTab, notBackend, uiVars
<1>8. events' = events /\ backend.at # "emit" /\ Join(t) = backend.then
  BY <1>1, <1>2, JoinNone
<1>9. \A u \in Tabs : u # t => Join(u) = "loop"
  BY <1>2, JoinNone
<1>10. ASSUME session' = AfterJoin, terminals' = terminals, NEW u \in Tabs, u # t, NoNews(u), Join(u)' = "loop"
       PROVE  Passes(u)
  <2>1. \A j \in Sessions : session'[j] = session[j] \/ (session[j].tab # u /\ session'[j].tab # u)
    BY <1>6, <1>10
  <2>2. Aside(u)
    BY <1>9, <1>10, <2>1, UntouchedAside
  <2> QED
    BY <1>7, <1>10, <2>2 DEF Passes
<1>11. CASE backend.then = "start" /\ StartTerminal(backend.tab, AfterJoin)
  <2> DEFINE S == AfterJoin
  <2>1. DOMAIN S = Sessions /\ StartTerminal(t, S)
    BY <1>2, <1>4, <1>11
  <2>2. /\ \A j \in Sessions : S[j].at = "none" => S[j].tab = 0
        /\ \A j \in Sessions : S[j] = session[j] \/ (session[j].tab = t /\ S[j].tab = t)
    BY <1>5, <1>6
  <2> HIDE DEF S
  <2>3. /\ \A u \in Tabs : u # t => Passes(u)
        /\ Join(t)' = "loop"
        /\ \/ IsLive(t)' /\ ~Rep(t)' /\ NewsTold(t, {1})
           \/ ~IsLive(t)' /\ NewsTold(t, {2})
    BY <1>2, <1>4, <1>7, <1>8, <2>1, <2>2, StartShows
  <2>4. Shown(t)'
    <3>1. Shown(t) /\ SameTab(t) /\ NoWish(t)
      BY <1>4, <1>7 DEF Showing
    <3> QED
      BY <1>4, <1>8, <1>11, <2>3, <3>1, ShownJoined
  <2> QED
    BY <2>3, <2>4, ShowingWith
<1>12. CASE /\ backend.then = "exited" /\ Reply(<<Event("exited", backend.tab, "zero")>>, Live)
            /\ session' = AfterJoin /\ terminals' = terminals
  <2>1. PICK e : e = Event("exited", t, "zero")
    OBVIOUS
  <2>2. e \in EventSet /\ (\A u \in Tabs : EventRank(u)[e] = IF u = t THEN 6 ELSE 0) /\ Reply(<<e>>, Live)
    BY <1>2, <1>4, <1>12, <2>1, ExitZero
  <2>3. ASSUME NEW u \in Tabs
        PROVE  Join(u)' = "loop" /\ (u # t => NoNews(u)) /\ (u = t => NewsTold(u, {6}))
    <3>1. Live \subseteq Tabs
      BY DEF Live
    <3>2. /\ Join(u)' = "loop"
          /\ EventRank(u)[e] = 0 => NoNews(u)
          /\ EventRank(u)[e] # 0 => NewsTold(u, {EventRank(u)[e]})
      BY <1>8, <2>2, <3>1, ReplyShows
    <3> QED
      BY <2>2, <3>2
  <2>4. \A u \in Tabs : u # t => Passes(u)
    BY <1>10, <1>12, <2>3
  <2>5. Shown(t)'
    <3>1. Shown(t) /\ SameTab(t) /\ NoWish(t) /\ NewsTold(t, {6}) /\ Join(t)' = "loop"
      BY <1>4, <1>7, <2>3 DEF Showing
    <3>2. ~IsLive(t)'
      BY <1>4, <1>12 DEF IsLive
    <3> QED
      BY <1>4, <1>8, <1>12, <3>1, <3>2, ShownJoined
  <2> QED
    BY <2>4, <2>5, ShowingWith
<1>13. CASE /\ backend.then = "quit" /\ backend' = Loop({})
            /\ session' = AfterJoin /\ terminals' = terminals
  <2>1. backend'.at = "loop" /\ backend'.out = <<>>
    BY <1>13 DEF Loop
  <2>2. \A u \in Tabs : NoNews(u) /\ Join(u)' = "loop"
    BY <1>8, <2>1, NothingTold, JoinNone
  <2>3. \A u \in Tabs : u # t => Passes(u)
    BY <1>10, <1>13, <2>2
  <2>4. Shown(t)'
    <3>1. Shown(t) /\ SameTab(t) /\ NoWish(t) /\ NoNews(t) /\ Join(t)' = "loop"
      BY <1>4, <1>7, <2>2 DEF Showing
    <3>2. ~IsLive(t)'
      BY <1>4, <1>13 DEF IsLive
    <3> QED
      BY <1>4, <1>8, <1>13, <3>1, <3>2, ShownJoined
  <2> QED
    BY <2>3, <2>4, ShowingWith
<1> QED
  BY <1>1, <1>11, <1>12, <1>13

(* What is told of a session in one round, in its order.                     *)
MarkOf(s) == IF s.truncated /\ ~s.reported THEN {3} ELSE {}
EndOf(s) == IF CodeOf(s) = "none" THEN {} ELSE IF CodeOf(s) = "unknown" THEN {5} ELSE {4}

LEMMA ToldRanks ==
    ASSUME NEW t \in Tabs, NEW s, NEW u \in Tabs
    PROVE  LET out == ToldOf(t, s)
           IN  /\ out \in Seq(EventSet) /\ Rising(out, EventRank(u))
               /\ Ranks(out, EventRank(u)) = IF u = t THEN MarkOf(s) \cup EndOf(s) ELSE {}
<1> DEFINE taken == TakenOf(s)
           code == CodeOf(s)
           mark == Event("truncated", t, "none")
           end == Event("exited", t, code)
           a == IF \E i \in DOMAIN taken : taken[i] # "exited" THEN One(Note) ELSE <<>>
           b == IF s.truncated /\ ~s.reported THEN One(mark) ELSE <<>>
           c == IF code = "none" THEN <<>> ELSE One(end)
           r == EventRank(u)
<1>1. ToldOf(t, s) = Cat(Cat(a, b), c)
  BY DEF ToldOf, Drained, Cat, One
<1>2. code \in {"unknown", "own", "none"}
  BY CodeType
<1>3. mark \in EventSet /\ end \in EventSet
  BY <1>2, EventTypes DEF Kinds, Codes
<1>4. r[mark] = IF u = t THEN 3 ELSE 0
  <2>1. mark.tab = t /\ mark.kind = "truncated"
    BY DEF Event
  <2> HIDE DEF mark
  <2> QED
    BY <1>3, <2>1, NewsRanks, RankTypes
<1>5. code # "none" => r[end] = IF u = t THEN IF code = "unknown" THEN 5 ELSE 4 ELSE 0
  <2>1. end.tab = t /\ end.kind = "exited" /\ end.code = code
    BY DEF Event
  <2> HIDE DEF end
  <2> QED
    BY <1>2, <1>3, <2>1, NewsRanks, RankTypes
<1>6. r[Note] = 0 /\ Note \in EventSet
  BY NoteOfNone
<1>7. <<>> \in Seq(EventSet)
  OBVIOUS
<1> HIDE DEF mark, end, r, taken, code
<1>8. a \in Seq(EventSet) /\ Ranks(a, r) = {} /\ Rising(a, r)
  BY <1>6, <1>7, OneType, RanksOne, RanksNone
<1>9. b \in Seq(EventSet) /\ Rising(b, r) /\ Ranks(b, r) = IF u = t THEN MarkOf(s) ELSE {}
  <2>1. CASE s.truncated /\ ~s.reported
    <3>1. b = One(mark) /\ MarkOf(s) = {3}
      BY <2>1 DEF MarkOf
    <3>2. One(mark) \in Seq(EventSet) /\ Rising(One(mark), r) /\ Ranks(One(mark), r) = {r[mark]} \ {0}
      BY <1>3, OneType, RanksOne
    <3>3. {r[mark]} \ {0} = IF u = t THEN {3} ELSE {}
      BY <1>4
    <3> QED
      BY <3>1, <3>2, <3>3
  <2>2. CASE ~(s.truncated /\ ~s.reported)
    BY <1>7, <2>2, RanksNone DEF MarkOf
  <2> QED
    BY <2>1, <2>2
<1>10. c \in Seq(EventSet) /\ Rising(c, r) /\ Ranks(c, r) = IF u = t THEN EndOf(s) ELSE {}
  <2>1. CASE code # "none"
    <3>1. c = One(end) /\ EndOf(s) = IF code = "unknown" THEN {5} ELSE {4}
      BY <2>1 DEF EndOf, code
    <3>2. One(end) \in Seq(EventSet) /\ Rising(One(end), r) /\ Ranks(One(end), r) = {r[end]} \ {0}
      BY <1>3, OneType, RanksOne
    <3>3. {r[end]} \ {0} = IF u = t THEN IF code = "unknown" THEN {5} ELSE {4} ELSE {}
      BY <1>5, <2>1
    <3> QED
      BY <3>1, <3>2, <3>3
  <2>2. CASE code = "none"
    BY <1>7, <2>2, RanksNone DEF EndOf, code
  <2> QED
    BY <2>1, <2>2
<1> HIDE DEF a, b, c
<1>11. Cat(a, b) \in Seq(EventSet)
  BY <1>8, <1>9, CatType
<1>12. Ranks(Cat(a, b), r) = Ranks(b, r) /\ Rising(Cat(a, b), r)
  <2>1. a \in Seq(EventSet) /\ b \in Seq(EventSet)
    BY <1>8, <1>9
  <2>2. Ranks(Cat(a, b), r) = Ranks(a, r) \cup Ranks(b, r)
    BY <2>1, RanksCat
  <2>3. /\ Rising(a, r) /\ Rising(b, r)
        /\ \A x \in Ranks(a, r), y \in Ranks(b, r) : x < y
    BY <1>8, <1>9
  <2>4. Rising(Cat(a, b), r)
    BY <2>1, <2>3, RisingCat
  <2> QED
    BY <1>8, <2>2, <2>4
<1> DEFINE d == Cat(a, b)
<1>13. d \in Seq(EventSet) /\ Rising(d, r) /\ Ranks(d, r) = IF u = t THEN MarkOf(s) ELSE {}
  BY <1>9, <1>11, <1>12
<1>14. ToldOf(t, s) = Cat(d, c)
  BY <1>1
<1> HIDE DEF d
<1>15. d \in Seq(EventSet) /\ c \in Seq(EventSet)
  BY <1>10, <1>13
<1>16. \A x \in Ranks(d, r), y \in Ranks(c, r) : x < y
  <2>1. \A x \in Ranks(d, r) : x = 3
    BY <1>13 DEF MarkOf
  <2>2. \A y \in Ranks(c, r) : y \in {4, 5}
    BY <1>10 DEF EndOf
  <2> QED
    BY <2>1, <2>2
<1>17. Cat(d, c) \in Seq(EventSet)
  BY <1>10, <1>13, CatType
<1>18. Ranks(Cat(d, c), r) = IF u = t THEN MarkOf(s) \cup EndOf(s) ELSE {}
  <2>1. Ranks(Cat(d, c), r) = Ranks(d, r) \cup Ranks(c, r)
    BY <1>15, RanksCat
  <2> QED
    BY <1>10, <1>13, <2>1
<1>19. Rising(Cat(d, c), r)
  BY <1>10, <1>13, <1>15, <1>16, RisingCat
<1> QED
  BY <1>14, <1>17, <1>18, <1>19 DEF r

(* A code that is unknown has a reason that is remembered.                   *)
LEMMA UnknownHasReason ==
    ASSUME NEW s, Fine(s), s.at = "gone" => Told127(s), CodeOf(s) = "unknown"
    PROVE  s.unknown
<1> SUFFICES ASSUME ~s.unknown PROVE FALSE
  OBVIOUS
<1> DEFINE o == s.out
           n == ReadOf(s)
<1>1. o \in Seq(Heard) /\ Len(o) \in Nat /\ n \in 0..Len(o)
  BY FineFields, Limits DEF ReadOf
<1>2. /\ "exited" \notin Range(TakenOf(s)) /\ Len(TakenOf(s)) < DrainLimit /\ s.at = "gone"
  BY DEF CodeOf, ExitCode
<1>3. PICK k \in DOMAIN o : o[k] = "exited"
  BY <1>2 DEF Told127
<1>4. TakenOf(s) = SubSeq(o, 1, n) /\ n = IF Len(o) < DrainLimit THEN Len(o) ELSE DrainLimit
  BY DEF TakenOf, ReadOf
<1> HIDE DEF o, n
<1>5. Len(SubSeq(o, 1, n)) = n /\ DOMAIN SubSeq(o, 1, n) = 1..n /\ \A j \in 1..n : SubSeq(o, 1, n)[j] = o[j]
  BY <1>1
<1>6. n = Len(o)
  BY <1>1, <1>2, <1>4, <1>5, Limits
<1>7. k \in 1..n
  BY <1>1, <1>3, <1>6
<1>8. k \in DOMAIN TakenOf(s) /\ TakenOf(s)[k] = "exited"
  BY <1>3, <1>4, <1>5, <1>7
<1> QED
  BY <1>2, <1>8 DEF Range

(* A session is drained.                                                     *)
LEMMA DrainTells ==
    ASSUME Base, NEW t \in Tabs, Drain(t), NEW s, s = session[terminals[t]]
    PROVE  /\ Fine(s) /\ s.tab = t /\ IsLive(t) /\ terminals[t] \in Sessions /\ DOMAIN session = Sessions
           /\ s.at = "gone" => Told127(s)
           /\ Rep(t) = s.reported /\ MarkOf(s) = Marks(t, s.truncated)
           /\ \A u \in Tabs : /\ SameTab(u) /\ NoWish(u) /\ Join(u) = "loop" /\ Join(u)' = "loop"
                              /\ u # t => NoNews(u)
           /\ NewsTold(t, MarkOf(s) \cup EndOf(s))
<1>1. /\ backend.at = "loop" /\ t \in LiveIn(terminals) /\ terminals[t] \in Sessions
      /\ Fine(s) /\ s.tab = t /\ Reply(ToldOf(t, s), backend.todo \ {t})
      /\ UNCHANGED <<notBackend, commands, events>>
  BY Draining
<1>2. IsLive(t) /\ Rep(t) = s.reported
  <2>1. IsLive(t)
    BY <1>1 DEF IsLive
  <2>2. s.reported \in BOOLEAN
    BY <1>1, FineFields
  <2> QED
    BY <2>1, <2>2 DEF Rep
<1>3. MarkOf(s) = Marks(t, s.truncated)
  BY <1>2 DEF MarkOf, Marks
<1>4. s.at = "gone" => Told127(s)
  BY <1>1 DEF Base, LinksInv, Links, WillTell
<1>5. backend'.out = ToldOf(t, s) /\ backend'.at \in {"loop", "emit"}
  <2> DEFINE out == ToldOf(t, s)
             L == LiveIn(terminals)
             todo == backend.todo \ {t}
  <2>1. out \in Seq(EventSet) /\ Reply(out, todo)
    BY <1>1, ToldType
  <2>2. L \subseteq Tabs /\ todo \subseteq L
    BY DEF LiveIn, Base, Working
  <2> HIDE DEF out, L, todo
  <2>3. backend'.out = out /\ backend'.at \in {"loop", "emit"}
    BY <2>1, <2>2, Replying
  <2> QED
    BY <2>3 DEF out
<1>6. ASSUME NEW u \in Tabs
      PROVE  NewsTold(u, IF u = t THEN MarkOf(s) \cup EndOf(s) ELSE {}) /\ (u # t => NoNews(u))
  <2> DEFINE out == ToldOf(t, s)
             r == EventRank(u)
             R == IF u = t THEN MarkOf(s) \cup EndOf(s) ELSE {}
  <2>1. out \in Seq(EventSet) /\ Rising(out, EventRank(u)) /\ R = Ranks(out, EventRank(u))
    BY ToldRanks
  <2>2. backend.at # "emit" /\ events' = events /\ backend'.out = out /\ (u # t => R = {})
    BY <1>1, <1>5
  <2> HIDE DEF out, R
  <2>3. NewsTold(u, R) /\ (R = {} => NoNews(u))
    BY <2>1, <2>2, EventsTold
  <2> QED
    BY <2>2, <2>3 DEF R
<1>7. ASSUME NEW u \in Tabs PROVE SameTab(u) /\ NoWish(u) /\ Join(u) = "loop" /\ Join(u)' = "loop"
  <2>1. SameTab(u)
    BY <1>1 DEF SameTab, notBackend, uiVars
  <2>2. NoWish(u)
    BY <1>1, SameCommands
  <2> QED
    BY <1>1, <1>5, <2>1, <2>2, JoinNone
<1> QED
  BY <1>1, <1>2, <1>3, <1>4, <1>6, <1>7, QuietSessions

LEMMA DrainShows ==
    ASSUME Base, Base', Showing, NEW t \in Tabs, Drain(t)
    PROVE  Showing'
<1>1. PICK i : i = terminals[t]
  OBVIOUS
<1>2. PICK s : s = session[i]
  OBVIOUS
<1>3. /\ Fine(s) /\ s.tab = t /\ IsLive(t) /\ i \in Sessions /\ DOMAIN session = Sessions
      /\ s.at = "gone" => Told127(s)
      /\ Rep(t) = s.reported /\ MarkOf(s) = Marks(t, s.truncated)
      /\ \A u \in Tabs : /\ SameTab(u) /\ NoWish(u) /\ Join(u) = "loop" /\ Join(u)' = "loop"
                         /\ u # t => NoNews(u)
      /\ NewsTold(t, MarkOf(s) \cup EndOf(s))
  BY <1>1, <1>2, DrainTells
<1>4. s.truncated \in BOOLEAN /\ (s.reported => s.truncated) /\ Shown(t)
  BY <1>3, FineFields DEF Showing
<1>5. ASSUME NEW n, session' = Put(session, i, n), n.tab = t, NEW u \in Tabs, u # t, terminals'[u] = terminals[u]
      PROVE  Passes(u)
  <2>1. Aside(u)
    BY <1>2, <1>3, <1>5, PuttingAside
  <2> QED
    BY <1>3, <1>5, <2>1 DEF Passes
<1>6. CASE DrainsOn(t)
  <2>1. PICK n : n = RestOf(s)
    OBVIOUS
  <2>2. session' = Put(session, i, n) /\ terminals' = terminals /\ CodeOf(s) = "none"
    BY <1>1, <1>2, <1>6, <2>1 DEF DrainsOn
  <2>3. n.tab = t /\ n.reported = s.truncated
    <3>1. Keeps(s, n)
      BY <1>3, <2>1, <2>2, RestKeeps
    <3>2. s \in SessionSet
      BY <1>3, FineFields
    <3>3. n.reported = s.truncated
      BY <2>1, <3>2 DEF RestOf, SessionSet
    <3> QED
      BY <1>3, <3>1, <3>3 DEF Keeps
  <2>4. \A u \in Tabs : u # t => Passes(u)
    BY <1>5, <2>2, <2>3
  <2>5. IsLive(t)' /\ Rep(t)' = s.truncated
    <3>1. IsLive(t)'
      BY <1>3, <2>2 DEF IsLive
    <3>2. session'[i] = n /\ terminals'[t] = i
      BY <1>1, <1>3, <2>2 DEF Put
    <3> QED
      BY <1>4, <2>3, <3>1, <3>2 DEF Rep
  <2>6. NewsTold(t, Marks(t, s.truncated))
    <3>1. MarkOf(s) \cup EndOf(s) = MarkOf(s)
      BY <2>2 DEF EndOf
    <3> QED
      BY <1>3, <3>1
  <2>7. Shown(t)'
    BY <1>3, <1>4, <2>5, <2>6, ShownDrainedOn
  <2> QED
    BY <2>4, <2>7, ShowingWith
<1>7. CASE DrainsOut(t)
  <2>1. PICK n : n = Forgotten(i, TRUE)
    OBVIOUS
  <2>2. session' = Put(session, i, n) /\ terminals' = Off(terminals, t) /\ CodeOf(s) # "none"
    BY <1>1, <1>2, <1>7, <2>1 DEF DrainsOut
  <2>3. n.tab = t /\ n.truncated = s.truncated /\ n.unknown = s.unknown
    <3>1. Fine(session[i]) /\ session[i].at # "none"
      <4>1. s.at # "none"
        BY <1>3, FineFields DEF Tabs
      <4> QED
        BY <1>2, <1>3, <4>1
    <3>2. s.unknown \in BOOLEAN
      BY <1>3, FineFields
    <3> QED
      BY <1>2, <1>3, <1>4, <2>1, <3>2 DEF Forgotten, NoSession
  <2>4. /\ \A u \in Tabs : u # t => terminals'[u] = terminals[u]
        /\ ~IsLive(t)'
    BY <2>2 DEF Base, TypeInv, Terms, Off, IsLive, LiveIn
  <2>5. \A u \in Tabs : u # t => Passes(u)
    BY <1>5, <2>2, <2>3, <2>4
  <2>6. PICK x \in {4, 5} : EndOf(s) = {x} /\ (x = 5 => CodeOf(s) = "unknown")
    BY <2>2 DEF EndOf
  <2>7. x = 5 => s.unknown
    BY <1>3, <2>6, UnknownHasReason
  <2>8. NewsTold(t, Marks(t, s.truncated) \cup {x})
    BY <1>3, <2>6
  <2>9. ASSUME NEW p \in Tale(t)' PROVE p.truncated = s.truncated /\ (x = 5 => p.unknown)
    <3>1. PICK j \in Latest(t)' : p = Mark(session'[j])
      BY DEF Tale
    <3>2. session'[i] = n /\ \A k \in Sessions : k # i => session'[k] = session[k]
      BY <1>3, <2>2 DEF Put
    <3>3. j \in Sessions /\ session'[j].tab = t /\ i <= j
      BY <1>3, <2>3, <3>1, <3>2 DEF Latest
    <3>4. j # i => j <= i
      <4>1. j # i => session[j].tab = t
        BY <3>2, <3>3
      <4>2. Newest(session, terminals) /\ t \in LiveIn(terminals)
        BY <1>3 DEF Base, LinksInv, Links, IsLive
      <4> QED
        BY <1>1, <3>3, <4>1, <4>2 DEF Newest
    <3>5. j = i
      BY <1>3, <3>3, <3>4 DEF Sessions
    <3> QED
      BY <2>3, <2>7, <3>1, <3>2, <3>5 DEF Mark
  <2>10. Shown(t)'
    BY <1>3, <1>4, <2>4, <2>7, <2>8, <2>9, ShownDrainedOut
  <2> QED
    BY <2>5, <2>10, ShowingWith
<1>8. DrainsOn(t) \/ DrainsOut(t)
  BY Draining
<1> QED
  BY <1>6, <1>7, <1>8

LEMMA BackendShows == ASSUME Base, Base', Showing, Backend, Calm, Calm' PROVE Showing'
<1>1. ~StopBackend
  BY DEF StopBackend, Calm
<1> QED
  BY <1>1, DrainShows, NoCommandShows, SpawnShows, RestartShows, WriteShows, StopShows, JoinedShows,
     EmitShows DEF Backend

-----------------------------------------------------------------------------
(* The reducer reads an event.                                               *)
LEMMA ReadingShows ==
    ASSUME Base, Base', NEW kind, NextIs(kind), NEW e, e = Head(events), NEW u \in Tabs
    PROVE  /\ e \in EventSet /\ e.kind = kind /\ NoWish(u) /\ Aside(u) /\ Apart(u)
           /\ (u > opened') = (u > opened)
           /\ EventRank(u)[e] = 0 => NoNews(u)
           /\ EventRank(u)[e] # 0 => Reads(u, EventRank(u)[e])
<1>1. /\ e \in EventSet /\ e.kind = kind /\ events # <<>> /\ events' = Tail(events)
      /\ UNCHANGED <<notUi, commands, opened>>
  BY NextEvent
<1>2. backend' = backend /\ terminals' = terminals /\ session' = session
  BY <1>1 DEF notUi
<1>3. NoWish(u)
  BY <1>1, SameCommands
<1>4. Aside(u)
  <2>1. Join(u)' = Join(u)
    BY <1>2 DEF Join
  <2> QED
    BY <1>2, <2>1, UntouchedAside
<1>5. Apart(u)
  <2>1. terminals' \in Terms
    BY DEF Base, TypeInv
  <2> QED
    BY <1>4, <2>1, AsideIsApart
<1> DEFINE h == EventRank(u)[e]
<1>6. (h = 0 => NoNews(u)) /\ (h # 0 => NewsRead(u, h))
  BY <1>1, <1>2, EventRead
<1> QED
  BY <1>1, <1>3, <1>4, <1>5, <1>6 DEF Reads

LEMMA EventShows ==
    ASSUME Base, Base', Showing, NEW kind, NextIs(kind), NEW t, t = About,
           \A u \in Tabs : u # t \/ tab[u].phase = "none" => tab'[u] = tab[u],
           t \in Tabs /\ tab[t].phase # "none" => Shown(t)'
    PROVE  Showing'
<1>1. PICK e : e = Head(events)
  OBVIOUS
<1>2. e.tab = t
  BY <1>1 DEF About
<1>3. ASSUME NEW u \in Tabs
      PROVE  /\ e \in EventSet /\ NoWish(u) /\ Aside(u) /\ Apart(u) /\ (u > opened') = (u > opened)
             /\ EventRank(u)[e] = 0 => NoNews(u)
             /\ EventRank(u)[e] # 0 => Reads(u, EventRank(u)[e])
  BY <1>1, ReadingShows
<1>4. ASSUME NEW u \in Tabs, u # t PROVE Passes(u)
  <2>1. EventRank(u)[e] = 0
    BY <1>2, <1>3, <1>4, RankTypes
  <2> QED
    BY <1>3, <1>4, <2>1 DEF Passes, SameTab
<1>5. ASSUME t \in Tabs, tab[t].phase = "none" PROVE Shown(t)'
  <2>1. Shown(t) /\ tab'[t] = tab[t]
    BY <1>5 DEF Showing
  <2>2. CASE EventRank(t)[e] = 0
    <3>1. SameTab(t) /\ NoWish(t) /\ NoNews(t) /\ Apart(t)
      BY <1>3, <1>5, <2>1, <2>2 DEF SameTab
    <3> QED
      BY <2>1, <3>1, Unconcerned
  <2>3. CASE EventRank(t)[e] # 0
    <3>1. PICK h \in Nat : h = EventRank(t)[e]
      BY <1>3, <1>5, RankTypes
    <3>2. Reads(t, h)
      BY <1>3, <1>5, <2>3, <3>1
    <3> QED
      BY <1>5, <2>1, <3>2, ShownReadClosed
  <2> QED
    BY <2>2, <2>3
<1>6. t \in Tabs => Shown(t)'
  BY <1>5
<1> QED
  BY <1>4, <1>6, ShowingWith

(* An event reaches a tab.                                                   *)
ExitRank(code) == IF code = "zero" THEN 6 ELSE IF code = "unknown" THEN 5 ELSE 4

LEMMA Reaching ==
    ASSUME Base, Base', Showing, NEW kind, NextIs(kind), NEW t \in Tabs, t = About
    PROVE  /\ Shown(t) /\ tab \in [Tabs -> TabSet] /\ tab[t] \in TabSet /\ Head(events).code \in Codes
           /\ kind = "started" => Reads(t, 1)
           /\ kind = "startFailed" => Reads(t, 2)
           /\ kind = "truncated" => Reads(t, 3)
           /\ kind = "exited" => Reads(t, ExitRank(Head(events).code))
           /\ kind = "note" => NoWish(t) /\ NoNews(t) /\ Apart(t) /\ (t > opened') = (t > opened)
<1>1. PICK e : e = Head(events)
  OBVIOUS
<1>2. /\ e \in EventSet /\ e.kind = kind /\ NoWish(t) /\ Apart(t) /\ (t > opened') = (t > opened)
      /\ EventRank(t)[e] = 0 => NoNews(t)
      /\ EventRank(t)[e] # 0 => Reads(t, EventRank(t)[e])
  BY <1>1, ReadingShows
<1>3. e.tab = t
  BY <1>1 DEF About
<1>4. /\ kind = "started" => EventRank(t)[e] = 1
      /\ kind = "startFailed" => EventRank(t)[e] = 2
      /\ kind = "truncated" => EventRank(t)[e] = 3
      /\ kind = "note" => EventRank(t)[e] = 0
  BY <1>2, <1>3, NewsRanks
<1>5. kind = "exited" => EventRank(t)[e] = ExitRank(e.code) /\ ExitRank(e.code) # 0
  BY <1>2, <1>3, NewsRanks DEF ExitRank
<1>6. Shown(t) /\ tab \in [Tabs -> TabSet] /\ tab[t] \in TabSet
  BY DEF Showing, Base, TypeInv
<1>7. e.code \in Codes
  BY <1>2 DEF EventSet
<1> QED
  BY <1>1, <1>2, <1>4, <1>5, <1>6, <1>7

LEMMA StartedShows == ASSUME Base, Base', Showing, ReduceStarted PROVE Showing'
<1>1. NextIs("started")
  BY DEF ReduceStarted
<1>2. PICK t : t = About
  OBVIOUS
<1>3. tab' = IF Known(t) THEN [tab EXCEPT ![t] = [NoTab EXCEPT !.phase = "running"]] ELSE tab
  BY <1>2 DEF ReduceStarted
<1>4. ASSUME t \in Tabs, tab[t].phase # "none" PROVE Shown(t)'
  <2>1. Shown(t) /\ tab \in [Tabs -> TabSet] /\ Reads(t, 1)
    BY <1>1, <1>2, <1>4, Reaching
  <2>2. tab'[t] = [NoTab EXCEPT !.phase = "running"]
    BY <1>3, <1>4, <2>1 DEF Known, Tabs
  <2>3. tab'[t].phase = "running" /\ tab'[t].truncated = FALSE
    BY <2>2 DEF NoTab
  <2> QED
    BY <1>4, <2>1, <2>3, ShownReadStarted
<1>5. \A u \in Tabs : u # t \/ tab[u].phase = "none" => tab'[u] = tab[u]
  BY <1>3 DEF Known, Base, TypeInv
<1> QED
  BY <1>1, <1>2, <1>4, <1>5, EventShows

LEMMA FailedShows == ASSUME Base, Base', Showing, ReduceStartFailed PROVE Showing'
<1>1. NextIs("startFailed")
  BY DEF ReduceStartFailed
<1>2. PICK t : t = About
  OBVIOUS
<1>3. tab' = IF Known(t) THEN [tab EXCEPT ![t].phase = "ended"] ELSE tab
  BY <1>2 DEF ReduceStartFailed
<1>4. ASSUME t \in Tabs, tab[t].phase # "none" PROVE Shown(t)'
  <2>1. Shown(t) /\ tab \in [Tabs -> TabSet] /\ tab[t] \in TabSet /\ Reads(t, 2)
    BY <1>1, <1>2, <1>4, Reaching
  <2>2. tab'[t] = [tab[t] EXCEPT !.phase = "ended"]
    BY <1>3, <1>4, <2>1 DEF Known, Tabs
  <2>3. tab'[t].phase = "ended" /\ tab'[t].code = tab[t].code
    BY <2>1, <2>2 DEF TabSet
  <2> QED
    BY <1>4, <2>1, <2>3, ShownReadFailed
<1>5. \A u \in Tabs : u # t \/ tab[u].phase = "none" => tab'[u] = tab[u]
  BY <1>3 DEF Known, Base, TypeInv
<1> QED
  BY <1>1, <1>2, <1>4, <1>5, EventShows

LEMMA MarkShows == ASSUME Base, Base', Showing, ReduceTruncated PROVE Showing'
<1>1. NextIs("truncated")
  BY DEF ReduceTruncated
<1>2. PICK t : t = About
  OBVIOUS
<1>3. tab' = IF Known(t) THEN [tab EXCEPT ![t].truncated = TRUE] ELSE tab
  BY <1>2 DEF ReduceTruncated
<1>4. ASSUME t \in Tabs, tab[t].phase # "none" PROVE Shown(t)'
  <2>1. Shown(t) /\ tab \in [Tabs -> TabSet] /\ tab[t] \in TabSet /\ Reads(t, 3)
    BY <1>1, <1>2, <1>4, Reaching
  <2>2. tab'[t] = [tab[t] EXCEPT !.truncated = TRUE]
    BY <1>3, <1>4, <2>1 DEF Known, Tabs
  <2>3. tab'[t].phase = tab[t].phase /\ tab'[t].stopped = tab[t].stopped /\ tab'[t].truncated = TRUE
    BY <2>1, <2>2 DEF TabSet
  <2> QED
    BY <1>4, <2>1, <2>3, ShownReadMark
<1>5. \A u \in Tabs : u # t \/ tab[u].phase = "none" => tab'[u] = tab[u]
  BY <1>3 DEF Known, Base, TypeInv
<1> QED
  BY <1>1, <1>2, <1>4, <1>5, EventShows

LEMMA ExitShows == ASSUME Base, Base', Showing, ReduceExited, Calm' PROVE Showing'
<1>1. NextIs("exited")
  BY DEF ReduceExited
<1>2. PICK t : t = About
  OBVIOUS
<1>3. PICK code : code = Head(events).code
  OBVIOUS
<1>4. tab' = IF Known(t) THEN [tab EXCEPT ![t].phase = "ended", ![t].code = code] ELSE tab
  BY <1>2, <1>3 DEF ReduceExited
<1>5. ~(Known(t) /\ tab[t].phase = "starting")
  <2>1. ~Hole("late")
    BY DEF Hole, Calm
  <2> QED
    BY <1>2, <2>1 DEF ReduceExited
<1>6. ASSUME t \in Tabs, tab[t].phase # "none" PROVE Shown(t)'
  <2>1. /\ Shown(t) /\ tab \in [Tabs -> TabSet] /\ tab[t] \in TabSet /\ code \in Codes
        /\ Reads(t, ExitRank(code))
    BY <1>1, <1>2, <1>3, <1>6, Reaching
  <2>2. Known(t) /\ tab[t].phase \notin {"none", "starting"}
    BY <1>5, <1>6 DEF Known, Tabs
  <2>3. tab'[t] = [tab[t] EXCEPT !.phase = "ended", !.code = code]
    BY <1>4, <1>6, <2>1, <2>2
  <2>4. /\ tab'[t].phase = "ended" /\ tab'[t].truncated = tab[t].truncated
        /\ tab'[t].stopped = tab[t].stopped /\ tab'[t].code = code
    BY <2>1, <2>3 DEF TabSet
  <2>5. PICK h \in {4, 5, 6} : h = ExitRank(code)
    BY DEF ExitRank
  <2>6. (code = "zero" <=> h = 6) /\ (code = "unknown" => h = 5) /\ Reads(t, h)
    BY <2>1, <2>5 DEF ExitRank
  <2>7. tab[t].truncated \in BOOLEAN
    BY <2>1 DEF TabSet
  <2>8. ASSUME NEW p \in Tale(t) PROVE p.truncated \in BOOLEAN
    <3>1. PICK j \in Sessions : p = Mark(session[j])
      BY DEF Tale, Latest
    <3>2. session[j].truncated \in BOOLEAN
      BY QuietSessions, FineFields
    <3> QED
      BY <3>1, <3>2 DEF Mark
  <2> QED
    BY <2>1, <2>2, <2>4, <2>6, <2>7, <2>8, ShownReadExit
<1>7. \A u \in Tabs : u # t \/ tab[u].phase = "none" => tab'[u] = tab[u]
  BY <1>4 DEF Known, Base, TypeInv
<1> QED
  BY <1>1, <1>2, <1>6, <1>7, EventShows

LEMMA NoteShows == ASSUME Base, Base', Showing, ReduceNote PROVE Showing'
<1>1. NextIs("note") /\ tab' = tab
  BY DEF ReduceNote
<1>2. PICK t : t = About
  OBVIOUS
<1>3. ASSUME t \in Tabs PROVE Shown(t)'
  <2>1. Shown(t) /\ NoWish(t) /\ NoNews(t) /\ Apart(t) /\ SameTab(t)
    BY <1>1, <1>2, <1>3, Reaching DEF SameTab
  <2> QED
    BY <2>1, Unconcerned
<1> QED
  BY <1>1, <1>2, <1>3, EventShows

LEMMA ReduceShows == ASSUME Base, Base', Showing, Reduce, Calm' PROVE Showing'
  BY StartedShows, FailedShows, MarkShows, ExitShows, NoteShows DEF Reduce

-----------------------------------------------------------------------------
(* The user asks for something.                                              *)
LEMMA UserTells ==
    ASSUME Base, Base', UserMay, NEW u \in Tabs
    PROVE  NoNews(u) /\ Aside(u) /\ Apart(u)
<1>1. UNCHANGED <<backend, terminals, session, events>>
  BY DEF UserMay, notUi
<1>2. NoNews(u)
  <2>1. Pipe' = Pipe
    BY <1>1 DEF Pipe
  <2> QED
    BY <2>1, SamePipe
<1>3. Aside(u)
  <2>1. Join(u)' = Join(u)
    BY <1>1 DEF Join
  <2> QED
    BY <1>1, <2>1, UntouchedAside
<1>4. Apart(u)
  <2>1. terminals' \in Terms
    BY DEF Base, TypeInv
  <2> QED
    BY <1>3, <2>1, AsideIsApart
<1> QED
  BY <1>2, <1>3, <1>4

LEMMA AskingShows ==
    ASSUME Base, Calm', NEW kind \in Orders, NEW t \in Tabs, NEW x \in {0} \cup Inputs, Dispatch(kind, t, x),
           NEW u \in Tabs
    PROVE  /\ commands' = Append(commands, Command(kind, t, x)) /\ Command(kind, t, x) \in CommandSet
           /\ u # t \/ kind = "write" => NoWish(u)
           /\ u = t => /\ kind = "stop" => WishMade(u, 1)
                       /\ kind = "spawn" => WishMade(u, 2)
                       /\ kind = "restart" => WishMade(u, 3)
<1> DEFINE c == Command(kind, t, x)
<1>1. commands' = Append(commands, c)
  <2>1. ~Hole("refused")
    BY DEF Hole, Calm
  <2> QED
    BY <2>1 DEF Dispatch
<1>2. c \in CommandSet /\ c.kind = kind /\ c.tab = t
  BY DEF CommandSet, Command
<1>3. commands \in Seq(CommandSet)
  BY DEF Base, TypeInv
<1> HIDE DEF c
<1> DEFINE h == CommandRank(u)[c]
<1>4. (h = 0 => NoWish(u)) /\ (h # 0 => WishMade(u, h))
  BY <1>1, <1>2, <1>3, CommandPut
<1>5. /\ u # t \/ kind = "write" => h = 0
      /\ u = t => /\ kind = "stop" => h = 1
                  /\ kind = "spawn" => h = 2
                  /\ kind = "restart" => h = 3
  BY <1>2, RankTypes, OrderRanks
<1> QED
  BY <1>1, <1>2, <1>4, <1>5 DEF c

LEMMA OpenShows == ASSUME Base, Base', Showing, OpenTab, Calm' PROVE Showing'
<1>1. /\ UserMay /\ opened < MaxOpens /\ opened' = opened + 1
      /\ tab' = [tab EXCEPT ![opened + 1].phase = "starting"] /\ Dispatch("spawn", opened + 1, 0)
  BY DEF OpenTab
<1>2. opened \in Nat /\ opened + 1 \in Tabs /\ tab \in [Tabs -> TabSet] /\ TabsInv
  BY <1>1, Limits DEF Base, TypeInv, Tabs
<1>3. PICK t \in Tabs : t = opened + 1
  BY <1>2
<1>4. tab' = [tab EXCEPT ![t].phase = "starting"] /\ Dispatch("spawn", t, 0) /\ opened' = t
  BY <1>1, <1>3
<1>5. \A u \in Tabs : u # t => tab'[u] = tab[u] /\ (u > opened') = (u > opened)
  BY <1>2, <1>3, <1>4 DEF Tabs
<1>6. /\ \A u \in Tabs : u # t => NoWish(u)
      /\ WishMade(t, 2)
  BY <1>4, AskingShows DEF Orders
<1>7. \A u \in Tabs : u # t => Passes(u)
  BY <1>1, <1>5, <1>6, UserTells DEF Passes, SameTab
<1>8. Shown(t)'
  <2>1. tab[t] \in TabSet
    BY <1>2
  <2>2. t > opened /\ tab[t].phase = "none"
    <3>1. t > opened /\ ~(t <= opened)
      BY <1>2, <1>3
    <3> QED
      BY <1>2, <3>1 DEF TabsInv
  <2>3. tab'[t] = [tab[t] EXCEPT !.phase = "starting"]
    BY <1>2, <1>4
  <2>4. tab'[t].phase = "starting" /\ tab'[t].code = tab[t].code
    BY <2>1, <2>3 DEF TabSet
  <2>5. Shown(t) /\ Asked(t, 2)
    BY <1>1, <1>6, UserTells DEF Showing, Asked
  <2> QED
    BY <2>2, <2>4, <2>5, ShownOpened
<1> QED
  BY <1>7, <1>8, ShowingWith

LEMMA CloseShows == ASSUME Base, Base', Showing, NEW t \in Tabs, CloseTab(t), Calm' PROVE Showing'
<1>1. /\ UserMay /\ tab[t].phase # "none" /\ tab' = [tab EXCEPT ![t] = NoTab] /\ opened' = opened
      /\ \/ Dispatch("stop", t, 0)
         \/ tab[t].phase = "ended" /\ commands' = commands
  BY DEF CloseTab
<1>2. tab \in [Tabs -> TabSet] /\ t <= opened /\ opened \in Nat
  BY <1>1, Limits DEF Base, TypeInv, TabsInv
<1>3. \A u \in Tabs : u # t => SameTab(u)
  BY <1>1, <1>2 DEF SameTab
<1>4. /\ \A u \in Tabs : u # t => NoWish(u)
      /\ WishMade(t, 1) \/ (tab[t].phase = "ended" /\ NoWish(t))
  <2>1. CASE Dispatch("stop", t, 0)
    BY <2>1, AskingShows DEF Orders
  <2>2. CASE tab[t].phase = "ended" /\ commands' = commands
    BY <2>2, SameCommands
  <2> QED
    BY <1>1, <2>1, <2>2
<1>5. \A u \in Tabs : u # t => Passes(u)
  BY <1>1, <1>3, <1>4, UserTells DEF Passes
<1>6. Shown(t)'
  <2>1. tab'[t].phase = "none"
    BY <1>1, <1>2 DEF NoTab
  <2>2. Shown(t) /\ NoNews(t) /\ Apart(t)
    BY <1>1, UserTells DEF Showing
  <2>3. ~(t > opened')
    BY <1>1, <1>2 DEF Tabs
  <2>4. Asked(t, 1) \/ (tab[t].phase = "ended" /\ NoWish(t))
    BY <1>4, <2>2 DEF Asked
  <2> QED
    BY <1>1, <2>1, <2>2, <2>3, <2>4, ShownClosed
<1> QED
  BY <1>5, <1>6, ShowingWith

LEMMA RestartTabShows == ASSUME Base, Base', Showing, NEW t \in Tabs, Restart(t), Calm' PROVE Showing'
<1>1. /\ UserMay /\ tab[t].phase = "ended" /\ tab' = [tab EXCEPT ![t] = [NoTab EXCEPT !.phase = "starting"]]
      /\ opened' = opened /\ Dispatch("restart", t, 0)
  BY DEF Restart
<1>2. tab \in [Tabs -> TabSet]
  BY DEF Base, TypeInv
<1>3. \A u \in Tabs : u # t => SameTab(u)
  BY <1>1, <1>2 DEF SameTab
<1>4. (\A u \in Tabs : u # t => NoWish(u)) /\ WishMade(t, 3)
  BY <1>1, AskingShows DEF Orders
<1>5. \A u \in Tabs : u # t => Passes(u)
  BY <1>1, <1>3, <1>4, UserTells DEF Passes
<1>6. Shown(t)'
  <2>1. tab'[t].phase = "starting" /\ tab'[t].code = "none"
    BY <1>1, <1>2 DEF NoTab
  <2>2. Shown(t) /\ Asked(t, 3)
    BY <1>1, <1>4, UserTells DEF Showing, Asked
  <2> QED
    BY <1>1, <2>1, <2>2, ShownRestarted
<1> QED
  BY <1>5, <1>6, ShowingWith

LEMMA StopTabShows == ASSUME Base, Base', Showing, NEW t \in Tabs, Stop(t), Calm' PROVE Showing'
<1>1. /\ UserMay /\ tab[t].phase = "running"
      /\ tab' = [tab EXCEPT ![t].phase = "stopping", ![t].stopped = TRUE]
      /\ opened' = opened /\ Dispatch("stop", t, 0)
  BY DEF Stop
<1>2. tab \in [Tabs -> TabSet] /\ tab[t] \in TabSet
  BY DEF Base, TypeInv
<1>3. \A u \in Tabs : u # t => SameTab(u)
  BY <1>1, <1>2 DEF SameTab
<1>4. (\A u \in Tabs : u # t => NoWish(u)) /\ WishMade(t, 1)
  BY <1>1, AskingShows DEF Orders
<1>5. \A u \in Tabs : u # t => Passes(u)
  BY <1>1, <1>3, <1>4, UserTells DEF Passes
<1>6. Shown(t)'
  <2>1. tab'[t] = [tab[t] EXCEPT !.phase = "stopping", !.stopped = TRUE]
    BY <1>1, <1>2
  <2>2. tab'[t].phase = "stopping" /\ tab'[t].stopped /\ tab'[t].truncated = tab[t].truncated
    BY <1>2, <2>1 DEF TabSet
  <2>3. Shown(t) /\ Asked(t, 1)
    BY <1>1, <1>4, UserTells DEF Showing, Asked
  <2> QED
    BY <1>1, <2>2, <2>3, ShownStopped
<1> QED
  BY <1>5, <1>6, ShowingWith

LEMMA InputShows == ASSUME Base, Base', Showing, NEW t \in Tabs, Input(t), Calm' PROVE Showing'
<1>1. /\ UserMay /\ tab' = tab /\ opened' = opened /\ Extra /\ inputs' = inputs + 1
      /\ Dispatch("write", t, inputs + 1)
  BY DEF Input, uiVars
<1>2. inputs + 1 \in Inputs
  BY <1>1, ExtraTypes DEF Base
<1>3. \A u \in Tabs : NoWish(u)
  BY <1>1, <1>2, AskingShows DEF Orders
<1>4. \A u \in Tabs : Passes(u)
  BY <1>1, <1>3, UserTells DEF Passes, SameTab
<1> QED
  BY <1>4, ShowingAll

LEMMA UserShows == ASSUME Base, Base', Showing, User, Calm' PROVE Showing'
<1>1. ~Quit
  BY DEF Quit, Calm
<1> QED
  BY <1>1, OpenShows, CloseShows, RestartTabShows, StopTabShows, InputShows DEF User

LEMMA StillShows == ASSUME Base, Base', Showing, UNCHANGED vars PROVE Showing'
<1>1. UNCHANGED <<tab, opened, commands, events, backend, terminals, session>>
  BY DEF vars, uiVars
<1>2. ASSUME NEW u \in Tabs PROVE Passes(u)
  <2>1. NoWish(u) /\ NoNews(u)
    <3>1. Pipe' = Pipe
      BY <1>1 DEF Pipe
    <3> QED
      BY <1>1, <3>1, SameCommands, SamePipe
  <2>2. Aside(u)
    <3>1. Join(u)' = Join(u)
      BY <1>1 DEF Join
    <3> QED
      BY <1>1, <3>1, UntouchedAside
  <2> QED
    BY <1>1, <2>1, <2>2 DEF Passes, SameTab
<1> QED
  BY <1>2, ShowingAll

LEMMA StepShows == ASSUME Base, Base', Showing, Calm, Calm', [Next]_vars PROVE Showing'
  BY SessionsShow, BackendShows, ReduceShows, UserShows, StillShows DEF Next, SessionStep, Exited

-----------------------------------------------------------------------------
(* The backend has room for the tabs that the reducer lets the user open.    *)
LEMMA TabsAreFinite ==
    /\ IsFiniteSet(Tabs) /\ MaxTerminalTabs \in Nat
    /\ \A A : A \subseteq Tabs => IsFiniteSet(A) /\ Cardinality(A) \in Nat
<1>1. IsFiniteSet(Tabs)
  BY Limits, FS_Interval DEF Tabs
<1>2. ASSUME NEW A, A \subseteq Tabs PROVE IsFiniteSet(A) /\ Cardinality(A) \in Nat
  BY <1>1, <1>2, FS_Subset, FS_CardinalityType
<1> QED
  BY <1>1, <1>2, Limits

LEMMA FewerFit ==
    ASSUME NEW A, NEW B, A \subseteq B, B \subseteq Tabs
    PROVE  Cardinality(A) <= Cardinality(B)
<1>1. IsFiniteSet(B)
  BY TabsAreFinite
<1> QED
  BY <1>1, FS_Subset

LEMMA RoomyIf ==
    ASSUME NEW v, NEW w, NEW C, NEW D, Roomy(v, C), NEW j, j \in DOMAIN C, C[j].kind = "spawn",
           NEW i, \A u \in Holders(w, D, i) : u \in Holders(v, C, j)
    PROVE  Cardinality(Holders(w, D, i)) <= MaxTerminalTabs
<1> DEFINE A == Holders(w, D, i)
           B == Holders(v, C, j)
<1>1. A \subseteq B /\ B \subseteq Tabs /\ A \subseteq Tabs
  BY DEF Holders
<1>2. Cardinality(B) <= MaxTerminalTabs
  BY DEF Roomy
<1> HIDE DEF A, B
<1>3. Cardinality(A) <= Cardinality(B)
  BY <1>1, FewerFit
<1>4. Cardinality(A) \in Nat /\ Cardinality(B) \in Nat /\ MaxTerminalTabs \in Nat
  BY <1>1, TabsAreFinite
<1>5. Cardinality(A) <= MaxTerminalTabs
  BY <1>2, <1>3, <1>4
<1> QED
  BY <1>5 DEF A

(* No tab comes to be shown, and a command may have been taken.              *)
NoneNew(v, w) == \A u \in Tabs : w[u].phase # "none" => v[u].phase # "none"

LEMMA RoomySame == ASSUME NEW v, NEW w, NEW C, Roomy(v, C), NoneNew(v, w) PROVE Roomy(w, C)
<1>1. ASSUME NEW i \in DOMAIN C, C[i].kind = "spawn" PROVE Cardinality(Holders(w, C, i)) <= MaxTerminalTabs
  <2>1. \A u \in Holders(w, C, i) : u \in Holders(v, C, i)
    BY DEF Holders, NoneNew
  <2> QED
    BY <1>1, <2>1, RoomyIf
<1> QED
  BY <1>1 DEF Roomy

LEMMA RoomyTaken ==
    ASSUME NEW v, NEW C \in Seq(CommandSet), C # <<>>, Roomy(v, C)
    PROVE  Roomy(v, Tail(C))
<1> DEFINE D == Tail(C)
           n == Len(C)
<1>1. /\ n \in Nat \ {0} /\ DOMAIN D = 1..(n - 1) /\ DOMAIN C = 1..n
      /\ \A i \in 1..(n - 1) : D[i] = C[i + 1]
  BY TakingFirst
<1> HIDE DEF D, n
<1>2. ASSUME NEW i \in DOMAIN D, D[i].kind = "spawn" PROVE Cardinality(Holders(v, D, i)) <= MaxTerminalTabs
  <2>1. i \in Nat /\ i + 1 \in DOMAIN C /\ C[i + 1].kind = "spawn"
    BY <1>1, <1>2
  <2>2. ASSUME NEW k, NEW u PROVE Behind(D, k, u, i) = Behind(C, k, u, i + 1)
    <3>1. ASSUME NEW j \in DOMAIN D, i < j PROVE j + 1 \in DOMAIN C /\ i + 1 < j + 1 /\ D[j] = C[j + 1]
      BY <1>1, <2>1, <3>1
    <3>2. ASSUME NEW j \in DOMAIN C, i + 1 < j PROVE j - 1 \in DOMAIN D /\ i < j - 1 /\ D[j - 1] = C[j]
      <4>1. j \in Nat /\ j - 1 \in 1..(n - 1) /\ (j - 1) + 1 = j /\ i < j - 1
        BY <1>1, <2>1, <3>2
      <4> QED
        BY <1>1, <4>1
    <3> QED
      BY <3>1, <3>2 DEF Behind
  <2>3. \A u \in Holders(v, D, i) : u \in Holders(v, C, i + 1)
    BY <2>2 DEF Holders
  <2> QED
    BY <2>1, <2>3, RoomyIf
<1> QED
  BY <1>2 DEF Roomy, D

(* What is behind a command, when another one is put at the end.             *)
LEMMA BehindMore ==
    ASSUME NEW C \in Seq(CommandSet), NEW c \in CommandSet, NEW D, D = Append(C, c), NEW i \in DOMAIN C,
           NEW k \in Orders, NEW u \in Tabs
    PROVE  Behind(D, k, u, i) <=> Behind(C, k, u, i) \/ (c.kind = k /\ c.tab = u)
<1> DEFINE n == Len(C)
<1>1. /\ n \in Nat /\ DOMAIN D = 1..(n + 1) /\ DOMAIN C = 1..n /\ D[n + 1] = c
      /\ \A j \in 1..n : D[j] = C[j]
  BY PuttingLast
<1> HIDE DEF n
<1>2. /\ n + 1 \in DOMAIN D /\ i < n + 1 /\ \A j \in DOMAIN C : j \in DOMAIN D
      /\ \A j \in DOMAIN D : j \in DOMAIN C \/ j = n + 1
  BY <1>1
<1> QED
  BY <1>1, <1>2 DEF Behind

LEMMA PutDomain ==
    ASSUME NEW C \in Seq(CommandSet), NEW c \in CommandSet, NEW D, D = Append(C, c)
    PROVE  /\ DOMAIN D = DOMAIN C \cup {Len(C) + 1} /\ D[Len(C) + 1] = c
           /\ \A i \in DOMAIN C : D[i] = C[i]
           /\ \A k, u : ~Behind(D, k, u, Len(C) + 1)
<1> DEFINE n == Len(C)
<1>1. /\ n \in Nat /\ DOMAIN D = 1..(n + 1) /\ DOMAIN C = 1..n /\ D[n + 1] = c
      /\ \A i \in 1..n : D[i] = C[i]
  BY PuttingLast
<1> HIDE DEF n
<1>2. /\ DOMAIN D = DOMAIN C \cup {n + 1}
      /\ \A i \in DOMAIN D : ~(n + 1 < i)
  BY <1>1
<1>3. \A k, u : ~Behind(D, k, u, n + 1)
  BY <1>2 DEF Behind
<1> QED
  BY <1>1, <1>2, <1>3 DEF n

LEMMA RoomyPut ==
    ASSUME NEW v, NEW w, NEW C \in Seq(CommandSet), Roomy(v, C), NoneNew(v, w),
           NEW c \in CommandSet, c.kind # "spawn", c.kind = "stop" => v[c.tab].phase # "none"
    PROVE  Roomy(w, Append(C, c))
<1>1. PICK D : D = Append(C, c)
  OBVIOUS
<1>2. \A i \in DOMAIN C : \A k \in Orders, u \in Tabs :
       Behind(D, k, u, i) <=> Behind(C, k, u, i) \/ (c.kind = k /\ c.tab = u)
  BY <1>1, BehindMore
<1>3. ASSUME NEW i \in DOMAIN D, D[i].kind = "spawn" PROVE Cardinality(Holders(w, D, i)) <= MaxTerminalTabs
  <2>1. i \in DOMAIN C /\ C[i].kind = "spawn"
    BY <1>1, <1>3, PutDomain
  <2>2. ASSUME NEW u \in Tabs
        PROVE  /\ Behind(D, "stop", u, i) => Behind(C, "stop", u, i) \/ v[u].phase # "none"
               /\ Behind(C, "spawn", u, i) => Behind(D, "spawn", u, i)
    <3>1. ASSUME NEW k \in Orders PROVE Behind(D, k, u, i) <=> Behind(C, k, u, i) \/ (c.kind = k /\ c.tab = u)
      BY <2>1, <1>2
    <3> QED
      BY <3>1 DEF Orders
  <2>3. \A u \in Holders(w, D, i) : u \in Holders(v, C, i)
    BY <2>2 DEF Holders, NoneNew
  <2> QED
    BY <2>1, <2>3, RoomyIf
<1> QED
  BY <1>1, <1>3 DEF Roomy

LEMMA RoomyOpened ==
    ASSUME NEW v, NEW w, NEW C \in Seq(CommandSet), Roomy(v, C), NEW t \in Tabs,
           \A u \in Tabs : u # t => w[u] = v[u],
           Cardinality({u \in Tabs : v[u].phase # "none"}) < MaxTerminalTabs,
           NEW c \in CommandSet, c.kind = "spawn", c.tab = t
    PROVE  Roomy(w, Append(C, c))
<1>1. PICK D : D = Append(C, c)
  OBVIOUS
<1>2. \A i \in DOMAIN C : \A k \in Orders, u \in Tabs :
       Behind(D, k, u, i) <=> Behind(C, k, u, i) \/ (c.kind = k /\ c.tab = u)
  BY <1>1, BehindMore
<1>3. ASSUME NEW i \in DOMAIN C, C[i].kind = "spawn" PROVE Cardinality(Holders(w, D, i)) <= MaxTerminalTabs
  <2>1. ASSUME NEW u \in Tabs
        PROVE  /\ u = t => Behind(D, "spawn", u, i)
               /\ u # t => /\ Behind(D, "stop", u, i) => Behind(C, "stop", u, i)
                           /\ Behind(C, "spawn", u, i) => Behind(D, "spawn", u, i)
    <3>1. ASSUME NEW k \in Orders PROVE Behind(D, k, u, i) <=> Behind(C, k, u, i) \/ (c.kind = k /\ c.tab = u)
      BY <1>2
    <3> QED
      BY <3>1 DEF Orders
  <2>2. \A u \in Holders(w, D, i) : u \in Holders(v, C, i)
    BY <2>1 DEF Holders
  <2> QED
    BY <1>3, <2>2, RoomyIf
<1>4. Cardinality(Holders(w, D, Len(C) + 1)) <= MaxTerminalTabs
  <2> DEFINE A == Holders(w, D, Len(C) + 1)
             B == {u \in Tabs : v[u].phase # "none"}
  <2>1. A \subseteq B \cup {t} /\ A \subseteq Tabs /\ B \subseteq Tabs /\ B \cup {t} \subseteq Tabs
    <3>1. \A k, u : ~Behind(D, k, u, Len(C) + 1)
      BY <1>1, PutDomain
    <3> QED
      BY <3>1 DEF Holders
  <2>2. Cardinality(B) < MaxTerminalTabs
    OBVIOUS
  <2> HIDE DEF A, B
  <2>3. Cardinality(A) <= Cardinality(B \cup {t})
    BY <2>1, FewerFit
  <2>4. /\ IsFiniteSet(B) /\ Cardinality(A) \in Nat /\ Cardinality(B) \in Nat /\ MaxTerminalTabs \in Nat
        /\ Cardinality(B \cup {t}) \in Nat
    BY <2>1, TabsAreFinite
  <2>5. Cardinality(B \cup {t}) <= Cardinality(B) + 1
    <3>1. Cardinality(B \cup {t}) = IF t \in B THEN Cardinality(B) ELSE Cardinality(B) + 1
      BY <2>4, FS_AddElement
    <3> QED
      BY <2>4, <3>1
  <2>6. Cardinality(A) <= MaxTerminalTabs
    BY <2>2, <2>3, <2>4, <2>5
  <2> QED
    BY <2>6 DEF A
<1>5. ASSUME NEW i \in DOMAIN D, D[i].kind = "spawn" PROVE Cardinality(Holders(w, D, i)) <= MaxTerminalTabs
  <2>1. i = Len(C) + 1 \/ (i \in DOMAIN C /\ D[i] = C[i])
    BY <1>1, PutDomain
  <2> QED
    BY <1>3, <1>4, <1>5, <2>1
<1> QED
  BY <1>1, <1>5 DEF Roomy

(* What has gone wrong stays so, until the user quits.                       *)
LEMMA CalmBack == ASSUME [Next]_vars, Calm' PROVE Calm
<1>1. ASSUME NEW what, Hole(what) PROVE FALSE
  BY <1>1 DEF Hole, Calm
<1>2. ~quitting'
  BY DEF Calm
<1>3. CASE \E i \in Sessions : SessionStep(i)
  BY <1>3 DEF SessionStep, Supervisor, SeeExit, Obey, GracefulExit, JoinReader, Fails, Read, Shell,
              ShellExits, Hinder, HindranceEnds, notSession, Calm
<1>4. CASE Backend
  <2>1. CASE \E t \in Tabs : Drain(t)
    BY <2>1 DEF Drain, notBackend, Calm
  <2>2. CASE \E kind : Take(kind)
    BY <2>2 DEF Take, notBackend, Calm
  <2>3. CASE UNCHANGED notBackend
    BY <2>3 DEF notBackend, Calm
  <2>4. CASE Emit
    BY <1>1, <2>4 DEF Emit, Calm
  <2>5. NoCommand \/ Joined \/ StopBackend => UNCHANGED notBackend
    BY DEF NoCommand, Joined, StopBackend
  <2> QED
    BY <1>4, <2>1, <2>2, <2>3, <2>4, <2>5 DEF Backend, RunSpawn, RunRestart, RunWrite, RunStop
<1>5. CASE Reduce
  <2>1. quitting' = quitting /\ (holes' = holes \/ Hole("late"))
    BY <1>5 DEF Reduce, ReduceStarted, ReduceStartFailed, ReduceTruncated, ReduceExited, ReduceNote,
                NextIs, notUi
  <2> QED
    BY <1>1, <2>1 DEF Calm
<1>6. CASE User
  <2>1. UserMay
    BY <1>2, <1>6 DEF User, OpenTab, CloseTab, Restart, Stop, Input, Quit
  <2> QED
    BY <2>1 DEF UserMay, Calm
<1>7. CASE Exited \/ UNCHANGED vars
  BY <1>7 DEF Exited, vars, Calm
<1> QED
  BY <1>3, <1>4, <1>5, <1>6, <1>7 DEF Next, SessionStep

LEMMA ReadingRoomy == ASSUME Base, Roomy(tab, commands), Reduce PROVE Roomy(tab, commands)'
<1>1. PICK kind : NextIs(kind)
  BY DEF Reduce, ReduceStarted, ReduceStartFailed, ReduceTruncated, ReduceExited, ReduceNote
<1>2. commands' = commands /\ (Known(About) => About \in Tabs) /\ tab \in [Tabs -> TabSet]
  BY <1>1, NextEvent DEF Base, TypeInv
<1>3. PICK t : t = About
  OBVIOUS
<1>4. tab' = tab \/ (Known(t) /\ t \in Tabs /\ \E n : tab' = [tab EXCEPT ![t] = n])
  <2>1. tab' = tab \/ (Known(t) /\ \E n : tab' = [tab EXCEPT ![t] = n])
    BY <1>3 DEF Reduce, ReduceStarted, ReduceStartFailed, ReduceTruncated, ReduceExited, ReduceNote
  <2> QED
    BY <1>2, <1>3, <2>1
<1>5. NoneNew(tab, tab')
  <2>1. CASE tab' = tab
    BY <2>1 DEF NoneNew
  <2>2. CASE Known(t) /\ t \in Tabs /\ \E n : tab' = [tab EXCEPT ![t] = n]
    <3>1. tab[t].phase # "none" /\ \A u \in Tabs : u # t => tab'[u] = tab[u]
      BY <1>2, <2>2 DEF Known
    <3> QED
      BY <3>1 DEF NoneNew
  <2> QED
    BY <1>4, <2>1, <2>2
<1> QED
  BY <1>2, <1>5, RoomySame

LEMMA UserRoomy == ASSUME Base, Roomy(tab, commands), User, Calm' PROVE Roomy(tab, commands)'
<1>1. /\ ~Quit /\ tab \in [Tabs -> TabSet] /\ commands \in Seq(CommandSet) /\ opened \in Nat
      /\ 0 \in {0} \cup Inputs
  BY DEF Quit, Calm, Base, TypeInv
<1>2. CASE OpenTab
  <2>1. /\ opened < MaxOpens /\ tab' = [tab EXCEPT ![opened + 1].phase = "starting"]
        /\ Dispatch("spawn", opened + 1, 0)
        /\ Cardinality({t \in Tabs : tab[t].phase # "none"}) < MaxTerminalTabs
    BY <1>2 DEF OpenTab
  <2>2. opened + 1 \in Tabs
    BY <1>1, <2>1, Limits DEF Tabs
  <2>3. PICK t \in Tabs : t = opened + 1
    BY <2>2
  <2>4. PICK c : c = Command("spawn", t, 0)
    OBVIOUS
  <2>5. commands' = Append(commands, c) /\ c \in CommandSet
    BY <1>1, <2>1, <2>3, <2>4, AskingShows DEF Orders
  <2>6. c.kind = "spawn" /\ c.tab = t
    BY <2>4 DEF Command
  <2>7. \A u \in Tabs : u # t => tab'[u] = tab[u]
    BY <1>1, <2>1, <2>3
  <2>8. Roomy(tab', Append(commands, c))
    BY <1>1, <2>1, <2>5, <2>6, <2>7, RoomyOpened
  <2> QED
    BY <2>5, <2>8
<1>3. ASSUME NEW t \in Tabs, CloseTab(t) \/ Restart(t) \/ Stop(t) \/ Input(t)
      PROVE  Roomy(tab, commands)'
  <2>1. tab[t].phase # "none" /\ (tab' = tab \/ \E n : tab' = [tab EXCEPT ![t] = n])
    BY <1>3 DEF CloseTab, Restart, Stop, Input, uiVars
  <2>2. NoneNew(tab, tab')
    BY <1>1, <2>1 DEF NoneNew
  <2>3. \/ commands' = commands
        \/ \E kind \in Orders \ {"spawn"}, x \in {0} \cup Inputs : Dispatch(kind, t, x)
    <3>1. inputs' = inputs + 1 /\ Extra => inputs + 1 \in Inputs
      BY ExtraTypes DEF Base
    <3> QED
      BY <1>1, <1>3, <3>1 DEF CloseTab, Restart, Stop, Input, Orders
  <2>4. CASE commands' = commands
    BY <2>2, <2>4, RoomySame
  <2>5. CASE \E kind \in Orders \ {"spawn"}, x \in {0} \cup Inputs : Dispatch(kind, t, x)
    <3>1. PICK kind \in Orders \ {"spawn"}, x \in {0} \cup Inputs : Dispatch(kind, t, x)
      BY <2>5
    <3>2. PICK c : c = Command(kind, t, x)
      OBVIOUS
    <3>3. commands' = Append(commands, c) /\ c \in CommandSet
      BY <3>1, <3>2, AskingShows
    <3>4. c.kind = kind /\ c.tab = t
      BY <3>2 DEF Command
    <3>5. Roomy(tab', Append(commands, c))
      BY <1>1, <2>1, <2>2, <3>3, <3>4, RoomyPut
    <3> QED
      BY <3>3, <3>5
  <2> QED
    BY <2>3, <2>4, <2>5
<1> QED
  BY <1>1, <1>2, <1>3 DEF User

LEMMA StepRoomy == ASSUME Base, Roomy(tab, commands), [Next]_vars, Calm' PROVE Roomy(tab, commands)'
<1>1. ASSUME UNCHANGED <<tab, commands>> PROVE Roomy(tab, commands)'
  BY <1>1
<1>2. CASE \E i \in Sessions : SessionStep(i)
  BY <1>1, <1>2, SessionFrame DEF Base, notSession, uiVars
<1>3. ASSUME NEW kind, Take(kind) PROVE Roomy(tab, commands)'
  <2>1. commands \in Seq(CommandSet) /\ commands # <<>> /\ commands' = Tail(commands) /\ tab' = tab
    BY <1>3, TakingKeeps DEF notBackend, uiVars
  <2> QED
    BY <2>1, RoomyTaken
<1>4. CASE Backend
  <2>1. (\E t \in Tabs : Drain(t)) \/ NoCommand \/ Joined \/ StopBackend
          => UNCHANGED <<notBackend, commands>>
    BY Zenon DEF Drain, NoCommand, Joined, StopBackend
  <2>2. Emit => UNCHANGED <<uiVars, commands>>
    BY DEF Emit
  <2>3. UNCHANGED <<uiVars, commands>> \/ UNCHANGED <<notBackend, commands>> => UNCHANGED <<tab, commands>>
    BY DEF notBackend, uiVars
  <2>4. RunSpawn \/ RunRestart \/ RunWrite \/ RunStop
          => Take("spawn") \/ Take("restart") \/ Take("write") \/ Take("stop")
    BY DEF RunSpawn, RunRestart, RunWrite, RunStop
  <2>5. UNCHANGED <<tab, commands>> => Roomy(tab, commands)'
    BY <1>1
  <2> QED
    BY <1>3, <1>4, <2>1, <2>2, <2>3, <2>4, <2>5, Zenon DEF Backend
<1>5. CASE Exited \/ UNCHANGED vars
  BY <1>1, <1>5 DEF Exited, vars, uiVars
<1> QED
  BY <1>2, <1>4, <1>5, ReadingRoomy, UserRoomy DEF Next, SessionStep

LEMMA CalmInit == ASSUME Init PROVE CalmInv
<1>1. /\ commands = <<>> /\ events = <<>> /\ backend = Loop({}) /\ opened = 0
      /\ terminals = [t \in Tabs |-> 0] /\ tab = [t \in Tabs |-> NoTab]
  BY DEF Init
<1>2. backend.out = <<>> /\ backend.at = "loop"
  BY <1>1 DEF Loop
<1>3. Pipe = <<>>
  BY <1>1, <1>2 DEF Pipe, Cat
<1>4. ASSUME NEW t \in Tabs PROVE Shown(t)
  <2>1. tab[t].phase = "none" /\ tab[t].code = "none" /\ t > opened
    BY <1>1 DEF NoTab, Tabs
  <2>2. Wishes(t) = {} /\ Tidings(t) = {}
    BY <1>1, <1>3, RanksNone DEF Wishes, Tidings
  <2>3. Free(t)
    BY <1>1, <1>2 DEF Free, IsLive, LiveIn, Join
  <2> QED
    BY <2>1, <2>2, <2>3 DEF Shown, NewFits
<1>5. Roomy(tab, commands)
  <2>1. DOMAIN commands = {}
    BY <1>1
  <2> QED
    BY <2>1 DEF Roomy
<1> QED
  BY <1>4, <1>5 DEF CalmInv

LEMMA CalmStep == ASSUME Base, Base', CalmInv, [Next]_vars PROVE CalmInv'
<1> SUFFICES ASSUME Calm' PROVE (\A t \in Tabs : Shown(t)') /\ Roomy(tab, commands)'
  BY DEF CalmInv
<1>1. Calm
  BY CalmBack
<1>2. Showing /\ Roomy(tab, commands)
  BY <1>1 DEF CalmInv, Showing
<1>3. Showing'
  BY <1>1, <1>2, StepShows
<1> QED
  BY <1>2, <1>3, StepRoomy DEF Showing

-----------------------------------------------------------------------------
(* What a rank says of the commands and of the events on their way.          *)
LEMMA WishIsOrder ==
    ASSUME Base, NEW t \in Tabs
    PROVE  /\ 1 \in Wishes(t) => Ordered({"stop"}, t)
           /\ 2 \in Wishes(t) \/ 3 \in Wishes(t) => Ordered({"spawn", "restart"}, t)
<1>1. ASSUME NEW h \in Wishes(t)
      PROVE  \E i \in DOMAIN commands : commands[i] \in CommandSet /\ CommandRank(t)[commands[i]] = h
  <2>1. commands \in Seq(CommandSet)
    BY DEF Base, TypeInv
  <2>2. \A i \in DOMAIN commands : commands[i] \in CommandSet
    BY <2>1
  <2> QED
    BY <1>1, <2>2 DEF Wishes, Ranks
<1>2. ASSUME NEW c \in CommandSet
      PROVE  /\ CommandRank(t)[c] = 1 => c.kind = "stop" /\ c.tab = t
             /\ CommandRank(t)[c] \in {2, 3} => c.kind \in {"spawn", "restart"} /\ c.tab = t
  BY DEF CommandRank
<1>3. 1 \in Wishes(t) => Ordered({"stop"}, t)
  BY <1>1, <1>2 DEF Ordered
<1>4. ASSUME 2 \in Wishes(t) \/ 3 \in Wishes(t) PROVE Ordered({"spawn", "restart"}, t)
  <2>1. PICK h \in {2, 3} : h \in Wishes(t)
    BY <1>4
  <2>2. PICK i \in DOMAIN commands : commands[i] \in CommandSet /\ CommandRank(t)[commands[i]] = h
    BY <1>1, <2>1
  <2>3. commands[i].kind \in {"spawn", "restart"} /\ commands[i].tab = t
    BY <1>2, <2>2
  <2>4. Ordered({"spawn", "restart"}, t)
    BY <2>3 DEF Ordered
  <2> QED
    BY <2>4
<1> QED
  BY <1>3, <1>4

LEMMA TidingIsTold ==
    ASSUME Base, NEW t \in Tabs, NEW h \in Tidings(t)
    PROVE  /\ h \in {1, 2} => Told({"started", "startFailed"}, t)
           /\ h \in {4, 5, 6} => Told({"exited"}, t)
<1>1. Pipe \in Seq(EventSet) /\ events \in Seq(EventSet) /\ backend.out \in Seq(EventSet)
  BY PipeTypes
<1>2. PICK i \in DOMAIN Pipe : EventRank(t)[Pipe[i]] = h
  BY DEF Tidings, Ranks
<1>3. Pipe[i] \in EventSet /\ Pipe[i] \in Range(events) \cup Range(backend.out)
  <2>1. Spliced(Pipe, events, backend.out, Len(events), Len(backend.out))
    BY <1>1, CatSplices DEF Pipe
  <2>2. i \in DOMAIN events \/ i - Len(events) \in DOMAIN backend.out
    BY <1>2, <2>1, Places
  <2>3. /\ i \in DOMAIN events => Pipe[i] = events[i]
        /\ i - Len(events) \in DOMAIN backend.out => Pipe[i] = backend.out[i - Len(events)]
    <3> DEFINE k == i - Len(events)
    <3>1. Len(events) \in Nat /\ i \in Nat /\ Len(events) + k = i
      BY <1>1, <1>2, <2>1, Places
    <3> HIDE DEF k
    <3>2. /\ i \in DOMAIN events => Pipe[i] = events[i]
          /\ k \in DOMAIN backend.out => Pipe[Len(events) + k] = backend.out[k]
      BY <2>1, Places
    <3> QED
      BY <3>1, <3>2 DEF k
  <2>4. Pipe[i] \in EventSet
    BY <1>1
  <2> QED
    BY <2>2, <2>3, <2>4 DEF Range
<1>4. PICK e : e = Pipe[i]
  OBVIOUS
<1>5. /\ h \in {1, 2} => e.kind \in {"started", "startFailed"} /\ e.tab = t
      /\ h \in {4, 5, 6} => e.kind \in {"exited"} /\ e.tab = t
  <2>1. e \in EventSet /\ EventRank(t)[e] = h
    BY <1>2, <1>3, <1>4
  <2> QED
    BY <2>1 DEF EventRank
<1>6. e \in Range(events) \cup Range(backend.out)
  BY <1>3, <1>4
<1> QED
  BY <1>5, <1>6 DEF Told

LEMMA JoinIsDoing == ASSUME NEW t, NEW then \in {"start", "exited"}, Join(t) = then PROVE Doing("join", then, t)
  BY DEF Join, Doing

LEMMA ShownTabIsReal == ASSUME Base, NEW t \in Tabs, Shown(t) PROVE TabIsReal(t)
<1>1. IsLive(t) <=> t \in Live
  BY LiveIs DEF IsLive
<1>2. \A h \in Fresh(t) : h \in Tidings(t)
  BY DEF Fresh
<1>3. CASE StartFits(t) \/ Doomed(t)
  <2>1. /\ tab[t].phase = "starting"
        /\ \/ 2 \in Wishes(t) \/ 3 \in Wishes(t) \/ Join(t) = "start"
           \/ 1 \in Tidings(t) \/ 2 \in Tidings(t)
    BY <1>2, <1>3 DEF StartFits, Doomed
  <2>2. \/ Ordered({"spawn", "restart"}, t) \/ Doing("join", "start", t)
        \/ Told({"started", "startFailed"}, t)
    BY <2>1, WishIsOrder, TidingIsTold, JoinIsDoing
  <2> QED
    BY <2>1, <2>2 DEF TabIsReal
<1>4. CASE RunFits(t)
  <2>1. tab[t].phase = "running" /\ (IsLive(t) \/ 4 \in Tidings(t) \/ 5 \in Tidings(t))
    BY <1>2, <1>4 DEF RunFits, Runs
  <2>2. t \in Live \/ Told({"exited"}, t)
    BY <1>1, <2>1, TidingIsTold
  <2> QED
    BY <2>1, <2>2 DEF TabIsReal
<1>5. CASE StopFits(t)
  <2>1. /\ tab[t].phase = "stopping"
        /\ 1 \in Wishes(t) \/ 6 \in Tidings(t) \/ Join(t) = "exited"
    BY <1>2, <1>5 DEF StopFits
  <2>2. Ordered({"stop"}, t) \/ Doing("join", "exited", t) \/ Told({"exited"}, t)
    BY <2>1, WishIsOrder, TidingIsTold, JoinIsDoing
  <2> QED
    BY <2>1, <2>2 DEF TabIsReal
<1>6. CASE EndFits(t) \/ NewFits(t) \/ ClosedFits(t)
  <2>1. tab[t].phase \in {"ended", "none"} /\ (IsLive(t) => 1 \in Wishes(t))
    BY <1>6 DEF EndFits, NewFits, ClosedFits, Free
  <2>2. t \in Live => Ordered({"stop"}, t)
    BY <1>1, <2>1, WishIsOrder
  <2> QED
    BY <2>1, <2>2 DEF TabIsReal
<1> QED
  BY <1>3, <1>4, <1>5, <1>6 DEF Shown

LEMMA ShownExitIsTold == ASSUME NEW t \in Tabs, Shown(t) PROVE ExitIsTold(t)
<1> SUFFICES ASSUME NEW i \in Latest(t), tab[t].phase = "ended", tab[t].code # "none"
             PROVE  /\ tab[t].code = "zero" => tab[t].stopped
                    /\ tab[t].code = "unknown" => session[i].unknown
                    /\ tab[t].code # "zero" => tab[t].truncated = session[i].truncated
  BY DEF ExitIsTold
<1>1. EndFits(t)
  BY DEF Shown, NewFits, StartFits, RunFits, StopFits, ClosedFits, Doomed
<1>2. Honest(t) /\ ~IsLive(t) /\ Join(t) = "loop"
  BY <1>1 DEF EndFits, Free
<1>3. PICK p : p = Mark(session[i])
  OBVIOUS
<1>4. p \in Tale(t)
  BY <1>2, <1>3 DEF Tale
<1>5. p.unknown = session[i].unknown /\ p.truncated = session[i].truncated
  BY <1>3 DEF Mark
<1> QED
  BY <1>2, <1>4, <1>5 DEF Honest

(* The tabs with a shell can have one when the first command is taken, and   *)
(* so can the tab that it opens.                                             *)
LEMMA StopIsBehind ==
    ASSUME Base, commands # <<>>, Head(commands).kind = "spawn", NEW t \in Tabs,
           NEW i \in DOMAIN commands, CommandRank(t)[commands[i]] = 1
    PROVE  Behind(commands, "stop", t, 1)
<1>1. /\ commands \in Seq(CommandSet) /\ commands[1].kind = "spawn" /\ commands[i] \in CommandSet
      /\ i \in Nat \ {0}
  BY TakingFirst DEF Base, TypeInv
<1>2. commands[i].kind = "stop" /\ commands[i].tab = t
  <2>1. PICK c \in CommandSet : c = commands[i]
    BY <1>1
  <2> QED
    BY <2>1 DEF CommandRank
<1>3. i # 1 /\ 1 < i
  BY <1>1, <1>2
<1> QED
  BY <1>2, <1>3 DEF Behind

LEMMA RoomForSpawn ==
    ASSUME Base, Showing, Roomy(tab, commands), commands # <<>>, Head(commands).kind = "spawn"
    PROVE  Cardinality(Live) < MaxTerminalTabs
<1> DEFINE B == Holders(tab, commands, 1)
<1>1. /\ commands \in Seq(CommandSet) /\ 1 \in DOMAIN commands /\ commands[1] \in CommandSet
      /\ commands[1].kind = "spawn" /\ \A j \in DOMAIN commands : j \in Nat \ {0}
  BY TakingFirst DEF Base, TypeInv
<1>2. PICK t \in Tabs : t = commands[1].tab
  BY <1>1 DEF CommandSet
<1>3. /\ \A j \in Sessions : session[j].tab # t
      /\ \A j \in DOMAIN commands : 1 < j /\ commands[j].kind = "spawn" =>
           commands[j].tab # t /\ \A k \in Sessions : session[k].tab # commands[j].tab
  BY <1>1, <1>2 DEF Base, AsksInv, Asks
<1>4. ASSUME NEW u \in Live PROVE u \in Tabs /\ \E j \in Sessions : session[j].tab = u
  BY LiveIs, LiveTerm DEF Base, TypeInv, LinksInv, Links, Owners
<1>5. t \notin Live
  BY <1>3, <1>4
<1>6. ASSUME NEW u \in Live \cup {t} PROVE u \in Tabs /\ ~Behind(commands, "spawn", u, 1)
  BY <1>3, <1>4 DEF Behind
<1>7. ASSUME NEW u \in Live \cup {t}, tab[u].phase = "none" PROVE Behind(commands, "stop", u, 1)
  <2>1. u \in Tabs /\ Shown(u)
    BY <1>6 DEF Showing
  <2>2. NewFits(u) \/ ClosedFits(u)
    BY <1>7, <2>1 DEF Shown, StartFits, RunFits, StopFits, EndFits, Doomed
  <2>3. u = t => CommandRank(u)[commands[1]] = 2
    BY <1>1, <1>2, OrderRanks
  <2>4. u = t => 2 \in Wishes(u)
    BY <1>1, <2>3 DEF Wishes, Ranks
  <2>5. u # t => IsLive(u)
    BY LiveIs DEF IsLive
  <2>6. ClosedFits(u)
    BY <2>2, <2>4, <2>5 DEF NewFits, Free
  <2>7. \E i \in DOMAIN commands : CommandRank(u)[commands[i]] = 1
    <3>1. CASE u = t
      BY <1>1, <2>3, <2>6, <3>1 DEF ClosedFits, Cover, Covered
    <3>2. CASE u # t
      <4>1. 1 \in Wishes(u)
        BY <2>5, <2>6, <3>2 DEF ClosedFits
      <4> QED
        BY <4>1 DEF Wishes, Ranks
    <3> QED
      BY <3>1, <3>2
  <2> QED
    BY <2>1, <2>7, StopIsBehind
<1>8. Live \cup {t} \subseteq B /\ B \subseteq Tabs /\ Live \subseteq Tabs /\ Live \cup {t} \subseteq Tabs
  BY <1>6, <1>7 DEF Holders
<1>9. Cardinality(B) <= MaxTerminalTabs
  BY <1>1 DEF Roomy
<1> HIDE DEF B
<1>10. Cardinality(Live \cup {t}) <= Cardinality(B)
  BY <1>8, FewerFit
<1>11. /\ IsFiniteSet(Live) /\ Cardinality(Live) \in Nat /\ Cardinality(Live \cup {t}) \in Nat
       /\ Cardinality(B) \in Nat /\ MaxTerminalTabs \in Nat
  BY <1>8, TabsAreFinite
<1>12. Cardinality(Live \cup {t}) = Cardinality(Live) + 1
  BY <1>5, <1>11, FS_AddElement
<1> QED
  BY <1>9, <1>10, <1>11, <1>12

LEMMA CalmShows == ASSUME Base, CalmInv PROVE ShownIsReal
<1> SUFFICES ASSUME holes = {} PROVE
      /\ \A t \in Tabs : ExitIsTold(t) /\ (quitting \/ TabIsReal(t))
      /\ commands # <<>> /\ Head(commands).kind = "spawn" => quitting \/ Cardinality(Live) < MaxTerminalTabs
  BY DEF ShownIsReal
<1>1. CASE quitting
  <2>1. \A t \in Tabs : tab[t].phase = "none"
    BY <1>1 DEF Base, TabsInv
  <2>2. \A t \in Tabs : ExitIsTold(t)
    BY <2>1 DEF ExitIsTold
  <2> QED
    BY <1>1, <2>2
<1>2. CASE ~quitting
  <2>1. Showing /\ Roomy(tab, commands)
    BY <1>2 DEF CalmInv, Calm, Showing
  <2> QED
    BY <2>1, ShownExitIsTold, ShownTabIsReal, RoomForSpawn DEF Showing
<1> QED
  BY <1>1, <1>2

(* As long as no command was refused, no event was missed and no late exit   *)
(* reached another start: a tab that shows a start, a shell or a stop has it *)
(* or will be told otherwise, a live shell that no tab shows has its stop in *)
(* the channel, an exit shows the code and the lost output of the shell that *)
(* ended, and start_terminal never finds all the sessions taken when the     *)
(* reducer let the user open a tab.                                          *)
THEOREM TabsShowWhatIs == Spec => []ShownIsReal
<1>1. Init => Base /\ CalmInv
  BY BaseInit, CalmInit
<1>2. Base /\ CalmInv /\ [Next]_vars => (Base /\ CalmInv)'
  BY BaseStep, CalmStep
<1>3. Base /\ CalmInv => ShownIsReal
  BY CalmShows
<1> QED
  BY <1>1, <1>2, <1>3, PTL DEF Spec
=============================================================================
