------------------------- MODULE RemoteControlProofs -------------------------
(***************************************************************************)
(* For any environments, devices, operations and losses: what the page of  *)
(* Remote Control shows as busy is really waited for, a pairing code and   *)
(* the devices shown belong to the environment shown, and once nothing is  *)
(* under way the status shown is that of the app-server.                   *)
(*                                                                         *)
(* Why the page does not wait for nothing (IInv): a request leaves a queue *)
(* only to leave its answer in the next one, and an answer that is awaited *)
(* is either heard, which ends the wait, or put down as unheard.  For      *)
(* devices this needs that a list is only waited for while the status is   *)
(* connected (then the answer of the right generation is never refused),   *)
(* and that each operation waits for answers of its own kind.              *)
(*                                                                         *)
(* Why the status is true in the end (TInv): the last notice tells what    *)
(* the app-server has; with no notice left, so does whatever of it is on   *)
(* the way to the reducer, unless a later change or a new connection comes *)
(* behind it; and the page is right, or something is coming, or it asks or *)
(* will ask when the operation has ended.                                  *)
(***************************************************************************)
EXTENDS RemoteControl, SequenceTheorems, TLAPS

(* A request that waits in a queue, or has been lost, and one whose answer   *)
(* waits in one.                                                             *)
Queued(request) == request \in unheard \/ \E i \in DOMAIN commands : commands[i] = request
Replied(request) == \E i \in DOMAIN events : events[i].kind = "answer" /\ events[i].of = request

(* What r waits for: the operation, the list and the next page.              *)
List(r) == Request("devices", r.devices.gen, r.env, 0)
Page(r) == Request("more", r.devices.gen, r.env, r.devices.asked)
AwaitsDevices(r, request) ==
    \/ request = List(r) /\ r.devices.list = "loading"
    \/ request = Page(r) /\ r.devices.more
Awaits(r, request) == (request = r.busy /\ request # Idle) \/ AwaitsDevices(r, request)

Operations == {None, "status", "enable", "disable", "pair", "check", "revoke"}

(* Busy is one of the operations, and devices are waited for only while an   *)
(* environment is connected, a list of them while none is shown.             *)
Sound(r) ==
    /\ r \in Remotes /\ (r.status = "connected") = (r.env # None)
    /\ r.busy.kind \in Operations /\ (r.busy.kind = None => r.busy = Idle)
    /\ r.devices.list = "loading" => r.env # None /\ r.devices.listed = {}
    /\ r.devices.more => r.env # None

(* ShownIsCurrent, of r.                                                     *)
Current(r) ==
    /\ r.pairing # Idle => /\ r.env # None /\ r.pairing.env = r.env
                           /\ r.pairing.generation = r.pairingGen
    /\ \A d \in r.devices.listed : d[1] = r.env

(* The inductive invariant.                                                  *)
IInv ==
    /\ TypeOK /\ Sound(remote) /\ Current(remote)
    /\ \A request : Awaits(remote, request) => UnderWay(request)

-----------------------------------------------------------------------------
(* What is put into a queue and what is taken from it.                       *)

LEMMA AppendAdds ==
    ASSUME NEW S, NEW s \in Seq(S), NEW e \in S
    PROVE  /\ Append(s, e) \in Seq(S)
           /\ \A i \in DOMAIN s : i \in DOMAIN Append(s, e) /\ Append(s, e)[i] = s[i]
           /\ \A i \in DOMAIN Append(s, e) :
                  (i \in DOMAIN s /\ Append(s, e)[i] = s[i]) \/ Append(s, e)[i] = e
           /\ \E i \in DOMAIN Append(s, e) : Append(s, e)[i] = e
<1>1. Append(s, e) \in Seq(S) /\ Len(Append(s, e)) = Len(s) + 1 /\ Len(s) \in Nat
      /\ Append(s, e)[Len(s) + 1] = e /\ \A i \in 1..Len(s) : Append(s, e)[i] = s[i]
  OBVIOUS
<1>2. DOMAIN s = 1..Len(s) /\ DOMAIN Append(s, e) = 1..(Len(s) + 1)
  BY <1>1
<1>3. QED
  BY <1>1, <1>2

LEMMA TailDrops ==
    ASSUME NEW S, NEW s \in Seq(S), s # <<>>
    PROVE  /\ Tail(s) \in Seq(S) /\ Head(s) \in S /\ 1 \in DOMAIN s /\ Head(s) = s[1]
           /\ \A i \in DOMAIN s :
                  s[i] = Head(s) \/ (i - 1 \in DOMAIN Tail(s) /\ Tail(s)[i - 1] = s[i])
           /\ \A i \in DOMAIN Tail(s) : i + 1 \in DOMAIN s /\ Tail(s)[i] = s[i + 1]
<1>1. /\ Tail(s) \in Seq(S) /\ Len(Tail(s)) = Len(s) - 1 /\ Len(s) \in Nat /\ Len(s) > 0
      /\ Head(s) = s[1] /\ \A i \in 1..(Len(s) - 1) : Tail(s)[i] = s[i + 1]
  OBVIOUS
<1>2. DOMAIN s = 1..Len(s) /\ DOMAIN Tail(s) = 1..(Len(s) - 1)
  BY <1>1
<1>3. QED
  BY <1>1, <1>2

-----------------------------------------------------------------------------
(* Requests are requests, and events are events.                             *)

LEMMA IdleIsRequest == Idle \in Requests /\ Idle.kind = None
  BY DEF Idle, Plain, Request, Requests, None

LEMMA PlainIsRequest ==
    ASSUME NEW kind \in {"profiles", "signIn"}
    PROVE  Plain(kind) \in Requests /\ Plain(kind).kind = kind
  BY DEF Plain, Request, Requests, None

LEMMA RequestIsRequest ==
    ASSUME NEW kind \in {"status", "enable", "disable", "pair", "check", "devices", "more",
                         "revoke", "pairing"},
           NEW generation \in Nat, NEW env \in Environments \cup {None},
           NEW device \in Numbers \cup {0}
    PROVE  /\ Request(kind, generation, env, device) \in Requests
           /\ Request(kind, generation, env, device).kind = kind
           /\ Request(kind, generation, env, device).env = env
           /\ Request(kind, generation, env, device).generation = generation
           /\ Request(kind, generation, env, device) # Idle
  BY DEF Request, Requests, None, Idle, Plain

(* An operation is never a request for devices.                              *)
LEMMA DevicesAreNoOperation ==
    ASSUME NEW r, Sound(r), NEW request, AwaitsDevices(r, request)
    PROVE  request.kind \in {"devices", "more"} /\ request # r.busy /\ request.kind \notin Operations
  BY DEF Sound, AwaitsDevices, List, Page, Request, Operations, None

-----------------------------------------------------------------------------
(* What the parts of the operations do to a state of the page.               *)

(* invalidate_remote_pairing changes only the code and its generation.       *)
LEMMA NoPairingIsSound ==
    ASSUME NEW r, Sound(r), Current(r)
    PROVE  /\ Sound(NoPairing(r)) /\ Current(NoPairing(r))
           /\ NoPairing(r).env = r.env /\ NoPairing(r).status = r.status
           /\ NoPairing(r).busy = r.busy /\ NoPairing(r).devices = r.devices
           /\ NoPairing(r).pairingGen = r.pairingGen + 1
           /\ \A q : AwaitsDevices(NoPairing(r), q) => AwaitsDevices(r, q)
<1> DEFINE new == [r EXCEPT !.pairingGen = @ + 1]
<1>1. r \in Remotes /\ new \in Remotes
  BY DEF Sound, Remotes
<1>2. NoPairing(r) \in Remotes
  BY <1>1, IdleIsRequest DEF NoPairing, Remotes
<1>3. /\ NoPairing(r).env = r.env /\ NoPairing(r).status = r.status
      /\ NoPairing(r).busy = r.busy /\ NoPairing(r).devices = r.devices
      /\ NoPairing(r).pairingGen = r.pairingGen + 1 /\ NoPairing(r).pairing = Idle
  BY <1>1 DEF NoPairing, Remotes
<1>4. QED
  BY <1>2, <1>3 DEF Sound, Current, AwaitsDevices, List, Page

(* invalidate_remote_devices leaves no devices to wait for.                  *)
LEMMA NoListIsList ==
    ASSUME NEW generation \in Nat
    PROVE  NoList(generation) \in Lists
  BY DEF NoList, Lists

LEMMA NoDevicesIsSound ==
    ASSUME NEW r, Sound(r), r.pairing # Idle => Current(r)
    PROVE  /\ Sound(NoDevices(r)) /\ Current(NoDevices(r))
           /\ NoDevices(r).env = r.env /\ NoDevices(r).status = r.status
           /\ NoDevices(r).busy = r.busy /\ NoDevices(r).pairing = r.pairing
           /\ NoDevices(r).devices = NoList(r.devices.gen + 1)
           /\ \A q : ~AwaitsDevices(NoDevices(r), q)
<1>1. NoList(r.devices.gen + 1) \in Lists
  BY NoListIsList DEF Sound, Remotes, Lists
<1>2. /\ NoDevices(r) \in Remotes
      /\ NoDevices(r).env = r.env /\ NoDevices(r).status = r.status
      /\ NoDevices(r).busy = r.busy /\ NoDevices(r).pairing = r.pairing
      /\ NoDevices(r).pairingGen = r.pairingGen
      /\ NoDevices(r).devices = NoList(r.devices.gen + 1)
  BY <1>1 DEF NoDevices, Sound, Remotes
<1>3. QED
  BY <1>1, <1>2 DEF NoList, Sound, Current, AwaitsDevices

(* A request of the status, or a change, begins a new generation.            *)
LEMMA GenerationsGoUp ==
    ASSUME NEW r \in Remotes
    PROVE  /\ [r EXCEPT !.statusGen = @ + 1] \in Remotes
           /\ [r EXCEPT !.mutationGen = @ + 1] \in Remotes
           /\ LET new == [r EXCEPT !.pairingGen = @ + 1]
              IN  /\ new \in Remotes
                  /\ new.status = r.status /\ new.env = r.env /\ new.busy = r.busy
  BY DEF Remotes

(* clear_remote_control_runtime leaves nothing to wait for.                  *)
LEMMA ClearedIsSound ==
    ASSUME NEW r, Sound(r)
    PROVE  Sound(Cleared(r)) /\ Current(Cleared(r)) /\ \A q : ~Awaits(Cleared(r), q)
<1> DEFINE a == [r EXCEPT !.statusGen = @ + 1]
           b == [a EXCEPT !.mutationGen = @ + 1]
           c == [b EXCEPT !.status = "disabled"]
           d == [c EXCEPT !.env = None]
           e == [d EXCEPT !.busy = Idle]
           f == [e EXCEPT !.pending = FALSE]
           g == [f EXCEPT !.pairingGen = @ + 1]
           h == [g EXCEPT !.pairing = Idle]
<1>1. a \in Remotes
  BY GenerationsGoUp DEF Sound
<1>2. b \in Remotes
  BY <1>1, GenerationsGoUp, Zenon
<1>3. c \in Remotes /\ c.status = "disabled"
  BY <1>2 DEF Remotes
<1>4. d \in Remotes /\ d.status = "disabled" /\ d.env = None
  BY <1>3 DEF Remotes
<1>5. e \in Remotes /\ e.status = "disabled" /\ e.env = None /\ e.busy = Idle
  BY <1>4, IdleIsRequest DEF Remotes
<1>6. f \in Remotes /\ f.status = "disabled" /\ f.env = None /\ f.busy = Idle
  BY <1>5 DEF Remotes
<1>7. g \in Remotes /\ g.status = "disabled" /\ g.env = None /\ g.busy = Idle
  BY <1>6, GenerationsGoUp, Zenon
<1>8. /\ h \in Remotes /\ h.status = "disabled" /\ h.env = None /\ h.busy = Idle
      /\ h.pairing = Idle
  BY <1>7, IdleIsRequest DEF Remotes
<1> HIDE DEF h
<1>9. Cleared(r) = NoDevices(h)
  BY Zenon DEF Cleared, NoPairing, h
<1>10. NoList(h.devices.gen + 1) \in Lists
  BY <1>8, NoListIsList DEF Remotes, Lists
<1>11. /\ NoDevices(h) \in Remotes
       /\ NoDevices(h).env = h.env /\ NoDevices(h).status = h.status
       /\ NoDevices(h).busy = h.busy /\ NoDevices(h).pairing = h.pairing
       /\ NoDevices(h).devices = NoList(h.devices.gen + 1)
  BY <1>8, <1>10 DEF NoDevices, Remotes
<1>12. QED
  BY <1>8, <1>9, <1>11, IdleIsRequest
     DEF NoList, Sound, Current, Awaits, AwaitsDevices, Operations, None

(* set_remote_control_runtime keeps what belongs to the environment, if that *)
(* is the one it was.                                                        *)
LEMMA SnapshotsAreShown ==
    ASSUME NEW s \in Snapshots
    PROVE  /\ s.status \in {"disabled", "connecting", "connected", "errored"}
           /\ s.env \in Environments \cup {None} /\ (s.status = "connected") = (s.env # None)
  BY StatusesAssumption, EnvironmentsAssumption DEF Snapshots, Snapshot, None

(* What is not known to belong to the environment may only be dropped.       *)
LEMMA DroppedIsSound ==
    ASSUME NEW r \in Remotes, (r.status = "connected") = (r.env # None),
           r.busy.kind \in Operations, r.busy.kind = None => r.busy = Idle
    PROVE  LET new == NoDevices(NoPairing(r))
           IN  /\ Sound(new) /\ Current(new) /\ new.busy = r.busy
               /\ \A q : ~AwaitsDevices(new, q)
<1> DEFINE g == [r EXCEPT !.pairingGen = @ + 1]
           h == [g EXCEPT !.pairing = Idle]
<1>1. /\ g \in Remotes /\ g.status = r.status /\ g.env = r.env /\ g.busy = r.busy
  BY DEF Remotes
<1>2. /\ h \in Remotes /\ h.status = r.status /\ h.env = r.env /\ h.busy = r.busy
      /\ h.pairing = Idle
  BY <1>1, IdleIsRequest DEF Remotes
<1> HIDE DEF h
<1>3. NoPairing(r) = h
  BY Zenon DEF NoPairing, h
<1>4. NoList(h.devices.gen + 1) \in Lists
  BY <1>2, NoListIsList DEF Remotes, Lists
<1>5. /\ NoDevices(h) \in Remotes
      /\ NoDevices(h).env = h.env /\ NoDevices(h).status = h.status
      /\ NoDevices(h).busy = h.busy /\ NoDevices(h).pairing = h.pairing
      /\ NoDevices(h).devices = NoList(h.devices.gen + 1)
  BY <1>2, <1>4 DEF NoDevices, Remotes
<1>6. QED
  BY <1>2, <1>3, <1>5 DEF NoList, Sound, Current, AwaitsDevices

LEMMA ShownIsSound ==
    ASSUME NEW r, Sound(r), Current(r), NEW s \in Snapshots
    PROVE  /\ Sound(Shown(r, s)) /\ Current(Shown(r, s)) /\ Shown(r, s).busy = r.busy
           /\ \A q : AwaitsDevices(Shown(r, s), q) => AwaitsDevices(r, q)
<1> DEFINE a == [r EXCEPT !.status = s.status]
           b == [a EXCEPT !.env = s.env]
<1>1. a \in Remotes /\ a.status = s.status
  BY SnapshotsAreShown DEF Sound, Remotes
<1>2. b \in Remotes /\ b.status = s.status /\ b.env = s.env
  BY <1>1, SnapshotsAreShown DEF Remotes
<1>3. /\ b.busy = r.busy /\ b.devices = r.devices /\ b.pairing = r.pairing
      /\ b.pairingGen = r.pairingGen
  BY DEF Sound, Remotes
<1> HIDE DEF b
<1>4. Shown(r, s) = IF s.status # "connected" \/ s.env # r.env
                    THEN NoDevices(NoPairing(b)) ELSE b
  BY Zenon DEF Shown, b
<1>5. CASE s.status # "connected" \/ s.env # r.env
  BY <1>2, <1>3, <1>4, <1>5, DroppedIsSound, SnapshotsAreShown DEF Sound
<1>6. CASE s.status = "connected" /\ s.env = r.env
  BY <1>2, <1>3, <1>4, <1>6, SnapshotsAreShown
     DEF Sound, Current, AwaitsDevices, List, Page
<1>7. QED
  BY <1>5, <1>6

(* An operation begins or ends, a refresh is put off, a generation begins.   *)
LEMMA BusyIsSound ==
    ASSUME NEW r, Sound(r), Current(r), NEW request \in Requests,
           request.kind \in Operations, request.kind = None => request = Idle
    PROVE  LET new == [r EXCEPT !.busy = request]
           IN  /\ Sound(new) /\ Current(new) /\ new.busy = request
               /\ \A q : AwaitsDevices(new, q) => AwaitsDevices(r, q)
<1> DEFINE new == [r EXCEPT !.busy = request]
<1>1. /\ new \in Remotes /\ new.busy = request /\ new.env = r.env /\ new.status = r.status
      /\ new.pairing = r.pairing /\ new.pairingGen = r.pairingGen
      /\ new.devices = r.devices
  BY DEF Sound, Remotes
<1> HIDE DEF new
<1>2. Sound(new) /\ Current(new) /\ \A q : AwaitsDevices(new, q) => AwaitsDevices(r, q)
  BY <1>1 DEF Sound, Current, AwaitsDevices, List, Page
<1>3. QED
  BY <1>1, <1>2 DEF new

LEMMA PendingIsSound ==
    ASSUME NEW r, Sound(r), Current(r), NEW put \in BOOLEAN
    PROVE  LET new == [r EXCEPT !.pending = put]
           IN  /\ Sound(new) /\ Current(new) /\ new.busy = r.busy
               /\ \A q : AwaitsDevices(new, q) => AwaitsDevices(r, q)
<1> DEFINE new == [r EXCEPT !.pending = put]
<1>1. /\ new \in Remotes /\ new.busy = r.busy /\ new.env = r.env /\ new.status = r.status
      /\ new.pairing = r.pairing /\ new.pairingGen = r.pairingGen
      /\ new.devices = r.devices
  BY DEF Sound, Remotes
<1> HIDE DEF new
<1>2. Sound(new) /\ Current(new) /\ \A q : AwaitsDevices(new, q) => AwaitsDevices(r, q)
  BY <1>1 DEF Sound, Current, AwaitsDevices, List, Page
<1>3. QED
  BY <1>1, <1>2 DEF new

LEMMA StatusGenIsSound ==
    ASSUME NEW r, Sound(r), Current(r)
    PROVE  LET new == [r EXCEPT !.statusGen = @ + 1]
           IN  /\ Sound(new) /\ Current(new) /\ new.busy = r.busy
               /\ \A q : AwaitsDevices(new, q) => AwaitsDevices(r, q)
<1> DEFINE new == [r EXCEPT !.statusGen = @ + 1]
<1>1. /\ new \in Remotes /\ new.busy = r.busy /\ new.env = r.env /\ new.status = r.status
      /\ new.pairing = r.pairing /\ new.pairingGen = r.pairingGen
      /\ new.devices = r.devices
  BY DEF Sound, Remotes
<1> HIDE DEF new
<1>2. Sound(new) /\ Current(new) /\ \A q : AwaitsDevices(new, q) => AwaitsDevices(r, q)
  BY <1>1 DEF Sound, Current, AwaitsDevices, List, Page
<1>3. QED
  BY <1>1, <1>2 DEF new

LEMMA MutationGenIsSound ==
    ASSUME NEW r, Sound(r), Current(r)
    PROVE  LET new == [r EXCEPT !.mutationGen = @ + 1]
           IN  /\ Sound(new) /\ Current(new) /\ new.busy = r.busy
               /\ \A q : AwaitsDevices(new, q) => AwaitsDevices(r, q)
<1> DEFINE new == [r EXCEPT !.mutationGen = @ + 1]
<1>1. /\ new \in Remotes /\ new.busy = r.busy /\ new.env = r.env /\ new.status = r.status
      /\ new.pairing = r.pairing /\ new.pairingGen = r.pairingGen
      /\ new.devices = r.devices
  BY DEF Sound, Remotes
<1> HIDE DEF new
<1>2. Sound(new) /\ Current(new) /\ \A q : AwaitsDevices(new, q) => AwaitsDevices(r, q)
  BY <1>1 DEF Sound, Current, AwaitsDevices, List, Page
<1>3. QED
  BY <1>1, <1>2 DEF new

-----------------------------------------------------------------------------
(* What an operation of the reducer sends, and what it leaves to wait for.   *)

(* An effect finds room or is put down as lost.                              *)
QueuesKept ==
    /\ commands' \in Seq(Requests) /\ unheard' \subseteq Requests /\ extras' \in 0..MaxExtras
    /\ \A q : Queued(q) => Queued(q)'

LEMMA SentKeepsQueues ==
    ASSUME TypeOK, NEW request \in Requests, Sent(request)
    PROVE  QueuesKept /\ Queued(request)'
<1>1. CASE commands' = Append(commands, request) /\ Uncounted /\ UNCHANGED unheard
  <2>1. commands \in Seq(Requests) /\ unheard' = unheard /\ extras' = extras
    BY <1>1 DEF TypeOK, Uncounted
  <2>2. /\ commands' \in Seq(Requests)
        /\ \A i \in DOMAIN commands : i \in DOMAIN commands' /\ commands'[i] = commands[i]
        /\ \E i \in DOMAIN commands' : commands'[i] = request
    BY <1>1, <2>1, AppendAdds
  <2>3. QED
    BY <2>1, <2>2 DEF QueuesKept, TypeOK, Queued
<1>2. CASE Counted /\ unheard' = unheard \cup {request} /\ UNCHANGED commands
  <2>1. extras' \in 0..MaxExtras
    BY <1>2, BoundsAssumption DEF Counted, TypeOK
  <2>2. QED
    BY <1>2, <2>1 DEF QueuesKept, TypeOK, Queued
<1>3. QED
  BY <1>1, <1>2 DEF Sent

LEMMA SilentKeepsQueues ==
    ASSUME TypeOK, Silent
    PROVE  QueuesKept
  BY DEF TypeOK, Silent, QueuesKept, Queued

(* What remote becomes awaits what r did, but the operation, or has sent.    *)
Follows(r) ==
    /\ QueuesKept /\ Sound(remote') /\ Current(remote')
    /\ \A q : Awaits(remote', q) => AwaitsDevices(r, q) \/ Queued(q)'

LEMMA BeginFollows ==
    ASSUME TypeOK, NEW r, Sound(r), Current(r), NEW permitted \in BOOLEAN, Begin(r, permitted)
    PROVE  /\ QueuesKept /\ Sound(remote') /\ Current(remote')
           /\ \A q : Awaits(remote', q) => Awaits(r, q) \/ Queued(q)'
<1> DEFINE request == Request("status", r.statusGen + 1, None, 0)
<1>1. CASE remote' = r /\ Silent
  BY <1>1, SilentKeepsQueues
<1>2. CASE remote' = [r EXCEPT !.pending = TRUE] /\ Silent
  <2>1. QueuesKept
    BY <1>2, SilentKeepsQueues
  <2>2. /\ Sound(remote') /\ Current(remote') /\ remote'.busy = r.busy
        /\ \A q : AwaitsDevices(remote', q) => AwaitsDevices(r, q)
    BY <1>2, PendingIsSound
  <2>3. QED
    BY <2>1, <2>2 DEF Awaits
<1>3. CASE /\ remote' = [r EXCEPT !.statusGen = @ + 1, !.busy = request, !.pending = FALSE]
           /\ Sent(request)
  <2> DEFINE a == [r EXCEPT !.statusGen = @ + 1]
             b == [a EXCEPT !.busy = request]
             c == [b EXCEPT !.pending = FALSE]
  <2>1. request \in Requests /\ request.kind = "status"
    BY RequestIsRequest DEF Sound, Remotes
  <2>2. QueuesKept /\ Queued(request)'
    BY <1>3, <2>1, SentKeepsQueues
  <2>3. Sound(a) /\ Current(a) /\ \A q : AwaitsDevices(a, q) => AwaitsDevices(r, q)
    BY StatusGenIsSound
  <2>4. /\ Sound(b) /\ Current(b) /\ b.busy = request
        /\ \A q : AwaitsDevices(b, q) => AwaitsDevices(a, q)
    <3> HIDE DEF a, request
    <3>1. QED
      BY <2>1, <2>3, BusyIsSound DEF Operations, None
  <2>5. /\ Sound(c) /\ Current(c) /\ c.busy = request
        /\ \A q : AwaitsDevices(c, q) => AwaitsDevices(b, q)
    <3> HIDE DEF b, request
    <3>1. QED
      BY <2>4, PendingIsSound
  <2>6. remote' = c
    BY <1>3, Zenon
  <2> HIDE DEF a, b, c, request
  <2>7. QED
    BY <2>2, <2>3, <2>4, <2>5, <2>6 DEF Awaits
<1>4. QED
  BY <1>1, <1>2, <1>3, Zenon DEF Begin

(* When an operation ends, it is no longer waited for.                       *)
LEMMA FinishFollows ==
    ASSUME TypeOK, NEW r, Sound(r), Current(r), Finish(r)
    PROVE  Follows(r)
<1> DEFINE idle == [r EXCEPT !.busy = Idle]
<1>1. /\ Sound(idle) /\ Current(idle) /\ idle.busy = Idle
      /\ \A q : AwaitsDevices(idle, q) => AwaitsDevices(r, q)
  BY BusyIsSound, IdleIsRequest DEF Operations
<1> HIDE DEF idle
<1>2. CASE Begin(idle, Permitted)
  BY <1>1, <1>2, BeginFollows DEF Follows, Awaits, Permitted
<1>3. CASE remote' = idle /\ Silent
  BY <1>1, <1>3, SilentKeepsQueues DEF Follows, Awaits
<1>4. QED
  BY <1>2, <1>3, Zenon DEF Finish, idle

-----------------------------------------------------------------------------
(* What the user does.                                                       *)

LEMMA WaysOfRequests ==
    ASSUME NEW request
    PROVE  UnderWay(request) <=> Queued(request) \/ Replied(request)
  BY DEF UnderWay, Queued, Replied

LEMMA UserKeepsInv ==
    ASSUME IInv, Asks, UNCHANGED notUser, QueuesKept, Sound(remote'), Current(remote'),
           \A q : Awaits(remote', q) => Awaits(remote, q) \/ Queued(q)'
    PROVE  IInv'
<1>1. requests' \in 0..MaxRequests
  BY BoundsAssumption DEF IInv, TypeOK, Asks
<1>2. TypeOK'
  BY <1>1 DEF IInv, TypeOK, notUser, backendVars, accountVars, QueuesKept, Sound, Linked
<1>3. ASSUME NEW q, Awaits(remote', q)
      PROVE  Queued(q)' \/ Replied(q)'
  <2>1. CASE Queued(q)'
    BY <2>1
  <2>2. CASE Awaits(remote, q)
    BY <2>2, WaysOfRequests DEF IInv, QueuesKept, Replied, notUser
  <2>3. QED
    BY <1>3, <2>1, <2>2
<1>4. QED
  BY <1>2, <1>3 DEF IInv, UnderWay, Queued, Replied

(* A request that is sent, and what r became while the page waits for it.    *)
LEMMA AskedKeepsInv ==
    ASSUME IInv, Asks, UNCHANGED notUser, NEW request \in Requests, Sent(request),
           Sound(remote'), Current(remote'),
           \A q : Awaits(remote', q) => AwaitsDevices(remote, q) \/ q = request
    PROVE  IInv'
<1>1. QueuesKept /\ Queued(request)'
  BY SentKeepsQueues DEF IInv
<1>2. ASSUME NEW q, Awaits(remote', q)
      PROVE  Awaits(remote, q) \/ Queued(q)'
  BY <1>1, <1>2 DEF Awaits
<1>3. QED
  BY <1>1, <1>2, UserKeepsInv

LEMMA RefreshStatusKeeps == IInv /\ RefreshStatus => IInv'
<1>1. ASSUME IInv, RefreshStatus PROVE IInv'
  BY <1>1, BeginFollows, UserKeepsInv DEF IInv, RefreshStatus, Permitted
<1>2. QED
  BY <1>1

LEMMA SwitchKeeps ==
    ASSUME IInv, NEW kind \in {"enable", "disable"}, Switch(kind)
    PROVE  IInv'
<1> DEFINE request == Request(kind, remote.mutationGen + 1, None, 0)
           a == [remote EXCEPT !.mutationGen = @ + 1]
           b == [a EXCEPT !.busy = request]
<1>1. request \in Requests /\ request.kind = kind
  BY RequestIsRequest DEF IInv, Sound, Remotes
<1>2. remote' = b /\ Sent(request) /\ Asks /\ UNCHANGED notUser
  BY Zenon DEF Switch
<1>3. Sound(a) /\ Current(a) /\ \A q : AwaitsDevices(a, q) => AwaitsDevices(remote, q)
  BY MutationGenIsSound DEF IInv
<1> HIDE DEF a, request
<1>4. /\ Sound(b) /\ Current(b) /\ b.busy = request
      /\ \A q : AwaitsDevices(b, q) => AwaitsDevices(a, q)
  BY <1>1, <1>3, BusyIsSound DEF Operations, None
<1>5. QED
  BY <1>1, <1>2, <1>3, <1>4, AskedKeepsInv DEF Awaits

LEMMA StartPairingKeeps == ASSUME IInv, StartPairing PROVE IInv'
<1> DEFINE request == Request("pair", remote.pairingGen + 1, None, 0)
           a == NoPairing(remote)
           b == [a EXCEPT !.busy = request]
<1>1. request \in Requests /\ request.kind = "pair"
  BY RequestIsRequest DEF IInv, Sound, Remotes
<1>2. remote' = b /\ Sent(request) /\ Asks /\ UNCHANGED notUser
  BY Zenon DEF StartPairing
<1>3. Sound(a) /\ Current(a) /\ \A q : AwaitsDevices(a, q) => AwaitsDevices(remote, q)
  BY NoPairingIsSound DEF IInv
<1> HIDE DEF a, request
<1>4. /\ Sound(b) /\ Current(b) /\ b.busy = request
      /\ \A q : AwaitsDevices(b, q) => AwaitsDevices(a, q)
  BY <1>1, <1>3, BusyIsSound DEF Operations, None
<1>5. QED
  BY <1>1, <1>2, <1>3, <1>4, AskedKeepsInv DEF Awaits

LEMMA CheckPairingKeeps == ASSUME IInv, CheckPairing PROVE IInv'
<1> DEFINE request == Request("check", remote.pairingGen, remote.env, 0)
           b == [remote EXCEPT !.busy = request]
<1>1. request \in Requests /\ request.kind = "check"
  BY RequestIsRequest DEF IInv, Sound, Remotes
<1>2. remote' = b /\ Sent(request) /\ Asks /\ UNCHANGED notUser
  BY Zenon DEF CheckPairing
<1> HIDE DEF request
<1>3. /\ Sound(b) /\ Current(b) /\ b.busy = request
      /\ \A q : AwaitsDevices(b, q) => AwaitsDevices(remote, q)
  BY <1>1, BusyIsSound DEF Operations, None, IInv
<1>4. QED
  BY <1>1, <1>2, <1>3, AskedKeepsInv DEF Awaits

LEMMA ClosePairingKeeps == ASSUME IInv, ClosePairing PROVE IInv'
<1> DEFINE a == NoPairing(remote)
<1>1. /\ Sound(a) /\ Current(a) /\ a.busy = remote.busy
      /\ \A q : AwaitsDevices(a, q) => AwaitsDevices(remote, q)
  BY NoPairingIsSound DEF IInv
<1>2. Asks /\ UNCHANGED notUser /\ TypeOK
  BY DEF ClosePairing, IInv
<1> HIDE DEF a
<1>3. CASE Finish(a)
  BY <1>1, <1>2, <1>3, FinishFollows, UserKeepsInv DEF Follows, Awaits
<1>4. CASE remote' = a /\ Silent
  BY <1>1, <1>2, <1>4, SilentKeepsQueues, UserKeepsInv DEF Awaits
<1>5. QED
  BY <1>3, <1>4, Zenon DEF ClosePairing, a

LEMMA LoadingIsList ==
    ASSUME NEW generation \in Nat
    PROVE  LET new == [NoList(generation) EXCEPT !.list = "loading"]
           IN  /\ new \in Lists /\ new.list = "loading" /\ new.listed = {}
               /\ new.more = FALSE /\ new.gen = generation
  BY DEF NoList, Lists

(* The list of another generation is waited for, and no other.               *)
LEMMA RefreshDevicesKeeps == ASSUME IInv, RefreshDevices PROVE IInv'
<1> DEFINE request == Request("devices", remote.devices.gen + 1, remote.env, 0)
           a == NoDevices(remote)
           b == [a EXCEPT !.devices.list = "loading"]
<1>1. request \in Requests
  BY RequestIsRequest DEF IInv, Sound, Remotes, Lists
<1>2. remote' = b /\ Sent(request) /\ Asks /\ UNCHANGED notUser /\ remote.env # None
  BY DEF RefreshDevices, Linked, IInv, Sound
<1>3. /\ Sound(a) /\ Current(a) /\ a.devices = NoList(remote.devices.gen + 1)
      /\ a.env = remote.env /\ a.busy = remote.busy
  BY NoDevicesIsSound DEF IInv
<1>4. remote.busy = Idle
  BY DEF RefreshDevices, Allowed
<1> HIDE DEF a
<1>5. /\ b.busy = a.busy /\ b.env = a.env /\ b.status = a.status /\ b.pairing = a.pairing
      /\ b.pairingGen = a.pairingGen /\ b.devices = [a.devices EXCEPT !.list = "loading"]
  BY <1>3 DEF Sound, Remotes
<1>6. /\ b.devices \in Lists /\ b.devices.list = "loading" /\ b.devices.listed = {}
      /\ b.devices.more = FALSE /\ b.devices.gen = remote.devices.gen + 1
  <2>1. remote.devices.gen + 1 \in Nat
    BY DEF IInv, Sound, Remotes, Lists
  <2>2. QED
    BY <1>3, <1>5, <2>1, LoadingIsList
<1>7. b = [a EXCEPT !.devices = [a.devices EXCEPT !.list = "loading"]] /\ b \in Remotes
  BY <1>3, <1>5, <1>6 DEF Sound, Remotes
<1> HIDE DEF b
<1>8. Sound(b) /\ Current(b)
  BY <1>2, <1>3, <1>5, <1>6, <1>7 DEF Sound, Current
<1>9. \A q : Awaits(b, q) => q = request
  BY <1>3, <1>4, <1>5, <1>6 DEF Awaits, AwaitsDevices, List
<1>10. QED
  BY <1>1, <1>2, <1>8, <1>9, AskedKeepsInv

LEMMA LoadMoreDevicesKeeps == ASSUME IInv, LoadMoreDevices PROVE IInv'
<1> DEFINE old == remote.devices
           request == Request("more", old.gen, remote.env, old.cursor)
           more == [old EXCEPT !.more = TRUE]
           new == [more EXCEPT !.asked = old.cursor]
           b == [remote EXCEPT !.devices = new]
<1>1. remote \in Remotes /\ old \in Lists
  BY DEF IInv, Sound, Remotes
<1>2. request \in Requests
  <2>1. old.gen \in Nat /\ remote.env \in Environments \cup {None} /\ old.cursor \in Numbers \cup {0}
    BY <1>1 DEF Remotes, Lists
  <2>2. QED
    BY <2>1, RequestIsRequest
<1>3. /\ Sent(request) /\ Asks /\ UNCHANGED notUser /\ remote.env # None
      /\ old.list = "ready" /\ remote.busy = Idle
  BY DEF LoadMoreDevices, Linked, Allowed, IInv, Sound
<1>4. /\ new \in Lists /\ new.more /\ new.asked = old.cursor /\ new.list = old.list
      /\ new.listed = old.listed /\ new.gen = old.gen
  BY <1>1 DEF Lists
<1>5. remote' = b
  BY <1>1 DEF LoadMoreDevices, Remotes, Lists
<1>6. /\ b \in Remotes /\ b.busy = remote.busy /\ b.env = remote.env
      /\ b.status = remote.status /\ b.pairing = remote.pairing
      /\ b.pairingGen = remote.pairingGen /\ b.devices = new
  BY <1>1, <1>4 DEF Remotes
<1> HIDE DEF b, new, old
<1>7. Sound(b) /\ Current(b)
  BY <1>3, <1>4, <1>6 DEF Sound, Current, IInv, old
<1>8. \A q : Awaits(b, q) => q = request
  BY <1>3, <1>4, <1>6 DEF Awaits, AwaitsDevices, Page
<1>9. QED
  BY <1>2, <1>3, <1>5, <1>7, <1>8, AskedKeepsInv

(* The devices of the page stay, but what was asked for of them is void.     *)
LEMMA VoidedIsSound ==
    ASSUME NEW r, Sound(r), Current(r), r.devices.listed # {}
    PROVE  /\ Sound(Voided(r, FALSE)) /\ Current(Voided(r, FALSE))
           /\ Voided(r, FALSE).busy = r.busy /\ \A q : ~AwaitsDevices(Voided(r, FALSE), q)
<1> DEFINE old == r.devices
           new == [gen |-> old.gen + 1, list |-> old.list, listed |-> old.listed,
                   cursor |-> 0, asked |-> 0, more |-> FALSE]
           b == [r EXCEPT !.devices = new]
<1>1. r \in Remotes /\ old \in Lists
  BY DEF Sound, Remotes
<1>2. /\ new \in Lists /\ new.list = old.list /\ new.listed = old.listed
      /\ new.more = FALSE
  BY <1>1 DEF Lists
<1>3. /\ b \in Remotes /\ b.busy = r.busy /\ b.env = r.env /\ b.status = r.status
      /\ b.pairing = r.pairing /\ b.pairingGen = r.pairingGen /\ b.devices = new
  BY <1>1, <1>2 DEF Remotes
<1>4. Voided(r, FALSE) = b
  BY DEF Voided
<1> HIDE DEF b, new, old
<1>5. Sound(b) /\ Current(b) /\ \A q : ~AwaitsDevices(b, q)
  BY <1>2, <1>3 DEF old, Sound, Current, AwaitsDevices
<1>6. QED
  BY <1>3, <1>4, <1>5

LEMMA RevokeDeviceKeeps == ASSUME IInv, NEW d \in Numbers, RevokeDevice(d) PROVE IInv'
<1> DEFINE request == Request("revoke", remote.mutationGen + 1, remote.env, d)
           a == Voided(remote, FALSE)
           b == [a EXCEPT !.mutationGen = @ + 1]
           c == [b EXCEPT !.busy = request]
<1>1. request \in Requests /\ request.kind = "revoke"
  BY RequestIsRequest DEF IInv, Sound, Remotes
<1>2. remote' = c
  BY Voided(remote, FALSE).mutationGen = remote.mutationGen DEF RevokeDevice, Voided, IInv, Sound, Remotes
<1>3. Sent(request) /\ Asks /\ UNCHANGED notUser /\ remote.devices.listed # {}
  BY DEF RevokeDevice
<1>4. Sound(a) /\ Current(a) /\ \A q : ~AwaitsDevices(a, q)
  BY <1>3, VoidedIsSound DEF IInv
<1> HIDE DEF a, request
<1>5. Sound(b) /\ Current(b) /\ \A q : ~AwaitsDevices(b, q)
  BY <1>4, MutationGenIsSound
<1> HIDE DEF b
<1>6. Sound(c) /\ Current(c) /\ c.busy = request /\ \A q : ~AwaitsDevices(c, q)
  BY <1>1, <1>5, BusyIsSound DEF Operations, None
<1>7. QED
  BY <1>1, <1>2, <1>3, <1>6, AskedKeepsInv DEF Awaits

LEMMA SignInKeeps == ASSUME IInv, SignIn PROVE IInv'
<1>1. /\ commands' \in Seq(Requests)
      /\ \A i \in DOMAIN commands : i \in DOMAIN commands' /\ commands'[i] = commands[i]
  <2>1. Plain("signIn") \in Requests /\ commands \in Seq(Requests)
    BY PlainIsRequest DEF IInv, TypeOK
  <2>2. commands' = Append(commands, Plain("signIn"))
    BY DEF SignIn
  <2>3. QED
    BY <2>1, <2>2, AppendAdds
<1>2. auth' = "submitting" /\ requests' \in 0..MaxRequests
  <2>1. requests \in 0..MaxRequests /\ MaxRequests \in Nat
    BY BoundsAssumption DEF IInv, TypeOK
  <2>2. QED
    BY <2>1 DEF SignIn, Asks
<1>3. UNCHANGED <<server, link, notices, events, lossPending, connection, policy, remote,
                  unheard, extras>>
  BY DEF SignIn, backendVars
<1>4. TypeOK'
  BY <1>1, <1>2, <1>3 DEF IInv, TypeOK, Linked
<1>5. \A q : UnderWay(q) => UnderWay(q)'
  BY <1>1, <1>3 DEF UnderWay
<1>6. QED
  BY <1>3, <1>4, <1>5 DEF IInv

LEMMA ReadProfilesAgainKeeps == ASSUME IInv, ReadProfilesAgain PROVE IInv'
<1>1. Asks /\ UNCHANGED notUser /\ UNCHANGED remote /\ QueuesKept
  BY PlainIsRequest, SentKeepsQueues DEF ReadProfilesAgain, IInv
<1>2. QED
  BY <1>1, UserKeepsInv DEF IInv

LEMMA UserStepKeeps == ASSUME IInv, User PROVE IInv'
  BY RefreshStatusKeeps, SwitchKeeps, StartPairingKeeps, CheckPairingKeeps, ClosePairingKeeps,
     RefreshDevicesKeeps, LoadMoreDevicesKeeps, RevokeDeviceKeeps, SignInKeeps,
     ReadProfilesAgainKeeps DEF User

-----------------------------------------------------------------------------
(* What the reducer hears.                                                   *)

(* What the page waits for is under way but for the answer that arrives.     *)
LEMMA ArrivalLeavesTheRest ==
    ASSUME IInv, NEW kind, Arrives(kind)
    PROVE  /\ events' \in Seq(Events) /\ reply \in Events /\ reply.kind = kind
           /\ \A i \in DOMAIN events' : events'[i].kind = "profiles" =>
                  events'[i].word \in {"allowed", "forbidden", "failed"}
           /\ kind = "profiles" => reply.word \in {"allowed", "forbidden", "failed"}
           /\ \A q : Replied(q) => Replied(q)' \/ (kind = "answer" /\ q = reply.of)
<1>1. /\ events \in Seq(Events) /\ events # <<>> /\ events' = Tail(events)
      /\ reply.kind = kind
      /\ \A i \in DOMAIN events : events[i].kind = "profiles" =>
             events[i].word \in {"allowed", "forbidden", "failed"}
  BY DEF Arrives, IInv, TypeOK
<1>2. /\ events' \in Seq(Events) /\ reply \in Events /\ 1 \in DOMAIN events
      /\ reply = events[1]
      /\ \A i \in DOMAIN events :
             events[i] = reply \/ (i - 1 \in DOMAIN events' /\ events'[i - 1] = events[i])
      /\ \A i \in DOMAIN events' : i + 1 \in DOMAIN events /\ events'[i] = events[i + 1]
  BY <1>1, TailDrops DEF reply
<1> HIDE DEF reply
<1>3. /\ \A i \in DOMAIN events' : events'[i].kind = "profiles" =>
             events'[i].word \in {"allowed", "forbidden", "failed"}
      /\ kind = "profiles" => reply.word \in {"allowed", "forbidden", "failed"}
  BY <1>1, <1>2
<1>4. ASSUME NEW q, Replied(q)
      PROVE  Replied(q)' \/ (kind = "answer" /\ q = reply.of)
  <2>1. PICK i \in DOMAIN events : events[i].kind = "answer" /\ events[i].of = q
    BY <1>4 DEF Replied
  <2>2. QED
    BY <1>1, <1>2, <2>1 DEF Replied
<1>5. QED
  BY <1>1, <1>2, <1>3, <1>4

LEMMA HeardKeepsInv ==
    ASSUME IInv, NEW kind, Arrives(kind),
           commands' \in Seq(Requests), unheard' \subseteq Requests, extras' \in 0..MaxExtras,
           connection' \in {"online", "connecting", "recovering", "failed"},
           auth' \in {"idle", "submitting", "restarting"},
           policy' \in {"loading", "allowed", "forbidden", "failed"},
           Sound(remote'), Current(remote'),
           \A q : Awaits(remote', q) =>
               \/ Queued(q)'
               \/ /\ Awaits(remote, q) /\ (Queued(q) => Queued(q)')
                  /\ kind = "answer" => q # reply.of
    PROVE  IInv'
<1>1. TypeOK'
  BY ArrivalLeavesTheRest DEF IInv, TypeOK, Arrives, backendVars, Sound, Linked
<1>2. ASSUME NEW q, Awaits(remote', q)
      PROVE  Queued(q)' \/ Replied(q)'
  <2>1. CASE Queued(q)'
    BY <2>1
  <2>2. CASE ~Queued(q)'
    <3>1. UnderWay(q) /\ ~Queued(q) /\ (kind = "answer" => q # reply.of)
      BY <1>2, <2>2 DEF IInv
    <3>2. Replied(q)
      BY <3>1, WaysOfRequests
    <3>3. QED
      BY <3>1, <3>2, ArrivalLeavesTheRest
  <2>3. QED
    BY <2>1, <2>2
<1>3. QED
  BY <1>1, <1>2 DEF IInv, UnderWay, Queued, Replied

LEMMA HearConnectedKeeps == ASSUME IInv, HearConnected PROVE IInv'
<1>1. QueuesKept
  BY PlainIsRequest, SentKeepsQueues DEF HearConnected, IInv
<1>2. /\ connection' = "online" /\ policy' = "loading" /\ UNCHANGED remote
      /\ auth' \in {"idle", "submitting", "restarting"} /\ Arrives("connected")
  BY DEF HearConnected, IInv, TypeOK
<1>3. QED
  BY <1>1, <1>2, HeardKeepsInv DEF IInv, QueuesKept

(* The loss of the connection ends all waiting.                              *)
LEMMA HearLostKeeps == ASSUME IInv, HearLost PROVE IInv'
<1>1. /\ auth' = "idle" /\ UNCHANGED <<commands, policy, extras>>
      /\ TypeOK /\ Sound(remote)
  BY DEF HearLost, IInv
<1>2. /\ Sound(remote') /\ Current(remote') /\ unheard' \subseteq Requests
      /\ connection' \in {"online", "connecting", "recovering", "failed"}
      /\ \A q : Awaits(remote', q) => Awaits(remote, q) /\ unheard' = unheard
  <2>1. CASE UNCHANGED <<connection, remote, unheard>>
    BY <2>1 DEF IInv, TypeOK
  <2>2. CASE connection' = "recovering" /\ remote' = Cleared(remote) /\ unheard' = {}
    BY <1>1, <2>2, ClearedIsSound
  <2>3. QED
    BY <2>1, <2>2 DEF HearLost
<1>3. \A q : Awaits(remote', q) /\ Queued(q) => Queued(q)'
  BY <1>1, <1>2 DEF Queued
<1>4. CASE Arrives("lost")
  BY <1>1, <1>2, <1>3, <1>4, HeardKeepsInv DEF TypeOK
<1>5. CASE lossPending /\ lossPending' = FALSE /\ UNCHANGED <<backendVars, events, requests>>
  <2>1. TypeOK'
    BY <1>1, <1>2, <1>5 DEF TypeOK, backendVars, Sound, Linked
  <2>2. \A q : Awaits(remote', q) => UnderWay(q)'
    BY <1>2, <1>3, <1>5 DEF IInv, UnderWay, Queued
  <2>3. QED
    BY <1>2, <2>1, <2>2 DEF IInv
<1>6. QED
  BY <1>4, <1>5, Zenon DEF HearLost

LEMMA HearSignInKeeps == ASSUME IInv, HearSignIn PROVE IInv'
<1>1. /\ connection' \in {"online", "connecting", "recovering", "failed"}
      /\ auth' \in {"idle", "submitting", "restarting"}
      /\ UNCHANGED <<commands, policy, remote, unheard, extras>> /\ Arrives("signIn")
  BY DEF HearSignIn, IInv, TypeOK, accountVars
<1>2. \A q : Queued(q) => Queued(q)'
  BY <1>1 DEF Queued
<1>3. QED
  BY <1>1, <1>2, HeardKeepsInv DEF IInv, TypeOK

LEMMA HearProfilesKeeps == ASSUME IInv, HearProfiles PROVE IInv'
<1>1. Arrives("profiles") /\ UNCHANGED <<connection, auth>> /\ policy' = reply.word /\ TypeOK
      /\ Sound(remote) /\ Current(remote)
  BY DEF HearProfiles, accountVars, IInv
<1>2. policy' \in {"loading", "allowed", "forbidden", "failed"}
  BY <1>1, ArrivalLeavesTheRest
<1>3. CASE Begin(remote, TRUE)
  <2>1. /\ QueuesKept /\ Sound(remote') /\ Current(remote')
        /\ \A q : Awaits(remote', q) => Awaits(remote, q) \/ Queued(q)'
    BY <1>1, <1>3, BeginFollows
  <2>2. QED
    BY <1>1, <1>2, <2>1, HeardKeepsInv DEF QueuesKept, TypeOK
<1>4. CASE remote' = Cleared(remote) /\ unheard' = {} /\ UNCHANGED <<commands, extras>>
  <2>1. Sound(remote') /\ Current(remote') /\ \A q : ~Awaits(remote', q)
    BY <1>1, <1>4, ClearedIsSound
  <2>2. QED
    BY <1>1, <1>2, <1>4, <2>1, HeardKeepsInv DEF TypeOK
<1>5. QED
  BY <1>3, <1>4 DEF HearProfiles

LEMMA HearChangedKeeps == ASSUME IInv, HearChanged PROVE IInv'
<1> DEFINE a == [remote EXCEPT !.statusGen = @ + 1]
<1>1. /\ Arrives("changed") /\ UNCHANGED <<commands, connection, auth, policy, unheard, extras>>
      /\ TypeOK /\ Sound(remote) /\ Current(remote)
  BY DEF HearChanged, accountVars, IInv
<1>2. reply.snapshot \in Snapshots
  BY <1>1, ArrivalLeavesTheRest DEF Events
<1>3. /\ Sound(a) /\ Current(a) /\ a.busy = remote.busy
      /\ \A q : AwaitsDevices(a, q) => AwaitsDevices(remote, q)
  BY <1>1, StatusGenIsSound
<1> HIDE DEF a
<1>4. /\ Sound(remote') /\ Current(remote')
      /\ \A q : Awaits(remote', q) => Awaits(remote, q)
  <2>1. CASE remote' = remote
    BY <1>1, <2>1
  <2>2. CASE remote' = [remote EXCEPT !.pending = TRUE]
    BY <1>1, <2>2, PendingIsSound DEF Awaits
  <2>3. CASE remote' = Shown(a, reply.snapshot)
    BY <1>2, <1>3, <2>3, ShownIsSound DEF Awaits
  <2>4. QED
    BY <2>1, <2>2, <2>3, Zenon DEF HearChanged, a
<1>5. \A q : Queued(q) => Queued(q)'
  BY <1>1 DEF Queued
<1>6. QED
  BY <1>1, <1>4, <1>5, HeardKeepsInv DEF TypeOK

(* The answer to the operation that the page waits for ends it.              *)
LEMMA EndedKeepsInv ==
    ASSUME IInv, NEW kinds, NEW ok, Answered(kinds, ok), remote.busy = reply.of,
           NEW r, Sound(r), Current(r), Finish(r),
           \A q : AwaitsDevices(r, q) => AwaitsDevices(remote, q)
    PROVE  IInv'
<1>1. Arrives("answer") /\ UNCHANGED <<connection, auth, policy>> /\ TypeOK /\ Sound(remote)
  BY DEF Answered, accountVars, IInv
<1>2. Follows(r)
  BY <1>1, FinishFollows
<1>3. ASSUME NEW q, Awaits(remote', q)
      PROVE  Queued(q)' \/ (Awaits(remote, q) /\ q # reply.of)
  <2>1. CASE AwaitsDevices(r, q)
    BY <1>1, <2>1, DevicesAreNoOperation DEF Awaits
  <2>2. CASE Queued(q)'
    BY <2>2
  <2>3. QED
    BY <1>2, <1>3, <2>1, <2>2 DEF Follows
<1>4. QED
  BY <1>1, <1>2, <1>3, HeardKeepsInv DEF Follows, QueuesKept, TypeOK

(* An answer that is ignored is not waited for, or put down as unheard.      *)
LEMMA IgnoredKeepsInv ==
    ASSUME IInv, NEW kinds, NEW ok, Answered(kinds, ok), Ignored,
           ~AwaitsDevices(remote, reply.of)
    PROVE  IInv'
<1>1. Arrives("answer") /\ UNCHANGED <<connection, auth, policy>> /\ TypeOK
      /\ UNCHANGED <<commands, remote, extras>>
  BY DEF Answered, accountVars, IInv, Ignored
<1>2. reply.of \in Requests
  BY <1>1, ArrivalLeavesTheRest DEF Events
<1>3. unheard' \subseteq Requests /\ unheard \subseteq unheard'
      /\ (remote.busy = reply.of => reply.of \in unheard')
  BY <1>1, <1>2 DEF Ignored, TypeOK
<1>4. \A q : Queued(q) => Queued(q)'
  BY <1>1, <1>3 DEF Queued
<1>5. ASSUME NEW q, Awaits(remote, q)
      PROVE  Queued(q)' \/ q # reply.of
  BY <1>3, <1>5 DEF Awaits, Queued
<1>6. QED
  BY <1>1, <1>3, <1>4, <1>5, HeardKeepsInv DEF TypeOK, IInv

(* The answer to an operation is not one to a request for devices.           *)
LEMMA OperationsAreNoDevices ==
    ASSUME IInv, NEW kinds \in SUBSET Operations, NEW ok, Answered(kinds, ok)
    PROVE  ~AwaitsDevices(remote, reply.of)
  BY DevicesAreNoOperation DEF Answered, IInv

LEMMA HearStatusKeeps == ASSUME IInv, HearStatus PROVE IInv'
<1> DEFINE kinds == {"status", "enable", "disable"}
<1>1. Answered(kinds, TRUE) /\ kinds \in SUBSET Operations
  BY DEF HearStatus, Operations
<1>2. reply.snapshot \in Snapshots /\ Sound(remote) /\ Current(remote)
  BY <1>1, ArrivalLeavesTheRest DEF Events, Answered, IInv
<1>3. CASE remote.busy = reply.of /\ Finish(Shown(remote, reply.snapshot))
  BY <1>1, <1>2, <1>3, ShownIsSound, EndedKeepsInv
<1>4. CASE Ignored
  BY <1>1, <1>4, OperationsAreNoDevices, IgnoredKeepsInv
<1>5. QED
  BY <1>3, <1>4, Zenon DEF HearStatus

(* A failed read leaves the status unknown, under no environment.            *)
LEMMA HearStatusFailedKeeps == ASSUME IInv, HearStatusFailed PROVE IInv'
<1> DEFINE a == [remote EXCEPT !.status = "errored"]
           b == [a EXCEPT !.env = None]
<1>1. Answered({"status"}, FALSE) /\ {"status"} \in SUBSET Operations /\ Sound(remote)
  BY DEF HearStatusFailed, Operations, IInv
<1>2. a \in Remotes /\ a.status = "errored" /\ a.busy = remote.busy
  BY <1>1 DEF Sound, Remotes
<1>3. b \in Remotes /\ b.status = "errored" /\ b.env = None /\ b.busy = remote.busy
  BY <1>2 DEF Remotes
<1> HIDE DEF b
<1>4. LET new == NoDevices(NoPairing(b))
      IN  Sound(new) /\ Current(new) /\ \A q : ~AwaitsDevices(new, q)
  BY <1>1, <1>3, DroppedIsSound DEF Sound
<1>5. CASE remote.busy = reply.of /\ Finish(NoDevices(NoPairing(b)))
  BY <1>1, <1>4, <1>5, EndedKeepsInv
<1>6. CASE Ignored
  BY <1>1, <1>6, OperationsAreNoDevices, IgnoredKeepsInv
<1>7. QED
  BY <1>5, <1>6, Zenon DEF HearStatusFailed, b

LEMMA HearMutationFailedKeeps == ASSUME IInv, HearMutationFailed PROVE IInv'
<1> DEFINE kinds == {"enable", "disable", "revoke"}
<1>1. Answered(kinds, FALSE) /\ kinds \in SUBSET Operations
  BY DEF HearMutationFailed, Operations
<1>2. CASE remote.busy = reply.of /\ Finish(remote)
  BY <1>1, <1>2, EndedKeepsInv DEF IInv
<1>3. CASE Ignored
  BY <1>1, <1>3, OperationsAreNoDevices, IgnoredKeepsInv
<1>4. QED
  BY <1>2, <1>3, Zenon DEF HearMutationFailed

(* A code is shown only if it is one of the environment that is shown.       *)
LEMMA HearPairingKeeps == ASSUME IInv, HearPairing PROVE IInv'
<1> DEFINE code == Request("pairing", reply.of.generation, reply.snapshot.env, 0)
           a == [remote EXCEPT !.pairing =
                    IF Linked /\ remote.env = reply.snapshot.env THEN code ELSE @]
<1>1. Answered({"pair"}, TRUE) /\ {"pair"} \in SUBSET Operations
  BY DEF HearPairing, Operations
<1>2. CASE /\ remote.busy = reply.of /\ reply.of.generation = remote.pairingGen
           /\ Finish(a)
  <2>1. CASE Linked /\ remote.env = reply.snapshot.env
    <3>1. remote \in Remotes /\ remote.env # None
      BY <2>1 DEF Linked, IInv, Sound
    <3>2. remote.pairingGen \in Nat /\ remote.env \in Environments \cup {None}
      BY <3>1 DEF Remotes
    <3>3. /\ code \in Requests /\ code.env = remote.env /\ code # Idle
          /\ code.generation = remote.pairingGen
      BY <1>2, <2>1, <3>2, RequestIsRequest
    <3>4. a = [remote EXCEPT !.pairing = code]
      BY <2>1
    <3> HIDE DEF code
    <3>5. /\ a \in Remotes /\ a.pairing = code /\ a.busy = remote.busy /\ a.env = remote.env
          /\ a.status = remote.status /\ a.pairingGen = remote.pairingGen
          /\ a.devices = remote.devices
      BY <3>1, <3>3, <3>4 DEF Remotes
    <3> HIDE DEF a
    <3>6. Sound(a) /\ Current(a) /\ \A q : AwaitsDevices(a, q) => AwaitsDevices(remote, q)
      BY <3>1, <3>3, <3>5 DEF IInv, Sound, Current, AwaitsDevices, List, Page
    <3>7. QED
      BY <1>1, <1>2, <3>6, EndedKeepsInv
  <2>2. CASE ~(Linked /\ remote.env = reply.snapshot.env)
    <3>1. a = remote
      BY <2>2 DEF IInv, Sound, Remotes
    <3>2. QED
      BY <1>1, <1>2, <3>1, EndedKeepsInv DEF IInv
  <2>3. QED
    BY <2>1, <2>2
<1>3. CASE Ignored
  BY <1>1, <1>3, OperationsAreNoDevices, IgnoredKeepsInv
<1>4. QED
  BY <1>2, <1>3, Zenon DEF HearPairing

LEMMA HearCheckedKeeps == ASSUME IInv, HearChecked PROVE IInv'
<1> DEFINE a == IF reply.word = "claimed" THEN NoPairing(remote) ELSE remote
<1>1. Answered({"check"}, TRUE) /\ {"check"} \in SUBSET Operations
  BY DEF HearChecked, Operations
<1>2. Sound(a) /\ Current(a) /\ \A q : AwaitsDevices(a, q) => AwaitsDevices(remote, q)
  BY NoPairingIsSound DEF IInv
<1> HIDE DEF a
<1>3. CASE remote.busy = reply.of /\ Finish(a)
  BY <1>1, <1>2, <1>3, EndedKeepsInv
<1>4. CASE Ignored
  BY <1>1, <1>4, OperationsAreNoDevices, IgnoredKeepsInv
<1>5. QED
  BY <1>3, <1>4, Zenon DEF HearChecked, a

LEMMA HearPairingFailedKeeps == ASSUME IInv, HearPairingFailed PROVE IInv'
<1> DEFINE kinds == {"pair", "check"}
<1>1. Answered(kinds, FALSE) /\ kinds \in SUBSET Operations
  BY DEF HearPairingFailed, Operations
<1>2. /\ Sound(NoPairing(remote)) /\ Current(NoPairing(remote))
      /\ \A q : AwaitsDevices(NoPairing(remote), q) => AwaitsDevices(remote, q)
  BY NoPairingIsSound DEF IInv
<1>3. CASE remote.busy = reply.of /\ Finish(NoPairing(remote))
  BY <1>1, <1>2, <1>3, EndedKeepsInv
<1>4. CASE Ignored
  BY <1>1, <1>4, OperationsAreNoDevices, IgnoredKeepsInv
<1>5. QED
  BY <1>3, <1>4, Zenon DEF HearPairingFailed

LEMMA HearRevokedKeeps == ASSUME IInv, HearRevoked PROVE IInv'
<1> DEFINE device == <<reply.of.env, reply.of.device>>
           new == [remote.devices EXCEPT !.listed = @ \ {device}]
           a == [remote EXCEPT !.devices.listed = @ \ {device}]
<1>1. Answered({"revoke"}, TRUE) /\ {"revoke"} \in SUBSET Operations
  BY DEF HearRevoked, Operations
<1>2. remote \in Remotes /\ remote.devices \in Lists
  BY DEF IInv, Sound, Remotes
<1> HIDE DEF device
<1>3. /\ new \in Lists /\ new.listed = remote.devices.listed \ {device}
      /\ new.list = remote.devices.list /\ new.more = remote.devices.more
      /\ new.gen = remote.devices.gen /\ new.asked = remote.devices.asked
  BY <1>2 DEF Lists
<1>4. a = [remote EXCEPT !.devices = new]
  BY <1>2 DEF Remotes, Lists
<1> HIDE DEF new
<1>5. /\ a \in Remotes /\ a.devices = new /\ a.busy = remote.busy /\ a.env = remote.env
      /\ a.status = remote.status /\ a.pairingGen = remote.pairingGen
      /\ a.pairing = remote.pairing
  BY <1>2, <1>3, <1>4 DEF Remotes
<1> HIDE DEF a
<1>6. Sound(a) /\ Current(a) /\ \A q : AwaitsDevices(a, q) => AwaitsDevices(remote, q)
  BY <1>3, <1>5 DEF IInv, Sound, Current, AwaitsDevices, List, Page
<1>7. CASE remote.busy = reply.of /\ Finish(a)
  BY <1>1, <1>6, <1>7, EndedKeepsInv
<1>8. CASE Ignored
  BY <1>1, <1>8, OperationsAreNoDevices, IgnoredKeepsInv
<1>9. QED
  BY <1>7, <1>8, Zenon DEF HearRevoked, a, device

-----------------------------------------------------------------------------
(* What the reducer hears of devices.                                        *)

(* The devices that are waited for are expected.                             *)
LEMMA AwaitedIsExpected ==
    ASSUME IInv, NEW request, AwaitsDevices(remote, request)
    PROVE  Expected(request)
  BY DEF IInv, Sound, AwaitsDevices, List, Page, Request, Expected, Linked

(* Devices of the environment, of which no more are waited for.              *)
LEMMA ListedKeepsInv ==
    ASSUME IInv, NEW ok, Answered({"devices", "more"}, ok), Silent, Linked, NEW new \in Lists,
           remote' = [remote EXCEPT !.devices = new], new.more = FALSE,
           \A d \in new.listed : d[1] = remote.env,
           new.list = "loading" =>
               /\ remote.devices.list = "loading" /\ new.gen = remote.devices.gen
               /\ new.listed = {} /\ reply.of.kind = "more"
    PROVE  IInv'
<1>1. /\ Arrives("answer") /\ UNCHANGED <<connection, auth, policy>> /\ TypeOK /\ QueuesKept
      /\ Sound(remote) /\ Current(remote) /\ remote.env # None /\ UNCHANGED <<extras>>
      /\ reply.of.kind \in {"devices", "more"}
  BY SilentKeepsQueues DEF Answered, accountVars, IInv, Sound, Linked, Silent
<1>2. /\ remote' \in Remotes /\ remote'.devices = new /\ remote'.busy = remote.busy
      /\ remote'.env = remote.env /\ remote'.status = remote.status
      /\ remote'.pairingGen = remote.pairingGen /\ remote'.pairing = remote.pairing
  BY <1>1 DEF Sound, Remotes
<1>3. Sound(remote') /\ Current(remote')
  BY <1>1, <1>2 DEF Sound, Current
<1>4. ASSUME NEW q, Awaits(remote', q)
      PROVE  Awaits(remote, q) /\ q # reply.of
  <2>1. CASE q = remote'.busy /\ q # Idle
    BY <1>1, <1>2, <2>1 DEF Awaits, Sound, Operations, None
  <2>2. CASE q = List(remote') /\ remote'.devices.list = "loading"
    <3>1. q = List(remote) /\ remote.devices.list = "loading" /\ reply.of.kind = "more"
      BY <1>2, <2>2 DEF List
    <3>2. q.kind = "devices"
      BY <3>1 DEF List, Request
    <3>3. QED
      BY <3>1, <3>2 DEF Awaits, AwaitsDevices
  <2>3. QED
    BY <1>2, <1>4, <2>1, <2>2 DEF Awaits, AwaitsDevices
<1>5. QED
  BY <1>1, <1>3, <1>4, HeardKeepsInv DEF QueuesKept, TypeOK

LEMMA RefusedKeepsInv ==
    ASSUME IInv, NEW ok, Answered({"devices", "more"}, ok), ~Expected(reply.of), Ignored
    PROVE  IInv'
  BY AwaitedIsExpected, IgnoredKeepsInv

LEMMA HearDevicesKeeps == ASSUME IInv, HearDevices PROVE IInv'
<1> DEFINE old == remote.devices
           append == reply.of.kind = "more"
           page == {<<reply.of.env, d>> : d \in reply.page}
           listed == page \cup (IF append THEN old.listed ELSE {})
           stuck == append /\ (listed = old.listed \/ reply.next = old.asked)
           new == [gen |-> old.gen, list |-> "ready", listed |-> listed, more |-> FALSE,
                   asked |-> 0, cursor |-> IF stuck THEN 0 ELSE reply.next]
<1>1. Answered({"devices", "more"}, TRUE) /\ old \in Lists /\ Current(remote)
  BY DEF HearDevices, IInv, Sound, Remotes
<1>2. CASE Expected(reply.of) /\ remote' = [remote EXCEPT !.devices = new] /\ Silent
  <2>1. Linked /\ reply.of.env = remote.env /\ remote.env \in Environments
    BY <1>2 DEF Expected, Linked, IInv, Sound, Remotes
  <2>2. reply.page \subseteq Numbers /\ reply.next \in Numbers \cup {0}
    BY <1>1, ArrivalLeavesTheRest DEF Events, Answered
  <2>3. page \subseteq Environments \X Numbers /\ \A d \in page : d[1] = remote.env
    BY <2>1, <2>2
  <2>4. listed \subseteq Environments \X Numbers /\ \A d \in listed : d[1] = remote.env
    BY <1>1, <2>3 DEF Lists, Current
  <2> HIDE DEF listed, stuck
  <2>5. new \in Lists /\ new.more = FALSE /\ new.list = "ready" /\ new.listed = listed
    BY <1>1, <2>2, <2>4 DEF Lists
  <2> HIDE DEF new
  <2>6. QED
    BY <1>1, <1>2, <2>1, <2>4, <2>5, ListedKeepsInv
<1>3. CASE ~Expected(reply.of) /\ Ignored
  BY <1>1, <1>3, RefusedKeepsInv
<1>4. QED
  BY <1>2, <1>3, Zenon DEF HearDevices

LEMMA HearDevicesFailedKeeps == ASSUME IInv, HearDevicesFailed PROVE IInv'
<1> DEFINE old == remote.devices
           kept == [old EXCEPT !.more = FALSE, !.asked = 0]
           failed == [NoList(old.gen) EXCEPT !.list = "failed"]
           new == IF reply.of.kind = "more" THEN kept ELSE failed
<1>1. /\ Answered({"devices", "more"}, FALSE) /\ old \in Lists /\ Current(remote)
      /\ remote \in Remotes /\ (old.list = "loading" => old.listed = {})
  BY DEF HearDevicesFailed, IInv, Sound, Remotes
<1>2. CASE Expected(reply.of) /\ remote' = [remote EXCEPT !.devices = new] /\ Silent
  <2>1. /\ kept \in Lists /\ kept.more = FALSE /\ kept.listed = old.listed
        /\ kept.list = old.list /\ kept.gen = old.gen
    BY <1>1 DEF Lists
  <2>2. failed \in Lists /\ failed.more = FALSE /\ failed.listed = {} /\ failed.list = "failed"
    BY <1>1 DEF Lists, NoList
  <2> HIDE DEF kept, failed
  <2>3. /\ new \in Lists /\ new.more = FALSE /\ \A d \in new.listed : d[1] = remote.env
        /\ new.list = "loading" =>
               /\ old.list = "loading" /\ new.gen = old.gen
               /\ new.listed = {} /\ reply.of.kind = "more"
    <3>1. CASE reply.of.kind = "more"
      BY <1>1, <2>1, <3>1 DEF Current
    <3>2. CASE reply.of.kind # "more"
      BY <2>2, <3>2
    <3>3. QED
      BY <3>1, <3>2
  <2>4. Linked
    BY <1>2 DEF Expected
  <2> HIDE DEF new
  <2>5. QED
    BY <1>1, <1>2, <2>3, <2>4, ListedKeepsInv
<1>3. CASE ~Expected(reply.of) /\ Ignored
  BY <1>1, <1>3, RefusedKeepsInv
<1>4. QED
  BY <1>2, <1>3, Zenon DEF HearDevicesFailed

LEMMA ReducerStepKeeps == ASSUME IInv, Reducer PROVE IInv'
  BY HearConnectedKeeps, HearLostKeeps, HearSignInKeeps, HearProfilesKeeps, HearChangedKeeps,
     HearStatusKeeps, HearStatusFailedKeeps, HearMutationFailedKeeps, HearPairingKeeps,
     HearCheckedKeeps, HearPairingFailedKeeps, HearDevicesKeeps, HearDevicesFailedKeeps,
     HearRevokedKeeps DEF Reducer

-----------------------------------------------------------------------------
(* What the backend does: an effect leaves its answer, or is given up.       *)

LEMMA EventsAreEvents ==
    /\ Loss \in Events /\ Connected \in Events /\ Loss.kind = "lost" /\ Connected.kind = "connected"
    /\ \A word \in {"allowed", "forbidden", "failed"} :
           /\ Word("profiles", word) \in Events /\ Word("profiles", word).kind = "profiles"
           /\ Word("profiles", word).word = word
    /\ \A word \in {"accepted", "failed", "restartFailed"} :
           Word("signIn", word) \in Events /\ Word("signIn", word).kind = "signIn"
    /\ \A snapshot \in Snapshots :
           Changed(snapshot) \in Events /\ Changed(snapshot).kind = "changed"
<1>1. Idle \in Requests /\ Off \in Snapshots
  BY IdleIsRequest, StatusesAssumption DEF Off, Snapshots
<1>2. \A kind \in {"connected", "lost", "changed", "profiles", "signIn"} :
          /\ Event(kind, Idle, TRUE) \in Events /\ Event(kind, Idle, TRUE).kind = kind
  BY <1>1 DEF Event, Events, None
<1>3. /\ Loss \in Events /\ Connected \in Events /\ Loss.kind = "lost"
      /\ Connected.kind = "connected"
  BY <1>2 DEF Loss, Connected
<1>4. \A word \in {"allowed", "forbidden", "failed"} :
          /\ Word("profiles", word) \in Events /\ Word("profiles", word).kind = "profiles"
          /\ Word("profiles", word).word = word
  BY <1>2 DEF Word, Events
<1>5. \A word \in {"accepted", "failed", "restartFailed"} :
          Word("signIn", word) \in Events /\ Word("signIn", word).kind = "signIn"
  BY <1>2 DEF Word, Events
<1>6. \A snapshot \in Snapshots :
          Changed(snapshot) \in Events /\ Changed(snapshot).kind = "changed"
  BY <1>2 DEF Changed, Events
<1>7. QED
  BY <1>3, <1>4, <1>5, <1>6

LEMMA AnswersAreEvents ==
    ASSUME NEW request \in Requests, NEW ok \in BOOLEAN
    PROVE  /\ Answer(request, ok) \in Events /\ Answer(request, ok).kind = "answer"
           /\ Answer(request, ok).of = request
  BY StatusesAssumption DEF Answer, Event, Events, Off, Snapshots, None

(* What the backend has done with its queues.                                *)
Delivered ==
    /\ commands' \in Seq(Requests) /\ unheard' \subseteq Requests /\ extras' \in 0..MaxExtras
    /\ events' \in Seq(Events)
    /\ \A i \in DOMAIN events' : events'[i].kind = "profiles" =>
           events'[i].word \in {"allowed", "forbidden", "failed"}
    /\ \A q : Awaits(remote, q) /\ UnderWay(q) => UnderWay(q)'

LEMMA DeliveredKeepsInv ==
    ASSUME IInv, Delivered, UNCHANGED notBackend, server' \in Snapshots, link' \in BOOLEAN,
           notices' \in Seq(Events), \A i \in DOMAIN notices' : notices'[i].kind = "changed"
    PROVE  IInv'
<1>1. UNCHANGED <<lossPending, connection, auth, policy, remote, requests>>
  BY DEF notBackend, accountVars
<1>2. TypeOK'
  BY <1>1 DEF IInv, TypeOK, Delivered, Linked
<1>3. QED
  BY <1>1, <1>2 DEF IInv, Delivered

LEMMA AwaitedKinds ==
    ASSUME IInv, NEW q, Awaits(remote, q)
    PROVE  q.kind \notin {"profiles", "signIn"}
  BY DevicesAreNoOperation DEF IInv, Awaits, Sound, Operations, None

(* An action put into the event queue, in place of what was the effect.      *)
LEMMA PutDelivers ==
    ASSUME IInv, commands # <<>>, commands' = Tail(commands), NEW action \in Events, Put(action),
           extras' \in 0..MaxExtras,
           \/ action.kind = "answer" /\ action.of = effect
           \/ effect.kind \in {"profiles", "signIn"},
           action.kind = "profiles" => action.word \in {"allowed", "forbidden", "failed"}
    PROVE  Delivered
<1>1. commands \in Seq(Requests) /\ events \in Seq(Events) /\ unheard' = unheard
      /\ events' = Append(events, action) /\ unheard \subseteq Requests
      /\ \A i \in DOMAIN events : events[i].kind = "profiles" =>
             events[i].word \in {"allowed", "forbidden", "failed"}
  BY DEF IInv, TypeOK, Put
<1>2. /\ commands' \in Seq(Requests)
      /\ \A i \in DOMAIN commands :
             commands[i] = effect \/ (i - 1 \in DOMAIN commands' /\ commands'[i - 1] = commands[i])
  BY <1>1, TailDrops DEF effect
<1>3. /\ events' \in Seq(Events)
      /\ \A i \in DOMAIN events : i \in DOMAIN events' /\ events'[i] = events[i]
      /\ \A i \in DOMAIN events' :
             (i \in DOMAIN events /\ events'[i] = events[i]) \/ events'[i] = action
      /\ \E i \in DOMAIN events' : events'[i] = action
  BY <1>1, AppendAdds
<1> HIDE DEF effect
<1>4. \A i \in DOMAIN events' : events'[i].kind = "profiles" =>
             events'[i].word \in {"allowed", "forbidden", "failed"}
  BY <1>1, <1>3
<1>5. ASSUME NEW q, Awaits(remote, q), UnderWay(q)
      PROVE  UnderWay(q)'
  <2>1. q # effect \/ (action.kind = "answer" /\ action.of = effect)
    BY <1>5, AwaitedKinds
  <2>2. CASE Queued(q)
    <3>1. CASE q = effect
      <4>1. PICK j \in DOMAIN events' : events'[j] = action
        BY <1>3
      <4>2. action.kind = "answer" /\ action.of = q
        BY <2>1, <3>1
      <4> QED
        BY <4>1, <4>2 DEF Replied, UnderWay
    <3>2. CASE q \in unheard
      BY <1>1, <3>2 DEF Queued, UnderWay
    <3>3. ASSUME NEW i \in DOMAIN commands, commands[i] = q, q # effect
          PROVE  UnderWay(q)'
      <4>1. i - 1 \in DOMAIN commands' /\ commands'[i - 1] = q
        BY <1>2, <3>3
      <4> QED
        BY <4>1 DEF Queued, UnderWay
    <3> QED
      BY <2>2, <3>1, <3>2, <3>3 DEF Queued
  <2>3. CASE Replied(q)
    BY <1>3, <2>3 DEF Replied, UnderWay
  <2>4. QED
    BY <1>5, <2>2, <2>3, WaysOfRequests
<1>6. QED
  BY <1>1, <1>2, <1>3, <1>4, <1>5 DEF Delivered

(* An answer that finds no room is put down as lost.                         *)
LEMMA LostDelivers ==
    ASSUME IInv, commands # <<>>, commands' = Tail(commands), Lost(effect)
    PROVE  Delivered
<1>1. commands \in Seq(Requests) /\ unheard' = unheard \cup {effect} /\ UNCHANGED events
      /\ unheard \subseteq Requests /\ events \in Seq(Events) /\ extras' \in 0..MaxExtras
      /\ \A i \in DOMAIN events : events[i].kind = "profiles" =>
             events[i].word \in {"allowed", "forbidden", "failed"}
  <2>1. extras \in 0..MaxExtras /\ MaxExtras \in Nat
    BY BoundsAssumption DEF IInv, TypeOK
  <2>2. extras' \in 0..MaxExtras
    BY <2>1 DEF Lost, Counted
  <2>3. QED
    BY <2>2 DEF IInv, TypeOK, Lost
<1>2. /\ commands' \in Seq(Requests) /\ effect \in Requests
      /\ \A i \in DOMAIN commands :
             commands[i] = effect \/ (i - 1 \in DOMAIN commands' /\ commands'[i - 1] = commands[i])
  BY <1>1, TailDrops DEF effect
<1> HIDE DEF effect
<1>3. ASSUME NEW q, UnderWay(q)
      PROVE  UnderWay(q)'
  BY <1>1, <1>2, <1>3 DEF UnderWay
<1>4. QED
  BY <1>1, <1>2, <1>3 DEF Delivered

LEMMA EmittedDelivers ==
    ASSUME IInv, commands # <<>>, commands' = Tail(commands), NEW action \in Events,
           Emitted(action),
           \/ action.kind = "answer" /\ action.of = effect
           \/ effect.kind \in {"profiles", "signIn"},
           action.kind = "profiles" => action.word \in {"allowed", "forbidden", "failed"}
    PROVE  Delivered
<1>1. CASE Put(action) /\ Uncounted
  BY <1>1, PutDelivers DEF Uncounted, IInv, TypeOK
<1>2. CASE Lost(effect)
  BY <1>2, LostDelivers
<1>3. QED
  BY <1>1, <1>2, Zenon DEF Emitted

(* What a request is answered with.                                          *)
LEMMA EffectIsAnswered ==
    ASSUME IInv, commands # <<>>
    PROVE  /\ effect \in Requests
           /\ \A ok \in BOOLEAN : /\ Answer(effect, ok) \in Events
                                  /\ Answer(effect, ok).kind = "answer"
                                  /\ Answer(effect, ok).of = effect
           /\ \A snapshot \in Snapshots : LET action == [Success EXCEPT !.snapshot = snapshot]
                  IN  action \in Events /\ action.kind = "answer" /\ action.of = effect
           /\ \A word \in {"claimed", "unclaimed"} :
                  LET action == [Success EXCEPT !.word = word]
                  IN  action \in Events /\ action.kind = "answer" /\ action.of = effect
           /\ \A page \in SUBSET Numbers, next \in Numbers \cup {0} :
                  LET action == [Success EXCEPT !.page = page, !.next = next]
                  IN  action \in Events /\ action.kind = "answer" /\ action.of = effect
<1>1. effect \in Requests
  BY TailDrops DEF IInv, TypeOK, effect
<1>2. \A ok \in BOOLEAN : /\ Answer(effect, ok) \in Events
                          /\ Answer(effect, ok).kind = "answer" /\ Answer(effect, ok).of = effect
  BY <1>1, AnswersAreEvents
<1>3. Success \in Events /\ Success.kind = "answer" /\ Success.of = effect
  BY <1>2 DEF Success
<1> HIDE DEF Success, effect
<1>4. \A snapshot \in Snapshots : LET action == [Success EXCEPT !.snapshot = snapshot]
          IN  action \in Events /\ action.kind = "answer" /\ action.of = effect
  BY <1>3 DEF Events
<1>5. \A word \in {"claimed", "unclaimed"} : LET action == [Success EXCEPT !.word = word]
          IN  action \in Events /\ action.kind = "answer" /\ action.of = effect
  BY <1>3 DEF Events
<1>6. ASSUME NEW page \in SUBSET Numbers, NEW next \in Numbers \cup {0}
      PROVE  LET action == [Success EXCEPT !.page = page, !.next = next]
             IN  action \in Events /\ action.kind = "answer" /\ action.of = effect
  <2> DEFINE first == [Success EXCEPT !.page = page]
  <2>1. first \in Events /\ first.kind = "answer" /\ first.of = effect
    BY <1>3 DEF Events
  <2>2. QED
    BY <2>1 DEF Events
<1>7. QED
  BY <1>1, <1>2, <1>4, <1>5, <1>6

LEMMA FailureIsEvent ==
    ASSUME IInv, commands # <<>>
    PROVE  /\ Failure \in Events
           /\ Failure.kind = "profiles" => Failure.word \in {"allowed", "forbidden", "failed"}
           /\ \/ Failure.kind = "answer" /\ Failure.of = effect
              \/ effect.kind \in {"profiles", "signIn"}
  BY EffectIsAnswered, EventsAreEvents DEF Failure

(* A change of the status leaves a notice.                                   *)
LEMMA BecomesIsTold ==
    ASSUME IInv, NEW snapshot \in Snapshots, Becomes(snapshot)
    PROVE  /\ server' \in Snapshots /\ link' \in BOOLEAN /\ notices' \in Seq(Events)
           /\ \A i \in DOMAIN notices' : notices'[i].kind = "changed"
<1>1. notices \in Seq(Events) /\ \A i \in DOMAIN notices : notices[i].kind = "changed"
  BY DEF IInv, TypeOK
<1>2. Changed(snapshot) \in Events /\ Changed(snapshot).kind = "changed"
  BY EventsAreEvents
<1>3. server' \in Snapshots /\ link' \in BOOLEAN
  BY DEF Becomes, IInv, TypeOK
<1>4. CASE notices' = Append(notices, Changed(snapshot))
  <2>1. /\ notices' \in Seq(Events)
        /\ \A i \in DOMAIN notices' : (i \in DOMAIN notices /\ notices'[i] = notices[i])
                                       \/ notices'[i] = Changed(snapshot)
    BY <1>1, <1>2, <1>4, AppendAdds
  <2>2. QED
    BY <1>1, <1>2, <1>3, <2>1
<1>5. CASE notices' = notices
  BY <1>1, <1>3, <1>5
<1>6. QED
  BY <1>4, <1>5 DEF Becomes

(* The effect is answered, and nothing is said of the status.                *)
LEMMA AnsweredKeepsInv ==
    ASSUME IInv, commands # <<>>, commands' = Tail(commands), NEW action \in Events,
           Emitted(action), UNCHANGED <<notBackend, backendVars>>,
           \/ action.kind = "answer" /\ action.of = effect
           \/ effect.kind \in {"profiles", "signIn"},
           action.kind = "profiles" => action.word \in {"allowed", "forbidden", "failed"}
    PROVE  IInv'
<1>1. Delivered
  BY EmittedDelivers
<1>2. /\ server' \in Snapshots /\ link' \in BOOLEAN /\ notices' \in Seq(Events)
      /\ \A i \in DOMAIN notices' : notices'[i].kind = "changed"
  BY DEF backendVars, IInv, TypeOK
<1>3. QED
  BY <1>1, <1>2, DeliveredKeepsInv

LEMMA RunOfflineKeeps == ASSUME IInv, RunOffline PROVE IInv'
<1> DEFINE action == IF effect.kind = "profiles" THEN Loss ELSE Failure
<1>1. /\ commands # <<>> /\ commands' = Tail(commands) /\ Emitted(action)
      /\ UNCHANGED <<notBackend, backendVars>>
  BY DEF RunOffline, Takes
<1>2. /\ action \in Events
      /\ \/ action.kind = "answer" /\ action.of = effect
         \/ effect.kind \in {"profiles", "signIn"}
      /\ action.kind = "profiles" => action.word \in {"allowed", "forbidden", "failed"}
  BY <1>1, EventsAreEvents, FailureIsEvent
<1> HIDE DEF action
<1>3. QED
  BY <1>1, <1>2, AnsweredKeepsInv

LEMMA RunFailsKeeps == ASSUME IInv, RunFails PROVE IInv'
<1>1. /\ commands # <<>> /\ commands' = Tail(commands) /\ Put(Failure) /\ Counted
      /\ UNCHANGED notBackend
  BY DEF RunFails, Takes
<1>2. extras' \in 0..MaxExtras
  <2>1. extras \in 0..MaxExtras /\ MaxExtras \in Nat
    BY BoundsAssumption DEF IInv, TypeOK
  <2>2. QED
    BY <1>1, <2>1 DEF Counted
<1>3. Delivered
  BY <1>1, <1>2, FailureIsEvent, PutDelivers
<1>4. /\ server' \in Snapshots /\ link' \in BOOLEAN /\ notices' \in Seq(Events)
      /\ \A i \in DOMAIN notices' : notices'[i].kind = "changed"
  <2>1. CASE UNCHANGED backendVars
    BY <2>1 DEF backendVars, IInv, TypeOK
  <2>2. CASE \E snapshot \in Snapshots : Becomes(snapshot)
    BY <2>2, BecomesIsTold
  <2>3. QED
    BY <2>1, <2>2, Zenon DEF RunFails
<1>5. QED
  BY <1>1, <1>3, <1>4, DeliveredKeepsInv

LEMMA RunStatusKeeps == ASSUME IInv, RunStatus PROVE IInv'
<1> DEFINE action == [Success EXCEPT !.snapshot = server]
<1>1. /\ commands # <<>> /\ commands' = Tail(commands) /\ Emitted(action)
      /\ UNCHANGED <<notBackend, backendVars>>
  BY DEF RunStatus, Takes
<1>2. action \in Events /\ action.kind = "answer" /\ action.of = effect
  BY <1>1, EffectIsAnswered DEF IInv, TypeOK
<1> HIDE DEF action
<1>3. QED
  BY <1>1, <1>2, AnsweredKeepsInv

LEMMA RunSwitchKeeps == ASSUME IInv, RunSwitch PROVE IInv'
<1>1. PICK snapshot \in Snapshots :
          Becomes(snapshot) /\ Emitted([Success EXCEPT !.snapshot = snapshot])
  BY StatusesAssumption DEF RunSwitch, Off, Snapshots
<1> DEFINE action == [Success EXCEPT !.snapshot = snapshot]
<1>2. commands # <<>> /\ commands' = Tail(commands) /\ UNCHANGED notBackend /\ Emitted(action)
  BY <1>1 DEF RunSwitch, Takes
<1>3. action \in Events /\ action.kind = "answer" /\ action.of = effect
  BY <1>2, EffectIsAnswered
<1> HIDE DEF action
<1>4. Delivered
  BY <1>2, <1>3, EmittedDelivers
<1>5. QED
  BY <1>1, <1>2, <1>4, BecomesIsTold, DeliveredKeepsInv

LEMMA RunPairKeeps == ASSUME IInv, RunPair PROVE IInv'
<1> DEFINE action == IF server.env = None THEN Failure ELSE [Success EXCEPT !.snapshot = server]
<1>1. /\ commands # <<>> /\ commands' = Tail(commands) /\ Emitted(action)
      /\ UNCHANGED <<notBackend, backendVars>> /\ effect.kind = "pair"
  BY DEF RunPair, Takes
<1>2. action \in Events /\ action.kind = "answer" /\ action.of = effect
  BY <1>1, EffectIsAnswered, FailureIsEvent DEF IInv, TypeOK, Failure
<1> HIDE DEF action
<1>3. QED
  BY <1>1, <1>2, AnsweredKeepsInv

LEMMA RunCheckKeeps == ASSUME IInv, RunCheck PROVE IInv'
<1>1. PICK word \in {"claimed", "unclaimed"} : Emitted([Success EXCEPT !.word = word])
  BY DEF RunCheck
<1> DEFINE action == [Success EXCEPT !.word = word]
<1>2. /\ commands # <<>> /\ commands' = Tail(commands) /\ Emitted(action)
      /\ UNCHANGED <<notBackend, backendVars>>
  BY <1>1 DEF RunCheck, Takes
<1>3. action \in Events /\ action.kind = "answer" /\ action.of = effect
  BY <1>2, EffectIsAnswered
<1> HIDE DEF action
<1>4. QED
  BY <1>2, <1>3, AnsweredKeepsInv

LEMMA RunDevicesKeeps == ASSUME IInv, RunDevices PROVE IInv'
<1>1. PICK page \in SUBSET Numbers, next \in Numbers \cup {0} :
          Emitted([Success EXCEPT !.page = page, !.next = next])
  <2>1. PICK page \in {{}} \cup {{d} : d \in Numbers} : \E next \in {0} \cup page :
            Emitted([Success EXCEPT !.page = page, !.next = next])
    BY DEF RunDevices
  <2>2. page \in SUBSET Numbers
    BY <2>1
  <2>3. QED
    BY <2>1, <2>2
<1> DEFINE action == [Success EXCEPT !.page = page, !.next = next]
<1>2. /\ commands # <<>> /\ commands' = Tail(commands) /\ Emitted(action)
      /\ UNCHANGED <<notBackend, backendVars>>
  BY <1>1 DEF RunDevices, Takes
<1>3. action \in Events /\ action.kind = "answer" /\ action.of = effect
  BY <1>2, EffectIsAnswered
<1> HIDE DEF action
<1>4. QED
  BY <1>2, <1>3, AnsweredKeepsInv

LEMMA RunRevokeKeeps == ASSUME IInv, RunRevoke PROVE IInv'
<1>1. /\ commands # <<>> /\ commands' = Tail(commands) /\ Emitted(Success)
      /\ UNCHANGED <<notBackend, backendVars>>
  BY DEF RunRevoke, Takes
<1>2. Success \in Events /\ Success.kind = "answer" /\ Success.of = effect
  BY <1>1, EffectIsAnswered DEF Success
<1> HIDE DEF Success
<1>3. QED
  BY <1>1, <1>2, AnsweredKeepsInv

LEMMA RunProfilesKeeps == ASSUME IInv, RunProfiles PROVE IInv'
<1>1. PICK allowed \in {"allowed", "forbidden"} : Emitted(Word("profiles", allowed))
  BY DEF RunProfiles
<1> DEFINE action == Word("profiles", allowed)
<1>2. /\ commands # <<>> /\ commands' = Tail(commands) /\ Emitted(action)
      /\ UNCHANGED <<notBackend, backendVars>> /\ effect.kind = "profiles"
  BY <1>1 DEF RunProfiles, Takes
<1>3. action \in Events /\ action.word = allowed
  BY EventsAreEvents
<1> HIDE DEF action
<1>4. QED
  BY <1>2, <1>3, AnsweredKeepsInv

(* The new app-server is heard of at once, whether it could be reached.      *)
LEMMA RunSignInKeeps == ASSUME IInv, RunSignIn PROVE IInv'
<1>1. /\ commands # <<>> /\ commands' = Tail(commands) /\ UNCHANGED notBackend
      /\ effect.kind = "signIn" /\ TypeOK
  BY DEF RunSignIn, Takes, IInv
<1>2. CASE Put(Word("signIn", "failed")) /\ Uncounted /\ UNCHANGED backendVars
  <2>1. Word("signIn", "failed") \in Events /\ Word("signIn", "failed").kind = "signIn"
    BY EventsAreEvents
  <2>2. Delivered
    BY <1>1, <1>2, <2>1, PutDelivers DEF TypeOK, Uncounted
  <2>3. QED
    BY <1>1, <1>2, <2>2, DeliveredKeepsInv DEF backendVars, TypeOK
<1> DEFINE accepted == Word("signIn", "accepted")
           next == IF link' THEN Connected ELSE Word("signIn", "restartFailed")
<1>3. CASE /\ Counted /\ UNCHANGED unheard
           /\ notices' = <<>> /\ server' \in Snapshots /\ link' \in BOOLEAN
           /\ events' = events \o <<accepted, next>>
  <2>1. /\ accepted \in Events /\ next \in Events
        /\ accepted.kind # "profiles" /\ next.kind # "profiles"
    BY EventsAreEvents
  <2>2. extras' \in 0..MaxExtras
    BY <1>1, <1>3, BoundsAssumption DEF Counted, TypeOK
  <2>3. /\ commands' \in Seq(Requests)
        /\ \A i \in DOMAIN commands : commands[i] = effect
               \/ (i - 1 \in DOMAIN commands' /\ commands'[i - 1] = commands[i])
    BY <1>1, TailDrops DEF effect, TypeOK
  <2> HIDE DEF accepted, next, effect
  <2>4. /\ Append(events, accepted) \in Seq(Events)
        /\ events' = Append(Append(events, accepted), next)
    BY <1>1, <1>3, <2>1 DEF TypeOK
  <2>5. /\ \A i \in DOMAIN events : i \in DOMAIN Append(events, accepted)
                                   /\ Append(events, accepted)[i] = events[i]
        /\ \A i \in DOMAIN Append(events, accepted) :
               \/ i \in DOMAIN events /\ Append(events, accepted)[i] = events[i]
               \/ Append(events, accepted)[i] = accepted
    <3>1. events \in Seq(Events)
      BY <1>1 DEF TypeOK
    <3>2. QED
      BY <2>1, <3>1, AppendAdds
  <2>6. /\ events' \in Seq(Events)
        /\ \A i \in DOMAIN Append(events, accepted) :
               i \in DOMAIN events' /\ events'[i] = Append(events, accepted)[i]
        /\ \A i \in DOMAIN events' :
               \/ i \in DOMAIN Append(events, accepted) /\ events'[i] = Append(events, accepted)[i]
               \/ events'[i] = next
    BY <2>1, <2>4, AppendAdds
  <2>7. \A i \in DOMAIN events : i \in DOMAIN events' /\ events'[i] = events[i]
    BY <2>5, <2>6
  <2>8. \A i \in DOMAIN events' :
            \/ i \in DOMAIN events /\ events'[i] = events[i]
            \/ events'[i] \in {accepted, next}
    BY <2>5, <2>6
  <2>9. \A i \in DOMAIN events' : events'[i].kind = "profiles" =>
            events'[i].word \in {"allowed", "forbidden", "failed"}
    BY <1>1, <2>1, <2>8 DEF TypeOK
  <2>10. ASSUME NEW q, Awaits(remote, q), UnderWay(q)
         PROVE  UnderWay(q)'
    <3>1. q # effect
      BY <1>1, <2>10, AwaitedKinds
    <3>2. QED
      BY <1>3, <2>3, <2>7, <2>10, <3>1 DEF UnderWay
  <2>11. Delivered
    BY <1>1, <1>3, <2>2, <2>3, <2>6, <2>9, <2>10 DEF Delivered, TypeOK
  <2>12. notices' \in Seq(Events) /\ \A i \in DOMAIN notices' : notices'[i].kind = "changed"
    BY <1>3
  <2>13. QED
    BY <1>1, <1>3, <2>11, <2>12, DeliveredKeepsInv
<1>4. QED
  BY <1>2, <1>3, Zenon DEF RunSignIn

LEMMA RunNoticeKeeps == ASSUME IInv, RunNotice PROVE IInv'
<1>1. /\ notices # <<>> /\ notices' = Tail(notices) /\ events' = Append(events, Head(notices))
      /\ UNCHANGED <<notBackend, commands, server, link, unheard, extras>> /\ TypeOK
  BY DEF RunNotice, Put, Uncounted, IInv
<1>2. /\ notices' \in Seq(Events) /\ Head(notices) \in Events /\ 1 \in DOMAIN notices
      /\ Head(notices) = notices[1]
      /\ \A i \in DOMAIN notices' : i + 1 \in DOMAIN notices /\ notices'[i] = notices[i + 1]
  BY <1>1, TailDrops DEF TypeOK
<1>3. Head(notices).kind = "changed" /\ \A i \in DOMAIN notices' : notices'[i].kind = "changed"
  BY <1>1, <1>2 DEF TypeOK
<1>4. /\ events' \in Seq(Events)
      /\ \A i \in DOMAIN events : i \in DOMAIN events' /\ events'[i] = events[i]
      /\ \A i \in DOMAIN events' :
             (i \in DOMAIN events /\ events'[i] = events[i]) \/ events'[i] = Head(notices)
  <2> DEFINE a == Head(notices)
  <2>1. events \in Seq(Events) /\ a \in Events /\ events' = Append(events, a)
    BY <1>1, <1>2 DEF TypeOK
  <2> HIDE DEF a
  <2>2. /\ events' \in Seq(Events)
        /\ \A i \in DOMAIN events : i \in DOMAIN events' /\ events'[i] = events[i]
        /\ \A i \in DOMAIN events' :
               (i \in DOMAIN events /\ events'[i] = events[i]) \/ events'[i] = a
    BY <2>1, AppendAdds
  <2> QED
    BY <2>2 DEF a
<1>5. \A i \in DOMAIN events' : events'[i].kind = "profiles" =>
          events'[i].word \in {"allowed", "forbidden", "failed"}
  BY <1>1, <1>3, <1>4 DEF TypeOK
<1>6. \A q : UnderWay(q) => UnderWay(q)'
  BY <1>1, <1>4 DEF UnderWay
<1>7. Delivered
  BY <1>1, <1>4, <1>5, <1>6 DEF Delivered, TypeOK
<1>8. QED
  BY <1>1, <1>2, <1>3, <1>7, DeliveredKeepsInv DEF TypeOK

LEMMA BackendStepKeeps == ASSUME IInv, Backend PROVE IInv'
  BY RunOfflineKeeps, RunFailsKeeps, RunStatusKeeps, RunSwitchKeeps, RunPairKeeps, RunCheckKeeps,
     RunDevicesKeeps, RunRevokeKeeps, RunProfilesKeeps, RunSignInKeeps, RunNoticeKeeps
  DEF Backend

-----------------------------------------------------------------------------
(* What the rest of the world does: nothing of it takes an answer away.      *)

LEMMA WorldKeepsInv ==
    ASSUME IInv, UNCHANGED notWorld, server' \in Snapshots, link' \in BOOLEAN,
           lossPending' \in BOOLEAN, extras' \in 0..MaxExtras,
           connection' \in {"online", "connecting", "recovering", "failed"},
           notices' \in Seq(Events), \A i \in DOMAIN notices' : notices'[i].kind = "changed",
           NEW news \in Events, news.kind # "profiles",
           events' = events \/ events' = Append(events, news)
    PROVE  IInv'
<1>1. /\ events' \in Seq(Events)
      /\ \A i \in DOMAIN events : i \in DOMAIN events' /\ events'[i] = events[i]
      /\ \A i \in DOMAIN events' :
             (i \in DOMAIN events /\ events'[i] = events[i]) \/ events'[i] = news
  <2>1. events \in Seq(Events)
    BY DEF IInv, TypeOK
  <2>2. CASE events' = events
    BY <2>1, <2>2
  <2>3. CASE events' = Append(events, news)
    BY <2>1, <2>3, AppendAdds
  <2>4. QED
    BY <2>2, <2>3
<1>2. \A i \in DOMAIN events' : events'[i].kind = "profiles" =>
          events'[i].word \in {"allowed", "forbidden", "failed"}
  BY <1>1 DEF IInv, TypeOK
<1>3. UNCHANGED <<commands, auth, policy, remote, unheard, requests>>
  BY DEF notWorld
<1>4. TypeOK'
  BY <1>1, <1>2, <1>3 DEF IInv, TypeOK, Linked
<1>5. \A q : UnderWay(q) => UnderWay(q)'
  BY <1>1, <1>3 DEF UnderWay
<1>6. QED
  BY <1>3, <1>4, <1>5 DEF IInv

LEMMA CountedIsBounded == ASSUME TypeOK, Counted PROVE extras' \in 0..MaxExtras
  BY BoundsAssumption DEF TypeOK, Counted

LEMMA WorldStepKeeps == ASSUME IInv, ServerChanges \/ Lose \/ Reconnect PROVE IInv'
<1>1. TypeOK /\ Loss \in Events /\ Connected \in Events
      /\ Loss.kind # "profiles" /\ Connected.kind # "profiles"
  BY EventsAreEvents DEF IInv
<1>2. CASE ServerChanges
  <2>1. /\ server' \in Snapshots /\ link' \in BOOLEAN /\ notices' \in Seq(Events)
        /\ \A i \in DOMAIN notices' : notices'[i].kind = "changed"
    BY <1>2, BecomesIsTold DEF ServerChanges
  <2>2. UNCHANGED <<notWorld, events, lossPending, connection>> /\ extras' \in 0..MaxExtras
    BY <1>1, <1>2, CountedIsBounded DEF ServerChanges
  <2>3. QED
    BY <1>1, <2>1, <2>2, WorldKeepsInv DEF TypeOK
<1>3. CASE Lose
  <2>1. /\ UNCHANGED <<notWorld, server, connection>> /\ extras' \in 0..MaxExtras
        /\ link' = FALSE /\ lossPending' \in BOOLEAN
        /\ events' = events \/ events' = Append(events, Loss)
    BY <1>1, <1>3, CountedIsBounded DEF Lose, TypeOK
  <2>2. notices' \in Seq(Events) /\ \A i \in DOMAIN notices' : notices'[i].kind = "changed"
    BY <1>3 DEF Lose
  <2>3. QED
    BY <1>1, <2>1, <2>2, WorldKeepsInv DEF TypeOK
<1>4. CASE Reconnect
  <2>1. /\ UNCHANGED <<notWorld, notices, lossPending, extras>> /\ server' \in Snapshots
        /\ link' = TRUE /\ events' = Append(events, Connected)
        /\ connection' \in {"online", "connecting", "recovering", "failed"}
    BY <1>1, <1>4 DEF Reconnect, TypeOK
  <2>2. QED
    BY <1>1, <2>1, WorldKeepsInv DEF TypeOK
<1>5. QED
  BY <1>2, <1>3, <1>4

-----------------------------------------------------------------------------
(* The theorems. *)

LEMMA InitIsSound == Init => IInv
<1> SUFFICES ASSUME Init PROVE IInv
  OBVIOUS
<1>1. NoList(0) \in Lists /\ NoList(0).list = "idle" /\ NoList(0).listed = {}
      /\ NoList(0).more = FALSE
  BY DEF NoList, Lists
<1>2. remote \in Remotes /\ remote.status = "disabled" /\ remote.env = None
      /\ remote.busy = Idle /\ remote.pairing = Idle /\ remote.devices = NoList(0)
  BY <1>1, IdleIsRequest DEF Init, Remotes
<1>3. Sound(remote) /\ Current(remote) /\ \A q : ~Awaits(remote, q)
  BY <1>1, <1>2, IdleIsRequest DEF Sound, Current, Awaits, AwaitsDevices, Operations
<1>4. events \in Seq(Events) /\ \A i \in DOMAIN events : events[i].kind = "connected"
  BY EventsAreEvents DEF Init
<1>5. TypeOK
  <2>1. /\ server \in Snapshots /\ link \in BOOLEAN /\ lossPending \in BOOLEAN
        /\ notices = <<>> /\ commands = <<>> /\ unheard = {}
        /\ connection = "connecting" /\ auth = "idle" /\ policy = "loading"
        /\ requests = 0 /\ extras = 0
    BY DEF Init
  <2>2. MaxRequests \in Nat /\ MaxExtras \in Nat
    BY BoundsAssumption
  <2>3. \A i \in DOMAIN events : events[i].kind = "profiles" =>
            events[i].word \in {"allowed", "forbidden", "failed"}
    BY <1>4
  <2>4. QED
    BY <1>2, <1>4, <2>1, <2>2, <2>3 DEF TypeOK, Linked
<1>6. QED
  BY <1>3, <1>5 DEF IInv

LEMMA StepIsSound == IInv /\ [Next]_vars => IInv'
<1>1. ASSUME IInv, UNCHANGED vars PROVE IInv'
  BY <1>1 DEF vars, backendVars, accountVars, IInv, TypeOK, Linked, UnderWay
<1>2. QED
  BY <1>1, UserStepKeeps, ReducerStepKeeps, BackendStepKeeps, WorldStepKeeps DEF Next

LEMMA Invariant == Spec => []IInv
  BY InitIsSound, StepIsSound, PTL DEF Spec

(* Remote Control keeps its types: an environment is known exactly while the *)
(* status is connected.                                                      *)
THEOREM TypesHold == Spec => []TypeOK
<1>1. IInv => TypeOK
  BY DEF IInv
<1>2. QED
  BY <1>1, Invariant, PTL

(* The page is not busy, nor loading devices, with a request that neither    *)
(* waits nor has been lost: every answer that is waited for is heard.        *)
THEOREM BusyHolds == Spec => []BusyIsReal
<1>1. IInv => BusyIsReal
  BY DEF IInv, BusyIsReal, Awaits, AwaitsDevices, List, Page
<1>2. QED
  BY <1>1, Invariant, PTL

(* A code and the devices that are shown are those of the environment, under *)
(* whatever order of answers, changes and losses.                            *)
THEOREM ShownHolds == Spec => []ShownIsCurrent
<1>1. IInv => ShownIsCurrent
  BY DEF IInv, Sound, Current, ShownIsCurrent, Linked
<1>2. QED
  BY <1>1, Invariant, PTL

-----------------------------------------------------------------------------
(* The status of the page is that of the app-server, or will be: what comes  *)
(* after the last thing the reducer has heard of it is on the way, or the    *)
(* page will ask, or asks, once more.                                        *)

(* What tells the reducer a status, and what will make it ask or know again. *)
Bears(event) ==
    \/ event.kind = "changed"
    \/ event.kind = "answer" /\ event.ok /\ event.of.kind \in {"status", "enable", "disable"}
Coming == notices # <<>> \/ \E i \in DOMAIN events : events[i].kind \in {"changed", "connected"}
Overtaken(i) == \E j \in DOMAIN events : j > i /\ events[j].kind \in {"changed", "connected"}

Status(r) == Snapshot(r.status, r.env)
Right(r) == Status(r) \in {server, Snapshot("errored", None)}
Asking(r) == r.pending \/ r.busy.kind = "status"

(* The last notice, and the last status on the way to the reducer, is the    *)
(* one the app-server has.                                                   *)
NoticesAreTrue == notices # <<>> => link /\ notices[Len(notices)].snapshot = server
EventsAreTrue ==
    link /\ notices = <<>> =>
        \A i \in DOMAIN events :
            Bears(events[i]) => events[i].snapshot = server \/ Overtaken(i)

(* So the page is right, or will be.                                         *)
WillBeRight == link /\ Online /\ Permitted => Right(remote) \/ Coming \/ Asking(remote)

(* A refresh is put off only by an operation, and its answer is accepted.    *)
Tuned(r) == r.busy.kind = "status" => r.busy.generation = r.statusGen
PutOff == Online /\ Permitted /\ remote.pending => remote.busy # Idle

TInv == IInv /\ NoticesAreTrue /\ EventsAreTrue /\ WillBeRight /\ PutOff /\ Tuned(remote)

(* What the page shows as its status and waits for.                          *)
Same(new, r) ==
    /\ new.status = r.status /\ new.env = r.env
    /\ new.busy = r.busy /\ new.pending = r.pending /\ new.statusGen = r.statusGen

LEMMA NoPairingIsSame ==
    ASSUME NEW r \in Remotes
    PROVE  NoPairing(r) \in Remotes /\ Same(NoPairing(r), r)
<1> DEFINE g == [r EXCEPT !.pairingGen = @ + 1]
           h == [g EXCEPT !.pairing = Idle]
<1>1. g \in Remotes /\ Same(g, r)
  BY DEF Remotes, Same
<1>2. h \in Remotes /\ Same(h, r)
  BY <1>1, IdleIsRequest DEF Remotes, Same
<1>3. QED
  BY <1>2, Zenon DEF NoPairing

LEMMA NoDevicesIsSame ==
    ASSUME NEW r \in Remotes
    PROVE  NoDevices(r) \in Remotes /\ Same(NoDevices(r), r)
<1>1. NoList(r.devices.gen + 1) \in Lists
  BY NoListIsList DEF Remotes, Lists
<1>2. QED
  BY <1>1 DEF NoDevices, Remotes, Same

LEMMA ShownIsStatus ==
    ASSUME NEW r \in Remotes, NEW s \in Snapshots
    PROVE  /\ Status(Shown(r, s)) = s /\ Shown(r, s).busy = r.busy
           /\ Shown(r, s).pending = r.pending /\ Shown(r, s).statusGen = r.statusGen
<1> DEFINE a == [r EXCEPT !.status = s.status]
           b == [a EXCEPT !.env = s.env]
<1>1. a \in Remotes /\ a.status = s.status
  BY SnapshotsAreShown DEF Remotes
<1>2. b \in Remotes /\ b.status = s.status /\ b.env = s.env
  BY <1>1, SnapshotsAreShown DEF Remotes
<1>3. b.busy = r.busy /\ b.pending = r.pending /\ b.statusGen = r.statusGen
  BY DEF Remotes
<1>4. s = Snapshot(s.status, s.env)
  BY DEF Snapshots, Snapshot
<1> HIDE DEF b
<1>5. Shown(r, s) = IF s.status # "connected" \/ s.env # r.env
                    THEN NoDevices(NoPairing(b)) ELSE b
  BY Zenon DEF Shown, b
<1>6. Same(Shown(r, s), b)
  BY <1>2, <1>5, NoPairingIsSame, NoDevicesIsSame DEF Same
<1>7. QED
  BY <1>2, <1>3, <1>4, <1>6 DEF Same, Status

(* begin_remote_status_refresh asks, or leaves word for the operation.       *)
LEMMA BeginAsks ==
    ASSUME NEW r \in Remotes, NEW permitted \in BOOLEAN, Begin(r, permitted)
    PROVE  /\ remote'.status = r.status /\ remote'.env = r.env
           /\ permitted /\ Online => Asking(remote') /\ remote'.busy # Idle
           /\ Tuned(r) => Tuned(remote')
           /\ ~(permitted /\ Online) => remote' = r
<1> DEFINE request == Request("status", r.statusGen + 1, None, 0)
           a == [r EXCEPT !.statusGen = @ + 1]
           b == [a EXCEPT !.busy = request]
           c == [b EXCEPT !.pending = FALSE]
<1>1. CASE (~permitted \/ ~Online) /\ remote' = r
  BY <1>1
<1>2. CASE permitted /\ Online /\ r.busy # Idle /\ remote' = [r EXCEPT !.pending = TRUE]
  <2>1. /\ remote'.status = r.status /\ remote'.env = r.env /\ remote'.busy = r.busy
        /\ remote'.pending /\ remote'.statusGen = r.statusGen
    BY <1>2 DEF Remotes
  <2>2. QED
    BY <1>2, <2>1 DEF Asking, Tuned
<1>3. CASE permitted /\ Online /\ remote' = c
  <2>1. /\ request \in Requests /\ request.kind = "status" /\ request # Idle
        /\ request.generation = r.statusGen + 1
    BY RequestIsRequest DEF Remotes
  <2>2. /\ a \in Remotes /\ a.status = r.status /\ a.env = r.env
        /\ a.statusGen = r.statusGen + 1
    BY DEF Remotes
  <2> HIDE DEF request, a
  <2>3. /\ b \in Remotes /\ b.status = r.status /\ b.env = r.env /\ b.busy = request
        /\ b.statusGen = r.statusGen + 1
    BY <2>1, <2>2 DEF Remotes
  <2> HIDE DEF b
  <2>4. /\ c.status = r.status /\ c.env = r.env /\ c.busy = request
        /\ c.statusGen = r.statusGen + 1
    BY <2>3 DEF Remotes
  <2> HIDE DEF c
  <2>5. QED
    BY <1>3, <2>1, <2>4 DEF Asking, Tuned
<1>4. QED
  BY <1>1, <1>2, <1>3, Zenon DEF Begin

(* An operation that ends asks for what it has put off.                      *)
LEMMA FinishAsks ==
    ASSUME NEW r \in Remotes, Finish(r)
    PROVE  /\ remote'.status = r.status /\ remote'.env = r.env
           /\ Online /\ Permitted /\ r.pending => Asking(remote') /\ remote'.busy # Idle
           /\ Online /\ Permitted /\ remote'.pending => remote'.busy # Idle
           /\ Tuned(remote')
<1> DEFINE idle == [r EXCEPT !.busy = Idle]
<1>1. /\ idle \in Remotes /\ idle.status = r.status /\ idle.env = r.env /\ idle.busy = Idle
      /\ idle.pending = r.pending
  BY IdleIsRequest DEF Remotes
<1>2. Tuned(idle)
  BY <1>1, IdleIsRequest DEF Tuned, None
<1> HIDE DEF idle
<1>3. CASE r.pending /\ Begin(idle, Permitted)
  <2>1. Permitted \in BOOLEAN
    BY DEF Permitted
  <2>2. QED
    BY <1>1, <1>2, <1>3, <2>1, BeginAsks
<1>4. CASE ~r.pending /\ remote' = idle
  BY <1>1, <1>2, <1>4
<1>5. QED
  BY <1>3, <1>4, Zenon DEF Finish, idle

(* What the user does leaves what is on the way as it is.                    *)
LEMMA UserKeepsTrue ==
    ASSUME TInv, IInv', UNCHANGED notUser, Tuned(remote'),
           remote'.status = remote.status, remote'.env = remote.env,
           Online /\ Permitted /\ Asking(remote) => Asking(remote'),
           Online /\ Permitted /\ remote'.pending => remote'.busy # Idle
    PROVE  TInv'
<1>1. UNCHANGED <<server, link, notices, events, connection, policy>>
  BY DEF notUser, backendVars, accountVars
<1>2. NoticesAreTrue' /\ EventsAreTrue'
  BY <1>1 DEF TInv, NoticesAreTrue, EventsAreTrue, Overtaken
<1>3. WillBeRight'
  BY <1>1 DEF TInv, WillBeRight, Right, Status, Coming, Online, Permitted, Asking
<1>4. PutOff'
  BY <1>1 DEF PutOff, Online, Permitted
<1>5. QED
  BY <1>2, <1>3, <1>4 DEF TInv

(* While an operation may begin, nothing has been put off.                   *)
LEMMA OperationKeepsTrue ==
    ASSUME TInv, IInv', Allowed, UNCHANGED notUser,
           remote'.status = remote.status, remote'.env = remote.env,
           remote'.pending = remote.pending, remote'.busy.kind # "status"
    PROVE  TInv'
<1>1. ~Asking(remote) /\ ~remote'.pending
  BY IdleIsRequest DEF TInv, Allowed, PutOff, Asking, None
<1>2. Tuned(remote')
  BY DEF Tuned
<1>3. QED
  BY <1>1, <1>2, UserKeepsTrue

LEMMA RefreshStatusKeepsTrue == ASSUME TInv, RefreshStatus PROVE TInv'
<1>1. /\ IInv' /\ UNCHANGED notUser /\ Begin(remote, Permitted) /\ remote \in Remotes
      /\ Permitted \in BOOLEAN /\ Tuned(remote)
  BY RefreshStatusKeeps DEF TInv, RefreshStatus, IInv, Sound, Permitted
<1>2. QED
  BY <1>1, BeginAsks, UserKeepsTrue

LEMMA SwitchKeepsTrue ==
    ASSUME TInv, NEW kind \in {"enable", "disable"}, Switch(kind)
    PROVE  TInv'
<1> DEFINE request == Request(kind, remote.mutationGen + 1, None, 0)
           b == [remote EXCEPT !.mutationGen = @ + 1, !.busy = request]
<1>1. IInv' /\ UNCHANGED notUser /\ Allowed /\ remote' = b /\ remote \in Remotes
  BY SwitchKeeps DEF TInv, Switch, IInv, Sound
<1>2. request.kind = kind
  BY DEF Request
<1> HIDE DEF request
<1>3. b.status = remote.status /\ b.env = remote.env /\ b.pending = remote.pending
      /\ b.busy = request
  BY <1>1 DEF Remotes
<1>4. QED
  BY <1>1, <1>2, <1>3, OperationKeepsTrue

LEMMA StartPairingKeepsTrue == ASSUME TInv, StartPairing PROVE TInv'
<1> DEFINE request == Request("pair", remote.pairingGen + 1, None, 0)
           a == NoPairing(remote)
           b == [a EXCEPT !.busy = request]
<1>1. IInv' /\ UNCHANGED notUser /\ Allowed /\ remote' = b /\ remote \in Remotes
  BY StartPairingKeeps DEF TInv, StartPairing, IInv, Sound
<1>2. request.kind = "pair" /\ a \in Remotes /\ Same(a, remote)
  BY <1>1, NoPairingIsSame DEF Request
<1> HIDE DEF request, a
<1>3. b.status = a.status /\ b.env = a.env /\ b.pending = a.pending /\ b.busy = request
  BY <1>2 DEF Remotes
<1>4. QED
  BY <1>1, <1>2, <1>3, OperationKeepsTrue DEF Same

LEMMA CheckPairingKeepsTrue == ASSUME TInv, CheckPairing PROVE TInv'
<1> DEFINE request == Request("check", remote.pairingGen, remote.env, 0)
           b == [remote EXCEPT !.busy = request]
<1>1. IInv' /\ UNCHANGED notUser /\ Allowed /\ remote' = b /\ remote \in Remotes
  BY CheckPairingKeeps DEF TInv, CheckPairing, IInv, Sound
<1>2. request.kind = "check"
  BY DEF Request
<1> HIDE DEF request
<1>3. b.status = remote.status /\ b.env = remote.env /\ b.pending = remote.pending
      /\ b.busy = request
  BY <1>1 DEF Remotes
<1>4. QED
  BY <1>1, <1>2, <1>3, OperationKeepsTrue

(* A pairing that is given up asks for what it has put off.                  *)
LEMMA ClosePairingKeepsTrue == ASSUME TInv, ClosePairing PROVE TInv'
<1> DEFINE a == NoPairing(remote)
<1>1. IInv' /\ UNCHANGED notUser /\ remote \in Remotes
  BY ClosePairingKeeps DEF TInv, ClosePairing, IInv, Sound
<1>2. a \in Remotes /\ Same(a, remote)
  BY <1>1, NoPairingIsSame
<1> HIDE DEF a
<1>3. CASE remote.busy.kind \in {"pair", "check"} /\ Finish(a)
  <2>1. Online /\ Permitted /\ Asking(remote) => Asking(remote')
    BY <1>2, <1>3, FinishAsks DEF Same, Asking
  <2>2. QED
    BY <1>1, <1>2, <1>3, <2>1, FinishAsks, UserKeepsTrue DEF Same
<1>4. CASE remote' = a
  BY <1>1, <1>2, <1>4, UserKeepsTrue DEF Same, Asking, Tuned, TInv, PutOff
<1>5. QED
  BY <1>3, <1>4, Zenon DEF ClosePairing, a

LEMMA RefreshDevicesKeepsTrue == ASSUME TInv, RefreshDevices PROVE TInv'
<1> DEFINE a == NoDevices(remote)
<1>1. /\ IInv' /\ UNCHANGED notUser /\ Allowed /\ remote' = [a EXCEPT !.devices.list = "loading"]
      /\ remote \in Remotes
  BY RefreshDevicesKeeps DEF TInv, RefreshDevices, IInv, Sound
<1>2. a \in Remotes /\ Same(a, remote)
  BY <1>1, NoDevicesIsSame
<1> HIDE DEF a
<1>3. /\ remote'.status = a.status /\ remote'.env = a.env /\ remote'.pending = a.pending
      /\ remote'.busy = a.busy
  BY <1>1, <1>2 DEF Remotes
<1>4. a.busy.kind # "status"
  BY <1>1, <1>2, IdleIsRequest DEF Same, Allowed, None
<1>5. QED
  BY <1>1, <1>2, <1>3, <1>4, OperationKeepsTrue DEF Same

LEMMA LoadMoreDevicesKeepsTrue == ASSUME TInv, LoadMoreDevices PROVE TInv'
<1>1. IInv' /\ UNCHANGED notUser /\ Allowed /\ remote \in Remotes
  BY LoadMoreDevicesKeeps DEF TInv, LoadMoreDevices, IInv, Sound
<1>2. /\ remote'.status = remote.status /\ remote'.env = remote.env
      /\ remote'.pending = remote.pending /\ remote'.busy = remote.busy
  BY <1>1 DEF LoadMoreDevices, Remotes
<1>3. remote.busy.kind # "status"
  BY <1>1, IdleIsRequest DEF Allowed, None
<1>4. QED
  BY <1>1, <1>2, <1>3, OperationKeepsTrue

LEMMA RevokeDeviceKeepsTrue == ASSUME TInv, NEW d \in Numbers, RevokeDevice(d) PROVE TInv'
<1> DEFINE request == Request("revoke", remote.mutationGen + 1, remote.env, d)
           a == Voided(remote, FALSE)
           b == [a EXCEPT !.mutationGen = @ + 1]
           c == [b EXCEPT !.busy = request]
<1>1. /\ IInv' /\ UNCHANGED notUser /\ Allowed /\ remote \in Remotes /\ remote.devices \in Lists
      /\ remote' = [Voided(remote, FALSE) EXCEPT !.mutationGen = @ + 1, !.busy = request]
  BY RevokeDeviceKeeps DEF TInv, RevokeDevice, IInv, Sound, Remotes
<1>2. request.kind = "revoke"
  BY DEF Request
<1>3. /\ a.status = remote.status /\ a.env = remote.env /\ a.pending = remote.pending
      /\ DOMAIN a = DOMAIN remote
  BY <1>1 DEF Voided, Remotes
<1>4. /\ {"status", "env", "pending", "busy", "mutationGen"} \subseteq DOMAIN a
  BY <1>1, <1>3 DEF Remotes
<1> HIDE DEF request, a
<1>5. /\ remote'.status = a.status /\ remote'.env = a.env /\ remote'.pending = a.pending
      /\ remote'.busy = request
  BY <1>1, <1>4 DEF a
<1>6. QED
  BY <1>1, <1>2, <1>3, <1>5, OperationKeepsTrue

LEMMA UserStepKeepsTrue == ASSUME TInv, User PROVE TInv'
<1>1. CASE SignIn
  <2>1. IInv' /\ UNCHANGED <<server, link, notices, events, connection, policy, remote>>
    BY <1>1, SignInKeeps DEF TInv, SignIn, backendVars
  <2>2. QED
    BY <2>1 DEF TInv, NoticesAreTrue, EventsAreTrue, Overtaken, WillBeRight, Right, Status, Coming,
                Online, Permitted, Asking, PutOff, Tuned
<1>2. CASE ReadProfilesAgain
  BY <1>2, ReadProfilesAgainKeeps, UserKeepsTrue DEF TInv, ReadProfilesAgain, PutOff
<1>3. QED
  BY <1>1, <1>2, RefreshStatusKeepsTrue, SwitchKeepsTrue, StartPairingKeepsTrue,
     CheckPairingKeepsTrue, ClosePairingKeepsTrue, RefreshDevicesKeepsTrue,
     LoadMoreDevicesKeepsTrue, RevokeDeviceKeepsTrue DEF User

(* What is heard is no longer on the way; the rest is as true as it was.     *)
LEMMA HeardLeavesNews ==
    ASSUME TInv, NEW kind, Arrives(kind)
    PROVE  /\ UNCHANGED <<server, link, notices>> /\ NoticesAreTrue' /\ EventsAreTrue'
           /\ Coming => Coming' \/ kind \in {"changed", "connected"}
           /\ link /\ Bears(reply) => reply.snapshot = server \/ Coming'
<1>1. /\ UNCHANGED <<server, link, notices>> /\ events \in Seq(Events) /\ events # <<>>
      /\ events' = Tail(events) /\ reply.kind = kind
  BY DEF Arrives, backendVars, TInv, IInv, TypeOK
<1>2. /\ 1 \in DOMAIN events /\ reply = events[1] /\ DOMAIN events = 1..Len(events)
      /\ Len(events) \in Nat
      /\ \A i \in DOMAIN events :
             events[i] = reply \/ (i - 1 \in DOMAIN events' /\ events'[i - 1] = events[i])
      /\ \A i \in DOMAIN events' : i + 1 \in DOMAIN events /\ events'[i] = events[i + 1]
  BY <1>1, TailDrops DEF reply
<1>3. \A i \in DOMAIN events : i > 1 => i - 1 \in DOMAIN events' /\ events'[i - 1] = events[i]
  BY <1>1
<1> HIDE DEF reply
<1>4. NoticesAreTrue'
  BY <1>1 DEF TInv, NoticesAreTrue
<1>5. Coming => Coming' \/ kind \in {"changed", "connected"}
  BY <1>1, <1>2 DEF Coming
<1>6. ASSUME link, notices = <<>>, NEW i \in DOMAIN events, Bears(events[i])
      PROVE  events[i].snapshot = server \/ Overtaken(i)
  BY <1>6 DEF TInv, EventsAreTrue
<1>7. link /\ Bears(reply) => reply.snapshot = server \/ Coming'
  BY <1>1, <1>2, <1>3, <1>6 DEF Coming, Overtaken
<1>8. ASSUME link', notices' = <<>>, NEW i \in DOMAIN events', Bears(events'[i])
      PROVE  events'[i].snapshot = server' \/ Overtaken(i)'
  <2>1. i + 1 \in DOMAIN events /\ events'[i] = events[i + 1] /\ i \in Nat
    BY <1>2
  <2>2. CASE events[i + 1].snapshot = server
    BY <1>1, <2>1, <2>2
  <2>3. CASE Overtaken(i + 1)
    <3>1. PICK j \in DOMAIN events : j > i + 1 /\ events[j].kind \in {"changed", "connected"}
      BY <2>3 DEF Overtaken
    <3>2. j - 1 \in DOMAIN events' /\ events'[j - 1] = events[j] /\ j - 1 > i
      BY <1>2, <1>3, <2>1, <3>1
    <3>3. QED
      BY <3>1, <3>2 DEF Overtaken
  <2>4. QED
    BY <1>1, <1>6, <1>8, <2>1, <2>2, <2>3
<1>9. EventsAreTrue'
  BY <1>8 DEF EventsAreTrue
<1>10. QED
  BY <1>1, <1>4, <1>5, <1>7, <1>9

LEMMA HeardKeepsTrue ==
    ASSUME TInv, IInv', NEW kind, Arrives(kind), Tuned(remote'),
           connection' = "online" /\ policy' = "allowed" =>
               /\ remote'.pending => remote'.busy # Idle
               /\ link => \/ Status(remote') \in {server, Snapshot("errored", None)}
                          \/ Coming' \/ Asking(remote')
    PROVE  TInv'
<1>1. UNCHANGED <<server, link, notices>> /\ NoticesAreTrue' /\ EventsAreTrue'
  BY HeardLeavesNews
<1>2. WillBeRight' /\ PutOff'
  BY <1>1 DEF WillBeRight, PutOff, Online, Permitted, Right, Status, Asking
<1>3. QED
  BY <1>1, <1>2 DEF TInv, Tuned

(* What changes nothing of the status, nor of what the page waits for.       *)
LEMMA SameKeepsTrue ==
    ASSUME TInv, IInv', NEW kind, Arrives(kind), kind \notin {"changed", "connected"},
           UNCHANGED <<connection, policy>>, Same(remote', remote)
    PROVE  TInv'
<1>1. Coming => Coming'
  BY HeardLeavesNews
<1>2. Tuned(remote')
  BY DEF TInv, Tuned, Same
<1>3. QED
  BY <1>1, <1>2, HeardKeepsTrue
     DEF TInv, PutOff, WillBeRight, Online, Permitted, Right, Status, Asking, Same

LEMMA HearConnectedKeepsTrue == ASSUME TInv, HearConnected PROVE TInv'
<1>1. IInv' /\ Arrives("connected") /\ policy' = "loading" /\ UNCHANGED remote
  BY HearConnectedKeeps DEF TInv, HearConnected
<1>2. QED
  BY <1>1, HeardKeepsTrue DEF TInv, Tuned

LEMMA ClearedIsTuned ==
    ASSUME NEW r, Sound(r)
    PROVE  Tuned(Cleared(r))
<1>1. Cleared(r).busy = Idle
  BY ClearedIsSound DEF Awaits
<1>2. QED
  BY <1>1, IdleIsRequest DEF Tuned, None

LEMMA HearLostKeepsTrue == ASSUME TInv, HearLost PROVE TInv'
<1>1. IInv' /\ connection' # "online" /\ Tuned(remote')
  BY HearLostKeeps, ClearedIsTuned DEF TInv, HearLost, Tuned, IInv
<1>2. CASE Arrives("lost")
  BY <1>1, <1>2, HeardKeepsTrue
<1>3. CASE UNCHANGED <<backendVars, events, requests>>
  <2>1. UNCHANGED <<server, link, notices, events>>
    BY <1>3 DEF backendVars
  <2>2. NoticesAreTrue' /\ EventsAreTrue'
    BY <2>1 DEF TInv, NoticesAreTrue, EventsAreTrue, Overtaken
  <2>3. QED
    BY <1>1, <2>2 DEF TInv, WillBeRight, PutOff, Online, Tuned
<1>4. QED
  BY <1>2, <1>3, Zenon DEF HearLost

LEMMA HearSignInKeepsTrue == ASSUME TInv, HearSignIn PROVE TInv'
<1>1. IInv' /\ Arrives("signIn") /\ UNCHANGED <<policy, remote>>
  BY HearSignInKeeps DEF TInv, HearSignIn
<1>2. CASE connection' # "online"
  BY <1>1, <1>2, HeardKeepsTrue DEF TInv, Tuned
<1>3. CASE connection' = connection
  BY <1>1, <1>3, SameKeepsTrue DEF Same
<1>4. QED
  BY <1>2, <1>3 DEF HearSignIn, accountVars

LEMMA HearProfilesKeepsTrue == ASSUME TInv, HearProfiles PROVE TInv'
<1>1. /\ IInv' /\ Arrives("profiles") /\ policy' = reply.word /\ UNCHANGED connection
      /\ remote \in Remotes /\ Sound(remote) /\ Tuned(remote)
  BY HearProfilesKeeps DEF TInv, HearProfiles, accountVars, IInv, Sound
<1>2. CASE Begin(remote, TRUE)
  BY <1>1, <1>2, BeginAsks, HeardKeepsTrue DEF Online
<1>3. CASE reply.word # "allowed" /\ remote' = Cleared(remote)
  BY <1>1, <1>3, ClearedIsTuned, HeardKeepsTrue
<1>4. QED
  BY <1>2, <1>3 DEF HearProfiles

(* A change is shown, or asked for once the operation has ended.             *)
LEMMA HearChangedKeepsTrue == ASSUME TInv, HearChanged PROVE TInv'
<1> DEFINE a == [remote EXCEPT !.statusGen = @ + 1]
<1>1. /\ IInv' /\ Arrives("changed") /\ UNCHANGED <<connection, policy>> /\ remote \in Remotes
      /\ Tuned(remote)
  BY HearChangedKeeps DEF TInv, HearChanged, accountVars, IInv, Sound
<1>2. reply.snapshot \in Snapshots /\ Bears(reply)
  BY <1>1, ArrivalLeavesTheRest DEF Events, TInv, Bears
<1>3. CASE (~Permitted \/ ~Online) /\ remote' = remote
  BY <1>1, <1>3, HeardKeepsTrue DEF Permitted, Online
<1>4. CASE remote.busy # Idle /\ remote' = [remote EXCEPT !.pending = TRUE]
  <2>1. remote'.busy = remote.busy /\ remote'.pending /\ remote'.statusGen = remote.statusGen
    BY <1>1, <1>4 DEF Remotes
  <2>2. QED
    BY <1>1, <1>4, <2>1, HeardKeepsTrue DEF Asking, Tuned
<1>5. CASE /\ Permitted /\ Online /\ remote.busy = Idle /\ remote' = Shown(a, reply.snapshot)
  <2>1. a \in Remotes /\ a.busy = remote.busy /\ a.pending = remote.pending
    BY <1>1 DEF Remotes
  <2> HIDE DEF a
  <2>2. Status(remote') = reply.snapshot /\ remote'.busy = Idle /\ remote'.pending = remote.pending
    BY <1>2, <1>5, <2>1, ShownIsStatus
  <2>3. ~remote.pending
    BY <1>5 DEF TInv, PutOff
  <2>4. Tuned(remote')
    BY <2>2, IdleIsRequest DEF Tuned, None
  <2>5. link => reply.snapshot = server \/ Coming'
    BY <1>1, <1>2, HeardLeavesNews
  <2>6. QED
    BY <1>1, <2>2, <2>3, <2>4, <2>5, HeardKeepsTrue
<1>6. QED
  BY <1>3, <1>4, <1>5, Zenon DEF HearChanged, a

(* An operation that ends leaves the status as it was, or as it is told.     *)
LEMMA EndedKeepsTrue ==
    ASSUME TInv, IInv', NEW kinds, NEW ok, Answered(kinds, ok), remote.busy = reply.of,
           NEW r \in Remotes, Finish(r), r.pending = remote.pending,
           \/ Status(r) = Status(remote) /\ reply.of.kind # "status"
           \/ link => Status(r) \in {server, Snapshot("errored", None)} \/ Coming'
    PROVE  TInv'
<1>1. Arrives("answer") /\ UNCHANGED <<connection, policy>>
  BY DEF Answered, accountVars
<1>2. /\ Status(remote') = Status(r) /\ Tuned(remote')
      /\ Online /\ Permitted /\ r.pending => Asking(remote')
      /\ Online /\ Permitted /\ remote'.pending => remote'.busy # Idle
  BY FinishAsks DEF Status
<1>3. Coming => Coming'
  BY <1>1, HeardLeavesNews
<1>4. CASE Status(r) = Status(remote) /\ reply.of.kind # "status"
  BY <1>1, <1>2, <1>3, <1>4, HeardKeepsTrue
     DEF TInv, WillBeRight, Online, Permitted, Right, Asking
<1>5. CASE link => Status(r) \in {server, Snapshot("errored", None)} \/ Coming'
  BY <1>1, <1>2, <1>5, HeardKeepsTrue DEF Online, Permitted
<1>6. QED
  BY <1>4, <1>5

LEMMA IgnoredKeepsTrue ==
    ASSUME TInv, IInv', NEW kinds, NEW ok, Answered(kinds, ok), Ignored
    PROVE  TInv'
<1>1. Arrives("answer") /\ UNCHANGED <<connection, policy>> /\ Same(remote', remote)
  BY DEF Answered, accountVars, Ignored, Same
<1>2. QED
  BY <1>1, SameKeepsTrue

LEMMA HearStatusKeepsTrue == ASSUME TInv, HearStatus PROVE TInv'
<1> DEFINE kinds == {"status", "enable", "disable"}
<1>1. /\ IInv' /\ Answered(kinds, TRUE) /\ Arrives("answer") /\ remote \in Remotes
      /\ Sound(remote) /\ Current(remote)
  BY HearStatusKeeps DEF TInv, HearStatus, Answered, IInv, Sound
<1>2. reply.snapshot \in Snapshots /\ Bears(reply)
  BY <1>1, ArrivalLeavesTheRest DEF Events, TInv, Bears, Answered, Arrives
<1>3. CASE remote.busy = reply.of /\ Finish(Shown(remote, reply.snapshot))
  <2> DEFINE r == Shown(remote, reply.snapshot)
  <2>1. r \in Remotes /\ Status(r) = reply.snapshot /\ r.pending = remote.pending
    BY <1>1, <1>2, ShownIsStatus, ShownIsSound DEF Sound
  <2>2. link => reply.snapshot = server \/ Coming'
    BY <1>1, <1>2, HeardLeavesNews
  <2> HIDE DEF r
  <2>3. QED
    BY <1>1, <1>3, <2>1, <2>2, EndedKeepsTrue DEF r
<1>4. CASE Ignored
  BY <1>1, <1>4, IgnoredKeepsTrue
<1>5. QED
  BY <1>3, <1>4, Zenon DEF HearStatus

LEMMA HearStatusFailedKeepsTrue == ASSUME TInv, HearStatusFailed PROVE TInv'
<1> DEFINE a == [remote EXCEPT !.status = "errored"]
           b == [a EXCEPT !.env = None]
           r == NoDevices(NoPairing(b))
<1>1. IInv' /\ Answered({"status"}, FALSE) /\ remote \in Remotes
  BY HearStatusFailedKeeps DEF TInv, HearStatusFailed, IInv, Sound
<1>2. a \in Remotes /\ a.status = "errored" /\ a.pending = remote.pending
  BY <1>1 DEF Remotes
<1>3. b \in Remotes /\ b.status = "errored" /\ b.env = None /\ b.pending = remote.pending
  BY <1>2 DEF Remotes
<1> HIDE DEF b
<1>4. r \in Remotes /\ Same(r, b)
  BY <1>3, NoPairingIsSame, NoDevicesIsSame DEF Same
<1>5. Status(r) = Snapshot("errored", None) /\ r.pending = remote.pending
  BY <1>3, <1>4 DEF Same, Status
<1> HIDE DEF r
<1>6. CASE remote.busy = reply.of /\ Finish(r)
  BY <1>1, <1>4, <1>5, <1>6, EndedKeepsTrue
<1>7. CASE Ignored
  BY <1>1, <1>7, IgnoredKeepsTrue
<1>8. QED
  BY <1>6, <1>7, Zenon DEF HearStatusFailed, b, r

LEMMA HearMutationFailedKeepsTrue == ASSUME TInv, HearMutationFailed PROVE TInv'
<1> DEFINE kinds == {"enable", "disable", "revoke"}
<1>1. IInv' /\ Answered(kinds, FALSE) /\ remote \in Remotes /\ reply.of.kind # "status"
  BY HearMutationFailedKeeps DEF TInv, HearMutationFailed, IInv, Sound, Answered
<1>2. CASE remote.busy = reply.of /\ Finish(remote)
  BY <1>1, <1>2, EndedKeepsTrue
<1>3. CASE Ignored
  BY <1>1, <1>3, IgnoredKeepsTrue
<1>4. QED
  BY <1>2, <1>3, Zenon DEF HearMutationFailed

LEMMA HearPairingKeepsTrue == ASSUME TInv, HearPairing PROVE TInv'
<1> DEFINE code == Request("pairing", reply.of.generation, reply.snapshot.env, 0)
           a == [remote EXCEPT !.pairing =
                    IF Linked /\ remote.env = reply.snapshot.env THEN code ELSE @]
<1>1. /\ IInv' /\ Answered({"pair"}, TRUE) /\ remote \in Remotes /\ reply.of.kind # "status"
      /\ Arrives("answer") /\ reply \in Events
  BY HearPairingKeeps, ArrivalLeavesTheRest DEF TInv, HearPairing, IInv, Sound, Answered
<1>2. code \in Requests
  <2>1. reply.of \in Requests /\ reply.snapshot \in Snapshots
    BY <1>1 DEF Events
  <2>2. reply.of.generation \in Nat /\ reply.snapshot.env \in Environments \cup {None}
    BY <2>1, SnapshotsAreShown DEF Requests
  <2>3. QED
    BY <2>2, RequestIsRequest
<1> HIDE DEF code
<1>3. a \in Remotes /\ Status(a) = Status(remote) /\ a.pending = remote.pending
  BY <1>1, <1>2 DEF Remotes, Status
<1> HIDE DEF a
<1>4. CASE remote.busy = reply.of /\ Finish(a)
  BY <1>1, <1>3, <1>4, EndedKeepsTrue
<1>5. CASE Ignored
  BY <1>1, <1>5, IgnoredKeepsTrue
<1>6. QED
  BY <1>4, <1>5, Zenon DEF HearPairing, a, code

LEMMA HearCheckedKeepsTrue == ASSUME TInv, HearChecked PROVE TInv'
<1> DEFINE a == IF reply.word = "claimed" THEN NoPairing(remote) ELSE remote
<1>1. IInv' /\ Answered({"check"}, TRUE) /\ remote \in Remotes /\ reply.of.kind # "status"
  BY HearCheckedKeeps DEF TInv, HearChecked, IInv, Sound, Answered
<1>2. a \in Remotes /\ Status(a) = Status(remote) /\ a.pending = remote.pending
  BY <1>1, NoPairingIsSame DEF Same, Status
<1> HIDE DEF a
<1>3. CASE remote.busy = reply.of /\ Finish(a)
  BY <1>1, <1>2, <1>3, EndedKeepsTrue
<1>4. CASE Ignored
  BY <1>1, <1>4, IgnoredKeepsTrue
<1>5. QED
  BY <1>3, <1>4, Zenon DEF HearChecked, a

LEMMA HearPairingFailedKeepsTrue == ASSUME TInv, HearPairingFailed PROVE TInv'
<1> DEFINE a == NoPairing(remote)
<1>1. /\ IInv' /\ Answered({"pair", "check"}, FALSE) /\ remote \in Remotes
      /\ reply.of.kind # "status"
  BY HearPairingFailedKeeps DEF TInv, HearPairingFailed, IInv, Sound, Answered
<1>2. a \in Remotes /\ Status(a) = Status(remote) /\ a.pending = remote.pending
  BY <1>1, NoPairingIsSame DEF Same, Status
<1> HIDE DEF a
<1>3. CASE remote.busy = reply.of /\ Finish(a)
  BY <1>1, <1>2, <1>3, EndedKeepsTrue
<1>4. CASE Ignored
  BY <1>1, <1>4, IgnoredKeepsTrue
<1>5. QED
  BY <1>3, <1>4, Zenon DEF HearPairingFailed, a

LEMMA HearRevokedKeepsTrue == ASSUME TInv, HearRevoked PROVE TInv'
<1> DEFINE device == <<reply.of.env, reply.of.device>>
           new == [remote.devices EXCEPT !.listed = @ \ {device}]
           a == [remote EXCEPT !.devices.listed = @ \ {device}]
<1>1. /\ IInv' /\ Answered({"revoke"}, TRUE) /\ remote \in Remotes /\ reply.of.kind # "status"
      /\ remote.devices \in Lists
  BY HearRevokedKeeps DEF TInv, HearRevoked, IInv, Sound, Answered, Remotes
<1> HIDE DEF device
<1>2. new \in Lists
  BY <1>1 DEF Lists
<1>3. a = [remote EXCEPT !.devices = new]
  BY <1>1 DEF Remotes, Lists
<1> HIDE DEF new
<1>4. a \in Remotes /\ Status(a) = Status(remote) /\ a.pending = remote.pending
  BY <1>1, <1>2, <1>3 DEF Remotes, Status
<1> HIDE DEF a
<1>5. CASE remote.busy = reply.of /\ Finish(a)
  BY <1>1, <1>4, <1>5, EndedKeepsTrue
<1>6. CASE Ignored
  BY <1>1, <1>6, IgnoredKeepsTrue
<1>7. QED
  BY <1>5, <1>6, Zenon DEF HearRevoked, a, device

(* Devices have nothing to do with the status.                               *)
LEMMA DevicesKeepTrue ==
    ASSUME TInv, IInv', NEW ok, Answered({"devices", "more"}, ok), NEW new,
           remote' = [remote EXCEPT !.devices = new]
    PROVE  TInv'
<1>1. Arrives("answer") /\ UNCHANGED <<connection, policy>> /\ remote \in Remotes
  BY DEF Answered, accountVars, TInv, IInv, Sound
<1>2. Same(remote', remote)
  BY <1>1 DEF Remotes, Same
<1>3. QED
  BY <1>1, <1>2, SameKeepsTrue

LEMMA HearDevicesKeepsTrue == ASSUME TInv, HearDevices PROVE TInv'
<1>1. IInv' /\ Answered({"devices", "more"}, TRUE)
  BY HearDevicesKeeps DEF TInv, HearDevices
<1>2. CASE Ignored
  BY <1>1, <1>2, IgnoredKeepsTrue
<1>3. QED
  BY <1>1, <1>2, DevicesKeepTrue DEF HearDevices

LEMMA HearDevicesFailedKeepsTrue == ASSUME TInv, HearDevicesFailed PROVE TInv'
<1> DEFINE new == IF reply.of.kind = "more"
                  THEN [remote.devices EXCEPT !.more = FALSE, !.asked = 0]
                  ELSE [NoList(remote.devices.gen) EXCEPT !.list = "failed"]
<1>1. IInv' /\ Answered({"devices", "more"}, FALSE)
  BY HearDevicesFailedKeeps DEF TInv, HearDevicesFailed
<1>2. CASE remote' = [remote EXCEPT !.devices = new]
  BY <1>1, <1>2, DevicesKeepTrue, Zenon
<1>3. CASE Ignored
  BY <1>1, <1>3, IgnoredKeepsTrue
<1>4. QED
  BY <1>2, <1>3, Zenon DEF HearDevicesFailed

LEMMA ReducerStepKeepsTrue == ASSUME TInv, Reducer PROVE TInv'
  BY HearConnectedKeepsTrue, HearLostKeepsTrue, HearSignInKeepsTrue, HearProfilesKeepsTrue,
     HearChangedKeepsTrue, HearStatusKeepsTrue, HearStatusFailedKeepsTrue,
     HearMutationFailedKeepsTrue, HearPairingKeepsTrue, HearCheckedKeepsTrue,
     HearPairingFailedKeepsTrue, HearDevicesKeepsTrue, HearDevicesFailedKeepsTrue,
     HearRevokedKeepsTrue DEF Reducer

(* What is told of a status is the one the app-server has, and what is not   *)
(* told will be asked for.                                                   *)
LEMMA ToldKeepsTrue ==
    ASSUME TInv, IInv', UNCHANGED <<link, connection, policy, remote>>,
           \/ UNCHANGED <<server, notices>>
           \/ link /\ notices' # <<>> /\ notices'[Len(notices')].snapshot = server',
           NEW action \in Events, events' = events \/ events' = Append(events, action),
           Bears(action) => action.snapshot = server'
    PROVE  TInv'
<1>1. /\ \A i \in DOMAIN events : i \in DOMAIN events' /\ events'[i] = events[i]
      /\ \A i \in DOMAIN events' :
             (i \in DOMAIN events /\ events'[i] = events[i]) \/ events'[i] = action
  <2>1. events \in Seq(Events)
    BY DEF TInv, IInv, TypeOK
  <2>2. CASE events' = Append(events, action)
    BY <2>1, <2>2, AppendAdds
  <2>3. QED
    BY <2>1, <2>2
<1>2. NoticesAreTrue'
  BY DEF TInv, NoticesAreTrue
<1>3. EventsAreTrue'
  <2> SUFFICES ASSUME link', notices' = <<>>, NEW i \in DOMAIN events', Bears(events'[i])
               PROVE  events'[i].snapshot = server' \/ Overtaken(i)'
    BY DEF EventsAreTrue
  <2>1. UNCHANGED <<server, notices>>
    OBVIOUS
  <2>2. CASE events'[i] = action
    BY <2>2
  <2>3. CASE i \in DOMAIN events /\ events'[i] = events[i]
    <3>1. events[i].snapshot = server \/ Overtaken(i)
      BY <2>1, <2>3 DEF TInv, EventsAreTrue
    <3>2. Overtaken(i) => Overtaken(i)'
      BY <1>1 DEF Overtaken
    <3>3. QED
      BY <2>1, <2>3, <3>1, <3>2
  <2>4. QED
    BY <1>1, <2>2, <2>3
<1>4. Coming => Coming'
  BY <1>1 DEF Coming
<1>5. WillBeRight'
  <2>1. CASE notices' # <<>>
    BY <2>1 DEF WillBeRight, Coming
  <2>2. CASE UNCHANGED <<server, notices>>
    BY <1>4, <2>2 DEF TInv, WillBeRight, Online, Permitted, Right, Status, Asking
  <2>3. QED
    BY <2>1, <2>2
<1>6. QED
  BY <1>2, <1>3, <1>5 DEF TInv, PutOff, Tuned, Online, Permitted

(* A status that changes is told of.                                         *)
LEMMA BecomesTells ==
    ASSUME TInv, link, NEW snapshot \in Snapshots, Becomes(snapshot)
    PROVE  /\ link' = link /\ server' = snapshot
           /\ \/ UNCHANGED <<server, notices>>
              \/ notices' # <<>> /\ notices'[Len(notices')].snapshot = server'
<1>1. link' = link /\ server' = snapshot /\ notices \in Seq(Events)
  BY DEF Becomes, TInv, IInv, TypeOK
<1>2. CASE notices' = Append(notices, Changed(snapshot))
  <2>1. Changed(snapshot) \in Events /\ Changed(snapshot).snapshot = snapshot
    BY EventsAreEvents DEF Changed, Event
  <2>2. notices' # <<>> /\ notices'[Len(notices')] = Changed(snapshot)
    BY <1>1, <1>2, <2>1
  <2>3. QED
    BY <1>1, <2>1, <2>2
<1>3. QED
  BY <1>1, <1>2 DEF Becomes

(* The effect is answered; what is told of the status is the one it had.     *)
LEMMA AnsweredKeepsTrue ==
    ASSUME TInv, IInv', UNCHANGED <<notBackend, backendVars>>, NEW action \in Events,
           Emitted(action), Bears(action) => action.snapshot = server
    PROVE  TInv'
<1>1. UNCHANGED <<server, link, notices, connection, policy, remote>>
  BY DEF notBackend, backendVars, accountVars
<1>2. events' = events \/ events' = Append(events, action)
  BY DEF Emitted, Put, Lost
<1>3. QED
  BY <1>1, <1>2, ToldKeepsTrue

LEMMA FailureTellsNothing == ~Bears(Failure) /\ ~Bears(Loss)
  BY DEF Failure, Loss, Bears, Word, Answer, Event

LEMMA RunOfflineKeepsTrue == ASSUME TInv, RunOffline PROVE TInv'
<1> DEFINE action == IF effect.kind = "profiles" THEN Loss ELSE Failure
<1>1. /\ IInv' /\ commands # <<>> /\ Emitted(action) /\ UNCHANGED <<notBackend, backendVars>>
  BY RunOfflineKeeps DEF TInv, RunOffline, Takes
<1>2. action \in Events /\ ~Bears(action)
  BY <1>1, EventsAreEvents, FailureIsEvent, FailureTellsNothing DEF TInv
<1> HIDE DEF action
<1>3. QED
  BY <1>1, <1>2, AnsweredKeepsTrue

LEMMA RunFailsKeepsTrue == ASSUME TInv, RunFails PROVE TInv'
<1>1. /\ IInv' /\ commands # <<>> /\ link /\ events' = Append(events, Failure)
      /\ UNCHANGED notBackend /\ Failure \in Events /\ ~Bears(Failure)
  BY RunFailsKeeps, FailureIsEvent, FailureTellsNothing DEF TInv, RunFails, Takes, Put
<1>2. UNCHANGED <<connection, policy, remote>>
  BY <1>1 DEF notBackend, accountVars
<1> HIDE DEF Failure
<1>3. CASE UNCHANGED backendVars
  <2>1. UNCHANGED <<server, link, notices>>
    BY <1>3 DEF backendVars
  <2>2. QED
    BY <1>1, <1>2, <2>1, ToldKeepsTrue
<1>4. CASE \E snapshot \in Snapshots : Becomes(snapshot)
  BY <1>1, <1>2, <1>4, BecomesTells, ToldKeepsTrue
<1>5. QED
  BY <1>3, <1>4, Zenon DEF RunFails

LEMMA RunStatusKeepsTrue == ASSUME TInv, RunStatus PROVE TInv'
<1> DEFINE action == [Success EXCEPT !.snapshot = server]
<1>1. IInv' /\ commands # <<>> /\ Emitted(action) /\ UNCHANGED <<notBackend, backendVars>>
  BY RunStatusKeeps DEF TInv, RunStatus, Takes
<1>2. action \in Events
  BY <1>1, EffectIsAnswered DEF TInv, IInv, TypeOK
<1>3. action.snapshot = server
  BY DEF Success, Answer, Event
<1> HIDE DEF action
<1>4. QED
  BY <1>1, <1>2, <1>3, AnsweredKeepsTrue

LEMMA RunSwitchKeepsTrue == ASSUME TInv, RunSwitch PROVE TInv'
<1>1. PICK snapshot \in Snapshots :
          Becomes(snapshot) /\ Emitted([Success EXCEPT !.snapshot = snapshot])
  BY StatusesAssumption DEF RunSwitch, Off, Snapshots
<1> DEFINE action == [Success EXCEPT !.snapshot = snapshot]
<1>2. IInv' /\ commands # <<>> /\ link /\ UNCHANGED <<connection, policy, remote>>
  BY RunSwitchKeeps DEF TInv, RunSwitch, Takes, notBackend, accountVars
<1>3. action \in Events /\ action.snapshot = snapshot
  BY <1>2, EffectIsAnswered DEF TInv, Success, Answer, Event
<1>4. events' = events \/ events' = Append(events, action)
  BY <1>1 DEF Emitted, Put, Lost
<1> HIDE DEF action
<1>5. QED
  BY <1>1, <1>2, <1>3, <1>4, BecomesTells, ToldKeepsTrue

LEMMA RunPairKeepsTrue == ASSUME TInv, RunPair PROVE TInv'
<1> DEFINE success == [Success EXCEPT !.snapshot = server]
           action == IF server.env = None THEN Failure ELSE success
<1>1. /\ IInv' /\ commands # <<>> /\ Emitted(action) /\ UNCHANGED <<notBackend, backendVars>>
  BY RunPairKeeps DEF TInv, RunPair, Takes
<1>2. success \in Events /\ Failure \in Events
  BY <1>1, EffectIsAnswered, FailureIsEvent DEF TInv, IInv, TypeOK
<1>3. success.snapshot = server
  BY DEF Success, Answer, Event
<1> HIDE DEF success
<1>4. action \in Events /\ (Bears(action) => action.snapshot = server)
  BY <1>2, <1>3, FailureTellsNothing
<1> HIDE DEF action
<1>5. QED
  BY <1>1, <1>4, AnsweredKeepsTrue

(* Answers to other requests tell nothing of the status.                     *)
LEMMA OthersTellNothing ==
    ASSUME TInv, commands # <<>>, effect.kind \notin {"status", "enable", "disable"}
    PROVE  /\ ~Bears(Success)
           /\ \A word \in {"claimed", "unclaimed"} : ~Bears([Success EXCEPT !.word = word])
           /\ \A page \in SUBSET Numbers, next \in Numbers \cup {0} :
                  ~Bears([Success EXCEPT !.page = page, !.next = next])
<1>1. /\ Success \in Events /\ Success.kind = "answer" /\ Success.of = effect
      /\ \A word \in {"claimed", "unclaimed"} : LET action == [Success EXCEPT !.word = word]
             IN  action \in Events /\ action.kind = "answer" /\ action.of = effect
      /\ \A page \in SUBSET Numbers, next \in Numbers \cup {0} :
             LET action == [Success EXCEPT !.page = page, !.next = next]
             IN  action \in Events /\ action.kind = "answer" /\ action.of = effect
  BY EffectIsAnswered DEF TInv, Success
<1> HIDE DEF effect, Success
<1>2. QED
  BY <1>1 DEF Bears

LEMMA RunCheckKeepsTrue == ASSUME TInv, RunCheck PROVE TInv'
<1>1. PICK word \in {"claimed", "unclaimed"} : Emitted([Success EXCEPT !.word = word])
  BY DEF RunCheck
<1> DEFINE action == [Success EXCEPT !.word = word]
<1>2. /\ IInv' /\ commands # <<>> /\ Emitted(action) /\ UNCHANGED <<notBackend, backendVars>>
      /\ effect.kind = "check"
  BY <1>1, RunCheckKeeps DEF TInv, RunCheck, Takes
<1>3. action \in Events /\ ~Bears(action)
  BY <1>2, EffectIsAnswered, OthersTellNothing DEF TInv
<1> HIDE DEF action
<1>4. QED
  BY <1>2, <1>3, AnsweredKeepsTrue

LEMMA RunDevicesKeepsTrue == ASSUME TInv, RunDevices PROVE TInv'
<1>1. PICK page \in SUBSET Numbers, next \in Numbers \cup {0} :
          Emitted([Success EXCEPT !.page = page, !.next = next])
  <2>1. PICK page \in {{}} \cup {{d} : d \in Numbers} : \E next \in {0} \cup page :
            Emitted([Success EXCEPT !.page = page, !.next = next])
    BY DEF RunDevices
  <2>2. page \in SUBSET Numbers
    BY <2>1
  <2>3. QED
    BY <2>1, <2>2
<1> DEFINE action == [Success EXCEPT !.page = page, !.next = next]
<1>2. /\ IInv' /\ commands # <<>> /\ Emitted(action) /\ UNCHANGED <<notBackend, backendVars>>
      /\ effect.kind \in {"devices", "more"}
  BY <1>1, RunDevicesKeeps DEF TInv, RunDevices, Takes
<1>3. action \in Events /\ ~Bears(action)
  BY <1>2, EffectIsAnswered, OthersTellNothing DEF TInv
<1> HIDE DEF action
<1>4. QED
  BY <1>2, <1>3, AnsweredKeepsTrue

LEMMA RunRevokeKeepsTrue == ASSUME TInv, RunRevoke PROVE TInv'
<1>1. /\ IInv' /\ commands # <<>> /\ Emitted(Success) /\ UNCHANGED <<notBackend, backendVars>>
      /\ effect.kind = "revoke"
  BY RunRevokeKeeps DEF TInv, RunRevoke, Takes
<1>2. Success \in Events /\ ~Bears(Success)
  BY <1>1, EffectIsAnswered, OthersTellNothing DEF TInv, Success
<1> HIDE DEF Success
<1>3. QED
  BY <1>1, <1>2, AnsweredKeepsTrue

LEMMA WordsTellNothing ==
    \A kind \in {"profiles", "signIn"} : \A word : ~Bears(Word(kind, word))
  BY DEF Word, Event, Bears

LEMMA RunProfilesKeepsTrue == ASSUME TInv, RunProfiles PROVE TInv'
<1>1. PICK allowed \in {"allowed", "forbidden"} : Emitted(Word("profiles", allowed))
  BY DEF RunProfiles
<1> DEFINE action == Word("profiles", allowed)
<1>2. /\ IInv' /\ commands # <<>> /\ Emitted(action) /\ UNCHANGED <<notBackend, backendVars>>
  BY <1>1, RunProfilesKeeps DEF TInv, RunProfiles, Takes
<1>3. action \in Events /\ ~Bears(action)
  BY EventsAreEvents, WordsTellNothing
<1> HIDE DEF action
<1>4. QED
  BY <1>2, <1>3, AnsweredKeepsTrue

(* A connection that ends takes the notices with it; one that is made is     *)
(* heard of, and the page asks again.                                        *)
LEMMA EndKeepsTrue ==
    ASSUME TInv, IInv', link' = FALSE, notices' = <<>>, UNCHANGED <<connection, policy, remote>>
    PROVE  TInv'
  BY DEF TInv, NoticesAreTrue, EventsAreTrue, WillBeRight, PutOff, Tuned, Online, Permitted

LEMMA StartKeepsTrue ==
    ASSUME TInv, IInv', notices' = <<>>, UNCHANGED remote, NEW before \in Seq(Events),
           events' = Append(before, Connected),
           connection' = "online" => connection = "online", UNCHANGED policy
    PROVE  TInv'
<1>1. /\ events' \in Seq(Events) /\ Len(events') \in Nat /\ DOMAIN events' = 1..Len(events')
      /\ Len(events') \in DOMAIN events' /\ events'[Len(events')] = Connected
      /\ Connected.kind = "connected"
  BY EventsAreEvents
<1>2. \A i \in DOMAIN events' : i = Len(events') \/ Overtaken(i)'
  BY <1>1 DEF Overtaken
<1>3. ~Bears(Connected)
  BY DEF Connected, Event, Bears
<1>4. EventsAreTrue'
  BY <1>1, <1>2, <1>3 DEF EventsAreTrue
<1>5. Coming' /\ NoticesAreTrue'
  BY <1>1 DEF Coming, NoticesAreTrue
<1>6. QED
  BY <1>4, <1>5 DEF TInv, WillBeRight, PutOff, Tuned, Online, Permitted

LEMMA RunSignInKeepsTrue == ASSUME TInv, RunSignIn PROVE TInv'
<1>1. /\ IInv' /\ UNCHANGED <<connection, policy, remote>> /\ events \in Seq(Events)
  BY RunSignInKeeps DEF TInv, RunSignIn, notBackend, accountVars, IInv, TypeOK
<1>2. CASE Put(Word("signIn", "failed")) /\ Uncounted /\ UNCHANGED backendVars
  <2> DEFINE action == Word("signIn", "failed")
  <2>1. action \in Events /\ ~Bears(action)
    BY EventsAreEvents, WordsTellNothing
  <2>2. UNCHANGED <<server, link, notices>> /\ events' = Append(events, action)
    BY <1>2 DEF backendVars, Put
  <2> HIDE DEF action
  <2>3. QED
    BY <1>1, <2>1, <2>2, ToldKeepsTrue
<1> DEFINE accepted == Word("signIn", "accepted")
           next == IF link' THEN Connected ELSE Word("signIn", "restartFailed")
<1>3. CASE /\ notices' = <<>> /\ link' \in BOOLEAN /\ events' = events \o <<accepted, next>>
  <2>1. CASE ~link'
    BY <1>1, <1>3, <2>1, EndKeepsTrue
  <2>2. CASE link'
    <3>1. accepted \in Events /\ Connected \in Events
      BY EventsAreEvents
    <3> HIDE DEF accepted
    <3>2. /\ Append(events, accepted) \in Seq(Events)
          /\ events' = Append(Append(events, accepted), Connected)
      BY <1>1, <1>3, <2>2, <3>1
    <3>3. QED
      BY <1>1, <1>3, <3>2, StartKeepsTrue
  <2>3. QED
    BY <1>3, <2>1, <2>2
<1>4. QED
  BY <1>2, <1>3, Zenon DEF RunSignIn

(* A notice that is the last of the queue tells what the app-server has.     *)
LEMMA RunNoticeKeepsTrue == ASSUME TInv, RunNotice PROVE TInv'
<1> DEFINE action == Head(notices)
<1>1. /\ IInv' /\ notices # <<>> /\ notices' = Tail(notices)
      /\ events' = Append(events, action) /\ notices \in Seq(Events)
      /\ \A i \in DOMAIN notices : notices[i].kind = "changed"
      /\ UNCHANGED <<connection, policy, remote, server, link>> /\ events \in Seq(Events)
      /\ link /\ notices[Len(notices)].snapshot = server
  BY RunNoticeKeeps
     DEF TInv, RunNotice, notBackend, accountVars, IInv, TypeOK, Put, NoticesAreTrue
<1>2. action \in Events /\ action.kind = "changed"
  BY <1>1, TailDrops
<1>3. /\ Len(notices') = Len(notices) - 1 /\ Len(notices) \in Nat
      /\ notices' # <<>> => notices'[Len(notices')] = notices[Len(notices)]
      /\ notices' = <<>> => action = notices[Len(notices)]
  BY <1>1
<1> HIDE DEF action
<1>4. /\ events' \in Seq(Events) /\ Len(events') \in Nat /\ DOMAIN events' = 1..Len(events')
      /\ Len(events') \in DOMAIN events' /\ events'[Len(events')] = action
  BY <1>1, <1>2
<1>5. NoticesAreTrue'
  BY <1>1, <1>3 DEF NoticesAreTrue
<1>6. \A i \in DOMAIN events' : i = Len(events') \/ Overtaken(i)'
  BY <1>2, <1>4 DEF Overtaken
<1>7. EventsAreTrue'
  BY <1>1, <1>3, <1>4, <1>6 DEF EventsAreTrue
<1>8. Coming'
  BY <1>2, <1>4 DEF Coming
<1>9. QED
  BY <1>1, <1>5, <1>7, <1>8 DEF TInv, WillBeRight, PutOff, Tuned, Online, Permitted

LEMMA BackendStepKeepsTrue == ASSUME TInv, Backend PROVE TInv'
  BY RunOfflineKeepsTrue, RunFailsKeepsTrue, RunStatusKeepsTrue, RunSwitchKeepsTrue,
     RunPairKeepsTrue, RunCheckKeepsTrue, RunDevicesKeepsTrue, RunRevokeKeepsTrue,
     RunProfilesKeepsTrue, RunSignInKeepsTrue, RunNoticeKeepsTrue DEF Backend

LEMMA WorldStepKeepsTrue == ASSUME TInv, ServerChanges \/ Lose \/ Reconnect PROVE TInv'
<1>1. IInv' /\ UNCHANGED <<policy, remote>> /\ events \in Seq(Events)
  BY WorldStepKeeps DEF TInv, ServerChanges, Lose, Reconnect, notWorld, IInv, TypeOK
<1>2. CASE ServerChanges
  <2>1. PICK snapshot \in Snapshots : Becomes(snapshot)
    BY <1>2 DEF ServerChanges
  <2>2. link /\ UNCHANGED <<events, connection>>
    BY <1>2 DEF ServerChanges
  <2>3. Loss \in Events /\ ~Bears(Loss)
    BY EventsAreEvents, FailureTellsNothing
  <2>4. QED
    BY <1>1, <2>1, <2>2, <2>3, BecomesTells, ToldKeepsTrue
<1>3. CASE Lose
  BY <1>1, <1>3, EndKeepsTrue DEF Lose
<1>4. CASE Reconnect
  <2>1. notices' = <<>>
    BY <1>4 DEF Reconnect, TInv, NoticesAreTrue
  <2>2. QED
    BY <1>1, <1>4, <2>1, StartKeepsTrue DEF Reconnect
<1>5. QED
  BY <1>2, <1>3, <1>4

LEMMA InitIsTrue == Init => TInv
<1> SUFFICES ASSUME Init PROVE TInv
  OBVIOUS
<1>1. IInv /\ notices = <<>> /\ events = <<Connected>> /\ ~Online /\ remote.busy = Idle
  BY InitIsSound DEF Init, Online
<1>2. ~Bears(Connected)
  BY DEF Connected, Event, Bears
<1>3. QED
  BY <1>1, <1>2, IdleIsRequest
     DEF TInv, NoticesAreTrue, EventsAreTrue, WillBeRight, PutOff, Tuned, None

LEMMA StepKeepsTrue == TInv /\ [Next]_vars => TInv'
<1>1. ASSUME TInv, UNCHANGED vars PROVE TInv'
  <2>1. IInv'
    BY <1>1, StepIsSound DEF TInv
  <2>2. UNCHANGED <<server, link, notices, events, connection, policy, remote>>
    BY <1>1 DEF vars, backendVars, accountVars
  <2>3. QED
    BY <1>1, <2>1, <2>2
       DEF TInv, NoticesAreTrue, EventsAreTrue, Overtaken, WillBeRight, Right, Status, Coming,
           Online, Permitted, Asking, PutOff, Tuned
<1>2. QED
  BY <1>1, UserStepKeepsTrue, ReducerStepKeepsTrue, BackendStepKeepsTrue, WorldStepKeepsTrue
  DEF Next

(* Whatever was changed, answered, refused or lost on the way: once nothing  *)
(* is under way the page shows the status that the app-server has, or that   *)
(* it could not be read, and what belongs to it.                             *)
THEOREM PageHolds == Spec => []PageIsTrue
<1>1. TInv => PageIsTrue
  <2> SUFFICES ASSUME TInv PROVE PageIsTrue
    OBVIOUS
  <2>1. ShownIsCurrent
    BY DEF TInv, IInv, Sound, Current, ShownIsCurrent, Linked
  <2>2. ASSUME Quiet PROVE Status(remote) \in {server, Snapshot("errored", None)}
    <3>1. ~Coming /\ link /\ Online /\ Permitted /\ remote.busy = Idle
      BY <2>2 DEF Quiet, Coming
    <3>2. ~Asking(remote)
      BY <3>1, IdleIsRequest DEF TInv, PutOff, Asking, None
    <3>3. QED
      BY <3>1, <3>2 DEF TInv, WillBeRight, Right
  <2>3. QED
    BY <2>1, <2>2 DEF PageIsTrue, Status
<1>2. Spec => []TInv
  BY InitIsTrue, StepKeepsTrue, PTL DEF Spec
<1>3. QED
  BY <1>1, <1>2, PTL

=============================================================================
