---------------------------- MODULE RemoteControl ----------------------------
(***************************************************************************)
(* Remote Control as the settings page shows it: whether the app-server    *)
(* lets other devices in, the code that pairs one, and the devices that    *)
(* are paired.  The reducer (codex-core) asks for each of them through the *)
(* backend and hears of changes in between:                                *)
(*                                                                         *)
(*   reducer --effects--> run_backend --requests--> app-server             *)
(*           <--actions-- run_backend <--status/changed--                  *)
(*                                                                         *)
(* Every request carries a generation, and an answer of another generation *)
(* is ignored.  An answer overtakes the notices its request caused, for    *)
(* run_backend waits for it, and the loss of the connection may overtake   *)
(* everything on the way to the reducer.                                   *)
(*                                                                         *)
(* Data abstraction: names, labels and expiry dates are left out, lists    *)
(* are short of their limits, the app-server sends what the client can     *)
(* parse, and one page of devices holds one.  The queues are full only     *)
(* with what the other features put there: a message that finds no room is *)
(* lost.  When a connection is made is in ConnectionRecovery.              *)
(***************************************************************************)
EXTENDS Naturals, Sequences

CONSTANTS
    Environments,  \* the names under which the app-server is known outside
    Numbers,       \* the devices of an environment
    Statuses,      \* what the app-server's status can be but connected
    MaxRequests,   \* bound: operations of the user
    MaxExtras      \* bound: changes, losses, failures and new connections

ASSUME EnvironmentsAssumption == "none" \notin Environments

ASSUME StatusesAssumption ==
    {"disabled"} \subseteq Statuses /\ Statuses \subseteq {"disabled", "connecting", "errored"}

ASSUME BoundsAssumption == Numbers \subseteq Nat \ {0} /\ {MaxRequests, MaxExtras} \subseteq Nat

VARIABLES
    server,      \* remote control as the app-server has it
    link,        \* whether the backend has a connection
    notices,     \* remoteControl/status/changed on the way to the backend
    commands,    \* the effects on the way to the backend
    events,      \* the actions on the way to the reducer
    lossPending, \* connection_lost_pending, which overtakes them
    connection,  \* AppState::connection
    auth,        \* AccountState::auth_operation, as far as Bedrock goes
    policy,      \* policy_status and managed_allow_remote_control
    remote,      \* RemoteControlState
    unheard,     \* awaited requests whose answer was lost or thrown away
    requests,    \* how many operations the user has asked for
    extras       \* what the environment has done so far

accountVars == <<connection, auth>>
backendVars == <<server, link, notices>>
vars == <<backendVars, commands, events, lossPending, accountVars, policy, remote,
          unheard, requests, extras>>

None == "none"

(* map_remote_control_snapshot: connected, with an environment, or not.      *)
Snapshot(status, env) == [status |-> status, env |-> env]
Off == Snapshot("disabled", None)
Snapshots == {Snapshot(status, None) : status \in Statuses}
             \cup {Snapshot("connected", env) : env \in Environments}

(* A request of the reducer: an Effect, and RemoteControlBusy.  A load of    *)
(* devices goes on after the last one of the page before, its cursor.        *)
Request(kind, generation, env, device) ==
    [kind |-> kind, generation |-> generation, env |-> env, device |-> device]
Plain(kind) == Request(kind, 0, None, 0)
Idle == Plain(None)

(* What the reducer hears: an answer, or news that nobody asked for.         *)
Event(kind, request, ok) ==
    [kind |-> kind, of |-> request, ok |-> ok, snapshot |-> Off, page |-> {}, next |-> 0,
     word |-> None]
Answer(request, ok) == Event("answer", request, ok)
Word(kind, word)    == [Event(kind, Idle, TRUE) EXCEPT !.word = word]
Changed(snapshot)   == [Event("changed", Idle, TRUE) EXCEPT !.snapshot = snapshot]
Connected == Event("connected", Idle, TRUE)
Loss      == Event("lost", Idle, TRUE)

(* The devices of the page: none, before they are asked for.                 *)
NoList(generation) ==
    [gen |-> generation, list |-> "idle", listed |-> {}, cursor |-> 0, asked |-> 0,
     more |-> FALSE]

Counted   == extras < MaxExtras /\ extras' = extras + 1
Uncounted == UNCHANGED extras

Init ==
    /\ server \in Snapshots /\ link = TRUE /\ notices = <<>>
    /\ commands = <<>> /\ events = <<Connected>> /\ lossPending = FALSE
    /\ connection = "connecting" /\ auth = "idle" /\ policy = "loading"
    /\ remote = [status |-> "disabled", env |-> None, busy |-> Idle, pending |-> FALSE,
                 pairing |-> Idle, devices |-> NoList(0),
                 statusGen |-> 0, mutationGen |-> 0, pairingGen |-> 0]
    /\ unheard = {} /\ requests = 0 /\ extras = 0

-----------------------------------------------------------------------------
(* What the operations of the reducer are made of.                           *)

(* An effect: it finds room in the command queue, or it is lost.             *)
Sent(request) ==
    \/ commands' = Append(commands, request) /\ Uncounted /\ UNCHANGED unheard
    \/ Counted /\ unheard' = unheard \cup {request} /\ UNCHANGED commands
Silent == UNCHANGED <<commands, unheard, extras>>

Online    == connection = "online"
Permitted == policy = "allowed"
Allowed   == Permitted /\ Online /\ remote.busy = Idle
Linked    == remote.status = "connected"

NoPairing(r) == [r EXCEPT !.pairingGen = @ + 1, !.pairing = Idle]
NoDevices(r) == [r EXCEPT !.devices = NoList(@.gen + 1)]

(* clear_remote_control_runtime. *)
Cleared(r) ==
    NoDevices(NoPairing([r EXCEPT !.statusGen = @ + 1, !.mutationGen = @ + 1,
        !.status = "disabled", !.env = None, !.busy = Idle, !.pending = FALSE]))

(* set_remote_control_runtime. *)
Shown(r, snapshot) ==
    LET new == [r EXCEPT !.status = snapshot.status, !.env = snapshot.env]
    IN  IF snapshot.status # "connected" \/ snapshot.env # r.env
        THEN NoDevices(NoPairing(new)) ELSE new

(* begin_remote_status_refresh, from r and under this policy.                *)
Begin(r, permitted) ==
    LET request == Request("status", r.statusGen + 1, None, 0)
    IN  \/ /\ ~permitted \/ ~Online
           /\ remote' = r /\ Silent
        \/ /\ permitted /\ Online /\ r.busy # Idle
           /\ remote' = [r EXCEPT !.pending = TRUE] /\ Silent
        \/ /\ permitted /\ Online /\ r.busy = Idle
           /\ remote' = [r EXCEPT !.statusGen = @ + 1, !.busy = request, !.pending = FALSE]
           /\ Sent(request)

(* finish_remote_status_refresh_if_pending, when r is no longer busy.        *)
Finish(r) ==
    IF r.pending THEN Begin([r EXCEPT !.busy = Idle], Permitted)
    ELSE remote' = [r EXCEPT !.busy = Idle] /\ Silent

-----------------------------------------------------------------------------
(* What the user does.                                                       *)

Asks == requests < MaxRequests /\ requests' = requests + 1
notUser == <<backendVars, events, lossPending, accountVars, policy>>

RefreshStatus ==
    /\ Asks /\ Begin(remote, Permitted)
    /\ UNCHANGED notUser

(* EnableRemoteControl, DisableRemoteControl. *)
Switch(kind) ==
    /\ Asks /\ Allowed
    /\ IF kind = "enable" THEN remote.status \in {"disabled", "errored"}
       ELSE remote.status # "disabled"
    /\ LET request == Request(kind, remote.mutationGen + 1, None, 0)
       IN  /\ remote' = [remote EXCEPT !.mutationGen = @ + 1, !.busy = request]
           /\ Sent(request)
    /\ UNCHANGED notUser

StartPairing ==
    /\ Asks /\ Allowed /\ Linked
    /\ LET request == Request("pair", remote.pairingGen + 1, None, 0)
       IN  /\ remote' = [NoPairing(remote) EXCEPT !.busy = request]
           /\ Sent(request)
    /\ UNCHANGED notUser

CheckPairing ==
    /\ Asks /\ Allowed /\ Linked
    /\ remote.pairing # Idle /\ remote.pairing.env = remote.env
    /\ LET request == Request("check", remote.pairingGen, remote.env, 0)
       IN  remote' = [remote EXCEPT !.busy = request] /\ Sent(request)
    /\ UNCHANGED notUser

(* CloseRemotePairing: what is asked for is given up, not called back.       *)
ClosePairing ==
    /\ Asks
    /\ IF remote.busy.kind \in {"pair", "check"} THEN Finish(NoPairing(remote))
       ELSE remote' = NoPairing(remote) /\ Silent
    /\ UNCHANGED notUser

RefreshDevices ==
    /\ Asks /\ Allowed /\ Linked /\ remote.devices.list # "loading"
    /\ LET request == Request("devices", remote.devices.gen + 1, remote.env, 0)
       IN  /\ remote' = [NoDevices(remote) EXCEPT !.devices.list = "loading"]
           /\ Sent(request)
    /\ UNCHANGED notUser

LoadMoreDevices ==
    /\ Asks /\ Allowed /\ Linked /\ remote.devices.list = "ready"
    /\ ~remote.devices.more /\ remote.devices.cursor # 0
    /\ LET request == Request("more", remote.devices.gen, remote.env, remote.devices.cursor)
       IN  /\ remote' = [remote EXCEPT !.devices.more = TRUE,
                                       !.devices.asked = remote.devices.cursor]
           /\ Sent(request)
    /\ UNCHANGED notUser

(* RevokeRemoteDevice, which makes a page that is under way void.            *)
Voided(r, more) ==
    [r EXCEPT !.devices = [gen |-> @.gen + 1, list |-> @.list, listed |-> @.listed,
                           cursor |-> 0, asked |-> 0, more |-> more]]

RevokeDeviceLoading(d) ==
    /\ Asks /\ Allowed /\ Linked /\ <<remote.env, d>> \in remote.devices.listed
    /\ LET request == Request("revoke", remote.mutationGen + 1, remote.env, d)
       IN  /\ remote' = [Voided(remote, remote.devices.more) EXCEPT
                             !.mutationGen = @ + 1, !.busy = request]
           /\ Sent(request)
    /\ UNCHANGED notUser

RevokeDevice(d) ==
    /\ Asks /\ Allowed /\ Linked /\ <<remote.env, d>> \in remote.devices.listed
    /\ LET request == Request("revoke", remote.mutationGen + 1, remote.env, d)
       IN  /\ remote' = [Voided(remote, FALSE) EXCEPT !.mutationGen = @ + 1, !.busy = request]
           /\ Sent(request)
    /\ UNCHANGED notUser

(* StartBedrockLogin, and its command, which does not travel as an effect.   *)
SignIn ==
    /\ Asks /\ auth = "idle" /\ auth' = "submitting"
    /\ commands' = Append(commands, Plain("signIn"))
    /\ UNCHANGED <<backendVars, events, lossPending, connection, policy, remote, unheard, extras>>

(* The composer asks for the permission profiles again, when its defaults    *)
(* could not be written.                                                     *)
ReadProfilesAgain ==
    /\ Asks /\ Sent(Plain("profiles"))
    /\ UNCHANGED <<notUser, remote>>

User ==
    \/ RefreshStatus \/ Switch("enable") \/ Switch("disable")
    \/ StartPairing \/ CheckPairing \/ ClosePairing
    \/ RefreshDevices \/ LoadMoreDevices \/ (\E d \in Numbers : RevokeDevice(d))
    \/ SignIn \/ ReadProfilesAgain

-----------------------------------------------------------------------------
(* What the reducer hears of the connection and of the policy.               *)

reply == Head(events)

Arrives(kind) ==
    /\ ~lossPending /\ events # <<>> /\ reply.kind = kind
    /\ events' = Tail(events)
    /\ UNCHANGED <<backendVars, lossPending, requests>>

HearConnected ==
    /\ Arrives("connected")
    /\ connection' = "online" /\ policy' = "loading"
    /\ auth' = IF auth = "restarting" THEN "idle" ELSE auth
    /\ Sent(Plain("profiles"))
    /\ UNCHANGED remote

(* ConnectionLost, by its flag or in the queue.                              *)
HearLost ==
    /\ \/ /\ lossPending /\ lossPending' = FALSE
          /\ UNCHANGED <<backendVars, events, requests>>
       \/ Arrives("lost")
    /\ auth' = "idle"
    /\ IF connection \in {"connecting", "recovering"}
       THEN UNCHANGED <<connection, remote, unheard>>
       ELSE connection' = "recovering" /\ remote' = Cleared(remote) /\ unheard' = {}
    /\ UNCHANGED <<commands, policy, extras>>

(* AccountBedrockLoginStartFailed, AccountBedrockLoginAccepted and           *)
(* AccountBedrockRestartFailed.                                              *)
HearSignIn ==
    /\ Arrives("signIn")
    /\ \/ /\ reply.word = "accepted" /\ auth = "submitting"
          /\ auth' = "restarting" /\ connection' = "connecting"
       \/ /\ reply.word = "restartFailed" /\ auth = "restarting"
          /\ auth' = "idle" /\ connection' = "failed"
       \/ /\ reply.word = "failed" /\ auth = "submitting"
          /\ auth' = "idle" /\ UNCHANGED connection
       \/ /\ auth # (IF reply.word = "restartFailed" THEN "restarting" ELSE "submitting")
          /\ UNCHANGED accountVars
    /\ UNCHANGED <<commands, policy, remote, unheard, extras>>

(* PermissionProfilesLoaded, PermissionProfilesFailed. *)
HearProfiles ==
    /\ Arrives("profiles")
    /\ policy' = reply.word
    /\ \/ reply.word = "allowed" /\ Begin(remote, TRUE)
       \/ /\ reply.word # "allowed"
          /\ remote' = Cleared(remote) /\ unheard' = {} /\ UNCHANGED <<commands, extras>>
    /\ UNCHANGED accountVars

(* RemoteControlStatusChanged. *)
HearChangedForgotten ==
    /\ Arrives("changed")
    /\ IF Allowed THEN remote' = Shown([remote EXCEPT !.statusGen = @ + 1], reply.snapshot)
       ELSE UNCHANGED remote
    /\ UNCHANGED <<commands, accountVars, policy, unheard, extras>>

HearChanged ==
    /\ Arrives("changed")
    /\ remote' = IF ~Permitted \/ ~Online THEN remote
                 ELSE IF remote.busy # Idle THEN [remote EXCEPT !.pending = TRUE]
                 ELSE Shown([remote EXCEPT !.statusGen = @ + 1], reply.snapshot)
    /\ UNCHANGED <<commands, accountVars, policy, unheard, extras>>

-----------------------------------------------------------------------------
(* What the reducer hears in answer to its requests.                         *)

Answered(kinds, ok) ==
    /\ Arrives("answer") /\ reply.of.kind \in kinds /\ reply.ok = ok
    /\ UNCHANGED <<accountVars, policy>>

(* An answer that is not heard.  Some operations are still waiting for it.   *)
Ignored ==
    /\ unheard' = IF remote.busy = reply.of THEN unheard \cup {reply.of} ELSE unheard
    /\ UNCHANGED <<commands, remote, extras>>

(* RemoteControlStatusLoaded, RemoteControlEnabledChanged. *)
HearStatus ==
    /\ Answered({"status", "enable", "disable"}, TRUE)
    /\ IF Permitted /\ remote.busy = reply.of
          /\ reply.of.generation = (IF reply.of.kind = "status" THEN remote.statusGen
                                    ELSE remote.mutationGen)
       THEN Finish(Shown(remote, reply.snapshot))
       ELSE Ignored

(* RemoteControlStatusFailed. *)
HearStatusFailedConnected ==
    /\ Answered({"status"}, FALSE)
    /\ IF remote.busy = reply.of /\ reply.of.generation = remote.statusGen
       THEN Finish(NoDevices(NoPairing([remote EXCEPT !.status = "errored"])))
       ELSE Ignored

HearStatusFailed ==
    /\ Answered({"status"}, FALSE)
    /\ IF remote.busy = reply.of /\ reply.of.generation = remote.statusGen
       THEN Finish(NoDevices(NoPairing([remote EXCEPT !.status = "errored", !.env = None])))
       ELSE Ignored

(* RemoteControlMutationFailed. *)
HearMutationFailed ==
    /\ Answered({"enable", "disable", "revoke"}, FALSE)
    /\ IF remote.busy = reply.of /\ reply.of.generation = remote.mutationGen
       THEN Finish(remote) ELSE Ignored

(* RemotePairingStarted: a code of another environment is not accepted.      *)
HearPairing ==
    /\ Answered({"pair"}, TRUE)
    /\ IF Permitted /\ remote.busy = reply.of /\ reply.of.generation = remote.pairingGen
       THEN Finish([remote EXCEPT !.pairing =
                IF Linked /\ remote.env = reply.snapshot.env
                THEN Request("pairing", reply.of.generation, reply.snapshot.env, 0) ELSE @])
       ELSE Ignored

(* RemotePairingChecked: a code that has been claimed is of no more use.     *)
HearChecked ==
    /\ Answered({"check"}, TRUE)
    /\ IF remote.busy = reply.of /\ reply.of.generation = remote.pairingGen
       THEN Finish(IF reply.word = "claimed" THEN NoPairing(remote) ELSE remote)
       ELSE Ignored

(* RemotePairingFailed. *)
HearPairingFailed ==
    /\ Answered({"pair", "check"}, FALSE)
    /\ IF remote.busy = reply.of /\ reply.of.generation = remote.pairingGen
       THEN Finish(NoPairing(remote)) ELSE Ignored

(* RemoteDevicesLoaded: a page that brings nothing new is the last.          *)
Expected(request) ==
    request.generation = remote.devices.gen /\ Linked /\ remote.env = request.env

HearDevices ==
    /\ Answered({"devices", "more"}, TRUE)
    /\ IF Expected(reply.of)
       THEN LET append == reply.of.kind = "more"
                page   == {<<reply.of.env, d>> : d \in reply.page}
                old    == remote.devices
                listed == page \cup (IF append THEN old.listed ELSE {})
                stuck  == append /\ (listed = old.listed \/ reply.next = old.asked)
            IN  /\ remote' = [remote EXCEPT !.devices =
                        [gen |-> old.gen, list |-> "ready", listed |-> listed, more |-> FALSE,
                         asked |-> 0, cursor |-> IF stuck THEN 0 ELSE reply.next]]
                /\ Silent
       ELSE Ignored

(* RemoteDevicesFailed. *)
HearDevicesFailed ==
    /\ Answered({"devices", "more"}, FALSE)
    /\ IF Expected(reply.of)
       THEN /\ remote' = [remote EXCEPT !.devices =
                         IF reply.of.kind = "more" THEN [@ EXCEPT !.more = FALSE, !.asked = 0]
                         ELSE [NoList(@.gen) EXCEPT !.list = "failed"]]
            /\ Silent
       ELSE Ignored

(* RemoteDeviceRevoked. *)
HearRevoked ==
    /\ Answered({"revoke"}, TRUE)
    /\ IF remote.busy = reply.of /\ reply.of.generation = remote.mutationGen
          /\ remote.env = reply.of.env
       THEN Finish([remote EXCEPT !.devices.listed =
                              @ \ {<<reply.of.env, reply.of.device>>}])
       ELSE Ignored

Reducer ==
    \/ HearConnected \/ HearLost \/ HearSignIn \/ HearProfiles \/ HearChanged
    \/ HearStatus \/ HearStatusFailed \/ HearMutationFailed
    \/ HearPairing \/ HearChecked \/ HearPairingFailed
    \/ HearDevices \/ HearDevicesFailed \/ HearRevoked

-----------------------------------------------------------------------------
(* The backend.  An effect is run to its end before anything else is done;   *)
(* its answer waits for room in the event queue, and may be given up.        *)

notBackend == <<lossPending, accountVars, policy, remote, requests>>

effect == Head(commands)
Takes(kinds) == commands # <<>> /\ effect.kind \in kinds /\ commands' = Tail(commands)

Lost(request) == Counted /\ unheard' = unheard \cup {request} /\ UNCHANGED events
Put(action) == events' = Append(events, action) /\ UNCHANGED unheard
Emitted(action) == (Put(action) /\ Uncounted) \/ Lost(effect)

(* The app-server tells of every change of its status.                       *)
Becomes(snapshot) ==
    /\ server' = snapshot
    /\ notices' = IF snapshot = server THEN notices
                  ELSE Append(notices, Changed(snapshot))
    /\ UNCHANGED link

Failure == IF effect.kind = "profiles" THEN Word("profiles", "failed")
           ELSE Answer(effect, FALSE)
Success == Answer(effect, TRUE)

(* Without a connection an effect fails, or makes the loss known again.      *)
RunOffline ==
    /\ ~link /\ Takes({effect.kind}) /\ effect.kind # "signIn"
    /\ Emitted(IF effect.kind = "profiles" THEN Loss ELSE Failure)
    /\ UNCHANGED <<notBackend, backendVars>>

(* The app-server refuses, or its answer comes too late.                     *)
RunFails ==
    /\ link /\ Takes({effect.kind}) /\ effect.kind # "signIn"
    /\ Counted /\ Put(Failure)
    /\ \/ UNCHANGED backendVars
       \/ /\ effect.kind \in {"enable", "disable"}
          /\ \E snapshot \in Snapshots : Becomes(snapshot)
    /\ UNCHANGED notBackend

RunStatus ==
    /\ link /\ Takes({"status"})
    /\ Emitted([Success EXCEPT !.snapshot = server])
    /\ UNCHANGED <<notBackend, backendVars>>

RunSwitch ==
    /\ link /\ Takes({"enable", "disable"})
    /\ \E snapshot \in IF effect.kind = "enable" THEN Snapshots \ {Off} ELSE {Off} :
           Becomes(snapshot) /\ Emitted([Success EXCEPT !.snapshot = snapshot])
    /\ UNCHANGED notBackend

RunPair ==
    /\ link /\ Takes({"pair"})
    /\ Emitted(IF server.env = None THEN Failure ELSE [Success EXCEPT !.snapshot = server])
    /\ UNCHANGED <<notBackend, backendVars>>

RunCheck ==
    /\ link /\ Takes({"check"})
    /\ \E word \in {"claimed", "unclaimed"} : Emitted([Success EXCEPT !.word = word])
    /\ UNCHANGED <<notBackend, backendVars>>

RunDevices ==
    /\ link /\ Takes({"devices", "more"})
    /\ \E page \in {{}} \cup {{d} : d \in Numbers} : \E next \in {0} \cup page :
           Emitted([Success EXCEPT !.page = page, !.next = next])
    /\ UNCHANGED <<notBackend, backendVars>>

RunRevoke ==
    /\ link /\ Takes({"revoke"})
    /\ Emitted(Success)
    /\ UNCHANGED <<notBackend, backendVars>>

RunProfiles ==
    /\ link /\ Takes({"profiles"})
    /\ \E allowed \in {"allowed", "forbidden"} : Emitted(Word("profiles", allowed))
    /\ UNCHANGED <<notBackend, backendVars>>

(* StartBedrockLogin: the app-server is started again, with the new          *)
(* credentials, and the reducer hears of no loss.                            *)
RunSignIn ==
    /\ Takes({"signIn"})
    /\ \/ /\ Put(Word("signIn", "failed"))
          /\ Uncounted /\ UNCHANGED backendVars
       \/ /\ link /\ Counted /\ UNCHANGED unheard
          /\ notices' = <<>> /\ server' \in Snapshots /\ link' \in BOOLEAN
          /\ events' = events \o <<Word("signIn", "accepted"),
                 IF link' THEN Connected ELSE Word("signIn", "restartFailed")>>
    /\ UNCHANGED notBackend

(* handle_notification, before the next command.  Should the notice find no  *)
(* room, the connection is given up: that is Lose.                           *)
RunNotice ==
    /\ notices # <<>> /\ notices' = Tail(notices)
    /\ Put(Head(notices)) /\ Uncounted
    /\ UNCHANGED <<notBackend, commands, server, link>>

Backend ==
    \/ RunOffline \/ RunFails \/ RunStatus \/ RunSwitch \/ RunPair \/ RunCheck
    \/ RunDevices \/ RunRevoke \/ RunProfiles \/ RunSignIn \/ RunNotice

-----------------------------------------------------------------------------
(* The rest of the world. *)

notWorld == <<commands, auth, policy, remote, unheard, requests>>

ServerChanges ==
    /\ link /\ Counted
    /\ \E snapshot \in Snapshots \ {server} : Becomes(snapshot)
    /\ UNCHANGED <<notWorld, events, lossPending, connection>>

(* The connection ends, and the reducer will hear of it.                     *)
Lose ==
    /\ link /\ link' = FALSE /\ Counted
    /\ notices' = <<>>
    /\ \/ events' = Append(events, Loss) /\ UNCHANGED lossPending
       \/ lossPending' = TRUE /\ UNCHANGED events
    /\ UNCHANGED <<notWorld, server, connection>>

(* The timer connects again, or the user does after a failed restart.        *)
Reconnect ==
    /\ ~link /\ link' = TRUE /\ connection \in {"recovering", "failed"}
    /\ connection' = IF connection = "failed" THEN "connecting" ELSE connection
    /\ server' \in Snapshots
    /\ events' = Append(events, Connected)
    /\ UNCHANGED <<notWorld, notices, lossPending, extras>>

Next == User \/ Reducer \/ Backend \/ ServerChanges \/ Lose \/ Reconnect

Spec == Init /\ [][Next]_vars

-----------------------------------------------------------------------------
(* Properties. *)

Requests ==
    [kind : {None, "status", "enable", "disable", "pair", "check", "devices", "more",
             "revoke", "profiles", "signIn", "pairing"},
     generation : Nat, env : Environments \cup {None}, device : Numbers \cup {0}]

Lists ==
    [gen : Nat, list : {"idle", "loading", "ready", "failed"},
     listed : SUBSET (Environments \X Numbers), cursor : Numbers \cup {0},
     asked : Numbers \cup {0}, more : BOOLEAN]

Remotes ==
    [status : {"disabled", "connecting", "connected", "errored"},
     env : Environments \cup {None}, busy : Requests, pending : BOOLEAN, pairing : Requests,
     devices : Lists, statusGen : Nat, mutationGen : Nat, pairingGen : Nat]

Events ==
    [kind : {"answer", "connected", "lost", "changed", "profiles", "signIn"}, of : Requests,
     ok : BOOLEAN, snapshot : Snapshots, page : SUBSET Numbers, next : Numbers \cup {0},
     word : {None, "claimed", "unclaimed", "allowed", "forbidden", "failed", "accepted",
             "restartFailed"}]

(* The state has its types, and an environment is known exactly while the    *)
(* status is connected.                                                      *)
TypeOK ==
    /\ server \in Snapshots /\ link \in BOOLEAN /\ lossPending \in BOOLEAN
    /\ notices \in Seq(Events) /\ commands \in Seq(Requests) /\ events \in Seq(Events)
    /\ \A i \in DOMAIN notices : notices[i].kind = "changed"
    /\ \A i \in DOMAIN events :
           events[i].kind = "profiles" => events[i].word \in {"allowed", "forbidden", "failed"}
    /\ connection \in {"online", "connecting", "recovering", "failed"}
    /\ auth \in {"idle", "submitting", "restarting"}
    /\ policy \in {"loading", "allowed", "forbidden", "failed"}
    /\ remote \in Remotes /\ Linked = (remote.env # None)
    /\ unheard \subseteq Requests
    /\ requests \in 0..MaxRequests /\ extras \in 0..MaxExtras

UnderWay(request) ==
    \/ request \in unheard
    \/ \E i \in DOMAIN commands : commands[i] = request
    \/ \E i \in DOMAIN events : events[i].kind = "answer" /\ events[i].of = request

(* What the page shows as busy, or as loading, it is really waiting for: the *)
(* request or its answer is under way, unless a full queue has swallowed it, *)
(* or its answer came while the policy of a new connection was loading.      *)
BusyIsReal ==
    /\ remote.busy # Idle => UnderWay(remote.busy)
    /\ remote.devices.list = "loading" =>
           UnderWay(Request("devices", remote.devices.gen, remote.env, 0))
    /\ remote.devices.more =>
           UnderWay(Request("more", remote.devices.gen, remote.env, remote.devices.asked))

(* A pairing code and a list of devices are shown under the environment they *)
(* belong to, and the code is that of the last request for one.              *)
ShownIsCurrent ==
    /\ remote.pairing # Idle => /\ Linked /\ remote.pairing.env = remote.env
                                /\ remote.pairing.generation = remote.pairingGen
    /\ \A d \in remote.devices.listed : d[1] = remote.env

Quiet ==
    /\ link /\ Online /\ Permitted /\ remote.busy = Idle
    /\ commands = <<>> /\ notices = <<>> /\ events = <<>> /\ ~lossPending

(* The page is true.  When nothing is under way it shows the status the      *)
(* app-server has, or that it could not be read: a change that arrives       *)
(* during an operation is not lost, whichever way the operation ends.  And   *)
(* at any time what it shows beside the status belongs to it.                *)
PageIsTrue ==
    /\ Quiet => Snapshot(remote.status, remote.env) \in {server, Snapshot("errored", None)}
    /\ ShownIsCurrent

=============================================================================
