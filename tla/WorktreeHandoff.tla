--------------------------- MODULE WorktreeHandoff ---------------------------
(***************************************************************************)
(* What the forks of a chat into a new worktree promise together, as       *)
(* docs/parity-matrix.md:83 puts it: a FIFO of requests of which "exactly  *)
(* one end-to-end handoff runs at a time", queued requests "can be         *)
(* cancelled immediately, and active cancellation waits for the supervised *)
(* Git worker to stop before advancing".                                   *)
(***************************************************************************)
EXTENDS Naturals

CONSTANT Forks   \* the requests, numbered in the order they are made

VARIABLES
    stage,    \* stage[f]: "new", "queued", "running" or "ended"
    working   \* forks for which a Git worker or a thread/fork is at work

Init == stage = [f \in Forks |-> "new"] /\ working = {}

Move(f, from, to) ==
    /\ stage[f] = from
    /\ stage' = [stage EXCEPT ![f] = to]

InOrder(f, passed) == \A other \in Forks : other < f => stage[other] \in passed

Request(f) ==
    /\ InOrder(f, {"queued", "running", "ended"})
    /\ \/ Move(f, "new", "queued")
       \/ Move(f, "new", "running") /\ \A other \in Forks : stage[other] \in {"new", "ended"}
    /\ UNCHANGED working

Withdraw(f) == Move(f, "queued", "ended") /\ UNCHANGED working

(* A handoff ends, at rest, and the oldest request that is left begins. *)
End(f) ==
    /\ stage[f] = "running" /\ working = {}
    /\ \E next \in Forks \cup {0} :
         /\ IF next = 0 THEN \A other \in Forks : stage[other] # "queued"
            ELSE stage[next] = "queued" /\ InOrder(next, {"running", "ended"})
         /\ stage' = [g \in Forks |-> CASE g = f -> "ended" [] g = next -> "running"
                                        [] OTHER -> stage[g]]
    /\ UNCHANGED working

Work(f) == stage[f] = "running" /\ working' = {f} /\ UNCHANGED stage
Rest    == working' = {} /\ UNCHANGED stage

Next == Rest \/ \E f \in Forks : Request(f) \/ Withdraw(f) \/ End(f) \/ Work(f)

Spec == Init /\ [][Next]_<<stage, working>>
=============================================================================
