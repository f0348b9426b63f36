------------------------------ MODULE ByteBudget ------------------------------
(***************************************************************************)
(* The byte budget shared by the threads that carry large frames           *)
(* (crates/codex-platform/src/byte_budget.rs): a mutex over the bytes in   *)
(* use, and a condition variable for those who wait for room.              *)
(*                                                                         *)
(* What a thread does while it holds the mutex is one step.  A lease is    *)
(* returned in two: the bytes under the mutex, then notify_all without it. *)
(***************************************************************************)
EXTENDS Naturals, FiniteSets, Functions

CONSTANTS
    Threads,   \* the threads that take leases
    Limit,     \* ByteBudgetInner::limit
    MaxBytes   \* bound: the largest request; it may exceed the limit

ASSUME BudgetAssumption == Limit \in Nat /\ MaxBytes \in Nat /\ IsFiniteSet(Threads)

VARIABLES
    usedBytes, \* bytes leased
    state,     \* state[t]: what thread t does with the budget
    bytes,     \* bytes[t]: the size of its request or of its lease
    notified,  \* the waiters that a notify_all has reached
    timedOut   \* the waiters whose timeout has passed

budgetVars == <<usedBytes, state, bytes, notified, timedOut>>

BudgetInit ==
    /\ usedBytes = 0
    /\ state = [t \in Threads |-> "idle"] /\ bytes = [t \in Threads |-> 0]
    /\ notified = {} /\ timedOut = {}

InState(s) == {t \in Threads : state[t] = s}

(* acquire_if_available: usize subtraction saturates at zero. *)
Left == IF usedBytes > Limit THEN 0 ELSE Limit - usedBytes
Fits(n) == n <= Limit /\ n <= Left

Become(t, s) == state' = [state EXCEPT ![t] = s]
Forget(t) == notified' = notified \ {t} /\ timedOut' = timedOut \ {t}

Grant(t) == usedBytes' = usedBytes + bytes[t] /\ Become(t, "leased") /\ Forget(t)
Decline(t) == Become(t, "idle") /\ Forget(t) /\ UNCHANGED usedBytes

(* Back to sleep: earlier notifications do not count, the deadline does. *)
Sleep(t) ==
    /\ Become(t, "waiting")
    /\ notified' = notified \ {t}
    /\ UNCHANGED <<usedBytes, timedOut>>

(* try_acquire, and acquire_timeout up to its first check. *)
Call(t, n, how) ==
    /\ state[t] = "idle"
    /\ Become(t, how) /\ bytes' = [bytes EXCEPT ![t] = n]
    /\ UNCHANGED <<usedBytes, notified, timedOut>>

TryAcquire(t) ==
    /\ state[t] = "trying"
    /\ IF Fits(bytes[t]) THEN Grant(t) ELSE Decline(t)
    /\ UNCHANGED bytes

(* One round of the loop of acquire_timeout, under the mutex. *)
RoundDeadlineFirst(t) ==
    IF t \in timedOut THEN Decline(t)
    ELSE IF Fits(bytes[t]) THEN Grant(t) ELSE Sleep(t)
Round(t) ==
    IF Fits(bytes[t]) THEN Grant(t)
    ELSE IF t \in timedOut THEN Decline(t) ELSE Sleep(t)

Acquire(t) ==
    /\ state[t] = "acquiring"
    /\ IF bytes[t] > Limit THEN Decline(t) ELSE Round(t)
    /\ UNCHANGED bytes

(* wait_timeout returns: notified, timed out, or for no reason at all.  A    *)
(* waiter that timed out and sees too little room leaves, another loops.     *)
Wake(t) ==
    /\ state[t] = "waiting" /\ t \in notified \cup timedOut
    /\ Round(t)
    /\ UNCHANGED bytes

WakeSpuriously(t) ==
    /\ state[t] = "waiting" /\ t \notin notified \cup timedOut
    /\ Round(t)
    /\ UNCHANGED bytes

(* Time passes for a waiter. *)
TimesOut(t) ==
    /\ state[t] \in {"acquiring", "waiting"} /\ t \notin timedOut
    /\ timedOut' = timedOut \cup {t}
    /\ UNCHANGED <<usedBytes, state, bytes, notified>>

(* ByteLease::drop *)
ReturnTwice(t) ==
    /\ state[t] = "leased"
    /\ usedBytes' = IF 2 * bytes[t] > usedBytes THEN 0 ELSE usedBytes - 2 * bytes[t]
    /\ Become(t, "notifying")
    /\ UNCHANGED <<bytes, notified, timedOut>>

Return(t) ==
    /\ state[t] = "leased"
    /\ usedBytes' = IF bytes[t] > usedBytes THEN 0 ELSE usedBytes - bytes[t]
    /\ Become(t, "notifying")
    /\ UNCHANGED <<bytes, notified, timedOut>>

NotifyOne(t) ==
    /\ state[t] = "notifying"
    /\ Become(t, "idle")
    /\ IF InState("waiting") = {} THEN UNCHANGED notified
       ELSE \E w \in InState("waiting") : notified' = notified \cup {w}
    /\ UNCHANGED <<usedBytes, bytes, timedOut>>

NotifyAll(t) ==
    /\ state[t] = "notifying"
    /\ Become(t, "idle")
    /\ notified' = notified \cup InState("waiting")
    /\ UNCHANGED <<usedBytes, bytes, timedOut>>

BudgetNext ==
    \E t \in Threads :
        \/ \E n \in 0..MaxBytes, how \in {"trying", "acquiring"} : Call(t, n, how)
        \/ TryAcquire(t) \/ Acquire(t) \/ Wake(t) \/ WakeSpuriously(t) \/ TimesOut(t)
        \/ Return(t) \/ NotifyAll(t)

(* A thread inside the budget runs on and one that has been woken returns    *)
(* from its wait; nothing is assumed of how long a lease is held, of time or *)
(* of spurious wake-ups.                                                     *)
Fairness ==
    \A t \in Threads : WF_budgetVars(TryAcquire(t) \/ Acquire(t) \/ Wake(t) \/ NotifyAll(t))

BudgetSpec == BudgetInit /\ [][BudgetNext]_budgetVars /\ Fairness

-----------------------------------------------------------------------------
BudgetTypes ==
    /\ usedBytes \in Nat
    /\ state \in [Threads -> {"idle", "trying", "acquiring", "waiting", "leased", "notifying"}]
    /\ bytes \in [Threads -> 0..MaxBytes]
    /\ notified \subseteq InState("waiting")
    /\ timedOut \subseteq InState("acquiring") \cup InState("waiting")

(* The bytes in use are those of the leases, within the limit: no lease is   *)
(* counted twice, none is forgotten.                                         *)
UsedIsLeased == usedBytes <= Limit /\ usedBytes = SumFunctionOnSet(bytes, InState("leased"))

(* The account of the budget: values of the right kinds that add up.         *)
AccountIsExact == BudgetTypes /\ UsedIsLeased

(* A request is refused only when it does not fit at that moment: running    *)
(* out of time does not refuse what has meanwhile become free.               *)
RefusedOnlyWhenFull ==
    [][\A t \in Threads :
           state[t] \in {"trying", "acquiring", "waiting"} /\ state'[t] = "idle"
               => ~Fits(bytes[t])]_budgetVars

(* No lost wake-up: a waiter does not sleep for ever beside the room it      *)
(* waits for, even if its timeout never comes.                               *)
NoLostWakeUp == \A t \in Threads : ~<>[](state[t] = "waiting" /\ Fits(bytes[t]))
=============================================================================
