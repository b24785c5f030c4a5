------------------------------ MODULE RateLimiter ------------------------------
(***************************************************************************)
(* app/rate_limit.py: RateLimiter.acquire, which every client of an LLM or *)
(* embedding provider calls right before it calls the provider, from the   *)
(* threads of the pool.  Time is counted in ticks of any length and only   *)
(* up to min, since nothing tells longer intervals apart.                  *)
(***************************************************************************)
EXTENDS Integers

CONSTANTS
    Threads,   \* pool threads that call a provider
    Nobody,    \* no thread
    MaxMin     \* bound on _min, in ticks

ASSUME ThreadsAssumption == Nobody \notin Threads
ASSUME MaxMinAssumption == MaxMin \in Nat

VARIABLES
    min,         \* _min, from the settings
    pc,          \* where every thread stands
    lock,        \* the thread that holds _lock
    left,        \* what is left of the wait of the thread that holds _lock
    elapsed      \* monotonic() - _last, at most min

vars == <<min, pc, lock, left, elapsed>>

Later(d) == IF d < min THEN d + 1 ELSE min

Init ==
    /\ min \in 0 .. MaxMin
    /\ pc = [t \in Threads |-> "out"]
    /\ lock = Nobody /\ left = 0
    /\ elapsed \in 0 .. min    \* _last is 0.0, the clock's origin is arbitrary

Goto(t, where) == pc' = [pc EXCEPT ![t] = where]

(* acquire() with a positive interval is entered: the thread goes for the lock. *)
Enter(t) ==
    /\ pc[t] = "out" /\ min > 0
    /\ Goto(t, "lock")
    /\ UNCHANGED <<min, lock, left, elapsed>>

(* Without an interval acquire() returns at once. *)
Unlimited(t) ==
    /\ pc[t] = "out" /\ min = 0
    /\ Goto(t, "granted")
    /\ UNCHANGED <<min, lock, left, elapsed>>

(* Seeded fault: the wait is computed without taking the lock. *)
MeasureUnlocked(t) ==
    /\ pc[t] = "lock"
    /\ lock' = t
    /\ left' = min - elapsed
    /\ Goto(t, "sleep")
    /\ UNCHANGED <<min, elapsed>>

(* The thread gets the lock, reads the clock and computes its wait. *)
Measure(t) ==
    /\ pc[t] = "lock" /\ lock = Nobody
    /\ lock' = t
    /\ left' = min - elapsed
    /\ Goto(t, "sleep")
    /\ UNCHANGED <<min, elapsed>>

(* Seeded fault: a return that does not release the lock. *)
StampKeepingLock(t) ==
    /\ pc[t] = "sleep" /\ left = 0
    /\ elapsed' = 0
    /\ Goto(t, "granted")
    /\ UNCHANGED <<min, lock, left>>

(* sleep() is over, if there was one: the grant is stamped, the lock released. *)
Stamp(t) ==
    /\ pc[t] = "sleep" /\ left = 0
    /\ elapsed' = 0
    /\ lock' = Nobody
    /\ Goto(t, "granted")
    /\ UNCHANGED <<min, left>>

(* The thread, back in the client, calls the provider. *)
Call(t) ==
    /\ pc[t] = "granted"
    /\ Goto(t, "out")
    /\ UNCHANGED <<min, lock, left, elapsed>>

Tick ==
    /\ elapsed' = Later(elapsed)
    /\ left' = IF left > 0 THEN left - 1 ELSE 0
    /\ UNCHANGED <<min, pc, lock>>

Next == Tick \/ \E t \in Threads : Enter(t) \/ Unlimited(t) \/ Measure(t) \/ Stamp(t) \/ Call(t)

Spec == Init /\ [][Next]_vars

(* Time passes and a thread that sleeps wakes up; nothing orders the threads
   that wait for a threading.Lock.                                            *)
FairSpec == Spec /\ WF_vars(Tick) /\ \A t \in Threads : WF_vars(Stamp(t))
-----------------------------------------------------------------------------
(* Every variable has its type. *)
TypeOK ==
    /\ pc \in [Threads -> {"out", "lock", "sleep", "granted"}]
    /\ lock \in Threads \cup {Nobody}
    /\ min \in 0 .. MaxMin
    /\ left \in 0 .. min /\ elapsed \in 0 .. min

(* What keeps the grants apart: exactly the holder of the lock sleeps, and its
   wait ends no earlier than the interval does.                               *)
WaitIsEnough ==
    \A t \in Threads : pc[t] = "sleep" <=> lock = t
LongEnough == lock # Nobody => left + elapsed >= min

LimiterInv == TypeOK /\ WaitIsEnough /\ LongEnough

(* Whatever the threads do, two grants are at least _min apart. *)
GrantsSpaced ==
    [][\A t \in Threads : pc[t] = "sleep" /\ pc'[t] = "granted" => elapsed = min]_vars

(* sleep() under the lock holds everybody up, but never for good. *)
LockReleased == \A t \in Threads : lock = t ~> lock # t

=============================================================================
