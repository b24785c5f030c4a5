--------------------------- MODULE RateLimiter_proofs ---------------------------
(* Proofs about RateLimiter: for every set of threads and every interval. *)
EXTENDS RateLimiter, TLAPS

(* The invariant holds when the limiter is created. *)
LEMMA InitEstablishesInv == Init => LimiterInv
BY ThreadsAssumption, MaxMinAssumption
   DEF Init, LimiterInv, TypeOK, WaitIsEnough, LongEnough

(* Time takes from the wait what it adds to the interval. *)
LEMMA TickKeepsInv == LimiterInv /\ Tick => LimiterInv'
<1> SUFFICES ASSUME LimiterInv, Tick PROVE LimiterInv'
  OBVIOUS
<1> USE MaxMinAssumption
<1>1. TypeOK'
  BY DEF LimiterInv, TypeOK, Tick, Later
<1>2. WaitIsEnough'
  BY DEF LimiterInv, WaitIsEnough, Tick
<1>3. LongEnough'
  BY DEF LimiterInv, TypeOK, LongEnough, Tick, Later
<1> QED
  BY <1>1, <1>2, <1>3 DEF LimiterInv

(* What a thread does keeps the lock with the one that waits, and its wait long
   enough.                                                                     *)
LEMMA ThreadKeepsInv ==
    ASSUME LimiterInv, NEW t \in Threads,
           Enter(t) \/ Unlimited(t) \/ Measure(t) \/ Stamp(t) \/ Call(t)
    PROVE  LimiterInv'
<1> USE ThreadsAssumption, MaxMinAssumption
<1>1. CASE Enter(t)
  BY <1>1 DEF LimiterInv, TypeOK, WaitIsEnough, LongEnough, Enter, Goto
<1>2. CASE Unlimited(t)
  BY <1>2 DEF LimiterInv, TypeOK, WaitIsEnough, LongEnough, Unlimited, Goto
<1>3. CASE Measure(t)
  BY <1>3 DEF LimiterInv, TypeOK, WaitIsEnough, LongEnough, Measure, Goto
<1>4. CASE Stamp(t)
  BY <1>4 DEF LimiterInv, TypeOK, WaitIsEnough, LongEnough, Stamp, Goto
<1>5. CASE Call(t)
  BY <1>5 DEF LimiterInv, TypeOK, WaitIsEnough, LongEnough, Call, Goto
<1> QED
  BY <1>1, <1>2, <1>3, <1>4, <1>5

(* Every step keeps the invariant. *)
LEMMA NextKeepsInv == LimiterInv /\ [Next]_vars => LimiterInv'
<1>1. ASSUME LimiterInv, UNCHANGED vars PROVE LimiterInv'
  BY <1>1 DEF LimiterInv, TypeOK, WaitIsEnough, LongEnough, vars
<1> QED
  BY <1>1, TickKeepsInv, ThreadKeepsInv DEF Next

(* Only the holder of the lock sleeps, and its wait ends no earlier than the
   interval does.                                                            *)
THEOREM InvHolds == Spec => []LimiterInv
BY InitEstablishesInv, NextKeepsInv, PTL DEF Spec

(* Two grants of the limiter are at least the interval apart, however many
   threads call it.                                                         *)
THEOREM GrantsAreSpaced == Spec => GrantsSpaced
<1>1. ASSUME LimiterInv, [Next]_vars, NEW t \in Threads,
             pc[t] = "sleep", pc'[t] = "granted"
      PROVE  elapsed = min
  <2>1. Stamp(t)
    BY <1>1 DEF Next, vars, Tick, Enter, Unlimited, Measure, Stamp, Call, Goto, LimiterInv, TypeOK
  <2>2. lock = t /\ left = 0
    BY <1>1, <2>1 DEF Stamp, LimiterInv, WaitIsEnough
  <2> QED
    BY <1>1, <2>2, ThreadsAssumption, MaxMinAssumption DEF LimiterInv, TypeOK, LongEnough
<1>2. LimiterInv /\ [Next]_vars =>
        [\A t \in Threads : pc[t] = "sleep" /\ pc'[t] = "granted" => elapsed = min]_vars
  BY <1>1
<1> QED
  BY <1>2, InvHolds, PTL DEF Spec, GrantsSpaced
=============================================================================
