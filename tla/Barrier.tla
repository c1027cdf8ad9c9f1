------------------------------ MODULE Barrier ------------------------------
(***************************************************************************)
(* The user-space barrier of src/src/lib/sync.C (barrier_wait,             *)
(* barrier_destroy) over the mutex of module Mutex, which is its iv_mutex, *)
(* and a futex on iv_event.  The barrier is reused round after round by    *)
(* all tasks, the number it was initialised with.                          *)
(***************************************************************************)
EXTENDS Mutex

CONSTANTS iv_event_addr,   \* the address of barrier_t::iv_event
          Destroyer,       \* the task that destroys the barrier at the end
          MaxRounds        \* bound on the number of barrier_wait calls

ASSUME BarrierAddrAssumption ==
    iv_event_addr \in Addrs /\ iv_event_addr # iv_val_addr

VARIABLES iv_event, iv_missing,
          l_event,         \* the local of barrier_wait, per task
          calls, returns   \* history: barrier_wait calls begun and returned

bvars == <<iv_event, iv_missing, l_event, calls, returns>>

bmvars == <<mvars, bvars>>

iv_count == Cardinality(Tasks)

BarrierLabels == {"barrier_dec", "barrier_wait", "barrier_test",
                  "barrier_event", "barrier_reset", "barrier_wake",
                  "barrier_return", "destroy"}

-----------------------------------------------------------------------------
(* barrier_wait                                                            *)

barrier_wait(t) ==
    /\ At(t, "idle")
    /\ calls[t] < MaxRounds
    /\ calls' = [calls EXCEPT ![t] = @ + 1]
    /\ Call(t, "lock_cas", "barrier_dec")
    /\ UNCHANGED <<iv_val, waiters, iv_event, iv_missing, l_event, returns>>

(* Mutant: the last but one arrival opens the barrier.                     *)
BarrierDecEarly(t) ==
    /\ At(t, "barrier_dec")
    /\ iv_missing' = iv_missing - 1
    /\ \/ /\ iv_missing' > 1
          /\ l_event' = [l_event EXCEPT ![t] = iv_event]
          /\ Call(t, "unlock_sub", "barrier_wait")
       \/ /\ iv_missing' <= 1
          /\ UNCHANGED l_event
          /\ Goto(t, "barrier_event")
    /\ UNCHANGED <<iv_val, waiters, iv_event, calls, returns>>

(* --iv_missing, and for all but the last arrival the read of iv_event,    *)
(* both under iv_mutex                                                     *)
BarrierDec(t) ==
    /\ At(t, "barrier_dec")
    /\ iv_missing' = iv_missing - 1
    /\ \/ /\ iv_missing' > 0
          /\ l_event' = [l_event EXCEPT ![t] = iv_event]
          /\ Call(t, "unlock_sub", "barrier_wait")
       \/ /\ iv_missing' = 0
          /\ UNCHANGED l_event
          /\ Goto(t, "barrier_event")
    /\ UNCHANGED <<iv_val, waiters, iv_event, calls, returns>>

(* futex_wait(iv_event, l_event)                                           *)
BarrierWait(t) ==
    /\ At(t, "barrier_wait")
    /\ FutexWait(t, iv_event_addr, iv_event, l_event[t])
    /\ Goto(t, "barrier_test")
    /\ UNCHANGED <<iv_val, bvars>>

(* while (iv_event == l_event), read without the mutex                     *)
BarrierTest(t) ==
    /\ At(t, "barrier_test")
    /\ Goto(t, IF iv_event = l_event[t] THEN "barrier_wait"
                                        ELSE "barrier_return")
    /\ UNCHANGED <<iv_val, waiters, bvars>>

(* ++iv_event                                                              *)
BarrierEvent(t) ==
    /\ At(t, "barrier_event")
    /\ iv_event' = iv_event + 1
    /\ Goto(t, "barrier_reset")
    /\ UNCHANGED <<iv_val, waiters, iv_missing, l_event, calls, returns>>

(* Mutant: iv_missing is not reset.                                        *)
BarrierResetForgotten(t) ==
    /\ At(t, "barrier_reset")
    /\ Goto(t, "barrier_wake")
    /\ UNCHANGED <<iv_val, waiters, bvars>>

(* iv_missing = iv_count                                                   *)
BarrierReset(t) ==
    /\ At(t, "barrier_reset")
    /\ iv_missing' = iv_count
    /\ Goto(t, "barrier_wake")
    /\ UNCHANGED <<iv_val, waiters, iv_event, l_event, calls, returns>>

(* futex_wake(iv_event, UINT64_MAX), then mutex_unlock                     *)
BarrierWake(t) ==
    /\ At(t, "barrier_wake")
    /\ FutexWake(iv_event_addr, AllWaiters)
    /\ Call(t, "unlock_sub", "barrier_return")
    /\ UNCHANGED <<iv_val, bvars>>

BarrierReturn(t) ==
    /\ At(t, "barrier_return")
    /\ returns' = [returns EXCEPT ![t] = @ + 1]
    /\ Goto(t, "idle")
    /\ UNCHANGED <<iv_val, waiters, iv_event, iv_missing, l_event, calls>>

(* barrier_destroy, called after the last round as synctest.H does; what   *)
(* it asserts is DestroyAssertion.                                         *)
barrier_destroy(t) ==
    /\ t = Destroyer
    /\ At(t, "idle") /\ returns[t] = MaxRounds
    /\ Goto(t, "destroy")
    /\ UNCHANGED <<iv_val, waiters, bvars>>

BarrierStep(t) ==
    \/ MutexStep(t) /\ UNCHANGED bvars
    \/ BarrierDec(t) \/ BarrierWait(t) \/ BarrierTest(t)
    \/ BarrierEvent(t) \/ BarrierReset(t) \/ BarrierWake(t)
    \/ BarrierReturn(t)

(* barrier_init                                                            *)
BarrierInit ==
    /\ Init
    /\ iv_event = 0
    /\ iv_missing = iv_count
    /\ l_event = [t \in Tasks |-> 0]
    /\ calls   = [t \in Tasks |-> 0]
    /\ returns = [t \in Tasks |-> 0]

BarrierNext ==
    \E t \in Tasks : barrier_wait(t) \/ BarrierStep(t) \/ barrier_destroy(t)

(* Every task keeps running and keeps coming to the barrier.               *)
BarrierFairness ==
    \A t \in Tasks : WF_bmvars(barrier_wait(t) \/ BarrierStep(t))

BarrierSpec == BarrierInit /\ [][BarrierNext]_bmvars /\ BarrierFairness

-----------------------------------------------------------------------------
(* The values the barrier's state can have.                                *)
BarrierTypeOK ==
    /\ FutexTypeOK
    /\ iv_val \in 0..2
    /\ pc \in [Tasks -> MutexLabels \cup BarrierLabels \cup {"idle"}]
    /\ ret \in [Tasks -> {"idle", "barrier_dec", "barrier_wait",
                          "barrier_return"}]
    /\ iv_event \in 0..MaxRounds
    /\ iv_missing \in 0..iv_count
    /\ l_event \in [Tasks -> 0..MaxRounds]
    /\ calls \in [Tasks -> 0..MaxRounds]
    /\ returns \in [Tasks -> 0..MaxRounds]

(* The promise of barrier_wait, "block until the barrier count is          *)
(* reached": no task leaves round n before every task has come to round n, *)
(* so fast tasks never overrun slow ones by a round.                       *)
NobodyLeavesEarly ==
    \A t, u \in Tasks : returns[t] <= calls[u]

(* Everyone gets through every round.                                      *)
EveryRoundEnds ==
    \A t \in Tasks : <>[](returns[t] = MaxRounds)

(* What barrier_destroy asserts, crit_assert(iv_missing == iv_count), when *)
(* a task destroys the barrier after its last wait on it returned.         *)
DestroyAssertion ==
    \A t \in Tasks : pc[t] = "destroy" => iv_missing = iv_count
=============================================================================
