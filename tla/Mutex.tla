------------------------------- MODULE Mutex -------------------------------
(***************************************************************************)
(* The user-space mutex (src/src/lib/sync.C: mutex_lock, mutex_unlock)     *)
(* over the kernel's futexes, one step per atomic instruction or system    *)
(* call, for any number of tasks.                                          *)
(*                                                                         *)
(* pc[t] is the next such step of task t and ret[t] where t goes on when   *)
(* the library call returns.  "idle" and "locked" are the client's own     *)
(* code, outside and inside its critical section.  The condition variables *)
(* and barriers of sync.C call these operations from their own code, which *)
(* is why the return address is a variable.                                *)
(***************************************************************************)
EXTENDS Futex

CONSTANT iv_val_addr            \* the address of mutex_t::iv_val

ASSUME AddrAssumption == iv_val_addr \in Addrs

VARIABLES iv_val,               \* mutex_t::iv_val
          pc, ret

mvars == <<iv_val, pc, ret, waiters>>

MutexLabels == {"lock_cas", "lock_tas", "lock_wait",
                "unlock_sub", "unlock_store", "unlock_wake"}

At(t, l) == pc[t] = l /\ Runnable(t)

Goto(t, l) == pc' = [pc EXCEPT ![t] = l] /\ UNCHANGED ret

Call(t, l, r) ==
    /\ pc'  = [pc EXCEPT ![t] = l]
    /\ ret' = [ret EXCEPT ![t] = r]

-----------------------------------------------------------------------------
(* mutex_lock                                                              *)

(* __sync_val_compare_and_swap(iv_val, 0, 1)                               *)
LockCas(t) ==
    /\ At(t, "lock_cas")
    /\ \/ iv_val = 0 /\ iv_val' = 1 /\ Goto(t, ret[t])
       \/ iv_val = 2 /\ UNCHANGED iv_val /\ Goto(t, "lock_wait")
       \/ iv_val \notin {0, 2} /\ UNCHANGED iv_val /\ Goto(t, "lock_tas")
    /\ UNCHANGED waiters

(* Mutant: only a contended mutex counts as taken.                         *)
LockTasBarges(t) ==
    /\ At(t, "lock_tas")
    /\ iv_val' = 2
    /\ Goto(t, IF iv_val # 2 THEN ret[t] ELSE "lock_wait")
    /\ UNCHANGED waiters

(* __sync_lock_test_and_set(iv_val, 2), before and inside the loop         *)
LockTas(t) ==
    /\ At(t, "lock_tas")
    /\ iv_val' = 2
    /\ Goto(t, IF iv_val = 0 THEN ret[t] ELSE "lock_wait")
    /\ UNCHANGED waiters

(* futex_wait(iv_val, 2)                                                   *)
LockWait(t) ==
    /\ At(t, "lock_wait")
    /\ FutexWait(t, iv_val_addr, iv_val, 2)
    /\ Goto(t, "lock_tas")
    /\ UNCHANGED iv_val

-----------------------------------------------------------------------------
(* mutex_unlock                                                            *)

(* Mutant: the old value is compared with > instead of >=.                 *)
UnlockSubMissesTwo(t) ==
    /\ At(t, "unlock_sub")
    /\ iv_val' = iv_val - 1
    /\ Goto(t, IF iv_val > 2 THEN "unlock_store" ELSE ret[t])
    /\ UNCHANGED waiters

(* __sync_fetch_and_sub(iv_val, 1)                                         *)
UnlockSub(t) ==
    /\ At(t, "unlock_sub")
    /\ iv_val' = iv_val - 1
    /\ Goto(t, IF iv_val >= 2 THEN "unlock_store" ELSE ret[t])
    /\ UNCHANGED waiters

(* Mutant: the call to futex_wake is forgotten.                            *)
UnlockStoreNoWake(t) ==
    /\ At(t, "unlock_store")
    /\ iv_val' = 0
    /\ Goto(t, ret[t])
    /\ UNCHANGED waiters

(* iv_val = 0                                                              *)
UnlockStore(t) ==
    /\ At(t, "unlock_store")
    /\ iv_val' = 0
    /\ Goto(t, "unlock_wake")
    /\ UNCHANGED waiters

(* futex_wake(iv_val, 1)                                                   *)
UnlockWake(t) ==
    /\ At(t, "unlock_wake")
    /\ FutexWake(iv_val_addr, 1)
    /\ Goto(t, ret[t])
    /\ UNCHANGED iv_val

MutexStep(t) ==
    \/ LockCas(t) \/ LockTas(t) \/ LockWait(t)
    \/ UnlockSub(t) \/ UnlockStore(t) \/ UnlockWake(t)

-----------------------------------------------------------------------------
(* A client that locks and unlocks for ever.                               *)

mutex_lock(t)   == At(t, "idle")   /\ Call(t, "lock_cas", "locked")
                                   /\ UNCHANGED <<iv_val, waiters>>

mutex_unlock(t) == At(t, "locked") /\ Call(t, "unlock_sub", "idle")
                                   /\ UNCHANGED <<iv_val, waiters>>

(* mutex_init                                                              *)
Init ==
    /\ FutexInit
    /\ iv_val = 0
    /\ pc  = [t \in Tasks |-> "idle"]
    /\ ret = [t \in Tasks |-> "idle"]

Next == \E t \in Tasks : mutex_lock(t) \/ mutex_unlock(t) \/ MutexStep(t)

(* The kernel preempts every task at the end of its time slice and puts it *)
(* back on a first-in first-out run queue, so a task that can run does.    *)
(* A client that has the lock is assumed to give it back; one that has not *)
(* may stay away for ever.                                                 *)
Fairness == \A t \in Tasks : WF_mvars(MutexStep(t) \/ mutex_unlock(t))

SafeSpec == Init /\ [][Next]_mvars

Spec == SafeSpec /\ Fairness

-----------------------------------------------------------------------------
TypeOK ==
    /\ FutexTypeOK
    /\ iv_val \in 0..2
    /\ pc  \in [Tasks -> MutexLabels \cup {"idle", "locked"}]
    /\ ret \in [Tasks -> {"idle", "locked"}]

(* The task owns the lock: from the atomic that saw iv_val = 0 up to the   *)
(* write that makes it 0 again.                                            *)
Holds(t) == pc[t] \in {"locked", "unlock_sub", "unlock_store"}

(* Mutual exclusion: mutex_lock's "returns when this task has the lock"    *)
(* (sys/sync.h) means that no other task has it.                           *)
MutualExclusion ==
    \A t, u \in Tasks : Holds(t) /\ Holds(u) => t = u

LockView == INSTANCE AbstractLock
    WITH Users <- Tasks, owners <- {t \in Tasks : Holds(t)}

(* The mutex implements the abstract lock: ownership goes from a task to   *)
(* nobody and from nobody to a task, never directly from one task to       *)
(* another and never away from a task that has not called mutex_unlock.    *)
ImplementsLock == LockView!LockSpec

(* No lost wake-up: when a task sleeps on the mutex, either the word says  *)
(* contended, so that the owner's unlock will go to the kernel, or a task  *)
(* is already on its way to wake a sleeper or to mark the word contended   *)
(* again.                                                                  *)
NoLostWakeup ==
    waiters[iv_val_addr] # << >> =>
        \/ iv_val = 2
        \/ \E t \in Tasks :
              \/ pc[t] \in {"unlock_store", "unlock_wake"}
              \/ At(t, "lock_tas")

(* Whenever a task wants the lock, some task eventually has it.  (Which    *)
(* one is not promised: wake-ups are newest first and a task that arrives  *)
(* meanwhile may overtake.)                                                *)
SomeoneGetsIn ==
    (\E t \in Tasks : pc[t] \in {"lock_cas", "lock_tas", "lock_wait"})
        ~> (\E t \in Tasks : pc[t] = "locked")
=============================================================================
