--------------------------- MODULE RecursiveMutex ---------------------------
(***************************************************************************)
(* The recursive mutex of src/src/lib/sync.C (recursive_mutex_lock,        *)
(* recursive_mutex_unlock).  Its slow path and the end of its unlock are   *)
(* the ones of the plain mutex, whose steps are reused; before them the    *)
(* owner field is read without the lock.                                   *)
(***************************************************************************)
EXTENDS Mutex

CONSTANTS NoOwner,          \* iv_owner = 0, which is no client's task id
          MaxDepth          \* bound on a client's nesting of the lock

ASSUME OwnerAssumption == NoOwner \notin Tasks /\ MaxDepth \in Nat \ {0}

VARIABLES iv_owner, iv_ownerLockCount,
          l_lockStatus,     \* the local of recursive_mutex_lock, per task
          depth             \* history: locks a task has and has not undone

rvars == <<iv_owner, iv_ownerLockCount, l_lockStatus, depth>>

rmvars == <<mvars, rvars>>

RecursiveLabels == {"rlock_cas", "rlock_check", "rlock_own", "runlock"}

-----------------------------------------------------------------------------
(* recursive_mutex_lock                                                    *)

recursive_mutex_lock(t) ==
    /\ At(t, IF depth[t] = 0 THEN "idle" ELSE "locked")
    /\ depth[t] < MaxDepth
    /\ Goto(t, "rlock_cas")
    /\ UNCHANGED <<iv_val, waiters, rvars>>

(* __sync_val_compare_and_swap(iv_val, 0, 1)                               *)
RLockCas(t) ==
    /\ At(t, "rlock_cas")
    /\ l_lockStatus' = [l_lockStatus EXCEPT ![t] = iv_val]
    /\ iv_val' = IF iv_val = 0 THEN 1 ELSE iv_val
    /\ Goto(t, IF iv_val = 0 THEN "rlock_own" ELSE "rlock_check")
    /\ UNCHANGED <<waiters, iv_owner, iv_ownerLockCount, depth>>

(* Mutant: the owner is recognised but does not count.                     *)
RLockCheckNoCount(t) ==
    /\ At(t, "rlock_check")
    /\ IF iv_owner = t
       THEN /\ depth' = [depth EXCEPT ![t] = @ + 1]
            /\ Goto(t, "locked")
       ELSE /\ Call(t, IF l_lockStatus[t] # 2 THEN "lock_tas" ELSE "lock_wait",
                       "rlock_own")
            /\ UNCHANGED depth
    /\ UNCHANGED <<iv_val, waiters, iv_owner, iv_ownerLockCount, l_lockStatus>>

(* task_gettid() == iv_owner: the owner counts and returns, another task   *)
(* goes to the slow path of the mutex                                      *)
RLockCheck(t) ==
    /\ At(t, "rlock_check")
    /\ IF iv_owner = t
       THEN /\ iv_ownerLockCount' = iv_ownerLockCount + 1
            /\ depth' = [depth EXCEPT ![t] = @ + 1]
            /\ Goto(t, "locked")
       ELSE /\ Call(t, IF l_lockStatus[t] # 2 THEN "lock_tas" ELSE "lock_wait",
                       "rlock_own")
            /\ UNCHANGED <<iv_ownerLockCount, depth>>
    /\ UNCHANGED <<iv_val, waiters, iv_owner, l_lockStatus>>

(* iv_owner = task_gettid(), ++iv_ownerLockCount                           *)
RLockOwn(t) ==
    /\ At(t, "rlock_own")
    /\ iv_owner' = t
    /\ iv_ownerLockCount' = iv_ownerLockCount + 1
    /\ depth' = [depth EXCEPT ![t] = @ + 1]
    /\ Goto(t, "locked")
    /\ UNCHANGED <<iv_val, waiters, l_lockStatus>>

-----------------------------------------------------------------------------
(* recursive_mutex_unlock                                                  *)

recursive_mutex_unlock(t) ==
    /\ At(t, "locked")
    /\ depth' = [depth EXCEPT ![t] = @ - 1]
    /\ Goto(t, "runlock")
    /\ UNCHANGED <<iv_val, waiters, iv_owner, iv_ownerLockCount, l_lockStatus>>

(* The last unlock clears the owner and releases the mutex, the others     *)
(* only count.  Nobody but the owner looks at iv_ownerLockCount.           *)
RUnlock(t) ==
    /\ At(t, "runlock")
    /\ IF iv_ownerLockCount <= 1
       THEN /\ iv_ownerLockCount' = 0
            /\ iv_owner' = NoOwner
            /\ Call(t, "unlock_sub", "idle")
       ELSE /\ iv_ownerLockCount' = iv_ownerLockCount - 1
            /\ UNCHANGED iv_owner
            /\ Goto(t, "locked")
    /\ UNCHANGED <<iv_val, waiters, l_lockStatus, depth>>

RecursiveStep(t) ==
    \/ (LockTas(t) \/ LockWait(t) \/ UnlockSub(t) \/ UnlockStore(t)
            \/ UnlockWake(t)) /\ UNCHANGED rvars
    \/ RLockCas(t) \/ RLockCheck(t) \/ RLockOwn(t) \/ RUnlock(t)

(* recursive_mutex_init                                                    *)
RecursiveInit ==
    /\ Init
    /\ iv_owner = NoOwner
    /\ iv_ownerLockCount = 0
    /\ l_lockStatus = [t \in Tasks |-> 0]
    /\ depth = [t \in Tasks |-> 0]

RecursiveNext ==
    \E t \in Tasks : \/ recursive_mutex_lock(t)
                     \/ recursive_mutex_unlock(t)
                     \/ RecursiveStep(t)

(* A task that has the lock gives it back: it may nest it first, but not   *)
(* for ever.                                                               *)
RecursiveFairness ==
    \A t \in Tasks : /\ WF_rmvars(RecursiveStep(t))
                     /\ SF_rmvars(recursive_mutex_unlock(t))

RecursiveSpec ==
    RecursiveInit /\ [][RecursiveNext]_rmvars /\ RecursiveFairness

-----------------------------------------------------------------------------
(* The values the recursive mutex's state can have.                        *)
RecursiveTypeOK ==
    /\ FutexTypeOK
    /\ iv_val \in 0..2
    /\ pc  \in [Tasks -> (MutexLabels \ {"lock_cas"}) \cup RecursiveLabels
                            \cup {"idle", "locked"}]
    /\ ret \in [Tasks -> {"idle", "rlock_own"}]
    /\ iv_owner \in Tasks \cup {NoOwner}
    /\ iv_ownerLockCount \in 0..MaxDepth
    /\ l_lockStatus \in [Tasks -> 0..2]
    /\ depth \in [Tasks -> 0..MaxDepth]

(* The task has the lock, at any depth.                                    *)
RecursiveHolds(t) ==
    \/ depth[t] > 0
    \/ pc[t] \in {"rlock_own", "runlock", "unlock_sub", "unlock_store"}

(* Mutual exclusion, with the read of iv_owner racing the owner's writes.  *)
RecursiveMutualExclusion ==
    /\ \A t, u \in Tasks : RecursiveHolds(t) /\ RecursiveHolds(u) => t = u
    /\ iv_val = 0 <=> \A t \in Tasks : ~RecursiveHolds(t)

(* "how much unwinding will be necessary" is always right: in its critical *)
(* section a task is the owner, and the count is its own nesting depth, so *)
(* the mutex is released by the unlock that matches the first lock.        *)
OwnerCountsNesting ==
    \A t \in Tasks :
        pc[t] = "locked" => iv_owner = t /\ iv_ownerLockCount = depth[t]

(* Whenever a task wants the lock, some task eventually has it, and an     *)
(* owner that locks again gets through.                                    *)
RecursiveProgress ==
    /\ (\E t \in Tasks : pc[t] \in {"rlock_cas", "lock_tas", "lock_wait"})
            ~> (\E t \in Tasks : pc[t] = "locked")
    /\ \A t \in Tasks :
            (pc[t] = "rlock_cas" /\ depth[t] > 0) ~> (pc[t] = "locked")
=============================================================================
