---------------------------- MODULE AbstractLock ----------------------------
(***************************************************************************)
(* What a lock promises its callers: at any time at most one of them owns  *)
(* it, and only the owner gives it back.  The user-space mutex             *)
(* (src/src/lib/sync.C) is shown to implement it, and the page manager's   *)
(* ticket lock (src/src/kernel/spinlock.C) is taken to be it.              *)
(***************************************************************************)
CONSTANT Users

VARIABLE owners                 \* those who have the lock

(* lock() has returned                                                     *)
Lock(u) == owners = {} /\ owners' = {u}

(* unlock() has released the lock                                          *)
Unlock(u) == owners = {u} /\ owners' = {}

LockInit == owners = {}

LockNext == \E u \in Users : Lock(u) \/ Unlock(u)

LockSpec == LockInit /\ [][LockNext]_owners
=============================================================================
