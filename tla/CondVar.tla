------------------------------ MODULE CondVar ------------------------------
(***************************************************************************)
(* The condition variable of src/src/lib/sync.C over the mutex of module   *)
(* Mutex: sync_cond_wait, sync_cond_signal, sync_cond_broadcast.           *)
(*                                                                         *)
(* sync_cond_wait calls mutex_unlock, so its own caller's continuation is  *)
(* kept apart, in cret.  It takes the mutex back by the test-and-set loop  *)
(* that mutex_lock falls into when the mutex is contended, which is the    *)
(* step LockTas.                                                           *)
(***************************************************************************)
EXTENDS Mutex

CONSTANTS sequence_addr,   \* the address of sync_cond_t::sequence
          NULL,            \* no mutex bound to the condition variable yet
          TheMutex,        \* the mutex that this module's tasks wait with
          OtherMutex,      \* some other mutex
          MaxSequence      \* bound on the number of signals and broadcasts

ASSUME CondAddrAssumption ==
    sequence_addr \in Addrs /\ sequence_addr # iv_val_addr

VARIABLES mutex,           \* sync_cond_t::mutex
          sequence,        \* sync_cond_t::sequence
          seq,             \* the local of sync_cond_wait, per task
          cret,            \* where sync_cond_wait returns to, per task
          lastBroadcast    \* history: sequence at the last broadcast's end

cvars == <<mutex, sequence, seq, cret, lastBroadcast>>

vars == <<mvars, cvars>>

CondLabels == {"wait_read", "wait_bind", "wait_futex",
               "signal_add", "signal_wake",
               "broadcast_read", "broadcast_add", "broadcast_requeue"}

-----------------------------------------------------------------------------
(* sync_cond_wait                                                          *)

sync_cond_wait(t, r) ==
    /\ Goto(t, "wait_read")
    /\ cret' = [cret EXCEPT ![t] = r]
    /\ UNCHANGED <<iv_val, waiters, mutex, sequence, seq, lastBroadcast>>

(* seq = sequence                                                          *)
WaitRead(t) ==
    /\ At(t, "wait_read")
    /\ seq' = [seq EXCEPT ![t] = sequence]
    /\ Goto(t, "wait_bind")
    /\ UNCHANGED <<iv_val, waiters, mutex, sequence, cret, lastBroadcast>>

(* Bind the condition variable to the mutex, or return EINVAL when it is   *)
(* bound to another one.  Nothing unbinds it, so the code's read, compare- *)
(* and-swap and read again have the outcome of the compare-and-swap.       *)
WaitBind(t) ==
    /\ At(t, "wait_bind")
    /\ mutex' = IF mutex = NULL THEN TheMutex ELSE mutex
    /\ IF mutex' # TheMutex
       THEN Goto(t, cret[t])
       ELSE Call(t, "unlock_sub", "wait_futex")
    /\ UNCHANGED <<iv_val, waiters, sequence, seq, cret, lastBroadcast>>

(* Mutant: the mutex is not taken back.                                    *)
ReacquireNot(t) == Goto(t, cret[t])

(* Mutant: the mutex is taken back by mutex_lock itself.                   *)
ReacquireCas(t) == Call(t, "lock_cas", cret[t])

(* Where a task that comes back from the condition's futex takes the mutex *)
(* again: not at mutex_lock's compare-and-swap, which would leave the word *)
(* at 1 while the kernel has moved other tasks to the mutex's futex.       *)
Reacquire(t) == Call(t, "lock_tas", cret[t])

(* Mutant: sequence is read after the mutex is released.                   *)
WaitFutexReads(t) ==
    /\ At(t, "wait_futex")
    /\ FutexWait(t, sequence_addr, sequence, sequence)
    /\ Reacquire(t)
    /\ UNCHANGED <<iv_val, cvars>>

(* futex_wait(sequence, seq)                                               *)
WaitFutex(t) ==
    /\ At(t, "wait_futex")
    /\ FutexWait(t, sequence_addr, sequence, seq[t])
    /\ Reacquire(t)
    /\ UNCHANGED <<iv_val, cvars>>

-----------------------------------------------------------------------------
(* sync_cond_signal                                                        *)

sync_cond_signal(t, r) ==
    /\ Call(t, "signal_add", r)
    /\ UNCHANGED <<iv_val, waiters, cvars>>

(* __sync_fetch_and_add(sequence, 1)                                       *)
SignalAdd(t) ==
    /\ At(t, "signal_add")
    /\ sequence' = sequence + 1
    /\ Goto(t, "signal_wake")
    /\ UNCHANGED <<iv_val, waiters, mutex, seq, cret, lastBroadcast>>

(* futex_wake(sequence, 1)                                                 *)
SignalWake(t) ==
    /\ At(t, "signal_wake")
    /\ FutexWake(sequence_addr, 1)
    /\ Goto(t, ret[t])
    /\ UNCHANGED <<iv_val, cvars>>

-----------------------------------------------------------------------------
(* sync_cond_broadcast                                                     *)

sync_cond_broadcast(t, r) ==
    /\ Call(t, "broadcast_read", r)
    /\ UNCHANGED <<iv_val, waiters, cvars>>

(* no mutex means no waiters                                               *)
BroadcastRead(t) ==
    /\ At(t, "broadcast_read")
    /\ Goto(t, IF mutex = NULL THEN ret[t] ELSE "broadcast_add")
    /\ UNCHANGED <<iv_val, waiters, cvars>>

(* __sync_fetch_and_add(sequence, 1)                                       *)
BroadcastAdd(t) ==
    /\ At(t, "broadcast_add")
    /\ sequence' = sequence + 1
    /\ Goto(t, "broadcast_requeue")
    /\ UNCHANGED <<iv_val, waiters, mutex, seq, cret, lastBroadcast>>

(* futex_requeue(sequence, 1, UINT64_MAX, mutex->iv_val).  Tasks only ever *)
(* sleep on sequence when the condition variable is bound to their mutex.  *)
BroadcastRequeue(t) ==
    /\ At(t, "broadcast_requeue")
    /\ FutexRequeue(sequence_addr, 1, iv_val_addr)
    /\ lastBroadcast' = sequence
    /\ Goto(t, ret[t])
    /\ UNCHANGED <<iv_val, mutex, sequence, seq, cret>>

CondStep(t) ==
    \/ MutexStep(t) /\ UNCHANGED cvars
    \/ WaitRead(t) \/ WaitBind(t) \/ WaitFutex(t)
    \/ SignalAdd(t) \/ SignalWake(t)
    \/ BroadcastRead(t) \/ BroadcastAdd(t) \/ BroadcastRequeue(t)

-----------------------------------------------------------------------------
(* Clients that lock, wait, signal, broadcast and unlock in any order; a   *)
(* signal may also be sent without the mutex, as attnsvc.C does.           *)

CondInit ==
    /\ Init
    /\ mutex \in {NULL, OtherMutex}
    /\ sequence = 0 /\ lastBroadcast = 0
    /\ seq  = [t \in Tasks |-> 0]
    /\ cret = [t \in Tasks |-> "locked"]

(* The signals and broadcasts sent and on their way.                       *)
Signals ==
    sequence + Cardinality({t \in Tasks :
        pc[t] \in {"signal_add", "broadcast_read", "broadcast_add"}})

Lock(t)      == mutex_lock(t) /\ UNCHANGED cvars
Unlock(t)    == mutex_unlock(t) /\ UNCHANGED cvars
Wait(t)      == At(t, "locked") /\ sync_cond_wait(t, "locked")
Signal(t)    == /\ Signals < MaxSequence
                /\ \E l \in {"idle", "locked"} :
                      At(t, l) /\ sync_cond_signal(t, l)
Broadcast(t) == /\ Signals < MaxSequence
                /\ At(t, "locked") /\ sync_cond_broadcast(t, "locked")

CondNext ==
    \E t \in Tasks : Lock(t) \/ Unlock(t) \/ Wait(t) \/ Signal(t)
                        \/ Broadcast(t) \/ CondStep(t)

(* As for the mutex alone; the owner gives the lock back by unlocking it.  *)
CondFairness ==
    \A t \in Tasks : WF_vars(CondStep(t)) /\ SF_vars(Unlock(t))

CondSpec == CondInit /\ [][CondNext]_vars /\ CondFairness

-----------------------------------------------------------------------------
(* The values the condition variable's state can have.                     *)
CondTypeOK ==
    /\ FutexTypeOK
    /\ iv_val \in 0..2
    /\ pc  \in [Tasks -> MutexLabels \cup CondLabels \cup {"idle", "locked"}]
    /\ ret \in [Tasks -> {"idle", "locked", "wait_futex"}]
    /\ mutex \in {NULL, TheMutex, OtherMutex}
    /\ sequence \in 0..MaxSequence
    /\ seq \in [Tasks -> 0..MaxSequence]
    /\ cret \in [Tasks -> {"locked"}]
    /\ lastBroadcast \in 0..MaxSequence

(* The task owns the mutex, here also while it signals or prepares to wait. *)
CondHolds(t) ==
    \/ Holds(t)
    \/ pc[t] \in {"wait_read", "wait_bind"}
    \/ pc[t] \in CondLabels \ {"wait_futex"} /\ ret[t] = "locked"

(* sync_cond_wait's "@post This task will have the mutex lock", for every  *)
(* way back: signalled, requeued by a broadcast, or not blocked at all.    *)
CondMutualExclusion ==
    /\ \A t, u \in Tasks : CondHolds(t) /\ CondHolds(u) => t = u
    /\ iv_val = 0 <=> \A t \in Tasks : ~CondHolds(t)

(* A broadcast reaches every task that is in sync_cond_wait, also one that *)
(* has read sequence but is not asleep yet: nobody sleeps on the condition *)
(* with a value of sequence older than the last completed broadcast.       *)
BroadcastMissesNone ==
    \A t \in WaitingOn(sequence_addr) : seq[t] >= lastBroadcast

(* Whenever a task that is not waiting for a signal wants the mutex, some  *)
(* task eventually gets it: no task moved by a broadcast is left behind on *)
(* a mutex that nobody holds.                                              *)
CondSomeoneGetsIn ==
    (\E t \in Tasks : /\ pc[t] \in {"lock_cas", "lock_tas", "lock_wait"}
                      /\ t \notin WaitingOn(sequence_addr))
        ~> (\E t \in Tasks : pc[t] = "locked")
=============================================================================
