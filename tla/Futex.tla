------------------------------- MODULE Futex -------------------------------
(***************************************************************************)
(* The kernel's futex manager (src/src/kernel/futexmgr.C).                 *)
(*                                                                         *)
(* FutexManager keeps one list of <futex address, task> pairs, inserted at *)
(* the head and searched from the head.  All that a caller can observe of  *)
(* that list is, for each address, the order of its own entries, so the    *)
(* list is kept here as one sequence of tasks per address, newest first.   *)
(*                                                                         *)
(* _wait and _wake change the list under FutexManager::iv_lock, and        *)
(* nothing else touches it, so each call is one step.  A woken task may    *)
(* run before the waker drops iv_lock, but it cannot reach the list before *)
(* then and the waker no longer looks at user memory; a blocked task may   *)
(* run elsewhere before its old CPU has picked another one, but that CPU   *)
(* only touches the task again when it did not block.  So the steps of the *)
(* two commute.                                                            *)
(***************************************************************************)
EXTENDS Naturals, Sequences, FiniteSets

CONSTANTS Tasks,   \* the user-space tasks
          Addrs    \* the futex addresses

ASSUME TasksAssumption == IsFiniteSet(Tasks)

VARIABLE waiters   \* FutexManager::iv_list, per address

(* The tasks in state TASK_STATE_BLOCK_FUTEX on address a.                 *)
WaitingOn(a) == {waiters[a][i] : i \in DOMAIN waiters[a]}

(* A task runs unless it is on the futex list.                             *)
Runnable(t) == \A a \in Addrs : t \notin WaitingOn(a)

FutexTypeOK == waiters \in [Addrs -> Seq(Tasks)]

(* A task sleeps in at most one place, and only once.                      *)
SleepsOnce ==
    \A a, b \in Addrs :
        \A i \in 1..Len(waiters[a]), j \in 1..Len(waiters[b]) :
            waiters[a][i] = waiters[b][j] => a = b /\ i = j

FutexInit == waiters = [a \in Addrs |-> << >>]

(* UINT64_MAX, the count that callers pass to mean every waiter.           *)
AllWaiters == Cardinality(Tasks)

(* futex_wait(a, val) by task t when the word at a holds cur: returns      *)
(* EWOULDBLOCK at once when the word has changed, else blocks the task at  *)
(* the head of the list.                                                   *)
FutexWait(t, a, cur, val) ==
    IF cur # val
    THEN UNCHANGED waiters
    ELSE waiters' = [waiters EXCEPT ![a] = <<t>> \o @]

(* futex_wake(a, n): the n newest waiters become ready.                    *)
FutexWake(a, n) ==
    waiters' = [waiters EXCEPT ![a] = SubSeq(@, n + 1, Len(@))]

(* The order in which repeated find/erase/insert leaves moved entries.     *)
Reversed(s) == [i \in 1..Len(s) |-> s[Len(s) + 1 - i]]

(* futex_requeue(a, n, UINT64_MAX, b): the n newest waiters on a become    *)
(* ready, the others are moved one at a time to the head of b's waiters.   *)
FutexRequeue(a, n, b) ==
    waiters' = [waiters EXCEPT
                  ![a] = << >>,
                  ![b] = Reversed(SubSeq(waiters[a], n + 1, Len(waiters[a])))
                             \o waiters[b]]
=============================================================================
