----------------------------- MODULE TaskTree -----------------------------
(***************************************************************************)
(* The kernel's tree of task trackers (src/src/kernel/taskmgr.C and the    *)
(* task system calls of syscall.C): creating, ending, crashing, detaching  *)
(* and joining tasks.                                                      *)
(*                                                                         *)
(* A task has a task_t while it lives and a task_tracking_t until its      *)
(* status has been collected, so tracked \ live are the finished tasks     *)
(* nobody has waited for yet.  iv_spinlock covers every change of the      *)
(* tree; the one thing done outside it is TaskStart's last read.  A parent *)
(* that waits for any child gets the first finished one of its list, here  *)
(* any of them: a list of children is the set of those with that parent,   *)
(* and its links, which removeTracker does not always keep, are left out.  *)
(***************************************************************************)
EXTENDS Naturals, FiniteSets

CONSTANTS Tids,        \* task ids, each used once
          Root,        \* the first task, created by the kernel
          Kernel,      \* the parent NULL
          Any,         \* the tid -1 of task_wait
          None,        \* no wait_info, no task being created
          Garbage,     \* what a read of freed memory returns
          MayDetach    \* the tasks that call task_detach

ASSUME TreeAssumption ==
    /\ IsFiniteSet(Tids) /\ Root \in Tids /\ MayDetach \subseteq Tids
    /\ {Kernel, Any, None, Garbage} \cap Tids = {}
    /\ Any # None

VARIABLES tracked,     \* the tasks with a task_tracking_t
          live,        \* the tasks with a task_t
          parent,      \* task_tracking_t::parent
          status,      \* task_tracking_t::status
          wait_info,   \* task_tracking_t::wait_info, its tid
          detached,    \* task_t::detached
          newTask,     \* the local of TaskStart, per task
          child_tid,   \* history: the tid its creator was given for a task
          joined,      \* history: the tasks whose status was collected
          kassert      \* the kernel has stopped the system

vars == <<tracked, live, parent, status, wait_info, detached, newTask,
          child_tid, joined, kassert>>

Running(t) ==
    t \in live /\ wait_info[t] = None /\ newTask[t] = None /\ ~kassert

Children(t) == {c \in tracked : parent[c] = t}

Finished == tracked \ live

-----------------------------------------------------------------------------
(* removeTracker                                                           *)

(* Mutant: finished tasks are kept when they are handed to the kernel.     *)
RemovedAlone(t) == {t}

(* The set has every finished child of its members.                        *)
HasFinishedChildren(S) == \A c \in Finished : parent[c] \in S => c \in S

(* The trackers deleted along with t: below the kernel, finished children  *)
(* and their finished children, the least set that removeTracker's calls   *)
(* of itself reach.                                                        *)
Removed(t) ==
    IF parent[t] = Kernel
    THEN {c \in Tids : \A S \in SUBSET Tids :
                          t \in S /\ HasFinishedChildren(S) => c \in S}
    ELSE {t}

(* Mutant: the children of a removed tracker keep their parent pointer.    *)
ReparentedNot(t) ==
    [c \in Tids |-> IF c \in Removed(t) THEN Kernel ELSE parent[c]]

(* The children of what is removed go to its parent.                       *)
Reparented(t) ==
    [c \in Tids |-> IF c \in Removed(t) THEN Kernel
                    ELSE IF parent[c] \in Removed(t) THEN parent[t]
                    ELSE parent[c]]

(* Mutant: a crashed task handed to the kernel is dropped like any other.  *)
CrashBelowIgnored(t) == FALSE

(* A crashed task without a parent is fatal.                               *)
CrashBelow(t) == \E c \in Removed(t) \ {t} : status[c] = "crashed"

removeTracker(t) ==
    /\ tracked' = tracked \ Removed(t)
    /\ parent' = Reparented(t)
    /\ kassert' = CrashBelow(t)

-----------------------------------------------------------------------------
(* createTask under the lock, addTask                                      *)
TaskStart(t, c) ==
    /\ Running(t)
    /\ c \notin live /\ status[c] = "none"
    /\ tracked' = tracked \cup {c}
    /\ live' = live \cup {c}
    /\ parent' = [parent EXCEPT ![c] = t]
    /\ newTask' = [newTask EXCEPT ![t] = c]
    /\ UNCHANGED <<status, wait_info, detached, child_tid, joined, kassert>>

(* TASK_SETRTN(t, newTask->tid): the new task runs on another CPU by now   *)
(* and its task_t may be deleted, and then reused or not.                  *)
TaskStartReturn(t) ==
    LET c == newTask[t] IN
    /\ c # None /\ ~kassert
    /\ \E tid \in IF c \in live THEN {c} ELSE {c, Garbage} :
          child_tid' = [child_tid EXCEPT ![c] = tid]
    /\ newTask' = [newTask EXCEPT ![t] = None]
    /\ UNCHANGED <<tracked, live, parent, status, wait_info, detached, joined,
                   kassert>>

(* Not a system call: the task sets the flag in its own task_t.  "No       *)
(* parent may task_wait_tid on it".                                        *)
task_detach(t) ==
    /\ Running(t) /\ t \in MayDetach
    /\ parent[t] \in Tids => wait_info[parent[t]] # t
    /\ detached' = detached \cup {t}
    /\ UNCHANGED <<tracked, live, parent, status, wait_info, newTask,
                   child_tid, joined, kassert>>

-----------------------------------------------------------------------------
(* _endTask with status s                                                  *)

(* The parent is blocked on the task, or on any child.                     *)
Awaited(t) == parent[t] # Kernel /\ wait_info[parent[t]] \in {t, Any}

(* A task that nobody can wait for goes, or stops the system.              *)
EndUnawaited(t, s) ==
    /\ t \in detached \/ parent[t] = Kernel
    /\ IF s = "crashed"
       THEN kassert' = TRUE /\ UNCHANGED <<tracked, parent>>
       ELSE removeTracker(t)
    /\ UNCHANGED <<wait_info, joined>>

(* The parent gets the status and is made ready.                           *)
EndJoined(t, s) ==
    /\ t \notin detached /\ Awaited(t)
    /\ wait_info' = [wait_info EXCEPT ![parent[t]] = None]
    /\ joined' = joined \cup {t}
    /\ removeTracker(t)

(* Mutant: the parent is not looked for.                                   *)
EndKeptAlways(t, s) ==
    /\ t \notin detached /\ parent[t] # Kernel
    /\ UNCHANGED <<tracked, parent, wait_info, joined, kassert>>

(* The tracker stays for a later wait.                                     *)
EndKept(t, s) ==
    /\ t \notin detached /\ parent[t] # Kernel /\ ~Awaited(t)
    /\ UNCHANGED <<tracked, parent, wait_info, joined, kassert>>

TaskEnd(t, s) ==
    /\ Running(t)
    /\ live' = live \ {t}
    /\ status' = [status EXCEPT ![t] = s]
    /\ EndUnawaited(t, s) \/ EndJoined(t, s) \/ EndKept(t, s)
    /\ UNCHANGED <<detached, newTask, child_tid>>

-----------------------------------------------------------------------------
(* _waitTask for tid, a task id or Any.  -EDEADLK, when there is no such   *)
(* child, changes nothing.  Nobody waits for a detached task by its id:    *)
(* the rule of sys/task.h, which the kernel does not check.                *)
Candidates(t, tid) == {c \in Children(t) : tid \in {c, Any}}

TaskWait(t, tid) ==
    /\ Running(t)
    /\ tid \notin detached
    /\ Candidates(t, tid) # {}
    /\ \/ \E c \in Candidates(t, tid) \cap Finished :
             /\ joined' = joined \cup {c}
             /\ removeTracker(c)
             /\ UNCHANGED wait_info
       \/ /\ Candidates(t, tid) \cap Finished = {}
          /\ wait_info' = [wait_info EXCEPT ![t] = tid]
          /\ UNCHANGED <<tracked, parent, joined, kassert>>
    /\ UNCHANGED <<live, status, detached, newTask, child_tid>>

-----------------------------------------------------------------------------
Init ==
    /\ tracked = {Root} /\ live = {Root}
    /\ parent = [t \in Tids |-> Kernel]
    /\ status = [t \in Tids |-> "none"]
    /\ wait_info = [t \in Tids |-> None]
    /\ detached = {} /\ joined = {}
    /\ newTask = [t \in Tids |-> None]
    /\ child_tid = [t \in Tids |-> t]
    /\ kassert = FALSE

Next ==
    \E t \in Tids :
        \/ \E c \in Tids : TaskStart(t, c)
        \/ TaskStartReturn(t)
        \/ task_detach(t)
        \/ \E s \in {"clean", "crashed"} : TaskEnd(t, s)
        \/ \E tid \in Tids \cup {Any} : TaskWait(t, tid)

Spec == Init /\ [][Next]_vars

-----------------------------------------------------------------------------
TreeTypeOK ==
    /\ tracked \subseteq Tids /\ live \subseteq tracked
    /\ parent \in [Tids -> Tids \cup {Kernel}]
    /\ status \in [Tids -> {"none", "clean", "crashed"}]
    /\ wait_info \in [Tids -> Tids \cup {Any, None}]
    /\ detached \subseteq Tids /\ joined \subseteq Tids
    /\ newTask \in [Tids -> Tids \cup {None}]
    /\ child_tid \in [Tids -> Tids \cup {Garbage}]
    /\ kassert \in BOOLEAN

(* No tracker points to one that has been deleted: removeTracker leaves no *)
(* dangling parent pointer, whatever order the tasks of a tree end in.     *)
ParentsAreTracked ==
    \A c \in tracked : parent[c] \in tracked \cup {Kernel}

(* The trackers above t: the least set with t's parent and with the parent *)
(* of each of its members.                                                 *)
Ancestors(t) ==
    {a \in Tids : \A S \in SUBSET (Tids \cup {Kernel}) :
        parent[t] \in S /\ (\A b \in S \cap Tids : parent[b] \in S) => a \in S}

(* "The children become parented by their grand-parents, who must do the   *)
(* wait": a finished task whose status was not collected always has a      *)
(* living ancestor that can still collect it, so no tracker leaks.         *)
FinishedAreCollectable ==
    kassert \/ \A c \in Finished : Ancestors(c) \cap live # {}

(* No crash goes unnoticed: the status of a crashed task was collected,    *)
(* can still be collected, or the kernel has stopped the system.           *)
CrashesAreNoticed ==
    \A t \in Tids :
        status[t] = "crashed" => t \in joined \cup Finished \/ kassert

(* A task blocked on a child waits for one that is still its child and     *)
(* still alive, so that the child's end will wake it.                      *)
AwaitedIsRunning ==
    \A t \in live :
        wait_info[t] \in Tids =>
            wait_info[t] \in live /\ parent[wait_info[t]] = t

(* "Block calling task until any child process exits": a task blocked in   *)
(* task_wait has no child that has exited.                                 *)
NoExitMissed ==
    \A t \in live :
        wait_info[t] = Any => Children(t) \cap Finished = {} \/ kassert

(* "@return The task ID of the child."                                     *)
CreateReturnsTid == \A c \in Tids : child_tid[c] = c
=============================================================================
