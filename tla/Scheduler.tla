----------------------------- MODULE Scheduler -----------------------------
(***************************************************************************)
(* The kernel's scheduler (src/src/kernel/scheduler.C), time manager's     *)
(* delay lists (timemgr.C) and the parts of cpu_t and task_t they use.     *)
(*                                                                         *)
(* Every kernel entry (system call, decrementer) runs with interrupts off  *)
(* on its CPU and changes the scheduler through the operators below, one   *)
(* after the other, so they are functions from one scheduler state to the  *)
(* next and a handler is their composition.  The run queues have locks of  *)
(* their own; handlers on two CPUs only meet there, so each handler is one *)
(* step of the model.                                                      *)
(***************************************************************************)
EXTENDS Naturals, Sequences, FiniteSets

CONSTANTS Tasks, Cpus,
          Master,      \* the master CPU
          Idle         \* any CPU's idle task

ASSUME SchedulerAssumption ==
    /\ IsFiniteSet(Tasks) /\ Idle \notin Tasks
    /\ Master \in Cpus

VARIABLE sched
    (* current     the task running on each CPU (SPRG3)                    *)
    (* cpu         task_t::cpu                                             *)
    (* pinned      task_t::affinity_pinned                                 *)
    (* runq        Scheduler::iv_taskList                                  *)
    (* localq      cpu_t::scheduler_extra                                  *)
    (* delayed     cpu_t::delay_list, the task to release first in front   *)

SchedulerTypeOK ==
    sched \in [current : [Cpus -> Tasks \cup {Idle}],
               cpu     : [Tasks -> Cpus],
               pinned  : [Tasks -> Nat],
               runq    : Seq(Tasks),
               localq  : [Cpus -> Seq(Tasks)],
               delayed : [Cpus -> Seq(Tasks)]]

(* All tasks are new, on the master's global queue, and every CPU is idle. *)
SchedulerInit ==
    \E q \in [1..Cardinality(Tasks) -> Tasks] :
        /\ {q[i] : i \in DOMAIN q} = Tasks
        /\ sched = [current |-> [c \in Cpus |-> Idle],
                    cpu     |-> [t \in Tasks |-> Master],
                    pinned  |-> [t \in Tasks |-> 0],
                    runq    |-> q,
                    localq  |-> [c \in Cpus |-> << >>],
                    delayed |-> [c \in Cpus |-> << >>]]

Running(c, t) == sched.current[c] = t /\ t # Idle

-----------------------------------------------------------------------------
(* Mutant: ready tasks go to the front of the global queue.                *)
addTaskFront(s, t) ==
    IF s.pinned[t] # 0
    THEN [s EXCEPT !.localq[s.cpu[t]] = Append(@, t)]
    ELSE [s EXCEPT !.runq = <<t>> \o @]

(* A pinned task goes to the end of its CPU's queue, another to the end of *)
(* the global one.                                                         *)
addTask(s, t) ==
    IF s.pinned[t] # 0
    THEN [s EXCEPT !.localq[s.cpu[t]] = Append(@, t)]
    ELSE [s EXCEPT !.runq = Append(@, t)]

addTaskMasterCPU(s, t) == [s EXCEPT !.localq[Master] = Append(@, t)]

(* The idle task is never put on a queue.                                  *)
returnRunnable(s, c) ==
    IF s.current[c] = Idle THEN s ELSE addTask(s, s.current[c])

setCurrentTask(s, c, t) ==
    [s EXCEPT !.cpu[t] = c, !.current[c] = t]

(* First the CPU's own queue, then the global one, then the idle task.     *)
setNextRunnable(s, c) ==
    CASE s.localq[c] # << >> ->
            setCurrentTask([s EXCEPT !.localq[c] = Tail(@)],
                           c, Head(s.localq[c]))
      [] s.localq[c] = << >> /\ s.runq # << >> ->
            setCurrentTask([s EXCEPT !.runq = Tail(@)], c, Head(s.runq))
      [] OTHER -> [s EXCEPT !.current[c] = Idle]

(* Mutant: the last task that is due is taken off the list but not added.  *)
checkReleaseTasksShort(s, c, n) ==
    LET release[i \in 0..n] ==
            IF i = 0 THEN [s EXCEPT !.delayed[c] =
                                        SubSeq(@, n + 1, Len(@))]
                     ELSE addTask(release[i - 1], s.delayed[c][i])
    IN  release[IF n = 0 THEN 0 ELSE n - 1]

(* The first n delayed tasks of the CPU become ready, in order.            *)
checkReleaseTasks(s, c, n) ==
    LET release[i \in 0..n] ==
            IF i = 0 THEN [s EXCEPT !.delayed[c] =
                                        SubSeq(@, n + 1, Len(@))]
                     ELSE addTask(release[i - 1], s.delayed[c][i])
    IN  release[n]

(* The delay list is sorted by the time of release; where a new entry goes *)
(* depends on how long it sleeps, so it may be any place k.                *)
delayTask(s, c, t, k) ==
    [s EXCEPT !.delayed[c] = SubSeq(@, 1, k) \o <<t>>
                                 \o SubSeq(@, k + 1, Len(@))]

-----------------------------------------------------------------------------
(* The system calls and the interrupt that only concern the scheduler.     *)

TaskYield(c) ==
    /\ sched.current[c] # Idle
    /\ sched' = setNextRunnable(returnRunnable(sched, c), c)

(* The end of a time slice; n delayed tasks are due.                       *)
kernel_execute_decrementer(c) ==
    \E n \in 0..Len(sched.delayed[c]) :
        sched' = setNextRunnable(
                    returnRunnable(checkReleaseTasks(sched, c, n), c), c)

TaskMigrateToMaster(c) ==
    /\ sched.current[c] # Idle
    /\ sched' = setNextRunnable(addTaskMasterCPU(sched, sched.current[c]), c)

(* Mutant: a delayed task is also returned to the run queue.               *)
TimeNanosleepReturns(c) ==
    /\ sched.current[c] # Idle
    /\ \E k \in 0..Len(sched.delayed[c]) :
          sched' = setNextRunnable(returnRunnable(
                      delayTask(sched, c, sched.current[c], k), c), c)

TimeNanosleep(c) ==
    /\ sched.current[c] # Idle
    /\ \E k \in 0..Len(sched.delayed[c]) :
          sched' = setNextRunnable(
                      delayTask(sched, c, sched.current[c], k), c)

(* Not system calls: a task changes its own task_t, found in register 13.  *)
task_affinity_pin(c) ==
    /\ sched.current[c] # Idle
    /\ sched' = [sched EXCEPT !.pinned[sched.current[c]] = @ + 1]

task_affinity_unpin(c) ==
    /\ sched.current[c] # Idle
    /\ sched.pinned[sched.current[c]] > 0
    /\ sched' = [sched EXCEPT !.pinned[sched.current[c]] = @ - 1]

-----------------------------------------------------------------------------
(* The places where the scheduler knows task t.                            *)
Places(t) ==
    LET At(list, c, q) == {<<list, c, i>> : i \in {j \in DOMAIN q : q[j] = t}}
    IN  {<<"current", c, 0>> : c \in {d \in Cpus : sched.current[d] = t}}
          \cup At("runq", Master, sched.runq)
          \cup (UNION {At("localq", c, sched.localq[c]) : c \in Cpus})
          \cup (UNION {At("delayed", c, sched.delayed[c]) : c \in Cpus})
=============================================================================
