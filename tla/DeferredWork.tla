--------------------------- MODULE DeferredWork ---------------------------
(***************************************************************************)
(* Deferred work (src/src/kernel/deferred.C, with kernel/barrier.C and     *)
(* CpuManager's activateCPU and deactivateCPU): work items for which the   *)
(* kernel brings all CPUs together, lets the master work alone, lets all   *)
(* work, and lets the master finish.  One kind of work, winkle (misc.C),   *)
(* takes the CPUs offline and back.                                        *)
(*                                                                         *)
(* The queue and every item keep a CPU count and a next pointer in one     *)
(* word, iv_cpus_and_next, so that both change in one atomic step.  pc[c]  *)
(* is where CPU c is: off, in user space, or at a step of _insert,         *)
(* _execute, start or _complete.  Items are deleted and their memory used  *)
(* again for later ones.                                                   *)
(***************************************************************************)
EXTENDS Naturals, FiniteSets

CONSTANTS Cpus, Master,
          Early,       \* the CPUs that are active from the beginning
          Items,       \* memory for work items
          MaxWinkles,  \* bound on the winkle items created
          StartDuringWinkle,  \* whether cores are started meanwhile
          NULL

ASSUME DeferredAssumption ==
    /\ IsFiniteSet(Cpus) /\ Early \subseteq Cpus /\ Master \in Early
    /\ NULL \notin Items /\ MaxWinkles \in Nat
    /\ StartDuringWinkle \in BOOLEAN

VARIABLES item,        \* the fields of each DeferredWork
          head,        \* DeferredQueue::iv_cpus_and_next
          lock,        \* DeferredQueue::lock is held
          seq,         \* the sequence half of cv_cpuSeq
          seqid,       \* cpu_t::cpu_start_seqid
          pc,
          work,        \* the item a CPU is creating or executing
          local,       \* l_event in Barrier::wait, old_ptr in _complete
          active,      \* active in DeferredWork::start
          winkles      \* the winkle items created so far

vars == <<item, head, lock, seq, seqid, pc, work, local, active, winkles>>

(* The count half of cv_cpuSeq counts these CPUs.                          *)
Active == {c \in Cpus : pc[c] \notin {"off", "winkled"}}

Goto(c, l) == pc' = [pc EXCEPT ![c] = l]

(* An item with nobody inside: w says whether it is a WinkleCore or a      *)
(* WinkleAll; its members (for properties) are active at its creation.     *)
Item(state, activeSeq, n, w, members) ==
    [state |-> state, activeSeq |-> activeSeq, count |-> n, missing |-> n,
     event |-> 0, cpus |-> 0, next |-> NULL, pre |-> FALSE, post |-> FALSE,
     winkle |-> w, members |-> members]

Free == Item("free", 0, 0, FALSE, {})

-----------------------------------------------------------------------------
(* activateCPU; smp_slave_main then looks at the queue once before it      *)
(* dispatches the first task.  The callers of cpu_master_winkle start no   *)
(* core meanwhile ("race condition that should not occur", misc.C).        *)
activateCPU(c) ==
    /\ pc[c] = "off"
    /\ StartDuringWinkle \/ \A i \in Items : ~item[i].winkle
    /\ seq' = seq + 1
    /\ seqid' = [seqid EXCEPT ![c] = seq + 1]
    /\ Goto(c, "execute")
    /\ UNCHANGED <<item, head, lock, work, local, active, winkles>>

(* The decrementer, or another entry into the kernel that executes         *)
(* periodics.                                                              *)
EnterKernel(c) ==
    /\ pc[c] = "user"
    /\ Goto(c, "execute")
    /\ UNCHANGED <<item, head, lock, seq, seqid, work, local, active,
                   winkles>>

(* new DeferredWork: the CPU count and the sequence number, read together  *)
Create(c, i) ==
    /\ pc[c] = "user"
    /\ item[i].state = "free"
    /\ \E winkle \in IF c = Master /\ winkles < MaxWinkles
                     THEN BOOLEAN ELSE {FALSE} :       \* CpuWinkle
          /\ item' = [item EXCEPT ![i] =
                Item("new", seq, Cardinality(Active), winkle, Active)]
          /\ winkles' = winkles + (IF winkle THEN 1 ELSE 0)
    /\ work' = [work EXCEPT ![c] = i]
    /\ Goto(c, "insert")
    /\ UNCHANGED <<head, lock, seq, seqid, local, active>>

(* The last item of the queue, when it is not empty.                       *)
TailItem ==
    CHOOSE i \in Items : item[i].state = "queued" /\ item[i].next = NULL

(* _insert, all of it under the lock; the caller goes on to execute, as    *)
(* requestShutdown's does at its next interrupt.                           *)
Insert(c) ==
    LET i == work[c] IN
    /\ pc[c] = "insert" /\ ~lock
    /\ \/ /\ head.next = NULL
          /\ head' = [cpus |-> 0, next |-> i]
          /\ item' = [item EXCEPT ![i].state = "queued"]
       \/ /\ head.next # NULL
          /\ item' = [item EXCEPT ![i].state = "queued",
                                  ![TailItem].next = i]
          /\ UNCHANGED head
       \/ /\ head.next # NULL           \* i_onlyIfEmpty
          /\ item' = [item EXCEPT ![i] = Free]
          /\ UNCHANGED head
    /\ work' = [work EXCEPT ![c] = NULL]
    /\ Goto(c, "execute")
    /\ UNCHANGED <<lock, seq, seqid, local, active, winkles>>

-----------------------------------------------------------------------------
(* _execute: count this CPU into the queue's head, or there is no work     *)
Execute(c) ==
    /\ pc[c] = "execute"
    /\ \/ /\ head.next = NULL
          /\ Goto(c, "user")
          /\ UNCHANGED <<head, work>>
       \/ /\ head.next # NULL
          /\ head' = [head EXCEPT !.cpus = @ + 1]
          /\ work' = [work EXCEPT ![c] = head.next]
          /\ Goto(c, "start")
    /\ UNCHANGED <<item, lock, seq, seqid, local, active, winkles>>

(* start: count this CPU into the item                                     *)
AtPre(c)  == IF c = Master THEN "master_pre" ELSE "wait_pre"
AtPost(c) == IF c = Master THEN "master_post" ELSE "wait_post"

(* Mutant: every CPU synchronizes, active at creation or not.              *)
StartAll(c) ==
    /\ pc[c] = "start"
    /\ item' = [item EXCEPT ![work[c]].cpus = @ + 1]
    /\ active' = [active EXCEPT ![c] = TRUE]
    /\ Goto(c, "arrive_pre")
    /\ UNCHANGED <<head, lock, seq, seqid, work, local, winkles>>

(* ... and remember whether it was active when the item was created        *)
Start(c) ==
    /\ pc[c] = "start"
    /\ item' = [item EXCEPT ![work[c]].cpus = @ + 1]
    /\ active' = [active EXCEPT ![c] = seqid[c] <= item[work[c]].activeSeq]
    /\ Goto(c, IF active'[c] THEN "arrive_pre" ELSE AtPre(c))
    /\ UNCHANGED <<head, lock, seq, seqid, work, local, winkles>>

(* Mutant: the barrier opens one CPU early.                                *)
ArriveEarly(c, l, waiting, passed) ==
    LET w == item[work[c]] IN
    /\ pc[c] = l
    /\ \/ /\ w.missing > 2
          /\ item' = [item EXCEPT ![work[c]].missing = @ - 1]
          /\ local' = [local EXCEPT ![c] = w.event]
          /\ Goto(c, waiting)
       \/ /\ w.missing <= 2
          /\ item' = [item EXCEPT ![work[c]].missing = w.count,
                                  ![work[c]].event = @ + 1]
          /\ Goto(c, passed)
          /\ UNCHANGED local
    /\ UNCHANGED <<head, lock, seq, seqid, work, active, winkles>>

(* Barrier::wait under its spinlock: the last CPU resets the barrier and   *)
(* signals the event, the others remember the event they wait to change    *)
Arrive(c, l, waiting, passed) ==
    LET w == item[work[c]] IN
    /\ pc[c] = l
    /\ \/ /\ w.missing > 1
          /\ item' = [item EXCEPT ![work[c]].missing = @ - 1]
          /\ local' = [local EXCEPT ![c] = w.event]
          /\ Goto(c, waiting)
       \/ /\ w.missing = 1
          /\ item' = [item EXCEPT ![work[c]].missing = w.count,
                                  ![work[c]].event = @ + 1]
          /\ Goto(c, passed)
          /\ UNCHANGED local
    /\ UNCHANGED <<head, lock, seq, seqid, work, active, winkles>>

(* ... and spin on it.                                                     *)
Spin(c, waiting, passed) ==
    /\ pc[c] = waiting
    /\ item[work[c]].event # local[c]
    /\ Goto(c, passed)
    /\ UNCHANGED <<item, head, lock, seq, seqid, work, local, active,
                   winkles>>

WaitForCpus(c) ==
    \/ Arrive(c, "arrive_pre", "sync_pre", AtPre(c))
    \/ Spin(c, "sync_pre", AtPre(c))
    \/ Arrive(c, "arrive_post", "sync_post", AtPost(c))
    \/ Spin(c, "sync_post", AtPost(c))

(* masterPreWork, iv_releasePre = true                                     *)
MasterPre(c) ==
    /\ pc[c] = "master_pre"
    /\ item' = [item EXCEPT ![work[c]].pre = TRUE]
    /\ Goto(c, "main")
    /\ UNCHANGED <<head, lock, seq, seqid, work, local, active, winkles>>

WaitAtPre(c) ==
    /\ pc[c] = "wait_pre" /\ item[work[c]].pre
    /\ Goto(c, "main")
    /\ UNCHANGED <<item, head, lock, seq, seqid, work, local, active,
                   winkles>>

(* activeMainWork or nonactiveMainWork                                     *)
MainWork(c) ==
    /\ pc[c] = "main" /\ ~item[work[c]].winkle
    /\ Goto(c, IF active[c] THEN "arrive_post" ELSE AtPost(c))
    /\ UNCHANGED <<item, head, lock, seq, seqid, work, local, active,
                   winkles>>

(* activeMainWork of WinkleCore and WinkleAll: deactivateCPU and stop.  In *)
(* nonactiveMainWork the kernel fails an assertion.                        *)
Winkle(c) ==
    /\ pc[c] = "main" /\ item[work[c]].winkle
    /\ seq' = seq + (IF active[c] THEN 1 ELSE 0)
    /\ Goto(c, IF active[c] THEN "winkled" ELSE "assert")
    /\ UNCHANGED <<item, head, lock, seqid, work, local, active, winkles>>

(* The CPU comes back, activateCPU, and goes on with its item.             *)
WakeUp(c) ==
    /\ pc[c] = "winkled"
    /\ seq' = seq + 1
    /\ seqid' = [seqid EXCEPT ![c] = seq + 1]
    /\ Goto(c, "arrive_post")
    /\ UNCHANGED <<item, head, lock, work, local, active, winkles>>

-----------------------------------------------------------------------------
(* masterPostWork and the first half of _complete: take the item off the   *)
(* queue and note how many CPUs have got hold of it                        *)
Complete(c) ==
    LET i == work[c] IN
    /\ pc[c] = "master_post" /\ ~lock
    /\ lock' = TRUE
    /\ local' = [local EXCEPT ![c] = head.cpus]
    /\ head' = [cpus |-> 0, next |-> item[i].next]
    /\ item' = [item EXCEPT ![i].next = NULL, ![i].state = "done"]
    /\ Goto(c, "complete")
    /\ UNCHANGED <<seq, seqid, work, active, winkles>>

(* Mutant: the CPUs that are on their way into the item are not awaited.   *)
CompleteWaitNot(c) ==
    /\ pc[c] = "complete"
    /\ lock' = FALSE
    /\ item' = [item EXCEPT ![work[c]].post = TRUE]
    /\ Goto(c, "cleanup")
    /\ UNCHANGED <<head, seq, seqid, work, local, active, winkles>>

(* The second half, and iv_releasePost = true: wait for them to get into   *)
(* the item                                                                *)
CompleteWait(c) ==
    /\ pc[c] = "complete"
    /\ item[work[c]].cpus = local[c]
    /\ lock' = FALSE
    /\ item' = [item EXCEPT ![work[c]].post = TRUE]
    /\ Goto(c, "cleanup")
    /\ UNCHANGED <<head, seq, seqid, work, local, active, winkles>>

WaitAtPost(c) ==
    /\ pc[c] = "wait_post" /\ item[work[c]].post
    /\ Goto(c, "cleanup")
    /\ UNCHANGED <<item, head, lock, seq, seqid, work, local, active,
                   winkles>>

(* _cleanup: the last CPU out deletes the item                             *)
Cleanup(c) ==
    LET i == work[c] IN
    /\ pc[c] = "cleanup"
    /\ item' = IF item[i].cpus = 1 THEN [item EXCEPT ![i] = Free]
                                   ELSE [item EXCEPT ![i].cpus = @ - 1]
    /\ work' = [work EXCEPT ![c] = NULL]
    /\ local' = [local EXCEPT ![c] = 0]
    /\ active' = [active EXCEPT ![c] = FALSE]
    /\ Goto(c, "user")
    /\ UNCHANGED <<head, lock, seq, seqid, winkles>>

-----------------------------------------------------------------------------
Init ==
    /\ item = [i \in Items |-> Free]
    /\ head = [cpus |-> 0, next |-> NULL]
    /\ lock = FALSE
    /\ seq = 0 /\ seqid = [c \in Cpus |-> 0]
    /\ pc = [c \in Cpus |-> IF c \in Early THEN "user" ELSE "off"]
    /\ work = [c \in Cpus |-> NULL]
    /\ local = [c \in Cpus |-> 0]
    /\ active = [c \in Cpus |-> FALSE]
    /\ winkles = 0

(* What a CPU does on its own, without being told to.                      *)
KernelStep(c) ==
    \/ EnterKernel(c) \/ Insert(c) \/ Execute(c) \/ Start(c) \/ WaitForCpus(c)
    \/ MasterPre(c) \/ WaitAtPre(c) \/ MainWork(c) \/ Winkle(c) \/ WakeUp(c)
    \/ Complete(c) \/ CompleteWait(c) \/ WaitAtPost(c) \/ Cleanup(c)

Next ==
    \E c \in Cpus : \/ activateCPU(c) \/ KernelStep(c)
                    \/ \E i \in Items : Create(c, i)

(* In the kernel a CPU runs with interrupts off, and in user space the     *)
(* decrementer brings it into the kernel again.                            *)
Fairness == \A c \in Cpus : WF_vars(KernelStep(c))

Spec == Init /\ [][Next]_vars /\ Fairness

-----------------------------------------------------------------------------
InItem == {"start", "arrive_pre", "sync_pre", "master_pre", "wait_pre",
           "main", "winkled", "arrive_post", "sync_post", "master_post",
           "wait_post", "complete", "cleanup", "assert"}

(* Each CPU comes online once, and each winkle stops and starts it once.   *)
MaxSeq == Cardinality(Cpus) * (1 + 2 * MaxWinkles)

(* The values of the queue, the items and the CPUs.                        *)
DeferredTypeOK ==
    /\ item \in [Items -> [state : {"free", "new", "queued", "done"},
                           activeSeq : 0..MaxSeq,
                           count : 0..Cardinality(Cpus),
                           missing : 0..Cardinality(Cpus),
                           event : 0..2, cpus : 0..Cardinality(Cpus),
                           next : Items \cup {NULL},
                           pre : BOOLEAN, post : BOOLEAN,
                           winkle : BOOLEAN, members : SUBSET Cpus]]
    /\ head \in [cpus : 0..Cardinality(Cpus), next : Items \cup {NULL}]
    /\ lock \in BOOLEAN
    /\ seq \in 0..MaxSeq
    /\ seqid \in [Cpus -> 0..MaxSeq]
    /\ pc \in [Cpus -> InItem \cup {"off", "user", "insert", "execute"}]
    /\ work \in [Cpus -> Items \cup {NULL}]
    /\ local \in [Cpus -> 0..Cardinality(Cpus)]
    /\ active \in [Cpus -> BOOLEAN]
    /\ winkles \in 0..MaxWinkles

(* "Last thread out deletes": no CPU has a pointer to an item that was     *)
(* deleted, not even one that has read the queue and not yet entered the   *)
(* item while the last one inside leaves it.                               *)
NoUseAfterDelete ==
    \A c \in Cpus :
        pc[c] \in InItem => item[work[c]].state \in {"queued", "done"}

(* CPU c stands still in the master's item while the master works alone.   *)
Held(c) ==
    /\ pc[Master] = "master_pre"
         => pc[c] \in {"sync_pre", "wait_pre"} /\ work[c] = work[Master]
    /\ pc[Master] = "master_post"
         => pc[c] \in {"sync_post", "wait_post"} /\ work[c] = work[Master]

(* "Executed by master before main but after all active CPUs are sync'd",  *)
(* and after main: all CPUs that were active when the item was created     *)
(* stand still in it, those that winkled inside it included.  (For an item *)
(* queued behind a winkle no CPU counts as active, not even the master.)   *)
ActiveCpusHeld ==
    pc[Master] \in {"master_pre", "master_post"} /\ active[Master]
        => \A c \in item[work[Master]].members \ {Master} : Held(c)

(* The same of all items: CPUs that were active when an item was created   *)
(* are held for it though they have winkled in between.                    *)
MembersHeld ==
    pc[Master] \in {"master_pre", "master_post"}
        => \A c \in item[work[Master]].members \ {Master} : Held(c)

(* Every item gets done, though everyone waits for everyone and CPUs come  *)
(* online, or winkle and wake up, in the middle of it.                     *)
ItemsComplete ==
    \A i \in Items : item[i].state = "queued" ~> item[i].state = "free"

(* "Race condition that should not occur...": no CPU that came online      *)
(* after a winkle item was created gets into it.                           *)
NobodyNewWinkles == \A c \in Cpus : pc[c] # "assert"

(* "A CPU which is activated after the DeferredWork object was created     *)
(* will block at masterPreWork": it does not run user-space code then.     *)
FreshCpusHeld ==
    \A c \in Cpus : pc[Master] = "master_pre" => pc[c] # "user"
=============================================================================
