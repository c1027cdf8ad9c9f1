# A TLA+ verification project for Hostboot's kernel and task library

Hostboot is the firmware that initialises POWER servers: a small multi-processor
kernel (`src/src/kernel`), a library that user-space code links against
(`src/src/lib`), and a large set of user-space modules and daemons
(`src/src/usr`) that drive the hardware.  This project models the part on which
all the rest stands: **tasks, how they wait for each other, how CPUs pass them
around, and the memory they run in**.  The models are written from the source; every definition that
stands for code is listed with its lines in `PROJECT.json`.

## 1. Inventory

| Component | State | Operations | Interacts with | What is hard | What makes it correct |
|---|---|---|---|---|---|
| futex manager (`kernel/futexmgr.C`) | one list of (address, task) | wait, wake, requeue | called by `lib/sync.C`, wakes tasks through the scheduler | a word in user memory is compared under a kernel lock | a sleeper is on one list once; nobody sleeps on a changed word |
| mutex (`lib/sync.C`) | `iv_val` in 0, 1, 2 | lock, unlock | futexes | several atomic instructions per call | mutual exclusion, no lost wake-up, progress |
| condition variable (`lib/sync.C`) | `mutex`, `sequence` | wait, signal, broadcast | mutex, futexes, requeue | a broadcast moves sleepers to a mutex that others are taking | wait returns with the mutex, broadcasts miss nobody |
| barrier (`lib/sync.C`) | `iv_event`, `iv_missing` | wait, destroy | mutex, futexes | reuse: rounds overlap | nobody leaves a round early, all get through |
| recursive mutex (`lib/sync.C`) | + `iv_owner`, `iv_ownerLockCount` | lock, unlock | futexes | owner read without the lock | exclusion, right nesting count, no self-deadlock |
| thread pool (`usr/util/threadpool.C`) | work list, children, shutdown flag | insert, remove, start, shutdown | mutex, condition variable, task tree | work inserted during shutdown, crashing items | every item once, shutdown completes the work |
| scheduler (`kernel/scheduler.C`) | global queue, per-CPU queues | addTask, setNextRunnable, yield, migrate, pin | everything that blocks or releases a task | CPUs run in parallel | a task is in one place; ready tasks run |
| time manager (`kernel/timemgr.C`) | per-CPU delay lists | delayTask, checkReleaseTasks | scheduler, decrementer | - | delayed tasks are released |
| message queues (`kernel/syscall.C`, `lib/syscall_msg.C`) | messages, responses, waiting tasks, flags of messages | send, sendrecv, sendrecv_noblk, respond, wait | scheduler: a CPU is handed from task to task | direct hand-over, three kinds of send on one queue | callers block until answered; responses find their requests |
| `msg_wait_timeout` (`lib/syscall_msg.C`) | arguments on a stack, a helper task | one call | message queues, task tree, time | a timeout that races real messages | constraints A to F of its own comment |
| task tree (`kernel/taskmgr.C`) | trackers, parents, wait records | create, end, crash, detach, wait | scheduler | any order of ends and waits in a tree | no dangling tracker, no leak, no unnoticed crash |
| deferred work (`kernel/deferred.C`, `barrier.C`) | queue word with pointer and CPU count, items | insert, execute, start, complete, cleanup | CPU manager, all CPUs | everybody waits for everybody; CPUs come online; reference counts | active CPUs held, no use after delete, items complete |
| CPU manager (`kernel/cpumgr.C`, `misc.C`) | CPUs, sequence number | start, activate, deactivate, winkle, periodics | deferred work, scheduler, cast-out | CPUs come, go and come back | (see deferred work) |
| message handlers (`kernel/msghandler.C`, `blockmsghdlr.C`) | pending keys and tasks, pages being written, message counts | sendMessage, recvMessage, handleResponse | message queues, scheduler, VMM | one message serves many tasks, several messages one task | every blocked task is owed exactly one answer per message |
| virtual memory (`vmmmgr.C`, `block.C`, `ptmgr.C`, `basesegment.C`) | shadow entries, hash page table | page fault, set permission, remove, flush, evict | message handlers, page manager, exceptions | faults and stores while pages are written out and read back | no store is lost, no page is shared or leaked |
| page manager (`kernel/pagemgr.C`) | free stacks per size, two heaps, three counters, ranges | allocate, free, add memory, coalesce | lock-free stacks, spinlock, cast-out | splitting, merging and refilling in parallel, only partly locked | pages conserved, true buddies, counters right |
| lock-free stack (`util/lockfree/stack.H`, `abaptr.H`) | pointer with a count | push, pop | page and heap managers | ABA | the links are what atomic pushes and pops would leave |
| heap manager (`kernel/heapmgr.C`) | free chunks per size | allocate, free, coalesce | page manager, deferred work | - | not modelled |
| interrupts, IPC, exceptions, start-up, daemons, hardware procedures, tools | | | | | not modelled, section 7 |

`PROJECT.json` lists the same components with their status, and under "hazards"
each place in the code that is hard to test, with the properties that watch it.

## 2. Modules

    Futex                      FutexManager
      Mutex                    mutex_lock, mutex_unlock
        CondVar                sync_cond_*                ThreadPool (on CondVar)
        Barrier                barrier_*
        RecursiveMutex         recursive_mutex_*
    SyncProofs                 theorems about these six
    Scheduler                  run queues, delay lists
      MsgQueue                 message system calls, composed with the scheduler
    SchedulerProofs            lemmas about lists and the scheduler, for
      MsgQueueProofs           theorems about MsgQueue
      BlockProofs              theorems about Block
    MsgWaitTimeout             msg_wait_timeout and its waiter task
    TaskTree                   task trackers
    DeferredWork               work items for all CPUs, and winkle
    MsgWaitTimeoutProofs, TaskTreeProofs, DeferredWorkProofs
                               theorems about these three
    AbstractLock               what a lock promises: implemented by Mutex,
                               used for the spinlock by PageManager
    LockfreeStack              push and pop on ABA-safe pointers
      LockfreeStackProofs      theorems about them
      PageManager              the buddy allocator on such stacks
    MessageHandler             messages from the kernel to daemons, on Scheduler
      Block                    demand paging on top of them
    MCThreadPool, MCMsgQueue, MCPageManager, MCBlock
                               model values and symmetry

Extension composes: `CondVar`, `Barrier` and `RecursiveMutex` reuse the *steps* of
`Mutex` (each is one atomic instruction or one system call), and `ThreadPool`
reuses those of `CondVar`.  A library call is a program counter `pc[t]` and a
return address `ret[t]`, so one model of `mutex_lock` serves all its callers.

**Correspondence.** In `Futex`, `waiters[a]` is the part of
`FutexManager::iv_list` with key `a`, newest first as `Util::Locked::List`
inserts.  `Mutex` has one action per atomic: `LockCas`, `LockTas`, `LockWait`,
`UnlockSub`, `UnlockStore`, `UnlockWake`.  `CondVar` adds `WaitRead`, `WaitBind`,
`WaitFutex`, `SignalAdd`, `SignalWake`, `BroadcastRead`, `BroadcastAdd`,
`BroadcastRequeue`; coming back from the condition's futex a task enters the
mutex at `LockTas`, not `LockCas`, exactly as the comment in `sync_cond_wait`
asks.  `Scheduler` gives each method of the class as a function on a record of
the scheduler's state, so that a system call is their composition.  `MsgQueue`
has one action per system call, whole handler, because a queue's lock is held for
all of it; `owner` and `stage` say who has a message in user space and are what
well-behaved clients and servers know.  `TaskTree` keeps trackers (`tracked`) and
tasks (`live`) apart because the difference is what `task_wait` is about.
`DeferredWork` has a step for every access to the shared word
`iv_cpus_and_next`, every barrier arrival and every release flag.  A winkle item
(`WinkleCore`, `WinkleAll`) takes every CPU through `Winkle` (`deactivateCPU`) and
`WakeUp` (`activateCPU`) between its two barriers.  The hand-over of the caller's
task to the idle task and back is `Scheduler`'s subject and not repeated there.

`AbstractLock` is the specification of a lock.  `Mutex` is shown to implement it
(`ImplementsLock`: `owners` is the set of tasks that hold the mutex), and
`PageManager` takes its ticket lock to be one.

`LockfreeStack` has one step per access to shared memory of `push` and `pop`: read
the head, read or write the `next` word in the element, compare and swap.  A
popped element belongs to its new owner, who writes over that word (`Junk`).  The
32-bit count of `AbaPtr` is kept only as far as it matters: whether anybody has
updated the head since it was read.  `stack` is a history variable with the
elements that atomic operations would have left, and `StacksLinked` compares it
with the links.  `StackSpec` is the specification of the stacks with any code
that uses them: a caller (`Client`) pushes and writes to nothing that is on a
stack or in the hands of another.  `PageManager` calls these operations as the code does (`at`,
`node`, `ret`): `Split` and `Popped` are `pop_bucket`, `Take` and `Freed` the
counting and the return of spare pages, `LockHeap` to `Grant` are
`_allocatePage`, `Returned` to `End` the top-up of the kernel's reserve,
`Laid` to `AddPages` are `addMemory`, `Drained` and `Merge` are `coalesce`.
Pages are numbers, so buddies and alignment are real.  Left out are the low-water
mark, the total, the coalesce counter and `forceMemoryPeriodic`; what
`_initialize` does on one CPU is `Init`: one range, and the reserve cut from it as
`allocatePage` would, so that its pages merge with their neighbours once they are
freed to the main heap; the retry loop of user-mode allocation is repeated calls
and `coalesce` in between.

`MessageHandler` gives `sendMessage` and `recvMessage`, and the kernel-message
paths of `MsgWait` and `MsgRespond`, as functions of the kernel state, because
all of them run under the subsystem's spinlock; the virtual method
`handleResponse` is a constant of that module, to which `Block`'s configurations
give the value `handleBlockResponse`.  `recvMessage` is the code's loop: while there
is an entry for the key, `answerNewest` tells the newest one.  `Block` is everything under
`VmmManager::lock`: a kernel entry (exception, system call, decrementer, response)
is one step, and between them tasks on other CPUs store through whatever the page
table maps.  `spte` are the shadow entries, `hpte` the hash page table entries,
`va2pa` and `msgCount` the lists of `BlockWriteMsgHdlr`.  Contents are abstracted to
`latest[va]`, the places that hold what was last stored there; a read or write by
the daemon copies.  All virtual pages share one group of `Slots` entries, and any
entry may be the one `findOldPTE` gives up; least-recently-used ages are abstracted
to *any* set of evictable pages.  Pages are cast out wherever the code does: by
`executePeriodics` on the master, from the decrementer (`Decrementer`), `task_yield`
(`TaskYields`, after the next task was made current) and `cpu_nap` of the idle task,
and by `mm_alloc_pages` on any CPU (both `CastOut`); that memory is low then, and
that one `mm_alloc_pages` at a time does so, is left open.  Executable pages behave as read-only ones;
permissions that the base block keeps for a physical page are left out; a daemon
is one task per block, as in `pnorrp.C`, `vfsrp.C` and `attrrp.C`, so that it serves
reads and writes in the order they were sent; nobody sleeps or pins here, and
`mm_set_permission` is called for one page at a time.  That a PNOR provider drops
writes after its shutdown message is not modelled.

Data is abstracted: message contents, task contexts, return values and times are
left out unless a property is about them.  `MsgWaitTimeout` keeps the unsigned
arithmetic of the remaining time (modulo `Width`) because one is.

## 3. Runs

| Run | Question | Result |
|---|---|---|
| `mutex` | do four tasks exclude each other, lose no wake-up, does somebody always get in, and is that a lock as `AbstractLock` says? | holds |
| `condvar` | does every way out of `sync_cond_wait` own the mutex; does a broadcast reach those on their way to sleep; is nobody it moved left behind? | holds |
| `barrier` | do three tasks go through two rounds together? | holds |
| `recursive_mutex` | does the racing read of the owner break anything? | holds |
| `threadpool` | are items run exactly once, with crashes, inserts from items, and shutdown? | holds |
| `msgqueue` | are callers blocked until answered, responses matched, tasks in one place? | holds |
| `msg_live` | do synchronous calls return and ready tasks run? | holds |
| `msg_wait_timeout` | constraints A, D, E, F of the code's comment, and no early timeout | holds |
| `task_tree` | dangling trackers, leaks, unnoticed crashes, waits for the dead | holds |
| `deferred_work` | active CPUs held for the master, use after delete, completion, with CPUs that start and that winkle | holds |
| `page_manager` | with allocation, release, added memory and coalescing interleaved step by step: is a page lost, given twice or merged wrongly; are the counters right in the end; are the stacks only used as `StackSpec` allows? | holds |
| `block` | with faults, stores, flushes, evictions, permission changes and read errors on two CPUs: is a store lost, a page shared or leaked, a task left waiting? | holds |

### Bounds, and why they are enough

* `mutex`: 4 tasks.  One owner, one waker and two sleepers is the most that the
  word's three values and wake-one can tell apart; the theorems cover the rest.
* `condvar`: 3 tasks, `MaxSequence` = 2 signals or broadcasts: two sleepers, one
  woken and one moved, while a third task signals again.  `sequence` itself is
  64 bits wide in the code and does not wrap.
* `barrier`: 3 tasks, 2 rounds: overlap of consecutive rounds with a slow task,
  a fast one and a last one.
* `recursive_mutex`: 3 tasks, depth 2.
* `threadpool`: the owner, 2 workers, 2 items with different ranks, so that the
  item taken need not be the head; `MaxSequence` = 3 is never reached by more
  than two signals and a broadcast.
* `msgqueue`: 2 servers and a client on 2 CPUs, 2 messages, every call; a
  secondary queue with at most `MaxPending` = 1 stale pending response (see
  section 6); at most one pin per task.  `msg_live`: 2 clients, 1 server.
* `msg_wait_timeout`: 2 real messages, 2 calls in a row with the same address for
  the done message, a timeout of 2 ms and a clock followed up to 4 ms.
* `task_tree`: 4 tasks, two of which may detach: grandparent, parent, child and
  a sibling.
* `deferred_work`: 3 CPUs, one of them coming online at any time, memory for two
  items which is reused, `MaxWinkles` = 1 of them a winkle.  No CPU is started
  during the winkle (`StartDuringWinkle` = FALSE), which the code asserts; section 6
  says what happens otherwise.
* `page_manager`: 2 processes and `MaxCalls` = 5 calls in all, on a main range of 6
  pages that does not start at a multiple of 4, 2 of which are the reserve, and 1
  page added later; requests of 1 and 3 pages, so that spare pages go back; 3
  buckets, 2 tries.  That is enough for a pop to meet an element popped and pushed
  again, for a split to race a merge, and for the reserve to be split, used and
  filled up.  The reserve need not be a power of two (the code's is 10); with 8
  pages, 3 of them reserved, and 4 buckets the same properties hold, in too many
  states (1,950,412) for a regular run.  Counters wrap at `Width` = 16, larger than the memory.
* `block`: 2 user tasks and a daemon on 2 CPUs; 2 pages of a block with handlers
  and 1 allocated from zero, 3 physical pages and 2 slots in the page table, so
  that memory runs out and entries are given up; one page may change between
  writable and read-only.  Nothing bounds the length of a behaviour.

Each module states its type invariant beside its properties, as documentation of
the state and as the start of proofs; the runs check what is beyond it.

Deadlock is checked except where tasks may stop for good: bounded rounds
(`barrier`), no more signals (`condvar`), a finished pool (`threadpool`), all
tasks ended (`task_tree`), no more calls (`page_manager`).

### Fairness

* User tasks: weak fairness of every task's next library step.  The decrementer
  preempts a task at the end of its slice and `returnRunnable` puts it at the end
  of a first-in first-out queue (`scheduler.C`), which `msg_live` shows to keep
  every ready task running.  Clients are not obliged to ask for a lock; an owner
  is obliged to give it back (strong fairness where it may nest or wait in
  between).
* `msg_live`: the decrementer fires on every CPU again and again and delayed
  tasks become due; a server that gets to run infinitely often finishes its next
  call in one of its slices (strong fairness).  Nothing is asked of clients.
* `msg_wait_timeout`: both tasks run and time passes.
* `deferred_work`: a CPU in the kernel runs with interrupts off and in user space
  is interrupted again, and a CPU in winkle is woken: weak fairness of each CPU's
  own steps.  Nothing is asked of the queue's lock.
* `Block` (`MCBlockLive.cfg`): exceptions are handled; a decrementer interrupt
  stays pending while exceptions are, so strong fairness; a daemon that gets to
  run again and again gets its next step done in one of its slices.

## 4. Mutants

Every property has a mutant beside the definition it changes (`LockTasBarges`,
`ReacquireCas`, `CompleteWaitNot`, ...): the change a plausible slip in that code
would make, for which TLC finds the property violated.  `ReacquireCas` is the
very `mutex_lock(i_mutex)` that the comment in `sync_cond_wait` warns about;
`CanUpdatePointer` is a stack without the count of `AbaPtr`, `EvenAbsolute` the
buddy test the comment in `coalesce` replaced, `SentNever` a message handler that
does not look for a message already sent.

## 5. Proofs

Every theorem is of the form `Spec => []Inv` for the safety part of the
specification the run uses (exceptions are noted below), for all values of the
constants that satisfy the assumptions named in the modules: any finite set of
tasks, CPUs or items, any bound on rounds, signals or nesting.  None of the
properties is inductive as it stands.  Each module of proofs defines the invariant
that is, has one lemma per action (or per kind of action) that keeps it, and ends
with the temporal step.  The invariants were checked with TLC on the runs'
instances before they were proved.

**`SyncProofs`, mutex.** `TypeCorrect`, `MutualExclusionHolds`, `NoLostWakeupHolds` and
`MutexImplementsLock`.  `IndInv` adds to the properties that a task is on a futex
list at most once (`SleepsOnce`: otherwise waking one entry would not make its task
runnable), that the return address fits the call (`Returns`: otherwise an unlocking
task could return into the critical section), that the word is 0 exactly when
nobody owns the mutex (`WordTellsHeld`: what the atomics test, and what gives
exclusion), and that every sleeper will try the test-and-set next
(`SleepersRetry`: so a woken task marks the word contended again, which is what
keeps the sleepers behind it from being forgotten).  The lemmas about the lists of
`Futex` (what is on a list after a wait, that a wake of one makes exactly the newest
waiter runnable) and about the six steps of the mutex serve the rest of the
module.  `MutexImplementsLock` shows the refinement `ImplementsLock` step by step:
a step of the mutex either is `AbstractLock`'s `Lock` or `Unlock` of the same task,
enabled because of `WordTellsHeld`, or leaves the set of owners alone.

**`SyncProofs`, recursive mutex and barrier.** Of the recursive mutex, `RecursiveMutualExclusionHolds` and
`OwnerCountsNestingHolds` (and `RecursiveTypeCorrect`).  What the unlocked read of
`iv_owner` needs is `OwnerIsHolder`: the word names a task exactly from its own
write in `recursive_mutex_lock` to its write in the last `recursive_mutex_unlock`, so
that the comparison with its own id tells a task the truth whatever others write.

Of the barrier, `NobodyLeavesEarlyHolds`.  `RoundsFit` ties the calls and returns
of each task to the event it has read, `MissingFits` says that `iv_missing` is the
number of tasks that have yet to come to the round (with the one state in
between, when the event is published and the counter is not reset), and both rest
on the mutex (`OneHasMutex`).

**`SyncProofs`, condition variable and thread pool.** `CondMutualExclusionHolds`, `BroadcastMissesNoneHolds`, and
`CondNoLostWakeup`: `NoLostWakeup` of the mutex also with sleepers that a broadcast
has moved to it.  The last is the point of the comment in `sync_cond_wait`: it
needs that every sleeper, on either futex, takes the mutex with the test-and-set next
(`CondSleepersRetry`), and that a broadcast returns to a caller that has the mutex
(`CondReturns`).  The proof holds for every `MaxSequence`.

The module also proves `PoolEachItemOnce` and `PoolShutdownCompletes` of `ThreadPool`, for
any number of workers and items, any ranks, items that insert items and items that
crash.  `PoolInd` first frees the pool from the library: `Cont(t)` is the place in
`threadpool.C` where a task is or to which the call it is in will return, no step
of the mutex or the condition variable changes it (`PoolLibLock`), and the pool
enters the library with the mutex where it must have it and without it elsewhere
(`PoolLockInd`).  On these places the rest is stated: who has an item in hand
(`ItemsInHand`), that each item is in one place (`InOnePlace`, `EachItemOnce` without
counting), that a worker stops only after `iv_shutdown` is set and leaves work behind
only to a worker that goes on or has crashed (`StopsFit`: why work that an item
inserts during the shutdown is still done), and that every worker not joined yet is
on `iv_children` or waited for (`ChildrenFit`).  `SearchFinds` shows that the search of
`__remove` always finds an item on a list that is not empty, and `WithoutProperties`
what erasing it leaves.

**`TaskTreeProofs`.** `ParentsAreTrackedHolds`, `FinishedAreCollectableHolds`,
`CrashesAreNoticedHolds`, `AwaitedIsRunningHolds`.  `TreeInd` adds that the parent
pointers have no cycle (`NoCycle`, stated without recursion: every set of trackers
has one whose parent is outside of it), that a finished tracker has a status and
a parent other than the kernel, and that whoever waits is alive.  `Removed` (what
`removeTracker`'s recursion deletes) and `Ancestors` are defined as least closed sets,
so that the proof can reason about them by choosing a closed set.

**`DeferredWorkProofs`.** `NoUseAfterDeleteHolds`, for every number of CPUs and items,
with CPUs that start and winkle.  The invariant says that a CPU works on the item
at the head of the queue or on one the master has taken off it
(`WorkIsHeadOrDone`), that the queued items are a chain (`QueueIsChain`), that the
count in the queue's word is the number of CPUs that have taken a pointer to the
first item and the count in an item the number of those that have got into it
(`CountsAreRight`), that an item under construction is its creator's only
(`NewIsPrivate`), and that nobody leaves an item before all CPUs with a pointer to
it are in (`NobodyLeavesBefore`).  The last CPU out then is the only one that has
the pointer.

`ActiveCpusHeldHolds`, on top of it, for both values of `StartDuringWinkle`.
`HeldInd` says that whoever is on by the time an item is queued and has a sequence
number no later than the item's is one of its members (`SeqFits`), that only
members wait at the barrier (`ActivesFit`), that nobody passes `iv_releasePre` before
the master has set it (`PreFits`), and what the barrier's counter counts
(`BarrierFits`): before the first barrier is over, `iv_missing` and the CPUs that wait
make up the members (`Round0`); between the two every member is inside and the
same holds of the second wait (`Round1`); after it nobody leaves before
`iv_releasePost` (`Round2`).  One barrier serves twice, and a CPU may still be
waking up from the first wait when another comes to the second: `local`, the event
a CPU has read, tells the two apart, so that it is counted in one round only.

**`MsgQueueProofs`.** `MsgEachTaskInOnePlace`, `MsgSendRecvBlocks` and
`MsgRequestsOwed`, for any finite sets of CPUs, clients, servers and messages, and any
bounds.  They have the hypothesis `~ReuseBuffers` (clients free a message before they
use its buffer again, as in the run): with it false `MCMsgReuse.cfg` shows what goes
wrong (section 6).  The scheduler is a record that system calls transform
step by step, so the proof rests on `SchedulerProofs`, which is about its operators: `Holds(s, V, K)` says that the
scheduler `s` has exactly the tasks of `K`, each in one place, where on the CPUs of `V`
the running task is not counted because it is just being put away.  There is one
lemma for each operator (`addTask`, `returnRunnable`, `setNextRunnable`, `delayTask`,
...), from `Holds` to `Holds`.  `MsgInv` then is `Holds(sched, {}, Ready)`, where `Ready`
are the tasks no message call has blocked, and what the lists of the two queues
hold: a task waits once (`WaitersInv`), each message has one entry and the stage it is
in tells which list that is on (`EntriesInv`, `StagesInv`), and a task in
`msg_sendrecv` has an entry with its name (`CallersInv`).  `checkReleaseTasks` is a
recursive function over the tasks that are due; that it keeps `Holds` is shown by
the least number for which it would not (`LeastNatural`), the induction that is
within the provers' reach.

**`BlockProofs`.** `BlockMemoryIsCoherent`, `BlockPagesInOnePlace` and
`BlockWaitersAreOwed`, for any finite sets of CPUs, user tasks and physical pages, any
number of virtual pages and page table entries, any permissions, and read errors.  The
hypothesis `BlockHandlers` has three parts.  `handleResponse` is `handleBlockResponse`,
as in the configurations.  One daemon serves the block, as in the resource providers
of the repository; with two, TLC finds `MemoryIsCoherent` violated within a few
steps: the read of a page by one daemon overtakes the write of it that the other
has not done yet.  And writes do not fail; with errors `PagesInOnePlace` does not
hold (`MCBlockWriteError.cfg`, section 6).

Operations here are functions of the whole kernel state, composed of others, so the
invariant `KInv(k, X, off)` is a predicate of such a state and there is a lemma for
each of them; `X` is the handler and key whose response is just being handled (its
message is gone and its waiters are not told yet), `off` the daemon while it is off
the CPU that it gave to the first waiter.  Its parts: a physical page is
free, of one shadow entry or on `iv_va2paList` (`PagesFit`); the hash page table has what
the shadow entries say (`TableFits`); the queue holds one message at most for a
handler and page, a page on its way is not present, and nothing about the same page
is ahead of a write (`QueueFits`, `FlightsOnce`, `FlightsFit`: why the next read finds
the written contents on the device); who has the latest contents while pages move
(`ContentsFit`: the present page, the device, or a page whose write is still to be
done); somebody waits for a message exactly if it is on its way (`SentFits`); a task
waits for one read or for the counted writes (`TasksFit`); and the scheduler has
exactly the tasks that neither wait nor have ended, each once (`Holds`).
`removePages` and `recvMessage` are recursive functions over the pages and over the
entries for a key; that they keep the invariant is shown by the least number of
rounds for which they would not.

**`MsgWaitTimeoutProofs`.** `NothingLeftBehindHolds`, `NoMessageLostHolds`,
`NoEarlyTimeoutHolds`.  `Handshake` relates the program counters of caller and
waiter and the done message (there is at most one, and only between the waiter's
send and the caller's receipt); `Kept` is the conservation of messages, and
`TimeLeft` relates what the waiter has still to wait to the time that has passed.  The last
theorem has the hypothesis `RequestFits`: the request is less than half the width
of the unsigned counter (of 64 bits in the code) and not longer than the time
the model follows; without it the subtraction may wrap.

**`LockfreeStackProofs`.** `StacksLinkedHolds` and `TokenIsFound` are about `StackSpec`:
any processes, elements and stacks, and any code that uses them as `Client` says.
That the page manager is such code is what its run checks on an instance
(`StackSpec` as a property of `PageManager`).  The invariant says that an element in
the hands of a process is on no stack and in nobody else's hands
(`HandsAreApart`), and that what a process has read of the head and of the next
word is still so as long as the count is (`FreshIsTrue`).

The assumptions about constants are `TasksAssumption` (finitely many tasks),
`AddrAssumption` (futex addresses), and those named in each module, which say that
sets are finite and special values are not members of them.  The regular runs
evaluate them.

**Left to TLC.**  Everything under fairness (`SomeoneGetsIn`, `EveryRoundEnds`,
`EveryCallReturns`, ...) is out of the prover's reach.  So is what `Pieces` in
`PageManager` computes for every number of pages (induction over the bits of a
number), on which `PagesConserved`, `FreeBlocksAreBuddies` and `CountsSettle` rest.

## 6. Deviations the models show

Where the code does something else than a comment, an assertion or a header says,
the regular runs leave the case out or check what does hold, and a configuration
of its own shows it; TLC reports the named property violated.

* `MCTaskCreate.cfg` on `TaskTree`, `CreateReturnsTid`: `TaskStart` reads
  `newTask->tid` (`syscall.C:253`) after the task has been put on the run queue;
  another CPU may have run it to its end and deleted it (`taskmgr.C:251`).
  `sys/task.h:53`: "@return The task ID of the child."
* `MCMsgWaitTime.cfg` on `MsgWaitTimeout`, `RemainingTime`: `io_milliseconds` is
  reduced by the elapsed time in unsigned arithmetic (`syscall_msg.C:302`) and
  wraps when the call took longer than asked, as it does after nearly every
  timeout; `sys/msg.h:361` says "Returns any remaining milliseconds".
* `MCBarrierDestroy.cfg` on `Barrier`, `DestroyAssertion`: `barrier_wait` increments
  `iv_event` before it resets `iv_missing` (`sync.C:113-114`); a task that returns
  in between and destroys the barrier, as `synctest.H:127-129` does, fails the
  assertion at `sync.C:92`.
* `MCMsgPinned.cfg` on `MsgQueue`, `PinnedStaysPut`: `MsgSendRecv` and `MsgRespond`
  hand the CPU to a task without looking at its `affinity_pinned`
  (`syscall.C:489`, `:559`; `msghandler.C:169` does look).
* `MCMsgReuse.cfg` on `MsgQueue`, `SendRecvBlocks`: nothing clears
  `__reserved__pseudosync`, so a message sent once with `msg_sendrecv_noblk` and
  again with `msg_sendrecv` does not block its sender (`syscall.C:443-459`).
* `MCMsgReplyQ.cfg` on `MsgQueue`, `EveryPendingResponseOwed`: reading a relayed
  response with `msg_wait` records a pending response on the secondary queue that
  nobody removes (`syscall.C:592`).  `MaxPending` bounds that list in the other
  runs.
* `MCTaskJoin.cfg` on `TaskTree`, `NoExitMissed`: a task blocked in `task_wait` is
  not woken when it inherits a child that has already finished (`taskmgr.C:379`).
  One more disagreement there is below this model, which keeps the trackers'
  parents and not the links of their lists: a finished child that is handed to the
  kernel has been taken off its parent's list (`taskmgr.C:357`) when `removeTracker`
  calls itself for it (`:374`) and erases it from `iv_taskList` (`:354`), where it is
  not.  `List::erase` (`list.H:142-158`) then writes through the links it had among
  its siblings, which are null pointers for an only child, and otherwise may lead to
  a live sibling that is on `iv_taskList` by now and to a deleted one.
* `MCDeferredFresh.cfg` on `DeferredWork`, `FreshCpusHeld`: a CPU activated after an
  item's constructor and before its insertion finds the queue empty and runs user
  code while the master works alone (`deferred.C:167`, `:114`), which
  `deferred.H:66-72` excludes.
* `MCDeferredWinkle.cfg` on `DeferredWork`, `MembersHeld`: CPUs come back from a
  winkle with a new sequence number (`cpumgr.C:273`), so that for an item queued
  behind it none of them counts as active, not even the master, and nobody is
  held while the master works (`deferred.C:184`).
* `MCDeferredStart.cfg` on `DeferredWork`, `NobodyNewWinkles`: if a core is started
  while a winkle item is under way, it reaches the assertion of
  `nonactiveMainWork` (`misc.C:390-397`, "Race condition that should not occur").
* `MCPageOom.cfg` on `PageManager`, `NoSpuriousOom`: `iv_lock` covers
  `_allocatePage`, and "later threads ended up seeing no chunks available"
  (`pagemgr.C:384-394`) can still happen because topping up the reserve
  (`:459`) and a coalesce from user mode (`:245`; `pagemgr.H` asks that "all other
  processes are quiesced") hold blocks off the stacks without it; a kernel
  allocation then stops the machine (`:426`) with memory free.
* `MCPageRanges.cfg` on `PageManager`, `CoalesceKnowsRanges`: `addMemory` pushes the
  blocks (`:74`) before it registers their range (`:92`); a coalesce in between
  fails `kassert(found)` (`:559`).
* `MCBlockWriteError.cfg` on `Block`, `PagesInOnePlace`: a write answered with an
  error returns before the page is freed, its `iv_va2paList` entry erased and the
  task's count reduced (`blockmsghdlr.C:54-58`); all three stay behind.
* `MCBlockFlush.cfg` on `Block`, `FlushIsComplete`: a page that is being written out
  for somebody else is no longer present, so a flush passes it over
  (`block.C:685`) and returns before it is on the device (`vmmmgr.H:71`).
* `MCBlockNoAccess.cfg` on `Block`, `NoAccessIsEnforced`: `attachSPTE` does not look
  at permissions that were taken away while its page was read (`block.C:276-296`).

`MCBlockLive.cfg` is of the other kind: `WaitsEnd` (every fault and every removal
comes to an end) holds, checked on one CPU and two pages.

## 7. Not modelled

* The heap manager: the same stacks as the page manager; what is new is the
  layout of chunks, which is data.
* Device and stack segments, linear mapping and memory extension: sequential code
  under the lock that `Block` is about.
* Starting cores and the shutdown sequence: mostly access to hardware.
* Interrupts, IPC, machine checks and doorbells: hardware entry points.  Where
  they matter they appear as the decrementer or as a fault.
* The user-space daemons (VFS, PNOR, mailbox, PLDM, MCTP, error log, targeting,
  diagnostics): they use the modelled primitives, and their own logic is about
  device protocols and data.
* Imported hardware procedures, register definitions, the boot loader, runtime
  services and build tools: straight-line code, data or generated.  They are
  nearly all of the repository's four million lines; the kernel and its library,
  which this project is about, are some twenty-five thousand.
* Weak memory: each shared access is taken to be sequentially consistent, which
  the barriers described in the code's "weak consistency notes" are there to
  justify.  The count of `AbaPtr` is taken not to wrap during one operation.

## 8. Plan

Done: all modules of section 2, and the proofs of section 5.  Next:

1. The heap manager on `LockfreeStack` and `PageManager`, with coalescing as a
   deferred work item.
