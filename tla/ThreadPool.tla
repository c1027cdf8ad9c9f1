---------------------------- MODULE ThreadPool ----------------------------
(***************************************************************************)
(* Util::ThreadPool (src/src/usr/util/threadpool.C and the headers         *)
(* util/threadpool.H, util/impl/threadpool.H): a work list behind a mutex  *)
(* and a condition variable, composed here with the models of both.        *)
(*                                                                         *)
(* One task, Main, starts the pool, inserts work and shuts the pool down;  *)
(* the workers take work until they are told to stop.  A work item may     *)
(* itself insert further work, and may crash the worker that runs it.      *)
(***************************************************************************)
EXTENDS CondVar

CONSTANTS Main,              \* the task that owns the pool
          Items,             \* the work items
          NoItem,            \* the NULL that __remove returns at the end
          Rank,              \* the order of the items under operator<
          iv_checkChildRc    \* the constructor's argument

Workers == Tasks \ {Main}

ASSUME PoolAssumption ==
    /\ Main \in Tasks /\ Workers # {}
    /\ NoItem \notin Items
    /\ Rank \in [Items -> Nat]
    /\ iv_checkChildRc \in BOOLEAN

VARIABLES iv_worklist, iv_shutdown,
          iv_children,       \* the workers created and not joined yet
          status,            \* of each worker: none, running, clean, crashed
          adding,            \* the item a task is inserting
          wi,                \* the item a worker has taken
          child,             \* the worker that __shutdown waits for
          l_origError,       \* an error log will be returned
          inserted,          \* history: the items inserted so far
          executed           \* history: the items that ran to their end

wvars == <<adding, wi, child>>

pvars == <<iv_worklist, iv_shutdown, iv_children, status, wvars, l_origError,
           inserted, executed>>

allvars == <<vars, pvars>>

PoolLabels == {"insert", "insert_end", "remove", "work", "end", "ended",
               "start", "shutdown", "join", "join_wait", "done"}

(* The steps of the mutex and the condition variable.                      *)
LibStep(t) == CondStep(t) /\ UNCHANGED pvars

(* The steps that touch neither.                                           *)
LibUnchanged == UNCHANGED <<iv_val, waiters, cvars>>

-----------------------------------------------------------------------------
(* __insert, by Main or from inside a work item                            *)

Home(t) == IF t = Main THEN "idle" ELSE "work"

__insert(t, i) ==
    /\ At(t, Home(t))
    /\ i \notin inserted
    /\ inserted' = inserted \cup {i}
    /\ adding' = [adding EXCEPT ![t] = i]
    /\ Call(t, "lock_cas", "insert")
    /\ LibUnchanged
    /\ UNCHANGED <<iv_worklist, iv_shutdown, iv_children, status, wi, child,
                   l_origError, executed>>

(* Mutant: the workers are not told.                                       *)
InsertPushSilent(t) ==
    /\ At(t, "insert")
    /\ iv_worklist' = Append(iv_worklist, adding[t])
    /\ adding' = [adding EXCEPT ![t] = NoItem]
    /\ Call(t, "unlock_sub", Home(t))
    /\ LibUnchanged
    /\ UNCHANGED <<iv_shutdown, iv_children, status, wi, child, l_origError,
                   inserted, executed>>

(* push_back and sync_cond_signal, under the mutex                         *)
InsertPush(t) ==
    /\ At(t, "insert")
    /\ iv_worklist' = Append(iv_worklist, adding[t])
    /\ adding' = [adding EXCEPT ![t] = NoItem]
    /\ sync_cond_signal(t, "insert_end")
    /\ UNCHANGED <<iv_shutdown, iv_children, status, wi, child, l_origError,
                   inserted, executed>>

InsertEnd(t) ==
    /\ At(t, "insert_end")
    /\ Call(t, "unlock_sub", Home(t))
    /\ LibUnchanged /\ UNCHANGED pvars

-----------------------------------------------------------------------------
(* run and __remove, the workers                                           *)

(* The oldest of the items that no other item is less than; the head when  *)
(* the items are not ordered.                                              *)
search(list) ==
    CHOOSE n \in DOMAIN list :
        \A m \in DOMAIN list : \/ Rank[list[n]] < Rank[list[m]]
                               \/ Rank[list[n]] = Rank[list[m]] /\ n <= m

(* Mutant: the head is erased, whatever item was taken.                    *)
WithoutHead(list, n) == Tail(list)

Without(list, n) == SubSeq(list, 1, n - 1) \o SubSeq(list, n + 1, Len(list))

(* The body of __remove under the mutex: wait, stop, or take an item.      *)
RemoveWait(t) ==
    /\ iv_worklist = << >> /\ ~iv_shutdown
    /\ sync_cond_wait(t, "remove")
    /\ UNCHANGED <<iv_worklist, wi>>

(* Mutant: a worker stops as soon as it is told to, work or no work.       *)
RemoveStopsEarly(t) ==
    /\ iv_shutdown
    /\ wi' = [wi EXCEPT ![t] = NoItem]
    /\ Call(t, "unlock_sub", "end")
    /\ LibUnchanged /\ UNCHANGED iv_worklist

RemoveStop(t) ==
    /\ iv_worklist = << >> /\ iv_shutdown
    /\ wi' = [wi EXCEPT ![t] = NoItem]
    /\ Call(t, "unlock_sub", "end")
    /\ LibUnchanged /\ UNCHANGED iv_worklist

RemoveTake(t) ==
    /\ iv_worklist # << >>
    /\ LET n == search(iv_worklist) IN
          /\ wi' = [wi EXCEPT ![t] = iv_worklist[n]]
          /\ iv_worklist' = Without(iv_worklist, n)
    /\ Call(t, "unlock_sub", "work")
    /\ LibUnchanged

__remove(t) ==
    /\ At(t, "remove")
    /\ RemoveWait(t) \/ RemoveStop(t) \/ RemoveTake(t)
    /\ UNCHANGED <<iv_shutdown, iv_children, status, adding, child,
                   l_origError, inserted, executed>>

(* The item ends and is deleted; the worker calls __remove again.          *)
Work(t) ==
    /\ At(t, "work")
    /\ executed' = executed \cup {wi[t]}
    /\ wi' = [wi EXCEPT ![t] = NoItem]
    /\ Call(t, "lock_cas", "remove")
    /\ LibUnchanged
    /\ UNCHANGED <<iv_worklist, iv_shutdown, iv_children, status, adding,
                   child, l_origError, inserted>>

(* The item crashes and the kernel ends the task.                          *)
Crash(t) ==
    /\ At(t, "work")
    /\ status' = [status EXCEPT ![t] = "crashed"]
    /\ Goto(t, "ended")
    /\ LibUnchanged
    /\ UNCHANGED <<iv_worklist, iv_shutdown, iv_children, wvars,
                   l_origError, inserted, executed>>

(* run returns and the task ends.                                          *)
End(t) ==
    /\ At(t, "end")
    /\ status' = [status EXCEPT ![t] = "clean"]
    /\ Goto(t, "ended")
    /\ LibUnchanged
    /\ UNCHANGED <<iv_worklist, iv_shutdown, iv_children, wvars,
                   l_origError, inserted, executed>>

-----------------------------------------------------------------------------
(* __start                                                                 *)

__start(t) ==
    /\ t = Main /\ At(t, "idle")
    /\ \A w \in Workers : status[w] = "none"
    /\ Call(t, "lock_cas", "start")
    /\ LibUnchanged /\ UNCHANGED pvars

(* task_create, one worker at a time; then mutex_unlock                    *)
StartChildren(t) ==
    /\ At(t, "start")
    /\ \/ \E w \in Workers :
             /\ status[w] = "none"
             /\ status' = [status EXCEPT ![w] = "running"]
             /\ iv_children' = Append(iv_children, w)
             /\ Call(w, "lock_cas", "remove")
       \/ /\ \A w \in Workers : status[w] # "none"
          /\ Call(t, "unlock_sub", "idle")
          /\ UNCHANGED <<status, iv_children>>
    /\ LibUnchanged
    /\ UNCHANGED <<iv_worklist, iv_shutdown, wvars, l_origError, inserted,
                   executed>>

-----------------------------------------------------------------------------
(* __shutdown                                                              *)

__shutdown(t) ==
    /\ t = Main /\ At(t, "idle")
    /\ \A w \in Workers : status[w] # "none"
    /\ Call(t, "lock_cas", "shutdown")
    /\ LibUnchanged /\ UNCHANGED pvars

(* Mutant: one worker is told instead of all.                              *)
ShutdownSetSignals(t) ==
    /\ At(t, "shutdown")
    /\ iv_shutdown' = TRUE
    /\ sync_cond_signal(t, "join")
    /\ UNCHANGED <<iv_worklist, iv_children, status, wvars, l_origError,
                   inserted, executed>>

(* iv_shutdown = true, sync_cond_broadcast                                 *)
ShutdownSet(t) ==
    /\ At(t, "shutdown")
    /\ iv_shutdown' = TRUE
    /\ sync_cond_broadcast(t, "join")
    /\ UNCHANGED <<iv_worklist, iv_children, status, wvars, l_origError,
                   inserted, executed>>

(* Take the next child and unlock, or unlock and return.                   *)
Join(t) ==
    /\ At(t, "join")
    /\ \/ /\ iv_children # << >>
          /\ child' = Head(iv_children)
          /\ iv_children' = Tail(iv_children)
          /\ Call(t, "unlock_sub", "join_wait")
       \/ /\ iv_children = << >>
          /\ Call(t, "unlock_sub", "done")
          /\ UNCHANGED <<child, iv_children>>
    /\ LibUnchanged
    /\ UNCHANGED <<iv_worklist, iv_shutdown, status, adding, wi, l_origError,
                   inserted, executed>>

(* task_wait_tid returns the child's status, or an error that is handled   *)
(* as a crash is; mutex_lock                                               *)
JoinWait(t) ==
    /\ At(t, "join_wait")
    /\ status[child] \in {"clean", "crashed"}
    /\ l_origError' = (l_origError
                        \/ (iv_checkChildRc /\ status[child] # "clean"))
    /\ Call(t, "lock_cas", "join")
    /\ LibUnchanged
    /\ UNCHANGED <<iv_worklist, iv_shutdown, iv_children, status, wvars,
                   inserted, executed>>

-----------------------------------------------------------------------------
PoolInit ==
    /\ FutexInit
    /\ iv_val = 0
    /\ pc  = [t \in Tasks |-> IF t = Main THEN "idle" ELSE "ended"]
    /\ ret = [t \in Tasks |-> "idle"]
    /\ mutex = NULL /\ sequence = 0 /\ lastBroadcast = 0
    /\ seq  = [t \in Tasks |-> 0]
    /\ cret = [t \in Tasks |-> "remove"]
    /\ iv_worklist = << >> /\ iv_shutdown = FALSE /\ iv_children = << >>
    /\ status = [w \in Workers |-> "none"]
    /\ adding = [t \in Tasks |-> NoItem]
    /\ wi = [w \in Workers |-> NoItem]
    /\ child = Main
    /\ l_origError = FALSE
    /\ inserted = {} /\ executed = {}

PoolStep(t) ==
    \/ LibStep(t) \/ InsertPush(t) \/ InsertEnd(t)
    \/ __remove(t) \/ Work(t) \/ End(t)
    \/ StartChildren(t) \/ ShutdownSet(t) \/ Join(t) \/ JoinWait(t)

PoolNext ==
    \E t \in Tasks :
        \/ PoolStep(t) \/ Crash(t) \/ __start(t) \/ __shutdown(t)
        \/ \E i \in Items : __insert(t, i)

(* Every task that can run does, and every work item ends or crashes.      *)
PoolFairness == \A t \in Tasks : WF_allvars(PoolStep(t))

PoolSpec == PoolInit /\ [][PoolNext]_allvars /\ PoolFairness

-----------------------------------------------------------------------------
(* The values the pool's state can have.                                   *)
PoolTypeOK ==
    /\ FutexTypeOK
    /\ iv_val \in 0..2
    /\ pc  \in [Tasks -> MutexLabels \cup CondLabels \cup PoolLabels
                            \cup {"idle"}]
    /\ iv_worklist \in Seq(Items)
    /\ iv_children \in Seq(Workers)
    /\ status \in [Workers -> {"none", "running", "clean", "crashed"}]
    /\ adding \in [Tasks -> Items \cup {NoItem}]
    /\ wi \in [Workers -> Items \cup {NoItem}]
    /\ <<iv_shutdown, l_origError>> \in BOOLEAN \X BOOLEAN

(* An item is in one place: about to be pushed, on the list, with the one  *)
(* worker that runs it, or executed.  So none is lost and none runs twice. *)
EachItemOnce ==
    \A i \in inserted :
        Cardinality({n \in DOMAIN iv_worklist : iv_worklist[n] = i})
          + Cardinality({t \in Tasks : adding[t] = i})
          + Cardinality({w \in Workers : wi[w] = i})
          + Cardinality({i} \cap executed) = 1

(* "shutdown: completes outstanding work and destroys worker threads":     *)
(* when it returns without an error log every worker has ended and every   *)
(* item, those that items inserted while it waited included, has run.      *)
ShutdownCompletes ==
    pc[Main] = "done" =>
        /\ \A w \in Workers : status[w] \in {"clean", "crashed"}
        /\ ~l_origError /\ iv_checkChildRc => executed = inserted

(* Once the pool is started, inserted work is executed, unless the item    *)
(* crashes or no worker is left and one of them crashed.                   *)
WorkGetsDone ==
    \A i \in Items :
        (i \in inserted /\ \A w \in Workers : status[w] # "none")
            ~> \/ i \in executed
               \/ \E w \in Workers : status[w] = "crashed" /\ wi[w] = i
               \/ /\ \A w \in Workers : status[w] # "running"
                  /\ \E w \in Workers : status[w] = "crashed"

(* shutdown returns.                                                       *)
ShutdownReturns == (pc[Main] = "shutdown") ~> (pc[Main] = "done")
=============================================================================
