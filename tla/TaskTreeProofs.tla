-------------------------- MODULE TaskTreeProofs --------------------------
(***************************************************************************)
(* The tree of task trackers stays a tree, leaks no finished task and      *)
(* loses no crash, for any finite set of tasks that are created, joined,   *)
(* detached and ended in any order.                                        *)
(***************************************************************************)
EXTENDS TaskTree, TLAPS

(* A tracker without a task_t is one whose task has ended.                 *)
FinishedHaveStatus == \A c \in Finished : status[c] # "none"

(* No tracker is below itself: every set of trackers has one whose parent  *)
(* is outside the set.                                                     *)
NoCycle ==
    \A S \in SUBSET tracked : S # {} => \E c \in S : parent[c] \notin S

(* Only the kernel's own children have no parent that could wait for them, *)
(* and a finished task is never one of those.                              *)
FinishedHaveParent == kassert \/ \A c \in Finished : parent[c] # Kernel

(* Only a living task is blocked in task_wait, and never on a task that    *)
(* has detached.                                                           *)
WaitersAreLive ==
    \A t \in Tids : /\ wait_info[t] # None => t \in live
                    /\ wait_info[t] \notin detached

TreeInd ==
    /\ TreeTypeOK /\ FinishedHaveStatus /\ NoCycle /\ ParentsAreTracked
    /\ FinishedHaveParent /\ WaitersAreLive /\ AwaitedIsRunning
    /\ CrashesAreNoticed

-----------------------------------------------------------------------------
(* What removeTracker(t) deletes: t, besides it only finished tasks, and   *)
(* below the kernel every finished child of what it deletes.               *)
LEMMA RemovedProperties ==
    ASSUME TreeTypeOK, NEW t \in Tids
    PROVE  /\ t \in Removed(t) /\ Removed(t) \subseteq Tids
           /\ Removed(t) \subseteq Finished \cup {t}
           /\ parent[t] # Kernel => Removed(t) = {t}
           /\ parent[t] = Kernel => HasFinishedChildren(Removed(t))
  <1>1. CASE parent[t] # Kernel
    BY <1>1 DEF Removed
  <1>2. CASE parent[t] = Kernel
    <2>1. Removed(t) = {c \in Tids : \A S \in SUBSET Tids :
                          t \in S /\ HasFinishedChildren(S) => c \in S}
      BY <1>2 DEF Removed
    <2>2. t \in Removed(t)
      BY <2>1
    <2>3. Removed(t) \subseteq Finished \cup {t}
      <3> DEFINE F == Finished \cup {t}
      <3>1. F \in SUBSET Tids
        BY DEF Finished, TreeTypeOK
      <3>2. t \in F /\ HasFinishedChildren(F)
        BY DEF HasFinishedChildren
      <3> HIDE DEF F
      <3>3. Removed(t) \subseteq F
        BY <2>1, <3>1, <3>2
      <3> QED BY <3>3 DEF F
    <2>4. HasFinishedChildren(Removed(t))
      <3> SUFFICES ASSUME NEW c \in Finished, parent[c] \in Removed(t)
                   PROVE  c \in Removed(t)
        BY DEF HasFinishedChildren
      <3>1. c \in Tids
        BY DEF Finished, TreeTypeOK
      <3>2. ASSUME NEW S \in SUBSET Tids, t \in S, HasFinishedChildren(S)
            PROVE  c \in S
        <4>1. parent[c] \in S
          BY <2>1, <3>2
        <4> QED BY <4>1, <3>2 DEF HasFinishedChildren
      <3> QED BY <2>1, <3>1, <3>2
    <2> QED BY <1>2, <2>1, <2>2, <2>3, <2>4
  <1> QED BY <1>1, <1>2

(* removeTracker leaves a tree: its children go to its parent, so every    *)
(* pointer leads to a tracker that is still there, and no cycle arises.    *)
LEMMA RemoveKeepsTree ==
    ASSUME TreeTypeOK, NoCycle, ParentsAreTracked,
           NEW t \in tracked, removeTracker(t)
    PROVE  NoCycle' /\ ParentsAreTracked'
  <1> DEFINE R == Removed(t)
  <1>1. t \in Tids /\ tracked \subseteq Tids /\ Kernel \notin Tids
    BY TreeAssumption DEF TreeTypeOK
  <1>2. /\ t \in R
        /\ parent[t] # Kernel => R = {t}
        /\ parent[t] \in tracked \cup {Kernel}
    BY <1>1, RemovedProperties DEF ParentsAreTracked
  <1> HIDE DEF R
  <1>3. /\ tracked' = tracked \ R
        /\ \A c \in tracked' : parent'[c] = IF parent[c] \in R THEN parent[t]
                                            ELSE parent[c]
    BY <1>1 DEF removeTracker, Reparented, R
  <1>4. parent[t] # t
    <2>1. {t} \in SUBSET tracked /\ {t} # {}
      OBVIOUS
    <2> QED BY <2>1 DEF NoCycle
  <1>5. ParentsAreTracked'
    <2> SUFFICES ASSUME NEW c \in tracked'
                 PROVE  parent'[c] \in tracked' \cup {Kernel}
      BY DEF ParentsAreTracked
    <2>1. CASE parent[c] \in R
      BY <2>1, <1>2, <1>3, <1>4
    <2>2. CASE parent[c] \notin R
      BY <2>2, <1>3 DEF ParentsAreTracked
    <2> QED BY <2>1, <2>2
  <1>6. NoCycle'
    <2> SUFFICES ASSUME NEW S \in SUBSET tracked', S # {},
                        \A c \in S : parent'[c] \in S
                 PROVE  FALSE
      BY DEF NoCycle
    <2>1. S \in SUBSET tracked /\ S \subseteq tracked'
      BY <1>3
    <2>2. CASE \A c \in S : parent[c] \notin R
      <3>1. \A c \in S : parent[c] \in S
        BY <2>1, <2>2, <1>3
      <3> QED BY <2>1, <3>1 DEF NoCycle
    <2>3. CASE \E c \in S : parent[c] \in R
      <3>1. parent[t] \in S
        BY <2>1, <2>3, <1>3
      <3>2. R = {t}
        BY <3>1, <2>1, <1>1, <1>2
      <3> DEFINE T == S \cup {t}
      <3>3. \A c \in T : parent[c] \in T
        BY <3>1, <3>2, <2>1, <1>3
      <3>4. T \in SUBSET tracked /\ T # {}
        BY <2>1
      <3> QED BY <3>3, <3>4 DEF NoCycle
    <2> QED BY <2>2, <2>3
  <1> QED BY <1>5, <1>6

(* Below the kernel every finished task goes with its parent, so that none *)
(* is handed to the kernel, which never waits for it.                      *)
LEMMA RemoveKeepsParents ==
    ASSUME TreeTypeOK, FinishedHaveParent, ~kassert,
           NEW t \in tracked, removeTracker(t),
           NEW c \in (Finished \cup {t}) \ Removed(t)
    PROVE  parent'[c] # Kernel
  <1>1. t \in Tids /\ c \in Tids
    BY DEF TreeTypeOK, Finished
  <1>2. /\ t \in Removed(t)
        /\ parent[t] # Kernel => Removed(t) = {t}
        /\ parent[t] = Kernel => HasFinishedChildren(Removed(t))
    BY <1>1, RemovedProperties
  <1>3. c \in Finished /\ parent[c] # Kernel
    BY <1>2 DEF FinishedHaveParent
  <1>4. parent'[c] = IF parent[c] \in Removed(t) THEN parent[t] ELSE parent[c]
    BY <1>1 DEF removeTracker, Reparented
  <1> QED BY <1>2, <1>3, <1>4 DEF HasFinishedChildren

(* removeTracker takes no pointer away from a living task other than t.    *)
LEMMA RemoveKeepsLive ==
    ASSUME TreeTypeOK, NEW t \in tracked, removeTracker(t),
           NEW c \in live \ {t}, parent[c] \in live \ {t}
    PROVE  parent'[c] = parent[c] /\ c \in tracked'
  <1>1. t \in Tids /\ c \in Tids /\ c \in tracked
    BY DEF TreeTypeOK
  <1>2. Removed(t) \subseteq Finished \cup {t}
    BY <1>1, RemovedProperties
  <1>3. c \notin Removed(t) /\ parent[c] \notin Removed(t)
    BY <1>2 DEF Finished
  <1> QED BY <1>1, <1>3 DEF removeTracker, Reparented

-----------------------------------------------------------------------------
(* The kernel's first task is a tree.                                      *)
LEMMA TreeInitInd == Init => TreeInd
  <1> SUFFICES ASSUME Init PROVE TreeInd
    OBVIOUS
  <1> USE TreeAssumption DEF Init
  <1>1. TreeTypeOK
    BY DEF TreeTypeOK
  <1>2. NoCycle
    BY DEF NoCycle
  <1>3. /\ FinishedHaveStatus /\ ParentsAreTracked /\ FinishedHaveParent
        /\ WaitersAreLive /\ AwaitedIsRunning /\ CrashesAreNoticed
    BY DEF FinishedHaveStatus, ParentsAreTracked, FinishedHaveParent,
           WaitersAreLive, AwaitedIsRunning, CrashesAreNoticed, Finished
  <1> QED BY <1>1, <1>2, <1>3 DEF TreeInd

(* A new task hangs below its creator, and nothing hangs below it.         *)
LEMMA StartInd ==
    ASSUME TreeInd, NEW t \in Tids, NEW c \in Tids, TaskStart(t, c)
    PROVE  TreeInd'
  <1> USE TreeAssumption DEF TaskStart, Running
  <1>1. /\ t \in live /\ c \notin tracked /\ t # c
        /\ tracked' = tracked \cup {c} /\ live' = live \cup {c}
        /\ parent' = [parent EXCEPT ![c] = t]
        /\ TreeTypeOK
    BY DEF TreeInd, TreeTypeOK, FinishedHaveStatus, Finished
  <1>2. TreeTypeOK'
    BY <1>1 DEF TreeTypeOK
  <1>3. t \in tracked /\ tracked \subseteq Tids
    BY <1>1 DEF TreeTypeOK
  <1>4. \A d \in tracked : parent'[d] = parent[d] /\ parent[d] # c
    BY <1>1, <1>3 DEF TreeInd, TreeTypeOK, ParentsAreTracked
  <1>5. ParentsAreTracked'
    BY <1>1, <1>3, <1>4 DEF TreeInd, TreeTypeOK, ParentsAreTracked
  <1>6. NoCycle'
    <2> SUFFICES ASSUME NEW S \in SUBSET tracked', S # {},
                        \A d \in S : parent'[d] \in S
                 PROVE  FALSE
      BY DEF NoCycle
    <2> DEFINE T == S \ {c}
    <2>1. T \in SUBSET tracked
      BY <1>1
    <2>2. T # {}
      <3>1. parent'[c] = t
        BY <1>1 DEF TreeTypeOK
      <3> QED BY <3>1, <1>1
    <2>3. \A d \in T : parent[d] \in T
      BY <2>1, <1>4
    <2> HIDE DEF T
    <2> QED BY <2>1, <2>2, <2>3 DEF TreeInd, NoCycle
  <1>7. Finished' = Finished
    BY <1>1 DEF Finished
  <1>8. FinishedHaveStatus' /\ FinishedHaveParent' /\ CrashesAreNoticed'
    BY <1>4, <1>7 DEF TreeInd, FinishedHaveStatus, FinishedHaveParent,
                      CrashesAreNoticed, Finished
  <1>9. WaitersAreLive'
    BY <1>1 DEF TreeInd, WaitersAreLive
  <1>10. AwaitedIsRunning'
    <2>1. wait_info'[c] = None
      BY <1>1 DEF TreeInd, WaitersAreLive, TreeTypeOK
    <2> QED BY <1>1, <1>3, <1>4, <2>1 DEF TreeInd, AwaitedIsRunning, TreeTypeOK
  <1> QED BY <1>2, <1>5, <1>6, <1>8, <1>9, <1>10 DEF TreeInd

(* The steps that leave the tree alone.                                    *)
LEMMA QuietInd ==
    ASSUME TreeInd, NEW t \in Tids, TaskStartReturn(t) \/ task_detach(t)
    PROVE  TreeInd'
  <1>1. /\ tracked' = tracked /\ live' = live /\ parent' = parent
        /\ status' = status /\ wait_info' = wait_info /\ joined' = joined
        /\ kassert' = kassert
    BY DEF TaskStartReturn, task_detach
  <1>2. TreeTypeOK' /\ WaitersAreLive'
    <2>1. CASE TaskStartReturn(t)
      BY <1>1, <2>1, TreeAssumption
         DEF TreeInd, TreeTypeOK, WaitersAreLive, TaskStartReturn
    <2>2. CASE task_detach(t)
      <3>1. t \in live /\ detached' = detached \cup {t} /\ UNCHANGED <<newTask, child_tid>>
        BY <2>2 DEF task_detach, Running
      <3>2. \A u \in Tids : wait_info[u] # t
        BY <2>2, <3>1, TreeAssumption
           DEF task_detach, TreeInd, TreeTypeOK, WaitersAreLive,
               AwaitedIsRunning
      <3> QED BY <1>1, <3>1, <3>2 DEF TreeInd, TreeTypeOK, WaitersAreLive
    <2> QED BY <2>1, <2>2
  <1>3. /\ FinishedHaveStatus' /\ NoCycle' /\ ParentsAreTracked'
        /\ FinishedHaveParent' /\ AwaitedIsRunning' /\ CrashesAreNoticed'
    BY <1>1 DEF TreeInd, FinishedHaveStatus, NoCycle, ParentsAreTracked,
                FinishedHaveParent, AwaitedIsRunning, CrashesAreNoticed,
                Finished
  <1> QED BY <1>2, <1>3 DEF TreeInd

(* A removal of one tracker, t, that leaves no other task waiting for t.   *)
LEMMA RemoveInd ==
    ASSUME TreeInd, ~kassert, NEW t \in tracked, removeTracker(t),
           live' = live \ {t}, UNCHANGED <<detached, newTask, child_tid>>,
           status' \in [Tids -> {"none", "clean", "crashed"}],
           status'[t] # "none",
           \A c \in Tids \ {t} : status'[c] = status[c],
           joined' \subseteq Tids, joined \subseteq joined',
           status'[t] = "crashed" => t \in joined',
           wait_info' \in [Tids -> Tids \cup {Any, None}],
           \A u \in Tids : wait_info'[u] \in {wait_info[u], None},
           wait_info[t] = None,
           \A u \in live : wait_info'[u] # t
    PROVE  TreeInd'
  <1> USE TreeAssumption
  <1>1. t \in Tids /\ TreeTypeOK
    BY DEF TreeInd, TreeTypeOK
  <1>2. /\ t \in Removed(t) /\ Removed(t) \subseteq Tids
        /\ Removed(t) \subseteq Finished \cup {t}
    BY <1>1, RemovedProperties
  <1>3. tracked' = tracked \ Removed(t)
    BY DEF removeTracker
  <1>4. TreeTypeOK'
    <2>1. tracked' \subseteq Tids /\ live' \subseteq tracked'
      BY <1>1, <1>2, <1>3 DEF TreeTypeOK, Finished
    <2>2. parent' \in [Tids -> Tids \cup {Kernel}]
      BY <1>1 DEF TreeTypeOK, removeTracker, Reparented
    <2>3. kassert' \in BOOLEAN
      BY DEF removeTracker, CrashBelow
    <2> QED BY <1>1, <2>1, <2>2, <2>3 DEF TreeTypeOK
  <1>5. NoCycle' /\ ParentsAreTracked'
    BY RemoveKeepsTree DEF TreeInd
  <1>6. Finished' \subseteq Finished \ Removed(t)
    BY <1>2, <1>3 DEF Finished
  <1>7. FinishedHaveStatus'
    BY <1>1, <1>2, <1>6
       DEF TreeInd, FinishedHaveStatus, Finished, TreeTypeOK
  <1>8. FinishedHaveParent'
    <2>1. \A c \in Finished \ Removed(t) : parent'[c] # Kernel
      BY RemoveKeepsParents DEF TreeInd
    <2> QED BY <1>6, <2>1 DEF FinishedHaveParent
  <1>9. WaitersAreLive'
    BY <1>1 DEF TreeInd, WaitersAreLive, TreeTypeOK
  <1>10. AwaitedIsRunning'
    <2> SUFFICES ASSUME NEW u \in live', wait_info'[u] \in Tids
                 PROVE  wait_info'[u] \in live' /\ parent'[wait_info'[u]] = u
      BY DEF AwaitedIsRunning
    <2> DEFINE w == wait_info[u]
    <2>1. u \in live \ {t} /\ u \in Tids /\ wait_info'[u] = w
      BY <1>1 DEF TreeTypeOK
    <2>2. w \in live \ {t} /\ parent[w] = u
      BY <2>1 DEF TreeInd, AwaitedIsRunning
    <2> HIDE DEF w
    <2>3. parent'[w] = parent[w]
      BY <2>1, <2>2, <1>1, RemoveKeepsLive
    <2> QED BY <2>1, <2>2, <2>3
  <1>11. CrashesAreNoticed'
    <2> SUFFICES ASSUME NEW c \in Tids, status'[c] = "crashed", ~kassert',
                        c \notin joined'
                 PROVE  c \in Finished'
      BY DEF CrashesAreNoticed
    <2>1. c # t /\ status[c] = "crashed" /\ c \notin joined
      OBVIOUS
    <2>2. c \in Finished
      BY <2>1 DEF TreeInd, CrashesAreNoticed
    <2>3. c \notin Removed(t)
      BY <2>1 DEF removeTracker, CrashBelow
    <2> QED BY <2>2, <2>3, <1>3 DEF Finished
  <1> QED BY <1>4, <1>5, <1>7, <1>8, <1>9, <1>10, <1>11 DEF TreeInd

(* The end of a task, whichever of the three ways it is noticed.           *)
LEMMA EndInd ==
    ASSUME TreeInd, NEW t \in Tids, NEW s \in {"clean", "crashed"},
           TaskEnd(t, s)
    PROVE  TreeInd'
  <1> USE TreeAssumption
  <1>1. /\ t \in live /\ t \in tracked /\ wait_info[t] = None /\ ~kassert
        /\ live' = live \ {t} /\ UNCHANGED <<detached, newTask, child_tid>>
        /\ status' = [status EXCEPT ![t] = s]
        /\ TreeTypeOK
    BY DEF TaskEnd, Running, TreeInd, TreeTypeOK
  <1>2. /\ status' \in [Tids -> {"none", "clean", "crashed"}]
        /\ status'[t] = s /\ s # "none"
        /\ \A c \in Tids \ {t} : status'[c] = status[c]
    BY <1>1 DEF TreeTypeOK
  <1>3. \A u \in live : wait_info[u] = t =>
            parent[t] = u /\ parent[t] # Kernel /\ t \notin detached
    BY <1>1 DEF TreeInd, TreeTypeOK, AwaitedIsRunning, WaitersAreLive
  <1>4. CASE EndUnawaited(t, s) /\ s # "crashed"
    <2>1. removeTracker(t) /\ wait_info' = wait_info /\ joined' = joined
      BY <1>4 DEF EndUnawaited
    <2>2. \A u \in live : wait_info[u] # t
      BY <1>3, <1>4 DEF EndUnawaited
    <2> QED BY <1>1, <1>2, <1>4, <2>1, <2>2, RemoveInd DEF TreeTypeOK
  <1>5. CASE EndJoined(t, s)
    <2>1. /\ removeTracker(t)
          /\ wait_info' = [wait_info EXCEPT ![parent[t]] = None]
          /\ joined' = joined \cup {t}
      BY <1>5 DEF EndJoined
    <2>2. /\ wait_info' \in [Tids -> Tids \cup {Any, None}]
          /\ \A u \in Tids : wait_info'[u] \in {wait_info[u], None}
      BY <2>1, <1>1 DEF TreeTypeOK
    <2>3. \A u \in live : wait_info'[u] # t
      BY <2>1, <1>1, <1>3 DEF TreeTypeOK
    <2>4. joined' \subseteq Tids /\ joined \subseteq joined' /\ t \in joined'
      BY <2>1, <1>1 DEF TreeTypeOK
    <2> QED BY <1>1, <1>2, <2>1, <2>2, <2>3, <2>4, RemoveInd
  <1>6. CASE \/ EndUnawaited(t, s) /\ s = "crashed"
             \/ EndKept(t, s)
    <2>1. /\ tracked' = tracked /\ parent' = parent /\ wait_info' = wait_info
          /\ joined' = joined
          /\ kassert' \/ (~kassert' /\ EndKept(t, s))
      BY <1>1, <1>6 DEF EndUnawaited, EndKept
    <2>2. \A u \in live : wait_info[u] # t
      BY <1>3, <1>6 DEF EndUnawaited, EndKept, Awaited
    <2>3. Finished' = Finished \cup {t}
      BY <1>1, <2>1 DEF Finished
    <2>4. TreeTypeOK'
      BY <1>1, <1>2, <1>6, <2>1 DEF TreeTypeOK, EndUnawaited, EndKept
    <2>5. NoCycle' /\ ParentsAreTracked'
      BY <2>1 DEF TreeInd, NoCycle, ParentsAreTracked
    <2>6. FinishedHaveStatus'
      BY <1>1, <1>2, <2>3 DEF TreeInd, TreeTypeOK, FinishedHaveStatus, Finished
    <2>7. FinishedHaveParent'
      BY <1>1, <2>1, <2>3 DEF TreeInd, FinishedHaveParent, EndKept
    <2>8. WaitersAreLive' /\ AwaitedIsRunning'
      BY <1>1, <2>1, <2>2
         DEF TreeInd, TreeTypeOK, WaitersAreLive, AwaitedIsRunning
    <2>9. CrashesAreNoticed'
      BY <1>1, <1>2, <2>1, <2>3 DEF TreeInd, CrashesAreNoticed
    <2> QED BY <2>4, <2>5, <2>6, <2>7, <2>8, <2>9 DEF TreeInd
  <1> QED BY <1>4, <1>5, <1>6 DEF TaskEnd

(* A wait collects a finished child or blocks on a living one.             *)
LEMMA WaitInd ==
    ASSUME TreeInd, NEW t \in Tids, NEW tid \in Tids \cup {Any},
           TaskWait(t, tid)
    PROVE  TreeInd'
  <1> USE TreeAssumption
  <1>1. /\ t \in live /\ wait_info[t] = None /\ ~kassert
        /\ live' = live /\ status' = status
        /\ UNCHANGED <<detached, newTask, child_tid>>
        /\ tid \notin detached /\ Candidates(t, tid) # {}
        /\ TreeTypeOK
    BY DEF TaskWait, Running, TreeInd
  <1>2. ASSUME NEW c \in Candidates(t, tid) \cap Finished,
               joined' = joined \cup {c}, removeTracker(c),
               wait_info' = wait_info
        PROVE  TreeInd'
    <2>1. c \in tracked /\ c \in Tids /\ c \notin live
      BY <1>1 DEF Finished, TreeTypeOK
    <2>2. status[c] # "none"
      BY DEF TreeInd, FinishedHaveStatus
    <2>3. wait_info[c] = None
      BY <2>1 DEF TreeInd, WaitersAreLive
    <2>4. \A u \in live : wait_info[u] # c
      BY <2>1 DEF TreeInd, AwaitedIsRunning
    <2>5. live' = live \ {c}
      BY <1>1, <2>1
    <2> QED BY <1>1, <1>2, <2>1, <2>2, <2>3, <2>4, <2>5, RemoveInd DEF TreeTypeOK
  <1>3. CASE /\ Candidates(t, tid) \cap Finished = {}
             /\ wait_info' = [wait_info EXCEPT ![t] = tid]
             /\ UNCHANGED <<tracked, parent, joined, kassert>>
    <2>1. TreeTypeOK'
      BY <1>1, <1>3 DEF TreeTypeOK
    <2>2. WaitersAreLive'
      BY <1>1, <1>3 DEF TreeInd, TreeTypeOK, WaitersAreLive
    <2>3. tid \in Tids => tid \in live /\ parent[tid] = t
      BY <1>1, <1>3 DEF Candidates, Children, Finished
    <2>4. AwaitedIsRunning'
      BY <1>1, <1>3, <2>3 DEF TreeInd, TreeTypeOK, AwaitedIsRunning
    <2>5. /\ FinishedHaveStatus' /\ NoCycle' /\ ParentsAreTracked'
          /\ FinishedHaveParent' /\ CrashesAreNoticed'
      BY <1>1, <1>3 DEF TreeInd, FinishedHaveStatus, NoCycle,
         ParentsAreTracked, FinishedHaveParent, CrashesAreNoticed, Finished
    <2> QED BY <2>1, <2>2, <2>4, <2>5 DEF TreeInd
  <1> QED BY <1>2, <1>3 DEF TaskWait

(* Every system call on the tree preserves the invariant.                  *)
LEMMA TreeNextInd == TreeInd /\ [Next]_vars => TreeInd'
  <1> SUFFICES ASSUME TreeInd, [Next]_vars PROVE TreeInd'
    OBVIOUS
  <1>1. CASE UNCHANGED vars
    BY <1>1 DEF vars, TreeInd, TreeTypeOK, FinishedHaveStatus, NoCycle,
                ParentsAreTracked, FinishedHaveParent, WaitersAreLive,
                AwaitedIsRunning, CrashesAreNoticed, Finished
  <1>2. CASE Next
    BY <1>2, StartInd, QuietInd, EndInd, WaitInd DEF Next
  <1> QED BY <1>1, <1>2

(* The task tree's invariant holds in every state.                         *)
LEMMA TreeInvariance == Spec => []TreeInd
  BY TreeInitInd, TreeNextInd, PTL DEF Spec

-----------------------------------------------------------------------------
(* Going up from a finished task one meets a living one: a set of finished *)
(* trackers with all their parents would be a cycle, or end at the kernel. *)
LEMMA TreeCollectable == TreeInd => FinishedAreCollectable
  <1> SUFFICES ASSUME TreeInd, ~kassert, NEW c \in Finished,
                      Ancestors(c) \cap live = {}
               PROVE  FALSE
    BY DEF FinishedAreCollectable
  <1> USE TreeAssumption
  <1> DEFINE A == Ancestors(c)
  <1>1. TreeTypeOK /\ c \in tracked /\ c \in Tids /\ tracked \subseteq Tids
    BY DEF TreeInd, TreeTypeOK, Finished
  <1>2. A \subseteq tracked
    <2> DEFINE S == tracked \cup {Kernel}
    <2>1. S \in SUBSET (Tids \cup {Kernel})
      BY <1>1
    <2>2. parent[c] \in S /\ \A b \in S \cap Tids : parent[b] \in S
      BY <1>1 DEF TreeInd, ParentsAreTracked
    <2> HIDE DEF S
    <2>3. A \subseteq S /\ A \subseteq Tids
      BY <2>1, <2>2 DEF Ancestors
    <2> QED BY <2>3 DEF S
  <1>3. parent[c] \in A \cup {Kernel}
    BY <1>1 DEF Ancestors, TreeTypeOK
  <1>4. \A b \in A : parent[b] \in A \cup {Kernel}
    <2> SUFFICES ASSUME NEW b \in A, parent[b] # Kernel
                 PROVE  parent[b] \in A
      OBVIOUS
    <2>1. b \in Tids /\ parent[b] \in Tids
      BY <1>1, <1>2 DEF TreeTypeOK
    <2>2. ASSUME NEW S \in SUBSET (Tids \cup {Kernel}), parent[c] \in S,
                 \A d \in S \cap Tids : parent[d] \in S
          PROVE  parent[b] \in S
      <3>1. b \in S
        BY <2>2 DEF Ancestors
      <3> QED BY <3>1, <2>1, <2>2
    <2> QED BY <2>1, <2>2 DEF Ancestors
  <1> HIDE DEF A
  <1> DEFINE T == A \cup {c}
  <1>5. T \in SUBSET tracked /\ T # {} /\ T \subseteq Finished
    BY <1>1, <1>2 DEF Finished, A
  <1>6. PICK d \in T : parent[d] \notin T
    BY <1>5 DEF TreeInd, NoCycle
  <1>7. parent[d] = Kernel
    BY <1>3, <1>4, <1>6
  <1> QED BY <1>5, <1>6, <1>7 DEF TreeInd, FinishedHaveParent

(* removeTracker leaves no pointer to a deleted tracker.                   *)
THEOREM ParentsAreTrackedHolds == Spec => []ParentsAreTracked
  <1>1. TreeInd => ParentsAreTracked BY DEF TreeInd
  <1> QED BY <1>1, TreeInvariance, PTL

(* The tracker of a finished task always has a living task above it that   *)
(* can come to wait for it: no tracker is leaked.                          *)
THEOREM FinishedAreCollectableHolds == Spec => []FinishedAreCollectable
  BY TreeCollectable, TreeInvariance, PTL

(* A crash is seen by a parent, is still there to be seen, or stops the    *)
(* system.                                                                 *)
THEOREM CrashesAreNoticedHolds == Spec => []CrashesAreNoticed
  <1>1. TreeInd => CrashesAreNoticed BY DEF TreeInd
  <1> QED BY <1>1, TreeInvariance, PTL

(* A task blocked on a child waits for a child that is still there to end. *)
THEOREM AwaitedIsRunningHolds == Spec => []AwaitedIsRunning
  <1>1. TreeInd => AwaitedIsRunning BY DEF TreeInd
  <1> QED BY <1>1, TreeInvariance, PTL
=============================================================================
