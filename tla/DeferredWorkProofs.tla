------------------------ MODULE DeferredWorkProofs ------------------------
(***************************************************************************)
(* Deferred work for any finite set of CPUs and any memory for work items: *)
(* "last thread out deletes", so no CPU ever has a pointer to a deleted    *)
(* item; and while the master works alone the CPUs that were active when   *)
(* the item was created stand still in it.                                 *)
(***************************************************************************)
EXTENDS DeferredWork, FiniteSetTheorems, TLAPS

Labels == InItem \cup {"off", "user", "insert", "execute"}

ItemType ==
    [state : {"free", "new", "queued", "done"}, activeSeq : Nat, count : Nat,
     missing : Int, event : Nat, cpus : Nat, next : Items \cup {NULL},
     pre : BOOLEAN, post : BOOLEAN, winkle : BOOLEAN, members : SUBSET Cpus]

(* The values of the variables, without a bound on the sequence numbers.   *)
DeferredTypes ==
    /\ item \in [Items -> ItemType]
    /\ head \in [cpus : Nat, next : Items \cup {NULL}]
    /\ seq \in Nat
    /\ pc \in [Cpus -> Labels]
    /\ work \in [Cpus -> Items \cup {NULL}]
    /\ local \in [Cpus -> Nat]

(* The CPUs with a pointer to item i, and those counted in the item.       *)
Inside(i)  == {c \in Cpus : pc[c] \in InItem /\ work[c] = i}
Entered(i) == {c \in Inside(i) : pc[c] # "start"}

Queued == {i \in Items : item[i].state = "queued"}

(* A CPU works on the item at the head of the queue, or on one that the    *)
(* master has taken off it; only the master takes items off.               *)
WorkIsHeadOrDone ==
    /\ \A c \in Cpus : pc[c] \in InItem =>
          /\ work[c] \in Items
          /\ \/ item[work[c]].state = "queued" /\ work[c] = head.next
             \/ item[work[c]].state = "done"
    /\ \A c \in Cpus :
          pc[c] \in {"master_pre", "master_post", "complete"} => c = Master
    /\ pc[Master] \in InItem \ {"complete", "cleanup"} =>
          item[work[Master]].state = "queued"

(* The queue is a chain from its head.                                     *)
QueueIsChain ==
    /\ head.next # NULL => head.next \in Queued
    /\ \A i \in Queued : item[i].next = NULL
                           \/ item[i].next \in Queued \ {head.next}
    /\ \A i, j \in Queued :
          item[i].next = item[j].next => i = j \/ item[i].next = NULL
    /\ \A S \in SUBSET Queued : S # {} => \E i \in S : item[i].next \notin S

(* The two counts: the queue's, of the CPUs that have taken a pointer to   *)
(* the first item, and the item's, of those that have got into it.         *)
CountsAreRight ==
    \A i \in Items :
        /\ head.next = i => head.cpus = Cardinality(Inside(i))
        /\ item[i].state \in {"queued", "done"} =>
              item[i].cpus = Cardinality(Entered(i))

(* A CPU that creates an item has it for itself.                           *)
NewIsPrivate ==
    /\ \A i \in Items : item[i].state = "new" =>
          item[i].next = NULL /\ item[i].cpus = 0
    /\ \A c \in Cpus : pc[c] = "insert" =>
          work[c] \in Items /\ item[work[c]].state = "new"
    /\ \A c, d \in Cpus : pc[c] = "insert" /\ pc[d] = "insert"
                            /\ work[c] = work[d] => c = d

(* Nobody leaves an item before all CPUs that have a pointer to it are in. *)
NobodyLeavesBefore ==
    /\ \A i \in Items :
          item[i].post => item[i].state = "done" /\ Entered(i) = Inside(i)
    /\ \A c \in Cpus, i \in Items : pc[c] = "complete" /\ work[c] = i =>
          /\ item[i].state = "done" /\ ~item[i].post
          /\ local[c] = Cardinality(Inside(i))
    /\ \A c \in Cpus : pc[c] = "cleanup" => item[work[c]].post

DeferredInd ==
    /\ DeferredTypes /\ WorkIsHeadOrDone /\ QueueIsChain /\ CountsAreRight
    /\ NewIsPrivate /\ NobodyLeavesBefore

-----------------------------------------------------------------------------
(* The fields of an item the invariant looks at.                           *)
SameItem(i) == /\ item'[i].state = item[i].state /\ item'[i].cpus = item[i].cpus
               /\ item'[i].next = item[i].next   /\ item'[i].post = item[i].post

(* The CPUs at an item are finitely many, and the item's count is of some  *)
(* of them.                                                                *)
LEMMA InsideIsFinite ==
    ASSUME NEW i
    PROVE  /\ IsFiniteSet(Inside(i)) /\ IsFiniteSet(Entered(i))
           /\ Cardinality(Inside(i)) \in Nat /\ Cardinality(Entered(i)) \in Nat
           /\ Entered(i) \subseteq Inside(i)
           /\ Cardinality(Entered(i)) = Cardinality(Inside(i))
                 => Entered(i) = Inside(i)
  <1>1. IsFiniteSet(Cpus)
    BY DeferredAssumption
  <1>2. Inside(i) \in SUBSET Cpus /\ Entered(i) \in SUBSET Inside(i)
    BY DEF Inside, Entered
  <1>3. IsFiniteSet(Inside(i))
    BY <1>1, <1>2, FS_Subset
  <1>4. IsFiniteSet(Entered(i))
    BY <1>2, <1>3, FS_Subset
  <1>5. Cardinality(Entered(i)) = Cardinality(Inside(i))
          => Entered(i) = Inside(i)
    BY <1>2, <1>3, FS_Subset
  <1> QED BY <1>2, <1>3, <1>4, <1>5, FS_CardinalityType

(* The queue at the beginning.                                             *)
LEMMA DeferredInitInd == Init => DeferredInd
  <1> SUFFICES ASSUME Init PROVE DeferredInd
    OBVIOUS
  <1> USE DeferredAssumption DEF Init, Free, Item
  <1>1. DeferredTypes
    BY DEF DeferredTypes, ItemType, Labels, InItem
  <1>2. /\ \A i \in Items : item[i].state = "free"
        /\ \A c \in Cpus : pc[c] \in {"user", "off"}
        /\ head.next = NULL
    OBVIOUS
  <1>3. Master \in Cpus
    BY DeferredAssumption
  <1>4. \A i \in Items : item[i].post = FALSE
    OBVIOUS
  <1> QED BY <1>1, <1>2, <1>3, <1>4
          DEF DeferredInd, WorkIsHeadOrDone, QueueIsChain, CountsAreRight,
              NewIsPrivate, NobodyLeavesBefore, Queued, InItem

(* A step between two places inside an item, or between two outside, that  *)
(* changes nothing the invariant looks at.                                 *)
Middle  == InItem \ {"start", "complete", "cleanup"}
Outside == {"off", "user", "execute"}

QuietStep(c, l) ==
    /\ item' \in [Items -> ItemType] /\ \A i \in Items : SameItem(i)
    /\ head' = head /\ work' = work /\ seq' \in Nat
    /\ local' \in [Cpus -> Nat] /\ \A d \in Cpus \ {c} : local'[d] = local[d]
    /\ pc' = [pc EXCEPT ![c] = l]
    /\ \/ pc[c] \in Middle /\ l \in Middle
       \/ pc[c] \in Outside /\ l \in Outside
    /\ l \in {"master_pre", "master_post"} => c = Master

(* A step that moves one CPU within the item, or within the code outside   *)
(* it, and leaves the queue and the reference counts alone.                *)
LEMMA QuietStepInd ==
    ASSUME DeferredInd, NEW c \in Cpus, NEW l, QuietStep(c, l)
    PROVE  DeferredInd'
  <1> USE DEF QuietStep
  <1>0. DeferredTypes'
    BY DEF DeferredInd, DeferredTypes, Labels, Middle, Outside
  <1>1. /\ pc \in [Cpus -> Labels] /\ Master \in Cpus
        /\ \A d \in Cpus : d # c => pc'[d] = pc[d]
        /\ pc'[c] = l
    BY DeferredAssumption DEF DeferredInd, DeferredTypes
  <1>2. /\ \A d \in Cpus : pc'[d] \in InItem <=> pc[d] \in InItem
        /\ \A d \in Cpus : \A k \in {"start", "complete", "cleanup", "insert"} :
              pc'[d] = k <=> pc[d] = k
    BY <1>1 DEF Middle, Outside, InItem
  <1>3. \A i \in Items : Inside(i)' = Inside(i) /\ Entered(i)' = Entered(i)
    BY <1>2 DEF Inside, Entered
  <1>4. Queued' = Queued
    BY DEF Queued, SameItem
  <1>5. WorkIsHeadOrDone'
    BY <1>1, <1>2
       DEF DeferredInd, WorkIsHeadOrDone, SameItem, Middle, Outside, InItem
  <1>6. QueueIsChain'
    <2>1. \A i \in Queued : item'[i].next = item[i].next
      BY DEF Queued, SameItem
    <2> QED BY <1>4, <2>1 DEF DeferredInd, QueueIsChain
  <1>7. CountsAreRight'
    BY <1>3 DEF DeferredInd, DeferredTypes, CountsAreRight, SameItem
  <1>8. NewIsPrivate'
    BY <1>2 DEF DeferredInd, NewIsPrivate, SameItem
  <1>9. NobodyLeavesBefore'
    <2>1. \A d \in Cpus : pc[d] = "cleanup" => work[d] \in Items
      BY DEF DeferredInd, WorkIsHeadOrDone, InItem
    <2>2. \A d \in Cpus : pc'[d] = "complete" => local'[d] = local[d]
      BY <1>1, <1>2 DEF Middle, Outside
    <2> QED BY <1>2, <1>3, <2>1, <2>2
            DEF DeferredInd, NobodyLeavesBefore, SameItem
  <1> QED BY <1>0, <1>5, <1>6, <1>7, <1>8, <1>9 DEF DeferredInd

(* CPUs coming online, entering the kernel, meeting at the two barriers,   *)
(* working and winkling.                                                   *)
LEMMA QuietStepsInd ==
    ASSUME DeferredInd, NEW c \in Cpus,
           \/ activateCPU(c) \/ EnterKernel(c) \/ WaitForCpus(c)
           \/ MasterPre(c) \/ WaitAtPre(c) \/ MainWork(c) \/ Winkle(c)
           \/ WakeUp(c)
    PROVE  DeferredInd'
  <1>1. /\ item \in [Items -> ItemType] /\ seq \in Nat
        /\ local \in [Cpus -> Nat] /\ pc \in [Cpus -> Labels]
        /\ pc[c] \in InItem => work[c] \in Items
        /\ pc[c] = "master_pre" => c = Master
    BY DEF DeferredInd, DeferredTypes, WorkIsHeadOrDone
  <1>2. item' = item => \A i \in Items : SameItem(i)
    BY DEF SameItem
  <1> USE DEF QuietStep, Goto, Middle, Outside, InItem
  <1>3. CASE activateCPU(c)
    <2>1. QuietStep(c, "execute")
      BY <1>1, <1>2, <1>3 DEF activateCPU
    <2> QED BY <2>1, QuietStepInd
  <1>4. CASE EnterKernel(c)
    <2>1. QuietStep(c, "execute")
      BY <1>1, <1>2, <1>4 DEF EnterKernel
    <2> QED BY <2>1, QuietStepInd
  <1>5. CASE WaitAtPre(c)
    <2>1. QuietStep(c, "main")
      BY <1>1, <1>2, <1>5 DEF WaitAtPre
    <2> QED BY <2>1, QuietStepInd
  <1>6. CASE MainWork(c)
    <2>1. QuietStep(c, IF active[c] THEN "arrive_post" ELSE AtPost(c))
      BY <1>1, <1>2, <1>6 DEF MainWork, AtPost
    <2> QED BY <2>1, QuietStepInd
  <1>7. CASE Winkle(c)
    <2>1. QuietStep(c, IF active[c] THEN "winkled" ELSE "assert")
      BY <1>1, <1>2, <1>7 DEF Winkle
    <2> QED BY <2>1, QuietStepInd
  <1>8. CASE WakeUp(c)
    <2>1. QuietStep(c, "arrive_post")
      BY <1>1, <1>2, <1>8 DEF WakeUp
    <2> QED BY <2>1, QuietStepInd
  <1>9. CASE MasterPre(c)
    <2> DEFINE r == item[work[c]]
    <2>0. work[c] \in Items /\ r \in ItemType
      BY <1>1, <1>9 DEF MasterPre
    <2> HIDE DEF r
    <2>1. [r EXCEPT !.pre = TRUE] \in ItemType
      BY <2>0 DEF ItemType
    <2>2. item' = [item EXCEPT ![work[c]] = [r EXCEPT !.pre = TRUE]]
      BY <1>1, <1>9, <2>0 DEF MasterPre, r
    <2>3. item' \in [Items -> ItemType]
      BY <1>1, <2>0, <2>1, <2>2
    <2>4. \A i \in Items : SameItem(i)
      BY <1>1, <2>0, <2>2 DEF SameItem, ItemType, r
    <2>5. QuietStep(c, "main")
      BY <1>1, <1>9, <2>3, <2>4 DEF MasterPre
    <2> QED BY <2>5, QuietStepInd
  <1>10. ASSUME NEW w \in Middle, NEW l \in Middle, Spin(c, w, l),
                l \in {"master_pre", "master_post"} => c = Master
         PROVE  DeferredInd'
    <2>1. QuietStep(c, l)
      BY <1>1, <1>2, <1>10 DEF Spin
    <2> QED BY <2>1, QuietStepInd
  <1>11. ASSUME NEW a \in Middle, NEW w \in Middle, NEW l \in Middle,
                Arrive(c, a, w, l), w \notin {"master_pre", "master_post"},
                l \in {"master_pre", "master_post"} => c = Master
         PROVE  DeferredInd'
    <2>1. work[c] \in Items /\ pc[c] \in Middle
      BY <1>1, <1>11 DEF Arrive
    <2>2. item' \in [Items -> ItemType] /\ \A i \in Items : SameItem(i)
      BY <1>1, <1>11, <2>1 DEF Arrive, ItemType, SameItem
    <2>3. /\ local' \in [Cpus -> Nat]
          /\ \A d \in Cpus \ {c} : local'[d] = local[d]
      BY <1>1, <1>11, <2>1 DEF Arrive, ItemType
    <2>4. QuietStep(c, w) \/ QuietStep(c, l)
      BY <1>1, <1>11, <2>1, <2>2, <2>3 DEF Arrive
    <2> QED BY <2>4, QuietStepInd
  <1>12. CASE WaitForCpus(c)
    BY <1>10, <1>11, <1>12 DEF WaitForCpus, AtPre, AtPost
  <1> QED BY <1>3, <1>4, <1>5, <1>6, <1>7, <1>8, <1>9, <1>12

-----------------------------------------------------------------------------
(* The creation of an item and its insertion in the queue leave the CPUs   *)
(* that are inside items alone.                                            *)
LEMMA OutsideStepSets ==
    ASSUME DeferredInd, NEW c \in Cpus, NEW l, pc' = [pc EXCEPT ![c] = l],
           pc[c] \notin InItem, l \notin InItem,
           \A d \in Cpus \ {c} : work'[d] = work[d]
    PROVE  /\ pc'[c] = l /\ \A d \in Cpus \ {c} : pc'[d] = pc[d]
           /\ \A i \in Items : Inside(i)' = Inside(i) /\ Entered(i)' = Entered(i)
  <1>1. pc'[c] = l /\ \A d \in Cpus \ {c} : pc'[d] = pc[d]
    BY DEF DeferredInd, DeferredTypes
  <1> QED BY <1>1 DEF Inside, Entered

(* A new item is nobody else's: what was freed has nobody inside.          *)
LEMMA CreateInd ==
    ASSUME DeferredInd, NEW c \in Cpus, NEW i \in Items, Create(c, i)
    PROVE  DeferredInd'
  <1> USE DeferredAssumption
  <1>1. DeferredTypes /\ pc[c] = "user" /\ item[i].state = "free"
    BY DEF DeferredInd, Create
  <1>2. PICK b \in BOOLEAN :
          item' = [item EXCEPT ![i] =
                      Item("new", seq, Cardinality(Active), b, Active)]
    BY DEF Create
  <1>3. /\ work' = [work EXCEPT ![c] = i] /\ pc' = [pc EXCEPT ![c] = "insert"]
        /\ head' = head /\ seq' = seq /\ local' = local
    BY DEF Create, Goto
  <1>4. Cardinality(Active) \in Nat /\ Active \in SUBSET Cpus
    <2>1. Active \in SUBSET Cpus
      BY DEF Active
    <2> QED BY <2>1, FS_Subset, FS_CardinalityType
  <1> DEFINE r == Item("new", seq, Cardinality(Active), b, Active)
  <1>5. /\ r \in ItemType
        /\ r.state = "new" /\ r.next = NULL /\ r.cpus = 0 /\ r.post = FALSE
    BY <1>1, <1>4 DEF Item, ItemType, DeferredTypes
  <1> HIDE DEF r
  <1>6. /\ item' \in [Items -> ItemType] /\ item'[i] = r
        /\ \A j \in Items \ {i} : SameItem(j)
    BY <1>1, <1>2, <1>5 DEF r, DeferredTypes, SameItem
  <1>7. DeferredTypes'
    BY <1>1, <1>3, <1>6 DEF DeferredTypes, Labels
  <1>8. /\ pc'[c] = "insert" /\ \A d \in Cpus \ {c} : pc'[d] = pc[d]
        /\ \A j \in Items : Inside(j)' = Inside(j) /\ Entered(j)' = Entered(j)
    BY <1>1, <1>3, OutsideStepSets DEF InItem, DeferredTypes
  <1>9. work'[c] = i /\ \A d \in Cpus \ {c} : work'[d] = work[d]
    BY <1>1, <1>3 DEF DeferredTypes
  <1>10. Queued' = Queued /\ i \notin Queued /\ head.next # i
    <2>1. head.next # i
      BY <1>1 DEF DeferredInd, QueueIsChain, Queued
    <2> QED BY <1>1, <1>5, <1>6, <2>1 DEF Queued, SameItem
  <1>11. WorkIsHeadOrDone'
    BY <1>1, <1>3, <1>6, <1>8, <1>9
       DEF DeferredInd, WorkIsHeadOrDone, SameItem, InItem
  <1>12. QueueIsChain'
    <2>1. \A j \in Queued : item'[j].next = item[j].next
      BY <1>6, <1>10 DEF Queued, SameItem
    <2> QED BY <1>3, <1>10, <2>1 DEF DeferredInd, QueueIsChain
  <1>13. CountsAreRight'
    BY <1>3, <1>5, <1>6, <1>8, <1>10 DEF DeferredInd, CountsAreRight, SameItem
  <1>14. NewIsPrivate'
    BY <1>1, <1>5, <1>6, <1>8, <1>9 DEF DeferredInd, NewIsPrivate, SameItem
  <1>15. NobodyLeavesBefore'
    BY <1>1, <1>3, <1>5, <1>6, <1>8, <1>9
       DEF DeferredInd, NobodyLeavesBefore, SameItem, WorkIsHeadOrDone, InItem
  <1> QED BY <1>7, <1>11, <1>12, <1>13, <1>14, <1>15 DEF DeferredInd

(* A queue that is not empty has a last item.                              *)
LEMMA TailItemExists ==
    ASSUME DeferredInd, head.next # NULL
    PROVE  TailItem \in Queued /\ item[TailItem].next = NULL
  <1>1. Queued # {} /\ Queued \in SUBSET Queued
    BY DEF DeferredInd, QueueIsChain
  <1>2. PICK i \in Queued : item[i].next \notin Queued
    BY <1>1 DEF DeferredInd, QueueIsChain
  <1>3. i \in Items /\ item[i].state = "queued" /\ item[i].next = NULL
    BY <1>2 DEF DeferredInd, QueueIsChain, Queued
  <1> QED BY <1>3 DEF TailItem, Queued

(* An item goes to the end of the queue, or is given up.                   *)
LEMMA InsertInd ==
    ASSUME DeferredInd, NEW c \in Cpus, Insert(c)
    PROVE  DeferredInd'
  <1> USE DeferredAssumption
  <1> DEFINE i == work[c]
  <1>1. /\ DeferredTypes /\ pc[c] = "insert" /\ i \in Items
        /\ item[i].state = "new" /\ item[i].next = NULL /\ item[i].cpus = 0
    BY DEF DeferredInd, NewIsPrivate, Insert
  <1>2. ~item[i].post
    BY <1>1 DEF DeferredInd, NobodyLeavesBefore
  <1>3. /\ work' = [work EXCEPT ![c] = NULL] /\ pc' = [pc EXCEPT ![c] = "execute"]
        /\ seq' = seq /\ local' = local
    BY DEF Insert, Goto
  <1>4. /\ pc'[c] = "execute" /\ \A d \in Cpus \ {c} : pc'[d] = pc[d]
        /\ work'[c] = NULL /\ \A d \in Cpus \ {c} : work'[d] = work[d]
        /\ \A j \in Items : Inside(j)' = Inside(j) /\ Entered(j)' = Entered(j)
    BY <1>1, <1>3, OutsideStepSets DEF InItem, DeferredTypes
  <1>5. Inside(i) = {} /\ Entered(i) = {} /\ Cardinality({}) = 0
    BY <1>1, FS_EmptySet DEF DeferredInd, WorkIsHeadOrDone, Inside, Entered
  <1>6. \A d \in Cpus \ {c} : /\ pc[d] = "insert" => work[d] # i
                              /\ pc[d] \in InItem => work[d] # i
    BY <1>1 DEF DeferredInd, NewIsPrivate, WorkIsHeadOrDone
  <1>7. i \notin Queued /\ head.next # i
    BY <1>1 DEF DeferredInd, QueueIsChain, Queued
  <1> HIDE DEF i
  <1>8. /\ item' \in [Items -> ItemType]
        /\ item'[i].state \in {"queued", "free"}
        /\ item'[i].cpus = 0 /\ item'[i].next = NULL /\ ~item'[i].post
        /\ \A j \in Items \ {i} :
              /\ item'[j].state = item[j].state /\ item'[j].cpus = item[j].cpus
              /\ item'[j].post = item[j].post
              /\ j \notin Queued => item'[j].next = item[j].next
    <2>1. CASE item' = [item EXCEPT ![i].state = "queued"]
      BY <1>1, <1>2, <2>1 DEF DeferredTypes, ItemType
    <2>2. CASE head.next # NULL /\ item' = [item EXCEPT ![i].state = "queued",
                                                ![TailItem].next = i]
      <3>1. TailItem \in Items \ {i} /\ TailItem \in Queued
        BY <2>2, <1>7, TailItemExists DEF Queued
      <3> HIDE DEF TailItem
      <3> QED BY <1>1, <1>2, <2>2, <3>1 DEF DeferredTypes, ItemType
    <2>3. CASE item' = [item EXCEPT ![i] = Free]
      <3>1. /\ Free \in ItemType /\ Free.state = "free" /\ Free.cpus = 0
            /\ Free.next = NULL /\ ~Free.post
        BY DEF Free, Item, ItemType
      <3> HIDE DEF Free
      <3> QED BY <1>1, <2>3, <3>1 DEF DeferredTypes
    <2> QED BY <2>1, <2>2, <2>3 DEF Insert, i
  <1>9. /\ head' \in [cpus : Nat, next : Items \cup {NULL}]
        /\ \/ head' = head
           \/ head.next = NULL /\ head'.next = i /\ head'.cpus = 0
    BY <1>1 DEF Insert, i, DeferredTypes
  <1>10. DeferredTypes'
    BY <1>1, <1>3, <1>8, <1>9 DEF DeferredTypes, Labels
  <1>11. WorkIsHeadOrDone'
    BY <1>1, <1>4, <1>6, <1>8, <1>9
       DEF DeferredInd, WorkIsHeadOrDone, InItem
  <1>12. CountsAreRight'
    <2> SUFFICES ASSUME NEW j \in Items
                 PROVE  /\ head'.next = j => head'.cpus = Cardinality(Inside(j)')
                        /\ item'[j].state \in {"queued", "done"} =>
                              item'[j].cpus = Cardinality(Entered(j)')
      BY DEF CountsAreRight
    <2>1. Inside(j)' = Inside(j) /\ Entered(j)' = Entered(j)
      BY <1>4
    <2>2. /\ head.next = j => head.cpus = Cardinality(Inside(j))
          /\ item[j].state \in {"queued", "done"} =>
                item[j].cpus = Cardinality(Entered(j))
      BY DEF DeferredInd, CountsAreRight
    <2>3. CASE j = i
      BY <1>5, <1>7, <1>8, <1>9, <2>1, <2>3
    <2>4. CASE j # i
      <3>1. item'[j].state = item[j].state /\ item'[j].cpus = item[j].cpus
        BY <1>8, <2>4
      <3>2. head'.next = j => head' = head
        BY <1>9, <2>4
      <3> QED BY <2>1, <2>2, <3>1, <3>2
    <2> QED BY <2>3, <2>4
  <1>13. NewIsPrivate'
    BY <1>1, <1>4, <1>6, <1>8 DEF DeferredInd, NewIsPrivate, Queued
  <1>14. NobodyLeavesBefore'
    BY <1>3, <1>4, <1>6, <1>8
       DEF DeferredInd, NobodyLeavesBefore, WorkIsHeadOrDone, InItem
  <1>15. QueueIsChain'
    <2>1. CASE /\ head.next = NULL /\ head'.next = i
               /\ item' = [item EXCEPT ![i].state = "queued"]
      <3>1. /\ \A j \in Queued : item'[j].next = item[j].next
            /\ Queued' = Queued \cup {i}
        BY <1>1, <1>7, <2>1 DEF Queued, DeferredTypes, ItemType
      <3>2. \A j \in Queued : item[j].next # i
        BY <1>1, <1>7 DEF DeferredInd, QueueIsChain
      <3>3. ASSUME NEW S \in SUBSET Queued', S # {}
            PROVE  \E j \in S : item'[j].next \notin S
        <4>1. CASE i \in S
          BY <4>1, <1>8, <3>1, <1>1 DEF Queued
        <4>2. CASE i \notin S
          BY <4>2, <3>1, <3>3 DEF DeferredInd, QueueIsChain
        <4> QED BY <4>1, <4>2
      <3> QED BY <1>1, <1>8, <2>1, <3>1, <3>2, <3>3 DEF DeferredInd, QueueIsChain
    <2>2. CASE /\ head.next # NULL /\ head' = head
               /\ item' = [item EXCEPT ![i].state = "queued",
                                       ![TailItem].next = i]
      <3>1. TailItem \in Queued /\ item[TailItem].next = NULL
        BY <2>2, TailItemExists
      <3> DEFINE T == TailItem
      <3> HIDE DEF TailItem, T
      <3>2. T \in Queued \ {i} /\ item[T].next = NULL /\ T \in Items
        BY <3>1, <1>7 DEF T, Queued
      <3>3. /\ \A j \in Queued \ {T} : item'[j].next = item[j].next
            /\ item'[T].next = i
            /\ Queued' = Queued \cup {i}
        BY <1>1, <1>7, <2>2, <3>2 DEF Queued, DeferredTypes, ItemType, T
      <3>4. \A j \in Queued : item[j].next # i
        BY <1>1, <1>7 DEF DeferredInd, QueueIsChain
      <3>5. ASSUME NEW S \in SUBSET Queued', S # {}
            PROVE  \E j \in S : item'[j].next \notin S
        <4>1. CASE i \in S
          BY <4>1, <1>8, <3>3, <1>1 DEF Queued
        <4>2. CASE i \notin S
          <5>1. PICK j \in S : item[j].next \notin S
            BY <4>2, <3>3, <3>5 DEF DeferredInd, QueueIsChain
          <5> QED BY <5>1, <4>2, <3>3
        <4> QED BY <4>1, <4>2
      <3>6. \A j \in Queued' : item'[j].next = NULL
                           \/ item'[j].next \in Queued' \ {head'.next}
        <4> SUFFICES ASSUME NEW j \in Queued'
                     PROVE  item'[j].next = NULL
                              \/ item'[j].next \in Queued' \ {head.next}
          BY <2>2
        <4>1. CASE j = i
          BY <4>1, <1>8
        <4>2. CASE j = T
          BY <4>2, <1>7, <3>3
        <4>3. CASE j \in Queued \ {T}
          BY <4>3, <3>3 DEF DeferredInd, QueueIsChain
        <4> QED BY <4>1, <4>2, <4>3, <3>3
      <3>7. \A j, k \in Queued' :
          item'[j].next = item'[k].next => j = k \/ item'[j].next = NULL
        BY <1>7, <1>8, <3>2, <3>3, <3>4 DEF DeferredInd, QueueIsChain
      <3> QED BY <2>2, <3>3, <3>5, <3>6, <3>7 DEF DeferredInd, QueueIsChain
    <2>3. CASE head' = head /\ item' = [item EXCEPT ![i] = Free]
      <3>1. Free.state = "free"
        BY DEF Free, Item
      <3> HIDE DEF Free
      <3>2. /\ \A j \in Queued : item'[j].next = item[j].next
            /\ Queued' = Queued
        BY <1>1, <1>7, <2>3, <3>1 DEF Queued, DeferredTypes
      <3> QED BY <2>3, <3>2 DEF DeferredInd, QueueIsChain
    <2> QED BY <2>1, <2>2, <2>3 DEF Insert, i
  <1> QED BY <1>10, <1>11, <1>12, <1>13, <1>14, <1>15 DEF DeferredInd

(* A CPU that takes a pointer to the first item is counted in the queue.   *)
LEMMA ExecuteInd ==
    ASSUME DeferredInd, NEW c \in Cpus, Execute(c)
    PROVE  DeferredInd'
  <1> USE DeferredAssumption
  <1>1. DeferredTypes /\ pc[c] = "execute"
    BY DEF DeferredInd, Execute
  <1>2. CASE head.next = NULL
    <2>1. \A i \in Items : SameItem(i)
      BY <1>2 DEF Execute, SameItem
    <2>2. QuietStep(c, "user")
      BY <1>1, <1>2, <2>1 DEF Execute, QuietStep, Goto, Outside, DeferredTypes
    <2> QED BY <2>2, QuietStepInd
  <1>3. CASE head.next # NULL
    <2>0. PICK n \in Items : n = head.next
      BY <1>1, <1>3 DEF DeferredTypes
    <2>1. /\ n \in Items /\ n \in Queued
          /\ head' = [head EXCEPT !.cpus = @ + 1]
          /\ work' = [work EXCEPT ![c] = n]
          /\ pc' = [pc EXCEPT ![c] = "start"]
          /\ item' = item /\ local' = local /\ seq' = seq
      BY <1>1, <1>3, <2>0 DEF Execute, Goto, DeferredInd, QueueIsChain, Queued
    <2>2. head' \in [cpus : Nat, next : Items \cup {NULL}] /\ head'.next = n
            /\ head'.cpus = head.cpus + 1
      BY <1>1, <2>0, <2>1 DEF DeferredTypes
    <2>3. DeferredTypes'
      BY <1>1, <2>1, <2>2 DEF DeferredTypes, Labels, InItem
    <2>4. /\ pc'[c] = "start" /\ \A d \in Cpus \ {c} : pc'[d] = pc[d]
          /\ work'[c] = n /\ \A d \in Cpus \ {c} : work'[d] = work[d]
      BY <1>1, <2>1 DEF DeferredTypes
    <2>5. /\ Inside(n)' = Inside(n) \cup {c} /\ c \notin Inside(n)
          /\ \A i \in Items \ {n} : Inside(i)' = Inside(i)
          /\ \A i \in Items : Entered(i)' = Entered(i)
      BY <1>1, <2>4 DEF Inside, Entered, InItem
    <2>6. Cardinality(Inside(n)') = Cardinality(Inside(n)) + 1
      BY <2>5, InsideIsFinite, FS_AddElement
    <2>7. Queued' = Queued
      BY <2>1 DEF Queued
    <2>8. item[n].state = "queued" /\ ~item[n].post
      BY <2>1 DEF DeferredInd, NobodyLeavesBefore, Queued
    <2>9. WorkIsHeadOrDone'
      <3>1. pc[Master] = "start" => item[work[Master]].state = "queued"
        BY DEF DeferredInd, WorkIsHeadOrDone, InItem
      <3> QED BY <2>0, <2>1, <2>2, <2>4, <2>8
              DEF DeferredInd, WorkIsHeadOrDone, InItem
    <2>10. QueueIsChain'
      BY <2>0, <2>1, <2>2, <2>7 DEF DeferredInd, QueueIsChain
    <2>11. CountsAreRight'
      BY <2>0, <2>1, <2>2, <2>5, <2>6 DEF DeferredInd, CountsAreRight
    <2>12. NewIsPrivate'
      BY <2>1, <2>4 DEF DeferredInd, NewIsPrivate
    <2>13. NobodyLeavesBefore'
      <3>1. \A d \in Cpus : pc'[d] \in {"complete", "cleanup"} =>
                d # c /\ work'[d] = work[d] /\ pc'[d] = pc[d]
        BY <2>4
      <3>2. \A i \in Items : item[i].post \/ item[i].state = "done" => i # n
        BY <2>8
      <3> QED BY <2>1, <2>5, <3>1, <3>2 DEF DeferredInd, NobodyLeavesBefore
    <2> QED BY <2>3, <2>9, <2>10, <2>11, <2>12, <2>13 DEF DeferredInd
  <1> QED BY <1>2, <1>3

(* ... and then in the item itself.                                        *)
LEMMA StartInd ==
    ASSUME DeferredInd, NEW c \in Cpus, Start(c)
    PROVE  DeferredInd'
  <1> USE DeferredAssumption
  <1>0. PICK i \in Items : i = work[c]
    BY DEF DeferredInd, WorkIsHeadOrDone, Start, InItem
  <1>1. /\ DeferredTypes /\ pc[c] = "start"
        /\ item[i].state \in {"queued", "done"}
    BY <1>0 DEF DeferredInd, WorkIsHeadOrDone, Start, InItem
  <1>2. PICK l \in {"arrive_pre", "master_pre", "wait_pre"} :
            /\ pc' = [pc EXCEPT ![c] = l]
            /\ l = "master_pre" => c = Master
    BY DEF Start, Goto, AtPre
  <1>3. /\ item' = [item EXCEPT ![i].cpus = @ + 1]
        /\ head' = head /\ work' = work /\ seq' = seq /\ local' = local
    BY <1>0 DEF Start
  <1>4. /\ item' \in [Items -> ItemType]
        /\ item'[i].cpus = item[i].cpus + 1
        /\ item[i].cpus \in Nat
        /\ \A j \in Items : /\ item'[j].state = item[j].state
                            /\ item'[j].next = item[j].next
                            /\ item'[j].post = item[j].post
                            /\ j # i => item'[j].cpus = item[j].cpus
    BY <1>1, <1>3 DEF DeferredTypes, ItemType
  <1>5. DeferredTypes'
    BY <1>1, <1>2, <1>3, <1>4 DEF DeferredTypes, Labels, InItem
  <1>6. /\ pc'[c] = l /\ \A d \in Cpus \ {c} : pc'[d] = pc[d]
        /\ \A d \in Cpus : pc'[d] \in InItem <=> pc[d] \in InItem
    BY <1>1, <1>2 DEF DeferredTypes, InItem
  <1>7. /\ \A j \in Items : Inside(j)' = Inside(j)
        /\ c \in Inside(i) /\ c \notin Entered(i)
        /\ Entered(i)' = Entered(i) \cup {c}
        /\ \A j \in Items \ {i} : Entered(j)' = Entered(j)
    BY <1>0, <1>1, <1>2, <1>3, <1>6 DEF Inside, Entered, InItem
  <1>8. Cardinality(Entered(i)') = Cardinality(Entered(i)) + 1
    BY <1>7, InsideIsFinite, FS_AddElement
  <1>9. ~item[i].post
    BY <1>1, <1>7 DEF DeferredInd, NobodyLeavesBefore
  <1>10. Queued' = Queued
    BY <1>4 DEF Queued
  <1>11. WorkIsHeadOrDone'
    BY <1>1, <1>2, <1>3, <1>4, <1>6
       DEF DeferredInd, WorkIsHeadOrDone, InItem
  <1>12. QueueIsChain'
    <2>1. \A j \in Queued : item'[j].next = item[j].next
      BY <1>4 DEF Queued
    <2> QED BY <1>3, <1>10, <2>1 DEF DeferredInd, QueueIsChain
  <1>13. CountsAreRight'
    <2> SUFFICES ASSUME NEW j \in Items
                 PROVE  /\ head'.next = j => head'.cpus = Cardinality(Inside(j)')
                        /\ item'[j].state \in {"queued", "done"} =>
                              item'[j].cpus = Cardinality(Entered(j)')
      BY DEF CountsAreRight
    <2>1. head'.next = j => head'.cpus = Cardinality(Inside(j)')
      BY <1>3, <1>7 DEF DeferredInd, CountsAreRight
    <2>2. CASE j = i
      <3>1. item[i].cpus = Cardinality(Entered(i))
        BY <1>1 DEF DeferredInd, CountsAreRight
      <3> QED BY <1>4, <1>8, <2>1, <2>2, <3>1
    <2>3. CASE j # i
      <3>1. Entered(j)' = Entered(j)
        BY <1>7, <2>3
      <3> QED BY <1>4, <2>1, <2>3, <3>1 DEF DeferredInd, CountsAreRight
    <2> QED BY <2>2, <2>3
  <1>14. NewIsPrivate'
    BY <1>1, <1>2, <1>3, <1>4, <1>6 DEF DeferredInd, NewIsPrivate
  <1>15. NobodyLeavesBefore'
    <2>1. \A d \in Cpus : pc'[d] \in {"complete", "cleanup"} =>
              d # c /\ pc'[d] = pc[d] /\ work[d] \in Items
      BY <1>2, <1>6 DEF DeferredInd, WorkIsHeadOrDone, InItem
    <2> QED BY <1>3, <1>4, <1>7, <1>9, <2>1
            DEF DeferredInd, NobodyLeavesBefore
  <1> QED BY <1>5, <1>11, <1>12, <1>13, <1>14, <1>15 DEF DeferredInd

(* The master takes its item off the queue.                                *)
LEMMA CompleteInd ==
    ASSUME DeferredInd, NEW c \in Cpus, Complete(c)
    PROVE  DeferredInd'
  <1> USE DeferredAssumption
  <1>0. PICK i \in Items : i = work[c]
    BY DEF DeferredInd, WorkIsHeadOrDone, Complete, InItem
  <1>1. /\ DeferredTypes /\ pc[c] = "master_post" /\ c = Master
        /\ item[i].state = "queued" /\ head.next = i
    BY <1>0 DEF DeferredInd, WorkIsHeadOrDone, Complete, InItem
  <1>2. /\ local' = [local EXCEPT ![c] = head.cpus]
        /\ head' = [cpus |-> 0, next |-> item[i].next]
        /\ item' = [item EXCEPT ![i].next = NULL, ![i].state = "done"]
        /\ pc' = [pc EXCEPT ![c] = "complete"]
        /\ work' = work /\ seq' = seq
    BY <1>0 DEF Complete, Goto
  <1>3. /\ item' \in [Items -> ItemType]
        /\ item'[i].state = "done" /\ item'[i].next = NULL
        /\ item'[i].post = item[i].post /\ item'[i].cpus = item[i].cpus
        /\ item[i].next \in Items \cup {NULL}
        /\ \A j \in Items \ {i} : SameItem(j)
    BY <1>1, <1>2 DEF DeferredTypes, ItemType, SameItem
  <1>4. /\ local'[c] = head.cpus /\ \A d \in Cpus \ {c} : local'[d] = local[d]
        /\ pc'[c] = "complete" /\ \A d \in Cpus \ {c} : pc'[d] = pc[d]
        /\ head.cpus \in Nat
        /\ head'.next = item[i].next /\ head'.cpus = 0
    BY <1>1, <1>2 DEF DeferredTypes
  <1>5. DeferredTypes'
    BY <1>1, <1>2, <1>3, <1>4 DEF DeferredTypes, Labels, InItem
  <1>6. \A j \in Items : Inside(j)' = Inside(j) /\ Entered(j)' = Entered(j)
    BY <1>1, <1>2, <1>4 DEF Inside, Entered, InItem
  <1>7. /\ Queued' = Queued \ {i} /\ i \in Queued
        /\ \A j \in Queued : item[j].next # i
    BY <1>1, <1>3 DEF Queued, SameItem, DeferredInd, QueueIsChain
  <1>8. \A j \in Items \ {i} : item[j].state = "queued" => Inside(j) = {}
    BY <1>1 DEF DeferredInd, WorkIsHeadOrDone, Inside
  <1>9. WorkIsHeadOrDone'
    BY <1>0, <1>1, <1>2, <1>3, <1>4
       DEF DeferredInd, WorkIsHeadOrDone, SameItem, InItem
  <1>10. QueueIsChain'
    <2>1. \A j \in Queued' : item'[j].next = item[j].next
      BY <1>3, <1>7 DEF SameItem, Queued
    <2>2. head'.next # NULL => head'.next \in Queued'
      BY <1>4, <1>7 DEF DeferredInd, QueueIsChain
    <2>3. ASSUME NEW j \in Queued'
          PROVE  item'[j].next = NULL
                   \/ item'[j].next \in Queued' \ {head'.next}
      <3>1. item[j].next = NULL \/ item[j].next \in Queued \ {i}
        BY <1>7 DEF DeferredInd, QueueIsChain
      <3>2. item[j].next = item[i].next => item[j].next = NULL
        BY <1>7 DEF DeferredInd, QueueIsChain
      <3> QED BY <2>1, <3>1, <3>2, <1>4, <1>7
    <2> QED BY <1>7, <2>1, <2>2, <2>3 DEF DeferredInd, QueueIsChain
  <1>11. CountsAreRight'
    <2>1. ASSUME NEW j \in Items, head'.next = j
          PROVE  head'.cpus = Cardinality(Inside(j)')
      <3>1. j \in Queued \ {i}
        BY <2>1, <1>4, <1>7 DEF DeferredInd, QueueIsChain
      <3> QED BY <3>1, <1>4, <1>6, <1>8, FS_EmptySet DEF Queued
    <2> QED BY <2>1, <1>1, <1>3, <1>6 DEF DeferredInd, CountsAreRight, SameItem
  <1>12. NewIsPrivate'
    BY <1>1, <1>2, <1>3, <1>4 DEF DeferredInd, NewIsPrivate, SameItem
  <1>13. NobodyLeavesBefore'
    <2>1. ~item[i].post /\ local'[c] = Cardinality(Inside(i))
      BY <1>1, <1>4 DEF DeferredInd, NobodyLeavesBefore, CountsAreRight
    <2>2. \A d \in Cpus : pc'[d] = "cleanup" => d # c /\ work[d] # i
      BY <1>4, <2>1 DEF DeferredInd, NobodyLeavesBefore
    <2>3. \A d \in Cpus : pc[d] # "complete"
      BY <1>1 DEF DeferredInd, WorkIsHeadOrDone
    <2>4. \A d \in Cpus : pc'[d] = "cleanup" => work[d] \in Items
      BY <1>4 DEF DeferredInd, WorkIsHeadOrDone, InItem
    <2> QED BY <1>0, <1>2, <1>3, <1>4, <1>6, <2>1, <2>2, <2>3, <2>4
            DEF DeferredInd, NobodyLeavesBefore, SameItem
  <1> QED BY <1>5, <1>9, <1>10, <1>11, <1>12, <1>13 DEF DeferredInd

(* When the two counts agree every CPU that has a pointer is inside.       *)
LEMMA CompleteWaitInd ==
    ASSUME DeferredInd, NEW c \in Cpus, CompleteWait(c)
    PROVE  DeferredInd'
  <1> USE DeferredAssumption
  <1>0. PICK i \in Items : i = work[c]
    BY DEF DeferredInd, WorkIsHeadOrDone, CompleteWait, InItem
  <1>1. /\ DeferredTypes /\ pc[c] = "complete" /\ c = Master
        /\ item[i].state = "done" /\ item[i].cpus = local[c]
    BY <1>0 DEF DeferredInd, WorkIsHeadOrDone, CompleteWait, InItem,
                NobodyLeavesBefore
  <1>2. /\ item' = [item EXCEPT ![i].post = TRUE]
        /\ pc' = [pc EXCEPT ![c] = "cleanup"]
        /\ head' = head /\ work' = work /\ seq' = seq /\ local' = local
    BY <1>0 DEF CompleteWait, Goto
  <1>3. /\ item' \in [Items -> ItemType]
        /\ item'[i].state = "done" /\ item'[i].next = item[i].next
        /\ item'[i].post /\ item'[i].cpus = item[i].cpus
        /\ \A j \in Items \ {i} : SameItem(j)
    <2> DEFINE r == item[i]
               q == [r EXCEPT !.post = TRUE]
    <2>1. r \in ItemType
      BY <1>1 DEF DeferredTypes
    <2> HIDE DEF r
    <2>2. /\ q \in ItemType /\ q.state = r.state /\ q.next = r.next
          /\ q.post /\ q.cpus = r.cpus
      BY <2>1 DEF ItemType
    <2>3. item' = [item EXCEPT ![i] = q]
      BY <1>1, <1>2 DEF r, DeferredTypes
    <2> HIDE DEF q
    <2> QED BY <1>1, <2>2, <2>3 DEF DeferredTypes, SameItem, r
  <1>4. pc'[c] = "cleanup" /\ \A d \in Cpus \ {c} : pc'[d] = pc[d]
    BY <1>1, <1>2 DEF DeferredTypes
  <1>5. DeferredTypes'
    BY <1>1, <1>2, <1>3 DEF DeferredTypes, Labels, InItem
  <1>6. \A j \in Items : Inside(j)' = Inside(j) /\ Entered(j)' = Entered(j)
    BY <1>1, <1>2, <1>4 DEF Inside, Entered, InItem
  <1>7. Entered(i) = Inside(i)
    <2>1. Cardinality(Entered(i)) = Cardinality(Inside(i))
      BY <1>0, <1>1 DEF DeferredInd, NobodyLeavesBefore, CountsAreRight
    <2> QED BY <2>1, InsideIsFinite
  <1>8. Queued' = Queued /\ i \notin Queued
    BY <1>1, <1>3 DEF Queued, SameItem
  <1>9. WorkIsHeadOrDone'
    BY <1>0, <1>1, <1>2, <1>3, <1>4
       DEF DeferredInd, WorkIsHeadOrDone, SameItem, InItem
  <1>10. QueueIsChain'
    <2>1. \A j \in Queued : item'[j].next = item[j].next
      BY <1>3, <1>8 DEF SameItem, Queued
    <2> QED BY <1>2, <1>8, <2>1 DEF DeferredInd, QueueIsChain
  <1>11. CountsAreRight'
    BY <1>1, <1>2, <1>3, <1>6 DEF DeferredInd, CountsAreRight, SameItem
  <1>12. NewIsPrivate'
    BY <1>1, <1>2, <1>3, <1>4 DEF DeferredInd, NewIsPrivate, SameItem
  <1>13. NobodyLeavesBefore'
    <2>1. \A d \in Cpus : pc'[d] # "complete"
      BY <1>1, <1>4 DEF DeferredInd, WorkIsHeadOrDone
    <2>2. \A d \in Cpus : pc'[d] = "cleanup" => work[d] \in Items
      BY <1>0, <1>4 DEF DeferredInd, WorkIsHeadOrDone, InItem
    <2> QED BY <1>0, <1>2, <1>3, <1>4, <1>6, <1>7, <2>1, <2>2
            DEF DeferredInd, NobodyLeavesBefore, SameItem
  <1> QED BY <1>5, <1>9, <1>10, <1>11, <1>12, <1>13 DEF DeferredInd

(* A CPU that waits at the end is let go: all the others are inside.       *)
LEMMA WaitAtPostInd ==
    ASSUME DeferredInd, NEW c \in Cpus, WaitAtPost(c)
    PROVE  DeferredInd'
  <1> USE DeferredAssumption
  <1>1. /\ DeferredTypes /\ pc[c] = "wait_post" /\ item[work[c]].post
        /\ work[c] \in Items
    BY DEF DeferredInd, WorkIsHeadOrDone, WaitAtPost, InItem
  <1>2. /\ pc' = [pc EXCEPT ![c] = "cleanup"] /\ item' = item /\ head' = head
        /\ work' = work /\ seq' = seq /\ local' = local
    BY DEF WaitAtPost, Goto
  <1>3. pc'[c] = "cleanup" /\ \A d \in Cpus \ {c} : pc'[d] = pc[d]
    BY <1>1, <1>2 DEF DeferredTypes
  <1>4. DeferredTypes'
    BY <1>1, <1>2 DEF DeferredTypes, Labels, InItem
  <1>5. \A j \in Items : Inside(j)' = Inside(j) /\ Entered(j)' = Entered(j)
    BY <1>1, <1>2, <1>3 DEF Inside, Entered, InItem
  <1>6. WorkIsHeadOrDone'
    BY <1>1, <1>2, <1>3 DEF DeferredInd, WorkIsHeadOrDone, InItem
  <1>7. QueueIsChain'
    <2>1. Queued' = Queued
      BY <1>2 DEF Queued
    <2> QED BY <1>2, <2>1 DEF DeferredInd, QueueIsChain
  <1>8. CountsAreRight'
    BY <1>2, <1>5 DEF DeferredInd, CountsAreRight
  <1>9. NewIsPrivate'
    BY <1>1, <1>2, <1>3 DEF DeferredInd, NewIsPrivate
  <1>10. NobodyLeavesBefore'
    BY <1>1, <1>2, <1>3, <1>5 DEF DeferredInd, NobodyLeavesBefore
  <1> QED BY <1>4, <1>6, <1>7, <1>8, <1>9, <1>10 DEF DeferredInd

(* The last CPU out deletes: when the item's count is 1, no other CPU has  *)
(* a pointer to it.                                                        *)
LEMMA LastOneOut ==
    ASSUME DeferredInd, NEW c \in Cpus, NEW i \in Items, i = work[c],
           pc[c] = "cleanup"
    PROVE  /\ item[i].state = "done" /\ item[i].post
           /\ c \in Inside(i) /\ Entered(i) = Inside(i)
           /\ item[i].cpus = Cardinality(Inside(i))
           /\ item[i].cpus = 1 => Inside(i) = {c}
           /\ item[i].cpus # 1 =>
                 Cardinality(Inside(i) \ {c}) = item[i].cpus - 1
           /\ item[i].cpus \in Nat \ {0}
  <1>1. /\ item[i].state = "done" /\ item[i].post
        /\ c \in Inside(i) /\ Entered(i) = Inside(i)
    BY DEF DeferredInd, NobodyLeavesBefore, Inside, InItem
  <1>2. item[i].cpus = Cardinality(Inside(i))
    BY <1>1 DEF DeferredInd, CountsAreRight
  <1>3. IsFiniteSet(Inside(i))
    BY InsideIsFinite
  <1>4. Cardinality(Inside(i)) = 1 => Inside(i) = {c}
    <2>1. Cardinality(Inside(i)) = 1 => \E x : Inside(i) = {x}
      BY <1>3, FS_Singleton
    <2> QED BY <1>1, <2>1
  <1>5. /\ IsFiniteSet(Inside(i) \ {c})
        /\ Cardinality(Inside(i) \ {c}) = Cardinality(Inside(i)) - 1
    BY <1>1, <1>3, FS_RemoveElement
  <1>6. Cardinality(Inside(i)) \in Nat /\ Cardinality(Inside(i) \ {c}) \in Nat
    BY <1>3, <1>5, FS_CardinalityType
  <1> QED BY <1>1, <1>2, <1>4, <1>5, <1>6

(* cleanup: a CPU gives its reference back; the last one deletes the item, *)
(* which nobody else is inside by then.                                    *)
LEMMA CleanupInd ==
    ASSUME DeferredInd, NEW c \in Cpus, Cleanup(c)
    PROVE  DeferredInd'
  <1> USE DeferredAssumption
  <1>0. PICK i \in Items : i = work[c]
    BY DEF DeferredInd, WorkIsHeadOrDone, Cleanup, InItem
  <1>1. DeferredTypes /\ pc[c] = "cleanup"
    BY DEF DeferredInd, Cleanup
  <1>2. /\ item[i].state = "done" /\ item[i].post
        /\ c \in Inside(i) /\ Entered(i) = Inside(i)
        /\ item[i].cpus = Cardinality(Inside(i))
        /\ item[i].cpus = 1 => Inside(i) = {c}
        /\ item[i].cpus # 1 => Cardinality(Inside(i) \ {c}) = item[i].cpus - 1
        /\ item[i].cpus \in Nat \ {0}
    BY <1>0, <1>1, LastOneOut
  <1>3. /\ item' = IF item[i].cpus = 1 THEN [item EXCEPT ![i] = Free]
                                       ELSE [item EXCEPT ![i].cpus = @ - 1]
        /\ work' = [work EXCEPT ![c] = NULL] /\ pc' = [pc EXCEPT ![c] = "user"]
        /\ local' = [local EXCEPT ![c] = 0] /\ head' = head /\ seq' = seq
    BY <1>0 DEF Cleanup, Goto
  <1>4. /\ pc'[c] = "user" /\ \A d \in Cpus \ {c} : pc'[d] = pc[d]
        /\ \A d \in Cpus \ {c} : work'[d] = work[d] /\ local'[d] = local[d]
    BY <1>1, <1>3 DEF DeferredTypes
  <1>5. /\ item' \in [Items -> ItemType]
        /\ \A j \in Items \ {i} : SameItem(j)
        /\ item[i].cpus = 1 =>
              /\ item'[i].state = "free" /\ ~item'[i].post
        /\ item[i].cpus # 1 =>
              /\ item'[i].state = "done" /\ item'[i].post
              /\ item'[i].cpus = item[i].cpus - 1
    <2>1. CASE item[i].cpus = 1
      <3>1. Free \in ItemType /\ Free.state = "free" /\ ~Free.post
        BY DEF Free, Item, ItemType
      <3>2. item' = [item EXCEPT ![i] = Free]
        BY <1>3, <2>1
      <3> HIDE DEF Free
      <3> QED BY <1>1, <2>1, <3>1, <3>2 DEF DeferredTypes, SameItem
    <2>2. CASE item[i].cpus # 1
      <3>1. item' = [item EXCEPT ![i].cpus = @ - 1]
        BY <1>3, <2>2
      <3>2. item[i].cpus - 1 \in Nat
        BY <1>2
      <3> QED BY <1>1, <1>2, <2>2, <3>1, <3>2
              DEF DeferredTypes, ItemType, SameItem
    <2> QED BY <2>1, <2>2
  <1>6. DeferredTypes'
    BY <1>1, <1>3, <1>5 DEF DeferredTypes, Labels
  <1>7. /\ Inside(i)' = Inside(i) \ {c} /\ Entered(i)' = Entered(i) \ {c}
        /\ \A j \in Items \ {i} :
              Inside(j)' = Inside(j) /\ Entered(j)' = Entered(j)
    BY <1>0, <1>4 DEF Inside, Entered, InItem
  <1>8. \A d \in Cpus \ {c} : pc[d] \in InItem /\ work[d] = i =>
            item[i].cpus # 1
    BY <1>2 DEF Inside
  <1>9. Queued' = Queued /\ i \notin Queued /\ head.next # i
    <2>1. Queued' = Queued /\ i \notin Queued
      BY <1>2, <1>5 DEF Queued, SameItem
    <2> QED BY <2>1 DEF DeferredInd, QueueIsChain
  <1>10. WorkIsHeadOrDone'
    BY <1>2, <1>3, <1>4, <1>5, <1>8
       DEF DeferredInd, WorkIsHeadOrDone, SameItem, InItem
  <1>11. QueueIsChain'
    <2>1. \A j \in Queued : item'[j].next = item[j].next
      BY <1>5, <1>9 DEF SameItem, Queued
    <2> QED BY <1>3, <1>9, <2>1 DEF DeferredInd, QueueIsChain
  <1>12. CountsAreRight'
    <2> SUFFICES ASSUME NEW j \in Items
                 PROVE  /\ head'.next = j => head'.cpus = Cardinality(Inside(j)')
                        /\ item'[j].state \in {"queued", "done"} =>
                              item'[j].cpus = Cardinality(Entered(j)')
      BY DEF CountsAreRight
    <2>1. CASE j = i
      BY <1>2, <1>3, <1>5, <1>7, <1>9, <2>1
    <2>2. CASE j # i
      <3>1. Inside(j)' = Inside(j) /\ Entered(j)' = Entered(j)
        BY <1>7, <2>2
      <3> QED BY <1>3, <1>5, <2>2, <3>1
              DEF DeferredInd, CountsAreRight, SameItem
    <2> QED BY <2>1, <2>2
  <1>13. NewIsPrivate'
    BY <1>2, <1>4, <1>5 DEF DeferredInd, NewIsPrivate, SameItem
  <1>14. NobodyLeavesBefore'
    <2>1. \A j \in Items :
            item'[j].post => item'[j].state = "done" /\ Entered(j)' = Inside(j)'
      <3> SUFFICES ASSUME NEW j \in Items, item'[j].post
                   PROVE  item'[j].state = "done" /\ Entered(j)' = Inside(j)'
        OBVIOUS
      <3>1. CASE j = i
        BY <1>2, <1>5, <1>7, <3>1
      <3>2. CASE j # i
        <4>1. item[j].post /\ item'[j].state = item[j].state
          BY <1>5, <3>2 DEF SameItem
        <4>2. Inside(j)' = Inside(j) /\ Entered(j)' = Entered(j)
          BY <1>7, <3>2
        <4> QED BY <4>1, <4>2 DEF DeferredInd, NobodyLeavesBefore
      <3> QED BY <3>1, <3>2
    <2>2. \A d \in Cpus, j \in Items : pc'[d] = "complete" /\ work'[d] = j =>
            /\ item'[j].state = "done" /\ ~item'[j].post
            /\ local'[d] = Cardinality(Inside(j)')
      <3> SUFFICES ASSUME NEW d \in Cpus, NEW j \in Items,
                          pc'[d] = "complete", work'[d] = j
                   PROVE  /\ item'[j].state = "done" /\ ~item'[j].post
                          /\ local'[d] = Cardinality(Inside(j)')
        OBVIOUS
      <3>1. d # c /\ pc[d] = "complete" /\ work[d] = j /\ local'[d] = local[d]
        BY <1>4
      <3>2. /\ item[j].state = "done" /\ ~item[j].post
            /\ local[d] = Cardinality(Inside(j))
        BY <3>1 DEF DeferredInd, NobodyLeavesBefore
      <3>3. j # i
        BY <3>2, <1>2
      <3>4. Inside(j)' = Inside(j)
        BY <3>3, <1>7
      <3> QED BY <1>5, <3>1, <3>2, <3>3, <3>4 DEF SameItem
    <2>3. \A d \in Cpus : pc'[d] = "cleanup" => item'[work'[d]].post
      <3> SUFFICES ASSUME NEW d \in Cpus, pc'[d] = "cleanup"
                   PROVE  item'[work[d]].post /\ work'[d] = work[d]
        OBVIOUS
      <3>1. d # c /\ pc[d] = "cleanup" /\ work'[d] = work[d]
        BY <1>4
      <3>2. work[d] \in Items /\ item[work[d]].post
        BY <3>1 DEF DeferredInd, NobodyLeavesBefore, WorkIsHeadOrDone, InItem
      <3>3. work[d] = i => item[i].cpus # 1
        BY <3>1, <1>8 DEF InItem
      <3> QED BY <1>5, <3>1, <3>2, <3>3 DEF SameItem
    <2> QED BY <2>1, <2>2, <2>3 DEF NobodyLeavesBefore
  <1> QED BY <1>6, <1>10, <1>11, <1>12, <1>13, <1>14 DEF DeferredInd

-----------------------------------------------------------------------------
(* Every step of every CPU keeps the invariant.                            *)
LEMMA DeferredNextInd == DeferredInd /\ [Next]_vars => DeferredInd'
  <1> SUFFICES ASSUME DeferredInd, [Next]_vars PROVE DeferredInd'
    OBVIOUS
  <1>1. CASE UNCHANGED vars
    <2>1. /\ item' = item /\ head' = head /\ seq' = seq /\ pc' = pc
          /\ work' = work /\ local' = local
      BY <1>1 DEF vars
    <2>2. DeferredTypes' /\ WorkIsHeadOrDone' /\ NewIsPrivate'
      BY <2>1 DEF DeferredInd, DeferredTypes, WorkIsHeadOrDone, NewIsPrivate
    <2>3. QueueIsChain'
      BY <2>1 DEF DeferredInd, QueueIsChain, Queued
    <2>4. \A i \in Items : Inside(i)' = Inside(i) /\ Entered(i)' = Entered(i)
      BY <2>1 DEF Inside, Entered
    <2>5. CountsAreRight' /\ NobodyLeavesBefore'
      BY <2>1, <2>4 DEF DeferredInd, CountsAreRight, NobodyLeavesBefore
    <2> QED BY <2>2, <2>3, <2>5 DEF DeferredInd
  <1>2. ASSUME NEW c \in Cpus, NEW i \in Items, Create(c, i)
        PROVE  DeferredInd'
    BY <1>2, CreateInd
  <1>3. ASSUME NEW c \in Cpus, activateCPU(c) \/ KernelStep(c)
        PROVE  DeferredInd'
    <2>1. CASE \/ activateCPU(c) \/ EnterKernel(c) \/ WaitForCpus(c)
               \/ MasterPre(c) \/ WaitAtPre(c) \/ MainWork(c) \/ Winkle(c)
               \/ WakeUp(c)
      BY <2>1, QuietStepsInd
    <2>2. CASE Insert(c)
      BY <2>2, InsertInd
    <2>3. CASE Execute(c)
      BY <2>3, ExecuteInd
    <2>4. CASE Start(c)
      BY <2>4, StartInd
    <2>5. CASE Complete(c)
      BY <2>5, CompleteInd
    <2>6. CASE CompleteWait(c)
      BY <2>6, CompleteWaitInd
    <2>7. CASE WaitAtPost(c)
      BY <2>7, WaitAtPostInd
    <2>8. CASE Cleanup(c)
      BY <2>8, CleanupInd
    <2> QED BY <1>3, <2>1, <2>2, <2>3, <2>4, <2>5, <2>6, <2>7, <2>8
            DEF KernelStep
  <1> QED BY <1>1, <1>2, <1>3 DEF Next

(* The invariant holds in every behaviour of the kernel.                   *)
LEMMA DeferredInvariance == Spec => []DeferredInd
  BY DeferredInitInd, DeferredNextInd, PTL DEF Spec

(* "Last thread out deletes", for every number of CPUs and items: no CPU   *)
(* has a pointer to an item that _cleanup has deleted, though a CPU takes  *)
(* the pointer (_execute) and enters the item (start) in two steps and the *)
(* others may all leave in between.                                        *)
THEOREM NoUseAfterDeleteHolds == Spec => []NoUseAfterDelete
  <1>1. DeferredInd => NoUseAfterDelete
    BY DEF DeferredInd, WorkIsHeadOrDone, NoUseAfterDelete
  <1> QED BY <1>1, DeferredInvariance, PTL

-----------------------------------------------------------------------------
(* Who stands still while the master works                                 *)

(* Where a CPU is after iv_releasePre, and after the second barrier.       *)
AfterPre == {"main", "winkled", "arrive_post", "sync_post", "master_post",
             "wait_post", "complete", "cleanup", "assert"}
AfterSync == {"sync_post", "master_post", "wait_post", "complete", "cleanup"}

(* The CPUs that the item's barrier counts on are those that were online   *)
(* when it was created; an online CPU whose sequence number is not above   *)
(* the item's is one of them.                                              *)
SeqFits ==
    /\ seqid \in [Cpus -> Nat]
    /\ \A i \in Items : item[i].activeSeq <= seq
    /\ \A i \in Items : item[i].count = Cardinality(item[i].members)
    /\ \A i \in Items, c \in Cpus :
          seqid[c] <= item[i].activeSeq =>
             \/ item[i].state = "free" \/ pc[c] \in {"off", "winkled"}
             \/ c \in item[i].members

(* Only CPUs the barrier counts on wait at it.                             *)
ActivesFit ==
    /\ active \in [Cpus -> BOOLEAN]
    /\ \A c \in Cpus : active[c] =>
          pc[c] \in InItem \ {"start"} /\ c \in item[work[c]].members
    /\ \A c \in Cpus :
          pc[c] \in {"arrive_pre", "sync_pre", "winkled", "arrive_post",
                     "sync_post"} => active[c]

(* Nobody is past iv_releasePre before the master has set it, and that it  *)
(* does in the item at the head of the queue.                              *)
Pending == {"new", "queued"}

PreFits ==
    /\ \A c \in Cpus : pc[c] \in AfterPre => item[work[c]].pre
    /\ \A i \in Items : item[i].state \in Pending /\ item[i].pre =>
          work[Master] = i /\ pc[Master] \in AfterPre

(* The CPUs of the item that are at one of the barriers' two waits.        *)
Waiting(i, l) == {c \in Cpus : work[c] = i /\ pc[c] = l}

(* The event tells the round of the item's barrier.  Before the first one  *)
(* is over every CPU it counts on is on its way to it; between the two all *)
(* of them are inside; after the second they leave when iv_releasePost is  *)
(* set.  What is missing are those that do not wait yet.                   *)
Round0(i) ==
    /\ \A c \in Cpus : active[c] /\ work[c] = i =>
          pc[c] \in {"arrive_pre", "sync_pre"}
    /\ \A c \in Waiting(i, "sync_pre") : local[c] = 0
    /\ item[i].missing + Cardinality(Waiting(i, "sync_pre"))
          = Cardinality(item[i].members)

Round1(i) ==
    /\ \A c \in item[i].members :
          /\ active[c] /\ work[c] = i
          /\ pc[c] \notin {"arrive_pre", "master_post", "wait_post",
                           "complete", "cleanup"}
    /\ \A c \in Waiting(i, "sync_post") : local[c] = 1
    /\ item[i].missing + Cardinality(Waiting(i, "sync_post"))
          = Cardinality(item[i].members)

Round2(i) ==
    /\ \A c \in Cpus : active[c] /\ work[c] = i => pc[c] \in AfterSync
    /\ ~item[i].post => \A c \in item[i].members : active[c] /\ work[c] = i

RoundFits(i) ==
    /\ item[i].event \in 0..2
    /\ item[i].event = 0 => Round0(i)
    /\ item[i].event = 1 => Round1(i)
    /\ item[i].event = 2 => Round2(i)

BarrierFits == \A i \in Items : RoundFits(i)

HeldInd == SeqFits /\ ActivesFit /\ PreFits /\ BarrierFits

-----------------------------------------------------------------------------
(* What a step leaves alone: the other CPUs, and the barrier of an item.   *)
Others(c) ==
    \A d \in Cpus \ {c} : /\ pc'[d] = pc[d] /\ work'[d] = work[d]
                          /\ local'[d] = local[d] /\ active'[d] = active[d]

SameBarrier(i) ==
    /\ item'[i].activeSeq = item[i].activeSeq
    /\ item'[i].count = item[i].count /\ item'[i].missing = item[i].missing
    /\ item'[i].event = item[i].event /\ item'[i].members = item[i].members
    /\ item'[i].state = "free" <=> item[i].state = "free"
    /\ item[i].post => item'[i].post

(* cv_cpuSeq only grows, and a CPU comes online with a new number.         *)
SeqStep ==
    /\ seq' \in Nat /\ seq <= seq' /\ seqid' \in [Cpus -> Nat]
    /\ \A d \in Cpus : \/ pc'[d] \in {"off", "winkled"}
                       \/ seqid'[d] = seq + 1
                       \/ /\ seqid'[d] = seqid[d]
                          /\ pc[d] \notin {"off", "winkled"}

(* A CPU that was not online when an item was created has a higher number  *)
(* than the item.                                                          *)
LEMMA SeqFitsNext ==
    ASSUME DeferredInd, SeqFits, SeqStep,
           \A i \in Items : SameBarrier(i) \/ item'[i] = Free
    PROVE  SeqFits'
  <1>1. /\ seq \in Nat /\ item \in [Items -> ItemType]
        /\ \A i \in Items : item[i].activeSeq \in Nat
    BY DEF DeferredInd, DeferredTypes, ItemType
  <1>2. /\ Free.activeSeq = 0 /\ Free.state = "free" /\ Free.members = {}
        /\ Free.count = Cardinality(Free.members)
    BY FS_EmptySet DEF Free, Item
  <1> HIDE DEF Free
  <1>3. ASSUME NEW i \in Items
        PROVE  /\ item'[i].activeSeq <= seq'
               /\ item'[i].count = Cardinality(item'[i].members)
    <2>1. CASE item'[i] = Free
      <3>1. item'[i].activeSeq = 0
        BY <1>2, <2>1
      <3>2. item'[i].activeSeq <= seq'
        BY <3>1 DEF SeqStep
      <3> QED BY <1>2, <2>1, <3>2
    <2>2. CASE SameBarrier(i)
      <3>1. item'[i].activeSeq = item[i].activeSeq
        BY <2>2 DEF SameBarrier
      <3>2. item'[i].count = item[i].count
            /\ item'[i].members = item[i].members
        BY <2>2 DEF SameBarrier
      <3>3. item'[i].activeSeq <= seq'
        BY <1>1, <3>1 DEF SeqFits, SeqStep
      <3> QED BY <3>2, <3>3 DEF SeqFits
    <2> QED BY <2>1, <2>2
  <1>4. ASSUME NEW i \in Items, NEW d \in Cpus,
               seqid'[d] <= item'[i].activeSeq
        PROVE  \/ item'[i].state = "free" \/ pc'[d] \in {"off", "winkled"}
               \/ d \in item'[i].members
    <2>1. CASE item'[i] = Free
      BY <1>2, <2>1
    <2>2. CASE SameBarrier(i)
      BY <1>1, <1>4, <2>2 DEF SeqFits, SeqStep, SameBarrier
    <2> QED BY <2>1, <2>2
  <1> QED BY <1>3, <1>4 DEF SeqFits, SeqStep

(* The barrier of an item does not notice a CPU that is not active in it.  *)
LEMMA RoundKept ==
    ASSUME DeferredInd, HeldInd, ActivesFit', NEW c \in Cpus, Others(c),
           NEW i \in Items, SameBarrier(i),
           ~(active[c] /\ work[c] = i), ~(active'[c] /\ work'[c] = i)
    PROVE  RoundFits(i)'
  <1>1. /\ item'[i].event = item[i].event /\ item'[i].members = item[i].members
        /\ item'[i].missing = item[i].missing /\ (item[i].post => item'[i].post)
    BY DEF SameBarrier
  <1>2. RoundFits(i) /\ ActivesFit /\ item[i].members \in SUBSET Cpus
    BY DEF HeldInd, BarrierFits, DeferredInd, DeferredTypes, ItemType
  <1>3. ASSUME NEW l \in {"sync_pre", "sync_post"}
        PROVE  Waiting(i, l)' = Waiting(i, l) /\ c \notin Waiting(i, l)
    BY <1>2 DEF Waiting, ActivesFit, Others
  <1>4. ASSUME item[i].event = 0 PROVE Round0(i)'
    <2>1. Round0(i)
      BY <1>2, <1>4 DEF RoundFits
    <2>2. /\ \A d \in Cpus : active'[d] /\ work'[d] = i =>
                pc'[d] \in {"arrive_pre", "sync_pre"}
          /\ \A d \in Waiting(i, "sync_pre") : local'[d] = 0
      BY <1>3, <2>1 DEF Round0, Others, Waiting
    <2>3. item'[i].missing + Cardinality(Waiting(i, "sync_pre"))
            = Cardinality(item'[i].members)
      BY <1>1, <2>1 DEF Round0
    <2> QED BY <1>3, <2>2, <2>3 DEF Round0
  <1>5. ASSUME item[i].event = 1 PROVE Round1(i)'
    <2>1. Round1(i)
      BY <1>2, <1>5 DEF RoundFits
    <2>2. c \notin item[i].members
      BY <2>1 DEF Round1
    <2>3. \A d \in item'[i].members :
             /\ active'[d] /\ work'[d] = i
             /\ pc'[d] \notin {"arrive_pre", "master_post", "wait_post",
                              "complete", "cleanup"}
      BY <1>1, <1>2, <2>1, <2>2 DEF Round1, Others
    <2>4. \A d \in Waiting(i, "sync_post") : local'[d] = 1
      BY <1>3, <2>1 DEF Round1, Others, Waiting
    <2>5. item'[i].missing + Cardinality(Waiting(i, "sync_post"))
            = Cardinality(item'[i].members)
      BY <1>1, <2>1 DEF Round1
    <2> QED BY <1>3, <2>3, <2>4, <2>5 DEF Round1
  <1>6. item[i].event = 2 => Round2(i)'
    BY <1>1, <1>2 DEF RoundFits, Round2, Others
  <1> QED BY <1>1, <1>2, <1>4, <1>5, <1>6 DEF RoundFits

(* How an active CPU gets from one place in the item to the next while the *)
(* barrier's state stays: past a wait only when the event has changed.     *)
Onward(c, l) ==
    \/ /\ pc[c] = "sync_pre" /\ item[work[c]].event # local[c]
       /\ l \in {"master_pre", "wait_pre"}
    \/ /\ pc[c] \in {"master_pre", "wait_pre", "main", "winkled"}
       /\ l \in {"main", "winkled", "arrive_post"}
    \/ /\ pc[c] = "sync_post" /\ item[work[c]].event # local[c]
       /\ l \in {"master_post", "wait_post"}
    \/ /\ pc[c] \in {"master_post", "wait_post", "complete"}
       /\ l \in {"complete", "cleanup"}

(* An active CPU that goes on inside its item.                             *)
LEMMA RoundMoved ==
    ASSUME DeferredInd, HeldInd, NEW c \in Cpus, Others(c),
           NEW i \in Items, SameBarrier(i), active[c], active'[c],
           work[c] = i, work'[c] = i, NEW l, pc'[c] = l, Onward(c, l)
    PROVE  RoundFits(i)'
  <1>1. /\ item'[i].event = item[i].event /\ item'[i].members = item[i].members
        /\ item'[i].missing = item[i].missing /\ (item[i].post => item'[i].post)
    BY DEF SameBarrier
  <1>2. /\ RoundFits(i) /\ ActivesFit /\ item[i].members \in SUBSET Cpus
        /\ c \in item[i].members
    BY DEF HeldInd, BarrierFits, DeferredInd, DeferredTypes, ItemType,
           ActivesFit
  <1>3. item[i].event # 0
    <2> SUFFICES ASSUME item[i].event = 0 PROVE FALSE
      OBVIOUS
    <2>1. Round0(i)
      BY <1>2 DEF RoundFits
    <2> QED BY <2>1 DEF Round0, Waiting, Onward
  <1>4. ASSUME item[i].event = 1 PROVE Round1(i)'
    <2>1. Round1(i)
      BY <1>2, <1>4 DEF RoundFits
    <2>2. /\ pc[c] \in {"sync_pre", "master_pre", "wait_pre", "main", "winkled"}
          /\ l \in {"master_pre", "wait_pre", "main", "winkled", "arrive_post"}
      BY <1>2, <1>4, <2>1 DEF Round1, Waiting, Onward
    <2>3. Waiting(i, "sync_post")' = Waiting(i, "sync_post")
      BY <2>2 DEF Waiting, Others
    <2>4. \A d \in item'[i].members :
             /\ active'[d] /\ work'[d] = i
             /\ pc'[d] \notin {"arrive_pre", "master_post", "wait_post",
                              "complete", "cleanup"}
      BY <1>1, <1>2, <2>1, <2>2 DEF Round1, Others
    <2>5. \A d \in Waiting(i, "sync_post") : local'[d] = 1
      BY <2>1, <2>2 DEF Round1, Others, Waiting
    <2>6. item'[i].missing + Cardinality(Waiting(i, "sync_post"))
            = Cardinality(item'[i].members)
      BY <1>1, <2>1 DEF Round1
    <2> QED BY <2>3, <2>4, <2>5, <2>6 DEF Round1
  <1>5. ASSUME item[i].event = 2 PROVE Round2(i)'
    <2>1. Round2(i)
      BY <1>2, <1>5 DEF RoundFits
    <2>2. l \in AfterSync
      BY <2>1 DEF Round2, AfterSync, Onward
    <2>3. \A d \in Cpus : active'[d] /\ work'[d] = i => pc'[d] \in AfterSync
      BY <2>1, <2>2 DEF Round2, Others
    <2>4. ~item'[i].post => \A d \in item'[i].members :
                               active'[d] /\ work'[d] = i
      BY <1>1, <1>2, <2>1 DEF Round2, Others
    <2> QED BY <2>3, <2>4 DEF Round2
  <1>6. item'[i].event \in 0..2
    BY <1>1, <1>2 DEF RoundFits
  <1>7. item'[i].event # 0
    BY <1>1, <1>3
  <1> QED BY <1>1, <1>4, <1>5, <1>6, <1>7 DEF RoundFits

(* A CPU goes on, outside, or inside an item and past its barriers.        *)
AtBarriers == {"arrive_pre", "sync_pre", "winkled", "arrive_post", "sync_post"}

GoesOn(c, l) ==
    /\ pc' = [pc EXCEPT ![c] = l] /\ work' = work /\ active' = active
    /\ \A d \in Cpus \ {c} : local'[d] = local[d]
    /\ SeqStep /\ \A i \in Items : SameBarrier(i)
    /\ \/ pc[c] \in Outside /\ l \in Outside
       \/ pc[c] \in InItem /\ active[c] /\ Onward(c, l)
       \/ /\ pc[c] \in InItem /\ ~active[c]
          /\ l \in InItem \ AtBarriers

(* All that goes on without changing a barrier keeps the invariant.        *)
LEMMA GoesOnHeld ==
    ASSUME DeferredInd, HeldInd, NEW c \in Cpus, NEW l, GoesOn(c, l), PreFits'
    PROVE  HeldInd'
  <1>1. /\ pc'[c] = l /\ work'[c] = work[c] /\ active'[c] = active[c]
        /\ Others(c)
    BY DEF GoesOn, Others, DeferredInd, DeferredTypes
  <1>2. SeqFits'
    BY SeqFitsNext DEF GoesOn, HeldInd
  <1>3. ActivesFit'
    <2>1. ActivesFit /\ \A d \in Cpus : pc[d] \in InItem => work[d] \in Items
      BY DEF HeldInd, DeferredInd, WorkIsHeadOrDone
    <2>2. active[c] => l \in InItem \ {"start"}
      BY <2>1 DEF ActivesFit, GoesOn, Onward, Outside, InItem
    <2>3. l \in AtBarriers => active[c]
      BY DEF GoesOn, Outside, AtBarriers
    <2>4. \A d \in Cpus : active[d] =>
             item'[work[d]].members = item[work[d]].members
      BY <2>1 DEF GoesOn, SameBarrier, ActivesFit
    <2>5. active' \in [Cpus -> BOOLEAN]
      BY <2>1 DEF GoesOn, ActivesFit
    <2>6. \A d \in Cpus : active'[d] =>
             pc'[d] \in InItem \ {"start"} /\ d \in item'[work'[d]].members
      BY <1>1, <2>1, <2>2, <2>4 DEF ActivesFit, Others
    <2>7. \A d \in Cpus : pc'[d] \in AtBarriers => active'[d]
      BY <1>1, <2>1, <2>3 DEF ActivesFit, Others, AtBarriers
    <2> QED BY <2>5, <2>6, <2>7 DEF ActivesFit, AtBarriers
  <1>4. ASSUME NEW i \in Items PROVE RoundFits(i)'
    <2>1. SameBarrier(i)
      BY DEF GoesOn
    <2>2. CASE active[c] /\ work[c] = i
      <3>1. Onward(c, l)
        BY <2>2 DEF HeldInd, ActivesFit, GoesOn, Outside, InItem
      <3> QED BY <1>1, <2>1, <2>2, <3>1, RoundMoved
    <2>3. CASE ~(active[c] /\ work[c] = i)
      BY <1>1, <1>3, <2>1, <2>3, RoundKept
    <2> QED BY <2>2, <2>3
  <1> QED BY <1>2, <1>3, <1>4 DEF HeldInd, BarrierFits

(* iv_releasePre stays as it is, and who is behind it stays behind it.     *)
LEMMA PreFitsKept ==
    ASSUME DeferredInd, HeldInd, NEW c \in Cpus, NEW l,
           pc' = [pc EXCEPT ![c] = l], work' = work,
           \A i \in Items :
              /\ item'[i].pre = item[i].pre
              /\ item'[i].state \in Pending => item[i].state \in Pending,
           l \in AfterPre => pc[c] \in InItem /\ item[work[c]].pre,
           pc[c] \in AfterPre => l \in AfterPre
    PROVE  PreFits'
  <1>1. /\ PreFits /\ pc \in [Cpus -> Labels] /\ Master \in Cpus
        /\ \A d \in Cpus : pc[d] \in InItem => work[d] \in Items
    BY DeferredAssumption
       DEF HeldInd, DeferredInd, DeferredTypes, WorkIsHeadOrDone
  <1>2. pc'[c] = l /\ \A d \in Cpus \ {c} : pc'[d] = pc[d]
    BY <1>1
  <1>3. AfterPre \subseteq InItem
    BY DEF AfterPre, InItem
  <1>4. ASSUME NEW d \in Cpus, pc'[d] \in AfterPre PROVE item'[work'[d]].pre
    <2>1. work[d] \in Items /\ item[work[d]].pre
      BY <1>1, <1>2, <1>3, <1>4 DEF PreFits
    <2> QED BY <2>1
  <1>5. ASSUME NEW i \in Items, item'[i].state \in Pending, item'[i].pre
        PROVE  work'[Master] = i /\ pc'[Master] \in AfterPre
    <2>1. work[Master] = i /\ pc[Master] \in AfterPre
      BY <1>1, <1>5 DEF PreFits
    <2> QED BY <1>1, <1>2, <2>1
  <1> QED BY <1>4, <1>5 DEF PreFits

(* The steps that change no item.                                          *)
LEMMA QuietHeld ==
    ASSUME DeferredInd, HeldInd, NEW c \in Cpus,
           \/ activateCPU(c) \/ EnterKernel(c) \/ WaitAtPre(c) \/ MainWork(c)
           \/ Winkle(c) \/ WakeUp(c) \/ WaitAtPost(c)
           \/ Spin(c, "sync_pre", AtPre(c)) \/ Spin(c, "sync_post", AtPost(c))
           \/ (Execute(c) /\ head.next = NULL)
    PROVE  HeldInd'
  <1>1. /\ item' = item /\ work' = work /\ active' = active /\ local' = local
    BY DEF activateCPU, EnterKernel, WaitAtPre, MainWork, Winkle, WakeUp,
           WaitAtPost, Spin, Execute
  <1>2. /\ pc \in [Cpus -> Labels] /\ seq \in Nat /\ seqid \in [Cpus -> Nat]
        /\ ActivesFit /\ PreFits
    BY DEF DeferredInd, DeferredTypes, HeldInd, SeqFits
  <1>3. \A i \in Items : SameBarrier(i)
    BY <1>1 DEF SameBarrier
  <1>4. ASSUME seq' = seq, seqid' = seqid, NEW l, pc' = [pc EXCEPT ![c] = l],
               pc[c] \notin {"off", "winkled"}
        PROVE  SeqStep
    <2>1. \A d \in Cpus : pc'[d] = "off" \/ pc[d] # "off"
      BY <1>2, <1>4
    <2>2. \A d \in Cpus : pc'[d] = "winkled" \/ pc[d] # "winkled"
      BY <1>2, <1>4
    <2>3. \A d \in Cpus : pc[d] = "off" => pc'[d] = "off"
      BY <1>2, <1>4
    <2> QED BY <1>2, <1>4, <2>1, <2>2, <2>3 DEF SeqStep
  <1>5. ASSUME NEW l, pc' = [pc EXCEPT ![c] = l], SeqStep,
               \/ pc[c] \in Outside /\ l \in Outside
               \/ pc[c] \in InItem /\ active[c] /\ Onward(c, l)
               \/ pc[c] \in InItem /\ ~active[c] /\ l \in InItem \ AtBarriers,
               l \in AfterPre => item[work[c]].pre,
               pc[c] \in AfterPre => l \in AfterPre
        PROVE  HeldInd'
    <2>1. GoesOn(c, l)
      BY <1>1, <1>3, <1>5 DEF GoesOn
    <2>2. l \in AfterPre => pc[c] \in InItem
      BY <1>5 DEF AfterPre, Outside
    <2>3. PreFits'
      BY <1>1, <1>5, <2>2, PreFitsKept
    <2> QED BY <2>1, <2>3, GoesOnHeld
  <1>6. CASE EnterKernel(c) \/ (Execute(c) /\ head.next = NULL)
    <2>1. PICK l \in {"execute", "user"} : pc' = [pc EXCEPT ![c] = l]
      BY <1>6 DEF EnterKernel, Execute, Goto
    <2>2. /\ pc[c] \in {"user", "execute"} /\ seq' = seq /\ seqid' = seqid
      BY <1>6 DEF EnterKernel, Execute
    <2>3. SeqStep
      BY <1>4, <2>1, <2>2
    <2> QED BY <1>5, <2>1, <2>2, <2>3 DEF Outside, AfterPre
  <1>7. CASE activateCPU(c)
    <2>1. /\ pc[c] = "off" /\ pc' = [pc EXCEPT ![c] = "execute"]
          /\ seq' = seq + 1 /\ seqid' = [seqid EXCEPT ![c] = seq + 1]
      BY <1>7 DEF activateCPU, Goto
    <2>2. SeqStep
      BY <1>2, <2>1 DEF SeqStep
    <2> QED BY <1>5, <2>1, <2>2 DEF Outside, AfterPre
  <1>8. CASE WakeUp(c)
    <2>1. /\ pc[c] = "winkled" /\ pc' = [pc EXCEPT ![c] = "arrive_post"]
          /\ seq' = seq + 1 /\ seqid' = [seqid EXCEPT ![c] = seq + 1]
      BY <1>8 DEF WakeUp, Goto
    <2>2. SeqStep
      BY <1>2, <2>1 DEF SeqStep
    <2>3. active[c] /\ item[work[c]].pre
      BY <1>2, <2>1 DEF ActivesFit, PreFits, AfterPre
    <2> QED BY <1>5, <2>1, <2>2, <2>3 DEF Onward, AfterPre, InItem
  <1>9. CASE Winkle(c)
    <2>1. /\ pc[c] = "main"
          /\ pc' = [pc EXCEPT ![c] = IF active[c] THEN "winkled" ELSE "assert"]
          /\ seqid' = seqid /\ seq' \in {seq, seq + 1}
      BY <1>2, <1>9 DEF Winkle, Goto
    <2>2. SeqStep
      <3>1. seq' \in Nat /\ seq <= seq' /\ seqid' \in [Cpus -> Nat]
        BY <1>2, <2>1
      <3>2. \A d \in Cpus : \/ pc'[d] \in {"off", "winkled"}
                            \/ pc[d] \notin {"off", "winkled"}
        BY <1>2, <2>1
      <3> QED BY <2>1, <3>1, <3>2 DEF SeqStep
    <2>3. item[work[c]].pre
      BY <1>2, <2>1 DEF PreFits, AfterPre
    <2>4. CASE active[c]
      BY <1>5, <2>1, <2>2, <2>3, <2>4 DEF Onward, AfterPre, InItem
    <2>5. CASE ~active[c]
      BY <1>5, <2>1, <2>2, <2>3, <2>5 DEF AfterPre, InItem, AtBarriers
    <2> QED BY <2>4, <2>5
  <1>10. CASE \/ Spin(c, "sync_pre", AtPre(c)) \/ WaitAtPre(c)
    <2>1. PICK l \in {"master_pre", "wait_pre", "main"} :
             /\ pc' = [pc EXCEPT ![c] = l] /\ seq' = seq /\ seqid' = seqid
             /\ \/ /\ pc[c] = "sync_pre" /\ item[work[c]].event # local[c]
                   /\ l \in {"master_pre", "wait_pre"}
                \/ pc[c] = "wait_pre" /\ item[work[c]].pre /\ l = "main"
      BY <1>10 DEF Spin, WaitAtPre, Goto, AtPre
    <2>2. SeqStep
      BY <1>4, <2>1
    <2>3. pc[c] = "sync_pre" => active[c]
      BY <1>2 DEF ActivesFit
    <2>4. CASE active[c]
      BY <1>5, <2>1, <2>2, <2>4 DEF Onward, AfterPre, InItem
    <2>5. CASE ~active[c]
      BY <1>5, <2>1, <2>2, <2>3, <2>5 DEF AfterPre, InItem, AtBarriers
    <2> QED BY <2>4, <2>5
  <1>11. CASE MainWork(c)
    <2>1. PICK l \in {"arrive_post", "master_post", "wait_post"} :
             /\ pc' = [pc EXCEPT ![c] = l] /\ seq' = seq /\ seqid' = seqid
             /\ pc[c] = "main"
             /\ active[c] => l = "arrive_post"
             /\ ~active[c] => l # "arrive_post"
      BY <1>11 DEF MainWork, Goto, AtPost
    <2>2. SeqStep
      BY <1>4, <2>1
    <2>3. item[work[c]].pre
      BY <1>2, <2>1 DEF PreFits, AfterPre
    <2>4. CASE active[c]
      BY <1>5, <2>1, <2>2, <2>3, <2>4 DEF Onward, AfterPre, InItem
    <2>5. CASE ~active[c]
      BY <1>5, <2>1, <2>2, <2>3, <2>5 DEF AfterPre, InItem, AtBarriers
    <2> QED BY <2>4, <2>5
  <1>12. CASE \/ Spin(c, "sync_post", AtPost(c)) \/ WaitAtPost(c)
    <2>1. PICK l \in {"master_post", "wait_post", "cleanup"} :
             /\ pc' = [pc EXCEPT ![c] = l] /\ seq' = seq /\ seqid' = seqid
             /\ \/ /\ pc[c] = "sync_post" /\ item[work[c]].event # local[c]
                   /\ l \in {"master_post", "wait_post"}
                \/ pc[c] = "wait_post" /\ l = "cleanup"
      BY <1>12 DEF Spin, WaitAtPost, Goto, AtPost
    <2>2. SeqStep
      BY <1>4, <2>1
    <2>3. pc[c] = "sync_post" => active[c]
      BY <1>2 DEF ActivesFit
    <2>4. item[work[c]].pre
      BY <1>2, <2>1 DEF PreFits, AfterPre
    <2>5. CASE active[c]
      BY <1>5, <2>1, <2>2, <2>4, <2>5 DEF Onward, AfterPre, InItem
    <2>6. CASE ~active[c]
      BY <1>5, <2>1, <2>2, <2>3, <2>4, <2>6 DEF AfterPre, InItem, AtBarriers
    <2> QED BY <2>5, <2>6
  <1> QED BY <1>6, <1>7, <1>8, <1>9, <1>10, <1>11, <1>12

(* The master's steps that set iv_releasePre, take the item off the queue  *)
(* and set iv_releasePost.                                                 *)
LEMMA MasterHeld ==
    ASSUME DeferredInd, HeldInd, NEW c \in Cpus,
           MasterPre(c) \/ Complete(c) \/ CompleteWait(c)
    PROVE  HeldInd'
  <1>0. PICK i \in Items : i = work[c]
    BY DEF DeferredInd, WorkIsHeadOrDone, MasterPre, Complete, CompleteWait,
           InItem
  <1>1. /\ item \in [Items -> ItemType] /\ pc \in [Cpus -> Labels]
        /\ local \in [Cpus -> Nat] /\ seq \in Nat /\ seqid \in [Cpus -> Nat]
        /\ ActivesFit /\ PreFits
        /\ \A d \in Cpus : pc[d] \in InItem => work[d] \in Items
    BY DEF DeferredInd, DeferredTypes, HeldInd, SeqFits, WorkIsHeadOrDone
  <1>2. PICK l \in {"main", "complete", "cleanup"} :
            /\ pc' = [pc EXCEPT ![c] = l]
            /\ \/ pc[c] = "master_pre" /\ l = "main"
                  /\ item' = [item EXCEPT ![i].pre = TRUE]
               \/ pc[c] = "master_post" /\ l = "complete"
                  /\ item' = [item EXCEPT ![i].next = NULL,
                                          ![i].state = "done"]
               \/ pc[c] = "complete" /\ l = "cleanup"
                  /\ item' = [item EXCEPT ![i].post = TRUE]
    BY <1>0 DEF MasterPre, Complete, CompleteWait, Goto
  <1>3. /\ work' = work /\ active' = active /\ seq' = seq /\ seqid' = seqid
        /\ \A d \in Cpus \ {c} : local'[d] = local[d]
    BY <1>1 DEF MasterPre, Complete, CompleteWait
  <1>4. c = Master /\ item[i].state \in {"queued", "done"}
    BY <1>0, <1>2 DEF DeferredInd, WorkIsHeadOrDone, InItem
  <1>5. /\ \A j \in Items : /\ SameBarrier(j)
                            /\ j # i => item'[j] = item[j]
                            /\ item'[j].state \in Pending =>
                                  item[j].state \in Pending
        /\ l = "main" => item'[i].pre
        /\ l # "main" => item'[i].pre = item[i].pre
    <2>1. CASE item' = [item EXCEPT ![i].pre = TRUE] /\ l = "main"
      BY <1>1, <2>1 DEF SameBarrier, ItemType, Pending
    <2>2. CASE /\ item' = [item EXCEPT ![i].next = NULL, ![i].state = "done"]
               /\ l # "main"
      BY <1>1, <1>4, <2>2 DEF SameBarrier, ItemType, Pending
    <2>3. CASE item' = [item EXCEPT ![i].post = TRUE] /\ l # "main"
      BY <1>1, <2>3 DEF SameBarrier, ItemType, Pending
    <2> QED BY <1>2, <2>1, <2>2, <2>3
  <1>6. SeqStep
    <2>1. \A d \in Cpus : \/ pc'[d] \in {"off", "winkled"}
                          \/ pc[d] \notin {"off", "winkled"}
      BY <1>1, <1>2
    <2> QED BY <1>1, <1>3, <2>1 DEF SeqStep
  <1>7. GoesOn(c, l)
    <2>1. pc[c] \in InItem /\ Onward(c, l) /\ l \in InItem \ AtBarriers
      BY <1>2 DEF InItem, Onward, AtBarriers
    <2> QED BY <1>2, <1>3, <1>5, <1>6, <2>1 DEF GoesOn
  <1>8. PreFits'
    <2>1. pc'[c] = l /\ \A d \in Cpus \ {c} : pc'[d] = pc[d]
      BY <1>1, <1>2
    <2>2. l # "main" => item[i].pre
      BY <1>0, <1>1, <1>2 DEF PreFits, AfterPre
    <2>3. item'[i].pre
      BY <1>5, <2>2
    <2>4. ASSUME NEW d \in Cpus, pc'[d] \in AfterPre
          PROVE  item'[work'[d]].pre
      <3>1. CASE work[d] = i
        BY <1>3, <2>3, <3>1
      <3>2. CASE work[d] # i
        <4>1. d # c /\ pc[d] \in AfterPre /\ work[d] \in Items
          BY <1>0, <1>1, <2>1, <2>4, <3>2 DEF AfterPre, InItem
        <4> QED BY <1>1, <1>3, <1>5, <3>2, <4>1 DEF PreFits
      <3> QED BY <3>1, <3>2
    <2>5. ASSUME NEW j \in Items, item'[j].state \in Pending, item'[j].pre
          PROVE  work'[Master] = j /\ pc'[Master] \in AfterPre
      <3>1. CASE j = i
        BY <1>0, <1>2, <1>3, <1>4, <2>1, <3>1 DEF AfterPre
      <3>2. CASE j # i
        <4>1. work[Master] = j
          BY <1>1, <1>5, <2>5, <3>2 DEF PreFits
        <4> QED BY <1>0, <1>4, <3>2, <4>1
      <3> QED BY <3>1, <3>2
    <2> QED BY <2>4, <2>5 DEF PreFits
  <1> QED BY <1>7, <1>8, GoesOnHeld

-----------------------------------------------------------------------------
(* One CPU more or less is active, and the others' items keep their        *)
(* members.                                                                *)
LEMMA ActivesFitKept ==
    ASSUME HeldInd, NEW c \in Cpus, Others(c), active' \in [Cpus -> BOOLEAN],
           \A d \in Cpus \ {c} : active[d] =>
              item'[work[d]].members = item[work[d]].members,
           active'[c] => /\ pc'[c] \in InItem \ {"start"}
                         /\ c \in item'[work'[c]].members,
           pc'[c] \in AtBarriers => active'[c]
    PROVE  ActivesFit'
  <1>1. ActivesFit
    BY DEF HeldInd
  <1>2. \A d \in Cpus : active'[d] =>
           pc'[d] \in InItem \ {"start"} /\ d \in item'[work'[d]].members
    BY <1>1 DEF ActivesFit, Others
  <1>3. \A d \in Cpus : pc'[d] \in AtBarriers => active'[d]
    BY <1>1 DEF ActivesFit, Others, AtBarriers
  <1> QED BY <1>2, <1>3 DEF ActivesFit, AtBarriers

(* No item that is queued is released, and the master does not leave one   *)
(* that is.                                                                *)
LEMMA PreFitsElsewhere ==
    ASSUME DeferredInd, HeldInd, NEW c \in Cpus, Others(c),
           \A d \in Cpus \ {c} : pc[d] \in AfterPre /\ item[work[d]].pre =>
              item'[work[d]].pre,
           pc'[c] \in AfterPre => item'[work'[c]].pre,
           \A i \in Items : item'[i].state \in Pending /\ item'[i].pre =>
              item[i].state \in Pending /\ item[i].pre,
           pc[c] \in AfterPre /\ item[work[c]].state \in Pending =>
              pc'[c] \in AfterPre /\ work'[c] = work[c]
    PROVE  PreFits'
  <1>1. PreFits /\ Master \in Cpus
    BY DeferredAssumption DEF HeldInd
  <1>2. \A d \in Cpus : pc'[d] \in AfterPre => item'[work'[d]].pre
    BY <1>1 DEF PreFits, Others
  <1>3. ASSUME NEW i \in Items, item'[i].state \in Pending, item'[i].pre
        PROVE  work'[Master] = i /\ pc'[Master] \in AfterPre
    <2>1. /\ work[Master] = i /\ pc[Master] \in AfterPre
          /\ item[i].state \in Pending
      BY <1>1, <1>3 DEF PreFits
    <2> QED BY <1>1, <2>1 DEF Others
  <1> QED BY <1>2, <1>3 DEF PreFits

(* An item's barrier before anybody has come to it.                        *)
LEMMA RoundFresh ==
    ASSUME NEW i \in Items, ActivesFit', item'[i].event = 0,
           item'[i].missing = Cardinality(item'[i].members),
           IsFiniteSet(item'[i].members),
           \A d \in Cpus : ~(active'[d] /\ work'[d] = i)
    PROVE  RoundFits(i)'
  <1>1. Waiting(i, "sync_pre")' = {}
    BY DEF Waiting, ActivesFit
  <1>2. item'[i].missing + Cardinality(Waiting(i, "sync_pre")')
          = Cardinality(item'[i].members)
    <2>1. Cardinality(Waiting(i, "sync_pre")') = 0
      BY <1>1, FS_EmptySet
    <2>2. Cardinality(item'[i].members) \in Nat
      BY FS_CardinalityType
    <2> QED BY <2>1, <2>2
  <1>3. Round0(i)'
    BY <1>1, <1>2 DEF Round0
  <1> QED BY <1>3 DEF RoundFits

(* A CPU gets a pointer to the first item.                                 *)
LEMMA ExecuteHeld ==
    ASSUME DeferredInd, HeldInd, NEW c \in Cpus, Execute(c), head.next # NULL
    PROVE  HeldInd'
  <1>1. /\ pc \in [Cpus -> Labels] /\ work \in [Cpus -> Items \cup {NULL}]
        /\ seq \in Nat /\ seqid \in [Cpus -> Nat] /\ ActivesFit
        /\ pc[c] = "execute"
    BY DEF DeferredInd, DeferredTypes, HeldInd, SeqFits, Execute
  <1>2. /\ pc' = [pc EXCEPT ![c] = "start"]
        /\ work' = [work EXCEPT ![c] = head.next]
        /\ item' = item /\ seq' = seq /\ seqid' = seqid /\ local' = local
        /\ active' = active
    BY DEF Execute, Goto
  <1>3. /\ Others(c) /\ pc'[c] = "start"
        /\ \A i \in Items : SameBarrier(i)
        /\ ~active[c] /\ ~active'[c]
    BY <1>1, <1>2 DEF Others, SameBarrier, ActivesFit, InItem
  <1>4. SeqFits'
    <2>1. SeqStep
      BY <1>1, <1>2 DEF SeqStep
    <2> QED BY <1>3, <2>1, SeqFitsNext DEF HeldInd
  <1>5. ActivesFit'
    BY <1>1, <1>2, <1>3, ActivesFitKept DEF ActivesFit, AtBarriers
  <1>6. PreFits'
    BY <1>1, <1>2, <1>3, PreFitsElsewhere DEF AfterPre
  <1>7. \A i \in Items : RoundFits(i)'
    BY <1>3, <1>5, RoundKept
  <1> QED BY <1>4, <1>5, <1>6, <1>7 DEF HeldInd, BarrierFits

(* A CPU gets into the item.  It takes part in the item's barriers only if *)
(* they count on it, and then it is the first time that it comes.          *)
LEMMA StartHeld ==
    ASSUME DeferredInd, HeldInd, NEW c \in Cpus, Start(c)
    PROVE  HeldInd'
  <1>0. PICK i \in Items : i = work[c]
    BY DEF DeferredInd, WorkIsHeadOrDone, Start, InItem
  <1>1. /\ item \in [Items -> ItemType] /\ pc \in [Cpus -> Labels]
        /\ seq \in Nat /\ seqid \in [Cpus -> Nat] /\ ActivesFit
        /\ pc[c] = "start" /\ item[i].state # "free" /\ c \in Inside(i)
        /\ \A d \in Cpus : pc[d] \in InItem => work[d] \in Items
    BY <1>0 DEF DeferredInd, DeferredTypes, HeldInd, SeqFits, Start,
                WorkIsHeadOrDone, InItem, Inside
  <1>2. PICK l \in {"arrive_pre", "master_pre", "wait_pre"} :
            /\ pc' = [pc EXCEPT ![c] = l]
            /\ active'[c] <=> l = "arrive_pre"
    BY DEF Start, Goto, AtPre
  <1>3. /\ item' = [item EXCEPT ![i].cpus = @ + 1] /\ work' = work
        /\ seq' = seq /\ seqid' = seqid /\ local' = local
        /\ active' = [active EXCEPT ![c] = seqid[c] <= item[i].activeSeq]
    BY <1>0 DEF Start
  <1>4. active' \in [Cpus -> BOOLEAN]
          /\ \A d \in Cpus \ {c} : active'[d] = active[d]
    BY <1>1, <1>3 DEF ActivesFit
  <1>5. Others(c) /\ pc'[c] = l
    BY <1>1, <1>2, <1>3, <1>4 DEF Others
  <1>6. \A j \in Items : /\ SameBarrier(j) /\ item'[j].pre = item[j].pre
                         /\ item'[j].post = item[j].post
                         /\ item'[j].state = item[j].state
    BY <1>1, <1>3 DEF SameBarrier, ItemType
  <1>7. active'[c] => c \in item[i].members
    <2>1. active'[c] => seqid[c] <= item[i].activeSeq
      BY <1>1, <1>3 DEF ActivesFit
    <2> QED BY <1>1, <2>1 DEF HeldInd, SeqFits
  <1>8. SeqFits'
    <2>1. SeqStep
      BY <1>1, <1>2, <1>3 DEF SeqStep
    <2> QED BY <1>6, <2>1, SeqFitsNext DEF HeldInd
  <1>9. ActivesFit'
    <2>1. \A d \in Cpus : active[d] =>
             item'[work[d]].members = item[work[d]].members
      BY <1>1, <1>6 DEF ActivesFit, SameBarrier
    <2>2. active'[c] => /\ pc'[c] \in InItem \ {"start"}
                        /\ c \in item'[work'[c]].members
      BY <1>0, <1>2, <1>3, <1>5, <1>6, <1>7 DEF SameBarrier, InItem
    <2>3. pc'[c] \in AtBarriers => active'[c]
      BY <1>2, <1>5 DEF AtBarriers
    <2> QED BY <1>4, <1>5, <2>1, <2>2, <2>3, ActivesFitKept
  <1>10. PreFits'
    <2>1. pc'[c] \notin AfterPre /\ pc[c] \notin AfterPre
      BY <1>1, <1>2, <1>5 DEF AfterPre
    <2>2. \A d \in Cpus : pc[d] \in AfterPre => work[d] \in Items
      BY <1>1 DEF AfterPre, InItem
    <2> QED BY <1>5, <1>6, <2>1, <2>2, PreFitsElsewhere
  <1>11. ASSUME NEW j \in Items PROVE RoundFits(j)'
    <2>0. ~active[c]
      BY <1>1 DEF ActivesFit
    <2>1. CASE ~(active'[c] /\ work[c] = j)
      BY <1>3, <1>5, <1>6, <1>9, <2>0, <2>1, RoundKept
    <2>2. CASE active'[c] /\ j = i
      <3>1. l = "arrive_pre" /\ c \in item[i].members
        BY <1>2, <1>7, <2>2
      <3>2. /\ RoundFits(i) /\ item'[i].event = item[i].event
            /\ item'[i].missing = item[i].missing
            /\ item'[i].members = item[i].members
        BY <1>6 DEF HeldInd, BarrierFits, SameBarrier
      <3>3. item[i].event # 1
        BY <1>1, <2>0, <3>1, <3>2 DEF RoundFits, Round1
      <3>4. item[i].event # 2
        <4> SUFFICES ASSUME item[i].event = 2 PROVE FALSE
          OBVIOUS
        <4>1. item[i].post
          BY <2>0, <3>1, <3>2 DEF RoundFits, Round2
        <4>2. c \in Entered(i)
          BY <1>1, <4>1 DEF DeferredInd, NobodyLeavesBefore
        <4> QED BY <1>1, <4>2 DEF Entered
      <3>5. item[i].event = 0 /\ Round0(i)
        BY <3>2, <3>3, <3>4 DEF RoundFits
      <3>6. /\ Waiting(i, "sync_pre")' = Waiting(i, "sync_pre")
            /\ \A d \in Waiting(i, "sync_pre") : local'[d] = 0
        BY <1>1, <1>3, <1>5, <3>1, <3>5 DEF Waiting, Others, Round0
      <3>7. \A d \in Cpus : active'[d] /\ work'[d] = i =>
               pc'[d] \in {"arrive_pre", "sync_pre"}
        BY <1>3, <1>5, <3>1, <3>5 DEF Others, Round0
      <3>8. item'[i].missing + Cardinality(Waiting(i, "sync_pre"))
              = Cardinality(item'[i].members)
        BY <3>2, <3>5 DEF Round0
      <3>9. Round0(i)'
        BY <3>6, <3>7, <3>8 DEF Round0
      <3> QED BY <2>2, <3>2, <3>5, <3>9 DEF RoundFits
    <2> QED BY <1>0, <2>1, <2>2
  <1> QED BY <1>8, <1>9, <1>10, <1>11 DEF HeldInd, BarrierFits

(* Nobody is active in an item that is not in the queue yet.               *)
LEMMA NobodyInside ==
    ASSUME DeferredInd, HeldInd, NEW i \in Items,
           item[i].state \in {"free", "new"}, NEW d \in Cpus
    PROVE  /\ ~(active[d] /\ work[d] = i) /\ ~(pc[d] \in InItem /\ work[d] = i)
           /\ pc[d] \in AfterPre => work[d] \in Items \ {i}
  BY DEF DeferredInd, HeldInd, ActivesFit, WorkIsHeadOrDone, AfterPre, InItem

(* The barrier of a new item counts on the CPUs that are online.           *)
LEMMA CreateHeld ==
    ASSUME DeferredInd, HeldInd, NEW c \in Cpus, NEW i \in Items, Create(c, i)
    PROVE  HeldInd'
  <1>1. /\ item \in [Items -> ItemType] /\ pc \in [Cpus -> Labels]
        /\ work \in [Cpus -> Items \cup {NULL}]
        /\ seq \in Nat /\ seqid \in [Cpus -> Nat] /\ ActivesFit
        /\ pc[c] = "user" /\ item[i].state = "free"
    BY DEF DeferredInd, DeferredTypes, HeldInd, SeqFits, Create
  <1>2. PICK b \in BOOLEAN :
          item' = [item EXCEPT ![i] =
                      Item("new", seq, Cardinality(Active), b, Active)]
    BY DEF Create
  <1>3. /\ work' = [work EXCEPT ![c] = i] /\ pc' = [pc EXCEPT ![c] = "insert"]
        /\ seq' = seq /\ seqid' = seqid /\ local' = local /\ active' = active
    BY DEF Create, Goto
  <1> DEFINE r == Item("new", seq, Cardinality(Active), b, Active)
  <1>4. /\ r.state = "new" /\ r.activeSeq = seq /\ r.members = Active
        /\ r.count = Cardinality(Active) /\ r.missing = Cardinality(Active)
        /\ r.event = 0 /\ r.pre = FALSE
    BY DEF Item
  <1> HIDE DEF r
  <1>5. item'[i] = r /\ \A j \in Items \ {i} : item'[j] = item[j]
    BY <1>1, <1>2 DEF r
  <1>6. /\ Others(c) /\ pc'[c] = "insert" /\ ~active[c] /\ ~active'[c]
        /\ \A j \in Items \ {i} : SameBarrier(j)
    BY <1>1, <1>3, <1>5 DEF Others, ActivesFit, InItem, SameBarrier
  <1>7. \A d \in Cpus : /\ ~(active[d] /\ work[d] = i)
                        /\ pc[d] \in AfterPre => work[d] \in Items \ {i}
    BY <1>1, NobodyInside
  <1>8. SeqFits'
    <2>1. ASSUME NEW j \in Items
          PROVE  /\ item'[j].activeSeq <= seq'
                 /\ item'[j].count = Cardinality(item'[j].members)
      <3>1. CASE j = i
        BY <1>1, <1>3, <1>4, <1>5, <3>1
      <3>2. CASE j # i
        BY <1>3, <1>5, <3>2 DEF HeldInd, SeqFits
      <3> QED BY <3>1, <3>2
    <2>2. ASSUME NEW j \in Items, NEW d \in Cpus,
                 seqid'[d] <= item'[j].activeSeq
          PROVE  \/ item'[j].state = "free" \/ pc'[d] \in {"off", "winkled"}
                 \/ d \in item'[j].members
      <3>0. pc'[d] \in {"off", "winkled"} <=> pc[d] \in {"off", "winkled"}
        BY <1>1, <1>3
      <3>1. CASE j = i
        BY <1>4, <1>5, <3>0, <3>1 DEF Active
      <3>2. CASE j # i
        BY <1>3, <1>5, <2>2, <3>0, <3>2 DEF HeldInd, SeqFits
      <3> QED BY <3>1, <3>2
    <2> QED BY <1>1, <1>3, <2>1, <2>2 DEF SeqFits
  <1>9. ActivesFit'
    <2>1. \A d \in Cpus \ {c} : active[d] =>
              item'[work[d]].members = item[work[d]].members
      <3>1. \A d \in Cpus : active[d] => work[d] \in Items \ {i}
        BY <1>1, <1>7 DEF ActivesFit, DeferredInd, WorkIsHeadOrDone
      <3> QED BY <1>5, <3>1
    <2> QED BY <1>1, <1>3, <1>6, <2>1, ActivesFitKept DEF AtBarriers, ActivesFit
  <1>10. PreFits'
    <2>1. pc'[c] \notin AfterPre /\ pc[c] \notin AfterPre
      BY <1>1, <1>6 DEF AfterPre
    <2>2. \A j \in Items : item'[j].state \in Pending /\ item'[j].pre =>
              item[j].state \in Pending /\ item[j].pre
      BY <1>4, <1>5
    <2>3. \A d \in Cpus \ {c} : pc[d] \in AfterPre /\ item[work[d]].pre =>
              item'[work[d]].pre
      BY <1>5, <1>7
    <2> QED BY <1>6, <2>1, <2>2, <2>3, PreFitsElsewhere
  <1>11. ASSUME NEW j \in Items PROVE RoundFits(j)'
    <2>1. CASE j # i
      BY <1>6, <1>9, <2>1, RoundKept
    <2>2. CASE j = i
      <3>1. Active \in SUBSET Cpus
        BY DEF Active
      <3>2. IsFiniteSet(Active)
        BY <3>1, FS_Subset, DeferredAssumption
      <3>3. \A d \in Cpus : ~(active'[d] /\ work'[d] = i)
        BY <1>6, <1>7 DEF Others
      <3> QED BY <1>4, <1>5, <1>9, <2>2, <3>2, <3>3, RoundFresh
    <2> QED BY <2>1, <2>2
  <1> QED BY <1>8, <1>9, <1>10, <1>11 DEF HeldInd, BarrierFits

(* A deleted item.                                                         *)
LEMMA FreeFields ==
    /\ Free.state = "free" /\ Free.event = 0 /\ Free.missing = 0
    /\ Free.members = {} /\ Free.pre = FALSE
    /\ IsFiniteSet(Free.members) /\ Cardinality(Free.members) = 0
  BY FS_EmptySet DEF Free, Item

(* An item goes into the queue, or is deleted before anybody has seen it.  *)
LEMMA InsertHeld ==
    ASSUME DeferredInd, HeldInd, NEW c \in Cpus, Insert(c)
    PROVE  HeldInd'
  <1>0. PICK i \in Items : i = work[c]
    BY DEF DeferredInd, NewIsPrivate, Insert
  <1>1. /\ item \in [Items -> ItemType] /\ pc \in [Cpus -> Labels]
        /\ work \in [Cpus -> Items \cup {NULL}]
        /\ seq \in Nat /\ seqid \in [Cpus -> Nat] /\ ActivesFit
        /\ pc[c] = "insert" /\ item[i].state = "new"
    BY <1>0 DEF DeferredInd, DeferredTypes, HeldInd, SeqFits, Insert,
                NewIsPrivate
  <1>2. /\ work' = [work EXCEPT ![c] = NULL]
        /\ pc' = [pc EXCEPT ![c] = "execute"]
        /\ seq' = seq /\ seqid' = seqid /\ local' = local /\ active' = active
    BY DEF Insert, Goto
  <1>3. /\ Others(c) /\ pc'[c] = "execute" /\ ~active[c] /\ ~active'[c]
    BY <1>1, <1>2 DEF Others, ActivesFit, InItem
  <1>4. \A d \in Cpus : /\ ~(active[d] /\ work[d] = i)
                        /\ pc[d] \in AfterPre => work[d] \in Items \ {i}
    BY <1>1, NobodyInside
  <1>5. ~item[i].pre
    <2>1. Master \in Cpus /\ PreFits
      BY DeferredAssumption DEF HeldInd
    <2> QED BY <1>1, <1>4, <2>1 DEF PreFits, Pending
  <1>6. /\ \/ SameBarrier(i) /\ item'[i].pre = item[i].pre
           \/ item'[i] = Free
        /\ \A j \in Items \ {i} : /\ SameBarrier(j)
                                  /\ item'[j].pre = item[j].pre
                                  /\ item'[j].state = item[j].state
                                  /\ item'[j].members = item[j].members
    <2>1. CASE item' = [item EXCEPT ![i].state = "queued"]
      BY <1>1, <2>1 DEF SameBarrier, ItemType
    <2>2. CASE head.next # NULL /\ item' = [item EXCEPT ![i].state = "queued",
                                                ![TailItem].next = i]
      <3>1. TailItem \in Items \ {i}
        BY <1>1, <2>2, TailItemExists DEF Queued
      <3> HIDE DEF TailItem
      <3> QED BY <1>1, <2>2, <3>1 DEF SameBarrier, ItemType
    <2>3. CASE item' = [item EXCEPT ![i] = Free]
      <3> HIDE DEF Free
      <3> QED BY <1>1, <2>3 DEF SameBarrier
    <2> QED BY <1>0, <2>1, <2>2, <2>3 DEF Insert
  <1>7. SeqFits'
    <2>1. SeqStep
      BY <1>1, <1>2 DEF SeqStep
    <2>2. \A j \in Items : SameBarrier(j) \/ item'[j] = Free
      BY <1>6
    <2> QED BY <2>1, <2>2, SeqFitsNext DEF HeldInd
  <1>8. ActivesFit'
    <2>1. \A d \in Cpus : active[d] => work[d] \in Items \ {i}
      BY <1>1, <1>4 DEF ActivesFit, DeferredInd, WorkIsHeadOrDone
    <2>2. \A d \in Cpus \ {c} : active[d] =>
             item'[work[d]].members = item[work[d]].members
      BY <1>6, <2>1
    <2> QED BY <1>1, <1>2, <1>3, <2>2, ActivesFitKept DEF AtBarriers, ActivesFit
  <1>9. PreFits'
    <2>1. pc'[c] \notin AfterPre /\ pc[c] \notin AfterPre
      BY <1>1, <1>3 DEF AfterPre
    <2>2. ~item'[i].pre
      BY <1>5, <1>6, FreeFields
    <2>3. \A j \in Items : item'[j].state \in Pending /\ item'[j].pre =>
              item[j].state \in Pending /\ item[j].pre
      BY <1>6, <2>2
    <2>4. \A d \in Cpus \ {c} : pc[d] \in AfterPre /\ item[work[d]].pre =>
              item'[work[d]].pre
      BY <1>4, <1>6
    <2> QED BY <1>3, <2>1, <2>3, <2>4, PreFitsElsewhere
  <1>10. ASSUME NEW j \in Items PROVE RoundFits(j)'
    <2>1. CASE SameBarrier(j)
      BY <1>3, <1>8, <2>1, RoundKept
    <2>2. CASE j = i /\ item'[i] = Free
      <3>1. \A d \in Cpus : ~(active'[d] /\ work'[d] = i)
        BY <1>3, <1>4 DEF Others
      <3> HIDE DEF Free
      <3> QED BY <1>8, <2>2, <3>1, FreeFields, RoundFresh
    <2> QED BY <1>6, <2>1, <2>2
  <1> QED BY <1>7, <1>8, <1>9, <1>10 DEF HeldInd, BarrierFits

(* A CPU leaves the item: the second barrier is over by then, if the CPU   *)
(* took part in it.                                                        *)
LEMMA CleanupHeld ==
    ASSUME DeferredInd, HeldInd, NEW c \in Cpus, Cleanup(c)
    PROVE  HeldInd'
  <1>0. PICK i \in Items : i = work[c]
    BY DEF DeferredInd, WorkIsHeadOrDone, Cleanup, InItem
  <1>1. /\ item \in [Items -> ItemType] /\ pc \in [Cpus -> Labels]
        /\ work \in [Cpus -> Items \cup {NULL}] /\ local \in [Cpus -> Nat]
        /\ seq \in Nat /\ seqid \in [Cpus -> Nat] /\ ActivesFit
        /\ pc[c] = "cleanup"
        /\ \A d \in Cpus : pc[d] \in InItem => work[d] \in Items
    BY DEF DeferredInd, DeferredTypes, HeldInd, SeqFits, Cleanup,
           WorkIsHeadOrDone
  <1>2. /\ item[i].state = "done" /\ item[i].post
        /\ item[i].cpus = 1 => Inside(i) = {c}
    BY <1>0, <1>1, LastOneOut
  <1>3. /\ item' = IF item[i].cpus = 1 THEN [item EXCEPT ![i] = Free]
                                       ELSE [item EXCEPT ![i].cpus = @ - 1]
        /\ work' = [work EXCEPT ![c] = NULL] /\ pc' = [pc EXCEPT ![c] = "user"]
        /\ local' = [local EXCEPT ![c] = 0]
        /\ active' = [active EXCEPT ![c] = FALSE]
        /\ seq' = seq /\ seqid' = seqid
    BY <1>0 DEF Cleanup, Goto
  <1>4. /\ Others(c) /\ pc'[c] = "user" /\ ~active'[c]
        /\ active' \in [Cpus -> BOOLEAN]
    BY <1>1, <1>3 DEF Others, ActivesFit
  <1>5. /\ \/ SameBarrier(i) /\ item'[i].pre = item[i].pre
              /\ item'[i].state = item[i].state
           \/ item'[i] = Free /\ Inside(i) = {c}
        /\ \A j \in Items \ {i} : item'[j] = item[j] /\ SameBarrier(j)
    <2>1. CASE item[i].cpus = 1
      <3>1. item' = [item EXCEPT ![i] = Free]
        BY <1>3, <2>1
      <3> HIDE DEF Free
      <3> QED BY <1>1, <1>2, <2>1, <3>1 DEF SameBarrier
    <2>2. CASE item[i].cpus # 1
      <3>1. item' = [item EXCEPT ![i].cpus = @ - 1]
        BY <1>3, <2>2
      <3> QED BY <1>1, <3>1 DEF SameBarrier, ItemType
    <2> QED BY <2>1, <2>2
  <1>6. SeqFits'
    <2>1. SeqStep
      BY <1>1, <1>3 DEF SeqStep
    <2>2. \A j \in Items : SameBarrier(j) \/ item'[j] = Free
      BY <1>5
    <2> QED BY <2>1, <2>2, SeqFitsNext DEF HeldInd
  <1>8. ActivesFit'
    <2>1. \A d \in Cpus \ {c} : active[d] =>
             item'[work[d]].members = item[work[d]].members
      <3> SUFFICES ASSUME NEW d \in Cpus \ {c}, active[d]
                   PROVE  item'[work[d]].members = item[work[d]].members
        OBVIOUS
      <3>1. pc[d] \in InItem /\ work[d] \in Items
        BY <1>1 DEF ActivesFit
      <3>2. CASE work[d] = i
        <4>1. d \in Inside(i)
          BY <3>1, <3>2 DEF Inside
        <4>2. SameBarrier(i)
          BY <1>5, <4>1
        <4> QED BY <3>2, <4>2 DEF SameBarrier
      <3>3. CASE work[d] # i
        BY <1>5, <3>1, <3>3
      <3> QED BY <3>2, <3>3
    <2> QED BY <1>4, <2>1, ActivesFitKept DEF AtBarriers
  <1>9. PreFits'
    <2>1. pc'[c] \notin AfterPre
      BY <1>4 DEF AfterPre
    <2>2. \A j \in Items : item'[j].state \in Pending /\ item'[j].pre =>
              item[j].state \in Pending /\ item[j].pre
      <3>1. item'[i].state \notin Pending
        BY <1>2, <1>5, FreeFields DEF Pending
      <3> QED BY <1>5, <3>1
    <2>3. ASSUME NEW d \in Cpus \ {c}, pc[d] \in AfterPre, item[work[d]].pre
          PROVE  item'[work[d]].pre
      <3>1. pc[d] \in InItem /\ work[d] \in Items
        BY <1>1, <2>3 DEF AfterPre, InItem
      <3>2. CASE work[d] = i
        <4>1. d \in Inside(i)
          BY <3>1, <3>2 DEF Inside
        <4> QED BY <1>5, <2>3, <3>2, <4>1
      <3>3. CASE work[d] # i
        BY <1>5, <2>3, <3>1, <3>3
      <3> QED BY <3>2, <3>3
    <2>4. item[work[c]].state \notin Pending
      BY <1>0, <1>2 DEF Pending
    <2> QED BY <1>4, <2>1, <2>2, <2>3, <2>4, PreFitsElsewhere
  <1>10. ASSUME NEW j \in Items PROVE RoundFits(j)'
    <2>1. CASE j # i
      BY <1>0, <1>4, <1>5, <1>8, <2>1, RoundKept
    <2>2. CASE j = i /\ item'[i] = Free /\ Inside(i) = {c}
      <3>1. \A d \in Cpus : ~(active'[d] /\ work'[d] = i)
        <4>1. \A d \in Cpus \ {c} : ~(active[d] /\ work[d] = i)
          BY <1>1, <2>2 DEF ActivesFit, Inside
        <4> QED BY <1>4, <4>1 DEF Others
      <3> HIDE DEF Free
      <3> QED BY <1>8, <2>2, <3>1, FreeFields, RoundFresh
    <2>3. CASE j = i /\ SameBarrier(i) /\ ~active[c]
      BY <1>4, <1>8, <2>3, RoundKept
    <2>4. CASE j = i /\ SameBarrier(i) /\ active[c]
      <3>1. /\ RoundFits(i) /\ item'[i].event = item[i].event
            /\ item'[i].post /\ c \in item[i].members
        BY <1>0, <1>1, <1>2, <2>4
           DEF HeldInd, BarrierFits, SameBarrier, ActivesFit
      <3>2. item[i].event # 0 /\ item[i].event # 1
        BY <1>0, <1>1, <2>4, <3>1 DEF RoundFits, Round0, Round1
      <3>3. item[i].event = 2 /\ Round2(i)
        BY <3>1, <3>2 DEF RoundFits
      <3>4. \A d \in Cpus : active'[d] /\ work'[d] = i => pc'[d] \in AfterSync
        BY <1>4, <3>3 DEF Round2, Others
      <3>5. Round2(i)'
        BY <3>1, <3>4 DEF Round2
      <3> QED BY <2>4, <3>1, <3>3, <3>5 DEF RoundFits
    <2> QED BY <1>5, <2>1, <2>2, <2>3, <2>4
  <1> QED BY <1>6, <1>8, <1>9, <1>10 DEF HeldInd, BarrierFits

-----------------------------------------------------------------------------
(* The CPUs that wait at a barrier and the one that comes to it are of     *)
(* those it counts on, and nobody comes twice.                             *)
LEMMA OneMoreWaits ==
    ASSUME DeferredInd, HeldInd, NEW c \in Cpus, NEW i \in Items, work[c] = i,
           active[c], NEW a, pc[c] = a, NEW w, w \in {"sync_pre", "sync_post"},
           a # w
    PROVE  LET W == Waiting(i, w)  M == item[i].members IN
           /\ c \in M /\ W \subseteq M /\ c \notin W
           /\ IsFiniteSet(M) /\ Cardinality(M) \in Nat /\ Cardinality(W) \in Nat
           /\ Cardinality(W \cup {c}) = Cardinality(W) + 1
           /\ Cardinality(W) + 1 = Cardinality(M) => W \cup {c} = M
  <1> DEFINE W == Waiting(i, w)
             M == item[i].members
  <1>1. ActivesFit /\ M \in SUBSET Cpus
    BY DEF HeldInd, DeferredInd, DeferredTypes, ItemType
  <1>2. c \in M /\ c \notin W
    BY <1>1 DEF ActivesFit, Waiting
  <1>3. W \subseteq M
    <2> SUFFICES ASSUME NEW d \in W PROVE d \in M
      OBVIOUS
    <2>1. d \in Cpus /\ work[d] = i /\ pc[d] = w
      BY DEF Waiting
    <2> QED BY <1>1, <2>1 DEF ActivesFit
  <1> HIDE DEF W, M
  <1>4. IsFiniteSet(M) /\ IsFiniteSet(W)
    BY <1>1, <1>3, FS_Subset, DeferredAssumption
  <1>5. Cardinality(M) \in Nat /\ Cardinality(W) \in Nat
    BY <1>4, FS_CardinalityType
  <1>6. /\ IsFiniteSet(W \cup {c})
        /\ Cardinality(W \cup {c}) = Cardinality(W) + 1
    BY <1>2, <1>4, FS_AddElement
  <1>7. Cardinality(W) + 1 = Cardinality(M) => W \cup {c} = M
    <2>1. W \cup {c} \in SUBSET M
      BY <1>2, <1>3
    <2> QED BY <1>4, <1>6, <2>1, FS_Subset
  <1> QED BY <1>2, <1>3, <1>4, <1>5, <1>6, <1>7 DEF W, M

(* What Barrier::wait does to its item, and what it leaves alone.          *)
LEMMA ArriveFields ==
    ASSUME DeferredInd, HeldInd, NEW c \in Cpus, NEW i \in Items, i = work[c],
           NEW a \in {"arrive_pre", "arrive_post"}, NEW w, NEW l,
           Arrive(c, a, w, l)
    PROVE  /\ Others(c) /\ work' = work /\ active' = active
           /\ seq' = seq /\ seqid' = seqid /\ active[c] /\ pc[c] = a
           /\ \A j \in Items \ {i} : item'[j] = item[j]
           /\ item'[i].activeSeq = item[i].activeSeq
           /\ item'[i].count = item[i].count
           /\ item'[i].members = item[i].members
           /\ item'[i].state = item[i].state /\ item'[i].post = item[i].post
           /\ item'[i].pre = item[i].pre
           /\ item[i].count = Cardinality(item[i].members)
           /\ \/ /\ item[i].missing > 1 /\ item'[i].missing = item[i].missing - 1
                 /\ item'[i].event = item[i].event
                 /\ pc' = [pc EXCEPT ![c] = w] /\ pc'[c] = w
                 /\ local'[c] = item[i].event
              \/ /\ item[i].missing = 1 /\ item'[i].missing = item[i].count
                 /\ item'[i].event = item[i].event + 1
                 /\ pc' = [pc EXCEPT ![c] = l] /\ pc'[c] = l
  <1>1. /\ item \in [Items -> ItemType] /\ pc \in [Cpus -> Labels]
        /\ local \in [Cpus -> Nat] /\ ActivesFit
        /\ item[i].count = Cardinality(item[i].members)
    BY DEF DeferredInd, DeferredTypes, HeldInd, SeqFits
  <1>2. /\ work' = work /\ active' = active /\ seq' = seq /\ seqid' = seqid
        /\ pc[c] = a /\ active[c]
    BY <1>1 DEF Arrive, ActivesFit
  <1>3. CASE /\ item[i].missing > 1
             /\ item' = [item EXCEPT ![i].missing = @ - 1]
             /\ local' = [local EXCEPT ![c] = item[i].event]
             /\ pc' = [pc EXCEPT ![c] = w]
    BY <1>1, <1>2, <1>3 DEF Others, ItemType
  <1>4. CASE /\ item[i].missing = 1
             /\ item' = [item EXCEPT ![i].missing = item[i].count,
                                     ![i].event = @ + 1]
             /\ local' = local
             /\ pc' = [pc EXCEPT ![c] = l]
    BY <1>1, <1>2, <1>4 DEF Others, ItemType
  <1> QED BY <1>3, <1>4 DEF Arrive, Goto

(* A CPU comes to the first barrier: when it is the last, all that the     *)
(* barrier counts on wait there.                                           *)
LEMMA ArrivePreRound ==
    ASSUME DeferredInd, HeldInd, NEW c \in Cpus, NEW i \in Items, i = work[c],
           Arrive(c, "arrive_pre", "sync_pre", AtPre(c))
    PROVE  RoundFits(i)'
  <1> DEFINE W == Waiting(i, "sync_pre")
             M == item[i].members
             l == AtPre(c)
  <1>0. /\ pc[c] = "arrive_pre" /\ active[c] /\ Others(c) /\ work' = work
        /\ active' = active /\ item'[i].members = M
        /\ item[i].missing \in Int /\ item[i].count = Cardinality(M)
    BY ArriveFields DEF DeferredInd, DeferredTypes, ItemType
  <1>1. \/ /\ item[i].missing > 1 /\ item'[i].missing = item[i].missing - 1
           /\ item'[i].event = item[i].event
           /\ pc'[c] = "sync_pre" /\ local'[c] = item[i].event
        \/ /\ item[i].missing = 1 /\ item'[i].missing = Cardinality(M)
           /\ item'[i].event = item[i].event + 1 /\ pc'[c] = l
    BY ArriveFields
  <1>2. /\ l \in {"master_pre", "wait_pre"}
    BY DEF AtPre
  <1>3. /\ c \in M /\ W \subseteq M /\ c \notin W
        /\ IsFiniteSet(M) /\ Cardinality(M) \in Nat /\ Cardinality(W) \in Nat
        /\ Cardinality(W \cup {c}) = Cardinality(W) + 1
        /\ Cardinality(W) + 1 = Cardinality(M) => W \cup {c} = M
    BY <1>0, OneMoreWaits
  <1>4. RoundFits(i) /\ ActivesFit /\ M \in SUBSET Cpus
    BY DEF HeldInd, BarrierFits, DeferredInd, DeferredTypes, ItemType
  <1>5. item[i].event = 0 /\ Round0(i)
    <2>1. item[i].event # 1
      BY <1>0, <1>3, <1>4 DEF RoundFits, Round1
    <2>2. item[i].event # 2
      BY <1>0, <1>4 DEF RoundFits, Round2, AfterSync
    <2> QED BY <1>4, <2>1, <2>2 DEF RoundFits
  <1>6. item[i].missing + Cardinality(W) = Cardinality(M)
    BY <1>5 DEF Round0
  <1>7. CASE /\ item'[i].missing = item[i].missing - 1
             /\ item'[i].event = item[i].event
             /\ pc'[c] = "sync_pre" /\ local'[c] = item[i].event
    <2>1. Waiting(i, "sync_pre")' = W \cup {c}
      BY <1>0, <1>7 DEF Waiting, Others
    <2>2. item'[i].missing + Cardinality(W \cup {c}) = Cardinality(M)
      <3> HIDE DEF W, M
      <3> QED BY <1>0, <1>3, <1>6, <1>7
    <2>3. \A d \in W \cup {c} : local'[d] = 0
      BY <1>0, <1>5, <1>7 DEF Round0, Others, Waiting
    <2>4. \A d \in Cpus : active'[d] /\ work'[d] = i =>
             pc'[d] \in {"arrive_pre", "sync_pre"}
      BY <1>0, <1>5, <1>7 DEF Round0, Others
    <2>5. Round0(i)'
      BY <1>0, <2>1, <2>2, <2>3, <2>4 DEF Round0
    <2> QED BY <1>5, <1>7, <2>5 DEF RoundFits
  <1>8. CASE /\ item[i].missing = 1 /\ item'[i].missing = Cardinality(M)
             /\ item'[i].event = item[i].event + 1 /\ pc'[c] = l
    <2>1. W \cup {c} = M
      <3> HIDE DEF W, M
      <3> QED BY <1>3, <1>6, <1>8
    <2>2. Waiting(i, "sync_post")' = {}
      <3>1. \A d \in Cpus : active[d] /\ work[d] = i => pc[d] # "sync_post"
        BY <1>5 DEF Round0
      <3>2. Waiting(i, "sync_post") = {}
        BY <1>4, <3>1 DEF Waiting, ActivesFit
      <3> QED BY <1>0, <1>2, <1>8, <3>2 DEF Waiting, Others
    <2>3. \A d \in M : /\ active'[d] /\ work'[d] = i
                       /\ pc'[d] \notin {"arrive_pre", "master_post",
                                         "wait_post", "complete", "cleanup"}
      <3>1. ASSUME NEW d \in W
            PROVE  /\ active'[d] /\ work'[d] = i /\ pc'[d] = "sync_pre"
        BY <1>0, <1>3, <1>4, <3>1 DEF Waiting, ActivesFit, Others
      <3>2. /\ active'[c] /\ work'[c] = i
            /\ pc'[c] \notin {"arrive_pre", "master_post", "wait_post",
                              "complete", "cleanup"}
        BY <1>0, <1>2, <1>8
      <3> QED BY <2>1, <3>1, <3>2
    <2>4. item'[i].missing + Cardinality(Waiting(i, "sync_post")')
            = Cardinality(M)
      <3>1. Cardinality(Waiting(i, "sync_post")') = 0
        BY <2>2, FS_EmptySet
      <3> QED BY <1>3, <1>8, <3>1
    <2>5. Round1(i)'
      BY <1>0, <2>2, <2>3, <2>4 DEF Round1
    <2> QED BY <1>5, <1>8, <2>5 DEF RoundFits
  <1> QED BY <1>1, <1>7, <1>8

(* ... and to the second one.                                              *)
LEMMA ArrivePostRound ==
    ASSUME DeferredInd, HeldInd, NEW c \in Cpus, NEW i \in Items, i = work[c],
           Arrive(c, "arrive_post", "sync_post", AtPost(c))
    PROVE  RoundFits(i)'
  <1> DEFINE W == Waiting(i, "sync_post")
             M == item[i].members
             l == AtPost(c)
  <1>0. /\ pc[c] = "arrive_post" /\ active[c] /\ Others(c) /\ work' = work
        /\ active' = active /\ item'[i].members = M
        /\ item[i].missing \in Int /\ item[i].count = Cardinality(M)
    BY ArriveFields DEF DeferredInd, DeferredTypes, ItemType
  <1>1. \/ /\ item[i].missing > 1 /\ item'[i].missing = item[i].missing - 1
           /\ item'[i].event = item[i].event
           /\ pc'[c] = "sync_post" /\ local'[c] = item[i].event
        \/ /\ item[i].missing = 1 /\ item'[i].missing = Cardinality(M)
           /\ item'[i].event = item[i].event + 1 /\ pc'[c] = l
    BY ArriveFields
  <1>2. /\ l \in {"master_post", "wait_post"}
    BY DEF AtPost
  <1>3. /\ c \in M /\ W \subseteq M /\ c \notin W
        /\ IsFiniteSet(M) /\ Cardinality(M) \in Nat /\ Cardinality(W) \in Nat
        /\ Cardinality(W \cup {c}) = Cardinality(W) + 1
        /\ Cardinality(W) + 1 = Cardinality(M) => W \cup {c} = M
    BY <1>0, OneMoreWaits
  <1>4. RoundFits(i) /\ ActivesFit /\ M \in SUBSET Cpus
    BY DEF HeldInd, BarrierFits, DeferredInd, DeferredTypes, ItemType
  <1>5. item[i].event = 1 /\ Round1(i)
    <2>1. item[i].event # 0
      BY <1>0, <1>4 DEF RoundFits, Round0
    <2>2. item[i].event # 2
      BY <1>0, <1>4 DEF RoundFits, Round2, AfterSync
    <2> QED BY <1>4, <2>1, <2>2 DEF RoundFits
  <1>6. item[i].missing + Cardinality(W) = Cardinality(M)
    BY <1>5 DEF Round1
  <1>7. CASE /\ item'[i].missing = item[i].missing - 1
             /\ item'[i].event = item[i].event
             /\ pc'[c] = "sync_post" /\ local'[c] = item[i].event
    <2>1. Waiting(i, "sync_post")' = W \cup {c}
      BY <1>0, <1>7 DEF Waiting, Others
    <2>2. item'[i].missing + Cardinality(W \cup {c}) = Cardinality(M)
      <3> HIDE DEF W, M
      <3> QED BY <1>0, <1>3, <1>6, <1>7
    <2>3. \A d \in W \cup {c} : local'[d] = 1
      BY <1>0, <1>5, <1>7 DEF Round1, Others, Waiting
    <2>4. \A d \in M : /\ active'[d] /\ work'[d] = i
                       /\ pc'[d] \notin {"arrive_pre", "master_post",
                                         "wait_post", "complete", "cleanup"}
      BY <1>0, <1>4, <1>5, <1>7 DEF Round1, Others
    <2>5. Round1(i)'
      BY <1>0, <2>1, <2>2, <2>3, <2>4 DEF Round1
    <2> QED BY <1>5, <1>7, <2>5 DEF RoundFits
  <1>8. CASE /\ item[i].missing = 1
             /\ item'[i].event = item[i].event + 1 /\ pc'[c] = l
    <2>1. W \cup {c} = M
      <3> HIDE DEF W, M
      <3> QED BY <1>3, <1>6, <1>8
    <2>2. ASSUME NEW d \in Cpus, active'[d], work'[d] = i
          PROVE  pc'[d] \in AfterSync
      <3>1. d \in M
        BY <1>0, <1>4, <2>2 DEF ActivesFit
      <3>2. CASE d \in W
        BY <1>0, <1>3, <3>2 DEF Waiting, Others, AfterSync
      <3>3. CASE d = c
        BY <1>2, <1>8, <3>3 DEF AfterSync
      <3> QED BY <2>1, <3>1, <3>2, <3>3
    <2>3. \A d \in M : active'[d] /\ work'[d] = i
      BY <1>0, <1>5 DEF Round1
    <2>4. Round2(i)'
      BY <1>0, <2>2, <2>3 DEF Round2
    <2> QED BY <1>5, <1>8, <2>4 DEF RoundFits
  <1> QED BY <1>1, <1>7, <1>8

(* Barrier::wait keeps the invariant.                                      *)
LEMMA ArriveHeld ==
    ASSUME DeferredInd, HeldInd, NEW c \in Cpus,
           \/ Arrive(c, "arrive_pre", "sync_pre", AtPre(c))
           \/ Arrive(c, "arrive_post", "sync_post", AtPost(c))
    PROVE  HeldInd'
  <1>0. PICK i \in Items : i = work[c]
    BY DEF DeferredInd, WorkIsHeadOrDone, Arrive, InItem
  <1>1. /\ Others(c) /\ work' = work /\ active' = active /\ active[c]
        /\ seq' = seq /\ seqid' = seqid
        /\ \A j \in Items \ {i} : item'[j] = item[j]
        /\ item'[i].activeSeq = item[i].activeSeq
        /\ item'[i].count = item[i].count
        /\ item'[i].members = item[i].members
        /\ item'[i].state = item[i].state /\ item'[i].pre = item[i].pre
    BY <1>0, ArriveFields
  <1>2. /\ pc \in [Cpus -> Labels] /\ seq \in Nat /\ seqid \in [Cpus -> Nat]
        /\ ActivesFit /\ PreFits /\ SeqFits
        /\ \A d \in Cpus : pc[d] \in InItem => work[d] \in Items
    BY DEF DeferredInd, DeferredTypes, HeldInd, SeqFits, WorkIsHeadOrDone
  <1>3. PICK l \in {"sync_pre", "master_pre", "wait_pre",
                    "sync_post", "master_post", "wait_post"} :
            /\ pc' = [pc EXCEPT ![c] = l]
            /\ \/ /\ pc[c] = "arrive_pre"
                  /\ l \in {"sync_pre", "master_pre", "wait_pre"}
               \/ /\ pc[c] = "arrive_post"
                  /\ l \in {"sync_post", "master_post", "wait_post"}
    BY DEF Arrive, Goto, AtPre, AtPost
  <1>4. /\ pc'[c] = l
        /\ \A d \in Cpus : pc'[d] \in {"off", "winkled"} <=>
                           pc[d] \in {"off", "winkled"}
    BY <1>2, <1>3
  <1>5. SeqFits'
    BY <1>1, <1>2, <1>4 DEF SeqFits
  <1>6. ActivesFit'
    <2>1. \A d \in Cpus : active[d] =>
             item'[work[d]].members = item[work[d]].members
      BY <1>1, <1>2 DEF ActivesFit
    <2>2. pc'[c] \in InItem \ {"start"} /\ c \in item'[work'[c]].members
      BY <1>1, <1>2, <1>3, <1>4, <2>1 DEF ActivesFit, InItem
    <2>3. active' \in [Cpus -> BOOLEAN]
      BY <1>1, <1>2 DEF ActivesFit
    <2> QED BY <1>1, <2>1, <2>2, <2>3, ActivesFitKept
  <1>7. PreFits'
    <2>1. \A j \in Items : /\ item'[j].pre = item[j].pre
                           /\ item'[j].state = item[j].state
      BY <1>1
    <2>2. pc[c] \in AfterPre <=> l \in AfterPre
      BY <1>3 DEF AfterPre
    <2>3. l \in AfterPre => pc[c] \in InItem /\ item[work[c]].pre
      BY <1>2, <1>3, <2>2 DEF PreFits, InItem
    <2> QED BY <1>1, <1>3, <2>1, <2>2, <2>3, PreFitsKept
  <1>8. ASSUME NEW j \in Items PROVE RoundFits(j)'
    <2>1. CASE j = i
      BY <1>0, <2>1, ArrivePreRound, ArrivePostRound
    <2>2. CASE j # i
      <3>1. SameBarrier(j)
        BY <1>1, <2>2 DEF SameBarrier
      <3> QED BY <1>0, <1>1, <1>6, <2>2, <3>1, RoundKept
    <2> QED BY <2>1, <2>2
  <1> QED BY <1>5, <1>6, <1>7, <1>8 DEF HeldInd, BarrierFits

-----------------------------------------------------------------------------
(* Nobody is in an item at the beginning.                                  *)
LEMMA HeldInitInd == Init => HeldInd
  <1> SUFFICES ASSUME Init PROVE HeldInd
    OBVIOUS
  <1>1. /\ \A i \in Items : item[i] = Free
        /\ seq = 0 /\ seqid \in [Cpus -> Nat] /\ active \in [Cpus -> BOOLEAN]
        /\ \A c \in Cpus : pc[c] \in {"user", "off"} /\ ~active[c]
    BY DEF Init
  <1>2. Free.activeSeq = 0 /\ Free.count = 0
    BY DEF Free, Item
  <1>3. SeqFits
    <2> HIDE DEF Free
    <2> QED BY <1>1, <1>2, FreeFields DEF SeqFits
  <1>4. ActivesFit
    BY <1>1 DEF ActivesFit
  <1>5. PreFits
    <2> HIDE DEF Free
    <2> QED BY <1>1, FreeFields DEF PreFits, AfterPre, Pending
  <1>6. ASSUME NEW i \in Items PROVE RoundFits(i)
    <2>1. Waiting(i, "sync_pre") = {}
      BY <1>1 DEF Waiting
    <2>2. item[i].missing + Cardinality(Waiting(i, "sync_pre"))
            = Cardinality(item[i].members)
      <3>1. Cardinality(Waiting(i, "sync_pre")) = 0
        BY <2>1, FS_EmptySet
      <3> HIDE DEF Free
      <3> QED BY <1>1, <3>1, FreeFields
    <2>3. Round0(i)
      BY <1>1, <2>1, <2>2 DEF Round0
    <2> HIDE DEF Free
    <2> QED BY <1>1, <2>3, FreeFields DEF RoundFits
  <1> QED BY <1>3, <1>4, <1>5, <1>6 DEF HeldInd, BarrierFits

(* Every step of every CPU keeps the invariant.                            *)
LEMMA HeldNextInd == DeferredInd /\ HeldInd /\ [Next]_vars => HeldInd'
  <1> SUFFICES ASSUME DeferredInd, HeldInd, [Next]_vars PROVE HeldInd'
    OBVIOUS
  <1>1. CASE UNCHANGED vars
    <2>1. /\ item' = item /\ seq' = seq /\ seqid' = seqid /\ pc' = pc
          /\ work' = work /\ local' = local /\ active' = active
      BY <1>1 DEF vars
    <2>2. SeqFits' /\ ActivesFit' /\ PreFits'
      BY <2>1 DEF HeldInd, SeqFits, ActivesFit, PreFits
    <2>3. \A i \in Items : Round0(i)' = Round0(i) /\ Round1(i)' = Round1(i)
                             /\ Round2(i)' = Round2(i)
      BY <2>1 DEF Round0, Round1, Round2, Waiting
    <2>4. \A i \in Items : RoundFits(i)'
      BY <2>1, <2>3 DEF HeldInd, BarrierFits, RoundFits
    <2> QED BY <2>2, <2>4 DEF HeldInd, BarrierFits
  <1>2. ASSUME NEW c \in Cpus, NEW i \in Items, Create(c, i)
        PROVE  HeldInd'
    BY <1>2, CreateHeld
  <1>3. ASSUME NEW c \in Cpus, activateCPU(c) \/ KernelStep(c)
        PROVE  HeldInd'
    <2>1. CASE \/ activateCPU(c) \/ EnterKernel(c) \/ WaitAtPre(c)
               \/ MainWork(c) \/ Winkle(c) \/ WakeUp(c) \/ WaitAtPost(c)
      BY <2>1, QuietHeld
    <2>2. CASE WaitForCpus(c)
      BY <2>2, QuietHeld, ArriveHeld DEF WaitForCpus
    <2>3. CASE MasterPre(c) \/ Complete(c) \/ CompleteWait(c)
      BY <2>3, MasterHeld
    <2>4. CASE Execute(c)
      BY <2>4, QuietHeld, ExecuteHeld
    <2>5. CASE Start(c)
      BY <2>5, StartHeld
    <2>6. CASE Insert(c)
      BY <2>6, InsertHeld
    <2>7. CASE Cleanup(c)
      BY <2>7, CleanupHeld
    <2> QED BY <1>3, <2>1, <2>2, <2>3, <2>4, <2>5, <2>6, <2>7 DEF KernelStep
  <1> QED BY <1>1, <1>2, <1>3 DEF Next

(* Both invariants hold in every behaviour of the kernel.                  *)
LEMMA HeldInvariance == Spec => [](DeferredInd /\ HeldInd)
  BY DeferredInitInd, DeferredNextInd, HeldInitInd, HeldNextInd, PTL DEF Spec

(* While the master works alone, before iv_releasePre and after the second *)
(* barrier, every CPU that was online when the item was created stands     *)
(* still in the item: for every number of CPUs and items, with CPUs that   *)
(* come online at any moment, winkle inside an item, and memory of items   *)
(* that is used again.                                                     *)
THEOREM ActiveCpusHeldHolds == Spec => []ActiveCpusHeld
  <1>1. DeferredInd /\ HeldInd => ActiveCpusHeld
    <2> SUFFICES ASSUME DeferredInd, HeldInd,
                        pc[Master] \in {"master_pre", "master_post"},
                        active[Master],
                        NEW c \in item[work[Master]].members, c # Master
                 PROVE  Held(c)
      BY DEF ActiveCpusHeld
    <2>0. Master \in Cpus
      BY DeferredAssumption
    <2>1. PICK i \in Items : i = work[Master]
      BY <2>0 DEF DeferredInd, WorkIsHeadOrDone, InItem
    <2>2. /\ c \in Cpus /\ c \in item[i].members /\ item[i].state = "queued"
          /\ ~item[i].post /\ RoundFits(i) /\ ActivesFit /\ PreFits
      BY <2>0, <2>1 DEF DeferredInd, DeferredTypes, ItemType, HeldInd,
         WorkIsHeadOrDone, BarrierFits, InItem, NobodyLeavesBefore
    <2>3. item[i].event # 0
      BY <2>0, <2>1, <2>2 DEF RoundFits, Round0
    <2>4. active[c] /\ work[c] = i /\ pc[c] \in InItem \ {"start"}
      BY <2>2, <2>3 DEF RoundFits, Round1, Round2, ActivesFit
    <2>5. pc[c] \notin {"master_pre", "master_post", "complete", "cleanup"}
      BY <2>2, <2>4
         DEF DeferredInd, WorkIsHeadOrDone, NobodyLeavesBefore
    <2>6. CASE pc[Master] = "master_pre"
      <3>1. ~item[i].pre
        BY <2>1, <2>2, <2>6 DEF PreFits, Pending, AfterPre
      <3>2. pc[c] \notin AfterPre
        BY <2>2, <2>4, <3>1 DEF PreFits
      <3>3. item[i].event # 2
        BY <2>0, <2>1, <2>2, <2>6 DEF RoundFits, Round2, AfterSync
      <3>4. pc[c] # "arrive_pre"
        BY <2>2, <2>3, <3>3 DEF RoundFits, Round1
      <3> QED BY <2>1, <2>4, <2>5, <2>6, <3>2, <3>4
              DEF Held, AfterPre, InItem
    <2>7. CASE pc[Master] = "master_post"
      <3>1. Master \in item[i].members
        BY <2>0, <2>1, <2>2 DEF ActivesFit
      <3>2. item[i].event # 1
        BY <2>2, <2>7, <3>1 DEF RoundFits, Round1
      <3>3. pc[c] \in AfterSync
        BY <2>2, <2>3, <2>4, <3>2 DEF RoundFits, Round2
      <3> QED BY <2>1, <2>4, <2>5, <2>7, <3>3 DEF Held, AfterSync
    <2> QED BY <2>6, <2>7
  <1> QED BY <1>1, HeldInvariance, PTL
=============================================================================
