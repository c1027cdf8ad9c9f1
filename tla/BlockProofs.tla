---------------------------- MODULE BlockProofs ----------------------------
(***************************************************************************)
(* Demand paging for any finite sets of CPUs, user tasks and pages, any    *)
(* number of virtual pages and hash page table entries, and any            *)
(* permissions: what was stored is never lost and never stale, no physical *)
(* page is in two places, and every task is scheduled once or waits for a  *)
(* message that is on its way.  The block's queue has one daemon, which    *)
(* writes without errors.                                                  *)
(*                                                                         *)
(* The kernel's operations are functions of the kernel state, so the       *)
(* invariant is a predicate KInv of such a state, and there is a lemma for *)
(* each operation.                                                         *)
(***************************************************************************)
EXTENDS Block, SchedulerProofs

(* The handlers' method is the one of Block; one daemon serves the queue.  *)
Daemon == CHOOSE d : d \in Daemons

BlockHandlers ==
    /\ \A k, m, t, rc, v : handleResponse(k, m, t, rc, v)
                             = handleBlockResponse(k, m, t, rc, v)
    /\ Daemons = {Daemon}
    /\ "write" \notin Errors

-----------------------------------------------------------------------------
(* The kernel states                                                       *)

Handlers == {"read", "write"}
Waiters  == Users \cup {NULL}
ShadowPTEs == [page : Pages \cup {NULL}, present : BOOLEAN, dirty : BOOLEAN,
               perm : SUBSET {"R", "W", "T", "Z"}]
TableEntries == [page : Pages, writable : BOOLEAN]
Messages == [handler : Handlers, key : VAs, data : Pages, done : BOOLEAN]
Awaitings == [key : VAs, task : Waiters]
Writes    == [key : VAs, page : Pages]

KStates ==
    [sched : SchedStates, spte : [VAs -> ShadowPTEs],
     hpte : [VAs -> TableEntries \cup {NULL}], avail : SUBSET Pages,
     messages : Seq(Messages), waiting : Seq(Daemons),
     serving : [Daemons -> Messages \cup {NULL}],
     pending : [Handlers -> Seq(Awaitings)], ended : SUBSET Users,
     va2pa : Seq(Writes), msgCount : [Tasks -> Nat],
     latest : [VAs -> SUBSET (Pages \cup {Device})],
     panic : {"no", "out of memory", "duplicate PTE"}]

(* Task t waits for handler h's response about va; page p of va is being   *)
(* written; message m is on the queue or with the daemon.                  *)
Await(va, t) == [key |-> va, task |-> t]
Pend(k, h, va, t) == OnList(k.pending[h], Await(va, t))
Written(va, p) == [key |-> va, page |-> p]
Writing(k, va, p) == OnList(k.va2pa, Written(va, p))
Flies(k, m) == OnList(k.messages, m) \/ k.serving[Daemon] = m

-----------------------------------------------------------------------------
(* The invariant                                                           *)

(* A page is of one virtual page at most, or free.                         *)
ShadowApart(k) ==
    /\ \A v, w \in VAs :
          k.spte[v].page = k.spte[w].page /\ k.spte[v].page # NULL => v = w
    /\ \A v \in VAs : k.spte[v].page \notin k.avail

(* What is being written is of no virtual page and not free, and there is  *)
(* one page of each virtual page at most.                                  *)
WritesApart(k) ==
    /\ NoneTwice(k.va2pa)
    /\ \A v, w \in VAs : \A p, q \in Pages :
          Writing(k, v, p) /\ Writing(k, w, q) => (v = w <=> p = q)
    /\ \A v, w \in VAs : \A p \in Pages :
          Writing(k, v, p) => p \notin k.avail /\ k.spte[w].page # p

NoPageLost(k) ==
    \A p \in Pages : \/ p \in k.avail
                     \/ \E v \in VAs : k.spte[v].page = p \/ Writing(k, v, p)

PagesFit(k) == ShadowApart(k) /\ WritesApart(k) /\ NoPageLost(k)

(* The hash page table has what the shadow entries say, and only pages of  *)
(* a block with handlers are tracked.                                      *)
TableFits(k) ==
    /\ k.panic # "duplicate PTE"
    /\ \A va \in VAs :
          /\ "T" \in k.spte[va].perm => va \in Backed
          /\ k.hpte[va] # NULL =>
                /\ k.spte[va].present /\ k.spte[va].page = k.hpte[va].page
                /\ k.hpte[va].writable =>
                      k.spte[va].dirty /\ "W" \in k.spte[va].perm

(* The daemon waits only if there is nothing to do.  Messages are not done *)
(* before it has them, and before a write there is no message about the    *)
(* same virtual page.                                                      *)
QueueFits(k) ==
    /\ k.waiting = << >> \/ k.waiting = <<Daemon>>
    /\ k.waiting # << >> => k.messages = << >> /\ k.serving[Daemon] = NULL
    /\ \A i \in DOMAIN k.messages :
          /\ ~k.messages[i].done
          /\ k.messages[i].handler = "write" =>
                /\ \A j \in DOMAIN k.messages :
                      j < i => k.messages[j].key # k.messages[i].key
                /\ k.serving[Daemon] # NULL =>
                      k.serving[Daemon].key # k.messages[i].key

(* No message is there twice, also none for the same handler and key.      *)
FlightsOnce(k) ==
    /\ \A i, j \in DOMAIN k.messages :
          /\ k.messages[i].handler = k.messages[j].handler
          /\ k.messages[i].key = k.messages[j].key
          => i = j
    /\ k.serving[Daemon] # NULL =>
          \A i \in DOMAIN k.messages :
             ~(/\ k.messages[i].handler = k.serving[Daemon].handler
               /\ k.messages[i].key = k.serving[Daemon].key)

(* While a message is on its way its virtual page is not present.  A read  *)
(* has the page of the shadow entry, a write the one on the handler's      *)
(* list.                                                                   *)
FlightsFit(k) ==
    \A m \in Messages : Flies(k, m) =>
        /\ m.key \in Backed /\ ~k.spte[m.key].present
        /\ m.handler = "read" => k.spte[m.key].page = m.data
        /\ m.handler = "write" => Writing(k, m.key, m.data)

OnItsWay(k, h, va) ==
    \E m \in Messages : Flies(k, m) /\ m.handler = h /\ m.key = va

(* Somebody waits for a message exactly if it is on its way, and so it is  *)
(* for each page on the write handler's list: but for X, the handlers and  *)
(* keys of a response that is just being handled.                          *)
SentFits(k, X) ==
    /\ \A h \in Handlers : \A va \in VAs : <<h, va>> \notin X =>
          ((\E t \in Waiters : Pend(k, h, va, t)) <=> OnItsWay(k, h, va))
    /\ \A va \in VAs : \A p \in Pages :
          Writing(k, va, p) => \/ OnItsWay(k, "write", va)
                               \/ <<"write", va>> \in X
    /\ \A h \in Handlers : \A va \in VAs :
          <<h, va>> \in X => ~OnItsWay(k, h, va)

(* A write that the daemon has not done yet.                               *)
Unwritten(k, va, p) ==
    \E m \in Messages : /\ Flies(k, m) /\ m.handler = "write" /\ m.key = va
                        /\ m.data = p /\ ~m.done

(* A present page has the latest contents, and so has the device unless    *)
(* the page is dirty or being written; what is being written has them, and *)
(* what has been read.                                                     *)
ContentsFit(k) ==
    /\ \A va \in VAs : k.spte[va].present =>
          k.spte[va].page # NULL /\ k.spte[va].page \in k.latest[va]
    /\ \A va \in VAs : \/ Device \in k.latest[va]
                       \/ k.spte[va].present /\ k.spte[va].dirty
                       \/ \E p \in Pages : Unwritten(k, va, p)
    /\ \A va \in VAs : \A p \in Pages :
          Unwritten(k, va, p) => p \in k.latest[va]
    /\ \A m \in Messages : Flies(k, m) /\ m.handler = "read" /\ m.done =>
          m.data \in k.latest[m.key]

MemoryFits(k) ==
    /\ PagesFit(k) /\ TableFits(k) /\ QueueFits(k) /\ FlightsOnce(k)
    /\ FlightsFit(k) /\ ContentsFit(k)

(* A task waits for one read or for writes, and one task at most for a     *)
(* write; what a handler counts for a task is the writes it waits for.     *)
AwaitedBy(k, t) == {va \in VAs : Pend(k, "write", va, t)}

TasksFit(k) ==
    /\ \A h \in Handlers : NoneTwice(k.pending[h])
    /\ \A va \in VAs : ~Pend(k, "read", va, NULL)
    /\ \A v, w \in VAs : \A t \in Users : Pend(k, "read", v, t) =>
          /\ ~Pend(k, "write", w, t)
          /\ Pend(k, "read", w, t) => v = w
    /\ \A v \in VAs : \A t, u \in Waiters :
          Pend(k, "write", v, t) /\ Pend(k, "write", v, u) => t = u
    /\ \A h \in Handlers : \A v \in VAs : \A t \in Users :
          Pend(k, h, v, t) => t \notin k.ended
    /\ \A t \in Tasks : k.msgCount[t] = Cardinality(AwaitedBy(k, t))

(* The tasks that neither wait nor have ended; the scheduler has them, but *)
(* for those in off.                                                       *)
Ready(k) ==
    {t \in Tasks : /\ t \notin k.ended /\ ~OnList(k.waiting, t)
                   /\ \A h \in Handlers : \A va \in VAs : ~Pend(k, h, va, t)}

KInv(k, X, off) ==
    /\ k \in KStates /\ MemoryFits(k) /\ SentFits(k, X)
    /\ TasksFit(k) /\ Holds(k.sched, {}, Ready(k) \ off)

(* A task with a fault to be handled is a user's.                          *)
FaultsFit ==
    /\ fault \in [Cpus -> [va : VAs, store : BOOLEAN] \cup {NULL}]
    /\ \A c \in Cpus : fault[c] # NULL => sched.current[c] \in Users

BlockInd == KInv(Kernel, {}, {}) /\ FaultsFit

-----------------------------------------------------------------------------
(* Facts about the constants, the fields and the records.                  *)

(* What the assumptions give.                                              *)
LEMMA BlockFacts ==
    ASSUME BlockHandlers
    PROVE  /\ Daemon \in Daemons /\ Daemons = {Daemon} /\ Daemon \in Tasks
           /\ Users = Tasks \ {Daemon} /\ Users \subseteq Tasks
           /\ NULL \notin Tasks /\ NULL # Idle /\ Idle \notin Tasks
           /\ NULL \notin Pages /\ Device \notin Pages
           /\ NULL \notin Messages /\ NULL \notin TableEntries
           /\ VAs \subseteq Nat /\ LastVA \in Nat
           /\ IsFiniteSet(VAs)
  <1>1. Daemons = {Daemon} /\ Daemon \in Daemons
    BY DEF BlockHandlers
  <1>2. LastVA \in Nat /\ VAs = 1 .. LastVA
    BY BlockAssumption DEF VAs
  <1>3. IsFiniteSet(VAs)
    BY <1>2, FS_Interval
  <1>4. NULL \notin Messages /\ NULL \notin TableEntries
    BY BlockAssumption DEF Messages, TableEntries, Handlers
  <1> QED BY <1>1, <1>2, <1>3, <1>4, BlockAssumption, HandlerAssumption,
             SchedulerAssumption DEF Users

(* A kernel state field by field.                                          *)
LEMMA KFields ==
    ASSUME NEW k \in KStates
    PROVE  /\ k.sched \in SchedStates /\ k.spte \in [VAs -> ShadowPTEs]
           /\ k.hpte \in [VAs -> TableEntries \cup {NULL}]
           /\ k.avail \in SUBSET Pages /\ k.messages \in Seq(Messages)
           /\ k.waiting \in Seq(Daemons)
           /\ k.serving \in [Daemons -> Messages \cup {NULL}]
           /\ k.pending \in [Handlers -> Seq(Awaitings)]
           /\ k.ended \in SUBSET Users /\ k.va2pa \in Seq(Writes)
           /\ k.msgCount \in [Tasks -> Nat]
           /\ k.latest \in [VAs -> SUBSET (Pages \cup {Device})]
           /\ k.panic \in {"no", "out of memory", "duplicate PTE"}
  BY DEF KStates

(* A shadow entry field by field.                                          *)
LEMMA ShadowFields ==
    ASSUME NEW e \in ShadowPTEs
    PROVE  /\ e.page \in Pages \cup {NULL} /\ e.present \in BOOLEAN
           /\ e.dirty \in BOOLEAN /\ e.perm \in SUBSET {"R", "W", "T", "Z"}
  BY DEF ShadowPTEs

(* The entries of the handlers' lists are told by their fields.            *)
LEMMA EntryFacts ==
    /\ \A v, w, t, u : Await(v, t) = Await(w, u) <=> v = w /\ t = u
    /\ \A v \in VAs : \A t \in Waiters : Await(v, t) \in Awaitings
    /\ \A e \in Awaitings : /\ e.key \in VAs /\ e.task \in Waiters
                            /\ e = Await(e.key, e.task)
    /\ \A v, t : Await(v, t).key = v /\ Await(v, t).task = t
    /\ \A v, w, p, q : Written(v, p) = Written(w, q) <=> v = w /\ p = q
    /\ \A v \in VAs : \A p \in Pages : Written(v, p) \in Writes
    /\ \A e \in Writes : /\ e.key \in VAs /\ e.page \in Pages
                         /\ e = Written(e.key, e.page)
    /\ \A v, p : Written(v, p).key = v /\ Written(v, p).page = p
  BY DEF Await, Awaitings, Written, Writes

(* Messages field by field.                                                *)
LEMMA MessageFields ==
    ASSUME NEW m \in Messages
    PROVE  /\ m.handler \in Handlers /\ m.key \in VAs /\ m.data \in Pages
           /\ m.done \in BOOLEAN
  BY DEF Messages

(* What is on a list.                                                      *)
LEMMA OnLists ==
    ASSUME NEW k \in KStates
    PROVE  /\ \A h \in Handlers : \A v, t :
                 Pend(k, h, v, t) => v \in VAs /\ t \in Waiters
           /\ \A v, p : Writing(k, v, p) => v \in VAs /\ p \in Pages
           /\ \A m : OnList(k.messages, m) => m \in Messages
           /\ \A i \in DOMAIN k.messages : k.messages[i] \in Messages
  <1>1. /\ k.messages \in Seq(Messages) /\ k.va2pa \in Seq(Writes)
        /\ k.pending \in [Handlers -> Seq(Awaitings)]
    BY KFields
  <1>2. ASSUME NEW h \in Handlers, NEW v, NEW t, Pend(k, h, v, t)
        PROVE  v \in VAs /\ t \in Waiters
    <2>1. k.pending[h] \in Seq(Awaitings)
      BY <1>1
    <2>2. Await(v, t) \in Awaitings
      BY <1>2, <2>1, ListPlaces DEF Pend
    <2> QED BY <2>2, EntryFacts
  <1>3. ASSUME NEW v, NEW p, Writing(k, v, p) PROVE v \in VAs /\ p \in Pages
    <2>1. Written(v, p) \in Writes
      BY <1>1, <1>3, ListPlaces DEF Writing
    <2> QED BY <2>1, EntryFacts
  <1>4. /\ \A m : OnList(k.messages, m) => m \in Messages
        /\ \A i \in DOMAIN k.messages : k.messages[i] \in Messages
    BY <1>1, ListPlaces
  <1> QED BY <1>2, <1>3, <1>4

-----------------------------------------------------------------------------
(* What the parts of the invariant are about.                              *)

SamePages(k, r) == r.avail = k.avail /\ r.va2pa = k.va2pa
SameQueue(k, r) ==
    r.messages = k.messages /\ r.serving = k.serving /\ r.waiting = k.waiting
SameLists(k, r) == r.pending = k.pending /\ r.va2pa = k.va2pa
SameTasks(k, r) ==
    /\ r.sched = k.sched /\ r.pending = k.pending /\ r.ended = k.ended
    /\ r.msgCount = k.msgCount /\ r.waiting = k.waiting

(* Lists that are the same have the same on them.                          *)
LEMMA SameThings ==
    ASSUME NEW k, NEW r
    PROVE  /\ r.pending = k.pending =>
                 \A h, v, t : Pend(r, h, v, t) <=> Pend(k, h, v, t)
           /\ r.va2pa = k.va2pa =>
                 \A v, p : Writing(r, v, p) <=> Writing(k, v, p)
           /\ SameQueue(k, r) => \A m : Flies(r, m) <=> Flies(k, m)
           /\ SameQueue(k, r) => \A h, v : OnItsWay(r, h, v) <=> OnItsWay(k, h, v)
           /\ SameQueue(k, r) =>
                 \A v, p : Unwritten(r, v, p) <=> Unwritten(k, v, p)
  BY DEF Pend, Writing, Flies, SameQueue, OnItsWay, Unwritten

(* The parts that are about the queue, the lists and the tasks only.       *)
LEMMA SameParts ==
    ASSUME NEW k, NEW r, NEW X
    PROVE  /\ SameQueue(k, r) =>
                 /\ QueueFits(k) => QueueFits(r)
                 /\ FlightsOnce(k) => FlightsOnce(r)
           /\ SameQueue(k, r) /\ SameLists(k, r) =>
                 (SentFits(k, X) => SentFits(r, X))
           /\ SameTasks(k, r) =>
                 /\ TasksFit(k) => TasksFit(r)
                 /\ Ready(r) = Ready(k)
  <1>1. SameQueue(k, r) => /\ QueueFits(k) => QueueFits(r)
                           /\ FlightsOnce(k) => FlightsOnce(r)
    BY DEF SameQueue, QueueFits, FlightsOnce
  <1>2. ASSUME SameQueue(k, r), SameLists(k, r), SentFits(k, X)
        PROVE  SentFits(r, X)
    <2>1. /\ \A h, v, t : Pend(r, h, v, t) <=> Pend(k, h, v, t)
          /\ \A v, p : Writing(r, v, p) <=> Writing(k, v, p)
          /\ \A h, v : OnItsWay(r, h, v) <=> OnItsWay(k, h, v)
      BY <1>2, SameThings DEF SameLists
    <2> QED BY <1>2, <2>1 DEF SentFits
  <1>3. ASSUME SameTasks(k, r)
        PROVE  (TasksFit(k) => TasksFit(r)) /\ Ready(r) = Ready(k)
    <2>1. \A h, v, t : Pend(r, h, v, t) <=> Pend(k, h, v, t)
      BY <1>3, SameThings DEF SameTasks
    <2>2. \A t : AwaitedBy(r, t) = AwaitedBy(k, t)
      BY <2>1 DEF AwaitedBy
    <2>3. Ready(r) = Ready(k)
      BY <1>3, <2>1 DEF Ready, SameTasks
    <2>4. TasksFit(k) => TasksFit(r)
      BY <1>3, <2>1, <2>2 DEF TasksFit, SameTasks
    <2> QED BY <2>3, <2>4
  <1> QED BY <1>1, <1>2, <1>3

-----------------------------------------------------------------------------
(* The page tables.                                                        *)

(* Steps that change the hash page table, permissions, or what is dirty.   *)
LEMMA TableStep ==
    ASSUME NEW k, NEW X, NEW off, KInv(k, X, off), NEW r \in KStates,
           SamePages(k, r), SameQueue(k, r), SameTasks(k, r),
           r.latest = k.latest, TableFits(r),
           \A v \in VAs : /\ r.spte[v].page = k.spte[v].page
                          /\ r.spte[v].present = k.spte[v].present
                          /\ k.spte[v].dirty => r.spte[v].dirty
    PROVE  KInv(r, X, off)
  <1>1. /\ PagesFit(k) /\ QueueFits(k) /\ FlightsOnce(k) /\ FlightsFit(k)
        /\ ContentsFit(k) /\ SentFits(k, X) /\ TasksFit(k)
        /\ Holds(k.sched, {}, Ready(k) \ off)
    BY DEF KInv, MemoryFits
  <1>2. SameLists(k, r) /\ r.avail = k.avail /\ r.sched = k.sched
    BY DEF SamePages, SameTasks, SameLists
  <1>3. /\ QueueFits(r) /\ FlightsOnce(r) /\ SentFits(r, X) /\ TasksFit(r)
        /\ Ready(r) = Ready(k)
    BY <1>1, <1>2, SameParts
  <1>4. /\ \A v, p : Writing(r, v, p) <=> Writing(k, v, p)
        /\ \A m : Flies(r, m) <=> Flies(k, m)
        /\ \A v, p : Unwritten(r, v, p) <=> Unwritten(k, v, p)
        /\ r.va2pa = k.va2pa
    BY <1>2, SameThings DEF SameLists
  <1>5. PagesFit(r)
    <2>1. ShadowApart(r)
      BY <1>1, <1>2 DEF PagesFit, ShadowApart
    <2>2. WritesApart(r)
      BY <1>1, <1>2, <1>4 DEF PagesFit, WritesApart
    <2>3. NoPageLost(r)
      BY <1>1, <1>2, <1>4 DEF PagesFit, NoPageLost
    <2> QED BY <2>1, <2>2, <2>3 DEF PagesFit
  <1>6. FlightsFit(r)
    <2> SUFFICES ASSUME NEW m \in Messages, Flies(r, m)
                 PROVE  /\ m.key \in Backed /\ ~r.spte[m.key].present
                        /\ m.handler = "read" => r.spte[m.key].page = m.data
                        /\ m.handler = "write" => Writing(r, m.key, m.data)
      BY DEF FlightsFit
    <2>1. m.key \in VAs
      BY MessageFields
    <2> QED BY <1>1, <1>4, <2>1 DEF FlightsFit
  <1>7. ContentsFit(r)
    <2>1. \A va \in VAs : r.spte[va].present =>
             r.spte[va].page # NULL /\ r.spte[va].page \in r.latest[va]
      BY <1>1 DEF ContentsFit
    <2>2. \A va \in VAs : \/ Device \in r.latest[va]
                          \/ r.spte[va].present /\ r.spte[va].dirty
                          \/ \E p \in Pages : Unwritten(r, va, p)
      BY <1>1, <1>4 DEF ContentsFit
    <2>3. /\ \A va \in VAs : \A p \in Pages :
                Unwritten(r, va, p) => p \in r.latest[va]
          /\ \A m \in Messages :
                Flies(r, m) /\ m.handler = "read" /\ m.done =>
                   m.data \in r.latest[m.key]
      BY <1>1, <1>4 DEF ContentsFit
    <2> QED BY <2>1, <2>2, <2>3 DEF ContentsFit
  <1>8. Holds(r.sched, {}, Ready(r) \ off)
    BY <1>1, <1>2, <1>3
  <1> QED BY <1>3, <1>5, <1>6, <1>7, <1>8 DEF KInv, MemoryFits

(* delEntry                                                                *)
LEMMA EntryDeleted ==
    ASSUME NEW k, NEW X, NEW off, KInv(k, X, off), NEW va \in VAs
    PROVE  /\ KInv(delEntry(k, va), X, off)
           /\ delEntry(k, va).hpte[va] = NULL
           /\ delEntry(k, va).spte = k.spte
           /\ delEntry(k, va).sched = k.sched
           /\ SameTasks(k, delEntry(k, va))
  <1> DEFINE r == delEntry(k, va)
  <1>1. k \in KStates /\ TableFits(k)
    BY DEF KInv, MemoryFits
  <1>2. /\ r \in KStates /\ r.spte = k.spte /\ r.latest = k.latest
        /\ r.panic = k.panic
        /\ SamePages(k, r) /\ SameQueue(k, r) /\ SameTasks(k, r)
    BY <1>1 DEF delEntry, KStates, SamePages, SameQueue, SameTasks
  <1>3. \A v \in VAs : r.hpte[v] = IF v = va THEN NULL ELSE k.hpte[v]
    BY <1>1 DEF delEntry, KStates
  <1> HIDE DEF r
  <1>4. TableFits(r)
    BY <1>1, <1>2, <1>3 DEF TableFits
  <1>5. KInv(r, X, off)
    BY <1>2, <1>4, TableStep
  <1> QED BY <1>2, <1>3, <1>5 DEF r, SameTasks

(* addEntry of a present page: there is no other entry for it.             *)
LEMMA EntryAdded ==
    ASSUME BlockHandlers,
           NEW k, NEW X, NEW off, KInv(k, X, off), NEW va \in VAs,
           NEW victim \in VAs, k.spte[va].present
    PROVE  /\ KInv(addEntry(k, va, victim), X, off)
           /\ SameTasks(k, addEntry(k, va, victim))
           /\ addEntry(k, va, victim).spte = k.spte
           /\ addEntry(k, va, victim).latest = k.latest
           /\ SameQueue(k, addEntry(k, va, victim))
           /\ SamePages(k, addEntry(k, va, victim))
  <1> DEFINE r == addEntry(k, va, victim)
             e == k.spte[va]
             w == Access(e)
             x == [page |-> e.page, writable |-> w]
  <1>1. k \in KStates /\ TableFits(k) /\ ContentsFit(k)
    BY DEF KInv, MemoryFits
  <1>2. /\ k.hpte \in [VAs -> TableEntries \cup {NULL}] /\ e \in ShadowPTEs
        /\ k.spte \in [VAs -> ShadowPTEs]
    BY <1>1, KFields
  <1>3. e.page \in Pages
    BY <1>1, <1>2, ShadowFields DEF ContentsFit
  <1>4. w \in BOOLEAN /\ (w => "W" \in e.perm /\ e.dirty)
    BY <1>2, ShadowFields DEF Access
  <1>5. ~(k.hpte[va] # NULL /\ k.hpte[va].page # e.page)
    BY <1>1 DEF TableFits
  <1> HIDE DEF w
  <1>6. x \in TableEntries /\ x.page = e.page /\ x.writable = w
    BY <1>3, <1>4 DEF TableEntries
  <1>7. x # NULL
    BY <1>6, BlockFacts
  <1>8. r = [delEntry(k, victim) EXCEPT !.hpte[va] = x]
    BY <1>5, Zenon DEF addEntry, w
  <1> HIDE DEF x, e
  <1>9. k.hpte \in [VAs -> TableEntries \cup {NULL}]
    BY <1>1, KFields
  <1> DEFINE f == [[k.hpte EXCEPT ![victim] = NULL] EXCEPT ![va] = x]
  <1>10. r = [k EXCEPT !.hpte = f]
    <2> HIDE DEF r
    <2> QED BY <1>1, <1>8 DEF delEntry, KStates
  <1>11. f \in [VAs -> TableEntries \cup {NULL}]
    BY <1>6, <1>9
  <1>12. \A v \in VAs : f[v] = IF v = va THEN x
                               ELSE IF v = victim THEN NULL ELSE k.hpte[v]
    BY <1>9
  <1> HIDE DEF r, f
  <1>13. /\ r \in KStates /\ r.spte = k.spte /\ r.latest = k.latest
         /\ r.panic = k.panic /\ r.hpte = f
         /\ SamePages(k, r) /\ SameQueue(k, r) /\ SameTasks(k, r)
    BY <1>1, <1>10, <1>11 DEF KStates, SamePages, SameQueue, SameTasks
  <1>14. TableFits(r)
    <2> SUFFICES ASSUME NEW v \in VAs
                 PROVE  /\ "T" \in r.spte[v].perm => v \in Backed
                        /\ r.hpte[v] # NULL =>
                             /\ r.spte[v].present
                             /\ r.spte[v].page = r.hpte[v].page
                             /\ r.hpte[v].writable =>
                                   r.spte[v].dirty /\ "W" \in r.spte[v].perm
      BY <1>1, <1>13 DEF TableFits
    <2>1. CASE v = va
      BY <1>1, <1>4, <1>6, <1>12, <1>13, <2>1 DEF TableFits, e
    <2>2. CASE v # va
      BY <1>1, <1>12, <1>13, <2>2 DEF TableFits
    <2> QED BY <2>1, <2>2
  <1>15. KInv(r, X, off)
    BY <1>13, <1>14, TableStep
  <1> QED BY <1>13, <1>15 DEF r

(* One shadow entry is changed.                                            *)
LEMMA ShadowChanged ==
    ASSUME NEW k \in KStates, NEW va \in VAs, NEW e \in ShadowPTEs
    PROVE  LET r == [k EXCEPT !.spte = [k.spte EXCEPT ![va] = e]] IN
           /\ r \in KStates
           /\ \A v \in VAs : r.spte[v] = IF v = va THEN e ELSE k.spte[v]
           /\ r.hpte = k.hpte /\ r.latest = k.latest /\ r.panic = k.panic
           /\ SamePages(k, r) /\ SameQueue(k, r) /\ SameTasks(k, r)
  <1> DEFINE f == [k.spte EXCEPT ![va] = e]
             r == [k EXCEPT !.spte = f]
  <1>1. k.spte \in [VAs -> ShadowPTEs]
    BY KFields
  <1>2. /\ f \in [VAs -> ShadowPTEs]
        /\ \A v \in VAs : f[v] = IF v = va THEN e ELSE k.spte[v]
    BY <1>1
  <1> HIDE DEF f
  <1>3. /\ r \in KStates /\ r.spte = f
        /\ r.hpte = k.hpte /\ r.latest = k.latest /\ r.panic = k.panic
        /\ SamePages(k, r) /\ SameQueue(k, r) /\ SameTasks(k, r)
    BY <1>2 DEF KStates, SamePages, SameQueue, SameTasks
  <1> HIDE DEF r
  <1>4. \A v \in VAs : r.spte[v] = IF v = va THEN e ELSE k.spte[v]
    BY <1>2, <1>3
  <1> QED BY <1>3, <1>4 DEF r, f

(* The entries a shadow entry is changed to.                               *)
LEMMA ShadowFrom ==
    ASSUME NEW e \in ShadowPTEs
    PROVE  /\ \A x \in BOOLEAN : LET f == [e EXCEPT !.dirty = x] IN
                 /\ f \in ShadowPTEs /\ f.dirty = x /\ f.page = e.page
                 /\ f.present = e.present /\ f.perm = e.perm
           /\ \A x \in BOOLEAN : LET f == [e EXCEPT !.present = x] IN
                 /\ f \in ShadowPTEs /\ f.present = x /\ f.page = e.page
                 /\ f.dirty = e.dirty /\ f.perm = e.perm
           /\ \A x \in Pages \cup {NULL} : LET f == [e EXCEPT !.page = x] IN
                 /\ f \in ShadowPTEs /\ f.page = x /\ f.present = e.present
                 /\ f.dirty = e.dirty /\ f.perm = e.perm
           /\ \A x \in SUBSET {"R", "W", "T", "Z"} :
                 LET f == [e EXCEPT !.perm = x] IN
                 /\ f \in ShadowPTEs /\ f.page = e.page
                 /\ f.present = e.present /\ f.dirty = e.dirty /\ f.perm = x
           /\ LET f == [e EXCEPT !.dirty = FALSE, !.present = FALSE,
                                 !.page = NULL] IN
                 /\ f \in ShadowPTEs /\ f.page = NULL /\ ~f.present
                 /\ ~f.dirty /\ f.perm = e.perm
  BY DEF ShadowPTEs

(* A page is marked dirty.                                                 *)
LEMMA Dirtied ==
    ASSUME NEW k, NEW X, NEW off, KInv(k, X, off), NEW va \in VAs
    PROVE  LET r == [k EXCEPT !.spte[va].dirty = TRUE] IN
           /\ KInv(r, X, off) /\ SameTasks(k, r)
           /\ SamePages(k, r) /\ r.latest = k.latest
           /\ \A v \in VAs : /\ r.spte[v].page = k.spte[v].page
                             /\ r.spte[v].present = k.spte[v].present
                             /\ r.spte[v].perm = k.spte[v].perm
  <1> DEFINE r == [k EXCEPT !.spte[va].dirty = TRUE]
             e == [k.spte[va] EXCEPT !.dirty = TRUE]
  <1>1. k \in KStates /\ TableFits(k)
    BY DEF KInv, MemoryFits
  <1>2. k.spte[va] \in ShadowPTEs
    BY <1>1, KFields
  <1>3. /\ e \in ShadowPTEs /\ e.dirty /\ e.page = k.spte[va].page
        /\ e.present = k.spte[va].present /\ e.perm = k.spte[va].perm
    BY <1>2, ShadowFrom
  <1>4. r = [k EXCEPT !.spte = [k.spte EXCEPT ![va] = e]]
    OBVIOUS
  <1> HIDE DEF r, e
  <1>5. /\ r \in KStates
        /\ \A v \in VAs : r.spte[v] = IF v = va THEN e ELSE k.spte[v]
        /\ r.hpte = k.hpte /\ r.latest = k.latest /\ r.panic = k.panic
        /\ SamePages(k, r) /\ SameQueue(k, r) /\ SameTasks(k, r)
    BY <1>1, <1>3, <1>4, ShadowChanged
  <1>6. \A v \in VAs : /\ r.spte[v].page = k.spte[v].page
                       /\ r.spte[v].present = k.spte[v].present
                       /\ r.spte[v].perm = k.spte[v].perm
                       /\ k.spte[v].dirty => r.spte[v].dirty
    BY <1>3, <1>5
  <1>7. TableFits(r)
    BY <1>1, <1>5, <1>6 DEF TableFits
  <1>8. KInv(r, X, off)
    BY <1>5, <1>6, <1>7, TableStep
  <1> QED BY <1>5, <1>6, <1>8 DEF r

(* setPermSPTE tracks pages of a block with handlers only.                 *)
LEMMA PermissionsFit ==
    ASSUME NEW perm \in SUBSET {"R", "W", "T", "Z"}, NEW a, NEW va \in VAs,
           "T" \in perm => va \in Backed
    PROVE  /\ setPermSPTE(perm, a, va) \in SUBSET {"R", "W", "T", "Z"}
           /\ "T" \in setPermSPTE(perm, a, va) => va \in Backed
  BY DEF setPermSPTE

(* mmSetPermission                                                         *)
LEMMA PermissionsSet ==
    ASSUME NEW k, NEW X, NEW off, KInv(k, X, off), NEW va \in VAs, NEW a
    PROVE  /\ KInv(mmSetPermission(k, va, a), X, off)
           /\ mmSetPermission(k, va, a).sched = k.sched
  <1> DEFINE k1 == IF k.spte[va].present THEN delEntry(k, va) ELSE k
             x == setPermSPTE(k1.spte[va].perm, a, va)
             e == [k1.spte[va] EXCEPT !.perm = x]
             r == [k1 EXCEPT !.spte[va].perm = x]
  <1>1. mmSetPermission(k, va, a) = r
    BY Zenon DEF mmSetPermission
  <1>2. /\ KInv(k1, X, off) /\ k1.sched = k.sched /\ k1.hpte[va] = NULL
    <2>1. CASE k.spte[va].present
      BY <2>1, EntryDeleted
    <2>2. CASE ~k.spte[va].present
      BY <2>2 DEF KInv, MemoryFits, TableFits
    <2> QED BY <2>1, <2>2
  <1> HIDE DEF k1
  <1>3. k1 \in KStates /\ TableFits(k1)
    BY <1>2 DEF KInv, MemoryFits
  <1>4. k1.spte[va] \in ShadowPTEs
    BY <1>3, KFields
  <1>5. x \in SUBSET {"R", "W", "T", "Z"} /\ ("T" \in x => va \in Backed)
    <2>1. /\ k1.spte[va].perm \in SUBSET {"R", "W", "T", "Z"}
          /\ "T" \in k1.spte[va].perm => va \in Backed
      BY <1>3, <1>4, ShadowFields DEF TableFits
    <2> QED BY <2>1, PermissionsFit
  <1> HIDE DEF x
  <1>6. /\ e \in ShadowPTEs /\ e.perm = x /\ e.page = k1.spte[va].page
        /\ e.present = k1.spte[va].present /\ e.dirty = k1.spte[va].dirty
    BY <1>4, <1>5 DEF ShadowPTEs
  <1>7. r = [k1 EXCEPT !.spte = [k1.spte EXCEPT ![va] = e]]
    OBVIOUS
  <1> HIDE DEF r, e
  <1>8. /\ r \in KStates
        /\ \A v \in VAs : r.spte[v] = IF v = va THEN e ELSE k1.spte[v]
        /\ r.hpte = k1.hpte /\ r.latest = k1.latest /\ r.panic = k1.panic
        /\ SamePages(k1, r) /\ SameQueue(k1, r) /\ SameTasks(k1, r)
    BY <1>3, <1>6, <1>7, ShadowChanged
  <1>9. TableFits(r)
    BY <1>2, <1>3, <1>5, <1>6, <1>8 DEF TableFits
  <1>10. KInv(r, X, off)
    BY <1>2, <1>6, <1>8, <1>9, TableStep
  <1> QED BY <1>1, <1>2, <1>8, <1>10 DEF SameTasks

-----------------------------------------------------------------------------
(* Pages and their contents.                                               *)

(* Steps that leave the queue and the tasks alone.                         *)
LEMMA MemoryStep ==
    ASSUME NEW k, NEW X, NEW off, KInv(k, X, off), NEW r \in KStates,
           SameQueue(k, r), SameTasks(k, r), r.va2pa = k.va2pa,
           PagesFit(r), TableFits(r), FlightsFit(r), ContentsFit(r)
    PROVE  KInv(r, X, off)
  <1>1. /\ QueueFits(k) /\ FlightsOnce(k) /\ SentFits(k, X) /\ TasksFit(k)
        /\ Holds(k.sched, {}, Ready(k) \ off)
    BY DEF KInv, MemoryFits
  <1>2. SameLists(k, r) /\ r.sched = k.sched
    BY DEF SameTasks, SameLists
  <1>3. /\ QueueFits(r) /\ FlightsOnce(r) /\ SentFits(r, X) /\ TasksFit(r)
        /\ Ready(r) = Ready(k)
    BY <1>1, <1>2, SameParts
  <1> QED BY <1>1, <1>2, <1>3 DEF KInv, MemoryFits

(* The page of a virtual page is of nothing else.                          *)
LEMMA OwnPage ==
    ASSUME NEW k, NEW X, NEW off, KInv(k, X, off), NEW va \in VAs,
           NEW p \in Pages, k.spte[va].page = p, NULL \notin Pages
    PROVE  /\ p \notin k.avail
           /\ \A v \in VAs : v # va => k.spte[v].page # p
           /\ \A v \in VAs : ~Writing(k, v, p)
           /\ \A v \in VAs : ~Unwritten(k, v, p)
           /\ \A m \in Messages :
                 Flies(k, m) /\ m.handler = "read" /\ m.data = p => m.key = va
  <1>1. PagesFit(k) /\ FlightsFit(k)
    BY DEF KInv, MemoryFits
  <1>2. /\ p \notin k.avail
        /\ \A v \in VAs : v # va => k.spte[v].page # p
        /\ \A v \in VAs : ~Writing(k, v, p)
    BY <1>1 DEF PagesFit, ShadowApart, WritesApart
  <1>3. ASSUME NEW v \in VAs, Unwritten(k, v, p) PROVE FALSE
    BY <1>1, <1>2, <1>3 DEF Unwritten, FlightsFit
  <1>4. ASSUME NEW m \in Messages, Flies(k, m), m.handler = "read",
               m.data = p
        PROVE  m.key = va
    <2>1. m.key \in VAs
      BY MessageFields
    <2> QED BY <1>1, <1>2, <1>4, <2>1 DEF FlightsFit
  <1> QED BY <1>2, <1>3, <1>4

(* Of a present page there is no message on its way.                       *)
LEMMA PresentIsIdle ==
    ASSUME NEW k, NEW X, NEW off, KInv(k, X, off), NEW va \in VAs,
           k.spte[va].present
    PROVE  /\ \A h : ~OnItsWay(k, h, va)
           /\ \A p : ~Unwritten(k, va, p)
           /\ \A m \in Messages : Flies(k, m) => m.key # va
  <1>1. FlightsFit(k)
    BY DEF KInv, MemoryFits
  <1>2. \A m \in Messages : Flies(k, m) => m.key # va
    BY <1>1 DEF FlightsFit
  <1> QED BY <1>2 DEF OnItsWay, Unwritten

(* A fault takes the page it may get.                                      *)
Taken(k, va, p) == [k EXCEPT !.avail = @ \ {p}, !.spte[va].page = p]

(* A page is taken for a fault.                                            *)
LEMMA TakePage ==
    ASSUME BlockHandlers, NEW k, NEW X, NEW off, KInv(k, X, off),
           NEW va \in VAs, ~k.spte[va].present,
           NEW p \in Frames(k, va), p # NULL
    PROVE  LET r == Taken(k, va, p) IN
           /\ KInv(r, X, off) /\ p \in Pages /\ r.spte[va].page = p
           /\ ~r.spte[va].present
           /\ r.latest = k.latest /\ r.sched = k.sched
  <1> DEFINE r == Taken(k, va, p)
             e == [k.spte[va] EXCEPT !.page = p]
             f == [k.spte EXCEPT ![va] = e]
  <1>1. /\ k \in KStates /\ PagesFit(k) /\ TableFits(k) /\ FlightsFit(k)
        /\ ContentsFit(k)
    BY DEF KInv, MemoryFits
  <1>2. /\ k.spte \in [VAs -> ShadowPTEs] /\ k.avail \in SUBSET Pages
        /\ k.spte[va] \in ShadowPTEs
    BY <1>1, KFields
  <1>3. /\ k.spte[va].page \in Pages \cup {NULL}
        /\ NULL \notin Pages /\ VAs \subseteq Nat
    BY <1>2, ShadowFields, BlockFacts
  <1>4. /\ p \in Pages
        /\ k.spte[va].page = p \/ (k.spte[va].page = NULL /\ p \in k.avail)
    BY <1>2, <1>3 DEF Frames
  <1>5. /\ e \in ShadowPTEs /\ e.page = p /\ e.present = k.spte[va].present
        /\ e.dirty = k.spte[va].dirty /\ e.perm = k.spte[va].perm
    BY <1>2, <1>4 DEF ShadowPTEs
  <1>6. r = [k EXCEPT !.avail = @ \ {p}, !.spte = f]
    BY DEF Taken
  <1> HIDE DEF e
  <1>7. /\ f \in [VAs -> ShadowPTEs]
        /\ \A v \in VAs : f[v] = IF v = va THEN e ELSE k.spte[v]
    BY <1>2, <1>5
  <1> HIDE DEF f, r
  <1>8. /\ r \in KStates /\ r.spte = f /\ r.avail = k.avail \ {p}
        /\ r.hpte = k.hpte /\ r.latest = k.latest /\ r.panic = k.panic
        /\ r.va2pa = k.va2pa /\ SameQueue(k, r) /\ SameTasks(k, r)
    BY <1>1, <1>2, <1>6, <1>7 DEF KStates, SameQueue, SameTasks
  <1>9. \A v \in VAs : /\ r.spte[v].page = IF v = va THEN p ELSE k.spte[v].page
                       /\ r.spte[v].present = k.spte[v].present
                       /\ r.spte[v].dirty = k.spte[v].dirty
                       /\ r.spte[v].perm = k.spte[v].perm
    BY <1>5, <1>7, <1>8
  <1>10. /\ \A v, q : Writing(r, v, q) <=> Writing(k, v, q)
         /\ \A m : Flies(r, m) <=> Flies(k, m)
         /\ \A v, q : Unwritten(r, v, q) <=> Unwritten(k, v, q)
    BY <1>8, SameThings
  <1>11. PagesFit(r)
    <2>1. ShadowApart(r)
      <3>1. ASSUME NEW v \in VAs, NEW w \in VAs,
                   r.spte[v].page = r.spte[w].page, r.spte[v].page # NULL
            PROVE  v = w
        BY <1>1, <1>3, <1>4, <1>9, <3>1 DEF PagesFit, ShadowApart
      <3>2. \A v \in VAs : r.spte[v].page \notin r.avail
        BY <1>1, <1>8, <1>9 DEF PagesFit, ShadowApart
      <3> QED BY <3>1, <3>2 DEF ShadowApart
    <2>2. WritesApart(r)
      BY <1>1, <1>4, <1>8, <1>9, <1>10 DEF PagesFit, WritesApart
    <2>3. NoPageLost(r)
      BY <1>1, <1>3, <1>4, <1>8, <1>9, <1>10 DEF PagesFit, NoPageLost
    <2> QED BY <2>1, <2>2, <2>3 DEF PagesFit
  <1>12. TableFits(r)
    BY <1>1, <1>8, <1>9 DEF TableFits
  <1>13. FlightsFit(r)
    <2> SUFFICES ASSUME NEW m \in Messages, Flies(k, m)
                 PROVE  /\ m.key \in Backed /\ ~r.spte[m.key].present
                        /\ m.handler = "read" => r.spte[m.key].page = m.data
                        /\ m.handler = "write" => Writing(k, m.key, m.data)
      BY <1>10 DEF FlightsFit
    <2>1. m.key \in VAs /\ m.data \in Pages
      BY MessageFields
    <2> QED BY <1>1, <1>3, <1>4, <1>9, <2>1 DEF FlightsFit
  <1>14. ContentsFit(r)
    <2>1. \A v \in VAs : r.spte[v].present =>
             r.spte[v].page # NULL /\ r.spte[v].page \in r.latest[v]
      BY <1>1, <1>8, <1>9 DEF ContentsFit
    <2>2. \A v \in VAs : \/ Device \in r.latest[v]
                         \/ r.spte[v].present /\ r.spte[v].dirty
                         \/ \E q \in Pages : Unwritten(r, v, q)
      BY <1>1, <1>8, <1>9, <1>10 DEF ContentsFit
    <2>3. /\ \A v \in VAs : \A q \in Pages :
                Unwritten(r, v, q) => q \in r.latest[v]
          /\ \A m \in Messages :
                Flies(r, m) /\ m.handler = "read" /\ m.done =>
                   m.data \in r.latest[m.key]
      BY <1>1, <1>8, <1>10 DEF ContentsFit
    <2> QED BY <2>1, <2>2, <2>3 DEF ContentsFit
  <1>15. KInv(r, X, off)
    BY <1>8, <1>11, <1>12, <1>13, <1>14, MemoryStep
  <1> QED BY <1>4, <1>8, <1>9, <1>15 DEF r, SameTasks

(* Only what is known of the contents changes.                             *)
LEMMA LatestStep ==
    ASSUME NEW k, NEW X, NEW off, KInv(k, X, off),
           NEW L \in [VAs -> SUBSET (Pages \cup {Device})], NEW r,
           r = [k EXCEPT !.latest = L],
           \A v \in VAs : k.spte[v].present => k.spte[v].page \in L[v],
           \A v \in VAs : \/ Device \in L[v]
                          \/ k.spte[v].present /\ k.spte[v].dirty
                          \/ \E p \in Pages : Unwritten(k, v, p),
           \A v \in VAs : \A p \in Pages : Unwritten(k, v, p) => p \in L[v],
           \A m \in Messages : Flies(k, m) /\ m.handler = "read" /\ m.done =>
              m.data \in L[m.key]
    PROVE  /\ KInv(r, X, off) /\ r.latest = L /\ r.spte = k.spte
           /\ SameQueue(k, r) /\ SameTasks(k, r) /\ SamePages(k, r)
           /\ r.hpte = k.hpte
  <1>1. /\ k \in KStates /\ PagesFit(k) /\ TableFits(k) /\ FlightsFit(k)
        /\ ContentsFit(k)
    BY DEF KInv, MemoryFits
  <1>2. /\ r \in KStates /\ r.spte = k.spte /\ r.avail = k.avail
        /\ r.hpte = k.hpte /\ r.latest = L /\ r.panic = k.panic
        /\ r.va2pa = k.va2pa /\ SameQueue(k, r) /\ SameTasks(k, r)
        /\ SamePages(k, r)
    BY <1>1 DEF KStates, SameQueue, SameTasks, SamePages
  <1>3. /\ \A v, q : Writing(r, v, q) <=> Writing(k, v, q)
        /\ \A m : Flies(r, m) <=> Flies(k, m)
        /\ \A v, q : Unwritten(r, v, q) <=> Unwritten(k, v, q)
    BY <1>2, SameThings
  <1>4. PagesFit(r)
    BY <1>1, <1>2, <1>3
       DEF PagesFit, ShadowApart, WritesApart, NoPageLost
  <1>5. TableFits(r) /\ FlightsFit(r)
    BY <1>1, <1>2, <1>3 DEF TableFits, FlightsFit
  <1>6. ContentsFit(r)
    BY <1>1, <1>2, <1>3 DEF ContentsFit
  <1> QED BY <1>2, <1>4, <1>5, <1>6, MemoryStep

(* What is behind a virtual page is copied to the page it has, whose       *)
(* contents nobody uses yet.                                               *)
LEMMA PageFilled ==
    ASSUME BlockHandlers, NEW k, NEW X, NEW off, KInv(k, X, off),
           NEW va \in VAs, NEW p \in Pages, k.spte[va].page = p,
           ~k.spte[va].present, \A q \in Pages : ~Unwritten(k, va, q)
    PROVE  LET r == [k EXCEPT !.latest = Copied(@, va, Device, p)] IN
           /\ KInv(r, X, off) /\ p \in r.latest[va] /\ r.spte = k.spte
           /\ SameQueue(k, r) /\ SameTasks(k, r) /\ SamePages(k, r)
           /\ r.hpte = k.hpte
  <1> DEFINE L == Copied(k.latest, va, Device, p)
             r == [k EXCEPT !.latest = Copied(@, va, Device, p)]
  <1>1. k \in KStates /\ ContentsFit(k) /\ FlightsFit(k)
    BY DEF KInv, MemoryFits
  <1>2. /\ k.latest \in [VAs -> SUBSET (Pages \cup {Device})]
        /\ Device \notin Pages /\ NULL \notin Pages
    BY <1>1, KFields, BlockFacts
  <1>3. Device \in k.latest[va] /\ p # Device
    BY <1>1, <1>2 DEF ContentsFit
  <1>4. \A v \in VAs : L[v] = IF v = va THEN k.latest[v] \cup {p}
                              ELSE k.latest[v] \ {p}
    BY <1>3 DEF Copied
  <1>5. L \in [VAs -> SUBSET (Pages \cup {Device})]
    <2>1. L = [v \in VAs |-> L[v]]
      BY DEF Copied
    <2> HIDE DEF L
    <2> QED BY <1>2, <1>4, <2>1
  <1>6. r = [k EXCEPT !.latest = L]
    OBVIOUS
  <1> HIDE DEF L, r
  <1>7. /\ \A v \in VAs : v # va => k.spte[v].page # p
        /\ \A v \in VAs : ~Unwritten(k, v, p)
        /\ \A m \in Messages :
              Flies(k, m) /\ m.handler = "read" /\ m.data = p => m.key = va
    BY <1>2, OwnPage
  <1>8. \A v \in VAs : k.spte[v].present => k.spte[v].page \in L[v]
    BY <1>1, <1>4, <1>7 DEF ContentsFit
  <1>9. \A v \in VAs : \/ Device \in L[v]
                       \/ k.spte[v].present /\ k.spte[v].dirty
                       \/ \E q \in Pages : Unwritten(k, v, q)
    BY <1>1, <1>3, <1>4 DEF ContentsFit
  <1>10. ASSUME NEW v \in VAs, NEW q \in Pages, Unwritten(k, v, q)
         PROVE  q \in L[v]
    <2>1. v # va /\ q # p
      BY <1>7, <1>10
    <2>2. q \in k.latest[v]
      BY <1>1, <1>10 DEF ContentsFit
    <2> QED BY <1>4, <2>1, <2>2
  <1>11. ASSUME NEW m \in Messages, Flies(k, m), m.handler = "read", m.done
         PROVE  m.data \in L[m.key]
    <2>1. m.key \in VAs /\ m.data \in k.latest[m.key]
      BY <1>1, <1>11, MessageFields DEF ContentsFit
    <2> QED BY <1>4, <1>7, <1>11, <2>1
  <1>12. /\ KInv(r, X, off) /\ r.latest = L /\ r.spte = k.spte
         /\ SameQueue(k, r) /\ SameTasks(k, r) /\ SamePages(k, r)
         /\ r.hpte = k.hpte
    BY <1>5, <1>6, <1>8, <1>9, <1>10, <1>11, LatestStep
  <1>13. p \in r.latest[va]
    BY <1>4, <1>12
  <1> QED BY <1>12, <1>13, Zenon DEF r

(* A page that is being written is copied to the device.                   *)
LEMMA PageSaved ==
    ASSUME BlockHandlers, NEW k, NEW X, NEW off, KInv(k, X, off),
           NEW va \in VAs, NEW p \in Pages, p \in k.latest[va]
    PROVE  LET r == [k EXCEPT !.latest = Copied(@, va, p, Device)] IN
           /\ KInv(r, X, off) /\ Device \in r.latest[va] /\ r.spte = k.spte
           /\ SameQueue(k, r) /\ SameTasks(k, r) /\ SamePages(k, r)
           /\ r.hpte = k.hpte
  <1> DEFINE L == Copied(k.latest, va, p, Device)
             r == [k EXCEPT !.latest = Copied(@, va, p, Device)]
  <1>1. k \in KStates /\ ContentsFit(k)
    BY DEF KInv, MemoryFits
  <1>2. k.latest \in [VAs -> SUBSET (Pages \cup {Device})]
    BY <1>1, KFields
  <1>3. \A v \in VAs : L[v] = IF v = va THEN k.latest[v] \cup {Device}
                              ELSE k.latest[v]
    BY DEF Copied
  <1>4. L \in [VAs -> SUBSET (Pages \cup {Device})]
    <2>1. L = [v \in VAs |-> L[v]]
      BY DEF Copied
    <2> HIDE DEF L
    <2> QED BY <1>2, <1>3, <2>1
  <1>5. r = [k EXCEPT !.latest = L]
    OBVIOUS
  <1> HIDE DEF L, r
  <1>6. \A v \in VAs : k.latest[v] \subseteq L[v]
    BY <1>3
  <1>7. ASSUME NEW m \in Messages, Flies(k, m), m.handler = "read", m.done
         PROVE  m.data \in L[m.key]
    BY <1>1, <1>6, <1>7, MessageFields DEF ContentsFit
  <1>8. /\ \A v \in VAs : k.spte[v].present => k.spte[v].page \in L[v]
        /\ \A v \in VAs : \/ Device \in L[v]
                          \/ k.spte[v].present /\ k.spte[v].dirty
                          \/ \E q \in Pages : Unwritten(k, v, q)
        /\ \A v \in VAs : \A q \in Pages : Unwritten(k, v, q) => q \in L[v]
    BY <1>1, <1>6 DEF ContentsFit
  <1>9. /\ KInv(r, X, off) /\ r.latest = L /\ r.spte = k.spte
        /\ SameQueue(k, r) /\ SameTasks(k, r) /\ SamePages(k, r)
        /\ r.hpte = k.hpte
    BY <1>4, <1>5, <1>7, <1>8, LatestStep
  <1>10. Device \in r.latest[va]
    BY <1>3, <1>9
  <1> QED BY <1>9, <1>10, Zenon DEF r

(* A store to a page that is mapped and dirty.                             *)
LEMMA PageStored ==
    ASSUME BlockHandlers, NEW k, NEW X, NEW off, KInv(k, X, off),
           NEW va \in VAs, NEW p \in Pages, k.spte[va].page = p,
           k.spte[va].present, k.spte[va].dirty
    PROVE  LET r == [k EXCEPT !.latest = Stored(@, va, p)] IN
           KInv(r, X, off)
  <1> DEFINE L == Stored(k.latest, va, p)
             r == [k EXCEPT !.latest = Stored(@, va, p)]
  <1>1. k \in KStates /\ ContentsFit(k)
    BY DEF KInv, MemoryFits
  <1>2. /\ k.latest \in [VAs -> SUBSET (Pages \cup {Device})]
        /\ NULL \notin Pages /\ Device \notin Pages
    BY <1>1, KFields, BlockFacts
  <1>3. \A v \in VAs : L[v] = IF v = va THEN {p} ELSE k.latest[v] \ {p}
    BY DEF Stored
  <1>4. L \in [VAs -> SUBSET (Pages \cup {Device})]
    <2>1. L = [v \in VAs |-> L[v]]
      BY DEF Stored
    <2> HIDE DEF L
    <2> QED BY <1>2, <1>3, <2>1
  <1>5. r = [k EXCEPT !.latest = L]
    OBVIOUS
  <1> HIDE DEF L, r
  <1>6. /\ \A v \in VAs : v # va => k.spte[v].page # p
        /\ \A v \in VAs : ~Unwritten(k, v, p)
        /\ \A m \in Messages :
              Flies(k, m) /\ m.handler = "read" /\ m.data = p => m.key = va
    BY <1>2, OwnPage
  <1>7. /\ \A q : ~Unwritten(k, va, q)
        /\ \A m \in Messages : Flies(k, m) => m.key # va
    BY PresentIsIdle
  <1>8. \A v \in VAs : k.spte[v].present => k.spte[v].page \in L[v]
    BY <1>1, <1>3, <1>6 DEF ContentsFit
  <1>9. \A v \in VAs : \/ Device \in L[v]
                       \/ k.spte[v].present /\ k.spte[v].dirty
                       \/ \E q \in Pages : Unwritten(k, v, q)
    BY <1>1, <1>2, <1>3 DEF ContentsFit
  <1>10. ASSUME NEW v \in VAs, NEW q \in Pages, Unwritten(k, v, q)
         PROVE  q \in L[v]
    <2>1. v # va /\ q # p /\ q \in k.latest[v]
      BY <1>1, <1>6, <1>7, <1>10 DEF ContentsFit
    <2> QED BY <1>3, <2>1
  <1>11. ASSUME NEW m \in Messages, Flies(k, m), m.handler = "read", m.done
         PROVE  m.data \in L[m.key]
    <2>1. m.key \in VAs /\ m.data \in k.latest[m.key]
      BY <1>1, <1>11, MessageFields DEF ContentsFit
    <2> QED BY <1>3, <1>6, <1>7, <1>11, <2>1
  <1>12. KInv(r, X, off)
    BY <1>4, <1>5, <1>8, <1>9, <1>10, <1>11, LatestStep
  <1> QED BY <1>12 DEF r

(* A virtual page that has its contents becomes present.                   *)
LEMMA MadePresent ==
    ASSUME NEW k, NEW X, NEW off, KInv(k, X, off), NEW va \in VAs,
           k.spte[va].page # NULL, k.spte[va].page \in k.latest[va],
           \A m \in Messages : Flies(k, m) => m.key # va
    PROVE  LET r == [k EXCEPT !.spte[va].present = TRUE] IN
           /\ KInv(r, X, off) /\ r.spte[va].present
           /\ SamePages(k, r) /\ SameQueue(k, r) /\ SameTasks(k, r)
           /\ r.latest = k.latest /\ r.hpte = k.hpte
           /\ \A v \in VAs : r.spte[v].page = k.spte[v].page
  <1> DEFINE r == [k EXCEPT !.spte[va].present = TRUE]
             e == [k.spte[va] EXCEPT !.present = TRUE]
  <1>1. /\ k \in KStates /\ PagesFit(k) /\ TableFits(k) /\ FlightsFit(k)
        /\ ContentsFit(k)
    BY DEF KInv, MemoryFits
  <1>2. k.spte[va] \in ShadowPTEs
    BY <1>1, KFields
  <1>3. /\ e \in ShadowPTEs /\ e.present /\ e.page = k.spte[va].page
        /\ e.dirty = k.spte[va].dirty /\ e.perm = k.spte[va].perm
    BY <1>2, ShadowFrom
  <1>4. r = [k EXCEPT !.spte = [k.spte EXCEPT ![va] = e]]
    OBVIOUS
  <1> HIDE DEF r, e
  <1>5. /\ r \in KStates
        /\ \A v \in VAs : r.spte[v] = IF v = va THEN e ELSE k.spte[v]
        /\ r.hpte = k.hpte /\ r.latest = k.latest /\ r.panic = k.panic
        /\ SamePages(k, r) /\ SameQueue(k, r) /\ SameTasks(k, r)
    BY <1>1, <1>3, <1>4, ShadowChanged
  <1>6. \A v \in VAs : /\ r.spte[v].page = k.spte[v].page
                       /\ r.spte[v].dirty = k.spte[v].dirty
                       /\ r.spte[v].perm = k.spte[v].perm
                       /\ r.spte[v].present <=> v = va \/ k.spte[v].present
    BY <1>3, <1>5
  <1>7. /\ \A v, q : Writing(r, v, q) <=> Writing(k, v, q)
        /\ \A m : Flies(r, m) <=> Flies(k, m)
        /\ \A v, q : Unwritten(r, v, q) <=> Unwritten(k, v, q)
        /\ r.va2pa = k.va2pa /\ r.avail = k.avail
    BY <1>5, SameThings DEF SamePages
  <1>8. PagesFit(r)
    BY <1>1, <1>6, <1>7
       DEF PagesFit, ShadowApart, WritesApart, NoPageLost
  <1>9. TableFits(r)
    BY <1>1, <1>5, <1>6 DEF TableFits
  <1>10. FlightsFit(r)
    <2> SUFFICES ASSUME NEW m \in Messages, Flies(k, m)
                 PROVE  /\ m.key \in Backed /\ ~r.spte[m.key].present
                        /\ m.handler = "read" => r.spte[m.key].page = m.data
                        /\ m.handler = "write" => Writing(k, m.key, m.data)
      BY <1>7 DEF FlightsFit
    <2>1. m.key \in VAs /\ m.key # va
      BY MessageFields
    <2> QED BY <1>1, <1>6, <2>1 DEF FlightsFit
  <1>11. ContentsFit(r)
    BY <1>1, <1>5, <1>6, <1>7 DEF ContentsFit
  <1>12. KInv(r, X, off)
    BY <1>5, <1>7, <1>8, <1>9, <1>10, <1>11, MemoryStep
  <1> QED BY <1>5, <1>6, <1>12 DEF r

(* releaseSPTE changes one shadow entry.                                   *)
LEMMA ReleaseIs ==
    ASSUME NEW k, NEW va
    PROVE  releaseSPTE(k, va) =
              [k EXCEPT !.spte = [k.spte EXCEPT ![va] =
                  [k.spte[va] EXCEPT !.dirty = FALSE, !.present = FALSE,
                                     !.page = NULL]]]
  BY DEF releaseSPTE

(* A page is released; g is k, or k after what was stored there is given   *)
(* up.                                                                     *)
LEMMA PageReleased ==
    ASSUME BlockHandlers, NEW k, NEW X, NEW off, KInv(k, X, off),
           NEW va \in VAs, k.spte[va].present, k.hpte[va] = NULL, NEW g,
           g = k \/ g = [k EXCEPT !.latest[va] = {Device}],
           Device \in g.latest[va]
    PROVE  LET r == freePage(releaseSPTE(g, va), k.spte[va].page) IN
           KInv(r, X, off) /\ SameTasks(k, r)
  <1> DEFINE p == k.spte[va].page
             r == freePage(releaseSPTE(g, va), p)
             e == [k.spte[va] EXCEPT !.dirty = FALSE, !.present = FALSE,
                                     !.page = NULL]
             f == [k.spte EXCEPT ![va] = e]
             L == [v \in VAs |-> g.latest[v] \ {p}]
  <1>1. /\ k \in KStates /\ PagesFit(k) /\ TableFits(k) /\ FlightsFit(k)
        /\ ContentsFit(k)
    BY DEF KInv, MemoryFits
  <1>2. /\ k.spte \in [VAs -> ShadowPTEs] /\ k.avail \in SUBSET Pages
        /\ k.spte[va] \in ShadowPTEs
        /\ k.latest \in [VAs -> SUBSET (Pages \cup {Device})]
        /\ NULL \notin Pages /\ Device \notin Pages
    BY <1>1, KFields, BlockFacts
  <1>3. p \in Pages
    BY <1>1, <1>2, ShadowFields DEF ContentsFit
  <1>4. /\ e \in ShadowPTEs /\ e.page = NULL /\ ~e.present /\ ~e.dirty
        /\ e.perm = k.spte[va].perm
    BY <1>2, ShadowFrom
  <1>5. /\ g \in KStates /\ g.spte = k.spte /\ g.avail = k.avail
        /\ g.hpte = k.hpte /\ g.panic = k.panic /\ g.va2pa = k.va2pa
        /\ SameQueue(k, g) /\ SameTasks(k, g)
        /\ \A v \in VAs : v # va => g.latest[v] = k.latest[v]
    <2>1. CASE g = k
      BY <1>1, <2>1 DEF SameQueue, SameTasks
    <2>2. CASE g = [k EXCEPT !.latest[va] = {Device}]
      <3> DEFINE h == [k.latest EXCEPT ![va] = {Device}]
      <3>1. /\ h \in [VAs -> SUBSET (Pages \cup {Device})]
            /\ \A v \in VAs : v # va => h[v] = k.latest[v]
        BY <1>2
      <3>2. g = [k EXCEPT !.latest = h]
        BY <2>2
      <3> HIDE DEF h
      <3> QED BY <1>1, <3>1, <3>2 DEF KStates, SameQueue, SameTasks
    <2> QED BY <2>1, <2>2
  <1>6. /\ L \in [VAs -> SUBSET (Pages \cup {Device})]
        /\ \A v \in VAs : L[v] = g.latest[v] \ {p}
    BY <1>5, KFields
  <1> HIDE DEF e
  <1>7. /\ f \in [VAs -> ShadowPTEs]
        /\ \A v \in VAs : f[v] = IF v = va THEN e ELSE k.spte[v]
    BY <1>2, <1>4
  <1>8. releaseSPTE(g, va) = [g EXCEPT !.spte = f]
    <2>1. f = [g.spte EXCEPT ![va] =
                  [g.spte[va] EXCEPT !.dirty = FALSE, !.present = FALSE,
                                     !.page = NULL]]
      BY <1>5, Zenon DEF e
    <2> QED BY <2>1, ReleaseIs, Zenon
  <1>9. r = [[g EXCEPT !.spte = f] EXCEPT !.avail = k.avail \cup {p},
                                         !.latest = L]
    BY <1>5, <1>8 DEF freePage, KStates
  <1> HIDE DEF f, r, L, p
  <1>10. /\ r \in KStates /\ r.spte = f /\ r.avail = k.avail \cup {p}
         /\ r.hpte = k.hpte /\ r.latest = L /\ r.panic = k.panic
         /\ r.va2pa = k.va2pa /\ SameQueue(k, r) /\ SameTasks(k, r)
    BY <1>2, <1>3, <1>5, <1>6, <1>7, <1>9 DEF KStates, SameQueue, SameTasks
  <1>11. /\ r.spte[va].page = NULL /\ ~r.spte[va].present
         /\ r.spte[va].perm = k.spte[va].perm
         /\ \A v \in VAs : v # va => r.spte[v] = k.spte[v]
    BY <1>4, <1>7, <1>10
  <1>12. /\ \A v, q : Writing(r, v, q) <=> Writing(k, v, q)
         /\ \A m : Flies(r, m) <=> Flies(k, m)
         /\ \A v, q : Unwritten(r, v, q) <=> Unwritten(k, v, q)
    BY <1>10, SameThings
  <1>13. /\ p \notin k.avail
         /\ \A v \in VAs : v # va => k.spte[v].page # p
         /\ \A v \in VAs : ~Writing(k, v, p)
         /\ \A v \in VAs : ~Unwritten(k, v, p)
         /\ \A m \in Messages :
               Flies(k, m) /\ m.handler = "read" /\ m.data = p => m.key = va
    BY <1>2, <1>3, OwnPage DEF p
  <1>14. /\ \A q : ~Unwritten(k, va, q)
         /\ \A m \in Messages : Flies(k, m) => m.key # va
    BY PresentIsIdle
  <1>15. PagesFit(r)
    <2>1. ShadowApart(r)
      <3>1. ASSUME NEW v \in VAs, NEW w \in VAs,
                   r.spte[v].page = r.spte[w].page, r.spte[v].page # NULL
            PROVE  v = w
        BY <1>1, <1>11, <3>1 DEF PagesFit, ShadowApart
      <3>2. ASSUME NEW v \in VAs PROVE r.spte[v].page \notin r.avail
        BY <1>1, <1>2, <1>3, <1>10, <1>11, <1>13 DEF PagesFit, ShadowApart
      <3> QED BY <3>1, <3>2 DEF ShadowApart
    <2>2. WritesApart(r)
      <3>1. ASSUME NEW v \in VAs, NEW w \in VAs, NEW q \in Pages,
                   Writing(k, v, q)
            PROVE  q \notin r.avail /\ r.spte[w].page # q
        BY <1>1, <1>2, <1>10, <1>11, <1>13, <3>1 DEF PagesFit, WritesApart
      <3> QED BY <1>1, <1>10, <1>12, <3>1 DEF PagesFit, WritesApart
    <2>3. NoPageLost(r)
      <3> SUFFICES ASSUME NEW q \in Pages, q # p
                   PROVE  \/ q \in k.avail
                          \/ \E v \in VAs : \/ r.spte[v].page = q
                                            \/ Writing(k, v, q)
        BY <1>10, <1>12 DEF NoPageLost
      <3> QED BY <1>1, <1>11 DEF PagesFit, NoPageLost, p
    <2> QED BY <2>1, <2>2, <2>3 DEF PagesFit
  <1>16. TableFits(r)
    <2> SUFFICES ASSUME NEW v \in VAs
                 PROVE  /\ "T" \in r.spte[v].perm => v \in Backed
                        /\ r.hpte[v] # NULL =>
                             /\ r.spte[v].present
                             /\ r.spte[v].page = r.hpte[v].page
                             /\ r.hpte[v].writable =>
                                   r.spte[v].dirty /\ "W" \in r.spte[v].perm
      BY <1>1, <1>10 DEF TableFits
    <2> QED BY <1>1, <1>10, <1>11 DEF TableFits
  <1>17. FlightsFit(r)
    <2> SUFFICES ASSUME NEW m \in Messages, Flies(k, m)
                 PROVE  /\ m.key \in Backed /\ ~r.spte[m.key].present
                        /\ m.handler = "read" => r.spte[m.key].page = m.data
                        /\ m.handler = "write" => Writing(k, m.key, m.data)
      BY <1>12 DEF FlightsFit
    <2>1. m.key \in VAs /\ m.key # va
      BY <1>14, MessageFields
    <2> QED BY <1>1, <1>11, <2>1 DEF FlightsFit
  <1>18. ContentsFit(r)
    <2>1. \A v \in VAs : r.spte[v].present =>
             r.spte[v].page # NULL /\ r.spte[v].page \in r.latest[v]
      BY <1>1, <1>5, <1>6, <1>10, <1>11, <1>13 DEF ContentsFit
    <2>2. ASSUME NEW v \in VAs
          PROVE  \/ Device \in r.latest[v]
                 \/ r.spte[v].present /\ r.spte[v].dirty
                 \/ \E q \in Pages : Unwritten(r, v, q)
      <3>1. CASE v = va
        BY <1>2, <1>3, <1>6, <1>10, <3>1
      <3>2. CASE v # va
        BY <1>1, <1>2, <1>3, <1>5, <1>6, <1>10, <1>11, <1>12, <3>2
           DEF ContentsFit
      <3> QED BY <3>1, <3>2
    <2>3. ASSUME NEW v \in VAs, NEW q \in Pages, Unwritten(r, v, q)
          PROVE  q \in r.latest[v]
      <3>1. v # va /\ q # p /\ q \in k.latest[v]
        BY <1>1, <1>12, <1>13, <1>14, <2>3 DEF ContentsFit
      <3> QED BY <1>5, <1>6, <1>10, <3>1
    <2>4. ASSUME NEW m \in Messages, Flies(r, m), m.handler = "read", m.done
          PROVE  m.data \in r.latest[m.key]
      <3>1. m.key \in VAs /\ m.key # va /\ m.data \in k.latest[m.key]
        BY <1>1, <1>12, <1>14, <2>4, MessageFields DEF ContentsFit
      <3>2. m.data # p
        BY <1>12, <1>13, <2>4, <3>1
      <3> QED BY <1>5, <1>6, <1>10, <3>1, <3>2
    <2> QED BY <2>1, <2>2, <2>3, <2>4 DEF ContentsFit
  <1>19. KInv(r, X, off)
    BY <1>10, <1>15, <1>16, <1>17, <1>18, MemoryStep
  <1> QED BY <1>10, <1>19 DEF r, p

-----------------------------------------------------------------------------
(* Messages are sent.                                                      *)

(* A kernel entry on a CPU leaves what runs on the others alone.           *)
SameElsewhere(s, r, c) == \A d \in Cpus : d # c => r.current[d] = s.current[d]

(* The operators of the scheduler do.                                      *)
LEMMA Elsewhere ==
    ASSUME NEW s \in SchedStates, NEW c \in Cpus
    PROVE  /\ SameElsewhere(s, setNextRunnable(s, c), c)
           /\ returnRunnable(s, c).current = s.current
           /\ \A t : SameElsewhere(s, setCurrentTask(s, c, t), c)
           /\ \A t : setCurrentTask(s, c, t).current[c] = t
           /\ \A t : addTask(s, t).current = s.current
  <1>1. s.current \in [Cpus -> Tasks \cup {Idle}]
    BY SchedFields
  <1>2. \A t : setCurrentTask(s, c, t).current = [s.current EXCEPT ![c] = t]
    BY DEF setCurrentTask, SchedStates
  <1>3. \A t : /\ SameElsewhere(s, setCurrentTask(s, c, t), c)
               /\ setCurrentTask(s, c, t).current[c] = t
    BY <1>1, <1>2 DEF SameElsewhere
  <1>4. \A t : addTask(s, t).current = s.current
    BY DEF addTask, SchedStates
  <1>5. returnRunnable(s, c).current = s.current
    BY <1>4 DEF returnRunnable
  <1>6. SameElsewhere(s, setNextRunnable(s, c), c)
    <2>1. CASE s.localq[c] # << >>
      <3> DEFINE q == [s EXCEPT !.localq[c] = Tail(@)]
                 t == Head(s.localq[c])
      <3>1. setNextRunnable(s, c) = setCurrentTask(q, c, t)
        BY <2>1, Zenon DEF setNextRunnable
      <3>2. q.current = s.current
        BY DEF SchedStates
      <3>3. setCurrentTask(q, c, t).current = [q.current EXCEPT ![c] = t]
        BY DEF setCurrentTask, SchedStates
      <3> HIDE DEF q, t
      <3> QED BY <1>1, <3>1, <3>2, <3>3 DEF SameElsewhere
    <2>2. CASE s.localq[c] = << >> /\ s.runq # << >>
      <3> DEFINE q == [s EXCEPT !.runq = Tail(@)]
                 t == Head(s.runq)
      <3>1. setNextRunnable(s, c) = setCurrentTask(q, c, t)
        BY <2>2, Zenon DEF setNextRunnable
      <3>2. q.current = s.current
        BY DEF SchedStates
      <3>3. setCurrentTask(q, c, t).current = [q.current EXCEPT ![c] = t]
        BY DEF setCurrentTask, SchedStates
      <3> HIDE DEF q, t
      <3> QED BY <1>1, <3>1, <3>2, <3>3 DEF SameElsewhere
    <2>3. CASE s.localq[c] = << >> /\ s.runq = << >>
      <3>1. setNextRunnable(s, c) = [s EXCEPT !.current[c] = Idle]
        BY <2>3, Zenon DEF setNextRunnable
      <3> QED BY <1>1, <3>1 DEF SameElsewhere, SchedStates
    <2> QED BY <2>1, <2>2, <2>3
  <1> QED BY <1>3, <1>4, <1>5, <1>6

(* Who gets the CPU when task t waits for a message that goes to the       *)
(* daemon that is ready for it, or to the queue (NULL).                    *)
SendSched(s, c, t, ready) ==
    CASE t = s.current[c] /\ ready # NULL -> setCurrentTask(s, c, ready)
      [] t = s.current[c] /\ ready = NULL -> setNextRunnable(s, c)
      [] t # s.current[c] /\ ready # NULL ->
            setCurrentTask(returnRunnable(s, c), c, ready)
      [] t # s.current[c] /\ ready = NULL -> s

(* The task does not run any more, and the daemon does.                    *)
LEMMA SendSchedules ==
    ASSUME BlockHandlers, NEW s, NEW K, Holds(s, {}, K), NEW c \in Cpus,
           NEW t, t = s.current[c] => t \in Tasks,
           t = s.current[c] \/ t \notin K,
           NEW ready \in {Daemon, NULL}, ready = Daemon => Daemon \notin K
    PROVE  LET r == SendSched(s, c, t, ready) IN
           /\ ready # NULL => Holds(r, {}, (K \ {t}) \cup {Daemon})
           /\ ready = NULL => Holds(r, {}, K \ {t})
           /\ SameElsewhere(s, r, c)
  <1> DEFINE r == SendSched(s, c, t, ready)
  <1>1. s \in SchedStates
    BY DEF Holds
  <1>2. Daemon \in Tasks /\ NULL # Daemon
    BY BlockFacts
  <1>3. CASE t = s.current[c] /\ ready # NULL
    <2>1. r = setCurrentTask(s, c, Daemon)
      BY <1>3, Zenon DEF SendSched
    <2>2. Holds(s, {c}, K \ {t})
      BY <1>3, Vacated
    <2>3. Daemon \notin K \ {t}
      BY <1>3
    <2>4. Holds(setCurrentTask(s, c, Daemon), {}, (K \ {t}) \cup {Daemon})
      BY <1>2, <2>2, <2>3, SetCurrent
    <2> QED BY <1>1, <1>3, <2>1, <2>4, Elsewhere
  <1>4. CASE t = s.current[c] /\ ready = NULL
    <2>1. r = setNextRunnable(s, c)
      BY <1>4, Zenon DEF SendSched
    <2>2. Holds(s, {c}, K \ {t})
      BY <1>4, Vacated
    <2>3. Holds(r, {}, K \ {t})
      BY <2>1, <2>2, NextRunnable
    <2> QED BY <1>1, <1>4, <2>1, <2>3, Elsewhere
  <1>5. CASE t # s.current[c] /\ ready # NULL
    <2> DEFINE q == returnRunnable(s, c)
    <2>1. r = setCurrentTask(q, c, Daemon)
      BY <1>5, Zenon DEF SendSched
    <2>2. Holds(q, {c}, K) /\ q.current = s.current
      BY <1>1, ReturnRunnable, Elsewhere
    <2> HIDE DEF q
    <2>3. Daemon \notin K /\ K \ {t} = K
      BY <1>5
    <2>4. Holds(setCurrentTask(q, c, Daemon), {}, K \cup {Daemon})
      BY <1>2, <2>2, <2>3, SetCurrent
    <2>5. SameElsewhere(q, r, c)
      BY <2>1, <2>2, Elsewhere DEF Holds
    <2> QED BY <1>5, <2>1, <2>2, <2>3, <2>4, <2>5 DEF SameElsewhere
  <1>6. CASE t # s.current[c] /\ ready = NULL
    <2>1. r = s /\ K \ {t} = K
      BY <1>6, Zenon DEF SendSched
    <2> QED BY <1>6, <2>1 DEF SameElsewhere
  <1> QED BY <1>3, <1>4, <1>5, <1>6

(* Message m is with the daemon if it was waiting, or on the queue.        *)
PostedIn(k, r, m) ==
    \/ /\ k.waiting = << >> /\ r.messages = Append(k.messages, m)
       /\ r.waiting = k.waiting /\ r.serving = k.serving
    \/ /\ k.waiting # << >> /\ r.messages = k.messages
       /\ r.waiting = Tail(k.waiting)
       /\ r.serving = [k.serving EXCEPT ![Head(k.waiting)] = m]

(* A new message is on its way.                                            *)
LEMMA Posted ==
    ASSUME BlockHandlers, NEW k \in KStates, NEW r \in KStates,
           QueueFits(k), FlightsOnce(k), NEW m \in Messages, ~m.done,
           PostedIn(k, r, m), ~OnItsWay(k, m.handler, m.key),
           m.handler = "write" =>
              \A x \in Messages : Flies(k, x) => x.key # m.key
    PROVE  /\ QueueFits(r) /\ FlightsOnce(r) /\ r.waiting = << >>
           /\ \A x \in Messages : Flies(r, x) <=> Flies(k, x) \/ x = m
  <1>1. /\ k.messages \in Seq(Messages) /\ Len(k.messages) \in Nat
        /\ DOMAIN k.messages = 1 .. Len(k.messages)
        /\ \A i \in DOMAIN k.messages : k.messages[i] \in Messages
        /\ k.serving \in [Daemons -> Messages \cup {NULL}]
    BY KFields, ListPlaces
  <1>2. Daemon \in Daemons /\ NULL \notin Messages
    BY BlockFacts
  <1>3. \A i \in DOMAIN k.messages :
           ~(/\ k.messages[i].handler = m.handler
             /\ k.messages[i].key = m.key)
    BY <1>1 DEF OnItsWay, Flies, OnList
  <1>4. k.serving[Daemon] # NULL =>
           ~(/\ k.serving[Daemon].handler = m.handler
             /\ k.serving[Daemon].key = m.key)
    BY <1>1, <1>2 DEF OnItsWay, Flies
  <1>5. CASE k.waiting = << >>
    <2> DEFINE n == Len(k.messages) + 1
    <2>1. /\ r.messages = Append(k.messages, m) /\ r.waiting = << >>
          /\ r.serving = k.serving
      BY <1>5 DEF PostedIn
    <2>2. /\ DOMAIN r.messages = 1 .. n /\ r.messages[n] = m
          /\ \A i \in DOMAIN k.messages : r.messages[i] = k.messages[i]
          /\ \A i \in DOMAIN r.messages : i = n \/ i \in DOMAIN k.messages
          /\ n \in DOMAIN r.messages /\ n \notin DOMAIN k.messages
          /\ \A i, j \in DOMAIN r.messages :
                j < i => j \in DOMAIN k.messages
      BY <1>1, <2>1, AppendProperties
    <2> HIDE DEF n
    <2>3. \A x : Flies(r, x) <=> Flies(k, x) \/ x = m
      BY <2>1, <1>1, ListAppend DEF Flies
    <2>4. FlightsOnce(r)
      <3>1. ASSUME NEW i \in DOMAIN r.messages, NEW j \in DOMAIN r.messages,
                   r.messages[i].handler = r.messages[j].handler,
                   r.messages[i].key = r.messages[j].key
            PROVE  i = j
        BY <1>3, <2>2, <3>1 DEF FlightsOnce
      <3>2. ASSUME r.serving[Daemon] # NULL, NEW i \in DOMAIN r.messages
            PROVE  ~(/\ r.messages[i].handler = r.serving[Daemon].handler
                     /\ r.messages[i].key = r.serving[Daemon].key)
        BY <1>4, <2>1, <2>2, <3>2 DEF FlightsOnce
      <3> QED BY <3>1, <3>2 DEF FlightsOnce
    <2>5. QueueFits(r)
      <3>1. ASSUME NEW i \in DOMAIN r.messages
            PROVE  ~r.messages[i].done
        BY <2>2 DEF QueueFits
      <3>2. ASSUME NEW i \in DOMAIN r.messages,
                   r.messages[i].handler = "write",
                   NEW j \in DOMAIN r.messages, j < i
            PROVE  r.messages[j].key # r.messages[i].key
        <4>1. j \in DOMAIN k.messages /\ Flies(k, k.messages[j])
          BY <2>2, <3>2 DEF Flies, OnList
        <4>2. CASE i = n
          BY <1>1, <2>2, <3>2, <4>1, <4>2
        <4>3. CASE i \in DOMAIN k.messages
          BY <2>2, <3>2, <4>1, <4>3 DEF QueueFits
        <4> QED BY <2>2, <4>2, <4>3
      <3>3. ASSUME NEW i \in DOMAIN r.messages,
                   r.messages[i].handler = "write",
                   r.serving[Daemon] # NULL
            PROVE  r.serving[Daemon].key # r.messages[i].key
        <4>1. CASE i = n
          BY <1>1, <1>2, <2>1, <2>2, <3>3, <4>1 DEF Flies
        <4>2. CASE i \in DOMAIN k.messages
          BY <2>1, <2>2, <3>3, <4>2 DEF QueueFits
        <4> QED BY <2>2, <4>1, <4>2
      <3> QED BY <2>1, <3>1, <3>2, <3>3 DEF QueueFits
    <2> QED BY <2>1, <2>3, <2>4, <2>5
  <1>6. CASE k.waiting # << >>
    <2>1. /\ k.waiting = <<Daemon>> /\ k.messages = << >>
          /\ k.serving[Daemon] = NULL
      BY <1>6 DEF QueueFits
    <2>2. /\ r.messages = << >> /\ r.waiting = << >>
          /\ r.serving[Daemon] = m
      BY <1>1, <1>2, <1>6, <2>1 DEF PostedIn
    <2>3. DOMAIN r.messages = {} /\ DOMAIN k.messages = {}
      BY <2>1, <2>2
    <2>4. QueueFits(r) /\ FlightsOnce(r)
      BY <2>2, <2>3 DEF QueueFits, FlightsOnce
    <2>5. \A x \in Messages : Flies(r, x) <=> Flies(k, x) \/ x = m
      BY <1>2, <2>1, <2>2, <2>3 DEF Flies, OnList
    <2> QED BY <2>2, <2>4, <2>5
  <1> QED BY <1>5, <1>6

(* The daemon that gets a message at once, or NULL; and the message.       *)
Receiver(k, h, va) ==
    IF ~Sent(k, h, va) /\ k.waiting # << >> THEN Daemon ELSE NULL

NewMessage(h, va, p) ==
    [handler |-> h, key |-> va, data |-> p, done |-> FALSE]

(* Task t waits for one more message.                                      *)
PendingIn(k, r, h, va, t) ==
    r.pending = [k.pending EXCEPT ![h] = <<Await(va, t)>> \o k.pending[h]]

(* sendMessage field by field.                                             *)
LEMMA SendMessageIs ==
    ASSUME BlockHandlers, NEW k \in KStates, QueueFits(k), NEW c \in Cpus,
           NEW h \in Handlers, NEW va \in VAs, NEW p \in Pages,
           NEW t \in Waiters,
           SendSched(k.sched, c, t, Receiver(k, h, va)) \in SchedStates
    PROVE  LET r == sendMessage(k, c, h, va, p, t) IN
           /\ r \in KStates /\ r.spte = k.spte /\ r.hpte = k.hpte
           /\ r.avail = k.avail /\ r.ended = k.ended /\ r.va2pa = k.va2pa
           /\ r.msgCount = k.msgCount /\ r.latest = k.latest
           /\ r.panic = k.panic
           /\ r.sched = SendSched(k.sched, c, t, Receiver(k, h, va))
           /\ PendingIn(k, r, h, va, t)
           /\ Sent(k, h, va) => SameQueue(k, r)
           /\ ~Sent(k, h, va) => PostedIn(k, r, NewMessage(h, va, p))
  <1> DEFINE m == NewMessage(h, va, p)
             x == Receiver(k, h, va)
             S == SendSched(k.sched, c, t, x)
             Q == [k.pending EXCEPT ![h] = <<Await(va, t)>> \o k.pending[h]]
             r == sendMessage(k, c, h, va, p, t)
  <1>1. m \in Messages
    BY DEF NewMessage, Messages
  <1>2. /\ k.messages \in Seq(Messages) /\ k.waiting \in Seq(Daemons)
        /\ k.serving \in [Daemons -> Messages \cup {NULL}]
        /\ k.pending \in [Handlers -> Seq(Awaitings)]
    BY KFields
  <1>3. Q \in [Handlers -> Seq(Awaitings)]
    <2>1. Await(va, t) \in Awaitings /\ k.pending[h] \in Seq(Awaitings)
      BY <1>2, EntryFacts
    <2>2. <<Await(va, t)>> \o k.pending[h] \in Seq(Awaitings)
      BY <2>1, ListOne, ListConcat
    <2> QED BY <1>2, <2>2
  <1>4. S \in SchedStates
    OBVIOUS
  <1>5. Daemon \in Daemons /\ NULL # Daemon
    BY BlockFacts
  <1> HIDE DEF m, Q, S
  <1>6. CASE Sent(k, h, va)
    <2>1. x = NULL
      BY <1>6 DEF Receiver
    <2>2. r = [k EXCEPT !.sched = S, !.pending = Q]
      BY <1>6, <2>1, Zenon DEF sendMessage, SendSched, S, Q, Await
    <2> HIDE DEF r
    <2>3. /\ r \in KStates /\ r.spte = k.spte /\ r.hpte = k.hpte
          /\ r.avail = k.avail /\ r.ended = k.ended /\ r.va2pa = k.va2pa
          /\ r.msgCount = k.msgCount /\ r.latest = k.latest
          /\ r.panic = k.panic /\ r.sched = S /\ r.pending = Q
          /\ SameQueue(k, r)
      BY <1>3, <1>4, <2>2 DEF KStates, SameQueue
    <2> QED BY <1>6, <2>3 DEF r, S, Q, PendingIn
  <1>7. CASE ~Sent(k, h, va) /\ k.waiting = << >>
    <2>1. x = NULL
      BY <1>7 DEF Receiver
    <2> DEFINE M == Append(k.messages, m)
    <2>2. M \in Seq(Messages)
      BY <1>1, <1>2, ListAppend
    <2>3. r = [[k EXCEPT !.messages = M] EXCEPT !.sched = S,
                  !.pending[h] = <<Await(va, t)>> \o @]
      BY <1>7, <2>1, Zenon
         DEF sendMessage, SendSched, S, Await, NewMessage, m
    <2> HIDE DEF r, M
    <2>4. r = [[k EXCEPT !.messages = M] EXCEPT !.sched = S, !.pending = Q]
      BY <2>3 DEF KStates, Q
    <2>5. /\ r \in KStates /\ r.spte = k.spte /\ r.hpte = k.hpte
          /\ r.avail = k.avail /\ r.ended = k.ended /\ r.va2pa = k.va2pa
          /\ r.msgCount = k.msgCount /\ r.latest = k.latest
          /\ r.panic = k.panic /\ r.sched = S /\ r.pending = Q
          /\ r.messages = M /\ r.waiting = k.waiting
          /\ r.serving = k.serving
      BY <1>3, <1>4, <2>2, <2>4 DEF KStates
    <2>6. PostedIn(k, r, m)
      BY <1>7, <2>5 DEF PostedIn, M
    <2> QED BY <1>7, <2>5, <2>6 DEF r, S, Q, PendingIn, m
  <1>8. CASE ~Sent(k, h, va) /\ k.waiting # << >>
    <2>1. k.waiting = <<Daemon>> /\ Head(k.waiting) = Daemon /\ x = Daemon
      BY <1>8 DEF Receiver, QueueFits
    <2> DEFINE W == Tail(k.waiting)
               V == [k.serving EXCEPT ![Daemon] = m]
    <2>2. /\ W \in Seq(Daemons)
          /\ V \in [Daemons -> Messages \cup {NULL}]
      BY <1>1, <1>2, <1>5, <1>8, ListTail
    <2>3. r = [[k EXCEPT !.waiting = W, !.serving = V] EXCEPT !.sched = S,
                  !.pending[h] = <<Await(va, t)>> \o @]
      BY <1>5, <1>8, <2>1, Zenon
         DEF sendMessage, SendSched, S, Await, NewMessage, m
    <2> HIDE DEF r, W, V
    <2>4. r = [[k EXCEPT !.waiting = W, !.serving = V] EXCEPT
                  !.sched = S, !.pending = Q]
      BY <2>3 DEF KStates, Q
    <2>5. /\ r \in KStates /\ r.spte = k.spte /\ r.hpte = k.hpte
          /\ r.avail = k.avail /\ r.ended = k.ended /\ r.va2pa = k.va2pa
          /\ r.msgCount = k.msgCount /\ r.latest = k.latest
          /\ r.panic = k.panic /\ r.sched = S /\ r.pending = Q
          /\ r.messages = k.messages /\ r.waiting = W /\ r.serving = V
      BY <1>3, <1>4, <2>2, <2>4 DEF KStates
    <2>6. PostedIn(k, r, m)
      BY <1>8, <2>1, <2>5 DEF PostedIn, W, V
    <2> QED BY <1>8, <2>5, <2>6 DEF r, S, Q, PendingIn, m
  <1> QED BY <1>6, <1>7, <1>8

(* The tasks that wait are the same ones and task t, for va.               *)
PendsMore(k, r, h, va, t) ==
    \A g \in Handlers : \A v, u :
        Pend(r, g, v, u) <=> (Pend(k, g, v, u) \/ (g = h /\ v = va /\ u = t))

(* A task waits for one more message.                                      *)
LEMMA PendAdded ==
    ASSUME NEW k \in KStates, NEW r, NEW h \in Handlers, NEW va \in VAs,
           NEW t \in Waiters, ~Pend(k, h, va, t),
           PendingIn(k, r, h, va, t), TasksFit(k)
    PROVE  /\ \A g \in Handlers : NoneTwice(r.pending[g])
           /\ PendsMore(k, r, h, va, t)
  <1> DEFINE q == k.pending[h]
             e == Await(va, t)
             n == <<e>> \o q
  <1>1. q \in Seq(Awaitings) /\ e \in Awaitings
    BY KFields, EntryFacts
  <1>2. ~OnList(q, e) /\ NoneTwice(q)
    BY DEF Pend, TasksFit
  <1> HIDE DEF q, e
  <1>3. /\ \A u : OnList(n, u) <=> u = e \/ OnList(q, u)
        /\ NoneTwice(n)
    <2>1. /\ <<e>> \in Seq(Awaitings) /\ NoneTwice(<<e>>)
          /\ \A u : OnList(<<e>>, u) <=> u = e
      BY <1>1, ListOne
    <2> QED BY <1>1, <1>2, <2>1, ListConcat
  <1>4. \A g \in Handlers : r.pending[g] = IF g = h THEN n ELSE k.pending[g]
    BY KFields DEF q, e, PendingIn
  <1> HIDE DEF n
  <1>5. \A g \in Handlers : NoneTwice(r.pending[g])
    BY <1>3, <1>4 DEF TasksFit
  <1>6. ASSUME NEW g \in Handlers, NEW v, NEW u
        PROVE  Pend(r, g, v, u) <=>
                  Pend(k, g, v, u) \/ (g = h /\ v = va /\ u = t)
    <2>1. CASE g = h
      BY <1>3, <1>4, <2>1, EntryFacts DEF Pend, q, e
    <2>2. CASE g # h
      BY <1>4, <2>2 DEF Pend
    <2> QED BY <2>1, <2>2
  <1> QED BY <1>5, <1>6 DEF PendsMore

(* The sets a handler's count is the size of are finite.                   *)
LEMMA AwaitedFinite ==
    ASSUME BlockHandlers, NEW k, NEW t
    PROVE  IsFiniteSet(AwaitedBy(k, t)) /\ Cardinality(AwaitedBy(k, t)) \in Nat
  <1>1. AwaitedBy(k, t) \subseteq VAs /\ IsFiniteSet(VAs)
    BY BlockFacts DEF AwaitedBy
  <1> QED BY <1>1, FS_Subset, FS_CardinalityType

(* What the tasks wait for fits after that.                                *)
LEMMA TasksAfterSend ==
    ASSUME BlockHandlers, NEW k \in KStates, NEW r, TasksFit(k),
           NEW h \in Handlers, NEW va \in VAs, NEW t \in Waiters,
           PendingIn(k, r, h, va, t),
           r.ended = k.ended, t \notin k.ended,
           h = "read" => /\ t \in Users /\ r.msgCount = k.msgCount
                         /\ \A g \in Handlers : \A v \in VAs :
                               ~Pend(k, g, v, t),
           h = "write" => /\ r.msgCount = IF t = NULL THEN k.msgCount
                                  ELSE incMsgCount(k.msgCount, t)
                          /\ \A u \in Waiters : ~Pend(k, "write", va, u)
                          /\ t \in Users =>
                                \A v \in VAs : ~Pend(k, "read", v, t)
    PROVE  /\ TasksFit(r)
           /\ PendsMore(k, r, h, va, t)
  <1>1. ~Pend(k, h, va, t)
    BY DEF Handlers
  <1>2. /\ \A g \in Handlers : NoneTwice(r.pending[g])
        /\ PendsMore(k, r, h, va, t)
    BY <1>1, PendAdded
  <1>3. /\ "read" \in Handlers /\ "write" \in Handlers /\ "read" # "write"
        /\ NULL \notin Users /\ Users \subseteq Tasks
        /\ h = "read" \/ h = "write"
        /\ Users \subseteq Waiters
    BY BlockFacts DEF Handlers, Waiters
  <1>4. \A v \in VAs : ~Pend(r, "read", v, NULL)
    BY <1>2, <1>3 DEF TasksFit, PendsMore
  <1>5. ASSUME NEW v \in VAs, NEW w \in VAs, NEW u \in Users,
               Pend(r, "read", v, u)
        PROVE  ~Pend(r, "write", w, u) /\ (Pend(r, "read", w, u) => v = w)
    BY <1>2, <1>3, <1>5 DEF TasksFit, PendsMore
  <1>6. ASSUME NEW v \in VAs, NEW a \in Waiters, NEW b \in Waiters,
               Pend(r, "write", v, a), Pend(r, "write", v, b)
        PROVE  a = b
    BY <1>2, <1>3, <1>6 DEF TasksFit, PendsMore
  <1>7. \A g \in Handlers : \A v \in VAs : \A u \in Users :
           Pend(r, g, v, u) => u \notin r.ended
    BY <1>2 DEF TasksFit, PendsMore
  <1>8. ASSUME NEW u \in Tasks
        PROVE  r.msgCount[u] = Cardinality(AwaitedBy(r, u))
    <2>1. k.msgCount \in [Tasks -> Nat] /\ NULL \notin Tasks
      BY KFields, BlockFacts
    <2>2. k.msgCount[u] = Cardinality(AwaitedBy(k, u))
      BY DEF TasksFit
    <2>3. CASE h = "write" /\ u = t
      <3>1. r.msgCount[u] = k.msgCount[u] + 1
        BY <2>1, <2>3 DEF incMsgCount
      <3>2. AwaitedBy(r, u) = AwaitedBy(k, u) \cup {va} /\ va \notin AwaitedBy(k, u)
        BY <1>1, <1>2, <1>3, <2>3 DEF AwaitedBy, PendsMore
      <3>3. Cardinality(AwaitedBy(r, u)) = Cardinality(AwaitedBy(k, u)) + 1
        BY <3>2, AwaitedFinite, FS_AddElement
      <3> QED BY <2>2, <3>1, <3>3
    <2>4. CASE ~(h = "write" /\ u = t)
      <3>1. r.msgCount[u] = k.msgCount[u]
        BY <1>3, <2>1, <2>4 DEF incMsgCount
      <3>2. AwaitedBy(r, u) = AwaitedBy(k, u)
        BY <1>2, <1>3, <2>4 DEF AwaitedBy, PendsMore
      <3> QED BY <2>2, <3>1, <3>2
    <2> QED BY <2>3, <2>4
  <1>9. TasksFit(r)
    BY <1>2, <1>4, <1>5, <1>6, <1>7, <1>8 DEF TasksFit
  <1> QED BY <1>2, <1>9

(* The tasks the kernel may send a message for: none, the one that runs,   *)
(* or one that waits for a write already.                                  *)
CanSend(k, c, t) ==
    \/ t = NULL
    \/ t \in Users /\ t = k.sched.current[c]
    \/ t \in Users /\ \E v \in VAs : Pend(k, "write", v, t)

(* What is known of such a task.                                           *)
LEMMA SenderFacts ==
    ASSUME BlockHandlers, NEW k, NEW X, KInv(k, X, {}), NEW c \in Cpus,
           NEW t, CanSend(k, c, t)
    PROVE  /\ t \in Waiters /\ t \notin k.ended
           /\ t = k.sched.current[c] => t \in Tasks
           /\ t = k.sched.current[c] \/ t \notin Ready(k)
           /\ t \in Users => \A v \in VAs : ~Pend(k, "read", v, t)
           /\ t = k.sched.current[c] =>
                 \A g \in Handlers : \A v \in VAs : ~Pend(k, g, v, t)
  <1>1. k \in KStates /\ TasksFit(k) /\ Holds(k.sched, {}, Ready(k))
    BY DEF KInv
  <1>2. /\ NULL \notin Tasks /\ NULL # Idle /\ Users \subseteq Tasks
        /\ k.ended \subseteq Users
        /\ k.sched.current[c] \in Tasks \cup {Idle}
    <2>1. k.ended \in SUBSET Users /\ k.sched \in SchedStates
      BY <1>1, KFields
    <2>2. k.sched.current[c] \in Tasks \cup {Idle}
      BY <2>1, SchedFields
    <2> QED BY <2>1, <2>2, BlockFacts
  <1>3. CASE t = NULL
    BY <1>2, <1>3 DEF Waiters, Ready
  <1>4. CASE t \in Users /\ t = k.sched.current[c]
    <2>1. t \in Ready(k)
      BY <1>1, <1>2, <1>4, Vacated
    <2> QED BY <1>2, <1>4, <2>1 DEF Ready, Waiters, Handlers
  <1>5. CASE t \in Users /\ \E v \in VAs : Pend(k, "write", v, t)
    <2>1. t \notin Ready(k)
      BY <1>5 DEF Ready, Handlers
    <2>2. t # k.sched.current[c]
      BY <1>1, <1>2, <1>5, <2>1, Vacated
    <2>3. t \notin k.ended /\ \A v \in VAs : ~Pend(k, "read", v, t)
      BY <1>1, <1>5 DEF TasksFit, Handlers
    <2> QED BY <1>5, <2>1, <2>2, <2>3 DEF Waiters
  <1> QED BY <1>3, <1>4, <1>5 DEF CanSend

(* Who is ready after a message was sent.                                  *)
LEMMA ReadyAfterSend ==
    ASSUME BlockHandlers, NEW k \in KStates, NEW r \in KStates,
           QueueFits(k), NEW h \in Handlers, NEW va \in VAs, NEW t,
           r.ended = k.ended,
           PendsMore(k, r, h, va, t)
    PROVE  /\ r.waiting = k.waiting => Ready(r) = Ready(k) \ {t}
           /\ k.waiting # << >> /\ r.waiting = << >> /\ t # Daemon =>
                 /\ Ready(r) = (Ready(k) \ {t}) \cup {Daemon}
                 /\ Daemon \notin Ready(k)
  <1>1. ASSUME r.waiting = k.waiting PROVE Ready(r) = Ready(k) \ {t}
    BY <1>1 DEF Ready, PendsMore
  <1>2. ASSUME k.waiting # << >>, r.waiting = << >>, t # Daemon
        PROVE  /\ Ready(r) = (Ready(k) \ {t}) \cup {Daemon}
               /\ Daemon \notin Ready(k)
    <2>1. k.waiting = <<Daemon>> /\ \A u : OnList(k.waiting, u) <=> u = Daemon
      <3>1. k.waiting = <<Daemon>>
        BY <1>2 DEF QueueFits
      <3>2. \A u : OnList(<<Daemon>>, u) <=> u = Daemon
        BY ListOne, BlockFacts
      <3> QED BY <3>1, <3>2
    <2>2. \A u : ~OnList(r.waiting, u)
      BY <1>2, ListEmpty
    <2>3. /\ Daemon \in Tasks /\ Daemon \notin k.ended
          /\ \A g \in Handlers : \A v \in VAs : ~Pend(k, g, v, Daemon)
      <3>1. Daemon \in Tasks /\ Daemon \notin Users /\ Daemon # NULL
        BY BlockFacts
      <3>2. k.ended \subseteq Users
        BY KFields
      <3> QED BY <3>1, <3>2, OnLists DEF Waiters
    <2>4. Daemon \notin Ready(k)
      BY <2>1 DEF Ready
    <2>5. ASSUME NEW u \in Tasks
          PROVE  u \in Ready(r) <=> u = Daemon \/ (u \in Ready(k) /\ u # t)
      <3>1. CASE u = Daemon
        BY <1>2, <2>2, <2>3, <3>1 DEF Ready, PendsMore
      <3>2. CASE u # Daemon
        BY <2>1, <2>2, <3>2 DEF Ready, PendsMore
      <3> QED BY <3>1, <3>2
    <2>6. Ready(r) \subseteq Tasks /\ Ready(k) \subseteq Tasks
      BY DEF Ready
    <2> QED BY <2>3, <2>4, <2>5, <2>6
  <1> QED BY <1>1, <1>2

(* A message is sent for task t, with the scheduler's part of it.          *)
LEMMA Sends ==
    ASSUME BlockHandlers, NEW k \in KStates, QueueFits(k),
           Holds(k.sched, {}, Ready(k)), NEW c \in Cpus,
           NEW h \in Handlers, NEW va \in VAs, NEW p \in Pages,
           NEW t \in Waiters, t = k.sched.current[c] => t \in Tasks,
           t = k.sched.current[c] \/ t \notin Ready(k)
    PROVE  LET r == sendMessage(k, c, h, va, p, t) IN
           /\ r \in KStates /\ r.spte = k.spte /\ r.hpte = k.hpte
           /\ r.avail = k.avail /\ r.ended = k.ended /\ r.va2pa = k.va2pa
           /\ r.msgCount = k.msgCount /\ r.latest = k.latest
           /\ r.panic = k.panic
           /\ PendingIn(k, r, h, va, t)
           /\ Sent(k, h, va) => SameQueue(k, r)
           /\ ~Sent(k, h, va) => PostedIn(k, r, NewMessage(h, va, p))
           /\ SameElsewhere(k.sched, r.sched, c)
           /\ /\ PendsMore(k, r, h, va, t)
              /\ Sent(k, h, va) \/ r.waiting = << >>
              => Holds(r.sched, {}, Ready(r))
  <1> DEFINE x == Receiver(k, h, va)
             S == SendSched(k.sched, c, t, x)
             r == sendMessage(k, c, h, va, p, t)
  <1>1. /\ Daemon \in Tasks /\ Daemon \notin Users /\ Daemon # NULL
        /\ Daemon \in Daemons
    BY BlockFacts
  <1>2. x \in {Daemon, NULL} /\ (x = Daemon => k.waiting # << >>)
    BY <1>1 DEF Receiver
  <1>3. k.waiting # << >> => Daemon \notin Ready(k)
    <2>1. \A u : OnList(<<Daemon>>, u) <=> u = Daemon
      BY <1>1, ListOne
    <2> QED BY <2>1 DEF QueueFits, Ready
  <1>4. /\ x # NULL => Holds(S, {}, (Ready(k) \ {t}) \cup {Daemon})
        /\ x = NULL => Holds(S, {}, Ready(k) \ {t})
        /\ SameElsewhere(k.sched, S, c)
    <2> HIDE DEF x
    <2> QED BY <1>2, <1>3, SendSchedules
  <1>5. S \in SchedStates
    BY <1>4 DEF Holds
  <1>6. /\ r \in KStates /\ r.spte = k.spte /\ r.hpte = k.hpte
        /\ r.avail = k.avail /\ r.ended = k.ended /\ r.va2pa = k.va2pa
        /\ r.msgCount = k.msgCount /\ r.latest = k.latest
        /\ r.panic = k.panic /\ r.sched = S
        /\ PendingIn(k, r, h, va, t)
        /\ Sent(k, h, va) => SameQueue(k, r)
        /\ ~Sent(k, h, va) => PostedIn(k, r, NewMessage(h, va, p))
    BY <1>5, SendMessageIs
  <1> HIDE DEF r, S
  <1>7. ASSUME PendsMore(k, r, h, va, t), Sent(k, h, va) \/ r.waiting = << >>
        PROVE  Holds(r.sched, {}, Ready(r))
    <2>1. /\ r.waiting = k.waiting => Ready(r) = Ready(k) \ {t}
          /\ k.waiting # << >> /\ r.waiting = << >> =>
                Ready(r) = (Ready(k) \ {t}) \cup {Daemon}
      <3>1. t # Daemon
        BY <1>1 DEF Waiters
      <3> QED BY <1>6, <1>7, <3>1, ReadyAfterSend
    <2>2. CASE Sent(k, h, va)
      <3>1. x = NULL /\ r.waiting = k.waiting
        BY <1>6, <2>2 DEF Receiver, SameQueue
      <3> QED BY <1>4, <1>6, <2>1, <3>1
    <2>3. CASE ~Sent(k, h, va) /\ k.waiting = << >>
      <3>1. x = NULL /\ r.waiting = k.waiting
        BY <1>7, <2>3 DEF Receiver
      <3> QED BY <1>4, <1>6, <2>1, <3>1
    <2>4. CASE ~Sent(k, h, va) /\ k.waiting # << >>
      <3>1. x # NULL /\ r.waiting = << >>
        BY <1>1, <1>7, <2>4 DEF Receiver
      <3> QED BY <1>4, <1>6, <2>1, <2>4, <3>1
    <2> QED BY <2>2, <2>3, <2>4
  <1> QED BY <1>4, <1>6, <1>7 DEF r

(* A message is sent exactly if a task waits for it.                       *)
LEMMA SentIs ==
    ASSUME NEW k \in KStates, NEW h \in Handlers, NEW va \in VAs
    PROVE  Sent(k, h, va) <=> \E t \in Waiters : Pend(k, h, va, t)
  <1> DEFINE q == k.pending[h]
  <1>1. q \in Seq(Awaitings)
    BY KFields
  <1>2. DOMAIN q = 1 .. Len(q) /\ \A i \in DOMAIN q : q[i] \in Awaitings
    BY <1>1, ListPlaces
  <1>3. Sent(k, h, va) <=> \E i \in DOMAIN q : q[i].key = va
    BY DEF Sent, ForKey
  <1>4. (\E t \in Waiters : Pend(k, h, va, t))
           <=> \E t \in Waiters : \E i \in DOMAIN q : q[i] = Await(va, t)
    BY DEF Pend, OnList
  <1> HIDE DEF q
  <1>5. ASSUME NEW i \in DOMAIN q, q[i].key = va
        PROVE  \E t \in Waiters : \E j \in DOMAIN q : q[j] = Await(va, t)
    <2>1. q[i].task \in Waiters /\ q[i] = Await(va, q[i].task)
      BY <1>2, <1>5, EntryFacts
    <2> QED BY <2>1
  <1>6. ASSUME NEW t \in Waiters, NEW i \in DOMAIN q, q[i] = Await(va, t)
        PROVE  \E j \in DOMAIN q : q[j].key = va
    BY <1>6, EntryFacts
  <1> QED BY <1>3, <1>4, <1>5, <1>6

(* Fields of a new message.                                                *)
LEMMA NewMessageFields ==
    ASSUME NEW h \in Handlers, NEW va \in VAs, NEW p \in Pages
    PROVE  LET m == NewMessage(h, va, p) IN
           /\ m \in Messages /\ m.handler = h /\ m.key = va /\ m.data = p
           /\ ~m.done
  BY DEF NewMessage, Messages

(* A fault sends a read for the page it has taken.                         *)
LEMMA SendRead ==
    ASSUME BlockHandlers, NEW k, KInv(k, {}, {}), NEW c \in Cpus,
           NEW t \in Users, t = k.sched.current[c], NEW va \in VAs,
           va \in Backed, NEW p \in Pages, k.spte[va].page = p,
           ~k.spte[va].present
    PROVE  LET r == sendMessage(k, c, "read", va, p, t) IN
           KInv(r, {}, {}) /\ SameElsewhere(k.sched, r.sched, c)
  <1> DEFINE r == sendMessage(k, c, "read", va, p, t)
             m == NewMessage("read", va, p)
             sent == Sent(k, "read", va)
  <1>1. /\ k \in KStates /\ PagesFit(k) /\ TableFits(k) /\ FlightsFit(k)
        /\ ContentsFit(k) /\ QueueFits(k) /\ FlightsOnce(k)
        /\ SentFits(k, {}) /\ TasksFit(k) /\ Holds(k.sched, {}, Ready(k))
    BY DEF KInv, MemoryFits
  <1>2. /\ t \in Waiters /\ t \notin k.ended /\ t \in Tasks
        /\ \A g \in Handlers : \A v \in VAs : ~Pend(k, g, v, t)
    BY SenderFacts DEF CanSend
  <1>3. "read" \in Handlers /\ "write" \in Handlers /\ "read" # "write"
    BY DEF Handlers
  <1>4. /\ r \in KStates /\ r.spte = k.spte /\ r.hpte = k.hpte
        /\ r.avail = k.avail /\ r.ended = k.ended /\ r.va2pa = k.va2pa
        /\ r.msgCount = k.msgCount /\ r.latest = k.latest
        /\ r.panic = k.panic
        /\ PendingIn(k, r, "read", va, t)
        /\ sent => SameQueue(k, r)
        /\ ~sent => PostedIn(k, r, m)
        /\ SameElsewhere(k.sched, r.sched, c)
        /\ /\ PendsMore(k, r, "read", va, t)
           /\ sent \/ r.waiting = << >>
           => Holds(r.sched, {}, Ready(r))
    BY <1>1, <1>2, <1>3, Sends
  <1> HIDE DEF r
  <1>5. TasksFit(r) /\ PendsMore(k, r, "read", va, t)
    BY <1>1, <1>2, <1>3, <1>4, TasksAfterSend
  <1>6. /\ m \in Messages /\ m.handler = "read" /\ m.key = va /\ m.data = p
        /\ ~m.done
    BY <1>3, NewMessageFields
  <1>7. sent <=> OnItsWay(k, "read", va)
    <2>1. sent <=> \E u \in Waiters : Pend(k, "read", va, u)
      BY <1>1, <1>3, SentIs
    <2> QED BY <1>1, <1>3, <2>1 DEF SentFits
  <1> HIDE DEF m, sent
  <1>8. /\ QueueFits(r) /\ FlightsOnce(r) /\ (sent \/ r.waiting = << >>)
        /\ \A x \in Messages : Flies(r, x) <=> (Flies(k, x) \/ (x = m /\ ~sent))
    <2>1. CASE sent
      <3>1. \A x : Flies(r, x) <=> Flies(k, x)
        BY <1>4, <2>1, SameThings
      <3> QED BY <1>1, <1>4, <2>1, <3>1, SameParts
    <2>2. CASE ~sent
      BY <1>1, <1>3, <1>4, <1>6, <1>7, <2>2, Posted
    <2> QED BY <2>1, <2>2
  <1>9. \A v, q : Writing(r, v, q) <=> Writing(k, v, q)
    BY <1>4, SameThings
  <1>10. \A v, q : Unwritten(r, v, q) <=> Unwritten(k, v, q)
    BY <1>3, <1>6, <1>8 DEF Unwritten
  <1>11. PagesFit(r) /\ TableFits(r)
    <2>1. PagesFit(r)
      BY <1>1, <1>4, <1>9 DEF PagesFit, ShadowApart, WritesApart, NoPageLost
    <2> QED BY <1>1, <1>4, <2>1 DEF TableFits
  <1>12. FlightsFit(r)
    BY <1>1, <1>3, <1>4, <1>6, <1>8, <1>9 DEF FlightsFit
  <1>13. ContentsFit(r)
    BY <1>1, <1>4, <1>6, <1>8, <1>10 DEF ContentsFit
  <1>14. SentFits(r, {})
    <2>1. OnItsWay(r, "read", va)
      BY <1>6, <1>7, <1>8 DEF OnItsWay
    <2>2. ASSUME NEW h \in Handlers, NEW v \in VAs, ~(h = "read" /\ v = va)
          PROVE  OnItsWay(r, h, v) <=> OnItsWay(k, h, v)
      BY <1>6, <1>8, <2>2 DEF OnItsWay
    <2>3. ASSUME NEW h \in Handlers, NEW v \in VAs
          PROVE  (\E u \in Waiters : Pend(r, h, v, u)) <=> OnItsWay(r, h, v)
      <3>1. CASE h = "read" /\ v = va
        BY <1>2, <1>5, <2>1, <3>1 DEF PendsMore
      <3>2. CASE ~(h = "read" /\ v = va)
        BY <1>1, <1>5, <2>2, <3>2 DEF PendsMore, SentFits
      <3> QED BY <3>1, <3>2
    <2>4. ASSUME NEW v \in VAs, NEW q \in Pages, Writing(r, v, q)
          PROVE  OnItsWay(r, "write", v)
      BY <1>1, <1>3, <1>9, <2>2, <2>4 DEF SentFits
    <2> QED BY <2>3, <2>4 DEF SentFits
  <1>15. Holds(r.sched, {}, Ready(r))
    BY <1>4, <1>5, <1>8
  <1>16. KInv(r, {}, {})
    BY <1>4, <1>5, <1>8, <1>11, <1>12, <1>13, <1>14, <1>15
       DEF KInv, MemoryFits
  <1> QED BY <1>4, <1>16 DEF r

(* A page is about to be written: its shadow entry is free, it is on the   *)
(* handler's list, and the handler counts one more message for the task.   *)
Sending(k, va, t) ==
    [releaseSPTE(k, va) EXCEPT
        !.va2pa = <<Written(va, k.spte[va].page)>> \o @,
        !.msgCount = IF t = NULL THEN @ ELSE incMsgCount(@, t)]

(* That state field by field.                                              *)
LEMMA SendingIs ==
    ASSUME NEW k \in KStates, NEW va \in VAs, NEW t \in Waiters,
           k.spte[va].page \in Pages, Users \subseteq Tasks
    PROVE  LET z == Sending(k, va, t) IN
           /\ z \in KStates
           /\ z.spte[va].page = NULL /\ ~z.spte[va].present
           /\ z.spte[va].perm = k.spte[va].perm
           /\ \A v \in VAs : v # va => z.spte[v] = k.spte[v]
           /\ z.va2pa = <<Written(va, k.spte[va].page)>> \o k.va2pa
           /\ z.msgCount = IF t = NULL THEN k.msgCount
                           ELSE incMsgCount(k.msgCount, t)
           /\ z.hpte = k.hpte /\ z.avail = k.avail /\ z.latest = k.latest
           /\ z.panic = k.panic /\ SameQueue(k, z) /\ z.sched = k.sched
           /\ z.pending = k.pending /\ z.ended = k.ended
  <1> DEFINE z == Sending(k, va, t)
             e == [k.spte[va] EXCEPT !.dirty = FALSE, !.present = FALSE,
                                     !.page = NULL]
             f == [k.spte EXCEPT ![va] = e]
             w == <<Written(va, k.spte[va].page)>> \o k.va2pa
             n == IF t = NULL THEN k.msgCount
                  ELSE incMsgCount(k.msgCount, t)
  <1>1. /\ k.spte \in [VAs -> ShadowPTEs] /\ k.spte[va] \in ShadowPTEs
        /\ k.va2pa \in Seq(Writes) /\ k.msgCount \in [Tasks -> Nat]
    BY KFields
  <1>2. /\ e \in ShadowPTEs /\ e.page = NULL /\ ~e.present
        /\ e.perm = k.spte[va].perm
    BY <1>1, ShadowFrom
  <1> HIDE DEF e
  <1>3. /\ f \in [VAs -> ShadowPTEs]
        /\ \A v \in VAs : f[v] = IF v = va THEN e ELSE k.spte[v]
    BY <1>1, <1>2
  <1>4. w \in Seq(Writes)
    <2>1. Written(va, k.spte[va].page) \in Writes
      BY EntryFacts
    <2> QED BY <1>1, <2>1, ListOne, ListConcat
  <1>5. n \in [Tasks -> Nat]
    <2>1. t # NULL => t \in Tasks
      BY DEF Waiters
    <2> QED BY <1>1, <2>1 DEF incMsgCount
  <1>6. releaseSPTE(k, va) = [k EXCEPT !.spte = f]
    BY ReleaseIs, Zenon DEF e
  <1> HIDE DEF f
  <1>7. z = [[k EXCEPT !.spte = f] EXCEPT !.va2pa = w, !.msgCount = n]
    <2> DEFINE g == [k EXCEPT !.spte = f]
    <2>1. g.va2pa = k.va2pa /\ g.msgCount = k.msgCount
      BY DEF KStates
    <2> HIDE DEF g
    <2>2. z = [g EXCEPT !.va2pa = <<Written(va, k.spte[va].page)>> \o @,
                  !.msgCount = IF t = NULL THEN @ ELSE incMsgCount(@, t)]
      BY <1>6, Zenon DEF Sending, g
    <2>3. z = [g EXCEPT !.va2pa = w, !.msgCount = n]
      BY <2>1, <2>2, Zenon
    <2> QED BY <2>3 DEF g
  <1> HIDE DEF z, w, n
  <1>8. /\ z \in KStates /\ z.spte = f /\ z.va2pa = w /\ z.msgCount = n
        /\ z.hpte = k.hpte /\ z.avail = k.avail /\ z.latest = k.latest
        /\ z.panic = k.panic /\ SameQueue(k, z) /\ z.sched = k.sched
        /\ z.pending = k.pending /\ z.ended = k.ended
    BY <1>3, <1>4, <1>5, <1>7 DEF KStates, SameQueue
  <1>9. /\ z.spte[va].page = NULL /\ ~z.spte[va].present
        /\ z.spte[va].perm = k.spte[va].perm
        /\ \A v \in VAs : v # va => z.spte[v] = k.spte[v]
    BY <1>2, <1>3, <1>8
  <1> QED BY <1>8, <1>9 DEF z, w, n

(* A dirty page that is tracked is sent to be written.                     *)
LEMMA SendWrite ==
    ASSUME BlockHandlers, NEW k, KInv(k, {}, {}), NEW c \in Cpus, NEW t,
           CanSend(k, c, t), NEW va \in VAs, va \in Backed,
           k.spte[va].present, k.hpte[va] = NULL
    PROVE  LET r == sendMessage(Sending(k, va, t), c, "write", va,
                                k.spte[va].page, t) IN
           /\ KInv(r, {}, {}) /\ SameElsewhere(k.sched, r.sched, c)
           /\ CanSend(r, c, t)
  <1> DEFINE p == k.spte[va].page
             z == Sending(k, va, t)
             r == sendMessage(z, c, "write", va, p, t)
             m == NewMessage("write", va, p)
  <1>1. /\ k \in KStates /\ PagesFit(k) /\ TableFits(k) /\ FlightsFit(k)
        /\ ContentsFit(k) /\ QueueFits(k) /\ FlightsOnce(k)
        /\ SentFits(k, {}) /\ TasksFit(k) /\ Holds(k.sched, {}, Ready(k))
    BY DEF KInv, MemoryFits
  <1>2. /\ t \in Waiters /\ t \notin k.ended
        /\ t = k.sched.current[c] => t \in Tasks
        /\ t = k.sched.current[c] \/ t \notin Ready(k)
        /\ t \in Users => \A v \in VAs : ~Pend(k, "read", v, t)
    BY SenderFacts
  <1>3. "read" \in Handlers /\ "write" \in Handlers /\ "read" # "write"
    BY DEF Handlers
  <1>4. /\ p \in Pages /\ p \in k.latest[va]
        /\ NULL \notin Pages /\ Users \subseteq Tasks
    <2>1. k.spte[va] \in ShadowPTEs
      BY <1>1, KFields
    <2>2. k.spte[va].page \in Pages \cup {NULL}
      BY <2>1, ShadowFields
    <2> QED BY <1>1, <2>2, BlockFacts DEF ContentsFit
  <1>5. /\ z \in KStates
        /\ z.spte[va].page = NULL /\ ~z.spte[va].present
        /\ z.spte[va].perm = k.spte[va].perm
        /\ \A v \in VAs : v # va => z.spte[v] = k.spte[v]
        /\ z.va2pa = <<Written(va, p)>> \o k.va2pa
        /\ z.msgCount = IF t = NULL THEN k.msgCount
                        ELSE incMsgCount(k.msgCount, t)
        /\ z.hpte = k.hpte /\ z.avail = k.avail /\ z.latest = k.latest
        /\ z.panic = k.panic /\ SameQueue(k, z) /\ z.sched = k.sched
        /\ z.pending = k.pending /\ z.ended = k.ended
    BY <1>1, <1>2, <1>4, SendingIs
  <1> HIDE DEF z, p
  <1>6. QueueFits(z) /\ Ready(z) = Ready(k)
    <2>1. \A h, v, u : Pend(z, h, v, u) <=> Pend(k, h, v, u)
      BY <1>5, SameThings
    <2>2. QueueFits(z)
      BY <1>1, <1>5, SameParts
    <2> QED BY <1>5, <2>1, <2>2 DEF Ready, SameQueue
  <1>7. /\ \A h : ~OnItsWay(k, h, va)
        /\ \A x \in Messages : Flies(k, x) => x.key # va
        /\ \A q : ~Unwritten(k, va, q)
    BY PresentIsIdle
  <1>8. /\ \A u \in Waiters : ~Pend(k, "write", va, u)
        /\ \A q : ~Writing(k, va, q)
    BY <1>1, <1>3, <1>7, OnLists DEF SentFits
  <1>9. ~Sent(z, "write", va)
    <2>1. ~Sent(k, "write", va)
      BY <1>1, <1>3, <1>8, SentIs
    <2> QED BY <1>5, <2>1 DEF Sent
  <1>10. /\ r \in KStates /\ r.spte = z.spte /\ r.hpte = z.hpte
         /\ r.avail = z.avail /\ r.ended = z.ended /\ r.va2pa = z.va2pa
         /\ r.msgCount = z.msgCount /\ r.latest = z.latest
         /\ r.panic = z.panic
         /\ PendingIn(z, r, "write", va, t) /\ PostedIn(z, r, m)
         /\ SameElsewhere(z.sched, r.sched, c)
         /\ PendsMore(z, r, "write", va, t) /\ r.waiting = << >>
               => Holds(r.sched, {}, Ready(r))
    <2>1. Holds(z.sched, {}, Ready(z))
      BY <1>1, <1>5, <1>6
    <2>2. /\ t = z.sched.current[c] => t \in Tasks
          /\ t = z.sched.current[c] \/ t \notin Ready(z)
      BY <1>2, <1>5, <1>6
    <2> HIDE DEF m
    <2> QED BY <1>2, <1>3, <1>4, <1>5, <1>6, <1>9, <2>1, <2>2, Sends DEF m
  <1> HIDE DEF r
  <1>11. PendingIn(k, r, "write", va, t) /\ PostedIn(k, r, m)
    <2>1. PendingIn(k, r, "write", va, t)
      BY <1>5, <1>10 DEF PendingIn
    <2>2. PostedIn(k, r, m)
      BY <1>5, <1>10 DEF PostedIn, SameQueue
    <2> QED BY <2>1, <2>2
  <1>12. TasksFit(r) /\ PendsMore(k, r, "write", va, t)
    <2>1. /\ r.ended = k.ended
          /\ r.msgCount = IF t = NULL THEN k.msgCount
                          ELSE incMsgCount(k.msgCount, t)
      BY <1>5, <1>10
    <2> QED BY <1>1, <1>2, <1>3, <1>8, <1>11, <2>1, TasksAfterSend
  <1>13. PendsMore(z, r, "write", va, t)
    <2>1. \A h, v, u : Pend(z, h, v, u) <=> Pend(k, h, v, u)
      BY <1>5, SameThings
    <2> QED BY <1>12, <2>1 DEF PendsMore
  <1>14. /\ m \in Messages /\ m.handler = "write" /\ m.key = va
         /\ m.data = p /\ ~m.done
    BY <1>3, <1>4, NewMessageFields
  <1> HIDE DEF m
  <1>15. /\ QueueFits(r) /\ FlightsOnce(r) /\ r.waiting = << >>
         /\ \A x \in Messages : Flies(r, x) <=> (Flies(k, x) \/ x = m)
    <2>1. ~OnItsWay(k, m.handler, m.key)
      BY <1>7, <1>14
    <2>2. m.handler = "write" =>
             \A x \in Messages : Flies(k, x) => x.key # m.key
      BY <1>7, <1>14
    <2> QED BY <1>1, <1>10, <1>11, <1>14, <2>1, <2>2, Posted
  <1>16. /\ NoneTwice(r.va2pa)
         /\ \A v, q : Writing(r, v, q)
                         <=> (Writing(k, v, q) \/ (v = va /\ q = p))
    <2> DEFINE e == Written(va, p)
    <2>1. k.va2pa \in Seq(Writes) /\ e \in Writes /\ NoneTwice(k.va2pa)
      BY <1>1, <1>4, KFields, EntryFacts DEF PagesFit, WritesApart
    <2>2. ~OnList(k.va2pa, e) /\ r.va2pa = <<e>> \o k.va2pa
      BY <1>5, <1>8, <1>10 DEF Writing
    <2> HIDE DEF e
    <2>3. /\ <<e>> \in Seq(Writes) /\ NoneTwice(<<e>>)
          /\ \A u : OnList(<<e>>, u) <=> u = e
      BY <2>1, ListOne
    <2>4. /\ NoneTwice(<<e>> \o k.va2pa)
          /\ \A u : OnList(<<e>> \o k.va2pa, u)
                       <=> OnList(<<e>>, u) \/ OnList(k.va2pa, u)
      BY <2>1, <2>2, <2>3, ListConcat
    <2>5. /\ NoneTwice(r.va2pa)
          /\ \A u : OnList(r.va2pa, u) <=> (u = e \/ OnList(k.va2pa, u))
      BY <2>2, <2>3, <2>4
    <2> QED BY <2>5, EntryFacts DEF Writing, e
  <1>17. /\ p \notin k.avail
         /\ \A v \in VAs : v # va => k.spte[v].page # p
         /\ \A v \in VAs : ~Writing(k, v, p)
    BY <1>4, OwnPage DEF p
  <1>18. /\ r.spte[va].page = NULL /\ ~r.spte[va].present
         /\ r.spte[va].perm = k.spte[va].perm
         /\ \A v \in VAs : v # va => r.spte[v] = k.spte[v]
         /\ r.hpte = k.hpte /\ r.avail = k.avail /\ r.latest = k.latest
         /\ r.panic = k.panic
    BY <1>5, <1>10
  <1>19. PagesFit(r)
    <2>1. ShadowApart(r)
      <3>1. ASSUME NEW v \in VAs PROVE r.spte[v].page \notin r.avail
        <4>1. NULL \notin r.avail
          BY <1>4, <1>10, KFields
        <4> QED BY <1>1, <1>18, <4>1 DEF PagesFit, ShadowApart
      <3>2. ASSUME NEW v \in VAs, NEW w \in VAs,
                   r.spte[v].page = r.spte[w].page, r.spte[v].page # NULL
            PROVE  v = w
        BY <1>1, <1>18, <3>2 DEF PagesFit, ShadowApart
      <3> QED BY <3>1, <3>2 DEF ShadowApart
    <2>2. WritesApart(r)
      <3>1. ASSUME NEW v \in VAs, NEW w \in VAs, NEW q \in Pages,
                   NEW s \in Pages, Writing(r, v, q), Writing(r, w, s)
            PROVE  v = w <=> q = s
        BY <1>1, <1>8, <1>16, <1>17, <3>1 DEF PagesFit, WritesApart
      <3>2. ASSUME NEW v \in VAs, NEW w \in VAs, NEW q \in Pages,
                   Writing(r, v, q)
            PROVE  q \notin r.avail /\ r.spte[w].page # q
        BY <1>1, <1>4, <1>16, <1>17, <1>18, <3>2 DEF PagesFit, WritesApart
      <3> QED BY <1>16, <3>1, <3>2 DEF WritesApart
    <2>3. NoPageLost(r)
      <3> SUFFICES ASSUME NEW q \in Pages, q # p
                   PROVE  \/ q \in k.avail
                          \/ \E v \in VAs : \/ r.spte[v].page = q
                                            \/ Writing(k, v, q)
        BY <1>16, <1>18 DEF NoPageLost
      <3> QED BY <1>1, <1>18 DEF PagesFit, NoPageLost, p
    <2> QED BY <2>1, <2>2, <2>3 DEF PagesFit
  <1>20. TableFits(r)
    <2> SUFFICES ASSUME NEW v \in VAs
                 PROVE  /\ "T" \in r.spte[v].perm => v \in Backed
                        /\ r.hpte[v] # NULL =>
                             /\ r.spte[v].present
                             /\ r.spte[v].page = r.hpte[v].page
                             /\ r.hpte[v].writable =>
                                   r.spte[v].dirty /\ "W" \in r.spte[v].perm
      BY <1>1, <1>18 DEF TableFits
    <2> QED BY <1>1, <1>18 DEF TableFits
  <1>21. FlightsFit(r)
    <2> SUFFICES ASSUME NEW x \in Messages, Flies(r, x)
                 PROVE  /\ x.key \in Backed /\ ~r.spte[x.key].present
                        /\ x.handler = "read" => r.spte[x.key].page = x.data
                        /\ x.handler = "write" => Writing(r, x.key, x.data)
      BY DEF FlightsFit
    <2>1. CASE x = m
      BY <1>3, <1>14, <1>16, <1>18, <2>1
    <2>2. CASE Flies(k, x)
      <3>1. x.key \in VAs /\ x.key # va
        BY <1>7, <2>2, MessageFields
      <3> QED BY <1>1, <1>16, <1>18, <2>2, <3>1 DEF FlightsFit
    <2> QED BY <1>15, <2>1, <2>2
  <1>22. \A v, q : Unwritten(r, v, q)
                      <=> (Unwritten(k, v, q) \/ (v = va /\ q = p))
    BY <1>14, <1>15 DEF Unwritten
  <1>23. ContentsFit(r)
    <2>1. \A v \in VAs : r.spte[v].present =>
             r.spte[v].page # NULL /\ r.spte[v].page \in r.latest[v]
      BY <1>1, <1>18 DEF ContentsFit
    <2>2. ASSUME NEW v \in VAs
          PROVE  \/ Device \in r.latest[v]
                 \/ r.spte[v].present /\ r.spte[v].dirty
                 \/ \E q \in Pages : Unwritten(r, v, q)
      <3>1. CASE v = va
        BY <1>4, <1>22, <3>1
      <3>2. CASE v # va
        BY <1>1, <1>18, <1>22, <3>2 DEF ContentsFit
      <3> QED BY <3>1, <3>2
    <2>3. ASSUME NEW v \in VAs, NEW q \in Pages, Unwritten(r, v, q)
          PROVE  q \in r.latest[v]
      BY <1>1, <1>4, <1>18, <1>22, <2>3 DEF ContentsFit
    <2>4. ASSUME NEW x \in Messages, Flies(r, x), x.handler = "read", x.done
          PROVE  x.data \in r.latest[x.key]
      BY <1>1, <1>14, <1>15, <1>18, <2>4 DEF ContentsFit
    <2> QED BY <2>1, <2>2, <2>3, <2>4 DEF ContentsFit
  <1>24. SentFits(r, {})
    <2>1. OnItsWay(r, "write", va)
      BY <1>14, <1>15 DEF OnItsWay
    <2>2. ASSUME NEW h \in Handlers, NEW v \in VAs, ~(h = "write" /\ v = va)
          PROVE  OnItsWay(r, h, v) <=> OnItsWay(k, h, v)
      BY <1>14, <1>15, <2>2 DEF OnItsWay
    <2>3. ASSUME NEW h \in Handlers, NEW v \in VAs
          PROVE  (\E u \in Waiters : Pend(r, h, v, u)) <=> OnItsWay(r, h, v)
      <3>1. CASE h = "write" /\ v = va
        BY <1>2, <1>12, <2>1, <3>1 DEF PendsMore
      <3>2. CASE ~(h = "write" /\ v = va)
        BY <1>1, <1>12, <2>2, <3>2 DEF PendsMore, SentFits
      <3> QED BY <3>1, <3>2
    <2>4. ASSUME NEW v \in VAs, NEW q \in Pages, Writing(r, v, q)
          PROVE  OnItsWay(r, "write", v)
      <3>1. CASE v = va
        BY <2>1, <3>1
      <3>2. CASE v # va
        BY <1>1, <1>3, <1>16, <2>2, <2>4, <3>2 DEF SentFits
      <3> QED BY <3>1, <3>2
    <2> QED BY <2>3, <2>4 DEF SentFits
  <1>25. Holds(r.sched, {}, Ready(r))
    BY <1>10, <1>13, <1>15
  <1>26. KInv(r, {}, {})
    BY <1>10, <1>12, <1>15, <1>19, <1>20, <1>21, <1>23, <1>24, <1>25
       DEF KInv, MemoryFits
  <1>27. SameElsewhere(k.sched, r.sched, c)
    BY <1>5, <1>10
  <1>28. CanSend(r, c, t)
    <2>1. Pend(r, "write", va, t)
      BY <1>3, <1>12 DEF PendsMore
    <2> QED BY <1>2, <2>1 DEF CanSend, Waiters
  <1> QED BY <1>26, <1>27, <1>28 DEF r, z, p

-----------------------------------------------------------------------------
(* Pages are removed.                                                      *)

(* What a removal keeps.                                                   *)
Removing(k, r, c, t) ==
    /\ KInv(r, {}, {}) /\ SameElsewhere(k.sched, r.sched, c)
    /\ CanSend(r, c, t)

(* The page is not of the kind that is kept by this operation, so it is    *)
(* clean or given up.                                                      *)
LEMMA RemovePage ==
    ASSUME BlockHandlers, NEW k, KInv(k, {}, {}), NEW c \in Cpus, NEW t,
           CanSend(k, c, t), NEW va \in VAs,
           NEW op \in {"EVICT", "RELEASE", "FLUSH"}
    PROVE  Removing(k, removePage(k, c, op, va, t), c, t)
  <1> DEFINE e == k.spte[va]
             k1 == delEntry(k, va)
             tracked == "T" \in e.perm /\ va \in Backed
             given == IF e.dirty /\ op = "RELEASE"
                      THEN [k1 EXCEPT !.latest[va] = {Device}] ELSE k1
             r == removePage(k, c, op, va, t)
  <1>1. /\ KInv(k1, {}, {}) /\ k1.hpte[va] = NULL /\ k1.spte = k.spte
        /\ k1.sched = k.sched /\ SameTasks(k, k1)
    BY EntryDeleted
  <1>2. CanSend(k1, c, t)
    <2>1. \A v, u : Pend(k1, "write", v, u) <=> Pend(k, "write", v, u)
      BY <1>1, SameThings DEF SameTasks
    <2> QED BY <1>1, <2>1 DEF CanSend
  <1>3. /\ k1 \in KStates /\ ContentsFit(k1) /\ TableFits(k1)
        /\ e \in ShadowPTEs
    <2>1. k1 \in KStates /\ ContentsFit(k1) /\ TableFits(k1) /\ k \in KStates
      BY <1>1 DEF KInv, MemoryFits
    <2>2. k.spte \in [VAs -> ShadowPTEs]
      BY <2>1, KFields
    <2> QED BY <2>1, <2>2
  <1>4. CASE ~e.present \/ e.page = NULL
    <2>1. r = k
      BY <1>4, Zenon DEF removePage
    <2> QED BY <2>1 DEF Removing, SameElsewhere
  <1>5. CASE e.present /\ e.page # NULL /\ e.dirty /\ tracked
    <2>1. r = sendMessage([releaseSPTE(k1, va) EXCEPT
                              !.va2pa = <<[key |-> va, page |-> e.page]>> \o @,
                              !.msgCount = IF t = NULL THEN @
                                           ELSE incMsgCount(@, t)],
                          c, "write", va, e.page, t)
      BY <1>5, Zenon DEF removePage
    <2>2. r = sendMessage(Sending(k1, va, t), c, "write", va,
                          k1.spte[va].page, t)
      <3> HIDE DEF k1, r
      <3> QED BY <1>1, <2>1, Zenon DEF Sending, Written
    <2>3. /\ KInv(r, {}, {}) /\ SameElsewhere(k1.sched, r.sched, c)
          /\ CanSend(r, c, t)
      <3> HIDE DEF k1, r
      <3> QED BY <1>1, <1>2, <1>5, <2>2, SendWrite
    <2> QED BY <1>1, <2>3 DEF Removing
  <1>6. CASE /\ e.present /\ e.page # NULL /\ ~(e.dirty /\ tracked)
             /\ \/ e.dirty /\ "T" \notin e.perm /\ op = "EVICT"
                \/ op = "FLUSH"
    <2>1. r = k1
      <3> HIDE DEF k1
      <3>1. ~(~e.present \/ e.page = NULL) /\ ~(e.dirty /\ tracked)
        BY <1>6
      <3>2. \/ e.dirty /\ "T" \notin e.perm /\ op = "EVICT"
            \/ ~(e.dirty /\ "T" \notin e.perm /\ op = "EVICT")
               /\ (~(e.dirty /\ tracked) /\ op = "FLUSH")
        BY <1>6
      <3> QED BY <3>1, <3>2, Zenon DEF removePage, k1
    <2> QED BY <1>1, <1>2, <2>1 DEF Removing, SameElsewhere
  <1>7. CASE /\ e.present /\ e.page # NULL /\ ~(e.dirty /\ tracked)
             /\ ~(e.dirty /\ "T" \notin e.perm /\ op = "EVICT")
             /\ op # "FLUSH"
    <2>1. r = freePage(releaseSPTE(given, va), e.page)
      BY <1>7, Zenon DEF removePage
    <2>2. given = k1 \/ given = [k1 EXCEPT !.latest[va] = {Device}]
      OBVIOUS
    <2>3. Device \in given.latest[va]
      <3>1. CASE e.dirty
        <4>1. op = "RELEASE"
          BY <1>1, <1>3, <1>7, <3>1 DEF TableFits
        <4>2. given = [k1 EXCEPT !.latest[va] = {Device}]
          BY <3>1, <4>1
        <4> HIDE DEF given, k1
        <4> QED BY <1>3, <4>2 DEF KStates
      <3>2. CASE ~e.dirty
        <4>1. given = k1
          BY <3>2
        <4>2. \A p : ~Unwritten(k1, va, p)
          BY <1>1, <1>7, PresentIsIdle
        <4> HIDE DEF given, k1
        <4> QED BY <1>1, <1>3, <3>2, <4>1, <4>2 DEF ContentsFit
      <3> QED BY <3>1, <3>2
    <2> HIDE DEF given, k1, r
    <2>4. KInv(r, {}, {}) /\ SameTasks(k1, r)
      <3>1. k1.spte[va].present /\ k1.spte[va].page = e.page
        BY <1>1, <1>7
      <3> HIDE DEF e
      <3> QED BY <1>1, <2>1, <2>2, <2>3, <3>1, PageReleased
    <2>5. CanSend(r, c, t)
      <3>1. \A v, u : Pend(r, "write", v, u) <=> Pend(k1, "write", v, u)
        BY <2>4, SameThings DEF SameTasks
      <3> QED BY <1>2, <2>4, <3>1 DEF CanSend, SameTasks
    <2> QED BY <1>1, <2>4, <2>5 DEF Removing, SameElsewhere, SameTasks, r
  <1> QED BY <1>4, <1>5, <1>6, <1>7

(* removePages is removePage, one page of the range after the other.       *)
LEMMA RemoveSteps ==
    ASSUME BlockHandlers, NEW k, NEW c, NEW op, NEW range, NEW t
    PROVE  \E g : /\ g[0] = k
                  /\ g[LastVA] = removePages(k, c, op, range, t)
                  /\ \A i \in 1 .. LastVA :
                        g[i] = IF i \in range
                               THEN removePage(g[i - 1], c, op, i, t)
                               ELSE g[i - 1]
  <1> DEFINE done[n \in 0 .. LastVA] ==
                 IF n = 0 THEN k
                 ELSE IF n \in range THEN removePage(done[n - 1], c, op, n, t)
                 ELSE done[n - 1]
             Upto(g, j) == g = [n \in 0 .. j |->
                 IF n = 0 THEN k
                 ELSE IF n \in range THEN removePage(g[n - 1], c, op, n, t)
                 ELSE g[n - 1]]
             Bad == {j \in 0 .. LastVA : ~\E g : Upto(g, j)}
  <1>1. removePages(k, c, op, range, t) = done[LastVA]
    BY DEF removePages
  <1>2. LastVA \in Nat
    BY BlockFacts
  <1>3. Bad = {}
    <2> SUFFICES ASSUME Bad # {} PROVE FALSE
      OBVIOUS
    <2>1. Bad \subseteq Nat
      BY <1>2
    <2>2. PICK j \in Bad : \A i \in Bad : j <= i
      <3> HIDE DEF Bad
      <3> QED BY <2>1, LeastNatural
    <2>3. j # 0
      <3> SUFFICES ASSUME j = 0 PROVE FALSE
        OBVIOUS
      <3> DEFINE h == [n \in 0 .. 0 |-> k]
      <3>1. Upto(h, 0)
        OBVIOUS
      <3> QED BY <3>1
    <2>4. PICK g : Upto(g, j - 1)
      <3>1. j - 1 \in 0 .. LastVA /\ j - 1 \notin Bad
        <4>1. j \in Nat /\ j <= LastVA /\ \A i \in Bad : i \in Nat
          BY <1>2, <2>1, <2>2
        <4> HIDE DEF Bad
        <4> QED BY <1>2, <2>2, <2>3, <4>1
      <3> HIDE DEF Upto
      <3> QED BY <3>1
    <2> DEFINE h == [n \in 0 .. j |->
                 IF n = 0 THEN k
                 ELSE IF n \in range THEN removePage(g[n - 1], c, op, n, t)
                 ELSE g[n - 1]]
    <2>5. \A i \in 0 .. j - 1 : h[i] = g[i]
      BY <2>1, <2>3, <2>4
    <2>6. Upto(h, j)
      BY <2>1, <2>3, <2>4, <2>5
    <2> QED BY <2>6
  <1>4. PICK g : Upto(g, LastVA)
    <2>1. LastVA \in 0 .. LastVA /\ LastVA \notin Bad
      BY <1>2, <1>3
    <2> HIDE DEF Upto
    <2> QED BY <2>1
  <1>5. Upto(done, LastVA)
    BY <1>4
  <1> HIDE DEF done
  <1>6. /\ done[0] = k
        /\ \A i \in 1 .. LastVA :
              done[i] = IF i \in range
                        THEN removePage(done[i - 1], c, op, i, t)
                        ELSE done[i - 1]
    BY <1>2, <1>5
  <1> QED BY <1>1, <1>6, Zenon

(* removePages                                                             *)
LEMMA RemovePages ==
    ASSUME BlockHandlers, NEW k, KInv(k, {}, {}), NEW c \in Cpus, NEW t,
           CanSend(k, c, t), NEW range,
           NEW op \in {"EVICT", "RELEASE", "FLUSH"}
    PROVE  Removing(k, removePages(k, c, op, range, t), c, t)
  <1>1. LastVA \in Nat /\ VAs = 1 .. LastVA
    BY BlockFacts DEF VAs
  <1>2. PICK g : /\ g[0] = k
                 /\ g[LastVA] = removePages(k, c, op, range, t)
                 /\ \A i \in 1 .. LastVA :
                       g[i] = IF i \in range
                              THEN removePage(g[i - 1], c, op, i, t)
                              ELSE g[i - 1]
    BY RemoveSteps
  <1> DEFINE Bad == {j \in 0 .. LastVA : ~Removing(k, g[j], c, t)}
  <1>3. Bad = {}
    <2> SUFFICES ASSUME Bad # {} PROVE FALSE
      OBVIOUS
    <2>1. Bad \subseteq Nat
      BY <1>1
    <2>2. PICK j \in Bad : \A i \in Bad : j <= i
      <3> HIDE DEF Bad
      <3> QED BY <2>1, LeastNatural
    <2>3. j # 0
      BY <1>2 DEF Removing, SameElsewhere
    <2>4. j \in 1 .. LastVA /\ j - 1 \in 0 .. LastVA /\ j - 1 \notin Bad
      BY <1>1, <2>2, <2>3
    <2>5. Removing(k, g[j - 1], c, t)
      BY <2>4
    <2>6. CASE j \notin range
      BY <1>2, <2>4, <2>5, <2>6
    <2>7. CASE j \in range
      <3>1. g[j] = removePage(g[j - 1], c, op, j, t)
        BY <1>2, <2>4, <2>7
      <3> DEFINE f == g[j - 1]
      <3> HIDE DEF f
      <3>2. Removing(f, removePage(f, c, op, j, t), c, t)
        BY <1>1, <2>4, <2>5, RemovePage DEF Removing, f
      <3>3. Removing(k, g[j], c, t)
        BY <2>5, <3>1, <3>2 DEF Removing, SameElsewhere, f
      <3> QED BY <3>3
    <2> QED BY <2>6, <2>7
  <1>4. Removing(k, g[LastVA], c, t)
    BY <1>1, <1>3
  <1> QED BY <1>2, <1>4

-----------------------------------------------------------------------------
(* Page faults.                                                            *)

(* Steps that are about tasks only.                                        *)
SameMemory(k, r) ==
    /\ r.spte = k.spte /\ r.hpte = k.hpte /\ r.latest = k.latest
    /\ r.panic = k.panic /\ SamePages(k, r)

(* Memory fits as before.                                                  *)
LEMMA MemorySame ==
    ASSUME NEW k, NEW r, SameMemory(k, r), SameQueue(k, r), MemoryFits(k)
    PROVE  MemoryFits(r)
  <1>1. /\ PagesFit(k) /\ TableFits(k) /\ FlightsFit(k) /\ ContentsFit(k)
        /\ QueueFits(k) /\ FlightsOnce(k)
    BY DEF MemoryFits
  <1>2. /\ \A v, q : Writing(r, v, q) <=> Writing(k, v, q)
        /\ \A m : Flies(r, m) <=> Flies(k, m)
        /\ \A v, q : Unwritten(r, v, q) <=> Unwritten(k, v, q)
    BY SameThings DEF SameMemory, SamePages
  <1>3. QueueFits(r) /\ FlightsOnce(r)
    BY <1>1, SameParts
  <1>4. PagesFit(r)
    BY <1>1, <1>2 DEF PagesFit, ShadowApart, WritesApart, NoPageLost,
                      SameMemory, SamePages
  <1>5. TableFits(r) /\ FlightsFit(r)
    BY <1>1, <1>2 DEF TableFits, FlightsFit, SameMemory
  <1>6. ContentsFit(r)
    BY <1>1, <1>2 DEF ContentsFit, SameMemory
  <1> QED BY <1>3, <1>4, <1>5, <1>6 DEF MemoryFits

(* endTask of the task that runs.                                          *)
LEMMA EndTask ==
    ASSUME BlockHandlers, NEW k, KInv(k, {}, {}), NEW c \in Cpus,
           NEW t \in Users, t = k.sched.current[c]
    PROVE  LET r == endTask(k, c, t) IN
           KInv(r, {}, {}) /\ SameElsewhere(k.sched, r.sched, c)
  <1> DEFINE r == endTask(k, c, t)
             S == setNextRunnable(k.sched, c)
  <1>1. /\ k \in KStates /\ MemoryFits(k) /\ SentFits(k, {}) /\ TasksFit(k)
        /\ Holds(k.sched, {}, Ready(k))
    BY DEF KInv
  <1>2. \A g \in Handlers : \A v \in VAs : ~Pend(k, g, v, t)
    BY SenderFacts DEF CanSend
  <1>3. /\ Holds(S, {}, Ready(k) \ {t}) /\ S \in SchedStates
        /\ SameElsewhere(k.sched, S, c)
    <2>1. Holds(k.sched, {c}, Ready(k) \ {t})
      BY <1>1, Vacated
    <2>2. Holds(S, {}, Ready(k) \ {t})
      BY <2>1, NextRunnable
    <2>3. k.sched \in SchedStates
      BY <1>1 DEF Holds
    <2> QED BY <2>2, <2>3, Elsewhere DEF Holds
  <1>4. r = [k EXCEPT !.ended = @ \cup {t}, !.sched = S]
    BY Zenon DEF endTask
  <1> HIDE DEF r, S
  <1>5. k.ended \in SUBSET Users
    BY <1>1, KFields
  <1>6. /\ r \in KStates /\ SameMemory(k, r) /\ SameQueue(k, r)
        /\ SameLists(k, r) /\ r.msgCount = k.msgCount
        /\ r.ended = k.ended \cup {t} /\ r.sched = S
    BY <1>1, <1>3, <1>4, <1>5
       DEF KStates, SameMemory, SameQueue, SameLists, SamePages
  <1>7. MemoryFits(r) /\ SentFits(r, {})
    BY <1>1, <1>6, MemorySame, SameParts
  <1>8. \A h, v, u : Pend(r, h, v, u) <=> Pend(k, h, v, u)
    BY <1>6, SameThings DEF SameLists
  <1>9. TasksFit(r)
    <2>1. \A u : AwaitedBy(r, u) = AwaitedBy(k, u)
      BY <1>8 DEF AwaitedBy
    <2>2. \A h \in Handlers : NoneTwice(r.pending[h])
      BY <1>1, <1>6 DEF TasksFit, SameLists
    <2>3. \A h \in Handlers : \A v \in VAs : \A u \in Users :
             Pend(r, h, v, u) => u \notin r.ended
      BY <1>1, <1>2, <1>6, <1>8 DEF TasksFit
    <2>4. \A u \in Tasks : r.msgCount[u] = Cardinality(AwaitedBy(r, u))
      BY <1>1, <1>6, <2>1 DEF TasksFit
    <2> QED BY <1>1, <1>8, <2>2, <2>3, <2>4 DEF TasksFit
  <1>10. Ready(r) = Ready(k) \ {t}
    BY <1>6, <1>8 DEF Ready, SameQueue
  <1>11. Holds(r.sched, {}, Ready(r))
    BY <1>3, <1>6, <1>10
  <1>12. KInv(r, {}, {})
    BY <1>6, <1>7, <1>9, <1>11 DEF KInv
  <1> QED BY <1>3, <1>6, <1>12 DEF r

(* The kernel stops for lack of memory.                                    *)
LEMMA OutOfMemory ==
    ASSUME NEW k, NEW X, NEW off, KInv(k, X, off)
    PROVE  LET r == [k EXCEPT !.panic = "out of memory"] IN
           KInv(r, X, off) /\ r.sched = k.sched
  <1> DEFINE r == [k EXCEPT !.panic = "out of memory"]
  <1>1. k \in KStates /\ TableFits(k)
    BY DEF KInv, MemoryFits
  <1>2. /\ r \in KStates /\ r.spte = k.spte /\ r.hpte = k.hpte
        /\ r.latest = k.latest /\ r.panic = "out of memory"
        /\ SamePages(k, r) /\ SameQueue(k, r) /\ SameTasks(k, r)
    BY <1>1 DEF KStates, SamePages, SameQueue, SameTasks
  <1> HIDE DEF r
  <1>3. TableFits(r)
    BY <1>1, <1>2 DEF TableFits
  <1>4. KInv(r, X, off)
    BY <1>2, <1>3, TableStep
  <1> QED BY <1>2, <1>4 DEF r, SameTasks

(* A page is filled from zero.                                             *)
Zeroed(k, va, p) == [k EXCEPT !.spte[va].present = TRUE,
                              !.latest = Copied(@, va, Device, p)]

(* A page of a block without handlers is filled from zero and mapped.      *)
LEMMA FillZero ==
    ASSUME BlockHandlers, NEW k, KInv(k, {}, {}), NEW va \in VAs,
           va \notin Backed, NEW p \in Pages, k.spte[va].page = p,
           ~k.spte[va].present, NEW victim \in VAs
    PROVE  LET r == addEntry(Zeroed(k, va, p), va, victim) IN
           KInv(r, {}, {}) /\ r.sched = k.sched
  <1> DEFINE f == [k EXCEPT !.latest = Copied(@, va, Device, p)]
             n == [f EXCEPT !.spte[va].present = TRUE]
  <1>1. k \in KStates /\ FlightsFit(k)
    BY DEF KInv, MemoryFits
  <1>2. \A m \in Messages : Flies(k, m) => m.key # va
    BY <1>1 DEF FlightsFit
  <1>3. \A q \in Pages : ~Unwritten(k, va, q)
    BY <1>2 DEF Unwritten
  <1>4. /\ KInv(f, {}, {}) /\ p \in f.latest[va] /\ f.spte = k.spte
        /\ SameQueue(k, f) /\ SameTasks(k, f) /\ f.hpte = k.hpte
    BY <1>3, PageFilled
  <1>5. n = Zeroed(k, va, p)
    <2> DEFINE L == Copied(k.latest, va, Device, p)
               s == [k.spte EXCEPT ![va].present = TRUE]
    <2>1. n = [[k EXCEPT !.latest = L] EXCEPT !.spte = s]
      BY <1>1 DEF KStates
    <2>2. Zeroed(k, va, p) = [k EXCEPT !.spte = s, !.latest = L]
      BY <1>1 DEF KStates, Zeroed
    <2> HIDE DEF n, L, s
    <2> QED BY <1>1, <2>1, <2>2 DEF KStates
  <1> HIDE DEF f
  <1>6. KInv(n, {}, {}) /\ n.spte[va].present /\ SameTasks(f, n)
    <2>1. \A m \in Messages : Flies(f, m) => m.key # va
      BY <1>2, <1>4, SameThings
    <2>2. f.spte[va].page # NULL /\ f.spte[va].page \in f.latest[va]
      BY <1>4, BlockFacts
    <2> QED BY <1>4, <2>1, <2>2, MadePresent
  <1>7. n.sched = k.sched
    BY <1>4, <1>6 DEF SameTasks
  <1> HIDE DEF n
  <1>8. /\ KInv(addEntry(n, va, victim), {}, {})
        /\ SameTasks(n, addEntry(n, va, victim))
    BY <1>6, EntryAdded
  <1> QED BY <1>5, <1>7, <1>8 DEF SameTasks

(* handlePageFault, for the task that runs.                                *)
LEMMA PageFault ==
    ASSUME BlockHandlers, NEW k, KInv(k, {}, {}), NEW c \in Cpus,
           NEW t \in Users, t = k.sched.current[c], NEW va \in VAs,
           NEW store \in BOOLEAN, NEW p \in Frames(k, va),
           NEW victim \in Victims(k, va)
    PROVE  LET r == handlePageFault(k, c, t, va, store, p, victim) IN
           KInv(r, {}, {}) /\ SameElsewhere(k.sched, r.sched, c)
  <1> DEFINE r == handlePageFault(k, c, t, va, store, p, victim)
             e == k.spte[va]
             k1 == IF store THEN [k EXCEPT !.spte[va].dirty = TRUE] ELSE k
             got == Taken(k1, va, p)
             needs == ~e.present /\ (va \in Backed \/ "Z" \in e.perm)
             bad == e.perm = {} \/ (store /\ "W" \notin e.perm)
  <1>1. victim \in VAs
    BY DEF Victims, Mapped
  <1>2. /\ KInv(k1, {}, {}) /\ k1.sched = k.sched /\ k1.avail = k.avail
        /\ k1.spte[va].page = e.page /\ k1.spte[va].present = e.present
    <2>1. CASE store
      BY <2>1, Dirtied DEF SameTasks, SamePages
    <2>2. CASE ~store
      BY <2>2
    <2> QED BY <2>1, <2>2
  <1>3. CASE bad
    <2>1. r = endTask(k, c, t)
      BY <1>3, Zenon DEF handlePageFault
    <2> QED BY <2>1, EndTask
  <1>4. CASE ~bad /\ e.present
    <2>1. r = addEntry(k1, va, victim)
      BY <1>4, Zenon DEF handlePageFault
    <2> HIDE DEF k1, r
    <2>2. KInv(r, {}, {}) /\ SameTasks(k1, r)
      BY <1>1, <1>2, <1>4, <2>1, EntryAdded
    <2> QED BY <1>2, <2>2 DEF SameElsewhere, SameTasks, r
  <1>5. CASE ~bad /\ needs /\ p = NULL
    <2>1. r = [k1 EXCEPT !.panic = "out of memory"]
      BY <1>5, Zenon DEF handlePageFault
    <2> HIDE DEF k1, r
    <2>2. KInv(r, {}, {}) /\ r.sched = k1.sched
      BY <1>2, <2>1, OutOfMemory
    <2> QED BY <1>2, <2>2 DEF SameElsewhere, r
  <1>6. CASE ~bad /\ needs /\ p # NULL
    <2>1. p \in Frames(k1, va)
      BY <1>2 DEF Frames
    <2>0. KInv(k1, {}, {}) /\ ~k1.spte[va].present /\ p # NULL
      BY <1>2, <1>6
    <2> HIDE DEF k1, e, bad, needs
    <2>2. /\ KInv(got, {}, {}) /\ p \in Pages /\ got.spte[va].page = p
          /\ ~got.spte[va].present /\ got.sched = k1.sched
      BY <2>0, <2>1, TakePage
    <2> HIDE DEF got
    <2>3. CASE va \in Backed
      <3>1. r = sendMessage(got, c, "read", va, p, t)
        BY <1>6, <2>3, Zenon DEF handlePageFault, got, k1, e, bad, needs,
                                 Taken
      <3> HIDE DEF r
      <3>2. t = got.sched.current[c]
        BY <1>2, <2>2
      <3>3. KInv(r, {}, {}) /\ SameElsewhere(got.sched, r.sched, c)
        BY <2>2, <2>3, <3>1, <3>2, SendRead
      <3> QED BY <1>2, <2>2, <3>3 DEF SameElsewhere, r
    <2>4. CASE va \notin Backed
      <3>1. r = addEntry(Zeroed(got, va, p), va, victim)
        BY <1>6, <2>4, Zenon DEF handlePageFault, got, k1, e, bad, needs,
                                 Taken, Zeroed
      <3> HIDE DEF r
      <3>2. KInv(r, {}, {}) /\ r.sched = got.sched
        BY <1>1, <2>2, <2>4, <3>1, FillZero
      <3> QED BY <1>2, <2>2, <3>2 DEF SameElsewhere, r
    <2> QED BY <2>3, <2>4
  <1>7. CASE ~bad /\ ~e.present /\ ~needs
    <2>1. r = endTask(k1, c, t)
      BY <1>7, Zenon DEF handlePageFault
    <2> HIDE DEF k1, r
    <2>2. KInv(r, {}, {}) /\ SameElsewhere(k1.sched, r.sched, c)
      BY <1>2, <2>1, EndTask
    <2> QED BY <1>2, <2>2 DEF r
  <1> QED BY <1>3, <1>4, <1>5, <1>6, <1>7

-----------------------------------------------------------------------------
(* Responses: the tasks that are answered.                                 *)

(* find has an entry of the key if there is one.                           *)
LEMMA Found ==
    ASSUME NEW S, NEW q \in Seq(S), NEW key, ForKey(q, key) # {}
    PROVE  find(q, key) \in DOMAIN q /\ q[find(q, key)].key = key
  <1>1. DOMAIN q = 1 .. Len(q) /\ Len(q) \in Nat
    BY ListPlaces
  <1>2. ForKey(q, key) \subseteq Nat
    BY <1>1 DEF ForKey
  <1>3. \E i \in ForKey(q, key) : \A j \in ForKey(q, key) : i <= j
    BY <1>2, LeastNatural
  <1>4. find(q, key) \in ForKey(q, key)
    BY <1>3, Zenon DEF find
  <1> QED BY <1>4 DEF ForKey

(* A list of a handler without one of its entries.                         *)
PendsLess(k, r, h, va, t) ==
    \A g \in Handlers : \A v, u :
        Pend(r, g, v, u) <=> (Pend(k, g, v, u) /\ ~(g = h /\ v = va /\ u = t))

(* The task that is answered is taken off the handler's list.              *)
LEMMA PendErased ==
    ASSUME NEW k \in KStates, TasksFit(k), NEW h \in Handlers,
           NEW va \in VAs, Sent(k, h, va)
    PROVE  LET n == find(k.pending[h], va)
               t == k.pending[h][n].task
               f == [k.pending EXCEPT ![h] = erase(k.pending[h], n)] IN
           /\ t \in Waiters /\ Pend(k, h, va, t)
           /\ f \in [Handlers -> Seq(Awaitings)]
           /\ Len(f[h]) = Len(k.pending[h]) - 1
           /\ \A g \in Handlers : NoneTwice(f[g])
           /\ \A r : r.pending = f => PendsLess(k, r, h, va, t)
  <1> DEFINE q == k.pending[h]
             n == find(q, va)
             t == q[n].task
             e == erase(q, n)
             f == [k.pending EXCEPT ![h] = e]
  <1>1. /\ k.pending \in [Handlers -> Seq(Awaitings)] /\ q \in Seq(Awaitings)
        /\ \A g \in Handlers : NoneTwice(k.pending[g])
    BY KFields DEF TasksFit
  <1>2. NoneTwice(q) /\ ForKey(q, va) # {}
    BY <1>1 DEF Sent
  <1> HIDE DEF q
  <1>3. n \in DOMAIN q /\ q[n].key = va
    BY <1>1, <1>2, Found
  <1> HIDE DEF n
  <1>4. q[n] \in Awaitings /\ OnList(q, q[n])
    BY <1>1, <1>3, ListPlaces DEF OnList
  <1>5. t \in Waiters /\ q[n] = Await(va, t)
    BY <1>3, <1>4, EntryFacts
  <1> HIDE DEF t
  <1>6. /\ e \in Seq(Awaitings) /\ Len(e) = Len(q) - 1 /\ NoneTwice(e)
        /\ \A u : OnList(e, u) <=> (OnList(q, u) /\ u # q[n])
    BY <1>1, <1>2, <1>3, ListErase DEF erase
  <1> HIDE DEF e
  <1>7. /\ f \in [Handlers -> Seq(Awaitings)] /\ f[h] = e
        /\ \A g \in Handlers : g # h => f[g] = k.pending[g]
    BY <1>1, <1>6
  <1> HIDE DEF f
  <1>8. Pend(k, h, va, t)
    BY <1>4, <1>5 DEF Pend, q
  <1>9. \A g \in Handlers : NoneTwice(f[g])
    BY <1>1, <1>6, <1>7
  <1>10. ASSUME NEW r, r.pending = f PROVE PendsLess(k, r, h, va, t)
    <2>1. ASSUME NEW g \in Handlers, NEW v, NEW u
          PROVE  Pend(r, g, v, u)
                    <=> (Pend(k, g, v, u) /\ ~(g = h /\ v = va /\ u = t))
      <3>1. CASE g = h
        <4>1. Pend(r, g, v, u) <=> OnList(e, Await(v, u))
          BY <1>7, <1>10, <3>1 DEF Pend
        <4>2. Await(v, u) = q[n] <=> (v = va /\ u = t)
          BY <1>5, EntryFacts
        <4> QED BY <1>6, <3>1, <4>1, <4>2 DEF Pend, q
      <3>2. CASE g # h
        BY <1>7, <1>10, <3>2 DEF Pend
      <3> QED BY <3>1, <3>2
    <2> QED BY <2>1 DEF PendsLess
  <1> QED BY <1>5, <1>6, <1>7, <1>8, <1>9, <1>10 DEF f, e, t, n, q

(* What the write handler counts for the task that is answered.            *)
CountsLess(k, r, h, t) ==
    r.msgCount = IF h = "write" /\ t # NULL
                 THEN [k.msgCount EXCEPT ![t] = k.msgCount[t] - 1]
                 ELSE k.msgCount

(* Task t of handler h's list has been answered for va.                    *)
Answered(k, r, h, va, t) ==
    /\ PendsLess(k, r, h, va, t) /\ CountsLess(k, r, h, t)
    /\ \A g \in Handlers : NoneTwice(r.pending[g])

(* What a task waits for besides.                                          *)
LEMMA OtherWaits ==
    ASSUME BlockHandlers, NEW k \in KStates, TasksFit(k),
           NEW h \in Handlers, NEW va \in VAs, NEW t \in Users,
           Pend(k, h, va, t)
    PROVE  /\ h = "read" => \A g \in Handlers : \A v \in VAs :
                 Pend(k, g, v, t) => g = h /\ v = va
           /\ h = "write" =>
                 /\ k.msgCount[t] \in Nat \ {0}
                 /\ k.msgCount[t] = 1 =>
                       \A g \in Handlers : \A v \in VAs :
                          Pend(k, g, v, t) => g = h /\ v = va
                 /\ k.msgCount[t] # 1 =>
                       \E v \in VAs : v # va /\ Pend(k, "write", v, t)
                 /\ Cardinality(AwaitedBy(k, t) \ {va}) = k.msgCount[t] - 1
  <1>1. ASSUME h = "read", NEW g \in Handlers, NEW v \in VAs, Pend(k, g, v, t)
        PROVE  g = h /\ v = va
    BY <1>1 DEF TasksFit, Handlers
  <1>2. ASSUME h = "write"
        PROVE  /\ k.msgCount[t] \in Nat \ {0}
               /\ k.msgCount[t] = 1 =>
                     \A g \in Handlers : \A v \in VAs :
                        Pend(k, g, v, t) => g = h /\ v = va
               /\ k.msgCount[t] # 1 =>
                     \E v \in VAs : v # va /\ Pend(k, "write", v, t)
               /\ Cardinality(AwaitedBy(k, t) \ {va}) = k.msgCount[t] - 1
    <2> DEFINE A == AwaitedBy(k, t)
    <2>1. va \in A /\ IsFiniteSet(A) /\ Cardinality(A) \in Nat
      BY <1>2, AwaitedFinite DEF AwaitedBy
    <2>2. k.msgCount[t] = Cardinality(A)
      BY BlockFacts DEF TasksFit
    <2>3. \A v \in VAs : Pend(k, "write", v, t) <=> v \in A
      BY DEF AwaitedBy
    <2>4. A \subseteq VAs
      BY DEF AwaitedBy
    <2> HIDE DEF A
    <2>5. /\ IsFiniteSet(A \ {va})
          /\ Cardinality(A \ {va}) = Cardinality(A) - 1
      BY <2>1, FS_RemoveElement
    <2>6. Cardinality(A \ {va}) \in Nat
      BY <2>5, FS_CardinalityType
    <2>7. Cardinality(A \ {va}) = 0 <=> A \ {va} = {}
      BY <2>5, FS_EmptySet
    <2>8. Cardinality(A) # 0 /\ (Cardinality(A) = 1 <=> A \ {va} = {})
      BY <2>1, <2>5, <2>6, <2>7
    <2>9. ASSUME k.msgCount[t] = 1, NEW g \in Handlers, NEW v \in VAs,
                 Pend(k, g, v, t)
          PROVE  g = h /\ v = va
      <3>1. CASE g = "read"
        BY <1>2, <2>9, <3>1 DEF TasksFit
      <3>2. CASE g = "write"
        BY <1>2, <2>2, <2>3, <2>8, <2>9, <3>2
      <3> QED BY <3>1, <3>2 DEF Handlers
    <2>10. ASSUME k.msgCount[t] # 1
           PROVE  \E v \in VAs : v # va /\ Pend(k, "write", v, t)
      <3>1. PICK v \in A : v # va
        BY <2>2, <2>8, <2>10
      <3> QED BY <2>3, <2>4, <3>1
    <2>11. k.msgCount[t] \in Nat \ {0}
      BY <2>1, <2>2, <2>8
    <2> QED BY <2>2, <2>5, <2>9, <2>10, <2>11 DEF A
  <1> QED BY <1>1, <1>2

(* The tasks after one of them was answered.                               *)
LEMMA TasksAnswered ==
    ASSUME BlockHandlers, NEW k \in KStates, NEW r, TasksFit(k),
           NEW h \in Handlers, NEW va \in VAs, NEW t \in Waiters,
           Pend(k, h, va, t), Answered(k, r, h, va, t),
           \/ r.ended = k.ended
           \/ h = "read" /\ r.ended = k.ended \cup {t}
    PROVE  TasksFit(r)
  <1>1. /\ PendsLess(k, r, h, va, t) /\ CountsLess(k, r, h, t)
        /\ \A g \in Handlers : NoneTwice(r.pending[g])
    BY DEF Answered
  <1>2. /\ "read" \in Handlers /\ "write" \in Handlers /\ "read" # "write"
        /\ NULL \notin Users /\ Users \subseteq Tasks
        /\ h = "read" \/ h = "write"
        /\ Users \subseteq Waiters /\ NULL \notin Tasks
        /\ t = NULL \/ t \in Users
    BY BlockFacts DEF Handlers, Waiters
  <1>3. \A g \in Handlers : \A v, u : Pend(r, g, v, u) => Pend(k, g, v, u)
    BY <1>1 DEF PendsLess
  <1>4. /\ \A v \in VAs : ~Pend(r, "read", v, NULL)
        /\ \A v, w \in VAs : \A u \in Users : Pend(r, "read", v, u) =>
              /\ ~Pend(r, "write", w, u)
              /\ Pend(r, "read", w, u) => v = w
        /\ \A v \in VAs : \A a, b \in Waiters :
              Pend(r, "write", v, a) /\ Pend(r, "write", v, b) => a = b
    BY <1>2, <1>3 DEF TasksFit
  <1>5. ASSUME NEW g \in Handlers, NEW v \in VAs, NEW u \in Users,
               Pend(r, g, v, u)
        PROVE  u \notin r.ended
    <2>1. u \notin k.ended
      BY <1>3, <1>5 DEF TasksFit
    <2>2. CASE u = t /\ h = "read"
      <3>0. t \in Users /\ Pend(k, g, v, t)
        BY <1>3, <1>5, <2>2
      <3>1. g = h /\ v = va
        BY <2>2, <3>0, OtherWaits
      <3> QED BY <1>1, <1>5, <2>2, <3>1 DEF PendsLess
    <2> QED BY <2>1, <2>2
  <1>6. ASSUME NEW u \in Tasks
        PROVE  r.msgCount[u] = Cardinality(AwaitedBy(r, u))
    <2>1. k.msgCount \in [Tasks -> Nat]
      BY KFields
    <2>2. k.msgCount[u] = Cardinality(AwaitedBy(k, u))
      BY DEF TasksFit
    <2>3. CASE h = "write" /\ u = t
      <3>1. t \in Users /\ t # NULL
        BY <1>2, <2>3
      <3>2. r.msgCount[u] = k.msgCount[u] - 1
        BY <1>1, <2>1, <2>3, <3>1 DEF CountsLess
      <3>3. AwaitedBy(r, u) = AwaitedBy(k, u) \ {va}
        BY <1>1, <1>2, <2>3 DEF AwaitedBy, PendsLess
      <3>4. Cardinality(AwaitedBy(k, t) \ {va}) = k.msgCount[t] - 1
        BY <2>3, <3>1, OtherWaits
      <3> QED BY <2>3, <3>2, <3>3, <3>4
    <2>4. CASE ~(h = "write" /\ u = t)
      <3>1. r.msgCount[u] = k.msgCount[u]
        BY <1>1, <1>2, <2>1, <2>4 DEF CountsLess
      <3>2. AwaitedBy(r, u) = AwaitedBy(k, u)
        BY <1>1, <1>2, <2>4 DEF AwaitedBy, PendsLess
      <3> QED BY <2>2, <3>1, <3>2
    <2> QED BY <2>3, <2>4
  <1> QED BY <1>1, <1>4, <1>5, <1>6 DEF TasksFit

(* Who is ready then: the task, if it waits for nothing else.              *)
LEMMA ReadyAnswered ==
    ASSUME BlockHandlers, NEW k \in KStates, NEW r, TasksFit(k),
           NEW h \in Handlers, NEW va \in VAs, NEW t \in Waiters,
           Pend(k, h, va, t), PendsLess(k, r, h, va, t),
           r.waiting = k.waiting
    PROVE  /\ t \notin Ready(k) /\ t # Daemon
           /\ /\ r.ended = k.ended
              /\ t = NULL \/ (h = "write" /\ k.msgCount[t] # 1)
              => Ready(r) = Ready(k)
           /\ r.ended = k.ended \cup {t} => Ready(r) = Ready(k)
           /\ /\ r.ended = k.ended /\ t # NULL
              /\ h = "read" \/ k.msgCount[t] = 1
              => Ready(r) = Ready(k) \cup {t}
  <1>1. /\ NULL \notin Users /\ Users \subseteq Tasks /\ NULL \notin Tasks
        /\ t = NULL \/ t \in Users
        /\ Daemon \notin Users /\ Daemon \in Tasks
        /\ h = "read" \/ h = "write"
    BY BlockFacts DEF Waiters, Handlers
  <1>2. \A u \in Users : ~OnList(k.waiting, u)
    <2>1. k.waiting \in Seq(Daemons)
      BY KFields
    <2> QED BY <1>1, <2>1, ListPlaces, BlockFacts
  <1>3. /\ \A u : u # t => \A g \in Handlers : \A v \in VAs :
              Pend(r, g, v, u) <=> Pend(k, g, v, u)
        /\ t \notin Ready(k)
    BY <1>1 DEF PendsLess, Ready
  <1>4. \A u \in Tasks : u # t /\ (r.ended = k.ended \/ r.ended = k.ended \cup {t})
           => (u \in Ready(r) <=> u \in Ready(k))
    BY <1>3 DEF Ready
  <1>5. Ready(r) \subseteq Tasks /\ Ready(k) \subseteq Tasks
    BY DEF Ready
  <1>6. ASSUME r.ended = k.ended \cup {t} PROVE Ready(r) = Ready(k)
    <2>1. t \notin Ready(r)
      BY <1>6 DEF Ready
    <2> QED BY <1>3, <1>4, <1>5, <1>6, <2>1
  <1>7. ASSUME r.ended = k.ended,
               t = NULL \/ (h = "write" /\ k.msgCount[t] # 1)
        PROVE  Ready(r) = Ready(k)
    <2>1. t \notin Ready(r)
      <3>1. CASE t = NULL
        BY <1>1, <3>1 DEF Ready
      <3>2. CASE t # NULL
        <4>1. t \in Users /\ h = "write" /\ k.msgCount[t] # 1
          BY <1>1, <1>7, <3>2
        <4>2. PICK v \in VAs : v # va /\ Pend(k, "write", v, t)
          BY <4>1, OtherWaits
        <4>3. Pend(r, "write", v, t)
          BY <4>1, <4>2 DEF PendsLess
        <4> QED BY <4>1, <4>3 DEF Ready
      <3> QED BY <3>1, <3>2
    <2> QED BY <1>3, <1>4, <1>5, <1>7, <2>1
  <1>8. ASSUME r.ended = k.ended, t # NULL, h = "read" \/ k.msgCount[t] = 1
        PROVE  Ready(r) = Ready(k) \cup {t}
    <2>1. t \in Users /\ t \in Tasks
      BY <1>1, <1>8
    <2>2. \A g \in Handlers : \A v \in VAs :
             Pend(k, g, v, t) => g = h /\ v = va
      BY <1>1, <1>8, <2>1, OtherWaits
    <2>3. \A g \in Handlers : \A v \in VAs : ~Pend(r, g, v, t)
      BY <2>2 DEF PendsLess
    <2>4. t \notin r.ended /\ ~OnList(r.waiting, t)
      BY <1>2, <1>8, <2>1 DEF TasksFit
    <2>5. t \in Ready(r)
      BY <2>1, <2>3, <2>4 DEF Ready
    <2> QED BY <1>4, <1>5, <1>8, <2>5
  <1> QED BY <1>1, <1>3, <1>6, <1>7, <1>8

(* The daemon has answered its message m: nothing that it owes is left but *)
(* the waiting tasks.                                                      *)
LEMMA Unserved ==
    ASSUME BlockHandlers, NEW k, KInv(k, {}, {}),
           NEW m \in Messages, k.serving[Daemon] = m,
           m.handler = "write" => m.done
    PROVE  LET r == [k EXCEPT !.serving[Daemon] = NULL] IN
           /\ KInv(r, {<<m.handler, m.key>>}, {})
           /\ r.waiting = << >> /\ r.serving[Daemon] = NULL
           /\ r.sched = k.sched /\ r.pending = k.pending
           /\ m.handler = "read" /\ m.done =>
                 /\ r.spte[m.key].page # NULL
                 /\ r.spte[m.key].page \in r.latest[m.key]
                 /\ \A x \in Messages : Flies(r, x) => x.key # m.key
           /\ m.handler = "write" =>
                 /\ \E p \in Pages : Writing(r, m.key, p)
                 /\ Sent(r, "write", m.key)
  <1> DEFINE f == [k.serving EXCEPT ![Daemon] = NULL]
             r == [k EXCEPT !.serving = f]
             h == m.handler
             va == m.key
  <1>1. /\ k \in KStates /\ MemoryFits(k) /\ SentFits(k, {}) /\ TasksFit(k)
        /\ Holds(k.sched, {}, Ready(k))
    BY DEF KInv
  <1>2. /\ PagesFit(k) /\ TableFits(k) /\ QueueFits(k) /\ FlightsOnce(k)
        /\ FlightsFit(k) /\ ContentsFit(k)
    BY <1>1 DEF MemoryFits
  <1>3. /\ Daemon \in Daemons /\ Daemons = {Daemon} /\ NULL \notin Messages
        /\ NULL \notin Pages
        /\ k.serving \in [Daemons -> Messages \cup {NULL}]
        /\ h \in Handlers /\ va \in VAs /\ m.data \in Pages /\ m # NULL
        /\ h = "read" \/ h = "write"
    BY <1>1, KFields, BlockFacts, MessageFields DEF Handlers
  <1>4. f \in [Daemons -> Messages \cup {NULL}] /\ f[Daemon] = NULL
    BY <1>3
  <1>5. [k EXCEPT !.serving[Daemon] = NULL] = r
    OBVIOUS
  <1> HIDE DEF f, h, va
  <1>6. /\ r \in KStates /\ r.serving = f /\ SameMemory(k, r)
        /\ SameTasks(k, r) /\ r.messages = k.messages /\ SameLists(k, r)
    BY <1>1, <1>4 DEF KStates, SameMemory, SameTasks, SameLists, SamePages
  <1> HIDE DEF r
  <1>7. k.waiting = << >> /\ r.waiting = << >>
    BY <1>2, <1>3, <1>6 DEF QueueFits, SameTasks
  <1>8. /\ \A i \in DOMAIN k.messages :
              /\ k.messages[i] \in Messages
              /\ ~(k.messages[i].handler = h /\ k.messages[i].key = va)
              /\ k.messages[i].handler = "write" => k.messages[i].key # va
    BY <1>1, <1>2, <1>3, OnLists DEF QueueFits, FlightsOnce, h, va
  <1>9. /\ Flies(k, m)
        /\ \A x \in Messages : Flies(r, x) <=> OnList(k.messages, x)
        /\ \A x \in Messages : Flies(r, x) <=> (Flies(k, x) /\ x # m)
    <2>1. ~OnList(k.messages, m)
      BY <1>8 DEF OnList, h, va
    <2> QED BY <1>3, <1>4, <1>6, <2>1 DEF Flies
  <1>10. \A x \in Messages : Flies(r, x) => ~(x.handler = h /\ x.key = va)
    BY <1>8, <1>9 DEF OnList
  <1>11. QueueFits(r) /\ FlightsOnce(r)
    BY <1>2, <1>4, <1>6, <1>7 DEF QueueFits, FlightsOnce
  <1>12. /\ \A v, p : Writing(r, v, p) <=> Writing(k, v, p)
         /\ \A g, v, t : Pend(r, g, v, t) <=> Pend(k, g, v, t)
    BY <1>6, SameThings DEF SameLists
  <1>13. PagesFit(r)
    BY <1>2, <1>6, <1>12 DEF PagesFit, ShadowApart, WritesApart, NoPageLost,
                             SameMemory, SamePages
  <1>14. TableFits(r)
    BY <1>2, <1>6 DEF TableFits, SameMemory
  <1>15. FlightsFit(r)
    BY <1>2, <1>6, <1>9, <1>12 DEF FlightsFit, SameMemory
  <1>16. \A v \in VAs : \A p \in Pages : Unwritten(r, v, p) <=> Unwritten(k, v, p)
    <2>1. h = "write" => m.done
      BY DEF h
    <2>2. ASSUME NEW v \in VAs, NEW p \in Pages, Unwritten(k, v, p)
          PROVE  Unwritten(r, v, p)
      <3>1. PICK x \in Messages : /\ Flies(k, x) /\ x.handler = "write"
                                  /\ x.key = v /\ x.data = p /\ ~x.done
        BY <2>2 DEF Unwritten
      <3>2. x # m
        BY <2>1, <3>1 DEF h
      <3> QED BY <1>9, <3>1, <3>2 DEF Unwritten
    <2>3. ASSUME NEW v \in VAs, NEW p \in Pages, Unwritten(r, v, p)
          PROVE  Unwritten(k, v, p)
      BY <1>9, <2>3 DEF Unwritten
    <2> QED BY <2>2, <2>3
  <1>17. ContentsFit(r)
    BY <1>2, <1>6, <1>9, <1>16 DEF ContentsFit, SameMemory
  <1>18. MemoryFits(r)
    BY <1>11, <1>13, <1>14, <1>15, <1>17 DEF MemoryFits
  <1>19. \A g \in Handlers : \A v \in VAs :
            IF g = h /\ v = va THEN ~OnItsWay(r, g, v)
            ELSE OnItsWay(r, g, v) <=> OnItsWay(k, g, v)
    <2> SUFFICES ASSUME NEW g \in Handlers, NEW v \in VAs
                 PROVE  IF g = h /\ v = va THEN ~OnItsWay(r, g, v)
                        ELSE OnItsWay(r, g, v) <=> OnItsWay(k, g, v)
      OBVIOUS
    <2>1. CASE g = h /\ v = va
      BY <1>10, <2>1 DEF OnItsWay
    <2>2. CASE ~(g = h /\ v = va)
      BY <1>9, <2>2 DEF OnItsWay, h, va
    <2> QED BY <2>1, <2>2
  <1>20. SentFits(r, {<<h, va>>})
    <2>1. ASSUME NEW g \in Handlers, NEW v \in VAs
          PROVE  <<g, v>> \in {<<h, va>>} <=> (g = h /\ v = va)
      OBVIOUS
    <2>2. ASSUME NEW g \in Handlers, NEW v \in VAs, <<g, v>> \notin {<<h, va>>}
          PROVE  (\E t \in Waiters : Pend(r, g, v, t)) <=> OnItsWay(r, g, v)
      <3>1. (\E t \in Waiters : Pend(k, g, v, t)) <=> OnItsWay(k, g, v)
        BY <1>1 DEF SentFits
      <3>2. OnItsWay(r, g, v) <=> OnItsWay(k, g, v)
        BY <1>19, <2>1, <2>2
      <3> QED BY <1>12, <3>1, <3>2
    <2>3. ASSUME NEW v \in VAs, NEW p \in Pages, Writing(r, v, p)
          PROVE  OnItsWay(r, "write", v) \/ <<"write", v>> \in {<<h, va>>}
      <3>1. OnItsWay(k, "write", v) /\ "write" \in Handlers
        BY <1>1, <1>12, <2>3 DEF SentFits, Handlers
      <3> QED BY <1>19, <2>1, <3>1
    <2>4. ASSUME NEW g \in Handlers, NEW v \in VAs, <<g, v>> \in {<<h, va>>}
          PROVE  ~OnItsWay(r, g, v)
      BY <1>19, <2>1, <2>4
    <2> QED BY <2>2, <2>3, <2>4 DEF SentFits
  <1>21. TasksFit(r) /\ Ready(r) = Ready(k)
    BY <1>1, <1>6, SameParts
  <1>22. KInv(r, {<<h, va>>}, {})
    <2>1. r.sched = k.sched /\ Ready(r) \ {} = Ready(k)
      BY <1>6, <1>21 DEF SameTasks
    <2>2. Holds(r.sched, {}, Ready(r) \ {})
      BY <1>1, <2>1
    <2> QED BY <1>6, <1>18, <1>20, <1>21, <2>2 DEF KInv
  <1>23. ASSUME h = "read", m.done
         PROVE  /\ r.spte[va].page # NULL
                /\ r.spte[va].page \in r.latest[va]
                /\ \A x \in Messages : Flies(r, x) => x.key # va
    <2>1. k.spte[va].page = m.data /\ m.data \in k.latest[va]
      BY <1>2, <1>9, <1>23 DEF FlightsFit, ContentsFit, h, va
    <2>2. \A x \in Messages : Flies(r, x) => x.key # va
      <3> SUFFICES ASSUME NEW x \in Messages, Flies(r, x), x.key = va
                   PROVE  FALSE
        OBVIOUS
      <3>1. PICK i \in DOMAIN k.messages : k.messages[i] = x
        BY <1>9 DEF OnList
      <3>2. x.handler = "read" \/ x.handler = "write"
        BY MessageFields DEF Handlers
      <3> QED BY <1>8, <1>23, <3>1, <3>2
    <2> QED BY <1>3, <1>6, <2>1, <2>2 DEF SameMemory
  <1>24. ASSUME h = "write"
         PROVE  /\ \E p \in Pages : Writing(r, va, p)
                /\ Sent(r, "write", va)
    <2>1. Writing(k, va, m.data)
      BY <1>2, <1>9, <1>24 DEF FlightsFit, h, va
    <2>2. OnItsWay(k, "write", va) /\ "write" \in Handlers
      BY <1>9, <1>24 DEF OnItsWay, h, va, Handlers
    <2>3. \E t \in Waiters : Pend(k, "write", va, t)
      BY <1>1, <1>3, <2>2 DEF SentFits
    <2>4. Sent(r, "write", va)
      BY <1>3, <1>6, <1>12, <2>2, <2>3, SentIs
    <2> QED BY <1>3, <1>12, <2>1, <2>4
  <1>25. r.serving[Daemon] = NULL /\ r.sched = k.sched /\ r.pending = k.pending
    BY <1>4, <1>6 DEF SameTasks, SameLists
  <1> QED BY <1>5, <1>7, <1>22, <1>23, <1>24, <1>25 DEF h, va

-----------------------------------------------------------------------------
(* Responses: what the handlers do with the page.                          *)

(* The page that was written is free, and off the handler's list.          *)
Freed(k, va) ==
    LET n == find(k.va2pa, va) IN
    freePage([k EXCEPT !.va2pa = erase(@, n)], k.va2pa[n].page)

(* No write of that virtual page is left.                                  *)
LEMMA WrittenFreed ==
    ASSUME BlockHandlers, NEW k, NEW X, NEW off, KInv(k, X, off),
           NEW va \in VAs, NEW w \in Pages, Writing(k, va, w),
           <<"write", va>> \in X
    PROVE  LET r == Freed(k, va) IN
           /\ KInv(r, X, off) /\ SameTasks(k, r)
           /\ \A p : ~Writing(r, va, p)
           /\ ForKey(k.va2pa, va) # {}
  <1> DEFINE n == find(k.va2pa, va)
             p == k.va2pa[n].page
             q == erase(k.va2pa, n)
             L == [v \in VAs |-> k.latest[v] \ {p}]
             r == [k EXCEPT !.va2pa = q, !.avail = k.avail \cup {p},
                            !.latest = L]
  <1>1. /\ k \in KStates /\ PagesFit(k) /\ TableFits(k) /\ FlightsFit(k)
        /\ ContentsFit(k) /\ QueueFits(k) /\ FlightsOnce(k)
        /\ SentFits(k, X) /\ TasksFit(k) /\ Holds(k.sched, {}, Ready(k) \ off)
    BY DEF KInv, MemoryFits
  <1>2. /\ k.va2pa \in Seq(Writes) /\ k.avail \in SUBSET Pages
        /\ k.latest \in [VAs -> SUBSET (Pages \cup {Device})]
        /\ NULL \notin Pages /\ Device \notin Pages
    BY <1>1, KFields, BlockFacts
  <1>3. ForKey(k.va2pa, va) # {}
    BY EntryFacts DEF Writing, OnList, ForKey
  <1>4. n \in DOMAIN k.va2pa /\ k.va2pa[n].key = va
    BY <1>2, <1>3, Found
  <1> HIDE DEF n
  <1>5. k.va2pa[n] \in Writes
    BY <1>2, <1>4, ListPlaces
  <1>6. p \in Pages /\ k.va2pa[n] = Written(va, p)
    BY <1>4, <1>5, EntryFacts
  <1>7. Writing(k, va, p)
    BY <1>4, <1>6 DEF Writing, OnList
  <1> HIDE DEF p
  <1>8. NoneTwice(k.va2pa)
    BY <1>1 DEF PagesFit, WritesApart
  <1>9. /\ q \in Seq(Writes) /\ NoneTwice(q)
        /\ \A u : OnList(q, u) <=> (OnList(k.va2pa, u) /\ u # Written(va, p))
    BY <1>2, <1>4, <1>6, <1>8, ListErase DEF erase
  <1>10. /\ L \in [VAs -> SUBSET (Pages \cup {Device})]
         /\ \A v \in VAs : L[v] = k.latest[v] \ {p}
    BY <1>2
  <1> HIDE DEF q, L
  <1>11. Freed(k, va) = r
    BY <1>1 DEF Freed, freePage, n, p, q, L, KStates
  <1>12. /\ r \in KStates /\ r.spte = k.spte /\ r.hpte = k.hpte
         /\ r.avail = k.avail \cup {p} /\ r.latest = L /\ r.panic = k.panic
         /\ r.va2pa = q /\ SameQueue(k, r) /\ SameTasks(k, r)
    BY <1>1, <1>2, <1>6, <1>9, <1>10 DEF KStates, SameQueue, SameTasks
  <1> HIDE DEF r
  <1>13. \A v, u : Writing(r, v, u) <=> (Writing(k, v, u) /\ ~(v = va /\ u = p))
    BY <1>9, <1>12, EntryFacts DEF Writing
  <1>14. /\ \A m : Flies(r, m) <=> Flies(k, m)
         /\ \A v, u : Unwritten(r, v, u) <=> Unwritten(k, v, u)
         /\ \A h, v : OnItsWay(r, h, v) <=> OnItsWay(k, h, v)
         /\ \A h, v, t : Pend(r, h, v, t) <=> Pend(k, h, v, t)
    BY <1>12, SameThings DEF SameTasks
  <1>15. ~OnItsWay(k, "write", va)
    BY <1>1 DEF SentFits, Handlers
  <1>16. /\ p \notin k.avail /\ \A v \in VAs : k.spte[v].page # p
         /\ \A v \in VAs : \A u \in Pages :
               Writing(k, v, u) => (v = va <=> u = p)
    BY <1>1, <1>6, <1>7 DEF PagesFit, WritesApart
  <1>17. \A u : ~Writing(r, va, u)
    BY <1>1, <1>13, <1>16, OnLists
  <1>18. PagesFit(r)
    <2>1. ShadowApart(r)
      BY <1>1, <1>12, <1>16 DEF PagesFit, ShadowApart
    <2>2. WritesApart(r)
      <3>1. \A v \in VAs : \A u \in Pages : Writing(r, v, u) => u # p
        BY <1>13, <1>16
      <3>2. \A v, x \in VAs : \A u \in Pages :
               Writing(r, v, u) => u \notin r.avail /\ r.spte[x].page # u
        BY <1>1, <1>12, <1>13, <3>1 DEF PagesFit, WritesApart
      <3>3. \A v, x \in VAs : \A u, y \in Pages :
               Writing(r, v, u) /\ Writing(r, x, y) => (v = x <=> u = y)
        BY <1>1, <1>13 DEF PagesFit, WritesApart
      <3> QED BY <1>9, <1>12, <3>2, <3>3 DEF WritesApart
    <2>3. NoPageLost(r)
      BY <1>1, <1>12, <1>13 DEF PagesFit, NoPageLost
    <2> QED BY <2>1, <2>2, <2>3 DEF PagesFit
  <1>19. TableFits(r)
    BY <1>1, <1>12 DEF TableFits
  <1>20. FlightsFit(r)
    <2> SUFFICES ASSUME NEW m \in Messages, Flies(k, m)
                 PROVE  /\ m.key \in Backed /\ ~r.spte[m.key].present
                        /\ m.handler = "read" => r.spte[m.key].page = m.data
                        /\ m.handler = "write" => Writing(r, m.key, m.data)
      BY <1>14 DEF FlightsFit
    <2>1. m.handler = "write" => m.key # va
      BY <1>15 DEF OnItsWay
    <2> QED BY <1>1, <1>12, <1>13, <2>1 DEF FlightsFit
  <1>21. ContentsFit(r)
    <2>1. ASSUME NEW v \in VAs, NEW u \in Pages, Unwritten(k, v, u)
          PROVE  u # p
      <3>1. Writing(k, v, u) /\ v # va
        BY <1>1, <1>15, <2>1 DEF Unwritten, FlightsFit, OnItsWay
      <3> QED BY <1>16, <3>1
    <2>2. \A v \in VAs : r.spte[v].present =>
             r.spte[v].page # NULL /\ r.spte[v].page \in r.latest[v]
      BY <1>1, <1>10, <1>12, <1>16 DEF ContentsFit
    <2>3. \A v \in VAs : \/ Device \in r.latest[v]
                         \/ r.spte[v].present /\ r.spte[v].dirty
                         \/ \E u \in Pages : Unwritten(r, v, u)
      BY <1>1, <1>2, <1>6, <1>10, <1>12, <1>14 DEF ContentsFit
    <2>4. \A v \in VAs : \A u \in Pages :
             Unwritten(r, v, u) => u \in r.latest[v]
      BY <1>1, <1>10, <1>12, <1>14, <2>1 DEF ContentsFit
    <2>5. ASSUME NEW m \in Messages, Flies(r, m), m.handler = "read", m.done
          PROVE  m.data \in r.latest[m.key]
      <3>1. m.key \in VAs /\ m.data \in k.latest[m.key]
        BY <1>1, <1>14, <2>5, MessageFields DEF ContentsFit
      <3>2. k.spte[m.key].page = m.data
        BY <1>1, <1>14, <2>5 DEF FlightsFit
      <3> QED BY <1>10, <1>12, <1>16, <3>1, <3>2
    <2> QED BY <2>2, <2>3, <2>4, <2>5 DEF ContentsFit
  <1>22. QueueFits(r) /\ FlightsOnce(r) /\ TasksFit(r) /\ Ready(r) = Ready(k)
    BY <1>1, <1>12, SameParts
  <1>23. SentFits(r, X)
    BY <1>1, <1>13, <1>14 DEF SentFits
  <1>24. Holds(r.sched, {}, Ready(r) \ off)
    BY <1>1, <1>12, <1>22 DEF SameTasks
  <1>25. MemoryFits(r)
    BY <1>18, <1>19, <1>20, <1>21, <1>22 DEF MemoryFits
  <1>26. KInv(r, X, off)
    BY <1>12, <1>22, <1>23, <1>24, <1>25 DEF KInv
  <1> QED BY <1>3, <1>11, <1>12, <1>17, <1>26

(* A page has been read.                                                   *)
Filled(k, va) ==
    /\ k.spte[va].page # NULL /\ k.spte[va].page \in k.latest[va]
    /\ \A m \in Messages : Flies(k, m) => m.key # va

(* attachSPTE makes it present and maps it.                                *)
LEMMA Attached ==
    ASSUME BlockHandlers, NEW k, NEW X, NEW off, KInv(k, X, off),
           NEW va \in VAs, NEW victim \in VAs, Filled(k, va)
    PROVE  LET r == attachSPTE(k, va, victim) IN
           KInv(r, X, off) /\ SameTasks(k, r) /\ Filled(r, va)
  <1> DEFINE n == [k EXCEPT !.spte[va].present = TRUE]
             r == addEntry(n, va, victim)
  <1>1. /\ KInv(n, X, off) /\ n.spte[va].present /\ n.latest = k.latest
        /\ SameQueue(k, n) /\ SameTasks(k, n)
        /\ \A v \in VAs : n.spte[v].page = k.spte[v].page
    BY MadePresent DEF Filled
  <1>2. r = attachSPTE(k, va, victim)
    BY DEF attachSPTE
  <1> HIDE DEF n
  <1>3. /\ KInv(r, X, off) /\ SameTasks(n, r) /\ r.spte = n.spte
        /\ r.latest = n.latest /\ SameQueue(n, r)
    BY <1>1, EntryAdded
  <1> HIDE DEF r
  <1>4. SameTasks(k, r) /\ SameQueue(k, r)
    BY <1>1, <1>3 DEF SameTasks, SameQueue
  <1>5. \A m : Flies(r, m) <=> Flies(k, m)
    BY <1>4, SameThings
  <1>6. Filled(r, va)
    BY <1>1, <1>3, <1>5 DEF Filled
  <1> QED BY <1>2, <1>3, <1>4, <1>6

(* What is known of a message when the tasks that wait for it are told.    *)
Answerable(k, m, rc) ==
    /\ m.handler = "read" /\ rc = 0 => Filled(k, m.key)
    /\ m.handler = "write" =>
          /\ rc = 0
          /\ Sent(k, "write", m.key)
                <=> (\E p \in Pages : Writing(k, m.key, p))

(* The response is handled: f is the kernel before the tasks are.          *)
Handling(k, f, r, h, t) ==
    /\ r \in KStates /\ SameMemory(f, r) /\ SameQueue(f, r)
    /\ SameTasks(k, f) /\ r.sched = k.sched /\ r.ended = k.ended
    /\ r.pending = k.pending /\ CountsLess(k, r, h, t)

(* What the task has to do.                                                *)
Outcome(k, h, t, rc) ==
    CASE h = "read" /\ rc # 0 -> "UNHANDLED_RC"
      [] h = "write" /\ t # NULL /\ k.msgCount[t] # 1 -> "CONTINUE_DEFER"
      [] OTHER -> "SUCCESS"

(* handleResponse                                                          *)
LEMMA Handled ==
    ASSUME BlockHandlers, NEW k, NEW off, NEW m \in Messages,
           KInv(k, {<<m.handler, m.key>>}, off), NEW rc,
           Answerable(k, m, rc), NEW t \in Waiters,
           Pend(k, m.handler, m.key, t), NEW choice \in VAs
    PROVE  LET r == handleResponse(k, m, t, rc, choice) IN
           /\ r.result = Outcome(k, m.handler, t, rc)
           /\ \E f : /\ KInv(f, {<<m.handler, m.key>>}, off)
                     /\ Handling(k, f, r.k, m.handler, t)
                     /\ m.handler = "read" /\ rc = 0 => Filled(f, m.key)
                     /\ m.handler = "write" =>
                           \A p : ~Writing(f, m.key, p)
  <1> DEFINE r == handleBlockResponse(k, m, t, rc, choice)
             X == {<<m.handler, m.key>>}
  <1>1. handleResponse(k, m, t, rc, choice) = r
    BY Zenon DEF BlockHandlers
  <1>2. /\ m.handler \in Handlers /\ m.key \in VAs /\ k \in KStates
        /\ TasksFit(k) /\ "read" # "write"
        /\ m.handler = "read" \/ m.handler = "write"
    BY MessageFields DEF KInv, Handlers
  <1>3. CASE m.handler = "read" /\ rc = 0
    <2> DEFINE f == attachSPTE(k, m.key, choice)
    <2>1. r = [k |-> f, result |-> "SUCCESS"]
      BY <1>3, Zenon DEF handleBlockResponse
    <2>2. KInv(f, X, off) /\ SameTasks(k, f) /\ Filled(f, m.key)
      BY <1>2, <1>3, Attached DEF Answerable
    <2> HIDE DEF f
    <2>3. Handling(k, f, f, m.handler, t)
      BY <1>3, <2>2 DEF Handling, KInv, SameMemory, SamePages, SameQueue,
                        SameTasks, CountsLess
    <2>4. Outcome(k, m.handler, t, rc) = "SUCCESS"
      BY <1>3 DEF Outcome
    <2>5. r.k = f /\ r.result = "SUCCESS"
      BY <2>1
    <2> HIDE DEF r
    <2> QED BY <1>1, <1>3, <2>2, <2>3, <2>4, <2>5
  <1>4. CASE m.handler = "read" /\ rc # 0
    <2>1. r = [k |-> k, result |-> "UNHANDLED_RC"]
      BY <1>4, Zenon DEF handleBlockResponse
    <2>2. Handling(k, k, k, m.handler, t)
      BY <1>2, <1>4 DEF Handling, SameMemory, SamePages, SameQueue,
                        SameTasks, CountsLess
    <2>3. Outcome(k, m.handler, t, rc) = "UNHANDLED_RC"
      BY <1>4 DEF Outcome
    <2>4. r.k = k /\ r.result = "UNHANDLED_RC"
      BY <2>1
    <2> HIDE DEF r
    <2> QED BY <1>1, <1>4, <2>2, <2>3, <2>4
  <1>5. CASE m.handler = "write"
    <2> DEFINE f == Freed(k, m.key)
               g == IF t = NULL THEN f ELSE
                    IF k.msgCount[t] = 1 THEN [f EXCEPT !.msgCount[t] = 0]
                    ELSE [f EXCEPT !.msgCount[t] = @ - 1]
    <2>1. /\ rc = 0 /\ Sent(k, "write", m.key)
          /\ \E p \in Pages : Writing(k, m.key, p)
      <3>1. Sent(k, "write", m.key)
        BY <1>2, <1>5, SentIs
      <3> QED BY <1>5, <3>1 DEF Answerable
    <2>2. /\ KInv(f, X, off) /\ SameTasks(k, f)
          /\ \A p : ~Writing(f, m.key, p)
          /\ ForKey(k.va2pa, m.key) # {}
      BY <1>2, <1>5, <2>1, WrittenFreed
    <2>3. t # NULL => k.msgCount[t] \in Nat \ {0}
      BY <1>2, <1>5, OtherWaits DEF Waiters
    <2>4. /\ r.k = g
          /\ r.result = IF t # NULL /\ k.msgCount[t] # 1
                        THEN "CONTINUE_DEFER" ELSE "SUCCESS"
      <3>0. r = BlockWriteResponse(k, m, t, rc)
        BY <1>2, <1>5, Zenon DEF handleBlockResponse
      <3>1. CASE t = NULL
        <4>1. r = [k |-> f, result |-> "SUCCESS"]
          BY <2>1, <2>2, <3>0, <3>1, Zenon DEF BlockWriteResponse, Freed
        <4> QED BY <3>1, <4>1
      <3>2. CASE t # NULL /\ k.msgCount[t] = 1
        <4>1. k.msgCount[t] # 0
          BY <2>3, <3>2
        <4>2. r = [k |-> [f EXCEPT !.msgCount[t] = 0], result |-> "SUCCESS"]
          BY <2>1, <2>2, <3>0, <3>2, <4>1, Zenon
             DEF BlockWriteResponse, Freed, LastMessage
        <4> QED BY <3>2, <4>2
      <3>3. CASE t # NULL /\ k.msgCount[t] # 1
        <4>1. k.msgCount[t] # 0
          BY <2>3, <3>3
        <4>2. r = [k |-> [f EXCEPT !.msgCount[t] = @ - 1],
                   result |-> "CONTINUE_DEFER"]
          BY <2>1, <2>2, <3>0, <3>3, <4>1, Zenon
             DEF BlockWriteResponse, Freed, LastMessage
        <4> QED BY <3>3, <4>2
      <3> QED BY <3>1, <3>2, <3>3
    <2> HIDE DEF f, r
    <2>5. f \in KStates /\ f.msgCount = k.msgCount
      BY <2>2 DEF KInv, SameTasks
    <2>6. Handling(k, f, g, m.handler, t)
      <3>1. CASE t = NULL
        BY <2>2, <2>5, <3>1 DEF Handling, SameMemory, SamePages, SameQueue,
                        SameTasks, CountsLess
      <3>2. CASE t # NULL
        <4> DEFINE M == [k.msgCount EXCEPT ![t] = k.msgCount[t] - 1]
        <4>1. k.msgCount \in [Tasks -> Nat] /\ t \in Users /\ Users \subseteq Tasks
          BY <1>2, <3>2, KFields, BlockFacts DEF Waiters
        <4>2. M \in [Tasks -> Nat]
          BY <2>3, <3>2, <4>1
        <4>3. g = [f EXCEPT !.msgCount = M]
          <5>1. CASE k.msgCount[t] = 1
            <6>1. M = [k.msgCount EXCEPT ![t] = 0]
              BY <5>1
            <6> QED BY <2>5, <3>2, <5>1, <6>1
          <5>2. CASE k.msgCount[t] # 1
            BY <2>5, <3>2, <5>2
          <5> QED BY <5>1, <5>2
        <4>4. CountsLess(k, g, m.handler, t) <=> g.msgCount = M
          BY <1>5, <3>2 DEF CountsLess
        <4> HIDE DEF M, g
        <4>5. /\ g \in KStates /\ SameMemory(f, g) /\ SameQueue(f, g)
              /\ g.sched = f.sched /\ g.ended = f.ended
              /\ g.pending = f.pending /\ g.msgCount = M
          BY <2>5, <4>2, <4>3
             DEF KStates, SameMemory, SamePages, SameQueue
        <4> QED BY <2>2, <4>4, <4>5 DEF Handling, SameTasks
      <3> QED BY <3>1, <3>2
    <2>7. Outcome(k, m.handler, t, rc) =
             IF t # NULL /\ k.msgCount[t] # 1 THEN "CONTINUE_DEFER"
             ELSE "SUCCESS"
      BY <1>2, <1>5, Zenon DEF Outcome
    <2> HIDE DEF g
    <2> QED BY <1>1, <1>2, <1>5, <2>2, <2>4, <2>6, <2>7
  <1> QED BY <1>2, <1>3, <1>4, <1>5

(* The kernel after the task was told.                                     *)
LEMMA AnswerKeeps ==
    ASSUME BlockHandlers, NEW f, NEW off, NEW now, NEW h \in Handlers,
           NEW va \in VAs, KInv(f, {<<h, va>>}, off), NEW r \in KStates,
           SameMemory(f, r), SameQueue(f, r), NEW t \in Waiters,
           Pend(f, h, va, t), Answered(f, r, h, va, t),
           \/ r.ended = f.ended
           \/ h = "read" /\ r.ended = f.ended \cup {t},
           Holds(r.sched, {}, Ready(r) \ now)
    PROVE  KInv(r, {<<h, va>>}, now)
  <1>1. /\ f \in KStates /\ MemoryFits(f) /\ SentFits(f, {<<h, va>>})
        /\ TasksFit(f)
    BY DEF KInv
  <1>2. MemoryFits(r)
    BY <1>1, MemorySame
  <1>3. TasksFit(r)
    BY <1>1, TasksAnswered
  <1>4. /\ \A g, v : OnItsWay(r, g, v) <=> OnItsWay(f, g, v)
        /\ \A v, p : Writing(r, v, p) <=> Writing(f, v, p)
    BY SameThings DEF SameMemory, SamePages
  <1>5. ASSUME NEW g \in Handlers, NEW v \in VAs, <<g, v>> \notin {<<h, va>>}
        PROVE  \A u \in Waiters : Pend(r, g, v, u) <=> Pend(f, g, v, u)
    BY <1>5 DEF Answered, PendsLess
  <1>6. SentFits(r, {<<h, va>>})
    BY <1>1, <1>4, <1>5 DEF SentFits
  <1> QED BY <1>2, <1>3, <1>6 DEF KInv

(* The tasks told so far: b.restored says whether one of them has taken    *)
(* the CPU from the daemon.  z is the kernel before.                       *)
Told(z, b, c, m, rc) ==
    /\ b \in [k : KStates, restored : BOOLEAN] /\ b.k.waiting = << >>
    /\ KInv(b.k, {<<m.handler, m.key>>}, IF b.restored THEN {Daemon} ELSE {})
    /\ SameElsewhere(z.sched, b.k.sched, c)
    /\ IF b.restored THEN b.k.sched.current[c] \in Users
                     ELSE b.k.sched.current[c] = Daemon
    /\ Answerable(b.k, m, rc)

(* The page of the message is ready for the tasks.                         *)
PageReady(k, m, rc) ==
    /\ m.handler = "read" /\ rc = 0 => Filled(k, m.key)
    /\ m.handler = "write" => rc = 0 /\ \A p : ~Writing(k, m.key, p)

(* Only a task that waits for a read is ended.                             *)
EndedBy(k, r, h, t) ==
    r.ended = k.ended \/ (h = "read" /\ r.ended = k.ended \cup {t})

(* The parts of the kernel that do not depend on what becomes of the task. *)
LEMMA TellsOne ==
    ASSUME BlockHandlers, NEW f, NEW off, NEW now, NEW m \in Messages,
           NEW rc,
           KInv(f, {<<m.handler, m.key>>}, off), NEW r \in KStates,
           SameMemory(f, r), SameQueue(f, r), NEW t \in Waiters,
           Pend(f, m.handler, m.key, t),
           Answered(f, r, m.handler, m.key, t),
           EndedBy(f, r, m.handler, t), PageReady(f, m, rc),
           Holds(r.sched, {}, Ready(r) \ now)
    PROVE  KInv(r, {<<m.handler, m.key>>}, now) /\ Answerable(r, m, rc)
  <1>1. m.handler \in Handlers /\ m.key \in VAs
    BY MessageFields
  <1>2. KInv(r, {<<m.handler, m.key>>}, now)
    BY <1>1, AnswerKeeps DEF EndedBy
  <1>3. /\ \A x : Flies(r, x) <=> Flies(f, x)
        /\ \A v, p : Writing(r, v, p) <=> Writing(f, v, p)
    BY SameThings DEF SameMemory, SamePages
  <1>4. ASSUME m.handler = "read", rc = 0 PROVE Filled(r, m.key)
    BY <1>3, <1>4 DEF Filled, SameMemory, PageReady
  <1>5. ASSUME m.handler = "write"
        PROVE  /\ rc = 0
               /\ Sent(r, "write", m.key)
                     <=> (\E p \in Pages : Writing(r, m.key, p))
    <2>1. rc = 0 /\ \A p : ~Writing(r, m.key, p)
      BY <1>3, <1>5 DEF PageReady
    <2>2. TasksFit(f)
      BY DEF KInv
    <2>3. \A u \in Waiters : ~Pend(r, "write", m.key, u)
      BY <1>1, <1>5, <2>2 DEF Answered, PendsLess, TasksFit
    <2>4. ~Sent(r, "write", m.key)
      BY <1>1, <1>5, <2>3, SentIs
    <2> QED BY <2>1, <2>4
  <1> QED BY <1>2, <1>4, <1>5 DEF Answerable

(* One more task is told.                                                  *)
LEMMA AnswerNewest ==
    ASSUME BlockHandlers, NEW z, NEW b, NEW c \in Cpus, NEW m \in Messages,
           NEW rc, Told(z, b, c, m, rc),
           Sent(b.k, m.handler, m.key), NEW choice \in VAs
    PROVE  LET a == answerNewest(b, c, m, rc, choice) IN
           /\ Told(z, a, c, m, rc)
           /\ Len(a.k.pending[m.handler]) = Len(b.k.pending[m.handler]) - 1
  <1> DEFINE K == b.k
             h == m.handler
             n == find(K.pending[h], m.key)
             t == K.pending[h][n].task
             P == [K.pending EXCEPT ![h] = erase(K.pending[h], n)]
             r == handleResponse(K, m, t, rc, choice)
             k == [r.k EXCEPT !.pending[m.handler] = erase(@, n)]
             off == IF b.restored THEN {Daemon} ELSE {}
             X == {<<m.handler, m.key>>}
             resume == \/ r.result = "SUCCESS"
                       \/ r.result = "UNHANDLED_RC" /\ rc = 0
             now == ~b.restored /\ k.sched.pinned[t] = 0
             a == answerNewest(b, c, m, rc, choice)
  <1>1. /\ K \in KStates /\ KInv(K, X, off) /\ TasksFit(K)
        /\ b.restored \in BOOLEAN /\ b = [k |-> K, restored |-> b.restored]
        /\ SameElsewhere(z.sched, K.sched, c) /\ Answerable(K, m, rc)
        /\ K.waiting = << >>
    BY DEF Told, KInv
  <1>2. h \in Handlers /\ m.key \in VAs
    BY MessageFields
  <1>3. /\ t \in Waiters /\ Pend(K, h, m.key, t)
        /\ P \in [Handlers -> Seq(Awaitings)]
        /\ Len(P[h]) = Len(K.pending[h]) - 1
        /\ \A g \in Handlers : NoneTwice(P[g])
        /\ \A y : y.pending = P => PendsLess(K, y, h, m.key, t)
    BY <1>1, <1>2, PendErased
  <1>4. /\ a = CASE t = NULL \/ r.result = "CONTINUE_DEFER" ->
                      [b EXCEPT !.k = k]
                 [] t # NULL /\ resume /\ now ->
                      [k |-> [k EXCEPT !.sched = setCurrentTask(@, c, t)],
                       restored |-> TRUE]
                 [] t # NULL /\ resume /\ ~now ->
                      [b EXCEPT !.k = [k EXCEPT !.sched = addTask(@, t)]]
                 [] OTHER -> [b EXCEPT !.k = [k EXCEPT !.ended = @ \cup {t}]]
    BY Zenon DEF answerNewest
  <1> HIDE DEF t, P, off, K
  <1>5. /\ r.result = Outcome(K, h, t, rc)
        /\ \E f : /\ KInv(f, X, off) /\ Handling(K, f, r.k, h, t)
                  /\ h = "read" /\ rc = 0 => Filled(f, m.key)
                  /\ h = "write" => \A p : ~Writing(f, m.key, p)
    BY <1>1, <1>3, Handled
  <1> HIDE DEF r
  <1>6. PICK f : /\ KInv(f, X, off) /\ Handling(K, f, r.k, h, t)
                 /\ h = "read" /\ rc = 0 => Filled(f, m.key)
                 /\ h = "write" => \A p : ~Writing(f, m.key, p)
    BY <1>5
  <1>7. /\ r.k \in KStates /\ SameMemory(f, r.k) /\ SameQueue(f, r.k)
        /\ SameTasks(K, f) /\ r.k.sched = K.sched /\ r.k.ended = K.ended
        /\ r.k.pending = K.pending /\ CountsLess(K, r.k, h, t)
    BY <1>6 DEF Handling
  <1>8. k = [r.k EXCEPT !.pending = P]
    BY <1>7 DEF P, t
  <1> HIDE DEF k, n
  <1>9. /\ k \in KStates /\ SameMemory(f, k) /\ SameQueue(f, k)
        /\ k.sched = K.sched /\ k.ended = K.ended /\ k.pending = P
        /\ k.msgCount = r.k.msgCount
    BY <1>3, <1>7, <1>8 DEF KStates, SameMemory, SamePages, SameQueue
  <1>10. /\ f \in KStates /\ TasksFit(f) /\ Holds(f.sched, {}, Ready(f) \ off)
         /\ f.sched = K.sched /\ f.ended = K.ended /\ f.msgCount = K.msgCount
    BY <1>6, <1>7 DEF KInv, SameTasks
  <1>11. \A g, v, u : Pend(f, g, v, u) <=> Pend(K, g, v, u)
    BY <1>7, SameThings DEF SameTasks
  <1>12. Pend(f, h, m.key, t)
    BY <1>3, <1>11
  <1>13. ASSUME NEW y, y.pending = P, y.msgCount = k.msgCount
         PROVE  Answered(f, y, h, m.key, t)
    <2>1. PendsLess(f, y, h, m.key, t)
      <3>1. PendsLess(K, y, h, m.key, t)
        BY <1>3, <1>13
      <3> QED BY <1>11, <3>1 DEF PendsLess
    <2>2. CountsLess(f, y, h, t)
      BY <1>7, <1>9, <1>10, <1>13 DEF CountsLess
    <2>3. \A g \in Handlers : NoneTwice(y.pending[g])
      BY <1>3, <1>13
    <2> QED BY <2>1, <2>2, <2>3 DEF Answered
  <1>14. h = "write" => rc = 0
    BY <1>1 DEF Answerable
  <1>15. ASSUME NEW y \in KStates, SameMemory(f, y), SameQueue(f, y),
                y.pending = P, y.msgCount = k.msgCount,
                \/ y.ended = f.ended
                \/ h = "read" /\ y.ended = f.ended \cup {t},
                NEW on, Holds(y.sched, {}, Ready(y) \ on)
         PROVE  KInv(y, X, on) /\ Answerable(y, m, rc)
    <2>1. Answered(f, y, h, m.key, t)
      BY <1>13, <1>15
    <2>2. PageReady(f, m, rc)
      BY <1>6, <1>14 DEF PageReady
    <2>3. EndedBy(f, y, h, t)
      BY <1>15 DEF EndedBy
    <2>4. KInv(f, X, off)
      BY <1>6
    <2>5. t \in Waiters /\ SameMemory(f, y) /\ SameQueue(f, y)
      BY <1>3, <1>15
    <2>6. Holds(y.sched, {}, Ready(y) \ on)
      BY <1>15
    <2>7. KInv(y, X, on)
      BY <1>12, <2>1, <2>2, <2>3, <2>4, <2>5, <2>6, TellsOne
    <2>8. Answerable(y, m, rc)
      BY <1>12, <2>1, <2>2, <2>3, <2>4, <2>5, <2>6, TellsOne
    <2> QED BY <2>7, <2>8
  <1>16. ASSUME NEW y, y.pending = P, y.msgCount = k.msgCount,
                y.waiting = f.waiting
         PROVE  /\ t \notin Ready(f) /\ t # Daemon
                /\ /\ y.ended = f.ended
                   /\ t = NULL \/ (h = "write" /\ f.msgCount[t] # 1)
                   => Ready(y) = Ready(f)
                /\ y.ended = f.ended \cup {t} => Ready(y) = Ready(f)
                /\ /\ y.ended = f.ended /\ t # NULL
                   /\ h = "read" \/ f.msgCount[t] = 1
                   => Ready(y) = Ready(f) \cup {t}
    <2>1. PendsLess(f, y, h, m.key, t)
      BY <1>13, <1>16 DEF Answered
    <2> QED BY <1>2, <1>3, <1>10, <1>12, <1>16, <2>1, ReadyAnswered
  <1>17. /\ k.waiting = f.waiting /\ k.waiting = << >>
         /\ t # NULL => t \in Users /\ t \in Tasks
    BY <1>1, <1>3, <1>7, <1>9, BlockFacts DEF SameQueue, SameTasks, Waiters
  <1>18. h = "read" => t # NULL
    BY <1>2, <1>3, <1>1 DEF TasksFit
  <1>19. IF b.restored THEN K.sched.current[c] \in Users
                       ELSE K.sched.current[c] = Daemon
    BY DEF Told, K
  <1>20. Len(b.k.pending[m.handler]) = Len(K.pending[h])
    BY DEF K
  <1> HIDE DEF h, resume, now, a
  <1>21. CASE t = NULL \/ r.result = "CONTINUE_DEFER"
    <2>0. t = NULL \/ ~resume
      BY <1>21 DEF resume
    <2>1. a = [b EXCEPT !.k = k]
      BY <1>4, <1>21, <2>0, Zenon
    <2>2. a = [k |-> k, restored |-> b.restored]
      BY <1>1, <2>1
    <2>3. t = NULL \/ (h = "write" /\ f.msgCount[t] # 1)
      BY <1>5, <1>10, <1>21 DEF Outcome
    <2>4. Ready(k) = Ready(f)
      BY <1>9, <1>10, <1>16, <1>17, <2>3
    <2>5. Holds(k.sched, {}, Ready(k) \ off)
      BY <1>9, <1>10, <2>4
    <2>6. KInv(k, X, off) /\ Answerable(k, m, rc)
      BY <1>9, <1>10, <1>15, <2>5
    <2>7. a.k = k /\ a.restored = b.restored
      BY <2>2
    <2>8. a \in [k : KStates, restored : BOOLEAN]
      BY <1>1, <1>9, <2>2
    <2>9. Told(z, a, c, m, rc)
      BY <1>1, <1>9, <1>17, <1>19, <2>6, <2>7, <2>8 DEF Told, off
    <2> QED BY <1>3, <1>9, <1>20, <2>7, <2>9 DEF a, h
  <1>22. CASE t # NULL /\ r.result # "CONTINUE_DEFER" /\ resume /\ now
    <2> DEFINE S == setCurrentTask(k.sched, c, t)
               y == [k EXCEPT !.sched = S]
    <2>1. a = [k |-> y, restored |-> TRUE]
      BY <1>4, <1>22, Zenon
    <2>2. ~b.restored /\ off = {} /\ k.sched.current[c] = Daemon
      BY <1>9, <1>19, <1>22 DEF now, off
    <2>3. h = "read" \/ f.msgCount[t] = 1
      BY <1>2, <1>5, <1>10, <1>22 DEF Outcome, Handlers, h
    <2>4. Holds(k.sched, {}, Ready(f)) /\ k.sched \in SchedStates
      BY <1>9, <1>10, <2>2, KFields
    <2>5. Holds(k.sched, {c}, Ready(f) \ {Daemon})
      BY <2>2, <2>4, Vacated
    <2>6. t \notin Ready(f) /\ t # Daemon /\ t \in Tasks /\ t \in Users
      BY <1>9, <1>16, <1>17, <1>22
    <2>7. /\ Holds(S, {}, (Ready(f) \ {Daemon}) \cup {t})
          /\ S.current[c] = t /\ SameElsewhere(k.sched, S, c)
      <3>1. t \notin Ready(f) \ {Daemon}
        BY <2>6
      <3>2. Holds(S, {}, (Ready(f) \ {Daemon}) \cup {t})
        BY <2>5, <2>6, <3>1, SetCurrent
      <3>3. S.current[c] = t /\ SameElsewhere(k.sched, S, c)
        BY <2>4, Elsewhere
      <3> QED BY <3>2, <3>3
    <2> HIDE DEF S
    <2>8. /\ y \in KStates /\ SameMemory(f, y) /\ SameQueue(f, y)
          /\ y.sched = S /\ y.ended = k.ended /\ y.pending = P
          /\ y.msgCount = k.msgCount /\ y.waiting = k.waiting
      <3>1. S \in SchedStates
        BY <2>7 DEF Holds
      <3> QED BY <1>9, <3>1
              DEF KStates, SameMemory, SamePages, SameQueue
    <2> HIDE DEF y
    <2>9. Ready(y) = Ready(f) \cup {t}
      BY <1>9, <1>10, <1>16, <1>17, <1>22, <2>3, <2>8
    <2>10. Holds(y.sched, {}, Ready(y) \ {Daemon})
      <3>1. Ready(y) \ {Daemon} = (Ready(f) \ {Daemon}) \cup {t}
        BY <2>6, <2>9
      <3> QED BY <2>7, <2>8, <3>1
    <2>11. KInv(y, X, {Daemon}) /\ Answerable(y, m, rc)
      BY <1>9, <1>10, <1>15, <2>8, <2>10
    <2>12. /\ a.k = y /\ a.restored = TRUE
           /\ a \in [k : KStates, restored : BOOLEAN]
      BY <2>1, <2>8
    <2>13. SameElsewhere(z.sched, y.sched, c) /\ y.sched.current[c] \in Users
      BY <1>1, <1>9, <2>6, <2>7, <2>8 DEF SameElsewhere
    <2>14. Told(z, a, c, m, rc)
      BY <1>17, <2>8, <2>11, <2>12, <2>13 DEF Told
    <2> QED BY <1>3, <1>20, <2>8, <2>12, <2>14 DEF a, h
  <1>23. CASE t # NULL /\ r.result # "CONTINUE_DEFER" /\ resume /\ ~now
    <2> DEFINE S == addTask(k.sched, t)
               y == [k EXCEPT !.sched = S]
    <2>1. a = [b EXCEPT !.k = y]
      BY <1>4, <1>23, Zenon
    <2>3. h = "read" \/ f.msgCount[t] = 1
      BY <1>2, <1>5, <1>10, <1>23 DEF Outcome, Handlers, h, resume
    <2>4. Holds(k.sched, {}, Ready(f) \ off)
      BY <1>9, <1>10
    <2>6. t \notin Ready(f) /\ t # Daemon /\ t \in Tasks /\ t \in Users
      BY <1>9, <1>16, <1>17, <1>23
    <2>7. /\ Holds(S, {}, (Ready(f) \ off) \cup {t})
          /\ S.current = k.sched.current
      <3> DEFINE H == Ready(f) \ off
      <3>1. t \notin H /\ t \in Tasks
        BY <2>6
      <3>2. Holds(k.sched, {}, H) /\ k.sched \in SchedStates
        BY <2>4 DEF Holds
      <3> HIDE DEF H
      <3>3. Holds(S, {}, H \cup {t})
        BY <3>1, <3>2, AddTask
      <3>4. S.current = k.sched.current
        BY <3>2, Elsewhere
      <3> QED BY <3>3, <3>4 DEF H
    <2> HIDE DEF S
    <2>8. /\ y \in KStates /\ SameMemory(f, y) /\ SameQueue(f, y)
          /\ y.sched = S /\ y.ended = k.ended /\ y.pending = P
          /\ y.msgCount = k.msgCount /\ y.waiting = k.waiting
      <3>1. S \in SchedStates
        BY <2>7 DEF Holds
      <3> QED BY <1>9, <3>1
              DEF KStates, SameMemory, SamePages, SameQueue
    <2> HIDE DEF y
    <2>9. Ready(y) = Ready(f) \cup {t}
      BY <1>9, <1>10, <1>16, <1>17, <1>23, <2>3, <2>8
    <2>10. Holds(y.sched, {}, Ready(y) \ off)
      <3>1. Ready(y) \ off = (Ready(f) \ off) \cup {t}
        BY <2>6, <2>9 DEF off
      <3> QED BY <2>7, <2>8, <3>1
    <2>11. KInv(y, X, off) /\ Answerable(y, m, rc)
      BY <1>9, <1>10, <1>15, <2>8, <2>10
    <2>12. /\ a.k = y /\ a.restored = b.restored
           /\ a \in [k : KStates, restored : BOOLEAN]
      BY <1>1, <2>1, <2>8
    <2>14. Told(z, a, c, m, rc)
      BY <1>1, <1>9, <1>17, <1>19, <2>7, <2>8, <2>11, <2>12
         DEF Told, off, SameElsewhere
    <2> QED BY <1>3, <1>20, <2>8, <2>12, <2>14 DEF a, h
  <1>24. CASE t # NULL /\ r.result # "CONTINUE_DEFER" /\ ~resume
    <2> DEFINE E == k.ended \cup {t}
               y == [k EXCEPT !.ended = E]
    <2>1. a = [b EXCEPT !.k = y]
      BY <1>4, <1>24, Zenon
    <2>2. h = "read"
      BY <1>5, <1>24 DEF Outcome, resume
    <2>3. E \in SUBSET Users
      BY <1>9, <1>17, <1>24, KFields
    <2> HIDE DEF E
    <2>4. /\ y \in KStates /\ SameMemory(f, y) /\ SameQueue(f, y)
          /\ y.sched = k.sched /\ y.ended = E /\ y.pending = P
          /\ y.msgCount = k.msgCount /\ y.waiting = k.waiting
      BY <1>9, <2>3 DEF KStates, SameMemory, SamePages, SameQueue
    <2> HIDE DEF y
    <2>5. y.ended = f.ended \cup {t}
      BY <1>9, <1>10, <2>4 DEF E
    <2>6. Ready(y) = Ready(f)
      BY <1>16, <1>17, <2>4, <2>5
    <2>7. Holds(y.sched, {}, Ready(y) \ off)
      BY <1>9, <1>10, <2>4, <2>6
    <2>8. KInv(y, X, off) /\ Answerable(y, m, rc)
      BY <1>15, <2>2, <2>4, <2>5, <2>7
    <2>9. /\ a.k = y /\ a.restored = b.restored
          /\ a \in [k : KStates, restored : BOOLEAN]
      BY <1>1, <2>1, <2>4
    <2>10. Told(z, a, c, m, rc)
      BY <1>1, <1>9, <1>17, <1>19, <2>4, <2>8, <2>9 DEF Told, off
    <2> QED BY <1>3, <1>20, <2>4, <2>9, <2>10 DEF a, h
  <1> QED BY <1>21, <1>22, <1>23, <1>24

(* All tasks that waited for the message have been told.                   *)
LEMMA AllTold ==
    ASSUME NEW k, NEW off, NEW h \in Handlers, NEW va \in VAs,
           KInv(k, {<<h, va>>}, off), ~Sent(k, h, va),
           h = "write" => \A p \in Pages : ~Writing(k, va, p)
    PROVE  KInv(k, {}, off)
  <1>1. /\ k \in KStates /\ MemoryFits(k) /\ SentFits(k, {<<h, va>>})
        /\ TasksFit(k) /\ Holds(k.sched, {}, Ready(k) \ off)
    BY DEF KInv
  <1>2. /\ \A t \in Waiters : ~Pend(k, h, va, t)
        /\ ~OnItsWay(k, h, va)
    BY <1>1, SentIs DEF SentFits
  <1>3. ASSUME NEW g \in Handlers, NEW v \in VAs
        PROVE  (\E t \in Waiters : Pend(k, g, v, t)) <=> OnItsWay(k, g, v)
    <2>1. CASE g = h /\ v = va
      BY <1>2, <2>1
    <2>2. CASE ~(g = h /\ v = va)
      <3>1. <<g, v>> \notin {<<h, va>>}
        BY <2>2
      <3> QED BY <1>1, <3>1 DEF SentFits
    <2> QED BY <2>1, <2>2
  <1>4. ASSUME NEW v \in VAs, NEW p \in Pages, Writing(k, v, p)
        PROVE  OnItsWay(k, "write", v)
    <2>1. \/ OnItsWay(k, "write", v)
          \/ <<"write", v>> \in {<<h, va>>}
      BY <1>1, <1>4 DEF SentFits
    <2> QED BY <1>4, <2>1
  <1>5. SentFits(k, {})
    BY <1>3, <1>4 DEF SentFits
  <1> QED BY <1>1, <1>5 DEF KInv

(* recvMessage is answerNewest while there is a task that waits.           *)
Telling(b, c, m, rc, choice) ==
    IF Sent(b.k, m.handler, m.key) THEN answerNewest(b, c, m, rc, choice)
                                   ELSE b

TellingSteps(k, c, m, rc, choice, g, N) ==
    /\ g[0] = [k |-> k, restored |-> FALSE]
    /\ recvMessage(k, c, m, rc, choice) = g[N].k
    /\ \A i \in 1 .. N : g[i] = Telling(g[i - 1], c, m, rc, choice)

(* So it is.                                                               *)
LEMMA RecvSteps ==
    ASSUME NEW k \in KStates, NEW c, NEW m \in Messages, NEW rc, NEW choice
    PROVE  \E N \in Nat : \E g :
              /\ N = Len(k.pending[m.handler])
              /\ TellingSteps(k, c, m, rc, choice, g, N)
  <1> DEFINE N == Len(k.pending[m.handler])
             B == [k |-> k, restored |-> FALSE]
             told[i \in 0 .. N] ==
                 IF i = 0 THEN B
                 ELSE Telling(told[i - 1], c, m, rc, choice)
             Upto(g, j) == g = [i \in 0 .. j |->
                 IF i = 0 THEN B ELSE Telling(g[i - 1], c, m, rc, choice)]
             Bad == {j \in 0 .. N : ~\E g : Upto(g, j)}
  <1>1. recvMessage(k, c, m, rc, choice) = told[N].k
    BY Zenon DEF recvMessage, Telling, Sent
  <1>2. N \in Nat
    <2>1. k.pending \in [Handlers -> Seq(Awaitings)] /\ m.handler \in Handlers
      BY KFields, MessageFields
    <2>2. k.pending[m.handler] \in Seq(Awaitings)
      BY <2>1
    <2> QED BY <2>2, ListPlaces
  <1> HIDE DEF N, B
  <1>3. Bad = {}
    <2> SUFFICES ASSUME Bad # {} PROVE FALSE
      OBVIOUS
    <2>1. Bad \subseteq Nat
      BY <1>2
    <2>2. PICK j \in Bad : \A i \in Bad : j <= i
      <3> HIDE DEF Bad
      <3> QED BY <2>1, LeastNatural
    <2>3. j # 0
      <3> SUFFICES ASSUME j = 0 PROVE FALSE
        OBVIOUS
      <3> DEFINE h == [i \in 0 .. 0 |-> B]
      <3>1. Upto(h, 0)
        OBVIOUS
      <3> QED BY <3>1
    <2>4. PICK g : Upto(g, j - 1)
      <3>1. j - 1 \in 0 .. N /\ j - 1 \notin Bad
        <4>1. j \in Nat /\ j <= N /\ \A i \in Bad : i \in Nat
          BY <1>2, <2>1, <2>2
        <4> HIDE DEF Bad
        <4> QED BY <1>2, <2>2, <2>3, <4>1
      <3> HIDE DEF Upto
      <3> QED BY <3>1
    <2> DEFINE h == [i \in 0 .. j |->
                 IF i = 0 THEN B ELSE Telling(g[i - 1], c, m, rc, choice)]
    <2>5. ASSUME NEW i \in 0 .. j - 1 PROVE h[i] = g[i]
      <3>1. j \in Nat /\ i \in 0 .. j
        BY <2>1, <2>2
      <3>2. h[i] = IF i = 0 THEN B ELSE Telling(g[i - 1], c, m, rc, choice)
        BY <3>1
      <3> QED BY <2>4, <3>2
    <2>6. Upto(h, j)
      <3>1. \A i \in 1 .. j : i - 1 \in 0 .. j - 1
        BY <2>1, <2>2
      <3>2. ASSUME NEW i \in 0 .. j
            PROVE  h[i] = IF i = 0 THEN B
                          ELSE Telling(h[i - 1], c, m, rc, choice)
        <4>1. CASE i = 0
          BY <4>1
        <4>2. CASE i # 0
          <5>1. i \in 1 .. j
            BY <2>1, <2>2, <4>2
          <5>2. h[i - 1] = g[i - 1]
            BY <2>5, <3>1, <5>1
          <5> QED BY <4>2, <5>2
        <4> QED BY <4>1, <4>2
      <3>3. h = [i \in 0 .. j |-> h[i]]
        OBVIOUS
      <3> HIDE DEF h
      <3> QED BY <3>2, <3>3
    <2> QED BY <2>6
  <1>4. PICK g : Upto(g, N)
    <2>1. N \in 0 .. N
      BY <1>2
    <2>2. N \notin Bad
      BY <1>3
    <2> HIDE DEF Upto
    <2> QED BY <2>1, <2>2
  <1>5. Upto(told, N)
    BY <1>4
  <1> HIDE DEF told
  <1>6. /\ told[0] = B
        /\ \A i \in 1 .. N :
              told[i] = Telling(told[i - 1], c, m, rc, choice)
    BY <1>2, <1>5
  <1>7. TellingSteps(k, c, m, rc, choice, told, N)
    BY <1>1, <1>6, Zenon DEF TellingSteps, B
  <1> QED BY <1>2, <1>7 DEF N

(* recvMessage: everybody is told.                                         *)
LEMMA RecvMessage ==
    ASSUME BlockHandlers, NEW z, NEW c \in Cpus, NEW m \in Messages, NEW rc,
           NEW choice \in VAs, KInv(z, {<<m.handler, m.key>>}, {}),
           z.sched.current[c] = Daemon, z.waiting = << >>,
           Answerable(z, m, rc)
    PROVE  LET r == recvMessage(z, c, m, rc, choice) IN
           /\ SameElsewhere(z.sched, r.sched, c) /\ r.waiting = << >>
           /\ \/ r.sched.current[c] = Daemon /\ KInv(r, {}, {})
              \/ r.sched.current[c] \in Users /\ KInv(r, {}, {Daemon})
  <1> DEFINE h == m.handler
             Left(b) == Len(b.k.pending[h])
             Waits(b) == Sent(b.k, h, m.key)
             r == recvMessage(z, c, m, rc, choice)
  <1>0. z \in KStates /\ h \in Handlers /\ m.key \in VAs
    BY MessageFields DEF KInv
  <1>1. PICK N \in Nat : \E g : /\ N = Len(z.pending[h])
                               /\ TellingSteps(z, c, m, rc, choice, g, N)
    BY <1>0, RecvSteps
  <1>a. PICK g : N = Len(z.pending[h]) /\ TellingSteps(z, c, m, rc, choice, g, N)
    BY <1>1
  <1> HIDE DEF r
  <1>2. /\ g[0] = [k |-> z, restored |-> FALSE] /\ r = g[N].k
        /\ \A i \in 1 .. N : g[i] = Telling(g[i - 1], c, m, rc, choice)
    BY <1>a DEF TellingSteps, r
  <1> DEFINE Good(j) == /\ Told(z, g[j], c, m, rc)
                        /\ Waits(g[j]) => Left(g[j]) <= N - j
             Bad == {j \in 0 .. N : ~Good(j)}
  <1>3. ASSUME NEW b, Told(z, b, c, m, rc) PROVE Left(b) \in Nat
    <2>1. b.k \in KStates
      BY <1>3 DEF Told, KInv
    <2>2. b.k.pending[h] \in Seq(Awaitings)
      BY <1>0, <2>1, KFields
    <2> QED BY <2>2, ListPlaces
  <1>4. Good(0)
    <2>1. g[0].k = z /\ g[0].restored = FALSE
      BY <1>2
    <2>2. g[0] \in [k : KStates, restored : BOOLEAN]
      BY <1>0, <1>2
    <2>3. Told(z, g[0], c, m, rc)
      BY <2>1, <2>2 DEF Told, SameElsewhere
    <2>4. Left(g[0]) = N
      BY <1>a, <2>1
    <2> QED BY <1>1, <2>3, <2>4
  <1>5. ASSUME NEW j \in 1 .. N, Good(j - 1) PROVE Good(j)
    <2> DEFINE b == g[j - 1]
    <2>0. Told(z, b, c, m, rc)
      BY <1>5
    <2>1. CASE ~Waits(b)
      <3>1. g[j] = b
        BY <1>2, <2>1 DEF Telling
      <3> QED BY <2>0, <2>1, <3>1
    <2>2. CASE Waits(b)
      <3>1. g[j] = answerNewest(b, c, m, rc, choice)
        BY <1>2, <2>2 DEF Telling
      <3>2. Left(b) <= N - (j - 1)
        BY <1>5, <2>2
      <3> HIDE DEF b
      <3>3. Told(z, g[j], c, m, rc) /\ Left(g[j]) = Left(b) - 1
        BY <2>0, <2>2, <3>1, AnswerNewest
      <3>4. Left(b) \in Nat
        BY <1>3, <2>0
      <3> HIDE DEF Left
      <3>5. Left(g[j]) <= N - j
        BY <1>1, <3>2, <3>3, <3>4
      <3> QED BY <3>3, <3>5
    <2> QED BY <2>1, <2>2
  <1> HIDE DEF Good
  <1>6. Bad = {}
    <2> SUFFICES ASSUME Bad # {} PROVE FALSE
      OBVIOUS
    <2>1. Bad \subseteq Nat
      BY <1>1
    <2>2. PICK j \in Bad : \A i \in Bad : j <= i
      <3> HIDE DEF Bad
      <3> QED BY <2>1, LeastNatural
    <2>3. j # 0
      BY <1>4
    <2>4. j \in 1 .. N /\ j - 1 \in 0 .. N /\ j - 1 \notin Bad
      BY <1>1, <2>2, <2>3
    <2>5. Good(j - 1)
      BY <2>4
    <2> QED BY <1>5, <2>2, <2>4, <2>5
  <1>7. Good(N)
    BY <1>1, <1>6
  <1> DEFINE b == g[N]
  <1>8. Told(z, b, c, m, rc) /\ (Waits(b) => Left(b) <= 0)
    BY <1>1, <1>7 DEF Good
  <1>9. r = b.k
    BY <1>2
  <1> HIDE DEF b
  <1>10. /\ b.k \in KStates /\ b.restored \in BOOLEAN
         /\ KInv(b.k, {<<h, m.key>>}, IF b.restored THEN {Daemon} ELSE {})
         /\ SameElsewhere(z.sched, b.k.sched, c) /\ b.k.waiting = << >>
         /\ IF b.restored THEN b.k.sched.current[c] \in Users
                          ELSE b.k.sched.current[c] = Daemon
         /\ Answerable(b.k, m, rc)
    BY <1>8 DEF Told
  <1>11. ~Waits(b)
    <2> SUFFICES ASSUME Waits(b) PROVE FALSE
      OBVIOUS
    <2>1. b.k.pending[h] \in Seq(Awaitings)
      BY <1>0, <1>10, KFields
    <2>2. DOMAIN b.k.pending[h] = 1 .. Left(b) /\ Left(b) \in Nat
      BY <2>1, ListPlaces
    <2>3. \E i : i \in DOMAIN b.k.pending[h]
      BY DEF Sent, ForKey
    <2> HIDE DEF Left
    <2> QED BY <1>8, <2>2, <2>3
  <1>12. h = "write" => \A p \in Pages : ~Writing(b.k, m.key, p)
    BY <1>10, <1>11 DEF Answerable
  <1>13. KInv(b.k, {}, IF b.restored THEN {Daemon} ELSE {})
    BY <1>0, <1>10, <1>11, <1>12, AllTold
  <1>14. /\ SameElsewhere(z.sched, r.sched, c) /\ r.waiting = << >>
         /\ \/ r.sched.current[c] = Daemon /\ KInv(r, {}, {})
            \/ r.sched.current[c] \in Users /\ KInv(r, {}, {Daemon})
    BY <1>9, <1>10, <1>13
  <1> QED BY <1>14 DEF r

-----------------------------------------------------------------------------
(* The daemon's system calls.                                              *)

(* The scheduler has its tasks in other places.                            *)
LEMMA SchedStep ==
    ASSUME NEW k, NEW X, NEW off, KInv(k, X, off), NEW S, NEW on,
           Holds(S, {}, Ready(k) \ on)
    PROVE  LET r == [k EXCEPT !.sched = S] IN
           KInv(r, X, on) /\ r.sched = S
  <1> DEFINE r == [k EXCEPT !.sched = S]
  <1>1. /\ k \in KStates /\ MemoryFits(k) /\ SentFits(k, X) /\ TasksFit(k)
        /\ S \in SchedStates
    BY DEF KInv, Holds
  <1>2. /\ r \in KStates /\ r.sched = S /\ SameMemory(k, r)
        /\ SameQueue(k, r) /\ SameLists(k, r)
        /\ r.ended = k.ended /\ r.msgCount = k.msgCount
    BY <1>1 DEF KStates, SameMemory, SamePages, SameQueue, SameLists
  <1> HIDE DEF r
  <1>3. MemoryFits(r) /\ SentFits(r, X)
    BY <1>1, <1>2, MemorySame, SameParts
  <1>4. \A h, v, t : Pend(r, h, v, t) <=> Pend(k, h, v, t)
    BY <1>2, SameThings DEF SameLists
  <1>5. TasksFit(r)
    <2>1. \A t : AwaitedBy(r, t) = AwaitedBy(k, t)
      BY <1>4 DEF AwaitedBy
    <2>2. \A h \in Handlers : NoneTwice(r.pending[h])
      BY <1>1, <1>2 DEF TasksFit, SameLists
    <2>3. \A t \in Tasks : r.msgCount[t] = Cardinality(AwaitedBy(r, t))
      BY <1>1, <1>2, <2>1 DEF TasksFit
    <2> QED BY <1>1, <1>2, <1>4, <2>2, <2>3 DEF TasksFit
  <1>6. Ready(r) = Ready(k)
    BY <1>2, <1>4 DEF Ready, SameQueue
  <1>7. Holds(r.sched, {}, Ready(r) \ on)
    BY <1>2, <1>6
  <1>8. KInv(r, X, on)
    BY <1>2, <1>3, <1>5, <1>7 DEF KInv
  <1> QED BY <1>2, <1>8 DEF r

(* msg_respond                                                             *)
LEMMA Responded ==
    ASSUME BlockHandlers, NEW k, KInv(k, {}, {}), NEW c \in Cpus,
           k.sched.current[c] = Daemon, NEW m \in Messages,
           k.serving[Daemon] = m, NEW rc, NEW choice \in VAs,
           rc = 0 => m.done, rc # 0 => m.handler = "read"
    PROVE  LET r == MsgRespond(k, c, rc, choice) IN
           KInv(r, {}, {}) /\ SameElsewhere(k.sched, r.sched, c)
  <1> DEFINE z == [k EXCEPT !.serving[Daemon] = NULL]
             y == recvMessage(z, c, m, rc, choice)
             r == MsgRespond(k, c, rc, choice)
  <1>0. "read" # "write"
    OBVIOUS
  <1>1. /\ KInv(z, {<<m.handler, m.key>>}, {})
        /\ z.waiting = << >> /\ z.sched = k.sched
        /\ m.handler = "read" /\ m.done => Filled(z, m.key)
        /\ m.handler = "write" =>
              /\ \E p \in Pages : Writing(z, m.key, p)
              /\ Sent(z, "write", m.key)
    BY <1>0, Unserved DEF Filled
  <1>2. r = IF y.sched.current[c] = Daemon THEN y
            ELSE [y EXCEPT !.sched = addTask(y.sched, Daemon)]
    BY Zenon DEF MsgRespond
  <1> HIDE DEF z, r
  <1>3. Answerable(z, m, rc)
    BY <1>0, <1>1 DEF Answerable
  <1>4. z.sched.current[c] = Daemon
    BY <1>1
  <1>5. /\ SameElsewhere(z.sched, y.sched, c) /\ y.waiting = << >>
        /\ \/ y.sched.current[c] = Daemon /\ KInv(y, {}, {})
           \/ y.sched.current[c] \in Users /\ KInv(y, {}, {Daemon})
    BY <1>1, <1>3, <1>4, RecvMessage
  <1> HIDE DEF y
  <1>6. CASE y.sched.current[c] = Daemon /\ KInv(y, {}, {})
    BY <1>1, <1>2, <1>5, <1>6 DEF r
  <1>7. CASE y.sched.current[c] \in Users /\ KInv(y, {}, {Daemon})
    <2> DEFINE S == addTask(y.sched, Daemon)
    <2>1. y.sched.current[c] # Daemon /\ Daemon \in Tasks
      BY <1>7, BlockFacts
    <2>2. r = [y EXCEPT !.sched = S]
      BY <1>2, <2>1, Zenon
    <2>3. y \in KStates /\ Holds(y.sched, {}, Ready(y) \ {Daemon})
      BY <1>7 DEF KInv
    <2>4. Daemon \notin Ready(y) \ {Daemon}
      OBVIOUS
    <2>5. /\ Holds(S, {}, (Ready(y) \ {Daemon}) \cup {Daemon})
          /\ S.current = y.sched.current
      <3> DEFINE K == Ready(y) \ {Daemon}
      <3>1. Holds(y.sched, {}, K) /\ Daemon \notin K
        BY <2>3, <2>4
      <3> HIDE DEF K
      <3>2. Holds(S, {}, K \cup {Daemon})
        BY <2>1, <3>1, AddTask
      <3>3. y.sched \in SchedStates
        BY <3>1 DEF Holds
      <3>4. S.current = y.sched.current
        BY <3>3, Elsewhere
      <3> QED BY <3>2, <3>4 DEF K
    <2> HIDE DEF S
    <2>6. Daemon \in Ready(y)
      <3>1. y.ended \in SUBSET Users /\ Daemon \notin Users /\ Daemon # NULL
        BY <2>3, KFields, BlockFacts
      <3>2. ~OnList(y.waiting, Daemon)
        BY <1>5, ListEmpty
      <3>3. \A h \in Handlers : \A v \in VAs : ~Pend(y, h, v, Daemon)
        BY <2>3, <3>1, OnLists DEF Waiters
      <3> QED BY <2>1, <3>1, <3>2, <3>3 DEF Ready
    <2>7. Holds(S, {}, Ready(y) \ {})
      <3>1. (Ready(y) \ {Daemon}) \cup {Daemon} = Ready(y) \ {}
        BY <2>6
      <3> QED BY <2>5, <3>1
    <2>8. KInv(r, {}, {}) /\ r.sched = S
      BY <1>7, <2>2, <2>7, SchedStep
    <2>9. SameElsewhere(k.sched, r.sched, c)
      BY <1>1, <1>5, <2>5, <2>8 DEF SameElsewhere
    <2> QED BY <2>8, <2>9 DEF r
  <1> QED BY <1>5, <1>6, <1>7

(* msg_wait                                                                *)
LEMMA Waited ==
    ASSUME BlockHandlers, NEW k, KInv(k, {}, {}), NEW c \in Cpus,
           k.sched.current[c] = Daemon, k.serving[Daemon] = NULL
    PROVE  LET r == MsgWait(k, c) IN
           KInv(r, {}, {}) /\ SameElsewhere(k.sched, r.sched, c)
  <1> DEFINE r == MsgWait(k, c)
  <1>1. /\ k \in KStates /\ MemoryFits(k) /\ SentFits(k, {}) /\ TasksFit(k)
        /\ Holds(k.sched, {}, Ready(k)) /\ k.sched \in SchedStates
        /\ QueueFits(k) /\ FlightsOnce(k)
    BY DEF KInv, Holds, MemoryFits
  <1>2. /\ Daemon \in Tasks /\ Daemons = {Daemon} /\ Daemon \in Daemons
        /\ k.messages \in Seq(Messages) /\ k.waiting \in Seq(Daemons)
        /\ k.serving \in [Daemons -> Messages \cup {NULL}]
        /\ NULL \notin Messages
    BY <1>1, KFields, BlockFacts
  <1>3. Daemon \in Ready(k)
    BY <1>1, <1>2, Vacated
  <1>4. k.waiting = << >>
    <2>1. ~OnList(k.waiting, Daemon)
      BY <1>3 DEF Ready
    <2>2. OnList(<<Daemon>>, Daemon)
      BY <1>2, ListOne
    <2> QED BY <1>1, <2>1, <2>2 DEF QueueFits
  <1>5. CASE k.messages = << >>
    <2> DEFINE S == setNextRunnable(k.sched, c)
               W == Append(k.waiting, Daemon)
    <2>1. r = [k EXCEPT !.waiting = W, !.sched = S]
      BY <1>5, Zenon DEF MsgWait
    <2>2. W = <<Daemon>> /\ W \in Seq(Daemons) /\ W # << >>
      BY <1>2, <1>4
    <2>3. Holds(k.sched, {c}, Ready(k) \ {Daemon})
      BY <1>1, Vacated
    <2>4. /\ Holds(S, {}, Ready(k) \ {Daemon}) /\ S \in SchedStates
          /\ SameElsewhere(k.sched, S, c)
      <3>1. Holds(S, {}, Ready(k) \ {Daemon})
        BY <2>3, NextRunnable
      <3> QED BY <1>1, <3>1, Elsewhere DEF Holds
    <2> HIDE DEF S, W, r
    <2>5. /\ r \in KStates /\ SameMemory(k, r) /\ r.messages = k.messages
          /\ r.serving = k.serving /\ r.waiting = W /\ r.sched = S
          /\ SameLists(k, r) /\ r.ended = k.ended /\ r.msgCount = k.msgCount
      BY <1>1, <2>1, <2>2, <2>4
         DEF KStates, SameMemory, SamePages, SameLists
    <2>6. QueueFits(r) /\ FlightsOnce(r)
      BY <1>1, <1>5, <2>2, <2>5 DEF QueueFits, FlightsOnce
    <2>7. /\ \A x : Flies(r, x) <=> Flies(k, x)
          /\ \A h, v, t : Pend(r, h, v, t) <=> Pend(k, h, v, t)
          /\ \A v, p : Writing(r, v, p) <=> Writing(k, v, p)
      BY <2>5, SameThings DEF Flies, SameLists
    <2>8. /\ \A v, p : Unwritten(r, v, p) <=> Unwritten(k, v, p)
          /\ \A h, v : OnItsWay(r, h, v) <=> OnItsWay(k, h, v)
      BY <2>7 DEF Unwritten, OnItsWay
    <2>9. /\ PagesFit(k) /\ TableFits(k) /\ FlightsFit(k) /\ ContentsFit(k)
      BY <1>1 DEF MemoryFits
    <2>10. PagesFit(r) /\ TableFits(r)
      <3>1. PagesFit(r)
        BY <2>5, <2>7, <2>9 DEF PagesFit, ShadowApart, WritesApart,
                                NoPageLost, SameMemory, SamePages
      <3>2. TableFits(r)
        BY <2>5, <2>9 DEF TableFits, SameMemory
      <3> QED BY <3>1, <3>2
    <2>11. FlightsFit(r)
      BY <2>5, <2>7, <2>9 DEF FlightsFit, SameMemory
    <2>12. ContentsFit(r)
      BY <2>5, <2>7, <2>8, <2>9 DEF ContentsFit, SameMemory
    <2>13. SentFits(r, {})
      BY <1>1, <2>7, <2>8 DEF SentFits
    <2>14. TasksFit(r)
      <3>1. \A t : AwaitedBy(r, t) = AwaitedBy(k, t)
        BY <2>7 DEF AwaitedBy
      <3>2. \A h \in Handlers : NoneTwice(r.pending[h])
        BY <1>1, <2>5 DEF TasksFit, SameLists
      <3>3. \A t \in Tasks : r.msgCount[t] = Cardinality(AwaitedBy(r, t))
        BY <1>1, <2>5, <3>1 DEF TasksFit
      <3> QED BY <1>1, <2>5, <2>7, <3>2, <3>3 DEF TasksFit
    <2>15. Ready(r) = Ready(k) \ {Daemon}
      <3>1. /\ \A u : OnList(r.waiting, u) <=> u = Daemon
            /\ \A u : ~OnList(k.waiting, u)
        BY <1>2, <1>4, <2>2, <2>5, ListOne, ListEmpty
      <3> QED BY <2>5, <2>7, <3>1 DEF Ready
    <2>16. Holds(r.sched, {}, Ready(r) \ {})
      BY <2>4, <2>5, <2>15
    <2>17. MemoryFits(r)
      BY <2>6, <2>10, <2>11, <2>12 DEF MemoryFits
    <2>18. KInv(r, {}, {})
      BY <2>5, <2>13, <2>14, <2>16, <2>17 DEF KInv
    <2> QED BY <2>4, <2>5, <2>18 DEF r
  <1>6. CASE k.messages # << >>
    <2> DEFINE m == Head(k.messages)
               Q == Tail(k.messages)
               V == [k.serving EXCEPT ![Daemon] = m]
    <2>1. r = [k EXCEPT !.messages = Q, !.serving = V]
      BY <1>6 DEF MsgWait
    <2>2. /\ m \in Messages /\ Q \in Seq(Messages) /\ m = k.messages[1]
          /\ Len(k.messages) \in Nat \ {0}
          /\ DOMAIN k.messages = 1 .. Len(k.messages)
          /\ DOMAIN Q = 1 .. Len(k.messages) - 1
          /\ \A i \in DOMAIN Q : Q[i] = k.messages[i + 1]
      BY <1>2, <1>6
    <2>3. V \in [Daemons -> Messages \cup {NULL}] /\ V[Daemon] = m
      BY <1>2, <2>2
    <2> HIDE DEF m, Q, V, r
    <2>4. /\ r \in KStates /\ SameMemory(k, r) /\ r.messages = Q
          /\ r.serving = V /\ SameTasks(k, r) /\ SameLists(k, r)
      BY <1>1, <2>1, <2>2, <2>3
         DEF KStates, SameMemory, SamePages, SameLists, SameTasks
    <2>5. \A i \in DOMAIN Q : i + 1 \in DOMAIN k.messages /\ i + 1 # 1
      BY <2>2
    <2>6. 1 \in DOMAIN k.messages
      BY <2>2
    <2>7. /\ \A x \in Messages : Flies(r, x) <=> Flies(k, x)
          /\ \A h, v, t : Pend(r, h, v, t) <=> Pend(k, h, v, t)
          /\ \A v, p : Writing(r, v, p) <=> Writing(k, v, p)
      <3>1. \A x \in Messages : Flies(r, x) <=> OnList(k.messages, x)
        <4>1. ASSUME NEW x, OnList(Q, x) \/ x = m
              PROVE  OnList(k.messages, x)
          BY <2>2, <2>5, <2>6, <4>1 DEF OnList
        <4>2. ASSUME NEW i \in DOMAIN k.messages
              PROVE  k.messages[i] = m \/ OnList(Q, k.messages[i])
          <5>1. CASE i = 1
            BY <2>2, <5>1
          <5>2. CASE i # 1
            <6>1. i - 1 \in DOMAIN Q /\ (i - 1) + 1 = i
              BY <2>2, <5>2
            <6>2. Q[i - 1] = k.messages[i]
              BY <2>2, <6>1
            <6> QED BY <6>1, <6>2 DEF OnList
          <5> QED BY <5>1, <5>2
        <4> QED BY <2>3, <2>4, <4>1, <4>2 DEF Flies, OnList
      <3>2. \A x \in Messages : Flies(k, x) <=> OnList(k.messages, x)
        BY <1>2 DEF Flies
      <3> QED BY <2>4, <3>1, <3>2, SameThings DEF SameLists
    <2>8. /\ \A v, p : Unwritten(r, v, p) <=> Unwritten(k, v, p)
          /\ \A h, v : OnItsWay(r, h, v) <=> OnItsWay(k, h, v)
      BY <2>7 DEF Unwritten, OnItsWay
    <2>9. /\ PagesFit(k) /\ TableFits(k) /\ FlightsFit(k) /\ ContentsFit(k)
      BY <1>1 DEF MemoryFits
    <2>10. PagesFit(r) /\ TableFits(r)
      <3>1. PagesFit(r)
        BY <2>4, <2>7, <2>9 DEF PagesFit, ShadowApart, WritesApart,
                                NoPageLost, SameMemory, SamePages
      <3>2. TableFits(r)
        BY <2>4, <2>9 DEF TableFits, SameMemory
      <3> QED BY <3>1, <3>2
    <2>11. FlightsFit(r)
      BY <2>4, <2>7, <2>9 DEF FlightsFit, SameMemory
    <2>12. ContentsFit(r)
      BY <2>4, <2>7, <2>8, <2>9 DEF ContentsFit, SameMemory
    <2>13. SentFits(r, {})
      BY <1>1, <2>7, <2>8 DEF SentFits
    <2>14. TasksFit(r) /\ Ready(r) = Ready(k)
      BY <1>1, <2>4, SameParts
    <2>15. QueueFits(r)
      <3>1. ASSUME NEW i \in DOMAIN Q
            PROVE  /\ ~Q[i].done
                   /\ Q[i].handler = "write" =>
                         /\ \A j \in DOMAIN Q : j < i => Q[j].key # Q[i].key
                         /\ m.key # Q[i].key
        <4>1. /\ ~k.messages[i + 1].done
              /\ k.messages[i + 1].handler = "write" =>
                    \A j \in DOMAIN k.messages :
                       j < i + 1 => k.messages[j].key # k.messages[i + 1].key
          BY <1>1, <2>5 DEF QueueFits
        <4>2. ASSUME Q[i].handler = "write", NEW j \in DOMAIN Q, j < i
              PROVE  Q[j].key # Q[i].key
          <5>1. j + 1 < i + 1
            BY <2>2, <4>2
          <5> QED BY <2>2, <2>5, <4>1, <4>2, <5>1
        <4>3. ASSUME Q[i].handler = "write" PROVE m.key # Q[i].key
          <5>1. 1 < i + 1
            BY <2>2
          <5> QED BY <2>2, <2>6, <4>1, <4>3, <5>1
        <4> QED BY <2>2, <4>1, <4>2, <4>3
      <3>2. r.waiting = << >>
        BY <1>4, <2>4 DEF SameTasks
      <3> QED BY <2>3, <2>4, <3>1, <3>2 DEF QueueFits
    <2>16. FlightsOnce(r)
      <3>1. \A i, j \in DOMAIN Q :
               i + 1 \in DOMAIN k.messages /\ (i + 1 = j + 1 => i = j)
        BY <2>2
      <3>2. ASSUME NEW i \in DOMAIN Q, NEW j \in DOMAIN Q,
                   Q[i].handler = Q[j].handler, Q[i].key = Q[j].key
            PROVE  i = j
        <4>1. Q[i] = k.messages[i + 1] /\ Q[j] = k.messages[j + 1]
          BY <2>2
        <4>2. i + 1 = j + 1
          BY <1>1, <3>1, <3>2, <4>1 DEF FlightsOnce
        <4> QED BY <3>1, <4>2
      <3>3. \A i \in DOMAIN Q :
               ~(Q[i].handler = m.handler /\ Q[i].key = m.key)
        BY <1>1, <2>2, <2>5, <2>6 DEF FlightsOnce
      <3> QED BY <2>3, <2>4, <3>2, <3>3 DEF FlightsOnce
    <2>17. MemoryFits(r)
      BY <2>10, <2>11, <2>12, <2>15, <2>16 DEF MemoryFits
    <2>18. Holds(r.sched, {}, Ready(r) \ {}) /\ r.sched = k.sched
      BY <1>1, <2>4, <2>14 DEF SameTasks
    <2>19. KInv(r, {}, {})
      BY <2>4, <2>13, <2>14, <2>17, <2>18 DEF KInv
    <2> QED BY <2>18, <2>19 DEF r, SameElsewhere
  <1> QED BY <1>5, <1>6

(* The page is where the daemon has moved it.                              *)
LEMMA MarkedDone ==
    ASSUME BlockHandlers, NEW k, KInv(k, {}, {}), NEW m \in Messages,
           k.serving[Daemon] = m,
           m.handler = "read" => m.data \in k.latest[m.key],
           m.handler = "write" => Device \in k.latest[m.key]
    PROVE  LET r == [k EXCEPT !.serving =
                        [k.serving EXCEPT ![Daemon] = [m EXCEPT !.done = TRUE]]]
           IN  KInv(r, {}, {}) /\ r.sched = k.sched
  <1> DEFINE d == [m EXCEPT !.done = TRUE]
             V == [k.serving EXCEPT ![Daemon] = d]
             r == [k EXCEPT !.serving = V]
  <1>1. /\ k \in KStates /\ MemoryFits(k) /\ SentFits(k, {}) /\ TasksFit(k)
        /\ Holds(k.sched, {}, Ready(k))
    BY DEF KInv
  <1>2. /\ PagesFit(k) /\ TableFits(k) /\ QueueFits(k) /\ FlightsOnce(k)
        /\ FlightsFit(k) /\ ContentsFit(k)
    BY <1>1 DEF MemoryFits
  <1>3. /\ Daemon \in Daemons /\ NULL \notin Messages
        /\ k.serving \in [Daemons -> Messages \cup {NULL}]
        /\ m.handler \in Handlers /\ m.key \in VAs
    BY <1>1, KFields, BlockFacts, MessageFields
  <1>4. /\ d \in Messages /\ d.handler = m.handler /\ d.key = m.key
        /\ d.data = m.data /\ d.done = TRUE
    BY DEF Messages
  <1> HIDE DEF d
  <1>5. V \in [Daemons -> Messages \cup {NULL}] /\ V[Daemon] = d
    BY <1>3, <1>4
  <1> HIDE DEF V
  <1>6. /\ r \in KStates /\ SameMemory(k, r) /\ r.messages = k.messages
        /\ r.serving = V /\ SameTasks(k, r) /\ SameLists(k, r)
    BY <1>1, <1>5 DEF KStates, SameMemory, SamePages, SameTasks, SameLists
  <1> HIDE DEF r
  <1>7. m # NULL /\ d # NULL
    BY <1>3, <1>4
  <1>8. QueueFits(r)
    BY <1>2, <1>4, <1>5, <1>6, <1>7 DEF QueueFits, SameTasks
  <1>9. FlightsOnce(r)
    BY <1>2, <1>4, <1>5, <1>6, <1>7 DEF FlightsOnce
  <1>10. /\ \A x \in Messages : Flies(r, x) <=> (OnList(k.messages, x) \/ x = d)
         /\ \A x \in Messages : Flies(k, x) <=> (OnList(k.messages, x) \/ x = m)
    BY <1>5, <1>6 DEF Flies
  <1>11. /\ \A h, v, t : Pend(r, h, v, t) <=> Pend(k, h, v, t)
         /\ \A v, p : Writing(r, v, p) <=> Writing(k, v, p)
    BY <1>6, SameThings DEF SameLists
  <1>12. \A h, v : OnItsWay(r, h, v) <=> OnItsWay(k, h, v)
    BY <1>4, <1>10 DEF OnItsWay
  <1>13. /\ \A v, p : Unwritten(r, v, p) => Unwritten(k, v, p)
         /\ \A v, p : Unwritten(k, v, p) =>
               Unwritten(r, v, p) \/ (m.handler = "write" /\ v = m.key)
    BY <1>4, <1>10 DEF Unwritten
  <1>14. PagesFit(r)
    BY <1>2, <1>6, <1>11 DEF PagesFit, ShadowApart, WritesApart, NoPageLost,
                             SameMemory, SamePages
  <1>15. TableFits(r)
    BY <1>2, <1>6 DEF TableFits, SameMemory
  <1>16. FlightsFit(r)
    BY <1>2, <1>4, <1>6, <1>10, <1>11 DEF FlightsFit, SameMemory
  <1>17. ContentsFit(r)
    <2>1. \A v \in VAs : r.spte[v].present =>
             r.spte[v].page # NULL /\ r.spte[v].page \in r.latest[v]
      BY <1>2, <1>6 DEF ContentsFit, SameMemory
    <2>2. ASSUME NEW v \in VAs
          PROVE  \/ Device \in r.latest[v]
                 \/ r.spte[v].present /\ r.spte[v].dirty
                 \/ \E p \in Pages : Unwritten(r, v, p)
      <3>1. \/ Device \in k.latest[v]
            \/ k.spte[v].present /\ k.spte[v].dirty
            \/ \E p \in Pages : Unwritten(k, v, p)
        BY <1>2 DEF ContentsFit
      <3>2. r.latest = k.latest /\ r.spte = k.spte
        BY <1>6 DEF SameMemory
      <3> QED BY <1>13, <3>1, <3>2
    <2>3. \A v \in VAs : \A p \in Pages :
             Unwritten(r, v, p) => p \in r.latest[v]
      BY <1>2, <1>6, <1>13 DEF ContentsFit, SameMemory
    <2>4. \A x \in Messages : Flies(r, x) /\ x.handler = "read" /\ x.done =>
             x.data \in r.latest[x.key]
      BY <1>2, <1>4, <1>6, <1>10 DEF ContentsFit, SameMemory
    <2> QED BY <2>1, <2>2, <2>3, <2>4 DEF ContentsFit
  <1>18. MemoryFits(r)
    BY <1>8, <1>9, <1>14, <1>15, <1>16, <1>17 DEF MemoryFits
  <1>19. SentFits(r, {})
    BY <1>1, <1>11, <1>12 DEF SentFits
  <1>20. TasksFit(r) /\ Ready(r) = Ready(k) /\ r.sched = k.sched
    BY <1>1, <1>6, SameParts DEF SameTasks
  <1>21. Holds(r.sched, {}, Ready(r) \ {})
    BY <1>1, <1>20
  <1>22. KInv(r, {}, {})
    BY <1>6, <1>18, <1>19, <1>20, <1>21 DEF KInv
  <1> QED BY <1>20, <1>22 DEF r, V, d

(* What the daemon moves.                                                  *)
MovedContents(k, m) ==
    IF m.handler = "read" THEN Copied(k.latest, m.key, Device, m.data)
                          ELSE Copied(k.latest, m.key, m.data, Device)

(* The daemon moves a page.                                                *)
LEMMA Moved ==
    ASSUME BlockHandlers, NEW k, KInv(k, {}, {}), NEW m \in Messages,
           k.serving[Daemon] = m, ~m.done
    PROVE  LET r == [k EXCEPT !.latest = MovedContents(k, m), !.serving =
                        [k.serving EXCEPT ![Daemon] = [m EXCEPT !.done = TRUE]]]
           IN  KInv(r, {}, {}) /\ r.sched = k.sched
  <1> DEFINE L == MovedContents(k, m)
             V == [k.serving EXCEPT ![Daemon] = [m EXCEPT !.done = TRUE]]
             f == [k EXCEPT !.latest = L]
             g == [f EXCEPT !.serving =
                      [f.serving EXCEPT ![Daemon] = [m EXCEPT !.done = TRUE]]]
             r == [k EXCEPT !.latest = L, !.serving = V]
             h == m.handler
             va == m.key
             p == m.data
  <1>1. /\ k \in KStates /\ QueueFits(k) /\ FlightsOnce(k) /\ FlightsFit(k)
        /\ ContentsFit(k)
    BY DEF KInv, MemoryFits
  <1>2. /\ h \in Handlers /\ va \in VAs /\ p \in Pages /\ m # NULL
        /\ h = "read" \/ h = "write"
        /\ "read" # "write"
    BY MessageFields, BlockFacts DEF Handlers
  <1>3. Flies(k, m)
    BY DEF Flies
  <1>4. ASSUME h = "read"
        PROVE  KInv(f, {}, {}) /\ p \in f.latest[va] /\ SameQueue(k, f)
               /\ SameTasks(k, f)
    <2>1. f = [k EXCEPT !.latest = Copied(@, va, Device, p)]
      BY <1>4 DEF MovedContents
    <2>2. k.spte[va].page = p /\ ~k.spte[va].present
      BY <1>1, <1>3, <1>4 DEF FlightsFit
    <2>3. \A q \in Pages : ~Unwritten(k, va, q)
      <3> SUFFICES ASSUME NEW x \in Messages, Flies(k, x),
                          x.handler = "write", x.key = va
                   PROVE  FALSE
        BY DEF Unwritten
      <3>1. x # m
        BY <1>2, <1>4
      <3>2. PICK i \in DOMAIN k.messages : k.messages[i] = x
        BY <3>1 DEF Flies, OnList
      <3> QED BY <1>1, <1>2, <3>2 DEF QueueFits
    <2> HIDE DEF f, h, va, p
    <2> QED BY <1>2, <2>1, <2>2, <2>3, PageFilled
  <1>5. ASSUME h = "write"
        PROVE  KInv(f, {}, {}) /\ Device \in f.latest[va] /\ SameQueue(k, f)
               /\ SameTasks(k, f)
    <2>1. f = [k EXCEPT !.latest = Copied(@, va, p, Device)]
      BY <1>2, <1>5 DEF MovedContents
    <2>2. p \in k.latest[va]
      <3>1. Unwritten(k, va, p)
        BY <1>3, <1>5 DEF Unwritten
      <3> QED BY <1>1, <1>2, <3>1 DEF ContentsFit
    <2> HIDE DEF f, h, va, p
    <2> QED BY <1>2, <2>1, <2>2, PageSaved
  <1>6. /\ KInv(f, {}, {}) /\ SameQueue(k, f) /\ SameTasks(k, f)
        /\ m.handler = "read" => m.data \in f.latest[m.key]
        /\ m.handler = "write" => Device \in f.latest[m.key]
    <2> HIDE DEF f
    <2> QED BY <1>2, <1>4, <1>5
  <1>7. f.serving = k.serving /\ f.sched = k.sched
    BY <1>6 DEF SameQueue, SameTasks
  <1>8. KInv(g, {}, {}) /\ g.sched = f.sched
    <2> HIDE DEF f
    <2> QED BY <1>6, <1>7, MarkedDone
  <1>9. r = g
    <2>1. g = [f EXCEPT !.serving = V]
      BY <1>7
    <2> HIDE DEF L, V, g
    <2> QED BY <1>1, <2>1 DEF KStates
  <1> HIDE DEF g, f, L, V
  <1>10. KInv(r, {}, {}) /\ r.sched = k.sched
    BY <1>7, <1>8, <1>9
  <1> QED BY <1>10 DEF r, L, V

-----------------------------------------------------------------------------
(* The steps                                                               *)

(* The CPU of a step has no fault to be handled afterwards.                *)
NoFaultLeft(c) ==
    \/ fault[c] = NULL /\ fault' = fault
    \/ fault' = [fault EXCEPT ![c] = NULL]

(* The kernel state is what an operation makes it.                         *)
LEMMA Becoming ==
    ASSUME NEW r \in KStates, Becomes(r) PROVE Kernel' = r
  BY DEF Becomes, Kernel, KStates

(* A step that keeps the invariant and changes one CPU.                    *)
LEMMA Stepped ==
    ASSUME BlockInd, NEW r, KInv(r, {}, {}), Becomes(r), NEW c \in Cpus,
           SameElsewhere(Kernel.sched, r.sched, c), NoFaultLeft(c)
    PROVE  BlockInd'
  <1>1. r \in KStates
    BY DEF KInv
  <1>2. Kernel' = r
    BY <1>1, Becoming
  <1>3. KInv(Kernel, {}, {})'
    BY <1>2
  <1>4. sched' = r.sched /\ Kernel.sched = sched
    BY DEF Becomes, Kernel
  <1>5. /\ fault \in [Cpus -> [va : VAs, store : BOOLEAN] \cup {NULL}]
        /\ \A d \in Cpus : fault[d] # NULL => sched.current[d] \in Users
    BY DEF BlockInd, FaultsFit
  <1>6. /\ fault' \in [Cpus -> [va : VAs, store : BOOLEAN] \cup {NULL}]
        /\ \A d \in Cpus : d # c => fault'[d] = fault[d]
        /\ fault'[c] = NULL
    BY <1>5 DEF NoFaultLeft
  <1>7. \A d \in Cpus : d # c => sched'.current[d] = sched.current[d]
    BY <1>4 DEF SameElsewhere
  <1>8. FaultsFit'
    BY <1>5, <1>6, <1>7 DEF FaultsFit
  <1> QED BY <1>3, <1>8 DEF BlockInd

(* A step that leaves the scheduler alone does so on all CPUs.             *)
LEMMA SameSched ==
    ASSUME NEW s, NEW r, r = s, NEW c PROVE SameElsewhere(s, r, c)
  BY DEF SameElsewhere

(* The fields of the kernel state as it is.                                *)
LEMMA KernelIs ==
    /\ Kernel.sched = sched /\ Kernel.spte = spte /\ Kernel.hpte = hpte
    /\ Kernel.avail = avail /\ Kernel.messages = messages
    /\ Kernel.waiting = waiting /\ Kernel.serving = serving
    /\ Kernel.pending = pending /\ Kernel.ended = ended
    /\ Kernel.va2pa = va2pa /\ Kernel.msgCount = msgCount
    /\ Kernel.latest = latest /\ Kernel.panic = panic
  BY DEF Kernel

(* msg_wait                                                                *)
LEMMA WaitKeeps ==
    ASSUME BlockHandlers, BlockInd, NEW c \in Cpus, DaemonWait(c)
    PROVE  BlockInd'
  <1>1. PICK d \in Daemons : /\ Runs(c, d) /\ serving[d] = NULL
                             /\ Becomes(MsgWait(Kernel, c)) /\ fault' = fault
    BY DEF DaemonWait
  <1>2. d = Daemon
    BY BlockFacts
  <1>3. /\ KInv(Kernel, {}, {}) /\ Kernel.sched.current[c] = Daemon
        /\ Kernel.serving[Daemon] = NULL /\ fault[c] = NULL
    BY <1>1, <1>2, KernelIs DEF BlockInd, Runs
  <1>4. /\ KInv(MsgWait(Kernel, c), {}, {})
        /\ SameElsewhere(Kernel.sched, MsgWait(Kernel, c).sched, c)
    BY <1>3, Waited
  <1>5. NoFaultLeft(c)
    BY <1>1, <1>3 DEF NoFaultLeft
  <1> QED BY <1>1, <1>4, <1>5, Stepped

(* The daemon moves a page.                                                *)
LEMMA MoveKeeps ==
    ASSUME BlockHandlers, BlockInd, NEW c \in Cpus, DaemonMove(c)
    PROVE  BlockInd'
  <1> DEFINE m == serving[Daemon]
             d == [m EXCEPT !.done = TRUE]
             V == [serving EXCEPT ![Daemon] = d]
             L == MovedContents(Kernel, m)
             r == [Kernel EXCEPT !.latest = L, !.serving = V]
  <1>1. /\ Runs(c, Daemon) /\ m # NULL /\ ~m.done
        /\ latest' = IF m.handler = "read"
                     THEN Copied(latest, m.key, Device, m.data)
                     ELSE Copied(latest, m.key, m.data, Device)
        /\ serving' = V
        /\ UNCHANGED <<sched, spte, hpte, avail, messages, waiting, pending,
                       ended, va2pa, msgCount, fault, panic>>
    BY BlockFacts DEF DaemonMove
  <1>2. /\ KInv(Kernel, {}, {}) /\ Kernel.serving = serving
        /\ Kernel.latest = latest /\ fault[c] = NULL
    BY <1>1, KernelIs DEF BlockInd, Runs
  <1>3. m \in Messages
    <2>1. Kernel.serving \in [Daemons -> Messages \cup {NULL}]
      BY <1>2, KFields DEF KInv
    <2> QED BY <1>1, <1>2, <2>1, BlockFacts
  <1> HIDE DEF m
  <1>4. KInv(r, {}, {}) /\ r.sched = Kernel.sched
    <2>1. Kernel.serving[Daemon] = m
      BY <1>2 DEF m
    <2>2. r = [Kernel EXCEPT !.latest = MovedContents(Kernel, m), !.serving =
                  [Kernel.serving EXCEPT ![Daemon] = [m EXCEPT !.done = TRUE]]]
      BY <1>2
    <2> HIDE DEF r
    <2> QED BY <1>1, <1>2, <1>3, <2>1, <2>2, Moved
  <1>5. latest' = L
    BY <1>1, <1>2, Zenon DEF MovedContents
  <1> HIDE DEF L, V
  <1>6. Becomes(r)
    BY <1>1, <1>5 DEF Becomes, Kernel
  <1> HIDE DEF r
  <1>7. NoFaultLeft(c)
    BY <1>1, <1>2 DEF NoFaultLeft
  <1> QED BY <1>4, <1>6, <1>7, Stepped, SameSched

(* msg_respond                                                             *)
LEMMA RespondKeeps ==
    ASSUME BlockHandlers, BlockInd, NEW c \in Cpus, NEW rc,
           DaemonRespond(c, rc)
    PROVE  BlockInd'
  <1> DEFINE m == serving[Daemon]
  <1>1. PICK d \in Daemons :
           /\ Runs(c, d) /\ serving[d] # NULL
           /\ IF rc = 0 THEN serving[d].done
              ELSE ~serving[d].done /\ serving[d].handler \in Errors
           /\ \E victim \in IF serving[d].handler = "read"
                            THEN Victims(Kernel, serving[d].key)
                            ELSE {serving[d].key} :
                 Becomes(MsgRespond(Kernel, c, rc, victim))
           /\ fault' = fault
    BY DEF DaemonRespond
  <1>2. d = Daemon
    BY BlockFacts
  <1>3. /\ KInv(Kernel, {}, {}) /\ Kernel.serving = serving
        /\ Kernel.sched.current[c] = Daemon /\ fault[c] = NULL
    BY <1>1, <1>2, KernelIs DEF BlockInd, Runs
  <1>4. m \in Messages
    <2>1. Kernel.serving \in [Daemons -> Messages \cup {NULL}]
      BY <1>3, KFields DEF KInv
    <2> QED BY <1>1, <1>2, <1>3, <2>1, BlockFacts
  <1>5. /\ rc = 0 => m.done
        /\ rc # 0 => m.handler \in Errors
    BY <1>1, <1>2
  <1>6. PICK victim \in IF m.handler = "read" THEN Victims(Kernel, m.key)
                                              ELSE {m.key} :
           Becomes(MsgRespond(Kernel, c, rc, victim))
    BY <1>1, <1>2
  <1>7. Kernel.serving[Daemon] = m
    BY <1>3
  <1> HIDE DEF m
  <1>8. m.key \in VAs /\ m.handler \in Handlers
    BY <1>4, MessageFields
  <1>9. victim \in VAs
    BY <1>6, <1>8 DEF Victims, Mapped
  <1>10. rc # 0 => m.handler = "read"
    BY <1>5, <1>8 DEF BlockHandlers, Handlers
  <1> DEFINE r == MsgRespond(Kernel, c, rc, victim)
  <1>11. KInv(r, {}, {}) /\ SameElsewhere(Kernel.sched, r.sched, c)
    BY <1>3, <1>4, <1>5, <1>7, <1>9, <1>10, Responded
  <1>12. NoFaultLeft(c)
    BY <1>1, <1>3 DEF NoFaultLeft
  <1>13. Becomes(r)
    BY <1>6
  <1> HIDE DEF r
  <1> QED BY <1>11, <1>12, <1>13, Stepped

(* A store through the page table.                                         *)
LEMMA StoreKeeps ==
    ASSUME BlockHandlers, BlockInd, NEW c \in Cpus, NEW va \in VAs,
           Store(c, va)
    PROVE  BlockInd'
  <1> DEFINE p == hpte[va].page
             L == Stored(latest, va, p)
             r == [Kernel EXCEPT !.latest = L]
  <1>1. /\ \E t \in Users : Runs(c, t)
        /\ hpte[va] # NULL /\ hpte[va].writable
        /\ latest' = L
        /\ UNCHANGED <<sched, spte, hpte, avail, messages, waiting, serving,
                       pending, ended, va2pa, msgCount, fault, panic>>
    BY DEF Store
  <1>2. /\ KInv(Kernel, {}, {}) /\ Kernel \in KStates /\ TableFits(Kernel)
        /\ Kernel.hpte = hpte /\ Kernel.latest = latest /\ fault[c] = NULL
    BY <1>1, KernelIs DEF BlockInd, Runs, KInv, MemoryFits
  <1>3. p \in Pages
    <2>1. hpte \in [VAs -> TableEntries \cup {NULL}]
      BY <1>2, KFields
    <2> QED BY <1>1, <2>1 DEF TableEntries
  <1>4. /\ Kernel.spte[va].present /\ Kernel.spte[va].page = p
        /\ Kernel.spte[va].dirty
    BY <1>1, <1>2 DEF TableFits
  <1> HIDE DEF p
  <1>5. KInv(r, {}, {})
    <2>1. r = [Kernel EXCEPT !.latest = Stored(@, va, p)]
      BY <1>2
    <2> HIDE DEF r
    <2> QED BY <1>2, <1>3, <1>4, <2>1, PageStored
  <1> HIDE DEF L
  <1>6. Becomes(r) /\ r.sched = Kernel.sched
    BY <1>1 DEF Becomes, Kernel
  <1> HIDE DEF r
  <1>7. NoFaultLeft(c)
    BY <1>1, <1>2 DEF NoFaultLeft
  <1> QED BY <1>5, <1>6, <1>7, Stepped, SameSched

(* An access that faults.                                                  *)
LEMMA MissKeeps ==
    ASSUME BlockHandlers, BlockInd, NEW c \in Cpus, NEW va \in VAs,
           NEW store \in BOOLEAN, Miss(c, va, store)
    PROVE  BlockInd'
  <1>1. PICK t \in Users : Runs(c, t)
    BY DEF Miss
  <1>2. Kernel' = Kernel
    BY DEF Miss, Kernel
  <1>3. KInv(Kernel, {}, {})'
    BY <1>2 DEF BlockInd
  <1>4. /\ fault' = [fault EXCEPT ![c] = [va |-> va, store |-> store]]
        /\ sched' = sched /\ sched.current[c] \in Users
    BY <1>1 DEF Miss, Runs
  <1>5. FaultsFit'
    BY <1>4 DEF BlockInd, FaultsFit
  <1> QED BY <1>3, <1>5 DEF BlockInd

(* The handler of the fault.                                               *)
LEMMA FaultKeeps ==
    ASSUME BlockHandlers, BlockInd, NEW c \in Cpus,
           kernel_execute_data_storage(c)
    PROVE  BlockInd'
  <1> DEFINE va == fault[c].va
             store == fault[c].store
             t == sched.current[c]
  <1>1. /\ fault[c] # NULL
        /\ \E p \in Frames(Kernel, va), victim \in Victims(Kernel, va) :
              Becomes(handlePageFault(Kernel, c, t, va, store, p, victim))
        /\ fault' = [fault EXCEPT ![c] = NULL]
    BY DEF kernel_execute_data_storage
  <1>2. KInv(Kernel, {}, {}) /\ t = Kernel.sched.current[c]
    BY KernelIs DEF BlockInd
  <1>3. va \in VAs /\ store \in BOOLEAN /\ t \in Users
    BY <1>1 DEF BlockInd, FaultsFit
  <1> HIDE DEF va, store, t
  <1>4. PICK p \in Frames(Kernel, va), victim \in Victims(Kernel, va) :
           Becomes(handlePageFault(Kernel, c, t, va, store, p, victim))
    BY <1>1
  <1> DEFINE r == handlePageFault(Kernel, c, t, va, store, p, victim)
  <1>5. KInv(r, {}, {}) /\ SameElsewhere(Kernel.sched, r.sched, c)
    BY <1>2, <1>3, PageFault
  <1>6. Becomes(r) /\ NoFaultLeft(c)
    BY <1>1, <1>4 DEF NoFaultLeft
  <1> HIDE DEF r
  <1> QED BY <1>5, <1>6, Stepped

(* mm_remove_pages                                                         *)
LEMMA RemoveKeeps ==
    ASSUME BlockHandlers, BlockInd, NEW c \in Cpus,
           NEW op \in {"RELEASE", "FLUSH"}, NEW lo, NEW hi,
           MmRemovePages(c, op, lo, hi)
    PROVE  BlockInd'
  <1>1. PICK t \in Users :
           /\ Runs(c, t) /\ fault' = fault
           /\ Becomes(removePages(Kernel, c, op, lo .. hi, t))
    BY DEF MmRemovePages
  <1>2. /\ KInv(Kernel, {}, {}) /\ t = Kernel.sched.current[c]
        /\ fault[c] = NULL
    BY <1>1, KernelIs DEF BlockInd, Runs
  <1>3. CanSend(Kernel, c, t)
    BY <1>2 DEF CanSend
  <1> DEFINE r == removePages(Kernel, c, op, lo .. hi, t)
  <1>4. Removing(Kernel, r, c, t)
    <2>1. op \in {"EVICT", "RELEASE", "FLUSH"}
      OBVIOUS
    <2> QED BY <1>2, <1>3, <2>1, RemovePages
  <1>5. Becomes(r) /\ NoFaultLeft(c)
    BY <1>1, <1>2 DEF NoFaultLeft
  <1> HIDE DEF r
  <1> QED BY <1>4, <1>5, Stepped DEF Removing

(* mm_set_permission                                                       *)
LEMMA PermissionKeeps ==
    ASSUME BlockInd, NEW c \in Cpus, NEW va \in VAs, NEW a,
           MmSetPermission(c, va, a)
    PROVE  BlockInd'
  <1> DEFINE r == mmSetPermission(Kernel, va, a)
  <1>1. KInv(Kernel, {}, {}) /\ NoFaultLeft(c) /\ Becomes(r)
    BY DEF BlockInd, MmSetPermission, Runs, NoFaultLeft
  <1>2. KInv(r, {}, {}) /\ r.sched = Kernel.sched
    BY <1>1, PermissionsSet
  <1> HIDE DEF r
  <1> QED BY <1>1, <1>2, Stepped, SameSched

(* The next task in turn gets the CPU.                                     *)
LEMMA NextSlice ==
    ASSUME NEW s \in SchedStates, NEW c \in Cpus, NEW T, Holds(s, {}, T)
    PROVE  LET S == setNextRunnable(returnRunnable(s, c), c) IN
           Holds(S, {}, T) /\ SameElsewhere(s, S, c)
  <1> DEFINE s1 == returnRunnable(s, c)
             S == setNextRunnable(s1, c)
  <1>1. Holds(S, {}, T)
    BY ReturnRunnable, NextRunnable
  <1>2. s1.current = s.current /\ s1 \in SchedStates
    BY Elsewhere, ReturnRunnable DEF Holds
  <1> HIDE DEF s1
  <1>3. SameElsewhere(s1, S, c)
    BY <1>2, Elsewhere
  <1> QED BY <1>1, <1>2, <1>3 DEF SameElsewhere, s1

(* The end of a time slice.                                                *)
LEMMA SliceKeeps ==
    ASSUME BlockHandlers, BlockInd, NEW c \in Cpus, NEW out,
           Decrementer(c, out)
    PROVE  BlockInd'
  <1> DEFINE k == removePages(Kernel, c, "EVICT", out, NULL)
             S == setNextRunnable(returnRunnable(k.sched, c), c)
             r == IF k.sched.current[c] = sched.current[c]
                  THEN [k EXCEPT !.sched = S] ELSE k
  <1>1. fault[c] = NULL /\ fault' = fault /\ Becomes(r)
    BY Zenon DEF Decrementer
  <1>2. KInv(Kernel, {}, {}) /\ CanSend(Kernel, c, NULL)
    BY DEF BlockInd, CanSend
  <1>3. Removing(Kernel, k, c, NULL)
    <2>1. "EVICT" \in {"EVICT", "RELEASE", "FLUSH"}
      OBVIOUS
    <2> QED BY <1>2, <2>1, RemovePages
  <1> HIDE DEF k
  <1>4. /\ KInv(k, {}, {}) /\ SameElsewhere(Kernel.sched, k.sched, c)
        /\ Holds(k.sched, {}, Ready(k) \ {}) /\ k.sched \in SchedStates
    BY <1>3 DEF Removing, KInv, Holds
  <1>5. Holds(S, {}, Ready(k) \ {}) /\ SameElsewhere(k.sched, S, c)
    BY <1>4, NextSlice
  <1> HIDE DEF S
  <1>6. KInv([k EXCEPT !.sched = S], {}, {}) /\ [k EXCEPT !.sched = S].sched = S
    BY <1>4, <1>5, SchedStep
  <1>7. KInv(r, {}, {}) /\ SameElsewhere(Kernel.sched, r.sched, c)
    BY <1>4, <1>5, <1>6 DEF SameElsewhere
  <1>8. NoFaultLeft(c)
    BY <1>1 DEF NoFaultLeft
  <1> HIDE DEF r
  <1> QED BY <1>1, <1>7, <1>8, Stepped

(* Pages are cast out.                                                     *)
LEMMA CastKeeps ==
    ASSUME BlockHandlers, BlockInd, NEW c \in Cpus, NEW out, CastOut(c, out)
    PROVE  BlockInd'
  <1> DEFINE r == removePages(Kernel, c, "EVICT", out, NULL)
  <1>1. fault[c] = NULL /\ fault' = fault /\ Becomes(r)
    BY Zenon DEF CastOut
  <1>2. KInv(Kernel, {}, {}) /\ CanSend(Kernel, c, NULL)
    BY DEF BlockInd, CanSend
  <1>3. Removing(Kernel, r, c, NULL)
    <2>1. "EVICT" \in {"EVICT", "RELEASE", "FLUSH"}
      OBVIOUS
    <2> QED BY <1>2, <2>1, RemovePages
  <1>4. NoFaultLeft(c)
    BY <1>1 DEF NoFaultLeft
  <1> HIDE DEF r
  <1> QED BY <1>1, <1>3, <1>4, Stepped DEF Removing

(* A task gives up its slice, and then pages are cast out.                 *)
LEMMA YieldKeeps ==
    ASSUME BlockHandlers, BlockInd, NEW c \in Cpus, NEW out,
           TaskYields(c, out)
    PROVE  BlockInd'
  <1> DEFINE S == setNextRunnable(returnRunnable(Kernel.sched, c), c)
             k == [Kernel EXCEPT !.sched = S]
             r == removePages(k, c, "EVICT", out, NULL)
  <1>1. fault[c] = NULL /\ fault' = fault /\ Becomes(r)
    BY Zenon DEF TaskYields
  <1>2. /\ KInv(Kernel, {}, {}) /\ Kernel.sched \in SchedStates
        /\ Holds(Kernel.sched, {}, Ready(Kernel) \ {})
    BY DEF BlockInd, KInv, Holds
  <1>3. Holds(S, {}, Ready(Kernel) \ {}) /\ SameElsewhere(Kernel.sched, S, c)
    BY <1>2, NextSlice
  <1> HIDE DEF S
  <1>4. KInv(k, {}, {}) /\ k.sched = S
    BY <1>2, <1>3, SchedStep
  <1> HIDE DEF k
  <1>5. Removing(k, r, c, NULL)
    <2>1. "EVICT" \in {"EVICT", "RELEASE", "FLUSH"} /\ CanSend(k, c, NULL)
      BY DEF CanSend
    <2> QED BY <1>4, <2>1, RemovePages
  <1>6. NoFaultLeft(c)
    BY <1>1 DEF NoFaultLeft
  <1> HIDE DEF r
  <1>7. KInv(r, {}, {}) /\ SameElsewhere(Kernel.sched, r.sched, c)
    BY <1>3, <1>4, <1>5 DEF Removing, SameElsewhere
  <1> QED BY <1>1, <1>6, <1>7, Stepped

(* Every step keeps the invariant.                                         *)
LEMMA BlockStep ==
    ASSUME BlockHandlers, BlockInd, [Next]_vars PROVE BlockInd'
  <1>1. CASE UNCHANGED vars
    <2>1. Kernel' = Kernel /\ fault' = fault /\ sched' = sched
      BY <1>1 DEF vars, Kernel
    <2>2. KInv(Kernel, {}, {})'
      BY <2>1 DEF BlockInd
    <2>3. FaultsFit'
      BY <2>1 DEF BlockInd, FaultsFit
    <2> QED BY <2>2, <2>3 DEF BlockInd
  <1>2. ASSUME NEW c \in Cpus, DaemonStep(c) PROVE BlockInd'
    BY <1>2, WaitKeeps, MoveKeeps, RespondKeeps DEF DaemonStep
  <1>3. ASSUME NEW c \in Cpus, NEW out, Decrementer(c, out) PROVE BlockInd'
    BY <1>3, SliceKeeps
  <1>4. ASSUME NEW c \in Cpus, kernel_execute_data_storage(c) PROVE BlockInd'
    BY <1>4, FaultKeeps
  <1>5. ASSUME NEW c \in Cpus, NEW va \in VAs, Store(c, va) PROVE BlockInd'
    BY <1>5, StoreKeeps
  <1>6. ASSUME NEW c \in Cpus, NEW va \in VAs, NEW store \in BOOLEAN,
               Miss(c, va, store)
        PROVE  BlockInd'
    BY <1>6, MissKeeps
  <1>7. ASSUME NEW c \in Cpus, NEW va \in VAs, NEW a,
               MmSetPermission(c, va, a)
        PROVE  BlockInd'
    BY <1>7, PermissionKeeps
  <1>8. ASSUME NEW c \in Cpus, NEW op \in {"RELEASE", "FLUSH"}, NEW lo,
               NEW hi, MmRemovePages(c, op, lo, hi)
        PROVE  BlockInd'
    BY <1>8, RemoveKeeps
  <1>9. Halted => UNCHANGED vars
    BY DEF Halted
  <1>10. ASSUME NEW c \in Cpus, NEW out, TaskYields(c, out) PROVE BlockInd'
    BY <1>10, YieldKeeps
  <1>11. ASSUME NEW c \in Cpus, NEW out, CastOut(c, out) PROVE BlockInd'
    BY <1>11, CastKeeps
  <1> QED BY <1>1, <1>2, <1>3, <1>4, <1>5, <1>6, <1>7, <1>8, <1>9, <1>10,
             <1>11 DEF Next

-----------------------------------------------------------------------------
(* The start                                                               *)

(* The shadow entries have no pages yet.                                   *)
LEMMA ShadowStart ==
    ASSUME Init
    PROVE  /\ spte \in [VAs -> ShadowPTEs]
           /\ \A va \in VAs : /\ spte[va].page = NULL /\ ~spte[va].present
                              /\ "T" \in spte[va].perm => va \in Backed
  <1>1. spte \in [VAs -> [page : {NULL}, present : {FALSE}, dirty : {FALSE},
                          perm : SUBSET {"R", "W", "T", "Z"}]]
    BY DEF Init
  <1>2. ASSUME NEW va \in VAs
        PROVE  /\ spte[va] \in ShadowPTEs
               /\ spte[va].page = NULL /\ ~spte[va].present
               /\ "T" \in spte[va].perm => va \in Backed
    <2>1. PICK a \in Grants[va] : spte[va].perm = setPermSPTE({}, a, va)
      BY DEF Init
    <2>2. {} \in SUBSET {"R", "W", "T", "Z"} /\ "T" \notin {}
      OBVIOUS
    <2>3. /\ spte[va].perm \in SUBSET {"R", "W", "T", "Z"}
          /\ "T" \in spte[va].perm => va \in Backed
      BY <2>1, <2>2, PermissionsFit
    <2>4. spte[va] \in [page : {NULL}, present : {FALSE}, dirty : {FALSE},
                        perm : SUBSET {"R", "W", "T", "Z"}]
      BY <1>1
    <2> QED BY <2>3, <2>4 DEF ShadowPTEs
  <1>3. spte = [va \in VAs |-> spte[va]]
    BY <1>1
  <1> QED BY <1>2, <1>3

(* The invariant holds at the start.                                       *)
LEMMA BlockStart ==
    ASSUME BlockHandlers, Init PROVE BlockInd
  <1> DEFINE k == Kernel
  <1>1. /\ SchedulerInit /\ hpte = [va \in VAs |-> NULL] /\ avail = Pages
        /\ messages = << >> /\ waiting = << >>
        /\ serving = [d \in Daemons |-> NULL]
        /\ pending = [h \in {"read", "write"} |-> << >>] /\ ended = {}
        /\ va2pa = << >> /\ msgCount = [t \in Tasks |-> 0]
        /\ latest = [va \in VAs |-> {Device}]
        /\ fault = [c \in Cpus |-> NULL] /\ panic = "no"
    BY DEF Init
  <1>2. Holds(sched, {}, Tasks) /\ sched \in SchedStates
    BY <1>1, SchedulerStart DEF Holds
  <1>3. /\ << >> \in Seq(Messages) /\ << >> \in Seq(Daemons)
        /\ << >> \in Seq(Writes) /\ << >> \in Seq(Awaitings)
        /\ NoneTwice(<< >>) /\ \A x : ~OnList(<< >>, x)
    BY ListEmpty
  <1>4. /\ spte \in [VAs -> ShadowPTEs]
        /\ \A va \in VAs : /\ spte[va].page = NULL /\ ~spte[va].present
                           /\ "T" \in spte[va].perm => va \in Backed
    BY ShadowStart
  <1>5. /\ hpte \in [VAs -> TableEntries \cup {NULL}]
        /\ \A va \in VAs : hpte[va] = NULL
        /\ serving \in [Daemons -> Messages \cup {NULL}]
        /\ serving[Daemon] = NULL
        /\ pending \in [Handlers -> Seq(Awaitings)]
        /\ \A h \in Handlers : pending[h] = << >>
    BY <1>1, <1>3, BlockFacts DEF Handlers
  <1>6. /\ msgCount \in [Tasks -> Nat]
        /\ \A t \in Tasks : msgCount[t] = 0
        /\ latest \in [VAs -> SUBSET (Pages \cup {Device})]
        /\ \A va \in VAs : latest[va] = {Device}
    BY <1>1
  <1>7. k \in KStates
    <2>1. avail \in SUBSET Pages /\ ended \in SUBSET Users
      BY <1>1
    <2>2. panic \in {"no", "out of memory", "duplicate PTE"}
      BY <1>1
    <2>3. /\ messages \in Seq(Messages) /\ waiting \in Seq(Daemons)
          /\ va2pa \in Seq(Writes)
      BY <1>1, <1>3
    <2> QED BY <1>2, <1>4, <1>5, <1>6, <2>1, <2>2, <2>3 DEF Kernel, KStates
  <1>8. /\ k.sched = sched /\ k.spte = spte /\ k.hpte = hpte
        /\ k.avail = Pages /\ k.messages = << >> /\ k.waiting = << >>
        /\ k.serving = serving /\ k.pending = pending /\ k.ended = {}
        /\ k.va2pa = << >> /\ k.msgCount = msgCount /\ k.latest = latest
        /\ k.panic = "no"
    BY <1>1, KernelIs
  <1> HIDE DEF k
  <1>9. /\ \A h \in Handlers : \A v, t : ~Pend(k, h, v, t)
        /\ \A v, p : ~Writing(k, v, p)
        /\ \A m \in Messages : ~Flies(k, m)
    BY <1>3, <1>5, <1>8, BlockFacts DEF Pend, Writing, Flies
  <1>10. /\ \A h, v : ~OnItsWay(k, h, v)
         /\ \A v, p : ~Unwritten(k, v, p)
    BY <1>9 DEF OnItsWay, Unwritten
  <1>11. PagesFit(k)
    <2>1. NULL \notin Pages
      BY BlockFacts
    <2>2. ShadowApart(k)
      BY <1>4, <1>8, <2>1 DEF ShadowApart
    <2>3. WritesApart(k)
      BY <1>3, <1>8, <1>9 DEF WritesApart
    <2>4. NoPageLost(k)
      BY <1>8 DEF NoPageLost
    <2> QED BY <2>2, <2>3, <2>4 DEF PagesFit
  <1>12. TableFits(k)
    BY <1>4, <1>5, <1>8 DEF TableFits
  <1>13. QueueFits(k) /\ FlightsOnce(k)
    <2>1. DOMAIN << >> = {}
      OBVIOUS
    <2> QED BY <1>5, <1>8, <2>1 DEF QueueFits, FlightsOnce
  <1>14. FlightsFit(k)
    BY <1>9 DEF FlightsFit
  <1>15. ContentsFit(k)
    BY <1>4, <1>6, <1>8, <1>9, <1>10 DEF ContentsFit
  <1>16. SentFits(k, {})
    BY <1>9, <1>10 DEF SentFits
  <1>17. TasksFit(k)
    <2>1. \A h \in Handlers : NoneTwice(k.pending[h])
      BY <1>3, <1>5, <1>8
    <2>2. "read" \in Handlers /\ "write" \in Handlers
      BY DEF Handlers
    <2>3. ASSUME NEW t \in Tasks
          PROVE  k.msgCount[t] = Cardinality(AwaitedBy(k, t))
      <3>1. AwaitedBy(k, t) = {}
        BY <1>9, <2>2 DEF AwaitedBy
      <3> QED BY <1>6, <1>8, <3>1, FS_EmptySet
    <2> QED BY <1>9, <2>1, <2>2, <2>3 DEF TasksFit
  <1>18. Ready(k) \ {} = Tasks
    BY <1>3, <1>8, <1>9 DEF Ready
  <1>19. KInv(k, {}, {})
    BY <1>2, <1>7, <1>8, <1>11, <1>12, <1>13, <1>14, <1>15, <1>16, <1>17,
       <1>18 DEF KInv, MemoryFits
  <1>20. FaultsFit
    BY <1>1 DEF FaultsFit
  <1> QED BY <1>19, <1>20 DEF BlockInd, k

-----------------------------------------------------------------------------
(* What the invariant gives                                                *)

(* What is mapped is the latest, and nothing is lost.                      *)
LEMMA IsCoherent ==
    ASSUME BlockInd PROVE MemoryIsCoherent
  <1>1. TableFits(Kernel) /\ ContentsFit(Kernel)
    BY DEF BlockInd, KInv, MemoryFits
  <1>2. /\ Kernel.spte = spte /\ Kernel.hpte = hpte /\ Kernel.latest = latest
        /\ Kernel.panic = panic
    BY KernelIs
  <1>3. ASSUME NEW va \in VAs PROVE latest[va] # {}
    BY <1>1, <1>2 DEF ContentsFit
  <1>4. ASSUME NEW va \in VAs, hpte[va] # NULL
        PROVE  /\ spte[va].present /\ spte[va].page = hpte[va].page
               /\ hpte[va].page \in latest[va]
               /\ hpte[va].writable => spte[va].dirty /\ "W" \in spte[va].perm
    BY <1>1, <1>2, <1>4 DEF TableFits, ContentsFit
  <1>5. panic # "duplicate PTE"
    BY <1>1, <1>2 DEF TableFits
  <1> QED BY <1>3, <1>4, <1>5 DEF MemoryIsCoherent

(* A page in one place, in two kinds of places for a list and a flag.      *)
LEMMA InOnePlace ==
    ASSUME BlockHandlers, BlockInd PROVE PagesInOnePlace
  <1> DEFINE S(p) == {<<"spte", va>> : va \in {v \in VAs : spte[v].page = p}}
             W(p) == {<<"va2pa", i>> : i \in {j \in DOMAIN va2pa :
                                                 va2pa[j].page = p}}
             A(p) == IF p \in avail THEN {<<"avail", 0>>} ELSE {}
  <1>1. /\ Kernel \in KStates /\ PagesFit(Kernel) /\ SentFits(Kernel, {})
        /\ va2pa \in Seq(Writes)
    BY KFields, KernelIs DEF BlockInd, KInv, MemoryFits
  <1>2. /\ ShadowApart(Kernel) /\ WritesApart(Kernel) /\ NoPageLost(Kernel)
        /\ Kernel.spte = spte /\ Kernel.avail = avail
        /\ Kernel.va2pa = va2pa
    BY <1>1, KernelIs DEF PagesFit
  <1>3. ASSUME NEW i \in DOMAIN va2pa
        PROVE  /\ va2pa[i].key \in VAs /\ va2pa[i].page \in Pages
               /\ va2pa[i] = Written(va2pa[i].key, va2pa[i].page)
               /\ Writing(Kernel, va2pa[i].key, va2pa[i].page)
    <2>1. va2pa[i] \in Writes
      BY <1>1, ListPlaces
    <2>2. va2pa[i] = Written(va2pa[i].key, va2pa[i].page)
      BY <2>1, EntryFacts
    <2>3. OnList(va2pa, va2pa[i])
      BY DEF OnList
    <2>4. Writing(Kernel, va2pa[i].key, va2pa[i].page)
      BY <1>2, <2>2, <2>3 DEF Writing
    <2> QED BY <2>1, <2>2, <2>4, EntryFacts
  <1>4. ASSUME NEW i \in DOMAIN va2pa
        PROVE  Sent(Kernel, "write", va2pa[i].key)
    <2> DEFINE v == va2pa[i].key
    <2>1. v \in VAs /\ \E p \in Pages : Writing(Kernel, v, p)
      BY <1>3
    <2> HIDE DEF v
    <2>2. "write" \in Handlers
      BY DEF Handlers
    <2>3. OnItsWay(Kernel, "write", v)
      BY <1>1, <2>1 DEF SentFits
    <2>4. \E t \in Waiters : Pend(Kernel, "write", v, t)
      BY <1>1, <2>1, <2>2, <2>3 DEF SentFits
    <2>5. Sent(Kernel, "write", v)
      BY <2>4, EntryFacts DEF Pend, OnList, Sent, ForKey
    <2> QED BY <2>5 DEF v
  <1>5. ASSUME NEW p \in Pages
        PROVE  \E x : S(p) \cup W(p) \cup A(p) = {x}
    <2>1. /\ \A x : x \in S(p) <=> \E v \in VAs : spte[v].page = p
                                                  /\ x = <<"spte", v>>
          /\ \A x : x \in W(p) <=> \E i \in DOMAIN va2pa : va2pa[i].page = p
                                                  /\ x = <<"va2pa", i>>
      OBVIOUS
    <2>2. \A x : x \in A(p) <=> p \in avail /\ x = <<"avail", 0>>
      OBVIOUS
    <2> HIDE DEF S, W, A
    <2>3. CASE p \in avail
      <3>1. \A v \in VAs : spte[v].page # p /\ ~Writing(Kernel, v, p)
        BY <1>2, <2>3 DEF ShadowApart, WritesApart
      <3>2. S(p) = {} /\ W(p) = {}
        BY <1>3, <2>1, <3>1
      <3>3. A(p) = {<<"avail", 0>>}
        BY <2>2, <2>3
      <3> QED BY <3>2, <3>3
    <2>4. CASE \E v \in VAs : spte[v].page = p
      <3>1. PICK v \in VAs : spte[v].page = p
        BY <2>4
      <3>2. p \notin avail /\ p # NULL
        BY <1>2, <3>1, BlockFacts DEF ShadowApart
      <3>3. \A w \in VAs : spte[w].page = p => w = v
        BY <1>2, <3>1, <3>2 DEF ShadowApart
      <3>4. \A w \in VAs : ~Writing(Kernel, w, p)
        BY <1>2, <3>1 DEF WritesApart
      <3>5. W(p) = {}
        BY <1>3, <2>1, <3>4
      <3>6. A(p) = {} /\ S(p) = {<<"spte", v>>}
        BY <2>1, <2>2, <3>1, <3>2, <3>3
      <3> QED BY <3>5, <3>6
    <2>5. CASE \E v \in VAs : Writing(Kernel, v, p)
      <3>1. PICK v \in VAs : Writing(Kernel, v, p)
        BY <2>5
      <3>2. PICK i \in DOMAIN va2pa : va2pa[i] = Written(v, p)
        BY <1>2, <3>1 DEF Writing, OnList
      <3>3. p \notin avail /\ \A w \in VAs : spte[w].page # p
        BY <1>2, <3>1 DEF WritesApart
      <3>4. va2pa[i].page = p
        BY <3>2, EntryFacts
      <3>5. ASSUME NEW j \in DOMAIN va2pa, va2pa[j].page = p PROVE j = i
        <4>1. va2pa[j].key = v
          BY <1>2, <1>3, <3>1, <3>5 DEF WritesApart
        <4>2. va2pa[j] = va2pa[i]
          BY <1>3, <3>2, <3>5, <4>1
        <4> QED BY <1>2, <4>2 DEF WritesApart, NoneTwice
      <3>6. S(p) = {} /\ A(p) = {} /\ W(p) = {<<"va2pa", i>>}
        BY <2>1, <2>2, <3>3, <3>4, <3>5
      <3> QED BY <3>6
    <2>6. \/ p \in avail
          \/ \E v \in VAs : spte[v].page = p \/ Writing(Kernel, v, p)
      BY <1>2 DEF NoPageLost
    <2> QED BY <2>3, <2>4, <2>5, <2>6
  <1>6. ASSUME NEW p \in Pages
        PROVE  Cardinality(S(p) \cup W(p) \cup A(p)) = 1
    <2> HIDE DEF S, W, A
    <2>1. PICK x : S(p) \cup W(p) \cup A(p) = {x}
      BY <1>5
    <2> QED BY <2>1, FS_Singleton
  <1>7. \A p \in Pages : Cardinality(S(p) \cup W(p) \cup A(p)) = 1
    <2> HIDE DEF S, W, A
    <2> QED BY <1>6
  <1> QED BY <1>4, <1>7 DEF PagesInOnePlace

(* The entries of a list of a handler that are for a task.                 *)
LEMMA AwaitsEntries ==
    ASSUME BlockInd, NEW h \in Handlers, NEW i \in DOMAIN pending[h]
    PROVE  /\ pending[h][i].key \in VAs /\ pending[h][i].task \in Waiters
           /\ pending[h][i] = Await(pending[h][i].key, pending[h][i].task)
           /\ Pend(Kernel, h, pending[h][i].key, pending[h][i].task)
  <1>1. /\ Kernel \in KStates /\ Kernel.pending = pending
    BY KernelIs DEF BlockInd, KInv
  <1>2. pending[h] \in Seq(Awaitings)
    BY <1>1, KFields
  <1>3. pending[h][i] \in Awaitings
    BY <1>2, ListPlaces
  <1>4. pending[h][i] = Await(pending[h][i].key, pending[h][i].task)
    BY <1>3, EntryFacts
  <1>5. OnList(pending[h], pending[h][i])
    BY DEF OnList
  <1>6. Pend(Kernel, h, pending[h][i].key, pending[h][i].task)
    BY <1>1, <1>4, <1>5 DEF Pend
  <1> QED BY <1>3, <1>4, <1>6, EntryFacts

(* A task that waits is there, and nobody else.                            *)
LEMMA AwaitsSome ==
    ASSUME BlockInd, NEW h \in Handlers, NEW t
    PROVE  Awaits(t, h) = {} <=> \A v \in VAs : ~Pend(Kernel, h, v, t)
  <1>1. Kernel.pending = pending
    BY KernelIs
  <1>2. ASSUME NEW i \in Awaits(t, h)
        PROVE  \E v \in VAs : Pend(Kernel, h, v, t)
    BY <1>2, AwaitsEntries DEF Awaits
  <1>3. ASSUME NEW v \in VAs, Pend(Kernel, h, v, t)
        PROVE  Awaits(t, h) # {}
    <2>1. PICK i \in DOMAIN pending[h] : pending[h][i] = Await(v, t)
      BY <1>1, <1>3 DEF Pend, OnList
    <2>2. pending[h][i].task = t
      BY <2>1, EntryFacts
    <2> QED BY <2>1, <2>2 DEF Awaits
  <1> QED BY <1>2, <1>3

(* The write handler counts the entries of a task.                         *)
LEMMA CountsEntries ==
    ASSUME BlockHandlers, BlockInd, NEW t \in Tasks
    PROVE  msgCount[t] = Cardinality(Awaits(t, "write"))
  <1> DEFINE q == pending["write"]
             S == AwaitedBy(Kernel, t)
             T == Awaits(t, "write")
             f == [v \in S |-> CHOOSE i \in T : q[i].key = v]
  <1>1. /\ TasksFit(Kernel) /\ Kernel.pending = pending
        /\ Kernel.msgCount = msgCount /\ "write" \in Handlers
    BY KernelIs DEF BlockInd, KInv, Handlers
  <1>2. NoneTwice(q) /\ msgCount[t] = Cardinality(S)
    BY <1>1 DEF TasksFit
  <1>3. IsFiniteSet(S)
    BY BlockFacts, FS_Subset DEF AwaitedBy
  <1>4. ASSUME NEW i \in T
        PROVE  i \in DOMAIN q /\ q[i].key \in S /\ q[i] = Await(q[i].key, t)
    <2>1. i \in DOMAIN q /\ q[i].task = t
      BY <1>4 DEF Awaits
    <2> QED BY <1>1, <2>1, AwaitsEntries DEF AwaitedBy
  <1>5. ASSUME NEW v \in S PROVE \E i \in T : q[i].key = v
    <2>1. v \in VAs /\ Pend(Kernel, "write", v, t)
      BY <1>5 DEF AwaitedBy
    <2>2. PICK i \in DOMAIN q : q[i] = Await(v, t)
      BY <1>1, <2>1 DEF Pend, OnList
    <2>3. q[i].task = t /\ q[i].key = v
      BY <2>2, EntryFacts
    <2> QED BY <2>2, <2>3 DEF Awaits
  <1>6. ASSUME NEW i \in T, NEW j \in T, q[i].key = q[j].key PROVE i = j
    BY <1>2, <1>4, <1>6 DEF NoneTwice
  <1> HIDE DEF S, T, q
  <1>7. \A v \in S : f[v] \in T /\ q[f[v]].key = v
    BY <1>5
  <1>8. f \in Bijection(S, T)
    <2>1. f \in [S -> T]
      BY <1>7
    <2> HIDE DEF f
    <2>2. \A i \in T : \E v \in S : f[v] = i
      BY <1>4, <1>6, <1>7
    <2>3. \A v, w \in S : f[v] = f[w] => v = w
      BY <1>7
    <2>4. f \in Surjection(S, T) /\ f \in Injection(S, T)
      BY <2>1, <2>2, <2>3 DEF Surjection, Injection, IsInjective
    <2> QED BY <2>4 DEF Bijection
  <1>9. Cardinality(T) = Cardinality(S)
    BY <1>3, <1>8, FS_Bijection DEF ExistsBijection
  <1> QED BY <1>2, <1>9 DEF T

(* What is on its way is one message.                                      *)
LEMMA OneInFlight ==
    ASSUME BlockHandlers, BlockInd, NEW h \in Handlers,
           NEW i \in DOMAIN pending[h]
    PROVE  Cardinality(InFlight(h, pending[h][i].key)) = 1
  <1> DEFINE v == pending[h][i].key
             Q == {n \in DOMAIN messages :
                      messages[n].handler = h /\ messages[n].key = v}
             D == {d \in Daemons : /\ serving[d] # NULL
                                   /\ serving[d].handler = h
                                   /\ serving[d].key = v}
  <1>1. /\ SentFits(Kernel, {}) /\ FlightsOnce(Kernel)
        /\ Kernel.messages = messages /\ Kernel.serving = serving
    BY KernelIs DEF BlockInd, KInv, MemoryFits
  <1>2. v \in VAs /\ \E t \in Waiters : Pend(Kernel, h, v, t)
    BY AwaitsEntries
  <1>3. InFlight(h, v) = Q \cup D
    BY DEF InFlight
  <1> HIDE DEF v
  <1>4. OnItsWay(Kernel, h, v)
    BY <1>1, <1>2 DEF SentFits
  <1>5. PICK m \in Messages : Flies(Kernel, m) /\ m.handler = h /\ m.key = v
    BY <1>4 DEF OnItsWay
  <1>6. \E x : Q \cup D = {x}
    <2>1. CASE serving[Daemon] = m
      <3>1. m # NULL
        BY BlockFacts
      <3>2. Q = {}
        BY <1>1, <1>5, <2>1, <3>1 DEF FlightsOnce
      <3>3. D = {Daemon}
        BY <1>5, <2>1, <3>1, BlockFacts
      <3> HIDE DEF Q, D
      <3> QED BY <3>2, <3>3
    <2>2. CASE OnList(messages, m)
      <3>1. PICK n \in DOMAIN messages : messages[n] = m
        BY <2>2 DEF OnList
      <3>2. Q = {n}
        BY <1>1, <1>5, <3>1 DEF FlightsOnce
      <3>3. D = {}
        BY <1>1, <1>5, <3>1, BlockFacts DEF FlightsOnce
      <3> HIDE DEF Q, D
      <3> QED BY <3>2, <3>3
    <2> QED BY <1>1, <1>5, <2>1, <2>2 DEF Flies
  <1> HIDE DEF Q, D
  <1>7. Cardinality(InFlight(h, v)) = 1
    BY <1>3, <1>6, FS_Singleton
  <1> QED BY <1>7 DEF v

(* A task is in one place.                                                 *)
LEMMA OnePlace ==
    ASSUME BlockHandlers, BlockInd, NEW t \in Tasks
    PROVE  LET W == {i \in DOMAIN waiting : waiting[i] = t} IN
           Cardinality(Awaits(t, "read")) + (IF msgCount[t] > 0 THEN 1 ELSE 0)
             + Cardinality(Places(t) \cup W)
             + (IF t \in ended THEN 1 ELSE 0) = 1
  <1> DEFINE k == Kernel
             W == {i \in DOMAIN waiting : waiting[i] = t}
             R == Awaits(t, "read")
  <1>1. /\ k \in KStates /\ TasksFit(k) /\ QueueFits(k)
        /\ Holds(k.sched, {}, Ready(k) \ {})
        /\ k.sched = sched /\ k.waiting = waiting /\ k.pending = pending
        /\ k.ended = ended /\ k.msgCount = msgCount
        /\ "read" \in Handlers /\ "write" \in Handlers
    BY KernelIs DEF BlockInd, KInv, MemoryFits, Handlers
  <1>2. /\ t \in Ready(k) => \E x : Places(t) = {x}
        /\ t \notin Ready(k) => Places(t) = {}
    BY <1>1, HeldPlaces
  <1>3. /\ msgCount[t] \in Nat /\ ended \subseteq Users
        /\ waiting \in Seq(Daemons)
    BY <1>1, KFields
  <1> HIDE DEF k
  <1>4. msgCount[t] = 0 <=> \A v \in VAs : ~Pend(k, "write", v, t)
    <2>1. Awaits(t, "write") = {} <=> \A v \in VAs : ~Pend(k, "write", v, t)
      BY <1>1, AwaitsSome DEF k
    <2>2. msgCount[t] = Cardinality(AwaitedBy(k, t))
      BY <1>1 DEF TasksFit
    <2>3. IsFiniteSet(AwaitedBy(k, t))
      BY BlockFacts, FS_Subset DEF AwaitedBy
    <2>4. msgCount[t] = 0 <=> AwaitedBy(k, t) = {}
      BY <2>2, <2>3, FS_EmptySet
    <2> QED BY <2>4 DEF AwaitedBy
  <1>5. R = {} <=> \A v \in VAs : ~Pend(k, "read", v, t)
    BY <1>1, AwaitsSome DEF k
  <1>6. W = {} <=> ~OnList(waiting, t)
    BY DEF OnList
  <1>7. OnList(waiting, t) => t = Daemon /\ W = {1}
    <2>1. waiting = << >> \/ waiting = <<Daemon>>
      BY <1>1 DEF QueueFits
    <2> QED BY <2>1, ListEmpty DEF OnList
  <1>8. Daemon \notin Users /\ NULL \notin Tasks
    BY BlockFacts
  <1>9. \A h \in Handlers : \A v \in VAs : Pend(k, h, v, t) =>
           t \in Users /\ t \notin ended /\ t # Daemon
    <2>1. \A h \in Handlers : \A v \in VAs : Pend(k, h, v, t) => t \in Waiters
      BY <1>1, OnLists
    <2> QED BY <1>1, <1>8, <2>1 DEF Waiters, TasksFit
  <1>10. R # {} => \E x : R = {x}
    <2> SUFFICES ASSUME NEW i \in R, NEW j \in R PROVE i = j
      OBVIOUS
    <2> DEFINE q == pending["read"]
    <2>1. /\ i \in DOMAIN q /\ q[i].task = t
          /\ j \in DOMAIN q /\ q[j].task = t
      BY DEF Awaits
    <2>2. /\ q[i].key \in VAs /\ Pend(k, "read", q[i].key, t)
          /\ q[i] = Await(q[i].key, t)
          /\ q[j].key \in VAs /\ Pend(k, "read", q[j].key, t)
          /\ q[j] = Await(q[j].key, t)
      BY <1>1, <2>1, AwaitsEntries DEF k
    <2> HIDE DEF q
    <2>3. t \in Users
      BY <1>1, <1>9, <2>2
    <2>4. q[i].key = q[j].key
      BY <1>1, <2>2, <2>3 DEF TasksFit
    <2>5. q[i] = q[j]
      BY <2>2, <2>4
    <2>6. NoneTwice(q)
      BY <1>1 DEF TasksFit, q
    <2> QED BY <2>1, <2>5, <2>6 DEF NoneTwice
  <1> DEFINE M == IF msgCount[t] > 0 THEN 1 ELSE 0
             P == Places(t) \cup W
             E == IF t \in ended THEN 1 ELSE 0
             Sum == Cardinality(R) + M + Cardinality(P) + E
  <1>11. /\ Cardinality({}) = 0
         /\ \A x : Cardinality({x}) = 1
    BY FS_EmptySet, FS_Singleton
  <1>12. ASSUME t \in Ready(k) PROVE Sum = 1
    <2>1. /\ t \notin ended /\ ~OnList(waiting, t)
          /\ \A h \in Handlers : \A v \in VAs : ~Pend(k, h, v, t)
      BY <1>1, <1>12 DEF Ready
    <2>2. R = {} /\ msgCount[t] = 0 /\ W = {}
      BY <1>1, <1>4, <1>5, <1>6, <2>1
    <2>3. PICK x : Places(t) = {x}
      BY <1>2, <1>12
    <2> HIDE DEF R, W
    <2>4. Places(t) \cup W = {x}
      BY <2>2, <2>3
    <2>5. M = 0 /\ E = 0
      BY <2>1, <2>2
    <2>6. Cardinality(R) = 0 /\ Cardinality(P) = 1
      BY <1>11, <2>2, <2>4
    <2> HIDE DEF M, E, P
    <2> QED BY <2>5, <2>6
  <1>13. ASSUME t \in ended PROVE Sum = 1
    <2>1. /\ \A h \in Handlers : \A v \in VAs : ~Pend(k, h, v, t)
          /\ ~OnList(waiting, t) /\ t \notin Ready(k)
      BY <1>1, <1>3, <1>7, <1>8, <1>9, <1>13 DEF Ready
    <2>2. R = {} /\ msgCount[t] = 0 /\ W = {} /\ Places(t) = {}
      BY <1>1, <1>2, <1>4, <1>5, <1>6, <2>1
    <2> HIDE DEF R, W
    <2>3. Places(t) \cup W = {}
      BY <2>2
    <2>4. M = 0 /\ E = 1
      BY <1>13, <2>2
    <2>5. Cardinality(R) = 0 /\ Cardinality(P) = 0
      BY <1>11, <2>2, <2>3
    <2> HIDE DEF M, E, P
    <2> QED BY <2>4, <2>5
  <1>14. ASSUME OnList(waiting, t) PROVE Sum = 1
    <2>1. /\ \A h \in Handlers : \A v \in VAs : ~Pend(k, h, v, t)
          /\ t \notin ended /\ t \notin Ready(k) /\ W = {1}
      BY <1>1, <1>3, <1>7, <1>8, <1>9, <1>14 DEF Ready
    <2>2. R = {} /\ msgCount[t] = 0 /\ Places(t) = {}
      BY <1>1, <1>2, <1>4, <1>5, <2>1
    <2> HIDE DEF R, W
    <2>3. Places(t) \cup W = {1}
      BY <2>1, <2>2
    <2>4. M = 0 /\ E = 0
      BY <2>1, <2>2
    <2>5. Cardinality(R) = 0 /\ Cardinality(P) = 1
      BY <1>11, <2>2, <2>3
    <2> HIDE DEF M, E, P
    <2> QED BY <2>4, <2>5
  <1>15. ASSUME \E v \in VAs : Pend(k, "read", v, t) PROVE Sum = 1
    <2>1. PICK v \in VAs : Pend(k, "read", v, t)
      BY <1>15
    <2>2. t \in Users /\ t \notin ended /\ t # Daemon
      BY <1>1, <1>9, <2>1
    <2>3. t \notin Ready(k) /\ ~OnList(waiting, t)
      BY <1>1, <1>7, <2>1, <2>2 DEF Ready
    <2>4. \A w \in VAs : ~Pend(k, "write", w, t)
      BY <1>1, <2>1, <2>2 DEF TasksFit
    <2>5. msgCount[t] = 0 /\ W = {} /\ Places(t) = {} /\ R # {}
      BY <1>2, <1>4, <1>5, <1>6, <2>1, <2>3, <2>4
    <2> HIDE DEF R, W
    <2>6. Places(t) \cup W = {} /\ Cardinality(R) = 1
      BY <1>10, <1>11, <2>5
    <2>7. M = 0 /\ E = 0
      BY <2>2, <2>5
    <2>8. Cardinality(R) = 1 /\ Cardinality(P) = 0
      BY <1>11, <2>6
    <2> HIDE DEF M, E, P
    <2> QED BY <2>7, <2>8
  <1>16. ASSUME \E v \in VAs : Pend(k, "write", v, t) PROVE Sum = 1
    <2>1. PICK v \in VAs : Pend(k, "write", v, t)
      BY <1>16
    <2>2. t \in Users /\ t \notin ended /\ t # Daemon
      BY <1>1, <1>9, <2>1
    <2>3. t \notin Ready(k) /\ ~OnList(waiting, t)
      BY <1>1, <1>7, <2>1, <2>2 DEF Ready
    <2>4. \A w \in VAs : ~Pend(k, "read", w, t)
      BY <1>1, <2>1, <2>2 DEF TasksFit
    <2>5. msgCount[t] # 0 /\ W = {} /\ Places(t) = {} /\ R = {}
      BY <1>2, <1>4, <1>5, <1>6, <2>1, <2>3, <2>4
    <2> HIDE DEF R, W
    <2>6. Places(t) \cup W = {}
      BY <2>5
    <2>7. M = 1 /\ E = 0
      BY <1>3, <2>2, <2>5
    <2>8. Cardinality(R) = 0 /\ Cardinality(P) = 0
      BY <1>11, <2>5, <2>6
    <2> HIDE DEF M, E, P
    <2> QED BY <2>7, <2>8
  <1>17. \/ t \in Ready(k) \/ t \in ended \/ OnList(waiting, t)
         \/ \E v \in VAs : Pend(k, "read", v, t)
         \/ \E v \in VAs : Pend(k, "write", v, t)
    BY <1>1 DEF Ready, Handlers
  <1>18. Sum = 1
    <2> HIDE DEF Sum
    <2> QED BY <1>12, <1>13, <1>14, <1>15, <1>16, <1>17
  <1> QED BY <1>18

(* Everybody who waits is owed an answer.                                  *)
LEMMA AreOwed ==
    ASSUME BlockHandlers, BlockInd PROVE WaitersAreOwed
  <1>1. DOMAIN pending = Handlers
    BY KFields, KernelIs DEF BlockInd, KInv
  <1> QED BY <1>1, CountsEntries, OnePlace, OneInFlight DEF WaitersAreOwed

-----------------------------------------------------------------------------
(* The theorems: with the handlers of Block and one daemon, which writes   *)
(* without errors.                                                         *)

(* The invariant holds in all states.                                      *)
THEOREM BlockInvariant ==
    ASSUME BlockHandlers PROVE Spec => []BlockInd
  <1>1. Init => BlockInd
    BY BlockStart
  <1>2. BlockInd /\ [Next]_vars => BlockInd'
    BY BlockStep
  <1> QED BY <1>1, <1>2, PTL DEF Spec

(* What was stored is never lost, and what is mapped is never stale:       *)
(* whatever faults, evictions, releases, flushes, reads, writes and        *)
(* changes of permissions happen in between.                               *)
THEOREM BlockMemoryIsCoherent ==
    ASSUME BlockHandlers PROVE Spec => []MemoryIsCoherent
  <1>1. BlockInd => MemoryIsCoherent
    BY IsCoherent
  <1> QED BY <1>1, BlockInvariant, PTL

(* No physical page is lost or in two places, and a page that is being     *)
(* written has a message on its way.                                       *)
THEOREM BlockPagesInOnePlace ==
    ASSUME BlockHandlers PROVE Spec => []PagesInOnePlace
  <1>1. BlockInd => PagesInOnePlace
    BY InOnePlace
  <1> QED BY <1>1, BlockInvariant, PTL

(* No task is lost: it is scheduled once, or waits for messages that are   *)
(* on their way, or has ended.                                             *)
THEOREM BlockWaitersAreOwed ==
    ASSUME BlockHandlers PROVE Spec => []WaitersAreOwed
  <1>1. BlockInd => WaitersAreOwed
    BY AreOwed
  <1> QED BY <1>1, BlockInvariant, PTL
=============================================================================
