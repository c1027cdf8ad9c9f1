------------------------------- MODULE Block -------------------------------
(***************************************************************************)
(* Demand paging: the blocks of the base segment (src/src/kernel/block.C)  *)
(* with their read and write message handlers (blockmsghdlr.C), the hash   *)
(* page table they feed (ptmgr.C), the entries into them through           *)
(* VmmManager and the system calls, and a daemon that reads and writes     *)
(* pages.  Everything the kernel does here happens under VmmManager::lock, *)
(* so a kernel entry is one step; tasks on other CPUs meanwhile use what   *)
(* the page table maps.                                                    *)
(*                                                                         *)
(* The contents of a page are abstracted to whether it is the latest:      *)
(* latest[va] is the set of places (physical pages, or the device or zero  *)
(* page behind va) that hold what was last stored at va.                   *)
(***************************************************************************)
EXTENDS MessageHandler

CONSTANTS LastVA,      \* the number of virtual pages
          Backed,      \* those of the block with handlers; the others are in
                       \* a block without (mmAllocBlock with no queue)
          Pages,       \* the physical pages for them
          Slots,       \* hash page table entries for them
          Grants,      \* the access types mm_set_permission asks for
          Errors,      \* the messages a daemon may answer with an error
          Device       \* what is behind a virtual page

Users == Tasks \ Daemons

(* The virtual pages, in the order castOutPages comes to them.             *)
VAs == 1..LastVA

Flags == {"READ_ONLY", "WRITABLE", "WRITE_TRACKED", "ALLOCATE_FROM_ZERO",
          "NO_ACCESS"}

ASSUME BlockAssumption ==
    /\ LastVA \in Nat \ {0} /\ Backed \subseteq VAs
    /\ Slots \in Nat \ {0}
    /\ IsFiniteSet(Pages) /\ Device \notin Pages /\ NULL \notin Pages
    /\ NULL \notin [va : VAs, store : BOOLEAN]
                  \cup [page : Pages, writable : BOOLEAN]
                  \cup [handler : {"read", "write"}, key : VAs, data : Pages,
                        done : BOOLEAN]
    /\ DOMAIN Grants = VAs
    /\ \A va \in VAs : Grants[va] \subseteq SUBSET Flags
    /\ Errors \subseteq {"read", "write"}

VARIABLES spte,        \* the ShadowPTE of each virtual page
          hpte,        \* its entry in the hash page table, or NULL
          avail,       \* the pages the page manager has
          messages, waiting, serving, pending, ended,
          va2pa,       \* BlockWriteMsgHdlr::iv_va2paList, newest first
          msgCount,    \* BlockWriteMsgHdlr::iv_msgGrpList
          latest,      \* where the latest contents are
          fault,       \* the access that faulted on a CPU, or NULL
          panic        \* why the kernel stopped, or "no"

vars == <<sched, spte, hpte, avail, messages, waiting, serving, pending,
          ended, va2pa, msgCount, latest, fault, panic>>

(* The kernel state as one value, for operations made of others.           *)
Kernel ==
    [sched |-> sched, spte |-> spte, hpte |-> hpte, avail |-> avail,
     messages |-> messages, waiting |-> waiting, serving |-> serving,
     pending |-> pending, ended |-> ended, va2pa |-> va2pa,
     msgCount |-> msgCount, latest |-> latest, panic |-> panic]

Becomes(k) ==
    /\ sched' = k.sched       /\ spte' = k.spte       /\ hpte' = k.hpte
    /\ avail' = k.avail       /\ messages' = k.messages
    /\ waiting' = k.waiting   /\ serving' = k.serving
    /\ pending' = k.pending   /\ ended' = k.ended     /\ va2pa' = k.va2pa
    /\ msgCount' = k.msgCount /\ latest' = k.latest   /\ panic' = k.panic

-----------------------------------------------------------------------------
(* Contents.                                                               *)

(* What is at from of va is copied to the place to: elsewhere, whatever to *)
(* was a copy of is gone (a device page is of one virtual page only).      *)
Copied(where, va, from, to) ==
    [v \in VAs |->
        IF v = va
        THEN IF from \in where[va] THEN where[va] \cup {to}
                                   ELSE where[va] \ {to}
        ELSE IF to = Device THEN where[v] ELSE where[v] \ {to}]

(* A store through va to page p.                                           *)
Stored(where, va, p) ==
    [v \in VAs |-> IF v = va THEN {p} ELSE where[v] \ {p}]

freePage(k, p) ==
    [k EXCEPT !.avail = @ \cup {p},
              !.latest = [v \in VAs |-> @[v] \ {p}]]

-----------------------------------------------------------------------------
(* The hash page table.                                                    *)

delEntry(k, va) == [k EXCEPT !.hpte[va] = NULL]

Mapped(k) == {va \in VAs : k.hpte[va] # NULL}

(* The entries addEntry may have to steal from: any, by their age.         *)
Victims(k, va) ==
    IF k.hpte[va] = NULL /\ Cardinality(Mapped(k)) >= Slots
    THEN Mapped(k) ELSE {va}

(* Writable, or else read-only or executable.                              *)
Access(e) == "W" \in e.perm /\ e.dirty

(* The page of va's shadow entry is mapped, in a slot of its own or in the *)
(* one of the victim.                                                      *)
addEntry(k, va, victim) ==
    LET e == k.spte[va] IN
    IF k.hpte[va] # NULL /\ k.hpte[va].page # e.page
    THEN [k EXCEPT !.panic = "duplicate PTE"]
    ELSE [delEntry(k, victim) EXCEPT
             !.hpte[va] = [page |-> e.page, writable |-> Access(e)]]

-----------------------------------------------------------------------------
(* Permissions: R readable, W writable, T write tracked, Z allocate from   *)
(* zero.  Executable pages behave as read-only ones here.                  *)

(* The bits after setPermSPTE, which sets them one by one and may fail on  *)
(* the way.                                                                *)
setPermSPTE(perm, a, va) ==
    LET both  == "READ_ONLY" \in a /\ a \ {"READ_ONLY", "NO_ACCESS"} # {}
        basic == CASE "READ_ONLY" \in a -> {"R"}
                   [] "READ_ONLY" \notin a /\ "WRITABLE" \in a -> {"R", "W"}
                   [] OTHER -> perm \cap {"R", "W"}
        badT  == "WRITE_TRACKED" \in a /\ (basic = {"R"} \/ va \notin Backed)
        tail  == basic \cup (IF "WRITE_TRACKED" \in a THEN {"T"} ELSE {})
        badZ  == "ALLOCATE_FROM_ZERO" \in a /\ basic = {"R"}
    IN  CASE both -> perm
          [] ~both /\ badT -> basic \cup (perm \cap {"T", "Z"})
          [] ~both /\ ~badT /\ badZ -> tail \cup (perm \cap {"Z"})
          [] ~both /\ ~badT /\ ~badZ ->
                IF "NO_ACCESS" \in a THEN {}
                ELSE tail \cup (IF "ALLOCATE_FROM_ZERO" \in a THEN {"Z"}
                                                              ELSE {})

mmSetPermission(k, va, a) ==
    [IF k.spte[va].present THEN delEntry(k, va) ELSE k EXCEPT
        !.spte[va].perm = setPermSPTE(@, a, va)]

-----------------------------------------------------------------------------
(* Page faults.                                                            *)

endTask(k, c, t) ==
    [k EXCEPT !.ended = @ \cup {t},
              !.sched = IF @.current[c] = t THEN setNextRunnable(@, c) ELSE @]

(* Mutant: a fault always takes a new page.                                *)
FramesNew(k, va) == IF k.avail # {} THEN k.avail ELSE {NULL}

(* The pages a fault may get: its own, or any free one (NULL if none is).  *)
Frames(k, va) ==
    CASE k.spte[va].page # NULL -> {k.spte[va].page}
      [] k.spte[va].page = NULL /\ k.avail # {} -> k.avail
      [] OTHER -> {NULL}

(* Block::handlePageFault for task t, with frame p if it needs one; a      *)
(* fault it does not handle ends the task, and one it has no frame for     *)
(* stops the kernel (VmmManager::_pteMiss).                                *)
handlePageFault(k, c, t, va, store, p, victim) ==
    LET e     == k.spte[va]
        k1    == IF store THEN [k EXCEPT !.spte[va].dirty = TRUE] ELSE k
        got   == [k1 EXCEPT !.avail = @ \ {p}, !.spte[va].page = p]
        needs == ~e.present /\ (va \in Backed \/ "Z" \in e.perm)
    IN  CASE e.perm = {} \/ (store /\ "W" \notin e.perm) -> endTask(k, c, t)
          [] OTHER ->
             CASE e.present -> addEntry(k1, va, victim)
               [] needs /\ p = NULL -> [k1 EXCEPT !.panic = "out of memory"]
               [] needs /\ p # NULL /\ va \in Backed ->
                     sendMessage(got, c, "read", va, p, t)
               [] needs /\ p # NULL /\ va \notin Backed ->
                     addEntry([got EXCEPT
                                 !.spte[va].present = TRUE,
                                 !.latest = Copied(@, va, Device, p)],
                              va, victim)
               [] OTHER -> endTask(k1, c, t)

(* The page a read message was sent for has its contents.                  *)
attachSPTE(k, va, victim) ==
    addEntry([k EXCEPT !.spte[va].present = TRUE], va, victim)

-----------------------------------------------------------------------------
(* Page removal.                                                           *)

releaseSPTE(k, va) ==
    [k EXCEPT !.spte[va].dirty = FALSE, !.spte[va].present = FALSE,
              !.spte[va].page = NULL]

(* One more message is sent for task t.                                    *)
incMsgCount(count, t) == [count EXCEPT ![t] = @ + 1]

(* One page of removePages for task t (NULL: the kernel).  What was stored *)
(* in a page that is not tracked is given up when the page is released.    *)
removePage(k, c, op, va, t) ==
    LET e       == k.spte[va]
        k1      == delEntry(k, va)
        tracked == "T" \in e.perm /\ va \in Backed
        sending == [releaseSPTE(k1, va) EXCEPT
                       !.va2pa = <<[key |-> va, page |-> e.page]>> \o @,
                       !.msgCount = IF t = NULL THEN @ ELSE incMsgCount(@, t)]
        given   == IF e.dirty /\ op = "RELEASE"
                   THEN [k1 EXCEPT !.latest[va] = {Device}] ELSE k1
    IN  CASE ~e.present \/ e.page = NULL -> k
          [] OTHER ->
             CASE e.dirty /\ tracked ->
                     sendMessage(sending, c, "write", va, e.page, t)
               [] e.dirty /\ "T" \notin e.perm /\ op = "EVICT" -> k1
               [] ~(e.dirty /\ tracked) /\ op = "FLUSH" -> k1
               [] OTHER -> freePage(releaseSPTE(given, va), e.page)

removePages(k, c, op, range, t) ==
    LET done[n \in 0..LastVA] ==
            IF n = 0 THEN k
            ELSE IF n \in range THEN removePage(done[n - 1], c, op, n, t)
            ELSE done[n - 1]
    IN  done[LastVA]

(* What castOutPages may evict, if it was not used for long enough.        *)
Evictable(k) ==
    {va \in VAs : /\ k.spte[va].present /\ k.spte[va].page # NULL
                  /\ "W" \in k.spte[va].perm => "T" \in k.spte[va].perm}

-----------------------------------------------------------------------------
(* Responses of the daemon.                                                *)

(* Mutant: the first response releases the task.                           *)
LastMessageAny(k, t) == TRUE

(* The message is the last of those sent for task t.                       *)
LastMessage(k, t) == k.msgCount[t] = 1

(* A written page is free again; a task goes on once all of its pages are. *)
BlockWriteResponse(k, m, t, rc) ==
    LET found == ForKey(k.va2pa, m.key) # {}
        n     == find(k.va2pa, m.key)
        freed == IF found
                 THEN freePage([k EXCEPT !.va2pa = erase(@, n)],
                               k.va2pa[n].page)
                 ELSE k
        none  == IF found THEN "SUCCESS" ELSE "UNHANDLED_RC"
    IN  CASE rc # 0 -> [k |-> k, result |-> "UNHANDLED_RC"]
          [] rc = 0 /\ (t = NULL \/ k.msgCount[t] = 0) ->
                [k |-> freed, result |-> none]
          [] rc = 0 /\ t # NULL /\ k.msgCount[t] # 0 ->
                IF LastMessage(k, t)
                THEN [k |-> [freed EXCEPT !.msgCount[t] = 0],
                      result |-> "SUCCESS"]
                ELSE [k |-> [freed EXCEPT !.msgCount[t] = @ - 1],
                      result |-> "CONTINUE_DEFER"]

(* handleResponse for blocks, by the handler the message came from: the    *)
(* value of that constant of MessageHandler.                               *)
handleBlockResponse(k, m, t, rc, victim) ==
    CASE m.handler = "read" /\ rc = 0 ->
            [k |-> attachSPTE(k, m.key, victim), result |-> "SUCCESS"]
      [] m.handler = "read" /\ rc # 0 ->
            [k |-> k, result |-> "UNHANDLED_RC"]
      [] m.handler = "write" -> BlockWriteResponse(k, m, t, rc)

-----------------------------------------------------------------------------
(* What a task does.                                                       *)

(* User task t runs on c with no fault of its own to be handled.           *)
Runs(c, t) ==
    /\ panic = "no"
    /\ sched.current[c] = t /\ fault[c] = NULL

(* A store the page table allows.  (A load it allows changes nothing.)     *)
Store(c, va) ==
    /\ \E t \in Users : Runs(c, t)
    /\ hpte[va] # NULL /\ hpte[va].writable
    /\ latest' = Stored(latest, va, hpte[va].page)
    /\ UNCHANGED <<sched, spte, hpte, avail, messages, waiting, serving,
                   pending, ended, va2pa, msgCount, fault, panic>>

(* An access it does not: the CPU takes an exception.                      *)
Miss(c, va, store) ==
    /\ \E t \in Users : Runs(c, t)
    /\ hpte[va] # NULL => store /\ ~hpte[va].writable
    /\ fault' = [fault EXCEPT ![c] = [va |-> va, store |-> store]]
    /\ UNCHANGED <<sched, spte, hpte, avail, messages, waiting, serving,
                   pending, ended, va2pa, msgCount, latest, panic>>

(* The handler of that exception, which looks at everything afresh.        *)
kernel_execute_data_storage(c) ==
    LET va == fault[c].va  t == sched.current[c] IN
    /\ panic = "no"
    /\ fault[c] # NULL
    /\ \E p \in Frames(Kernel, va), victim \in Victims(Kernel, va) :
          Becomes(handlePageFault(Kernel, c, t, va, fault[c].store,
                                  p, victim))
    /\ fault' = [fault EXCEPT ![c] = NULL]

(* mm_remove_pages for a range in one block.                               *)
MmRemovePages(c, op, lo, hi) ==
    \E t \in Users :
        /\ Runs(c, t)
        /\ lo..hi \subseteq Backed \/ lo..hi \subseteq VAs \ Backed
        /\ Becomes(removePages(Kernel, c, op, lo..hi, t))
        /\ UNCHANGED fault

MmSetPermission(c, va, a) ==
    /\ \E t \in Users : Runs(c, t)
    /\ Becomes(mmSetPermission(Kernel, va, a))
    /\ UNCHANGED fault

-----------------------------------------------------------------------------
(* The daemon: wait, move the page, respond.                               *)

DaemonWait(c) ==
    \E d \in Daemons :
        /\ Runs(c, d)
        /\ serving[d] = NULL
        /\ Becomes(MsgWait(Kernel, c))
        /\ UNCHANGED fault

DaemonMove(c) ==
    \E d \in Daemons :
        LET m == serving[d] IN
        /\ Runs(c, d)
        /\ m # NULL /\ ~m.done
        /\ latest' = IF m.handler = "read"
                     THEN Copied(latest, m.key, Device, m.data)
                     ELSE Copied(latest, m.key, m.data, Device)
        /\ serving' = [serving EXCEPT ![d].done = TRUE]
        /\ UNCHANGED <<sched, spte, hpte, avail, messages, waiting, pending,
                       ended, va2pa, msgCount, fault, panic>>

DaemonRespond(c, rc) ==
    \E d \in Daemons :
        LET m == serving[d] IN
        /\ Runs(c, d)
        /\ m # NULL
        /\ IF rc = 0 THEN m.done ELSE ~m.done /\ m.handler \in Errors
        /\ \E victim \in IF m.handler = "read" THEN Victims(Kernel, m.key)
                                               ELSE {m.key} :
              Becomes(MsgRespond(Kernel, c, rc, victim))
        /\ UNCHANGED fault

DaemonStep(c) ==
    DaemonWait(c) \/ DaemonMove(c) \/ \E rc \in {0, 1} : DaemonRespond(c, rc)

-----------------------------------------------------------------------------
(* What executePeriodics may cast out: it does on the master only, when    *)
(* memory is low.                                                          *)
CastOuts(c) == IF c = Master THEN Evictable(Kernel) ELSE {}

(* The end of a time slice.  Some of CastOuts(c) may be cast out first,    *)
(* and then a daemon may have got the CPU.                                 *)
Decrementer(c, out) ==
    LET k == removePages(Kernel, c, "EVICT", out, NULL) IN
    /\ panic = "no" /\ fault[c] = NULL
    /\ Becomes(IF k.sched.current[c] = sched.current[c]
               THEN [k EXCEPT !.sched =
                        setNextRunnable(returnRunnable(@, c), c)]
               ELSE k)
    /\ UNCHANGED fault

(* task_yield: the periodics come last here, with the next task current.   *)
TaskYields(c, out) ==
    /\ panic = "no" /\ fault[c] = NULL
    /\ sched.current[c] # Idle
    /\ Becomes(removePages([Kernel EXCEPT !.sched =
                               setNextRunnable(returnRunnable(@, c), c)],
                           c, "EVICT", out, NULL))
    /\ UNCHANGED fault

(* mm_alloc_pages by the task on any CPU when memory is low (what it gets  *)
(* is not one of Pages), and the periodics of cpu_nap on an idle master.   *)
CastOut(c, out) ==
    /\ panic = "no" /\ fault[c] = NULL
    /\ sched.current[c] = Idle => c = Master
    /\ Becomes(removePages(Kernel, c, "EVICT", out, NULL))
    /\ UNCHANGED fault

Halted == panic # "no" /\ UNCHANGED vars

-----------------------------------------------------------------------------
Init ==
    /\ SchedulerInit
    /\ spte \in [VAs -> [page : {NULL}, present : {FALSE}, dirty : {FALSE},
                         perm : SUBSET {"R", "W", "T", "Z"}]]
    /\ \A va \in VAs : \E a \in Grants[va] :
          spte[va].perm = setPermSPTE({}, a, va)
    /\ hpte = [va \in VAs |-> NULL]
    /\ avail = Pages
    /\ messages = << >> /\ waiting = << >>
    /\ serving = [d \in Daemons |-> NULL]
    /\ pending = [h \in {"read", "write"} |-> << >>]
    /\ ended = {}
    /\ va2pa = << >>
    /\ msgCount = [t \in Tasks |-> 0]
    /\ latest = [va \in VAs |-> {Device}]
    /\ fault = [c \in Cpus |-> NULL]
    /\ panic = "no"

Next ==
    \/ \E c \in Cpus :
          \/ DaemonStep(c)
          \/ \E out \in SUBSET CastOuts(c) : Decrementer(c, out)
                                              \/ TaskYields(c, out)
          \/ \E out \in SUBSET Evictable(Kernel) : CastOut(c, out)
          \/ kernel_execute_data_storage(c)
          \/ \E va \in VAs :
                \/ Store(c, va)
                \/ \E store \in BOOLEAN : Miss(c, va, store)
                \/ \E a \in Grants[va] : MmSetPermission(c, va, a)
          \/ \E lo \in VAs, op \in {"RELEASE", "FLUSH"} :
                \E hi \in {v \in VAs : v >= lo} : MmRemovePages(c, op, lo, hi)
    \/ Halted

(* Interrupts keep coming, exceptions are handled, and a daemon that gets  *)
(* to run again and again gets its next step done in one of its slices.    *)
Fairness ==
    /\ \A c \in Cpus : SF_vars(Decrementer(c, {}))
                       /\ WF_vars(kernel_execute_data_storage(c))
    /\ \A d \in Daemons :
          SF_vars(\E c \in Cpus : Running(c, d) /\ DaemonStep(c))

Spec == Init /\ [][Next]_vars /\ Fairness

-----------------------------------------------------------------------------
(* The values of the page tables, the handlers' lists and the faults.      *)
BlockTypeOK ==
    /\ spte \in [VAs -> [page : Pages \cup {NULL}, present : BOOLEAN,
                         dirty : BOOLEAN, perm : SUBSET {"R", "W", "T", "Z"}]]
    /\ hpte \in [VAs -> [page : Pages, writable : BOOLEAN] \cup {NULL}]
    /\ avail \subseteq Pages
    /\ \A va \in VAs : latest[va] \subseteq Pages \cup {Device}
    /\ \A i \in DOMAIN waiting : waiting[i] \in Daemons
    /\ ended \subseteq Tasks
    /\ \A i \in DOMAIN va2pa : va2pa[i] \in [key : VAs, page : Pages]
    /\ msgCount \in [Tasks -> 0..LastVA]
    /\ fault \in [Cpus -> [va : VAs, store : BOOLEAN] \cup {NULL}]
    /\ panic \in {"no", "out of memory", "duplicate PTE"}

(* What was last stored at a virtual page is never lost, and whatever the  *)
(* page table maps is it: a page in use agrees with its shadow entry, has  *)
(* the latest contents, and is only writable once it is known to be dirty. *)
MemoryIsCoherent ==
    /\ panic # "duplicate PTE"
    /\ \A va \in VAs :
          /\ latest[va] # {}
          /\ hpte[va] # NULL =>
                /\ spte[va].present /\ spte[va].page = hpte[va].page
                /\ hpte[va].page \in latest[va]
                /\ hpte[va].writable =>
                      spte[va].dirty /\ "W" \in spte[va].perm

(* Every physical page is in exactly one place: free, of one shadow entry, *)
(* or on its way to the device; and what is on its way has a message.      *)
PagesInOnePlace ==
    /\ \A p \in Pages :
          Cardinality({<<"spte", va>> : va \in {v \in VAs : spte[v].page = p}}
                      \cup {<<"va2pa", i>> : i \in {j \in DOMAIN va2pa :
                                                       va2pa[j].page = p}}
                      \cup (IF p \in avail THEN {<<"avail", 0>>} ELSE {})) = 1
    /\ \A i \in DOMAIN va2pa : Sent(Kernel, "write", va2pa[i].key)

(* The pending entries of handler h that are for task t.                   *)
Awaits(t, h) == {i \in DOMAIN pending[h] : pending[h][i].task = t}

(* The messages for a key that are on their way to or with a daemon.       *)
InFlight(h, key) ==
    {i \in DOMAIN messages : messages[i].handler = h /\ messages[i].key = key}
      \cup {d \in Daemons : /\ serving[d] # NULL
                            /\ serving[d].handler = h /\ serving[d].key = key}

(* A task is scheduled in exactly one place, or waits: as many messages as *)
(* the write handler counts for it, or one read.  And what a task waits    *)
(* for is in the hands of exactly one message.                             *)
WaitersAreOwed ==
    /\ \A t \in Tasks :
          /\ msgCount[t] = Cardinality(Awaits(t, "write"))
          /\ Cardinality(Awaits(t, "read")) + (IF msgCount[t] > 0 THEN 1 ELSE 0)
               + Cardinality(Places(t) \cup {i \in DOMAIN waiting :
                                               waiting[i] = t})
               + (IF t \in ended THEN 1 ELSE 0) = 1
    /\ \A h \in DOMAIN pending : \A i \in DOMAIN pending[h] :
          Cardinality(InFlight(h, pending[h][i].key)) = 1

(* "FLUSH: Only writes dirty&write-tracked pages out to a storage device": *)
(* a task that is not kept waiting by its flush finds no write of those    *)
(* pages under way.  The code does not look at writes that others started. *)
FlushIsComplete ==
    [][\A c \in Cpus, lo \in VAs, hi \in VAs :
          /\ MmRemovePages(c, "FLUSH", lo, hi)
          /\ msgCount'[sched.current[c]] = 0
          => \A i \in DOMAIN pending'["write"] :
                pending'["write"][i].key \notin lo..hi]_vars

(* A page without access is not mapped.  attachSPTE does not look at the   *)
(* permissions that were set while its page was read.                      *)
NoAccessIsEnforced ==
    \A va \in VAs : hpte[va] # NULL => spte[va].perm # {}

(* Every page fault and every removal of pages comes to an end, though the *)
(* daemon is preempted and pages are cast out all the while.               *)
WaitsEnd ==
    \A t \in Users :
        (\E h \in {"read", "write"} : Awaits(t, h) # {})
            ~> (panic # "no" \/ \A h \in {"read", "write"} : Awaits(t, h) = {})
=============================================================================
