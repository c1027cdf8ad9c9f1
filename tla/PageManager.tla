---------------------------- MODULE PageManager ----------------------------
(***************************************************************************)
(* The page manager (src/src/kernel/pagemgr.C): a binary buddy allocator   *)
(* whose free blocks of 2^b pages are on the lock-free stack of bucket b.  *)
(* It keeps two heaps, "main" for everybody and "kernel", a reserve the    *)
(* kernel falls back to.  Allocation from the main heap is serialised by   *)
(* iv_lock; freeing, topping up the reserve and coalescing are not.        *)
(*                                                                         *)
(* A process is a CPU in the kernel, or a task whose allocation has failed *)
(* and which coalesces from user mode while it retries (allocatePage).     *)
(***************************************************************************)
EXTENDS LockfreeStack

CONSTANTS Buckets,              \* PageManagerCore::BUCKETS (16)
          Retries,              \* pops per allocation (6)
          Reserved,             \* KERNEL_HEAP_RESERVED_PAGES (10)
          MainRange,            \* <<first page, pages>> of the memory at start
          LateRange,            \* memory that is added later
          Requests,             \* the page counts asked for
          Width,                \* 2^64, where size_t wraps
          MaxCalls              \* bound: calls followed

VARIABLES iv_lock,              \* the owners of PageManager::iv_lock
          iv_available,         \* PageManagerCore::iv_available, per heap
          iv_pagesAvail,        \* PageManager::iv_pagesAvail
          iv_ranges,            \* PageManagerCore::iv_ranges of the main heap
          grants,               \* the <<page, pages>> in use by callers
          job,                  \* the locals of each process
          calls                 \* the number of calls so far

counts == <<iv_available, iv_pagesAvail>>
pmvars == <<iv_lock, iv_available, iv_pagesAvail, iv_ranges, grants, job, calls>>
vars == <<svars, pmvars>>

Ranges == {MainRange, LateRange}

Heaps == {"main", "kernel"}

PagesOf(first, n) == first .. (first + n - 1)

ASSUME PageAssumption ==
    /\ Nodes = UNION {PagesOf(r[1], r[2]) : r \in Ranges}
    /\ Stacks = Heaps \X (0 .. Buckets - 1)
    /\ \A r \in Ranges : r[1] > 0 /\ r[2] < 2^Buckets
    /\ Reserved > 0
    /\ \E b \in 0 .. Buckets - 1 : Reserved <= 2^b /\ 2^b <= MainRange[2]
    /\ \A n \in Requests : n \in 1 .. 2^(Buckets - 1)
    /\ Cardinality(Nodes) < Width

NoJob == [kind |-> "none", heap |-> "main", n |-> 0, want |-> 0, tries |-> 0,
          block |-> NULL, pages |-> 0, size |-> 0, todo |-> << >>, pq |-> {},
          found |-> "idle", freed |-> "idle"]

IvLock == INSTANCE AbstractLock WITH Users <- Procs, owners <- iv_lock

Set(p, j) == job' = [job EXCEPT ![p] = j]

Done(p) == Onward(p, "idle") /\ Set(p, NoJob)

Plus(x, y) == (x + y) % Width
Minus(x, y) == (x + Width - y) % Width

(* The bucket that holds blocks of at least n pages.                       *)
BucketFor(n) == CHOOSE b \in 0 .. Buckets - 1 :
                    n <= 2^b /\ \A c \in 0 .. Buckets - 1 : n <= 2^c => b <= c

(* n pages cut into blocks of 2^b pages, one for each bit of n, the        *)
(* largest first; the largest is in front, or at the end when the pages    *)
(* are the spare ones behind an allocation, so that each is aligned.       *)
Pieces(first, n, overAllocated) ==
    LET bits == SelectSeq([i \in 1 .. Buckets |-> Buckets - i],
                          LAMBDA b : (n \div 2^b) % 2 = 1)
    IN [i \in DOMAIN bits |->
          <<first + IF overAllocated THEN n % 2^bits[i]
                    ELSE (n \div 2^(bits[i] + 1)) * 2^(bits[i] + 1),
            bits[i]>>]

-----------------------------------------------------------------------------
(* PageManagerCore::allocatePage and pop_bucket                            *)

(* n pages from a heap, then on at label l with the block or NULL          *)
allocatePage(p, heap, n, l) ==
    /\ Set(p, [job[p] EXCEPT !.heap = heap, !.pages = n, !.want = BucketFor(n),
                             !.tries = 1, !.found = l])
    /\ CallPop(p, <<heap, BucketFor(n)>>, "popped")

(* A block of bucket b is in hand: cut off its upper half until it has the *)
(* size wanted.                                                            *)
Split(p, x, b) ==
    IF b = job[p].want
    THEN /\ Set(p, [job[p] EXCEPT !.block = x, !.size = 2^b])
         /\ Onward(p, "take")
    ELSE /\ Set(p, [job[p] EXCEPT !.block = x, !.size = 2^(b - 1)])
         /\ CallPush(p, <<job[p].heap, b - 1>>, x + 2^(b - 1), "split")

(* pop_bucket goes up the buckets; allocatePage starts over a few times.   *)
Popped(p) ==
    LET b == at[p][2]  j == job[p]
    IN /\ pc[p] = "popped"
       /\ \/ node[p] # NULL /\ Split(p, node[p], b)
          \/ /\ node[p] = NULL /\ b + 1 < Buckets
             /\ CallPop(p, <<j.heap, b + 1>>, "popped")
             /\ UNCHANGED job
          \/ /\ node[p] = NULL /\ b + 1 = Buckets /\ j.tries < Retries
             /\ Set(p, [j EXCEPT !.tries = @ + 1])
             /\ CallPop(p, <<j.heap, j.want>>, "popped")
          \/ /\ node[p] = NULL /\ b + 1 = Buckets /\ j.tries = Retries
             /\ Onward(p, j.found)
             /\ UNCHANGED job
       /\ UNCHANGED <<next, iv_lock, counts, iv_ranges, grants>>

SplitDone(p) ==
    /\ pc[p] = "split"
    /\ Split(p, job[p].block, at[p][2])
    /\ UNCHANGED <<next, iv_lock, counts, iv_ranges, grants>>

(* freePage pushes one piece after the other, then goes on at label l.     *)
freePage(p, j, todo, l) ==
    /\ Set(p, [j EXCEPT !.todo = todo, !.freed = l])
    /\ IF todo = << >> THEN Onward(p, l)
       ELSE CallPush(p, <<j.heap, todo[1][2]>>, todo[1][1], "freed")

(* Mutant: the pages beyond n are forgotten.                               *)
TakeAll(p) ==
    LET j == job[p]
    IN /\ pc[p] = "take"
       /\ iv_available' = [iv_available EXCEPT ![j.heap] = Minus(@, j.size)]
       /\ freePage(p, [j EXCEPT !.size = j.pages], << >>, j.found)
       /\ UNCHANGED <<next, iv_lock, iv_pagesAvail, iv_ranges, grants>>

(* Mutant: only the pages asked for are counted as taken.                  *)
TakeCountsRequest(p) ==
    LET j == job[p]
    IN /\ pc[p] = "take"
       /\ iv_available' = [iv_available EXCEPT ![j.heap] = Minus(@, j.pages)]
       /\ freePage(p, [j EXCEPT !.size = j.pages],
                   Pieces(j.block + j.pages, j.size - j.pages, TRUE), j.found)
       /\ UNCHANGED <<next, iv_lock, iv_pagesAvail, iv_ranges, grants>>

(* The statistics of allocatePage, and the return of the pages beyond n.   *)
Take(p) ==
    LET j == job[p]
    IN /\ pc[p] = "take"
       /\ iv_available' = [iv_available EXCEPT ![j.heap] = Minus(@, j.size)]
       /\ freePage(p, [j EXCEPT !.size = j.pages],
                   Pieces(j.block + j.pages, j.size - j.pages, TRUE), j.found)
       /\ UNCHANGED <<next, iv_lock, iv_pagesAvail, iv_ranges, grants>>

(* Mutant: the loop does not go on to the next piece.                      *)
FreedAgain(p) ==
    LET j == job[p]
    IN /\ pc[p] = "freed"
       /\ iv_available' = [iv_available EXCEPT ![j.heap] =
                               Plus(@, 2^j.todo[1][2])]
       /\ freePage(p, j, j.todo, j.freed)
       /\ UNCHANGED <<next, iv_lock, iv_pagesAvail, iv_ranges, grants>>

Freed(p) ==
    LET j == job[p]
    IN /\ pc[p] = "freed"
       /\ iv_available' = [iv_available EXCEPT ![j.heap] =
                               Plus(@, 2^j.todo[1][2])]
       /\ freePage(p, j, Tail(j.todo), j.freed)
       /\ UNCHANGED <<next, iv_lock, iv_pagesAvail, iv_ranges, grants>>

-----------------------------------------------------------------------------
(* PageManager::_allocatePage                                              *)

(* kind is "user", "kernel", or "kernel_oom" for a kernel caller that      *)
(* allows the memory to be exhausted                                       *)
_allocatePage(p, n, kind) ==
    /\ pc[p] = "idle"
    /\ Set(p, [NoJob EXCEPT !.kind = kind, !.n = n])
    /\ Onward(p, "lock")
    /\ UNCHANGED <<next, iv_lock, counts, iv_ranges, grants>>

LockHeap(p) ==
    /\ pc[p] = "lock"
    /\ IvLock!Lock(p)
    /\ allocatePage(p, "main", job[p].n, "unlock")
    /\ UNCHANGED <<next, counts, iv_ranges, grants>>

UnlockHeap(p) ==
    LET j == job[p]
    IN /\ pc[p] = "unlock"
       /\ IvLock!Unlock(p)
       /\ \/ j.block # NULL /\ Onward(p, "grant") /\ UNCHANGED job
          \/ j.block = NULL /\ j.kind = "user" /\ Done(p)
          \/ /\ j.block = NULL /\ j.kind # "user"
             /\ allocatePage(p, "kernel", j.n, "reserve")
       /\ UNCHANGED <<next, counts, iv_ranges, grants>>

(* Out of memory is the end for the kernel unless the caller allows it.    *)
ReserveTried(p) ==
    LET j == job[p]
    IN /\ pc[p] = "reserve"
       /\ \/ j.block # NULL /\ Onward(p, "grant") /\ UNCHANGED job
          \/ j.block = NULL /\ j.kind = "kernel_oom" /\ Done(p)
          \/ j.block = NULL /\ j.kind = "kernel"
                            /\ Onward(p, "kassert") /\ UNCHANGED job
       /\ UNCHANGED <<next, iv_lock, counts, iv_ranges, grants>>

(* The caller has the pages and writes into them.                          *)
Grant(p) ==
    LET j == job[p]
    IN /\ pc[p] = "grant"
       /\ iv_pagesAvail' = Minus(iv_pagesAvail, j.n)
       /\ grants' = grants \cup {<<j.block, j.n>>}
       /\ Done(p)
       /\ UNCHANGED <<next, iv_lock, iv_available, iv_ranges>>

-----------------------------------------------------------------------------
(* PageManager::_freePage                                                  *)

_freePage(p, g) ==
    /\ pc[p] = "idle"
    /\ grants' = grants \ {g}
    /\ freePage(p, [NoJob EXCEPT !.kind = "free", !.n = g[2]],
                Pieces(g[1], g[2], FALSE), "returned")
    /\ UNCHANGED <<next, iv_lock, counts, iv_ranges>>

Returned(p) ==
    /\ pc[p] = "returned"
    /\ iv_pagesAvail' = Plus(iv_pagesAvail, job[p].n)
    /\ Onward(p, "check_reserve")
    /\ UNCHANGED <<next, iv_lock, iv_available, iv_ranges, grants, job>>

(* One page for the kernel's reserve when it is not full, without iv_lock. *)
CheckReserve(p) ==
    /\ pc[p] = "check_reserve"
    /\ \/ /\ iv_available["kernel"] < Reserved
          /\ allocatePage(p, "main", 1, "refill")
       \/ iv_available["kernel"] >= Reserved /\ Done(p)
    /\ UNCHANGED <<next, iv_lock, counts, iv_ranges, grants>>

(* iv_heapKernel.addMemory(page, 1), which registers no range              *)
Refill(p) ==
    LET j == job[p]
    IN /\ pc[p] = "refill"
       /\ \/ j.block = NULL /\ Done(p)
          \/ /\ j.block # NULL
             /\ freePage(p, [j EXCEPT !.heap = "kernel", !.block = NULL],
                         Pieces(j.block, 1, FALSE), "end")
       /\ UNCHANGED <<next, iv_lock, counts, iv_ranges, grants>>

End(p) ==
    /\ pc[p] = "end"
    /\ Done(p)
    /\ UNCHANGED <<next, iv_lock, counts, iv_ranges, grants>>

-----------------------------------------------------------------------------
(* PageManager::_addMemory and PageManagerCore::addMemory: the blocks can  *)
(* be taken before the range is registered, and both before they count.    *)

addMemory(p) ==
    /\ pc[p] = "idle"
    /\ LateRange \notin iv_ranges
    /\ \A q \in Procs : job[q].kind # "add"
    /\ LET todo == Pieces(LateRange[1], LateRange[2], FALSE)
       IN /\ Set(p, [NoJob EXCEPT !.kind = "add", !.todo = todo])
          /\ CallPush(p, <<"main", todo[1][2]>>, todo[1][1], "laid")
    /\ UNCHANGED <<next, iv_lock, counts, iv_ranges, grants>>

Laid(p) ==
    LET todo == Tail(job[p].todo)
    IN /\ pc[p] = "laid"
       /\ Set(p, [job[p] EXCEPT !.todo = todo])
       /\ IF todo = << >> THEN Onward(p, "register")
          ELSE CallPush(p, <<"main", todo[1][2]>>, todo[1][1], "laid")
       /\ UNCHANGED <<next, iv_lock, counts, iv_ranges, grants>>

(* The first free entry of iv_ranges; there is one, and ranges only go up. *)
Register(p) ==
    /\ pc[p] = "register"
    /\ iv_ranges' = iv_ranges \cup {LateRange}
    /\ Onward(p, "add_available")
    /\ UNCHANGED <<next, iv_lock, counts, grants, job>>

AddAvailable(p) ==
    /\ pc[p] = "add_available"
    /\ iv_available' = [iv_available EXCEPT !["main"] = Plus(@, LateRange[2])]
    /\ Onward(p, "add_pages")
    /\ UNCHANGED <<next, iv_lock, iv_pagesAvail, iv_ranges, grants, job>>

AddPages(p) ==
    /\ pc[p] = "add_pages"
    /\ iv_pagesAvail' = Plus(iv_pagesAvail, LateRange[2])
    /\ Done(p)
    /\ UNCHANGED <<next, iv_lock, iv_available, iv_ranges, grants>>

-----------------------------------------------------------------------------
(* PageManagerCore::coalesce on the main heap                              *)

RangeOf(x) == {r \in iv_ranges : x \in PagesOf(r[1], r[2])}

(* Mutant: blocks are counted from address zero, whatever their range.     *)
EvenAbsolute(x, b) == (x \div 2^b) % 2 = 0

(* The even one of two buddies, counted from the start of its range.       *)
Even(x, b) == \E r \in RangeOf(x) : ((x - r[1]) \div 2^b) % 2 = 0

coalesce(p) ==
    /\ pc[p] = "idle"
    /\ Set(p, [NoJob EXCEPT !.kind = "coalesce"])
    /\ CallPop(p, <<"main", 0>>, "drained")
    /\ UNCHANGED <<next, iv_lock, counts, iv_ranges, grants>>

(* One turn of the loop over the queue of blocks of bucket b: the lowest   *)
(* block goes up together with its buddy when both are there, or back.     *)
(* (That remove_if takes out another one needs overlapping blocks, which   *)
(* PagesConserved excludes.)                                               *)
Merge(p, b) ==
    LET j == job[p]
        x == CHOOSE y \in j.pq : \A z \in j.pq : y <= z
        both == Even(x, b) /\ x + 2^b \in j.pq
    IN \/ /\ j.pq = {} /\ b + 1 < Buckets - 1
          /\ CallPop(p, <<"main", b + 1>>, "drained")
          /\ UNCHANGED job
       \/ j.pq = {} /\ b + 1 = Buckets - 1 /\ Done(p)
       \/ /\ j.pq # {} /\ RangeOf(x) = {}
          /\ Onward(p, "kassert") /\ UNCHANGED job
       \/ /\ j.pq # {} /\ RangeOf(x) # {}
          /\ Set(p, [j EXCEPT !.pq = @ \ (IF both THEN {x, x + 2^b} ELSE {x}),
                              !.want = b])
          /\ CallPush(p, <<"main", IF both THEN b + 1 ELSE b>>, x, "merged")

(* The whole stack of a bucket is moved into the queue first.              *)
Drained(p) ==
    /\ pc[p] = "drained"
    /\ \/ /\ node[p] # NULL
          /\ Set(p, [job[p] EXCEPT !.pq = @ \cup {node[p]}, !.want = at[p][2]])
          /\ CallPop(p, at[p], "drained")
       \/ node[p] = NULL /\ Merge(p, at[p][2])
    /\ UNCHANGED <<next, iv_lock, counts, iv_ranges, grants>>

Merged(p) ==
    /\ pc[p] = "merged"
    /\ Merge(p, job[p].want)
    /\ UNCHANGED <<next, iv_lock, counts, iv_ranges, grants>>

-----------------------------------------------------------------------------
(* The block of bucket b in a set with at most one, as a stack.            *)
OfBucket(blocks, b) ==
    LET here == {x \in blocks : x[2] = b}
    IN IF here = {} THEN << >> ELSE <<(CHOOSE x \in here : TRUE)[1]>>

(* After _initialize: the blocks of the main range, one of which has been  *)
(* cut for the reserve, with the blocks that were left of it on top.       *)
Init ==
    LET pieces(first, n, over) ==
            {Pieces(first, n, over)[i] : i \in DOMAIN Pieces(first, n, over)}
        laid == pieces(MainRange[1], MainRange[2], FALSE)
        want == BucketFor(Reserved)
        from == CHOOSE x \in laid :
                    x[2] >= want /\ \A y \in laid : y[2] >= want => x[2] <= y[2]
        left == {<<from[1] + 2^b, b>> : b \in want .. from[2] - 1}
                \cup pieces(from[1] + Reserved, 2^want - Reserved, TRUE)
        kept == pieces(from[1], Reserved, FALSE)
    IN /\ stack = [s \in Stacks |->
                    IF s[1] = "kernel" THEN OfBucket(kept, s[2])
                    ELSE OfBucket(left, s[2]) \o OfBucket(laid \ {from}, s[2])]
       /\ head = [s \in Stacks |-> IF stack[s] = << >> THEN NULL
                                   ELSE stack[s][1]]
       /\ next = [x \in Nodes |->
                    LET on == {s \in Stacks : \E i \in DOMAIN stack[s] :
                                                 stack[s][i] = x}
                        top == {s \in on : stack[s][1] = x /\ Len(stack[s]) > 1}
                    IN CASE on = {} -> Junk
                         [] on # {} /\ top = {} -> NULL
                         [] top # {} -> stack[CHOOSE s \in top : TRUE][2]]
       /\ at   = [p \in Procs |-> NULL]
       /\ node = [p \in Procs |-> NULL]
       /\ seen = [p \in Procs |-> Unseen]
       /\ pc   = [p \in Procs |-> "idle"]
       /\ ret  = [p \in Procs |-> "idle"]
       /\ iv_lock = {}
       /\ iv_available = [main |-> MainRange[2] - Reserved,
                          kernel |-> Reserved]
       /\ iv_pagesAvail = MainRange[2]
       /\ iv_ranges = {MainRange}
       /\ grants = {}
       /\ job = [p \in Procs |-> NoJob]
       /\ calls = 0

(* What a process does once it is in a call.                               *)
Step(p) ==
    /\ UNCHANGED calls
    /\ \/ StackStep(p) /\ UNCHANGED pmvars
       \/ Popped(p) \/ SplitDone(p) \/ Take(p) \/ Freed(p)
       \/ LockHeap(p) \/ UnlockHeap(p) \/ ReserveTried(p) \/ Grant(p)
       \/ Returned(p) \/ CheckReserve(p) \/ Refill(p) \/ End(p)
       \/ Laid(p) \/ Register(p) \/ AddAvailable(p) \/ AddPages(p)
       \/ Drained(p) \/ Merged(p)

Call(p) ==
    /\ calls < MaxCalls
    /\ calls' = calls + 1
    /\ \/ \E n \in Requests, kind \in {"user", "kernel", "kernel_oom"} :
              _allocatePage(p, n, kind)
       \/ \E g \in grants : _freePage(p, g)
       \/ addMemory(p)
       \/ coalesce(p)

(* A failed assertion stops the machine.                                   *)
Halted == \E p \in Procs : pc[p] \in {"kassert", "crit_assert"}

Next == ~ Halted /\ \E p \in Procs : Step(p) \/ Call(p)

Spec == Init /\ [][Next]_vars /\ \A p \in Procs : WF_vars(~ Halted /\ Step(p))

-----------------------------------------------------------------------------
(* The values of the counters, the ranges and what callers hold.           *)
PageTypeOK ==
    /\ StackTypeOK
    /\ iv_lock \subseteq Procs
    /\ iv_available \in [Heaps -> 0 .. Width - 1]
    /\ iv_pagesAvail \in 0 .. Width - 1
    /\ iv_ranges \subseteq Ranges
    /\ grants \subseteq Nodes \X Requests
    /\ \A p \in Procs : /\ job[p].heap \in Heaps
                        /\ job[p].block \in Nodes \cup {NULL}
                        /\ job[p].pq \subseteq Nodes
                        /\ job[p].want \in 0 .. Buckets - 1
                        /\ job[p].tries \in 0 .. Retries
    /\ calls \in 0 .. MaxCalls

(* The places page x is in: on a stack, in the hands of a process, in use  *)
(* by a caller, or not added yet.                                          *)
Places(x) ==
    LET free(s)  == {i \in DOMAIN stack[s] : x \in PagesOf(stack[s][i], 2^s[2])}
        todo(p)  == {i \in 2 .. Len(job[p].todo) :
                        x \in PagesOf(job[p].todo[i][1], 2^job[p].todo[i][2])}
        queue(p) == {y \in job[p].pq : x \in PagesOf(y, 2^job[p].want)}
        late     == LateRange \notin iv_ranges
                    /\ \A p \in Procs : job[p].kind # "add"
                    /\ x \in PagesOf(LateRange[1], LateRange[2])
    IN UNION {   UNION {{<<"free", s, i>> : i \in free(s)} : s \in Stacks},
                 UNION {{<<"todo", p, i>> : i \in todo(p)} : p \in Procs},
                 UNION {{<<"queue", p, y>> : y \in queue(p)} : p \in Procs},
                 {<<"node", p>> : p \in {q \in Procs : node[q] # NULL
                                     /\ x \in PagesOf(node[q], 2^at[q][2])}},
                 {<<"block", p>> : p \in {q \in Procs : job[q].block # NULL
                              /\ x \in PagesOf(job[q].block, job[q].size)}},
                 {<<"grant", g>> : g \in {h \in grants :
                                            x \in PagesOf(h[1], h[2])}},
                 {<<"late">> : i \in IF late THEN {1} ELSE {}} }

(* Every page is in exactly one place, although blocks are cut, merged,    *)
(* moved to the reserve and added by several processes at once: no page is *)
(* given to two callers, free while in use, or lost.                       *)
PagesConserved == \A x \in Nodes : Cardinality(Places(x)) = 1

(* A free block of 2^b pages lies in one range, at a multiple of its size  *)
(* from the start of the range: coalesce has merged true buddies only, so  *)
(* that what it merges can be cut again the same way (the comment "p needs *)
(* to be the even buddy to prevent merging of wrong blocks").              *)
FreeBlocksAreBuddies ==
    \A s \in Stacks : \A i \in DOMAIN stack[s] : \E r \in Ranges :
        /\ PagesOf(stack[s][i], 2^s[2]) \subseteq PagesOf(r[1], r[2])
        /\ (stack[s][i] - r[1]) % 2^s[2] = 0

(* The number of pages on the stacks of a heap.                            *)
FreePages(h) ==
    Cardinality({x \in Nodes : \E b \in 0 .. Buckets - 1 :
        \E i \in DOMAIN stack[<<h, b>>] : x \in PagesOf(stack[<<h, b>>][i], 2^b)})

(* The counters are changed after the stacks and may even wrap for a       *)
(* moment; whenever no call is under way they tell the truth: iv_available *)
(* what is on the stacks of a heap, iv_pagesAvail all that is not in use.  *)
CountsSettle ==
    (\A p \in Procs : pc[p] = "idle") =>
        /\ \A h \in Heaps : iv_available[h] = FreePages(h)
        /\ iv_pagesAvail = FreePages("main") + FreePages("kernel")

(* Deviation: the kernel stops for lack of memory only when no block that  *)
(* is large enough is free.                                                *)
NoSpuriousOom ==
    \A p \in Procs : pc[p] = "kassert" /\ job[p].kind = "kernel" =>
        \A b \in BucketFor(job[p].n) .. Buckets - 1 : head[<<"main", b>>] = NULL

(* Deviation: coalesce knows the range of every block it meets.            *)
CoalesceKnowsRanges ==
    \A p \in Procs : ~ (pc[p] = "kassert" /\ job[p].kind = "coalesce")
=============================================================================
