--------------------------- MODULE LockfreeStack ---------------------------
(***************************************************************************)
(* The lock-free stack (src/src/include/util/lockfree/stack.H) over the    *)
(* ABA-safe pointer (abaptr.H): one step per access to shared memory, for  *)
(* any number of processes and of stacks.                                  *)
(*                                                                         *)
(* An AbaPtr pairs a pointer with a 32-bit count that every set()          *)
(* increments, so a compare-and-swap with the value read before succeeds   *)
(* exactly when nobody has updated the word since (less than 2^32 updates  *)
(* during one operation).  That is all the count is for, and what is kept  *)
(* of it: seen[p].fresh says that the head p has read is still the head.   *)
(*                                                                         *)
(* next is the memory inside the elements.  Once an element is popped its  *)
(* owner writes what it likes there (Junk, a word without the TOKEN),      *)
(* while other processes may still be about to read it.                    *)
(***************************************************************************)
EXTENDS Naturals, Sequences, FiniteSets

CONSTANTS Procs, Nodes, Stacks,
          NULL,
          Junk                  \* a next word without the TOKEN

ASSUME StackAssumption ==
    /\ IsFiniteSet(Nodes)
    /\ NULL \notin Nodes /\ Junk \notin Nodes /\ NULL # Junk

VARIABLES head,                 \* Stack::head, the pointer part
          next,                 \* _T::next of each element
          at,                   \* the stack each process works on
          node,                 \* pop's result, push's argument
          seen,                 \* the AbaPtr _head and _next of each process
          pc, ret,
          stack                 \* not in the code: the elements of each stack,
                                \* the top first, as atomic pushes and pops
                                \* would have left them

svars == <<head, next, stack, at, node, seen, pc, ret>>

StackLabels == {"pop_head", "pop_next", "pop_cas",
                "push_head", "push_next", "push_cas", "crit_assert"}

Unseen == [original |-> NULL, next |-> NULL, fresh |-> FALSE]

Goto(p, l) == pc' = [pc EXCEPT ![p] = l] /\ UNCHANGED ret

(* AbaPtr::update has succeeded on stack s: every other process that has   *)
(* read its head has an old count now.                                     *)
Updated(p, s) ==
    seen' = [q \in Procs |->
                IF q = p THEN Unseen
                ELSE IF at[q] = s THEN [seen[q] EXCEPT !.fresh = FALSE]
                ELSE seen[q]]

(* Mutant: only the pointers are compared, as if there were no count.      *)
CanUpdatePointer(p) == seen[p].original = head[at[p]]

(* __sync_bool_compare_and_swap(&head, original, ...) succeeds             *)
CanUpdate(p) == seen[p].fresh

-----------------------------------------------------------------------------
(* pop                                                                     *)

PopHead(p) ==
    /\ pc[p] = "pop_head"
    /\ \/ /\ head[at[p]] = NULL
          /\ node' = [node EXCEPT ![p] = NULL]
          /\ Goto(p, ret[p])
          /\ UNCHANGED seen
       \/ /\ head[at[p]] # NULL
          /\ seen' = [seen EXCEPT ![p] = [original |-> head[at[p]],
                                          next |-> NULL, fresh |-> TRUE]]
          /\ Goto(p, "pop_next")
          /\ UNCHANGED node
    /\ UNCHANGED <<head, next, stack, at>>

(* original->next, whoever has that element by now                         *)
PopNext(p) ==
    /\ pc[p] = "pop_next"
    /\ seen' = [seen EXCEPT ![p].next = next[seen[p].original]]
    /\ Goto(p, "pop_cas")
    /\ UNCHANGED <<head, next, stack, at, node>>

(* The element is its new owner's, who may write over next at once; what   *)
(* others read there does not matter, since their update fails.            *)
PopCas(p) ==
    /\ pc[p] = "pop_cas"
    /\ \/ /\ CanUpdate(p)
          /\ head' = [head EXCEPT ![at[p]] = seen[p].next]
          /\ node' = [node EXCEPT ![p] = seen[p].original]
          /\ next' = [next EXCEPT ![seen[p].original] = Junk]
          /\ stack' = [stack EXCEPT ![at[p]] = Tail(@)]
          /\ Updated(p, at[p])
          /\ Goto(p, IF seen[p].next = Junk THEN "crit_assert" ELSE ret[p])
       \/ /\ ~ CanUpdate(p)
          /\ seen' = [seen EXCEPT ![p] = Unseen]
          /\ Goto(p, "pop_head")
          /\ UNCHANGED <<head, next, stack, node>>
    /\ UNCHANGED at

-----------------------------------------------------------------------------
(* push                                                                    *)

PushHead(p) ==
    /\ pc[p] = "push_head"
    /\ seen' = [seen EXCEPT ![p] = [original |-> head[at[p]],
                                    next |-> NULL, fresh |-> TRUE]]
    /\ Goto(p, "push_next")
    /\ UNCHANGED <<head, next, stack, at, node>>

(* p->next gets the head read before and the TOKEN; nobody else writes it  *)
(* meanwhile (the crit_assert), since only an owner pushes.                *)
PushNext(p) ==
    /\ pc[p] = "push_next"
    /\ next' = [next EXCEPT ![node[p]] = seen[p].original]
    /\ Goto(p, "push_cas")
    /\ UNCHANGED <<head, stack, at, node, seen>>

PushCas(p) ==
    /\ pc[p] = "push_cas"
    /\ \/ /\ CanUpdate(p)
          /\ head' = [head EXCEPT ![at[p]] = node[p]]
          /\ stack' = [stack EXCEPT ![at[p]] = <<node[p]>> \o @]
          /\ node' = [node EXCEPT ![p] = NULL]
          /\ Updated(p, at[p])
          /\ Goto(p, ret[p])
       \/ /\ ~ CanUpdate(p)
          /\ seen' = [seen EXCEPT ![p] = Unseen]
          /\ Goto(p, "push_head")
          /\ UNCHANGED <<head, stack, node>>
    /\ UNCHANGED <<next, at>>

StackStep(p) == \/ PopHead(p) \/ PopNext(p) \/ PopCas(p)
                \/ PushHead(p) \/ PushNext(p) \/ PushCas(p)

(* The code of the caller: a call of pop or push, or a step between calls. *)
CallPop(p, s, r) ==
    /\ at'   = [at EXCEPT ![p] = s]
    /\ node' = [node EXCEPT ![p] = NULL]
    /\ pc'   = [pc EXCEPT ![p] = "pop_head"]
    /\ ret'  = [ret EXCEPT ![p] = r]
    /\ UNCHANGED <<head, stack, seen>>

CallPush(p, s, x, r) ==
    /\ at'   = [at EXCEPT ![p] = s]
    /\ node' = [node EXCEPT ![p] = x]
    /\ pc'   = [pc EXCEPT ![p] = "push_head"]
    /\ ret'  = [ret EXCEPT ![p] = r]
    /\ UNCHANGED <<head, stack, seen>>

Onward(p, l) ==
    /\ pc'   = [pc EXCEPT ![p] = l]
    /\ ret'  = [ret EXCEPT ![p] = "idle"]
    /\ at'   = [at EXCEPT ![p] = NULL]
    /\ node' = [node EXCEPT ![p] = NULL]
    /\ UNCHANGED <<head, stack, seen>>

-----------------------------------------------------------------------------
(* The links in memory are the stacks that atomic pushes and pops would    *)
(* have left: although a pop reads the next word of an element that        *)
(* another process may have taken, reused and pushed again, the            *)
(* compare-and-swap that succeeds removes exactly the top, the word it     *)
(* read has the TOKEN (pop's crit_assert), and no element is linked twice. *)
StacksLinked ==
    \A s \in Stacks :
        /\ head[s] = IF stack[s] = << >> THEN NULL ELSE stack[s][1]
        /\ \A i \in DOMAIN stack[s] :
               /\ next[stack[s][i]] = IF i = Len(stack[s]) THEN NULL
                                      ELSE stack[s][i + 1]
               /\ \A r \in Stacks : \A k \in DOMAIN stack[r] :
                      stack[r][k] = stack[s][i] => r = s /\ k = i

(* The values of heads, next words and the locals of push and pop.         *)
StackTypeOK ==
    /\ head \in [Stacks -> Nodes \cup {NULL}]
    /\ next \in [Nodes -> Nodes \cup {NULL, Junk}]
    /\ stack \in [Stacks -> Seq(Nodes)]
    /\ at   \in [Procs -> Stacks \cup {NULL}]
    /\ node \in [Procs -> Nodes \cup {NULL}]
    /\ seen \in [Procs -> [original : Nodes \cup {NULL},
                           next : Nodes \cup {NULL, Junk},
                           fresh : BOOLEAN]]

-----------------------------------------------------------------------------
(* The code that uses the stacks, as far as they are concerned: it calls   *)
(* push and pop, goes on with what it popped, and writes into elements of  *)
(* its own.  Mine is what it has to keep to: it pushes, and writes to,     *)
(* nothing that is on a stack or that another process pushes or has popped *)
(* just now.                                                               *)

OnStack(x) == \E s \in Stacks : \E i \in DOMAIN stack[s] : stack[s][i] = x

Mine(p, x) == ~ OnStack(x) /\ \A q \in Procs \ {p} : node[q] # x

Writes(p) ==
    /\ next' \in [Nodes -> Nodes \cup {NULL, Junk}]
    /\ \A x \in Nodes : Mine(p, x) \/ next'[x] = next[x]

Client(p) ==
    /\ pc[p] \notin StackLabels
    /\ ret'[p] \notin StackLabels
    /\ Writes(p)
    /\ \/ \E s \in Stacks : CallPop(p, s, ret'[p])
       \/ \E s \in Stacks, x \in Nodes : Mine(p, x) /\ CallPush(p, s, x, ret'[p])
       \/ pc'[p] \notin StackLabels /\ Onward(p, pc'[p])

StackInit ==
    /\ StackTypeOK /\ StacksLinked
    /\ pc \in [Procs -> STRING] /\ ret \in [Procs -> STRING]
    /\ \A p \in Procs : /\ pc[p] \notin StackLabels /\ ret[p] \notin StackLabels
                        /\ node[p] = NULL /\ seen[p] = Unseen

(* The specification of the stacks and of whoever uses them: every step is *)
(* one of push or pop, or one of a caller that keeps to Mine.  The page    *)
(* manager is such a caller, whatever it splits, merges and gives back.    *)
StackSpec == StackInit /\ [][\E p \in Procs : StackStep(p) \/ Client(p)]_svars
=============================================================================
