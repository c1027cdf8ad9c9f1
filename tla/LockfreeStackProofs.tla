------------------------ MODULE LockfreeStackProofs ------------------------
(***************************************************************************)
(* The lock-free stack is a stack, for any number of processes, elements   *)
(* and stacks, whoever uses it as Client says.                             *)
(***************************************************************************)
EXTENDS LockfreeStack, TLAPS

Popping == {"pop_next", "pop_cas"}
Pushing == {"push_head", "push_next", "push_cas"}

(* What may be in the variables.                                           *)
Types ==
    /\ StackTypeOK
    /\ pc = [p \in Procs |-> pc[p]] /\ ret = [p \in Procs |-> ret[p]]
    /\ \A p \in Procs :
        /\ ret[p] \notin StackLabels
        /\ pc[p] # "crit_assert"
        /\ pc[p] \in StackLabels => at[p] \in Stacks
        /\ pc[p] \in Pushing => node[p] \in Nodes
        /\ pc[p] \in Popping => seen[p].original \in Nodes

(* An element in the hands of a process is on no stack and in the hands of *)
(* no other.                                                               *)
HandsAreApart == \A p \in Procs : node[p] # NULL => Mine(p, node[p])

(* What a process has read is still so as long as its count is.            *)
FreshIsTrue ==
    \A p \in Procs : seen[p].fresh =>
        /\ pc[p] \in {"pop_next", "pop_cas", "push_next", "push_cas"}
        /\ seen[p].original = head[at[p]]
        /\ pc[p] = "pop_cas" => seen[p].next = next[seen[p].original]
        /\ pc[p] = "push_cas" => next[node[p]] = seen[p].original

StackInd == Types /\ StacksLinked /\ HandsAreApart /\ FreshIsTrue

-----------------------------------------------------------------------------
(* What a stack has after its top is removed.                              *)
LEMMA TailOf ==
    ASSUME NEW s \in Seq(Nodes), s # << >>
    PROVE  /\ Tail(s) \in Seq(Nodes) /\ Len(s) \in Nat /\ Len(s) > 0
           /\ Len(Tail(s)) = Len(s) - 1
           /\ (Tail(s) = << >>) <=> (Len(s) = 1)
           /\ Len(s) # 1 => 2 \in DOMAIN s /\ s[2] \in Nodes /\ Tail(s)[1] = s[2]
           /\ 1 \in DOMAIN s /\ s[1] \in Nodes
           /\ \A i \in DOMAIN Tail(s) : /\ i \in Nat /\ i + 1 \in DOMAIN s
                                        /\ i + 1 > 1 /\ Tail(s)[i] = s[i + 1]
  <1>1. /\ Tail(s) \in Seq(Nodes) /\ Len(s) \in Nat /\ Len(s) > 0
        /\ Len(Tail(s)) = Len(s) - 1
        /\ 1 \in DOMAIN s /\ s[1] \in Nodes
        /\ \A i \in DOMAIN Tail(s) : /\ i \in Nat /\ i + 1 \in DOMAIN s
                                     /\ i + 1 > 1 /\ Tail(s)[i] = s[i + 1]
    OBVIOUS
  <1>2. (Tail(s) = << >>) <=> (Len(Tail(s)) = 0)
    BY <1>1
  <1>3. Len(s) # 1 => 2 \in DOMAIN s /\ s[2] \in Nodes /\ Tail(s)[1] = s[2]
    BY <1>1
  <1> QED BY <1>1, <1>2, <1>3

(* What a stack has after x is put on top of it.                           *)
LEMMA ConsOf ==
    ASSUME NEW s \in Seq(Nodes), NEW x \in Nodes
    PROVE  /\ <<x>> \o s \in Seq(Nodes) /\ <<x>> \o s # << >>
           /\ Len(s) \in Nat /\ Len(<<x>> \o s) = Len(s) + 1
           /\ (<<x>> \o s)[1] = x
           /\ \A i \in DOMAIN (<<x>> \o s) :
                 i # 1 => /\ i \in Nat /\ i - 1 \in DOMAIN s
                          /\ (<<x>> \o s)[i] = s[i - 1]
  OBVIOUS

(* What pop keeps when it has read a next word.                            *)
SeenType == [original : Nodes \cup {NULL}, next : Nodes \cup {NULL, Junk},
             fresh : BOOLEAN]

LEMMA SeenNext ==
    ASSUME NEW r \in SeenType, NEW v \in Nodes \cup {NULL, Junk}
    PROVE  /\ [r EXCEPT !.next = v] \in SeenType
           /\ [r EXCEPT !.next = v].original = r.original
           /\ [r EXCEPT !.next = v].next = v
           /\ [r EXCEPT !.next = v].fresh = r.fresh
  BY DEF SeenType

(* And what is left of it when somebody else has updated the head.         *)
LEMMA SeenOld ==
    ASSUME NEW r \in SeenType
    PROVE  /\ [r EXCEPT !.fresh = FALSE] \in SeenType
           /\ [r EXCEPT !.fresh = FALSE].original = r.original
           /\ [r EXCEPT !.fresh = FALSE].next = r.next
           /\ ~ [r EXCEPT !.fresh = FALSE].fresh
  BY DEF SeenType

-----------------------------------------------------------------------------
(* pop reads the head, the next word behind it, or finds its count old.    *)
LEMMA PopReadInd ==
    ASSUME StackInd, NEW p \in Procs,
           PopHead(p) \/ PopNext(p) \/ (PopCas(p) /\ ~ CanUpdate(p))
    PROVE  StackInd'
  <1> USE StackAssumption DEF StackInd, StackLabels, Popping, Pushing, Goto, Unseen
  <1>1. /\ UNCHANGED <<head, next, stack, ret, at>>
        /\ node' = node \/ node' = [node EXCEPT ![p] = NULL]
        /\ pc' = [pc EXCEPT ![p] = pc'[p]]
        /\ \A q \in Procs \ {p} : seen'[q] = seen[q]
    BY DEF PopHead, PopNext, PopCas, CanUpdate, Types, StackTypeOK
  <1>2. CASE PopHead(p) /\ head[at[p]] = NULL
    <2>1. /\ node' = [node EXCEPT ![p] = NULL] /\ seen' = seen
          /\ pc' = [pc EXCEPT ![p] = ret[p]]
      BY <1>2 DEF PopHead
    <2>2. Types'
      BY <1>1, <1>2, <2>1 DEF Types, StackTypeOK
    <2>3. StacksLinked'
      BY <1>1 DEF StacksLinked
    <2>4. HandsAreApart'
      BY <1>1, <2>1 DEF HandsAreApart, Mine, OnStack, Types, StackTypeOK
    <2>5. FreshIsTrue'
      BY <1>1, <1>2, <2>1 DEF FreshIsTrue, Types, StackTypeOK, PopHead
    <2> QED BY <2>2, <2>3, <2>4, <2>5
  <1>3. CASE PopHead(p) /\ head[at[p]] # NULL
    <2>1. /\ node' = node /\ pc[p] = "pop_head"
          /\ seen' = [seen EXCEPT ![p] = [original |-> head[at[p]],
                                          next |-> NULL, fresh |-> TRUE]]
          /\ pc' = [pc EXCEPT ![p] = "pop_next"]
      BY <1>3 DEF PopHead
    <2>2. Types'
      BY <1>1, <1>3, <2>1 DEF Types, StackTypeOK
    <2>3. StacksLinked'
      BY <1>1 DEF StacksLinked
    <2>4. HandsAreApart'
      BY <1>1, <2>1 DEF HandsAreApart, Mine, OnStack
    <2>5. FreshIsTrue'
      BY <1>1, <2>1 DEF FreshIsTrue, Types, StackTypeOK
    <2> QED BY <2>2, <2>3, <2>4, <2>5
  <1>4. CASE PopNext(p)
    <2>1. /\ node' = node /\ pc[p] = "pop_next"
          /\ seen' = [seen EXCEPT ![p].next = next[seen[p].original]]
          /\ pc' = [pc EXCEPT ![p] = "pop_cas"]
      BY <1>4 DEF PopNext
    <2>a. /\ seen[p] \in SeenType /\ seen[p].original \in Nodes
          /\ next[seen[p].original] \in Nodes \cup {NULL, Junk}
      BY <2>1 DEF Types, StackTypeOK, SeenType
    <2>b. /\ seen'[p] \in SeenType /\ seen'[p].original = seen[p].original
          /\ \A q \in Procs \ {p} : seen'[q] \in SeenType
          /\ seen' = [q \in Procs |-> seen'[q]]
      <3>1. seen \in [Procs -> SeenType]
        BY DEF Types, StackTypeOK, SeenType
      <3>2. seen'[p] = [seen[p] EXCEPT !.next = next[seen[p].original]]
        BY <2>1, <3>1
      <3> QED BY <1>1, <2>1, <2>a, <3>1, <3>2, SeenNext
    <2>c. StackTypeOK'
      <3>1. seen' \in [Procs -> SeenType]
        BY <2>b
      <3> QED BY <1>1, <2>1, <3>1 DEF Types, StackTypeOK, SeenType
    <2>2. Types'
      BY <1>1, <2>1, <2>a, <2>b, <2>c DEF Types
    <2>3. StacksLinked'
      BY <1>1 DEF StacksLinked
    <2>4. HandsAreApart'
      BY <1>1, <2>1 DEF HandsAreApart, Mine, OnStack
    <2>5. FreshIsTrue'
      BY <1>1, <2>1 DEF FreshIsTrue, Types, StackTypeOK
    <2> QED BY <2>2, <2>3, <2>4, <2>5
  <1>5. CASE PopCas(p) /\ ~ CanUpdate(p)
    <2>1. /\ node' = node /\ pc[p] = "pop_cas"
          /\ seen' = [seen EXCEPT ![p] = Unseen]
          /\ pc' = [pc EXCEPT ![p] = "pop_head"]
      BY <1>5 DEF PopCas
    <2>2. Types'
      BY <1>1, <2>1 DEF Types, StackTypeOK
    <2>3. StacksLinked'
      BY <1>1 DEF StacksLinked
    <2>4. HandsAreApart'
      BY <1>1, <2>1 DEF HandsAreApart, Mine, OnStack
    <2>5. FreshIsTrue'
      BY <1>1, <2>1 DEF FreshIsTrue, Types, StackTypeOK
    <2> QED BY <2>2, <2>3, <2>4, <2>5
  <1> QED BY <1>2, <1>3, <1>4, <1>5

(* AbaPtr::update makes the counts of all others on the same stack old.    *)
LEMMA UpdatedSeen ==
    ASSUME Types, NEW p \in Procs, NEW s \in Stacks, Updated(p, s)
    PROVE  /\ seen' \in [Procs -> SeenType] /\ ~ seen'[p].fresh
           /\ \A q \in Procs \ {p} :
                /\ seen'[q].original = seen[q].original
                /\ seen'[q].next = seen[q].next
                /\ seen'[q].fresh => at[q] # s /\ seen[q].fresh
  <1>1. Unseen \in SeenType /\ ~ Unseen.fresh
    BY DEF Unseen, SeenType
  <1>2. seen \in [Procs -> SeenType]
    BY DEF Types, StackTypeOK, SeenType
  <1>3. \A q \in Procs : seen[q] \in SeenType
    BY <1>2
  <1>4. seen' = [q \in Procs |-> IF q = p THEN Unseen
                   ELSE IF at[q] = s THEN [seen[q] EXCEPT !.fresh = FALSE]
                   ELSE seen[q]]
    BY DEF Updated
  <1>5. seen'[p] = Unseen
    BY <1>4
  <1>6. ASSUME NEW q \in Procs \ {p}
        PROVE  /\ seen'[q] \in SeenType
               /\ seen'[q].original = seen[q].original
               /\ seen'[q].next = seen[q].next
               /\ seen'[q].fresh => at[q] # s /\ seen[q].fresh
    <2>1. CASE at[q] = s
      <3>1. seen'[q] = [seen[q] EXCEPT !.fresh = FALSE]
        BY <1>4, <2>1
      <3> QED BY <1>3, <3>1, SeenOld
    <2>2. CASE at[q] # s
      BY <1>3, <1>4, <2>2
    <2> QED BY <2>1, <2>2
  <1>7. \A q \in Procs : seen'[q] \in SeenType
    BY <1>1, <1>5, <1>6
  <1>8. seen' \in [Procs -> SeenType]
    BY <1>4, <1>7
  <1> QED BY <1>1, <1>5, <1>6, <1>8

(* A pop whose count is good takes the top and nothing else.               *)
LEMMA PopCasInd ==
    ASSUME StackInd, NEW p \in Procs, PopCas(p), CanUpdate(p)
    PROVE  StackInd'
  <1> USE StackAssumption DEF StackInd, CanUpdate
  <1>1. PICK s \in Stacks : s = at[p]
    BY DEF Types, PopCas, StackLabels
  <1>2. PICK x \in Nodes : x = seen[p].original
    BY DEF Types, PopCas, Popping
  <1>3. /\ pc[p] = "pop_cas" /\ seen[p].fresh
        /\ head' = [head EXCEPT ![s] = seen[p].next]
        /\ node' = [node EXCEPT ![p] = x]
        /\ next' = [next EXCEPT ![x] = Junk]
        /\ stack' = [stack EXCEPT ![s] = Tail(@)]
        /\ Updated(p, s) /\ at' = at /\ ret' = ret
        /\ pc' = [pc EXCEPT ![p] = IF seen[p].next = Junk THEN "crit_assert"
                                   ELSE ret[p]]
    BY <1>1, <1>2 DEF PopCas, Goto
  <1>4. head[s] = x /\ seen[p].next = next[x]
    BY <1>1, <1>2, <1>3 DEF FreshIsTrue
  <1>5. stack[s] \in Seq(Nodes) /\ stack[s] # << >> /\ stack[s][1] = x
    BY <1>4 DEF StacksLinked, Types, StackTypeOK
  <1>6. 1 \in DOMAIN stack[s] /\ Len(stack[s]) \in Nat /\ Len(stack[s]) > 0
    BY <1>5, TailOf
  <1>7. seen[p].next = IF Len(stack[s]) = 1 THEN NULL ELSE stack[s][2]
    <2>1. next[stack[s][1]] = IF 1 = Len(stack[s]) THEN NULL
                              ELSE stack[s][1 + 1]
      BY <1>6 DEF StacksLinked
    <2> QED BY <1>4, <1>5, <2>1
  <1>8. seen[p].next \in Nodes \cup {NULL} /\ seen[p].next # Junk
    <2>1. Len(stack[s]) # 1 => stack[s][2] \in Nodes
      BY <1>5, TailOf
    <2> QED BY <1>7, <2>1
  <1>9. /\ seen' \in [Procs -> SeenType] /\ ~ seen'[p].fresh
        /\ \A q \in Procs \ {p} :
             /\ seen'[q].original = seen[q].original
             /\ seen'[q].next = seen[q].next
             /\ seen'[q].fresh => at[q] # s /\ seen[q].fresh
    BY <1>3, UpdatedSeen
  <1>10. /\ stack' \in [Stacks -> Seq(Nodes)]
         /\ stack'[s] = Tail(stack[s])
         /\ \A r \in Stacks \ {s} : stack'[r] = stack[r]
    <2>1. Tail(stack[s]) \in Seq(Nodes) /\ stack \in [Stacks -> Seq(Nodes)]
      BY <1>5, TailOf DEF Types, StackTypeOK
    <2>2. stack' = [stack EXCEPT ![s] = Tail(stack[s])]
      BY <1>3
    <2> QED BY <2>1, <2>2
  <1>11. pc' = [pc EXCEPT ![p] = ret[p]]
    BY <1>3, <1>8
  <1>12. Types'
    <2>1. StackTypeOK'
      BY <1>3, <1>8, <1>9, <1>10 DEF Types, StackTypeOK, SeenType
    <2> QED BY <1>3, <1>9, <1>11, <2>1
            DEF Types, StackLabels, Popping, Pushing
  <1>13. \A r \in Stacks : \A i \in DOMAIN stack'[r] :
            \E k \in DOMAIN stack[r] :
                /\ k = IF r = s THEN i + 1 ELSE i
                /\ i \in Nat
                /\ stack'[r][i] = stack[r][k] /\ stack[r][k] # x
    <2> SUFFICES ASSUME NEW r \in Stacks, NEW i \in DOMAIN stack'[r]
                 PROVE  \E k \in DOMAIN stack[r] :
                            /\ k = IF r = s THEN i + 1 ELSE i
                            /\ i \in Nat
                            /\ stack'[r][i] = stack[r][k] /\ stack[r][k] # x
      OBVIOUS
    <2>1. CASE r = s
      <3>1. i \in DOMAIN Tail(stack[s])
        BY <1>10, <2>1
      <3>2. /\ i \in Nat /\ i + 1 \in DOMAIN stack[s] /\ i + 1 > 1
            /\ Tail(stack[s])[i] = stack[s][i + 1]
        BY <1>5, <3>1, TailOf
      <3>3. stack[s][i + 1] # x
        BY <1>5, <1>6, <3>2 DEF StacksLinked
      <3> QED BY <1>10, <2>1, <3>2, <3>3
    <2>2. CASE r # s
      <3>1. i \in DOMAIN stack[r] /\ stack'[r][i] = stack[r][i]
        BY <1>10, <2>2
      <3>2. stack[r][i] # x
        BY <1>5, <1>6, <2>2, <3>1 DEF StacksLinked
      <3>3. i \in Nat
        BY <3>1 DEF Types, StackTypeOK
      <3> QED BY <2>2, <3>1, <3>2, <3>3
    <2> QED BY <2>1, <2>2
  <1>14. StacksLinked'
    <2> SUFFICES ASSUME NEW r \in Stacks
        PROVE  /\ head'[r] = IF stack'[r] = << >> THEN NULL ELSE stack'[r][1]
               /\ \A i \in DOMAIN stack'[r] :
                    /\ next'[stack'[r][i]] = IF i = Len(stack'[r]) THEN NULL
                                             ELSE stack'[r][i + 1]
                    /\ \A t \in Stacks : \A k \in DOMAIN stack'[t] :
                          stack'[t][k] = stack'[r][i] => t = r /\ k = i
      BY DEF StacksLinked
    <2>1. head'[r] = IF stack'[r] = << >> THEN NULL ELSE stack'[r][1]
      <3>1. CASE r = s
        <4>1. head'[s] = seen[p].next
          BY <1>3 DEF Types, StackTypeOK
        <4>2. /\ (Tail(stack[s]) = << >>) <=> (Len(stack[s]) = 1)
              /\ Len(stack[s]) # 1 => Tail(stack[s])[1] = stack[s][2]
          BY <1>5, TailOf
        <4> QED BY <1>7, <1>10, <3>1, <4>1, <4>2
      <3>2. CASE r # s
        <4>1. head'[r] = head[r] /\ stack'[r] = stack[r]
          BY <1>3, <1>10, <3>2 DEF Types, StackTypeOK
        <4> QED BY <4>1 DEF StacksLinked
      <3> QED BY <3>1, <3>2
    <2>2. ASSUME NEW i \in DOMAIN stack'[r]
          PROVE  next'[stack'[r][i]] = IF i = Len(stack'[r]) THEN NULL
                                       ELSE stack'[r][i + 1]
      <3>1. PICK k \in DOMAIN stack[r] :
                /\ k = IF r = s THEN i + 1 ELSE i
                /\ i \in Nat
                /\ stack'[r][i] = stack[r][k] /\ stack[r][k] # x
        BY <1>13
      <3>2. stack[r][k] \in Nodes
        BY <3>1 DEF Types, StackTypeOK
      <3>3. next'[stack'[r][i]] = next[stack[r][k]]
        BY <1>3, <3>1, <3>2 DEF Types, StackTypeOK
      <3>4. next[stack[r][k]] = IF k = Len(stack[r]) THEN NULL
                                ELSE stack[r][k + 1]
        BY DEF StacksLinked
      <3>5. CASE r = s
        <4>1. Len(stack'[s]) = Len(stack[s]) - 1
          BY <1>5, <1>10, TailOf
        <4>2. i # Len(stack'[s]) => stack'[s][i + 1] = stack[s][i + 2]
          BY <1>5, <1>10, <3>1, <3>5
        <4> QED BY <1>6, <3>1, <3>3, <3>4, <3>5, <4>1, <4>2
      <3>6. CASE r # s
        BY <1>10, <3>1, <3>3, <3>4, <3>6
      <3> QED BY <3>5, <3>6
    <2>3. ASSUME NEW i \in DOMAIN stack'[r], NEW t \in Stacks,
                 NEW k \in DOMAIN stack'[t], stack'[t][k] = stack'[r][i]
          PROVE  t = r /\ k = i
      <3>1. PICK j \in DOMAIN stack[r] :
                /\ j = IF r = s THEN i + 1 ELSE i
                /\ i \in Nat /\ stack'[r][i] = stack[r][j]
        BY <1>13
      <3>2. PICK l \in DOMAIN stack[t] :
                /\ l = IF t = s THEN k + 1 ELSE k
                /\ k \in Nat /\ stack'[t][k] = stack[t][l]
        BY <1>13
      <3>3. t = r /\ l = j
        BY <2>3, <3>1, <3>2 DEF StacksLinked
      <3> QED BY <3>1, <3>2, <3>3
    <2> QED BY <2>1, <2>2, <2>3
  <1>15. HandsAreApart'
    <2>1. \A y : OnStack(y)' => OnStack(y) /\ y # x
      BY <1>13 DEF OnStack
    <2>2. OnStack(x)
      BY <1>5, <1>6 DEF OnStack
    <2>3. /\ node'[p] = x
          /\ \A q \in Procs \ {p} : node'[q] = node[q] /\ node[q] # x
      BY <1>3, <2>2 DEF HandsAreApart, Mine, Types, StackTypeOK
    <2> QED BY <2>1, <2>3 DEF HandsAreApart, Mine
  <1>16. FreshIsTrue'
    <2> SUFFICES ASSUME NEW q \in Procs, seen'[q].fresh
        PROVE  /\ pc'[q] \in {"pop_next", "pop_cas", "push_next", "push_cas"}
               /\ seen'[q].original = head'[at'[q]]
               /\ pc'[q] = "pop_cas" => seen'[q].next = next'[seen'[q].original]
               /\ pc'[q] = "push_cas" => next'[node'[q]] = seen'[q].original
      BY DEF FreshIsTrue
    <2>1. /\ q # p /\ seen[q].fresh /\ at[q] # s
          /\ seen'[q].original = seen[q].original /\ seen'[q].next = seen[q].next
      BY <1>9
    <2>2. /\ pc'[q] = pc[q] /\ node'[q] = node[q] /\ at'[q] = at[q]
      BY <1>3, <1>11, <2>1 DEF Types, StackTypeOK
    <2>3. /\ pc[q] \in {"pop_next", "pop_cas", "push_next", "push_cas"}
          /\ seen[q].original = head[at[q]]
          /\ pc[q] = "pop_cas" => seen[q].next = next[seen[q].original]
          /\ pc[q] = "push_cas" => next[node[q]] = seen[q].original
      BY <2>1 DEF FreshIsTrue
    <2>4. at[q] \in Stacks
      BY <2>3 DEF Types, StackLabels
    <2>5. head'[at[q]] = head[at[q]]
      BY <1>3, <2>1, <2>4 DEF Types, StackTypeOK
    <2>6. head[at[q]] # x
      BY <1>5, <1>6, <2>1, <2>4, TailOf DEF StacksLinked, Types, StackTypeOK
    <2>7. pc[q] = "pop_cas" => next'[seen[q].original] = next[seen[q].original]
      <3>1. pc[q] = "pop_cas" => seen[q].original \in Nodes
        BY DEF Types, Popping
      <3> QED BY <1>3, <2>3, <2>6, <3>1 DEF Types, StackTypeOK
    <2>8. pc[q] = "push_cas" => next'[node[q]] = next[node[q]]
      <3>1. pc[q] = "push_cas" => node[q] \in Nodes
        BY DEF Types, Pushing
      <3>2. pc[q] = "push_cas" => node[q] # x
        BY <1>5, <1>6, <3>1 DEF HandsAreApart, Mine, OnStack
      <3> QED BY <1>3, <3>1, <3>2 DEF Types, StackTypeOK
    <2> QED BY <1>3, <2>1, <2>2, <2>3, <2>5, <2>7, <2>8
  <1> QED BY <1>12, <1>14, <1>15, <1>16

(* push reads the head, or finds its count old.                            *)
LEMMA PushReadInd ==
    ASSUME StackInd, NEW p \in Procs,
           PushHead(p) \/ (PushCas(p) /\ ~ CanUpdate(p))
    PROVE  StackInd'
  <1> USE StackAssumption DEF StackInd, StackLabels, Popping, Pushing, Goto, Unseen
  <1>1. CASE PushHead(p)
    <2>1. /\ UNCHANGED <<head, next, stack, ret, at, node>>
          /\ pc[p] = "push_head" /\ pc' = [pc EXCEPT ![p] = "push_next"]
          /\ seen' = [seen EXCEPT ![p] = [original |-> head[at[p]],
                                          next |-> NULL, fresh |-> TRUE]]
      BY <1>1 DEF PushHead
    <2>2. Types'
      BY <2>1 DEF Types, StackTypeOK
    <2>3. StacksLinked' /\ HandsAreApart'
      BY <2>1 DEF StacksLinked, HandsAreApart, Mine, OnStack
    <2>4. FreshIsTrue'
      BY <2>1 DEF FreshIsTrue, Types, StackTypeOK
    <2> QED BY <2>2, <2>3, <2>4
  <1>2. CASE PushCas(p) /\ ~ CanUpdate(p)
    <2>1. /\ UNCHANGED <<head, next, stack, ret, at, node>>
          /\ pc[p] = "push_cas" /\ pc' = [pc EXCEPT ![p] = "push_head"]
          /\ seen' = [seen EXCEPT ![p] = Unseen]
      BY <1>2 DEF PushCas
    <2>2. Types'
      BY <2>1 DEF Types, StackTypeOK
    <2>3. StacksLinked' /\ HandsAreApart'
      BY <2>1 DEF StacksLinked, HandsAreApart, Mine, OnStack
    <2>4. FreshIsTrue'
      BY <2>1 DEF FreshIsTrue, Types, StackTypeOK
    <2> QED BY <2>2, <2>3, <2>4
  <1> QED BY <1>1, <1>2

(* Words written in elements that are p's alone change no link.            *)
LEMMA OwnWrites ==
    ASSUME StackInd, NEW p \in Procs, Writes(p), UNCHANGED <<head, stack>>
    PROVE  /\ StacksLinked'
           /\ \A q \in Procs \ {p} : seen[q].fresh =>
                /\ pc[q] = "pop_cas" =>
                      next'[seen[q].original] = next[seen[q].original]
                /\ pc[q] = "push_cas" => next'[node[q]] = next[node[q]]
  <1> USE StackAssumption DEF StackInd, Writes
  <1>1. \A x \in Nodes : OnStack(x) => next'[x] = next[x]
    BY DEF Mine
  <1>2. \A s \in Stacks : \A i \in DOMAIN stack[s] :
            /\ stack[s][i] \in Nodes
            /\ next'[stack[s][i]] = next[stack[s][i]]
    <2> SUFFICES ASSUME NEW s \in Stacks, NEW i \in DOMAIN stack[s]
                 PROVE  /\ stack[s][i] \in Nodes
                        /\ next'[stack[s][i]] = next[stack[s][i]]
      OBVIOUS
    <2>1. stack[s][i] \in Nodes
      BY DEF Types, StackTypeOK
    <2> QED BY <1>1, <2>1 DEF OnStack
  <1>3. StacksLinked'
    BY <1>2 DEF StacksLinked
  <1>4. ASSUME NEW q \in Procs \ {p}, seen[q].fresh, pc[q] = "pop_cas"
        PROVE  next'[seen[q].original] = next[seen[q].original]
    <2>1. PICK s \in Stacks : s = at[q]
      BY <1>4 DEF Types, StackLabels
    <2>2. seen[q].original = head[s] /\ head[s] \in Nodes
      BY <1>4, <2>1 DEF FreshIsTrue, Types, Popping
    <2>3. stack[s] \in Seq(Nodes) /\ stack[s] # << >> /\ head[s] = stack[s][1]
      BY <2>2 DEF StacksLinked, Types, StackTypeOK
    <2>4. OnStack(head[s])
      BY <2>3, TailOf DEF OnStack
    <2> QED BY <1>1, <2>2, <2>4
  <1>5. ASSUME NEW q \in Procs \ {p}, pc[q] = "push_cas"
        PROVE  next'[node[q]] = next[node[q]]
    <2>1. node[q] \in Nodes
      BY <1>5 DEF Types, Pushing
    <2>2. ~ Mine(p, node[q])
      BY DEF Mine
    <2> QED BY <2>1, <2>2
  <1> QED BY <1>3, <1>4, <1>5

(* push writes the head it has read into its element.                      *)
LEMMA PushNextInd ==
    ASSUME StackInd, NEW p \in Procs, PushNext(p)
    PROVE  StackInd'
  <1> USE StackAssumption DEF StackInd
  <1>1. PICK x \in Nodes : x = node[p]
    BY DEF PushNext, Types, Pushing
  <1>2. /\ UNCHANGED <<head, stack, ret, at, node, seen>>
        /\ pc[p] = "push_next" /\ pc' = [pc EXCEPT ![p] = "push_cas"]
        /\ next' = [next EXCEPT ![x] = seen[p].original]
    BY <1>1 DEF PushNext, Goto
  <1>3. Mine(p, x)
    BY <1>1 DEF HandsAreApart
  <1>4. next \in [Nodes -> Nodes \cup {NULL, Junk}]
        /\ seen[p].original \in Nodes \cup {NULL}
    BY DEF Types, StackTypeOK
  <1>5. Writes(p) /\ next'[x] = seen[p].original
    BY <1>2, <1>3, <1>4 DEF Writes
  <1>6. Types'
    <2>1. StackTypeOK'
      BY <1>2, <1>5 DEF Types, StackTypeOK, Writes
    <2>2. /\ pc' = [q \in Procs |-> pc'[q]] /\ pc'[p] = "push_cas"
          /\ \A q \in Procs \ {p} : pc'[q] = pc[q]
      BY <1>2 DEF Types
    <2> QED BY <1>1, <1>2, <2>1, <2>2 DEF Types, StackLabels, Popping, Pushing
  <1>7. StacksLinked'
    BY <1>2, <1>5, OwnWrites
  <1>8. HandsAreApart'
    BY <1>2 DEF HandsAreApart, Mine, OnStack
  <1>9. FreshIsTrue'
    <2>1. \A q \in Procs \ {p} : seen[q].fresh =>
                /\ pc[q] = "pop_cas" =>
                      next'[seen[q].original] = next[seen[q].original]
                /\ pc[q] = "push_cas" => next'[node[q]] = next[node[q]]
      BY <1>2, <1>5, OwnWrites
    <2>2. pc'[p] = "push_cas" /\ \A q \in Procs \ {p} : pc'[q] = pc[q]
      BY <1>2 DEF Types
    <2> QED BY <1>1, <1>2, <1>5, <2>1, <2>2 DEF FreshIsTrue
  <1> QED BY <1>6, <1>7, <1>8, <1>9

(* A push whose count is good puts its element on top and nothing else.    *)
LEMMA PushCasInd ==
    ASSUME StackInd, NEW p \in Procs, PushCas(p), CanUpdate(p)
    PROVE  StackInd'
  <1> USE StackAssumption DEF StackInd, CanUpdate
  <1>1. PICK s \in Stacks : s = at[p]
    BY DEF Types, PushCas, StackLabels
  <1>2. PICK x \in Nodes : x = node[p]
    BY DEF Types, PushCas, Pushing
  <1>3. /\ pc[p] = "push_cas" /\ seen[p].fresh
        /\ head' = [head EXCEPT ![s] = x]
        /\ node' = [node EXCEPT ![p] = NULL]
        /\ stack' = [stack EXCEPT ![s] = <<x>> \o stack[s]]
        /\ Updated(p, s) /\ at' = at /\ ret' = ret /\ next' = next
        /\ pc' = [pc EXCEPT ![p] = ret[p]]
    BY <1>1, <1>2 DEF PushCas, Goto
  <1>4. next[x] = head[s]
    BY <1>1, <1>2, <1>3 DEF FreshIsTrue
  <1>5. stack[s] \in Seq(Nodes) /\ Len(stack[s]) \in Nat
    BY DEF Types, StackTypeOK
  <1>6. Mine(p, x)
    BY <1>2 DEF HandsAreApart
  <1>9. /\ seen' \in [Procs -> SeenType] /\ ~ seen'[p].fresh
        /\ \A q \in Procs \ {p} :
             /\ seen'[q].original = seen[q].original
             /\ seen'[q].next = seen[q].next
             /\ seen'[q].fresh => at[q] # s /\ seen[q].fresh
    BY <1>3, UpdatedSeen
  <1>10. /\ stack' \in [Stacks -> Seq(Nodes)]
         /\ stack'[s] = <<x>> \o stack[s]
         /\ \A r \in Stacks \ {s} : stack'[r] = stack[r]
    <2>1. <<x>> \o stack[s] \in Seq(Nodes) /\ stack \in [Stacks -> Seq(Nodes)]
      BY <1>5, ConsOf DEF Types, StackTypeOK
    <2> QED BY <1>3, <2>1
  <1>11. /\ stack'[s] # << >> /\ Len(stack'[s]) = Len(stack[s]) + 1
         /\ stack'[s][1] = x
    BY <1>5, <1>10, ConsOf
  <1>12. Types'
    <2>1. StackTypeOK'
      BY <1>3, <1>9, <1>10 DEF Types, StackTypeOK, SeenType
    <2>2. /\ pc' = [q \in Procs |-> pc'[q]] /\ pc'[p] = ret[p]
          /\ \A q \in Procs \ {p} : pc'[q] = pc[q] /\ node'[q] = node[q]
      BY <1>3 DEF Types, StackTypeOK
    <2> QED BY <1>3, <1>9, <2>1, <2>2
            DEF Types, StackLabels, Popping, Pushing
  <1>13. \A r \in Stacks : \A i \in DOMAIN stack'[r] :
            \/ r = s /\ i = 1 /\ stack'[r][i] = x
            \/ /\ r # s \/ i # 1
               /\ \E k \in DOMAIN stack[r] :
                    /\ i \in Nat
                    /\ k = IF r = s THEN i - 1 ELSE i
                    /\ stack'[r][i] = stack[r][k] /\ stack[r][k] # x
    <2> SUFFICES ASSUME NEW r \in Stacks, NEW i \in DOMAIN stack'[r],
                        r # s \/ i # 1
                 PROVE  \E k \in DOMAIN stack[r] :
                            /\ i \in Nat
                            /\ k = IF r = s THEN i - 1 ELSE i
                            /\ stack'[r][i] = stack[r][k] /\ stack[r][k] # x
      BY <1>11
    <2>1. CASE r = s
      <3>1. /\ i \in Nat /\ i - 1 \in DOMAIN stack[s]
            /\ stack'[s][i] = stack[s][i - 1]
        BY <1>5, <1>10, <2>1, ConsOf
      <3>2. stack[s][i - 1] # x
        BY <1>6, <3>1 DEF Mine, OnStack
      <3> QED BY <2>1, <3>1, <3>2
    <2>2. CASE r # s
      <3>1. i \in DOMAIN stack[r] /\ stack'[r][i] = stack[r][i]
        BY <1>10, <2>2
      <3>2. stack[r][i] # x
        BY <1>6, <3>1 DEF Mine, OnStack
      <3>3. i \in Nat
        BY <3>1 DEF Types, StackTypeOK
      <3> QED BY <2>2, <3>1, <3>2, <3>3
    <2> QED BY <2>1, <2>2
  <1>14. StacksLinked'
    <2> SUFFICES ASSUME NEW r \in Stacks
        PROVE  /\ head'[r] = IF stack'[r] = << >> THEN NULL ELSE stack'[r][1]
               /\ \A i \in DOMAIN stack'[r] :
                    /\ next'[stack'[r][i]] = IF i = Len(stack'[r]) THEN NULL
                                             ELSE stack'[r][i + 1]
                    /\ \A t \in Stacks : \A k \in DOMAIN stack'[t] :
                          stack'[t][k] = stack'[r][i] => t = r /\ k = i
      BY DEF StacksLinked
    <2>1. head'[r] = IF stack'[r] = << >> THEN NULL ELSE stack'[r][1]
      <3>1. CASE r = s
        <4>1. head'[s] = x
          BY <1>3 DEF Types, StackTypeOK
        <4> QED BY <1>11, <3>1, <4>1
      <3>2. CASE r # s
        <4>1. head'[r] = head[r] /\ stack'[r] = stack[r]
          BY <1>3, <1>10, <3>2 DEF Types, StackTypeOK
        <4> QED BY <4>1 DEF StacksLinked
      <3> QED BY <3>1, <3>2
    <2>2. ASSUME NEW i \in DOMAIN stack'[r]
          PROVE  next'[stack'[r][i]] = IF i = Len(stack'[r]) THEN NULL
                                       ELSE stack'[r][i + 1]
      <3>1. CASE r = s /\ i = 1
        <4>1. next'[stack'[r][i]] = IF stack[s] = << >> THEN NULL
                                    ELSE stack[s][1]
          BY <1>3, <1>4, <1>11, <3>1 DEF StacksLinked
        <4>2. (stack[s] = << >>) <=> (Len(stack[s]) = 0)
          BY <1>5
        <4>3. stack[s] # << >> => stack'[s][2] = stack[s][1]
          BY <1>5, <1>10
        <4>4. (Len(stack[s]) = 0) <=> (i = Len(stack'[r]))
          <5>1. PICK n \in Nat : n = Len(stack[s])
            BY <1>5
          <5>2. Len(stack'[r]) = n + 1
            BY <1>11, <3>1, <5>1
          <5>3. n = 0 <=> 1 = n + 1
            OBVIOUS
          <5> QED BY <3>1, <5>1, <5>2, <5>3
        <4>5. i + 1 = 2
          BY <3>1
        <4> QED BY <3>1, <4>1, <4>2, <4>3, <4>4, <4>5
      <3>2. CASE r # s \/ i # 1
        <4>1. PICK k \in DOMAIN stack[r] :
                    /\ i \in Nat
                    /\ k = IF r = s THEN i - 1 ELSE i
                    /\ stack'[r][i] = stack[r][k]
          BY <1>13, <3>2
        <4>2. next[stack[r][k]] = IF k = Len(stack[r]) THEN NULL
                                  ELSE stack[r][k + 1]
          BY DEF StacksLinked
        <4>3. CASE r = s
          <5>1. i # Len(stack'[s]) => stack'[s][i + 1] = stack[s][i]
            BY <1>5, <1>10, <4>1, <4>3
          <5>2. k = i - 1 /\ k + 1 = i /\ k \in Nat
            BY <1>5, <4>1, <4>3
          <5>3. next'[stack'[s][i]] = next[stack[s][k]]
            BY <1>3, <4>1, <4>3
          <5>4. k = Len(stack[s]) <=> i = Len(stack'[s])
            BY <1>5, <1>11, <4>1, <5>2
          <5>5. next[stack[s][k]] = IF k = Len(stack[s]) THEN NULL
                                    ELSE stack[s][i]
            BY <4>2, <4>3, <5>2
          <5> QED BY <4>3, <5>1, <5>3, <5>4, <5>5
        <4>4. CASE r # s
          BY <1>3, <1>10, <4>1, <4>2, <4>4
        <4> QED BY <4>3, <4>4
      <3> QED BY <3>1, <3>2
    <2>3. ASSUME NEW i \in DOMAIN stack'[r], NEW t \in Stacks,
                 NEW k \in DOMAIN stack'[t], stack'[t][k] = stack'[r][i]
          PROVE  t = r /\ k = i
      <3>1. CASE r = s /\ i = 1
        BY <1>11, <1>13, <2>3, <3>1
      <3>2. CASE t = s /\ k = 1
        BY <1>11, <1>13, <2>3, <3>2
      <3>3. CASE (r # s \/ i # 1) /\ (t # s \/ k # 1)
        <4>1. PICK j \in DOMAIN stack[r] :
                /\ i \in Nat /\ j = IF r = s THEN i - 1 ELSE i
                /\ stack'[r][i] = stack[r][j]
          BY <1>13, <3>3
        <4>2. PICK l \in DOMAIN stack[t] :
                /\ k \in Nat /\ l = IF t = s THEN k - 1 ELSE k
                /\ stack'[t][k] = stack[t][l]
          BY <1>13, <3>3
        <4>3. t = r /\ l = j
          BY <2>3, <4>1, <4>2 DEF StacksLinked
        <4> QED BY <4>1, <4>2, <4>3
      <3> QED BY <3>1, <3>2, <3>3
    <2> QED BY <2>1, <2>2, <2>3
  <1>15. HandsAreApart'
    <2>1. \A y : OnStack(y)' => OnStack(y) \/ y = x
      BY <1>13 DEF OnStack
    <2>2. /\ node'[p] = NULL
          /\ \A q \in Procs \ {p} : node'[q] = node[q] /\ node[q] # x
      BY <1>3, <1>6 DEF Mine, Types, StackTypeOK
    <2> QED BY <2>1, <2>2 DEF HandsAreApart, Mine
  <1>16. FreshIsTrue'
    <2> SUFFICES ASSUME NEW q \in Procs, seen'[q].fresh
        PROVE  /\ pc'[q] \in {"pop_next", "pop_cas", "push_next", "push_cas"}
               /\ seen'[q].original = head'[at'[q]]
               /\ pc'[q] = "pop_cas" => seen'[q].next = next'[seen'[q].original]
               /\ pc'[q] = "push_cas" => next'[node'[q]] = seen'[q].original
      BY DEF FreshIsTrue
    <2>1. /\ q # p /\ seen[q].fresh /\ at[q] # s
          /\ seen'[q].original = seen[q].original /\ seen'[q].next = seen[q].next
      BY <1>9
    <2>2. /\ pc'[q] = pc[q] /\ node'[q] = node[q] /\ at'[q] = at[q]
      BY <1>3, <2>1 DEF Types, StackTypeOK
    <2>3. /\ pc[q] \in {"pop_next", "pop_cas", "push_next", "push_cas"}
          /\ seen[q].original = head[at[q]]
          /\ pc[q] = "pop_cas" => seen[q].next = next[seen[q].original]
          /\ pc[q] = "push_cas" => next[node[q]] = seen[q].original
      BY <2>1 DEF FreshIsTrue
    <2>4. at[q] \in Stacks
      BY <2>3 DEF Types, StackLabels
    <2>5. head'[at[q]] = head[at[q]]
      BY <1>3, <2>1, <2>4 DEF Types, StackTypeOK
    <2> QED BY <1>3, <2>1, <2>2, <2>3, <2>5
  <1> QED BY <1>12, <1>14, <1>15, <1>16

(* A step of the code that uses the stacks.                                *)
LEMMA ClientInd ==
    ASSUME StackInd, NEW p \in Procs, Client(p)
    PROVE  StackInd'
  <1> USE StackAssumption DEF StackInd
  <1>1. /\ UNCHANGED <<head, stack, seen>> /\ Writes(p)
        /\ pc[p] \notin StackLabels /\ ret'[p] \notin StackLabels
    BY DEF Client, CallPop, CallPush, Onward
  <1>2. \/ /\ node'[p] = NULL /\ at'[p] \in Stacks /\ pc'[p] = "pop_head"
        \/ /\ node'[p] \in Nodes /\ Mine(p, node'[p])
           /\ at'[p] \in Stacks /\ pc'[p] = "push_head"
        \/ /\ node'[p] = NULL /\ at'[p] = NULL /\ pc'[p] \notin StackLabels
    BY DEF Client, CallPop, CallPush, Onward, Types, StackTypeOK
  <1>3. /\ node' = [node EXCEPT ![p] = node'[p]] /\ at' = [at EXCEPT ![p] = at'[p]]
        /\ pc' = [pc EXCEPT ![p] = pc'[p]] /\ ret' = [ret EXCEPT ![p] = ret'[p]]
    BY DEF Client, CallPop, CallPush, Onward, Types, StackTypeOK
  <1>4. \A q \in Procs \ {p} : /\ node'[q] = node[q] /\ at'[q] = at[q]
                               /\ pc'[q] = pc[q] /\ ret'[q] = ret[q]
    BY <1>3 DEF Types, StackTypeOK
  <1>5. StackTypeOK'
    BY <1>1, <1>2, <1>3 DEF Types, StackTypeOK, Writes
  <1>6. Types'
    <2>1. pc' = [q \in Procs |-> pc'[q]] /\ ret' = [q \in Procs |-> ret'[q]]
      BY <1>3 DEF Types
    <2> QED BY <1>1, <1>2, <1>4, <1>5, <2>1
            DEF Types, StackLabels, Popping, Pushing
  <1>7. StacksLinked'
    BY <1>1, OwnWrites
  <1>8. HandsAreApart'
    BY <1>1, <1>2, <1>4 DEF HandsAreApart, Mine, OnStack
  <1>9. FreshIsTrue'
    <2>1. ~ seen[p].fresh
      BY <1>1 DEF FreshIsTrue, StackLabels
    <2>2. \A q \in Procs \ {p} : seen[q].fresh =>
                /\ pc[q] = "pop_cas" =>
                      next'[seen[q].original] = next[seen[q].original]
                /\ pc[q] = "push_cas" => next'[node[q]] = next[node[q]]
      BY <1>1, OwnWrites
    <2> QED BY <1>1, <1>4, <2>1, <2>2 DEF FreshIsTrue
  <1> QED BY <1>6, <1>7, <1>8, <1>9

-----------------------------------------------------------------------------
(* The invariant holds in every state.                                     *)
LEMMA StackInvariance == StackSpec => []StackInd
  <1>1. StackInit => StackInd
    <2> SUFFICES ASSUME StackInit PROVE StackInd
      OBVIOUS
    <2>1. pc = [p \in Procs |-> pc[p]] /\ ret = [p \in Procs |-> ret[p]]
      BY DEF StackInit
    <2>2. Types
      BY <2>1 DEF StackInit, Types, StackLabels, Popping, Pushing
    <2>3. HandsAreApart /\ FreshIsTrue
      BY DEF StackInit, HandsAreApart, FreshIsTrue, Unseen
    <2> QED BY <2>2, <2>3 DEF StackInit, StackInd
  <1>2. StackInd /\ [\E p \in Procs : StackStep(p) \/ Client(p)]_svars
           => StackInd'
    <2> SUFFICES ASSUME StackInd,
                        [\E p \in Procs : StackStep(p) \/ Client(p)]_svars
                 PROVE  StackInd'
      OBVIOUS
    <2>1. CASE UNCHANGED svars
      BY <2>1 DEF svars, StackInd, Types, StackTypeOK, StacksLinked,
                  HandsAreApart, Mine, OnStack, FreshIsTrue
    <2>2. ASSUME NEW p \in Procs, StackStep(p) PROVE StackInd'
      BY <2>2, PopReadInd, PopCasInd, PushReadInd, PushNextInd, PushCasInd
         DEF StackStep
    <2>3. ASSUME NEW p \in Procs, Client(p) PROVE StackInd'
      BY <2>3, ClientInd
    <2> QED BY <2>1, <2>2, <2>3
  <1> QED BY <1>1, <1>2, PTL DEF StackSpec

(* Stack::push and Stack::pop leave the links that atomic operations would *)
(* have left, although pop reads the next word of an element which another *)
(* CPU may have taken, written over and pushed again.                      *)
THEOREM StacksLinkedHolds == StackSpec => []StacksLinked
  BY StackInvariance, PTL DEF StackInd

(* A pop never fails its crit_assert: the next word it has read had the    *)
(* TOKEN whenever its compare-and-swap succeeds.                           *)
THEOREM TokenIsFound == StackSpec => [](\A p \in Procs : pc[p] # "crit_assert")
  <1>1. StackInd => \A p \in Procs : pc[p] # "crit_assert"
    BY DEF StackInd, Types
  <1> QED BY <1>1, StackInvariance, PTL
=============================================================================
