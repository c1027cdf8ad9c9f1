-------------------------- MODULE SchedulerProofs --------------------------
(***************************************************************************)
(* What the scheduler's operators do with the tasks they are given, for    *)
(* any finite sets of CPUs and tasks: each keeps every task in the place   *)
(* it has, or moves it from one place to another.  The kernel entries that *)
(* are made of them are in MsgQueueProofs and BlockProofs.  The places are *)
(* lists, so the module begins with lemmas about lists.                    *)
(***************************************************************************)
EXTENDS Scheduler, FiniteSetTheorems, SequenceTheorems, WellFoundedInduction,
        TLAPS

(* Of the natural numbers in a set one is the least: what induction is     *)
(* made of here.                                                           *)
LEMMA LeastNatural ==
    ASSUME NEW S, S \subseteq Nat, S # {}
    PROVE  \E n \in S : \A m \in S : n <= m
  <1> DEFINE Less == {ss \in Nat \X Nat : ss[1] < ss[2]}
  <1>1. IsWellFoundedOn(Less, Nat)
    BY NatLessThanWellFounded, Zenon DEF OpToRel
  <1>2. ASSUME NEW m \in Nat, NEW n \in Nat, m < n
        PROVE  <<m, n>> \in Less
    BY <1>2
  <1> HIDE DEF Less
  <1>3. PICK n \in S : \A m \in S : ~(<<m, n>> \in Less)
    BY <1>1, WFMin
  <1>4. ASSUME NEW m \in S PROVE n <= m
    <2>1. m \in Nat /\ n \in Nat
      OBVIOUS
    <2>2. ~(m < n)
      BY <1>2, <1>3, <2>1
    <2> QED BY <2>1, <2>2
  <1> QED BY <1>4

-----------------------------------------------------------------------------
(* Lists                                                                   *)

(* Who is on a list, and that nobody is on it twice.                       *)
OnList(q, t) == \E i \in DOMAIN q : q[i] = t
NoneTwice(q) == \A i, j \in DOMAIN q : q[i] = q[j] => i = j

(* A list and its places.                                                  *)
LEMMA ListPlaces ==
    ASSUME NEW S, NEW q \in Seq(S)
    PROVE  /\ Len(q) \in Nat /\ DOMAIN q = 1 .. Len(q)
           /\ \A i \in 1 .. Len(q) : q[i] \in S
           /\ \A t : OnList(q, t) => t \in S
           /\ q # << >> => Len(q) # 0
  BY LenProperties, ElementOfSeq, EmptySeq DEF OnList

(* The empty list.                                                         *)
LEMMA ListEmpty ==
    ASSUME NEW S
    PROVE  /\ << >> \in Seq(S) /\ NoneTwice(<< >>)
           /\ \A t : ~OnList(<< >>, t)
  BY EmptySeq DEF NoneTwice, OnList

(* push_back                                                               *)
LEMMA ListAppend ==
    ASSUME NEW S, NEW q \in Seq(S), NEW t \in S
    PROVE  /\ Append(q, t) \in Seq(S)
           /\ \A u : OnList(Append(q, t), u) <=> OnList(q, u) \/ u = t
           /\ NoneTwice(q) /\ ~OnList(q, t) => NoneTwice(Append(q, t))
  <1> DEFINE r == Append(q, t)
  <1>1. /\ r \in Seq(S) /\ DOMAIN q = 1 .. Len(q) /\ Len(q) \in Nat
        /\ DOMAIN r = 1 .. Len(q) + 1 /\ r[Len(q) + 1] = t
        /\ \A i \in 1 .. Len(q) : r[i] = q[i]
    BY AppendProperties, LenProperties
  <1> HIDE DEF r
  <1>2. ASSUME NEW u, OnList(r, u) PROVE OnList(q, u) \/ u = t
    <2>1. PICK i \in DOMAIN r : r[i] = u
      BY <1>2 DEF OnList
    <2> QED BY <1>1, <2>1 DEF OnList
  <1>3. ASSUME NEW u, OnList(q, u) PROVE OnList(r, u)
    <2>1. PICK i \in DOMAIN q : q[i] = u
      BY <1>3 DEF OnList
    <2>2. i \in DOMAIN r /\ r[i] = u
      BY <1>1, <2>1
    <2> QED BY <2>2 DEF OnList
  <1>4. OnList(r, t)
    <2>1. Len(q) + 1 \in DOMAIN r
      BY <1>1
    <2> QED BY <1>1, <2>1 DEF OnList
  <1>5. NoneTwice(q) /\ ~OnList(q, t) => NoneTwice(r)
    BY <1>1 DEF NoneTwice, OnList
  <1> QED BY <1>1, <1>2, <1>3, <1>4, <1>5 DEF r

(* A list all of whose entries come from different places of another.      *)
LEMMA ListPicked ==
    ASSUME NEW q, NEW r, NEW f \in [DOMAIN r -> DOMAIN q],
           \A i \in DOMAIN r : r[i] = q[f[i]],
           \A i, j \in DOMAIN r : f[i] = f[j] => i = j
    PROVE  /\ \A u : OnList(r, u) => OnList(q, u)
           /\ NoneTwice(q) => NoneTwice(r)
           /\ NoneTwice(q) => \A n \in DOMAIN q :
                 (\A i \in DOMAIN r : f[i] # n) => ~OnList(r, q[n])
           /\ \A n \in DOMAIN q :
                 (\E i \in DOMAIN r : f[i] = n) => OnList(r, q[n])
  <1>1. ASSUME NEW u, OnList(r, u) PROVE OnList(q, u)
    <2>1. PICK i \in DOMAIN r : r[i] = u
      BY <1>1 DEF OnList
    <2>2. f[i] \in DOMAIN q /\ q[f[i]] = u
      BY <2>1
    <2> QED BY <2>2 DEF OnList
  <1>2. ASSUME NoneTwice(q) PROVE NoneTwice(r)
    BY <1>2 DEF NoneTwice
  <1>3. ASSUME NoneTwice(q), NEW n \in DOMAIN q,
               \A i \in DOMAIN r : f[i] # n
        PROVE  ~OnList(r, q[n])
    BY <1>3 DEF NoneTwice, OnList
  <1>4. ASSUME NEW n \in DOMAIN q, NEW i \in DOMAIN r, f[i] = n
        PROVE  OnList(r, q[n])
    BY <1>4 DEF OnList
  <1> QED BY <1>1, <1>2, <1>3, <1>4

(* pop_front                                                               *)
LEMMA ListTail ==
    ASSUME NEW S, NEW q \in Seq(S), q # << >>
    PROVE  /\ Head(q) \in S /\ OnList(q, Head(q)) /\ Tail(q) \in Seq(S)
           /\ \A u : OnList(Tail(q), u) => OnList(q, u)
           /\ \A u : OnList(q, u) => u = Head(q) \/ OnList(Tail(q), u)
           /\ NoneTwice(q) => NoneTwice(Tail(q)) /\ ~OnList(Tail(q), Head(q))
  <1> DEFINE r == Tail(q)
             f == [i \in DOMAIN r |-> i + 1]
  <1>1. /\ Len(q) \in Nat /\ Len(q) # 0 /\ DOMAIN q = 1 .. Len(q)
        /\ Head(q) = q[1] /\ Head(q) \in S /\ r \in Seq(S)
        /\ DOMAIN r = 1 .. Len(q) - 1
        /\ \A i \in 1 .. Len(q) - 1 : r[i] = q[i + 1]
    BY HeadTailProperties, LenProperties, EmptySeq
  <1> HIDE DEF r
  <1>2. /\ f \in [DOMAIN r -> DOMAIN q]
        /\ \A i \in DOMAIN r : r[i] = q[f[i]]
        /\ \A i, j \in DOMAIN r : f[i] = f[j] => i = j
        /\ \A i \in DOMAIN r : f[i] # 1
    BY <1>1
  <1>3. \A n \in DOMAIN q : n # 1 => \E i \in DOMAIN r : f[i] = n
    <2> SUFFICES ASSUME NEW n \in DOMAIN q, n # 1
                 PROVE  \E i \in DOMAIN r : f[i] = n
      OBVIOUS
    <2>1. n - 1 \in DOMAIN r /\ (n - 1) + 1 = n
      BY <1>1
    <2> QED BY <2>1
  <1> HIDE DEF f
  <1>4. 1 \in DOMAIN q /\ OnList(q, Head(q))
    BY <1>1 DEF OnList
  <1>5. /\ \A u : OnList(r, u) => OnList(q, u)
        /\ NoneTwice(q) => NoneTwice(r) /\ ~OnList(r, q[1])
        /\ \A n \in DOMAIN q : n # 1 => OnList(r, q[n])
    BY <1>2, <1>3, <1>4, ListPicked
  <1>6. ASSUME NEW u, OnList(q, u) PROVE u = Head(q) \/ OnList(r, u)
    <2>1. PICK n \in DOMAIN q : q[n] = u
      BY <1>6 DEF OnList
    <2> QED BY <1>1, <1>5, <2>1
  <1> QED BY <1>1, <1>4, <1>5, <1>6 DEF r

(* The last entries of a list.                                             *)
LEMMA ListDrop ==
    ASSUME NEW S, NEW q \in Seq(S), NEW n \in 0 .. Len(q)
    PROVE  LET r == SubSeq(q, n + 1, Len(q)) IN
           /\ r \in Seq(S)
           /\ \A u : OnList(r, u) => OnList(q, u)
           /\ \A u : OnList(q, u) =>
                 OnList(r, u) \/ \E i \in 1 .. n : q[i] = u
           /\ NoneTwice(q) =>
                 NoneTwice(r) /\ \A i \in 1 .. n : ~OnList(r, q[i])
  <1> DEFINE r == SubSeq(q, n + 1, Len(q))
             f == [i \in DOMAIN r |-> n + i]
  <1>1. /\ Len(q) \in Nat /\ DOMAIN q = 1 .. Len(q)
        /\ \A i \in 1 .. Len(q) : q[i] \in S
    BY ListPlaces
  <1>2. /\ r \in Seq(S) /\ DOMAIN r = 1 .. Len(q) - n
        /\ \A i \in 1 .. Len(q) - n : r[i] = q[n + i]
    <2>1. \A i \in n + 1 .. Len(q) : q[i] \in S
      BY <1>1
    <2>2. /\ r \in Seq(S)
          /\ Len(r) = IF n + 1 <= Len(q) THEN Len(q) - (n + 1) + 1 ELSE 0
          /\ \A i \in 1 .. Len(q) - (n + 1) + 1 : r[i] = q[n + 1 + i - 1]
      BY <1>1, <2>1, SubSeqProperties
    <2>3. DOMAIN r = 1 .. Len(r)
      BY <2>2, LenProperties
    <2> HIDE DEF r
    <2>4. Len(r) = Len(q) - n
      <3>1. n \in Nat /\ n <= Len(q) /\ Len(q) \in Nat
        BY <1>1
      <3>2. Len(r) = IF n + 1 <= Len(q) THEN Len(q) - (n + 1) + 1 ELSE 0
        BY <2>2
      <3>3. \A k \in Nat : n <= k =>
               (IF n + 1 <= k THEN k - (n + 1) + 1 ELSE 0) = k - n
        BY <3>1
      <3> QED BY <3>1, <3>2, <3>3
    <2>5. ASSUME NEW i \in 1 .. Len(q) - n PROVE r[i] = q[n + i]
      <3>1. i \in 1 .. Len(q) - (n + 1) + 1 /\ n + 1 + i - 1 = n + i
        BY <1>1
      <3> QED BY <2>2, <3>1
    <2> QED BY <2>2, <2>3, <2>4, <2>5
  <1> HIDE DEF r
  <1>3. /\ f \in [DOMAIN r -> DOMAIN q]
        /\ \A i \in DOMAIN r : r[i] = q[f[i]]
        /\ \A i, j \in DOMAIN r : f[i] = f[j] => i = j
        /\ \A i \in DOMAIN r : \A k \in 1 .. n : f[i] # k
    BY <1>1, <1>2
  <1>4. \A k \in DOMAIN q : k \notin 1 .. n => \E i \in DOMAIN r : f[i] = k
    <2> SUFFICES ASSUME NEW k \in DOMAIN q, k \notin 1 .. n
                 PROVE  \E i \in DOMAIN r : f[i] = k
      OBVIOUS
    <2>1. k - n \in DOMAIN r /\ n + (k - n) = k
      BY <1>1, <1>2
    <2> QED BY <2>1
  <1> HIDE DEF f
  <1>5. /\ \A u : OnList(r, u) => OnList(q, u)
        /\ NoneTwice(q) => NoneTwice(r)
        /\ NoneTwice(q) => \A k \in 1 .. n : k \in DOMAIN q => ~OnList(r, q[k])
        /\ \A k \in DOMAIN q : k \notin 1 .. n => OnList(r, q[k])
    BY <1>3, <1>4, ListPicked
  <1>6. ASSUME NEW u, OnList(q, u)
        PROVE  OnList(r, u) \/ \E i \in 1 .. n : q[i] = u
    <2>1. PICK k \in DOMAIN q : q[k] = u
      BY <1>6 DEF OnList
    <2> QED BY <1>5, <2>1
  <1>7. 1 .. n \subseteq DOMAIN q
    BY <1>1
  <1> QED BY <1>2, <1>5, <1>6, <1>7 DEF r

(* Concatenation.                                                          *)
LEMMA ListConcat ==
    ASSUME NEW S, NEW p \in Seq(S), NEW q \in Seq(S)
    PROVE  /\ p \o q \in Seq(S)
           /\ \A u : OnList(p \o q, u) <=> OnList(p, u) \/ OnList(q, u)
           /\ NoneTwice(p) /\ NoneTwice(q) 
                /\ (\A u : ~(OnList(p, u) /\ OnList(q, u)))
                 => NoneTwice(p \o q)
  <1> DEFINE r == p \o q
  <1>1. /\ Len(p) \in Nat /\ Len(q) \in Nat
        /\ DOMAIN p = 1 .. Len(p) /\ DOMAIN q = 1 .. Len(q)
        /\ r \in Seq(S) /\ Len(r) = Len(p) + Len(q)
        /\ \A i \in 1 .. Len(p) + Len(q) :
              r[i] = IF i <= Len(p) THEN p[i] ELSE q[i - Len(p)]
    BY ConcatProperties, LenProperties
  <1>2. DOMAIN r = 1 .. Len(p) + Len(q)
    BY <1>1, LenProperties
  <1> HIDE DEF r
  <1>3. \A i \in DOMAIN r :
           \/ i \in DOMAIN p /\ r[i] = p[i]
           \/ /\ i \notin DOMAIN p /\ i - Len(p) \in DOMAIN q
              /\ r[i] = q[i - Len(p)]
    BY <1>1, <1>2
  <1>4. /\ \A i \in DOMAIN p : i \in DOMAIN r /\ r[i] = p[i]
        /\ \A i \in DOMAIN q : Len(p) + i \in DOMAIN r /\ r[Len(p) + i] = q[i]
    <2>1. ASSUME NEW i \in DOMAIN q
          PROVE  Len(p) + i \in DOMAIN r /\ r[Len(p) + i] = q[i]
      <3>1. Len(p) + i \in DOMAIN r /\ ~(Len(p) + i <= Len(p))
            /\ (Len(p) + i) - Len(p) = i
        BY <1>1, <1>2
      <3> QED BY <1>1, <1>2, <3>1
    <2> QED BY <1>1, <1>2, <2>1
  <1>5. \A u : OnList(r, u) <=> OnList(p, u) \/ OnList(q, u)
    BY <1>3, <1>4 DEF OnList
  <1>6. ASSUME NoneTwice(p), NoneTwice(q),
               \A u : ~(OnList(p, u) /\ OnList(q, u))
        PROVE  NoneTwice(r)
    <2> SUFFICES ASSUME NEW i \in DOMAIN r, NEW j \in DOMAIN r, r[i] = r[j]
                 PROVE  i = j
      BY DEF NoneTwice
    <2>1. CASE i \in DOMAIN p /\ j \in DOMAIN p
      BY <1>4, <1>6, <2>1 DEF NoneTwice
    <2>2. CASE i \notin DOMAIN p /\ j \notin DOMAIN p
      <3>1. i - Len(p) = j - Len(p)
        BY <1>3, <1>6, <2>2 DEF NoneTwice
      <3> QED BY <1>1, <1>2, <3>1
    <2>3. CASE i \in DOMAIN p /\ j \notin DOMAIN p
      BY <1>3, <1>6, <2>3 DEF OnList
    <2>4. CASE i \notin DOMAIN p /\ j \in DOMAIN p
      BY <1>3, <1>6, <2>4 DEF OnList
    <2> QED BY <2>1, <2>2, <2>3, <2>4
  <1> QED BY <1>1, <1>5, <1>6 DEF r

(* A list of one.                                                          *)
LEMMA ListOne ==
    ASSUME NEW S, NEW t \in S
    PROVE  /\ <<t>> \in Seq(S) /\ NoneTwice(<<t>>)
           /\ \A u : OnList(<<t>>, u) <=> u = t
  <1>1. <<t>> \in Seq(S) /\ DOMAIN <<t>> = {1} /\ <<t>>[1] = t
    OBVIOUS
  <1> QED BY <1>1 DEF NoneTwice, OnList

(* The first entries of a list.                                            *)
LEMMA ListTake ==
    ASSUME NEW S, NEW q \in Seq(S), NEW n \in 0 .. Len(q)
    PROVE  LET r == SubSeq(q, 1, n) IN
           /\ r \in Seq(S)
           /\ \A u : OnList(r, u) <=> \E i \in 1 .. n : q[i] = u
           /\ NoneTwice(q) => NoneTwice(r)
  <1> DEFINE r == SubSeq(q, 1, n)
  <1>1. /\ Len(q) \in Nat /\ DOMAIN q = 1 .. Len(q)
        /\ \A i \in 1 .. Len(q) : q[i] \in S
    BY ListPlaces
  <1>2. /\ r \in Seq(S) /\ DOMAIN r = 1 .. n
        /\ \A i \in 1 .. n : r[i] = q[i]
    <2>1. \A i \in 1 .. n : q[i] \in S
      BY <1>1
    <2>2. /\ r \in Seq(S)
          /\ Len(r) = IF 1 <= n THEN n - 1 + 1 ELSE 0
          /\ \A i \in 1 .. n - 1 + 1 : r[i] = q[1 + i - 1]
      BY <1>1, <2>1, SubSeqProperties
    <2>3. DOMAIN r = 1 .. Len(r)
      BY <2>2, LenProperties
    <2> HIDE DEF r
    <2> QED BY <1>1, <2>2, <2>3
  <1> HIDE DEF r
  <1>3. NoneTwice(q) => NoneTwice(r)
    BY <1>1, <1>2 DEF NoneTwice
  <1> QED BY <1>2, <1>3 DEF r, OnList

(* One entry is taken off a list.                                          *)
LEMMA ListErase ==
    ASSUME NEW S, NEW q \in Seq(S), NEW n \in DOMAIN q
    PROVE  LET r == SubSeq(q, 1, n - 1) \o SubSeq(q, n + 1, Len(q)) IN
           /\ r \in Seq(S) /\ Len(r) = Len(q) - 1
           /\ NoneTwice(q) =>
                 /\ NoneTwice(r)
                 /\ \A u : OnList(r, u) <=> (OnList(q, u) /\ u # q[n])
  <1> DEFINE front == SubSeq(q, 1, n - 1)
             back == SubSeq(q, n + 1, Len(q))
  <1>1. Len(q) \in Nat /\ DOMAIN q = 1 .. Len(q)
    BY ListPlaces
  <1>2. n \in Nat /\ n - 1 \in 0 .. Len(q) /\ n \in 0 .. Len(q) /\ n \in 1 .. n
    BY <1>1
  <1>3. /\ front \in Seq(S)
        /\ NoneTwice(q) => NoneTwice(front)
        /\ \A u : OnList(front, u) <=> \E i \in 1 .. n - 1 : q[i] = u
    BY <1>2, ListTake
  <1>4. /\ back \in Seq(S)
        /\ \A u : OnList(back, u) => OnList(q, u)
        /\ \A u : OnList(q, u) =>
              OnList(back, u) \/ \E i \in 1 .. n : q[i] = u
        /\ NoneTwice(q) =>
              NoneTwice(back) /\ \A i \in 1 .. n : ~OnList(back, q[i])
    BY <1>2, ListDrop
  <1>a. Len(front) = n - 1 /\ Len(back) = Len(q) - n
    BY <1>1, <1>2
  <1> HIDE DEF front, back
  <1>b. Len(front \o back) = Len(q) - 1
    <2>1. Len(front \o back) = Len(front) + Len(back)
      BY <1>3, <1>4, ConcatProperties
    <2> QED BY <1>1, <1>2, <1>a, <2>1
  <1>5. /\ \A i \in 1 .. n - 1 : i \in DOMAIN q /\ i \in 1 .. n /\ i # n
        /\ \A i \in 1 .. n : i = n \/ i \in 1 .. n - 1
    BY <1>1, <1>2
  <1>c. front \o back \in Seq(S)
    BY <1>3, <1>4, ListConcat
  <1>d. ASSUME NoneTwice(q)
        PROVE  /\ NoneTwice(front \o back)
               /\ \A u : OnList(front \o back, u)
                            <=> (OnList(q, u) /\ u # q[n])
    <2>6. \A u : ~(OnList(front, u) /\ OnList(back, u))
      BY <1>3, <1>4, <1>5, <1>d
    <2>7. /\ NoneTwice(front \o back)
          /\ \A u : OnList(front \o back, u)
                       <=> OnList(front, u) \/ OnList(back, u)
      BY <1>3, <1>4, <1>d, <2>6, ListConcat
    <2>9. ASSUME NEW u
          PROVE  OnList(front, u) \/ OnList(back, u)
                    <=> (OnList(q, u) /\ u # q[n])
      <3>1. OnList(front, u) => OnList(q, u) /\ u # q[n]
        BY <1>3, <1>5, <1>d DEF OnList, NoneTwice
      <3>2. OnList(back, u) => OnList(q, u) /\ u # q[n]
        BY <1>2, <1>4, <1>d
      <3>3. OnList(q, u) /\ u # q[n] => OnList(front, u) \/ OnList(back, u)
        BY <1>3, <1>4, <1>5
      <3> QED BY <3>1, <3>2, <3>3
    <2> QED BY <2>7, <2>9
  <1> QED BY <1>b, <1>c, <1>d DEF front, back

(* The state in which the first n tasks are off the delay list of c.       *)
WithoutDue(s, c, n) == [s EXCEPT !.delayed[c] = SubSeq(@, n + 1, Len(@))]

(* checkReleaseTasks is what it is meant to be: addTask, one due task      *)
(* after the other, on the state without them on the delay list.           *)
LEMMA ReleaseSteps ==
    ASSUME NEW s, NEW c, NEW n \in Nat
    PROVE  \E g : /\ g[n] = checkReleaseTasks(s, c, n)
                  /\ g[0] = WithoutDue(s, c, n)
                  /\ \A i \in 1 .. n :
                        g[i] = addTask(g[i - 1], s.delayed[c][i])
  <1> DEFINE first == [s EXCEPT !.delayed[c] = SubSeq(@, n + 1, Len(@))]
             release[i \in 0 .. n] ==
                 IF i = 0 THEN first
                          ELSE addTask(release[i - 1], s.delayed[c][i])
             Upto(g, k) == g = [i \in 0 .. k |->
                 IF i = 0 THEN first ELSE addTask(g[i - 1], s.delayed[c][i])]
             Bad == {k \in 0 .. n : ~\E g : Upto(g, k)}
  <1>1. checkReleaseTasks(s, c, n) = release[n]
    BY DEF checkReleaseTasks
  <1>2. first = WithoutDue(s, c, n)
    BY Zenon DEF WithoutDue
  <1> HIDE DEF first
  <1>3. Bad = {}
    <2> SUFFICES ASSUME Bad # {} PROVE FALSE
      OBVIOUS
    <2>1. Bad \subseteq Nat
      OBVIOUS
    <2>2. PICK k \in Bad : \A j \in Bad : k <= j
      <3> HIDE DEF Bad
      <3> QED BY <2>1, LeastNatural
    <2>3. k # 0
      <3> SUFFICES ASSUME k = 0 PROVE FALSE
        OBVIOUS
      <3> DEFINE h == [i \in 0 .. 0 |-> first]
      <3>1. Upto(h, 0)
        OBVIOUS
      <3> QED BY <3>1
    <2>4. PICK g : Upto(g, k - 1)
      BY <2>2, <2>3
    <2> DEFINE h == [i \in 0 .. k |->
                 IF i = 0 THEN first ELSE addTask(g[i - 1], s.delayed[c][i])]
    <2>5. \A i \in 0 .. k - 1 : h[i] = g[i]
      BY <2>3, <2>4
    <2>6. Upto(h, k)
      BY <2>3, <2>4, <2>5
    <2> QED BY <2>6
  <1>4. PICK g : Upto(g, n)
    BY <1>3
  <1>5. Upto(release, n)
    BY <1>4
  <1> HIDE DEF release
  <1>6. /\ release[0] = first
        /\ \A i \in 1 .. n :
              release[i] = addTask(release[i - 1], s.delayed[c][i])
    BY <1>5
  <1>7. /\ release[n] = checkReleaseTasks(s, c, n)
        /\ release[0] = WithoutDue(s, c, n)
    BY <1>1, <1>2, <1>6, Zenon
  <1> QED BY <1>6, <1>7, Zenon

-----------------------------------------------------------------------------
(* The scheduler                                                           *)

(* The values of its state, and the kinds of places a task can be in.      *)
SchedStates ==
    [current : [Cpus -> Tasks \cup {Idle}], cpu : [Tasks -> Cpus],
     pinned : [Tasks -> Nat], runq : Seq(Tasks),
     localq : [Cpus -> Seq(Tasks)], delayed : [Cpus -> Seq(Tasks)]]

Kinds == {"current", "runq", "localq", "delayed"}

(* Task t is in place k of CPU c.  V are the CPUs whose task is about to   *)
(* be replaced: what runs there is not looked at.                          *)
At(s, V, k, c, t) ==
    \/ k = "current" /\ c \notin V /\ s.current[c] = t
    \/ k = "runq" /\ c = Master /\ OnList(s.runq, t)
    \/ k = "localq" /\ OnList(s.localq[c], t)
    \/ k = "delayed" /\ OnList(s.delayed[c], t)

(* Nobody is on one list twice, or in two places.                          *)
ListsOnce(s) ==
    /\ NoneTwice(s.runq)
    /\ \A c \in Cpus : NoneTwice(s.localq[c]) /\ NoneTwice(s.delayed[c])

Apart(s, V) ==
    \A k, l \in Kinds : \A c, d \in Cpus : \A t \in Tasks :
        At(s, V, k, c, t) /\ At(s, V, l, d, t) => k = l /\ c = d

(* The tasks that are in some place.                                       *)
Known(s, V) ==
    {t \in Tasks : \E k \in Kinds : \E c \in Cpus : At(s, V, k, c, t)}

(* The scheduler has the tasks of K, each of them once.                    *)
Holds(s, V, K) ==
    s \in SchedStates /\ ListsOnce(s) /\ Apart(s, V) /\ Known(s, V) = K

-----------------------------------------------------------------------------
(* What the scheduler's operators do with the tasks that it has.           *)

(* A scheduler state field by field.                                       *)
LEMMA SchedFields ==
    ASSUME NEW s \in SchedStates
    PROVE  /\ s.current \in [Cpus -> Tasks \cup {Idle}]
           /\ s.cpu \in [Tasks -> Cpus] /\ s.pinned \in [Tasks -> Nat]
           /\ s.runq \in Seq(Tasks)
           /\ s.localq \in [Cpus -> Seq(Tasks)]
           /\ s.delayed \in [Cpus -> Seq(Tasks)]
  BY DEF SchedStates

(* One more task, in one place.                                            *)
LEMMA OneMore ==
    ASSUME NEW s, NEW r \in SchedStates, NEW V, NEW W, NEW K,
           NEW t \in Tasks, NEW k0 \in Kinds, NEW c0 \in Cpus,
           Holds(s, V, K), t \notin K, ListsOnce(r),
           \A k \in Kinds : \A c \in Cpus : \A u \in Tasks :
              At(r, W, k, c, u) <=> \/ At(s, V, k, c, u)
                                    \/ k = k0 /\ c = c0 /\ u = t
    PROVE  Holds(r, W, K \cup {t})
  <1>1. \A k \in Kinds : \A c \in Cpus : ~At(s, V, k, c, t)
    BY DEF Holds, Known
  <1>2. Apart(r, W)
    BY <1>1 DEF Holds, Apart
  <1>3. Known(r, W) = K \cup {t}
    BY DEF Holds, Known
  <1> QED BY <1>2, <1>3 DEF Holds

(* Fewer tasks.                                                            *)
LEMMA Fewer ==
    ASSUME NEW s, NEW r \in SchedStates, NEW V, NEW W, NEW K, NEW T,
           Holds(s, V, K), ListsOnce(r),
           \A k \in Kinds : \A c \in Cpus : \A u \in Tasks :
              At(r, W, k, c, u) <=> At(s, V, k, c, u) /\ u \notin T
    PROVE  Holds(r, W, K \ T)
  <1>1. Apart(r, W)
    BY DEF Holds, Apart
  <1>2. Known(r, W) = K \ T
    BY DEF Holds, Known
  <1> QED BY <1>1, <1>2 DEF Holds

(* The task of a CPU that is about to be replaced.                         *)
LEMMA Vacated ==
    ASSUME NEW s, NEW K, NEW c0 \in Cpus, Holds(s, {}, K)
    PROVE  /\ Holds(s, {c0}, K \ {s.current[c0]})
           /\ s.current[c0] \in Tasks => s.current[c0] \in K
  <1>1. s \in SchedStates /\ ListsOnce(s)
    BY DEF Holds
  <1>2. s.current \in [Cpus -> Tasks \cup {Idle}]
    BY <1>1, SchedFields
  <1>3. ASSUME NEW k \in Kinds, NEW c \in Cpus, NEW u \in Tasks
        PROVE  At(s, {c0}, k, c, u)
                 <=> At(s, {}, k, c, u) /\ u \notin {s.current[c0]}
    <2>1. At(s, {}, "current", c0, s.current[c0])
      BY DEF At
    <2>2. ASSUME At(s, {}, k, c, u), u = s.current[c0]
          PROVE  k = "current" /\ c = c0
      BY <2>1, <2>2 DEF Holds, Apart, Kinds
    <2>3. At(s, {c0}, k, c, u)
            <=> At(s, {}, k, c, u) /\ ~(k = "current" /\ c = c0)
      BY DEF At
    <2>4. At(s, {}, "current", c0, u) => u = s.current[c0]
      BY DEF At
    <2> QED BY <2>2, <2>3, <2>4
  <1>4. Holds(s, {c0}, K \ {s.current[c0]})
    BY <1>1, <1>3, Fewer
  <1>5. ASSUME s.current[c0] \in Tasks PROVE s.current[c0] \in K
    BY <1>5 DEF Holds, Known, At, Kinds
  <1> QED BY <1>4, <1>5

(* addTask                                                                 *)
LEMMA AddTask ==
    ASSUME NEW s, NEW V, NEW K, NEW t \in Tasks, Holds(s, V, K), t \notin K
    PROVE  /\ Holds(addTask(s, t), V, K \cup {t})
           /\ addTask(s, t).current = s.current
           /\ addTask(s, t).delayed = s.delayed
  <1> DEFINE r == addTask(s, t)
  <1>1. /\ s \in SchedStates /\ ListsOnce(s)
        /\ \A k \in Kinds : \A c \in Cpus : ~At(s, V, k, c, t)
    BY DEF Holds, Known
  <1>2. /\ s.current \in [Cpus -> Tasks \cup {Idle}]
        /\ s.cpu \in [Tasks -> Cpus] /\ s.pinned \in [Tasks -> Nat]
        /\ s.runq \in Seq(Tasks)
        /\ s.localq \in [Cpus -> Seq(Tasks)]
        /\ s.delayed \in [Cpus -> Seq(Tasks)]
    BY <1>1, SchedFields
  <1>3. CASE s.pinned[t] # 0
    <2> DEFINE c0 == s.cpu[t]
    <2>1. r = [s EXCEPT !.localq[c0] = Append(@, t)]
      BY <1>3 DEF addTask
    <2>2. /\ r.current = s.current /\ r.cpu = s.cpu /\ r.pinned = s.pinned
          /\ r.runq = s.runq /\ r.delayed = s.delayed
          /\ r.localq = [s.localq EXCEPT ![c0] = Append(@, t)]
          /\ r = [current |-> r.current, cpu |-> r.cpu, pinned |-> r.pinned,
                  runq |-> r.runq, localq |-> r.localq,
                  delayed |-> r.delayed]
      BY <1>1, <2>1 DEF SchedStates
    <2>3. c0 \in Cpus
      BY <1>2
    <2> HIDE DEF r, c0
    <2>4. /\ Append(s.localq[c0], t) \in Seq(Tasks)
          /\ \A u : OnList(Append(s.localq[c0], t), u)
                       <=> OnList(s.localq[c0], u) \/ u = t
          /\ NoneTwice(Append(s.localq[c0], t))
      <3>1. s.localq[c0] \in Seq(Tasks)
        BY <1>2, <2>3
      <3>2. ~OnList(s.localq[c0], t) /\ NoneTwice(s.localq[c0])
        BY <1>1, <2>3 DEF At, Kinds, ListsOnce
      <3> QED BY <3>1, <3>2, ListAppend
    <2>5. /\ r.localq \in [Cpus -> Seq(Tasks)]
          /\ \A c \in Cpus :
                r.localq[c] = IF c = c0 THEN Append(s.localq[c0], t)
                                        ELSE s.localq[c]
      BY <1>2, <2>2, <2>3, <2>4
    <2>6. r \in SchedStates
      BY <1>2, <2>2, <2>5 DEF SchedStates
    <2>7. ListsOnce(r)
      BY <1>1, <2>2, <2>4, <2>5 DEF ListsOnce
    <2>8. ASSUME NEW k \in Kinds, NEW c \in Cpus, NEW u \in Tasks
          PROVE  At(r, V, k, c, u) <=> \/ At(s, V, k, c, u)
                                       \/ k = "localq" /\ c = c0 /\ u = t
      BY <2>2, <2>4, <2>5 DEF At, Kinds
    <2>9. "localq" \in Kinds
      BY DEF Kinds
    <2>10. Holds(r, V, K \cup {t})
      BY <2>3, <2>6, <2>7, <2>8, <2>9, OneMore
    <2> QED BY <2>2, <2>10 DEF r
  <1>4. CASE s.pinned[t] = 0
    <2>1. r = [s EXCEPT !.runq = Append(@, t)]
      BY <1>4 DEF addTask
    <2>2. /\ r.current = s.current /\ r.cpu = s.cpu /\ r.pinned = s.pinned
          /\ r.localq = s.localq /\ r.delayed = s.delayed
          /\ r.runq = Append(s.runq, t)
          /\ r = [current |-> r.current, cpu |-> r.cpu, pinned |-> r.pinned,
                  runq |-> r.runq, localq |-> r.localq,
                  delayed |-> r.delayed]
      BY <1>1, <2>1 DEF SchedStates
    <2> HIDE DEF r
    <2>3. /\ r.runq \in Seq(Tasks)
          /\ \A u : OnList(r.runq, u) <=> OnList(s.runq, u) \/ u = t
          /\ NoneTwice(r.runq)
      <3>1. ~OnList(s.runq, t) /\ NoneTwice(s.runq)
        BY <1>1, SchedulerAssumption DEF At, Kinds, ListsOnce
      <3> QED BY <1>2, <2>2, <3>1, ListAppend
    <2>4. r \in SchedStates
      BY <1>2, <2>2, <2>3 DEF SchedStates
    <2>5. ListsOnce(r)
      BY <1>1, <2>2, <2>3 DEF ListsOnce
    <2>6. ASSUME NEW k \in Kinds, NEW c \in Cpus, NEW u \in Tasks
          PROVE  At(r, V, k, c, u) <=> \/ At(s, V, k, c, u)
                                       \/ k = "runq" /\ c = Master /\ u = t
      BY <2>2, <2>3 DEF At, Kinds
    <2>7. "runq" \in Kinds
      BY DEF Kinds
    <2>8. Holds(r, V, K \cup {t})
      BY <2>4, <2>5, <2>6, <2>7, OneMore, SchedulerAssumption
    <2> QED BY <2>2, <2>8 DEF r
  <1> QED BY <1>3, <1>4 DEF r

(* addTaskMasterCPU                                                        *)
LEMMA AddMaster ==
    ASSUME NEW s, NEW V, NEW K, NEW t \in Tasks, Holds(s, V, K), t \notin K
    PROVE  Holds(addTaskMasterCPU(s, t), V, K \cup {t})
  <1> DEFINE r == addTaskMasterCPU(s, t)
  <1>1. /\ s \in SchedStates /\ ListsOnce(s) /\ Master \in Cpus
        /\ \A k \in Kinds : \A c \in Cpus : ~At(s, V, k, c, t)
    BY SchedulerAssumption DEF Holds, Known
  <1>2. /\ s.current \in [Cpus -> Tasks \cup {Idle}]
        /\ s.cpu \in [Tasks -> Cpus] /\ s.pinned \in [Tasks -> Nat]
        /\ s.runq \in Seq(Tasks)
        /\ s.localq \in [Cpus -> Seq(Tasks)]
        /\ s.delayed \in [Cpus -> Seq(Tasks)]
    BY <1>1, SchedFields
  <1>3. r = [s EXCEPT !.localq[Master] = Append(@, t)]
    BY Zenon DEF addTaskMasterCPU
  <1> HIDE DEF r
  <1>4. /\ r.current = s.current /\ r.cpu = s.cpu /\ r.pinned = s.pinned
        /\ r.runq = s.runq /\ r.delayed = s.delayed
        /\ r.localq = [s.localq EXCEPT ![Master] = Append(@, t)]
        /\ r = [current |-> r.current, cpu |-> r.cpu, pinned |-> r.pinned,
                runq |-> r.runq, localq |-> r.localq, delayed |-> r.delayed]
    BY <1>1, <1>3 DEF SchedStates
  <1>5. /\ Append(s.localq[Master], t) \in Seq(Tasks)
        /\ \A u : OnList(Append(s.localq[Master], t), u)
                     <=> OnList(s.localq[Master], u) \/ u = t
        /\ NoneTwice(Append(s.localq[Master], t))
    <2>1. s.localq[Master] \in Seq(Tasks)
      BY <1>1, <1>2
    <2>2. ~OnList(s.localq[Master], t) /\ NoneTwice(s.localq[Master])
      BY <1>1 DEF At, Kinds, ListsOnce
    <2> QED BY <2>1, <2>2, ListAppend
  <1>6. /\ r.localq \in [Cpus -> Seq(Tasks)]
        /\ \A c \in Cpus : r.localq[c] = IF c = Master
                                         THEN Append(s.localq[Master], t)
                                         ELSE s.localq[c]
    BY <1>1, <1>2, <1>4, <1>5
  <1>7. r \in SchedStates
    BY <1>2, <1>4, <1>6 DEF SchedStates
  <1>8. ListsOnce(r)
    BY <1>1, <1>4, <1>5, <1>6 DEF ListsOnce
  <1>9. ASSUME NEW k \in Kinds, NEW c \in Cpus, NEW u \in Tasks
        PROVE  At(r, V, k, c, u) <=> \/ At(s, V, k, c, u)
                                     \/ k = "localq" /\ c = Master /\ u = t
    BY <1>4, <1>5, <1>6 DEF At, Kinds
  <1>10. "localq" \in Kinds
    BY DEF Kinds
  <1>11. Holds(r, V, K \cup {t})
    BY <1>1, <1>7, <1>8, <1>9, <1>10, OneMore
  <1> QED BY <1>11 DEF r

(* delayTask, wherever in the list the new entry goes                      *)
LEMMA AddDelayed ==
    ASSUME NEW s, NEW V, NEW K, NEW t \in Tasks, Holds(s, V, K), t \notin K,
           NEW c0 \in Cpus, NEW n \in 0 .. Len(s.delayed[c0])
    PROVE  Holds(delayTask(s, c0, t, n), V, K \cup {t})
  <1> DEFINE r == delayTask(s, c0, t, n)
             q == s.delayed[c0]
             front == SubSeq(q, 1, n)
             back  == SubSeq(q, n + 1, Len(q))
  <1>1. /\ s \in SchedStates /\ ListsOnce(s)
        /\ \A k \in Kinds : \A c \in Cpus : ~At(s, V, k, c, t)
    BY DEF Holds, Known
  <1>2. /\ s.current \in [Cpus -> Tasks \cup {Idle}]
        /\ s.cpu \in [Tasks -> Cpus] /\ s.pinned \in [Tasks -> Nat]
        /\ s.runq \in Seq(Tasks)
        /\ s.localq \in [Cpus -> Seq(Tasks)]
        /\ s.delayed \in [Cpus -> Seq(Tasks)]
    BY <1>1, SchedFields
  <1>3. r = [s EXCEPT !.delayed[c0] = (front \o <<t>>) \o back]
    BY Zenon DEF delayTask
  <1>4. /\ q \in Seq(Tasks) /\ n \in 0 .. Len(q)
        /\ NoneTwice(q) /\ ~OnList(q, t)
    BY <1>1, <1>2 DEF ListsOnce, At, Kinds
  <1>5. /\ back \in Seq(Tasks) /\ NoneTwice(back)
        /\ \A u : OnList(back, u) => OnList(q, u)
        /\ \A u : OnList(q, u) =>
              OnList(back, u) \/ \E i \in 1 .. n : q[i] = u
        /\ \A i \in 1 .. n : ~OnList(back, q[i])
    <2> HIDE DEF q
    <2> QED BY <1>4, ListDrop
  <1>6. /\ front \in Seq(Tasks) /\ NoneTwice(front)
        /\ \A u : OnList(front, u) <=> \E i \in 1 .. n : q[i] = u
    <2> HIDE DEF q
    <2> QED BY <1>4, ListTake
  <1>7. \A u : OnList(front, u) => OnList(q, u)
    <2>1. DOMAIN q = 1 .. Len(q) /\ Len(q) \in Nat
      BY <1>4, ListPlaces
    <2>2. 1 .. n \subseteq DOMAIN q
      BY <1>4, <2>1
    <2> HIDE DEF q, front
    <2> QED BY <1>6, <2>2 DEF OnList
  <1> DEFINE mid == front \o <<t>>
             new == mid \o back
  <1> HIDE DEF q, front, back
  <1>8. <<t>> \in Seq(Tasks) /\ NoneTwice(<<t>>)
        /\ \A u : OnList(<<t>>, u) <=> u = t
    BY ListOne
  <1>9. /\ mid \in Seq(Tasks) /\ NoneTwice(mid)
        /\ \A u : OnList(mid, u) <=> OnList(front, u) \/ u = t
    <2>1. \A u : ~(OnList(front, u) /\ OnList(<<t>>, u))
      BY <1>4, <1>7, <1>8
    <2> QED BY <1>6, <1>8, <2>1, ListConcat
  <1> HIDE DEF mid
  <1>10. /\ new \in Seq(Tasks) /\ NoneTwice(new)
        /\ \A u : OnList(new, u) <=> OnList(q, u) \/ u = t
    <2>1. \A u : ~(OnList(mid, u) /\ OnList(back, u))
      BY <1>4, <1>5, <1>6, <1>9
    <2>2. /\ new \in Seq(Tasks) /\ NoneTwice(new)
          /\ \A u : OnList(new, u) <=> OnList(mid, u) \/ OnList(back, u)
      BY <1>5, <1>9, <2>1, ListConcat
    <2> QED BY <1>5, <1>6, <1>7, <1>9, <2>2
  <1>11. r = [s EXCEPT !.delayed[c0] = new]
    BY <1>3, Zenon DEF mid
  <1> HIDE DEF r, new
  <1>12. /\ r.current = s.current /\ r.cpu = s.cpu /\ r.pinned = s.pinned
         /\ r.runq = s.runq /\ r.localq = s.localq
         /\ r.delayed = [s.delayed EXCEPT ![c0] = new]
         /\ r = [current |-> r.current, cpu |-> r.cpu, pinned |-> r.pinned,
                 runq |-> r.runq, localq |-> r.localq, delayed |-> r.delayed]
    BY <1>1, <1>11 DEF SchedStates
  <1>13. /\ r.delayed \in [Cpus -> Seq(Tasks)]
         /\ \A c \in Cpus : r.delayed[c] = IF c = c0 THEN new
                                           ELSE s.delayed[c]
    BY <1>2, <1>10, <1>12
  <1>14. r \in SchedStates
    BY <1>2, <1>12, <1>13 DEF SchedStates
  <1>15. ListsOnce(r)
    BY <1>1, <1>10, <1>12, <1>13 DEF ListsOnce
  <1>16. ASSUME NEW k \in Kinds, NEW c \in Cpus, NEW u \in Tasks
         PROVE  At(r, V, k, c, u) <=> \/ At(s, V, k, c, u)
                                      \/ k = "delayed" /\ c = c0 /\ u = t
    BY <1>10, <1>12, <1>13 DEF At, Kinds, q
  <1>17. "delayed" \in Kinds
    BY DEF Kinds
  <1>18. Holds(r, V, K \cup {t})
    BY <1>14, <1>15, <1>16, <1>17, OneMore
  <1> QED BY <1>18 DEF r

(* setCurrentTask: the task runs instead of the CPU's last one.            *)
LEMMA SetCurrent ==
    ASSUME NEW s, NEW K, NEW c0 \in Cpus, NEW t \in Tasks,
           Holds(s, {c0}, K), t \notin K
    PROVE  /\ Holds(setCurrentTask(s, c0, t), {}, K \cup {t})
           /\ setCurrentTask(s, c0, t).current = [s.current EXCEPT ![c0] = t]
  <1> DEFINE r == setCurrentTask(s, c0, t)
  <1>1. s \in SchedStates /\ ListsOnce(s)
    BY DEF Holds
  <1>2. /\ s.current \in [Cpus -> Tasks \cup {Idle}]
        /\ s.cpu \in [Tasks -> Cpus] /\ s.pinned \in [Tasks -> Nat]
        /\ s.runq \in Seq(Tasks)
        /\ s.localq \in [Cpus -> Seq(Tasks)]
        /\ s.delayed \in [Cpus -> Seq(Tasks)]
    BY <1>1, SchedFields
  <1>3. r = [s EXCEPT !.cpu[t] = c0, !.current[c0] = t]
    BY Zenon DEF setCurrentTask
  <1> HIDE DEF r
  <1>4. /\ r.current = [s.current EXCEPT ![c0] = t]
        /\ r.cpu = [s.cpu EXCEPT ![t] = c0] /\ r.pinned = s.pinned
        /\ r.runq = s.runq /\ r.delayed = s.delayed /\ r.localq = s.localq
        /\ r = [current |-> r.current, cpu |-> r.cpu, pinned |-> r.pinned,
                runq |-> r.runq, localq |-> r.localq, delayed |-> r.delayed]
    BY <1>1, <1>3 DEF SchedStates
  <1>5. /\ r.current \in [Cpus -> Tasks \cup {Idle}]
        /\ r.cpu \in [Tasks -> Cpus]
        /\ \A c \in Cpus : r.current[c] = IF c = c0 THEN t ELSE s.current[c]
    BY <1>2, <1>4
  <1>6. r \in SchedStates
    BY <1>2, <1>4, <1>5 DEF SchedStates
  <1>7. ListsOnce(r)
    BY <1>1, <1>4 DEF ListsOnce
  <1>8. ASSUME NEW k \in Kinds, NEW c \in Cpus, NEW u \in Tasks
        PROVE  At(r, {}, k, c, u) <=> \/ At(s, {c0}, k, c, u)
                                      \/ k = "current" /\ c = c0 /\ u = t
    BY <1>4, <1>5 DEF At, Kinds
  <1>9. "current" \in Kinds
    BY DEF Kinds
  <1>10. Holds(r, {}, K \cup {t})
    BY <1>6, <1>7, <1>8, <1>9, OneMore
  <1> QED BY <1>4, <1>10 DEF r

(* A CPU that finds no task runs its idle task.                            *)
LEMMA SetIdle ==
    ASSUME NEW s, NEW K, NEW c0 \in Cpus, Holds(s, {c0}, K)
    PROVE  Holds([s EXCEPT !.current[c0] = Idle], {}, K)
  <1> DEFINE r == [s EXCEPT !.current[c0] = Idle]
  <1>1. s \in SchedStates /\ ListsOnce(s)
    BY DEF Holds
  <1>2. /\ s.current \in [Cpus -> Tasks \cup {Idle}]
        /\ s.cpu \in [Tasks -> Cpus] /\ s.pinned \in [Tasks -> Nat]
        /\ s.runq \in Seq(Tasks)
        /\ s.localq \in [Cpus -> Seq(Tasks)]
        /\ s.delayed \in [Cpus -> Seq(Tasks)]
    BY <1>1, SchedFields
  <1>3. r = [s EXCEPT !.current[c0] = Idle]
    BY Zenon
  <1> HIDE DEF r
  <1>4. /\ r.current = [s.current EXCEPT ![c0] = Idle]
        /\ r.cpu = s.cpu /\ r.pinned = s.pinned
        /\ r.runq = s.runq /\ r.delayed = s.delayed /\ r.localq = s.localq
        /\ r = [current |-> r.current, cpu |-> r.cpu, pinned |-> r.pinned,
                runq |-> r.runq, localq |-> r.localq, delayed |-> r.delayed]
    BY <1>1, <1>3 DEF SchedStates
  <1>5. /\ r.current \in [Cpus -> Tasks \cup {Idle}]
        /\ \A c \in Cpus : r.current[c] = IF c = c0 THEN Idle ELSE s.current[c]
    BY <1>2, <1>4
  <1>6. r \in SchedStates
    BY <1>2, <1>4, <1>5 DEF SchedStates
  <1>7. ListsOnce(r)
    BY <1>1, <1>4 DEF ListsOnce
  <1>8. ASSUME NEW k \in Kinds, NEW c \in Cpus, NEW u \in Tasks
        PROVE  At(r, {}, k, c, u) <=> At(s, {c0}, k, c, u) /\ u \notin {}
    BY <1>4, <1>5, SchedulerAssumption DEF At, Kinds
  <1>9. Holds(r, {}, K \ {})
    BY <1>6, <1>7, <1>8, Fewer
  <1>10. K \ {} = K
    OBVIOUS
  <1> QED BY <1>9, <1>10 DEF r

(* The first task of the CPU's own queue is taken off.                     *)
LEMMA PopLocal ==
    ASSUME NEW s, NEW V, NEW K, NEW c0 \in Cpus, Holds(s, V, K),
           s.localq[c0] # << >>
    PROVE  /\ Holds([s EXCEPT !.localq[c0] = Tail(@)], V,
                    K \ {Head(s.localq[c0])})
           /\ Head(s.localq[c0]) \in K /\ Head(s.localq[c0]) \in Tasks
  <1> DEFINE r == [s EXCEPT !.localq[c0] = Tail(@)]
             q == s.localq[c0]
             t == Head(q)
  <1>1. s \in SchedStates /\ ListsOnce(s)
    BY DEF Holds
  <1>2. /\ s.current \in [Cpus -> Tasks \cup {Idle}]
        /\ s.cpu \in [Tasks -> Cpus] /\ s.pinned \in [Tasks -> Nat]
        /\ s.runq \in Seq(Tasks)
        /\ s.localq \in [Cpus -> Seq(Tasks)]
        /\ s.delayed \in [Cpus -> Seq(Tasks)]
    BY <1>1, SchedFields
  <1>3. r = [s EXCEPT !.localq[c0] = Tail(q)]
    BY Zenon
  <1>4. q \in Seq(Tasks) /\ NoneTwice(q) /\ q # << >>
    BY <1>1, <1>2 DEF ListsOnce
  <1>5. /\ t \in Tasks /\ OnList(q, t) /\ Tail(q) \in Seq(Tasks)
        /\ \A u : OnList(Tail(q), u) <=> OnList(q, u) /\ u # t
        /\ NoneTwice(Tail(q))
    <2> HIDE DEF q
    <2> QED BY <1>4, ListTail
  <1> DEFINE new == Tail(q)
  <1>6. r = [s EXCEPT !.localq[c0] = new]
    BY <1>3, Zenon
  <1> HIDE DEF r, new, t
  <1>7. /\ r.current = s.current /\ r.cpu = s.cpu /\ r.pinned = s.pinned
        /\ r.runq = s.runq /\ r.delayed = s.delayed
        /\ r.localq = [s.localq EXCEPT ![c0] = new]
        /\ r = [current |-> r.current, cpu |-> r.cpu, pinned |-> r.pinned,
                runq |-> r.runq, localq |-> r.localq, delayed |-> r.delayed]
    BY <1>1, <1>6 DEF SchedStates
  <1>8. /\ r.localq \in [Cpus -> Seq(Tasks)]
        /\ \A c \in Cpus : r.localq[c] = IF c = c0 THEN new ELSE s.localq[c]
    BY <1>2, <1>5, <1>7 DEF new
  <1>9. r \in SchedStates
    BY <1>2, <1>7, <1>8 DEF SchedStates
  <1>10. ListsOnce(r)
    BY <1>1, <1>5, <1>7, <1>8 DEF ListsOnce, new
  <1>11. At(s, V, "localq", c0, t) /\ "localq" \in Kinds
    BY <1>5 DEF At, Kinds
  <1>12. ASSUME NEW k \in Kinds, NEW c \in Cpus, NEW u \in Tasks
         PROVE  At(r, V, k, c, u) <=> At(s, V, k, c, u) /\ u \notin {t}
    <2>1. At(s, V, k, c, t) => k = "localq" /\ c = c0
      BY <1>5, <1>11 DEF Holds, Apart
    <2>2. At(r, V, k, c, u) <=> /\ At(s, V, k, c, u)
                                /\ ~(k = "localq" /\ c = c0 /\ u = t)
      BY <1>5, <1>7, <1>8 DEF At, Kinds, new
    <2> QED BY <2>1, <2>2
  <1>13. Holds(r, V, K \ {t})
    BY <1>9, <1>10, <1>12, Fewer
  <1>14. t \in K
    BY <1>5, <1>11 DEF Holds, Known
  <1> QED BY <1>5, <1>13, <1>14 DEF r, t

(* The first task of the global queue is taken off.                        *)
LEMMA PopGlobal ==
    ASSUME NEW s, NEW V, NEW K, Holds(s, V, K), s.runq # << >>
    PROVE  /\ Holds([s EXCEPT !.runq = Tail(@)], V, K \ {Head(s.runq)})
           /\ Head(s.runq) \in K /\ Head(s.runq) \in Tasks
  <1> DEFINE r == [s EXCEPT !.runq = Tail(@)]
             q == s.runq
             t == Head(q)
             new == Tail(q)
  <1>1. s \in SchedStates /\ ListsOnce(s) /\ Master \in Cpus
    BY SchedulerAssumption DEF Holds
  <1>2. /\ s.current \in [Cpus -> Tasks \cup {Idle}]
        /\ s.cpu \in [Tasks -> Cpus] /\ s.pinned \in [Tasks -> Nat]
        /\ s.runq \in Seq(Tasks)
        /\ s.localq \in [Cpus -> Seq(Tasks)]
        /\ s.delayed \in [Cpus -> Seq(Tasks)]
    BY <1>1, SchedFields
  <1>3. r = [s EXCEPT !.runq = new]
    BY Zenon
  <1>4. q \in Seq(Tasks) /\ NoneTwice(q) /\ q # << >>
    BY <1>1, <1>2 DEF ListsOnce
  <1>5. /\ t \in Tasks /\ OnList(q, t) /\ new \in Seq(Tasks)
        /\ \A u : OnList(new, u) <=> OnList(q, u) /\ u # t
        /\ NoneTwice(new)
    <2> HIDE DEF q
    <2> QED BY <1>4, ListTail
  <1> HIDE DEF r, new, t
  <1>6. /\ r.current = s.current /\ r.cpu = s.cpu /\ r.pinned = s.pinned
        /\ r.localq = s.localq /\ r.delayed = s.delayed /\ r.runq = new
        /\ r = [current |-> r.current, cpu |-> r.cpu, pinned |-> r.pinned,
                runq |-> r.runq, localq |-> r.localq, delayed |-> r.delayed]
    BY <1>1, <1>3 DEF SchedStates
  <1>7. r \in SchedStates
    BY <1>2, <1>5, <1>6 DEF SchedStates
  <1>8. ListsOnce(r)
    BY <1>1, <1>5, <1>6 DEF ListsOnce
  <1>9. At(s, V, "runq", Master, t) /\ "runq" \in Kinds
    BY <1>5 DEF At, Kinds
  <1>10. ASSUME NEW k \in Kinds, NEW c \in Cpus, NEW u \in Tasks
         PROVE  At(r, V, k, c, u) <=> At(s, V, k, c, u) /\ u \notin {t}
    <2>1. At(s, V, k, c, t) => k = "runq" /\ c = Master
      BY <1>1, <1>5, <1>9 DEF Holds, Apart
    <2>2. At(r, V, k, c, u) <=> /\ At(s, V, k, c, u)
                                /\ ~(k = "runq" /\ c = Master /\ u = t)
      BY <1>5, <1>6 DEF At, Kinds
    <2> QED BY <2>1, <2>2
  <1>11. Holds(r, V, K \ {t})
    BY <1>7, <1>8, <1>10, Fewer
  <1>12. t \in K
    BY <1>1, <1>5, <1>9 DEF Holds, Known
  <1> QED BY <1>5, <1>11, <1>12 DEF r, t

(* setNextRunnable neither loses nor doubles a task.                       *)
LEMMA NextRunnable ==
    ASSUME NEW s, NEW K, NEW c0 \in Cpus, Holds(s, {c0}, K)
    PROVE  Holds(setNextRunnable(s, c0), {}, K)
  <1>1. CASE s.localq[c0] # << >>
    <2> DEFINE t == Head(s.localq[c0])
               p == [s EXCEPT !.localq[c0] = Tail(@)]
    <2>1. setNextRunnable(s, c0) = setCurrentTask(p, c0, t)
      BY <1>1, Zenon DEF setNextRunnable
    <2>2. Holds(p, {c0}, K \ {t}) /\ t \in K /\ t \in Tasks
      BY <1>1, PopLocal
    <2> HIDE DEF t, p
    <2>3. Holds(setCurrentTask(p, c0, t), {}, (K \ {t}) \cup {t})
      BY <2>2, SetCurrent
    <2>4. (K \ {t}) \cup {t} = K
      BY <2>2
    <2> QED BY <2>1, <2>3, <2>4
  <1>2. CASE s.localq[c0] = << >> /\ s.runq # << >>
    <2> DEFINE t == Head(s.runq)
               p == [s EXCEPT !.runq = Tail(@)]
    <2>1. setNextRunnable(s, c0) = setCurrentTask(p, c0, t)
      BY <1>2, Zenon DEF setNextRunnable
    <2>2. Holds(p, {c0}, K \ {t}) /\ t \in K /\ t \in Tasks
      BY <1>2, PopGlobal
    <2> HIDE DEF t, p
    <2>3. Holds(setCurrentTask(p, c0, t), {}, (K \ {t}) \cup {t})
      BY <2>2, SetCurrent
    <2>4. (K \ {t}) \cup {t} = K
      BY <2>2
    <2> QED BY <2>1, <2>3, <2>4
  <1>3. CASE s.localq[c0] = << >> /\ s.runq = << >>
    <2>1. setNextRunnable(s, c0) = [s EXCEPT !.current[c0] = Idle]
      BY <1>3, Zenon DEF setNextRunnable
    <2> QED BY <2>1, SetIdle
  <1> QED BY <1>1, <1>2, <1>3

(* returnRunnable keeps the CPU's task, so that another can replace it.    *)
LEMMA ReturnRunnable ==
    ASSUME NEW s, NEW K, NEW c0 \in Cpus, Holds(s, {}, K)
    PROVE  Holds(returnRunnable(s, c0), {c0}, K)
  <1> DEFINE t == s.current[c0]
  <1>1. /\ Holds(s, {c0}, K \ {t})
        /\ t \in Tasks => t \in K
        /\ t \in Tasks \cup {Idle}
    <2>1. s \in SchedStates
      BY DEF Holds
    <2>2. t \in Tasks \cup {Idle}
      BY <2>1, SchedFields
    <2> QED BY <2>2, Vacated
  <1>2. CASE t = Idle
    <2>1. K \ {t} = K
      BY <1>2, SchedulerAssumption DEF Holds, Known
    <2> QED BY <1>1, <1>2, <2>1 DEF returnRunnable
  <1>3. CASE t \in Tasks
    <2>1. t # Idle
      BY <1>3, SchedulerAssumption
    <2>2. Holds(addTask(s, t), {c0}, (K \ {t}) \cup {t})
      BY <1>1, <1>3, AddTask
    <2>3. (K \ {t}) \cup {t} = K
      BY <1>1, <1>3
    <2> QED BY <2>1, <2>2, <2>3 DEF returnRunnable
  <1> QED BY <1>1, <1>2, <1>3

(* The tasks behind place i among the first n of the delay list of c.      *)
DueAfter(s, c, i, n) == {s.delayed[c][j] : j \in i + 1 .. n}

(* The first n tasks are taken off a CPU's delay list.                     *)
LEMMA DropDelayed ==
    ASSUME NEW s, NEW V, NEW K, NEW c0 \in Cpus, Holds(s, V, K),
           NEW n \in 0 .. Len(s.delayed[c0])
    PROVE  /\ Holds(WithoutDue(s, c0, n), V, K \ DueAfter(s, c0, 0, n))
           /\ WithoutDue(s, c0, n).current = s.current
           /\ \A i \in 1 .. n :
                 s.delayed[c0][i] \in K /\ s.delayed[c0][i] \in Tasks
           /\ NoneTwice(s.delayed[c0])
           /\ DOMAIN s.delayed[c0] = 1 .. Len(s.delayed[c0])
           /\ Len(s.delayed[c0]) \in Nat
  <1> DEFINE r == WithoutDue(s, c0, n)
             q == s.delayed[c0]
             new == SubSeq(q, n + 1, Len(q))
             T == DueAfter(s, c0, 0, n)
  <1>1. s \in SchedStates /\ ListsOnce(s)
    BY DEF Holds
  <1>2. /\ s.current \in [Cpus -> Tasks \cup {Idle}]
        /\ s.cpu \in [Tasks -> Cpus] /\ s.pinned \in [Tasks -> Nat]
        /\ s.runq \in Seq(Tasks)
        /\ s.localq \in [Cpus -> Seq(Tasks)]
        /\ s.delayed \in [Cpus -> Seq(Tasks)]
    BY <1>1, SchedFields
  <1>3. q \in Seq(Tasks) /\ NoneTwice(q) /\ n \in 0 .. Len(q)
    BY <1>1, <1>2 DEF ListsOnce
  <1>4. T = {q[i] : i \in 1 .. n}
    BY DEF DueAfter
  <1>5. r = [s EXCEPT !.delayed[c0] = new]
    BY Zenon DEF WithoutDue
  <1> HIDE DEF q, r
  <1>6. /\ Len(q) \in Nat /\ DOMAIN q = 1 .. Len(q)
        /\ \A i \in 1 .. Len(q) : q[i] \in Tasks
    BY <1>3, ListPlaces
  <1>7. /\ new \in Seq(Tasks) /\ NoneTwice(new)
        /\ \A u : OnList(new, u) => OnList(q, u)
        /\ \A u : OnList(q, u) =>
              OnList(new, u) \/ \E i \in 1 .. n : q[i] = u
        /\ \A i \in 1 .. n : ~OnList(new, q[i])
    BY <1>3, ListDrop
  <1>8. \A i \in 1 .. n : i \in DOMAIN q
    BY <1>3, <1>6
  <1> HIDE DEF new, T
  <1>9. \A u : OnList(new, u) <=> OnList(q, u) /\ u \notin T
    BY <1>4, <1>7
  <1>10. \A u \in T : OnList(q, u) /\ u \in Tasks
    BY <1>4, <1>6, <1>8 DEF OnList
  <1>11. /\ r.current = s.current /\ r.cpu = s.cpu /\ r.pinned = s.pinned
         /\ r.runq = s.runq /\ r.localq = s.localq
         /\ r.delayed = [s.delayed EXCEPT ![c0] = new]
         /\ r = [current |-> r.current, cpu |-> r.cpu, pinned |-> r.pinned,
                 runq |-> r.runq, localq |-> r.localq, delayed |-> r.delayed]
    BY <1>1, <1>5 DEF SchedStates
  <1>12. /\ r.delayed \in [Cpus -> Seq(Tasks)]
         /\ \A c \in Cpus : r.delayed[c] = IF c = c0 THEN new
                                           ELSE s.delayed[c]
    BY <1>2, <1>7, <1>11
  <1>13. r \in SchedStates
    BY <1>2, <1>11, <1>12 DEF SchedStates
  <1>14. ListsOnce(r)
    BY <1>1, <1>7, <1>11, <1>12 DEF ListsOnce
  <1>15. "delayed" \in Kinds /\ \A u \in T : At(s, V, "delayed", c0, u)
    BY <1>10 DEF At, Kinds, q
  <1>16. ASSUME NEW k \in Kinds, NEW c \in Cpus, NEW u \in Tasks
         PROVE  At(r, V, k, c, u) <=> At(s, V, k, c, u) /\ u \notin T
    <2>1. u \in T /\ At(s, V, k, c, u) => k = "delayed" /\ c = c0
      BY <1>15 DEF Holds, Apart
    <2>2. At(r, V, k, c, u) <=> /\ At(s, V, k, c, u)
                                /\ ~(k = "delayed" /\ c = c0 /\ u \in T)
      BY <1>9, <1>11, <1>12 DEF At, Kinds, q
    <2> QED BY <2>1, <2>2
  <1>17. Holds(r, V, K \ T)
    BY <1>13, <1>14, <1>16, Fewer
  <1>18. \A u \in T : u \in K
    BY <1>10, <1>15 DEF Holds, Known
  <1>19. \A i \in 1 .. n : q[i] \in T
    BY <1>4
  <1> QED BY <1>3, <1>6, <1>10, <1>11, <1>17, <1>18, <1>19 DEF q, r, T

(* checkReleaseTasks neither loses nor doubles a task, however many are    *)
(* due and whichever queue each goes to.                                   *)
LEMMA Released ==
    ASSUME NEW s, NEW V, NEW K, NEW c0 \in Cpus, Holds(s, V, K),
           NEW n \in 0 .. Len(s.delayed[c0])
    PROVE  /\ Holds(checkReleaseTasks(s, c0, n), V, K)
           /\ checkReleaseTasks(s, c0, n).current = s.current
  <1> DEFINE q == s.delayed[c0]
  <1>1. n \in Nat
    OBVIOUS
  <1>2. PICK g : /\ g[n] = checkReleaseTasks(s, c0, n)
                 /\ g[0] = WithoutDue(s, c0, n)
                 /\ \A i \in 1 .. n :
                       g[i] = addTask(g[i - 1], s.delayed[c0][i])
    <2> HIDE DEF q
    <2> QED BY <1>1, ReleaseSteps, SMTT(20)
  <1>3. /\ Holds(g[0], V, K \ DueAfter(s, c0, 0, n))
        /\ g[0].current = s.current
        /\ \A i \in 1 .. n : q[i] \in K /\ q[i] \in Tasks
        /\ NoneTwice(q)
        /\ DOMAIN q = 1 .. Len(q) /\ Len(q) \in Nat
    <2>1. /\ Holds(WithoutDue(s, c0, n), V, K \ DueAfter(s, c0, 0, n))
          /\ WithoutDue(s, c0, n).current = s.current
          /\ \A i \in 1 .. n :
                s.delayed[c0][i] \in K /\ s.delayed[c0][i] \in Tasks
          /\ NoneTwice(s.delayed[c0])
          /\ DOMAIN s.delayed[c0] = 1 .. Len(s.delayed[c0])
          /\ Len(s.delayed[c0]) \in Nat
      BY DropDelayed
    <2> QED BY <1>2, <2>1, Zenon
  <1> DEFINE due(i) == DueAfter(s, c0, i, n)
             Good(i) == Holds(g[i], V, K \ due(i)) /\ g[i].current = s.current
             Bad == {i \in 0 .. n : ~Good(i)}
  <1>4. Bad = {}
    <2> SUFFICES ASSUME Bad # {} PROVE FALSE
      OBVIOUS
    <2>1. Bad \subseteq Nat
      OBVIOUS
    <2>2. PICK k \in Bad : \A j \in Bad : k <= j
      <3> HIDE DEF Bad
      <3> QED BY <2>1, LeastNatural
    <2>3. k \in 0 .. n /\ ~Good(k)
      OBVIOUS
    <2>4. k # 0
      <3> SUFFICES ASSUME k = 0 PROVE FALSE
        OBVIOUS
      <3>1. Good(0)
        BY <1>3
      <3> QED BY <2>3, <3>1
    <2>5. k \in 1 .. n /\ k - 1 \in 0 .. n /\ ~(k <= k - 1)
      BY <2>3, <2>4
    <2>6. Good(k - 1)
      BY <2>2, <2>5
    <2>7. g[k] = addTask(g[k - 1], q[k]) /\ q[k] \in K /\ q[k] \in Tasks
      BY <1>2, <1>3, <2>5
    <2>8. q[k] \in due(k - 1) /\ q[k] \notin due(k)
      <3>1. k \in (k - 1) + 1 .. n
        BY <2>5
      <3>2. \A j \in k + 1 .. n : j # k /\ j \in DOMAIN q /\ k \in DOMAIN q
        BY <1>3, <2>5
      <3> QED BY <1>3, <3>1, <3>2 DEF NoneTwice, DueAfter
    <2>9. due(k - 1) = due(k) \cup {q[k]}
      <3>1. \A j : j \in (k - 1) + 1 .. n <=> j \in k + 1 .. n \/ j = k
        BY <2>5
      <3> QED BY <3>1 DEF DueAfter
    <2>10. K \ due(k) = (K \ due(k - 1)) \cup {q[k]}
      BY <2>7, <2>8, <2>9
    <2> DEFINE L == K \ due(k - 1)
               p == g[k - 1]
               w == q[k]
    <2>11. /\ Holds(p, V, L) /\ w \in Tasks /\ w \notin L
           /\ g[k] = addTask(p, w) /\ K \ due(k) = L \cup {w}
           /\ p.current = s.current
      BY <2>6, <2>7, <2>8, <2>10
    <2> HIDE DEF L, p, w, due
    <2>12. Holds(g[k], V, L \cup {w}) /\ g[k].current = p.current
      BY <2>11, AddTask
    <2> QED BY <2>3, <2>11, <2>12
  <1>5. Good(n)
    <2>1. n \in 0 .. n
      BY <1>1
    <2> HIDE DEF Good
    <2> QED BY <1>4, <2>1
  <1>6. due(n) = {} /\ K \ {} = K
    <2>1. n + 1 .. n = {}
      BY <1>1
    <2> QED BY <2>1 DEF DueAfter
  <1> QED BY <1>2, <1>5, <1>6

(* Pinning moves nobody.                                                   *)
LEMMA Pinned ==
    ASSUME NEW s, NEW V, NEW K, NEW t \in Tasks, NEW n \in Nat,
           Holds(s, V, K)
    PROVE  Holds([s EXCEPT !.pinned[t] = n], V, K)
  <1> DEFINE r == [s EXCEPT !.pinned[t] = n]
  <1>1. s \in SchedStates /\ ListsOnce(s)
    BY DEF Holds
  <1>2. r = [s EXCEPT !.pinned[t] = n]
    OBVIOUS
  <1> HIDE DEF r
  <1>3. /\ r.current = s.current /\ r.cpu = s.cpu
        /\ r.pinned = [s.pinned EXCEPT ![t] = n]
        /\ r.runq = s.runq /\ r.delayed = s.delayed /\ r.localq = s.localq
        /\ r = [current |-> r.current, cpu |-> r.cpu, pinned |-> r.pinned,
                runq |-> r.runq, localq |-> r.localq, delayed |-> r.delayed]
    BY <1>1, <1>2 DEF SchedStates
  <1>4. r \in SchedStates
    BY <1>1, <1>3 DEF SchedStates
  <1>5. ListsOnce(r)
    BY <1>1, <1>3 DEF ListsOnce
  <1>6. ASSUME NEW k \in Kinds, NEW c \in Cpus, NEW u \in Tasks
        PROVE  At(r, V, k, c, u) <=> At(s, V, k, c, u) /\ u \notin {}
    BY <1>3 DEF At
  <1>7. Holds(r, V, K \ {})
    BY <1>4, <1>5, <1>6, Fewer
  <1>8. K \ {} = K
    OBVIOUS
  <1> QED BY <1>7, <1>8 DEF r

(* The calls and interrupts that only concern the scheduler.               *)
LEMMA SchedSteps ==
    ASSUME NEW K, NEW c0 \in Cpus, Holds(sched, {}, K),
           \/ TaskYield(c0) \/ TimeNanosleep(c0) \/ TaskMigrateToMaster(c0)
           \/ task_affinity_pin(c0) \/ task_affinity_unpin(c0)
           \/ kernel_execute_decrementer(c0)
    PROVE  Holds(sched', {}, K)
  <1> DEFINE t == sched.current[c0]
  <1>1. /\ Holds(sched, {c0}, K \ {t})
        /\ t \in Tasks => t \in K
        /\ t \in Tasks \cup {Idle}
        /\ sched \in SchedStates
    <2>1. sched \in SchedStates
      BY DEF Holds
    <2>2. t \in Tasks \cup {Idle}
      BY <2>1, SchedFields
    <2> QED BY <2>1, <2>2, Vacated
  <1>2. t # Idle => /\ t \in Tasks /\ t \in K /\ t \notin K \ {t}
                    /\ (K \ {t}) \cup {t} = K
    BY <1>1
  <1>3. CASE TaskYield(c0)
    BY <1>3, ReturnRunnable, NextRunnable DEF TaskYield
  <1>4. CASE TimeNanosleep(c0)
    <2>1. t # Idle
      BY <1>4 DEF TimeNanosleep
    <2>2. PICK k \in 0 .. Len(sched.delayed[c0]) :
             sched' = setNextRunnable(delayTask(sched, c0, t, k), c0)
      BY <1>4 DEF TimeNanosleep
    <2>3. Holds(delayTask(sched, c0, t, k), {c0}, (K \ {t}) \cup {t})
      BY <1>1, <1>2, <2>1, AddDelayed
    <2>4. Holds(delayTask(sched, c0, t, k), {c0}, K)
      BY <1>2, <2>1, <2>3
    <2> QED BY <2>2, <2>4, NextRunnable
  <1>5. CASE TaskMigrateToMaster(c0)
    <2>1. t # Idle
          /\ sched' = setNextRunnable(addTaskMasterCPU(sched, t), c0)
      BY <1>5 DEF TaskMigrateToMaster
    <2>2. Holds(addTaskMasterCPU(sched, t), {c0}, (K \ {t}) \cup {t})
      BY <1>1, <1>2, <2>1, AddMaster
    <2>3. Holds(addTaskMasterCPU(sched, t), {c0}, K)
      BY <1>2, <2>1, <2>2
    <2> QED BY <2>1, <2>3, NextRunnable
  <1>6. CASE task_affinity_pin(c0) \/ task_affinity_unpin(c0)
    <2>1. t # Idle
      BY <1>6 DEF task_affinity_pin, task_affinity_unpin
    <2>2. t \in Tasks /\ sched.pinned[t] \in Nat
      BY <1>1, <1>2, <2>1, SchedFields
    <2>3. \/ sched' = [sched EXCEPT !.pinned[t] = sched.pinned[t] + 1]
          \/ /\ sched.pinned[t] > 0
             /\ sched' = [sched EXCEPT !.pinned[t] = sched.pinned[t] - 1]
      BY <1>6, Zenon DEF task_affinity_pin, task_affinity_unpin
    <2> DEFINE up == sched.pinned[t] + 1
               down == sched.pinned[t] - 1
    <2>4. up \in Nat /\ (sched.pinned[t] > 0 => down \in Nat)
      BY <2>2
    <2>5. \/ sched' = [sched EXCEPT !.pinned[t] = up]
          \/ down \in Nat /\ sched' = [sched EXCEPT !.pinned[t] = down]
      BY <2>3, <2>4, Zenon
    <2> HIDE DEF up, down, t
    <2>6. /\ Holds([sched EXCEPT !.pinned[t] = up], {}, K)
          /\ down \in Nat => Holds([sched EXCEPT !.pinned[t] = down], {}, K)
      BY <2>2, <2>4, Pinned
    <2> QED BY <2>5, <2>6, Zenon
  <1>7. CASE kernel_execute_decrementer(c0)
    <2>1. PICK n \in 0 .. Len(sched.delayed[c0]) :
             sched' = setNextRunnable(
                         returnRunnable(checkReleaseTasks(sched, c0, n), c0),
                         c0)
      BY <1>7 DEF kernel_execute_decrementer
    <2>2. Holds(checkReleaseTasks(sched, c0, n), {}, K)
      BY Released
    <2> QED BY <2>1, <2>2, ReturnRunnable, NextRunnable
  <1> QED BY <1>3, <1>4, <1>5, <1>6, <1>7
(* Task t is entry i of place k of CPU c.                                  *)
PlacedAt(k, c, i, t) ==
    \/ k = "current" /\ i = 0 /\ sched.current[c] = t
    \/ k = "runq" /\ c = Master /\ i \in DOMAIN sched.runq /\ sched.runq[i] = t
    \/ k = "localq" /\ i \in DOMAIN sched.localq[c] /\ sched.localq[c][i] = t
    \/ k = "delayed" /\ i \in DOMAIN sched.delayed[c]
                     /\ sched.delayed[c][i] = t

(* The members of Places(t).                                               *)
LEMMA PlacesMembers ==
    ASSUME NEW t, NEW x
    PROVE  x \in Places(t) <=> \E k \in Kinds : \E c \in Cpus : \E i :
                                  x = <<k, c, i>> /\ PlacedAt(k, c, i, t)
  <1> DEFINE Run == {<<"runq", Master, i>> :
                        i \in {j \in DOMAIN sched.runq : sched.runq[j] = t}}
             Loc(c) == {<<"localq", c, i>> :
                           i \in {j \in DOMAIN sched.localq[c] :
                                    sched.localq[c][j] = t}}
             Del(c) == {<<"delayed", c, i>> :
                           i \in {j \in DOMAIN sched.delayed[c] :
                                    sched.delayed[c][j] = t}}
             Cur == {<<"current", c, 0>> :
                        c \in {d \in Cpus : sched.current[d] = t}}
             L == UNION {Loc(c) : c \in Cpus}
             D == UNION {Del(c) : c \in Cpus}
  <1>1. Places(t) = Cur \cup Run \cup L \cup D
    BY Zenon DEF Places
  <1>2. x \in Cur <=> \E c \in Cpus :
                         x = <<"current", c, 0>> /\ sched.current[c] = t
    OBVIOUS
  <1>3. x \in Run <=> \E i \in DOMAIN sched.runq :
                         x = <<"runq", Master, i>> /\ sched.runq[i] = t
    OBVIOUS
  <1>4. ASSUME NEW c
        PROVE  x \in Loc(c) <=> \E i \in DOMAIN sched.localq[c] :
                    x = <<"localq", c, i>> /\ sched.localq[c][i] = t
    OBVIOUS
  <1>5. ASSUME NEW c
        PROVE  x \in Del(c) <=> \E i \in DOMAIN sched.delayed[c] :
                    x = <<"delayed", c, i>> /\ sched.delayed[c][i] = t
    OBVIOUS
  <1> HIDE DEF Cur, Run, Loc, Del
  <1>6. x \in Places(t) <=> \/ x \in Cur \/ x \in Run
                           \/ \E c \in Cpus : x \in Loc(c) \/ x \in Del(c)
    <2>1. x \in L <=> \E c \in Cpus : x \in Loc(c)
      OBVIOUS
    <2>2. x \in D <=> \E c \in Cpus : x \in Del(c)
      OBVIOUS
    <2> HIDE DEF L, D
    <2> QED BY <1>1, <2>1, <2>2
  <1>7. x \in Places(t) <=>
           \/ \E c \in Cpus : x = <<"current", c, 0>> /\ sched.current[c] = t
           \/ \E i \in DOMAIN sched.runq :
                 x = <<"runq", Master, i>> /\ sched.runq[i] = t
           \/ \E c \in Cpus :
                 \/ \E i \in DOMAIN sched.localq[c] :
                       x = <<"localq", c, i>> /\ sched.localq[c][i] = t
                 \/ \E i \in DOMAIN sched.delayed[c] :
                       x = <<"delayed", c, i>> /\ sched.delayed[c][i] = t
    BY <1>2, <1>3, <1>4, <1>5, <1>6
  <1> QED BY <1>7, SchedulerAssumption DEF PlacedAt, Kinds

(* The scheduler knows a task it has in one place, and no other task.      *)
LEMMA HeldPlaces ==
    ASSUME NEW K, Holds(sched, {}, K), NEW t \in Tasks
    PROVE  /\ t \in K => \E x : Places(t) = {x}
           /\ t \notin K => Places(t) = {}
  <1>1. Holds(sched, {}, K)
    OBVIOUS
  <1>2. \A k \in Kinds : \A c \in Cpus :
           At(sched, {}, k, c, t) <=> \E i : PlacedAt(k, c, i, t)
    BY DEF At, PlacedAt, OnList
  <1>3. \A k \in Kinds : \A c \in Cpus : \A i, j :
           PlacedAt(k, c, i, t) /\ PlacedAt(k, c, j, t) => i = j
    BY <1>1 DEF Holds, ListsOnce, NoneTwice, PlacedAt
  <1>4. ASSUME t \in K PROVE \E x : Places(t) = {x}
    <2>1. PICK k \in Kinds, c \in Cpus : At(sched, {}, k, c, t)
      BY <1>1, <1>4 DEF Holds, Known
    <2>2. PICK i : PlacedAt(k, c, i, t)
      BY <1>2, <2>1
    <2>3. <<k, c, i>> \in Places(t)
      BY <2>2, PlacesMembers
    <2>4. ASSUME NEW x \in Places(t) PROVE x = <<k, c, i>>
      <3>1. PICK l \in Kinds, d \in Cpus :
               \E j : x = <<l, d, j>> /\ PlacedAt(l, d, j, t)
        BY PlacesMembers
      <3>2. PICK j : x = <<l, d, j>> /\ PlacedAt(l, d, j, t)
        BY <3>1
      <3>3. l = k /\ d = c
        BY <1>1, <1>2, <2>1, <3>2 DEF Holds, Apart
      <3>4. j = i
        BY <1>3, <2>2, <3>2, <3>3
      <3> QED BY <3>2, <3>3, <3>4
    <2> QED BY <2>3, <2>4
  <1>5. ASSUME t \notin K PROVE Places(t) = {}
    <2> SUFFICES ASSUME NEW x \in Places(t) PROVE FALSE
      OBVIOUS
    <2>1. PICK l \in Kinds, d \in Cpus : \E j : PlacedAt(l, d, j, t)
      BY PlacesMembers
    <2>2. At(sched, {}, l, d, t)
      BY <1>2, <2>1
    <2> QED BY <1>1, <1>5, <2>2 DEF Holds, Known
  <1> QED BY <1>4, <1>5

(* At the start all tasks are on the global queue.                         *)
LEMMA SchedulerStart ==
    ASSUME SchedulerInit PROVE Holds(sched, {}, Tasks)
  <1>1. PICK q \in [1 .. Cardinality(Tasks) -> Tasks] :
           /\ {q[i] : i \in DOMAIN q} = Tasks
           /\ sched = [current |-> [c \in Cpus |-> Idle],
                       cpu     |-> [t \in Tasks |-> Master],
                       pinned  |-> [t \in Tasks |-> 0],
                       runq    |-> q,
                       localq  |-> [c \in Cpus |-> << >>],
                       delayed |-> [c \in Cpus |-> << >>]]
    BY DEF SchedulerInit
  <1>2. /\ Cardinality(Tasks) \in Nat /\ IsFiniteSet(Tasks)
        /\ Idle \notin Tasks /\ Master \in Cpus
    BY SchedulerAssumption, FS_CardinalityType
  <1>3. q \in Seq(Tasks) /\ DOMAIN q = 1 .. Cardinality(Tasks)
    BY <1>2
  <1>4. NoneTwice(q)
    <2> DEFINE k == Cardinality(Tasks)
    <2>1. IsFiniteSet(1 .. k) /\ Cardinality(1 .. k) = k
      BY <1>2, FS_Interval
    <2>2. q \in Surjection(1 .. k, Tasks)
      BY <1>1, <1>3 DEF Surjection
    <2>3. q \in Injection(1 .. k, Tasks)
      BY <2>1, <2>2, FS_SurjSameCardinalityImpliesInj
    <2> QED BY <1>3, <2>3 DEF NoneTwice, Injection, IsInjective
  <1>5. \A t \in Tasks : OnList(q, t)
    BY <1>1 DEF OnList
  <1>6. << >> \in Seq(Tasks) /\ NoneTwice(<< >>) /\ \A t : ~OnList(<< >>, t)
    BY ListEmpty
  <1>7. /\ sched.current \in [Cpus -> Tasks \cup {Idle}]
        /\ \A c \in Cpus : sched.current[c] = Idle
        /\ sched.cpu \in [Tasks -> Cpus] /\ sched.pinned \in [Tasks -> Nat]
        /\ sched.runq = q
        /\ sched.localq \in [Cpus -> Seq(Tasks)]
        /\ sched.delayed \in [Cpus -> Seq(Tasks)]
        /\ \A c \in Cpus : sched.localq[c] = << >> /\ sched.delayed[c] = << >>
    BY <1>1, <1>2, <1>6
  <1>8. sched \in SchedStates
    BY <1>1, <1>3, <1>7 DEF SchedStates
  <1>9. ListsOnce(sched)
    BY <1>4, <1>6, <1>7 DEF ListsOnce
  <1>10. \A k \in Kinds : \A c \in Cpus : \A t \in Tasks :
            At(sched, {}, k, c, t) <=> k = "runq" /\ c = Master
    BY <1>2, <1>5, <1>6, <1>7 DEF At, Kinds
  <1> QED BY <1>2, <1>8, <1>9, <1>10 DEF Holds, Apart, Known, Kinds
=============================================================================
