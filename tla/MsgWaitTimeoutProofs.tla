----------------------- MODULE MsgWaitTimeoutProofs -----------------------
(***************************************************************************)
(* msg_wait_timeout for any messages, any number of calls and any timeout: *)
(* a call leaves nothing of itself behind, loses no message, and does not  *)
(* give up early.                                                          *)
(***************************************************************************)
EXTENDS MsgWaitTimeout, SequenceTheorems, TLAPS

All == Msgs \cup {Done}

(* The values of the variables; ms_to_wait is signed.                      *)
TimeoutTypes ==
    /\ queue \in Seq(All) /\ sent \in Seq(Msgs)
    /\ results \in Seq(Msgs) /\ got \in Seq(Msgs)
    /\ caller \in {"idle", "wait", "stop", "finish"}
    /\ waiter \in {"begin", "test", "poll", "send", "ended"}
    /\ ms_to_wait \in Int /\ elapsed \in 0..MaxElapsed

NoDone(q)      == \A k \in DOMAIN q : q[k] # Done
DoneOnlyAt(q, k) == q[k] = Done /\ \A i \in DOMAIN q : i # k => q[i] # Done

(* The waiter and its message: while a call waits, either the waiter is    *)
(* still there or its message is in the queue, once; before and after,     *)
(* neither is.                                                             *)
Handshake ==
    \/ /\ caller \in {"idle", "finish"} /\ waiter = "ended" /\ NoDone(queue)
    \/ /\ caller \in {"wait", "stop"} /\ waiter # "ended" /\ NoDone(queue)
    \/ /\ caller \in {"wait", "stop"} /\ waiter = "ended"
       /\ \E k \in DOMAIN queue : DoneOnlyAt(queue, k)

(* The real messages, in order.                                            *)
Kept ==
    /\ NoDone(queue) => sent = got \o Pending \o queue
    /\ \A k \in DOMAIN queue :
          DoneOnlyAt(queue, k) => sent = got \o Pending \o Cut(queue, k)

TimeoutInd == TimeoutTypes /\ Handshake /\ Kept

-----------------------------------------------------------------------------
(* What taking a message out of the queue gives.                           *)
LEMMA CutType ==
    ASSUME NEW S, NEW q \in Seq(S), NEW k \in 1..Len(q)
    PROVE  /\ Cut(q, k) \in Seq(S) /\ Len(Cut(q, k)) = Len(q) - 1
           /\ \A i \in 1..(Len(q) - 1) :
                 Cut(q, k)[i] = IF i < k THEN q[i] ELSE q[i + 1]
  <1>0. Len(q) \in Nat /\ \A i \in 1..Len(q) : q[i] \in S
    BY LenProperties, ElementOfSeq
  <1> DEFINE a == SubSeq(q, 1, k - 1)
             b == SubSeq(q, k + 1, Len(q))
  <1>1. /\ a \in Seq(S) /\ Len(a) = k - 1
        /\ \A i \in 1..(k - 1) : a[i] = q[i]
    <2>1. k - 1 \in Int /\ \A i \in 1..(k - 1) : q[i] \in S
      BY <1>0
    <2>2. /\ a \in Seq(S) /\ Len(a) = IF 1 <= k - 1 THEN k - 1 - 1 + 1 ELSE 0
          /\ \A i \in 1..(k - 1 - 1 + 1) : a[i] = q[1 + i - 1]
      BY <2>1, SubSeqProperties
    <2> HIDE DEF a
    <2> QED BY <1>0, <2>2
  <1>2. /\ b \in Seq(S) /\ Len(b) = Len(q) - k
        /\ \A i \in 1..(Len(q) - k) : b[i] = q[k + i]
    <2>1. k + 1 \in Int /\ Len(q) \in Int /\ \A i \in (k + 1)..Len(q) : q[i] \in S
      BY <1>0
    <2>2. /\ b \in Seq(S)
          /\ Len(b) = IF k + 1 <= Len(q) THEN Len(q) - (k + 1) + 1 ELSE 0
          /\ \A i \in 1..(Len(q) - (k + 1) + 1) : b[i] = q[k + 1 + i - 1]
      BY <2>1, SubSeqProperties
    <2> HIDE DEF b
    <2> QED BY <1>0, <2>2
  <1> HIDE DEF a, b
  <1>3. /\ a \o b \in Seq(S) /\ Len(a \o b) = Len(a) + Len(b)
        /\ \A i \in 1..(Len(a) + Len(b)) :
              (a \o b)[i] = IF i <= Len(a) THEN a[i] ELSE b[i - Len(a)]
    BY <1>1, <1>2, ConcatProperties
  <1>4. Cut(q, k) = a \o b
    BY DEF Cut, a, b
  <1>5. ASSUME NEW i \in 1..(Len(q) - 1)
        PROVE  (a \o b)[i] = IF i < k THEN q[i] ELSE q[i + 1]
    <2>1. i \in 1..(Len(a) + Len(b))
      BY <1>0, <1>1, <1>2
    <2>2. CASE i < k
      BY <1>0, <1>1, <1>3, <2>1, <2>2
    <2>3. CASE ~(i < k)
      <3>1. i - Len(a) \in 1..(Len(q) - k) /\ ~(i <= Len(a))
        BY <1>0, <1>1, <2>3
      <3>2. b[i - Len(a)] = q[k + (i - Len(a))]
        BY <1>2, <3>1
      <3>3. k + (i - Len(a)) = i + 1
        BY <1>0, <1>1
      <3> QED BY <1>3, <2>1, <2>3, <3>1, <3>2, <3>3
    <2> QED BY <2>2, <2>3
  <1>6. Len(a) + Len(b) = Len(q) - 1
    BY <1>0, <1>1, <1>2
  <1>7. Cut(q, k) \in Seq(S) /\ Len(Cut(q, k)) = Len(q) - 1
    BY <1>3, <1>4, <1>6
  <1>8. \A i \in 1..(Len(q) - 1) :
           Cut(q, k)[i] = IF i < k THEN q[i] ELSE q[i + 1]
    BY <1>4, <1>5
  <1> QED BY <1>7, <1>8

(* How it goes with sending to and receiving from the queue.               *)
LEMMA CutAppend ==
    ASSUME NEW S, NEW q \in Seq(S), NEW m \in S, NEW k \in 1..Len(q)
    PROVE  Cut(Append(q, m), k) = Append(Cut(q, k), m)
  <1> DEFINE r == Append(q, m)
  <1>1. /\ r \in Seq(S) /\ Len(r) = Len(q) + 1 /\ r[Len(q) + 1] = m
        /\ \A i \in 1..Len(q) : r[i] = q[i]
    BY AppendProperties
  <1>2. Len(q) \in Nat
    BY LenProperties
  <1> HIDE DEF r
  <1>3. /\ Cut(q, k) \in Seq(S) /\ Len(Cut(q, k)) = Len(q) - 1
        /\ \A i \in 1..(Len(q) - 1) :
              Cut(q, k)[i] = IF i < k THEN q[i] ELSE q[i + 1]
    BY CutType
  <1>4. k \in 1..Len(r)
    BY <1>1, <1>2
  <1>5. /\ Cut(r, k) \in Seq(S) /\ Len(Cut(r, k)) = Len(r) - 1
        /\ \A i \in 1..(Len(r) - 1) :
              Cut(r, k)[i] = IF i < k THEN r[i] ELSE r[i + 1]
    BY <1>1, <1>4, CutType
  <1> DEFINE t == Append(Cut(q, k), m)
  <1>6. /\ t \in Seq(S) /\ Len(t) = Len(q)
        /\ \A i \in 1..(Len(q) - 1) : t[i] = Cut(q, k)[i]
        /\ t[Len(q)] = m
    <2>1. /\ t \in Seq(S) /\ Len(t) = Len(Cut(q, k)) + 1
          /\ \A i \in 1..Len(Cut(q, k)) : t[i] = Cut(q, k)[i]
          /\ t[Len(Cut(q, k)) + 1] = m
      BY <1>3, AppendProperties
    <2> HIDE DEF t
    <2> QED BY <1>2, <1>3, <2>1
  <1> HIDE DEF t
  <1>7. ASSUME NEW i \in 1..Len(q) PROVE Cut(r, k)[i] = t[i]
    <2>1. Cut(r, k)[i] = IF i < k THEN r[i] ELSE r[i + 1]
      BY <1>1, <1>2, <1>5
    <2>2. CASE i = Len(q)
      BY <1>1, <1>2, <1>6, <2>1, <2>2
    <2>3. CASE i # Len(q)
      <3>1. i \in 1..(Len(q) - 1) /\ i + 1 \in 1..Len(q)
        BY <1>2, <2>3
      <3> QED BY <1>1, <1>3, <1>6, <2>1, <3>1
    <2> QED BY <2>2, <2>3
  <1>8. Len(Cut(r, k)) = Len(t) /\ \A i \in 1..Len(Cut(r, k)) : Cut(r, k)[i] = t[i]
    BY <1>1, <1>2, <1>5, <1>6, <1>7
  <1>9. Cut(r, k) = t
    BY <1>5, <1>6, <1>8, SeqEqual
  <1> QED BY <1>9 DEF r, t

(* ... the done message at the end,                                        *)
LEMMA CutLast ==
    ASSUME NEW S, NEW q \in Seq(S), NEW m \in S
    PROVE  Cut(Append(q, m), Len(q) + 1) = q
  <1> DEFINE r == Append(q, m)
             k == Len(q) + 1
  <1>1. /\ r \in Seq(S) /\ Len(r) = Len(q) + 1
        /\ \A i \in 1..Len(q) : r[i] = q[i]
    BY AppendProperties
  <1>2. Len(q) \in Nat
    BY LenProperties
  <1>3. k \in 1..Len(r)
    BY <1>1, <1>2
  <1> HIDE DEF r
  <1>4. /\ Cut(r, k) \in Seq(S) /\ Len(Cut(r, k)) = Len(r) - 1
        /\ \A i \in 1..(Len(r) - 1) :
              Cut(r, k)[i] = IF i < k THEN r[i] ELSE r[i + 1]
    <2> HIDE DEF k
    <2> QED BY <1>1, <1>3, CutType
  <1>5. Len(Cut(r, k)) = Len(q) /\ \A i \in 1..Len(Cut(r, k)) : Cut(r, k)[i] = q[i]
    BY <1>1, <1>2, <1>4
  <1>6. Cut(r, k) = q
    BY <1>4, <1>5, SeqEqual
  <1> QED BY <1>6 DEF r

(* ... and at the beginning,                                               *)
LEMMA CutFirst ==
    ASSUME NEW S, NEW q \in Seq(S), q # << >>
    PROVE  Cut(q, 1) = Tail(q) /\ 1 \in 1..Len(q)
  <1>1. Len(q) \in Nat /\ Len(q) # 0
    BY EmptySeq
  <1>2. /\ Tail(q) \in Seq(S) /\ Len(Tail(q)) = Len(q) - 1
        /\ \A i \in 1..Len(Tail(q)) : Tail(q)[i] = q[i + 1]
    BY HeadTailProperties
  <1>3. 1 \in 1..Len(q)
    BY <1>1
  <1>4. /\ Cut(q, 1) \in Seq(S) /\ Len(Cut(q, 1)) = Len(q) - 1
        /\ \A i \in 1..(Len(q) - 1) :
              Cut(q, 1)[i] = IF i < 1 THEN q[i] ELSE q[i + 1]
    BY <1>3, CutType
  <1>5. /\ Len(Cut(q, 1)) = Len(Tail(q))
        /\ \A i \in 1..Len(Cut(q, 1)) : Cut(q, 1)[i] = Tail(q)[i]
    <2> DEFINE c == Cut(q, 1)
               t == Tail(q)
    <2>1. ASSUME NEW i \in 1..(Len(q) - 1) PROVE c[i] = t[i]
      <3>1. c[i] = q[i + 1]
        BY <1>1, <1>4
      <3>2. t[i] = q[i + 1]
        BY <1>1, <1>2
      <3> QED BY <3>1, <3>2
    <2> QED BY <1>2, <1>4, <2>1
  <1> QED BY <1>2, <1>3, <1>4, <1>5, SeqEqual

(* ... and a message before it.                                            *)
LEMMA CutTail ==
    ASSUME NEW S, NEW q \in Seq(S), q # << >>, NEW k \in 1..Len(Tail(q))
    PROVE  /\ Cut(q, k + 1) = <<Head(q)>> \o Cut(Tail(q), k)
           /\ k + 1 \in 1..Len(q)
  <1> DEFINE t == Tail(q)
  <1>0. Len(q) \in Nat /\ Len(q) # 0
    BY EmptySeq
  <1>1. /\ Head(q) \in S /\ t \in Seq(S) /\ Len(t) = Len(q) - 1
        /\ \A i \in 1..Len(t) : t[i] = q[i + 1]
    BY HeadTailProperties
  <1>2. k \in 1..Len(t)
    OBVIOUS
  <1>3. Head(q) = q[1]
    BY <1>0
  <1> HIDE DEF t
  <1>4. k + 1 \in 1..Len(q)
    BY <1>0, <1>1, <1>2
  <1>5. /\ Cut(q, k + 1) \in Seq(S) /\ Len(Cut(q, k + 1)) = Len(q) - 1
        /\ \A i \in 1..(Len(q) - 1) :
              Cut(q, k + 1)[i] = IF i < k + 1 THEN q[i] ELSE q[i + 1]
    BY <1>4, CutType
  <1>6. /\ Cut(t, k) \in Seq(S) /\ Len(Cut(t, k)) = Len(t) - 1
        /\ \A i \in 1..(Len(t) - 1) :
              Cut(t, k)[i] = IF i < k THEN t[i] ELSE t[i + 1]
    BY <1>1, <1>2, CutType
  <1> DEFINE h == <<Head(q)>>
             u == h \o Cut(t, k)
  <1>7. h \in Seq(S) /\ Len(h) = 1 /\ h[1] = Head(q)
    BY <1>1
  <1> HIDE DEF h
  <1>8. /\ u \in Seq(S) /\ Len(u) = 1 + Len(Cut(t, k))
        /\ \A i \in 1..(1 + Len(Cut(t, k))) :
              u[i] = IF i <= 1 THEN h[i] ELSE Cut(t, k)[i - 1]
    <2> DEFINE c == Cut(t, k)
    <2>1. h \in Seq(S) /\ c \in Seq(S)
      BY <1>6, <1>7
    <2>2. u = h \o c
      OBVIOUS
    <2> HIDE DEF c, u
    <2>3. /\ h \o c \in Seq(S) /\ Len(h \o c) = Len(h) + Len(c)
          /\ \A i \in 1..(Len(h) + Len(c)) :
                (h \o c)[i] = IF i <= Len(h) THEN h[i] ELSE c[i - Len(h)]
      BY <2>1, ConcatProperties
    <2> QED BY <1>7, <2>2, <2>3 DEF c
  <1> HIDE DEF u
  <1>9. ASSUME NEW i \in 1..(Len(q) - 1) PROVE Cut(q, k + 1)[i] = u[i]
    <2>1. CASE i = 1
      BY <1>0, <1>1, <1>2, <1>3, <1>5, <1>6, <1>7, <1>8, <2>1
    <2>2. CASE i # 1
      <3>1. /\ i - 1 \in 1..(Len(t) - 1) /\ i \in 1..(1 + Len(Cut(t, k)))
            /\ i - 1 \in 1..Len(t) /\ i \in 1..Len(t)
        BY <1>0, <1>1, <1>6, <2>2
      <3>2. u[i] = IF i - 1 < k THEN t[i - 1] ELSE t[(i - 1) + 1]
        BY <1>6, <1>8, <2>2, <3>1
      <3>3. t[i - 1] = q[i] /\ t[(i - 1) + 1] = q[i + 1]
        BY <1>1, <3>1
      <3> QED BY <1>5, <3>1, <3>2, <3>3
    <2> QED BY <2>1, <2>2
  <1>10. Len(Cut(q, k + 1)) = Len(u)
           /\ \A i \in 1..Len(Cut(q, k + 1)) : Cut(q, k + 1)[i] = u[i]
    BY <1>0, <1>1, <1>2, <1>5, <1>6, <1>8, <1>9
  <1>11. Cut(q, k + 1) = u
    BY <1>5, <1>8, <1>10, SeqEqual
  <1> QED BY <1>4, <1>11 DEF t, u, h

(* Three queues one after the other.                                       *)
LEMMA JoinedInAnyOrder ==
    \A a, b, c \in Seq(All) : (a \o b) \o c = a \o (b \o c)
  BY ConcatAssociative

(* The caller appends a message that it takes from the front of the rest,  *)
LEMMA MoveFront ==
    \A g, r, x \in Seq(All), h \in All :
        (g \o r) \o (<<h>> \o x) = (g \o Append(r, h)) \o x
  <1> SUFFICES ASSUME NEW g \in Seq(All), NEW r \in Seq(All),
                      NEW x \in Seq(All), NEW h \in All
               PROVE  (g \o r) \o (<<h>> \o x) = (g \o Append(r, h)) \o x
    OBVIOUS
  <1> DEFINE e == <<h>>
             c == g \o r
  <1>1. e \in Seq(All) /\ c \in Seq(All)
    BY ConcatProperties
  <1>2. Append(r, h) = r \o e
    BY AppendIsConcat
  <1>3. g \o (r \o e) = c \o e
    BY <1>1, JoinedInAnyOrder
  <1> HIDE DEF e, c
  <1>4. c \o (e \o x) = (c \o e) \o x
    BY <1>1, JoinedInAnyOrder
  <1> QED BY <1>2, <1>3, <1>4 DEF e, c

(* and a sender appends one at the end.                                    *)
LEMMA MoveBack ==
    \A c, x \in Seq(All), m \in All : Append(c \o x, m) = c \o Append(x, m)
  <1> SUFFICES ASSUME NEW c \in Seq(All), NEW x \in Seq(All), NEW m \in All
               PROVE  Append(c \o x, m) = c \o Append(x, m)
    OBVIOUS
  <1> DEFINE e == <<m>>
             y == c \o x
  <1>1. e \in Seq(All) /\ y \in Seq(All)
    BY ConcatProperties
  <1>2. Append(x, m) = x \o e
    BY AppendIsConcat
  <1>3. y \o e = c \o (x \o e)
    BY <1>1, JoinedInAnyOrder
  <1> HIDE DEF e, y
  <1>4. Append(y, m) = y \o <<m>>
    BY <1>1, AppendIsConcat
  <1> QED BY <1>2, <1>3, <1>4 DEF e, y

(* Where the done message is, after a message is sent                      *)
LEMMA DoneAppend ==
    ASSUME NEW q \in Seq(All), NEW m \in All, m # Done
    PROVE  /\ NoDone(Append(q, m)) <=> NoDone(q)
           /\ \A k \in DOMAIN q :
                 DoneOnlyAt(Append(q, m), k) <=> DoneOnlyAt(q, k)
           /\ \A k \in DOMAIN Append(q, m) :
                 DoneOnlyAt(Append(q, m), k) => k \in DOMAIN q
           /\ DOMAIN q \subseteq DOMAIN Append(q, m)
  <1> DEFINE r == Append(q, m)
             n == Len(q)
  <1>1. /\ r \in Seq(All) /\ Len(r) = n + 1 /\ r[n + 1] = m
        /\ \A i \in 1..n : r[i] = q[i]
    BY AppendProperties
  <1>2. n \in Nat /\ DOMAIN q = 1..n
    BY LenProperties
  <1>3. DOMAIN r = 1..(n + 1)
    BY <1>1, LenProperties
  <1> HIDE DEF r, n
  <1>4. DOMAIN r = DOMAIN q \cup {n + 1} /\ n + 1 \notin DOMAIN q
    BY <1>2, <1>3
  <1>5. \A i \in DOMAIN q : r[i] = q[i]
    BY <1>1, <1>2
  <1>6. r[n + 1] # Done
    BY <1>1
  <1>7. NoDone(r) <=> NoDone(q)
    BY <1>4, <1>5, <1>6 DEF NoDone
  <1>8. \A k \in DOMAIN q : DoneOnlyAt(r, k) <=> DoneOnlyAt(q, k)
    BY <1>4, <1>5, <1>6 DEF DoneOnlyAt
  <1>9. \A k \in DOMAIN r : DoneOnlyAt(r, k) => k \in DOMAIN q
    BY <1>4, <1>5, <1>6 DEF DoneOnlyAt
  <1> QED BY <1>4, <1>7, <1>8, <1>9 DEF r

(* ... and after one is received.                                          *)
LEMMA DoneTail ==
    ASSUME NEW q \in Seq(All), q # << >>
    PROVE  /\ 1 \in DOMAIN q /\ Head(q) = q[1]
           /\ \A k \in DOMAIN Tail(q) :
                 k + 1 \in DOMAIN q /\ Tail(q)[k] = q[k + 1]
           /\ \A i \in DOMAIN q \ {1} :
                 i - 1 \in DOMAIN Tail(q) /\ Tail(q)[i - 1] = q[i]
           /\ DOMAIN q \subseteq Nat \ {0} /\ DOMAIN Tail(q) \subseteq Nat \ {0}
  <1> DEFINE t == Tail(q)
             n == Len(q)
  <1>1. n \in Nat \ {0} /\ DOMAIN q = 1..n
    BY EmptySeq, LenProperties
  <1>2. t \in Seq(All) /\ Len(t) = n - 1 /\ \A i \in 1..Len(t) : t[i] = q[i + 1]
    BY HeadTailProperties
  <1>3. DOMAIN t = 1..(n - 1)
    BY <1>2, LenProperties
  <1>4. Head(q) = q[1]
    BY <1>1
  <1> HIDE DEF t, n
  <1>5. \A i \in 1..(n - 1) : t[i] = q[i + 1]
    BY <1>2
  <1>6. ASSUME NEW i \in DOMAIN q \ {1}
        PROVE  i - 1 \in DOMAIN t /\ t[i - 1] = q[i]
    <2>1. i - 1 \in 1..(n - 1) /\ (i - 1) + 1 = i
      BY <1>1
    <2>2. t[i - 1] = q[(i - 1) + 1]
      BY <1>5, <2>1
    <2> QED BY <1>3, <2>1, <2>2
  <1>7. \A k \in DOMAIN t : k + 1 \in DOMAIN q /\ t[k] = q[k + 1]
    BY <1>1, <1>3, <1>5
  <1>8. /\ 1 \in DOMAIN q
        /\ DOMAIN q \subseteq Nat \ {0} /\ DOMAIN t \subseteq Nat \ {0}
    BY <1>1, <1>3
  <1> QED BY <1>4, <1>6, <1>7, <1>8 DEF t

(* The beginning: no call, no waiter, no message.                          *)
LEMMA TimeoutInitInd == Init => TimeoutInd
  <1> SUFFICES ASSUME Init PROVE TimeoutInd
    OBVIOUS
  <1>1. TimeoutTypes
    BY TimeoutAssumption DEF Init, TimeoutTypes, All
  <1>2. NoDone(queue) /\ Handshake
    BY DEF Init, NoDone, Handshake
  <1>3. got \o Pending \o queue = << >>
    BY DEF Init, Pending
  <1> QED BY <1>1, <1>2, <1>3 DEF TimeoutInd, Kept, NoDone, Init

(* A step that leaves the messages where they are.                         *)
LEMMA SameMessages ==
    ASSUME TimeoutInd, UNCHANGED <<queue, sent, got>>, Pending' = Pending
    PROVE  Kept'
  <1>1. NoDone(queue)' = NoDone(queue)
    BY DEF NoDone
  <1>2. \A k : DoneOnlyAt(queue, k)' = DoneOnlyAt(queue, k)
    BY DEF DoneOnlyAt
  <1>3. \A k : Cut(queue, k)' = Cut(queue, k)
    BY DEF Cut
  <1> QED BY <1>1, <1>2, <1>3 DEF TimeoutInd, Kept

(* The caller starts a call, tells the waiter to stop, or returns.         *)
LEMMA CallerInd ==
    ASSUME TimeoutInd, msg_wait_timeout \/ StopWaiter \/ Finish
    PROVE  TimeoutInd'
  <1>1. TimeoutTypes /\ Handshake /\ UNCHANGED <<queue, sent>>
    BY DEF TimeoutInd, msg_wait_timeout, StopWaiter, Finish
  <1>2. CASE msg_wait_timeout
    <2>1. TimeoutTypes'
      BY <1>1, <1>2, TimeoutAssumption DEF TimeoutTypes, msg_wait_timeout
    <2>2. Handshake'
      BY <1>1, <1>2 DEF Handshake, NoDone, msg_wait_timeout
    <2>3. Pending' = Pending /\ UNCHANGED <<queue, sent, got>>
      BY <1>2 DEF Pending, msg_wait_timeout
    <2> QED BY <2>1, <2>2, <2>3, SameMessages DEF TimeoutInd
  <1>3. CASE StopWaiter
    <2>1. TimeoutTypes'
      BY <1>1, <1>3 DEF TimeoutTypes, StopWaiter, wvars
    <2>2. Handshake'
      BY <1>1, <1>3 DEF Handshake, NoDone, DoneOnlyAt, StopWaiter, wvars
    <2>3. Pending' = Pending /\ UNCHANGED <<queue, sent, got>>
      BY <1>3 DEF Pending, StopWaiter
    <2> QED BY <2>1, <2>2, <2>3, SameMessages DEF TimeoutInd
  <1>4. CASE Finish
    <2>1. /\ caller = "finish" /\ caller' = "idle" /\ got' = got \o results
          /\ UNCHANGED <<queue, sent, results, args_done, elapsed>>
          /\ UNCHANGED <<waiter, ms_to_wait, sleeping>>
      BY <1>4 DEF Finish, wvars
    <2>2. got' \in Seq(Msgs)
      BY <1>1, <2>1, ConcatProperties DEF TimeoutTypes
    <2>3. TimeoutTypes'
      BY <1>1, <2>1, <2>2 DEF TimeoutTypes
    <2>4. NoDone(queue) /\ Handshake' /\ NoDone(queue)'
      BY <1>1, <2>1 DEF Handshake, NoDone
    <2>5. got' \o Pending' = got \o Pending
      BY <2>1, <2>2, ConcatEmptySeq DEF Pending
    <2>6. Kept'
      BY <2>1, <2>4, <2>5 DEF TimeoutInd, Kept, NoDone, DoneOnlyAt
    <2> QED BY <2>3, <2>4, <2>6 DEF TimeoutInd
  <1> QED BY <1>2, <1>3, <1>4

(* The waiter's loop, and the clock.                                       *)
LEMMA WaiterInd ==
    ASSUME TimeoutInd, WaiterBegin \/ WaiterTest \/ WaiterPoll \/ Tick
    PROVE  TimeoutInd'
  <1>1. TimeoutTypes /\ Handshake
    BY DEF TimeoutInd
  <1>2. UNCHANGED <<queue, sent, caller, results, got, args_done>>
    BY DEF WaiterBegin, WaiterTest, WaiterPoll, Tick, cvars
  <1>3. Signed(Requested) \in Int
    BY TimeoutAssumption DEF Signed
  <1>4. TimeoutTypes'
    BY <1>1, <1>2, <1>3, TimeoutAssumption
       DEF TimeoutTypes, WaiterBegin, WaiterTest, WaiterPoll, Tick
  <1>5. waiter' = "ended" <=> waiter = "ended"
    BY DEF WaiterBegin, WaiterTest, WaiterPoll, Tick
  <1>6. Handshake'
    BY <1>1, <1>2, <1>5 DEF Handshake, NoDone, DoneOnlyAt
  <1>7. Pending' = Pending
    BY <1>2 DEF Pending
  <1> QED BY <1>2, <1>4, <1>6, <1>7, SameMessages DEF TimeoutInd

(* The done message goes to the end of a queue that has none.              *)
LEMMA WaiterSendInd ==
    ASSUME TimeoutInd, WaiterSend
    PROVE  TimeoutInd'
  <1>1. /\ TimeoutTypes /\ waiter = "send" /\ waiter' = "ended"
        /\ queue' = Append(queue, Done)
        /\ UNCHANGED <<sent, caller, results, got, args_done, sleeping,
                       ms_to_wait, elapsed>>
    BY DEF TimeoutInd, WaiterSend, cvars
  <1>2. /\ caller \in {"wait", "stop"} /\ NoDone(queue)
        /\ sent = got \o Pending \o queue
    BY <1>1 DEF TimeoutInd, Handshake, Kept
  <1>3. queue \in Seq(All) /\ Done \in All /\ Len(queue) \in Nat
    BY <1>1, LenProperties DEF TimeoutTypes, All
  <1>4. /\ queue' \in Seq(All) /\ Len(queue') = Len(queue) + 1
        /\ \A i \in 1..Len(queue) : queue'[i] = queue[i]
        /\ queue'[Len(queue) + 1] = Done
    BY <1>1, <1>3, AppendProperties
  <1>5. DOMAIN queue = 1..Len(queue) /\ DOMAIN queue' = 1..(Len(queue) + 1)
    BY <1>3, <1>4, LenProperties
  <1>6. TimeoutTypes'
    BY <1>1, <1>4 DEF TimeoutTypes
  <1>7. \A i \in DOMAIN queue' : i # Len(queue) + 1 => queue'[i] # Done
    BY <1>2, <1>3, <1>4, <1>5 DEF NoDone
  <1>8. /\ Len(queue) + 1 \in DOMAIN queue'
        /\ DoneOnlyAt(queue', Len(queue) + 1)
    BY <1>3, <1>4, <1>5, <1>7 DEF DoneOnlyAt
  <1>9. Handshake'
    BY <1>1, <1>2, <1>8 DEF Handshake
  <1>10. Cut(queue', Len(queue) + 1) = queue
    BY <1>1, <1>3, CutLast
  <1>11. Pending' = Pending
    BY <1>1 DEF Pending
  <1>12. Kept'
    <2>1. ~NoDone(queue')
      BY <1>4, <1>8 DEF NoDone
    <2>2. ASSUME NEW k \in DOMAIN queue', DoneOnlyAt(queue', k)
          PROVE  k = Len(queue) + 1
      BY <1>7, <2>2 DEF DoneOnlyAt
    <2> QED BY <1>1, <1>2, <1>10, <1>11, <2>1, <2>2 DEF Kept
  <1> QED BY <1>6, <1>9, <1>12 DEF TimeoutInd

(* Another task sends a message.                                           *)
LEMMA SendRealInd ==
    ASSUME TimeoutInd, NEW m \in Msgs, SendReal(m)
    PROVE  TimeoutInd'
  <1>1. /\ TimeoutTypes /\ queue' = Append(queue, m) /\ sent' = Append(sent, m)
        /\ UNCHANGED <<caller, results, got, args_done, waiter, ms_to_wait,
                       sleeping, elapsed>>
    BY DEF TimeoutInd, SendReal, cvars, wvars
  <1>2. /\ queue \in Seq(All) /\ m \in All /\ m # Done /\ Len(queue) \in Nat
        /\ sent \in Seq(Msgs) /\ got \in Seq(All) /\ Pending \in Seq(All)
    <2>1. Msgs \subseteq All
      BY DEF All
    <2>2. got \in Seq(Msgs) /\ Pending \in Seq(Msgs)
      BY <1>1 DEF TimeoutTypes, Pending
    <2> QED BY <1>1, <2>1, <2>2, TimeoutAssumption, LenProperties, SeqMonotonic
            DEF TimeoutTypes
  <1>3. queue' \in Seq(All) /\ sent' \in Seq(Msgs)
    BY <1>1, <1>2, AppendProperties
  <1>4. DOMAIN queue = 1..Len(queue)
    BY <1>2, LenProperties
  <1>6. TimeoutTypes'
    BY <1>1, <1>3 DEF TimeoutTypes
  <1>7. NoDone(queue') <=> NoDone(queue)
    BY <1>1, <1>2, DoneAppend
  <1>8. /\ \A k \in DOMAIN queue : DoneOnlyAt(queue', k) <=> DoneOnlyAt(queue, k)
        /\ DOMAIN queue \subseteq DOMAIN queue'
        /\ \A k \in DOMAIN queue' : DoneOnlyAt(queue', k) => k \in DOMAIN queue
    BY <1>1, <1>2, DoneAppend
  <1>9. Handshake'
    BY <1>1, <1>7, <1>8 DEF TimeoutInd, Handshake
  <1>10. Pending' = Pending
    BY <1>1 DEF Pending
  <1>11. ASSUME NoDone(queue) PROVE sent' = got \o Pending \o queue'
    <2>1. sent = got \o Pending \o queue
      BY <1>11 DEF TimeoutInd, Kept
    <2>2. Append((got \o Pending) \o queue, m)
            = (got \o Pending) \o Append(queue, m)
      <3>1. got \o Pending \in Seq(All)
        BY <1>2, ConcatProperties
      <3> QED BY <1>2, <3>1, MoveBack
    <2> QED BY <1>1, <2>1, <2>2
  <1>12. ASSUME NEW k \in DOMAIN queue, DoneOnlyAt(queue, k)
         PROVE  sent' = got \o Pending \o Cut(queue', k)
    <2> DEFINE x == Cut(queue, k)
    <2>0. k \in 1..Len(queue)
      BY <1>4
    <2>1. sent = (got \o Pending) \o x
      BY <1>12 DEF TimeoutInd, Kept
    <2>2. Cut(queue', k) = Append(x, m)
      BY <1>1, <1>2, <2>0, CutAppend
    <2>3. x \in Seq(All)
      BY <1>2, <2>0, CutType
    <2> HIDE DEF x
    <2>4. Append((got \o Pending) \o x, m) = (got \o Pending) \o Append(x, m)
      <3>1. got \o Pending \in Seq(All)
        BY <1>2, ConcatProperties
      <3> QED BY <1>2, <2>3, <3>1, MoveBack
    <2> QED BY <1>1, <2>1, <2>2, <2>4
  <1>13. Kept'
    BY <1>1, <1>7, <1>8, <1>10, <1>11, <1>12 DEF Kept
  <1> QED BY <1>6, <1>9, <1>13 DEF TimeoutInd

(* The caller takes a message: its own done message, which ends the call,  *)
(* or a real one, which it keeps.                                          *)
LEMMA WaitMsgInd ==
    ASSUME TimeoutInd, WaitMsg
    PROVE  TimeoutInd'
  <1> DEFINE h == Head(queue)
             t == Tail(queue)
  <1>1. /\ TimeoutTypes /\ caller = "wait" /\ queue # << >> /\ queue' = t
        /\ results' = IF h = Done THEN results ELSE Append(results, h)
        /\ caller' = IF h = Done THEN "finish" ELSE "stop"
        /\ UNCHANGED <<sent, got, args_done, waiter, ms_to_wait, sleeping,
                       elapsed>>
    BY DEF TimeoutInd, WaitMsg, wvars
  <1>2. /\ queue \in Seq(All) /\ Len(queue) \in Nat \ {0}
        /\ got \in Seq(All) /\ results \in Seq(All)
    <2>1. Msgs \subseteq All
      BY DEF All
    <2> QED BY <1>1, <2>1, EmptySeq, SeqMonotonic DEF TimeoutTypes
  <1>3. h \in All /\ t \in Seq(All) /\ DOMAIN t = 1..Len(t)
    <2>1. h \in All /\ t \in Seq(All)
      BY <1>1, <1>2, HeadTailProperties
    <2> QED BY <2>1, LenProperties
  <1>4. /\ 1 \in DOMAIN queue /\ h = queue[1]
        /\ \A k \in DOMAIN t : k + 1 \in DOMAIN queue /\ t[k] = queue[k + 1]
        /\ \A i \in DOMAIN queue \ {1} :
              i - 1 \in DOMAIN t /\ t[i - 1] = queue[i]
        /\ DOMAIN queue \subseteq Nat \ {0} /\ DOMAIN t \subseteq Nat \ {0}
    BY <1>1, <1>2, DoneTail
  <1> HIDE DEF h, t
  <1>5. TimeoutTypes'
    <2>1. h # Done => Append(results, h) \in Seq(Msgs)
      BY <1>1, <1>3, AppendProperties DEF TimeoutTypes, All
    <2> QED BY <1>1, <1>3, <2>1 DEF TimeoutTypes
  <1>6. Pending = results /\ Pending' = results'
    BY <1>1 DEF Pending
  <1>7. CASE h = Done
    <2>1. waiter = "ended" /\ \E k \in DOMAIN queue : DoneOnlyAt(queue, k)
      <3>1. 1 \in DOMAIN queue /\ ~NoDone(queue)
        BY <1>4, <1>7 DEF NoDone
      <3> QED BY <1>1, <3>1 DEF TimeoutInd, Handshake
    <2>2. 1 \in DOMAIN queue /\ DoneOnlyAt(queue, 1)
      BY <1>4, <1>7, <2>1 DEF DoneOnlyAt
    <2>3. NoDone(t)
      <3> SUFFICES ASSUME NEW k \in DOMAIN t PROVE t[k] # Done
        BY DEF NoDone
      <3>1. k + 1 # 1 /\ k + 1 \in DOMAIN queue /\ t[k] = queue[k + 1]
        BY <1>4
      <3> QED BY <2>2, <3>1 DEF DoneOnlyAt
    <2>4. Handshake'
      BY <1>1, <1>7, <2>1, <2>3 DEF Handshake
    <2>5. Cut(queue, 1) = t
      BY <1>1, <1>2, CutFirst DEF t
    <2>6. sent = got \o Pending \o t
      BY <2>2, <2>5 DEF TimeoutInd, Kept
    <2>7. Kept'
      BY <1>1, <1>6, <1>7, <2>3, <2>6 DEF Kept, NoDone, DoneOnlyAt
    <2> QED BY <1>5, <2>4, <2>7 DEF TimeoutInd
  <1>8. CASE h # Done
    <2>1. NoDone(t) => NoDone(queue)
      <3> SUFFICES ASSUME NoDone(t), NEW i \in DOMAIN queue
                   PROVE  queue[i] # Done
        BY DEF NoDone
      <3>1. CASE i = 1
        BY <1>4, <1>8, <3>1
      <3>2. CASE i # 1
        BY <1>4, <3>2 DEF NoDone
      <3> QED BY <3>1, <3>2
    <2>2. ASSUME NEW k \in DOMAIN t, DoneOnlyAt(t, k)
          PROVE  k + 1 \in DOMAIN queue /\ DoneOnlyAt(queue, k + 1)
      <3>1. k + 1 \in DOMAIN queue /\ queue[k + 1] = Done
        BY <1>4, <2>2 DEF DoneOnlyAt
      <3>2. ASSUME NEW i \in DOMAIN queue, i # k + 1
            PROVE  queue[i] # Done
        <4>1. CASE i = 1
          BY <1>4, <1>8, <4>1
        <4>2. CASE i # 1
          <5>1. i - 1 \in DOMAIN t /\ i - 1 # k /\ t[i - 1] = queue[i]
            BY <1>4, <3>2, <4>2
          <5> QED BY <2>2, <5>1 DEF DoneOnlyAt
        <4> QED BY <4>1, <4>2
      <3> QED BY <3>1, <3>2 DEF DoneOnlyAt
    <2>3. NoDone(queue) => NoDone(t)
      BY <1>4 DEF NoDone
    <2>4. ASSUME NEW k \in DOMAIN queue, DoneOnlyAt(queue, k)
          PROVE  \E j \in DOMAIN t : DoneOnlyAt(t, j)
      <3>1. k # 1
        BY <1>4, <1>8, <2>4 DEF DoneOnlyAt
      <3>2. k - 1 \in DOMAIN t /\ t[k - 1] = Done
        BY <1>4, <2>4, <3>1 DEF DoneOnlyAt
      <3>3. ASSUME NEW i \in DOMAIN t, i # k - 1 PROVE t[i] # Done
        <4>1. i + 1 \in DOMAIN queue /\ i + 1 # k /\ t[i] = queue[i + 1]
          BY <1>4, <3>3
        <4> QED BY <2>4, <4>1 DEF DoneOnlyAt
      <3> QED BY <3>2, <3>3 DEF DoneOnlyAt
    <2>5. Handshake'
      BY <1>1, <1>8, <2>3, <2>4 DEF TimeoutInd, Handshake
    <2>6. ASSUME NEW x \in Seq(All)
          PROVE  (got \o results) \o (<<h>> \o x)
                   = (got \o Append(results, h)) \o x
      <3>1. got \in Seq(All) /\ results \in Seq(All) /\ h \in All
        BY <1>2, <1>3
      <3> QED BY <3>1, MoveFront
    <2>7. ASSUME NoDone(t) PROVE sent = got \o Pending' \o t
      <3>1. sent = got \o results \o queue
        BY <1>6, <2>1, <2>7 DEF TimeoutInd, Kept
      <3>2. queue = <<h>> \o t
        <4>1. SubSeq(queue, 1, Len(queue)) = queue
          BY <1>2, SubSeqFull
        <4>2. 1 \in 1..Len(queue) /\ Len(queue) \in 1..Len(queue)
          BY <1>2
        <4>3. SubSeq(queue, 1, Len(queue))
                = <<queue[1]>> \o SubSeq(queue, 1 + 1, Len(queue))
          BY <1>2, <4>2, SubSeqRecursiveFirst
        <4>4. t = SubSeq(queue, 2, Len(queue))
          BY <1>1, <1>2, TailIsSubSeq DEF t
        <4>5. 1 + 1 = 2
          OBVIOUS
        <4> QED BY <1>4, <4>1, <4>3, <4>4, <4>5
      <3> QED BY <1>1, <1>3, <1>6, <1>8, <2>6, <3>1, <3>2
    <2>8. ASSUME NEW k \in DOMAIN t, DoneOnlyAt(t, k)
          PROVE  sent = got \o Pending' \o Cut(t, k)
      <3>1. sent = got \o results \o Cut(queue, k + 1)
        BY <1>6, <2>2, <2>8 DEF TimeoutInd, Kept
      <3>2. k \in 1..Len(t)
        BY <1>3
      <3>3. Cut(queue, k + 1) = <<h>> \o Cut(t, k)
        BY <1>1, <1>2, <3>2, CutTail DEF h, t
      <3>4. Cut(t, k) \in Seq(All)
        BY <1>3, <3>2, CutType
      <3> QED BY <1>1, <1>6, <1>8, <2>6, <3>1, <3>3, <3>4
    <2>9. Kept'
      BY <1>1, <2>7, <2>8 DEF Kept
    <2> QED BY <1>5, <2>5, <2>9 DEF TimeoutInd
  <1> QED BY <1>7, <1>8

-----------------------------------------------------------------------------
(* Every step of the caller, the waiter, the senders and the clock.        *)
LEMMA TimeoutNextInd == TimeoutInd /\ [Next]_vars => TimeoutInd'
  <1> SUFFICES ASSUME TimeoutInd, [Next]_vars PROVE TimeoutInd'
    OBVIOUS
  <1>1. CASE UNCHANGED vars
    <2>1. /\ UNCHANGED <<queue, sent, caller, results, got>>
          /\ UNCHANGED <<waiter, ms_to_wait, elapsed>>
      BY <1>1 DEF vars, cvars, wvars
    <2>2. TimeoutTypes' /\ Handshake'
      BY <2>1 DEF TimeoutInd, TimeoutTypes, Handshake, NoDone, DoneOnlyAt
    <2>3. Pending' = Pending
      BY <2>1 DEF Pending
    <2> QED BY <2>1, <2>2, <2>3, SameMessages DEF TimeoutInd
  <1>2. CASE Next
    BY <1>2, CallerInd, WaiterInd, WaiterSendInd, SendRealInd, WaitMsgInd
       DEF Next, Caller, Waiter
  <1> QED BY <1>1, <1>2

(* The invariant holds in every behaviour.                                 *)
LEMMA TimeoutInvariance == Spec => []TimeoutInd
  BY TimeoutInitInd, TimeoutNextInd, PTL DEF Spec

(* "We cannot allow the timeout message to remain on the queue in any      *)
(* circumstance": between calls neither the waiter, which would write to   *)
(* the queue and read args on the caller's stack, nor its message is       *)
(* there, whatever came first, the timeout or a message.                   *)
THEOREM NothingLeftBehindHolds == Spec => []NothingLeftBehind
  <1>1. TimeoutInd => NothingLeftBehind
    BY DEF TimeoutInd, Handshake, NothingLeftBehind, NoDone
  <1> QED BY <1>1, TimeoutInvariance, PTL

(* "We must not lose real messages": all messages that were ever sent have *)
(* been returned, are being collected, or are in the queue, in the order   *)
(* in which they were sent.                                                *)
THEOREM NoMessageLostHolds == Spec => []NoMessageLost
  <1>1. TimeoutInd => NoMessageLost
    <2> SUFFICES ASSUME TimeoutInd PROVE NoMessageLost
      OBVIOUS
    <2>1. CASE NoDone(queue)
      BY <2>1 DEF TimeoutInd, Kept, NoMessageLost, WithoutDone, NoDone
    <2>2. CASE ~NoDone(queue)
      <3>1. PICK k \in DOMAIN queue : DoneOnlyAt(queue, k)
        BY <2>2 DEF TimeoutInd, Handshake
      <3>2. (CHOOSE i \in DOMAIN queue : queue[i] = Done) = k
        BY <3>1 DEF DoneOnlyAt
      <3>3. WithoutDone(queue) = Cut(queue, k)
        BY <3>1, <3>2 DEF WithoutDone, DoneOnlyAt
      <3> QED BY <3>1, <3>3 DEF TimeoutInd, Kept, NoMessageLost
    <2> QED BY <2>1, <2>2
  <1> QED BY <1>1, TimeoutInvariance, PTL

-----------------------------------------------------------------------------
(* The time.  The waiter's variable is signed, so the request has to fit,  *)
(* and the model's clock has to be followed for as long as that.           *)
RequestFits == Requested < Width \div 2 /\ Requested <= MaxElapsed

(* What is left to wait is never less than what is left of the time, and a *)
(* poll that has slept has a millisecond to its credit; only a message     *)
(* makes the caller tell the waiter to stop.                               *)
TimeLeft ==
    caller # "idle" =>
        /\ waiter = "test" => elapsed + ms_to_wait >= Requested
        /\ waiter = "poll" =>
              /\ ms_to_wait >= 1 /\ elapsed + ms_to_wait >= Requested
              /\ ~sleeping => elapsed + ms_to_wait >= Requested + 1
        /\ waiter \in {"send", "ended"} =>
              results # << >> \/ elapsed >= Requested
        /\ caller = "stop" \/ args_done => results # << >>

(* Every step keeps it.                                                    *)
LEMMA TimeLeftNext ==
    ASSUME RequestFits, TimeoutInd, TimeLeft, [Next]_vars
    PROVE  TimeLeft'
  <1>0. /\ Requested \in Nat /\ MaxElapsed \in Nat /\ Requested <= MaxElapsed
        /\ Signed(Requested) = Requested
    BY TimeoutAssumption DEF RequestFits, Signed
  <1>1. ms_to_wait \in Int /\ elapsed \in 0..MaxElapsed /\ Handshake
    BY DEF TimeoutInd, TimeoutTypes
  <1> USE DEF TimeLeft
  <1>2. CASE msg_wait_timeout
    BY <1>2 DEF msg_wait_timeout
  <1>3. CASE WaitMsg
    <2>1. Append(results, Head(queue)) # << >>
      <3>1. results \in Seq(All) /\ Head(queue) \in All
        <4>1. Msgs \subseteq All
          BY DEF All
        <4> QED BY <1>3, <4>1, SeqMonotonic, HeadTailProperties
                DEF TimeoutInd, TimeoutTypes, WaitMsg
      <3> QED BY <3>1, AppendProperties
    <2>2. Head(queue) = Done \/ Head(queue) # Done
      OBVIOUS
    <2> QED BY <1>0, <1>1, <1>3, <2>1, <2>2 DEF WaitMsg, wvars
  <1>4. CASE StopWaiter
    BY <1>0, <1>1, <1>4 DEF StopWaiter, wvars
  <1>5. CASE Finish
    BY <1>5 DEF Finish
  <1>6. CASE WaiterBegin
    BY <1>0, <1>1, <1>6 DEF WaiterBegin, cvars
  <1>7. CASE WaiterTest
    <2>1. /\ waiter = "test" /\ sleeping' = (ms_to_wait > 0)
          /\ waiter' = IF ms_to_wait > 0 THEN "poll" ELSE "send"
          /\ UNCHANGED <<caller, results, args_done, ms_to_wait, elapsed>>
      BY <1>7 DEF WaiterTest, cvars
    <2>2. CASE ms_to_wait > 0
      <3>1. sleeping' /\ waiter' = "poll"
        BY <2>1, <2>2
      <3> QED BY <1>0, <1>1, <2>1, <2>2, <3>1
    <2>3. CASE ~(ms_to_wait > 0)
      <3>1. waiter' = "send"
        BY <2>1, <2>3
      <3> QED BY <1>0, <1>1, <2>1, <2>3, <3>1
    <2> QED BY <2>2, <2>3
  <1>8. CASE WaiterPoll
    BY <1>0, <1>1, <1>8 DEF WaiterPoll, cvars
  <1>9. CASE WaiterSend
    BY <1>0, <1>1, <1>9 DEF WaiterSend, cvars
  <1>10. CASE Tick
    BY <1>0, <1>1, <1>10 DEF Tick, cvars
  <1>11. ASSUME NEW m \in Msgs, SendReal(m) PROVE TimeLeft'
    BY <1>0, <1>1, <1>11 DEF SendReal, cvars, wvars
  <1>12. CASE UNCHANGED vars
    BY <1>12 DEF vars, cvars, wvars
  <1> QED BY <1>2, <1>3, <1>4, <1>5, <1>6, <1>7, <1>8, <1>9, <1>10, <1>11,
             <1>12 DEF Next, Caller, Waiter

(* "Empty if the timeout elapsed before any messages were received", for   *)
(* every timeout that fits: a call that returns no message has waited for  *)
(* all of the time, though the waiter counts polls and not the time.       *)
THEOREM NoEarlyTimeoutHolds ==
    ASSUME RequestFits PROVE Spec => []NoEarlyTimeout
  <1>1. Init => TimeLeft
    BY DEF Init, TimeLeft
  <1>2. TimeoutInd /\ TimeLeft /\ [Next]_vars => TimeLeft'
    BY TimeLeftNext
  <1>3. TimeoutInd /\ TimeLeft => NoEarlyTimeout
    BY DEF TimeoutInd, Handshake, TimeLeft, NoEarlyTimeout
  <1> QED BY <1>1, <1>2, <1>3, TimeoutInvariance, PTL DEF Spec
=============================================================================
