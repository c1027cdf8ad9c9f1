---------------------------- MODULE SyncProofs ----------------------------
(***************************************************************************)
(* The synchronisation library of user space (sync.C) and its client, the  *)
(* thread pool, for any finite set of tasks.                               *)
(*                                                                         *)
(* First facts about the futex manager's operations, for every set of      *)
(* tasks and addresses, that everything else rests on; then mutual         *)
(* exclusion and the absence of lost wake-ups for mutex_lock and           *)
(* mutex_unlock; recursive_mutex_lock and recursive_mutex_unlock, which    *)
(* exclude the tasks from one another and count the nesting right, for any *)
(* depth; barrier_wait, which keeps the tasks together for any number of   *)
(* rounds; the condition variable, whose sync_cond_broadcast leaves no     *)
(* sleeper behind, for any number of signals and broadcasts; and the       *)
(* thread pool: no work item is lost or run twice, and shutdown completes  *)
(* the work, for any workers and items.                                    *)
(***************************************************************************)
EXTENDS Barrier, RecursiveMutex, ThreadPool, SequenceTheorems,
        FiniteSetTheorems, WellFoundedInduction, TLAPS

-----------------------------------------------------------------------------
(* The futex manager and the mutex                                         *)

(* The tasks sleeping on an address, by position in its list.              *)
LEMMA WaitingOnDef ==
    ASSUME FutexTypeOK, NEW a \in Addrs
    PROVE  /\ waiters[a] \in Seq(Tasks)
           /\ Len(waiters[a]) \in Nat
           /\ WaitingOn(a) = {waiters[a][i] : i \in 1..Len(waiters[a])}
           /\ WaitingOn(a) \subseteq Tasks
           /\ waiters[a] = << >> <=> WaitingOn(a) = {}
  <1>1. waiters[a] \in Seq(Tasks)
    BY DEF FutexTypeOK
  <1>2. /\ Len(waiters[a]) \in Nat
        /\ DOMAIN waiters[a] = 1..Len(waiters[a])
        /\ \A i \in 1..Len(waiters[a]) : waiters[a][i] \in Tasks
    BY <1>1, LenProperties, ElementOfSeq
  <1>3. waiters[a] = << >> <=> Len(waiters[a]) = 0
    BY <1>1, EmptySeq
  <1>4. WaitingOn(a) = {} <=> Len(waiters[a]) = 0
    <2>1. ASSUME Len(waiters[a]) # 0 PROVE waiters[a][1] \in WaitingOn(a)
      BY <1>2, <2>1 DEF WaitingOn
    <2>2. ASSUME Len(waiters[a]) = 0 PROVE WaitingOn(a) = {}
      BY <1>2, <2>2 DEF WaitingOn
    <2> QED BY <2>1, <2>2
  <1> QED BY <1>1, <1>2, <1>3, <1>4 DEF WaitingOn

(* _wait, when it blocks, adds the calling task to the sleepers of one     *)
(* address and leaves every other sleeper where it is.                     *)
LEMMA WaitAdds ==
    ASSUME FutexTypeOK, SleepsOnce,
           NEW t \in Tasks, Runnable(t), NEW a \in Addrs,
           waiters' = [waiters EXCEPT ![a] = <<t>> \o @]
    PROVE  /\ FutexTypeOK' /\ SleepsOnce'
           /\ WaitingOn(a)' = WaitingOn(a) \cup {t}
           /\ \A b \in Addrs \ {a} : WaitingOn(b)' = WaitingOn(b)
  <1> DEFINE s == waiters[a]
  <1>1. s \in Seq(Tasks) /\ Len(s) \in Nat
    BY WaitingOnDef
  <1>2. <<t>> \in Seq(Tasks) /\ Len(<<t>>) = 1 /\ <<t>>[1] = t
    OBVIOUS
  <1>3. /\ <<t>> \o s \in Seq(Tasks)
        /\ Len(<<t>> \o s) = Len(s) + 1
        /\ \A i \in 1..(Len(s) + 1) :
              (<<t>> \o s)[i] = IF i <= 1 THEN t ELSE s[i - 1]
    BY <1>1, <1>2, ConcatProperties
  <1>4. /\ waiters \in [Addrs -> Seq(Tasks)]
        /\ waiters'[a] = <<t>> \o s
        /\ \A b \in Addrs \ {a} : waiters'[b] = waiters[b]
    BY DEF FutexTypeOK
  <1>5. FutexTypeOK'
    BY <1>3, <1>4 DEF FutexTypeOK
  <1>6. \A b \in Addrs : \A i \in 1..Len(waiters[b]) : waiters[b][i] # t
    BY WaitingOnDef DEF Runnable
  <1>7. \A b \in Addrs : Len(waiters[b]) \in Nat
    BY WaitingOnDef
  <1>8. SleepsOnce'
    <2> SUFFICES ASSUME NEW b \in Addrs, NEW c \in Addrs,
                        NEW i \in 1..Len(waiters'[b]),
                        NEW j \in 1..Len(waiters'[c]),
                        waiters'[b][i] = waiters'[c][j]
                 PROVE  b = c /\ i = j
      BY DEF SleepsOnce
    <2>1. CASE b # a /\ c # a
      BY <2>1, <1>4 DEF SleepsOnce
    <2>2. CASE b = a /\ c # a
      <3>1. CASE i = 1
        BY <2>2, <3>1, <1>3, <1>4, <1>6, <1>7, <1>1
      <3>2. CASE i # 1
        <4>1. i - 1 \in 1..Len(s) /\ waiters'[b][i] = s[i - 1]
          BY <2>2, <3>2, <1>1, <1>3, <1>4
        <4> QED BY <2>2, <4>1, <1>4 DEF SleepsOnce
      <3> QED BY <3>1, <3>2
    <2>3. CASE b # a /\ c = a
      <3>1. CASE j = 1
        BY <2>3, <3>1, <1>3, <1>4, <1>6, <1>7, <1>1
      <3>2. CASE j # 1
        <4>1. j - 1 \in 1..Len(s) /\ waiters'[c][j] = s[j - 1]
          BY <2>3, <3>2, <1>1, <1>3, <1>4
        <4> QED BY <2>3, <4>1, <1>4 DEF SleepsOnce
      <3> QED BY <3>1, <3>2
    <2>4. CASE b = a /\ c = a
      <3>1. /\ i = 1 => waiters'[b][i] = t
            /\ i # 1 => i - 1 \in 1..Len(s) /\ waiters'[b][i] = s[i - 1]
            /\ j = 1 => waiters'[c][j] = t
            /\ j # 1 => j - 1 \in 1..Len(s) /\ waiters'[c][j] = s[j - 1]
        BY <2>4, <1>1, <1>3, <1>4
      <3>2. i = 1 <=> j = 1
        BY <3>1, <1>6
      <3>3. i # 1 /\ j # 1 => i - 1 = j - 1
        BY <3>1 DEF SleepsOnce
      <3> QED BY <3>2, <3>3, <2>4, <1>1, <1>3, <1>4
    <2> QED BY <2>1, <2>2, <2>3, <2>4
  <1>9. WaitingOn(a)' = WaitingOn(a) \cup {t}
    <2>1. WaitingOn(a)' = {(<<t>> \o s)[i] : i \in 1..(Len(s) + 1)}
      BY <1>3, <1>4, <1>5, LenProperties DEF WaitingOn
    <2>2. WaitingOn(a) = {s[i] : i \in 1..Len(s)}
      BY WaitingOnDef
    <2>3. ASSUME NEW x \in WaitingOn(a)' PROVE x \in WaitingOn(a) \cup {t}
      BY <2>1, <2>2, <1>3, <1>1
    <2>4. t \in WaitingOn(a)'
      BY <2>1, <1>3, <1>1
    <2>5. ASSUME NEW x \in WaitingOn(a) PROVE x \in WaitingOn(a)'
      <3>1. PICK i \in 1..Len(s) : x = s[i]
        BY <2>2
      <3>2. i + 1 \in 1..(Len(s) + 1) /\ (<<t>> \o s)[i + 1] = s[i]
        BY <1>3, <1>1
      <3> QED BY <3>1, <3>2, <2>1
    <2> QED BY <2>3, <2>4, <2>5
  <1>10. \A b \in Addrs \ {a} : WaitingOn(b)' = WaitingOn(b)
    BY <1>4 DEF WaitingOn
  <1> QED BY <1>5, <1>8, <1>9, <1>10

(* _wake of one task: nothing happens when nobody sleeps on the address,   *)
(* otherwise exactly one sleeper of that address becomes runnable.         *)
LEMMA WakeOne ==
    ASSUME FutexTypeOK, SleepsOnce, NEW a \in Addrs, FutexWake(a, 1)
    PROVE  /\ FutexTypeOK' /\ SleepsOnce'
           /\ \A b \in Addrs \ {a} : WaitingOn(b)' = WaitingOn(b)
           /\ \/ waiters'[a] = << >> /\ WaitingOn(a) = {} /\ WaitingOn(a)' = {}
              \/ \E w \in WaitingOn(a) :
                    /\ WaitingOn(a)' = WaitingOn(a) \ {w}
                    /\ Runnable(w)'
  <1> DEFINE s == waiters[a]
             r == SubSeq(s, 2, Len(s))
  <1>1. s \in Seq(Tasks) /\ Len(s) \in Nat
    BY WaitingOnDef
  <1>2. \A i \in 2..Len(s) : s[i] \in Tasks
    BY <1>1, ElementOfSeq
  <1>3. /\ r \in Seq(Tasks)
        /\ Len(r) = IF 2 <= Len(s) THEN Len(s) - 2 + 1 ELSE 0
        /\ \A i \in 1..(Len(s) - 2 + 1) : r[i] = s[2 + i - 1]
    BY <1>1, <1>2, SubSeqProperties
  <1>4. /\ waiters \in [Addrs -> Seq(Tasks)]
        /\ waiters'[a] = r
        /\ \A b \in Addrs \ {a} : waiters'[b] = waiters[b]
    <2>1. waiters' = [waiters EXCEPT ![a] = SubSeq(@, 1 + 1, Len(@))]
      BY DEF FutexWake
    <2>2. 1 + 1 = 2
      OBVIOUS
    <2> QED BY <2>1, <2>2 DEF FutexTypeOK
  <1>5. FutexTypeOK'
    <2>1. waiters' = [waiters EXCEPT ![a] = SubSeq(@, 1 + 1, Len(@))]
      BY DEF FutexWake
    <2> QED BY <1>3, <1>4, <2>1 DEF FutexTypeOK
  <1>6. \A i \in 1..Len(r) : i + 1 \in 1..Len(s) /\ r[i] = s[i + 1]
    BY <1>1, <1>3
  <1>7. SleepsOnce'
    <2> SUFFICES ASSUME NEW b \in Addrs, NEW c \in Addrs,
                        NEW i \in 1..Len(waiters'[b]),
                        NEW j \in 1..Len(waiters'[c]),
                        waiters'[b][i] = waiters'[c][j]
                 PROVE  b = c /\ i = j
      BY DEF SleepsOnce
    <2>1. /\ b = a => i + 1 \in 1..Len(waiters[b]) /\ waiters'[b][i] = waiters[b][i + 1]
          /\ b # a => i \in 1..Len(waiters[b]) /\ waiters'[b][i] = waiters[b][i]
          /\ c = a => j + 1 \in 1..Len(waiters[c]) /\ waiters'[c][j] = waiters[c][j + 1]
          /\ c # a => j \in 1..Len(waiters[c]) /\ waiters'[c][j] = waiters[c][j]
      BY <1>4, <1>6
    <2>2. b = c
      BY <2>1 DEF SleepsOnce
    <2>3. CASE b = a
      <3>1. i + 1 = j + 1
        BY <2>1, <2>2, <2>3 DEF SleepsOnce
      <3>2. i \in Int /\ j \in Int
        OBVIOUS
      <3> QED BY <3>1, <3>2, <2>2
    <2>4. CASE b # a
      BY <2>1, <2>2, <2>4 DEF SleepsOnce
    <2> QED BY <2>3, <2>4
  <1>8. \A b \in Addrs \ {a} : WaitingOn(b)' = WaitingOn(b)
    BY <1>4 DEF WaitingOn
  <1>9. WaitingOn(a)' = {r[i] : i \in 1..Len(r)}
    BY <1>3, <1>4, LenProperties DEF WaitingOn
  <1>10. WaitingOn(a) = {s[i] : i \in 1..Len(s)}
    BY WaitingOnDef
  <1>11. CASE Len(s) = 0
    <2>1. waiters'[a] = << >>
      BY <1>3, <1>4, <1>11, EmptySeq
    <2> QED BY <2>1, <1>1, <1>3, <1>5, <1>7, <1>8, <1>9, <1>10, <1>11
  <1>12. CASE Len(s) # 0
    <2>0. PICK w \in WaitingOn(a) : w = s[1]
      BY <1>1, <1>10, <1>12
    <2>1. w \in WaitingOn(a)
      BY <2>0
    <2>2. WaitingOn(a)' = WaitingOn(a) \ {w}
      <3>1. ASSUME NEW x \in WaitingOn(a)' PROVE x \in WaitingOn(a) \ {w}
        <4>1. PICK i \in 1..Len(r) : x = r[i]
          BY <1>9
        <4>2. i + 1 \in 1..Len(s) /\ x = s[i + 1] /\ i + 1 # 1
          BY <4>1, <1>6
        <4>3. 1 \in 1..Len(s)
          BY <1>1, <1>12
        <4>4. x # w
          BY <2>0, <4>2, <4>3 DEF SleepsOnce
        <4> QED BY <4>2, <4>4, <1>10
      <3>2. ASSUME NEW x \in WaitingOn(a) \ {w} PROVE x \in WaitingOn(a)'
        <4>1. PICK i \in 1..Len(s) : x = s[i]
          BY <1>10
        <4>2. i - 1 \in 1..Len(r)
          BY <2>0, <4>1, <1>1, <1>3
        <4>3. r[i - 1] = s[i]
          BY <4>1, <4>2, <1>1, <1>3
        <4> QED BY <4>1, <4>2, <4>3, <1>9
      <3> QED BY <3>1, <3>2
    <2>3. ASSUME NEW b \in Addrs PROVE w \notin WaitingOn(b)'
      <3>1. CASE b = a
        BY <3>1, <2>2
      <3>2. CASE b # a
        <4>1. WaitingOn(b) = {waiters[b][i] : i \in 1..Len(waiters[b])}
          BY WaitingOnDef
        <4>2. 1 \in 1..Len(s)
          BY <1>1, <1>12
        <4>3. w \notin WaitingOn(b)
          BY <2>0, <4>1, <4>2, <3>2 DEF SleepsOnce
        <4> QED BY <4>3, <3>2, <1>8
      <3> QED BY <3>1, <3>2
    <2>4. Runnable(w)'
      BY <2>3 DEF Runnable
    <2> QED BY <2>1, <2>2, <2>4, <1>5, <1>7, <1>8
  <1> QED BY <1>11, <1>12

(* _wake with a second address (requeue): nobody is left on the first one; *)
(* one of its sleepers, if there was any, becomes runnable and the others  *)
(* sleep on the second one together with those who did before.             *)
LEMMA RequeueMoves ==
    ASSUME FutexTypeOK, SleepsOnce, NEW a \in Addrs, NEW b \in Addrs, a # b,
           FutexRequeue(a, 1, b)
    PROVE  /\ FutexTypeOK' /\ SleepsOnce'
           /\ WaitingOn(a)' = {}
           /\ \A c \in Addrs \ {a, b} : WaitingOn(c)' = WaitingOn(c)
           /\ \/ WaitingOn(a) = {} /\ WaitingOn(b)' = WaitingOn(b)
              \/ \E w \in WaitingOn(a) :
                    /\ WaitingOn(b)' = WaitingOn(b) \cup (WaitingOn(a) \ {w})
                    /\ Runnable(w)'
  <1> DEFINE s == waiters[a]
             r == SubSeq(s, 2, Len(s))
             v == Reversed(r)
             o == waiters[b]
             n == Len(r)
             q == v \o o
  <1>1. /\ s \in Seq(Tasks) /\ Len(s) \in Nat
        /\ o \in Seq(Tasks) /\ Len(o) \in Nat
    BY WaitingOnDef
  <1>2. \A i \in 2..Len(s) : s[i] \in Tasks
    BY <1>1, ElementOfSeq
  <1>3. /\ r \in Seq(Tasks)
        /\ Len(r) = IF 2 <= Len(s) THEN Len(s) - 2 + 1 ELSE 0
        /\ \A i \in 1..(Len(s) - 2 + 1) : r[i] = s[2 + i - 1]
    BY <1>1, <1>2, SubSeqProperties
  <1>4. /\ n \in Nat
        /\ Len(s) = 0 => n = 0
        /\ Len(s) # 0 => n = Len(s) - 1
    BY <1>1, <1>3
  <1>5. \A i \in 1..n : i + 1 \in 1..Len(s) /\ r[i] = s[i + 1]
    BY <1>1, <1>3, <1>4
  <1>6. v \in Seq(Tasks) /\ Len(v) = n
    <2>1. v = [i \in 1..n |-> r[n + 1 - i]]
      BY DEF Reversed
    <2>2. \A i \in 1..n : r[n + 1 - i] \in Tasks
      BY <1>3, <1>4, ElementOfSeq
    <2>3. v \in Seq(Tasks)
      BY <2>1, <2>2, <1>4, IsASeq
    <2>4. Len(v) = n
      BY <2>1, <2>3, <1>4, LenProperties
    <2> QED BY <2>3, <2>4
  <1>7. \A i \in 1..n : n + 2 - i \in 2..Len(s) /\ v[i] = s[n + 2 - i]
    <2> SUFFICES ASSUME NEW i \in 1..n
                 PROVE  n + 2 - i \in 2..Len(s) /\ v[i] = s[n + 2 - i]
      OBVIOUS
    <2>1. n + 1 - i \in 1..n /\ v[i] = r[n + 1 - i]
      BY <1>4 DEF Reversed
    <2>2. r[n + 1 - i] = s[(n + 1 - i) + 1]
      BY <2>1, <1>5
    <2> HIDE DEF v, r, n
    <2>3. n + 2 - i \in 2..Len(s) /\ (n + 1 - i) + 1 = n + 2 - i
      BY <1>1, <1>4
    <2>4. v[i] = s[n + 2 - i]
      BY <2>1, <2>2, <2>3
    <2> QED BY <2>3, <2>4
  <1>8. o \in Seq(Tasks)
    BY <1>1
  <1> HIDE DEF v, r, n, o
  <1>9. /\ q \in Seq(Tasks)
        /\ Len(q) = n + Len(o)
        /\ \A i \in 1..(n + Len(o)) :
              q[i] = IF i <= n THEN v[i] ELSE o[i - n]
    BY <1>8, <1>6, ConcatProperties
  <1>10. /\ waiters \in [Addrs -> Seq(Tasks)]
         /\ waiters' = [waiters EXCEPT ![a] = << >>, ![b] = q]
    <2>1. 1 + 1 = 2
      OBVIOUS
    <2> QED BY <2>1 DEF FutexRequeue, FutexTypeOK, v, r, o
  <1> HIDE DEF q
  <1>11. /\ waiters'[a] = << >> /\ waiters'[b] = q
         /\ \A c \in Addrs \ {a, b} : waiters'[c] = waiters[c]
    BY <1>10
  <1>12. FutexTypeOK'
    <2>1. << >> \in Seq(Tasks) /\ q \in Seq(Tasks)
      BY <1>9, EmptySeq
    <2> QED BY <2>1, <1>10 DEF FutexTypeOK
  <1>13. SleepsOnce'
    <2>1. \A i \in 1..Len(waiters'[b]) :
            \/ i <= n /\ n + 2 - i \in 1..Len(s)
                      /\ waiters'[b][i] = s[n + 2 - i]
            \/ i > n  /\ i - n \in 1..Len(o) /\ waiters'[b][i] = o[i - n]
      <3> SUFFICES ASSUME NEW i \in 1..(n + Len(o))
                   PROVE \/ i <= n /\ n + 2 - i \in 1..Len(s)
                                   /\ q[i] = s[n + 2 - i]
                         \/ i > n /\ i - n \in 1..Len(o) /\ q[i] = o[i - n]
        BY <1>9, <1>11
      <3>1. CASE i <= n
        <4>1. i \in 1..n
          BY <3>1, <1>4
        <4>2. q[i] = v[i]
          BY <3>1, <1>9
        <4> QED BY <4>1, <4>2, <3>1, <1>7, <1>4, <1>1
      <3>2. CASE i > n
        <4>1. i - n \in 1..Len(o)
          BY <3>2, <1>4, <1>8, LenProperties
        <4>2. q[i] = o[i - n]
          BY <3>2, <1>9, <1>4
        <4> QED BY <4>1, <4>2, <3>2
      <3> QED BY <3>1, <3>2, <1>4
    <2>2. \A k \in 1..Len(s), l \in 1..Len(s) : s[k] = s[l] => k = l
      BY DEF SleepsOnce
    <2>3. \A k \in 1..Len(o), l \in 1..Len(o) : o[k] = o[l] => k = l
      BY DEF SleepsOnce, o
    <2>4. \A k \in 1..Len(s), l \in 1..Len(o) : s[k] # o[l]
      BY DEF SleepsOnce, o
    <2>5. \A c \in Addrs \ {a, b} : \A k \in 1..Len(waiters[c]) :
            /\ \A l \in 1..Len(s) : waiters[c][k] # s[l]
            /\ \A l \in 1..Len(o) : waiters[c][k] # o[l]
      BY DEF SleepsOnce, o
    <2> HIDE DEF s
    <2> SUFFICES ASSUME NEW c \in Addrs, NEW d \in Addrs,
                        NEW i \in 1..Len(waiters'[c]),
                        NEW j \in 1..Len(waiters'[d]),
                        waiters'[c][i] = waiters'[d][j]
                 PROVE  c = d /\ i = j
      BY DEF SleepsOnce
    <2>6. c # a /\ d # a
      BY <1>11
    <2>7. CASE c # b /\ d # b
      BY <2>6, <2>7, <1>11 DEF SleepsOnce
    <2>8. CASE c = b /\ d # b
      <3>1. \A l \in 1..Len(waiters[d]) : waiters'[b][i] # waiters[d][l]
        <4>1. d \in Addrs \ {a, b}
          BY <2>6, <2>8
        <4>2. CASE n + 2 - i \in 1..Len(s) /\ waiters'[b][i] = s[n + 2 - i]
          BY <4>1, <4>2, <2>5
        <4>3. CASE i - n \in 1..Len(o) /\ waiters'[b][i] = o[i - n]
          BY <4>1, <4>3, <2>5
        <4> QED BY <4>2, <4>3, <2>1, <2>8
      <3> QED BY <3>1, <2>6, <2>8, <1>11
    <2>9. CASE c # b /\ d = b
      <3>1. \A l \in 1..Len(waiters[c]) : waiters'[b][j] # waiters[c][l]
        <4>1. c \in Addrs \ {a, b}
          BY <2>6, <2>9
        <4>2. CASE n + 2 - j \in 1..Len(s) /\ waiters'[b][j] = s[n + 2 - j]
          BY <4>1, <4>2, <2>5
        <4>3. CASE j - n \in 1..Len(o) /\ waiters'[b][j] = o[j - n]
          BY <4>1, <4>3, <2>5
        <4> QED BY <4>2, <4>3, <2>1, <2>9
      <3> QED BY <3>1, <2>6, <2>9, <1>11
    <2>10. CASE c = b /\ d = b
      <3>1. \/ /\ n + 2 - i \in 1..Len(s) /\ waiters'[b][i] = s[n + 2 - i]
               /\ n + 2 - j \in 1..Len(s) /\ waiters'[b][j] = s[n + 2 - j]
            \/ /\ i - n \in 1..Len(o) /\ waiters'[b][i] = o[i - n]
               /\ j - n \in 1..Len(o) /\ waiters'[b][j] = o[j - n]
        BY <2>1, <2>4, <2>10
      <3>2. n + 2 - i = n + 2 - j \/ i - n = j - n
        BY <3>1, <2>2, <2>3, <2>10
      <3>3. i \in Int /\ j \in Int
        OBVIOUS
      <3> QED BY <3>2, <3>3, <2>10, <1>4
    <2> QED BY <2>7, <2>8, <2>9, <2>10
  <1>14. /\ WaitingOn(a)' = {}
         /\ \A c \in Addrs \ {a, b} : WaitingOn(c)' = WaitingOn(c)
    <2>1. DOMAIN << >> = {}
      OBVIOUS
    <2> QED BY <1>11, <2>1 DEF WaitingOn
  <1>15. /\ WaitingOn(a) = {s[i] : i \in 1..Len(s)}
         /\ WaitingOn(b) = {o[i] : i \in 1..Len(o)}
    BY WaitingOnDef DEF o
  <1>16. WaitingOn(b)' = {q[i] : i \in 1..(n + Len(o))}
    BY <1>9, <1>11, LenProperties DEF WaitingOn
  <1>17. ASSUME NEW x \in WaitingOn(b)
         PROVE  x \in WaitingOn(b)'
    <2>1. PICK i \in 1..Len(o) : x = o[i]
      BY <1>15
    <2>2. i + n \in 1..(n + Len(o)) /\ q[i + n] = o[i]
      BY <1>1, <1>4, <1>9
    <2> QED BY <2>1, <2>2, <1>16
  <1>18. CASE Len(s) = 0
    <2>1. WaitingOn(a) = {}
      BY <1>18, <1>15
    <2>2. ASSUME NEW x \in WaitingOn(b)' PROVE x \in WaitingOn(b)
      BY <1>18, <1>1, <1>4, <1>9, <1>15, <1>16
    <2> QED BY <2>1, <2>2, <1>12, <1>13, <1>14, <1>17
  <1>19. CASE Len(s) # 0
    <2>0. PICK w \in WaitingOn(a) : w = s[1]
      BY <1>1, <1>15, <1>19
    <2>1. \A i \in 2..Len(s) : s[i] # w
      BY <2>0, <1>1 DEF SleepsOnce
    <2>2. \A i \in 1..Len(o) : o[i] # w
      BY <2>0, <1>1, <1>19 DEF SleepsOnce, o
    <2>3. ASSUME NEW x \in WaitingOn(b)'
          PROVE  x \in WaitingOn(b) \cup (WaitingOn(a) \ {w})
      <3>1. PICK i \in 1..(n + Len(o)) : x = q[i]
        BY <1>16
      <3>2. \/ \E k \in 2..Len(s) : x = s[k]
            \/ \E k \in 1..Len(o) : x = o[k]
        <4>1. CASE i <= n
          <5>1. i \in 1..n /\ q[i] = v[i]
            BY <4>1, <1>4, <1>9
          <5> QED BY <5>1, <3>1, <1>7
        <4>2. CASE ~(i <= n)
          <5>1. q[i] = o[i - n]
            BY <4>2, <1>9
          <5>2. i - n \in 1..Len(o)
            BY <4>2, <1>1, <1>4
          <5> QED BY <5>1, <5>2, <3>1
        <4> QED BY <4>1, <4>2
      <3> QED BY <3>2, <2>1, <1>15, <1>1
    <2>4. ASSUME NEW x \in WaitingOn(a) \ {w}
          PROVE  x \in WaitingOn(b)'
      <3>1. PICK k \in 1..Len(s) : x = s[k]
        BY <1>15
      <3>2. k # 1
        BY <3>1, <2>0
      <3>3. n + 2 - k \in 1..n
        BY <3>2, <1>1, <1>4, <1>19
      <3>4. n + 2 - (n + 2 - k) = k
        BY <1>4, <1>1
      <3>5. v[n + 2 - k] = s[k]
        BY <3>3, <3>4, <1>7
      <3>6. /\ n + 2 - k \in 1..(n + Len(o))
            /\ q[n + 2 - k] = v[n + 2 - k]
        BY <3>3, <1>1, <1>4, <1>9
      <3> QED BY <3>1, <3>5, <3>6, <1>16
    <2>5. WaitingOn(b)' = WaitingOn(b) \cup (WaitingOn(a) \ {w})
      BY <2>3, <2>4, <1>17
    <2>6. ASSUME NEW c \in Addrs PROVE w \notin WaitingOn(c)'
      <3>1. CASE c = a
        BY <3>1, <1>14
      <3>2. CASE c = b
        BY <3>2, <2>2, <2>5, <1>15
      <3>3. CASE c # a /\ c # b
        <4>1. WaitingOn(c) = {waiters[c][i] : i \in 1..Len(waiters[c])}
          BY WaitingOnDef
        <4>2. w \notin WaitingOn(c)
          BY <4>1, <2>0, <3>3, <1>1, <1>19 DEF SleepsOnce
        <4> QED BY <4>2, <3>3, <1>14
      <3> QED BY <3>1, <3>2, <3>3
    <2>7. Runnable(w)'
      BY <2>6 DEF Runnable
    <2> QED BY <2>5, <2>7, <1>12, <1>13, <1>14
  <1> QED BY <1>18, <1>19

-----------------------------------------------------------------------------
LockLabels   == {"lock_cas", "lock_tas", "lock_wait"}
UnlockLabels == {"unlock_sub", "unlock_store", "unlock_wake"}

(* The client only calls mutex_lock on its way in and mutex_unlock on its  *)
(* way out.                                                                *)
Returns ==
    \A t \in Tasks : /\ pc[t] \in LockLabels => ret[t] = "locked"
                     /\ pc[t] \in UnlockLabels => ret[t] = "idle"

(* The word is zero exactly when nobody holds the lock.                    *)
WordTellsHeld == iv_val = 0 <=> \A t \in Tasks : ~Holds(t)

(* Whoever sleeps, sleeps on the mutex and will test-and-set the word      *)
(* when it wakes.                                                          *)
SleepersRetry ==
    \A a \in Addrs : \A t \in WaitingOn(a) :
        a = iv_val_addr /\ pc[t] = "lock_tas"

IndInv == /\ TypeOK /\ SleepsOnce
          /\ Returns /\ WordTellsHeld /\ SleepersRetry
          /\ MutualExclusion /\ NoLostWakeup

-----------------------------------------------------------------------------
(* mutex_init establishes the invariant.                                   *)
LEMMA InitInd == Init => IndInv
  <1> SUFFICES ASSUME Init PROVE IndInv
    OBVIOUS
  <1>1. \A a \in Addrs : waiters[a] = << >>
    BY DEF Init, FutexInit
  <1>2. TypeOK
    BY DEF Init, FutexInit, TypeOK, FutexTypeOK, MutexLabels
  <1>3. SleepsOnce
    BY <1>1 DEF SleepsOnce
  <1>4. \A a \in Addrs : WaitingOn(a) = {}
    BY <1>1, <1>2, WaitingOnDef DEF TypeOK
  <1>5. Returns /\ WordTellsHeld /\ MutualExclusion
    BY DEF Init, Returns, WordTellsHeld, MutualExclusion, Holds,
           LockLabels, UnlockLabels
  <1>6. SleepersRetry /\ NoLostWakeup
    BY <1>1, <1>4, AddrAssumption DEF SleepersRetry, NoLostWakeup
  <1> QED BY <1>2, <1>3, <1>5, <1>6 DEF IndInv

(* What one step of a task does to the lock word, its own position and the *)
(* sleepers: all that the preservation of the invariant depends on.        *)
LEMMA NextInd == IndInv /\ [Next]_mvars => IndInv'
  <1> SUFFICES ASSUME IndInv, [Next]_mvars PROVE IndInv'
    OBVIOUS
  <1> USE AddrAssumption
  <1>0. CASE UNCHANGED mvars
    BY <1>0 DEF IndInv, mvars, TypeOK, FutexTypeOK, SleepsOnce, Returns,
                WordTellsHeld, SleepersRetry, MutualExclusion, NoLostWakeup,
                Holds, WaitingOn, At, Runnable
  <1>1. ASSUME NEW t \in Tasks,
               mutex_lock(t) \/ mutex_unlock(t) \/ LockCas(t) \/ LockTas(t)
                 \/ UnlockSub(t) \/ UnlockStore(t)
        PROVE  IndInv'
    <2>1. waiters' = waiters
      BY <1>1 DEF mutex_lock, mutex_unlock, LockCas, LockTas, UnlockSub,
                  UnlockStore
    <2>2. FutexTypeOK' /\ SleepsOnce'
      BY <2>1 DEF IndInv, TypeOK, FutexTypeOK, SleepsOnce
    <2>3. \A a \in Addrs : WaitingOn(a)' = WaitingOn(a)
      BY <2>1 DEF WaitingOn
    <2>4. \A u \in Tasks : Runnable(u)' = Runnable(u)
      BY <2>3 DEF Runnable
    <2>5. t \in Tasks /\ Runnable(t)
      BY <1>1 DEF mutex_lock, mutex_unlock, LockCas, LockTas, UnlockSub,
                  UnlockStore, At
    <2>6. \A a \in Addrs : t \notin WaitingOn(a)
      BY <2>5 DEF Runnable
    <2>7. /\ TypeOK' /\ Returns' /\ WordTellsHeld' /\ MutualExclusion'
          /\ \A u \in Tasks : pc[u] = "lock_tas" /\ u # t => pc'[u] = "lock_tas"
      <3> USE DEF IndInv, TypeOK, MutexLabels, Returns, WordTellsHeld,
                  MutualExclusion, Holds, LockLabels, UnlockLabels, At, Goto,
                  Call
      <3>1. CASE mutex_lock(t)   BY <3>1, <2>2 DEF mutex_lock
      <3>2. CASE mutex_unlock(t) BY <3>2, <2>2 DEF mutex_unlock
      <3>3. CASE LockCas(t)      BY <3>3, <2>2 DEF LockCas
      <3>4. CASE LockTas(t)      BY <3>4, <2>2 DEF LockTas
      <3>5. CASE UnlockSub(t)    BY <3>5, <2>2 DEF UnlockSub
      <3>6. CASE UnlockStore(t)  BY <3>6, <2>2 DEF UnlockStore
      <3> QED BY <1>1, <3>1, <3>2, <3>3, <3>4, <3>5, <3>6
    <2>8. SleepersRetry'
      <3>1. \A a \in Addrs : WaitingOn(a) \subseteq Tasks
        BY WaitingOnDef DEF IndInv, TypeOK
      <3> QED BY <2>3, <2>6, <2>7, <3>1 DEF SleepersRetry, IndInv
    <2>9. NoLostWakeup'
      <3> SUFFICES ASSUME waiters[iv_val_addr] # << >>
                   PROVE  \/ iv_val' = 2
                          \/ \E u \in Tasks :
                                \/ pc'[u] \in {"unlock_store", "unlock_wake"}
                                \/ pc'[u] = "lock_tas" /\ Runnable(u)'
        BY <2>1 DEF NoLostWakeup, At
      <3>1. \/ iv_val = 2
            \/ \E u \in Tasks :
                  \/ pc[u] \in {"unlock_store", "unlock_wake"}
                  \/ pc[u] = "lock_tas" /\ Runnable(u)
        BY DEF IndInv, NoLostWakeup, At
      <3> USE DEF IndInv, TypeOK, At, Goto, Call
      <3>2. CASE mutex_lock(t)   BY <3>1, <3>2, <2>4 DEF mutex_lock
      <3>3. CASE mutex_unlock(t) BY <3>1, <3>3, <2>4 DEF mutex_unlock
      <3>4. CASE LockCas(t)      BY <3>1, <3>4, <2>4 DEF LockCas
      <3>5. CASE LockTas(t)      BY <3>5 DEF LockTas
      <3>6. CASE UnlockSub(t)    BY <3>1, <3>6, <2>4 DEF UnlockSub
      <3>7. CASE UnlockStore(t)  BY <3>7 DEF UnlockStore
      <3> QED BY <1>1, <3>2, <3>3, <3>4, <3>5, <3>6, <3>7
    <2> QED BY <2>2, <2>7, <2>8, <2>9 DEF IndInv
  <1>2. ASSUME NEW t \in Tasks, LockWait(t) PROVE IndInv'
    <2>1. /\ pc[t] = "lock_wait" /\ Runnable(t) /\ iv_val' = iv_val
          /\ pc' = [pc EXCEPT ![t] = "lock_tas"] /\ ret' = ret
          /\ FutexWait(t, iv_val_addr, iv_val, 2)
      BY <1>2 DEF LockWait, At, Goto
    <2>2. /\ Returns' /\ WordTellsHeld' /\ MutualExclusion'
          /\ iv_val' \in 0..2
          /\ pc' \in [Tasks -> MutexLabels \cup {"idle", "locked"}]
          /\ ret' \in [Tasks -> {"idle", "locked"}]
      BY <2>1 DEF IndInv, TypeOK, MutexLabels, Returns, WordTellsHeld,
                  MutualExclusion, Holds, LockLabels, UnlockLabels
    <2>3. CASE iv_val # 2
      <3>1. waiters' = waiters
        BY <2>1, <2>3 DEF FutexWait
      <3>2. FutexTypeOK' /\ SleepsOnce'
        BY <3>1 DEF IndInv, TypeOK, FutexTypeOK, SleepsOnce
      <3>3. \A a \in Addrs : WaitingOn(a)' = WaitingOn(a)
        BY <3>1 DEF WaitingOn
      <3>4. Runnable(t)'
        BY <2>1, <3>3 DEF Runnable
      <3>5. \A a \in Addrs : WaitingOn(a) \subseteq Tasks
        BY WaitingOnDef DEF IndInv, TypeOK
      <3>6. SleepersRetry'
        BY <2>1, <3>3, <3>5 DEF SleepersRetry, IndInv, TypeOK
      <3>7. NoLostWakeup'
        BY <2>1, <3>4 DEF NoLostWakeup, At, IndInv, TypeOK
      <3> QED BY <2>2, <3>2, <3>6, <3>7 DEF IndInv, TypeOK
    <2>4. CASE iv_val = 2
      <3>1. waiters' = [waiters EXCEPT ![iv_val_addr] = <<t>> \o @]
        BY <2>1, <2>4 DEF FutexWait
      <3>2. /\ FutexTypeOK' /\ SleepsOnce'
            /\ WaitingOn(iv_val_addr)' = WaitingOn(iv_val_addr) \cup {t}
            /\ \A b \in Addrs \ {iv_val_addr} : WaitingOn(b)' = WaitingOn(b)
        BY <2>1, <3>1, WaitAdds DEF IndInv, TypeOK
      <3>3. \A a \in Addrs : WaitingOn(a) \subseteq Tasks
        BY WaitingOnDef DEF IndInv, TypeOK
      <3>4. SleepersRetry'
        BY <2>1, <3>2, <3>3 DEF SleepersRetry, IndInv, TypeOK
      <3>5. NoLostWakeup'
        BY <2>1, <2>4 DEF NoLostWakeup
      <3> QED BY <2>2, <3>2, <3>4, <3>5 DEF IndInv, TypeOK
    <2> QED BY <2>3, <2>4
  <1>3. ASSUME NEW t \in Tasks, UnlockWake(t) PROVE IndInv'
    <2>1. /\ pc[t] = "unlock_wake" /\ ret[t] = "idle" /\ iv_val' = iv_val
          /\ pc' = [pc EXCEPT ![t] = "idle"] /\ ret' = ret
          /\ FutexWake(iv_val_addr, 1)
      BY <1>3 DEF UnlockWake, At, Goto, IndInv, Returns, UnlockLabels
    <2>2. /\ Returns' /\ WordTellsHeld' /\ MutualExclusion'
          /\ iv_val' \in 0..2
          /\ pc' \in [Tasks -> MutexLabels \cup {"idle", "locked"}]
          /\ ret' \in [Tasks -> {"idle", "locked"}]
      BY <2>1 DEF IndInv, TypeOK, MutexLabels, Returns, WordTellsHeld,
                  MutualExclusion, Holds, LockLabels, UnlockLabels
    <2>3. /\ FutexTypeOK' /\ SleepsOnce'
          /\ \A b \in Addrs \ {iv_val_addr} : WaitingOn(b)' = WaitingOn(b)
          /\ \/ /\ waiters'[iv_val_addr] = << >>
                /\ WaitingOn(iv_val_addr) = {} /\ WaitingOn(iv_val_addr)' = {}
             \/ \E w \in WaitingOn(iv_val_addr) :
                   /\ WaitingOn(iv_val_addr)' = WaitingOn(iv_val_addr) \ {w}
                   /\ Runnable(w)'
      BY <2>1, WakeOne DEF IndInv, TypeOK
    <2>4. \A a \in Addrs : WaitingOn(a) \subseteq Tasks
      BY WaitingOnDef DEF IndInv, TypeOK
    <2>5. SleepersRetry'
      BY <2>1, <2>3, <2>4 DEF SleepersRetry, IndInv, TypeOK
    <2>6. NoLostWakeup'
      <3>1. CASE waiters'[iv_val_addr] = << >>
        BY <3>1 DEF NoLostWakeup
      <3>2. CASE \E w \in WaitingOn(iv_val_addr) : Runnable(w)'
        <4>1. PICK w \in WaitingOn(iv_val_addr) : Runnable(w)'
          BY <3>2
        <4>2. w \in Tasks /\ pc[w] = "lock_tas"
          BY <2>4, <4>1 DEF IndInv, SleepersRetry
        <4>3. pc'[w] = "lock_tas"
          BY <2>1, <4>2 DEF IndInv, TypeOK
        <4> QED BY <4>1, <4>2, <4>3 DEF NoLostWakeup, At
      <3> QED BY <2>3, <3>1, <3>2
    <2> QED BY <2>2, <2>3, <2>5, <2>6 DEF IndInv, TypeOK
  <1> QED BY <1>0, <1>1, <1>2, <1>3 DEF Next, MutexStep

-----------------------------------------------------------------------------
(* The mutex's invariant holds in every state.                             *)
LEMMA Invariance == SafeSpec => []IndInv
  BY InitInd, NextInd, PTL DEF SafeSpec

(* The lock word is always 0, 1 or 2, the "three values" of the comment in *)
(* mutex_lock, and every task is at a known step.                          *)
THEOREM TypeCorrect == SafeSpec => []TypeOK
  <1>1. IndInv => TypeOK BY DEF IndInv
  <1> QED BY <1>1, Invariance, PTL

(* At no time do two tasks hold the mutex.                                 *)
THEOREM MutualExclusionHolds == SafeSpec => []MutualExclusion
  <1>1. IndInv => MutualExclusion BY DEF IndInv
  <1> QED BY <1>1, Invariance, PTL

(* No task sleeps on the mutex unless its wake-up is already under way or  *)
(* the word makes the owner's unlock enter the kernel.                     *)
THEOREM NoLostWakeupHolds == SafeSpec => []NoLostWakeup
  <1>1. IndInv => NoLostWakeup BY DEF IndInv
  <1> QED BY <1>1, Invariance, PTL

(* mutex_lock and mutex_unlock implement the abstract lock: the mutex goes *)
(* from nobody to one task and from that task to nobody, and no step of    *)
(* any task takes it away from its owner or gives it to a second one.      *)
THEOREM MutexImplementsLock == SafeSpec => ImplementsLock
  <1> DEFINE owners == {t \in Tasks : Holds(t)}
  <1>1. Init => LockView!LockInit
    BY DEF Init, LockView!LockInit, Holds
  <1>2. IndInv /\ [Next]_mvars => [LockView!LockNext]_owners
    <2> SUFFICES ASSUME IndInv, [Next]_mvars, owners' # owners
                 PROVE  LockView!LockNext
      OBVIOUS
    <2>1. PICK t \in Tasks : mutex_lock(t) \/ mutex_unlock(t) \/ MutexStep(t)
      BY DEF Next, mvars, Holds
    <2>2. \A u \in Tasks \ {t} : Holds(u)' <=> Holds(u)
      BY <2>1 DEF IndInv, TypeOK, Holds, MutexStep, mutex_lock, mutex_unlock,
                  LockCas, LockTas, LockWait, UnlockSub, UnlockStore,
                  UnlockWake, Goto, Call
    <2>3. Holds(t)' <=> ~Holds(t)
      BY <2>2 DEF Holds
    <2>4. CASE Holds(t)
      <3>1. owners = {t} /\ owners' = {}
        BY <2>2, <2>3, <2>4 DEF IndInv, MutualExclusion
      <3> QED BY <3>1 DEF LockView!LockNext, LockView!Unlock
    <2>5. CASE ~Holds(t)
      <3>1. iv_val = 0
        BY <2>1, <2>3, <2>5
           DEF IndInv, TypeOK, Returns, LockLabels, UnlockLabels, Holds,
               MutexStep, mutex_lock, mutex_unlock, LockCas, LockTas,
               LockWait, UnlockSub, UnlockStore, UnlockWake, At, Goto, Call
      <3>2. owners = {} /\ owners' = {t}
        BY <2>2, <2>3, <3>1 DEF IndInv, WordTellsHeld
      <3> QED BY <3>2 DEF LockView!LockNext, LockView!Lock
    <2> QED BY <2>4, <2>5
  <1> QED BY <1>1, <1>2, Invariance, PTL
          DEF SafeSpec, ImplementsLock, LockView!LockSpec

-----------------------------------------------------------------------------
(* The recursive mutex                                                     *)
SlowLabels == {"lock_tas", "lock_wait"}

(* The slow path leads to the two writes of the new owner, the release of  *)
(* the mutex out of the library.                                           *)
RecursiveReturns ==
    \A t \in Tasks : /\ pc[t] \in SlowLabels => ret[t] = "rlock_own"
                     /\ pc[t] \in UnlockLabels => ret[t] = "idle"

(* Where a task is tells whether it has the lock already: only the first   *)
(* two steps of recursive_mutex_lock are taken with it and without it.     *)
DepthFitsLabel ==
    \A t \in Tasks :
        /\ pc[t] = "locked" => depth[t] > 0
        /\ pc[t] \in SlowLabels \cup UnlockLabels \cup {"idle", "rlock_own"}
              => depth[t] = 0
        /\ pc[t] \in {"rlock_cas", "rlock_check", "runlock"}
              => depth[t] < MaxDepth

(* iv_owner names a task from its write in recursive_mutex_lock to the     *)
(* write in the last recursive_mutex_unlock, and never another one.        *)
OwnerIsHolder ==
    \A t \in Tasks : iv_owner = t <=> depth[t] > 0 \/ pc[t] = "runlock"

(* iv_ownerLockCount is one behind while the owner is about to lower it.   *)
CountFitsDepth ==
    /\ iv_owner = NoOwner => iv_ownerLockCount = 0
    /\ \A t \in Tasks : iv_owner = t =>
          iv_ownerLockCount = depth[t] + (IF pc[t] = "runlock" THEN 1 ELSE 0)

RecursiveInd ==
    /\ RecursiveTypeOK /\ SleepsOnce
    /\ RecursiveReturns /\ DepthFitsLabel /\ OwnerIsHolder /\ CountFitsDepth
    /\ RecursiveMutualExclusion

-----------------------------------------------------------------------------
(* recursive_mutex_init establishes the invariant.                         *)
LEMMA RecursiveInitInd == RecursiveInit => RecursiveInd
  <1> SUFFICES ASSUME RecursiveInit PROVE RecursiveInd
    OBVIOUS
  <1> USE OwnerAssumption DEF RecursiveInit, Init, FutexInit
  <1>1. \A a \in Addrs : waiters[a] = << >>
    OBVIOUS
  <1>2. RecursiveTypeOK
    BY DEF RecursiveTypeOK, FutexTypeOK
  <1>3. SleepsOnce
    BY <1>1 DEF SleepsOnce
  <1>4. RecursiveReturns /\ DepthFitsLabel /\ OwnerIsHolder /\ CountFitsDepth
    BY DEF RecursiveReturns, DepthFitsLabel, OwnerIsHolder, CountFitsDepth,
           SlowLabels, UnlockLabels
  <1>5. RecursiveMutualExclusion
    BY DEF RecursiveMutualExclusion, RecursiveHolds
  <1> QED BY <1>2, <1>3, <1>4, <1>5 DEF RecursiveInd

(* No step makes the futex list ill-formed.                                *)
LEMMA FutexesStayWellFormed ==
    ASSUME RecursiveInd, NEW t \in Tasks,
           recursive_mutex_lock(t) \/ recursive_mutex_unlock(t)
             \/ RecursiveStep(t)
    PROVE  FutexTypeOK' /\ SleepsOnce'
  <1> USE AddrAssumption
  <1>0. FutexTypeOK /\ SleepsOnce
    BY DEF RecursiveInd, RecursiveTypeOK
  <1>1. CASE LockWait(t)
    <2>1. CASE iv_val = 2
      <3>1. waiters' = [waiters EXCEPT ![iv_val_addr] = <<t>> \o @]
        BY <1>1, <2>1 DEF LockWait, FutexWait
      <3> QED BY <1>0, <1>1, <3>1, WaitAdds DEF LockWait, At
    <2>2. CASE iv_val # 2
      BY <1>0, <1>1, <2>2 DEF LockWait, FutexWait, FutexTypeOK, SleepsOnce
    <2> QED BY <2>1, <2>2
  <1>2. CASE UnlockWake(t)
    BY <1>0, <1>2, WakeOne DEF UnlockWake
  <1>3. CASE UNCHANGED waiters
    BY <1>0, <1>3 DEF FutexTypeOK, SleepsOnce
  <1> QED
    BY <1>1, <1>2, <1>3
       DEF RecursiveStep, recursive_mutex_lock, recursive_mutex_unlock,
           LockTas, UnlockSub, UnlockStore, RLockCas, RLockCheck, RLockOwn,
           RUnlock

(* Every step of every task preserves the invariant.                       *)
LEMMA RecursiveNextInd ==
    RecursiveInd /\ [RecursiveNext]_rmvars => RecursiveInd'
  <1> SUFFICES ASSUME RecursiveInd, [RecursiveNext]_rmvars PROVE RecursiveInd'
    OBVIOUS
  <1>0. CASE UNCHANGED rmvars
    BY <1>0
       DEF rmvars, mvars, rvars, RecursiveInd, RecursiveTypeOK, FutexTypeOK,
           SleepsOnce, RecursiveReturns, DepthFitsLabel, OwnerIsHolder,
           CountFitsDepth, RecursiveMutualExclusion, RecursiveHolds
  <1>1. ASSUME NEW t \in Tasks,
               recursive_mutex_lock(t) \/ recursive_mutex_unlock(t)
                 \/ RecursiveStep(t)
        PROVE  RecursiveInd'
    <2>1. FutexTypeOK' /\ SleepsOnce'
      BY <1>1, FutexesStayWellFormed
    <2> USE OwnerAssumption, <2>1
        DEF RecursiveInd, RecursiveTypeOK, RecursiveReturns, DepthFitsLabel,
            OwnerIsHolder, CountFitsDepth, RecursiveMutualExclusion,
            RecursiveHolds, MutexLabels, RecursiveLabels, SlowLabels,
            UnlockLabels, At, Goto, Call, rvars
    <2>2. CASE recursive_mutex_lock(t)
      BY <2>2 DEF recursive_mutex_lock
    <2>3. CASE recursive_mutex_unlock(t)
      BY <2>3 DEF recursive_mutex_unlock
    <2>4. CASE LockTas(t) /\ UNCHANGED rvars
      BY <2>4 DEF LockTas
    <2>5. CASE LockWait(t) /\ UNCHANGED rvars
      BY <2>5 DEF LockWait
    <2>6. CASE UnlockSub(t) /\ UNCHANGED rvars
      BY <2>6 DEF UnlockSub
    <2>7. CASE UnlockStore(t) /\ UNCHANGED rvars
      BY <2>7 DEF UnlockStore
    <2>8. CASE UnlockWake(t) /\ UNCHANGED rvars
      BY <2>8 DEF UnlockWake
    <2>9. CASE RLockCas(t)
      BY <2>9 DEF RLockCas
    <2>10. CASE RLockCheck(t)
      BY <2>10 DEF RLockCheck
    <2>11. CASE RLockOwn(t)
      BY <2>11 DEF RLockOwn
    <2>12. CASE RUnlock(t)
      BY <2>12 DEF RUnlock
    <2> QED BY <1>1, <2>2, <2>3, <2>4, <2>5, <2>6, <2>7, <2>8, <2>9, <2>10,
               <2>11, <2>12 DEF RecursiveStep
  <1> QED BY <1>0, <1>1 DEF RecursiveNext

-----------------------------------------------------------------------------
(* The recursive mutex's invariant holds in every state.                   *)
LEMMA RecursiveInvariance == RecursiveSpec => []RecursiveInd
  BY RecursiveInitInd, RecursiveNextInd, PTL DEF RecursiveSpec

(* The lock word takes the values 0, 1 and 2 only, the owner's count never *)
(* exceeds what its client nests, and every task is at a known step.       *)
THEOREM RecursiveTypeCorrect == RecursiveSpec => []RecursiveTypeOK
  <1>1. RecursiveInd => RecursiveTypeOK BY DEF RecursiveInd
  <1> QED BY <1>1, RecursiveInvariance, PTL

(* At no time do two tasks have the recursive mutex, at any depth, though  *)
(* the owner field is read without it.                                     *)
THEOREM RecursiveMutualExclusionHolds ==
    RecursiveSpec => []RecursiveMutualExclusion
  <1>1. RecursiveInd => RecursiveMutualExclusion BY DEF RecursiveInd
  <1> QED BY <1>1, RecursiveInvariance, PTL

(* A task in its critical section is the recorded owner, and the recorded  *)
(* count is the number of its locks that it has not undone.                *)
THEOREM OwnerCountsNestingHolds == RecursiveSpec => []OwnerCountsNesting
  <1>1. RecursiveInd => OwnerCountsNesting
    BY DEF RecursiveInd, RecursiveTypeOK, DepthFitsLabel, OwnerIsHolder,
           CountFitsDepth, OwnerCountsNesting
  <1> QED BY <1>1, RecursiveInvariance, PTL
-----------------------------------------------------------------------------
(* The barrier                                                             *)

(* The values of the variables, without a bound on the number of rounds.   *)
BarrierTypes ==
    /\ iv_val \in 0..2
    /\ pc \in [Tasks -> MutexLabels \cup BarrierLabels \cup {"idle"}]
    /\ ret \in [Tasks -> {"idle", "barrier_dec", "barrier_wait",
                          "barrier_return"}]
    /\ iv_event \in Nat /\ iv_missing \in Int
    /\ l_event \in [Tasks -> Nat]
    /\ calls \in [Tasks -> Nat] /\ returns \in [Tasks -> Nat]

(* iv_mutex is taken on the way in, and given back before the wait or on   *)
(* the way out.                                                            *)
BarrierReturns ==
    \A t \in Tasks :
        /\ pc[t] \in LockLabels   => ret[t] = "barrier_dec"
        /\ pc[t] \in UnlockLabels => ret[t] \in {"barrier_wait",
                                                 "barrier_return"}

HasMutex(t) == pc[t] \in {"unlock_sub", "unlock_store", "barrier_dec",
                          "barrier_event", "barrier_reset", "barrier_wake"}

OneHasMutex ==
    /\ \A t, u \in Tasks : HasMutex(t) /\ HasMutex(u) => t = u
    /\ iv_val = 0 <=> \A t \in Tasks : ~HasMutex(t)

(* Where a task is in barrier_wait: coming in, waiting or going out.       *)
ComingIn(t) == pc[t] \in LockLabels \cup {"barrier_dec"}
InWait(t)   == \/ pc[t] \in {"barrier_wait", "barrier_test"}
               \/ pc[t] \in UnlockLabels /\ ret[t] = "barrier_wait"
GoingOut(t) == \/ pc[t] \in {"barrier_reset", "barrier_wake", "barrier_return"}
               \/ pc[t] \in UnlockLabels /\ ret[t] = "barrier_return"

(* iv_event counts the rounds that are over; every task is in that round   *)
(* or in the next one.                                                     *)
RoundsFit ==
    \A t \in Tasks :
        /\ pc[t] \in {"idle", "destroy"} =>
              returns[t] = iv_event /\ calls[t] = iv_event
        /\ pc[t] \notin {"idle", "destroy"} => calls[t] = returns[t] + 1
        /\ ComingIn(t) \/ pc[t] = "barrier_event" => calls[t] = iv_event + 1
        /\ InWait(t) => /\ calls[t] = l_event[t] + 1
                        /\ l_event[t] = iv_event \/ l_event[t] + 1 = iv_event
        /\ GoingOut(t) => calls[t] = iv_event

(* The tasks counted in the round that is not over.                        *)
Arrived == {t \in Tasks : \/ pc[t] = "barrier_event"
                          \/ InWait(t) /\ l_event[t] = iv_event}

(* iv_missing counts the others, except between the two writes of the task *)
(* that opens the barrier.                                                 *)
MissingFits ==
    /\ (\A t \in Tasks : pc[t] # "barrier_reset") =>
          iv_missing + Cardinality(Arrived) = iv_count
    /\ \A t \in Tasks : pc[t] = "barrier_event" => iv_missing = 0
    /\ \A t \in Tasks : pc[t] = "barrier_reset" => Arrived = {}

BarrierLockInd == BarrierTypes /\ BarrierReturns /\ OneHasMutex
BarrierInd     == BarrierLockInd /\ RoundsFit /\ MissingFits

-----------------------------------------------------------------------------
(* barrier_init establishes the invariant.                                 *)
LEMMA BarrierInitInd == BarrierInit => BarrierInd
  <1> SUFFICES ASSUME BarrierInit PROVE BarrierInd
    OBVIOUS
  <1> USE DEF BarrierInit, Init
  <1>0. Cardinality(Tasks) \in Nat
    BY TasksAssumption, FS_CardinalityType
  <1>1. BarrierLockInd
    BY <1>0 DEF BarrierLockInd, BarrierTypes, BarrierReturns, OneHasMutex,
                HasMutex, LockLabels, UnlockLabels, iv_count
  <1>2. RoundsFit
    BY DEF RoundsFit, ComingIn, InWait, GoingOut, LockLabels, UnlockLabels
  <1>3. Arrived = {} /\ Cardinality({}) = 0
    BY FS_EmptySet DEF Arrived, InWait, UnlockLabels
  <1>4. MissingFits
    BY <1>0, <1>3 DEF MissingFits, iv_count
  <1> QED BY <1>1, <1>2, <1>4 DEF BarrierInd

(* The steps of a task, one by one.                                        *)
LEMMA BarrierActions ==
    ASSUME NEW t \in Tasks,
           barrier_wait(t) \/ BarrierStep(t) \/ barrier_destroy(t)
    PROVE  \/ barrier_wait(t) \/ barrier_destroy(t)
           \/ LockCas(t) /\ UNCHANGED bvars
           \/ LockTas(t) /\ UNCHANGED bvars
           \/ LockWait(t) /\ UNCHANGED bvars
           \/ UnlockSub(t) /\ UNCHANGED bvars
           \/ UnlockStore(t) /\ UNCHANGED bvars
           \/ UnlockWake(t) /\ UNCHANGED bvars
           \/ BarrierDec(t) \/ BarrierWait(t) \/ BarrierTest(t)
           \/ BarrierEvent(t) \/ BarrierReset(t) \/ BarrierWake(t)
           \/ BarrierReturn(t)
  BY DEF BarrierStep, MutexStep

(* iv_mutex keeps the tasks apart in every step.                           *)
LEMMA BarrierLockNext ==
    ASSUME BarrierInd, NEW t \in Tasks,
           barrier_wait(t) \/ BarrierStep(t) \/ barrier_destroy(t)
    PROVE  BarrierLockInd'
  <1>0. iv_count \in Nat
    BY TasksAssumption, FS_CardinalityType DEF iv_count
  <1> USE DEF BarrierInd, BarrierLockInd, BarrierTypes, BarrierReturns,
              OneHasMutex, HasMutex, MutexLabels, BarrierLabels, LockLabels,
              UnlockLabels, At, Goto, Call, bvars
  <1>1. CASE barrier_wait(t)
    BY <1>1 DEF barrier_wait
  <1>2. CASE barrier_destroy(t)
    BY <1>2 DEF barrier_destroy
  <1>3. CASE LockCas(t) /\ UNCHANGED bvars
    BY <1>3 DEF LockCas
  <1>4. CASE LockTas(t) /\ UNCHANGED bvars
    BY <1>4 DEF LockTas
  <1>5. CASE LockWait(t) /\ UNCHANGED bvars
    BY <1>5 DEF LockWait
  <1>6. CASE UnlockSub(t) /\ UNCHANGED bvars
    BY <1>6 DEF UnlockSub
  <1>7. CASE UnlockStore(t) /\ UNCHANGED bvars
    BY <1>7 DEF UnlockStore
  <1>8. CASE UnlockWake(t) /\ UNCHANGED bvars
    BY <1>8 DEF UnlockWake
  <1>9. CASE BarrierDec(t)
    BY <1>9 DEF BarrierDec
  <1>10. CASE BarrierWait(t)
    BY <1>10 DEF BarrierWait
  <1>11. CASE BarrierTest(t)
    BY <1>11 DEF BarrierTest
  <1>12. CASE BarrierEvent(t)
    BY <1>12 DEF BarrierEvent
  <1>13. CASE BarrierReset(t)
    BY <1>0, <1>13 DEF BarrierReset
  <1>14. CASE BarrierWake(t)
    BY <1>14 DEF BarrierWake
  <1>15. CASE BarrierReturn(t)
    BY <1>15 DEF BarrierReturn
  <1> QED BY BarrierActions, <1>1, <1>2, <1>3, <1>4, <1>5, <1>6, <1>7, <1>8,
             <1>9, <1>10, <1>11, <1>12, <1>13, <1>14, <1>15

(* When nobody is missing, everybody has arrived.                          *)
LEMMA AllArrived ==
    ASSUME BarrierInd
    PROVE  /\ IsFiniteSet(Arrived) /\ Cardinality(Arrived) \in Nat
           /\ iv_count \in Nat
           /\ \A t \in Tasks : pc[t] = "barrier_event" => Arrived = Tasks
  <1>1. Arrived \in SUBSET Tasks
    BY DEF Arrived
  <1>2. /\ IsFiniteSet(Arrived)
        /\ Cardinality(Arrived) = Cardinality(Tasks) => Arrived = Tasks
    BY <1>1, TasksAssumption, FS_Subset
  <1>3. Cardinality(Arrived) \in Nat /\ Cardinality(Tasks) \in Nat
    BY <1>2, TasksAssumption, FS_CardinalityType
  <1>4. ASSUME NEW t \in Tasks, pc[t] = "barrier_event"
        PROVE  Arrived = Tasks
    <2>1. \A u \in Tasks : pc[u] # "barrier_reset"
      BY <1>4 DEF BarrierInd, BarrierLockInd, OneHasMutex, HasMutex
    <2>2. iv_missing = 0 /\ iv_missing + Cardinality(Arrived) = iv_count
      BY <1>4, <2>1 DEF BarrierInd, MissingFits
    <2>3. Cardinality(Arrived) = Cardinality(Tasks)
      BY <1>3, <2>2 DEF iv_count
    <2> QED BY <1>2, <2>3
  <1> QED BY <1>2, <1>3, <1>4 DEF iv_count

(* Every task stays within a round of the others.                          *)
LEMMA RoundsFitNext ==
    ASSUME BarrierInd, NEW t \in Tasks,
           barrier_wait(t) \/ BarrierStep(t) \/ barrier_destroy(t)
    PROVE  RoundsFit'
  <1>0. BarrierTypes /\ BarrierReturns /\ RoundsFit
    BY DEF BarrierInd, BarrierLockInd
  <1> USE DEF BarrierTypes, BarrierReturns, RoundsFit, ComingIn, InWait,
              GoingOut, MutexLabels, BarrierLabels, LockLabels, UnlockLabels,
              At, Goto, Call, bvars
  <1>1. CASE barrier_wait(t)
    BY <1>0, <1>1 DEF barrier_wait
  <1>2. CASE barrier_destroy(t)
    BY <1>0, <1>2 DEF barrier_destroy
  <1>3. CASE LockCas(t) /\ UNCHANGED bvars
    BY <1>0, <1>3 DEF LockCas
  <1>4. CASE LockTas(t) /\ UNCHANGED bvars
    BY <1>0, <1>4 DEF LockTas
  <1>5. CASE LockWait(t) /\ UNCHANGED bvars
    BY <1>0, <1>5 DEF LockWait
  <1>6. CASE UnlockSub(t) /\ UNCHANGED bvars
    BY <1>0, <1>6 DEF UnlockSub
  <1>7. CASE UnlockStore(t) /\ UNCHANGED bvars
    BY <1>0, <1>7 DEF UnlockStore
  <1>8. CASE UnlockWake(t) /\ UNCHANGED bvars
    BY <1>0, <1>8 DEF UnlockWake
  <1>9. CASE BarrierDec(t)
    BY <1>0, <1>9 DEF BarrierDec
  <1>10. CASE BarrierWait(t)
    BY <1>0, <1>10 DEF BarrierWait
  <1>11. CASE BarrierTest(t)
    BY <1>0, <1>11 DEF BarrierTest
  <1>12. CASE BarrierEvent(t)
    <2>1. Arrived = Tasks
      BY <1>12, AllArrived DEF BarrierEvent
    <2>2. \A u \in Tasks \ {t} : pc[u] # "barrier_event"
      BY <1>12 DEF BarrierInd, BarrierLockInd, OneHasMutex, HasMutex,
                   BarrierEvent
    <2> QED BY <1>0, <1>12, <2>1, <2>2 DEF BarrierEvent, Arrived
  <1>13. CASE BarrierReset(t)
    BY <1>0, <1>13 DEF BarrierReset
  <1>14. CASE BarrierWake(t)
    BY <1>0, <1>14 DEF BarrierWake
  <1>15. CASE BarrierReturn(t)
    BY <1>0, <1>15 DEF BarrierReturn
  <1> QED BY BarrierActions, <1>1, <1>2, <1>3, <1>4, <1>5, <1>6, <1>7, <1>8,
             <1>9, <1>10, <1>11, <1>12, <1>13, <1>14, <1>15

(* A step of a task that neither arrives nor opens the barrier.            *)
NoArrival(t) ==
    /\ iv_missing' = iv_missing /\ Arrived' = Arrived
    /\ \A u \in Tasks : \A k \in {"barrier_event", "barrier_reset"} :
          pc'[u] = k <=> pc[u] = k

(* iv_missing stays right.                                                 *)
LEMMA MissingFitsNext ==
    ASSUME BarrierInd, NEW t \in Tasks,
           barrier_wait(t) \/ BarrierStep(t) \/ barrier_destroy(t)
    PROVE  MissingFits'
  <1>0. BarrierTypes /\ BarrierReturns /\ MissingFits /\ OneHasMutex
    BY DEF BarrierInd, BarrierLockInd
  <1>1. ASSUME NoArrival(t) PROVE MissingFits'
    BY <1>0, <1>1 DEF MissingFits, NoArrival
  <1>2. CASE \/ barrier_wait(t) \/ barrier_destroy(t)
             \/ LockCas(t) /\ UNCHANGED bvars
             \/ LockTas(t) /\ UNCHANGED bvars
             \/ LockWait(t) /\ UNCHANGED bvars
    <2>1. /\ UNCHANGED <<iv_missing, iv_event, l_event>>
          /\ pc[t] \in LockLabels \cup {"idle"}
          /\ \E l \in LockLabels \cup {"barrier_dec", "destroy"} :
                pc' = [pc EXCEPT ![t] = l]
          /\ \A u \in Tasks \ {t} : ret'[u] = ret[u]
      BY <1>0, <1>2
         DEF barrier_wait, barrier_destroy, LockCas, LockTas, LockWait, At,
             Goto, Call, bvars, BarrierTypes, BarrierReturns, LockLabels
    <2>2. \A u \in Tasks : InWait(u)' <=> InWait(u)
      BY <1>0, <2>1 DEF InWait, BarrierTypes, LockLabels, UnlockLabels
    <2>3. \A u \in Tasks : \A k \in {"barrier_event", "barrier_reset"} :
             pc'[u] = k <=> pc[u] = k
      BY <1>0, <2>1 DEF BarrierTypes, LockLabels
    <2>4. NoArrival(t)
      BY <2>1, <2>2, <2>3 DEF NoArrival, Arrived
    <2> QED BY <1>1, <2>4
  <1>3. CASE \/ UnlockSub(t) /\ UNCHANGED bvars
             \/ UnlockStore(t) /\ UNCHANGED bvars
             \/ UnlockWake(t) /\ UNCHANGED bvars
             \/ BarrierWait(t)
    <2>1. /\ UNCHANGED <<iv_missing, iv_event, l_event, ret>>
          /\ \/ pc[t] \in UnlockLabels
                /\ \E l \in UnlockLabels \cup {ret[t]} :
                      pc' = [pc EXCEPT ![t] = l]
             \/ /\ pc[t] = "barrier_wait"
                /\ pc' = [pc EXCEPT ![t] = "barrier_test"]
      BY <1>0, <1>3
         DEF UnlockSub, UnlockStore, UnlockWake, BarrierWait, At, Goto, bvars,
             UnlockLabels
    <2>2. \A u \in Tasks : InWait(u)' <=> InWait(u)
      BY <1>0, <2>1 DEF InWait, BarrierTypes, BarrierReturns, UnlockLabels
    <2>3. \A u \in Tasks : \A k \in {"barrier_event", "barrier_reset"} :
             pc'[u] = k <=> pc[u] = k
      BY <1>0, <2>1 DEF BarrierTypes, BarrierReturns, UnlockLabels
    <2>4. NoArrival(t)
      BY <2>1, <2>2, <2>3 DEF NoArrival, Arrived
    <2> QED BY <1>1, <2>4
  <1>4. CASE BarrierTest(t) \/ BarrierWake(t) \/ BarrierReturn(t)
    <2>1. UNCHANGED <<iv_missing, iv_event, l_event>>
      BY <1>4 DEF BarrierTest, BarrierWake, BarrierReturn, bvars
    <2>2. \A u \in Tasks : InWait(u)' /\ l_event[u] = iv_event
                               <=> InWait(u) /\ l_event[u] = iv_event
      BY <1>0, <1>4 DEF InWait, BarrierTypes, UnlockLabels, BarrierTest,
                        BarrierWake, BarrierReturn, At, Goto, Call
    <2>3. \A u \in Tasks : \A k \in {"barrier_event", "barrier_reset"} :
             pc'[u] = k <=> pc[u] = k
      BY <1>0, <1>4 DEF BarrierTypes, BarrierTest, BarrierWake, BarrierReturn,
                        At, Goto, Call
    <2>4. NoArrival(t)
      BY <2>1, <2>2, <2>3 DEF NoArrival, Arrived
    <2> QED BY <1>1, <2>4
  <1>5. CASE BarrierDec(t)
    <2>1. pc[t] = "barrier_dec" /\ iv_missing' = iv_missing - 1
            /\ iv_event' = iv_event
      BY <1>5 DEF BarrierDec, At
    <2>2. /\ \A u \in Tasks \ {t} :
                pc'[u] = pc[u] /\ ret'[u] = ret[u] /\ l_event'[u] = l_event[u]
          /\ \/ /\ pc'[t] = "unlock_sub" /\ ret'[t] = "barrier_wait"
                /\ l_event'[t] = iv_event
             \/ pc'[t] = "barrier_event" /\ iv_missing' = 0
      BY <1>0, <1>5 DEF BarrierDec, BarrierTypes, Goto, Call
    <2>3. \A u \in Tasks : pc[u] \notin {"barrier_event", "barrier_reset"}
      BY <1>0, <2>1 DEF OneHasMutex, HasMutex
    <2>4. t \notin Arrived /\ Arrived' = Arrived \cup {t}
      BY <2>1, <2>2 DEF Arrived, InWait, UnlockLabels
    <2>5. Cardinality(Arrived') = Cardinality(Arrived) + 1
      BY <2>4, AllArrived, FS_AddElement
    <2>6. iv_missing + Cardinality(Arrived) = iv_count
      BY <1>0, <2>3 DEF MissingFits
    <2>7. iv_missing' + Cardinality(Arrived') = iv_count
      BY <1>0, <2>1, <2>5, <2>6, AllArrived DEF BarrierTypes
    <2>8. /\ \A u \in Tasks : pc'[u] = "barrier_event" => iv_missing' = 0
          /\ \A u \in Tasks : pc'[u] # "barrier_reset"
      BY <2>2, <2>3
    <2>9. iv_count' = iv_count
      BY DEF iv_count
    <2> QED BY <2>7, <2>8, <2>9 DEF MissingFits
  <1>6. CASE BarrierEvent(t)
    <2>1. /\ pc[t] = "barrier_event"
          /\ pc' = [pc EXCEPT ![t] = "barrier_reset"]
          /\ iv_event' = iv_event + 1 /\ UNCHANGED <<l_event, ret>>
      BY <1>6 DEF BarrierEvent, At, Goto
    <2>2. pc'[t] = "barrier_reset" /\ \A u \in Tasks : pc'[u] # "barrier_event"
      BY <1>0, <2>1 DEF BarrierTypes, OneHasMutex, HasMutex
    <2>3. \A u \in Tasks : InWait(u)' => l_event[u] # iv_event + 1
      <3>1. Arrived = Tasks
        BY <2>1, AllArrived
      <3> QED BY <1>0, <2>1, <3>1
              DEF Arrived, InWait, BarrierTypes, UnlockLabels
    <2>4. Arrived' = {}
      BY <2>1, <2>2, <2>3 DEF Arrived
    <2> QED BY <2>2, <2>4 DEF MissingFits
  <1>7. CASE BarrierReset(t)
    <2>1. /\ pc[t] = "barrier_reset" /\ pc' = [pc EXCEPT ![t] = "barrier_wake"]
          /\ iv_missing' = iv_count /\ UNCHANGED <<iv_event, l_event, ret>>
      BY <1>7 DEF BarrierReset, At, Goto
    <2>2. \A u \in Tasks : pc'[u] \notin {"barrier_event", "barrier_reset"}
      BY <1>0, <2>1 DEF BarrierTypes, OneHasMutex, HasMutex
    <2>3. Arrived = {} /\ \A u \in Tasks : InWait(u)' => InWait(u)
      BY <1>0, <2>1 DEF MissingFits, BarrierTypes, InWait, UnlockLabels
    <2>4. Arrived' = {}
      BY <2>1, <2>2, <2>3 DEF Arrived
    <2>5. iv_count' = iv_count /\ iv_count \in Nat
      BY AllArrived DEF iv_count
    <2>6. iv_missing' + Cardinality(Arrived') = iv_count'
      BY <2>1, <2>4, <2>5, FS_EmptySet
    <2> QED BY <2>2, <2>6 DEF MissingFits
  <1> QED BY BarrierActions, <1>2, <1>3, <1>4, <1>5, <1>6, <1>7

(* The invariant holds in every behaviour.                                 *)
LEMMA BarrierInvariance == BarrierSpec => []BarrierInd
  <1>1. BarrierInd /\ [BarrierNext]_bmvars => BarrierInd'
    <2> SUFFICES ASSUME BarrierInd, [BarrierNext]_bmvars PROVE BarrierInd'
      OBVIOUS
    <2>1. CASE UNCHANGED bmvars
      <3>1. UNCHANGED <<iv_val, pc, ret, iv_event, iv_missing, l_event, calls,
                        returns>>
        BY <2>1 DEF bmvars, mvars, bvars
      <3>2. \A t \in Tasks : /\ InWait(t)' = InWait(t)
                             /\ HasMutex(t)' = HasMutex(t)
                             /\ ComingIn(t)' = ComingIn(t)
                             /\ GoingOut(t)' = GoingOut(t)
        BY <3>1 DEF InWait, HasMutex, ComingIn, GoingOut
      <3>3. Arrived' = Arrived
        BY <3>1, <3>2 DEF Arrived
      <3>4. BarrierLockInd' /\ RoundsFit'
        BY <3>1, <3>2 DEF BarrierInd, BarrierLockInd, BarrierTypes,
                          BarrierReturns, OneHasMutex, RoundsFit
      <3>5. MissingFits'
        BY <3>1, <3>3 DEF BarrierInd, MissingFits, iv_count
      <3> QED BY <3>4, <3>5 DEF BarrierInd
    <2>2. CASE BarrierNext
      BY <2>2, BarrierLockNext, RoundsFitNext, MissingFitsNext
         DEF BarrierNext, BarrierInd
    <2> QED BY <2>1, <2>2
  <1> QED BY <1>1, BarrierInitInd, PTL DEF BarrierSpec

(* The promise of barrier_wait, for any number of tasks and of rounds: no  *)
(* task returns from its n-th wait before every task has called for the    *)
(* n-th time, though the waiting tasks read iv_event without the mutex and *)
(* fast ones come back while slow ones have not left.                      *)
THEOREM NobodyLeavesEarlyHolds == BarrierSpec => []NobodyLeavesEarly
  <1>1. BarrierInd => NobodyLeavesEarly
    <2> SUFFICES ASSUME BarrierInd, NEW t \in Tasks, NEW u \in Tasks
                 PROVE  returns[t] <= calls[u]
      BY DEF NobodyLeavesEarly
    <2> USE DEF BarrierInd, BarrierLockInd, BarrierTypes, BarrierReturns,
                RoundsFit, ComingIn, InWait, GoingOut, MutexLabels,
                BarrierLabels, LockLabels, UnlockLabels
    <2>1. returns[t] <= iv_event
      OBVIOUS
    <2>2. iv_event <= calls[u]
      OBVIOUS
    <2>3. iv_event \in Nat /\ returns[t] \in Nat /\ calls[u] \in Nat
      OBVIOUS
    <2> QED BY <2>1, <2>2, <2>3, SMT
  <1> QED BY <1>1, BarrierInvariance, PTL

-----------------------------------------------------------------------------
(* The condition variable and the thread pool                              *)

SignalLabels    == {"signal_add", "signal_wake"}
BroadcastLabels == {"broadcast_read", "broadcast_add", "broadcast_requeue"}

(* The values of the variables, without a bound on the number of signals.  *)
CondTypes ==
    /\ iv_val \in 0..2
    /\ pc  \in [Tasks -> MutexLabels \cup CondLabels \cup {"idle", "locked"}]
    /\ ret \in [Tasks -> {"idle", "locked", "wait_futex"}]
    /\ sequence \in Nat
    /\ seq \in [Tasks -> Nat]
    /\ cret = [t \in Tasks |-> "locked"]
    /\ lastBroadcast \in Nat

(* Every way into the mutex leads to the critical section, the release     *)
(* inside sync_cond_wait to its futex_wait, a broadcast back to its caller *)
(* that has the mutex.                                                     *)
CondReturns ==
    \A t \in Tasks :
        /\ pc[t] \in LockLabels   => ret[t] = "locked"
        /\ pc[t] \in UnlockLabels => ret[t] \in {"idle", "wait_futex"}
        /\ pc[t] \in SignalLabels     => ret[t] \in {"idle", "locked"}
        /\ pc[t] \in BroadcastLabels  => ret[t] = "locked"

(* Every sleeper, on the mutex or on the condition, tests the mutex next.  *)
CondSleepersRetry ==
    \A a \in Addrs : \A t \in WaitingOn(a) : pc[t] = "lock_tas"

(* The part of the invariant that does not look at the futex list ...      *)
CondLocalInd ==
    /\ CondTypes /\ CondReturns /\ CondMutualExclusion
    /\ lastBroadcast <= sequence

(* ... and the part about the tasks on it.                                 *)
CondSleepInd ==
    /\ FutexTypeOK /\ SleepsOnce /\ CondSleepersRetry
    /\ BroadcastMissesNone /\ NoLostWakeup

CondInd == CondLocalInd /\ CondSleepInd

CondTaskStep(t) ==
    Lock(t) \/ Unlock(t) \/ Wait(t) \/ Signal(t) \/ Broadcast(t) \/ CondStep(t)

-----------------------------------------------------------------------------
(* A condition variable just initialised satisfies the invariant.          *)
LEMMA CondInitInd == CondInit => CondInd
  <1> SUFFICES ASSUME CondInit PROVE CondInd
    OBVIOUS
  <1> USE DEF CondInit, Init, FutexInit
  <1>1. CondLocalInd
    BY DEF CondLocalInd, CondTypes, CondReturns, CondMutualExclusion,
           CondHolds, Holds, MutexLabels, CondLabels, LockLabels,
           UnlockLabels, SignalLabels, BroadcastLabels
  <1>2. \A a \in Addrs : waiters[a] = << >>
    OBVIOUS
  <1>3. \A a \in Addrs : WaitingOn(a) = {}
    BY <1>2 DEF WaitingOn
  <1>4. FutexTypeOK /\ SleepsOnce
    BY <1>2 DEF FutexTypeOK, SleepsOnce
  <1>5. CondSleepersRetry /\ BroadcastMissesNone /\ NoLostWakeup
    BY <1>2, <1>3, AddrAssumption, CondAddrAssumption
       DEF CondSleepersRetry, BroadcastMissesNone, NoLostWakeup
  <1> QED BY <1>1, <1>4, <1>5 DEF CondInd, CondSleepInd

(* Ownership of the mutex changes as the lock word says, in every step.    *)
LEMMA CondLocalNext ==
    ASSUME CondInd, NEW t \in Tasks, CondTaskStep(t)
    PROVE  CondLocalInd'
  <1> USE DEF CondInd, CondLocalInd, CondTypes, CondReturns,
              CondMutualExclusion, CondHolds, Holds, MutexLabels, CondLabels,
              LockLabels, UnlockLabels, SignalLabels, BroadcastLabels,
              At, Goto, Call, cvars
  <1>1. CASE Lock(t)
    BY <1>1 DEF Lock, mutex_lock
  <1>2. CASE Unlock(t)
    BY <1>2 DEF Unlock, mutex_unlock
  <1>3. CASE Wait(t)
    BY <1>3 DEF Wait, sync_cond_wait
  <1>4. CASE Signal(t)
    BY <1>4 DEF Signal, sync_cond_signal
  <1>5. CASE Broadcast(t)
    BY <1>5 DEF Broadcast, sync_cond_broadcast
  <1>6. CASE LockCas(t) /\ UNCHANGED cvars
    BY <1>6 DEF LockCas
  <1>7. CASE LockTas(t) /\ UNCHANGED cvars
    BY <1>7 DEF LockTas
  <1>8. CASE LockWait(t) /\ UNCHANGED cvars
    BY <1>8 DEF LockWait
  <1>9. CASE UnlockSub(t) /\ UNCHANGED cvars
    BY <1>9 DEF UnlockSub
  <1>10. CASE UnlockStore(t) /\ UNCHANGED cvars
    BY <1>10 DEF UnlockStore
  <1>11. CASE UnlockWake(t) /\ UNCHANGED cvars
    BY <1>11 DEF UnlockWake
  <1>12. CASE WaitRead(t)
    BY <1>12 DEF WaitRead
  <1>13. CASE WaitBind(t)
    BY <1>13 DEF WaitBind
  <1>14. CASE WaitFutex(t)
    BY <1>14 DEF WaitFutex, Reacquire
  <1>15. CASE SignalAdd(t)
    BY <1>15 DEF SignalAdd
  <1>16. CASE SignalWake(t)
    BY <1>16 DEF SignalWake
  <1>17. CASE BroadcastRead(t)
    BY <1>17 DEF BroadcastRead
  <1>18. CASE BroadcastAdd(t)
    BY <1>18 DEF BroadcastAdd
  <1>19. CASE BroadcastRequeue(t)
    BY <1>19 DEF BroadcastRequeue
  <1> QED BY <1>1, <1>2, <1>3, <1>4, <1>5, <1>6, <1>7, <1>8, <1>9, <1>10,
             <1>11, <1>12, <1>13, <1>14, <1>15, <1>16, <1>17, <1>18, <1>19
          DEF CondTaskStep, CondStep, MutexStep

(* What NoLostWakeup says, in terms of the set of sleepers.                *)
MutexAwake ==
    \/ iv_val = 2
    \/ \E u \in Tasks : \/ pc[u] \in {"unlock_store", "unlock_wake"}
                        \/ pc[u] = "lock_tas" /\ Runnable(u)

(* NoLostWakeup by the set of sleepers, before and after a step.           *)
LEMMA NoLostWakeupBySet ==
    FutexTypeOK =>
        (NoLostWakeup <=> (WaitingOn(iv_val_addr) # {} => MutexAwake))
  <1> HAVE FutexTypeOK
  <1>1. waiters[iv_val_addr] = << >> <=> WaitingOn(iv_val_addr) = {}
    BY AddrAssumption, WaitingOnDef
  <1> QED BY <1>1 DEF NoLostWakeup, MutexAwake, At

(* The same after a step.                                                  *)
LEMMA NoLostWakeupBySetPrimed ==
    FutexTypeOK' =>
        (NoLostWakeup' <=> (WaitingOn(iv_val_addr)' # {} => MutexAwake'))
  <1>1. (FutexTypeOK =>
           (NoLostWakeup <=> (WaitingOn(iv_val_addr) # {} => MutexAwake)))'
    BY NoLostWakeupBySet, PTL
  <1> QED BY <1>1

(* The steps that do not go to the kernel.                                 *)
LEMMA CondSleepLocalStep ==
    ASSUME CondInd, NEW t \in Tasks,
           \/ Lock(t) \/ Unlock(t) \/ Wait(t) \/ Signal(t) \/ Broadcast(t)
           \/ (LockCas(t) \/ LockTas(t) \/ UnlockSub(t) \/ UnlockStore(t))
                 /\ UNCHANGED cvars
           \/ WaitRead(t) \/ WaitBind(t) \/ SignalAdd(t)
           \/ BroadcastRead(t) \/ BroadcastAdd(t)
    PROVE  CondSleepInd'
  <1> USE DEF Lock, Unlock, Wait, Signal, Broadcast, mutex_lock, mutex_unlock,
              sync_cond_wait, sync_cond_signal, sync_cond_broadcast, LockCas,
              LockTas, UnlockSub, UnlockStore, WaitRead, WaitBind, SignalAdd,
              BroadcastRead, BroadcastAdd
  <1>1. waiters' = waiters /\ Runnable(t) /\ lastBroadcast' = lastBroadcast
    BY DEF At, cvars
  <1>2. /\ \A u \in Tasks \ {t} : pc'[u] = pc[u] /\ seq'[u] = seq[u]
        /\ pc[t] = "unlock_store" => pc'[t] = "unlock_wake"
        /\ pc[t] # "unlock_wake"
    BY DEF CondInd, CondLocalInd, CondTypes, At, Goto, Call, cvars
  <1>3. pc[t] = "lock_tas" => iv_val' = 2
    BY DEF At
  <1>4. iv_val = 2 => iv_val' = 2 \/ pc'[t] \in {"unlock_store", "unlock_wake"}
    BY DEF CondInd, CondLocalInd, CondTypes, At, Goto
  <1> HIDE DEF Lock, Unlock, Wait, Signal, Broadcast, mutex_lock, mutex_unlock,
              sync_cond_wait, sync_cond_signal, sync_cond_broadcast, LockCas,
              LockTas, UnlockSub, UnlockStore, WaitRead, WaitBind, SignalAdd,
              BroadcastRead, BroadcastAdd
  <1>5. FutexTypeOK' /\ SleepsOnce'
    BY <1>1 DEF CondInd, CondSleepInd, FutexTypeOK, SleepsOnce
  <1>6. /\ \A a \in Addrs : WaitingOn(a)' = WaitingOn(a)
        /\ \A a \in Addrs : WaitingOn(a) \subseteq Tasks \ {t}
    <2>1. \A a \in Addrs : WaitingOn(a) \subseteq Tasks
      BY WaitingOnDef DEF CondInd, CondSleepInd
    <2> QED BY <1>1, <2>1 DEF WaitingOn, Runnable
  <1>7. \A u \in Tasks : Runnable(u)' <=> Runnable(u)
    BY <1>6 DEF Runnable
  <1>8. CondSleepersRetry'
    BY <1>2, <1>6 DEF CondInd, CondSleepInd, CondSleepersRetry
  <1>9. BroadcastMissesNone'
    BY <1>1, <1>2, <1>6, CondAddrAssumption
       DEF CondInd, CondSleepInd, BroadcastMissesNone
  <1>10. MutexAwake => MutexAwake'
    BY <1>2, <1>3, <1>4, <1>7 DEF MutexAwake
  <1>11. NoLostWakeup'
    <2>1. WaitingOn(iv_val_addr)' # {} => MutexAwake'
      BY <1>6, <1>10, AddrAssumption, NoLostWakeupBySet
         DEF CondInd, CondSleepInd
    <2> QED BY <2>1, <1>5, NoLostWakeupBySetPrimed
  <1> QED BY <1>5, <1>8, <1>9, <1>11 DEF CondSleepInd

(* A task that finds the word unchanged goes to sleep, on the mutex or on  *)
(* the condition; otherwise it goes on at once.                            *)
LEMMA CondSleepWaitStep ==
    ASSUME CondInd, NEW t \in Tasks,
           \/ LockWait(t) /\ UNCHANGED cvars
           \/ WaitFutex(t)
    PROVE  CondSleepInd'
  <1>1. /\ Runnable(t) /\ iv_val' = iv_val
        /\ seq' = seq /\ lastBroadcast' = lastBroadcast
        /\ pc' = [pc EXCEPT ![t] = "lock_tas"]
        /\ pc[t] \in {"lock_wait", "wait_futex"}
    BY DEF LockWait, WaitFutex, Reacquire, At, Goto, Call, cvars
  <1>2. /\ FutexTypeOK /\ SleepsOnce /\ CondSleepersRetry /\ BroadcastMissesNone
        /\ WaitingOn(iv_val_addr) # {} => MutexAwake
        /\ pc \in [Tasks -> MutexLabels \cup CondLabels \cup {"idle", "locked"}]
    BY NoLostWakeupBySet
       DEF CondInd, CondSleepInd, CondLocalInd, CondTypes
  <1>3. \A a \in Addrs : WaitingOn(a) \subseteq Tasks \ {t}
    <2>1. \A a \in Addrs : WaitingOn(a) \subseteq Tasks
      BY <1>2, WaitingOnDef
    <2> QED BY <1>1, <2>1 DEF Runnable
  <1>4. CASE waiters' = waiters
    <2>1. FutexTypeOK' /\ SleepsOnce'
      BY <1>2, <1>4 DEF FutexTypeOK, SleepsOnce
    <2>2. \A a \in Addrs : WaitingOn(a)' = WaitingOn(a)
      BY <1>4 DEF WaitingOn
    <2>3. Runnable(t)'
      BY <1>1, <2>2 DEF Runnable
    <2>4. CondSleepersRetry' /\ BroadcastMissesNone'
      BY <1>1, <1>2, <1>3, <2>2, CondAddrAssumption
         DEF CondSleepersRetry, BroadcastMissesNone
    <2>5. MutexAwake'
      BY <1>1, <1>2, <2>3 DEF MutexAwake
    <2> QED BY <2>1, <2>4, <2>5, NoLostWakeupBySetPrimed DEF CondSleepInd
  <1>5. ASSUME NEW a \in Addrs,
               waiters' = [waiters EXCEPT ![a] = <<t>> \o @],
               a = iv_val_addr => iv_val = 2,
               a = sequence_addr => seq[t] >= lastBroadcast
        PROVE  CondSleepInd'
    <2>1. /\ FutexTypeOK' /\ SleepsOnce'
          /\ WaitingOn(a)' = WaitingOn(a) \cup {t}
          /\ \A b \in Addrs \ {a} : WaitingOn(b)' = WaitingOn(b)
      BY <1>1, <1>2, <1>5, WaitAdds
    <2>2. \A u \in Tasks \ {t} : Runnable(u) => Runnable(u)'
      BY <2>1 DEF Runnable
    <2>3. CondSleepersRetry'
      BY <1>1, <1>2, <1>3, <2>1 DEF CondSleepersRetry
    <2>4. BroadcastMissesNone'
      BY <1>1, <1>2, <1>5, <2>1, CondAddrAssumption DEF BroadcastMissesNone
    <2>5. MutexAwake => MutexAwake'
      BY <1>1, <1>2, <2>2 DEF MutexAwake
    <2>6. iv_val = 2 => MutexAwake'
      BY <1>1 DEF MutexAwake
    <2>7. WaitingOn(iv_val_addr)' # {} => MutexAwake'
      BY <1>2, <1>5, <2>1, <2>5, <2>6, AddrAssumption
    <2> QED BY <2>1, <2>3, <2>4, <2>7, NoLostWakeupBySetPrimed DEF CondSleepInd
  <1>6. CASE LockWait(t)
    BY <1>4, <1>5, <1>6, AddrAssumption, CondAddrAssumption
       DEF LockWait, FutexWait
  <1>7. CASE WaitFutex(t)
    <2>1. lastBroadcast <= sequence
      BY DEF CondInd, CondLocalInd
    <2>2. CASE sequence = seq[t]
      <3>1. seq[t] >= lastBroadcast
        BY <2>1, <2>2 DEF CondInd, CondLocalInd, CondTypes
      <3>2. waiters' = [waiters EXCEPT ![sequence_addr] = <<t>> \o @]
        BY <1>7, <2>2 DEF WaitFutex, FutexWait
      <3> QED BY <1>5, <3>1, <3>2, CondAddrAssumption
    <2>3. CASE sequence # seq[t]
      BY <1>4, <1>7, <2>3 DEF WaitFutex, FutexWait
    <2> QED BY <2>2, <2>3
  <1> QED BY <1>6, <1>7

(* One sleeper of one address becomes runnable: of the mutex when it is    *)
(* released, of the condition when it is signalled.                        *)
LEMMA CondSleepWakeStep ==
    ASSUME CondInd, NEW t \in Tasks,
           \/ UnlockWake(t) /\ UNCHANGED cvars
           \/ SignalWake(t)
    PROVE  CondSleepInd'
  <1>1. /\ iv_val' = iv_val /\ Runnable(t)
        /\ seq' = seq /\ lastBroadcast' = lastBroadcast
        /\ pc' = [pc EXCEPT ![t] = ret[t]]
        /\ pc[t] \in {"unlock_wake", "signal_wake"}
    BY DEF UnlockWake, SignalWake, At, Goto, cvars
  <1>2. /\ FutexTypeOK /\ SleepsOnce /\ CondSleepersRetry /\ BroadcastMissesNone
        /\ WaitingOn(iv_val_addr) # {} => MutexAwake
        /\ pc \in [Tasks -> MutexLabels \cup CondLabels \cup {"idle", "locked"}]
    BY NoLostWakeupBySet
       DEF CondInd, CondSleepInd, CondLocalInd, CondTypes
  <1>3. \A a \in Addrs : WaitingOn(a) \subseteq Tasks \ {t}
    <2>1. \A a \in Addrs : WaitingOn(a) \subseteq Tasks
      BY <1>2, WaitingOnDef
    <2> QED BY <1>1, <2>1 DEF Runnable
  <1>4. PICK a \in Addrs :
            /\ FutexWake(a, 1)
            /\ pc[t] = "unlock_wake" => a = iv_val_addr
    BY AddrAssumption, CondAddrAssumption DEF UnlockWake, SignalWake, At
  <1>5. /\ FutexTypeOK' /\ SleepsOnce'
        /\ \A b \in Addrs \ {a} : WaitingOn(b)' = WaitingOn(b)
        /\ \/ WaitingOn(a) = {} /\ WaitingOn(a)' = {}
           \/ \E w \in WaitingOn(a) :
                 WaitingOn(a)' = WaitingOn(a) \ {w} /\ Runnable(w)'
    BY <1>2, <1>4, WakeOne
  <1>6. \A b \in Addrs : WaitingOn(b)' \subseteq WaitingOn(b)
    BY <1>5
  <1>7. CondSleepersRetry' /\ BroadcastMissesNone'
    BY <1>1, <1>2, <1>3, <1>6, CondAddrAssumption
       DEF CondSleepersRetry, BroadcastMissesNone
  <1>8. WaitingOn(iv_val_addr)' # {} => MutexAwake'
    <2>1. CASE a = iv_val_addr
      <3>1. ASSUME NEW w \in WaitingOn(a), Runnable(w)' PROVE MutexAwake'
        BY <1>1, <1>2, <1>3, <3>1 DEF MutexAwake, CondSleepersRetry
      <3> QED BY <2>1, <3>1, <1>5
    <2>2. CASE a # iv_val_addr
      <3>1. \A u \in Tasks : Runnable(u) => Runnable(u)'
        BY <1>6 DEF Runnable
      <3>2. MutexAwake => MutexAwake'
        BY <1>1, <1>2, <1>4, <2>2, <3>1 DEF MutexAwake
      <3> QED BY <1>2, <1>5, <2>2, <3>2, AddrAssumption
    <2> QED BY <2>1, <2>2
  <1> QED BY <1>5, <1>7, <1>8, NoLostWakeupBySetPrimed DEF CondSleepInd

(* A broadcast empties the condition's list onto the mutex's and leaves    *)
(* one task on its way to mark the mutex contended.                        *)
LEMMA CondSleepRequeueStep ==
    ASSUME CondInd, NEW t \in Tasks, BroadcastRequeue(t)
    PROVE  CondSleepInd'
  <1>1. /\ iv_val' = iv_val /\ Runnable(t) /\ seq' = seq
        /\ pc' = [pc EXCEPT ![t] = ret[t]]
        /\ pc[t] = "broadcast_requeue"
        /\ FutexRequeue(sequence_addr, 1, iv_val_addr)
    BY DEF BroadcastRequeue, At, Goto
  <1>2. /\ FutexTypeOK /\ SleepsOnce /\ CondSleepersRetry
        /\ WaitingOn(iv_val_addr) # {} => MutexAwake
        /\ pc \in [Tasks -> MutexLabels \cup CondLabels \cup {"idle", "locked"}]
    BY NoLostWakeupBySet
       DEF CondInd, CondSleepInd, CondLocalInd, CondTypes
  <1>3. \A a \in Addrs : WaitingOn(a) \subseteq Tasks \ {t}
    <2>1. \A a \in Addrs : WaitingOn(a) \subseteq Tasks
      BY <1>2, WaitingOnDef
    <2> QED BY <1>1, <2>1 DEF Runnable
  <1>4. /\ FutexTypeOK' /\ SleepsOnce'
        /\ WaitingOn(sequence_addr)' = {}
        /\ \A c \in Addrs \ {sequence_addr, iv_val_addr} :
              WaitingOn(c)' = WaitingOn(c)
        /\ \/ /\ WaitingOn(sequence_addr) = {}
              /\ WaitingOn(iv_val_addr)' = WaitingOn(iv_val_addr)
           \/ \E w \in WaitingOn(sequence_addr) :
                 /\ WaitingOn(iv_val_addr)' = WaitingOn(iv_val_addr)
                                         \cup (WaitingOn(sequence_addr) \ {w})
                 /\ Runnable(w)'
    BY <1>1, <1>2, AddrAssumption, CondAddrAssumption, RequeueMoves
  <1>5. BroadcastMissesNone'
    BY <1>4 DEF BroadcastMissesNone
  <1>6. CondSleepersRetry'
    <2>1. \A a \in Addrs : \A u \in WaitingOn(a) : pc'[u] = "lock_tas"
      BY <1>1, <1>2, <1>3 DEF CondSleepersRetry
    <2>2. ASSUME NEW a \in Addrs, NEW u \in WaitingOn(a)'
          PROVE  \E b \in Addrs : u \in WaitingOn(b)
      BY <1>4, AddrAssumption, CondAddrAssumption
    <2> QED BY <2>1, <2>2 DEF CondSleepersRetry
  <1>7. WaitingOn(iv_val_addr)' # {} => MutexAwake'
    <2>1. CASE /\ WaitingOn(sequence_addr) = {}
               /\ WaitingOn(iv_val_addr)' = WaitingOn(iv_val_addr)
      <3>1. \A a \in Addrs : WaitingOn(a)' = WaitingOn(a)
        BY <2>1, <1>4
      <3>2. \A u \in Tasks : Runnable(u) => Runnable(u)'
        BY <3>1 DEF Runnable
      <3>3. MutexAwake => MutexAwake'
        BY <1>1, <1>2, <3>2 DEF MutexAwake
      <3> QED BY <2>1, <1>2, <3>3
    <2>2. ASSUME NEW w \in WaitingOn(sequence_addr), Runnable(w)'
          PROVE  MutexAwake'
      BY <1>1, <1>2, <1>3, <2>2, CondAddrAssumption
         DEF MutexAwake, CondSleepersRetry
    <2> QED BY <2>1, <2>2, <1>4
  <1> QED BY <1>4, <1>5, <1>6, <1>7, NoLostWakeupBySetPrimed DEF CondSleepInd

-----------------------------------------------------------------------------
(* Every step of every task preserves the invariant.                       *)
LEMMA CondNextInd == CondInd /\ [CondNext]_vars => CondInd'
  <1> SUFFICES ASSUME CondInd, [CondNext]_vars PROVE CondInd'
    OBVIOUS
  <1>1. CASE UNCHANGED vars
    BY <1>1 DEF vars, mvars, cvars, CondInd, CondLocalInd, CondSleepInd,
                CondTypes, CondReturns, CondMutualExclusion, CondHolds, Holds,
                FutexTypeOK, SleepsOnce, CondSleepersRetry, BroadcastMissesNone,
                NoLostWakeup, WaitingOn, At, Runnable
  <1>2. ASSUME NEW t \in Tasks, CondTaskStep(t) PROVE CondInd'
    <2>1. CondLocalInd'
      BY <1>2, CondLocalNext
    <2>2. CondSleepInd'
      BY <1>2, CondSleepLocalStep, CondSleepWaitStep, CondSleepWakeStep,
         CondSleepRequeueStep DEF CondTaskStep, CondStep, MutexStep
    <2> QED BY <2>1, <2>2 DEF CondInd
  <1> QED BY <1>1, <1>2 DEF CondNext, CondTaskStep

(* The invariant of mutex and condition variable holds in every state.     *)
LEMMA CondInvariance == CondSpec => []CondInd
  BY CondInitInd, CondNextInd, PTL DEF CondSpec

(* The postcondition of sync_cond_wait and of mutex_lock, "this task will  *)
(* have the mutex lock", alone: no two tasks own the mutex, whichever way  *)
(* a waiter came back, and the word is 0 exactly when nobody does.         *)
THEOREM CondMutualExclusionHolds == CondSpec => []CondMutualExclusion
  <1>1. CondInd => CondMutualExclusion BY DEF CondInd, CondLocalInd
  <1> QED BY <1>1, CondInvariance, PTL

(* No task sleeps on the condition with a value of sequence from before    *)
(* the last completed sync_cond_broadcast.                                 *)
THEOREM BroadcastMissesNoneHolds == CondSpec => []BroadcastMissesNone
  <1>1. CondInd => BroadcastMissesNone BY DEF CondInd, CondSleepInd
  <1> QED BY <1>1, CondInvariance, PTL

(* The mutex's sleepers are never forgotten either, though a broadcast     *)
(* moves tasks onto its list behind mutex_lock's back.                     *)
THEOREM CondNoLostWakeup == CondSpec => []NoLostWakeup
  <1>1. CondInd => NoLostWakeup BY DEF CondInd, CondSleepInd
  <1> QED BY <1>1, CondInvariance, PTL

-----------------------------------------------------------------------------
(* The thread pool, on the same mutex and condition variable.              *)

WaitLabels == {"wait_read", "wait_bind", "wait_futex"}

(* Where in the pool's own code a task is, or goes on after the library    *)
(* call it is in.                                                          *)
Cont(t) ==
    IF pc[t] \in WaitLabels THEN "remove"
    ELSE IF pc[t] \in MutexLabels \cup SignalLabels \cup BroadcastLabels
         THEN IF ret[t] = "wait_futex" THEN "remove" ELSE ret[t]
    ELSE pc[t]

MainPlaces == {"idle", "insert", "insert_end", "start", "shutdown", "join",
               "join_wait", "done"}
Active     == {"remove", "work", "insert", "insert_end"}

(* The values of the library's variables and of the pool's, without a      *)
(* bound on the number of signals.                                         *)
PoolLibTypes ==
    /\ iv_val \in 0..2 /\ mutex \in {NULL, TheMutex}
    /\ pc  \in [Tasks -> MutexLabels \cup CondLabels \cup PoolLabels
                            \cup {"idle"}]
    /\ ret \in [Tasks -> PoolLabels \cup {"idle", "wait_futex"}]
    /\ cret = [t \in Tasks |-> "remove"]

PoolTypes ==
    /\ iv_worklist \in Seq(Items) /\ iv_children \in Seq(Workers)
    /\ status \in [Workers -> {"none", "running", "clean", "crashed"}]
    /\ adding \in [Tasks -> Items \cup {NoItem}]
    /\ wi \in [Workers -> Items \cup {NoItem}]
    /\ child \in Tasks
    /\ inserted \subseteq Items /\ executed \subseteq inserted
    /\ iv_shutdown \in BOOLEAN /\ l_origError \in BOOLEAN

(* Where the library returns to: with the mutex or without it.             *)
PoolReturns ==
    \A t \in Tasks :
        /\ pc[t] \in LockLabels =>
              ret[t] \in {"insert", "remove", "start", "shutdown", "join"}
        /\ pc[t] \in UnlockLabels =>
              ret[t] \in {"wait_futex", "idle", "work", "end", "join_wait",
                          "done"}
        /\ pc[t] \in SignalLabels    => ret[t] = "insert_end"
        /\ pc[t] \in BroadcastLabels => ret[t] = "join"

(* The pool's mutex: what runs under it, and that one task has it.         *)
PoolHolds(t) ==
    pc[t] \in {"insert", "insert_end", "remove", "start", "shutdown", "join",
               "wait_read", "wait_bind", "unlock_sub", "unlock_store"}
                  \cup SignalLabels \cup BroadcastLabels

PoolMutualExclusion ==
    /\ \A t, u \in Tasks : PoolHolds(t) /\ PoolHolds(u) => t = u
    /\ iv_val = 0 <=> \A t \in Tasks : ~PoolHolds(t)

(* Who is where: the owner of the pool, and workers that run or not.       *)
RolesFit ==
    /\ Cont(Main) \in MainPlaces
    /\ \A w \in Workers : /\ Cont(w) \in Active \cup {"end", "ended"}
                          /\ status[w] = "running" <=> Cont(w) # "ended"

(* An item is with the task that inserts it until it is pushed, and with   *)
(* the worker that has taken it until it has run or crashed.               *)
ItemsInHand ==
    /\ \A t \in Tasks : adding[t] # NoItem <=> Cont(t) = "insert"
    /\ \A w \in Workers : wi[w] # NoItem <=>
          Cont(w) \in Active \ {"remove"} \/ status[w] = "crashed"

OnList(i)  == \E n \in DOMAIN iv_worklist : iv_worklist[n] = i
BeingAdded(i) == \E t \in Tasks : adding[t] = i
BeingRun(i)   == \E w \in Workers : wi[w] = i

(* EachItemOnce without counting: every item inserted is somewhere, not in *)
(* two kinds of places, and not twice in one.                              *)
InOnePlace ==
    /\ \A i \in Items : i \in inserted <=>
          OnList(i) \/ BeingAdded(i) \/ BeingRun(i) \/ i \in executed
    /\ \A i \in Items :
          /\ OnList(i) => ~BeingAdded(i) /\ ~BeingRun(i) /\ i \notin executed
          /\ BeingAdded(i) => ~BeingRun(i) /\ i \notin executed
          /\ BeingRun(i) => i \notin executed
    /\ \A m, n \in DOMAIN iv_worklist :
          iv_worklist[m] = iv_worklist[n] => m = n
    /\ \A t, u \in Tasks : adding[t] = adding[u] => t = u \/ adding[t] = NoItem
    /\ \A v, w \in Workers : wi[v] = wi[w] => v = w \/ wi[v] = NoItem

(* A worker has ended because it was told to.                              *)
Stopped(w) == Cont(w) = "end" \/ status[w] = "clean"

(* __shutdown: workers stop after iv_shutdown is set, when there is no     *)
(* work; work that comes later comes from a worker that goes on.           *)
StopsFit ==
    /\ iv_shutdown <=> Cont(Main) \in {"join", "join_wait", "done"}
    /\ Cont(Main) \in {"shutdown", "join", "join_wait", "done"} =>
          \A w \in Workers : status[w] # "none"
    /\ \A w \in Workers : Stopped(w) => iv_shutdown
    /\ iv_worklist # << >> /\ (\E w \in Workers : Stopped(w)) =>
          \E w \in Workers : Cont(w) \in Active \/ status[w] = "crashed"

(* A worker that was created and is not joined yet.                        *)
Unjoined(w) == \/ \E n \in DOMAIN iv_children : iv_children[n] = w
               \/ Cont(Main) = "join_wait" /\ child = w

ChildrenFit ==
    /\ \A w \in Workers : status[w] = "running" => Unjoined(w)
    /\ \A w \in Workers : status[w] = "crashed" =>
          Unjoined(w) \/ (iv_checkChildRc => l_origError)
    /\ Cont(Main) = "done" => iv_children = << >>

PoolLockInd == PoolLibTypes /\ PoolReturns /\ PoolMutualExclusion

PoolInd ==
    /\ PoolLockInd /\ PoolTypes
    /\ RolesFit /\ ItemsInHand /\ InOnePlace /\ StopsFit /\ ChildrenFit

(* A step inside the library changes nothing of the pool, and leaves every *)
(* task where it is in the pool's code.                                    *)
LEMMA PoolLibLock ==
    ASSUME PoolLockInd, NEW t \in Tasks, CondStep(t)
    PROVE  PoolLockInd' /\ \A u \in Tasks : Cont(u)' = Cont(u)
  <1> USE DEF PoolLockInd, PoolLibTypes, PoolReturns, PoolMutualExclusion,
              PoolHolds, MutexLabels, CondLabels, PoolLabels, LockLabels,
              UnlockLabels, SignalLabels, BroadcastLabels, WaitLabels,
              At, Goto, Call, cvars, Cont
  <1>6. CASE LockCas(t) /\ UNCHANGED cvars
    BY <1>6 DEF LockCas
  <1>7. CASE LockTas(t) /\ UNCHANGED cvars
    BY <1>7 DEF LockTas
  <1>8. CASE LockWait(t) /\ UNCHANGED cvars
    BY <1>8 DEF LockWait
  <1>9. CASE UnlockSub(t) /\ UNCHANGED cvars
    BY <1>9 DEF UnlockSub
  <1>10. CASE UnlockStore(t) /\ UNCHANGED cvars
    BY <1>10 DEF UnlockStore
  <1>11. CASE UnlockWake(t) /\ UNCHANGED cvars
    BY <1>11 DEF UnlockWake
  <1>12. CASE WaitRead(t)
    BY <1>12 DEF WaitRead
  <1>13. CASE WaitBind(t)
    BY <1>13 DEF WaitBind
  <1>14. CASE WaitFutex(t)
    BY <1>14 DEF WaitFutex, Reacquire
  <1>15. CASE SignalAdd(t)
    BY <1>15 DEF SignalAdd
  <1>16. CASE SignalWake(t)
    BY <1>16 DEF SignalWake
  <1>17. CASE BroadcastRead(t)
    BY <1>17 DEF BroadcastRead
  <1>18. CASE BroadcastAdd(t)
    BY <1>18 DEF BroadcastAdd
  <1>19. CASE BroadcastRequeue(t)
    BY <1>19 DEF BroadcastRequeue
  <1> QED BY <1>6, <1>7, <1>8, <1>9, <1>10, <1>11, <1>12, <1>13, <1>14,
             <1>15, <1>16, <1>17, <1>18, <1>19 DEF CondStep, MutexStep

-----------------------------------------------------------------------------
(* The work list                                                           *)

(* Of the natural numbers in a set one is the least.                       *)
LEMMA LeastNatural ==
    ASSUME NEW S, S \subseteq Nat, S # {}
    PROVE  \E n \in S : \A m \in S : n <= m
  <1> DEFINE Less == {ss \in Nat \X Nat : ss[1] < ss[2]}
  <1>1. IsWellFoundedOn(Less, Nat)
    BY NatLessThanWellFounded, Zenon DEF OpToRel
  <1>2. ASSUME NEW m \in Nat, NEW n \in Nat, m < n
        PROVE  <<m, n>> \in Less
    BY <1>2
  <1> HIDE DEF Less
  <1>3. PICK n \in S : \A m \in S : ~(<<m, n>> \in Less)
    BY <1>1, WFMin
  <1>4. ASSUME NEW m \in S PROVE n <= m
    <2>1. m \in Nat /\ n \in Nat
      OBVIOUS
    <2>2. ~(m < n)
      BY <2>1, <1>2, <1>3
    <2> QED BY <2>1, <2>2
  <1> QED BY <1>4

(* search finds an item: of the finitely many on the list one is ordered   *)
(* before all the others.                                                  *)
LEMMA SearchFinds ==
    ASSUME NEW list \in Seq(Items), list # << >>
    PROVE  search(list) \in DOMAIN list
  <1> DEFINE D == DOMAIN list
             R == {Rank[list[n]] : n \in D}
  <1>1. D = 1 .. Len(list) /\ Len(list) \in Nat /\ Len(list) # 0
    BY EmptySeq, LenProperties
  <1>2. \A n \in D : list[n] \in Items
    BY <1>1, ElementOfSeq
  <1>3. R # {} /\ R \subseteq Nat
    <2>1. 1 \in D
      BY <1>1
    <2> HIDE DEF D
    <2> QED BY <1>2, <2>1, PoolAssumption
  <1> HIDE DEF R
  <1>4. PICK r \in R : \A s \in R : r <= s
    BY <1>3, LeastNatural
  <1> DEFINE F == {n \in D : Rank[list[n]] = r}
  <1>5. F # {} /\ F \subseteq Nat
    BY <1>1, <1>4 DEF R
  <1> HIDE DEF F
  <1>6. PICK n \in F : \A m \in F : n <= m
    BY <1>5, LeastNatural
  <1>7. n \in D /\ Rank[list[n]] = r
    BY <1>6 DEF F
  <1>8. ASSUME NEW m \in D
        PROVE  \/ Rank[list[n]] < Rank[list[m]]
               \/ Rank[list[n]] = Rank[list[m]] /\ n <= m
    <2>1. Rank[list[m]] \in R /\ Rank[list[m]] \in Nat /\ r \in Nat
      BY <1>3, <1>4 DEF R
    <2>2. r <= Rank[list[m]]
      BY <1>4, <2>1
    <2>3. CASE Rank[list[m]] = r
      BY <2>3, <1>6, <1>7 DEF F
    <2>4. CASE Rank[list[m]] # r
      BY <2>4, <2>1, <2>2, <1>7
    <2> QED BY <2>3, <2>4
  <1> QED BY <1>7, <1>8 DEF search

(* Without takes out the one place and keeps the others in their order.    *)
LEMMA WithoutProperties ==
    ASSUME NEW list \in Seq(Items), NEW n \in DOMAIN list
    PROVE  /\ Without(list, n) \in Seq(Items)
           /\ Len(Without(list, n)) = Len(list) - 1
           /\ \A m \in 1 .. Len(list) - 1 :
                 Without(list, n)[m] = IF m < n THEN list[m] ELSE list[m + 1]
  <1>1. /\ Len(list) \in Nat /\ n \in 1 .. Len(list)
        /\ DOMAIN list = 1 .. Len(list)
        /\ \A m \in 1 .. Len(list) : list[m] \in Items
    BY LenProperties, ElementOfSeq
  <1> DEFINE a == SubSeq(list, 1, n - 1)
             b == SubSeq(list, n + 1, Len(list))
  <1>2. \A m \in 1 .. n - 1 : list[m] \in Items
    BY <1>1
  <1>3. \A m \in n + 1 .. Len(list) : list[m] \in Items
    BY <1>1
  <1>4. /\ a \in Seq(Items) /\ Len(a) = n - 1
        /\ \A m \in 1 .. n - 1 : a[m] = list[m]
    <2>1. /\ a \in Seq(Items)
          /\ Len(a) = IF 1 <= n - 1 THEN n - 1 - 1 + 1 ELSE 0
          /\ \A m \in 1 .. n - 1 - 1 + 1 : a[m] = list[1 + m - 1]
      BY <1>1, <1>2, SubSeqProperties
    <2>2. n \in Nat /\ n >= 1
      BY <1>1
    <2> HIDE DEF a
    <2> QED BY <2>1, <2>2
  <1>5. /\ b \in Seq(Items) /\ Len(b) = Len(list) - n
        /\ \A m \in 1 .. Len(list) - n : b[m] = list[n + m]
    <2>1. /\ b \in Seq(Items)
          /\ Len(b) = IF n + 1 <= Len(list) THEN Len(list) - (n + 1) + 1
                                            ELSE 0
          /\ \A m \in 1 .. Len(list) - (n + 1) + 1 :
                b[m] = list[n + 1 + m - 1]
      BY <1>1, <1>3, SubSeqProperties
    <2>2. n \in Nat /\ n >= 1 /\ n <= Len(list) /\ Len(list) \in Nat
      BY <1>1
    <2> HIDE DEF b
    <2> QED BY <2>1, <2>2
  <1>6. Without(list, n) = a \o b
    BY DEF Without
  <1> HIDE DEF a, b
  <1>7. /\ a \o b \in Seq(Items) /\ Len(a \o b) = Len(a) + Len(b)
        /\ \A m \in 1 .. Len(a) + Len(b) :
              (a \o b)[m] = IF m <= Len(a) THEN a[m] ELSE b[m - Len(a)]
    BY <1>4, <1>5, ConcatProperties
  <1>8. ASSUME NEW m \in 1 .. Len(list) - 1
        PROVE  (a \o b)[m] = IF m < n THEN list[m] ELSE list[m + 1]
    <2>0. /\ Len(a) = n - 1 /\ m \in 1 .. Len(a) + Len(b)
          /\ n \in Nat /\ n >= 1 /\ m \in Nat
      BY <1>1, <1>4, <1>5
    <2>1. CASE m < n
      BY <2>0, <2>1, <1>4, <1>7
    <2>2. CASE ~(m < n)
      <3>1. m - (n - 1) \in 1 .. Len(list) - n /\ ~(m <= n - 1)
        BY <2>2, <1>1
      <3>2. (a \o b)[m] = b[m - (n - 1)]
        BY <2>0, <3>1, <1>7
      <3>3. b[m - (n - 1)] = list[n + (m - (n - 1))]
        BY <3>1, <1>5
      <3>4. n + (m - (n - 1)) = m + 1
        BY <1>1
      <3> QED BY <2>2, <3>2, <3>3, <3>4
    <2> QED BY <2>1, <2>2
  <1> QED BY <1>1, <1>4, <1>5, <1>6, <1>7, <1>8

-----------------------------------------------------------------------------
(* The pool's own steps                                                    *)

(* A step takes one task from one place of the pool's code to another.     *)
Moved(t, from, to) ==
    /\ Cont(t) = from /\ Cont(t)' = to
    /\ \A u \in Tasks \ {t} : Cont(u)' = Cont(u)

(* The pool calls the library, or a task ends.                             *)
PoolCalls(t, to) ==
    /\ UNCHANGED <<iv_val, mutex>>
    /\ \/ /\ pc[t] \in {"idle", "work", "join_wait", "ended"}
          /\ to \in {"insert", "remove", "start", "shutdown", "join"}
          /\ Call(t, "lock_cas", to) /\ UNCHANGED cret
       \/ /\ pc[t] \in {"insert_end", "remove", "start", "join"}
          /\ to \in {"idle", "work", "end", "join_wait", "done"}
          /\ Call(t, "unlock_sub", to) /\ UNCHANGED cret
       \/ /\ pc[t] = "insert" /\ to = "insert_end"
          /\ Call(t, "signal_add", to) /\ UNCHANGED cret
       \/ /\ pc[t] = "shutdown" /\ to = "join"
          /\ Call(t, "broadcast_read", to) /\ UNCHANGED cret
       \/ /\ pc[t] = "remove" /\ to = "remove"
          /\ Goto(t, "wait_read") /\ cret' = [cret EXCEPT ![t] = "remove"]
       \/ /\ pc[t] \in {"work", "end"} /\ to = "ended"
          /\ Goto(t, "ended") /\ UNCHANGED cret

(* Such a step keeps to the rules of the mutex: the library is entered     *)
(* with it where it must be held and without it where it must not.         *)
LEMMA PoolCallsLock ==
    ASSUME PoolLockInd, NEW t \in Tasks, NEW to, PoolCalls(t, to)
    PROVE  PoolLockInd' /\ Moved(t, pc[t], to)
  <1> USE DEF PoolLockInd, PoolLibTypes, PoolReturns, PoolMutualExclusion,
              PoolHolds, MutexLabels, CondLabels, PoolLabels, LockLabels,
              UnlockLabels, SignalLabels, BroadcastLabels, WaitLabels,
              Goto, Call, Cont, Moved
  <1>1. CASE /\ pc[t] \in {"idle", "work", "join_wait", "ended"}
             /\ to \in {"insert", "remove", "start", "shutdown", "join"}
             /\ Call(t, "lock_cas", to) /\ UNCHANGED cret
    BY <1>1 DEF PoolCalls
  <1>2. CASE /\ pc[t] \in {"insert_end", "remove", "start", "join"}
             /\ to \in {"idle", "work", "end", "join_wait", "done"}
             /\ Call(t, "unlock_sub", to) /\ UNCHANGED cret
    BY <1>2 DEF PoolCalls
  <1>3. CASE /\ pc[t] = "insert" /\ to = "insert_end"
             /\ Call(t, "signal_add", to) /\ UNCHANGED cret
    BY <1>3 DEF PoolCalls
  <1>4. CASE /\ pc[t] = "shutdown" /\ to = "join"
             /\ Call(t, "broadcast_read", to) /\ UNCHANGED cret
    BY <1>4 DEF PoolCalls
  <1>5. CASE /\ pc[t] = "remove" /\ to = "remove"
             /\ Goto(t, "wait_read") /\ cret' = [cret EXCEPT ![t] = "remove"]
    BY <1>5 DEF PoolCalls
  <1>6. CASE /\ pc[t] \in {"work", "end"} /\ to = "ended"
             /\ Goto(t, "ended") /\ UNCHANGED cret
    BY <1>6 DEF PoolCalls
  <1> QED BY <1>1, <1>2, <1>3, <1>4, <1>5, <1>6 DEF PoolCalls

(* Where each step of the pool's own code takes its task.                  *)
LEMMA PoolMoves ==
    ASSUME PoolLockInd, NEW t \in Tasks
    PROVE  /\ \A i \in Items : __insert(t, i) =>
                 PoolLockInd' /\ Moved(t, Home(t), "insert")
           /\ InsertPush(t) => PoolLockInd' /\ Moved(t, "insert", "insert_end")
           /\ InsertEnd(t)  => PoolLockInd' /\ Moved(t, "insert_end", Home(t))
           /\ RemoveWait(t) /\ At(t, "remove") =>
                 PoolLockInd' /\ Moved(t, "remove", "remove")
           /\ RemoveStop(t) /\ At(t, "remove") =>
                 PoolLockInd' /\ Moved(t, "remove", "end")
           /\ RemoveTake(t) /\ At(t, "remove") =>
                 PoolLockInd' /\ Moved(t, "remove", "work")
           /\ Work(t)  => PoolLockInd' /\ Moved(t, "work", "remove")
           /\ Crash(t) => PoolLockInd' /\ Moved(t, "work", "ended")
           /\ End(t)   => PoolLockInd' /\ Moved(t, "end", "ended")
           /\ __start(t)    => PoolLockInd' /\ Moved(t, "idle", "start")
           /\ __shutdown(t) => PoolLockInd' /\ Moved(t, "idle", "shutdown")
           /\ ShutdownSet(t) => PoolLockInd' /\ Moved(t, "shutdown", "join")
           /\ JoinWait(t) => PoolLockInd' /\ Moved(t, "join_wait", "join")
  <1> USE DEF At, LibUnchanged, cvars, PoolCalls, Home
  <1>1. ASSUME NEW i \in Items, __insert(t, i)
        PROVE  PoolLockInd' /\ Moved(t, Home(t), "insert")
    BY <1>1, PoolCallsLock DEF __insert
  <1>2. ASSUME InsertPush(t)
        PROVE  PoolLockInd' /\ Moved(t, "insert", "insert_end")
    BY <1>2, PoolCallsLock DEF InsertPush, sync_cond_signal
  <1>3. ASSUME InsertEnd(t)
        PROVE  PoolLockInd' /\ Moved(t, "insert_end", Home(t))
    BY <1>3, PoolCallsLock DEF InsertEnd
  <1>4. ASSUME RemoveWait(t), At(t, "remove")
        PROVE  PoolLockInd' /\ Moved(t, "remove", "remove")
    BY <1>4, PoolCallsLock DEF RemoveWait, sync_cond_wait
  <1>5. ASSUME RemoveStop(t), At(t, "remove")
        PROVE  PoolLockInd' /\ Moved(t, "remove", "end")
    BY <1>5, PoolCallsLock DEF RemoveStop
  <1>6. ASSUME RemoveTake(t), At(t, "remove")
        PROVE  PoolLockInd' /\ Moved(t, "remove", "work")
    BY <1>6, PoolCallsLock DEF RemoveTake
  <1>7. ASSUME Work(t)
        PROVE  PoolLockInd' /\ Moved(t, "work", "remove")
    BY <1>7, PoolCallsLock DEF Work
  <1>8. ASSUME Crash(t)
        PROVE  PoolLockInd' /\ Moved(t, "work", "ended")
    BY <1>8, PoolCallsLock DEF Crash
  <1>9. ASSUME End(t)
        PROVE  PoolLockInd' /\ Moved(t, "end", "ended")
    BY <1>9, PoolCallsLock DEF End
  <1>10. ASSUME __start(t)
         PROVE  PoolLockInd' /\ Moved(t, "idle", "start")
    BY <1>10, PoolCallsLock DEF __start
  <1>11. ASSUME __shutdown(t)
         PROVE  PoolLockInd' /\ Moved(t, "idle", "shutdown")
    BY <1>11, PoolCallsLock DEF __shutdown
  <1>12. ASSUME ShutdownSet(t)
         PROVE  PoolLockInd' /\ Moved(t, "shutdown", "join")
    BY <1>12, PoolCallsLock DEF ShutdownSet, sync_cond_broadcast
  <1>13. ASSUME JoinWait(t)
         PROVE  PoolLockInd' /\ Moved(t, "join_wait", "join")
    BY <1>13, PoolCallsLock DEF JoinWait
  <1> QED BY <1>1, <1>2, <1>3, <1>4, <1>5, <1>6, <1>7, <1>8, <1>9, <1>10,
             <1>11, <1>12, <1>13

(* The items stay where they are.                                          *)
LEMMA PoolItemsStay ==
    ASSUME InOnePlace,
           UNCHANGED <<iv_worklist, adding, wi, inserted, executed>>
    PROVE  InOnePlace'
  BY DEF InOnePlace, OnList, BeingAdded, BeingRun

(* The library's steps.                                                    *)
LEMMA PoolLibStep ==
    ASSUME PoolInd, NEW t \in Tasks, LibStep(t)
    PROVE  PoolInd'
  <1>1. PoolLockInd' /\ \A u \in Tasks : Cont(u)' = Cont(u)
    BY PoolLibLock DEF PoolInd, LibStep
  <1>2. InOnePlace'
    BY PoolItemsStay DEF PoolInd, LibStep, pvars, wvars
  <1>3. PoolTypes'
    BY DEF PoolInd, PoolTypes, LibStep, pvars, wvars
  <1>4. RolesFit' /\ ItemsInHand'
    BY <1>1, PoolAssumption DEF PoolInd, RolesFit, ItemsInHand, Workers,
       LibStep, pvars, wvars
  <1>5. StopsFit'
    BY <1>1, PoolAssumption DEF PoolInd, StopsFit, Stopped, Workers,
       LibStep, pvars, wvars
  <1>6. ChildrenFit'
    BY <1>1, PoolAssumption DEF PoolInd, ChildrenFit, Unjoined, Workers,
       LibStep, pvars, wvars
  <1> QED BY <1>1, <1>2, <1>3, <1>4, <1>5, <1>6 DEF PoolInd

(* A new item is with the task that inserts it.                            *)
LEMMA PoolInsert ==
    ASSUME PoolInd, NEW t \in Tasks, NEW i \in Items, __insert(t, i)
    PROVE  PoolInd'
  <1> USE DEF __insert, Home, LibUnchanged
  <1>1. PoolLockInd' /\ Moved(t, Home(t), "insert")
    BY PoolMoves DEF PoolInd
  <1>2. InOnePlace'
    <2>1. adding[t] = NoItem /\ i # NoItem
      BY <1>1, PoolAssumption DEF PoolInd, Moved, ItemsInHand
    <2>2. ~OnList(i) /\ ~BeingAdded(i) /\ ~BeingRun(i) /\ i \notin executed
      BY DEF PoolInd, InOnePlace
    <2>3. /\ adding' = [adding EXCEPT ![t] = i]
          /\ adding \in [Tasks -> Items \cup {NoItem}]
      BY DEF PoolInd, PoolTypes
    <2>4. \A j \in Items : BeingAdded(j)' <=> BeingAdded(j) \/ j = i
      BY <2>1, <2>3, PoolAssumption DEF BeingAdded
    <2>5. \A j \in Items : OnList(j)' = OnList(j)
      BY DEF OnList
    <2>6. \A j \in Items : BeingRun(j)' = BeingRun(j)
      BY DEF BeingRun
    <2>7. \A j \in Items : j \in inserted' <=>
             \/ OnList(j)' \/ BeingAdded(j)' \/ BeingRun(j)'
             \/ j \in executed'
      BY <2>2, <2>4, <2>5, <2>6 DEF PoolInd, InOnePlace
    <2>8. \A j \in Items :
             /\ OnList(j)' => /\ ~BeingAdded(j)' /\ ~BeingRun(j)'
                              /\ j \notin executed'
             /\ BeingAdded(j)' => ~BeingRun(j)' /\ j \notin executed'
             /\ BeingRun(j)' => j \notin executed'
      BY <2>2, <2>4, <2>5, <2>6 DEF PoolInd, InOnePlace
    <2>9. \A m, n \in DOMAIN iv_worklist' :
             iv_worklist'[m] = iv_worklist'[n] => m = n
      BY DEF PoolInd, InOnePlace
    <2>10. \A u, v \in Tasks :
             adding'[u] = adding'[v] => u = v \/ adding'[u] = NoItem
      BY <2>1, <2>2, <2>3 DEF PoolInd, InOnePlace, BeingAdded
    <2>11. \A v, w \in Workers : wi'[v] = wi'[w] => v = w \/ wi'[v] = NoItem
      BY DEF PoolInd, InOnePlace
    <2> QED BY <2>7, <2>8, <2>9, <2>10, <2>11 DEF InOnePlace
  <1>3. PoolTypes'
    BY PoolAssumption DEF PoolInd, PoolTypes
  <1>4. RolesFit'
    BY <1>1, PoolAssumption DEF PoolInd, PoolTypes, Moved, MainPlaces,
       Active, Workers, RolesFit
  <1>5. ItemsInHand'
    BY <1>1, PoolAssumption DEF PoolInd, PoolTypes, Moved, MainPlaces,
       Active, Workers, RolesFit, ItemsInHand
  <1>6. StopsFit'
    BY <1>1, PoolAssumption DEF PoolInd, PoolTypes, Moved, MainPlaces,
       Active, Workers, RolesFit, StopsFit, Stopped
  <1>7. ChildrenFit'
    BY <1>1, PoolAssumption DEF PoolInd, PoolTypes, Moved, MainPlaces,
       Active, Workers, RolesFit, ChildrenFit, Unjoined
  <1> QED BY <1>1, <1>2, <1>3, <1>4, <1>5, <1>6, <1>7 DEF PoolInd

(* The item goes from the task to the end of the list.                     *)
LEMMA PoolInsertPush ==
    ASSUME PoolInd, NEW t \in Tasks, InsertPush(t)
    PROVE  PoolInd'
  <1> USE DEF InsertPush
  <1>1. PoolLockInd' /\ Moved(t, "insert", "insert_end")
    BY PoolMoves DEF PoolInd
  <1>2. adding[t] \in Items
    BY <1>1 DEF PoolInd, PoolTypes, Moved, ItemsInHand
  <1>3. /\ iv_worklist \in Seq(Items) /\ iv_worklist' \in Seq(Items)
        /\ DOMAIN iv_worklist = 1 .. Len(iv_worklist)
        /\ Len(iv_worklist) \in Nat
        /\ DOMAIN iv_worklist' = 1 .. Len(iv_worklist) + 1
        /\ iv_worklist'[Len(iv_worklist) + 1] = adding[t]
        /\ \A n \in 1 .. Len(iv_worklist) : iv_worklist'[n] = iv_worklist[n]
    BY <1>2, AppendProperties, LenProperties DEF PoolInd, PoolTypes
  <1>4. InOnePlace'
    <2>1. BeingAdded(adding[t])
      BY DEF BeingAdded
    <2>2. /\ ~OnList(adding[t]) /\ ~BeingRun(adding[t])
          /\ adding[t] \notin executed /\ adding[t] \in inserted
      BY <1>2, <2>1 DEF PoolInd, InOnePlace
    <2>3. /\ adding' = [adding EXCEPT ![t] = NoItem]
          /\ adding \in [Tasks -> Items \cup {NoItem}]
      BY DEF PoolInd, PoolTypes
    <2>4. \A j \in Items : BeingAdded(j)' <=> BeingAdded(j) /\ j # adding[t]
      <3>1. \A u \in Tasks : adding[u] = adding[t] => u = t
        BY <1>2, PoolAssumption DEF PoolInd, InOnePlace
      <3> QED BY <2>3, <3>1, PoolAssumption DEF BeingAdded
    <2>5. \A j \in Items : OnList(j)' <=> OnList(j) \/ j = adding[t]
      <3>1. ASSUME NEW j \in Items, OnList(j)'
            PROVE  OnList(j) \/ j = adding[t]
        <4>1. PICK n \in DOMAIN iv_worklist' : iv_worklist'[n] = j
          BY <3>1 DEF OnList
        <4> QED BY <1>3, <4>1 DEF OnList
      <3>2. ASSUME NEW j \in Items, OnList(j) PROVE OnList(j)'
        <4>1. PICK n \in DOMAIN iv_worklist : iv_worklist[n] = j
          BY <3>2 DEF OnList
        <4>2. n \in DOMAIN iv_worklist' /\ iv_worklist'[n] = j
          BY <1>3, <4>1
        <4> QED BY <4>2 DEF OnList
      <3>3. \A j \in Items : j = adding[t] => OnList(j)'
        <4>1. Len(iv_worklist) + 1 \in DOMAIN iv_worklist'
          BY <1>3
        <4> QED BY <1>3, <4>1 DEF OnList
      <3> QED BY <3>1, <3>2, <3>3
    <2>6. \A j \in Items : BeingRun(j)' = BeingRun(j)
      BY DEF BeingRun
    <2>7. \A j \in Items : j \in inserted' <=>
             \/ OnList(j)' \/ BeingAdded(j)' \/ BeingRun(j)'
             \/ j \in executed'
      BY <1>2, <2>1, <2>2, <2>4, <2>5, <2>6 DEF PoolInd, InOnePlace
    <2>8. \A j \in Items :
             /\ OnList(j)' => /\ ~BeingAdded(j)' /\ ~BeingRun(j)'
                              /\ j \notin executed'
             /\ BeingAdded(j)' => ~BeingRun(j)' /\ j \notin executed'
             /\ BeingRun(j)' => j \notin executed'
      BY <1>2, <2>1, <2>2, <2>4, <2>5, <2>6 DEF PoolInd, InOnePlace
    <2>9. \A m, n \in DOMAIN iv_worklist' :
             iv_worklist'[m] = iv_worklist'[n] => m = n
      BY <1>3, <2>2 DEF PoolInd, InOnePlace, OnList
    <2>10. \A u, v \in Tasks :
             adding'[u] = adding'[v] => u = v \/ adding'[u] = NoItem
      BY <2>3 DEF PoolInd, InOnePlace
    <2>11. \A v, w \in Workers : wi'[v] = wi'[w] => v = w \/ wi'[v] = NoItem
      BY DEF PoolInd, InOnePlace
    <2> QED BY <2>7, <2>8, <2>9, <2>10, <2>11 DEF InOnePlace
  <1>5. PoolTypes'
    BY <1>3 DEF PoolInd, PoolTypes
  <1>6. RolesFit'
    BY <1>1, PoolAssumption DEF PoolInd, PoolTypes, Moved, MainPlaces,
       Active, Workers, RolesFit
  <1>7. ItemsInHand'
    BY <1>1, PoolAssumption DEF PoolInd, PoolTypes, Moved, MainPlaces,
       Active, Workers, RolesFit, ItemsInHand
  <1>8. StopsFit'
    BY <1>1, PoolAssumption DEF PoolInd, PoolTypes, Moved, MainPlaces,
       Active, Workers, RolesFit, StopsFit, Stopped
  <1>9. ChildrenFit'
    BY <1>1, PoolAssumption DEF PoolInd, PoolTypes, Moved, MainPlaces,
       Active, Workers, RolesFit, ChildrenFit, Unjoined
  <1> QED BY <1>1, <1>4, <1>5, <1>6, <1>7, <1>8, <1>9 DEF PoolInd

(* The task that inserted goes back to what it was doing.                  *)
LEMMA PoolInsertEnd ==
    ASSUME PoolInd, NEW t \in Tasks, InsertEnd(t)
    PROVE  PoolInd'
  <1> USE DEF InsertEnd, Home, pvars, wvars
  <1>1. PoolLockInd' /\ Moved(t, "insert_end", Home(t))
    BY PoolMoves DEF PoolInd
  <1>2. InOnePlace'
    BY PoolItemsStay DEF PoolInd, wvars
  <1>3. PoolTypes'
    BY PoolAssumption DEF PoolInd, PoolTypes
  <1>4. RolesFit'
    BY <1>1, PoolAssumption DEF PoolInd, PoolTypes, Moved, MainPlaces,
       Active, Workers, RolesFit
  <1>5. ItemsInHand'
    BY <1>1, PoolAssumption DEF PoolInd, PoolTypes, Moved, MainPlaces,
       Active, Workers, RolesFit, ItemsInHand
  <1>6. StopsFit'
    BY <1>1, PoolAssumption DEF PoolInd, PoolTypes, Moved, MainPlaces,
       Active, Workers, RolesFit, StopsFit, Stopped
  <1>7. ChildrenFit'
    BY <1>1, PoolAssumption DEF PoolInd, PoolTypes, Moved, MainPlaces,
       Active, Workers, RolesFit, ChildrenFit, Unjoined
  <1> QED BY <1>1, <1>2, <1>3, <1>4, <1>5, <1>6, <1>7 DEF PoolInd

(* The item a worker has is executed, and counted there only.              *)
LEMMA PoolWork ==
    ASSUME PoolInd, NEW t \in Tasks, Work(t)
    PROVE  PoolInd'
  <1> USE DEF Work
  <1>1. PoolLockInd' /\ Moved(t, "work", "remove")
    BY PoolMoves DEF PoolInd
  <1>2. t \in Workers /\ wi[t] \in Items
    BY <1>1 DEF PoolInd, PoolTypes, Moved, ItemsInHand, RolesFit, MainPlaces,
       Active, Workers
  <1>3. BeingRun(wi[t])
    BY <1>2 DEF BeingRun
  <1>4. wi[t] \in inserted /\ wi[t] \notin executed
    BY <1>2, <1>3 DEF PoolInd, InOnePlace
  <1>5. InOnePlace'
    <2>1. ~OnList(wi[t]) /\ ~BeingAdded(wi[t])
      BY <1>2, <1>3 DEF PoolInd, InOnePlace
    <2>2. /\ wi' = [wi EXCEPT ![t] = NoItem]
          /\ wi \in [Workers -> Items \cup {NoItem}]
      BY DEF PoolInd, PoolTypes
    <2>3. \A j \in Items : BeingRun(j)' <=> BeingRun(j) /\ j # wi[t]
      <3>1. \A w \in Workers : wi[w] = wi[t] => w = t
        BY <1>2, PoolAssumption DEF PoolInd, InOnePlace
      <3> QED BY <1>2, <2>2, <3>1, PoolAssumption DEF BeingRun
    <2>4. \A j \in Items : OnList(j)' = OnList(j)
      BY DEF OnList
    <2>5. \A j \in Items : BeingAdded(j)' = BeingAdded(j)
      BY DEF BeingAdded
    <2>6. \A j \in Items : j \in inserted' <=>
             \/ OnList(j)' \/ BeingAdded(j)' \/ BeingRun(j)'
             \/ j \in executed'
      BY <1>2, <1>3, <1>4, <2>3, <2>4, <2>5 DEF PoolInd, InOnePlace
    <2>7. \A j \in Items :
             /\ OnList(j)' => /\ ~BeingAdded(j)' /\ ~BeingRun(j)'
                              /\ j \notin executed'
             /\ BeingAdded(j)' => ~BeingRun(j)' /\ j \notin executed'
             /\ BeingRun(j)' => j \notin executed'
      BY <1>2, <2>1, <2>3, <2>4, <2>5 DEF PoolInd, InOnePlace
    <2>8. \A m, n \in DOMAIN iv_worklist' :
             iv_worklist'[m] = iv_worklist'[n] => m = n
      BY DEF PoolInd, InOnePlace
    <2>9. \A u, v \in Tasks :
             adding'[u] = adding'[v] => u = v \/ adding'[u] = NoItem
      BY DEF PoolInd, InOnePlace
    <2>10. \A v, w \in Workers : wi'[v] = wi'[w] => v = w \/ wi'[v] = NoItem
      BY <2>2 DEF PoolInd, InOnePlace
    <2> QED BY <2>6, <2>7, <2>8, <2>9, <2>10 DEF InOnePlace
  <1>6. PoolTypes'
    BY <1>4 DEF PoolInd, PoolTypes
  <1>7. RolesFit'
    BY <1>1, PoolAssumption DEF PoolInd, PoolTypes, Moved, MainPlaces,
       Active, Workers, RolesFit
  <1>8. ItemsInHand'
    BY <1>1, PoolAssumption DEF PoolInd, PoolTypes, Moved, MainPlaces,
       Active, Workers, RolesFit, ItemsInHand
  <1>9. StopsFit'
    BY <1>1, PoolAssumption DEF PoolInd, PoolTypes, Moved, MainPlaces,
       Active, Workers, RolesFit, StopsFit, Stopped
  <1>10. ChildrenFit'
    BY <1>1, PoolAssumption DEF PoolInd, PoolTypes, Moved, MainPlaces,
       Active, Workers, RolesFit, ChildrenFit, Unjoined
  <1> QED BY <1>1, <1>5, <1>6, <1>7, <1>8, <1>9, <1>10 DEF PoolInd

(* A worker crashes and keeps its item: it is not run by another.          *)
LEMMA PoolCrash ==
    ASSUME PoolInd, NEW t \in Tasks, Crash(t)
    PROVE  PoolInd'
  <1> USE DEF Crash, wvars
  <1>1. PoolLockInd' /\ Moved(t, "work", "ended")
    BY PoolMoves DEF PoolInd
  <1>2. InOnePlace'
    BY PoolItemsStay DEF PoolInd, wvars
  <1>3. PoolTypes'
    BY PoolAssumption DEF PoolInd, PoolTypes
  <1>4. RolesFit'
    BY <1>1, PoolAssumption DEF PoolInd, PoolTypes, Moved, MainPlaces,
       Active, Workers, RolesFit
  <1>5. ItemsInHand'
    BY <1>1, PoolAssumption DEF PoolInd, PoolTypes, Moved, MainPlaces,
       Active, Workers, RolesFit, ItemsInHand
  <1>6. StopsFit'
    BY <1>1, PoolAssumption DEF PoolInd, PoolTypes, Moved, MainPlaces,
       Active, Workers, RolesFit, StopsFit, Stopped
  <1>7. ChildrenFit'
    BY <1>1, PoolAssumption DEF PoolInd, PoolTypes, Moved, MainPlaces,
       Active, Workers, RolesFit, ChildrenFit, Unjoined
  <1> QED BY <1>1, <1>2, <1>3, <1>4, <1>5, <1>6, <1>7 DEF PoolInd

(* A worker that was told to stop ends.                                    *)
LEMMA PoolEnd ==
    ASSUME PoolInd, NEW t \in Tasks, End(t)
    PROVE  PoolInd'
  <1> USE DEF End, wvars
  <1>1. PoolLockInd' /\ Moved(t, "end", "ended")
    BY PoolMoves DEF PoolInd
  <1>2. InOnePlace'
    BY PoolItemsStay DEF PoolInd, wvars
  <1>3. PoolTypes'
    BY PoolAssumption DEF PoolInd, PoolTypes
  <1>4. RolesFit'
    BY <1>1, PoolAssumption DEF PoolInd, PoolTypes, Moved, MainPlaces,
       Active, Workers, RolesFit
  <1>5. ItemsInHand'
    BY <1>1, PoolAssumption DEF PoolInd, PoolTypes, Moved, MainPlaces,
       Active, Workers, RolesFit, ItemsInHand
  <1>6. StopsFit'
    BY <1>1, PoolAssumption DEF PoolInd, PoolTypes, Moved, MainPlaces,
       Active, Workers, RolesFit, StopsFit, Stopped
  <1>7. ChildrenFit'
    BY <1>1, PoolAssumption DEF PoolInd, PoolTypes, Moved, MainPlaces,
       Active, Workers, RolesFit, ChildrenFit, Unjoined
  <1> QED BY <1>1, <1>2, <1>3, <1>4, <1>5, <1>6, <1>7 DEF PoolInd

(* __start takes the mutex.                                                *)
LEMMA PoolStart ==
    ASSUME PoolInd, NEW t \in Tasks, __start(t)
    PROVE  PoolInd'
  <1> USE DEF __start, pvars, wvars
  <1>1. PoolLockInd' /\ Moved(t, "idle", "start")
    BY PoolMoves DEF PoolInd
  <1>2. InOnePlace'
    BY PoolItemsStay DEF PoolInd, wvars
  <1>3. PoolTypes'
    BY PoolAssumption DEF PoolInd, PoolTypes
  <1>4. RolesFit'
    BY <1>1, PoolAssumption DEF PoolInd, PoolTypes, Moved, MainPlaces,
       Active, Workers, RolesFit
  <1>5. ItemsInHand'
    BY <1>1, PoolAssumption DEF PoolInd, PoolTypes, Moved, MainPlaces,
       Active, Workers, RolesFit, ItemsInHand
  <1>6. StopsFit'
    BY <1>1, PoolAssumption DEF PoolInd, PoolTypes, Moved, MainPlaces,
       Active, Workers, RolesFit, StopsFit, Stopped
  <1>7. ChildrenFit'
    BY <1>1, PoolAssumption DEF PoolInd, PoolTypes, Moved, MainPlaces,
       Active, Workers, RolesFit, ChildrenFit, Unjoined
  <1> QED BY <1>1, <1>2, <1>3, <1>4, <1>5, <1>6, <1>7 DEF PoolInd

(* __shutdown takes the mutex; all the workers exist.                      *)
LEMMA PoolShutdown ==
    ASSUME PoolInd, NEW t \in Tasks, __shutdown(t)
    PROVE  PoolInd'
  <1> USE DEF __shutdown, pvars, wvars
  <1>1. PoolLockInd' /\ Moved(t, "idle", "shutdown")
    BY PoolMoves DEF PoolInd
  <1>2. InOnePlace'
    BY PoolItemsStay DEF PoolInd, wvars
  <1>3. PoolTypes'
    BY PoolAssumption DEF PoolInd, PoolTypes
  <1>4. RolesFit'
    BY <1>1, PoolAssumption DEF PoolInd, PoolTypes, Moved, MainPlaces,
       Active, Workers, RolesFit
  <1>5. ItemsInHand'
    BY <1>1, PoolAssumption DEF PoolInd, PoolTypes, Moved, MainPlaces,
       Active, Workers, RolesFit, ItemsInHand
  <1>6. StopsFit'
    BY <1>1, PoolAssumption DEF PoolInd, PoolTypes, Moved, MainPlaces,
       Active, Workers, RolesFit, StopsFit, Stopped
  <1>7. ChildrenFit'
    BY <1>1, PoolAssumption DEF PoolInd, PoolTypes, Moved, MainPlaces,
       Active, Workers, RolesFit, ChildrenFit, Unjoined
  <1> QED BY <1>1, <1>2, <1>3, <1>4, <1>5, <1>6, <1>7 DEF PoolInd

(* iv_shutdown is set.                                                     *)
LEMMA PoolShutdownSet ==
    ASSUME PoolInd, NEW t \in Tasks, ShutdownSet(t)
    PROVE  PoolInd'
  <1> USE DEF ShutdownSet, wvars
  <1>1. PoolLockInd' /\ Moved(t, "shutdown", "join")
    BY PoolMoves DEF PoolInd
  <1>2. InOnePlace'
    BY PoolItemsStay DEF PoolInd, wvars
  <1>3. PoolTypes'
    BY PoolAssumption DEF PoolInd, PoolTypes
  <1>4. RolesFit'
    BY <1>1, PoolAssumption DEF PoolInd, PoolTypes, Moved, MainPlaces,
       Active, Workers, RolesFit
  <1>5. ItemsInHand'
    BY <1>1, PoolAssumption DEF PoolInd, PoolTypes, Moved, MainPlaces,
       Active, Workers, RolesFit, ItemsInHand
  <1>6. StopsFit'
    BY <1>1, PoolAssumption DEF PoolInd, PoolTypes, Moved, MainPlaces,
       Active, Workers, RolesFit, StopsFit, Stopped
  <1>7. ChildrenFit'
    BY <1>1, PoolAssumption DEF PoolInd, PoolTypes, Moved, MainPlaces,
       Active, Workers, RolesFit, ChildrenFit, Unjoined
  <1> QED BY <1>1, <1>2, <1>3, <1>4, <1>5, <1>6, <1>7 DEF PoolInd

(* A child has ended; a crash is noted before it counts as joined.         *)
LEMMA PoolJoinWait ==
    ASSUME PoolInd, NEW t \in Tasks, JoinWait(t)
    PROVE  PoolInd'
  <1> USE DEF JoinWait, wvars
  <1>1. PoolLockInd' /\ Moved(t, "join_wait", "join")
    BY PoolMoves DEF PoolInd
  <1>2. InOnePlace'
    BY PoolItemsStay DEF PoolInd, wvars
  <1>3. PoolTypes'
    BY PoolAssumption DEF PoolInd, PoolTypes
  <1>4. RolesFit'
    BY <1>1, PoolAssumption DEF PoolInd, PoolTypes, Moved, MainPlaces,
       Active, Workers, RolesFit
  <1>5. ItemsInHand'
    BY <1>1, PoolAssumption DEF PoolInd, PoolTypes, Moved, MainPlaces,
       Active, Workers, RolesFit, ItemsInHand
  <1>6. StopsFit'
    BY <1>1, PoolAssumption DEF PoolInd, PoolTypes, Moved, MainPlaces,
       Active, Workers, RolesFit, StopsFit, Stopped
  <1>7. ChildrenFit'
    BY <1>1, PoolAssumption DEF PoolInd, PoolTypes, Moved, MainPlaces,
       Active, Workers, RolesFit, ChildrenFit, Unjoined
  <1> QED BY <1>1, <1>2, <1>3, <1>4, <1>5, <1>6, <1>7 DEF PoolInd

(* A worker goes to sleep.                                                 *)
LEMMA PoolRemoveWait ==
    ASSUME PoolInd, NEW t \in Tasks, __remove(t), RemoveWait(t)
    PROVE  PoolInd'
  <1> USE DEF __remove, RemoveWait
  <1>1. PoolLockInd' /\ Moved(t, "remove", "remove")
    BY PoolMoves DEF PoolInd
  <1>2. InOnePlace'
    BY PoolItemsStay DEF PoolInd
  <1>3. PoolTypes'
    BY DEF PoolInd, PoolTypes
  <1>4. RolesFit'
    BY <1>1, PoolAssumption DEF PoolInd, PoolTypes, Moved, MainPlaces,
       Active, Workers, RolesFit
  <1>5. ItemsInHand'
    BY <1>1, PoolAssumption DEF PoolInd, PoolTypes, Moved, MainPlaces,
       Active, Workers, RolesFit, ItemsInHand
  <1>6. StopsFit'
    BY <1>1, PoolAssumption DEF PoolInd, PoolTypes, Moved, MainPlaces,
       Active, Workers, RolesFit, StopsFit, Stopped
  <1>7. ChildrenFit'
    BY <1>1, PoolAssumption DEF PoolInd, PoolTypes, Moved, MainPlaces,
       Active, Workers, RolesFit, ChildrenFit, Unjoined
  <1> QED BY <1>1, <1>2, <1>3, <1>4, <1>5, <1>6, <1>7 DEF PoolInd

(* A worker stops: there is no work left and it had none.                  *)
LEMMA PoolRemoveStop ==
    ASSUME PoolInd, NEW t \in Tasks, __remove(t), RemoveStop(t)
    PROVE  PoolInd'
  <1> USE DEF __remove, RemoveStop
  <1>1. PoolLockInd' /\ Moved(t, "remove", "end")
    BY PoolMoves DEF PoolInd
  <1>2. t \in Workers /\ status[t] = "running" /\ wi[t] = NoItem /\ wi' = wi
    BY <1>1, PoolAssumption DEF PoolInd, PoolTypes, Moved, RolesFit,
       MainPlaces, Active, Workers, ItemsInHand
  <1>3. InOnePlace'
    BY <1>2, PoolItemsStay DEF PoolInd
  <1>4. PoolTypes'
    BY <1>2 DEF PoolInd, PoolTypes
  <1>5. RolesFit'
    BY <1>1, <1>2, PoolAssumption DEF PoolInd, PoolTypes, Moved, MainPlaces,
       Active, Workers, RolesFit
  <1>6. ItemsInHand'
    BY <1>1, <1>2, PoolAssumption DEF PoolInd, PoolTypes, Moved, MainPlaces,
       Active, Workers, RolesFit, ItemsInHand
  <1>7. StopsFit'
    BY <1>1, <1>2, PoolAssumption DEF PoolInd, PoolTypes, Moved, MainPlaces,
       Active, Workers, RolesFit, StopsFit, Stopped
  <1>8. ChildrenFit'
    BY <1>1, <1>2, PoolAssumption DEF PoolInd, PoolTypes, Moved, MainPlaces,
       Active, Workers, RolesFit, ChildrenFit, Unjoined
  <1> QED BY <1>1, <1>3, <1>4, <1>5, <1>6, <1>7, <1>8 DEF PoolInd

(* A worker takes an item.                                                 *)
LEMMA PoolRemoveTake ==
    ASSUME PoolInd, NEW t \in Tasks, __remove(t), RemoveTake(t)
    PROVE  PoolInd'
  <1> USE DEF __remove, RemoveTake
  <1>1. PoolLockInd' /\ Moved(t, "remove", "work")
    BY PoolMoves DEF PoolInd
  <1> DEFINE k == search(iv_worklist)
             a == iv_worklist[k]
  <1>2. t \in Workers /\ status[t] = "running" /\ wi[t] = NoItem
    BY <1>1, PoolAssumption DEF PoolInd, PoolTypes, Moved, RolesFit,
       MainPlaces, Active, Workers, ItemsInHand
  <1>3. iv_worklist \in Seq(Items) /\ k \in DOMAIN iv_worklist
    BY SearchFinds DEF PoolInd, PoolTypes
  <1>4. iv_worklist' = Without(iv_worklist, k) /\ wi' = [wi EXCEPT ![t] = a]
    OBVIOUS
  <1> HIDE DEF k
  <1>5. /\ iv_worklist' \in Seq(Items)
         /\ Len(iv_worklist') = Len(iv_worklist) - 1
         /\ \A m \in 1 .. Len(iv_worklist) - 1 :
               iv_worklist'[m] = IF m < k THEN iv_worklist[m]
                                          ELSE iv_worklist[m + 1]
    BY <1>3, <1>4, WithoutProperties
  <1>6. /\ DOMAIN iv_worklist = 1 .. Len(iv_worklist)
         /\ Len(iv_worklist) \in Nat
         /\ DOMAIN iv_worklist' = 1 .. Len(iv_worklist) - 1
    BY <1>3, <1>5, LenProperties
  <1>7. a \in Items /\ a # NoItem
    BY <1>3, <1>6, ElementOfSeq, PoolAssumption
  <1>8. OnList(a)
    BY <1>3 DEF OnList
  <1>9. \A m, n \in DOMAIN iv_worklist :
           iv_worklist[m] = iv_worklist[n] => m = n
    BY DEF PoolInd, InOnePlace
  <1> HIDE DEF a
  <1>10. InOnePlace'
    <2>1. /\ ~BeingAdded(a) /\ ~BeingRun(a) /\ a \notin executed
          /\ a \in inserted
      BY <1>7, <1>8 DEF PoolInd, InOnePlace
    <2>2. wi \in [Workers -> Items \cup {NoItem}]
      BY DEF PoolInd, PoolTypes
    <2>3. \A j \in Items : OnList(j)' <=> OnList(j) /\ j # a
      <3>1. ASSUME NEW j \in Items, OnList(j)' PROVE OnList(j) /\ j # a
        <4>1. PICK n \in DOMAIN iv_worklist' : iv_worklist'[n] = j
          BY <3>1 DEF OnList
        <4>2. PICK m \in DOMAIN iv_worklist : iv_worklist[m] = j /\ m # k
          <5>1. CASE n < k
            BY <1>3, <1>5, <1>6, <4>1, <5>1
          <5>2. CASE ~(n < k)
            <6>1. n + 1 \in DOMAIN iv_worklist /\ n + 1 # k
              BY <1>3, <1>6, <4>1, <5>2
            <6>2. iv_worklist[n + 1] = j
              BY <1>5, <1>6, <4>1, <5>2
            <6> QED BY <6>1, <6>2
          <5> QED BY <5>1, <5>2
        <4> QED BY <1>3, <1>9, <4>2 DEF OnList, a
      <3>2. ASSUME NEW j \in Items, OnList(j), j # a PROVE OnList(j)'
        <4>1. PICK m \in DOMAIN iv_worklist : iv_worklist[m] = j
          BY <3>2 DEF OnList
        <4>2. m # k
          BY <3>2, <4>1 DEF a
        <4>3. CASE m < k
          <5>1. m \in DOMAIN iv_worklist' /\ iv_worklist'[m] = j
            BY <1>3, <1>5, <1>6, <4>1, <4>3
          <5> QED BY <5>1 DEF OnList
        <4>4. CASE m > k
          <5>1. m - 1 \in DOMAIN iv_worklist' /\ ~(m - 1 < k)
            BY <1>3, <1>6, <4>4
          <5>2. iv_worklist'[m - 1] = iv_worklist[(m - 1) + 1]
            BY <1>5, <1>6, <5>1
          <5>3. (m - 1) + 1 = m
            BY <1>6
          <5> QED BY <4>1, <5>1, <5>2, <5>3 DEF OnList
        <4> QED BY <1>3, <1>6, <4>2, <4>3, <4>4
      <3> QED BY <3>1, <3>2
    <2>4. \A j \in Items : BeingRun(j)' <=> BeingRun(j) \/ j = a
      BY <1>2, <1>4, <1>7, <2>2, PoolAssumption DEF BeingRun
    <2>5. \A j \in Items : BeingAdded(j)' = BeingAdded(j)
      BY DEF BeingAdded
    <2>6. \A j \in Items : j \in inserted' <=>
             \/ OnList(j)' \/ BeingAdded(j)' \/ BeingRun(j)'
             \/ j \in executed'
      BY <1>7, <1>8, <2>1, <2>3, <2>4, <2>5 DEF PoolInd, InOnePlace
    <2>7. \A j \in Items :
             /\ OnList(j)' => /\ ~BeingAdded(j)' /\ ~BeingRun(j)'
                              /\ j \notin executed'
             /\ BeingAdded(j)' => ~BeingRun(j)' /\ j \notin executed'
             /\ BeingRun(j)' => j \notin executed'
      BY <1>7, <1>8, <2>1, <2>3, <2>4, <2>5 DEF PoolInd, InOnePlace
    <2>8. \A m, n \in DOMAIN iv_worklist' :
             iv_worklist'[m] = iv_worklist'[n] => m = n
      <3> SUFFICES ASSUME NEW m \in DOMAIN iv_worklist',
                          NEW n \in DOMAIN iv_worklist',
                          iv_worklist'[m] = iv_worklist'[n]
                   PROVE  m = n
        OBVIOUS
      <3> DEFINE old(p) == IF p < k THEN p ELSE p + 1
      <3>1. \A p \in DOMAIN iv_worklist' :
               /\ old(p) \in DOMAIN iv_worklist
               /\ iv_worklist'[p] = iv_worklist[old(p)]
        BY <1>3, <1>5, <1>6
      <3>2. \A p, q \in DOMAIN iv_worklist' : old(p) = old(q) => p = q
        BY <1>3, <1>6
      <3> HIDE DEF old
      <3> QED BY <1>9, <3>1, <3>2
    <2>9. \A u, v \in Tasks :
             adding'[u] = adding'[v] => u = v \/ adding'[u] = NoItem
      BY DEF PoolInd, InOnePlace
    <2>10. \A v, w \in Workers : wi'[v] = wi'[w] => v = w \/ wi'[v] = NoItem
      BY <1>4, <2>1, <2>2 DEF PoolInd, InOnePlace, BeingRun
    <2> QED BY <2>6, <2>7, <2>8, <2>9, <2>10 DEF InOnePlace
  <1>11. PoolTypes'
    BY <1>4, <1>5, <1>7 DEF PoolInd, PoolTypes
  <1>12. RolesFit'
    BY <1>1, <1>2, <1>4, <1>7, PoolAssumption DEF PoolInd, PoolTypes, Moved,
       MainPlaces, Active, Workers, RolesFit
  <1>13. ItemsInHand'
    BY <1>1, <1>2, <1>4, <1>7, PoolAssumption DEF PoolInd, PoolTypes, Moved,
       MainPlaces, Active, Workers, RolesFit, ItemsInHand
  <1>14. StopsFit'
    BY <1>1, <1>2, <1>4, <1>7, PoolAssumption DEF PoolInd, PoolTypes, Moved,
       MainPlaces, Active, Workers, RolesFit, StopsFit, Stopped
  <1>15. ChildrenFit'
    BY <1>1, <1>2, <1>4, <1>7, PoolAssumption DEF PoolInd, PoolTypes, Moved,
       MainPlaces, Active, Workers, RolesFit, ChildrenFit, Unjoined
  <1> QED BY <1>1, <1>10, <1>11, <1>12, <1>13, <1>14, <1>15 DEF PoolInd

(* __start creates a worker, or is done.                                   *)
LEMMA PoolStartChildren ==
    ASSUME PoolInd, NEW t \in Tasks, StartChildren(t)
    PROVE  PoolInd'
  <1> USE DEF StartChildren, LibUnchanged, wvars
  <1>1. InOnePlace'
    BY PoolItemsStay DEF PoolInd
  <1>2. pc[t] = "start" /\ t = Main /\ Cont(Main) = "start"
    <2>1. pc[t] = "start" /\ Cont(t) = "start"
      BY DEF At, Cont, WaitLabels, MutexLabels, SignalLabels, BroadcastLabels
    <2> QED BY <2>1 DEF PoolInd, RolesFit, Workers, Active
  <1>3. CASE \E w \in Workers : /\ status[w] = "none"
                                /\ status' = [status EXCEPT ![w] = "running"]
                                /\ iv_children' = Append(iv_children, w)
                                /\ Call(w, "lock_cas", "remove")
    <2>1. PICK w \in Workers : /\ status[w] = "none"
                               /\ status' = [status EXCEPT ![w] = "running"]
                               /\ iv_children' = Append(iv_children, w)
                               /\ Call(w, "lock_cas", "remove")
      BY <1>3
    <2>2. w \in Tasks /\ w # Main /\ Cont(w) = "ended"
      BY <2>1 DEF PoolInd, RolesFit, Workers
    <2>3. pc[w] = "ended"
      BY <2>2 DEF PoolInd, PoolLockInd, PoolReturns, Cont, WaitLabels,
         MutexLabels, SignalLabels, BroadcastLabels, LockLabels, UnlockLabels
    <2>4. PoolLockInd' /\ Moved(w, "ended", "remove")
      BY <2>1, <2>2, <2>3, PoolCallsLock DEF PoolInd, PoolCalls, cvars
    <2>5. /\ iv_children \in Seq(Workers) /\ iv_children' \in Seq(Workers)
          /\ Len(iv_children) \in Nat
          /\ DOMAIN iv_children = 1 .. Len(iv_children)
          /\ DOMAIN iv_children' = 1 .. Len(iv_children) + 1
          /\ iv_children'[Len(iv_children) + 1] = w
          /\ \A n \in 1 .. Len(iv_children) : iv_children'[n] = iv_children[n]
      BY <2>1, AppendProperties, LenProperties DEF PoolInd, PoolTypes
    <2>6. PoolTypes'
      BY <2>1, <2>5 DEF PoolInd, PoolTypes
    <2>7. RolesFit'
      BY <2>1, <2>2, <2>4, PoolAssumption DEF PoolInd, PoolTypes, Moved,
         Active, Workers, RolesFit
    <2>8. ItemsInHand'
      BY <2>1, <2>2, <2>4, PoolAssumption DEF PoolInd, PoolTypes, Moved,
         Active, Workers, ItemsInHand
    <2>9. StopsFit'
      BY <1>2, <2>1, <2>2, <2>4, PoolAssumption DEF PoolInd, PoolTypes,
         Moved, Active, Workers, StopsFit, Stopped
    <2>10. ChildrenFit'
      <3>1. ASSUME NEW v \in Workers, Unjoined(v) PROVE Unjoined(v)'
        <4>1. PICK n \in DOMAIN iv_children : iv_children[n] = v
          BY <1>2, <3>1 DEF Unjoined
        <4>2. n \in DOMAIN iv_children' /\ iv_children'[n] = v
          BY <2>5, <4>1
        <4> QED BY <4>2 DEF Unjoined
      <3>2. Unjoined(w)'
        <4>1. Len(iv_children) + 1 \in DOMAIN iv_children'
          BY <2>5
        <4> QED BY <2>5, <4>1 DEF Unjoined
      <3> QED BY <1>2, <2>1, <2>2, <2>4, <3>1, <3>2, PoolAssumption DEF
         PoolInd, PoolTypes, Moved, Workers, ChildrenFit
    <2> QED BY <1>1, <2>4, <2>6, <2>7, <2>8, <2>9, <2>10 DEF PoolInd
  <1>4. CASE /\ \A w \in Workers : status[w] # "none"
              /\ Call(t, "unlock_sub", "idle")
              /\ UNCHANGED <<status, iv_children>>
    <2>1. PoolLockInd' /\ Moved(t, "start", "idle")
      BY <1>2, <1>4, PoolCallsLock DEF PoolInd, PoolCalls, cvars
    <2>2. PoolTypes'
      BY <1>4 DEF PoolInd, PoolTypes
    <2>3. RolesFit' /\ ItemsInHand'
      BY <1>2, <1>4, <2>1, PoolAssumption DEF PoolInd, Moved, Active,
         Workers, MainPlaces, RolesFit, ItemsInHand
    <2>4. StopsFit'
      BY <1>2, <1>4, <2>1, PoolAssumption DEF PoolInd, Moved, Workers,
         StopsFit, Stopped
    <2>5. ChildrenFit'
      BY <1>2, <1>4, <2>1, PoolAssumption DEF PoolInd, Moved, Workers,
         ChildrenFit, Unjoined
    <2> QED BY <1>1, <2>1, <2>2, <2>3, <2>4, <2>5 DEF PoolInd
  <1> QED BY <1>3, <1>4

(* __shutdown takes the next child, or is done.                            *)
LEMMA PoolJoin ==
    ASSUME PoolInd, NEW t \in Tasks, Join(t)
    PROVE  PoolInd'
  <1> USE DEF Join, LibUnchanged
  <1>1. InOnePlace'
    BY PoolItemsStay DEF PoolInd
  <1>2. pc[t] = "join" /\ t = Main /\ Cont(Main) = "join"
    <2>1. pc[t] = "join" /\ Cont(t) = "join"
      BY DEF At, Cont, WaitLabels, MutexLabels, SignalLabels, BroadcastLabels
    <2> QED BY <2>1 DEF PoolInd, RolesFit, Workers, Active
  <1>3. CASE /\ iv_children # << >>
             /\ child' = Head(iv_children)
             /\ iv_children' = Tail(iv_children)
             /\ Call(t, "unlock_sub", "join_wait")
    <2>1. PoolLockInd' /\ Moved(t, "join", "join_wait")
      BY <1>2, <1>3, PoolCallsLock DEF PoolInd, PoolCalls, cvars
    <2>2. /\ iv_children \in Seq(Workers) /\ iv_children' \in Seq(Workers)
          /\ child' = iv_children[1] /\ child' \in Workers
          /\ Len(iv_children) \in Nat
          /\ DOMAIN iv_children = 1 .. Len(iv_children)
          /\ DOMAIN iv_children' = 1 .. Len(iv_children) - 1
          /\ \A n \in 1 .. Len(iv_children) - 1 :
                iv_children'[n] = iv_children[n + 1]
      BY <1>3, HeadTailProperties, LenProperties DEF PoolInd, PoolTypes
    <2>3. PoolTypes'
      BY <2>2 DEF PoolInd, PoolTypes, Workers
    <2>4. RolesFit' /\ ItemsInHand'
      BY <1>2, <2>1, PoolAssumption DEF PoolInd, Moved, Active, Workers,
         MainPlaces, RolesFit, ItemsInHand
    <2>5. StopsFit'
      BY <1>2, <2>1, PoolAssumption DEF PoolInd, Moved, Workers, StopsFit,
         Stopped
    <2>6. ASSUME NEW v \in Workers, Unjoined(v) PROVE Unjoined(v)'
      <3>1. PICK n \in DOMAIN iv_children : iv_children[n] = v
        BY <1>2, <2>6 DEF Unjoined
      <3>2. CASE n = 1
        BY <1>2, <2>1, <2>2, <3>1, <3>2 DEF Unjoined, Moved
      <3>3. CASE n # 1
        <4>1. n - 1 \in DOMAIN iv_children' /\ (n - 1) + 1 = n
          BY <2>2, <3>3
        <4>2. iv_children'[n - 1] = v
          BY <2>2, <3>1, <4>1
        <4> QED BY <4>1, <4>2 DEF Unjoined
      <3> QED BY <3>2, <3>3
    <2>7. ChildrenFit'
      BY <1>2, <2>1, <2>6, PoolAssumption DEF PoolInd, Moved, Workers,
         ChildrenFit
    <2> QED BY <1>1, <2>1, <2>3, <2>4, <2>5, <2>7 DEF PoolInd
  <1>4. CASE /\ iv_children = << >>
              /\ Call(t, "unlock_sub", "done")
              /\ UNCHANGED <<child, iv_children>>
    <2>1. PoolLockInd' /\ Moved(t, "join", "done")
      BY <1>2, <1>4, PoolCallsLock DEF PoolInd, PoolCalls, cvars
    <2>2. PoolTypes'
      BY <1>4 DEF PoolInd, PoolTypes
    <2>3. RolesFit' /\ ItemsInHand'
      BY <1>2, <1>4, <2>1, PoolAssumption DEF PoolInd, Moved, Active,
         Workers, MainPlaces, RolesFit, ItemsInHand
    <2>4. StopsFit'
      BY <1>2, <1>4, <2>1, PoolAssumption DEF PoolInd, Moved, Workers,
         StopsFit, Stopped
    <2>5. ChildrenFit'
      BY <1>2, <1>4, <2>1, PoolAssumption DEF PoolInd, Moved, Workers,
         ChildrenFit, Unjoined
    <2> QED BY <1>1, <2>1, <2>2, <2>3, <2>4, <2>5 DEF PoolInd
  <1> QED BY <1>3, <1>4

-----------------------------------------------------------------------------
(* A pool that is not started yet.                                         *)
LEMMA PoolInitial == PoolInit => PoolInd
  <1> SUFFICES ASSUME PoolInit PROVE PoolInd
    OBVIOUS
  <1> USE DEF PoolInit
  <1>1. PoolLockInd
    BY DEF PoolLockInd, PoolLibTypes, PoolReturns, PoolMutualExclusion,
       PoolHolds, MutexLabels, CondLabels, PoolLabels, LockLabels,
       UnlockLabels, SignalLabels, BroadcastLabels
  <1>2. \A t \in Tasks : Cont(t) = IF t = Main THEN "idle" ELSE "ended"
    BY DEF Cont, MutexLabels, SignalLabels, BroadcastLabels, WaitLabels
  <1>3. iv_worklist \in Seq(Items) /\ iv_children \in Seq(Workers)
        /\ DOMAIN iv_worklist = {} /\ DOMAIN iv_children = {}
    BY EmptySeq
  <1>4. PoolTypes
    BY <1>3, PoolAssumption DEF PoolTypes
  <1>5. RolesFit /\ ItemsInHand
    BY <1>2, PoolAssumption DEF RolesFit, ItemsInHand, MainPlaces, Active,
       Workers
  <1>6. InOnePlace
    BY <1>3, PoolAssumption DEF InOnePlace, OnList, BeingAdded, BeingRun
  <1>7. StopsFit /\ ChildrenFit
    BY <1>2, PoolAssumption DEF StopsFit, Stopped, ChildrenFit, Workers
  <1> QED BY <1>1, <1>4, <1>5, <1>6, <1>7 DEF PoolInd

(* The pool's invariant is inductive.                                      *)
LEMMA PoolInductive == PoolInd /\ [PoolNext]_allvars => PoolInd'
  <1>1. ASSUME PoolInd, NEW t \in Tasks, __remove(t) PROVE PoolInd'
    BY <1>1, PoolRemoveWait, PoolRemoveStop, PoolRemoveTake DEF __remove
  <1>2. ASSUME PoolInd, NEW t \in Tasks, PoolStep(t) PROVE PoolInd'
    BY <1>1, <1>2, PoolLibStep, PoolInsertPush, PoolInsertEnd, PoolWork,
       PoolEnd, PoolStartChildren, PoolShutdownSet, PoolJoin, PoolJoinWait
       DEF PoolStep
  <1>3. ASSUME PoolInd, PoolNext PROVE PoolInd'
    BY <1>2, <1>3, PoolInsert, PoolCrash, PoolStart, PoolShutdown
       DEF PoolNext
  <1>4. ASSUME PoolInd, UNCHANGED allvars PROVE PoolInd'
    <2> USE <1>4 DEF allvars, vars, mvars, cvars, pvars, wvars
    <2>1. PoolLockInd'
      BY DEF PoolInd, PoolLockInd, PoolLibTypes, PoolReturns,
         PoolMutualExclusion, PoolHolds
    <2>2. \A t : Cont(t)' = Cont(t)
      BY DEF Cont
    <2>3. PoolTypes' /\ InOnePlace'
      BY PoolItemsStay DEF PoolInd, PoolTypes
    <2>4. RolesFit' /\ ItemsInHand'
      BY <2>2 DEF PoolInd, RolesFit, ItemsInHand
    <2>5. StopsFit' /\ ChildrenFit'
      BY <2>2 DEF PoolInd, StopsFit, Stopped, ChildrenFit, Unjoined
    <2> QED BY <2>1, <2>3, <2>4, <2>5 DEF PoolInd
  <1> QED BY <1>3, <1>4

(* An item in one place is counted once.                                   *)
LEMMA PoolCountsItems == PoolInd => EachItemOnce
  <1> SUFFICES ASSUME PoolInd, NEW i \in inserted
               PROVE  Cardinality({n \in DOMAIN iv_worklist :
                                                 iv_worklist[n] = i})
                        + Cardinality({t \in Tasks : adding[t] = i})
                        + Cardinality({w \in Workers : wi[w] = i})
                        + Cardinality({i} \cap executed) = 1
    BY DEF EachItemOnce
  <1>1. i \in Items /\ i # NoItem
    BY PoolAssumption DEF PoolInd, PoolTypes
  <1> DEFINE L == {n \in DOMAIN iv_worklist : iv_worklist[n] = i}
             A == {t \in Tasks : adding[t] = i}
             W == {w \in Workers : wi[w] = i}
             E == {i} \cap executed
  <1>2. /\ OnList(i) => \E n : L = {n}
        /\ ~OnList(i) => L = {}
    <2>1. ASSUME OnList(i) PROVE \E n : L = {n}
      <3>1. PICK n \in DOMAIN iv_worklist : iv_worklist[n] = i
        BY <2>1 DEF OnList
      <3>2. \A u \in DOMAIN iv_worklist : iv_worklist[u] = i => u = n
        BY <3>1 DEF PoolInd, InOnePlace
      <3>3. L = {n}
        BY <3>1, <3>2
      <3> QED BY <3>3
    <2>2. ASSUME ~OnList(i) PROVE L = {}
      BY <2>2 DEF OnList
    <2> QED BY <2>1, <2>2
  <1>3. /\ BeingAdded(i) => \E t : A = {t}
        /\ ~BeingAdded(i) => A = {}
    <2>1. ASSUME BeingAdded(i) PROVE \E t : A = {t}
      <3>1. PICK t \in Tasks : adding[t] = i
        BY <2>1 DEF BeingAdded
      <3>2. \A u \in Tasks : adding[u] = i => u = t
        BY <1>1, <3>1 DEF PoolInd, InOnePlace
      <3>3. A = {t}
        BY <3>1, <3>2
      <3> QED BY <3>3
    <2>2. ASSUME ~BeingAdded(i) PROVE A = {}
      BY <2>2 DEF BeingAdded
    <2> QED BY <2>1, <2>2
  <1>4. /\ BeingRun(i) => \E w : W = {w}
        /\ ~BeingRun(i) => W = {}
    <2>1. ASSUME BeingRun(i) PROVE \E w : W = {w}
      <3>1. PICK w \in Workers : wi[w] = i
        BY <2>1 DEF BeingRun
      <3>2. \A u \in Workers : wi[u] = i => u = w
        BY <1>1, <3>1 DEF PoolInd, InOnePlace
      <3>3. W = {w}
        BY <3>1, <3>2
      <3> QED BY <3>3
    <2>2. ASSUME ~BeingRun(i) PROVE W = {}
      BY <2>2 DEF BeingRun
    <2> QED BY <2>1, <2>2
  <1>5. /\ i \in executed => E = {i}
        /\ i \notin executed => E = {}
    OBVIOUS
  <1> HIDE DEF L, A, W, E
  <1>6. /\ Cardinality(L) = IF OnList(i) THEN 1 ELSE 0
        /\ Cardinality(A) = IF BeingAdded(i) THEN 1 ELSE 0
        /\ Cardinality(W) = IF BeingRun(i) THEN 1 ELSE 0
        /\ Cardinality(E) = IF i \in executed THEN 1 ELSE 0
    BY <1>2, <1>3, <1>4, <1>5, FS_EmptySet, FS_Singleton
  <1>7. /\ OnList(i) \/ BeingAdded(i) \/ BeingRun(i) \/ i \in executed
        /\ OnList(i) => ~BeingAdded(i) /\ ~BeingRun(i) /\ i \notin executed
        /\ BeingAdded(i) => ~BeingRun(i) /\ i \notin executed
        /\ BeingRun(i) => i \notin executed
    BY <1>1 DEF PoolInd, InOnePlace
  <1>8. Cardinality(L) + Cardinality(A) + Cardinality(W) + Cardinality(E) = 1
    BY <1>6, <1>7
  <1> QED BY <1>8 DEF L, A, W, E

(* When __shutdown is done every worker has been joined; if none crashed,  *)
(* none has an item and none left one on the list.                         *)
LEMMA PoolShutdownDone == PoolInd => ShutdownCompletes
  <1> SUFFICES ASSUME PoolInd, pc[Main] = "done"
               PROVE  /\ \A w \in Workers : status[w] \in {"clean", "crashed"}
                      /\ ~l_origError /\ iv_checkChildRc =>
                            executed = inserted
    BY DEF ShutdownCompletes
  <1>1. Cont(Main) = "done"
    BY DEF Cont, MutexLabels, SignalLabels, BroadcastLabels, WaitLabels
  <1>2. \A w \in Workers : ~Unjoined(w)
    BY <1>1, EmptySeq DEF PoolInd, ChildrenFit, Unjoined
  <1>3. \A w \in Workers : status[w] \in {"clean", "crashed"}
    BY <1>1, <1>2 DEF PoolInd, PoolTypes, StopsFit, ChildrenFit
  <1>4. ASSUME ~l_origError, iv_checkChildRc PROVE executed = inserted
    <2>1. \A w \in Workers : status[w] = "clean" /\ Cont(w) = "ended"
      BY <1>2, <1>3, <1>4 DEF PoolInd, ChildrenFit, RolesFit
    <2>2. iv_worklist = << >>
      BY <2>1, PoolAssumption DEF PoolInd, StopsFit, Stopped, Active
    <2>3. \A i \in Items : ~OnList(i)
      BY <2>2, EmptySeq DEF OnList
    <2>4. \A i \in Items : ~BeingAdded(i)
      BY <1>1, <2>1, PoolAssumption DEF PoolInd, ItemsInHand, BeingAdded,
         Workers
    <2>5. \A i \in Items : ~BeingRun(i)
      BY <2>1, PoolAssumption DEF PoolInd, ItemsInHand, BeingRun, Active
    <2> QED BY <2>3, <2>4, <2>5 DEF PoolInd, PoolTypes, InOnePlace
  <1> QED BY <1>3, <1>4

(* No work item is lost and none is run twice, for any number of workers   *)
(* and items, also when items insert items and when workers crash: the     *)
(* property that the run thread_pool checks.                               *)
THEOREM PoolEachItemOnce == PoolSpec => []EachItemOnce
  <1>1. PoolInit => PoolInd
    BY PoolInitial
  <1>2. PoolInd /\ [PoolNext]_allvars => PoolInd'
    BY PoolInductive
  <1>3. PoolInd => EachItemOnce
    BY PoolCountsItems
  <1> QED BY <1>1, <1>2, <1>3, PTL DEF PoolSpec

(* ThreadPool's "shutdown: completes outstanding work and destroys worker  *)
(* threads", when the pool was made to check its children.                 *)
THEOREM PoolShutdownCompletes == PoolSpec => []ShutdownCompletes
  <1>1. PoolInit => PoolInd
    BY PoolInitial
  <1>2. PoolInd /\ [PoolNext]_allvars => PoolInd'
    BY PoolInductive
  <1>3. PoolInd => ShutdownCompletes
    BY PoolShutdownDone
  <1> QED BY <1>1, <1>2, <1>3, PTL DEF PoolSpec
=============================================================================
