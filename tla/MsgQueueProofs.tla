-------------------------- MODULE MsgQueueProofs --------------------------
(***************************************************************************)
(* The message system calls over the scheduler, for any finite sets of     *)
(* CPUs, clients, servers and messages: every task is in one place, a      *)
(* synchronous sender is blocked until the response, and nobody answers    *)
(* its request but the server that has it.  What the calls do to the       *)
(* scheduler follows from the lemmas of SchedulerProofs.                   *)
(***************************************************************************)
EXTENDS MsgQueue, SchedulerProofs

-----------------------------------------------------------------------------
(* Messages                                                                *)

(* The task of a MessagePending is the sender that waits for a response,   *)
(* the server that sent it, or the queue the response is to be sent to.    *)
Waiters == Tasks \cup Queues
Entries == [key : Msgs, task : Waiters]

InM(q, m, t) == OnList(messages[q], Pending(m, t))
InR(q, m, t) == OnList(responses[q], Pending(m, t))

(* The tasks that the message system calls have not blocked.               *)
Ready ==
    {t \in Tasks : /\ calling[t] = NULL
                   /\ \A q \in Queues : ~OnList(waiting[q], t)}

(* The values of the queues, the messages and the tasks' calls.            *)
QueueTypes ==
    /\ messages  \in [Queues -> Seq(Entries)]
    /\ responses \in [Queues -> Seq(Entries)]
    /\ waiting \in [Queues -> Seq(Tasks)]
    /\ sync \subseteq Msgs /\ pseudosync \subseteq Msgs
    /\ owner \in [Msgs -> Tasks \cup {NULL}]
    /\ stage \in [Msgs -> Stages]
    /\ calling \in [Tasks -> Msgs \cup {NULL}]

(* A task that waits for a message waits once, and not for a response.     *)
WaitersInv ==
    /\ \A q \in Queues : NoneTwice(waiting[q])
    /\ \A t \in Tasks : \A q, r \in Queues :
          OnList(waiting[q], t) => /\ calling[t] = NULL
                                   /\ OnList(waiting[r], t) => q = r

(* There is one entry of a message at most in each list.                   *)
EntriesOnce ==
    /\ \A q \in Queues : NoneTwice(messages[q])
    /\ NoneTwice(responses[RequestQ])
    /\ \A m \in Msgs : \A t, u \in Waiters :
          /\ InM(RequestQ, m, t) /\ InM(RequestQ, m, u) => t = u
          /\ InR(RequestQ, m, t) /\ InR(RequestQ, m, u) => t = u
          /\ InM(ReplyQ, m, t) /\ InM(ReplyQ, m, u) => t = u

(* A request that nobody has taken: a synchronous one has its sender's     *)
(* name, or the queue for its response.                                    *)
RequestEntries ==
    \A m \in Msgs : \A t \in Waiters :
        InM(RequestQ, m, t) =>
            /\ stage[m] = "request"
            /\ m \in pseudosync => m \in sync /\ t = ReplyQ
            /\ m \in sync \ pseudosync => t \in Clients /\ calling[t] = m

(* A request that a server has.                                            *)
ServedEntries ==
    \A m \in Msgs : \A t \in Waiters :
        InR(RequestQ, m, t) =>
            /\ stage[m] = "serving"
            /\ m \in pseudosync => t = ReplyQ
            /\ m \notin pseudosync => t \in Clients /\ calling[t] = m

(* A response on the queue that was given for it.                          *)
ReplyEntries ==
    \A m \in Msgs : \A t \in Waiters :
        /\ InM(ReplyQ, m, t) => stage[m] = "reply" /\ t \in Servers
        /\ InR(ReplyQ, m, t) => t \in Servers

EntriesInv == EntriesOnce /\ RequestEntries /\ ServedEntries /\ ReplyEntries

(* Where a message is tells on which list it is.                           *)
StagesInv ==
    /\ \A m \in Msgs : stage[m] = "ready" => m \notin pseudosync
    /\ \A m \in Msgs : stage[m] = "serving" =>
          \E t \in Waiters : InR(RequestQ, m, t)

(* A task in msg_sendrecv has an entry with its name on the request queue. *)
CallersInv ==
    \A t \in Tasks : \A m \in Msgs : calling[t] = m =>
        /\ t \in Clients
        /\ m \in sync \ pseudosync
        /\ InM(RequestQ, m, t) \/ InR(RequestQ, m, t)

(* The scheduler has the tasks that are not blocked, and the queues fit.   *)
MsgInv ==
    /\ Holds(sched, {}, Ready) /\ QueueTypes
    /\ WaitersInv /\ EntriesInv /\ StagesInv /\ CallersInv

-----------------------------------------------------------------------------
(* Messages: every action keeps the invariant.                             *)

(* A pending response is told by its message and its task.                 *)
LEMMA PendingFacts ==
    /\ \A m, n, t, u : Pending(m, t) = Pending(n, u) <=> m = n /\ t = u
    /\ \A m \in Msgs : \A t \in Waiters : Pending(m, t) \in Entries
    /\ \A e \in Entries : /\ e.key \in Msgs /\ e.task \in Waiters
                          /\ e = Pending(e.key, e.task)
  BY DEF Pending, Entries

(* The queues are two, their lists are lists, and nothing is NULL.         *)
LEMMA QueueFacts ==
    ASSUME MsgInv
    PROVE  /\ RequestQ \in Queues /\ ReplyQ \in Queues /\ RequestQ # ReplyQ
           /\ Queues = {RequestQ, ReplyQ}
           /\ NULL \notin Tasks /\ NULL \notin Msgs /\ NULL \notin Waiters
           /\ Tasks \subseteq Waiters /\ Queues \subseteq Waiters
           /\ Servers \subseteq Tasks /\ Clients \subseteq Tasks
           /\ \A t \in Clients : t \notin Servers
           /\ \A q \in Queues : /\ messages[q] \in Seq(Entries)
                                /\ responses[q] \in Seq(Entries)
                                /\ waiting[q] \in Seq(Tasks)
           /\ Ready \subseteq Tasks /\ Idle \notin Tasks
           /\ \A c \in Cpus : /\ sched.current[c] \in Tasks \cup {Idle}
                              /\ sched.current[c] \in Tasks =>
                                    sched.current[c] \in Ready
  <1>1. Holds(sched, {}, Ready) /\ QueueTypes
    BY DEF MsgInv
  <1>2. \A c \in Cpus : /\ sched.current[c] \in Tasks \cup {Idle}
                        /\ sched.current[c] \in Tasks =>
                              sched.current[c] \in Ready
    BY <1>1, Vacated, SchedFields DEF Holds
  <1> QED BY <1>1, <1>2, MsgAssumption, SchedulerAssumption
          DEF QueueTypes, Queues, Waiters, Clients, Ready

(* A message that a task has for itself is on no queue, and nobody's call  *)
(* is about it.                                                            *)
LEMMA NotOnQueues ==
    ASSUME MsgInv, NEW m \in Msgs, stage[m] \in {"free", "ready", "used"}
    PROVE  /\ \A t \in Waiters : /\ ~InM(RequestQ, m, t)
                                 /\ ~InR(RequestQ, m, t)
                                 /\ ~InM(ReplyQ, m, t)
           /\ \A t \in Tasks : calling[t] # m
  <1>1. \A t \in Waiters : /\ ~InM(RequestQ, m, t)
                           /\ ~InR(RequestQ, m, t)
                           /\ ~InM(ReplyQ, m, t)
    BY DEF MsgInv, EntriesInv, EntriesOnce, RequestEntries, ServedEntries,
       ReplyEntries
  <1>2. Tasks \subseteq Waiters
    BY DEF Waiters
  <1> QED BY <1>1, <1>2 DEF MsgInv, CallersInv

(* A step of the scheduler's own.                                          *)
LEMMA KeptBySchedStep ==
    ASSUME MsgInv, NEW c \in Cpus, SchedStep(c) \/ Decrementer(c)
    PROVE  MsgInv'
  <1>1. UNCHANGED <<qvars, uvars>>
    BY DEF SchedStep, Decrementer
  <1>2. \/ TaskYield(c) \/ TimeNanosleep(c) \/ TaskMigrateToMaster(c)
        \/ task_affinity_pin(c) \/ task_affinity_unpin(c)
        \/ kernel_execute_decrementer(c)
    BY DEF SchedStep, Decrementer
  <1>3. Holds(sched, {}, Ready)
    BY DEF MsgInv
  <1>4. Holds(sched', {}, Ready)
    BY <1>2, <1>3, SchedSteps
  <1>5. Ready' = Ready
    BY <1>1 DEF qvars, uvars, Ready
  <1>6. /\ QueueTypes' /\ WaitersInv' /\ EntriesInv' /\ StagesInv'
        /\ CallersInv'
    BY <1>1 DEF qvars, uvars, MsgInv, QueueTypes, WaitersInv, EntriesInv,
       EntriesOnce, RequestEntries, ServedEntries, ReplyEntries, StagesInv,
       CallersInv, InM, InR
  <1> QED BY <1>4, <1>5, <1>6 DEF MsgInv

(* msg_allocate                                                            *)
LEMMA KeptByAllocate ==
    ASSUME MsgInv, NEW c \in Cpus, NEW m \in Msgs, msg_allocate(c, m)
    PROVE  MsgInv'
  <1> DEFINE t == sched.current[c]
  <1>1. /\ t \in Clients /\ stage[m] = "free"
        /\ stage' = [stage EXCEPT ![m] = "ready"]
        /\ owner' = [owner EXCEPT ![m] = t]
        /\ sync' = sync \ {m} /\ pseudosync' = pseudosync \ {m}
        /\ UNCHANGED <<sched, messages, responses, waiting, calling>>
    BY DEF msg_allocate
  <1> HIDE DEF t
  <1>2. QueueTypes /\ QueueTypes'
    BY <1>1, QueueFacts DEF MsgInv, QueueTypes, Stages
  <1>3. Holds(sched', {}, Ready')
    BY <1>1 DEF MsgInv, Ready
  <1>4. WaitersInv'
    BY <1>1 DEF MsgInv, WaitersInv
  <1>5. \A q, n, u : /\ InM(q, n, u)' <=> InM(q, n, u)
                     /\ InR(q, n, u)' <=> InR(q, n, u)
    BY <1>1 DEF InM, InR
  <1>6. \A n \in Msgs : stage'[n] = IF n = m THEN "ready" ELSE stage[n]
    BY <1>1, <1>2 DEF QueueTypes
  <1>7. EntriesInv'
    BY <1>1, <1>5, <1>6 DEF MsgInv, EntriesInv, EntriesOnce, RequestEntries,
       ServedEntries, ReplyEntries
  <1>8. StagesInv'
    BY <1>1, <1>5, <1>6 DEF MsgInv, StagesInv
  <1>9. CallersInv'
    BY <1>1, <1>5, NotOnQueues DEF MsgInv, CallersInv
  <1> QED BY <1>2, <1>3, <1>4, <1>7, <1>8, <1>9 DEF MsgInv

(* msg_free                                                                *)
LEMMA KeptByFree ==
    ASSUME MsgInv, NEW c \in Cpus, NEW m \in Msgs, msg_free(c, m)
    PROVE  MsgInv'
  <1>1. /\ stage[m] \in {"ready", "used"}
        /\ stage' = [stage EXCEPT ![m] = "free"]
        /\ owner' = [owner EXCEPT ![m] = NULL]
        /\ UNCHANGED <<sched, messages, responses, waiting, calling, sync,
                       pseudosync>>
    BY DEF msg_free, qvars
  <1>2. QueueTypes /\ QueueTypes'
    BY <1>1, QueueFacts DEF MsgInv, QueueTypes, Stages
  <1>3. Holds(sched', {}, Ready')
    BY <1>1 DEF MsgInv, Ready
  <1>4. WaitersInv' /\ CallersInv'
    BY <1>1 DEF MsgInv, WaitersInv, CallersInv, InM, InR
  <1>5. \A q, n, u : /\ InM(q, n, u)' <=> InM(q, n, u)
                     /\ InR(q, n, u)' <=> InR(q, n, u)
    BY <1>1 DEF InM, InR
  <1>6. \A n \in Msgs : stage'[n] = IF n = m THEN "free" ELSE stage[n]
    BY <1>1, <1>2 DEF QueueTypes
  <1>7. EntriesInv'
    BY <1>1, <1>5, <1>6 DEF MsgInv, EntriesInv, EntriesOnce, RequestEntries,
       ServedEntries, ReplyEntries
  <1>8. StagesInv'
    BY <1>1, <1>5, <1>6 DEF MsgInv, StagesInv
  <1> QED BY <1>2, <1>3, <1>4, <1>7, <1>8 DEF MsgInv

(* All tasks are on the run queue, each of them once, and no queue has a   *)
(* message.                                                                *)
LEMMA MsgInit ==
    ASSUME Init PROVE MsgInv
  <1>6. << >> \in Seq(Tasks) /\ NoneTwice(<< >>) /\ \A t : ~OnList(<< >>, t)
    BY ListEmpty
  <1>11. Holds(sched, {}, Tasks)
    BY SchedulerStart DEF Init
  <1>12. /\ messages  = [r \in Queues |-> << >>]
         /\ responses = [r \in Queues |-> << >>]
         /\ waiting   = [r \in Queues |-> << >>]
         /\ sync = {} /\ pseudosync = {}
         /\ owner   = [m \in Msgs |-> NULL]
         /\ stage   = [m \in Msgs |-> "free"]
         /\ calling = [t \in Tasks |-> NULL]
    BY DEF Init
  <1>13. Ready = Tasks
    BY <1>6, <1>12 DEF Ready
  <1>14. << >> \in Seq(Entries)
    BY ListEmpty
  <1>15. QueueTypes
    BY <1>6, <1>12, <1>14 DEF QueueTypes, Stages
  <1>16. WaitersInv
    BY <1>6, <1>12 DEF WaitersInv
  <1>17. /\ \A r \in Queues : \A n, u : ~InM(r, n, u) /\ ~InR(r, n, u)
         /\ RequestQ \in Queues /\ ReplyQ \in Queues
    BY <1>6, <1>12 DEF InM, InR, Queues
  <1>18. EntriesInv
    BY <1>6, <1>12, <1>17 DEF EntriesInv, EntriesOnce, RequestEntries,
       ServedEntries, ReplyEntries
  <1>19. StagesInv /\ CallersInv
    BY <1>12, MsgAssumption DEF StagesInv, CallersInv
  <1> QED BY <1>11, <1>13, <1>15, <1>16, <1>18, <1>19 DEF MsgInv

(* A task becomes a waiter of a queue.                                     *)
LEMMA WaiterJoins ==
    ASSUME MsgInv, NEW q \in Queues, NEW t \in Ready,
           waiting' = [waiting EXCEPT ![q] = Append(@, t)]
    PROVE  /\ waiting' \in [Queues -> Seq(Tasks)]
           /\ \A r \in Queues : NoneTwice(waiting'[r])
           /\ \A r \in Queues : \A u :
                 OnList(waiting'[r], u) <=> OnList(waiting[r], u)
                                               \/ (r = q /\ u = t)
  <1>1. /\ waiting \in [Queues -> Seq(Tasks)] /\ t \in Tasks
        /\ \A r \in Queues : waiting[r] \in Seq(Tasks) /\ NoneTwice(waiting[r])
        /\ ~OnList(waiting[q], t)
    BY DEF MsgInv, QueueTypes, WaitersInv, Ready
  <1>2. /\ Append(waiting[q], t) \in Seq(Tasks)
        /\ NoneTwice(Append(waiting[q], t))
        /\ \A u : OnList(Append(waiting[q], t), u)
                     <=> OnList(waiting[q], u) \/ u = t
    BY <1>1, ListAppend
  <1>3. \A r \in Queues : waiting'[r] = IF r = q THEN Append(waiting[q], t)
                                        ELSE waiting[r]
    BY <1>1
  <1> QED BY <1>1, <1>2, <1>3

(* The first waiter of a queue leaves it.                                  *)
LEMMA WaiterLeaves ==
    ASSUME MsgInv, NEW q \in Queues, waiting[q] # << >>,
           waiting' = [waiting EXCEPT ![q] = Tail(@)]
    PROVE  /\ Head(waiting[q]) \in Tasks /\ Head(waiting[q]) \notin Ready
           /\ calling[Head(waiting[q])] = NULL
           /\ waiting' \in [Queues -> Seq(Tasks)]
           /\ \A r \in Queues : NoneTwice(waiting'[r])
           /\ \A r \in Queues : \A u :
                 OnList(waiting'[r], u)
                    <=> OnList(waiting[r], u) /\ u # Head(waiting[q])
  <1> DEFINE h == Head(waiting[q])
             rest == Tail(waiting[q])
  <1>1. /\ waiting \in [Queues -> Seq(Tasks)]
        /\ \A r \in Queues : waiting[r] \in Seq(Tasks) /\ NoneTwice(waiting[r])
    BY DEF MsgInv, QueueTypes, WaitersInv
  <1>2. /\ h \in Tasks /\ OnList(waiting[q], h) /\ rest \in Seq(Tasks)
        /\ NoneTwice(rest)
        /\ \A u : OnList(rest, u) <=> OnList(waiting[q], u) /\ u # h
    BY <1>1, ListTail
  <1>3. \A r \in Queues : waiting'[r] = IF r = q THEN rest ELSE waiting[r]
    BY <1>1
  <1>4. waiting' \in [Queues -> Seq(Tasks)]
    BY <1>1, <1>2
  <1> HIDE DEF h, rest
  <1>5. /\ calling[h] = NULL /\ h \notin Ready
        /\ \A r \in Queues : OnList(waiting[r], h) => r = q
    BY <1>2 DEF MsgInv, WaitersInv, Ready
  <1>6. \A r \in Queues : NoneTwice(waiting'[r])
    BY <1>1, <1>2, <1>3
  <1>7. ASSUME NEW r \in Queues, NEW u
        PROVE  OnList(waiting'[r], u) <=> OnList(waiting[r], u) /\ u # h
    BY <1>2, <1>3, <1>5
  <1> QED BY <1>2, <1>4, <1>5, <1>6, <1>7 DEF h

(* A message is put on a queue.                                            *)
LEMMA MessagePut ==
    ASSUME MsgInv, NEW q \in Queues, NEW m \in Msgs, NEW t \in Waiters,
           messages' = [messages EXCEPT ![q] = Append(@, Pending(m, t))],
           ~InM(q, m, t)
    PROVE  /\ messages' \in [Queues -> Seq(Entries)]
           /\ \A r \in Queues : NoneTwice(messages'[r])
           /\ \A r \in Queues : \A n, u :
                 InM(r, n, u)' <=> InM(r, n, u) \/ (r = q /\ n = m /\ u = t)
  <1> DEFINE e == Pending(m, t)
             new == Append(messages[q], e)
  <1>1. /\ messages \in [Queues -> Seq(Entries)] /\ e \in Entries
        /\ \A r \in Queues : messages[r] \in Seq(Entries)
                                /\ NoneTwice(messages[r])
        /\ ~OnList(messages[q], e)
        /\ \A n, u : Pending(n, u) = e <=> n = m /\ u = t
    BY PendingFacts DEF MsgInv, QueueTypes, EntriesInv, EntriesOnce, InM
  <1>2. messages' = [messages EXCEPT ![q] = new]
    BY Zenon
  <1> HIDE DEF e
  <1>3. /\ new \in Seq(Entries) /\ NoneTwice(new)
        /\ \A d : OnList(new, d) <=> OnList(messages[q], d) \/ d = e
    BY <1>1, ListAppend
  <1> HIDE DEF new
  <1>4. \A r \in Queues : messages'[r] = IF r = q THEN new ELSE messages[r]
    BY <1>1, <1>2
  <1>5. messages' \in [Queues -> Seq(Entries)]
    BY <1>1, <1>2, <1>3
  <1>6. \A r \in Queues : NoneTwice(messages'[r])
    BY <1>1, <1>3, <1>4
  <1>7. ASSUME NEW r \in Queues, NEW n, NEW u
        PROVE  InM(r, n, u)' <=> InM(r, n, u) \/ (r = q /\ n = m /\ u = t)
    BY <1>1, <1>3, <1>4 DEF InM
  <1> QED BY <1>5, <1>6, <1>7

(* The first message of a queue is taken off.                              *)
LEMMA MessageTaken ==
    ASSUME MsgInv, NEW q \in Queues, messages[q] # << >>,
           messages' = [messages EXCEPT ![q] = Tail(@)]
    PROVE  /\ Head(messages[q]) \in Entries
           /\ InM(q, Head(messages[q]).key, Head(messages[q]).task)
           /\ messages' \in [Queues -> Seq(Entries)]
           /\ \A r \in Queues : NoneTwice(messages'[r])
           /\ \A r \in Queues : \A n, u :
                 InM(r, n, u)' <=> /\ InM(r, n, u)
                                   /\ ~(r = q /\ Pending(n, u)
                                                    = Head(messages[q]))
  <1> DEFINE e == Head(messages[q])
             rest == Tail(messages[q])
  <1>1. /\ messages \in [Queues -> Seq(Entries)]
        /\ \A r \in Queues : messages[r] \in Seq(Entries)
                                /\ NoneTwice(messages[r])
    BY DEF MsgInv, QueueTypes, EntriesInv, EntriesOnce
  <1>2. /\ e \in Entries /\ OnList(messages[q], e) /\ rest \in Seq(Entries)
        /\ NoneTwice(rest)
        /\ \A d : OnList(rest, d) <=> OnList(messages[q], d) /\ d # e
    BY <1>1, ListTail
  <1>3. messages' = [messages EXCEPT ![q] = rest]
    BY Zenon
  <1> HIDE DEF e, rest
  <1>4. \A r \in Queues : messages'[r] = IF r = q THEN rest ELSE messages[r]
    BY <1>1, <1>3
  <1>5. messages' \in [Queues -> Seq(Entries)]
    BY <1>1, <1>2, <1>3
  <1>6. \A r \in Queues : NoneTwice(messages'[r])
    BY <1>1, <1>2, <1>4
  <1>7. ASSUME NEW r \in Queues, NEW n, NEW u
        PROVE  InM(r, n, u)' <=> InM(r, n, u) /\ ~(r = q /\ Pending(n, u) = e)
    BY <1>1, <1>2, <1>4 DEF InM
  <1>8. InM(q, e.key, e.task)
    BY <1>2, PendingFacts DEF InM
  <1> QED BY <1>2, <1>5, <1>6, <1>7, <1>8 DEF e

(* A response becomes pending.                                             *)
LEMMA ResponsePut ==
    ASSUME MsgInv, NEW q \in Queues, NEW m \in Msgs, NEW t \in Waiters,
           responses' = [responses EXCEPT ![q] = <<Pending(m, t)>> \o @],
           q = RequestQ => ~InR(q, m, t)
    PROVE  /\ responses' \in [Queues -> Seq(Entries)]
           /\ NoneTwice(responses'[RequestQ])
           /\ \A r \in Queues : \A n, u :
                 InR(r, n, u)' <=> InR(r, n, u) \/ (r = q /\ n = m /\ u = t)
  <1> DEFINE e == Pending(m, t)
             one == <<e>>
             new == one \o responses[q]
  <1>1. /\ responses \in [Queues -> Seq(Entries)] /\ e \in Entries
        /\ \A r \in Queues : responses[r] \in Seq(Entries)
        /\ NoneTwice(responses[RequestQ])
        /\ q = RequestQ => ~OnList(responses[q], e)
        /\ \A n, u : Pending(n, u) = e <=> n = m /\ u = t
        /\ RequestQ \in Queues
    BY PendingFacts DEF MsgInv, QueueTypes, EntriesInv, EntriesOnce, InR,
       Queues
  <1>2. responses' = [responses EXCEPT ![q] = new]
    BY Zenon
  <1> HIDE DEF e
  <1>3. /\ one \in Seq(Entries) /\ NoneTwice(one)
        /\ \A d : OnList(one, d) <=> d = e
    BY <1>1, ListOne
  <1> HIDE DEF one
  <1>4. /\ new \in Seq(Entries)
        /\ \A d : OnList(new, d) <=> OnList(responses[q], d) \/ d = e
        /\ q = RequestQ => NoneTwice(new)
    <2>1. responses[q] \in Seq(Entries)
      BY <1>1
    <2>2. /\ new \in Seq(Entries)
          /\ \A d :
                OnList(new, d) <=> OnList(one, d) \/ OnList(responses[q], d)
          /\ NoneTwice(one) /\ NoneTwice(responses[q])
                /\ (\A d : ~(OnList(one, d) /\ OnList(responses[q], d)))
                => NoneTwice(new)
      BY <1>3, <2>1, ListConcat
    <2> QED BY <1>1, <1>3, <2>2
  <1> HIDE DEF new
  <1>5. \A r \in Queues : responses'[r] = IF r = q THEN new ELSE responses[r]
    BY <1>1, <1>2
  <1>6. responses' \in [Queues -> Seq(Entries)]
    BY <1>1, <1>2, <1>4
  <1>7. NoneTwice(responses'[RequestQ])
    BY <1>1, <1>4, <1>5
  <1>8. ASSUME NEW r \in Queues, NEW n, NEW u
        PROVE  InR(r, n, u)' <=> InR(r, n, u) \/ (r = q /\ n = m /\ u = t)
    <2>1. Pending(n, u) = e <=> n = m /\ u = t
      BY <1>1
    <2>2. /\ responses'[r] = IF r = q THEN new ELSE responses[r]
          /\ OnList(new, Pending(n, u))
                <=> OnList(responses[q], Pending(n, u)) \/ Pending(n, u) = e
      BY <1>4, <1>5
    <2> QED BY <2>1, <2>2 DEF InR
  <1> QED BY <1>6, <1>7, <1>8

(* A pending response is taken off a list of them.                         *)
LEMMA EntryErased ==
    ASSUME NEW S, NEW q \in Seq(S), NEW n \in DOMAIN q, NoneTwice(q)
    PROVE  /\ Erase(q, n) \in Seq(S) /\ NoneTwice(Erase(q, n))
           /\ \A u : OnList(Erase(q, n), u) <=> OnList(q, u) /\ u # q[n]
  BY ListErase DEF Erase

(* A pending response is taken off.                                        *)
LEMMA ResponseErased ==
    ASSUME MsgInv, NEW n \in DOMAIN responses[RequestQ],
           responses' = [responses EXCEPT ![RequestQ] = Erase(@, n)]
    PROVE  /\ responses[RequestQ][n] \in Entries
           /\ InR(RequestQ, responses[RequestQ][n].key,
                  responses[RequestQ][n].task)
           /\ responses' \in [Queues -> Seq(Entries)]
           /\ NoneTwice(responses'[RequestQ])
           /\ \A r \in Queues : \A k, u :
                 InR(r, k, u)' <=> /\ InR(r, k, u)
                                   /\ ~(r = RequestQ /\ Pending(k, u)
                                             = responses[RequestQ][n])
  <1> DEFINE q == RequestQ
             e == responses[q][n]
             new == Erase(responses[q], n)
  <1>1. /\ responses \in [Queues -> Seq(Entries)] /\ q \in Queues
        /\ responses[q] \in Seq(Entries) /\ NoneTwice(responses[q])
    BY DEF MsgInv, QueueTypes, EntriesInv, EntriesOnce, Queues
  <1>2. /\ new \in Seq(Entries) /\ NoneTwice(new)
        /\ \A d : OnList(new, d) <=> OnList(responses[q], d) /\ d # e
    BY <1>1, EntryErased
  <1>3. e \in Entries /\ OnList(responses[q], e)
    BY <1>1, ListPlaces DEF OnList
  <1>4. responses' = [responses EXCEPT ![q] = new]
    BY Zenon
  <1> HIDE DEF e, new
  <1>5. \A r \in Queues : responses'[r] = IF r = q THEN new ELSE responses[r]
    BY <1>1, <1>4
  <1>6. responses' \in [Queues -> Seq(Entries)]
    BY <1>1, <1>2, <1>4
  <1>7. ASSUME NEW r \in Queues, NEW k, NEW u
        PROVE  InR(r, k, u)' <=> InR(r, k, u) /\ ~(r = q /\ Pending(k, u) = e)
    BY <1>1, <1>2, <1>5 DEF InR
  <1>8. InR(q, e.key, e.task)
    BY <1>3, PendingFacts DEF InR
  <1> QED BY <1>1, <1>2, <1>3, <1>5, <1>6, <1>7, <1>8 DEF e

(* msg_send                                                                *)
LEMMA KeptBySend ==
    ASSUME MsgInv, ~ReuseBuffers, NEW c \in Cpus, NEW m \in Msgs,
           MsgSend(c, m)
    PROVE  MsgInv'
  <1> DEFINE t == sched.current[c]
             q == RequestQ
  <1>1. /\ t \in Clients /\ stage[m] = "ready"
        /\ sync' = sync \ {m}
        /\ UNCHANGED <<responses, pseudosync, calling>>
    BY DEF MsgSend, MaySend
  <1>2. \/ /\ waiting[q] = << >>
           /\ messages' = [messages EXCEPT ![q] = Append(@, Pending(m, t))]
           /\ owner' = [owner EXCEPT ![m] = NULL]
           /\ stage' = [stage EXCEPT ![m] = "request"]
           /\ UNCHANGED <<sched, waiting>>
        \/ /\ waiting[q] # << >>
           /\ waiting' = [waiting EXCEPT ![q] = Tail(@)]
           /\ owner' = [owner EXCEPT ![m] = Head(waiting[q])]
           /\ stage' = [stage EXCEPT ![m] = "ready"]
           /\ sched' = addTask(sched, Head(waiting[q]))
           /\ UNCHANGED messages
    BY DEF MsgSend
  <1>3. /\ QueueTypes /\ WaitersInv /\ EntriesInv /\ StagesInv /\ CallersInv
        /\ Holds(sched, {}, Ready)
    BY DEF MsgInv
  <1>4. /\ q \in Queues /\ t \in Tasks /\ t \in Waiters /\ q # ReplyQ
        /\ Tasks \subseteq Waiters /\ RequestQ \in Queues /\ ReplyQ \in Queues
    BY <1>1, QueueFacts
  <1>5. /\ \A u \in Waiters : /\ ~InM(RequestQ, m, u)
                              /\ ~InR(RequestQ, m, u)
                              /\ ~InM(ReplyQ, m, u)
        /\ \A u \in Tasks : calling[u] # m
        /\ m \notin pseudosync
    BY <1>1, <1>3, NotOnQueues DEF StagesInv
  <1>6. \A r, n, u : InR(r, n, u)' <=> InR(r, n, u)
    BY <1>1 DEF InR
  <1> HIDE DEF t
  <1>7. CASE /\ messages' = [messages EXCEPT ![q] = Append(@, Pending(m, t))]
             /\ owner' = [owner EXCEPT ![m] = NULL]
             /\ stage' = [stage EXCEPT ![m] = "request"]
             /\ UNCHANGED <<sched, waiting>>
    <2>1. /\ messages' \in [Queues -> Seq(Entries)]
          /\ \A r \in Queues : NoneTwice(messages'[r])
          /\ \A r \in Queues : \A n, u :
                InM(r, n, u)' <=> InM(r, n, u) \/ (r = q /\ n = m /\ u = t)
      BY <1>4, <1>5, <1>7, MessagePut
    <2>2. QueueTypes'
      BY <1>1, <1>3, <1>7, <2>1 DEF QueueTypes, Stages
    <2>3. \A n \in Msgs : stage'[n] = IF n = m THEN "request" ELSE stage[n]
      BY <1>3, <1>7 DEF QueueTypes
    <2>4. Holds(sched', {}, Ready')
      BY <1>1, <1>3, <1>7 DEF Ready
    <2>5. WaitersInv'
      BY <1>1, <1>3, <1>7 DEF WaitersInv
    <2>6. EntriesInv'
      <3>1. EntriesOnce'
        BY <1>1, <1>3, <1>4, <1>5, <1>6, <2>1 DEF EntriesInv, EntriesOnce
      <3>2. RequestEntries'
        BY <1>1, <1>3, <1>4, <1>5, <2>1, <2>3 DEF EntriesInv, RequestEntries
      <3>3. ServedEntries' /\ ReplyEntries'
        BY <1>1, <1>3, <1>4, <1>5, <1>6, <2>1, <2>3
           DEF EntriesInv, ServedEntries, ReplyEntries
      <3> QED BY <3>1, <3>2, <3>3 DEF EntriesInv
    <2>7. StagesInv'
      BY <1>1, <1>3, <1>6, <2>3 DEF StagesInv
    <2>8. CallersInv'
      BY <1>1, <1>3, <1>4, <1>5, <1>6, <2>1 DEF CallersInv
    <2> QED BY <2>2, <2>4, <2>5, <2>6, <2>7, <2>8 DEF MsgInv
  <1>8. CASE /\ waiting[q] # << >>
             /\ waiting' = [waiting EXCEPT ![q] = Tail(@)]
             /\ owner' = [owner EXCEPT ![m] = Head(waiting[q])]
             /\ stage' = [stage EXCEPT ![m] = "ready"]
             /\ sched' = addTask(sched, Head(waiting[q]))
             /\ UNCHANGED messages
    <2> DEFINE h == Head(waiting[q])
    <2>1. /\ h \in Tasks /\ h \notin Ready /\ calling[h] = NULL
          /\ waiting' \in [Queues -> Seq(Tasks)]
          /\ \A r \in Queues : NoneTwice(waiting'[r])
          /\ \A r \in Queues : \A u :
                OnList(waiting'[r], u) <=> OnList(waiting[r], u) /\ u # h
      BY <1>4, <1>8, WaiterLeaves
    <2>2. /\ owner' = [owner EXCEPT ![m] = h]
          /\ stage' = [stage EXCEPT ![m] = "ready"]
          /\ sched' = addTask(sched, h) /\ messages' = messages
      BY <1>8
    <2> HIDE DEF h
    <2>3. QueueTypes'
      BY <1>1, <1>3, <2>1, <2>2 DEF QueueTypes, Stages
    <2>4. Ready' = Ready \cup {h}
      BY <1>1, <2>1 DEF Ready
    <2>5. Holds(sched', {}, Ready')
      BY <1>3, <2>1, <2>2, <2>4, AddTask
    <2>6. WaitersInv'
      BY <1>1, <1>3, <2>1 DEF WaitersInv
    <2>7. \A n \in Msgs : stage'[n] = stage[n]
      BY <1>1, <1>3, <2>2 DEF QueueTypes
    <2>8. \A r, n, u : InM(r, n, u)' <=> InM(r, n, u)
      BY <2>2 DEF InM
    <2>9. EntriesInv'
      BY <1>1, <1>3, <1>5, <1>6, <2>2, <2>7, <2>8 DEF EntriesInv,
         EntriesOnce, RequestEntries, ServedEntries, ReplyEntries
    <2>10. StagesInv'
      BY <1>1, <1>3, <1>6, <2>7 DEF StagesInv
    <2>11. CallersInv'
      BY <1>1, <1>3, <1>5, <1>6, <2>8 DEF CallersInv
    <2> QED BY <2>3, <2>5, <2>6, <2>9, <2>10, <2>11 DEF MsgInv
  <1> QED BY <1>2, <1>7, <1>8

(* msg_wait: a server's on RequestQ, a client's on ReplyQ                  *)
LEMMA KeptByWait ==
    ASSUME MsgInv, NEW c \in Cpus, NEW q \in Queues, MsgWait(c, q)
    PROVE  MsgInv'
  <1> DEFINE t == sched.current[c]
             mp == Head(messages[q])
             m  == mp.key
  <1>1. t # Idle /\ UNCHANGED <<sync, pseudosync, calling>>
    BY DEF MsgWait
  <1>2. \/ /\ waiting' = [waiting EXCEPT ![q] = Append(@, t)]
           /\ sched' = setNextRunnable(sched, c)
           /\ UNCHANGED <<messages, responses, owner, stage>>
        \/ /\ messages[q] # << >>
           /\ messages' = [messages EXCEPT ![q] = Tail(@)]
           /\ responses' = IF m \in sync
                           THEN [responses EXCEPT ![q] = <<mp>> \o @]
                           ELSE responses
           /\ owner' = [owner EXCEPT ![m] = t]
           /\ stage' = [stage EXCEPT ![m] =
                           CASE @ = "reply" -> "used"
                             [] @ = "request" /\ m \in sync -> "serving"
                             [] OTHER -> "ready"]
           /\ UNCHANGED <<sched, waiting>>
    BY Zenon DEF MsgWait
  <1>3. /\ QueueTypes /\ WaitersInv /\ EntriesInv /\ StagesInv /\ CallersInv
        /\ Holds(sched, {}, Ready)
    BY DEF MsgInv
  <1>4. /\ t \in Tasks /\ t \in Waiters /\ t \in Ready
        /\ Tasks \subseteq Waiters /\ RequestQ \in Queues /\ ReplyQ \in Queues
        /\ RequestQ # ReplyQ /\ Queues = {RequestQ, ReplyQ}
    BY <1>1, QueueFacts
  <1>5. CASE /\ waiting' = [waiting EXCEPT ![q] = Append(@, t)]
             /\ sched' = setNextRunnable(sched, c)
             /\ UNCHANGED <<messages, responses, owner, stage>>
    <2>1. /\ waiting' \in [Queues -> Seq(Tasks)]
          /\ \A r \in Queues : NoneTwice(waiting'[r])
          /\ \A r \in Queues : \A u :
                OnList(waiting'[r], u) <=> OnList(waiting[r], u)
                                              \/ (r = q /\ u = t)
      <3> HIDE DEF t
      <3> QED BY <1>4, <1>5, WaiterJoins
    <2>2. QueueTypes'
      BY <1>1, <1>3, <1>5, <2>1 DEF QueueTypes
    <2>3. Ready' = Ready \ {t}
      BY <1>1, <2>1 DEF Ready
    <2>4. Holds(sched, {c}, Ready \ {t})
      BY <1>3, Vacated
    <2>5. Holds(sched', {}, Ready')
      BY <1>5, <2>3, <2>4, NextRunnable
    <2> HIDE DEF t
    <2>6. WaitersInv'
      BY <1>1, <1>3, <1>4, <2>1 DEF WaitersInv, Ready
    <2>7. EntriesInv' /\ StagesInv' /\ CallersInv'
      BY <1>1, <1>3, <1>5 DEF EntriesInv, EntriesOnce, RequestEntries,
         ServedEntries, ReplyEntries, StagesInv, CallersInv, InM, InR
    <2> QED BY <2>2, <2>5, <2>6, <2>7 DEF MsgInv
  <1>6. CASE /\ messages[q] # << >>
             /\ messages' = [messages EXCEPT ![q] = Tail(@)]
             /\ responses' = IF m \in sync
                             THEN [responses EXCEPT ![q] = <<mp>> \o @]
                             ELSE responses
             /\ owner' = [owner EXCEPT ![m] = t]
             /\ stage' = [stage EXCEPT ![m] =
                             CASE @ = "reply" -> "used"
                               [] @ = "request" /\ m \in sync -> "serving"
                               [] OTHER -> "ready"]
             /\ UNCHANGED <<sched, waiting>>
    <2>1. /\ mp \in Entries /\ InM(q, m, mp.task)
          /\ messages' \in [Queues -> Seq(Entries)]
          /\ \A r \in Queues : NoneTwice(messages'[r])
          /\ \A r \in Queues : \A n, u :
                InM(r, n, u)' <=> InM(r, n, u)
                                     /\ ~(r = q /\ Pending(n, u) = mp)
      BY <1>6, MessageTaken
    <2>2. PICK k \in Msgs, w \in Waiters :
             /\ m = k /\ mp.task = w /\ mp = Pending(k, w)
             /\ \A n, u : Pending(n, u) = mp <=> n = k /\ u = w
      BY <2>1, PendingFacts
    <2>3. \A r \in Queues : \A n, u :
             InM(r, n, u)' <=> InM(r, n, u) /\ ~(r = q /\ n = k /\ u = w)
      BY <2>1, <2>2
    <2>4. IF k \in sync
          THEN responses' = [responses EXCEPT ![q] = <<Pending(k, w)>> \o @]
          ELSE responses' = responses
      BY <1>6, <2>2, Zenon
    <2> DEFINE new == CASE stage[k] = "reply" -> "used"
                        [] stage[k] = "request" /\ k \in sync -> "serving"
                        [] OTHER -> "ready"
    <2>5. stage' = [stage EXCEPT ![k] = new]
      BY <1>6, <2>2, Zenon
    <2>6. /\ stage[k] = IF q = RequestQ THEN "request" ELSE "reply"
          /\ q = ReplyQ => w \in Servers
      BY <1>3, <1>4, <2>1, <2>2 DEF EntriesInv, EntriesOnce, RequestEntries,
         ServedEntries, ReplyEntries
    <2>7. new = IF q = ReplyQ THEN "used"
                ELSE IF k \in sync THEN "serving" ELSE "ready"
      BY <1>4, <2>6
    <2>8. UNCHANGED <<sched, waiting>> /\ owner' = [owner EXCEPT ![k] = t]
      BY <1>6, <2>2
    <2> HIDE DEF new, m, mp, t
    <2>9. \A n \in Msgs : stage'[n] = IF n = k THEN new ELSE stage[n]
      BY <1>3, <2>2, <2>5 DEF QueueTypes
    <2>10. q = RequestQ => ~InR(q, k, w)
      BY <1>3, <2>2, <2>6 DEF EntriesInv, EntriesOnce, RequestEntries,
         ServedEntries, ReplyEntries
    <2>11. /\ q = RequestQ => \A u \in Waiters : ~InR(q, k, u)
           /\ \A u \in Waiters : InM(q, k, u) => u = w
      BY <1>3, <1>4, <2>1, <2>2, <2>6
         DEF EntriesInv, EntriesOnce, ServedEntries
    <2>12. /\ responses' \in [Queues -> Seq(Entries)]
           /\ NoneTwice(responses'[RequestQ])
           /\ \A r \in Queues : \A n, u :
                 InR(r, n, u)' <=> \/ InR(r, n, u)
                                   \/ k \in sync /\ r = q /\ n = k /\ u = w
      <3>1. CASE k \in sync
        BY <2>2, <2>4, <2>10, <3>1, ResponsePut
      <3>2. CASE k \notin sync
        <4>1. responses' = responses
          BY <2>4, <3>2
        <4> QED BY <1>3, <3>2, <4>1 DEF QueueTypes, EntriesInv, EntriesOnce,
           RequestEntries, ServedEntries, ReplyEntries, InR
      <3> QED BY <3>1, <3>2
    <2>13. QueueTypes'
      BY <1>1, <1>3, <1>4, <2>1, <2>2, <2>5, <2>7, <2>8, <2>12
         DEF QueueTypes, Stages
    <2>14. Holds(sched', {}, Ready')
      BY <1>1, <1>3, <2>8 DEF Ready
    <2>15. WaitersInv'
      BY <1>1, <1>3, <2>8 DEF WaitersInv
    <2>16. EntriesInv'
      <3>1. EntriesOnce'
        BY <1>3, <1>4, <2>1, <2>2, <2>3, <2>10, <2>11, <2>12
           DEF EntriesInv, EntriesOnce
      <3>2. RequestEntries'
        BY <1>1, <1>3, <1>4, <2>1, <2>2, <2>3, <2>6, <2>9, <2>11
           DEF EntriesInv, EntriesOnce, RequestEntries
      <3>3. ServedEntries'
        BY <1>1, <1>3, <1>4, <2>1, <2>2, <2>6, <2>7, <2>9, <2>12
           DEF EntriesInv, RequestEntries, ServedEntries
      <3>4. ReplyEntries'
        BY <1>1, <1>3, <1>4, <2>1, <2>2, <2>3, <2>6, <2>9, <2>11, <2>12
           DEF EntriesInv, EntriesOnce, ReplyEntries
      <3> QED BY <3>1, <3>2, <3>3, <3>4 DEF EntriesInv
    <2>17. StagesInv'
      <3>1. ASSUME k \in sync, q = RequestQ
            PROVE  InR(RequestQ, k, w)'
        BY <1>4, <2>12, <3>1
      <3>2. \A n \in Msgs : \A u \in Waiters :
               InR(RequestQ, n, u) => InR(RequestQ, n, u)'
        BY <1>4, <2>12
      <3>3. q = RequestQ /\ k \notin sync => k \notin pseudosync
        BY <1>3, <2>1, <2>2 DEF EntriesInv, EntriesOnce, RequestEntries,
           ServedEntries, ReplyEntries
      <3> QED BY <1>1, <1>3, <1>4, <2>2, <2>7, <2>9, <3>1, <3>2, <3>3
              DEF StagesInv
    <2>18. CallersInv'
      <3> SUFFICES ASSUME NEW u \in Tasks, NEW n \in Msgs, calling'[u] = n
                   PROVE  /\ u \in Clients
                          /\ n \in sync' \ pseudosync'
                          /\ InM(RequestQ, n, u)' \/ InR(RequestQ, n, u)'
        BY DEF CallersInv
      <3>1. /\ u \in Clients /\ n \in sync \ pseudosync
            /\ InM(RequestQ, n, u) \/ InR(RequestQ, n, u)
        BY <1>1, <1>3 DEF CallersInv
      <3>2. InM(RequestQ, n, u)' \/ InR(RequestQ, n, u)'
        BY <1>4, <2>3, <2>12, <3>1
      <3> QED BY <1>1, <3>1, <3>2
    <2> QED BY <2>13, <2>14, <2>15, <2>16, <2>17, <2>18 DEF MsgInv
  <1> QED BY <1>2, <1>5, <1>6

(* msg_sendrecv and msg_sendrecv_noblk                                     *)
LEMMA KeptBySendRecv ==
    ASSUME MsgInv, ~ReuseBuffers, NEW c \in Cpus, NEW m \in Msgs,
           NEW q2 \in {NULL, ReplyQ}, MsgSendRecv(c, m, q2)
    PROVE  MsgInv'
  <1> DEFINE q == RequestQ
  <1>1. PICK t \in Clients : t = sched.current[c]
    BY DEF MsgSendRecv, MaySend
  <1>2. /\ QueueTypes /\ WaitersInv /\ EntriesInv /\ StagesInv /\ CallersInv
        /\ Holds(sched, {}, Ready)
    BY DEF MsgInv
  <1>3. /\ t \in Tasks /\ t \in Ready /\ t \in Waiters /\ calling[t] = NULL
        /\ RequestQ \in Queues /\ ReplyQ \in Queues /\ RequestQ # ReplyQ
        /\ Tasks \subseteq Waiters /\ Queues \subseteq Waiters
        /\ NULL \notin Waiters /\ NULL \notin Msgs
    BY <1>1, QueueFacts DEF Ready
  <1>4. /\ stage[m] = "ready" /\ m \notin pseudosync
        /\ \A u \in Waiters : /\ ~InM(RequestQ, m, u)
                              /\ ~InR(RequestQ, m, u)
                              /\ ~InM(ReplyQ, m, u)
        /\ \A u \in Tasks : calling[u] # m
    BY <1>2, NotOnQueues DEF MsgSendRecv, MaySend, StagesInv
  <1>5. /\ sync' = sync \cup {m}
        /\ pseudosync' = IF q2 = NULL THEN pseudosync
                                      ELSE pseudosync \cup {m}
        /\ calling' = IF q2 = NULL THEN [calling EXCEPT ![t] = m] ELSE calling
    BY <1>1 DEF MsgSendRecv
  <1>6. (m \in pseudosync') <=> q2 # NULL
    BY <1>4, <1>5
  <1>7. PICK w \in Waiters : w = IF q2 = NULL THEN t ELSE ReplyQ
    BY <1>3
  <1>8. \/ /\ messages' = [messages EXCEPT ![q] = Append(@, Pending(m, w))]
           /\ sched' = IF q2 = NULL THEN setNextRunnable(sched, c) ELSE sched
           /\ owner' = [owner EXCEPT ![m] = NULL]
           /\ stage' = [stage EXCEPT ![m] = "request"]
           /\ UNCHANGED <<responses, waiting>>
        \/ /\ waiting[q] # << >>
           /\ waiting' = [waiting EXCEPT ![q] = Tail(@)]
           /\ responses' = [responses EXCEPT ![q] = <<Pending(m, w)>> \o @]
           /\ sched' = setCurrentTask(IF q2 = NULL THEN sched
                                      ELSE addTask(sched, t),
                                      c, Head(waiting[q]))
           /\ owner' = [owner EXCEPT ![m] = Head(waiting[q])]
           /\ stage' = [stage EXCEPT ![m] = "serving"]
           /\ UNCHANGED messages
    <2> DEFINE ps == m \in pseudosync'
               mp == Pending(m, IF ps THEN q2 ELSE t)
    <2>1. \/ /\ messages' = [messages EXCEPT ![q] = Append(@, mp)]
             /\ sched' = IF ps THEN sched ELSE setNextRunnable(sched, c)
             /\ owner' = [owner EXCEPT ![m] = NULL]
             /\ stage' = [stage EXCEPT ![m] = "request"]
             /\ UNCHANGED <<responses, waiting>>
          \/ /\ waiting[q] # << >>
             /\ waiting' = [waiting EXCEPT ![q] = Tail(@)]
             /\ responses' = [responses EXCEPT ![q] = <<mp>> \o @]
             /\ sched' = setCurrentTask(IF ps THEN addTask(sched, t)
                                        ELSE sched, c, Head(waiting[q]))
             /\ owner' = [owner EXCEPT ![m] = Head(waiting[q])]
             /\ stage' = [stage EXCEPT ![m] = "serving"]
             /\ UNCHANGED messages
      BY <1>1, Zenon DEF MsgSendRecv
    <2>2. ps <=> q2 # NULL
      BY <1>6
    <2>3. mp = Pending(m, w)
      BY <1>7, <2>2
    <2> HIDE DEF mp, ps
    <2>4. CASE q2 = NULL
      BY <2>1, <2>2, <2>3, <2>4, Zenon
    <2>5. CASE q2 # NULL
      BY <2>1, <2>2, <2>3, <2>5, Zenon
    <2> QED BY <2>4, <2>5
  <1>9. /\ \A u \in Tasks :
              calling'[u] = IF q2 = NULL /\ u = t THEN m ELSE calling[u]
        /\ calling' \in [Tasks -> Msgs \cup {NULL}]
        /\ sync' \subseteq Msgs /\ pseudosync' \subseteq Msgs
    BY <1>2, <1>3, <1>5 DEF QueueTypes
  <1>10. /\ m \in pseudosync' => w = ReplyQ
         /\ m \notin pseudosync' => w = t /\ calling'[w] = m
         /\ \A n \in Msgs : n # m => /\ n \in pseudosync' <=> n \in pseudosync
                                     /\ n \in sync' <=> n \in sync
         /\ m \in sync'
    BY <1>3, <1>5, <1>6, <1>7, <1>9
  <1>11. \A u \in Tasks : \A n \in Msgs :
            calling[u] = n => n # m /\ calling'[u] = n
    BY <1>3, <1>4, <1>9
  <1>12. CASE /\ messages' = [messages EXCEPT ![q] = Append(@, Pending(m, w))]
              /\ sched' = IF q2 = NULL THEN setNextRunnable(sched, c)
                                       ELSE sched
              /\ owner' = [owner EXCEPT ![m] = NULL]
              /\ stage' = [stage EXCEPT ![m] = "request"]
              /\ UNCHANGED <<responses, waiting>>
    <2>1. /\ messages' \in [Queues -> Seq(Entries)]
          /\ \A r \in Queues : NoneTwice(messages'[r])
          /\ \A r \in Queues : \A n, u :
                InM(r, n, u)' <=> InM(r, n, u) \/ (r = q /\ n = m /\ u = w)
      BY <1>3, <1>4, <1>12, MessagePut
    <2>2. QueueTypes'
      BY <1>2, <1>9, <1>12, <2>1 DEF QueueTypes, Stages
    <2>3. \A n \in Msgs : stage'[n] = IF n = m THEN "request" ELSE stage[n]
      BY <1>2, <1>12 DEF QueueTypes
    <2>4. Ready' = IF q2 = NULL THEN Ready \ {t} ELSE Ready
      BY <1>3, <1>9, <1>12 DEF Ready
    <2>5. Holds(sched', {}, Ready')
      <3>1. Holds(setNextRunnable(sched, c), {}, Ready \ {t})
        BY <1>1, <1>2, Vacated, NextRunnable
      <3> QED BY <1>2, <1>12, <2>4, <3>1
    <2>6. WaitersInv'
      BY <1>2, <1>3, <1>9, <1>12 DEF WaitersInv, Ready
    <2>7. \A r, n, u : InR(r, n, u)' <=> InR(r, n, u)
      BY <1>12 DEF InR
    <2>8. EntriesInv'
      <3>1. EntriesOnce'
        BY <1>2, <1>3, <1>4, <1>12, <2>1, <2>7 DEF EntriesInv, EntriesOnce
      <3>2. RequestEntries'
        <4> SUFFICES ASSUME NEW n \in Msgs, NEW u \in Waiters,
                            InM(RequestQ, n, u)'
                     PROVE  /\ stage'[n] = "request"
                            /\ n \in pseudosync' => n \in sync' /\ u = ReplyQ
                            /\ n \in sync' \ pseudosync'
                                 => u \in Clients /\ calling'[u] = n
          BY DEF RequestEntries
        <4>1. InM(RequestQ, n, u) \/ (n = m /\ u = w)
          BY <1>3, <2>1
        <4>2. CASE n = m
          <5>1. u = w
            BY <1>4, <4>1, <4>2
          <5> QED BY <1>1, <1>10, <2>3, <4>2, <5>1
        <4>3. CASE n # m
          <5>1. /\ stage[n] = "request"
                /\ n \in pseudosync => n \in sync /\ u = ReplyQ
                /\ n \in sync \ pseudosync => u \in Clients /\ calling[u] = n
            BY <1>2, <4>1, <4>3 DEF EntriesInv, RequestEntries
          <5>2. Clients \subseteq Tasks
            BY DEF Clients
          <5> QED BY <1>10, <1>11, <2>3, <4>3, <5>1, <5>2
        <4> QED BY <4>2, <4>3
      <3>3. ServedEntries'
        BY <1>2, <1>3, <1>4, <1>10, <1>11, <2>3, <2>7
           DEF EntriesInv, ServedEntries, Clients
      <3>4. ReplyEntries'
        BY <1>2, <1>3, <1>4, <2>1, <2>3, <2>7 DEF EntriesInv, ReplyEntries
      <3> QED BY <3>1, <3>2, <3>3, <3>4 DEF EntriesInv
    <2>9. StagesInv'
      BY <1>2, <1>10, <2>3, <2>7 DEF StagesInv
    <2>10. CallersInv'
      <3> SUFFICES ASSUME NEW u \in Tasks, NEW n \in Msgs, calling'[u] = n
                   PROVE  /\ u \in Clients
                          /\ n \in sync' \ pseudosync'
                          /\ InM(RequestQ, n, u)' \/ InR(RequestQ, n, u)'
        BY DEF CallersInv
      <3>1. CASE calling[u] = n
        <4>1. /\ u \in Clients /\ n \in sync \ pseudosync
              /\ InM(RequestQ, n, u) \/ InR(RequestQ, n, u)
          BY <1>2, <3>1 DEF CallersInv
        <4>2. n # m
          BY <1>4, <3>1
        <4> QED BY <1>3, <1>10, <2>1, <2>7, <4>1, <4>2
      <3>2. CASE calling[u] # n
        <4>1. q2 = NULL /\ u = t /\ n = m
          BY <1>9, <3>2
        <4>2. w = t /\ m \notin pseudosync' /\ InM(RequestQ, m, w)'
          BY <1>3, <1>6, <1>7, <2>1, <4>1
        <4> QED BY <1>1, <1>10, <4>1, <4>2
      <3> QED BY <3>1, <3>2
    <2> QED BY <2>2, <2>5, <2>6, <2>8, <2>9, <2>10 DEF MsgInv
  <1>13. CASE /\ waiting[q] # << >>
              /\ waiting' = [waiting EXCEPT ![q] = Tail(@)]
              /\ responses' = [responses EXCEPT ![q] = <<Pending(m, w)>> \o @]
              /\ sched' = setCurrentTask(IF q2 = NULL THEN sched
                                         ELSE addTask(sched, t),
                                         c, Head(waiting[q]))
              /\ owner' = [owner EXCEPT ![m] = Head(waiting[q])]
              /\ stage' = [stage EXCEPT ![m] = "serving"]
              /\ UNCHANGED messages
    <2> DEFINE h == Head(waiting[q])
    <2>1. /\ h \in Tasks /\ h \notin Ready /\ calling[h] = NULL
          /\ waiting' \in [Queues -> Seq(Tasks)]
          /\ \A r \in Queues : NoneTwice(waiting'[r])
          /\ \A r \in Queues : \A u :
                OnList(waiting'[r], u) <=> OnList(waiting[r], u) /\ u # h
      BY <1>3, <1>13, WaiterLeaves
    <2>2. /\ owner' = [owner EXCEPT ![m] = h]
          /\ stage' = [stage EXCEPT ![m] = "serving"]
          /\ sched' = setCurrentTask(IF q2 = NULL THEN sched
                                     ELSE addTask(sched, t), c, h)
          /\ messages' = messages
      BY <1>13
    <2>3. /\ responses' \in [Queues -> Seq(Entries)]
          /\ NoneTwice(responses'[RequestQ])
          /\ \A r \in Queues : \A n, u :
                InR(r, n, u)' <=> InR(r, n, u) \/ (r = q /\ n = m /\ u = w)
      BY <1>3, <1>4, <1>13, ResponsePut
    <2> HIDE DEF h
    <2>4. QueueTypes'
      BY <1>2, <1>9, <2>1, <2>2, <2>3 DEF QueueTypes, Stages
    <2>5. \A n \in Msgs : stage'[n] = IF n = m THEN "serving" ELSE stage[n]
      BY <1>2, <2>2 DEF QueueTypes
    <2>6. Ready' = IF q2 = NULL THEN (Ready \ {t}) \cup {h}
                                ELSE Ready \cup {h}
      BY <1>3, <1>9, <2>1 DEF Ready
    <2>7. Holds(sched', {}, Ready')
      <3>1. Holds(sched, {c}, Ready \ {t})
        BY <1>1, <1>2, Vacated
      <3>2. CASE q2 = NULL
        <4>1. Holds(setCurrentTask(sched, c, h), {}, (Ready \ {t}) \cup {h})
          BY <2>1, <3>1, SetCurrent
        <4> QED BY <2>2, <2>6, <3>2, <4>1
      <3>3. CASE q2 # NULL
        <4> DEFINE s == addTask(sched, t)
        <4>1. Holds(s, {c}, (Ready \ {t}) \cup {t})
          BY <1>3, <3>1, AddTask
        <4>2. (Ready \ {t}) \cup {t} = Ready
          BY <1>3
        <4> HIDE DEF s
        <4>3. Holds(setCurrentTask(s, c, h), {}, Ready \cup {h})
          BY <2>1, <4>1, <4>2, SetCurrent
        <4> QED BY <2>2, <2>6, <3>3, <4>3 DEF s
      <3> QED BY <3>2, <3>3
    <2>8. WaitersInv'
      <3>1. \A r \in Queues : ~OnList(waiting[r], t)
        BY <1>3 DEF Ready
      <3>2. \A u \in Tasks : \A r \in Queues :
               OnList(waiting'[r], u) => u # t /\ OnList(waiting[r], u)
        BY <2>1, <3>1
      <3> QED BY <1>2, <1>9, <2>1, <3>2 DEF WaitersInv
    <2>9. \A r, n, u : InM(r, n, u)' <=> InM(r, n, u)
      BY <2>2 DEF InM
    <2>10. EntriesInv'
      <3>1. EntriesOnce'
        BY <1>2, <1>3, <1>4, <2>2, <2>3, <2>9 DEF EntriesInv, EntriesOnce
      <3>2. RequestEntries'
        BY <1>2, <1>3, <1>4, <1>10, <1>11, <2>5, <2>9
           DEF EntriesInv, RequestEntries, Clients
      <3>3. ServedEntries'
        BY <1>1, <1>2, <1>3, <1>4, <1>10, <1>11, <2>3, <2>5
           DEF EntriesInv, ServedEntries, Clients
      <3>4. ReplyEntries'
        BY <1>2, <1>3, <1>4, <2>3, <2>5, <2>9 DEF EntriesInv, ReplyEntries
      <3> QED BY <3>1, <3>2, <3>3, <3>4 DEF EntriesInv
    <2>11. StagesInv'
      <3>1. InR(q, m, w)'
        BY <1>3, <2>3
      <3>2. \A n \in Msgs : \A u \in Waiters :
               InR(RequestQ, n, u) => InR(RequestQ, n, u)'
        BY <1>3, <2>3
      <3> QED BY <1>2, <1>10, <2>5, <3>1, <3>2 DEF StagesInv
    <2>12. CallersInv'
      BY <1>1, <1>2, <1>3, <1>4, <1>6, <1>7, <1>9, <1>10, <2>3, <2>9
         DEF CallersInv
    <2> QED BY <2>4, <2>7, <2>8, <2>10, <2>11, <2>12 DEF MsgInv
  <1> QED BY <1>8, <1>12, <1>13

(* msg_respond                                                             *)
LEMMA KeptByRespond ==
    ASSUME MsgInv, NEW c \in Cpus, NEW m \in Msgs, MsgRespond(c, m),
           sched.current[c] \in Servers
    PROVE  MsgInv'
  <1> DEFINE q == RequestQ
             found == {i \in DOMAIN responses[q] : responses[q][i].key = m}
             at == CHOOSE i \in found : \A j \in found : i <= j
  <1>1. PICK t \in Servers : t = sched.current[c]
    OBVIOUS
  <1>2. /\ QueueTypes /\ WaitersInv /\ EntriesInv /\ StagesInv /\ CallersInv
        /\ Holds(sched, {}, Ready)
    BY DEF MsgInv
  <1>3. /\ t \in Tasks /\ t \in Ready /\ t \in Waiters /\ calling[t] = NULL
        /\ RequestQ \in Queues /\ ReplyQ \in Queues /\ RequestQ # ReplyQ
        /\ Tasks \subseteq Waiters /\ NULL \notin Waiters
        /\ NULL \notin Msgs
    BY <1>1, QueueFacts DEF Ready
  <1>4. PICK n \in DOMAIN responses[q] : at = n /\ responses[q][n].key = m
    <2>1. found # {}
      BY Zenon DEF MsgRespond
    <2>2. found \subseteq Nat
      <3>1. Len(responses[q]) \in Nat
            /\ DOMAIN responses[q] = 1 .. Len(responses[q])
        BY QueueFacts, ListPlaces
      <3> QED BY <3>1
    <2>3. found \subseteq DOMAIN responses[q]
          /\ \A i \in found : responses[q][i].key = m
      OBVIOUS
    <2> HIDE DEF found
    <2>4. \E i \in found : \A j \in found : i <= j
      BY <2>1, <2>2, LeastNatural
    <2>5. at \in found
      BY <2>4
    <2> HIDE DEF at
    <2> QED BY <2>3, <2>5
  <1>5. PICK w \in Waiters : responses[q][n] = Pending(m, w)
    <2>1. responses[q][n] \in Entries
      BY <1>4, QueueFacts, ListPlaces
    <2> QED BY <1>4, <2>1, PendingFacts
  <1>6. responses[q][n].task = w
    BY <1>5 DEF Pending
  <1>7. /\ stage[m] = "serving" /\ UNCHANGED <<sync, pseudosync>>
        /\ responses' = [responses EXCEPT ![q] = Erase(@, n)]
        /\ \/ /\ m \in pseudosync
              /\ IF waiting[w] = << >>
                 THEN /\ messages' = [messages EXCEPT ![w] =
                                                     Append(@, Pending(m, t))]
                      /\ owner' = [owner EXCEPT ![m] = NULL]
                      /\ stage' = [stage EXCEPT ![m] = "reply"]
                      /\ UNCHANGED <<sched, waiting>>
                 ELSE /\ waiting' = [waiting EXCEPT ![w] = Tail(@)]
                      /\ owner' = [owner EXCEPT ![m] = Head(waiting[w])]
                      /\ stage' = [stage EXCEPT ![m] = "used"]
                      /\ sched' = addTask(sched, Head(waiting[w]))
                      /\ UNCHANGED messages
              /\ UNCHANGED calling
           \/ /\ m \notin pseudosync
              /\ sched' = addTask(setCurrentTask(sched, c, w), t)
              /\ owner' = [owner EXCEPT ![m] = w]
              /\ stage' = [stage EXCEPT ![m] = "used"]
              /\ calling' = [calling EXCEPT ![w] = NULL]
              /\ UNCHANGED <<messages, waiting>>
    <2>1. /\ stage[m] = "serving" /\ UNCHANGED <<sync, pseudosync>>
          /\ responses' = [responses EXCEPT ![q] = Erase(@, at)]
          /\ LET waiter == responses[q][at].task IN
             \/ /\ m \in pseudosync
                /\ IF waiting[waiter] = << >>
                   THEN /\ messages' =
                             [messages EXCEPT ![waiter] =
                                Append(@, Pending(m, sched.current[c]))]
                        /\ owner' = [owner EXCEPT ![m] = NULL]
                        /\ stage' = [stage EXCEPT ![m] = "reply"]
                        /\ UNCHANGED <<sched, waiting>>
                   ELSE /\ waiting' = [waiting EXCEPT ![waiter] = Tail(@)]
                        /\ owner' = [owner EXCEPT ![m] = Head(waiting[waiter])]
                        /\ stage' = [stage EXCEPT ![m] = "used"]
                        /\ sched' = addTask(sched, Head(waiting[waiter]))
                        /\ UNCHANGED messages
                /\ UNCHANGED calling
             \/ /\ m \notin pseudosync
                /\ sched' = addTask(setCurrentTask(sched, c, waiter),
                                    sched.current[c])
                /\ owner' = [owner EXCEPT ![m] = waiter]
                /\ stage' = [stage EXCEPT ![m] = "used"]
                /\ calling' = [calling EXCEPT ![waiter] = NULL]
                /\ UNCHANGED <<messages, waiting>>
      BY Zenon DEF MsgRespond
    <2> HIDE DEF at, found
    <2> QED BY <1>1, <1>4, <1>6, <2>1, Zenon
  <1> HIDE DEF at, found
  <1>8. /\ InR(RequestQ, m, w)
        /\ responses' \in [Queues -> Seq(Entries)]
        /\ NoneTwice(responses'[RequestQ])
        /\ \A r \in Queues : \A k, u :
              InR(r, k, u)' <=> /\ InR(r, k, u)
                                /\ ~(r = RequestQ /\ k = m /\ u = w)
    <2>1. /\ InR(RequestQ, responses[RequestQ][n].key,
                  responses[RequestQ][n].task)
          /\ responses' \in [Queues -> Seq(Entries)]
          /\ NoneTwice(responses'[RequestQ])
          /\ \A r \in Queues : \A k, u :
                InR(r, k, u)' <=> /\ InR(r, k, u)
                                  /\ ~(r = RequestQ /\ Pending(k, u)
                                             = responses[RequestQ][n])
      BY <1>4, <1>7, ResponseErased
    <2>2. \A k, u : Pending(k, u) = responses[RequestQ][n] <=> k = m /\ u = w
      BY <1>5, PendingFacts
    <2>3. InR(RequestQ, m, w)
      BY <1>4, <1>6, <2>1
    <2> QED BY <2>1, <2>2, <2>3
  <1>9. /\ m \in pseudosync => w = ReplyQ
        /\ m \notin pseudosync => w \in Clients /\ calling[w] = m
        /\ \A u \in Waiters : InR(RequestQ, m, u) => u = w
        /\ \A u \in Waiters : ~InM(RequestQ, m, u) /\ ~InM(ReplyQ, m, u)
    BY <1>2, <1>7, <1>8 DEF EntriesInv, EntriesOnce, RequestEntries,
                            ServedEntries, ReplyEntries
  <1>10. \A k \in Msgs : \A u \in Waiters :
            InR(RequestQ, k, u)' <=> InR(RequestQ, k, u) /\ k # m
    BY <1>3, <1>8, <1>9
  <1>11. \A k, u : InR(ReplyQ, k, u)' <=> InR(ReplyQ, k, u)
    BY <1>3, <1>8
  <1>12. CASE /\ w = ReplyQ /\ m \in pseudosync
              /\ messages' = [messages EXCEPT ![ReplyQ] =
                                                  Append(@, Pending(m, t))]
              /\ owner' = [owner EXCEPT ![m] = NULL]
              /\ stage' = [stage EXCEPT ![m] = "reply"]
              /\ UNCHANGED <<sched, waiting, calling>>
    <2>1. /\ messages' \in [Queues -> Seq(Entries)]
          /\ \A r \in Queues : NoneTwice(messages'[r])
          /\ \A r \in Queues : \A k, u :
                InM(r, k, u)' <=> \/ InM(r, k, u)
                                  \/ r = ReplyQ /\ k = m /\ u = t
      <3>1. ~InM(ReplyQ, m, t)
        BY <1>3, <1>9
      <3> QED BY <1>3, <1>12, <3>1, MessagePut
    <2>2. QueueTypes'
      BY <1>2, <1>7, <1>8, <1>12, <2>1 DEF QueueTypes, Stages
    <2>3. \A k \in Msgs : stage'[k] = IF k = m THEN "reply" ELSE stage[k]
      BY <1>2, <1>12 DEF QueueTypes
    <2>4. Holds(sched', {}, Ready')
      BY <1>2, <1>12 DEF Ready
    <2>5. WaitersInv'
      BY <1>2, <1>12 DEF WaitersInv
    <2>6. EntriesInv'
      <3>1. EntriesOnce'
        BY <1>2, <1>3, <1>8, <1>9, <1>10, <2>1 DEF EntriesInv, EntriesOnce
      <3>2. RequestEntries'
        BY <1>2, <1>3, <1>7, <1>9, <1>12, <2>1, <2>3
           DEF EntriesInv, RequestEntries
      <3>3. ServedEntries'
        BY <1>2, <1>7, <1>10, <1>12, <2>3 DEF EntriesInv, ServedEntries
      <3>4. ReplyEntries'
        BY <1>2, <1>3, <1>9, <1>11, <2>1, <2>3 DEF EntriesInv, ReplyEntries
      <3> QED BY <3>1, <3>2, <3>3, <3>4 DEF EntriesInv
    <2>7. StagesInv'
      BY <1>2, <1>7, <1>10, <2>3 DEF StagesInv
    <2>8. CallersInv'
      BY <1>2, <1>3, <1>7, <1>10, <1>12, <2>1 DEF CallersInv
    <2> QED BY <2>2, <2>4, <2>5, <2>6, <2>7, <2>8 DEF MsgInv
  <1>13. CASE /\ w = ReplyQ /\ m \in pseudosync /\ waiting[ReplyQ] # << >>
              /\ waiting' = [waiting EXCEPT ![ReplyQ] = Tail(@)]
              /\ owner' = [owner EXCEPT ![m] = Head(waiting[ReplyQ])]
              /\ stage' = [stage EXCEPT ![m] = "used"]
              /\ sched' = addTask(sched, Head(waiting[ReplyQ]))
              /\ UNCHANGED <<messages, calling>>
    <2> DEFINE h == Head(waiting[ReplyQ])
    <2>1. /\ h \in Tasks /\ h \notin Ready /\ calling[h] = NULL
          /\ waiting' \in [Queues -> Seq(Tasks)]
          /\ \A r \in Queues : NoneTwice(waiting'[r])
          /\ \A r \in Queues : \A u :
                OnList(waiting'[r], u) <=> OnList(waiting[r], u) /\ u # h
      BY <1>3, <1>13, WaiterLeaves
    <2>2. /\ owner' = [owner EXCEPT ![m] = h]
          /\ stage' = [stage EXCEPT ![m] = "used"]
          /\ sched' = addTask(sched, h) /\ UNCHANGED <<messages, calling>>
      BY <1>13
    <2> HIDE DEF h
    <2>3. QueueTypes'
      BY <1>2, <1>7, <1>8, <2>1, <2>2 DEF QueueTypes, Stages
    <2>4. \A k \in Msgs : stage'[k] = IF k = m THEN "used" ELSE stage[k]
      BY <1>2, <2>2 DEF QueueTypes
    <2>5. Ready' = Ready \cup {h}
      BY <2>1, <2>2 DEF Ready
    <2>6. Holds(sched', {}, Ready')
      BY <1>2, <2>1, <2>2, <2>5, AddTask
    <2>7. WaitersInv'
      BY <1>2, <2>1, <2>2 DEF WaitersInv
    <2>8. \A r, k, u : InM(r, k, u)' <=> InM(r, k, u)
      BY <2>2 DEF InM
    <2>9. EntriesInv'
      <3>1. EntriesOnce'
        BY <1>2, <1>8, <1>10, <2>2, <2>8 DEF EntriesInv, EntriesOnce
      <3>2. RequestEntries' /\ ServedEntries'
        BY <1>2, <1>7, <1>9, <1>10, <2>2, <2>4, <2>8
           DEF EntriesInv, RequestEntries, ServedEntries
      <3>3. ReplyEntries'
        BY <1>2, <1>9, <1>11, <2>4, <2>8 DEF EntriesInv, ReplyEntries
      <3> QED BY <3>1, <3>2, <3>3 DEF EntriesInv
    <2>10. StagesInv'
      BY <1>2, <1>7, <1>10, <2>4 DEF StagesInv
    <2>11. CallersInv'
      BY <1>2, <1>3, <1>7, <1>10, <1>13, <2>2, <2>8 DEF CallersInv
    <2> QED BY <2>3, <2>6, <2>7, <2>9, <2>10, <2>11 DEF MsgInv
  <1>14. CASE /\ m \notin pseudosync
              /\ sched' = addTask(setCurrentTask(sched, c, w), t)
              /\ owner' = [owner EXCEPT ![m] = w]
              /\ stage' = [stage EXCEPT ![m] = "used"]
              /\ calling' = [calling EXCEPT ![w] = NULL]
              /\ UNCHANGED <<messages, waiting>>
    <2>1. /\ w \in Clients /\ w \in Tasks /\ calling[w] = m /\ w \notin Ready
          /\ w # t
          /\ \A r \in Queues : ~OnList(waiting[r], w)
      BY <1>2, <1>3, <1>9, <1>14 DEF Clients, Ready, WaitersInv
    <2>2. QueueTypes'
      BY <1>2, <1>7, <1>8, <1>14, <2>1 DEF QueueTypes, Stages
    <2>3. \A k \in Msgs : stage'[k] = IF k = m THEN "used" ELSE stage[k]
      BY <1>2, <1>14 DEF QueueTypes
    <2>4. \A u \in Tasks : calling'[u] = IF u = w THEN NULL ELSE calling[u]
      BY <1>2, <1>14 DEF QueueTypes
    <2>5. Ready' = Ready \cup {w}
      BY <1>14, <2>1, <2>4 DEF Ready
    <2>6. Holds(sched', {}, Ready')
      <3> DEFINE s == setCurrentTask(sched, c, w)
                 K == (Ready \ {t}) \cup {w}
      <3>1. Holds(sched, {c}, Ready \ {t})
        BY <1>1, <1>2, Vacated
      <3>2. Holds(s, {}, K)
        BY <2>1, <3>1, SetCurrent
      <3>3. t \notin K /\ K \cup {t} = Ready \cup {w}
        BY <1>3, <2>1
      <3> HIDE DEF s, K
      <3>4. Holds(addTask(s, t), {}, K \cup {t})
        BY <1>3, <3>2, <3>3, AddTask
      <3> QED BY <1>14, <2>5, <3>3, <3>4 DEF s
    <2>7. WaitersInv'
      BY <1>2, <1>14, <2>4 DEF WaitersInv
    <2>8. \A r, k, u : InM(r, k, u)' <=> InM(r, k, u)
      BY <1>14 DEF InM
    <2>9. \A u \in Waiters : \A k \in Msgs :
             u \in Clients /\ calling[u] = k /\ k # m => calling'[u] = k
      BY <2>1, <2>4 DEF Clients
    <2>10. EntriesInv'
      <3>1. EntriesOnce'
        BY <1>2, <1>8, <1>10, <1>14, <2>8 DEF EntriesInv, EntriesOnce
      <3>2. RequestEntries'
        BY <1>2, <1>7, <1>9, <2>3, <2>8, <2>9
           DEF EntriesInv, RequestEntries
      <3>3. ServedEntries'
        BY <1>2, <1>7, <1>10, <2>3, <2>9 DEF EntriesInv, ServedEntries
      <3>4. ReplyEntries'
        BY <1>2, <1>9, <1>11, <2>3, <2>8 DEF EntriesInv, ReplyEntries
      <3> QED BY <3>1, <3>2, <3>3, <3>4 DEF EntriesInv
    <2>11. StagesInv'
      BY <1>2, <1>7, <1>10, <2>3 DEF StagesInv
    <2>12. CallersInv'
      <3>1. \A u \in Tasks : calling[u] = m => u = w
        BY <1>2, <1>3, <1>9 DEF CallersInv
      <3> QED BY <1>2, <1>3, <1>7, <1>10, <2>4, <2>8, <3>1 DEF CallersInv
    <2> QED BY <2>2, <2>6, <2>7, <2>10, <2>11, <2>12 DEF MsgInv
  <1>15. CASE m \in pseudosync
    <2>1. w = ReplyQ
      BY <1>9, <1>15
    <2> QED BY <1>7, <1>12, <1>13, <1>15, <2>1, Zenon
  <1> QED BY <1>7, <1>14, <1>15

-----------------------------------------------------------------------------
(* What the invariant says of each task and message.                       *)

(* Entry i of list l of queue q names t as the task to release.            *)
BlockedAt(l, q, i, t) ==
    \/ /\ l = "messages" /\ i \in DOMAIN messages[q]
       /\ messages[q][i] = Pending(calling[t], t)
    \/ /\ l = "responses" /\ i \in DOMAIN responses[q]
       /\ responses[q][i] = Pending(calling[t], t)
    \/ l = "waiting" /\ i \in DOMAIN waiting[q] /\ waiting[q][i] = t

(* The members of Blocked(t).                                              *)
LEMMA BlockedMembers ==
    ASSUME NEW t, NEW x
    PROVE  x \in Blocked(t) <=>
              \E l \in {"messages", "responses", "waiting"} :
                 \E q \in Queues : \E i :
                    x = <<l, q, i>> /\ BlockedAt(l, q, i, t)
  <1>1. ASSUME x \in Blocked(t)
        PROVE  \E l \in {"messages", "responses", "waiting"} :
                  \E q \in Queues : \E i :
                     x = <<l, q, i>> /\ BlockedAt(l, q, i, t)
    <2>1. PICK q \in Queues :
             \/ \E i \in DOMAIN messages[q] :
                   /\ messages[q][i] = Pending(calling[t], t)
                   /\ x = <<"messages", q, i>>
             \/ \E i \in DOMAIN responses[q] :
                   /\ responses[q][i] = Pending(calling[t], t)
                   /\ x = <<"responses", q, i>>
             \/ \E i \in DOMAIN waiting[q] :
                   waiting[q][i] = t /\ x = <<"waiting", q, i>>
      BY <1>1 DEF Blocked
    <2> QED BY <2>1 DEF BlockedAt
  <1>2. ASSUME NEW l \in {"messages", "responses", "waiting"},
               NEW q \in Queues, NEW i, BlockedAt(l, q, i, t),
               x = <<l, q, i>>
        PROVE  x \in Blocked(t)
    <2>1. CASE l = "messages"
      BY <1>2, <2>1 DEF BlockedAt, Blocked
    <2>2. CASE l = "responses"
      BY <1>2, <2>2 DEF BlockedAt, Blocked
    <2>3. CASE l = "waiting"
      BY <1>2, <2>3 DEF BlockedAt, Blocked
    <2> QED BY <2>1, <2>2, <2>3
  <1> QED BY <1>1, <1>2

(* The lists of the queues know any other task in one place, and no ready  *)
(* one.                                                                    *)
LEMMA BlockedPlaces ==
    ASSUME MsgInv, NEW t \in Tasks
    PROVE  /\ t \in Ready => Blocked(t) = {}
           /\ t \notin Ready => \E x : Blocked(t) = {x}
  <1> DEFINE Lists == {"messages", "responses", "waiting"}
  <1>1. /\ QueueTypes /\ WaitersInv /\ EntriesInv /\ CallersInv
        /\ NULL \notin Msgs
        /\ RequestQ \in Queues /\ ReplyQ \in Queues
        /\ Queues = {RequestQ, ReplyQ}
        /\ t \in Waiters /\ calling[t] \in Msgs \cup {NULL}
    BY QueueFacts DEF MsgInv, QueueTypes
  <1>2. ASSUME NEW q \in Queues, NEW i, calling[t] = NULL
        PROVE  ~BlockedAt("messages", q, i, t)
               /\ ~BlockedAt("responses", q, i, t)
    <2>1. /\ \A j \in DOMAIN messages[q] : messages[q][j] \in Entries
          /\ \A j \in DOMAIN responses[q] : responses[q][j] \in Entries
      BY QueueFacts, ListPlaces
    <2>2. Pending(calling[t], t) \notin Entries
      BY <1>1, <1>2 DEF Pending, Entries
    <2> QED BY <2>1, <2>2 DEF BlockedAt
  <1>3. \A q \in Queues : \A i : BlockedAt("waiting", q, i, t)
                                    => OnList(waiting[q], t)
    BY DEF BlockedAt, OnList
  <1>4. ASSUME t \in Ready PROVE Blocked(t) = {}
    <2> SUFFICES ASSUME NEW x \in Blocked(t) PROVE FALSE
      OBVIOUS
    <2>1. PICK l \in Lists, q \in Queues : \E i : BlockedAt(l, q, i, t)
      BY BlockedMembers
    <2>2. calling[t] = NULL /\ ~OnList(waiting[q], t)
      BY <1>4 DEF Ready
    <2> QED BY <1>2, <1>3, <2>1, <2>2
  <1>5. ASSUME NEW q \in Queues, OnList(waiting[q], t)
        PROVE  \E x : Blocked(t) = {x}
    <2>1. PICK i \in DOMAIN waiting[q] : waiting[q][i] = t
      BY <1>5 DEF OnList
    <2>2. <<"waiting", q, i>> \in Blocked(t)
      BY <2>1, BlockedMembers DEF BlockedAt
    <2>3. calling[t] = NULL
      BY <1>1, <1>5 DEF WaitersInv
    <2>4. ASSUME NEW x \in Blocked(t) PROVE x = <<"waiting", q, i>>
      <3>1. PICK l \in Lists, r \in Queues :
               \E j : x = <<l, r, j>> /\ BlockedAt(l, r, j, t)
        BY BlockedMembers
      <3>2. PICK j : x = <<l, r, j>> /\ BlockedAt(l, r, j, t)
        BY <3>1
      <3>3. l = "waiting"
        BY <1>2, <2>3, <3>2
      <3>4. r = q
        BY <1>1, <1>3, <1>5, <3>2, <3>3 DEF WaitersInv
      <3>5. j = i
        BY <1>1, <2>1, <3>2, <3>3, <3>4 DEF WaitersInv, NoneTwice, BlockedAt
      <3> QED BY <3>2, <3>3, <3>4, <3>5
    <2> QED BY <2>2, <2>4
  <1>6. ASSUME NEW m \in Msgs, calling[t] = m
        PROVE  \E x : Blocked(t) = {x}
    <2>1. /\ t \in Clients
          /\ InM(RequestQ, m, t) \/ InR(RequestQ, m, t)
          /\ ~(InM(RequestQ, m, t) /\ InR(RequestQ, m, t))
          /\ ~InM(ReplyQ, m, t) /\ ~InR(ReplyQ, m, t)
          /\ \A q \in Queues : ~OnList(waiting[q], t)
      <3>1. /\ t \in Clients
            /\ InM(RequestQ, m, t) \/ InR(RequestQ, m, t)
        BY <1>1, <1>6 DEF CallersInv
      <3>2. /\ InM(RequestQ, m, t) => stage[m] = "request"
            /\ InR(RequestQ, m, t) => stage[m] = "serving"
            /\ InM(ReplyQ, m, t) => stage[m] = "reply"
            /\ InR(ReplyQ, m, t) => t \in Servers
        BY <1>1 DEF EntriesInv, RequestEntries, ServedEntries, ReplyEntries
      <3>3. \A q \in Queues : ~OnList(waiting[q], t)
        BY <1>1, <1>6 DEF WaitersInv
      <3> QED BY <3>1, <3>2, <3>3 DEF Clients
    <2>2. \A q \in Queues : \A i :
             /\ BlockedAt("messages", q, i, t) => InM(q, m, t)
             /\ BlockedAt("responses", q, i, t) => InR(q, m, t)
      BY <1>6 DEF BlockedAt, InM, InR, OnList
    <2>3. \A i, j :
             /\ (/\ BlockedAt("messages", RequestQ, i, t)
                 /\ BlockedAt("messages", RequestQ, j, t)) => i = j
             /\ (/\ BlockedAt("responses", RequestQ, i, t)
                 /\ BlockedAt("responses", RequestQ, j, t)) => i = j
      BY <1>1 DEF BlockedAt, EntriesInv, EntriesOnce, NoneTwice
    <2>4. PICK l \in Lists : \E i : BlockedAt(l, RequestQ, i, t)
      <3>1. CASE InM(RequestQ, m, t)
        BY <1>6, <3>1 DEF InM, OnList, BlockedAt
      <3>2. CASE InR(RequestQ, m, t)
        BY <1>6, <3>2 DEF InR, OnList, BlockedAt
      <3> QED BY <2>1, <3>1, <3>2
    <2>5. PICK i : BlockedAt(l, RequestQ, i, t)
      BY <2>4
    <2>6. <<l, RequestQ, i>> \in Blocked(t)
      BY <1>1, <2>5, BlockedMembers
    <2>7. ASSUME NEW x \in Blocked(t) PROVE x = <<l, RequestQ, i>>
      <3>1. PICK k \in Lists, r \in Queues :
               \E j : x = <<k, r, j>> /\ BlockedAt(k, r, j, t)
        BY BlockedMembers
      <3>2. PICK j : x = <<k, r, j>> /\ BlockedAt(k, r, j, t)
        BY <3>1
      <3>3. r = RequestQ /\ k = l
        BY <1>1, <1>3, <2>1, <2>2, <2>5, <3>2
      <3>4. j = i
        BY <1>1, <1>3, <2>1, <2>3, <2>5, <3>2, <3>3
      <3> QED BY <3>2, <3>3, <3>4
    <2> QED BY <2>6, <2>7
  <1>7. ASSUME t \notin Ready PROVE \E x : Blocked(t) = {x}
    <2>1. calling[t] \in Msgs \/ \E q \in Queues : OnList(waiting[q], t)
      BY <1>1, <1>7 DEF Ready
    <2> QED BY <1>5, <1>6, <2>1
  <1> QED BY <1>4, <1>7

(* Each request that is being served has one pending response.             *)
LEMMA OwedOnce ==
    ASSUME MsgInv, NEW m \in Msgs
    PROVE  Cardinality({i \in DOMAIN responses[RequestQ] :
                          responses[RequestQ][i].key = m})
             = IF stage[m] = "serving" THEN 1 ELSE 0
  <1> DEFINE q == responses[RequestQ]
             owed == {i \in DOMAIN q : q[i].key = m}
  <1>1. /\ EntriesInv /\ StagesInv /\ q \in Seq(Entries)
    BY QueueFacts DEF MsgInv
  <1>2. \A i \in DOMAIN q : q[i] \in Entries
    BY <1>1, ListPlaces
  <1>3. ASSUME NEW i \in owed
        PROVE  \E t \in Waiters : q[i] = Pending(m, t)
                                     /\ InR(RequestQ, m, t)
    <2>1. q[i] \in Entries /\ q[i].key = m
      BY <1>2
    <2>2. q[i].task \in Waiters /\ q[i] = Pending(m, q[i].task)
      BY <2>1, PendingFacts
    <2> QED BY <2>2 DEF InR, OnList
  <1>4. ASSUME NEW i \in owed, NEW j \in owed PROVE i = j
    <2>1. PICK t \in Waiters : q[i] = Pending(m, t) /\ InR(RequestQ, m, t)
      BY <1>3
    <2>2. PICK u \in Waiters : q[j] = Pending(m, u) /\ InR(RequestQ, m, u)
      BY <1>3
    <2>3. t = u
      BY <1>1, <2>1, <2>2 DEF EntriesInv, EntriesOnce
    <2> QED BY <1>1, <2>1, <2>2, <2>3 DEF EntriesInv, EntriesOnce, NoneTwice
  <1>5. CASE stage[m] = "serving"
    <2>1. PICK t \in Waiters : InR(RequestQ, m, t)
      BY <1>1, <1>5 DEF StagesInv
    <2>2. PICK i \in DOMAIN q : q[i] = Pending(m, t)
      BY <2>1 DEF InR, OnList
    <2>3. q[i].key = m
      BY <2>2 DEF Pending
    <2>4. owed = {i}
      BY <1>4, <2>3
    <2> HIDE DEF owed
    <2>5. Cardinality(owed) = 1
      BY <2>4, FS_Singleton
    <2> QED BY <1>5, <2>5 DEF owed
  <1>6. CASE stage[m] # "serving"
    <2>1. owed = {}
      BY <1>1, <1>3, <1>6 DEF EntriesInv, ServedEntries
    <2> HIDE DEF owed
    <2>2. Cardinality(owed) = 0
      BY <2>1, FS_EmptySet
    <2> QED BY <1>6, <2>2 DEF owed
  <1> QED BY <1>5, <1>6

(* The invariant gives the three properties.                               *)
LEMMA InvariantGives ==
    ASSUME MsgInv
    PROVE  EachTaskInOnePlace /\ SendRecvBlocks /\ RequestsOwed
  <1>1. ASSUME NEW t \in Tasks
        PROVE  Cardinality(Places(t) \cup Blocked(t)) = 1
    <2>1. \E x : Places(t) \cup Blocked(t) = {x}
      <3>1. /\ t \in Ready => \E x : Places(t) = {x}
            /\ t \notin Ready => Places(t) = {}
        BY HeldPlaces DEF MsgInv
      <3>2. /\ t \in Ready => Blocked(t) = {}
            /\ t \notin Ready => \E x : Blocked(t) = {x}
        BY BlockedPlaces
      <3>3. CASE t \in Ready
        BY <3>1, <3>2, <3>3
      <3>4. CASE t \notin Ready
        BY <3>1, <3>2, <3>4
      <3> QED BY <3>3, <3>4
    <2> QED BY <2>1, FS_Singleton
  <1>2. ASSUME NEW t \in Tasks, calling[t] # NULL PROVE Places(t) = {}
    <2>1. t \notin Ready
      BY <1>2 DEF Ready
    <2> QED BY <2>1, HeldPlaces DEF MsgInv
  <1>3. EachTaskInOnePlace
    BY <1>1 DEF EachTaskInOnePlace
  <1>4. SendRecvBlocks
    BY <1>2 DEF SendRecvBlocks
  <1>5. RequestsOwed
    BY OwedOnce DEF RequestsOwed
  <1> QED BY <1>3, <1>4, <1>5

-----------------------------------------------------------------------------
(* Every step keeps the invariant.                                         *)
LEMMA MsgStep ==
    ASSUME ~ReuseBuffers, MsgInv, [Next]_vars
    PROVE  MsgInv'
  <1>1. CASE UNCHANGED vars
    <2>1. UNCHANGED <<sched, messages, responses, waiting, sync, pseudosync,
                      owner, stage, calling>>
      BY <1>1 DEF vars, qvars, uvars
    <2>2. Ready' = Ready /\ sched' = sched
      BY <2>1 DEF Ready
    <2>3. /\ QueueTypes' /\ WaitersInv' /\ EntriesInv' /\ StagesInv'
          /\ CallersInv'
      BY <2>1 DEF MsgInv, QueueTypes, WaitersInv, EntriesInv, EntriesOnce,
                  RequestEntries, ServedEntries, ReplyEntries, StagesInv,
                  CallersInv, InM, InR
    <2> QED BY <2>2, <2>3 DEF MsgInv
  <1>2. CASE Next
    <2>1. PICK c \in Cpus :
             \/ SchedStep(c) \/ Decrementer(c) \/ ServerStep(c)
             \/ ClientWait(c)
             \/ \E m \in Msgs :
                   \/ msg_allocate(c, m) \/ MsgSend(c, m)
                   \/ MsgSendRecv(c, m, NULL) \/ MsgSendRecv(c, m, ReplyQ)
                   \/ msg_free(c, m)
      BY <1>2 DEF Next
    <2>2. RequestQ \in Queues /\ ReplyQ \in Queues
      BY DEF Queues
    <2>3. CASE SchedStep(c) \/ Decrementer(c)
      BY <2>3, KeptBySchedStep
    <2>4. CASE ServerStep(c)
      <3>1. sched.current[c] \in Servers
        BY <2>4 DEF ServerStep
      <3>2. \/ MsgWait(c, RequestQ)
            \/ \E m \in Msgs : MsgRespond(c, m) \/ msg_free(c, m)
        BY <2>4 DEF ServerStep, ServerWait
      <3> QED BY <2>2, <3>1, <3>2, KeptByWait, KeptByRespond, KeptByFree
    <2>5. CASE ClientWait(c)
      BY <2>2, <2>5, KeptByWait DEF ClientWait
    <2>6. ASSUME NEW m \in Msgs,
                 \/ msg_allocate(c, m) \/ MsgSend(c, m)
                 \/ MsgSendRecv(c, m, NULL) \/ MsgSendRecv(c, m, ReplyQ)
                 \/ msg_free(c, m)
          PROVE  MsgInv'
      BY <2>6, KeptByAllocate, KeptBySend, KeptBySendRecv, KeptByFree
    <2> QED BY <2>1, <2>3, <2>4, <2>5, <2>6
  <1> QED BY <1>1, <1>2

(* Where messages are freed between two uses, every reachable state has    *)
(* the invariant.                                                          *)
THEOREM MsgInvariant ==
    ASSUME ~ReuseBuffers
    PROVE  SafeSpec => []MsgInv
  <1>1. Init => MsgInv
    BY MsgInit
  <1>2. MsgInv /\ [Next]_vars => MsgInv'
    BY MsgStep
  <1> QED BY <1>1, <1>2, PTL DEF SafeSpec

(* Whatever CPUs hand over, each task is running on one CPU, on one run    *)
(* queue, delayed, or waiting for one message or response.                 *)
THEOREM MsgEachTaskInOnePlace ==
    ASSUME ~ReuseBuffers
    PROVE  SafeSpec => []EachTaskInOnePlace
  <1>1. MsgInv => EachTaskInOnePlace
    BY InvariantGives
  <1>2. SafeSpec => []MsgInv
    BY MsgInvariant
  <1> QED BY <1>1, <1>2, PTL

(* No task in msg_sendrecv is scheduled before its message is answered.    *)
THEOREM MsgSendRecvBlocks ==
    ASSUME ~ReuseBuffers
    PROVE  SafeSpec => []SendRecvBlocks
  <1>1. MsgInv => SendRecvBlocks
    BY InvariantGives
  <1>2. SafeSpec => []MsgInv
    BY MsgInvariant
  <1> QED BY <1>1, <1>2, PTL

(* The pending responses of RequestQ are the messages being served, each   *)
(* once.                                                                   *)
THEOREM MsgRequestsOwed ==
    ASSUME ~ReuseBuffers
    PROVE  SafeSpec => []RequestsOwed
  <1>1. MsgInv => RequestsOwed
    BY InvariantGives
  <1>2. SafeSpec => []MsgInv
    BY MsgInvariant
  <1> QED BY <1>1, <1>2, PTL
====
