----------------------------- MODULE MsgQueue -----------------------------
(***************************************************************************)
(* Message passing (src/src/kernel/syscall.C: MsgSend, MsgSendRecv,        *)
(* MsgRespond, MsgWait; include/kernel/msg.H; lib/syscall_msg.C) composed  *)
(* with the scheduler: a synchronous send blocks its task and hands its    *)
(* CPU to the server, a response hands it back.                            *)
(*                                                                         *)
(* Servers read RequestQ and respond to what needs a response.  Clients    *)
(* send asynchronously, synchronously (msg_sendrecv) or "pseudo-sync"      *)
(* (msg_sendrecv_noblk), where the response is relayed to ReplyQ.          *)
(***************************************************************************)
EXTENDS Scheduler

CONSTANTS Servers,             \* the other tasks are clients
          Msgs,                \* message buffers
          RequestQ, ReplyQ,
          NULL,
          ReuseBuffers,        \* clients send a message twice without freeing
          Calls,               \* the optional calls that the tasks make
          MaxPinned,           \* bound on affinity_pinned
          MaxPending           \* bound on the responses list of ReplyQ

Clients == Tasks \ Servers
Queues  == {RequestQ, ReplyQ}

ASSUME MsgAssumption ==
    /\ Servers \subseteq Tasks
    /\ RequestQ # ReplyQ
    /\ NULL \notin Tasks \cup Queues \cup Msgs
    /\ Calls \subseteq {"send", "noblk", "yield", "sleep", "affinity"}

VARIABLES messages,      \* MessageQueue::messages, oldest first
          responses,     \* MessageQueue::responses, newest first
          waiting,       \* MessageQueue::waiting, first come first
          sync,          \* the messages with __reserved__async set
          pseudosync,    \* the messages with __reserved__pseudosync set
          owner,         \* the task that has the message in user space
          stage,         \* what the owner has it for
          calling        \* the message of a task's msg_sendrecv in progress

qvars == <<messages, responses, waiting, sync, pseudosync>>
uvars == <<owner, stage, calling>>
vars  == <<sched, qvars, uvars>>

Pending(m, t) == [key |-> m, task |-> t]

Stages == {"free",      \* not allocated
           "ready",     \* a client may send it
           "request",   \* on its way to a server
           "serving",   \* a server must respond to it
           "reply",     \* on its way back over ReplyQ
           "used"}      \* a client got its response

-----------------------------------------------------------------------------
(* Mutant: a message keeps the flags of its last use.                      *)
msg_allocateKeepsFlags(c, m) ==
    /\ sched.current[c] \in Clients
    /\ stage[m] = "free"
    /\ stage' = [stage EXCEPT ![m] = "ready"]
    /\ owner' = [owner EXCEPT ![m] = sched.current[c]]
    /\ UNCHANGED <<sched, qvars, calling>>

(* msg_allocate clears the message's flags.                                *)
msg_allocate(c, m) ==
    LET t == sched.current[c] IN
    /\ t \in Clients
    /\ stage[m] = "free"
    /\ stage' = [stage EXCEPT ![m] = "ready"]
    /\ owner' = [owner EXCEPT ![m] = t]
    /\ sync' = sync \ {m}
    /\ pseudosync' = pseudosync \ {m}
    /\ UNCHANGED <<sched, messages, responses, waiting, calling>>

(* Whoever has a message that nobody waits for frees it.                   *)
msg_free(c, m) ==
    /\ owner[m] = sched.current[c]
    /\ stage[m] \in {"ready", "used"}
    /\ stage' = [stage EXCEPT ![m] = "free"]
    /\ owner' = [owner EXCEPT ![m] = NULL]
    /\ UNCHANGED <<sched, qvars, calling>>

MaySend(t, m) ==
    /\ t \in Clients
    /\ owner[m] = t
    /\ stage[m] = "ready" \/ (stage[m] = "used" /\ ReuseBuffers)

-----------------------------------------------------------------------------
(* msg_send                                                                *)
MsgSend(c, m) ==
    LET t == sched.current[c]  q == RequestQ IN
    /\ MaySend(t, m)
    /\ sync' = sync \ {m}
    /\ \/ /\ waiting[q] = << >>
          /\ messages' = [messages EXCEPT ![q] = Append(@, Pending(m, t))]
          /\ owner' = [owner EXCEPT ![m] = NULL]
          /\ stage' = [stage EXCEPT ![m] = "request"]
          /\ UNCHANGED <<sched, waiting>>
       \/ /\ waiting[q] # << >>
          /\ waiting' = [waiting EXCEPT ![q] = Tail(@)]
          /\ owner' = [owner EXCEPT ![m] = Head(waiting[q])]
          /\ stage' = [stage EXCEPT ![m] = "ready"]
          /\ sched' = addTask(sched, Head(waiting[q]))
          /\ UNCHANGED messages
    /\ UNCHANGED <<responses, pseudosync, calling>>

(* msg_sendrecv (q2 = NULL) and msg_sendrecv_noblk (q2 = ReplyQ).  The     *)
(* pseudosync flag is set here when q2 is given, and read whether it is or *)
(* not.                                                                    *)
MsgSendRecv(c, m, q2) ==
    LET t  == sched.current[c]
        q  == RequestQ
        ps == m \in pseudosync'
        mp == Pending(m, IF ps THEN q2 ELSE t)
    IN
    /\ MaySend(t, m)
    /\ sync' = sync \cup {m}
    /\ pseudosync' = IF q2 # NULL THEN pseudosync \cup {m} ELSE pseudosync
    /\ calling' = IF q2 = NULL THEN [calling EXCEPT ![t] = m] ELSE calling
    /\ \/ /\ waiting[q] = << >>
          /\ messages' = [messages EXCEPT ![q] = Append(@, mp)]
          /\ sched' = IF ps THEN sched ELSE setNextRunnable(sched, c)
          /\ owner' = [owner EXCEPT ![m] = NULL]
          /\ stage' = [stage EXCEPT ![m] = "request"]
          /\ UNCHANGED <<responses, waiting>>
       \/ /\ waiting[q] # << >>
          /\ waiting' = [waiting EXCEPT ![q] = Tail(@)]
          /\ responses' = [responses EXCEPT ![q] = <<mp>> \o @]
          /\ sched' = setCurrentTask(IF ps THEN addTask(sched, t) ELSE sched,
                                     c, Head(waiting[q]))
          /\ owner' = [owner EXCEPT ![m] = Head(waiting[q])]
          /\ stage' = [stage EXCEPT ![m] = "serving"]
          /\ UNCHANGED messages

(* Mutant: the entry behind the one that was found is erased.              *)
EraseNext(list, n) == SubSeq(list, 1, n) \o SubSeq(list, n + 2, Len(list))

(* list::erase                                                             *)
Erase(list, n) == SubSeq(list, 1, n - 1) \o SubSeq(list, n + 1, Len(list))

(* msg_respond: find and erase the newest pending response of m, then      *)
(* relay m to the secondary queue or give the CPU to the client.           *)
MsgRespond(c, m) ==
    LET t == sched.current[c]
        q == RequestQ
        found == {i \in DOMAIN responses[q] : responses[q][i].key = m}
        n == CHOOSE i \in found : \A j \in found : i <= j
        waiter == responses[q][n].task
    IN
    /\ owner[m] = t /\ stage[m] = "serving"
    /\ found # {}
    /\ responses' = [responses EXCEPT ![q] = Erase(@, n)]
    /\ \/ /\ m \in pseudosync /\ waiter # NULL
          /\ IF waiting[waiter] = << >>
             THEN /\ messages' = [messages EXCEPT ![waiter] =
                                                    Append(@, Pending(m, t))]
                  /\ owner' = [owner EXCEPT ![m] = NULL]
                  /\ stage' = [stage EXCEPT ![m] = "reply"]
                  /\ UNCHANGED <<sched, waiting>>
             ELSE /\ waiting' = [waiting EXCEPT ![waiter] = Tail(@)]
                  /\ owner' = [owner EXCEPT ![m] = Head(waiting[waiter])]
                  /\ stage' = [stage EXCEPT ![m] = "used"]
                  /\ sched' = addTask(sched, Head(waiting[waiter]))
                  /\ UNCHANGED messages
          /\ UNCHANGED calling
       \/ /\ m \notin pseudosync
          /\ sched' = addTask(setCurrentTask(sched, c, waiter), t)
          /\ owner' = [owner EXCEPT ![m] = waiter]
          /\ stage' = [stage EXCEPT ![m] = "used"]
          /\ calling' = [calling EXCEPT ![waiter] = NULL]
          /\ UNCHANGED <<messages, waiting>>
    /\ UNCHANGED <<sync, pseudosync>>

(* msg_wait                                                                *)
MsgWait(c, q) ==
    LET t == sched.current[c] IN
    /\ t # Idle
    /\ \/ /\ messages[q] = << >>
          /\ waiting' = [waiting EXCEPT ![q] = Append(@, t)]
          /\ sched' = setNextRunnable(sched, c)
          /\ UNCHANGED <<messages, responses, owner, stage>>
       \/ /\ messages[q] # << >>
          /\ LET mp == Head(messages[q])  m == mp.key IN
                /\ messages' = [messages EXCEPT ![q] = Tail(@)]
                /\ responses' = IF m \in sync
                                THEN [responses EXCEPT ![q] = <<mp>> \o @]
                                ELSE responses
                /\ owner' = [owner EXCEPT ![m] = t]
                /\ stage' = [stage EXCEPT ![m] =
                                CASE @ = "reply" -> "used"
                                  [] @ = "request" /\ m \in sync -> "serving"
                                  [] OTHER -> "ready"]
          /\ UNCHANGED <<sched, waiting>>
    /\ UNCHANGED <<sync, pseudosync, calling>>

-----------------------------------------------------------------------------
(* A server only waits for more work once it has dealt with what it has; a *)
(* client only waits for replies that are still to come.                   *)
ServerWait(c) ==
    /\ sched.current[c] \in Servers
    /\ \A m \in Msgs : owner[m] # sched.current[c]
    /\ MsgWait(c, RequestQ)

ClientWait(c) ==
    /\ sched.current[c] \in Clients
    /\ Cardinality({t \in Clients : \E i \in DOMAIN waiting[ReplyQ] :
                                        waiting[ReplyQ][i] = t})
         < Cardinality({m \in pseudosync : stage[m] \in {"request", "serving",
                                                         "reply"}})
    /\ MsgWait(c, ReplyQ)

SchedStep(c) ==
    /\ \/ "yield" \in Calls /\ TaskYield(c)
       \/ "sleep" \in Calls /\ TimeNanosleep(c)
       \/ /\ "affinity" \in Calls
          /\ \/ TaskMigrateToMaster(c)
             \/ task_affinity_unpin(c)
             \/ task_affinity_pin(c) /\ sched'.pinned \in [Tasks -> 0..MaxPinned]
    /\ UNCHANGED <<qvars, uvars>>

Decrementer(c) ==
    kernel_execute_decrementer(c) /\ UNCHANGED <<qvars, uvars>>

ServerStep(c) ==
    /\ sched.current[c] \in Servers
    /\ \/ ServerWait(c)
       \/ \E m \in Msgs : MsgRespond(c, m) \/ msg_free(c, m)

Init ==
    /\ SchedulerInit
    /\ messages  = [q \in Queues |-> << >>]
    /\ responses = [q \in Queues |-> << >>]
    /\ waiting   = [q \in Queues |-> << >>]
    /\ sync = {} /\ pseudosync = {}
    /\ owner   = [m \in Msgs |-> NULL]
    /\ stage   = [m \in Msgs |-> "free"]
    /\ calling = [t \in Tasks |-> NULL]

Next ==
    \E c \in Cpus :
        \/ SchedStep(c) \/ Decrementer(c) \/ ServerStep(c) \/ ClientWait(c)
        \/ \E m \in Msgs :
              \/ msg_allocate(c, m)
              \/ "send" \in Calls /\ MsgSend(c, m)
              \/ MsgSendRecv(c, m, NULL)
              \/ /\ "noblk" \in Calls
                 /\ Len(responses[ReplyQ]) < MaxPending
                 /\ MsgSendRecv(c, m, ReplyQ)
              \/ sched.current[c] \in Clients /\ msg_free(c, m)

SafeSpec == Init /\ [][Next]_vars

(* A decrementer interrupt by which every delayed task of the CPU is due.  *)
AllDue(c) ==
    /\ sched' = setNextRunnable(returnRunnable(
                   checkReleaseTasks(sched, c, Len(sched.delayed[c])), c), c)
    /\ UNCHANGED <<qvars, uvars>>

(* The decrementer keeps firing and time passes on every CPU; a server     *)
(* that gets to run again and again gets its next call done in one of its  *)
(* time slices.  Nothing is asked of clients.                              *)
Fairness ==
    /\ \A c \in Cpus : WF_vars(AllDue(c))
    /\ \A t \in Servers :
          SF_vars(\E c \in Cpus : Running(c, t) /\ ServerStep(c))

Spec == SafeSpec /\ Fairness

-----------------------------------------------------------------------------
(* The values of queues, messages and tasks.                               *)
MsgTypeOK ==
    /\ SchedulerTypeOK
    /\ messages  \in [Queues -> Seq([key : Msgs, task : Tasks \cup Queues])]
    /\ responses \in [Queues -> Seq([key : Msgs, task : Tasks \cup Queues])]
    /\ waiting \in [Queues -> Seq(Tasks)]
    /\ sync \subseteq Msgs /\ pseudosync \subseteq Msgs
    /\ owner \in [Msgs -> Tasks \cup {NULL}]
    /\ stage \in [Msgs -> Stages]
    /\ calling \in [Tasks -> Msgs \cup {NULL}]

(* The entries of a queue's lists that name t as the task to release.      *)
Blocked(t) ==
    UNION {{<<"messages", q, i>> : i \in {j \in DOMAIN messages[q] :
                messages[q][j] = Pending(calling[t], t)}}
           \cup {<<"responses", q, i>> : i \in {j \in DOMAIN responses[q] :
                responses[q][j] = Pending(calling[t], t)}}
           \cup {<<"waiting", q, i>> : i \in {j \in DOMAIN waiting[q] :
                waiting[q][j] = t}} : q \in Queues}

(* A task is in exactly one place: running on one CPU, on one run queue,   *)
(* delayed, waiting for a message or waiting for a response.  So no task   *)
(* runs on two CPUs and none is forgotten, whatever CPUs hand over.        *)
EachTaskInOnePlace ==
    \A t \in Tasks : Cardinality(Places(t) \cup Blocked(t)) = 1

(* "The calling [client] thread blocks until the recipient [server]        *)
(* receives and replies to the message": no task that called msg_sendrecv  *)
(* is scheduled before its own message has been responded to.              *)
SendRecvBlocks ==
    \A t \in Tasks : calling[t] # NULL => Places(t) = {}

(* On the queue servers read, the pending responses are exactly the        *)
(* messages a server has still to respond to, each once: msg_respond       *)
(* neither misses its client nor releases one twice.                       *)
RequestsOwed ==
    \A m \in Msgs :
        Cardinality({i \in DOMAIN responses[RequestQ] :
                        responses[RequestQ][i].key = m})
          = IF stage[m] = "serving" THEN 1 ELSE 0

(* The same of both queues: no pending response is kept for a message that *)
(* nobody will respond to.                                                 *)
EveryPendingResponseOwed ==
    \A q \in Queues : \A i \in DOMAIN responses[q] :
        stage[responses[q][i].key] = "serving"

(* "Pins a task onto the CPU it is currently executing on": while it is    *)
(* pinned only its own request to migrate to the master moves it.          *)
PinnedStaysPut ==
    [][\A t \in Tasks :
          sched.pinned[t] > 0 /\ sched'.cpu[t] # sched.cpu[t]
             => \E i \in DOMAIN sched.localq[Master] :
                    sched.localq[Master][i] = t]_vars

(* Every synchronous call is answered, with tasks preempted, delayed and   *)
(* handed from CPU to CPU on the way.                                      *)
EveryCallReturns ==
    \A t \in Clients : calling[t] # NULL ~> calling[t] = NULL

(* No ready task starves, though a send and a response hand the CPU over   *)
(* without looking at the run queue.                                       *)
ReadyTasksRun ==
    \A t \in Tasks :
        (\E i \in DOMAIN sched.runq : sched.runq[i] = t)
            ~> (\E c \in Cpus : sched.current[c] = t)
=============================================================================
