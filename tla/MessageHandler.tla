--------------------------- MODULE MessageHandler ---------------------------
(***************************************************************************)
(* The bridge between the kernel and the user-space daemons that serve it  *)
(* (src/src/kernel/msghandler.C), with the kernel's side of MsgWait and    *)
(* MsgRespond (syscall.C) for the messages it sends.                       *)
(*                                                                         *)
(* A handler runs under its subsystem's spinlock, so its operations are    *)
(* functions of the kernel state k, a record with at least the fields      *)
(*                                                                         *)
(*   sched     the scheduler (module Scheduler)                            *)
(*   messages  MessageQueue::messages, oldest first                        *)
(*   waiting   MessageQueue::waiting, first come first                     *)
(*   serving   the message each daemon has to respond to, or NULL: the     *)
(*             queue's responses list and the daemon's copy of the pointer *)
(*   pending   MessageHandler::iv_pending of each handler, newest first    *)
(*   ended     the tasks TaskManager::endTask was called for               *)
(*                                                                         *)
(* and c is the CPU the operation runs on.                                 *)
(***************************************************************************)
EXTENDS Scheduler

CONSTANTS Daemons,     \* the tasks that wait on the handlers' queue
          NULL

(* MessageHandler::handleResponse, the method every handler overrides: the *)
(* kernel state and the HandleResult after the response rc to message m    *)
(* for task t.  The last argument is a choice the method may leave open.   *)
CONSTANT handleResponse(_, _, _, _, _)

ASSUME HandlerAssumption ==
    Daemons \subseteq Tasks /\ NULL \notin Tasks \cup {Idle}

-----------------------------------------------------------------------------
(* Util::Locked::List: the newest entry for a key, and its removal.        *)
ForKey(list, key) == {i \in DOMAIN list : list[i].key = key}
find(list, key) ==
    CHOOSE i \in ForKey(list, key) : \A j \in ForKey(list, key) : i <= j
erase(list, n) == SubSeq(list, 1, n - 1) \o SubSeq(list, n + 1, Len(list))

(* Mutant: a message is sent for a key that already has one.               *)
SentNever(k, h, key) == FALSE

(* A message for this key is already on its way.                           *)
Sent(k, h, key) == ForKey(k.pending[h], key) # {}

(* Send <type, key, data> unless one is on its way, to a waiting daemon if *)
(* there is one, and block task t (NULL: nobody) until the response.  The  *)
(* CPU goes to that daemon at once, or leaves t for the next ready task.   *)
sendMessage(k, c, h, key, data, t) ==
    LET sent   == Sent(k, h, key)
        m      == [handler |-> h, key |-> key, data |-> data, done |-> FALSE]
        ready  == IF ~sent /\ k.waiting # << >> THEN Head(k.waiting) ELSE NULL
        posted == CASE sent -> k
                    [] ~sent /\ ready = NULL ->
                          [k EXCEPT !.messages = Append(@, m)]
                    [] ~sent /\ ready # NULL ->
                          [k EXCEPT !.waiting = Tail(@), !.serving[ready] = m]
        s      == k.sched
        next   == CASE t = s.current[c] /\ ready # NULL ->
                          setCurrentTask(s, c, ready)
                    [] t = s.current[c] /\ ready = NULL ->
                          setNextRunnable(s, c)
                    [] t # s.current[c] /\ ready # NULL ->
                          setCurrentTask(returnRunnable(s, c), c, ready)
                    [] t # s.current[c] /\ ready = NULL -> s
    IN  [posted EXCEPT !.sched = next,
                       !.pending[h] = <<[key |-> key, task |-> t]>> \o @]

(* The newest task that waits for message m is told the response rc.  The  *)
(* first one to resume gets the CPU unless it is pinned, another becomes   *)
(* ready; an error nobody handles ends it.  b is the kernel state and      *)
(* whether a task has been given the CPU so far.                           *)
answerNewest(b, c, m, rc, choice) ==
    LET list   == b.k.pending[m.handler]
        n      == find(list, m.key)
        t      == list[n].task
        r      == handleResponse(b.k, m, t, rc, choice)
        k      == [r.k EXCEPT !.pending[m.handler] = erase(@, n)]
        resume == r.result = "SUCCESS" \/ (r.result = "UNHANDLED_RC" /\ rc = 0)
        now    == ~b.restored /\ k.sched.pinned[t] = 0
    IN  CASE t = NULL \/ r.result = "CONTINUE_DEFER" -> [b EXCEPT !.k = k]
          [] t # NULL /\ resume /\ now ->
                [k |-> [k EXCEPT !.sched = setCurrentTask(@, c, t)],
                 restored |-> TRUE]
          [] t # NULL /\ resume /\ ~now ->
                [b EXCEPT !.k = [k EXCEPT !.sched = addTask(@, t)]]
          [] OTHER -> [b EXCEPT !.k = [k EXCEPT !.ended = @ \cup {t}]]

(* The response rc to message m: while there is a task that waits for the  *)
(* key, it is told.  (A response of another type, -EINVAL, tells nobody;   *)
(* the daemons give back the message they got.)                            *)
recvMessage(k, c, m, rc, choice) ==
    LET told[i \in 0..Len(k.pending[m.handler])] ==
            IF i = 0 THEN [k |-> k, restored |-> FALSE]
            ELSE IF ForKey(told[i - 1].k.pending[m.handler], m.key) # {}
                 THEN answerNewest(told[i - 1], c, m, rc, choice)
                 ELSE told[i - 1]
    IN  told[Len(k.pending[m.handler])].k

-----------------------------------------------------------------------------
(* msg_wait by the daemon that runs on c.                                  *)
MsgWait(k, c) ==
    LET d == k.sched.current[c] IN
    IF k.messages = << >>
    THEN [k EXCEPT !.waiting = Append(@, d),
                   !.sched = setNextRunnable(@, c)]
    ELSE [k EXCEPT !.messages = Tail(@), !.serving[d] = Head(k.messages)]

(* msg_respond by the daemon d that runs on c, to the message it has: if a *)
(* task it resumed has the CPU now, the daemon goes back to a run queue.   *)
MsgRespond(k, c, rc, choice) ==
    LET d == k.sched.current[c]
        r == recvMessage([k EXCEPT !.serving[d] = NULL],
                         c, k.serving[d], rc, choice)
    IN  IF r.sched.current[c] = d
        THEN r
        ELSE [r EXCEPT !.sched = addTask(@, d)]
=============================================================================
