-------------------------- MODULE MsgWaitTimeout --------------------------
(***************************************************************************)
(* msg_wait_timeout (src/src/lib/syscall_msg.C): a caller that reads a     *)
(* message queue until a helper task, the waiter, sends it the "waiter     *)
(* done" message, after a time or once told to stop.                       *)
(*                                                                         *)
(* The two tasks share args, a variable on the caller's stack.  The queue  *)
(* has one reader; other tasks send real messages to it at any time.  The  *)
(* calls follow each other and the allocator may give every call the same  *)
(* address for its done message, which is the worst case.                  *)
(***************************************************************************)
EXTENDS Integers, Sequences

CONSTANTS Msgs,         \* the real messages
          Done,         \* args.waiter_done_msg
          Requested,    \* io_milliseconds at every call
          Width,        \* 2^64: unsigned arithmetic is modulo Width
          MaxCalls,     \* bound on the number of calls
          MaxElapsed    \* the clock is not followed beyond this

ASSUME TimeoutAssumption ==
    /\ Done \notin Msgs
    /\ Width \in Nat /\ Requested \in 0..(Width - 1)
    /\ MaxElapsed \in 1..(Width - 1) /\ MaxCalls \in Nat

VARIABLES queue, sent,               \* the queue; history: real messages sent
          caller, calls, results,
          got,                       \* history: real messages returned
          io_milliseconds,
          args_done,                 \* args.done
          waiter, ms_to_wait,
          sleeping,                  \* the waiter is in nanosleep
          elapsed                    \* whole milliseconds since start

cvars == <<caller, calls, results, got, io_milliseconds>>
wvars == <<waiter, ms_to_wait, sleeping>>
vars  == <<queue, sent, cvars, args_done, wvars, elapsed>>

-----------------------------------------------------------------------------
(* The caller                                                              *)

(* args, the done message, the start time and task_create                  *)
msg_wait_timeout ==
    /\ caller = "idle" /\ calls < MaxCalls
    /\ caller' = "wait"
    /\ calls' = calls + 1
    /\ io_milliseconds' = Requested
    /\ results' = << >>
    /\ args_done' = FALSE
    /\ waiter' = "begin"
    /\ elapsed' = 0
    /\ UNCHANGED <<queue, sent, got, ms_to_wait, sleeping>>

(* Mutant: the first message ends the wait.                                *)
WaitMsgReturns ==
    /\ caller = "wait" /\ queue # << >>
    /\ queue' = Tail(queue)
    /\ results' = IF Head(queue) = Done THEN results
                                        ELSE Append(results, Head(queue))
    /\ caller' = "finish"
    /\ UNCHANGED <<sent, calls, got, io_milliseconds, args_done, wvars,
                   elapsed>>

(* Mutant: only the first message is kept.                                 *)
WaitMsgDrops ==
    /\ caller = "wait" /\ queue # << >>
    /\ queue' = Tail(queue)
    /\ results' = IF Head(queue) = Done \/ args_done
                  THEN results ELSE Append(results, Head(queue))
    /\ caller' = IF Head(queue) = Done THEN "finish" ELSE "stop"
    /\ UNCHANGED <<sent, calls, got, io_milliseconds, args_done, wvars,
                   elapsed>>

(* msg_wait: the done message ends the loop, another one is kept.          *)
WaitMsg ==
    /\ caller = "wait" /\ queue # << >>
    /\ queue' = Tail(queue)
    /\ results' = IF Head(queue) = Done THEN results
                                        ELSE Append(results, Head(queue))
    /\ caller' = IF Head(queue) = Done THEN "finish" ELSE "stop"
    /\ UNCHANGED <<sent, calls, got, io_milliseconds, args_done, wvars,
                   elapsed>>

(* args.done = true                                                        *)
StopWaiter ==
    /\ caller = "stop"
    /\ args_done' = TRUE
    /\ caller' = "wait"
    /\ UNCHANGED <<queue, sent, calls, results, got, io_milliseconds, wvars,
                   elapsed>>

(* What is left of io_milliseconds, in unsigned arithmetic; 0 when the     *)
(* clock has not moved by a nanosecond.  The results are returned and args *)
(* and the done message are destroyed.                                     *)
Finish ==
    /\ caller = "finish"
    /\ \/ io_milliseconds' = (io_milliseconds - elapsed) % Width
       \/ elapsed = 0 /\ io_milliseconds' = 0
    /\ got' = got \o results
    /\ caller' = "idle"
    /\ UNCHANGED <<queue, sent, calls, results, args_done, wvars, elapsed>>

-----------------------------------------------------------------------------
(* msg_wait_timeout_waiter_task                                            *)

Signed(u) == IF u < Width \div 2 THEN u ELSE u - Width

(* int64_t ms_to_wait = args->milliseconds_to_wait                         *)
WaiterBegin ==
    /\ waiter = "begin"
    /\ ms_to_wait' = Signed(Requested)
    /\ waiter' = "test"
    /\ UNCHANGED <<queue, sent, cvars, args_done, sleeping, elapsed>>

(* Mutant: the last poll is skipped.                                       *)
WaiterTestShort ==
    /\ waiter = "test"
    /\ waiter' = IF ms_to_wait > 1 THEN "poll" ELSE "send"
    /\ sleeping' = (ms_to_wait > 1)
    /\ UNCHANGED <<queue, sent, cvars, args_done, ms_to_wait, elapsed>>

(* while (ms_to_wait > 0), nanosleep                                       *)
WaiterTest ==
    /\ waiter = "test"
    /\ waiter' = IF ms_to_wait > 0 THEN "poll" ELSE "send"
    /\ sleeping' = (ms_to_wait > 0)
    /\ UNCHANGED <<queue, sent, cvars, args_done, ms_to_wait, elapsed>>

(* Mutant: the remaining time is not counted down.                         *)
WaiterPollForever ==
    /\ waiter = "poll" /\ ~sleeping
    /\ waiter' = IF args_done THEN "send" ELSE "test"
    /\ UNCHANGED <<queue, sent, cvars, args_done, ms_to_wait, sleeping,
                   elapsed>>

(* ms_to_wait -= MS_PER_POLL, then the test of args->done                  *)
WaiterPoll ==
    /\ waiter = "poll" /\ ~sleeping
    /\ ms_to_wait' = ms_to_wait - 1
    /\ waiter' = IF args_done THEN "send" ELSE "test"
    /\ UNCHANGED <<queue, sent, cvars, args_done, sleeping, elapsed>>

(* msg_send, the last use of args; the waiter, detached, ends              *)
WaiterSend ==
    /\ waiter = "send"
    /\ queue' = Append(queue, Done)
    /\ waiter' = "ended"
    /\ UNCHANGED <<sent, cvars, args_done, ms_to_wait, sleeping, elapsed>>

-----------------------------------------------------------------------------
(* Other tasks and the clock                                               *)

SendReal(m) ==
    /\ \A i \in DOMAIN sent : sent[i] # m
    /\ queue' = Append(queue, m)
    /\ sent' = Append(sent, m)
    /\ UNCHANGED <<cvars, args_done, wvars, elapsed>>

(* A millisecond passes; whoever slept for one is ready again.             *)
Tick ==
    /\ elapsed' = IF elapsed < MaxElapsed THEN elapsed + 1 ELSE elapsed
    /\ sleeping' = FALSE
    /\ UNCHANGED <<queue, sent, cvars, args_done, waiter, ms_to_wait>>

Init ==
    /\ queue = << >> /\ sent = << >>
    /\ caller = "idle" /\ calls = 0 /\ results = << >> /\ got = << >>
    /\ io_milliseconds = Requested
    /\ args_done = FALSE
    /\ waiter = "ended" /\ ms_to_wait = 0 /\ sleeping = FALSE
    /\ elapsed = 0

Caller == WaitMsg \/ StopWaiter \/ Finish
Waiter == WaiterBegin \/ WaiterTest \/ WaiterPoll \/ WaiterSend

Next == \/ msg_wait_timeout \/ Caller \/ Waiter \/ Tick
        \/ \E m \in Msgs : SendReal(m)

(* Both tasks get to run and time passes.                                  *)
Fairness == WF_vars(Caller) /\ WF_vars(Waiter) /\ WF_vars(Tick)

Spec == Init /\ [][Next]_vars /\ Fairness

-----------------------------------------------------------------------------
(* The values of the caller's and the waiter's state.                      *)
TimeoutTypeOK ==
    /\ queue \in Seq(Msgs \cup {Done}) /\ sent \in Seq(Msgs)
    /\ caller \in {"idle", "wait", "stop", "finish"}
    /\ calls \in 0..MaxCalls
    /\ results \in Seq(Msgs) /\ got \in Seq(Msgs)
    /\ io_milliseconds \in 0..(Width - 1)
    /\ <<args_done, sleeping>> \in BOOLEAN \X BOOLEAN
    /\ waiter \in {"begin", "test", "poll", "send", "ended"}
    /\ ms_to_wait \in 0..Requested
    /\ elapsed \in 0..MaxElapsed

(* "D. We cannot allow the timeout message to remain on the queue in any   *)
(* circumstance", and args outlives the waiter's last use of it: between   *)
(* calls there is no waiter and no done message.                           *)
NothingLeftBehind ==
    caller = "idle" =>
        waiter = "ended" /\ \A i \in DOMAIN queue : queue[i] # Done

(* The queue q without its k-th message, and without its done message.     *)
Cut(q, k) == SubSeq(q, 1, k - 1) \o SubSeq(q, k + 1, Len(q))

WithoutDone(q) ==
    IF \E k \in DOMAIN q : q[k] = Done
    THEN Cut(q, CHOOSE k \in DOMAIN q : q[k] = Done)
    ELSE q

(* What the current call has collected.                                    *)
Pending == IF caller = "idle" THEN << >> ELSE results

(* "F. We must not lose real messages": what was sent is what was returned *)
(* followed by what is being collected and what is still queued, in order. *)
NoMessageLost == sent = got \o Pending \o WithoutDone(queue)

(* "Empty if the timeout elapsed before any messages were received": a     *)
(* call that returns nothing has waited for the whole time.                *)
NoEarlyTimeout ==
    caller = "finish" /\ results = << >> => elapsed >= Requested

(* Every call returns, with or without messages.                           *)
TimeoutCallReturns == caller # "idle" ~> caller = "idle"

(* "Returns any remaining milliseconds": never more than was asked for.    *)
RemainingTime == io_milliseconds <= Requested
=============================================================================
