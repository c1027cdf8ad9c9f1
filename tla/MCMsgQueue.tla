---------------------------- MODULE MCMsgQueue ----------------------------
(* Model values for MsgQueue.  Messages are interchangeable, and so are    *)
(* clients and servers among themselves; the master CPU is not like the    *)
(* others.                                                                 *)
EXTENDS MsgQueue, TLC

Symmetry ==
    Permutations(Msgs) \cup Permutations(Clients) \cup Permutations(Servers)
=============================================================================
