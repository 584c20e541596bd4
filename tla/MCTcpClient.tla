----------------------------- MODULE MCTcpClient ----------------------------
(***************************************************************************)
(* The blocking calls of TcpStack, with a client that keeps its sockets in *)
(* blocking mode, binds no address and leaves the data transfer out: what  *)
(* liveness and long SYN queues need, in a graph TLC can search.  One of   *)
(* its sockets listens and the others connect.                             *)
(***************************************************************************)
EXTENDS MCTcpStack

Listener == CHOOSE s \in Sock : TRUE

ClientOperation ==
  \E s \in Sock :
    \/ \E h \in Handle : New(s, h)
    \/ \E p \in LPort : Bind(s, AnyIp, p)
    \/ s = Listener /\ Listen(s)
    \/ s # Listener /\ \E a \in Addr : Connect(s, a, TRUE)
    \/ \E n \in Sock, a \in Addr : Accept(s, n, a)
    \/ Drop(s)

ClientNext == ClientOperation \/ Completion \/ Network

\* The net thread has no other work than the call it runs: block_on polls,
\* tries again and yields, and is scheduled again after every yield.
ClientSpec == Init /\ [][ClientNext]_vars /\ WF_vars(Completion)

-----------------------------------------------------------------------------
\* A client of non-blocking sockets that retries what returned WouldBlock, and
\* asks poll for the state, for ever; the network delivers whenever it can.
RetryStep == \E s \in Sock : Poll(s) \/ \E op \in {"recv", "send"} : Transfer(op, s)

RetryNext ==
  \/ \E s \in Sock :
       \/ \E h \in Handle : New(s, h)
       \/ SetNonblocking(s, TRUE)
       \/ \E a \in Addr : Connect(s, a, TRUE)
  \/ RetryStep
  \/ Completion
  \/ Network

RetrySpec ==
  /\ Init /\ [][RetryNext]_vars
  /\ WF_vars(RetryStep) /\ WF_vars(Completion) /\ WF_vars(Network)
=============================================================================
