----------------------------- MODULE MCTcpStack -----------------------------
EXTENDS TcpStack, TLC

\* No operator of TcpStack tells two sockets or two handles apart.
Symmetry == Permutations(Sock) \cup Permutations(Handle)

\* Between two operations nothing depends on which one ran last, and after a
\* panic nothing happens.
View ==
  IF call.pc = "panic" THEN <<"panic", call.op>>
  ELSE <<tcpVars, smolVars, tableVars, curr, IF Idle THEN "idle" ELSE call>>
=============================================================================
