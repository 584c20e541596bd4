---------------------------- MODULE MCNetServer -----------------------------
EXTENDS NetServer

\* The requests system calls make, without the data transfer and shutdown.
SetupRequests == {"new", "bind", "listen", "accept"}

\* The first socket is a server's and the others are a client's: what the one
\* does not use is left out, so that TLC can search the graph for liveness.
ServerSide == {"bind", "listen", "accept", "set_nonblocking", "shutdown", "close"}
ClientSide == {"connect", "send", "recv", "set_nonblocking", "shutdown", "close"}

RoleRequest ==
  \E op \in Requests, id \in SlotId, port \in LPort :
    /\ op = "new" => id = 0
    /\ op # "bind" => port = 0
    /\ op = "new" \/ op \in (IF id = 0 THEN ServerSide ELSE ClientSide)
    /\ Request(op, id, port)

RoleSpec ==
  /\ ServerInit /\ [][RoleRequest \/ Handle_ipc \/ ServerNetwork]_serverVars
  /\ WF_serverVars(Handle_ipc)

\* No operator tells two free handles or two unused sockets apart, so one of
\* them stands for all.  A step with another one is a step with this one, so
\* the constraint disables no action.
TakesFirst ==
  /\ \A h \in Handle : st[h] = "free" /\ st'[h] # "free" =>
       h = CHOOSE g \in Handle : st[g] = "free"
  /\ \A s \in Sock : state[s] = "none" /\ state'[s] # "none" =>
       s = CHOOSE n \in Sock : state[n] = "none"
=============================================================================
