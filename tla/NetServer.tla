----------------------------- MODULE NetServer ------------------------------
(***************************************************************************)
(* The kernel thread calling the net thread: the client functions of       *)
(* kernel-thread/src/syscall/net and the server loop of                    *)
(* net-thread/src/ipc/mod.rs, around the sockets of TcpStack.              *)
(*                                                                         *)
(* The kernel thread is one thread and Endpoint::call waits for the reply, *)
(* so at most one request is outstanding.  handle_ipc keeps SOCKET_VEC     *)
(* locked from the look-up of the socket to the end of the handler, polls  *)
(* of the device included.                                                 *)
(***************************************************************************)
EXTENDS TcpStack

CONSTANT
  Requests    \* the requests the kernel thread makes

RequestOps == {"new", "bind", "connect", "listen", "accept", "shutdown",
               "send", "recv", "set_nonblocking", "close"}

ASSUME RequestsAssumption == Requests \subseteq RequestOps

\* The sockets that can exist at once are finitely many.
ASSUME SocketsAssumption == IsFiniteSet(Sock) /\ None \notin Sock

VARIABLES
  vec,        \* SOCKET_VEC, with None for an empty slot
  kern,       \* the kernel thread, its last request and the result it saw
  srv         \* where handle_ipc is

netVars    == <<vec, kern, srv>>
serverVars == <<vars, netVars>>

SlotId == 0 .. Cardinality(Sock)

\* recv: waiting for a message; poll: inside a call that polls the device;
\* drop, dropping: a closed socket is dropped after the reply; lock: spinning
\* on SOCKET_VEC; panic: the thread has aborted.
SrvState == {"recv", "poll", "drop", "dropping", "lock", "panic"}

Results == {"Ok", "EINVAL", "code", "fd", "none"}

ServerTypeOK ==
  /\ TypeOK
  /\ vec \in Seq(Sock \cup {None}) /\ Len(vec) <= Cardinality(Sock)
  /\ kern \in [pc: {"ready", "wait", "panic"}, op: RequestOps, id: SlotId,
               port: LPort, res: Results]
  /\ srv \in SrvState

ServerInit ==
  /\ Init
  /\ vec = <<>>
  /\ kern = [pc |-> "ready", op |-> "new", id |-> 0, port |-> 0, res |-> "none"]
  /\ srv = "recv"

-----------------------------------------------------------------------------
(* SOCKET_VEC.                                                             *)

Live(id) == id < Len(vec) /\ vec[id + 1] # None

\* The socket the request in progress names.
Target == vec[kern.id + 1]

\* Mutant of AllocSocketId: off by one at the end of the vector.
AllocSocketId_Last(id) == id = IF vec = <<>> THEN 0 ELSE Len(vec) - 1

\* Mutant of AllocSocketId: empty slots are never used again.
AllocSocketId_Push(id) == id = Len(vec)

\* alloc_socket_id returns id: the first empty slot, or a new one at the end.
AllocSocketId(id) ==
  /\ \A j \in 1 .. id : vec[j] # None
  /\ id < Len(vec) => vec[id + 1] = None

Store(id, s) ==
  IF id = Len(vec) THEN Append(vec, s) ELSE [vec EXCEPT ![id + 1] = s]

-----------------------------------------------------------------------------
(* The kernel thread.                                                      *)

\* A system call enters send_net_ipc: a request for slot id; port is the one
\* of the address given to bind.
Request(op, id, port) ==
  /\ kern.pc = "ready"
  /\ kern' = [pc |-> "wait", op |-> op, id |-> id, port |-> port, res |-> "none"]
  /\ UNCHANGED <<vars, vec, srv>>

\* The errors sys_* turn into an errno; the arm for any other one is
\* panic!("Unknown Error!").
KnownErrors(op) ==
  IF op = "bind" THEN {"InvalidInput"} ELSE {"InvalidInput", "AddrInUse"}

\* What the kernel thread makes of the reply.  Lengths are always 0 here, as
\* sys_sendto and sys_recvfrom pass empty slices.  An error code of accept is
\* not negative and so is taken for a socket id; the reply to close has no
\* register, so its client decodes the id it sent.
Decode(op, ret) ==
  CASE op = "new"             -> "fd"
    [] op = "set_nonblocking" -> "none"
    [] op = "close"           -> IF kern.id = 0 THEN "Ok" ELSE "code"
    [] op = "accept"          -> "fd"
    [] OTHER                  -> IF ret \in {"Ok", "Len", "Eof"} THEN "Ok" ELSE "EINVAL"

\* The reply arrives: the kernel thread goes on, or panics.
Answer(ret) ==
  kern' = [kern EXCEPT
    !.pc = IF /\ kern.op \in {"bind", "connect", "listen", "shutdown", "send", "recv"}
              /\ ret \notin {"Ok", "Len", "Eof"} \cup KnownErrors(kern.op)
           THEN "panic" ELSE "ready",
    !.res = Decode(kern.op, ret)]

-----------------------------------------------------------------------------
(* handle_ipc.                                                             *)

Serving(op) == srv = "recv" /\ kern.pc = "wait" /\ kern.op = op

\* Mutant of Reply: shutdown, too, locks SOCKET_VEC again before its reply.
Reply_Relock(ret) ==
  IF kern.op \in {"accept", "shutdown"} /\ ret = "Ok"
  THEN srv' = "lock" /\ UNCHANGED kern
  ELSE /\ srv' = IF kern.op = "close" THEN "drop" ELSE "recv"
       /\ Answer(ret)

\* What follows the socket call.  accept's closure calls alloc_socket_id,
\* which locks SOCKET_VEC while handle_ipc still holds it; the lock is not
\* reentrant.
Reply(ret) ==
  IF kern.op = "accept" /\ ret = "Ok"
  THEN srv' = "lock" /\ UNCHANGED kern
  ELSE /\ srv' = IF kern.op = "close" THEN "drop" ELSE "recv"
       /\ Answer(ret)

\* Mutant of Respond: the reply does not wait for the poll loop.
Respond_Early ==
  IF call'.pc # "panic" THEN Reply(call'.ret)
                        ELSE srv' = "panic" /\ UNCHANGED kern

\* The socket call has returned, polls, or has panicked.
Respond ==
  IF call'.pc = "idle" THEN Reply(call'.ret)
                       ELSE srv' = call'.pc /\ UNCHANGED kern

\* The slot of the request is out of range or empty: index or unwrap panics.
ServeBadId ==
  /\ srv = "recv" /\ kern.pc = "wait" /\ kern.op # "new"
  /\ ~Live(kern.id)
  /\ srv' = "panic"
  /\ UNCHANGED <<vars, vec, kern>>

Handling(op) == Serving(op) /\ Live(kern.id) /\ UNCHANGED vec

ServeNew(s, h) ==
  /\ Serving("new")
  /\ New(s, h)
  /\ \E id \in 0 .. Len(vec) : AllocSocketId(id) /\ vec' = Store(id, s)
  /\ Respond

\* read_item finds the address at the offset of the client's pointer in the
\* page, gen_cap has put it at the start: unless that offset is 0, what is
\* read is the zero address of a fresh page.
ReadItem(a, p) == p = kern.port \/ (a = AnyIp /\ p = 0)

ServeBind(a, p) ==
  /\ Handling("bind")
  /\ ReadItem(a, p)
  /\ Bind(Target, a, p)
  /\ Respond

ServeListen                == Handling("listen")   /\ Listen(Target)                /\ Respond
ServeConnect(a, reachable) == Handling("connect")  /\ Connect(Target, a, reachable) /\ Respond
ServeAccept(n, a)          == Handling("accept")   /\ Accept(Target, n, a)          /\ Respond
ServeShutdown              == Handling("shutdown") /\ Shutdown(Target)              /\ Respond
ServeTransfer(op)          == Handling(op)         /\ Transfer(op, Target)          /\ Respond

ServeSetNonblocking(nb) ==
  Handling("set_nonblocking") /\ SetNonblocking(Target, nb) /\ Respond

\* take() empties the slot before close polls.
ServeClose ==
  /\ Serving("close") /\ Live(kern.id)
  /\ Close(Target)
  /\ vec' = [vec EXCEPT ![kern.id + 1] = None]
  /\ Respond

\* The poll loop of the socket call ends.
Resume ==
  /\ srv = "poll"
  /\ Completion
  /\ Respond
  /\ UNCHANGED vec

\* The socket taken out by close goes out of scope once the reply is sent.
DropClosed ==
  /\ srv = "drop"
  /\ Drop(call.s)
  /\ srv' = IF call'.pc = "poll" THEN "dropping" ELSE "recv"
  /\ UNCHANGED <<vec, kern>>

DropClosedDone ==
  /\ srv = "dropping"
  /\ DropDone
  /\ srv' = "recv"
  /\ UNCHANGED <<vec, kern>>

\* Segments and SYNs arrive while a call polls.
ServerNetwork ==
  /\ Network
  /\ srv' = IF call'.pc = "panic" THEN "panic" ELSE srv
  /\ UNCHANGED <<vec, kern>>

-----------------------------------------------------------------------------
KernelRequest ==
  \E op \in Requests, id \in SlotId, port \in LPort :
    /\ op = "new" => id = 0
    /\ op # "bind" => port = 0
    /\ Request(op, id, port)

Handle_ipc ==
  \/ \E s \in Sock, h \in Handle : ServeNew(s, h)
  \/ \E a \in AnyAddr, p \in LPort : ServeBind(a, p)
  \/ ServeListen
  \/ \E a \in Addr, reachable \in BOOLEAN : ServeConnect(a, reachable)
  \/ \E n \in Sock, a \in Addr : ServeAccept(n, a)
  \/ ServeShutdown
  \/ \E op \in {"send", "recv"} : ServeTransfer(op)
  \/ \E nb \in BOOLEAN : ServeSetNonblocking(nb)
  \/ ServeClose
  \/ ServeBadId
  \/ Resume
  \/ DropClosed
  \/ DropClosedDone

ServerNext == KernelRequest \/ Handle_ipc \/ ServerNetwork

\* The net thread keeps running: it has its own scheduling slot, and nothing
\* but a lock or a panic stops handle_ipc between a message and its reply.
ServerSpec ==
  ServerInit /\ [][ServerNext]_serverVars /\ WF_serverVars(Handle_ipc)

-----------------------------------------------------------------------------
(* Properties.                                                             *)

\* Every TcpSocket is in exactly one slot of SOCKET_VEC, so a socket id names
\* one socket for good; the only exceptions are the socket that close has
\* taken out and that is still to be dropped, and a connection that accept
\* has built but not stored.
SlotsHoldSockets ==
  /\ \A i, j \in DOMAIN vec : vec[i] = vec[j] /\ vec[i] # None => i = j
  /\ \A i \in DOMAIN vec : vec[i] # None => state[vec[i]] # "none"
  /\ \A s \in Sock : state[s] # "none" /\ (\A i \in DOMAIN vec : vec[i] # s) =>
       \/ srv \in {"poll", "drop", "dropping", "panic"} /\ call.s = s
       \/ srv = "lock" /\ state[s] = "CONNECTED"

\* While the kernel thread runs, the net thread waits for a request, is done
\* with one, or is dropping a socket: no call is ever left half way with
\* nobody waiting for its reply.
NoOrphanCall ==
  kern.pc # "wait" => srv \in {"recv", "drop", "dropping", "panic"} /\ (srv = "recv" => Idle)

\* Every request that does not wait for the network is answered, also one
\* that arrives while the socket of an earlier close is being dropped.
PromptRequestAnswered ==
  (kern.pc = "wait" /\ kern.op \in {"bind", "listen", "shutdown", "set_nonblocking", "close"})
    ~> (kern.pc # "wait" \/ srv = "panic")

\* "This function will block the calling thread until a new TCP connection is
\* established. When established, a new TcpSocket is returned."
AcceptReturns ==
  (kern.pc = "wait" /\ kern.op = "accept" /\ InPoll("accept")
     /\ ~NoneConnected(lport[call.s]) /\ \E n \in Sock : state[n] = "none")
    ~> (kern.pc # "wait" \/ srv = "panic")
=============================================================================
