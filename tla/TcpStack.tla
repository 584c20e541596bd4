------------------------------ MODULE TcpStack ------------------------------
(***************************************************************************)
(* The TCP socket layer of the net thread: the TcpSocket objects of        *)
(* smoltcp_impl/tcp.rs, the LISTEN_TABLE of listen_table.rs and the        *)
(* SOCKET_SET of mod.rs, on top of the (external) smoltcp state machine.   *)
(*                                                                         *)
(* One thread runs every operation, one at a time.  The device is only     *)
(* looked at inside poll_interfaces, so segments are delivered only while  *)
(* an operation is at pc = "poll"; an operation that polls therefore takes *)
(* several steps, every other one a single step.                           *)
(*                                                                         *)
(* Payload bytes, peer addresses, Nagle and logging are left out.          *)
(***************************************************************************)
EXTENDS Integers, Sequences, FiniteSets

CONSTANTS
  Sock,       \* identities for TcpSocket objects; bounds how many live at once
  Handle,     \* identities for slots of SOCKET_SET; bounds how many live at once
  Addr,       \* specified local IP addresses
  AnyIp,      \* 0.0.0.0 in an IpEndpoint, None in an IpListenEndpoint
  None,       \* no handle, no listen table entry
  QueueMax,   \* LISTEN_QUEUE_SIZE
  PortNum,    \* PORT_NUM, the length of the listen table
  PortStart,  \* PORT_START, the first ephemeral port
  PortEnd     \* PORT_END, the last ephemeral port and the largest u16

ASSUME PortAssumption ==
  /\ PortNum \in Nat /\ PortStart \in Nat /\ PortEnd \in Nat
  /\ 0 < PortStart /\ PortStart < PortNum /\ PortStart <= PortEnd
  /\ QueueMax \in Nat

ASSUME NamesAssumption ==
  /\ AnyIp \notin Addr /\ None \notin Addr /\ None # AnyIp
  /\ None \notin Handle

VARIABLES
  state,      \* TcpSocket.state, "none" for a TcpSocket that does not exist
  handle,     \* TcpSocket.handle
  laddr,      \* TcpSocket.local_addr, the address
  lport,      \* TcpSocket.local_addr, the port
  nonblock,   \* TcpSocket.nonblock
  st,         \* the smoltcp state of every slot of SOCKET_SET, "free" if empty
  baddr,      \* the address of every smoltcp socket's bound endpoint
  entry,      \* LISTEN_TABLE: the address listened on, None when no entry
  queue,      \* LISTEN_TABLE: syn_queue
  curr,       \* CURR of get_ephemeral_port
  call        \* the operation in progress and the result of the last one

tcpVars   == <<state, handle, laddr, lport, nonblock>>
smolVars  == <<st, baddr>>
tableVars == <<entry, queue>>
vars      == <<state, handle, laddr, lport, nonblock,
               st, baddr, entry, queue, curr, call>>

SockState == {"none", "CLOSED", "BUSY", "CONNECTING", "CONNECTED", "LISTENING"}

\* Closing stands for FinWait1, FinWait2, Closing and LastAck, the states after
\* a local close; Closed also for TimeWait, which no code of this layer tells
\* apart from it (a socket of a SYN queue is never closed locally).
SmolState == {"Closed", "Listen", "SynSent", "SynReceived", "Established",
              "CloseWait", "Closing"}

Ops  == {"new", "connect", "bind", "listen", "accept", "shutdown", "close",
         "recv", "send", "poll", "set_nonblocking", "drop"}
Rets == {"Ok", "Len", "Eof", "WouldBlock", "InvalidInput", "AlreadyExists",
         "AddrInUse", "BadState", "ConnectionRefused", "ConnectionReset",
         "NotConnected", "pending"}

Calls == [op: Ops, s: Sock, pc: {"idle", "poll", "panic"}, ret: Rets]

Port     == 0 .. PortNum - 1
LPort    == 0 .. PortEnd
AnyAddr  == Addr \cup {AnyIp}

TypeOK ==
  /\ state \in [Sock -> SockState]
  /\ handle \in [Sock -> Handle \cup {None}]
  /\ laddr \in [Sock -> AnyAddr]
  /\ lport \in [Sock -> LPort]
  /\ nonblock \in [Sock -> BOOLEAN]
  /\ st \in [Handle -> SmolState \cup {"free"}]
  /\ baddr \in [Handle -> AnyAddr]
  /\ entry \in [Port -> AnyAddr \cup {None}]
  /\ queue \in [Port -> Seq(Handle)]
  /\ curr \in PortStart .. PortEnd
  /\ call \in Calls

Init ==
  /\ state = [s \in Sock |-> "none"]
  /\ handle = [s \in Sock |-> None]
  /\ laddr = [s \in Sock |-> AnyIp]
  /\ lport = [s \in Sock |-> 0]
  /\ nonblock = [s \in Sock |-> FALSE]
  /\ st = [h \in Handle |-> "free"]
  /\ baddr = [h \in Handle |-> AnyIp]
  /\ entry = [p \in Port |-> None]
  /\ queue = [p \in Port |-> <<>>]
  /\ curr = PortStart
  /\ \E s \in Sock : call = [op |-> "drop", s |-> s, pc |-> "idle", ret |-> "Ok"]

-----------------------------------------------------------------------------
(* The net thread runs one operation at a time.                            *)

Idle == call.pc = "idle"

Return(op, s, r) == call' = [op |-> op, s |-> s, pc |-> "idle", ret |-> r]
Block(op, s)     == call' = [op |-> op, s |-> s, pc |-> "poll", ret |-> "pending"]
Panic(op, s)     == call' = [op |-> op, s |-> s, pc |-> "panic", ret |-> "pending"]

InPoll(op) == call.pc = "poll" /\ call.op = op

-----------------------------------------------------------------------------
(* smoltcp's predicates on a socket's state.                               *)

IsOpen(h)   == st[h] # "Closed"
IsActive(h) == st[h] \notin {"Closed", "Listen"}
MaySend(h)  == st[h] \in {"Established", "CloseWait"}

\* The state after tcp::Socket::close().
AfterClose(x) ==
  CASE x \in {"Listen", "SynSent"}                       -> "Closed"
    [] x \in {"SynReceived", "Established", "CloseWait"} -> "Closing"
    [] OTHER                                             -> x

\* What one segment or one timer may do to a socket.
Segments(x) ==
  CASE x = "SynSent"     -> {"Established", "SynReceived", "Closed"}
    [] x = "SynReceived" -> {"Established", "CloseWait", "Listen"}
    [] x = "Established" -> {"CloseWait", "Closed"}
    [] x = "CloseWait"   -> {"Closed"}
    [] x = "Closing"     -> {"Closed"}
    [] OTHER             -> {}

-----------------------------------------------------------------------------
(* Ephemeral ports and the bound endpoint of a socket.                     *)

Span == PortEnd - PortStart + 1

\* Mutant of Cycle: CURR is not wrapped at PORT_END.
Cycle_NoWrap(k) == curr + k

\* The k-th port from CURR on, wrapping from PORT_END to PORT_START.
Cycle(k) == PortStart + ((curr - PortStart + k) % Span)

CanListen(p) == entry[p] = None

\* The k-th port from curr ends the search: can_listen indexes past the end
\* of the table there, or the port is free.
SearchEndsAt(k) == Cycle(k) \in Port => CanListen(Cycle(k))

\* The search of get_ephemeral_port ends at its (k+1)-st port.
GetEphemeralPort(k) ==
  /\ SearchEndsAt(k)
  /\ \A j \in 0 .. k - 1 : ~SearchEndsAt(j)

NoEphemeralPort == \A k \in 0 .. Span - 1 : ~SearchEndsAt(k)

\* The port that bound_endpoint or bind obtains when asked for port p, after
\* k + 1 tries if it is an ephemeral one, and what that does to CURR.
PortChoice(p, port, k) ==
  \/ /\ p # 0
     /\ port = p /\ k = 0
     /\ curr' = curr
  \/ /\ p = 0
     /\ GetEphemeralPort(k)
     /\ port = Cycle(k)
     /\ curr' = Cycle(k + 1)

\* get_ephemeral_port panics: the table has no such index.
EphemeralPanics(p, port) == p = 0 /\ port >= PortNum
-----------------------------------------------------------------------------
(* Steps of the listen table and of the socket set.                        *)

\* SocketSetWrapper::bind_check followed by the rest of bind: the check
\* compares addresses only, and an unspecified one is never bound.  Nothing
\* in the program sets reuse_addr, so the check always runs.
BindCheck(s, a) ==
  IF \E h \in Handle : st[h] # "free" /\ baddr[h] = a /\ a # AnyIp
  THEN Return("bind", s, "AddrInUse") /\ UNCHANGED baddr
  ELSE Return("bind", s, "Ok") /\ baddr' = [baddr EXCEPT ![handle[s]] = a]

\* Mutant of ListenTableListen: an existing entry is overwritten.
ListenTableListen_NoCheck(s, port) ==
  /\ port < PortNum
  /\ entry' = [entry EXCEPT ![port] = laddr[s]]
  /\ queue' = [queue EXCEPT ![port] = <<>>]
  /\ state' = [state EXCEPT ![s] = "LISTENING"]
  /\ Return("listen", s, "Ok")

\* ListenTable::listen, called by TcpSocket::listen.
ListenTableListen(s, port) ==
  \/ /\ port >= PortNum
     /\ Panic("listen", s)
     /\ UNCHANGED <<state, tableVars>>
  \/ /\ port < PortNum /\ entry[port] # None
     /\ Return("listen", s, "AddrInUse")
     /\ UNCHANGED <<state, tableVars>>
  \/ /\ port < PortNum /\ entry[port] = None
     /\ entry' = [entry EXCEPT ![port] = laddr[s]]
     /\ queue' = [queue EXCEPT ![port] = <<>>]
     /\ state' = [state EXCEPT ![s] = "LISTENING"]
     /\ Return("listen", s, "Ok")

\* Mutant of Unlisten: the entry's Drop does not remove the sockets.
Unlisten_KeepSockets(port) ==
  /\ entry' = [entry EXCEPT ![port] = None]
  /\ queue' = [queue EXCEPT ![port] = <<>>]
  /\ UNCHANGED smolVars

\* ListenTable::unlisten: the entry is dropped and with it every socket of
\* its SYN queue.
Unlisten(port) ==
  /\ entry' = [entry EXCEPT ![port] = None]
  /\ queue' = [queue EXCEPT ![port] = <<>>]
  /\ st' = [h \in Handle |->
              IF \E i \in 1 .. Len(queue[port]) : queue[port][i] = h
              THEN "free" ELSE st[h]]
  /\ baddr' = baddr

\* Mutant of IsConnected: a half-open connection counts as connected.
IsConnected_HalfOpen(h) == st[h] # "Listen"

\* listen_table.rs is_connected: anything that is not a pending handshake.
IsConnected(h) == st[h] \notin {"Listen", "SynReceived"}

\* Mutant of FirstConnected: some connected socket, not the first.
FirstConnected_Any(port, i) ==
  i \in 1 .. Len(queue[port]) /\ IsConnected(queue[port][i])

\* Mutant of FirstConnected: only the front of the queue is looked at.
FirstConnected_Front(port, i) ==
  i = 1 /\ queue[port] # <<>> /\ IsConnected(queue[port][i])

\* The index accept picks: the first connected socket of the queue.
FirstConnected(port, i) ==
  /\ i \in 1 .. Len(queue[port])
  /\ IsConnected(queue[port][i])
  /\ \A j \in 1 .. i - 1 : ~IsConnected(queue[port][j])

NoneConnected(port) ==
  \A i \in 1 .. Len(queue[port]) : ~IsConnected(queue[port][i])

\* Mutant of SwapRemoveFront: the front is popped whatever the index.
SwapRemoveFront_Pop(q, i) == Tail(q)

\* VecDeque::swap_remove_front: the front takes the place of the i-th.
SwapRemoveFront(q, i) ==
  [j \in 1 .. Len(q) - 1 |-> IF j + 1 = i THEN q[1] ELSE q[j + 1]]

-----------------------------------------------------------------------------
(* Operations on TcpSocket.                                                *)

\* SOCKET_SET.add puts a fresh smoltcp socket into an empty slot h.
New(s, h) ==
  /\ Idle /\ state[s] = "none" /\ st[h] = "free"
  /\ st' = [st EXCEPT ![h] = "Closed"]
  /\ state' = [state EXCEPT ![s] = "CLOSED"]
  /\ handle' = [handle EXCEPT ![s] = h]
  /\ Return("new", s, "Ok")
  /\ UNCHANGED <<laddr, lport, nonblock, baddr, tableVars, curr>>

SetNonblocking(s, nb) ==
  /\ Idle /\ state[s] # "none"
  /\ nonblock' = [nonblock EXCEPT ![s] = nb]
  /\ Return("set_nonblocking", s, "Ok")
  /\ UNCHANGED <<state, handle, laddr, lport, smolVars, tableVars, curr>>

\* An operation that fails before it changes anything.
Fail(op, s, r) ==
  /\ Return(op, s, r)
  /\ UNCHANGED <<tcpVars, smolVars, tableVars, curr>>

\* bind with an address and a port, 0 for an automatic one.
Bind(s, a, p) ==
  /\ Idle /\ state[s] # "none"
  /\ \/ /\ state[s] # "CLOSED"
        /\ Fail("bind", s, "InvalidInput")
     \/ /\ state[s] = "CLOSED" /\ p = 0 /\ NoEphemeralPort
        /\ Fail("bind", s, "AddrInUse")
     \/ /\ state[s] = "CLOSED"
        /\ \E port \in LPort, k \in 0 .. Span - 1 :
             /\ PortChoice(p, port, k)
             /\ UNCHANGED <<state, handle, nonblock, st, tableVars>>
             /\ \/ /\ EphemeralPanics(p, port)
                   /\ Panic("bind", s)
                   /\ UNCHANGED <<laddr, lport, baddr>>
                \/ /\ ~EphemeralPanics(p, port)
                   /\ laddr[s] # AnyIp \/ lport[s] # 0
                   /\ Return("bind", s, "InvalidInput")
                   /\ UNCHANGED <<laddr, lport, baddr>>
                \/ /\ ~EphemeralPanics(p, port)
                   /\ laddr[s] = AnyIp /\ lport[s] = 0
                   /\ laddr' = [laddr EXCEPT ![s] = a]
                   /\ lport' = [lport EXCEPT ![s] = port]
                   /\ BindCheck(s, a)

Listen(s) ==
  /\ Idle /\ state[s] # "none"
  /\ \/ /\ state[s] # "CLOSED"
        /\ Fail("listen", s, "Ok")
     \/ /\ state[s] = "CLOSED" /\ lport[s] = 0 /\ NoEphemeralPort
        /\ Fail("listen", s, "AddrInUse")
     \/ /\ state[s] = "CLOSED"
        /\ \E port \in LPort, k \in 0 .. Span - 1 :
             /\ PortChoice(lport[s], port, k)
             /\ UNCHANGED <<handle, laddr, nonblock, smolVars>>
             /\ \/ /\ EphemeralPanics(lport[s], port)
                   /\ Panic("listen", s)
                   /\ UNCHANGED <<state, lport, tableVars>>
                \/ /\ ~EphemeralPanics(lport[s], port)
                   /\ lport' = [lport EXCEPT ![s] = port]
                   /\ ListenTableListen(s, port)

\* connect up to block_on; reachable says whether the remote endpoint is
\* addressable, a is the source address smoltcp selects when none is bound.
Connect(s, a, reachable) ==
  /\ Idle /\ state[s] # "none"
  /\ \/ /\ state[s] # "CLOSED"
        /\ Fail("connect", s, "AlreadyExists")
     \/ /\ state[s] = "CLOSED" /\ lport[s] = 0 /\ NoEphemeralPort
        /\ Fail("connect", s, "AddrInUse")
     \/ /\ state[s] = "CLOSED"
        /\ \E port \in LPort, k \in 0 .. Span - 1 :
             /\ PortChoice(lport[s], port, k)
             /\ UNCHANGED <<handle, nonblock, baddr, tableVars>>
             /\ \/ /\ EphemeralPanics(lport[s], port)
                   /\ Panic("connect", s)
                   /\ UNCHANGED <<state, laddr, lport, st>>
                \/ /\ ~EphemeralPanics(lport[s], port)
                   /\ IsOpen(handle[s]) \/ ~reachable
                   /\ Return("connect", s,
                             IF IsOpen(handle[s]) THEN "BadState" ELSE "ConnectionRefused")
                   /\ UNCHANGED <<state, laddr, lport, st>>
                \/ /\ ~EphemeralPanics(lport[s], port)
                   /\ ~IsOpen(handle[s]) /\ reachable
                   /\ st' = [st EXCEPT ![handle[s]] = "SynSent"]
                   /\ laddr' = [laddr EXCEPT ![s] = IF @ = AnyIp THEN a ELSE @]
                   /\ lport' = [lport EXCEPT ![s] = port]
                   /\ state' = [state EXCEPT ![s] = "CONNECTING"]
                   /\ IF nonblock[s] THEN Return("connect", s, "WouldBlock")
                                     ELSE Block("connect", s)

\* poll_connect outside SynSent: the connection is up, or it has failed.
PollConnect(s) ==
  IF st[handle[s]] = "Established"
  THEN /\ state' = [state EXCEPT ![s] = "CONNECTED"]
       /\ UNCHANGED <<laddr, lport>>
  ELSE /\ state' = [state EXCEPT ![s] = "CLOSED"]
       /\ laddr' = [laddr EXCEPT ![s] = AnyIp]
       /\ lport' = [lport EXCEPT ![s] = 0]

\* Mutant of ConnectDone: a refused connection keeps the loop going.
ConnectDone_NoRefusal ==
  /\ InPoll("connect")
  /\ st[handle[call.s]] = "Established"
  /\ PollConnect(call.s)
  /\ Return("connect", call.s, "Ok")
  /\ UNCHANGED <<handle, nonblock, smolVars, tableVars, curr>>

\* One round of connect's block_on that does not end in WouldBlock.
ConnectDone ==
  /\ InPoll("connect")
  /\ st[handle[call.s]] # "SynSent"
  /\ PollConnect(call.s)
  /\ Return("connect", call.s, IF st[handle[call.s]] = "Established"
                               THEN "Ok" ELSE "ConnectionRefused")
  /\ UNCHANGED <<handle, nonblock, smolVars, tableVars, curr>>

\* The public poll; only a connecting socket changes.
Poll(s) ==
  /\ Idle /\ state[s] # "none"
  /\ IF state[s] = "CONNECTING" /\ st[handle[s]] # "SynSent"
     THEN PollConnect(s)
     ELSE UNCHANGED <<state, laddr, lport>>
  /\ Return("poll", s, "Ok")
  /\ UNCHANGED <<handle, nonblock, smolVars, tableVars, curr>>

\* LISTEN_TABLE.accept on the port of listener s when some connection is
\* ready; n is the identity of the TcpSocket that new_connected builds, a the
\* local address of the connection.  Its "not listen" error is left out: a
\* listener always has an entry (ListenersMatchTable).
TakeConnection(s, n, a) ==
  \E i \in 1 .. Len(queue[lport[s]]) :
    LET port == lport[s]
        h    == queue[port][i]
    IN /\ entry[port] # None
       /\ FirstConnected(port, i)
       /\ queue' = [queue EXCEPT ![port] = SwapRemoveFront(@, i)]
       /\ UNCHANGED <<entry, smolVars, curr>>
       /\ \/ /\ st[h] = "Closed"
             /\ Return("accept", s, "ConnectionReset")
             /\ UNCHANGED tcpVars
          \/ /\ st[h] # "Closed"
             /\ state[n] = "none"
             /\ state' = [state EXCEPT ![n] = "CONNECTED"]
             /\ handle' = [handle EXCEPT ![n] = h]
             /\ laddr' = [laddr EXCEPT ![n] = a]
             /\ lport' = [lport EXCEPT ![n] = port]
             /\ Return("accept", s, "Ok")
             /\ UNCHANGED nonblock

\* accept up to block_on, or all of it on a non-blocking socket.
Accept(s, n, a) ==
  /\ Idle /\ state[s] # "none"
  /\ \/ /\ state[s] # "LISTENING"
        /\ Fail("accept", s, "InvalidInput")
     \/ /\ state[s] = "LISTENING" /\ ~nonblock[s]
        /\ Block("accept", s)
        /\ UNCHANGED <<tcpVars, smolVars, tableVars, curr>>
     \/ /\ state[s] = "LISTENING" /\ nonblock[s]
        /\ IF NoneConnected(lport[s])
           THEN Fail("accept", s, "WouldBlock")
           ELSE TakeConnection(s, n, a)

\* One round of accept's block_on that does not end in WouldBlock.
AcceptDone(n, a) ==
  /\ InPoll("accept")
  /\ TakeConnection(call.s, n, a)

\* What one call of recv's or send's closure may return; whether the
\* receive buffer holds data or the transmit buffer has room is smoltcp's.
TransferResults(op, h) ==
  IF op = "recv"
  THEN {"Len"} \cup (CASE ~IsActive(h)             -> {"ConnectionRefused"}
                      [] st[h] = "Established"     -> {"WouldBlock"}
                      [] st[h] = "Closing"         -> {"Eof", "WouldBlock"}
                      [] OTHER                     -> {"Eof"})
  ELSE IF IsActive(h) /\ MaySend(h) THEN {"Len", "WouldBlock"}
                                    ELSE {"ConnectionReset"}

Transfer(op, s) ==
  /\ Idle /\ state[s] # "none"
  /\ UNCHANGED <<tcpVars, smolVars, tableVars, curr>>
  /\ \/ /\ state[s] = "CONNECTING"
        /\ Return(op, s, "WouldBlock")
     \/ /\ state[s] \notin {"CONNECTING", "CONNECTED"}
        /\ Return(op, s, "NotConnected")
     \/ /\ state[s] = "CONNECTED" /\ nonblock[s]
        /\ \E r \in TransferResults(op, handle[s]) : Return(op, s, r)
     \/ /\ state[s] = "CONNECTED" /\ ~nonblock[s]
        /\ Block(op, s)

TransferDone(op) ==
  /\ InPoll(op)
  /\ \E r \in TransferResults(op, handle[call.s]) \ {"WouldBlock"} :
       Return(op, call.s, r)
  /\ UNCHANGED <<tcpVars, smolVars, tableVars, curr>>

\* The part of shutdown before poll_interfaces, for a stream or a listener;
\* drop runs it too.
StartShutdown(op, s) ==
  /\ state' = [state EXCEPT ![s] = "BUSY"]
  /\ laddr' = [laddr EXCEPT ![s] = AnyIp]
  /\ lport' = [lport EXCEPT ![s] = 0]
  /\ Block(op, s)
  /\ UNCHANGED <<handle, nonblock, curr>>
  /\ \/ /\ state[s] = "CONNECTED"
        /\ st' = [st EXCEPT ![handle[s]] = AfterClose(@)]
        /\ UNCHANGED <<baddr, tableVars>>
     \/ /\ state[s] = "LISTENING"
        /\ Unlisten(lport[s])

Shutdown(s) ==
  /\ Idle /\ state[s] # "none"
  /\ \/ StartShutdown("shutdown", s)
     \/ /\ state[s] \notin {"CONNECTED", "LISTENING"}
        /\ Fail("shutdown", s, "Ok")

ShutdownDone ==
  /\ InPoll("shutdown")
  /\ state' = [state EXCEPT ![call.s] = "CLOSED"]
  /\ Return("shutdown", call.s, "Ok")
  /\ UNCHANGED <<handle, laddr, lport, nonblock, smolVars, tableVars, curr>>

\* The end of drop: the handle leaves SOCKET_SET, and the identities of the
\* TcpSocket and of the slot are free again, with the fields of a new one.
RemoveSocket(s) ==
  /\ state' = [state EXCEPT ![s] = "none"]
  /\ handle' = [handle EXCEPT ![s] = None]
  /\ laddr' = [laddr EXCEPT ![s] = AnyIp]
  /\ lport' = [lport EXCEPT ![s] = 0]
  /\ nonblock' = [nonblock EXCEPT ![s] = FALSE]
  /\ st' = [st EXCEPT ![handle[s]] = "free"]
  /\ baddr' = [baddr EXCEPT ![handle[s]] = AnyIp]
  /\ Return("drop", s, "Ok")
  /\ UNCHANGED <<tableVars, curr>>

Drop(s) ==
  /\ Idle /\ state[s] # "none"
  /\ \/ StartShutdown("drop", s)
     \/ /\ state[s] \notin {"CONNECTED", "LISTENING"}
        /\ RemoveSocket(s)

DropDone ==
  /\ InPoll("drop")
  /\ RemoveSocket(call.s)

\* TcpSocket::close, the transmit half only.
Close(s) ==
  /\ Idle /\ state[s] # "none"
  /\ st' = [st EXCEPT ![handle[s]] = AfterClose(@)]
  /\ Block("close", s)
  /\ UNCHANGED <<tcpVars, baddr, tableVars, curr>>

CloseDone ==
  /\ InPoll("close")
  /\ Return("close", call.s, "Ok")
  /\ UNCHANGED <<tcpVars, smolVars, tableVars, curr>>

-----------------------------------------------------------------------------
(* What happens inside poll_interfaces.                                    *)

\* A segment or a timer moves socket h.
Segment(h) ==
  /\ call.pc = "poll"
  /\ \E x \in Segments(st[h]) : st' = [st EXCEPT ![h] = x]
  /\ UNCHANGED <<tcpVars, baddr, tableVars, curr, call>>

\* Mutant of Snooped: off by one at the queue's limit.
Snooped_OffByOne(port, a) ==
  /\ entry[port] \in {AnyIp, a}
  /\ Len(queue[port]) <= QueueMax

\* ListenTable::incoming_tcp_packet adds a socket for the SYN.
Snooped(port, a) ==
  /\ entry[port] \in {AnyIp, a}
  /\ Len(queue[port]) < QueueMax

InQueue(h, port) == \E i \in 1 .. Len(queue[port]) : queue[port][i] = h

\* A first SYN for the local endpoint a:port is snooped and then handed to
\* smoltcp, where one of the listening sockets takes it (g), or none does
\* because a connection already matches it or it does not parse.
Syn(port, a, h) ==
  /\ call.pc = "poll"
  /\ UNCHANGED <<tcpVars, entry, curr>>
  /\ \/ /\ port >= PortNum
        /\ Panic(call.op, call.s)
        /\ UNCHANGED <<smolVars, queue>>
     \/ /\ port < PortNum
        /\ Snooped(port, a)
        /\ st[h] = "free"
        /\ queue' = [queue EXCEPT ![port] = Append(@, h)]
        /\ \/ \E x \in {"Listen", "SynReceived"} : st' = [st EXCEPT ![h] = x]
           \/ \E g \in Handle :
                /\ InQueue(g, port) /\ st[g] = "Listen"
                /\ st' = [st EXCEPT ![h] = "Listen", ![g] = "SynReceived"]
        /\ UNCHANGED <<baddr, call>>
     \/ /\ port < PortNum
        /\ entry[port] \in {AnyIp, a} /\ ~Snooped(port, a)
        /\ InQueue(h, port) /\ st[h] = "Listen"
        /\ st' = [st EXCEPT ![h] = "SynReceived"]
        /\ UNCHANGED <<baddr, queue, call>>

-----------------------------------------------------------------------------
Operation ==
  \E s \in Sock :
    \/ \E h \in Handle : New(s, h)
    \/ \E nb \in BOOLEAN : SetNonblocking(s, nb)
    \/ \E a \in AnyAddr, p \in LPort : Bind(s, a, p)
    \/ Listen(s)
    \/ \E a \in Addr, reachable \in BOOLEAN : Connect(s, a, reachable)
    \/ Poll(s)
    \/ \E n \in Sock, a \in Addr : Accept(s, n, a)
    \/ \E op \in {"recv", "send"} : Transfer(op, s)
    \/ Shutdown(s)
    \/ Close(s)
    \/ Drop(s)

\* The net thread leaves the poll loop of the operation it is running.
Completion ==
  \/ ConnectDone
  \/ \E n \in Sock, a \in Addr : AcceptDone(n, a)
  \/ \E op \in {"recv", "send"} : TransferDone(op)
  \/ ShutdownDone
  \/ DropDone
  \/ CloseDone

Network ==
  \E h \in Handle :
    \/ Segment(h)
    \/ \E port \in LPort, a \in Addr : Syn(port, a, h)

Next == Operation \/ Completion \/ Network

Spec == Init /\ [][Next]_vars

-----------------------------------------------------------------------------
(* Properties.                                                             *)

QueueIndex(p) == 1 .. Len(queue[p])

\* A handle of SOCKET_SET has at most one owner, and an owned handle is
\* live.  with_socket and SOCKET_SET.remove panic on a removed handle, and a
\* slot is reused by the next add, so a second owner would operate on, or
\* destroy, another connection.
HandleOwnership ==
  /\ \A s \in Sock : (handle[s] = None) <=> (state[s] = "none")
  /\ \A s \in Sock : state[s] # "none" => st[handle[s]] # "free"
  /\ \A s, t \in Sock : handle[s] = handle[t] /\ handle[s] # None => s = t
  /\ \A p \in Port : \A i \in QueueIndex(p) :
       /\ st[queue[p][i]] # "free"
       /\ \A s \in Sock : handle[s] # queue[p][i]
  /\ \A p, r \in Port : \A i \in QueueIndex(p), j \in QueueIndex(r) :
       queue[p][i] = queue[r][j] => p = r /\ i = j

\* The listening sockets and the entries of LISTEN_TABLE correspond one to
\* one through the socket's local port: accept on a listening socket never
\* meets "not listen", shutdown of one listener never removes the entry of
\* another, and no entry stays behind that keeps its port in use for ever.
ListenersMatchTable ==
  /\ \A s \in Sock : state[s] = "LISTENING" =>
       /\ lport[s] \in Port
       /\ entry[lport[s]] # None
       /\ \A t \in Sock : state[t] = "LISTENING" /\ lport[t] = lport[s] => t = s
  /\ \A p \in Port :
       /\ entry[p] # None => \E s \in Sock : state[s] = "LISTENING" /\ lport[s] = p
       /\ entry[p] = None => queue[p] = <<>>

\* A SYN queue never exceeds LISTEN_QUEUE_SIZE, and its sockets are pending
\* handshakes or connections not yet closed from this side, so that
\* get_addr_tuple finds both endpoints of every socket accept hands out.
SynQueueSound ==
  \A p \in Port :
    /\ Len(queue[p]) <= QueueMax
    /\ \A i \in QueueIndex(p) :
         st[queue[p][i]] \in {"Listen", "SynReceived", "Established", "CloseWait", "Closed"}

\* A TcpSocket that says CONNECTED is past its handshake in smoltcp, whether
\* it came from connect or from accept: send and recv never run on a socket
\* that is still listening or waiting for the peer.
ConnectedIsEstablished ==
  \A s \in Sock : state[s] = "CONNECTED" =>
    st[handle[s]] \in {"Established", "CloseWait", "Closing", "Closed"}

\* What the operation in progress may rely on: the state its first half left
\* is still there after any number of polls.
CallSound ==
  call.pc = "poll" =>
    /\ call.op = "connect" => state[call.s] = "CONNECTING"
    /\ call.op = "accept" => state[call.s] = "LISTENING"
    /\ call.op \in {"recv", "send"} => state[call.s] = "CONNECTED"
    /\ call.op \in {"shutdown", "drop"} => state[call.s] = "BUSY"
    /\ call.op = "close" => state[call.s] # "none"

Owned(h) ==
  \/ \E s \in Sock : handle[s] = h
  \/ \E p \in Port : InQueue(h, p)

\* A slot of SOCKET_SET that stays live loses its owner only in one place:
\* accept takes a connection that was reset out of the SYN queue, and returns
\* ConnectionReset without removing it from the set.
LeakOnlyOnReset ==
  [][\A h \in Handle :
       Owned(h) /\ ~Owned(h)' /\ st'[h] # "free" =>
         st[h] = "Closed" /\ call'.op = "accept" /\ call'.ret = "ConnectionReset"]_vars

\* swap_remove_front reorders the SYN queue, but never moves a connection
\* that is ready behind one it preceded: with every accept it gets closer.
ReadyNeverMovesBack ==
  [][\A p \in Port : \A i \in 1 .. Len(queue[p]), j \in 1 .. Len(queue'[p]) :
       queue[p][i] = queue'[p][j] /\ IsConnected(queue[p][i]) => j <= i]_vars

\* A blocking accept returns once a connection of its queue is ready, however
\* the queue is ordered and whatever else the network delivers.
ReadyAcceptReturns ==
  (InPoll("accept") /\ ~NoneConnected(lport[call.s]) /\ \E n \in Sock : state[n] = "none")
    ~> ~InPoll("accept")

\* A blocking connect returns once the handshake has been decided.
DecidedConnectReturns ==
  (InPoll("connect") /\ st[handle[call.s]] # "SynSent") ~> ~InPoll("connect")

\* "If the IO operation could not be completed and needs to be retried, an
\* error with kind Err(WouldBlock) is returned.": a connection that a
\* non-blocking socket is told to wait for is decided at some time.
RetriedOperationCompletes ==
  \A s \in Sock : (state[s] = "CONNECTING" /\ nonblock[s]) ~> state[s] # "CONNECTING"

\* "If the given port is 0, it generates one automatically."
BindNeverPanics == ~(call.pc = "panic" /\ call.op = "bind")
=============================================================================
