---------------------------- MODULE NetworkProofs ---------------------------
(***************************************************************************)
(* The inductive invariant of TcpStack, and what follows from it: the      *)
(* ownership of socket handles, the agreement of the listening sockets     *)
(* with the listen table, and what a step may do to the owners of the      *)
(* slots of SOCKET_SET and to the order of the SYN queues, for any number  *)
(* of sockets, handles, addresses and ports.                               *)
(*                                                                         *)
(* The second part is what NetServer adds: the slots of SOCKET_VEC and the *)
(* sockets stay in step, and so do the kernel thread, handle_ipc and the   *)
(* call in progress.  A behaviour of the server is one of TcpStack, so     *)
(* that the theorems of the first part hold of it as well.                 *)
(***************************************************************************)
EXTENDS NetServer, FiniteSetTheorems, TLAPS

IInv ==
  /\ TypeOK
  /\ HandleOwnership
  /\ ListenersMatchTable
  /\ SynQueueSound
  /\ ConnectedIsEstablished
  /\ CallSound

\* The next candidate of get_ephemeral_port stays in the ephemeral range.
LEMMA CycleInRange ==
  ASSUME TypeOK, NEW k \in Nat
  PROVE  Cycle(k) \in PortStart .. PortEnd
<1>1. Span \in Nat \ {0} /\ curr - PortStart + k \in Nat
  BY PortAssumption DEF Span, TypeOK
<1>2. (curr - PortStart + k) % Span \in 0 .. Span - 1
  BY <1>1
<1> QED BY <1>1, <1>2, PortAssumption DEF Cycle, Span

LEMMA ZeroIsLPort == 0 \in LPort
BY PortAssumption DEF LPort

LEMMA InitInv == Init => IInv
<1> SUFFICES ASSUME Init PROVE IInv
  BY Zenon
<1>1. TypeOK
  <2>1. call \in Calls
    BY DEF Init, Calls, Ops, Rets
  <2> QED BY <2>1, PortAssumption DEF Init, TypeOK, SockState, AnyAddr, LPort, Port
<1>2. HandleOwnership /\ ListenersMatchTable /\ SynQueueSound
  BY PortAssumption, NamesAssumption DEF Init, HandleOwnership, ListenersMatchTable,
     SynQueueSound, QueueIndex, Port
<1>3. ConnectedIsEstablished /\ CallSound
  BY DEF Init, ConnectedIsEstablished, CallSound
<1> QED BY <1>1, <1>2, <1>3, Zenon DEF IInv

(* What an operation leaves in call.                                       *)

LEMMA CallType ==
  ASSUME NEW s \in Sock, NEW op \in Ops
  PROVE  /\ \A r \in Rets : Return(op, s, r) =>
              /\ call' \in Calls
              /\ call'.pc = "idle"
         /\ Panic(op, s) =>
              /\ call' \in Calls
              /\ call'.pc = "panic"
         /\ Block(op, s) =>
              /\ call' \in Calls
              /\ call'.pc = "poll" /\ call'.op = op /\ call'.s = s
BY DEF Return, Panic, Block, Rets, Calls

\* Who owns which handle depends on state, handle, st and the listen table only.
LEMMA SameOwners ==
  ASSUME HandleOwnership, SynQueueSound, ConnectedIsEstablished,
         UNCHANGED <<state, handle, st, tableVars>>
  PROVE  HandleOwnership' /\ SynQueueSound' /\ ConnectedIsEstablished'
<1>1. HandleOwnership'
  BY SMTT(20) DEF HandleOwnership, QueueIndex, tableVars
<1>2. SynQueueSound'
  BY DEF SynQueueSound, QueueIndex, tableVars
<1>3. ConnectedIsEstablished'
  BY DEF ConnectedIsEstablished
<1> QED BY <1>1, <1>2, <1>3, Zenon

LEMMA SameListeners ==
  ASSUME ListenersMatchTable, UNCHANGED <<state, lport, tableVars>>
  PROVE  ListenersMatchTable'
BY DEF ListenersMatchTable, tableVars

\* A step that changes nothing but call.
LEMMA CallOnlyStep ==
  ASSUME IInv, UNCHANGED <<tcpVars, smolVars, tableVars, curr>>,
         call' \in Calls,
         CallSound'
  PROVE  IInv'
<1> USE DEF tcpVars, smolVars
<1>1. TypeOK'
  BY Zenon DEF IInv, TypeOK, tableVars
<1>2. HandleOwnership' /\ ListenersMatchTable' /\ SynQueueSound' /\ ConnectedIsEstablished'
  BY SameOwners, SameListeners DEF IInv
<1> QED BY <1>1, <1>2, Zenon DEF IInv

LEMMA FailStep ==
  ASSUME IInv, NEW s \in Sock, NEW op \in Ops, NEW r \in Rets, Fail(op, s, r)
  PROVE  IInv'
<1>1. CallSound'
  BY CallType, Zenon DEF Fail, CallSound
<1> QED BY <1>1, CallType, CallOnlyStep, Zenon DEF Fail

(* The operations.                                                         *)

LEMMA NewStep ==
  ASSUME IInv, NEW s \in Sock, NEW h \in Handle, New(s, h)
  PROVE  IInv'
<1> USE DEF IInv
<1>7. call' \in Calls /\ call'.pc = "idle"
  BY CallType, Zenon DEF New, Ops, Rets
<1>1. TypeOK'
  BY <1>7, Zenon DEF New, TypeOK, SockState, SmolState, tableVars
<1>2. HandleOwnership'
  BY NamesAssumption DEF New, TypeOK, HandleOwnership, QueueIndex, tableVars
<1>3. ListenersMatchTable'
  BY DEF New, TypeOK, ListenersMatchTable, tableVars
<1>4. SynQueueSound'
  BY DEF New, TypeOK, SynQueueSound, HandleOwnership, QueueIndex, tableVars
<1>5. ConnectedIsEstablished'
  BY DEF New, TypeOK, ConnectedIsEstablished, HandleOwnership
<1>6. CallSound'
  BY <1>7, Zenon DEF CallSound
<1> QED BY <1>1, <1>2, <1>3, <1>4, <1>5, <1>6, Zenon

LEMMA SetNonblockingStep ==
  ASSUME IInv, NEW s \in Sock, NEW nb \in BOOLEAN, SetNonblocking(s, nb)
  PROVE  IInv'
<1> USE DEF IInv, SetNonblocking, smolVars
<1>4. call' \in Calls /\ call'.pc = "idle"
  BY CallType, Zenon DEF Ops, Rets
<1>1. TypeOK'
  BY <1>4, Zenon DEF TypeOK, tableVars
<1>2. HandleOwnership' /\ ListenersMatchTable' /\ SynQueueSound' /\ ConnectedIsEstablished'
  BY SameOwners, SameListeners
<1>3. CallSound'
  BY <1>4, Zenon DEF CallSound
<1> QED BY <1>1, <1>2, <1>3, Zenon

LEMMA PortChoiceKeepsCurr ==
  ASSUME TypeOK, NEW p, NEW port, NEW k \in 0 .. Span - 1, PortChoice(p, port, k)
  PROVE  curr' \in PortStart .. PortEnd
<1>1. k \in Nat /\ k + 1 \in Nat
  BY PortAssumption DEF Span
<1> QED BY <1>1, CycleInRange, Zenon DEF PortChoice, TypeOK

LEMMA BindStep ==
  ASSUME IInv, NEW s \in Sock, NEW a \in AnyAddr, NEW p \in LPort, Bind(s, a, p)
  PROVE  IInv'
<1> USE DEF IInv
<1>1. CASE Fail("bind", s, "InvalidInput") \/ Fail("bind", s, "AddrInUse")
  BY <1>1, FailStep, Zenon DEF Ops, Rets
<1>2. CASE /\ state[s] = "CLOSED"
           /\ ~(Fail("bind", s, "InvalidInput") \/ Fail("bind", s, "AddrInUse"))
  <2>1. PICK port \in LPort, k \in 0 .. Span - 1 :
          /\ PortChoice(p, port, k)
          /\ UNCHANGED <<state, handle, nonblock, st, tableVars>>
          /\ \/ Panic("bind", s) /\ UNCHANGED <<laddr, lport, baddr>>
             \/ Return("bind", s, "InvalidInput") /\ UNCHANGED <<laddr, lport, baddr>>
             \/ /\ laddr' = [laddr EXCEPT ![s] = a]
                /\ lport' = [lport EXCEPT ![s] = port]
                /\ BindCheck(s, a)
    BY <1>2, Zenon DEF Bind
  <2>2. /\ baddr' \in [Handle -> AnyAddr] /\ laddr' \in [Sock -> AnyAddr]
        /\ lport' \in [Sock -> LPort]
    <3>1. baddr' = baddr \/ baddr' = [baddr EXCEPT ![handle[s]] = a]
      BY <2>1, Zenon DEF BindCheck
    <3>2. /\ laddr' = laddr \/ laddr' = [laddr EXCEPT ![s] = a]
          /\ lport' = lport \/ lport' = [lport EXCEPT ![s] = port]
      BY <2>1, Zenon
    <3>3. baddr' \in [Handle -> AnyAddr]
      BY <3>1, Zenon DEF TypeOK
    <3>4. laddr' \in [Sock -> AnyAddr]
      BY <3>2, Zenon DEF TypeOK
    <3>5. lport' \in [Sock -> LPort]
      BY <3>2, Zenon DEF TypeOK
    <3> QED BY <3>3, <3>4, <3>5, Zenon
  <2>3. /\ call' \in Calls
        /\ call'.pc # "poll"
    BY <2>1, CallType, Zenon DEF BindCheck, Ops, Rets
  <2>4. TypeOK'
    BY <2>1, <2>2, <2>3, PortChoiceKeepsCurr, Zenon DEF TypeOK, tableVars
  <2>5. HandleOwnership' /\ SynQueueSound' /\ ConnectedIsEstablished'
    BY <2>1, SameOwners
  <2>6. \A t \in Sock : state[t] = "LISTENING" => lport'[t] = lport[t]
    BY <2>1, <1>2, Zenon DEF TypeOK
  <2>7. ListenersMatchTable'
    BY <2>1, <2>6 DEF ListenersMatchTable, tableVars
  <2>8. CallSound'
    BY <2>3, Zenon DEF CallSound
  <2> QED BY <2>4, <2>5, <2>7, <2>8, Zenon
<1> QED BY <1>1, <1>2, Zenon DEF Bind

LEMMA ListenStep ==
  ASSUME IInv, NEW s \in Sock, Listen(s)
  PROVE  IInv'
<1> USE DEF IInv
<1>1. CASE Fail("listen", s, "Ok") \/ Fail("listen", s, "AddrInUse")
  BY <1>1, FailStep, Zenon DEF Ops, Rets
<1>2. CASE /\ state[s] = "CLOSED"
           /\ ~(Fail("listen", s, "Ok") \/ Fail("listen", s, "AddrInUse"))
  <2>1. PICK port \in LPort, k \in 0 .. Span - 1 :
          /\ PortChoice(lport[s], port, k)
          /\ UNCHANGED <<handle, laddr, nonblock, smolVars>>
          /\ \/ Panic("listen", s) /\ UNCHANGED <<state, lport, tableVars>>
             \/ /\ lport' = [lport EXCEPT ![s] = port]
                /\ ListenTableListen(s, port)
    BY <1>2, Zenon DEF Listen
  <2>2. /\ call' \in Calls
        /\ call'.pc # "poll"
    BY <2>1, CallType, Zenon DEF ListenTableListen, Ops, Rets
  <2>3. CallSound'
    BY <2>2, Zenon DEF CallSound
  <2>4. \/ UNCHANGED <<state, tableVars>>
        \/ /\ port \in Port /\ entry[port] = None
           /\ entry' = [entry EXCEPT ![port] = laddr[s]]
           /\ queue' = [queue EXCEPT ![port] = <<>>]
           /\ state' = [state EXCEPT ![s] = "LISTENING"]
           /\ lport' = [lport EXCEPT ![s] = port]
    BY <2>1, PortAssumption DEF ListenTableListen, Port, LPort
  <2>5. lport' \in [Sock -> LPort] /\ \A t \in Sock : t # s => lport'[t] = lport[t]
    BY <2>1, Zenon DEF TypeOK
  <2>6. queue' = queue
    BY <2>4 DEF ListenersMatchTable, TypeOK, tableVars
  <2>7. TypeOK'
    <3>1. state' \in [Sock -> SockState]
      BY <2>4, Zenon DEF TypeOK, SockState, tableVars
    <3>3. entry' \in [Port -> AnyAddr \cup {None}]
      BY <2>4, ZenonT(30) DEF TypeOK, tableVars
    <3>2. curr' \in PortStart .. PortEnd
      BY <2>1, PortChoiceKeepsCurr, Zenon
    <3> QED BY <2>1, <2>2, <2>5, <2>6, <3>1, <3>2, <3>3, Zenon DEF TypeOK, smolVars
  <2>8. HandleOwnership'
    BY <1>2, <2>1, <2>4, <2>6 DEF HandleOwnership, QueueIndex, TypeOK, smolVars
  <2>9. SynQueueSound' /\ ConnectedIsEstablished'
    BY <2>1, <2>4, <2>6, Zenon
       DEF SynQueueSound, ConnectedIsEstablished, QueueIndex, TypeOK, smolVars
  <2>10. ListenersMatchTable'
    <3>1. CASE UNCHANGED <<state, tableVars>>
      BY <1>2, <2>5, <3>1 DEF ListenersMatchTable, tableVars
    <3>2. CASE /\ port \in Port /\ entry[port] = None
               /\ entry' = [entry EXCEPT ![port] = laddr[s]]
               /\ state' = [state EXCEPT ![s] = "LISTENING"]
               /\ lport' = [lport EXCEPT ![s] = port]
      <4>1. laddr[s] # None
        BY NamesAssumption, Zenon DEF TypeOK, AnyAddr
      <4> QED BY <1>2, <2>6, <3>2, <4>1 DEF ListenersMatchTable, TypeOK
    <3> QED BY <2>4, <3>1, <3>2, Zenon
  <2> QED BY <2>3, <2>7, <2>8, <2>9, <2>10, Zenon
<1> QED BY <1>1, <1>2, Zenon DEF Listen

\* The smoltcp socket of s changes state: nobody else owns it, so ownership
\* and the SYN queues are as before.
LEMMA OwnSocketMoves ==
  ASSUME IInv, NEW s \in Sock, state[s] # "none", NEW x \in SmolState,
         st' = [st EXCEPT ![handle[s]] = x], UNCHANGED <<handle, tableVars>>,
         \A t \in Sock : (state'[t] = "none") <=> (state[t] = "none")
  PROVE  /\ HandleOwnership' /\ SynQueueSound'
         /\ st' \in [Handle -> SmolState \cup {"free"}]
         /\ \A t \in Sock : t # s /\ state[t] # "none" => st'[handle[t]] = st[handle[t]]
         /\ st'[handle[s]] = x
<1> USE DEF IInv, tableVars
<1>1. handle[s] \in Handle
  BY SMTT(30) DEF HandleOwnership, TypeOK
<1>2. x # "free"
  BY Zenon DEF SmolState
<1>3. st' \in [Handle -> SmolState \cup {"free"}] /\ st'[handle[s]] = x
  BY <1>1, Zenon DEF TypeOK
<1>4. \A t \in Sock : t # s /\ state[t] # "none" =>
        handle[t] \in Handle /\ handle[t] # handle[s]
  BY <1>1 DEF HandleOwnership, TypeOK
<1>5. \A t \in Sock : t # s /\ state[t] # "none" => st'[handle[t]] = st[handle[t]]
  BY <1>1, <1>4, Zenon DEF TypeOK
<1>6. \A q \in Port : \A i \in QueueIndex(q) :
        queue[q][i] \in Handle /\ queue[q][i] # handle[s]
  BY DEF HandleOwnership, QueueIndex, TypeOK
<1>7. \A q \in Port : \A i \in QueueIndex(q) : st'[queue[q][i]] = st[queue[q][i]]
  BY <1>6, Zenon DEF TypeOK
<1>8. HandleOwnership'
  BY <1>2, <1>3, <1>5, <1>7 DEF HandleOwnership, QueueIndex
<1>9. SynQueueSound'
  BY <1>7 DEF SynQueueSound, QueueIndex
<1> QED BY <1>3, <1>5, <1>8, <1>9, Zenon

LEMMA ConnectStep ==
  ASSUME IInv, NEW s \in Sock, NEW a \in Addr, NEW reachable \in BOOLEAN,
         Connect(s, a, reachable)
  PROVE  IInv'
<1> USE DEF IInv
<1>1. CASE Fail("connect", s, "AlreadyExists") \/ Fail("connect", s, "AddrInUse")
  BY <1>1, FailStep, Zenon DEF Ops, Rets
<1>2. CASE /\ state[s] = "CLOSED"
           /\ ~(Fail("connect", s, "AlreadyExists") \/ Fail("connect", s, "AddrInUse"))
  <2>1. PICK port \in LPort, k \in 0 .. Span - 1 :
          /\ PortChoice(lport[s], port, k)
          /\ UNCHANGED <<handle, nonblock, baddr, tableVars>>
          /\ \/ /\ Panic("connect", s)
                /\ UNCHANGED <<state, laddr, lport, st>>
             \/ /\ \/ Return("connect", s, "BadState")
                   \/ Return("connect", s, "ConnectionRefused")
                /\ UNCHANGED <<state, laddr, lport, st>>
             \/ /\ st' = [st EXCEPT ![handle[s]] = "SynSent"]
                /\ laddr' = [laddr EXCEPT ![s] = IF @ = AnyIp THEN a ELSE @]
                /\ lport' = [lport EXCEPT ![s] = port]
                /\ state' = [state EXCEPT ![s] = "CONNECTING"]
                /\ \/ Return("connect", s, "WouldBlock")
                   \/ Block("connect", s)
    BY <1>2, Zenon DEF Connect
  <2>2. curr' \in PortStart .. PortEnd
    BY <2>1, PortChoiceKeepsCurr, Zenon
  <2>3. CASE /\ UNCHANGED <<state, laddr, lport, st>>
             /\ \/ Panic("connect", s)
                \/ Return("connect", s, "BadState")
                \/ Return("connect", s, "ConnectionRefused")
    <3>1. /\ call' \in Calls
          /\ call'.pc # "poll"
      BY <2>3, CallType, Zenon DEF Ops, Rets
    <3>2. TypeOK'
      BY <2>1, <2>2, <2>3, <3>1, Zenon DEF TypeOK, tableVars
    <3>3. HandleOwnership' /\ ListenersMatchTable' /\ SynQueueSound' /\ ConnectedIsEstablished'
      BY <2>1, <2>3, SameOwners, SameListeners
    <3> QED BY <3>1, <3>2, <3>3, Zenon DEF CallSound
  <2>4. CASE /\ st' = [st EXCEPT ![handle[s]] = "SynSent"]
             /\ laddr' = [laddr EXCEPT ![s] = IF @ = AnyIp THEN a ELSE @]
             /\ lport' = [lport EXCEPT ![s] = port]
             /\ state' = [state EXCEPT ![s] = "CONNECTING"]
             /\ Return("connect", s, "WouldBlock") \/ Block("connect", s)
    <3>1. \A t \in Sock : (state'[t] = "none") <=> (state[t] = "none")
      BY <1>2, <2>4, Zenon DEF TypeOK
    <3>2. /\ HandleOwnership' /\ SynQueueSound' /\ st' \in [Handle -> SmolState \cup {"free"}]
          /\ \A t \in Sock : t # s /\ state[t] # "none" => st'[handle[t]] = st[handle[t]]
      BY <1>2, <2>1, <2>4, <3>1, OwnSocketMoves, Zenon DEF SmolState
    <3>3. call' \in Calls
      BY <2>4, CallType, Zenon DEF Ops, Rets
    <3>4. state' \in [Sock -> SockState]
      BY <2>4, Zenon DEF TypeOK, SockState
    <3>5. laddr' \in [Sock -> AnyAddr]
      BY <2>4, Zenon DEF TypeOK, AnyAddr
    <3>6. lport' \in [Sock -> LPort]
      BY <2>4, Zenon DEF TypeOK
    <3>7. TypeOK'
      BY <2>1, <2>2, <3>2, <3>3, <3>4, <3>5, <3>6, Zenon DEF TypeOK, tableVars
    <3>8. ListenersMatchTable'
      BY <1>2, <2>1, <2>4, SMTT(30) DEF ListenersMatchTable, TypeOK, tableVars
    <3>9. ConnectedIsEstablished'
      <4>1. \A t \in Sock : state'[t] = "CONNECTED" => t # s /\ state[t] = "CONNECTED"
        BY <2>4, Zenon DEF TypeOK
      <4> QED BY <2>1, <3>2, <4>1, Zenon DEF ConnectedIsEstablished
    <3>10. CallSound'
      <4>1. state'[s] = "CONNECTING"
        BY <2>4, Zenon DEF TypeOK
      <4>2. call'.pc = "poll" => call'.op = "connect" /\ call'.s = s
        BY <2>4, CallType, Zenon DEF Ops, Rets
      <4> QED BY <4>1, <4>2, Zenon DEF CallSound
    <3> QED BY <3>2, <3>7, <3>8, <3>9, <3>10, Zenon
  <2> QED BY <2>1, <2>3, <2>4, Zenon
<1> QED BY <1>1, <1>2, Zenon DEF Connect

\* Ending a connection attempt, from connect or from poll.
LEMMA PollConnectStep ==
  ASSUME IInv, NEW s \in Sock, state[s] = "CONNECTING", PollConnect(s),
         UNCHANGED <<handle, nonblock, smolVars, tableVars, curr>>,
         call' \in Calls,
         call'.pc = "idle"
  PROVE  IInv'
<1> USE DEF IInv
<1>1. PICK x \in {"CONNECTED", "CLOSED"} :
        /\ state' = [state EXCEPT ![s] = x]
        /\ x = "CONNECTED" => st[handle[s]] = "Established"
  BY Zenon DEF PollConnect
<1>2. /\ laddr' = laddr \/ laddr' = [laddr EXCEPT ![s] = AnyIp]
      /\ lport' = lport \/ lport' = [lport EXCEPT ![s] = 0]
  BY Zenon DEF PollConnect
<1>3. TypeOK'
  <2>1. state' \in [Sock -> SockState]
    BY <1>1, Zenon DEF TypeOK, SockState
  <2>2. laddr' \in [Sock -> AnyAddr]
    BY <1>2, Zenon DEF TypeOK, AnyAddr
  <2>3. lport' \in [Sock -> LPort]
    BY <1>2, ZeroIsLPort, Zenon DEF TypeOK
  <2> QED BY <2>1, <2>2, <2>3, Zenon DEF TypeOK, smolVars, tableVars
<1>4. HandleOwnership'
  BY <1>1, SMTT(30) DEF HandleOwnership, QueueIndex, TypeOK, smolVars, tableVars
<1>5. ListenersMatchTable'
  <2>1. \A t \in Sock : /\ state'[t] = "LISTENING" <=> state[t] = "LISTENING"
                        /\ t # s => lport'[t] = lport[t]
    BY <1>1, <1>2, Zenon DEF TypeOK
  <2> QED BY <2>1 DEF ListenersMatchTable, tableVars
<1>6. SynQueueSound'
  BY Zenon DEF SynQueueSound, QueueIndex, smolVars, tableVars
<1>7. ConnectedIsEstablished'
  BY <1>1, Zenon DEF ConnectedIsEstablished, TypeOK, smolVars
<1>8. CallSound'
  BY Zenon DEF CallSound
<1> QED BY <1>3, <1>4, <1>5, <1>6, <1>7, <1>8, Zenon

LEMMA ConnectDoneStep ==
  ASSUME IInv, ConnectDone
  PROVE  IInv'
<1>1. call.s \in Sock /\ state[call.s] = "CONNECTING"
  BY Zenon DEF IInv, TypeOK, CallSound, ConnectDone, InPoll, Calls
<1>2. /\ call' \in Calls
      /\ call'.pc = "idle"
  BY <1>1, CallType, Zenon DEF ConnectDone, Ops, Rets
<1> QED BY <1>1, <1>2, PollConnectStep, Zenon DEF ConnectDone

LEMMA PollStep ==
  ASSUME IInv, NEW s \in Sock, Poll(s)
  PROVE  IInv'
<1>1. /\ call' \in Calls
      /\ call'.pc = "idle"
  BY CallType, Zenon DEF Poll, Ops, Rets
<1>2. CASE state[s] = "CONNECTING" /\ PollConnect(s)
  BY <1>1, <1>2, PollConnectStep, Zenon DEF Poll
<1>3. CASE UNCHANGED <<state, laddr, lport>>
  <2>1. CallSound'
    BY <1>1, Zenon DEF CallSound
  <2> QED BY <1>1, <1>3, <2>1, CallOnlyStep, Zenon DEF Poll, tcpVars
<1> QED BY <1>2, <1>3, Zenon DEF Poll

(* accept, the transfers and the ways to close a socket.                   *)

\* swap_remove_front drops the i-th element and keeps every other one, once.
LEMMA SwapRemoveFrontFacts ==
  ASSUME NEW q \in Seq(Handle), NEW i \in 1 .. Len(q)
  PROVE  /\ SwapRemoveFront(q, i) \in Seq(Handle)
         /\ Len(SwapRemoveFront(q, i)) = Len(q) - 1
         /\ \A j \in 1 .. Len(q) - 1 :
              SwapRemoveFront(q, i)[j] = IF j + 1 = i THEN q[1] ELSE q[j + 1]
<1> DEFINE f == [j \in 1 .. Len(q) - 1 |-> IF j + 1 = i THEN q[1] ELSE q[j + 1]]
<1>1. Len(q) - 1 \in Nat /\ \A j \in 1 .. Len(q) - 1 : f[j] \in Handle
  OBVIOUS
<1>2. f \in Seq(Handle) /\ Len(f) = Len(q) - 1
  BY <1>1
<1> QED BY <1>2, Zenon DEF SwapRemoveFront

\* accept hands out a connection, or finds that it was reset.
LEMMA TakeConnectionStep ==
  ASSUME IInv, NEW s \in Sock, state[s] = "LISTENING",
         NEW n \in Sock, NEW a \in Addr, TakeConnection(s, n, a)
  PROVE  IInv'
<1> USE DEF IInv
<1> DEFINE port == lport[s]
<1>1. port \in Port
  BY Zenon DEF ListenersMatchTable
<1>2. PICK i \in 1 .. Len(queue[port]) :
        /\ FirstConnected(port, i)
        /\ queue' = [queue EXCEPT ![port] = SwapRemoveFront(@, i)]
        /\ UNCHANGED <<entry, smolVars, curr>>
        /\ \/ Return("accept", s, "ConnectionReset") /\ UNCHANGED tcpVars
           \/ /\ st[queue[port][i]] # "Closed"
              /\ state[n] = "none"
              /\ state' = [state EXCEPT ![n] = "CONNECTED"]
              /\ handle' = [handle EXCEPT ![n] = queue[port][i]]
              /\ laddr' = [laddr EXCEPT ![n] = a]
              /\ lport' = [lport EXCEPT ![n] = port]
              /\ Return("accept", s, "Ok")
              /\ UNCHANGED nonblock
  BY Zenon DEF TakeConnection
<1> DEFINE h == queue[port][i]
<1>16. UNCHANGED <<entry, st, baddr, curr>>
  BY <1>2, Zenon DEF smolVars
<1>3. /\ call' \in Calls
      /\ call'.pc = "idle"
  BY <1>2, CallType, Zenon DEF Ops, Rets
<1>4. CallSound'
  BY <1>3, Zenon DEF CallSound
<1>5. queue[port] \in Seq(Handle) /\ h \in Handle
  BY <1>1 DEF TypeOK
<1>6. /\ queue' \in [Port -> Seq(Handle)]
      /\ queue'[port] = SwapRemoveFront(queue[port], i)
      /\ \A q \in Port : q # port => queue'[q] = queue[q]
  <2>1. SwapRemoveFront(queue[port], i) \in Seq(Handle)
    BY <1>5, SwapRemoveFrontFacts, Zenon
  <2> QED BY <1>1, <1>2, <2>1, Zenon DEF TypeOK
<1>7. /\ Len(queue'[port]) = Len(queue[port]) - 1
       /\ \A j \in 1 .. Len(queue[port]) - 1 :
            queue'[port][j] = IF j + 1 = i THEN queue[port][1] ELSE queue[port][j + 1]
  <2>1. /\ Len(SwapRemoveFront(queue[port], i)) = Len(queue[port]) - 1
        /\ \A j \in 1 .. Len(queue[port]) - 1 :
             SwapRemoveFront(queue[port], i)[j] =
               IF j + 1 = i THEN queue[port][1] ELSE queue[port][j + 1]
    BY <1>5, SwapRemoveFrontFacts, Zenon
  <2> HIDE DEF port
  <2> QED BY <1>6, <2>1, Zenon
<1>8. \A q, r \in Port : \A u \in 1 .. Len(queue[q]), v \in 1 .. Len(queue[r]) :
         queue[q][u] = queue[r][v] => q = r /\ u = v
  BY Zenon DEF HandleOwnership, QueueIndex
\* Every element of a new queue was in the old one, at another place than i.
<1>9. \A q \in Port : \A j \in 1 .. Len(queue'[q]) :
        \E m \in 1 .. Len(queue[q]) :
          /\ queue'[q][j] = queue[q][m]
          /\ q = port => m # i /\ m = (IF j + 1 = i THEN 1 ELSE j + 1)
          /\ q # port => m = j
  <2> SUFFICES ASSUME NEW q \in Port, NEW j \in 1 .. Len(queue'[q])
               PROVE  \E m \in 1 .. Len(queue[q]) :
                        /\ queue'[q][j] = queue[q][m]
                        /\ q = port => m # i /\ m = (IF j + 1 = i THEN 1 ELSE j + 1)
                        /\ q # port => m = j
    BY ZenonT(30)
  <2>1. CASE q # port
    BY <1>6, <2>1, Zenon
  <2>2. CASE q = port
    <3>1. Len(queue'[q]) = Len(queue[q]) - 1
      BY <1>7, <2>2, Zenon
    <3>5. queue'[q][j] = IF j + 1 = i THEN queue[q][1] ELSE queue[q][j + 1]
      BY <1>7, <2>2, <3>1, Zenon
    <3>2. Len(queue[q]) \in Nat /\ j \in Nat /\ 1 <= j /\ j + 1 <= Len(queue[q])
      BY <1>5, <1>6, <2>2, <3>1
    <3>3. (IF j + 1 = i THEN 1 ELSE j + 1) \in 1 .. Len(queue[q])
      BY <3>2
    <3>4. (IF j + 1 = i THEN 1 ELSE j + 1) # i
      BY <3>2
    <3> QED BY <2>2, <3>3, <3>4, <3>5, Zenon
  <2> QED BY <2>1, <2>2, Zenon
<1>10. h \in Handle /\ st[h] # "free" /\ \A t \in Sock : handle[t] # h
  BY <1>1, <1>5, Zenon DEF HandleOwnership, QueueIndex
<1>11. \A q \in Port : \A j \in 1 .. Len(queue'[q]) :
        /\ queue'[q][j] # h
        /\ \E m \in 1 .. Len(queue[q]) : queue'[q][j] = queue[q][m]
  <2> SUFFICES ASSUME NEW q \in Port, NEW j \in 1 .. Len(queue'[q])
               PROVE  /\ queue'[q][j] # h
                      /\ \E m \in 1 .. Len(queue[q]) : queue'[q][j] = queue[q][m]
    BY Zenon
  <2>1. PICK m \in 1 .. Len(queue[q]) :
          queue'[q][j] = queue[q][m] /\ (q = port => m # i)
    BY <1>9, Zenon
  <2> QED BY <1>1, <1>8, <2>1
<1>12. SynQueueSound'
  <2>1. \A q \in Port : Len(queue'[q]) <= QueueMax
    <3>1. Len(queue[port]) \in Nat /\ QueueMax \in Nat
      BY <1>5, PortAssumption
    <3> QED BY <1>1, <1>6, <1>7, <3>1 DEF SynQueueSound
  <2> QED BY <1>11, <1>16, <2>1, Zenon DEF SynQueueSound, QueueIndex
<1>13. \A q, r \in Port : \A j \in QueueIndex(q)', m \in QueueIndex(r)' :
         queue'[q][j] = queue'[r][m] => q = r /\ j = m
  <2> SUFFICES ASSUME NEW q \in Port, NEW r \in Port,
                      NEW j \in 1 .. Len(queue'[q]), NEW m \in 1 .. Len(queue'[r]),
                      queue'[q][j] = queue'[r][m]
               PROVE  q = r /\ j = m
    BY Zenon DEF QueueIndex
  <2>1. PICK u \in 1 .. Len(queue[q]) :
          /\ queue'[q][j] = queue[q][u]
          /\ q = port => u # i /\ u = (IF j + 1 = i THEN 1 ELSE j + 1)
          /\ q # port => u = j
    BY <1>9, Zenon
  <2>2. PICK v \in 1 .. Len(queue[r]) :
          /\ queue'[r][m] = queue[r][v]
          /\ r = port => v # i /\ v = (IF m + 1 = i THEN 1 ELSE m + 1)
          /\ r # port => v = m
    BY <1>9, Zenon
  <2>3. q = r /\ u = v
    <3>1. queue[q][u] = queue[r][v]
      BY <2>1, <2>2, Zenon
    <3> QED BY <1>8, <3>1, SMTT(30)
  <2>4. j \in Nat /\ m \in Nat /\ 1 <= j /\ 1 <= m
    BY <1>6
  <2> QED BY <2>1, <2>2, <2>3, <2>4
<1>14. CASE UNCHANGED tcpVars
  <2>1. TypeOK'
    BY <1>3, <1>6, <1>14, <1>16, Zenon DEF TypeOK, tcpVars
  <2>2. HandleOwnership'
    <3>1. /\ \A t \in Sock : (handle'[t] = None) <=> (state'[t] = "none")
          /\ \A t \in Sock : state'[t] # "none" => st'[handle'[t]] # "free"
          /\ \A t, u \in Sock : handle'[t] = handle'[u] /\ handle'[t] # None => t = u
      BY <1>14, <1>16, Zenon DEF HandleOwnership, tcpVars
    <3>2. \A q \in Port : \A j \in QueueIndex(q)' :
            /\ st'[queue'[q][j]] # "free"
            /\ \A t \in Sock : handle'[t] # queue'[q][j]
      BY <1>11, <1>14, <1>16, SMTT(30) DEF HandleOwnership, QueueIndex, tcpVars
    <3> QED BY <1>13, <3>1, <3>2, Zenon DEF HandleOwnership
  <2>3. ListenersMatchTable'
    BY <1>6, <1>14, <1>16 DEF ListenersMatchTable, tcpVars
  <2>4. ConnectedIsEstablished'
    BY <1>14, <1>16, Zenon DEF ConnectedIsEstablished, tcpVars
  <2> QED BY <1>4, <1>12, <2>1, <2>2, <2>3, <2>4, Zenon
<1>15. CASE /\ st[h] # "Closed"
            /\ state[n] = "none"
            /\ state' = [state EXCEPT ![n] = "CONNECTED"]
            /\ handle' = [handle EXCEPT ![n] = h]
            /\ laddr' = [laddr EXCEPT ![n] = a]
            /\ lport' = [lport EXCEPT ![n] = port]
            /\ UNCHANGED nonblock
  <2>1. TypeOK'
    <3>1. state' \in [Sock -> SockState]
      BY <1>15, Zenon DEF TypeOK, SockState
    <3>2. handle' \in [Sock -> Handle \cup {None}]
      BY <1>10, <1>15, Zenon DEF TypeOK
    <3>3. laddr' \in [Sock -> AnyAddr]
      BY <1>15, Zenon DEF TypeOK, AnyAddr
    <3>4. lport' \in [Sock -> LPort]
      BY <1>15, Zenon DEF TypeOK
    <3> QED BY <1>3, <1>6, <1>15, <1>16, <3>1, <3>2, <3>3, <3>4, Zenon DEF TypeOK
  <2>2. HandleOwnership'
    <3>1. \A t \in Sock : IF t = n THEN handle'[t] = h /\ state'[t] = "CONNECTED"
                                   ELSE handle'[t] = handle[t] /\ state'[t] = state[t]
      BY <1>15, Zenon DEF TypeOK
    <3>2. h # None
      BY <1>10, NamesAssumption, Zenon
    <3>3. /\ \A t \in Sock : (handle'[t] = None) <=> (state'[t] = "none")
          /\ \A t \in Sock : state'[t] # "none" => st'[handle'[t]] # "free"
          /\ \A t, u \in Sock : handle'[t] = handle'[u] /\ handle'[t] # None => t = u
      BY <1>10, <1>16, <3>1, <3>2 DEF HandleOwnership
    <3>4. \A q \in Port : \A j \in QueueIndex(q)' :
            /\ st'[queue'[q][j]] # "free"
            /\ \A t \in Sock : handle'[t] # queue'[q][j]
      BY <1>11, <1>16, <3>1, SMTT(30) DEF HandleOwnership, QueueIndex
    <3> QED BY <1>13, <3>3, <3>4, Zenon DEF HandleOwnership
  <2>3. ListenersMatchTable'
    <3>1. \A t \in Sock : /\ state'[t] = "LISTENING" <=> state[t] = "LISTENING"
                          /\ state[t] = "LISTENING" => lport'[t] = lport[t]
      BY <1>15, Zenon DEF TypeOK
    <3>2. \A q \in Port : entry[q] = None => queue'[q] = queue[q]
      BY <1>6 DEF ListenersMatchTable
    <3> QED BY <1>16, <3>1, <3>2 DEF ListenersMatchTable
  <2>4. ConnectedIsEstablished'
    <3>1. st[h] \in {"Established", "CloseWait"}
      BY <1>1, <1>2, <1>15, Zenon
         DEF FirstConnected, IsConnected, SynQueueSound, QueueIndex
    <3> QED BY <1>15, <1>16, <3>1, Zenon DEF ConnectedIsEstablished, TypeOK
  <2> QED BY <1>4, <1>12, <2>1, <2>2, <2>3, <2>4, Zenon
<1> QED BY <1>2, <1>14, <1>15, Zenon

LEMMA AcceptStep ==
  ASSUME IInv, NEW s \in Sock, NEW n \in Sock, NEW a \in Addr, Accept(s, n, a)
  PROVE  IInv'
<1>1. CASE Fail("accept", s, "InvalidInput") \/ Fail("accept", s, "WouldBlock")
  BY <1>1, FailStep, Zenon DEF Ops, Rets
<1>2. CASE /\ state[s] = "LISTENING" /\ Block("accept", s)
           /\ UNCHANGED <<tcpVars, smolVars, tableVars, curr>>
  <2>1. /\ call' \in Calls
        /\ call'.pc = "poll" /\ call'.op = "accept" /\ call'.s = s
    BY <1>2, CallType, Zenon DEF Ops
  <2>2. CallSound'
    BY <1>2, <2>1, Zenon DEF CallSound, tcpVars
  <2> QED BY <1>2, <2>1, <2>2, CallOnlyStep, Zenon
<1>3. CASE state[s] = "LISTENING" /\ TakeConnection(s, n, a)
  BY <1>3, TakeConnectionStep, Zenon
<1> QED BY <1>1, <1>2, <1>3, Zenon DEF Accept

LEMMA AcceptDoneStep ==
  ASSUME IInv, NEW n \in Sock, NEW a \in Addr, AcceptDone(n, a)
  PROVE  IInv'
<1>1. call.s \in Sock /\ state[call.s] = "LISTENING"
  BY Zenon DEF IInv, TypeOK, CallSound, AcceptDone, InPoll, Calls
<1> QED BY <1>1, TakeConnectionStep, Zenon DEF AcceptDone

LEMMA TransferResultsType ==
  ASSUME NEW op, NEW h PROVE TransferResults(op, h) \subseteq Rets
BY Zenon DEF TransferResults, Rets

LEMMA TransferStep ==
  ASSUME IInv, NEW s \in Sock, NEW op \in {"recv", "send"}, Transfer(op, s)
  PROVE  IInv'
<1>1. op \in Ops /\ "WouldBlock" \in Rets /\ "NotConnected" \in Rets
  BY Zenon DEF Ops, Rets
<1>2. CASE \E r \in Rets : Return(op, s, r)
  <2>1. /\ call' \in Calls
        /\ call'.pc = "idle"
    BY <1>1, <1>2, CallType, Zenon
  <2>2. CallSound'
    BY <2>1, Zenon DEF CallSound
  <2> QED BY <2>1, <2>2, CallOnlyStep, Zenon DEF Transfer
<1>3. CASE state[s] = "CONNECTED" /\ Block(op, s)
  <2>1. /\ call' \in Calls
        /\ call'.pc = "poll" /\ call'.op = op /\ call'.s = s
    BY <1>1, <1>3, CallType, Zenon
  <2>2. CallSound'
    BY <1>3, <2>1, Zenon DEF CallSound, tcpVars, Transfer
  <2> QED BY <2>1, <2>2, CallOnlyStep, Zenon DEF Transfer
<1> QED BY <1>1, <1>2, <1>3, TransferResultsType, Zenon DEF Transfer

LEMMA TransferDoneStep ==
  ASSUME IInv, NEW op \in {"recv", "send"}, TransferDone(op)
  PROVE  IInv'
<1>1. op \in Ops /\ call.s \in Sock
  BY Zenon DEF Ops, IInv, TypeOK, Calls
<1>2. PICK r \in Rets : Return(op, call.s, r)
  BY TransferResultsType, Zenon DEF TransferDone
<1>3. /\ call' \in Calls
      /\ call'.pc = "idle"
  BY <1>1, <1>2, CallType, Zenon
<1>4. CallSound'
  BY <1>3, Zenon DEF CallSound
<1> QED BY <1>3, <1>4, CallOnlyStep, Zenon DEF TransferDone

LEMMA AfterCloseType ==
  ASSUME NEW x \in SmolState
  PROVE  /\ AfterClose(x) \in SmolState
         /\ x \in {"Established", "CloseWait", "Closing", "Closed"} =>
              AfterClose(x) \in {"Established", "CloseWait", "Closing", "Closed"}
BY Zenon DEF AfterClose, SmolState

\* unlisten frees exactly the sockets of the queue, which nobody else owns.
LEMMA UnlistenFacts ==
  ASSUME IInv, NEW port \in Port, Unlisten(port)
  PROVE  /\ st' \in [Handle -> SmolState \cup {"free"}]
         /\ \A t \in Sock : state[t] # "none" => st'[handle[t]] = st[handle[t]]
         /\ \A q \in Port : q # port =>
              /\ queue'[q] = queue[q] /\ entry'[q] = entry[q]
              /\ \A i \in QueueIndex(q) : st'[queue[q][i]] = st[queue[q][i]]
         /\ queue'[port] = <<>> /\ entry'[port] = None
         /\ queue' \in [Port -> Seq(Handle)]
         /\ entry' \in [Port -> AnyAddr \cup {None}]
         /\ baddr' = baddr
<1> USE DEF IInv
<1>1. st' \in [Handle -> SmolState \cup {"free"}]
  BY Zenon DEF Unlisten, TypeOK
<1>2. /\ \A q \in Port : q # port => queue'[q] = queue[q] /\ entry'[q] = entry[q]
      /\ queue'[port] = <<>> /\ entry'[port] = None
  BY Zenon DEF Unlisten, TypeOK
<1>3. queue' \in [Port -> Seq(Handle)]
  BY DEF Unlisten, TypeOK
<1>4. entry' \in [Port -> AnyAddr \cup {None}]
  BY Zenon DEF Unlisten, TypeOK
<1>5. \A h \in Handle : (\A i \in QueueIndex(port) : queue[port][i] # h) => st'[h] = st[h]
  BY Zenon DEF Unlisten, QueueIndex
<1>6. \A t \in Sock : state[t] # "none" => st'[handle[t]] = st[handle[t]]
  <2>1. \A t \in Sock : state[t] # "none" => handle[t] \in Handle
    BY DEF HandleOwnership, TypeOK
  <2> QED BY <1>5, <2>1 DEF HandleOwnership
<1>7. \A q \in Port : q # port =>
        \A i \in QueueIndex(q) : st'[queue[q][i]] = st[queue[q][i]]
  <2>1. \A q \in Port : \A i \in QueueIndex(q) : queue[q][i] \in Handle
    BY DEF TypeOK, QueueIndex
  <2> QED BY <1>5, <2>1 DEF HandleOwnership
<1> QED BY <1>1, <1>2, <1>3, <1>4, <1>6, <1>7, Zenon DEF Unlisten

LEMMA StartShutdownStep ==
  ASSUME IInv, NEW s \in Sock, NEW op \in {"shutdown", "drop"}, StartShutdown(op, s)
  PROVE  IInv'
<1> USE DEF IInv
<1>1. /\ state' = [state EXCEPT ![s] = "BUSY"]
      /\ laddr' = [laddr EXCEPT ![s] = AnyIp]
      /\ lport' = [lport EXCEPT ![s] = 0]
      /\ UNCHANGED <<handle, nonblock, curr>>
      /\ state[s] \in {"CONNECTED", "LISTENING"}
  BY Zenon DEF StartShutdown
<1>2. /\ call' \in Calls
      /\ call'.op = op /\ call'.s = s
  BY CallType, Zenon DEF StartShutdown, Ops
<1>3. /\ state' \in [Sock -> SockState] /\ state'[s] = "BUSY"
      /\ \A t \in Sock : t # s => state'[t] = state[t]
  BY <1>1, Zenon DEF TypeOK, SockState
<1>4. laddr' \in [Sock -> AnyAddr]
  BY <1>1, Zenon DEF TypeOK, AnyAddr
<1>5. lport' \in [Sock -> LPort] /\ \A t \in Sock : t # s => lport'[t] = lport[t]
  BY <1>1, ZeroIsLPort, Zenon DEF TypeOK
<1>6. CallSound'
  BY <1>2, <1>3, Zenon DEF CallSound
<1>7. \A t \in Sock : (state'[t] = "none") <=> (state[t] = "none")
  BY <1>1, <1>3, Zenon
<1>8. CASE /\ state[s] = "CONNECTED"
           /\ st' = [st EXCEPT ![handle[s]] = AfterClose(@)]
           /\ UNCHANGED <<baddr, tableVars>>
  <2>1. st[handle[s]] \in SmolState
    BY <1>8, Zenon DEF ConnectedIsEstablished, SmolState
  <2>2. /\ HandleOwnership' /\ SynQueueSound' /\ st' \in [Handle -> SmolState \cup {"free"}]
        /\ \A t \in Sock : t # s /\ state[t] # "none" => st'[handle[t]] = st[handle[t]]
    BY <1>1, <1>7, <1>8, <2>1, AfterCloseType, OwnSocketMoves, Zenon
  <2>3. TypeOK'
    BY <1>1, <1>2, <1>3, <1>4, <1>5, <1>8, <2>2, Zenon DEF TypeOK, tableVars
  <2>4. ListenersMatchTable'
    BY <1>3, <1>5, <1>8 DEF ListenersMatchTable, tableVars
  <2>5. ConnectedIsEstablished'
    BY <1>1, <1>3, <2>2, Zenon DEF ConnectedIsEstablished
  <2> QED BY <1>6, <2>2, <2>3, <2>4, <2>5, Zenon
<1>9. CASE state[s] = "LISTENING" /\ Unlisten(lport[s])
  <2> DEFINE port == lport[s]
  <2>1. port \in Port
    BY <1>9, Zenon DEF ListenersMatchTable
  <2> HIDE DEF port
  <2>2. /\ st' \in [Handle -> SmolState \cup {"free"}]
        /\ \A t \in Sock : state[t] # "none" => st'[handle[t]] = st[handle[t]]
        /\ \A q \in Port : q # port =>
             /\ queue'[q] = queue[q] /\ entry'[q] = entry[q]
             /\ \A i \in QueueIndex(q) : st'[queue[q][i]] = st[queue[q][i]]
        /\ queue'[port] = <<>> /\ entry'[port] = None
        /\ queue' \in [Port -> Seq(Handle)]
        /\ entry' \in [Port -> AnyAddr \cup {None}]
        /\ baddr' = baddr
    BY <1>9, <2>1, UnlistenFacts, Zenon DEF port
  <2>9. \A t \in Sock : state[t] # "none" => st'[handle[t]] = st[handle[t]]
    BY <2>2, Zenon
  <2>10. entry'[port] = None /\ \A q \in Port : q # port => entry'[q] = entry[q]
    BY <2>2, Zenon
  <2>3. TypeOK'
    BY <1>1, <1>2, <1>3, <1>4, <1>5, <2>2, Zenon DEF TypeOK
  <2>4. \A q \in Port : \A i \in QueueIndex(q)' :
          /\ q # port /\ i \in QueueIndex(q)
          /\ queue'[q][i] = queue[q][i]
          /\ st'[queue'[q][i]] = st[queue[q][i]]
    BY <2>2 DEF QueueIndex
  <2>5. HandleOwnership'
    <3>1. /\ \A t \in Sock : (handle'[t] = None) <=> (state'[t] = "none")
          /\ \A t \in Sock : state'[t] # "none" => st'[handle'[t]] # "free"
          /\ \A t, u \in Sock : handle'[t] = handle'[u] /\ handle'[t] # None => t = u
      BY <1>1, <1>7, <2>9 DEF HandleOwnership
    <3>2. \A q \in Port : \A i \in QueueIndex(q)' :
            /\ st'[queue'[q][i]] # "free"
            /\ \A t \in Sock : handle'[t] # queue'[q][i]
      BY <1>1, <2>4, SMTT(30) DEF HandleOwnership
    <3>3. \A q, r \in Port : \A i \in QueueIndex(q)', j \in QueueIndex(r)' :
            queue'[q][i] = queue'[r][j] => q = r /\ i = j
      BY <2>4 DEF HandleOwnership
    <3> QED BY <3>1, <3>2, <3>3, Zenon DEF HandleOwnership
  <2>6. SynQueueSound'
    <3>1. \A q \in Port : Len(queue'[q]) <= QueueMax
      <4>1. queue'[port] = <<>> /\ \A q \in Port : q # port => queue'[q] = queue[q]
        BY <2>2, Zenon
      <4> QED BY <4>1, PortAssumption DEF SynQueueSound
    <3> QED BY <2>4, <3>1, Zenon DEF SynQueueSound
  <2>7. ListenersMatchTable'
    <3>1. \A t \in Sock : t # s /\ state[t] = "LISTENING" =>
            lport[t] \in Port /\ lport[t] # port /\ entry[lport[t]] # None
      BY <1>9, Zenon DEF ListenersMatchTable, port
    <3>2. \A t \in Sock : state'[t] = "LISTENING" =>
            /\ lport'[t] \in Port
            /\ entry'[lport'[t]] # None
            /\ \A u \in Sock : state'[u] = "LISTENING" /\ lport'[u] = lport'[t] => u = t
      BY <1>3, <1>5, <2>10, <3>1 DEF ListenersMatchTable
    <3>3. \A q \in Port : entry'[q] # None =>
            \E t \in Sock : state'[t] = "LISTENING" /\ lport'[t] = q
      BY <1>3, <1>5, <2>10, SMTT(30) DEF ListenersMatchTable, port
    <3>4. \A q \in Port : entry'[q] = None => queue'[q] = <<>>
      BY <2>2, SMTT(30) DEF ListenersMatchTable
    <3> QED BY <3>2, <3>3, <3>4, Zenon DEF ListenersMatchTable
  <2>8. ConnectedIsEstablished'
    BY <1>1, <1>3, <2>2, Zenon DEF ConnectedIsEstablished
  <2> QED BY <1>6, <2>3, <2>5, <2>6, <2>7, <2>8, Zenon
<1> QED BY <1>8, <1>9, Zenon DEF StartShutdown

LEMMA ShutdownDoneStep ==
  ASSUME IInv, ShutdownDone
  PROVE  IInv'
<1> USE DEF IInv
<1> DEFINE s == call.s
<1>1. s \in Sock /\ state[s] = "BUSY"
  BY Zenon DEF TypeOK, CallSound, ShutdownDone, InPoll, Calls
<1>2. /\ state' = [state EXCEPT ![s] = "CLOSED"]
      /\ UNCHANGED <<handle, laddr, lport, nonblock, smolVars, tableVars, curr>>
  BY Zenon DEF ShutdownDone
<1>3. /\ call' \in Calls
      /\ call'.pc = "idle"
  BY <1>1, CallType, Zenon DEF ShutdownDone, Ops, Rets
<1> HIDE DEF s
<1>4. /\ state' \in [Sock -> SockState] /\ state'[s] = "CLOSED"
      /\ \A t \in Sock : t # s => state'[t] = state[t]
  BY <1>1, <1>2, Zenon DEF TypeOK, SockState
<1>5. TypeOK'
  BY <1>2, <1>3, <1>4, Zenon DEF TypeOK, smolVars, tableVars
<1>6. HandleOwnership' /\ SynQueueSound'
  <2>1. \A t \in Sock : (state'[t] = "none") <=> (state[t] = "none")
    BY <1>1, <1>4
  <2>2. UNCHANGED <<handle, st, queue>>
    BY <1>2, Zenon DEF smolVars, tableVars
  <2>3. HandleOwnership'
    BY <2>1, <2>2 DEF HandleOwnership, QueueIndex
  <2>4. SynQueueSound'
    BY <2>2 DEF SynQueueSound, QueueIndex
  <2> QED BY <2>3, <2>4, Zenon
<1>7. ListenersMatchTable' /\ ConnectedIsEstablished'
  BY <1>1, <1>2, <1>4 DEF ListenersMatchTable, ConnectedIsEstablished, smolVars, tableVars
<1> QED BY <1>3, <1>5, <1>6, <1>7, Zenon DEF CallSound

LEMMA RemoveSocketStep ==
  ASSUME IInv, NEW s \in Sock, state[s] \notin {"none", "LISTENING"}, RemoveSocket(s)
  PROVE  IInv'
<1> USE DEF IInv
<1>1. /\ call' \in Calls
      /\ call'.pc = "idle"
  BY CallType, Zenon DEF RemoveSocket, Ops, Rets
<1>2. handle[s] \in Handle
  BY DEF HandleOwnership, TypeOK
<1>3. /\ state' \in [Sock -> SockState] /\ state'[s] = "none"
      /\ \A t \in Sock : t # s => state'[t] = state[t]
  BY Zenon DEF RemoveSocket, TypeOK, SockState
<1>4. /\ handle' \in [Sock -> Handle \cup {None}] /\ handle'[s] = None
      /\ \A t \in Sock : t # s => handle'[t] = handle[t]
  BY Zenon DEF RemoveSocket, TypeOK
<1>5. laddr' \in [Sock -> AnyAddr]
  BY Zenon DEF RemoveSocket, TypeOK, AnyAddr
<1>6. lport' \in [Sock -> LPort] /\ \A t \in Sock : t # s => lport'[t] = lport[t]
  BY ZeroIsLPort, Zenon DEF RemoveSocket, TypeOK
<1>7. nonblock' \in [Sock -> BOOLEAN]
  BY Zenon DEF RemoveSocket, TypeOK
<1>8. /\ st' \in [Handle -> SmolState \cup {"free"}]
      /\ \A h \in Handle : h # handle[s] => st'[h] = st[h]
  BY Zenon DEF RemoveSocket, TypeOK
<1>9. baddr' \in [Handle -> AnyAddr]
  BY Zenon DEF RemoveSocket, TypeOK, AnyAddr
<1>10. UNCHANGED <<tableVars, curr>>
  BY Zenon DEF RemoveSocket
<1>11. TypeOK'
  BY <1>1, <1>3, <1>4, <1>5, <1>6, <1>7, <1>8, <1>9, <1>10, Zenon DEF TypeOK, tableVars
<1>12. \A t \in Sock : t # s /\ state[t] # "none" =>
         handle[t] \in Handle /\ st'[handle[t]] = st[handle[t]]
  BY <1>2, <1>8 DEF HandleOwnership, TypeOK
<1>13. \A q \in Port : \A i \in QueueIndex(q) : st'[queue[q][i]] = st[queue[q][i]]
  BY <1>8 DEF HandleOwnership, QueueIndex, TypeOK
<1>14. HandleOwnership'
  <2>1. /\ \A t \in Sock : (handle'[t] = None) <=> (state'[t] = "none")
        /\ \A t \in Sock : state'[t] # "none" => st'[handle'[t]] # "free"
        /\ \A t, u \in Sock : handle'[t] = handle'[u] /\ handle'[t] # None => t = u
    BY <1>3, <1>4, <1>12 DEF HandleOwnership
  <2>2. \A q \in Port : \A i \in QueueIndex(q) : queue[q][i] # None
    BY NamesAssumption, SMTT(30) DEF QueueIndex, TypeOK
  <2> QED BY <1>4, <1>10, <1>13, <2>1, <2>2, SMTT(30)
             DEF HandleOwnership, QueueIndex, tableVars
<1>15. SynQueueSound'
  BY <1>10, <1>13, Zenon DEF SynQueueSound, QueueIndex, tableVars
<1>16. ListenersMatchTable'
  BY <1>3, <1>6, <1>10 DEF ListenersMatchTable, tableVars
<1>17. ConnectedIsEstablished'
  BY <1>3, <1>4, <1>12 DEF ConnectedIsEstablished
<1> QED BY <1>1, <1>11, <1>14, <1>15, <1>16, <1>17, Zenon DEF CallSound

LEMMA ShutdownStep ==
  ASSUME IInv, NEW s \in Sock, Shutdown(s)
  PROVE  IInv'
BY StartShutdownStep, FailStep, Zenon DEF Shutdown, Ops, Rets

LEMMA DropStep ==
  ASSUME IInv, NEW s \in Sock, Drop(s)
  PROVE  IInv'
BY StartShutdownStep, RemoveSocketStep, Zenon DEF Drop

LEMMA DropDoneStep ==
  ASSUME IInv, DropDone
  PROVE  IInv'
<1>1. call.s \in Sock /\ state[call.s] = "BUSY"
  BY Zenon DEF IInv, TypeOK, CallSound, DropDone, InPoll, Calls
<1> QED BY <1>1, RemoveSocketStep, Zenon DEF DropDone

LEMMA CloseStep ==
  ASSUME IInv, NEW s \in Sock, Close(s)
  PROVE  IInv'
<1> USE DEF IInv
<1>1. /\ call' \in Calls
      /\ call'.op = "close" /\ call'.s = s
  BY CallType, Zenon DEF Close, Ops
<1>2. /\ state[s] # "none" /\ UNCHANGED <<tcpVars, baddr, tableVars, curr>>
      /\ st' = [st EXCEPT ![handle[s]] = AfterClose(st[handle[s]])]
  BY Zenon DEF Close
<1>3. st[handle[s]] \in SmolState
  BY <1>2 DEF HandleOwnership, TypeOK
<1>4. /\ HandleOwnership' /\ SynQueueSound' /\ st' \in [Handle -> SmolState \cup {"free"}]
      /\ \A t \in Sock : t # s /\ state[t] # "none" => st'[handle[t]] = st[handle[t]]
      /\ st'[handle[s]] = AfterClose(st[handle[s]])
  BY <1>2, <1>3, AfterCloseType, OwnSocketMoves, Zenon DEF tcpVars
<1>5. TypeOK'
  BY <1>1, <1>2, <1>4, Zenon DEF TypeOK, tcpVars, tableVars
<1>6. ListenersMatchTable'
  BY <1>2, Zenon DEF ListenersMatchTable, tcpVars, tableVars
<1>7. ConnectedIsEstablished'
  BY <1>2, <1>3, <1>4, AfterCloseType, SMTT(30) DEF ConnectedIsEstablished, tcpVars
<1>8. CallSound'
  BY <1>1, <1>2, ZenonT(30) DEF CallSound, tcpVars
<1> QED BY <1>4, <1>5, <1>6, <1>7, <1>8, Zenon

LEMMA CloseDoneStep ==
  ASSUME IInv, CloseDone
  PROVE  IInv'
<1>1. call.s \in Sock
  BY Zenon DEF IInv, TypeOK, Calls
<1> QED BY <1>1, FailStep, Zenon DEF CloseDone, Fail, Ops, Rets

(* The network.                                                            *)

\* The states a queued and a connected socket may be in are closed under
\* segments and timers.
LEMMA SegmentsFacts ==
  ASSUME NEW x \in SmolState \cup {"free"}, NEW y \in Segments(x)
  PROVE  /\ x # "free" /\ y \in SmolState /\ y # "free"
         /\ x \in {"Listen", "SynReceived", "Established", "CloseWait", "Closed"} =>
              y \in {"Listen", "SynReceived", "Established", "CloseWait", "Closed"}
         /\ x \in {"Established", "CloseWait", "Closing", "Closed"} =>
              y \in {"Established", "CloseWait", "Closing", "Closed"}
BY Zenon DEF Segments, SmolState

LEMMA SegmentStep ==
  ASSUME IInv, NEW h \in Handle, Segment(h)
  PROVE  IInv'
<1> USE DEF IInv
<1>1. PICK y \in Segments(st[h]) : st' = [st EXCEPT ![h] = y]
  BY Zenon DEF Segment
<1>2. UNCHANGED <<tcpVars, baddr, tableVars, curr, call>>
  BY Zenon DEF Segment
<1>3. /\ st[h] # "free" /\ y \in SmolState /\ y # "free"
      /\ st[h] \in {"Listen", "SynReceived", "Established", "CloseWait", "Closed"} =>
           y \in {"Listen", "SynReceived", "Established", "CloseWait", "Closed"}
      /\ st[h] \in {"Established", "CloseWait", "Closing", "Closed"} =>
           y \in {"Established", "CloseWait", "Closing", "Closed"}
  BY SegmentsFacts, Zenon DEF TypeOK
<1>4. /\ st' \in [Handle -> SmolState \cup {"free"}]
      /\ \A g \in Handle : st'[g] = IF g = h THEN y ELSE st[g]
  BY <1>1, <1>3, Zenon DEF TypeOK
<1>5. TypeOK'
  BY <1>2, <1>4, Zenon DEF TypeOK, tcpVars, tableVars
<1>6. \A t \in Sock : state[t] # "none" => handle[t] \in Handle
  BY DEF HandleOwnership, TypeOK
<1>7. \A q \in Port : \A i \in QueueIndex(q) : queue[q][i] \in Handle
  BY DEF QueueIndex, TypeOK
<1>8. HandleOwnership'
  BY <1>2, <1>3, <1>4, <1>6, <1>7 DEF HandleOwnership, QueueIndex, tcpVars, tableVars
<1>9. SynQueueSound'
  BY <1>2, <1>3, <1>4, <1>7, Zenon DEF SynQueueSound, QueueIndex, tableVars
<1>10. ConnectedIsEstablished'
  BY <1>2, <1>3, <1>4, <1>6, Zenon DEF ConnectedIsEstablished, tcpVars
<1>11. ListenersMatchTable' /\ CallSound'
  BY <1>2, Zenon DEF ListenersMatchTable, CallSound, tcpVars, tableVars
<1> QED BY <1>5, <1>8, <1>9, <1>10, <1>11, Zenon

\* A SYN for which incoming_tcp_packet queues the new socket h: h or another
\* listening socket of the queue answers it, or none does.
LEMMA SynAppendStep ==
  ASSUME IInv, NEW port \in Port, NEW a \in Addr, Snooped(port, a),
         NEW h \in Handle, st[h] = "free",
         queue' = [queue EXCEPT ![port] = Append(@, h)],
         st' \in [Handle -> SmolState \cup {"free"}],
         st'[h] \in {"Listen", "SynReceived"},
         \A g \in Handle : g # h =>
           st'[g] = st[g] \/ (InQueue(g, port) /\ st'[g] = "SynReceived"),
         UNCHANGED <<tcpVars, entry, curr, baddr, call>>
  PROVE  IInv'
<1> USE DEF IInv
<1>1. queue[port] \in Seq(Handle) /\ Len(queue[port]) \in Nat
  BY DEF TypeOK
<1>2. /\ queue' \in [Port -> Seq(Handle)]
      /\ queue'[port] = Append(queue[port], h)
      /\ \A q \in Port : q # port => queue'[q] = queue[q]
  BY <1>1 DEF TypeOK
<1>3. \A q \in Port : \A i \in 1 .. Len(queue'[q]) :
        \/ i \in 1 .. Len(queue[q]) /\ queue'[q][i] = queue[q][i]
        \/ q = port /\ i = Len(queue[port]) + 1 /\ queue'[q][i] = h
  BY <1>1, <1>2
<1>4. \A q \in Port : \A i \in 1 .. Len(queue[q]) : queue[q][i] \in Handle /\ queue[q][i] # h
  BY DEF HandleOwnership, QueueIndex, TypeOK
<1>5. \A t \in Sock : state[t] # "none" => handle[t] \in Handle
  BY Zenon DEF HandleOwnership, TypeOK
<1>6. \A t \in Sock : state[t] # "none" => handle[t] # h /\ st'[handle[t]] = st[handle[t]]
  BY <1>5 DEF HandleOwnership, InQueue, QueueIndex
<1>7. \A q \in Port : \A i \in 1 .. Len(queue[q]) :
        st'[queue[q][i]] = st[queue[q][i]] \/ st'[queue[q][i]] = "SynReceived"
  BY <1>4, Zenon
<1>8. TypeOK'
  BY <1>2, Zenon DEF TypeOK, tcpVars
<1>9. HandleOwnership'
  <2>1. /\ \A t \in Sock : (handle'[t] = None) <=> (state'[t] = "none")
        /\ \A t \in Sock : state'[t] # "none" => st'[handle'[t]] # "free"
        /\ \A t, u \in Sock : handle'[t] = handle'[u] /\ handle'[t] # None => t = u
    BY <1>6 DEF HandleOwnership, tcpVars
  <2>6. \A q \in Port : \A i \in 1 .. Len(queue[q]) :
          st[queue[q][i]] # "free" /\ \A t \in Sock : handle[t] # queue[q][i]
    BY Zenon DEF HandleOwnership, QueueIndex
  <2>7. \A q, r \in Port : \A i \in 1 .. Len(queue[q]), j \in 1 .. Len(queue[r]) :
          queue[q][i] = queue[r][j] => q = r /\ i = j
    BY Zenon DEF HandleOwnership, QueueIndex
  <2>2. \A q \in Port : \A i \in 1 .. Len(queue'[q]) : st'[queue'[q][i]] # "free"
    BY <1>3, <1>7, <2>6
  <2>3. \A t \in Sock : handle[t] # h
    BY <1>6, NamesAssumption DEF HandleOwnership
  <2>4. \A q \in Port : \A i \in 1 .. Len(queue'[q]) : \A t \in Sock : handle'[t] # queue'[q][i]
    BY <1>3, <2>3, <2>6 DEF tcpVars
  <2>5. \A q, r \in Port : \A i \in 1 .. Len(queue'[q]), j \in 1 .. Len(queue'[r]) :
          queue'[q][i] = queue'[r][j] => q = r /\ i = j
    <3> SUFFICES ASSUME NEW q \in Port, NEW r \in Port,
                        NEW i \in 1 .. Len(queue'[q]), NEW j \in 1 .. Len(queue'[r]),
                        queue'[q][i] = queue'[r][j]
                 PROVE  q = r /\ i = j
      BY Zenon
    <3>1. CASE i \in 1 .. Len(queue[q]) /\ queue'[q][i] = queue[q][i]
      BY <1>3, <1>4, <2>7, <3>1
    <3>2. CASE q = port /\ i = Len(queue[port]) + 1 /\ queue'[q][i] = h
      BY <1>3, <1>4, <3>2
    <3> QED BY <1>3, <3>1, <3>2, Zenon
  <2>8. \A q \in Port : \A i \in QueueIndex(q)' :
          st'[queue'[q][i]] # "free" /\ \A t \in Sock : handle'[t] # queue'[q][i]
    BY <2>2, <2>4, Zenon DEF QueueIndex
  <2>9. \A q, r \in Port : \A i \in QueueIndex(q)', j \in QueueIndex(r)' :
          queue'[q][i] = queue'[r][j] => q = r /\ i = j
    BY <2>5, Zenon DEF QueueIndex
  <2> QED BY <2>1, <2>8, <2>9, Zenon DEF HandleOwnership
<1>10. SynQueueSound'
  <2>1. \A q \in Port : Len(queue'[q]) <= QueueMax
    <3>1. Len(queue'[port]) = Len(queue[port]) + 1
      BY <1>1, <1>2
    <3> QED BY <1>1, <1>2, <3>1, PortAssumption DEF SynQueueSound, Snooped
  <2>2. \A q \in Port : \A i \in 1 .. Len(queue'[q]) :
          st'[queue'[q][i]] \in {"Listen", "SynReceived", "Established", "CloseWait", "Closed"}
    <3>1. \A q \in Port : \A i \in 1 .. Len(queue[q]) :
            st[queue[q][i]] \in {"Listen", "SynReceived", "Established", "CloseWait", "Closed"}
      BY Zenon DEF SynQueueSound, QueueIndex
    <3> SUFFICES ASSUME NEW q \in Port, NEW i \in 1 .. Len(queue'[q])
                 PROVE  st'[queue'[q][i]] \in
                          {"Listen", "SynReceived", "Established", "CloseWait", "Closed"}
      BY Zenon
    <3>2. CASE queue'[q][i] = h
      BY <3>2, Zenon
    <3>3. CASE i \in 1 .. Len(queue[q]) /\ queue'[q][i] = queue[q][i]
      BY <1>7, <3>1, <3>3
    <3> QED BY <1>3, <3>2, <3>3, Zenon
  <2> QED BY <2>1, <2>2, Zenon DEF SynQueueSound, QueueIndex
<1>11. ListenersMatchTable'
  <2>1. entry[port] # None
    BY NamesAssumption, Zenon DEF Snooped
  <2> QED BY <1>2, <2>1 DEF ListenersMatchTable, tcpVars
<1>12. ConnectedIsEstablished'
  BY <1>6, Zenon DEF ConnectedIsEstablished, tcpVars
<1>13. CallSound'
  BY Zenon DEF CallSound, tcpVars
<1> QED BY <1>8, <1>9, <1>10, <1>11, <1>12, <1>13, Zenon

LEMMA SynStep ==
  ASSUME IInv, NEW port \in LPort, NEW a \in Addr, NEW h \in Handle, Syn(port, a, h)
  PROVE  IInv'
<1> USE DEF IInv
<1>1. UNCHANGED <<tcpVars, entry, curr>>
  BY Zenon DEF Syn
<1>2. CASE Panic(call.op, call.s) /\ UNCHANGED <<smolVars, queue>>
  <2>1. call.op \in Ops /\ call.s \in Sock
    BY Zenon DEF TypeOK, Calls
  <2>2. /\ call' \in Calls
        /\ call'.pc = "panic"
    BY <1>2, <2>1, CallType, Zenon
  <2>3. CallSound'
    BY <2>2, Zenon DEF CallSound
  <2> QED BY <1>1, <1>2, <2>2, <2>3, CallOnlyStep, Zenon DEF tableVars
<1>3. CASE /\ port < PortNum /\ Snooped(port, a) /\ st[h] = "free"
           /\ queue' = [queue EXCEPT ![port] = Append(@, h)]
           /\ \/ \E x \in {"Listen", "SynReceived"} : st' = [st EXCEPT ![h] = x]
              \/ \E g \in Handle :
                   /\ InQueue(g, port) /\ st[g] = "Listen"
                   /\ st' = [st EXCEPT ![h] = "Listen", ![g] = "SynReceived"]
           /\ UNCHANGED <<baddr, call>>
  <2>1. port \in Port
    BY <1>3, PortAssumption DEF Port, LPort
  <2>2. CASE \E x \in {"Listen", "SynReceived"} : st' = [st EXCEPT ![h] = x]
    <3>1. st' \in [Handle -> SmolState \cup {"free"}]
      BY <2>2, Zenon DEF TypeOK, SmolState
    <3>2. /\ st'[h] \in {"Listen", "SynReceived"}
          /\ \A g \in Handle : g # h => st'[g] = st[g]
      BY <2>2, Zenon DEF TypeOK
    <3> HIDE DEF IInv
    <3> QED BY <1>1, <1>3, <2>1, <3>1, <3>2, SynAppendStep, ZenonT(30)
  <2>3. CASE \E g \in Handle :
               /\ InQueue(g, port) /\ st[g] = "Listen"
               /\ st' = [st EXCEPT ![h] = "Listen", ![g] = "SynReceived"]
    <3>1. PICK g \in Handle :
            /\ InQueue(g, port) /\ st[g] = "Listen"
            /\ st' = [st EXCEPT ![h] = "Listen", ![g] = "SynReceived"]
      BY <2>3, Zenon
    <3>2. st' \in [Handle -> SmolState \cup {"free"}]
      BY <3>1, Zenon DEF TypeOK, SmolState
    <3>3. g # h
      BY <1>3, <3>1, Zenon
    <3>4. /\ st'[h] = "Listen" /\ st'[g] = "SynReceived"
          /\ \A k \in Handle : k # h /\ k # g => st'[k] = st[k]
      BY <3>1, <3>3, Zenon DEF TypeOK
    <3>5. \A k \in Handle : k # h =>
            st'[k] = st[k] \/ (InQueue(k, port) /\ st'[k] = "SynReceived")
      BY <3>1, <3>4, Zenon
    <3>6. st'[h] \in {"Listen", "SynReceived"}
      BY <3>4, Zenon
    <3> HIDE DEF IInv
    <3> QED BY <1>1, <1>3, <2>1, <3>2, <3>5, <3>6, SynAppendStep, Zenon
  <2> QED BY <1>3, <2>2, <2>3, Zenon
<1>4. CASE /\ port < PortNum /\ InQueue(h, port)
           /\ st' = [st EXCEPT ![h] = "SynReceived"]
           /\ UNCHANGED <<baddr, queue, call>>
  <2>1. port \in Port
    BY <1>4, PortAssumption DEF Port, LPort
  <2>2. /\ st' \in [Handle -> SmolState \cup {"free"}]
        /\ \A g \in Handle : st'[g] = IF g = h THEN "SynReceived" ELSE st[g]
    BY <1>4, Zenon DEF TypeOK, SmolState
  <2>3. TypeOK'
    BY <1>1, <1>4, <2>2, Zenon DEF TypeOK, tcpVars
  <2>4. \A t \in Sock : state[t] # "none" => handle[t] \in Handle /\ handle[t] # h
    BY <1>4, <2>1 DEF HandleOwnership, TypeOK, InQueue, QueueIndex
  <2>5. \A q \in Port : \A i \in 1 .. Len(queue[q]) : queue[q][i] \in Handle
    BY DEF TypeOK
  <2>6. HandleOwnership'
    BY <1>1, <1>4, <2>2, <2>4, <2>5 DEF HandleOwnership, QueueIndex, tcpVars
  <2>7. SynQueueSound'
    BY <1>4, <2>2, <2>5, Zenon DEF SynQueueSound, QueueIndex
  <2>8. ConnectedIsEstablished'
    BY <1>1, <2>2, <2>4, Zenon DEF ConnectedIsEstablished, tcpVars
  <2>9. ListenersMatchTable' /\ CallSound'
    BY <1>1, <1>4, Zenon DEF ListenersMatchTable, CallSound, tcpVars
  <2> QED BY <2>3, <2>6, <2>7, <2>8, <2>9, Zenon
<1> QED BY <1>2, <1>3, <1>4, Zenon DEF Syn

(* The theorems.                                                           *)

LEMMA NextInv == IInv /\ [Next]_vars => IInv'
<1> SUFFICES ASSUME IInv, [Next]_vars PROVE IInv'
  BY Zenon
<1>1. CASE Operation
  BY Zenon, <1>1, NewStep, SetNonblockingStep, BindStep, ListenStep, ConnectStep, PollStep,
     AcceptStep, TransferStep, ShutdownStep, CloseStep, DropStep DEF Operation
<1>2. CASE Completion
  BY Zenon, <1>2, ConnectDoneStep, AcceptDoneStep, TransferDoneStep, ShutdownDoneStep,
     DropDoneStep, CloseDoneStep DEF Completion
<1>3. CASE Network
  BY <1>3, SegmentStep, SynStep, Zenon DEF Network
<1>4. CASE UNCHANGED vars
  <2>1. CallSound'
    BY <1>4, Zenon DEF vars, IInv, CallSound
  <2>2. call' \in Calls
    BY <1>4, Zenon DEF vars, IInv, TypeOK
  <2> QED BY <1>4, <2>1, <2>2, CallOnlyStep, Zenon DEF vars, tcpVars, smolVars, tableVars
<1> QED BY <1>1, <1>2, <1>3, <1>4, Zenon DEF Next

\* The inductive invariant holds in every reachable state.
THEOREM Invariance == Spec => []IInv
BY InitInv, NextInv, PTL DEF Spec

\* Every variable keeps its type: in particular CURR stays an ephemeral port
\* although get_ephemeral_port increments it on every try.
THEOREM TypeCorrect == Spec => []TypeOK
<1>1. IInv => TypeOK
  BY Zenon DEF IInv
<1> QED BY <1>1, Invariance, PTL

\* No two owners ever share a slot of SOCKET_SET, and no owner holds a slot
\* that was removed: the with_socket calls of tcp.rs and the remove in Drop
\* and in the listen table never panic on a handle.
THEOREM OwnershipSafe == Spec => []HandleOwnership
<1>1. IInv => HandleOwnership
  BY Zenon DEF IInv
<1> QED BY <1>1, Invariance, PTL

\* Listening sockets and entries of LISTEN_TABLE correspond one to one, so
\* accept on a listening socket always finds its entry.
THEOREM TableAgrees == Spec => []ListenersMatchTable
<1>1. IInv => ListenersMatchTable
  BY Zenon DEF IInv
<1> QED BY <1>1, Invariance, PTL

\* SYN queues respect LISTEN_QUEUE_SIZE and hold only handshakes and
\* connections that this side has not closed.
THEOREM QueuesSound == Spec => []SynQueueSound
<1>1. IInv => SynQueueSound
  BY Zenon DEF IInv
<1> QED BY <1>1, Invariance, PTL

\* A CONNECTED TcpSocket is past its handshake.
THEOREM ConnectedSound == Spec => []ConnectedIsEstablished
<1>1. IInv => ConnectedIsEstablished
  BY Zenon DEF IInv
<1> QED BY <1>1, Invariance, PTL

(* The owners of slots and the order of the SYN queues.                    *)

\* Nobody loses a slot and no queue changes.
OwnersStay ==
  /\ queue' = queue
  /\ \A t \in Sock : handle[t] # None => handle'[t] = handle[t]

Unlistened(p) == Unlisten(p) /\ handle' = handle

Accepted(s) ==
  /\ state[s] = "LISTENING"
  /\ \E n \in Sock, a \in Addr : TakeConnection(s, n, a)

Queued(p, h) ==
  /\ queue' = [queue EXCEPT ![p] = Append(@, h)]
  /\ handle' = handle /\ st[h] = "free"

Moves ==
  \/ OwnersStay
  \/ \E p \in Port : Unlistened(p)
  \/ \E s \in Sock : Accepted(s)
  \/ \E s \in Sock : RemoveSocket(s)
  \/ \E p \in Port, h \in Handle : Queued(p, h)

LEMMA SameOwnersStay ==
  ASSUME UNCHANGED <<handle, queue>>
  PROVE  Moves
BY Zenon DEF Moves, OwnersStay

LEMMA NewMoves ==
  ASSUME IInv, NEW s \in Sock, NEW h \in Handle, New(s, h)
  PROVE  Moves
<1>1. handle[s] = None
  BY Zenon DEF IInv, HandleOwnership, New
<1>2. \A t \in Sock : t # s => handle'[t] = handle[t]
  BY Zenon DEF New, IInv, TypeOK
<1> QED BY <1>1, <1>2, Zenon DEF Moves, OwnersStay, New, tableVars

\* A new entry starts with an empty queue, as the table had for its port.
LEMMA ListenMoves ==
  ASSUME IInv, NEW s \in Sock, Listen(s)
  PROVE  Moves
<1>1. handle' = handle
  BY Zenon DEF Listen, Fail, tcpVars
<1>2. CASE UNCHANGED tableVars
  BY <1>1, <1>2, SameOwnersStay, Zenon DEF tableVars
<1>3. ASSUME NEW port \in LPort, port < PortNum, entry[port] = None,
             queue' = [queue EXCEPT ![port] = <<>>]
      PROVE  queue' = queue
  <2>1. port \in Port
    BY <1>3, PortAssumption DEF LPort, Port
  <2>2. queue[port] = <<>>
    BY <1>3, <2>1, Zenon DEF IInv, ListenersMatchTable
  <2> QED BY <1>3, <2>1, <2>2, Zenon DEF IInv, TypeOK
<1>4. CASE ~UNCHANGED tableVars
  <2>1. \E port \in LPort : /\ port < PortNum /\ entry[port] = None
                            /\ queue' = [queue EXCEPT ![port] = <<>>]
    BY <1>4, Zenon DEF Listen, Fail, ListenTableListen
  <2> QED BY <1>1, <1>3, <2>1, SameOwnersStay, Zenon
<1> QED BY <1>2, <1>4, Zenon

LEMMA StartShutdownMoves ==
  ASSUME IInv, NEW s \in Sock, NEW op, StartShutdown(op, s)
  PROVE  Moves
<1>1. CASE state[s] = "LISTENING" /\ Unlisten(lport[s])
  BY <1>1, Zenon DEF StartShutdown, IInv, ListenersMatchTable, Moves, Unlistened
<1>2. CASE UNCHANGED tableVars
  BY <1>2, SameOwnersStay, Zenon DEF StartShutdown, tableVars
<1> QED BY <1>1, <1>2, Zenon DEF StartShutdown

LEMMA SynMoves ==
  ASSUME IInv, NEW port \in LPort, NEW a \in Addr, NEW h \in Handle, Syn(port, a, h)
  PROVE  Moves
<1>1. handle' = handle
  BY Zenon DEF Syn, tcpVars
<1>2. \/ queue' = queue
      \/ port < PortNum /\ st[h] = "free" /\ queue' = [queue EXCEPT ![port] = Append(@, h)]
  BY Zenon DEF Syn
<1>3. port < PortNum => port \in Port
  BY PortAssumption DEF LPort, Port
<1> QED BY <1>1, <1>2, <1>3, Zenon DEF Moves, Queued, OwnersStay

LEMMA NextMoves ==
  ASSUME IInv, Next
  PROVE  Moves
<1>0. call.s \in Sock
  BY DEF IInv, TypeOK, Calls
<1>1. CASE Operation
  <2>1. PICK s \in Sock :
          \/ \E h \in Handle : New(s, h)
          \/ \E nb \in BOOLEAN : SetNonblocking(s, nb)
          \/ \E a \in AnyAddr, p \in LPort : Bind(s, a, p)
          \/ Listen(s)
          \/ \E a \in Addr, reachable \in BOOLEAN : Connect(s, a, reachable)
          \/ Poll(s)
          \/ \E n \in Sock, a \in Addr : Accept(s, n, a)
          \/ \E op \in {"recv", "send"} : Transfer(op, s)
          \/ Shutdown(s)
          \/ Close(s)
          \/ Drop(s)
    BY <1>1, Zenon DEF Operation
  <2>2. CASE (\E h \in Handle : New(s, h)) \/ Listen(s)
    BY <2>2, NewMoves, ListenMoves, Zenon
  <2>3. CASE \/ \E nb \in BOOLEAN : SetNonblocking(s, nb)
             \/ \E a \in AnyAddr, p \in LPort : Bind(s, a, p)
             \/ \E a \in Addr, reachable \in BOOLEAN : Connect(s, a, reachable)
    BY <2>3, SameOwnersStay, Zenon DEF SetNonblocking, Bind, Connect, Fail, tcpVars, tableVars
  <2>4. CASE Poll(s) \/ Close(s) \/ \E op \in {"recv", "send"} : Transfer(op, s)
    BY <2>4, SameOwnersStay, Zenon DEF Poll, Close, Transfer, tcpVars, tableVars
  <2>5. CASE \E n \in Sock, a \in Addr : Accept(s, n, a)
    <3>1. UNCHANGED <<handle, queue>> \/ Accepted(s)
      BY <2>5, Zenon DEF Accept, Accepted, Fail, tcpVars, tableVars
    <3> QED BY <3>1, SameOwnersStay, Zenon DEF Moves
  <2>6. CASE Shutdown(s) \/ Drop(s)
    <3>1. \/ StartShutdown("shutdown", s) \/ StartShutdown("drop", s)
          \/ UNCHANGED <<handle, queue>>
          \/ RemoveSocket(s)
      BY <2>6, Zenon DEF Shutdown, Drop, Fail, tcpVars, tableVars
    <3> QED BY <3>1, StartShutdownMoves, SameOwnersStay, Zenon DEF Moves
  <2> QED BY <2>1, <2>2, <2>3, <2>4, <2>5, <2>6, Zenon
<1>2. CASE Completion
  <2>1. CASE \/ ConnectDone \/ ShutdownDone \/ CloseDone
             \/ \E op \in {"recv", "send"} : TransferDone(op)
    BY <2>1, SameOwnersStay, Zenon DEF ConnectDone, ShutdownDone, CloseDone, TransferDone,
       tcpVars, tableVars
  <2>2. CASE \E n \in Sock, a \in Addr : AcceptDone(n, a)
    <3>1. Accepted(call.s)
      BY <2>2, Zenon DEF AcceptDone, Accepted, InPoll, IInv, CallSound
    <3> QED BY <1>0, <3>1, Zenon DEF Moves
  <2>3. CASE DropDone
    BY <1>0, <2>3, Zenon DEF DropDone, Moves
  <2> QED BY <1>2, <2>1, <2>2, <2>3, Zenon DEF Completion
<1>3. CASE Network
  <2>1. CASE \E h \in Handle : Segment(h)
    BY <2>1, SameOwnersStay, Zenon DEF Segment, tcpVars, tableVars
  <2> QED BY <1>3, <2>1, SynMoves, Zenon DEF Network
<1> QED BY <1>1, <1>2, <1>3, Zenon DEF Next

\* What accept does to the queue of its listener.
LEMMA AcceptedFacts ==
  ASSUME IInv, NEW s \in Sock, Accepted(s)
  PROVE  \E i \in 1 .. Len(queue[lport[s]]) :
           LET q == queue[lport[s]] IN
             /\ lport[s] \in Port /\ q \in Seq(Handle)
             /\ FirstConnected(lport[s], i)
             /\ \A r \in Port : r # lport[s] => queue'[r] = queue[r]
             /\ queue'[lport[s]] = SwapRemoveFront(q, i)
             /\ \A t \in Sock : handle[t] # None => handle'[t] = handle[t]
             /\ \/ st[q[i]] = "Closed" /\ call'.op = "accept" /\ call'.ret = "ConnectionReset"
                \/ \E n \in Sock : handle'[n] = q[i]
<1>1. lport[s] \in Port
  BY Zenon DEF Accepted, IInv, ListenersMatchTable
<1>2. queue[lport[s]] \in Seq(Handle)
  BY <1>1, Zenon DEF IInv, TypeOK
<1>3. PICK n \in Sock, a \in Addr : TakeConnection(s, n, a)
  BY Zenon DEF Accepted
<1>4. PICK i \in 1 .. Len(queue[lport[s]]) :
        /\ FirstConnected(lport[s], i)
        /\ queue' = [queue EXCEPT ![lport[s]] = SwapRemoveFront(@, i)]
        /\ \/ /\ st[queue[lport[s]][i]] = "Closed"
              /\ Return("accept", s, "ConnectionReset") /\ handle' = handle
           \/ /\ state[n] = "none"
              /\ handle' = [handle EXCEPT ![n] = queue[lport[s]][i]]
  BY <1>3, Zenon DEF TakeConnection, tcpVars
<1>5. /\ \A r \in Port : r # lport[s] => queue'[r] = queue[r]
      /\ queue'[lport[s]] = SwapRemoveFront(queue[lport[s]], i)
  BY <1>1, <1>4, Zenon DEF IInv, TypeOK
<1>6. CASE /\ st[queue[lport[s]][i]] = "Closed"
           /\ Return("accept", s, "ConnectionReset") /\ handle' = handle
  <2>1. call'.op = "accept" /\ call'.ret = "ConnectionReset"
    BY <1>6 DEF Return
  <2> QED BY <1>1, <1>2, <1>4, <1>5, <1>6, <2>1, Zenon
<1>7. CASE state[n] = "none" /\ handle' = [handle EXCEPT ![n] = queue[lport[s]][i]]
  <2>1. handle[n] = None
    BY <1>7, Zenon DEF IInv, HandleOwnership
  <2>2. handle'[n] = queue[lport[s]][i] /\ \A t \in Sock : t # n => handle'[t] = handle[t]
    BY <1>7, Zenon DEF IInv, TypeOK
  <2> QED BY <1>1, <1>2, <1>4, <1>5, <2>1, <2>2, Zenon
<1> QED BY <1>4, <1>6, <1>7, Zenon

LEMMA SwapRemoved ==
  ASSUME NEW q \in Seq(Handle), NEW i \in 1 .. Len(q), NEW w, w = SwapRemoveFront(q, i)
  PROVE  /\ Len(w) = Len(q) - 1
         /\ \A j \in 1 .. Len(q) - 1 : w[j] = IF j + 1 = i THEN q[1] ELSE q[j + 1]
BY SwapRemoveFrontFacts

(* Owners.                                                                 *)

\* The slot h is live, was owned and is not any more.
Lost(h) == Owned(h) /\ ~Owned(h)' /\ st'[h] # "free"

ResetByAccept(h) == st[h] = "Closed" /\ call'.op = "accept" /\ call'.ret = "ConnectionReset"

LEMMA OwnersOf ==
  ASSUME NEW h \in Handle, Owned(h)
  PROVE  \/ \E t \in Sock : handle[t] = h /\ handle[t] # None
         \/ \E p \in Port : \E i \in 1 .. Len(queue[p]) : queue[p][i] = h
BY NamesAssumption, Zenon DEF Owned, InQueue

LEMMA MovesLoseOnlyResets ==
  ASSUME IInv, Moves, NEW h \in Handle, Lost(h)
  PROVE  ResetByAccept(h)
<1> USE DEF Lost
<1>1. \A t \in Sock : handle'[t] # h
  BY Zenon DEF Owned
<1>2. \A p \in Port : \A i \in 1 .. Len(queue'[p]) : queue'[p][i] # h
  BY Zenon DEF Owned, InQueue
<1>3. ASSUME OwnersStay PROVE FALSE
  BY <1>1, <1>2, <1>3, OwnersOf, Zenon DEF OwnersStay
<1>4. ASSUME NEW p \in Port, Unlistened(p) PROVE FALSE
  <2>1. PICK r \in Port : \E i \in 1 .. Len(queue[r]) : queue[r][i] = h
    BY <1>1, <1>4, OwnersOf, Zenon DEF Unlistened
  <2>2. r # p => queue'[r] = queue[r]
    BY <1>4, UnlistenFacts, Zenon DEF Unlistened
  <2>3. r = p => st'[h] = "free"
    BY <1>4, <2>1, Zenon DEF Unlistened, Unlisten
  <2> QED BY <1>2, <2>1, <2>2, <2>3, Zenon
<1>5. ASSUME NEW s \in Sock, RemoveSocket(s) PROVE FALSE
  <2>1. queue' = queue /\ \A t \in Sock : t # s => handle'[t] = handle[t]
    BY <1>5, Zenon DEF RemoveSocket, tableVars, IInv, TypeOK
  <2>2. handle[s] = h
    BY <1>1, <1>2, <2>1, OwnersOf, Zenon
  <2>3. st'[h] = "free"
    BY <1>5, <2>2, Zenon DEF RemoveSocket, IInv, TypeOK
  <2> QED BY <2>3, Zenon
<1>6. ASSUME NEW p \in Port, NEW g \in Handle, Queued(p, g) PROVE FALSE
  <2>1. PICK r \in Port : \E i \in 1 .. Len(queue[r]) : queue[r][i] = h
    BY <1>1, <1>6, OwnersOf, Zenon DEF Queued
  <2>2. PICK i \in 1 .. Len(queue[r]) : queue[r][i] = h
    BY <2>1, Zenon
  <2>3. CASE r # p
    <3>1. queue'[r] = queue[r]
      BY <1>6, <2>3, Zenon DEF Queued, IInv, TypeOK
    <3> QED BY <1>2, <2>2, <3>1, Zenon
  <2>4. CASE r = p
    <3>1. queue[p] \in Seq(Handle) /\ queue'[p] = Append(queue[p], g)
      BY <1>6, Zenon DEF Queued, IInv, TypeOK
    <3>2. i \in 1 .. Len(queue'[p]) /\ queue'[p][i] = h
      BY <2>2, <2>4, <3>1
    <3> QED BY <1>2, <3>2, Zenon
  <2> QED BY <2>3, <2>4, Zenon
<1>7. ASSUME NEW s \in Sock, Accepted(s) PROVE ResetByAccept(h)
  <2> DEFINE port == lport[s]
             q == queue[port]
  <2>1. PICK i \in 1 .. Len(q) :
          /\ port \in Port /\ q \in Seq(Handle)
          /\ \A r \in Port : r # port => queue'[r] = queue[r]
          /\ queue'[port] = SwapRemoveFront(q, i)
          /\ \A t \in Sock : handle[t] # None => handle'[t] = handle[t]
          /\ \/ st[q[i]] = "Closed" /\ call'.op = "accept" /\ call'.ret = "ConnectionReset"
             \/ \E n \in Sock : handle'[n] = q[i]
    BY <1>7, AcceptedFacts, Zenon
  <2> HIDE DEF port, q
  <2>2. PICK r \in Port : \E j \in 1 .. Len(queue[r]) : queue[r][j] = h
    BY <1>1, <2>1, OwnersOf, Zenon
  <2>8. r = port
    <3>1. r # port => queue'[r] = queue[r]
      BY <2>1, Zenon
    <3> QED BY <1>2, <2>2, <3>1
  <2>3. PICK j \in 1 .. Len(q) : q[j] = h
    BY <2>2, <2>8, Zenon DEF q
  <2>4. /\ Len(queue'[port]) = Len(q) - 1
        /\ \A l \in 1 .. Len(q) - 1 : queue'[port][l] = IF l + 1 = i THEN q[1] ELSE q[l + 1]
    <3>1. q \in Seq(Handle) /\ queue'[port] = SwapRemoveFront(q, i)
      BY <2>1, Zenon
    <3> QED BY <3>1, SwapRemoved
  <2>5. \A l \in 1 .. Len(q) - 1 : queue'[port][l] # h
    BY <1>2, <2>1, <2>4, Zenon
  <2>6. Len(q) \in Nat
    BY <2>1
  <2>7. j = i
    <3>1. ASSUME j # i, j = 1 PROVE FALSE
      <4>1. i - 1 \in 1 .. Len(q) - 1 /\ (i - 1) + 1 = i
        BY <2>6, <3>1
      <4> QED BY <2>3, <2>4, <2>5, <3>1, <4>1, Zenon
    <3>2. ASSUME j # i, j # 1 PROVE FALSE
      <4>1. j - 1 \in 1 .. Len(q) - 1 /\ (j - 1) + 1 = j
        BY <2>6, <3>2
      <4> QED BY <2>3, <2>4, <2>5, <3>2, <4>1, Zenon
    <3> QED BY <3>1, <3>2, Zenon
  <2> QED BY <1>1, <2>1, <2>3, <2>7, Zenon DEF ResetByAccept
<1> QED BY <1>3, <1>4, <1>5, <1>6, <1>7, Zenon DEF Moves

(* Order.                                                                  *)

NoStepBack ==
  \A p \in Port : \A i \in 1 .. Len(queue[p]), j \in 1 .. Len(queue'[p]) :
    queue[p][i] = queue'[p][j] /\ IsConnected(queue[p][i]) => j <= i

LEMMA MovesNoStepBack ==
  ASSUME IInv, Moves
  PROVE  NoStepBack
<1> SUFFICES ASSUME NEW p \in Port, NEW i \in 1 .. Len(queue[p]), NEW j \in 1 .. Len(queue'[p]),
                    queue[p][i] = queue'[p][j], IsConnected(queue[p][i])
             PROVE  j <= i
  BY Zenon DEF NoStepBack
<1> DEFINE q == queue[p]
<1>1. q \in Seq(Handle) /\ Len(q) \in Nat
  BY DEF IInv, TypeOK
<1>2. \A m, n \in 1 .. Len(q) : q[m] = q[n] => m = n
  BY DEF IInv, HandleOwnership, QueueIndex
<1>3. \A m \in 1 .. Len(q) : st[q[m]] # "free"
  BY Zenon DEF IInv, HandleOwnership, QueueIndex
<1>4. ASSUME queue'[p] = q PROVE j <= i
  <2>1. i = j
    BY <1>2, <1>4, Zenon
  <2> QED BY <1>1, <2>1
<1>5. ASSUME NEW r \in Port, Unlistened(r) PROVE j <= i
  <2>1. CASE r = p
    <3>1. Len(queue'[p]) = 0
      BY <1>5, <2>1, UnlistenFacts DEF Unlistened
    <3> QED BY <3>1
  <2>2. CASE r # p
    BY <1>4, <1>5, <2>2, UnlistenFacts, Zenon DEF Unlistened
  <2> QED BY <2>1, <2>2, Zenon
<1>6. ASSUME NEW r \in Port, NEW h \in Handle, Queued(r, h) PROVE j <= i
  <2>1. CASE r # p
    BY <1>4, <1>6, <2>1, Zenon DEF Queued, IInv, TypeOK
  <2>2. CASE r = p
    <3>1. queue'[p] = Append(q, h)
      BY <1>6, <2>2, Zenon DEF Queued, IInv, TypeOK
    <3>2. q[i] # h
      BY <1>3, <1>6, Zenon DEF Queued
    <3>3. j \in 1 .. Len(q) /\ queue'[p][j] = q[j]
      BY <1>1, <3>1, <3>2
    <3>4. i = j
      BY <1>2, <3>3, Zenon
    <3> QED BY <1>1, <3>4
  <2> QED BY <2>1, <2>2, Zenon
<1>7. ASSUME NEW s \in Sock, Accepted(s) PROVE j <= i
  <2>1. CASE lport[s] # p
    BY <1>4, <1>7, <2>1, AcceptedFacts, Zenon
  <2>2. CASE lport[s] = p
    <3>1. PICK f \in 1 .. Len(q) :
            FirstConnected(p, f) /\ queue'[p] = SwapRemoveFront(q, f)
      BY <1>7, <2>2, AcceptedFacts, Zenon
    <3>2. /\ Len(queue'[p]) = Len(q) - 1
          /\ \A l \in 1 .. Len(q) - 1 : queue'[p][l] = IF l + 1 = f THEN q[1] ELSE q[l + 1]
      <4> HIDE DEF q
      <4>1. q \in Seq(Handle) /\ queue'[p] = SwapRemoveFront(q, f)
        BY <1>1, <3>1, Zenon
      <4> QED BY <4>1, SwapRemoved
    <3>3. ~(i < f)
      <4>1. i < f => i \in 1 .. f - 1
        BY <1>1
      <4> QED BY <3>1, <4>1, Zenon DEF FirstConnected
    <3>4. j \in 1 .. Len(q) - 1 /\ j + 1 \in 1 .. Len(q) /\ 1 \in 1 .. Len(q)
      BY <1>1, <3>2
    <3>5. CASE j + 1 = f
      <4>1. queue[p][i] = q[1]
        BY <3>2, <3>4, <3>5, Zenon
      <4>2. i = 1
        BY <1>2, <3>4, <4>1, Zenon
      <4> QED BY <1>1, <3>3, <3>4, <3>5, <4>2
    <3>6. CASE j + 1 # f
      <4>1. queue[p][i] = q[j + 1]
        BY <3>2, <3>4, <3>6, Zenon
      <4>2. i = j + 1
        BY <1>2, <3>4, <4>1, Zenon
      <4> QED BY <1>1, <3>4, <4>2
    <3> QED BY <3>5, <3>6, Zenon
  <2> QED BY <2>1, <2>2, Zenon
<1> QED BY <1>4, <1>5, <1>6, <1>7, Zenon DEF Moves, OwnersStay, RemoveSocket, tableVars

(* The theorems.                                                           *)

\* A live slot of SOCKET_SET loses its owner only where accept takes a reset
\* connection out of a SYN queue.
THEOREM SlotsLostOnlyOnReset == Spec => LeakOnlyOnReset
<1>1. IInv /\ [Next]_vars =>
        [\A h \in Handle :
           Owned(h) /\ ~Owned(h)' /\ st'[h] # "free" =>
             st[h] = "Closed" /\ call'.op = "accept" /\ call'.ret = "ConnectionReset"]_vars
  BY NextMoves, MovesLoseOnlyResets, Zenon DEF Lost, ResetByAccept
<1> QED BY Invariance, <1>1, PTL DEF Spec, LeakOnlyOnReset

\* A connection that is ready never gets behind one it preceded, whatever
\* swap_remove_front does to the rest of the queue.
THEOREM ReadyMovesForward == Spec => ReadyNeverMovesBack
<1>1. IInv /\ [Next]_vars =>
        [\A p \in Port : \A i \in 1 .. Len(queue[p]), j \in 1 .. Len(queue'[p]) :
           queue[p][i] = queue'[p][j] /\ IsConnected(queue[p][i]) => j <= i]_vars
  BY NextMoves, MovesNoStepBack, Zenon DEF NoStepBack
<1> QED BY Invariance, <1>1, PTL DEF Spec, ReadyNeverMovesBack

(* The server.                                                             *)

Unslotted(s) == \A i \in DOMAIN vec : vec[i] # s

\* Where handle_ipc is, where the call in progress is, and what the kernel
\* thread waits for.
ControlAgrees ==
  /\ srv \in {"recv", "drop", "lock"} => call.pc = "idle"
  /\ srv \in {"poll", "dropping"} => call.pc = "poll"
  /\ srv = "panic" => call.pc # "poll"
  /\ srv \in {"poll", "lock"} => kern.pc = "wait"
  /\ srv = "poll" => call.op = kern.op /\ (Unslotted(call.s) <=> kern.op = "close")
  /\ srv = "dropping" => call.op = "drop"
  /\ srv \in {"drop", "dropping"} => Unslotted(call.s)
  /\ srv = "drop" => state[call.s] # "none"

NetTypeOK ==
  /\ vec \in Seq(Sock \cup {None})
  /\ kern \in [pc: {"ready", "wait", "panic"}, op: RequestOps, id: Nat,
               port: LPort, res: Results]
  /\ srv \in SrvState

NetInv == NetTypeOK /\ ControlAgrees /\ SlotsHoldSockets /\ NoOrphanCall

ServerInv == IInv /\ NetInv

LEMMA ServerInitInv == ServerInit => ServerInv
<1> SUFFICES ASSUME ServerInit PROVE ServerInv
  BY Zenon
<1>1. IInv
  BY InitInv, Zenon DEF ServerInit
<1>2. NetTypeOK
  BY PortAssumption DEF ServerInit, NetTypeOK, RequestOps, LPort, Results, SrvState
<1>3. call.pc = "idle" /\ \A s \in Sock : state[s] = "none"
  BY DEF ServerInit, Init
<1>4. ControlAgrees /\ SlotsHoldSockets /\ NoOrphanCall
  BY <1>3 DEF ServerInit, ControlAgrees, SlotsHoldSockets, NoOrphanCall, Idle
<1> QED BY <1>1, <1>2, <1>4, Zenon DEF ServerInv, NetInv

(* What the server sees of an operation.                                   *)

LEMMA CallFields ==
  ASSUME NEW op, NEW s
  PROVE  /\ \A r : Return(op, s, r) =>
              call'.op = op /\ call'.s = s /\ call'.pc = "idle" /\ call'.ret = r
         /\ Block(op, s) => call'.op = op /\ call'.s = s /\ call'.pc = "poll"
         /\ Panic(op, s) => call'.op = op /\ call'.s = s /\ call'.pc = "panic"
BY DEF Return, Block, Panic

\* The operation op on s leaves its name in call and removes no TcpSocket; only
\* an accept that succeeds makes one.
Runs(op, s) ==
  /\ call'.op = op /\ call'.s = s /\ call'.pc \in {"idle", "poll", "panic"}
  /\ \A t \in Sock : state[t] # "none" => state'[t] # "none"
  /\ \A t \in Sock : state[t] = "none" /\ state'[t] # "none" =>
       /\ op = "accept" /\ call'.pc = "idle" /\ call'.ret = "Ok"
       /\ state'[t] = "CONNECTED"

LEMMA CallRuns ==
  ASSUME NEW op, NEW s,
         (\E r : Return(op, s, r)) \/ Block(op, s) \/ Panic(op, s),
         \A t \in Sock : (state[t] = "none") <=> (state'[t] = "none")
  PROVE  Runs(op, s)
BY CallFields, Zenon DEF Runs

LEMMA BindRuns ==
  ASSUME NEW s \in Sock, NEW a, NEW p, Bind(s, a, p)
  PROVE  Runs("bind", s)
<1>1. state' = state
  BY Zenon DEF Bind, Fail, tcpVars
<1>2. (\E r : Return("bind", s, r)) \/ Panic("bind", s)
  BY Zenon DEF Bind, Fail, BindCheck
<1> QED BY <1>1, <1>2, CallRuns, Zenon

LEMMA ListenRuns ==
  ASSUME TypeOK, NEW s \in Sock, Listen(s)
  PROVE  Runs("listen", s)
<1>1. state' = state \/ state' = [state EXCEPT ![s] = "LISTENING"]
  BY Zenon DEF Listen, Fail, tcpVars, ListenTableListen
<1>2. (\E r : Return("listen", s, r)) \/ Panic("listen", s)
  BY Zenon DEF Listen, Fail, ListenTableListen
<1>3. \A t \in Sock : (state[t] = "none") <=> (state'[t] = "none")
  BY <1>1, Zenon DEF TypeOK, Listen
<1> QED BY <1>2, <1>3, CallRuns, Zenon

LEMMA ConnectRuns ==
  ASSUME TypeOK, NEW s \in Sock, NEW a, NEW reachable, Connect(s, a, reachable)
  PROVE  Runs("connect", s)
<1>1. state' = state \/ state' = [state EXCEPT ![s] = "CONNECTING"]
  BY Zenon DEF Connect, Fail, tcpVars
<1>2. (\E r : Return("connect", s, r)) \/ Panic("connect", s) \/ Block("connect", s)
  BY Zenon DEF Connect, Fail
<1>3. \A t \in Sock : (state[t] = "none") <=> (state'[t] = "none")
  BY <1>1, Zenon DEF TypeOK, Connect
<1> QED BY <1>2, <1>3, CallRuns, Zenon

LEMMA TransferRuns ==
  ASSUME NEW s \in Sock, NEW op, Transfer(op, s)
  PROVE  Runs(op, s)
<1>1. state' = state
  BY Zenon DEF Transfer, tcpVars
<1>2. (\E r : Return(op, s, r)) \/ Block(op, s)
  BY Zenon DEF Transfer
<1> QED BY <1>1, <1>2, CallRuns, Zenon

LEMMA ShutdownRuns ==
  ASSUME TypeOK, NEW s \in Sock, Shutdown(s)
  PROVE  Runs("shutdown", s)
<1>1. state' = state \/ state' = [state EXCEPT ![s] = "BUSY"]
  BY Zenon DEF Shutdown, StartShutdown, Fail, tcpVars
<1>2. (\E r : Return("shutdown", s, r)) \/ Block("shutdown", s)
  BY Zenon DEF Shutdown, StartShutdown, Fail
<1>3. \A t \in Sock : (state[t] = "none") <=> (state'[t] = "none")
  BY <1>1, Zenon DEF TypeOK, Shutdown
<1> QED BY <1>2, <1>3, CallRuns, Zenon

LEMMA SetNonblockingRuns ==
  ASSUME NEW s \in Sock, NEW nb, SetNonblocking(s, nb)
  PROVE  Runs("set_nonblocking", s)
BY CallRuns, Zenon DEF SetNonblocking

LEMMA TakeConnectionRuns ==
  ASSUME TypeOK, NEW s \in Sock, NEW n \in Sock, NEW a, TakeConnection(s, n, a)
  PROVE  Runs("accept", s)
<1>1. CASE \E r : Return("accept", s, r) /\ UNCHANGED tcpVars
  BY <1>1, CallRuns, Zenon DEF tcpVars
<1>2. CASE /\ state[n] = "none" /\ state' = [state EXCEPT ![n] = "CONNECTED"]
           /\ Return("accept", s, "Ok")
  <2>1. \A t \in Sock : state'[t] = IF t = n THEN "CONNECTED" ELSE state[t]
    BY <1>2, Zenon DEF TypeOK
  <2> QED BY <1>2, <2>1, CallFields, Zenon DEF Runs
<1> QED BY <1>1, <1>2, Zenon DEF TakeConnection

LEMMA AcceptRuns ==
  ASSUME TypeOK, NEW s \in Sock, NEW n \in Sock, NEW a, Accept(s, n, a)
  PROVE  Runs("accept", s)
<1>1. CASE TakeConnection(s, n, a)
  BY <1>1, TakeConnectionRuns, Zenon
<1>2. CASE UNCHANGED tcpVars /\ ((\E r : Return("accept", s, r)) \/ Block("accept", s))
  BY <1>2, CallRuns, Zenon DEF tcpVars
<1> QED BY <1>1, <1>2, Zenon DEF Accept, Fail

\* The end of a poll loop, other than that of drop.
LEMMA CompletionRuns ==
  ASSUME IInv, Completion, call.op # "drop"
  PROVE  call.pc = "poll" /\ Runs(call.op, call.s) /\ call'.pc = "idle"
<1>0. TypeOK /\ CallSound /\ call.s \in Sock
  BY Zenon DEF IInv, TypeOK, Calls
<1>1. CASE ConnectDone
  <2>1. state' = [state EXCEPT ![call.s] = "CONNECTED"] \/ state' = [state EXCEPT ![call.s] = "CLOSED"]
    BY <1>1, Zenon DEF ConnectDone, PollConnect
  <2>2. state[call.s] = "CONNECTING"
    BY <1>0, <1>1, Zenon DEF ConnectDone, InPoll, CallSound
  <2>3. \A t \in Sock : (state[t] = "none") <=> (state'[t] = "none")
    BY <1>0, <2>1, <2>2, Zenon DEF TypeOK
  <2>4. \E r : Return("connect", call.s, r)
    BY <1>1, Zenon DEF ConnectDone
  <2> QED BY <1>1, <2>3, <2>4, CallRuns, CallFields, Zenon DEF ConnectDone, InPoll
<1>2. ASSUME NEW n \in Sock, NEW a \in Addr, AcceptDone(n, a)
      PROVE  call.pc = "poll" /\ Runs(call.op, call.s) /\ call'.pc = "idle"
  <2>1. Runs("accept", call.s)
    BY <1>0, <1>2, TakeConnectionRuns, Zenon DEF AcceptDone
  <2>2. \E r : Return("accept", call.s, r)
    BY <1>2, Zenon DEF AcceptDone, TakeConnection
  <2> QED BY <1>2, <2>1, <2>2, CallFields, Zenon DEF AcceptDone, InPoll
<1>3. ASSUME NEW op \in {"recv", "send"}, TransferDone(op)
      PROVE  call.pc = "poll" /\ Runs(call.op, call.s) /\ call'.pc = "idle"
  <2>1. state' = state /\ \E r : Return(op, call.s, r)
    BY <1>3, Zenon DEF TransferDone, tcpVars
  <2> QED BY <1>3, <2>1, CallRuns, CallFields, Zenon DEF TransferDone, InPoll
<1>4. CASE ShutdownDone
  <2>1. state[call.s] = "BUSY"
    BY <1>0, <1>4, Zenon DEF ShutdownDone, InPoll, CallSound
  <2>2. \A t \in Sock : (state[t] = "none") <=> (state'[t] = "none")
    BY <1>0, <1>4, <2>1, Zenon DEF TypeOK, ShutdownDone
  <2>3. \E r : Return("shutdown", call.s, r)
    BY <1>4, Zenon DEF ShutdownDone
  <2> QED BY <1>4, <2>2, <2>3, CallRuns, CallFields, Zenon DEF ShutdownDone, InPoll
<1>5. CASE CloseDone
  <2>1. state' = state /\ \E r : Return("close", call.s, r)
    BY <1>5, Zenon DEF CloseDone, tcpVars
  <2> QED BY <1>5, <2>1, CallRuns, CallFields, Zenon DEF CloseDone, InPoll
<1>6. ~DropDone
  BY Zenon DEF DropDone, InPoll
<1> QED BY <1>1, <1>2, <1>3, <1>4, <1>5, <1>6, Zenon DEF Completion

(* The slots.                                                              *)

\* A live slot of the request in progress holds a socket.
LEMMA TargetIsSocket ==
  ASSUME NetInv, Live(kern.id)
  PROVE  /\ kern.id + 1 \in DOMAIN vec /\ vec[kern.id + 1] = Target
         /\ Target \in Sock /\ state[Target] # "none"
<1>1. kern.id \in Nat /\ Len(vec) \in Nat /\ DOMAIN vec = 1 .. Len(vec)
  BY DEF NetInv, NetTypeOK
<1>2. kern.id + 1 \in DOMAIN vec
  BY <1>1 DEF Live
<1>3. Target \in Sock
  BY <1>2 DEF NetInv, NetTypeOK, Live, Target
<1>4. state[Target] # "none"
  BY <1>2, Zenon DEF NetInv, SlotsHoldSockets, Live, Target
<1> QED BY <1>2, <1>3, <1>4, Zenon DEF Target

LEMMA AnswerType ==
  ASSUME NetTypeOK, NEW ret, Answer(ret)
  PROVE  /\ kern'.pc \in {"ready", "panic"} /\ kern'.op = kern.op
         /\ kern' \in [pc: {"ready", "wait", "panic"}, op: RequestOps, id: Nat,
                       port: LPort, res: Results]
<1>1. Decode(kern.op, ret) \in Results
  BY Zenon DEF Decode, Results
<1> QED BY <1>1, Zenon DEF Answer, NetTypeOK

AllSlotted == \A t \in Sock : state[t] # "none" => ~Unslotted(t)

\* handle_ipc finds every socket in its slot when it takes a request.
LEMMA SlottedAtRequest ==
  ASSUME NetInv, srv = "recv" \/ (srv = "poll" /\ kern.op # "close")
  PROVE  AllSlotted
<1>1. srv = "poll" => ~Unslotted(call.s)
  BY Zenon DEF NetInv, ControlAgrees
<1>2. ASSUME NEW t \in Sock, state[t] # "none", Unslotted(t) PROVE srv = "poll" /\ call.s = t
  BY <1>2, Zenon DEF NetInv, SlotsHoldSockets, Unslotted
<1> QED BY <1>1, <1>2, Zenon DEF AllSlotted

\* A request on a socket that stays in its slot.
LEMMA RequestServed ==
  ASSUME NetInv, AllSlotted, NEW s \in Sock, ~Unslotted(s),
         kern.pc = "wait", kern.op \notin {"new", "close"},
         Runs(kern.op, s), Respond, UNCHANGED vec
  PROVE  NetInv'
<1> USE DEF NetInv
<1>1. \/ /\ call'.pc = "idle" /\ kern.op = "accept" /\ srv' = "lock" /\ kern' = kern
      \/ /\ call'.pc = "idle" /\ ~(kern.op = "accept" /\ call'.ret = "Ok")
         /\ srv' = "recv" /\ Answer(call'.ret)
      \/ call'.pc \in {"poll", "panic"} /\ srv' = call'.pc /\ kern' = kern
  BY Zenon DEF Respond, Reply, Runs
<1>2. NetTypeOK'
  <2>1. srv' \in SrvState
    BY <1>1, Zenon DEF SrvState
  <2>2. kern' = kern \/ Answer(call'.ret)
    BY <1>1, Zenon
  <2> QED BY <2>1, <2>2, AnswerType, Zenon DEF NetTypeOK
<1>3. \A t \in Sock : Unslotted(t) <=> Unslotted(t)'
  BY Zenon DEF Unslotted
<1>4. call'.op = kern.op /\ call'.s = s
  BY Zenon DEF Runs
<1>5. srv' = "recv" => kern'.pc # "wait"
  BY <1>1, AnswerType, Zenon
<1>6. srv' # "recv" => kern' = kern /\ srv' \in {"lock", "poll", "panic"} /\ (srv' = "lock" <=> call'.pc = "idle")
  BY <1>1, Zenon
<1>7. srv' = "recv" => call'.pc = "idle"
  BY <1>1, Zenon
<1>8. ControlAgrees'
  <2>1. ~Unslotted(call.s)'
    BY <1>4, Zenon DEF Unslotted
  <2>2. srv' = "poll" => call'.pc = "poll"
    BY <1>1, Zenon
  <2>3. srv' = "panic" => call'.pc # "poll"
    BY <1>1, Zenon
  <2> QED BY <1>4, <1>6, <1>7, <2>1, <2>2, <2>3, Zenon DEF ControlAgrees, Unslotted
<1>9. SlotsHoldSockets'
  <2>1. \A i, j \in DOMAIN vec : vec[i] = vec[j] /\ vec[i] # None => i = j
    BY Zenon DEF SlotsHoldSockets
  <2>2. \A i \in DOMAIN vec : vec[i] # None => state'[vec[i]] # "none"
    <3>1. \A i \in DOMAIN vec : vec[i] # None => vec[i] \in Sock
      BY DEF NetTypeOK
    <3> QED BY <3>1, Zenon DEF SlotsHoldSockets, Runs
  <2>3. \A t \in Sock : state'[t] # "none" /\ (\A i \in DOMAIN vec : vec[i] # t) =>
          srv' = "lock" /\ state'[t] = "CONNECTED"
    <3> SUFFICES ASSUME NEW t \in Sock, state'[t] # "none", \A i \in DOMAIN vec : vec[i] # t
                 PROVE  srv' = "lock" /\ state'[t] = "CONNECTED"
      BY Zenon
    <3>1. state[t] = "none"
      BY Zenon DEF AllSlotted, Unslotted
    <3>2. kern.op = "accept" /\ call'.pc = "idle" /\ call'.ret = "Ok" /\ state'[t] = "CONNECTED"
      BY <3>1, Zenon DEF Runs
    <3> QED BY <1>1, <3>2, Zenon
  <2> QED BY <2>1, <2>2, <2>3, Zenon DEF SlotsHoldSockets
<1>10. NoOrphanCall'
  BY <1>6, <1>7, Zenon DEF NoOrphanCall, Idle
<1> QED BY <1>2, <1>8, <1>9, <1>10, Zenon

LEMMA ServeNewStep ==
  ASSUME TypeOK, NetInv, NEW s \in Sock, NEW h \in Handle, ServeNew(s, h)
  PROVE  NetInv'
<1> USE DEF NetInv
<1>1. PICK id \in 0 .. Len(vec) : AllocSocketId(id) /\ vec' = Store(id, s)
  BY Zenon DEF ServeNew
<1>2. srv = "recv" /\ kern.pc = "wait" /\ kern.op = "new" /\ state[s] = "none"
  BY Zenon DEF ServeNew, Serving, New
<1>3. call'.pc = "idle" /\ call'.s = s /\ call'.op = "new"
  BY CallFields, Zenon DEF ServeNew, New
<1>4. srv' = "recv" /\ Answer(call'.ret)
  BY <1>2, <1>3, Zenon DEF ServeNew, Respond, Reply
<1>5. Len(vec) \in Nat /\ DOMAIN vec = 1 .. Len(vec) /\ \A i \in DOMAIN vec : vec[i] \in Sock \cup {None}
  BY DEF NetTypeOK
<1>6. /\ vec' \in Seq(Sock \cup {None})
      /\ id + 1 \in DOMAIN vec' /\ vec'[id + 1] = s
      /\ DOMAIN vec' = DOMAIN vec \cup {id + 1}
      /\ \A i \in DOMAIN vec : i # id + 1 => vec'[i] = vec[i]
      /\ id + 1 \in DOMAIN vec => vec[id + 1] = None
  <2>1. CASE id = Len(vec)
    BY <1>1, <1>5, <2>1 DEF NetTypeOK, Store
  <2>2. CASE id # Len(vec)
    <3>1. id + 1 \in DOMAIN vec /\ vec[id + 1] = None
      <4>1. id \in Nat /\ id <= Len(vec)
        BY <1>5
      <4>2. \A m, n \in Nat : m <= n /\ m # n => m < n /\ m + 1 \in 1 .. n
        OBVIOUS
      <4>3. id < Len(vec) /\ id + 1 \in 1 .. Len(vec)
        BY <1>5, <2>2, <4>1, <4>2, Zenon
      <4> QED BY <1>1, <1>5, <4>3, Zenon DEF AllocSocketId
    <3>2. vec' = [vec EXCEPT ![id + 1] = s]
      BY <1>1, <2>2, Zenon DEF Store
    <3> QED BY <1>5, <3>1, <3>2 DEF NetTypeOK
  <2> QED BY <1>5, <2>1, <2>2, Zenon
<1>7. \A t \in Sock : state'[t] = IF t = s THEN "CLOSED" ELSE state[t]
  BY Zenon DEF ServeNew, New, TypeOK
<1>8. \A i \in DOMAIN vec : vec[i] # s
  BY <1>2, SocketsAssumption, Zenon DEF SlotsHoldSockets
<1>9. NetTypeOK'
  BY <1>4, <1>6, AnswerType, Zenon DEF NetTypeOK, SrvState
<1>10. ControlAgrees' /\ NoOrphanCall'
  BY <1>3, <1>4, AnswerType, Zenon DEF ControlAgrees, NoOrphanCall, Idle
<1>11. SlotsHoldSockets'
  <2>1. \A i, j \in DOMAIN vec' : vec'[i] = vec'[j] /\ vec'[i] # None => i = j
    BY <1>6, <1>8, ZenonT(30) DEF SlotsHoldSockets
  <2>2. \A i \in DOMAIN vec' : vec'[i] # None => state'[vec'[i]] # "none"
    BY <1>5, <1>6, <1>7 DEF SlotsHoldSockets
  <2>3. \A t \in Sock : state'[t] # "none" => \E i \in DOMAIN vec' : vec'[i] = t
    <3> TAKE t \in Sock
    <3>1. CASE t = s
      BY <1>6, <3>1, Zenon
    <3>2. ASSUME t # s, state'[t] # "none" PROVE \E i \in DOMAIN vec' : vec'[i] = t
      <4>1. PICK i \in DOMAIN vec : vec[i] = t
        BY <1>2, <1>7, <3>2, SlottedAtRequest, Zenon DEF AllSlotted, Unslotted
      <4>2. i # id + 1
        BY <1>6, <4>1, SocketsAssumption, Zenon
      <4> QED BY <1>6, <4>1, <4>2, Zenon
    <3> QED BY <3>1, <3>2, Zenon
  <2> QED BY <2>1, <2>2, <2>3, Zenon DEF SlotsHoldSockets
<1> QED BY <1>9, <1>10, <1>11, Zenon

LEMMA ServeCloseStep ==
  ASSUME TypeOK, NetInv, ServeClose
  PROVE  NetInv'
<1> USE DEF NetInv
<1> DEFINE s == Target
<1>1. srv = "recv" /\ kern.pc = "wait" /\ kern.op = "close" /\ state' = state
  BY Zenon DEF ServeClose, Serving, Close, tcpVars
<1>2. /\ kern.id + 1 \in DOMAIN vec /\ vec[kern.id + 1] = s
      /\ s \in Sock /\ state[s] # "none"
  BY TargetIsSocket, Zenon DEF ServeClose
<1> HIDE DEF s
<1>3. call'.pc = "poll" /\ call'.s = s /\ call'.op = "close"
  BY CallFields, Zenon DEF ServeClose, Close, s
<1>4. srv' = "poll" /\ kern' = kern
  BY <1>3, Zenon DEF ServeClose, Respond
<1>5. /\ vec' \in Seq(Sock \cup {None}) /\ DOMAIN vec' = DOMAIN vec
      /\ vec'[kern.id + 1] = None
      /\ \A i \in DOMAIN vec : i # kern.id + 1 => vec'[i] = vec[i]
  BY <1>2 DEF ServeClose, NetTypeOK
<1>6. \A i \in DOMAIN vec' : vec'[i] # s
  BY <1>2, <1>5, SocketsAssumption, ZenonT(30) DEF SlotsHoldSockets
<1>7. NetTypeOK'
  BY <1>4, <1>5, Zenon DEF NetTypeOK, SrvState
<1>8. ControlAgrees' /\ NoOrphanCall'
  BY <1>1, <1>3, <1>4, <1>6 DEF ControlAgrees, NoOrphanCall, Unslotted
<1>9. SlotsHoldSockets'
  <2>1. \A i, j \in DOMAIN vec' : vec'[i] = vec'[j] /\ vec'[i] # None => i = j
    BY <1>5, Zenon DEF SlotsHoldSockets
  <2>2. \A i \in DOMAIN vec' : vec'[i] # None => state'[vec'[i]] # "none"
    BY <1>1, <1>5, Zenon DEF SlotsHoldSockets
  <2>3. \A t \in Sock : state'[t] # "none" /\ (\A i \in DOMAIN vec' : vec'[i] # t) => t = s
    <3> SUFFICES ASSUME NEW t \in Sock, state[t] # "none", t # s
                 PROVE  \E i \in DOMAIN vec' : vec'[i] = t
      BY <1>1, Zenon
    <3>1. PICK i \in DOMAIN vec : vec[i] = t
      BY <1>1, SlottedAtRequest, Zenon DEF AllSlotted, Unslotted
    <3> QED BY <1>2, <1>5, <3>1, Zenon
  <2> QED BY <1>3, <1>4, <2>1, <2>2, <2>3, Zenon DEF SlotsHoldSockets
<1> QED BY <1>7, <1>8, <1>9, Zenon

\* The poll loop of a request ends; after a close the socket is still to be
\* dropped.
LEMMA ResumeStep ==
  ASSUME IInv, NetInv, Resume
  PROVE  NetInv'
<1> USE DEF NetInv
<1>1. srv = "poll" /\ kern.pc = "wait" /\ call.op = kern.op /\ vec' = vec
  BY Zenon DEF Resume, ControlAgrees
<1>2. call.s \in Sock /\ kern.op # "drop"
  BY Zenon DEF IInv, TypeOK, Calls, NetTypeOK, RequestOps
<1>3. call.pc = "poll" /\ Runs(kern.op, call.s) /\ call'.pc = "idle"
  BY <1>1, <1>2, CompletionRuns, Zenon DEF Resume
<1>4. CASE kern.op = "close"
  <2>1. srv' = "drop" /\ Answer(call'.ret) /\ call'.s = call.s
    BY <1>3, <1>4, Zenon DEF Resume, Respond, Reply, Runs
  <2>2. Unslotted(call.s)
    BY <1>1, <1>4, Zenon DEF ControlAgrees
  <2>3. state[call.s] # "none"
    BY <1>1, <1>3, <1>4, Zenon DEF IInv, CallSound
  <2>4. \A t \in Sock : (state[t] = "none") <=> (state'[t] = "none")
    BY <1>4, <1>3, Zenon DEF Runs
  <2>5. NetTypeOK'
    BY <1>1, <2>1, AnswerType, Zenon DEF NetTypeOK, SrvState
  <2>6. ControlAgrees' /\ NoOrphanCall'
    BY <1>1, <1>2, <1>3, <2>1, <2>2, <2>3, <2>4 DEF ControlAgrees, NoOrphanCall, Unslotted
  <2>7. SlotsHoldSockets'
    <3>1. \A i \in DOMAIN vec : vec[i] # None => vec[i] \in Sock
      BY DEF NetTypeOK
    <3>2. \A t \in Sock : state[t] # "none" /\ (\A i \in DOMAIN vec : vec[i] # t) => call.s = t
      BY <1>1, Zenon DEF SlotsHoldSockets
    <3> QED BY <1>1, <2>1, <2>4, <3>1, <3>2, Zenon DEF SlotsHoldSockets
  <2> QED BY <2>5, <2>6, <2>7, Zenon
<1>5. CASE kern.op # "close"
  <2>1. kern.op # "new"
    <3>1. \E op \in {"connect", "accept", "recv", "send", "shutdown", "drop", "close"} : InPoll(op)
      BY Zenon DEF Resume, Completion, ConnectDone, AcceptDone, TransferDone, ShutdownDone,
         DropDone, CloseDone
    <3> QED BY <1>1, <3>1, Zenon DEF InPoll
  <2>2. ~Unslotted(call.s)
    BY <1>1, <1>5, Zenon DEF ControlAgrees
  <2>3. AllSlotted
    BY <1>1, <1>5, SlottedAtRequest, Zenon
  <2>4. Respond
    BY Zenon DEF Resume
  <2> QED BY <1>1, <1>2, <1>3, <1>5, <2>1, <2>2, <2>3, <2>4, RequestServed, Zenon
<1> QED BY <1>4, <1>5, Zenon

\* The one socket outside the slots is removed, and handle_ipc waits again.
LEMMA SocketGone ==
  ASSUME TypeOK, NetInv, srv' = "recv", UNCHANGED <<vec, kern>>, call'.pc = "idle",
         call.s \in Sock, Unslotted(call.s), RemoveSocket(call.s),
         \A t \in Sock : state[t] # "none" /\ (\A i \in DOMAIN vec : vec[i] # t) => t = call.s
  PROVE  NetInv'
<1> USE DEF NetInv
<1>1. \A t \in Sock : state'[t] = IF t = call.s THEN "none" ELSE state[t]
  BY Zenon DEF RemoveSocket, TypeOK
<1>2. \A i \in DOMAIN vec : vec[i] # None => vec[i] \in Sock /\ vec[i] # call.s
  BY DEF NetTypeOK, Unslotted
<1>3. NetTypeOK'
  BY Zenon DEF NetTypeOK, SrvState
<1>4. ControlAgrees' /\ NoOrphanCall'
  BY Zenon DEF ControlAgrees, NoOrphanCall, Idle
<1>5. SlotsHoldSockets'
  <2>1. \A i \in DOMAIN vec : vec[i] # None => state'[vec[i]] # "none"
    BY <1>1, <1>2 DEF SlotsHoldSockets
  <2>2. \A t \in Sock : ~(state'[t] # "none" /\ (\A i \in DOMAIN vec : vec[i] # t))
    BY <1>1, Zenon
  <2> QED BY <2>1, <2>2, Zenon DEF SlotsHoldSockets
<1> QED BY <1>3, <1>4, <1>5, Zenon

\* The socket that close took out of its slot is dropped.
LEMMA DropStarts ==
  ASSUME TypeOK, NetInv, DropClosed
  PROVE  NetInv'
<1> USE DEF NetInv
<1>1. /\ srv = "drop" /\ vec' = vec /\ kern' = kern /\ call.s \in Sock
      /\ Unslotted(call.s)
  BY Zenon DEF DropClosed, ControlAgrees, TypeOK, Calls
<1>2. \A t \in Sock : state[t] # "none" /\ (\A i \in DOMAIN vec : vec[i] # t) => t = call.s
  BY <1>1, Zenon DEF SlotsHoldSockets
<1>3. \A i \in DOMAIN vec : vec[i] # None => vec[i] \in Sock
  BY DEF NetTypeOK
<1>4. CASE StartShutdown("drop", call.s)
  <2>1. call'.pc = "poll" /\ call'.op = "drop" /\ call'.s = call.s
    BY <1>4, CallFields, Zenon DEF StartShutdown
  <2>2. srv' = "dropping"
    BY <2>1, Zenon DEF DropClosed
  <2>3. \A t \in Sock : state'[t] = IF t = call.s THEN "BUSY" ELSE state[t]
    BY <1>4, Zenon DEF StartShutdown, TypeOK
  <2>4. NetTypeOK'
    BY <1>1, <2>2, ZenonT(30) DEF NetTypeOK, SrvState
  <2>5. ControlAgrees' /\ NoOrphanCall'
    BY <1>1, <2>1, <2>2 DEF ControlAgrees, NoOrphanCall, Unslotted
  <2>6. SlotsHoldSockets'
    <3>1. \A i \in DOMAIN vec : vec[i] # None => state'[vec[i]] # "none"
      BY <1>3, <2>3, Zenon DEF SlotsHoldSockets
    <3>2. \A t \in Sock : state'[t] # "none" /\ (\A i \in DOMAIN vec : vec[i] # t) => t = call.s
      BY <1>2, <2>3, Zenon
    <3> QED BY <1>1, <2>1, <2>2, <3>1, <3>2, Zenon DEF SlotsHoldSockets
  <2> QED BY <2>4, <2>5, <2>6, Zenon
<1>5. CASE RemoveSocket(call.s)
  <2>1. call'.pc = "idle"
    BY <1>5, CallFields, Zenon DEF RemoveSocket
  <2>2. srv' = "recv"
    BY <2>1, Zenon DEF DropClosed
  <2> QED BY <1>1, <1>2, <1>5, <2>1, <2>2, SocketGone, Zenon
<1> QED BY <1>4, <1>5, Zenon DEF DropClosed, Drop

LEMMA DropEnds ==
  ASSUME TypeOK, NetInv, DropClosedDone
  PROVE  NetInv'
<1> USE DEF NetInv
<1>1. /\ srv = "dropping" /\ srv' = "recv" /\ vec' = vec /\ kern' = kern /\ call.s \in Sock
      /\ Unslotted(call.s) /\ RemoveSocket(call.s)
  BY Zenon DEF DropClosedDone, DropDone, ControlAgrees, TypeOK, Calls
<1>2. \A t \in Sock : state[t] # "none" /\ (\A i \in DOMAIN vec : vec[i] # t) => t = call.s
  BY <1>1, Zenon DEF SlotsHoldSockets
<1>3. call'.pc = "idle"
  BY <1>1, CallFields, Zenon DEF RemoveSocket
<1> QED BY <1>1, <1>2, <1>3, SocketGone, Zenon

\* The device moves sockets of SOCKET_SET, or makes the call panic.
LEMMA NetworkStep ==
  ASSUME TypeOK, NetInv, ServerNetwork
  PROVE  NetInv'
<1> USE DEF NetInv
<1>1. /\ call.pc = "poll" /\ state' = state /\ vec' = vec /\ kern' = kern
      /\ srv' = IF call'.pc = "panic" THEN "panic" ELSE srv
  BY Zenon DEF ServerNetwork, Network, Segment, Syn, tcpVars
<1>2. srv \in {"poll", "dropping"}
  BY <1>1, Zenon DEF ControlAgrees, NetTypeOK, SrvState
<1>3. call' = call \/ Panic(call.op, call.s)
  BY Zenon DEF ServerNetwork, Network, Segment, Syn
<1>4. call'.op = call.op /\ call'.s = call.s /\ call'.pc \in {"poll", "panic"}
  BY <1>1, <1>3 DEF Panic
<1>5. NetTypeOK'
  BY <1>1, Zenon DEF NetTypeOK, SrvState
<1>6. ControlAgrees' /\ NoOrphanCall'
  BY <1>1, <1>2, <1>4, Zenon DEF ControlAgrees, NoOrphanCall, Unslotted
<1>7. SlotsHoldSockets'
  BY <1>1, <1>2, <1>4, Zenon DEF SlotsHoldSockets
<1> QED BY <1>5, <1>6, <1>7, Zenon

LEMMA SlotIdIsNat == SlotId \subseteq Nat
<1>1. Cardinality(Sock) \in Nat
  BY SocketsAssumption, FS_CardinalityType, Zenon
<1> QED BY <1>1 DEF SlotId

LEMMA RequestStep ==
  ASSUME NetInv, KernelRequest
  PROVE  NetInv'
<1> USE DEF NetInv
<1>1. PICK op \in Requests, id \in SlotId, port \in LPort : Request(op, id, port)
  BY Zenon DEF KernelRequest
<1>2. /\ kern.pc = "ready" /\ state' = state /\ call' = call /\ vec' = vec /\ srv' = srv
      /\ kern' = [pc |-> "wait", op |-> op, id |-> id, port |-> port, res |-> "none"]
  BY <1>1, Zenon DEF Request, vars
<1>3. kern'.pc = "wait" /\ kern' \in [pc: {"ready", "wait", "panic"}, op: RequestOps, id: Nat,
                                      port: LPort, res: Results]
  BY <1>2, SlotIdIsNat, RequestsAssumption, Zenon DEF Results
<1>4. srv \notin {"poll", "lock"}
  BY <1>2, Zenon DEF NoOrphanCall
<1>5. NetTypeOK'
  BY <1>2, <1>3, Zenon DEF NetTypeOK
<1>6. ControlAgrees' /\ NoOrphanCall'
  BY <1>2, <1>3, <1>4, Zenon DEF ControlAgrees, NoOrphanCall, Unslotted
<1>7. SlotsHoldSockets'
  BY <1>2, Zenon DEF SlotsHoldSockets
<1> QED BY <1>5, <1>6, <1>7, Zenon

LEMMA BadIdStep ==
  ASSUME NetInv, ServeBadId
  PROVE  NetInv'
<1> USE DEF NetInv
<1>1. /\ srv = "recv" /\ kern.pc = "wait" /\ srv' = "panic"
      /\ state' = state /\ call' = call /\ vec' = vec /\ kern' = kern
  BY Zenon DEF ServeBadId, vars
<1>2. NetTypeOK'
  BY <1>1, Zenon DEF NetTypeOK, SrvState
<1>3. ControlAgrees' /\ NoOrphanCall'
  BY <1>1, Zenon DEF ControlAgrees, NoOrphanCall
<1>4. SlotsHoldSockets'
  BY <1>1, Zenon DEF SlotsHoldSockets
<1> QED BY <1>2, <1>3, <1>4, Zenon

\* The requests that name a live slot and leave it.
LEMMA HandlingStep ==
  ASSUME NetInv, NEW op, op \notin {"new", "close"}, Handling(op),
         Target \in Sock => Runs(op, Target), Respond
  PROVE  NetInv'
<1>1. /\ srv = "recv" /\ kern.pc = "wait" /\ kern.op = op /\ vec' = vec
      /\ Target \in Sock
  BY TargetIsSocket, Zenon DEF Handling, Serving
<1>2. ~Unslotted(Target)
  BY TargetIsSocket, Zenon DEF Handling, Unslotted
<1>3. AllSlotted
  BY <1>1, SlottedAtRequest, Zenon
<1> QED BY <1>1, <1>2, <1>3, RequestServed, Zenon

(* The theorems.                                                           *)

\* A step of the server is a step of TcpStack or leaves the stack alone: the
\* slot of a request holds a socket, so the handler's operation is one of the
\* stack's.
LEMMA ServerStepIsStackStep == ServerInv /\ [ServerNext]_serverVars => [Next]_vars
<1> SUFFICES ASSUME ServerInv, [ServerNext]_serverVars, ~UNCHANGED vars PROVE Next
  BY Zenon
<1>1. Live(kern.id) => Target \in Sock
  BY TargetIsSocket, Zenon DEF ServerInv
<1>2. call.s \in Sock
  BY Zenon DEF ServerInv, IInv, TypeOK, Calls
<1>3. Handle_ipc \/ ServerNetwork
  BY Zenon DEF ServerNext, KernelRequest, Request, serverVars
<1>4. CASE ServerNetwork
  BY <1>4, Zenon DEF ServerNetwork, Next
<1>5. CASE Resume \/ DropClosedDone
  BY <1>5, Zenon DEF Resume, DropClosedDone, Next, Completion
<1>6. CASE DropClosed
  BY <1>2, <1>6, Zenon DEF DropClosed, Next, Operation
<1>7. CASE \E s \in Sock, h \in Handle : ServeNew(s, h)
  BY <1>7, Zenon DEF ServeNew, Next, Operation
<1>8. CASE \/ \E a \in AnyAddr, p \in LPort : ServeBind(a, p)
           \/ ServeListen
           \/ \E a \in Addr, reachable \in BOOLEAN : ServeConnect(a, reachable)
  BY <1>1, <1>8, Zenon DEF ServeBind, ServeListen, ServeConnect, Handling, Next, Operation
<1>9. CASE \/ \E n \in Sock, a \in Addr : ServeAccept(n, a)
           \/ ServeShutdown
           \/ \E op \in {"send", "recv"} : ServeTransfer(op)
  BY <1>1, <1>9, Zenon DEF ServeAccept, ServeShutdown, ServeTransfer, Handling, Next, Operation
<1>10. CASE (\E nb \in BOOLEAN : ServeSetNonblocking(nb)) \/ ServeClose
  BY <1>1, <1>10, Zenon DEF ServeSetNonblocking, ServeClose, Handling, Next, Operation
<1> QED BY <1>3, <1>4, <1>5, <1>6, <1>7, <1>8, <1>9, <1>10, Zenon DEF Handle_ipc, ServeBadId

LEMMA ServerNextInv == ServerInv /\ [ServerNext]_serverVars => ServerInv'
<1> SUFFICES ASSUME ServerInv, [ServerNext]_serverVars PROVE ServerInv'
  BY Zenon
<1>1. IInv'
  BY ServerStepIsStackStep, NextInv, Zenon DEF ServerInv
<1>2. TypeOK /\ NetInv /\ IInv
  BY Zenon DEF ServerInv, IInv
<1>3. NetInv'
  <2>1. CASE KernelRequest \/ ServerNetwork
    BY <1>2, <2>1, RequestStep, NetworkStep, Zenon
  <2>2. CASE Resume \/ DropClosed \/ DropClosedDone \/ ServeBadId \/ ServeClose
    BY <1>2, <2>2, ResumeStep, DropStarts, DropEnds, BadIdStep, ServeCloseStep, Zenon
  <2>3. CASE \E s \in Sock, h \in Handle : ServeNew(s, h)
    BY <1>2, <2>3, ServeNewStep, Zenon
  <2>4. CASE \E a \in AnyAddr, p \in LPort : ServeBind(a, p)
    BY <1>2, <2>4, BindRuns, HandlingStep, Zenon DEF ServeBind
  <2>5. CASE ServeListen
    BY <1>2, <2>5, ListenRuns, HandlingStep, Zenon DEF ServeListen
  <2>6. CASE \E a \in Addr, reachable \in BOOLEAN : ServeConnect(a, reachable)
    BY <1>2, <2>6, ConnectRuns, HandlingStep, Zenon DEF ServeConnect
  <2>7. CASE \E n \in Sock, a \in Addr : ServeAccept(n, a)
    BY <1>2, <2>7, AcceptRuns, HandlingStep, Zenon DEF ServeAccept
  <2>8. CASE ServeShutdown
    BY <1>2, <2>8, ShutdownRuns, HandlingStep, Zenon DEF ServeShutdown
  <2>9. CASE \E op \in {"send", "recv"} : ServeTransfer(op)
    BY <1>2, <2>9, TransferRuns, HandlingStep, Zenon DEF ServeTransfer
  <2>10. CASE \E nb \in BOOLEAN : ServeSetNonblocking(nb)
    BY <1>2, <2>10, SetNonblockingRuns, HandlingStep, Zenon DEF ServeSetNonblocking
  <2>11. CASE UNCHANGED serverVars
    <3>1. NetTypeOK' /\ ControlAgrees'
      BY <1>2, <2>11, Zenon DEF serverVars, vars, netVars, NetInv, NetTypeOK, ControlAgrees, Unslotted
    <3>2. SlotsHoldSockets' /\ NoOrphanCall'
      BY <1>2, <2>11, Zenon DEF serverVars, vars, netVars, NetInv, SlotsHoldSockets, NoOrphanCall, Idle
    <3> QED BY <3>1, <3>2, Zenon DEF NetInv
  <2> QED BY <2>1, <2>2, <2>3, <2>4, <2>5, <2>6, <2>7, <2>8, <2>9, <2>10, <2>11, Zenon
        DEF ServerNext, Handle_ipc
<1> QED BY <1>1, <1>3, Zenon DEF ServerInv

\* The inductive invariant of the server holds in every reachable state.
THEOREM ServerInvariance == ServerSpec => []ServerInv
BY ServerInitInv, ServerNextInv, PTL DEF ServerSpec

\* Whatever the kernel thread asks for, the net thread runs the operations of
\* TcpStack one at a time: the theorems about the stack hold of the server.
THEOREM ServerUsesStack == ServerSpec => Spec
<1>1. ServerInit => Init
  BY Zenon DEF ServerInit
<1> QED BY <1>1, ServerInvariance, ServerStepIsStackStep, PTL DEF ServerSpec, Spec

\* Every TcpSocket is in exactly one slot of SOCKET_VEC, but for one that close
\* has taken out and one that accept has built before it meets the lock.
THEOREM SlotsSound == ServerSpec => []SlotsHoldSockets
<1>1. ServerInv => SlotsHoldSockets
  BY Zenon DEF ServerInv, NetInv
<1> QED BY <1>1, ServerInvariance, PTL

\* No call of the net thread is left half way while the kernel thread runs.
THEOREM CallsAnswered == ServerSpec => []NoOrphanCall
<1>1. ServerInv => NoOrphanCall
  BY Zenon DEF ServerInv, NetInv
<1> QED BY <1>1, ServerInvariance, PTL

\* The SYN queues respect LISTEN_QUEUE_SIZE under every sequence of requests.
THEOREM ServerQueuesSound == ServerSpec => []SynQueueSound
BY ServerUsesStack, QueuesSound, PTL

(* The bounds of SOCKET_VEC and of the ids.                                *)

\* SOCKET_VEC is no longer than there are sockets, and a request names a slot.
SlotsFit == Len(vec) <= Cardinality(Sock) /\ kern.id \in SlotId

LEMMA IntervalSize ==
  ASSUME NEW m \in Nat
  PROVE  Cardinality(1 .. m) = m
<1>1. Cardinality(1 .. m) = IF 1 > m THEN 0 ELSE m - 1 + 1
  BY FS_Interval
<1> QED BY <1>1

\* Slots that are all in use hold different sockets; one more socket is still
\* unused.
LEMMA FullSlots ==
  ASSUME NetInv, \A i \in DOMAIN vec : vec[i] # None,
         NEW s \in Sock, \A i \in DOMAIN vec : vec[i] # s
  PROVE  Len(vec) + 1 <= Cardinality(Sock)
<1> DEFINE n == Len(vec)
           f == [i \in 1 .. n + 1 |-> IF i = n + 1 THEN s ELSE vec[i]]
<1>1. n \in Nat /\ DOMAIN vec = 1 .. n /\ \A i \in 1 .. n : vec[i] \in Sock
  BY DEF NetInv, NetTypeOK
<1>2. \A i \in 1 .. n + 1 : i # n + 1 => i \in 1 .. n
  BY <1>1
<1> HIDE DEF n
<1>3. f \in [1 .. n + 1 -> Sock]
  BY <1>1, <1>2, Zenon
<1>4. ASSUME NEW i \in 1 .. n + 1, NEW j \in 1 .. n + 1, f[i] = f[j] PROVE i = j
  BY <1>1, <1>2, <1>4, Zenon DEF NetInv, SlotsHoldSockets
<1>5. f \in Injection(1 .. n + 1, Sock)
  BY <1>3, <1>4, Zenon DEF Injection, IsInjective
<1>6. Cardinality(1 .. n + 1) <= Cardinality(Sock)
  BY <1>5, FS_Injection, SocketsAssumption, Zenon
<1>7. n + 1 \in Nat
  BY <1>1
<1> QED BY <1>6, <1>7, IntervalSize, Zenon DEF n

LEMMA ServeNewFits ==
  ASSUME NetInv, SlotsFit, NEW s \in Sock, NEW h \in Handle, ServeNew(s, h)
  PROVE  Len(vec') <= Cardinality(Sock)
<1>1. PICK id \in 0 .. Len(vec) : AllocSocketId(id) /\ vec' = Store(id, s)
  BY Zenon DEF ServeNew
<1>2. Len(vec) \in Nat /\ DOMAIN vec = 1 .. Len(vec)
  BY DEF NetInv, NetTypeOK
<1>3. CASE id = Len(vec)
  <2>1. \A i \in DOMAIN vec : vec[i] # s
    BY SocketsAssumption, Zenon DEF ServeNew, New, NetInv, SlotsHoldSockets
  <2>2. \A i \in DOMAIN vec : vec[i] # None
    BY <1>1, <1>2, <1>3, Zenon DEF AllocSocketId
  <2>3. Len(vec') = Len(vec) + 1
    BY <1>1, <1>3 DEF Store, NetInv, NetTypeOK
  <2> QED BY <2>1, <2>2, <2>3, FullSlots, Zenon
<1>4. CASE id # Len(vec)
  <2>1. Len(vec') = Len(vec)
    BY <1>1, <1>4 DEF Store, NetInv, NetTypeOK
  <2> QED BY <2>1, Zenon DEF SlotsFit
<1> QED BY <1>3, <1>4, Zenon

LEMMA SlotsFitStep == ServerInv /\ SlotsFit /\ [ServerNext]_serverVars => SlotsFit'
<1> SUFFICES ASSUME ServerInv, SlotsFit, [ServerNext]_serverVars PROVE SlotsFit'
  BY Zenon
<1>0. NetInv
  BY Zenon DEF ServerInv
<1>1. CASE KernelRequest
  <2>1. PICK op \in Requests, id \in SlotId, port \in LPort : Request(op, id, port)
    BY <1>1, Zenon DEF KernelRequest
  <2>2. vec' = vec /\ kern'.id = id
    BY <2>1 DEF Request
  <2> QED BY <2>2, Zenon DEF SlotsFit, SlotId
<1>2. ASSUME Handle_ipc \/ ServerNetwork \/ UNCHANGED serverVars PROVE kern'.id = kern.id
  <2>1. kern' = kern \/ \E ret : Answer(ret)
    BY <1>2, Zenon DEF Handle_ipc, ServeNew, ServeBind, ServeListen, ServeConnect, ServeAccept,
       ServeShutdown, ServeTransfer, ServeSetNonblocking, ServeClose, ServeBadId, Resume,
       DropClosed, DropClosedDone, Respond, Reply, ServerNetwork, serverVars, netVars
  <2> QED BY <1>0, <2>1, Zenon DEF Answer, NetInv, NetTypeOK
<1>3. ASSUME NEW s \in Sock, NEW h \in Handle, ServeNew(s, h) PROVE SlotsFit'
  <2>1. kern'.id = kern.id
    BY <1>2, <1>3, Zenon DEF Handle_ipc
  <2>2. Len(vec') <= Cardinality(Sock)
    BY <1>0, <1>3, ServeNewFits, Zenon
  <2> QED BY <2>1, <2>2, Zenon DEF SlotsFit, SlotId
<1>4. CASE ServeClose
  <2>1. kern'.id = kern.id
    BY <1>2, <1>4, Zenon DEF Handle_ipc
  <2>2. Len(vec') = Len(vec)
    BY <1>0, <1>4 DEF ServeClose, NetInv, NetTypeOK
  <2> QED BY <2>1, <2>2, Zenon DEF SlotsFit, SlotId
<1>5. ASSUME vec' = vec, kern'.id = kern.id PROVE SlotsFit'
  BY <1>5, Zenon DEF SlotsFit, SlotId
<1>6. CASE \/ \E a \in AnyAddr, p \in LPort : ServeBind(a, p)
           \/ ServeListen
           \/ \E a \in Addr, reachable \in BOOLEAN : ServeConnect(a, reachable)
           \/ \E n \in Sock, a \in Addr : ServeAccept(n, a)
           \/ ServeShutdown
           \/ \E op \in {"send", "recv"} : ServeTransfer(op)
           \/ \E nb \in BOOLEAN : ServeSetNonblocking(nb)
  <2>1. vec' = vec
    BY <1>6, Zenon DEF ServeBind, ServeListen, ServeConnect, ServeAccept, ServeShutdown,
       ServeTransfer, ServeSetNonblocking, Handling
  <2> QED BY <1>2, <1>5, <1>6, <2>1, Zenon DEF Handle_ipc
<1>7. CASE ServeBadId \/ Resume \/ DropClosed \/ DropClosedDone \/ ServerNetwork \/ UNCHANGED serverVars
  <2>1. vec' = vec
    BY <1>7, Zenon DEF ServeBadId, Resume, DropClosed, DropClosedDone, ServerNetwork,
       serverVars, netVars
  <2> QED BY <1>2, <1>5, <1>7, <2>1, Zenon DEF Handle_ipc
<1> QED BY <1>1, <1>3, <1>4, <1>6, <1>7, Zenon DEF ServerNext, Handle_ipc

\* The variables of the server keep their types; in particular SOCKET_VEC never
\* grows beyond the sockets there are, because alloc_socket_id fills the empty
\* slots first.
THEOREM ServerTypeCorrect == ServerSpec => []ServerTypeOK
<1>1. ServerInit => SlotsFit
  <2> SUFFICES ASSUME ServerInit PROVE SlotsFit
    BY Zenon
  <2>1. Cardinality(Sock) \in Nat
    BY SocketsAssumption, FS_CardinalityType, Zenon
  <2>2. Len(vec) = 0 /\ kern.id = 0
    BY DEF ServerInit
  <2> QED BY <2>1, <2>2 DEF SlotsFit, SlotId
<1>2. ServerInv /\ SlotsFit => ServerTypeOK
  <2> SUFFICES ASSUME ServerInv, SlotsFit PROVE ServerTypeOK
    BY Zenon
  <2>1. TypeOK /\ NetTypeOK /\ SlotsFit
    BY Zenon DEF ServerInv, IInv, NetInv
  <2>2. kern \in [pc: {"ready", "wait", "panic"}, op: RequestOps, id: SlotId,
                  port: LPort, res: Results]
    BY <2>1, Zenon DEF NetTypeOK, SlotsFit
  <2> QED BY <2>1, <2>2, Zenon DEF ServerTypeOK, NetTypeOK, SlotsFit
<1>3. ServerSpec => []SlotsFit
  BY <1>1, ServerInvariance, SlotsFitStep, PTL DEF ServerSpec
<1> QED BY <1>2, <1>3, ServerInvariance, PTL
=============================================================================
