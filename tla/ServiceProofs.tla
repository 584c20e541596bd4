--------------------------- MODULE ServiceProofs ---------------------------
(***************************************************************************)
(* The service loop and the tasks that call it: the invariant of the       *)
(* services, and the labels and arguments of the messages.                 *)
(***************************************************************************)
EXTENDS RootServices, AllocatorProofs

(* The programs, step by step.                                             *)

\* The steps before the block thread registers its interrupt.
Allocs == Len(alloc)

\* The page of the buffer that dma_alloc hands out at step k.
DmaPage(t, k) == IF t = Net THEN DmaStart + 2 * k - 1 ELSE DmaStart + k - 1

StackAddrs ==
  {(StackTop - 1) * PageSize, (StackTop - 1) * PageSize + 1, (StackTop - 1) * PageSize - PageSize}

\* The slot where the kernel thread receives a handler, and the labels of the requests.
RecvSlot == 1023

IrqLabel == 512

AddrLabel == 513

CapLabel == 514

KernelEntry(k, e) ==
  \/ k = 1 /\ e = RegisterWithCap("serial")
  \/ k = 2 /\ e = Do("recv_cap")
  \/ k = 3 /\ e = Do("reply_cap")
  \/ k = 4 /\ e = Use("bind", RecvSlot)
  \/ k = 5 /\ e = Use("ack", RecvSlot)
  \/ k = 6 /\ e = Do("wait")

BlkEntry(k, e) ==
  \/ k \in 1 .. Allocs /\ e = Alloc(alloc[k])
  \/ k = Allocs + 1 /\ e = RegisterIRQ(27, "blk")
  \/ k = Allocs + 2 /\ e = Use("bind", 27)
  \/ k \in {Allocs + 3, Allocs + 9, Allocs + 16} /\ e = Use("ack", 27)
  \/ k > Allocs + 3 /\ k # Allocs + 8 /\ \E a \in StackAddrs : e = TranslateAddr(a)
  \/ k \in {Allocs + 7, Allocs + 14} /\ e = Do("submit")
  \/ k \in {Allocs + 8, Allocs + 15} /\ e = Do("wait")
  \/ k \in {Allocs + 10, Allocs + 17} /\ e = Do("dev_ack")

NetEntry(k, e) ==
  \/ k \in {1, 2} /\ e = Alloc(2)
  \/ k = 3 /\ e = TranslateAddr(NetHeap)
  \/ k = 4 /\ e = Do("panic")

\* What the operation of a step says about the step.
Does(t, k, e) ==
  /\ e.op = "dma" =>
       \/ t = Blk /\ k \in 1 .. Allocs /\ e.x[1] = 3 - Allocs
       \/ t = Net /\ k \in {1, 2} /\ e.x[1] = 2
  /\ e.op = "call" =>
       \/ t = Kernel /\ k = 1 /\ e.x[1] = CapLabel /\ e.x[2] = <<"serial">>
       \/ t = Blk /\ k = Allocs + 1 /\ e.x[1] = IrqLabel /\ e.x[2] = <<27, "blk">>
       \/ /\ t = Blk /\ k > Allocs + 3 /\ k # Allocs + 8
          /\ e.x[1] = AddrLabel /\ \E a \in StackAddrs : e.x[2] = <<a>>
       \/ t = Net /\ k = 3 /\ e.x[1] = AddrLabel /\ e.x[2] = <<NetHeap>>
  /\ e.op = "panic" => t = Net /\ k = 4
  /\ e.op = "recv_cap" => t = Kernel /\ k = 2
  /\ e.op = "reply_cap" => t = Kernel /\ k = 3
  /\ e.op = "bind" =>
       \/ t = Kernel /\ k = 4 /\ e.x[1] = RecvSlot
       \/ t = Blk /\ k = Allocs + 2 /\ e.x[1] = 27
  /\ e.op = "ack" =>
       \/ t = Kernel /\ k = 5 /\ e.x[1] = RecvSlot
       \/ t = Blk /\ k \in {Allocs + 3, Allocs + 9, Allocs + 16} /\ e.x[1] = 27
  /\ e.op = "wait" => (t = Kernel /\ k = 6) \/ (t = Blk /\ k \in {Allocs + 8, Allocs + 15})
  /\ e.op = "submit" => t = Blk /\ k \in {Allocs + 7, Allocs + 14}
  /\ e.op = "dev_ack" => t = Blk /\ k \in {Allocs + 10, Allocs + 17}

(* What a step does to the tasks and their messages.                       *)

\* A task calls or faults.
Sends(t) == DmaAlloc(t) \/ CallRoot(t) \/ Panic(t)

\* A task goes on without the root task, or with its call.
Moves(t) ==
  /\ \E op \in {"recv_cap", "reply_cap", "bind", "ack", "wait", "submit", "dev_ack"} : At(t, op)
  /\ Advance(t)
  /\ UNCHANGED <<msg, dma, buf, queue>>

\* The root task replies to a request.
Answers ==
  /\ \E name : Received(name) /\ name # "None"
  /\ \E paddr : Reply(paddr)

Rests == UNCHANGED <<pc, msg, dma, buf, queue>>

(* The inductive invariant.                                                *)

ServiceTyped ==
  /\ root = [pc |-> root.pc, who |-> root.who, irq |-> root.irq]
  /\ root.pc \in RootPc /\ root.who \in Task
  /\ cspace = [t \in Task |-> [c \in TaskSlot |-> cspace[t][c]]]
  /\ alloc \in BlkAllocs
  /\ pc \in [Task -> Nat] /\ \A t \in Task : pc[t] <= Len(Program(t)) + 1
  /\ msg = [t \in Task |-> msg[t]] /\ queue \in Seq(Task)
  /\ dma = [t \in Task |-> dma[t]] /\ buf = [t \in Task |-> buf[t]]
  /\ line \in [Line -> {"off", "on", "masked"}] /\ bound \in [Line -> SUBSET Task]
  /\ level \subseteq Line /\ sig \subseteq Task
  /\ asked \in Nat /\ read \in Nat /\ read <= asked

\* A task waits in the queue at most once, with a message.
QueueOK ==
  /\ \A i \in 1 .. Len(queue) : msg[queue[i]] # NoMsg
  /\ \A i, j \in 1 .. Len(queue) : queue[i] = queue[j] => i = j

\* The message of a task is that of its step.
Blocked(t) ==
  LET e == Program(t)[pc[t]]
  IN  /\ pc[t] \in 1 .. Len(Program(t))
      /\ \/ e.op = "call" /\ msg[t] = [label |-> e.x[1], regs |-> e.x[2]]
         \/ /\ e.op = "dma"
            /\ msg[t] = [label |-> ToLabel("root", 2), regs |-> <<DmaPage(t, pc[t]) * PageSize>>]
         \/ e.op = "panic" /\ msg[t].label \in FaultLabels

MessagesOK == \A t \in Task : msg[t] = NoMsg \/ Blocked(t)

\* A task does not run before it is resumed.
StartOK ==
  /\ root.pc = "boot" => root.who = Kernel
  /\ root.pc \in {"boot", "start"} => \A t \in Task : t >= root.who => pc[t] = 0

\* The handler of a line is made once, and is where its task looks for it.
HandlersOK ==
  /\ pc[Kernel] = 2 <=> root.pc \in {"handler", "call"}
  /\ pc[Kernel] = 2 => root.irq = "serial"
  /\ pc[Kernel] = 3 <=> root.pc = "wait"
  /\ pc[Kernel] <= 1 \/ root.pc = "handler" => line["serial"] = "off"
  /\ cspace[Kernel][RecvSlot] = IF pc[Kernel] <= 2 THEN "none" ELSE "serial"
  /\ pc[Blk] <= Allocs + 1 => line["blk"] = "off"
  /\ cspace[Blk][27] = IF pc[Blk] <= Allocs + 1 THEN "none" ELSE "blk"

\* Only the block device wakes the block thread.
ReadsOK ==
  /\ bound["serial"] \subseteq {Kernel} /\ bound["blk"] \subseteq {Blk}
  /\ "blk" \in level \/ Blk \in sig \/ pc[Blk] > Allocs + 8 => read >= 1

\* DMA_ADDR, before and while the task waits for the answer.
DmaAddrOK ==
  \A t \in {Blk, Net} :
    /\ pc[t] = 0 => dma[t] = DmaPage(t, 1) * PageSize
    /\ pc[t] \in 1 .. Len(Program(t)) /\ Program(t)[pc[t]].op = "dma" =>
         dma[t] = (DmaPage(t, pc[t]) +
                   (IF msg[t] = NoMsg THEN 0 ELSE Program(t)[pc[t]].x[1])) * PageSize

\* The buffers of the net thread.
NetBuffer ==
  {[first |-> p, pages |-> 2, paddr |-> at[page[Net][p]]] : p \in {DmaStart + 1, DmaStart + 3}}

BuffersOK == IF pc[Net] = 0 THEN buf[Net] = <<>> ELSE buf[Net] \in Seq(NetBuffer)

ServiceInv ==
  /\ ServiceTyped /\ QueueOK /\ MessagesOK /\ StartOK
  /\ HandlersOK /\ ReadsOK /\ DmaAddrOK /\ BuffersOK

(* The programs.                                                           *)

LEMMA Numbers ==
  /\ PageSize \in Nat \ {0} /\ StackTop \in Nat /\ StackPages \in Nat
  /\ DmaStart \in Nat /\ BlkDma \in Nat /\ NetDma \in Nat /\ Device \in Nat
  /\ StackPages < StackTop /\ StackTop <= DmaStart
  /\ DmaStart + BlkDma <= Device /\ DmaStart + NetDma <= Device
  BY BootAssumption, AllocatorAssumption, Zenon

LEMMA Programs ==
  /\ Task = {Kernel, Blk, Net} /\ Kernel = 0 /\ Blk = 1 /\ Net = 2
  /\ Program(Kernel) = KernelProgram /\ Program(Blk) = BlkProgram[alloc]
  /\ Program(Net) = NetProgram
  BY DEF Task, Kernel, Blk, Net, Program

LEMMA Entered ==
  ASSUME alloc \in BlkAllocs
  PROVE  /\ Allocs \in {1, 2} /\ \A k \in 1 .. Allocs : alloc[k] = 3 - Allocs
         /\ Len(Program(Kernel)) = 6 /\ Len(Program(Net)) = 4
         /\ Len(Program(Blk)) = Allocs + 17
         /\ \A k \in 1 .. Len(Program(Kernel)) : KernelEntry(k, Program(Kernel)[k])
         /\ \A k \in 1 .. Len(Program(Blk)) : BlkEntry(k, Program(Blk)[k])
         /\ \A k \in 1 .. Len(Program(Net)) : NetEntry(k, Program(Net)[k])
<1>1. alloc = <<2>> \/ alloc = <<1, 1>>
  BY ServiceAssumption, Zenon
<1>2. Allocs \in {1, 2} /\ \A k \in 1 .. Allocs : alloc[k] = 3 - Allocs
  <2>1. CASE alloc = <<2>>
    <3>1. Allocs = 1 /\ alloc[1] = 2
      BY <2>1 DEF Allocs
    <3> QED BY <3>1
  <2>2. CASE alloc = <<1, 1>>
    <3>1. Allocs = 2 /\ alloc[1] = 1 /\ alloc[2] = 1
      BY <2>2 DEF Allocs
    <3> QED BY <3>1
  <2> QED BY <1>1, <2>1, <2>2, Zenon
<1>3. Len(Program(Kernel)) = 6 /\ \A k \in 1 .. 6 : KernelEntry(k, Program(Kernel)[k])
  <2> DEFINE e1 == RegisterWithCap("serial")
             e2 == Do("recv_cap")
             e3 == Do("reply_cap")
             e4 == Use("bind", RecvSlot)
             e5 == Use("ack", RecvSlot)
             e6 == Do("wait")
  <2>1. Program(Kernel) = <<e1, e2, e3, e4, e5, e6>>
    BY Programs, Zenon DEF KernelProgram, RecvSlot
  <2>2. \A k : KernelEntry(k, Program(Kernel)[k]) <=>
          \/ k = 1 /\ Program(Kernel)[k] = e1
          \/ k = 2 /\ Program(Kernel)[k] = e2
          \/ k = 3 /\ Program(Kernel)[k] = e3
          \/ k = 4 /\ Program(Kernel)[k] = e4
          \/ k = 5 /\ Program(Kernel)[k] = e5
          \/ k = 6 /\ Program(Kernel)[k] = e6
    BY Zenon DEF KernelEntry
  <2> HIDE DEF e1, e2, e3, e4, e5, e6
  <2> QED BY <2>1, <2>2
<1>4. Len(Program(Net)) = 4 /\ \A k \in 1 .. 4 : NetEntry(k, Program(Net)[k])
  <2> DEFINE e1 == Alloc(2)
             e3 == TranslateAddr(NetHeap)
             e4 == Do("panic")
  <2>1. Program(Net) = <<e1, e1, e3, e4>>
    BY Programs, Zenon DEF NetProgram
  <2>2. \A k : NetEntry(k, Program(Net)[k]) <=>
          \/ k \in {1, 2} /\ Program(Net)[k] = e1
          \/ k = 3 /\ Program(Net)[k] = e3
          \/ k = 4 /\ Program(Net)[k] = e4
    BY Zenon DEF NetEntry
  <2> HIDE DEF e1, e3, e4
  <2> QED BY <2>1, <2>2
<1>5. Len(Program(Blk)) = Allocs + 17 /\ \A k \in 1 .. Allocs + 17 : BlkEntry(k, Program(Blk)[k])
  <2> DEFINE top == (StackTop - 1) * PageSize
             a == [i \in 1 .. Allocs |-> Alloc(alloc[i])]
             e1 == RegisterIRQ(27, "blk")
             e2 == Use("bind", 27)
             e3 == Use("ack", 27)
             t1 == TranslateAddr(top)
             t2 == TranslateAddr(top + 1)
             t3 == TranslateAddr(top - PageSize)
             s == Do("submit")
             w == Do("wait")
             d == Do("dev_ack")
             r == <<t1, t2, t3>> \o <<s, w, e3, d>>
             b == <<e1, e2, e3>>
  <2>1. Program(Blk) = a \o b \o r \o r
    BY Programs, Zenon DEF BlkProgram, Allocs, ReadBlock, ShareStack
  <2>2. \A k, e : \/ k \in 1 .. Allocs /\ e = a[k]
                  \/ k = Allocs + 1 /\ e = e1
                  \/ k = Allocs + 2 /\ e = e2
                  \/ k \in {Allocs + 3, Allocs + 9, Allocs + 16} /\ e = e3
                  \/ k > Allocs + 3 /\ k # Allocs + 8 /\ e \in {t1, t2, t3}
                  \/ k \in {Allocs + 7, Allocs + 14} /\ e = s
                  \/ k \in {Allocs + 8, Allocs + 15} /\ e = w
                  \/ k \in {Allocs + 10, Allocs + 17} /\ e = d
          => BlkEntry(k, e)
    <3>1. \A k \in 1 .. Allocs : a[k] = Alloc(alloc[k])
      BY Zenon
    <3>2. \A e \in {t1, t2, t3} : \E x \in StackAddrs : e = TranslateAddr(x)
      BY Zenon DEF StackAddrs
    <3> HIDE DEF a, t1, t2, t3
    <3> QED BY <3>1, <3>2, Zenon DEF BlkEntry
  <2> HIDE DEF e1, e2, e3, t1, t2, t3, s, w, d
  <2>3. /\ Len(r) = 7 /\ r \in Seq({t1, t2, t3, s, w, e3, d})
        /\ r[1] = t1 /\ r[2] = t2 /\ r[3] = t3 /\ r[4] = s /\ r[5] = w /\ r[6] = e3 /\ r[7] = d
    OBVIOUS
  <2>b. Len(b) = 3 /\ b \in Seq({e1, e2, e3}) /\ b[1] = e1 /\ b[2] = e2 /\ b[3] = e3
    OBVIOUS
  <2> HIDE DEF r, b
  <2> DEFINE E == {Alloc(alloc[i]) : i \in 1 .. Allocs} \cup {e1, e2, e3, t1, t2, t3, s, w, d}
  <2>4. Len(a) = Allocs
    BY <1>2
  <2>a. a \in Seq(E)
    BY <1>2
  <2>5. b \in Seq(E) /\ r \in Seq(E)
    BY <2>3, <2>b
  <2> HIDE DEF a, E
  <2>c. ASSUME NEW u \in Seq(E), NEW v \in Seq(E)
        PROVE  /\ u \o v \in Seq(E) /\ Len(u \o v) = Len(u) + Len(v)
               /\ \A k \in 1 .. Len(u) : (u \o v)[k] = u[k]
               /\ \A k \in 1 .. Len(v) : (u \o v)[Len(u) + k] = v[k]
    OBVIOUS
  <2>6. PICK c \in Seq(E) :
          /\ Len(c) = Allocs + 3 /\ Program(Blk) = c \o r \o r
          /\ \A k \in 1 .. Allocs : c[k] = a[k]
          /\ c[Allocs + 1] = e1 /\ c[Allocs + 2] = e2 /\ c[Allocs + 3] = e3
    <3> DEFINE c == a \o b
    <3>2. /\ c \in Seq(E) /\ Len(c) = Len(a) + Len(b)
          /\ \A k \in 1 .. Len(a) : c[k] = a[k]
          /\ \A k \in 1 .. Len(b) : c[Len(a) + k] = b[k]
      BY <2>5, <2>a, <2>c, Zenon
    <3>4. Program(Blk) = c \o r \o r
      BY <2>1, Zenon
    <3> HIDE DEF c
    <3>3. 1 \in 1 .. 3 /\ 2 \in 1 .. 3 /\ 3 \in 1 .. 3
      OBVIOUS
    <3> QED BY <2>4, <2>b, <3>2, <3>3, <3>4, Zenon
  <2>7. PICK f \in Seq(E) :
          /\ Len(f) = Allocs + 10 /\ Program(Blk) = f \o r
          /\ \A k \in 1 .. Allocs + 3 : f[k] = c[k]
          /\ \A k \in 1 .. 7 : f[(Allocs + 3) + k] = r[k]
    <3> DEFINE f == c \o r
    <3>2. /\ f \in Seq(E) /\ Len(f) = Len(c) + Len(r)
          /\ \A k \in 1 .. Len(c) : f[k] = c[k]
          /\ \A k \in 1 .. Len(r) : f[Len(c) + k] = r[k]
      BY <2>5, <2>c, Zenon
    <3>4. Program(Blk) = f \o r
      BY <2>6, Zenon
    <3> HIDE DEF f
    <3>3. (Allocs + 3) + 7 = Allocs + 10
      BY <1>2
    <3>5. Len(c) = Allocs + 3 /\ Len(r) = 7
      BY <2>3, <2>6, Zenon
    <3>6. Len(f) = Allocs + 10
      BY <3>2, <3>3, <3>5, Zenon
    <3>7. /\ \A k \in 1 .. Allocs + 3 : f[k] = c[k]
          /\ \A k \in 1 .. 7 : f[(Allocs + 3) + k] = r[k]
      BY <3>2, <3>5, Zenon
    <3>8. f \in Seq(E)
      BY <3>2, Zenon
    <3> QED BY <3>4, <3>6, <3>7, <3>8, Zenon
  <2>8. /\ Len(Program(Blk)) = Allocs + 17
        /\ \A k \in 1 .. Allocs + 10 : Program(Blk)[k] = f[k]
        /\ \A k \in 1 .. 7 : Program(Blk)[(Allocs + 10) + k] = r[k]
    <3>1. /\ Len(Program(Blk)) = Len(f) + Len(r)
          /\ \A k \in 1 .. Len(f) : Program(Blk)[k] = f[k]
          /\ \A k \in 1 .. Len(r) : Program(Blk)[Len(f) + k] = r[k]
      <4>1. /\ Len(f \o r) = Len(f) + Len(r)
            /\ \A k \in 1 .. Len(f) : (f \o r)[k] = f[k]
            /\ \A k \in 1 .. Len(r) : (f \o r)[Len(f) + k] = r[k]
        BY <2>5, <2>c, Zenon
      <4>2. Program(Blk) = f \o r
        BY <2>7, Zenon
      <4> QED BY <4>1, <4>2, Zenon
    <3>2. (Allocs + 10) + 7 = Allocs + 17
      BY <1>2
    <3> QED BY <2>3, <2>7, <3>1, <3>2, Zenon
  <2> SUFFICES ASSUME NEW k \in 1 .. Allocs + 17
               PROVE  BlkEntry(k, Program(Blk)[k])
    BY <2>8, Zenon
  <2>10. CASE k \in 1 .. Allocs
    <3>1. k \in 1 .. Allocs + 3 /\ k \in 1 .. Allocs + 10
      BY <1>2, <2>10
    <3>2. Program(Blk)[k] = a[k]
      BY <2>6, <2>7, <2>8, <2>10, <3>1, Zenon
    <3> QED BY <2>2, <2>10, <3>2, Zenon
  <2>11. CASE k \in Allocs + 1 .. Allocs + 3
    <3>1. k = Allocs + 1 \/ k = Allocs + 2 \/ k = Allocs + 3
      BY <1>2, <2>11
    <3>2. k \in 1 .. Allocs + 3 /\ k \in 1 .. Allocs + 10
      BY <1>2, <2>11
    <3>3. Program(Blk)[k] = c[k]
      BY <2>7, <2>8, <3>2, Zenon
    <3>4. c[Allocs + 1] = e1 /\ c[Allocs + 2] = e2 /\ c[Allocs + 3] = e3
      BY <2>6, Zenon
    <3> QED BY <2>2, <3>1, <3>3, <3>4, Zenon
  <2>12. CASE k \in Allocs + 4 .. Allocs + 17
    <3>1. PICK j \in 1 .. 7 : k = (Allocs + 3) + j \/ k = (Allocs + 10) + j
      <4>1. k - (Allocs + 3) \in 1 .. 7 \/ k - (Allocs + 10) \in 1 .. 7
        BY <1>2, <2>12
      <4> QED BY <1>2, <2>12, <4>1
    <3>2. (Allocs + 3) + j \in 1 .. Allocs + 10
      BY <1>2, <3>1
    <3>3. Program(Blk)[k] = r[j]
      BY <2>7, <2>8, <3>1, <3>2, Zenon
    <3>4. /\ j \in {1, 2, 3} => r[j] \in {t1, t2, t3}
          /\ j = 4 => r[j] = s
          /\ j = 5 => r[j] = w
          /\ j = 6 => r[j] = e3
          /\ j = 7 => r[j] = d
      BY <2>3, Zenon
    <3>5. /\ j \in {1, 2, 3} => k > Allocs + 3 /\ k # Allocs + 8
          /\ j = 4 => k \in {Allocs + 7, Allocs + 14}
          /\ j = 5 => k \in {Allocs + 8, Allocs + 15}
          /\ j = 6 => k \in {Allocs + 9, Allocs + 16}
          /\ j = 7 => k \in {Allocs + 10, Allocs + 17}
          /\ j \in {1, 2, 3} \/ j = 4 \/ j = 5 \/ j = 6 \/ j = 7
      BY <1>2, <3>1
    <3> QED BY <2>2, <3>3, <3>4, <3>5, Zenon
  <2> QED BY <1>2, <2>10, <2>11, <2>12
<1> QED BY <1>2, <1>3, <1>4, <1>5, Zenon

LEMMA Doing ==
  ASSUME alloc \in BlkAllocs, NEW t \in Task, NEW k \in 1 .. Len(Program(t))
  PROVE  Does(t, k, Program(t)[k])
<1>1. ToLabel("root", 1) = IrqLabel /\ ToLabel("root", 2) = AddrLabel /\ ToLabel("root", 3) = CapLabel
  BY DEF ToLabel, LabelStart, IrqLabel, AddrLabel, CapLabel
<1>2. ASSUME NEW e, NEW op, NEW x, e = [op |-> op, x |-> x]
      PROVE  e.op = op /\ e.x = x
  BY <1>2
<1>3. ASSUME NEW op, NEW e, e = Do(op)
      PROVE  e.op = op
  BY <1>2, <1>3, Zenon DEF Do
<1>4. ASSUME NEW op, NEW e, NEW c, e = Use(op, c)
      PROVE  e.op = op /\ e.x[1] = c
  BY <1>4 DEF Use
<1>5. ASSUME NEW e, NEW i, NEW r, e = Request(i, r)
      PROVE  e.op = "call" /\ e.x[1] = ToLabel("root", i) /\ e.x[2] = r
  <2>1. e.op = "call" /\ e.x = <<ToLabel("root", i), r>>
    BY <1>2, <1>5, Zenon DEF Request
  <2> HIDE DEF Request
  <2> QED BY <2>1
<1>6. ASSUME NEW e, NEW n, e = Alloc(n)
      PROVE  e.op = "dma" /\ e.x[1] = n
  BY <1>6 DEF Alloc
<1> DEFINE e == Program(t)[k]
<1>7. CASE t = Kernel
  <2>1. KernelEntry(k, e)
    BY <1>7, Entered, Zenon
  <2>2. CASE k = 1 /\ e = RegisterWithCap("serial")
    BY <1>1, <1>5, <1>7, <2>2 DEF RegisterWithCap, Does
  <2>3. CASE k = 2 /\ e = Do("recv_cap")
    BY <1>3, <1>7, <2>3 DEF Does
  <2>4. CASE k = 3 /\ e = Do("reply_cap")
    BY <1>3, <1>7, <2>4 DEF Does
  <2>5. CASE k = 4 /\ e = Use("bind", RecvSlot)
    BY <1>4, <1>7, <2>5 DEF Does
  <2>6. CASE k = 5 /\ e = Use("ack", RecvSlot)
    BY <1>4, <1>7, <2>6 DEF Does
  <2>7. CASE k = 6 /\ e = Do("wait")
    BY <1>3, <1>7, <2>7 DEF Does
  <2> QED BY <2>1, <2>2, <2>3, <2>4, <2>5, <2>6, <2>7, Zenon DEF KernelEntry
<1>8. CASE t = Net
  <2>1. NetEntry(k, e)
    BY <1>8, Entered, Zenon
  <2>2. CASE k \in {1, 2} /\ e = Alloc(2)
    BY <1>6, <1>8, <2>2 DEF Does
  <2>3. CASE k = 3 /\ e = TranslateAddr(NetHeap)
    BY <1>1, <1>5, <1>8, <2>3 DEF TranslateAddr, Does
  <2>4. CASE k = 4 /\ e = Do("panic")
    BY <1>3, <1>8, <2>4 DEF Does
  <2> QED BY <2>1, <2>2, <2>3, <2>4, Zenon DEF NetEntry
<1>9. CASE t = Blk
  <2>1. BlkEntry(k, e) /\ \A i \in 1 .. Allocs : alloc[i] = 3 - Allocs
    BY <1>9, Entered, Zenon
  <2>2. CASE k \in 1 .. Allocs /\ e = Alloc(alloc[k])
    BY <1>6, <1>9, <2>1, <2>2 DEF Does
  <2>3. CASE k = Allocs + 1 /\ e = RegisterIRQ(27, "blk")
    BY <1>1, <1>5, <1>9, <2>3 DEF RegisterIRQ, Does
  <2>4. CASE k = Allocs + 2 /\ e = Use("bind", 27)
    BY <1>4, <1>9, <2>4 DEF Does
  <2>5. CASE k \in {Allocs + 3, Allocs + 9, Allocs + 16} /\ e = Use("ack", 27)
    BY <1>4, <1>9, <2>5 DEF Does
  <2>6. CASE /\ k > Allocs + 3 /\ k # Allocs + 8
             /\ \E a \in StackAddrs : e = TranslateAddr(a)
    BY <1>1, <1>5, <1>9, <2>6 DEF TranslateAddr, Does
  <2>7. CASE k \in {Allocs + 7, Allocs + 14} /\ e = Do("submit")
    BY <1>3, <1>9, <2>7 DEF Does
  <2>8. CASE k \in {Allocs + 8, Allocs + 15} /\ e = Do("wait")
    BY <1>3, <1>9, <2>8 DEF Does
  <2>9. CASE k \in {Allocs + 10, Allocs + 17} /\ e = Do("dev_ack")
    BY <1>3, <1>9, <2>9 DEF Does
  <2> QED BY <2>1, <2>2, <2>3, <2>4, <2>5, <2>6, <2>7, <2>8, <2>9, Zenon DEF BlkEntry
<1> QED BY <1>7, <1>8, <1>9, Programs

\* Where a task is when it takes a step of its own.
LEMMA Alone ==
  ASSUME alloc \in BlkAllocs, NEW t \in Task, NEW op, At(t, op),
         op \in {"recv_cap", "reply_cap", "bind", "ack", "wait", "submit", "dev_ack"}
  PROVE  \/ /\ t = Kernel /\ op \notin {"submit", "dev_ack"}
            /\ op = "recv_cap" => pc[t] = 2
            /\ op = "reply_cap" => pc[t] = 3
            /\ op = "bind" => pc[t] = 4 /\ Arg(t)[1] = RecvSlot
            /\ op = "ack" => pc[t] = 5 /\ Arg(t)[1] = RecvSlot
            /\ op = "wait" => pc[t] = 6
         \/ /\ t = Blk /\ op \notin {"recv_cap", "reply_cap"}
            /\ pc[t] > Allocs + 1 /\ (op # "wait" => pc[t] # Allocs + 8)
            /\ op = "bind" => pc[t] = Allocs + 2 /\ Arg(t)[1] = 27
            /\ op = "ack" => pc[t] > Allocs + 2 /\ Arg(t)[1] = 27
<1> DEFINE k == pc[t]
           x == Arg(t)[1]
<1>1. Allocs \in {1, 2}
  BY Entered, Zenon
<1>2. op = "recv_cap" => t = Kernel /\ k = 2
  BY Doing, Zenon DEF At, Does
<1>3. op = "reply_cap" => t = Kernel /\ k = 3
  BY Doing, Zenon DEF At, Does
<1>4. op = "bind" => \/ t = Kernel /\ k = 4 /\ x = RecvSlot
                     \/ t = Blk /\ k = Allocs + 2 /\ x = 27
  BY Doing, Zenon DEF At, Arg, Does
<1>5. op = "ack" => \/ t = Kernel /\ k = 5 /\ x = RecvSlot
                    \/ t = Blk /\ k \in {Allocs + 3, Allocs + 9, Allocs + 16} /\ x = 27
  BY Doing, Zenon DEF At, Arg, Does
<1>6. op = "wait" => (t = Kernel /\ k = 6) \/ (t = Blk /\ k \in {Allocs + 8, Allocs + 15})
  BY Doing, Zenon DEF At, Does
<1>7. op = "submit" => t = Blk /\ k \in {Allocs + 7, Allocs + 14}
  BY Doing, Zenon DEF At, Does
<1>8. op = "dev_ack" => t = Blk /\ k \in {Allocs + 10, Allocs + 17}
  BY Doing, Zenon DEF At, Does
<1> HIDE DEF k, x
<1>9. \A n : /\ n = Allocs + 2 \/ n \in {Allocs + 3, Allocs + 9, Allocs + 16}
                \/ n \in {Allocs + 7, Allocs + 14} \/ n \in {Allocs + 10, Allocs + 17}
                => n > Allocs + 1 /\ n # Allocs + 8
             /\ n \in {Allocs + 3, Allocs + 9, Allocs + 16} => n > Allocs + 2
             /\ n \in {Allocs + 8, Allocs + 15} => n > Allocs + 1
  BY <1>1
<1>10. CASE op \in {"recv_cap", "reply_cap"}
  BY <1>2, <1>3, <1>10, Zenon DEF k
<1>11. CASE op = "bind"
  BY <1>4, <1>9, <1>11, Zenon DEF k, x
<1>12. CASE op = "ack"
  BY <1>5, <1>9, <1>12, Zenon DEF k, x
<1>13. CASE op = "wait"
  BY <1>6, <1>9, <1>13, Zenon DEF k
<1>14. CASE op \in {"submit", "dev_ack"}
  BY <1>7, <1>8, <1>9, <1>14, Zenon DEF k
<1> QED BY <1>10, <1>11, <1>12, <1>13, <1>14, Zenon

(* The messages.                                                           *)

LEMMA RootLabels ==
  ASSUME NEW l \in Int
  PROVE  /\ TryFrom("root", l) = "RegisterIRQ" => l = IrqLabel
         /\ TryFrom("root", l) = "TranslateAddr" => l = AddrLabel
         /\ TryFrom("root", l) = "RegisterIRQWithCap" => l = CapLabel
         /\ TryFrom("root", l) # "None" => l >= IrqLabel
<1>1. LabelStart["root"] = 512 /\ Names["root"] = RootNames
  BY DEF LabelStart, Names
<1>2. /\ Len(RootNames) = 3 /\ RootNames[1] = "RegisterIRQ"
      /\ RootNames[2] = "TranslateAddr" /\ RootNames[3] = "RegisterIRQWithCap"
  BY DEF RootNames
<1>3. TryFrom("root", l) = IF l >= 512 /\ l - 512 < 3 THEN RootNames[l - 512 + 1] ELSE "None"
  BY <1>1, <1>2 DEF TryFrom
<1>4. CASE l >= 512 /\ l - 512 < 3
  <2>1. l = 512 \/ l = 513 \/ l = 514
    BY <1>4
  <2>2. /\ l = 512 => TryFrom("root", l) = "RegisterIRQ"
        /\ l = 513 => TryFrom("root", l) = "TranslateAddr"
        /\ l = 514 => TryFrom("root", l) = "RegisterIRQWithCap"
    BY <1>2, <1>3, <1>4
  <2> QED BY <1>4, <2>1, <2>2 DEF IrqLabel, AddrLabel, CapLabel
<1>5. CASE ~(l >= 512 /\ l - 512 < 3)
  BY <1>3, <1>5
<1> QED BY <1>4, <1>5, Zenon

\* The message of a task is one of seven.
Asks(t) ==
  /\ t = Kernel => pc[t] = 1 /\ msg[t].label = CapLabel /\ msg[t].regs = <<"serial">>
  /\ t = Blk =>
       \/ /\ pc[t] \in 1 .. Allocs
          /\ msg[t].label = AddrLabel /\ msg[t].regs = <<DmaPage(t, pc[t]) * PageSize>>
       \/ pc[t] = Allocs + 1 /\ msg[t].label = IrqLabel /\ msg[t].regs = <<27, "blk">>
       \/ /\ pc[t] > Allocs + 3 /\ pc[t] # Allocs + 8
          /\ \E a \in StackAddrs : msg[t].label = AddrLabel /\ msg[t].regs = <<a>>
  /\ t = Net =>
       \/ /\ pc[t] \in {1, 2}
          /\ msg[t].label = AddrLabel /\ msg[t].regs = <<DmaPage(t, pc[t]) * PageSize>>
       \/ pc[t] = 3 /\ msg[t].label = AddrLabel /\ msg[t].regs = <<NetHeap>>
       \/ pc[t] = 4 /\ msg[t].label \in FaultLabels

LEMMA Asking ==
  ASSUME alloc \in BlkAllocs, NEW t \in Task, Blocked(t)
  PROVE  Asks(t)
<1> DEFINE e == Program(t)[pc[t]]
<1>1. Does(t, pc[t], e)
  BY Doing, Zenon DEF Blocked
<1>2. ToLabel("root", 2) = AddrLabel
  BY DEF ToLabel, LabelStart, IrqLabel, AddrLabel, CapLabel
<1>3. Kernel # Blk /\ Kernel # Net /\ Blk # Net
  BY Programs, SMTT(20)
<1> HIDE DEF e
<1>4. CASE e.op = "call" /\ msg[t] = [label |-> e.x[1], regs |-> e.x[2]]
  BY <1>1, <1>3, <1>4 DEF Does, Asks
<1>5. CASE /\ e.op = "dma"
           /\ msg[t] = [label |-> ToLabel("root", 2), regs |-> <<DmaPage(t, pc[t]) * PageSize>>]
  BY <1>1, <1>2, <1>3, <1>5 DEF Does, Asks
<1>6. CASE e.op = "panic" /\ msg[t].label \in FaultLabels
  BY <1>1, <1>3, <1>6, Zenon DEF Does, Asks
<1> QED BY <1>4, <1>5, <1>6, Zenon DEF Blocked, e

\* The caller that is received, and what it asks for.
LEMMA Calling ==
  ASSUME ServiceTyped, QueueOK, MessagesOK, queue # <<>>
  PROVE  /\ Caller \in Task /\ msg[Caller] # NoMsg /\ Blocked(Caller) /\ Asks(Caller)
         /\ msg[Caller].label \in Nat
         /\ Received("RegisterIRQ") =>
              Caller = Blk /\ pc[Blk] = Allocs + 1 /\ Regs = <<27, "blk">>
         /\ Received("RegisterIRQWithCap") =>
              Caller = Kernel /\ pc[Kernel] = 1 /\ Regs = <<"serial">>
         /\ Received("TranslateAddr") => msg[Caller].label = AddrLabel
         /\ \A name : Received(name) /\ name # "None" => msg[Caller].label >= IrqLabel
<1>1. 1 \in 1 .. Len(queue) /\ Caller = queue[1] /\ Caller \in Task
  BY DEF ServiceTyped, Caller
<1>2. msg[Caller] # NoMsg
  BY <1>1, Zenon DEF QueueOK
<1>3. Blocked(Caller)
  BY <1>1, <1>2, Zenon DEF MessagesOK
<1>4. Asks(Caller)
  BY <1>1, <1>3, Asking, Zenon DEF ServiceTyped
<1>6. Caller = Kernel \/ Caller = Blk \/ Caller = Net
  BY <1>1, Programs, Zenon
<1>7. \/ msg[Caller].label = CapLabel /\ Caller = Kernel /\ pc[Kernel] = 1 /\ Regs = <<"serial">>
      \/ msg[Caller].label = IrqLabel /\ Caller = Blk /\ pc[Blk] = Allocs + 1 /\ Regs = <<27, "blk">>
      \/ msg[Caller].label = AddrLabel
      \/ msg[Caller].label \in FaultLabels
  <2>1. CASE Caller = Kernel
    BY <1>4, <2>1, Zenon DEF Asks, Regs
  <2>2. CASE Caller = Blk
    BY <1>4, <2>2, Zenon DEF Asks, Regs
  <2>3. CASE Caller = Net
    BY <1>4, <2>3, Zenon DEF Asks
  <2> QED BY <1>6, <2>1, <2>2, <2>3, Zenon
<1>5. /\ IrqLabel \in Nat /\ AddrLabel \in Nat /\ CapLabel \in Nat
      /\ IrqLabel # AddrLabel /\ IrqLabel # CapLabel /\ AddrLabel # CapLabel
      /\ \A l \in FaultLabels : l # IrqLabel /\ l # AddrLabel /\ l # CapLabel
  BY ServiceAssumption DEF IrqLabel, AddrLabel, CapLabel
<1>8. \A l \in FaultLabels : l \in Nat
  BY ServiceAssumption
<1>9. msg[Caller].label \in Nat
  BY <1>5, <1>7, <1>8, Zenon
<1>10. \A name : Received(name) => TryFrom("root", msg[Caller].label) = name
  BY Zenon DEF Received, Caller
<1>11. /\ Received("RegisterIRQ") => msg[Caller].label = IrqLabel
       /\ Received("RegisterIRQWithCap") => msg[Caller].label = CapLabel
       /\ Received("TranslateAddr") => msg[Caller].label = AddrLabel
       /\ \A name : Received(name) /\ name # "None" => msg[Caller].label >= IrqLabel
  <2>1. msg[Caller].label \in Int
    BY <1>9
  <2> DEFINE name == TryFrom("root", msg[Caller].label)
  <2>2. /\ name = "RegisterIRQ" => msg[Caller].label = IrqLabel
        /\ name = "RegisterIRQWithCap" => msg[Caller].label = CapLabel
        /\ name = "TranslateAddr" => msg[Caller].label = AddrLabel
        /\ name # "None" => msg[Caller].label >= IrqLabel
    BY <2>1, RootLabels, Zenon
  <2>3. \A n : Received(n) => n = name
    BY <1>10, Zenon
  <2> HIDE DEF name
  <2> QED BY <2>2, <2>3, Zenon
<1> QED BY <1>1, <1>2, <1>3, <1>4, <1>5, <1>7, <1>9, <1>11, Zenon

(* Every step does one of these things.                                    *)

LEMMA RootAnswers ==
  ASSUME ServeRegisterIRQ \/ ServeWithCap \/ ServeTranslateAddr
  PROVE  Answers /\ alloc' = alloc
<1>1. \E name \in {"RegisterIRQ", "RegisterIRQWithCap", "TranslateAddr"} : Received(name)
  BY Zenon DEF ServeRegisterIRQ, ServeWithCap, ServeTranslateAddr
<1>2. \E paddr : Reply(paddr)
  BY Zenon DEF ServeRegisterIRQ, ServeWithCap, ServeTranslateAddr
<1>3. "None" \notin {"RegisterIRQ", "RegisterIRQWithCap", "TranslateAddr"}
  OBVIOUS
<1>4. alloc' = alloc
  BY <1>2, Zenon DEF Reply
<1> QED BY <1>1, <1>2, <1>3, <1>4, Zenon DEF Answers

LEMMA Kinds ==
  ASSUME Next
  PROVE  /\ alloc' = alloc
         /\ \/ \E t \in Task : Sends(t) \/ Moves(t)
            \/ Answers \/ RunTasks \/ ServeFault \/ Rests
<1>1. CASE \E t \in Task : TaskStep(t)
  <2>1. PICK t \in Task : TaskStep(t)
    BY <1>1, Zenon
  <2>2. CASE DmaAlloc(t) \/ CallRoot(t) \/ Panic(t)
    BY <2>2, Zenon DEF DmaAlloc, CallRoot, Panic, Sends
  <2>3. CASE RecvCap(t) \/ ReplyCap(t)
    <3>1. At(t, "recv_cap") \/ At(t, "reply_cap")
      BY <2>3, Zenon DEF RecvCap, ReplyCap
    <3>2. Advance(t) /\ UNCHANGED <<msg, dma, buf, queue>> /\ alloc' = alloc
      BY <2>3, Zenon DEF RecvCap, ReplyCap
    <3> QED BY <3>1, <3>2, Zenon DEF Moves
  <2>5. CASE Bind(t) \/ IrqAck(t)
    BY <2>5, Zenon DEF Bind, IrqAck, Moves
  <2>4. CASE Wait(t) \/ Submit(t) \/ DevAck(t)
    BY <2>4, Zenon DEF Wait, Submit, DevAck, Moves
  <2> QED BY <2>1, <2>2, <2>3, <2>4, <2>5, Zenon DEF TaskStep
<1>2. CASE RootStep
  <2>1. CASE Booting \/ RunTasks \/ MakeHandler \/ ServeFault
    BY <2>1, Zenon DEF Booting, RunTasks, MakeHandler, ServeFault, taskVars, Rests
  <2>2. CASE ServeRegisterIRQ \/ ServeWithCap \/ ServeTranslateAddr
    BY <2>2, RootAnswers, Zenon
  <2> QED BY <1>2, <2>1, <2>2, Zenon DEF RootStep
<1>3. CASE (\E l \in Line : Fire(l)) \/ Keypress \/ DeviceReads
  BY <1>3, Zenon DEF Fire, Keypress, DeviceReads, taskVars, Rests
<1> QED BY <1>1, <1>2, <1>3, Zenon DEF Next

LEMMA SameProgram ==
  ASSUME alloc' = alloc
  PROVE  Allocs' = Allocs /\ \A t : Program(t)' = Program(t)
  BY Zenon DEF Allocs, Program

LEMMA Appended ==
  ASSUME queue \in Seq(Task), NEW t \in Task, queue' = Append(queue, t)
  PROVE  /\ queue' \in Seq(Task)
         /\ \A i \in 1 .. Len(queue') :
              (i \in 1 .. Len(queue) /\ queue'[i] = queue[i]) \/ (i = Len(queue) + 1 /\ queue'[i] = t)
  OBVIOUS

LEMMA Removed ==
  ASSUME queue \in Seq(Task), queue # <<>>, queue' = Tail(queue)
  PROVE  /\ queue' \in Seq(Task)
         /\ \A i \in 1 .. Len(queue') : /\ i + 1 \in 1 .. Len(queue) /\ i + 1 # 1
                                        /\ queue'[i] = queue[i + 1]
         /\ Head(queue) = queue[1] /\ 1 \in 1 .. Len(queue)
  OBVIOUS

\* A call waits at the end of the queue.
LEMMA SendQueue ==
  ASSUME ServiceTyped, QueueOK, NEW t \in Task, Sends(t)
  PROVE  /\ QueueOK' /\ queue' \in Seq(Task) /\ msg' = [u \in Task |-> msg'[u]]
         /\ \A u \in Task : u # t => msg'[u] = msg[u]
         /\ msg[t] = NoMsg /\ msg'[t] # NoMsg
<1>1. PICK label, regs : Send(t, label, regs) /\ label # 0
  <2>1. ToLabel("root", 2) # 0
    BY DEF ToLabel, LabelStart, IrqLabel, AddrLabel, CapLabel
  <2>2. CASE DmaAlloc(t)
    BY <2>1, <2>2, Zenon DEF DmaAlloc
  <2>3. CASE CallRoot(t)
    <3>1. At(t, "call") /\ Send(t, Arg(t)[1], Arg(t)[2])
      BY <2>3, Zenon DEF CallRoot
    <3>2. Does(t, pc[t], Program(t)[pc[t]])
      BY <3>1, Doing, Zenon DEF At, ServiceTyped
    <3>3. Arg(t)[1] = CapLabel \/ Arg(t)[1] = IrqLabel \/ Arg(t)[1] = AddrLabel
      BY <3>1, <3>2, Zenon DEF Does, At, Arg
    <3>4. Arg(t)[1] # 0
      BY <3>3 DEF IrqLabel, AddrLabel, CapLabel
    <3> QED BY <3>1, <3>4, Zenon
  <2>4. CASE Panic(t)
    <3>1. 0 \notin FaultLabels
      BY ServiceAssumption
    <3> QED BY <2>4, <3>1, Zenon DEF Panic
  <2> QED BY <2>2, <2>3, <2>4, Zenon DEF Sends
<1>2. msg[t] = NoMsg
  BY Zenon DEF Sends, DmaAlloc, CallRoot, Panic, At
<1>3. /\ msg' = [u \in Task |-> msg'[u]] /\ msg'[t] = [label |-> label, regs |-> regs]
      /\ \A u \in Task : u # t => msg'[u] = msg[u]
  BY <1>1, Zenon DEF Send, ServiceTyped
<1>4. msg'[t] # NoMsg
  BY <1>1, <1>3 DEF NoMsg
<1>5. /\ queue' \in Seq(Task)
      /\ \A i \in 1 .. Len(queue') :
           (i \in 1 .. Len(queue) /\ queue'[i] = queue[i]) \/ (i = Len(queue) + 1 /\ queue'[i] = t)
  BY <1>1, Appended, Zenon DEF Send, ServiceTyped
<1>6. \A i \in 1 .. Len(queue) : queue[i] \in Task /\ queue[i] # t /\ msg'[queue[i]] # NoMsg
  <2>1. \A i \in 1 .. Len(queue) : queue[i] \in Task
    BY DEF ServiceTyped
  <2> QED BY <1>2, <1>3, <2>1, Zenon DEF QueueOK
<1>7. QueueOK'
  BY <1>4, <1>5, <1>6, Zenon DEF QueueOK
<1> QED BY <1>2, <1>3, <1>4, <1>5, <1>7, Zenon

LEMMA QueueStep ==
  ASSUME ServiceInv, Next
  PROVE  QueueOK' /\ queue' \in Seq(Task) /\ msg' = [t \in Task |-> msg'[t]]
<1>1. ServiceTyped /\ QueueOK /\ MessagesOK
  BY Zenon DEF ServiceInv
<1>2. ASSUME NEW t \in Task, Sends(t)
      PROVE  QueueOK' /\ queue' \in Seq(Task) /\ msg' = [u \in Task |-> msg'[u]]
  BY <1>1, <1>2, SendQueue, Zenon
<1>3. CASE \E t \in Task : Moves(t)
  BY <1>1, <1>3, Zenon DEF Moves, QueueOK, ServiceTyped
<1>4. CASE Answers
  <2>1. queue # <<>> /\ queue' = Tail(queue) /\ msg' = [msg EXCEPT ![Caller] = NoMsg]
    BY <1>4, Zenon DEF Answers, Received, Reply
  <2>2. Caller = queue[1] /\ 1 \in 1 .. Len(queue) /\ queue' \in Seq(Task)
    BY <1>1, <2>1, Removed, Zenon DEF Caller, ServiceTyped
  <2>3. \A i \in 1 .. Len(queue') : /\ i + 1 \in 1 .. Len(queue) /\ i + 1 # 1
                                    /\ queue'[i] = queue[i + 1]
    BY <1>1, <2>1, Removed, Zenon DEF ServiceTyped
  <2>4. msg' = [t \in Task |-> IF t = Caller THEN NoMsg ELSE msg[t]]
    BY <1>1, <2>1, Zenon DEF ServiceTyped
  <2>5. \A i \in 1 .. Len(queue) : queue[i] \in Task
    BY <1>1 DEF ServiceTyped
  <2>6. \A i \in 1 .. Len(queue') : msg'[queue'[i]] # NoMsg
    <3> SUFFICES ASSUME NEW i \in 1 .. Len(queue')
                 PROVE  msg'[queue'[i]] # NoMsg
      OBVIOUS
    <3>1. i + 1 \in 1 .. Len(queue) /\ i + 1 # 1 /\ queue'[i] = queue[i + 1]
      BY <2>3, Zenon
    <3>2. queue[i + 1] # Caller /\ msg[queue[i + 1]] # NoMsg
      BY <1>1, <2>2, <3>1, Zenon DEF QueueOK
    <3> QED BY <2>4, <2>5, <3>1, <3>2, Zenon
  <2>7. \A i, j \in 1 .. Len(queue') : queue'[i] = queue'[j] => i = j
    <3>1. \A i, j \in 1 .. Len(queue') : queue'[i] = queue'[j] => i + 1 = j + 1
      <4>1. \A i, j \in 1 .. Len(queue) : queue[i] = queue[j] => i = j
        BY <1>1, Zenon DEF QueueOK
      <4> QED BY <2>3, <4>1, Zenon
    <3>2. \A i, j \in 1 .. Len(queue') : i + 1 = j + 1 => i = j
      BY <2>2
    <3> QED BY <3>1, <3>2, Zenon
  <2>8. msg' = [t \in Task |-> msg'[t]]
    BY <2>4, Zenon
  <2> QED BY <2>2, <2>6, <2>7, <2>8, Zenon DEF QueueOK
<1>5. CASE ServeFault
  <2>1. queue # <<>> /\ queue' = Tail(queue) /\ msg' = msg
    BY <1>5, Zenon DEF ServeFault, Received, taskVars
  <2>2. queue' \in Seq(Task)
    BY <1>1, <2>1, Removed, Zenon DEF ServiceTyped
  <2>3. \A i \in 1 .. Len(queue') : i + 1 \in 1 .. Len(queue) /\ queue'[i] = queue[i + 1]
    BY <1>1, <2>1, Removed, Zenon DEF ServiceTyped
  <2>4. \A i, j \in 1 .. Len(queue') : i + 1 = j + 1 => i = j
    BY <2>2
  <2>5. \A i, j \in 1 .. Len(queue) : queue[i] = queue[j] => i = j
    BY <1>1, Zenon DEF QueueOK
  <2>6. \A i, j \in 1 .. Len(queue') : queue'[i] = queue'[j] => i = j
    BY <2>3, <2>4, <2>5, Zenon
  <2>7. \A i \in 1 .. Len(queue') : msg'[queue'[i]] # NoMsg
    <3>1. \A i \in 1 .. Len(queue) : msg[queue[i]] # NoMsg
      BY <1>1, Zenon DEF QueueOK
    <3> QED BY <2>1, <2>3, <3>1, Zenon
  <2>8. msg = [t \in Task |-> msg[t]]
    BY <1>1, Zenon DEF ServiceTyped
  <2> QED BY <2>1, <2>2, <2>6, <2>7, <2>8, Zenon DEF QueueOK
<1>6. CASE RunTasks \/ Rests
  BY <1>1, <1>6, Zenon DEF RunTasks, Rests, QueueOK, ServiceTyped
<1> QED BY <1>2, <1>3, <1>4, <1>5, <1>6, Kinds, Zenon

(* What a step does to one task.                                           *)

Effect(t) ==
  \/ pc'[t] = pc[t] /\ msg'[t] = msg[t] /\ dma'[t] = dma[t] /\ buf'[t] = buf[t]
  \/ Sends(t) /\ msg[t] = NoMsg /\ pc'[t] = pc[t] /\ buf'[t] = buf[t]
  \/ /\ Moves(t) /\ pc'[t] = pc[t] + 1 /\ msg[t] = NoMsg
     /\ msg'[t] = NoMsg /\ dma'[t] = dma[t] /\ buf'[t] = buf[t]
  \/ /\ Answers /\ t = Caller /\ pc'[t] = pc[t] + 1
     /\ msg'[t] = NoMsg /\ dma'[t] = dma[t]
  \/ /\ RunTasks /\ t = root.who /\ pc[t] = 0 /\ pc'[t] = 1 /\ msg[t] = NoMsg
     /\ msg'[t] = NoMsg /\ dma'[t] = dma[t] /\ buf'[t] = buf[t]

LEMMA Effects ==
  ASSUME ServiceInv, Next
  PROVE  /\ alloc' = alloc /\ \A t \in Task : Effect(t)
         /\ pc' = [t \in Task |-> pc'[t]]
         /\ dma' = [t \in Task |-> dma'[t]] /\ buf' = [t \in Task |-> buf'[t]]
<1> DEFINE Maps == /\ pc' = [t \in Task |-> pc'[t]]
                   /\ dma' = [t \in Task |-> dma'[t]] /\ buf' = [t \in Task |-> buf'[t]]
           Goal == Maps /\ \A t \in Task : Effect(t)
<1>1. /\ pc = [t \in Task |-> pc[t]] /\ msg = [t \in Task |-> msg[t]]
      /\ dma = [t \in Task |-> dma[t]] /\ buf = [t \in Task |-> buf[t]]
  BY Zenon DEF ServiceInv, ServiceTyped
<1>2. ASSUME NEW u \in Task, Sends(u)
      PROVE  Goal
  <2>1. pc' = pc /\ buf' = buf /\ msg[u] = NoMsg
    BY <1>2, Zenon DEF Sends, DmaAlloc, CallRoot, Panic, At
  <2>2. dma' = [t \in Task |-> dma'[t]] /\ \A t \in Task : t # u => dma'[t] = dma[t]
    <3>1. CASE DmaAlloc(u)
      BY <1>1, <3>1, Zenon DEF DmaAlloc
    <3>2. CASE CallRoot(u) \/ Panic(u)
      BY <1>1, <3>2, Zenon DEF CallRoot, Panic
    <3> QED BY <1>2, <3>1, <3>2, Zenon DEF Sends
  <2>3. \A t \in Task : t # u => msg'[t] = msg[t]
    BY <1>2, SendQueue, Zenon DEF ServiceInv
  <2>4. \A t \in Task : Effect(t)
    BY <1>2, <2>1, <2>2, <2>3, Zenon DEF Effect
  <2> QED BY <1>1, <2>1, <2>2, <2>4, Zenon
<1>3. ASSUME NEW u \in Task, Moves(u)
      PROVE  Goal
  <2>1. msg' = msg /\ dma' = dma /\ buf' = buf /\ msg[u] = NoMsg
    BY <1>3, Zenon DEF Moves, At
  <2>2. pc' = [t \in Task |-> IF t = u THEN pc[t] + 1 ELSE pc[t]]
    BY <1>1, <1>3, Zenon DEF Moves, Advance
  <2>3. /\ pc' = [t \in Task |-> pc'[t]] /\ pc'[u] = pc[u] + 1
        /\ \A t \in Task : t # u => pc'[t] = pc[t]
    BY <2>2, Zenon
  <2>4. \A t \in Task : Effect(t)
    BY <1>3, <2>1, <2>3, Zenon DEF Effect
  <2> QED BY <1>1, <2>1, <2>3, <2>4, Zenon
<1>4. ASSUME Answers
      PROVE  Goal
  <2>1. queue # <<>> /\ dma' = dma
    BY <1>4, Zenon DEF Answers, Received, Reply
  <2>2. Caller \in Task
    BY <2>1, Calling, Zenon DEF ServiceInv
  <2>3. PICK paddr : Reply(paddr)
    BY <1>4, Zenon DEF Answers
  <2>4. /\ pc' = [t \in Task |-> IF t = Caller THEN pc[t] + 1 ELSE pc[t]]
        /\ msg' = [t \in Task |-> IF t = Caller THEN NoMsg ELSE msg[t]]
    BY <1>1, <2>2, <2>3, Zenon DEF Reply
  <2>5. buf' = [t \in Task |-> buf'[t]] /\ \A t \in Task : t # Caller => buf'[t] = buf[t]
    <3>1. buf' = buf \/ \E b : buf' = [buf EXCEPT ![Caller] = b]
      BY <2>3, Zenon DEF Reply
    <3> QED BY <1>1, <3>1, Zenon
  <2>6. pc' = [t \in Task |-> pc'[t]] /\ \A t \in Task : t # Caller => pc'[t] = pc[t]
    BY <2>4, Zenon
  <2>7. \A t \in Task : Effect(t)
    BY <1>4, <2>1, <2>4, <2>5, Zenon DEF Effect
  <2> QED BY <1>1, <2>1, <2>5, <2>6, <2>7, Zenon
<1>5. ASSUME RunTasks
      PROVE  Goal
  <2>1. /\ msg' = msg /\ dma' = dma /\ buf' = buf /\ root.pc = "start"
        /\ pc' = [pc EXCEPT ![root.who] = 1]
    BY <1>5, Zenon DEF RunTasks
  <2>2. root.who \in Task /\ root.who >= root.who
    BY DEF ServiceInv, ServiceTyped, Task
  <2>3. pc[root.who] = 0
    BY <2>1, <2>2, Zenon DEF ServiceInv, StartOK
  <2>4. pc[root.who] \notin 1 .. Len(Program(root.who))
    BY <2>3
  <2>5. msg[root.who] = NoMsg
    BY <2>2, <2>4, Zenon DEF ServiceInv, MessagesOK, Blocked
  <2>6. /\ pc' = [t \in Task |-> pc'[t]] /\ pc'[root.who] = 1
        /\ \A t \in Task : t # root.who => pc'[t] = pc[t]
    BY <1>1, <2>1, <2>2, Zenon
  <2>7. \A t \in Task : Effect(t)
    BY <1>5, <2>1, <2>2, <2>3, <2>5, <2>6, Zenon DEF Effect
  <2> QED BY <1>1, <2>1, <2>6, <2>7, Zenon
<1>6. ASSUME ServeFault \/ Rests
      PROVE  Goal
  <2>1. UNCHANGED <<pc, msg, dma, buf>>
    BY <1>6, Zenon DEF ServeFault, Rests, taskVars
  <2>2. \A t \in Task : Effect(t)
    BY <2>1, Zenon DEF Effect
  <2> QED BY <1>1, <2>1, <2>2, Zenon
<1>7. Goal
  BY <1>2, <1>3, <1>4, <1>5, <1>6, Kinds, Zenon
<1> QED BY <1>7, Kinds, Zenon

LEMMA MessagesStep ==
  ASSUME ServiceInv, Next
  PROVE  MessagesOK'
<1> SUFFICES ASSUME NEW t \in Task
             PROVE  msg'[t] = NoMsg \/ Blocked(t)'
  BY Zenon DEF MessagesOK
<1>1. alloc' = alloc /\ Effect(t)
  BY Effects, Zenon
<1>2. Program(t)' = Program(t)
  BY <1>1, SameProgram, Zenon
<1>3. CASE pc'[t] = pc[t] /\ msg'[t] = msg[t]
  BY <1>2, <1>3, Zenon DEF ServiceInv, MessagesOK, Blocked, DmaPage
<1>4. CASE Sends(t) /\ pc'[t] = pc[t]
  <2> DEFINE e == Program(t)[pc[t]]
  <2>1. PICK op \in {"dma", "call", "panic"} : At(t, op)
    BY <1>4, Zenon DEF Sends, DmaAlloc, CallRoot, Panic
  <2>2. pc[t] \in 1 .. Len(Program(t)) /\ msg[t] = NoMsg /\ e.op = op
    BY <2>1, Zenon DEF At
  <2>3. Does(t, pc[t], e)
    BY <2>2, Doing, Zenon DEF ServiceInv, ServiceTyped
  <2>4. t \in DOMAIN msg
    BY Zenon DEF ServiceInv, ServiceTyped
  <2>5. CASE DmaAlloc(t)
    <3>1. /\ msg'[t] = [label |-> ToLabel("root", 2), regs |-> <<dma[t]>>]
          /\ e.op = "dma"
      BY <2>4, <2>5, Zenon DEF DmaAlloc, Send, At
    <3>2. t \in {Blk, Net}
      BY <2>3, <3>1, Zenon DEF Does
    <3>3. dma[t] = (DmaPage(t, pc[t]) + 0) * PageSize
      BY <2>2, <3>1, <3>2, Zenon DEF ServiceInv, DmaAddrOK
    <3>4. DmaPage(t, pc[t]) + 0 = DmaPage(t, pc[t])
      <4>1. pc[t] \in Nat /\ DmaStart \in Nat
        BY Numbers, Zenon DEF ServiceInv, ServiceTyped
      <4>2. \A d, n \in Nat : d + 2 * n - 1 \in Int /\ d + n - 1 \in Int
        OBVIOUS
      <4>3. DmaPage(t, pc[t]) \in Int
        BY <4>1, <4>2, Zenon DEF DmaPage
      <4> HIDE DEF DmaPage
      <4> QED BY <4>3
    <3>5. msg'[t] = [label |-> ToLabel("root", 2), regs |-> <<DmaPage(t, pc[t]) * PageSize>>]
      BY <3>1, <3>3, <3>4, Zenon
    <3>6. DmaPage(t, pc[t])' = DmaPage(t, pc[t]) /\ pc'[t] = pc[t]
      BY <1>4, Zenon DEF DmaPage
    <3> QED BY <1>2, <2>2, <3>1, <3>5, <3>6, Zenon DEF Blocked
  <2>6. CASE CallRoot(t)
    <3>1. msg'[t] = [label |-> e.x[1], regs |-> e.x[2]] /\ e.op = "call"
      BY <2>4, <2>6, Zenon DEF CallRoot, Send, At, Arg
    <3> QED BY <1>2, <1>4, <2>2, <3>1, Zenon DEF Blocked
  <2>7. CASE Panic(t)
    <3>1. e.op = "panic"
      BY <2>7, Zenon DEF Panic, At
    <3>2. PICK label \in FaultLabels : msg'[t] = [label |-> label, regs |-> <<NetHeap>>]
      BY <2>4, <2>7, Zenon DEF Panic, Send
    <3>3. msg'[t].label \in FaultLabels
      BY <3>2
    <3> QED BY <1>2, <1>4, <2>2, <3>1, <3>3, Zenon DEF Blocked
  <2> QED BY <1>4, <2>5, <2>6, <2>7, Zenon DEF Sends
<1> QED BY <1>1, <1>3, <1>4, Zenon DEF Effect

\* DMA_ADDR moves with the call and not with the answer.
LEMMA DmaAddrStep ==
  ASSUME ServiceInv, Next
  PROVE  DmaAddrOK'
<1> SUFFICES ASSUME NEW t \in {Blk, Net}
             PROVE  /\ pc'[t] = 0 => dma'[t] = DmaPage(t, 1)' * PageSize
                    /\ pc'[t] \in 1 .. Len(Program(t)') /\ Program(t)'[pc'[t]].op = "dma" =>
                         dma'[t] = (DmaPage(t, pc[t])' +
                                    (IF msg'[t] = NoMsg THEN 0 ELSE Program(t)'[pc'[t]].x[1])) * PageSize
  BY Zenon DEF DmaAddrOK
<1>0. t \in Task /\ t # Kernel
  BY Programs
<1>1. alloc' = alloc /\ Effect(t) /\ alloc \in BlkAllocs
  BY <1>0, Effects, Zenon DEF ServiceInv, ServiceTyped
<1>2. Program(t)' = Program(t) /\ pc[t] \in Nat
  BY <1>0, <1>1, SameProgram, Zenon DEF ServiceInv, ServiceTyped
<1>3. /\ pc[t] = 0 => dma[t] = DmaPage(t, 1) * PageSize
      /\ pc[t] \in 1 .. Len(Program(t)) /\ Program(t)[pc[t]].op = "dma" =>
           dma[t] = (DmaPage(t, pc[t]) +
                     (IF msg[t] = NoMsg THEN 0 ELSE Program(t)[pc[t]].x[1])) * PageSize
  BY Zenon DEF ServiceInv, DmaAddrOK
<1>5. CASE pc'[t] = pc[t] /\ msg'[t] = msg[t] /\ dma'[t] = dma[t]
  BY <1>2, <1>3, <1>5, Zenon DEF DmaPage
<1>6. CASE Sends(t) /\ pc'[t] = pc[t]
  <2> DEFINE e == Program(t)[pc[t]]
  <2>1. PICK op \in {"dma", "call", "panic"} : At(t, op)
    BY <1>6, Zenon DEF Sends, DmaAlloc, CallRoot, Panic
  <2>2. pc[t] \in 1 .. Len(Program(t)) /\ msg[t] = NoMsg /\ e.op = op
    BY <2>1, Zenon DEF At
  <2>3. pc[t] # 0
    BY <2>2
  <2>4. SUFFICES ASSUME e.op = "dma"
                 PROVE  dma'[t] = (DmaPage(t, pc[t])' +
                                   (IF msg'[t] = NoMsg THEN 0 ELSE e.x[1])) * PageSize
    BY <1>2, <1>6, <2>3, Zenon
  <2>5. DmaAlloc(t)
    BY <1>6, <2>4 DEF Sends, CallRoot, Panic, At
  <2>6. dma'[t] = dma[t] + e.x[1] * PageSize
    BY <1>0, <2>5, Zenon DEF DmaAlloc, Arg, ServiceInv, ServiceTyped
  <2>7. msg'[t] # NoMsg
    BY <1>0, <1>6, SendQueue, Zenon DEF ServiceInv
  <2>8. dma[t] = (DmaPage(t, pc[t]) + 0) * PageSize
    BY <1>3, <2>2, <2>4, Zenon
  <2>9. Does(t, pc[t], e)
    BY <1>0, <1>1, <2>2, Doing, Zenon
  <2>10. e.x[1] \in Nat
    <3>1. e.x[1] = 3 - Allocs \/ e.x[1] = 2
      BY <2>4, <2>9, Zenon DEF Does
    <3> QED BY <1>1, <3>1, Entered
  <2>11. DmaPage(t, pc[t]) \in Int
    BY <1>2, Numbers DEF DmaPage
  <2>12. \A a, b, c \in Int : (a + 0) * c + b * c = (a + b) * c
    OBVIOUS
  <2>13. dma'[t] = (DmaPage(t, pc[t]) + e.x[1]) * PageSize
    <3>1. PageSize \in Int /\ e.x[1] \in Int
      BY <2>10, Numbers
    <3>2. (DmaPage(t, pc[t]) + 0) * PageSize + e.x[1] * PageSize
            = (DmaPage(t, pc[t]) + e.x[1]) * PageSize
      BY <2>11, <2>12, <3>1, Zenon
    <3> QED BY <2>6, <2>8, <3>2, Zenon
  <2>14. DmaPage(t, pc[t])' = DmaPage(t, pc[t])
    BY <1>6, Zenon DEF DmaPage
  <2> QED BY <2>7, <2>13, <2>14, Zenon
<1>7. CASE Moves(t) /\ pc'[t] = pc[t] + 1
  <2>1. PICK op \in {"recv_cap", "reply_cap", "bind", "ack", "wait", "submit", "dev_ack"} : At(t, op)
    BY <1>7, Zenon DEF Moves
  <2>2. pc[t] \in 1 .. Len(Program(t)) /\ Program(t)[pc[t]].op = op
    BY <2>1, Zenon DEF At
  <2>3. Kernel # Net /\ Kernel # Blk
    BY Programs
  <2>4. t = Blk /\ pc[t] > Allocs + 1
    BY <1>0, <1>1, <2>1, <2>3, Alone, Zenon
  <2>5. pc'[t] # 0 /\ pc'[t] \notin 1 .. Allocs /\ Blk # Net
    <3>1. Allocs \in {1, 2} /\ Blk # Net
      BY <1>1, Entered, Programs
    <3>2. pc[t] > Allocs
      BY <1>2, <2>4, <3>1
    <3> QED BY <1>2, <1>7, <3>1, <3>2
  <2>6. ASSUME pc'[t] \in 1 .. Len(Program(t))
        PROVE  Program(t)[pc'[t]].op # "dma"
    <3>1. Does(t, pc'[t], Program(t)[pc'[t]])
      BY <1>0, <1>1, <2>6, Doing, Zenon
    <3> QED BY <2>4, <2>5, <3>1, Zenon DEF Does
  <2> QED BY <1>2, <2>5, <2>6, Zenon
<1>8. CASE /\ Answers /\ t = Caller /\ pc'[t] = pc[t] + 1 /\ msg'[t] = NoMsg
           /\ dma'[t] = dma[t]
  <2> DEFINE e == Program(t)[pc[t]]
  <2>1. queue # <<>>
    BY <1>8, Zenon DEF Answers, Received
  <2>2. Blocked(t) /\ msg[t] # NoMsg
    BY <1>8, <2>1, Calling, Zenon DEF ServiceInv
  <2>3. pc[t] \in 1 .. Len(Program(t)) /\ e.op \in {"call", "dma", "panic"}
    BY <2>2, Zenon DEF Blocked
  <2>4. pc'[t] # 0
    BY <1>8, <2>3
  <2>5. SUFFICES ASSUME pc'[t] \in 1 .. Len(Program(t)), Program(t)[pc'[t]].op = "dma"
                 PROVE  dma'[t] = (DmaPage(t, pc[t])' + 0) * PageSize
    BY <1>2, <1>8, <2>4, Zenon
  <2>6. Does(t, pc[t], e) /\ Does(t, pc'[t], Program(t)[pc'[t]])
    BY <1>0, <1>1, <2>3, <2>5, Doing, Zenon
  <2>7. (t = Blk /\ pc'[t] \in 1 .. Allocs) \/ (t = Net /\ pc'[t] \in {1, 2})
    BY <2>5, <2>6, Zenon DEF Does
  <2>8. e.op = "dma"
    <3>1. CASE e.op = "call"
      <4>1. (t = Blk /\ (pc[t] = Allocs + 1 \/ pc[t] > Allocs + 3)) \/ (t = Net /\ pc[t] = 3)
        BY <1>0, <2>6, <3>1, Zenon DEF Does
      <4> QED BY <1>1, <1>2, <1>8, <2>7, <4>1, Entered, Programs
    <3>2. CASE e.op = "panic"
      <4>1. t = Net /\ pc[t] = 4
        BY <2>6, <3>2, Zenon DEF Does
      <4> QED BY <1>8, <2>7, <4>1, Programs
    <3> QED BY <2>3, <3>1, <3>2, ZenonT(30)
  <2>9. dma[t] = (DmaPage(t, pc[t]) + e.x[1]) * PageSize
    BY <1>3, <2>2, <2>3, <2>8, Zenon
  <2>10. (t = Blk /\ e.x[1] = 3 - Allocs) \/ (t = Net /\ e.x[1] = 2)
    BY <2>6, <2>8, Zenon DEF Does
  <2>11. DmaPage(t, pc[t]) + e.x[1] = DmaPage(t, pc'[t]) + 0
    <3>1. DmaStart \in Nat /\ Allocs \in {1, 2} /\ Blk # Net
      BY <1>1, Entered, Numbers, Programs
    <3>2. CASE t = Blk
      <4>1. pc[t] = 1 /\ pc'[t] = 2 /\ e.x[1] = 1
        <5>1. pc[t] >= 1 /\ pc'[t] \in 1 .. Allocs /\ e.x[1] = 3 - Allocs /\ pc'[t] = pc[t] + 1
          BY <1>8, <2>3, <2>7, <2>10, <3>1, <3>2
        <5> HIDE DEF e
        <5> QED BY <1>2, <3>1, <5>1
      <4> QED BY <3>1, <3>2, <4>1 DEF DmaPage
    <3>3. CASE t = Net
      <4>1. pc[t] = 1 /\ pc'[t] = 2 /\ e.x[1] = 2
        BY <1>2, <1>8, <2>3, <2>7, <2>10, <3>1, <3>3
      <4> QED BY <3>1, <3>3, <4>1 DEF DmaPage
    <3> QED BY <3>2, <3>3
  <2>12. DmaPage(t, pc[t])' = DmaPage(t, pc'[t])
    BY Zenon DEF DmaPage
  <2> QED BY <1>8, <2>9, <2>11, <2>12, Zenon
<1>9. CASE pc[t] = 0 /\ pc'[t] = 1 /\ msg'[t] = NoMsg /\ dma'[t] = dma[t]
  <2>1. dma'[t] = DmaPage(t, 1) * PageSize /\ 1 # 0
    BY <1>3, <1>9
  <2>2. DmaPage(t, 1) = DmaPage(t, pc'[t]) + 0 /\ DmaPage(t, pc[t])' = DmaPage(t, pc'[t])
    BY <1>9, Numbers DEF DmaPage
  <2> QED BY <1>9, <2>1, <2>2, Zenon
<1> QED BY <1>1, <1>5, <1>6, <1>7, <1>8, <1>9, Zenon DEF Effect

LEMMA PcStep ==
  ASSUME ServiceInv, Next
  PROVE  pc' \in [Task -> Nat] /\ \A t \in Task : pc'[t] <= Len(Program(t)') + 1
<1>1. ASSUME NEW t \in Task
      PROVE  pc'[t] \in Nat /\ pc'[t] <= Len(Program(t)) + 1
  <2>1. /\ Effect(t) /\ pc[t] \in Nat /\ pc[t] <= Len(Program(t)) + 1
        /\ alloc \in BlkAllocs
    BY Effects, Zenon DEF ServiceInv, ServiceTyped
  <2>2. Len(Program(t)) \in Nat
    BY <2>1, Entered, Programs
  <2>3. CASE pc'[t] = pc[t]
    BY <2>1, <2>3, Zenon
  <2>4. CASE Moves(t) /\ pc'[t] = pc[t] + 1
    <3>1. pc[t] \in 1 .. Len(Program(t))
      BY <2>4, Zenon DEF Moves, At
    <3> QED BY <2>1, <2>2, <2>4, <3>1
  <2>5. CASE Answers /\ t = Caller /\ pc'[t] = pc[t] + 1
    <3>1. queue # <<>>
      BY <2>5, Zenon DEF Answers, Received
    <3>2. pc[t] \in 1 .. Len(Program(t))
      BY <2>5, <3>1, Calling, Zenon DEF ServiceInv, Blocked
    <3> QED BY <2>1, <2>2, <2>5, <3>2
  <2>6. CASE pc'[t] = 1
    BY <2>2, <2>6
  <2> QED BY <2>1, <2>3, <2>4, <2>5, <2>6, Zenon DEF Effect
<1>2. pc' = [t \in Task |-> pc'[t]] /\ \A t \in Task : Program(t)' = Program(t)
  BY Effects, SameProgram, Zenon
<1> QED BY <1>1, <1>2, Zenon

\* What a step does to the root task's own state.
LEMMA RootSteps ==
  ASSUME ServiceInv, Next
  PROVE  /\ root' = [pc |-> root'.pc, who |-> root'.who, irq |-> root'.irq]
         /\ \/ UNCHANGED root
            \/ root.pc = "boot" /\ root'.pc = "start" /\ root'.who = root.who /\ pc' = pc
            \/ /\ RunTasks /\ root'.irq = root.irq
               /\ \/ root.who = Net /\ root'.pc = "recv" /\ root'.who = root.who
                  \/ root.who # Net /\ root'.pc = root.pc /\ root'.who = root.who + 1
            \/ /\ \E t \in Task : RecvCap(t)
               /\ root'.pc = "wait" /\ root'.who = root.who /\ root'.irq = root.irq
            \/ /\ \E t \in Task : ReplyCap(t)
               /\ root'.pc = "recv" /\ root'.who = root.who /\ root'.irq = root.irq
            \/ ServeWithCap /\ root'.pc = "handler" /\ root'.who = root.who /\ root'.irq = Regs[1]
            \/ MakeHandler /\ root'.pc = "call" /\ root'.who = root.who /\ root'.irq = root.irq
<1>1. root = [pc |-> root.pc, who |-> root.who, irq |-> root.irq]
  BY Zenon DEF ServiceInv, ServiceTyped
<1>2. CASE UNCHANGED root
  BY <1>1, <1>2, Zenon
<1>3. CASE BootDone /\ UNCHANGED pc
  <2>1. root.pc = "boot" /\ root' = [root EXCEPT !.pc = "start"]
    BY <1>3, Zenon DEF BootDone
  <2> QED BY <1>1, <1>3, <2>1
<1>4. CASE RunTasks
  <2>1. root' = IF root.who = Net THEN [root EXCEPT !.pc = "recv"] ELSE [root EXCEPT !.who = @ + 1]
    BY <1>4, Zenon DEF RunTasks
  <2> HIDE DEF Net
  <2> QED BY <1>1, <1>4, <2>1
<1>5. CASE \E t \in Task : RecvCap(t)
  <2>1. root' = [root EXCEPT !.pc = "wait"]
    BY <1>5, Zenon DEF RecvCap
  <2> QED BY <1>1, <1>5, <2>1
<1>6. CASE \E t \in Task : ReplyCap(t)
  <2>1. root' = [root EXCEPT !.pc = "recv"]
    BY <1>6, Zenon DEF ReplyCap
  <2> QED BY <1>1, <1>6, <2>1
<1>7. CASE ServeWithCap
  <2>1. root' = [root EXCEPT !.pc = "handler", !.irq = Regs[1]]
    BY <1>7, Zenon DEF ServeWithCap
  <2> HIDE DEF Regs
  <2> QED BY <1>1, <1>7, <2>1, Zenon
<1>8. CASE MakeHandler
  <2>1. root' = [root EXCEPT !.pc = "call"]
    BY <1>8, Zenon DEF MakeHandler
  <2> QED BY <1>1, <1>8, <2>1
<1>9. CASE RootStep
  <2>1. CASE Booting
    <3>1. Boot /\ UNCHANGED pc
      BY <2>1, Zenon DEF Booting, taskVars
    <3>2. BootDone \/ UNCHANGED root
      BY <3>1, Zenon DEF Boot, BootOrigin, BootObject, BootNormalCap, BootSlot, BootTable,
           BootTake, BootCopy, BootMissingTable, BootMap, BootDevice, BootGive, BootNext
    <3> QED BY <1>2, <1>3, <3>1, <3>2, Zenon
  <2>2. CASE ServeRegisterIRQ \/ ServeTranslateAddr \/ ServeFault
    BY <1>2, <2>2, Zenon DEF ServeRegisterIRQ, ServeTranslateAddr, ServeFault, bootVars
  <2> QED BY <1>4, <1>7, <1>8, <1>9, <2>1, <2>2, Zenon DEF RootStep
<1>10. CASE \E t \in Task : TaskStep(t)
  <2>1. PICK t \in Task : TaskStep(t)
    BY <1>10, Zenon
  <2>2. CASE DmaAlloc(t) \/ CallRoot(t) \/ Panic(t) \/ Bind(t) \/ IrqAck(t)
    BY <1>2, <2>2, Zenon DEF DmaAlloc, CallRoot, Panic, Bind, IrqAck, bootVars
  <2>3. CASE Wait(t) \/ Submit(t) \/ DevAck(t)
    BY <1>2, <2>3, Zenon DEF Wait, Submit, DevAck, bootVars
  <2> QED BY <1>5, <1>6, <2>1, <2>2, <2>3, Zenon DEF TaskStep
<1>11. CASE (\E l \in Line : Fire(l)) \/ Keypress \/ DeviceReads
  BY <1>2, <1>11, Zenon DEF Fire, Keypress, DeviceReads, bootVars
<1> QED BY <1>9, <1>10, <1>11, Zenon DEF Next

LEMMA StartStep ==
  ASSUME ServiceInv, Next
  PROVE  StartOK' /\ root'.pc \in RootPc /\ root'.who \in Task
<1>1. root.pc \in RootPc /\ root.who \in Task /\ StartOK
  BY Zenon DEF ServiceInv, ServiceTyped
<1>2. root'.pc \in RootPc /\ root'.who \in Task
  <2>1. root.who # Net => root.who + 1 \in Task
    BY <1>1, Programs
  <2>2. {"start", "recv", "wait", "handler", "call"} \subseteq RootPc
    BY DEF RootPc
  <2> QED BY <1>1, <2>1, <2>2, RootSteps, Zenon
<1>3. root'.pc = "boot" => root'.who = Kernel
  <2>1. root'.pc = "boot" => UNCHANGED root \/ (RunTasks /\ root'.pc = root.pc)
    BY RootSteps
  <2>2. RunTasks => root.pc = "start"
    BY Zenon DEF RunTasks
  <2> QED BY <1>1, <2>1, <2>2, SMTT(20) DEF StartOK
<1>4. ASSUME root'.pc \in {"boot", "start"}, NEW t \in Task, t >= root'.who
      PROVE  pc'[t] = 0
  <2>1. \/ UNCHANGED root
        \/ root.pc = "boot" /\ root'.who = root.who /\ pc' = pc
        \/ RunTasks /\ root.pc = "start" /\ root'.who = root.who + 1
    <3>1. RunTasks => root.pc = "start"
      BY Zenon DEF RunTasks
    <3> QED BY <1>4, <3>1, RootSteps
  <2>2. root.pc \in {"boot", "start"} /\ t >= root.who
    BY <1>1, <1>4, <2>1 DEF Task
  <2>3. pc[t] = 0
    BY <1>1, <2>2, Zenon DEF StartOK
  <2>4. Effect(t)
    BY Effects, Zenon
  <2>5. ~Moves(t)
    <3>1. pc[t] \notin 1 .. Len(Program(t))
      BY <2>3
    <3> QED BY <3>1, Zenon DEF Moves, At
  <2>6. ~Answers
    <3>1. root.pc # "recv"
      BY <2>2
    <3> QED BY <3>1, Zenon DEF Answers, Received
  <2>7. ~(RunTasks /\ t = root.who)
    <3>1. root.who + 1 # root.who /\ ~(root.who >= root.who + 1)
      BY <1>1 DEF Task
    <3>2. RunTasks => root'.who = root.who + 1
      BY <1>4, <3>1, RootSteps DEF RunTasks
    <3> QED BY <1>4, <3>1, <3>2, Zenon
  <2> QED BY <2>3, <2>4, <2>5, <2>6, <2>7, Zenon DEF Effect
<1> QED BY <1>2, <1>3, <1>4, Zenon DEF StartOK

(* The handlers.                                                           *)

\* A capability is put in a slot of a task.
Puts(t, c, v) == cspace' = [cspace EXCEPT ![t][c] = v]

LEMMA PutSlot ==
  ASSUME cspace = [t \in Task |-> [c \in TaskSlot |-> cspace[t][c]]],
         NEW t \in Task, NEW c \in TaskSlot, NEW v, Puts(t, c, v)
  PROVE  /\ cspace' = [u \in Task |-> [d \in TaskSlot |-> cspace'[u][d]]]
         /\ cspace'[t][c] = v
         /\ \A u \in Task, d \in TaskSlot : u # t \/ d # c => cspace'[u][d] = cspace[u][d]
<1>1. cspace' = [u \in Task |-> [d \in TaskSlot |-> IF u = t /\ d = c THEN v ELSE cspace[u][d]]]
  BY Zenon DEF Puts
<1>2. \A u \in Task, d \in TaskSlot :
        cspace'[u][d] = IF u = t /\ d = c THEN v ELSE cspace[u][d]
  BY <1>1
<1>3. cspace' = [u \in Task |-> [d \in TaskSlot |-> cspace'[u][d]]]
  BY <1>1, <1>2
<1> QED BY <1>2, <1>3, Zenon

\* The slots that the start-up fills are not those of the handlers.
GivesApart ==
  Step("give") => /\ Now.t \in Task /\ Now.x[1] \in TaskSlot
                  /\ Now.x[1] # RecvSlot /\ (Now.x[1] # 27 \/ Now.t # Blk)

LEMMA BootSlots ==
  ASSUME GivesApart, ServiceTyped, Boot
  PROVE  /\ cspace' = [t \in Task |-> [c \in TaskSlot |-> cspace'[t][c]]]
         /\ cspace'[Kernel][RecvSlot] = cspace[Kernel][RecvSlot] /\ cspace'[Blk][27] = cspace[Blk][27]
<1>1. CASE BootGive
  <2>1. Step("give") /\ Puts(Now.t, Now.x[1], Now.x[2])
    BY <1>1, Zenon DEF BootGive, Puts
  <2>2. Now.t \in Task /\ Now.x[1] \in TaskSlot /\ Now.x[1] # RecvSlot /\ (Now.x[1] # 27 \/ Now.t # Blk)
    BY <2>1, Zenon DEF GivesApart
  <2>4. Kernel \in Task /\ Blk \in Task /\ RecvSlot \in TaskSlot /\ 27 \in TaskSlot
    BY Programs DEF TaskSlot, RecvSlot
  <2>5. cspace = [t \in Task |-> [c \in TaskSlot |-> cspace[t][c]]]
    BY Zenon DEF ServiceTyped
  <2>6. PICK t \in Task, c \in TaskSlot :
          (\E v : Puts(t, c, v)) /\ c # RecvSlot /\ (c # 27 \/ t # Blk)
    BY <2>1, <2>2, Zenon
  <2>7. /\ cspace' = [u \in Task |-> [d \in TaskSlot |-> cspace'[u][d]]]
        /\ \A u \in Task, d \in TaskSlot : u # t \/ d # c => cspace'[u][d] = cspace[u][d]
    BY <2>5, <2>6, PutSlot
  <2> QED BY <2>4, <2>6, <2>7
<1>2. CASE UNCHANGED cspace
  BY <1>2, Zenon DEF ServiceTyped
<1>3. BootGive \/ UNCHANGED cspace
  BY Zenon DEF Boot, BootOrigin, BootObject, BootNormalCap, BootSlot, BootTable,
       BootTake, BootCopy, BootMissingTable, BootMap, BootDevice, BootNext, BootDone
<1> QED BY <1>1, <1>2, <1>3, Zenon

SameHandlers ==
  UNCHANGED <<pc[Kernel], pc[Blk], root.pc, root.irq, line["serial"], line["blk"],
              cspace[Kernel][RecvSlot], cspace[Blk][27]>>

\* The parts of the state that HandlersOK speaks of.
LEMMA HandlersFrom ==
  ASSUME alloc' = alloc, HandlersOK, SameHandlers
  PROVE  HandlersOK'
<1>1. Allocs' = Allocs
  BY SameProgram, Zenon
<1> QED BY <1>1 DEF HandlersOK, SameHandlers

\* A task that moves on, with no effect on a slot or a line that was off.
LEMMA HandlersMove ==
  ASSUME ServiceInv, alloc' = alloc, NEW t \in Task, Moves(t),
         ~At(t, "recv_cap"), ~At(t, "reply_cap"),
         UNCHANGED <<root, cspace>>,
         pc[Kernel] <= 3 => line'["serial"] = line["serial"],
         pc[Blk] <= Allocs + 1 => line'["blk"] = line["blk"]
  PROVE  HandlersOK'
<1>1. /\ Allocs' = Allocs /\ HandlersOK /\ Allocs \in {1, 2}
      /\ pc[Kernel] \in Nat /\ pc[Blk] \in Nat /\ Kernel # Blk
  BY SameProgram, Entered, Programs DEF ServiceInv, ServiceTyped
<1>2. PICK op \in {"bind", "ack", "wait", "submit", "dev_ack"} : At(t, op)
  BY Zenon DEF Moves
<1>3. alloc \in BlkAllocs
  BY Zenon DEF ServiceInv, ServiceTyped
<1>4. \/ t = Kernel /\ pc[t] \in {4, 5, 6}
      \/ t = Blk /\ pc[t] > Allocs + 1
  BY <1>2, <1>3, Alone, Zenon
<1>5. pc'[t] = pc[t] + 1 /\ \A u \in Task : u # t => pc'[u] = pc[u]
  BY Zenon DEF Moves, Advance, ServiceInv, ServiceTyped
<1>6. Kernel \in Task /\ Blk \in Task
  BY Programs
<1>7. CASE t = Kernel /\ pc[t] \in {4, 5, 6}
  <2>1. pc'[Kernel] \in {5, 6, 7} /\ pc[Kernel] \in {4, 5, 6} /\ pc'[Blk] = pc[Blk]
    BY <1>1, <1>5, <1>6, <1>7
  <2>2. /\ pc[Kernel] > 3 /\ ~(pc[Kernel] <= 2) /\ pc[Kernel] # 2 /\ pc[Kernel] # 3 /\ ~(pc[Kernel] <= 1)
        /\ ~(pc'[Kernel] <= 2) /\ pc'[Kernel] # 2 /\ pc'[Kernel] # 3 /\ ~(pc'[Kernel] <= 1)
    BY <2>1
  <2>3. root.pc # "handler"
    BY <1>1, <2>2, Zenon DEF HandlersOK
  <2> QED BY <1>1, <2>1, <2>2, <2>3, Zenon DEF HandlersOK
<1>8. CASE t = Blk /\ pc[t] > Allocs + 1
  <2>1. /\ pc'[Blk] \in Nat /\ pc'[Blk] > Allocs + 1 /\ pc[Blk] > Allocs + 1
        /\ pc'[Kernel] = pc[Kernel]
    BY <1>1, <1>5, <1>6, <1>8
  <2>2. ~(pc[Blk] <= Allocs + 1) /\ ~(pc'[Blk] <= Allocs + 1)
    BY <1>1, <2>1
  <2>3. (pc[Kernel] <= 1 \/ root.pc = "handler") => pc[Kernel] <= 3
    <3>1. root.pc = "handler" => pc[Kernel] = 2
      BY <1>1, Zenon DEF HandlersOK
    <3> QED BY <1>1, <3>1
  <2> QED BY <1>1, <2>1, <2>2, <2>3, Zenon DEF HandlersOK
<1> QED BY <1>4, <1>7, <1>8, Zenon

LEMMA HandlersStep ==
  ASSUME GivesApart, ServiceInv, Next
  PROVE  HandlersOK' /\ cspace' = [t \in Task |-> [c \in TaskSlot |-> cspace'[t][c]]]
<1> DEFINE Caps == cspace' = [t \in Task |-> [c \in TaskSlot |-> cspace'[t][c]]]
           Goal == HandlersOK' /\ Caps
<1>1. /\ alloc' = alloc /\ HandlersOK /\ Allocs' = Allocs /\ alloc \in BlkAllocs
      /\ cspace = [t \in Task |-> [c \in TaskSlot |-> cspace[t][c]]]
      /\ line = [l \in Line |-> line[l]] /\ pc = [t \in Task |-> pc[t]]
      /\ ServiceTyped
  BY Kinds, SameProgram, Zenon DEF ServiceInv, ServiceTyped
<1>2. /\ Kernel \in Task /\ Blk \in Task /\ Net \in Task /\ Kernel # Blk /\ Allocs \in {1, 2}
      /\ Kernel # Net /\ Blk # Net
      /\ pc[Kernel] \in Nat /\ pc[Blk] \in Nat /\ "serial" \in Line /\ "blk" \in Line
      /\ "serial" # "blk" /\ 27 \in TaskSlot /\ RecvSlot \in TaskSlot
  <2>1. /\ Kernel \in Task /\ Blk \in Task /\ Net \in Task /\ Kernel # Blk
        /\ Kernel # Net /\ Blk # Net /\ "serial" # "blk"
    BY Programs
  <2>2. "serial" \in Line /\ "blk" \in Line /\ 27 \in TaskSlot /\ RecvSlot \in TaskSlot
    BY DEF Line, TaskSlot, RecvSlot
  <2>3. Allocs \in {1, 2} /\ pc[Kernel] \in Nat /\ pc[Blk] \in Nat
    BY <1>1, <2>1, Entered, Zenon DEF ServiceTyped
  <2> QED BY <2>1, <2>2, <2>3, Zenon
<1>3. UNCHANGED cspace => Caps
  BY <1>1, Zenon
<1>4. ASSUME UNCHANGED <<pc, root, line, cspace>>
      PROVE  Goal
  <2>1. SameHandlers
    BY <1>4 DEF SameHandlers
  <2> QED BY <1>1, <1>3, <1>4, <2>1, HandlersFrom, Zenon
<1>5. ASSUME NEW t \in Task, Moves(t), ~At(t, "recv_cap"), ~At(t, "reply_cap"),
             UNCHANGED <<root, cspace, line>>
      PROVE  Goal
  <2>1. HandlersOK'
    BY <1>1, <1>5, HandlersMove, Zenon
  <2> QED BY <1>3, <1>5, <2>1, Zenon
<1>6. CASE RootStep
  <2>1. ASSUME Booting PROVE Goal
    <3>1. Boot /\ pc' = pc /\ line' = line
      BY <2>1, Zenon DEF Booting, taskVars, devVars
    <3>2. /\ Caps /\ cspace'[Kernel][RecvSlot] = cspace[Kernel][RecvSlot]
          /\ cspace'[Blk][27] = cspace[Blk][27]
      BY <1>1, <3>1, BootSlots
    <3>3. root' = root \/ (root.pc = "boot" /\ root' = [root EXCEPT !.pc = "start"])
      BY <3>1, Zenon DEF Boot, BootOrigin, BootObject, BootNormalCap, BootSlot, BootTable,
           BootTake, BootCopy, BootMissingTable, BootMap, BootDevice, BootGive, BootNext, BootDone
    <3>4. \/ root'.pc = root.pc /\ root'.irq = root.irq
          \/ root.pc = "boot" /\ root'.pc = "start" /\ root'.irq = root.irq
      BY <1>1, <3>3 DEF ServiceTyped
    <3>5. HandlersOK'
      BY <1>1, <3>1, <3>2, <3>4 DEF HandlersOK
    <3> QED BY <3>2, <3>5
  <2>2. ASSUME RunTasks PROVE Goal
    <3>1. /\ line' = line /\ cspace' = cspace /\ root.pc = "start"
          /\ pc' = [pc EXCEPT ![root.who] = 1]
      BY <2>2, Zenon DEF RunTasks, devVars
    <3>2. root.who \in Task /\ pc[root.who] = 0
      <4>1. root.who \in Task /\ root.who >= root.who
        BY <1>1 DEF ServiceTyped, Task
      <4> QED BY <3>1, <4>1, Zenon DEF ServiceInv, StartOK
    <3>3. /\ root'.pc \in {"start", "recv"} /\ root'.irq = root.irq
      <4>1. root' = IF root.who = Net THEN [root EXCEPT !.pc = "recv"]
                                      ELSE [root EXCEPT !.who = @ + 1]
        BY <2>2, Zenon DEF RunTasks
      <4> QED BY <1>1, <3>1, <4>1 DEF ServiceTyped
    <3>4. \A t \in Task : pc'[t] = pc[t] \/ (pc[t] = 0 /\ pc'[t] = 1)
      BY <1>1, <3>1, <3>2, Zenon
    <3>5. \/ pc'[Kernel] = pc[Kernel]
          \/ pc[Kernel] = 0 /\ pc'[Kernel] = 1
      BY <1>2, <3>4
    <3>6. \/ pc'[Blk] = pc[Blk]
          \/ pc[Blk] = 0 /\ pc'[Blk] = 1
      BY <1>2, <3>4
    <3>7. HandlersOK'
      BY <1>1, <1>2, <3>1, <3>3, <3>5, <3>6 DEF HandlersOK
    <3> QED BY <1>3, <3>1, <3>7, Zenon
  <2>3. ASSUME MakeHandler PROVE Goal
    <3>1. /\ cspace' = cspace /\ pc' = pc /\ root.pc = "handler"
          /\ root' = [root EXCEPT !.pc = "call"] /\ line' = [line EXCEPT ![root.irq] = "on"]
      BY <2>3, Zenon DEF MakeHandler, Issue, taskVars
    <3>2. pc[Kernel] = 2 /\ root.irq = "serial"
      BY <1>1, <3>1 DEF HandlersOK
    <3>3. root'.pc = "call" /\ root'.irq = root.irq
      BY <1>1, <3>1 DEF ServiceTyped
    <3>4. line'["blk"] = line["blk"]
      BY <1>1, <1>2, <3>1, <3>2, Zenon
    <3>5. HandlersOK'
      BY <1>1, <1>2, <3>1, <3>2, <3>3, <3>4 DEF HandlersOK
    <3> QED BY <1>3, <3>1, <3>5, Zenon
  <2>4. ASSUME ServeRegisterIRQ PROVE Goal
    <3>1. Received("RegisterIRQ") /\ queue # <<>>
      BY <2>4, Zenon DEF ServeRegisterIRQ, Received
    <3>2. Caller = Blk /\ pc[Blk] = Allocs + 1 /\ Regs = <<27, "blk">>
      BY <3>1, Calling DEF ServiceInv
    <3>3. Regs[1] = 27 /\ Regs[2] = "blk"
      BY <3>2
    <3>4. /\ root' = root /\ line' = [line EXCEPT !["blk"] = "on"] /\ Puts(Blk, 27, "blk")
          /\ pc' = [pc EXCEPT ![Blk] = @ + 1]
      BY <2>4, <3>2, <3>3, Zenon DEF ServeRegisterIRQ, Issue, Puts, Reply
    <3>5. /\ Caps /\ cspace'[Blk][27] = "blk"
          /\ cspace'[Kernel][RecvSlot] = cspace[Kernel][RecvSlot]
      BY <1>1, <1>2, <3>4, PutSlot
    <3>6. line'["serial"] = line["serial"] /\ pc'[Kernel] = pc[Kernel]
      BY <1>1, <1>2, <3>4
    <3>7. pc'[Blk] = Allocs + 2
      BY <1>1, <1>2, <3>2, <3>4, SMTT(20)
    <3>8. HandlersOK'
      BY <1>1, <1>2, <3>4, <3>5, <3>6, <3>7 DEF HandlersOK
    <3> QED BY <3>5, <3>8
  <2>5. ASSUME ServeWithCap PROVE Goal
    <3>1. Received("RegisterIRQWithCap") /\ queue # <<>>
      BY <2>5, Zenon DEF ServeWithCap, Received
    <3>2. Caller = Kernel /\ pc[Kernel] = 1 /\ Regs = <<"serial">>
      BY <3>1, Calling DEF ServiceInv
    <3>3. Regs[1] = "serial"
      BY <3>2
    <3>4. /\ root' = [root EXCEPT !.pc = "handler", !.irq = "serial"] /\ line' = line
          /\ pc' = [pc EXCEPT ![Kernel] = @ + 1] /\ cspace' = cspace
      BY <2>5, <3>2, <3>3, Zenon DEF ServeWithCap, Reply, devVars
    <3>5. root'.pc = "handler" /\ root'.irq = "serial"
      BY <1>1, <3>4 DEF ServiceTyped
    <3>6. pc'[Kernel] = 2 /\ pc'[Blk] = pc[Blk]
      BY <1>1, <1>2, <3>2, <3>4
    <3>7. HandlersOK'
      BY <1>1, <1>2, <3>2, <3>4, <3>5, <3>6 DEF HandlersOK
    <3> QED BY <1>3, <3>4, <3>7, Zenon
  <2>6. ASSUME ServeTranslateAddr PROVE Goal
    <3>1. Received("TranslateAddr") /\ queue # <<>>
      BY <2>6, Zenon DEF ServeTranslateAddr, Received
    <3>2. Asks(Caller) /\ msg[Caller].label = AddrLabel /\ Caller \in Task
      BY <3>1, Calling, Zenon DEF ServiceInv
    <3>3. \/ Caller = Blk /\ (pc[Blk] \in 1 .. Allocs \/ pc[Blk] > Allocs + 3)
          \/ Caller = Net
      <4>1. AddrLabel # CapLabel /\ AddrLabel # IrqLabel
        BY DEF AddrLabel, CapLabel, IrqLabel
      <4>2. Caller # Kernel
        BY <3>2, <4>1, Zenon DEF Asks
      <4>3. Caller = Blk => pc[Blk] \in 1 .. Allocs \/ pc[Blk] > Allocs + 3
        BY <3>2, <4>1, Zenon DEF Asks
      <4> QED BY <3>2, <4>2, <4>3, Programs, Zenon
    <3>4. /\ root' = root /\ line' = line /\ cspace' = cspace
          /\ pc' = [pc EXCEPT ![Caller] = @ + 1]
      BY <2>6, Zenon DEF ServeTranslateAddr, Reply, devVars, bootVars
    <3>5. /\ pc'[Kernel] = pc[Kernel]
          /\ \/ pc'[Blk] = pc[Blk]
             \/ pc'[Blk] = pc[Blk] + 1 /\ (pc[Blk] \in 1 .. Allocs \/ pc[Blk] > Allocs + 3)
      BY <1>1, <1>2, <3>2, <3>3, <3>4
    <3>6. HandlersOK'
      BY <1>1, <1>2, <3>4, <3>5 DEF HandlersOK
    <3> QED BY <1>3, <3>4, <3>6, Zenon
  <2>7. ASSUME ServeFault PROVE Goal
    BY <1>4, <2>7, Zenon DEF ServeFault, bootVars, taskVars, devVars
  <2> QED BY <1>6, <2>1, <2>2, <2>3, <2>4, <2>5, <2>6, <2>7, Zenon DEF RootStep
<1>7. CASE \E t \in Task : TaskStep(t)
  <2>1. PICK t \in Task : TaskStep(t)
    BY <1>7, Zenon
  <2>2. ASSUME DmaAlloc(t) \/ CallRoot(t) \/ Panic(t) PROVE Goal
    BY <1>4, <2>2, Zenon DEF DmaAlloc, CallRoot, Panic, bootVars, devVars
  <2>a. ASSUME NEW op, At(t, op)
        PROVE  Does(t, pc[t], Program(t)[pc[t]]) /\ Program(t)[pc[t]].op = op
    BY <1>1, <2>a, Doing, Zenon DEF At
  <2>3. ASSUME RecvCap(t) PROVE Goal
    <3>1. At(t, "recv_cap") /\ root.pc = "call" /\ root' = [root EXCEPT !.pc = "wait"]
      BY <2>3, Zenon DEF RecvCap
    <3>2. t = Kernel /\ pc[t] = 2
      BY <1>1, <3>1, Alone, Zenon
    <3>3. cspace[Kernel][RecvSlot] = "none" /\ root.irq = "serial"
      BY <1>1, <3>2 DEF HandlersOK
    <3>4. cspace' = [cspace EXCEPT ![t][RecvSlot] = IF @ = "none" THEN root.irq ELSE @]
      BY <2>3, Zenon DEF RecvCap, RecvSlot
    <3>5. Puts(Kernel, RecvSlot, "serial")
      BY <1>1, <1>2, <3>2, <3>3, <3>4, SMTT(20) DEF Puts
    <3>6. /\ Caps /\ cspace'[Kernel][RecvSlot] = "serial" /\ cspace'[Blk][27] = cspace[Blk][27]
      BY <1>1, <1>2, <3>5, PutSlot
    <3>7. root'.pc = "wait" /\ root'.irq = root.irq
      BY <1>1, <3>1 DEF ServiceTyped
    <3>8. line' = line /\ pc' = [pc EXCEPT ![t] = @ + 1]
      BY <2>3 DEF RecvCap, devVars, Advance
    <3>9. pc'[Kernel] = 3 /\ pc'[Blk] = pc[Blk]
      BY <1>1, <1>2, <3>2, <3>8, SMTT(20)
    <3>10. HandlersOK'
      BY <1>1, <1>2, <3>2, <3>6, <3>7, <3>8, <3>9 DEF HandlersOK
    <3> QED BY <3>6, <3>10
  <2>4. ASSUME ReplyCap(t) PROVE Goal
    <3>1. /\ At(t, "reply_cap") /\ root' = [root EXCEPT !.pc = "recv"] /\ cspace' = cspace
          /\ line' = line /\ pc' = [pc EXCEPT ![t] = @ + 1]
      BY <2>4, Zenon DEF ReplyCap, devVars, Advance
    <3>2. t = Kernel /\ pc[t] = 3
      BY <1>1, <3>1, Alone, Zenon
    <3>3. root'.pc = "recv" /\ root'.irq = root.irq
      BY <1>1, <3>1 DEF ServiceTyped
    <3>4. pc'[Kernel] = 4 /\ pc'[Blk] = pc[Blk]
      BY <1>1, <1>2, <3>1, <3>2
    <3>5. HandlersOK'
      BY <1>1, <1>2, <3>1, <3>2, <3>3, <3>4 DEF HandlersOK
    <3> QED BY <1>3, <3>1, <3>5, Zenon
  <2>b. ASSUME NEW op \in {"bind", "ack", "wait", "submit", "dev_ack"}, At(t, op),
               Advance(t), UNCHANGED <<msg, dma, buf, queue>>
        PROVE  Moves(t) /\ ~At(t, "recv_cap") /\ ~At(t, "reply_cap")
    <3>1. Moves(t)
      BY <2>b, Zenon DEF Moves
    <3>2. op # "recv_cap" /\ op # "reply_cap"
      OBVIOUS
    <3> QED BY <2>b, <3>1, <3>2, Zenon DEF At
  <2>5. ASSUME IrqAck(t) PROVE Goal
    <3>1. /\ At(t, "ack") /\ root' = root /\ cspace' = cspace
          /\ line' = [line EXCEPT ![cspace[t][Arg(t)[1]]] = "on"]
      BY <2>5, Zenon DEF IrqAck, bootVars
    <3>2. Moves(t) /\ ~At(t, "recv_cap") /\ ~At(t, "reply_cap")
      BY <2>5, <2>b, Zenon DEF IrqAck
    <3>3. \/ t = Kernel /\ pc[t] = 5 /\ Arg(t)[1] = RecvSlot
          \/ t = Blk /\ pc[t] > Allocs + 2 /\ Arg(t)[1] = 27
      BY <1>1, <3>1, Alone, Zenon
    <3>4. \/ pc[Kernel] = 5 /\ cspace[t][Arg(t)[1]] = "serial"
          \/ pc[Blk] > Allocs + 2 /\ cspace[t][Arg(t)[1]] = "blk"
      BY <1>1, <1>2, <3>3 DEF HandlersOK
    <3>5. /\ pc[Kernel] <= 3 => line'["serial"] = line["serial"]
          /\ pc[Blk] <= Allocs + 1 => line'["blk"] = line["blk"]
      BY <1>1, <1>2, <3>1, <3>4
    <3>6. HandlersOK'
      BY <1>1, <3>1, <3>2, <3>5, HandlersMove, Zenon
    <3> QED BY <1>3, <3>1, <3>6, Zenon
  <2>6. ASSUME Bind(t) \/ Wait(t) \/ Submit(t) \/ DevAck(t) PROVE Goal
    <3>1. UNCHANGED <<root, cspace, line>>
      BY <2>6, Zenon DEF Bind, Wait, Submit, DevAck, bootVars
    <3>2. Moves(t) /\ ~At(t, "recv_cap") /\ ~At(t, "reply_cap")
      BY <2>6, <2>b, Zenon DEF Bind, Wait, Submit, DevAck
    <3> QED BY <1>5, <3>1, <3>2, Zenon
  <2> QED BY <2>1, <2>2, <2>3, <2>4, <2>5, <2>6, Zenon DEF TaskStep
<1>8. ASSUME NEW l \in Line, Fire(l)
      PROVE  Goal
  <2>1. /\ line[l] = "on" /\ line' = [line EXCEPT ![l] = "masked"]
        /\ UNCHANGED <<pc, root, cspace>>
    BY <1>8, Zenon DEF Fire, bootVars, taskVars
  <2>2. "on" # "off"
    OBVIOUS
  <2>3. /\ line["serial"] = "off" => line'["serial"] = "off"
        /\ line["blk"] = "off" => line'["blk"] = "off"
    BY <1>1, <1>2, <2>1, <2>2, Zenon
  <2>4. HandlersOK'
    BY <1>1, <2>1, <2>3 DEF HandlersOK
  <2> QED BY <1>3, <2>1, <2>4, Zenon
<1>9. CASE Keypress \/ DeviceReads
  BY <1>4, <1>9, Zenon DEF Keypress, DeviceReads, bootVars, taskVars
<1> QED BY <1>6, <1>7, <1>8, <1>9, Zenon DEF Next

(* The reads.                                                              *)

\* The block thread is behind its first wait only once it was signalled.
LEMMA FirstWait ==
  ASSUME ServiceInv, Next, pc[Blk] <= Allocs + 8, pc'[Blk] > Allocs + 8
  PROVE  Blk \in sig
<1>1. /\ Effect(Blk) /\ Allocs \in {1, 2} /\ pc[Blk] \in Nat /\ Blk \in Task /\ alloc \in BlkAllocs
      /\ Blk # Kernel /\ Blk # Net
  <2>1. Blk \in Task /\ Blk # Kernel /\ Blk # Net
    BY Programs
  <2> QED BY <2>1, Effects, Entered, Zenon DEF ServiceInv, ServiceTyped
<1>2. pc[Blk] = Allocs + 8 /\ pc'[Blk] # pc[Blk]
  <2>1. pc'[Blk] = pc[Blk] \/ pc'[Blk] = pc[Blk] + 1 \/ pc'[Blk] = 1
    BY <1>1, Zenon DEF Effect
  <2> QED BY <1>1, <2>1
<1>3. \A op \in {"recv_cap", "reply_cap", "bind", "ack", "submit", "dev_ack"} : ~At(Blk, op)
  <2>1. SUFFICES ASSUME NEW op \in {"recv_cap", "reply_cap", "bind", "ack", "submit", "dev_ack"},
                        At(Blk, op)
                 PROVE  FALSE
    BY Zenon
  <2>2. op # "wait"
    BY <2>1, Zenon
  <2> QED BY <1>1, <1>2, <2>1, <2>2, Alone, Zenon
<1>4. ~Answers
  <2>1. SUFFICES ASSUME Answers
                 PROVE  FALSE
    OBVIOUS
  <2>2. queue # <<>> /\ \E paddr : Reply(paddr)
    BY <2>1, Zenon DEF Answers, Received
  <2>3. Asks(Caller)
    BY <2>2, Calling, Zenon DEF ServiceInv
  <2>4. Caller = Blk
    BY <1>1, <1>2, <2>2, Zenon DEF Reply, ServiceInv, ServiceTyped
  <2>5. pc[Blk] \in 1 .. Allocs \/ pc[Blk] = Allocs + 1 \/ pc[Blk] # Allocs + 8
    BY <2>3, <2>4, Zenon DEF Asks
  <2> QED BY <1>1, <1>2, <2>5
<1>5. ~RunTasks
  <2>1. RunTasks => pc'[Blk] = pc[Blk] \/ pc'[Blk] = 1
    BY <1>1, Zenon DEF RunTasks, ServiceInv, ServiceTyped
  <2> QED BY <1>1, <1>2, <2>1
<1>6. \A t \in Task : Advance(t) => t = Blk
  BY <1>1, <1>2, Zenon DEF Advance, ServiceInv, ServiceTyped
<1>7. ASSUME NEW t \in Task, TaskStep(t)
      PROVE  Blk \in sig
  <2>1. CASE DmaAlloc(t) \/ CallRoot(t) \/ Panic(t)
    BY <1>2, <2>1, Zenon DEF DmaAlloc, CallRoot, Panic
  <2>2. CASE RecvCap(t) \/ ReplyCap(t) \/ Bind(t)
    <3>1. (At(t, "recv_cap") \/ At(t, "reply_cap") \/ At(t, "bind")) /\ Advance(t)
      BY <2>2, ZenonT(30) DEF RecvCap, ReplyCap, Bind
    <3> QED BY <1>3, <1>6, <3>1, Zenon
  <2>3. CASE IrqAck(t) \/ Submit(t) \/ DevAck(t)
    BY <1>3, <1>6, <2>3, Zenon DEF IrqAck, Submit, DevAck
  <2>4. CASE Wait(t)
    BY <1>6, <2>4, Zenon DEF Wait
  <2> QED BY <1>7, <2>1, <2>2, <2>3, <2>4, Zenon DEF TaskStep
<1>8. CASE RootStep
  <2>1. CASE Booting \/ MakeHandler \/ ServeFault
    BY <1>2, <2>1, Zenon DEF Booting, MakeHandler, ServeFault, taskVars
  <2>2. ServeRegisterIRQ \/ ServeWithCap \/ ServeTranslateAddr => Answers
    BY RootAnswers, Zenon
  <2> QED BY <1>4, <1>5, <1>8, <2>1, <2>2, Zenon DEF RootStep
<1>9. CASE (\E l \in Line : Fire(l)) \/ Keypress \/ DeviceReads
  BY <1>2, <1>9, Zenon DEF Fire, Keypress, DeviceReads, taskVars
<1> QED BY <1>7, <1>8, <1>9, Zenon DEF Next

LEMMA ReadsStep ==
  ASSUME ServiceInv, Next
  PROVE  /\ ReadsOK' /\ bound' \in [Line -> SUBSET Task]
         /\ level' \subseteq Line /\ sig' \subseteq Task
         /\ asked' \in Nat /\ read' \in Nat /\ read' <= asked'
<1> DEFINE Typed == /\ bound' \in [Line -> SUBSET Task] /\ level' \subseteq Line /\ sig' \subseteq Task
                    /\ asked' \in Nat /\ read' \in Nat /\ read' <= asked'
           Owners == bound'["serial"] \subseteq {Kernel} /\ bound'["blk"] \subseteq {Blk}
           Signalled == "blk" \in level' \/ Blk \in sig' => read' >= 1
           Goal == Typed /\ Owners /\ Signalled /\ read' >= read
<1>1. /\ bound \in [Line -> SUBSET Task] /\ level \subseteq Line /\ sig \subseteq Task
      /\ asked \in Nat /\ read \in Nat /\ read <= asked
      /\ bound["serial"] \subseteq {Kernel} /\ bound["blk"] \subseteq {Blk}
      /\ "blk" \in level \/ Blk \in sig \/ pc[Blk] > Allocs + 8 => read >= 1
  BY Zenon DEF ServiceInv, ServiceTyped, ReadsOK
<1>2. Line = {"serial", "blk"} /\ "serial" # "blk" /\ Kernel # Blk
  BY Programs DEF Line
<1>3. ASSUME UNCHANGED <<bound, sig, asked, read>>, level' \subseteq level \cup {"serial"}
      PROVE  Goal
  BY <1>1, <1>2, <1>3, SMTT(20)
<1>4. ASSUME NEW t \in Task, Bind(t)
      PROVE  Goal
  <2>1. /\ cspace[t][Arg(t)[1]] \in Line /\ bound' = [bound EXCEPT ![cspace[t][Arg(t)[1]]] = {t}]
        /\ UNCHANGED <<level, sig, asked, read>> /\ At(t, "bind")
    BY <1>4, Zenon DEF Bind
  <2>2. alloc \in BlkAllocs /\ HandlersOK
    BY Zenon DEF ServiceInv, ServiceTyped
  <2>3. \/ t = Kernel /\ pc[t] = 4 /\ Arg(t)[1] = RecvSlot
        \/ t = Blk /\ pc[t] = Allocs + 2 /\ Arg(t)[1] = 27
    BY <2>1, <2>2, Alone, Zenon
  <2>4. cspace[t][Arg(t)[1]] = IF t = Kernel THEN "serial" ELSE "blk"
    <3>1. Allocs \in {1, 2} /\ Kernel # Blk
      BY <2>2, Entered, Programs
    <3>2. /\ cspace[Kernel][RecvSlot] = IF pc[Kernel] <= 2 THEN "none" ELSE "serial"
          /\ cspace[Blk][27] = IF pc[Blk] <= Allocs + 1 THEN "none" ELSE "blk"
      BY <2>2, Zenon DEF HandlersOK
    <3>3. ~(4 <= 2) /\ ~(Allocs + 2 <= Allocs + 1)
      BY <3>1
    <3> QED BY <2>3, <3>1, <3>2, <3>3, Zenon
  <2>5. t = Kernel \/ t = Blk
    BY <2>3, Zenon
  <2>6. bound' = IF t = Kernel THEN [bound EXCEPT !["serial"] = {t}] ELSE [bound EXCEPT !["blk"] = {t}]
    BY <2>1, <2>4, Zenon
  <2>7. bound' \in [Line -> SUBSET Task] /\ Owners
    BY <1>1, <1>2, <2>5, <2>6
  <2> QED BY <1>1, <2>1, <2>7
<1>5. ASSUME NEW t \in Task, Wait(t)
      PROVE  Goal
  <2>1. sig' = sig \ {t} /\ UNCHANGED <<bound, level, asked, read>>
    BY <1>5, Zenon DEF Wait
  <2> QED BY <1>1, <2>1
<1>6. ASSUME NEW t \in Task, Submit(t)
      PROVE  Goal
  <2>1. asked' = asked + 1 /\ UNCHANGED <<bound, level, sig, read>>
    BY <1>6, Zenon DEF Submit
  <2> QED BY <1>1, <2>1
<1>7. ASSUME NEW t \in Task, DevAck(t)
      PROVE  Goal
  <2>1. level' = level \ {"blk"} /\ UNCHANGED <<bound, sig, asked, read>>
    BY <1>7, Zenon DEF DevAck
  <2> QED BY <1>1, <2>1
<1>8. ASSUME NEW l \in Line, Fire(l)
      PROVE  Goal
  <2>1. l \in level /\ sig' = sig \cup bound[l] /\ UNCHANGED <<bound, level, asked, read>>
    BY <1>8, Zenon DEF Fire
  <2>2. bound[l] \subseteq Task /\ (Blk \in bound[l] => l = "blk")
    BY <1>1, <1>2
  <2> QED BY <1>1, <2>1, <2>2
<1>9. ASSUME DeviceReads
      PROVE  Goal
  <2>1. read < asked /\ read' = read + 1 /\ level' = level \cup {"blk"} /\ UNCHANGED <<bound, sig, asked>>
    BY <1>9, Zenon DEF DeviceReads
  <2> QED BY <1>1, <1>2, <2>1
<1>10. Goal
  <2>1. CASE RootStep \/ Keypress
    <3>1. UNCHANGED <<bound, sig, asked, read>> /\ level' \subseteq level \cup {"serial"}
      <4>1. CASE Booting \/ RunTasks \/ MakeHandler \/ Keypress
        BY <4>1, Zenon DEF Booting, RunTasks, MakeHandler, Keypress, devVars
      <4>2. CASE ServeRegisterIRQ \/ ServeWithCap \/ ServeTranslateAddr \/ ServeFault
        BY <4>2, Zenon DEF ServeRegisterIRQ, ServeWithCap, ServeTranslateAddr, ServeFault, devVars
      <4> QED BY <2>1, <4>1, <4>2, Zenon DEF RootStep
    <3> QED BY <1>3, <3>1, Zenon
  <2>2. CASE \E t \in Task : TaskStep(t)
    <3>1. PICK t \in Task : TaskStep(t)
      BY <2>2, Zenon
    <3>2. CASE DmaAlloc(t) \/ CallRoot(t) \/ Panic(t)
      BY <1>3, <3>2, Zenon DEF DmaAlloc, CallRoot, Panic, devVars
    <3>3. CASE RecvCap(t) \/ ReplyCap(t) \/ IrqAck(t)
      <4>1. UNCHANGED <<bound, sig, asked, read>> /\ level' = level
        BY <3>3, ZenonT(30) DEF RecvCap, ReplyCap, IrqAck, devVars
      <4> QED BY <1>3, <4>1, Zenon
    <3> QED BY <1>4, <1>5, <1>6, <1>7, <3>1, <3>2, <3>3, Zenon DEF TaskStep
  <2> QED BY <1>8, <1>9, <2>1, <2>2, Zenon DEF Next
<1>11. pc'[Blk] > Allocs' + 8 => read' >= 1
  <2>1. Allocs' = Allocs /\ Allocs \in Nat /\ pc[Blk] \in Nat
    <3>1. Allocs' = Allocs /\ Allocs \in {1, 2} /\ Blk \in Task
      BY Kinds, SameProgram, Entered, Programs, Zenon DEF ServiceInv, ServiceTyped
    <3>2. 1 \in Nat /\ 2 \in Nat
      OBVIOUS
    <3> QED BY <3>1, <3>2, Zenon DEF ServiceInv, ServiceTyped
  <2>2. pc'[Blk] > Allocs' + 8 => pc[Blk] > Allocs + 8 \/ Blk \in sig
    BY <2>1, FirstWait
  <2> QED BY <1>1, <1>10, <2>2
<1> QED BY <1>10, <1>11, Zenon DEF ReadsOK

LEMMA LineStep ==
  ASSUME ServiceInv, Next
  PROVE  line' \in [Line -> {"off", "on", "masked"}]
<1>1. line \in [Line -> {"off", "on", "masked"}]
  BY Zenon DEF ServiceInv, ServiceTyped
<1>2. UNCHANGED line \/ \E l, v : v \in {"on", "masked"} /\ line' = [line EXCEPT ![l] = v]
  <2>1. CASE RootStep
    <3>1. CASE Booting \/ RunTasks \/ MakeHandler
      BY <3>1, Zenon DEF Booting, RunTasks, MakeHandler, Issue, devVars
    <3>2. CASE ServeRegisterIRQ \/ ServeWithCap \/ ServeTranslateAddr \/ ServeFault
      BY <3>2, Zenon DEF ServeRegisterIRQ, ServeWithCap, ServeTranslateAddr, ServeFault, Issue, devVars
    <3> QED BY <2>1, <3>1, <3>2, Zenon DEF RootStep
  <2>2. CASE \E t \in Task : TaskStep(t)
    <3>1. PICK t \in Task : TaskStep(t)
      BY <2>2, Zenon
    <3>2. CASE DmaAlloc(t) \/ CallRoot(t) \/ Panic(t) \/ RecvCap(t) \/ ReplyCap(t)
      BY <3>2, ZenonT(30) DEF DmaAlloc, CallRoot, Panic, RecvCap, ReplyCap, devVars
    <3>3. CASE Bind(t) \/ IrqAck(t) \/ Wait(t) \/ Submit(t) \/ DevAck(t)
      BY <3>3, Zenon DEF Bind, IrqAck, Wait, Submit, DevAck
    <3> QED BY <3>1, <3>2, <3>3, Zenon DEF TaskStep
  <2>3. CASE (\E l \in Line : Fire(l)) \/ Keypress \/ DeviceReads
    BY <2>3, Zenon DEF Fire, Keypress, DeviceReads
  <2> QED BY <2>1, <2>2, <2>3, Zenon DEF Next
<1> QED BY <1>1, <1>2

(* The buffers of the net thread.                                          *)

\* The start-up is over, or this is a step of it.
LEMMA AfterBoot ==
  ASSUME Next
  PROVE  Booting \/ UNCHANGED <<allocVars, memVars>>
<1>1. CASE RootStep
  <2>1. CASE RunTasks \/ MakeHandler
    BY <2>1, Zenon DEF RunTasks, MakeHandler
  <2>2. CASE ServeRegisterIRQ \/ ServeWithCap
    BY <2>2, Zenon DEF ServeRegisterIRQ, ServeWithCap
  <2>3. CASE ServeTranslateAddr \/ ServeFault
    BY <2>3, Zenon DEF ServeTranslateAddr, ServeFault, bootVars
  <2> QED BY <1>1, <2>1, <2>2, <2>3, Zenon DEF RootStep
<1>2. CASE \E t \in Task : TaskStep(t)
  <2>1. PICK t \in Task : TaskStep(t)
    BY <1>2, Zenon
  <2>2. CASE DmaAlloc(t) \/ CallRoot(t) \/ Panic(t) \/ RecvCap(t) \/ ReplyCap(t)
    BY <2>2, ZenonT(30) DEF DmaAlloc, CallRoot, Panic, RecvCap, ReplyCap, bootVars
  <2>3. CASE Bind(t) \/ IrqAck(t) \/ Wait(t) \/ Submit(t) \/ DevAck(t)
    BY <2>3, Zenon DEF Bind, IrqAck, Wait, Submit, DevAck, bootVars
  <2> QED BY <2>1, <2>2, <2>3, Zenon DEF TaskStep
<1>3. CASE (\E l \in Line : Fire(l)) \/ Keypress \/ DeviceReads
  BY <1>3, Zenon DEF Fire, Keypress, DeviceReads, bootVars
<1> QED BY <1>1, <1>2, <1>3, Zenon DEF Next

LEMMA BuffersStep ==
  ASSUME at \in [Slot -> Nat], page \in [Task -> [Page -> Slot \cup {0}]], ServiceInv, Next
  PROVE  BuffersOK'
<1>1. /\ Effect(Net) /\ pc[Net] \in Nat /\ Net \in Task /\ alloc \in BlkAllocs
      /\ BuffersOK /\ buf = [t \in Task |-> buf[t]] /\ Net # Blk /\ Net # Kernel
  BY Effects, Programs DEF ServiceInv, ServiceTyped
<1>2. CASE Booting
  <2>1. root.pc = "boot" /\ pc' = pc /\ buf' = buf
    <3>1. Boot /\ UNCHANGED taskVars
      BY <1>2, Zenon DEF Booting
    <3>2. root.pc = "boot"
      BY <3>1, Zenon DEF Boot, BootOrigin, BootObject, BootNormalCap, BootSlot, BootTable, BootTake,
         BootCopy, BootMissingTable, BootMap, BootDevice, BootGive, BootNext, BootDone, Step
    <3> QED BY <3>1, <3>2, Zenon DEF taskVars
  <2>2. pc[Net] = 0
    <3>1. StartOK /\ Net >= Kernel
      BY Programs DEF ServiceInv
    <3> QED BY <1>1, <2>1, <3>1 DEF StartOK
  <2> QED BY <1>1, <2>1, <2>2, Zenon DEF BuffersOK
<1>3. CASE UNCHANGED <<allocVars, memVars>>
  <2>1. NetBuffer' = NetBuffer
    BY <1>3, Zenon DEF NetBuffer, allocVars, memVars
  <2>2. buf[Net] \in Seq(NetBuffer)
    <3>1. <<>> \in Seq(NetBuffer)
      OBVIOUS
    <3> QED BY <1>1, <3>1, Zenon DEF BuffersOK
  <2>3. pc'[Net] = 0 => pc[Net] = 0 /\ buf'[Net] = buf[Net]
    BY <1>1 DEF Effect
  <2>4. SUFFICES buf'[Net] \in Seq(NetBuffer)
    BY <1>1, <2>1, <2>3, Zenon DEF BuffersOK
  <2>5. CASE buf'[Net] = buf[Net]
    BY <2>2, <2>5, Zenon
  <2>6. CASE ServeTranslateAddr /\ Caller = Net /\ buf'[Net] # buf[Net]
    <3> DEFINE e == Program(Net)[pc[Net]]
               p == DmaPage(Net, pc[Net])
    <3>1. /\ queue # <<>> /\ Mapped(Net, Regs[1])
          /\ Reply(at[page[Net][PageOf(Regs[1])]] + (Regs[1] % PageSize))
      BY <2>6, Zenon DEF ServeTranslateAddr, Received
    <3>2. /\ e.op = "dma"
          /\ buf'[Net] = Append(buf[Net], [first |-> Regs[1] \div PageSize, pages |-> e.x[1],
                          paddr |-> at[page[Net][PageOf(Regs[1])]] + (Regs[1] % PageSize)])
      BY <1>1, <2>6, <3>1, Zenon DEF Reply, Arg
    <3>3. Blocked(Net)
      BY <2>6, <3>1, Calling, Zenon DEF ServiceInv
    <3>4. pc[Net] \in 1 .. Len(Program(Net)) /\ Regs = <<p * PageSize>>
      <4>1. pc[Net] \in 1 .. Len(Program(Net)) /\ msg[Net].regs = <<p * PageSize>>
        <5>1. e.op # "call" /\ e.op # "panic"
          BY <3>2
        <5>2. /\ pc[Net] \in 1 .. Len(Program(Net))
              /\ msg[Net] = [label |-> ToLabel("root", 2), regs |-> <<p * PageSize>>]
          BY <3>3, <5>1, Zenon DEF Blocked
        <5> QED BY <5>2
      <4> QED BY <2>6, <4>1, Zenon DEF Regs
    <3>5. e.x[1] = 2 /\ pc[Net] \in {1, 2}
      <4>1. Does(Net, pc[Net], e)
        BY <1>1, <3>4, Doing, Zenon
      <4> QED BY <1>1, <3>2, <4>1, Zenon DEF Does
    <3>6. p \in {DmaStart + 1, DmaStart + 3} /\ p \in Nat
      BY <3>5, Numbers DEF DmaPage
    <3>7. PageOf(Regs[1]) = p /\ Regs[1] \div PageSize = p /\ Regs[1] % PageSize = 0
      <4> HIDE DEF p
      <4>1. /\ (p * PageSize + 0) \div PageSize = p /\ (p * PageSize + 0) % PageSize = 0
            /\ p * PageSize \in Nat
        <5>1. 0 \in 0 .. PageSize - 1 /\ PageSize \in Nat \ {0}
          BY Numbers
        <5>2. (p * PageSize + 0) \div PageSize = p /\ (p * PageSize + 0) % PageSize = 0
          BY <3>6, <5>1, Quotient, Zenon
        <5> QED BY <3>6, <5>1, <5>2
      <4>2. Regs[1] = p * PageSize
        BY <3>4
      <4> QED BY <4>1, <4>2 DEF PageOf
    <3>8. at[page[Net][p]] \in Nat
      <4>1. p \in Page /\ page[Net][p] # 0
        BY <3>1, <3>7, Zenon DEF Mapped
      <4> QED BY <1>1, <4>1
    <3>9. [first |-> p, pages |-> 2, paddr |-> at[page[Net][p]]] \in NetBuffer
      BY <3>6, Zenon DEF NetBuffer
    <3>10. buf'[Net] = Append(buf[Net], [first |-> p, pages |-> 2, paddr |-> at[page[Net][p]]])
      BY <3>2, <3>5, <3>7, <3>8
    <3>11. \A S : \A b \in Seq(S), x \in S : Append(b, x) \in Seq(S)
      OBVIOUS
    <3> QED BY <2>2, <3>9, <3>10, <3>11, Zenon
  <2>7. (ServeTranslateAddr /\ Caller = Net) \/ buf'[Net] = buf[Net]
    <3>1. CASE RootStep
      <4>1. CASE Booting \/ RunTasks \/ MakeHandler \/ ServeFault
        BY <4>1, Zenon DEF Booting, RunTasks, MakeHandler, ServeFault, taskVars
      <4>2. CASE ServeRegisterIRQ \/ ServeWithCap \/ ServeTranslateAddr
        <5>1. queue # <<>> /\ \E paddr : Reply(paddr)
          BY <4>2, RootAnswers, Zenon DEF Answers, Received
        <5>2. ServeTranslateAddr \/ Caller = Blk \/ Caller = Kernel
          BY <4>2, <5>1, Calling, Zenon DEF ServeRegisterIRQ, ServeWithCap, ServiceInv
        <5> QED BY <1>1, <5>1, <5>2, Zenon DEF Reply
      <4> QED BY <3>1, <4>1, <4>2, Zenon DEF RootStep
    <3>2. CASE \E t \in Task : TaskStep(t)
      <4>1. PICK t \in Task : TaskStep(t)
        BY <3>2, Zenon
      <4>2. CASE DmaAlloc(t) \/ CallRoot(t) \/ Panic(t) \/ RecvCap(t) \/ ReplyCap(t)
        BY <4>2, Zenon DEF DmaAlloc, CallRoot, Panic, RecvCap, ReplyCap
      <4>3. CASE Bind(t) \/ IrqAck(t) \/ Wait(t) \/ Submit(t) \/ DevAck(t)
        BY <4>3, Zenon DEF Bind, IrqAck, Wait, Submit, DevAck
      <4> QED BY <4>1, <4>2, <4>3, Zenon DEF TaskStep
    <3>3. CASE (\E l \in Line : Fire(l)) \/ Keypress \/ DeviceReads
      BY <3>3, Zenon DEF Fire, Keypress, DeviceReads, taskVars
    <3> QED BY <3>1, <3>2, <3>3, Zenon DEF Next
  <2> QED BY <2>5, <2>6, <2>7, Zenon
<1> QED BY <1>2, <1>3, AfterBoot, Zenon

(* The invariant of the services.                                          *)

LEMMA ServicesInit == ServiceInit => ServiceInv
<1> SUFFICES ASSUME ServiceInit
             PROVE  ServiceInv
  OBVIOUS
<1>1. /\ cspace = [t \in Task |-> [c \in TaskSlot |-> "none"]]
      /\ root = [pc |-> "boot", who |-> Kernel, irq |-> "none"]
  BY Zenon DEF ServiceInit, BootInit
<1>2. /\ pc = [t \in Task |-> 0] /\ msg = [t \in Task |-> NoMsg] /\ queue = <<>>
      /\ dma = [t \in Task |-> DmaFirst(t)] /\ buf = [t \in Task |-> <<>>]
      /\ alloc \in BlkAllocs
  BY Zenon DEF ServiceInit
<1>3. /\ line = [l \in Line |-> "off"] /\ bound = [l \in Line |-> {}]
      /\ level = {} /\ sig = {} /\ asked = 0 /\ read = 0
  BY Zenon DEF ServiceInit
<1>4. /\ Kernel \in Task /\ Blk \in Task /\ Net \in Task /\ Blk # Net /\ Kernel # Blk
      /\ RecvSlot \in TaskSlot /\ 27 \in TaskSlot /\ "serial" \in Line /\ "blk" \in Line
      /\ Allocs \in {1, 2}
  <2>1. Kernel \in Task /\ Blk \in Task /\ Net \in Task /\ Blk # Net /\ Kernel # Blk
    BY Programs
  <2>2. RecvSlot \in TaskSlot /\ 27 \in TaskSlot /\ "serial" \in Line /\ "blk" \in Line
    BY DEF TaskSlot, RecvSlot, Line
  <2>3. Allocs \in {1, 2}
    BY <1>2, Entered, Zenon
  <2> QED BY <2>1, <2>2, <2>3, Zenon
<1>5. /\ pc \in [Task -> Nat] /\ \A t \in Task : pc[t] = 0 /\ msg[t] = NoMsg /\ buf[t] = <<>>
  BY <1>2
<1>6. ServiceTyped
  <2>1. \A t \in Task : Len(Program(t)) \in Nat
    BY <1>2, Entered
  <2>2. \A t \in Task : pc[t] <= Len(Program(t)) + 1
    BY <1>5, <2>1
  <2>3. /\ root = [pc |-> root.pc, who |-> root.who, irq |-> root.irq]
        /\ root.pc \in RootPc /\ root.who \in Task
    BY <1>1, <1>4 DEF RootPc
  <2>4. /\ cspace = [t \in Task |-> [c \in TaskSlot |-> cspace[t][c]]]
        /\ msg = [t \in Task |-> msg[t]] /\ queue \in Seq(Task)
    BY <1>1, <1>2
  <2>5. dma = [t \in Task |-> dma[t]] /\ buf = [t \in Task |-> buf[t]]
    BY <1>2, Zenon
  <2>6. /\ line \in [Line -> {"off", "on", "masked"}] /\ bound \in [Line -> SUBSET Task]
        /\ level \subseteq Line /\ sig \subseteq Task
        /\ asked \in Nat /\ read \in Nat /\ read <= asked
    BY <1>3
  <2> QED BY <1>2, <1>5, <2>2, <2>3, <2>4, <2>5, <2>6, Zenon DEF ServiceTyped
<1>7. QueueOK /\ MessagesOK
  BY <1>2, <1>5 DEF QueueOK, MessagesOK
<1>8. StartOK
  BY <1>1, <1>5, SMTT(20) DEF StartOK
<1>9. HandlersOK
  BY <1>1, <1>3, <1>4, <1>5, SMTT(20) DEF HandlersOK
<1>10. ReadsOK
  BY <1>3, <1>4, <1>5 DEF ReadsOK
<1>11. DmaAddrOK
  <2>1. \A t \in {Blk, Net} : dma[t] = DmaPage(t, 1) * PageSize /\ pc[t] = 0
    BY <1>2, <1>4, Numbers DEF DmaPage, DmaFirst
  <2>2. \A t \in {Blk, Net} : pc[t] \notin 1 .. Len(Program(t))
    BY <2>1
  <2> QED BY <2>1, <2>2, Zenon DEF DmaAddrOK
<1>12. BuffersOK
  BY <1>4, <1>5, Zenon DEF BuffersOK
<1> QED BY <1>6, <1>7, <1>8, <1>9, <1>10, <1>11, <1>12, Zenon DEF ServiceInv

LEMMA ServicesStep ==
  ASSUME GivesApart, at \in [Slot -> Nat], page \in [Task -> [Page -> Slot \cup {0}]],
         ServiceInv, Next
  PROVE  ServiceInv'
<1>1. QueueOK' /\ queue' \in Seq(Task) /\ msg' = [t \in Task |-> msg'[t]]
  BY QueueStep, Zenon DEF ServiceInv
<1>2. MessagesOK' /\ DmaAddrOK' /\ BuffersOK'
  BY MessagesStep, DmaAddrStep, BuffersStep, Zenon
<1>3. StartOK' /\ HandlersOK' /\ ReadsOK'
  BY StartStep, HandlersStep, ReadsStep, Zenon
<1>4. ServiceTyped'
  <2>1. /\ root' = [pc |-> root'.pc, who |-> root'.who, irq |-> root'.irq]
        /\ root'.pc \in RootPc /\ root'.who \in Task
    BY RootSteps, StartStep, Zenon
  <2>2. /\ cspace' = [t \in Task |-> [c \in TaskSlot |-> cspace'[t][c]]]
        /\ alloc' \in BlkAllocs
    BY HandlersStep, Kinds, Zenon DEF ServiceInv, ServiceTyped
  <2>3. /\ pc' \in [Task -> Nat] /\ \A t \in Task : pc'[t] <= Len(Program(t)') + 1
        /\ dma' = [t \in Task |-> dma'[t]] /\ buf' = [t \in Task |-> buf'[t]]
    BY PcStep, Effects, Zenon
  <2>4. /\ line' \in [Line -> {"off", "on", "masked"}] /\ bound' \in [Line -> SUBSET Task]
        /\ level' \subseteq Line /\ sig' \subseteq Task
        /\ asked' \in Nat /\ read' \in Nat /\ read' <= asked'
    BY LineStep, ReadsStep, Zenon
  <2> QED BY <1>1, <2>1, <2>2, <2>3, <2>4, Zenon DEF ServiceTyped
<1> QED BY <1>1, <1>2, <1>3, <1>4, Zenon DEF ServiceInv

LEMMA ServicesSame ==
  ASSUME ServiceInv, UNCHANGED vars
  PROVE  ServiceInv'
<1>1. /\ UNCHANGED <<at, page, root, cspace, pc, msg, dma, buf, alloc, queue>>
      /\ UNCHANGED <<line, bound, level, sig, asked, read>>
  BY Zenon DEF vars, allocVars, bootVars, memVars, taskVars, devVars
<1>2. (\A t \in Task : Program(t)' = Program(t)) /\ Allocs' = Allocs
  BY <1>1, SameProgram, Zenon
<1>3. ServiceTyped' /\ QueueOK'
  BY <1>1, <1>2, Zenon DEF ServiceInv, ServiceTyped, QueueOK
<1>4. MessagesOK' /\ StartOK'
  BY <1>1, <1>2, ZenonT(30) DEF ServiceInv, MessagesOK, Blocked, StartOK, DmaPage
<1>5. HandlersOK' /\ ReadsOK'
  BY <1>1, <1>2 DEF ServiceInv, HandlersOK, ReadsOK
<1>6. DmaAddrOK'
  <2>1. Blk \in Task /\ Net \in Task
    BY Programs
  <2> QED BY <1>1, <1>2, <2>1, Zenon DEF ServiceInv, DmaAddrOK, DmaPage
<1>7. BuffersOK'
  BY <1>1, Zenon DEF ServiceInv, BuffersOK, NetBuffer
<1> QED BY <1>3, <1>4, <1>5, <1>6, <1>7, Zenon DEF ServiceInv

(* What follows from the invariant.                                        *)

\* The pages the drivers use, in their address spaces.
PagesThere ==
  /\ \A j \in 1 .. BlkDma : page[Blk][DmaStart + j - 1] # 0
  /\ \A j \in 1 .. NetDma : page[Net][DmaStart + j - 1] # 0
  /\ \A j \in 1 .. StackPages : page[Blk][StackTop - StackPages + j - 1] # 0
  /\ \A p \in ImageFirst(image[Net]) .. ImageEnd(image[Net]) - 1 : p \in Page /\ page[Net][p] # 0

PagesJoined == \A j \in 2 .. NetDma - 1 : Joined(Net, DmaStart + j - 1)

\* Page q of an address a.
LEMMA PageNumber ==
  ASSUME NEW f \in Nat, NEW e \in Nat, NEW a \in f * PageSize .. e * PageSize - 1
  PROVE  /\ a \in Nat /\ a \div PageSize \in f .. e - 1 /\ a % PageSize \in 0 .. PageSize - 1
         /\ (a \div PageSize) * PageSize + (a % PageSize) = a
<1> DEFINE q == a \div PageSize
           o == a % PageSize
<1>0. PageSize \in Nat \ {0}
  BY Numbers
<1>1. f * PageSize \in Nat /\ e * PageSize \in Nat
  BY <1>0
<1>2. a \in Nat /\ f * PageSize <= a /\ a < e * PageSize
  BY <1>1
<1>3. q \in Nat /\ o \in 0 .. PageSize - 1 /\ a = PageSize * q + o
  BY <1>0, <1>2, Division, Zenon
<1> HIDE DEF q, o
<1>4. PageSize * q = q * PageSize /\ q * PageSize \in Nat
  BY <1>0, <1>3
<1>5. f <= q
  <2> SUFFICES ASSUME q + 1 <= f
               PROVE  FALSE
    BY <1>3
  <2>1. q + 1 \in Nat
    BY <1>3
  <2>2. (q + 1) * PageSize <= f * PageSize
    BY <1>0, <2>1, TimesMonotone
  <2>3. (q + 1) * PageSize = q * PageSize + PageSize
    BY <1>0, <1>3
  <2> QED BY <1>0, <1>1, <1>2, <1>3, <1>4, <2>2, <2>3
<1>6. q <= e - 1
  <2> SUFFICES ASSUME e <= q
               PROVE  FALSE
    BY <1>3
  <2>1. e * PageSize <= q * PageSize
    BY <1>0, <1>3, TimesMonotone
  <2> QED BY <1>0, <1>1, <1>2, <1>3, <1>4, <2>1
<1>7. q * PageSize + o = a /\ q \in f .. e - 1
  BY <1>3, <1>4, <1>5, <1>6
<1> QED BY <1>2, <1>3, <1>7 DEF q, o

\* The pages of a buffer of the net thread's driver lie next to each other.
LEMMA BuffersJoined ==
  ASSUME ServiceInv, root.pc # "boot" => PagesThere /\ PagesJoined
  PROVE  NetDmaContiguous
<1> SUFFICES ASSUME NEW i \in 1 .. Len(buf[Net])
             PROVE  LET b == buf[Net][i]
                    IN  /\ b.paddr = at[page[Net][b.first]]
                        /\ \A p \in b.first .. b.first + b.pages - 1 : page[Net][p] # 0
                        /\ \A p \in b.first .. b.first + b.pages - 2 : Joined(Net, p)
  BY Zenon DEF NetDmaContiguous
<1> DEFINE b == buf[Net][i]
<1>1. BuffersOK /\ StartOK /\ root.who \in Task
  BY Zenon DEF ServiceInv, ServiceTyped
<1>2. pc[Net] # 0
  BY <1>1 DEF BuffersOK
<1>3. b \in NetBuffer
  BY <1>1, <1>2 DEF BuffersOK
<1>4. PICK f \in {DmaStart + 1, DmaStart + 3} : b = [first |-> f, pages |-> 2, paddr |-> at[page[Net][f]]]
  BY <1>3, Zenon DEF NetBuffer
<1>5. b.first = f /\ b.pages = 2 /\ b.paddr = at[page[Net][f]]
  BY <1>4
<1>6. PagesThere /\ PagesJoined
  <2>1. root.pc = "boot" => root.who = Kernel /\ Net >= Kernel /\ Net \in Task
    BY <1>1, Programs DEF StartOK
  <2> QED BY <1>1, <1>2, <2>1 DEF StartOK
<1>7. PICK j \in {2, 4} : f = DmaStart + j - 1
  BY <1>4, Numbers
<1>8. j \in 1 .. NetDma /\ j + 1 \in 1 .. NetDma /\ j \in 2 .. NetDma - 1
  BY <1>7, ServiceAssumption, Numbers
<1>9. page[Net][f] # 0 /\ page[Net][DmaStart + (j + 1) - 1] # 0 /\ Joined(Net, f)
  BY <1>6, <1>7, <1>8, Zenon DEF PagesThere, PagesJoined
<1>10. DmaStart + (j + 1) - 1 = f + 1 /\ f \in Nat
  BY <1>7, Numbers
<1>11. /\ \A p \in b.first .. b.first + b.pages - 1 : p = f \/ p = f + 1
       /\ \A p \in b.first .. b.first + b.pages - 2 : p = f
  BY <1>5, <1>10
<1>12. page[Net][f + 1] # 0
  BY <1>9, <1>10, Zenon
<1> QED BY <1>5, <1>9, <1>11, <1>12, Zenon

LEMMA ReadBefore ==
  ASSUME ServiceInv
  PROVE  FirstReadDone
<1> SUFFICES ASSUME NEW i \in 1 .. pc[Blk] - 1, BlkProgram[alloc][i].op = "dev_ack"
             PROVE  read >= 1
  BY Zenon DEF FirstReadDone
<1>1. ReadsOK /\ alloc \in BlkAllocs /\ pc \in [Task -> Nat] /\ pc[Blk] <= Len(Program(Blk)) + 1
  BY Programs, SMTT(20) DEF ServiceInv, ServiceTyped
<1>2. pc[Blk] \in Nat /\ Len(Program(Blk)) \in Nat /\ Blk \in Task /\ Allocs \in {1, 2}
  BY <1>1, Programs, Entered
<1>3. i \in 1 .. Len(Program(Blk)) /\ i < pc[Blk]
  BY <1>1, <1>2
<1>4. Does(Blk, i, Program(Blk)[i])
  BY <1>1, <1>2, <1>3, Doing, Zenon
<1>5. i \in {Allocs + 10, Allocs + 17}
  BY <1>4, Programs, Zenon DEF Does
<1>6. pc[Blk] > Allocs + 8
  BY <1>2, <1>3, <1>5
<1> QED BY <1>1, <1>6, Zenon DEF ReadsOK

LEMMA FaultKept ==
  ASSUME ServiceInv, Next, NEW t \in Task, msg[t].label \in FaultLabels
  PROVE  pc'[t] = pc[t] /\ msg'[t] = msg[t]
<1>1. ServiceInv /\ Effect(t)
  BY Effects, Zenon
<1>2. msg[t].label \in 1 .. 15
  BY ServiceAssumption, Zenon
<1>3. msg[t] # NoMsg
  BY <1>2 DEF NoMsg
<1>4. ~(Answers /\ t = Caller)
  <2>1. Answers => queue # <<>> /\ \E name : Received(name) /\ name # "None"
    BY Zenon DEF Answers, Received
  <2>2. Answers => msg[Caller].label >= IrqLabel
    BY <1>1, <2>1, Calling, Zenon DEF ServiceInv
  <2>3. ~(msg[t].label >= IrqLabel)
    BY <1>2 DEF IrqLabel
  <2> QED BY <2>2, <2>3, Zenon
<1> QED BY <1>1, <1>3, <1>4, Zenon DEF Effect

\* Every address that is asked about lies in a page that was mapped.
LEMMA AskedMapped ==
  ASSUME ServiceInv, image \in Images, PagesThere, Received("TranslateAddr")
  PROVE  Mapped(Caller, Regs[1])
<1>1. queue # <<>>
  BY Zenon DEF Received
<1>2. msg[Caller].label = AddrLabel /\ Asks(Caller) /\ Caller \in Task
  BY <1>1, Calling, Zenon DEF ServiceInv
<1>3. /\ Kernel \in Task /\ Blk \in Task /\ Net \in Task /\ Blk # Kernel /\ Net # Kernel /\ Net # Blk
      /\ alloc \in BlkAllocs /\ Task = {Kernel, Blk, Net} /\ Net + 2 = 4 /\ Allocs \in {1, 2}
  BY <1>1, Programs, Entered DEF ServiceInv, ServiceTyped
<1>4. PageSize \in Nat \ {0} /\ PageSize >= 2 /\ BlkDma >= 2 /\ NetDma >= 5 /\ StackPages >= 2
  BY ServiceAssumption, Numbers
<1> DEFINE There(t, p) == p \in Page /\ page[t][p] # 0
<1>5. ASSUME NEW p \in Nat, NEW r \in 0 .. PageSize - 1, Regs[1] = p * PageSize + r, There(Caller, p)
      PROVE  Mapped(Caller, Regs[1])
  <2>1. (p * PageSize + r) \div PageSize = p
    BY <1>4, <1>5, Quotient, Zenon
  <2> QED BY <1>5, <2>1, Zenon DEF Mapped, PageOf
<1>6. /\ \A j \in 1 .. BlkDma : page[Blk][DmaStart + j - 1] # 0
      /\ \A j \in 1 .. NetDma : page[Net][DmaStart + j - 1] # 0
      /\ \A j \in 1 .. StackPages : page[Blk][StackTop - StackPages + j - 1] # 0
  BY Zenon DEF PagesThere
<1>7. CASE Caller = Blk /\ pc[Blk] \in 1 .. Allocs /\ Regs = <<DmaPage(Blk, pc[Blk]) * PageSize>>
  <2> DEFINE p == DmaPage(Blk, pc[Blk])
  <2>1. pc[Blk] \in 1 .. BlkDma /\ pc[Blk] \in Nat
    BY <1>3, <1>4, <1>7, Numbers
  <2>2. p = DmaStart + pc[Blk] - 1 /\ p \in Nat /\ p \in Page
    BY <1>3, <2>1, Numbers DEF DmaPage, Page
  <2> HIDE DEF p
  <2>3. There(Blk, p)
    BY <1>6, <2>1, <2>2, Zenon
  <2>4. Regs[1] = p * PageSize + 0 /\ 0 \in 0 .. PageSize - 1
    <3>1. p * PageSize \in Nat
      BY <1>4, <2>2
    <3> QED BY <1>4, <1>7, <3>1 DEF p
  <2> QED BY <1>5, <1>7, <2>2, <2>3, <2>4, Zenon
<1>8. CASE Caller = Blk /\ \E a \in StackAddrs : Regs = <<a>>
  <2>1. /\ StackTop - 1 \in Nat /\ StackTop - 2 \in Nat
        /\ There(Blk, StackTop - 1) /\ There(Blk, StackTop - 2)
    <3>1. /\ StackTop - StackPages + StackPages - 1 = StackTop - 1 /\ StackPages \in 1 .. StackPages
          /\ StackTop - StackPages + (StackPages - 1) - 1 = StackTop - 2
          /\ StackPages - 1 \in 1 .. StackPages
          /\ StackTop - 1 \in Nat /\ StackTop - 2 \in Nat
          /\ StackTop - 1 \in Page /\ StackTop - 2 \in Page
      BY <1>4, Numbers DEF Page
    <3> QED BY <1>6, <3>1, ZenonT(30)
  <2>2. PICK a \in StackAddrs : Regs[1] = a
    BY <1>8
  <2>3. a = (StackTop - 1) * PageSize \/ a = (StackTop - 1) * PageSize + 1
        \/ a = (StackTop - 1) * PageSize - PageSize
    BY Zenon DEF StackAddrs
  <2>4. /\ (StackTop - 1) * PageSize \in Nat /\ (StackTop - 2) * PageSize \in Nat
        /\ (StackTop - 1) * PageSize - PageSize = (StackTop - 2) * PageSize
    <3>1. StackTop \in Int /\ PageSize \in Int
      BY Numbers
    <3>2. (StackTop - 1) * PageSize - PageSize = (StackTop - 2) * PageSize
      BY <3>1
    <3>3. (StackTop - 1) * PageSize \in Nat /\ (StackTop - 2) * PageSize \in Nat
      BY <1>4, <2>1
    <3> QED BY <3>2, <3>3
  <2>5. \/ Regs[1] = (StackTop - 1) * PageSize + 0
        \/ Regs[1] = (StackTop - 1) * PageSize + 1
        \/ Regs[1] = (StackTop - 2) * PageSize + 0
    BY <2>2, <2>3, <2>4
  <2>6. 0 \in 0 .. PageSize - 1 /\ 1 \in 0 .. PageSize - 1
    BY <1>4
  <2> QED BY <1>5, <1>8, <2>1, <2>5, <2>6, Zenon
<1>9. CASE Caller = Net /\ pc[Net] \in {1, 2} /\ Regs = <<DmaPage(Net, pc[Net]) * PageSize>>
  <2> DEFINE p == DmaPage(Net, pc[Net])
  <2>1. 2 * pc[Net] \in 1 .. NetDma /\ pc[Net] \in Nat
    BY <1>4, <1>9, Numbers
  <2>2. p = DmaStart + 2 * pc[Net] - 1 /\ p \in Nat /\ p \in Page
    BY <2>1, Numbers DEF DmaPage, Page
  <2> HIDE DEF p
  <2>3. There(Net, p)
    BY <1>6, <2>1, <2>2, Zenon
  <2>4. Regs[1] = p * PageSize + 0 /\ 0 \in 0 .. PageSize - 1
    <3>1. p * PageSize \in Nat
      BY <1>4, <2>2
    <3> QED BY <1>4, <1>9, <3>1 DEF p
  <2> QED BY <1>5, <1>9, <2>2, <2>3, <2>4, Zenon
<1>10. CASE Caller = Net /\ Regs = <<NetHeap>>
  <2>1. FirstPage(NetHeap) \in ImageFirst(image[Net]) .. ImageEnd(image[Net]) - 1
    BY ServiceAssumption, Zenon
  <2>2. Regs[1] = NetHeap
    BY <1>10
  <2>3. PageOf(Regs[1]) = FirstPage(NetHeap)
    BY <2>2, Zenon DEF PageOf, FirstPage
  <2> QED BY <1>10, <2>1, <2>3, Zenon DEF Mapped, PagesThere
<1>11. \/ Caller = Blk /\ pc[Blk] \in 1 .. Allocs /\ Regs = <<DmaPage(Blk, pc[Blk]) * PageSize>>
       \/ Caller = Blk /\ \E a \in StackAddrs : Regs = <<a>>
       \/ Caller = Net /\ pc[Net] \in {1, 2} /\ Regs = <<DmaPage(Net, pc[Net]) * PageSize>>
       \/ Caller = Net /\ Regs = <<NetHeap>>
  <2>0. AddrLabel # CapLabel /\ AddrLabel # IrqLabel /\ AddrLabel \notin FaultLabels
    BY ServiceAssumption DEF AddrLabel, CapLabel, IrqLabel
  <2>1. Caller # Kernel /\ (Caller = Blk => msg[Caller].label # IrqLabel)
    BY <1>2, <2>0, Zenon DEF Asks
  <2>2. msg[Caller].label \notin FaultLabels
    BY <1>2, <2>0, ZenonT(30)
  <2>3. CASE Caller = Blk
    <3> DEFINE lab == msg[Blk].label
    <3>1. lab # IrqLabel
      BY <2>1, <2>3, Zenon
    <3> QED BY <1>2, <2>3, <3>1 DEF Asks, Regs
  <2>4. CASE Caller = Net
    BY <1>2, <2>2, <2>4, Zenon DEF Asks, Regs
  <2> QED BY <1>2, <1>3, <2>1, <2>3, <2>4, SMTT(20)
<1> QED BY <1>7, <1>8, <1>9, <1>10, <1>11, Zenon

\* Handlers are made once, into empty slots, and used where they were put.
LEMMA HandlersFound ==
  ASSUME ServiceInv
  PROVE  /\ Received("RegisterIRQ") => line[Regs[2]] = "off" /\ cspace[Caller][Regs[1]] = "none"
         /\ root.pc = "handler" => line[root.irq] = "off"
         /\ \A t \in Task : ~TaskPanics(t)
<1>1. HandlersOK /\ alloc \in BlkAllocs /\ ServiceTyped
  BY Zenon DEF ServiceInv, ServiceTyped
<1>2. Allocs \in {1, 2} /\ pc[Blk] \in Nat /\ pc[Kernel] \in Nat
  BY <1>1, Entered, Programs DEF ServiceTyped
<1>3. ASSUME Received("RegisterIRQ")
      PROVE  line[Regs[2]] = "off" /\ cspace[Caller][Regs[1]] = "none"
  <2>1. queue # <<>>
    BY <1>3, ZenonT(30) DEF Received
  <2>2. Caller = Blk /\ pc[Blk] = Allocs + 1 /\ Regs = <<27, "blk">>
    BY <1>1, <1>3, <2>1, Calling, SMTT(20) DEF ServiceInv
  <2>3. line["blk"] = "off" /\ cspace[Blk][27] = "none"
    BY <1>1, <1>2, <2>2, SMTT(20) DEF HandlersOK
  <2> QED BY <2>2, <2>3
<1>4. ASSUME root.pc = "handler"
      PROVE  line[root.irq] = "off"
  BY <1>1, <1>4 DEF HandlersOK
<1>5. ASSUME NEW t \in Task, NEW op \in {"bind", "ack"}, At(t, op)
      PROVE  cspace[t][Arg(t)[1]] \in Line
  <2>1. Does(t, pc[t], Program(t)[pc[t]]) /\ Program(t)[pc[t]].op = op
    BY <1>1, <1>5, Doing, ZenonT(30) DEF At
  <2>2. \/ t = Kernel /\ pc[t] \in {4, 5} /\ Arg(t)[1] = RecvSlot
        \/ t = Blk /\ pc[t] > Allocs + 1 /\ Arg(t)[1] = 27
    <3> DEFINE e == Program(t)[pc[t]]
    <3>1. \/ t = Kernel /\ pc[t] \in {4, 5} /\ e.x[1] = RecvSlot
          \/ t = Blk /\ pc[t] \in {Allocs + 2, Allocs + 3, Allocs + 9, Allocs + 16} /\ e.x[1] = 27
      <4>1. Does(t, pc[t], e) /\ e.op = op
        BY <2>1, Zenon
      <4> HIDE DEF e
      <4> QED BY <1>5, <4>1, Zenon DEF Does
    <3>2. Arg(t) = e.x
      BY Zenon DEF Arg
    <3> QED BY <1>2, <3>1, <3>2, SMTT(20)
  <2>3. cspace[t][Arg(t)[1]] \in {"serial", "blk"}
    BY <1>1, <1>2, <2>2 DEF HandlersOK
  <2> QED BY <2>3, Zenon DEF Line
<1>6. "bind" \in {"bind", "ack"} /\ "ack" \in {"bind", "ack"}
  OBVIOUS
<1> QED BY <1>3, <1>4, <1>5, <1>6, Zenon DEF TaskPanics

(* The labels and the arguments of messages.                               *)

Index(type) == 1 .. Len(Names[type])

LEMMA RangeWithin ==
  \A m \in Nat : \A n \in 0 .. m : 1 .. n \subseteq 1 .. m
  OBVIOUS

LEMMA Lengths ==
  /\ Len(Names["custom"]) = 3 /\ Len(Names["root"]) = 3
  /\ Len(Names["blk"]) = 4 /\ Len(Names["net"]) = 12
<1>1. Len(CustomNames) = 3
  BY DEF CustomNames
<1>2. Len(RootNames) = 3
  BY DEF RootNames
<1>3. Len(BlkNames) = 4
  BY DEF BlkNames
<1>4. Len(NetNames) = 12
  BY SMTT(20) DEF NetNames
<1> QED
  BY <1>1, <1>2, <1>3, <1>4 DEF Names

LEMMA Starts ==
  /\ LabelStart["custom"] = 256 /\ LabelStart["root"] = 512
  /\ LabelStart["blk"] = 768 /\ LabelStart["net"] = 1024
  BY DEF LabelStart

LEMMA TypeFacts ==
  \A type \in Types : LabelStart[type] \in Nat /\ Len(Names[type]) \in 1 .. 12
  BY Lengths, Starts DEF Types

\* try_from undoes to_label.
THEOREM LabelRoundTrip ==
  ASSUME NEW type \in Types, NEW i \in Index(type)
  PROVE  TryFrom(type, ToLabel(type, i)) = Names[type][i]
<1>1. /\ i \in Int /\ 1 <= i /\ i <= Len(Names[type])
      /\ LabelStart[type] \in Nat /\ Len(Names[type]) \in Nat
  BY TypeFacts DEF Index
<1>2. /\ ToLabel(type, i) >= LabelStart[type]
      /\ ToLabel(type, i) - LabelStart[type] < Len(Names[type])
      /\ ToLabel(type, i) - LabelStart[type] + 1 = i
  BY <1>1 DEF ToLabel
<1> QED
  BY <1>2 DEF TryFrom

\* No type reads a message of another one, and a label is never that of a
\* fault, which seL4 numbers below 8 and the kernel thread tells apart so.
THEOREM LabelsDisjoint ==
  ASSUME NEW type \in Types, NEW i \in Index(type), NEW other \in Types \ {type}
  PROVE  TryFrom(other, ToLabel(type, i)) = "None" /\ ToLabel(type, i) >= 8
<1>0. Len(Names[type]) \in 1 .. 12
  BY TypeFacts
<1>1. i \in 1 .. 12
  <2>1. Len(Names[type]) \in 0 .. 12
    BY <1>0
  <2> QED
    BY <2>1, RangeWithin, 12 \in Nat, Zenon DEF Index
<1>2. LabelStart[type] + 256 <= LabelStart[other] \/ LabelStart[other] + 256 <= LabelStart[type]
  BY Starts DEF Types
<1>3. LabelStart[type] \in Nat /\ LabelStart[type] >= 256
  BY Starts DEF Types
<1>4. LabelStart[other] \in Nat /\ Len(Names[other]) \in 1 .. 12
  BY TypeFacts
<1>5. ToLabel(type, i) >= 8
  BY <1>1, <1>3 DEF ToLabel
<1>6. ~(/\ ToLabel(type, i) >= LabelStart[other]
        /\ ToLabel(type, i) - LabelStart[other] < Len(Names[other]))
  <2> DEFINE a == LabelStart[type]
             b == LabelStart[other]
             n == Len(Names[other])
             label == ToLabel(type, i)
  <2>1. a \in Nat /\ b \in Nat /\ n \in 1 .. 12 /\ (a + 256 <= b \/ b + 256 <= a)
    BY <1>2, <1>3, <1>4, Zenon
  <2>2. label = a + i - 1
    BY Zenon DEF ToLabel
  <2> HIDE DEF a, b, n, label
  <2>3. ~(label >= b /\ label - b < n)
    BY <1>1, <2>1, <2>2
  <2> QED
    BY <2>3, Zenon DEF a, b, n, label
<1> QED
  BY <1>5, <1>6 DEF TryFrom

LEMMA CountTypes ==
  \A type \in Types : \A i \in Index(type) : ArgCount[type][i] \in 0 .. 4
<1>1. \A i \in 1 .. 3 : <<0, 0, 0>>[i] \in 0 .. 4
  OBVIOUS
<1>2. \A i \in 1 .. 3 : RootArgs[i] \in 0 .. 4
  BY DEF RootArgs
<1>3. \A i \in 1 .. 4 : BlkArgs[i] \in 0 .. 4
  BY DEF BlkArgs
<1>4. \A i \in 1 .. 12 : NetArgs[i] \in 0 .. 4
  BY DEF NetArgs
<1>5. /\ ArgCount["custom"] = <<0, 0, 0>> /\ ArgCount["root"] = RootArgs
      /\ ArgCount["blk"] = BlkArgs /\ ArgCount["net"] = NetArgs
  BY DEF ArgCount
<1>6. /\ Index("custom") = 1 .. 3 /\ Index("root") = 1 .. 3
      /\ Index("blk") = 1 .. 4 /\ Index("net") = 1 .. 12
  BY Lengths DEF Index
<1> QED
  BY <1>1, <1>2, <1>3, <1>4, <1>5, <1>6, Zenon DEF Types

\* The arguments a sender builds a message from are those the receiver gets,
\* whatever the registers held before.
THEOREM ArgumentsRoundTrip ==
  ASSUME NEW type \in Types, NEW i \in Index(type),
         NEW old \in [RegIndex -> Nat],
         NEW args \in Seq(Nat), Len(args) = ArgCount[type][i]
  PROVE  Arguments(type, ToLabel(type, i), Build(args, old)) = args
<1>1. ToLabel(type, i) - LabelStart[type] + 1 = i
  BY TypeFacts DEF ToLabel, Index
<1>2. Len(args) \in 0 .. 4
  BY CountTypes
<1>3. Arguments(type, ToLabel(type, i), Build(args, old))
        = [r \in 1 .. Len(args) |-> Build(args, old)[r]]
  BY <1>1 DEF Arguments
<1>4. ASSUME NEW r \in 1 .. Len(args)
      PROVE  Build(args, old)[r] = args[r]
  <2>1. r \in RegIndex
    BY <1>2, RangeWithin, 4 \in Nat, Zenon DEF RegIndex
  <2> QED
    BY <2>1, Zenon DEF Build
<1>5. args = [r \in 1 .. Len(args) |-> args[r]]
  OBVIOUS
<1> QED
  BY <1>3, <1>4, <1>5

=============================================================================
