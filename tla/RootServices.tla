---------------------------- MODULE RootServices ----------------------------
(***************************************************************************)
(* The root task once the tasks run: run_tasks and the service loop of     *)
(* root-task/src/main.rs, with the three tasks that call it up to the      *)
(* point where they turn to other work: test_irq_with_cap_transfer of the  *)
(* kernel thread, main and HalImpl of the block thread, the start of the   *)
(* net thread with VirtIoHalImpl.                                          *)
(*                                                                         *)
(* The tasks run concurrently with each other and with the root task.  A   *)
(* call puts the caller in the queue of fault_ep; the root task takes the  *)
(* first one, and a caller goes on when it is replied to.  A fault is a    *)
(* message on the same endpoint.                                           *)
(***************************************************************************)
EXTENDS RootBoot, Labels

CONSTANTS
  BlkAllocs,   \* external: how VirtIOBlk::new splits its two DMA pages
  FaultLabels, \* external: the labels of seL4 faults
  NetHeap      \* an address in the static heap, which lies in the net thread's image

\* Two queues of two pages are left of the net thread's DMA pages when the
\* first is left out; a read shares buffers in the two topmost stack pages.
ASSUME ServiceAssumption ==
  /\ BlkAllocs \subseteq {<<2>>, <<1, 1>>} /\ BlkDma >= 2 /\ NetDma >= 5
  /\ StackPages >= 2 /\ PageSize >= 2
  /\ FaultLabels \subseteq 1 .. 15
  /\ NetHeap \in Nat
  /\ \A im \in Images : FirstPage(NetHeap) \in ImageFirst(im[Net]) .. ImageEnd(im[Net]) - 1

VARIABLES
  pc,     \* the step of its program a task is at; 0: not resumed
  msg,    \* the message a task is blocked in; NoMsg: none
  queue,  \* the callers that wait on fault_ep, in order
  dma,    \* DMA_ADDR of the block and the net thread
  buf,    \* the buffers dma_alloc returned
  alloc,  \* the choice from BlkAllocs
  line,   \* external, the interrupt controller: the state of a line
  bound,  \* external: the task whose notification a line signals, if any
  level,  \* external: the lines that a device holds high
  sig,    \* external: the tasks whose notification is signalled
  asked,  \* external: the reads the block device was asked for
  read    \* external: the reads it has done

taskVars == <<pc, msg, dma, buf, alloc>>
devVars  == <<line, bound, level, sig, asked, read>>
vars     == <<allocVars, bootVars, taskVars, queue, devVars>>

Line == {"serial", "blk"}  \* SERIAL_DEVICE_IRQ, VIRTIO_NET_IRQ

NoMsg == [label |-> 0, regs |-> <<>>]
-----------------------------------------------------------------------------
(* The programs of the tasks.                                              *)

Do(op)             == [op |-> op, x |-> <<>>]
Use(op, slot)      == [op |-> op, x |-> <<slot>>]
Alloc(n)           == [op |-> "dma", x |-> <<n>>]
Request(i, regs)   == [op |-> "call", x |-> <<ToLabel("root", i), regs>>]
RegisterIRQ(c, l)  == Request(1, <<c, l>>)
TranslateAddr(a)   == Request(2, <<a>>)
RegisterWithCap(l) == Request(3, <<l>>)

\* Mutant of KernelProgram: the handler is not acknowledged once it is bound.
KernelProgram_NoAck ==
  <<RegisterWithCap("serial"), Do("recv_cap"), Do("reply_cap"), Use("bind", 1023),
    Do("wait")>>

\* test_irq_with_cap_transfer.
KernelProgram ==
  <<RegisterWithCap("serial"), Do("recv_cap"), Do("reply_cap"), Use("bind", 1023),
    Use("ack", 1023), Do("wait")>>

\* share of the three buffers of a read, which lie on the stack.
ShareStack ==
  LET top == (StackTop - 1) * PageSize
  IN  <<TranslateAddr(top), TranslateAddr(top + 1), TranslateAddr(top - PageSize)>>

\* Mutant of ReadBlock: the block is used without waiting for it.
ReadBlock_NoWait ==
  ShareStack \o <<Do("submit"), Use("ack", 27), Do("dev_ack")>>

\* One turn of the loop over block_id.
ReadBlock ==
  ShareStack \o <<Do("submit"), Do("wait"), Use("ack", 27), Do("dev_ack")>>

BlkProgram ==
  [a \in BlkAllocs |->
    [i \in 1 .. Len(a) |-> Alloc(a[i])] \o
    <<RegisterIRQ(27, "blk"), Use("bind", 27), Use("ack", 27)>> \o ReadBlock \o ReadBlock]

\* Two queues of two pages, a receive buffer of the heap, and the
\* unreachable!() that ends main.
NetProgram == <<Alloc(2), Alloc(2), TranslateAddr(NetHeap), Do("panic")>>

Program(t) ==
  CASE t = Kernel -> KernelProgram [] t = Blk -> BlkProgram[alloc] [] t = Net -> NetProgram

\* Mutant of DmaFirst: the net thread begins with the first page, too.
DmaFirst_Zero(t) == DmaStart * PageSize

\* DMA_ADDR at the start.
DmaFirst(t) == (IF t = Net THEN DmaStart + 1 ELSE DmaStart) * PageSize

ServiceInit ==
  /\ BootInit
  /\ pc = [t \in Task |-> 0]
  /\ msg = [t \in Task |-> NoMsg]
  /\ queue = <<>>
  /\ dma = [t \in Task |-> DmaFirst(t)]
  /\ buf = [t \in Task |-> <<>>]
  /\ alloc \in BlkAllocs
  /\ line = [l \in Line |-> "off"]
  /\ bound = [l \in Line |-> {}]
  /\ level = {} /\ sig = {}
  /\ asked = 0 /\ read = 0
-----------------------------------------------------------------------------
(* Steps of the tasks.                                                     *)

\* The task is running and its next step is op.
At(t, op) ==
  /\ pc[t] \in 1 .. Len(Program(t))
  /\ msg[t] = NoMsg
  /\ Program(t)[pc[t]].op = op

Arg(t) == Program(t)[pc[t]].x

Advance(t) == pc' = [pc EXCEPT ![t] = @ + 1]

\* ep.call, or a fault: the task is blocked and in the queue.
Send(t, label, regs) ==
  /\ msg' = [msg EXCEPT ![t] = [label |-> label, regs |-> regs]]
  /\ queue' = Append(queue, t)

\* dma_alloc moves DMA_ADDR before it asks for the physical address.
DmaAlloc(t) ==
  /\ At(t, "dma")
  /\ dma' = [dma EXCEPT ![t] = @ + Arg(t)[1] * PageSize]
  /\ Send(t, ToLabel("root", 2), <<dma[t]>>)
  /\ UNCHANGED <<allocVars, bootVars, pc, buf, alloc, devVars>>

CallRoot(t) ==
  /\ At(t, "call")
  /\ Send(t, Arg(t)[1], Arg(t)[2])
  /\ UNCHANGED <<allocVars, bootVars, pc, dma, buf, alloc, devVars>>

\* A panic of the task ends in a fault, whose first word is an address of the
\* program.
Panic(t) ==
  /\ At(t, "panic")
  /\ \E label \in FaultLabels : Send(t, label, <<NetHeap>>)
  /\ UNCHANGED <<allocVars, bootVars, pc, dma, buf, alloc, devVars>>

\* irq_ep.recv meets the call of the root task: the handler is put in the
\* receive slot.
RecvCap(t) ==
  /\ At(t, "recv_cap") /\ root.pc = "call"
  /\ cspace' = [cspace EXCEPT ![t][1023] = IF @ = "none" THEN root.irq ELSE @]
  /\ root' = [root EXCEPT !.pc = "wait"]
  /\ Advance(t)
  /\ UNCHANGED <<allocVars, memVars, msg, dma, buf, alloc, queue, devVars>>

ReplyCap(t) ==
  /\ At(t, "reply_cap")
  /\ root' = [root EXCEPT !.pc = "recv"]
  /\ Advance(t)
  /\ UNCHANGED <<allocVars, memVars, cspace, msg, dma, buf, alloc, queue,
                 devVars>>

\* irq_handler_set_notification.
Bind(t) ==
  /\ At(t, "bind") /\ cspace[t][Arg(t)[1]] \in Line
  /\ bound' = [bound EXCEPT ![cspace[t][Arg(t)[1]]] = {t}]
  /\ Advance(t)
  /\ UNCHANGED <<allocVars, bootVars, msg, dma, buf, alloc, queue, line, level, sig, asked, read>>

\* irq_handler_ack lets the line fire again.
IrqAck(t) ==
  /\ At(t, "ack") /\ cspace[t][Arg(t)[1]] \in Line
  /\ line' = [line EXCEPT ![cspace[t][Arg(t)[1]]] = "on"]
  /\ Advance(t)
  /\ UNCHANGED <<allocVars, bootVars, msg, dma, buf, alloc, queue, bound, level, sig, asked, read>>

\* ntfn.wait.
Wait(t) ==
  /\ At(t, "wait") /\ t \in sig
  /\ sig' = sig \ {t}
  /\ Advance(t)
  /\ UNCHANGED <<allocVars, bootVars, msg, dma, buf, alloc, queue, line, bound, level, asked, read>>

\* read_blocks_nb, after the buffers are shared.
Submit(t) ==
  /\ At(t, "submit")
  /\ asked' = asked + 1
  /\ Advance(t)
  /\ UNCHANGED <<allocVars, bootVars, msg, dma, buf, alloc, queue, line, bound, level, sig, read>>

\* ack_interrupt: the device lets go of its line.
DevAck(t) ==
  /\ At(t, "dev_ack")
  /\ level' = level \ {"blk"}
  /\ Advance(t)
  /\ UNCHANGED <<allocVars, bootVars, msg, dma, buf, alloc, queue, line, bound, sig, asked, read>>

TaskStep(t) ==
  \/ DmaAlloc(t) \/ CallRoot(t) \/ Panic(t) \/ RecvCap(t) \/ ReplyCap(t)
  \/ Bind(t) \/ IrqAck(t) \/ Wait(t) \/ Submit(t) \/ DevAck(t)
-----------------------------------------------------------------------------
(* Steps of the root task.                                                 *)

Booting == Boot /\ UNCHANGED <<taskVars, queue, devVars>>

\* Mutant of RunTasks: one task too many.
RunTasks_Past ==
  /\ root.pc = "start"
  /\ pc' = [pc EXCEPT ![root.who] = 1]
  /\ root' = IF root.who > Net THEN [root EXCEPT !.pc = "recv"] ELSE [root EXCEPT !.who = @ + 1]
  /\ UNCHANGED <<allocVars, memVars, cspace, msg, dma, buf, alloc, queue,
                 devVars>>

\* run_tasks resumes one task after the other.
RunTasks ==
  /\ root.pc = "start"
  /\ pc' = [pc EXCEPT ![root.who] = 1]
  /\ root' = IF root.who = Net THEN [root EXCEPT !.pc = "recv"] ELSE [root EXCEPT !.who = @ + 1]
  /\ UNCHANGED <<allocVars, memVars, cspace, msg, dma, buf, alloc, queue,
                 devVars>>

\* fault_ep.recv returned a message that is the root request called name.
Received(name) ==
  /\ root.pc = "recv" /\ queue # <<>>
  /\ TryFrom("root", msg[Head(queue)].label) = name

Caller == Head(queue)
Regs   == msg[Caller].regs

\* sel4::reply: the caller goes on.  A dma_alloc takes the physical address
\* out of the answer.
Reply(paddr) ==
  /\ msg' = [msg EXCEPT ![Caller] = NoMsg]
  /\ pc' = [pc EXCEPT ![Caller] = @ + 1]
  /\ buf' = IF Program(Caller)[pc[Caller]].op = "dma"
            THEN [buf EXCEPT ![Caller] = Append(@, [first |-> Regs[1] \div PageSize,
                                                    pages |-> Arg(Caller)[1],
                                                    paddr |-> paddr])]
            ELSE buf
  /\ queue' = Tail(queue)
  /\ UNCHANGED <<dma, alloc>>

\* irq_control_get: a line has one handler, and is on once it is made.
Issue(l) == line[l] = "off" /\ line' = [line EXCEPT ![l] = "on"]

ServeRegisterIRQ ==
  /\ Received("RegisterIRQ")
  /\ Issue(Regs[2])
  /\ cspace[Caller][Regs[1]] = "none"
  /\ cspace' = [cspace EXCEPT ![Caller][Regs[1]] = Regs[2]]
  /\ Reply(0)
  /\ UNCHANGED <<allocVars, memVars, root, bound, level, sig, asked, read>>

\* Mutant of ServeWithCap: the caller is replied to after the handler is sent.
ServeWithCap_Late ==
  /\ Received("RegisterIRQWithCap")
  /\ root' = [root EXCEPT !.pc = "handler", !.irq = Regs[1]]
  /\ queue' = Tail(queue)
  /\ UNCHANGED <<allocVars, memVars, cspace, taskVars, devVars>>

\* RegisterIRQWithCap is replied to first; the handler is made and sent after
\* that.
ServeWithCap ==
  /\ Received("RegisterIRQWithCap")
  /\ Reply(0)
  /\ root' = [root EXCEPT !.pc = "handler", !.irq = Regs[1]]
  /\ UNCHANGED <<allocVars, memVars, cspace, devVars>>

MakeHandler ==
  /\ root.pc = "handler"
  /\ Issue(root.irq)
  /\ root' = [root EXCEPT !.pc = "call"]
  /\ UNCHANGED <<allocVars, memVars, cspace, taskVars, queue,
                 bound, level, sig, asked, read>>

\* Mutant of PageOf: the address is looked up as it is.
PageOf_Exact(a) == IF a % PageSize = 0 THEN a \div PageSize ELSE Device

\* addr & !0xfff.
PageOf(a) == a \div PageSize

Mapped(t, a) == PageOf(a) \in Page /\ page[t][PageOf(a)] # 0

ServeTranslateAddr ==
  /\ Received("TranslateAddr")
  /\ Mapped(Caller, Regs[1])
  /\ Reply(at[page[Caller][PageOf(Regs[1])]] + (Regs[1] % PageSize))
  /\ UNCHANGED <<allocVars, bootVars, devVars>>

\* Everything else is a fault.  It is logged, and not replied to.
ServeFault ==
  /\ Received("None")
  /\ queue' = Tail(queue)
  /\ UNCHANGED <<allocVars, bootVars, taskVars, devVars>>

\* An unwrap of the loop fails.
ServePanics ==
  \/ Received("RegisterIRQ") /\ (line[Regs[2]] # "off" \/ cspace[Caller][Regs[1]] # "none")
  \/ root.pc = "handler" /\ line[root.irq] # "off"
  \/ Received("TranslateAddr") /\ ~Mapped(Caller, Regs[1])

\* An unwrap of a task fails: the slot it uses holds no handler.
TaskPanics(t) == (At(t, "bind") \/ At(t, "ack")) /\ cspace[t][Arg(t)[1]] \notin Line

RootStep ==
  \/ Booting \/ RunTasks \/ MakeHandler
  \/ ServeRegisterIRQ \/ ServeWithCap \/ ServeTranslateAddr \/ ServeFault
-----------------------------------------------------------------------------
(* External: the devices and the interrupt controller.                     *)

\* A line that is on and high fires: it is masked, and what is bound to it is
\* signalled.
Fire(l) ==
  /\ line[l] = "on" /\ l \in level
  /\ line' = [line EXCEPT ![l] = "masked"]
  /\ sig' = sig \cup bound[l]
  /\ UNCHANGED <<allocVars, bootVars, taskVars, queue, bound, level, asked, read>>

\* Input arrives at the serial device.  Nothing here reads it.
Keypress ==
  /\ "serial" \notin level
  /\ level' = level \cup {"serial"}
  /\ UNCHANGED <<allocVars, bootVars, taskVars, queue, line, bound, sig, asked, read>>

DeviceReads ==
  /\ read < asked
  /\ read' = read + 1
  /\ level' = level \cup {"blk"}
  /\ UNCHANGED <<allocVars, bootVars, taskVars, queue, line, bound, sig, asked>>

Next ==
  \/ RootStep
  \/ \E t \in Task : TaskStep(t)
  \/ \E l \in Line : Fire(l)
  \/ Keypress \/ DeviceReads

\* The root task and the tasks have the same priority and are scheduled in
\* turns; a line that may fire does; the device answers.  Nobody has to type.
Fairness ==
  /\ WF_vars(RootStep)
  /\ \A t \in Task : WF_vars(TaskStep(t))
  /\ \A l \in Line : WF_vars(Fire(l))
  /\ WF_vars(DeviceReads)

Spec == ServiceInit /\ [][Next]_vars /\ Fairness
-----------------------------------------------------------------------------
(* Properties.                                                             *)

\* The variables of the root task, the tasks and the devices have their types.
RootTypeOK ==
  /\ BootTypeOK
  /\ \A t \in Task : pc[t] \in 0 .. Len(Program(t)) + 1
  /\ queue \in Seq(Task)
  /\ DOMAIN dma = Task /\ DOMAIN buf = Task /\ DOMAIN msg = Task
  /\ line \in [Line -> {"off", "on", "masked"}]
  /\ level \subseteq Line /\ sig \subseteq Task
  /\ read <= asked

\* No unwrap of the root task fails, neither while it builds the tasks nor in
\* its loop, and no task uses a handler it does not have: every handler is made
\* once, into an empty slot, and every address the drivers ask about is mapped.
NoUnwrapFails ==
  /\ ~BootPanics /\ ~ServePanics
  /\ \A t \in Task : ~TaskPanics(t)

\* The device gets one physical address for a buffer of several pages: all of
\* them are mapped, begin there and follow each other, except where the
\* allocator made a CNode between two frames.  The net thread leaves out its
\* first page, behind which a page table lies.
NetDmaContiguous ==
  \A i \in 1 .. Len(buf[Net]) :
    LET b == buf[Net][i]
    IN  /\ b.paddr = at[page[Net][b.first]]
        /\ \A p \in b.first .. b.first + b.pages - 1 : page[Net][p] # 0
        /\ \A p \in b.first .. b.first + b.pages - 2 : Joined(Net, p)

\* When the block thread uses its buffer for the first time, the first block
\* has been read: nothing but the device signals its notification.
FirstReadDone ==
  \A i \in 1 .. pc[Blk] - 1 : BlkProgram[alloc][i].op = "dev_ack" => read >= 1

\* A task that faulted is never resumed, whatever the words of its fault are.
FaultedStays ==
  [][\A t \in Task : msg[t].label \in FaultLabels => pc'[t] = pc[t] /\ msg'[t] = msg[t]]_vars

\* Every request to the root task is answered, also while the root task calls
\* the kernel thread with a handler.
RequestAnswered ==
  \A t \in Task : msg[t].label >= LabelStart["root"] ~> msg[t] = NoMsg

\* A task that waits while its device holds the line high wakes up, also when
\* the line fired before the notification was bound or while it was masked.
WaitEnds ==
  /\ At(Kernel, "wait") /\ "serial" \in level ~> ~At(Kernel, "wait")
  /\ At(Blk, "wait") ~> ~At(Blk, "wait")
=============================================================================
