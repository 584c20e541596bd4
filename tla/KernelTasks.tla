---------------------------- MODULE KernelTasks -----------------------------
(***************************************************************************)
(* The tasks of the kernel thread and their memory: the message loop of    *)
(* kernel-thread/src/child_test.rs, the system calls that change a task or *)
(* its address space, Sel4Task of kernel-thread/src/task.rs, and the slots *)
(* the object allocator hands out.                                         *)
(*                                                                         *)
(* The kernel thread serves one message at a time; the loops that map      *)
(* pages are one step per page, so that running out of slots half way is a *)
(* behaviour.  A VSpace is named by the task it was made for, a capability *)
(* by its slot; slot 0 stands for none.  pid, exit and clear_child_tid are *)
(* written and never read, and are left out, as are registers.             *)
(***************************************************************************)
EXTENDS Integers, Sequences, FiniteSets

CONSTANTS
  MaxTask,      \* bound: tasks ever made
  LastPage,     \* bound: pages of a user address space
  PageSize,     \* units of an address in a page
  PtSpan,       \* pages under one page table
  UspaceBase, HeapBase, HeapSize, HeapInit,   \* addresses of common/src/uspace.rs
  ImagePages, ExecPages, StackPages,          \* what load_elf, map_image, map_stack map
  ImageIpc, ExecIpc, CloneIpc,                \* the pages of the IPC buffers
  Calls,                                      \* bound: what the tasks do
  Address, Length,                            \* bound: arguments of system calls
  SlotStart, SlotEnd, RecvSlot                \* the allocator's range, a slot in it

Badge == 1 .. MaxTask
Page  == 0 .. LastPage
Slot  == 0 .. SlotEnd

ASSUME TasksAssumption ==
  /\ MaxTask \in Nat \ {0} /\ LastPage \in Nat
  /\ Calls \subseteq {"brk", "mmap", "munmap", "write", "exit", "execve", "clone",
                "fault", "other"}
  /\ Address \subseteq Nat /\ Length \subseteq Nat \ {0}
  /\ PageSize \in Nat \ {0} /\ PtSpan \in Nat \ {0}
  /\ UspaceBase \in Nat /\ HeapBase \in Nat /\ HeapSize \in Nat /\ HeapInit \in Nat
  /\ ImagePages \subseteq Page /\ ExecPages \subseteq Page /\ StackPages \subseteq Page
  /\ ImageIpc \in Page /\ ExecIpc \in Page /\ CloneIpc \in Page
  /\ SlotStart \in Nat \ {0} /\ SlotEnd \in Nat /\ SlotStart + 3 < SlotEnd
  /\ RecvSlot \in Nat /\ RecvSlot > SlotStart + 3

VARIABLES
  nextSlot,  \* empty_slots.start of the object allocator
  known,     \* the keys of TASK_MAP
  made,      \* ID_COUNTER - 1: the tasks made so far
  vs,        \* the VSpace of a task
  page,      \* its mapped_page
  heap,      \* its heap
  hw,        \* the frames a VSpace maps
  pts,       \* the page tables a VSpace has
  st,        \* the thread of a task: none, run, call or stopped
  fault,     \* the page a thread in state call has faulted on; {} for a call
  ep,        \* the threads queued on the endpoint
  k          \* what the kernel thread does

taskVars == <<vs, page, heap>>
memVars  == <<hw, pts>>
vars     == <<nextSlot, known, made, taskVars, memVars, st, fault, ep, k>>

MapOps == {"boot", "brk", "mmap", "exec", "clone", "fault"}

\* recv: waiting for a message; map: in a loop over the pages todo, then last;
\* insert: a clone runs and is to enter TASK_MAP; spin: in sys_write's loop.
KernelState ==
  [pc: {"recv", "map", "insert", "spin", "panic"}, op: MapOps, who: Badge,
   tgt: Badge, todo: SUBSET Page, last: SUBSET Page, addr: Nat]

NoPages == [p \in Page |-> 0]

Mapped(b) == {p \in Page : page[b][p] # 0}

-----------------------------------------------------------------------------
(* The object allocator: slots in order, never given back.  The slot the   *)
(* IRQ handler was received in lies in the range; retyping into it fails.  *)

\* Mutant of SlotsFree: only the first slot of several is checked.
SlotsFree_First(n) == nextSlot < SlotEnd /\ RecvSlot # nextSlot

SlotsFree(n) ==
  nextSlot + n <= SlotEnd /\ RecvSlot \notin nextSlot .. nextSlot + n - 1

Panic == [k EXCEPT !.pc = "panic"]

\* Between two messages.
Ready ==
  [pc |-> "recv", op |-> "boot", who |-> 1, tgt |-> 1, todo |-> {}, last |-> {},
   addr |-> 0]

Mapping(op, who, tgt, todo, last, addr) ==
  [pc |-> "map", op |-> op, who |-> who, tgt |-> tgt, todo |-> todo,
   last |-> last, addr |-> addr]

\* test_child has made the first task: its VSpace, TCB and CNode.
Init ==
  /\ nextSlot = SlotStart + 3
  /\ known = {} /\ made = 1
  /\ vs = [b \in Badge |-> b]
  /\ page = [b \in Badge |-> NoPages]
  /\ heap = [b \in Badge |-> HeapInit]
  /\ hw = [b \in Badge |-> NoPages]
  /\ pts = [b \in Badge |-> {}]
  /\ st = [b \in Badge |-> "none"] /\ fault = [b \in Badge |-> {}]
  /\ ep = <<>>
  /\ k = Mapping("boot", 1, 1, ImagePages \cup StackPages, {ImageIpc}, 0)

-----------------------------------------------------------------------------
(* User threads.                                                           *)

\* A thread makes a system call and waits for the reply.
Call(b) ==
  /\ st[b] = "run"
  /\ st' = [st EXCEPT ![b] = "call"]
  /\ ep' = Append(ep, b)
  /\ UNCHANGED <<nextSlot, known, made, taskVars, memVars, fault, k>>

\* A thread touches a page its VSpace does not map.
Fault(b, p) ==
  /\ st[b] = "run"
  /\ hw[vs[b]][p] = 0
  /\ st' = [st EXCEPT ![b] = "call"]
  /\ fault' = [fault EXCEPT ![b] = {p}]
  /\ ep' = Append(ep, b)
  /\ UNCHANGED <<nextSlot, known, made, taskVars, memVars, k>>

-----------------------------------------------------------------------------
(* The kernel thread takes a message.                                      *)

Receive(b) ==
  /\ k.pc = "recv"
  /\ ep # <<>> /\ b = Head(ep)
  /\ ep' = Tail(ep)

\* The message is a system call, of a task in TASK_MAP: see CallerKnown.
Serve(b) == Receive(b) /\ fault[b] = {} /\ b \in known

\* The call returns without changing memory.
Return(b) ==
  /\ st' = [st EXCEPT ![b] = "run"]
  /\ UNCHANGED <<nextSlot, known, made, vs, page, hw, pts, fault>>

\* The calls that only read or only fail: the ids of a task, sched_yield, a bad
\* flag of mmap or clone, a bad pointer, a file that is no console, ENOSYS.
SysReturns(b) ==
  /\ Serve(b)
  /\ Return(b)
  /\ UNCHANGED <<heap, k>>

\* Another fault, or a label the loop does not know, gets no reply.
Discard(b) ==
  /\ Serve(b)
  /\ st' = [st EXCEPT ![b] = "stopped"]
  /\ UNCHANGED <<nextSlot, known, made, taskVars, memVars, fault, k>>

\* Fault::VmFault: a new page, whatever the task has there by now.
VmFault(b) ==
  /\ Receive(b) /\ b \in known /\ fault[b] # {}
  /\ k' = Mapping("fault", b, b, fault[b], {}, 0)
  /\ fault' = [fault EXCEPT ![b] = {}]
  /\ UNCHANGED <<nextSlot, known, made, taskVars, memVars, st>>

\* The pages that overlap the n units from address a.
PagesOf(a, n) == {p \in Page : p * PageSize < a + n /\ a < (p + 1) * PageSize}

\* sys_brk.  The pages above the old break are mapped from the break itself,
\* which map_page wants aligned.
SysBrk(b, addr) ==
  /\ Serve(b)
  /\ \/ /\ addr < HeapBase \/ addr > HeapBase + HeapSize
        /\ Return(b)
        /\ UNCHANGED <<heap, k>>
     \/ /\ addr \in HeapBase .. HeapBase + HeapSize /\ addr <= heap[b]
        /\ heap' = [heap EXCEPT ![b] = addr]
        /\ Return(b)
        /\ UNCHANGED k
     \/ /\ addr \in HeapBase .. HeapBase + HeapSize /\ addr > heap[b]
        /\ k' = IF heap[b] % PageSize # 0 THEN Panic
                ELSE Mapping("brk", b, b, PagesOf(heap[b], addr - heap[b]), {}, addr)
        /\ UNCHANGED <<nextSlot, known, made, taskVars, memVars, st, fault>>

\* Mutant of FindFreeArea: the gap after a page starts at the page.
FindFreeArea_Start(b, start, n) ==
  LET first   == IF start > UspaceBase THEN start ELSE UspaceBase
      After(q) == q * PageSize
      Fits(q)  == \A p \in Mapped(b) : p > q => After(q) + n <= p * PageSize
  IN  IF \A p \in Mapped(b) : first + n <= p * PageSize
      THEN first
      ELSE After(CHOOSE q \in Mapped(b) :
                   Fits(q) /\ \A p \in Mapped(b) : p < q => ~Fits(p))

\* find_free_area: the first gap of n units, below the first mapped page or
\* after some mapped page, else the end of the last one.
FindFreeArea(b, start, n) ==
  LET first   == IF start > UspaceBase THEN start ELSE UspaceBase
      After(q) == (q + 1) * PageSize
      Fits(q)  == \A p \in Mapped(b) : p > q => After(q) + n <= p * PageSize
  IN  IF \A p \in Mapped(b) : first + n <= p * PageSize
      THEN first
      ELSE After(CHOOSE q \in Mapped(b) :
                   Fits(q) /\ \A p \in Mapped(b) : p < q => ~Fits(p))

\* sys_mmap: maps the pages of the area that are not mapped yet.
SysMmap(b, start, n, fixed) ==
  /\ Serve(b)
  /\ LET area == IF fixed THEN start ELSE FindFreeArea(b, start, n)
     IN  /\ area + n <= (LastPage + 1) * PageSize
         /\ k' = Mapping("mmap", b, b, PagesOf(area, n) \ Mapped(b), {}, area)
  /\ UNCHANGED <<nextSlot, known, made, taskVars, memVars, st, fault>>

\* Mutant of SysUnmap: the pages stay in mapped_page.
SysUnmap_KeepEntry(b, start, n) ==
  /\ Serve(b)
  /\ LET gone == PagesOf(start, n)
         v    == vs[b]
     IN  hw' = [hw EXCEPT ![v] = [p \in Page |->
                  IF p \in gone /\ hw[v][p] = page[b][p] THEN 0 ELSE hw[v][p]]]
  /\ st' = [st EXCEPT ![b] = "run"]
  /\ UNCHANGED <<nextSlot, known, made, vs, page, heap, pts, fault, k>>

\* sys_unmap.  frame_unmap leaves an entry alone that another frame took over.
SysUnmap(b, start, n) ==
  /\ Serve(b)
  /\ LET gone == PagesOf(start, n)
         v    == vs[b]
     IN  /\ page' = [page EXCEPT ![b] = [p \in Page |-> IF p \in gone THEN 0 ELSE page[b][p]]]
         /\ hw' = [hw EXCEPT ![v] = [p \in Page |->
                      IF p \in gone /\ hw[v][p] = page[b][p] THEN 0 ELSE hw[v][p]]]
  /\ st' = [st EXCEPT ![b] = "run"]
  /\ UNCHANGED <<nextSlot, known, made, vs, heap, pts, fault, k>>

\* sys_write: a page of the buffer that is not in mapped_page ends neither the
\* loop nor the call.
SysWrite(b, start, n) ==
  /\ Serve(b)
  /\ IF PagesOf(start, n) \subseteq Mapped(b)
     THEN Return(b) /\ UNCHANGED k
     ELSE /\ k' = [k EXCEPT !.pc = "spin"]
          /\ UNCHANGED <<nextSlot, known, made, vs, page, memVars, st, fault>>
  /\ UNCHANGED heap

\* sys_exit, sys_exit_group: the thread is suspended; its task stays.
SysExit(b) ==
  /\ Serve(b)
  /\ st' = [st EXCEPT ![b] = "stopped"]
  /\ UNCHANGED <<nextSlot, known, made, taskVars, memVars, fault, k>>

\* sys_exec forgets the pages of the old program, which stay mapped.
SysExec(b) ==
  /\ Serve(b)
  /\ page' = [page EXCEPT ![b] = NoPages]
  /\ k' = Mapping("exec", b, b, ExecPages \cup StackPages, {ExecIpc}, 0)
  /\ UNCHANGED <<nextSlot, known, made, vs, heap, memVars, st, fault>>

\* sys_clone: a VSpace, a TCB and a CNode, then a copy of every page of the
\* caller, or with CLONE_VM a capability for its VSpace.
SysClone(b, vm) ==
  /\ Serve(b)
  /\ made < MaxTask
  /\ LET c == made + 1
         n == IF vm THEN 4 ELSE 3
     IN  \/ /\ ~SlotsFree(n)
            /\ k' = Panic
            /\ UNCHANGED <<nextSlot, made, taskVars>>
         \/ /\ SlotsFree(n)
            /\ nextSlot' = nextSlot + n
            /\ made' = c
            /\ vs' = [vs EXCEPT ![c] = IF vm THEN vs[b] ELSE c]
            /\ k' = Mapping("clone", b, c, IF vm THEN {} ELSE Mapped(b), {CloneIpc}, 0)
            /\ UNCHANGED <<page, heap>>
  /\ UNCHANGED <<known, memVars, st, fault>>

-----------------------------------------------------------------------------
(* The loops that map pages.                                               *)

\* Mutant of MapPage: a clone is given the caller's frame, not a copy.
MapPage_Share(p) ==
  LET v    == vs[k.tgt]
      pt   == p \div PtSpan
      cost == IF pt \in pts[v] THEN 1 ELSE 2
      frame == IF k.op = "clone" /\ p \in k.todo THEN page[k.who][p] ELSE nextSlot
  IN  /\ SlotsFree(cost)
      /\ nextSlot' = nextSlot + cost
      /\ pts' = [pts EXCEPT ![v] = @ \cup {pt}]
      /\ page' = [page EXCEPT ![k.tgt][p] = frame]
      /\ hw' = [hw EXCEPT ![v][p] = frame]

\* allocate_and_retype and map_page: a frame, a page table if there is none,
\* and the entry in mapped_page, which replaces the one there is.
MapPage(p) ==
  LET v    == vs[k.tgt]
      pt   == p \div PtSpan
      cost == IF pt \in pts[v] THEN 1 ELSE 2
  IN  /\ SlotsFree(cost)
      /\ nextSlot' = nextSlot + cost
      /\ pts' = [pts EXCEPT ![v] = @ \cup {pt}]
      /\ page' = [page EXCEPT ![k.tgt][p] = nextSlot]
      /\ hw' = [hw EXCEPT ![v][p] = nextSlot]

\* The allocator is out of slots; or map_image, which makes no page tables,
\* finds none.
MapPanics(p) ==
  \/ ~SlotsFree(IF p \div PtSpan \in pts[vs[k.tgt]] THEN 1 ELSE 2)
  \/ k.op = "exec" /\ p \in ExecPages /\ p \div PtSpan \notin pts[vs[k.tgt]]

\* One iteration of a loop.
MapStep(p) ==
  /\ k.pc = "map"
  /\ \/ p \in k.todo /\ \A q \in k.todo : p <= q
     \/ k.todo = {} /\ p \in k.last
  /\ \/ /\ MapPanics(p)
        /\ k' = Panic
        /\ UNCHANGED <<nextSlot, page, memVars>>
     \/ /\ ~MapPanics(p)
        /\ MapPage(p)
        /\ k' = IF k.todo # {} THEN [k EXCEPT !.todo = @ \ {p}]
                               ELSE [k EXCEPT !.last = @ \ {p}]
  /\ UNCHANGED <<known, made, vs, heap, st, fault, ep>>

\* Mutant of MapDone: the loop serves the next message before the insertion.
MapDone_NoInsert ==
  /\ k.pc = "map" /\ k.todo = {} /\ k.last = {}
  /\ st' = [st EXCEPT ![k.tgt] = "run"]
  /\ heap' = IF k.op = "brk" THEN [heap EXCEPT ![k.tgt] = k.addr] ELSE heap
  /\ k' = Ready
  /\ UNCHANGED <<nextSlot, known, made, vs, page, memVars, fault, ep>>

\* The loop is over.  A new task is resumed before it enters TASK_MAP.
MapDone ==
  /\ k.pc = "map" /\ k.todo = {} /\ k.last = {}
  /\ st' = [st EXCEPT ![k.tgt] = "run"]
  /\ heap' = IF k.op = "brk" THEN [heap EXCEPT ![k.tgt] = k.addr] ELSE heap
  /\ k' = IF k.op \in {"boot", "clone"} THEN [k EXCEPT !.pc = "insert"] ELSE Ready
  /\ UNCHANGED <<nextSlot, known, made, vs, page, memVars, fault, ep>>

\* Mutant of Insert: the caller of clone gets no reply.
Insert_NoReply ==
  /\ k.pc = "insert"
  /\ known' = known \cup {k.tgt}
  /\ k' = Ready
  /\ UNCHANGED <<nextSlot, made, taskVars, memVars, st, fault, ep>>

\* TASK_MAP gets the new task; the caller of clone gets its reply.
Insert ==
  /\ k.pc = "insert"
  /\ known' = known \cup {k.tgt}
  /\ st' = IF k.op = "clone" THEN [st EXCEPT ![k.who] = "run"] ELSE st
  /\ k' = Ready
  /\ UNCHANGED <<nextSlot, made, taskVars, memVars, fault, ep>>

-----------------------------------------------------------------------------
UserStep ==
  \E b \in Badge : Call(b) \/ ("fault" \in Calls /\ \E p \in Page : Fault(b, p))

SysCall(b) ==
  \/ "brk" \in Calls /\ \E addr \in Address : SysBrk(b, addr)
  \/ /\ "mmap" \in Calls
     /\ \E a \in Address, n \in Length, fixed \in BOOLEAN : SysMmap(b, a, n, fixed)
  \/ "munmap" \in Calls /\ \E a \in Address, n \in Length : SysUnmap(b, a, n)
  \/ "write" \in Calls /\ \E a \in Address, n \in Length : SysWrite(b, a, n)
  \/ "exit" \in Calls /\ SysExit(b)
  \/ "execve" \in Calls /\ SysExec(b)
  \/ "clone" \in Calls /\ \E vm \in BOOLEAN : SysClone(b, vm)
  \/ "other" \in Calls /\ Discard(b)
  \/ SysReturns(b)

KernelStep ==
  \/ \E b \in Badge : SysCall(b) \/ VmFault(b)
  \/ \E p \in Page : MapStep(p)
  \/ MapDone
  \/ Insert

Next == UserStep \/ KernelStep

\* The kernel thread is never blocked while messages are queued, and the
\* scheduler runs it among threads of its own priority in turn.
Spec == Init /\ [][Next]_vars /\ WF_vars(KernelStep)

-----------------------------------------------------------------------------
(* Properties.                                                             *)

TypeOK ==
  /\ nextSlot \in Slot /\ known \subseteq Badge /\ made \in Badge
  /\ vs \in [Badge -> Badge]
  /\ page \in [Badge -> [Page -> Slot]] /\ hw \in [Badge -> [Page -> Slot]]
  /\ heap \in [Badge -> Nat]
  /\ pts \in [Badge -> SUBSET Nat]
  /\ st \in [Badge -> {"none", "run", "call", "stopped"}]
  /\ fault \in [Badge -> SUBSET Page]
  /\ ep \in Seq(Badge)
  /\ k \in KernelState

\* No frame is mapped twice: not in two address spaces, not at two addresses
\* of one, and no frame is in the mapped_page of two tasks, whatever was
\* cloned, replaced or unmapped before.
FramesPrivate ==
  /\ \A b, c \in Badge, p, q \in Page :
       page[b][p] # 0 /\ page[b][p] = page[c][q] => b = c /\ p = q
  /\ \A v, w \in Badge, p, q \in Page :
       hw[v][p] # 0 /\ hw[v][p] = hw[w][q] => v = w /\ p = q

SharesVm(b) == \E c \in Badge : c # b /\ vs[c] = vs[b]

\* The page the kernel thread reads and writes for a task is the page the
\* task sees, as long as the task shares its VSpace with nobody.
ViewCoherent ==
  \A b \in Badge : ~SharesVm(b) =>
    \A p \in Mapped(b) : hw[vs[b]][p] = page[b][p]

\* A task is in TASK_MAP by the time a message of it is received, although
\* it is resumed before it is inserted; the unwrap of the look-up never fails.
CallerKnown == k.pc = "recv" /\ ep # <<>> => Head(ep) \in known

\* Without MAP_FIXED, mmap chooses an area none of whose pages is mapped.
MmapFindsFree ==
  [][\A b \in Badge, a \in Address, n \in Length :
       SysMmap(b, a, n, FALSE) => k'.todo = PagesOf(k'.addr, n)]_vars


\* assert_eq!(vaddr % PAGE_SIZE, 0) in map_page, reached from brk.
MapPageAligned ==
  [][\A b \in Badge, addr \in Address : SysBrk(b, addr) => k'.pc # "panic"]_vars

\* CLONE_VM: "Share the same VM between processes".  A page one of them has
\* mapped stays the page both see.
CloneVmShares ==
  \A b \in Badge : \A p \in Mapped(b) : hw[vs[b]][p] = page[b][p]
=============================================================================
