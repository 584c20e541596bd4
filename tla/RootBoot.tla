------------------------------ MODULE RootBoot ------------------------------
(***************************************************************************)
(* The start-up of the root task: main of root-task/src/main.rs up to      *)
(* run_tasks, with rebuild_cspace, build_kernel_thread, make_child_vspace, *)
(* the Sel4TaskHelper of task-helper and map_image of common.  It makes    *)
(* three tasks, the kernel thread (0), the block thread (1) and the net    *)
(* thread (2), loads their images and gives them memory and capabilities.  *)
(*                                                                         *)
(* The start-up is a straight line, so it is a script: one entry per       *)
(* object, copied segment, mapped page or capability, in the order of the  *)
(* code.  A stage of it is a task that is built, a part is a loop or a run *)
(* of statements.  Page tables are made where frame_map asks for them,     *)
(* between one frame and the next, which decides where frames lie in       *)
(* memory.  An unwrap that fails ends the start-up: the step is disabled,  *)
(* and BootPanics is true.                                                 *)
(***************************************************************************)
EXTENDS ObjectAllocator, Sequences, FiniteSetsExt

CONSTANTS
  Images,                       \* bound: [Task -> the segments of its image]
  StackTop, StackPages,         \* DEFAULT_STACK_TOP and map_stack(10), in pages
  DmaStart, BlkDma, NetDma,     \* DMA_ADDR_START, and the pages prepared: 2 and 32
  Device,                       \* VIRTIO_MMIO_VIRT_ADDR
  PtSpan, UpSpan,               \* pages under a last-level and an upper table
  PageSize, TcbSize, SmallSize  \* units of a frame or table, a TCB, an endpoint

Task == 0 .. 2
Kernel == 0
Blk == 1
Net == 2

\* A segment of an ELF file: data units of the file, then zeros up to size.
Segment == {g \in [addr: Nat, size: Nat, data: Nat] : g.data <= g.size}

Data(g) == g.addr .. g.addr + g.data - 1

\* An ELF file that is linked below the stack, with a page to spare for the
\* IPC buffer; its segments have bytes of their own.
Loadable(im) ==
  /\ \A s \in 1 .. Len(im) :
       im[s].addr + im[s].size <= (StackTop - StackPages - 1) * PageSize
  /\ \A r, s \in 1 .. Len(im) : r # s => Data(im[r]) \cap Data(im[s]) = {}

ASSUME BootAssumption ==
  /\ Images \subseteq [Task -> Seq(Segment) \ {<<>>}]
  /\ \A im \in Images : \A t \in Task : Loadable(im[t])
  /\ {StackTop, StackPages, DmaStart, BlkDma, NetDma, Device} \subseteq Nat
  /\ PtSpan \in Nat \ {0} /\ UpSpan \in Nat \ {0}
  /\ {PageSize, TcbSize, SmallSize} \subseteq Sizes
  /\ SlotFirst + 4 <= Radix
  /\ StackPages < StackTop /\ StackTop <= DmaStart
  /\ DmaStart + BlkDma <= Device /\ DmaStart + NetDma <= Device
  /\ (DmaStart % PtSpan) + NetDma <= PtSpan /\ (DmaStart % UpSpan) + NetDma <= UpSpan

VARIABLES
  image,   \* the images of the three tasks
  pos,     \* the entry of the script that comes next
  hand,    \* the frames that were allocated last, in order
  data,    \* what was copied into frames: <<slot, offset, byte>>
  page,    \* mapped_page of a task; 0: not mapped
  pts,     \* the tables its VSpace has
  cspace,  \* the capabilities put in its CSpace
  root     \* what the root task does, and for whom

memVars  == <<image, pos, hand, data, page, pts>>
bootVars == <<memVars, cspace, root>>

Page == 0 .. Device - 1

\* The slots of a task's CSpace that are written: 18 the fault endpoint, 20
\* the IRQ endpoint, from 26 the custom ones, 1023 the receive slot.
TaskSlot == {18, 20, 26, 27, 28, 1023}
-----------------------------------------------------------------------------
(* Loading an image.                                                       *)

\* coarsen_footprint, in pages: the first page and the page after the last.
FirstPage(a) == a \div PageSize
EndPage(a)   == (a + PageSize - 1) \div PageSize

\* footprint of an image.
ImageFirst(im) == FirstPage(Min({im[i].addr : i \in 1 .. Len(im)}))
ImageEnd(im)   == EndPage(Max({im[i].addr + im[i].size : i \in 1 .. Len(im)}))

\* The pages a segment's data spans.
DataPages(g) == EndPage(g.addr + g.data) - FirstPage(g.addr)

\* Mutant of OffsetIntoPage: not reset after the first page.
OffsetIntoPage_Kept(g, i) == g.addr % PageSize

\* offset_into_page when the i-th page of a segment is copied to.
OffsetIntoPage(g, i) == IF i = 1 THEN g.addr % PageSize ELSE 0

\* How much of the data the pages before the i-th took, and data_len.
Taken(g, i)   == IF i = 1 THEN 0 ELSE (i - 1) * PageSize - (g.addr % PageSize)
DataLen(g, i) == Min({PageSize - OffsetIntoPage(g, i), g.data - Taken(g, i)})

\* The offsets of the i-th page that are copied to.
Into(g, i) == OffsetIntoPage(g, i) .. OffsetIntoPage(g, i) + DataLen(g, i) - 1

-----------------------------------------------------------------------------
(* The script.                                                             *)

Origin            == [op |-> "origin", t |-> Kernel, x |-> CNodeSize]
Object(n)         == [op |-> "object", t |-> Kernel, x |-> n]
NormalCap         == [op |-> "normal", t |-> Kernel, x |-> 0]
CopySlot          == [op |-> "slot", t |-> Kernel, x |-> 0]
Table(t, id)      == [op |-> "table", t |-> t, x |-> id]
Take(i)           == [op |-> "take", t |-> Kernel, x |-> i]
CopySegment(t, s) == [op |-> "copy", t |-> t, x |-> s]
FrameMap(t, p, i) == [op |-> "frame_map", t |-> t, x |-> <<p, i>>]
MapPage(t, p)     == [op |-> "map_page", t |-> t, x |-> <<p, 1>>]
MapDevice(t)      == [op |-> "device", t |-> t, x |-> <<Device>>]
Give(t, c, o)     == [op |-> "give", t |-> t, x |-> <<c, o>>]

\* A frame for each of n pages, each mapped before the next is allocated.
MapPages(t, first, n) ==
  [i \in 1 .. 2 * n |-> IF i % 2 = 1 THEN Take(1) ELSE MapPage(t, first + (i \div 2) - 1)]

\* One level of map_intermediate_translation_tables, for the pages from first
\* to last.
ImageTables(t, level, span, first, last) ==
  [i \in 1 .. (last \div span) - (first \div span) + 1 |->
     Table(t, <<level, (first \div span) + i - 1>>)]

\* Sel4TaskHelper::new mints both endpoints with the badge of the task.
NewTask(t) == <<Give(t, 18, "fault_ep"), Give(t, 20, "irq_ep")>>

\* build_kernel_thread.  make_child_vspace makes two CNodes and the VSpace,
\* then tables for the image and the IPC buffer behind it; map_image takes all
\* the frames, then copies the data of every segment, then maps the frames.
BuildKernelThread(t, im) ==
  LET first == ImageFirst(im)
      end   == ImageEnd(im)
  IN  <<<<Object(CNodeSize), Object(CNodeSize), Object(PageSize)>>,
        ImageTables(t, 2, UpSpan, first, end),
        ImageTables(t, 1, PtSpan, first, end),
        [i \in 1 .. end - first |-> Take(i)],
        [s \in 1 .. Len(im) |-> CopySegment(t, s)],
        [i \in 1 .. end - first |-> FrameMap(t, first + i - 1, i)],
        <<Take(1), FrameMap(t, end, 1), Object(TcbSize)>>,
        NewTask(t),
        MapPages(t, StackTop - StackPages, StackPages)>>

PrepareBlk ==
  <<Object(SmallSize), Object(SmallSize), Give(Kernel, 27, "blk_dev_ep"),
    Give(Blk, 26, "blk_irq_not"), Give(Blk, 28, "blk_dev_ep"), CopySlot, MapDevice(Blk)>>

PrepareNet ==
  <<Object(SmallSize), Object(SmallSize), Give(Kernel, 28, "net_dev_ep"),
    Give(Net, 26, "net_irq_not"), Give(Net, 28, "net_dev_ep"), CopySlot, MapDevice(Net)>>

\* rebuild_cspace, the two endpoints, common_irq_handler, the tasks, and what
\* each of them is given.
Script(im) ==
  <<<<<<Origin, Object(SmallSize), Object(SmallSize), NormalCap>>>>,
    BuildKernelThread(Kernel, im[Kernel]),
    BuildKernelThread(Blk, im[Blk]),
    BuildKernelThread(Net, im[Net]),
    <<<<Give(Kernel, 26, "untyped")>>,
      PrepareBlk, MapPages(Blk, DmaStart, BlkDma),
      PrepareNet, MapPages(Net, DmaStart, NetDma)>>>>
-----------------------------------------------------------------------------
RootPc == {"boot", "start", "recv", "handler", "call", "wait"}

BootInit ==
  /\ AllocInit
  /\ image \in Images
  /\ pos = [stage |-> 1, part |-> 1, i |-> 1]
  /\ hand = <<>> /\ data = {}
  /\ page = [t \in Task |-> [p \in Page |-> 0]]
  /\ pts = [t \in Task |-> {}]
  /\ cspace = [t \in Task |-> [c \in TaskSlot |-> "none"]]
  /\ root = [pc |-> "boot", who |-> Kernel, irq |-> "none"]

\* The stage and the part the root task is in, and the next entry.
Stage == Script(image)[pos.stage]
Part  == Stage[pos.part]
Now   == Part[pos.i]

Step(op) == root.pc = "boot" /\ pos.i <= Len(Part) /\ Now.op = op

Done == pos' = [pos EXCEPT !.i = @ + 1]

\* The tables a page needs, and those of the large page of the device.
TablesOf(p)    == {<<2, p \div UpSpan>>, <<1, p \div PtSpan>>}
LargeTables(p) == {<<2, p \div UpSpan>>}

\* The tables that frame_map misses.
Missing ==
  (IF Now.op = "device" THEN LargeTables(Now.x[1]) ELSE TablesOf(Now.x[1])) \ pts[Now.t]

\* It fails at the highest level that is missing.
NextTable == CHOOSE id \in Missing : \A other \in Missing : other[1] <= id[1]

BootOrigin ==
  /\ Step("origin")
  /\ AllocateOrigin(Now.x)
  /\ Done
  /\ UNCHANGED <<image, hand, data, page, pts, cspace, root>>

BootObject ==
  /\ Step("object")
  /\ AllocateAndRetype(Now.x)
  /\ Done
  /\ UNCHANGED <<image, hand, data, page, pts, cspace, root>>

BootNormalCap ==
  /\ Step("normal")
  /\ AllocateNormalCap
  /\ Done
  /\ UNCHANGED <<image, hand, data, page, pts, cspace, root>>

\* A slot for the device's frame, which comes from another untyped.
BootSlot ==
  /\ Step("slot")
  /\ next \div Radix \in SlotCNodes
  /\ AllocateSlot
  /\ Done
  /\ UNCHANGED <<image, hand, data, page, pts, cspace, root>>

BootTable ==
  /\ Step("table")
  /\ AllocateAndRetype(PageSize)
  /\ pts' = [pts EXCEPT ![Now.t] = @ \cup {Now.x}]
  /\ Done
  /\ UNCHANGED <<image, hand, data, page, cspace, root>>

\* A frame is allocated, to be mapped later.
BootTake ==
  /\ Step("take")
  /\ AllocateAndRetype(PageSize)
  /\ hand' = [i \in 1 .. Now.x |-> IF i = Now.x THEN next ELSE hand[i]]
  /\ Done
  /\ UNCHANGED <<image, data, page, pts, cspace, root>>

\* What the frames hold once the data of segment s is copied, page by page.
Copied(im, s) ==
  LET g          == im[s]
      Frame(i)   == hand[FirstPage(g.addr) - ImageFirst(im) + i]
      pages      == 1 .. DataPages(g)
      Byte(i, o) == <<s, Taken(g, i) + o - OffsetIntoPage(g, i)>>
  IN  {d \in data : \A i \in pages : d[1] # Frame(i) \/ d[2] \notin Into(g, i)} \cup
      UNION {{<<Frame(i), o, Byte(i, o)>> : o \in Into(g, i)} : i \in pages}

BootCopy ==
  /\ Step("copy")
  /\ data' = Copied(image[Now.t], Now.x)
  /\ Done
  /\ UNCHANGED <<allocVars, image, hand, page, pts, cspace, root>>

\* Error::FailedLookup: map_page, or the loop that maps the device, makes the
\* table and tries again.
BootMissingTable ==
  /\ Step("map_page") \/ Step("device")
  /\ Missing # {}
  /\ AllocateAndRetype(PageSize)
  /\ pts' = [pts EXCEPT ![Now.t] = @ \cup {NextTable}]
  /\ UNCHANGED <<image, pos, hand, data, page, cspace, root>>

BootMap ==
  /\ Step("map_page") \/ Step("frame_map")
  /\ Missing = {}
  /\ page' = [page EXCEPT ![Now.t][Now.x[1]] = hand[Now.x[2]]]
  /\ Done
  /\ UNCHANGED <<allocVars, image, hand, data, pts, cspace, root>>

BootDevice ==
  /\ Step("device")
  /\ Missing = {}
  /\ Done
  /\ UNCHANGED <<allocVars, image, hand, data, page, pts, cspace, root>>

\* mint or copy into the CSpace of a task, where the slot must be empty.
BootGive ==
  /\ Step("give")
  /\ cspace[Now.t][Now.x[1]] = "none"
  /\ cspace' = [cspace EXCEPT ![Now.t][Now.x[1]] = Now.x[2]]
  /\ Done
  /\ UNCHANGED <<allocVars, image, hand, data, page, pts, root>>

\* An unwrap of the start-up fails: no slot, no memory, no CNode for the slot,
\* no table for a page of the image, or a slot that is taken.
BootPanics ==
  \/ Step("origin") /\ ~OriginOk(Now.x)
  \/ Step("object") /\ ~RetypeOk(Now.x)
  \/ Step("normal") /\ next >= SlotEnd
  \/ Step("slot") /\ ~(SlotOk /\ next \div Radix \in SlotCNodes)
  \/ (Step("table") \/ Step("take")) /\ ~RetypeOk(PageSize)
  \/ (Step("map_page") \/ Step("device")) /\ Missing # {} /\ ~RetypeOk(PageSize)
  \/ Step("frame_map") /\ Missing # {}
  \/ Step("give") /\ cspace[Now.t][Now.x[1]] # "none"

\* A part ends, and the next one begins, or the next stage.
BootNext ==
  /\ root.pc = "boot" /\ pos.i > Len(Part)
  /\ pos' = IF pos.part < Len(Stage) THEN [stage |-> pos.stage, part |-> pos.part + 1, i |-> 1]
            ELSE [stage |-> pos.stage + 1, part |-> 1, i |-> 1]
  /\ pos.part < Len(Stage) \/ pos.stage < Len(Script(image))
  /\ UNCHANGED <<allocVars, image, hand, data, page, pts, cspace, root>>

\* The script is done: run_tasks comes next.
BootDone ==
  /\ root.pc = "boot" /\ pos.i > Len(Part)
  /\ pos.part = Len(Stage) /\ pos.stage = Len(Script(image))
  /\ root' = [root EXCEPT !.pc = "start"]
  /\ UNCHANGED <<allocVars, memVars, cspace>>

Boot ==
  \/ BootOrigin \/ BootObject \/ BootNormalCap \/ BootSlot \/ BootTable
  \/ BootTake \/ BootCopy \/ BootMissingTable \/ BootMap \/ BootDevice
  \/ BootGive \/ BootNext \/ BootDone
-----------------------------------------------------------------------------
(* Properties.                                                             *)

\* The variables of the start-up have their types.
BootTypeOK ==
  /\ AllocTypeOK
  /\ image \in Images
  /\ hand \in Seq(Slot)
  /\ page \in [Task -> [Page -> Slot \cup {0}]]
  /\ root.pc \in RootPc /\ root.who \in Task

\* The object allocated for page p of task t is followed by page p + 1, unless
\* the allocator had to make a CNode in between.
Joined(t, p) ==
  \/ at[page[t][p + 1]] = at[page[t][p]] + PageSize
  \/ \E s \in page[t][p] + 1 .. page[t][p + 1] : s % Radix = 0

\* What a task finds at address a: the byte copied there, if any.
Content(t, a) ==
  {d[3] : d \in {e \in data : e[1] = page[t][FirstPage(a)] /\ e[2] = a % PageSize}}

\* When the tasks are started, each finds its image in its address space: the
\* bytes of every segment at their addresses, and nothing but zeros behind the
\* data of a segment and around the segments, also where two segments meet in
\* one page or a segment begins inside one.
ImageLoaded ==
  root.pc # "boot" =>
    \A t \in Task :
      \A a \in ImageFirst(image[t]) * PageSize .. ImageEnd(image[t]) * PageSize - 1 :
        Content(t, a) =
          {<<s, a - image[t][s].addr>> : s \in
             {r \in 1 .. Len(image[t]) :
                a \in image[t][r].addr .. image[t][r].addr + image[t][r].data - 1}}

\* The tables of one level that an image and the page behind it need.
TablesFor(im, span) == (ImageEnd(im) \div span) - (ImageFirst(im) \div span) + 1

\* The slots that go into a task at most: two CNodes, the VSpace, the tables
\* and frames of its image, the IPC buffer, the TCB, and for each page of the
\* stack a frame and two tables.
TaskSlots(im) ==
  5 + TablesFor(im, UpSpan) + TablesFor(im, PtSpan) + (ImageEnd(im) - ImageFirst(im)) + 3 * StackPages

\* The slots that the start-up takes at most.
SlotsNeeded(im) ==
  12 + TaskSlots(im[Kernel]) + TaskSlots(im[Blk]) + TaskSlots(im[Net]) + 3 * (BlkDma + NetDma)

\* The memory that objects of a page at most and CNodes take at most: aligning
\* one leaves a gap that is smaller than it.
MemNeeded(objects, nodes) == 2 * PageSize * objects + 2 * CNodeSize * nodes

\* The range of slots and the untyped suffice for any of the images.  Seven
\* CNodes are objects of the start-up, the others are made for the slots.
Enough ==
  /\ TcbSize <= PageSize /\ SmallSize <= PageSize
  /\ \A im \in Images :
       LET end == SlotFirst + SlotsNeeded(im)
       IN  end <= SlotEnd /\ MemNeeded(SlotsNeeded(im), 7 + (end \div Radix)) <= UtSize
=============================================================================
