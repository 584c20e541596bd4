------------------------- MODULE RootServicesProofs -------------------------
(***************************************************************************)
(* The root task as a whole: its start-up, its services and the tasks, for *)
(* any images, any sizes of the tables and any amount of memory.           *)
(***************************************************************************)
EXTENDS ServiceProofs, RootMemoryProofs, RootBudgetProofs

(* The start-up and the services together.                                 *)

\* The tasks run once the whole script is done.
EndPos ==
  root.pc # "boot" => pos.stage = 5 /\ pos.part = 5 /\ pos.i = 2 * NetDma + 1

\* A slot is empty until the place of the script that fills it.
SlotsEmpty ==
  root.pc = "boot" =>
    \A t \in Task, c \in TaskSlot : \A o : \A s \in 1 .. 5 :
      \A p \in 1 .. Len(Script(image)[s]) : \A i \in 1 .. Len(PartOf(s, p)) :
        GivenAt(t, c, o, s, p, i) /\ ~Passed(s, p, i) => cspace[t][c] = "none"

RootInv == MemInv /\ ServiceInv /\ EndPos /\ SlotsEmpty

\* Until the start-up is over, only the root task and the devices take steps.
LEMMA BootAlone ==
  ASSUME ServiceInv, Next, root.pc = "boot"
  PROVE  Booting \/ UNCHANGED <<allocVars, memVars, cspace, root>>
<1>1. ASSUME NEW t \in Task, NEW op
      PROVE  ~At(t, op)
  <2>1. StartOK /\ t >= Kernel
    BY DEF ServiceInv, Task, Kernel
  <2>2. pc[t] = 0
    BY <2>1 DEF StartOK
  <2>3. pc[t] \notin 1 .. Len(Program(t))
    BY <2>2
  <2> QED BY <2>3, Zenon DEF At
<1>2. ASSUME NEW t \in Task
      PROVE  ~TaskStep(t)
  <2>1. ~(DmaAlloc(t) \/ CallRoot(t) \/ Panic(t) \/ RecvCap(t) \/ ReplyCap(t))
    BY <1>1, Zenon DEF DmaAlloc, CallRoot, Panic, RecvCap, ReplyCap
  <2>2. ~(Bind(t) \/ IrqAck(t) \/ Wait(t) \/ Submit(t) \/ DevAck(t))
    BY <1>1, Zenon DEF Bind, IrqAck, Wait, Submit, DevAck
  <2> QED BY <2>1, <2>2, Zenon DEF TaskStep
<1>3. RootStep => Booting
  <2>1. root.pc \notin {"start", "recv", "handler"}
    OBVIOUS
  <2>2. ~RunTasks /\ ~MakeHandler /\ \A name : ~Received(name)
    BY <2>1, Zenon DEF RunTasks, MakeHandler, Received
  <2> QED BY <2>2, Zenon
          DEF RootStep, ServeRegisterIRQ, ServeWithCap, ServeTranslateAddr, ServeFault
<1>4. CASE (\E l \in Line : Fire(l)) \/ Keypress \/ DeviceReads
  BY <1>4, ZenonT(30) DEF Fire, Keypress, DeviceReads, bootVars
<1> QED BY <1>2, <1>3, <1>4, Zenon DEF Next

LEMMA BootPc ==
  ASSUME Boot
  PROVE  root.pc = "boot"
  BY Zenon DEF Boot, BootOrigin, BootObject, BootNormalCap, BootSlot, BootTable, BootTake,
     BootCopy, BootMissingTable, BootMap, BootDevice, BootGive, BootNext, BootDone, Step

LEMMA EndStep ==
  ASSUME RootInv, Next
  PROVE  EndPos'
<1>1. EndPos /\ ServiceInv /\ PosOK /\ image \in Images
  BY Zenon DEF RootInv, MemInv
<1>2. CASE root.pc # "boot"
  <2>1. pos' = pos /\ pos.stage = 5 /\ pos.part = 5 /\ pos.i = 2 * NetDma + 1
    BY <1>1, <1>2, AfterBoot, BootPc, Zenon DEF Booting, memVars, EndPos
  <2> QED BY <2>1, Zenon DEF EndPos
<1>3. CASE root.pc = "boot" /\ ~BootDone
  <2>1. Boot => BootDone \/ UNCHANGED root
    BY Zenon DEF Boot, BootOrigin, BootObject, BootNormalCap, BootSlot, BootTable, BootTake,
       BootCopy, BootMissingTable, BootMap, BootDevice, BootGive, BootNext
  <2>2. UNCHANGED root
    BY <1>1, <1>3, <2>1, BootAlone, Zenon DEF Booting
  <2> QED BY <1>3, <2>2, Zenon DEF EndPos
<1>4. CASE BootDone
  <2>1. /\ pos.i > Len(Part) /\ pos.part = Len(Stage) /\ pos.stage = Len(Script(image))
        /\ pos' = pos
    BY <1>4, Zenon DEF BootDone, memVars
  <2>2. pos.stage = 5
    BY <2>1, Parts, Zenon
  <2>3. pos.part = 5
    BY <2>1, <2>2, Parts, Zenon DEF Stage
  <2>4. Part = PartOf(5, 5)
    BY <2>2, <2>3, Zenon DEF Part, Stage, PartOf
  <2>5. Len(PartOf(5, 5)) = 2 * NetDma
    BY <1>1, RootLengths, Zenon
  <2>6. pos.i \in Nat /\ pos.i <= Len(PartOf(5, 5)) + 1
    BY <1>1, <2>2, <2>3 DEF PosOK
  <2>7. pos.i = 2 * NetDma + 1
    BY <2>1, <2>4, <2>5, <2>6, Constants, SMTT(20)
  <2> QED BY <2>1, <2>2, <2>3, <2>7, Zenon DEF EndPos
<1> QED BY <1>2, <1>3, <1>4, Zenon

\* A slot is filled at one place only.
LEMMA OnePlace ==
  ASSUME NEW t \in Task, NEW c, NEW o, NEW s, NEW p, NEW i, GivenAt(t, c, o, s, p, i),
         NEW u, NEW q, NEW j, NEW k, GivenAt(t, c, u, q, j, k)
  PROVE  q = s /\ j = p /\ k = i
<1>1. Kernel # Blk /\ Kernel # Net /\ Blk # Net
  BY Programs
<1> QED BY <1>1 DEF GivenAt

LEMMA SlotsStep ==
  ASSUME RootInv, Next
  PROVE  SlotsEmpty'
<1>1. /\ SlotsEmpty /\ ServiceInv /\ PosOK /\ image \in Images
      /\ cspace = [t \in Task |-> [c \in TaskSlot |-> cspace[t][c]]]
  BY Zenon DEF RootInv, MemInv, ServiceInv, ServiceTyped
<1>2. SUFFICES ASSUME root'.pc = "boot"
               PROVE  SlotsEmpty'
  BY Zenon DEF SlotsEmpty
<1>3. root.pc = "boot"
  <2>1. root'.pc = "boot" => UNCHANGED root \/ (RunTasks /\ root'.pc = root.pc)
    BY <1>1, RootSteps
  <2> QED BY <1>2, <2>1, Zenon
<1>4. CASE UNCHANGED <<memVars, cspace>>
  <2>1. image' = image /\ pos' = pos /\ cspace' = cspace
    BY <1>4, Zenon DEF memVars
  <2>2. \A s, p, i : Passed(s, p, i)' <=> Passed(s, p, i)
    BY <2>1, Zenon DEF Passed
  <2>3. \A s, p : PartOf(s, p)' = PartOf(s, p)
    BY <2>1, SameImage, Zenon
  <2> QED BY <1>1, <1>3, <2>1, <2>2, <2>3, Zenon DEF SlotsEmpty
<1>5. CASE Boot
  <2>1. image' = image
    BY <1>1, <1>5, StepPos, Zenon
  <2>2. Script(image)' = Script(image) /\ \A s, p : PartOf(s, p)' = PartOf(s, p)
    BY <2>1, SameImage, Zenon
  <2>3. SUFFICES ASSUME NEW t \in Task, NEW c \in TaskSlot, NEW o, NEW s \in 1 .. 5,
                        NEW p \in 1 .. Len(Script(image)[s]), NEW i \in 1 .. Len(PartOf(s, p)),
                        GivenAt(t, c, o, s, p, i), ~Passed(s, p, i)'
                 PROVE  cspace'[t][c] = "none"
    BY <2>2, Zenon DEF SlotsEmpty
  <2>4. Passed(s, p, i) => Passed(s, p, i)'
    <3>1. CASE BootNext
      BY <1>1, <3>1, NextPos, Zenon
    <3>2. CASE BootMissingTable \/ BootDone
      <4>1. pos' = pos
        BY <3>2, Zenon DEF BootMissingTable, BootDone, memVars
      <4> QED BY <4>1, Zenon DEF Passed
    <3>3. CASE DoneStep
      <4>1. s \in Nat /\ p \in Nat /\ i \in Nat
        BY <1>1, StageLength, PartLength, SMTT(20)
      <4> QED BY <1>1, <2>1, <3>3, <4>1, DonePos, Zenon DEF DoneStep
    <3> QED BY <1>5, <3>1, <3>2, <3>3, BootCases, Zenon
  <2>5. cspace[t][c] = "none"
    BY <1>1, <1>3, <2>3, <2>4, Zenon DEF SlotsEmpty
  <2>6. CASE UNCHANGED cspace
    BY <2>5, <2>6, Zenon
  <2>7. CASE BootGive
    <3>1. Step("give") /\ Puts(Now.t, Now.x[1], Now.x[2]) /\ Done
      BY <2>7, Zenon DEF BootGive, Puts
    <3>2. Now.t \in Task /\ GivenAt(Now.t, Now.x[1], Now.x[2], pos.stage, pos.part, pos.i)
      BY <1>1, <3>1, AtGive, Zenon
    <3>3. PICK a \in Nat, b \in Nat, d \in Nat : a = pos.stage /\ b = pos.part /\ d = pos.i
      <4>1. pos.stage \in Nat /\ pos.part \in Nat /\ pos.i \in Nat
        BY <1>1 DEF PosOK
      <4> QED BY <4>1
    <3>4. Passed(a, b, d)'
      <4>1. pos.i <= Len(Part)
        BY <3>1, Zenon DEF Step
      <4> QED BY <1>1, <2>1, <3>1, <3>3, <4>1, DonePos, Zenon
    <3>5. Now.t # t \/ Now.x[1] # c
      <4>1. SUFFICES ASSUME Now.t = t, Now.x[1] = c
                     PROVE  FALSE
        BY Zenon
      <4>2. GivenAt(t, c, Now.x[2], a, b, d)
        BY <3>2, <3>3, <4>1, Zenon
      <4>3. a = s /\ b = p /\ d = i
        BY <2>3, <4>2, OnePlace
      <4> QED BY <2>3, <3>4, <4>3, Zenon
    <3>6. Now.x[1] \in TaskSlot
      <4>1. Now.x[1] \in {18, 20, 26, 27, 28}
        BY <3>2 DEF GivenAt
      <4> QED BY <4>1 DEF TaskSlot
    <3>7. \A u \in Task, e \in TaskSlot : u # Now.t \/ e # Now.x[1] => cspace'[u][e] = cspace[u][e]
      BY <1>1, <3>1, <3>2, <3>6, PutSlot, ZenonT(30)
    <3> QED BY <2>5, <3>5, <3>7, Zenon
  <2>8. BootGive \/ UNCHANGED cspace
    BY <1>5, Zenon DEF Boot, BootOrigin, BootObject, BootNormalCap, BootSlot, BootTable,
       BootTake, BootCopy, BootMissingTable, BootMap, BootDevice, BootNext, BootDone
  <2> QED BY <2>6, <2>7, <2>8, Zenon
<1> QED BY <1>1, <1>3, <1>4, <1>5, BootAlone, Zenon DEF Booting

LEMMA GivenSlots ==
  ASSUME image \in Images, PosOK
  PROVE  GivesApart
<1> SUFFICES ASSUME Step("give")
             PROVE  /\ Now.t \in Task /\ Now.x[1] \in TaskSlot
                    /\ Now.x[1] # RecvSlot /\ (Now.x[1] # 27 \/ Now.t # Blk)
  BY Zenon DEF GivesApart
<1>1. Now.t \in Task /\ GivenAt(Now.t, Now.x[1], Now.x[2], pos.stage, pos.part, pos.i)
  BY AtGive, Zenon
<1>2. Now.x[1] \in {18, 20, 26, 27, 28} /\ (Now.x[1] = 27 => Now.t = Kernel) /\ Kernel # Blk
  BY <1>1, Programs DEF GivenAt
<1> QED BY <1>1, <1>2 DEF TaskSlot, RecvSlot

LEMMA RootInvInit == ServiceInit => RootInv
<1> SUFFICES ASSUME ServiceInit
             PROVE  RootInv
  OBVIOUS
<1>1. MemInv /\ ServiceInv
  BY MemInit, ServicesInit, Zenon DEF ServiceInit
<1>2. /\ cspace = [t \in Task |-> [c \in TaskSlot |-> "none"]]
      /\ root = [pc |-> "boot", who |-> Kernel, irq |-> "none"]
  BY Zenon DEF ServiceInit, BootInit
<1>3. EndPos
  BY <1>2 DEF EndPos
<1>4. SlotsEmpty
  BY <1>2, Zenon DEF SlotsEmpty
<1> QED BY <1>1, <1>3, <1>4, Zenon DEF RootInv

LEMMA RootInvStep == RootInv /\ [Next]_vars => RootInv'
<1> SUFFICES ASSUME RootInv, [Next]_vars
             PROVE  RootInv'
  OBVIOUS
<1>1. /\ MemInv /\ ServiceInv /\ EndPos /\ SlotsEmpty /\ image \in Images /\ PosOK
      /\ at \in [Slot -> Nat] /\ page \in [Task -> [Page -> Slot \cup {0}]]
  BY Zenon DEF RootInv, MemInv, AllocOK, AllocInv, AllocTypeOK, PageOK
<1>2. CASE Next
  <2>1. MemInv'
    BY <1>1, <1>2, AfterBoot, MemStep, MemSame, Zenon DEF Booting
  <2>2. ServiceInv'
    BY <1>1, <1>2, GivenSlots, ServicesStep, Zenon
  <2> QED BY <1>2, <2>1, <2>2, EndStep, SlotsStep, Zenon DEF RootInv
<1>3. CASE UNCHANGED vars
  <2>1. MemInv' /\ ServiceInv'
    BY <1>1, <1>3, MemSame, ServicesSame, Zenon DEF vars, bootVars
  <2>2. UNCHANGED <<image, pos, cspace, root>>
    BY <1>3, Zenon DEF vars, bootVars, memVars
  <2>3. EndPos'
    BY <1>1, <2>2, Zenon DEF EndPos
  <2>4. SlotsEmpty'
    <3>1. \A s, p, i : Passed(s, p, i)' <=> Passed(s, p, i)
      BY <2>2, Zenon DEF Passed
    <3>2. \A s, p : PartOf(s, p)' = PartOf(s, p)
      BY <2>2, SameImage, Zenon
    <3> QED BY <1>1, <2>2, <3>1, <3>2, Zenon DEF SlotsEmpty
  <2> QED BY <2>1, <2>3, <2>4, Zenon DEF RootInv
<1> QED BY <1>2, <1>3, Zenon

\* The state of the start-up and of the services that the other results rest
\* on holds throughout, for all images and sizes.
THEOREM RootInvariant == Spec => []RootInv
<1>1. ServiceInit => RootInv
  BY RootInvInit
<1>2. RootInv /\ [Next]_vars => RootInv'
  BY RootInvStep
<1> QED BY <1>1, <1>2, PTL DEF Spec

(* What holds of the root task and the tasks.                              *)

\* Everything is done by the time a task runs.
LEMMA ScriptDone ==
  ASSUME RootInv, root.pc # "boot"
  PROVE  /\ \A t \in Task : \A p, i : Passed(t + 2, p, i)
         /\ \A i : Passed(5, 3, i)
         /\ \A j \in 1 .. NetDma : Passed(5, 5, 2 * j)
<1>1. pos.stage = 5 /\ pos.part = 5 /\ pos.i = 2 * NetDma + 1
  BY Zenon DEF RootInv, EndPos
<1> QED BY <1>1, Constants DEF Passed, Task

\* The pages the services and the drivers rely on are there when a task runs.
LEMMA PagesReady ==
  ASSUME RootInv, root.pc # "boot"
  PROVE  PagesThere /\ PagesJoined
<1>1. MemInv /\ image \in Images /\ Net \in Task /\ Blk \in Task
  BY Programs DEF RootInv, MemInv
<1>2. /\ \A j \in 1 .. BlkDma : page[Blk][DmaStart + j - 1] # 0
      /\ \A j \in 1 .. NetDma : page[Net][DmaStart + j - 1] # 0
      /\ \A j \in 1 .. StackPages : page[Blk][StackTop - StackPages + j - 1] # 0
      /\ \A k \in 1 .. Frames(Net) : page[Net][First(Net) + k - 1] # 0
  BY <1>1, ScriptDone, Zenon DEF MemInv, PagesMapped
<1>3. ASSUME NEW p \in First(Net) .. End(Net) - 1
      PROVE  p \in Page /\ page[Net][p] # 0
  <2>1. First(Net) \in Nat /\ End(Net) \in Nat /\ End(Net) < StackTop - StackPages
    BY <1>1, ImagePages, Zenon
  <2>2. /\ p \in Page /\ p - First(Net) + 1 \in 1 .. Frames(Net)
        /\ First(Net) + (p - First(Net) + 1) - 1 = p
    BY <2>1, Constants DEF Page, Frames
  <2> QED BY <1>2, <2>2, Zenon
<1>4. PagesThere
  BY <1>2, <1>3, Zenon DEF PagesThere, First, End
<1>5. \A j \in 2 .. NetDma - 1 : Passed(5, 5, 2 * j + 2)
  <2> TAKE j \in 2 .. NetDma - 1
  <2>1. j + 1 \in 1 .. NetDma /\ 2 * (j + 1) = 2 * j + 2
    BY Constants
  <2> QED BY ScriptDone, <2>1, Zenon
<1> QED BY <1>1, <1>4, <1>5, Zenon DEF MemInv, DmaOK, DmaJoined, PagesJoined

\* When run_tasks begins, map_image has put every segment of every image at
\* its address, and zeros elsewhere.
THEOREM ImagesLoaded == Spec => []ImageLoaded
<1>1. RootInv => ImageLoaded
  <2> SUFFICES ASSUME RootInv, root.pc # "boot", NEW t \in Task,
                      NEW a \in ImageFirst(image[t]) * PageSize .. ImageEnd(image[t]) * PageSize - 1
               PROVE  Content(t, a) =
                        {<<s, a - image[t][s].addr>> : s \in
                           {r \in 1 .. Len(image[t]) :
                              a \in image[t][r].addr .. image[t][r].addr + image[t][r].data - 1}}
    BY Zenon DEF ImageLoaded
  <2> DEFINE im == image[t]
             q == a \div PageSize
             o == a % PageSize
             f == page[t][q]
             Here == {r \in 1 .. Len(im) : a \in im[r].addr .. im[r].addr + im[r].data - 1}
             Bytes == {<<s, a - im[s].addr>> : s \in Here}
  <2>1. MemInv /\ image \in Images /\ DataTyped /\ FramesLoaded
    BY Zenon DEF RootInv, MemInv, DataOK
  <2>2. First(t) \in Nat /\ End(t) \in Nat /\ First(t) = ImageFirst(im) /\ End(t) = ImageEnd(im)
    BY <2>1, ImagePages, Zenon DEF First, End
  <2>3. /\ a \in Nat /\ q \in First(t) .. End(t) - 1 /\ o \in 0 .. PageSize - 1
        /\ q * PageSize + o = a
    BY <2>2, PageNumber, Zenon
  <2>4. PICK k \in 1 .. Frames(t) : First(t) + k - 1 = q
    <3>1. q - First(t) + 1 \in 1 .. Frames(t) /\ First(t) + (q - First(t) + 1) - 1 = q
      BY <2>2, <2>3 DEF Frames
    <3> QED BY <3>1
  <2>5. Passed(t + 2, 6, k)
    BY ScriptDone, Zenon
  <2>6. Holds(data, im, f, k, Len(im))
    BY <2>1, <2>4, <2>5, Zenon DEF FramesLoaded
  <2>7. (ImageFirst(im) + k - 1) * PageSize + o = a
    BY <2>2, <2>3, <2>4, Zenon
  <2>8. \A b : <<f, o, b>> \in data <=> \E s \in 1 .. Len(im) : a \in Data(im[s]) /\ b = <<s, a - im[s].addr>>
    <3> DEFINE c == (ImageFirst(im) + k - 1) * PageSize + o
    <3>1. \A b : <<f, o, b>> \in data <=> \E s \in 1 .. Len(im) : c \in Data(im[s]) /\ b = <<s, c - im[s].addr>>
      BY <2>3, <2>6, Zenon DEF Holds
    <3>2. c = a
      BY <2>7, Zenon
    <3> HIDE DEF c, o, f, im
    <3> QED BY <3>1, <3>2, Zenon
  <2>9. \A b : b \in Content(t, a) <=> <<f, o, b>> \in data
    <3>1. \A b : b \in Content(t, a) <=> \E d \in data : d[1] = f /\ d[2] = o /\ b = d[3]
      BY Zenon DEF Content, FirstPage
    <3>2. ASSUME NEW d \in data
          PROVE  d = <<d[1], d[2], d[3]>>
      BY <2>1, Zenon DEF DataTyped
    <3>3. \A b : <<f, o, b>>[1] = f /\ <<f, o, b>>[2] = o /\ <<f, o, b>>[3] = b
      OBVIOUS
    <3> HIDE DEF f, o
    <3> QED BY <3>1, <3>2, <3>3
  <2>10. \A b : b \in Bytes <=> \E s \in 1 .. Len(im) : a \in Data(im[s]) /\ b = <<s, a - im[s].addr>>
    BY Zenon DEF Data
  <2>11. \A b : b \in Content(t, a) <=> b \in Bytes
    BY <2>8, <2>9, <2>10, Zenon
  <2>12. Content(t, a) = Bytes
    <3> HIDE DEF Bytes
    <3> QED BY <2>11, Zenon
  <2> QED BY <2>12, Zenon
<1> QED BY <1>1, RootInvariant, PTL

\* The variables of the start-up, the services and the tasks keep their types:
\* no task runs past the end of its program.
THEOREM RootTypeCorrect == Spec => []RootTypeOK
<1>1. RootInv => RootTypeOK
  <2> SUFFICES ASSUME RootInv
               PROVE  RootTypeOK
    OBVIOUS
  <2>1. MemInv /\ ServiceTyped
    BY Zenon DEF RootInv, ServiceInv
  <2>2. BootTypeOK
    BY <2>1, Zenon DEF MemInv, AllocOK, AllocInv, HandOK, PageOK, ServiceTyped, BootTypeOK
  <2>3. \A t \in Task : pc[t] \in 0 .. Len(Program(t)) + 1
    <3>1. \A t \in Task : Len(Program(t)) \in Nat /\ pc[t] \in Nat /\ pc[t] <= Len(Program(t)) + 1
      BY <2>1, Entered DEF ServiceTyped
    <3> QED BY <3>1
  <2>4. DOMAIN dma = Task /\ DOMAIN buf = Task /\ DOMAIN msg = Task
    BY <2>1, Zenon DEF ServiceTyped
  <2> QED BY <2>1, <2>2, <2>3, <2>4, Zenon DEF ServiceTyped, RootTypeOK
<1> QED BY <1>1, RootInvariant, PTL

\* The root task with its start-up keeps the promise of CapPool: whatever
\* images it loads, no slot is handed out twice and no two objects overlap.
THEOREM RootKeepsPromise == Spec => KeepsPromise
<1>1. ServiceInit => Pool!PoolInit
  BY AllocInitInv, Zenon DEF ServiceInit, BootInit
<1>2. RootInv /\ [Next]_vars => [Pool!PoolNext]_(Pool!poolVars)
  <2> SUFFICES ASSUME RootInv, [Next]_vars
               PROVE  Pool!PoolNext \/ UNCHANGED Pool!poolVars
    OBVIOUS
  <2>1. AllocNext \/ UNCHANGED allocVars
    <3>1. CASE Booting
      BY <3>1, BootAllocates, Zenon DEF RootInv, MemInv, Booting
    <3>2. UNCHANGED vars => UNCHANGED allocVars
      BY Zenon DEF vars
    <3> QED BY <3>1, <3>2, AfterBoot, Zenon
  <2>2. AllocNext => Pool!PoolNext
    BY AllocNextInv, Zenon DEF RootInv, MemInv, AllocOK
  <2>3. UNCHANGED allocVars => UNCHANGED Pool!poolVars
    BY Zenon DEF allocVars, Pool!poolVars, MemOf
  <2> QED BY <2>1, <2>2, <2>3, Zenon
<1> QED BY <1>1, <1>2, RootInvariant, PTL DEF Spec, KeepsPromise, Pool!PoolSpec

\* The pages of a buffer of the net thread's driver lie next to each other in
\* memory, except around a CNode, and begin at the address the root task told it.
THEOREM NetBuffersContiguous == Spec => []NetDmaContiguous
<1>1. RootInv => NetDmaContiguous
  BY PagesReady, BuffersJoined, Zenon DEF RootInv
<1> QED BY <1>1, RootInvariant, PTL

\* The block thread uses its buffer only after the device has read a block.
THEOREM FirstReadFinished == Spec => []FirstReadDone
<1>1. RootInv => FirstReadDone
  BY ReadBefore, Zenon DEF RootInv
<1> QED BY <1>1, RootInvariant, PTL

\* The service loop never replies to a fault: a task that faulted stays where
\* it is.
THEOREM FaultedForGood == Spec => FaultedStays
<1>1. RootInv /\ [Next]_vars =>
        [\A t \in Task : msg[t].label \in FaultLabels => pc'[t] = pc[t] /\ msg'[t] = msg[t]]_vars
  BY FaultKept, Zenon DEF RootInv
<1> QED BY <1>1, RootInvariant, PTL DEF Spec, FaultedStays

(* The unwraps.                                                            *)

\* frame_map of an image finds the tables that were made for it.
LEMMA TablesThere ==
  ASSUME RootInv, Step("frame_map")
  PROVE  Missing = {}
<1>1. MemInv /\ image \in Images /\ PosOK
  BY Zenon DEF RootInv, MemInv
<1>2. PICK t \in Task : /\ Now.t = t /\ pos.stage = t + 2 /\ pos.part \in {6, 7}
                        /\ Now.x[1] \in First(t) .. End(t)
  <2>1. /\ Now.t \in Task /\ pos.stage = Now.t + 2
        /\ \/ pos.part = 6 /\ pos.i \in 1 .. Frames(Now.t) /\ Now.x[1] = First(Now.t) + pos.i - 1
           \/ pos.part = 7 /\ Now.x[1] = End(Now.t)
    BY <1>1, AtFrameMap, Zenon
  <2>2. First(Now.t) \in Nat /\ End(Now.t) \in Nat /\ First(Now.t) <= End(Now.t)
    BY <1>1, <2>1, ImagePages, Zenon
  <2>3. pos.part \in {6, 7} /\ Now.x[1] \in First(Now.t) .. End(Now.t)
    BY <2>1, <2>2 DEF Frames
  <2> QED BY <2>1, <2>3, Zenon
<1> DEFINE p == Now.x[1]
<1>3. First(t) \in Nat /\ End(t) \in Nat /\ p \in Nat /\ First(t) <= p /\ p <= End(t)
  <2>1. First(t) \in Nat /\ End(t) \in Nat
    BY <1>1, ImagePages, Zenon
  <2> QED BY <1>2, <2>1
<1>4. ASSUME NEW span \in Nat \ {0}
      PROVE  \E i \in 1 .. TableCount(t, span) : (First(t) \div span) + i - 1 = p \div span
  <2> DEFINE a == First(t) \div span
             b == p \div span
             c == End(t) \div span
  <2>1. a \in Nat /\ b \in Nat /\ a <= b
    BY <1>3, DivMonotone, Zenon
  <2>2. c \in Nat /\ b <= c
    BY <1>3, DivMonotone, Zenon
  <2>3. TableCount(t, span) = c - a + 1
    BY Zenon DEF TableCount
  <2> HIDE DEF a, b, c
  <2>4. b - a + 1 \in 1 .. TableCount(t, span) /\ a + (b - a + 1) - 1 = b
    BY <2>1, <2>2, <2>3
  <2> QED BY <2>4 DEF a, b
<1>5. \A i : Passed(t + 2, 2, i) /\ Passed(t + 2, 3, i)
  BY <1>2 DEF Passed, Task
<1>6. <<2, p \div UpSpan>> \in pts[t]
  <2>1. PICK i \in 1 .. TableCount(t, UpSpan) : (First(t) \div UpSpan) + i - 1 = p \div UpSpan
    BY <1>4, Constants, Zenon
  <2>2. <<2, (First(t) \div UpSpan) + i - 1>> \in pts[t]
    BY <1>1, <1>5, Zenon DEF MemInv, TablesMade
  <2> QED BY <2>1, <2>2, Zenon
<1>7. <<1, p \div PtSpan>> \in pts[t]
  <2>1. PICK i \in 1 .. TableCount(t, PtSpan) : (First(t) \div PtSpan) + i - 1 = p \div PtSpan
    BY <1>4, Constants, Zenon
  <2>2. <<1, (First(t) \div PtSpan) + i - 1>> \in pts[t]
    BY <1>1, <1>5, Zenon DEF MemInv, TablesMade
  <2> QED BY <2>1, <2>2, Zenon
<1>8. Now.op # "device"
  BY DEF Step
<1> QED BY <1>2, <1>6, <1>7, <1>8, Zenon DEF Missing, TablesOf

\* An unwrap of the start-up fails for want of slots or memory only.
LEMMA StartUnwraps ==
  ASSUME RootInv, BootPanics
  PROVE  Exhausted
<1>1. ~(Step("frame_map") /\ Missing # {})
  BY TablesThere, Zenon
<1>2. ~(Step("give") /\ cspace[Now.t][Now.x[1]] # "none")
  <2> SUFFICES ASSUME Step("give")
               PROVE  cspace[Now.t][Now.x[1]] = "none"
    OBVIOUS
  <2>1. image \in Images /\ PosOK /\ SlotsEmpty
    BY Zenon DEF RootInv, MemInv
  <2>2. Now.t \in Task /\ GivenAt(Now.t, Now.x[1], Now.x[2], pos.stage, pos.part, pos.i)
    BY <2>1, AtGive, Zenon
  <2>3. Now.x[1] \in TaskSlot
    <3>1. Now.x[1] \in {18, 20, 26, 27, 28}
      BY <2>2 DEF GivenAt
    <3> QED BY <3>1 DEF TaskSlot
  <2>4. /\ root.pc = "boot" /\ pos.stage \in 1 .. 5 /\ pos.part \in Nat \ {0} /\ pos.i \in Nat \ {0}
        /\ pos.part <= Len(Script(image)[pos.stage]) /\ pos.i <= Len(PartOf(pos.stage, pos.part))
    BY <2>1 DEF PosOK, Step, Part, Stage, PartOf
  <2>5. pos.part \in 1 .. Len(Script(image)[pos.stage])
    <3>1. Len(Script(image)[pos.stage]) \in Nat
      BY <2>4, StageLength, Zenon
    <3> QED BY <2>4, <3>1
  <2>6. pos.i \in 1 .. Len(PartOf(pos.stage, pos.part))
    <3>1. Len(PartOf(pos.stage, pos.part)) \in Nat
      BY <2>1, <2>4, <2>5, PartLength, Zenon
    <3> QED BY <2>4, <3>1
  <2>7. ~Passed(pos.stage, pos.part, pos.i)
    BY <2>4 DEF Passed
  <2> QED BY <2>1, <2>2, <2>3, <2>4, <2>5, <2>6, <2>7, Zenon DEF SlotsEmpty
<1>3. /\ AllocInv /\ NodeReady /\ image \in Images /\ PosOK
      /\ pos.stage = 1 => next = SlotFirst + pos.i - 1
  BY Zenon DEF RootInv, MemInv, AllocOK
<1>4. /\ next \in Nat /\ SlotEnd \in Nat /\ UtSize \in Nat /\ water \in Nat /\ PageSize \in Sizes
      /\ CNodeSize \in Nat \ {0} /\ SlotFirst \in Nat /\ Radix \in Nat /\ SlotFirst + 4 <= Radix
  BY <1>3, AllocatorAssumption, BootAssumption, SMTT(20) DEF AllocInv, AllocTypeOK
<1>5. ~(Step("origin") /\ ~OriginOk(Now.x)) \/ Exhausted
  <2> SUFFICES ASSUME Step("origin"), next < SlotEnd, ~(AlignUp(water, Now.x) + Now.x > UtSize)
               PROVE  OriginOk(Now.x)
    BY <1>4 DEF Exhausted
  <2>1. pos.stage = 1 /\ pos.i = 1 /\ Now.x = CNodeSize
    BY <1>3, AtOrigin, Zenon
  <2>2. next < Radix
    BY <1>3, <1>4, <2>1
  <2>3. AlignUp(water, Now.x) \in Nat
    BY <1>4, <2>1, Aligned, Zenon
  <2>4. AlignUp(water, Now.x) + Now.x <= UtSize
    BY <1>4, <2>1, <2>3
  <2> QED BY <2>2, <2>4, Zenon DEF OriginOk
<1>6. ~(Step("slot") /\ ~(SlotOk /\ next \div Radix \in SlotCNodes)) \/ Exhausted
  <2>1. SlotWater \in Nat
    <3>1. AlignUp(water, CNodeSize) \in Nat
      BY <1>4, Aligned, Zenon
    <3> QED BY <1>4, <3>1 DEF SlotWater
  <2>2. (next < SlotEnd \/ next >= SlotEnd) /\ (SlotWater <= UtSize \/ SlotWater > UtSize)
    BY <1>4, <2>1
  <2> QED BY <1>3, <2>2, SlotSuffices, Zenon DEF Exhausted
<1>7. Step("object") => Now.x \in Sizes
  BY <1>3, AtObject, Zenon
<1>8. /\ ~RetypeOk(PageSize) => NoRoom(PageSize)
      /\ Step("object") /\ ~RetypeOk(Now.x) => NoRoom(Now.x)
  BY <1>3, <1>4, <1>7, RoomSuffices, Zenon
<1> QED BY <1>1, <1>2, <1>5, <1>6, <1>8, Zenon DEF BootPanics, Exhausted

\* With enough slots and memory no unwrap fails, neither in the start-up nor in
\* the service loop nor in the tasks that use their handlers.
THEOREM UnwrapsSucceed == Spec => [](NoUnwrapFails \/ Exhausted)
<1>1. RootInv => NoUnwrapFails \/ Exhausted
  <2> SUFFICES ASSUME RootInv, ~Exhausted
               PROVE  NoUnwrapFails
    OBVIOUS
  <2>1. ~BootPanics
    BY StartUnwraps, Zenon
  <2>2. ~ServePanics
    <3>1. Received("TranslateAddr") => Mapped(Caller, Regs[1])
      BY PagesReady, AskedMapped, Zenon DEF RootInv, MemInv, Received
    <3> QED BY <3>1, HandlersFound, Zenon DEF ServePanics, RootInv
  <2> QED BY <2>1, <2>2, HandlersFound, Zenon DEF NoUnwrapFails, RootInv
<1> QED BY <1>1, RootInvariant, PTL

\* The slots and the memory are accounted for throughout.
LEMMA Accounted ==
  ASSUME Enough, RootInv, Spare, [Next]_vars
  PROVE  Spare'
<1>1. /\ image \in Images /\ PosOK /\ AllocOK
      /\ pts = [t \in Task |-> pts[t]]
  BY Zenon DEF RootInv, MemInv, TablesMade
<1>2. CASE Boot
  BY <1>1, <1>2, SpareStep, Zenon
<1>3. CASE UNCHANGED <<allocVars, memVars>>
  BY <1>3, SpareSame, Zenon DEF memVars
<1>4. CASE UNCHANGED vars
  BY <1>3, <1>4, Zenon DEF vars, bootVars
<1>5. CASE Next
  BY <1>2, <1>3, <1>5, AfterBoot, Zenon DEF Booting
<1> QED BY <1>4, <1>5, Zenon

\* No unwrap of the root task fails, whatever the images are, if the range of
\* slots and the untyped hold what Enough counts: an entry of the script never
\* takes more slots or memory than were set aside for it, also where frame_map
\* asks for a table and where a slot needs a CNode of its own.
THEOREM EnoughSuffices ==
  ASSUME Enough
  PROVE  Spec => []NoUnwrapFails
<1>1. ServiceInit => Spare
  BY SpareInit, Zenon DEF ServiceInit
<1>2. RootInv /\ Spare /\ [Next]_vars => Spare'
  BY Accounted, Zenon
<1>3. RootInv /\ Spare => ~Exhausted
  BY NeverExhausted, Zenon DEF RootInv, MemInv
<1> QED BY <1>1, <1>2, <1>3, RootInvariant, UnwrapsSucceed, PTL DEF Spec
=============================================================================
