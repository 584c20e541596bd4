--------------------------- MODULE RootBootProofs ---------------------------
(***************************************************************************)
(* The start-up of the root task, for any images, any sizes of the tables  *)
(* and any amount of memory.                                               *)
(***************************************************************************)
EXTENDS RootBoot, AllocatorProofs

(* The script.                                                             *)

First(t) == ImageFirst(image[t])
End(t)   == ImageEnd(image[t])

PartOf(s, p) == Script(image)[s][p]

\* The entries of a level of tables.
TableCount(t, span) == (End(t) \div span) - (First(t) \div span) + 1

\* What the parts of the script are.
LEMMA Parts ==
  /\ Len(Script(image)) = 5
  /\ Len(Script(image)[1]) = 1 /\ Len(Script(image)[5]) = 5
  /\ PartOf(1, 1) = <<Origin, Object(SmallSize), Object(SmallSize), NormalCap>>
  /\ PartOf(5, 1) = <<Give(Kernel, 26, "untyped")>>
  /\ PartOf(5, 2) = PrepareBlk
  /\ PartOf(5, 3) = MapPages(Blk, DmaStart, BlkDma)
  /\ PartOf(5, 4) = PrepareNet
  /\ PartOf(5, 5) = MapPages(Net, DmaStart, NetDma)
  /\ \A t \in Task : Script(image)[t + 2] = BuildKernelThread(t, image[t])
<1> DEFINE b(t) == BuildKernelThread(t, image[t])
<1>1. Task = {0, 1, 2} /\ Kernel = 0 /\ Blk = 1 /\ Net = 2
  BY DEF Task, Kernel, Blk, Net
<1>2. Script(image) =
        <<<<<<Origin, Object(SmallSize), Object(SmallSize), NormalCap>>>>,
          b(Kernel), b(Blk), b(Net),
          <<<<Give(Kernel, 26, "untyped")>>,
            PrepareBlk, MapPages(Blk, DmaStart, BlkDma),
            PrepareNet, MapPages(Net, DmaStart, NetDma)>>>>
  BY Zenon DEF Script
<1> HIDE DEF b
<1>3. /\ Len(Script(image)) = 5
      /\ Len(Script(image)[1]) = 1 /\ Len(Script(image)[5]) = 5
      /\ Script(image)[2] = b(Kernel) /\ Script(image)[3] = b(Blk) /\ Script(image)[4] = b(Net)
  BY <1>2
<1>4. \A t \in Task : Script(image)[t + 2] = b(t)
  BY <1>1, <1>3
<1>5. /\ PartOf(1, 1) = <<Origin, Object(SmallSize), Object(SmallSize), NormalCap>>
      /\ PartOf(5, 1) = <<Give(Kernel, 26, "untyped")>>
      /\ PartOf(5, 2) = PrepareBlk
      /\ PartOf(5, 3) = MapPages(Blk, DmaStart, BlkDma)
      /\ PartOf(5, 4) = PrepareNet
      /\ PartOf(5, 5) = MapPages(Net, DmaStart, NetDma)
  BY <1>2 DEF PartOf
<1> QED BY <1>3, <1>4, <1>5, Zenon DEF b

LEMMA TaskParts ==
  ASSUME NEW t \in Task
  PROVE  /\ Len(Script(image)[t + 2]) = 9
         /\ PartOf(t + 2, 1) = <<Object(CNodeSize), Object(CNodeSize), Object(PageSize)>>
         /\ PartOf(t + 2, 2) = ImageTables(t, 2, UpSpan, First(t), End(t))
         /\ PartOf(t + 2, 3) = ImageTables(t, 1, PtSpan, First(t), End(t))
         /\ PartOf(t + 2, 4) = [i \in 1 .. End(t) - First(t) |-> Take(i)]
         /\ PartOf(t + 2, 5) = [s \in 1 .. Len(image[t]) |-> CopySegment(t, s)]
         /\ PartOf(t + 2, 6) = [i \in 1 .. End(t) - First(t) |-> FrameMap(t, First(t) + i - 1, i)]
         /\ PartOf(t + 2, 7) = <<Take(1), FrameMap(t, End(t), 1), Object(TcbSize)>>
         /\ PartOf(t + 2, 8) = <<Give(t, 18, "fault_ep"), Give(t, 20, "irq_ep")>>
         /\ PartOf(t + 2, 9) = MapPages(t, StackTop - StackPages, StackPages)
<1> DEFINE p1 == <<Object(CNodeSize), Object(CNodeSize), Object(PageSize)>>
           p2 == ImageTables(t, 2, UpSpan, First(t), End(t))
           p3 == ImageTables(t, 1, PtSpan, First(t), End(t))
           p4 == [i \in 1 .. End(t) - First(t) |-> Take(i)]
           p5 == [s \in 1 .. Len(image[t]) |-> CopySegment(t, s)]
           p6 == [i \in 1 .. End(t) - First(t) |-> FrameMap(t, First(t) + i - 1, i)]
           p7 == <<Take(1), FrameMap(t, End(t), 1), Object(TcbSize)>>
           p8 == NewTask(t)
           p9 == MapPages(t, StackTop - StackPages, StackPages)
<1>1. BuildKernelThread(t, image[t]) = <<p1, p2, p3, p4, p5, p6, p7, p8, p9>>
  BY Zenon DEF BuildKernelThread, First, End
<1> HIDE DEF p1, p2, p3, p4, p5, p6, p7, p8, p9
<1>3. /\ Len(Script(image)[t + 2]) = 9
      /\ PartOf(t + 2, 1) = p1 /\ PartOf(t + 2, 2) = p2 /\ PartOf(t + 2, 3) = p3
      /\ PartOf(t + 2, 4) = p4 /\ PartOf(t + 2, 5) = p5 /\ PartOf(t + 2, 6) = p6
      /\ PartOf(t + 2, 7) = p7 /\ PartOf(t + 2, 8) = p8
      /\ PartOf(t + 2, 9) = p9
  <2>1. Script(image)[t + 2] = <<p1, p2, p3, p4, p5, p6, p7, p8, p9>>
    BY <1>1, Parts, Zenon
  <2> QED BY <2>1 DEF PartOf
<1> QED BY <1>3, Zenon DEF p1, p2, p3, p4, p5, p6, p7, p8, p9, NewTask

(* The pages of an image.                                                  *)

LEMMA Constants ==
  /\ PageSize \in Nat \ {0} /\ PageSize \in Sizes /\ TcbSize \in Sizes
  /\ SmallSize \in Sizes /\ CNodeSize \in Sizes
  /\ StackTop \in Nat /\ StackPages \in Nat /\ DmaStart \in Nat
  /\ BlkDma \in Nat /\ NetDma \in Nat /\ Device \in Nat
  /\ PtSpan \in Nat \ {0} /\ UpSpan \in Nat \ {0}
  /\ StackPages < StackTop /\ StackTop <= DmaStart
  /\ DmaStart + BlkDma <= Device /\ DmaStart + NetDma <= Device
  BY BootAssumption, AllocatorAssumption, Zenon

LEMMA Segments ==
  ASSUME image \in Images, NEW t \in Task
  PROVE  /\ Len(image[t]) \in Nat \ {0}
         /\ Loadable(image[t])
         /\ \A s \in 1 .. Len(image[t]) :
              /\ image[t][s].addr \in Nat /\ image[t][s].size \in Nat
              /\ image[t][s].data \in Nat /\ image[t][s].data <= image[t][s].size
<1>1. image[t] \in Seq(Segment) /\ image[t] # <<>> /\ Loadable(image[t])
  BY BootAssumption
<1>2. Len(image[t]) \in Nat \ {0} /\ \A s \in 1 .. Len(image[t]) : image[t][s] \in Segment
  BY <1>1
<1>3. \A g \in Segment : g.addr \in Nat /\ g.size \in Nat /\ g.data \in Nat /\ g.data <= g.size
  BY DEF Segment
<1> QED BY <1>1, <1>2, <1>3, Zenon

\* An image has its pages below the stack, with the page of the IPC buffer.
LEMMA ImagePages ==
  ASSUME image \in Images, NEW t \in Task
  PROVE  /\ First(t) \in Nat /\ End(t) \in Nat /\ First(t) <= End(t)
         /\ End(t) < StackTop - StackPages
         /\ \A s \in 1 .. Len(image[t]) :
              /\ First(t) <= FirstPage(image[t][s].addr)
              /\ EndPage(image[t][s].addr + image[t][s].size) <= End(t)
<1> DEFINE im == image[t]
           A == {im[i].addr : i \in 1 .. Len(im)}
           B == {im[i].addr + im[i].size : i \in 1 .. Len(im)}
           top == StackTop - StackPages - 1
<1>1. /\ Len(im) \in Nat \ {0}
      /\ \A s \in 1 .. Len(im) :
           /\ im[s].addr \in Nat /\ im[s].size \in Nat
           /\ im[s].addr + im[s].size <= top * PageSize
  BY Segments, Zenon DEF Loadable
<1>2. top \in Nat /\ PageSize \in Nat \ {0} /\ top * PageSize \in Nat
  <2>1. top \in Nat /\ PageSize \in Nat \ {0}
    BY Constants
  <2> QED BY <2>1
<1>3. 1 \in 1 .. Len(im)
  BY <1>1
<1>4. A \subseteq Nat /\ A # {}
  BY <1>1, <1>3, Zenon
<1>5. Min(A) \in Nat /\ \A s \in 1 .. Len(im) : Min(A) <= im[s].addr
  BY <1>4, SmallestOf, Zenon
<1>6. B \subseteq 0 .. top * PageSize /\ B # {}
  <2>1. \A n, a, b \in Nat : a + b <= n => a + b \in 0 .. n
    OBVIOUS
  <2>2. \A s \in 1 .. Len(im) : im[s].addr + im[s].size \in 0 .. top * PageSize
    BY <1>1, <1>2, <2>1, Zenon
  <2> QED BY <2>2, <1>3, Zenon
<1>7. Max(B) \in 0 .. top * PageSize /\ \A s \in 1 .. Len(im) : Max(B) >= im[s].addr + im[s].size
  BY <1>2, <1>6, LargestOf, Zenon
<1>8. First(t) = Min(A) \div PageSize /\ End(t) = (Max(B) + PageSize - 1) \div PageSize
  BY Zenon DEF First, End, ImageFirst, ImageEnd, FirstPage, EndPage
<1> HIDE DEF A, B, top, im
<1> DEFINE lo == Min(A)
           hi == Max(B)
<1> HIDE DEF lo, hi
<1>9. /\ lo \in Nat /\ hi \in Nat /\ hi <= top * PageSize
      /\ \A s \in 1 .. Len(im) : lo <= im[s].addr /\ hi >= im[s].addr + im[s].size
  BY <1>5, <1>7, <1>2 DEF lo, hi
<1>10. lo <= hi
  BY <1>9, <1>1, <1>3
<1>11. /\ First(t) \in Nat /\ End(t) \in Nat /\ First(t) <= End(t)
  <2>1. hi + PageSize - 1 \in Nat /\ lo <= hi + PageSize - 1
    BY <1>9, <1>10, <1>2
  <2> QED BY <2>1, <1>8, <1>2, <1>9, DivMonotone, Zenon DEF lo, hi
<1>12. End(t) <= top
  <2>1. /\ hi + PageSize - 1 \in Nat /\ top * PageSize + (PageSize - 1) \in Nat
        /\ hi + PageSize - 1 <= top * PageSize + (PageSize - 1)
        /\ PageSize - 1 \in 0 .. PageSize - 1
    BY <1>9, <1>2
  <2>2. (top * PageSize + (PageSize - 1)) \div PageSize = top
    BY <2>1, <1>2, Quotient, Zenon
  <2>3. (hi + PageSize - 1) \div PageSize <= (top * PageSize + (PageSize - 1)) \div PageSize
    BY <2>1, <1>2, DivMonotone, Zenon
  <2> QED BY <2>2, <2>3, <1>8, Zenon DEF hi
<1>13. ASSUME NEW s \in 1 .. Len(im)
       PROVE  First(t) <= FirstPage(im[s].addr) /\ EndPage(im[s].addr + im[s].size) <= End(t)
  <2>1. lo <= im[s].addr /\ im[s].addr \in Nat
    BY <1>1, <1>9
  <2>2. First(t) <= FirstPage(im[s].addr)
    BY <2>1, <1>2, <1>8, <1>9, DivMonotone, Zenon DEF lo, FirstPage
  <2>3. /\ im[s].addr + im[s].size + PageSize - 1 \in Nat /\ hi + PageSize - 1 \in Nat
        /\ im[s].addr + im[s].size + PageSize - 1 <= hi + PageSize - 1
    <3> DEFINE addr == im[s].addr
               len == im[s].size
    <3>1. addr \in Nat /\ len \in Nat /\ addr + len <= hi /\ hi \in Nat /\ PageSize \in Nat \ {0}
      BY <1>1, <1>2, <1>9, Zenon
    <3> HIDE DEF addr, len, hi
    <3>2. /\ addr + len + PageSize - 1 \in Nat /\ hi + PageSize - 1 \in Nat
          /\ addr + len + PageSize - 1 <= hi + PageSize - 1
      BY <3>1
    <3> QED BY <3>2, Zenon DEF addr, len
  <2>4. EndPage(im[s].addr + im[s].size) <= End(t)
    BY <2>3, <1>2, <1>8, DivMonotone, Zenon DEF hi, EndPage
  <2> QED BY <2>2, <2>4
<1>14. End(t) < StackTop - StackPages
  BY <1>11, <1>12, Constants DEF top
<1> QED BY <1>11, <1>13, <1>14, Zenon DEF im

(* Where in the script the root task is.                                   *)

PosOK ==
  /\ pos \in [stage: 1 .. 5, part: Nat \ {0}, i: Nat \ {0}]
  /\ pos.part <= Len(Script(image)[pos.stage])
  /\ pos.i <= Len(PartOf(pos.stage, pos.part)) + 1

\* Entry i of part p of stage s is done.
Passed(s, p, i) ==
  \/ pos.stage > s
  \/ pos.stage = s /\ (pos.part > p \/ (pos.part = p /\ pos.i > i))

Frames(t) == End(t) - First(t)

\* The entry of MapPages that comes next.
PagesEntry(t, first, n) ==
  \E j \in 1 .. n :
    \/ pos.i = 2 * j - 1 /\ Now = Take(1)
    \/ pos.i = 2 * j /\ Now = MapPage(t, first + j - 1)

StartEntry ==
  /\ pos.part = 1
  /\ \/ pos.i = 1 /\ Now = Origin
     \/ pos.i \in {2, 3} /\ Now = Object(SmallSize)
     \/ pos.i = 4 /\ Now = NormalCap

TableEntry(t, level, span) ==
  /\ pos.i \in 1 .. TableCount(t, span)
  /\ Now = Table(t, <<level, (First(t) \div span) + pos.i - 1>>)

BuildEntry(t) ==
  \/ pos.part = 1 /\ \/ pos.i \in {1, 2} /\ Now = Object(CNodeSize)
                     \/ pos.i = 3 /\ Now = Object(PageSize)
  \/ pos.part = 2 /\ TableEntry(t, 2, UpSpan)
  \/ pos.part = 3 /\ TableEntry(t, 1, PtSpan)
  \/ pos.part = 4 /\ pos.i \in 1 .. Frames(t) /\ Now = Take(pos.i)
  \/ pos.part = 5 /\ pos.i \in 1 .. Len(image[t]) /\ Now = CopySegment(t, pos.i)
  \/ pos.part = 6 /\ pos.i \in 1 .. Frames(t) /\ Now = FrameMap(t, First(t) + pos.i - 1, pos.i)
  \/ pos.part = 7 /\ \/ pos.i = 1 /\ Now = Take(1)
                     \/ pos.i = 2 /\ Now = FrameMap(t, End(t), 1)
                     \/ pos.i = 3 /\ Now = Object(TcbSize)
  \/ pos.part = 8 /\ \/ pos.i = 1 /\ Now = Give(t, 18, "fault_ep")
                     \/ pos.i = 2 /\ Now = Give(t, 20, "irq_ep")
  \/ pos.part = 9 /\ PagesEntry(t, StackTop - StackPages, StackPages)

PrepareEntry(t, c, not, ep) ==
  \/ pos.i \in {1, 2} /\ Now = Object(SmallSize)
  \/ pos.i = 3 /\ Now = Give(Kernel, c, ep)
  \/ pos.i = 4 /\ Now = Give(t, 26, not)
  \/ pos.i = 5 /\ Now = Give(t, 28, ep)
  \/ pos.i = 6 /\ Now = CopySlot
  \/ pos.i = 7 /\ Now = MapDevice(t)

LastEntry ==
  \/ pos.part = 1 /\ pos.i = 1 /\ Now = Give(Kernel, 26, "untyped")
  \/ pos.part = 2 /\ PrepareEntry(Blk, 27, "blk_irq_not", "blk_dev_ep")
  \/ pos.part = 3 /\ PagesEntry(Blk, DmaStart, BlkDma)
  \/ pos.part = 4 /\ PrepareEntry(Net, 28, "net_irq_not", "net_dev_ep")
  \/ pos.part = 5 /\ PagesEntry(Net, DmaStart, NetDma)

LEMMA PagesLength ==
  ASSUME NEW t, NEW first, NEW n \in Nat
  PROVE  Len(MapPages(t, first, n)) = 2 * n
  BY DEF MapPages

LEMMA PagesEntries ==
  ASSUME NEW t, NEW first, NEW n \in Nat, pos.i \in 1 .. 2 * n,
         Now = MapPages(t, first, n)[pos.i]
  PROVE  PagesEntry(t, first, n)
<1>1. CASE pos.i % 2 = 1
  <2>1. Now = Take(1)
    BY <1>1, Zenon DEF MapPages
  <2>2. PICK j \in 1 .. n : pos.i = 2 * j - 1
    <3>1. ((pos.i + 1) \div 2) \in 1 .. n /\ pos.i = 2 * ((pos.i + 1) \div 2) - 1
      BY <1>1
    <3> QED BY <3>1, Zenon
  <2> QED BY <2>1, <2>2, Zenon DEF PagesEntry
<1>2. CASE pos.i % 2 # 1
  <2>1. Now = MapPage(t, first + (pos.i \div 2) - 1)
    BY <1>2, Zenon DEF MapPages
  <2>2. (pos.i \div 2) \in 1 .. n /\ pos.i = 2 * (pos.i \div 2)
    BY <1>2
  <2> QED BY <2>1, <2>2, Zenon DEF PagesEntry
<1> QED BY <1>1, <1>2

\* The stages and their parts.
LEMMA Places ==
  ASSUME PosOK
  PROVE  \/ pos.stage = 1 /\ pos.part = 1
         \/ \E t \in Task : pos.stage = t + 2 /\ pos.part \in 1 .. 9
         \/ pos.stage = 5 /\ pos.part \in 1 .. 5
<1>1. pos.stage \in 1 .. 5 /\ pos.part \in Nat \ {0} /\ pos.part <= Len(Script(image)[pos.stage])
  BY DEF PosOK
<1>2. CASE pos.stage = 1
  BY <1>1, <1>2, Parts
<1>3. CASE pos.stage = 5
  BY <1>1, <1>3, Parts
<1>4. CASE pos.stage \in 2 .. 4
  <2>1. PICK t \in Task : pos.stage = t + 2
    <3>1. pos.stage - 2 \in Task /\ pos.stage = (pos.stage - 2) + 2
      BY <1>4 DEF Task
    <3> QED BY <3>1, Zenon
  <2>2. Len(Script(image)[pos.stage]) = 9
    BY <2>1, TaskParts, Zenon
  <2>3. pos.part \in 1 .. 9
    BY <1>1, <2>2
  <2> QED BY <2>1, <2>3, Zenon
<1> QED BY <1>1, <1>2, <1>3, <1>4

LEMMA TaskLengths ==
  ASSUME image \in Images, NEW t \in Task
  PROVE  /\ Len(PartOf(t + 2, 1)) = 3
         /\ Len(PartOf(t + 2, 2)) = TableCount(t, UpSpan) /\ TableCount(t, UpSpan) \in Nat
         /\ Len(PartOf(t + 2, 3)) = TableCount(t, PtSpan) /\ TableCount(t, PtSpan) \in Nat
         /\ Len(PartOf(t + 2, 4)) = Frames(t) /\ Frames(t) \in Nat
         /\ Len(PartOf(t + 2, 5)) = Len(image[t])
         /\ Len(PartOf(t + 2, 6)) = Frames(t)
         /\ Len(PartOf(t + 2, 7)) = 3
         /\ Len(PartOf(t + 2, 8)) = 2
         /\ Len(PartOf(t + 2, 9)) = 2 * StackPages
<1>1. /\ First(t) \in Nat /\ End(t) \in Nat /\ First(t) <= End(t) /\ Len(image[t]) \in Nat
      /\ UpSpan \in Nat \ {0} /\ PtSpan \in Nat \ {0} /\ StackPages \in Nat
  <2>1. Len(image[t]) \in Nat
    BY Segments
  <2> QED BY <2>1, ImagePages, Constants, Zenon
<1>2. TableCount(t, UpSpan) \in Nat
  <2>1. /\ First(t) \div UpSpan \in Nat /\ End(t) \div UpSpan \in Nat
        /\ First(t) \div UpSpan <= End(t) \div UpSpan
    BY <1>1, DivMonotone, Zenon
  <2> QED BY <2>1 DEF TableCount
<1>3. TableCount(t, PtSpan) \in Nat
  <2>1. /\ First(t) \div PtSpan \in Nat /\ End(t) \div PtSpan \in Nat
        /\ First(t) \div PtSpan <= End(t) \div PtSpan
    BY <1>1, DivMonotone, Zenon
  <2> QED BY <2>1 DEF TableCount
<1>4. Frames(t) \in Nat
  BY <1>1 DEF Frames
<1>6. Len(PartOf(t + 2, 2)) = TableCount(t, UpSpan)
  <2>1. PartOf(t + 2, 2) = ImageTables(t, 2, UpSpan, First(t), End(t))
    BY TaskParts, Zenon
  <2> QED BY <1>2, <2>1 DEF ImageTables, TableCount
<1>7. Len(PartOf(t + 2, 3)) = TableCount(t, PtSpan)
  <2>1. PartOf(t + 2, 3) = ImageTables(t, 1, PtSpan, First(t), End(t))
    BY TaskParts, Zenon
  <2> QED BY <1>3, <2>1 DEF ImageTables, TableCount
<1>8. Len(PartOf(t + 2, 4)) = Frames(t)
  <2>1. PartOf(t + 2, 4) = [i \in 1 .. Frames(t) |-> Take(i)]
    BY TaskParts, Zenon DEF Frames
  <2> QED BY <1>4, <2>1
<1>9. Len(PartOf(t + 2, 5)) = Len(image[t])
  <2>1. PartOf(t + 2, 5) = [s \in 1 .. Len(image[t]) |-> CopySegment(t, s)]
    BY TaskParts, Zenon
  <2> QED BY <1>1, <2>1
<1>10. Len(PartOf(t + 2, 6)) = Frames(t)
  <2>1. PartOf(t + 2, 6) = [i \in 1 .. Frames(t) |-> FrameMap(t, First(t) + i - 1, i)]
    BY TaskParts, Zenon DEF Frames
  <2> QED BY <1>4, <2>1
<1>11. Len(PartOf(t + 2, 9)) = 2 * StackPages
  <2>1. PartOf(t + 2, 9) = MapPages(t, StackTop - StackPages, StackPages)
    BY TaskParts, Zenon
  <2> QED BY <1>1, <2>1, PagesLength, Zenon
<1>12. Len(PartOf(t + 2, 1)) = 3 /\ Len(PartOf(t + 2, 7)) = 3 /\ Len(PartOf(t + 2, 8)) = 2
  <2>1. /\ PartOf(t + 2, 1) = <<Object(CNodeSize), Object(CNodeSize), Object(PageSize)>>
        /\ PartOf(t + 2, 7) = <<Take(1), FrameMap(t, End(t), 1), Object(TcbSize)>>
        /\ PartOf(t + 2, 8) = <<Give(t, 18, "fault_ep"), Give(t, 20, "irq_ep")>>
    BY TaskParts, Zenon
  <2> QED BY <2>1
<1> QED BY <1>2, <1>3, <1>4, <1>6, <1>7, <1>8, <1>9, <1>10, <1>11, <1>12, Zenon

LEMMA RootLengths ==
  /\ Len(PartOf(1, 1)) = 4 /\ Len(PartOf(5, 1)) = 1
  /\ Len(PartOf(5, 2)) = 7 /\ Len(PartOf(5, 3)) = 2 * BlkDma
  /\ Len(PartOf(5, 4)) = 7 /\ Len(PartOf(5, 5)) = 2 * NetDma
<1>1. Len(PartOf(1, 1)) = 4 /\ Len(PartOf(5, 1)) = 1
  BY Parts
<1>2. Len(PartOf(5, 2)) = 7 /\ Len(PartOf(5, 4)) = 7
  <2>1. Len(PrepareBlk) = 7 /\ Len(PrepareNet) = 7
    BY DEF PrepareBlk, PrepareNet
  <2> QED BY <2>1, Parts, Zenon
<1>3. Len(PartOf(5, 3)) = 2 * BlkDma /\ Len(PartOf(5, 5)) = 2 * NetDma
  <2>1. BlkDma \in Nat /\ NetDma \in Nat
    BY Constants, Zenon
  <2>2. /\ PartOf(5, 3) = MapPages(Blk, DmaStart, BlkDma)
        /\ PartOf(5, 5) = MapPages(Net, DmaStart, NetDma)
    BY Parts, Zenon
  <2> QED BY <2>1, <2>2, PagesLength, Zenon
<1> QED BY <1>1, <1>2, <1>3

LEMMA BuildEntries ==
  ASSUME image \in Images, PosOK, NEW t \in Task, pos.stage = t + 2, pos.i <= Len(Part)
  PROVE  BuildEntry(t)
<1> DEFINE i == pos.i
<1>1. pos.i \in Nat \ {0} /\ Part = PartOf(t + 2, pos.part) /\ Now = PartOf(t + 2, pos.part)[i]
  BY Zenon DEF PosOK, Part, Stage, Now, PartOf
<1>2. pos.part \in 1 .. 9
  <2>1. Len(Script(image)[pos.stage]) = 9
    BY TaskParts, Zenon
  <2> QED BY <2>1 DEF PosOK
<1>3. i <= Len(PartOf(t + 2, pos.part))
  BY <1>1, Zenon
<1>4. CASE pos.part = 1
  <2>1. i \in 1 .. 3
    <3>1. Len(PartOf(t + 2, pos.part)) = 3
      BY <1>4, TaskLengths, Zenon
    <3> QED BY <1>1, <1>3, <3>1
  <2>2. \/ i \in {1, 2} /\ Now = Object(CNodeSize)
        \/ i = 3 /\ Now = Object(PageSize)
    <3>1. PartOf(t + 2, 1) = <<Object(CNodeSize), Object(CNodeSize), Object(PageSize)>>
      BY TaskParts, Zenon
    <3> QED BY <1>1, <1>4, <2>1, <3>1
  <2> QED BY <1>4, <2>2, Zenon DEF BuildEntry
<1>5. CASE pos.part = 2
  <2>1. i \in 1 .. TableCount(t, UpSpan)
    <3>1. Len(PartOf(t + 2, pos.part)) = TableCount(t, UpSpan) /\ TableCount(t, UpSpan) \in Nat
      BY <1>5, TaskLengths, Zenon
    <3> QED BY <1>1, <1>3, <3>1
  <2>2. Now = Table(t, <<2, (First(t) \div UpSpan) + i - 1>>)
    <3>1. PartOf(t + 2, 2) = ImageTables(t, 2, UpSpan, First(t), End(t))
      BY TaskParts, Zenon
    <3> QED BY <1>1, <1>5, <2>1, <3>1, Zenon DEF ImageTables, TableCount
  <2> QED BY <1>5, <2>1, <2>2, Zenon DEF BuildEntry, TableEntry
<1>6. CASE pos.part = 3
  <2>1. i \in 1 .. TableCount(t, PtSpan)
    <3>1. Len(PartOf(t + 2, pos.part)) = TableCount(t, PtSpan) /\ TableCount(t, PtSpan) \in Nat
      BY <1>6, TaskLengths, Zenon
    <3> QED BY <1>1, <1>3, <3>1
  <2>2. Now = Table(t, <<1, (First(t) \div PtSpan) + i - 1>>)
    <3>1. PartOf(t + 2, 3) = ImageTables(t, 1, PtSpan, First(t), End(t))
      BY TaskParts, Zenon
    <3> QED BY <1>1, <1>6, <2>1, <3>1, Zenon DEF ImageTables, TableCount
  <2> QED BY <1>6, <2>1, <2>2, Zenon DEF BuildEntry, TableEntry
<1>7. CASE pos.part = 4
  <2>1. i \in 1 .. Frames(t)
    <3>1. Len(PartOf(t + 2, pos.part)) = Frames(t) /\ Frames(t) \in Nat
      BY <1>7, TaskLengths, Zenon
    <3> QED BY <1>1, <1>3, <3>1
  <2>2. PartOf(t + 2, 4) = [j \in 1 .. Frames(t) |-> Take(j)]
    BY TaskParts, Zenon DEF Frames
  <2> QED BY <1>1, <1>7, <2>1, <2>2, Zenon DEF BuildEntry
<1>8. CASE pos.part = 5
  <2>1. i \in 1 .. Len(image[t])
    <3>1. Len(PartOf(t + 2, pos.part)) = Len(image[t]) /\ Len(image[t]) \in Nat
      BY <1>8, TaskLengths, Segments, Zenon
    <3> QED BY <1>1, <1>3, <3>1
  <2>2. PartOf(t + 2, 5) = [s \in 1 .. Len(image[t]) |-> CopySegment(t, s)]
    BY TaskParts, Zenon
  <2> QED BY <1>1, <1>8, <2>1, <2>2, Zenon DEF BuildEntry
<1>9. CASE pos.part = 6
  <2>1. i \in 1 .. Frames(t)
    <3>1. Len(PartOf(t + 2, pos.part)) = Frames(t) /\ Frames(t) \in Nat
      BY <1>9, TaskLengths, Zenon
    <3> QED BY <1>1, <1>3, <3>1
  <2>2. PartOf(t + 2, 6) = [j \in 1 .. Frames(t) |-> FrameMap(t, First(t) + j - 1, j)]
    BY TaskParts, Zenon DEF Frames
  <2> QED BY <1>1, <1>9, <2>1, <2>2, Zenon DEF BuildEntry
<1>10. CASE pos.part = 7
  <2>1. i \in 1 .. 3
    <3>1. Len(PartOf(t + 2, pos.part)) = 3
      BY <1>10, TaskLengths, Zenon
    <3> QED BY <1>1, <1>3, <3>1
  <2>2. \/ i = 1 /\ Now = Take(1)
        \/ i = 2 /\ Now = FrameMap(t, End(t), 1)
        \/ i = 3 /\ Now = Object(TcbSize)
    <3>1. PartOf(t + 2, 7) = <<Take(1), FrameMap(t, End(t), 1), Object(TcbSize)>>
      BY TaskParts, Zenon
    <3> QED BY <1>1, <1>10, <2>1, <3>1
  <2> QED BY <1>10, <2>2, Zenon DEF BuildEntry
<1>11. CASE pos.part = 8
  <2>1. i \in 1 .. 2
    <3>1. Len(PartOf(t + 2, pos.part)) = 2
      BY <1>11, TaskLengths, Zenon
    <3> QED BY <1>1, <1>3, <3>1
  <2>2. \/ i = 1 /\ Now = Give(t, 18, "fault_ep")
        \/ i = 2 /\ Now = Give(t, 20, "irq_ep")
    <3>1. PartOf(t + 2, 8) = <<Give(t, 18, "fault_ep"), Give(t, 20, "irq_ep")>>
      BY TaskParts, Zenon
    <3> QED BY <1>1, <1>11, <2>1, <3>1
  <2> QED BY <1>11, <2>2, Zenon DEF BuildEntry
<1>12. CASE pos.part = 9
  <2>1. i \in 1 .. 2 * StackPages /\ StackPages \in Nat
    <3>1. Len(PartOf(t + 2, pos.part)) = 2 * StackPages /\ StackPages \in Nat
      BY <1>12, TaskLengths, Constants, Zenon
    <3> QED BY <1>1, <1>3, <3>1
  <2>2. PartOf(t + 2, 9) = MapPages(t, StackTop - StackPages, StackPages)
    BY TaskParts, Zenon
  <2> QED BY <1>1, <1>12, <2>1, <2>2, PagesEntries, Zenon DEF BuildEntry
<1> QED BY <1>2, <1>4, <1>5, <1>6, <1>7, <1>8, <1>9, <1>10, <1>11, <1>12

LEMMA LastEntries ==
  ASSUME PosOK, pos.stage = 5, pos.i <= Len(Part)
  PROVE  LastEntry
<1>PrepareEntries.
    ASSUME NEW t, NEW c, NEW not, NEW ep, pos.i \in 1 .. 7,
           Now = <<Object(SmallSize), Object(SmallSize), Give(Kernel, c, ep), Give(t, 26, not),
                   Give(t, 28, ep), CopySlot, MapDevice(t)>>[pos.i]
    PROVE  PrepareEntry(t, c, not, ep)
  BY <1>PrepareEntries DEF PrepareEntry
<1>1. pos.i \in Nat \ {0} /\ Part = PartOf(5, pos.part) /\ Now = PartOf(5, pos.part)[pos.i]
  BY Zenon DEF PosOK, Part, Stage, Now, PartOf
<1>2. pos.part \in 1 .. 5
  BY Parts DEF PosOK
<1>3. pos.i <= Len(PartOf(5, pos.part))
  BY <1>1, Zenon
<1>4. CASE pos.part = 1
  <2>1. pos.i = 1
    BY <1>1, <1>3, <1>4, RootLengths
  <2>2. Now = Give(Kernel, 26, "untyped")
    BY <1>1, <1>4, <2>1, Parts
  <2> QED BY <1>4, <2>1, <2>2, Zenon DEF LastEntry
<1>5. CASE pos.part = 2
  <2>1. pos.i \in 1 .. 7
    <3>1. Len(PartOf(5, pos.part)) = 7
      BY <1>5, RootLengths, Zenon
    <3> QED BY <1>1, <1>3, <3>1
  <2>2. PrepareEntry(Blk, 27, "blk_irq_not", "blk_dev_ep")
    BY <1>1, <1>5, <2>1, Parts, <1>PrepareEntries, Zenon DEF PrepareBlk
  <2> QED BY <1>5, <2>2, Zenon DEF LastEntry
<1>6. CASE pos.part = 3
  <2>1. pos.i \in 1 .. 2 * BlkDma /\ BlkDma \in Nat
    <3>1. Len(PartOf(5, pos.part)) = 2 * BlkDma /\ BlkDma \in Nat
      BY <1>6, RootLengths, Constants, Zenon
    <3> QED BY <1>1, <1>3, <3>1
  <2> QED BY <1>1, <1>6, <2>1, Parts, PagesEntries, Zenon DEF LastEntry
<1>7. CASE pos.part = 4
  <2>1. pos.i \in 1 .. 7
    <3>1. Len(PartOf(5, pos.part)) = 7
      BY <1>7, RootLengths, Zenon
    <3> QED BY <1>1, <1>3, <3>1
  <2>2. PrepareEntry(Net, 28, "net_irq_not", "net_dev_ep")
    BY <1>1, <1>7, <2>1, Parts, <1>PrepareEntries, Zenon DEF PrepareNet
  <2> QED BY <1>7, <2>2, Zenon DEF LastEntry
<1>8. CASE pos.part = 5
  <2>1. pos.i \in 1 .. 2 * NetDma /\ NetDma \in Nat
    <3>1. Len(PartOf(5, pos.part)) = 2 * NetDma /\ NetDma \in Nat
      BY <1>8, RootLengths, Constants, Zenon
    <3> QED BY <1>1, <1>3, <3>1
  <2> QED BY <1>1, <1>8, <2>1, Parts, PagesEntries, Zenon DEF LastEntry
<1> QED BY <1>2, <1>4, <1>5, <1>6, <1>7, <1>8

LEMMA StartEntries ==
  ASSUME PosOK, pos.stage = 1, pos.i <= Len(Part)
  PROVE  StartEntry
<1>1. pos.i \in Nat \ {0} /\ Part = PartOf(1, pos.part) /\ Now = PartOf(1, pos.part)[pos.i]
  BY Zenon DEF PosOK, Part, Stage, Now, PartOf
<1>2. pos.part = 1
  BY Parts DEF PosOK
<1>3. pos.i \in 1 .. 4
  BY <1>1, <1>2, RootLengths
<1>4. \/ pos.i = 1 /\ Now = Origin
      \/ pos.i \in {2, 3} /\ Now = Object(SmallSize)
      \/ pos.i = 4 /\ Now = NormalCap
  BY <1>1, <1>2, <1>3, Parts
<1> QED BY <1>2, <1>4, Zenon DEF StartEntry

LEMMA Entries ==
  ASSUME image \in Images, PosOK, pos.i <= Len(Part)
  PROVE  \/ pos.stage = 1 /\ StartEntry
         \/ \E t \in Task : pos.stage = t + 2 /\ BuildEntry(t)
         \/ pos.stage = 5 /\ LastEntry
  BY Places, StartEntries, BuildEntries, LastEntries, Zenon

\* What the operations are where a page after the other is mapped.
PagesOps(t, first, n) ==
  /\ Now.op \in {"take", "map_page"}
  /\ Now.op = "take" => Now.x = 1 /\ \E j \in 1 .. n : pos.i = 2 * j - 1
  /\ Now.op = "map_page" =>
       /\ Now.t = t /\ Now.x[2] = 1
       /\ \E j \in 1 .. n : pos.i = 2 * j /\ Now.x[1] = first + j - 1

\* What they are while a task is built.
BuildOps(t) ==
  /\ Now.op \in {"object", "table", "take", "copy", "frame_map", "map_page", "give"}
  /\ Now.op = "object" => Now.x \in Sizes
  /\ Now.op = "table" =>
       /\ Now.t = t
       /\ \/ pos.part = 2 /\ Now.x = <<2, (First(t) \div UpSpan) + pos.i - 1>>
          \/ pos.part = 3 /\ Now.x = <<1, (First(t) \div PtSpan) + pos.i - 1>>
  /\ Now.op = "take" =>
       \/ pos.part = 4 /\ pos.i \in 1 .. Frames(t) /\ Now.x = pos.i
       \/ pos.part = 7 /\ pos.i = 1 /\ Now.x = 1
       \/ pos.part = 9 /\ PagesOps(t, StackTop - StackPages, StackPages)
  /\ Now.op = "copy" =>
       Now.t = t /\ pos.part = 5 /\ pos.i \in 1 .. Len(image[t]) /\ Now.x = pos.i
  /\ Now.op = "frame_map" =>
       /\ Now.t = t
       /\ \/ /\ pos.part = 6 /\ pos.i \in 1 .. Frames(t)
             /\ Now.x[1] = First(t) + pos.i - 1 /\ Now.x[2] = pos.i
          \/ pos.part = 7 /\ pos.i = 2 /\ Now.x[1] = End(t) /\ Now.x[2] = 1
  /\ Now.op = "map_page" => pos.part = 9 /\ PagesOps(t, StackTop - StackPages, StackPages)
  /\ Now.op = "give" =>
       /\ Now.t = t /\ pos.part = 8
       /\ \/ pos.i = 1 /\ Now.x[1] = 18 /\ Now.x[2] = "fault_ep"
          \/ pos.i = 2 /\ Now.x[1] = 20 /\ Now.x[2] = "irq_ep"

\* What they are at the start and at the end.
StartOps ==
  \/ pos.i = 1 /\ Now.op = "origin" /\ Now.x = CNodeSize
  \/ pos.i \in {2, 3} /\ Now.op = "object" /\ Now.x \in Sizes
  \/ pos.i = 4 /\ Now.op = "normal"

PrepareOps(t, c, not, ep) ==
  \/ pos.i \in {1, 2} /\ Now.op = "object" /\ Now.x \in Sizes
  \/ pos.i = 3 /\ Now.op = "give" /\ Now.t = Kernel /\ Now.x[1] = c /\ Now.x[2] = ep
  \/ pos.i = 4 /\ Now.op = "give" /\ Now.t = t /\ Now.x[1] = 26 /\ Now.x[2] = not
  \/ pos.i = 5 /\ Now.op = "give" /\ Now.t = t /\ Now.x[1] = 28 /\ Now.x[2] = ep
  \/ pos.i = 6 /\ Now.op = "slot"
  \/ pos.i = 7 /\ Now.op = "device" /\ Now.t = t /\ Now.x[1] = Device

LastOps ==
  \/ /\ pos.part = 1 /\ pos.i = 1
     /\ Now.op = "give" /\ Now.t = Kernel /\ Now.x[1] = 26 /\ Now.x[2] = "untyped"
  \/ pos.part = 2 /\ PrepareOps(Blk, 27, "blk_irq_not", "blk_dev_ep")
  \/ pos.part = 3 /\ PagesOps(Blk, DmaStart, BlkDma)
  \/ pos.part = 4 /\ PrepareOps(Net, 28, "net_irq_not", "net_dev_ep")
  \/ pos.part = 5 /\ PagesOps(Net, DmaStart, NetDma)

LEMMA Ops ==
  ASSUME image \in Images, PosOK, pos.i <= Len(Part)
  PROVE  \/ pos.stage = 1 /\ pos.part = 1 /\ StartOps
         \/ \E t \in Task : pos.stage = t + 2 /\ BuildOps(t)
         \/ pos.stage = 5 /\ LastOps
<1>PagesOp.
    ASSUME NEW t, NEW first, NEW n, PagesEntry(t, first, n)
    PROVE  PagesOps(t, first, n)
  <2> USE <1>PagesOp
  <2>1. PICK j \in 1 .. n : \/ pos.i = 2 * j - 1 /\ Now = Take(1)
                            \/ pos.i = 2 * j /\ Now = MapPage(t, first + j - 1)
    BY Zenon DEF PagesEntry
  <2>2. CASE pos.i = 2 * j - 1 /\ Now = Take(1)
    <3>1. Now.op = "take" /\ Now.x = 1
      BY <2>2 DEF Take
    <3> QED BY <2>2, <3>1, Zenon DEF PagesOps
  <2>3. CASE pos.i = 2 * j /\ Now = MapPage(t, first + j - 1)
    <3>1. Now.op = "map_page" /\ Now.t = t /\ Now.x[1] = first + j - 1 /\ Now.x[2] = 1
      BY <2>3 DEF MapPage
    <3> QED BY <2>3, <3>1, Zenon DEF PagesOps
  <2> QED BY <2>1, <2>2, <2>3, Zenon
<1>BuildOp.
    ASSUME NEW t, BuildEntry(t)
    PROVE  BuildOps(t)
  <2> USE <1>BuildOp
  <2>1. CASE Now = Object(CNodeSize) \/ Now = Object(PageSize)
    <3>1. Now.op = "object" /\ Now.x \in Sizes
      BY <2>1, Constants DEF Object
    <3> QED BY <3>1, Zenon DEF BuildOps
  <2>2. CASE pos.part = 2 /\ TableEntry(t, 2, UpSpan)
    <3>1. Now.op = "table" /\ Now.t = t /\ Now.x = <<2, (First(t) \div UpSpan) + pos.i - 1>>
      BY <2>2 DEF TableEntry, Table
    <3> QED BY <2>2, <3>1, Zenon DEF BuildOps
  <2>3. CASE pos.part = 3 /\ TableEntry(t, 1, PtSpan)
    <3>1. Now.op = "table" /\ Now.t = t /\ Now.x = <<1, (First(t) \div PtSpan) + pos.i - 1>>
      BY <2>3 DEF TableEntry, Table
    <3> QED BY <2>3, <3>1, Zenon DEF BuildOps
  <2>4. CASE pos.part = 4 /\ pos.i \in 1 .. Frames(t) /\ Now = Take(pos.i)
    <3>1. Now.op = "take" /\ Now.x = pos.i
      BY <2>4 DEF Take
    <3> QED BY <2>4, <3>1, Zenon DEF BuildOps
  <2>5. CASE pos.part = 5 /\ pos.i \in 1 .. Len(image[t]) /\ Now = CopySegment(t, pos.i)
    <3>1. Now.op = "copy" /\ Now.t = t /\ Now.x = pos.i
      BY <2>5 DEF CopySegment
    <3> QED BY <2>5, <3>1, Zenon DEF BuildOps
  <2>6. CASE pos.part = 6 /\ pos.i \in 1 .. Frames(t) /\ Now = FrameMap(t, First(t) + pos.i - 1, pos.i)
    <3>1. /\ Now.op = "frame_map" /\ Now.t = t
          /\ Now.x[1] = First(t) + pos.i - 1 /\ Now.x[2] = pos.i
      BY <2>6 DEF FrameMap
    <3> QED BY <2>6, <3>1, Zenon DEF BuildOps
  <2>7. CASE pos.part = 7 /\ pos.i = 1 /\ Now = Take(1)
    <3>1. Now.op = "take" /\ Now.x = 1
      BY <2>7 DEF Take
    <3> QED BY <2>7, <3>1, Zenon DEF BuildOps
  <2>8. CASE pos.part = 7 /\ pos.i = 2 /\ Now = FrameMap(t, End(t), 1)
    <3>1. Now.op = "frame_map" /\ Now.t = t /\ Now.x[1] = End(t) /\ Now.x[2] = 1
      BY <2>8 DEF FrameMap
    <3> QED BY <2>8, <3>1, Zenon DEF BuildOps
  <2>9. CASE pos.part = 7 /\ pos.i = 3 /\ Now = Object(TcbSize)
    <3>1. Now.op = "object" /\ Now.x \in Sizes
      BY <2>9, Constants DEF Object
    <3> QED BY <3>1, Zenon DEF BuildOps
  <2>10. CASE pos.part = 8 /\ pos.i = 1 /\ Now = Give(t, 18, "fault_ep")
    <3>1. Now.op = "give" /\ Now.t = t /\ Now.x[1] = 18 /\ Now.x[2] = "fault_ep"
      BY <2>10 DEF Give
    <3> QED BY <2>10, <3>1, Zenon DEF BuildOps
  <2>11. CASE pos.part = 8 /\ pos.i = 2 /\ Now = Give(t, 20, "irq_ep")
    <3>1. Now.op = "give" /\ Now.t = t /\ Now.x[1] = 20 /\ Now.x[2] = "irq_ep"
      BY <2>11 DEF Give
    <3> QED BY <2>11, <3>1, Zenon DEF BuildOps
  <2>12. CASE pos.part = 9 /\ PagesEntry(t, StackTop - StackPages, StackPages)
    <3>1. PagesOps(t, StackTop - StackPages, StackPages)
      BY <2>12, <1>PagesOp, Zenon
    <3>2. Now.op \in {"take", "map_page"}
      BY <3>1, Zenon DEF PagesOps
    <3> QED BY <2>12, <3>1, <3>2, Zenon DEF BuildOps
  <2> QED
    BY <2>1, <2>2, <2>3, <2>4, <2>5, <2>6, <2>7, <2>8, <2>9, <2>10, <2>11, <2>12, Zenon
    DEF BuildEntry
<1>PrepareOp.
    ASSUME NEW t, NEW c, NEW not, NEW ep, PrepareEntry(t, c, not, ep)
    PROVE  PrepareOps(t, c, not, ep)
  <2> USE <1>PrepareOp
  <2>1. SmallSize \in Sizes
    BY Constants, Zenon
  <2> QED BY <2>1 DEF PrepareEntry, PrepareOps, Object, Give, CopySlot, MapDevice
<1>1. ASSUME StartEntry PROVE pos.part = 1 /\ StartOps
  <2>1. SmallSize \in Sizes
    BY Constants, Zenon
  <2> QED BY <1>1, <2>1 DEF StartEntry, StartOps, Origin, Object, NormalCap
<1>2. ASSUME LastEntry PROVE LastOps
  <2>1. CASE pos.part = 1 /\ pos.i = 1 /\ Now = Give(Kernel, 26, "untyped")
    BY <2>1 DEF LastOps, Give
  <2> QED BY <1>2, <2>1, <1>PrepareOp, <1>PagesOp, Zenon DEF LastEntry, LastOps
<1> QED BY <1>1, <1>2, <1>BuildOp, Entries, Zenon

LEMMA TaskStages ==
  /\ \A t \in Task : t \in Nat /\ t + 2 \in 2 .. 4 /\ t + 2 # 1 /\ t + 2 # 5
  /\ \A t, u \in Task : t + 2 = u + 2 => t = u
  BY DEF Task

LEMMA AtOrigin ==
  ASSUME image \in Images, PosOK, Step("origin")
  PROVE  pos.stage = 1 /\ pos.part = 1 /\ pos.i = 1 /\ Now.x = CNodeSize
  BY Ops, Zenon DEF Step, StartOps, BuildOps, LastOps, PrepareOps, PagesOps

LEMMA AtNormal ==
  ASSUME image \in Images, PosOK, Step("normal")
  PROVE  pos.stage = 1 /\ pos.part = 1 /\ pos.i = 4
  BY Ops, Zenon DEF Step, StartOps, BuildOps, LastOps, PrepareOps, PagesOps

LEMMA AtSlot ==
  ASSUME image \in Images, PosOK, Step("slot")
  PROVE  pos.stage = 5 /\ pos.part \in {2, 4} /\ pos.i = 6
  BY Ops, Zenon DEF Step, StartOps, BuildOps, LastOps, PrepareOps, PagesOps

LEMMA AtObject ==
  ASSUME image \in Images, PosOK, Step("object")
  PROVE  /\ Now.x \in Sizes
         /\ pos.stage = 1 => pos.i \in {2, 3}
         /\ pos.stage = 5 => pos.part \in {2, 4} /\ pos.i \in {1, 2}
<1>1. Now.x \in Sizes
  BY Ops, Zenon DEF Step, StartOps, BuildOps, LastOps, PrepareOps, PagesOps
<1>2. /\ pos.stage = 1 => pos.stage # 5 /\ \A t \in Task : pos.stage # t + 2
      /\ pos.stage = 5 => pos.stage # 1 /\ \A t \in Task : pos.stage # t + 2
  BY DEF Task
<1>3. pos.stage = 1 => pos.i \in {2, 3}
  BY <1>2, Ops, Zenon DEF Step, StartOps
<1>4. pos.stage = 5 => pos.part \in {2, 4} /\ pos.i \in {1, 2}
  BY <1>2, Ops, Zenon DEF Step, LastOps, PrepareOps, PagesOps
<1> QED BY <1>1, <1>3, <1>4

LEMMA AtTable ==
  ASSUME image \in Images, PosOK, Step("table")
  PROVE  /\ Now.t \in Task /\ pos.stage = Now.t + 2
         /\ \/ pos.part = 2 /\ Now.x = <<2, (First(Now.t) \div UpSpan) + pos.i - 1>>
            \/ pos.part = 3 /\ Now.x = <<1, (First(Now.t) \div PtSpan) + pos.i - 1>>
  BY Ops, Zenon DEF Step, StartOps, BuildOps, LastOps, PrepareOps, PagesOps

LEMMA AtCopy ==
  ASSUME image \in Images, PosOK, Step("copy")
  PROVE  /\ Now.t \in Task /\ pos.stage = Now.t + 2 /\ pos.part = 5
         /\ pos.i \in 1 .. Len(image[Now.t]) /\ Now.x = pos.i
  BY Ops, Zenon DEF Step, StartOps, BuildOps, LastOps, PrepareOps, PagesOps

LEMMA AtTake ==
  ASSUME image \in Images, PosOK, Step("take")
  PROVE  \/ \E t \in Task : /\ pos.stage = t + 2 /\ pos.part = 4
                            /\ pos.i \in 1 .. Frames(t) /\ Now.x = pos.i
         \/ \E t \in Task : pos.stage = t + 2 /\ pos.part = 7 /\ pos.i = 1 /\ Now.x = 1
         \/ \E t \in Task : /\ pos.stage = t + 2 /\ pos.part = 9 /\ Now.x = 1
                            /\ \E j \in 1 .. StackPages : pos.i = 2 * j - 1
         \/ /\ pos.stage = 5 /\ pos.part = 3 /\ Now.x = 1
            /\ \E j \in 1 .. BlkDma : pos.i = 2 * j - 1
         \/ /\ pos.stage = 5 /\ pos.part = 5 /\ Now.x = 1
            /\ \E j \in 1 .. NetDma : pos.i = 2 * j - 1
  BY Ops, Zenon DEF Step, StartOps, BuildOps, LastOps, PrepareOps, PagesOps

LEMMA AtFrameMap ==
  ASSUME image \in Images, PosOK, Step("frame_map")
  PROVE  /\ Now.t \in Task /\ pos.stage = Now.t + 2
         /\ \/ /\ pos.part = 6 /\ pos.i \in 1 .. Frames(Now.t)
               /\ Now.x[1] = First(Now.t) + pos.i - 1 /\ Now.x[2] = pos.i
            \/ pos.part = 7 /\ pos.i = 2 /\ Now.x[1] = End(Now.t) /\ Now.x[2] = 1
  BY Ops, Zenon DEF Step, StartOps, BuildOps, LastOps, PrepareOps, PagesOps

LEMMA AtMapPage ==
  ASSUME image \in Images, PosOK, Step("map_page")
  PROVE  /\ Now.t \in Task /\ Now.x[2] = 1
         /\ \/ /\ pos.stage = Now.t + 2 /\ pos.part = 9
               /\ \E j \in 1 .. StackPages :
                    pos.i = 2 * j /\ Now.x[1] = StackTop - StackPages + j - 1
            \/ /\ pos.stage = 5 /\ pos.part = 3 /\ Now.t = Blk
               /\ \E j \in 1 .. BlkDma : pos.i = 2 * j /\ Now.x[1] = DmaStart + j - 1
            \/ /\ pos.stage = 5 /\ pos.part = 5 /\ Now.t = Net
               /\ \E j \in 1 .. NetDma : pos.i = 2 * j /\ Now.x[1] = DmaStart + j - 1
<1>1. Blk \in Task /\ Net \in Task
  BY DEF Blk, Net, Task
<1> QED BY <1>1, Ops, Zenon DEF Step, StartOps, BuildOps, LastOps, PrepareOps, PagesOps

LEMMA AtDevice ==
  ASSUME image \in Images, PosOK, Step("device")
  PROVE  /\ Now.t \in Task /\ Now.x[1] = Device /\ pos.stage = 5 /\ pos.i = 7
         /\ pos.part \in {2, 4}
<1>1. Blk \in Task /\ Net \in Task
  BY DEF Blk, Net, Task
<1> QED BY <1>1, Ops, Zenon DEF Step, StartOps, BuildOps, LastOps, PrepareOps, PagesOps

\* A capability is given out at one place of the script.
GivenAt(t, c, o, s, p, i) ==
  \/ s = t + 2 /\ p = 8 /\ i = 1 /\ c = 18 /\ o = "fault_ep"
  \/ s = t + 2 /\ p = 8 /\ i = 2 /\ c = 20 /\ o = "irq_ep"
  \/ s = 5 /\ p = 1 /\ i = 1 /\ t = Kernel /\ c = 26 /\ o = "untyped"
  \/ s = 5 /\ p = 2 /\ i = 3 /\ t = Kernel /\ c = 27 /\ o = "blk_dev_ep"
  \/ s = 5 /\ p = 2 /\ i = 4 /\ t = Blk /\ c = 26 /\ o = "blk_irq_not"
  \/ s = 5 /\ p = 2 /\ i = 5 /\ t = Blk /\ c = 28 /\ o = "blk_dev_ep"
  \/ s = 5 /\ p = 4 /\ i = 3 /\ t = Kernel /\ c = 28 /\ o = "net_dev_ep"
  \/ s = 5 /\ p = 4 /\ i = 4 /\ t = Net /\ c = 26 /\ o = "net_irq_not"
  \/ s = 5 /\ p = 4 /\ i = 5 /\ t = Net /\ c = 28 /\ o = "net_dev_ep"

LEMMA AtGive ==
  ASSUME image \in Images, PosOK, Step("give")
  PROVE  Now.t \in Task /\ GivenAt(Now.t, Now.x[1], Now.x[2], pos.stage, pos.part, pos.i)
<1>1. Kernel \in Task /\ Blk \in Task /\ Net \in Task
  BY DEF Kernel, Blk, Net, Task
<1> QED BY <1>1, Ops, Zenon
        DEF Step, StartOps, BuildOps, LastOps, PrepareOps, PagesOps, GivenAt

(* How a step moves in the script.                                         *)

LEMMA SameImage ==
  ASSUME image' = image
  PROVE  /\ \A t : /\ First(t)' = First(t) /\ End(t)' = End(t) /\ Frames(t)' = Frames(t)
                   /\ \A span : TableCount(t, span)' = TableCount(t, span)
         /\ Script(image)' = Script(image)
         /\ \A s, p : PartOf(s, p)' = PartOf(s, p)
<1>1. \A t : First(t)' = First(t) /\ End(t)' = End(t)
  BY Zenon DEF First, End
<1>2. Script(image)' = Script(image)
  BY Zenon
<1> QED BY <1>1, <1>2, Zenon DEF Frames, TableCount, PartOf

\* Every part has a length.
LEMMA PartLength ==
  ASSUME image \in Images, NEW s \in 1 .. 5, NEW p \in 1 .. Len(Script(image)[s])
  PROVE  Len(PartOf(s, p)) \in Nat
<1>1. CASE s \in 2 .. 4
  <2>1. PICK t \in Task : s = t + 2
    <3>1. s - 2 \in Task /\ s = (s - 2) + 2
      BY <1>1 DEF Task
    <3> QED BY <3>1, Zenon
  <2>2. Len(Script(image)[t + 2]) = 9
    BY TaskParts, Zenon
  <2>3. p \in 1 .. 9
    BY <2>1, <2>2, Zenon
  <2>4. 2 * StackPages \in Nat /\ Len(image[t]) \in Nat
    BY Constants, Segments
  <2>5. /\ Len(PartOf(t + 2, 1)) \in Nat /\ Len(PartOf(t + 2, 2)) \in Nat
        /\ Len(PartOf(t + 2, 3)) \in Nat /\ Len(PartOf(t + 2, 4)) \in Nat
        /\ Len(PartOf(t + 2, 5)) \in Nat /\ Len(PartOf(t + 2, 6)) \in Nat
        /\ Len(PartOf(t + 2, 7)) \in Nat /\ Len(PartOf(t + 2, 8)) \in Nat
        /\ Len(PartOf(t + 2, 9)) \in Nat
    <3>1. 3 \in Nat /\ 2 \in Nat
      OBVIOUS
    <3> QED BY <2>4, <3>1, TaskLengths, Zenon
  <2> QED BY <2>1, <2>3, <2>5
<1>2. CASE s = 1
  BY <1>2, Parts, RootLengths
<1>3. CASE s = 5
  <2>1. p \in 1 .. 5
    BY <1>3, Parts
  <2> QED BY <1>3, <2>1, RootLengths, Constants
<1> QED BY <1>1, <1>2, <1>3

LEMMA StageLength ==
  \A s \in 1 .. 5 : Len(Script(image)[s]) \in Nat \ {0}
<1> TAKE s \in 1 .. 5
<1>1. CASE s \in {1, 5}
  <2>1. Len(Script(image)[1]) = 1 /\ Len(Script(image)[5]) = 5
    BY Parts, Zenon
  <2>2. 1 \in Nat \ {0} /\ 5 \in Nat \ {0}
    OBVIOUS
  <2> QED BY <1>1, <2>1, <2>2, Zenon
<1>2. CASE s \in 2 .. 4
  <2>1. s - 2 \in Task /\ s = (s - 2) + 2
    BY <1>2 DEF Task
  <2>2. Len(Script(image)[s]) = 9
    BY <2>1, TaskParts, Zenon
  <2> QED BY <2>2
<1> QED BY <1>1, <1>2

\* One entry more is done.
LEMMA DonePos ==
  ASSUME image \in Images, PosOK, image' = image, Done, pos.i <= Len(Part)
  PROVE  /\ PosOK'
         /\ pos'.stage = pos.stage /\ pos'.part = pos.part /\ pos'.i = pos.i + 1
         /\ \A s, p, i \in Nat :
              Passed(s, p, i)' <=> \/ Passed(s, p, i)
                                   \/ pos.stage = s /\ pos.part = p /\ pos.i = i
<1>1. /\ pos.stage \in 1 .. 5 /\ pos.part \in Nat \ {0} /\ pos.i \in Nat \ {0}
      /\ pos \in [stage: 1 .. 5, part: Nat \ {0}, i: Nat \ {0}]
      /\ pos.part <= Len(Script(image)[pos.stage])
  BY DEF PosOK
<1>2. /\ pos'.stage = pos.stage /\ pos'.part = pos.part /\ pos'.i = pos.i + 1
      /\ pos' \in [stage: 1 .. 5, part: Nat \ {0}, i: Nat \ {0}]
  BY <1>1 DEF Done
<1>3. Part = PartOf(pos.stage, pos.part)
  BY Zenon DEF Part, Stage, PartOf
<1>4. PartOf(pos.stage, pos.part)' = PartOf(pos.stage, pos.part)
  BY <1>2, SameImage, Zenon DEF PartOf
<1>5. pos.part \in 1 .. Len(Script(image)[pos.stage])
  <2>1. Len(Script(image)[pos.stage]) \in Nat
    BY <1>1, StageLength, Zenon
  <2> QED BY <1>1, <2>1
<1>6. Len(PartOf(pos.stage, pos.part)) \in Nat
  BY <1>1, <1>5, PartLength, Zenon
<1>7. pos'.i <= Len(PartOf(pos.stage, pos.part)) + 1
  BY <1>1, <1>2, <1>3, <1>6
<1>8. PosOK'
  <2>1. (pos.part <= Len(Script(image)[pos.stage]))'
    BY <1>1, <1>2, SameImage, Zenon
  <2>2. (pos.i <= Len(PartOf(pos.stage, pos.part)) + 1)'
    BY <1>4, <1>7, Zenon
  <2> QED BY <1>2, <2>1, <2>2, Zenon DEF PosOK
<1>9. ASSUME NEW s \in Nat, NEW p \in Nat, NEW i \in Nat
      PROVE  Passed(s, p, i)' <=> \/ Passed(s, p, i)
                                  \/ pos.stage = s /\ pos.part = p /\ pos.i = i
  BY <1>1, <1>2 DEF Passed
<1> QED BY <1>2, <1>8, <1>9

\* A part ends: nothing more is done.
LEMMA NextPos ==
  ASSUME image \in Images, PosOK, BootNext
  PROVE  /\ PosOK'
         /\ \A s \in 1 .. 5 : \A p \in 1 .. Len(Script(image)[s]) : \A i \in 1 .. Len(PartOf(s, p)) :
              Passed(s, p, i)' <=> Passed(s, p, i)
         /\ pos.i = Len(PartOf(pos.stage, pos.part)) + 1
         /\ pos'.i = 1
         /\ \/ pos'.stage = pos.stage /\ pos'.part = pos.part + 1
            \/ /\ pos'.stage = pos.stage + 1 /\ pos'.part = 1
               /\ pos.part = Len(Script(image)[pos.stage])
<1>NextPosOK.
    ASSUME image \in Images, image' = image, pos'.i = 1, pos'.stage \in 1 .. 5,
           pos' \in [stage: 1 .. 5, part: Nat \ {0}, i: Nat \ {0}],
           pos'.part \in 1 .. Len(Script(image)[pos'.stage])
    PROVE  PosOK'
  <2> USE <1>NextPosOK
  <2>1. Len(PartOf(pos'.stage, pos'.part)) \in Nat
    BY PartLength, Zenon
  <2>2. pos'.i <= Len(PartOf(pos'.stage, pos'.part)) + 1
    BY <2>1
  <2>3. pos'.part <= Len(Script(image)[pos'.stage])
    BY StageLength
  <2> QED BY <2>2, <2>3, Zenon DEF PosOK, PartOf
<1>1. /\ pos.stage \in 1 .. 5 /\ pos.part \in Nat \ {0} /\ pos.i \in Nat \ {0}
      /\ pos \in [stage: 1 .. 5, part: Nat \ {0}, i: Nat \ {0}]
      /\ pos.part <= Len(Script(image)[pos.stage])
      /\ pos.i <= Len(PartOf(pos.stage, pos.part)) + 1
  BY DEF PosOK
<1>2. Part = PartOf(pos.stage, pos.part) /\ Stage = Script(image)[pos.stage]
  BY Zenon DEF Part, Stage, PartOf
<1>3. Len(Script(image)) = 5
  BY Parts, Zenon
<1>4. image' = image /\ pos.i > Len(PartOf(pos.stage, pos.part))
  BY <1>2, Zenon DEF BootNext
<1>5. \A s \in 1 .. 5 : Len(Script(image)[s]) \in Nat \ {0}
  BY StageLength
<1>6. Len(PartOf(pos.stage, pos.part)) \in Nat
  <2>1. pos.part \in 1 .. Len(Script(image)[pos.stage])
    BY <1>1, <1>5
  <2> QED BY <1>1, <2>1, PartLength, Zenon
<1>7. pos.i = Len(PartOf(pos.stage, pos.part)) + 1
  BY <1>1, <1>4, <1>6
<1>8. CASE pos.part < Len(Stage)
  <2>1. pos' = [stage |-> pos.stage, part |-> pos.part + 1, i |-> 1]
    BY <1>8, Zenon DEF BootNext
  <2>2. /\ pos'.stage = pos.stage /\ pos'.part = pos.part + 1 /\ pos'.i = 1
        /\ pos' \in [stage: 1 .. 5, part: Nat \ {0}, i: Nat \ {0}]
    BY <1>1, <2>1
  <2>3. pos'.part \in 1 .. Len(Script(image)[pos'.stage]) /\ pos'.stage \in 1 .. 5
    <3>1. \A p, n \in Nat \ {0} : p < n => p + 1 \in 1 .. n
      OBVIOUS
    <3> QED BY <1>1, <1>2, <1>5, <1>8, <2>2, <3>1, Zenon
  <2>4. ASSUME NEW s \in 1 .. 5, NEW p \in 1 .. Len(Script(image)[s]), NEW i \in 1 .. Len(PartOf(s, p))
        PROVE  Passed(s, p, i)' <=> Passed(s, p, i)
    <3>1. Len(PartOf(s, p)) \in Nat
      BY PartLength, Zenon
    <3>2. (pos.stage = s /\ pos.part = p) => pos.i > i
      BY <1>7, <3>1
    <3>3. p \in Nat /\ i \in Nat
      BY <1>5, <3>1
    <3> QED BY <1>1, <2>2, <3>2, <3>3 DEF Passed
  <2> QED BY <1>7, <2>2, <2>3, <2>4, <1>NextPosOK, <1>4, Zenon
<1>9. CASE ~(pos.part < Len(Stage))
  <2>1. /\ pos' = [stage |-> pos.stage + 1, part |-> 1, i |-> 1]
        /\ pos.stage < 5
    BY <1>3, <1>9, Zenon DEF BootNext
  <2>2. /\ pos'.stage = pos.stage + 1 /\ pos'.part = 1 /\ pos'.i = 1
        /\ pos' \in [stage: 1 .. 5, part: Nat \ {0}, i: Nat \ {0}]
    BY <1>1, <2>1
  <2>3. pos'.part \in 1 .. Len(Script(image)[pos'.stage]) /\ pos'.stage \in 1 .. 5
    <3>1. pos'.stage \in 1 .. 5
      BY <1>1, <2>1, <2>2
    <3>2. Len(Script(image)[pos'.stage]) \in Nat \ {0}
      BY <1>5, <3>1, Zenon
    <3> QED BY <2>2, <3>1, <3>2
  <2>4. pos.part = Len(Script(image)[pos.stage])
    <3>1. \A p, n \in Nat \ {0} : p <= n /\ ~(p < n) => p = n
      OBVIOUS
    <3> QED BY <1>1, <1>2, <1>5, <1>9, <3>1, Zenon
  <2>5. ASSUME NEW s \in 1 .. 5, NEW p \in 1 .. Len(Script(image)[s]), NEW i \in 1 .. Len(PartOf(s, p))
        PROVE  Passed(s, p, i)' <=> Passed(s, p, i)
    <3>1. Len(PartOf(s, p)) \in Nat
      BY PartLength, Zenon
    <3>2. (pos.stage = s /\ pos.part = p) => pos.i > i
      BY <1>7, <3>1
    <3>3. p \in Nat /\ i \in Nat /\ i >= 1
      BY <1>5, <3>1
    <3>4. pos.stage = s => p <= pos.part
      BY <1>5, <2>4
    <3>5. Passed(s, p, i) <=> pos.stage >= s
      BY <1>1, <3>2, <3>3, <3>4, SMTT(20) DEF Passed
    <3>6. Passed(s, p, i)' <=> pos'.stage > s
      BY <1>1, <2>2, <3>3, SMTT(20) DEF Passed
    <3>7. \A x, y \in 1 .. 5 : x >= y <=> x + 1 > y
      OBVIOUS
    <3> QED BY <1>1, <2>2, <3>5, <3>6, <3>7, Zenon
  <2> QED BY <1>7, <2>2, <2>3, <2>4, <2>5, <1>NextPosOK, <1>4, Zenon
<1> QED BY <1>8, <1>9

(* The allocator and the position.                                         *)

\* The allocator is in order, and has a CNode for the next slot or makes one.
AllocOK ==
  /\ AllocInv /\ NodeReady /\ 0 \in cnodes
  /\ pos.stage = 1 => next = SlotFirst + pos.i - 1

LEMMA StepPos ==
  ASSUME image \in Images, PosOK, Boot
  PROVE  image' = image /\ PosOK'
<1>1. image' = image
  BY Zenon DEF Boot, BootOrigin, BootObject, BootNormalCap, BootSlot, BootTable, BootTake, BootCopy,
     BootMissingTable, BootMap, BootDevice, BootGive, BootNext, BootDone, memVars
<1>2. CASE BootNext
  BY <1>1, <1>2, NextPos, Zenon
<1>3. CASE Done /\ \E op : Step(op)
  BY <1>1, <1>3, DonePos, Zenon DEF Step
<1>4. CASE pos' = pos
  BY <1>1, <1>4, Zenon DEF PosOK, PartOf
<1> QED
  BY <1>2, <1>3, <1>4, Zenon
  DEF Boot, BootOrigin, BootObject, BootNormalCap, BootSlot, BootTable, BootTake, BootCopy,
      BootMissingTable, BootMap, BootDevice, BootGive, BootDone, memVars

LEMMA BootAllocates ==
  ASSUME image \in Images, PosOK, AllocOK, Boot
  PROVE  /\ AllocNext \/ UNCHANGED allocVars
         /\ AllocOK'
\* The next slot is in the same CNode, or the first one of another.
<1>NextNode.
    ASSUME NEW n \in Nat
    PROVE  (n + 1) % Radix = 0 \/ (n + 1) \div Radix = n \div Radix
  <2> DEFINE q == n \div Radix
             r == n % Radix
  <2>1. Radix \in Nat \ {0}
    BY AllocatorAssumption
  <2>2. q \in Nat /\ r \in 0 .. Radix - 1 /\ n = Radix * q + r
    BY <2>1, Division, Zenon
  <2> HIDE DEF q, r
  <2>3. CASE r + 1 \in 0 .. Radix - 1
    <3>1. n + 1 = q * Radix + (r + 1)
      BY <2>1, <2>2
    <3>2. (q * Radix + (r + 1)) \div Radix = q
      BY <2>1, <2>2, <2>3, Quotient, Zenon
    <3> QED BY <3>1, <3>2, Zenon DEF q
  <2>4. CASE r + 1 = Radix
    <3>1. q + 1 \in Nat /\ 0 \in 0 .. Radix - 1 /\ n + 1 = (q + 1) * Radix + 0
      <4>1. (q + 1) * Radix = q * Radix + Radix /\ q * Radix = Radix * q /\ q * Radix \in Nat
        BY <2>1, <2>2
      <4> QED BY <2>1, <2>2, <2>4, <4>1
    <3>2. ((q + 1) * Radix + 0) % Radix = 0
      BY <2>1, <3>1, Quotient, Zenon
    <3> QED BY <3>1, <3>2, Zenon
  <2> QED BY <2>1, <2>2, <2>3, <2>4
<1>AllocKeepsNode.
    ASSUME AllocOK, next \div Radix \in SlotCNodes, cnodes' = SlotCNodes, next' = next + 1
    PROVE  NodeReady' /\ (0 \in cnodes)'
  <2> USE <1>AllocKeepsNode
  <2>1. next \in Nat
    BY AllocatorAssumption DEF AllocOK, AllocInv, AllocTypeOK
  <2>2. next' % Radix = 0 \/ next' \div Radix = next \div Radix
    BY <2>1, <1>NextNode, Zenon
  <2>3. (0 \in cnodes)'
    BY Zenon DEF AllocOK, SlotCNodes
  <2> QED BY <2>2, <2>3, Zenon DEF NodeReady
\* In the initial CNode a slot needs no other CNode.
<1>FirstNode.
    ASSUME AllocOK, next' = next + 1, next < Radix, cnodes' = cnodes
    PROVE  NodeReady' /\ (0 \in cnodes)'
  <2> USE <1>FirstNode
  <2>1. next \in Nat /\ Radix \in Nat \ {0}
    BY AllocatorAssumption DEF AllocOK, AllocInv, AllocTypeOK
  <2>2. 0 \in cnodes
    BY Zenon DEF AllocOK
  <2>3. next \div Radix = 0
    <3>1. 0 * Radix + next = next /\ next \in 0 .. Radix - 1 /\ 0 \in Nat
      BY <2>1
    <3> QED BY <2>1, <3>1, Quotient, Zenon
  <2>4. next' % Radix = 0 \/ next' \div Radix = 0
    BY <2>1, <2>3, <1>NextNode, Zenon
  <2> QED BY <2>2, <2>4, Zenon DEF NodeReady
<1>1. AllocNext \/ UNCHANGED allocVars
  <2>1. PageSize \in Sizes /\ CNodeSize \in Sizes
    BY Constants, Zenon
  <2>2. CASE BootOrigin
    BY <2>1, <2>2, AtOrigin, Zenon DEF BootOrigin, AllocNext
  <2>3. CASE BootObject
    BY <2>3, AtObject, Zenon DEF BootObject, AllocNext
  <2>4. CASE BootNormalCap \/ BootSlot
    BY <2>4, Zenon DEF BootNormalCap, BootSlot, AllocNext
  <2>5. CASE BootTable \/ BootTake \/ BootMissingTable
    BY <2>1, <2>5, Zenon DEF BootTable, BootTake, BootMissingTable, AllocNext
  <2> QED
    BY <2>2, <2>3, <2>4, <2>5, Zenon
    DEF Boot, BootCopy, BootMap, BootDevice, BootGive, BootNext, BootDone
<1>2. AllocInv'
  BY <1>1, AllocNextInv, AllocSame, Zenon DEF AllocOK
<1>3. NodeReady' /\ (0 \in cnodes)'
  <2>1. CASE BootOrigin
    BY <2>1, <1>FirstNode, Zenon DEF BootOrigin, AllocateOrigin, OriginOk
  <2>2. CASE BootNormalCap
    <3>1. pos.stage = 1 /\ pos.i = 4
      BY <2>2, AtNormal, Zenon DEF BootNormalCap
    <3>2. next < Radix
      BY <3>1, BootAssumption, AllocatorAssumption DEF AllocOK
    <3> QED BY <2>2, <3>2, <1>FirstNode, Zenon DEF BootNormalCap, AllocateNormalCap
  <2>3. CASE BootObject \/ BootTable \/ BootTake \/ BootMissingTable
    BY <2>3, <1>AllocKeepsNode, Zenon
    DEF BootObject, BootTable, BootTake, BootMissingTable, AllocateAndRetype, RetypeOk
  <2>4. CASE BootSlot
    BY <2>4, <1>AllocKeepsNode, Zenon DEF BootSlot, AllocateSlot
  <2>5. CASE UNCHANGED allocVars
    BY <2>5, Zenon DEF AllocOK, NodeReady, allocVars
  <2> QED
    BY <2>1, <2>2, <2>3, <2>4, <2>5, Zenon
    DEF Boot, BootCopy, BootMap, BootDevice, BootGive, BootNext, BootDone
<1>4. (pos.stage = 1 => next = SlotFirst + pos.i - 1)'
  <2>1. CASE BootOrigin \/ BootObject \/ BootNormalCap \/ BootSlot \/ BootTable \/ BootTake
    <3>1. Done /\ next' = next + 1 /\ pos.i <= Len(Part)
      BY <2>1, Zenon DEF BootOrigin, BootObject, BootNormalCap, BootSlot, BootTable, BootTake, Step,
         AllocateOrigin, AllocateAndRetype, AllocateNormalCap, AllocateSlot
    <3>2. pos'.stage = pos.stage /\ pos'.i = pos.i + 1
      BY <3>1, StepPos, DonePos, Zenon
    <3>3. pos.i \in Nat /\ SlotFirst \in Nat /\ (pos.stage = 1 => next = SlotFirst + pos.i - 1)
      BY AllocatorAssumption DEF PosOK, AllocOK
    <3> QED BY <3>1, <3>2, <3>3
  <2>2. CASE BootCopy \/ BootMap \/ BootDevice \/ BootGive
    <3>1. pos.stage # 1 /\ Done /\ pos.i <= Len(Part)
      <4>1. Done /\ pos.i <= Len(Part)
        BY <2>2, Zenon DEF BootCopy, BootMap, BootDevice, BootGive, Step
      <4>2. pos.stage # 1
        <5>1. \A t \in Task : t + 2 # 1
          BY TaskStages, Zenon
        <5>2. 5 # 1
          OBVIOUS
        <5>3. CASE BootCopy
          BY <5>1, <5>3, AtCopy, Zenon DEF BootCopy
        <5>4. CASE BootMap
          BY <5>1, <5>2, <5>4, AtFrameMap, AtMapPage, Zenon DEF BootMap
        <5>5. CASE BootDevice
          BY <5>2, <5>5, AtDevice, Zenon DEF BootDevice
        <5>6. CASE BootGive
          <6>1. Now.t \in Task /\ GivenAt(Now.t, Now.x[1], Now.x[2], pos.stage, pos.part, pos.i)
            BY <5>6, AtGive, Zenon DEF BootGive
          <6>2. pos.stage = Now.t + 2 \/ pos.stage = 5
            BY <6>1, Zenon DEF GivenAt
          <6> QED BY <5>1, <5>2, <6>1, <6>2, Zenon
        <5> QED BY <2>2, <5>3, <5>4, <5>5, <5>6
      <4> QED BY <4>1, <4>2
    <3>2. pos'.stage = pos.stage
      BY <3>1, StepPos, DonePos, Zenon
    <3> QED BY <3>1, <3>2, Zenon
  <2>3. CASE BootMissingTable
    <3>1. pos' = pos /\ pos.stage # 1
      <4>1. \A t \in Task : t + 2 # 1
        BY TaskStages, Zenon
      <4>2. 5 # 1
        OBVIOUS
      <4> QED BY <4>1, <4>2, <2>3, AtMapPage, AtDevice, Zenon DEF BootMissingTable
    <3> QED BY <3>1, Zenon
  <2>4. CASE BootNext
    <3>1. pos'.stage # 1
      <4>1. /\ \/ pos'.stage = pos.stage /\ pos'.part = pos.part + 1
               \/ pos'.stage = pos.stage + 1
            /\ PosOK' /\ image' = image
        BY <2>4, NextPos, StepPos, Zenon
      <4>2. pos'.stage = 1 => pos'.part = 1
        <5>1. pos'.part \in Nat \ {0} /\ pos'.part <= Len(Script(image)[pos'.stage])
          BY <4>1, Zenon DEF PosOK
        <5>2. pos'.stage = 1 => Len(Script(image)[pos'.stage]) = 1
          BY Parts, Zenon
        <5>3. \A n, m : n \in Nat \ {0} /\ n <= m /\ m = 1 => n = 1
          OBVIOUS
        <5> QED BY <5>1, <5>2, <5>3, Zenon
      <4>3. pos.stage \in 1 .. 5 /\ pos.part \in Nat \ {0}
        BY Zenon DEF PosOK
      <4>4. \A n \in Nat \ {0} : n + 1 # 1
        OBVIOUS
      <4>5. \A n \in 1 .. 5 : n + 1 # 1
        OBVIOUS
      <4> QED BY <4>1, <4>2, <4>3, <4>4, <4>5, Zenon
    <3> QED BY <3>1, Zenon
  <2>5. CASE BootDone
    BY <2>5, Zenon DEF BootDone, memVars, allocVars, AllocOK
  <2> QED BY <2>1, <2>2, <2>3, <2>4, <2>5, Zenon DEF Boot
<1> QED BY <1>1, <1>2, <1>3, <1>4, Zenon DEF AllocOK

LEMMA NextGrows ==
  ASSUME image \in Images, PosOK, AllocOK, Boot
  PROVE  next \in Nat /\ next' \in Nat /\ next <= next'
<1>1. next \in Nat
  BY AllocatorAssumption DEF AllocOK, AllocInv, AllocTypeOK
<1>2. next' = next + 1 \/ next' = next
  BY BootAllocates, Zenon DEF allocVars, AllocNext, AllocateSlot, AllocateNormalCap,
     AllocateAndRetype, AllocateOrigin
<1> QED BY <1>1, <1>2

\* A step that does the next entry.
DoneStep ==
  /\ Done /\ pos.i <= Len(Part)
  /\ Now.op = "table" => BootTable
  /\ Now.op = "take" => BootTake
  /\ Now.op = "copy" => BootCopy
  /\ Now.op = "map_page" \/ Now.op = "frame_map" => BootMap
  /\ Now.op = "give" => BootGive

LEMMA BootCases ==
  ASSUME Boot
  PROVE  BootNext \/ BootMissingTable \/ BootDone \/ DoneStep
<1>1. CASE BootOrigin \/ BootObject \/ BootNormalCap \/ BootSlot \/ BootDevice
  BY <1>1, Zenon DEF BootOrigin, BootObject, BootNormalCap, BootSlot, BootDevice, DoneStep, Step
<1>2. CASE BootTable
  BY <1>2, Zenon DEF BootTable, DoneStep, Step
<1>3. CASE BootTake
  BY <1>3, Zenon DEF BootTake, DoneStep, Step
<1>4. CASE BootCopy
  BY <1>4, Zenon DEF BootCopy, DoneStep, Step
<1>5. CASE BootMap
  BY <1>5, Zenon DEF BootMap, DoneStep, Step
<1>6. CASE BootGive
  BY <1>6, Zenon DEF BootGive, DoneStep, Step
<1> QED BY <1>1, <1>2, <1>3, <1>4, <1>5, <1>6, Zenon DEF Boot

LEMMA PassedStep ==
  ASSUME image \in Images, PosOK, Boot, NEW s \in 1 .. 5, NEW p \in 1 .. Len(Script(image)[s]),
         NEW i \in 1 .. Len(PartOf(s, p)), Passed(s, p, i)', ~Passed(s, p, i)
  PROVE  DoneStep /\ pos.stage = s /\ pos.part = p /\ pos.i = i
<1>1. ~BootNext
  BY NextPos, Zenon
<1>2. pos' # pos
  BY Zenon DEF Passed
<1>3. DoneStep
  BY <1>1, <1>2, BootCases, Zenon DEF BootMissingTable, BootDone, memVars
<1>4. s \in Nat /\ p \in Nat /\ i \in Nat
  BY StageLength, PartLength
<1>5. image' = image
  BY StepPos, Zenon
<1> QED BY <1>3, <1>4, <1>5, DonePos, Zenon DEF DoneStep

LEMMA TaskPlaces ==
  ASSUME image \in Images, NEW t \in Task, NEW p \in 1 .. 9
  PROVE  t + 2 \in 1 .. 5 /\ p \in 1 .. Len(Script(image)[t + 2])
<1>1. t + 2 \in 1 .. 5
  BY TaskStages
<1> QED BY <1>1, TaskParts, Zenon

(* The inductive invariant of the start-up.  It says nothing of root and   *)
(* cspace, so what the root task does later leaves it alone.               *)

\* The frames that will be mapped are in hand.
HandOK ==
  /\ hand \in Seq(Slot)
  /\ \A k \in 1 .. Len(hand) : hand[k] < next
  /\ \A t \in Task : pos.stage = t + 2 =>
       /\ pos.part = 4 => Len(hand) >= pos.i - 1
       /\ pos.part \in {5, 6} => Len(hand) >= Frames(t)
       /\ pos.part = 7 /\ pos.i = 2 => Len(hand) >= 1
  /\ \A j \in 1 .. pos.i : pos.i = 2 * j =>
       /\ pos.stage \in 2 .. 4 /\ pos.part = 9 => Len(hand) >= 1
       /\ pos.stage = 5 /\ pos.part \in {3, 5} => Len(hand) >= 1

PageOK ==
  /\ page \in [Task -> [Page -> Slot \cup {0}]]
  /\ \A t \in Task : \A p \in Page : page[t][p] < next

\* The tables of the image are there before a page of it is mapped.
TablesMade ==
  /\ pts = [t \in Task |-> pts[t]]
  /\ \A t \in Task :
       /\ \A i \in 1 .. TableCount(t, UpSpan) :
            Passed(t + 2, 2, i) => <<2, (First(t) \div UpSpan) + i - 1>> \in pts[t]
       /\ \A i \in 1 .. TableCount(t, PtSpan) :
            Passed(t + 2, 3, i) => <<1, (First(t) \div PtSpan) + i - 1>> \in pts[t]

\* What was mapped stays mapped.
PagesMapped ==
  /\ \A t \in Task :
       /\ \A k \in 1 .. Frames(t) : Passed(t + 2, 6, k) => page[t][First(t) + k - 1] # 0
       /\ \A j \in 1 .. StackPages :
            Passed(t + 2, 9, 2 * j) => page[t][StackTop - StackPages + j - 1] # 0
  /\ \A j \in 1 .. BlkDma : Passed(5, 3, 2 * j) => page[Blk][DmaStart + j - 1] # 0
  /\ \A j \in 1 .. NetDma : Passed(5, 5, 2 * j) => page[Net][DmaStart + j - 1] # 0

\* The frame in slot f holds what page k of an image gets from its first m
\* segments.
Holds(D, im, f, k, m) ==
  \A o \in 0 .. PageSize - 1 : \A b :
    LET a == (ImageFirst(im) + k - 1) * PageSize + o
    IN  <<f, o, b>> \in D <=> \E s \in 1 .. m : a \in Data(im[s]) /\ b = <<s, a - im[s].addr>>

\* What was copied went into frames.
DataTyped == \A d \in data : d = <<d[1], d[2], d[3]>> /\ d[1] \in Nat /\ d[1] < next

\* The frame in hand for page k is not mapped and none of those before.
Unshared(k) ==
  /\ \A u \in Task : \A p \in Page : page[u][p] # hand[k]
  /\ \A m \in 1 .. k - 1 : hand[m] # hand[k]

\* The frames of an image are its own and are filled segment by segment.
FramesFilled ==
  \A t \in Task : pos.stage = t + 2 =>
    /\ pos.part = 4 =>
         \A k \in 1 .. pos.i - 1 : Unshared(k) /\ \A d \in data : d[1] # hand[k]
    /\ pos.part = 5 =>
         \A k \in 1 .. Frames(t) : Unshared(k) /\ Holds(data, image[t], hand[k], k, pos.i - 1)
    /\ pos.part = 6 =>
         \A k \in 1 .. Frames(t) : Holds(data, image[t], hand[k], k, Len(image[t]))

\* A frame that was mapped for an image keeps what it holds.
FramesLoaded ==
  \A t \in Task : \A k \in 1 .. Frames(t) : Passed(t + 2, 6, k) =>
    Holds(data, image[t], page[t][First(t) + k - 1], k, Len(image[t]))

DataOK == DataTyped /\ FramesFilled /\ FramesLoaded

\* Once the first DMA page of the net thread is mapped, no table is missing
\* for the others.
DmaTables == \A j \in 1 .. NetDma : Passed(5, 5, 2 * j) => TablesOf(DmaStart) \subseteq pts[Net]

\* The frame of DMA page j, from the second on, lies at the end of the memory
\* in use, in the slot before the next.
LastFrame ==
  /\ hand[1] = next - 1 /\ at[hand[1]] % PageSize = 0
  /\ water = at[hand[1]] + PageSize

DmaFrame ==
  pos.stage = 5 /\ pos.part = 5 => \A j \in 1 .. NetDma :
    /\ pos.i = 2 * j + 1 => hand[1] = page[Net][DmaStart + j - 1]
    /\ (pos.i = 2 * j \/ pos.i = 2 * j + 1) /\ j > 1 => LastFrame
    /\ pos.i = 2 * j /\ j > 2 =>
         \/ at[hand[1]] = at[page[Net][DmaStart + j - 2]] + PageSize
         \/ \E s \in page[Net][DmaStart + j - 2] + 1 .. hand[1] : s % Radix = 0

DmaJoined == \A j \in 2 .. NetDma - 1 : Passed(5, 5, 2 * j + 2) => Joined(Net, DmaStart + j - 1)

DmaOK == DmaTables /\ DmaFrame /\ DmaJoined

MemInv ==
  /\ image \in Images /\ PosOK /\ AllocOK /\ HandOK /\ PageOK
  /\ TablesMade /\ PagesMapped /\ DataOK /\ DmaOK

(* The frames in hand.                                                     *)

\* allocate_and_retype puts the frame in the next slot.
LEMMA TakeHand ==
  ASSUME image \in Images, PosOK, AllocOK, HandOK, BootTake
  PROVE  /\ next \in Slot /\ next' = next + 1
         /\ Now.x \in Nat \ {0} /\ Len(hand) >= Now.x - 1
         /\ hand' \in Seq(Slot) /\ Len(hand') = Now.x /\ hand'[Now.x] = next
         /\ \A k \in 1 .. Now.x - 1 : hand'[k] = hand[k]
<1>IsASeq.
    ASSUME NEW S, NEW n \in Nat, NEW f, f = [k \in 1 .. n |-> f[k]], \A k \in 1 .. n : f[k] \in S
    PROVE  f \in Seq(S) /\ Len(f) = n
  BY <1>IsASeq
<1>1. next \in Slot /\ next' = next + 1
  BY Slots, Zenon DEF BootTake, AllocateAndRetype, RetypeOk, SlotOk, AllocOK, AllocInv, AllocTypeOK
<1>2. Now.x \in Nat \ {0} /\ Len(hand) >= Now.x - 1
  <2>1. Len(hand) \in Nat /\ pos.i \in Nat \ {0}
    BY DEF HandOK, PosOK
  <2>2. \/ Now.x = 1
        \/ \E t \in Task : pos.stage = t + 2 /\ pos.part = 4 /\ Now.x = pos.i
    BY AtTake, Zenon DEF BootTake
  <2>3. Now.x = 1 \/ (Now.x = pos.i /\ Len(hand) >= pos.i - 1)
    BY <2>2, Zenon DEF HandOK
  <2> QED BY <2>1, <2>3
<1>3. hand' = [k \in 1 .. Now.x |-> IF k = Now.x THEN next ELSE hand[k]]
  BY Zenon DEF BootTake
<1>4. \A k \in 1 .. Now.x - 1 : k \in 1 .. Len(hand)
  <2>1. Len(hand) \in Nat
    BY DEF HandOK
  <2> QED BY <1>2, <2>1
<1>5. \A k \in 1 .. Now.x - 1 : hand[k] \in Slot
  BY <1>4 DEF HandOK
<1> DEFINE n == Now.x
<1> HIDE DEF n
<1>6. n \in Nat \ {0} /\ hand' = [k \in 1 .. n |-> IF k = n THEN next ELSE hand[k]]
  BY <1>2, <1>3, Zenon DEF n
<1>7. \A k \in 1 .. n - 1 : hand[k] \in Slot
  BY <1>5, Zenon DEF n
<1>8. hand' \in Seq(Slot) /\ Len(hand') = n
  <2>1. \A k \in 1 .. n : k = n \/ k \in 1 .. n - 1
    BY <1>6
  <2>2. \A k \in 1 .. n : hand'[k] \in Slot
    BY <1>1, <1>6, <1>7, <2>1, Zenon
  <2>3. hand' = [k \in 1 .. n |-> hand'[k]]
    BY <1>6, Zenon
  <2> HIDE DEF n
  <2> QED BY <1>6, <2>2, <2>3, <1>IsASeq
<1>9. hand'[n] = next /\ \A k \in 1 .. n - 1 : hand'[k] = hand[k]
  <2>1. n \in 1 .. n /\ \A k \in 1 .. n - 1 : k \in 1 .. n /\ k # n
    BY <1>6
  <2> QED BY <1>6, <2>1, Zenon
<1> QED BY <1>1, <1>2, <1>8, <1>9, Zenon DEF n

HandLengths ==
  /\ \A t \in Task : pos.stage = t + 2 =>
       /\ pos.part = 4 => Len(hand) >= pos.i - 1
       /\ pos.part \in {5, 6} => Len(hand) >= Frames(t)
       /\ pos.part = 7 /\ pos.i = 2 => Len(hand) >= 1
  /\ \A j \in 1 .. pos.i : pos.i = 2 * j =>
       /\ pos.stage \in 2 .. 4 /\ pos.part = 9 => Len(hand) >= 1
       /\ pos.stage = 5 /\ pos.part \in {3, 5} => Len(hand) >= 1

LEMMA HandStep ==
  ASSUME image \in Images, PosOK, AllocOK, HandOK, Boot
  PROVE  HandOK'
\* Where something else than a frame is allocated or done.
<1>NotTake.
    ASSUME image \in Images, PosOK, pos.i <= Len(Part), Now.op # "take"
    PROVE  /\ \A t \in Task : pos.stage = t + 2 => pos.part # 4 /\ ~(pos.part = 7 /\ pos.i = 1)
           /\ \/ \E t \in Task : pos.stage = t + 2 /\ pos.part = 9
              \/ pos.stage = 5 /\ pos.part \in {3, 5}
              => \E j \in Nat : pos.i = 2 * j
  <2> USE <1>NotTake
  <2>1. \A i : Take(i).op = "take"
    BY DEF Take
  <2>2. ASSUME NEW t \in Task, pos.stage = t + 2
        PROVE  /\ pos.part # 4 /\ ~(pos.part = 7 /\ pos.i = 1)
               /\ pos.part = 9 => \E j \in Nat : pos.i = 2 * j
    <3>1. BuildEntry(t)
      BY <2>2, BuildEntries, Zenon
    <3>2. pos.part # 4
      <4>1. ASSUME pos.part = 4 PROVE Now = Take(pos.i)
        BY <3>1, <4>1 DEF BuildEntry
      <4> QED BY <2>1, <4>1, Zenon
    <3>3. ~(pos.part = 7 /\ pos.i = 1)
      <4>1. ASSUME pos.part = 7, pos.i = 1 PROVE Now = Take(1)
        BY <3>1, <4>1 DEF BuildEntry
      <4> QED BY <2>1, <4>1, Zenon
    <3>4. ASSUME pos.part = 9 PROVE \E j \in Nat : pos.i = 2 * j
      <4>1. PagesEntry(t, StackTop - StackPages, StackPages)
        BY <3>1, <3>4 DEF BuildEntry
      <4>2. PICK j \in 1 .. StackPages : pos.i = 2 * j
        BY <2>1, <4>1, Zenon DEF PagesEntry
      <4> QED BY <4>2
    <3> QED BY <3>2, <3>3, <3>4
  <2>3. ASSUME pos.stage = 5, pos.part \in {3, 5} PROVE \E j \in Nat : pos.i = 2 * j
    <3>1. LastEntry
      BY <2>3, LastEntries, Zenon
    <3>2. \/ PagesEntry(Blk, DmaStart, BlkDma)
          \/ PagesEntry(Net, DmaStart, NetDma)
      BY <2>3, <3>1 DEF LastEntry
    <3>3. \E j \in (1 .. BlkDma) \cup (1 .. NetDma) : pos.i = 2 * j
      BY <2>1, <3>2, ZenonT(30) DEF PagesEntry
    <3> QED BY <3>3
  <2> QED BY <2>2, <2>3, Zenon
<1>1. /\ hand \in Seq(Slot) /\ Len(hand) \in Nat /\ (\A k \in 1 .. Len(hand) : hand[k] < next)
      /\ HandLengths
  BY DEF HandOK, HandLengths
<1>2. /\ pos.stage \in 1 .. 5 /\ pos.part \in Nat \ {0} /\ pos.i \in Nat \ {0}
      /\ \A t \in Task : t \in Nat /\ Frames(t) \in Nat /\ Frames(t)' = Frames(t)
  <2>1. \A t \in Task : Frames(t) \in Nat
    BY TaskLengths, Zenon
  <2> QED BY <2>1, StepPos, SameImage, TaskStages DEF PosOK
<1>3. next \in Nat /\ next' \in Nat /\ next <= next'
  BY NextGrows, Zenon
<1>4. CASE BootTake
  <2>1. /\ next \in Slot /\ next' = next + 1
        /\ Now.x \in Nat \ {0} /\ Len(hand) >= Now.x - 1
        /\ hand' \in Seq(Slot) /\ Len(hand') = Now.x /\ hand'[Now.x] = next
        /\ \A k \in 1 .. Now.x - 1 : hand'[k] = hand[k]
    BY <1>4, TakeHand, Zenon
  <2>2. \A k \in 1 .. Len(hand') : hand'[k] < next'
    <3> TAKE k \in 1 .. Len(hand')
    <3>1. CASE k = Now.x
      <4>1. hand'[k] = next /\ next' = next + 1 /\ next \in Nat
        BY <3>1, <2>1, <1>3, Zenon
      <4> QED BY <4>1
    <3>2. CASE k # Now.x
      <4>1. k \in 1 .. Now.x - 1 /\ k \in 1 .. Len(hand)
        BY <3>2, <2>1, <1>1
      <4>2. hand'[k] = hand[k] /\ hand[k] < next /\ hand[k] \in Slot
        BY <4>1, <2>1, <1>1
      <4>3. hand[k] \in Nat
        BY <4>2, Slots, Zenon
      <4> QED BY <4>2, <4>3, <1>3
    <3> QED BY <3>1, <3>2
  <2>3. pos'.stage = pos.stage /\ pos'.part = pos.part /\ pos'.i = pos.i + 1
    BY <1>4, StepPos, DonePos, Zenon DEF BootTake, Step
  <2>4. \/ \E t \in Task : pos.stage = t + 2 /\ pos.part = 4 /\ Now.x = pos.i
        \/ Now.x = 1 /\ \A t \in Task : pos.stage = t + 2 => pos.part \notin {4, 5, 6}
    <3>1. 7 \notin {4, 5, 6} /\ 9 \notin {4, 5, 6} /\ 3 \notin {4, 5, 6}
      OBVIOUS
    <3>2. pos.stage = 5 => \A t \in Task : pos.stage # t + 2
      BY TaskStages, Zenon
    <3> QED BY <1>4, <3>1, <3>2, AtTake, Zenon DEF BootTake
  <2>5. HandLengths'
    <3>1. Len(hand') >= 1 /\ Len(hand') \in Nat
      BY <2>1
    <3>2. CASE \E t \in Task : pos.stage = t + 2 /\ pos.part = 4 /\ Now.x = pos.i
      <4>1. Len(hand') >= pos'.i - 1 /\ pos'.part = 4 /\ pos'.part \notin {5, 6, 7, 9}
        BY <2>1, <2>3, <1>2, <3>2
      <4>2. pos'.stage # 5
        BY <3>2, <2>3, TaskStages, Zenon
      <4> QED BY <3>1, <4>1, <4>2 DEF HandLengths
    <3>3. CASE \A t \in Task : pos.stage = t + 2 => pos.part \notin {4, 5, 6}
      BY <3>1, <3>3, <2>3 DEF HandLengths
    <3> QED BY <2>4, <3>2, <3>3, Zenon
  <2> QED BY <2>1, <2>2, <2>5, Zenon DEF HandOK, HandLengths
<1>5. ASSUME hand' = hand, HandLengths' PROVE HandOK'
  <2>1. \A k \in 1 .. Len(hand) : hand[k] < next'
    <3> TAKE k \in 1 .. Len(hand)
    <3>1. hand[k] \in Slot /\ hand[k] < next
      BY <1>1
    <3>2. hand[k] \in Nat
      BY <3>1, Slots, Zenon
    <3> QED BY <3>1, <3>2, <1>3
  <2> QED BY <1>1, <1>5, <2>1, Zenon DEF HandOK, HandLengths
<1>6. CASE hand' = hand /\ Done /\ pos.i <= Len(Part) /\ Now.op # "take"
  <2>1. pos'.stage = pos.stage /\ pos'.part = pos.part /\ pos'.i = pos.i + 1
    BY <1>6, StepPos, DonePos, Zenon
  <2>2. /\ \A t \in Task : pos.stage = t + 2 => pos.part # 4 /\ ~(pos.part = 7 /\ pos.i = 1)
        /\ \/ \E t \in Task : pos.stage = t + 2 /\ pos.part = 9
           \/ pos.stage = 5 /\ pos.part \in {3, 5}
           => \E j \in Nat : pos.i = 2 * j
    BY <1>6, <1>NotTake, Zenon
  <2>3. ASSUME NEW j \in 1 .. pos'.i, pos'.i = 2 * j
        PROVE  /\ ~(pos'.stage \in 2 .. 4 /\ pos'.part = 9)
               /\ ~(pos'.stage = 5 /\ pos'.part \in {3, 5})
    <3>1. \A k \in Nat : pos.i # 2 * k
      BY <2>1, <2>3, <1>2
    <3>2. pos.stage \in 2 .. 4 => \E t \in Task : pos.stage = t + 2
      <4> SUFFICES ASSUME pos.stage \in 2 .. 4 PROVE \E t \in Task : pos.stage = t + 2
        OBVIOUS
      <4>1. pos.stage - 2 \in Task /\ pos.stage = (pos.stage - 2) + 2
        BY DEF Task
      <4> QED BY <4>1, Zenon
    <3> QED BY <2>1, <2>2, <3>1, <3>2, Zenon
  <2>4. \A t \in Task : pos'.stage = t + 2 =>
          /\ pos'.part # 4 /\ ~(pos'.part = 7 /\ pos'.i = 2)
          /\ pos'.part \in {5, 6} => Len(hand') >= Frames(t)'
    <3>1. pos'.i = 2 => pos.i = 1
      BY <2>1, <1>2
    <3> QED BY <2>1, <2>2, <3>1, <1>1, <1>2, <1>6, Zenon DEF HandLengths
  <2>5. HandLengths'
    BY <2>3, <2>4, Zenon DEF HandLengths
  <2> QED BY <1>5, <1>6, <2>5
<1>7. CASE BootNext
  <2>1. /\ pos'.i = 1 /\ pos.i = Len(PartOf(pos.stage, pos.part)) + 1
        /\ \/ pos'.stage = pos.stage /\ pos'.part = pos.part + 1
           \/ pos'.part = 1
    BY <1>7, NextPos, Zenon
  <2>2. hand' = hand
    BY <1>7, Zenon DEF BootNext
  <2>3. \A t \in Task : pos.stage = t + 2 /\ pos.part = 4 => pos.i = Frames(t) + 1
    BY <2>1, TaskLengths, Zenon
  <2>4. HandLengths'
    <3>1. \A j \in 1 .. pos'.i : pos'.i # 2 * j
      BY <2>1
    <3>2. ASSUME NEW t \in Task, pos'.stage = t + 2
          PROVE  /\ pos'.part = 4 => Len(hand') >= pos'.i - 1
                 /\ pos'.part \in {5, 6} => Len(hand') >= Frames(t)'
                 /\ ~(pos'.part = 7 /\ pos'.i = 2)
      <4>1. pos'.part = 4 => Len(hand') >= pos'.i - 1
        BY <2>1, <2>2, <1>1
      <4>2. ASSUME pos'.part \in {5, 6} PROVE Len(hand) >= Frames(t)
        <5>1. pos.stage = t + 2 /\ (pos.part = 4 \/ pos.part = 5)
          BY <2>1, <3>2, <4>2, <1>2, SMTT(20)
        <5>2. CASE pos.part = 5
          <6>1. pos.part \in {5, 6}
            BY <5>2
          <6> QED BY <5>1, <6>1, <1>1, Zenon DEF HandLengths
        <5>3. CASE pos.part = 4
          <6>1. Len(hand) >= pos.i - 1 /\ pos.i = Frames(t) + 1
            BY <5>1, <5>3, <1>1, <2>3, Zenon DEF HandLengths
          <6> QED BY <6>1, <1>2
        <5> QED BY <5>1, <5>2, <5>3
      <4>3. ~(pos'.part = 7 /\ pos'.i = 2)
        BY <2>1
      <4> QED BY <4>1, <4>2, <4>3, <1>2, <2>2, Zenon
    <3> QED BY <3>1, <3>2, Zenon DEF HandLengths
  <2> QED BY <1>5, <2>2, <2>4
<1>8. CASE hand' = hand /\ pos' = pos
  <2>1. HandLengths'
    BY <1>1, <1>2, <1>8, Zenon DEF HandLengths
  <2> QED BY <1>5, <1>8, <2>1
<1>9. \/ BootTake \/ BootNext \/ (hand' = hand /\ pos' = pos)
      \/ (hand' = hand /\ Done /\ \E op : op # "take" /\ Step(op))
  BY Zenon DEF Boot, BootOrigin, BootObject, BootNormalCap, BootSlot, BootTable, BootCopy,
      BootMissingTable, BootMap, BootDevice, BootGive, BootDone, memVars
<1> QED BY <1>4, <1>6, <1>7, <1>8, <1>9, Zenon DEF Step
=============================================================================
