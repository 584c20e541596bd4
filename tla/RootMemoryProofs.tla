-------------------------- MODULE RootMemoryProofs --------------------------
(***************************************************************************)
(* The memory of the tasks, which the root task prepares before it starts  *)
(* them.                                                                   *)
(***************************************************************************)
EXTENDS RootBootProofs

(* The pages that are mapped.                                              *)

\* Every page of the script lies below the device.
LEMMA PagesBelow ==
  ASSUME image \in Images
  PROVE  /\ \A t \in Task : /\ First(t) \in Nat /\ End(t) \in Page
                            /\ \A k \in 1 .. Frames(t) : First(t) + k - 1 \in Page
         /\ \A j \in 1 .. StackPages : StackTop - StackPages + j - 1 \in Page
         /\ \A j \in 1 .. BlkDma : DmaStart + j - 1 \in Page
         /\ \A j \in 1 .. NetDma : DmaStart + j - 1 \in Page
<1>1. ASSUME NEW t \in Task
      PROVE  /\ First(t) \in Nat /\ End(t) \in Page
             /\ \A k \in 1 .. Frames(t) : First(t) + k - 1 \in Page
  <2>1. /\ First(t) \in Nat /\ End(t) \in Nat /\ First(t) <= End(t)
        /\ End(t) < StackTop - StackPages
    BY ImagePages, Zenon
  <2> QED BY <2>1, Constants DEF Page, Frames
<1>2. /\ \A j \in 1 .. StackPages : StackTop - StackPages + j - 1 \in Page
      /\ \A j \in 1 .. BlkDma : DmaStart + j - 1 \in Page
      /\ \A j \in 1 .. NetDma : DmaStart + j - 1 \in Page
  BY Constants DEF Page
<1> QED BY <1>1, <1>2, Zenon

LEMMA MapsFrame ==
  ASSUME image \in Images, PosOK, AllocOK, HandOK, PageOK, BootMap
  PROVE  /\ Now.t \in Task /\ Now.x[1] \in Page
         /\ Now.x[2] \in 1 .. Len(hand)
         /\ hand[Now.x[2]] \in Slot /\ hand[Now.x[2]] < next /\ hand[Now.x[2]] # 0
         /\ page'[Now.t][Now.x[1]] = hand[Now.x[2]]
         /\ \A t \in Task : \A p \in Page : ~(t = Now.t /\ p = Now.x[1]) => page'[t][p] = page[t][p]
<1>1. Now.t \in Task
  BY AtFrameMap, AtMapPage, Zenon DEF BootMap
<1>2. Now.x[1] \in Page
  <2>1. CASE Step("frame_map")
    BY <2>1, AtFrameMap, PagesBelow, Zenon
  <2>2. CASE Step("map_page")
    BY <2>2, AtMapPage, PagesBelow, Zenon
  <2> QED BY <2>1, <2>2, Zenon DEF BootMap
<1>3. Len(hand) \in Nat /\ pos.i \in Nat \ {0}
  BY DEF HandOK, PosOK
<1>4. Now.x[2] \in 1 .. Len(hand)
  <2>1. CASE Step("frame_map")
    <3>1. /\ Now.t \in Task /\ pos.stage = Now.t + 2
          /\ \/ pos.part = 6 /\ pos.i \in 1 .. Frames(Now.t) /\ Now.x[2] = pos.i
             \/ pos.part = 7 /\ pos.i = 2 /\ Now.x[2] = 1
      BY <2>1, AtFrameMap, Zenon
    <3>2. Frames(Now.t) \in Nat
      BY <1>1, TaskLengths, Zenon
    <3>3. /\ pos.part \in {5, 6} => Len(hand) >= Frames(Now.t)
          /\ pos.part = 7 /\ pos.i = 2 => Len(hand) >= 1
      BY <3>1, Zenon DEF HandOK
    <3> QED BY <1>3, <3>1, <3>2, <3>3
  <2>2. CASE Step("map_page")
    <3>1. /\ Now.x[2] = 1
          /\ \/ /\ pos.stage = Now.t + 2 /\ pos.part = 9
                /\ \E j \in 1 .. StackPages : pos.i = 2 * j
             \/ pos.stage = 5 /\ pos.part = 3 /\ \E j \in 1 .. BlkDma : pos.i = 2 * j
             \/ pos.stage = 5 /\ pos.part = 5 /\ \E j \in 1 .. NetDma : pos.i = 2 * j
      BY <2>2, AtMapPage, Zenon
    <3>2. PICK j \in (1 .. StackPages) \cup (1 .. BlkDma) \cup (1 .. NetDma) : pos.i = 2 * j
      BY <3>1, Zenon
    <3>3. j \in 1 .. pos.i
      BY <1>3, <3>2
    <3>4. /\ pos.stage = Now.t + 2 => pos.stage \in 2 .. 4
      BY <1>1, TaskStages, Zenon
    <3>5. /\ pos.stage \in 2 .. 4 /\ pos.part = 9 => Len(hand) >= 1
          /\ pos.stage = 5 /\ pos.part \in {3, 5} => Len(hand) >= 1
      BY <3>2, <3>3, Zenon DEF HandOK
    <3>6. Len(hand) >= 1
      BY <3>1, <3>4, <3>5, Zenon
    <3> QED BY <1>3, <3>1, <3>6
  <2> QED BY <2>1, <2>2, Zenon DEF BootMap
<1>5. hand[Now.x[2]] \in Slot /\ hand[Now.x[2]] < next
  BY <1>4 DEF HandOK
<1>6. hand[Now.x[2]] # 0
  <2>1. \A s \in Slot : s > 0
    BY Slots, Zenon
  <2>2. hand[Now.x[2]] > 0
    BY <1>5, <2>1, Zenon
  <2> QED BY <2>2
<1>7. page' = [page EXCEPT ![Now.t][Now.x[1]] = hand[Now.x[2]]]
  BY Zenon DEF BootMap
<1>8. page \in [Task -> [Page -> Slot \cup {0}]]
  BY Zenon DEF PageOK
<1>9. page'[Now.t][Now.x[1]] = hand[Now.x[2]]
  BY <1>1, <1>2, <1>7, <1>8
<1>10. \A t \in Task : \A p \in Page : ~(t = Now.t /\ p = Now.x[1]) => page'[t][p] = page[t][p]
  BY <1>1, <1>2, <1>7, <1>8
<1> QED BY <1>1, <1>2, <1>4, <1>5, <1>6, <1>9, <1>10, Zenon

LEMMA PageStep ==
  ASSUME image \in Images, PosOK, AllocOK, HandOK, PageOK, Boot
  PROVE  /\ PageOK'
         /\ \A t \in Task : \A p \in Page : page[t][p] # 0 => page'[t][p] # 0
<1>1. next \in Nat /\ next' \in Nat /\ next <= next'
  BY NextGrows, Zenon
<1>2. \A n : n \in Slot \cup {0} /\ n < next => n < next'
  <2>1. Slot \subseteq Nat
    BY Slots, Zenon
  <2> QED BY <1>1, <2>1
<1>3. CASE page' = page
  BY <1>2, <1>3, Zenon DEF PageOK
<1>4. CASE BootMap
  <2>1. /\ Now.t \in Task /\ Now.x[1] \in Page
        /\ hand[Now.x[2]] \in Slot /\ hand[Now.x[2]] < next /\ hand[Now.x[2]] # 0
        /\ page'[Now.t][Now.x[1]] = hand[Now.x[2]]
        /\ \A t \in Task : \A p \in Page : ~(t = Now.t /\ p = Now.x[1]) => page'[t][p] = page[t][p]
    BY <1>4, MapsFrame, Zenon
  <2>2. page' = [page EXCEPT ![Now.t][Now.x[1]] = hand[Now.x[2]]]
    BY <1>4, Zenon DEF BootMap
  <2>3. page' \in [Task -> [Page -> Slot \cup {0}]]
    BY <2>1, <2>2 DEF PageOK
  <2>4. \A t \in Task : \A p \in Page : page'[t][p] < next'
    BY <1>2, <2>1, Zenon DEF PageOK
  <2> QED BY <2>1, <2>3, <2>4, Zenon DEF PageOK
<1> QED
  BY <1>3, <1>4, Zenon
  DEF Boot, BootOrigin, BootObject, BootNormalCap, BootSlot, BootTable, BootTake, BootCopy,
      BootMissingTable, BootDevice, BootGive, BootNext, BootDone, memVars

(* The tables.                                                             *)

LEMMA TablesStep ==
  ASSUME image \in Images, PosOK, TablesMade, Boot
  PROVE  TablesMade' /\ \A t \in Task : pts[t] \subseteq pts'[t]
<1>1. image' = image
  BY StepPos, Zenon
<1>2. \A t \in Task : /\ TableCount(t, UpSpan)' = TableCount(t, UpSpan)
                      /\ TableCount(t, PtSpan)' = TableCount(t, PtSpan)
                      /\ First(t)' = First(t)
  BY <1>1, SameImage, Zenon
<1>3. pts = [t \in Task |-> pts[t]]
  BY Zenon DEF TablesMade
<1>4. pts' = [t \in Task |-> pts'[t]] /\ \A t \in Task : pts[t] \subseteq pts'[t]
  <2>1. CASE pts' = pts
    BY <1>3, <2>1, Zenon
  <2>2. CASE \E u, x : pts' = [pts EXCEPT ![u] = @ \cup {x}]
    <3>1. PICK u, x : pts' = [pts EXCEPT ![u] = @ \cup {x}]
      BY <2>2, Zenon
    <3>2. DOMAIN pts = Task
      BY <1>3, Zenon
    <3>3. pts' = [t \in Task |-> IF t = u THEN pts[t] \cup {x} ELSE pts[t]]
      BY <3>1, <3>2, Zenon
    <3> QED BY <3>3, Zenon
  <2> QED
    BY <2>1, <2>2, Zenon
    DEF Boot, BootOrigin, BootObject, BootNormalCap, BootSlot, BootTable, BootTake, BootCopy,
        BootMissingTable, BootMap, BootDevice, BootGive, BootNext, BootDone, memVars
<1>5. ASSUME NEW t \in Task, DoneStep, pos.stage = t + 2, pos.part = 2 \/ pos.part = 3
      PROVE  /\ pos.part = 2 => <<2, (First(t) \div UpSpan) + pos.i - 1>> \in pts'[t]
             /\ pos.part = 3 => <<1, (First(t) \div PtSpan) + pos.i - 1>> \in pts'[t]
  <2>1. BuildEntry(t)
    BY <1>5, BuildEntries, Zenon DEF DoneStep
  <2>2. \/ pos.part = 2 /\ TableEntry(t, 2, UpSpan)
        \/ pos.part = 3 /\ TableEntry(t, 1, PtSpan)
    BY <1>5, <2>1 DEF BuildEntry
  <2>3. /\ Now.op = "table" /\ Now.t = t
        /\ \/ pos.part = 2 /\ Now.x = <<2, (First(t) \div UpSpan) + pos.i - 1>>
           \/ pos.part = 3 /\ Now.x = <<1, (First(t) \div PtSpan) + pos.i - 1>>
    BY <2>2 DEF TableEntry, Table
  <2>4. pts' = [pts EXCEPT ![t] = @ \cup {Now.x}]
    BY <1>5, <2>3, Zenon DEF DoneStep, BootTable
  <2>5. Now.x \in pts'[t]
    BY <1>3, <2>4
  <2>6. 2 # 3
    OBVIOUS
  <2> QED BY <2>3, <2>5, <2>6, Zenon
<1>6. ASSUME NEW t \in Task, NEW i \in 1 .. TableCount(t, UpSpan), Passed(t + 2, 2, i)'
      PROVE  <<2, (First(t) \div UpSpan) + i - 1>> \in pts'[t]
  <2>1. CASE Passed(t + 2, 2, i)
    BY <1>4, <2>1, Zenon DEF TablesMade
  <2>2. CASE ~Passed(t + 2, 2, i)
    <3>1. 2 \in 1 .. 9
      OBVIOUS
    <3>2. DoneStep /\ pos.stage = t + 2 /\ pos.part = 2 /\ pos.i = i
      BY <1>6, <2>2, <3>1, TaskPlaces, TaskLengths, PassedStep, Zenon
    <3> QED BY <1>5, <3>2, Zenon
  <2> QED BY <2>1, <2>2
<1>7. ASSUME NEW t \in Task, NEW i \in 1 .. TableCount(t, PtSpan), Passed(t + 2, 3, i)'
      PROVE  <<1, (First(t) \div PtSpan) + i - 1>> \in pts'[t]
  <2>1. CASE Passed(t + 2, 3, i)
    BY <1>4, <2>1, Zenon DEF TablesMade
  <2>2. CASE ~Passed(t + 2, 3, i)
    <3>1. 3 \in 1 .. 9
      OBVIOUS
    <3>2. DoneStep /\ pos.stage = t + 2 /\ pos.part = 3 /\ pos.i = i
      BY <1>7, <2>2, <3>1, TaskPlaces, TaskLengths, PassedStep, Zenon
    <3> QED BY <1>5, <3>2, Zenon
  <2> QED BY <2>1, <2>2
<1> QED BY <1>2, <1>4, <1>6, <1>7, Zenon DEF TablesMade

LEMMA MappedStep ==
  ASSUME image \in Images, PosOK, AllocOK, HandOK, PageOK, PagesMapped, Boot
  PROVE  PagesMapped'
\* A page that is mapped for the next entry.
<1>MapsPage.
    ASSUME image \in Images, PosOK, AllocOK, HandOK, PageOK, Boot, DoneStep,
           NEW t, NEW p, NEW k, Now = MapPage(t, p) \/ Now = FrameMap(t, p, k)
    PROVE  page'[t][p] # 0
  <2> USE <1>MapsPage
  <2>1. Now.t = t /\ Now.x[1] = p /\ (Now.op = "map_page" \/ Now.op = "frame_map")
    BY DEF MapPage, FrameMap
  <2>2. BootMap
    BY <2>1, Zenon DEF DoneStep
  <2> QED BY <2>1, <2>2, MapsFrame, Zenon
<1>MapsPages.
    ASSUME image \in Images, PosOK, AllocOK, HandOK, PageOK, Boot, DoneStep,
           NEW t, NEW first, NEW n \in Nat, NEW j \in 1 .. n, pos.i = 2 * j,
           PagesEntry(t, first, n)
    PROVE  page'[t][first + j - 1] # 0
  <2> USE <1>MapsPages
  <2>1. PICK k \in 1 .. n : \/ pos.i = 2 * k - 1 /\ Now = Take(1)
                            \/ pos.i = 2 * k /\ Now = MapPage(t, first + k - 1)
    BY Zenon DEF PagesEntry
  <2>2. pos.i = 2 * k /\ k = j
    BY <2>1
  <2>3. pos.i # 2 * k - 1
    BY <2>1, <2>2
  <2> QED BY <2>1, <2>2, <2>3, <1>MapsPage, Zenon
<1>1. image' = image
  BY StepPos, Zenon
<1>2. \A t \in Task : Frames(t)' = Frames(t) /\ First(t)' = First(t)
  BY <1>1, SameImage, Zenon
<1>3. \A t \in Task : \A p \in Page : page[t][p] # 0 => page'[t][p] # 0
  BY PageStep, Zenon
<1>4. StackPages \in Nat /\ BlkDma \in Nat /\ NetDma \in Nat
  BY Constants
<1>5. Blk \in Task /\ Net \in Task
  BY DEF Blk, Net, Task
<1>6. ASSUME NEW t \in Task, NEW k \in 1 .. Frames(t), Passed(t + 2, 6, k)'
      PROVE  page'[t][First(t) + k - 1] # 0
  <2>1. CASE Passed(t + 2, 6, k)
    BY <1>3, <2>1, PagesBelow, Zenon DEF PagesMapped
  <2>2. CASE ~Passed(t + 2, 6, k)
    <3>1. 6 \in 1 .. 9
      OBVIOUS
    <3>2. DoneStep /\ pos.stage = t + 2 /\ pos.part = 6 /\ pos.i = k
      BY <1>6, <2>2, <3>1, TaskPlaces, TaskLengths, PassedStep, Zenon
    <3>3. BuildEntry(t)
      BY <3>2, BuildEntries, Zenon DEF DoneStep
    <3>4. Now = FrameMap(t, First(t) + k - 1, k)
      BY <3>2, <3>3 DEF BuildEntry
    <3> QED BY <3>2, <3>4, <1>MapsPage, Zenon
  <2> QED BY <2>1, <2>2
<1>7. ASSUME NEW t \in Task, NEW j \in 1 .. StackPages, Passed(t + 2, 9, 2 * j)'
      PROVE  page'[t][StackTop - StackPages + j - 1] # 0
  <2>1. CASE Passed(t + 2, 9, 2 * j)
    BY <1>3, <2>1, PagesBelow, Zenon DEF PagesMapped
  <2>2. CASE ~Passed(t + 2, 9, 2 * j)
    <3>1. 9 \in 1 .. 9 /\ 2 * j \in 1 .. 2 * StackPages
      BY <1>4
    <3>2. DoneStep /\ pos.stage = t + 2 /\ pos.part = 9 /\ pos.i = 2 * j
      BY <1>7, <2>2, <3>1, TaskPlaces, TaskLengths, PassedStep, Zenon
    <3>3. BuildEntry(t)
      BY <3>2, BuildEntries, Zenon DEF DoneStep
    <3>4. PagesEntry(t, StackTop - StackPages, StackPages)
      BY <3>2, <3>3 DEF BuildEntry
    <3> QED BY <1>4, <3>2, <3>4, <1>MapsPages, Zenon
  <2> QED BY <2>1, <2>2
<1>8. \A p \in {3, 5} : 5 \in 1 .. 5 /\ p \in 1 .. Len(Script(image)[5])
  <2>1. Len(Script(image)[5]) = 5
    BY Parts, Zenon
  <2> QED BY <2>1
<1>9. ASSUME NEW j \in 1 .. BlkDma, Passed(5, 3, 2 * j)'
      PROVE  page'[Blk][DmaStart + j - 1] # 0
  <2>1. CASE Passed(5, 3, 2 * j)
    BY <1>3, <1>5, <2>1, PagesBelow, Zenon DEF PagesMapped
  <2>2. CASE ~Passed(5, 3, 2 * j)
    <3>1. 2 * j \in 1 .. 2 * BlkDma
      BY <1>4
    <3>2. DoneStep /\ pos.stage = 5 /\ pos.part = 3 /\ pos.i = 2 * j
      BY <1>8, <1>9, <2>2, <3>1, RootLengths, PassedStep, Zenon
    <3>3. LastEntry
      BY <3>2, LastEntries, Zenon DEF DoneStep
    <3>4. PagesEntry(Blk, DmaStart, BlkDma)
      BY <3>2, <3>3 DEF LastEntry
    <3> QED BY <1>4, <3>2, <3>4, <1>MapsPages, Zenon
  <2> QED BY <2>1, <2>2
<1>10. ASSUME NEW j \in 1 .. NetDma, Passed(5, 5, 2 * j)'
      PROVE  page'[Net][DmaStart + j - 1] # 0
  <2>1. CASE Passed(5, 5, 2 * j)
    BY <1>3, <1>5, <2>1, PagesBelow, Zenon DEF PagesMapped
  <2>2. CASE ~Passed(5, 5, 2 * j)
    <3>1. 2 * j \in 1 .. 2 * NetDma
      BY <1>4
    <3>2. DoneStep /\ pos.stage = 5 /\ pos.part = 5 /\ pos.i = 2 * j
      BY <1>8, <1>10, <2>2, <3>1, RootLengths, PassedStep, Zenon
    <3>3. LastEntry
      BY <3>2, LastEntries, Zenon DEF DoneStep
    <3>4. PagesEntry(Net, DmaStart, NetDma)
      BY <3>2, <3>3 DEF LastEntry
    <3> QED BY <1>4, <3>2, <3>4, <1>MapsPages, Zenon
  <2> QED BY <2>1, <2>2
<1> QED BY <1>2, <1>6, <1>7, <1>9, <1>10, Zenon DEF PagesMapped

(* What is copied into the frames.                                         *)

LEMMA DataStep ==
  ASSUME image \in Images, PosOK, AllocOK, HandOK, PageOK, DataOK, Boot
  PROVE  DataOK'
<1>MinOfTwo.
    ASSUME NEW a \in Int, NEW b \in Int
    PROVE  Min({a, b}) = IF a <= b THEN a ELSE b
  <2> DEFINE m == IF a <= b THEN a ELSE b
  <2>1. m \in {a, b} /\ \A y \in {a, b} : m <= y
    OBVIOUS
  <2>2. Min({a, b}) \in {a, b} /\ \A y \in {a, b} : Min({a, b}) <= y
    BY <2>1, Zenon DEF Min
  <2>3. Min({a, b}) \in Int
    BY <2>2
  <2> QED BY <2>2, <2>3
\* Address a = q * PageSize + o is in page i = q - f + 1 of a segment whose
\* first page is f: the copy of page i reaches it if it is an address of the
\* data, and takes the byte from the right place of the file.
<1>CopiedPage.
    ASSUME NEW g, g.addr \in Nat, g.data \in Nat, NEW i \in Nat \ {0},
           NEW o \in 0 .. PageSize - 1
    PROVE  LET a == (FirstPage(g.addr) + i - 1) * PageSize + o
           IN  /\ o \in Into(g, i) <=> a \in Data(g)
               /\ Taken(g, i) + o - OffsetIntoPage(g, i) = a - g.addr
  <2> USE <1>CopiedPage
  <2> DEFINE P == PageSize
             f == g.addr \div P
             r == g.addr % P
             n == (i - 1) * P
             a == (FirstPage(g.addr) + i - 1) * PageSize + o
  <2>1. P \in Nat \ {0}
    BY Constants, Zenon
  <2>2. f \in Nat /\ r \in 0 .. P - 1 /\ g.addr = P * f + r
    BY <2>1, Division, Zenon
  <2>3. a = P * f + n + o
    <3>1. FirstPage(g.addr) = f
      BY DEF FirstPage
    <3>2. (f + i - 1) * P = P * f + (i - 1) * P
      BY <2>1, <2>2
    <3> QED BY <3>1, <3>2
  <2>4. n \in Nat /\ (i = 1 => n = 0) /\ (i # 1 => n >= P)
    <3>1. CASE i = 1
      BY <2>1, <3>1
    <3>2. CASE i # 1
      <4>1. i - 1 \in Nat /\ 1 <= i - 1
        BY <3>2
      <4>2. 1 * P <= n /\ n \in Nat
        BY <2>1, <4>1, TimesMonotone
      <4> QED BY <2>1, <3>2, <4>2
    <3> QED BY <3>1, <3>2
  <2>5. /\ OffsetIntoPage(g, i) = IF i = 1 THEN r ELSE 0
        /\ Taken(g, i) = IF i = 1 THEN 0 ELSE n - r
    BY DEF OffsetIntoPage, Taken
  <2>6. DataLen(g, i) = IF i = 1 THEN (IF P - r <= g.data THEN P - r ELSE g.data)
                        ELSE (IF P <= g.data - (n - r) THEN P ELSE g.data - (n - r))
    <3> HIDE DEF n, r, P
    <3>1. CASE i = 1
      <4>1. DataLen(g, i) = Min({P - r, g.data - 0})
        BY <2>5, <3>1, Zenon DEF DataLen, P
      <4>2. P - r \in Int /\ g.data - 0 \in Int /\ g.data - 0 = g.data
        BY <2>1, <2>2
      <4> QED BY <3>1, <4>1, <4>2, <1>MinOfTwo
    <3>2. CASE i # 1
      <4>1. DataLen(g, i) = Min({P - 0, g.data - (n - r)})
        BY <2>5, <3>2, Zenon DEF DataLen, P
      <4>2. P - 0 \in Int /\ P - 0 = P /\ g.data - (n - r) \in Int
        BY <2>1, <2>2, <2>4
      <4> QED BY <3>2, <4>1, <4>2, <1>MinOfTwo
    <3> QED BY <3>1, <3>2
  <2>7. Data(g) = g.addr .. g.addr + g.data - 1
    BY DEF Data
  <2>8. Into(g, i) = OffsetIntoPage(g, i) .. OffsetIntoPage(g, i) + DataLen(g, i) - 1
    BY DEF Into
  <2> DEFINE x == P * f
  <2> HIDE DEF P, f, r, n, a
  <2>9. x \in Nat /\ g.addr = x + r /\ a = x + n + o /\ o \in 0 .. P - 1
    <3>1. \A p \in Nat \ {0}, y \in Nat : p * y \in Nat
      OBVIOUS
    <3>2. o \in 0 .. P - 1
      BY Zenon DEF P
    <3> QED BY <2>1, <2>2, <2>3, <3>1, <3>2, Zenon
  <2> HIDE DEF x
  <2>. /\ r \in Nat /\ r < P /\ o \in Nat /\ o < P /\ P \in Nat
       /\ g.addr \in Nat /\ g.data \in Nat
    BY <2>1, <2>2, <2>9
  <2>10. o \in Into(g, i) <=> a \in Data(g)
    <3>1. a \in Data(g) <=> r <= n + o /\ n + o < r + g.data
      <4>1. \A y, u, v, w, d \in Nat :
              y + v + w \in y + u .. y + u + d - 1 <=> u <= v + w /\ v + w < u + d
        OBVIOUS
      <4>2. x + n + o \in x + r .. x + r + g.data - 1 <=> r <= n + o /\ n + o < r + g.data
        BY <2>4, <2>9, <4>1, Zenon
      <4> QED BY <2>7, <2>9, <4>2, Zenon
    <3>2. CASE i = 1
      <4>1. Into(g, i) = r .. r + (IF P - r <= g.data THEN P - r ELSE g.data) - 1
        BY <2>5, <2>6, <2>8, <3>2, Zenon
      <4>2. \A p, u, w, d \in Nat : u < p /\ w < p =>
              (w \in u .. u + (IF p - u <= d THEN p - u ELSE d) - 1 <=>
                 u <= 0 + w /\ 0 + w < u + d)
        OBVIOUS
      <4>3. o \in r .. r + (IF P - r <= g.data THEN P - r ELSE g.data) - 1 <=>
              r <= 0 + o /\ 0 + o < r + g.data
        BY <4>2, Zenon
      <4>4. n = 0
        BY <2>4, <3>2, Zenon
      <4> QED BY <3>1, <4>1, <4>3, <4>4, Zenon
    <3>3. CASE i # 1
      <4>1. Into(g, i) = 0 .. 0 + (IF P <= g.data - (n - r) THEN P ELSE g.data - (n - r)) - 1
        BY <2>5, <2>6, <2>8, <3>3, Zenon
      <4>2. \A p, u, v, w, d \in Nat : u < p /\ w < p /\ v >= p =>
              (w \in 0 .. 0 + (IF p <= d - (v - u) THEN p ELSE d - (v - u)) - 1 <=>
                 u <= v + w /\ v + w < u + d)
        OBVIOUS
      <4>3. o \in 0 .. 0 + (IF P <= g.data - (n - r) THEN P ELSE g.data - (n - r)) - 1 <=>
              r <= n + o /\ n + o < r + g.data
        BY <2>4, <3>3, <4>2, Zenon
      <4> QED BY <3>1, <4>1, <4>3, Zenon
    <3> QED BY <3>2, <3>3
  <2>11. Taken(g, i) + o - OffsetIntoPage(g, i) = a - g.addr
    BY <2>4, <2>5, <2>9
  <2> QED BY <2>10, <2>11, Zenon DEF a

\* The frames of a segment's pages are among those of the image, and page k
\* of the image is page First(t) + k - FirstPage(addr) of the segment.
<1>SegmentPages.
    ASSUME image \in Images, NEW t \in Task, NEW s \in 1 .. Len(image[t])
    PROVE  LET g == image[t][s]
           IN  /\ FirstPage(g.addr) \in Nat /\ DataPages(g) \in Int
               /\ \A i \in 1 .. DataPages(g) : FirstPage(g.addr) - First(t) + i \in 1 .. Frames(t)
               /\ \A k \in 1 .. Frames(t) : \A o \in 0 .. PageSize - 1 :
                    (First(t) + k - 1) * PageSize + o \in Data(g) =>
                      First(t) + k - FirstPage(g.addr) \in 1 .. DataPages(g)
  <2> USE <1>SegmentPages
  <2> DEFINE g == image[t][s]
             P == PageSize
             f == FirstPage(g.addr)
             e == EndPage(g.addr + g.data)
  <2>1. /\ P \in Nat \ {0}
        /\ g.addr \in Nat /\ g.size \in Nat /\ g.data \in Nat /\ g.data <= g.size
    BY Constants, Segments, Zenon
  <2>2. /\ First(t) \in Nat /\ End(t) \in Nat /\ Frames(t) = End(t) - First(t)
        /\ First(t) <= f /\ EndPage(g.addr + g.size) <= End(t)
    BY ImagePages, Zenon DEF Frames
  <2> HIDE DEF g
  <2>3. f \in Nat
    BY <2>1, Division, Zenon DEF FirstPage
  <2>4. e \in Nat /\ e <= End(t)
    <3>1. g.addr + g.data + P - 1 \in Nat /\ g.addr + g.size + P - 1 \in Nat
          /\ g.addr + g.data + P - 1 <= g.addr + g.size + P - 1
      <4>1. \A x, d, n \in Nat, p \in Nat \ {0} : d <= n =>
              /\ x + d + p - 1 \in Nat /\ x + n + p - 1 \in Nat
              /\ x + d + p - 1 <= x + n + p - 1
        OBVIOUS
      <4> QED BY <2>1, <4>1, Zenon
    <3>2. (g.addr + g.data + P - 1) \div P \in Nat /\ (g.addr + g.size + P - 1) \div P \in Nat
          /\ (g.addr + g.data + P - 1) \div P <= (g.addr + g.size + P - 1) \div P
      BY <2>1, <3>1, DivMonotone, Zenon
    <3>3. e = (g.addr + g.data + P - 1) \div P
          /\ EndPage(g.addr + g.size) = (g.addr + g.size + P - 1) \div P
      BY Zenon DEF EndPage
    <3> QED BY <2>2, <3>2, <3>3
  <2>5. DataPages(g) = e - f
    BY DEF DataPages
  <2> HIDE DEF f, e
  <2>6. \A i \in 1 .. DataPages(g) : f - First(t) + i \in 1 .. Frames(t)
    BY <2>2, <2>3, <2>4, <2>5
  <2>7. ASSUME NEW k \in 1 .. Frames(t), NEW o \in 0 .. P - 1,
               (First(t) + k - 1) * P + o \in Data(g)
        PROVE  First(t) + k - f \in 1 .. DataPages(g)
    <3> DEFINE q == First(t) + k - 1
               a == q * P + o
    <3>1. q \in Nat /\ q + 1 \in Nat
      BY <2>2, SMTT(20)
    <3> HIDE DEF q
    <3>2. q * P \in Nat /\ (q + 1) * P = q * P + P
      BY <2>1, <3>1
    <3>3. g.addr <= a /\ a + 1 <= g.addr + g.data
      <4>1. a \in g.addr .. g.addr + g.data - 1
        BY <2>7, Zenon DEF Data, q
      <4>2. \A x, n, d \in Nat : n \in x .. x + d - 1 => x <= n /\ n + 1 <= x + d
        OBVIOUS
      <4>3. a \in Nat
        BY <2>1, <3>2
      <4> QED BY <2>1, <4>1, <4>2, <4>3, Zenon
    <3>4. f <= q
      <4>1. a \div P = q
        BY <2>1, <3>1, Quotient, Zenon
      <4>2. a \in Nat
        BY <2>1, <3>2
      <4>3. g.addr \div P <= a \div P
        BY <2>1, <3>3, <4>2, DivMonotone, Zenon
      <4> QED BY <4>1, <4>3, Zenon DEF f, FirstPage
    <3>5. q + 1 <= e
      <4> DEFINE b == (q + 1) * P + o
      <4>1. b \in Nat /\ g.addr + g.data + P - 1 \in Nat /\ b <= g.addr + g.data + P - 1
        <5>1. \A x, y, z, p : /\ x \in Nat /\ y = x + p /\ z \in Nat /\ p \in Nat
                             /\ x + o + 1 <= z
                             => y + o \in Nat /\ z + p - 1 \in Nat /\ y + o <= z + p - 1
          OBVIOUS
        <5>2. g.addr + g.data \in Nat /\ P \in Nat
          BY <2>1
        <5> QED BY <3>2, <3>3, <5>1, <5>2, Zenon
      <4>2. b \div P = q + 1
        BY <2>1, <3>1, Quotient, Zenon
      <4> HIDE DEF b
      <4>3. b \div P <= (g.addr + g.data + P - 1) \div P
        BY <2>1, <4>1, DivMonotone, Zenon
      <4> QED BY <4>2, <4>3, Zenon DEF e, EndPage
    <3>6. First(t) + k - f = q + 1 - f
      BY <2>2, <2>3 DEF q
    <3> QED BY <2>3, <2>4, <2>5, <3>1, <3>4, <3>5, <3>6
  <2>8. DataPages(g) \in Int
    BY <2>3, <2>4, <2>5
  <2> QED BY <2>3, <2>6, <2>7, <2>8, Zenon DEF f, g
\* The frames of an image are different while it is copied.
<1>FramesDiffer.
    ASSUME image \in Images, NEW t \in Task, FramesFilled, pos.stage = t + 2, pos.part = 5
    PROVE  \A j, k \in 1 .. Frames(t) : hand[j] = hand[k] => j = k
  <2> USE <1>FramesDiffer
  <2>1. \A k \in 1 .. Frames(t) : \A m \in 1 .. k - 1 : hand[m] # hand[k]
    BY Zenon DEF FramesFilled, Unshared
  <2>2. \A j, k \in 1 .. Frames(t) : j = k \/ j \in 1 .. k - 1 \/ k \in 1 .. j - 1
    OBVIOUS
  <2> QED BY <2>1, <2>2, Zenon
\* What copying a segment does to the frames in hand, and to the others.
<1>CopiedData.
    ASSUME image \in Images, PosOK, FramesFilled, BootCopy,
           NEW t \in Task, t = Now.t, NEW s \in 1 .. Len(image[t]), s = pos.i
    PROVE  /\ \A d \in data' : \/ d \in data
                               \/ d = <<d[1], d[2], d[3]>> /\ \E k \in 1 .. Frames(t) : d[1] = hand[k]
           /\ \A f, o, b : (\A k \in 1 .. Frames(t) : f # hand[k]) =>
                             (<<f, o, b>> \in data' <=> <<f, o, b>> \in data)
           /\ \A k \in 1 .. Frames(t) : \A o \in 0 .. PageSize - 1 : \A b :
                LET a == (First(t) + k - 1) * PageSize + o
                    g == image[t][s]
                IN  <<hand[k], o, b>> \in data' <=>
                      IF a \in Data(g) THEN b = <<s, a - g.addr>> ELSE <<hand[k], o, b>> \in data
  <2> USE <1>CopiedData
  <2> DEFINE g          == image[t][s]
             f          == FirstPage(g.addr)
             Frame(i)   == hand[f - First(t) + i]
             pages      == 1 .. DataPages(g)
             Byte(i, o) == <<s, Taken(g, i) + o - OffsetIntoPage(g, i)>>
  <2>1. pos.stage = t + 2 /\ pos.part = 5 /\ Now.x = s
    BY AtCopy, Zenon DEF BootCopy
  <2>2. data' = {d \in data : \A i \in pages : d[1] # Frame(i) \/ d[2] \notin Into(g, i)} \cup
                UNION {{<<Frame(i), o, Byte(i, o)>> : o \in Into(g, i)} : i \in pages}
    <3>1. data' = Copied(image[t], s)
      BY <2>1, Zenon DEF BootCopy
    <3> QED BY <3>1, Zenon DEF Copied, First
  <2>3. /\ g.addr \in Nat /\ g.data \in Nat
        /\ f \in Nat /\ DataPages(g) \in Int
        /\ \A i \in pages : f - First(t) + i \in 1 .. Frames(t)
        /\ \A k \in 1 .. Frames(t) : \A o \in 0 .. PageSize - 1 :
             (First(t) + k - 1) * PageSize + o \in Data(g) => First(t) + k - f \in pages
    BY Segments, <1>SegmentPages, Zenon
  <2>4. First(t) \in Nat /\ Frames(t) \in Nat /\ f \in Nat /\ DataPages(g) \in Int
    BY <2>3, PagesBelow, TaskLengths, Zenon
  <2>5. \A d : d \in data' <=>
          \/ d \in data /\ \A i \in pages : d[1] # Frame(i) \/ d[2] \notin Into(g, i)
          \/ \E i \in pages : \E o \in Into(g, i) : d = <<Frame(i), o, Byte(i, o)>>
    <3> HIDE DEF Byte, Frame, pages, g, f
    <3> QED BY <2>2
  <2> HIDE DEF Byte, g, f
  <2>6. \A d \in data' : \/ d \in data
                         \/ d = <<d[1], d[2], d[3]>> /\ \E k \in 1 .. Frames(t) : d[1] = hand[k]
    <3> SUFFICES ASSUME NEW d \in data', d \notin data
                 PROVE  d = <<d[1], d[2], d[3]>> /\ \E k \in 1 .. Frames(t) : d[1] = hand[k]
      BY Zenon
    <3>1. PICK i \in pages : \E o \in Into(g, i) : d = <<Frame(i), o, Byte(i, o)>>
      BY <2>5, Zenon
    <3>2. PICK o \in Into(g, i) : d = <<Frame(i), o, Byte(i, o)>>
      BY <3>1, Zenon
    <3>3. d[1] = Frame(i) /\ d = <<d[1], d[2], d[3]>>
      BY <3>2
    <3> QED BY <2>3, <3>3, Zenon
  <2>7. ASSUME NEW h, NEW o, NEW b, \A k \in 1 .. Frames(t) : h # hand[k]
        PROVE  <<h, o, b>> \in data' <=> <<h, o, b>> \in data
    <3>1. \A i \in pages : h # Frame(i)
      BY <2>3, <2>7, Zenon
    <3>2. <<h, o, b>>[1] = h /\ \A x, y, z : <<h, o, b>> = <<x, y, z>> => h = x
      OBVIOUS
    <3> QED BY <2>5, <3>1, <3>2, Zenon
  <2>8. ASSUME NEW k \in 1 .. Frames(t), NEW o \in 0 .. PageSize - 1, NEW b
        PROVE  LET a == (First(t) + k - 1) * PageSize + o
               IN  <<hand[k], o, b>> \in data' <=>
                     IF a \in Data(g) THEN b = <<s, a - g.addr>> ELSE <<hand[k], o, b>> \in data
    <3> DEFINE a == (First(t) + k - 1) * PageSize + o
               i == First(t) + k - f
    <3>0. k \in Int /\ f \in Int /\ First(t) \in Int
      BY <2>4
    <3>1. \A j \in pages : Frame(j) = hand[k] => j = i
      <4>1. \A j \in pages : Frame(j) = hand[k] => f - First(t) + j = k
        BY <2>1, <2>3, <1>FramesDiffer, Zenon
      <4>2. \A j \in pages : j \in Int
        BY <2>4
      <4> HIDE DEF pages, Frame
      <4>3. \A j \in Int : f - First(t) + j = k => j = i
        BY <3>0
      <4> QED BY <4>1, <4>2, <4>3, Zenon
    <3>2. Frame(i) = hand[k]
      <4>1. \A x, y, n \in Int : x - y + (y + n - x) = n
        OBVIOUS
      <4> QED BY <3>0, <4>1, Zenon
    <3>3. i \in pages => (o \in Into(g, i) <=> a \in Data(g)) /\ Byte(i, o) = <<s, a - g.addr>>
      <4> SUFFICES ASSUME i \in pages
                   PROVE  (o \in Into(g, i) <=> a \in Data(g)) /\ Byte(i, o) = <<s, a - g.addr>>
        OBVIOUS
      <4>1. i \in Nat \ {0} /\ f + i - 1 = First(t) + k - 1
        <5>1. i \in Nat \ {0}
          BY <2>4
        <5>2. \A x, y, n \in Int : x + (y + n - x) - 1 = y + n - 1
          OBVIOUS
        <5> QED BY <3>0, <5>1, <5>2, Zenon
      <4> HIDE DEF i
      <4>2. a = (f + i - 1) * PageSize + o
        BY <4>1, Zenon
      <4> HIDE DEF a
      <4>3. /\ o \in Into(g, i) <=> (f + i - 1) * PageSize + o \in Data(g)
            /\ Taken(g, i) + o - OffsetIntoPage(g, i) = ((f + i - 1) * PageSize + o) - g.addr
        BY <2>3, <4>1, <1>CopiedPage, Zenon DEF f
      <4> QED BY <4>2, <4>3, Zenon DEF Byte
    <3>4. a \in Data(g) => i \in pages
      BY <2>3, Zenon
    <3>5. /\ <<hand[k], o, b>>[1] = hand[k] /\ <<hand[k], o, b>>[2] = o
          /\ \A x, y, z : <<hand[k], o, b>> = <<x, y, z>> <=> hand[k] = x /\ o = y /\ b = z
      OBVIOUS
    <3> HIDE DEF a, i
    <3>6. CASE a \in Data(g)
      <4>1. i \in pages /\ o \in Into(g, i) /\ Byte(i, o) = <<s, a - g.addr>>
        BY <3>3, <3>4, <3>6, Zenon
      <4>2. <<hand[k], o, b>> \in data' => b = <<s, a - g.addr>>
        BY <2>5, <3>1, <3>2, <3>5, <4>1, Zenon
      <4>3. b = <<s, a - g.addr>> => <<hand[k], o, b>> \in data'
        BY <2>5, <3>2, <4>1, Zenon
      <4> QED BY <3>6, <4>2, <4>3, Zenon DEF a
    <3>7. CASE a \notin Data(g)
      <4>1. \A j \in pages : hand[k] # Frame(j) \/ o \notin Into(g, j)
        BY <3>1, <3>3, <3>7, Zenon
      <4> DEFINE d == <<hand[k], o, b>>
      <4> HIDE DEF pages, Frame, d
      <4>2. /\ \A j \in pages : d[1] # Frame(j) \/ d[2] \notin Into(g, j)
            /\ ~ \E j \in pages : \E q \in Into(g, j) : d = <<Frame(j), q, Byte(j, q)>>
        BY <3>5, <4>1, Zenon DEF d
      <4>3. d \in data' <=> d \in data
        BY <2>5, <4>2, Zenon
      <4> QED BY <3>7, <4>3, Zenon DEF a, d
    <3> QED BY <3>6, <3>7
  <2> QED BY <2>6, <2>7, <2>8, Zenon DEF g
<1>HoldsSame.
    ASSUME NEW D, NEW E, NEW im, NEW h, NEW k, NEW m, Holds(D, im, h, k, m),
           \A o, b : <<h, o, b>> \in E <=> <<h, o, b>> \in D
    PROVE  Holds(E, im, h, k, m)
  BY <1>HoldsSame, Zenon DEF Holds
\* One segment more: the segments have no address of their data in common.
<1>HoldsMore.
    ASSUME NEW D, NEW E, NEW im, NEW h, NEW k, NEW s \in 1 .. Len(im), Len(im) \in Nat,
           Loadable(im), Holds(D, im, h, k, s - 1),
           \A o \in 0 .. PageSize - 1 : \A b :
             LET a == (ImageFirst(im) + k - 1) * PageSize + o
             IN  <<h, o, b>> \in E <=>
                   IF a \in Data(im[s]) THEN b = <<s, a - im[s].addr>> ELSE <<h, o, b>> \in D
    PROVE  Holds(E, im, h, k, s)
  <2> USE <1>HoldsMore
  <2> SUFFICES ASSUME NEW o \in 0 .. PageSize - 1, NEW b
               PROVE  LET a == (ImageFirst(im) + k - 1) * PageSize + o
                      IN  <<h, o, b>> \in E <=>
                            \E r \in 1 .. s : a \in Data(im[r]) /\ b = <<r, a - im[r].addr>>
    BY Zenon DEF Holds
  <2> DEFINE a == (ImageFirst(im) + k - 1) * PageSize + o
  <2>1. <<h, o, b>> \in D <=> \E r \in 1 .. s - 1 : a \in Data(im[r]) /\ b = <<r, a - im[r].addr>>
    BY Zenon DEF Holds
  <2>2. <<h, o, b>> \in E <=>
          IF a \in Data(im[s]) THEN b = <<s, a - im[s].addr>> ELSE <<h, o, b>> \in D
    BY Zenon
  <2> HIDE DEF a
  <2>3. \A r : r \in 1 .. s <=> r = s \/ r \in 1 .. s - 1
    OBVIOUS
  <2>4. \A r \in 1 .. s - 1 : r \in 1 .. Len(im) /\ r # s
    OBVIOUS
  <2>5. \A r \in 1 .. s - 1 : a \in Data(im[r]) => a \notin Data(im[s])
    <3> SUFFICES ASSUME NEW r \in 1 .. s - 1, a \in Data(im[r]), a \in Data(im[s]) PROVE FALSE
      BY Zenon
    <3>1. Data(im[r]) \cap Data(im[s]) = {}
      BY <2>4, Zenon DEF Loadable
    <3> QED BY <3>1, Zenon
  <2>6. <<h, o, b>> \in E <=> \E r \in 1 .. s : a \in Data(im[r]) /\ b = <<r, a - im[r].addr>>
    <3>1. CASE a \in Data(im[s])
      BY <2>2, <2>3, <2>5, <3>1, Zenon
    <3>2. CASE a \notin Data(im[s])
      BY <2>1, <2>2, <2>3, <3>2, Zenon
    <3> QED BY <3>1, <3>2
  <2> QED BY <2>6, Zenon DEF a
<1>CopyData.
    ASSUME image \in Images, PosOK, AllocOK, HandOK, DataOK, BootCopy
    PROVE  DataOK'
  <2> USE <1>CopyData
  <2>0. PICK t \in Task : t = Now.t
    BY AtCopy, Zenon DEF BootCopy
  <2> DEFINE s == pos.i
  <2>1. /\ t \in Task /\ pos.stage = t + 2 /\ pos.part = 5 /\ s \in 1 .. Len(image[t])
        /\ pos.i <= Len(Part) /\ Done
    BY <2>0, AtCopy, Zenon DEF BootCopy, Step
  <2>2. /\ image' = image /\ hand' = hand /\ page' = page /\ next' = next
        /\ \A u \in Task : Frames(u)' = Frames(u) /\ First(u)' = First(u)
    BY SameImage, Zenon DEF BootCopy, allocVars
  <2>3. pos'.stage = pos.stage /\ pos'.part = 5 /\ pos'.i = s + 1
    BY <2>1, <2>2, DonePos, Zenon
  <2>4. /\ \A d \in data' : \/ d \in data
                            \/ d = <<d[1], d[2], d[3]>> /\ \E k \in 1 .. Frames(t) : d[1] = hand[k]
        /\ \A f, o, b : (\A k \in 1 .. Frames(t) : f # hand[k]) =>
                          (<<f, o, b>> \in data' <=> <<f, o, b>> \in data)
        /\ \A k \in 1 .. Frames(t) : \A o \in 0 .. PageSize - 1 : \A b :
             LET a == (First(t) + k - 1) * PageSize + o
                 g == image[t][s]
             IN  <<hand[k], o, b>> \in data' <=>
                   IF a \in Data(g) THEN b = <<s, a - g.addr>> ELSE <<hand[k], o, b>> \in data
    BY <2>0, <2>1, <1>CopiedData, Zenon DEF DataOK
  <2> HIDE DEF s
  <2>5. DataTyped'
    <3>1. \A k \in 1 .. Frames(t) : hand[k] \in Nat /\ hand[k] < next
      <4>1. 5 \in {5, 6}
        OBVIOUS
      <4>2. Len(hand) >= Frames(t)
        BY <2>1, <4>1, Zenon DEF HandOK
      <4>3. Frames(t) \in Nat
        BY <2>1, TaskLengths, Zenon
      <4>4. \A k \in 1 .. Frames(t) : hand[k] \in Slot /\ hand[k] < next
        BY <4>2, <4>3 DEF HandOK
      <4> QED BY <4>4, Slots, Zenon
    <3> QED BY <2>2, <2>4, <3>1, Zenon DEF DataTyped, DataOK
  <2>6. FramesFilled'
    <3>1. \A u \in Task : pos'.stage = u + 2 => u = t
      BY <2>1, <2>3, TaskStages, Zenon
    <3>2. ASSUME NEW k \in 1 .. Frames(t)
          PROVE  Unshared(k)' /\ Holds(data, image[t], hand[k], k, pos.i - 1)'
      <4>1. Unshared(k) /\ Holds(data, image[t], hand[k], k, s - 1)
        BY <2>1, Zenon DEF DataOK, FramesFilled, s
      <4>2. Unshared(k)'
        BY <2>2, <4>1, Zenon DEF Unshared
      <4>3. Len(image[t]) \in Nat /\ Loadable(image[t])
        BY <2>1, Segments, Zenon
      <4>4. Holds(data', image[t], hand[k], k, s)
        BY <2>1, <2>4, <4>1, <4>3, <1>HoldsMore, Zenon DEF First
      <4>5. (s + 1) - 1 = s
        BY <2>1, <4>3
      <4> QED BY <2>2, <2>3, <4>2, <4>4, <4>5, Zenon
    <3>3. 5 # 4 /\ 5 # 6
      OBVIOUS
    <3> QED BY <2>2, <2>3, <3>1, <3>2, <3>3, Zenon DEF FramesFilled
  <2>7. FramesLoaded'
    <3> SUFFICES ASSUME NEW u \in Task, NEW k \in 1 .. Frames(u), Passed(u + 2, 6, k)'
                 PROVE  Holds(data', image[u], page[u][First(u) + k - 1], k, Len(image[u]))
      BY <2>2, Zenon DEF FramesLoaded
    <3> DEFINE h == page[u][First(u) + k - 1]
    <3>1. Passed(u + 2, 6, k)
      <4>1. u + 2 \in Nat /\ 6 \in Nat /\ k \in Nat /\ pos.part # 6
        BY <2>1, TaskStages
      <4> QED BY <2>1, <2>2, <4>1, DonePos, Zenon
    <3>2. Holds(data, image[u], h, k, Len(image[u]))
      BY <3>1, Zenon DEF DataOK, FramesLoaded
    <3>3. \A j \in 1 .. Frames(t) : h # hand[j]
      BY <2>1, PagesBelow, Zenon DEF DataOK, FramesFilled, Unshared
    <3> HIDE DEF h
    <3>4. \A o, b : <<h, o, b>> \in data' <=> <<h, o, b>> \in data
      BY <2>4, <3>3, Zenon
    <3> QED BY <3>2, <3>4, <1>HoldsSame, Zenon DEF h
  <2> QED BY <2>5, <2>6, <2>7, Zenon DEF DataOK
<1>TypedSame.
    ASSUME image \in Images, PosOK, AllocOK, Boot, DataTyped, data' = data
    PROVE  DataTyped'
  <2> USE <1>TypedSame
  <2>1. next \in Nat /\ next' \in Nat /\ next <= next'
    BY NextGrows, Zenon
  <2>2. \A n : n \in Nat /\ n < next => n < next'
    BY <2>1
  <2> QED BY <2>2, Zenon DEF DataTyped
\* The frames are taken one after the other: a new one is like no other.
<1>TakeData.
    ASSUME image \in Images, PosOK, AllocOK, HandOK, PageOK, DataOK, BootTake
    PROVE  DataOK'
  <2> USE <1>TakeData
  <2>1. /\ image' = image /\ data' = data /\ page' = page /\ Boot
        /\ pos.i <= Len(Part) /\ Done
        /\ \A u \in Task : Frames(u)' = Frames(u) /\ First(u)' = First(u)
    BY SameImage, Zenon DEF BootTake, Boot, Step
  <2>2. pos'.stage = pos.stage /\ pos'.part = pos.part /\ pos'.i = pos.i + 1
    BY <2>1, DonePos, Zenon
  <2>3. \A u \in Task : pos.stage = u + 2 =>
          /\ pos.part # 5 /\ pos.part # 6
          /\ pos.part = 4 => Now.x = pos.i /\ pos.i \in Nat \ {0}
    <3>1. 4 # 5 /\ 4 # 6 /\ 7 # 4 /\ 7 # 5 /\ 7 # 6 /\ 9 # 4 /\ 9 # 5 /\ 9 # 6
      OBVIOUS
    <3>2. \A u \in Task : pos.stage = u + 2 => pos.stage # 5
      BY TaskStages, Zenon
    <3>3. pos.i \in Nat \ {0}
      BY DEF PosOK
    <3> QED BY <3>1, <3>2, <3>3, AtTake, Zenon DEF BootTake
  <2>4. FramesLoaded'
    <3>1. \A u \in Task : \A k \in 1 .. Frames(u) : Passed(u + 2, 6, k)' => Passed(u + 2, 6, k)
      <4> SUFFICES ASSUME NEW u \in Task, NEW k \in 1 .. Frames(u), Passed(u + 2, 6, k)'
                   PROVE  Passed(u + 2, 6, k)
        OBVIOUS
      <4>1. u + 2 \in Nat /\ 6 \in Nat /\ k \in Nat
        BY TaskStages
      <4> QED BY <2>1, <2>3, <4>1, DonePos, Zenon
    <3> QED BY <2>1, <3>1, Zenon DEF DataOK, FramesLoaded
  <2>5. FramesFilled'
    <3> SUFFICES ASSUME NEW u \in Task, pos.stage = u + 2, pos.part = 4,
                        NEW k \in 1 .. pos'.i - 1
                 PROVE  Unshared(k)' /\ \A d \in data : d[1] # hand'[k]
      BY <2>1, <2>2, <2>3, Zenon DEF FramesFilled
    <3> DEFINE n == pos.i
    <3>1. /\ n \in Nat \ {0} /\ hand'[n] = next /\ \A j \in 1 .. n - 1 : hand'[j] = hand[j]
          /\ Len(hand) >= n - 1 /\ Len(hand) \in Nat
      <4>1. Len(hand) \in Nat
        BY DEF HandOK
      <4> QED BY <2>3, <4>1, TakeHand, Zenon
    <3>2. k = n \/ k \in 1 .. n - 1
      BY <2>2, <3>1
    <3> HIDE DEF n
    <3>3. CASE k \in 1 .. n - 1
      <4>1. Unshared(k) /\ \A d \in data : d[1] # hand[k]
        BY <3>3, Zenon DEF DataOK, FramesFilled, n
      <4>2. \A m \in 1 .. k - 1 : m \in 1 .. n - 1
        BY <3>1, <3>3
      <4> QED BY <2>1, <3>1, <3>3, <4>1, <4>2, Zenon DEF Unshared
    <3>4. CASE k = n
      <4>1. hand'[k] = next
        BY <3>1, <3>4, Zenon
      <4>2. next \in Nat /\ \A x : x < next => x # next
        <5>1. next \in Nat
          BY NextGrows, <2>1, Zenon
        <5> QED BY <5>1
      <4>3. \A m \in 1 .. k - 1 : hand'[m] = hand[m] /\ hand[m] < next
        <5>1. \A m \in 1 .. k - 1 : m \in 1 .. n - 1 /\ m \in 1 .. Len(hand)
          BY <3>1, <3>4
        <5> QED BY <3>1, <5>1, Zenon DEF HandOK
      <4>4. Unshared(k)'
        BY <2>1, <4>1, <4>2, <4>3, Zenon DEF Unshared, PageOK
      <4> QED BY <4>1, <4>2, <4>4, Zenon DEF DataOK, DataTyped
    <3> QED BY <3>2, <3>3, <3>4
  <2>6. DataTyped'
    BY <2>1, <1>TypedSame, Zenon DEF DataOK
  <2> QED BY <2>4, <2>5, <2>6, Zenon DEF DataOK
\* The other pages a task gets lie behind its image.
<1>MapData.
    ASSUME image \in Images, PosOK, AllocOK, HandOK, PageOK, DataOK, BootMap
    PROVE  DataOK'
  <2> USE <1>MapData
  <2>1. /\ image' = image /\ data' = data /\ hand' = hand /\ Boot
        /\ pos.i <= Len(Part) /\ Done
        /\ \A u \in Task : Frames(u)' = Frames(u) /\ First(u)' = First(u)
    BY SameImage, Zenon DEF BootMap, Boot, Step
  <2>2. pos'.stage = pos.stage /\ pos'.part = pos.part /\ pos'.i = pos.i + 1
    BY <2>1, DonePos, Zenon
  <2>3. \A u \in Task : pos.stage = u + 2 => pos.part # 4 /\ pos.part # 5
    <3>1. 6 # 4 /\ 6 # 5 /\ 7 # 4 /\ 7 # 5 /\ 9 # 4 /\ 9 # 5
      OBVIOUS
    <3>2. \A u \in Task : pos.stage = u + 2 => pos.stage # 5
      BY TaskStages, Zenon
    <3> QED BY <3>1, <3>2, AtFrameMap, AtMapPage, Zenon DEF BootMap
  <2>4. FramesFilled'
    BY <2>1, <2>2, <2>3, Zenon DEF DataOK, FramesFilled
  <2>5. FramesLoaded'
    <3> SUFFICES ASSUME NEW u \in Task, NEW k \in 1 .. Frames(u), Passed(u + 2, 6, k)'
                 PROVE  Holds(data, image[u], page'[u][First(u) + k - 1], k, Len(image[u]))
      BY <2>1, Zenon DEF FramesLoaded
    <3> DEFINE p == First(u) + k - 1
    <3>1. p \in Page
      BY PagesBelow, Zenon
    <3>2. /\ Now.t \in Task /\ page'[Now.t][Now.x[1]] = hand[Now.x[2]]
          /\ \A v \in Task : \A q \in Page : ~(v = Now.t /\ q = Now.x[1]) => page'[v][q] = page[v][q]
      BY MapsFrame, Zenon
    <3>3. CASE u = Now.t /\ p = Now.x[1]
      <4>1. /\ First(u) \in Nat /\ End(u) \in Nat /\ Frames(u) = End(u) - First(u)
            /\ First(u) <= End(u) /\ End(u) < StackTop - StackPages
        BY ImagePages, Zenon DEF Frames
      <4>2. StackPages \in Nat /\ StackTop \in Nat /\ DmaStart \in Nat /\ StackTop <= DmaStart
            /\ BlkDma \in Nat /\ NetDma \in Nat
        BY Constants, Zenon
      <4>3. p < End(u)
        BY <4>1
      <4>4. ~Step("map_page")
        <5> SUFFICES ASSUME Step("map_page") PROVE FALSE
          OBVIOUS
        <5>1. \E j \in (1 .. StackPages) \cup (1 .. BlkDma) \cup (1 .. NetDma) :
                Now.x[1] = StackTop - StackPages + j - 1 \/ Now.x[1] = DmaStart + j - 1
          BY AtMapPage, Zenon
        <5>2. End(u) < Now.x[1]
          BY <4>1, <4>2, <5>1
        <5>3. p \in Int
          BY <4>1
        <5> HIDE DEF p
        <5> QED BY <3>3, <4>1, <4>3, <5>2, <5>3
      <4>5. /\ pos.stage = u + 2
            /\ \/ pos.part = 6 /\ Now.x[1] = First(u) + pos.i - 1 /\ Now.x[2] = pos.i
               \/ Now.x[1] = End(u)
        BY <3>3, <4>4, AtFrameMap, Zenon DEF BootMap
      <4>6. pos.part = 6 /\ Now.x[2] = k
        <5>1. pos.i \in Nat
          BY DEF PosOK
        <5> QED BY <3>3, <4>1, <4>3, <4>5, <5>1
      <4>7. Holds(data, image[u], hand[k], k, Len(image[u]))
        BY <4>5, <4>6, Zenon DEF DataOK, FramesFilled
      <4> QED BY <3>2, <3>3, <4>6, <4>7, Zenon
    <3>4. CASE ~(u = Now.t /\ p = Now.x[1])
      <4>1. page'[u][p] = page[u][p]
        BY <3>1, <3>2, <3>4, Zenon
      <4>2. ~(pos.stage = u + 2 /\ pos.part = 6 /\ pos.i = k)
        <5> SUFFICES ASSUME pos.stage = u + 2, pos.part = 6, pos.i = k PROVE FALSE
          OBVIOUS
        <5>1. 6 # 7 /\ 6 # 9 /\ \A v \in Task : v + 2 # 5
          BY TaskStages
        <5>2. Step("frame_map")
          BY <5>1, AtMapPage, Zenon DEF BootMap
        <5> QED BY <3>4, <5>1, <5>2, AtFrameMap, TaskStages, Zenon
      <4>3. u + 2 \in Nat /\ 6 \in Nat /\ k \in Nat
        BY TaskStages
      <4>4. Passed(u + 2, 6, k)
        BY <2>1, <4>2, <4>3, DonePos, Zenon
      <4> QED BY <4>1, <4>4, Zenon DEF DataOK, FramesLoaded
    <3> QED BY <3>3, <3>4
  <2>6. DataTyped'
    BY <2>1, <1>TypedSame, Zenon DEF DataOK
  <2> QED BY <2>4, <2>5, <2>6, Zenon DEF DataOK
<1>NextData.
    ASSUME image \in Images, PosOK, AllocOK, DataOK, BootNext
    PROVE  DataOK'
  <2> USE <1>NextData
  <2>1. /\ image' = image /\ data' = data /\ hand' = hand /\ page' = page /\ Boot
        /\ \A u \in Task : Frames(u)' = Frames(u) /\ First(u)' = First(u)
    BY SameImage, Zenon DEF BootNext, Boot
  <2>2. /\ pos'.i = 1 /\ pos.i = Len(PartOf(pos.stage, pos.part)) + 1
        /\ \/ pos'.stage = pos.stage /\ pos'.part = pos.part + 1
           \/ pos'.part = 1
        /\ pos.part \in Nat
    <3>1. pos.part \in Nat
      BY DEF PosOK
    <3> QED BY <3>1, NextPos, Zenon
  <2>3. \A u \in Task : /\ Len(PartOf(u + 2, 4)) = Frames(u) /\ Frames(u) \in Nat
                        /\ Len(PartOf(u + 2, 5)) = Len(image[u]) /\ Len(image[u]) \in Nat
                        /\ Len(PartOf(u + 2, 6)) = Frames(u)
    BY TaskLengths, Segments, Zenon
  <2>4. FramesLoaded'
    <3>1. \A u \in Task : \A k \in 1 .. Frames(u) : Passed(u + 2, 6, k)' => Passed(u + 2, 6, k)
      <4> SUFFICES ASSUME NEW u \in Task, NEW k \in 1 .. Frames(u), Passed(u + 2, 6, k)'
                   PROVE  Passed(u + 2, 6, k)
        OBVIOUS
      <4>1. 6 \in 1 .. 9
        OBVIOUS
      <4>2. k \in 1 .. Len(PartOf(u + 2, 6))
        BY <2>3, Zenon
      <4> QED BY <4>1, <4>2, TaskPlaces, NextPos, Zenon
    <3> QED BY <2>1, <3>1, Zenon DEF DataOK, FramesLoaded
  <2>5. ASSUME NEW u \in Task, pos'.stage = u + 2
        PROVE  /\ pos'.part = 4 => \A k \in 1 .. pos'.i - 1 : FALSE
               /\ pos'.part = 5 => pos.stage = u + 2 /\ pos.part = 4 /\ pos.i - 1 = Frames(u)
               /\ pos'.part = 6 => pos.stage = u + 2 /\ pos.part = 5 /\ pos.i - 1 = Len(image[u])
    <3>1. pos'.part = 4 => \A k \in 1 .. pos'.i - 1 : FALSE
      BY <2>2
    <3>2. ASSUME pos'.part = 5
          PROVE  pos.stage = u + 2 /\ pos.part = 4 /\ pos.i - 1 = Frames(u)
      <4>1. pos.stage = u + 2 /\ pos.part = 4
        BY <2>2, <2>5, <3>2
      <4>2. pos.i = Frames(u) + 1
        BY <2>2, <2>3, <4>1, Zenon
      <4> QED BY <2>3, <4>1, <4>2
    <3>3. ASSUME pos'.part = 6
          PROVE  pos.stage = u + 2 /\ pos.part = 5 /\ pos.i - 1 = Len(image[u])
      <4>1. pos.stage = u + 2 /\ pos.part = 5
        BY <2>2, <2>5, <3>3
      <4>2. pos.i = Len(image[u]) + 1
        BY <2>2, <2>3, <4>1, Zenon
      <4>3. Len(image[u]) \in Nat
        BY <2>3, Zenon
      <4> QED BY <4>1, <4>2, <4>3
    <3> QED BY <3>1, <3>2, <3>3, Zenon
  <2>6. FramesFilled'
    <3> SUFFICES ASSUME NEW u \in Task, pos'.stage = u + 2
                 PROVE  /\ pos'.part = 5 => \A k \in 1 .. Frames(u) :
                             Unshared(k)' /\ Holds(data, image[u], hand[k], k, pos'.i - 1)
                        /\ pos'.part = 6 => \A k \in 1 .. Frames(u) :
                             Holds(data, image[u], hand[k], k, Len(image[u]))
      BY <2>1, <2>5, Zenon DEF FramesFilled
    <3>1. ASSUME pos'.part = 5, NEW k \in 1 .. Frames(u)
          PROVE  Unshared(k)' /\ Holds(data, image[u], hand[k], k, pos'.i - 1)
      <4>1. Unshared(k) /\ \A d \in data : d[1] # hand[k]
        BY <2>5, <3>1, Zenon DEF DataOK, FramesFilled
      <4>2. Unshared(k)'
        BY <2>1, <4>1, Zenon DEF Unshared
      <4>3. \A o, b : <<hand[k], o, b>> \notin data
        <5>1. \A o, b : <<hand[k], o, b>>[1] = hand[k]
          OBVIOUS
        <5> QED BY <4>1, <5>1, Zenon
      <4>4. \A s \in 1 .. pos'.i - 1 : FALSE
        BY <2>2
      <4> QED BY <4>2, <4>3, <4>4, Zenon DEF Holds
    <3>2. ASSUME pos'.part = 6, NEW k \in 1 .. Frames(u)
          PROVE  Holds(data, image[u], hand[k], k, Len(image[u]))
      <4>1. Holds(data, image[u], hand[k], k, pos.i - 1) /\ pos.i - 1 = Len(image[u])
        BY <2>5, <3>2, Zenon DEF DataOK, FramesFilled
      <4> QED BY <4>1, Zenon
    <3> QED BY <3>1, <3>2, Zenon
  <2>7. DataTyped'
    BY <2>1, <1>TypedSame, Zenon DEF DataOK
  <2> QED BY <2>4, <2>6, <2>7, Zenon DEF DataOK
<1>1. CASE BootNext
  BY <1>1, <1>NextData, Zenon
<1>2. CASE BootCopy
  BY <1>2, <1>CopyData, Zenon
<1>3. CASE BootTake
  BY <1>3, <1>TakeData, Zenon
<1>4. CASE BootMap
  BY <1>4, <1>MapData, Zenon
<1>5. image' = image /\ \A u \in Task : Frames(u)' = Frames(u) /\ First(u)' = First(u)
  BY StepPos, SameImage, Zenon
<1>6. CASE UNCHANGED <<data, hand, page, pos>>
  <2>1. DataTyped'
    BY <1>6, <1>TypedSame, Zenon DEF DataOK
  <2>2. \A k : Unshared(k) => Unshared(k)'
    BY <1>6, Zenon DEF Unshared
  <2>3. FramesFilled'
    BY <1>5, <1>6, <2>2, Zenon DEF DataOK, FramesFilled
  <2>4. \A u, k : Passed(u + 2, 6, k)' <=> Passed(u + 2, 6, k)
    BY <1>6, Zenon DEF Passed
  <2>5. FramesLoaded'
    BY <1>5, <1>6, <2>4, Zenon DEF DataOK, FramesLoaded
  <2> QED BY <2>1, <2>3, <2>5, Zenon DEF DataOK
<1>7. CASE /\ UNCHANGED <<data, hand, page>> /\ Done /\ pos.i <= Len(Part)
           /\ Now.op \notin {"take", "copy", "frame_map"}
  <2>1. pos'.stage = pos.stage /\ pos'.part = pos.part
    BY <1>5, <1>7, DonePos, Zenon
  <2>2. ASSUME NEW u \in Task, pos.stage = u + 2
        PROVE  pos.part # 4 /\ pos.part # 5 /\ pos.part # 6
    <3>1. BuildEntry(u)
      BY <1>7, <2>2, BuildEntries, Zenon
    <3>2. \/ pos.part \notin {4, 5, 6}
          \/ Now = Take(pos.i) \/ Now = CopySegment(u, pos.i)
          \/ Now = FrameMap(u, First(u) + pos.i - 1, pos.i)
      BY <3>1 DEF BuildEntry
    <3>3. \A i, f : /\ Take(i).op = "take" /\ CopySegment(u, i).op = "copy"
                    /\ FrameMap(u, f, i).op = "frame_map"
      BY DEF Take, CopySegment, FrameMap
    <3>4. pos.part \notin {4, 5, 6}
      BY <1>7, <3>2, <3>3, Zenon
    <3> QED BY <3>4
  <2>3. FramesFilled'
    BY <2>1, <2>2, Zenon DEF FramesFilled
  <2>4. \A u \in Task : \A k \in 1 .. Frames(u) : Passed(u + 2, 6, k)' => Passed(u + 2, 6, k)
    <3> SUFFICES ASSUME NEW u \in Task, NEW k \in 1 .. Frames(u), Passed(u + 2, 6, k)'
                 PROVE  Passed(u + 2, 6, k)
      OBVIOUS
    <3>1. u + 2 \in Nat /\ 6 \in Nat /\ k \in Nat
      BY TaskStages
    <3> QED BY <1>5, <1>7, <2>2, <3>1, DonePos, Zenon
  <2>5. FramesLoaded'
    BY <1>5, <1>7, <2>4, Zenon DEF DataOK, FramesLoaded
  <2>6. DataTyped'
    BY <1>7, <1>TypedSame, Zenon DEF DataOK
  <2> QED BY <2>3, <2>5, <2>6, Zenon DEF DataOK
<1>8. CASE BootOrigin \/ BootObject \/ BootNormalCap \/ BootSlot \/ BootTable \/ BootDevice \/ BootGive
  <2>1. /\ UNCHANGED <<data, hand, page>> /\ Done /\ pos.i <= Len(Part)
        /\ Now.op \in {"origin", "object", "normal", "slot", "table", "device", "give"}
    BY <1>8, Zenon DEF BootOrigin, BootObject, BootNormalCap, BootSlot, BootTable, BootDevice,
       BootGive, Step
  <2>2. Now.op \notin {"take", "copy", "frame_map"}
    BY <2>1
  <2> QED BY <1>7, <2>1, <2>2, Zenon
<1>9. CASE BootMissingTable \/ BootDone
  BY <1>6, <1>9, Zenon DEF BootMissingTable, BootDone, memVars
<1> QED BY <1>1, <1>2, <1>3, <1>4, <1>8, <1>9, Zenon DEF Boot

(* The DMA pages of the net thread.                                        *)

LEMMA DmaStep ==
  ASSUME image \in Images, PosOK, AllocOK, HandOK, PageOK, TablesMade, PagesMapped, DmaOK, Boot
  PROVE  DmaOK'
\* They are the last part of the script.
<1>PassedLast.
    ASSUME PosOK, NEW i \in Nat \ {0}, Passed(5, 5, i)
    PROVE  pos.stage = 5 /\ pos.part = 5 /\ i < pos.i
  <2> USE <1>PassedLast
  <2>1. Len(Script(image)[5]) = 5
    BY Parts, Zenon
  <2>2. pos.stage \in 1 .. 5 /\ pos.part \in Nat /\ pos.i \in Nat
    BY DEF PosOK
  <2>3. pos.stage = 5 => pos.part <= 5
    BY <2>1, Zenon DEF PosOK
  <2> QED BY <2>2, <2>3 DEF Passed
\* They share their tables.
<1>SameTables.
    ASSUME NEW j \in 1 .. NetDma
    PROVE  TablesOf(DmaStart + j - 1) = TablesOf(DmaStart)
  <2>1. ASSUME NEW n \in Nat \ {0}, (DmaStart % n) + NetDma <= n
        PROVE  (DmaStart + j - 1) \div n = DmaStart \div n
    <3> DEFINE q == DmaStart \div n
               r == DmaStart % n
    <3>1. DmaStart \in Nat /\ NetDma \in Nat
      BY Constants, Zenon
    <3>2. q \in Nat /\ r \in 0 .. n - 1 /\ DmaStart = n * q + r
      BY <2>1, <3>1, Division, Zenon
    <3>3. n * q = q * n /\ q * n \in Nat
      BY <2>1, <3>2
    <3> HIDE DEF q
    <3>4. r + NetDma <= n
      BY <2>1
    <3> HIDE DEF r
    <3>5. r + j - 1 \in 0 .. n - 1
      BY <2>1, <3>1, <3>2, <3>4
    <3>6. DmaStart + j - 1 = q * n + (r + j - 1)
      BY <3>1, <3>2, <3>3
    <3>7. (q * n + (r + j - 1)) \div n = q
      BY <2>1, <3>2, <3>5, Quotient, Zenon
    <3> QED BY <3>6, <3>7, Zenon DEF q
  <2>2. /\ PtSpan \in Nat \ {0} /\ UpSpan \in Nat \ {0}
        /\ (DmaStart % PtSpan) + NetDma <= PtSpan /\ (DmaStart % UpSpan) + NetDma <= UpSpan
    BY BootAssumption, Zenon
  <2> QED BY <2>1, <2>2, Zenon DEF TablesOf
<1>DmaEntry.
    ASSUME image \in Images, PosOK, pos.stage = 5, pos.part = 5, pos.i <= Len(Part)
    PROVE  \E j \in 1 .. NetDma : \/ pos.i = 2 * j - 1 /\ Now = Take(1)
                                  \/ pos.i = 2 * j /\ Now = MapPage(Net, DmaStart + j - 1)
  <2> USE <1>DmaEntry
  <2>1. LastEntry
    BY LastEntries, Zenon
  <2>2. PagesEntry(Net, DmaStart, NetDma)
    BY <2>1 DEF LastEntry
  <2> QED BY <2>2, Zenon DEF PagesEntry
\* A multiple of n is aligned already.
<1>AlignedAlready.
    ASSUME NEW w \in Nat, NEW n \in Nat \ {0}
    PROVE  /\ AlignUp(w, n) % n = 0
           /\ w % n = 0 => AlignUp(w, n) = w /\ AlignUp(w + n, n) = w + n
  <2> DEFINE u == (w + n - 1) \div n
  <2>1. u \in Nat
    <3>1. w + n - 1 \in Nat
      OBVIOUS
    <3> QED BY <3>1, Division, Zenon
  <2>2. (u * n + 0) % n = 0 /\ u * n + 0 = u * n
    <3> HIDE DEF u
    <3>1. 0 \in 0 .. n - 1
      OBVIOUS
    <3>2. (u * n + 0) % n = 0
      BY <2>1, <3>1, Quotient, Zenon
    <3> QED BY <2>1, <3>2
  <2>3. AlignUp(w, n) % n = 0
    BY <2>2, Zenon DEF AlignUp
  <2>4. ASSUME w % n = 0 PROVE AlignUp(w, n) = w /\ AlignUp(w + n, n) = w + n
    <3> DEFINE q == w \div n
    <3>1. q \in Nat /\ w = n * q + (w % n)
      BY Division, Zenon
    <3> HIDE DEF q
    <3>2. w = q * n /\ q + 1 \in Nat /\ w + n = (q + 1) * n /\ n - 1 \in 0 .. n - 1
      <4>1. w = n * q + 0
        BY <2>4, <3>1, Zenon
      <4>2. n * q = q * n /\ n * q \in Nat /\ (q + 1) * n = q * n + n
        BY <3>1
      <4> QED BY <3>1, <4>1, <4>2
    <3>3. (q * n + (n - 1)) \div n = q /\ ((q + 1) * n + (n - 1)) \div n = q + 1
      BY <3>1, <3>2, Quotient, Zenon
    <3>4. w + n - 1 = q * n + (n - 1) /\ w + n + n - 1 = (q + 1) * n + (n - 1)
      <4> DEFINE x == q * n
                 y == (q + 1) * n
      <4>1. w = x /\ w + n = y
        BY <3>2
      <4> HIDE DEF x, y
      <4>2. w + n - 1 = x + (n - 1) /\ w + n + n - 1 = y + (n - 1)
        BY <4>1
      <4> QED BY <4>2, Zenon DEF x, y
    <3>5. (w + n - 1) \div n = q /\ (w + n + n - 1) \div n = q + 1
      BY <3>3, <3>4, Zenon
    <3> QED BY <3>2, <3>5, Zenon DEF AlignUp
  <2> QED BY <2>3, <2>4
\* A frame is put where memory is free, which is right behind the last one
\* unless a CNode is made.
<1>TakenFrame.
    ASSUME image \in Images, PosOK, AllocOK, BootTake
    PROVE  /\ next \in Slot /\ next' = next + 1 /\ at \in [Slot -> Nat]
           /\ at'[next] \in Nat /\ at'[next] % PageSize = 0 /\ water' = at'[next] + PageSize
           /\ \A x \in Slot : x # next => at'[x] = at[x]
           /\ \A x \in Nat : /\ x % PageSize = 0 /\ water = x + PageSize /\ next % Radix # 0
                             => at'[next] = x + PageSize
  <2> USE <1>TakenFrame
  <2>1. next \in Slot /\ at \in [Slot -> Nat] /\ water \in Nat
    <3>1. next \in Slot
      BY Slots, Zenon DEF BootTake, AllocateAndRetype, RetypeOk, SlotOk, AllocOK, AllocInv, AllocTypeOK
    <3>2. water \in 0 .. UtSize
      BY Zenon DEF AllocOK, AllocInv, AllocTypeOK
    <3> QED BY <3>1, <3>2 DEF AllocOK, AllocInv, AllocTypeOK
  <2>2. PageSize \in Nat \ {0} /\ CNodeSize \in Nat \ {0}
    BY Constants, AllocatorAssumption, Zenon
  <2>3. /\ next' = next + 1 /\ water' = Place(PageSize) + PageSize
        /\ at' = [at EXCEPT ![next] = Place(PageSize)]
    BY Zenon DEF BootTake, AllocateAndRetype
  <2>4. SlotWater \in Nat
    <3>1. AlignUp(water, CNodeSize) \in Nat
      BY <2>1, <2>2, Aligned, Zenon
    <3> QED BY <2>1, <2>2, <3>1 DEF SlotWater
  <2>5. Place(PageSize) \in Nat /\ Place(PageSize) % PageSize = 0
    BY <2>2, <2>4, Aligned, <1>AlignedAlready, Zenon DEF Place
  <2>6. at'[next] = Place(PageSize) /\ \A x \in Slot : x # next => at'[x] = at[x]
    BY <2>1, <2>3, Zenon
  <2>7. ASSUME NEW x \in Nat, x % PageSize = 0, water = x + PageSize, next % Radix # 0
        PROVE  Place(PageSize) = x + PageSize
    <3>1. SlotWater = x + PageSize
      BY <2>7, Zenon DEF SlotWater, NeedsCNode
    <3> QED BY <2>2, <2>7, <3>1, <1>AlignedAlready, Zenon DEF Place
  <2> QED BY <2>1, <2>3, <2>5, <2>6, <2>7, Zenon
\* What is joined stays so: nothing is put into a slot twice.
<1>JoinedSame.
    ASSUME image \in Images, PosOK, AllocOK, PageOK, BootTake, NEW p \in Page, p + 1 \in Page,
           Joined(Net, p), page[Net][p] # 0, page[Net][p + 1] # 0
    PROVE  Joined(Net, p)'
  <2> USE <1>JoinedSame
  <2>1. Net \in Task /\ page' = page
    <3>1. Net \in Task
      BY DEF Net, Task
    <3> QED BY <3>1, Zenon DEF BootTake
  <2>2. \A q \in Page : page[Net][q] # 0 => page[Net][q] \in Slot /\ page[Net][q] # next
    <3> SUFFICES ASSUME NEW q \in Page, page[Net][q] # 0
                 PROVE  page[Net][q] \in Slot /\ page[Net][q] # next
      OBVIOUS
    <3>1. page[Net][q] \in Slot \cup {0} /\ page[Net][q] < next
      BY <2>1 DEF PageOK
    <3>2. page[Net][q] \in Slot /\ next \in Nat
      <4>1. next \in Slot
        BY <1>TakenFrame, Zenon
      <4> QED BY <3>1, <4>1, Slots, Zenon
    <3>3. \A x : x < next /\ next \in Nat => x # next
      OBVIOUS
    <3> QED BY <3>1, <3>2, <3>3, Zenon
  <2>3. at'[page[Net][p]] = at[page[Net][p]] /\ at'[page[Net][p + 1]] = at[page[Net][p + 1]]
    BY <2>2, <1>TakenFrame, Zenon
  <2> QED BY <2>1, <2>3, Zenon DEF Joined
<1>TakeDma.
    ASSUME image \in Images, PosOK, AllocOK, HandOK, PageOK, PagesMapped, DmaOK, BootTake,
           NEW n \in 1 .. NetDma, pos.stage = 5, pos.part = 5, pos.i = 2 * n - 1
    PROVE  DmaOK'
  <2> USE <1>TakeDma
  <2>1. image' = image /\ page' = page /\ pts' = pts /\ pos.i <= Len(Part) /\ Done /\ Now.x = 1
    <3>1. Now.x = 1
      <4>1. \A t \in Task : t + 2 # 5
        BY TaskStages, Zenon
      <4> QED BY <4>1, AtTake, Zenon DEF BootTake
    <3> QED BY <3>1, Zenon DEF BootTake, Step
  <2>2. pos'.stage = 5 /\ pos'.part = 5 /\ pos'.i = 2 * n
    <3>1. pos'.stage = 5 /\ pos'.part = 5 /\ pos'.i = 2 * n - 1 + 1
      BY <2>1, DonePos, Zenon
    <3> QED BY <3>1
  <2>3. NetDma \in Nat /\ Net \in Task
    BY Constants DEF Net, Task
  <2>4. \A j \in 1 .. NetDma : Passed(5, 5, 2 * j)' => Passed(5, 5, 2 * j)
    <3>1. \A j \in 1 .. NetDma : 2 * j \in Nat /\ 5 \in Nat /\ 2 * j # 2 * n - 1
      BY <2>3
    <3> QED BY <2>1, <3>1, DonePos, Zenon
  <2>5. DmaTables'
    BY <2>1, <2>4, Zenon DEF DmaOK, DmaTables
  <2>6. /\ next \in Slot /\ next' = next + 1 /\ hand'[1] = next
        /\ at'[next] \in Nat /\ at'[next] % PageSize = 0 /\ water' = at'[next] + PageSize
        /\ \A x \in Slot : x # next => at'[x] = at[x]
        /\ \A x \in Nat : /\ x % PageSize = 0 /\ water = x + PageSize /\ next % Radix # 0
                          => at'[next] = x + PageSize
        /\ at \in [Slot -> Nat] /\ next \in Nat
    <3>1. hand'[1] = next
      BY <2>1, TakeHand, Zenon
    <3> QED BY <3>1, <1>TakenFrame, Slots, Zenon
  <2>7. LastFrame'
    <3>1. hand'[1] = next' - 1
      BY <2>6
    <3> QED BY <2>6, <3>1, Zenon DEF LastFrame
  <2>8. ASSUME n > 2
        PROVE  \/ at'[hand'[1]] = at'[page[Net][DmaStart + n - 2]] + PageSize
               \/ \E s \in page[Net][DmaStart + n - 2] + 1 .. hand'[1] : s % Radix = 0
    <3>1. n - 1 \in 1 .. NetDma /\ pos.i = 2 * (n - 1) + 1 /\ n - 1 > 1
      BY <2>3, <2>8
    <3>2. LastFrame /\ hand[1] = page[Net][DmaStart + (n - 1) - 1]
      BY <3>1, Zenon DEF DmaOK, DmaFrame
    <3>3. DmaStart + (n - 1) - 1 = DmaStart + n - 2
      BY Constants
    <3> DEFINE h == page[Net][DmaStart + n - 2]
    <3>4. h = hand[1] /\ h = next - 1 /\ at[h] % PageSize = 0 /\ water = at[h] + PageSize
      BY <3>2, <3>3, Zenon DEF LastFrame
    <3>5. h \in Slot
      <4>1. DmaStart + n - 2 \in Page
        <5>1. DmaStart + (n - 1) - 1 \in Page
          BY <3>1, PagesBelow, Zenon
        <5> QED BY <3>3, <5>1, Zenon
      <4>2. Passed(5, 5, 2 * (n - 1))
        BY <3>1 DEF Passed
      <4>3. h # 0
        BY <3>1, <3>3, <4>2, Zenon DEF PagesMapped
      <4>4. h \in Slot \cup {0}
        BY <2>3, <4>1 DEF PageOK
      <4> QED BY <4>3, <4>4, Zenon
    <3> HIDE DEF h
    <3>6. h # next /\ h + 1 = next
      BY <2>6, <3>4
    <3>7. at'[h] = at[h] /\ at[h] \in Nat
      BY <2>6, <3>5, <3>6
    <3>8. CASE next % Radix # 0
      <4>1. at'[next] = at[h] + PageSize
        BY <2>6, <3>4, <3>7, <3>8, Zenon
      <4> QED BY <2>6, <3>7, <4>1, Zenon DEF h
    <3>9. CASE next % Radix = 0
      <4>1. next \in h + 1 .. next
        BY <2>6, <3>6
      <4> QED BY <2>6, <3>9, <4>1, Zenon DEF h
    <3> QED BY <3>8, <3>9, Zenon
  <2>9. DmaFrame'
    <3>1. \A j \in 1 .. NetDma : /\ pos'.i # 2 * j + 1
                                 /\ pos'.i = 2 * j => j = n
      BY <2>2, <2>3
    <3> QED BY <2>1, <2>7, <2>8, <3>1, Zenon DEF DmaFrame
  <2>10. DmaJoined'
    <3> SUFFICES ASSUME NEW j \in 2 .. NetDma - 1, Passed(5, 5, 2 * j + 2)'
                 PROVE  Joined(Net, DmaStart + j - 1)'
      BY Zenon DEF DmaJoined
    <3>1. /\ j \in 1 .. NetDma /\ j + 1 \in 1 .. NetDma /\ 2 * (j + 1) = 2 * j + 2 /\ j \in Nat
          /\ DmaStart + (j + 1) - 1 = DmaStart + j - 1 + 1
      BY <2>3, Constants
    <3>2. Passed(5, 5, 2 * j + 2)
      BY <2>4, <3>1, Zenon
    <3>3. Passed(5, 5, 2 * j)
      <4>1. 2 * j + 2 < pos.i /\ pos.i \in Nat
        <5>1. 2 * j + 2 \in Nat \ {0}
          BY <3>1
        <5>2. 2 * j + 2 < pos.i
          BY <3>2, <5>1, <1>PassedLast, Zenon
        <5> QED BY <5>2 DEF PosOK
      <4> QED BY <3>1, <4>1 DEF Passed
    <3>4. page[Net][DmaStart + j - 1] # 0 /\ page[Net][DmaStart + j - 1 + 1] # 0
      BY <3>1, <3>2, <3>3, Zenon DEF PagesMapped
    <3>5. DmaStart + j - 1 \in Page /\ DmaStart + j - 1 + 1 \in Page
      BY <3>1, PagesBelow, Zenon
    <3>6. Joined(Net, DmaStart + j - 1)
      BY <3>2, Zenon DEF DmaOK, DmaJoined
    <3> QED BY <3>4, <3>5, <3>6, <1>JoinedSame, Zenon
  <2> QED BY <2>5, <2>9, <2>10, Zenon DEF DmaOK
<1>MapDma.
    ASSUME image \in Images, PosOK, AllocOK, HandOK, PageOK, PagesMapped, DmaOK, BootMap,
           NEW n \in 1 .. NetDma, pos.stage = 5, pos.part = 5, pos.i = 2 * n,
           Now = MapPage(Net, DmaStart + n - 1)
    PROVE  DmaOK'
  <2> USE <1>MapDma
  <2>1. /\ image' = image /\ hand' = hand /\ pts' = pts /\ pos.i <= Len(Part) /\ Done
        /\ next' = next /\ at' = at /\ water' = water
    BY Zenon DEF BootMap, Step, allocVars
  <2>2. pos'.stage = 5 /\ pos'.part = 5 /\ pos'.i = 2 * n + 1
    BY <2>1, DonePos, Zenon
  <2>3. NetDma \in Nat /\ Net \in Task /\ DmaStart \in Nat
    BY Constants DEF Net, Task
  <2>4. Now.t = Net /\ Now.x[1] = DmaStart + n - 1 /\ Now.x[2] = 1 /\ Now.op # "device"
    BY DEF MapPage
  <2>5. /\ page'[Net][DmaStart + n - 1] = hand[1]
        /\ \A p \in Page : p # DmaStart + n - 1 => page'[Net][p] = page[Net][p]
    BY <2>3, <2>4, MapsFrame, Zenon
  <2>6. DmaTables'
    <3>1. TablesOf(DmaStart + n - 1) \subseteq pts[Net]
      BY <2>4, Zenon DEF BootMap, Missing
    <3>2. TablesOf(DmaStart) \subseteq pts'[Net]
      BY <2>1, <3>1, <1>SameTables, Zenon
    <3> QED BY <3>2, Zenon DEF DmaTables, TablesOf
  <2>7. DmaFrame'
    <3>1. \A j \in 1 .. NetDma : /\ pos'.i # 2 * j
                                 /\ pos'.i = 2 * j + 1 => j = n
      BY <2>2, <2>3
    <3>2. n > 1 => LastFrame
      BY Zenon DEF DmaOK, DmaFrame
    <3>3. n > 1 => LastFrame'
      BY <2>1, <3>2, Zenon DEF LastFrame
    <3> QED BY <2>1, <2>5, <3>1, <3>3, Zenon DEF DmaFrame
  <2>8. DmaJoined'
    <3> SUFFICES ASSUME NEW j \in 2 .. NetDma - 1, Passed(5, 5, 2 * j + 2)'
                 PROVE  Joined(Net, DmaStart + j - 1)'
      BY Zenon DEF DmaJoined
    <3>1. /\ j \in 1 .. NetDma /\ j + 1 \in 1 .. NetDma /\ j \in Nat
          /\ DmaStart + (j + 1) - 1 = DmaStart + j - 1 + 1
          /\ 2 * j + 2 \in Nat \ {0}
      BY <2>3
    <3>2. DmaStart + j - 1 \in Page /\ DmaStart + j - 1 + 1 \in Page
      BY <3>1, PagesBelow, Zenon
    <3>3. Passed(5, 5, 2 * j + 2) \/ 2 * n = 2 * j + 2
      <4>1. 5 \in Nat /\ 2 * j + 2 \in Nat
        BY <3>1
      <4> QED BY <2>1, <4>1, DonePos, Zenon
    <3>4. CASE Passed(5, 5, 2 * j + 2)
      <4>1. 2 * j + 2 < 2 * n
        BY <3>1, <3>4, <1>PassedLast, Zenon
      <4>2. DmaStart + j - 1 # DmaStart + n - 1 /\ DmaStart + j - 1 + 1 # DmaStart + n - 1
        BY <2>3, <4>1
      <4>3. Joined(Net, DmaStart + j - 1)
        BY <3>4, Zenon DEF DmaOK, DmaJoined
      <4>4. /\ page'[Net][DmaStart + j - 1] = page[Net][DmaStart + j - 1]
            /\ page'[Net][DmaStart + j - 1 + 1] = page[Net][DmaStart + j - 1 + 1]
        BY <2>5, <3>2, <4>2, Zenon
      <4> QED BY <2>1, <4>3, <4>4, Zenon DEF Joined
    <3>5. CASE 2 * n = 2 * j + 2
      <4>1. n = j + 1 /\ n > 2 /\ DmaStart + j - 1 = DmaStart + n - 2
        BY <2>3, <3>5
      <4>2. /\ DmaStart + j - 1 # DmaStart + n - 1 /\ DmaStart + j - 1 + 1 = DmaStart + n - 1
        BY <2>3, <4>1
      <4>3. \/ at[hand[1]] = at[page[Net][DmaStart + j - 1]] + PageSize
            \/ \E s \in page[Net][DmaStart + j - 1] + 1 .. hand[1] : s % Radix = 0
        BY <4>1, Zenon DEF DmaOK, DmaFrame
      <4>4. /\ page'[Net][DmaStart + j - 1] = page[Net][DmaStart + j - 1]
            /\ page'[Net][DmaStart + j - 1 + 1] = hand[1]
        BY <2>5, <3>2, <4>2, Zenon
      <4> QED BY <2>1, <4>3, <4>4, Zenon DEF Joined
    <3> QED BY <3>3, <3>4, <3>5
  <2> QED BY <2>6, <2>7, <2>8, Zenon DEF DmaOK
<1>1. image' = image /\ PosOK' /\ \A t \in Task : pts[t] \subseteq pts'[t]
  BY StepPos, TablesStep, Zenon
<1>2. Net \in Task /\ NetDma \in Nat /\ pos.i \in Nat /\ pos'.i \in Nat
  <2>1. pos'.i \in Nat \ {0}
    BY <1>1 DEF PosOK
  <2> QED BY <2>1, Constants DEF Net, Task, PosOK
<1>3. CASE ~(pos'.stage = 5 /\ pos'.part = 5 /\ pos'.i > 1)
  <2>1. \A i \in Nat \ {0} : ~Passed(5, 5, i)'
    <3> SUFFICES ASSUME NEW i \in Nat \ {0}, Passed(5, 5, i)' PROVE FALSE
      OBVIOUS
    <3>1. pos'.stage = 5 /\ pos'.part = 5 /\ i < pos'.i
      <4>1. Len(Script(image)[5]) = 5
        BY Parts, Zenon
      <4>2. pos'.stage \in 1 .. 5 /\ pos'.part \in Nat /\ pos'.i \in Nat
        BY <1>1 DEF PosOK
      <4>3. pos'.stage = 5 => pos'.part <= 5
        BY <1>1, <4>1, Zenon DEF PosOK
      <4> QED BY <4>2, <4>3 DEF Passed
    <3> QED BY <1>2, <1>3, <3>1
  <2>2. \A j \in 1 .. NetDma : 2 * j \in Nat \ {0} /\ 2 * j + 2 \in Nat \ {0} /\ j \in Nat
                               /\ 2 * j > 1 /\ 2 * j + 1 > 1
    BY <1>2
  <2>3. \A j \in 2 .. NetDma - 1 : j \in 1 .. NetDma
    BY <1>2
  <2>4. DmaTables' /\ DmaJoined'
    BY <2>1, <2>2, <2>3, Zenon DEF DmaTables, DmaJoined
  <2>5. DmaFrame'
    BY <1>3, <2>2, Zenon DEF DmaFrame
  <2> QED BY <2>4, <2>5, Zenon DEF DmaOK
<1>4. CASE pos' = pos /\ pos.stage = 5 /\ pos.part = 5 /\ BootMissingTable
  <2>1. pos.i <= Len(Part) /\ (Now.op = "map_page" \/ Now.op = "device") /\ Missing # {}
    BY <1>4, Zenon DEF BootMissingTable, Step
  <2>2. PICK n \in 1 .. NetDma : \/ pos.i = 2 * n - 1 /\ Now = Take(1)
                                 \/ pos.i = 2 * n /\ Now = MapPage(Net, DmaStart + n - 1)
    BY <1>4, <2>1, <1>DmaEntry, Zenon
  <2>3. /\ pos.i = 2 * n
        /\ Now.t = Net /\ Now.x[1] = DmaStart + n - 1 /\ Now.op # "device"
    BY <2>1, <2>2 DEF Take, MapPage
  <2>4. ~(TablesOf(DmaStart) \subseteq pts[Net])
    <3>1. ~(TablesOf(DmaStart + n - 1) \subseteq pts[Net])
      <4>1. Missing = TablesOf(DmaStart + n - 1) \ pts[Net]
        BY <2>3, Zenon DEF Missing
      <4> QED BY <2>1, <4>1, Zenon
    <3> QED BY <3>1, <1>SameTables, Zenon
  <2>5. n = 1
    <3> SUFFICES ASSUME n # 1 PROVE FALSE
      OBVIOUS
    <3>1. 1 \in 1 .. NetDma /\ Passed(5, 5, 2 * 1)
      BY <1>2, <1>4, <2>3 DEF Passed
    <3> QED BY <2>4, <3>1, Zenon DEF DmaOK, DmaTables
  <2>6. \A j \in 1 .. NetDma : /\ pos'.i # 2 * j + 1 /\ (pos'.i = 2 * j => ~(j > 1) /\ ~(j > 2))
    BY <1>2, <1>4, <2>3, <2>5
  <2>7. DmaFrame'
    BY <2>6, Zenon DEF DmaFrame
  <2>8. DmaTables'
    BY <1>1, <1>2, <1>4, Zenon DEF DmaOK, DmaTables, Passed
  <2>9. \A j \in 2 .. NetDma - 1 : ~Passed(5, 5, 2 * j + 2)'
    <3> SUFFICES ASSUME NEW j \in 2 .. NetDma - 1 PROVE ~Passed(5, 5, 2 * j + 2)'
      OBVIOUS
    <3> QED BY <1>2, <1>4, <2>3, <2>5 DEF Passed
  <2> QED BY <2>7, <2>8, <2>9, Zenon DEF DmaOK, DmaJoined
<1>5. CASE BootDone
  <2>1. /\ pos' = pos /\ hand' = hand /\ page' = page /\ pts' = pts
        /\ next' = next /\ at' = at /\ water' = water
    BY <1>5, Zenon DEF BootDone, memVars, allocVars
  <2>2. (LastFrame <=> LastFrame') /\ \A p : Joined(Net, p) => Joined(Net, p)'
    BY <2>1, Zenon DEF LastFrame, Joined
  <2>3. \A i : Passed(5, 5, i)' <=> Passed(5, 5, i)
    BY <2>1, Zenon DEF Passed
  <2>4. DmaTables' /\ DmaJoined'
    BY <2>1, <2>2, <2>3, Zenon DEF DmaOK, DmaTables, DmaJoined
  <2>5. DmaFrame'
    BY <2>1, <2>2, Zenon DEF DmaOK, DmaFrame
  <2> QED BY <2>4, <2>5, Zenon DEF DmaOK
<1>6. CASE DoneStep /\ pos.stage = 5 /\ pos.part = 5
  <2>1. PICK n \in 1 .. NetDma : \/ pos.i = 2 * n - 1 /\ Now = Take(1)
                                 \/ pos.i = 2 * n /\ Now = MapPage(Net, DmaStart + n - 1)
    BY <1>6, <1>DmaEntry, Zenon DEF DoneStep
  <2>2. Take(1).op = "take" /\ MapPage(Net, DmaStart + n - 1).op = "map_page"
    BY DEF Take, MapPage
  <2>3. CASE pos.i = 2 * n - 1 /\ Now = Take(1)
    BY <1>6, <2>2, <2>3, <1>TakeDma, Zenon DEF DoneStep
  <2>4. CASE pos.i = 2 * n /\ Now = MapPage(Net, DmaStart + n - 1)
    BY <1>6, <2>2, <2>4, <1>MapDma, Zenon DEF DoneStep
  <2> QED BY <2>1, <2>3, <2>4
<1>7. ASSUME pos'.stage = 5, pos'.part = 5, pos'.i > 1
      PROVE  \/ pos' = pos /\ pos.stage = 5 /\ pos.part = 5 /\ BootMissingTable
             \/ BootDone
             \/ DoneStep /\ pos.stage = 5 /\ pos.part = 5
  <2>1. ~BootNext
    <3>1. ~(1 > 1)
      OBVIOUS
    <3> QED BY <1>7, <3>1, NextPos, Zenon
  <2>2. CASE BootMissingTable
    BY <1>7, <2>2, Zenon DEF BootMissingTable
  <2>3. CASE DoneStep
    BY <1>1, <1>7, <2>3, DonePos, Zenon DEF DoneStep
  <2> QED BY <2>1, <2>2, <2>3, BootCases, Zenon
<1> QED BY <1>3, <1>4, <1>5, <1>6, <1>7, Zenon

(* The invariant.                                                          *)

LEMMA MemInit == BootInit => MemInv
<1> SUFFICES ASSUME BootInit PROVE MemInv
  OBVIOUS
<1>1. /\ image \in Images /\ AllocInit /\ pos.stage = 1 /\ pos.part = 1 /\ pos.i = 1
      /\ hand = <<>> /\ data = {} /\ pts = [t \in Task |-> {}]
      /\ page = [t \in Task |-> [p \in Page |-> 0]]
      /\ pos \in [stage: 1 .. 5, part: Nat \ {0}, i: Nat \ {0}]
  BY DEF BootInit
<1>2. PosOK
  <2>1. Len(Script(image)[1]) = 1 /\ Len(PartOf(1, 1)) = 4
    BY Parts, RootLengths, Zenon
  <2>2. 1 <= 1 /\ 1 <= 4 + 1
    OBVIOUS
  <2> QED BY <1>1, <2>1, <2>2, Zenon DEF PosOK
<1>3. AllocOK
  <2>1. AllocInv
    BY <1>1, AllocInitInv, Zenon
  <2>2. next = SlotFirst /\ cnodes = {0}
    BY <1>1, Zenon DEF AllocInit
  <2>3. next = SlotFirst + pos.i - 1 /\ SlotFirst \div Radix = 0
    <3>1. Radix \in Nat \ {0} /\ SlotFirst \in 0 .. Radix - 1 /\ 0 \in Nat
      BY AllocatorAssumption
    <3>2. (0 * Radix + SlotFirst) \div Radix = 0
      BY <3>1, Quotient, Zenon
    <3>3. 0 * Radix + SlotFirst = SlotFirst
      BY <3>1
    <3>4. SlotFirst = SlotFirst + 1 - 1
      BY <3>1
    <3> QED BY <1>1, <2>2, <3>2, <3>3, <3>4, Zenon
  <2> QED BY <2>1, <2>2, <2>3, Zenon DEF AllocOK, NodeReady
<1>4. \A s, p \in Nat, i \in Nat \ {0} : s > 1 => ~Passed(s, p, i)
  BY <1>1 DEF Passed
<1>5. \A t \in Task : pos.stage # t + 2
  BY <1>1, TaskStages, Zenon
<1>6. pos.stage # 5 /\ pos.stage \notin 2 .. 4
  BY <1>1
<1>7. HandOK
  <2>1. hand \in Seq(Slot) /\ \A k \in 1 .. Len(hand) : hand[k] < next
    BY <1>1
  <2> QED BY <1>5, <1>6, <2>1, Zenon DEF HandOK
<1>8. PageOK
  <2>1. 0 < next
    BY <1>1, AllocatorAssumption DEF AllocInit
  <2>2. page \in [Task -> [Page -> Slot \cup {0}]]
    BY <1>1
  <2>3. \A t \in Task : \A p \in Page : page[t][p] = 0
    BY <1>1
  <2> QED BY <2>1, <2>2, <2>3, Zenon DEF PageOK
<1>9. /\ \A t \in Task : \A p \in {2, 3, 6, 9} : \A i \in Nat \ {0} : ~Passed(t + 2, p, i)
      /\ \A p \in {3, 5} : \A i \in Nat \ {0} : ~Passed(5, p, i)
  <2>1. \A t \in Task : t + 2 \in Nat /\ t + 2 > 1
    BY DEF Task
  <2>2. 5 \in Nat /\ 5 > 1 /\ {2, 3, 6, 9} \subseteq Nat /\ {3, 5} \subseteq Nat
    OBVIOUS
  <2> QED BY <1>4, <2>1, <2>2, Zenon
<1>10. /\ \A n, i : i \in 1 .. n => i \in Nat \ {0}
       /\ \A n, i : i \in 1 .. n => 2 * i \in Nat \ {0}
       /\ \A n, i : i \in 2 .. n - 1 => 2 * i + 2 \in Nat \ {0}
  OBVIOUS
<1>11. TablesMade
  BY <1>1, <1>9, <1>10, Zenon DEF TablesMade
<1>12. PagesMapped
  BY <1>9, <1>10, Zenon DEF PagesMapped
<1>13. DataOK
  BY <1>1, <1>5, <1>9, <1>10, Zenon DEF DataOK, DataTyped, FramesFilled, FramesLoaded
<1>14. DmaOK
  BY <1>6, <1>9, <1>10, Zenon DEF DmaOK, DmaTables, DmaFrame, DmaJoined
<1> QED BY <1>1, <1>2, <1>3, <1>7, <1>8, <1>11, <1>12, <1>13, <1>14, Zenon DEF MemInv

LEMMA MemStep == MemInv /\ Boot => MemInv'
  BY StepPos, BootAllocates, HandStep, PageStep, TablesStep, MappedStep, DataStep, DmaStep, Zenon
  DEF MemInv

\* What the root task does once the tasks run leaves their memory alone.
LEMMA MemSame == MemInv /\ UNCHANGED <<allocVars, memVars>> => MemInv'
<1> SUFFICES ASSUME MemInv, UNCHANGED <<allocVars, memVars>> PROVE MemInv'
  OBVIOUS
<1>1. /\ image' = image /\ pos' = pos /\ hand' = hand /\ data' = data /\ page' = page /\ pts' = pts
      /\ next' = next /\ at' = at /\ water' = water /\ cnodes' = cnodes /\ UNCHANGED allocVars
  BY Zenon DEF memVars, allocVars
<1>2. /\ \A t : First(t)' = First(t) /\ Frames(t)' = Frames(t)
      /\ \A t, span : TableCount(t, span)' = TableCount(t, span)
      /\ \A s, p : PartOf(s, p)' = PartOf(s, p)
  BY <1>1, SameImage, Zenon
<1>3. \A s, p, i : Passed(s, p, i)' <=> Passed(s, p, i)
  BY <1>1, Zenon DEF Passed
<1>4. image' \in Images /\ PosOK'
  BY <1>1, <1>2, Zenon DEF MemInv, PosOK
<1>5. AllocOK'
  BY <1>1, AllocSame, Zenon DEF MemInv, AllocOK, NodeReady
<1>6. HandOK' /\ PageOK'
  BY <1>1, <1>2, Zenon DEF MemInv, HandOK, PageOK
<1>7. TablesMade' /\ PagesMapped'
  BY <1>1, <1>2, <1>3, Zenon DEF MemInv, TablesMade, PagesMapped
<1>8. DataOK'
  <2>1. \A k : Unshared(k) => Unshared(k)'
    BY <1>1, Zenon DEF Unshared
  <2> QED BY <1>1, <1>2, <1>3, <2>1, Zenon DEF MemInv, DataOK, DataTyped, FramesFilled, FramesLoaded
<1>9. DmaOK'
  <2>1. (LastFrame <=> LastFrame') /\ \A p : Joined(Net, p) => Joined(Net, p)'
    BY <1>1, Zenon DEF LastFrame, Joined
  <2> QED BY <1>1, <1>3, <2>1, Zenon DEF MemInv, DmaOK, DmaTables, DmaFrame, DmaJoined
<1> QED BY <1>4, <1>5, <1>6, <1>7, <1>8, <1>9, Zenon DEF MemInv

=============================================================================
