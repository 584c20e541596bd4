-------------------------- MODULE RootBudgetProofs --------------------------
(***************************************************************************)
(* The slots and the memory that the start-up of the root task takes.      *)
(***************************************************************************)
EXTENDS RootBootProofs

(* The budget: the slots that the rest of the script takes at most, and    *)
(* the memory that what was allocated takes at most.                       *)

\* The memory in use when n is the next slot and k of the objects are CNodes.
MemUsed(n, k) == MemNeeded(n - SlotFirst, k + ((n - 1) \div Radix))

\* Aligning leaves a gap that is smaller than the object.
LEMMA Gap ==
  ASSUME NEW w \in Nat, NEW n \in Nat \ {0}
  PROVE  AlignUp(w, n) \in Nat /\ AlignUp(w, n) + n <= w + 2 * n
<1> DEFINE q == (w + n - 1) \div n
           r == (w + n - 1) % n
<1>1. w + n - 1 \in Nat
  OBVIOUS
<1>2. q \in Nat /\ r \in 0 .. n - 1 /\ w + n - 1 = n * q + r
  BY <1>1, Division, Zenon
<1> HIDE DEF q, r
<1>3. q * n \in Nat /\ q * n = n * q
  BY <1>2
<1>4. q * n + n <= w + 2 * n
  BY <1>2, <1>3
<1> QED BY <1>3, <1>4, Zenon DEF AlignUp, q

\* A slot costs a CNode when it is the first one of it.
LEMMA SlotCost ==
  ASSUME next \in Nat \ {0}, water \in Nat
  PROVE  /\ (next - 1) \div Radix \in Nat /\ next \div Radix \in Nat
         /\ SlotWater \in Nat
         /\ SlotWater + 2 * CNodeSize * ((next - 1) \div Radix)
              <= water + 2 * CNodeSize * (next \div Radix)
<1> DEFINE q == (next - 1) \div Radix
           r == (next - 1) % Radix
           d == next \div Radix
           c == 2 * CNodeSize
<1>1. /\ Radix \in Nat \ {0} /\ CNodeSize \in Nat \ {0} /\ c \in Nat
      /\ next - 1 \in Nat /\ next - 1 <= next /\ next \in Nat
  BY AllocatorAssumption
<1>2. q \in Nat /\ d \in Nat /\ q <= d
  BY <1>1, DivMonotone, Zenon
<1>3. NeedsCNode => d = q + 1
  <2> SUFFICES ASSUME next % Radix = 0
               PROVE  d = q + 1
    BY Zenon DEF NeedsCNode
  <2>1. r \in 0 .. Radix - 1 /\ next - 1 = Radix * q + r
    BY <1>1, Division, Zenon
  <2> HIDE DEF q, r, d
  <2>3. r \in Nat /\ r <= Radix - 1
    <3>1. r \in 0 .. Radix - 1
      BY <2>1, Zenon
    <3> QED BY <1>1, <3>1
  <2>4. CASE r + 1 = Radix
    <3>1. (q + 1) * Radix + 0 = next /\ q + 1 \in Nat /\ 0 \in 0 .. Radix - 1
      <4>1. (q + 1) * Radix = Radix * q + Radix
        BY <1>1, <1>2
      <4> QED BY <1>1, <1>2, <2>1, <2>4, <4>1
    <3>2. ((q + 1) * Radix + 0) \div Radix = q + 1
      BY <1>1, <3>1, Quotient, Zenon
    <3> QED BY <3>1, <3>2, Zenon DEF d
  <2>5. CASE r + 1 \in 0 .. Radix - 1
    <3>1. q * Radix + (r + 1) = next
      <4>1. q * Radix = Radix * q /\ q * Radix \in Nat
        BY <1>1, <1>2
      <4>2. next - 1 = q * Radix + r
        BY <2>1, <4>1, Zenon
      <4>3. \A m \in Nat : next - 1 = m + r => m + (r + 1) = next
        BY <1>1, <2>3
      <4> QED BY <4>1, <4>2, <4>3, Zenon
    <3>2. (q * Radix + (r + 1)) % Radix = r + 1
      BY <1>1, <1>2, <2>5, Quotient, Zenon
    <3>3. r + 1 = 0
      BY <3>1, <3>2, Zenon
    <3>4. r + 1 # 0
      BY <2>3
    <3> QED BY <3>3, <3>4, Zenon
  <2>6. r + 1 = Radix \/ r + 1 \in 0 .. Radix - 1
    BY <1>1, <2>3
  <2> QED BY <2>4, <2>5, <2>6, Zenon
<1> HIDE DEF q, r, d
<1>4. AlignUp(water, CNodeSize) \in Nat /\ AlignUp(water, CNodeSize) + CNodeSize <= water + c
  BY <1>1, Gap, Zenon
<1> HIDE DEF c
<1>5. CASE NeedsCNode
  <2>1. SlotWater = AlignUp(water, CNodeSize) + CNodeSize
    BY <1>5, Zenon DEF SlotWater
  <2>2. c * d = c * q + c /\ c * q \in Nat
    BY <1>1, <1>2, <1>3, <1>5
  <2>3. SlotWater \in Nat /\ SlotWater + c * q <= water + c * d
    BY <1>1, <1>4, <2>1, <2>2
  <2> QED BY <1>2, <2>3, Zenon DEF q, d, c
<1>6. CASE ~NeedsCNode
  <2>1. SlotWater = water
    BY <1>6, Zenon DEF SlotWater
  <2>2. q * c \in Nat /\ d * c \in Nat /\ q * c <= d * c
    BY <1>1, <1>2, TimesMonotone, Zenon
  <2>3. c * q = q * c /\ c * d = d * c
    BY <1>1, <1>2
  <2>4. SlotWater \in Nat /\ SlotWater + c * q <= water + c * d
    BY <2>1, <2>2, <2>3
  <2> QED BY <1>2, <2>4, Zenon DEF q, d, c
<1> QED BY <1>5, <1>6

\* What an allocation may add.
LEMMA MemGrows ==
  ASSUME next \in Nat \ {0}, SlotFirst <= next, water \in Nat, NEW k \in Nat,
         water <= MemUsed(next, k)
  PROVE  /\ MemUsed(next + 1, k) \in Nat /\ MemUsed(next + 1, k + 1) \in Nat
         /\ SlotWater + 2 * PageSize <= MemUsed(next + 1, k)
         /\ water + 2 * PageSize <= MemUsed(next + 1, k)
         /\ MemUsed(next + 1, k + 1) = MemUsed(next + 1, k) + 2 * CNodeSize
<1> DEFINE g == 2 * PageSize
           c == 2 * CNodeSize
           n == next - SlotFirst
           q == (next - 1) \div Radix
           d == next \div Radix
<1>1. PageSize \in Nat /\ CNodeSize \in Nat /\ SlotFirst \in Nat /\ Radix \in Nat \ {0}
  BY Constants, AllocatorAssumption
<1>2. /\ g \in Nat /\ c \in Nat /\ n \in Nat
      /\ (next + 1) - SlotFirst = n + 1 /\ (next + 1) - 1 = next
  BY <1>1
<1>3. q \in Nat /\ d \in Nat /\ SlotWater \in Nat /\ SlotWater + c * q <= water + c * d
  BY SlotCost, Zenon
<1>4. q <= d
  <2>1. next - 1 \in Nat /\ next \in Nat /\ next - 1 <= next
    OBVIOUS
  <2> QED BY <1>1, <2>1, DivMonotone, Zenon
<1>5. /\ MemUsed(next, k) = g * n + c * (k + q)
      /\ MemUsed(next + 1, k) = g * (n + 1) + c * (k + d)
      /\ MemUsed(next + 1, k + 1) = g * (n + 1) + c * (k + 1 + d)
  BY <1>2, Zenon DEF MemUsed, MemNeeded
<1> HIDE DEF g, c, n, q, d
<1>6. /\ g * (n + 1) = g * n + g /\ g * n \in Nat
      /\ c * (k + q) = c * k + c * q /\ c * (k + d) = c * k + c * d
      /\ c * (k + 1 + d) = c * k + c * d + c
      /\ c * k \in Nat /\ c * q \in Nat /\ c * d \in Nat
  BY <1>2, <1>3
<1>7. c * q <= c * d
  <2>1. q * c <= d * c
    BY <1>2, <1>3, <1>4, TimesMonotone, Zenon
  <2> QED BY <1>2, <1>3, <2>1
<1>8. /\ MemUsed(next + 1, k) \in Nat /\ MemUsed(next + 1, k + 1) \in Nat
      /\ SlotWater + g <= MemUsed(next + 1, k)
      /\ water + g <= MemUsed(next + 1, k)
      /\ MemUsed(next + 1, k + 1) = MemUsed(next + 1, k) + c
  BY <1>2, <1>3, <1>5, <1>6, <1>7
<1> QED BY <1>8, Zenon DEF g, c

\* What is in use stays below what the start-up needs.
LEMMA MemLimit ==
  ASSUME NEW n \in Nat \ {0}, NEW end \in Nat, NEW k \in 0 .. 7, SlotFirst <= n, n <= end
  PROVE  /\ MemUsed(n, k) \in Nat /\ MemNeeded(end - SlotFirst, 7 + (end \div Radix)) \in Nat
         /\ MemUsed(n, k) <= MemNeeded(end - SlotFirst, 7 + (end \div Radix))
<1> DEFINE g == 2 * PageSize
           c == 2 * CNodeSize
           x == n - SlotFirst
           y == end - SlotFirst
           u == k + ((n - 1) \div Radix)
           v == 7 + (end \div Radix)
<1>1. PageSize \in Nat /\ CNodeSize \in Nat /\ SlotFirst \in Nat /\ Radix \in Nat \ {0}
  BY Constants, AllocatorAssumption
<1>2. g \in Nat /\ c \in Nat /\ x \in Nat /\ y \in Nat /\ x <= y
  BY <1>1
<1>3. u \in Nat /\ v \in Nat /\ u <= v
  <2>1. n - 1 \in Nat /\ n - 1 <= end
    OBVIOUS
  <2>2. /\ (n - 1) \div Radix \in Nat /\ end \div Radix \in Nat
        /\ (n - 1) \div Radix <= end \div Radix
    BY <1>1, <2>1, DivMonotone, Zenon
  <2> QED BY <2>2
<1>4. MemUsed(n, k) = g * x + c * u /\ MemNeeded(y, v) = g * y + c * v
  BY Zenon DEF MemUsed, MemNeeded
<1> HIDE DEF g, c, x, y, u, v
<1>5. /\ x * g \in Nat /\ y * g \in Nat /\ x * g <= y * g
      /\ u * c \in Nat /\ v * c \in Nat /\ u * c <= v * c
  BY <1>2, <1>3, TimesMonotone, Zenon
<1>6. g * x = x * g /\ g * y = y * g /\ c * u = u * c /\ c * v = v * c
  BY <1>2, <1>3
<1>7. MemUsed(n, k) \in Nat /\ MemNeeded(y, v) \in Nat /\ MemUsed(n, k) <= MemNeeded(y, v)
  BY <1>4, <1>5, <1>6
<1> QED BY <1>7, Zenon DEF y, v

\* The slots that MapPages takes from entry i on: one for a frame, two for the
\* tables of its page.
PagesLeft(n, i) == 3 * n - ((3 * (i - 1)) \div 2)

\* Those that PrepareBlk and PrepareNet take: two objects, the device and its
\* upper table.
PrepareLeft(i) == IF i <= 2 THEN 5 - i ELSE IF i <= 6 THEN 2 ELSE 8 - i

\* Those that building a task takes from entry i of part p on.
BuildLeft(t, p, i) ==
  LET upper  == TableCount(t, UpSpan)
      last   == TableCount(t, PtSpan)
      behind == 2 + 3 * StackPages
  IN  IF p = 1 THEN 4 - i + upper + last + Frames(t) + behind
      ELSE IF p = 2 THEN upper + 1 - i + last + Frames(t) + behind
      ELSE IF p = 3 THEN last + 1 - i + Frames(t) + behind
      ELSE IF p = 4 THEN Frames(t) + 1 - i + behind
      ELSE IF p \in {5, 6} THEN behind
      ELSE IF p = 7 THEN (IF i = 1 THEN 2 ELSE IF i <= 3 THEN 1 ELSE 0) + 3 * StackPages
      ELSE IF p = 8 THEN 3 * StackPages
      ELSE PagesLeft(StackPages, i)

LastLeft(p, i) ==
  IF p = 1 THEN 8 + 3 * BlkDma + 3 * NetDma
  ELSE IF p = 2 THEN PrepareLeft(i) + 3 * BlkDma + 4 + 3 * NetDma
  ELSE IF p = 3 THEN PagesLeft(BlkDma, i) + 4 + 3 * NetDma
  ELSE IF p = 4 THEN PrepareLeft(i) + 3 * NetDma
  ELSE PagesLeft(NetDma, i)

\* Those that are needed once task t is built.
Later(t) ==
  8 + 3 * (BlkDma + NetDma) + (IF t = Kernel THEN TaskSlots(image[Blk]) ELSE 0)
    + (IF t \in {Kernel, Blk} THEN TaskSlots(image[Net]) ELSE 0)

Left(s, p, i) ==
  IF s = 1 THEN 5 - i + TaskSlots(image[Kernel]) + Later(Kernel)
  ELSE IF s = 5 THEN LastLeft(p, i)
  ELSE BuildLeft(s - 2, p, i) + Later(s - 2)

\* The CNodes among the objects made before entry i of part p of stage s.
NodesMade(s, p, i) ==
  IF s = 1 THEN (IF i = 1 THEN 0 ELSE 1)
  ELSE IF s = 5 THEN 7
  ELSE 2 * (s - 2) + 1 + (IF p = 1 /\ i <= 2 THEN i - 1 ELSE 2)

\* The slots an entry takes at most.
Cost ==
  IF Now.op = "map_page" THEN 2
  ELSE IF Now.op \in {"copy", "frame_map", "give"} THEN 0 ELSE 1

\* A CNode is made by this entry, or an object that is no larger than a page.
Counted(k, m) ==
  /\ Now.op = "origin" => Now.x = CNodeSize /\ m = k + 1
  /\ Now.op = "object" =>
       \/ Now.x = CNodeSize /\ m = k + 1
       \/ Now.x \in {PageSize, TcbSize, SmallSize} /\ m = k
  /\ Now.op \notin {"origin", "object"} => m = k

LEMMA Counts ==
  ASSUME image \in Images, NEW t \in Task
  PROVE  /\ TableCount(t, UpSpan) \in Nat /\ TableCount(t, PtSpan) \in Nat /\ Frames(t) \in Nat
         /\ StackPages \in Nat /\ BlkDma \in Nat /\ NetDma \in Nat
         /\ TaskSlots(image[t]) \in Nat
         /\ TaskSlots(image[t]) = BuildLeft(t, 1, 1)
         /\ Later(t) \in Nat
<1>1. ASSUME NEW u \in Task
      PROVE  /\ TableCount(u, UpSpan) \in Nat /\ TableCount(u, PtSpan) \in Nat /\ Frames(u) \in Nat
             /\ TaskSlots(image[u]) =
                  5 + TableCount(u, UpSpan) + TableCount(u, PtSpan) + Frames(u) + 3 * StackPages
  BY TaskLengths, Zenon DEF TaskSlots, TablesFor, TableCount, Frames, First, End
<1>2. StackPages \in Nat /\ BlkDma \in Nat /\ NetDma \in Nat
  BY Constants, Zenon
<1>3. \A u \in Task : TaskSlots(image[u]) \in Nat /\ TaskSlots(image[u]) = BuildLeft(u, 1, 1)
  BY <1>1, <1>2 DEF BuildLeft
<1>4. Blk \in Task /\ Net \in Task
  BY DEF Blk, Net, Task
<1>5. TaskSlots(image[Blk]) \in Nat /\ TaskSlots(image[Net]) \in Nat
  BY <1>3, <1>4, Zenon
<1>6. Later(t) \in Nat
  BY <1>2, <1>5 DEF Later
<1> QED BY <1>1, <1>2, <1>3, <1>6, Zenon

\* What an entry costs, by its kind.
LEMMA EntryCost ==
  /\ Now.op \in {"origin", "object", "normal", "slot", "device", "table", "take"} => Cost = 1
  /\ Now.op \in {"copy", "frame_map", "give"} => Cost = 0
  /\ \A k : Now.op \notin {"origin", "object"} => Counted(k, k)
  /\ \A k : Now.op = "object" /\ Now.x \in {PageSize, TcbSize, SmallSize} => Counted(k, k)
  /\ \A k : Now.op = "object" /\ Now.x = CNodeSize => Counted(k, k + 1)
<1>1. /\ Now.op \in {"origin", "object", "normal", "slot", "device", "table", "take"} => Cost = 1
      /\ Now.op \in {"copy", "frame_map", "give"} => Cost = 0
  BY DEF Cost
<1>2. \A k : Now.op \notin {"origin", "object"} => Counted(k, k)
  BY Zenon DEF Counted
<1>3. \A k : Now.op = "object" /\ Now.x \in {PageSize, TcbSize, SmallSize} => Counted(k, k)
  BY Zenon DEF Counted
<1>4. \A k : Now.op = "object" /\ Now.x = CNodeSize => Counted(k, k + 1)
  BY Zenon DEF Counted
<1> QED BY <1>1, <1>2, <1>3, <1>4, Zenon

LEMMA NodesOf ==
  ASSUME NEW t \in Task
  PROVE  /\ NodesMade(t + 2, 1, 1) = 2 * t + 1 /\ NodesMade(t + 2, 1, 2) = 2 * t + 2
         /\ \A i \in Nat : i > 2 => NodesMade(t + 2, 1, i) = 2 * t + 3
         /\ \A p, i : p # 1 => NodesMade(t + 2, p, i) = 2 * t + 3
<1>1. t \in Nat /\ t + 2 # 1 /\ t + 2 # 5
  BY TaskStages, Zenon
<1>2. NodesMade(t + 2, 1, 1) = 2 * t + 1 /\ NodesMade(t + 2, 1, 2) = 2 * t + 2
  BY <1>1 DEF NodesMade
<1>3. \A i \in Nat : i > 2 => NodesMade(t + 2, 1, i) = 2 * t + 3
  BY <1>1 DEF NodesMade
<1>4. \A p, i : p # 1 => NodesMade(t + 2, p, i) = 2 * t + 3
  BY <1>1 DEF NodesMade
<1> QED BY <1>2, <1>3, <1>4, Zenon

LEMMA NodesRange ==
  ASSUME NEW s \in 1 .. 5, NEW p, NEW i \in Nat \ {0}
  PROVE  NodesMade(s, p, i) \in 0 .. 7
<1>1. CASE s = 1 \/ s = 5
  BY <1>1 DEF NodesMade
<1>2. CASE s \in 2 .. 4
  <2>1. (IF p = 1 /\ i <= 2 THEN i - 1 ELSE 2) \in 0 .. 2
    OBVIOUS
  <2>2. s # 1 /\ s # 5
    BY <1>2
  <2>3. NodesMade(s, p, i) = 2 * (s - 2) + 1 + (IF p = 1 /\ i <= 2 THEN i - 1 ELSE 2)
    BY <2>2, Zenon DEF NodesMade
  <2> QED BY <1>2, <2>1, <2>3
<1> QED BY <1>1, <1>2

\* The slots that are left to build a task, from an entry to the next one.
LEMMA BuildFalls ==
  ASSUME image \in Images, NEW t \in Task, NEW i \in Nat
  PROVE  /\ i \in 1 .. 3 =>
              BuildLeft(t, 1, i) = BuildLeft(t, 1, i + 1) + 1 /\ BuildLeft(t, 1, i + 1) \in Nat
         /\ i \in 1 .. TableCount(t, UpSpan) =>
              BuildLeft(t, 2, i) = BuildLeft(t, 2, i + 1) + 1 /\ BuildLeft(t, 2, i + 1) \in Nat
         /\ i \in 1 .. TableCount(t, PtSpan) =>
              BuildLeft(t, 3, i) = BuildLeft(t, 3, i + 1) + 1 /\ BuildLeft(t, 3, i + 1) \in Nat
         /\ i \in 1 .. Frames(t) =>
              BuildLeft(t, 4, i) = BuildLeft(t, 4, i + 1) + 1 /\ BuildLeft(t, 4, i + 1) \in Nat
         /\ \A p \in {5, 6, 8} :
              BuildLeft(t, p, i) = BuildLeft(t, p, i + 1) + 0 /\ BuildLeft(t, p, i + 1) \in Nat
         /\ i \in {1, 3} =>
              BuildLeft(t, 7, i) = BuildLeft(t, 7, i + 1) + 1 /\ BuildLeft(t, 7, i + 1) \in Nat
         /\ i = 2 =>
              BuildLeft(t, 7, i) = BuildLeft(t, 7, i + 1) + 0 /\ BuildLeft(t, 7, i + 1) \in Nat
<1>1. /\ TableCount(t, UpSpan) \in Nat /\ TableCount(t, PtSpan) \in Nat /\ Frames(t) \in Nat
      /\ StackPages \in Nat
  BY Counts, Zenon
<1>2. i \in 1 .. 3 =>
        BuildLeft(t, 1, i) = BuildLeft(t, 1, i + 1) + 1 /\ BuildLeft(t, 1, i + 1) \in Nat
  BY <1>1 DEF BuildLeft
<1>3. i \in 1 .. TableCount(t, UpSpan) =>
        BuildLeft(t, 2, i) = BuildLeft(t, 2, i + 1) + 1 /\ BuildLeft(t, 2, i + 1) \in Nat
  BY <1>1 DEF BuildLeft
<1>4. i \in 1 .. TableCount(t, PtSpan) =>
        BuildLeft(t, 3, i) = BuildLeft(t, 3, i + 1) + 1 /\ BuildLeft(t, 3, i + 1) \in Nat
  BY <1>1 DEF BuildLeft
<1>5. i \in 1 .. Frames(t) =>
        BuildLeft(t, 4, i) = BuildLeft(t, 4, i + 1) + 1 /\ BuildLeft(t, 4, i + 1) \in Nat
  BY <1>1 DEF BuildLeft
<1>6. \A p \in {5, 6, 8} :
        BuildLeft(t, p, i) = BuildLeft(t, p, i + 1) + 0 /\ BuildLeft(t, p, i + 1) \in Nat
  BY <1>1 DEF BuildLeft
<1>7. i \in {1, 3} =>
        BuildLeft(t, 7, i) = BuildLeft(t, 7, i + 1) + 1 /\ BuildLeft(t, 7, i + 1) \in Nat
  BY <1>1 DEF BuildLeft
<1>8. i = 2 =>
        BuildLeft(t, 7, i) = BuildLeft(t, 7, i + 1) + 0 /\ BuildLeft(t, 7, i + 1) \in Nat
  BY <1>1 DEF BuildLeft
<1> QED BY <1>2, <1>3, <1>4, <1>5, <1>6, <1>7, <1>8, Zenon

LEMMA PagesCost ==
  ASSUME NEW n \in Nat, NEW j \in 1 .. n
  PROVE  /\ PagesLeft(n, 2 * j - 1) = 3 * (n - j) + 3
         /\ PagesLeft(n, 2 * j) = 3 * (n - j) + 2
         /\ PagesLeft(n, 2 * j + 1) = 3 * (n - j)
<1>1. /\ (3 * ((2 * j - 1) - 1)) \div 2 = 3 * j - 3
      /\ (3 * ((2 * j) - 1)) \div 2 = 3 * j - 2
      /\ (3 * ((2 * j + 1) - 1)) \div 2 = 3 * j
  OBVIOUS
<1> QED BY <1>1 DEF PagesLeft

LEMMA PagesEnds ==
  ASSUME NEW n \in Nat
  PROVE  PagesLeft(n, 1) = 3 * n /\ PagesLeft(n, 2 * n + 1) = 0
<1>1. (3 * (1 - 1)) \div 2 = 0 /\ (3 * ((2 * n + 1) - 1)) \div 2 = 3 * n
  OBVIOUS
<1> QED BY <1>1 DEF PagesLeft

\* An entry of MapPages.
LEMMA PagesSpend ==
  ASSUME NEW t, NEW first, NEW n \in Nat, PagesEntry(t, first, n), NEW k
  PROVE  /\ PagesLeft(n, pos.i) = PagesLeft(n, pos.i + 1) + Cost
         /\ PagesLeft(n, pos.i + 1) \in Nat
         /\ Counted(k, k)
<1>1. PICK j \in 1 .. n : \/ pos.i = 2 * j - 1 /\ Now = Take(1)
                          \/ pos.i = 2 * j /\ Now = MapPage(t, first + j - 1)
  BY Zenon DEF PagesEntry
<1>2. /\ PagesLeft(n, 2 * j - 1) = 3 * (n - j) + 3
      /\ PagesLeft(n, 2 * j) = 3 * (n - j) + 2
      /\ PagesLeft(n, 2 * j + 1) = 3 * (n - j)
  BY PagesCost, Zenon
<1>3. CASE pos.i = 2 * j - 1 /\ Now = Take(1)
  <2>1. Now.op = "take" /\ pos.i + 1 = 2 * j
    BY <1>3 DEF Take
  <2>2. Cost = 1 /\ Counted(k, k)
    BY <2>1, Zenon DEF Cost, Counted
  <2>3. PagesLeft(n, pos.i) = 3 * (n - j) + 3 /\ PagesLeft(n, pos.i + 1) = 3 * (n - j) + 2
    BY <1>2, <1>3, <2>1, Zenon
  <2> QED BY <2>2, <2>3
<1>4. CASE pos.i = 2 * j /\ Now = MapPage(t, first + j - 1)
  <2>1. Now.op = "map_page"
    BY <1>4 DEF MapPage
  <2>2. Cost = 2 /\ Counted(k, k)
    BY <2>1, Zenon DEF Cost, Counted
  <2>3. PagesLeft(n, pos.i) = 3 * (n - j) + 2 /\ PagesLeft(n, pos.i + 1) = 3 * (n - j)
    BY <1>2, <1>4, Zenon
  <2> QED BY <2>2, <2>3
<1> QED BY <1>1, <1>3, <1>4, Zenon

LEMMA PrepareSpend ==
  ASSUME NEW t, NEW c, NEW not, NEW ep, PrepareEntry(t, c, not, ep), NEW k
  PROVE  /\ PrepareLeft(pos.i) = PrepareLeft(pos.i + 1) + Cost
         /\ PrepareLeft(pos.i + 1) \in Nat
         /\ Counted(k, k)
<1>1. CASE pos.i \in {1, 2} /\ Now = Object(SmallSize)
  <2>1. Now.op = "object" /\ Now.x = SmallSize
    BY <1>1 DEF Object
  <2>2. Cost = 1 /\ Counted(k, k)
    BY <2>1, Zenon DEF Cost, Counted
  <2> QED BY <1>1, <2>2 DEF PrepareLeft
<1>2. CASE pos.i \in {3, 4, 5} /\ Now.op = "give"
  <2>1. Cost = 0 /\ Counted(k, k)
    BY <1>2, Zenon DEF Cost, Counted
  <2> QED BY <1>2, <2>1 DEF PrepareLeft
<1>3. CASE pos.i \in {6, 7} /\ Now.op \in {"slot", "device"}
  <2>1. Cost = 1 /\ Counted(k, k)
    BY <1>3, Zenon DEF Cost, Counted
  <2> QED BY <1>3, <2>1 DEF PrepareLeft
<1>4. /\ \A u, a, o : Give(u, a, o).op = "give"
      /\ CopySlot.op = "slot" /\ MapDevice(t).op = "device"
  BY DEF Give, CopySlot, MapDevice
<1> QED BY <1>1, <1>2, <1>3, <1>4, Zenon DEF PrepareEntry

\* An entry of the part that builds a task.
LEMMA BuildSpend ==
  ASSUME image \in Images, NEW t \in Task, BuildEntry(t), pos.i \in Nat
  PROVE  /\ BuildLeft(t, pos.part, pos.i) = BuildLeft(t, pos.part, pos.i + 1) + Cost
         /\ BuildLeft(t, pos.part, pos.i + 1) \in Nat
         /\ Counted(NodesMade(t + 2, pos.part, pos.i), NodesMade(t + 2, pos.part, pos.i + 1))
<1> DEFINE k == NodesMade(t + 2, pos.part, pos.i)
           m == NodesMade(t + 2, pos.part, pos.i + 1)
           Goal == /\ BuildLeft(t, pos.part, pos.i) = BuildLeft(t, pos.part, pos.i + 1) + Cost
                   /\ BuildLeft(t, pos.part, pos.i + 1) \in Nat
                   /\ Counted(k, m)
<1> SUFFICES Goal
  OBVIOUS
<1>1. /\ TableCount(t, UpSpan) \in Nat /\ TableCount(t, PtSpan) \in Nat /\ Frames(t) \in Nat
      /\ StackPages \in Nat
  BY Counts, Zenon
<1>2. pos.part \in {2, 3, 4, 5, 6, 7, 8, 9} => m = k
  <2>1. pos.part # 1 => m = k
    BY NodesOf, ZenonT(30)
  <2> QED BY <2>1
<1> HIDE DEF k, m
<1>3. CASE pos.part = 1 /\ pos.i \in {1, 2} /\ Now = Object(CNodeSize)
  <2>1. Now.op = "object" /\ Now.x = CNodeSize
    BY <1>3 DEF Object
  <2>2. m = k + 1
    <3>1. t \in Nat
      BY TaskStages, Zenon
    <3>2. CASE pos.i = 1
      <4>1. k = 2 * t + 1 /\ pos.i + 1 = 2
        BY <1>3, <3>2, NodesOf DEF k
      <4>2. m = 2 * t + 2
        BY <1>3, <4>1, NodesOf, Zenon DEF m
      <4> QED BY <3>1, <4>1, <4>2
    <3>3. CASE pos.i = 2
      <4>1. k = 2 * t + 2 /\ pos.i + 1 \in Nat /\ pos.i + 1 > 2
        BY <1>3, <3>3, NodesOf DEF k
      <4>2. m = 2 * t + 3
        BY <1>3, <4>1, NodesOf, Zenon DEF m
      <4> QED BY <3>1, <4>1, <4>2
    <3> QED BY <1>3, <3>2, <3>3
  <2>3. pos.i \in 1 .. 3
    BY <1>3
  <2>4. /\ BuildLeft(t, 1, pos.i) = BuildLeft(t, 1, pos.i + 1) + 1
        /\ BuildLeft(t, 1, pos.i + 1) \in Nat
    BY <2>3, BuildFalls, Zenon
  <2>5. Cost = 1 /\ Counted(k, k + 1)
    BY <2>1, EntryCost, Zenon
  <2> QED BY <1>3, <2>2, <2>4, <2>5, Zenon
<1>4. CASE pos.part = 1 /\ pos.i = 3 /\ Now = Object(PageSize)
  <2>1. Now.op = "object" /\ Now.x = PageSize
    BY <1>4 DEF Object
  <2>2. m = k
    <3>1. pos.i \in Nat /\ pos.i > 2 /\ pos.i + 1 \in Nat /\ pos.i + 1 > 2
      BY <1>4
    <3> QED BY <1>4, <3>1, NodesOf, Zenon DEF k, m
  <2>3. pos.i \in 1 .. 3
    BY <1>4
  <2>4. /\ BuildLeft(t, 1, pos.i) = BuildLeft(t, 1, pos.i + 1) + 1
        /\ BuildLeft(t, 1, pos.i + 1) \in Nat
    BY <2>3, BuildFalls, Zenon
  <2>5. Cost = 1 /\ Counted(k, k)
    BY <2>1, EntryCost, Zenon
  <2> QED BY <1>4, <2>2, <2>4, <2>5, Zenon
<1>5. CASE pos.part = 2 /\ TableEntry(t, 2, UpSpan)
  <2>1. Now.op = "table" /\ pos.i \in 1 .. TableCount(t, UpSpan)
    BY <1>5 DEF TableEntry, Table
  <2>2. /\ BuildLeft(t, 2, pos.i) = BuildLeft(t, 2, pos.i + 1) + 1
        /\ BuildLeft(t, 2, pos.i + 1) \in Nat
    BY <1>5, <2>1, BuildFalls, Zenon
  <2>3. Cost = 1 /\ Counted(k, k)
    BY <2>1, EntryCost, Zenon
  <2>4. m = k
    BY <1>2, <1>5, Zenon
  <2> QED BY <1>5, <2>2, <2>3, <2>4, Zenon
<1>6. CASE pos.part = 3 /\ TableEntry(t, 1, PtSpan)
  <2>1. Now.op = "table" /\ pos.i \in 1 .. TableCount(t, PtSpan)
    BY <1>6 DEF TableEntry, Table
  <2>2. /\ BuildLeft(t, 3, pos.i) = BuildLeft(t, 3, pos.i + 1) + 1
        /\ BuildLeft(t, 3, pos.i + 1) \in Nat
    BY <1>6, <2>1, BuildFalls, Zenon
  <2>3. Cost = 1 /\ Counted(k, k)
    BY <2>1, EntryCost, Zenon
  <2>4. m = k
    BY <1>2, <1>6, Zenon
  <2> QED BY <1>6, <2>2, <2>3, <2>4, Zenon
<1>7. CASE pos.part = 4 /\ pos.i \in 1 .. Frames(t) /\ Now = Take(pos.i)
  <2>1. Now.op = "take"
    BY <1>7 DEF Take
  <2>2. /\ BuildLeft(t, 4, pos.i) = BuildLeft(t, 4, pos.i + 1) + 1
        /\ BuildLeft(t, 4, pos.i + 1) \in Nat
    BY <1>7, <2>1, BuildFalls, Zenon
  <2>3. Cost = 1 /\ Counted(k, k)
    BY <2>1, EntryCost, Zenon
  <2>4. m = k
    BY <1>2, <1>7, Zenon
  <2> QED BY <1>7, <2>2, <2>3, <2>4, Zenon
<1>8. CASE pos.part \in {5, 6, 8} /\ Now.op \in {"copy", "frame_map", "give"}
  <2>1. Cost = 0 /\ Counted(k, m)
    BY <1>2, <1>8, EntryCost, Zenon
  <2> QED BY <1>8, <2>1, BuildFalls, Zenon
<1>9. CASE pos.part = 7 /\ pos.i = 1 /\ Now = Take(1)
  <2>1. Now.op = "take"
    BY <1>9 DEF Take
  <2>2. /\ BuildLeft(t, 7, pos.i) = BuildLeft(t, 7, pos.i + 1) + 1
        /\ BuildLeft(t, 7, pos.i + 1) \in Nat
    BY <1>9, <2>1, BuildFalls, Zenon
  <2>3. Cost = 1 /\ Counted(k, k)
    BY <2>1, EntryCost, Zenon
  <2>4. m = k
    BY <1>2, <1>9, Zenon
  <2> QED BY <1>9, <2>2, <2>3, <2>4, Zenon
<1>10. CASE pos.part = 7 /\ pos.i = 2 /\ Now = FrameMap(t, End(t), 1)
  <2>1. Now.op = "frame_map"
    BY <1>10 DEF FrameMap
  <2>2. /\ BuildLeft(t, 7, pos.i) = BuildLeft(t, 7, pos.i + 1) + 0
        /\ BuildLeft(t, 7, pos.i + 1) \in Nat
    BY <1>10, <2>1, BuildFalls, Zenon
  <2>3. Cost = 0 /\ Counted(k, k)
    BY <2>1, EntryCost, Zenon
  <2>4. m = k
    BY <1>2, <1>10, Zenon
  <2> QED BY <1>10, <2>2, <2>3, <2>4, Zenon
<1>11. CASE pos.part = 7 /\ pos.i = 3 /\ Now = Object(TcbSize)
  <2>1. Now.op = "object" /\ Now.x = TcbSize
    BY <1>11 DEF Object
  <2>2. /\ BuildLeft(t, 7, pos.i) = BuildLeft(t, 7, pos.i + 1) + 1
        /\ BuildLeft(t, 7, pos.i + 1) \in Nat
    BY <1>11, <2>1, BuildFalls, Zenon
  <2>3. Cost = 1 /\ Counted(k, k)
    BY <2>1, EntryCost, Zenon
  <2>4. m = k
    BY <1>2, <1>11, Zenon
  <2> QED BY <1>11, <2>2, <2>3, <2>4, Zenon
<1>12. CASE pos.part = 9 /\ PagesEntry(t, StackTop - StackPages, StackPages)
  <2>1. m = k
    BY <1>2, <1>12
  <2>2. /\ PagesLeft(StackPages, pos.i) = PagesLeft(StackPages, pos.i + 1) + Cost
        /\ PagesLeft(StackPages, pos.i + 1) \in Nat
        /\ Counted(k, k)
    BY <1>1, <1>12, PagesSpend, Zenon
  <2>3. \A i : BuildLeft(t, pos.part, i) = PagesLeft(StackPages, i)
    BY <1>12 DEF BuildLeft
  <2> QED BY <2>1, <2>2, <2>3, Zenon
<1>13. /\ \A u, s : CopySegment(u, s).op = "copy"
       /\ \A u, p, i : FrameMap(u, p, i).op = "frame_map"
  BY DEF CopySegment, FrameMap
<1> HIDE DEF Goal
<1>14. CASE pos.part = 5 /\ pos.i \in 1 .. Len(image[t]) /\ Now = CopySegment(t, pos.i)
  BY <1>8, <1>13, <1>14, Zenon
<1>15. CASE /\ pos.part = 6 /\ pos.i \in 1 .. Frames(t)
            /\ Now = FrameMap(t, First(t) + pos.i - 1, pos.i)
  BY <1>8, <1>13, <1>15, Zenon
<1>16. CASE pos.part = 8 /\ \/ pos.i = 1 /\ Now = Give(t, 18, "fault_ep")
                            \/ pos.i = 2 /\ Now = Give(t, 20, "irq_ep")
  <2>1. pos.part \in {5, 6, 8} /\ Now.op \in {"copy", "frame_map", "give"}
    BY <1>16 DEF Give
  <2> QED BY <1>8, <2>1, Zenon
<1>17. CASE pos.part = 1 /\ BuildEntry(t)
  BY <1>3, <1>4, <1>17 DEF BuildEntry
<1>18. CASE pos.part = 7 /\ BuildEntry(t)
  BY <1>9, <1>10, <1>11, <1>18 DEF BuildEntry
<1> QED
  BY <1>5, <1>6, <1>7, <1>12, <1>14, <1>15, <1>16, <1>17, <1>18, Zenon DEF BuildEntry

LEMMA LeftSame ==
  ASSUME image' = image
  PROVE  \A s, p, i : Left(s, p, i)' = Left(s, p, i)
<1>1. \A t, p, i : BuildLeft(t, p, i)' = BuildLeft(t, p, i)
  BY SameImage DEF BuildLeft
<1>2. \A t : Later(t)' = Later(t)
  BY Zenon DEF Later
<1> QED BY <1>1, <1>2, Zenon DEF Left

\* The slots left and the CNodes made where the root task is in the script.
LeftNow  == Left(pos.stage, pos.part, pos.i)
NodesNow == NodesMade(pos.stage, pos.part, pos.i)

LEMMA LeftInt ==
  ASSUME image \in Images, PosOK
  PROVE  LeftNow \in Int
<1>1. pos.i \in Nat \ {0}
  BY DEF PosOK
<1>2. \A n \in Nat : PagesLeft(n, pos.i) \in Int
  BY <1>1 DEF PagesLeft
<1>3. PrepareLeft(pos.i) \in Int
  BY <1>1 DEF PrepareLeft
<1>4. CASE pos.stage = 1
  <2>1. Kernel \in Task
    BY DEF Kernel, Task
  <2>2. TaskSlots(image[Kernel]) \in Nat /\ Later(Kernel) \in Nat
    BY <2>1, Counts, Zenon
  <2> QED BY <1>1, <1>4, <2>2 DEF LeftNow, Left
<1>5. ASSUME NEW t \in Task, pos.stage = t + 2
      PROVE  LeftNow \in Int
  <2>1. LeftNow = BuildLeft(t, pos.part, pos.i) + Later(t)
    BY <1>5 DEF LeftNow, Left, Task
  <2>2. /\ TableCount(t, UpSpan) \in Nat /\ TableCount(t, PtSpan) \in Nat /\ Frames(t) \in Nat
        /\ StackPages \in Nat /\ Later(t) \in Nat
    BY Counts, Zenon
  <2>3. BuildLeft(t, pos.part, pos.i) \in Int
    BY <1>1, <1>2, <2>2 DEF BuildLeft
  <2> QED BY <2>1, <2>2, <2>3
<1>6. CASE pos.stage = 5
  <2>1. BlkDma \in Nat /\ NetDma \in Nat
    BY Constants, Zenon
  <2>2. PagesLeft(BlkDma, pos.i) \in Int /\ PagesLeft(NetDma, pos.i) \in Int
    BY <1>2, <2>1, Zenon
  <2>3. LeftNow = LastLeft(pos.part, pos.i)
    BY <1>6 DEF LeftNow, Left
  <2> QED BY <1>3, <2>1, <2>2, <2>3 DEF LastLeft
<1> QED BY <1>4, <1>5, <1>6, Places, Zenon

\* What is left does not change where a part of the building of a task ends.
LEMMA BuildEnds ==
  ASSUME image \in Images, NEW t \in Task
  PROVE  /\ BuildLeft(t, 2, 1) = BuildLeft(t, 1, 4)
         /\ BuildLeft(t, 3, 1) = BuildLeft(t, 2, TableCount(t, UpSpan) + 1)
         /\ BuildLeft(t, 4, 1) = BuildLeft(t, 3, TableCount(t, PtSpan) + 1)
         /\ BuildLeft(t, 5, 1) = BuildLeft(t, 4, Frames(t) + 1)
         /\ \A i : BuildLeft(t, 6, 1) = BuildLeft(t, 5, i) /\ BuildLeft(t, 7, 1) = BuildLeft(t, 6, i)
         /\ BuildLeft(t, 8, 1) = BuildLeft(t, 7, 4)
         /\ \A i : BuildLeft(t, 9, 1) = BuildLeft(t, 8, i)
<1>1. /\ TableCount(t, UpSpan) \in Nat /\ TableCount(t, PtSpan) \in Nat /\ Frames(t) \in Nat
      /\ StackPages \in Nat
  BY Counts, Zenon
<1>2. BuildLeft(t, 2, 1) = BuildLeft(t, 1, 4)
  BY <1>1 DEF BuildLeft
<1>3. BuildLeft(t, 3, 1) = BuildLeft(t, 2, TableCount(t, UpSpan) + 1)
  BY <1>1 DEF BuildLeft
<1>4. BuildLeft(t, 4, 1) = BuildLeft(t, 3, TableCount(t, PtSpan) + 1)
  BY <1>1 DEF BuildLeft
<1>5. BuildLeft(t, 5, 1) = BuildLeft(t, 4, Frames(t) + 1)
  BY <1>1 DEF BuildLeft
<1>6. \A i : BuildLeft(t, 6, 1) = BuildLeft(t, 5, i) /\ BuildLeft(t, 7, 1) = BuildLeft(t, 6, i)
  BY <1>1 DEF BuildLeft
<1>7. BuildLeft(t, 8, 1) = BuildLeft(t, 7, 4)
  BY <1>1 DEF BuildLeft
<1>8. \A i : BuildLeft(t, 9, 1) = BuildLeft(t, 8, i)
  <2>1. PagesLeft(StackPages, 1) = 3 * StackPages
    BY <1>1, PagesEnds, Zenon
  <2> QED BY <2>1 DEF BuildLeft
<1> QED BY <1>2, <1>3, <1>4, <1>5, <1>6, <1>7, <1>8, Zenon

\* What an entry of the last stage takes is what is less to be done after it.
LEMMA LastFalls ==
  ASSUME NEW i, NEW c \in Nat
  PROVE  /\ PrepareLeft(i) = PrepareLeft(i + 1) + c /\ PrepareLeft(i + 1) \in Nat =>
              /\ LastLeft(2, i) = LastLeft(2, i + 1) + c /\ LastLeft(2, i + 1) \in Nat
              /\ LastLeft(4, i) = LastLeft(4, i + 1) + c /\ LastLeft(4, i + 1) \in Nat
         /\ PagesLeft(BlkDma, i) = PagesLeft(BlkDma, i + 1) + c /\ PagesLeft(BlkDma, i + 1) \in Nat =>
              LastLeft(3, i) = LastLeft(3, i + 1) + c /\ LastLeft(3, i + 1) \in Nat
         /\ PagesLeft(NetDma, i) = PagesLeft(NetDma, i + 1) + c /\ PagesLeft(NetDma, i + 1) \in Nat =>
              LastLeft(5, i) = LastLeft(5, i + 1) + c /\ LastLeft(5, i + 1) \in Nat
<1>1. BlkDma \in Nat /\ NetDma \in Nat
  BY Constants, Zenon
<1>2. \A j : LastLeft(2, j) = PrepareLeft(j) + 3 * BlkDma + 4 + 3 * NetDma
  BY DEF LastLeft
<1>3. \A j : LastLeft(3, j) = PagesLeft(BlkDma, j) + 4 + 3 * NetDma
  BY DEF LastLeft
<1>4. \A j : LastLeft(4, j) = PrepareLeft(j) + 3 * NetDma
  BY DEF LastLeft
<1>5. \A j : LastLeft(5, j) = PagesLeft(NetDma, j)
  BY DEF LastLeft
<1>6. ASSUME PrepareLeft(i) = PrepareLeft(i + 1) + c, PrepareLeft(i + 1) \in Nat
      PROVE  /\ LastLeft(2, i) = LastLeft(2, i + 1) + c /\ LastLeft(2, i + 1) \in Nat
             /\ LastLeft(4, i) = LastLeft(4, i + 1) + c /\ LastLeft(4, i + 1) \in Nat
  BY <1>1, <1>2, <1>4, <1>6
<1>7. ASSUME PagesLeft(BlkDma, i) = PagesLeft(BlkDma, i + 1) + c, PagesLeft(BlkDma, i + 1) \in Nat
      PROVE  LastLeft(3, i) = LastLeft(3, i + 1) + c /\ LastLeft(3, i + 1) \in Nat
  BY <1>1, <1>3, <1>7
<1> QED BY <1>5, <1>6, <1>7, Zenon

\* Every entry is paid for.
LEMMA EntrySpend ==
  ASSUME image \in Images, PosOK, pos.i <= Len(Part)
  PROVE  /\ LeftNow = Left(pos.stage, pos.part, pos.i + 1) + Cost
         /\ Left(pos.stage, pos.part, pos.i + 1) \in Nat
         /\ Counted(NodesNow, NodesMade(pos.stage, pos.part, pos.i + 1))
<1>1. pos.i \in Nat
  BY DEF PosOK
<1>2. CASE pos.stage = 1 /\ StartEntry
  <2>1. TaskSlots(image[Kernel]) \in Nat /\ Later(Kernel) \in Nat
    <3>1. Kernel \in Task
      BY DEF Kernel, Task
    <3> QED BY <3>1, Counts, Zenon
  <2>2. /\ pos.i \in {1, 2, 3, 4}
        /\ Now.op \in {"origin", "object", "normal"}
        /\ Now.op = "origin" => pos.i = 1 /\ Now.x = CNodeSize
        /\ Now.op = "object" => Now.x = SmallSize /\ pos.i # 1
        /\ pos.i = 1 => Now.op = "origin"
    BY <1>2 DEF StartEntry, Origin, Object, NormalCap
  <2>3. Cost = 1
    BY <2>2 DEF Cost
  <2>4. /\ Left(1, pos.part, pos.i) = Left(1, pos.part, pos.i + 1) + 1
        /\ Left(1, pos.part, pos.i + 1) \in Nat
    <3>1. \A p, i : Left(1, p, i) = 5 - i + TaskSlots(image[Kernel]) + Later(Kernel)
      BY Zenon DEF Left
    <3>2. \A i \in {1, 2, 3, 4}, x, y \in Nat :
            5 - i + x + y = (5 - (i + 1) + x + y) + 1 /\ 5 - (i + 1) + x + y \in Nat
      OBVIOUS
    <3> DEFINE x == TaskSlots(image[Kernel])
               y == Later(Kernel)
    <3> HIDE DEF x, y
    <3>3. /\ 5 - pos.i + x + y = (5 - (pos.i + 1) + x + y) + 1
          /\ 5 - (pos.i + 1) + x + y \in Nat
      BY <2>1, <2>2, <3>2, Zenon DEF x, y
    <3>4. /\ Left(1, pos.part, pos.i) = 5 - pos.i + x + y
          /\ Left(1, pos.part, pos.i + 1) = 5 - (pos.i + 1) + x + y
      BY <3>1, Zenon DEF x, y
    <3> QED BY <3>3, <3>4, Zenon
  <2>5. Counted(NodesMade(1, pos.part, pos.i), NodesMade(1, pos.part, pos.i + 1))
    <3>1. CASE pos.i = 1
      <4>1. NodesMade(1, pos.part, pos.i) = 0 /\ NodesMade(1, pos.part, pos.i + 1) = 1
        BY <3>1 DEF NodesMade
      <4>2. 1 = 0 + 1 /\ Now.op = "origin" /\ Now.x = CNodeSize
        BY <2>2, <3>1
      <4> QED BY <4>1, <4>2 DEF Counted
    <3>2. CASE pos.i # 1
      <4>1. NodesMade(1, pos.part, pos.i) = 1 /\ NodesMade(1, pos.part, pos.i + 1) = 1
        BY <2>2, <3>2 DEF NodesMade
      <4>2. Now.op # "origin" /\ (Now.op = "object" => Now.x = SmallSize)
        BY <2>2, <3>2, Zenon
      <4> QED BY <4>1, <4>2, Zenon DEF Counted
    <3> QED BY <3>1, <3>2, Zenon
  <2> QED BY <1>2, <2>3, <2>4, <2>5, Zenon DEF LeftNow, NodesNow
<1>3. ASSUME NEW t \in Task, pos.stage = t + 2, BuildEntry(t)
      PROVE  /\ LeftNow = Left(pos.stage, pos.part, pos.i + 1) + Cost
             /\ Left(pos.stage, pos.part, pos.i + 1) \in Nat
             /\ Counted(NodesNow, NodesMade(pos.stage, pos.part, pos.i + 1))
  <2>1. \A i : Left(t + 2, pos.part, i) = BuildLeft(t, pos.part, i) + Later(t)
    BY DEF Left, Task
  <2>2. /\ BuildLeft(t, pos.part, pos.i) = BuildLeft(t, pos.part, pos.i + 1) + Cost
        /\ BuildLeft(t, pos.part, pos.i + 1) \in Nat
        /\ Counted(NodesMade(t + 2, pos.part, pos.i), NodesMade(t + 2, pos.part, pos.i + 1))
    BY <1>1, <1>3, BuildSpend, Zenon
  <2>3. Later(t) \in Nat /\ Cost \in Nat
    BY Counts DEF Cost
  <2>4. /\ Left(t + 2, pos.part, pos.i) = Left(t + 2, pos.part, pos.i + 1) + Cost
        /\ Left(t + 2, pos.part, pos.i + 1) \in Nat
    BY <2>1, <2>2, <2>3
  <2> QED BY <1>3, <2>2, <2>4, Zenon DEF LeftNow, NodesNow
<1>4. CASE pos.stage = 5 /\ LastEntry
  <2>1. BlkDma \in Nat /\ NetDma \in Nat /\ Cost \in Nat
    BY Constants DEF Cost
  <2>2. \A p, i : Left(5, p, i) = LastLeft(p, i) /\ NodesMade(5, p, i) = 7
    BY DEF Left, NodesMade
  <2>3. /\ LastLeft(pos.part, pos.i) = LastLeft(pos.part, pos.i + 1) + Cost
        /\ LastLeft(pos.part, pos.i + 1) \in Nat
        /\ Counted(7, 7)
    <3>1. CASE pos.part = 1 /\ pos.i = 1 /\ Now = Give(Kernel, 26, "untyped")
      <4>1. Cost = 0 /\ Counted(7, 7)
        BY <3>1 DEF Give, Cost, Counted
      <4> QED BY <2>1, <3>1, <4>1 DEF LastLeft
    <3>2. CASE pos.part = 2 /\ PrepareEntry(Blk, 27, "blk_irq_not", "blk_dev_ep")
      <4>1. /\ PrepareLeft(pos.i) = PrepareLeft(pos.i + 1) + Cost
            /\ PrepareLeft(pos.i + 1) \in Nat /\ Counted(7, 7)
        BY <3>2, PrepareSpend, Zenon
      <4>2. /\ LastLeft(2, pos.i) = LastLeft(2, pos.i + 1) + Cost
            /\ LastLeft(2, pos.i + 1) \in Nat
        BY <2>1, <4>1, LastFalls, Zenon
      <4> QED BY <3>2, <4>1, <4>2, Zenon
    <3>3. CASE pos.part = 3 /\ PagesEntry(Blk, DmaStart, BlkDma)
      <4>1. /\ PagesLeft(BlkDma, pos.i) = PagesLeft(BlkDma, pos.i + 1) + Cost
            /\ PagesLeft(BlkDma, pos.i + 1) \in Nat /\ Counted(7, 7)
        BY <2>1, <3>3, PagesSpend, Zenon
      <4>2. /\ LastLeft(3, pos.i) = LastLeft(3, pos.i + 1) + Cost
            /\ LastLeft(3, pos.i + 1) \in Nat
        BY <2>1, <4>1, LastFalls, Zenon
      <4> QED BY <3>3, <4>1, <4>2, Zenon
    <3>4. CASE pos.part = 4 /\ PrepareEntry(Net, 28, "net_irq_not", "net_dev_ep")
      <4>1. /\ PrepareLeft(pos.i) = PrepareLeft(pos.i + 1) + Cost
            /\ PrepareLeft(pos.i + 1) \in Nat /\ Counted(7, 7)
        BY <3>4, PrepareSpend, Zenon
      <4>2. /\ LastLeft(4, pos.i) = LastLeft(4, pos.i + 1) + Cost
            /\ LastLeft(4, pos.i + 1) \in Nat
        BY <2>1, <4>1, LastFalls, Zenon
      <4> QED BY <3>4, <4>1, <4>2, Zenon
    <3>5. CASE pos.part = 5 /\ PagesEntry(Net, DmaStart, NetDma)
      <4>1. /\ PagesLeft(NetDma, pos.i) = PagesLeft(NetDma, pos.i + 1) + Cost
            /\ PagesLeft(NetDma, pos.i + 1) \in Nat /\ Counted(7, 7)
        BY <2>1, <3>5, PagesSpend, ZenonT(30)
      <4>2. /\ LastLeft(5, pos.i) = LastLeft(5, pos.i + 1) + Cost
            /\ LastLeft(5, pos.i + 1) \in Nat
        BY <2>1, <4>1, LastFalls, Zenon
      <4> QED BY <3>5, <4>1, <4>2, Zenon
    <3> QED BY <1>4, <3>1, <3>2, <3>3, <3>4, <3>5, Zenon DEF LastEntry
  <2> QED BY <1>4, <2>2, <2>3, Zenon DEF LeftNow, NodesNow
<1> QED BY <1>2, <1>3, <1>4, Entries, Zenon

\* A part that ends leaves what the next one needs.
LEMMA NextSpend ==
  ASSUME image \in Images, PosOK, BootNext
  PROVE  LeftNow' = LeftNow /\ NodesNow' = NodesNow
<1>1. /\ pos.i = Len(PartOf(pos.stage, pos.part)) + 1 /\ pos'.i = 1
      /\ \/ pos'.stage = pos.stage /\ pos'.part = pos.part + 1
         \/ /\ pos'.stage = pos.stage + 1 /\ pos'.part = 1
            /\ pos.part = Len(Script(image)[pos.stage])
      /\ PosOK' /\ image' = image
  BY NextPos, Zenon DEF BootNext
<1>2. /\ \A s, p, i : Left(s, p, i)' = Left(s, p, i)
      /\ \A s : Script(image)'[s] = Script(image)[s]
  BY <1>1, LeftSame, Zenon
<1>3. /\ LeftNow' = Left(pos'.stage, pos'.part, 1)
      /\ NodesNow' = NodesMade(pos'.stage, pos'.part, 1)
  BY <1>1, <1>2, Zenon DEF LeftNow, NodesNow
<1>4. /\ \A t \in Task : /\ TaskSlots(image[t]) = BuildLeft(t, 1, 1) /\ Later(t) \in Nat
                         /\ BuildLeft(t, 1, 1) \in Nat
                         /\ TableCount(t, UpSpan) \in Nat /\ TableCount(t, PtSpan) \in Nat
                         /\ Frames(t) \in Nat
      /\ StackPages \in Nat /\ BlkDma \in Nat /\ NetDma \in Nat
  BY Counts, Constants, Zenon
<1>5. /\ pos.stage \in 1 .. 5 /\ pos.part \in Nat \ {0} /\ pos'.stage \in 1 .. 5
      /\ pos.part <= Len(Script(image)[pos.stage]) /\ pos'.part <= Len(Script(image)[pos'.stage])
  BY <1>1, Zenon DEF PosOK
<1>6. CASE pos.stage = 1
  <2>1. pos.part = 1 /\ pos'.stage = 2 /\ pos'.part = 1 /\ pos.i = 5
    <3>1. Len(Script(image)[1]) = 1 /\ Len(PartOf(1, 1)) = 4
      BY Parts, RootLengths, Zenon
    <3>2. pos.part = 1
      BY <1>5, <1>6, <3>1
    <3>3. pos'.stage = 1 => pos'.part <= 1
      BY <1>2, <1>5, <3>1, Zenon
    <3>4. pos.i = 4 + 1
      BY <1>1, <1>6, <3>1, <3>2, Zenon
    <3>5. \/ pos'.stage = 1 /\ pos'.part = 1 + 1
          \/ pos'.stage = 1 + 1 /\ pos'.part = 1
      BY <1>1, <1>6, <3>2, Zenon
    <3> QED BY <3>2, <3>3, <3>4, <3>5
  <2>2. Kernel \in Task /\ Kernel = 0
    BY DEF Kernel, Task
  <2>3. Left(2, 1, 1) = BuildLeft(0, 1, 1) + Later(0)
    BY DEF Left
  <2>4. Left(1, 1, 5) = TaskSlots(image[0]) + Later(0)
    BY <1>4, <2>2 DEF Left
  <2>5. NodesMade(2, 1, 1) = NodesMade(1, 1, 5)
    BY DEF NodesMade
  <2>6. TaskSlots(image[0]) = BuildLeft(0, 1, 1)
    BY <1>4, <2>2, Zenon
  <2> QED BY <1>3, <1>6, <2>1, <2>3, <2>4, <2>5, <2>6, Zenon DEF LeftNow, NodesNow
<1>7. ASSUME NEW t \in Task, pos.stage = t + 2
      PROVE  LeftNow' = LeftNow /\ NodesNow' = NodesNow
  <2>1. pos.part \in 1 .. 9
    <3>1. Len(Script(image)[pos.stage]) = 9
      BY <1>7, TaskParts, Zenon
    <3> QED BY <1>5, <3>1
  <2>2. /\ pos.part = 1 => pos.i = 4
        /\ pos.part = 2 => pos.i = TableCount(t, UpSpan) + 1
        /\ pos.part = 3 => pos.i = TableCount(t, PtSpan) + 1
        /\ pos.part = 4 => pos.i = Frames(t) + 1
        /\ pos.part = 7 => pos.i = 4
        /\ pos.part = 9 => pos.i = 2 * StackPages + 1
    <3>1. 3 + 1 = 4
      OBVIOUS
    <3> QED BY <1>1, <1>7, <3>1, TaskLengths, Zenon
  <2>3. pos.i \in Nat \ {0} /\ PagesLeft(StackPages, 1) = 3 * StackPages
        /\ PagesLeft(StackPages, 2 * StackPages + 1) = 0
    BY <1>4, PagesEnds, Zenon DEF PosOK
  <2>4. \A p, i : Left(t + 2, p, i) = BuildLeft(t, p, i) + Later(t)
    BY DEF Left, Task
  <2>5. CASE pos.part # 9
    <3>1. pos'.stage = t + 2 /\ pos'.part = pos.part + 1
      <4>1. Len(Script(image)[pos.stage]) = 9
        BY <1>7, TaskParts, Zenon
      <4> QED BY <1>1, <1>7, <2>5, <4>1, Zenon
    <3>2. BuildLeft(t, pos.part + 1, 1) = BuildLeft(t, pos.part, pos.i)
      <4>1. /\ 1 + 1 = 2 /\ 2 + 1 = 3 /\ 3 + 1 = 4 /\ 4 + 1 = 5
            /\ 5 + 1 = 6 /\ 6 + 1 = 7 /\ 7 + 1 = 8 /\ 8 + 1 = 9
        OBVIOUS
      <4>2. \A n \in 1 .. 9 : n # 9 => n \in {1, 2, 3} \/ n \in {4, 5, 6} \/ n \in {7, 8}
        OBVIOUS
      <4>3. CASE pos.part \in {1, 2, 3}
        BY <2>2, <4>1, <4>3, BuildEnds, ZenonT(30)
      <4>4. CASE pos.part \in {4, 5, 6}
        BY <2>2, <4>1, <4>4, BuildEnds, ZenonT(30)
      <4>5. CASE pos.part \in {7, 8}
        BY <2>2, <4>1, <4>5, BuildEnds, ZenonT(30)
      <4> QED BY <2>1, <2>5, <4>2, <4>3, <4>4, <4>5, Zenon
    <3>3. NodesMade(t + 2, pos.part + 1, 1) = NodesMade(t + 2, pos.part, pos.i)
      <4>1. pos.part + 1 # 1 /\ (pos.part = 1 => pos.i \in Nat /\ pos.i > 2)
        BY <2>1, <2>2
      <4>2. NodesMade(t + 2, pos.part + 1, 1) = 2 * t + 3
        BY <4>1, NodesOf, Zenon
      <4>3. NodesMade(t + 2, pos.part, pos.i) = 2 * t + 3
        BY <4>1, NodesOf, Zenon
      <4> QED BY <4>2, <4>3, Zenon
    <3> QED BY <1>3, <1>7, <2>4, <3>1, <3>2, <3>3, ZenonT(30) DEF LeftNow, NodesNow
  <2>6. CASE pos.part = 9
    <3>1. pos'.stage = t + 3 /\ pos'.part = 1
      <4>1. Len(Script(image)[pos.stage]) = 9 /\ Len(Script(image)'[pos'.stage]) \in Nat
        BY <1>1, <1>2, <1>5, <1>7, TaskParts, StageLength, Zenon
      <4>2. pos'.stage = pos.stage => pos'.part <= 9
        BY <1>5, <4>1, Zenon
      <4> QED BY <1>1, <1>7, <2>6, <4>2 DEF Task
    <3>2. LeftNow = Later(t)
      <4>1. BuildLeft(t, 9, 2 * StackPages + 1) = 0
        BY <2>3 DEF BuildLeft
      <4>2. LeftNow = BuildLeft(t, 9, 2 * StackPages + 1) + Later(t)
        BY <1>7, <2>2, <2>4, <2>6, Zenon DEF LeftNow
      <4> QED BY <1>4, <4>1, <4>2
    <3>3. Left(t + 3, 1, 1) = Later(t)
      <4>1. Blk \in Task /\ Net \in Task /\ Blk = 1 /\ Net = 2 /\ Kernel = 0
        BY DEF Blk, Net, Task, Kernel
      <4>2. /\ TaskSlots(image[1]) = BuildLeft(1, 1, 1) /\ TaskSlots(image[2]) = BuildLeft(2, 1, 1)
            /\ BuildLeft(1, 1, 1) \in Nat /\ BuildLeft(2, 1, 1) \in Nat
        BY <1>4, <4>1, Zenon
      <4>3. CASE t = 0
        <5>1. Left(3, 1, 1) = BuildLeft(1, 1, 1) + Later(1)
          BY DEF Left
        <5>2. Later(0) = BuildLeft(1, 1, 1) + Later(1)
          BY <1>4, <4>1, <4>2 DEF Later
        <5> QED BY <4>3, <5>1, <5>2
      <4>4. CASE t = 1
        <5>1. Left(4, 1, 1) = BuildLeft(2, 1, 1) + Later(2)
          BY DEF Left
        <5>2. Later(1) = BuildLeft(2, 1, 1) + Later(2)
          BY <1>4, <4>1, <4>2 DEF Later
        <5> QED BY <4>4, <5>1, <5>2
      <4>5. CASE t = 2
        <5>1. Left(5, 1, 1) = 8 + 3 * BlkDma + 3 * NetDma
          BY DEF Left, LastLeft
        <5>2. Later(2) = 8 + 3 * BlkDma + 3 * NetDma
          BY <1>4, <4>1 DEF Later
        <5> QED BY <4>5, <5>1, <5>2
      <4> QED BY <4>3, <4>4, <4>5 DEF Task
    <3>4. NodesMade(t + 3, 1, 1) = NodesMade(t + 2, 9, pos.i)
      BY DEF NodesMade, Task
    <3> QED BY <1>3, <1>7, <2>6, <3>1, <3>2, <3>3, <3>4, Zenon DEF NodesNow
  <2> QED BY <2>5, <2>6
<1>8. CASE pos.stage = 5
  <2>1. pos.part \in 1 .. 5 /\ pos'.stage = 5 /\ pos'.part = pos.part + 1
    BY <1>1, <1>5, <1>8, Parts, SMTT(20)
  <2>2. pos'.part <= 5
    BY <1>2, <1>5, <2>1, Parts
  <2>3. /\ pos.part = 2 => pos.i = 8
        /\ pos.part = 3 => pos.i = 2 * BlkDma + 1
        /\ pos.part = 4 => pos.i = 8
    <3>1. 7 + 1 = 8
      OBVIOUS
    <3> QED BY <1>1, <1>8, <3>1, RootLengths, Zenon
  <2>4. /\ PagesLeft(BlkDma, 1) = 3 * BlkDma /\ PagesLeft(BlkDma, 2 * BlkDma + 1) = 0
        /\ PagesLeft(NetDma, 1) = 3 * NetDma
    BY <1>4, PagesEnds, Zenon
  <2>5. PrepareLeft(1) = 4 /\ PrepareLeft(8) = 0
    BY DEF PrepareLeft
  <2>6. LastLeft(pos.part + 1, 1) = LastLeft(pos.part, pos.i)
    BY <1>4, <2>1, <2>2, <2>3, <2>4, <2>5, SMTT(20) DEF LastLeft
  <2>7. \A p, i : Left(5, p, i) = LastLeft(p, i) /\ NodesMade(5, p, i) = 7
    BY DEF Left, NodesMade
  <2> QED BY <1>3, <1>8, <2>1, <2>6, <2>7, Zenon DEF LeftNow, NodesNow
<1>9. pos.stage = 1 \/ pos.stage = 5 \/ \E t \in Task : pos.stage = t + 2
  BY Places, Zenon
<1> QED BY <1>6, <1>7, <1>8, <1>9, Zenon

\* The tables of the entry that comes next which are made already.
Has(id) == IF id \in pts[Now.t] THEN 1 ELSE 0

Made ==
  IF pos.i > Len(Part) THEN 0
  ELSE IF Now.op = "map_page"
       THEN Has(<<2, Now.x[1] \div UpSpan>>) + Has(<<1, Now.x[1] \div PtSpan>>)
  ELSE IF Now.op = "device" THEN Has(<<2, Now.x[1] \div UpSpan>>)
  ELSE 0

LEMMA MadeNat == Made \in Nat
<1>1. \A id : Has(id) \in Nat
  BY DEF Has
<1> QED BY <1>1 DEF Made

\* The slots suffice for the rest of the script, and the memory in use is
\* accounted for.
Spare ==
  /\ next + LeftNow <= SlotFirst + SlotsNeeded(image) + Made
  /\ water <= MemUsed(next, NodesNow)

\* Every length is a number.
LEMMA LengthNow ==
  ASSUME image \in Images, PosOK
  PROVE  pos.i \in Nat \ {0} /\ Len(Part) \in Nat /\ (pos.i <= Len(Part) <=> ~(pos.i > Len(Part)))
<1>1. pos.stage \in 1 .. 5 /\ pos.part \in Nat \ {0} /\ pos.i \in Nat \ {0}
  BY DEF PosOK
<1>2. pos.part \in 1 .. Len(Script(image)[pos.stage])
  <2>1. Len(Script(image)[pos.stage]) \in Nat
    BY <1>1, StageLength, Zenon
  <2> QED BY <1>1, <2>1 DEF PosOK
<1>3. Part = PartOf(pos.stage, pos.part)
  BY Zenon DEF Part, Stage, PartOf
<1>4. Len(Part) \in Nat
  BY <1>1, <1>2, <1>3, PartLength, Zenon
<1> QED BY <1>1, <1>4

LEMMA MadeNow ==
  ASSUME image \in Images, PosOK
  PROVE  /\ pos.i > Len(Part) => Made = 0
         /\ pos.i <= Len(Part) =>
              /\ Now.op \in {"map_page", "device"} =>
                   IF Missing = {} THEN Made = Cost ELSE Made < Cost
              /\ Now.op \notin {"map_page", "device"} => Made = 0
<1>1. pos.i <= Len(Part) <=> ~(pos.i > Len(Part))
  BY LengthNow, Zenon
<1> DEFINE a == <<2, Now.x[1] \div UpSpan>>
           b == <<1, Now.x[1] \div PtSpan>>
<1>2. \A id : Has(id) \in {0, 1} /\ (Has(id) = 1 <=> id \in pts[Now.t])
  BY DEF Has
<1>3. CASE pos.i > Len(Part)
  BY <1>1, <1>3 DEF Made
<1>4. CASE pos.i <= Len(Part) /\ Now.op = "map_page"
  <2>1. Made = Has(a) + Has(b) /\ Cost = 2
    BY <1>1, <1>4, Zenon DEF Made, Cost
  <2>2. Missing = {a, b} \ pts[Now.t]
    BY <1>4 DEF Missing, TablesOf
  <2> HIDE DEF a, b
  <2>3. Missing = {} <=> a \in pts[Now.t] /\ b \in pts[Now.t]
    BY <2>2, Zenon
  <2>4. IF Missing = {} THEN Made = Cost ELSE Made < Cost
    BY <1>2, <2>1, <2>3
  <2> QED BY <1>1, <1>4, <2>4, Zenon
<1>5. CASE pos.i <= Len(Part) /\ Now.op = "device"
  <2>1. Made = Has(a) /\ Cost = 1
    BY <1>1, <1>5 DEF Made, Cost
  <2>2. Missing = {a} \ pts[Now.t]
    BY <1>5 DEF Missing, LargeTables
  <2> HIDE DEF a, b
  <2>3. Missing = {} <=> a \in pts[Now.t]
    BY <2>2, Zenon
  <2>4. IF Missing = {} THEN Made = Cost ELSE Made < Cost
    BY <1>2, <2>1, <2>3
  <2> QED BY <1>1, <1>5, <2>4, ZenonT(30)
<1>6. CASE pos.i <= Len(Part) /\ Now.op \notin {"map_page", "device"}
  <2>1. Made = 0
    BY <1>1, <1>6, Zenon DEF Made
  <2> QED BY <1>1, <1>6, <2>1
<1> QED BY <1>1, <1>3, <1>4, <1>5, <1>6

\* A table that was missing is made once.
LEMMA MissingSpend ==
  ASSUME image \in Images, PosOK, pts = [t \in Task |-> pts[t]], BootMissingTable
  PROVE  Made' = Made + 1
<1>1. /\ Now.t \in Task /\ pos.i <= Len(Part) /\ Now.op \in {"map_page", "device"}
      /\ Missing # {}
      /\ pts' = [pts EXCEPT ![Now.t] = @ \cup {NextTable}]
      /\ image' = image /\ pos' = pos
  BY AtMapPage, AtDevice, Zenon DEF BootMissingTable, Step
<1>2. Now' = Now /\ Part' = Part
  BY <1>1, Zenon DEF Now, Part, Stage
<1>3. pts'[Now.t] = pts[Now.t] \cup {NextTable}
  BY <1>1
<1>4. ~(pos.i > Len(Part)) /\ ~(pos.i > Len(Part))'
  BY <1>1, <1>2, LengthNow, Zenon
<1> DEFINE a == <<2, Now.x[1] \div UpSpan>>
           b == <<1, Now.x[1] \div PtSpan>>
<1>5. a # b /\ a[1] = 2 /\ b[1] = 1
  OBVIOUS
<1>6. a' = a /\ b' = b
  BY <1>2
<1> HIDE DEF a, b
<1>7. CASE Now.op = "map_page"
  <2>1. Missing = {a, b} \ pts[Now.t]
    BY <1>7 DEF Missing, TablesOf, a, b
  <2>2. NextTable \in Missing
    <3>1. \E id \in Missing : \A other \in Missing : other[1] <= id[1]
      <4>1. CASE a \in Missing
        <5>1. \A other \in Missing : other[1] = 2 \/ other[1] = 1
          BY <1>5, <2>1, Zenon
        <5>2. 2 <= 2 /\ 1 <= 2
          OBVIOUS
        <5> QED BY <1>5, <4>1, <5>1, <5>2, Zenon
      <4>2. CASE a \notin Missing
        <5>1. Missing = {b}
          BY <1>1, <2>1, <4>2, Zenon
        <5>2. b[1] <= b[1]
          BY <1>5
        <5> QED BY <5>1, <5>2, Zenon
      <4> QED BY <4>1, <4>2
    <3> QED BY <3>1, Zenon DEF NextTable
  <2>3. Made = Has(a) + Has(b) /\ Made' = (Has(a) + Has(b))'
    BY <1>2, <1>4, <1>6, <1>7, Zenon DEF Made, a, b
  <2>4. /\ Has(a) = IF a \in pts[Now.t] THEN 1 ELSE 0
        /\ Has(b) = IF b \in pts[Now.t] THEN 1 ELSE 0
        /\ Has(a)' = IF a \in pts'[Now.t] THEN 1 ELSE 0
        /\ Has(b)' = IF b \in pts'[Now.t] THEN 1 ELSE 0
    BY <1>2, <1>6, Zenon DEF Has
  <2>5. CASE NextTable = a
    <3>1. /\ a \notin pts[Now.t] /\ a \in pts'[Now.t]
          /\ b \in pts'[Now.t] <=> b \in pts[Now.t]
      BY <1>3, <1>5, <2>1, <2>2, <2>5, Zenon
    <3> QED BY <2>3, <2>4, <3>1
  <2>6. CASE NextTable = b
    <3>1. /\ b \notin pts[Now.t] /\ b \in pts'[Now.t]
          /\ a \in pts'[Now.t] <=> a \in pts[Now.t]
      BY <1>3, <1>5, <2>1, <2>2, <2>6, Zenon
    <3> QED BY <2>3, <2>4, <3>1
  <2> QED BY <2>1, <2>2, <2>5, <2>6, Zenon
<1>8. CASE Now.op = "device"
  <2>1. Missing = {a} \ pts[Now.t]
    BY <1>8 DEF Missing, LargeTables, a
  <2>2. Missing = {a} /\ a \notin pts[Now.t]
    BY <1>1, <2>1
  <2>3. NextTable = a
    BY <1>5, <2>2 DEF NextTable
  <2>4. Made = Has(a) /\ Made' = Has(a)'
    BY <1>2, <1>4, <1>6, <1>8 DEF Made, a
  <2>5. Has(a) = 0
    BY <2>2, Zenon DEF Has
  <2>6. Has(a)' = 1
    BY <1>2, <1>3, <1>6, <2>3, Zenon DEF Has
  <2> QED BY <2>4, <2>5, <2>6
<1> QED BY <1>1, <1>7, <1>8, Zenon

\* What the next allocation leaves in use.
LEMMA Spends ==
  ASSUME image \in Images, PosOK, AllocOK, Spare, Enough, pos.i <= Len(Part),
         NEW m, m = NodesMade(pos.stage, pos.part, pos.i + 1)
  PROVE  /\ Now.op = "origin" => AlignUp(water, Now.x) + Now.x <= MemUsed(next + 1, m)
         /\ Now.op = "object" => Place(Now.x) + Now.x <= MemUsed(next + 1, m)
         /\ Now.op = "slot" => SlotWater <= MemUsed(next + 1, m)
         /\ Now.op = "normal" => water <= MemUsed(next + 1, m)
         /\ Now.op \notin {"origin", "object"} =>
              m = NodesNow /\ Place(PageSize) + PageSize <= MemUsed(next + 1, m)
<1> DEFINE k == NodesNow
<1>1. Counted(k, m)
  BY EntrySpend, Zenon
<1>2. /\ next \in Nat \ {0} /\ SlotFirst <= next /\ water \in Nat
      /\ CNodeSize \in Nat \ {0} /\ PageSize \in Nat \ {0}
      /\ TcbSize \in Nat \ {0} /\ SmallSize \in Nat \ {0}
      /\ TcbSize <= PageSize /\ SmallSize <= PageSize
  <2>1. next \in Nat \ {0} /\ SlotFirst <= next /\ water \in Nat
    BY AllocatorAssumption DEF AllocOK, AllocInv, AllocTypeOK
  <2>2. /\ CNodeSize \in Nat \ {0} /\ PageSize \in Nat \ {0}
        /\ TcbSize \in Nat \ {0} /\ SmallSize \in Nat \ {0}
    BY Constants, AllocatorAssumption
  <2> QED BY <2>1, <2>2, Zenon DEF Enough
<1>3. k \in Nat
  <2>1. pos.stage \in 1 .. 5 /\ pos.i \in Nat \ {0}
    BY Zenon DEF PosOK
  <2>2. k \in 0 .. 7
    BY <2>1, NodesRange, Zenon DEF NodesNow
  <2> QED BY <2>2
<1>4. water <= MemUsed(next, k)
  BY Zenon DEF Spare
<1> HIDE DEF k
<1>5. /\ MemUsed(next + 1, k) \in Nat /\ MemUsed(next + 1, k + 1) \in Nat
      /\ SlotWater + 2 * PageSize <= MemUsed(next + 1, k)
      /\ water + 2 * PageSize <= MemUsed(next + 1, k)
      /\ MemUsed(next + 1, k + 1) = MemUsed(next + 1, k) + 2 * CNodeSize
      /\ SlotWater \in Nat
  BY <1>2, <1>3, <1>4, MemGrows, SlotCost, Zenon
<1>6. ASSUME NEW n \in Nat \ {0}, n <= PageSize
      PROVE  Place(n) + n <= MemUsed(next + 1, k)
  <2>1. Place(n) \in Nat /\ Place(n) + n <= SlotWater + 2 * n
    BY <1>5, Gap, Zenon DEF Place
  <2> QED BY <1>2, <1>5, <1>6, <2>1
<1>7. Place(CNodeSize) + CNodeSize <= MemUsed(next + 1, k + 1)
  <2>1. Place(CNodeSize) \in Nat /\ Place(CNodeSize) + CNodeSize <= SlotWater + 2 * CNodeSize
    BY <1>2, <1>5, Gap, Zenon DEF Place
  <2> QED BY <1>2, <1>5, <2>1
<1>8. AlignUp(water, CNodeSize) + CNodeSize <= MemUsed(next + 1, k + 1)
  <2>1. /\ AlignUp(water, CNodeSize) \in Nat
        /\ AlignUp(water, CNodeSize) + CNodeSize <= water + 2 * CNodeSize
    BY <1>2, Gap, Zenon
  <2> QED BY <1>2, <1>5, <2>1, SMTT(20)
<1>9. SlotWater <= MemUsed(next + 1, k) /\ water <= MemUsed(next + 1, k)
  BY <1>2, <1>5
<1>10. PageSize <= PageSize
  BY <1>2
<1>11. Now.op = "origin" => AlignUp(water, Now.x) + Now.x <= MemUsed(next + 1, m)
  BY <1>1, <1>8, Zenon DEF Counted
<1>12. Now.op = "object" => Place(Now.x) + Now.x <= MemUsed(next + 1, m)
  BY <1>1, <1>2, <1>6, <1>7, <1>10, Zenon DEF Counted
<1>13. Now.op \notin {"origin", "object"} => m = k
  BY <1>1, Zenon DEF Counted
<1>14. Place(PageSize) + PageSize <= MemUsed(next + 1, k)
  BY <1>2, <1>6, <1>10, Zenon
<1> QED BY <1>9, <1>11, <1>12, <1>13, <1>14 DEF k

LEMMA SpareInit ==
  ASSUME BootInit
  PROVE  Spare
<1>1. /\ image \in Images /\ pos.stage = 1 /\ pos.part = 1 /\ pos.i = 1
      /\ next = SlotFirst /\ water = 0
  BY DEF BootInit, AllocInit
<1>2. Kernel \in Task /\ Blk \in Task /\ Net \in Task /\ Kernel # Blk
  BY DEF Kernel, Blk, Net, Task
<1>3. /\ TaskSlots(image[Kernel]) \in Nat /\ TaskSlots(image[Blk]) \in Nat
      /\ TaskSlots(image[Net]) \in Nat /\ BlkDma \in Nat /\ NetDma \in Nat
  BY <1>1, <1>2, Counts, Zenon
<1>4. LeftNow = 4 + TaskSlots(image[Kernel]) + Later(Kernel)
  <2>1. LeftNow = Left(1, 1, 1)
    BY <1>1, Zenon DEF LeftNow
  <2>2. Left(1, 1, 1) = 5 - 1 + TaskSlots(image[Kernel]) + Later(Kernel)
    BY DEF Left
  <2> QED BY <2>1, <2>2
<1>5. Later(Kernel) = 8 + 3 * (BlkDma + NetDma) + TaskSlots(image[Blk]) + TaskSlots(image[Net])
  BY Zenon DEF Later
<1>6. LeftNow = SlotsNeeded(image) /\ LeftNow \in Nat
  BY <1>3, <1>4, <1>5 DEF SlotsNeeded
<1>7. SlotFirst \in Nat \ {0} /\ Radix \in Nat \ {0} /\ PageSize \in Nat /\ CNodeSize \in Nat
  BY AllocatorAssumption, Constants
<1>8. next + LeftNow <= SlotFirst + SlotsNeeded(image) + Made
  BY <1>1, <1>6, <1>7, MadeNat
<1>9. MemUsed(next, NodesNow) \in Nat
  <2> DEFINE d == (next - 1) \div Radix
             k == NodesNow
  <2>1. d \in Nat
    <3>1. next - 1 \in Nat
      BY <1>1, <1>7
    <3> QED BY <1>7, <3>1, Division, Zenon
  <2>2. k \in Nat /\ next - SlotFirst = 0
    BY <1>1, <1>7 DEF NodesNow, NodesMade
  <2>3. MemUsed(next, NodesNow) = 2 * PageSize * 0 + 2 * CNodeSize * (k + d)
    BY <2>2, Zenon DEF MemUsed, MemNeeded
  <2> HIDE DEF d, k
  <2> QED BY <1>7, <2>1, <2>2, <2>3
<1>10. water <= MemUsed(next, NodesNow)
  BY <1>1, <1>9
<1> QED BY <1>8, <1>10, Zenon DEF Spare

LEMMA SpareSame ==
  ASSUME Spare, UNCHANGED <<allocVars, image, pos, pts>>
  PROVE  Spare'
<1>1. LeftNow' = LeftNow
  BY LeftSame, Zenon DEF LeftNow
<1>2. Made' = Made /\ NodesNow' = NodesNow
  BY Zenon DEF Made, Has, Now, Part, Stage, NodesNow
<1> QED BY <1>1, <1>2, Zenon DEF Spare, allocVars

LEMMA SpareStep ==
  ASSUME image \in Images, PosOK, AllocOK, pts = [t \in Task |-> pts[t]], Enough, Spare, Boot
  PROVE  Spare'
<1>1. image' = image /\ PosOK' /\ (image \in Images)'
  BY StepPos, Zenon
<1>2. /\ next \in Nat /\ SlotFirst \in Nat /\ SlotsNeeded(image) \in Nat
      /\ Made \in Nat /\ Made' \in Nat
      /\ next + LeftNow <= SlotFirst + SlotsNeeded(image) + Made
  <2>1. next \in Nat /\ SlotFirst \in Nat
    BY AllocatorAssumption DEF AllocOK, AllocInv, AllocTypeOK
  <2>2. Made \in Nat /\ (Made \in Nat)'
    BY MadeNat, PTL
  <2>3. SlotsNeeded(image) \in Nat
    <3>1. Kernel \in Task /\ Blk \in Task /\ Net \in Task
      BY DEF Kernel, Blk, Net, Task
    <3>2. /\ TaskSlots(image[Kernel]) \in Nat /\ TaskSlots(image[Blk]) \in Nat
          /\ TaskSlots(image[Net]) \in Nat /\ BlkDma \in Nat /\ NetDma \in Nat
      BY <3>1, Counts, Zenon
    <3> QED BY <3>2 DEF SlotsNeeded
  <2> QED BY <2>1, <2>2, <2>3, Zenon DEF Spare
<1>3. CASE BootNext
  <2>1. LeftNow' = LeftNow /\ NodesNow' = NodesNow
    BY <1>3, NextSpend, Zenon
  <2>2. pos.i > Len(Part) /\ next' = next /\ water' = water
    BY <1>3, Zenon DEF BootNext, allocVars
  <2>3. Made = 0
    BY <2>2, MadeNow, Zenon
  <2>4. (next + LeftNow <= SlotFirst + SlotsNeeded(image) + Made)'
    BY <1>1, <1>2, <2>1, <2>2, <2>3, LeftInt
  <2>5. (water <= MemUsed(next, NodesNow))'
    BY <2>1, <2>2, Zenon DEF Spare, MemUsed, MemNeeded
  <2> QED BY <2>4, <2>5, Zenon DEF Spare
<1>4. CASE BootDone
  BY <1>4, SpareSame, Zenon DEF BootDone, memVars
<1>5. CASE BootMissingTable
  <2>1. Made' = Made + 1
    BY <1>5, MissingSpend, Zenon
  <2>2. /\ next' = next + 1 /\ water' = Place(PageSize) + PageSize
        /\ pos' = pos /\ pos.i <= Len(Part) /\ Now.op \in {"map_page", "device"}
    BY <1>5, Zenon DEF BootMissingTable, AllocateAndRetype, Step
  <2>3. LeftNow' = LeftNow /\ NodesNow' = NodesNow
    BY <1>1, <2>2, LeftSame, Zenon DEF LeftNow, NodesNow
  <2>4. Place(PageSize) + PageSize <= MemUsed(next + 1, NodesNow)
    BY <2>2, Spends, Zenon
  <2>5. (water <= MemUsed(next, NodesNow))'
    BY <2>2, <2>3, <2>4, Zenon DEF MemUsed, MemNeeded
  <2>6. (next + LeftNow <= SlotFirst + SlotsNeeded(image) + Made)'
    BY <1>1, <1>2, <2>1, <2>2, <2>3, LeftInt, SMTT(20)
  <2> QED BY <2>5, <2>6, Zenon DEF Spare
<1>6. CASE Done /\ pos.i <= Len(Part) /\ ~BootNext /\ ~BootDone /\ ~BootMissingTable
  <2> DEFINE left == Left(pos.stage, pos.part, pos.i + 1)
             m == NodesMade(pos.stage, pos.part, pos.i + 1)
  <2>1. LeftNow = left + Cost /\ left \in Nat /\ Counted(NodesNow, m)
    BY <1>6, EntrySpend, Zenon
  <2>2. LeftNow' = left /\ NodesNow' = m
    <3>1. pos'.stage = pos.stage /\ pos'.part = pos.part /\ pos'.i = pos.i + 1
      BY <1>1, <1>6, DonePos, Zenon
    <3> QED BY <1>1, <3>1, LeftSame, Zenon DEF LeftNow, NodesNow
  <2> HIDE DEF left, m
  <2>3. CASE BootOrigin \/ BootObject \/ BootNormalCap \/ BootSlot \/ BootTable \/ BootTake
    <3>1. /\ Now.op \in {"origin", "object", "normal", "slot", "table", "take"}
          /\ next' = next + 1
      BY <2>3, Zenon
      DEF BootOrigin, BootObject, BootNormalCap, BootSlot, BootTable, BootTake, Step,
          AllocateOrigin, AllocateAndRetype, AllocateNormalCap, AllocateSlot
    <3>2. Cost = 1
      BY <3>1, Zenon DEF Cost
    <3>3. Made = 0
      BY <1>6, <3>1, MadeNow
    <3>4. (next + LeftNow <= SlotFirst + SlotsNeeded(image) + Made)'
      BY <1>1, <1>2, <2>1, <2>2, <3>1, <3>2, <3>3
    <3>5. water' <= MemUsed(next + 1, m)
      <4>1. /\ Now.op = "origin" => AlignUp(water, Now.x) + Now.x <= MemUsed(next + 1, m)
            /\ Now.op = "object" => Place(Now.x) + Now.x <= MemUsed(next + 1, m)
            /\ Now.op = "slot" => SlotWater <= MemUsed(next + 1, m)
            /\ Now.op = "normal" => water <= MemUsed(next + 1, m)
            /\ Now.op \notin {"origin", "object"} => Place(PageSize) + PageSize <= MemUsed(next + 1, m)
        BY <1>6, Spends, Zenon DEF m
      <4> QED BY <2>3, <4>1, Zenon
              DEF BootOrigin, BootObject, BootNormalCap, BootSlot, BootTable, BootTake, Step,
                  AllocateOrigin, AllocateAndRetype, AllocateNormalCap, AllocateSlot
    <3>6. (water <= MemUsed(next, NodesNow))'
      BY <2>2, <3>1, <3>5, Zenon DEF MemUsed, MemNeeded
    <3> QED BY <3>4, <3>6, Zenon DEF Spare
  <2>4. CASE BootCopy \/ BootMap \/ BootDevice \/ BootGive
    <3>1. /\ Now.op \in {"copy", "map_page", "frame_map", "device", "give"}
          /\ Now.op \in {"map_page", "device"} => Missing = {}
          /\ next' = next /\ water' = water
      BY <2>4, Zenon DEF BootCopy, BootMap, BootDevice, BootGive, Step, allocVars
    <3>2. Made = Cost
      <4>1. CASE Now.op \in {"map_page", "device"}
        BY <1>6, <3>1, <4>1, MadeNow, Zenon
      <4>2. CASE Now.op \notin {"map_page", "device"}
        <5>1. Made = 0
          BY <1>6, <4>2, MadeNow, Zenon
        <5>2. Cost = 0
          BY <3>1, <4>2 DEF Cost
        <5> QED BY <5>1, <5>2
      <4> QED BY <4>1, <4>2
    <3>3. (next + LeftNow <= SlotFirst + SlotsNeeded(image) + Made)'
      BY <1>1, <1>2, <2>1, <2>2, <3>1, <3>2
    <3>4. m = NodesNow
      BY <2>1, <3>1 DEF Counted
    <3>5. (water <= MemUsed(next, NodesNow))'
      BY <2>2, <3>1, <3>4, Zenon DEF Spare, MemUsed, MemNeeded
    <3> QED BY <3>3, <3>5, Zenon DEF Spare
  <2> QED BY <1>6, <2>3, <2>4, Zenon DEF Boot
<1>7. BootNext \/ BootDone \/ BootMissingTable \/ (Done /\ pos.i <= Len(Part))
  BY BootCases, Zenon DEF DoneStep
<1> QED BY <1>3, <1>4, <1>5, <1>6, <1>7, Zenon

\* The start-up wants a slot or memory that is not there.
Exhausted ==
  \/ Step("origin") /\ (next >= SlotEnd \/ AlignUp(water, Now.x) + Now.x > UtSize)
  \/ Step("object") /\ NoRoom(Now.x)
  \/ Step("normal") /\ next >= SlotEnd
  \/ Step("slot") /\ (next >= SlotEnd \/ SlotWater > UtSize)
  \/ (Step("table") \/ Step("take")) /\ NoRoom(PageSize)
  \/ (Step("map_page") \/ Step("device")) /\ Missing # {} /\ NoRoom(PageSize)

LEMMA NeverExhausted ==
  ASSUME image \in Images, PosOK, AllocOK, Enough, Spare
  PROVE  ~Exhausted
<1> SUFFICES ASSUME Exhausted PROVE FALSE
  OBVIOUS
<1> DEFINE end == SlotFirst + SlotsNeeded(image)
           m == NodesMade(pos.stage, pos.part, pos.i + 1)
           left == Left(pos.stage, pos.part, pos.i + 1)
<1>1. /\ pos.i <= Len(Part)
      /\ \/ Now.op \in {"origin", "object", "normal", "slot", "table", "take"}
         \/ Now.op \in {"map_page", "device"} /\ Missing # {}
  BY Zenon DEF Exhausted, Step
<1>2. /\ next \in Nat \ {0} /\ SlotFirst <= next /\ SlotEnd \in Nat /\ UtSize \in Nat
      /\ SlotFirst \in Nat
  BY AllocatorAssumption DEF AllocOK, AllocInv, AllocTypeOK
<1>3. /\ end <= SlotEnd
      /\ MemNeeded(SlotsNeeded(image), 7 + (end \div Radix)) <= UtSize
  BY Zenon DEF Enough
<1>4. LeftNow = left + Cost /\ left \in Nat
  BY <1>1, EntrySpend, Zenon
<1>5. Made \in Nat /\ Cost \in Nat /\ Made < Cost
  <2>1. CASE Now.op \in {"map_page", "device"} /\ Missing # {}
    BY <1>1, <2>1, MadeNow, MadeNat DEF Cost
  <2>2. CASE Now.op \in {"origin", "object", "normal", "slot", "table", "take"}
    <3>1. Made = 0
      BY <1>1, <2>2, MadeNow
    <3>2. Cost = 1
      BY <2>2, Zenon DEF Cost
    <3> QED BY <3>1, <3>2
  <2> QED BY <1>1, <2>1, <2>2, Zenon
<1>6. SlotsNeeded(image) \in Nat
  <2>1. Kernel \in Task /\ Blk \in Task /\ Net \in Task
    BY DEF Kernel, Blk, Net, Task
  <2>2. /\ TaskSlots(image[Kernel]) \in Nat /\ TaskSlots(image[Blk]) \in Nat
        /\ TaskSlots(image[Net]) \in Nat /\ BlkDma \in Nat /\ NetDma \in Nat
    BY <2>1, Counts, Zenon
  <2> QED BY <2>2 DEF SlotsNeeded
<1>7. next + LeftNow <= end + Made
  BY Zenon DEF Spare
<1>8. end \in Nat /\ end - SlotFirst = SlotsNeeded(image) /\ next + 1 <= end
  BY <1>2, <1>4, <1>5, <1>6, <1>7
<1>9. m \in 0 .. 7 /\ NodesNow \in 0 .. 7
  <2>1. pos.stage \in 1 .. 5 /\ pos.i \in Nat \ {0} /\ pos.i + 1 \in Nat \ {0}
    BY LengthNow DEF PosOK
  <2> QED BY <2>1, NodesRange, Zenon DEF NodesNow
<1>10. next < SlotEnd /\ next + 1 \in Nat \ {0} /\ SlotFirst <= next + 1
  BY <1>2, <1>3, <1>8
<1> HIDE DEF end, m, left
<1> DEFINE need == MemNeeded(SlotsNeeded(image), 7 + (end \div Radix))
           mem == MemUsed(next + 1, m)
<1>11. mem \in Nat /\ need \in Nat /\ mem <= need /\ need <= UtSize
  BY <1>3, <1>8, <1>9, <1>10, MemLimit, Zenon
<1>12. /\ Now.op = "origin" => AlignUp(water, Now.x) + Now.x <= mem
       /\ Now.op = "object" => Place(Now.x) + Now.x <= mem
       /\ Now.op = "slot" => SlotWater <= mem
       /\ Now.op \notin {"origin", "object"} => Place(PageSize) + PageSize <= mem
  BY <1>1, Spends, Zenon DEF m
<1> HIDE DEF need, mem
<1>13. \A a \in Nat : a <= mem => ~(a > UtSize)
  BY <1>2, <1>11
<1>14. /\ SlotWater \in Nat
       /\ \A n \in Sizes : AlignUp(water, n) + n \in Nat /\ Place(n) + n \in Nat
  <2>1. water \in Nat /\ \A n \in Sizes : n \in Nat \ {0}
    BY AllocatorAssumption DEF AllocOK, AllocInv, AllocTypeOK
  <2>2. SlotWater \in Nat
    BY <1>2, <2>1, SlotCost, Zenon
  <2>3. \A n \in Sizes : AlignUp(water, n) \in Nat /\ Place(n) \in Nat
    BY <2>1, <2>2, Gap, Zenon DEF Place
  <2> QED BY <2>1, <2>2, <2>3
<1>15. ~(next >= SlotEnd)
  BY <1>2, <1>10
<1>16. PageSize \in Sizes /\ (Step("origin") \/ Step("object") => Now.x \in Sizes)
  BY AtObject, AtOrigin, Constants, Zenon
<1>17. /\ Step("origin") => ~(AlignUp(water, Now.x) + Now.x > UtSize)
       /\ Step("object") => ~NoRoom(Now.x)
       /\ Step("slot") => ~(SlotWater > UtSize)
  BY <1>12, <1>13, <1>14, <1>15, <1>16, Zenon DEF Step, NoRoom
<1>18. Now.op \notin {"origin", "object"} => ~NoRoom(PageSize)
  BY <1>12, <1>13, <1>14, <1>15, <1>16, Zenon DEF NoRoom
<1> QED BY <1>15, <1>17, <1>18 DEF Exhausted, Step
=============================================================================
