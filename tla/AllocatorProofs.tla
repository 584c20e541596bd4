--------------------------- MODULE AllocatorProofs --------------------------
(***************************************************************************)
(* ObjectAllocator implements CapPool, for every CNode size, range of      *)
(* slots and amount of memory.  What makes a step a Take is that the       *)
(* memory in use lies below water, and that nothing belongs yet to the     *)
(* slots from next on: they hold no object, and no CNode was made for      *)
(* them.                                                                   *)
(***************************************************************************)
EXTENDS ObjectAllocator, FiniteSetsExt, NaturalsInduction, WellFoundedInduction, TLAPS

\* The slots from next on are untouched.
Untouched ==
  \A s \in Slot : s >= next =>
    size[s] = 0 /\ (s % Radix = 0 => s \div Radix \notin cnodes)

\* The memory in use lies below water.
BelowWater == \A s \in Slot : MemOf(s) \subseteq 0 .. water - 1

AllocInv == AllocTypeOK /\ Untouched /\ BelowWater

LEMMA Division ==
  ASSUME NEW a \in Nat, NEW n \in Nat \ {0}
  PROVE  /\ a \div n \in Nat /\ a % n \in 0 .. n - 1
         /\ a = n * (a \div n) + (a % n)
  OBVIOUS

LEMMA Aligned ==
  ASSUME NEW w \in Nat, NEW n \in Nat \ {0}
  PROVE  AlignUp(w, n) \in Nat /\ AlignUp(w, n) >= w
<1> DEFINE q == (w + n - 1) \div n
           r == (w + n - 1) % n
<1>0. w + n - 1 \in Nat
  OBVIOUS
<1>1. q \in Nat /\ r \in 0 .. n - 1 /\ w + n - 1 = n * q + r
  BY <1>0, Division, Zenon
<1> HIDE DEF q, r
<1>2. q * n \in Nat /\ q * n = n * q
  BY <1>1
<1>3. q * n >= w
  BY <1>1, <1>2
<1> QED
  BY <1>2, <1>3, Zenon DEF AlignUp, q

LEMMA Slots ==
  /\ Slot \subseteq Nat
  /\ \A s \in Slot : s > 0 /\ s < SlotEnd
  /\ next \in SlotFirst .. SlotEnd /\ next < SlotEnd => next \in Slot
  BY AllocatorAssumption DEF Slot

LEMMA AllocInitInv == AllocInit => AllocInv /\ Pool!PoolInit
<1> SUFFICES ASSUME AllocInit PROVE AllocInv /\ Pool!PoolInit
  OBVIOUS
<1>1. AllocTypeOK
  BY AllocatorAssumption, Slots DEF AllocInit, AllocTypeOK, Slot
<1>2. ASSUME NEW s \in Slot, s % Radix = 0
      PROVE  s \div Radix # 0
  <2>1. Radix \in Nat \ {0} /\ s \in Nat /\ s > 0 /\ 0 \in Nat
    BY AllocatorAssumption, Slots
  <2>2. s = Radix * (s \div Radix) + (s % Radix)
    BY <2>1, Division
  <2> QED
    BY <2>1, <2>2, <1>2
<1>3. Untouched
  BY <1>2 DEF AllocInit, Untouched
<1>4. ASSUME NEW s \in Slot
      PROVE  MemOf(s) = {}
  <2>1. ~(s % Radix = 0 /\ s \div Radix \in cnodes)
    BY <1>2, Zenon DEF AllocInit
  <2>2. at[s] = 0 /\ size[s] = 0
    BY Zenon DEF AllocInit
  <2>3. Extent(at[s], size[s]) = {}
    BY <2>2 DEF Extent
  <2> QED
    BY <2>1, <2>3, Zenon DEF MemOf
<1>5. BelowWater
  BY <1>4, Zenon DEF BelowWater
<1>6. SlotFirst .. next - 1 = {}
  BY AllocatorAssumption DEF AllocInit
<1>7. [s \in Slot |-> MemOf(s)] = [s \in Slot |-> {}]
  BY <1>4, Zenon
<1>8. Pool!PoolInit
  BY <1>6, <1>7, Zenon DEF Pool!PoolInit
<1> QED
  BY <1>1, <1>3, <1>5, <1>8, Zenon DEF AllocInv

\* Every operation of the allocator keeps the invariant and takes one slot.
LEMMA AllocNextInv == AllocInv /\ AllocNext => AllocInv' /\ Pool!PoolNext
\* A CNode index belongs to one slot.
<1>OneSlotPerCNode.
    ASSUME NEW s \in Nat, NEW t \in Nat,
           s % Radix = 0, t % Radix = 0, s \div Radix = t \div Radix
    PROVE  s = t
  <2> USE <1>OneSlotPerCNode
  <2>1. Radix \in Nat \ {0}
    BY AllocatorAssumption
  <2>2. s = Radix * (s \div Radix) + (s % Radix) /\ t = Radix * (t \div Radix) + (t % Radix)
    BY <2>1, Division
  <2> QED
    BY <2>2
<1>Apart.
    \A w, v \in Nat : \A x \in 0 .. w - 1 : x \notin w .. v - 1
  OBVIOUS
<1>Widen.
    \A w, v \in Nat : w <= v =>
      0 .. w - 1 \subseteq 0 .. v - 1 /\ w .. v - 1 \subseteq 0 .. v - 1
  OBVIOUS
\* What all steps have in common: the slot u is taken, with memory above water.
<1>TakingIsTake.
    ASSUME AllocInv, NEW u \in Slot, u = next, next' = u + 1,
           water' \in water .. UtSize,
           MemOf(u)' \subseteq water .. water' - 1,
           \A s \in Slot \ {u} : MemOf(s)' = MemOf(s)
    PROVE  Pool!Take(u)
  <2> USE <1>TakingIsTake
  <2>1. u \in Nat /\ u >= SlotFirst /\ SlotFirst \in Nat /\ u < SlotEnd
    BY Slots, AllocatorAssumption DEF Slot
  <2>2. u \notin SlotFirst .. next - 1
    BY <2>1
  <2>3. (SlotFirst .. next - 1)' = (SlotFirst .. next - 1) \cup {u}
    BY <2>1, AllocatorAssumption
  <2>4. MemOf(u)' \subseteq Unit
    BY AllocatorAssumption DEF Unit, AllocInv, AllocTypeOK
  <2>5. ASSUME NEW t \in SlotFirst .. next - 1
        PROVE  t \in Slot /\ MemOf(t) \cap MemOf(u)' = {}
    <3>1. t \in Slot
      BY <2>1, AllocatorAssumption DEF Slot
    <3>2. MemOf(t) \subseteq 0 .. water - 1
      BY <3>1, Zenon DEF AllocInv, BelowWater
    <3>3. water \in Nat /\ water' \in Nat
      BY AllocatorAssumption DEF AllocInv, AllocTypeOK
    <3>4. \A x \in 0 .. water - 1 : x \notin water .. water' - 1
      BY <3>3, <1>Apart, Zenon
    <3> QED
      BY <3>1, <3>2, <3>4, Zenon
  <2> DEFINE mem == [s \in Slot |-> MemOf(s)]
  <2>6. mem'[u] = MemOf(u)' /\ \A t \in Slot : mem[t] = MemOf(t)
    BY Zenon
  <2>7. mem' = [mem EXCEPT ![u] = mem'[u]]
    BY <2>6, Zenon
  <2>8. \A t \in SlotFirst .. next - 1 : mem[t] \cap mem'[u] = {}
    BY <2>5, <2>6, Zenon
  <2> QED
    BY <2>2, <2>3, <2>4, <2>6, <2>7, <2>8, Zenon DEF Pool!Take
\* The parts of a step.  allocate_slot keeps the memory in use in place.
<1>SlotMemory.
    ASSUME AllocInv
    PROVE  SlotWater \in Nat /\ SlotWater >= water
  <2> USE <1>SlotMemory
  <2>1. water \in Nat /\ CNodeSize \in Nat \ {0}
    BY AllocatorAssumption DEF AllocInv, AllocTypeOK
  <2>2. AlignUp(water, CNodeSize) \in Nat /\ AlignUp(water, CNodeSize) >= water
    BY <2>1, Aligned
  <2> QED
    BY <2>1, <2>2 DEF SlotWater
\* A step that makes at most the CNode of u, and changes the object of u only.
<1>OthersKeep.
    ASSUME AllocInv, NEW u \in Slot, u = next,
           cnodes' = SlotCNodes, nodeAt' = SlotNodeAt,
           NEW s \in Slot \ {u}, at'[s] = at[s], size'[s] = size[s]
    PROVE  MemOf(s)' = MemOf(s)
  <2> USE <1>OthersKeep
  <2>1. nodeAt'[s] = nodeAt[s]
    BY Zenon DEF SlotNodeAt, AllocInv, AllocTypeOK
  <2>2. CASE s % Radix # 0
    BY <2>2, Zenon DEF MemOf
  <2>3. CASE s % Radix = 0
    <3>1. s \div Radix \in cnodes' <=> s \div Radix \in cnodes
      <4>1. CASE ~NeedsCNode
        BY <4>1, Zenon DEF SlotCNodes
      <4>2. CASE NeedsCNode
        <5>1. s \div Radix # u \div Radix
          BY <2>3, <4>2, <1>OneSlotPerCNode, Slots, Zenon DEF NeedsCNode
        <5> QED
          BY <4>2, <5>1, Zenon DEF SlotCNodes
      <4> QED
        BY <4>1, <4>2
    <3> QED
      BY <2>1, <3>1, Zenon DEF MemOf
  <2> QED
    BY <2>2, <2>3
\* The CNode that is made for u lies between water and SlotWater.
<1>NodeMemory.
    ASSUME AllocInv, SlotOk, NEW u \in Slot, u = next,
           cnodes' = SlotCNodes, nodeAt' = SlotNodeAt
    PROVE  IF u % Radix = 0 /\ u \div Radix \in cnodes'
           THEN Extent(nodeAt'[u], CNodeSize) \subseteq water .. SlotWater - 1
           ELSE TRUE
  <2> USE <1>NodeMemory
  <2>1. CASE ~NeedsCNode
    BY <2>1, Zenon DEF NeedsCNode
  <2>2. CASE NeedsCNode
    <3>1. nodeAt'[u] = AlignUp(water, CNodeSize)
      BY <2>2, Zenon DEF SlotNodeAt, AllocInv, AllocTypeOK
    <3>2. water \in Nat /\ CNodeSize \in Nat \ {0}
      BY AllocatorAssumption DEF AllocInv, AllocTypeOK
    <3>3. AlignUp(water, CNodeSize) \in Nat /\ AlignUp(water, CNodeSize) >= water
      BY <3>2, Aligned, Zenon
    <3>4. SlotWater = AlignUp(water, CNodeSize) + CNodeSize
      BY <2>2, Zenon DEF SlotWater
    <3>5. Extent(nodeAt'[u], CNodeSize) \subseteq water .. SlotWater - 1
      BY <3>1, <3>2, <3>3, <3>4 DEF Extent
    <3> QED
      BY <3>5
  <2> QED
    BY <2>1, <2>2
\* What a step does, seen from its slot u.
<1>StepTakes.
    ASSUME AllocInv, AllocNext
    PROVE  \E u \in Slot :
             /\ u = next /\ next' = u + 1
             /\ water' \in water .. UtSize
             /\ MemOf(u)' \subseteq water .. water' - 1
             /\ \A s \in Slot \ {u} : MemOf(s)' = MemOf(s)
  <2> USE <1>StepTakes
  <2>1. PICK u : u = next
    OBVIOUS
  <2>2. u \in Slot
    <3>1. next < SlotEnd
      BY Zenon DEF AllocNext, AllocateSlot, AllocateNormalCap, AllocateAndRetype,
                   AllocateOrigin, SlotOk, RetypeOk, OriginOk
    <3> QED
      BY <2>1, <3>1, Slots, Zenon DEF AllocInv, AllocTypeOK
  <2>3. next' = u + 1
    BY <2>1, Zenon DEF AllocNext, AllocateSlot, AllocateNormalCap, AllocateAndRetype,
                       AllocateOrigin
  <2>4. water \in Nat /\ UtSize \in Nat /\ water <= UtSize
    BY AllocatorAssumption DEF AllocInv, AllocTypeOK
  <2>5. size[u] = 0 /\ (u % Radix = 0 => u \div Radix \notin cnodes)
    BY <2>1, <2>2, Slots DEF AllocInv, Untouched
  <2> DEFINE Goal == /\ water' \in water .. UtSize
                     /\ MemOf(u)' \subseteq water .. water' - 1
                     /\ \A s \in Slot \ {u} : MemOf(s)' = MemOf(s)
  <2>6. ASSUME AllocateSlot
        PROVE  Goal
    <3>1. /\ SlotOk /\ water' = SlotWater /\ cnodes' = SlotCNodes /\ nodeAt' = SlotNodeAt
          /\ at' = at /\ size' = size
      BY <2>6, Zenon DEF AllocateSlot
    <3>2. SlotWater \in water .. UtSize
      BY <2>4, <3>1, <1>SlotMemory DEF SlotOk, SlotWater
    <3>3. Extent(at'[u], size'[u]) = {}
      <4>1. at[u] \in Nat
        BY <2>2 DEF AllocInv, AllocTypeOK
      <4> QED
        BY <2>5, <3>1, <4>1 DEF Extent
    <3>4. MemOf(u)' \subseteq water .. water' - 1
      BY <2>1, <2>2, <3>1, <3>3, <1>NodeMemory, Zenon DEF MemOf
    <3>5. \A s \in Slot \ {u} : MemOf(s)' = MemOf(s)
      BY <2>1, <2>2, <3>1, <1>OthersKeep, Zenon
    <3> QED
      BY <3>1, <3>2, <3>4, <3>5, Zenon
  <2>7. ASSUME AllocateNormalCap
        PROVE  Goal
    <3>1. water' = water /\ cnodes' = cnodes /\ nodeAt' = nodeAt /\ at' = at /\ size' = size
      BY <2>7, Zenon DEF AllocateNormalCap
    <3>2. \A s \in Slot : MemOf(s)' = MemOf(s)
      BY <3>1, Zenon DEF MemOf
    <3>3. Extent(at[u], size[u]) = {}
      <4>1. at[u] \in Nat
        BY <2>2 DEF AllocInv, AllocTypeOK
      <4> QED
        BY <2>5, <4>1 DEF Extent
    <3>4. MemOf(u) = {}
      BY <2>5, <3>3, Zenon DEF MemOf
    <3>5. water \in water .. UtSize
      BY <2>4
    <3> QED
      BY <2>2, <3>1, <3>2, <3>4, <3>5, Zenon
  <2>8. ASSUME NEW n \in Sizes, AllocateAndRetype(n)
        PROVE  Goal
    <3>1. /\ SlotOk /\ water' = Place(n) + n /\ cnodes' = SlotCNodes /\ nodeAt' = SlotNodeAt
          /\ at' = [at EXCEPT ![u] = Place(n)] /\ size' = [size EXCEPT ![u] = n]
          /\ Place(n) + n <= UtSize
      BY <2>1, <2>8, Zenon DEF AllocateAndRetype, RetypeOk
    <3>2. n \in Nat \ {0} /\ SlotWater \in Nat /\ SlotWater >= water
      BY AllocatorAssumption, <1>SlotMemory
    <3>3. Place(n) \in Nat /\ Place(n) >= SlotWater
      BY <3>2, Aligned, Zenon DEF Place
    <3>4. water' \in water .. UtSize
      BY <2>4, <3>1, <3>2, <3>3
    <3>5. at'[u] = Place(n) /\ size'[u] = n
      BY <2>2, <3>1, Zenon DEF AllocInv, AllocTypeOK
    <3>6. Extent(at'[u], size'[u]) \subseteq water .. water' - 1
      BY <2>4, <3>1, <3>2, <3>3, <3>5 DEF Extent
    <3>7. water .. SlotWater - 1 \subseteq water .. water' - 1
      BY <2>4, <3>1, <3>2, <3>3
    <3>8. MemOf(u)' \subseteq water .. water' - 1
      BY <2>1, <2>2, <3>1, <3>6, <3>7, <1>NodeMemory, Zenon DEF MemOf
    <3>9. \A s \in Slot \ {u} : at'[s] = at[s] /\ size'[s] = size[s]
      BY <3>1, Zenon DEF AllocInv, AllocTypeOK
    <3>10. \A s \in Slot \ {u} : MemOf(s)' = MemOf(s)
      BY <2>1, <2>2, <3>1, <3>9, <1>OthersKeep, Zenon
    <3> QED
      BY <3>4, <3>8, <3>10, Zenon
  <2>9. ASSUME NEW n \in Sizes, AllocateOrigin(n)
        PROVE  Goal
    <3>1. /\ water' = AlignUp(water, n) + n /\ cnodes' = cnodes /\ nodeAt' = nodeAt
          /\ at' = [at EXCEPT ![u] = AlignUp(water, n)] /\ size' = [size EXCEPT ![u] = n]
          /\ AlignUp(water, n) + n <= UtSize
      BY <2>1, <2>9, Zenon DEF AllocateOrigin, OriginOk
    <3>2. n \in Nat \ {0}
      BY AllocatorAssumption
    <3>3. AlignUp(water, n) \in Nat /\ AlignUp(water, n) >= water
      BY <2>4, <3>2, Aligned, Zenon
    <3>4. water' \in water .. UtSize
      BY <2>4, <3>1, <3>2, <3>3
    <3>5. at'[u] = AlignUp(water, n) /\ size'[u] = n
      BY <2>2, <3>1, Zenon DEF AllocInv, AllocTypeOK
    <3>6. Extent(at'[u], size'[u]) \subseteq water .. water' - 1
      BY <2>4, <3>1, <3>2, <3>3, <3>5 DEF Extent
    <3>7. MemOf(u)' \subseteq water .. water' - 1
      BY <2>5, <3>1, <3>6, Zenon DEF MemOf
    <3>8. \A s \in Slot \ {u} : at'[s] = at[s] /\ size'[s] = size[s]
      BY <3>1, Zenon DEF AllocInv, AllocTypeOK
    <3>9. \A s \in Slot \ {u} : MemOf(s)' = MemOf(s)
      BY <3>1, <3>8, Zenon DEF MemOf
    <3> QED
      BY <3>4, <3>7, <3>9, Zenon
  <2>10. Goal
    BY <2>6, <2>7, <2>8, <2>9, Zenon DEF AllocNext
  <2> QED
    BY <2>1, <2>2, <2>3, <2>10, Zenon
<1> SUFFICES ASSUME AllocInv, AllocNext PROVE AllocInv' /\ Pool!PoolNext
  OBVIOUS
<1>1. PICK u \in Slot :
        /\ u = next /\ next' = u + 1
        /\ water' \in water .. UtSize
        /\ MemOf(u)' \subseteq water .. water' - 1
        /\ \A s \in Slot \ {u} : MemOf(s)' = MemOf(s)
  BY <1>StepTakes, Zenon
<1>2. /\ water \in Nat /\ UtSize \in Nat /\ water <= UtSize
      /\ u \in Nat /\ u >= SlotFirst /\ u < SlotEnd /\ SlotFirst \in Nat /\ SlotEnd \in Nat
  BY AllocatorAssumption, Slots DEF AllocInv, AllocTypeOK, Slot
<1>3. /\ cnodes' = SlotCNodes \/ cnodes' = cnodes
      /\ nodeAt' = SlotNodeAt \/ nodeAt' = nodeAt
  BY Zenon DEF AllocNext, AllocateSlot, AllocateNormalCap, AllocateAndRetype, AllocateOrigin
<1>4. \A s \in Slot \ {u} : size'[s] = size[s]
  BY <1>1, Zenon DEF AllocNext, AllocateSlot, AllocateNormalCap, AllocateAndRetype,
                     AllocateOrigin, AllocInv, AllocTypeOK
<1>5. AllocTypeOK'
  <2>1. next' \in SlotFirst .. SlotEnd /\ water' \in 0 .. UtSize
    BY <1>1, <1>2
  <2>2. u \div Radix \in Nat
    BY <1>2, Division, AllocatorAssumption
  <2>3. cnodes' \subseteq Nat
    BY <1>1, <1>3, <2>2, Zenon DEF SlotCNodes, AllocInv, AllocTypeOK
  <2>4. CNodeSize \in Nat \ {0}
    BY AllocatorAssumption
  <2>5. AlignUp(water, CNodeSize) \in Nat
    BY <1>2, <2>4, Aligned, Zenon
  <2>6. nodeAt' \in [Slot -> Nat]
    BY <1>1, <1>3, <2>5, Zenon DEF SlotNodeAt, AllocInv, AllocTypeOK
  <2>7. \A n \in Sizes : n \in Nat /\ Place(n) \in Nat /\ AlignUp(water, n) \in Nat
    <3> SUFFICES ASSUME NEW n \in Sizes
                 PROVE  n \in Nat /\ Place(n) \in Nat /\ AlignUp(water, n) \in Nat
      OBVIOUS
    <3>1. n \in Nat \ {0} /\ SlotWater \in Nat
      BY AllocatorAssumption, <1>SlotMemory
    <3> QED
      BY <1>2, <3>1, Aligned, Zenon DEF Place
  <2>8. at' \in [Slot -> Nat] /\ size' \in [Slot -> Nat]
    BY <2>7, Zenon DEF AllocNext, AllocateSlot, AllocateNormalCap, AllocateAndRetype,
                       AllocateOrigin, AllocInv, AllocTypeOK
  <2> QED
    BY <2>1, <2>3, <2>6, <2>8, Zenon DEF AllocTypeOK
<1>6. Untouched'
  <2> SUFFICES ASSUME NEW s \in Slot, s >= u + 1
               PROVE  size'[s] = 0 /\ (s % Radix = 0 => s \div Radix \notin cnodes')
    BY <1>1, Zenon DEF Untouched
  <2>1. s # u /\ s >= next /\ s \in Nat
    BY <1>1, <1>2, Slots
  <2>2. size[s] = 0 /\ (s % Radix = 0 => s \div Radix \notin cnodes)
    BY <2>1, Zenon DEF AllocInv, Untouched
  <2>3. size'[s] = 0
    BY <1>4, <2>1, <2>2, Zenon
  <2>4. ASSUME s % Radix = 0, NeedsCNode
        PROVE  s \div Radix # u \div Radix
    BY <1>1, <1>2, <2>1, <2>4, <1>OneSlotPerCNode, Zenon DEF NeedsCNode
  <2>5. s % Radix = 0 => s \div Radix \notin cnodes'
    BY <1>1, <1>3, <2>2, <2>4, Zenon DEF SlotCNodes
  <2> QED
    BY <2>3, <2>5
<1>7. BelowWater'
  <2>1. 0 .. water - 1 \subseteq 0 .. water' - 1 /\ water .. water' - 1 \subseteq 0 .. water' - 1
    <3>1. water' \in Nat /\ water <= water'
      BY <1>1, <1>2
    <3> QED
      BY <1>2, <3>1, <1>Widen, Zenon
  <2> QED
    BY <1>1, <2>1, Zenon DEF AllocInv, BelowWater
<1>8. Pool!PoolNext
  <2>1. Pool!Take(u)
    BY <1>1, <1>TakingIsTake, Zenon
  <2> QED
    BY <2>1, Zenon DEF Pool!PoolNext
<1> QED
  BY <1>5, <1>6, <1>7, <1>8, Zenon DEF AllocInv

LEMMA AllocSame == AllocInv /\ UNCHANGED allocVars => AllocInv'
  BY Zenon DEF allocVars, AllocInv, AllocTypeOK, Untouched, BelowWater, MemOf

\* The CNode of the next slot is there, or made with it.
NodeReady == next % Radix = 0 \/ next \div Radix \in cnodes

\* The range of slots is empty, or the untyped has no room for an object of n
\* units behind the CNode that its slot may need.
NoRoom(n) == next >= SlotEnd \/ Place(n) + n > UtSize

\* A slot has a CNode or gets one, and the entry for it in the root CNode is
\* empty then.
LEMMA SlotSuffices ==
  ASSUME AllocInv, NodeReady, next < SlotEnd, SlotWater <= UtSize
  PROVE  SlotOk /\ next \div Radix \in SlotCNodes
<1>1. next \in Slot /\ next >= next
  BY Slots, AllocatorAssumption DEF AllocInv, AllocTypeOK
<1>2. next \div Radix \in SlotCNodes
  BY Zenon DEF NodeReady, SlotCNodes, NeedsCNode
<1>3. NeedsCNode => next \div Radix \notin cnodes
  BY <1>1, Zenon DEF AllocInv, Untouched, NeedsCNode
<1>4. NeedsCNode => AlignUp(water, CNodeSize) + CNodeSize <= UtSize
  BY Zenon DEF SlotWater
<1> QED BY <1>2, <1>3, <1>4, Zenon DEF SlotOk

LEMMA RoomSuffices ==
  ASSUME AllocInv, NodeReady, NEW n \in Sizes, ~NoRoom(n)
  PROVE  RetypeOk(n)
<1>1. /\ n \in Nat \ {0} /\ CNodeSize \in Nat \ {0} /\ UtSize \in Nat /\ water \in Nat
      /\ SlotEnd \in Nat /\ next \in Nat
  BY AllocatorAssumption DEF AllocInv, AllocTypeOK
<1>2. AlignUp(water, CNodeSize) \in Nat
  BY <1>1, Aligned, Zenon
<1>3. SlotWater \in Nat
  BY <1>1, <1>2 DEF SlotWater
<1>4. Place(n) \in Nat /\ Place(n) >= SlotWater
  BY <1>1, <1>3, Aligned, Zenon DEF Place
<1>5. next < SlotEnd /\ Place(n) + n <= UtSize
  BY <1>1, <1>4 DEF NoRoom
<1>6. SlotWater <= UtSize
  BY <1>1, <1>3, <1>4, <1>5
<1> QED BY <1>5, <1>6, SlotSuffices, Zenon DEF RetypeOk

\* The allocator's tables keep their types, and the slots and the memory in
\* use stay below its two marks.
THEOREM AllocatorInvariant == AllocSpec => []AllocInv
<1>1. AllocInit => AllocInv
  BY AllocInitInv
<1>2. AllocInv /\ [AllocNext]_allocVars => AllocInv'
  BY AllocSame, AllocNextInv, Zenon
<1> QED
  BY <1>1, <1>2, PTL DEF AllocSpec

\* Every step of obj_allocator.rs is a step of CapPool: each slot is handed out
\* at most once, and the memory retyped into it belongs to no other slot.
THEOREM AllocatorImplementsPool == AllocSpec => KeepsPromise
<1>1. AllocInit => Pool!PoolInit
  BY AllocInitInv
<1>2. AllocInv /\ [AllocNext]_allocVars => [Pool!PoolNext]_(Pool!poolVars)
  <2>1. AllocInv /\ AllocNext => Pool!PoolNext
    BY AllocNextInv, Zenon
  <2>2. UNCHANGED allocVars => UNCHANGED Pool!poolVars
    BY Zenon DEF allocVars, Pool!poolVars, MemOf
  <2> QED
    BY <2>1, <2>2
<1> QED
  BY <1>1, <1>2, AllocatorInvariant, PTL DEF AllocSpec, KeepsPromise, Pool!PoolSpec

(* Numbers of pages.                                                       *)

LEMMA SmallestOf ==
  ASSUME NEW S, S \subseteq Nat, S # {}
  PROVE  Min(S) \in S /\ \A y \in S : Min(S) <= y
<1> DEFINE R == OpToRel(<, Nat)
<1>1. PICK x \in S : \A y \in S : ~ (<<y, x>> \in R)
  BY NatLessThanWellFounded, WFMin, Zenon
<1>2. \A y \in S : ~ (y < x)
  BY <1>1, Zenon DEF OpToRel
<1>3. \A y \in S : x <= y
  BY <1>2
<1> QED BY <1>3, Zenon DEF Min

LEMMA LargestOf ==
  ASSUME NEW S, NEW m \in Nat, S \subseteq 0 .. m, S # {}
  PROVE  Max(S) \in S /\ \A y \in S : Max(S) >= y
<1> DEFINE T == {m - y : y \in S}
<1>1. T \subseteq Nat /\ T # {}
  <2>1. T \subseteq Nat
    OBVIOUS
  <2>2. PICK s \in S : TRUE
    BY Zenon
  <2>3. m - s \in T
    BY Zenon
  <2> QED BY <2>1, <2>3, Zenon
<1>2. PICK x \in S : Min(T) = m - x
  BY <1>1, SmallestOf, Zenon
<1>3. \A y \in S : m - x <= m - y
  BY <1>1, <1>2, SmallestOf, Zenon
<1>4. \A y \in S : x >= y
  BY <1>3
<1> QED BY <1>4, Zenon DEF Max

LEMMA TimesMonotone ==
  ASSUME NEW x \in Nat, NEW y \in Nat, NEW z \in Nat, x <= y
  PROVE  x * z \in Nat /\ y * z \in Nat /\ x * z <= y * z
<1>1. PICK d \in Nat : y = x + d
  <2>1. y - x \in Nat /\ y = x + (y - x)
    OBVIOUS
  <2> QED BY <2>1, Zenon
<1>2. (x + d) * z = x * z + d * z
  OBVIOUS
<1>3. x * z \in Nat /\ d * z \in Nat
  OBVIOUS
<1> QED BY <1>1, <1>2, <1>3

\* The quotient is the only one with a remainder.
LEMMA Quotient ==
  ASSUME NEW n \in Nat \ {0}, NEW q \in Nat, NEW r \in 0 .. n - 1
  PROVE  (q * n + r) \div n = q /\ (q * n + r) % n = r
<1> DEFINE a == q * n + r
           u == a \div n
           v == a % n
<1>1. a \in Nat /\ q * n \in Nat
  OBVIOUS
<1> HIDE DEF a
<1>2. u \in Nat /\ v \in 0 .. n - 1 /\ a = n * u + v
  BY <1>1, Division, Zenon
<1> HIDE DEF u, v
<1>3. n * u = u * n /\ u * n \in Nat
  BY <1>2
<1>4. ~(u <= q - 1)
  <2> SUFFICES ASSUME u + 1 <= q PROVE FALSE
    BY <1>2
  <2>1. (u + 1) * n <= q * n
    <3>1. u + 1 \in Nat
      BY <1>2
    <3> QED BY <3>1, TimesMonotone
  <2>2. (u + 1) * n = u * n + n
    BY <1>2
  <2> QED BY <1>1, <1>2, <1>3, <2>1, <2>2 DEF a
<1>5. ~(q <= u - 1)
  <2> SUFFICES ASSUME q + 1 <= u PROVE FALSE
    BY <1>2
  <2>1. (q + 1) * n <= u * n
    <3>1. q + 1 \in Nat
      OBVIOUS
    <3> QED BY <1>2, <3>1, TimesMonotone
  <2>2. (q + 1) * n = q * n + n
    OBVIOUS
  <2> QED BY <1>1, <1>2, <1>3, <2>1, <2>2 DEF a
<1>6. u = q
  BY <1>2, <1>4, <1>5
<1>7. v = r
  BY <1>1, <1>2, <1>3, <1>6 DEF a
<1> QED BY <1>6, <1>7, Zenon DEF u, v, a

LEMMA DivMonotone ==
  ASSUME NEW n \in Nat \ {0}, NEW a \in Nat, NEW b \in Nat, a <= b
  PROVE  a \div n \in Nat /\ b \div n \in Nat /\ a \div n <= b \div n
<1> DEFINE q == a \div n
           r == a % n
           u == b \div n
           v == b % n
<1>1. q \in Nat /\ r \in 0 .. n - 1 /\ a = n * q + r
  BY Division, Zenon
<1>2. u \in Nat /\ v \in 0 .. n - 1 /\ b = n * u + v
  BY Division, Zenon
<1> HIDE DEF q, r, u, v
<1>3. ~(u + 1 <= q)
  <2> SUFFICES ASSUME u + 1 <= q PROVE FALSE
    OBVIOUS
  <2>1. (u + 1) * n <= q * n
    <3>1. u + 1 \in Nat
      BY <1>2
    <3> QED BY <1>1, <3>1, TimesMonotone
  <2>2. (u + 1) * n = u * n + n /\ u * n = n * u /\ q * n = n * q /\ u * n \in Nat /\ q * n \in Nat
    BY <1>1, <1>2
  <2> QED BY <1>1, <1>2, <2>1, <2>2
<1>4. q <= u
  BY <1>1, <1>2, <1>3
<1> QED BY <1>1, <1>2, <1>4, Zenon DEF q, u

=============================================================================
