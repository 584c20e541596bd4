--------------------------- MODULE ObjectAllocator --------------------------
(***************************************************************************)
(* common/src/obj_allocator.rs over the CSpace that rebuild_cspace leaves: *)
(* a root CNode whose entry i is the CNode of the slots i * Radix and      *)
(* following.  Entry 0 is the initial CNode; allocate_slot makes each of   *)
(* the others when it meets its first slot.                                *)
(*                                                                         *)
(* Every operation runs under the lock of OBJ_ALLOCATOR and is one step.   *)
(* What fails is an unwrap or an expect and ends the task, so failing is   *)
(* being disabled; the module that uses the allocator makes it a panic.    *)
(***************************************************************************)
EXTENDS Integers

CONSTANTS
  Radix,               \* slots of a CNode: 2^12
  SlotFirst, SlotEnd,  \* empty_slots at the start
  UtSize,              \* bound: units of memory in the untyped
  CNodeSize,           \* units of a CNode
  Sizes                \* the sizes of objects that are asked for

ASSUME AllocatorAssumption ==
  /\ Radix \in Nat \ {0}
  /\ SlotFirst \in Nat /\ SlotEnd \in Nat /\ 0 < SlotFirst /\ SlotFirst <= SlotEnd
  /\ SlotFirst < Radix
  /\ UtSize \in Nat /\ CNodeSize \in Nat \ {0}
  /\ Sizes \subseteq Nat \ {0} /\ CNodeSize \in Sizes

Slot == SlotFirst .. SlotEnd - 1
Unit == 0 .. UtSize - 1

VARIABLES
  next,    \* empty_slots.start
  cnodes,  \* the entries of the root CNode that hold a CNode
  nodeAt,  \* where in memory the CNode made for a slot begins
  at,      \* where the object of a slot begins
  size,    \* its units; 0: no object of the untyped is in the slot
  water    \* the units of the untyped that are used up

allocVars == <<next, cnodes, nodeAt, at, size, water>>

AllocInit ==
  /\ next = SlotFirst
  /\ cnodes = {0}
  /\ nodeAt = [s \in Slot |-> 0]
  /\ at = [s \in Slot |-> 0]
  /\ size = [s \in Slot |-> 0]
  /\ water = 0

-----------------------------------------------------------------------------
\* untyped_retype: an object of n units begins at a multiple of n.
AlignUp(w, n) == ((w + n - 1) \div n) * n

NeedsCNode == next % Radix = 0

\* allocate_slot: the range and the memory suffice for it.
SlotOk ==
  /\ next < SlotEnd
  /\ NeedsCNode => /\ next \div Radix \notin cnodes
                   /\ AlignUp(water, CNodeSize) + CNodeSize <= UtSize

\* The memory and the CNodes once allocate_slot is done.
SlotWater  == IF NeedsCNode THEN AlignUp(water, CNodeSize) + CNodeSize ELSE water
SlotCNodes == IF NeedsCNode THEN cnodes \cup {next \div Radix} ELSE cnodes
SlotNodeAt ==
  IF NeedsCNode THEN [nodeAt EXCEPT ![next] = AlignUp(water, CNodeSize)] ELSE nodeAt

\* allocate_slot alone; the caller copies a capability into the slot.
AllocateSlot ==
  /\ SlotOk
  /\ next' = next + 1
  /\ water' = SlotWater /\ cnodes' = SlotCNodes /\ nodeAt' = SlotNodeAt
  /\ UNCHANGED <<at, size>>

\* Where allocate_and_retype puts an object of n units.
Place(n) == AlignUp(SlotWater, n)

RetypeOk(n) ==
  /\ SlotOk
  /\ next \div Radix \in SlotCNodes
  /\ Place(n) + n <= UtSize

\* Mutant of AllocateAndRetype: the slot stays the first of empty_slots.
AllocateAndRetype_Peek(n) ==
  /\ RetypeOk(n)
  /\ UNCHANGED next
  /\ water' = Place(n) + n /\ cnodes' = SlotCNodes /\ nodeAt' = SlotNodeAt
  /\ at' = [at EXCEPT ![next] = Place(n)]
  /\ size' = [size EXCEPT ![next] = n]

\* allocate_and_retype, and the two functions that only choose the blueprint.
AllocateAndRetype(n) ==
  /\ RetypeOk(n)
  /\ next' = next + 1
  /\ water' = Place(n) + n /\ cnodes' = SlotCNodes /\ nodeAt' = SlotNodeAt
  /\ at' = [at EXCEPT ![next] = Place(n)]
  /\ size' = [size EXCEPT ![next] = n]

\* allocate_normal_cap takes the next slot, without a CNode for it.
AllocateNormalCap ==
  /\ next < SlotEnd
  /\ next' = next + 1
  /\ UNCHANGED <<cnodes, nodeAt, at, size, water>>

OriginOk(n) == next < SlotEnd /\ next < Radix /\ AlignUp(water, n) + n <= UtSize

\* allocate_variable_sized_origin, before the CSpace is rebuilt: the slot is
\* one of the initial CNode.
AllocateOrigin(n) ==
  /\ OriginOk(n)
  /\ next' = next + 1
  /\ water' = AlignUp(water, n) + n
  /\ at' = [at EXCEPT ![next] = AlignUp(water, n)]
  /\ size' = [size EXCEPT ![next] = n]
  /\ UNCHANGED <<cnodes, nodeAt>>

-----------------------------------------------------------------------------
AllocNext ==
  \/ AllocateSlot
  \/ AllocateNormalCap
  \/ \E n \in Sizes : AllocateAndRetype(n) \/ AllocateOrigin(n)

AllocSpec == AllocInit /\ [][AllocNext]_allocVars

-----------------------------------------------------------------------------
(* Properties.                                                             *)

AllocTypeOK ==
  /\ next \in SlotFirst .. SlotEnd
  /\ cnodes \subseteq Nat
  /\ nodeAt \in [Slot -> Nat] /\ at \in [Slot -> Nat] /\ size \in [Slot -> Nat]
  /\ water \in 0 .. UtSize

Extent(a, n) == a .. a + n - 1

\* The memory a slot took out of the untyped: its object, and the CNode that
\* was made for it.
MemOf(s) ==
  Extent(at[s], size[s]) \cup
    (IF s % Radix = 0 /\ s \div Radix \in cnodes THEN Extent(nodeAt[s], CNodeSize) ELSE {})

\* The allocator keeps the promise of CapPool.
Pool == INSTANCE CapPool
  WITH given <- SlotFirst .. next - 1, mem <- [s \in Slot |-> MemOf(s)]

KeepsPromise == Pool!PoolSpec
=============================================================================
