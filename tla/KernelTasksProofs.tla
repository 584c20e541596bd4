------------------------- MODULE KernelTasksProofs --------------------------
(***************************************************************************)
(* The memory of the kernel thread's tasks, for any number of tasks, pages *)
(* and slots; then the user programs over the kernel thread: who waits for *)
(* a reply, where each program is, and that the stub tells the two tasks   *)
(* apart that return from a clone.                                         *)
(***************************************************************************)
EXTENDS UserPrograms, WellFoundedInduction, TLAPS

\* Whatever is mapped was allocated: the next slot is new to every task.
SlotsFresh ==
  /\ nextSlot > 0
  /\ \A b \in Badge, p \in Page : page[b][p] < nextSlot /\ hw[b][p] < nextSlot

\* A task not made yet has the VSpace of its name, and nobody else has it.
SpacesOwned ==
  /\ \A b \in Badge : b > made => vs[b] = b
  /\ \A b \in Badge : b <= made => vs[b] <= made

\* A task that has been resumed is in TASK_MAP, or about to be inserted.
ResumedKnown ==
  /\ \A b \in Badge : st[b] # "none" => b \in known \/ (k.pc = "insert" /\ k.tgt = b)
  /\ \A i \in 1 .. Len(ep) : st[ep[i]] # "none"
  /\ k.pc = "map" /\ k.op \notin {"boot", "clone"} => k.tgt \in known
  /\ k.pc \in {"map", "insert"} /\ k.op = "clone" => k.who \in known
  /\ k.tgt <= made /\ \A b \in known : b <= made

IInv ==
  /\ TypeOK
  /\ SlotsFresh
  /\ SpacesOwned
  /\ FramesPrivate
  /\ ViewCoherent
  /\ ResumedKnown

(* find_free_area.                                                         *)

\* Every set of natural numbers that is not empty has a least element.
LEMMA LeastNat ==
  ASSUME NEW T, T \subseteq Nat, T # {}
  PROVE  \E x \in T : \A y \in T : x <= y
<1> DEFINE R == OpToRel(<, Nat)
<1>1. PICK x \in T : \A y \in T : ~ (<<y, x>> \in R)
  BY NatLessThanWellFounded, WFMin, Zenon
<1>2. \A y \in T : ~ (y < x)
  BY <1>1, Zenon DEF OpToRel
<1> QED BY <1>2

\* A set of pages that is not empty has a last one.
LEMMA LastOf ==
  ASSUME NEW S, S \subseteq Page, S # {}
  PROVE  \E x \in S : \A y \in S : y <= x
<1> DEFINE T == {LastPage - y : y \in S}
<1>1. T \subseteq Nat /\ T # {}
  <2>1. \A y \in S : y \in 0 .. LastPage /\ LastPage \in Nat
    BY TasksAssumption, Zenon DEF Page
  <2>2. T \subseteq Nat
    BY <2>1
  <2>3. PICK s \in S : TRUE
    BY Zenon
  <2>4. LastPage - s \in T
    BY Zenon
  <2> QED BY <2>2, <2>4, Zenon
<1>2. PICK t \in T : \A u \in T : t <= u
  BY <1>1, LeastNat, Zenon
<1>3. PICK x \in S : t = LastPage - x
  BY <1>2, Zenon
<1>4. \A y \in S : LastPage - x <= LastPage - y
  BY <1>2, <1>3, Zenon
<1> QED BY <1>3, <1>4, TasksAssumption DEF Page

LEMMA TimesMonotone ==
  ASSUME NEW x \in Nat, NEW y \in Nat, NEW z \in Nat, x <= y
  PROVE  x * z \in Nat /\ y * z \in Nat /\ x * z <= y * z
<1>1. PICK d \in Nat : y = x + d
  <2>1. y - x \in Nat /\ y = x + (y - x)
    OBVIOUS
  <2> QED BY <2>1, Zenon
<1>2. (x + d) * z = x * z + d * z
  OBVIOUS
<1>3. x * z \in Nat /\ d * z \in Nat
  OBVIOUS
<1> QED BY <1>1, <1>2, <1>3

\* The area find_free_area returns overlaps no page of the task, wherever the
\* caller asked for it and whatever the task has mapped.
LEMMA FindFreeAreaIsFree ==
  ASSUME TypeOK, NEW b \in Badge, NEW start \in Nat, NEW n \in Nat
  PROVE  /\ FindFreeArea(b, start, n) \in Nat
         /\ PagesOf(FindFreeArea(b, start, n), n) \cap Mapped(b) = {}
<1> DEFINE first == IF start > UspaceBase THEN start ELSE UspaceBase
           After(q) == (q + 1) * PageSize
           Fits(q)  == \A p \in Mapped(b) : p > q => After(q) + n <= p * PageSize
           Chosen(q) == Fits(q) /\ \A p \in Mapped(b) : p < q => ~Fits(p)
           area == FindFreeArea(b, start, n)
<1>1. Mapped(b) \subseteq Page /\ PageSize \in Nat /\ \A p \in Mapped(b) : p \in Nat
  BY TasksAssumption DEF Mapped, Page
<1>2. CASE \A p \in Mapped(b) : first + n <= p * PageSize
  <2>1. area = first /\ first \in Nat
    BY <1>2, TasksAssumption, Zenon DEF FindFreeArea
  <2>2. ASSUME NEW p \in Mapped(b), p \in PagesOf(area, n) PROVE FALSE
    <3>1. p \in Nat /\ p * PageSize \in Nat
      <4>1. p \in Nat /\ PageSize \in Nat
        BY <1>1, Zenon
      <4> QED BY <4>1
    <3>2. p * PageSize < first + n
      BY <2>1, <2>2, Zenon DEF PagesOf
    <3>3. first + n <= p * PageSize
      BY <1>2, Zenon
    <3> HIDE DEF first
    <3> QED BY <3>1, <3>2, <3>3, <2>1
  <2> QED BY <2>1, <2>2, Zenon
<1>3. CASE ~ \A p \in Mapped(b) : first + n <= p * PageSize
  <2> DEFINE S == {q \in Mapped(b) : Fits(q)}
  <2>1. PICK x \in Mapped(b) : \A y \in Mapped(b) : y <= x
    BY <1>1, <1>3, LastOf, Zenon
  <2>2. Fits(x)
    <3>1. \A p \in Mapped(b) : ~(p > x)
      <4> TAKE p \in Mapped(b)
      <4>1. p \in Nat /\ x \in Nat /\ p <= x
        BY <2>1, <1>1, Zenon
      <4> QED BY <4>1
    <3> QED BY <3>1, Zenon
  <2>3. PICK q \in S : \A y \in S : q <= y
    <3> HIDE DEF Fits
    <3>1. S \subseteq Nat /\ S # {}
      BY <2>1, <2>2, <1>1, Zenon
    <3> QED BY <3>1, LeastNat, Zenon
  <2>4. q \in Mapped(b) /\ Chosen(q)
    <3>1. ASSUME NEW p \in Mapped(b), p < q, Fits(p) PROVE FALSE
      <4> HIDE DEF Fits
      <4>1. p \in S /\ q \in Mapped(b)
        BY <3>1, <2>3, Zenon
      <4>2. q <= p
        BY <4>1, <2>3, Zenon
      <4>3. p \in Nat /\ q \in Nat
        BY <4>1, <1>1, Zenon
      <4> QED BY <4>2, <4>3, <3>1
    <3> HIDE DEF Fits
    <3> QED BY <3>1, <2>3, Zenon
  <2> DEFINE c == CHOOSE r \in Mapped(b) : Chosen(r)
  <2>5. c \in Mapped(b) /\ Chosen(c)
    <3> HIDE DEF Chosen
    <3> QED BY <2>4, Zenon
  <2>6. area = After(c)
    BY <1>3, Zenon DEF FindFreeArea
  <2> HIDE DEF c
  <2>7. c \in Nat /\ After(c) \in Nat /\ Fits(c)
    <3>1. c \in Nat
      BY <2>5, <1>1, Zenon
    <3>2. After(c) \in Nat
      BY <3>1, <1>1
    <3> QED BY <3>1, <3>2, <2>5, Zenon
  <2>8. ASSUME NEW p \in Mapped(b), p \in PagesOf(area, n) PROVE FALSE
    <3>1. p \in Nat /\ p * PageSize < After(c) + n /\ After(c) < (p + 1) * PageSize
      BY <2>6, <2>8, <1>1, Zenon DEF PagesOf
    <3>2. CASE p > c
      BY <3>1, <3>2, <2>7, <1>1
    <3>3. CASE p <= c
      <4>1. (p + 1) * PageSize <= After(c)
        BY <3>1, <3>3, <2>7, <1>1, TimesMonotone
      <4>2. (p + 1) * PageSize \in Nat
        BY <3>1, <1>1
      <4> QED BY <4>1, <4>2, <3>1, <2>7
    <3> QED BY <3>1, <3>2, <3>3, <2>7
  <2> QED BY <2>6, <2>7, <2>8, Zenon
<1> QED BY <1>2, <1>3, Zenon

(* Types.                                                                  *)

LEMMA InitInv == Init => IInv
<1> SUFFICES ASSUME Init PROVE IInv
  BY Zenon
<1>1. 1 \in Badge /\ 0 \in Slot /\ SlotStart + 3 \in Slot /\ SlotStart + 3 > 0
  BY TasksAssumption DEF Badge, Slot
<1>2. NoPages \in [Page -> Slot] /\ \A p \in Page : NoPages[p] = 0
  BY <1>1, Zenon DEF NoPages
<1>3. k \in KernelState
  BY <1>1, TasksAssumption, Zenon DEF Init, Mapping, KernelState, MapOps
<1>4. TypeOK
  BY <1>1, <1>2, <1>3, TasksAssumption DEF Init, TypeOK
<1>5. SlotsFresh /\ FramesPrivate /\ ViewCoherent
  BY <1>1, <1>2, Zenon DEF Init, SlotsFresh, FramesPrivate, ViewCoherent, Mapped
<1>6. SpacesOwned
  BY Zenon DEF Init, SpacesOwned, Badge
<1>7. ResumedKnown
  BY DEF Init, ResumedKnown, Mapping
<1> QED BY <1>4, <1>5, <1>6, <1>7, Zenon DEF IInv

\* The values k takes.
LEMMA KernelStates ==
  ASSUME TypeOK
  PROVE  /\ Ready \in KernelState
         /\ Panic \in KernelState
         /\ [k EXCEPT !.pc = "spin"] \in KernelState
         /\ [k EXCEPT !.pc = "insert"] \in KernelState
         /\ \A p \in Page : /\ [k EXCEPT !.todo = @ \ {p}] \in KernelState
                            /\ [k EXCEPT !.last = @ \ {p}] \in KernelState
         /\ \A op \in MapOps, who \in Badge, tgt \in Badge, todo \in SUBSET Page,
               last \in SUBSET Page, addr \in Nat :
              Mapping(op, who, tgt, todo, last, addr) \in KernelState
<1>1. 1 \in Badge
  BY TasksAssumption DEF Badge
<1>2. Ready \in KernelState
  BY <1>1, Zenon DEF Ready, KernelState, MapOps
<1>3. k \in KernelState
  BY Zenon DEF TypeOK
<1> QED BY <1>2, <1>3, Zenon DEF Panic, Mapping, KernelState

LEMMA MessageType ==
  ASSUME TypeOK, NEW b \in Badge, Receive(b)
  PROVE  ep' \in Seq(Badge)
BY DEF TypeOK, Receive

LEMMA UserType == ASSUME TypeOK, UserStep PROVE TypeOK'
<1>1. PICK b \in Badge : Call(b) \/ \E p \in Page : Fault(b, p)
  BY Zenon DEF UserStep
<1>2. CASE Call(b)
  BY <1>2 DEF Call, TypeOK, taskVars, memVars
<1>3. CASE \E p \in Page : Fault(b, p)
  <2>1. PICK p \in Page : Fault(b, p)
    BY <1>3, Zenon
  <2> QED BY <2>1 DEF Fault, TypeOK, taskVars, memVars
<1> QED BY <1>1, <1>2, <1>3, Zenon

LEMMA CallType == ASSUME TypeOK, NEW b \in Badge, SysCall(b) PROVE TypeOK'
<1>1. Serve(b)
  BY Zenon DEF SysCall, SysBrk, SysMmap, SysUnmap, SysWrite, SysExit, SysExec, SysClone,
     Discard, SysReturns
<1>2. ep' \in Seq(Badge)
  BY <1>1, MessageType, Zenon DEF Serve
<1>3. ASSUME NEW addr \in Address, SysBrk(b, addr) PROVE TypeOK'
  <2>1. addr \in Nat /\ PagesOf(heap[b], addr - heap[b]) \in SUBSET Page /\ {} \in SUBSET Page
    BY TasksAssumption, Zenon DEF PagesOf
  <2>2. k' \in KernelState
    <3>1. "brk" \in MapOps /\ k \in KernelState
      BY Zenon DEF MapOps, TypeOK
    <3>2. \/ k' = k
          \/ k' = Panic
          \/ k' = Mapping("brk", b, b, PagesOf(heap[b], addr - heap[b]), {}, addr)
      BY <1>3, Zenon DEF SysBrk
    <3> QED BY <3>1, <3>2, <2>1, KernelStates
  <2>3. heap' \in [Badge -> Nat]
    BY <1>3, <2>1, Zenon DEF SysBrk, Return, TypeOK, taskVars
  <2>4. st' \in [Badge -> {"none", "run", "call", "stopped"}]
    BY <1>3, Zenon DEF SysBrk, Return, TypeOK
  <2>5. UNCHANGED <<nextSlot, known, made, vs, page, hw, pts, fault>>
    BY <1>3, Zenon DEF SysBrk, Return, taskVars, memVars
  <2> QED BY <1>2, <2>2, <2>3, <2>4, <2>5, Zenon DEF TypeOK
<1>4. ASSUME NEW a \in Address, NEW n \in Length, NEW fixed \in BOOLEAN,
             SysMmap(b, a, n, fixed)
      PROVE  TypeOK'
  <2> DEFINE area == IF fixed THEN a ELSE FindFreeArea(b, a, n)
  <2>1. a \in Nat /\ n \in Nat
    BY TasksAssumption, Zenon
  <2>2. area \in Nat
    BY <2>1, FindFreeAreaIsFree, Zenon
  <2>3. k' = Mapping("mmap", b, b, PagesOf(area, n) \ Mapped(b), {}, area)
    BY <1>4, Zenon DEF SysMmap
  <2>4. PagesOf(area, n) \ Mapped(b) \in SUBSET Page /\ {} \in SUBSET Page /\ "mmap" \in MapOps
    BY Zenon DEF PagesOf, MapOps
  <2> HIDE DEF area
  <2>5. k' \in KernelState
    BY <2>2, <2>3, <2>4, KernelStates, Zenon
  <2> QED BY <1>2, <1>4, <2>5, Zenon DEF SysMmap, TypeOK, taskVars, memVars
<1>5. ASSUME NEW a \in Address, NEW n \in Length, SysUnmap(b, a, n) PROVE TypeOK'
  <2>1. 0 \in Slot /\ vs[b] \in Badge
    BY TasksAssumption DEF Slot, TypeOK
  <2>2. page' \in [Badge -> [Page -> Slot]]
    BY <1>5, <2>1, Zenon DEF SysUnmap, TypeOK
  <2>3. hw' \in [Badge -> [Page -> Slot]]
    BY <1>5, <2>1, Zenon DEF SysUnmap, TypeOK
  <2> QED BY <1>2, <1>5, <2>2, <2>3, Zenon DEF SysUnmap, TypeOK
<1>6. ASSUME NEW a \in Address, NEW n \in Length, SysWrite(b, a, n) PROVE TypeOK'
  BY <1>2, <1>6, KernelStates, Zenon DEF SysWrite, Return, TypeOK, memVars
<1>7. CASE SysExit(b) \/ Discard(b) \/ SysReturns(b)
  <2>1. /\ UNCHANGED <<nextSlot, known, made, taskVars, memVars, fault, k>>
        /\ st' = [st EXCEPT ![b] = "stopped"] \/ st' = [st EXCEPT ![b] = "run"]
    BY <1>7, Zenon DEF SysExit, Discard, SysReturns, Return, taskVars, memVars
  <2>2. st' \in [Badge -> {"none", "run", "call", "stopped"}]
    BY <2>1, Zenon DEF TypeOK
  <2> QED BY <1>2, <2>1, <2>2, Zenon DEF TypeOK, taskVars, memVars
<1>8. CASE SysExec(b)
  <2>1. ExecPages \cup StackPages \in SUBSET Page /\ {ExecIpc} \in SUBSET Page
        /\ NoPages \in [Page -> Slot] /\ "exec" \in MapOps /\ 0 \in Nat
    BY TasksAssumption DEF NoPages, MapOps, Slot
  <2>2. k' \in KernelState
    BY <1>8, <2>1, KernelStates, Zenon DEF SysExec
  <2> QED BY <1>2, <1>8, <2>1, <2>2, Zenon DEF SysExec, TypeOK, memVars
<1>9. ASSUME NEW vm \in BOOLEAN, SysClone(b, vm) PROVE TypeOK'
  <2> DEFINE c == made + 1
             n == IF vm THEN 4 ELSE 3
  <2>1. c \in Badge /\ n \in {3, 4}
    <3>1. made \in 1 .. MaxTask /\ made < MaxTask /\ MaxTask \in Nat
      BY <1>9, TasksAssumption, Zenon DEF SysClone, TypeOK, Badge
    <3> QED BY <3>1 DEF Badge
  <2>2. (IF vm THEN {} ELSE Mapped(b)) \in SUBSET Page /\ {CloneIpc} \in SUBSET Page
        /\ "clone" \in MapOps /\ 0 \in Nat
    BY TasksAssumption, Zenon DEF Mapped, MapOps
  <2>3. UNCHANGED <<known, page, heap, hw, pts, st, fault>>
    BY <1>9, Zenon DEF SysClone, taskVars, memVars
  <2>4. k' \in KernelState
    <3>1. \/ k' = Panic
          \/ k' = Mapping("clone", b, c, IF vm THEN {} ELSE Mapped(b), {CloneIpc}, 0)
      BY <1>9, Zenon DEF SysClone
    <3> HIDE DEF c
    <3> QED BY <3>1, <2>1, <2>2, KernelStates
  <2>5. nextSlot' \in Slot
    <3>1. nextSlot' = nextSlot \/ (nextSlot' = nextSlot + n /\ nextSlot + n <= SlotEnd)
      BY <1>9, Zenon DEF SysClone, SlotsFree
    <3>2. nextSlot \in 0 .. SlotEnd /\ SlotEnd \in Nat
      BY TasksAssumption, Zenon DEF TypeOK, Slot
    <3> QED BY <3>1, <3>2, <2>1 DEF Slot
  <2>6. made' \in Badge /\ vs' \in [Badge -> Badge]
    <3>1. \/ made' = made /\ vs' = vs
          \/ made' = c /\ vs' = [vs EXCEPT ![c] = IF vm THEN vs[b] ELSE c]
      BY <1>9, Zenon DEF SysClone, taskVars
    <3>2. made \in Badge /\ vs \in [Badge -> Badge] /\ vs[b] \in Badge
      BY Zenon DEF TypeOK
    <3> HIDE DEF c
    <3> QED BY <3>1, <3>2, <2>1
  <2> QED BY <1>2, <2>3, <2>4, <2>5, <2>6, Zenon DEF TypeOK
<1> QED BY <1>3, <1>4, <1>5, <1>6, <1>7, <1>8, <1>9, Zenon DEF SysCall
\* One page: what MapStep does to the tables.
LEMMA MapStepFacts ==
  ASSUME TypeOK, NEW p \in Page, MapStep(p)
  PROVE  /\ k.pc = "map" /\ UNCHANGED <<known, made, vs, heap, st, fault, ep>>
         /\ \/ k' = Panic /\ UNCHANGED <<nextSlot, page, hw, pts>>
            \/ /\ \E cost \in {1, 2} : nextSlot' = nextSlot + cost /\ nextSlot + cost <= SlotEnd
               /\ page' = [page EXCEPT ![k.tgt][p] = nextSlot]
               /\ hw' = [hw EXCEPT ![vs[k.tgt]][p] = nextSlot]
               /\ pts' = [pts EXCEPT ![vs[k.tgt]] = @ \cup {p \div PtSpan}]
               /\ \/ k' = [k EXCEPT !.todo = @ \ {p}]
                  \/ k' = [k EXCEPT !.last = @ \ {p}]
BY Zenon DEF MapStep, MapPage, SlotsFree, memVars

LEMMA KernelType == ASSUME TypeOK, KernelStep PROVE TypeOK'
<1>1. ASSUME NEW b \in Badge, VmFault(b) PROVE TypeOK'
  <2>1. ep' \in Seq(Badge)
    BY <1>1, MessageType, Zenon DEF VmFault
  <2>2. "fault" \in MapOps /\ fault[b] \in SUBSET Page /\ {} \in SUBSET Page /\ 0 \in Nat
    BY Zenon DEF MapOps, TypeOK
  <2>3. k' \in KernelState
    BY <1>1, <2>2, KernelStates, Zenon DEF VmFault
  <2> QED BY <1>1, <2>1, <2>3, Zenon DEF VmFault, TypeOK, taskVars, memVars
<1>2. ASSUME NEW p \in Page, MapStep(p) PROVE TypeOK'
  <2>1. k' \in KernelState
    BY <1>2, MapStepFacts, KernelStates, Zenon
  <2>2. k.tgt \in Badge /\ vs[k.tgt] \in Badge /\ nextSlot \in Slot
    BY Zenon DEF TypeOK, KernelState
  <2>3. nextSlot' \in Slot
    <3>1. \/ nextSlot' = nextSlot
          \/ \E cost \in {1, 2} : nextSlot' = nextSlot + cost /\ nextSlot + cost <= SlotEnd
      BY <1>2, MapStepFacts, Zenon
    <3>2. nextSlot \in 0 .. SlotEnd /\ SlotEnd \in Nat
      BY <2>2, TasksAssumption, Zenon DEF Slot
    <3>3. nextSlot' \in 0 .. SlotEnd
      BY <3>1, <3>2
    <3> QED BY <3>3, Zenon DEF Slot
  <2>4. page' \in [Badge -> [Page -> Slot]]
    <3>1. page' = page \/ page' = [page EXCEPT ![k.tgt][p] = nextSlot]
      BY <1>2, MapStepFacts, Zenon
    <3>2. page \in [Badge -> [Page -> Slot]]
      BY Zenon DEF TypeOK
    <3> QED BY <3>1, <3>2, <2>2
  <2>5. hw' \in [Badge -> [Page -> Slot]]
    <3>1. hw' = hw \/ hw' = [hw EXCEPT ![vs[k.tgt]][p] = nextSlot]
      BY <1>2, MapStepFacts, Zenon
    <3>2. hw \in [Badge -> [Page -> Slot]]
      BY Zenon DEF TypeOK
    <3> DEFINE v == vs[k.tgt]
    <3> HIDE DEF v
    <3>3. v \in Badge /\ (hw' = hw \/ hw' = [hw EXCEPT ![v][p] = nextSlot])
      BY <3>1, <2>2, Zenon DEF v
    <3> QED BY <3>2, <3>3, <2>2
  <2>6. pts' \in [Badge -> SUBSET Nat]
    <3>1. p \in Nat /\ PtSpan \in Nat \ {0}
      BY TasksAssumption DEF Page
    <3>2. p \div PtSpan \in Nat
      BY <3>1
    <3>3. pts' = pts \/ pts' = [pts EXCEPT ![vs[k.tgt]] = @ \cup {p \div PtSpan}]
      BY <1>2, MapStepFacts, Zenon
    <3>4. pts \in [Badge -> SUBSET Nat]
      BY Zenon DEF TypeOK
    <3> DEFINE v == vs[k.tgt]
               t == p \div PtSpan
    <3> HIDE DEF v, t
    <3>5. v \in Badge /\ t \in Nat /\ (pts' = pts \/ pts' = [pts EXCEPT ![v] = @ \cup {t}])
      BY <3>2, <3>3, <2>2, Zenon DEF v, t
    <3> QED BY <3>4, <3>5, Zenon
  <2>7. UNCHANGED <<known, made, vs, heap, st, fault, ep>>
    BY <1>2, MapStepFacts, Zenon
  <2> QED BY <2>1, <2>3, <2>4, <2>5, <2>6, <2>7, Zenon DEF TypeOK
<1>3. CASE MapDone
  <2>1. k.tgt \in Badge /\ k.addr \in Nat
    BY Zenon DEF TypeOK, KernelState
  <2>2. k' \in KernelState
    BY <1>3, KernelStates, Zenon DEF MapDone
  <2>3. heap' \in [Badge -> Nat]
    BY <1>3, <2>1, Zenon DEF MapDone, TypeOK
  <2>4. st' \in [Badge -> {"none", "run", "call", "stopped"}]
    BY <1>3, <2>1, Zenon DEF MapDone, TypeOK
  <2> QED BY <1>3, <2>2, <2>3, <2>4, Zenon DEF MapDone, TypeOK, memVars
<1>4. CASE Insert
  <2>1. k.tgt \in Badge /\ k.who \in Badge
    BY Zenon DEF TypeOK, KernelState
  <2>2. k' \in KernelState
    BY <1>4, KernelStates, Zenon DEF Insert
  <2>3. st' \in [Badge -> {"none", "run", "call", "stopped"}]
    BY <1>4, <2>1, Zenon DEF Insert, TypeOK
  <2> QED BY <1>4, <2>1, <2>2, <2>3, Zenon DEF Insert, TypeOK, taskVars, memVars
<1> QED BY <1>1, <1>2, <1>3, <1>4, CallType, Zenon DEF KernelStep

(* Memory: only munmap, execve, clone and the mapping loops change it.     *)

MemInv == SlotsFresh /\ SpacesOwned /\ FramesPrivate /\ ViewCoherent

LEMMA MemSame ==
  ASSUME MemInv, UNCHANGED <<nextSlot, made, vs, page, hw>>
  PROVE  MemInv'
BY DEF MemInv, SlotsFresh, SpacesOwned, FramesPrivate, ViewCoherent, SharesVm, Mapped

LEMMA UnmapMem ==
  ASSUME TypeOK, MemInv, NEW b \in Badge, NEW a \in Address, NEW n \in Length,
         SysUnmap(b, a, n)
  PROVE  MemInv'
<1> DEFINE gone == PagesOf(a, n)
           v == vs[b]
<1>1. v \in Badge /\ UNCHANGED <<nextSlot, made, vs>>
  BY Zenon DEF SysUnmap, TypeOK
<1>2. \A c \in Badge, p \in Page :
        page'[c][p] = IF c = b /\ p \in gone THEN 0 ELSE page[c][p]
  BY Zenon DEF SysUnmap, TypeOK
<1>3. \A w \in Badge, p \in Page :
        hw'[w][p] = IF w = v /\ p \in gone /\ hw[v][p] = page[b][p] THEN 0 ELSE hw[w][p]
  BY <1>1, Zenon DEF SysUnmap, TypeOK
<1> HIDE DEF gone, v
<1>4. SlotsFresh'
  BY <1>1, <1>2, <1>3 DEF MemInv, SlotsFresh
<1>5. SpacesOwned'
  BY <1>1, Zenon DEF MemInv, SpacesOwned
<1>6. FramesPrivate'
  BY <1>2, <1>3, SMTT(30) DEF MemInv, FramesPrivate
<1>7. ViewCoherent'
  <2> SUFFICES ASSUME NEW c \in Badge, ~SharesVm(c)', NEW p \in Page, page'[c][p] # 0
               PROVE  hw'[vs'[c]][p] = page'[c][p]
    BY Zenon DEF ViewCoherent, Mapped
  <2>1. ~SharesVm(c)
    BY <1>1, Zenon DEF SharesVm
  <2>2. page'[c][p] = page[c][p] /\ page[c][p] # 0 /\ ~(c = b /\ p \in gone)
    BY <1>2, Zenon
  <2>3. hw[vs[c]][p] = page[c][p]
    BY <2>1, <2>2, Zenon DEF MemInv, ViewCoherent, Mapped
  <2>4. vs[c] \in Badge /\ (c # b => vs[c] # v)
    BY <2>1, Zenon DEF TypeOK, SharesVm, v
  <2> QED BY <1>1, <1>3, <2>2, <2>3, <2>4, Zenon
<1> QED BY <1>4, <1>5, <1>6, <1>7, Zenon DEF MemInv

LEMMA ExecMem ==
  ASSUME TypeOK, MemInv, NEW b \in Badge, SysExec(b)
  PROVE  MemInv'
<1>1. UNCHANGED <<nextSlot, made, vs, hw>>
  BY Zenon DEF SysExec, memVars
<1>2. \A c \in Badge, p \in Page : page'[c][p] = IF c = b THEN 0 ELSE page[c][p]
  BY Zenon DEF SysExec, NoPages, TypeOK
<1> QED BY <1>1, <1>2 DEF MemInv, SlotsFresh, SpacesOwned, FramesPrivate, ViewCoherent,
           SharesVm, Mapped

LEMMA CloneMem ==
  ASSUME TypeOK, MemInv, NEW b \in Badge, b <= made, NEW vm \in BOOLEAN, SysClone(b, vm)
  PROVE  MemInv'
<1> DEFINE c == made + 1
<1>1. CASE UNCHANGED <<nextSlot, made, vs, page, hw>>
  BY <1>1, MemSame, Zenon
<1>2. CASE /\ nextSlot' = nextSlot + (IF vm THEN 4 ELSE 3) /\ made' = c
           /\ vs' = [vs EXCEPT ![c] = IF vm THEN vs[b] ELSE c]
           /\ UNCHANGED <<page, hw>>
  <2>1. c \in Badge /\ made \in Nat /\ nextSlot \in Nat /\ vs[b] \in Badge
    <3>1. made \in 1 .. MaxTask /\ made < MaxTask /\ MaxTask \in Nat
      BY TasksAssumption, Zenon DEF SysClone, TypeOK, Badge
    <3> QED BY <3>1, TasksAssumption DEF Badge, TypeOK, Slot
  <2>2. \A d \in Badge : d \in Nat /\ vs[d] \in Nat /\ page[d] \in [Page -> Slot]
    <3>1. \A d \in Badge : d \in Nat
      BY DEF Badge
    <3>2. \A d \in Badge : vs[d] \in Badge /\ page[d] \in [Page -> Slot]
      BY Zenon DEF TypeOK
    <3> QED BY <3>1, <3>2, ZenonT(30)
  <2>3. SlotsFresh'
    <3>1. nextSlot' > nextSlot /\ nextSlot' \in Nat
      BY <1>2, <2>1
    <3> SUFFICES ASSUME NEW d \in Badge, NEW p \in Page
                 PROVE  page[d][p] < nextSlot' /\ hw[d][p] < nextSlot'
      BY <1>2, <3>1, <2>1 DEF SlotsFresh, MemInv
    <3>2. page[d][p] \in Nat /\ hw[d][p] \in Nat
      BY TasksAssumption, SMTT(30) DEF TypeOK, Slot
    <3>3. page[d][p] < nextSlot /\ hw[d][p] < nextSlot
      BY ZenonT(30) DEF MemInv, SlotsFresh
    <3> QED BY <3>1, <3>2, <3>3, <2>1, SMTT(30)
  <2>4. \A d \in Badge : vs'[d] = IF d = c THEN (IF vm THEN vs[b] ELSE c) ELSE vs[d]
    BY <1>2, <2>1, Zenon DEF TypeOK
  <2>5. b <= made /\ vs[b] <= made
    BY Zenon DEF MemInv, SpacesOwned
  <2>6. SpacesOwned'
    <3>1. ASSUME NEW d \in Badge, d > made' PROVE vs'[d] = d
      BY <1>2, <2>1, <2>2, <2>4, <3>1 DEF MemInv, SpacesOwned
    <3>2. ASSUME NEW d \in Badge, d <= made' PROVE vs'[d] <= made'
      <4>1. CASE d = c
        BY <1>2, <2>1, <2>2, <2>4, <2>5, <4>1
      <4>2. CASE d # c
        <5>1. d <= made /\ vs'[d] = vs[d]
          BY <1>2, <2>1, <2>2, <2>4, <3>2, <4>2
        <5>2. vs[d] <= made
          BY <5>1, Zenon DEF MemInv, SpacesOwned
        <5> QED BY <1>2, <2>1, <2>2, <5>1, <5>2
      <4> QED BY <4>1, <4>2, Zenon
    <3> QED BY <3>1, <3>2, Zenon DEF SpacesOwned
  <2>7. FramesPrivate'
    BY <1>2 DEF MemInv, FramesPrivate
  <2>8. ViewCoherent'
    <3> SUFFICES ASSUME NEW d \in Badge, ~SharesVm(d)', NEW p \in Page, page[d][p] # 0
                 PROVE  hw[vs'[d]][p] = page[d][p]
      BY <1>2 DEF ViewCoherent, Mapped
    <3>1. vs'[d] = vs[d] /\ ~SharesVm(d)
      <4>1. b # c
        BY <2>1, <2>2, <2>5
      <4>2. vs[c] = c
        BY <2>1, <2>2 DEF MemInv, SpacesOwned
      <4>3. \A e \in Badge : e # c => vs[e] # c
        <5> SUFFICES ASSUME NEW e \in Badge, e # c, vs[e] = c PROVE FALSE
          BY Zenon
        <5>1. CASE e > made
          BY <5>1, Zenon DEF MemInv, SpacesOwned
        <5>2. CASE e <= made
          <6>1. vs[e] <= made
            BY <5>2, Zenon DEF MemInv, SpacesOwned
          <6> QED BY <6>1, <2>1, <2>2
        <5> QED BY <5>1, <5>2, <2>1, <2>2
      <4>4. CASE vm /\ d \in {b, c}
        <5>1. vs'[b] = vs[b] /\ vs'[c] = vs[b]
          BY <2>1, <2>4, <4>1, <4>4, Zenon
        <5> QED BY <2>1, <4>1, <4>4, <5>1, Zenon DEF SharesVm
      <4>5. CASE ~vm
        <5>1. \A e \in Badge : vs'[e] = vs[e]
          BY <2>4, <4>2, <4>5, Zenon
        <5> QED BY <5>1, Zenon DEF SharesVm
      <4>6. CASE d \notin {b, c}
        <5>1. vs'[d] = vs[d]
          BY <2>4, <4>6, Zenon
        <5>2. ASSUME NEW e \in Badge, e # d, vs[e] = vs[d] PROVE FALSE
          <6>1. e # c
            BY <4>2, <4>3, <4>6, <5>2, Zenon
          <6>2. vs'[e] = vs'[d]
            BY <2>4, <5>1, <5>2, <6>1, Zenon
          <6> QED BY <5>2, <6>2, Zenon DEF SharesVm
        <5> QED BY <5>1, <5>2, Zenon DEF SharesVm
      <4> QED BY <4>4, <4>5, <4>6, Zenon
    <3> QED BY <3>1 DEF MemInv, ViewCoherent, Mapped
  <2> QED BY <2>3, <2>6, <2>7, <2>8, Zenon DEF MemInv
<1> QED BY <1>1, <1>2, Zenon DEF SysClone, taskVars, memVars
LEMMA MapMem ==
  ASSUME TypeOK, MemInv, NEW p \in Page, MapStep(p)
  PROVE  MemInv'
<1> DEFINE t == k.tgt
           v == vs[t]
<1>1. CASE UNCHANGED <<nextSlot, page, hw>>
  BY <1>1, MemSame, MapStepFacts, Zenon
<1>2. CASE /\ \E cost \in {1, 2} : nextSlot' = nextSlot + cost
           /\ page' = [page EXCEPT ![t][p] = nextSlot]
           /\ hw' = [hw EXCEPT ![v][p] = nextSlot]
  <2>1. t \in Badge /\ v \in Badge /\ nextSlot \in Nat /\ UNCHANGED <<made, vs>>
    <3>1. nextSlot \in 0 .. SlotEnd /\ SlotEnd \in Nat
      BY TasksAssumption, Zenon DEF TypeOK, Slot
    <3>2. t \in Badge /\ v \in Badge
      BY Zenon DEF TypeOK, KernelState
    <3>3. UNCHANGED <<made, vs>>
      BY MapStepFacts, Zenon
    <3>4. nextSlot \in Nat
      BY <3>1
    <3> QED BY <3>2, <3>3, <3>4, Zenon
  <2>2. nextSlot' > nextSlot /\ nextSlot' \in Nat /\ nextSlot # 0
    <3>1. nextSlot > 0
      BY Zenon DEF MemInv, SlotsFresh
    <3>2. PICK cost \in {1, 2} : nextSlot' = nextSlot + cost
      BY <1>2, Zenon
    <3> QED BY <2>1, <3>1, <3>2
  <2>3. \A b \in Badge, q \in Page :
          page'[b][q] = IF b = t /\ q = p THEN nextSlot ELSE page[b][q]
    BY <1>2, <2>1, Zenon DEF TypeOK
  <2>4. \A w \in Badge, q \in Page :
          hw'[w][q] = IF w = v /\ q = p THEN nextSlot ELSE hw[w][q]
    <3> HIDE DEF v
    <3> QED BY <1>2, <2>1, Zenon DEF TypeOK
  <2>5. \A b \in Badge, q \in Page :
          /\ page[b][q] \in Nat /\ hw[b][q] \in Nat
          /\ page[b][q] < nextSlot /\ hw[b][q] < nextSlot
    BY TasksAssumption DEF TypeOK, Slot, MemInv, SlotsFresh
  <2> HIDE DEF t, v
  <2>6. SlotsFresh'
    <3> SUFFICES ASSUME NEW b \in Badge, NEW q \in Page
                 PROVE  page'[b][q] < nextSlot' /\ hw'[b][q] < nextSlot'
      BY <2>1, <2>2 DEF SlotsFresh
    <3> QED BY <2>1, <2>2, <2>3, <2>4, <2>5, SMTT(30)
  <2>7. SpacesOwned'
    BY <2>1, Zenon DEF MemInv, SpacesOwned
  <2>8. \A b \in Badge, q \in Page : page[b][q] # nextSlot /\ hw[b][q] # nextSlot
    BY <2>5, <2>1, SMTT(30)
  <2>9. FramesPrivate'
    <3>1. ASSUME NEW b \in Badge, NEW c \in Badge, NEW q \in Page, NEW r \in Page,
                 page'[b][q] # 0, page'[b][q] = page'[c][r]
          PROVE  b = c /\ q = r
      BY <2>3, <2>8, <3>1 DEF MemInv, FramesPrivate
    <3>2. ASSUME NEW b \in Badge, NEW c \in Badge, NEW q \in Page, NEW r \in Page,
                 hw'[b][q] # 0, hw'[b][q] = hw'[c][r]
          PROVE  b = c /\ q = r
      BY <2>4, <2>8, <3>2, SMTT(30) DEF MemInv, FramesPrivate
    <3> QED BY <3>1, <3>2 DEF FramesPrivate
  <2>10. ViewCoherent'
    <3> SUFFICES ASSUME NEW b \in Badge, ~SharesVm(b)', NEW q \in Page, page'[b][q] # 0
                 PROVE  hw'[vs[b]][q] = page'[b][q]
      BY <2>1, Zenon DEF ViewCoherent, Mapped
    <3>1. ~SharesVm(b) /\ vs[b] \in Badge /\ (b # t => vs[b] # v)
      BY <2>1, Zenon DEF SharesVm, TypeOK, t, v
    <3>2. CASE b = t /\ q = p
      BY <2>1, <2>3, <2>4, <3>2 DEF t, v
    <3>3. CASE ~(b = t /\ q = p)
      <4>1. page'[b][q] = page[b][q] /\ hw'[vs[b]][q] = hw[vs[b]][q]
        BY <2>3, <2>4, <3>1, <3>3, Zenon
      <4> QED BY <3>1, <4>1, Zenon DEF MemInv, ViewCoherent, Mapped
    <3> QED BY <3>2, <3>3, Zenon
  <2> QED BY <2>6, <2>7, <2>9, <2>10, Zenon DEF MemInv
<1> QED BY <1>1, <1>2, MapStepFacts, Zenon

(* TASK_MAP.                                                               *)

LEMMA UserKnown == ASSUME TypeOK, ResumedKnown, UserStep PROVE ResumedKnown'
<1>1. PICK b \in Badge : Call(b) \/ \E p \in Page : Fault(b, p)
  BY Zenon DEF UserStep
<1>2. st' = [st EXCEPT ![b] = "call"] /\ st[b] = "run" /\ ep' = Append(ep, b)
      /\ UNCHANGED <<known, made, k>>
  BY <1>1, Zenon DEF Call, Fault
<1>3. \A i \in 1 .. Len(ep') : st'[ep'[i]] # "none"
  <2> TAKE i \in 1 .. Len(ep')
  <2>1. CASE i = Len(ep) + 1
    BY <1>2, <2>1 DEF TypeOK
  <2>2. CASE i \in 1 .. Len(ep)
    <3>1. ep'[i] = ep[i] /\ ep[i] \in Badge
      BY <1>2, <2>2 DEF TypeOK
    <3> QED BY <1>2, <2>2, <3>1, Zenon DEF TypeOK, ResumedKnown
  <2> QED BY <1>2, <2>1, <2>2 DEF TypeOK
<1>4. \A c \in Badge : st'[c] # "none" => c \in known \/ (k.pc = "insert" /\ k.tgt = c)
  BY <1>2, Zenon DEF TypeOK, ResumedKnown
<1> QED BY <1>2, <1>3, <1>4, Zenon DEF ResumedKnown

\* What the arms of the loop have in common: the caller is taken off the queue,
\* nobody's thread is created, and a loop that maps pages works for the caller
\* or for its clone.
LEMMA ServeKnown ==
  ASSUME TypeOK, ResumedKnown, NEW b \in Badge, Receive(b), b \in known,
         known' = known, made' \in Nat, made <= made',
         \A c \in Badge : st'[c] = st[c] \/ (c = b /\ st'[c] # "none"),
         \/ k' \in {k, Panic, [k EXCEPT !.pc = "spin"]}
         \/ k'.pc = "map" /\ k'.op \notin {"boot", "clone"} /\ k'.tgt = b
         \/ k'.pc = "map" /\ k'.op = "clone" /\ k'.who = b /\ k'.tgt = made'
  PROVE  ResumedKnown'
<1>1. k.pc = "recv" /\ k \in KernelState /\ made \in Nat /\ k.tgt \in Nat
  <2>1. k.pc = "recv" /\ k \in KernelState /\ made \in Nat
    BY DEF Receive, TypeOK, Badge
  <2> QED BY <2>1 DEF KernelState, Badge
<1>2. k'.pc # "insert" /\ k'.pc \in {"recv", "map", "panic", "spin"}
  BY <1>1, Zenon DEF Panic, KernelState
<1>3. \A c \in Badge : st'[c] # "none" => c \in known'
  BY <1>1, Zenon DEF ResumedKnown
<1>4. \A i \in 1 .. Len(ep') : st'[ep'[i]] # "none"
  <2> TAKE i \in 1 .. Len(ep')
  <2>1. ep \in Seq(Badge) /\ ep # <<>> /\ ep' = Tail(ep)
    BY Zenon DEF Receive, TypeOK
  <2>2. i + 1 \in 1 .. Len(ep) /\ ep'[i] = ep[i + 1] /\ ep[i + 1] \in Badge
    BY <2>1
  <2> QED BY <2>2, Zenon DEF ResumedKnown
<1>5. k'.pc = "map" /\ k'.op \notin {"boot", "clone"} => k'.tgt \in known'
  BY <1>1, Zenon DEF Panic, KernelState
<1>6. k'.pc = "map" /\ k'.op = "clone" => k'.who \in known'
  BY <1>1, Zenon DEF Panic, KernelState
<1>7. k'.tgt <= made'
  <2>1. k.tgt <= made /\ b <= made /\ b \in Nat
    BY DEF ResumedKnown, Badge
  <2>2. k'.tgt \in {k.tgt, b, made'}
    BY <1>1, Zenon DEF Panic, KernelState
  <2> QED BY <1>1, <2>1, <2>2
<1>8. \A c \in known' : c <= made'
  <2> TAKE c \in known'
  <2>1. c \in Nat /\ c <= made
    BY DEF ResumedKnown, TypeOK, Badge
  <2> QED BY <1>1, <2>1
<1> QED BY <1>2, <1>3, <1>4, <1>5, <1>6, <1>7, <1>8, Zenon DEF ResumedKnown
LEMMA CallKnown == ASSUME TypeOK, ResumedKnown, NEW b \in Badge, SysCall(b) PROVE ResumedKnown'
<1>1. Receive(b) /\ b \in known
  BY Zenon DEF SysCall, SysBrk, SysMmap, SysUnmap, SysWrite, SysExit, SysExec, SysClone,
     Discard, SysReturns, Serve
<1>2. st \in [Badge -> {"none", "run", "call", "stopped"}] /\ made \in Nat
  BY DEF TypeOK, Badge
<1>3. CASE \E vm \in BOOLEAN : SysClone(b, vm)
  <2>1. PICK vm \in BOOLEAN : SysClone(b, vm)
    BY <1>3, Zenon
  <2>2. UNCHANGED <<known, st>>
    BY <2>1, Zenon DEF SysClone
  <2>3. \/ made' = made /\ k' = Panic
        \/ /\ made' = made + 1
           /\ k'.pc = "map" /\ k'.op = "clone" /\ k'.who = b /\ k'.tgt = made'
    BY <2>1 DEF SysClone, Mapping
  <2>4. made' \in Nat /\ made <= made'
    BY <1>2, <2>3
  <2> QED BY <1>1, <2>2, <2>3, <2>4, ServeKnown, Zenon
<1>4. CASE ~ \E vm \in BOOLEAN : SysClone(b, vm)
  <2>1. UNCHANGED <<known, made>>
    BY <1>4, Zenon
       DEF SysCall, SysBrk, SysMmap, SysUnmap, SysWrite, SysExit, SysExec, Discard,
       SysReturns, Return
  <2>2. st' = st \/ st' = [st EXCEPT ![b] = "run"] \/ st' = [st EXCEPT ![b] = "stopped"]
    BY <1>4, Zenon
       DEF SysCall, SysBrk, SysMmap, SysUnmap, SysWrite, SysExit, SysExec, Discard,
       SysReturns, Return
  <2>3. \/ k' \in {k, Panic, [k EXCEPT !.pc = "spin"]}
        \/ k'.pc = "map" /\ k'.op \notin {"boot", "clone"} /\ k'.tgt = b
    <3>1. ASSUME NEW addr \in Address, SysBrk(b, addr) PROVE <2>3!:
      BY <3>1 DEF SysBrk, Mapping
    <3>2. ASSUME NEW a \in Address, NEW n \in Length, NEW fixed \in BOOLEAN,
                 SysMmap(b, a, n, fixed)
          PROVE  <2>3!:
      BY <3>2, Zenon DEF SysMmap, Mapping
    <3>3. CASE SysExec(b)
      BY <3>3, Zenon DEF SysExec, Mapping
    <3> QED BY <1>4, <3>1, <3>2, <3>3, Zenon
               DEF SysCall, SysUnmap, SysWrite, SysExit, Discard,
       SysReturns
  <2>4. \A c \in Badge : st'[c] = st[c] \/ (c = b /\ st'[c] # "none")
    BY <1>2, <2>2, Zenon
  <2>5. made' \in Nat /\ made <= made'
    BY <1>2, <2>1
  <2> QED BY <1>1, <2>1, <2>3, <2>4, <2>5, ServeKnown, Zenon
<1> QED BY <1>3, <1>4, Zenon

LEMMA KernelKnown == ASSUME TypeOK, ResumedKnown, KernelStep PROVE ResumedKnown'
<1>0. /\ k \in KernelState /\ k.tgt \in Badge /\ k.who \in Badge /\ made \in Nat
      /\ st \in [Badge -> {"none", "run", "call", "stopped"}] /\ ep \in Seq(Badge)
      /\ \A i \in 1 .. Len(ep) : ep[i] \in Badge
  <2>1. ep \in Seq(Badge) /\ made \in 1 .. MaxTask
    BY Zenon DEF TypeOK, Badge
  <2>2. \A i \in 1 .. Len(ep) : ep[i] \in Badge
    BY <2>1
  <2> QED BY <2>1, <2>2 DEF TypeOK, KernelState
<1>1. ASSUME NEW b \in Badge, VmFault(b) PROVE ResumedKnown'
  <2>1. Receive(b) /\ b \in known /\ UNCHANGED <<known, made, st>>
    BY <1>1, Zenon DEF VmFault
  <2>2. k'.pc = "map" /\ k'.op \notin {"boot", "clone"} /\ k'.tgt = b
    BY <1>1, Zenon DEF VmFault, Mapping
  <2>3. made' \in Nat /\ made <= made'
    BY <1>0, <2>1
  <2> QED BY <2>1, <2>2, <2>3, ServeKnown, Zenon
<1>2. ASSUME NEW p \in Page, MapStep(p) PROVE ResumedKnown'
  <2>1. k.pc = "map" /\ UNCHANGED <<known, made, st, ep>>
    BY <1>2, MapStepFacts, Zenon
  <2>2. /\ k'.pc \in {"map", "panic"} /\ k'.op = k.op /\ k'.tgt = k.tgt /\ k'.who = k.who
    BY <1>0, <1>2, <2>1, MapStepFacts, ZenonT(30) DEF Panic, KernelState
  <2> QED BY <2>1, <2>2, Zenon DEF ResumedKnown
<1>3. CASE MapDone
  <2>1. k.pc = "map" /\ UNCHANGED <<known, made, ep>> /\ st' = [st EXCEPT ![k.tgt] = "run"]
    BY <1>3, Zenon DEF MapDone
  <2>2. \/ /\ k.op \in {"boot", "clone"} /\ k'.pc = "insert"
           /\ k'.op = k.op /\ k'.tgt = k.tgt /\ k'.who = k.who
        \/ k.op \notin {"boot", "clone"} /\ k' = Ready
    BY <1>0, <1>3, Zenon DEF MapDone, KernelState
  <2>3. \A i \in 1 .. Len(ep) : st'[ep[i]] # "none"
    BY <1>0, <2>1, Zenon DEF ResumedKnown
  <2>4. \A c \in Badge : st'[c] # "none" => c \in known \/ (k'.pc = "insert" /\ k'.tgt = c)
    BY <1>0, <2>1, <2>2, Zenon DEF ResumedKnown
  <2>5. k'.tgt <= made
    <3>1. made \in 1 .. MaxTask /\ k.tgt <= made
      BY Zenon DEF TypeOK, Badge, ResumedKnown
    <3>2. k'.tgt = k.tgt \/ k'.tgt = 1
      BY <2>2 DEF Ready
    <3> QED BY <3>1, <3>2
  <2> QED BY <2>1, <2>2, <2>3, <2>4, <2>5 DEF ResumedKnown, Ready
<1>4. CASE Insert
  <2>1. k.pc = "insert" /\ known' = known \cup {k.tgt} /\ UNCHANGED <<made, ep>> /\ k' = Ready
    BY <1>4, Zenon DEF Insert
  <2>2. st' = st \/ (k.op = "clone" /\ st' = [st EXCEPT ![k.who] = "run"])
    BY <1>4, Zenon DEF Insert
  <2>3. \A i \in 1 .. Len(ep) : st'[ep[i]] # "none"
    BY <1>0, <2>2, Zenon DEF ResumedKnown
  <2>4. \A c \in Badge : st'[c] # "none" => c \in known'
    BY <1>0, <2>1, <2>2, Zenon DEF ResumedKnown
  <2>5. 1 <= made
    BY DEF TypeOK, Badge
  <2> QED BY <2>1, <2>3, <2>4, <2>5, Zenon DEF ResumedKnown, Ready
<1> QED BY <1>1, <1>2, <1>3, <1>4, CallKnown, Zenon DEF KernelStep

LEMMA MemStep == ASSUME IInv, Next PROVE MemInv'
<1>1. TypeOK /\ MemInv /\ ResumedKnown
  BY Zenon DEF IInv, MemInv
<1>2. CASE UserStep
  BY <1>1, <1>2, MemSame, Zenon DEF UserStep, Call, Fault, taskVars, memVars
<1>3. ASSUME NEW b \in Badge, SysCall(b) PROVE MemInv'
  <2>1. b <= made
    BY <1>1, <1>3, Zenon
       DEF ResumedKnown, SysCall, SysBrk, SysMmap, SysUnmap, SysWrite, SysExit,
       SysExec, SysClone, Discard, SysReturns, Serve
  <2>2. ASSUME NEW a \in Address, NEW n \in Length, SysUnmap(b, a, n) PROVE MemInv'
    BY <1>1, <2>2, UnmapMem, Zenon
  <2>3. ASSUME NEW vm \in BOOLEAN, SysClone(b, vm) PROVE MemInv'
    BY <1>1, <2>1, <2>3, CloneMem, Zenon
  <2>4. CASE SysExec(b)
    BY <1>1, <2>4, ExecMem, Zenon
  <2>5. ASSUME NEW addr \in Address, SysBrk(b, addr) PROVE MemInv'
    BY <1>1, <2>5, MemSame, Zenon DEF SysBrk, Return, taskVars, memVars
  <2>6. ASSUME NEW a \in Address, NEW n \in Length, NEW fixed \in BOOLEAN,
               SysMmap(b, a, n, fixed)
        PROVE  MemInv'
    BY <1>1, <2>6, MemSame, Zenon DEF SysMmap, taskVars, memVars
  <2>7. ASSUME NEW a \in Address, NEW n \in Length, SysWrite(b, a, n) PROVE MemInv'
    BY <1>1, <2>7, MemSame, Zenon DEF SysWrite, Return, memVars
  <2>8. CASE SysExit(b) \/ Discard(b) \/ SysReturns(b)
    BY <1>1, <2>8, MemSame, Zenon
       DEF SysExit, Discard, SysReturns, Return, taskVars, memVars
  <2> QED BY <1>3, <2>2, <2>3, <2>4, <2>5, <2>6, <2>7, <2>8, Zenon DEF SysCall
<1>4. ASSUME NEW b \in Badge, VmFault(b) PROVE MemInv'
  BY <1>1, <1>4, MemSame, Zenon DEF VmFault, taskVars, memVars
<1>5. ASSUME NEW p \in Page, MapStep(p) PROVE MemInv'
  BY <1>1, <1>5, MapMem, Zenon
<1>6. CASE MapDone \/ Insert
  BY <1>1, <1>6, MemSame, Zenon DEF MapDone, Insert, taskVars, memVars
<1> QED BY <1>2, <1>3, <1>4, <1>5, <1>6, Zenon DEF Next, KernelStep

LEMMA NextInv == IInv /\ [Next]_vars => IInv'
<1> SUFFICES ASSUME IInv, [Next]_vars PROVE IInv'
  BY Zenon
<1>1. CASE Next
  <2>1. TypeOK' /\ ResumedKnown'
    BY <1>1, UserType, KernelType, UserKnown, KernelKnown, Zenon DEF IInv, Next
  <2> QED BY <1>1, <2>1, MemStep, Zenon DEF IInv, MemInv
<1>2. CASE UNCHANGED vars
  <2>1. UNCHANGED <<nextSlot, known, made, vs, page, heap, hw, pts, st, fault, ep, k>>
    BY <1>2, Zenon DEF vars, taskVars, memVars
  <2>2. MemInv'
    BY <2>1, MemSame, Zenon DEF IInv, MemInv
  <2>3. TypeOK'
    BY <2>1, Zenon DEF IInv, TypeOK
  <2>4. ResumedKnown'
    BY <2>1, Zenon DEF IInv, ResumedKnown
  <2> QED BY <2>2, <2>3, <2>4, Zenon DEF IInv, MemInv
<1> QED BY <1>1, <1>2, Zenon

\* The inductive invariant of the tasks holds always.
THEOREM Invariance == Spec => []IInv
BY InitInv, NextInv, PTL DEF Spec

\* Slots, badges and tables keep their types: the allocator never hands out a
\* slot beyond its range.
THEOREM TypeCorrect == Spec => []TypeOK
<1>1. IInv => TypeOK
  BY Zenon DEF IInv
<1> QED BY Invariance, <1>1, PTL

\* No frame is ever mapped twice, whatever the tasks clone, replace and unmap.
THEOREM FramesStayPrivate == Spec => []FramesPrivate
<1>1. IInv => FramesPrivate
  BY Zenon DEF IInv
<1> QED BY Invariance, <1>1, PTL

\* The kernel thread's table of a task agrees with its address space unless
\* the task shares it.
THEOREM TablesAgree == Spec => []ViewCoherent
<1>1. IInv => ViewCoherent
  BY Zenon DEF IInv
<1> QED BY Invariance, <1>1, PTL

\* The caller of a received message is in TASK_MAP.
THEOREM CallersAreKnown == Spec => []CallerKnown
<1>1. IInv => CallerKnown
  <2> SUFFICES ASSUME IInv, k.pc = "recv", ep # <<>> PROVE Head(ep) \in known
    BY Zenon DEF CallerKnown
  <2>1. 1 \in 1 .. Len(ep) /\ Head(ep) = ep[1] /\ ep[1] \in Badge
    BY DEF IInv, TypeOK
  <2> QED BY <2>1, Zenon DEF IInv, ResumedKnown
<1> QED BY Invariance, <1>1, PTL

\* Without MAP_FIXED, mmap picks an area that overlaps no page of the task.
THEOREM MmapIsFree == Spec => MmapFindsFree
<1>1. ASSUME IInv, NEW b \in Badge, NEW a \in Address, NEW n \in Length,
             SysMmap(b, a, n, FALSE)
      PROVE  k'.todo = PagesOf(k'.addr, n)
  <2> DEFINE area == FindFreeArea(b, a, n)
  <2>1. a \in Nat /\ n \in Nat /\ TypeOK
    BY <1>1, TasksAssumption, Zenon DEF IInv
  <2>2. k'.todo = PagesOf(area, n) \ Mapped(b) /\ k'.addr = area
    BY <1>1, Zenon DEF SysMmap, Mapping
  <2>3. PagesOf(area, n) \cap Mapped(b) = {}
    BY <2>1, FindFreeAreaIsFree, Zenon
  <2> HIDE DEF area
  <2> QED BY <2>2, <2>3, Zenon
<1>2. IInv /\ [Next]_vars =>
        [\A b \in Badge, a \in Address, n \in Length :
           SysMmap(b, a, n, FALSE) => k'.todo = PagesOf(k'.addr, n)]_vars
  BY <1>1, Zenon
<1> QED BY Invariance, <1>2, PTL DEF Spec, MmapFindsFree

(* The endpoint.                                                           *)

Queued(b) == \E i \in 1 .. Len(ep) : ep[i] = b

\* The task the kernel thread works for.
Served(b) == k.pc \in {"map", "insert"} /\ k.op # "boot" /\ k.who = b

\* A queued thread is blocked in its call and is queued once; the thread that
\* is served is blocked, too, and no longer queued.
QueuedOnce ==
  /\ \A i \in 1 .. Len(ep) : st[ep[i]] = "call"
  /\ \A i, j \in 1 .. Len(ep) : ep[i] = ep[j] => i = j
  /\ \A b \in Badge : Served(b) => st[b] = "call" /\ ~Queued(b)

\* A new task has not run before its loop is over, and is not the one that
\* asked for it.
NewTaskWaits ==
  /\ k.pc = "map" /\ k.op \in {"boot", "clone"} => st[k.tgt] = "none"
  /\ k.pc \in {"map", "insert"} /\ k.op = "clone" => k.tgt \notin {1, k.who}
  /\ k.pc \in {"map", "insert"} /\ k.op \notin {"boot", "clone"} => k.tgt = k.who
  /\ k.pc = "insert" => k.op \in {"boot", "clone"}

(* The programs.                                                           *)

StubTypeOK ==
  /\ prog \in [Badge -> {"test", "shim"}]
  /\ at \in [Badge -> 1 .. 6]
  /\ part \in [Badge -> {"before", "call", "after"}]
  /\ prev \in [Badge -> Nat] /\ reg \in [Badge -> Nat]
  /\ sent \in [Badge -> {"none", "hello", "mmap", "write", "clone", "clone_vm", "exit",
                         "execve", "gettid"}]

\* Where the program of a task is.  Only the first task runs the test program
\* from its beginning; between the two gettid calls prev_id is its badge.
Located(b) ==
  \/ /\ prog[b] = "test" /\ b = 1 /\ part[b] = "call" /\ at[b] \in {1, 2, 3, 5}
  \/ /\ prog[b] = "test" /\ at[b] = 4
     /\ b = 1 \/ part[b] = "after"
     /\ part[b] # "before" => prev[b] = 1
  \/ prog[b] = "test" /\ b # 1 /\ part[b] = "call" /\ at[b] = 6
  \/ prog[b] = "shim" /\ b # 1 /\ part[b] = "call" /\ at[b] \in {1, 2}
  \/ prog[b] = "shim" /\ b # 1 /\ at[b] = 3

ProgramsLocated ==
  /\ \A b \in Badge : st[b] # "none" => Located(b)
  /\ st[1] = "none" => prog[1] = "test" /\ at[1] = 1 /\ part[1] = "call"

\* A blocked task waits for the reply to the message its stub sends here.
MessagesSent ==
  \A b \in Badge : st[b] = "call" =>
    sent[b] = Message(b) /\ ~(prog[b] = "shim" /\ part[b] = "after")

\* What the kernel thread does for a task is what the task asked for.
WorkAsked ==
  k.pc \in {"map", "insert"} =>
    \/ k.op = "boot" /\ k.tgt = 1 /\ (k.pc = "map" => st[1] = "none")
    \/ k.op = "mmap" /\ sent[k.who] = "mmap"
    \/ k.op = "exec" /\ sent[k.who] = "execve"
    \/ k.op = "clone" /\ sent[k.who] \in Clones

UInv ==
  /\ IInv /\ QueuedOnce /\ NewTaskWaits
  /\ StubTypeOK /\ ProgramsLocated /\ MessagesSent /\ WorkAsked

(* What the kernel thread's steps do to the queue.                         *)

LEMMA QueueFacts ==
  ASSUME TypeOK
  PROVE  /\ 1 \in Badge /\ made \in Nat /\ Len(ep) \in Nat
         /\ \A i \in 1 .. Len(ep) : ep[i] \in Badge
         /\ st \in [Badge -> {"none", "run", "call", "stopped"}]
         /\ k \in KernelState /\ k.who \in Badge /\ k.tgt \in Badge
<1>1. 1 \in Badge /\ (made \in Badge => made \in Nat)
  BY TasksAssumption DEF Badge
<1>2. ep \in Seq(Badge) => Len(ep) \in Nat /\ \A i \in 1 .. Len(ep) : ep[i] \in Badge
  OBVIOUS
<1> QED BY <1>1, <1>2, Zenon DEF TypeOK, KernelState

LEMMA HeadCalls ==
  ASSUME TypeOK, QueuedOnce, NEW b \in Badge, Receive(b)
  PROVE  /\ st[b] = "call" /\ k.pc = "recv"
         /\ Len(ep') \in Nat /\ \A i \in 1 .. Len(ep') : i + 1 \in 1 .. Len(ep) /\ ep'[i] = ep[i + 1]
         /\ \A i \in 1 .. Len(ep') : ep'[i] \in Badge /\ ep'[i] # b
<1>1. ep \in Seq(Badge) /\ ep # <<>> /\ b = Head(ep) /\ ep' = Tail(ep) /\ k.pc = "recv"
  BY Zenon DEF TypeOK, Receive
<1>2. /\ 1 \in 1 .. Len(ep) /\ ep[1] = b /\ Len(ep') \in Nat
      /\ \A i \in 1 .. Len(ep') : i + 1 \in 1 .. Len(ep) /\ i + 1 # 1 /\ ep'[i] = ep[i + 1]
  BY <1>1
<1>3. \A i \in 1 .. Len(ep') : ep'[i] \in Badge /\ ep'[i] # b
  BY <1>2, QueueFacts, Zenon DEF QueuedOnce
<1>4. st[b] = "call"
  BY <1>2, Zenon DEF QueuedOnce
<1> QED BY <1>1, <1>2, <1>3, <1>4, Zenon

\* Taking the first message keeps the queue sound, if at most its sender is
\* served then, and still waits.
LEMMA TakeQueue ==
  ASSUME TypeOK, QueuedOnce, NEW b \in Badge, Receive(b),
         \A c \in Badge : c # b => st'[c] = st[c],
         \A c \in Badge : Served(c)' => c = b /\ st'[b] = "call"
  PROVE  QueuedOnce'
<1>0. \A i \in 1 .. Len(ep') :
        i + 1 \in 1 .. Len(ep) /\ ep'[i] = ep[i + 1] /\ ep'[i] \in Badge /\ ep'[i] # b
  BY HeadCalls, Zenon
<1>1. \A i \in 1 .. Len(ep') : st'[ep'[i]] = "call"
  <2> TAKE i \in 1 .. Len(ep')
  <2>1. st'[ep'[i]] = st[ep[i + 1]] /\ i + 1 \in 1 .. Len(ep)
    BY <1>0, Zenon
  <2> QED BY <2>1, Zenon DEF QueuedOnce
<1>2. \A i, j \in 1 .. Len(ep') : ep'[i] = ep'[j] => i = j
  <2> TAKE i, j \in 1 .. Len(ep')
  <2>0. /\ i + 1 \in 1 .. Len(ep) /\ j + 1 \in 1 .. Len(ep)
        /\ ep'[i] = ep[i + 1] /\ ep'[j] = ep[j + 1]
    BY <1>0, Zenon
  <2>1. ep'[i] = ep'[j] => i + 1 = j + 1
    BY <2>0, Zenon DEF QueuedOnce
  <2>2. i \in Nat /\ j \in Nat
    BY HeadCalls
  <2> QED BY <2>1, <2>2
<1>3. ~Queued(b)'
  BY HeadCalls, Zenon DEF Queued
<1> QED BY <1>1, <1>2, <1>3, Zenon DEF QueuedOnce

\* The steps that serve a message: the thread is answered or stopped, or the
\* kernel thread goes on working for it while it waits.
LEMMA ServeKinds ==
  ASSUME TypeOK, NEW b \in Badge, SysCall(b) \/ VmFault(b)
  PROVE  /\ Receive(b) /\ b \in known
         /\ \A c \in Badge : c # b => st'[c] = st[c]
         /\ st'[b] \in {st[b], "run", "stopped"}
         /\ \/ k'.pc \in {"recv", "panic", "spin"}
            \/ /\ UNCHANGED st /\ k'.pc = "map" /\ k'.who = b
               /\ \/ k'.op \in {"brk", "mmap", "exec", "fault"} /\ k'.tgt = b
                  \/ k'.op = "clone" /\ k'.tgt = made + 1 /\ made < MaxTask
<1>1. Receive(b) /\ b \in known /\ k.pc = "recv"
  BY Zenon DEF SysCall, SysBrk, SysMmap, SysUnmap, SysWrite, SysExit, SysExec, SysClone,
     Discard, SysReturns, Serve, VmFault, Receive
<1>2. /\ Panic.pc = "panic" /\ [k EXCEPT !.pc = "spin"].pc = "spin"
      /\ \A op, who, tgt, todo, last, addr :
           /\ Mapping(op, who, tgt, todo, last, addr).pc = "map"
           /\ Mapping(op, who, tgt, todo, last, addr).op = op
           /\ Mapping(op, who, tgt, todo, last, addr).who = who
           /\ Mapping(op, who, tgt, todo, last, addr).tgt = tgt
  BY QueueFacts DEF Panic, KernelState, Mapping
<1>0. st \in [Badge -> {"none", "run", "call", "stopped"}]
  BY QueueFacts, Zenon
<1>3. CASE VmFault(b)
  BY <1>0, <1>1, <1>2, <1>3 DEF VmFault, Mapping
<1>4. CASE \E addr \in Address : SysBrk(b, addr)
  BY <1>0, <1>1, <1>2, <1>4 DEF SysBrk, Return, Mapping
<1>5. CASE \E a \in Address, n \in Length, fixed \in BOOLEAN : SysMmap(b, a, n, fixed)
  BY <1>0, <1>1, <1>2, <1>5 DEF SysMmap, Mapping
<1>6. CASE \E a \in Address, n \in Length : SysUnmap(b, a, n)
  BY <1>0, <1>1, <1>6, Zenon DEF SysUnmap
<1>7. CASE \E a \in Address, n \in Length : SysWrite(b, a, n)
  BY <1>0, <1>1, <1>2, <1>7, Zenon DEF SysWrite, Return
<1>8. CASE SysExit(b) \/ Discard(b) \/ SysReturns(b)
  BY <1>0, <1>1, <1>8, Zenon DEF SysExit, Discard, SysReturns, Return
<1>9. CASE SysExec(b)
  BY <1>0, <1>1, <1>2, <1>9 DEF SysExec, Mapping
<1>10. CASE \E vm \in BOOLEAN : SysClone(b, vm)
  BY <1>0, <1>1, <1>2, <1>10 DEF SysClone, Mapping
<1> QED BY <1>3, <1>4, <1>5, <1>6, <1>7, <1>8, <1>9, <1>10, Zenon DEF SysCall

LEMMA ServeQueue ==
  ASSUME TypeOK, ResumedKnown, QueuedOnce, NewTaskWaits, NEW b \in Badge,
         SysCall(b) \/ VmFault(b)
  PROVE  QueuedOnce' /\ NewTaskWaits'
<1>0. /\ Receive(b) /\ b \in known
      /\ \A c \in Badge : c # b => st'[c] = st[c]
  BY ServeKinds, Zenon
<1>01. \/ k'.pc \in {"recv", "panic", "spin"}
       \/ /\ UNCHANGED st /\ k'.pc = "map" /\ k'.who = b
          /\ \/ k'.op \in {"brk", "mmap", "exec", "fault"} /\ k'.tgt = b
             \/ k'.op = "clone" /\ k'.tgt = made + 1 /\ made < MaxTask
  BY ServeKinds, Zenon
<1>02. st[b] = "call" /\ k.pc = "recv"
  BY <1>0, HeadCalls, Zenon
<1>1. \A c \in Badge : Served(c)' => c = b /\ st'[b] = "call"
  BY <1>01, <1>02, Zenon DEF Served
<1>2. QueuedOnce'
  BY <1>0, <1>1, TakeQueue, Zenon
<1>3. CASE k'.pc # "map"
  BY <1>01, <1>2, <1>3, Zenon DEF NewTaskWaits
<1>4. CASE k'.pc = "map" /\ k'.op # "clone"
  BY <1>01, <1>2, <1>4, Zenon DEF NewTaskWaits
<1>5. CASE k'.pc = "map" /\ k'.op = "clone"
  <2>1. k'.tgt = made + 1 /\ made < MaxTask /\ k'.who = b /\ UNCHANGED st
    BY <1>01, <1>5, Zenon
  <2>2. /\ made + 1 \in Badge /\ \A c \in known : c # made + 1
        /\ made + 1 # 1 /\ b # made + 1
    <3>1. b <= made /\ (\A c \in known : c <= made /\ c \in Badge) /\ made \in Badge
      BY <1>0, Zenon DEF ResumedKnown, TypeOK
    <3>2. made < MaxTask /\ MaxTask \in Nat
      BY <2>1, TasksAssumption, Zenon
    <3> QED BY <3>1, <3>2, <1>0 DEF Badge
  <2>3. st[made + 1] = "none"
    BY <1>02, <2>2, Zenon DEF ResumedKnown
  <2> QED BY <1>2, <1>5, <2>1, <2>2, <2>3, Zenon DEF NewTaskWaits
<1> QED BY <1>2, <1>3, <1>4, <1>5, Zenon

\* A thread that calls or faults joins the queue.
LEMMA UserQueue ==
  ASSUME TypeOK, QueuedOnce, NewTaskWaits, UserStep
  PROVE  QueuedOnce' /\ NewTaskWaits'
<1> USE QueueFacts
<1>1. PICK b \in Badge : Call(b) \/ \E p \in Page : Fault(b, p)
  BY Zenon DEF UserStep
<1>2. st' = [st EXCEPT ![b] = "call"] /\ st[b] = "run" /\ ep' = Append(ep, b) /\ UNCHANGED k
  BY <1>1, Zenon DEF Call, Fault
<1>3. \A i \in 1 .. Len(ep') :
        \/ i \in 1 .. Len(ep) /\ ep'[i] = ep[i] /\ ep[i] # b
        \/ i = Len(ep) + 1 /\ ep'[i] = b
  <2>1. ep \in Seq(Badge)
    BY Zenon DEF TypeOK
  <2>2. \A i \in 1 .. Len(ep) : ep[i] # b
    BY <1>2, Zenon DEF QueuedOnce
  <2> QED BY <1>2, <2>1, <2>2
<1>4. QueuedOnce'
  <2>1. \A i \in 1 .. Len(ep') : st'[ep'[i]] = "call"
    <3> TAKE i \in 1 .. Len(ep')
    <3>1. st'[b] = "call" /\ \A c \in Badge : c # b => st'[c] = st[c]
      BY <1>2, Zenon
    <3>2. CASE ep'[i] = b
      BY <3>1, <3>2, Zenon
    <3>3. CASE i \in 1 .. Len(ep) /\ ep'[i] = ep[i] /\ ep[i] # b
      BY <3>1, <3>3, Zenon DEF QueuedOnce
    <3> QED BY <1>3, <3>2, <3>3, Zenon
  <2>2. \A i, j \in 1 .. Len(ep') : ep'[i] = ep'[j] => i = j
    BY <1>3, Zenon DEF QueuedOnce
  <2>3. ASSUME NEW c \in Badge, Served(c)' PROVE st'[c] = "call" /\ ~Queued(c)'
    <3>1. Served(c)
      BY <1>2, <2>3, Zenon DEF Served
    <3>2. st[c] = "call" /\ ~Queued(c) /\ c # b
      BY <1>2, <3>1, Zenon DEF QueuedOnce
    <3> QED BY <1>2, <1>3, <3>2, Zenon DEF Queued
  <2> QED BY <2>1, <2>2, <2>3, Zenon DEF QueuedOnce
<1>5. NewTaskWaits'
  BY <1>2, Zenon DEF NewTaskWaits
<1> QED BY <1>4, <1>5, Zenon

LEMMA QueueKept ==
  ASSUME QueuedOnce, ep' = ep, \A i \in 1 .. Len(ep) : st'[ep[i]] = st[ep[i]],
         \A b \in Badge : Served(b)' => Served(b) /\ st'[b] = st[b]
  PROVE  QueuedOnce'
<1>1. \A i \in 1 .. Len(ep') : st'[ep'[i]] = "call"
  BY Zenon DEF QueuedOnce
<1>2. \A i, j \in 1 .. Len(ep') : ep'[i] = ep'[j] => i = j
  BY Zenon DEF QueuedOnce
<1>3. \A b \in Badge : Served(b)' => st'[b] = "call" /\ ~Queued(b)'
  BY Zenon DEF QueuedOnce, Queued
<1> QED BY <1>1, <1>2, <1>3, Zenon DEF QueuedOnce

\* A step of a loop leaves the queue alone, and what the kernel thread does.
LEMMA MapStepKeeps ==
  ASSUME TypeOK, NEW p \in Page, MapStep(p)
  PROVE  /\ UNCHANGED <<st, ep>> /\ k.pc = "map"
         /\ k'.op = k.op /\ k'.who = k.who /\ k'.tgt = k.tgt /\ k'.pc \in {"map", "panic"}
<1>1. k \in KernelState
  BY Zenon DEF TypeOK
<1>2. /\ UNCHANGED <<st, ep>> /\ k.pc = "map"
      /\ \/ k' = [k EXCEPT !.pc = "panic"]
         \/ k' = [k EXCEPT !.todo = @ \ {p}]
         \/ k' = [k EXCEPT !.last = @ \ {p}]
  BY MapStepFacts, Zenon DEF Panic
<1>3. k'.op = k.op /\ k'.who = k.who /\ k'.tgt = k.tgt /\ k'.pc \in {"map", "panic"}
  BY <1>1, <1>2 DEF KernelState
<1> QED BY <1>2, <1>3, Zenon

LEMMA LoopQueue ==
  ASSUME TypeOK, ResumedKnown, QueuedOnce, NewTaskWaits,
         (\E p \in Page : MapStep(p)) \/ MapDone \/ Insert
  PROVE  QueuedOnce' /\ NewTaskWaits'
<1>0. k \in KernelState /\ \A i \in 1 .. Len(ep) : ep[i] \in Badge
  BY QueueFacts, Zenon
<1>st. st = [b \in Badge |-> st[b]]
  BY Zenon DEF TypeOK
<1>1. ASSUME NEW p \in Page, MapStep(p) PROVE QueuedOnce' /\ NewTaskWaits'
  <2>1. /\ UNCHANGED <<st, ep>> /\ k.pc = "map"
        /\ k'.op = k.op /\ k'.who = k.who /\ k'.tgt = k.tgt /\ k'.pc \in {"map", "panic"}
    BY <1>1, MapStepKeeps, Zenon
  <2>2. \A b \in Badge : Served(b)' => Served(b)
    BY <2>1, Zenon DEF Served
  <2>3. QueuedOnce'
    BY <2>1, <2>2, QueueKept, Zenon
  <2>4. NewTaskWaits'
    BY <2>1, Zenon DEF NewTaskWaits
  <2> QED BY <2>3, <2>4, Zenon
<1>2. CASE MapDone
  <2>1. /\ k.pc = "map" /\ st' = [st EXCEPT ![k.tgt] = "run"] /\ UNCHANGED ep
        /\ k' = IF k.op \in {"boot", "clone"} THEN [k EXCEPT !.pc = "insert"] ELSE Ready
    BY <1>2, Zenon DEF MapDone
  <2>2. \A i \in 1 .. Len(ep) : ep[i] # k.tgt
    BY <1>0, <2>1, Zenon DEF QueuedOnce, NewTaskWaits, Served, Queued
  <2>3. /\ k'.pc = "recv" /\ k.op \notin {"boot", "clone"}
        \/ /\ k.op \in {"boot", "clone"} /\ k'.pc = "insert"
           /\ k'.op = k.op /\ k'.who = k.who /\ k'.tgt = k.tgt
    BY <1>0, <2>1 DEF Ready, KernelState
  <2>4. \A c \in Badge : Served(c)' => Served(c) /\ c # k.tgt
    BY <2>1, <2>3, Zenon DEF Served, NewTaskWaits
  <2>5. \A c \in Badge : c # k.tgt => st'[c] = st[c]
    BY <1>st, <2>1, Zenon
  <2>6. QueuedOnce'
    BY <1>0, <2>1, <2>2, <2>4, <2>5, QueueKept, Zenon
  <2>7. NewTaskWaits'
    BY <2>1, <2>3, Zenon DEF NewTaskWaits
  <2> QED BY <2>6, <2>7, Zenon
<1>3. CASE Insert
  <2>1. k.pc = "insert" /\ UNCHANGED ep /\ k'.pc = "recv"
        /\ st' = IF k.op = "clone" THEN [st EXCEPT ![k.who] = "run"] ELSE st
    BY <1>3, Zenon DEF Insert, Ready
  <2>2. \A b \in Badge : ~Served(b)'
    BY <2>1, Zenon DEF Served
  <2>3. \A i \in 1 .. Len(ep) : k.op = "clone" => ep[i] # k.who
    BY <1>0, <2>1, Zenon DEF QueuedOnce, Served, Queued
  <2>4. \A i \in 1 .. Len(ep) : st'[ep[i]] = st[ep[i]]
    BY <1>0, <1>st, <2>1, <2>3, Zenon
  <2>5. QueuedOnce'
    BY <2>1, <2>2, <2>4, QueueKept, Zenon
  <2>6. NewTaskWaits'
    BY <2>1, Zenon DEF NewTaskWaits
  <2> QED BY <2>5, <2>6, Zenon
<1> QED BY <1>1, <1>2, <1>3, Zenon

LEMMA QueueStep ==
  ASSUME IInv, QueuedOnce, NewTaskWaits, [Next]_vars
  PROVE  QueuedOnce' /\ NewTaskWaits'
<1>1. TypeOK /\ ResumedKnown
  BY Zenon DEF IInv
<1>2. CASE Next
  BY <1>1, <1>2, ServeQueue, UserQueue, LoopQueue, Zenon DEF Next, KernelStep
<1>3. CASE UNCHANGED vars
  BY <1>3, Zenon DEF vars, QueuedOnce, NewTaskWaits, Served, Queued
<1> QED BY <1>2, <1>3, Zenon

LEMMA QueueInit == Init => QueuedOnce /\ NewTaskWaits
<1> SUFFICES ASSUME Init PROVE QueuedOnce /\ NewTaskWaits
  BY Zenon
<1>1. ep = <<>> /\ 1 .. Len(ep) = {} /\ 1 \in Badge
  BY TasksAssumption DEF Init, Badge
<1>2. k.op = "boot" /\ k.pc = "map" /\ st[k.tgt] = "none"
  BY <1>1, Zenon DEF Init, Mapping
<1> QED BY <1>1, <1>2, Zenon DEF QueuedOnce, NewTaskWaits, Served, Queued

\* Whatever the tasks do, a thread is queued on the endpoint at most once, and
\* only while it is blocked; the reply of the kernel thread goes to a
\* thread that waits for one.
THEOREM CallersQueuedOnce == Spec => []QueuedOnce
<1>1. IInv /\ QueuedOnce /\ NewTaskWaits /\ [Next]_vars => (IInv /\ QueuedOnce /\ NewTaskWaits)'
  BY NextInv, QueueStep, Zenon
<1> QED BY InitInv, QueueInit, <1>1, PTL DEF Spec

(* The stub.                                                               *)

\* The stub and the program of b are as before.
SameStub(b) ==
  prog'[b] = prog[b] /\ at'[b] = at[b] /\ part'[b] = part[b] /\ prev'[b] = prev[b]

LEMMA SamePlace ==
  ASSUME NEW b \in Badge, SameStub(b)
  PROVE  (Located(b) => Located(b)') /\ Message(b)' = Message(b)
BY Zenon DEF SameStub, Located, Message, Program

\* The message of a program, by its position.
LEMMA Messages ==
  ASSUME StubTypeOK, NEW b \in Badge, Located(b)
  PROVE  /\ part[b] # "call" => Message(b) = "gettid"
         /\ part[b] = "call" => Message(b) = Program(b)[at[b]]
         /\ prog[b] = "test" =>
              /\ Program(b)[1] = "hello" /\ Program(b)[2] = "mmap" /\ Program(b)[3] = "write"
              /\ Program(b)[4] = "clone" /\ Program(b)[5] = "exit" /\ Program(b)[6] = "execve"
         /\ prog[b] = "shim" =>
              /\ Program(b)[1] = "hello" /\ Program(b)[2] = "mmap" /\ Program(b)[3] = "clone_vm"
              /\ at[b] \in {1, 2, 3}
BY DEF StubTypeOK, Located, Message, Program, TestProgram, ShimProgram

\* A reply that answers the message of the stub moves the program to its next
\* place and touches no other task.
LEMMA ResumeStub ==
  ASSUME StubTypeOK, NEW b \in Badge, NEW x \in Nat, Resume(b, x), Located(b),
         Message(b) \notin {"exit", "execve"}, Message(b) = "gettid" => x = b,
         ~(prog[b] = "shim" /\ part[b] = "after")
  PROVE  /\ StubTypeOK' /\ Located(b)' /\ UNCHANGED sent
         /\ \A c \in Badge : c # b => SameStub(c)
<1>1. /\ prog[b] \in {"test", "shim"} /\ at[b] \in 1 .. 6 /\ prev[b] \in Nat
      /\ part[b] \in {"before", "call", "after"} /\ UNCHANGED <<prog, sent>>
      /\ reg' \in [Badge -> Nat]
  BY Zenon DEF StubTypeOK, Resume
<1> DEFINE p == Program(b)
<1>2. CASE part[b] = "before"
  <2>1. /\ prev' = [prev EXCEPT ![b] = x] /\ part' = [part EXCEPT ![b] = "call"]
        /\ UNCHANGED at /\ x = b /\ at[b] \in {3, 4}
    BY <1>2, Messages, Zenon DEF Resume, Located
  <2>2. StubTypeOK' /\ \A c \in Badge : c # b => SameStub(c)
    BY <1>1, <2>1, Zenon DEF StubTypeOK, SameStub
  <2>3. Located(b)'
    <3>1. prev'[b] = b /\ part'[b] = "call" /\ at'[b] = at[b] /\ prog'[b] = prog[b]
      BY <1>1, <2>1, Zenon DEF StubTypeOK
    <3> QED BY <1>2, <3>1 DEF Located
  <2> QED BY <1>1, <2>2, <2>3, Zenon
<1>3. CASE part[b] = "call" /\ Program(b)[at[b]] \in Clones
  <2>1. part' = [part EXCEPT ![b] = "after"] /\ UNCHANGED <<at, prev>>
    BY <1>3, Zenon DEF Resume
  <2>2. StubTypeOK' /\ \A c \in Badge : c # b => SameStub(c)
    BY <1>1, <2>1, Zenon DEF StubTypeOK, SameStub
  <2>3. \/ prog[b] = "test" /\ at[b] = 4 /\ prev[b] = 1
        \/ prog[b] = "shim" /\ at[b] = 3 /\ b # 1
    BY <1>3, Messages DEF Located, Clones
  <2>4. Located(b)'
    <3>1. prev'[b] = prev[b] /\ part'[b] = "after" /\ at'[b] = at[b] /\ prog'[b] = prog[b]
      BY <1>1, <2>1, Zenon DEF StubTypeOK
    <3> QED BY <2>3, <3>1 DEF Located
  <2> QED BY <1>1, <2>2, <2>4, Zenon
<1>4. CASE part[b] = "call" /\ Program(b)[at[b]] \notin Clones
  <2>1. GoTo(b, at[b] + 1) /\ UNCHANGED prev
    BY <1>4, Zenon DEF Resume
  <2>2. \/ prog[b] = "test" /\ at[b] \in {1, 2, 3} /\ b = 1
        \/ prog[b] = "shim" /\ at[b] \in {1, 2} /\ b # 1
    BY <1>4, Messages DEF Located, Clones
  <2>3. /\ at[b] + 1 \in 1 .. 6 /\ FirstPart(p[at[b] + 1]) \in {"before", "call"}
        /\ prog[b] = "test" => FirstPart(p[at[b] + 1]) = (IF at[b] = 3 THEN "before" ELSE "call")
        /\ prog[b] = "shim" => FirstPart(p[at[b] + 1]) = (IF at[b] = 2 THEN "before" ELSE "call")
    BY <2>2, Messages DEF FirstPart, Clones
  <2>4. at' = [at EXCEPT ![b] = at[b] + 1] /\ part' = [part EXCEPT ![b] = FirstPart(p[at[b] + 1])]
    BY <2>1, Zenon DEF GoTo
  <2>5. StubTypeOK' /\ \A c \in Badge : c # b => SameStub(c)
    BY <1>1, <2>1, <2>3, <2>4, Zenon DEF StubTypeOK, SameStub
  <2>6. Located(b)'
    <3>1. /\ part'[b] = FirstPart(p[at[b] + 1]) /\ at'[b] = at[b] + 1 /\ prog'[b] = prog[b]
      BY <1>1, <2>4, Zenon DEF StubTypeOK
    <3> HIDE DEF p
    <3> QED BY <2>2, <2>3, <3>1 DEF Located
  <2> QED BY <1>1, <2>5, <2>6, Zenon
<1>5. CASE part[b] = "after"
  <2>1. /\ GoTo(b, AfterClone(b, x)) /\ UNCHANGED prev /\ x = b
        /\ prog[b] = "test" /\ at[b] = 4 /\ prev[b] = 1
    BY <1>1, <1>5, Messages, Zenon DEF Resume, Located
  <2> DEFINE i == IF b = 1 THEN 5 ELSE 6
  <2>2. AfterClone(b, x) = i /\ i \in 1 .. 6 /\ FirstPart(p[i]) = "call"
    BY <2>1, Messages DEF AfterClone, FirstPart, Clones
  <2>3. at' = [at EXCEPT ![b] = i] /\ part' = [part EXCEPT ![b] = "call"]
    BY <2>1, <2>2, Zenon DEF GoTo
  <2>4. StubTypeOK' /\ \A c \in Badge : c # b => SameStub(c)
    BY <1>1, <2>1, <2>2, <2>3, Zenon DEF StubTypeOK, SameStub
  <2>5. Located(b)'
    <3>1. part'[b] = "call" /\ at'[b] = i /\ prog'[b] = "test"
      BY <1>1, <2>1, <2>3, Zenon DEF StubTypeOK
    <3> QED BY <3>1 DEF Located
  <2> QED BY <1>1, <2>4, <2>5, Zenon
<1> QED BY <1>1, <1>2, <1>3, <1>4, <1>5, Zenon

(* The invariant of the programs.                                          *)

\* The messages of the programs are calls the kernel thread serves.
LEMMA ServesCalls == ASSUME NEW b \in Badge, UServe(b) PROVE SysCall(b)
<1>1. /\ TestArea \in Address /\ ShimStack \in Address /\ AreaLen \in Length
      /\ "mmap" \in Calls /\ "write" \in Calls /\ "clone" \in Calls
      /\ "execve" \in Calls /\ "exit" \in Calls
  BY ProgramsAssumption
<1>2. Area(b) \in Address
  BY <1>1, Zenon DEF Area
<1> QED BY <1>1, <1>2, Zenon DEF UServe, ServeHello, ServeGettid, ServeMmap, ServeWrite,
           ServeClone, ServeThread, ServeExec, ServeExit, SysCall

\* The programs are tasks of the kernel thread.
LEMMA UsesTasks == UNext => Next
BY ServesCalls, Zenon
   DEF UNext, KernelSide, UMapDone, UInsert, UCall, Next, KernelStep, UserStep

\* A step that concerns one task keeps the others where they are.
LEMMA OneMoves ==
  ASSUME ProgramsLocated, MessagesSent, NEW b \in Badge,
         \A c \in Badge : c # b => st'[c] = st[c] /\ SameStub(c) /\ sent'[c] = sent[c],
         Located(b)', st'[b] # "none",
         st'[b] = "call" => sent'[b] = Message(b)' /\ ~(prog'[b] = "shim" /\ part'[b] = "after")
  PROVE  ProgramsLocated' /\ MessagesSent'
<1>1. \A c \in Badge : st'[c] # "none" => Located(c)'
  BY SamePlace, Zenon DEF ProgramsLocated
<1>2. st'[1] = "none" => prog'[1] = "test" /\ at'[1] = 1 /\ part'[1] = "call"
  <2>1. 1 \in Badge
    BY TasksAssumption DEF Badge
  <2> QED BY <2>1, Zenon DEF ProgramsLocated, SameStub
<1>3. ASSUME NEW c \in Badge, st'[c] = "call"
      PROVE  sent'[c] = Message(c)' /\ ~(prog'[c] = "shim" /\ part'[c] = "after")
  <2>1. CASE c # b
    BY <1>3, <2>1, SamePlace, Zenon DEF MessagesSent, SameStub
  <2> QED BY <1>3, <2>1, Zenon
<1> QED BY <1>1, <1>2, <1>3, Zenon DEF ProgramsLocated, MessagesSent

LEMMA StubsSame ==
  ASSUME UNCHANGED stubVars
  PROVE  /\ UNCHANGED sent /\ \A b \in Badge : SameStub(b)
         /\ StubTypeOK => StubTypeOK'
BY Zenon DEF stubVars, SameStub, StubTypeOK

\* No program moves, and no thread.
LEMMA NobodyMoves ==
  ASSUME ProgramsLocated, MessagesSent, 1 \in Badge, UNCHANGED <<st, sent>>,
         \A c \in Badge : SameStub(c)
  PROVE  ProgramsLocated' /\ MessagesSent'
<1>1. \A c \in Badge : st'[c] # "none" => Located(c)'
  BY SamePlace, Zenon DEF ProgramsLocated
<1>2. st'[1] = "none" => prog'[1] = "test" /\ at'[1] = 1 /\ part'[1] = "call"
  BY Zenon DEF ProgramsLocated, SameStub
<1>3. MessagesSent'
  BY SamePlace, Zenon DEF MessagesSent, SameStub
<1> QED BY <1>1, <1>2, <1>3, Zenon DEF ProgramsLocated

\* A thread of a program calls.
LEMMA CallLocated ==
  ASSUME UInv, NEW b \in Badge, Followed(b), UCall(b)
  PROVE  StubTypeOK' /\ ProgramsLocated' /\ MessagesSent' /\ WorkAsked'
<1>1. /\ st[b] = "run" /\ st' = [st EXCEPT ![b] = "call"] /\ UNCHANGED k
      /\ sent' = [sent EXCEPT ![b] = Message(b)] /\ UNCHANGED <<prog, at, part, prev, reg>>
  BY Zenon DEF UCall, Call
<1>2. /\ TypeOK /\ QueuedOnce /\ StubTypeOK /\ ProgramsLocated /\ MessagesSent /\ WorkAsked
      /\ Located(b)
  BY <1>1, Zenon DEF UInv, IInv, ProgramsLocated
<1>3. 1 \in Badge /\ k.who \in Badge /\ st \in [Badge -> {"none", "run", "call", "stopped"}]
  BY <1>2, QueueFacts, Zenon
<1>4. Message(b) \in {"hello", "mmap", "write", "clone", "clone_vm", "exit", "execve", "gettid"}
  BY <1>2, Messages DEF StubTypeOK, Located
<1>5. StubTypeOK'
  BY <1>1, <1>2, <1>4, Zenon DEF StubTypeOK
<1>6. \A c \in Badge : SameStub(c) /\ (c # b => st'[c] = st[c] /\ sent'[c] = sent[c])
  BY <1>1, <1>2, <1>3, Zenon DEF SameStub, StubTypeOK
<1>7. st'[b] = "call" /\ sent'[b] = Message(b)
  BY <1>1, <1>2, <1>3, Zenon DEF StubTypeOK
<1>8. ProgramsLocated' /\ MessagesSent'
  <2>1. Located(b)' /\ Message(b)' = Message(b)
    BY <1>2, <1>6, SamePlace, Zenon
  <2>2. ~(prog'[b] = "shim" /\ part'[b] = "after")
    BY <1>1, Zenon DEF Followed
  <2> QED BY <1>2, <1>6, <1>7, <2>1, <2>2, OneMoves, Zenon
<1>9. WorkAsked'
  <2>1. k.pc \in {"map", "insert"} /\ k.op # "boot" => sent'[k.who] = sent[k.who]
    <3>1. k.pc \in {"map", "insert"} /\ k.op # "boot" => k.who # b
      BY <1>1, <1>2, <1>3, Zenon DEF QueuedOnce, Served
    <3> QED BY <1>3, <1>6, <3>1, Zenon
  <2>2. st[1] = "none" => st'[1] = "none"
    BY <1>1, <1>3, <1>6, Zenon
  <2> QED BY <1>1, <1>2, <2>1, <2>2, Zenon DEF WorkAsked
<1> QED BY <1>5, <1>8, <1>9, Zenon

\* The kernel thread serves the message of a program.
LEMMA ServeLocated ==
  ASSUME UInv, NEW b \in Badge, UServe(b)
  PROVE  StubTypeOK' /\ ProgramsLocated' /\ MessagesSent' /\ WorkAsked'
<1>1. SysCall(b)
  BY ServesCalls, Zenon
<1>2. TypeOK /\ QueuedOnce /\ StubTypeOK /\ ProgramsLocated /\ MessagesSent /\ WorkAsked
  BY Zenon DEF UInv, IInv
<1>3. /\ Receive(b) /\ \A c \in Badge : c # b => st'[c] = st[c]
      /\ st'[b] \in {st[b], "run", "stopped"}
  BY <1>1, <1>2, ServeKinds, Zenon
<1>4. /\ st[b] = "call" /\ k.pc = "recv" /\ Located(b) /\ sent[b] = Message(b)
      /\ ~(prog[b] = "shim" /\ part[b] = "after") /\ st'[b] # "none"
  <2>1. st[b] = "call" /\ k.pc = "recv"
    BY <1>2, <1>3, HeadCalls, Zenon
  <2> QED BY <1>2, <1>3, <2>1, Zenon DEF ProgramsLocated, MessagesSent
\* The stub stays where it is.
<1>5. ASSUME UNCHANGED stubVars,
             \/ k'.pc \notin {"map", "insert"}
             \/ k'.op = "mmap" /\ k'.who = b /\ sent[b] = "mmap"
             \/ k'.op = "exec" /\ k'.who = b /\ sent[b] = "execve"
             \/ k'.op = "clone" /\ k'.who = b /\ sent[b] \in Clones
      PROVE  StubTypeOK' /\ ProgramsLocated' /\ MessagesSent' /\ WorkAsked'
  <2>1. UNCHANGED sent /\ (\A c \in Badge : SameStub(c)) /\ StubTypeOK'
    BY <1>2, <1>5, StubsSame, Zenon
  <2>2. Located(b)' /\ Message(b)' = Message(b) /\ ~(prog'[b] = "shim" /\ part'[b] = "after")
    BY <1>4, <2>1, SamePlace, Zenon DEF SameStub
  <2>3. ProgramsLocated' /\ MessagesSent'
    BY <1>2, <1>3, <1>4, <2>1, <2>2, OneMoves, Zenon
  <2>4. WorkAsked'
    BY <1>5, <2>1, Zenon DEF WorkAsked
  <2> QED BY <2>1, <2>3, <2>4, Zenon
\* The stub gets its reply at once.
<1>6. ASSUME NEW x \in Nat, Resume(b, x), sent[b] \notin {"exit", "execve"},
             sent[b] = "gettid" => x = b, k'.pc = "recv", st'[b] = "run"
      PROVE  StubTypeOK' /\ ProgramsLocated' /\ MessagesSent' /\ WorkAsked'
  <2>1. /\ StubTypeOK' /\ Located(b)' /\ UNCHANGED sent
        /\ \A c \in Badge : c # b => SameStub(c)
    BY <1>2, <1>4, <1>6, ResumeStub, Zenon
  <2>2. ProgramsLocated' /\ MessagesSent'
    BY <1>2, <1>3, <1>6, <2>1, OneMoves, Zenon
  <2>3. WorkAsked'
    BY <1>6, Zenon DEF WorkAsked
  <2> QED BY <2>1, <2>2, <2>3, Zenon
<1>7. /\ b \in Nat /\ reg[b] \in Nat /\ AreaLen \in Nat
      /\ st \in [Badge -> {"none", "run", "call", "stopped"}]
  <2>1. b \in Nat /\ AreaLen \in Nat
    BY ProgramsAssumption, TasksAssumption DEF Badge
  <2> QED BY <1>2, <2>1, QueueFacts, Zenon DEF StubTypeOK
<1>8. CASE ServeHello(b) \/ ServeGettid(b)
  <2>1. k'.pc = "recv" /\ st'[b] = "run"
    BY <1>4, <1>7, <1>8, Zenon DEF ServeHello, ServeGettid, SysReturns, Return
  <2>2. \/ sent[b] = "hello" /\ Resume(b, reg[b])
        \/ sent[b] = "gettid" /\ Resume(b, b)
    BY <1>8, Zenon DEF ServeHello, ServeGettid, Asks
  <2> QED BY <1>6, <1>7, <2>1, <2>2, Zenon
<1>9. CASE ServeMmap(b)
  <2>1. k'.op = "mmap" /\ k'.who = b
    BY <1>9, Zenon DEF ServeMmap, SysMmap, Mapping
  <2> QED BY <1>5, <1>9, <2>1, Zenon DEF ServeMmap, Asks
<1>10. CASE ServeWrite(b)
  <2>1. CASE k'.pc = "recv"
    <3>1. st'[b] = "run"
      <4>1. k \in KernelState
        BY <1>2, Zenon DEF TypeOK
      <4>2. [k EXCEPT !.pc = "spin"].pc = "spin"
        BY <4>1 DEF KernelState
      <4>3. st' = [st EXCEPT ![b] = "run"] \/ k' = [k EXCEPT !.pc = "spin"]
        BY <1>10, Zenon DEF ServeWrite, SysWrite, Return
      <4>4. k' # [k EXCEPT !.pc = "spin"]
        BY <2>1, <4>2, Zenon
      <4> QED BY <1>7, <4>3, <4>4, Zenon
    <3> QED BY <1>6, <1>7, <1>10, <2>1, <3>1, Zenon DEF ServeWrite, Asks
  <2>2. CASE k'.pc # "recv"
    <3>1. k'.pc \notin {"map", "insert"}
      <4>1. k \in KernelState
        BY <1>2, Zenon DEF TypeOK
      <4>2. [k EXCEPT !.pc = "spin"].pc = "spin"
        BY <4>1 DEF KernelState
      <4> QED BY <1>4, <1>10, <4>2, Zenon DEF ServeWrite, SysWrite
    <3> QED BY <1>5, <1>10, <2>2, <3>1, Zenon DEF ServeWrite
  <2> QED BY <2>1, <2>2, Zenon
<1>11. CASE ServeClone(b) \/ ServeThread(b)
  <2>1. k'.pc = "panic" \/ (k'.op = "clone" /\ k'.who = b)
    <3>1. k \in KernelState
      BY <1>2, Zenon DEF TypeOK
    <3>2. Panic.pc = "panic"
      BY <3>1 DEF KernelState, Panic
    <3>3. PICK vm \in BOOLEAN : SysClone(b, vm)
      BY <1>11, Zenon DEF ServeClone, ServeThread
    <3> QED BY <3>2, <3>3 DEF SysClone, Mapping
  <2>2. sent[b] \in Clones
    BY <1>11, Zenon DEF ServeClone, ServeThread, Asks, Clones
  <2> QED BY <1>5, <1>11, <2>1, <2>2, Zenon DEF ServeClone, ServeThread
<1>12. CASE ServeExec(b)
  <2>1. k'.op = "exec" /\ k'.who = b
    BY <1>12, Zenon DEF ServeExec, SysExec, Mapping
  <2> QED BY <1>5, <1>12, <2>1, Zenon DEF ServeExec, Asks
<1>13. CASE ServeExit(b)
  <2>1. k'.pc = "recv"
    BY <1>4, <1>13, Zenon DEF ServeExit, SysExit
  <2> QED BY <1>5, <1>13, <2>1, Zenon DEF ServeExit
<1> QED BY <1>8, <1>9, <1>10, <1>11, <1>12, <1>13, Zenon DEF UServe

\* A loop of the kernel thread goes on or ends, and a new task is inserted.
LEMMA LoopLocated ==
  ASSUME UInv,
         \/ (\E p \in Page : MapStep(p)) /\ UNCHANGED stubVars
         \/ UMapDone
         \/ UInsert
  PROVE  StubTypeOK' /\ ProgramsLocated' /\ MessagesSent' /\ WorkAsked'
<1>1. /\ TypeOK /\ QueuedOnce /\ NewTaskWaits /\ StubTypeOK /\ ProgramsLocated
      /\ MessagesSent /\ WorkAsked
  BY Zenon DEF UInv, IInv
<1>2. /\ st \in [Badge -> {"none", "run", "call", "stopped"}] /\ k \in KernelState
      /\ k.who \in Badge /\ k.tgt \in Badge /\ 1 \in Badge /\ k.addr \in Nat /\ k.tgt \in Nat
  <2>1. k \in KernelState
    BY <1>1, QueueFacts, Zenon
  <2>2. k.addr \in Nat /\ (k.tgt \in Badge => k.tgt \in Nat)
    BY <2>1 DEF KernelState, Badge
  <2> QED BY <1>1, <2>1, <2>2, QueueFacts, Zenon
<1>w. PICK w \in Badge : w = k.who
  BY <1>2, Zenon
\* The task the kernel thread works for waits in the call it made.
<1>3. ASSUME k.pc \in {"map", "insert"}, k.op # "boot"
      PROVE  /\ st[w] = "call" /\ Located(w) /\ sent[w] = Message(w)
             /\ ~(prog[w] = "shim" /\ part[w] = "after")
  <2>1. st[w] = "call"
    BY <1>w, <1>1, <1>2, <1>3, Zenon DEF QueuedOnce, Served
  <2> QED BY <1>w, <1>1, <1>2, <2>1, Zenon DEF ProgramsLocated, MessagesSent
\* It gets its reply.
<1>4. ASSUME NEW x \in Nat, Resume(w, x), k.pc \in {"map", "insert"}, k.op # "boot",
             sent[w] \in Clones \cup {"mmap"},
             st' = [st EXCEPT ![w] = "run"], k'.pc = "recv"
      PROVE  StubTypeOK' /\ ProgramsLocated' /\ MessagesSent' /\ WorkAsked'
  <2>1. Message(w) \notin {"exit", "execve", "gettid"}
    BY <1>3, <1>4 DEF Clones
  <2>2. /\ StubTypeOK' /\ Located(w)' /\ UNCHANGED sent
        /\ \A c \in Badge : c # w => SameStub(c)
    BY <1>1, <1>2, <1>3, <1>4, <2>1, ResumeStub, Zenon
  <2>3. st'[w] = "run" /\ \A c \in Badge : c # w => st'[c] = st[c]
    BY <1>2, <1>4, Zenon
  <2>4. ProgramsLocated' /\ MessagesSent'
    BY <1>1, <1>2, <2>2, <2>3, OneMoves, Zenon
  <2>5. WorkAsked'
    BY <1>4, Zenon DEF WorkAsked
  <2> QED BY <2>2, <2>4, <2>5, Zenon
<1>5. CASE (\E p \in Page : MapStep(p)) /\ UNCHANGED stubVars
  <2>1. PICK p \in Page : MapStep(p)
    BY <1>5, Zenon
  <2>2. /\ UNCHANGED st /\ k.pc = "map"
        /\ k'.op = k.op /\ k'.who = k.who /\ k'.tgt = k.tgt /\ k'.pc \in {"map", "panic"}
    BY <1>1, <2>1, MapStepKeeps, Zenon
  <2>3. UNCHANGED sent /\ (\A c \in Badge : SameStub(c)) /\ StubTypeOK'
    BY <1>1, <1>5, StubsSame, Zenon
  <2>4. ProgramsLocated' /\ MessagesSent'
    BY <1>1, <1>2, <2>2, <2>3, NobodyMoves, Zenon
  <2>5. WorkAsked'
    BY <1>1, <2>2, <2>3, Zenon DEF WorkAsked
  <2> QED BY <2>3, <2>4, <2>5, Zenon
<1>6. CASE UMapDone
  <2>1. /\ k.pc = "map" /\ st' = [st EXCEPT ![k.tgt] = "run"]
        /\ k' = IF k.op \in {"boot", "clone"} THEN [k EXCEPT !.pc = "insert"] ELSE Ready
    BY <1>6, Zenon DEF UMapDone, MapDone
  <2>2. st'[k.tgt] = "run" /\ \A c \in Badge : c # k.tgt => st'[c] = st[c]
    BY <1>2, <2>1, Zenon
  <2>3. CASE k.op = "boot"
    <3>1. /\ UNCHANGED stubVars /\ k.tgt = 1
          /\ k'.op = "boot" /\ k'.tgt = 1 /\ k'.pc = "insert"
      <4>1. UNCHANGED stubVars /\ k.tgt = 1 /\ k' = [k EXCEPT !.pc = "insert"]
        BY <1>1, <1>6, <2>1, <2>3, Zenon DEF UMapDone, WorkAsked
      <4> QED BY <1>2, <2>3, <4>1 DEF KernelState
    <3>2. UNCHANGED sent /\ (\A c \in Badge : SameStub(c)) /\ StubTypeOK'
      BY <1>1, <3>1, StubsSame, Zenon
    <3>3. Located(1)
      BY <1>1, <2>1, <2>3, <3>1, Zenon DEF ProgramsLocated, NewTaskWaits, Located
    <3>4. ProgramsLocated' /\ MessagesSent'
      <4>1. Located(1)'
        BY <1>2, <3>2, <3>3, SamePlace, Zenon
      <4> QED BY <1>1, <1>2, <2>2, <3>1, <3>2, <4>1, OneMoves, Zenon
    <3>5. WorkAsked'
      BY <3>1, Zenon DEF WorkAsked
    <3> QED BY <3>2, <3>4, <3>5, Zenon
  <2>4. CASE k.op = "mmap"
    <3>1. Resume(w, k.addr) /\ k.tgt = w /\ k' = Ready /\ sent[w] = "mmap"
      <4>1. Resume(w, k.addr)
        BY <1>w, <1>6, <2>4, Zenon DEF UMapDone
      <4>2. k.tgt = w
        BY <1>w, <1>1, <2>1, <2>4, Zenon DEF NewTaskWaits
      <4>3. sent[w] = "mmap"
        BY <1>w, <1>1, <2>1, <2>4, Zenon DEF WorkAsked
      <4> QED BY <2>1, <2>4, <4>1, <4>2, <4>3, Zenon
    <3>2. k'.pc = "recv"
      BY <3>1 DEF Ready
    <3> QED BY <1>2, <1>4, <2>1, <2>4, <3>1, <3>2, Zenon
  <2>5. CASE k.op = "clone"
    <3>c. PICK c \in Badge : c = k.tgt
      BY <1>2, Zenon
    <3>1. /\ NewTask(c, w) /\ c \notin {1, w} /\ sent[w] \in Clones
          /\ k'.op = "clone" /\ k'.who = w
      <4>1. NewTask(c, w) /\ c \notin {1, w} /\ sent[w] \in Clones /\ k' = [k EXCEPT !.pc = "insert"]
        <5>1. NewTask(c, w)
          BY <1>w, <3>c, <1>6, <2>5, Zenon DEF UMapDone
        <5>2. c \notin {1, w}
          BY <1>w, <3>c, <1>1, <2>1, <2>5, Zenon DEF NewTaskWaits
        <5>3. sent[w] \in Clones
          BY <1>w, <1>1, <2>1, <2>5, Zenon DEF WorkAsked
        <5> QED BY <2>1, <2>5, <5>1, <5>2, <5>3, Zenon
      <4> QED BY <1>w, <3>c, <1>2, <2>5, <4>1 DEF KernelState
    <3>2. \/ prog[w] = "test" /\ at[w] = 4 /\ prev[w] = 1
          \/ prog[w] = "shim" /\ at[w] = 3
      <4>1. Located(w) /\ Message(w) \in Clones
        BY <1>3, <2>1, <2>5, <3>1, Zenon
      <4> QED BY <1>1, <1>2, <4>1, Messages DEF Clones, Located
    <3>3. /\ prog'[c] = prog[w] /\ at'[c] = at[w] /\ part'[c] = "after" /\ prev'[c] = prev[w]
          /\ UNCHANGED sent /\ \A d \in Badge : d # c => SameStub(d)
      <4>1. /\ prog' = [prog EXCEPT ![c] = prog[w]] /\ at' = [at EXCEPT ![c] = at[w]]
            /\ part' = [part EXCEPT ![c] = "after"] /\ prev' = [prev EXCEPT ![c] = prev[w]]
            /\ UNCHANGED sent
        BY <3>1, Zenon DEF NewTask
      <4>2. /\ prog = [d \in Badge |-> prog[d]] /\ at = [d \in Badge |-> at[d]]
            /\ part = [d \in Badge |-> part[d]] /\ prev = [d \in Badge |-> prev[d]]
        BY <1>1, Zenon DEF StubTypeOK
      <4>3. \A d \in Badge : d # c => SameStub(d)
        BY <4>1, <4>2, Zenon DEF SameStub
      <4> QED BY <4>1, <4>2, <4>3, Zenon
    <3>4. StubTypeOK'
      BY <1>1, <1>2, <3>1, Zenon DEF NewTask, StubTypeOK
    <3>5. Located(c)'
      BY <3>1, <3>2, <3>3 DEF Located
    <3>6. ProgramsLocated' /\ MessagesSent'
      BY <3>c, <1>1, <1>2, <2>2, <3>3, <3>5, OneMoves, Zenon
    <3>7. WorkAsked'
      BY <3>1, <3>3, Zenon DEF WorkAsked
    <3> QED BY <3>4, <3>6, <3>7, Zenon
  <2>6. CASE k.op = "exec"
    <3>1. StartShim(w) /\ k.tgt = w /\ k' = Ready /\ sent[w] = "execve"
      <4>1. StartShim(w)
        BY <1>w, <1>6, <2>6, Zenon DEF UMapDone
      <4>2. k.tgt = w
        BY <1>w, <1>1, <2>1, <2>6, Zenon DEF NewTaskWaits
      <4>3. sent[w] = "execve"
        BY <1>w, <1>1, <2>1, <2>6, Zenon DEF WorkAsked
      <4> QED BY <2>1, <2>6, <4>1, <4>2, <4>3, Zenon
    <3>2. k'.pc = "recv"
      BY <3>1, Zenon DEF Ready
    <3>3. w # 1
      <4>1. Located(w) /\ Message(w) = "execve"
        BY <1>3, <2>1, <2>6, <3>1, Zenon
      <4> QED BY <1>1, <1>2, <4>1, Messages DEF Located
    <3>4. /\ prog'[w] = "shim" /\ at'[w] = 1 /\ part'[w] = "call"
          /\ UNCHANGED sent /\ \A d \in Badge : d # w => SameStub(d)
      <4>1. /\ prog' = [prog EXCEPT ![w] = "shim"] /\ at' = [at EXCEPT ![w] = 1]
            /\ part' = [part EXCEPT ![w] = "call"] /\ prev' = prev /\ UNCHANGED sent
        BY <3>1, Zenon DEF StartShim
      <4>2. /\ prog = [d \in Badge |-> prog[d]] /\ at = [d \in Badge |-> at[d]]
            /\ part = [d \in Badge |-> part[d]]
        BY <1>1, Zenon DEF StubTypeOK
      <4>3. \A d \in Badge : d # w => SameStub(d)
        BY <4>1, <4>2, Zenon DEF SameStub
      <4> QED BY <4>1, <4>2, <4>3, Zenon
    <3>5. StubTypeOK'
      <4>1. 1 \in 1 .. 6
        OBVIOUS
      <4> QED BY <1>1, <1>2, <3>1, <4>1, Zenon DEF StartShim, StubTypeOK
    <3>6. Located(w)'
      BY <3>3, <3>4 DEF Located
    <3>7. ProgramsLocated' /\ MessagesSent'
      BY <1>1, <1>2, <2>2, <3>1, <3>4, <3>6, OneMoves, Zenon
    <3>8. WorkAsked'
      BY <3>2, Zenon DEF WorkAsked
    <3> QED BY <3>5, <3>7, <3>8, Zenon
  <2> QED BY <1>6, <2>3, <2>4, <2>5, <2>6, Zenon DEF UMapDone
<1>7. CASE UInsert
  <2>1. k.pc = "insert" /\ k'.pc = "recv" /\ WorkAsked'
    BY <1>7, Zenon DEF UInsert, Insert, Ready, WorkAsked
  <2>2. CASE k.op = "clone"
    <3>1. Resume(w, k.tgt) /\ sent[w] \in Clones /\ st' = [st EXCEPT ![w] = "run"]
      BY <1>w, <1>1, <1>7, <2>1, <2>2, Zenon DEF UInsert, Insert, WorkAsked
    <3> QED BY <1>w, <1>2, <1>4, <2>1, <2>2, <3>1, Zenon
  <2>3. CASE k.op # "clone"
    <3>1. UNCHANGED stubVars /\ UNCHANGED st
      BY <1>7, <2>3, Zenon DEF UInsert, Insert
    <3>2. UNCHANGED sent /\ (\A c \in Badge : SameStub(c)) /\ StubTypeOK'
      BY <1>1, <3>1, StubsSame, Zenon
    <3>3. ProgramsLocated' /\ MessagesSent'
      BY <1>1, <1>2, <3>1, <3>2, NobodyMoves, Zenon
    <3> QED BY <2>1, <3>2, <3>3, Zenon
  <2> QED BY <2>2, <2>3, Zenon
<1> QED BY <1>5, <1>6, <1>7, Zenon

LEMMA UInitInv == UInit => UInv
<1> SUFFICES ASSUME UInit PROVE UInv
  BY Zenon
<1>1. IInv /\ QueuedOnce /\ NewTaskWaits
  BY InitInv, QueueInit, Zenon DEF UInit
<1>2. 1 \in Badge /\ 1 \in 1 .. 6 /\ 0 \in Nat
  BY TasksAssumption DEF Badge
<1>3. /\ \A b \in Badge : st[b] = "none"
      /\ k.op = "boot" /\ k.tgt = 1
  BY Zenon DEF UInit, Init, Mapping
<1>4. StubTypeOK /\ ProgramsLocated /\ MessagesSent
  <2>1. StubTypeOK
    BY <1>2, Zenon DEF UInit, StubTypeOK
  <2>2. prog[1] = "test" /\ at[1] = 1 /\ part[1] = "call"
    BY <1>2, Zenon DEF UInit
  <2>3. ProgramsLocated
    BY <1>2, <1>3, <2>2, Zenon DEF ProgramsLocated
  <2>4. MessagesSent
    BY <1>3, Zenon DEF MessagesSent
  <2> QED BY <2>1, <2>3, <2>4, Zenon
<1>5. WorkAsked
  BY <1>2, <1>3, Zenon DEF WorkAsked
<1> QED BY <1>1, <1>4, <1>5, Zenon DEF UInv

LEMMA UNextInv == UInv /\ [UNext]_allVars => UInv'
<1> SUFFICES ASSUME UInv, [UNext]_allVars PROVE UInv'
  BY Zenon
<1>1. [Next]_vars
  BY UsesTasks, Zenon DEF allVars
<1>2. IInv' /\ QueuedOnce' /\ NewTaskWaits'
  BY <1>1, NextInv, QueueStep, Zenon DEF UInv
<1>3. CASE UNext
  <2>1. StubTypeOK' /\ ProgramsLocated' /\ MessagesSent' /\ WorkAsked'
    BY <1>3, CallLocated, ServeLocated, LoopLocated, Zenon DEF UNext, KernelSide
  <2> QED BY <1>2, <2>1, Zenon DEF UInv
<1>4. CASE UNCHANGED allVars
  <2>1. UNCHANGED stubVars /\ UNCHANGED <<st, k>>
    BY <1>4, Zenon DEF allVars, vars
  <2>2. UNCHANGED sent /\ (\A c \in Badge : SameStub(c)) /\ StubTypeOK'
    BY <2>1, StubsSame, Zenon DEF UInv
  <2>3. ProgramsLocated' /\ MessagesSent'
    <3>1. 1 \in Badge
      BY TasksAssumption DEF Badge
    <3> QED BY <2>1, <2>2, <3>1, NobodyMoves, Zenon DEF UInv
  <2>4. WorkAsked'
    BY <2>1, <2>2, Zenon DEF UInv, WorkAsked
  <2> QED BY <1>2, <2>2, <2>3, <2>4, Zenon DEF UInv
<1> QED BY <1>3, <1>4, Zenon

(* The theorems.                                                           *)

\* The test program and the shim are tasks of the kernel thread: every step of
\* theirs and of the kernel thread that serves them is one of KernelTasks, so
\* what is proved there of all tasks holds of these.
THEOREM ProgramsAreTasks == USpec => Init /\ [][Next]_vars
<1>1. UInit => Init
  BY Zenon DEF UInit
<1>2. [UNext]_allVars => [Next]_vars
  BY UsesTasks, Zenon DEF allVars
<1> QED BY <1>1, <1>2, PTL DEF USpec

\* Every task is at a place its program has, and is blocked in the call the
\* program has there; the kernel thread does for it what it asked for.
THEOREM ProgramsInvariance == USpec => []UInv
BY UInitInv, UNextInv, PTL DEF USpec

\* The two gettid calls of the stub tell parent and child of a clone apart for
\* any number of tasks and any layout of memory: the first task goes on to
\* exit, every other one to execve.
THEOREM ClonesToldApart == USpec => []CloneTellsApart
<1>1. UInv => CloneTellsApart
  <2> SUFFICES ASSUME UInv, NEW b \in Badge, prog[b] = "test", st[b] # "none",
                      Program(b)[at[b]] \in {"exit", "execve"}
               PROVE  Program(b)[at[b]] = "execve" <=> b # 1
    BY Zenon DEF CloneTellsApart
  <2>1. StubTypeOK /\ Located(b)
    BY Zenon DEF UInv, ProgramsLocated
  <2> QED BY <2>1, Messages DEF Located
<1> QED BY ProgramsInvariance, <1>1, PTL
=============================================================================
