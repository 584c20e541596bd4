----------------------------- MODULE MCRootTask -----------------------------
(***************************************************************************)
(* RootServices for TLC, with two sets of images.  In the second one the   *)
(* image of the block thread has a page more and everything behind it      *)
(* moves one slot: the CNode that is made then lies between two buffers of *)
(* the net thread, and not inside one of them.                             *)
(***************************************************************************)
EXTENDS RootServices

MCSizes == {1, 2, 4}

Seg(a, n, d) == [addr |-> a, size |-> n, data |-> d]

\* Segments that begin inside a page, meet in one, end in zeros or are only
\* zeros; pages 1 to 3.
Text      == <<Seg(2, 2, 2)>>
Unaligned == <<Seg(3, 3, 2)>>
Meeting   == <<Seg(2, 1, 1), Seg(3, 4, 4)>>
Bss       == <<Seg(3, 2, 2), Seg(5, 2, 0)>>

MCImages ==
  {[t \in Task |-> CASE t = Kernel -> Unaligned [] t = Blk -> Text [] t = Net -> Bss],
   [t \in Task |-> CASE t = Kernel -> Unaligned [] t = Blk -> Unaligned [] t = Net -> Meeting]}

\* The slots and the untyped suffice for both sets.
ASSUME RoomAssumption == Enough

MCBlkAllocs == {<<2>>, <<1, 1>>}

\* One way to allocate for each set of images.
MCInit == ServiceInit /\ (Len(alloc) = 1 <=> image[Blk] = Text)

MCSpec == MCInit /\ [][Next]_vars /\ Fairness
=============================================================================
