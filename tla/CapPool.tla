------------------------------- MODULE CapPool ------------------------------
(***************************************************************************)
(* What an allocator of capabilities promises its callers: every slot is   *)
(* handed out at most once, and the memory of the object in it belongs to  *)
(* no other slot.  Nothing is said of the order, of the layout, or of how  *)
(* many allocations succeed.                                               *)
(***************************************************************************)
CONSTANTS
  Slot,   \* the slots there are
  Unit    \* the units of memory there are

VARIABLES
  given,  \* the slots handed out
  mem     \* the memory that went into the object of a slot

poolVars == <<given, mem>>

PoolInit == given = {} /\ mem = [s \in Slot |-> {}]

\* A slot not handed out before, with memory that no other slot has.
Take(s) ==
  /\ s \notin given
  /\ given' = given \cup {s}
  /\ mem'[s] \subseteq Unit
  /\ \A t \in given : mem[t] \cap mem'[s] = {}
  /\ mem' = [mem EXCEPT ![s] = mem'[s]]

PoolNext == \E s \in Slot : Take(s)

PoolSpec == PoolInit /\ [][PoolNext]_poolVars
=============================================================================
