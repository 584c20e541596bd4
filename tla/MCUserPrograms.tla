--------------------------- MODULE MCUserPrograms ---------------------------
(***************************************************************************)
(* UserPrograms for TLC.  Pages 1 and 2 are the areas of the two mmap      *)
(* calls, page 3 the IPC buffer of a clone, then the image, which is one   *)
(* page larger for the shim, its IPC buffer, and the stack.                *)
(***************************************************************************)
EXTENDS UserPrograms

MCImage == {4}
MCExec  == {4, 5}
MCStack == {7}
MCCalls == {"mmap", "write", "clone", "execve", "exit"}
=============================================================================
