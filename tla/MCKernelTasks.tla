--------------------------- MODULE MCKernelTasks ----------------------------
EXTENDS KernelTasks

\* Pages 0 to 4: the IPC buffer of a clone, the image, its IPC buffer, the
\* heap and the stack.  The image of execve is a page larger.
MCImage == {1}
MCExec  == {1, 2}
MCStack == {4}

MemoryCalls == {"brk", "mmap", "munmap", "execve", "clone"}
ThreadCalls == {"mmap", "write", "exit", "clone", "fault", "other"}

\* Addresses in and next to the heap, aligned and not.
MCAddress == {6, 7, 8}
MCLength  == {1, 3}

\* Slot numbers matter only as equal or not, and next to nextSlot: a frame is
\* as good as the task that has it in mapped_page, if any.
Owner(v, p) ==
  IF hw[v][p] = 0 THEN {}
  ELSE {b \in Badge : page[b][p] = hw[v][p]} \cup {0}

\* Where only memory matters, calls are made one after the other.
OneCall == Len(ep) <= 1 /\ (k.pc # "recv" => ep = <<>>)

View ==
  <<nextSlot, known, made, vs, heap, pts, st, fault, ep, k,
    [b \in Badge |-> Mapped(b)],
    [v \in Badge |-> [p \in Page |-> Owner(v, p)]],
    FramesPrivate>>
=============================================================================
