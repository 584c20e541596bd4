---------------------------- MODULE UserPrograms ----------------------------
(***************************************************************************)
(* The programs that run on the tasks of the kernel thread, composed with  *)
(* it: test-thread/src/main.rs, which the first task runs, and             *)
(* shim/src/main.rs, which execve loads, up to its clone with CLONE_VM.    *)
(* The thread that starts from there shares the stub's buffer with its     *)
(* parent, and what the sel4 crate does then is outside this repository.   *)
(*                                                                         *)
(* A program is a sequence of calls through vsyscall_handler.  For clone   *)
(* the stub asks for the thread's id before and after: the two tasks that  *)
(* return from the call are told apart by it.                              *)
(***************************************************************************)
EXTENDS KernelTasks

CONSTANTS
  TestArea, ShimStack,  \* the addresses the programs pass to mmap
  AreaLen               \* and the length

\* The calls of the programs are among those the kernel thread serves.
ASSUME ProgramsAssumption ==
  /\ {TestArea, ShimStack} \subseteq Address /\ AreaLen \in Length
  /\ {"mmap", "write", "clone", "execve", "exit"} \subseteq Calls

VARIABLES
  prog,  \* the program a task runs
  at,    \* the call it is at
  part,  \* where it is in the stub: before, call or after
  prev,  \* prev_id of its stub
  reg,   \* the first message register in its buffer
  sent   \* the message it is blocked in

stubVars == <<prog, at, part, prev, reg, sent>>
allVars  == <<vars, stubVars>>

\* mmap, the copy into the area and write; clone, and what each of the two
\* tasks does then.
TestProgram == <<"hello", "mmap", "write", "clone", "exit", "execve">>

\* The stack of the thread, and the clone.
ShimProgram == <<"hello", "mmap", "clone_vm">>

Program(b) == IF prog[b] = "test" THEN TestProgram ELSE ShimProgram

Area(b) == IF prog[b] = "test" THEN TestArea ELSE ShimStack

Clones == {"clone", "clone_vm"}

\* The part of the stub a call begins with.
FirstPart(call) == IF call \in Clones THEN "before" ELSE "call"

UInit ==
  /\ Init
  /\ prog = [b \in Badge |-> "test"]
  /\ at = [b \in Badge |-> 1]
  /\ part = [b \in Badge |-> "call"]
  /\ prev = [b \in Badge |-> 0]
  /\ reg = [b \in Badge |-> 0]
  /\ sent = [b \in Badge |-> "none"]

\* What the stub sends next: the registers of the call, or those of gettid.
Message(b) == IF part[b] = "call" THEN Program(b)[at[b]] ELSE "gettid"

\* The stub writes the registers and calls the endpoint.
UCall(b) ==
  /\ Call(b)
  /\ sent' = [sent EXCEPT ![b] = Message(b)]
  /\ UNCHANGED <<prog, at, part, prev, reg>>

\* The program goes on with call i.
GoTo(b, i) ==
  /\ at' = [at EXCEPT ![b] = i]
  /\ part' = [part EXCEPT ![b] = FirstPart(Program(b)[i])]

\* Mutant of AfterClone: the ids are not compared.
AfterClone_Same(b, tid) == IF tid # 0 THEN 5 ELSE 6

\* The stub of a clone returns 0 if the id is another one than before, and the
\* register otherwise; the program goes on with exit if it is not 0.
AfterClone(b, tid) == IF tid = prev[b] /\ tid # 0 THEN 5 ELSE 6

\* The reply x has arrived: the stub, and behind it the program, go on.
Resume(b, x) ==
  /\ reg' = [reg EXCEPT ![b] = x]
  /\ \/ /\ part[b] = "before"
        /\ prev' = [prev EXCEPT ![b] = x]
        /\ part' = [part EXCEPT ![b] = "call"]
        /\ UNCHANGED at
     \/ /\ part[b] = "call" /\ Program(b)[at[b]] \in Clones
        /\ part' = [part EXCEPT ![b] = "after"]
        /\ UNCHANGED <<at, prev>>
     \/ /\ part[b] = "call" /\ Program(b)[at[b]] \notin Clones
        /\ GoTo(b, at[b] + 1)
        /\ UNCHANGED prev
     \/ /\ part[b] = "after"
        /\ GoTo(b, AfterClone(b, x))
        /\ UNCHANGED prev
  /\ UNCHANGED <<prog, sent>>
-----------------------------------------------------------------------------
(* The kernel thread serves the message that was sent.                     *)

\* Whether b is first in the queue with message m.
Asks(b, m) == ep # <<>> /\ Head(ep) = b /\ sent[b] = m

ServeHello(b)  == Asks(b, "hello") /\ SysReturns(b) /\ Resume(b, reg[b])
ServeGettid(b) == Asks(b, "gettid") /\ SysReturns(b) /\ Resume(b, b)

\* The rest of a call of these is in MapDone and Insert.
ServeMmap(b)   == Asks(b, "mmap") /\ SysMmap(b, Area(b), AreaLen, TRUE) /\ UNCHANGED stubVars
ServeClone(b)  == Asks(b, "clone") /\ SysClone(b, FALSE) /\ UNCHANGED stubVars
ServeThread(b) == Asks(b, "clone_vm") /\ SysClone(b, TRUE) /\ UNCHANGED stubVars
ServeExec(b)   == Asks(b, "execve") /\ SysExec(b) /\ UNCHANGED stubVars

ServeExit(b)   == Asks(b, "exit") /\ SysExit(b) /\ UNCHANGED stubVars

\* A write that finds its pages returns the length.
ServeWrite(b) ==
  /\ Asks(b, "write")
  /\ SysWrite(b, Area(b), AreaLen)
  /\ IF k'.pc = "recv" THEN Resume(b, AreaLen) ELSE UNCHANGED stubVars

UServe(b) ==
  \/ ServeHello(b) \/ ServeGettid(b) \/ ServeMmap(b) \/ ServeWrite(b) \/ ServeClone(b)
  \/ ServeThread(b) \/ ServeExec(b) \/ ServeExit(b)

\* The new task of a clone has the registers and the memory of its parent,
\* and returns from the call; execve starts the shim from its entry.
NewTask(c, b) ==
  /\ prog' = [prog EXCEPT ![c] = prog[b]]
  /\ at' = [at EXCEPT ![c] = at[b]]
  /\ part' = [part EXCEPT ![c] = "after"]
  /\ prev' = [prev EXCEPT ![c] = prev[b]]
  /\ reg' = [reg EXCEPT ![c] = reg[b]]
  /\ UNCHANGED sent

StartShim(b) ==
  /\ prog' = [prog EXCEPT ![b] = "shim"]
  /\ at' = [at EXCEPT ![b] = 1]
  /\ part' = [part EXCEPT ![b] = "call"]
  /\ UNCHANGED <<prev, reg, sent>>

UMapDone ==
  /\ MapDone
  /\ \/ k.op = "boot" /\ UNCHANGED stubVars
     \/ k.op = "mmap" /\ Resume(k.who, k.addr)
     \/ k.op = "clone" /\ NewTask(k.tgt, k.who)
     \/ k.op = "exec" /\ StartShim(k.who)

\* The parent of a clone gets the id of the new task.
UInsert ==
  /\ Insert
  /\ IF k.op = "clone" THEN Resume(k.who, k.tgt) ELSE UNCHANGED stubVars

KernelSide ==
  \/ \E b \in Badge : UServe(b)
  \/ (\E p \in Page : MapStep(p)) /\ UNCHANGED stubVars
  \/ UMapDone
  \/ UInsert

\* From the reply of a clone with CLONE_VM on, neither the parent nor its thread
\* is followed.
Followed(b) == vs[b] = b /\ ~(prog[b] = "shim" /\ part[b] = "after")

UNext == KernelSide \/ \E b \in Badge : Followed(b) /\ UCall(b)

\* The kernel thread, and every task that runs, is scheduled again and again.
USpec ==
  UInit /\ [][UNext]_allVars /\ WF_allVars(KernelSide)
  /\ \A b \in Badge : WF_allVars(Followed(b) /\ UCall(b))
-----------------------------------------------------------------------------
(* Properties.                                                             *)

\* The stub's two gettid calls tell the tasks apart that return from a clone:
\* the parent goes on to exit, the new task to execve.
CloneTellsApart ==
  \A b \in Badge : prog[b] = "test" /\ st[b] # "none" /\ Program(b)[at[b]] \in {"exit", "execve"} =>
    (Program(b)[at[b]] = "execve" <=> b # 1)

\* The run of the programs comes to its end: the first task exits, and the
\* second one runs the shim and gets a thread.
ProgramsFinish == <>(st[1] = "stopped" /\ prog[2] = "shim" /\ 3 \in known)
=============================================================================
