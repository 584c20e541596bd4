------------------------------- MODULE Labels -------------------------------
(***************************************************************************)
(* The labels of the messages between the tasks, from common/src/lib.rs.   *)
(* Each type numbers its messages from a LABEL_START of its own; a message *)
(* carries its number and as many registers as build writes.  Receivers    *)
(* try the type they expect and take everything else for a fault or for    *)
(* unknown.                                                                *)
(***************************************************************************)
EXTENDS Integers, Sequences

Types == {"custom", "root", "blk", "net"}

LabelStart ==
  [custom |-> 256, root |-> 512, blk |-> 768, net |-> 1024]

CustomNames == <<"TestCustomMessage", "SysCall", "Exit">>
RootNames   == <<"RegisterIRQ", "TranslateAddr", "RegisterIRQWithCap">>
BlkNames    == <<"Ping", "ReadBlock", "WriteBlock", "NumBlock">>
NetNames    == <<"New", "IsNonBlocking", "SetNonBlocking", "Bind", "Send", "Recv",
                 "RecvTimeout", "Connect", "Listen", "Accept", "Shutdown", "Close">>

Names ==
  [custom |-> CustomNames, root |-> RootNames, blk |-> BlkNames, net |-> NetNames]

\* The registers build writes for a message, and try_from reads back.
RootArgs == <<2, 1, 1>>
BlkArgs  == <<0, 2, 2, 0>>
NetArgs  == <<0, 1, 2, 2, 3, 3, 4, 2, 1, 1, 1, 1>>

ArgCount ==
  [custom |-> <<0, 0, 0>>, root |-> RootArgs, blk |-> BlkArgs, net |-> NetArgs]

\* to_label of the i-th message of a type.
ToLabel(type, i) == LabelStart[type] + i - 1

\* Mutant of TryFrom: labels below the type's own are not told apart.
TryFrom_NoStart(type, label) ==
  IF label % 256 < Len(Names[type]) THEN Names[type][(label % 256) + 1] ELSE "None"

\* try_from: the message of the type with that label, if there is one.
TryFrom(type, label) ==
  LET n == label - LabelStart[type]
  IN  IF label >= LabelStart[type] /\ n < Len(Names[type]) THEN Names[type][n + 1] ELSE "None"

\* The message registers of the IPC buffer that a message may use.
RegIndex == 1 .. 4

\* build: the arguments are written over what the buffer held before.
Build(args, old) ==
  [r \in RegIndex |-> IF r \in 1 .. Len(args) THEN args[r] ELSE old[r]]

\* The arguments of the message try_from returns, which come from the buffer
\* whatever the length of the message says.
Arguments(type, label, regs) ==
  [r \in 1 .. ArgCount[type][label - LabelStart[type] + 1] |-> regs[r]]
=============================================================================
