--------------------------- MODULE CommandBuffers ---------------------------
(***************************************************************************)
(* CommandBuffer and CommandAggregator (Foundation/Sys/Task/API/pcsc.rs):  *)
(* producers record commands in buffers of their own, and the consumer     *)
(* applies buffer after buffer.  apply_all of the aggregator empties the   *)
(* buffers and keeps the list of them.  A command is executed in a step of *)
(* its own, a buffer is cleared when its last command returns.             *)
(***************************************************************************)
EXTENDS Naturals, SequencesExt

CONSTANTS
  Commands,      \* each is pushed at most once
  CmdBuffers,
  BufferCap, AggregatorCap

VARIABLES
  buf,        \* per buffer: its commands
  list,       \* of the aggregator: the buffers in the order of add
  at, cmd,    \* apply_all: buffer and command that come next, 0 when idle
  pushed,     \* history, per buffer: its commands in the order of push
  applied     \* history, per buffer: its commands in the order of execution

vars == <<buf, list, at, cmd, pushed, applied>>

Init ==
  /\ buf = [b \in CmdBuffers |-> <<>>]
  /\ list = <<>> /\ at = 0 /\ cmd = 0
  /\ pushed = [b \in CmdBuffers |-> <<>>]
  /\ applied = [b \in CmdBuffers |-> <<>>]

\* The borrow of the buffers ends when apply_all returns.
Idle == at = 0

Push(b, c) ==
  /\ Idle /\ Len(buf[b]) < BufferCap
  /\ \A d \in CmdBuffers : c \notin Range(pushed[d])
  /\ buf' = [buf EXCEPT ![b] = Append(@, c)]
  /\ pushed' = [pushed EXCEPT ![b] = Append(@, c)]
  /\ UNCHANGED <<list, at, cmd, applied>>

\* add writes down the address of the buffer, and may do so twice.
Add(b) ==
  /\ Idle /\ Len(list) < AggregatorCap
  /\ list' = Append(list, b)
  /\ UNCHANGED <<buf, at, cmd, pushed, applied>>

ApplyBegin ==
  /\ Idle /\ list # <<>>
  /\ at' = 1 /\ cmd' = 1
  /\ UNCHANGED <<buf, list, pushed, applied>>

\* Mutant: the commands of a buffer are executed from the last to the first.
ExecuteBackwards ==
  /\ ~Idle /\ cmd <= Len(buf[list[at]])
  /\ applied' = [applied EXCEPT ![list[at]] =
                   Append(@, buf[list[at]][Len(buf[list[at]]) - cmd + 1])]
  /\ cmd' = cmd + 1
  /\ UNCHANGED <<buf, list, at, pushed>>

Execute ==
  /\ ~Idle /\ cmd <= Len(buf[list[at]])
  /\ applied' = [applied EXCEPT ![list[at]] = Append(@, buf[list[at]][cmd])]
  /\ cmd' = cmd + 1
  /\ UNCHANGED <<buf, list, at, pushed>>

NextBuffer ==
  /\ ~Idle /\ cmd > Len(buf[list[at]])
  /\ buf' = [buf EXCEPT ![list[at]] = <<>>]
  /\ at' = IF at = Len(list) THEN 0 ELSE at + 1
  /\ cmd' = IF at = Len(list) THEN 0 ELSE 1
  /\ UNCHANGED <<list, pushed, applied>>

Next ==
  \/ \E b \in CmdBuffers : Add(b) \/ \E c \in Commands : Push(b, c)
  \/ ApplyBegin \/ Execute \/ NextBuffer

Spec == Init /\ [][Next]_vars

-----------------------------------------------------------------------------

\* The commands of a buffer are executed in the order of push, none twice and none
\* left out, although a buffer may be added twice and stays in the list: at any time
\* those executed are the first ones pushed, and outside apply_all those that wait are
\* the others.  The buffers that apply_all has passed are empty.
AppliedOnceInOrder ==
  /\ \A b \in CmdBuffers :
       /\ IsPrefix(applied[b], pushed[b])
       /\ Idle => applied[b] \o buf[b] = pushed[b]
  /\ \A k \in 1..(at - 1) : buf[list[k]] = <<>>
=============================================================================
