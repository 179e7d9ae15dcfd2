--------------------------- MODULE VersionedBuffers ---------------------------
(* VersionedBuffer and ResourceManager (src/Foundation/Sys/Resource/API/lib.rs)*)
(* Three slots, one of which is read and another written; a commit makes the   *)
(* written one the one to read and moves the writer on. Handles are pointers   *)
(* copied freely, so a reader may take its pointer between the two stores of a *)
(* commit and keep it while commits go on.                                     *)
EXTENDS Integers

CONSTANTS
  Managed,   \* capacity of the manager
  Versions   \* bound: versions written are 0 .. Versions - 1, round and round

VersionsAssumption == Managed \in Nat /\ Versions \in Nat \ {0}

VARIABLES
  made,      \* how many buffers create_buffer has made
  readIdx,   \* of each buffer
  writeIdx,
  val,       \* the version in each slot of each buffer
  last,      \* the version committed last, 0 before the first
  moving,    \* buffers inside commit, between its two stores
  pin,       \* what a reader has: buffer, slot, the version it found there, and
             \* the commits begun since; or NoPin
  managed    \* FALSE once the manager has been dropped

vbvars == <<made, readIdx, writeIdx, val, last, moving, pin, managed>>

Bufs  == 1 .. Managed
NoPin == [buf |-> 0, slot |-> 0, found |-> 0, age |-> 0]

Init ==
  /\ made = 0 /\ managed = TRUE /\ pin = NoPin /\ moving = {}
  /\ readIdx = [b \in Bufs |-> 0] /\ writeIdx = [b \in Bufs |-> 1]
  /\ val = [b \in Bufs |-> [s \in 0 .. 2 |-> 0]] /\ last = [b \in Bufs |-> 0]

(* The manager is full, or a block cannot be had: nothing is registered.       *)
CreateBuffer ==
  /\ managed /\ made < Managed
  /\ made' = made + 1
  /\ UNCHANGED <<readIdx, writeIdx, val, last, moving, pin, managed>>

Live(b) == managed /\ b <= made
Write(b) ==
  /\ Live(b) /\ b \notin moving
  /\ val' = [val EXCEPT ![b][writeIdx[b]] = (last[b] + 1) % Versions]
  /\ UNCHANGED <<made, readIdx, writeIdx, last, moving, pin, managed>>
ReadPtr(b) ==
  /\ Live(b)
  /\ pin' = [buf |-> b, slot |-> readIdx[b], found |-> val[b][readIdx[b]], age |-> 0]
  /\ UNCHANGED <<made, readIdx, writeIdx, val, last, moving, managed>>
Commit(b) ==
  /\ Live(b) /\ b \notin moving
  /\ readIdx' = [readIdx EXCEPT ![b] = writeIdx[b]]
  /\ last' = [last EXCEPT ![b] = val[b][writeIdx[b]]]
  /\ moving' = moving \cup {b}
  /\ pin' = IF pin.buf = b THEN [pin EXCEPT !.age = IF @ < 2 THEN @ + 1 ELSE @] ELSE pin
  /\ UNCHANGED <<made, writeIdx, val, managed>>

\* Mutant: the writer moves between two of the three slots.
MoveWriterTwoSlots(b) ==
  /\ Live(b) /\ b \in moving
  /\ writeIdx' = [writeIdx EXCEPT ![b] = (@ + 1) % 2]
  /\ moving' = moving \ {b}
  /\ UNCHANGED <<made, readIdx, val, last, pin, managed>>

MoveWriter(b) ==
  /\ Live(b) /\ b \in moving
  /\ writeIdx' = [writeIdx EXCEPT ![b] = (@ + 1) % 3]
  /\ moving' = moving \ {b}
  /\ UNCHANGED <<made, readIdx, val, last, pin, managed>>
(* Dropping the manager frees the buffers; handles to them dangle.             *)
DropManager ==
  /\ managed /\ moving = {}
  /\ managed' = FALSE /\ pin' = NoPin
  /\ UNCHANGED <<made, readIdx, writeIdx, val, last, moving>>

Next == \/ CreateBuffer \/ DropManager
        \/ \E b \in Bufs : Write(b) \/ ReadPtr(b) \/ Commit(b) \/ MoveWriter(b)
Spec == Init /\ [][Next]_vbvars
-----------------------------------------------------------------------------
(* What a reader found behind its pointer stays there until the second commit  *)
(* after it took the pointer, wherever inside a commit that was; and the slot  *)
(* to read always holds the version committed last.                            *)
ReaderUndisturbed ==
  /\ pin.buf # 0 /\ pin.age <= 1 => val[pin.buf][pin.slot] = pin.found
  /\ \A b \in Bufs : val[b][readIdx[b]] = last[b]
=============================================================================
