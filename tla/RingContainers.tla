--------------------------- MODULE RingContainers ---------------------------
(***************************************************************************)
(* Deque and RingBuffer of Cap.Containers: an array of a power of two      *)
(* cells, head and tail counted modulo twice that number, so that empty    *)
(* and full differ; one cell always stays free.  A call is a step.         *)
(***************************************************************************)
EXTENDS Naturals, Sequences

CONSTANTS Cells, CellValues   \* Cells: a power of two

RingAssumption == Cells \in Nat \ {0}

VARIABLES
  front, back,    \* head and tail
  cell,
  twoEnded,       \* Deque or RingBuffer
  answer          \* what the last call returned

vars == <<front, back, cell, twoEnded, answer>>

Init ==
  /\ front = 0 /\ back = 0
  /\ cell = [i \in 0..(Cells - 1) |-> "uninitialized"]
  /\ twoEnded \in BOOLEAN
  /\ answer = <<>>

Up(c) == (c + 1) % (2 * Cells)
Down(c) == (c + 2 * Cells - 1) % (2 * Cells)
CellOf(c) == c % Cells
Length == (back + 2 * Cells - front) % (2 * Cells)
IsEmpty == front = back

\* Mutant: full when every cell is taken.
IsFullAtAll == Length = Cells

IsFull == CellOf(back + 1) = CellOf(front)

DequePushBack(v) ==
  /\ twoEnded /\ ~IsFull
  /\ cell' = [cell EXCEPT ![CellOf(back)] = v]
  /\ back' = Up(back)
  /\ answer' = <<>>
  /\ UNCHANGED <<front, twoEnded>>

DequePushFront(v) ==
  /\ twoEnded /\ ~IsFull
  /\ front' = Down(front)
  /\ cell' = [cell EXCEPT ![CellOf(front')] = v]
  /\ answer' = <<>>
  /\ UNCHANGED <<back, twoEnded>>

DequePopFront ==
  /\ twoEnded /\ ~IsEmpty
  /\ answer' = <<cell[CellOf(front)]>>
  /\ front' = Up(front)
  /\ UNCHANGED <<back, cell, twoEnded>>

DequePopBack ==
  /\ twoEnded /\ ~IsEmpty
  /\ back' = Down(back)
  /\ answer' = <<cell[CellOf(back')]>>
  /\ UNCHANGED <<front, cell, twoEnded>>

DequeGet(i) ==
  /\ twoEnded /\ i < Length
  /\ answer' = <<cell[CellOf(front + i)]>>
  /\ UNCHANGED <<front, back, cell, twoEnded>>

RingPush(v) ==
  /\ ~twoEnded /\ ~IsFull
  /\ cell' = [cell EXCEPT ![CellOf(back)] = v]
  /\ back' = Up(back)
  /\ answer' = <<>>
  /\ UNCHANGED <<front, twoEnded>>

RingPop ==
  /\ ~twoEnded /\ ~IsEmpty
  /\ answer' = <<cell[CellOf(front)]>>
  /\ front' = Up(front)
  /\ UNCHANGED <<back, cell, twoEnded>>

\* A push when full, a pop when empty.
Refuse ==
  /\ IsFull \/ IsEmpty
  /\ answer' = <<>>
  /\ UNCHANGED <<front, back, cell, twoEnded>>

Next ==
  \/ \E v \in CellValues : DequePushBack(v) \/ DequePushFront(v) \/ RingPush(v)
  \/ DequePopFront \/ DequePopBack \/ RingPop
  \/ \E i \in 0..(Cells - 1) : DequeGet(i)
  \/ Refuse

Spec == Init /\ [][Next]_vars

Items == [i \in 1..Length |-> cell[CellOf(front + i - 1)]]

E == INSTANCE EndedSequence WITH
       EndedValues <- CellValues, MaxItems <- Cells - 1, items <- Items

\* Through every wrap of head below zero and of tail past twice the capacity,
\* from both ends, the cells between them are a sequence, and pops and get
\* answer from it.
SequenceStep == [E!Next]_<<Items, answer>>
ImplementsSequence == E!Init /\ [][SequenceStep]_vars
=============================================================================
