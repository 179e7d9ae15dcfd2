--------------------------- MODULE EndedSequence ----------------------------
(***************************************************************************)
(* A bounded sequence that changes at both ends: what Deque promises, and, *)
(* of its back and its front only, RingBuffer (Cap.Containers).            *)
(***************************************************************************)
EXTENDS Naturals, Sequences

CONSTANTS EndedValues, MaxItems

VARIABLES items, answer   \* answer: what the last call returned, as a sequence

Init == items = <<>> /\ answer = <<>>

PushBack(v) == Len(items) < MaxItems /\ items' = Append(items, v) /\ answer' = <<>>
PushFront(v) == Len(items) < MaxItems /\ items' = <<v>> \o items /\ answer' = <<>>
PopBack == items # <<>> /\ items' = SubSeq(items, 1, Len(items) - 1) /\ answer' = <<items[Len(items)]>>
PopFront == items # <<>> /\ items' = Tail(items) /\ answer' = <<Head(items)>>
Get(i) == items' = items /\ answer' = <<items[i]>>

\* A full sequence takes nothing, an empty one gives nothing.
Refuse == Len(items) \in {0, MaxItems} /\ items' = items /\ answer' = <<>>

Next ==
  \/ \E v \in EndedValues : PushBack(v) \/ PushFront(v)
  \/ PopBack \/ PopFront
  \/ \E i \in DOMAIN items : Get(i)
  \/ Refuse
=============================================================================
