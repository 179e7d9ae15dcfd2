--------------------------- MODULE StealingDeque ---------------------------
(***************************************************************************)
(* What a work-stealing deque promises: a sequence whose owner pushes and  *)
(* pops at the end and whose thieves take from the front.  Whoever takes   *)
(* an item removes it in the same step.                                    *)
(***************************************************************************)
EXTENDS Integers, Sequences, SequencesExt

CONSTANT Items

VARIABLES
  dq,    \* the items, oldest first
  taken  \* the items handed out, in order

vars == <<dq, taken>>

Init == dq = <<>> /\ taken = <<>>

Push(x) == dq' = Append(dq, x) /\ UNCHANGED taken

PopLast ==
  /\ dq # <<>>
  /\ taken' = Append(taken, Last(dq))
  /\ dq' = Front(dq)

StealFirst ==
  /\ dq # <<>>
  /\ taken' = Append(taken, Head(dq))
  /\ dq' = Tail(dq)

Next == (\E x \in Items : Push(x)) \/ PopLast \/ StealFirst

Spec == Init /\ [][Next]_vars
=============================================================================
