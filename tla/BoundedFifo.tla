---------------------------- MODULE BoundedFifo ----------------------------
(***************************************************************************)
(* What a bounded multi-producer multi-consumer queue promises: values     *)
(* leave in the order in which they were accepted, each to one consumer,   *)
(* and at most Capacity of them are waiting.  Taking a value and receiving *)
(* it are two steps, because the consumer copies the payload after it has  *)
(* taken its turn.                                                         *)
(***************************************************************************)
EXTENDS Integers, Sequences

CONSTANTS Consumers, Values, Capacity, None

VARIABLES
  q,    \* the waiting values, oldest first
  hold, \* the value each consumer has taken and not yet received
  out   \* the value each consumer received last

vars == <<q, hold, out>>

Init ==
  /\ q = <<>>
  /\ hold = [c \in Consumers |-> None]
  /\ out = [c \in Consumers |-> None]

Put(v) ==
  /\ Len(q) < Capacity
  /\ q' = Append(q, v)
  /\ UNCHANGED <<hold, out>>

Take(c) ==
  /\ q # <<>> /\ hold[c] = None
  /\ hold' = [hold EXCEPT ![c] = Head(q)]
  /\ q' = Tail(q)
  /\ UNCHANGED out

Receive(c) ==
  /\ hold[c] # None
  /\ out' = [out EXCEPT ![c] = hold[c]]
  /\ hold' = [hold EXCEPT ![c] = None]
  /\ UNCHANGED q

Next ==
  \/ \E v \in Values : Put(v)
  \/ \E c \in Consumers : Take(c) \/ Receive(c)

Spec == Init /\ [][Next]_vars
=============================================================================
