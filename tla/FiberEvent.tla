------------------------------ MODULE FiberEvent ------------------------------
(* FiberEvent (src/Foundation/Sys/Job/API/event.rs): fibers push themselves on *)
(* a list and suspend; signal_all, called from a thread's host fiber as poll   *)
(* does, takes the list and switches to each of them, coming back when that    *)
(* fiber suspends or ends. A caller of await_one that is answered FALSE        *)
(* suspends itself, in a step of its own: between the two its node is on the   *)
(* list while it still runs.                                                   *)
EXTENDS Naturals, Sequences

CONSTANT Fibers

VARIABLES
  signaled,
  waiting,    \* the list from head, newest first: the fibers of its nodes
  fpc,        \* of each fiber: "test", "load", "push", "pushed", "suspended", "over"
  next,       \* of the node of each fiber: the list it was linked in front of
  spc,        \* the signaller: "store", "swap", "walk" or "over"
  taken,      \* the nodes it has taken and not yet walked over
  before,     \* fibers that tested signaled before it was stored
  early       \* fibers resumed while they still ran

fevars == <<signaled, waiting, fpc, next, spc, taken, before, early>>

Init ==
  /\ signaled = FALSE /\ waiting = <<>> /\ taken = <<>> /\ before = {} /\ early = {}
  /\ fpc = [f \in Fibers |-> "test"] /\ next = [f \in Fibers |-> <<>>]
  /\ spc = "store"

Move(f, from, to) == fpc[f] = from /\ fpc' = [fpc EXCEPT ![f] = to]

AwaitTest(f) ==
  /\ Move(f, "test", IF signaled THEN "over" ELSE "load")
  /\ before' = IF signaled THEN before ELSE before \cup {f}
  /\ UNCHANGED <<signaled, waiting, next, spc, taken, early>>
AwaitLoad(f) ==
  /\ Move(f, "load", "push")
  /\ next' = [next EXCEPT ![f] = waiting]
  /\ UNCHANGED <<signaled, waiting, spc, taken, before, early>>

\* Mutant: a store of head instead of the compare-exchange.
AwaitPushBlind(f) ==
  /\ Move(f, "push", "pushed")
  /\ waiting' = <<f>> \o next[f]
  /\ UNCHANGED <<signaled, next, spc, taken, before, early>>

(* compare_exchange on head: the list is the one the node was linked to, or    *)
(* the loop goes round.                                                        *)
AwaitPush(f) ==
  /\ waiting = next[f]
  /\ Move(f, "push", "pushed")
  /\ waiting' = <<f>> \o next[f]
  /\ UNCHANGED <<signaled, next, spc, taken, before, early>>
AwaitRetry(f) ==
  /\ waiting # next[f]
  /\ Move(f, "push", "load")
  /\ UNCHANGED <<signaled, waiting, next, spc, taken, before, early>>

\* Answered FALSE, the caller suspends.
Suspend(f) ==
  /\ Move(f, "pushed", "suspended")
  /\ UNCHANGED <<signaled, waiting, next, spc, taken, before, early>>

SignalStore ==
  /\ spc = "store"
  /\ signaled' = TRUE /\ spc' = "swap"
  /\ UNCHANGED <<waiting, fpc, next, taken, before, early>>
SignalSwap ==
  /\ spc = "swap"
  /\ taken' = waiting /\ waiting' = <<>>
  /\ spc' = IF waiting = <<>> THEN "over" ELSE "walk"
  /\ UNCHANGED <<signaled, fpc, next, before, early>>
(* The fiber is resumed, then next is read and the node freed. A fiber that    *)
(* has not yet suspended is switched to while it runs: it may go on and        *)
(* suspend after all, or what was to be resumed is over at once.               *)
SignalWalk ==
  /\ spc = "walk"
  /\ LET f == Head(taken)
     IN  IF fpc[f] = "suspended"
         THEN fpc' = [fpc EXCEPT ![f] = "over"] /\ UNCHANGED early
         ELSE /\ \E to \in {"pushed", "over"} : fpc' = [fpc EXCEPT ![f] = to]
              /\ early' = early \cup {f}
  /\ taken' = Tail(taken)
  /\ spc' = IF Len(taken) = 1 THEN "swap" ELSE "walk"
  /\ UNCHANGED <<signaled, waiting, next, before>>

Await(f) == AwaitTest(f) \/ AwaitLoad(f) \/ AwaitPush(f) \/ AwaitRetry(f) \/ Suspend(f)
Signal == SignalStore \/ SignalSwap \/ SignalWalk
Next == Signal \/ \E f \in Fibers : Await(f)
Spec == Init /\ [][Next]_fevars /\ WF_fevars(Signal) /\ \A f \in Fibers : WF_fevars(Await(f))
-----------------------------------------------------------------------------
(* Every fiber that has pushed itself, suspended or about to, has one node, in  *)
(* the list or in the hands of the signaller, until it is resumed, and nobody  *)
(* else has one: none is lost by racing pushes and none is resumed twice. A    *)
(* fiber that stays suspended when signal_all has finished tested the flag     *)
(* before it was set, and either pushed its node after the last swap or was    *)
(* resumed before it had suspended: these two ways to be forgotten, both of    *)
(* await_one's test without a second look, are the only ones.                  *)
NodesAccounted ==
  LET nodes == waiting \o taken
  IN  /\ \A f \in Fibers :
           (fpc[f] \in {"pushed", "suspended"} /\ f \notin early) <=>
             \E i \in 1 .. Len(nodes) : nodes[i] = f
      /\ \A i, j \in 1 .. Len(nodes) : nodes[i] = nodes[j] => i = j
      /\ spc = "over" => \A f \in Fibers : fpc[f] = "suspended" =>
           f \in before /\ (f \in early \/ \E i \in 1 .. Len(waiting) : waiting[i] = f)

(* A fiber that had suspended when the signal was given, or when the signaller *)
(* took it from the list, goes on.                                             *)
Resumed(f) ==
  fpc[f] = "suspended" /\ (spc = "store" \/ \E i \in 1 .. Len(taken) : taken[i] = f)
    ~> fpc[f] = "over"
WaitersResume == \A f \in Fibers : Resumed(f)
=============================================================================
