------------------------------ MODULE TaskOrder ------------------------------
(***************************************************************************)
(* What executing a task graph promises: each node runs at most once, and  *)
(* only after all the nodes it depends on have returned.  A graph is a     *)
(* number of nodes and a sequence of edges <<from, to>>; it may be built   *)
(* until the first node starts.                                            *)
(***************************************************************************)
EXTENDS Naturals, Sequences

VARIABLES n, edges, started, finished

vars == <<n, edges, started, finished>>

Init ==
  /\ started = [x \in 1..n |-> 0]
  /\ finished = started

Build ==
  /\ \A x \in 1..n : started[x] = 0
  /\ started' = [x \in 1..n' |-> 0]
  /\ finished' = started'

Start(x) ==
  /\ started[x] = 0
  /\ \A k \in DOMAIN edges : edges[k][2] = x => finished[edges[k][1]] = 1
  /\ started' = [started EXCEPT ![x] = 1]
  /\ UNCHANGED <<n, edges, finished>>

Finish(x) ==
  /\ started[x] = 1 /\ finished[x] = 0
  /\ finished' = [finished EXCEPT ![x] = 1]
  /\ UNCHANGED <<n, edges, started>>

Next == Build \/ \E x \in 1..n : Start(x) \/ Finish(x)

Spec == Init /\ [][Next]_vars
=============================================================================
