--------------------------- MODULE VectorStorage ----------------------------
(***************************************************************************)
(* Vector of Cap.Containers (vector.rs) and the iterator it turns into:    *)
(* who owns the elements and the block of memory they lie in.  The vector  *)
(* doubles its capacity through reallocate, which may fail; into_iter      *)
(* moves the block to an IntoIter and disarms the vector's own Drop.       *)
(***************************************************************************)
EXTENDS Naturals, Sequences, FiniteSets, Functions

CONSTANTS
  Elements,    \* values with a destructor, each pushed at most once
  BlockIds,    \* blocks the allocator can hand out, at least two
  FirstCap,    \* capacity after the first growth (4 in the code)
  InitialCaps  \* capacities that callers ask for

NoBlock == "no block"

VectorAssumption ==
  /\ FirstCap \in Nat \ {0} /\ InitialCaps \subseteq Nat
  /\ Cardinality(BlockIds) >= 2 /\ NoBlock \notin BlockIds

VARIABLES
  form,        \* "vector", "iterator" or "gone"
  items, cap, blk, idx,
  owner,       \* history, per element: "caller", "inside", "dropped", "twice"
  live         \* history: blocks that the allocator counts as used

vars == <<form, items, cap, blk, idx, owner, live>>

Init ==
  /\ form = "vector" /\ items = <<>> /\ idx = 0
  /\ cap \in InitialCaps
  /\ blk = IF cap = 0 THEN NoBlock ELSE CHOOSE b \in BlockIds : TRUE
  /\ live = {blk} \ {NoBlock}
  /\ owner = [e \in Elements |-> "caller"]

\* The elements of S move from place to place; dropping twice is recorded.
Move(S, to) ==
  owner' = [e \in Elements |->
              IF e \notin S THEN owner[e]
              ELSE IF owner[e] = "dropped" THEN "twice" ELSE to]

-----------------------------------------------------------------------------

\* grow: reallocation moves to another block and frees the old one.
Grow(b) ==
  /\ b \notin live
  /\ cap' = IF cap = 0 THEN FirstCap ELSE 2 * cap
  /\ blk' = b
  /\ live' = (live \ {blk}) \cup {b}

Push(e) ==
  /\ form = "vector" /\ owner[e] = "caller"
  /\ \/ Len(items) < cap /\ UNCHANGED <<cap, blk, live>>
     \/ Len(items) = cap /\ \E b \in BlockIds : Grow(b)
  /\ items' = Append(items, e)
  /\ Move({e}, "inside")
  /\ UNCHANGED <<form, idx>>

\* The allocator refuses: the element that was to be pushed is dropped.
PushFails(e) ==
  /\ form = "vector" /\ owner[e] = "caller" /\ Len(items) = cap
  /\ Move({e}, "dropped")
  /\ UNCHANGED <<form, items, cap, blk, idx, live>>

WithoutLast(s) == SubSeq(s, 1, Len(s) - 1)

Pop ==
  /\ form = "vector" /\ items # <<>>
  /\ items' = WithoutLast(items)
  /\ Move({items[Len(items)]}, "caller")
  /\ UNCHANGED <<form, cap, blk, idx, live>>

\* Mutant: the last element is copied down, and stays at its place too.
SwapRemoveKeepLast(i) ==
  /\ form = "vector"
  /\ items' = [items EXCEPT ![i] = items[Len(items)]]
  /\ Move({items[i]}, "caller")
  /\ UNCHANGED <<form, cap, blk, idx, live>>

SwapRemove(i) ==
  /\ form = "vector"
  /\ items' = WithoutLast([items EXCEPT ![i] = items[Len(items)]])
  /\ Move({items[i]}, "caller")
  /\ UNCHANGED <<form, cap, blk, idx, live>>

DropVector ==
  /\ form = "vector"
  /\ form' = "gone"
  /\ items' = <<>> /\ blk' = NoBlock
  /\ live' = live \ {blk}
  /\ Move(IF blk = NoBlock THEN {} ELSE Range(items), "dropped")
  /\ UNCHANGED <<cap, idx>>

IntoIterator ==
  /\ form = "vector"
  /\ form' = "iterator" /\ idx' = 0
  /\ UNCHANGED <<items, cap, blk, owner, live>>

IteratorNext ==
  /\ form = "iterator" /\ idx < Len(items)
  /\ idx' = idx + 1
  /\ Move({items[idx + 1]}, "caller")
  /\ UNCHANGED <<form, items, cap, blk, live>>

\* What the iterator has not handed out yet is dropped with it.
DropIterator ==
  /\ form = "iterator"
  /\ form' = "gone"
  /\ items' = <<>> /\ blk' = NoBlock
  /\ live' = live \ {blk}
  /\ Move(Range(SubSeq(items, idx + 1, Len(items))), "dropped")
  /\ UNCHANGED <<cap, idx>>

Next ==
  \/ \E e \in Elements : Push(e) \/ PushFails(e)
  \/ Pop
  \/ \E i \in DOMAIN items : SwapRemove(i)
  \/ DropVector
  \/ IntoIterator \/ IteratorNext \/ DropIterator

Spec == Init /\ [][Next]_vars

-----------------------------------------------------------------------------

Inside == IF form = "iterator" THEN SubSeq(items, idx + 1, Len(items)) ELSE items

\* An element has one owner: it is inside exactly once or not at all, and is
\* dropped once at most; and the only block in use is the one that the vector or
\* its iterator will free.  Neither growth, a refused allocation, swap_remove
\* nor a half-consumed iterator leaks or frees anything twice.
OwnedOnce ==
  /\ IsInjective(Inside)
  /\ Range(Inside) = {e \in Elements : owner[e] = "inside"}
  /\ \A e \in Elements : owner[e] # "twice"
  /\ live = {blk} \ {NoBlock}
  /\ form # "gone" => Len(items) <= cap
=============================================================================
