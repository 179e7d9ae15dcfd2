---------------------------- MODULE TaggedMemory ----------------------------
(***************************************************************************)
(* TaggedAllocatorResource (Cap.Memory, Windows backend) over the system's *)
(* SystemMemoryResource: a budget, used against limit, for the blocks that *)
(* are taken through it.  A block of the system is a region of pages of    *)
(* its own.  The inner resource may round sizes up to a granule, as pools  *)
(* do; the system hands out what was asked for.  A call that the system    *)
(* refuses changes nothing.                                                *)
(***************************************************************************)
EXTENDS Naturals, FiniteSets

CONSTANTS
  Regions,    \* addresses at which the system may place a block
  Amounts,    \* sizes that callers ask for
  Limit,      \* of the tag
  Granule     \* sizes of the inner resource are multiples of it

TaggedAssumption ==
  /\ IsFiniteSet(Regions) /\ Amounts \subseteq Nat \ {0} /\ Limit \in Nat /\ Granule \in Nat \ {0}

VARIABLES
  used,
  block       \* per region: the size of the block in it, 0 when there is none

vars == <<used, block>>

Init == used = 0 /\ block = [r \in Regions |-> 0]

Free == {r \in Regions : block[r] = 0}
Taken == Regions \ Free
Minus(a, b) == IF a > b THEN a - b ELSE 0
Rounded(size) == ((size + Granule - 1) \div Granule) * Granule

\* SystemMemoryResource: new pages, and the pages of a block given back.
SystemAllocate(r, size) == r \in Free /\ block' = [block EXCEPT ![r] = Rounded(size)]
SystemDeallocate(r) == r \in Taken /\ block' = [block EXCEPT ![r] = 0]
SystemReallocate(r, new, size) ==
  /\ r \in Taken /\ new \in Free
  /\ block' = [block EXCEPT ![new] = Rounded(size), ![r] = 0]

Allocate(r, size) ==
  /\ used + size <= Limit
  /\ SystemAllocate(r, size)
  /\ used' = used + block'[r]

Deallocate(r) ==
  /\ SystemDeallocate(r)
  /\ used' = Minus(used, block[r])

\* Mutant: what the block took before is not subtracted.
ReallocateAdds(r, new, size) ==
  /\ used + size <= Limit
  /\ SystemReallocate(r, new, size)
  /\ used' = used + size

Reallocate(r, new, size) ==
  /\ Minus(used, block[r]) + size <= Limit
  /\ SystemReallocate(r, new, size)
  /\ used' = Minus(used, block[r]) + size

Next ==
  \/ \E r \in Regions :
       \/ Deallocate(r)   \* also reallocate to size zero
       \/ \E size \in Amounts :
            Allocate(r, size) \/ \E new \in Regions : Reallocate(r, new, size)

Spec == Init /\ [][Next]_vars

\* The budget is what the blocks in use take, to the byte, and never passes the
\* limit, through reallocations that move, grow and shrink blocks.
BudgetExact ==
  /\ used = Cardinality({c \in Regions \X (1..Limit) : c[2] <= block[c[1]]})
  /\ \A r \in Regions : block[r] <= Limit
  /\ used <= Limit
=============================================================================
