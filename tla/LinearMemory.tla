---------------------------- MODULE LinearMemory ----------------------------
(***************************************************************************)
(* The bump allocators of Cap.Memory, FrameAllocatorResource and           *)
(* StackAllocatorResource, in the Windows backend, which commits pages on  *)
(* demand, and in the generic one, whose buffer is there from the start;   *)
(* and StateRingResource of Sys.Memory, which marks the top of a stack at  *)
(* the end of every frame to be able to roll back to it.                   *)
(*                                                                         *)
(* Memory is counted in units of the smallest alignment.  A call that      *)
(* fails (a bad argument, no room, no page to commit) changes nothing.     *)
(* The blocks a caller may still use are a history variable: they are what *)
(* the allocators must keep apart.                                         *)
(***************************************************************************)
EXTENDS Integers, Sequences

CONSTANTS
  Kinds,      \* implementations: "frame", "stack", "generic frame", "generic stack"
  Capacity,   \* of the reserved space, a multiple of Page
  Page,
  Sizes,      \* sizes that callers ask for
  Aligns,     \* alignments that callers ask for
  MaxFrames   \* frames a state ring remembers

LinearAssumption ==
  /\ Page \in Nat \ {0} /\ Capacity \in Nat /\ Capacity % Page = 0
  /\ Sizes \subseteq Nat \ {0} /\ Aligns \subseteq Nat \ {0}
  /\ MaxFrames \in Nat \ {0}

VARIABLES
  kind,       \* which implementation this is
  offset, committed,
  marks, curBegin,   \* of StateRingResource
  live,       \* history: the blocks in use, as ranges [from, to)
  snaps       \* history, per mark: the blocks in use when it was set

vars == <<kind, offset, committed, marks, curBegin, live, snaps>>
ring == <<marks, curBegin, snaps>>

OnDemand == kind \in {"frame", "stack"}
IsStack == kind \in {"stack", "generic stack"}

Init ==
  /\ kind \in Kinds
  /\ offset = 0
  /\ committed = IF OnDemand THEN 0 ELSE Capacity
  /\ marks = <<>> /\ curBegin = 0
  /\ live = {} /\ snaps = <<>>

-----------------------------------------------------------------------------
(* Allocation *)

AlignUp(v, a) == ((v + a - 1) \div a) * a

Place(size, align) ==
  [from |-> AlignUp(offset, align), to |-> AlignUp(offset, align) + size]

\* Pages that are committed once the space up to end is in use.
Committing(end) == IF end > committed THEN AlignUp(end, Page) ELSE committed

\* b is handed out, and old (a set of blocks) is no longer used.
Bump(b, pages, old) ==
  /\ b.to <= Capacity
  /\ offset' = b.to
  /\ committed' = pages
  /\ live' = (live \ old) \cup {b}
  /\ UNCHANGED <<kind, ring>>

FrameAllocate(size, align) ==
  /\ kind = "frame"
  /\ LET b == Place(size, align) IN Bump(b, Committing(b.to), {})

StackAllocate(size, align) ==
  /\ kind = "stack"
  /\ LET b == Place(size, align) IN Bump(b, Committing(b.to), {})

GenericFrameAllocate(size, align) ==
  kind = "generic frame" /\ Bump(Place(size, align), committed, {})

GenericStackAllocate(size, align) ==
  kind = "generic stack" /\ Bump(Place(size, align), committed, {})

\* Reallocation allocates and copies.  On a stack it also deallocates the old
\* block, which is not the topmost one any more: nothing is given back.
FrameReallocate(old, size, align) ==
  /\ kind = "frame"
  /\ LET b == Place(size, align) IN Bump(b, Committing(b.to), {old})

StackReallocate(old, size, align) ==
  /\ kind = "stack"
  /\ LET b == Place(size, align) IN Bump(b, Committing(b.to), {old})

GenericFrameReallocate(old, size, align) ==
  kind = "generic frame" /\ Bump(Place(size, align), committed, {old})

GenericStackReallocate(old, size, align) ==
  kind = "generic stack" /\ Bump(Place(size, align), committed, {old})

-----------------------------------------------------------------------------
(* Giving back.  A frame allocator ignores deallocate, and reallocate to   *)
(* size zero is ignored by all four.                                       *)

Forget(b) ==
  /\ live' = live \ {b}
  /\ UNCHANGED <<kind, offset, committed, ring>>

\* Mutant: the block need not be the topmost one.
StackDeallocateAny(b) ==
  /\ kind = "stack"
  /\ offset' = b.from
  /\ committed' = IF committed > AlignUp(b.from, Page) THEN AlignUp(b.from, Page)
                                                       ELSE committed
  /\ live' = live \ {b}
  /\ UNCHANGED <<kind, ring>>

StackDeallocate(b) ==
  /\ kind = "stack" /\ b.to = offset
  /\ offset' = b.from
  /\ committed' = IF committed > AlignUp(b.from, Page) THEN AlignUp(b.from, Page)
                                                       ELSE committed
  /\ live' = live \ {b}
  /\ UNCHANGED <<kind, ring>>

GenericStackDeallocate(b) ==
  /\ kind = "generic stack" /\ b.to = offset
  /\ offset' = b.from
  /\ live' = live \ {b}
  /\ UNCHANGED <<kind, committed, ring>>

\* The marker of a stack, the offset of a frame allocator: a caller goes back
\* to the end of a block it still uses, or to the beginning.
ResetTo(off) ==
  /\ marks = <<>> /\ curBegin = 0
  /\ offset' = off
  /\ live' = {b \in live : b.to <= off}
  /\ UNCHANGED <<kind, committed, ring>>

Reset ==
  /\ OnDemand
  /\ marks = <<>> /\ curBegin = 0
  /\ offset' = 0 /\ committed' = 0
  /\ live' = {}
  /\ UNCHANGED <<kind, ring>>

GenericReset ==
  /\ ~OnDemand
  /\ marks = <<>> /\ curBegin = 0
  /\ offset' = 0
  /\ live' = {}
  /\ UNCHANGED <<kind, committed, ring>>

-----------------------------------------------------------------------------
(* StateRingResource.  Its arena is a stack of the platform; a caller of   *)
(* allocator() frees blocks of the current frame only.                     *)

BeginFrame ==
  /\ IsStack
  /\ curBegin' = offset
  /\ UNCHANGED <<kind, offset, committed, marks, live, snaps>>

CommitFrame ==
  /\ IsStack
  /\ LET kept(s) == IF Len(marks) = MaxFrames THEN Tail(s) ELSE s
     IN /\ marks' = Append(kept(marks), offset)
        /\ snaps' = Append(kept(snaps), live)
  /\ curBegin' = offset
  /\ UNCHANGED <<kind, offset, committed, live>>

\* Mutant: the marks of the frames that are undone are kept.
RollbackKeepMarks(i) ==
  /\ IsStack
  /\ offset' = marks[i]
  /\ curBegin' = marks[i]
  /\ live' = snaps[i]
  /\ UNCHANGED <<kind, committed, marks, snaps>>

RollbackToIndex(i) ==
  /\ IsStack
  /\ offset' = marks[i]
  /\ marks' = SubSeq(marks, 1, i)
  /\ curBegin' = marks[i]
  /\ live' = snaps[i] /\ snaps' = SubSeq(snaps, 1, i)
  /\ UNCHANGED <<kind, committed>>

ResetCurrent ==
  /\ IsStack
  /\ offset' = curBegin
  /\ live' = {b \in live : b.to <= curBegin}
  /\ UNCHANGED <<kind, committed, ring>>

-----------------------------------------------------------------------------

Next ==
  \/ \E size \in Sizes, align \in Aligns :
       \/ FrameAllocate(size, align)
       \/ StackAllocate(size, align)
       \/ GenericFrameAllocate(size, align)
       \/ GenericStackAllocate(size, align)
       \/ \E b \in live :
            \/ FrameReallocate(b, size, align)
            \/ StackReallocate(b, size, align)
            \/ GenericFrameReallocate(b, size, align)
            \/ GenericStackReallocate(b, size, align)
  \/ \E b \in {c \in live : c.from >= curBegin} :
       \/ Forget(b) /\ ~IsStack
       \/ Forget(b) /\ b.to # offset
       \/ StackDeallocate(b)
       \/ GenericStackDeallocate(b)
  \/ \E off \in {0} \cup {b.to : b \in live} : ResetTo(off)
  \/ Reset
  \/ GenericReset
  \/ BeginFrame
  \/ CommitFrame
  \/ \E i \in DOMAIN marks : RollbackToIndex(i)
  \/ ResetCurrent

Spec == Init /\ [][Next]_vars

-----------------------------------------------------------------------------

Apart(b, c) == b.to <= c.from \/ c.to <= b.from

\* Blocks in use do not overlap, lie below the offset, and their pages are
\* committed, although the stack gives pages back whenever its top is freed.
LiveBlocksSafe ==
  \A b \in live :
    /\ b.to <= offset /\ b.to <= committed
    /\ \A c \in live : b = c \/ Apart(b, c)

\* What was in use when a frame was committed is still there as long as the
\* ring can roll back to that frame: its pages are committed, and no block
\* handed out since lies on it.
SnapshotsIntact ==
  \A i \in DOMAIN marks : \A b \in snaps[i] :
    /\ b.to <= marks[i] /\ b.to <= committed
    /\ \A c \in live : b = c \/ Apart(b, c)

\* The memory that callers use, or may get back by a rollback, is theirs.
MemorySafe == LiveBlocksSafe /\ SnapshotsIntact
=============================================================================
