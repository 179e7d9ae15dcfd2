---------------------------- MODULE StorageProofs ----------------------------
(***************************************************************************)
(* Proofs about the modules of MCStorage, each with the inductive          *)
(* invariant of its own behaviours.                                        *)
(***************************************************************************)
EXTENDS MCStorage, SequenceTheorems, FiniteSetTheorems, WellFoundedInduction, TLAPS

all == <<linear, pool, tagged, table, vector, rings, string, commands, graph, which>>

\* A step is of the module whose turn it is.
LEMMA OneAtATime ==
  ASSUME [Next]_all
  PROVE  /\ which' = which
         /\ which = "linear" => [L!Next]_linear
         /\ which = "pool" => [P!Next]_pool
         /\ which = "tagged" => [T!Next]_tagged
         /\ which = "table" => [H!Next]_table
         /\ which = "vector" => [V!Next]_vector
         /\ which = "rings" => [R!Next]_rings
         /\ which = "string" => [S!Next]_string
         /\ which = "commands" => [C!Next]_commands
         /\ which = "graph" => [G!Next]_graph
         /\ which # "linear" => UNCHANGED linear
         /\ which # "table" => UNCHANGED table
         /\ which # "rings" => UNCHANGED rings
         /\ which # "graph" => UNCHANGED graph
<1>1. CASE UNCHANGED all
  BY <1>1 DEF all
<1>2. CASE Next
  BY <1>2 DEF Next
<1>3. QED
  BY <1>1, <1>2

-----------------------------------------------------------------------------
(* Frame, stack and ring allocators *)

LEMMA LinearConstants == L!LinearAssumption
BY Constants

USE LinearConstants DEF L!LinearAssumption


Ranges == [from : Nat, to : Nat]

LinType ==
  /\ offset \in Nat /\ lcommitted \in Nat /\ curBegin \in Nat
  /\ live \in SUBSET Ranges
  /\ marks \in Seq(Nat) /\ snaps \in Seq(SUBSET Ranges) /\ Len(snaps) = Len(marks)

\* The frame that is open lies above the marks, which ascend.
MarksAscend ==
  /\ curBegin <= offset /\ offset <= lcommitted
  /\ \A i \in 1..Len(marks) : marks[i] <= curBegin /\ \A j \in 1..i : marks[j] <= marks[i]

LiveApart ==
  \A b \in live : b.from < b.to /\ b.to <= offset /\ \A c \in live : b = c \/ L!Apart(b, c)

SnapsBelow ==
  \A i \in 1..Len(marks) : \A b \in snaps[i] : b.from < b.to /\ b.to <= marks[i]

SnapsApart ==
  \A i \in 1..Len(marks) : \A b \in snaps[i] :
    /\ \A c \in live : b = c \/ L!Apart(b, c)
    /\ \A j \in 1..Len(marks) : \A c \in snaps[j] : b = c \/ L!Apart(b, c)

LinInv == /\ LinType /\ MarksAscend /\ LiveApart /\ SnapsBelow /\ SnapsApart
          /\ ~L!OnDemand => lcommitted = Capacity

-----------------------------------------------------------------------------

LEMMA AlignUpType ==
  ASSUME NEW v \in Nat, NEW a \in Nat \ {0}
  PROVE  L!AlignUp(v, a) \in Nat /\ L!AlignUp(v, a) >= v
<1> DEFINE x == v + a - 1
           d == x \div a
<1>1. x \in Nat /\ d \in Nat /\ x = a * d + (x % a) /\ x % a \in 0..a-1
  OBVIOUS
<1> HIDE DEF x, d
<1>2. a * d \in Nat
  BY <1>1
<1>3. d * a = a * d
  BY <1>1
<1>4. L!AlignUp(v, a) = a * d
  BY <1>3, Zenon DEF L!AlignUp, x, d
<1>5. x = v + a - 1
  BY DEF x
<1>6. a * d >= v
  BY <1>1, <1>2, <1>5
<1>7. QED
  BY <1>2, <1>4, <1>6

LEMMA LinInit == L!Init => LinInv
BY DEF L!Init, LinInv, LinType, MarksAscend, LiveApart, SnapsBelow, SnapsApart, L!OnDemand

\* A block that is handed out begins at the offset or above.
LEMMA Bumped ==
  ASSUME LinInv, NEW b \in Ranges, offset <= b.from, b.from < b.to,
         NEW pages \in Nat, b.to <= pages, ~L!OnDemand => pages = Capacity,
         NEW was \in SUBSET live, L!Bump(b, pages, was)
  PROVE  LinInv'
<1> USE DEF LinInv, LinType, Ranges
<1>1. /\ offset' = b.to /\ lcommitted' = pages /\ live' = (live \ was) \cup {b}
      /\ UNCHANGED <<kind, marks, curBegin, snaps>>
  BY DEF L!Bump, L!ring
<1>2. LinType'
  BY <1>1
<1>3. MarksAscend'
  BY <1>1 DEF MarksAscend
<1>4. \A c \in live : c.to <= b.from /\ L!Apart(b, c) /\ L!Apart(c, b)
  BY DEF LiveApart, L!Apart
<1>5. LiveApart'
  BY <1>1, <1>4 DEF LiveApart
<1>6. SnapsBelow'
  BY <1>1 DEF SnapsBelow
<1>7. \A i \in 1..Len(marks) : \A c \in snaps[i] : L!Apart(c, b)
  BY DEF SnapsBelow, MarksAscend, L!Apart
<1>8. SnapsApart'
  BY <1>1, <1>7 DEF SnapsApart
<1>9. QED
  BY <1>1, <1>2, <1>3, <1>5, <1>6, <1>8 DEF L!OnDemand

\* Going back keeps what lies below the new offset.
LEMMA Lowered ==
  ASSUME LinInv, live' \subseteq live, \A b \in live' : b.to <= offset',
         offset' \in Nat, curBegin <= offset', lcommitted' \in Nat, offset' <= lcommitted',
         ~L!OnDemand => lcommitted' = lcommitted, UNCHANGED <<kind, L!ring>>
  PROVE  LinInv'
<1> USE DEF LinInv, LinType
<1>1. UNCHANGED <<kind, marks, curBegin, snaps>>
  BY DEF L!ring
<1>2. LinType' /\ MarksAscend'
  BY <1>1 DEF MarksAscend
<1>3. LiveApart'
  BY <1>1 DEF LiveApart
<1>4. SnapsBelow' /\ SnapsApart'
  BY <1>1 DEF SnapsBelow, SnapsApart
<1>5. QED
  BY <1>1, <1>2, <1>3, <1>4 DEF L!OnDemand

LEMMA FrameCommitted ==
  ASSUME LinInv, L!CommitFrame
  PROVE  LinInv'
<1> DEFINE kept(s) == IF Len(marks) = MaxFrames THEN Tail(s) ELSE s
           k == IF Len(marks) = MaxFrames THEN 1 ELSE 0
           n == Len(marks) - k
<1> USE DEF LinInv, LinType
<1>1. /\ marks' = Append(kept(marks), offset) /\ snaps' = Append(kept(snaps), live)
      /\ curBegin' = offset /\ UNCHANGED <<kind, offset, lcommitted, live>>
  BY DEF L!CommitFrame
<1>2. k \in {0, 1} /\ n \in Nat /\ Len(marks) = n + k
  BY LenProperties
<1>3. /\ kept(marks) \in Seq(Nat) /\ Len(kept(marks)) = n
      /\ \A i \in 1..n : kept(marks)[i] = marks[i + k]
  <2>1. CASE Len(marks) = MaxFrames
    BY <2>1, HeadTailProperties, EmptySeq
  <2>2. CASE Len(marks) # MaxFrames
    BY <2>2
  <2>3. QED
    BY <2>1, <2>2
<1>4. /\ kept(snaps) \in Seq(SUBSET Ranges) /\ Len(kept(snaps)) = n
      /\ \A i \in 1..n : kept(snaps)[i] = snaps[i + k]
  <2>1. CASE Len(marks) = MaxFrames
    BY <2>1, HeadTailProperties, EmptySeq
  <2>2. CASE Len(marks) # MaxFrames
    BY <2>2
  <2>3. QED
    BY <2>1, <2>2
<1> HIDE DEF kept, k, n
<1>5. /\ marks' \in Seq(Nat) /\ Len(marks') = n + 1 /\ marks'[n + 1] = offset
      /\ \A i \in 1..n : marks'[i] = marks[i + k] /\ i + k \in 1..Len(marks)
  BY <1>1, <1>2, <1>3, AppendProperties
<1>6. /\ snaps' \in Seq(SUBSET Ranges) /\ Len(snaps') = n + 1 /\ snaps'[n + 1] = live
      /\ \A i \in 1..n : snaps'[i] = snaps[i + k] /\ i + k \in 1..Len(marks)
  BY <1>1, <1>2, <1>4, AppendProperties
<1>7. LinType'
  BY <1>1, <1>5, <1>6
<1>8. \A i \in 1..n+1 : i \in 1..n \/ i = n + 1
  BY <1>2
<1>9. MarksAscend'
  <2>1. \A i \in 1..n : marks[i + k] \in Nat /\ marks[i + k] <= curBegin
                        /\ \A j \in 1..i : j \in 1..n /\ marks[j + k] <= marks[i + k]
    <3>1. \A i \in 1..n : \A j \in 1..i : j \in 1..n /\ j + k \in 1..(i + k)
      BY <1>2
    <3>2. QED
      <4>1. \A i \in 1..n : i + k \in 1..Len(marks) /\ marks[i + k] \in Nat
        BY <1>5, <1>1
      <4>2. \A m \in 1..Len(marks) : marks[m] <= curBegin
                                    /\ \A j \in 1..m : marks[j] <= marks[m]
        BY Zenon DEF MarksAscend
      <4>3. QED
        BY <3>1, <4>1, <4>2
  <2>2. \A i \in 1..n+1 : marks'[i] <= offset /\ marks'[i] \in Nat
    <3>1. \A i \in 1..n : marks'[i] \in Nat /\ marks'[i] <= curBegin
      BY <1>5, <2>1
    <3>2. curBegin \in Nat /\ curBegin <= offset /\ offset \in Nat
      BY DEF MarksAscend
    <3>3. QED
      BY <1>5, <1>8, <3>1, <3>2
  <2>3. \A i \in 1..n+1 : \A j \in 1..i : marks'[j] <= marks'[i]
    BY <1>2, <1>5, <1>8, <2>1, <2>2
  <2>4. QED
    BY <1>1, <1>5, <2>2, <2>3 DEF MarksAscend
<1>10. LiveApart'
  BY <1>1 DEF LiveApart
<1>11. SnapsBelow'
  <2>1. ASSUME NEW i \in 1..n+1, NEW b \in snaps'[i]
        PROVE  b.from < b.to /\ b.to <= marks'[i]
    <3>1. CASE i \in 1..n
      BY <1>5, <1>6, <2>1, <3>1 DEF SnapsBelow
    <3>2. CASE i = n + 1
      BY <1>5, <1>6, <2>1, <3>2 DEF LiveApart
    <3>3. QED
      BY <1>8, <3>1, <3>2
  <2>2. QED
    BY <1>5, <2>1 DEF SnapsBelow
<1>12. SnapsApart'
  <2>1. ASSUME NEW i \in 1..n+1, NEW b \in snaps'[i], NEW c \in live' PROVE b = c \/ L!Apart(b, c)
    BY <1>1, <1>6, <1>8, <2>1 DEF SnapsApart, LiveApart
  <2>2. ASSUME NEW i \in 1..n+1, NEW b \in snaps'[i], NEW j \in 1..n+1, NEW c \in snaps'[j]
        PROVE  b = c \/ L!Apart(b, c)
    <3>1. CASE i = n + 1 /\ j = n + 1
      BY <1>6, <2>2, <3>1 DEF LiveApart
    <3>2. CASE i = n + 1 /\ j \in 1..n
      BY <1>6, <2>2, <3>2 DEF SnapsApart, L!Apart
    <3>3. CASE i \in 1..n /\ j = n + 1
      BY <1>6, <2>2, <3>3 DEF SnapsApart
    <3>4. CASE i \in 1..n /\ j \in 1..n
      BY <1>6, <2>2, <3>4 DEF SnapsApart
    <3>5. QED
      BY <1>8, <3>1, <3>2, <3>3, <3>4
  <2>3. QED
    BY <1>5, <2>1, <2>2 DEF SnapsApart
<1>13. QED
  BY <1>1, <1>7, <1>9, <1>10, <1>11, <1>12 DEF L!OnDemand

LEMMA RolledBack ==
  ASSUME LinInv, NEW i \in DOMAIN marks, L!RollbackToIndex(i)
  PROVE  LinInv'
<1> USE DEF LinInv, LinType
<1>1. /\ offset' = marks[i] /\ curBegin' = marks[i] /\ live' = snaps[i]
      /\ marks' = SubSeq(marks, 1, i) /\ snaps' = SubSeq(snaps, 1, i)
      /\ UNCHANGED <<kind, lcommitted>>
  BY DEF L!RollbackToIndex
<1>2. i \in Nat /\ 1 <= i /\ i <= Len(marks) /\ Len(marks) \in Nat
  BY LenProperties
<1>3. /\ marks' \in Seq(Nat) /\ Len(marks') = i
      /\ \A j \in 1..i : marks'[j] = marks[j] /\ j \in 1..Len(marks)
  <2>1. \A j \in 1..i : marks[j] \in Nat
    BY <1>2
  <2>2. QED
    BY <1>1, <1>2, <2>1, SubSeqProperties
<1>4. /\ snaps' \in Seq(SUBSET Ranges) /\ Len(snaps') = i
      /\ \A j \in 1..i : snaps'[j] = snaps[j] /\ j \in 1..Len(marks)
  <2>1. \A j \in 1..i : snaps[j] \in SUBSET Ranges
    BY <1>2
  <2>2. QED
    BY <1>1, <1>2, <2>1, SubSeqProperties
<1>5. marks[i] \in Nat /\ snaps[i] \in SUBSET Ranges /\ i \in 1..Len(marks)
  BY <1>2
<1>6. LinType'
  BY <1>1, <1>3, <1>4, <1>5
<1>7. MarksAscend'
  <2>1. \A j \in 1..i : marks[j] <= marks[i] /\ \A m \in 1..j : marks[m] <= marks[j]
    BY <1>3, <1>5 DEF MarksAscend
  <2>2. marks[i] <= lcommitted
    BY <1>5 DEF MarksAscend
  <2>3. \A j \in 1..i : \A m \in 1..j : m \in 1..i
    BY <1>2
  <2>4. QED
    BY <1>1, <1>3, <1>5, <2>1, <2>2, <2>3, SMTT(30) DEF MarksAscend
<1>8. LiveApart'
  BY <1>1, <1>5 DEF LiveApart, SnapsBelow, SnapsApart
<1>9. SnapsBelow'
  BY <1>3, <1>4 DEF SnapsBelow
<1>10. SnapsApart'
  BY <1>1, <1>3, <1>4, <1>5 DEF SnapsApart
<1>11. QED
  BY <1>1, <1>6, <1>7, <1>8, <1>9, <1>10 DEF L!OnDemand

-----------------------------------------------------------------------------

LEMMA LinearPlaced ==
  ASSUME LinInv, NEW size \in Sizes, NEW align \in Aligns
  PROVE  LET b == L!Place(size, align)
         IN  /\ b \in Ranges /\ offset <= b.from /\ b.from < b.to
             /\ L!Committing(b.to) \in Nat /\ b.to <= L!Committing(b.to)
<1> DEFINE f == L!AlignUp(offset, align)
<1>1. f \in Nat /\ f >= offset
  BY AlignUpType DEF LinInv, LinType
<1>2. size \in Nat /\ size > 0
  OBVIOUS
<1>3. L!Place(size, align) = [from |-> f, to |-> f + size]
  BY DEF L!Place
<1> HIDE DEF f
<1>4. f + size \in Nat /\ f < f + size
  BY <1>1, <1>2
<1>5. L!Committing(f + size) \in Nat /\ f + size <= L!Committing(f + size)
  <2>1. L!AlignUp(f + size, Page) \in Nat /\ L!AlignUp(f + size, Page) >= f + size
    BY <1>4, AlignUpType
  <2>2. QED
    BY <1>4, <2>1 DEF L!Committing, LinInv, LinType
<1>6. QED
  BY <1>1, <1>3, <1>4, <1>5 DEF Ranges

LEMMA LinStep ==
  ASSUME LinInv, [L!Next]_(L!vars)
  PROVE  LinInv'
<1>1. ASSUME NEW size \in Sizes, NEW align \in Aligns, NEW was \in SUBSET live,
             \/ /\ kind \in {"frame", "stack"}
                /\ L!Bump(L!Place(size, align), L!Committing(L!Place(size, align).to), was)
             \/ /\ kind \in {"generic frame", "generic stack"}
                /\ L!Bump(L!Place(size, align), lcommitted, was)
      PROVE  LinInv'
  <2> DEFINE b == L!Place(size, align)
  <2>1. /\ b \in Ranges /\ offset <= b.from /\ b.from < b.to
        /\ L!Committing(b.to) \in Nat /\ b.to <= L!Committing(b.to)
    BY LinearPlaced
  <2> HIDE DEF b
  <2>2. CASE kind \in {"frame", "stack"} /\ L!Bump(b, L!Committing(b.to), was)
    BY <2>1, <2>2, Bumped DEF L!OnDemand
  <2>3. CASE kind \in {"generic frame", "generic stack"} /\ L!Bump(b, lcommitted, was)
    <3>1. ~L!OnDemand /\ lcommitted = Capacity /\ b.to <= Capacity /\ lcommitted \in Nat
      BY <2>3 DEF L!OnDemand, LinInv, LinType, L!Bump
    <3>2. QED
      BY <2>1, <2>3, <3>1, Bumped
  <2>4. QED
    BY <1>1, <2>2, <2>3 DEF b
<1>2. ASSUME NEW b \in live, b.from >= curBegin,
             L!Forget(b) \/ L!StackDeallocate(b) \/ L!GenericStackDeallocate(b)
      PROVE  LinInv'
  <2> USE DEF LinInv, LinType, Ranges
  <2>1. CASE L!Forget(b)
    BY <2>1, Lowered DEF L!Forget, LiveApart, MarksAscend
  <2>2. ASSUME b.to = offset, offset' = b.from, live' = live \ {b}
        PROVE  /\ live' \subseteq live /\ \A c \in live' : c.to <= offset'
               /\ offset' \in Nat /\ curBegin <= offset' /\ offset' <= lcommitted
    BY <1>2, <2>2 DEF LiveApart, MarksAscend, L!Apart
  <2>3. CASE L!StackDeallocate(b)
    <3>1. L!AlignUp(b.from, Page) \in Nat /\ L!AlignUp(b.from, Page) >= b.from
      BY AlignUpType
    <3>2. /\ b.to = offset /\ offset' = b.from /\ live' = live \ {b} /\ UNCHANGED <<kind, L!ring>>
          /\ lcommitted' \in {lcommitted, L!AlignUp(b.from, Page)} /\ L!OnDemand
      BY <2>3 DEF L!StackDeallocate, L!OnDemand
    <3>3. QED
      BY <2>2, <3>1, <3>2, Lowered
  <2>4. CASE L!GenericStackDeallocate(b)
    <3>1. /\ b.to = offset /\ offset' = b.from /\ live' = live \ {b}
          /\ UNCHANGED <<kind, L!ring, lcommitted>>
      BY <2>4 DEF L!GenericStackDeallocate
    <3>2. QED
      BY <2>2, <3>1, Lowered
  <2>5. QED
    BY <1>2, <2>1, <2>3, <2>4
<1>3. ASSUME NEW off \in {0} \cup {b.to : b \in live}, L!ResetTo(off)
      PROVE  LinInv'
  <2> USE DEF LinInv, LinType, Ranges
  <2>1. off \in Nat /\ off <= offset
    BY DEF LiveApart
  <2>2. QED
    BY <1>3, <2>1, Lowered DEF L!ResetTo, MarksAscend
<1>4. CASE L!Reset \/ L!GenericReset
  <2> USE DEF LinInv, LinType
  <2>1. CASE L!Reset
    BY <2>1, Lowered DEF L!Reset
  <2>2. CASE L!GenericReset
    BY <2>2, Lowered DEF L!GenericReset
  <2>3. QED
    BY <1>4, <2>1, <2>2
<1>5. CASE L!BeginFrame
  <2> USE DEF LinInv, LinType
  <2>1. curBegin' = offset /\ UNCHANGED <<kind, offset, lcommitted, marks, live, snaps>>
    BY <1>5 DEF L!BeginFrame
  <2>2. LinType' /\ LiveApart' /\ SnapsBelow' /\ SnapsApart'
    BY <2>1 DEF LiveApart, SnapsBelow, SnapsApart
  <2>3. MarksAscend'
    BY <2>1 DEF MarksAscend
  <2>4. QED
    BY <2>1, <2>2, <2>3 DEF L!OnDemand
<1>6. CASE L!ResetCurrent
  BY <1>6, Lowered DEF L!ResetCurrent, LinInv, LinType, MarksAscend
<1>7. CASE UNCHANGED L!vars
  BY <1>7 DEF L!vars, L!ring, LinInv, LinType, MarksAscend, LiveApart, SnapsBelow, SnapsApart, L!OnDemand
<1>8. ASSUME NEW size \in Sizes, NEW align \in Aligns,
             \/ L!FrameAllocate(size, align) \/ L!StackAllocate(size, align)
             \/ L!GenericFrameAllocate(size, align) \/ L!GenericStackAllocate(size, align)
      PROVE  LinInv'
  <2>1. {} \in SUBSET live
    OBVIOUS
  <2>2. QED
    BY <1>1, <1>8, <2>1
       DEF L!FrameAllocate, L!StackAllocate, L!GenericFrameAllocate, L!GenericStackAllocate
<1>9. ASSUME NEW size \in Sizes, NEW align \in Aligns, NEW b \in live,
             \/ L!FrameReallocate(b, size, align) \/ L!StackReallocate(b, size, align)
             \/ L!GenericFrameReallocate(b, size, align) \/ L!GenericStackReallocate(b, size, align)
      PROVE  LinInv'
  <2>1. {b} \in SUBSET live
    OBVIOUS
  <2>2. QED
    BY <1>1, <1>9, <2>1
       DEF L!FrameReallocate, L!StackReallocate, L!GenericFrameReallocate, L!GenericStackReallocate
<1>10. ASSUME NEW b \in {c \in live : c.from >= curBegin},
              \/ L!Forget(b) /\ ~L!IsStack
              \/ L!Forget(b) /\ b.to # offset
              \/ L!StackDeallocate(b)
              \/ L!GenericStackDeallocate(b)
       PROVE  LinInv'
  BY <1>2, <1>10
<1>11. ASSUME NEW size \in Sizes, NEW align \in Aligns,
              \/ L!FrameAllocate(size, align)
              \/ L!StackAllocate(size, align)
              \/ L!GenericFrameAllocate(size, align)
              \/ L!GenericStackAllocate(size, align)
              \/ \E b \in live :
                   \/ L!FrameReallocate(b, size, align)
                   \/ L!StackReallocate(b, size, align)
                   \/ L!GenericFrameReallocate(b, size, align)
                   \/ L!GenericStackReallocate(b, size, align)
       PROVE  LinInv'
  BY <1>8, <1>9, <1>11
<1>12. QED
  BY <1>3, <1>4, <1>5, <1>6, <1>7, <1>10, <1>11, FrameCommitted, RolledBack DEF L!Next

LEMMA LinSafe == LinInv => L!MemorySafe
<1> SUFFICES ASSUME LinInv PROVE L!MemorySafe
  OBVIOUS
<1> USE DEF LinInv, LinType, Ranges
<1>1. L!LiveBlocksSafe
  BY DEF LiveApart, MarksAscend, L!LiveBlocksSafe
<1>2. L!SnapshotsIntact
  BY DEF SnapsBelow, SnapsApart, MarksAscend, L!SnapshotsIntact
<1>3. QED
  BY <1>1, <1>2 DEF L!MemorySafe

\* Whatever is allocated, given back and rolled back, for every page, size,
\* alignment and number of frames: the blocks in use lie apart, inside what is
\* committed and below the offset.
THEOREM MemoryStaysSafe == Spec => []MemorySafe
<1> DEFINE I == which = "linear" => LinInv
<1>1. Init => I
  BY LinInit DEF Init
<1>2. I /\ [Next]_all => I'
  <2> SUFFICES ASSUME I, [Next]_all, which' = "linear" PROVE LinInv'
    OBVIOUS
  <2>1. LinInv /\ [L!Next]_linear
    BY OneAtATime
  <2>2. [L!Next]_(L!vars)
    BY <2>1 DEF linear, L!vars
  <2>3. QED
    BY <2>1, <2>2, LinStep
<1>3. I => MemorySafe
  BY LinSafe DEF MemorySafe
<1>4. QED
  BY <1>1, <1>2, <1>3, PTL DEF Spec, all

HIDE LinearConstants DEF L!LinearAssumption

-----------------------------------------------------------------------------
(* Command buffers *)


CmdType ==
  /\ buf \in [CmdBuffers -> Seq(Commands)] /\ list \in Seq(CmdBuffers)
  /\ at \in Nat /\ cmd \in Nat
  /\ pushed \in [CmdBuffers -> Seq(Commands)] /\ applied \in [CmdBuffers -> Seq(Commands)]

\* apply_all is at a command of a buffer of the list, or behind the last one, and
\* the buffers it has passed are empty.
AtSound ==
  /\ ~C!Idle => at <= Len(list) /\ cmd >= 1 /\ cmd <= Len(buf[list[at]]) + 1
  /\ \A k \in 1..(at - 1) : Len(buf[list[k]]) = 0

\* How many commands of a buffer have been executed and are not yet cleared.
Done(b) == IF ~C!Idle /\ list[at] = b THEN cmd - 1 ELSE 0

\* What has been executed (done), and behind it what waits in the buffer beyond its
\* first n commands, is what was pushed.
Account(done, b, p, n) ==
  /\ n <= Len(b)
  /\ Len(p) = Len(done) + Len(b) - n
  /\ \A k \in 1..Len(done) : done[k] = p[k]
  /\ \A i \in (n + 1)..Len(b) : b[i] = p[Len(done) - n + i]

Accounted(b) == Account(applied[b], buf[b], pushed[b], Done(b))

CmdInv == CmdType /\ AtSound /\ \A b \in CmdBuffers : Accounted(b)

-----------------------------------------------------------------------------

LEMMA AccountPush ==
  ASSUME NEW Things, NEW done \in Seq(Things), NEW b \in Seq(Things), NEW p \in Seq(Things), NEW c \in Things,
         Account(done, b, p, 0)
  PROVE  Account(done, Append(b, c), Append(p, c), 0)
<1>1. Len(done) \in Nat /\ Len(b) \in Nat /\ Len(p) \in Nat
  BY LenProperties
<1>2. PICK u \in Seq(Things) : u = Append(b, c)
  BY AppendProperties
<1>3. PICK r \in Seq(Things) : r = Append(p, c)
  BY AppendProperties
<1>4. Len(u) = Len(b) + 1 /\ u[Len(b) + 1] = c /\ \A i \in 1..Len(b) : u[i] = b[i]
  BY <1>2, AppendProperties
<1>5. Len(r) = Len(p) + 1 /\ r[Len(p) + 1] = c /\ \A i \in 1..Len(p) : r[i] = p[i]
  BY <1>3, AppendProperties
<1>a. /\ Len(p) = Len(done) + Len(b)
      /\ \A k \in 1..Len(done) : done[k] = p[k]
      /\ \A i \in 1..Len(b) : b[i] = p[Len(done) + i]
  <2>1. ASSUME NEW i \in 1..Len(b) PROVE b[i] = p[Len(done) + i]
    <3>1. Len(done) - 0 + i = Len(done) + i /\ i \in (0 + 1)..Len(b)
      BY <1>1
    <3>2. QED
      BY <3>1 DEF Account
  <2>2. QED
    BY <1>1, <2>1 DEF Account
<1>6. Account(done, u, r, 0)
  <2>1. ASSUME NEW k \in 1..Len(done) PROVE done[k] = r[k]
    <3>1. k \in 1..Len(p)
      BY <1>1, <1>a
    <3>2. QED
      BY <1>5, <1>a, <3>1
  <2>2. ASSUME NEW i \in (0 + 1)..Len(u) PROVE u[i] = r[Len(done) - 0 + i]
    <3>1. CASE i = Len(b) + 1
      <4>1. Len(done) - 0 + i = Len(p) + 1
        BY <1>1, <1>a, <3>1
      <4>2. QED
        BY <1>4, <1>5, <3>1, <4>1
    <3>2. CASE i \in 1..Len(b)
      <4>1. Len(done) - 0 + i = Len(done) + i /\ Len(done) + i \in 1..Len(p)
        BY <1>1, <1>a, <3>2
      <4>2. u[i] = b[i] /\ b[i] = p[Len(done) + i]
        BY <1>4, <1>a, <3>2
      <4>3. r[Len(done) + i] = p[Len(done) + i]
        BY <1>5, <4>1
      <4>4. QED
        BY <4>1, <4>2, <4>3
    <3>3. QED
      BY <1>1, <1>4, <3>1, <3>2
  <2>3. 0 <= Len(u) /\ Len(r) = Len(done) + Len(u) - 0
    BY <1>1, <1>4, <1>5, <1>a
  <2>4. QED
    BY <2>1, <2>2, <2>3 DEF Account
<1>7. QED
  BY <1>2, <1>3, <1>6

LEMMA AccountExecute ==
  ASSUME NEW Things, NEW done \in Seq(Things), NEW b \in Seq(Things), NEW p \in Seq(Things),
         NEW n \in 1..Len(b), Account(done, b, p, n - 1)
  PROVE  Account(Append(done, b[n]), b, p, n)
<1>1. Len(done) \in Nat /\ Len(b) \in Nat /\ Len(p) \in Nat /\ b[n] \in Things
  BY LenProperties
<1>2. PICK u \in Seq(Things) : u = Append(done, b[n])
  BY <1>1, AppendProperties
<1>3. Len(u) = Len(done) + 1 /\ u[Len(done) + 1] = b[n] /\ \A i \in 1..Len(done) : u[i] = done[i]
  BY <1>1, <1>2, AppendProperties
<1>4. /\ n \in Nat /\ n <= Len(b) /\ Len(p) = Len(done) + Len(b) - (n - 1)
      /\ \A k \in 1..Len(done) : done[k] = p[k]
      /\ \A i \in n..Len(b) : b[i] = p[Len(done) - (n - 1) + i]
  <2>1. n - 1 + 1 = n /\ n \in Nat /\ n <= Len(b)
    BY <1>1
  <2>2. QED
    BY <2>1 DEF Account
<1>a. b[n] = p[Len(done) + 1]
  <2>1. n \in n..Len(b) /\ Len(done) - (n - 1) + n = Len(done) + 1
    BY <1>1, <1>4
  <2>2. b[n] = p[Len(done) - (n - 1) + n]
    BY <1>4, <2>1
  <2>3. QED
    BY <2>1, <2>2
<1>e. Len(u) = Len(done) + 1 /\ n \in Nat
  BY <1>3, <1>4
<1>5. Account(u, b, p, n)
  <2>1. ASSUME NEW k \in 1..Len(u) PROVE u[k] = p[k]
    <3>1. k = Len(done) + 1 \/ k \in 1..Len(done)
      BY <1>1, <1>3
    <3>2. QED
      BY <1>3, <1>4, <1>a, <3>1
  <2>2. ASSUME NEW i \in (n + 1)..Len(b) PROVE b[i] = p[Len(u) - n + i]
    <3>1. i \in n..Len(b) /\ Len(u) - n + i = Len(done) - (n - 1) + i
      BY <1>1, <1>e
    <3>2. b[i] = p[Len(done) - (n - 1) + i]
      BY <1>4, <3>1
    <3>3. QED
      BY <3>1, <3>2
  <2>3. Len(p) = Len(u) + Len(b) - n
    BY <1>1, <1>3, <1>4
  <2>4. QED
    BY <1>4, <2>1, <2>2, <2>3 DEF Account
<1>6. QED
  BY <1>2, <1>5

LEMMA AccountClear ==
  ASSUME NEW Things, NEW done \in Seq(Things), NEW b \in Seq(Things), NEW p \in Seq(Things),
         Account(done, b, p, Len(b))
  PROVE  Account(done, <<>>, p, 0)
<1>1. Len(done) \in Nat /\ Len(b) \in Nat /\ Len(p) \in Nat
  BY LenProperties
<1>2. PICK e \in Seq(Things) : e = <<>> /\ Len(e) = 0
  BY EmptySeq
<1>3. Account(done, e, p, 0)
  BY <1>1, <1>2 DEF Account
<1>4. QED
  BY <1>2, <1>3

LEMMA AccountPrefix ==
  ASSUME NEW Things, NEW done \in Seq(Things), NEW b \in Seq(Things), NEW p \in Seq(Things), NEW n \in Nat,
         Account(done, b, p, n)
  PROVE  C!IsPrefix(done, p)
<1>1. Len(done) \in Nat /\ Len(b) \in Nat /\ Len(p) \in Nat
  BY LenProperties
<1>2. Len(done) <= Len(p) /\ \A k \in 1..Len(done) : done[k] = p[k]
  BY <1>1 DEF Account
<1>3. PICK u \in Seq(Things) : u = SubSeq(done, 1, Len(done))
  BY <1>1, SubSeqProperties
<1>4. PICK r \in Seq(Things) : r = SubSeq(p, 1, Len(done))
  BY <1>1, <1>2, SubSeqProperties
<1>5. Len(u) = Len(done) /\ \A k \in 1..Len(done) : u[k] = done[k]
  BY <1>1, <1>3, SubSeqProperties
<1>6. Len(r) = Len(done) /\ \A k \in 1..Len(done) : r[k] = p[k]
  BY <1>1, <1>2, <1>4, SubSeqProperties
<1>7. u = r
  BY <1>2, <1>5, <1>6, SeqEqual
<1>8. QED
  BY <1>2, <1>3, <1>4, <1>7 DEF C!IsPrefix

LEMMA AccountAll ==
  ASSUME NEW Things, NEW done \in Seq(Things), NEW b \in Seq(Things), NEW p \in Seq(Things),
         Account(done, b, p, 0)
  PROVE  done \o b = p
<1>1. Len(done) \in Nat /\ Len(b) \in Nat /\ Len(p) \in Nat
  BY LenProperties
<1>2. PICK s \in Seq(Things) : s = done \o b
  BY ConcatProperties
<1>3. /\ Len(s) = Len(done) + Len(b)
      /\ \A i \in 1..Len(s) : s[i] = IF i <= Len(done) THEN done[i] ELSE b[i - Len(done)]
  BY <1>2, ConcatProperties
<1>4. ASSUME NEW i \in 1..Len(s) PROVE s[i] = p[i]
  <2>1. CASE i <= Len(done)
    <3>1. i \in 1..Len(done)
      BY <1>1, <1>3, <2>1
    <3>2. done[i] = p[i]
      BY <3>1 DEF Account
    <3>3. QED
      BY <1>3, <2>1, <3>2
  <2>2. CASE i > Len(done)
    <3>1. i - Len(done) \in 1..Len(b) /\ Len(done) - 0 + (i - Len(done)) = i
      BY <1>1, <1>3, <2>2
    <3>2. b[i - Len(done)] = p[Len(done) - 0 + (i - Len(done))]
      BY <1>1, <3>1 DEF Account
    <3>3. QED
      BY <1>1, <1>3, <2>2, <3>1, <3>2
  <2>3. QED
    BY <1>1, <1>3, <2>1, <2>2
<1>5. Len(s) = Len(p)
  BY <1>1, <1>3 DEF Account
<1>6. QED
  BY <1>2, <1>4, <1>5, SeqEqual

LEMMA CmdInit == C!Init => CmdInv
<1> SUFFICES ASSUME C!Init PROVE CmdInv
  OBVIOUS
<1>1. <<>> \in Seq(Commands) /\ <<>> \in Seq(CmdBuffers) /\ Len(<<>>) = 0
  BY EmptySeq
<1>2. C!Idle /\ at = 0 /\ cmd = 0 /\ list = <<>>
  BY DEF C!Init, C!Idle
<1>3. CmdType
  BY <1>1 DEF C!Init, CmdType
<1>4. ASSUME NEW b \in CmdBuffers PROVE Accounted(b)
  <2>1. buf[b] = <<>> /\ pushed[b] = <<>> /\ applied[b] = <<>>
    BY DEF C!Init
  <2>2. Done(b) = 0
    BY <1>2 DEF Done
  <2>3. Account(<<>>, <<>>, <<>>, 0)
    BY <1>1 DEF Account
  <2>4. QED
    BY <2>1, <2>2, <2>3 DEF Accounted
<1>5. QED
  BY <1>2, <1>3, <1>4 DEF CmdInv, AtSound

LEMMA CmdLengths ==
  ASSUME CmdType
  PROVE  /\ Len(list) \in Nat
         /\ \A b \in CmdBuffers :
              Len(buf[b]) \in Nat /\ Len(pushed[b]) \in Nat /\ Len(applied[b]) \in Nat
BY LenProperties DEF CmdType

LEMMA CmdPush ==
  ASSUME CmdInv, NEW b \in CmdBuffers, NEW c \in Commands, C!Push(b, c)
  PROVE  CmdInv'
<1>1. /\ C!Idle /\ buf' = [buf EXCEPT ![b] = Append(buf[b], c)]
      /\ pushed' = [pushed EXCEPT ![b] = Append(pushed[b], c)]
      /\ UNCHANGED <<list, at, cmd, applied>>
  BY DEF C!Push
<1>2. CmdType /\ at = 0 /\ at' = 0 /\ \A d \in CmdBuffers : Accounted(d)
  BY <1>1 DEF CmdInv, C!Idle
<1>3. buf[b] \in Seq(Commands) /\ pushed[b] \in Seq(Commands)
  BY <1>2 DEF CmdType
<1>4. Append(buf[b], c) \in Seq(Commands) /\ Append(pushed[b], c) \in Seq(Commands)
  BY <1>3, AppendProperties
<1>6. /\ buf'[b] = Append(buf[b], c) /\ pushed'[b] = Append(pushed[b], c) /\ applied' = applied
      /\ \A d \in CmdBuffers : d # b => buf'[d] = buf[d] /\ pushed'[d] = pushed[d]
  BY <1>1, <1>2 DEF CmdType
<1>7. CmdType'
  BY <1>1, <1>2, <1>4 DEF CmdType
<1>8. AtSound'
  BY <1>2 DEF AtSound, C!Idle
<1>9. \A d \in CmdBuffers : Done(d) = 0 /\ Done(d)' = 0
  BY <1>2 DEF Done, C!Idle
<1>10. Accounted(b)'
  <2>1. Account(applied[b], buf[b], pushed[b], 0) /\ applied[b] \in Seq(Commands)
    BY <1>2, <1>9 DEF Accounted, CmdType
  <2>2. Account(applied[b], Append(buf[b], c), Append(pushed[b], c), 0)
    BY <1>3, <2>1, AccountPush
  <2>3. QED
    BY <1>6, <1>9, <2>2 DEF Accounted
<1>11. ASSUME NEW d \in CmdBuffers, d # b PROVE Accounted(d)'
  BY <1>2, <1>6, <1>9, <1>11 DEF Accounted
<1>12. \A d \in CmdBuffers : Accounted(d)'
  BY <1>10, <1>11, Zenon
<1>13. QED
  BY <1>7, <1>8, <1>12, Zenon DEF CmdInv

LEMMA CmdAddBegin ==
  ASSUME CmdInv, C!ApplyBegin \/ (\E b \in CmdBuffers : C!Add(b)) \/ UNCHANGED C!vars
  PROVE  CmdInv'
<1>1. CmdType /\ AtSound /\ \A d \in CmdBuffers : Accounted(d)
  BY DEF CmdInv
<1>2. CASE C!ApplyBegin
  <2>1. at = 0 /\ list # <<>> /\ at' = 1 /\ cmd' = 1 /\ UNCHANGED <<buf, list, pushed, applied>>
    BY <1>2 DEF C!ApplyBegin, C!Idle
  <2>2. Len(list) >= 1 /\ list[1] \in CmdBuffers /\ Len(buf[list[1]]) \in Nat
    BY <1>1, <2>1, EmptySeq, LenProperties DEF CmdType
  <2>3. CmdType' /\ AtSound'
    BY <1>1, <2>1, <2>2 DEF CmdType, AtSound, C!Idle
  <2>4. \A d \in CmdBuffers : Done(d) = 0 /\ Done(d)' = 0
    BY <2>1 DEF Done, C!Idle
  <2>5. \A d \in CmdBuffers : Accounted(d)'
    BY <1>1, <2>1, <2>4 DEF Accounted
  <2>6. QED
    BY <2>3, <2>5 DEF CmdInv
<1>3. ASSUME NEW b \in CmdBuffers, C!Add(b) PROVE CmdInv'
  <2>1. at = 0 /\ at' = 0 /\ list' = Append(list, b) /\ UNCHANGED <<buf, cmd, pushed, applied>>
    BY <1>3 DEF C!Add, C!Idle
  <2>2. list' \in Seq(CmdBuffers)
    BY <1>1, <2>1, AppendProperties DEF CmdType
  <2>3. CmdType' /\ AtSound'
    BY <1>1, <2>1, <2>2 DEF CmdType, AtSound, C!Idle
  <2>4. \A d \in CmdBuffers : Done(d) = 0 /\ Done(d)' = 0
    BY <2>1 DEF Done, C!Idle
  <2>5. \A d \in CmdBuffers : Accounted(d)'
    BY <1>1, <2>1, <2>4 DEF Accounted
  <2>6. QED
    BY <2>3, <2>5 DEF CmdInv
<1>4. CASE UNCHANGED C!vars
  <2>1. UNCHANGED <<buf, list, at, cmd, pushed, applied>>
    BY <1>4 DEF C!vars
  <2>2. CmdType' /\ AtSound' /\ \A d \in CmdBuffers : Done(d)' = Done(d)
    BY <1>1, <2>1 DEF CmdType, AtSound, C!Idle, Done
  <2>3. \A d \in CmdBuffers : Accounted(d)'
    BY <1>1, <2>1, <2>2 DEF Accounted
  <2>4. QED
    BY <2>2, <2>3 DEF CmdInv
<1>5. QED
  BY <1>2, <1>3, <1>4

LEMMA CmdExecute ==
  ASSUME CmdInv, C!Execute
  PROVE  CmdInv'
<1>1. CmdType /\ AtSound /\ \A d \in CmdBuffers : Accounted(d)
  BY DEF CmdInv
<1>a. at \in 1..Len(list) /\ list[at] \in CmdBuffers
  <2>1. at \in 1..Len(list)
    BY <1>1, LenProperties DEF C!Execute, CmdType, AtSound, C!Idle
  <2>2. QED
    BY <1>1, <2>1 DEF CmdType
<1>b. PICK b \in CmdBuffers : b = list[at]
  BY <1>a
<1>2. /\ ~C!Idle /\ cmd <= Len(buf[b])
      /\ applied' = [applied EXCEPT ![b] = Append(applied[b], buf[b][cmd])]
      /\ cmd' = cmd + 1
      /\ UNCHANGED <<buf, list, at, pushed>>
  BY <1>b DEF C!Execute
<1>3. /\ cmd \in 1..Len(buf[b]) /\ Len(buf[b]) \in Nat
      /\ at \in Nat /\ at # 0 /\ cmd \in Nat
  BY <1>1, <1>2, <1>b, LenProperties DEF CmdType, AtSound, C!Idle
<1>c. PICK c \in Commands : c = buf[b][cmd]
  BY <1>1, <1>3 DEF CmdType
<1>4. applied[b] \in Seq(Commands)
  BY <1>1 DEF CmdType
<1>5. Append(applied[b], c) \in Seq(Commands)
  BY <1>4, AppendProperties
<1>6. /\ applied'[b] = Append(applied[b], c)
      /\ \A d \in CmdBuffers : d # b => applied'[d] = applied[d]
  BY <1>1, <1>2, <1>c DEF CmdType
<1>7. CmdType'
  BY <1>1, <1>2, <1>3, <1>5, <1>c DEF CmdType
<1>8. AtSound'
  BY <1>1, <1>2, <1>3, <1>b DEF AtSound, C!Idle
<1>9. /\ Done(b) = cmd - 1 /\ Done(b)' = cmd
      /\ \A d \in CmdBuffers : d # b => Done(d) = 0 /\ Done(d)' = 0
  BY <1>2, <1>3, <1>b DEF Done, C!Idle
<1>10. Accounted(b)'
  <2>1. Account(applied[b], buf[b], pushed[b], cmd - 1)
    BY <1>1, <1>3, <1>9 DEF Accounted
  <2>2. buf[b] \in Seq(Commands) /\ pushed[b] \in Seq(Commands)
    BY <1>1, <1>3 DEF CmdType
  <2>3. Account(Append(applied[b], c), buf[b], pushed[b], cmd)
    BY <1>3, <1>4, <1>c, <2>1, <2>2, AccountExecute
  <2>4. QED
    BY <1>2, <1>6, <1>9, <2>3 DEF Accounted
<1>11. ASSUME NEW d \in CmdBuffers, d # b PROVE Accounted(d)'
  BY <1>1, <1>2, <1>6, <1>9, <1>11 DEF Accounted
<1>12. \A d \in CmdBuffers : Accounted(d)'
  BY <1>10, <1>11, Zenon
<1>13. QED
  BY <1>7, <1>8, <1>12, Zenon DEF CmdInv

LEMMA CmdNextBuffer ==
  ASSUME CmdInv, C!NextBuffer
  PROVE  CmdInv'
<1>1. CmdType /\ AtSound /\ \A d \in CmdBuffers : Accounted(d)
  BY DEF CmdInv
<1>3. /\ at \in 1..Len(list) /\ Len(list) \in Nat /\ list[at] \in CmdBuffers
      /\ \A k \in 1..Len(list) : list[k] \in CmdBuffers
  BY <1>1, LenProperties DEF C!NextBuffer, CmdType, AtSound, C!Idle
<1>b. PICK b \in CmdBuffers : b = list[at]
  BY <1>3
<1>2. /\ ~C!Idle /\ cmd > Len(buf[b]) /\ buf' = [buf EXCEPT ![b] = <<>>]
      /\ at' = (IF at = Len(list) THEN 0 ELSE at + 1)
      /\ cmd' = (IF at = Len(list) THEN 0 ELSE 1)
      /\ UNCHANGED <<list, pushed, applied>>
  BY <1>b DEF C!NextBuffer
<1>4. cmd = Len(buf[b]) + 1 /\ Len(buf[b]) \in Nat
  BY <1>1, <1>2, <1>3, <1>b, CmdLengths DEF CmdType, AtSound
<1>5. /\ buf' \in [CmdBuffers -> Seq(Commands)] /\ buf'[b] = <<>> /\ Len(buf'[b]) = 0
      /\ \A d \in CmdBuffers : d # b => buf'[d] = buf[d]
  BY <1>1, <1>2, <1>3, EmptySeq DEF CmdType
<1>6. CmdType'
  BY <1>1, <1>2, <1>3, <1>5 DEF CmdType
<1>7. \A d \in CmdBuffers : Len(buf'[d]) \in Nat
  BY <1>6, LenProperties DEF CmdType
<1>8. AtSound'
  <2>1. ASSUME NEW k \in 1..(at' - 1) PROVE Len(buf'[list[k]]) = 0
    <3>1. at' = at + 1 /\ k \in 1..at
      BY <1>2, <1>3, <2>1
    <3>2. k \in 1..Len(list) /\ list[k] \in CmdBuffers
      BY <1>3, <3>1
    <3>3. CASE list[k] = b
      BY <1>5, <3>3
    <3>4. CASE list[k] # b
      <4>1. k \in 1..(at - 1)
        BY <1>3, <1>b, <3>1, <3>4
      <4>2. QED
        BY <1>1, <1>5, <3>2, <3>4, <4>1 DEF AtSound
    <3>5. QED
      BY <3>3, <3>4
  <2>2. at' # 0 => at' <= Len(list) /\ cmd' = 1 /\ Len(buf'[list[at']]) \in Nat
    BY <1>2, <1>3, <1>7
  <2>3. list' = list
    BY <1>2
  <2>4. QED
    BY <2>1, <2>2, <2>3 DEF AtSound, C!Idle
<1>9. /\ Done(b) = Len(buf[b]) /\ \A d \in CmdBuffers : Done(d)' = 0 /\ (d # b => Done(d) = 0)
  BY <1>2, <1>4, <1>b DEF Done, C!Idle
<1>10. Accounted(b)'
  <2>1. Account(applied[b], buf[b], pushed[b], Len(buf[b]))
    BY <1>1, <1>3, <1>9 DEF Accounted
  <2>2. applied[b] \in Seq(Commands) /\ buf[b] \in Seq(Commands) /\ pushed[b] \in Seq(Commands)
    BY <1>1, <1>3 DEF CmdType
  <2>3. Account(applied[b], <<>>, pushed[b], 0)
    BY <2>1, <2>2, AccountClear
  <2>4. QED
    BY <1>2, <1>3, <1>5, <1>9, <2>3 DEF Accounted
<1>11. ASSUME NEW d \in CmdBuffers, d # b PROVE Accounted(d)'
  BY <1>1, <1>2, <1>5, <1>9, <1>11 DEF Accounted
<1>12. \A d \in CmdBuffers : Accounted(d)'
  BY <1>10, <1>11, Zenon
<1>13. QED
  BY <1>6, <1>8, <1>12, Zenon DEF CmdInv

LEMMA CmdStep ==
  ASSUME CmdInv, [C!Next]_(C!vars)
  PROVE  CmdInv'
BY CmdPush, CmdAddBegin, CmdExecute, CmdNextBuffer DEF C!Next

LEMMA CmdSafe == CmdInv => C!AppliedOnceInOrder
<1> SUFFICES ASSUME CmdInv PROVE C!AppliedOnceInOrder
  OBVIOUS
<1>1. CmdType /\ AtSound /\ \A d \in CmdBuffers : Accounted(d)
  BY DEF CmdInv
<1>2. ASSUME NEW b \in CmdBuffers
      PROVE  C!IsPrefix(applied[b], pushed[b]) /\ (C!Idle => applied[b] \o buf[b] = pushed[b])
  <2>1. applied[b] \in Seq(Commands) /\ buf[b] \in Seq(Commands) /\ pushed[b] \in Seq(Commands)
    BY <1>1 DEF CmdType
  <2>2. Done(b) \in Nat
    BY <1>1 DEF Done, CmdType, AtSound
  <2>3. Account(applied[b], buf[b], pushed[b], Done(b))
    BY <1>1 DEF Accounted
  <2>4. C!IsPrefix(applied[b], pushed[b])
    BY <2>1, <2>2, <2>3, AccountPrefix
  <2>5. C!Idle => Done(b) = 0
    BY DEF Done
  <2>6. QED
    BY <2>1, <2>3, <2>4, <2>5, AccountAll
<1>4. ASSUME NEW k \in 1..(at - 1) PROVE buf[list[k]] = <<>>
  <2>1. at \in Nat /\ at # 0 /\ at <= Len(list) /\ Len(list) \in Nat
    BY <1>1, <1>4, CmdLengths DEF CmdType, AtSound, C!Idle
  <2>2. k \in 1..Len(list)
    BY <1>4, <2>1
  <2>3. list[k] \in CmdBuffers
    BY <1>1, <2>2 DEF CmdType
  <2>4. buf[list[k]] \in Seq(Commands) /\ Len(buf[list[k]]) = 0
    BY <1>1, <1>4, <2>3 DEF CmdType, AtSound
  <2>5. QED
    BY <2>4, EmptySeq
<1>5. QED
  BY <1>2, <1>4, Zenon DEF C!AppliedOnceInOrder

\* The commands of a buffer are executed in the order of push, none twice and none left
\* out (CommandBuffer::apply_all), for every number of buffers, of commands and of
\* places in the aggregator.
THEOREM CommandsAppliedOnceInOrder == Spec => []AppliedOnceInOrder
<1> DEFINE I == which = "commands" => CmdInv
<1>1. Init => I
  BY CmdInit DEF Init
<1>2. I /\ [Next]_all => I'
  <2> SUFFICES ASSUME I, [Next]_all, which' = "commands" PROVE CmdInv'
    OBVIOUS
  <2>1. CmdInv /\ [C!Next]_commands
    BY OneAtATime
  <2>2. [C!Next]_(C!vars)
    BY <2>1 DEF commands, C!vars
  <2>3. QED
    BY <2>1, <2>2, CmdStep
<1>3. I => AppliedOnceInOrder
  BY CmdSafe DEF AppliedOnceInOrder
<1>4. QED
  BY <1>1, <1>2, <1>3, PTL DEF Spec, all

-----------------------------------------------------------------------------
(* Vectors *)

LEMMA VecConstants == V!VectorAssumption
BY Constants

USE VecConstants DEF V!VectorAssumption
\* Cardinality as VectorStorage knows it.
LEMMA VecCardinality == V!Cardinality(BlockIds) = Cardinality(BlockIds)
BY DEF V!Cardinality, V!IsFiniteSet, Cardinality, IsFiniteSet



\* Elements before this position have been handed out by the iterator.
Handed == IF form = "iterator" THEN idx ELSE 0

VecType ==
  /\ form \in {"vector", "iterator", "gone"}
  /\ items \in Seq(Elements) /\ cap \in Nat /\ idx \in Nat
  /\ blk \in BlockIds \cup {V!NoBlock}
  /\ owner \in [Elements -> {"caller", "inside", "dropped"}]

\* The block is there when there is room for an element, and is the only one.
OneBlock ==
  /\ vlive = {blk} \ {V!NoBlock}
  /\ form # "gone" => Len(items) <= cap /\ (blk = V!NoBlock => cap = 0)
  /\ form = "gone" => items = <<>>
  /\ form = "iterator" => idx <= Len(items)

NoneTwice == \A i, j \in 1..Len(items) : items[i] = items[j] => i = j

OwnedInside ==
  \A e \in Elements : owner[e] = "inside" <=> \E i \in (Handed + 1)..Len(items) : items[i] = e

VecInv == VecType /\ OneBlock /\ NoneTwice /\ OwnedInside

-----------------------------------------------------------------------------

LEMMA VecInit == V!Init => VecInv
<1> SUFFICES ASSUME V!Init PROVE VecInv
  OBVIOUS
<1>1. BlockIds # {}
  BY VecCardinality, FS_EmptySet
<1>2. (CHOOSE b \in BlockIds : TRUE) \in BlockIds
  BY <1>1
<1>3. items = <<>> /\ Len(items) = 0 /\ items \in Seq(Elements) /\ Handed = 0 /\ cap \in Nat
  BY EmptySeq DEF V!Init, Handed
<1>4. QED
  BY <1>2, <1>3 DEF V!Init, VecInv, VecType, OneBlock, NoneTwice, OwnedInside

\* What happens to owners when none of S has been dropped before.
LEMMA Moved ==
  ASSUME VecType, NEW B \in SUBSET Elements, NEW to \in {"caller", "inside", "dropped"},
         \A e \in B : owner[e] # "dropped", V!Move(B, to)
  PROVE  /\ owner' \in [Elements -> {"caller", "inside", "dropped"}]
         /\ \A e \in Elements : owner'[e] = IF e \in B THEN to ELSE owner[e]
BY DEF VecType, V!Move

LEMMA VecPush ==
  ASSUME VecInv, NEW e \in Elements, V!Push(e)
  PROVE  VecInv'
<1> DEFINE n == Len(items)
<1>1. /\ form = "vector" /\ owner[e] = "caller" /\ items' = Append(items, e)
      /\ V!Move({e}, "inside") /\ form' = form /\ idx' = idx
      /\ \/ n < cap /\ cap' = cap /\ blk' = blk /\ vlive' = vlive
         \/ n = cap /\ \E b \in BlockIds : V!Grow(b)
  BY DEF V!Push
<1>t. /\ VecType /\ items \in Seq(Elements) /\ n \in Nat /\ cap \in Nat /\ n <= cap
      /\ vlive = {blk} \ {V!NoBlock} /\ (blk = V!NoBlock => cap = 0) /\ idx \in Nat
      /\ NoneTwice /\ OwnedInside
  BY <1>1, LenProperties DEF VecInv, VecType, OneBlock
<1>2. /\ items' \in Seq(Elements) /\ Len(items') = n + 1 /\ items'[n + 1] = e
      /\ \A i \in 1..n : items'[i] = items[i]
  BY <1>1, <1>t, AppendProperties
<1>3. /\ owner' \in [Elements -> {"caller", "inside", "dropped"}]
      /\ \A x \in Elements : owner'[x] = IF x = e THEN "inside" ELSE owner[x]
  BY <1>1, <1>t, Moved
<1>4. cap' \in Nat /\ n + 1 <= cap' /\ vlive' = {blk'} \ {V!NoBlock} /\ blk' \in BlockIds
  BY <1>1, <1>t DEF V!Grow, VecType
<1>5. \A i \in 1..n : items[i] # e
  BY <1>1, <1>t DEF OwnedInside, Handed
<1>6. Handed = 0 /\ Handed' = 0
  BY <1>1 DEF Handed
<1>7. VecType' /\ OneBlock'
  BY <1>1, <1>2, <1>3, <1>4, <1>t DEF VecType, OneBlock
<1> HIDE DEF n
<1>8. \A i \in 1..n+1 : i \in 1..n \/ i = n + 1
  BY <1>t
<1>9. NoneTwice'
  BY <1>t, <1>2, <1>5, <1>8 DEF NoneTwice, n
<1>10. OwnedInside'
  <2>1. ASSUME NEW x \in Elements
        PROVE  owner'[x] = "inside" <=> \E i \in 1..n+1 : items'[i] = x
    <3>1. owner[x] = "inside" <=> \E i \in 1..n : items[i] = x
      BY <1>t, <1>6 DEF OwnedInside, n
    <3>2. n + 1 \in 1..n+1 /\ \A i \in 1..n : i \in 1..n+1
      BY <1>t
    <3>3. CASE x = e
      BY <1>2, <1>3, <3>2, <3>3
    <3>4. CASE x # e
      BY <1>2, <1>3, <1>8, <3>1, <3>2, <3>4
    <3>5. QED
      BY <3>3, <3>4
  <2>2. (Handed' + 1)..Len(items') = 1..n+1
    BY <1>2, <1>6
  <2>3. QED
    BY <2>1, <2>2, Zenon DEF OwnedInside
<1>11. QED
  BY <1>7, <1>9, <1>10 DEF VecInv

LEMMA VecPushFails ==
  ASSUME VecInv, NEW e \in Elements, V!PushFails(e)
  PROVE  VecInv'
<1>1. /\ form = "vector" /\ owner[e] = "caller" /\ V!Move({e}, "dropped")
      /\ UNCHANGED <<form, items, cap, blk, idx, vlive>>
  BY DEF V!PushFails
<1>2. /\ owner' \in [Elements -> {"caller", "inside", "dropped"}]
      /\ \A x \in Elements : owner'[x] = IF x = e THEN "dropped" ELSE owner[x]
  BY <1>1, Moved DEF VecInv
<1>3. QED
  BY <1>1, <1>2 DEF VecInv, VecType, OneBlock, NoneTwice, OwnedInside, Handed

LEMMA Part ==
  ASSUME NEW B, NEW s \in Seq(B), NEW k \in 0..Len(s), NEW m \in 0..Len(s), k <= m
  PROVE  /\ SubSeq(s, k + 1, m) \in Seq(B)
         /\ Len(SubSeq(s, k + 1, m)) = m - k
         /\ DOMAIN SubSeq(s, k + 1, m) = 1..(m - k)
         /\ \A i \in 1..(m - k) : SubSeq(s, k + 1, m)[i] = s[k + i]
<1> DEFINE a == k + 1
<1>1. /\ a \in Int /\ m \in Int /\ \A i \in a..m : s[i] \in B
  BY LenProperties, ElementOfSeq
<1>3. (IF a <= m THEN m - a + 1 ELSE 0) = m - k /\ m - a + 1 = m - k
  BY LenProperties
<1>5. \A i \in 1..(m - k) : a + i - 1 = k + i
  BY LenProperties
<1> HIDE DEF a
<1>2. /\ SubSeq(s, a, m) \in Seq(B)
      /\ Len(SubSeq(s, a, m)) = IF a <= m THEN m - a + 1 ELSE 0
      /\ \A i \in 1..(m - a + 1) : SubSeq(s, a, m)[i] = s[a + i - 1]
  BY <1>1, SubSeqProperties
<1>4. DOMAIN SubSeq(s, a, m) = 1..(m - k)
  BY <1>2, <1>3, LenProperties
<1>6. QED
  BY <1>2, <1>3, <1>4, <1>5 DEF a

LEMMA ShorterSeq ==
  ASSUME NEW B, NEW s \in Seq(B), s # <<>>
  PROVE  /\ Len(s) \in Nat \ {0} /\ s[Len(s)] \in B
         /\ V!WithoutLast(s) \in Seq(B) /\ Len(V!WithoutLast(s)) = Len(s) - 1
         /\ \A i \in 1..(Len(s) - 1) : V!WithoutLast(s)[i] = s[i]
<1>1. Len(s) \in Nat \ {0} /\ \A i \in 1..Len(s) : s[i] \in B
  BY EmptySeq, LenProperties, ElementOfSeq
<1>2. 0 \in 0..Len(s) /\ Len(s) - 1 \in 0..Len(s) /\ 0 <= Len(s) - 1
  BY <1>1
<1> DEFINE m == Len(s) - 1
<1>3. m - 0 = m /\ 0 + 1 = 1 /\ \A i \in 1..m : 0 + i = i
  BY <1>1
<1> HIDE DEF m
<1>4. SubSeq(s, 1, m) \in Seq(B) /\ Len(SubSeq(s, 1, m)) = m /\ \A i \in 1..m : SubSeq(s, 1, m)[i] = s[i]
  BY <1>2, <1>3, Part DEF m
<1>5. QED
  BY <1>1, <1>4 DEF V!WithoutLast, m

LEMMA VecPop ==
  ASSUME VecInv, V!Pop
  PROVE  VecInv'
<1> DEFINE n == Len(items)
           e == items[Len(items)]
<1>1. /\ form = "vector" /\ items # <<>> /\ items' = V!WithoutLast(items) /\ V!Move({e}, "caller")
      /\ UNCHANGED <<form, cap, blk, idx, vlive>>
  BY DEF V!Pop
<1>t. /\ VecType /\ items \in Seq(Elements) /\ cap \in Nat /\ n <= cap
      /\ NoneTwice /\ OwnedInside /\ OneBlock
  BY <1>1 DEF VecInv, VecType, OneBlock
<1>2. /\ n \in Nat \ {0} /\ e = items[n] /\ e \in Elements
      /\ items' \in Seq(Elements) /\ Len(items') = n - 1
      /\ \A i \in 1..(n - 1) : items'[i] = items[i]
  BY <1>1, <1>t, ShorterSeq
<1>6. Handed = 0 /\ Handed' = 0
  BY <1>1 DEF Handed
<1>3. owner[e] = "inside"
  BY <1>t, <1>2, <1>6 DEF OwnedInside
<1>4. /\ owner' \in [Elements -> {"caller", "inside", "dropped"}]
      /\ \A x \in Elements : owner'[x] = IF x = e THEN "caller" ELSE owner[x]
  BY <1>1, <1>2, <1>3, <1>t, Moved
<1>7. VecType' /\ OneBlock'
  BY <1>1, <1>2, <1>4, <1>t DEF VecType, OneBlock
<1> HIDE DEF n, e
<1>8. \A i \in 1..n : i \in 1..(n - 1) \/ i = n
  BY <1>2
<1>12. \A i \in 1..(n - 1) : i \in 1..n /\ i # n
  BY <1>2
<1>9. NoneTwice'
  BY <1>t, <1>2, <1>12 DEF NoneTwice, n
<1>10. OwnedInside'
  <2>1. ASSUME NEW x \in Elements
        PROVE  owner'[x] = "inside" <=> \E i \in 1..(n - 1) : items'[i] = x
    <3>1. owner[x] = "inside" <=> \E i \in 1..n : items[i] = x
      BY <1>t, <1>6 DEF OwnedInside, n
    <3>2. \A i \in 1..(n - 1) : items[i] # e
      BY <1>t, <1>2, <1>12 DEF NoneTwice, n
    <3>3. CASE x = e
      BY <1>2, <1>4, <3>2, <3>3
    <3>4. CASE x # e
      BY <1>2, <1>4, <1>8, <1>12, <3>1, <3>4
    <3>5. QED
      BY <3>3, <3>4
  <2>2. (Handed' + 1)..Len(items') = 1..(n - 1)
    BY <1>2, <1>6
  <2>3. QED
    BY <2>1, <2>2, Zenon DEF OwnedInside
<1>11. QED
  BY <1>7, <1>9, <1>10 DEF VecInv

LEMMA VecSwapRemove ==
  ASSUME VecInv, NEW k \in DOMAIN items, V!SwapRemove(k)
  PROVE  VecInv'
<1> DEFINE n == Len(items)
           e == items[k]
           s == [items EXCEPT ![k] = items[Len(items)]]
<1>1. /\ form = "vector" /\ items' = V!WithoutLast(s) /\ V!Move({e}, "caller")
      /\ UNCHANGED <<form, cap, blk, idx, vlive>>
  BY DEF V!SwapRemove
<1>t. /\ VecType /\ items \in Seq(Elements) /\ cap \in Nat /\ n <= cap
      /\ NoneTwice /\ OwnedInside /\ OneBlock
  BY <1>1 DEF VecInv, VecType, OneBlock
<1>2. /\ n \in Nat \ {0} /\ k \in 1..n /\ items[n] \in Elements
      /\ e \in Elements
  <2>1. k \in 1..n /\ n \in Nat
    BY <1>t, LenProperties
  <2>2. items # <<>>
    BY <2>1, EmptySeq
  <2>3. QED
    BY <1>t, <2>1, <2>2, ShorterSeq, ElementOfSeq
<1>5. /\ s \in Seq(Elements) /\ Len(s) = n /\ s # <<>>
      /\ \A i \in 1..n : s[i] = IF i = k THEN items[n] ELSE items[i]
  <2>1. s \in Seq(Elements) /\ Len(s) = n /\ \A i \in 1..n : s[i] = IF i = k THEN items[n] ELSE items[i]
    BY <1>2, <1>t, ExceptSeq
  <2>2. QED
    BY <1>2, <2>1, EmptySeq
<1>13. /\ items' \in Seq(Elements) /\ Len(items') = n - 1
       /\ \A i \in 1..(n - 1) : items'[i] = s[i]
  BY <1>1, <1>5, ShorterSeq
<1>6. Handed = 0 /\ Handed' = 0
  BY <1>1 DEF Handed
<1>3. owner[e] = "inside"
  BY <1>t, <1>2, <1>6 DEF OwnedInside
<1>4. /\ owner' \in [Elements -> {"caller", "inside", "dropped"}]
      /\ \A x \in Elements : owner'[x] = IF x = e THEN "caller" ELSE owner[x]
  BY <1>1, <1>2, <1>3, <1>t, Moved
<1>7. VecType' /\ OneBlock'
  BY <1>1, <1>2, <1>4, <1>13, <1>t DEF VecType, OneBlock
<1> HIDE DEF n, e, s
<1>12. \A i \in 1..(n - 1) : i \in 1..n /\ i # n
  BY <1>2
<1>14. \A i \in 1..(n - 1) : items'[i] = IF i = k THEN items[n] ELSE items[i]
  BY <1>5, <1>12, <1>13
<1>15. n \in 1..n
  BY <1>2
<1>16. \A i, j \in 1..n : items[i] = items[j] => i = j
  BY <1>t DEF NoneTwice, n
<1>9. NoneTwice'
  <2>1. ASSUME NEW i \in 1..(n - 1), NEW j \in 1..(n - 1), items'[i] = items'[j]
        PROVE  i = j
    BY <1>12, <1>14, <1>15, <1>16, <2>1
  <2>2. QED
    BY <1>13, <2>1 DEF NoneTwice
<1>10. OwnedInside'
  <2>1. ASSUME NEW x \in Elements
        PROVE  owner'[x] = "inside" <=> \E i \in 1..(n - 1) : items'[i] = x
    <3>1. owner[x] = "inside" <=> \E i \in 1..n : items[i] = x
      BY <1>t, <1>6 DEF OwnedInside, n
    <3>2. CASE x = e
      <4>1. \A i \in 1..(n - 1) : items'[i] # e
        BY <1>2, <1>12, <1>14, <1>15, <1>16 DEF e
      <4>2. QED
        BY <1>4, <3>2, <4>1
    <3>3. CASE x # e
      <4>1. ASSUME NEW i \in 1..n, items[i] = x PROVE \E j \in 1..(n - 1) : items'[j] = x
        <5>1. i # k
          BY <3>3, <4>1 DEF e
        <5>2. CASE i = n
          <6>1. k \in 1..(n - 1) /\ items'[k] = x
            BY <1>2, <1>14, <4>1, <5>1, <5>2
          <6>2. QED
            BY <6>1
        <5>3. CASE i # n
          <6>1. i \in 1..(n - 1) /\ items'[i] = x
            BY <1>2, <1>14, <4>1, <5>1, <5>3
          <6>2. QED
            BY <6>1
        <5>4. QED
          BY <5>2, <5>3
      <4>2. ASSUME NEW j \in 1..(n - 1), items'[j] = x PROVE \E i \in 1..n : items[i] = x
        BY <1>12, <1>14, <1>15, <4>2
      <4>3. QED
        BY <1>4, <3>1, <3>3, <4>1, <4>2
    <3>4. QED
      BY <3>2, <3>3
  <2>2. (Handed' + 1)..Len(items') = 1..(n - 1)
    BY <1>13, <1>6
  <2>3. QED
    BY <2>1, <2>2, Zenon DEF OwnedInside
<1>11. QED
  BY <1>7, <1>9, <1>10 DEF VecInv

\* The vector or its iterator is dropped with the elements that are inside.
LEMMA VecDropped ==
  ASSUME VecInv, NEW B \in SUBSET Elements, \A e \in B : owner[e] = "inside",
         \A e \in Elements : owner[e] = "inside" => e \in B,
         form' = "gone", items' = <<>>, blk' = V!NoBlock, vlive' = vlive \ {blk}, V!Move(B, "dropped"),
         cap' = cap, idx' = idx
  PROVE  VecInv'
<1>1. /\ owner' \in [Elements -> {"caller", "inside", "dropped"}]
      /\ \A x \in Elements : owner'[x] = IF x \in B THEN "dropped" ELSE owner[x]
  BY Moved DEF VecInv
<1>2. items' \in Seq(Elements) /\ Len(items') = 0
  BY EmptySeq
<1>3. vlive' = {blk'} \ {V!NoBlock}
  BY DEF VecInv, OneBlock
<1>4. VecType' /\ OneBlock'
  BY <1>1, <1>2, <1>3 DEF VecInv, VecType, OneBlock
<1>5. NoneTwice'
  BY <1>2 DEF NoneTwice
<1>6. OwnedInside'
  <2>1. \A x \in Elements : owner'[x] # "inside"
    BY <1>1
  <2>2. Handed' = 0
    BY DEF Handed
  <2>3. QED
    BY <1>2, <2>1, <2>2 DEF OwnedInside
<1>7. QED
  BY <1>4, <1>5, <1>6 DEF VecInv

LEMMA VecDropVector ==
  ASSUME VecInv, V!DropVector
  PROVE  VecInv'
<1> DEFINE B == IF blk = V!NoBlock THEN {} ELSE V!Range(items)
<1>1. DOMAIN items = 1..Len(items) /\ Len(items) \in Nat /\ items \in Seq(Elements)
  BY LenProperties DEF VecInv, VecType
<1>2. form = "vector" /\ Handed = 0 /\ OwnedInside
  BY DEF V!DropVector, Handed, VecInv
<1>3. blk = V!NoBlock => Len(items) = 0
  BY <1>1, <1>2 DEF VecInv, OneBlock, VecType
<1>4. \A e \in Elements : owner[e] = "inside" <=> e \in V!Range(items)
  BY <1>1, <1>2 DEF OwnedInside, V!Range
<1>5. V!Range(items) \subseteq Elements
  BY <1>1, ElementOfSeq DEF V!Range
<1>6. blk = V!NoBlock => V!Range(items) = {}
  BY <1>1, <1>3 DEF V!Range
<1>7. B \in SUBSET Elements /\ \A e \in Elements : owner[e] = "inside" <=> e \in B
  BY <1>4, <1>5, <1>6
<1>8. /\ form' = "gone" /\ items' = <<>> /\ blk' = V!NoBlock /\ vlive' = vlive \ {blk}
      /\ V!Move(B, "dropped") /\ cap' = cap /\ idx' = idx
  BY DEF V!DropVector
<1> HIDE DEF B
<1>9. QED
  BY <1>7, <1>8, VecDropped

LEMMA VecIntoIterator ==
  ASSUME VecInv, V!IntoIterator
  PROVE  VecInv'
<1>1. /\ form = "vector" /\ form' = "iterator" /\ idx' = 0
      /\ UNCHANGED <<items, cap, blk, owner, vlive>>
  BY DEF V!IntoIterator
<1>2. Handed = 0 /\ Handed' = 0
  BY <1>1 DEF Handed
<1>3. Len(items) \in Nat
  BY LenProperties DEF VecInv, VecType
<1>4. VecType' /\ OneBlock' /\ NoneTwice'
  BY <1>1, <1>3 DEF VecInv, VecType, OneBlock, NoneTwice
<1>5. OwnedInside'
  BY <1>1, <1>2 DEF VecInv, OwnedInside
<1>6. QED
  BY <1>4, <1>5 DEF VecInv

LEMMA VecIteratorNext ==
  ASSUME VecInv, V!IteratorNext
  PROVE  VecInv'
<1> DEFINE n == Len(items)
           e == items[idx + 1]
<1>1. /\ form = "iterator" /\ idx < n /\ idx' = idx + 1 /\ V!Move({e}, "caller")
      /\ UNCHANGED <<form, items, cap, blk, vlive>>
  BY DEF V!IteratorNext
<1>t. /\ VecType /\ items \in Seq(Elements) /\ n \in Nat /\ idx \in Nat
      /\ NoneTwice /\ OwnedInside /\ OneBlock
  BY LenProperties DEF VecInv, VecType
<1>2. idx + 1 \in 1..n /\ e \in Elements
  BY <1>1, <1>t, ElementOfSeq
<1>6. Handed = idx /\ Handed' = idx + 1
  BY <1>1 DEF Handed
<1>3. owner[e] = "inside"
  BY <1>t, <1>2, <1>6 DEF OwnedInside
<1>4. /\ owner' \in [Elements -> {"caller", "inside", "dropped"}]
      /\ \A x \in Elements : owner'[x] = IF x = e THEN "caller" ELSE owner[x]
  BY <1>2, <1>1, <1>3, <1>t, Moved
<1>7. VecType' /\ OneBlock'
  BY <1>1, <1>2, <1>4, <1>t DEF VecType, OneBlock
<1>9. NoneTwice'
  BY <1>t, <1>1 DEF NoneTwice
<1> HIDE DEF n, e
<1>8. \A i \in (idx + 1)..n : i \in 1..n /\ (i = idx + 1 \/ i \in (idx + 2)..n)
  BY <1>t
<1>12. \A i \in (idx + 2)..n : i \in (idx + 1)..n /\ i # idx + 1
  BY <1>t
<1>10. OwnedInside'
  <2>1. ASSUME NEW x \in Elements
        PROVE  owner'[x] = "inside" <=> \E i \in (idx + 2)..n : items[i] = x
    <3>1. owner[x] = "inside" <=> \E i \in (idx + 1)..n : items[i] = x
      BY <1>t, <1>6 DEF OwnedInside, n
    <3>2. \A i \in (idx + 2)..n : items[i] # e
      BY <1>t, <1>2, <1>8, <1>12 DEF NoneTwice, n, e
    <3>3. CASE x = e
      BY <1>4, <3>2, <3>3
    <3>4. CASE x # e
      BY <1>4, <1>8, <1>12, <3>1, <3>4 DEF e
    <3>5. QED
      BY <3>3, <3>4
  <2>2. (Handed' + 1)..Len(items') = (idx + 2)..n /\ items' = items
    BY <1>1, <1>t, <1>6 DEF n
  <2>3. QED
    BY <2>1, <2>2, Zenon DEF OwnedInside
<1>11. QED
  BY <1>7, <1>9, <1>10 DEF VecInv

\* The elements that the iterator still has.
LEMMA Remaining ==
  ASSUME VecInv, form = "iterator"
  PROVE  /\ V!Range(SubSeq(items, idx + 1, Len(items))) = {e \in Elements : owner[e] = "inside"}
         /\ V!IsInjective(SubSeq(items, idx + 1, Len(items)))
<1> DEFINE n == Len(items)
           s == SubSeq(items, idx + 1, n)
<1>t. /\ items \in Seq(Elements) /\ n \in Nat /\ idx \in Nat /\ idx <= n
      /\ NoneTwice /\ OwnedInside /\ Handed = idx
  BY LenProperties DEF VecInv, VecType, OneBlock, Handed
<1>1. DOMAIN s = 1..(n - idx) /\ \A i \in 1..(n - idx) : s[i] = items[idx + i]
  <2>1. idx \in 0..Len(items)
    BY <1>t
  <2>2. QED
    BY <1>t, <2>1, Part
<1>2. /\ \A i \in 1..(n - idx) : idx + i \in 1..n /\ idx + i \in (idx + 1)..n
      /\ \A i \in (idx + 1)..n : i - idx \in 1..(n - idx) /\ idx + (i - idx) = i
  BY <1>t
<1>3. V!IsInjective(s)
  <2>1. ASSUME NEW i \in 1..(n - idx), NEW j \in 1..(n - idx), items[idx + i] = items[idx + j]
        PROVE  i = j
    <3>1. idx + i = idx + j
      BY <1>2, <1>t, <2>1 DEF NoneTwice
    <3>2. QED
      BY <1>t, <3>1
  <2> HIDE DEF s, n
  <2>2. QED
    BY <1>1, <2>1 DEF V!IsInjective
<1>4. \A e \in Elements : owner[e] = "inside" <=> \E i \in (idx + 1)..n : items[i] = e
  BY <1>t DEF OwnedInside
<1>5. V!Range(s) = {s[i] : i \in 1..(n - idx)}
  BY <1>1 DEF V!Range
<1>6. \A i \in 1..n : items[i] \in Elements
  BY <1>t, ElementOfSeq
<1> HIDE DEF s, n
<1>7. ASSUME NEW e PROVE e \in V!Range(s) <=> e \in {x \in Elements : owner[x] = "inside"}
  <2>1. ASSUME NEW i \in 1..(n - idx), e = s[i] PROVE e \in Elements /\ owner[e] = "inside"
    BY <1>1, <1>2, <1>4, <1>6, <2>1
  <2>2. ASSUME e \in Elements, NEW i \in (idx + 1)..n, items[i] = e
        PROVE  \E j \in 1..(n - idx) : e = s[j]
    <3>1. i - idx \in 1..(n - idx) /\ s[i - idx] = e
      BY <1>1, <1>2, <2>2
    <3>2. QED
      BY <3>1
  <2>3. QED
    BY <1>4, <1>5, <2>1, <2>2
<1>8. V!Range(s) = {x \in Elements : owner[x] = "inside"}
  BY <1>7
<1>9. QED
  BY <1>3, <1>8 DEF s, n

LEMMA VecDropIterator ==
  ASSUME VecInv, V!DropIterator
  PROVE  VecInv'
<1> DEFINE B == V!Range(SubSeq(items, idx + 1, Len(items)))
<1>1. /\ form = "iterator"
      /\ form' = "gone" /\ items' = <<>> /\ blk' = V!NoBlock /\ vlive' = vlive \ {blk}
      /\ V!Move(B, "dropped") /\ cap' = cap /\ idx' = idx
  BY DEF V!DropIterator
<1>2. B = {e \in Elements : owner[e] = "inside"}
  BY <1>1, Remaining
<1> HIDE DEF B
<1>3. B \in SUBSET Elements /\ \A e \in Elements : owner[e] = "inside" <=> e \in B
  BY <1>2
<1>4. QED
  BY <1>1, <1>3, VecDropped

LEMMA VecStep ==
  ASSUME VecInv, [V!Next]_(V!vars)
  PROVE  VecInv'
<1>1. CASE UNCHANGED V!vars
  BY <1>1 DEF V!vars, VecInv, VecType, OneBlock, NoneTwice, OwnedInside, Handed
<1>2. QED
  BY <1>1, VecPush, VecPushFails, VecPop, VecSwapRemove, VecDropVector, VecIntoIterator,
     VecIteratorNext, VecDropIterator DEF V!Next

LEMMA VecSafe == VecInv => V!OwnedOnce
<1> SUFFICES ASSUME VecInv PROVE V!OwnedOnce
  OBVIOUS
<1>1. /\ \A e \in Elements : owner[e] # "twice"
      /\ vlive = {blk} \ {V!NoBlock}
      /\ form # "gone" => Len(items) <= cap
  BY DEF VecInv, VecType, OneBlock
<1>2. CASE form = "iterator"
  BY <1>1, <1>2, Remaining DEF V!OwnedOnce, V!Inside
<1>3. CASE form # "iterator"
  <2>1. /\ DOMAIN items = 1..Len(items) /\ Handed = 0 /\ Len(items) \in Nat /\ NoneTwice /\ OwnedInside
        /\ \A i \in 1..Len(items) : items[i] \in Elements
    BY <1>3, LenProperties, ElementOfSeq DEF VecInv, VecType, Handed
  <2>2. V!IsInjective(items)
    BY <2>1 DEF NoneTwice, V!IsInjective
  <2>3. V!Range(items) = {e \in Elements : owner[e] = "inside"}
    BY <2>1 DEF OwnedInside, V!Range
  <2>4. QED
    BY <1>1, <1>3, <2>2, <2>3 DEF V!OwnedOnce, V!Inside
<1>4. QED
  BY <1>2, <1>3

HIDE VecConstants DEF V!VectorAssumption

-----------------------------------------------------------------------------
(* Strings *)

LEMMA StrConstants == S!StringAssumption
BY Constants

USE StrConstants DEF S!StringAssumption



Byte == {"?"} \cup UNION {S!Range(s) : s \in Pieces}

StrType ==
  /\ repr \in {"inline", "heap"} /\ bytes \in Seq(Byte) /\ text \in Seq(Byte) /\ slen \in Nat

\* The memory starts with the text, and is the buffer or the only block.
TextFirst ==
  /\ slen = Len(text) /\ slen <= Len(bytes)
  /\ \A i \in 1..slen : bytes[i] = text[i]
  /\ repr = "inline" => Len(bytes) = SsoCap
  /\ blocks = IF repr = "heap" THEN 1 ELSE 0

StrInv == StrType /\ TextFirst

-----------------------------------------------------------------------------

LEMMA GarbageType ==
  ASSUME NEW n \in Nat
  PROVE  S!Garbage(n) \in Seq(Byte) /\ Len(S!Garbage(n)) = n
<1>1. \A i \in 1..n : "?" \in Byte
  BY DEF Byte
<1>2. [i \in 1..n |-> "?"] \in Seq(Byte)
  BY <1>1, IsASeq
<1>3. DOMAIN [i \in 1..n |-> "?"] = 1..n
  OBVIOUS
<1>4. QED
  BY <1>2, <1>3, LenProperties DEF S!Garbage

LEMMA CopyType ==
  ASSUME NEW m \in Seq(Byte), NEW s \in Seq(Byte), NEW at0 \in Nat
  PROVE  /\ S!Copy(m, at0, s) \in Seq(Byte) /\ Len(S!Copy(m, at0, s)) = Len(m)
         /\ \A i \in 1..Len(m) : i <= at0 => S!Copy(m, at0, s)[i] = m[i]
         /\ \A i \in 1..Len(m) : i > at0 /\ i <= at0 + Len(s) => S!Copy(m, at0, s)[i] = s[i - at0]
<1> DEFINE V0(i) == IF i \in (at0 + 1)..(at0 + Len(s)) THEN s[i - at0] ELSE m[i]
<1>1. DOMAIN m = 1..Len(m) /\ Len(m) \in Nat /\ Len(s) \in Nat
  BY LenProperties
<1>2. \A i \in 1..Len(m) : V0(i) \in Byte
  <2>1. \A i \in 1..Len(m) : m[i] \in Byte
    BY ElementOfSeq
  <2>2. \A j \in 1..Len(s) : s[j] \in Byte
    BY ElementOfSeq
  <2>3. \A i \in 1..Len(m) : i \in (at0 + 1)..(at0 + Len(s)) => i - at0 \in 1..Len(s)
    BY <1>1
  <2>4. QED
    BY <2>1, <2>2, <2>3
<1>3. S!Copy(m, at0, s) = [i \in 1..Len(m) |-> V0(i)]
  BY <1>1 DEF S!Copy
<1>4. \A i \in 1..Len(m) : S!Copy(m, at0, s)[i] = V0(i)
  BY <1>3
<1>5. /\ \A i \in 1..Len(m) : i <= at0 => V0(i) = m[i]
      /\ \A i \in 1..Len(m) : i > at0 /\ i <= at0 + Len(s) => V0(i) = s[i - at0]
  BY <1>1
<1> HIDE DEF V0
<1>6. S!Copy(m, at0, s) \in Seq(Byte)
  BY <1>1, <1>2, <1>3, IsASeq
<1>7. Len(S!Copy(m, at0, s)) = Len(m)
  <2>1. DOMAIN S!Copy(m, at0, s) = 1..Len(m)
    BY <1>3
  <2>2. DOMAIN S!Copy(m, at0, s) = 1..Len(S!Copy(m, at0, s)) /\ Len(S!Copy(m, at0, s)) \in Nat
    BY <1>6, LenProperties
  <2>3. QED
    BY <1>1, <2>1, <2>2
<1>8. QED
  BY <1>4, <1>5, <1>6, <1>7

LEMMA StrInit == S!Init => StrInv
<1> SUFFICES ASSUME S!Init PROVE StrInv
  OBVIOUS
<1>1. text \in Seq(Byte) /\ Len(text) = 0 /\ text = <<>>
  BY EmptySeq DEF S!Init
<1>2. bytes \in Seq(Byte) /\ (repr = "inline" => Len(bytes) = SsoCap) /\ Len(bytes) \in Nat
  BY GarbageType DEF S!Init
<1>3. QED
  BY <1>1, <1>2 DEF S!Init, StrInv, StrType, TextFirst

LEMMA PieceType ==
  ASSUME NEW s \in Pieces
  PROVE  s \in Seq(Byte) /\ Len(s) \in Nat
<1>1. s \in Seq(S!Range(s)) /\ S!Range(s) \subseteq Byte
  BY DEF Byte
<1>2. s \in Seq(Byte)
  BY <1>1, SeqMonotonic
<1>3. QED
  BY <1>2, LenProperties

\* Memory that starts with the text, once s is copied behind it.
LEMMA Written ==
  ASSUME StrInv, NEW s \in Seq(Byte), NEW m \in Seq(Byte), slen + Len(s) <= Len(m),
         \A i \in 1..slen : m[i] = text[i],
         bytes' = S!Copy(m, slen, s), slen' = slen + Len(s), text' = text \o s
  PROVE  /\ bytes' \in Seq(Byte) /\ text' \in Seq(Byte) /\ slen' \in Nat
         /\ Len(bytes') = Len(m) /\ slen' = Len(text') /\ slen' <= Len(bytes')
         /\ \A i \in 1..slen' : bytes'[i] = text'[i]
<1>1. /\ Len(s) \in Nat /\ Len(m) \in Nat /\ slen \in Nat /\ text \in Seq(Byte) /\ slen = Len(text)
  BY LenProperties DEF StrInv, StrType, TextFirst
<1>2. /\ text' \in Seq(Byte) /\ Len(text') = slen + Len(s)
      /\ \A i \in 1..slen : text'[i] = text[i]
      /\ \A i \in (slen + 1)..(slen + Len(s)) : text'[i] = s[i - slen]
  <2>1. /\ text \o s \in Seq(Byte) /\ Len(text \o s) = Len(text) + Len(s)
        /\ \A i \in 1..Len(text) + Len(s) :
             (text \o s)[i] = IF i <= Len(text) THEN text[i] ELSE s[i - Len(text)]
    BY <1>1, ConcatProperties
  <2>2. QED
    BY <1>1, <2>1
<1>3. /\ bytes' \in Seq(Byte) /\ Len(bytes') = Len(m)
      /\ \A i \in 1..Len(m) : i <= slen => bytes'[i] = m[i]
      /\ \A i \in 1..Len(m) : i > slen /\ i <= slen + Len(s) => bytes'[i] = s[i - slen]
  <2> DEFINE c == S!Copy(m, slen, s)
  <2>1. /\ c \in Seq(Byte) /\ Len(c) = Len(m)
        /\ \A i \in 1..Len(m) : i <= slen => c[i] = m[i]
        /\ \A i \in 1..Len(m) : i > slen /\ i <= slen + Len(s) => c[i] = s[i - slen]
    BY <1>1, CopyType
  <2>2. bytes' = c
    OBVIOUS
  <2> HIDE DEF c
  <2>3. QED
    BY <2>1, <2>2
<1>4. ASSUME NEW i \in 1..(slen + Len(s)) PROVE bytes'[i] = text'[i]
  <2>1. i \in 1..Len(m) /\ (i \in 1..slen \/ i \in (slen + 1)..(slen + Len(s)))
    BY <1>1
  <2>2. CASE i \in 1..slen
    BY <1>1, <1>2, <1>3, <2>1, <2>2
  <2>3. CASE i \in (slen + 1)..(slen + Len(s))
    BY <1>1, <1>2, <1>3, <2>1, <2>3
  <2>4. QED
    BY <2>1, <2>2, <2>3
<1>5. QED
  BY <1>1, <1>2, <1>3, <1>4

LEMMA StrPush ==
  ASSUME StrInv, NEW s \in Pieces, S!PushStr(s)
  PROVE  StrInv'
<1>1. /\ s \in Seq(Byte) /\ Len(s) \in Nat
      /\ slen' = slen + Len(s) /\ text' = text \o s
  BY PieceType DEF S!PushStr
<1>t. /\ repr \in {"inline", "heap"} /\ bytes \in Seq(Byte) /\ Len(bytes) \in Nat /\ text \in Seq(Byte)
      /\ slen \in Nat /\ slen = Len(text) /\ slen <= Len(bytes)
      /\ \A i \in 1..slen : bytes[i] = text[i]
      /\ repr = "inline" => Len(bytes) = SsoCap
      /\ blocks = IF repr = "heap" THEN 1 ELSE 0
  BY LenProperties DEF StrInv, StrType, TextFirst
<1>2. CASE S!PushInline(s)
  <2>1. repr = "inline" /\ slen + Len(s) <= SsoCap /\ bytes' = S!Copy(bytes, slen, s)
        /\ repr' = repr /\ blocks' = blocks
    BY <1>2 DEF S!PushInline
  <2>2. /\ bytes' \in Seq(Byte) /\ text' \in Seq(Byte) /\ slen' \in Nat
        /\ Len(bytes') = Len(bytes) /\ slen' = Len(text') /\ slen' <= Len(bytes')
        /\ \A i \in 1..slen' : bytes'[i] = text'[i]
    BY <1>1, <1>t, <2>1, Written
  <2>3. QED
    BY <1>t, <2>1, <2>2 DEF StrInv, StrType, TextFirst
<1>3. CASE S!Spill(s)
  <2> DEFINE g == S!Garbage(slen + Len(s))
             m == S!Copy(g, 0, S!Text)
  <2>1. /\ repr = "inline" /\ bytes' = S!Copy(m, slen, s)
        /\ repr' = "heap" /\ blocks' = blocks + 1
    BY <1>3 DEF S!Spill
  <2>2. g \in Seq(Byte) /\ Len(g) = slen + Len(s)
    BY <1>1, <1>t, GarbageType
  <2>3. S!Text \in Seq(Byte) /\ Len(S!Text) = slen /\ \A i \in 1..slen : S!Text[i] = bytes[i]
    <3>1. 1 \in Int /\ slen \in Int /\ \A i \in 1..slen : bytes[i] \in Byte
      BY <1>t, ElementOfSeq
    <3>2. /\ SubSeq(bytes, 1, slen) \in Seq(Byte)
          /\ Len(SubSeq(bytes, 1, slen)) = IF 1 <= slen THEN slen - 1 + 1 ELSE 0
          /\ \A i \in 1..(slen - 1 + 1) : SubSeq(bytes, 1, slen)[i] = bytes[1 + i - 1]
      BY <3>1, SubSeqProperties
    <3>3. QED
      BY <1>t, <3>2 DEF S!Text
  <2>4. /\ m \in Seq(Byte) /\ Len(m) = slen + Len(s)
        /\ \A i \in 1..Len(g) : i > 0 /\ i <= 0 + Len(S!Text) => m[i] = S!Text[i - 0]
    BY <2>2, <2>3, CopyType
  <2>5. \A i \in 1..slen : m[i] = text[i]
    <3>1. ASSUME NEW i \in 1..slen PROVE m[i] = text[i]
      <4>1. i \in 1..Len(g) /\ i > 0 /\ i <= 0 + Len(S!Text) /\ i - 0 = i
        BY <1>1, <1>t, <2>2, <2>3
      <4>2. QED
        BY <1>t, <2>3, <2>4, <4>1
    <3>2. QED
      BY <3>1
  <2> HIDE DEF m, g
  <2>6. /\ bytes' \in Seq(Byte) /\ text' \in Seq(Byte) /\ slen' \in Nat
        /\ Len(bytes') = Len(m) /\ slen' = Len(text') /\ slen' <= Len(bytes')
        /\ \A i \in 1..slen' : bytes'[i] = text'[i]
    <3>1. slen + Len(s) <= Len(m)
      BY <1>1, <1>t, <2>4
    <3>2. QED
      BY <1>1, <2>1, <2>4, <2>5, <3>1, Written
  <2>7. QED
    BY <1>t, <2>1, <2>6 DEF StrInv, StrType, TextFirst
<1>4. CASE S!PushHeap(s)
  <2> DEFINE g == S!Garbage(slen + Len(s))
             m == IF slen + Len(s) > Len(bytes) THEN S!Copy(g, 0, bytes) ELSE bytes
  <2>1. repr = "heap" /\ bytes' = S!Copy(m, slen, s) /\ repr' = repr /\ blocks' = blocks
    BY <1>4 DEF S!PushHeap
  <2>2. g \in Seq(Byte) /\ Len(g) = slen + Len(s)
    BY <1>1, <1>t, GarbageType
  <2>3. m \in Seq(Byte) /\ slen + Len(s) <= Len(m) /\ \A i \in 1..slen : m[i] = text[i]
    <3>1. CASE slen + Len(s) > Len(bytes)
      <4>1. /\ m \in Seq(Byte) /\ Len(m) = slen + Len(s)
            /\ \A i \in 1..Len(g) : i > 0 /\ i <= 0 + Len(bytes) => m[i] = bytes[i - 0]
        BY <1>t, <2>2, <3>1, CopyType
      <4>2. ASSUME NEW i \in 1..slen PROVE m[i] = text[i]
        <5>1. i \in 1..Len(g) /\ i > 0 /\ i <= 0 + Len(bytes) /\ i - 0 = i
          BY <1>1, <1>t, <2>2
        <5> HIDE DEF m, g
        <5>2. QED
          BY <1>t, <4>1, <5>1
      <4>3. QED
        BY <1>1, <1>t, <4>1, <4>2
    <3>2. CASE ~(slen + Len(s) > Len(bytes))
      BY <1>1, <1>t, <3>2
    <3>3. QED
      BY <3>1, <3>2
  <2> HIDE DEF m, g
  <2>6. /\ bytes' \in Seq(Byte) /\ text' \in Seq(Byte) /\ slen' \in Nat
        /\ Len(bytes') = Len(m) /\ slen' = Len(text') /\ slen' <= Len(bytes')
        /\ \A i \in 1..slen' : bytes'[i] = text'[i]
    BY <1>1, <2>1, <2>3, Written
  <2>7. QED
    BY <1>t, <2>1, <2>6 DEF StrInv, StrType, TextFirst
<1>5. QED
  BY <1>2, <1>3, <1>4 DEF S!PushStr

LEMMA StrStep ==
  ASSUME StrInv, [S!Next]_(S!vars)
  PROVE  StrInv'
<1>1. CASE S!Clear
  <2>1. slen' = 0 /\ text' = <<>> /\ repr' = repr /\ bytes' = bytes /\ blocks' = blocks
    BY <1>1 DEF S!Clear
  <2>2. text' \in Seq(Byte) /\ Len(text') = 0 /\ Len(bytes) \in Nat
    BY <2>1, EmptySeq, LenProperties DEF StrInv, StrType
  <2>3. QED
    BY <2>1, <2>2 DEF StrInv, StrType, TextFirst
<1>2. CASE UNCHANGED S!vars
  BY <1>2 DEF S!vars, StrInv, StrType, TextFirst
<1>3. QED
  BY <1>1, <1>2, StrPush DEF S!Next

LEMMA StrSafe == StrInv => S!TextIsWhatWasPushed
<1> SUFFICES ASSUME StrInv PROVE S!TextIsWhatWasPushed
  OBVIOUS
<1>1. /\ bytes \in Seq(Byte) /\ Len(bytes) \in Nat /\ text \in Seq(Byte)
      /\ slen \in Nat /\ slen = Len(text) /\ slen <= Len(bytes)
      /\ \A i \in 1..slen : bytes[i] = text[i]
      /\ blocks = IF repr = "heap" THEN 1 ELSE 0
  BY LenProperties DEF StrInv, StrType, TextFirst
<1>2. S!Text \in Seq(Byte) /\ Len(S!Text) = slen /\ \A i \in 1..slen : S!Text[i] = bytes[i]
  <2>1. 1 \in Int /\ slen \in Int /\ \A i \in 1..slen : bytes[i] \in Byte
    BY <1>1, ElementOfSeq
  <2>2. /\ SubSeq(bytes, 1, slen) \in Seq(Byte)
        /\ Len(SubSeq(bytes, 1, slen)) = IF 1 <= slen THEN slen - 1 + 1 ELSE 0
        /\ \A i \in 1..(slen - 1 + 1) : SubSeq(bytes, 1, slen)[i] = bytes[1 + i - 1]
    BY <2>1, SubSeqProperties
  <2>3. QED
    BY <1>1, <2>2 DEF S!Text
<1>3. S!Text = text
  BY <1>1, <1>2, SeqEqual
<1>4. QED
  BY <1>1, <1>3 DEF S!TextIsWhatWasPushed

-----------------------------------------------------------------------------
\* Vector, its iterator and String own each element and block once and free each
\* once, and a String reads as what was pushed, for every capacity, all elements
\* and pieces, and any number of blocks.
THEOREM ElementsStayKept == Spec => []ElementsKept
<1> DEFINE I == (which = "vector" => VecInv) /\ (which = "string" => StrInv)
<1>1. Init => I
  BY VecInit, StrInit DEF Init
<1>2. I /\ [Next]_all => I'
  <2> SUFFICES ASSUME I, [Next]_all PROVE I'
    OBVIOUS
  <2>1. CASE which = "vector"
    <3>1. VecInv /\ [V!Next]_vector /\ which' = "vector"
      BY <2>1, OneAtATime
    <3>2. [V!Next]_(V!vars)
      BY <3>1 DEF vector, V!vars
    <3>3. QED
      BY <3>1, <3>2, VecStep
  <2>2. CASE which = "string"
    <3>1. StrInv /\ [S!Next]_string /\ which' = "string"
      BY <2>2, OneAtATime
    <3>2. [S!Next]_(S!vars)
      BY <3>1 DEF string, S!vars
    <3>3. QED
      BY <3>1, <3>2, StrStep
  <2>3. QED
    BY <2>1, <2>2, OneAtATime
<1>3. I => ElementsKept
  BY VecSafe, StrSafe DEF ElementsKept
<1>4. QED
  BY <1>1, <1>2, <1>3, PTL DEF Spec, all

HIDE StrConstants DEF S!StringAssumption

-----------------------------------------------------------------------------
(* Deque and ring buffer *)

LEMMA RingConstants == R!RingAssumption
BY Constants

USE RingConstants DEF R!RingAssumption



Stored == CellValues \cup {"uninitialized"}

RingInv ==
  /\ front \in 0..(2 * Cells - 1) /\ back \in 0..(2 * Cells - 1)
  /\ cell \in [0..(Cells - 1) -> Stored]
  /\ R!Length < Cells

-----------------------------------------------------------------------------

\* Where a counter that has passed the end of the array twice at most points.
Place(x) == IF x < Cells THEN x ELSE IF x < 2 * Cells THEN x - Cells ELSE x - 2 * Cells

LEMMA CellIs ==
  ASSUME NEW x \in 0..(3 * Cells - 1)
  PROVE  R!CellOf(x) = Place(x)
<1>1. CASE x \in 0..(Cells - 1)
  BY <1>1 DEF R!CellOf, Place
<1>2. CASE x \in Cells..(2 * Cells - 1)
  BY <1>2 DEF R!CellOf, Place
<1>3. CASE x \in (2 * Cells)..(3 * Cells - 1)
  BY <1>3 DEF R!CellOf, Place
<1>4. QED
  BY <1>1, <1>2, <1>3

LEMMA UpDownIs ==
  ASSUME NEW x \in 0..(2 * Cells - 1)
  PROVE  /\ R!Up(x) = IF x = 2 * Cells - 1 THEN 0 ELSE x + 1
         /\ R!Down(x) = IF x = 0 THEN 2 * Cells - 1 ELSE x - 1
<1> DEFINE m == 2 * Cells
<1>m. m \in Nat \ {0} /\ x \in 0..(m - 1)
  OBVIOUS
<1> HIDE DEF m
<1>1. (x + 1) % m = IF x = m - 1 THEN 0 ELSE x + 1
  BY <1>m
<1>2. (x + m - 1) % m = IF x = 0 THEN m - 1 ELSE x - 1
  BY <1>m
<1>3. QED
  BY <1>1, <1>2 DEF R!Up, R!Down, m

LEMMA ModOnce ==
  ASSUME NEW m \in Nat \ {0}, NEW f \in 0..(m - 1), NEW b \in 0..(m - 1)
  PROVE  (b + m - f) % m = IF b >= f THEN b - f ELSE b + m - f
<1>1. CASE b >= f
  <2>1. b + m - f = m + (b - f) /\ b - f \in 0..(m - 1)
    BY <1>1
  <2>2. QED
    BY <1>1, <2>1
<1>2. CASE b < f
  BY <1>2
<1>3. QED
  BY <1>1, <1>2

LEMMA LengthIs ==
  ASSUME front \in 0..(2 * Cells - 1), back \in 0..(2 * Cells - 1)
  PROVE  R!Length = IF back >= front THEN back - front ELSE back + 2 * Cells - front
BY ModOnce DEF R!Length

\* The same fact after a step.
LEMMA LengthNext ==
  ASSUME front' \in 0..(2 * Cells - 1), back' \in 0..(2 * Cells - 1)
  PROVE  R!Length' = IF back' >= front' THEN back' - front' ELSE back' + 2 * Cells - front'
BY ModOnce DEF R!Length

LEMMA ItemsAre ==
  ASSUME RingInv
  PROVE  /\ R!Length \in 0..(Cells - 1)
         /\ R!Items \in Seq(Stored) /\ Len(R!Items) = R!Length
         /\ \A i \in 1..R!Length : R!Items[i] = cell[R!CellOf(front + i - 1)]
<1>1. R!Length \in 0..(Cells - 1)
  BY LengthIs DEF RingInv
<1>2. ASSUME NEW i \in 1..R!Length PROVE cell[R!CellOf(front + i - 1)] \in Stored
  <2>1. front + i - 1 \in 0..(3 * Cells - 1)
    BY <1>1 DEF RingInv
  <2>2. R!CellOf(front + i - 1) \in 0..(Cells - 1)
    BY <2>1, CellIs DEF Place
  <2>3. QED
    BY <2>2 DEF RingInv
<1> HIDE DEF R!Length
<1>3. R!Items \in Seq(Stored)
  BY <1>1, <1>2, IsASeq DEF R!Items
<1>4. Len(R!Items) = R!Length
  BY <1>1, <1>3, LenProperties DEF R!Items
<1>5. QED
  BY <1>1, <1>3, <1>4 DEF R!Items

LEMMA ItemsNext == (RingInv => /\ R!Length \in 0..(Cells - 1)
         /\ R!Items \in Seq(Stored) /\ Len(R!Items) = R!Length
         /\ \A i \in 1..R!Length : R!Items[i] = cell[R!CellOf(front + i - 1)])'
BY ItemsAre, PTL

LEMMA FullIs == RingInv => (R!IsFull <=> R!Length = Cells - 1)
<1> SUFFICES ASSUME RingInv PROVE R!IsFull <=> R!Length = Cells - 1
  OBVIOUS
<1>1. back + 1 \in 0..(3 * Cells - 1) /\ front \in 0..(3 * Cells - 1)
  BY DEF RingInv
<1>2. /\ R!CellOf(back + 1) = Place(back + 1)
      /\ R!CellOf(front) = Place(front)
  BY <1>1, CellIs
<1>3. QED
  BY <1>2, LengthIs DEF RingInv, R!IsFull, Place

LEMMA EmptyIs == RingInv => (R!IsEmpty <=> R!Length = 0)
BY LengthIs DEF RingInv, R!IsEmpty

\* The cells of a sequence of at most Cells items lie apart.
LEMMA CellsApart ==
  ASSUME RingInv, NEW i \in 0..(Cells - 1), NEW j \in 0..(Cells - 1),
         R!CellOf(front + i) = R!CellOf(front + j)
  PROVE  i = j
<1>1. front + i \in 0..(3 * Cells - 1) /\ front + j \in 0..(3 * Cells - 1)
  BY DEF RingInv
<1>2. /\ R!CellOf(front + i) = Place(front + i)
      /\ R!CellOf(front + j) = Place(front + j)
  BY <1>1, CellIs
<1>3. QED
  BY <1>2 DEF RingInv, Place

LEMMA BackCell ==
  ASSUME RingInv
  PROVE  R!CellOf(back) = R!CellOf(front + R!Length) /\ R!CellOf(back) \in 0..(Cells - 1)
<1>1. front + R!Length \in 0..(3 * Cells - 1) /\ back \in 0..(3 * Cells - 1)
  BY LengthIs DEF RingInv
<1>2. /\ R!CellOf(back) = Place(back)
      /\ R!CellOf(front + R!Length) = Place(front + R!Length)
  BY <1>1, CellIs
<1>3. QED
  BY <1>1, <1>2, LengthIs DEF RingInv, Place

LEMMA Appended ==
  ASSUME RingInv, NEW v \in CellValues, ~R!IsFull,
         cell' = [cell EXCEPT ![R!CellOf(back)] = v], back' = R!Up(back), front' = front
  PROVE  RingInv' /\ R!Items' = Append(R!Items, v) /\ R!Length < Cells - 1
<1> DEFINE d == R!Length
<1>1. d \in 0..(Cells - 1) /\ d < Cells - 1
  <2>1. d \in 0..(Cells - 1) /\ d # Cells - 1
    BY FullIs, ItemsAre
  <2>2. QED
    BY <2>1
<1>2. back' \in 0..(2 * Cells - 1) /\ front' \in 0..(2 * Cells - 1)
  BY UpDownIs DEF RingInv
<1>3. R!Length' = d + 1
  <2>1. /\ d = IF back >= front THEN back - front ELSE back + 2 * Cells - front
        /\ R!Length' = IF back' >= front' THEN back' - front' ELSE back' + 2 * Cells - front'
    BY <1>2, LengthIs, LengthNext DEF RingInv
  <2>2. back' = (IF back = 2 * Cells - 1 THEN 0 ELSE back + 1) /\ front' = front
    BY UpDownIs DEF RingInv
  <2> HIDE DEF d
  <2>3. QED
    BY <1>1, <1>2, <2>1, <2>2 DEF RingInv
<1>4. cell' \in [0..(Cells - 1) -> Stored]
  BY DEF RingInv, Stored
<1>5. RingInv'
  BY <1>1, <1>2, <1>3, <1>4 DEF RingInv
<1>6. /\ R!Items \in Seq(Stored) /\ Len(R!Items) = d
      /\ \A i \in 1..d : R!Items[i] = cell[R!CellOf(front + i - 1)]
  BY ItemsAre
<1>7. /\ R!Items' \in Seq(Stored) /\ Len(R!Items') = d + 1
      /\ \A i \in 1..(d + 1) : R!Items'[i] = cell'[R!CellOf(front + i - 1)]
  BY <1>3, <1>5, ItemsNext
<1>8. R!CellOf(back) = R!CellOf(front + d) /\ R!CellOf(back) \in 0..(Cells - 1)
  BY BackCell
<1> HIDE DEF d
<1>9. ASSUME NEW i \in 1..(d + 1) PROVE R!Items'[i] = IF i = d + 1 THEN v ELSE R!Items[i]
  <2>1. CASE i = d + 1
    <3>1. front + i - 1 = front + d
      BY <1>1, <2>1 DEF RingInv
    <3>2. cell'[R!CellOf(back)] = v
      BY <1>8 DEF RingInv
    <3>3. QED
      BY <1>7, <1>8, <2>1, <3>1, <3>2
  <2>2. CASE i # d + 1
    <3>1. i \in 1..d /\ front + i - 1 = front + (i - 1) /\ i - 1 \in 0..(Cells - 1) /\ i - 1 # d
      BY <1>1, <2>2 DEF RingInv
    <3>2. R!CellOf(front + i - 1) # R!CellOf(back)
      BY <1>1, <1>8, <3>1, CellsApart
    <3>4. front + i - 1 \in 0..(3 * Cells - 1)
      BY <1>1, <3>1 DEF RingInv
    <3>5. R!CellOf(front + i - 1) \in 0..(Cells - 1)
      BY <3>4, CellIs DEF Place
    <3>6. cell'[R!CellOf(front + i - 1)] = cell[R!CellOf(front + i - 1)]
      BY <3>2, <3>5 DEF RingInv
    <3>3. QED
      BY <1>6, <1>7, <2>2, <3>1, <3>6
  <2>3. QED
    BY <2>1, <2>2
<1>10. /\ Append(R!Items, v) \in Seq(Stored) /\ Len(Append(R!Items, v)) = d + 1
       /\ \A i \in 1..d : Append(R!Items, v)[i] = R!Items[i]
       /\ Append(R!Items, v)[d + 1] = v
  BY <1>6, AppendProperties DEF Stored
<1>11. ASSUME NEW i \in 1..(d + 1) PROVE R!Items'[i] = Append(R!Items, v)[i]
  <2>1. i = d + 1 \/ (i \in 1..d /\ i # d + 1)
    BY <1>1
  <2>2. QED
    BY <1>9, <1>10, <2>1
<1>12. R!Items' = Append(R!Items, v)
  BY <1>7, <1>10, <1>11, SeqEqual
<1>13. QED
  BY <1>1, <1>5, <1>12 DEF d

LEMMA Prepended ==
  ASSUME RingInv, NEW v \in CellValues, ~R!IsFull,
         front' = R!Down(front), cell' = [cell EXCEPT ![R!CellOf(front')] = v], back' = back
  PROVE  RingInv' /\ R!Items' = <<v>> \o R!Items /\ R!Length < Cells - 1
<1> DEFINE d == R!Length
<1>1. d \in 0..(Cells - 1) /\ d < Cells - 1
  <2>1. d \in 0..(Cells - 1) /\ d # Cells - 1
    BY FullIs, ItemsAre
  <2>2. QED
    BY <2>1
<1>2. back' \in 0..(2 * Cells - 1) /\ front' \in 0..(2 * Cells - 1)
  BY UpDownIs DEF RingInv
<1>3. R!Length' = d + 1
  <2>1. /\ d = IF back >= front THEN back - front ELSE back + 2 * Cells - front
        /\ R!Length' = IF back' >= front' THEN back' - front' ELSE back' + 2 * Cells - front'
    BY <1>2, LengthIs, LengthNext DEF RingInv
  <2>2. back' = back /\ front' = (IF front = 0 THEN 2 * Cells - 1 ELSE front - 1)
    BY UpDownIs DEF RingInv
  <2> HIDE DEF d
  <2>3. QED
    BY <1>1, <1>2, <2>1, <2>2 DEF RingInv
<1>a. R!CellOf(front') \in 0..(Cells - 1)
  BY <1>2, CellIs DEF Place
<1>4. cell' \in [0..(Cells - 1) -> Stored]
  BY <1>a DEF RingInv, Stored
<1>5. RingInv'
  BY <1>1, <1>2, <1>3, <1>4 DEF RingInv
<1>6. /\ R!Items \in Seq(Stored) /\ Len(R!Items) = d
      /\ \A i \in 1..d : R!Items[i] = cell[R!CellOf(front + i - 1)]
  BY ItemsAre
<1>7. /\ R!Items' \in Seq(Stored) /\ Len(R!Items') = d + 1
      /\ \A i \in 1..(d + 1) : R!Items'[i] = cell'[R!CellOf(front' + i - 1)]
  BY <1>3, <1>5, ItemsNext
<1>b. front' = IF front = 0 THEN 2 * Cells - 1 ELSE front - 1
  BY UpDownIs DEF RingInv
<1> HIDE DEF d
<1>8. ASSUME NEW i \in 2..(d + 1)
      PROVE  /\ R!CellOf(front' + i - 1) = R!CellOf(front + (i - 1) - 1)
             /\ R!CellOf(front' + i - 1) # R!CellOf(front')
             /\ R!CellOf(front' + i - 1) \in 0..(Cells - 1)
  <2>1. /\ front' + i - 1 \in 0..(3 * Cells - 1) /\ front + (i - 1) - 1 \in 0..(3 * Cells - 1)
        /\ front' \in 0..(3 * Cells - 1) /\ i \in Int
    BY <1>1, <1>2, <1>b DEF RingInv
  <2>2. /\ R!CellOf(front' + i - 1) = Place(front' + i - 1)
        /\ R!CellOf(front + (i - 1) - 1) = Place(front + (i - 1) - 1)
        /\ R!CellOf(front') = Place(front')
    BY <2>1, CellIs
  <2>3. R!CellOf(front' + i - 1) = R!CellOf(front + (i - 1) - 1)
    BY <1>1, <1>b, <2>1, <2>2 DEF RingInv, Place
  <2>4. R!CellOf(front' + i - 1) # R!CellOf(front')
    BY <1>1, <1>2, <2>1, <2>2 DEF Place
  <2>5. R!CellOf(front' + i - 1) \in 0..(Cells - 1)
    BY <2>1, <2>2 DEF Place
  <2>6. QED
    BY <2>3, <2>4, <2>5
<1>9. R!Items'[1] = v
  <2>1. front' + 1 - 1 = front' /\ 1 \in 1..(d + 1)
    BY <1>1, <1>2
  <2>2. cell'[R!CellOf(front')] = v
    BY <1>a DEF RingInv
  <2>3. QED
    BY <1>7, <2>1, <2>2
<1>10. ASSUME NEW i \in 2..(d + 1) PROVE R!Items'[i] = R!Items[i - 1]
  <2>1. i \in 1..(d + 1) /\ i - 1 \in 1..d
    BY <1>1
  <2>2. cell'[R!CellOf(front' + i - 1)] = cell[R!CellOf(front' + i - 1)]
    BY <1>8 DEF RingInv
  <2>3. QED
    BY <1>6, <1>7, <1>8, <2>1, <2>2
<1>11. /\ <<v>> \o R!Items \in Seq(Stored) /\ Len(<<v>> \o R!Items) = d + 1
       /\ \A i \in 1..(d + 1) : (<<v>> \o R!Items)[i] = IF i <= 1 THEN <<v>>[i] ELSE R!Items[i - 1]
  <2>1. <<v>> \in Seq(Stored) /\ Len(<<v>>) = 1
    BY DEF Stored
  <2>2. QED
    BY <1>1, <1>6, <2>1, ConcatProperties
<1>12. ASSUME NEW i \in 1..(d + 1) PROVE R!Items'[i] = (<<v>> \o R!Items)[i]
  <2>1. i = 1 \/ (i \in 2..(d + 1) /\ ~(i <= 1))
    BY <1>1
  <2>2. <<v>>[1] = v
    OBVIOUS
  <2>3. QED
    BY <1>9, <1>10, <1>11, <2>1, <2>2
<1>13. R!Items' = <<v>> \o R!Items
  BY <1>7, <1>11, <1>12, SeqEqual
<1>14. QED
  BY <1>1, <1>5, <1>13 DEF d

LEMMA FrontTaken ==
  ASSUME RingInv, ~R!IsEmpty, front' = R!Up(front), back' = back, cell' = cell
  PROVE  /\ RingInv' /\ R!Items # <<>> /\ R!Items' = Tail(R!Items)
         /\ cell[R!CellOf(front)] = Head(R!Items)
<1> DEFINE d == R!Length
<1>1. d \in 1..(Cells - 1)
  BY EmptyIs, ItemsAre
<1>2. back' \in 0..(2 * Cells - 1) /\ front' \in 0..(2 * Cells - 1)
  <2>1. front' = IF front = 2 * Cells - 1 THEN 0 ELSE front + 1
    BY UpDownIs DEF RingInv
  <2>2. QED
    BY <2>1 DEF RingInv
<1>3. R!Length' = d - 1
  <2>1. /\ d = IF back >= front THEN back - front ELSE back + 2 * Cells - front
        /\ R!Length' = IF back' >= front' THEN back' - front' ELSE back' + 2 * Cells - front'
    BY <1>2, LengthIs, LengthNext DEF RingInv
  <2>2. back' = back /\ front' = (IF front = 2 * Cells - 1 THEN 0 ELSE front + 1)
    BY UpDownIs DEF RingInv
  <2> HIDE DEF d
  <2>3. QED
    BY <1>1, <1>2, <2>1, <2>2 DEF RingInv
<1>5. RingInv'
  BY <1>1, <1>2, <1>3 DEF RingInv
<1>6. /\ R!Items \in Seq(Stored) /\ Len(R!Items) = d
      /\ \A i \in 1..d : R!Items[i] = cell[R!CellOf(front + i - 1)]
  BY ItemsAre
<1>7. /\ R!Items' \in Seq(Stored) /\ Len(R!Items') = d - 1
      /\ \A i \in 1..(d - 1) : R!Items'[i] = cell[R!CellOf(front' + i - 1)]
  BY <1>3, <1>5, ItemsNext
<1>b. front' = IF front = 2 * Cells - 1 THEN 0 ELSE front + 1
  BY UpDownIs DEF RingInv
<1> HIDE DEF d
<1>8. ASSUME NEW i \in 1..(d - 1) PROVE R!CellOf(front' + i - 1) = R!CellOf(front + (i + 1) - 1)
  <2>1. /\ front' + i - 1 \in 0..(3 * Cells - 1) /\ front + (i + 1) - 1 \in 0..(3 * Cells - 1)
        /\ i \in Int
    BY <1>1, <1>2, <1>b DEF RingInv
  <2>2. /\ R!CellOf(front' + i - 1) = Place(front' + i - 1)
        /\ R!CellOf(front + (i + 1) - 1) = Place(front + (i + 1) - 1)
    BY <2>1, CellIs
  <2>3. QED
    BY <1>1, <1>b, <2>1, <2>2 DEF RingInv, Place
<1>9. R!Items # <<>>
  BY <1>1, <1>6, EmptySeq
<1>10. /\ Head(R!Items) = R!Items[1] /\ Tail(R!Items) \in Seq(Stored) /\ Len(Tail(R!Items)) = d - 1
       /\ \A i \in 1..(d - 1) : Tail(R!Items)[i] = R!Items[i + 1]
  BY <1>1, <1>6, <1>9, HeadTailProperties
<1>11. ASSUME NEW i \in 1..(d - 1) PROVE R!Items'[i] = Tail(R!Items)[i]
  <2>1. i + 1 \in 1..d
    BY <1>1
  <2>2. QED
    BY <1>6, <1>7, <1>8, <1>10, <2>1
<1>12. R!Items' = Tail(R!Items)
  BY <1>7, <1>10, <1>11, SeqEqual
<1>13. cell[R!CellOf(front)] = Head(R!Items)
  <2>1. 1 \in 1..d /\ front + 1 - 1 = front
    BY <1>1 DEF RingInv
  <2>2. QED
    BY <1>6, <1>10, <2>1
<1>14. QED
  BY <1>5, <1>9, <1>12, <1>13

LEMMA BackTaken ==
  ASSUME RingInv, ~R!IsEmpty, back' = R!Down(back), front' = front, cell' = cell
  PROVE  /\ RingInv' /\ R!Items # <<>> /\ R!Items' = SubSeq(R!Items, 1, Len(R!Items) - 1)
         /\ cell[R!CellOf(back')] = R!Items[Len(R!Items)]
<1> DEFINE d == R!Length
           m == Len(R!Items) - 1
<1>1. d \in 1..(Cells - 1)
  BY EmptyIs, ItemsAre
<1>2. back' \in 0..(2 * Cells - 1) /\ front' \in 0..(2 * Cells - 1)
  BY UpDownIs DEF RingInv
<1>3. R!Length' = d - 1
  <2>1. /\ d = IF back >= front THEN back - front ELSE back + 2 * Cells - front
        /\ R!Length' = IF back' >= front' THEN back' - front' ELSE back' + 2 * Cells - front'
    BY <1>2, LengthIs, LengthNext DEF RingInv
  <2>2. back' = (IF back = 0 THEN 2 * Cells - 1 ELSE back - 1) /\ front' = front
    BY UpDownIs DEF RingInv
  <2> HIDE DEF d
  <2>3. QED
    BY <1>1, <1>2, <2>1, <2>2 DEF RingInv
<1>5. RingInv'
  BY <1>1, <1>2, <1>3 DEF RingInv
<1>6. /\ R!Items \in Seq(Stored) /\ Len(R!Items) = d
      /\ \A i \in 1..d : R!Items[i] = cell[R!CellOf(front + i - 1)]
  BY ItemsAre
<1>7. /\ R!Items' \in Seq(Stored) /\ Len(R!Items') = d - 1
      /\ \A i \in 1..(d - 1) : R!Items'[i] = cell[R!CellOf(front + i - 1)]
  BY <1>3, <1>5, ItemsNext
<1>b. back' = IF back = 0 THEN 2 * Cells - 1 ELSE back - 1
  BY UpDownIs DEF RingInv
<1>l. d = IF back >= front THEN back - front ELSE back + 2 * Cells - front
  BY LengthIs DEF RingInv
<1> HIDE DEF d
<1>8. R!CellOf(back') = R!CellOf(front + d - 1)
  <2>1. back' \in 0..(3 * Cells - 1) /\ front + d - 1 \in 0..(3 * Cells - 1)
    BY <1>1, <1>2 DEF RingInv
  <2>2. /\ R!CellOf(back') = Place(back')
        /\ R!CellOf(front + d - 1) = Place(front + d - 1)
    BY <2>1, CellIs
  <2>3. QED
    BY <1>1, <1>2, <1>b, <1>l, <2>1, <2>2 DEF RingInv, Place
<1>9. R!Items # <<>> /\ m = d - 1 /\ d \in 1..d /\ \A i \in 1..(d - 1) : i \in 1..d
  BY <1>1, <1>6, EmptySeq
<1> HIDE DEF m
<1>10. /\ SubSeq(R!Items, 1, m) \in Seq(Stored) /\ Len(SubSeq(R!Items, 1, m)) = d - 1
       /\ \A i \in 1..(d - 1) : SubSeq(R!Items, 1, m)[i] = R!Items[i]
  <2>1. 1 \in Int /\ m \in Int /\ \A i \in 1..m : R!Items[i] \in Stored
    BY <1>1, <1>6, <1>9, ElementOfSeq
  <2>2. /\ SubSeq(R!Items, 1, m) \in Seq(Stored)
        /\ Len(SubSeq(R!Items, 1, m)) = IF 1 <= m THEN m - 1 + 1 ELSE 0
        /\ \A i \in 1..(m - 1 + 1) : SubSeq(R!Items, 1, m)[i] = R!Items[1 + i - 1]
    BY <2>1, SubSeqProperties
  <2>3. QED
    BY <1>1, <1>9, <2>2
<1>11. ASSUME NEW i \in 1..(d - 1) PROVE R!Items'[i] = SubSeq(R!Items, 1, m)[i]
  BY <1>6, <1>7, <1>9, <1>10
<1>12. R!Items' = SubSeq(R!Items, 1, m)
  BY <1>7, <1>10, <1>11, SeqEqual
<1>13. cell[R!CellOf(back')] = R!Items[Len(R!Items)]
  BY <1>6, <1>8, <1>9
<1>14. QED
  BY <1>5, <1>9, <1>12, <1>13 DEF m

LEMMA RingInit == R!Init => RingInv /\ R!E!Init
<1> SUFFICES ASSUME R!Init PROVE RingInv /\ R!E!Init
  OBVIOUS
<1>1. front = 0 /\ back = 0 /\ cell \in [0..(Cells - 1) -> Stored] /\ answer = <<>>
  BY DEF R!Init, Stored
<1>2. R!Length = 0
  BY <1>1, LengthIs
<1>3. RingInv
  BY <1>1, <1>2 DEF RingInv
<1>4. R!Items = <<>>
  BY <1>2, <1>3, ItemsAre, EmptySeq
<1>5. QED
  BY <1>1, <1>3, <1>4 DEF R!E!Init

LEMMA RingStep ==
  ASSUME RingInv, [R!Next]_(R!vars)
  PROVE  RingInv' /\ R!SequenceStep
<1>l. R!Length \in 0..(Cells - 1) /\ Len(R!Items) = R!Length
  BY ItemsAre
<1>1. ASSUME NEW v \in CellValues, R!DequePushBack(v) \/ R!RingPush(v) PROVE RingInv' /\ R!SequenceStep
  <2>1. ~R!IsFull /\ cell' = [cell EXCEPT ![R!CellOf(back)] = v] /\ back' = R!Up(back) /\ front' = front
        /\ answer' = <<>>
    BY <1>1 DEF R!DequePushBack, R!RingPush
  <2>2. RingInv' /\ R!Items' = Append(R!Items, v) /\ R!Length < Cells - 1
    BY <2>1, Appended
  <2>3. R!E!PushBack(v)
    BY <1>l, <2>1, <2>2 DEF R!E!PushBack
  <2>4. QED
    BY <2>2, <2>3 DEF R!SequenceStep, R!E!Next
<1>2. ASSUME NEW v \in CellValues, R!DequePushFront(v) PROVE RingInv' /\ R!SequenceStep
  <2>1. ~R!IsFull /\ front' = R!Down(front) /\ cell' = [cell EXCEPT ![R!CellOf(front')] = v] /\ back' = back
        /\ answer' = <<>>
    BY <1>2 DEF R!DequePushFront
  <2>2. RingInv' /\ R!Items' = <<v>> \o R!Items /\ R!Length < Cells - 1
    BY <2>1, Prepended
  <2>3. R!E!PushFront(v)
    BY <1>l, <2>1, <2>2 DEF R!E!PushFront
  <2>4. QED
    BY <2>2, <2>3 DEF R!SequenceStep, R!E!Next
<1>3. ASSUME R!DequePopFront \/ R!RingPop PROVE RingInv' /\ R!SequenceStep
  <2>1. ~R!IsEmpty /\ answer' = <<cell[R!CellOf(front)]>> /\ front' = R!Up(front) /\ back' = back /\ cell' = cell
    BY <1>3 DEF R!DequePopFront, R!RingPop
  <2>2. /\ RingInv' /\ R!Items # <<>> /\ R!Items' = Tail(R!Items) /\ cell[R!CellOf(front)] = Head(R!Items)
    BY <2>1, FrontTaken
  <2>3. R!E!PopFront
    BY <2>1, <2>2 DEF R!E!PopFront
  <2>4. QED
    BY <2>2, <2>3 DEF R!SequenceStep, R!E!Next
<1>4. ASSUME R!DequePopBack PROVE RingInv' /\ R!SequenceStep
  <2>1. ~R!IsEmpty /\ back' = R!Down(back) /\ answer' = <<cell[R!CellOf(back')]>> /\ front' = front /\ cell' = cell
    BY <1>4 DEF R!DequePopBack
  <2>2. /\ RingInv' /\ R!Items # <<>> /\ R!Items' = SubSeq(R!Items, 1, Len(R!Items) - 1) /\ cell[R!CellOf(back')] = R!Items[Len(R!Items)]
    BY <2>1, BackTaken
  <2>3. R!E!PopBack
    BY <2>1, <2>2 DEF R!E!PopBack
  <2>4. QED
    BY <2>2, <2>3 DEF R!SequenceStep, R!E!Next
<1>5. ASSUME NEW i \in 0..(Cells - 1), R!DequeGet(i) PROVE RingInv' /\ R!SequenceStep
  <2>1. i < R!Length /\ answer' = <<cell[R!CellOf(front + i)]>> /\ UNCHANGED <<front, back, cell>>
    BY <1>5 DEF R!DequeGet
  <2>2. RingInv' /\ R!Items' = R!Items
    BY <2>1 DEF RingInv, R!Items, R!Length
  <2>3. i + 1 \in 1..R!Length /\ front + (i + 1) - 1 = front + i
    BY <1>l, <2>1 DEF RingInv
  <2>4. i + 1 \in DOMAIN R!Items /\ answer' = <<R!Items[i + 1]>>
    <3>1. R!Items[i + 1] = cell[R!CellOf(front + i)]
      BY <2>3, ItemsAre
    <3>2. i + 1 \in DOMAIN R!Items
      BY <1>l, <2>3, ItemsAre, LenProperties
    <3>3. QED
      BY <2>1, <3>1, <3>2
  <2>5. R!E!Get(i + 1)
    BY <2>2, <2>4 DEF R!E!Get
  <2>6. QED
    BY <2>2, <2>4, <2>5 DEF R!SequenceStep, R!E!Next
<1>6. ASSUME R!Refuse PROVE RingInv' /\ R!SequenceStep
  <2>1. (R!IsFull \/ R!IsEmpty) /\ answer' = <<>> /\ UNCHANGED <<front, back, cell>>
    BY <1>6 DEF R!Refuse
  <2>2. RingInv' /\ R!Items' = R!Items
    BY <2>1 DEF RingInv, R!Items, R!Length
  <2>3. R!E!Refuse
    BY <1>l, <2>1, <2>2, FullIs, EmptyIs DEF R!E!Refuse
  <2>4. QED
    BY <2>2, <2>3 DEF R!SequenceStep, R!E!Next
<1>7. ASSUME UNCHANGED R!vars PROVE RingInv' /\ R!SequenceStep
  <2>1. UNCHANGED <<front, back, cell, answer>>
    BY <1>7 DEF R!vars
  <2>2. RingInv' /\ R!Items' = R!Items
    BY <2>1 DEF RingInv, R!Items, R!Length
  <2>3. QED
    BY <2>1, <2>2 DEF R!SequenceStep
<1>8. QED
  BY <1>1, <1>2, <1>3, <1>4, <1>5, <1>6, <1>7 DEF R!Next

\* The two ended deque and the ring buffer are sequences, for every capacity and
\* all values.
THEOREM RingsAreSequences == Spec => ImplementsSequence
<1> DEFINE I == which = "rings" => RingInv
<1>1. Init => I /\ R!E!Init
  BY RingInit DEF Init
<1>2. I /\ [Next]_all => I' /\ [which = "rings" => R!SequenceStep]_rings
  <2> SUFFICES ASSUME I, [Next]_all
               PROVE  I' /\ (which = "rings" => R!SequenceStep)
    OBVIOUS
  <2>1. CASE which = "rings"
    <3>1. RingInv /\ [R!Next]_rings
      BY <2>1, OneAtATime
    <3>2. [R!Next]_(R!vars)
      BY <3>1 DEF rings, R!vars
    <3>3. QED
      BY <3>1, <3>2, RingStep
  <2>2. CASE which # "rings"
    BY <2>2, OneAtATime
  <2>3. QED
    BY <2>1, <2>2
<1>3. QED
  BY <1>1, <1>2, PTL DEF Spec, all, ImplementsSequence

HIDE RingConstants DEF R!RingAssumption

-----------------------------------------------------------------------------
(* The graph run by one thread *)

LEMMA GraphConstants == G!CapAssumption
BY Constants

USE GraphConstants DEF G!CapAssumption
\* Cardinality as TaskGraphInline knows it.
LEMMA GraphCardinality == ASSUME NEW s PROVE G!Cardinality(s) = Cardinality(s)
BY DEF G!Cardinality, G!IsFiniteSet, Cardinality, IsFiniteSet



Running == {"call", "after", "done"}

GraphType ==
  /\ gnodes \in Nat /\ edges \in Seq(G!Handles \X G!Handles)
  /\ commit \in 0..gnodes /\ computes \in Seq(G!Handles)
  /\ gpc \in {"build", "sources"} \cup Running
  /\ gpc # "build" => indeg \in [G!Handles -> Nat]
  /\ q \in Seq(G!Handles) /\ qh \in 0..Len(q) /\ scan \in Nat \ {0}
  /\ ran \in Seq(G!Handles)

\* Where dispatch_inline is in its two loops.
Phases ==
  /\ gpc = "build" => q = <<>>
  /\ gpc \in {"build", "sources"} => qh = 0
  /\ gpc = "sources" => scan <= gnodes
  /\ gpc = "after" => qh >= 1
  /\ gpc = "done" => qh = Len(q)

RanFront == Len(ran) = qh /\ \A i \in 1..qh : ran[i] = q[i]

\* The nodes of which every edge has been relaxed.
GraphReturned == {q[i] : i \in 1..(IF gpc = "after" THEN qh - 1 ELSE qh)}

Relaxed ==
  {k \in 1..Len(edges) :
     edges[k][1] \in GraphReturned \/ (gpc = "after" /\ k < scan /\ edges[k][1] = q[qh])}

Waiting == [x \in G!Handles |-> {k \in 1..Len(edges) : edges[k][2] = x /\ k \notin Relaxed}]

CountedIn == gpc # "build" => \A x \in G!Handles : indeg[x] = Cardinality(Waiting[x])

QueuedOnce == \A i, j \in 1..Len(q) : q[i] = q[j] => i = j

QueuedReady ==
  /\ gpc = "sources" =>
       \A x \in G!Handles : (\E i \in 1..Len(q) : q[i] = x) <=> x < scan /\ indeg[x] = 0
  /\ gpc \in Running =>
       \A x \in G!Handles : (\E i \in 1..Len(q) : q[i] = x) <=> indeg[x] = 0

\* A node ran after the nodes that its edges come from.
SourcesFirst ==
  \A i \in 1..Len(ran) : \A k \in 1..Len(edges) :
    edges[k][2] = ran[i] => \E j \in 1..(i - 1) : ran[j] = edges[k][1]

NoneBlocked == \A i \in 1..Len(ran) : ran[i] \notin G!Blocked

PromisedEdges == \A p \in promised : \E k \in 1..Len(edges) : edges[k] = p

GraphInv ==
  /\ GraphType /\ Phases /\ RanFront /\ CountedIn /\ QueuedOnce /\ QueuedReady
  /\ SourcesFirst /\ NoneBlocked /\ PromisedEdges

-----------------------------------------------------------------------------

LEMMA GraphInit == G!Init => GraphInv
<1> SUFFICES ASSUME G!Init PROVE GraphInv
  OBVIOUS
<1>1. /\ gnodes = 0 /\ edges = <<>> /\ commit = 0 /\ computes = <<>> /\ gpc = "build"
      /\ q = <<>> /\ qh = 0 /\ scan = 1 /\ ran = <<>> /\ promised = {}
  BY DEF G!Init
<1>2. /\ edges \in Seq(G!Handles \X G!Handles) /\ computes \in Seq(G!Handles) /\ q \in Seq(G!Handles)
      /\ ran \in Seq(G!Handles) /\ Len(q) = 0 /\ Len(ran) = 0
  BY <1>1, EmptySeq
<1>3. QED
  BY <1>1, <1>2 DEF GraphInv, GraphType, Phases, RanFront, CountedIn, QueuedOnce, QueuedReady,
     SourcesFirst, NoneBlocked, PromisedEdges, Running

\* While the graph is built nothing has been queued or called.
LEMMA GraphBuilds ==
  ASSUME GraphInv, gpc = "build", gpc' = "build", UNCHANGED <<q, qh, scan, ran>>,
         gnodes' \in Nat, gnodes' >= gnodes, edges' \in Seq(G!Handles' \X G!Handles'),
         commit' \in 0..gnodes', computes' \in Seq(G!Handles'), PromisedEdges'
  PROVE  GraphInv'
<1>1. q = <<>> /\ qh = 0 /\ Len(ran) = 0 /\ scan \in Nat \ {0} /\ ran \in Seq(G!Handles)
  BY DEF GraphInv, GraphType, Phases, RanFront
<1>2. Len(q') = 0 /\ Len(ran') = 0 /\ q' = <<>> /\ ran' = <<>> /\ q' \in Seq(G!Handles') /\ ran' \in Seq(G!Handles')
  BY <1>1, EmptySeq
<1>3. GraphType'
  BY <1>1, <1>2 DEF GraphType
<1>4. Phases' /\ RanFront' /\ CountedIn' /\ QueuedReady'
  BY <1>1, <1>2 DEF Phases, RanFront, CountedIn, QueuedReady, Running
<1>5. QueuedOnce' /\ SourcesFirst' /\ NoneBlocked'
  BY <1>1, <1>2 DEF QueuedOnce, SourcesFirst, NoneBlocked
<1>6. QED
  BY <1>3, <1>4, <1>5 DEF GraphInv

LEMMA EdgesTyped ==
  ASSUME GraphInv
  PROVE  /\ Len(edges) \in Nat /\ DOMAIN edges = 1..Len(edges)
         /\ \A k \in 1..Len(edges) : edges[k] \in G!Handles \X G!Handles
BY LenProperties, ElementOfSeq DEF GraphInv, GraphType

\* One more edge.
LEMMA EdgeAdded ==
  ASSUME GraphInv, NEW e \in G!Handles \X G!Handles, edges' = Append(edges, e),
         gnodes' = gnodes, promised' = promised
  PROVE  edges' \in Seq(G!Handles' \X G!Handles') /\ PromisedEdges'
<1>1. edges \in Seq(G!Handles \X G!Handles) /\ Len(edges) \in Nat /\ PromisedEdges /\ gnodes \in Nat
  BY LenProperties DEF GraphInv, GraphType
<1>2. /\ edges' \in Seq(G!Handles \X G!Handles) /\ Len(edges') = Len(edges) + 1
      /\ \A k \in 1..Len(edges) : edges'[k] = edges[k]
  BY <1>1, AppendProperties
<1>3. G!Handles' = G!Handles
  BY DEF G!Handles
<1>4. \A k \in 1..Len(edges) : k \in 1..Len(edges')
  BY <1>1, <1>2
<1>5. PromisedEdges'
  BY <1>1, <1>2, <1>4 DEF PromisedEdges
<1>6. QED
  BY <1>2, <1>3, <1>5

LEMMA GraphAdd ==
  ASSUME GraphInv, G!Add
  PROVE  GraphInv'
<1>1. /\ gpc = "build" /\ gnodes' = gnodes + 1
      /\ UNCHANGED <<edges, commit, computes, gpc, q, qh, scan, ran, promised>>
  BY DEF G!Add, G!qvars
<1>2. /\ gnodes \in Nat /\ edges \in Seq(G!Handles \X G!Handles) /\ commit \in 0..gnodes
      /\ computes \in Seq(G!Handles) /\ PromisedEdges
  BY DEF GraphInv, GraphType
<1>3. G!Handles \subseteq G!Handles' /\ G!Handles \X G!Handles \subseteq G!Handles' \X G!Handles'
  BY <1>1, <1>2 DEF G!Handles
<1>4. edges' \in Seq(G!Handles' \X G!Handles') /\ computes' \in Seq(G!Handles')
  BY <1>1, <1>2, <1>3, SeqMonotonic
<1>5. PromisedEdges'
  BY <1>1, <1>2 DEF PromisedEdges
<1>6. QED
  BY <1>1, <1>2, <1>4, <1>5, GraphBuilds

LEMMA GraphCalls ==
  ASSUME GraphInv, NEW a \in G!Handles, NEW b \in G!Handles,
         G!DependsOn(a, b) \/ G!SetNextTask(a, b) \/ G!SetNextFrameRoot(a, b)
           \/ G!PcscSetCommit(a) \/ G!PcscAddCompute(a)
  PROVE  GraphInv'
<1>1. /\ gpc = "build" /\ UNCHANGED <<gnodes, gpc, q, qh, scan, ran, promised>>
      /\ \/ (edges' = Append(edges, <<b, a>>) \/ edges' = Append(edges, <<a, b>>))
              /\ UNCHANGED <<commit, computes>>
         \/ edges' = edges /\ (commit' = commit \/ commit' = a)
              /\ (computes' = computes \/ computes' = Append(computes, a))
  BY DEF G!DependsOn, G!SetNextTask, G!SetNextFrameRoot, G!PcscSetCommit, G!PcscAddCompute, G!Call, G!qvars
<1>2. /\ gnodes \in Nat /\ edges \in Seq(G!Handles \X G!Handles) /\ commit \in 0..gnodes
      /\ computes \in Seq(G!Handles) /\ PromisedEdges /\ a \in 0..gnodes
  BY DEF GraphInv, GraphType, G!Handles
<1>3. G!Handles' = G!Handles /\ gnodes' \in Nat /\ gnodes' >= gnodes
  BY <1>1, <1>2 DEF G!Handles
<1>4. CASE edges' = Append(edges, <<b, a>>) \/ edges' = Append(edges, <<a, b>>)
  <2>1. <<a, b>> \in G!Handles \X G!Handles /\ <<b, a>> \in G!Handles \X G!Handles
    OBVIOUS
  <2>2. edges' \in Seq(G!Handles' \X G!Handles') /\ PromisedEdges'
    BY <1>1, <1>4, <2>1, EdgeAdded
  <2>3. commit' \in 0..gnodes' /\ computes' \in Seq(G!Handles')
    <3>1. commit' = commit \/ commit' = a
      BY <1>1
    <3>2. computes' = computes \/ computes' = Append(computes, a)
      BY <1>1
    <3>3. commit' \in 0..gnodes'
      BY <1>1, <1>2, <3>1
    <3>4. computes' \in Seq(G!Handles)
      BY <1>2, <3>2, AppendProperties
    <3>5. QED
      BY <1>3, <3>3, <3>4
  <2>4. QED
    BY <1>1, <1>3, <2>2, <2>3, GraphBuilds
<1>5. CASE /\ edges' = edges
           /\ commit' = commit \/ commit' = a
           /\ computes' = computes \/ computes' = Append(computes, a)
  <2>1. edges' \in Seq(G!Handles' \X G!Handles') /\ PromisedEdges'
    BY <1>1, <1>2, <1>3, <1>5 DEF PromisedEdges
  <2>2. commit' \in 0..gnodes'
    BY <1>1, <1>2, <1>5
  <2>3. computes' \in Seq(G!Handles)
    BY <1>2, <1>5, AppendProperties, SMTT(30)
  <2>4. QED
    BY <1>1, <1>3, <2>1, <2>2, <2>3, GraphBuilds
<1>6. QED
  BY <1>1, <1>4, <1>5

LEMMA GraphFinalize ==
  ASSUME GraphInv, G!PcscFinalizeEdges
  PROVE  GraphInv'
<1> DEFINE fit == IF EdgeCap - Len(edges) < Len(computes) THEN EdgeCap - Len(edges) ELSE Len(computes)
           more == [i \in 1..fit |-> <<computes[i], commit>>]
<1>1. /\ gpc = "build" /\ commit # 0 /\ UNCHANGED <<gnodes, commit, computes, gpc, q, qh, scan, ran>>
      /\ edges' = edges \o more
      /\ promised' = IF fit < Len(computes) THEN promised
                     ELSE promised \cup {<<c, commit>> : c \in G!Range(computes)}
  BY DEF G!PcscFinalizeEdges, G!Call, G!qvars
<1>2. /\ gnodes \in Nat /\ edges \in Seq(G!Handles \X G!Handles) /\ commit \in G!Handles
      /\ computes \in Seq(G!Handles) /\ PromisedEdges
      /\ Len(edges) \in Nat /\ Len(computes) \in Nat /\ DOMAIN computes = 1..Len(computes)
  BY <1>1, LenProperties DEF GraphInv, GraphType, G!Handles
<1>3. G!Handles' = G!Handles /\ gnodes' \in Nat /\ gnodes' >= gnodes /\ commit' \in 0..gnodes'
      /\ computes' \in Seq(G!Handles')
  BY <1>1, <1>2 DEF G!Handles
<1>4. more \in Seq(G!Handles \X G!Handles) /\ fit <= Len(computes)
      /\ (fit \in Nat => Len(more) = fit /\ \A i \in 1..fit : more[i] = <<computes[i], commit>>)
  <2>1. fit \in Int /\ fit <= Len(computes)
    BY <1>2
  <2>2. \A i \in 1..fit : <<computes[i], commit>> \in G!Handles \X G!Handles
    <3>1. \A i \in 1..Len(computes) : computes[i] \in G!Handles
      BY <1>2, ElementOfSeq
    <3>2. \A i \in 1..fit : i \in 1..Len(computes)
      BY <1>2, <2>1
    <3> HIDE DEF fit
    <3>3. QED
      BY <1>2, <3>1, <3>2
  <2> HIDE DEF fit
  <2>3. CASE fit \in Nat
    <3>1. more \in Seq(G!Handles \X G!Handles)
      BY <2>2, <2>3, IsASeq
    <3>2. Len(more) = fit
      BY <2>3, <3>1, LenProperties
    <3>3. QED
      BY <2>1, <3>1, <3>2
  <2>4. CASE fit \notin Nat
    <3>1. 1..fit = {} /\ {} = 1..0
      BY <2>1, <2>4
    <3>2. more = [i \in 1..0 |-> <<computes[i], commit>>]
      BY <3>1
    <3>3. \A i \in 1..0 : <<computes[i], commit>> \in G!Handles \X G!Handles
      OBVIOUS
    <3>4. [i \in 1..0 |-> <<computes[i], commit>>] \in Seq(G!Handles \X G!Handles)
      BY <3>3, IsASeq
    <3>5. QED
      BY <2>1, <2>4, <3>2, <3>4
  <2>5. QED
    BY <2>3, <2>4
<1> HIDE DEF more
<1>5. /\ edges' \in Seq(G!Handles \X G!Handles) /\ Len(edges') = Len(edges) + Len(more) /\ Len(more) \in Nat
      /\ \A k \in 1..Len(edges) + Len(more) :
           edges'[k] = IF k <= Len(edges) THEN edges[k] ELSE more[k - Len(edges)]
  BY <1>1, <1>2, <1>4, ConcatProperties, LenProperties
<1>6. \A k \in 1..Len(edges) : k \in 1..Len(edges') /\ edges'[k] = edges[k]
  BY <1>2, <1>5
<1>7. \A p \in promised : \E k \in 1..Len(edges') : edges'[k] = p
  BY <1>2, <1>6 DEF PromisedEdges
<1>8. PromisedEdges'
  <2>1. CASE fit < Len(computes)
    BY <1>1, <1>7, <2>1 DEF PromisedEdges
  <2>2. CASE ~(fit < Len(computes))
    <3>1. fit = Len(computes) /\ fit \in Nat
      BY <1>2, <2>2
    <3> HIDE DEF fit
    <3>2. ASSUME NEW c \in G!Range(computes) PROVE \E k \in 1..Len(edges') : edges'[k] = <<c, commit>>
      <4>1. PICK i \in 1..Len(computes) : computes[i] = c
        BY <1>2 DEF G!Range
      <4>2. /\ Len(edges) + i \in 1..(Len(edges) + Len(more)) /\ ~(Len(edges) + i <= Len(edges))
            /\ Len(edges) + i - Len(edges) = i /\ more[i] = <<c, commit>>
        BY <1>2, <1>4, <3>1, <4>1
      <4>3. Len(edges) + i \in 1..Len(edges') /\ edges'[Len(edges) + i] = <<c, commit>>
        BY <1>5, <4>2
      <4>4. QED
        BY <4>3
    <3>3. promised' = promised \cup {<<c, commit>> : c \in G!Range(computes)}
      BY <1>1, <2>2 DEF fit
    <3>4. QED
      BY <1>7, <3>2, <3>3 DEF PromisedEdges
  <2>3. QED
    BY <2>1, <2>2
<1>9. QED
  BY <1>1, <1>3, <1>5, <1>8, GraphBuilds

-----------------------------------------------------------------------------
(* Steps of dispatch_inline leave the graph alone. *)

LEMMA WaitingFinite ==
  ASSUME GraphInv, NEW x \in G!Handles
  PROVE  IsFiniteSet(Waiting[x]) /\ Cardinality(Waiting[x]) \in Nat
<1>1. IsFiniteSet(1..Len(edges))
  <2>1. Len(edges) \in Int /\ 1 \in Int
    BY EdgesTyped
  <2>2. QED
    BY <2>1, FS_Interval
<1>2. Waiting[x] \in SUBSET (1..Len(edges))
  BY DEF Waiting
<1>3. QED
  BY <1>1, <1>2, FS_Subset, FS_CardinalityType

\* Every node that an edge of a node with count zero comes from has returned
\* or is the one being left.
LEMMA CountZero ==
  ASSUME GraphInv, gpc # "build", NEW x \in G!Handles, indeg[x] = 0,
         NEW k \in 1..Len(edges), edges[k][2] = x
  PROVE  k \in Relaxed
<1>1. Cardinality(Waiting[x]) = 0
  BY DEF GraphInv, CountedIn
<1>2. Waiting[x] = {}
  BY <1>1, WaitingFinite, FS_EmptySet
<1>3. QED
  BY <1>2 DEF Waiting

LEMMA Unmoved ==
  ASSUME GraphInv, gnodes' = gnodes, edges' = edges, ran' = ran, promised' = promised,
         commit' = commit, computes' = computes
  PROVE  SourcesFirst' /\ NoneBlocked' /\ PromisedEdges' /\ G!Handles' = G!Handles
<1>1. G!Handles' = G!Handles /\ G!Blocked' = G!Blocked
  BY DEF G!Handles, G!Blocked, G!Incoming
<1>2. SourcesFirst /\ NoneBlocked /\ PromisedEdges
  BY DEF GraphInv
<1>3. QED
  BY <1>1, <1>2 DEF SourcesFirst, NoneBlocked, PromisedEdges

LEMMA GraphBegin ==
  ASSUME GraphInv, G!Begin
  PROVE  GraphInv'
<1>1. /\ gpc = "build" /\ gnodes > 0 /\ gpc' = "sources" /\ scan' = 1
      /\ indeg' = [x \in G!Handles |-> G!Cardinality(G!Incoming(x))]
      /\ UNCHANGED <<gnodes, edges, commit, computes, q, qh, ran, promised>>
  BY DEF G!Begin, G!bvars
<1>2. GraphType /\ Phases /\ RanFront /\ QueuedOnce
  BY DEF GraphInv
<1>3. SourcesFirst' /\ NoneBlocked' /\ PromisedEdges' /\ G!Handles' = G!Handles
  BY <1>1, Unmoved
<1>4. q = <<>> /\ qh = 0 /\ Len(q) = 0
  BY <1>1, <1>2, EmptySeq DEF Phases
<1>5. DOMAIN edges = 1..Len(edges) /\ Len(edges) \in Nat
  BY EdgesTyped
<1>6. Relaxed' = {}
  <2>1. GraphReturned' = {}
    BY <1>1, <1>4 DEF GraphReturned
  <2>2. QED
    BY <1>1, <2>1 DEF Relaxed
<1>7. ASSUME NEW x \in G!Handles
      PROVE  Waiting'[x] = G!Incoming(x) /\ indeg'[x] = Cardinality(Waiting'[x]) /\ indeg'[x] \in Nat
  <2>1. Waiting'[x] = G!Incoming(x)
    BY <1>1, <1>3, <1>5, <1>6 DEF Waiting, G!Incoming
  <2>2. indeg'[x] = Cardinality(G!Incoming(x))
    <3>1. indeg'[x] = G!Cardinality(G!Incoming(x))
      BY <1>1
    <3>2. QED
      BY <3>1, GraphCardinality
  <2>3. IsFiniteSet(1..Len(edges)) /\ G!Incoming(x) \in SUBSET (1..Len(edges))
    BY <1>5, FS_Interval DEF G!Incoming
  <2>4. Cardinality(G!Incoming(x)) \in Nat
    BY <2>3, FS_Subset, FS_CardinalityType
  <2>5. QED
    BY <2>1, <2>2, <2>4
<1>8. CountedIn'
  BY <1>3, <1>7 DEF CountedIn
<1>9. indeg' \in [G!Handles -> Nat]
  BY <1>1, <1>7
<1>10. GraphType' /\ Phases' /\ RanFront' /\ QueuedOnce'
  BY <1>1, <1>2, <1>3, <1>4, <1>9 DEF GraphType, Phases, RanFront, QueuedOnce
<1>11. QueuedReady'
  <2>1. \A x \in G!Handles' : ~(x < scan')
    BY <1>1, <1>2, <1>3 DEF G!Handles, GraphType
  <2>2. 1..Len(q') = {}
    BY <1>1, <1>4
  <2>3. QED
    BY <1>1, <2>1, <2>2 DEF QueuedReady, Running
<1>12. QED
  BY <1>3, <1>8, <1>10, <1>11 DEF GraphInv

LEMMA GraphQueueSource ==
  ASSUME GraphInv, G!QueueSource
  PROVE  GraphInv'
<1>1. /\ gpc = "sources" /\ q' = (IF indeg[scan] = 0 THEN Append(q, scan) ELSE q)
      /\ scan' = scan + 1 /\ gpc' = (IF scan = gnodes THEN "call" ELSE gpc)
      /\ UNCHANGED <<gnodes, edges, commit, computes, indeg, qh, ran, promised>>
  BY DEF G!QueueSource, G!bvars
<1>2. /\ GraphType /\ Phases /\ RanFront /\ QueuedOnce /\ CountedIn /\ QueuedReady
  BY DEF GraphInv
<1>t. /\ gnodes \in Nat /\ q \in Seq(G!Handles) /\ Len(q) \in Nat /\ qh = 0 /\ scan \in G!Handles
      /\ Len(ran) = 0
      /\ scan \in Nat \ {0} /\ scan <= gnodes /\ G!Handles = 1..gnodes /\ indeg \in [G!Handles -> Nat]
  BY <1>1, <1>2, LenProperties DEF GraphType, Phases, G!Handles, RanFront
<1>3. SourcesFirst' /\ NoneBlocked' /\ PromisedEdges' /\ G!Handles' = G!Handles
  BY <1>1, Unmoved
<1>4. /\ q' \in Seq(G!Handles)
      /\ indeg[scan] = 0 => Len(q') = Len(q) + 1 /\ q'[Len(q) + 1] = scan
      /\ indeg[scan] # 0 => Len(q') = Len(q)
      /\ \A i \in 1..Len(q) : q'[i] = q[i]
  <2>1. CASE indeg[scan] = 0
    <3>1. q' = Append(q, scan)
      BY <1>1, <2>1
    <3>2. QED
      BY <1>t, <2>1, <3>1, AppendProperties
  <2>2. CASE indeg[scan] # 0
    BY <1>1, <1>t, <2>2
  <2>3. QED
    BY <2>1, <2>2
<1>5. \A i \in 1..Len(q) : q[i] # scan
  BY <1>1, <1>2, <1>t DEF QueuedReady
<1>6. Relaxed' = {} /\ Relaxed = {}
  <2>1. GraphReturned' = {} /\ GraphReturned = {}
    BY <1>1, <1>t DEF GraphReturned
  <2>2. QED
    BY <1>1, <2>1 DEF Relaxed
<1>7. CountedIn'
  <2>1. Waiting' = Waiting
    BY <1>1, <1>3, <1>6 DEF Waiting
  <2>2. QED
    BY <1>1, <1>2, <1>3, <2>1 DEF CountedIn
<1>8. GraphType' /\ Phases' /\ RanFront'
  <2>1. Len(q') \in Nat
    BY <1>4, LenProperties
  <2>2. GraphType'
    BY <1>1, <1>2, <1>3, <1>4, <1>t, <2>1 DEF GraphType, Running
  <2>3. Phases' /\ RanFront'
    BY <1>1, <1>t DEF Phases, RanFront
  <2>4. QED
    BY <2>2, <2>3
<1>9. \A i \in 1..Len(q') : (i \in 1..Len(q) /\ q'[i] = q[i])
                              \/ (indeg[scan] = 0 /\ i = Len(q) + 1 /\ q'[i] = scan)
  <2>1. CASE indeg[scan] = 0
    <3>1. Len(q') = Len(q) + 1 /\ q'[Len(q) + 1] = scan
      BY <1>4, <2>1
    <3>2. \A i \in 1..Len(q') : i \in 1..Len(q) \/ i = Len(q) + 1
      BY <1>t, <3>1
    <3>3. QED
      BY <1>4, <2>1, <3>1, <3>2
  <2>2. CASE indeg[scan] # 0
    BY <1>4, <1>t, <2>2
  <2>3. QED
    BY <2>1, <2>2
<1>10. \A i \in 1..Len(q) : i \in 1..Len(q')
  BY <1>4, <1>t
<1>11. QueuedOnce'
  <2>1. ASSUME NEW i \in 1..Len(q'), NEW j \in 1..Len(q'), q'[i] = q'[j] PROVE i = j
    BY <1>2, <1>5, <1>9, <2>1 DEF QueuedOnce
  <2>2. QED
    BY <2>1 DEF QueuedOnce
<1>12. ASSUME NEW x \in G!Handles
       PROVE  (\E i \in 1..Len(q') : q'[i] = x) <=> x < scan + 1 /\ indeg[x] = 0
  <2>1. (\E i \in 1..Len(q) : q[i] = x) <=> x < scan /\ indeg[x] = 0
    BY <1>1, <1>2 DEF QueuedReady
  <2>2. x < scan + 1 <=> x < scan \/ x = scan
    BY <1>t
  <2>3. ASSUME NEW i \in 1..Len(q'), q'[i] = x PROVE x < scan + 1 /\ indeg[x] = 0
    BY <1>9, <2>1, <2>2, <2>3
  <2>4. ASSUME x < scan + 1, indeg[x] = 0 PROVE \E i \in 1..Len(q') : q'[i] = x
    <3>1. CASE x < scan
      BY <1>4, <1>10, <2>1, <2>4, <3>1
    <3>2. CASE x = scan
      <4>1. Len(q) + 1 \in 1..Len(q') /\ q'[Len(q) + 1] = x
        BY <1>4, <1>t, <2>4, <3>2
      <4>2. QED
        BY <4>1
    <3>3. QED
      BY <2>2, <2>4, <3>1, <3>2
  <2>5. QED
    BY <2>3, <2>4
<1>13. QueuedReady'
  <2>1. CASE scan = gnodes
    <3>1. \A x \in G!Handles : x < scan + 1
      BY <1>t, <2>1
    <3>2. gpc' = "call" /\ indeg' = indeg
      BY <1>1, <2>1
    <3>3. QED
      BY <1>3, <1>12, <3>1, <3>2 DEF QueuedReady, Running
  <2>2. CASE scan # gnodes
    <3>1. gpc' = "sources" /\ indeg' = indeg /\ scan' = scan + 1
      BY <1>1, <2>2
    <3>2. QED
      BY <1>3, <1>12, <3>1 DEF QueuedReady, Running
  <2>3. QED
    BY <2>1, <2>2
<1>14. QED
  BY <1>3, <1>7, <1>8, <1>11, <1>13 DEF GraphInv

\* The node called next has no edge from a node that has not returned.
LEMMA NextIsReady ==
  ASSUME GraphInv, gpc = "call", qh < Len(q)
  PROVE  /\ q[qh + 1] \in G!Handles
         /\ \A k \in 1..Len(edges) : edges[k][2] = q[qh + 1] => \E j \in 1..qh : ran[j] = edges[k][1]
<1>1. /\ Len(q) \in Nat /\ qh \in Nat /\ qh + 1 \in 1..Len(q) /\ q[qh + 1] \in G!Handles
      /\ RanFront /\ QueuedReady
  BY LenProperties, ElementOfSeq DEF GraphInv, GraphType
<1>2. indeg[q[qh + 1]] = 0
  BY <1>1 DEF QueuedReady, Running
<1>3. ASSUME NEW k \in 1..Len(edges), edges[k][2] = q[qh + 1]
      PROVE  \E j \in 1..qh : ran[j] = edges[k][1]
  <2>1. k \in Relaxed
    BY <1>1, <1>2, <1>3, CountZero
  <2>2. edges[k][1] \in {q[i] : i \in 1..qh}
    BY <2>1 DEF Relaxed, GraphReturned
  <2>3. PICK i \in 1..qh : q[i] = edges[k][1]
    BY <2>2
  <2>4. ran[i] = q[i]
    BY <1>1 DEF RanFront
  <2>5. QED
    BY <2>3, <2>4
<1>4. QED
  BY <1>1, <1>3

LEMMA GraphCallNode ==
  ASSUME GraphInv, G!CallNode
  PROVE  GraphInv'
<1> DEFINE x == q[qh + 1]
<1>1. /\ gpc = "call" /\ qh < Len(q) /\ gpc' = "after" /\ scan' = 1 /\ qh' = qh + 1
      /\ ran' = Append(ran, x)
      /\ UNCHANGED <<gnodes, edges, commit, computes, indeg, q, promised>>
  BY DEF G!CallNode, G!bvars
<1>2. /\ GraphType /\ Phases /\ RanFront /\ QueuedOnce /\ CountedIn /\ QueuedReady
      /\ SourcesFirst /\ NoneBlocked /\ PromisedEdges
  BY DEF GraphInv
<1>3. /\ x \in G!Handles
      /\ \A k \in 1..Len(edges) : edges[k][2] = x => \E j \in 1..qh : ran[j] = edges[k][1]
  BY <1>1, NextIsReady
<1>t. /\ gnodes \in Nat /\ Len(q) \in Nat /\ qh \in Nat /\ ran \in Seq(G!Handles) /\ Len(ran) = qh
      /\ G!Handles' = G!Handles
  BY <1>1, <1>2, LenProperties DEF GraphType, RanFront, G!Handles
<1>4. /\ ran' \in Seq(G!Handles) /\ Len(ran') = qh + 1 /\ ran'[qh + 1] = x
      /\ \A i \in 1..qh : ran'[i] = ran[i]
  BY <1>1, <1>3, <1>t, AppendProperties
<1> HIDE DEF x
<1>9. \A i \in 1..(qh + 1) : i \in 1..qh \/ i = qh + 1
  BY <1>t
<1>5. GraphType' /\ Phases'
  BY <1>1, <1>2, <1>4, <1>t DEF GraphType, Phases, Running
<1>6. RanFront'
  <2>1. \A i \in 1..(qh + 1) : ran'[i] = q[i]
    BY <1>2, <1>4, <1>9 DEF RanFront, x
  <2>2. QED
    BY <1>1, <1>4, <2>1 DEF RanFront
<1>7. Relaxed' = Relaxed
  <2>1. GraphReturned' = GraphReturned
    BY <1>1, <1>t DEF GraphReturned
  <2>2. QED
    BY <1>1, <2>1, EdgesTyped DEF Relaxed
<1>8. CountedIn' /\ QueuedOnce' /\ QueuedReady'
  <2>1. Waiting' = Waiting
    BY <1>1, <1>t, <1>7 DEF Waiting
  <2>2. CountedIn'
    BY <1>1, <1>2, <1>t, <2>1 DEF CountedIn
  <2>3. QueuedOnce' /\ QueuedReady'
    BY <1>1, <1>2, <1>t DEF QueuedOnce, QueuedReady, Running
  <2>4. QED
    BY <2>2, <2>3
<1>10. SourcesFirst'
  <2>1. ASSUME NEW i \in 1..(qh + 1), NEW k \in 1..Len(edges), edges[k][2] = ran'[i]
        PROVE  \E j \in 1..(i - 1) : ran'[j] = edges[k][1]
    <3>1. CASE i \in 1..qh
      <4>1. PICK j \in 1..(i - 1) : ran[j] = edges[k][1]
        <5>1. edges[k][2] = ran[i]
          BY <1>4, <1>t, <2>1, <3>1
        <5>2. QED
          BY <1>2, <1>t, <3>1, <5>1 DEF SourcesFirst
      <4>2. j \in 1..qh
        BY <1>t, <3>1
      <4>3. QED
        BY <1>4, <4>1, <4>2
    <3>2. CASE i = qh + 1
      <4>1. PICK j \in 1..qh : ran[j] = edges[k][1]
        BY <1>3, <1>4, <2>1, <3>2
      <4>2. j \in 1..(i - 1)
        BY <1>t, <3>2
      <4>3. QED
        BY <1>4, <4>1, <4>2
    <3>3. QED
      BY <1>9, <3>1, <3>2
  <2>2. Len(ran') = qh + 1 /\ edges' = edges
    BY <1>1, <1>4
  <2>3. ASSUME NEW i \in 1..Len(ran'), NEW k \in 1..Len(edges'), edges'[k][2] = ran'[i]
        PROVE  \E j \in 1..(i - 1) : ran'[j] = edges'[k][1]
    BY <2>1, <2>2, <2>3
  <2>4. QED
    BY <2>3, Zenon DEF SourcesFirst
<1>11. NoneBlocked'
  <2>1. G!Blocked' = G!Blocked
    BY <1>1, <1>t DEF G!Blocked, G!Incoming
  <2>2. x \notin G!Blocked
    <3>1. SUFFICES ASSUME NEW B \in SUBSET G!Handles, x \in B,
                          \A y \in B : \E k \in G!Incoming(y) : edges[k][1] \in B
                   PROVE  FALSE
      BY DEF G!Blocked
    <3>2. PICK k \in G!Incoming(x) : edges[k][1] \in B
      BY <3>1
    <3>3. PICK j \in 1..qh : ran[j] = edges[k][1]
      BY <1>3, <3>2, EdgesTyped DEF G!Incoming
    <3>4. ran[j] \in G!Blocked
      BY <3>1, <3>2, <3>3 DEF G!Blocked
    <3>5. QED
      BY <1>2, <1>t, <3>4 DEF NoneBlocked
  <2>3. ASSUME NEW i \in 1..(qh + 1) PROVE ran'[i] \notin G!Blocked
    BY <1>2, <1>4, <1>9, <1>t, <2>2 DEF NoneBlocked
  <2>4. QED
    BY <1>4, <2>1, <2>3 DEF NoneBlocked
<1>12. PromisedEdges'
  BY <1>1, <1>2 DEF PromisedEdges
<1>13. QED
  BY <1>5, <1>6, <1>8, <1>10, <1>11, <1>12 DEF GraphInv

LEMMA GraphRelaxEdge ==
  ASSUME GraphInv, G!RelaxEdge
  PROVE  GraphInv'
<1> DEFINE e == scan
           n == q[qh]
           x == edges[e][2]
<1>1. /\ gpc = "after" /\ e <= Len(edges) /\ scan' = e + 1
      /\ IF edges[e][1] = n THEN G!Relax(x) ELSE UNCHANGED <<indeg, q>>
      /\ UNCHANGED <<gnodes, edges, commit, computes, gpc, qh, ran, promised>>
  BY DEF G!RelaxEdge, G!bvars
<1>2. /\ GraphType /\ Phases /\ RanFront /\ QueuedOnce /\ CountedIn /\ QueuedReady
  BY DEF GraphInv
<1>t. /\ gnodes \in Nat /\ q \in Seq(G!Handles) /\ Len(q) \in Nat /\ qh \in 1..Len(q)
      /\ e \in 1..Len(edges) /\ x \in G!Handles /\ indeg \in [G!Handles -> Nat]
      /\ scan \in Nat \ {0} /\ Len(edges) \in Nat
  BY <1>1, <1>2, LenProperties, EdgesTyped DEF GraphType, Phases
<1>3. SourcesFirst' /\ NoneBlocked' /\ PromisedEdges' /\ G!Handles' = G!Handles
  BY <1>1, Unmoved
<1>r. \A y \in G!Handles : (\E i \in 1..Len(q) : q[i] = y) <=> indeg[y] = 0
  BY <1>1, <1>2 DEF QueuedReady, Running
<1> HIDE DEF e, n, x
<1>4. CASE edges[e][1] # n
  <2>1. indeg' = indeg /\ q' = q
    BY <1>1, <1>4
  <2>2. GraphReturned' = GraphReturned
    BY <1>1, <2>1 DEF GraphReturned
  <2>3. \A k \in 1..Len(edges) : k < e + 1 <=> k < e \/ k = e
    BY <1>t
  <2>4. Relaxed' = Relaxed
    BY <1>1, <1>4, <2>1, <2>2, <2>3 DEF Relaxed, e, n
  <2>5. Waiting' = Waiting
    BY <1>1, <1>3, <2>4 DEF Waiting
  <2>6. CountedIn'
    BY <1>1, <1>2, <1>3, <2>1, <2>5 DEF CountedIn
  <2>7. GraphType' /\ Phases' /\ RanFront'
    <3>1. GraphType'
      BY <1>1, <1>2, <1>3, <1>t, <2>1, SMTT(30) DEF GraphType, e
    <3>2. Phases' /\ RanFront'
      BY <1>1, <1>2, <1>3, <1>t, <2>1 DEF Phases, RanFront
    <3>3. QED
      BY <3>1, <3>2
  <2>8. QueuedOnce' /\ QueuedReady'
    BY <1>1, <1>2, <1>3, <2>1 DEF QueuedOnce, QueuedReady
  <2>9. QED
    BY <1>3, <2>6, <2>7, <2>8 DEF GraphInv
<1>5. CASE edges[e][1] = n
  <2>1. G!Relax(x)
    BY <1>1, <1>5
  <2>2. e \notin Relaxed
    <3>1. ~(e < scan)
      BY <1>t DEF e
    <3>2. ASSUME NEW i \in 1..(qh - 1), q[i] = n PROVE FALSE
      <4>1. i \in 1..Len(q) /\ i # qh
        BY <1>t
      <4>2. QED
        BY <1>2, <1>t, <3>2, <4>1 DEF QueuedOnce, n
    <3>3. n \notin GraphReturned
      BY <1>1, <3>2 DEF GraphReturned
    <3>4. QED
      BY <1>5, <3>1, <3>3 DEF Relaxed
  <2>3. e \in Waiting[x]
    BY <1>t, <2>2 DEF Waiting, x
  <2>4. /\ IsFiniteSet(Waiting[x]) /\ Cardinality(Waiting[x]) \in Nat
        /\ Cardinality(Waiting[x] \ {e}) = Cardinality(Waiting[x]) - 1
        /\ Cardinality(Waiting[x]) # 0
    BY <1>t, <2>3, WaitingFinite, FS_RemoveElement, FS_EmptySet
  <2>5. indeg[x] = Cardinality(Waiting[x]) /\ indeg[x] \in Nat \ {0}
    BY <1>1, <1>2, <1>t, <2>4 DEF CountedIn
  <2>6. /\ indeg' = [indeg EXCEPT ![x] = indeg[x] - 1]
        /\ q' = IF indeg[x] = 1 THEN Append(q, x) ELSE q
    BY <2>1, <2>5 DEF G!Relax
  <2>7. /\ indeg' \in [G!Handles -> Nat] /\ indeg'[x] = indeg[x] - 1
        /\ \A y \in G!Handles : y # x => indeg'[y] = indeg[y]
    BY <1>t, <2>5, <2>6
  <2>8. /\ q' \in Seq(G!Handles)
        /\ indeg[x] = 1 => Len(q') = Len(q) + 1 /\ q'[Len(q) + 1] = x
        /\ indeg[x] # 1 => Len(q') = Len(q)
        /\ \A i \in 1..Len(q) : q'[i] = q[i]
    BY <1>t, <2>6, AppendProperties
  <2>9. \A i \in 1..Len(q') : (i \in 1..Len(q) /\ q'[i] = q[i])
                                \/ (indeg[x] = 1 /\ i = Len(q) + 1 /\ q'[i] = x)
    <3>1. CASE indeg[x] = 1
      <4>1. Len(q') = Len(q) + 1 /\ q'[Len(q) + 1] = x
        BY <2>8, <3>1
      <4>2. \A i \in 1..Len(q') : i \in 1..Len(q) \/ i = Len(q) + 1
        BY <1>t, <4>1
      <4>3. QED
        BY <2>8, <3>1, <4>1, <4>2
    <3>2. CASE indeg[x] # 1
      BY <1>t, <2>8, <3>2
    <3>3. QED
      BY <3>1, <3>2
  <2>10. \A i \in 1..Len(q) : i \in 1..Len(q') /\ q[i] # x
    <3>1. Len(q') = Len(q) \/ Len(q') = Len(q) + 1
      BY <2>8
    <3>2. \A i \in 1..Len(q) : i \in 1..Len(q')
      BY <1>t, <3>1
    <3>3. indeg[x] # 0
      BY <2>5
    <3>4. \A i \in 1..Len(q) : q[i] # x
      BY <1>r, <1>t, <3>3
    <3>5. QED
      BY <3>2, <3>4
  <2>11. GraphType' /\ Phases' /\ RanFront'
    <3>1. Len(q') \in Nat /\ qh \in 1..Len(q') /\ scan' \in Nat \ {0}
      BY <1>1, <1>t, <2>8, SMTT(30) DEF e
    <3>2. GraphType'
      BY <1>1, <1>2, <1>3, <1>t, <2>7, <2>8, <3>1 DEF GraphType
    <3>3. Phases'
      BY <1>1, <1>t DEF Phases
    <3>4. RanFront'
      <4>1. \A i \in 1..qh : i \in 1..Len(q)
        BY <1>t
      <4>2. QED
        BY <1>1, <1>2, <2>8, <4>1 DEF RanFront
    <3>5. QED
      BY <3>2, <3>3, <3>4
  <2>12. q'[qh] = n /\ GraphReturned' = GraphReturned
    <3>1. \A i \in 1..(qh - 1) : q'[i] = q[i]
      BY <1>t, <2>8
    <3>2. GraphReturned' = {q'[i] : i \in 1..(qh - 1)} /\ GraphReturned = {q[i] : i \in 1..(qh - 1)}
      BY <1>1 DEF GraphReturned
    <3>3. QED
      BY <1>t, <2>8, <3>1, <3>2 DEF n
  <2>13. Relaxed' = Relaxed \cup {e}
    <3>1. \A k \in 1..Len(edges) : k < e + 1 <=> k < e \/ k = e
      BY <1>t
    <3>2. Relaxed' = {k \in 1..Len(edges) : edges[k][1] \in GraphReturned \/ (k < e + 1 /\ edges[k][1] = n)}
      BY <1>1, <2>12 DEF Relaxed
    <3>3. Relaxed = {k \in 1..Len(edges) : edges[k][1] \in GraphReturned \/ (k < e /\ edges[k][1] = n)}
      BY <1>1 DEF Relaxed, e, n
    <3>4. QED
      BY <1>5, <1>t, <3>1, <3>2, <3>3
  <2>14. \A y \in G!Handles : Waiting'[y] = IF y = x THEN Waiting[x] \ {e} ELSE Waiting[y]
    <3>1. ASSUME NEW y \in G!Handles
          PROVE  /\ Waiting'[y] = {k \in 1..Len(edges) : edges[k][2] = y /\ k \notin Relaxed \cup {e}}
                 /\ Waiting[y] = {k \in 1..Len(edges) : edges[k][2] = y /\ k \notin Relaxed}
      BY <1>1, <1>3, <2>13 DEF Waiting
    <3>2. ASSUME NEW y \in G!Handles, y # x PROVE Waiting'[y] = Waiting[y]
      <4>1. edges[e][2] # y
        BY <3>2 DEF x
      <4>2. \A k \in 1..Len(edges) :
              (edges[k][2] = y /\ k \notin Relaxed \cup {e}) <=> (edges[k][2] = y /\ k \notin Relaxed)
        BY <4>1
      <4>3. QED
        BY <3>1, <4>2
    <3>3. Waiting'[x] = Waiting[x] \ {e}
      BY <1>t, <3>1
    <3>4. QED
      BY <3>2, <3>3
  <2>15. CountedIn'
    <3>1. ASSUME NEW y \in G!Handles PROVE indeg'[y] = Cardinality(Waiting'[y])
      <4>1. CASE y = x
        BY <1>t, <2>4, <2>5, <2>7, <2>14, <4>1
      <4>2. CASE y # x
        <5>1. Waiting'[y] = Waiting[y] /\ indeg'[y] = indeg[y] /\ indeg[y] = Cardinality(Waiting[y])
          BY <1>1, <1>2, <2>7, <2>14, <4>2 DEF CountedIn
        <5>2. QED
          BY <5>1
      <4>3. QED
        BY <4>1, <4>2
    <3>2. QED
      BY <1>1, <1>3, <3>1 DEF CountedIn
  <2>16. QueuedOnce'
    <3>1. ASSUME NEW i \in 1..Len(q'), NEW j \in 1..Len(q'), q'[i] = q'[j] PROVE i = j
      BY <1>2, <2>9, <2>10, <3>1 DEF QueuedOnce
    <3>2. QED
      BY <3>1 DEF QueuedOnce
  <2>17. ASSUME NEW y \in G!Handles PROVE (\E i \in 1..Len(q') : q'[i] = y) <=> indeg'[y] = 0
    <3>1. CASE y # x
      <4>1. (\E i \in 1..Len(q') : q'[i] = y) <=> \E i \in 1..Len(q) : q[i] = y
        BY <2>8, <2>9, <2>10, <3>1
      <4>2. QED
        BY <1>r, <2>7, <3>1, <4>1
    <3>2. CASE y = x /\ indeg[x] = 1
      <4>1. Len(q') = Len(q) + 1 /\ q'[Len(q) + 1] = y
        BY <2>8, <3>2
      <4>2. Len(q) + 1 \in 1..Len(q')
        BY <1>t, <4>1
      <4>3. indeg'[y] = 0
        BY <1>t, <2>7, <3>2
      <4>4. QED
        BY <4>1, <4>2, <4>3
    <3>3. CASE y = x /\ indeg[x] # 1
      <4>1. indeg'[y] # 0
        BY <1>t, <2>5, <2>7, <3>3
      <4>2. \A i \in 1..Len(q') : q'[i] # y
        BY <2>9, <2>10, <3>3
      <4>3. QED
        BY <4>1, <4>2
    <3>4. QED
      BY <3>1, <3>2, <3>3
  <2>18. QueuedReady'
    BY <1>1, <1>3, <2>17 DEF QueuedReady, Running
  <2>19. QED
    BY <1>3, <2>11, <2>15, <2>16, <2>18 DEF GraphInv
<1>6. QED
  BY <1>4, <1>5

LEMMA GraphAfterNode ==
  ASSUME GraphInv, G!AfterNode \/ G!Return \/ UNCHANGED G!vars
  PROVE  GraphInv'
<1>2. /\ GraphType /\ Phases /\ RanFront /\ QueuedOnce /\ CountedIn /\ QueuedReady
  BY DEF GraphInv
<1>t. /\ gnodes \in Nat /\ Len(q) \in Nat /\ qh \in 0..Len(q) /\ Len(edges) \in Nat /\ scan \in Nat
  BY <1>2, LenProperties, EdgesTyped DEF GraphType
<1>1. UNCHANGED <<gnodes, edges, commit, computes, indeg, q, qh, scan, ran, promised>>
  BY DEF G!AfterNode, G!Return, G!vars, G!bvars, G!qvars
<1>3. SourcesFirst' /\ NoneBlocked' /\ PromisedEdges' /\ G!Handles' = G!Handles
  BY <1>1, Unmoved
<1>4. \/ gpc = "after" /\ scan > Len(edges) /\ gpc' = "call"
      \/ gpc = "call" /\ qh = Len(q) /\ gpc' = "done"
      \/ gpc' = gpc
  BY DEF G!AfterNode, G!Return, G!vars
<1>5. GraphType' /\ Phases' /\ RanFront' /\ QueuedOnce' /\ QueuedReady'
  <2>1. GraphType'
    BY <1>1, <1>2, <1>3, <1>4 DEF GraphType, Running
  <2>2. Phases' /\ RanFront' /\ QueuedOnce'
    BY <1>1, <1>2, <1>4 DEF Phases, RanFront, QueuedOnce
  <2>3. QueuedReady'
    BY <1>1, <1>2, <1>3, <1>4 DEF QueuedReady, Running
  <2>4. QED
    BY <2>1, <2>2, <2>3
<1>6. Relaxed' = Relaxed
  <2>1. CASE gpc = "after" /\ scan > Len(edges) /\ gpc' = "call"
    <3>1. GraphReturned' = GraphReturned \cup {q[qh]}
      <4>1. qh \in 1..Len(q) /\ \A i \in 1..qh : i \in 1..(qh - 1) \/ i = qh
        BY <1>2, <1>t, <2>1 DEF Phases
      <4>2. GraphReturned' = {q[i] : i \in 1..qh} /\ GraphReturned = {q[i] : i \in 1..(qh - 1)}
        BY <1>1, <2>1 DEF GraphReturned
      <4>3. \A i \in 1..(qh - 1) : i \in 1..qh
        BY <1>t
      <4>4. qh \in 1..qh
        BY <4>1
      <4>5. QED
        BY <4>1, <4>2, <4>3, <4>4
    <3>2. \A k \in 1..Len(edges) : k < scan
      BY <1>t, <2>1
    <3>3. QED
      BY <1>1, <2>1, <3>1, <3>2 DEF Relaxed
  <2>2. CASE gpc = "call" /\ gpc' = "done"
    <3>1. GraphReturned' = GraphReturned
      BY <1>1, <2>2 DEF GraphReturned
    <3>2. QED
      BY <1>1, <2>2, <3>1 DEF Relaxed
  <2>3. CASE gpc' = gpc
    BY <1>1, <2>3 DEF Relaxed, GraphReturned
  <2>4. QED
    BY <1>4, <2>1, <2>2, <2>3
<1>7. CountedIn'
  <2>1. Waiting' = Waiting
    BY <1>1, <1>3, <1>6 DEF Waiting
  <2>2. QED
    BY <1>1, <1>2, <1>3, <1>4, <2>1 DEF CountedIn
<1>8. QED
  BY <1>3, <1>5, <1>7 DEF GraphInv

LEMMA GraphStep ==
  ASSUME GraphInv, [G!Next]_(G!vars)
  PROVE  GraphInv'
<1>1. ASSUME NEW a \in G!Handles, NEW b \in G!Handles,
             G!DependsOn(a, b) \/ G!SetNextTask(a, b) \/ G!SetNextFrameRoot(a, b)
      PROVE  GraphInv'
  BY <1>1, GraphCalls
<1>2. ASSUME NEW h \in G!Handles, G!PcscSetCommit(h) \/ G!PcscAddCompute(h)
      PROVE  GraphInv'
  BY <1>2, GraphCalls
<1>3. QED
  BY <1>1, <1>2, GraphAdd, GraphFinalize, GraphBegin, GraphQueueSource, GraphCallNode, GraphRelaxEdge,
     GraphAfterNode DEF G!Next

-----------------------------------------------------------------------------
(* What the invariant gives. *)

LEMMA GraphQueueFits ==
  ASSUME GraphInv
  PROVE  G!QueueFits
<1>1. q \in Seq(G!Handles) /\ Len(q) \in Nat /\ gnodes \in Nat /\ QueuedOnce
  BY LenProperties DEF GraphInv, GraphType
<1>2. q \in [1..Len(q) -> G!Handles]
  BY <1>1, LenProperties
<1>3. \A i, j \in 1..Len(q) : q[i] = q[j] => i = j
  BY <1>1 DEF QueuedOnce
<1>4. q \in Injection(1..Len(q), G!Handles)
  BY <1>2, <1>3 DEF Injection, IsInjective
<1>5. IsFiniteSet(1..Len(q)) /\ Cardinality(1..Len(q)) = Len(q)
  <2>1. PICK m \in Nat : m = Len(q)
    BY <1>1
  <2>2. m \in Int /\ 1 \in Int /\ (IF 1 > m THEN 0 ELSE m - 1 + 1) = m
    BY <2>1
  <2>3. /\ IsFiniteSet(1..m)
        /\ Cardinality(1..m) = IF 1 > m THEN 0 ELSE m - 1 + 1
    BY <2>2, FS_Interval, SMTT(30)
  <2>4. QED
    BY <2>1, <2>2, <2>3
<1>6. IsFiniteSet(G!Handles) /\ Cardinality(G!Handles) = gnodes
  BY <1>1, FS_Interval DEF G!Handles
<1>7. Cardinality(1..Len(q)) <= Cardinality(G!Handles)
  BY <1>4, <1>5, <1>6, FS_Injection
<1>8. QED
  BY <1>5, <1>6, <1>7 DEF G!QueueFits

LEMMA GraphRunnableRan ==
  ASSUME GraphInv
  PROVE  G!AllRunnableRan
<1> SUFFICES ASSUME gpc = "done" PROVE G!Range(ran) = G!Handles \ G!Blocked
  BY DEF G!AllRunnableRan
<1> DEFINE U == {x \in G!Handles : indeg[x] # 0}
<1>1. /\ q \in Seq(G!Handles) /\ ran \in Seq(G!Handles) /\ gnodes \in Nat
      /\ Len(q) \in Nat /\ DOMAIN ran = 1..Len(ran) /\ Len(ran) = Len(q) /\ qh = Len(q)
      /\ indeg \in [G!Handles -> Nat]
      /\ \A i \in 1..Len(q) : ran[i] = q[i]
  BY LenProperties DEF GraphInv, GraphType, RanFront, Phases
<1>2. \A x \in G!Handles : (\E i \in 1..Len(q) : q[i] = x) <=> indeg[x] = 0
  BY DEF GraphInv, QueuedReady, Running
<1>3. G!Range(ran) = G!Handles \ U
  <2>1. G!Range(ran) = {ran[i] : i \in 1..Len(q)}
    BY <1>1 DEF G!Range
  <2>2. ASSUME NEW x \in G!Range(ran) PROVE x \in G!Handles /\ indeg[x] = 0
    <3>1. PICK i \in 1..Len(q) : x = ran[i]
      BY <2>1
    <3>2. x \in G!Handles /\ x = q[i]
      BY <1>1, <3>1, ElementOfSeq
    <3>3. QED
      BY <1>2, <3>2
  <2>3. ASSUME NEW x \in G!Handles, indeg[x] = 0 PROVE x \in G!Range(ran)
    <3>1. PICK i \in 1..Len(q) : q[i] = x
      BY <1>2, <2>3
    <3>2. QED
      BY <1>1, <2>1, <3>1
  <2>4. QED
    BY <2>2, <2>3
<1>4. U \subseteq G!Blocked
  <2>1. ASSUME NEW x \in U PROVE \E k \in G!Incoming(x) : edges[k][1] \in U
    <3>1. Cardinality(Waiting[x]) # 0 /\ IsFiniteSet(Waiting[x])
      BY WaitingFinite DEF GraphInv, CountedIn
    <3>2. PICK k : k \in Waiting[x]
      BY <3>1, FS_EmptySet
    <3>3. k \in 1..Len(edges) /\ edges[k][2] = x /\ edges[k][1] \notin GraphReturned /\ k \in G!Incoming(x)
      BY <3>2, EdgesTyped DEF Waiting, Relaxed, G!Incoming
    <3>4. edges[k][1] \in G!Handles
      BY <3>3, EdgesTyped
    <3>5. \A i \in 1..Len(q) : q[i] # edges[k][1]
      BY <1>1, <3>3 DEF GraphReturned
    <3>6. QED
      BY <1>2, <3>3, <3>4, <3>5
  <2> HIDE DEF U
  <2>2. U \in SUBSET G!Handles
    BY DEF U
  <2>3. QED
    BY <2>1, <2>2 DEF G!Blocked
<1>5. \A x \in G!Range(ran) : x \notin G!Blocked
  BY <1>1 DEF GraphInv, NoneBlocked, G!Range
<1>6. QED
  BY <1>3, <1>4, <1>5

LEMMA GraphCommitLast ==
  ASSUME GraphInv
  PROVE  G!CommitAfterComputes
<1>1. DOMAIN ran = 1..Len(ran) /\ PromisedEdges /\ SourcesFirst
  BY LenProperties DEF GraphInv, GraphType
<1>2. ASSUME NEW p \in promised, NEW i \in DOMAIN ran, ran[i] = p[2]
      PROVE  \E j \in 1..i-1 : ran[j] = p[1]
  <2>1. PICK k \in 1..Len(edges) : edges[k] = p
    BY <1>1 DEF PromisedEdges
  <2>2. QED
    BY <1>1, <1>2, <2>1 DEF SourcesFirst
<1>3. QED
  BY <1>2 DEF G!CommitAfterComputes

-----------------------------------------------------------------------------
(* The refinement of TaskOrder. *)

Called == {q[i] : i \in 1..qh}

LEMMA TimesOnce ==
  ASSUME NEW s, Len(s) \in Nat, DOMAIN s = 1..Len(s), NEW x \in G!Handles,
         \A i, j \in 1..Len(s) : s[i] = s[j] => i = j
  PROVE  G!Times(s)[x] = IF \E i \in 1..Len(s) : s[i] = x THEN 1 ELSE 0
<1> DEFINE I == {i \in DOMAIN s : s[i] = x}
<1>1. G!Times(s)[x] = Cardinality(I)
  <2>1. G!Times(s)[x] = G!Cardinality(I)
    BY DEF G!Times
  <2>2. QED
    BY <2>1, GraphCardinality
<1>2. CASE \E i \in 1..Len(s) : s[i] = x
  <2>1. PICK i \in 1..Len(s) : s[i] = x
    BY <1>2
  <2>2. I = {i}
    BY <2>1
  <2>3. Cardinality({i}) = 1
    BY FS_Singleton
  <2>4. QED
    BY <1>1, <1>2, <2>2, <2>3
<1>3. CASE ~\E i \in 1..Len(s) : s[i] = x
  <2>1. I = {}
    BY <1>3
  <2>2. Cardinality({}) = 0
    BY FS_EmptySet
  <2>3. QED
    BY <1>1, <1>3, <2>1, <2>2
<1>4. QED
  BY <1>2, <1>3

LEMMA StartedIs ==
  GraphInv => G!Started = [x \in G!Handles |-> IF x \in Called THEN 1 ELSE 0]
<1> SUFFICES ASSUME GraphInv PROVE G!Started = [x \in G!Handles |-> IF x \in Called THEN 1 ELSE 0]
  OBVIOUS
<1>1. /\ ran \in Seq(G!Handles) /\ DOMAIN ran = 1..Len(ran) /\ Len(ran) = qh /\ Len(ran) \in Nat
      /\ Len(q) \in Nat /\ qh \in 0..Len(q)
      /\ RanFront /\ QueuedOnce
  BY LenProperties DEF GraphInv, GraphType, RanFront
<1>2. \A i, j \in 1..Len(ran) : ran[i] = ran[j] => i = j
  BY <1>1 DEF RanFront, QueuedOnce
<1>3. ASSUME NEW x \in G!Handles PROVE G!Started[x] = IF x \in Called THEN 1 ELSE 0
  <2>1. (\E i \in 1..Len(ran) : ran[i] = x) <=> x \in Called
    BY <1>1 DEF RanFront, Called
  <2>2. G!Times(ran)[x] = IF \E i \in 1..Len(ran) : ran[i] = x THEN 1 ELSE 0
    BY <1>1, <1>2, TimesOnce
  <2>3. QED
    BY <2>1, <2>2 DEF G!Started
<1>4. G!Started = [x \in G!Handles |-> G!Cardinality({i \in DOMAIN ran : ran[i] = x})]
  BY DEF G!Started, G!Times
<1>5. QED
  BY <1>3, <1>4

LEMMA FinishedIs ==
  GraphInv => G!Finished = [x \in G!Handles |-> IF x \in GraphReturned THEN 1 ELSE 0]
<1> SUFFICES ASSUME GraphInv PROVE G!Finished = [x \in G!Handles |-> IF x \in GraphReturned THEN 1 ELSE 0]
  OBVIOUS
<1> DEFINE s == IF gpc = "after" THEN SubSeq(ran, 1, qh - 1) ELSE ran
           m == IF gpc = "after" THEN qh - 1 ELSE qh
<1>1. /\ ran \in Seq(G!Handles) /\ DOMAIN ran = 1..Len(ran) /\ Len(ran) = qh /\ Len(ran) \in Nat
      /\ Len(q) \in Nat /\ qh \in 0..Len(q) /\ (gpc = "after" => qh \in 1..Len(q))
      /\ RanFront /\ QueuedOnce
  BY LenProperties DEF GraphInv, GraphType, RanFront, Phases
<1>2. Len(s) = m /\ m \in Nat /\ DOMAIN s = 1..m /\ m <= qh /\ \A i \in 1..m : s[i] = ran[i]
  <2>1. CASE gpc = "after"
    <3>1. s = [i \in 1..(qh - 1) |-> ran[i]]
      BY <1>1, <2>1
    <3>2. \A i \in 1..(qh - 1) : ran[i] \in G!Handles
      BY <1>1, ElementOfSeq
    <3>3. s \in Seq(G!Handles)
      BY <1>1, <2>1, <3>1, <3>2, IsASeq
    <3>4. Len(s) = qh - 1
      BY <1>1, <2>1, <3>1, <3>3, LenProperties
    <3>5. QED
      BY <1>1, <2>1, <3>1, <3>4
  <2>2. CASE gpc # "after"
    BY <1>1, <2>2
  <2>3. QED
    BY <2>1, <2>2
<1> HIDE DEF s
<1>3. \A i \in 1..m : i \in 1..qh /\ i \in 1..Len(q) /\ s[i] = q[i]
  <2>1. ASSUME NEW i \in 1..m PROVE i \in 1..qh /\ i \in 1..Len(q)
    BY <1>1, <1>2
  <2>2. QED
    BY <1>1, <1>2, <2>1 DEF RanFront
<1>r. GraphReturned = {q[i] : i \in 1..m}
  BY DEF GraphReturned
<1> HIDE DEF m
<1>4. \A i, j \in 1..Len(s) : s[i] = s[j] => i = j
  BY <1>1, <1>2, <1>3 DEF QueuedOnce
<1>5. ASSUME NEW x \in G!Handles PROVE G!Finished[x] = IF x \in GraphReturned THEN 1 ELSE 0
  <2>1. (\E i \in 1..Len(s) : s[i] = x) <=> x \in GraphReturned
    BY <1>2, <1>3, <1>r
  <2>2. G!Times(s)[x] = IF \E i \in 1..Len(s) : s[i] = x THEN 1 ELSE 0
    BY <1>2, <1>4, TimesOnce
  <2>3. G!Finished = G!Times(s)
    BY DEF G!Finished, s
  <2>4. QED
    BY <2>1, <2>2, <2>3
<1>6. G!Finished = [x \in G!Handles |-> G!Cardinality({i \in DOMAIN s : s[i] = x})]
  BY DEF G!Finished, G!Times, s
<1>7. QED
  BY <1>5, <1>6

LEMMA StartedNext == (GraphInv => G!Started = [x \in G!Handles |-> IF x \in Called THEN 1 ELSE 0])'
BY StartedIs, PTL

LEMMA FinishedNext == (GraphInv => G!Finished = [x \in G!Handles |-> IF x \in GraphReturned THEN 1 ELSE 0])'
BY FinishedIs, PTL

LEMMA GraphOrderInit == G!Init => G!Order!Init
<1> SUFFICES ASSUME G!Init PROVE G!Order!Init
  OBVIOUS
<1>1. GraphInv
  BY GraphInit
<1>2. qh = 0 /\ gpc = "build" /\ Called = {} /\ GraphReturned = {}
  BY DEF G!Init, Called, GraphReturned
<1>3. QED
  BY <1>1, <1>2, StartedIs, FinishedIs DEF G!Order!Init, G!Handles

LEMMA GraphOrderStep ==
  ASSUME GraphInv, [G!Next]_(G!vars)
  PROVE  G!OrderStep
<1>i. GraphInv'
  BY GraphStep
<1>s. /\ G!Started = [x \in G!Handles |-> IF x \in Called THEN 1 ELSE 0]
      /\ G!Finished = [x \in G!Handles |-> IF x \in GraphReturned THEN 1 ELSE 0]
  BY StartedIs, FinishedIs
<1>n. /\ G!Started' = [x \in G!Handles' |-> IF x \in Called' THEN 1 ELSE 0]
      /\ G!Finished' = [x \in G!Handles' |-> IF x \in GraphReturned' THEN 1 ELSE 0]
  BY <1>i, StartedNext, FinishedNext
<1>t. /\ qh \in 0..Len(q) /\ Len(q) \in Nat /\ gnodes \in Nat /\ q \in Seq(G!Handles)
      /\ (gpc = "after" => qh >= 1) /\ QueuedOnce /\ QueuedReady
  BY LenProperties DEF GraphInv, GraphType, Phases
<1>1. CASE qh = 0 /\ qh' = 0
  <2>1. Called = {} /\ Called' = {} /\ GraphReturned = {} /\ GraphReturned' = {}
    BY <1>1 DEF Called, GraphReturned
  <2>2. G!Order!Build
    BY <1>s, <1>n, <2>1 DEF G!Order!Build, G!Handles
  <2>3. QED
    BY <2>2 DEF G!OrderStep, G!Order!Next
<1>2. CASE G!CallNode
  <2> DEFINE x == q[qh + 1]
  <2>1. /\ gpc = "call" /\ qh < Len(q) /\ gpc' = "after" /\ qh' = qh + 1
        /\ UNCHANGED <<gnodes, edges, q>>
    BY <1>2 DEF G!CallNode, G!bvars
  <2>2. G!Handles' = G!Handles /\ qh + 1 \in 1..Len(q) /\ qh \in Nat
    BY <1>t, <2>1 DEF G!Handles
  <2>3. x \in G!Handles
    BY <1>t, <2>2, ElementOfSeq
  <2>4. GraphReturned' = GraphReturned
    BY <1>t, <2>1 DEF GraphReturned
  <2>5. Called' = Called \cup {x}
    <3>1. Called' = {q[i] : i \in 1..(qh + 1)}
      BY <2>1 DEF Called
    <3>2. \A i \in 1..(qh + 1) : i \in 1..qh \/ i = qh + 1
      BY <1>t
    <3>3. \A i \in 1..qh : i \in 1..(qh + 1)
      BY <1>t
    <3>4. qh + 1 \in 1..(qh + 1)
      BY <2>2
    <3>5. QED
      BY <3>1, <3>2, <3>3, <3>4 DEF Called
  <2>6. x \notin Called
    <3>1. \A i \in 1..qh : i \in 1..Len(q) /\ i # qh + 1
      BY <1>t
    <3>2. QED
      BY <1>t, <2>2, <3>1 DEF Called, QueuedOnce
  <2>7. ASSUME NEW k \in DOMAIN edges, edges[k][2] = x PROVE G!Finished[edges[k][1]] = 1
    <3>1. k \in 1..Len(edges) /\ edges[k][1] \in G!Handles
      BY EdgesTyped
    <3>2. indeg[x] = 0
      BY <1>t, <2>1, <2>2, <2>3 DEF QueuedReady, Running
    <3>3. k \in Relaxed
      BY <2>1, <2>3, <2>7, <3>1, <3>2, CountZero
    <3>4. edges[k][1] \in GraphReturned
      BY <2>1, <3>3 DEF Relaxed
    <3>5. QED
      BY <1>s, <3>1, <3>4
  <2> HIDE DEF x
  <2>8. G!Started' = [G!Started EXCEPT ![x] = 1] /\ G!Finished' = G!Finished /\ G!Started[x] = 0
    BY <1>s, <1>n, <2>2, <2>3, <2>4, <2>5, <2>6
  <2>9. G!Order!Start(x)
    BY <2>1, <2>7, <2>8 DEF G!Order!Start
  <2>10. QED
    BY <2>3, <2>9 DEF G!OrderStep, G!Order!Next, G!Handles
<1>3. CASE G!AfterNode
  <2> DEFINE x == q[qh]
  <2>1. /\ gpc = "after" /\ gpc' = "call" /\ UNCHANGED <<gnodes, edges, q, qh>>
    BY <1>3 DEF G!AfterNode, G!bvars, G!qvars
  <2>2. G!Handles' = G!Handles /\ qh \in 1..Len(q)
    BY <1>t, <2>1 DEF G!Handles
  <2>3. x \in G!Handles
    BY <1>t, <2>2, ElementOfSeq
  <2>4. Called' = Called /\ x \in Called
    BY <2>1, <2>2 DEF Called
  <2>5. GraphReturned' = GraphReturned \cup {x}
    <3>1. GraphReturned' = {q[i] : i \in 1..qh} /\ GraphReturned = {q[i] : i \in 1..(qh - 1)}
      BY <2>1 DEF GraphReturned
    <3>2. \A i \in 1..qh : i \in 1..(qh - 1) \/ i = qh
      BY <2>2
    <3>3. \A i \in 1..(qh - 1) : i \in 1..qh
      BY <2>2
    <3>4. qh \in 1..qh
      BY <2>2
    <3>5. QED
      BY <3>1, <3>2, <3>3, <3>4
  <2>6. x \notin GraphReturned
    <3>1. \A i \in 1..(qh - 1) : i \in 1..Len(q) /\ i # qh
      BY <1>t
    <3>2. QED
      BY <1>t, <2>1, <2>2, <3>1 DEF GraphReturned, QueuedOnce
  <2> HIDE DEF x
  <2>7. G!Started' = G!Started /\ G!Finished' = [G!Finished EXCEPT ![x] = 1] /\ G!Started[x] = 1 /\ G!Finished[x] = 0
    BY <1>s, <1>n, <2>2, <2>3, <2>4, <2>5, <2>6
  <2>8. G!Order!Finish(x)
    BY <2>1, <2>7 DEF G!Order!Finish
  <2>9. QED
    BY <2>3, <2>8 DEF G!OrderStep, G!Order!Next, G!Handles
<1>4. CASE G!RelaxEdge \/ G!Return \/ UNCHANGED G!vars
  <2>1. UNCHANGED <<gnodes, edges, qh>> /\ (gpc' = gpc \/ (gpc = "call" /\ gpc' = "done"))
    BY <1>4 DEF G!RelaxEdge, G!Return, G!vars, G!bvars, G!qvars
  <2>2. \A i \in 1..Len(q) : q'[i] = q[i]
    <3>1. CASE q' = q
      BY <3>1
    <3>2. CASE \E y \in G!Handles : q' = Append(q, y)
      BY <1>t, <3>2, AppendProperties
    <3>3. q' = q \/ \E y \in G!Handles : q' = Append(q, y)
      <4>1. CASE G!RelaxEdge
        <5>1. edges[scan][2] \in G!Handles
          <6>1. scan \in 1..Len(edges)
            BY <4>1, EdgesTyped DEF G!RelaxEdge, GraphInv, GraphType
          <6>2. QED
            BY <6>1, EdgesTyped
        <5>2. QED
          BY <4>1, <5>1 DEF G!RelaxEdge, G!Relax
      <4>2. CASE G!Return \/ UNCHANGED G!vars
        BY <4>2 DEF G!Return, G!vars, G!bvars, G!qvars
      <4>3. QED
        BY <1>4, <4>1, <4>2
    <3>4. QED
      BY <3>1, <3>2, <3>3
  <2>3. Called' = Called
    <3>1. \A i \in 1..qh : q'[i] = q[i]
      BY <1>t, <2>2
    <3>2. QED
      BY <2>1, <3>1 DEF Called
  <2>4. GraphReturned' = GraphReturned
    <3>1. \A i \in 1..(IF gpc = "after" THEN qh - 1 ELSE qh) : q'[i] = q[i]
      BY <1>t, <2>2
    <3>2. (IF gpc' = "after" THEN qh' - 1 ELSE qh') = (IF gpc = "after" THEN qh - 1 ELSE qh)
      BY <2>1
    <3>3. QED
      BY <3>1, <3>2 DEF GraphReturned
  <2>5. UNCHANGED <<gnodes, edges, G!Started, G!Finished>>
    BY <1>s, <1>n, <2>1, <2>3, <2>4 DEF G!Handles
  <2>6. QED
    BY <2>5 DEF G!OrderStep
<1>5. (qh = 0 /\ qh' = 0) \/ G!CallNode \/ G!AfterNode \/ G!RelaxEdge \/ G!Return \/ UNCHANGED G!vars
  <2>1. gpc \in {"build", "sources"} => qh = 0
    BY DEF GraphInv, Phases
  <2>2. ASSUME NEW a \in G!Handles, NEW b \in G!Handles,
               G!DependsOn(a, b) \/ G!SetNextTask(a, b) \/ G!SetNextFrameRoot(a, b)
        PROVE  gpc = "build" /\ qh' = qh
    BY <2>2 DEF G!DependsOn, G!SetNextTask, G!SetNextFrameRoot, G!Call, G!qvars
  <2>3. ASSUME NEW h \in G!Handles, G!PcscSetCommit(h) \/ G!PcscAddCompute(h)
        PROVE  gpc = "build" /\ qh' = qh
    BY <2>3 DEF G!PcscSetCommit, G!PcscAddCompute, G!Call, G!qvars
  <2>4. G!Add \/ G!PcscFinalizeEdges => gpc = "build" /\ qh' = qh
    BY DEF G!Add, G!PcscFinalizeEdges, G!Call, G!qvars
  <2>5. G!Begin \/ G!QueueSource => gpc \in {"build", "sources"} /\ qh' = qh
    BY DEF G!Begin, G!QueueSource
  <2>6. QED
    BY <2>1, <2>2, <2>3, <2>4, <2>5 DEF G!Next
<1>6. QED
  BY <1>1, <1>2, <1>3, <1>4, <1>5

\* The inductive invariant of the graph that one thread builds and runs.
LEMMA GraphAlways == Spec => [](which = "graph" => GraphInv)
<1> DEFINE I == which = "graph" => GraphInv
<1>1. Init => I
  BY GraphInit DEF Init
<1>2. I /\ [Next]_all => I'
  <2> SUFFICES ASSUME I, [Next]_all, which' = "graph" PROVE GraphInv'
    OBVIOUS
  <2>1. GraphInv /\ [G!Next]_graph
    BY OneAtATime
  <2>2. [G!Next]_(G!vars)
    BY <2>1 DEF graph, G!vars, G!bvars, G!qvars
  <2>3. QED
    BY <2>1, <2>2, GraphStep
<1>3. QED
  BY <1>1, <1>2, PTL DEF Spec, all

\* For every graph: the queue of dispatch_inline fits, exactly the nodes that no
\* cycle holds back have run when it returns, and a commit runs after its computes.
THEOREM InlineStaysSound == Spec => []InlineSound
<1>1. (which = "graph" => GraphInv) => InlineSound
  BY GraphQueueFits, GraphRunnableRan, GraphCommitLast DEF InlineSound
<1>2. QED
  BY <1>1, GraphAlways, PTL

\* dispatch_inline implements TaskOrder: a node runs once, after its predecessors.
THEOREM InlineRefinesOrder == Spec => ImplementsOrder
<1> DEFINE I == which = "graph" => GraphInv
<1>1. Init => G!Order!Init
  BY GraphOrderInit DEF Init
<1>2. I /\ [Next]_all => [which = "graph" => G!OrderStep]_graph
  <2> SUFFICES ASSUME I, [Next]_all, which = "graph" PROVE G!OrderStep
    OBVIOUS
  <2>1. GraphInv /\ [G!Next]_graph
    BY OneAtATime
  <2>2. [G!Next]_(G!vars)
    BY <2>1 DEF graph, G!vars, G!bvars, G!qvars
  <2>3. QED
    BY <2>1, <2>2, GraphOrderStep
<1>3. QED
  BY <1>1, <1>2, GraphAlways, PTL DEF Spec, all, ImplementsOrder

HIDE GraphConstants DEF G!CapAssumption

-----------------------------------------------------------------------------
(* Pools *)

LEMMA PoolConstants == P!PoolAssumption
BY Constants

USE PoolConstants DEF P!PoolAssumption
\* Finite sets as PoolMemory knows them.
LEMMA PoolCardinality ==
  P!Cardinality(Classes) = Cardinality(Classes) /\ P!IsFiniteSet(Classes) = IsFiniteSet(Classes)
BY DEF P!Cardinality, P!IsFiniteSet, Cardinality, IsFiniteSet



Pointers == P!Blocks \cup {P!Null}
Records == [key : Classes, head : Pointers]
Column(c) == {c} \X (1..BlocksPer)
Busy == {"cached", "shared", "next", "cas", "fresh"}
Freeing == {u \in Remotes : ppc[u] \in {"link", "push"}}

Places == {"idle", "free", "link", "push"} \cup Busy

PoolType ==
  /\ pcommitted \in [Classes -> 0..BlocksPer]
  /\ remoteHead \in [Classes -> Pointers] /\ link \in [P!Blocks -> Pointers]
  /\ tls \in Seq(Records)
  /\ held \subseteq [block : P!Blocks, size : Classes]
  /\ ppc \in [P!Threads -> Places] /\ parg \in [P!Threads -> Pointers]
  /\ want \in Classes \cup {0} /\ old \in Pointers /\ phead \in Pointers /\ pnext \in Pointers

\* Where each thread is in its calls, and with which block.
Calls ==
  /\ ppc[Owner] \in {"idle", "free"} \cup Busy
  /\ ppc[Owner] \in Busy => want \in Classes
  /\ ppc[Owner] = "idle" => old = P!Null
  /\ ppc[Owner] = "free" => old \in P!Blocks
  /\ ppc[Owner] \in Busy /\ old # P!Null => [block |-> old, size |-> old[1]] \in held
  /\ ppc[Owner] \in {"next", "cas"} => phead \in P!Blocks
  /\ ppc[Owner] = "cas" => pnext = link[phead]
  /\ \A t \in Remotes : ppc[t] \in {"idle", "link", "push"}
  /\ \A t \in Freeing : parg[t] \in P!Blocks

OwnSize == \A h \in held : h.size = h.block[1]
KeysOnce(tab) == \A i, j \in 1..Len(tab) : tab[i].key = tab[j].key => i = j

\* No block is freed by two threads at once.
FreedOnce ==
  /\ \A t, u \in Freeing : parg[t] = parg[u] => t = u
  /\ ppc[Owner] = "free" => \A t \in Freeing : parg[t] # old

Held == {h.block : h \in held}

Out(c) == (P!Moving \cup Held) \cap Column(c)

\* The two lists of a pool, from their heads, and the blocks outside of them.
Laid(c, links, cachedHead, sharedHead, out, n, cached, shared) ==
  /\ P!Chain(links, cached, cachedHead) /\ P!Chain(links, shared, sharedHead)
  /\ P!IsInjective(cached) /\ P!IsInjective(shared) /\ P!Range(cached) \cap P!Range(shared) = {}
  /\ (P!Range(cached) \cup P!Range(shared)) \cap out = {}
  /\ P!Range(cached) \cup P!Range(shared) \cup out = {c} \X (1..n)

\* Of the shared list only the owner takes: what it read as the head stays.
Reading(c, shared) == c = want /\ ppc[Owner] \in {"next", "cas"} => phead \in P!Range(shared)

PoolPlaced(c) ==
  \E cached \in Seq(Column(c)), shared \in Seq(Column(c)) :
    /\ Laid(c, link, P!CachedHead(tls, c), remoteHead[c], Out(c), pcommitted[c], cached, shared)
    /\ Reading(c, shared)

Listed == \A c \in Classes : PoolPlaced(c)

Book == /\ PoolType /\ Calls /\ OwnSize /\ KeysOnce(tls)
        /\ FreedOnce /\ P!Moving \cap Held = {}

PoolInv == Book /\ Listed

-----------------------------------------------------------------------------
(* Lists. *)

LEMMA Smallest ==
  ASSUME NEW B \in SUBSET Nat, B # {}
  PROVE  \E m \in B : \A n \in B : m <= n
<1> DEFINE R0 == OpToRel(<, Nat)
<1>1. IsWellFoundedOn(R0, Nat)
  BY NatLessThanWellFounded
<1>2. \A x, y \in Nat : <<x, y>> \in R0 <=> x < y
  BY DEF OpToRel
<1> HIDE DEF R0
<1>3. PICK m \in B : \A n \in B : ~(<<n, m>> \in R0)
  BY <1>1, WFMin
<1>4. ASSUME NEW n \in B PROVE m <= n
  <2>1. ~(<<n, m>> \in R0)
    BY <1>3
  <2>2. m \in Nat /\ n \in Nat
    OBVIOUS
  <2>3. ~(n < m)
    BY <1>2, <2>1, <2>2, Zenon
  <2>4. QED
    BY <2>2, <2>3
<1>5. QED
  BY <1>4

LEMMA BlocksAre ==
  /\ P!Null \notin P!Blocks
  /\ \A b \in P!Blocks : b[1] \in Classes /\ b \in Column(b[1])
  /\ \A c \in Classes : Column(c) \subseteq P!Blocks /\ \A b \in Column(c) : b[1] = c
BY DEF P!Blocks, P!Null, Column

LEMMA Unlinked ==
  ASSUME NEW A, NEW links, NEW h, h = P!Null
  PROVE  <<>> \in Seq(A) /\ P!Chain(links, <<>>, h) /\ P!IsInjective(<<>>) /\ P!Range(<<>>) = {}
<1>1. <<>> \in Seq(A) /\ Len(<<>>) = 0 /\ DOMAIN <<>> = {}
  BY EmptySeq
<1>2. QED
  BY <1>1 DEF P!Chain, P!IsInjective, P!Range

LEMMA ChainKept ==
  ASSUME NEW B, NEW s \in Seq(B), NEW links, NEW later, NEW h, P!Chain(links, s, h),
         \A x \in P!Range(s) : later[x] = links[x]
  PROVE  P!Chain(later, s, h)
<1>1. DOMAIN s = 1..Len(s)
  BY LenProperties
<1>2. \A i \in 1..Len(s) : s[i] \in P!Range(s)
  BY <1>1 DEF P!Range
<1>3. QED
  BY <1>2 DEF P!Chain

LEMMA Interval ==
  ASSUME NEW m \in Nat
  PROVE  IsFiniteSet(1..m) /\ Cardinality(1..m) = m
<1>1. m \in Int /\ 1 \in Int /\ m >= 0
  OBVIOUS
<1>2. QED
  BY <1>1, FS_Interval

LEMMA RangeIn ==
  ASSUME NEW B, NEW s \in Seq(B)
  PROVE  P!Range(s) \subseteq B
<1>1. DOMAIN s = 1..Len(s) /\ \A i \in 1..Len(s) : s[i] \in B
  BY LenProperties, ElementOfSeq
<1>2. QED
  BY <1>1 DEF P!Range

LEMMA ChainHead ==
  ASSUME NEW B, NEW s \in Seq(B), NEW links, NEW h, P!Chain(links, s, h), P!Null \notin B
  PROVE  /\ h = P!Null => s = <<>>
         /\ h # P!Null => s # <<>> /\ h = s[1] /\ h \in P!Range(s)
         /\ P!Range(s) \subseteq B
<1>1. DOMAIN s = 1..Len(s) /\ Len(s) \in Nat /\ (s # <<>> => Len(s) # 0) /\ \A i \in 1..Len(s) : s[i] \in B
  BY LenProperties, ElementOfSeq, EmptySeq
<1>2. s # <<>> => 1 \in 1..Len(s)
  BY <1>1
<1>3. QED
  BY <1>1, <1>2 DEF P!Chain, P!Range

LEMMA ChainPush ==
  ASSUME NEW B, NEW s \in Seq(B), NEW b \in B, NEW links, NEW later, NEW h, P!Chain(links, s, h),
         \A x \in P!Range(s) : later[x] = links[x], later[b] = h, P!IsInjective(s), b \notin P!Range(s)
  PROVE  /\ <<b>> \o s \in Seq(B) /\ P!Chain(later, <<b>> \o s, b) /\ P!IsInjective(<<b>> \o s)
         /\ P!Range(<<b>> \o s) = P!Range(s) \cup {b}
<1> DEFINE u == <<b>> \o s
           n == Len(s)
<1>1. n \in Nat /\ DOMAIN s = 1..n /\ <<b>> \in Seq(B) /\ Len(<<b>>) = 1 /\ <<b>>[1] = b
      /\ (n = 0 <=> s = <<>>)
  BY LenProperties, EmptySeq
<1>2. u \in Seq(B) /\ Len(u) = 1 + n /\ \A i \in 1..(1 + n) : u[i] = IF i <= 1 THEN <<b>>[i] ELSE s[i - 1]
  BY <1>1, ConcatProperties
<1> HIDE DEF u, n
<1>3. u[1] = b /\ \A i \in 1..n : u[i + 1] = s[i]
  BY <1>1, <1>2
<1>4. DOMAIN u = 1..(n + 1)
  BY <1>1, <1>2, LenProperties
<1>5. \A i \in 1..(n + 1) : i = 1 \/ (i - 1 \in 1..n /\ u[i] = s[i - 1])
  BY <1>1, <1>2
<1>6. \A i \in 1..n : s[i] \in P!Range(s) /\ i + 1 \in 1..(n + 1)
  BY <1>1 DEF P!Range
<1>7. P!Range(u) = P!Range(s) \cup {b}
  <2>1. 1 \in 1..(n + 1)
    BY <1>1
  <2>2. P!Range(s) = {s[i] : i \in 1..n} /\ P!Range(u) = {u[i] : i \in 1..(n + 1)}
    BY <1>1, <1>4 DEF P!Range
  <2>3. \A i \in 1..n : s[i] \in P!Range(u)
    BY <1>3, <1>6, <2>2
  <2>4. ASSUME NEW x \in P!Range(u) PROVE x \in P!Range(s) \cup {b}
    <3>1. PICK i \in 1..(n + 1) : u[i] = x
      BY <2>2
    <3>2. i = 1 \/ (i - 1 \in 1..n /\ u[i] = s[i - 1])
      BY <1>5
    <3>3. QED
      BY <1>3, <1>6, <3>1, <3>2
  <2>5. \A x \in P!Range(s) : x \in P!Range(u)
    BY <2>2, <2>3
  <2>6. b \in P!Range(u)
    BY <1>3, <2>1, <2>2
  <2>7. QED
    BY <2>4, <2>5, <2>6
<1>8. P!IsInjective(u)
  <2>1. ASSUME NEW i \in 1..(n + 1), NEW j \in 1..(n + 1), u[i] = u[j] PROVE i = j
    <3>1. \A k, l \in 1..n : s[k] = s[l] => k = l
      BY <1>1 DEF P!IsInjective
    <3>2. CASE i = 1 /\ j = 1
      BY <3>2
    <3>3. CASE i # 1 /\ j # 1
      BY <1>5, <2>1, <3>1, <3>3
    <3>4. CASE (i = 1) # (j = 1)
      BY <1>3, <1>5, <1>6, <2>1, <3>4
    <3>5. QED
      BY <3>2, <3>3, <3>4
  <2>2. QED
    BY <1>4, <2>1 DEF P!IsInjective
<1>9. P!Chain(later, u, b)
  <2>1. b = IF u = <<>> THEN P!Null ELSE u[1]
    BY <1>1, <1>2, <1>3, EmptySeq
  <2>2. ASSUME NEW i \in 1..(n + 1) PROVE later[u[i]] = IF i = n + 1 THEN P!Null ELSE u[i + 1]
    <3>1. CASE i = 1
      <4>1. CASE n = 0
        BY <1>1, <1>3, <3>1, <4>1 DEF P!Chain
      <4>2. CASE n # 0
        <5>1. h = s[1] /\ 1 \in 1..n
          BY <1>1, <4>2 DEF P!Chain
        <5>2. u[2] = s[1]
          BY <1>3, <5>1
        <5>3. QED
          BY <1>1, <1>3, <3>1, <4>2, <5>1, <5>2
      <4>3. QED
        BY <4>1, <4>2
    <3>2. CASE i # 1
      <4>1. i - 1 \in 1..n /\ u[i] = s[i - 1]
        BY <1>5, <3>2
      <4>2. later[u[i]] = IF i - 1 = n THEN P!Null ELSE s[i - 1 + 1]
        BY <1>6, <4>1 DEF P!Chain, n
      <4>3. i - 1 # n => i \in 1..n /\ u[i + 1] = s[i]
        BY <1>1, <1>3, <4>1
      <4>4. QED
        BY <1>1, <4>1, <4>2, <4>3
    <3>3. QED
      BY <3>1, <3>2
  <2>3. QED
    BY <1>1, <1>2, <2>1, <2>2 DEF P!Chain
<1>10. QED
  BY <1>2, <1>7, <1>8, <1>9 DEF u

LEMMA ChainPop ==
  ASSUME NEW B, NEW s \in Seq(B), NEW links, NEW h, P!Chain(links, s, h), h # P!Null, P!IsInjective(s)
  PROVE  /\ h \in P!Range(s) /\ h \in B /\ Tail(s) \in Seq(B)
         /\ P!Chain(links, Tail(s), links[h]) /\ P!IsInjective(Tail(s))
         /\ P!Range(Tail(s)) = P!Range(s) \ {h}
<1> DEFINE u == Tail(s)
           n == Len(s)
<1>1. s # <<>> /\ h = s[1]
  BY DEF P!Chain
<1>2. n \in Nat \ {0} /\ DOMAIN s = 1..n /\ \A i \in 1..n : s[i] \in B
  BY <1>1, LenProperties, EmptySeq, ElementOfSeq
<1>3. u \in Seq(B) /\ Len(u) = n - 1 /\ \A i \in 1..(n - 1) : u[i] = s[i + 1]
  BY <1>1, <1>2, HeadTailProperties
<1> HIDE DEF u, n
<1>4. DOMAIN u = 1..(n - 1) /\ 1 \in 1..n
  BY <1>2, <1>3, LenProperties
<1>5. \A i \in 1..(n - 1) : i + 1 \in 1..n /\ i + 1 # 1
  BY <1>2
<1>6. \A i \in 1..n : i = 1 \/ i - 1 \in 1..(n - 1)
  BY <1>2
<1>7. \A k, l \in 1..n : s[k] = s[l] => k = l
  BY <1>2 DEF P!IsInjective
<1>8. P!Range(s) = {s[i] : i \in 1..n} /\ P!Range(u) = {u[i] : i \in 1..(n - 1)}
  BY <1>2, <1>4 DEF P!Range
<1>9. P!Range(u) = P!Range(s) \ {h}
  <2>1. ASSUME NEW x \in P!Range(u) PROVE x \in P!Range(s) \ {h}
    BY <1>1, <1>3, <1>4, <1>5, <1>7, <1>8
  <2>2. ASSUME NEW x \in P!Range(s) \ {h} PROVE x \in P!Range(u)
    <3>1. PICK i \in 1..n : s[i] = x
      BY <1>8
    <3>2. i - 1 \in 1..(n - 1) /\ i - 1 + 1 = i
      BY <1>1, <1>2, <1>6, <3>1
    <3>3. u[i - 1] = x
      BY <1>3, <3>1, <3>2
    <3>4. QED
      BY <1>8, <3>2, <3>3
  <2>3. QED
    BY <2>1, <2>2
<1>10. P!IsInjective(u)
  <2>1. ASSUME NEW i \in 1..(n - 1), NEW j \in 1..(n - 1), u[i] = u[j] PROVE i = j
    <3>1. i + 1 = j + 1
      BY <1>3, <1>5, <1>7, <2>1
    <3>2. QED
      BY <3>1
  <2>2. QED
    BY <1>4, <2>1 DEF P!IsInjective
<1>11. P!Chain(links, u, links[h])
  <2>1. links[h] = IF n = 1 THEN P!Null ELSE s[2]
    <3>1. links[s[1]] = IF 1 = n THEN P!Null ELSE s[1 + 1]
      BY <1>4 DEF P!Chain, n
    <3>2. QED
      BY <1>1, <3>1
  <2>2. links[h] = IF u = <<>> THEN P!Null ELSE u[1]
    <3>1. CASE n = 1
      BY <1>3, <2>1, <3>1, EmptySeq
    <3>2. CASE n # 1
      <4>1. 1 \in 1..(n - 1) /\ u # <<>>
        BY <1>2, <1>3, <3>2, EmptySeq
      <4>2. u[1] = s[2]
        BY <1>3, <4>1
      <4>3. QED
        BY <2>1, <3>2, <4>1, <4>2
    <3>3. QED
      BY <3>1, <3>2
  <2>3. ASSUME NEW i \in 1..(n - 1) PROVE links[u[i]] = IF i = n - 1 THEN P!Null ELSE u[i + 1]
    <3>1. links[s[i + 1]] = IF i + 1 = n THEN P!Null ELSE s[i + 1 + 1]
      BY <1>5 DEF P!Chain, n
    <3>2. i # n - 1 => i + 1 \in 1..(n - 1)
      BY <1>2
    <3>3. QED
      BY <1>2, <1>3, <3>1, <3>2
  <2>4. QED
    BY <1>3, <2>2, <2>3 DEF P!Chain
<1>12. QED
  BY <1>1, <1>2, <1>3, <1>4, <1>8, <1>9, <1>10, <1>11 DEF u

-----------------------------------------------------------------------------
(* POOL_TLS: every pool has an entry of its own. *)

LEMMA Heads ==
  ASSUME NEW tab \in Seq(Records), KeysOnce(tab), NEW c \in Classes
  PROVE  /\ P!CachedHead(tab, c) \in Pointers
         /\ \A i \in 1..Len(tab) : tab[i].key = c => P!CachedHead(tab, c) = tab[i].head
         /\ (\A i \in 1..Len(tab) : tab[i].key # c) => P!CachedHead(tab, c) = P!Null
<1> DEFINE mine == {i \in DOMAIN tab : tab[i].key = c}
           k == CHOOSE i \in mine : TRUE
<1>1. DOMAIN tab = 1..Len(tab) /\ \A i \in 1..Len(tab) : tab[i] \in Records
  BY LenProperties, ElementOfSeq
<1>2. P!CachedHead(tab, c) = IF mine = {} THEN P!Null ELSE tab[k].head
  BY DEF P!CachedHead
<1>3. mine # {} => k \in mine
  OBVIOUS
<1>4. mine = {i \in 1..Len(tab) : tab[i].key = c}
  BY <1>1
<1> HIDE DEF mine, k
<1>5. ASSUME NEW i \in 1..Len(tab), tab[i].key = c PROVE P!CachedHead(tab, c) = tab[i].head
  <2>1. i \in mine /\ k \in mine
    BY <1>3, <1>4, <1>5
  <2>2. k = i
    BY <1>4, <2>1 DEF KeysOnce
  <2>3. QED
    BY <1>2, <2>1, <2>2
<1>6. P!CachedHead(tab, c) \in Pointers
  BY <1>1, <1>2, <1>3, <1>4 DEF Records, Pointers
<1>7. QED
  BY <1>2, <1>4, <1>5, <1>6

LEMMA RoomForKey ==
  ASSUME tls \in Seq(Records), KeysOnce(tls), NEW c \in Classes,
         \A i \in 1..Len(tls) : tls[i].key # c
  PROVE  Len(tls) < TlsSlots
<1> DEFINE f == [i \in 1..Len(tls) |-> tls[i].key]
<1>1. Len(tls) \in Nat /\ \A i \in 1..Len(tls) : tls[i].key \in Classes \ {c}
  <2>1. \A i \in 1..Len(tls) : tls[i] \in Records
    BY ElementOfSeq
  <2>2. QED
    BY <2>1, LenProperties DEF Records
<1>2. \A i, j \in 1..Len(tls) : f[i] = f[j] => i = j
  BY DEF KeysOnce
<1>3. f \in [1..Len(tls) -> Classes \ {c}] /\ DOMAIN f = 1..Len(tls)
  BY <1>1
<1> HIDE DEF f
<1>4. f \in Injection(1..Len(tls), Classes \ {c})
  BY <1>2, <1>3 DEF Injection, IsInjective, P!IsInjective
<1>5. /\ IsFiniteSet(Classes \ {c}) /\ Cardinality(Classes \ {c}) = Cardinality(Classes) - 1
      /\ Cardinality(Classes) \in Nat
  BY PoolCardinality, FS_RemoveElement, FS_CardinalityType
<1>6. IsFiniteSet(1..Len(tls)) /\ Cardinality(1..Len(tls)) = Len(tls)
  BY <1>1, Interval
<1>7. Cardinality(1..Len(tls)) <= Cardinality(Classes \ {c})
  BY <1>4, <1>5, <1>6, FS_Injection
<1>8. QED
  BY PoolCardinality, <1>1, <1>5, <1>6, <1>7

LEMMA TlsIs ==
  ASSUME tls \in Seq(Records), KeysOnce(tls), NEW c \in Classes
  PROVE  /\ P!Entries(c) \in Seq(Records) /\ P!SlotOf(c) \in 1..Len(P!Entries(c)) /\ KeysOnce(P!Entries(c))
         /\ P!Entries(c)[P!SlotOf(c)].key = c /\ P!HeadOf(c) = P!CachedHead(tls, c)
         /\ P!Entries(c)[P!SlotOf(c)] \in Records
         /\ \A d \in Classes : P!CachedHead(P!Entries(c), d) = P!CachedHead(tls, d)
<1> DEFINE mine == {i \in DOMAIN tls : tls[i].key = c}
           n == Len(tls)
<1>1. DOMAIN tls = 1..n /\ n \in Nat /\ \A i \in 1..n : tls[i] \in Records
  BY LenProperties, ElementOfSeq
<1>2. CASE mine # {}
  <2>1. P!SlotOf(c) \in mine
    BY <1>2 DEF P!SlotOf
  <2>2. P!SlotOf(c) \in 1..n /\ tls[P!SlotOf(c)].key = c
    BY <1>1, <2>1
  <2>3. P!Entries(c) = tls
    <3>1. ~(P!SlotOf(c) > Len(tls))
      BY <1>1, <2>2
    <3>2. QED
      BY <3>1 DEF P!Entries
  <2>4. P!HeadOf(c) = tls[P!SlotOf(c)].head
    BY <2>3 DEF P!HeadOf
  <2>5. P!CachedHead(tls, c) = tls[P!SlotOf(c)].head
    BY <2>2, Heads
  <2>6. QED
    BY <1>1, <2>2, <2>3, <2>4, <2>5
<1>3. CASE mine = {}
  <2>1. \A i \in 1..n : tls[i].key # c
    BY <1>1, <1>3
  <2>2. n < TlsSlots
    BY <2>1, RoomForKey
  <2>3. P!SlotOf(c) = n + 1
    BY <1>3, <2>2 DEF P!SlotOf
  <2> DEFINE r == [key |-> c, head |-> P!Null]
             e == Append(tls, r)
  <2>4. P!Entries(c) = e
    BY <1>1, <2>3 DEF P!Entries
  <2>5. r \in Records /\ r.key = c /\ r.head = P!Null
    BY DEF Records, Pointers
  <2> HIDE DEF r
  <2>6. /\ e \in Seq(Records) /\ Len(e) = n + 1 /\ e[n + 1] = r
        /\ \A i \in 1..n : e[i] = tls[i]
    BY <1>1, <2>5, AppendProperties
  <2> HIDE DEF e
  <2>7. \A i \in 1..(n + 1) : i \in 1..n \/ i = n + 1
    BY <1>1
  <2>12. \A i \in 1..n : i \in 1..(n + 1)
    BY <1>1
  <2>8. KeysOnce(e)
    <3>1. ASSUME NEW i \in 1..(n + 1), NEW j \in 1..(n + 1), e[i].key = e[j].key PROVE i = j
      <4>1. CASE i \in 1..n /\ j \in 1..n
        BY <2>6, <3>1, <4>1 DEF KeysOnce
      <4>2. CASE i = n + 1 /\ j = n + 1
        BY <4>2
      <4>3. CASE i = n + 1 /\ j \in 1..n
        BY <2>1, <2>5, <2>6, <3>1, <4>3
      <4>4. CASE i \in 1..n /\ j = n + 1
        BY <2>1, <2>5, <2>6, <3>1, <4>4
      <4>5. QED
        BY <2>7, <4>1, <4>2, <4>3, <4>4
    <3>2. QED
      BY <2>6, <3>1 DEF KeysOnce
  <2>9. P!HeadOf(c) = P!Null /\ P!CachedHead(tls, c) = P!Null
    BY <2>1, <2>3, <2>4, <2>5, <2>6, Heads DEF P!HeadOf
  <2>10. ASSUME NEW d \in Classes PROVE P!CachedHead(e, d) = P!CachedHead(tls, d)
    <3>1. CASE \E i \in 1..n : tls[i].key = d
      <4>1. PICK i \in 1..n : tls[i].key = d
        BY <3>1
      <4>2. i \in 1..Len(e) /\ e[i].key = d /\ e[i].head = tls[i].head
        BY <2>6, <2>12, <4>1
      <4>3. P!CachedHead(tls, d) = tls[i].head
        BY <4>1, Heads
      <4>4. P!CachedHead(e, d) = e[i].head
        BY <2>6, <2>8, <4>2, Heads
      <4>5. QED
        BY <4>2, <4>3, <4>4
    <3>2. CASE ~\E i \in 1..n : tls[i].key = d
      <4>1. P!CachedHead(tls, d) = P!Null
        BY <3>2, Heads
      <4>2. CASE d = c
        <5>1. n + 1 \in 1..Len(e) /\ e[n + 1].key = d /\ e[n + 1].head = P!Null
          BY <1>1, <2>5, <2>6, <4>2
        <5>2. QED
          BY <2>6, <2>8, <4>1, <5>1, Heads
      <4>3. CASE d # c
        <5>1. \A i \in 1..Len(e) : e[i].key # d
          BY <2>5, <2>6, <2>7, <3>2, <4>3
        <5>2. QED
          BY <2>6, <2>8, <4>1, <5>1, Heads
      <4>4. QED
        BY <4>2, <4>3
    <3>3. QED
      BY <3>1, <3>2
  <2>11. n + 1 \in 1..Len(e) /\ e[n + 1] \in Records
    BY <1>1, <2>5, <2>6
  <2>13. QED
    BY <2>3, <2>4, <2>5, <2>6, <2>8, <2>9, <2>10, <2>11
<1>4. QED
  BY <1>2, <1>3

\* One head changes.
LEMMA TlsSet ==
  ASSUME tls \in Seq(Records), KeysOnce(tls), NEW c \in Classes, NEW v \in Pointers,
         tls' = [P!Entries(c) EXCEPT ![P!SlotOf(c)].head = v]
  PROVE  /\ tls' \in Seq(Records) /\ KeysOnce(tls')
         /\ P!CachedHead(tls', c) = v
         /\ \A d \in Classes : d # c => P!CachedHead(tls', d) = P!CachedHead(tls, d)
<1> DEFINE e == P!Entries(c)
           k == P!SlotOf(c)
           n == Len(e)
           r == [e[k] EXCEPT !.head = v]
<1>1. /\ e \in Seq(Records) /\ k \in 1..n /\ KeysOnce(e) /\ e[k].key = c /\ e[k] \in Records
      /\ \A d \in Classes : P!CachedHead(e, d) = P!CachedHead(tls, d)
  BY TlsIs
<1>2. tls' = [e EXCEPT ![k] = r]
  OBVIOUS
<1>3. r \in Records /\ r.key = c /\ r.head = v
  BY <1>1 DEF Records
<1> HIDE DEF e, k, n, r
<1>4. /\ tls' \in Seq(Records) /\ Len(tls') = n
      /\ \A i \in 1..n : tls'[i] = IF i = k THEN r ELSE e[i]
  <2>1. e \in Seq(Records) /\ k \in 1..Len(e) /\ r \in Records
    BY <1>1, <1>3 DEF n
  <2>2. /\ [e EXCEPT ![k] = r] \in Seq(Records) /\ Len([e EXCEPT ![k] = r]) = Len(e)
        /\ \A i \in 1..Len(e) : [e EXCEPT ![k] = r][i] = IF i = k THEN r ELSE e[i]
    BY <2>1, ExceptSeq
  <2>3. QED
    BY <1>2, <2>2 DEF n
<1>5. \A i \in 1..n : tls'[i].key = e[i].key /\ (i # k => tls'[i] = e[i])
  BY <1>1, <1>3, <1>4
<1>6. KeysOnce(tls')
  BY <1>1, <1>4, <1>5 DEF KeysOnce, n
<1>7. P!CachedHead(tls', c) = v
  <2>1. tls'[k].key = c /\ tls'[k].head = v /\ k \in 1..Len(tls')
    BY <1>1, <1>3, <1>4
  <2>2. QED
    BY <1>4, <1>6, <2>1, Heads
<1>8. ASSUME NEW d \in Classes, d # c PROVE P!CachedHead(tls', d) = P!CachedHead(e, d)
  <2>1. CASE \E i \in 1..n : e[i].key = d
    <3>1. PICK i \in 1..n : e[i].key = d
      BY <2>1
    <3>2. i # k
      BY <1>1, <1>8, <3>1
    <3>3. tls'[i] = e[i] /\ i \in 1..Len(tls')
      BY <1>4, <1>5, <3>2
    <3>4. P!CachedHead(tls', d) = tls'[i].head
      BY <1>4, <1>6, <3>1, <3>3, Heads
    <3>5. P!CachedHead(e, d) = e[i].head
      BY <1>1, <3>1, Heads DEF n
    <3>6. QED
      BY <3>3, <3>4, <3>5
  <2>2. CASE ~\E i \in 1..n : e[i].key = d
    <3>1. \A i \in 1..Len(tls') : tls'[i].key # d
      BY <1>4, <1>5, <2>2
    <3>2. P!CachedHead(tls', d) = P!Null
      BY <1>4, <1>6, <3>1, Heads
    <3>3. P!CachedHead(e, d) = P!Null
      BY <1>1, <2>2, Heads DEF n
    <3>4. QED
      BY <3>2, <3>3
  <2>3. QED
    BY <2>1, <2>2
<1>9. QED
  BY <1>1, <1>4, <1>6, <1>7, <1>8
-----------------------------------------------------------------------------
(* The lists of one pool, as a block enters or leaves them. *)

\* Two states of the links agree on the blocks of a class that are not out.
Alike(c, links, later, out) == \A x \in Column(c) \ out : later[x] = links[x]

LEMMA LaidKept ==
  ASSUME NEW c \in Classes, NEW links, NEW later, NEW h, NEW g, NEW out, NEW n,
         NEW cached \in Seq(Column(c)), NEW shared \in Seq(Column(c)),
         Laid(c, links, h, g, out, n, cached, shared), Alike(c, links, later, out)
  PROVE  Laid(c, later, h, g, out, n, cached, shared)
<1>0. P!Range(cached) \cup P!Range(shared) \subseteq Column(c) \ out
  <2>1. P!Range(cached) \subseteq Column(c) /\ P!Range(shared) \subseteq Column(c)
    BY RangeIn
  <2>2. QED
    BY <2>1 DEF Laid
<1>1. \A x \in P!Range(cached) \cup P!Range(shared) : later[x] = links[x]
  BY <1>0 DEF Alike
<1>2. P!Chain(later, cached, h) /\ P!Chain(later, shared, g)
  BY <1>1, ChainKept DEF Laid
<1>3. QED
  BY <1>2 DEF Laid

LEMMA LaidSwap ==
  ASSUME NEW c, NEW links, NEW h, NEW g, NEW out, NEW n, NEW cached, NEW shared,
         Laid(c, links, h, g, out, n, cached, shared)
  PROVE  Laid(c, links, g, h, out, n, shared, cached)
BY DEF Laid

LEMMA LaidPop ==
  ASSUME NEW c \in Classes, NEW links, NEW h, NEW g, NEW out, NEW n \in Nat,
         NEW cached \in Seq(Column(c)), NEW shared \in Seq(Column(c)),
         Laid(c, links, h, g, out, n, cached, shared), h # P!Null
  PROVE  /\ h \in Column(c) \ out
         /\ \E fewer \in Seq(Column(c)) :
              Laid(c, links, links[h], g, out \cup {h}, n, fewer, shared)
<1> DEFINE fewer == Tail(cached)
<1>1. /\ h \in P!Range(cached) /\ h \in Column(c) /\ fewer \in Seq(Column(c))
      /\ P!Chain(links, fewer, links[h]) /\ P!IsInjective(fewer) /\ P!Range(fewer) = P!Range(cached) \ {h}
  BY ChainPop DEF Laid
<1> HIDE DEF fewer
<1>2. h \notin out
  BY <1>1 DEF Laid
<1>3. Laid(c, links, links[h], g, out \cup {h}, n, fewer, shared)
  BY <1>1 DEF Laid
<1>4. QED
  BY <1>1, <1>2, <1>3

Extends(more, s) == P!Range(s) \subseteq P!Range(more)

LEMMA LaidPush ==
  ASSUME NEW c \in Classes, NEW links, NEW h, NEW g, NEW out, NEW n \in Nat,
         NEW cached \in Seq(Column(c)), NEW shared \in Seq(Column(c)),
         Laid(c, links, h, g, out, n, cached, shared),
         NEW b \in Column(c), b \in out, links[b] = h
  PROVE  \E more \in Seq(Column(c)) :
           Laid(c, links, b, g, out \ {b}, n, more, shared) /\ Extends(more, cached)
<1> DEFINE more == <<b>> \o cached
<1>1. b \notin P!Range(cached) /\ b \notin P!Range(shared)
  BY DEF Laid
<1>2. /\ more \in Seq(Column(c)) /\ P!Chain(links, more, b) /\ P!IsInjective(more)
      /\ P!Range(more) = P!Range(cached) \cup {b}
  BY <1>1, ChainPush DEF Laid
<1> HIDE DEF more
<1>3. Laid(c, links, b, g, out \ {b}, n, more, shared)
  BY <1>1, <1>2 DEF Laid
<1>4. QED
  BY <1>2, <1>3 DEF Extends

LEMMA LaidFresh ==
  ASSUME NEW c \in Classes, NEW links, NEW h, NEW g, NEW out, NEW n \in Nat,
         NEW cached \in Seq(Column(c)), NEW shared \in Seq(Column(c)),
         Laid(c, links, h, g, out, n, cached, shared)
  PROVE  /\ <<c, n + 1>> \notin out
         /\ Laid(c, links, h, g, out \cup {<<c, n + 1>>}, n + 1, cached, shared)
<1>1. {c} \X (1..(n + 1)) = ({c} \X (1..n)) \cup {<<c, n + 1>>}
  <2>1. 1..(n + 1) = (1..n) \cup {n + 1}
    OBVIOUS
  <2>2. QED
    BY <2>1
<1>2. <<c, n + 1>> \notin {c} \X (1..n)
  OBVIOUS
<1>3. QED
  BY <1>1, <1>2 DEF Laid

-----------------------------------------------------------------------------
(* What a step leaves alone. *)

Same(d) ==
  /\ P!CachedHead(tls', d) = P!CachedHead(tls, d) /\ remoteHead'[d] = remoteHead[d]
  /\ pcommitted'[d] = pcommitted[d] /\ Out(d)' = Out(d)
  /\ \A x \in Column(d) \ Out(d) : link'[x] = link[x]
  /\ d = want' /\ ppc'[Owner] \in {"next", "cas"}
       => want' = want /\ ppc[Owner] \in {"next", "cas"} /\ phead' = phead

LEMMA Steady ==
  ASSUME PoolType, NEW d \in Classes, PoolPlaced(d), Same(d)
  PROVE  PoolPlaced(d)'
<1>1. PICK cached \in Seq(Column(d)), shared \in Seq(Column(d)) :
        /\ Laid(d, link, P!CachedHead(tls, d), remoteHead[d], Out(d), pcommitted[d], cached, shared)
        /\ Reading(d, shared)
  BY DEF PoolPlaced
<1>2. Alike(d, link, link', Out(d))
  BY DEF Same, Alike
<1>3. Laid(d, link', P!CachedHead(tls, d), remoteHead[d], Out(d), pcommitted[d], cached, shared)
  BY <1>1, <1>2, LaidKept
<1>4. Laid(d, link', P!CachedHead(tls', d), remoteHead'[d], Out(d)', pcommitted'[d], cached, shared)
  BY <1>3 DEF Same
<1>5. Reading(d, shared)'
  BY <1>1 DEF Reading, Same
<1>6. QED
  BY <1>4, <1>5 DEF PoolPlaced

LEMMA PoolInit == P!Init => PoolInv
<1> SUFFICES ASSUME P!Init PROVE PoolInv
  OBVIOUS
<1>1. PoolType
  BY DEF P!Init, PoolType, Pointers, Places, P!Threads
<1>2. Calls /\ OwnSize /\ FreedOnce
  BY DEF P!Init, Calls, OwnSize, FreedOnce, Freeing, Busy, P!Threads
<1>3. KeysOnce(tls) /\ Len(tls) = 0 /\ tls \in Seq(Records)
  BY EmptySeq DEF P!Init, KeysOnce
<1>4. P!Moving = {} /\ Held = {}
  BY DEF P!Init, P!Moving, Held, P!Threads
<1>5. ASSUME NEW c \in Classes PROVE PoolPlaced(c)
  <2>1. P!CachedHead(tls, c) = P!Null /\ remoteHead[c] = P!Null /\ pcommitted[c] = 0
    <3>1. \A i \in 1..Len(tls) : tls[i].key # c
      BY <1>3
    <3>2. QED
      BY <1>3, <3>1, Heads DEF P!Init
  <2>2. <<>> \in Seq(Column(c)) /\ P!Chain(link, <<>>, P!Null) /\ P!IsInjective(<<>>) /\ P!Range(<<>>) = {}
    BY Unlinked
  <2>3. Laid(c, link, P!Null, P!Null, Out(c), 0, <<>>, <<>>)
    BY <1>4, <2>2 DEF Laid, Out
  <2>4. Reading(c, <<>>)
    BY DEF Reading, P!Init, P!Threads
  <2>5. QED
    BY <2>1, <2>2, <2>3, <2>4 DEF PoolPlaced
<1>6. QED
  BY <1>1, <1>2, <1>3, <1>4, <1>5 DEF PoolInv, Book, Listed

-----------------------------------------------------------------------------
(* The owner's calls. *)

LEMMA OwnerGoes ==
  ASSUME PoolType, NEW x \in Places, ppc' = [ppc EXCEPT ![Owner] = x]
  PROVE  /\ ppc' \in [P!Threads -> Places] /\ ppc'[Owner] = x /\ Freeing' = Freeing
         /\ \A u \in Remotes : ppc'[u] = ppc[u]
<1>1. ppc' \in [P!Threads -> Places] /\ ppc'[Owner] = x /\ \A u \in Remotes : ppc'[u] = ppc[u]
  BY DEF PoolType, P!Threads
<1>2. QED
  BY <1>1 DEF Freeing

\* A step of a call of the owner that moves no block.
LEMMA OwnerQuiet ==
  ASSUME Book, UNCHANGED <<pcommitted, remoteHead, link, held, parg>>,
         ppc[Owner] # "free", NEW x \in {"idle"} \cup Busy, ppc' = [ppc EXCEPT ![Owner] = x],
         want' \in Classes \cup {0}, old' \in Pointers, phead' \in Pointers, pnext' \in Pointers,
         tls' \in Seq(Records), KeysOnce(tls'),
         \A d \in Classes : P!CachedHead(tls', d) = P!CachedHead(tls, d)
  PROVE  /\ PoolType' /\ OwnSize' /\ KeysOnce(tls)' /\ FreedOnce' /\ (P!Moving \cap Held = {})'
         /\ ppc'[Owner] = x
         /\ (\A t \in Remotes : ppc[t] \in {"idle", "link", "push"})'
         /\ (\A t \in Freeing : parg[t] \in P!Blocks)'
         /\ \A d \in Classes :
              \/ Same(d)
              \/ /\ d = want' /\ x \in {"next", "cas"}
                 /\ ~(want' = want /\ ppc[Owner] \in {"next", "cas"} /\ phead' = phead)
<1>1. x \in Places /\ x # "free"
  BY DEF Places, Busy
<1>2. /\ ppc' \in [P!Threads -> Places] /\ ppc'[Owner] = x /\ Freeing' = Freeing
      /\ \A u \in Remotes : ppc'[u] = ppc[u]
  BY <1>1, OwnerGoes DEF Book
<1>3. PoolType'
  BY <1>2 DEF Book, PoolType
<1>4. P!Moving' = P!Moving /\ Held' = Held
  BY <1>1, <1>2 DEF P!Moving, Held
<1>5. OwnSize' /\ FreedOnce'
  BY <1>1, <1>2 DEF Book, OwnSize, FreedOnce
<1>6. /\ (\A t \in Remotes : ppc[t] \in {"idle", "link", "push"})'
      /\ (\A t \in Freeing : parg[t] \in P!Blocks)'
  BY <1>2 DEF Book, Calls
<1>7. \A d \in Classes : Out(d)' = Out(d)
  BY <1>4 DEF Out
<1>8. QED
  BY <1>2, <1>3, <1>4, <1>5, <1>6, <1>7 DEF Book, Same

LEMMA ClassIs ==
  ASSUME NEW size \in Requests
  PROVE  P!ClassOf(size) \in Classes
<1> DEFINE B == {c \in Classes : c >= size}
<1>1. B \in SUBSET Nat /\ B # {}
  OBVIOUS
<1>2. \E m \in B : \A n \in B : m <= n
  BY <1>1, Smallest
<1>3. \E c \in Classes : c >= size /\ \A d \in Classes : d >= size => c <= d
  BY <1>2
<1>4. QED
  BY <1>3 DEF P!ClassOf

LEMMA AllocateStep ==
  ASSUME PoolInv, NEW size \in Requests, NEW b, b = P!Null \/ \E h \in held : b = h.block,
         P!Allocate(size, b)
  PROVE  PoolInv'
<1>1. want' \in Classes
  BY ClassIs DEF P!Allocate
<1>2. b = P!Null \/ (b \in P!Blocks /\ [block |-> b, size |-> b[1]] \in held)
  <2>1. ASSUME NEW h \in held, b = h.block PROVE b \in P!Blocks /\ [block |-> b, size |-> b[1]] \in held
    <3>1. h \in [block : P!Blocks, size : Classes] /\ h.size = h.block[1]
      BY DEF PoolInv, Book, PoolType, OwnSize
    <3>2. h = [block |-> h.block, size |-> h.size]
      BY <3>1
    <3>3. QED
      BY <2>1, <3>1, <3>2
  <2>2. QED
    BY <2>1
<1>3. /\ UNCHANGED <<pcommitted, remoteHead, link, held, parg>> /\ ppc[Owner] # "free"
      /\ ppc' = [ppc EXCEPT ![Owner] = "cached"] /\ "cached" \in {"idle"} \cup Busy
      /\ old' = b /\ tls' = tls /\ phead' = phead /\ pnext' = pnext
  BY DEF P!Allocate, P!Goto, Busy
<1>4. /\ old' \in Pointers /\ phead' \in Pointers /\ pnext' \in Pointers
      /\ tls' \in Seq(Records) /\ KeysOnce(tls')
      /\ \A d \in Classes : P!CachedHead(tls', d) = P!CachedHead(tls, d)
  BY <1>2, <1>3 DEF Pointers, PoolInv, Book, PoolType
<1>5. /\ PoolType' /\ OwnSize' /\ KeysOnce(tls)' /\ FreedOnce' /\ (P!Moving \cap Held = {})'
      /\ ppc'[Owner] = "cached"
      /\ (\A t \in Remotes : ppc[t] \in {"idle", "link", "push"})'
      /\ (\A t \in Freeing : parg[t] \in P!Blocks)'
      /\ \A d \in Classes : Same(d)
  BY <1>1, <1>3, <1>4, OwnerQuiet DEF PoolInv
<1>6. Calls'
  BY <1>1, <1>2, <1>3, <1>5 DEF Calls, Busy
<1>7. Listed'
  BY <1>5, Steady DEF Listed, PoolInv, Book
<1>8. QED
  BY <1>5, <1>6, <1>7 DEF PoolInv, Book

\* The call gives block b to its user.
LEMMA PoolReturned ==
  ASSUME Book, ppc[Owner] \in Busy, NEW b \in P!Blocks, b \notin P!Moving \cup Held, b[1] = want,
         P!Return(b)
  PROVE  /\ held' \subseteq [block : P!Blocks, size : Classes] /\ link' \in [P!Blocks -> Pointers]
         /\ ppc' \in [P!Threads -> Places] /\ parg' = parg /\ want' = 0 /\ old' = old
         /\ phead' = P!Null /\ pnext' = P!Null
         /\ Calls' /\ OwnSize' /\ FreedOnce' /\ (P!Moving \cap Held = {})'
         /\ (P!Moving \cup Held)' = (P!Moving \cup Held) \cup {b}
         /\ ppc'[Owner] \notin {"next", "cas"}
         /\ \A x \in P!Blocks \ {b} : link'[x] = link[x]
<1> DEFINE x == IF old = P!Null THEN "idle" ELSE "free"
           r == [block |-> b, size |-> want]
           o == [block |-> old, size |-> old[1]]
<1>t. PoolType /\ Calls /\ OwnSize /\ FreedOnce /\ P!Moving \cap Held = {}
  BY DEF Book
<1>1. /\ held' = (held \ {o}) \cup {r} /\ link' = [link EXCEPT ![b] = P!Null] /\ ppc' = [ppc EXCEPT ![Owner] = x]
      /\ phead' = P!Null /\ pnext' = P!Null /\ want' = 0 /\ old' = old /\ parg' = parg
  BY DEF P!Return, P!Goto
<1>2. x \in Places /\ x \in {"idle", "free"}
  BY DEF Places
<1>3. /\ ppc' \in [P!Threads -> Places] /\ ppc'[Owner] = x /\ Freeing' = Freeing
      /\ \A u \in Remotes : ppc'[u] = ppc[u]
  BY <1>t, <1>1, <1>2, OwnerGoes
<1>4. old # P!Null => o \in held /\ old \in P!Blocks
  BY <1>t DEF Calls, PoolType, Pointers
<1>5. held' \subseteq [block : P!Blocks, size : Classes]
  BY <1>t, <1>1 DEF Calls, PoolType
<1>6. link' \in [P!Blocks -> Pointers] /\ \A y \in P!Blocks \ {b} : link'[y] = link[y]
  BY <1>t, <1>1 DEF PoolType, Pointers
<1>7. OwnSize'
  BY <1>t, <1>1 DEF OwnSize
<1>8. Held' = (Held \ {old}) \cup {b}
  <2>1. \A h \in held : h.block = old => h = o
    <3>1. ASSUME NEW h \in held, h.block = old PROVE h = o
      <4>1. h = [block |-> h.block, size |-> h.size]
        BY <1>t DEF PoolType
      <4>2. h.size = old[1]
        BY <1>t, <3>1 DEF OwnSize
      <4>3. QED
        BY <3>1, <4>1, <4>2
    <3>2. QED
      BY <3>1
  <2>2. ASSUME NEW y \in Held' PROVE y \in (Held \ {old}) \cup {b}
    <3>1. PICK h \in held' : y = h.block
      BY DEF Held
    <3>2. h = r \/ (h \in held /\ h # o)
      BY <1>1, <3>1
    <3>3. h \in held /\ h # o => y \in Held /\ y # old
      BY <2>1, <3>1 DEF Held
    <3>4. QED
      BY <3>1, <3>2, <3>3
  <2>3. b \in Held'
    <3>1. r \in held' /\ r.block = b
      BY <1>1
    <3>2. QED
      BY <3>1 DEF Held
  <2>4. ASSUME NEW y \in Held \ {old} PROVE y \in Held'
    <3>1. PICK h \in held : y = h.block
      BY DEF Held
    <3>2. o.block = old
      OBVIOUS
    <3>3. h \in held'
      BY <1>1, <2>4, <3>1, <3>2
    <3>4. QED
      BY <3>1, <3>3 DEF Held
  <2>5. QED
    BY <2>2, <2>3, <2>4
<1>9. ppc[Owner] # "free"
  BY DEF Busy
<1>10. P!Moving' = P!Moving \cup (IF old = P!Null THEN {} ELSE {old})
  BY <1>1, <1>2, <1>3, <1>9 DEF P!Moving
<1>11. old # P!Null => old \in Held
  BY <1>4 DEF Held
<1>12. (P!Moving \cap Held = {})' /\ (P!Moving \cup Held)' = (P!Moving \cup Held) \cup {b}
  <2>1. P!Null \notin Held
    <3>1. \A h \in held : h.block \in P!Blocks
      BY <1>t DEF PoolType
    <3>2. QED
      BY <3>1, BlocksAre DEF Held
  <2>2. QED
    BY <1>t, <1>8, <1>10, <1>11, <2>1
<1>13. FreedOnce'
  <2>1. ASSUME old # P!Null, NEW t \in Freeing PROVE parg[t] # old
    <3>1. parg[t] \in P!Moving
      BY DEF P!Moving, Freeing
    <3>2. QED
      BY <1>t, <1>11, <2>1, <3>1
  <2>2. QED
    BY <1>t, <1>1, <1>3, <2>1 DEF FreedOnce
<1>14. Calls'
  <2>1. ppc'[Owner] \notin Busy \cup {"next", "cas"}
    BY <1>3 DEF Busy
  <2>2. QED
    BY <1>t, <1>1, <1>3, <1>4, <2>1 DEF Calls
<1>15. QED
  BY <1>1, <1>3, <1>5, <1>6, <1>7, <1>12, <1>13, <1>14

LEMMA PlacedAre ==
  ASSUME PoolInv, NEW c \in Classes
  PROVE  \E cached \in Seq(Column(c)), shared \in Seq(Column(c)) :
           /\ Laid(c, link, P!CachedHead(tls, c), remoteHead[c], Out(c), pcommitted[c], cached, shared)
           /\ Reading(c, shared)
BY DEF PoolInv, Listed, PoolPlaced

\* The pools other than the one that block b is of.
LEMMA OthersSame ==
  ASSUME PoolType, NEW b \in P!Blocks,
         \A d \in Classes \ {b[1]} : P!CachedHead(tls', d) = P!CachedHead(tls, d)
                                    /\ remoteHead'[d] = remoteHead[d] /\ pcommitted'[d] = pcommitted[d],
         (P!Moving \cup Held)' \ {b} = (P!Moving \cup Held) \ {b},
         \A x \in P!Blocks \ {b} : link'[x] = link[x],
         ppc'[Owner] \notin {"next", "cas"} \/ (UNCHANGED <<want, phead>> /\ ppc'[Owner] = ppc[Owner])
  PROVE  \A d \in Classes \ {b[1]} : Same(d)
<1> SUFFICES ASSUME NEW d \in Classes \ {b[1]} PROVE Same(d)
  OBVIOUS
<1>1. b \notin Column(d) /\ Column(d) \subseteq P!Blocks
  BY BlocksAre
<1>2. Out(d)' = Out(d)
  BY <1>1 DEF Out
<1>3. QED
  BY <1>1, <1>2 DEF Same

\* Block b leaves the lists of its pool, or the space not used yet.
LEMMA ReturnStep ==
  ASSUME PoolInv, ppc[Owner] \in Busy, NEW c \in Classes, c = want,
         NEW b \in Column(c) \ Out(c), P!Return(b),
         NEW n \in 0..BlocksPer, NEW h, NEW g, NEW cached \in Seq(Column(c)), NEW shared \in Seq(Column(c)),
         Laid(c, link, h, g, Out(c) \cup {b}, n, cached, shared),
         P!CachedHead(tls', c) = h, remoteHead'[c] = g, pcommitted'[c] = n,
         remoteHead' \in [Classes -> Pointers], pcommitted' \in [Classes -> 0..BlocksPer],
         tls' \in Seq(Records), KeysOnce(tls'),
         \A d \in Classes \ {c} : P!CachedHead(tls', d) = P!CachedHead(tls, d)
                                /\ remoteHead'[d] = remoteHead[d] /\ pcommitted'[d] = pcommitted[d]
  PROVE  PoolInv'
<1>t. Book /\ Listed /\ PoolType
  BY DEF PoolInv, Book
<1>1. b \in P!Blocks /\ b[1] = want /\ b \notin P!Moving \cup Held
  BY BlocksAre DEF Out
<1>2. /\ held' \subseteq [block : P!Blocks, size : Classes] /\ link' \in [P!Blocks -> Pointers]
      /\ ppc' \in [P!Threads -> Places] /\ parg' = parg /\ want' = 0 /\ old' = old
      /\ phead' = P!Null /\ pnext' = P!Null
      /\ Calls' /\ OwnSize' /\ FreedOnce' /\ (P!Moving \cap Held = {})'
      /\ (P!Moving \cup Held)' = (P!Moving \cup Held) \cup {b}
      /\ ppc'[Owner] \notin {"next", "cas"}
      /\ \A x \in P!Blocks \ {b} : link'[x] = link[x]
  BY <1>t, <1>1, PoolReturned
<1>3. PoolType'
  BY <1>t, <1>2 DEF PoolType, Pointers
<1>4. \A d \in Classes \ {c} : Same(d)
  <2>1. \A d \in Classes \ {b[1]} : P!CachedHead(tls', d) = P!CachedHead(tls, d)
                                  /\ remoteHead'[d] = remoteHead[d] /\ pcommitted'[d] = pcommitted[d]
    BY <1>1
  <2>2. (P!Moving \cup Held)' \ {b} = (P!Moving \cup Held) \ {b}
    BY <1>2
  <2>3. \A d \in Classes \ {b[1]} : Same(d)
    BY <1>t, <1>1, <1>2, <2>1, <2>2, OthersSame, Zenon
  <2>4. QED
    BY <1>1, <2>3
<1>5. PoolPlaced(c)'
  <2>1. Out(c)' = Out(c) \cup {b}
    BY <1>2 DEF Out
  <2>2. n \in Nat /\ \A x \in Column(c) \ (Out(c) \cup {b}) : link'[x] = link[x]
    BY <1>2, BlocksAre
  <2>3. Laid(c, link', h, g, Out(c) \cup {b}, n, cached, shared)
    <3>1. PICK later : later = link'
      OBVIOUS
    <3>2. PICK out : out = Out(c) \cup {b}
      OBVIOUS
    <3>3. Laid(c, link, h, g, out, n, cached, shared)
      BY <3>2
    <3>4. Alike(c, link, later, out)
      BY <2>2, <3>1, <3>2 DEF Alike
    <3>5. Laid(c, later, h, g, out, n, cached, shared)
      BY <3>3, <3>4, LaidKept
    <3>6. QED
      BY <3>1, <3>2, <3>5
  <2>4. Laid(c, link', P!CachedHead(tls', c), remoteHead'[c], Out(c)', pcommitted'[c], cached, shared)
    BY <2>1, <2>3
  <2>5. Reading(c, shared)'
    BY <1>2 DEF Reading
  <2>6. \E ca \in Seq(Column(c)), sh \in Seq(Column(c)) :
          /\ Laid(c, link', P!CachedHead(tls', c), remoteHead'[c], Out(c)', pcommitted'[c], ca, sh)
          /\ Reading(c, sh)'
    BY <2>4, <2>5
  <2>7. QED
    BY <2>6 DEF PoolPlaced
<1>6. Listed'
  BY <1>t, <1>4, <1>5, Steady DEF Listed
<1>7. QED
  BY <1>2, <1>3, <1>6 DEF PoolInv, Book

LEMMA CachedStep == PoolInv /\ P!Cached => PoolInv'
<1> SUFFICES ASSUME PoolInv, P!Cached PROVE PoolInv'
  OBVIOUS
<1>t. Book /\ Listed /\ PoolType /\ Calls /\ KeysOnce(tls)
  BY DEF PoolInv, Book
<1>0. want \in Classes /\ ppc[Owner] = "cached" /\ ppc[Owner] \in Busy
  BY <1>t DEF P!Cached, Busy, Calls
<1>1. PICK c \in Classes : c = want
  BY <1>0
<1>b. P!HeadOf(c) = P!CachedHead(tls, c) /\ P!CachedHead(tls, c) \in Pointers
  BY <1>t, TlsIs, Heads DEF PoolType
<1>2. PICK b \in Pointers : b = P!CachedHead(tls, c) /\ b = P!HeadOf(c)
  BY <1>b
<1>v. (IF b = P!Null THEN P!Null ELSE link[b]) \in Pointers
  BY <1>t DEF PoolType, Pointers
<1>3. PICK v \in Pointers : v = IF b = P!Null THEN P!Null ELSE link[b]
  BY <1>v
<1>p. tls' = [P!Entries(c) EXCEPT ![P!SlotOf(c)].head = v]
  BY <1>1, <1>2, <1>3 DEF P!Cached, P!TlsPop
<1>4. /\ tls' \in Seq(Records) /\ KeysOnce(tls') /\ P!CachedHead(tls', c) = v
      /\ \A d \in Classes : d # c => P!CachedHead(tls', d) = P!CachedHead(tls, d)
  BY <1>t, <1>p, TlsSet DEF PoolType
<1>5. CASE b = P!Null
  <2>1. /\ UNCHANGED <<pcommitted, remoteHead, link, held, parg, want, old, phead, pnext>>
        /\ ppc' = [ppc EXCEPT ![Owner] = "shared"] /\ "shared" \in {"idle"} \cup Busy
    BY <1>1, <1>2, <1>5 DEF P!Cached, P!Goto, Busy, P!locals
  <2>2. \A d \in Classes : P!CachedHead(tls', d) = P!CachedHead(tls, d)
    BY <1>2, <1>3, <1>4, <1>5
  <2>3. /\ want' \in Classes \cup {0} /\ old' \in Pointers /\ phead' \in Pointers /\ pnext' \in Pointers
        /\ ppc[Owner] # "free"
    BY <1>t, <1>0, <2>1 DEF PoolType
  <2>4. /\ PoolType' /\ OwnSize' /\ KeysOnce(tls)' /\ FreedOnce' /\ (P!Moving \cap Held = {})'
        /\ ppc'[Owner] = "shared"
        /\ (\A t \in Remotes : ppc[t] \in {"idle", "link", "push"})'
        /\ (\A t \in Freeing : parg[t] \in P!Blocks)'
        /\ \A d \in Classes : Same(d)
    BY <1>t, <1>4, <2>1, <2>2, <2>3, OwnerQuiet
  <2>5. Calls'
    BY <1>t, <1>0, <2>1, <2>4 DEF Calls, Busy
  <2>6. Listed'
    BY <1>t, <2>4, Steady DEF Listed
  <2>7. QED
    BY <2>4, <2>5, <2>6 DEF PoolInv, Book
<1>6. CASE b # P!Null
  <2>1. P!Return(b) /\ UNCHANGED <<pcommitted, remoteHead>> /\ v = link[b]
    BY <1>1, <1>2, <1>3, <1>6 DEF P!Cached
  <2>2. PICK cached \in Seq(Column(c)), shared \in Seq(Column(c)) :
          Laid(c, link, b, remoteHead[c], Out(c), pcommitted[c], cached, shared)
    BY <1>2, PlacedAre
  <2>3. pcommitted[c] \in Nat
    BY <1>t DEF PoolType
  <2>4. /\ b \in Column(c) \ Out(c)
        /\ \E fewer \in Seq(Column(c)) :
             Laid(c, link, link[b], remoteHead[c], Out(c) \cup {b}, pcommitted[c], fewer, shared)
    BY <1>6, <2>2, <2>3, LaidPop, Zenon
  <2>5. PICK fewer \in Seq(Column(c)) :
          Laid(c, link, v, remoteHead[c], Out(c) \cup {b}, pcommitted[c], fewer, shared)
    BY <2>1, <2>4
  <2>6. /\ remoteHead' \in [Classes -> Pointers] /\ pcommitted' \in [Classes -> 0..BlocksPer]
        /\ pcommitted[c] \in 0..BlocksPer /\ pcommitted'[c] = pcommitted[c] /\ remoteHead'[c] = remoteHead[c]
        /\ \A d \in Classes \ {c} : P!CachedHead(tls', d) = P!CachedHead(tls, d)
                                /\ remoteHead'[d] = remoteHead[d] /\ pcommitted'[d] = pcommitted[d]
    BY <1>t, <1>4, <2>1 DEF PoolType
  <2>7. QED
    BY <1>0, <1>1, <1>4, <2>1, <2>4, <2>5, <2>6, ReturnStep, Zenon
<1>7. QED
  BY <1>5, <1>6

LEMMA SharedStep == PoolInv /\ P!Shared => PoolInv'
<1> SUFFICES ASSUME PoolInv, P!Shared PROVE PoolInv'
  OBVIOUS
<1>t. Book /\ Listed /\ PoolType /\ Calls /\ KeysOnce(tls)
  BY DEF PoolInv, Book
<1>1. want \in Classes /\ ppc[Owner] = "shared" /\ ppc[Owner] \in Busy
  BY <1>t DEF P!Shared, Busy, Calls
<1>x. PICK x \in {"fresh", "next"} : x = IF phead' = P!Null THEN "fresh" ELSE "next"
  OBVIOUS
<1>2. /\ UNCHANGED <<pcommitted, remoteHead, link, tls, held, parg, want, old, pnext>>
      /\ phead' = remoteHead[want] /\ ppc' = [ppc EXCEPT ![Owner] = x]
  BY <1>x DEF P!Shared, P!Goto
<1>3. /\ want' \in Classes \cup {0} /\ old' \in Pointers /\ phead' \in Pointers /\ pnext' \in Pointers
      /\ ppc[Owner] # "free" /\ x \in {"idle"} \cup Busy /\ tls' \in Seq(Records) /\ KeysOnce(tls')
      /\ \A d \in Classes : P!CachedHead(tls', d) = P!CachedHead(tls, d)
  BY <1>t, <1>1, <1>2 DEF PoolType, Busy
<1>4. /\ PoolType' /\ OwnSize' /\ KeysOnce(tls)' /\ FreedOnce' /\ (P!Moving \cap Held = {})'
      /\ ppc'[Owner] = x
      /\ (\A t \in Remotes : ppc[t] \in {"idle", "link", "push"})'
      /\ (\A t \in Freeing : parg[t] \in P!Blocks)'
      /\ \A d \in Classes : Same(d) \/ (d = want' /\ x \in {"next", "cas"} /\ ~(want' = want /\ ppc[Owner] \in {"next", "cas"} /\ phead' = phead))
  BY <1>t, <1>2, <1>3, OwnerQuiet
<1>5. x = "next" => phead' \in P!Blocks
  BY <1>x, <1>3 DEF Pointers
<1>6. Calls'
  BY <1>t, <1>1, <1>2, <1>4, <1>5, <1>x DEF Calls, Busy
<1>7. \A d \in Classes : d # want => Same(d)
  BY <1>2, <1>4
<1>8. PICK c \in Classes : c = want
  BY <1>1
<1>9. PoolPlaced(c)'
  <2>1. PICK cached \in Seq(Column(c)), shared \in Seq(Column(c)) :
          Laid(c, link, P!CachedHead(tls, c), remoteHead[c], Out(c), pcommitted[c], cached, shared)
    BY PlacedAre
  <2>2. P!Moving' = P!Moving /\ Held' = Held
    BY <1>2, <1>4, <1>1, OwnerGoes, <1>t, <1>x DEF P!Moving, Held, Freeing, Places, Busy
  <2>3. Laid(c, link', P!CachedHead(tls', c), remoteHead'[c], Out(c)', pcommitted'[c], cached, shared)
    BY <1>2, <2>1, <2>2 DEF Out
  <2>4. pcommitted[c] \in Nat
    BY <1>t DEF PoolType
  <2>5. remoteHead[c] # P!Null => remoteHead[c] \in P!Range(shared)
    <3>1. P!Chain(link, shared, remoteHead[c]) /\ P!Null \notin Column(c)
      BY <2>1, BlocksAre DEF Laid
    <3>2. QED
      BY <3>1, ChainHead
  <2>6. Reading(c, shared)'
    BY <1>2, <1>4, <1>8, <1>x, <2>5 DEF Reading
  <2>7. \E ca \in Seq(Column(c)), sh \in Seq(Column(c)) :
          /\ Laid(c, link', P!CachedHead(tls', c), remoteHead'[c], Out(c)', pcommitted'[c], ca, sh)
          /\ Reading(c, sh)'
    BY <2>3, <2>6
  <2>8. QED
    BY <2>7 DEF PoolPlaced
<1>10. Listed'
  BY <1>t, <1>7, <1>8, <1>9, Steady DEF Listed
<1>11. QED
  BY <1>4, <1>6, <1>10 DEF PoolInv, Book

LEMMA SharedNextStep == PoolInv /\ P!SharedNext => PoolInv'
<1> SUFFICES ASSUME PoolInv, P!SharedNext PROVE PoolInv'
  OBVIOUS
<1>t. Book /\ Listed /\ PoolType /\ Calls /\ KeysOnce(tls)
  BY DEF PoolInv, Book
<1>1. want \in Classes /\ ppc[Owner] = "next" /\ ppc[Owner] \in Busy /\ phead \in P!Blocks
  BY <1>t DEF P!SharedNext, Busy, Calls
<1>2. /\ UNCHANGED <<pcommitted, remoteHead, link, tls, held, parg, want, old, phead>>
      /\ pnext' = link[phead] /\ ppc' = [ppc EXCEPT ![Owner] = "cas"]
  BY DEF P!SharedNext, P!Goto
<1>3. /\ want' \in Classes \cup {0} /\ old' \in Pointers /\ phead' \in Pointers /\ pnext' \in Pointers
      /\ ppc[Owner] # "free" /\ "cas" \in {"idle"} \cup Busy /\ tls' \in Seq(Records) /\ KeysOnce(tls')
      /\ \A d \in Classes : P!CachedHead(tls', d) = P!CachedHead(tls, d)
  BY <1>t, <1>1, <1>2 DEF PoolType, Busy
<1>4. /\ PoolType' /\ OwnSize' /\ KeysOnce(tls)' /\ FreedOnce' /\ (P!Moving \cap Held = {})'
      /\ ppc'[Owner] = "cas"
      /\ (\A t \in Remotes : ppc[t] \in {"idle", "link", "push"})'
      /\ (\A t \in Freeing : parg[t] \in P!Blocks)'
      /\ \A d \in Classes : Same(d) \/ (d = want' /\ "cas" \in {"next", "cas"} /\ ~(want' = want /\ ppc[Owner] \in {"next", "cas"} /\ phead' = phead))
  BY <1>t, <1>2, <1>3, OwnerQuiet
<1>5. Calls'
  BY <1>t, <1>1, <1>2, <1>4 DEF Calls, Busy
<1>6. \A d \in Classes : Same(d)
  BY <1>1, <1>2, <1>4
<1>7. Listed'
  BY <1>t, <1>6, Steady DEF Listed
<1>8. QED
  BY <1>4, <1>5, <1>7 DEF PoolInv, Book

LEMMA OutOfMemoryStep == PoolInv /\ P!OutOfMemory => PoolInv'
<1> SUFFICES ASSUME PoolInv, P!OutOfMemory PROVE PoolInv'
  OBVIOUS
<1>t. Book /\ Listed /\ PoolType /\ Calls /\ KeysOnce(tls)
  BY DEF PoolInv, Book
<1>1. ppc[Owner] = "fresh"
  BY DEF P!OutOfMemory
<1>2. /\ UNCHANGED <<pcommitted, remoteHead, link, tls, held, parg, pnext>>
      /\ want' = 0 /\ old' = P!Null /\ phead' = P!Null /\ ppc' = [ppc EXCEPT ![Owner] = "idle"]
  BY DEF P!OutOfMemory, P!Goto
<1>3. /\ want' \in Classes \cup {0} /\ old' \in Pointers /\ phead' \in Pointers /\ pnext' \in Pointers
      /\ ppc[Owner] # "free" /\ "idle" \in {"idle"} \cup Busy /\ tls' \in Seq(Records) /\ KeysOnce(tls')
      /\ \A d \in Classes : P!CachedHead(tls', d) = P!CachedHead(tls, d)
  BY <1>t, <1>1, <1>2 DEF PoolType, Pointers
<1>4. /\ PoolType' /\ OwnSize' /\ KeysOnce(tls)' /\ FreedOnce' /\ (P!Moving \cap Held = {})'
      /\ ppc'[Owner] = "idle"
      /\ (\A t \in Remotes : ppc[t] \in {"idle", "link", "push"})'
      /\ (\A t \in Freeing : parg[t] \in P!Blocks)'
      /\ \A d \in Classes : Same(d)
  BY <1>t, <1>2, <1>3, OwnerQuiet
<1>5. Calls'
  BY <1>t, <1>2, <1>4 DEF Calls, Busy
<1>6. Listed'
  BY <1>t, <1>4, Steady DEF Listed
<1>7. QED
  BY <1>4, <1>5, <1>6 DEF PoolInv, Book

LEMMA SharedCasStep == PoolInv /\ P!SharedCas => PoolInv'
<1> SUFFICES ASSUME PoolInv, P!SharedCas PROVE PoolInv'
  OBVIOUS
<1>t. Book /\ Listed /\ PoolType /\ Calls /\ KeysOnce(tls)
  BY DEF PoolInv, Book
<1>1. want \in Classes /\ ppc[Owner] = "cas" /\ ppc[Owner] \in Busy /\ phead \in P!Blocks /\ pnext = link[phead]
  BY <1>t DEF P!SharedCas, Busy, Calls
<1>2. UNCHANGED <<pcommitted, tls>>
  BY DEF P!SharedCas
<1>3. CASE remoteHead[want] = phead
  <2>1. remoteHead' = [remoteHead EXCEPT ![want] = pnext] /\ P!Return(phead)
    BY <1>3 DEF P!SharedCas
  <2>2. PICK c \in Classes : c = want
    BY <1>1
  <2>3. PICK b \in P!Blocks : b = phead
    BY <1>1
  <2>4. PICK cached \in Seq(Column(c)), shared \in Seq(Column(c)) :
          Laid(c, link, P!CachedHead(tls, c), b, Out(c), pcommitted[c], cached, shared)
    BY <1>3, <2>2, <2>3, PlacedAre
  <2>5. pcommitted[c] \in Nat /\ b # P!Null
    BY <1>t, BlocksAre DEF PoolType
  <2>6. Laid(c, link, b, P!CachedHead(tls, c), Out(c), pcommitted[c], shared, cached)
    BY <2>4, LaidSwap, Zenon
  <2>7. /\ b \in Column(c) \ Out(c)
        /\ \E fewer \in Seq(Column(c)) :
             Laid(c, link, link[b], P!CachedHead(tls, c), Out(c) \cup {b}, pcommitted[c], fewer, cached)
    BY <2>5, <2>6, LaidPop, Zenon
  <2>8. PICK fewer \in Seq(Column(c)) :
             Laid(c, link, link[b], P!CachedHead(tls, c), Out(c) \cup {b}, pcommitted[c], fewer, cached)
    BY <2>7, Zenon
  <2>9. Laid(c, link, P!CachedHead(tls, c), link[b], Out(c) \cup {b}, pcommitted[c], cached, fewer)
    BY <2>8, LaidSwap, Zenon
  <2>10. pnext \in Pointers /\ pnext = link[b]
    BY <1>t, <1>1, <2>3 DEF PoolType
  <2>11. /\ remoteHead' \in [Classes -> Pointers] /\ pcommitted' \in [Classes -> 0..BlocksPer]
        /\ pcommitted[c] \in 0..BlocksPer /\ pcommitted'[c] = pcommitted[c] /\ remoteHead'[c] = link[b]
        /\ P!CachedHead(tls', c) = P!CachedHead(tls, c) /\ tls' \in Seq(Records) /\ KeysOnce(tls')
        /\ \A d \in Classes \ {c} : P!CachedHead(tls', d) = P!CachedHead(tls, d)
                                /\ remoteHead'[d] = remoteHead[d] /\ pcommitted'[d] = pcommitted[d]
    BY <1>t, <1>2, <2>1, <2>2, <2>10 DEF PoolType
  <2>12. P!Return(b)
    BY <2>1, <2>3
  <2>13. QED
    BY <1>1, <2>2, <2>7, <2>9, <2>11, <2>12, ReturnStep, Zenon
<1>4. CASE remoteHead[want] # phead
  <2>1. /\ UNCHANGED <<pcommitted, remoteHead, link, tls, held, parg, want, old, phead, pnext>>
        /\ ppc' = [ppc EXCEPT ![Owner] = "shared"]
    BY <1>2, <1>4 DEF P!SharedCas, P!Goto, P!locals
  <2>2. /\ want' \in Classes \cup {0} /\ old' \in Pointers /\ phead' \in Pointers /\ pnext' \in Pointers
        /\ ppc[Owner] # "free" /\ "shared" \in {"idle"} \cup Busy /\ tls' \in Seq(Records) /\ KeysOnce(tls')
        /\ \A d \in Classes : P!CachedHead(tls', d) = P!CachedHead(tls, d)
    BY <1>t, <1>1, <2>1 DEF PoolType, Busy
  <2>3. /\ PoolType' /\ OwnSize' /\ KeysOnce(tls)' /\ FreedOnce' /\ (P!Moving \cap Held = {})'
        /\ ppc'[Owner] = "shared"
        /\ (\A t \in Remotes : ppc[t] \in {"idle", "link", "push"})'
        /\ (\A t \in Freeing : parg[t] \in P!Blocks)'
        /\ \A d \in Classes : Same(d)
    BY <1>t, <2>1, <2>2, OwnerQuiet
  <2>4. Calls'
    BY <1>t, <1>1, <2>1, <2>3 DEF Calls, Busy
  <2>5. Listed'
    BY <1>t, <2>3, Steady DEF Listed
  <2>6. QED
    BY <2>3, <2>4, <2>5 DEF PoolInv, Book
<1>5. QED
  BY <1>3, <1>4

LEMMA FreshStep == PoolInv /\ P!Fresh => PoolInv'
<1> SUFFICES ASSUME PoolInv, P!Fresh PROVE PoolInv'
  OBVIOUS
<1>t. Book /\ Listed /\ PoolType /\ Calls /\ KeysOnce(tls)
  BY DEF PoolInv, Book
<1>1. want \in Classes /\ ppc[Owner] = "fresh" /\ ppc[Owner] \in Busy
  BY <1>t DEF P!Fresh, Busy, Calls
<1>2. PICK c \in Classes : c = want
  BY <1>1
<1>3. PICK n \in Nat : n = pcommitted[c] /\ n + 1 \in 0..BlocksPer /\ n < BlocksPer
  BY <1>t, <1>2 DEF PoolType, P!Fresh
<1>4. /\ UNCHANGED <<remoteHead, tls>> /\ pcommitted' = [pcommitted EXCEPT ![c] = n + 1]
      /\ P!Return(<<c, n + 1>>)
  BY <1>2, <1>3 DEF P!Fresh
<1>5. PICK cached \in Seq(Column(c)), shared \in Seq(Column(c)) :
        Laid(c, link, P!CachedHead(tls, c), remoteHead[c], Out(c), n, cached, shared)
  BY <1>3, PlacedAre
<1>6. /\ <<c, n + 1>> \notin Out(c)
      /\ Laid(c, link, P!CachedHead(tls, c), remoteHead[c], Out(c) \cup {<<c, n + 1>>}, n + 1, cached, shared)
  BY <1>5, LaidFresh, Zenon
<1>7. <<c, n + 1>> \in Column(c) \ Out(c)
  BY <1>3, <1>6 DEF Column
<1>8. /\ remoteHead' \in [Classes -> Pointers] /\ pcommitted' \in [Classes -> 0..BlocksPer]
      /\ pcommitted'[c] = n + 1 /\ remoteHead'[c] = remoteHead[c]
      /\ P!CachedHead(tls', c) = P!CachedHead(tls, c) /\ tls' \in Seq(Records) /\ KeysOnce(tls')
      /\ \A d \in Classes \ {c} : P!CachedHead(tls', d) = P!CachedHead(tls, d)
                              /\ remoteHead'[d] = remoteHead[d] /\ pcommitted'[d] = pcommitted[d]
  BY <1>t, <1>3, <1>4 DEF PoolType
<1>9. QED
  BY <1>1, <1>2, <1>3, <1>4, <1>6, <1>7, <1>8, ReturnStep, Zenon

-----------------------------------------------------------------------------
(* What threads give back. *)

LEMMA OwnPush ==
  ASSUME PoolInv, NEW c \in Classes, NEW b \in Column(c), b \in Out(c), P!TlsPush(c, b),
         (P!Moving \cup Held)' = (P!Moving \cup Held) \ {b},
         UNCHANGED <<pcommitted, remoteHead>>, ppc'[Owner] \notin {"next", "cas"}
  PROVE  /\ tls' \in Seq(Records) /\ KeysOnce(tls)' /\ link' \in [P!Blocks -> Pointers] /\ Listed'
<1>t. Book /\ Listed /\ PoolType /\ KeysOnce(tls) /\ tls \in Seq(Records)
  BY DEF PoolInv, Book, PoolType
<1>1. b \in P!Blocks /\ b[1] = c /\ b \in Pointers
  BY BlocksAre DEF Pointers
<1>2. tls' = [P!Entries(c) EXCEPT ![P!SlotOf(c)].head = b] /\ link' = [link EXCEPT ![b] = P!HeadOf(c)]
  BY DEF P!TlsPush
<1>h. P!HeadOf(c) = P!CachedHead(tls, c) /\ P!CachedHead(tls, c) \in Pointers
  BY <1>t, TlsIs, Heads
<1>3. PICK h \in Pointers : h = P!CachedHead(tls, c) /\ h = P!HeadOf(c)
  BY <1>h
<1>4. /\ tls' \in Seq(Records) /\ KeysOnce(tls') /\ P!CachedHead(tls', c) = b
      /\ \A d \in Classes : d # c => P!CachedHead(tls', d) = P!CachedHead(tls, d)
  BY <1>t, <1>1, <1>2, TlsSet
<1>5. /\ link' \in [P!Blocks -> Pointers] /\ link'[b] = h
      /\ \A x \in P!Blocks \ {b} : link'[x] = link[x]
  BY <1>t, <1>1, <1>2, <1>3 DEF PoolType
<1>6. \A d \in Classes \ {c} : Same(d)
  <2>1. \A d \in Classes \ {b[1]} : P!CachedHead(tls', d) = P!CachedHead(tls, d)
                                  /\ remoteHead'[d] = remoteHead[d] /\ pcommitted'[d] = pcommitted[d]
    BY <1>1, <1>4
  <2>2. (P!Moving \cup Held)' \ {b} = (P!Moving \cup Held) \ {b}
    OBVIOUS
  <2>3. \A d \in Classes \ {b[1]} : Same(d)
    BY <1>t, <1>1, <1>5, <2>1, <2>2, OthersSame, Zenon
  <2>4. QED
    BY <1>1, <2>3
<1>7. PoolPlaced(c)'
  <2>1. PICK cached \in Seq(Column(c)), shared \in Seq(Column(c)) :
          Laid(c, link, h, remoteHead[c], Out(c), pcommitted[c], cached, shared)
    BY <1>3, PlacedAre
  <2>2. pcommitted[c] \in Nat
    BY <1>t DEF PoolType
  <2>3. \A x \in Column(c) \ Out(c) : link'[x] = link[x]
    BY <1>5, BlocksAre
  <2>4. PICK more \in Seq(Column(c)) :
          Laid(c, link', b, remoteHead[c], Out(c) \ {b}, pcommitted[c], more, shared)
    <3>0. Alike(c, link, link', Out(c))
      BY <2>3 DEF Alike
    <3>1. Laid(c, link', h, remoteHead[c], Out(c), pcommitted[c], cached, shared)
      BY <2>1, <3>0, LaidKept
    <3>2. PICK later : later = link'
      OBVIOUS
    <3>3. Laid(c, later, h, remoteHead[c], Out(c), pcommitted[c], cached, shared) /\ later[b] = h
      BY <1>5, <3>1, <3>2
    <3>4. \E more \in Seq(Column(c)) :
            /\ Laid(c, later, b, remoteHead[c], Out(c) \ {b}, pcommitted[c], more, shared)
            /\ Extends(more, cached)
      BY <2>2, <3>3, LaidPush, Zenon
    <3>5. QED
      BY <3>2, <3>4
  <2>5. Out(c)' = Out(c) \ {b}
    BY DEF Out
  <2>6. Laid(c, link', P!CachedHead(tls', c), remoteHead'[c], Out(c)', pcommitted'[c], more, shared)
    BY <1>4, <2>4, <2>5
  <2>7. Reading(c, shared)'
    BY DEF Reading
  <2>8. \E ca \in Seq(Column(c)), sh \in Seq(Column(c)) :
          /\ Laid(c, link', P!CachedHead(tls', c), remoteHead'[c], Out(c)', pcommitted'[c], ca, sh)
          /\ Reading(c, sh)'
    BY <2>6, <2>7
  <2>9. QED
    BY <2>8 DEF PoolPlaced
<1>8. Listed'
  BY <1>t, <1>6, <1>7, Steady DEF Listed
<1>9. QED
  BY <1>4, <1>5, <1>8

LEMMA FreeOldStep == PoolInv /\ P!FreeOld => PoolInv'
<1> SUFFICES ASSUME PoolInv, P!FreeOld PROVE PoolInv'
  OBVIOUS
<1>t. /\ Book /\ Listed /\ PoolType /\ Calls /\ KeysOnce(tls) /\ FreedOnce /\ OwnSize
      /\ P!Moving \cap Held = {}
  BY DEF PoolInv, Book
<1>1. ppc[Owner] = "free" /\ old \in P!Blocks
  BY <1>t DEF P!FreeOld, Calls
<1>2. PICK b \in P!Blocks : b = old
  BY <1>1
<1>3. /\ P!TlsPush(b[1], b) /\ old' = P!Null /\ ppc' = [ppc EXCEPT ![Owner] = "idle"] /\ "idle" \in Places
      /\ UNCHANGED <<pcommitted, remoteHead, held, parg, phead, pnext, want>>
  BY <1>2 DEF P!FreeOld, P!Goto, Places
<1>4. /\ ppc' \in [P!Threads -> Places] /\ ppc'[Owner] = "idle" /\ Freeing' = Freeing
      /\ \A u \in Remotes : ppc'[u] = ppc[u]
  BY <1>t, <1>3, OwnerGoes
<1>5. Held' = Held
  BY <1>3 DEF Held
<1>6. P!Moving' = P!Moving \ {b} /\ b \in P!Moving
  <2>1. \A t \in Freeing : parg[t] # b
    BY <1>t, <1>1, <1>2 DEF FreedOnce
  <2>2. P!Moving = {parg[t] : t \in Freeing} \cup {b}
    BY <1>1, <1>2 DEF P!Moving, Freeing
  <2>3. P!Moving' = {parg[t] : t \in Freeing}
    BY <1>3, <1>4 DEF P!Moving, Freeing
  <2>4. QED
    BY <2>1, <2>2, <2>3
<1>7. (P!Moving \cup Held)' = (P!Moving \cup Held) \ {b} /\ (P!Moving \cap Held = {})'
  BY <1>t, <1>5, <1>6
<1>8. b \in Column(b[1]) /\ b \in Out(b[1]) /\ b[1] \in Classes
  BY <1>6, BlocksAre DEF Out
<1>9. PICK c \in Classes : c = b[1]
  BY <1>8
<1>10. tls' \in Seq(Records) /\ KeysOnce(tls)' /\ link' \in [P!Blocks -> Pointers] /\ Listed'
  BY <1>3, <1>4, <1>7, <1>8, <1>9, OwnPush
<1>11. PoolType'
  BY <1>t, <1>3, <1>4, <1>10 DEF PoolType, Pointers
<1>12. Calls'
  BY <1>t, <1>3, <1>4 DEF Calls, Busy
<1>13. OwnSize' /\ FreedOnce'
  BY <1>t, <1>3, <1>4 DEF OwnSize, FreedOnce
<1>14. QED
  BY <1>7, <1>10, <1>11, <1>12, <1>13 DEF PoolInv, Book

\* A block leaves the hands of its user.
LEMMA HeldLess ==
  ASSUME PoolType, OwnSize, NEW h \in held, held' = held \ {h}
  PROVE  /\ Held' = Held \ {h.block} /\ h.block \in Held /\ h.block \in P!Blocks /\ h.size = h.block[1]
         /\ held' \subseteq [block : P!Blocks, size : Classes] /\ OwnSize'
         /\ \A r \in held : r.block # h.block => r \in held'
<1>1. \A k \in held : k \in [block : P!Blocks, size : Classes] /\ k.size = k.block[1]
  BY DEF PoolType, OwnSize
<1>2. \A k \in held : k = [block |-> k.block, size |-> k.size]
  BY <1>1
<1>3. \A k \in held : k.block = h.block => k = h
  BY <1>1, <1>2
<1>4. Held' = Held \ {h.block}
  <2>1. ASSUME NEW y \in Held' PROVE y \in Held \ {h.block}
    <3>1. PICK k \in held' : y = k.block
      BY DEF Held
    <3>2. k \in held /\ k # h
      BY <3>1
    <3>3. QED
      BY <1>3, <3>1, <3>2 DEF Held
  <2>2. ASSUME NEW y \in Held \ {h.block} PROVE y \in Held'
    <3>1. PICK k \in held : y = k.block
      BY DEF Held
    <3>2. k \in held'
      BY <2>2, <3>1
    <3>3. QED
      BY <3>1, <3>2 DEF Held
  <2>3. QED
    BY <2>1, <2>2
<1>5. OwnSize'
  BY DEF OwnSize
<1>6. h.block \in Held
  BY DEF Held
<1>7. held' \subseteq [block : P!Blocks, size : Classes]
  BY DEF PoolType
<1>8. \A r \in held : r.block # h.block => r \in held'
  OBVIOUS
<1>9. QED
  BY <1>1, <1>4, <1>5, <1>6, <1>7, <1>8

LEMMA FreeOwnStep ==
  ASSUME PoolInv, NEW h \in held, P!FreeOwn(h)
  PROVE  PoolInv'
<1>t. /\ Book /\ Listed /\ PoolType /\ Calls /\ KeysOnce(tls) /\ FreedOnce /\ OwnSize
      /\ P!Moving \cap Held = {}
  BY DEF PoolInv, Book
<1>1. /\ ppc[Owner] = "idle" /\ held' = held \ {h} /\ P!TlsPush(h.size, h.block)
      /\ UNCHANGED <<pcommitted, remoteHead, ppc, parg, want, old, phead, pnext>>
  BY DEF P!FreeOwn, P!locals
<1>2. /\ Held' = Held \ {h.block} /\ h.block \in Held /\ h.block \in P!Blocks /\ h.size = h.block[1]
      /\ held' \subseteq [block : P!Blocks, size : Classes] /\ OwnSize'
  BY <1>t, <1>1, HeldLess
<1>3. PICK b \in P!Blocks : b = h.block
  BY <1>2
<1>4. b \in Column(b[1]) /\ b \in Out(b[1]) /\ b[1] \in Classes
  BY <1>2, <1>3, BlocksAre DEF Out
<1>5. PICK c \in Classes : c = b[1]
  BY <1>4
<1>6. P!Moving' = P!Moving
  BY <1>1 DEF P!Moving
<1>7. (P!Moving \cup Held)' = (P!Moving \cup Held) \ {b} /\ (P!Moving \cap Held = {})'
  BY <1>t, <1>2, <1>3, <1>6
<1>8. tls' \in Seq(Records) /\ KeysOnce(tls)' /\ link' \in [P!Blocks -> Pointers] /\ Listed'
  <2>1. P!TlsPush(c, b) /\ ppc'[Owner] \notin {"next", "cas"} /\ UNCHANGED <<pcommitted, remoteHead>>
    BY <1>1, <1>2, <1>3, <1>5
  <2>2. QED
    BY <1>4, <1>5, <1>7, <2>1, OwnPush
<1>9. PoolType'
  BY <1>t, <1>1, <1>2, <1>8 DEF PoolType
<1>10. Calls'
  BY <1>t, <1>1 DEF Calls, Busy, Freeing
<1>11. FreedOnce'
  BY <1>t, <1>1 DEF FreedOnce, Freeing
<1>12. QED
  BY <1>2, <1>7, <1>8, <1>9, <1>10, <1>11 DEF PoolInv, Book

-----------------------------------------------------------------------------
(* Threads that only free. *)

LEMMA RemoteGoes ==
  ASSUME PoolType, NEW t \in Remotes, NEW x \in Places, ppc' = [ppc EXCEPT ![t] = x]
  PROVE  /\ ppc' \in [P!Threads -> Places] /\ ppc'[t] = x /\ ppc'[Owner] = ppc[Owner]
         /\ \A u \in Remotes \ {t} : ppc'[u] = ppc[u]
         /\ x \in {"link", "push"} => Freeing' = Freeing \cup {t}
         /\ x = "idle" => Freeing' = Freeing \ {t}
<1>1. /\ ppc' \in [P!Threads -> Places] /\ ppc'[t] = x /\ ppc'[Owner] = ppc[Owner]
      /\ \A u \in Remotes \ {t} : ppc'[u] = ppc[u]
  BY DEF PoolType, P!Threads
<1>2. QED
  BY <1>1 DEF Freeing

\* The lists when only the first word of a block outside of them changes.
LEMMA Linked ==
  ASSUME PoolInv, (P!Moving \cup Held)' = P!Moving \cup Held,
         \A x \in P!Blocks \ (P!Moving \cup Held) : link'[x] = link[x],
         UNCHANGED <<pcommitted, remoteHead, tls, want, phead>>, ppc'[Owner] = ppc[Owner]
  PROVE  Listed'
<1>1. ASSUME NEW d \in Classes PROVE Same(d)
  <2>1. Out(d)' = Out(d)
    BY DEF Out
  <2>2. \A x \in Column(d) \ Out(d) : link'[x] = link[x]
    BY BlocksAre DEF Out
  <2>3. QED
    BY <2>1, <2>2 DEF Same
<1>2. QED
  BY <1>1, Steady DEF PoolInv, Book, Listed

LEMMA ReadIsListed ==
  ASSUME PoolInv, ppc[Owner] \in {"next", "cas"}
  PROVE  phead \in P!Blocks \ (P!Moving \cup Held)
<1>1. want \in Classes
  BY DEF PoolInv, Book, Calls, Busy
<1>2. PICK c \in Classes : c = want
  BY <1>1
<1>3. PICK cached \in Seq(Column(c)), shared \in Seq(Column(c)) :
        /\ Laid(c, link, P!CachedHead(tls, c), remoteHead[c], Out(c), pcommitted[c], cached, shared)
        /\ Reading(c, shared)
  BY PlacedAre
<1>4. phead \in P!Range(shared) /\ P!Range(shared) \subseteq Column(c)
  BY <1>2, <1>3, RangeIn DEF Reading
<1>5. phead \notin Out(c)
  BY <1>3, <1>4 DEF Laid
<1>6. QED
  BY <1>4, <1>5, BlocksAre DEF Out

LEMMA FreeRemoteStep ==
  ASSUME PoolInv, NEW t \in Remotes, NEW h \in held, h.block # old, P!FreeRemote(t, h)
  PROVE  PoolInv'
<1>t. /\ Book /\ Listed /\ PoolType /\ Calls /\ KeysOnce(tls) /\ FreedOnce /\ OwnSize
      /\ P!Moving \cap Held = {}
  BY DEF PoolInv, Book
<1>1. PICK b : b = h.block
  OBVIOUS
<1>2. /\ ppc[t] = "idle" /\ held' = held \ {h} /\ parg' = [parg EXCEPT ![t] = b]
      /\ link' = [link EXCEPT ![b] = remoteHead[b[1]]] /\ ppc' = [ppc EXCEPT ![t] = "push"]
      /\ UNCHANGED <<pcommitted, remoteHead, tls, want, old, phead, pnext>> /\ "push" \in Places
  BY <1>1 DEF P!FreeRemote, P!LinkTo, P!Goto, P!locals, Places
<1>3. /\ Held' = Held \ {b} /\ b \in Held /\ b \in P!Blocks /\ b[1] \in Classes
      /\ held' \subseteq [block : P!Blocks, size : Classes] /\ OwnSize'
      /\ \A r \in held : r.block # b => r \in held'
  BY <1>t, <1>1, <1>2, HeldLess, BlocksAre
<1>4. /\ ppc' \in [P!Threads -> Places] /\ ppc'[t] = "push" /\ ppc'[Owner] = ppc[Owner]
      /\ (\A u \in Remotes \ {t} : ppc'[u] = ppc[u]) /\ Freeing' = Freeing \cup {t} /\ t \notin Freeing
  BY <1>t, <1>2, RemoteGoes DEF Freeing
<1>5. /\ parg' \in [P!Threads -> Pointers] /\ parg'[t] = b /\ \A u \in Freeing : parg'[u] = parg[u]
      /\ \A u \in Freeing : parg[u] \in P!Moving
  BY <1>t, <1>2, <1>3, <1>4 DEF PoolType, P!Threads, Pointers, Freeing, P!Moving
<1>6. P!Moving' = P!Moving \cup {b}
  <2>1. P!Moving = {parg[u] : u \in Freeing} \cup (IF ppc[Owner] = "free" THEN {old} ELSE {})
    BY DEF P!Moving, Freeing
  <2>2. P!Moving' = {parg'[u] : u \in Freeing'} \cup (IF ppc'[Owner] = "free" THEN {old'} ELSE {})
    BY DEF P!Moving, Freeing
  <2>3. {parg'[u] : u \in Freeing'} = {parg[u] : u \in Freeing} \cup {b}
    BY <1>4, <1>5
  <2>4. QED
    BY <1>2, <1>4, <2>1, <2>2, <2>3
<1>7. (P!Moving \cup Held)' = P!Moving \cup Held /\ (P!Moving \cap Held = {})' /\ b \notin P!Moving
  BY <1>t, <1>3, <1>6
<1>8. /\ link' \in [P!Blocks -> Pointers]
      /\ \A x \in P!Blocks \ (P!Moving \cup Held) : link'[x] = link[x]
  BY <1>t, <1>2, <1>3 DEF PoolType
<1>9. Listed'
  BY <1>2, <1>4, <1>7, <1>8, Linked
<1>10. PoolType'
  BY <1>t, <1>2, <1>3, <1>4, <1>5, <1>8 DEF PoolType
<1>11. ppc[Owner] = "cas" => phead \in P!Blocks \ (P!Moving \cup Held)
  BY <1>t, ReadIsListed
<1>12. Calls'
  <2>1. ppc'[Owner] \in Busy /\ old' # P!Null => [block |-> old', size |-> old'[1]] \in held'
    <3>1. [block |-> old, size |-> old[1]].block = old
      OBVIOUS
    <3>2. QED
      BY <1>t, <1>1, <1>2, <1>3, <1>4, <3>1 DEF Calls
  <2>2. ppc'[Owner] = "cas" => pnext' = link'[phead']
    BY <1>t, <1>2, <1>4, <1>8, <1>11 DEF Calls
  <2>3. \A u \in Remotes : ppc'[u] \in {"idle", "link", "push"}
    BY <1>t, <1>4 DEF Calls
  <2>4. \A u \in Freeing' : parg'[u] \in P!Blocks
    BY <1>t, <1>3, <1>4, <1>5 DEF Calls
  <2>5. QED
    BY <1>t, <1>2, <1>4, <2>1, <2>2, <2>3, <2>4 DEF Calls
<1>13. FreedOnce'
  <2>1. \A u, v \in Freeing' : parg'[u] = parg'[v] => u = v
    BY <1>t, <1>4, <1>5, <1>7 DEF FreedOnce
  <2>2. ppc'[Owner] = "free" => \A u \in Freeing' : parg'[u] # old'
    BY <1>t, <1>1, <1>2, <1>4, <1>5 DEF FreedOnce
  <2>3. QED
    BY <2>1, <2>2 DEF FreedOnce
<1>14. QED
  BY <1>3, <1>7, <1>9, <1>10, <1>12, <1>13, <1>t, <1>2 DEF PoolInv, Book

LEMMA FreeAgainStep ==
  ASSUME PoolInv, NEW t \in Remotes, P!FreeAgain(t)
  PROVE  PoolInv'
<1>t. /\ Book /\ Listed /\ PoolType /\ Calls /\ KeysOnce(tls) /\ FreedOnce /\ OwnSize
      /\ P!Moving \cap Held = {}
  BY DEF PoolInv, Book
<1>1. ppc[t] = "link" /\ t \in Freeing
  BY DEF P!FreeAgain, Freeing
<1>2. PICK b \in P!Blocks : b = parg[t]
  BY <1>t, <1>1 DEF Calls
<1>3. /\ link' = [link EXCEPT ![b] = remoteHead[b[1]]] /\ ppc' = [ppc EXCEPT ![t] = "push"]
      /\ UNCHANGED <<pcommitted, remoteHead, tls, held, parg, want, old, phead, pnext>> /\ "push" \in Places
  BY <1>2 DEF P!FreeAgain, P!LinkTo, P!Goto, P!locals, Places
<1>4. /\ ppc' \in [P!Threads -> Places] /\ ppc'[t] = "push" /\ ppc'[Owner] = ppc[Owner]
      /\ (\A u \in Remotes \ {t} : ppc'[u] = ppc[u]) /\ Freeing' = Freeing
  <2>1. /\ ppc' \in [P!Threads -> Places] /\ ppc'[t] = "push" /\ ppc'[Owner] = ppc[Owner]
        /\ (\A u \in Remotes \ {t} : ppc'[u] = ppc[u]) /\ Freeing' = Freeing \cup {t}
    BY <1>t, <1>3, RemoteGoes
  <2>2. QED
    BY <1>1, <2>1
<1>5. P!Moving' = P!Moving /\ Held' = Held /\ b \in P!Moving
  BY <1>1, <1>2, <1>3, <1>4 DEF P!Moving, Held, Freeing
<1>6. b[1] \in Classes
  BY BlocksAre
<1>7. /\ link' \in [P!Blocks -> Pointers]
      /\ \A x \in P!Blocks \ (P!Moving \cup Held) : link'[x] = link[x]
  BY <1>t, <1>3, <1>5, <1>6 DEF PoolType
<1>8. Listed'
  BY <1>3, <1>4, <1>5, <1>7, Linked
<1>9. PoolType'
  BY <1>t, <1>3, <1>4, <1>7 DEF PoolType
<1>10. ppc[Owner] = "cas" => phead \in P!Blocks \ (P!Moving \cup Held)
  BY <1>t, ReadIsListed
<1>11. Calls'
  <2>1. ppc'[Owner] = "cas" => pnext' = link'[phead']
    BY <1>t, <1>3, <1>4, <1>7, <1>10 DEF Calls
  <2>2. \A u \in Remotes : ppc'[u] \in {"idle", "link", "push"}
    BY <1>t, <1>4 DEF Calls
  <2>3. QED
    BY <1>t, <1>3, <1>4, <2>1, <2>2 DEF Calls
<1>12. OwnSize' /\ FreedOnce' /\ KeysOnce(tls)'
  BY <1>t, <1>3, <1>4 DEF OwnSize, FreedOnce
<1>13. QED
  BY <1>t, <1>5, <1>8, <1>9, <1>11, <1>12 DEF PoolInv, Book

LEMMA FreePushStep ==
  ASSUME PoolInv, NEW t \in Remotes, P!FreePush(t)
  PROVE  PoolInv'
<1>t. /\ Book /\ Listed /\ PoolType /\ Calls /\ KeysOnce(tls) /\ FreedOnce /\ OwnSize
      /\ P!Moving \cap Held = {}
  BY DEF PoolInv, Book
<1>1. ppc[t] = "push" /\ t \in Freeing
  BY DEF P!FreePush, Freeing
<1>2. PICK b \in P!Blocks : b = parg[t]
  BY <1>t, <1>1 DEF Calls
<1>3. b[1] \in Classes
  BY BlocksAre
<1>4. PICK c \in Classes : c = b[1]
  BY <1>3
<1>5. UNCHANGED <<pcommitted, link, tls, held, want, old, phead, pnext>>
  BY DEF P!FreePush, P!locals
<1>6. Held' = Held
  BY <1>5 DEF Held
<1>7. CASE remoteHead[c] = link[b]
  <2>1. /\ remoteHead' = [remoteHead EXCEPT ![c] = b] /\ parg' = [parg EXCEPT ![t] = P!Null]
        /\ ppc' = [ppc EXCEPT ![t] = "idle"] /\ "idle" \in Places
    BY <1>2, <1>4, <1>7 DEF P!FreePush, P!Push, P!Goto, Places
  <2>2. /\ ppc' \in [P!Threads -> Places] /\ ppc'[t] = "idle" /\ ppc'[Owner] = ppc[Owner]
        /\ (\A u \in Remotes \ {t} : ppc'[u] = ppc[u]) /\ Freeing' = Freeing \ {t}
    BY <1>t, <2>1, RemoteGoes
  <2>3. parg' \in [P!Threads -> Pointers] /\ \A u \in Freeing \ {t} : parg'[u] = parg[u] /\ parg[u] # b
    BY <1>t, <1>1, <1>2, <2>1 DEF PoolType, P!Threads, Pointers, FreedOnce, Freeing
  <2>4. P!Moving' = P!Moving \ {b} /\ b \in P!Moving
    <3>1. P!Moving = {parg[u] : u \in Freeing} \cup (IF ppc[Owner] = "free" THEN {old} ELSE {})
      BY DEF P!Moving, Freeing
    <3>2. P!Moving' = {parg'[u] : u \in Freeing'} \cup (IF ppc'[Owner] = "free" THEN {old'} ELSE {})
      BY DEF P!Moving, Freeing
    <3>3. {parg'[u] : u \in Freeing'} = {parg[u] : u \in Freeing} \ {b} /\ b \in {parg[u] : u \in Freeing}
      BY <1>1, <1>2, <2>2, <2>3
    <3>4. ppc[Owner] = "free" => b # old
      BY <1>t, <1>1, <1>2 DEF FreedOnce
    <3>5. QED
      BY <1>5, <2>2, <3>1, <3>2, <3>3, <3>4
  <2>5. (P!Moving \cup Held)' = (P!Moving \cup Held) \ {b} /\ (P!Moving \cap Held = {})'
    BY <1>t, <1>6, <2>4
  <2>6. PoolType'
    BY <1>t, <1>5, <2>1, <2>2, <2>3 DEF PoolType, Pointers
  <2>7. \A d \in Classes \ {c} : Same(d)
    <3>1. \A d \in Classes \ {b[1]} : P!CachedHead(tls', d) = P!CachedHead(tls, d)
                                    /\ remoteHead'[d] = remoteHead[d] /\ pcommitted'[d] = pcommitted[d]
      BY <1>t, <1>4, <1>5, <2>1 DEF PoolType
    <3>2. (P!Moving \cup Held)' \ {b} = (P!Moving \cup Held) \ {b}
      BY <2>5
    <3>3. /\ \A x \in P!Blocks \ {b} : link'[x] = link[x]
          /\ ppc'[Owner] \notin {"next", "cas"} \/ (UNCHANGED <<want, phead>> /\ ppc'[Owner] = ppc[Owner])
      BY <1>5, <2>2
    <3>4. \A d \in Classes \ {b[1]} : Same(d)
      BY <1>t, <3>1, <3>2, <3>3, OthersSame, Zenon
    <3>5. QED
      BY <1>4, <3>4
  <2>8. PoolPlaced(c)'
    <3>1. PICK cached \in Seq(Column(c)), shared \in Seq(Column(c)) :
            /\ Laid(c, link, P!CachedHead(tls, c), remoteHead[c], Out(c), pcommitted[c], cached, shared)
            /\ Reading(c, shared)
      BY PlacedAre
    <3>2. pcommitted[c] \in Nat /\ b \in Column(c) /\ b \in Out(c) /\ link[b] = remoteHead[c]
      BY <1>t, <1>4, <1>7, <2>4, BlocksAre DEF PoolType, Out
    <3>3. Laid(c, link, remoteHead[c], P!CachedHead(tls, c), Out(c), pcommitted[c], shared, cached)
      BY <3>1, LaidSwap, Zenon
    <3>4. PICK more \in Seq(Column(c)) :
            /\ Laid(c, link, b, P!CachedHead(tls, c), Out(c) \ {b}, pcommitted[c], more, cached)
            /\ Extends(more, shared)
      BY <3>2, <3>3, LaidPush, Zenon
    <3>5. Laid(c, link, P!CachedHead(tls, c), b, Out(c) \ {b}, pcommitted[c], cached, more)
      BY <3>4, LaidSwap, Zenon
    <3>6. Out(c)' = Out(c) \ {b}
      BY <2>5 DEF Out
    <3>7. Laid(c, link', P!CachedHead(tls', c), remoteHead'[c], Out(c)', pcommitted'[c], cached, more)
      BY <1>t, <1>5, <2>1, <3>5, <3>6 DEF PoolType
    <3>8. Reading(c, more)'
      BY <1>5, <2>2, <3>1, <3>4 DEF Reading, Extends
    <3>9. \E ca \in Seq(Column(c)), sh \in Seq(Column(c)) :
            /\ Laid(c, link', P!CachedHead(tls', c), remoteHead'[c], Out(c)', pcommitted'[c], ca, sh)
            /\ Reading(c, sh)'
      BY <3>7, <3>8
    <3>10. QED
      BY <3>9 DEF PoolPlaced
  <2>9. Listed'
    BY <1>t, <2>7, <2>8, Steady DEF Listed
  <2>10. Calls'
    <3>1. \A u \in Remotes : ppc'[u] \in {"idle", "link", "push"}
      BY <1>t, <2>2 DEF Calls
    <3>2. \A u \in Freeing' : parg'[u] \in P!Blocks
      BY <1>t, <2>2, <2>3 DEF Calls
    <3>3. QED
      BY <1>t, <1>5, <2>2, <3>1, <3>2 DEF Calls
  <2>11. FreedOnce' /\ OwnSize' /\ KeysOnce(tls)'
    <3>1. /\ \A u, v \in Freeing' : parg'[u] = parg'[v] => u = v
          /\ ppc'[Owner] = "free" => \A u \in Freeing' : parg'[u] # old'
      BY <1>t, <1>5, <2>2, <2>3 DEF FreedOnce
    <3>2. QED
      BY <1>t, <1>5, <3>1 DEF FreedOnce, OwnSize
  <2>12. QED
    BY <2>5, <2>6, <2>9, <2>10, <2>11 DEF PoolInv, Book
<1>8. CASE remoteHead[c] # link[b]
  <2>1. ppc' = [ppc EXCEPT ![t] = "link"] /\ "link" \in Places /\ UNCHANGED <<remoteHead, parg>>
    BY <1>2, <1>4, <1>8 DEF P!FreePush, P!Goto, Places
  <2>2. /\ ppc' \in [P!Threads -> Places] /\ ppc'[t] = "link" /\ ppc'[Owner] = ppc[Owner]
        /\ (\A u \in Remotes \ {t} : ppc'[u] = ppc[u]) /\ Freeing' = Freeing
    <3>1. /\ ppc' \in [P!Threads -> Places] /\ ppc'[t] = "link" /\ ppc'[Owner] = ppc[Owner]
          /\ (\A u \in Remotes \ {t} : ppc'[u] = ppc[u]) /\ Freeing' = Freeing \cup {t}
      BY <1>t, <2>1, RemoteGoes
    <3>2. QED
      BY <1>1, <3>1
  <2>3. P!Moving' = P!Moving
    BY <1>5, <2>1, <2>2 DEF P!Moving, Freeing
  <2>4. PoolType'
    BY <1>t, <1>5, <2>1, <2>2 DEF PoolType
  <2>5. Listed'
    BY <1>5, <1>6, <2>1, <2>2, <2>3, Linked
  <2>6. \A u \in Remotes : ppc'[u] \in {"idle", "link", "push"}
    BY <1>t, <2>2 DEF Calls
  <2>7. Calls' /\ FreedOnce' /\ OwnSize' /\ KeysOnce(tls)'
    BY <1>t, <1>5, <2>1, <2>2, <2>6 DEF Calls, FreedOnce, OwnSize
  <2>8. QED
    BY <1>t, <1>6, <2>3, <2>4, <2>5, <2>7 DEF PoolInv, Book
<1>9. QED
  BY <1>7, <1>8

-----------------------------------------------------------------------------

LEMMA ResetStep == PoolInv /\ P!Reset => PoolInv'
<1> SUFFICES ASSUME PoolInv, P!Reset PROVE PoolInv'
  OBVIOUS
<1>t. /\ Book /\ PoolType /\ Calls /\ KeysOnce(tls) /\ FreedOnce /\ OwnSize
      /\ tls \in Seq(Records)
  BY DEF PoolInv, Book, PoolType
<1>1. /\ held = {} /\ \A t \in P!Threads : ppc[t] = "idle"
      /\ pcommitted' = [d \in Classes |-> 0] /\ remoteHead' = [d \in Classes |-> P!Null]
      /\ link' = [b \in P!Blocks |-> P!Null] /\ UNCHANGED <<tls, held, ppc, parg, want, old, phead, pnext>>
      /\ \A i \in DOMAIN tls : tls[i].head = P!Null
  BY DEF P!Reset, P!locals
<1>2. P!Moving' = {} /\ Held' = {} /\ Freeing' = {}
  BY <1>1 DEF P!Moving, Held, Freeing, P!Threads
<1>3. PoolType'
  BY <1>t, <1>1 DEF PoolType, Pointers
<1>4. Calls' /\ FreedOnce' /\ OwnSize' /\ KeysOnce(tls)'
  BY <1>t, <1>1, <1>2 DEF Calls, FreedOnce, OwnSize, Busy, P!Threads, Freeing
<1>5. ASSUME NEW c \in Classes PROVE PoolPlaced(c)'
  <2>1. P!CachedHead(tls', c) = P!Null
    <3>1. CASE \E i \in 1..Len(tls) : tls[i].key = c
      BY <1>t, <1>1, <3>1, Heads, LenProperties
    <3>2. CASE ~\E i \in 1..Len(tls) : tls[i].key = c
      BY <1>t, <1>1, <3>2, Heads
    <3>3. QED
      BY <3>1, <3>2
  <2>2. <<>> \in Seq(Column(c)) /\ P!Chain(link', <<>>, P!Null) /\ P!IsInjective(<<>>) /\ P!Range(<<>>) = {}
    BY Unlinked
  <2>3. Laid(c, link', P!CachedHead(tls', c), remoteHead'[c], Out(c)', pcommitted'[c], <<>>, <<>>)
    BY <1>1, <1>2, <2>1, <2>2 DEF Laid, Out
  <2>4. Reading(c, <<>>)'
    BY <1>1 DEF Reading, P!Threads
  <2>5. \E ca \in Seq(Column(c)), sh \in Seq(Column(c)) :
          /\ Laid(c, link', P!CachedHead(tls', c), remoteHead'[c], Out(c)', pcommitted'[c], ca, sh)
          /\ Reading(c, sh)'
    BY <2>2, <2>3, <2>4
  <2>6. QED
    BY <2>5 DEF PoolPlaced
<1>6. (P!Moving \cap Held = {})'
  BY <1>2
<1>7. QED
  BY <1>3, <1>4, <1>5, <1>6 DEF PoolInv, Book, Listed

LEMMA PoolStep == PoolInv /\ [P!Next]_(P!vars) => PoolInv'
<1> SUFFICES ASSUME PoolInv, [P!Next]_(P!vars) PROVE PoolInv'
  OBVIOUS
<1>1. ASSUME NEW size \in Requests, P!Allocate(size, P!Null) PROVE PoolInv'
  BY <1>1, AllocateStep
<1>2. ASSUME NEW size \in Requests, NEW h \in held, P!Allocate(size, h.block) PROVE PoolInv'
  BY <1>2, AllocateStep
<1>3. ASSUME NEW h \in held, h.block # old, P!FreeOwn(h) PROVE PoolInv'
  BY <1>3, FreeOwnStep
<1>4. ASSUME NEW h \in held, h.block # old, NEW t \in Remotes, P!FreeRemote(t, h) PROVE PoolInv'
  BY <1>4, FreeRemoteStep
<1>5. ASSUME NEW t \in Remotes, P!FreeAgain(t) \/ P!FreePush(t) PROVE PoolInv'
  BY <1>5, FreeAgainStep, FreePushStep
<1>6. CASE P!Cached \/ P!Shared \/ P!SharedNext \/ P!SharedCas \/ P!Fresh \/ P!OutOfMemory \/ P!FreeOld \/ P!Reset
  BY <1>6, CachedStep, SharedStep, SharedNextStep, SharedCasStep, FreshStep, OutOfMemoryStep,
     FreeOldStep, ResetStep
<1>7. CASE UNCHANGED P!vars
  <2>1. UNCHANGED <<pcommitted, remoteHead, link, tls, held, ppc, parg, want, old, phead, pnext>>
    BY <1>7 DEF P!vars, P!locals
  <2>2. Freeing' = Freeing /\ P!Moving' = P!Moving /\ Held' = Held
    BY <2>1 DEF Freeing, P!Moving, Held
  <2>3. PoolType' /\ Calls' /\ OwnSize' /\ KeysOnce(tls)' /\ FreedOnce' /\ (P!Moving \cap Held = {})'
    BY <2>1, <2>2 DEF PoolInv, Book, PoolType, Calls, OwnSize, KeysOnce, FreedOnce
  <2>4. \A d \in Classes : Same(d)
    BY <2>1, <2>2 DEF Same, Out
  <2>5. Listed'
    BY <2>4, Steady DEF PoolInv, Book, Listed
  <2>6. QED
    BY <2>3, <2>5 DEF PoolInv, Book
<1>8. QED
  BY <1>1, <1>2, <1>3, <1>4, <1>5, <1>6, <1>7 DEF P!Next

LEMMA ListIs ==
  ASSUME NEW c \in Classes, NEW s \in Seq(Column(c)), P!IsInjective(s)
  PROVE  s \in P!Lists(c)
<1> DEFINE n == Len(s)
           f == [i \in 1..n |-> s[i][2]]
<1>1. n \in Nat /\ DOMAIN s = 1..n /\ s \in [1..n -> Column(c)] /\ \A i \in 1..n : s[i] \in Column(c)
  BY LenProperties, ElementOfSeq
<1>2. f \in [1..n -> 1..BlocksPer]
  BY <1>1 DEF Column
<1>3. \A i, j \in 1..n : f[i] = f[j] => i = j
  <2>1. ASSUME NEW i \in 1..n, NEW j \in 1..n, f[i] = f[j] PROVE i = j
    <3>1. s[i] = <<c, s[i][2]>> /\ s[j] = <<c, s[j][2]>>
      BY <1>1 DEF Column
    <3>2. s[i] = s[j]
      BY <2>1, <3>1
    <3>3. QED
      BY <1>1, <3>2 DEF P!IsInjective
  <2>2. QED
    BY <2>1
<1> HIDE DEF f
<1>4. f \in Injection(1..n, 1..BlocksPer)
  BY <1>2, <1>3 DEF Injection, IsInjective, P!IsInjective
<1>5. /\ IsFiniteSet(1..n) /\ Cardinality(1..n) = n
      /\ IsFiniteSet(1..BlocksPer) /\ Cardinality(1..BlocksPer) = BlocksPer
  BY <1>1, Interval
<1>6. n <= BlocksPer
  BY <1>4, <1>5, FS_Injection
<1>7. n \in 0..BlocksPer
  BY <1>1, <1>6
<1>8. QED
  BY <1>1, <1>7 DEF P!Lists, Column

LEMMA PoolSafe == PoolInv => P!EveryBlockInOnePlace
<1> SUFFICES ASSUME PoolInv, NEW c \in Classes
             PROVE  \E cached \in P!Lists(c), shared \in P!Lists(c) :
                      LET moving == {b \in P!Moving : b[1] = c}
                      IN /\ P!Chain(link, cached, P!CachedHead(tls, c)) /\ P!Chain(link, shared, remoteHead[c])
                         /\ P!IsInjective(cached) /\ P!IsInjective(shared) /\ P!Range(cached) \cap P!Range(shared) = {}
                         /\ (P!Range(cached) \cup P!Range(shared)) \cap (moving \cup P!InUse(c)) = {}
                         /\ moving \cap P!InUse(c) = {}
                         /\ P!Range(cached) \cup P!Range(shared) \cup moving \cup P!InUse(c) = {c} \X (1..pcommitted[c])
  BY Zenon DEF P!EveryBlockInOnePlace
<1>1. PICK cached \in Seq(Column(c)), shared \in Seq(Column(c)) :
        Laid(c, link, P!CachedHead(tls, c), remoteHead[c], Out(c), pcommitted[c], cached, shared)
  BY PlacedAre
<1>2. cached \in P!Lists(c) /\ shared \in P!Lists(c)
  BY <1>1, ListIs DEF Laid
<1> DEFINE moving == {b \in P!Moving : b[1] = c}
<1>3. P!InUse(c) = Held \cap Column(c)
  <2>1. \A h \in held : h.block \in P!Blocks /\ h.size = h.block[1]
    BY DEF PoolInv, Book, PoolType, OwnSize
  <2>2. ASSUME NEW h \in held PROVE h.size = c <=> h.block \in Column(c)
    BY <2>1, BlocksAre
  <2>3. ASSUME NEW y \in P!InUse(c) PROVE y \in Held \cap Column(c)
    BY <2>2 DEF P!InUse, Held
  <2>4. ASSUME NEW y \in Held \cap Column(c) PROVE y \in P!InUse(c)
    BY <2>2 DEF P!InUse, Held
  <2>5. QED
    BY <2>3, <2>4
<1>4. moving = P!Moving \cap Column(c)
  <2>1. P!Moving \subseteq P!Blocks
    BY DEF PoolInv, Book, Calls, P!Moving, Freeing
  <2>2. QED
    BY <2>1, BlocksAre
<1> HIDE DEF moving
<1>5. moving \cup P!InUse(c) = Out(c) /\ moving \cap P!InUse(c) = {}
  BY <1>3, <1>4 DEF Out, PoolInv, Book
<1>6. /\ P!Chain(link, cached, P!CachedHead(tls, c)) /\ P!Chain(link, shared, remoteHead[c])
      /\ P!IsInjective(cached) /\ P!IsInjective(shared) /\ P!Range(cached) \cap P!Range(shared) = {}
      /\ (P!Range(cached) \cup P!Range(shared)) \cap (moving \cup P!InUse(c)) = {}
      /\ moving \cap P!InUse(c) = {}
      /\ P!Range(cached) \cup P!Range(shared) \cup moving \cup P!InUse(c) = {c} \X (1..pcommitted[c])
  BY <1>1, <1>5 DEF Laid
<1>7. QED
  BY <1>2, <1>6 DEF moving


HIDE PoolConstants DEF P!PoolAssumption

-----------------------------------------------------------------------------
(* Budgets *)

LEMMA TaggedConstants == T!TaggedAssumption
BY Constants

USE TaggedConstants DEF T!TaggedAssumption
\* Finite sets as TaggedMemory knows them.
LEMMA TaggedCardinality ==
  ASSUME NEW s
  PROVE  T!Cardinality(s) = Cardinality(s) /\ T!IsFiniteSet(s) = IsFiniteSet(s)
BY DEF T!Cardinality, T!IsFiniteSet, Cardinality, IsFiniteSet



\* The inner resource hands out what it is asked for, as the system does.
AsAsked == \A size \in Amounts : T!Rounded(size) = size

Bytes(sizes) == {c \in Regions \X (1..Limit) : c[2] <= sizes[c[1]]}
Total(sizes) == Cardinality(Bytes(sizes))
Put(sizes, r, v) == [sizes EXCEPT ![r] = v]

BudgetInv ==
  /\ block \in [Regions -> 0..Limit]
  /\ used = Total(block) /\ used <= Limit

-----------------------------------------------------------------------------

\* The bytes of one region, and those of the others.
LEMMA BytesSplit ==
  ASSUME NEW sizes \in [Regions -> 0..Limit], NEW r \in Regions
  PROVE  Total(sizes) = Total(Put(sizes, r, 0)) + sizes[r] /\ Total(Put(sizes, r, 0)) \in Nat
<1> DEFINE rest == Bytes([sizes EXCEPT ![r] = 0])
           mine == {r} \X (1..sizes[r])
           whole == Bytes(sizes)
<1>1. sizes[r] \in 0..Limit /\ sizes[r] \in Nat
  OBVIOUS
<1>2. IsFiniteSet(Regions \X (1..Limit))
  BY TaggedCardinality, Interval, FS_Product
<1>3. IsFiniteSet(whole) /\ IsFiniteSet(rest)
  BY <1>2, FS_Subset DEF Bytes
<1>4. mine \cap rest = {}
  BY DEF Bytes
<1>5. whole = rest \cup mine
  <2>1. ASSUME NEW c \in whole PROVE c \in rest \cup mine
    <3>1. c \in Regions \X (1..Limit) /\ c[2] <= sizes[c[1]]
      BY DEF Bytes
    <3>2. CASE c[1] = r
      BY <1>1, <3>1, <3>2
    <3>3. CASE c[1] # r
      BY <3>1, <3>3 DEF Bytes
    <3>4. QED
      BY <3>2, <3>3
  <2>2. ASSUME NEW c \in rest PROVE c \in whole
    <3>1. c \in Regions \X (1..Limit) /\ c[2] <= [sizes EXCEPT ![r] = 0][c[1]]
      BY DEF Bytes
    <3>2. c[1] # r
      BY <3>1
    <3>3. QED
      BY <3>1, <3>2 DEF Bytes
  <2>3. ASSUME NEW c \in mine PROVE c \in whole
    BY <1>1 DEF Bytes
  <2>4. QED
    BY <2>1, <2>2, <2>3
<1>6. IsFiniteSet(mine) /\ Cardinality(mine) = sizes[r]
  <2>1. IsFiniteSet(1..sizes[r]) /\ Cardinality(1..sizes[r]) = sizes[r]
    BY <1>1, Interval
  <2>2. IsFiniteSet({r}) /\ Cardinality({r}) = 1
    BY FS_Singleton
  <2>3. IsFiniteSet(mine) /\ Cardinality(mine) = Cardinality({r}) * Cardinality(1..sizes[r])
    BY <2>1, <2>2, FS_Product
  <2>4. QED
    BY <1>1, <2>1, <2>2, <2>3
<1> HIDE DEF rest, mine, whole
<1>7. /\ Cardinality(rest \cup mine) = Cardinality(rest) + Cardinality(mine) - Cardinality(rest \cap mine)
      /\ Cardinality(rest) \in Nat
  BY <1>3, <1>6, FS_Union, FS_CardinalityType
<1>8. Cardinality(rest \cap mine) = 0
  BY <1>4, FS_EmptySet
<1>9. Cardinality(whole) = Cardinality(rest) + sizes[r]
  BY <1>1, <1>5, <1>6, <1>7, <1>8
<1>10. QED
  BY <1>7, <1>9 DEF whole, rest, Total, Put

LEMMA BytesSet ==
  ASSUME NEW sizes \in [Regions -> 0..Limit], NEW r \in Regions, NEW v \in 0..Limit
  PROVE  /\ Put(sizes, r, v) \in [Regions -> 0..Limit]
         /\ Total(Put(sizes, r, v)) = Total(sizes) - sizes[r] + v
<1>1. PICK later \in [Regions -> 0..Limit] : later = Put(sizes, r, v)
  BY DEF Put
<1>2. Put(later, r, 0) = Put(sizes, r, 0) /\ later[r] = v
  BY <1>1 DEF Put
<1>3. PICK k \in Nat : k = Total(Put(sizes, r, 0))
  BY BytesSplit
<1>4. Total(sizes) = k + sizes[r]
  BY <1>3, BytesSplit
<1>5. Total(later) = k + v
  BY <1>2, <1>3, BytesSplit
<1>6. sizes[r] \in Nat /\ v \in Nat
  OBVIOUS
<1>7. QED
  BY <1>1, <1>4, <1>5, <1>6

LEMMA BytesFit ==
  ASSUME NEW sizes \in [Regions -> 0..Limit], NEW r \in Regions
  PROVE  Total(sizes) \in Nat /\ sizes[r] <= Total(sizes) /\ sizes[r] \in Nat
<1>1. PICK k \in Nat : k = Total(Put(sizes, r, 0))
  BY BytesSplit
<1>2. Total(sizes) = k + sizes[r] /\ sizes[r] \in Nat
  BY <1>1, BytesSplit
<1>3. QED
  BY <1>2

LEMMA BudgetInit == T!Init => BudgetInv
<1> SUFFICES ASSUME T!Init PROVE BudgetInv
  OBVIOUS
<1>1. Bytes(block) = {}
  BY DEF T!Init, Bytes
<1>2. QED
  BY <1>1, FS_EmptySet DEF T!Init, BudgetInv, Total

LEMMA BudgetStep == AsAsked /\ BudgetInv /\ [T!Next]_(T!vars) => BudgetInv'
<1> SUFFICES ASSUME AsAsked, BudgetInv, [T!Next]_(T!vars) PROVE BudgetInv'
  OBVIOUS
<1>t. /\ block \in [Regions -> 0..Limit] /\ used = Total(block) /\ used <= Limit
  BY DEF BudgetInv
<1>1. ASSUME NEW r \in Regions, NEW size \in Amounts, T!Allocate(r, size) PROVE BudgetInv'
  <2>1. /\ used + size <= Limit /\ block[r] = 0 /\ block' = Put(block, r, size)
        /\ used' = used + size
    BY <1>t, <1>1 DEF T!Allocate, T!SystemAllocate, T!Free, AsAsked, Put
  <2>2. Total(block) \in Nat
    BY <1>t, BytesFit
  <2>3. size \in 0..Limit
    BY <1>t, <2>1, <2>2
  <2>4. /\ block' \in [Regions -> 0..Limit]
        /\ Total(block') = Total(block) - block[r] + size
    BY <1>t, <2>1, <2>3, BytesSet
  <2>5. used' = Total(block') /\ used' <= Limit
    BY <1>t, <2>1, <2>2, <2>3, <2>4
  <2>6. QED
    BY <2>4, <2>5 DEF BudgetInv
<1>2. ASSUME NEW r \in Regions, T!Deallocate(r) PROVE BudgetInv'
  <2>1. /\ block' = Put(block, r, 0) /\ used' = T!Minus(used, block[r])
    BY <1>t, <1>2 DEF T!Deallocate, T!SystemDeallocate, Put
  <2>0. Total(block) \in Nat /\ block[r] <= Total(block) /\ block[r] \in Nat
    BY <1>t, BytesFit
  <2>z. 0 \in 0..Limit
    OBVIOUS
  <2>2. /\ block' \in [Regions -> 0..Limit]
        /\ Total(block') = Total(block) - block[r] + 0
    BY <1>t, <2>1, <2>z, BytesSet
  <2>3. used' = Total(block') /\ used' <= Limit
    BY <1>t, <2>0, <2>1, <2>2 DEF T!Minus
  <2>4. QED
    BY <2>2, <2>3 DEF BudgetInv
<1>3. ASSUME NEW r \in Regions, NEW new \in Regions, NEW size \in Amounts, T!Reallocate(r, new, size)
      PROVE  BudgetInv'
  <2> DEFINE first == Put(block, new, size)
  <2>1. /\ T!Minus(used, block[r]) + size <= Limit /\ block[new] = 0 /\ block[r] # 0
        /\ used' = T!Minus(used, block[r]) + size
        /\ block' = [block EXCEPT ![new] = size, ![r] = 0]
    BY <1>t, <1>3 DEF T!Reallocate, T!SystemReallocate, T!Free, T!Taken, AsAsked
  <2>2. block' = Put(first, r, 0) /\ r # new /\ first = Put(block, new, size)
    BY <1>t, <2>1 DEF Put
  <2>3. Total(block) \in Nat /\ block[r] <= Total(block) /\ block[r] \in Nat
    BY <1>t, BytesFit
  <2>4. size \in 0..Limit
    BY <1>t, <2>1, <2>3 DEF T!Minus
  <2>z. 0 \in 0..Limit /\ first[r] = block[r]
    BY <1>t, <2>2 DEF Put
  <2> HIDE DEF first
  <2>5. /\ first \in [Regions -> 0..Limit]
        /\ Total(first) = Total(block) - block[new] + size
    BY <1>t, <2>2, <2>4, BytesSet
  <2>6. /\ block' \in [Regions -> 0..Limit]
        /\ Total(block') = Total(first) - first[r] + 0
    BY <2>2, <2>5, <2>z, BytesSet
  <2>7. used' = Total(block') /\ used' <= Limit
    BY <1>t, <2>1, <2>3, <2>4, <2>5, <2>6, <2>z DEF T!Minus
  <2>8. QED
    BY <2>6, <2>7 DEF BudgetInv
<1>4. CASE UNCHANGED T!vars
  BY <1>t, <1>4 DEF T!vars, BudgetInv
<1>5. QED
  BY <1>1, <1>2, <1>3, <1>4 DEF T!Next

LEMMA BudgetSafe == BudgetInv => T!BudgetExact
BY TaggedCardinality DEF BudgetInv, T!BudgetExact, Bytes, Total


-----------------------------------------------------------------------------
\* However frees of other threads interleave with the owner's calls, a block of a
\* pool is in one place; and a budget is what its blocks take, when the inner
\* resource hands out what it is asked for, as the system does.  For all threads
\* that free, all size classes, and any number of blocks, requests and budgets.
THEOREM BlocksStayAccounted == AsAsked => (Spec => []BlocksAccounted)
<1> SUFFICES ASSUME AsAsked PROVE Spec => []BlocksAccounted
  OBVIOUS
<1> DEFINE I == (which = "pool" => PoolInv) /\ (which = "tagged" => BudgetInv)
<1>1. Init => I
  BY PoolInit, BudgetInit DEF Init
<1>2. I /\ [Next]_all => I'
  <2> SUFFICES ASSUME I, [Next]_all PROVE I'
    OBVIOUS
  <2>1. CASE which = "pool"
    <3>1. PoolInv /\ [P!Next]_pool /\ which' = "pool"
      BY <2>1, OneAtATime
    <3>2. [P!Next]_(P!vars)
      BY <3>1 DEF pool, P!vars, P!locals
    <3>3. QED
      BY <3>1, <3>2, PoolStep
  <2>2. CASE which = "tagged"
    <3>1. BudgetInv /\ [T!Next]_tagged /\ which' = "tagged"
      BY <2>2, OneAtATime
    <3>2. [T!Next]_(T!vars)
      BY <3>1 DEF tagged, T!vars
    <3>3. QED
      BY <3>1, <3>2, BudgetStep
  <2>3. QED
    BY <2>1, <2>2, OneAtATime
<1>3. I => BlocksAccounted
  BY PoolSafe, BudgetSafe DEF BlocksAccounted
<1>4. QED
  BY <1>1, <1>2, <1>3, PTL DEF Spec, all

HIDE TaggedConstants DEF T!TaggedAssumption
-----------------------------------------------------------------------------
(* The hash map *)

LEMMA HashConstants == H!HashAssumption
BY Constants

USE HashConstants DEF H!HashAssumption

Index == 0..(Slots - 1)
Entries == {H!Empty, H!Deleted} \cup {H!Used(k, v) : k \in HashKeys, v \in HashValues}
Keys == {slot[i].key : i \in H!InUse}

\* A probe for k that starts at its home passes no empty slot before slot i.
Reaches(k, i) ==
  \E n \in 0..Slots : H!At(k, n) = i /\ \A m \in 0..(n - 1) : slot[H!At(k, m)] # H!Empty

\* Slot i holds k, or is where k may go.
Fits(i, k) ==
  \/ i \in H!InUse /\ slot[i].key = k
  \/ i \notin H!InUse /\ k \notin Keys /\ Reaches(k, i)
WithEntry(k, v) == [j \in Keys \cup {k} |-> IF j = k THEN v ELSE H!Contents[j]]

TableType == home \in [HashKeys -> Index] /\ slot \in [Index -> Entries]
KeysApart == \A i, j \in H!InUse : slot[i].key = slot[j].key => i = j
KeysReached == \A i \in H!InUse : Reaches(slot[i].key, i)

\* An entry lies where a probe for its key comes before it ends; tombstones count
\* as passed, which is why removing never loses a key behind.
TableInv ==
  /\ TableType /\ KeysApart /\ KeysReached
  /\ IsFiniteSet(Keys) /\ hlen = Cardinality(Keys)

LEMMA TableCardinality ==
  ASSUME NEW B
  PROVE  H!D!Cardinality(B) = Cardinality(B)
BY DEF H!D!Cardinality, H!D!IsFiniteSet, Cardinality, IsFiniteSet

LEMMA LeastIs ==
  ASSUME NEW B \in SUBSET Nat, B # {}
  PROVE  H!Min(B) \in B /\ \A n \in B : H!Min(B) <= n
BY Smallest DEF H!Min

LEMMA EntryKinds ==
  ASSUME NEW e \in Entries
  PROVE  /\ e.tag \in {"empty", "deleted", "used"}
         /\ (e.tag = "empty" <=> e = H!Empty) /\ (e.tag = "deleted" <=> e = H!Deleted)
         /\ e.tag = "used" => e.key \in HashKeys /\ e = H!Used(e.key, e.val)
BY DEF Entries, H!Empty, H!Deleted, H!Used

LEMMA UsedFields ==
  ASSUME NEW k, NEW v
  PROVE  /\ H!Used(k, v).tag = "used" /\ H!Used(k, v).key = k /\ H!Used(k, v).val = v
         /\ H!Used(k, v) # H!Empty /\ H!Deleted # H!Empty /\ H!Deleted.tag # "used"
BY DEF H!Empty, H!Deleted, H!Used

LEMMA InUseIs ==
  ASSUME TableType
  PROVE  /\ DOMAIN slot = Index
         /\ \A i : i \in H!InUse <=> i \in Index /\ slot[i].tag = "used"
         /\ \A i \in H!InUse : i \in Index /\ slot[i] # H!Empty /\ slot[i].key \in HashKeys
<1>1. DOMAIN slot = Index /\ \A i \in Index : slot[i] \in Entries
  BY DEF TableType
<1>2. \A i : i \in H!InUse <=> i \in Index /\ slot[i].tag = "used"
  BY <1>1 DEF H!InUse
<1>3. ASSUME NEW i \in H!InUse PROVE i \in Index /\ slot[i] # H!Empty /\ slot[i].key \in HashKeys
  BY <1>1, <1>2, EntryKinds
<1>4. QED
  BY <1>1, <1>2, <1>3

LEMMA AtIsIndex ==
  ASSUME TableType, NEW k \in HashKeys, NEW n \in Nat
  PROVE  H!At(k, n) \in Index
<1>1. home[k] \in Nat
  BY DEF TableType, Index
<1>2. QED
  BY <1>1 DEF H!At, Index

\* Where a probe ends, and why.
LEMMA ProbeEnd ==
  ASSUME TableType, NEW k \in HashKeys, H!Ends(k) # {}
  PROVE  /\ H!Min(H!Ends(k)) \in 0..Slots
         /\ H!SlotOf(k) \in Index /\ H!SlotOf(k) = H!At(k, H!Min(H!Ends(k)))
         /\ slot[H!SlotOf(k)] = H!Empty \/ H!Holds(k, H!Min(H!Ends(k)))
         /\ \A m \in 0..Slots :
              m < H!Min(H!Ends(k)) => slot[H!At(k, m)] # H!Empty /\ ~H!Holds(k, m)
<1> DEFINE end == H!Min(H!Ends(k))
<1>1. H!Ends(k) \in SUBSET Nat
  BY DEF H!Ends
<1>2. end \in H!Ends(k) /\ \A n \in H!Ends(k) : end <= n
  BY <1>1, LeastIs
<1>3. end \in 0..Slots /\ (slot[H!At(k, end)] = H!Empty \/ H!Holds(k, end))
  BY <1>2 DEF H!Ends
<1>4. \A m \in 0..Slots : m < end => m \notin H!Ends(k)
  BY <1>2, <1>3
<1>5. \A m \in 0..Slots : m < end => slot[H!At(k, m)] # H!Empty /\ ~H!Holds(k, m)
  BY <1>4 DEF H!Ends
<1>6. H!At(k, end) \in Index
  BY <1>3, AtIsIndex
<1>7. QED
  BY <1>3, <1>5, <1>6 DEF H!SlotOf

LEMMA FoundSlot ==
  ASSUME TableType, NEW k \in HashKeys, H!Found(k)
  PROVE  /\ H!SlotOf(k) \in H!InUse /\ slot[H!SlotOf(k)].key = k
         /\ k \in Keys
<1>1. H!SlotOf(k) \in Index /\ slot[H!SlotOf(k)].tag = "used" /\ slot[H!SlotOf(k)].key = k
  BY ProbeEnd DEF H!Found, H!Holds
<1>2. QED
  BY <1>1, InUseIs DEF Keys

\* A key in the table is found.
LEMMA PresentFound ==
  ASSUME TableInv, NEW k \in Keys
  PROVE  k \in HashKeys /\ H!Found(k)
<1>1. PICK i \in H!InUse : slot[i].key = k
  BY DEF Keys
<1>2. TableType /\ KeysApart /\ KeysReached
  BY DEF TableInv
<1>3. k \in HashKeys /\ slot[i].tag = "used"
  BY <1>1, <1>2, InUseIs
<1>4. PICK n \in 0..Slots : H!At(k, n) = i /\ \A m \in 0..(n - 1) : slot[H!At(k, m)] # H!Empty
  BY <1>1, <1>2 DEF KeysReached, Reaches
<1>5. n \in H!Ends(k)
  BY <1>1, <1>3, <1>4 DEF H!Ends, H!Holds
<1> DEFINE end == H!Min(H!Ends(k))
<1>6. H!Ends(k) \in SUBSET Nat
  BY DEF H!Ends
<1>7. end \in H!Ends(k) /\ end <= n
  BY <1>5, <1>6, LeastIs
<1>8. end \in 0..Slots /\ (slot[H!At(k, end)] = H!Empty \/ H!Holds(k, end))
  BY <1>7 DEF H!Ends
<1>9. CASE end = n
  BY <1>1, <1>3, <1>4, <1>5, <1>9 DEF H!Holds, H!Found
<1>10. CASE end < n
  <2>1. end \in 0..(n - 1)
    BY <1>8, <1>10
  <2>2. H!Holds(k, end)
    BY <1>4, <1>8, <2>1
  <2>3. QED
    BY <1>3, <1>5, <2>2 DEF H!Found
<1>11. QED
  BY <1>7, <1>8, <1>9, <1>10

-----------------------------------------------------------------------------
(* What the table holds, as a map. *)

LEMMA ContentsAre ==
  ASSUME TableType, KeysApart
  PROVE  /\ DOMAIN H!Contents = Keys /\ H!Contents = [k \in Keys |-> H!Contents[k]]
         /\ \A i \in H!InUse : H!Contents[slot[i].key] = slot[i].val
<1>1. DOMAIN H!Contents = Keys
  BY DEF H!Contents, Keys
<1>2. ASSUME NEW i \in H!InUse PROVE H!Contents[slot[i].key] = slot[i].val
  <2> DEFINE mine == {j \in H!InUse : slot[j].key = slot[i].key}
  <2>1. mine = {i}
    BY DEF KeysApart
  <2>2. i \in Nat
    BY InUseIs DEF Index
  <2>3. H!Max(mine) = i
    BY <2>1, <2>2 DEF H!Max
  <2>4. slot[i].key \in Keys
    BY DEF Keys
  <2>5. H!Contents[slot[i].key] = slot[H!Max(mine)].val
    BY <2>4 DEF H!Contents, Keys
  <2>6. QED
    BY <2>3, <2>5
<1>3. H!Contents = [k \in Keys |-> H!Contents[k]]
  BY DEF H!Contents, Keys
<1>4. QED
  BY <1>1, <1>2, <1>3

LEMMA ContentsNext == (TableType /\ KeysApart =>
    /\ DOMAIN H!Contents = Keys /\ H!Contents = [k \in Keys |-> H!Contents[k]]
    /\ \A i \in H!InUse : H!Contents[slot[i].key] = slot[i].val)'
BY ContentsAre, PTL

LEMMA InUseNext == (TableType =>
    /\ DOMAIN slot = Index
    /\ \A i : i \in H!InUse <=> i \in Index /\ slot[i].tag = "used")'
BY InUseIs, PTL

\* What did not become empty is still passed by every probe.
LEMMA StillReached ==
  ASSUME home' = home, TableType, NEW k \in HashKeys, NEW i, Reaches(k, i),
         \A j \in Index : slot[j] # H!Empty => slot'[j] # H!Empty
  PROVE  Reaches(k, i)'
<1>1. PICK n \in 0..Slots : H!At(k, n) = i /\ \A m \in 0..(n - 1) : slot[H!At(k, m)] # H!Empty
  BY DEF Reaches
<1>2. \A m \in 0..Slots : H!At(k, m)' = H!At(k, m) /\ H!At(k, m) \in Index
  BY AtIsIndex DEF H!At
<1>3. \A m \in 0..(n - 1) : m \in 0..Slots
  OBVIOUS
<1>4. \A m \in 0..(n - 1) : slot'[H!At(k, m)'] # H!Empty
  BY <1>1, <1>2, <1>3
<1>5. H!At(k, n)' = i
  BY <1>1, <1>2
<1>6. \E x \in 0..Slots : H!At(k, x)' = i /\ \A m \in 0..(x - 1) : slot'[H!At(k, m)'] # H!Empty
  BY <1>4, <1>5
<1>7. QED
  BY <1>6 DEF Reaches, H!Empty

\* Entry k is written to slot i: a new entry, or one that was there.
LEMMA EntryPut ==
  ASSUME TableInv, home' = home, NEW i \in Index, NEW k \in HashKeys, NEW v \in HashValues,
         slot' = [slot EXCEPT ![i] = H!Used(k, v)],
         Fits(i, k)
  PROVE  /\ TableType' /\ KeysApart' /\ KeysReached'
         /\ Keys' = Keys \cup {k}
         /\ H!Contents' = WithEntry(k, v)
<1> DEFINE u == H!Used(k, v)
<1>1. TableType /\ KeysApart /\ KeysReached
  BY DEF TableInv
<1>2. u \in Entries /\ u.tag = "used" /\ u.key = k /\ u.val = v /\ u # H!Empty
  BY UsedFields DEF Entries
<1>3. DOMAIN slot = Index /\ slot \in [Index -> Entries]
  BY <1>1 DEF TableType
<1> HIDE DEF u
<1>4. slot' = [slot EXCEPT ![i] = u]
  BY DEF u
<1>5. slot'[i] = u /\ \A j \in Index : j # i => slot'[j] = slot[j]
  BY <1>3, <1>4
<1>6. TableType'
  BY <1>1, <1>2, <1>3, <1>4 DEF TableType
<1>7. \A j : j \in H!InUse' <=> j \in Index /\ slot'[j].tag = "used"
  BY <1>6, InUseNext
<1>8. \A j : j \in H!InUse <=> j \in Index /\ slot[j].tag = "used"
  BY <1>1, InUseIs
<1>9. H!InUse' = H!InUse \cup {i}
  BY <1>2, <1>5, <1>7, <1>8
<1>10. \A j \in H!InUse : j = i \/ slot[j].key # k
  <2>1. CASE i \in H!InUse /\ slot[i].key = k
    BY <1>1, <2>1 DEF KeysApart
  <2>2. CASE k \notin Keys
    BY <2>2 DEF Keys
  <2>3. QED
    BY <2>1, <2>2 DEF Fits
<1>11. \A j \in H!InUse : j # i => slot'[j] = slot[j]
  BY <1>5, <1>8
<1>12. KeysApart'
  <2>1. ASSUME NEW j \in H!InUse', NEW m \in H!InUse', slot'[j].key = slot'[m].key PROVE j = m
    <3>1. CASE j = i /\ m # i
      BY <1>2, <1>5, <1>9, <1>10, <1>11, <2>1, <3>1
    <3>2. CASE j # i /\ m = i
      BY <1>2, <1>5, <1>9, <1>10, <1>11, <2>1, <3>2
    <3>3. CASE j # i /\ m # i
      BY <1>1, <1>9, <1>11, <2>1, <3>3 DEF KeysApart
    <3>4. QED
      BY <3>1, <3>2, <3>3
  <2>2. QED
    BY <2>1 DEF KeysApart
<1>13. \A j \in Index : slot[j] # H!Empty => slot'[j] # H!Empty
  BY <1>2, <1>5
<1>14. Reaches(k, i)
  BY <1>1 DEF KeysReached, Fits
<1>15. KeysReached'
  <2>1. ASSUME NEW j \in H!InUse' PROVE Reaches(slot[j].key, j)'
    <3>1. CASE j = i
      <4>1. Reaches(k, i)'
        BY <1>1, <1>13, <1>14, StillReached
      <4>2. slot'[j].key = k
        BY <1>2, <1>5, <3>1
      <4>3. QED
        BY <3>1, <4>1, <4>2 DEF Reaches
    <3>2. CASE j # i
      <4>1. j \in H!InUse /\ slot'[j] = slot[j]
        BY <1>9, <1>11, <3>2
      <4>2. PICK x \in HashKeys : x = slot[j].key
        BY <1>1, <4>1, InUseIs
      <4>3. Reaches(x, j)
        BY <1>1, <4>1, <4>2 DEF KeysReached
      <4>4. Reaches(x, j)'
        BY <1>1, <1>13, <4>3, StillReached
      <4>5. QED
        BY <4>1, <4>2, <4>4 DEF Reaches
    <3>3. QED
      BY <3>1, <3>2
  <2>2. QED
    BY <2>1 DEF KeysReached
<1>16. Keys' = Keys \cup {k}
  <2>1. \A x : x \in Keys <=> \E j \in H!InUse : slot[j].key = x
    BY DEF Keys
  <2>2. \A x : x \in Keys' <=> \E j \in H!InUse' : slot'[j].key = x
    BY DEF Keys
  <2>3. \A x : x \in Keys' => x \in Keys \cup {k}
    BY <1>2, <1>5, <1>9, <1>11, <2>1, <2>2
  <2>4. \A x \in Keys : x \in Keys'
    <3>1. ASSUME NEW x \in Keys PROVE x \in Keys'
      <4>1. PICK j \in H!InUse : slot[j].key = x
        BY <2>1
      <4>2. CASE j # i
        BY <1>9, <1>11, <2>2, <4>1, <4>2
      <4>3. CASE j = i
        <5>1. x = k
          BY <4>1, <4>3 DEF Fits
        <5>2. QED
          BY <1>2, <1>5, <1>9, <2>2, <5>1
      <4>4. QED
        BY <4>2, <4>3
    <3>2. QED
      BY <3>1
  <2>5. k \in Keys'
    BY <1>2, <1>5, <1>9, <2>2
  <2>6. QED
    BY <2>3, <2>4, <2>5
<1>17. DOMAIN H!Contents' = Keys' /\ \A j \in H!InUse' : H!Contents'[slot'[j].key] = slot'[j].val
  BY <1>6, <1>12, ContentsNext
<1>18. \A j \in H!InUse : H!Contents[slot[j].key] = slot[j].val
  BY <1>1, ContentsAre
<1>19. \A x \in Keys \cup {k} : H!Contents'[x] = IF x = k THEN v ELSE H!Contents[x]
  <2>1. H!Contents'[k] = v
    BY <1>2, <1>5, <1>9, <1>17
  <2>2. ASSUME NEW x \in Keys, x # k PROVE H!Contents'[x] = H!Contents[x]
    <3>1. PICK j \in H!InUse : slot[j].key = x
      BY DEF Keys
    <3>3. j # i
      BY <2>2, <3>1 DEF Fits, Keys
    <3>4. slot'[j] = slot[j] /\ j \in H!InUse'
      BY <1>9, <1>11, <3>3
    <3>5. QED
      BY <1>17, <1>18, <3>1, <3>4
  <2>3. QED
    BY <2>1, <2>2
<1>20. H!Contents' = [x \in Keys' |-> H!Contents'[x]]
  BY <1>6, <1>12, ContentsNext
<1>21. H!Contents' = WithEntry(k, v)
  BY <1>16, <1>19, <1>20 DEF WithEntry
<1>22. QED
  BY <1>6, <1>12, <1>15, <1>16, <1>21

\* The entry of slot i is removed.
LEMMA EntryDropped ==
  ASSUME TableInv, home' = home, NEW i \in H!InUse, NEW k \in HashKeys, slot[i].key = k,
         slot' = [slot EXCEPT ![i] = H!Deleted]
  PROVE  /\ TableType' /\ KeysApart' /\ KeysReached'
         /\ Keys' = Keys \ {k}
         /\ H!Contents' = [j \in Keys \ {k} |-> H!Contents[j]]
<1>1. TableType /\ KeysApart /\ KeysReached
  BY DEF TableInv
<1>2. H!Deleted \in Entries /\ H!Deleted.tag # "used" /\ H!Deleted # H!Empty
  BY UsedFields DEF Entries
<1>3. DOMAIN slot = Index /\ slot \in [Index -> Entries] /\ i \in Index
  BY <1>1, InUseIs DEF TableType
<1>5. slot'[i] = H!Deleted /\ \A j \in Index : j # i => slot'[j] = slot[j]
  BY <1>3
<1>6. TableType'
  BY <1>1, <1>2, <1>3 DEF TableType
<1>7. \A j : j \in H!InUse' <=> j \in Index /\ slot'[j].tag = "used"
  BY <1>6, InUseNext
<1>8. \A j : j \in H!InUse <=> j \in Index /\ slot[j].tag = "used"
  BY <1>1, InUseIs
<1>9. H!InUse' = H!InUse \ {i}
  BY <1>2, <1>5, <1>7, <1>8
<1>10. \A j \in H!InUse' : slot'[j] = slot[j]
  BY <1>5, <1>8, <1>9
<1>12. KeysApart'
  BY <1>1, <1>9, <1>10 DEF KeysApart
<1>13. \A j \in Index : slot[j] # H!Empty => slot'[j] # H!Empty
  BY <1>2, <1>5
<1>15. KeysReached'
  <2>1. ASSUME NEW j \in H!InUse' PROVE Reaches(slot[j].key, j)'
    <3>1. j \in H!InUse /\ slot'[j] = slot[j]
      BY <1>9, <1>10
    <3>2. PICK x \in HashKeys : x = slot[j].key
      BY <1>1, <3>1, InUseIs
    <3>3. Reaches(x, j)
      BY <1>1, <3>1, <3>2 DEF KeysReached
    <3>4. Reaches(x, j)'
      BY <1>1, <1>13, <3>3, StillReached
    <3>5. QED
      BY <3>1, <3>2, <3>4 DEF Reaches
  <2>2. QED
    BY <2>1 DEF KeysReached
<1>16. Keys' = Keys \ {k}
  <2>1. \A x : x \in Keys <=> \E j \in H!InUse : slot[j].key = x
    BY DEF Keys
  <2>2. \A x : x \in Keys' <=> \E j \in H!InUse' : slot'[j].key = x
    BY DEF Keys
  <2>3. \A j \in H!InUse : j # i => slot[j].key # k
    BY <1>1 DEF KeysApart
  <2>4. QED
    BY <1>9, <1>10, <2>1, <2>2, <2>3
<1>17. DOMAIN H!Contents' = Keys' /\ \A j \in H!InUse' : H!Contents'[slot'[j].key] = slot'[j].val
  BY <1>6, <1>12, ContentsNext
<1>18. \A j \in H!InUse : H!Contents[slot[j].key] = slot[j].val
  BY <1>1, ContentsAre
<1>19. ASSUME NEW x \in Keys \ {k} PROVE H!Contents'[x] = H!Contents[x]
  <2>1. PICK j \in H!InUse : slot[j].key = x
    BY DEF Keys
  <2>2. j \in H!InUse'
    BY <1>9, <2>1
  <2>3. QED
    BY <1>10, <1>17, <1>18, <2>1, <2>2
<1>20. H!Contents' = [x \in Keys' |-> H!Contents'[x]]
  BY <1>6, <1>12, ContentsNext
<1>21. H!Contents' = [x \in Keys \ {k} |-> H!Contents[x]]
  BY <1>16, <1>19, <1>20
<1>22. QED
  BY <1>6, <1>12, <1>15, <1>16, <1>21

-----------------------------------------------------------------------------
(* Each call is a call of the map. *)

\* A new key goes to a slot that its probe reaches, and that holds no entry.
LEMMA TargetReached ==
  ASSUME TableInv, NEW k \in HashKeys, ~H!Found(k), H!Ends(k) # {}
  PROVE  /\ H!Target(k) \in Index /\ H!Target(k) \notin H!InUse
         /\ k \notin Keys /\ Reaches(k, H!Target(k))
<1> DEFINE end == H!Min(H!Ends(k))
           stones == {n \in 0..end : slot[H!At(k, n)] = H!Deleted}
           t == H!Min(stones \cup {end})
<1>1. TableType
  BY DEF TableInv
<1>2. k \notin Keys
  BY PresentFound
<1>3. /\ end \in 0..Slots /\ H!SlotOf(k) = H!At(k, end)
      /\ slot[H!SlotOf(k)] = H!Empty \/ H!Holds(k, end)
      /\ \A m \in 0..Slots : m < end => slot[H!At(k, m)] # H!Empty
  BY <1>1, ProbeEnd
<1>4. slot[H!At(k, end)] = H!Empty
  BY <1>3 DEF H!Found
<1> HIDE DEF end
<1>5. stones \cup {end} \in SUBSET Nat
  BY <1>3
<1>6. t \in stones \cup {end} /\ \A n \in stones \cup {end} : t <= n
  BY <1>5, LeastIs
<1>7. t \in 0..Slots /\ t <= end /\ (slot[H!At(k, t)] = H!Deleted \/ slot[H!At(k, t)] = H!Empty)
  BY <1>3, <1>4, <1>6
<1>8. H!Target(k) = H!At(k, t)
  BY DEF H!Target, end
<1> HIDE DEF t
<1>9. H!At(k, t) \in Index
  BY <1>1, <1>7, AtIsIndex
<1>10. H!At(k, t) \notin H!InUse
  BY <1>1, <1>7, InUseIs DEF H!Empty, H!Deleted
<1>11. \A m \in 0..(t - 1) : m \in 0..Slots /\ m < end
  BY <1>3, <1>7
<1>12. Reaches(k, H!At(k, t))
  BY <1>3, <1>7, <1>11 DEF Reaches
<1>13. QED
  BY <1>2, <1>8, <1>9, <1>10, <1>12

LEMMA TableCounted ==
  ASSUME TableInv, NEW B, Keys' = B,
         TableType' /\ KeysApart' /\ KeysReached',
         \/ B = Keys /\ hlen' = hlen
         \/ \E k : k \notin Keys /\ B = Keys \cup {k} /\ hlen' = hlen + 1
         \/ \E k \in Keys : B = Keys \ {k} /\ hlen' = hlen - 1
  PROVE  TableInv'
<1>1. IsFiniteSet(Keys) /\ hlen = Cardinality(Keys) /\ Cardinality(Keys) \in Nat
  BY FS_CardinalityType DEF TableInv
<1>2. IsFiniteSet(B) /\ hlen' = Cardinality(B)
  <2>1. CASE B = Keys /\ hlen' = hlen
    BY <1>1, <2>1
  <2>2. CASE \E k : k \notin Keys /\ B = Keys \cup {k} /\ hlen' = hlen + 1
    BY <1>1, <2>2, FS_AddElement
  <2>3. CASE \E k \in Keys : B = Keys \ {k} /\ hlen' = hlen - 1
    BY <1>1, <2>3, FS_RemoveElement
  <2>4. QED
    BY <2>1, <2>2, <2>3
<1>3. IsFiniteSet(Keys)' /\ hlen' = Cardinality(Keys)'
  BY <1>2
<1>4. QED
  BY <1>3 DEF TableInv

LEMMA TableInsert ==
  ASSUME TableInv, NEW k \in HashKeys, NEW v \in HashValues, H!Insert(k, v)
  PROVE  TableInv' /\ H!D!Insert(k, v)
<1>1. TableType /\ KeysApart /\ ~H!Refused(k) /\ home' = home /\ ok' = TRUE /\ result' = {}
  BY DEF TableInv, H!Insert
<1>2. DOMAIN H!Contents = Keys
  BY <1>1, ContentsAre
<1>3. CASE H!Found(k)
  <2>1. PICK i : i = H!SlotOf(k)
    OBVIOUS
  <2>2. i \in H!InUse /\ i \in Index /\ slot[i].key = k /\ k \in Keys
    BY <1>1, <1>3, <2>1, FoundSlot, InUseIs
  <2>3. slot' = [slot EXCEPT ![i] = H!Used(k, v)] /\ hlen' = hlen
    BY <1>3, <2>1 DEF H!Insert
  <2>4. /\ TableType' /\ KeysApart' /\ KeysReached' /\ Keys' = Keys \cup {k}
        /\ H!Contents' = WithEntry(k, v)
    BY <1>1, <2>2, <2>3, EntryPut DEF Fits
  <2>5. Keys' = Keys
    BY <2>2, <2>4
  <2>6. TableInv'
    BY <2>3, <2>4, <2>5, TableCounted
  <2>7. QED
    BY <1>1, <1>2, <2>2, <2>4, <2>6 DEF WithEntry, H!D!Insert, H!D!Has
<1>4. CASE ~H!Found(k)
  <2>1. PICK i : i = H!Target(k)
    OBVIOUS
  <2>2. H!Ends(k) # {} /\ hlen < Slots \div 2
    <3>1. hlen \in Nat /\ Slots \div 2 \in Nat
      BY FS_CardinalityType DEF TableInv
    <3>2. QED
      BY <1>1, <3>1 DEF H!Refused
  <2>3. i \in Index /\ i \notin H!InUse /\ k \notin Keys /\ Reaches(k, i)
    BY <1>4, <2>1, <2>2, TargetReached
  <2>4. slot' = [slot EXCEPT ![i] = H!Used(k, v)] /\ hlen' = hlen + 1
    BY <1>4, <2>1 DEF H!Insert
  <2>5. /\ TableType' /\ KeysApart' /\ KeysReached' /\ Keys' = Keys \cup {k}
        /\ H!Contents' = WithEntry(k, v)
    BY <1>1, <2>3, <2>4, EntryPut DEF Fits
  <2>6. TableInv'
    BY <2>3, <2>4, <2>5, TableCounted
  <2>7. H!D!Cardinality(DOMAIN H!Contents) < Slots \div 2
    BY <1>2, <2>2, TableCardinality DEF TableInv
  <2>8. QED
    BY <1>1, <1>2, <2>5, <2>6, <2>7 DEF WithEntry, H!D!Insert
<1>5. QED
  BY <1>3, <1>4

LEMMA TableGetMut ==
  ASSUME TableInv, NEW k \in HashKeys, NEW v \in HashValues, H!GetMut(k, v)
  PROVE  TableInv' /\ H!D!Insert(k, v)
<1>1. TableType /\ KeysApart /\ H!Found(k) /\ home' = home /\ hlen' = hlen /\ ok' = TRUE /\ result' = {}
  BY DEF TableInv, H!GetMut
<1>2. DOMAIN H!Contents = Keys
  BY <1>1, ContentsAre
<1>3. PICK i : i = H!SlotOf(k)
  OBVIOUS
<1>4. i \in H!InUse /\ i \in Index /\ slot[i].key = k /\ k \in Keys
  BY <1>1, <1>3, FoundSlot, InUseIs
<1>5. slot' = [slot EXCEPT ![i] = H!Used(k, v)]
  BY <1>3 DEF H!GetMut
<1>6. /\ TableType' /\ KeysApart' /\ KeysReached' /\ Keys' = Keys \cup {k}
      /\ H!Contents' = WithEntry(k, v)
  BY <1>1, <1>4, <1>5, EntryPut DEF Fits
<1>7. Keys' = Keys
  BY <1>4, <1>6
<1>8. TableInv'
  BY <1>1, <1>6, <1>7, TableCounted
<1>9. QED
  BY <1>1, <1>2, <1>4, <1>6, <1>8 DEF WithEntry, H!D!Insert, H!D!Has

\* What get and remove return.
LEMMA EntryReturned ==
  ASSUME TableInv, NEW k \in HashKeys, H!ReturnEntry(k)
  PROVE  H!D!Return({k})
<1>1. TableType /\ KeysApart
  BY DEF TableInv
<1>2. DOMAIN H!Contents = Keys /\ \A i \in H!InUse : H!Contents[slot[i].key] = slot[i].val
  BY <1>1, ContentsAre
<1>3. H!Found(k) <=> k \in Keys
  BY <1>1, FoundSlot, PresentFound
<1>4. CASE H!Found(k)
  <2>1. H!SlotOf(k) \in H!InUse /\ slot[H!SlotOf(k)].key = k
    BY <1>1, <1>4, FoundSlot
  <2>2. H!Contents[k] = slot[H!SlotOf(k)].val
    BY <1>2, <2>1
  <2>3. ok' = TRUE /\ result' = {<<k, H!Contents[k]>>}
    BY <1>4, <2>2 DEF H!ReturnEntry
  <2>4. {k} \cap DOMAIN H!Contents = {k}
    BY <1>2, <1>3, <1>4
  <2>5. H!D!Entries({k}) = {<<k, H!Contents[k]>>}
    BY <2>4 DEF H!D!Entries
  <2>6. QED
    BY <2>3, <2>4, <2>5 DEF H!D!Return
<1>5. CASE ~H!Found(k)
  <2>1. ok' = FALSE /\ result' = {}
    BY <1>5 DEF H!ReturnEntry
  <2>2. {k} \cap DOMAIN H!Contents = {}
    BY <1>2, <1>3, <1>5
  <2>3. QED
    BY <2>1, <2>2 DEF H!D!Return, H!D!Entries
<1>6. QED
  BY <1>4, <1>5

LEMMA TableRemove ==
  ASSUME TableInv, NEW k \in HashKeys, H!Remove(k)
  PROVE  TableInv' /\ H!D!Remove(k)
<1>1. TableType /\ KeysApart /\ home' = home /\ H!ReturnEntry(k)
  BY DEF TableInv, H!Remove
<1>2. DOMAIN H!Contents = Keys /\ H!D!Return({k})
  BY <1>1, ContentsAre, EntryReturned
<1>3. CASE H!Found(k)
  <2>1. PICK i : i = H!SlotOf(k)
    OBVIOUS
  <2>2. i \in H!InUse /\ slot[i].key = k /\ k \in Keys
    BY <1>1, <1>3, <2>1, FoundSlot
  <2>3. slot' = [slot EXCEPT ![i] = H!Deleted] /\ hlen' = hlen - 1
    BY <1>3, <2>1 DEF H!Remove
  <2>4. /\ TableType' /\ KeysApart' /\ KeysReached' /\ Keys' = Keys \ {k}
        /\ H!Contents' = [j \in Keys \ {k} |-> H!Contents[j]]
    BY <1>1, <2>2, <2>3, EntryDropped
  <2>5. TableInv'
    BY <2>2, <2>3, <2>4, TableCounted
  <2>6. QED
    BY <1>2, <2>4, <2>5 DEF H!D!Remove, H!D!Restrict
<1>4. CASE ~H!Found(k)
  <2>1. slot' = slot /\ hlen' = hlen /\ k \notin Keys
    BY <1>4, PresentFound DEF H!Remove
  <2>2. TableInv' /\ H!Contents' = H!Contents
    BY <1>1, <2>1 DEF TableInv, TableType, KeysApart, KeysReached, Reaches, H!At, Keys, H!InUse, H!Contents
  <2>3. Keys \ {k} = Keys
    BY <2>1
  <2>4. H!Contents = [j \in Keys |-> H!Contents[j]]
    BY DEF H!Contents, Keys
  <2>5. QED
    BY <1>2, <2>2, <2>3, <2>4 DEF H!D!Remove, H!D!Restrict
<1>5. QED
  BY <1>3, <1>4

LEMMA TableUnchanged ==
  ASSUME TableInv, home' = home, slot' = slot, hlen' = hlen
  PROVE  TableInv' /\ H!Contents' = H!Contents
BY DEF TableInv, TableType, KeysApart, KeysReached, Reaches, H!At, Keys, H!InUse, H!Contents

LEMMA TableIterate ==
  ASSUME TableInv, H!Iterate
  PROVE  TableInv' /\ H!D!Iterate
<1>1. TableInv' /\ H!Contents' = H!Contents
  BY TableUnchanged DEF H!Iterate
<1>2. DOMAIN H!Contents = Keys /\ \A i \in H!InUse : H!Contents[slot[i].key] = slot[i].val
  BY ContentsAre DEF TableInv
<1>3. ok' = TRUE /\ result' = {<<slot[i].key, slot[i].val>> : i \in H!InUse}
  BY DEF H!Iterate
<1>4. {<<slot[i].key, slot[i].val>> : i \in H!InUse} = {<<k, H!Contents[k]>> : k \in Keys}
  BY <1>2 DEF Keys
<1>5. QED
  BY <1>1, <1>2, <1>3, <1>4 DEF H!D!Iterate, H!D!Entries

LEMMA TableStep ==
  ASSUME TableInv, [H!Next]_(H!vars)
  PROVE  TableInv' /\ H!DictionaryStep
<1>1. ASSUME NEW k \in HashKeys, H!Refuse(k) PROVE TableInv' /\ H!D!Refuse
  BY <1>1, TableUnchanged DEF H!Refuse, H!D!Refuse
<1>2. ASSUME NEW k \in HashKeys, H!Get(k) PROVE TableInv' /\ H!D!Get(k)
  BY <1>2, TableUnchanged, EntryReturned DEF H!Get, H!D!Get
<1>3. ASSUME NEW k \in HashKeys, H!Remove(k) PROVE TableInv' /\ H!D!Remove(k)
  BY <1>3, TableRemove
<1>4. ASSUME NEW k \in HashKeys, NEW v \in HashValues, H!Insert(k, v)
      PROVE  TableInv' /\ H!D!Insert(k, v)
  BY <1>4, TableInsert
<1>5. ASSUME NEW k \in HashKeys, NEW v \in HashValues, H!GetMut(k, v)
      PROVE  TableInv' /\ H!D!Insert(k, v)
  BY <1>5, TableGetMut
<1>6. ASSUME H!Iterate PROVE TableInv' /\ H!D!Iterate
  BY <1>6, TableIterate
<1>7. ASSUME UNCHANGED H!vars PROVE TableInv' /\ UNCHANGED <<H!Contents, ok, result>>
  BY <1>7, TableUnchanged DEF H!vars
<1>8. QED
  BY <1>1, <1>2, <1>3, <1>4, <1>5, <1>6, <1>7 DEF H!Next, H!DictionaryStep, H!D!Next

LEMMA TableInit ==
  ASSUME H!Init
  PROVE  TableInv /\ H!D!Init
<1>1. slot = [i \in Index |-> H!Empty] /\ home \in [HashKeys -> Index] /\ hlen = 0
  BY DEF H!Init, Index
<1>2. TableType
  BY <1>1 DEF TableType, Entries
<1>3. H!InUse = {}
  BY <1>1, <1>2, InUseIs DEF H!Empty
<1>4. Keys = {}
  BY <1>3 DEF Keys
<1>5. TableInv
  BY <1>1, <1>2, <1>3, <1>4, FS_EmptySet DEF TableInv, KeysApart, KeysReached
<1>6. H!Contents = [k \in {} |-> 0]
  BY <1>4 DEF H!Contents, Keys
<1>7. QED
  BY <1>5, <1>6 DEF H!Init, H!D!Init

\* The hash map is a map of at most half as many keys as there are slots, for
\* every number of slots, all keys and values, and every hash function.
THEOREM TableIsDictionary == Spec => ImplementsDictionary
<1> DEFINE I == which = "table" => TableInv
<1>1. Init => I /\ H!D!Init
  BY TableInit DEF Init
<1>2. I /\ [Next]_all => I' /\ [which = "table" => H!DictionaryStep]_table
  <2> SUFFICES ASSUME I, [Next]_all
               PROVE  I' /\ (which = "table" => H!DictionaryStep)
    OBVIOUS
  <2>1. CASE which = "table"
    <3>1. TableInv /\ [H!Next]_table
      BY <2>1, OneAtATime
    <3>2. [H!Next]_(H!vars)
      BY <3>1 DEF table, H!vars
    <3>3. QED
      BY <3>1, <3>2, TableStep
  <2>2. CASE which # "table"
    BY <2>2, OneAtATime
  <2>3. QED
    BY <2>1, <2>2
<1>3. QED
  BY <1>1, <1>2, PTL DEF Spec, all, ImplementsDictionary

HIDE HashConstants DEF H!HashAssumption

=============================================================================
