------------------------- MODULE ChaseLevDequeProofs -------------------------
(***************************************************************************)
(* The work-stealing deque keeps every item, and hands out each one once,  *)
(* when one thread pushes and pops and any number of threads steal: for    *)
(* every capacity, in sequentially consistent memory.                      *)
(***************************************************************************)
EXTENDS ChaseLevDeque, SequenceTheorems, TLAPS

USE EnvAssumption, CapacityAssumption, BoundAssumption

\* The rule of the algorithm: one thread o pushes, nobody else pops, and a
\* store is seen by every later load.
OneOwner(e) ==
  /\ e.depth = 0
  /\ \E o : e.pushers = {o} /\ e.poppers \subseteq {o}

Pushing(o) == pc[o] \in {"pushWrite", "pushStore"}

\* The end of the sequence: pop_bottom lowers bottom before it has the item.
EndOf(o) == IF InPop(o) THEN b[o] + 1 ELSE mem[BottomLoc]

DTypeOK(o) ==
  /\ env.depth = 0 /\ env.pushers = {o} /\ env.poppers \subseteq {o}
  /\ mem \in [Locations -> Int]
  /\ buf = [w \in Threads |-> <<>>]
  /\ top \in Nat
  /\ pc \in [Threads -> {"idle", "pushWrite", "pushStore", "popStore", "popTop",
       "popEmpty", "popRead", "popTake", "popCas", "popReset",
       "stealBottom", "stealRead", "stealCas"}]
  /\ b \in [Threads -> Int] /\ t \in [Threads -> Int] /\ v \in [Threads -> Int]
  /\ pushed \in 0..MaxItems
  /\ taken \in Seq(Items)
  /\ \A w \in Threads :
       w # o => pc[w] \in {"idle", "stealBottom", "stealRead", "stealCas"}
  /\ InPop(o) \/ pc[o] = "popStore" => o \in env.poppers

\* What the owner knows of bottom, top and its cell at each line.
OwnerInv(o) ==
  /\ top <= EndOf(o) /\ EndOf(o) - top <= Capacity
  /\ Pushing(o) => b[o] = mem[BottomLoc] /\ b[o] - top < Capacity /\ v[o] = pushed
  /\ pc[o] = "pushStore" => mem[CellOf(b[o])] = v[o]
  /\ pc[o] = "popStore" => b[o] = mem[BottomLoc] - 1
  /\ InPop(o) => mem[BottomLoc] = b[o]
  /\ pc[o] = "popEmpty" => t[o] = b[o] + 1 /\ top = t[o]
  /\ pc[o] \in {"popRead", "popTake", "popCas", "popReset"} => t[o] <= b[o] /\ t[o] <= top
  /\ pc[o] \in {"popRead", "popTake"} /\ t[o] < b[o] => top <= b[o]
  /\ pc[o] = "popTake" => t[o] < b[o]
  /\ pc[o] \in {"popTake", "popCas"} => v[o] = mem[CellOf(b[o])]
  /\ pc[o] \in {"popCas", "popReset"} => t[o] = b[o]
  /\ pc[o] = "popReset" => top = t[o] + 1

\* The last item is raced for: the owner lowered bottom to top and knows it.
Racing(o) ==
  /\ pc[o] \in {"popTop", "popRead", "popCas"} /\ b[o] = top
  /\ pc[o] # "popTop" => t[o] = top

\* A thief whose top is not stale is after an item that nobody takes without
\* a compare-and-swap, and holds that item once it has read it.
ThiefInv(o, w) ==
  /\ pc[w] \in {"stealBottom", "stealRead", "stealCas"} => t[w] <= top
  /\ pc[w] \in {"stealRead", "stealCas"} /\ t[w] = top =>
       top < mem[BottomLoc] \/ Racing(o)
  /\ pc[w] = "stealCas" /\ t[w] = top => v[w] = mem[CellOf(top)]

\* The items pushed are those taken, those in the sequence and the one that
\* the owner is about to add, each in one place.
ItemsInv(o) ==
  /\ \A i \in top..EndOf(o)-1 :
       /\ mem[CellOf(i)] \in 1..pushed /\ mem[CellOf(i)] \notin TakenSet
       /\ Pushing(o) => mem[CellOf(i)] # pushed
  /\ \A i, j \in top..EndOf(o)-1 : mem[CellOf(i)] = mem[CellOf(j)] => i = j
  /\ \A x \in 1..pushed :
       \/ x \in TakenSet
       \/ Pushing(o) /\ x = pushed
       \/ \E i \in top..EndOf(o)-1 : mem[CellOf(i)] = x
  /\ TakenSet \subseteq 1..pushed
  /\ Pushing(o) => pushed >= 1 /\ pushed \notin TakenSet
  /\ \A i, j \in DOMAIN taken : taken[i] = taken[j] => i = j

DequeInv(o) ==
  DTypeOK(o) /\ OwnerInv(o) /\ (\A w \in Threads : ThiefInv(o, w)) /\ ItemsInv(o)

IInv == \E o \in env.pushers : DequeInv(o)

-----------------------------------------------------------------------------
(* Cells and memory *)

LEMMA CellDivMod ==
  ASSUME NEW i \in Int
  PROVE  /\ i = Capacity * (i \div Capacity) + CellOf(i)
         /\ i \div Capacity \in Int /\ CellOf(i) \in 0..Capacity-1
BY DEF CellOf

\* Indices less than a lap apart have different cells.
LEMMA CellsDiffer ==
  ASSUME NEW i \in Int, NEW j \in Int, i < j, j < i + Capacity
  PROVE  CellOf(i) # CellOf(j)
<1> DEFINE q == i \div Capacity
           r == j \div Capacity
<1>1. /\ i = Capacity * q + CellOf(i) /\ q \in Int
      /\ j = Capacity * r + CellOf(j) /\ r \in Int
  BY CellDivMod
<1>2. CellOf(i) \in Int /\ CellOf(j) \in Int
  BY CellDivMod
<1> HIDE DEF q, r
<1>3. SUFFICES ASSUME CellOf(i) = CellOf(j) PROVE FALSE
  OBVIOUS
<1>4. j - i = Capacity * (r - q)
  BY <1>1, <1>2, <1>3
<1>5. CASE r - q >= 1
  BY <1>1, <1>4, <1>5
<1>6. CASE r - q <= 0
  BY <1>1, <1>4, <1>6
<1>7. QED
  BY <1>1, <1>5, <1>6

LEMMA CellType ==
  /\ \A i \in Int : CellOf(i) \in Locations /\ CellOf(i) # BottomLoc
  /\ BottomLoc \in Locations
BY CellDivMod DEF Locations, Cells, BottomLoc

\* Loads and stores go straight to memory.
LEMMA LoadIs ==
  ASSUME NEW o, DTypeOK(o), NEW w \in Threads, NEW loc
  PROVE  buf[w] = <<>> /\ Load(w, loc) = mem[loc]
<1>1. buf[w] = <<>>
  BY DEF DTypeOK
<1>2. DOMAIN buf[w] = {}
  BY <1>1
<1>3. QED
  BY <1>1, <1>2 DEF Load

LEMMA StoreIs ==
  ASSUME NEW o, DTypeOK(o), NEW w \in Threads, NEW loc, NEW x, Store(w, loc, x)
  PROVE  mem' = [mem EXCEPT ![loc] = x] /\ buf' = buf
BY DEF Store, DTypeOK

\* Only the owner is inside push_bottom or pop_bottom.
LEMMA Roles ==
  ASSUME NEW o, DTypeOK(o), NEW w \in Threads
  PROVE  /\ o \in Threads /\ top \in Nat /\ mem[BottomLoc] \in Int
         /\ b[o] \in Int /\ t[o] \in Int /\ v[o] \in Int /\ t[w] \in Int /\ v[w] \in Int
         /\ pc[w] \notin {"idle", "stealBottom", "stealRead", "stealCas"} => w = o
         /\ w \in env.pushers \cup env.poppers => w = o
BY CellType DEF DTypeOK, Threads

\* What a store leaves: every other location.
LEMMA StoreKeeps ==
  ASSUME NEW o, DTypeOK(o), NEW loc \in Locations, NEW x \in Int,
         mem' = [mem EXCEPT ![loc] = x]
  PROVE  /\ mem' \in [Locations -> Int] /\ mem'[loc] = x
         /\ \A l \in Locations : l # loc => mem'[l] = mem[l]
BY DEF DTypeOK

LEMMA BottomStored ==
  ASSUME NEW o, DTypeOK(o), NEW x \in Int, mem' = [mem EXCEPT ![BottomLoc] = x]
  PROVE  /\ mem' \in [Locations -> Int] /\ mem'[BottomLoc] = x
         /\ \A i \in Int : mem'[CellOf(i)] = mem[CellOf(i)]
<1>1. /\ mem' \in [Locations -> Int] /\ mem'[BottomLoc] = x
      /\ \A l \in Locations : l # BottomLoc => mem'[l] = mem[l]
  BY CellType, StoreKeeps
<1>2. QED
  BY <1>1, CellType

\* taken grows by one item at a time.
LEMMA TakenAppend ==
  ASSUME NEW x \in Items, taken \in Seq(Items), taken' = Append(taken, x)
  PROVE  /\ taken' \in Seq(Items) /\ TakenSet' = TakenSet \cup {x}
         /\ x \notin TakenSet /\ (\A i, j \in DOMAIN taken : taken[i] = taken[j] => i = j)
              => \A i, j \in DOMAIN taken' : taken'[i] = taken'[j] => i = j
<1>1. /\ taken' \in Seq(Items) /\ Len(taken) \in Nat
      /\ DOMAIN taken = 1..Len(taken) /\ DOMAIN taken' = 1..Len(taken)+1
      /\ \A i \in 1..Len(taken) : taken'[i] = taken[i]
      /\ taken'[Len(taken)+1] = x
  OBVIOUS
<1>2. TakenSet' = TakenSet \cup {x}
  BY <1>1 DEF TakenSet
<1>3. ASSUME x \notin TakenSet, \A i, j \in DOMAIN taken : taken[i] = taken[j] => i = j,
             NEW i \in DOMAIN taken', NEW j \in DOMAIN taken', taken'[i] = taken'[j]
      PROVE  i = j
  BY <1>1, <1>3 DEF TakenSet
<1>4. QED
  BY <1>1, <1>2, <1>3

\* A step that moves neither end nor a cell in between leaves the items.
LEMMA ItemsSame ==
  ASSUME NEW o, ItemsInv(o), EndOf(o)' = EndOf(o), UNCHANGED <<top, taken, pushed>>,
         Pushing(o)' <=> Pushing(o),
         \A i \in top..EndOf(o)-1 : mem'[CellOf(i)] = mem[CellOf(i)]
  PROVE  ItemsInv(o)'
BY DEF ItemsInv, TakenSet

\* What a step does to the sequence: nothing, it adds an item at the end, or
\* hands out the last or the first one.
CellsStay(o) == \A i \in top..EndOf(o)-1 : mem'[CellOf(i)] = mem[CellOf(i)]
Still(o) == EndOf(o)' = EndOf(o) /\ top' = top /\ taken' = taken /\ CellsStay(o)
Adds(o) ==
  /\ EndOf(o)' = EndOf(o) + 1 /\ top' = top /\ taken' = taken /\ CellsStay(o)
  /\ mem'[CellOf(EndOf(o))] \in Items
TakesLast(o) ==
  /\ mem' = mem /\ taken' = Append(taken, mem[CellOf(EndOf(o) - 1)])
  /\ \/ top' = top /\ EndOf(o)' = EndOf(o) - 1
     \/ top' = top + 1 /\ EndOf(o)' = EndOf(o) /\ top' = EndOf(o)
TakesFirst(o) ==
  /\ mem' = mem /\ taken' = Append(taken, mem[CellOf(top)])
  /\ top < EndOf(o) /\ top' = top + 1 /\ EndOf(o)' = EndOf(o)

-----------------------------------------------------------------------------
(* push_bottom *)

LEMMA PushLoadStep ==
  ASSUME NEW o, DequeInv(o), NEW w \in Threads, PushLoad(w), MaxInFlight <= Capacity
  PROVE  DequeInv(o)' /\ Still(o)
<1> USE DEF DequeInv
<1>1. /\ w = o /\ o \in Threads /\ mem[BottomLoc] \in Int /\ top \in Nat
      /\ Load(w, BottomLoc) = mem[BottomLoc]
  BY Roles, LoadIs DEF PushLoad
<1>2. /\ pc[o] = "idle" /\ pc' = [pc EXCEPT ![o] = "pushWrite"]
      /\ b' = [b EXCEPT ![o] = mem[BottomLoc]] /\ mem[BottomLoc] - top < MaxInFlight
      /\ v' = [v EXCEPT ![o] = pushed + 1] /\ pushed' = pushed + 1 /\ pushed < MaxItems
      /\ UNCHANGED <<env, mem, buf, top, t, taken>>
  BY <1>1 DEF PushLoad, Jump
<1>3. /\ Threads' = Threads /\ EndOf(o) = mem[BottomLoc] /\ EndOf(o)' = mem[BottomLoc]
      /\ ~Pushing(o) /\ Pushing(o)' /\ pushed \in Nat
  BY <1>1, <1>2 DEF DTypeOK, Threads, EndOf, InPop, Pushing
<1>4. DTypeOK(o)'
  BY <1>1, <1>2, <1>3 DEF DTypeOK, InPop
<1>5. OwnerInv(o)'
  BY <1>1, <1>2, <1>3 DEF DTypeOK, OwnerInv, InPop
<1>6. ASSUME NEW u \in Threads PROVE ThiefInv(o, u)'
  BY <1>1, <1>2, <1>3 DEF ThiefInv, DTypeOK, Racing
<1>7. TakenSet' = TakenSet
  BY <1>2 DEF TakenSet
<1>8. ItemsInv(o)'
  BY <1>1, <1>2, <1>3, <1>7 DEF ItemsInv
<1>9. Still(o)
  BY <1>2, <1>3 DEF Still, CellsStay
<1>10. QED
  BY <1>9, <1>3, <1>4, <1>5, <1>6, <1>8

LEMMA PushWriteStep ==
  ASSUME NEW o, DequeInv(o), NEW w \in Threads, PushWrite(w)
  PROVE  DequeInv(o)' /\ Still(o)
<1> USE DEF DequeInv
<1>1. pc[w] = "pushWrite" /\ Store(w, CellOf(b[w]), v[w])
  BY DEF PushWrite, Jump
<1>2. /\ w = o /\ o \in Threads /\ top \in Nat
      /\ mem[BottomLoc] \in Int /\ b[o] \in Int /\ v[o] \in Int
  BY <1>1, Roles
<1>3. /\ pc' = [pc EXCEPT ![o] = "pushStore"] /\ mem' = [mem EXCEPT ![CellOf(b[o])] = v[o]]
      /\ UNCHANGED <<env, buf, top, b, t, v, pushed, taken>>
  BY <1>1, <1>2, StoreIs DEF PushWrite, Jump, locals
<1>4. /\ mem' \in [Locations -> Int] /\ mem'[CellOf(b[o])] = v[o]
      /\ \A l \in Locations : l # CellOf(b[o]) => mem'[l] = mem[l]
      /\ mem'[BottomLoc] = mem[BottomLoc]
  BY <1>2, <1>3, CellType, StoreKeeps
<1>5. /\ Threads' = Threads /\ EndOf(o) = b[o] /\ EndOf(o)' = b[o] /\ mem[BottomLoc] = b[o]
      /\ Pushing(o) /\ Pushing(o)' /\ b[o] - top < Capacity
  BY <1>1, <1>2, <1>3, <1>4 DEF DTypeOK, OwnerInv, Threads, EndOf, InPop, Pushing
<1>6. \A i \in top..EndOf(o)-1 : mem'[CellOf(i)] = mem[CellOf(i)]
  <2> SUFFICES ASSUME NEW i \in top..b[o]-1 PROVE mem'[CellOf(i)] = mem[CellOf(i)]
    BY <1>5
  <2>1. CellOf(i) # CellOf(b[o])
    BY <1>2, <1>5, CellsDiffer
  <2>2. QED
    BY <1>2, <1>4, <2>1, CellType
<1>7. DTypeOK(o)'
  BY <1>1, <1>2, <1>3, <1>4, <1>5 DEF DTypeOK, InPop
<1>8. OwnerInv(o)'
  BY <1>1, <1>2, <1>3, <1>4, <1>5 DEF DTypeOK, OwnerInv, Pushing, InPop
<1>9. ASSUME NEW u \in Threads PROVE ThiefInv(o, u)'
  <2>1. ~Racing(o)
    BY <1>1, <1>2 DEF Racing
  <2>2. pc'[u] \in {"stealBottom", "stealRead", "stealCas"} => pc[u] = pc'[u]
    BY <1>2, <1>3 DEF DTypeOK
  <2>3. QED
    BY <1>2, <1>3, <1>4, <1>5, <1>6, <2>1, <2>2 DEF ThiefInv
<1>10. ItemsInv(o)'
  BY <1>3, <1>5, <1>6, ItemsSame
<1>11. Still(o)
  BY <1>3, <1>5, <1>6 DEF Still, CellsStay
<1>12. QED
  BY <1>11, <1>5, <1>7, <1>8, <1>9, <1>10

LEMMA PushStoreStep ==
  ASSUME NEW o, DequeInv(o), NEW w \in Threads, PushStore(w)
  PROVE  DequeInv(o)' /\ Adds(o)
<1> USE DEF DequeInv
<1>1. pc[w] = "pushStore" /\ Store(w, BottomLoc, b[w] + 1)
  BY DEF PushStore, Jump
<1>2. /\ w = o /\ o \in Threads /\ top \in Nat
      /\ mem[BottomLoc] \in Int /\ b[o] \in Int /\ v[o] \in Int
  BY <1>1, Roles
<1>3. /\ pc' = [pc EXCEPT ![o] = "idle"] /\ mem' = [mem EXCEPT ![BottomLoc] = b[o] + 1]
      /\ UNCHANGED <<env, buf, top, b, t, v, pushed, taken>>
  BY <1>1, <1>2, StoreIs DEF PushStore, Jump, locals
<1>4. /\ mem' \in [Locations -> Int] /\ mem'[BottomLoc] = b[o] + 1
      /\ \A i \in Int : mem'[CellOf(i)] = mem[CellOf(i)]
  <2>1. b[o] + 1 \in Int
    BY <1>2
  <2>2. QED
    BY <1>3, <2>1, BottomStored, Zenon
<1>5. /\ Threads' = Threads /\ EndOf(o) = b[o] /\ EndOf(o)' = b[o] + 1
      /\ mem[BottomLoc] = b[o] /\ b[o] - top < Capacity /\ v[o] = pushed
      /\ mem[CellOf(b[o])] = pushed /\ Pushing(o) /\ ~Pushing(o)' /\ pushed \in Nat
      /\ top <= b[o]
  BY <1>1, <1>2, <1>3, <1>4 DEF DTypeOK, OwnerInv, Threads, EndOf, InPop, Pushing
<1>6. DTypeOK(o)'
  BY <1>1, <1>2, <1>3, <1>4, <1>5 DEF DTypeOK, InPop
<1>7. OwnerInv(o)'
  BY <1>1, <1>2, <1>3, <1>4, <1>5 DEF DTypeOK, OwnerInv, InPop
<1>8. ASSUME NEW u \in Threads PROVE ThiefInv(o, u)'
  <2>1. ~Racing(o)
    BY <1>1, <1>2 DEF Racing
  <2>2. pc'[u] \in {"stealBottom", "stealRead", "stealCas"} => pc[u] = pc'[u]
    BY <1>2, <1>3 DEF DTypeOK
  <2>3. QED
    BY <1>2, <1>3, <1>4, <1>5, <2>1, <2>2 DEF ThiefInv
<1>9. TakenSet' = TakenSet
  BY <1>3 DEF TakenSet
<1>10. ItemsInv(o)'
  <2>1. \A i \in top..b[o] : i \in top..b[o]-1 \/ i = b[o]
    BY <1>2
  <2>2. \A i \in top..b[o] :
          /\ mem'[CellOf(i)] \in 1..pushed /\ mem'[CellOf(i)] \notin TakenSet
    BY <1>2, <1>4, <1>5, <2>1 DEF ItemsInv
  <2>3. \A i, j \in top..b[o] : mem'[CellOf(i)] = mem'[CellOf(j)] => i = j
    BY <1>2, <1>4, <1>5, <2>1 DEF ItemsInv
  <2>4. \A x \in 1..pushed : x \in TakenSet \/ \E i \in top..b[o] : mem'[CellOf(i)] = x
    <3> SUFFICES ASSUME NEW x \in 1..pushed, x \notin TakenSet
                 PROVE  \E i \in top..b[o] : mem'[CellOf(i)] = x
      OBVIOUS
    <3>1. CASE x = pushed
      BY <1>2, <1>4, <1>5, <3>1
    <3>2. CASE \E i \in top..b[o]-1 : mem[CellOf(i)] = x
      BY <1>2, <1>4, <3>2
    <3>3. QED
      BY <1>5, <3>1, <3>2 DEF ItemsInv
  <2>5. QED
    BY <1>2, <1>3, <1>5, <1>9, <2>2, <2>3, <2>4 DEF ItemsInv
<1>11. Adds(o)
  BY <1>2, <1>3, <1>4, <1>5 DEF Adds, CellsStay, DTypeOK, ItemsInv, Items
<1>12. QED
  BY <1>11, <1>5, <1>6, <1>7, <1>8, <1>10

-----------------------------------------------------------------------------
(* pop_bottom *)

LEMMA PopLoadStep ==
  ASSUME NEW o, DequeInv(o), NEW w \in Threads, PopLoad(w)
  PROVE  DequeInv(o)' /\ Still(o)
<1> USE DEF DequeInv
<1>1. /\ w = o /\ o \in Threads /\ mem[BottomLoc] \in Int /\ top \in Nat
      /\ o \in env.poppers /\ Load(w, BottomLoc) = mem[BottomLoc]
  BY Roles, LoadIs DEF PopLoad
<1>2. /\ pc[o] = "idle" /\ pc' = [pc EXCEPT ![o] = "popStore"]
      /\ b' = [b EXCEPT ![o] = mem[BottomLoc] - 1]
      /\ UNCHANGED <<env, mem, buf, top, t, v, pushed, taken>>
  BY <1>1 DEF PopLoad, Jump
<1>3. /\ Threads' = Threads /\ EndOf(o) = mem[BottomLoc] /\ EndOf(o)' = mem[BottomLoc]
      /\ ~Pushing(o) /\ ~Pushing(o)'
  BY <1>1, <1>2 DEF DTypeOK, Threads, EndOf, InPop, Pushing
<1>4. DTypeOK(o)'
  BY <1>1, <1>2, <1>3 DEF DTypeOK, InPop
<1>5. OwnerInv(o)'
  BY <1>1, <1>2, <1>3 DEF DTypeOK, OwnerInv, InPop
<1>6. ASSUME NEW u \in Threads PROVE ThiefInv(o, u)'
  BY <1>1, <1>2, <1>3 DEF ThiefInv, DTypeOK, Racing
<1>7. ItemsInv(o)'
  BY <1>2, <1>3, ItemsSame
<1>8. Still(o)
  BY <1>2, <1>3 DEF Still, CellsStay
<1>9. QED
  BY <1>8, <1>3, <1>4, <1>5, <1>6, <1>7

LEMMA PopStoreStep ==
  ASSUME NEW o, DequeInv(o), NEW w \in Threads, PopStore(w)
  PROVE  DequeInv(o)' /\ Still(o)
<1> USE DEF DequeInv
<1>1. pc[w] = "popStore" /\ Store(w, BottomLoc, b[w])
  BY DEF PopStore, Jump
<1>2. /\ w = o /\ o \in Threads /\ top \in Nat
      /\ mem[BottomLoc] \in Int /\ b[o] \in Int /\ t[o] \in Int
  BY <1>1, Roles
<1>3. /\ pc' = [pc EXCEPT ![o] = "popTop"] /\ mem' = [mem EXCEPT ![BottomLoc] = b[o]]
      /\ UNCHANGED <<env, buf, top, b, t, v, pushed, taken>>
  BY <1>1, <1>2, StoreIs DEF PopStore, Jump, locals
<1>4. /\ mem' \in [Locations -> Int] /\ mem'[BottomLoc] = b[o]
      /\ \A i \in Int : mem'[CellOf(i)] = mem[CellOf(i)]
  BY <1>2, <1>3, BottomStored
<1>5. /\ Threads' = Threads /\ b[o] = mem[BottomLoc] - 1
      /\ EndOf(o) = b[o] + 1 /\ EndOf(o)' = b[o] + 1 /\ ~Pushing(o) /\ ~Pushing(o)'
  <2>1. b[o] = mem[BottomLoc] - 1
    BY <1>1, <1>2 DEF OwnerInv
  <2>2. pc'[o] = "popTop" /\ b'[o] = b[o] /\ Threads' = Threads
    BY <1>2, <1>3 DEF DTypeOK, Threads
  <2>3. ~InPop(o) /\ InPop(o)' /\ ~Pushing(o) /\ ~Pushing(o)'
    BY <1>1, <1>2, <2>2 DEF InPop, Pushing
  <2>4. QED
    BY <1>2, <2>1, <2>2, <2>3 DEF EndOf
<1>6. DTypeOK(o)'
  BY <1>1, <1>2, <1>3, <1>4, <1>5 DEF DTypeOK, InPop
<1>7. OwnerInv(o)'
  BY <1>1, <1>2, <1>3, <1>4, <1>5 DEF DTypeOK, OwnerInv, InPop
<1>8. ASSUME NEW u \in Threads PROVE ThiefInv(o, u)'
  <2>1. pc'[u] \in {"stealBottom", "stealRead", "stealCas"} => pc[u] = pc'[u]
    BY <1>2, <1>3 DEF DTypeOK
  <2>2. top < mem[BottomLoc] => top < mem'[BottomLoc] \/ Racing(o)'
    BY <1>2, <1>3, <1>4, <1>5 DEF Racing, DTypeOK
  <2>3. ~Racing(o)
    BY <1>1, <1>2 DEF Racing
  <2>4. QED
    BY <1>2, <1>3, <1>4, <2>1, <2>2, <2>3 DEF ThiefInv
<1>9. ItemsInv(o)'
  BY <1>2, <1>3, <1>4, <1>5, ItemsSame
<1>10. Still(o)
  BY <1>2, <1>3, <1>4, <1>5 DEF Still, CellsStay
<1>11. QED
  BY <1>10, <1>5, <1>6, <1>7, <1>8, <1>9

\* Steps of the owner inside pop_bottom that change its locals only.
LEMMA PopLocalStep ==
  ASSUME NEW o, DequeInv(o), NEW w \in Threads, PopTop(w) \/ PopRead(w)
  PROVE  DequeInv(o)' /\ Still(o)
<1> USE DEF DequeInv
<1>1. /\ pc[w] \in {"popTop", "popRead"} /\ Load(w, CellOf(b[w])) = mem[CellOf(b[w])]
  BY LoadIs DEF PopTop, PopRead, Jump
<1>2. /\ w = o /\ o \in Threads /\ top \in Nat
      /\ mem[BottomLoc] \in Int /\ b[o] \in Int /\ t[o] \in Int
  BY <1>1, Roles
<1>3. UNCHANGED <<env, mem, buf, top, b, pushed, taken>>
  BY DEF PopTop, PopRead
<1>4. \/ /\ pc[o] = "popTop"
         /\ pc' = [pc EXCEPT ![o] = IF b[o] < top THEN "popEmpty" ELSE "popRead"]
         /\ t' = [t EXCEPT ![o] = top] /\ v' = v
      \/ /\ pc[o] = "popRead"
         /\ pc' = [pc EXCEPT ![o] = IF b[o] > t[o] THEN "popTake" ELSE "popCas"]
         /\ v' = [v EXCEPT ![o] = mem[CellOf(b[o])]] /\ t' = t
  BY <1>1, <1>2 DEF PopTop, PopRead, Jump
<1>5. /\ pc'[o] \in {"popEmpty", "popRead", "popTake", "popCas"}
      /\ \A u \in Threads : u # o => pc'[u] = pc[u] /\ t'[u] = t[u] /\ v'[u] = v[u]
      /\ pc' \in [Threads -> {"idle", "pushWrite", "pushStore", "popStore", "popTop",
           "popEmpty", "popRead", "popTake", "popCas", "popReset",
           "stealBottom", "stealRead", "stealCas"}]
      /\ t' \in [Threads -> Int] /\ v' \in [Threads -> Int]
  <2>1. mem[CellOf(b[o])] \in Int
    BY <1>2, CellType DEF DTypeOK
  <2>2. t' \in [Threads -> Int] /\ v' \in [Threads -> Int]
    BY <1>2, <1>4, <2>1 DEF DTypeOK
  <2>3. \A u \in Threads : u # o => pc'[u] = pc[u] /\ t'[u] = t[u] /\ v'[u] = v[u]
    BY <1>2, <1>4 DEF DTypeOK
  <2>4. \E p \in {"popEmpty", "popRead", "popTake", "popCas"} : pc' = [pc EXCEPT ![o] = p]
    BY <1>4
  <2>5. QED
    BY <1>2, <2>2, <2>3, <2>4 DEF DTypeOK
<1>6. /\ Threads' = Threads /\ EndOf(o) = b[o] + 1 /\ EndOf(o)' = b[o] + 1
      /\ ~Pushing(o) /\ ~Pushing(o)' /\ mem[BottomLoc] = b[o] /\ top <= b[o] + 1
  BY <1>1, <1>2, <1>3, <1>5 DEF OwnerInv, Threads, EndOf, InPop, Pushing
<1>7. DTypeOK(o)'
  BY <1>1, <1>2, <1>3, <1>5, <1>6 DEF DTypeOK, InPop
<1>8. OwnerInv(o)'
  BY <1>2, <1>3, <1>4, <1>5, <1>6 DEF DTypeOK, OwnerInv, InPop
<1>9. ASSUME NEW u \in Threads PROVE ThiefInv(o, u)'
  <2>1. u # o => pc'[u] = pc[u] /\ t'[u] = t[u] /\ v'[u] = v[u] /\ t[u] \in Int
    BY <1>5, Roles
  <2>2. CASE pc[o] = "popTop"
    <3>1. Racing(o) => Racing(o)'
      BY <1>2, <1>3, <1>4, <2>2 DEF Racing, DTypeOK
    <3>2. QED
      BY <1>2, <1>3, <1>5, <2>1, <3>1 DEF ThiefInv
  <2>3. CASE pc[o] = "popRead"
    <3>1. Racing(o) => Racing(o)'
      BY <1>2, <1>3, <1>4, <2>3 DEF Racing, DTypeOK
    <3>2. QED
      BY <1>2, <1>3, <1>5, <2>1, <3>1 DEF ThiefInv
  <2>4. QED
    BY <1>4, <2>2, <2>3
<1>10. ItemsInv(o)'
  BY <1>3, <1>6, ItemsSame
<1>11. Still(o)
  BY <1>3, <1>6 DEF Still, CellsStay
<1>12. QED
  BY <1>11, <1>6, <1>7, <1>8, <1>9, <1>10

\* pop_bottom puts bottom back: it was empty, or the last item is decided.
LEMMA PopResetStep ==
  ASSUME NEW o, DequeInv(o), NEW w \in Threads, PopEmpty(w) \/ PopReset(w)
  PROVE  DequeInv(o)' /\ Still(o)
<1> USE DEF DequeInv
<1>1. pc[w] \in {"popEmpty", "popReset"}
  BY DEF PopEmpty, PopReset, Jump
<1>2. /\ w = o /\ o \in Threads /\ top \in Nat
      /\ mem[BottomLoc] \in Int /\ b[o] \in Int /\ t[o] \in Int
  BY <1>1, Roles
<1>3. b[o] + 1 = top /\ mem[BottomLoc] = b[o]
  BY <1>1, <1>2 DEF OwnerInv, InPop
<1>4. Store(w, BottomLoc, b[o] + 1)
  BY <1>2 DEF PopEmpty, PopReset, OwnerInv, Jump
<1>5. /\ pc' = [pc EXCEPT ![o] = "idle"] /\ mem' = [mem EXCEPT ![BottomLoc] = b[o] + 1]
      /\ UNCHANGED <<env, buf, top, b, t, v, pushed, taken>>
  BY <1>2, <1>4, StoreIs DEF PopEmpty, PopReset, Jump, locals
<1>6. /\ mem' \in [Locations -> Int] /\ mem'[BottomLoc] = b[o] + 1
      /\ \A i \in Int : mem'[CellOf(i)] = mem[CellOf(i)]
  <2>1. b[o] + 1 \in Int
    BY <1>2
  <2>2. QED
    BY <1>5, <2>1, BottomStored, Zenon
<1>7. /\ Threads' = Threads /\ EndOf(o) = b[o] + 1 /\ EndOf(o)' = b[o] + 1
      /\ ~Pushing(o) /\ ~Pushing(o)'
  BY <1>1, <1>2, <1>5, <1>6 DEF DTypeOK, Threads, EndOf, InPop, Pushing
<1>8. DTypeOK(o)'
  BY <1>1, <1>2, <1>5, <1>6, <1>7 DEF DTypeOK, InPop
<1>9. OwnerInv(o)'
  BY <1>1, <1>2, <1>3, <1>5, <1>6, <1>7 DEF DTypeOK, OwnerInv, InPop
<1>10. ASSUME NEW u \in Threads PROVE ThiefInv(o, u)'
  <2>1. pc'[u] \in {"stealBottom", "stealRead", "stealCas"} => pc[u] = pc'[u]
    BY <1>2, <1>5 DEF DTypeOK
  <2>2. ~Racing(o) /\ ~(top < mem[BottomLoc])
    BY <1>1, <1>2, <1>3 DEF Racing
  <2>3. QED
    BY <1>2, <1>5, <1>6, <2>1, <2>2 DEF ThiefInv
<1>11. ItemsInv(o)'
  BY <1>2, <1>5, <1>6, <1>7, ItemsSame
<1>12. Still(o)
  BY <1>2, <1>5, <1>6, <1>7 DEF Still, CellsStay
<1>13. QED
  BY <1>12, <1>7, <1>8, <1>9, <1>10, <1>11

LEMMA PopTakeStep ==
  ASSUME NEW o, DequeInv(o), NEW w \in Threads, PopTake(w)
  PROVE  DequeInv(o)' /\ TakesLast(o)
<1> USE DEF DequeInv
<1>1. pc[w] = "popTake"
  BY DEF PopTake, Jump
<1>2. /\ w = o /\ o \in Threads /\ top \in Nat
      /\ mem[BottomLoc] \in Int /\ b[o] \in Int /\ t[o] \in Int
  BY <1>1, Roles
<1>3. /\ pc' = [pc EXCEPT ![o] = "idle"] /\ taken' = Append(taken, v[o])
      /\ UNCHANGED <<env, mem, buf, top, b, t, v, pushed>>
  BY <1>2 DEF PopTake, Jump, Take, locals
<1>4. /\ mem[BottomLoc] = b[o] /\ top <= b[o] /\ v[o] = mem[CellOf(b[o])]
      /\ Threads' = Threads /\ EndOf(o) = b[o] + 1 /\ EndOf(o)' = b[o]
      /\ ~Pushing(o) /\ ~Pushing(o)'
  BY <1>1, <1>2, <1>3 DEF DTypeOK, OwnerInv, Threads, EndOf, InPop, Pushing
<1>5. /\ v[o] \in Items /\ v[o] \in 1..pushed /\ v[o] \notin TakenSet
      /\ \A i \in top..b[o]-1 : mem[CellOf(i)] # v[o]
  BY <1>2, <1>4 DEF ItemsInv, DTypeOK, Items
<1>6. /\ taken' \in Seq(Items) /\ TakenSet' = TakenSet \cup {v[o]}
      /\ \A i, j \in DOMAIN taken' : taken'[i] = taken'[j] => i = j
  BY <1>3, <1>5, TakenAppend DEF DTypeOK, ItemsInv
<1>7. DTypeOK(o)'
  BY <1>1, <1>2, <1>3, <1>4, <1>6 DEF DTypeOK, InPop
<1>8. OwnerInv(o)'
  BY <1>1, <1>2, <1>3, <1>4 DEF DTypeOK, OwnerInv, InPop
<1>9. ASSUME NEW u \in Threads PROVE ThiefInv(o, u)'
  <2>1. pc'[u] \in {"stealBottom", "stealRead", "stealCas"} => pc[u] = pc'[u]
    BY <1>2, <1>3 DEF DTypeOK
  <2>2. ~Racing(o)
    BY <1>1, <1>2 DEF Racing
  <2>3. QED
    BY <1>2, <1>3, <2>1, <2>2 DEF ThiefInv
<1>10. ItemsInv(o)'
  <2>1. \A i \in top..b[o]-1 :
          mem[CellOf(i)] \in 1..pushed /\ mem[CellOf(i)] \notin TakenSet'
    BY <1>2, <1>4, <1>5, <1>6 DEF ItemsInv
  <2>2. \A x \in 1..pushed : x \in TakenSet' \/ \E i \in top..b[o]-1 : mem[CellOf(i)] = x
    BY <1>2, <1>4, <1>6 DEF ItemsInv
  <2>3. \A i, j \in top..b[o]-1 : mem[CellOf(i)] = mem[CellOf(j)] => i = j
    BY <1>2, <1>4 DEF ItemsInv
  <2>4. TakenSet' \subseteq 1..pushed
    BY <1>5, <1>6 DEF ItemsInv
  <2>5. QED
    BY <1>3, <1>4, <1>6, <2>1, <2>2, <2>3, <2>4 DEF ItemsInv
<1>11. TakesLast(o)
  BY <1>2, <1>3, <1>4 DEF TakesLast
<1>12. QED
  BY <1>11, <1>4, <1>7, <1>8, <1>9, <1>10

LEMMA PopCasStep ==
  ASSUME NEW o, DequeInv(o), NEW w \in Threads, PopCas(w)
  PROVE  DequeInv(o)' /\ (Still(o) \/ TakesLast(o))
<1> USE DEF DequeInv
<1>1. pc[w] = "popCas"
  BY DEF PopCas, Jump
<1>2. /\ w = o /\ o \in Threads /\ top \in Nat
      /\ mem[BottomLoc] \in Int /\ b[o] \in Int /\ t[o] \in Int
  BY <1>1, Roles
<1>3. /\ pc' = [pc EXCEPT ![o] = "popReset"]
      /\ \/ top = t[o] /\ top' = t[o] + 1 /\ taken' = Append(taken, v[o])
         \/ top # t[o] /\ top' = top /\ taken' = taken
      /\ UNCHANGED <<env, mem, buf, b, t, v, pushed>>
  BY <1>2 DEF PopCas, Jump, Take, Cas, CasFails, locals
<1>4. /\ mem[BottomLoc] = b[o] /\ t[o] = b[o] /\ v[o] = mem[CellOf(b[o])]
      /\ top' = b[o] + 1 /\ top <= top'
      /\ Threads' = Threads /\ EndOf(o) = b[o] + 1 /\ EndOf(o)' = b[o] + 1
      /\ ~Pushing(o) /\ ~Pushing(o)'
  BY <1>1, <1>2, <1>3 DEF DTypeOK, OwnerInv, Threads, EndOf, InPop, Pushing
<1>5. CASE taken' = taken /\ top' = top
  <2>1. DTypeOK(o)'
    BY <1>1, <1>2, <1>3, <1>4, <1>5 DEF DTypeOK, InPop
  <2>2. OwnerInv(o)'
    BY <1>1, <1>2, <1>3, <1>4, <1>5 DEF DTypeOK, OwnerInv, InPop
  <2>3. ASSUME NEW u \in Threads PROVE ThiefInv(o, u)'
    <3>1. pc'[u] \in {"stealBottom", "stealRead", "stealCas"} => pc[u] = pc'[u]
      BY <1>2, <1>3 DEF DTypeOK
    <3>2. ~Racing(o)
      BY <1>2, <1>4, <1>5 DEF Racing
    <3>3. QED
      BY <1>2, <1>3, <1>5, <3>1, <3>2 DEF ThiefInv
  <2>4. ItemsInv(o)'
    BY <1>3, <1>4, <1>5, ItemsSame
  <2>5. Still(o)
    BY <1>3, <1>4, <1>5 DEF Still, CellsStay
  <2>6. QED
    BY <1>4, <2>1, <2>2, <2>3, <2>4, <2>5
<1>6. CASE top = b[o] /\ taken' = Append(taken, v[o])
  <2>1. /\ v[o] \in Items /\ v[o] \in 1..pushed /\ v[o] \notin TakenSet
    <3>1. b[o] \in top..EndOf(o)-1
      BY <1>2, <1>4, <1>6
    <3>2. v[o] \in 1..pushed /\ v[o] \notin TakenSet
      BY <1>4, <3>1 DEF ItemsInv
    <3>3. pushed \in 0..MaxItems
      BY DEF DTypeOK
    <3>4. QED
      BY <3>2, <3>3 DEF Items
  <2>2. /\ taken' \in Seq(Items) /\ TakenSet' = TakenSet \cup {v[o]}
        /\ \A i, j \in DOMAIN taken' : taken'[i] = taken'[j] => i = j
    BY <1>6, <2>1, TakenAppend DEF DTypeOK, ItemsInv
  <2>3. DTypeOK(o)'
    BY <1>1, <1>2, <1>3, <1>4, <2>2 DEF DTypeOK, InPop
  <2>4. OwnerInv(o)'
    BY <1>1, <1>2, <1>3, <1>4 DEF DTypeOK, OwnerInv, InPop
  <2>5. ASSUME NEW u \in Threads PROVE ThiefInv(o, u)'
    <3>1. pc'[u] \in {"stealBottom", "stealRead", "stealCas"} => pc[u] = pc'[u]
      BY <1>2, <1>3 DEF DTypeOK
    <3>2. t[u] \in Int
      BY Roles
    <3>3. QED
      BY <1>2, <1>3, <1>4, <1>6, <3>1, <3>2 DEF ThiefInv
  <2>6. ItemsInv(o)'
    <3>1. \A x \in 1..pushed : x \in TakenSet'
      BY <1>2, <1>4, <1>6, <2>2 DEF ItemsInv
    <3>2. TakenSet' \subseteq 1..pushed
      BY <2>1, <2>2 DEF ItemsInv
    <3>3. top'..EndOf(o)'-1 = {}
      BY <1>2, <1>4
    <3>4. QED
      BY <1>3, <1>4, <2>2, <3>1, <3>2, <3>3 DEF ItemsInv
  <2>7. TakesLast(o)
    BY <1>2, <1>3, <1>4, <1>6 DEF TakesLast
  <2>8. QED
    BY <1>4, <2>3, <2>4, <2>5, <2>6, <2>7
<1>7. QED
  BY <1>2, <1>3, <1>4, <1>5, <1>6

-----------------------------------------------------------------------------
(* steal *)

\* Steps of steal that change nothing the others see.
LEMMA StealLocalStep ==
  ASSUME NEW o, DequeInv(o), NEW w \in Threads,
         StealTop(w) \/ StealBottom(w) \/ StealRead(w)
  PROVE  DequeInv(o)' /\ Still(o)
<1> USE DEF DequeInv
<1>1. /\ o \in Threads /\ top \in Nat /\ mem[BottomLoc] \in Int /\ t[w] \in Int
      /\ Load(w, BottomLoc) = mem[BottomLoc]
      /\ Load(w, CellOf(t[w])) = mem[CellOf(t[w])] /\ mem[CellOf(t[w])] \in Int
  BY Roles, LoadIs, CellType DEF DTypeOK
<1>2. UNCHANGED <<env, mem, buf, top, b, pushed, taken>>
  BY DEF StealTop, StealBottom, StealRead, locals
<1>3. \/ /\ pc[w] = "idle" /\ pc' = [pc EXCEPT ![w] = "stealBottom"]
         /\ t' = [t EXCEPT ![w] = top] /\ v' = v
      \/ /\ pc[w] = "stealBottom" /\ mem[BottomLoc] <= t[w]
         /\ pc' = [pc EXCEPT ![w] = "idle"] /\ t' = t /\ v' = v
      \/ /\ pc[w] = "stealBottom" /\ ~(mem[BottomLoc] <= t[w])
         /\ pc' = [pc EXCEPT ![w] = "stealRead"] /\ t' = t /\ v' = v
      \/ /\ pc[w] = "stealRead" /\ pc' = [pc EXCEPT ![w] = "stealCas"]
         /\ v' = [v EXCEPT ![w] = mem[CellOf(t[w])]] /\ t' = t
  BY <1>1 DEF StealTop, StealBottom, StealRead, Jump, locals
<1>4. t' \in [Threads -> Int] /\ v' \in [Threads -> Int]
  BY <1>1, <1>3 DEF DTypeOK
<1>5. \E p \in {"idle", "stealBottom", "stealRead", "stealCas"} : pc' = [pc EXCEPT ![w] = p]
  BY <1>3
<1>6. \A u \in Threads : u # w => pc'[u] = pc[u] /\ t'[u] = t[u] /\ v'[u] = v[u]
  BY <1>1, <1>3 DEF DTypeOK
<1>7. /\ pc[w] \in {"idle", "stealBottom", "stealRead"}
      /\ pc'[w] \in {"idle", "stealBottom", "stealRead", "stealCas"}
  BY <1>3, <1>5 DEF DTypeOK
<1>8. DTypeOK(o)'
  <2>1. Threads' = Threads
    BY <1>2 DEF Threads
  <2>2. \A u \in Threads : u # o => pc'[u] \in {"idle", "stealBottom", "stealRead", "stealCas"}
    BY <1>6, <1>7 DEF DTypeOK
  <2>3. InPop(o)' \/ pc'[o] = "popStore" => o \in env.poppers
    BY <1>1, <1>6, <1>7 DEF DTypeOK, InPop
  <2>4. QED
    BY <1>2, <1>4, <1>5, <2>1, <2>2, <2>3 DEF DTypeOK
<1>9. \/ pc'[o] = pc[o] /\ t'[o] = t[o] /\ v'[o] = v[o]
      \/ pc[o] \in {"idle", "stealBottom", "stealRead"}
         /\ pc'[o] \in {"idle", "stealBottom", "stealRead", "stealCas"}
  BY <1>1, <1>6, <1>7
<1>10. /\ EndOf(o)' = EndOf(o) /\ (Pushing(o)' <=> Pushing(o)) /\ (InPop(o)' <=> InPop(o))
       /\ Racing(o)' <=> Racing(o)
  BY <1>2, <1>9 DEF EndOf, InPop, Pushing, Racing
<1>11. OwnerInv(o)'
  <2>1. CASE pc'[o] = pc[o] /\ t'[o] = t[o] /\ v'[o] = v[o]
    BY <1>2, <1>10, <2>1 DEF OwnerInv
  <2>2. CASE /\ pc[o] \in {"idle", "stealBottom", "stealRead"}
             /\ pc'[o] \in {"idle", "stealBottom", "stealRead", "stealCas"}
    <3>1. ~Pushing(o)' /\ ~InPop(o)'
      BY <2>2 DEF Pushing, InPop
    <3>2. QED
      BY <1>2, <1>10, <2>2, <3>1 DEF OwnerInv
  <2>3. QED
    BY <1>9, <2>1, <2>2
<1>12. ASSUME NEW u \in Threads PROVE ThiefInv(o, u)'
  <2>1. CASE u # w
    BY <1>2, <1>6, <1>10, <2>1 DEF ThiefInv
  <2>2. CASE u = w
    BY <1>1, <1>2, <1>3, <1>10, <2>2 DEF ThiefInv, DTypeOK
  <2>3. QED
    BY <2>1, <2>2
<1>13. ItemsInv(o)'
  BY <1>2, <1>10, ItemsSame
<1>14. Still(o)
  BY <1>2, <1>10 DEF Still, CellsStay
<1>15. QED
  BY <1>14, <1>2, <1>8, <1>11, <1>12, <1>13 DEF Threads

LEMMA StealCasStep ==
  ASSUME NEW o, DequeInv(o), NEW w \in Threads, StealCas(w)
  PROVE  DequeInv(o)' /\ (Still(o) \/ TakesFirst(o))
<1> USE DEF DequeInv
<1>1. pc[w] = "stealCas"
  BY DEF StealCas, Jump
<1>2. /\ o \in Threads /\ top \in Nat /\ mem[BottomLoc] \in Int /\ t[w] \in Int
      /\ b[o] \in Int /\ t[o] \in Int
  BY Roles
<1>3. /\ pc' = [pc EXCEPT ![w] = "idle"]
      /\ \/ top = t[w] /\ top' = top + 1 /\ taken' = Append(taken, v[w])
         \/ top # t[w] /\ top' = top /\ taken' = taken
      /\ UNCHANGED <<env, mem, buf, b, t, v, pushed>>
  BY DEF StealCas, Jump, Take, Cas, CasFails, locals
<1>4. /\ \A u \in Threads : u # w => pc'[u] = pc[u]
      /\ pc'[w] = "idle" /\ Threads' = Threads
  BY <1>3 DEF DTypeOK, Threads
<1>5. \/ pc'[o] = pc[o]
      \/ pc[o] = "stealCas" /\ pc'[o] = "idle"
  BY <1>1, <1>2, <1>4
<1>6. EndOf(o)' = EndOf(o) /\ (Pushing(o)' <=> Pushing(o)) /\ (InPop(o)' <=> InPop(o))
  BY <1>3, <1>5 DEF EndOf, InPop, Pushing
<1>7. CASE top # t[w] /\ top' = top /\ taken' = taken
  <2>1. DTypeOK(o)'
    BY <1>2, <1>3, <1>4, <1>5, <1>6, <1>7 DEF DTypeOK, InPop
  <2>2. OwnerInv(o)'
    BY <1>3, <1>5, <1>6, <1>7 DEF OwnerInv
  <2>3. ASSUME NEW u \in Threads PROVE ThiefInv(o, u)'
    <3>1. Racing(o)' <=> Racing(o)
      BY <1>3, <1>5, <1>7 DEF Racing
    <3>2. QED
      BY <1>3, <1>4, <1>7, <3>1 DEF ThiefInv
  <2>4. ItemsInv(o)'
    BY <1>3, <1>6, <1>7, ItemsSame
  <2>5. Still(o)
    BY <1>3, <1>6, <1>7 DEF Still, CellsStay
  <2>6. QED
    BY <1>4, <2>1, <2>2, <2>3, <2>4, <2>5
<1>8. CASE top = t[w] /\ top' = top + 1 /\ taken' = Append(taken, v[w])
  <2>1. v[w] = mem[CellOf(top)] /\ (top < mem[BottomLoc] \/ Racing(o))
    BY <1>1, <1>8 DEF ThiefInv
  <2>2. EndOf(o) \in Int /\ top < EndOf(o)
    BY <1>2, <2>1 DEF Racing, EndOf, InPop, OwnerInv
  <2>3. /\ v[w] \in Items /\ v[w] \in 1..pushed /\ v[w] \notin TakenSet
        /\ Pushing(o) => v[w] # pushed
        /\ \A i \in top+1..EndOf(o)-1 : mem[CellOf(i)] # v[w]
    <3>1. top \in top..EndOf(o)-1 /\ \A i \in top+1..EndOf(o)-1 : i # top /\ i \in top..EndOf(o)-1
      BY <1>2, <2>2
    <3>2. v[w] \in 1..pushed /\ v[w] \notin TakenSet /\ (Pushing(o) => v[w] # pushed)
      BY <2>1, <3>1 DEF ItemsInv
    <3>3. \A i \in top+1..EndOf(o)-1 : mem[CellOf(i)] # v[w]
      BY <2>1, <3>1 DEF ItemsInv
    <3>4. pushed \in 0..MaxItems
      BY DEF DTypeOK
    <3>5. QED
      BY <3>2, <3>3, <3>4 DEF Items
  <2>4. /\ taken' \in Seq(Items) /\ TakenSet' = TakenSet \cup {v[w]}
        /\ \A i, j \in DOMAIN taken' : taken'[i] = taken'[j] => i = j
    BY <1>8, <2>3, TakenAppend DEF DTypeOK, ItemsInv
  <2>5. DTypeOK(o)'
    BY <1>2, <1>3, <1>4, <1>5, <1>6, <1>8, <2>4 DEF DTypeOK, InPop
  <2>6. OwnerInv(o)'
    <3>1. top' <= EndOf(o) /\ EndOf(o) - top' <= Capacity
      BY <1>2, <1>8, <2>2 DEF OwnerInv
    <3>2. CASE pc[o] \in {"idle", "stealCas", "stealBottom", "stealRead", "popStore", "popTop"}
      <4>1. /\ ~Pushing(o)'
            /\ pc'[o] \notin {"popEmpty", "popRead", "popTake", "popCas", "popReset"}
        BY <1>5, <3>2 DEF Pushing
      <4>2. QED
        BY <1>3, <1>5, <1>6, <3>1, <3>2, <4>1 DEF OwnerInv
    <3>3. CASE Pushing(o)
      BY <1>2, <1>3, <1>5, <1>6, <1>8, <3>1, <3>3 DEF OwnerInv, Pushing, InPop
    <3>4. CASE pc[o] \in {"popEmpty", "popRead", "popTake", "popCas", "popReset"}
      <4>1. pc'[o] = pc[o] /\ mem[BottomLoc] = b[o] /\ ~Pushing(o)'
        BY <1>5, <3>4 DEF OwnerInv, InPop, Pushing
      <4>2. pc[o] \notin {"popEmpty", "popReset"}
        BY <1>2, <2>1, <3>4, <4>1 DEF OwnerInv, Racing
      <4>3. pc[o] \in {"popRead", "popTake"} /\ t[o] < b[o] => top' <= b[o]
        BY <1>2, <1>8, <2>1, <4>1 DEF Racing
      <4>4. QED
        BY <1>2, <1>3, <1>6, <1>8, <3>1, <3>4, <4>1, <4>2, <4>3 DEF OwnerInv
    <3>5. QED
      BY <1>2, <3>2, <3>3, <3>4 DEF DTypeOK, Pushing
  <2>7. ASSUME NEW u \in Threads PROVE ThiefInv(o, u)'
    <3>1. t[u] \in Int
      BY Roles
    <3>2. QED
      BY <1>2, <1>3, <1>4, <1>8, <3>1 DEF ThiefInv
  <2>8. ItemsInv(o)'
    <3>1. \A i \in top'..EndOf(o)-1 : i \in top..EndOf(o)-1 /\ i \in top+1..EndOf(o)-1
      BY <1>2, <1>8, <2>2
    <3>2. \A i \in top'..EndOf(o)-1 :
            /\ mem[CellOf(i)] \in 1..pushed /\ mem[CellOf(i)] \notin TakenSet'
            /\ Pushing(o) => mem[CellOf(i)] # pushed
      BY <2>3, <2>4, <3>1 DEF ItemsInv
    <3>3. \A i, j \in top'..EndOf(o)-1 : mem[CellOf(i)] = mem[CellOf(j)] => i = j
      BY <3>1 DEF ItemsInv
    <3>4. \A x \in 1..pushed :
            \/ x \in TakenSet'
            \/ Pushing(o) /\ x = pushed
            \/ \E i \in top'..EndOf(o)-1 : mem[CellOf(i)] = x
      <4>1. \A i \in top..EndOf(o)-1 : i = top \/ i \in top'..EndOf(o)-1
        BY <1>2, <1>8, <2>2
      <4>2. QED
        BY <2>1, <2>4, <4>1 DEF ItemsInv
    <3>5. TakenSet' \subseteq 1..pushed /\ (Pushing(o) => pushed \notin TakenSet')
      BY <2>3, <2>4 DEF ItemsInv
    <3>6. QED
      BY <1>3, <1>6, <2>4, <3>2, <3>3, <3>4, <3>5 DEF ItemsInv
  <2>9. TakesFirst(o)
    BY <1>3, <1>6, <1>8, <2>1, <2>2 DEF TakesFirst
  <2>10. QED
    BY <1>4, <2>5, <2>6, <2>7, <2>8, <2>9
<1>9. QED
  BY <1>3, <1>7, <1>8

-----------------------------------------------------------------------------
(* The theorems *)

\* What the algorithm needs: its rule, and that no push overtakes the oldest
\* item by a lap, which push_bottom does not test.
DequeRule == (\A e \in Envs : OneOwner(e)) /\ MaxInFlight <= Capacity

LEMMA DequeInit == DequeRule /\ Init => IInv
<1> SUFFICES ASSUME DequeRule, Init PROVE IInv
  OBVIOUS
<1>1. PICK o : env.pushers = {o} /\ env.poppers \subseteq {o} /\ env.depth = 0
  BY DEF DequeRule, OneOwner, Init
<1>2. o \in Threads
  BY <1>1 DEF Threads
<1>3. DTypeOK(o)
  BY <1>1, <1>2, CellType DEF Init, DTypeOK, InPop
<1>4. EndOf(o) = 0 /\ top = 0 /\ pc[o] = "idle" /\ pushed = 0 /\ ~Pushing(o) /\ ~InPop(o)
  BY <1>2, CellType DEF Init, EndOf, InPop, Pushing
<1>5. OwnerInv(o)
  BY <1>4 DEF OwnerInv
<1>6. \A w \in Threads : ThiefInv(o, w)
  BY DEF Init, ThiefInv
<1>7. taken = <<>> /\ DOMAIN taken = {} /\ TakenSet = {}
  BY DEF Init, TakenSet
<1>8. ItemsInv(o)
  BY <1>4, <1>7 DEF ItemsInv
<1>9. QED
  BY <1>1, <1>3, <1>5, <1>6, <1>8 DEF IInv, DequeInv

Effect(o) == Still(o) \/ Adds(o) \/ TakesLast(o) \/ TakesFirst(o)

LEMMA DequeStep ==
  ASSUME DequeRule, NEW o, DequeInv(o), [Next]_vars
  PROVE  DequeInv(o)' /\ Effect(o)
<1> USE DEF Effect
<1>1. CASE UNCHANGED vars
  BY <1>1 DEF vars, locals, DequeInv, DTypeOK, OwnerInv, ThiefInv, ItemsInv, Threads, EndOf,
              InPop, Pushing, Racing, TakenSet, Still, CellsStay
<1>2. ASSUME NEW w \in Threads, Push(w) PROVE DequeInv(o)' /\ Effect(o)
  BY <1>2, PushLoadStep, PushWriteStep, PushStoreStep DEF Push, DequeRule
<1>3. ASSUME NEW w \in Threads, Pop(w) PROVE DequeInv(o)' /\ Effect(o)
  BY <1>3, PopLoadStep, PopStoreStep, PopLocalStep, PopResetStep, PopTakeStep, PopCasStep
     DEF Pop
<1>4. ASSUME NEW w \in Threads, Steal(w) PROVE DequeInv(o)' /\ Effect(o)
  BY <1>4, StealLocalStep, StealCasStep DEF Steal
<1>5. ASSUME NEW w \in Threads PROVE ~Drain(w)
  BY <1>5, LoadIs DEF DequeInv, Drain
<1>6. QED
  BY <1>1, <1>2, <1>3, <1>4, <1>5 DEF Next

(***************************************************************************)
(* The inductive invariant holds in every state, for every capacity, any   *)
(* number of thieves and any number of items.                              *)
(***************************************************************************)
THEOREM Inductive ==
  ASSUME DequeRule
  PROVE  Spec => []IInv
<1>1. IInv /\ [Next]_vars => IInv'
  <2> SUFFICES ASSUME IInv, [Next]_vars PROVE IInv'
    OBVIOUS
  <2>1. PICK o \in env.pushers : DequeInv(o)
    BY DEF IInv
  <2>2. DequeInv(o)'
    BY <2>1, DequeStep
  <2>3. QED
    BY <2>2 DEF IInv, DequeInv, DTypeOK
<1>2. QED
  BY <1>1, DequeInit, PTL DEF Spec

(***************************************************************************)
(* When no operation is under way, what was pushed and not handed out is   *)
(* exactly what lies between top and bottom (chase_lev_deque.rs).          *)
(***************************************************************************)
THEOREM NoItemLost ==
  ASSUME DequeRule
  PROVE  Spec => []NothingLost
<1>1. IInv => NothingLost
  <2> SUFFICES ASSUME IInv, AllIdle
               PROVE  (1..pushed) \ TakenSet = {mem[CellOf(i)] : i \in top..mem[BottomLoc]-1}
    BY DEF NothingLost
  <2>1. PICK o \in env.pushers : DequeInv(o)
    BY DEF IInv
  <2>2. pc[o] = "idle"
    BY <2>1, Roles DEF AllIdle, DequeInv, Threads
  <2>3. EndOf(o) = mem[BottomLoc] /\ ~Pushing(o)
    BY <2>2 DEF EndOf, InPop, Pushing
  <2>4. QED
    BY <2>1, <2>3 DEF DequeInv, ItemsInv
<1>2. QED
  BY <1>1, Inductive, PTL

(***************************************************************************)
(* No item is handed out twice, by pop_bottom or steal.                    *)
(***************************************************************************)
THEOREM EachItemOnce ==
  ASSUME DequeRule
  PROVE  Spec => [](\A i, j \in DOMAIN taken : taken[i] = taken[j] => i = j)
<1>1. IInv => \A i, j \in DOMAIN taken : taken[i] = taken[j] => i = j
  BY DEF IInv, DequeInv, ItemsInv
<1>2. QED
  BY <1>1, Inductive, PTL

(***************************************************************************)
(* pop_bottom answers false only when every item pushed has been taken.    *)
(***************************************************************************)
THEOREM PopFalseJustified ==
  ASSUME DequeRule
  PROVE  Spec => PopFalseMeansEmpty
<1> DEFINE PopFalseStep ==
      \A w \in env.poppers :
        \/ pc[w] = "popEmpty" /\ pc'[w] = "idle"
        \/ pc[w] = "popReset" /\ pc'[w] = "idle"
        => 1..pushed = TakenSet
<1>1. IInv /\ [Next]_vars => [PopFalseStep]_vars
  <2> SUFFICES ASSUME IInv, NEW w \in env.poppers, pc[w] \in {"popEmpty", "popReset"}
               PROVE  1..pushed = TakenSet
    OBVIOUS
  <2>1. PICK o \in env.pushers : DequeInv(o)
    BY DEF IInv
  <2>2. w = o /\ w \in Threads /\ top \in Nat /\ b[o] \in Int /\ t[o] \in Int
    BY <2>1, Roles DEF DequeInv, Threads
  <2>3. b[o] + 1 = top /\ EndOf(o) = b[o] + 1 /\ ~Pushing(o)
    BY <2>1, <2>2 DEF DequeInv, OwnerInv, EndOf, InPop, Pushing
  <2>4. top..EndOf(o)-1 = {}
    BY <2>2, <2>3
  <2>5. QED
    BY <2>1, <2>3, <2>4 DEF DequeInv, ItemsInv
<1>2. QED
  BY <1>1, Inductive, PTL DEF Spec, PopFalseMeansEmpty

-----------------------------------------------------------------------------
(* Refinement *)

\* The items of memory m at the indices lo .. hi - 1.
Between(m, lo, hi) == [i \in 1..(hi - lo) |-> m[CellOf(lo + i - 1)]]

\* The sequence of StealingDeque.
Dq == Between(mem, top, Limit)

LEMMA BetweenIs ==
  ASSUME NEW m \in [Locations -> Int], NEW lo \in Int, NEW hi \in Int, lo <= hi
  PROVE  /\ Between(m, lo, hi) \in Seq(Int) /\ Len(Between(m, lo, hi)) = hi - lo
         /\ \A i \in 1..(hi - lo) : Between(m, lo, hi)[i] = m[CellOf(lo + i - 1)]
<1>1. hi - lo \in Nat /\ \A i \in 1..(hi - lo) : lo + i - 1 \in Int
  OBVIOUS
<1>2. \A i \in 1..(hi - lo) : m[CellOf(lo + i - 1)] \in Int
  BY <1>1, CellType
<1>3. Between(m, lo, hi) \in [1..(hi - lo) -> Int]
  BY <1>2 DEF Between
<1>4. QED
  BY <1>1, <1>3 DEF Between

\* Equal items between equal ends.
LEMMA BetweenSame ==
  ASSUME NEW m \in [Locations -> Int], NEW n \in [Locations -> Int],
         NEW lo \in Int, NEW hi \in Int, lo <= hi,
         \A i \in lo..hi-1 : m[CellOf(i)] = n[CellOf(i)]
  PROVE  Between(m, lo, hi) = Between(n, lo, hi)
<1>1. \A i \in 1..(hi - lo) : lo + i - 1 \in lo..hi-1
  OBVIOUS
<1>2. QED
  BY <1>1 DEF Between

LEMMA BetweenAppend ==
  ASSUME NEW m \in [Locations -> Int], NEW lo \in Int, NEW hi \in Int, lo <= hi
  PROVE  Between(m, lo, hi + 1) = Append(Between(m, lo, hi), m[CellOf(hi)])
<1> DEFINE s == Between(m, lo, hi)
           l == Between(m, lo, hi + 1)
<1>1. /\ s \in Seq(Int) /\ Len(s) = hi - lo
      /\ \A i \in 1..(hi - lo) : s[i] = m[CellOf(lo + i - 1)]
  BY BetweenIs
<1>2. /\ l \in Seq(Int) /\ Len(l) = hi - lo + 1
      /\ \A i \in 1..(hi - lo + 1) : l[i] = m[CellOf(lo + i - 1)]
  <2>1. hi + 1 \in Int /\ lo <= hi + 1 /\ hi + 1 - lo = hi - lo + 1
    OBVIOUS
  <2>2. QED
    BY <2>1, BetweenIs, SMTT(30)
<1>3. m[CellOf(hi)] \in Int /\ lo + (hi - lo + 1) - 1 = hi /\ hi - lo \in Nat
  BY CellType
<1> HIDE DEF s, l
<1>4. /\ Append(s, m[CellOf(hi)]) \in Seq(Int) /\ Len(Append(s, m[CellOf(hi)])) = Len(l)
      /\ \A i \in 1..Len(l) : Append(s, m[CellOf(hi)])[i] = l[i]
  BY <1>1, <1>2, <1>3
<1>5. l = Append(s, m[CellOf(hi)])
  BY <1>2, <1>4, SeqEqual
<1>6. QED
  BY <1>5 DEF s, l

LEMMA BetweenHead ==
  ASSUME NEW m \in [Locations -> Int], NEW lo \in Int, NEW hi \in Int, lo < hi
  PROVE  /\ Between(m, lo, hi) # <<>>
         /\ Head(Between(m, lo, hi)) = m[CellOf(lo)]
         /\ Tail(Between(m, lo, hi)) = Between(m, lo + 1, hi)
<1> DEFINE s == Between(m, lo, hi)
           l == Between(m, lo + 1, hi)
<1>1. /\ s \in Seq(Int) /\ Len(s) = hi - lo
      /\ \A i \in 1..(hi - lo) : s[i] = m[CellOf(lo + i - 1)]
  BY BetweenIs, SMTT(30)
<1>2. /\ l \in Seq(Int) /\ Len(l) = hi - lo - 1
      /\ \A i \in 1..(hi - lo - 1) : l[i] = m[CellOf(lo + 1 + i - 1)]
  <2> DEFINE k == lo + 1
  <2>1. k \in Int /\ k <= hi /\ hi - k = hi - lo - 1
    OBVIOUS
  <2> HIDE DEF k
  <2>2. /\ Between(m, k, hi) \in Seq(Int) /\ Len(Between(m, k, hi)) = hi - k
        /\ \A i \in 1..(hi - k) : Between(m, k, hi)[i] = m[CellOf(k + i - 1)]
    BY <2>1, BetweenIs
  <2>3. QED
    BY <2>1, <2>2 DEF k
<1> HIDE DEF s, l
<1>3. s # <<>> /\ s[1] = m[CellOf(lo)] /\ Head(s) = s[1]
  <2>1. 1 \in 1..(hi - lo) /\ lo + 1 - 1 = lo
    OBVIOUS
  <2>2. QED
    BY <1>1, <2>1
<1>4. /\ Tail(s) \in Seq(Int) /\ Len(Tail(s)) = hi - lo - 1
      /\ \A i \in 1..(hi - lo - 1) : Tail(s)[i] = s[i + 1]
  BY <1>1, <1>3, HeadTailProperties
<1>5. \A i \in 1..(hi - lo - 1) : i + 1 \in 1..(hi - lo) /\ lo + (i + 1) - 1 = lo + 1 + i - 1
  OBVIOUS
<1>6. Tail(s) = l
  <2>1. \A i \in 1..(hi - lo - 1) : Tail(s)[i] = l[i]
    BY <1>1, <1>2, <1>4, <1>5
  <2>2. QED
    BY <1>2, <1>4, <2>1, SeqEqual
<1>7. QED
  BY <1>3, <1>6 DEF s, l

LEMMA LimitIs == \A o : DequeInv(o) => Limit = EndOf(o)
<1> SUFFICES ASSUME NEW o, DequeInv(o) PROVE Limit = EndOf(o)
  OBVIOUS
<1>1. CASE \E w \in env.poppers : InPop(w)
  <2>1. \A w \in env.poppers : InPop(w) <=> w = o
    BY <1>1 DEF DequeInv, DTypeOK
  <2>2. (CHOOSE w \in env.poppers : InPop(w)) = o
    BY <1>1, <2>1
  <2>3. QED
    BY <1>1, <2>1, <2>2 DEF Limit, EndOf
<1>2. CASE ~\E w \in env.poppers : InPop(w)
  BY <1>2 DEF Limit, EndOf, DequeInv, DTypeOK
<1>3. QED
  BY <1>1, <1>2

LEMMA EndsOrdered ==
  \A o : DequeInv(o) => /\ top \in Int /\ EndOf(o) \in Int /\ top <= EndOf(o)
                        /\ mem \in [Locations -> Int]
<1> SUFFICES ASSUME NEW o, DequeInv(o)
             PROVE  /\ top \in Int /\ EndOf(o) \in Int /\ top <= EndOf(o)
                    /\ mem \in [Locations -> Int]
  OBVIOUS
<1>1. o \in Threads
  BY DEF DequeInv, DTypeOK, Threads
<1>2. top \in Nat /\ b[o] \in Int /\ mem[BottomLoc] \in Int
  BY <1>1, Roles DEF DequeInv
<1>3. QED
  BY <1>2 DEF DequeInv, OwnerInv, DTypeOK, EndOf

LEMMA AfterStep ==
  /\ (\A o : DequeInv(o) => Limit = EndOf(o))'
  /\ (\A o : DequeInv(o) => /\ top \in Int /\ EndOf(o) \in Int /\ top <= EndOf(o)
                            /\ mem \in [Locations -> Int])'
BY LimitIs, EndsOrdered, PTL

\* The sequence before and after a step.
LEMMA DqStep ==
  ASSUME NEW o, DequeInv(o), DequeInv(o)'
  PROVE  /\ Dq = Between(mem, top, EndOf(o)) /\ Dq' = Between(mem', top', EndOf(o)')
         /\ top \in Int /\ EndOf(o) \in Int /\ top <= EndOf(o)
         /\ top' \in Int /\ EndOf(o)' \in Int /\ top' <= EndOf(o)'
         /\ mem \in [Locations -> Int] /\ mem' \in [Locations -> Int]
BY AfterStep, LimitIs, EndsOrdered DEF Dq

\* A step that moves neither end nor a cell in between.
LEMMA StillRefines ==
  ASSUME NEW o, DequeInv(o), DequeInv(o)', Still(o)
  PROVE  Dq' = Dq
BY DqStep, BetweenSame DEF Still, CellsStay

LEMMA AddsRefines ==
  ASSUME NEW o, DequeInv(o), DequeInv(o)', Adds(o)
  PROVE  \E x \in Items : Dq' = Append(Dq, x)
<1> USE DEF Adds, CellsStay
<1>1. Between(mem', top, EndOf(o)) = Between(mem, top, EndOf(o))
  BY DqStep, BetweenSame
<1>2. Between(mem', top, EndOf(o) + 1)
        = Append(Between(mem', top, EndOf(o)), mem'[CellOf(EndOf(o))])
  BY DqStep, BetweenAppend
<1>3. QED
  BY <1>1, <1>2, DqStep

LEMMA TakesLastRefines ==
  ASSUME NEW o, DequeInv(o), DequeInv(o)', TakesLast(o)
  PROVE  Dq # <<>> /\ taken' = Append(taken, Dq[Len(Dq)]) /\ Dq' = SubSeq(Dq, 1, Len(Dq) - 1)
<1> USE DEF TakesLast
<1> DEFINE e == EndOf(o) - 1
<1>1. e \in Int /\ top <= e /\ EndOf(o) = e + 1 /\ top \in Int
  <2>1. /\ top \in Int /\ EndOf(o) \in Int
        /\ top' \in Int /\ EndOf(o)' \in Int /\ top' <= EndOf(o)'
    BY DqStep
  <2>2. top <= EndOf(o) - 1
    BY <2>1
  <2>3. QED
    BY <2>1, <2>2
<1> HIDE DEF e
<1>2. Dq = Append(Between(mem, top, e), mem[CellOf(e)])
  <2>1. Between(mem, top, e + 1) = Append(Between(mem, top, e), mem[CellOf(e)])
    BY <1>1, DqStep, BetweenAppend
  <2>2. QED
    BY <1>1, <2>1, DqStep
<1>3. Between(mem, top, e) \in Seq(Int) /\ mem[CellOf(e)] \in Int
  BY <1>1, DqStep, BetweenIs, CellType
<1>4. /\ Dq # <<>> /\ Dq[Len(Dq)] = mem[CellOf(e)]
      /\ SubSeq(Dq, 1, Len(Dq) - 1) = Between(mem, top, e)
  BY <1>2, <1>3
<1>5. Dq' = Between(mem, top, e)
  <2>1. CASE top' = top /\ EndOf(o)' = e
    BY <2>1, DqStep
  <2>2. CASE top' = top + 1 /\ EndOf(o)' = top' /\ e = top
    <3>1. Between(mem, top', top') = <<>> /\ Between(mem, top, top) = <<>>
      BY <1>1, <2>2 DEF Between
    <3>2. QED
      BY <2>2, <3>1, DqStep
  <2>3. QED
    BY <1>1, <2>1, <2>2 DEF e
<1>6. QED
  BY <1>4, <1>5 DEF e

LEMMA TakesFirstRefines ==
  ASSUME NEW o, DequeInv(o), DequeInv(o)', TakesFirst(o)
  PROVE  Dq # <<>> /\ taken' = Append(taken, Head(Dq)) /\ Dq' = Tail(Dq)
BY DqStep, BetweenHead DEF TakesFirst

(***************************************************************************)
(* The deque implements StealingDeque: the store of bottom at the end of   *)
(* push_bottom adds the item, a successful compare-and-swap, or the return *)
(* of a pop_bottom that needs none, hands one out.                         *)
(***************************************************************************)
THEOREM DequeRefines ==
  ASSUME DequeRule
  PROVE  Spec => ImplementsDeque
<1>1. Init => Abstract!Init
  <2> SUFFICES ASSUME Init PROVE Abstract!Init
    OBVIOUS
  <2>1. IInv
    BY DequeInit
  <2>2. PICK o \in env.pushers : DequeInv(o)
    BY <2>1 DEF IInv
  <2>3. Limit = 0 /\ top = 0 /\ taken = <<>>
    <3>1. o \in Threads
      BY DEF Threads
    <3>2. EndOf(o) = 0
      BY <3>1, CellType DEF Init, EndOf, InPop
    <3>3. QED
      BY <2>2, <3>2, LimitIs DEF Init
  <2>4. QED
    BY <2>3 DEF Abstract!Init
<1>2. IInv /\ [Next]_vars => [Abstract!Next]_Abstract!vars
  <2> SUFFICES ASSUME IInv, [Next]_vars
               PROVE  Abstract!Next \/ UNCHANGED Abstract!vars
    OBVIOUS
  <2>1. PICK o \in env.pushers : DequeInv(o)
    BY DEF IInv
  <2>2. DequeInv(o)' /\ Effect(o)
    BY <2>1, DequeStep
  <2>3. CASE Still(o)
    <3>1. Dq' = Dq /\ taken' = taken
      BY <2>1, <2>2, <2>3, StillRefines DEF Still
    <3>2. QED
      BY <3>1 DEF Abstract!vars, Dq, Between
  <2>4. CASE Adds(o)
    <3>1. \E x \in Items : Dq' = Append(Dq, x) /\ taken' = taken
      BY <2>1, <2>2, <2>4, AddsRefines DEF Adds
    <3>2. QED
      BY <3>1 DEF Abstract!Next, Abstract!Push, Dq, Between
  <2>5. CASE TakesLast(o)
    <3>1. /\ Dq # <<>> /\ taken' = Append(taken, Dq[Len(Dq)])
          /\ Dq' = SubSeq(Dq, 1, Len(Dq) - 1)
      BY <2>1, <2>2, <2>5, TakesLastRefines
    <3>2. QED
      BY <3>1 DEF Abstract!Next, Abstract!PopLast, Abstract!Last, Abstract!Front, Dq, Between
  <2>6. CASE TakesFirst(o)
    <3>1. Dq # <<>> /\ taken' = Append(taken, Head(Dq)) /\ Dq' = Tail(Dq)
      BY <2>1, <2>2, <2>6, TakesFirstRefines
    <3>2. QED
      BY <3>1 DEF Abstract!Next, Abstract!StealFirst, Dq, Between
  <2>7. QED
    BY <2>2, <2>3, <2>4, <2>5, <2>6 DEF Effect
<1>3. QED
  BY <1>1, <1>2, Inductive, PTL DEF Spec, ImplementsDeque, Abstract!Spec
=============================================================================
