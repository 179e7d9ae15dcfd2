--------------------------- MODULE ChaseLevDeque ---------------------------
(***************************************************************************)
(* The work-stealing deque of Cap.Containers                               *)
(* (Foundation/Cap/Containers/API/chase_lev_deque.rs): a ring of fixed     *)
(* capacity between two counters.  push_bottom and pop_bottom work at      *)
(* bottom, steal takes at top with a compare-and-swap.  The type does not  *)
(* say who may call what, so the environment is a parameter: the rule of    *)
(* the algorithm is one thread for push_bottom and pop_bottom, the         *)
(* scheduler (Sys.Job) lets any thread push and the worker pop.            *)
(*                                                                         *)
(* Every load and store is a step.  Stores go through a per-thread store   *)
(* buffer, as on x86, of env.depth entries: with 0 the memory is           *)
(* sequentially consistent.  A compare-and-swap needs an empty buffer.     *)
(***************************************************************************)
EXTENDS Integers, Sequences, FiniteSets

CONSTANTS
  Envs,          \* the environments considered, see IsEnv
  Capacity,      \* capacity_pow2
  MaxItems,      \* bound: items ever pushed
  MaxInFlight,   \* the callers push only below this fill
  Main, Owner,   \* the threads of a scheduler with one worker
  Others         \* and more workers

\* An environment: which threads call each operation, and the entries of a
\* store buffer.
IsEnv(e) ==
  /\ DOMAIN e = {"pushers", "poppers", "thieves", "depth"}
  /\ e.depth \in Nat

\* The rule of the algorithm in sequentially consistent memory: one thread
\* pushes and pops, it and others steal (worker_main steals from its own
\* deque before it pops).
OwnerPops ==
  [pushers |-> {Owner}, poppers |-> {Owner}, thieves |-> {Owner} \cup Others, depth |-> 0]

\* Buffered stores, and nobody pops.
StealOnly == [pushers |-> {Owner}, poppers |-> {}, thieves |-> Others, depth |-> 2]

\* As the scheduler uses it: the main thread pushes, the worker steals and pops.
ForeignPush == [pushers |-> {Main}, poppers |-> {Owner}, thieves |-> {Owner}, depth |-> 0]

SoundEnvs == {OwnerPops, StealOnly}
SchedulerEnvs == {ForeignPush}

ASSUME EnvAssumption == \A e \in Envs : IsEnv(e)
ASSUME CapacityAssumption == Capacity \in Nat \ {0}
ASSUME BoundAssumption == MaxItems \in Nat /\ MaxInFlight \in Nat

Items == 1..MaxItems
Cells == 0..Capacity-1
BottomLoc == Capacity        \* the location of bottom, next to the cells
Locations == Cells \cup {BottomLoc}

VARIABLES
  env,
  mem,          \* the cells and bottom
  buf,          \* per thread: stores not yet in memory, oldest first
  top,
  pc, b, t, v,  \* per thread: program counter and locals of the operation
  pushed,       \* history: number of items pushed, items are 1, 2, ...
  taken         \* history: the items handed out, in order

vars == <<env, mem, buf, top, pc, b, t, v, pushed, taken>>
locals == <<b, t, v>>

Threads == env.pushers \cup env.poppers \cup env.thieves

CellOf(i) == i % Capacity

Init ==
  /\ env \in Envs
  /\ mem = [l \in Locations |-> 0]
  /\ buf = [w \in Threads |-> <<>>]
  /\ top = 0
  /\ pc = [w \in Threads |-> "idle"]
  /\ b = [w \in Threads |-> 0]
  /\ t = [w \in Threads |-> 0]
  /\ v = [w \in Threads |-> 0]
  /\ pushed = 0
  /\ taken = <<>>

-----------------------------------------------------------------------------
(* Memory *)

\* A load sees the thread's own latest buffered store, else memory.
Load(w, loc) ==
  LET own == {i \in DOMAIN buf[w] : buf[w][i].loc = loc}
  IN  IF own = {} THEN mem[loc]
      ELSE buf[w][CHOOSE i \in own : \A j \in own : j <= i].val

Store(w, loc, x) ==
  IF env.depth = 0
  THEN mem' = [mem EXCEPT ![loc] = x] /\ UNCHANGED buf
  ELSE /\ Len(buf[w]) < env.depth
       /\ buf' = [buf EXCEPT ![w] = Append(@, [loc |-> loc, val |-> x])]
       /\ UNCHANGED mem

Drain(w) ==
  /\ buf[w] # <<>>
  /\ mem' = [mem EXCEPT ![Head(buf[w]).loc] = Head(buf[w]).val]
  /\ buf' = [buf EXCEPT ![w] = Tail(@)]
  /\ UNCHANGED <<env, top, pc, locals, pushed, taken>>

Jump(w, from, to) == pc[w] = from /\ pc' = [pc EXCEPT ![w] = to]

\* Mutant: an unconditional increment of top.
CasBlind(w) == buf[w] = <<>> /\ top' = t[w] + 1

\* The compare-and-swap of top from t to t + 1.
Cas(w) == buf[w] = <<>> /\ top = t[w] /\ top' = t[w] + 1
CasFails(w) == buf[w] = <<>> /\ top # t[w] /\ UNCHANGED top

Take(w) == taken' = Append(taken, v[w])

-----------------------------------------------------------------------------
(* push_bottom *)

PushLoad(w) ==
  /\ w \in env.pushers
  /\ pushed < MaxItems /\ Load(w, BottomLoc) - top < MaxInFlight
  /\ Jump(w, "idle", "pushWrite")
  /\ b' = [b EXCEPT ![w] = Load(w, BottomLoc)]
  /\ v' = [v EXCEPT ![w] = pushed + 1]
  /\ pushed' = pushed + 1
  /\ UNCHANGED <<env, mem, buf, top, t, taken>>

PushWrite(w) ==
  /\ Jump(w, "pushWrite", "pushStore")
  /\ Store(w, CellOf(b[w]), v[w])
  /\ UNCHANGED <<env, top, locals, pushed, taken>>

PushStore(w) ==
  /\ Jump(w, "pushStore", "idle")
  /\ Store(w, BottomLoc, b[w] + 1)
  /\ UNCHANGED <<env, top, locals, pushed, taken>>

-----------------------------------------------------------------------------
(* pop_bottom *)

PopLoad(w) ==
  /\ w \in env.poppers
  /\ Jump(w, "idle", "popStore")
  /\ b' = [b EXCEPT ![w] = Load(w, BottomLoc) - 1]
  /\ UNCHANGED <<env, mem, buf, top, t, v, pushed, taken>>

PopStore(w) ==
  /\ Jump(w, "popStore", "popTop")
  /\ Store(w, BottomLoc, b[w])
  /\ UNCHANGED <<env, top, locals, pushed, taken>>

PopTop(w) ==
  /\ Jump(w, "popTop", IF b[w] < top THEN "popEmpty" ELSE "popRead")
  /\ t' = [t EXCEPT ![w] = top]
  /\ UNCHANGED <<env, mem, buf, top, b, v, pushed, taken>>

\* Mutant: bottom is left where the failed pop put it.
PopEmptyNoReset(w) ==
  /\ Jump(w, "popEmpty", "idle")
  /\ UNCHANGED <<env, mem, buf, top, locals, pushed, taken>>

\* size < 0: the deque was empty, bottom is put back.
PopEmpty(w) ==
  /\ Jump(w, "popEmpty", "idle")
  /\ Store(w, BottomLoc, t[w])
  /\ UNCHANGED <<env, top, locals, pushed, taken>>

PopRead(w) ==
  /\ Jump(w, "popRead", IF b[w] > t[w] THEN "popTake" ELSE "popCas")
  /\ v' = [v EXCEPT ![w] = Load(w, CellOf(b[w]))]
  /\ UNCHANGED <<env, mem, buf, top, b, t, pushed, taken>>

\* size > 0: the item cannot be stolen any more, no synchronisation.
PopTake(w) ==
  /\ Jump(w, "popTake", "idle")
  /\ Take(w)
  /\ UNCHANGED <<env, mem, buf, top, locals, pushed>>

\* size = 0: the last item, raced for with the thieves.
PopCas(w) ==
  /\ Jump(w, "popCas", "popReset")
  /\ \/ Cas(w) /\ Take(w)
     \/ CasFails(w) /\ UNCHANGED taken
  /\ UNCHANGED <<env, mem, buf, locals, pushed>>

PopReset(w) ==
  /\ Jump(w, "popReset", "idle")
  /\ Store(w, BottomLoc, t[w] + 1)
  /\ UNCHANGED <<env, top, locals, pushed, taken>>

-----------------------------------------------------------------------------
(* steal *)

StealTop(w) ==
  /\ w \in env.thieves
  /\ Jump(w, "idle", "stealBottom")
  /\ t' = [t EXCEPT ![w] = top]
  /\ UNCHANGED <<env, mem, buf, top, b, v, pushed, taken>>

\* Mutant: size < 0 instead of size <= 0.
StealBottomOffByOne(w) ==
  /\ Jump(w, "stealBottom", IF Load(w, BottomLoc) < t[w] THEN "idle" ELSE "stealRead")
  /\ UNCHANGED <<env, mem, buf, top, locals, pushed, taken>>

StealBottom(w) ==
  /\ Jump(w, "stealBottom", IF Load(w, BottomLoc) <= t[w] THEN "idle" ELSE "stealRead")
  /\ UNCHANGED <<env, mem, buf, top, locals, pushed, taken>>

StealRead(w) ==
  /\ Jump(w, "stealRead", "stealCas")
  /\ v' = [v EXCEPT ![w] = Load(w, CellOf(t[w]))]
  /\ UNCHANGED <<env, mem, buf, top, b, t, pushed, taken>>

StealCas(w) ==
  /\ Jump(w, "stealCas", "idle")
  /\ \/ Cas(w) /\ Take(w)
     \/ CasFails(w) /\ UNCHANGED taken
  /\ UNCHANGED <<env, mem, buf, locals, pushed>>

-----------------------------------------------------------------------------
Push(w) == PushLoad(w) \/ PushWrite(w) \/ PushStore(w)
Pop(w) == \/ PopLoad(w) \/ PopStore(w) \/ PopTop(w) \/ PopEmpty(w) \/ PopRead(w)
          \/ PopTake(w) \/ PopCas(w) \/ PopReset(w)
Steal(w) == StealTop(w) \/ StealBottom(w) \/ StealRead(w) \/ StealCas(w)

Next == \E w \in Threads : Push(w) \/ Pop(w) \/ Steal(w) \/ Drain(w)

Spec == Init /\ [][Next]_vars

-----------------------------------------------------------------------------
(* Properties *)

TakenSet == {taken[i] : i \in DOMAIN taken}
AllIdle == \A w \in Threads : pc[w] = "idle" /\ buf[w] = <<>>

DequeTypeOK ==
  /\ mem \in [Locations -> Int]
  /\ \A w \in Threads : Len(buf[w]) <= env.depth
  /\ top \in 0..MaxItems
  /\ pc \in [Threads -> {"idle", "pushWrite", "pushStore", "popStore", "popTop",
       "popEmpty", "popRead", "popTake", "popCas", "popReset",
       "stealBottom", "stealRead", "stealCas"}]
  /\ b \in [Threads -> Int] /\ t \in [Threads -> Int] /\ v \in [Threads -> Int]
  /\ pushed \in 0..MaxItems
  /\ taken \in Seq(Items)

(***************************************************************************)
(* No item disappears: whenever no operation is under way, what was pushed *)
(* and not handed out is exactly what lies between top and bottom.         *)
(***************************************************************************)
NothingLost ==
  AllIdle => (1..pushed) \ TakenSet = {mem[CellOf(i)] : i \in top..mem[BottomLoc]-1}

(***************************************************************************)
(* pop_bottom answers false only when every item pushed so far is taken,   *)
(* so a worker that goes on to steal elsewhere leaves nothing behind.      *)
(***************************************************************************)
PopFalseMeansEmpty ==
  [][\A w \in env.poppers :
       \/ pc[w] = "popEmpty" /\ pc'[w] = "idle"
       \/ pc[w] = "popReset" /\ pc'[w] = "idle"
       => 1..pushed = TakenSet]_vars

(***************************************************************************)
(* The deque implements a sequence: the owner adds and removes at the end, *)
(* a thief removes at the front.  While the owner is inside pop_bottom the *)
(* item at its own index b is still in the sequence.                       *)
(***************************************************************************)
InPop(w) == pc[w] \in {"popTop", "popEmpty", "popRead", "popTake", "popCas", "popReset"}

Limit == IF \E w \in env.poppers : InPop(w)
         THEN b[CHOOSE w \in env.poppers : InPop(w)] + 1
         ELSE mem[BottomLoc]

Abstract == INSTANCE StealingDeque WITH
  dq <- [i \in 1..(Limit - top) |-> mem[CellOf(top + i - 1)]],
  taken <- taken

ImplementsDeque == Abstract!Spec
=============================================================================
