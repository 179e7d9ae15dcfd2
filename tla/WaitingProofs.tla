---------------------------- MODULE WaitingProofs ----------------------------
(***************************************************************************)
(* Proofs about the TaskGroup, the FiberEvent, the Driver and the main     *)
(* loop of MCWaiting, each with the inductive invariant of its own         *)
(* behaviours.                                                             *)
(***************************************************************************)
EXTENDS MCWaiting, FiniteSetTheorems, SequenceTheorems, TLAPS

\* Each module makes a step of its own or none.
LEMMA OneAtATime ==
  ASSUME [Next]_all
  PROVE  /\ [G!Next]_(G!vars) /\ [E!Next]_(E!fevars)
         /\ [D!Next]_(D!drvvars) /\ [A!Next]_(A!appvars)
<1>1. [G!Next]_group /\ [E!Next]_event /\ [D!Next]_driver /\ [A!Next]_loop
  <2>1. CASE UNCHANGED all
    BY <2>1 DEF all
  <2>2. CASE Next
    BY <2>2 DEF Next
  <2>3. QED
    BY <2>1, <2>2
<1>2. [G!Next]_(G!vars) /\ [E!Next]_(E!fevars)
  BY <1>1 DEF group, G!vars, event, E!fevars
<1>3. [D!Next]_(D!drvvars)
  BY <1>1 DEF driver, D!drvvars, D!wheel, D!port, D!sift
<1>4. [A!Next]_(A!appvars)
  BY <1>1 DEF loop, A!appvars
<1>5. QED
  BY <1>2, <1>3, <1>4

-----------------------------------------------------------------------------
(* The task group *)

\* Cardinality and finiteness as TaskGroup knows them.
LEMMA GroupCardinality ==
  ASSUME NEW s
  PROVE  G!Cardinality(s) = Cardinality(s) /\ G!IsFiniteSet(s) = IsFiniteSet(s)
BY DEF G!Cardinality, G!IsFiniteSet, Cardinality, IsFiniteSet

LiveTasks == {k \in Tasks : task[k] \in G!Live}

GroupType ==
  /\ tasks = Cardinality(LiveTasks) /\ gsignaled \in BOOLEAN
  /\ task \in [Tasks -> {"new", "counted", "queued", "ran", "last", "over"}]
  /\ wpc \in [Waiters -> {"idle", "load", "parked", "returned"}]

\* Nothing that a waiter is owed is new, and if its wait has returned, all of
\* it has run.
OwedInv ==
  /\ owed = [w \in Waiters |-> owed[w]]
  /\ \A w \in Waiters : owed[w] \subseteq G!Counted

GroupInv == GroupType /\ OwedInv /\ G!GroupWaitSound

LEMMA GroupInit == G!Init => GroupInv
<1> SUFFICES ASSUME G!Init PROVE GroupInv
  OBVIOUS
<1>1. LiveTasks = {}
  BY DEF G!Init, LiveTasks, G!Live
<1>2. QED
  BY <1>1, FS_EmptySet DEF G!Init, GroupInv, GroupType, OwedInv, G!GroupWaitSound

\* The count follows the tasks one by one.
LEMMA CountStep ==
  ASSUME IsFiniteSet(Tasks), GroupType, NEW k \in Tasks, G!Caller(k) \/ G!Run(k)
  PROVE  GroupType'
<1> USE DEF G!Advance
<1> DEFINE States == {"new", "counted", "queued", "ran", "last", "over"}
<1>1. /\ IsFiniteSet(LiveTasks)
      /\ tasks = Cardinality(LiveTasks)
      /\ task' \in [Tasks -> States] /\ gsignaled' \in BOOLEAN /\ wpc' = wpc
  <2>1. IsFiniteSet(LiveTasks)
    BY FS_Subset DEF LiveTasks
  <2>2. QED
    BY <2>1 DEF GroupType, LiveTasks, G!Caller, G!Run, G!AddCount, G!AddReset, G!RunTask, G!DoneCount, G!DoneSignal
<1>2. CASE G!AddCount(k)
  <2>1. LiveTasks' = LiveTasks \cup {k} /\ k \notin LiveTasks
    BY <1>2 DEF G!AddCount, LiveTasks, G!Live, GroupType
  <2>2. tasks' = Cardinality(LiveTasks')
    BY <1>1, <1>2, <2>1, FS_AddElement DEF G!AddCount
  <2>3. QED
    BY <1>1, <2>2 DEF GroupType, LiveTasks
<1>3. CASE G!DoneCount(k)
  <2>1. LiveTasks' = LiveTasks \ {k} /\ k \in LiveTasks
    BY <1>3 DEF G!DoneCount, LiveTasks, G!Live, GroupType
  <2>2. tasks' = Cardinality(LiveTasks')
    BY <1>1, <1>3, <2>1, FS_RemoveElement DEF G!DoneCount
  <2>3. QED
    BY <1>1, <2>2 DEF GroupType, LiveTasks
<1>4. CASE G!AddReset(k) \/ G!RunTask(k) \/ G!DoneSignal(k)
  <2>1. LiveTasks' = LiveTasks /\ tasks' = tasks
    BY <1>4 DEF G!AddReset, G!RunTask, G!DoneSignal, LiveTasks, G!Live, GroupType
  <2>2. QED
    BY <1>1, <2>1 DEF GroupType, LiveTasks
<1>5. QED
  BY <1>2, <1>3, <1>4 DEF G!Caller, G!Run

\* A task never becomes new again, nor one that has run alive.
LEMMA TasksAdvance ==
  ASSUME GroupType, NEW k \in Tasks, G!Caller(k) \/ G!Run(k)
  PROVE  /\ G!Counted \subseteq G!Counted'
         /\ \A j \in Tasks : task[j] \in {"last", "over"} => task'[j] \in {"last", "over"}
         /\ UNCHANGED <<wpc, owed>>
BY DEF GroupType, G!Caller, G!Run, G!AddCount, G!AddReset, G!RunTask, G!DoneCount, G!DoneSignal, G!Advance, G!Counted

LEMMA WaitStep ==
  ASSUME IsFiniteSet(Tasks), GroupInv, NEW w \in Waiters, G!WaitBegin(w) \/ G!Wait(w)
  PROVE  GroupInv'
<1> USE DEF GroupInv, G!Goto
<1>1. GroupType'
  <2>1. LiveTasks' = LiveTasks /\ tasks' = tasks
    BY DEF LiveTasks, G!Live, G!WaitBegin, G!Wait, G!WaitLoad, G!Wake, G!Timeout
  <2>2. QED
    BY <2>1 DEF GroupType, G!WaitBegin, G!Wait, G!WaitLoad, G!Wake, G!Timeout
<1>2. OwedInv'
  BY DEF OwedInv, G!WaitBegin, G!Wait, G!WaitLoad, G!Wake, G!Timeout, G!Counted
<1>3. G!GroupWaitSound'
  <2>1. CASE G!WaitBegin(w) \/ G!Wake(w) \/ G!Timeout(w)
    BY <2>1 DEF G!GroupWaitSound, GroupType, OwedInv, G!WaitBegin, G!Wake, G!Timeout
  <2>2. CASE G!WaitLoad(w) /\ tasks # 0
    BY <2>2 DEF G!GroupWaitSound, GroupType, G!WaitLoad
  <2>3. CASE G!WaitLoad(w) /\ tasks = 0
    <3>1. LiveTasks = {}
      BY <2>3, FS_EmptySet, FS_Subset DEF GroupType, LiveTasks
    <3>2. \A j \in owed[w] : task[j] \in {"last", "over"}
      BY <3>1 DEF LiveTasks, G!Live, OwedInv, G!Counted, GroupType
    <3>3. QED
      BY <2>3, <3>2 DEF G!GroupWaitSound, G!WaitLoad, GroupType
  <2>4. QED
    BY <2>1, <2>2, <2>3 DEF G!Wait
<1>4. QED
  BY <1>1, <1>2, <1>3

LEMMA GroupStep == IsFiniteSet(Tasks) /\ GroupInv /\ [G!Next]_(G!vars) => GroupInv'
<1> SUFFICES ASSUME IsFiniteSet(Tasks), GroupInv, [G!Next]_(G!vars) PROVE GroupInv'
  OBVIOUS
<1>1. ASSUME NEW k \in Tasks, G!Caller(k) \/ G!Run(k) PROVE GroupInv'
  <2>1. GroupType'
    BY <1>1, CountStep DEF GroupInv
  <2>2. OwedInv' /\ G!GroupWaitSound'
    BY <1>1, TasksAdvance DEF GroupInv, OwedInv, G!GroupWaitSound, G!Counted
  <2>3. QED
    BY <2>1, <2>2 DEF GroupInv
<1>2. CASE UNCHANGED G!vars
  <2>1. LiveTasks' = LiveTasks
    BY <1>2 DEF G!vars, LiveTasks, G!Live
  <2>2. QED
    BY <1>2, <2>1 DEF G!vars, GroupInv, GroupType, OwedInv, G!GroupWaitSound, G!Counted
<1>3. QED
  BY <1>1, <1>2, WaitStep DEF G!Next

LEMMA GroupSafe == GroupInv => G!TypeOK
<1> SUFFICES ASSUME GroupInv PROVE G!TypeOK
  OBVIOUS
<1>1. tasks = G!Cardinality({k \in Tasks : task[k] \in G!Live})
  BY GroupCardinality DEF GroupInv, GroupType, LiveTasks
<1>2. QED
  BY <1>1 DEF GroupInv, GroupType, G!TypeOK

(***************************************************************************)
(* wait of a TaskGroup returns only when every task counted when it was    *)
(* called has run, for any number of waiters and any finite set of tasks,  *)
(* whoever takes the one signal (counter.rs:11-16).                        *)
(***************************************************************************)
THEOREM WaitsAreSound ==
  ASSUME IsFiniteSet(Tasks)
  PROVE  Spec => []GroupWaitSound
<1>1. Init => GroupInv
  BY GroupInit DEF Init
<1>2. GroupInv /\ [Next]_all => GroupInv'
  BY GroupStep, OneAtATime
<1>3. GroupInv => GroupWaitSound
  BY DEF GroupInv, GroupWaitSound
<1>4. QED
  BY <1>1, <1>2, <1>3, PTL DEF Spec

(***************************************************************************)
(* The count of a TaskGroup is the number of tasks counted and not yet     *)
(* taken back (add_tasks and task_done).                                   *)
(***************************************************************************)
THEOREM CountIsExact ==
  ASSUME IsFiniteSet(Tasks)
  PROVE  Spec => []G!TypeOK
<1>1. Init => GroupInv
  BY GroupInit DEF Init
<1>2. GroupInv /\ [Next]_all => GroupInv'
  BY GroupStep, OneAtATime
<1>3. GroupInv => G!TypeOK
  BY GroupSafe
<1>4. QED
  BY <1>1, <1>2, <1>3, PTL DEF Spec

-----------------------------------------------------------------------------
(* The event of fibers *)

FiberStates == {"test", "load", "push", "pushed", "suspended", "over"}

FTypeOK ==
  /\ waiting \in Seq(Fibers) /\ taken \in Seq(Fibers)
  /\ fpc \in [Fibers -> FiberStates]
  /\ next \in [Fibers -> Seq(Fibers)]
  /\ spc \in {"store", "swap", "walk", "over"}

On(s, f) == \E i \in 1 .. Len(s) : s[i] = f
Once(s) == \A i, j \in 1 .. Len(s) : s[i] = s[j] => i = j

\* On the list and not yet resumed, suspended or about to.
Pushed(f) == fpc[f] \in {"pushed", "suspended"} /\ f \notin early

\* The list and what the signaller has taken, apart.
NodesInv ==
  /\ \A f \in Fibers : Pushed(f) <=> On(waiting, f) \/ On(taken, f)
  /\ \A f \in Fibers : ~(On(waiting, f) /\ On(taken, f))
  /\ Once(waiting) /\ Once(taken)
  /\ spc = "walk" <=> taken # <<>>

\* Who is on the way to suspend has found the flag unset; who was resumed too
\* early had pushed itself.
BeforeInv ==
  \A f \in Fibers :
    /\ fpc[f] \in {"load", "push", "pushed", "suspended"} => f \in before
    /\ f \in early => fpc[f] \notin {"test", "load", "push"}

FInv == FTypeOK /\ NodesInv /\ BeforeInv

-----------------------------------------------------------------------------
\* What is on a list that grew at its head.
LEMMA OnPush ==
  ASSUME NEW s \in Seq(Fibers), NEW f \in Fibers
  PROVE  /\ <<f>> \o s \in Seq(Fibers)
         /\ \A g : On(<<f>> \o s, g) <=> g = f \/ On(s, g)
         /\ Once(s) /\ ~On(s, f) => Once(<<f>> \o s)
<1> DEFINE t == <<f>> \o s
<1>1. /\ t \in Seq(Fibers) /\ Len(t) = Len(s) + 1 /\ t[1] = f
      /\ \A i \in 1 .. Len(s) : t[i + 1] = s[i]
      /\ \A i \in 2 .. Len(t) : t[i] = s[i - 1] /\ i - 1 \in 1 .. Len(s)
  OBVIOUS
<1> HIDE DEF t
<1>2. \A g : On(t, g) <=> g = f \/ On(s, g)
  <2>1. ASSUME NEW g, On(t, g) PROVE g = f \/ On(s, g)
    BY <1>1, <2>1 DEF On
  <2>2. ASSUME NEW g, On(s, g) PROVE On(t, g)
    <3>1. PICK i \in 1 .. Len(s) : s[i] = g
      BY <2>2 DEF On
    <3>2. i + 1 \in 1 .. Len(t) /\ t[i + 1] = g
      BY <1>1, <3>1
    <3>3. QED
      BY <3>2 DEF On
  <2>3. On(t, f)
    BY <1>1 DEF On
  <2>4. QED
    BY <2>1, <2>2, <2>3
<1>3. ASSUME Once(s), ~On(s, f), NEW i \in 1 .. Len(t), NEW j \in 1 .. Len(t), t[i] = t[j]
      PROVE  i = j
  <2>1. CASE i = 1 \/ j = 1
    <3>1. \A k \in 2 .. Len(t) : t[k] # f
      BY <1>1, <1>3 DEF On
    <3>2. QED
      BY <1>1, <1>3, <2>1, <3>1
  <2>2. CASE i # 1 /\ j # 1
    <3>1. i - 1 \in 1 .. Len(s) /\ j - 1 \in 1 .. Len(s) /\ s[i - 1] = s[j - 1]
      BY <1>1, <1>3, <2>2
    <3>2. i - 1 = j - 1
      BY <1>3, <3>1 DEF Once
    <3>3. QED
      BY <1>1, <3>2
  <2>3. QED
    BY <2>1, <2>2
<1>4. QED
  BY <1>1, <1>2, <1>3 DEF Once, t

\* What is on a list that lost its head.
LEMMA OnTail ==
  ASSUME NEW s \in Seq(Fibers), s # <<>>, Once(s)
  PROVE  /\ Tail(s) \in Seq(Fibers) /\ Head(s) \in Fibers
         /\ \A g : On(Tail(s), g) <=> On(s, g) /\ g # Head(s)
         /\ Once(Tail(s))
         /\ Len(s) = 1 <=> Tail(s) = <<>>
<1> DEFINE t == Tail(s)
<1>1. /\ t \in Seq(Fibers) /\ Len(t) = Len(s) - 1 /\ Len(s) \in Nat \ {0}
      /\ Head(s) = s[1] /\ Head(s) \in Fibers
      /\ \A i \in 1 .. Len(t) : t[i] = s[i + 1] /\ i + 1 \in 1 .. Len(s)
      /\ \A i \in 2 .. Len(s) : t[i - 1] = s[i] /\ i - 1 \in 1 .. Len(t)
      /\ Len(t) = 0 <=> t = <<>>
  <2>1. Len(s) \in Nat \ {0}
    OBVIOUS
  <2>2. /\ t \in Seq(Fibers) /\ Len(t) = Len(s) - 1
        /\ \A i \in 1 .. Len(t) : t[i] = s[i + 1]
    BY <2>1
  <2>3. Head(s) = s[1] /\ Head(s) \in Fibers
    BY <2>1
  <2> HIDE DEF t
  <2>4. Len(t) = 0 <=> t = <<>>
    BY <2>2
  <2>5. \A i \in 2 .. Len(s) : t[i - 1] = s[i] /\ i - 1 \in 1 .. Len(t)
    <3>1. ASSUME NEW i \in 2 .. Len(s) PROVE i - 1 \in 1 .. Len(t) /\ (i - 1) + 1 = i
      BY <2>1, <2>2
    <3>2. QED
      BY <2>2, <3>1
  <2>6. QED
    BY <2>1, <2>2, <2>3, <2>4, <2>5
<1> HIDE DEF t
<1>2. ASSUME NEW g, On(t, g) PROVE On(s, g) /\ g # Head(s)
  BY <1>1, <1>2 DEF On, Once
<1>3. ASSUME NEW g, On(s, g), g # Head(s) PROVE On(t, g)
  <2>1. PICK i \in 1 .. Len(s) : s[i] = g
    BY <1>3 DEF On
  <2>2. i \in 2 .. Len(s)
    BY <1>1, <1>3, <2>1
  <2>3. QED
    BY <1>1, <2>1, <2>2 DEF On
<1>4. Once(t)
  BY <1>1 DEF Once
<1>5. QED
  BY <1>1, <1>2, <1>3, <1>4 DEF t

\* The parts joined.
LEMMA Joined ==
  ASSUME NEW s \in Seq(Fibers), NEW t \in Seq(Fibers),
         Once(s), Once(t), \A f \in Fibers : ~(On(s, f) /\ On(t, f))
  PROVE  /\ Once(s \o t)
         /\ \A f : On(s \o t, f) <=> On(s, f) \/ On(t, f)
<1> DEFINE u == s \o t
<1>1. /\ Len(u) = Len(s) + Len(t) /\ Len(s) \in Nat /\ Len(t) \in Nat
      /\ \A i \in 1 .. Len(s) : u[i] = s[i] /\ s[i] \in Fibers
      /\ \A i \in 1 .. Len(t) : t[i] \in Fibers
      /\ \A i \in 1 .. Len(u) : i > Len(s) => u[i] = t[i - Len(s)]
  OBVIOUS
<1> HIDE DEF u
<1>2. ASSUME NEW i \in 1 .. Len(u), NEW j \in 1 .. Len(u), u[i] = u[j]
      PROVE  i = j
  <2>1. CASE i <= Len(s) /\ j <= Len(s)
    BY <1>1, <1>2, <2>1 DEF Once
  <2>2. CASE i > Len(s) /\ j > Len(s)
    <3>1. i - Len(s) \in 1 .. Len(t) /\ j - Len(s) \in 1 .. Len(t)
      BY <1>1, <2>2
    <3>2. i - Len(s) = j - Len(s)
      BY <1>1, <1>2, <2>2, <3>1 DEF Once
    <3>3. QED
      BY <1>1, <3>2
  <2>3. ASSUME NEW k \in 1 .. Len(u), NEW l \in 1 .. Len(u),
               k <= Len(s), l > Len(s), u[k] = u[l]
        PROVE FALSE
    <3>1. k \in 1 .. Len(s) /\ l - Len(s) \in 1 .. Len(t)
      BY <1>1, <2>3
    <3>2. u[k] \in Fibers /\ On(s, u[k]) /\ On(t, u[k])
      BY <1>1, <2>3, <3>1 DEF On
    <3>3. QED
      BY <3>2
  <2>4. QED
    BY <1>1, <1>2, <2>1, <2>2, <2>3
<1>3. ASSUME NEW f, On(u, f) PROVE On(s, f) \/ On(t, f)
  <2>1. PICK i \in 1 .. Len(u) : u[i] = f
    BY <1>3 DEF On
  <2>2. CASE i <= Len(s)
    BY <1>1, <2>1, <2>2 DEF On
  <2>3. CASE i > Len(s)
    BY <1>1, <2>1, <2>3 DEF On
  <2>4. QED
    BY <1>1, <2>2, <2>3
<1>4. ASSUME NEW f, On(s, f) PROVE On(u, f)
  BY <1>1, <1>4 DEF On
<1>5. ASSUME NEW f, On(t, f) PROVE On(u, f)
  <2>1. PICK i \in 1 .. Len(t) : t[i] = f
    BY <1>5 DEF On
  <2>2. i + Len(s) \in 1 .. Len(u) /\ u[i + Len(s)] = f
    BY <1>1, <2>1
  <2>3. QED
    BY <2>2 DEF On
<1>6. QED
  BY <1>2, <1>3, <1>4, <1>5 DEF Once, u

-----------------------------------------------------------------------------
LEMMA FInit == E!Init => FInv
BY DEF E!Init, FInv, FTypeOK, NodesInv, Pushed, BeforeInv, FiberStates, On, Once

LEMMA FAwait ==
  ASSUME FInv, NEW f \in Fibers, E!Await(f)
  PROVE  FInv'
<1> USE DEF FInv, E!Move, Pushed
<1>1. CASE E!AwaitTest(f) \/ E!AwaitLoad(f) \/ E!AwaitRetry(f)
  <2>1. FTypeOK'
    BY <1>1 DEF FTypeOK, FiberStates, E!AwaitTest, E!AwaitLoad, E!AwaitRetry
  <2>2. NodesInv'
    BY <1>1 DEF FTypeOK, NodesInv, E!AwaitTest, E!AwaitLoad, E!AwaitRetry
  <2>3. BeforeInv'
    BY <1>1 DEF FTypeOK, BeforeInv, E!AwaitTest, E!AwaitLoad, E!AwaitRetry
  <2>4. QED
    BY <2>1, <2>2, <2>3
<1>2. CASE E!AwaitPush(f)
  <2>1. /\ waiting' = <<f>> \o waiting /\ taken' = taken /\ spc' = spc
        /\ fpc[f] = "push" /\ fpc' = [fpc EXCEPT ![f] = "pushed"]
        /\ next' = next /\ before' = before /\ early' = early
    BY <1>2 DEF E!AwaitPush
  <2>2. ~On(waiting, f) /\ ~On(taken, f) /\ f \notin early
    BY <2>1 DEF NodesInv, BeforeInv
  <2>3. /\ waiting' \in Seq(Fibers)
        /\ \A g : On(waiting', g) <=> g = f \/ On(waiting, g)
        /\ Once(waiting')
    BY <2>1, <2>2, OnPush DEF FTypeOK, NodesInv
  <2>4. FTypeOK'
    BY <2>1, <2>3 DEF FTypeOK, FiberStates
  <2>5. NodesInv'
    BY <2>1, <2>2, <2>3 DEF FTypeOK, NodesInv
  <2>6. BeforeInv'
    BY <2>1 DEF FTypeOK, BeforeInv
  <2>7. QED
    BY <2>4, <2>5, <2>6
<1>3. CASE E!Suspend(f)
  <2>1. /\ fpc[f] = "pushed" /\ fpc' = [fpc EXCEPT ![f] = "suspended"]
        /\ UNCHANGED <<waiting, next, spc, taken, before, early>>
    BY <1>3 DEF E!Suspend
  <2>2. FTypeOK'
    BY <2>1 DEF FTypeOK, FiberStates
  <2>3. NodesInv'
    BY <2>1 DEF FTypeOK, NodesInv
  <2>4. BeforeInv'
    BY <2>1 DEF FTypeOK, BeforeInv
  <2>5. QED
    BY <2>2, <2>3, <2>4
<1>4. QED
  BY <1>1, <1>2, <1>3 DEF E!Await

LEMMA FSignal ==
  ASSUME FInv, E!Signal
  PROVE  FInv'
<1> USE DEF FInv, Pushed
<1>1. CASE E!SignalStore
  BY <1>1 DEF E!SignalStore, FTypeOK, NodesInv, BeforeInv
<1>2. CASE E!SignalSwap
  <2>1. taken = <<>>
    BY <1>2 DEF E!SignalSwap, NodesInv
  <2>2. \A g : ~On(<<>>, g)
    BY DEF On
  <2>3. Once(<<>>)
    BY DEF Once
  <2>4. FTypeOK'
    BY <1>2 DEF E!SignalSwap, FTypeOK
  <2>5. NodesInv'
    BY <1>2, <2>1, <2>2, <2>3 DEF E!SignalSwap, NodesInv
  <2>6. BeforeInv'
    BY <1>2 DEF E!SignalSwap, BeforeInv
  <2>7. QED
    BY <2>4, <2>5, <2>6
<1>3. CASE E!SignalWalk
  <2>1. taken # <<>> /\ Once(taken) /\ taken \in Seq(Fibers)
    BY <1>3 DEF E!SignalWalk, NodesInv, FTypeOK
  <2>2. /\ taken' = Tail(taken) /\ waiting' = waiting /\ next' = next /\ before' = before
        /\ \/ /\ fpc[Head(taken)] = "suspended" /\ early' = early
              /\ fpc' = [fpc EXCEPT ![Head(taken)] = "over"]
           \/ /\ early' = early \cup {Head(taken)}
              /\ \E to \in {"pushed", "over"} : fpc' = [fpc EXCEPT ![Head(taken)] = to]
        /\ spc' = IF Len(taken) = 1 THEN "swap" ELSE "walk"
    BY <1>3 DEF E!SignalWalk
  <2>3. /\ taken' \in Seq(Fibers) /\ Head(taken) \in Fibers
        /\ \A g : On(taken', g) <=> On(taken, g) /\ g # Head(taken)
        /\ Once(taken')
        /\ Len(taken) = 1 <=> taken' = <<>>
    BY <2>1, <2>2, OnTail
  <2>4. On(taken, Head(taken)) /\ ~On(waiting, Head(taken)) /\ Pushed(Head(taken))
    <3>1. On(taken, Head(taken))
      BY <2>1 DEF On
    <3>2. QED
      BY <2>3, <3>1 DEF NodesInv
  <2>5. FTypeOK'
    BY <2>2, <2>3 DEF FTypeOK, FiberStates
  <2>6. NodesInv'
    BY <2>2, <2>3, <2>4 DEF FTypeOK, NodesInv
  <2>7. BeforeInv'
    BY <2>2, <2>3, <2>4 DEF FTypeOK, BeforeInv
  <2>8. QED
    BY <2>5, <2>6, <2>7
<1>4. QED
  BY <1>1, <1>2, <1>3 DEF E!Signal

LEMMA FStep == FInv /\ [E!Next]_(E!fevars) => FInv'
<1>1. ASSUME FInv, UNCHANGED E!fevars PROVE FInv'
  BY <1>1 DEF E!fevars, FInv, FTypeOK, NodesInv, Pushed, BeforeInv
<1>2. QED
  BY <1>1, FAwait, FSignal DEF E!Next

LEMMA EventSafe == FInv => E!NodesAccounted
<1> SUFFICES ASSUME FInv PROVE E!NodesAccounted
  OBVIOUS
<1> USE DEF FInv
<1>1. /\ Once(waiting \o taken)
      /\ \A f : On(waiting \o taken, f) <=> On(waiting, f) \/ On(taken, f)
  BY Joined DEF FTypeOK, NodesInv
<1>2. \A f \in Fibers : Pushed(f) <=> On(waiting \o taken, f)
  BY <1>1 DEF NodesInv
<1>3. ASSUME spc = "over", NEW f \in Fibers, fpc[f] = "suspended"
      PROVE  f \in before /\ (f \in early \/ On(waiting, f))
  <2>1. ~On(taken, f)
    BY <1>3 DEF NodesInv, On
  <2>2. QED
    BY <1>3, <2>1 DEF NodesInv, Pushed, BeforeInv
<1>4. QED
  BY <1>1, <1>2, <1>3 DEF E!NodesAccounted, On, Once, Pushed

-----------------------------------------------------------------------------
(* The driver *)

LEMMA DriverConstants == D!DriverAssumption
BY Constants

USE DriverConstants DEF D!DriverAssumption

Timer == [id : Nat, due : Nat]
DriverPlaces == {"idle", "loop", "callback", "pushed", "up", "down"}

TimerType ==
  /\ tick \in Nat /\ timers \in Seq(Timer) /\ added \in Nat /\ nested \in BOOLEAN
  /\ dpc \in DriverPlaces /\ caller \in {"idle", "callback"}
  /\ hole \in Nat /\ now \in Nat /\ now <= tick
  /\ dpc \in {"up", "down"} => hole \in 1..Len(timers)
  /\ dpc = "pushed" => Len(timers) >= 1

\* Each timer added is in the heap, once, or has fired.
TimersOnce ==
  /\ D!Pending \cap fired = {} /\ D!Pending \cup fired = 1..added
  /\ \A i, j \in 1..Len(timers) : timers[i].id = timers[j].id => i = j

Before(i, j, at) == D!RemWait(timers[i], at) <= D!RemWait(timers[j], at)

\* Everything is ordered but the timer at the hole, or the children of it; what
\* is below the hole is in order with what is above it.
Across == hole > 1 => \A i \in 2..Len(timers) : i \div 2 = hole => Before(hole \div 2, i, now)
Rising  == Across /\ \A i \in 2..Len(timers) : i # hole => Before(i \div 2, i, now)
Sinking == Across /\ \A i \in 2..Len(timers) : i \div 2 # hole => Before(i \div 2, i, now)

OrderInv ==
  /\ dpc \in {"idle", "loop"} => \A i \in 2..Len(timers) : Before(i \div 2, i, tick)
  /\ dpc = "pushed" => \A i \in 2..(Len(timers) - 1) : Before(i \div 2, i, tick)
  /\ dpc = "up" => Rising
  /\ dpc \in {"pushed", "up"} /\ caller = "callback" => Len(timers) = 1
  /\ dpc = "callback" => \A i \in 4..Len(timers) : Before(i \div 2, i, tick)
  /\ dpc = "down" => Sinking

HeapInv == TimerType /\ TimersOnce /\ (~nested => OrderInv)

-----------------------------------------------------------------------------
(* Remaining times. *)

LEMMA RemType ==
  ASSUME NEW x \in Timer, NEW at \in Nat
  PROVE  D!RemWait(x, at) \in Nat
BY DEF D!RemWait, Timer

\* What is ordered stays so as time passes, although remainders stop at zero.
LEMMA RemLater ==
  ASSUME NEW x \in Timer, NEW y \in Timer, NEW at \in Nat, NEW later \in Nat, at <= later,
         D!RemWait(x, at) <= D!RemWait(y, at)
  PROVE  D!RemWait(x, later) <= D!RemWait(y, later)
BY DEF D!RemWait, Timer

LEMMA Parent ==
  ASSUME NEW i \in Nat
  PROVE  /\ i \div 2 \in Nat
         /\ i >= 2 => i \div 2 >= 1 /\ i \div 2 < i
         /\ i >= 4 => i \div 2 >= 2
         /\ \A h \in Nat : i \div 2 = h <=> i = 2 * h \/ i = 2 * h + 1
OBVIOUS

LEMMA TimerAt ==
  ASSUME TimerType
  PROVE  /\ Len(timers) \in Nat /\ DOMAIN timers = 1..Len(timers)
         /\ \A i \in 1..Len(timers) : timers[i] \in Timer
<1>1. timers \in Seq(Timer) /\ Len(timers) \in Nat /\ DOMAIN timers = 1..Len(timers)
  BY LenProperties DEF TimerType
<1>2. QED
  BY <1>1, ElementOfSeq

LEMMA OrderLater ==
  ASSUME TimerType, NEW i \in 2..Len(timers), NEW at \in Nat, NEW later \in Nat, at <= later,
         Before(i \div 2, i, at)
  PROVE  Before(i \div 2, i, later)
<1>1. i \in 1..Len(timers) /\ i \div 2 \in 1..Len(timers)
  BY TimerAt, Parent
<1>2. timers[i] \in Timer /\ timers[i \div 2] \in Timer
  BY <1>1, TimerAt
<1>3. QED
  BY <1>2, RemLater DEF Before

-----------------------------------------------------------------------------
(* The heap as a sequence. *)

\* Two timers change places.
LEMMA SwapKeeps ==
  ASSUME TimerType, TimersOnce, NEW j \in 1..Len(timers), hole \in 1..Len(timers),
         D!Sift(j), fired' = fired, added' = added
  PROVE  /\ timers' \in Seq(Timer) /\ Len(timers') = Len(timers)
         /\ timers'[hole] = timers[j] /\ timers'[j] = timers[hole]
         /\ \A i \in 1..Len(timers) : i # hole /\ i # j => timers'[i] = timers[i]
         /\ TimersOnce'
<1> DEFINE size == Len(timers)
           s == timers'
           h == hole
<1>1. size \in Nat /\ DOMAIN timers = 1..size /\ timers \in Seq(Timer)
      /\ \A i \in 1..size : timers[i] \in Timer
  BY TimerAt DEF TimerType
<1>2. s = [timers EXCEPT ![h] = timers[j], ![j] = timers[h]]
  BY DEF D!Sift, D!Swapped
<1>3. /\ s \in [1..size -> Timer]
      /\ s[h] = timers[j] /\ s[j] = timers[h]
      /\ \A i \in 1..size : i # h /\ i # j => s[i] = timers[i]
  <2>1. timers \in [1..size -> Timer]
    BY <1>1
  <2>2. QED
    BY <1>1, <1>2, <2>1
<1>4. s \in Seq(Timer) /\ Len(s) = size
  BY <1>1, <1>3
<1>5. h \in 1..size
  OBVIOUS
<1>12. j \in 1..size
  OBVIOUS
<1> HIDE DEF size, s, h
<1> DEFINE was(i) == IF i = h THEN j ELSE IF i = j THEN h ELSE i
<1>11. ASSUME NEW i \in 1..size
       PROVE  was(i) \in 1..size /\ s[i] = timers[was(i)] /\ was(was(i)) = i
  BY <1>3, <1>5, <1>12
<1> HIDE DEF was
<1>6. {s[i].id : i \in 1..size} = {timers[i].id : i \in 1..size}
  <2>1. \A i \in 1..size : \E k \in 1..size : s[i].id = timers[k].id
    BY <1>11
  <2>2. \A i \in 1..size : \E k \in 1..size : timers[i].id = s[k].id
    BY <1>11
  <2>3. ASSUME NEW x \in {s[i].id : i \in 1..size} PROVE x \in {timers[i].id : i \in 1..size}
    <3>1. PICK i \in 1..size : x = s[i].id
      OBVIOUS
    <3>2. PICK k \in 1..size : s[i].id = timers[k].id
      BY <2>1
    <3>3. QED
      BY <3>1, <3>2
  <2>4. ASSUME NEW x \in {timers[i].id : i \in 1..size} PROVE x \in {s[i].id : i \in 1..size}
    <3>1. PICK i \in 1..size : x = timers[i].id
      OBVIOUS
    <3>2. PICK k \in 1..size : timers[i].id = s[k].id
      BY <2>2
    <3>3. QED
      BY <3>1, <3>2
  <2>5. QED
    BY <2>3, <2>4
<1>7. D!Pending' = D!Pending
  <2>1. D!Pending = {timers[i].id : i \in 1..size} /\ D!Pending' = {s[i].id : i \in 1..size}
    BY <1>4 DEF D!Pending, size, s
  <2>2. QED
    BY <1>6, <2>1
<1>8. ASSUME NEW i \in 1..size, NEW k \in 1..size, s[i].id = s[k].id PROVE i = k
  <2>1. \A x, y \in 1..size : timers[x].id = timers[y].id => x = y
    BY DEF TimersOnce, size
  <2>2. was(i) = was(k)
    BY <1>11, <1>8, <2>1
  <2>3. was(was(i)) = was(was(k))
    BY <2>2
  <2>4. QED
    BY <1>11, <2>3
<1>9. TimersOnce'
  BY <1>4, <1>7, <1>8 DEF TimersOnce, size, s
<1>10. QED
  BY <1>3, <1>4, <1>9 DEF size, s, h

\* A timer is added at the end.
LEMMA AppendKeeps ==
  ASSUME TimerType, TimersOnce, NEW delay \in Nat,
         timers' = Append(timers, [id |-> added + 1, due |-> tick + delay]),
         fired' = fired, added' = added + 1
  PROVE  /\ timers' \in Seq(Timer) /\ Len(timers') = Len(timers) + 1
         /\ \A i \in 1..Len(timers) : timers'[i] = timers[i]
         /\ TimersOnce'
<1> DEFINE size == Len(timers)
           s == timers'
           x == [id |-> added + 1, due |-> tick + delay]
<1>1. size \in Nat /\ timers \in Seq(Timer) /\ x \in Timer /\ x.id = added + 1 /\ added \in Nat
  BY TimerAt DEF TimerType, Timer
<1>2. s \in Seq(Timer) /\ Len(s) = size + 1 /\ s[size + 1] = x
      /\ \A i \in 1..size : s[i] = timers[i]
  <2>1. s = Append(timers, x)
    OBVIOUS
  <2> HIDE DEF x, s
  <2>2. QED
    BY <1>1, <2>1, AppendProperties
<1> HIDE DEF size, s, x
<1>3. \A i \in 1..(size + 1) : i \in 1..size \/ i = size + 1
  BY <1>1
<1>4. size + 1 \in 1..(size + 1) /\ \A i \in 1..size : i \in 1..(size + 1)
  BY <1>1
<1>5. D!Pending = {timers[i].id : i \in 1..size} /\ D!Pending' = {s[i].id : i \in 1..(size + 1)}
  BY <1>2 DEF D!Pending, size, s
<1>6. D!Pending' = D!Pending \cup {added + 1}
  BY <1>1, <1>2, <1>3, <1>4, <1>5
<1>7. D!Pending \cap fired = {} /\ D!Pending \cup fired = 1..added
  BY DEF TimersOnce
<1>8. added + 1 \notin 1..added /\ 1..(added + 1) = (1..added) \cup {added + 1}
  BY <1>1
<1>9. D!Pending' \cap fired = {} /\ D!Pending' \cup fired = 1..(added + 1)
  BY <1>6, <1>7, <1>8
<1>10. ASSUME NEW i \in 1..(size + 1), NEW k \in 1..(size + 1), s[i].id = s[k].id PROVE i = k
  <2>1. \A a, b \in 1..size : timers[a].id = timers[b].id => a = b
    BY DEF TimersOnce, size
  <2>2. \A a \in 1..size : timers[a].id # added + 1
    BY <1>5, <1>7, <1>8
  <2>3. QED
    BY <1>1, <1>2, <1>3, <1>10, <2>1, <2>2
<1>11. TimersOnce'
  BY <1>2, <1>9, <1>10 DEF TimersOnce, size, s
<1>12. QED
  BY <1>2, <1>11 DEF size, s

\* The first is taken out and the last takes its place.
LEMMA FirstTaken ==
  ASSUME TimerType, TimersOnce, timers # <<>>,
         timers' = D!WithoutFirst(timers), fired' = fired \cup {timers[1].id}, added' = added
  PROVE  /\ timers' \in Seq(Timer) /\ Len(timers') = Len(timers) - 1 /\ Len(timers) >= 1
         /\ \A i \in 2..(Len(timers) - 1) : timers'[i] = timers[i]
         /\ TimersOnce'
<1> DEFINE size == Len(timers)
           s == timers'
<1>1. size \in Nat /\ timers \in Seq(Timer) /\ size >= 1 /\ \A i \in 1..size : timers[i] \in Timer
  BY TimerAt, EmptySeq DEF TimerType
<1> HIDE DEF size
<1>2. /\ s \in Seq(Timer) /\ Len(s) = size - 1
      /\ size > 1 => s[1] = timers[size]
      /\ \A i \in 2..(size - 1) : s[i] = timers[i]
  <2>1. CASE size = 1
    <3>1. s = <<>>
      BY <2>1 DEF D!WithoutFirst, size
    <3>2. QED
      BY <2>1, <3>1
  <2>2. CASE size > 1
    <3>1. s = <<timers[size]>> \o SubSeq(timers, 2, size - 1)
      BY <2>2 DEF D!WithoutFirst, size
    <3> DEFINE rest == SubSeq(timers, 2, size - 1)
    <3>2. /\ rest \in Seq(Timer) /\ Len(rest) = size - 2
          /\ \A i \in 1..(size - 2) : rest[i] = timers[i + 1]
      <4>1. \A i \in 2..(size - 1) : timers[i] \in Timer
        BY <1>1
      <4>2. 2 \in Int /\ size - 1 \in Int
        BY <1>1
      <4>3. /\ rest \in Seq(Timer) /\ Len(rest) = IF 2 <= size - 1 THEN (size - 1) - 2 + 1 ELSE 0
            /\ \A i \in 1..((size - 1) - 2 + 1) : rest[i] = timers[2 + i - 1]
        BY <4>1, <4>2, SubSeqProperties
      <4> HIDE DEF rest
      <4>4. (size - 1) - 2 + 1 = size - 2 /\ (2 > size - 1 => size - 2 = 0)
        BY <1>1, <2>2
      <4>5. \A i \in 1..(size - 2) : 2 + i - 1 = i + 1
        OBVIOUS
      <4>6. Len(rest) = size - 2
        BY <1>1, <2>2, <4>3, <4>4
      <4>7. \A i \in 1..(size - 2) : rest[i] = timers[i + 1]
        <5>1. ASSUME NEW i \in 1..(size - 2) PROVE rest[i] = timers[i + 1]
          <6>1. i \in 1..((size - 1) - 2 + 1)
            BY <4>4
          <6>2. rest[i] = timers[2 + i - 1]
            BY <4>3, <6>1
          <6>3. QED
            BY <4>5, <6>2
        <5>2. QED
          BY <5>1
      <4>8. QED
        BY <4>3, <4>6, <4>7
    <3>3. <<timers[size]>> \in Seq(Timer) /\ Len(<<timers[size]>>) = 1
          /\ <<timers[size]>>[1] = timers[size]
      BY <1>1
    <3> HIDE DEF rest
    <3>4. s = <<timers[size]>> \o rest
      BY <3>1 DEF rest
    <3> DEFINE one == <<timers[size]>>
    <3>5. one \in Seq(Timer) /\ Len(one) = 1 /\ one[1] = timers[size] /\ s = one \o rest
      BY <3>3, <3>4
    <3> HIDE DEF one, s
    <3>9. /\ one \o rest \in Seq(Timer) /\ Len(one \o rest) = Len(one) + Len(rest)
          /\ \A i \in 1..(Len(one) + Len(rest)) :
               (one \o rest)[i] = IF i <= Len(one) THEN one[i] ELSE rest[i - Len(one)]
      <4>1. one \in Seq(Timer) /\ rest \in Seq(Timer)
        BY <3>2, <3>5
      <4>2. QED
        BY <4>1, ConcatProperties
    <3>6. s \in Seq(Timer) /\ Len(s) = 1 + (size - 2)
          /\ \A i \in 1..(1 + (size - 2)) : s[i] = IF i <= 1 THEN one[i] ELSE rest[i - 1]
      BY <3>2, <3>5, <3>9
    <3>7. \A i \in 2..(size - 1) : s[i] = timers[i]
      <4>1. ASSUME NEW i \in 2..(size - 1) PROVE s[i] = timers[i]
        <5>3. i \in 1..(1 + (size - 2)) /\ ~(i <= 1)
          BY <1>1, <2>2
        <5>1. s[i] = rest[i - 1] /\ i - 1 \in 1..(size - 2) /\ (i - 1) + 1 = i
          BY <1>1, <2>2, <3>6, <5>3
        <5>2. QED
          BY <3>2, <5>1
      <4>2. QED
        BY <4>1
    <3>8. QED
      BY <1>1, <2>2, <3>5, <3>6, <3>7
  <2>3. QED
    BY <1>1, <2>1, <2>2
<1> HIDE DEF s
<1>3. \A x : (\E i \in 1..(size - 1) : s[i].id = x) <=> (\E i \in 2..size : timers[i].id = x)
  <2>1. ASSUME NEW i \in 1..(size - 1) PROVE \E k \in 2..size : timers[k].id = s[i].id
    <3>1. CASE i = 1
      BY <1>1, <1>2, <3>1
    <3>2. CASE i # 1
      BY <1>1, <1>2, <3>2
    <3>3. QED
      BY <3>1, <3>2
  <2>2. ASSUME NEW k \in 2..size PROVE \E i \in 1..(size - 1) : timers[k].id = s[i].id
    <3>1. CASE k = size
      BY <1>1, <1>2, <3>1
    <3>2. CASE k # size
      BY <1>1, <1>2, <3>2
    <3>3. QED
      BY <3>1, <3>2
  <2>3. QED
    BY <2>1, <2>2
<1>4. \A a, b \in 1..size : timers[a].id = timers[b].id => a = b
  BY DEF TimersOnce, size
<1>5. D!Pending = {timers[i].id : i \in 1..size} /\ D!Pending' = {s[i].id : i \in 1..(size - 1)}
  BY <1>2 DEF D!Pending, size, s
<1>6. D!Pending' = D!Pending \ {timers[1].id} /\ timers[1].id \in D!Pending
  <2>1. \A x : x \in D!Pending <=> \E i \in 1..size : timers[i].id = x
    BY <1>5
  <2>2. \A x : x \in D!Pending' <=> \E i \in 2..size : timers[i].id = x
    BY <1>3, <1>5
  <2>3. \A i \in 2..size : i \in 1..size /\ timers[i].id # timers[1].id
    BY <1>1, <1>4
  <2>4. \A i \in 1..size : i = 1 \/ i \in 2..size
    BY <1>1
  <2>5. 1 \in 1..size
    BY <1>1
  <2>6. QED
    BY <2>1, <2>2, <2>3, <2>4, <2>5
<1>7. D!Pending \cap fired = {} /\ D!Pending \cup fired = 1..added
  BY DEF TimersOnce
<1>8. D!Pending' \cap fired' = {} /\ D!Pending' \cup fired' = 1..added
  BY <1>6, <1>7
<1>9. ASSUME NEW i \in 1..(size - 1), NEW k \in 1..(size - 1), s[i].id = s[k].id PROVE i = k
  <2>1. \A x \in 2..(size - 1) : s[x] = timers[x] /\ x \in 1..size /\ x # size
    BY <1>1, <1>2
  <2>2. size > 1 /\ s[1] = timers[size]
    BY <1>1, <1>2
  <2>3. CASE i = 1 /\ k # 1
    BY <1>1, <1>4, <1>9, <2>1, <2>2, <2>3
  <2>4. CASE i # 1 /\ k = 1
    BY <1>1, <1>4, <1>9, <2>1, <2>2, <2>4
  <2>5. CASE i # 1 /\ k # 1
    BY <1>1, <1>4, <1>9, <2>1, <2>5
  <2>6. QED
    BY <2>3, <2>4, <2>5
<1>10. TimersOnce'
  BY <1>2, <1>8, <1>9 DEF TimersOnce, size, s
<1>11. QED
  BY <1>1, <1>2, <1>10 DEF size, s
-----------------------------------------------------------------------------
(* The loops. *)

LEMMA RemBetween ==
  ASSUME TimerType, NEW i \in 1..Len(timers)
  PROVE  D!RemWait(timers[i], now) \in Nat
BY TimerAt, RemType DEF TimerType

\* A timer that is due before its parent changes places with it.
LEMMA RiseStep ==
  ASSUME TimerType, TimersOnce, hole \in 1..Len(timers), Rising, hole > 1,
         D!Sooner(hole, hole \div 2), D!Sift(hole \div 2),
         fired' = fired, added' = added, now' = now
  PROVE  /\ timers' \in Seq(Timer) /\ Len(timers') = Len(timers) /\ hole' \in 1..Len(timers')
         /\ TimersOnce' /\ Rising'
<1> DEFINE size == Len(timers)
           h == hole
           p == hole \div 2
           r(i) == D!RemWait(timers[i], now)
           u(i) == D!RemWait(timers'[i], now)
<1>1. size \in Nat /\ h \in 2..size /\ p \in 1..size /\ p < h /\ hole' = p
  BY TimerAt, Parent DEF D!Sift
<1>2. /\ timers' \in Seq(Timer) /\ Len(timers') = size
      /\ timers'[h] = timers[p] /\ timers'[p] = timers[h]
      /\ \A i \in 1..size : i # h /\ i # p => timers'[i] = timers[i]
      /\ TimersOnce'
  BY <1>1, SwapKeeps
<1>3. \A i \in 1..size : r(i) \in Nat
  BY RemBetween
<1>4. u(h) = r(p) /\ u(p) = r(h) /\ \A i \in 1..size : i # h /\ i # p => u(i) = r(i)
  BY <1>2
<1>5. r(h) < r(p)
  BY DEF D!Sooner
<1>6. \A i \in 2..size : i # h => r(i \div 2) <= r(i)
  BY DEF Rising, Before
<1>7. \A i \in 2..size : i \div 2 = h => r(p) <= r(i)
  BY <1>1 DEF Rising, Across, Before
<1>8. p = h \div 2
  OBVIOUS
<1> HIDE DEF size, h, p, r, u
<1>9. ASSUME NEW i \in 2..size, i # p PROVE u(i \div 2) <= u(i)
  <2>1. i \in 1..size /\ i \div 2 \in 1..size /\ i \div 2 # i
    BY <1>1, Parent
  <2>2. CASE i = h
    BY <1>1, <1>3, <1>4, <1>5, <1>8, <2>2
  <2>3. CASE i # h /\ i \div 2 = p
    BY <1>1, <1>3, <1>4, <1>5, <1>6, <1>9, <2>1, <2>3
  <2>4. CASE i # h /\ i \div 2 = h
    BY <1>1, <1>3, <1>4, <1>7, <1>9, <2>1, <2>4
  <2>5. CASE i # h /\ i \div 2 # h /\ i \div 2 # p
    BY <1>4, <1>6, <1>9, <2>1, <2>5
  <2>6. QED
    BY <2>2, <2>3, <2>4, <2>5
<1>10. ASSUME p > 1, NEW i \in 2..size, i \div 2 = p PROVE u(p \div 2) <= u(i)
  <2>1. p \in 2..size /\ p # h /\ p \div 2 \in 1..size /\ p \div 2 < p /\ i \in 1..size /\ i # p
    BY <1>1, <1>10, Parent
  <2>2. r(p \div 2) <= r(p) /\ u(p \div 2) = r(p \div 2)
    BY <1>1, <1>4, <1>6, <2>1
  <2>3. CASE i = h
    BY <1>4, <2>2, <2>3
  <2>4. CASE i # h
    <3>1. r(p) <= r(i) /\ u(i) = r(i)
      BY <1>4, <1>6, <1>10, <2>1, <2>4
    <3>2. QED
      BY <1>1, <1>3, <2>1, <2>2, <3>1
  <2>5. QED
    BY <2>3, <2>4
<1>11. \A i \in 2..size : i # p => u(i \div 2) <= u(i)
  BY <1>9
<1>12. p > 1 => \A i \in 2..size : i \div 2 = p => u(p \div 2) <= u(i)
  BY <1>10
<1>13. Rising'
  BY <1>1, <1>2, <1>11, <1>12 DEF Rising, Across, Before, u, size
<1>14. QED
  BY <1>1, <1>2, <1>13 DEF size

\* The least child that is due before the timer at the hole changes places with it.
LEMMA SinkStep ==
  ASSUME TimerType, TimersOnce, hole \in 1..Len(timers), Sinking, D!Left <= Len(timers),
         D!Sooner(D!Least, hole), D!Sift(D!Least),
         fired' = fired, added' = added, now' = now
  PROVE  /\ timers' \in Seq(Timer) /\ Len(timers') = Len(timers) /\ hole' \in 1..Len(timers')
         /\ TimersOnce' /\ Sinking'
<1> DEFINE size == Len(timers)
           h == hole
           m == D!Least
           r(i) == D!RemWait(timers[i], now)
           u(i) == D!RemWait(timers'[i], now)
<1>1. /\ size \in Nat /\ h \in 1..size /\ m \in 2..size /\ m \div 2 = h /\ h < m /\ hole' = m
  BY TimerAt, Parent DEF D!Sift, D!Least, D!Left
<1>2. /\ timers' \in Seq(Timer) /\ Len(timers') = size
      /\ timers'[h] = timers[m] /\ timers'[m] = timers[h]
      /\ \A i \in 1..size : i # h /\ i # m => timers'[i] = timers[i]
      /\ TimersOnce'
  BY <1>1, SwapKeeps
<1>3. \A i \in 1..size : r(i) \in Nat
  BY RemBetween
<1>4. u(h) = r(m) /\ u(m) = r(h) /\ \A i \in 1..size : i # h /\ i # m => u(i) = r(i)
  BY <1>2
<1>5. r(m) < r(h)
  BY DEF D!Sooner
<1>6. \A i \in 2..size : i \div 2 # h => r(i \div 2) <= r(i)
  BY DEF Sinking, Before
<1>7. h > 1 => \A i \in 2..size : i \div 2 = h => r(h \div 2) <= r(i)
  BY DEF Sinking, Across, Before
<1>8. ASSUME NEW i \in 2..size, i \div 2 = h PROVE r(m) <= r(i)
  <2>1. i = D!Left \/ i = D!Left + 1
    BY <1>1, <1>8, Parent DEF D!Left
  <2>2. D!Left \in 1..size /\ (i = D!Left + 1 => D!Left < size /\ D!Left + 1 \in 1..size)
    BY <1>1, <1>8, <2>1 DEF D!Left
  <2>3. QED
    BY <1>1, <1>3, <2>1, <2>2 DEF D!Least, D!Sooner
<1> HIDE DEF size, h, m, r, u
<1>9. ASSUME NEW i \in 2..size, i \div 2 # m PROVE u(i \div 2) <= u(i)
  <2>1. i \in 1..size /\ i \div 2 \in 1..size /\ i \div 2 # i
    BY <1>1, Parent
  <2>2. CASE i = m
    BY <1>1, <1>3, <1>4, <1>5, <2>2
  <2>3. CASE i # m /\ i \div 2 = h
    BY <1>1, <1>3, <1>4, <1>8, <2>1, <2>3
  <2>4. CASE i = h
    <3>1. h > 1 /\ r(h \div 2) <= r(m)
      BY <1>1, <1>7, <2>4
    <3>2. u(h \div 2) = r(h \div 2)
      BY <1>1, <1>4, <1>9, <2>1, <2>4
    <3>3. QED
      BY <1>4, <2>4, <3>1, <3>2
  <2>5. CASE i # m /\ i # h /\ i \div 2 # h
    BY <1>4, <1>6, <1>9, <2>1, <2>5
  <2>6. QED
    BY <2>2, <2>3, <2>4, <2>5
<1>10. ASSUME NEW i \in 2..size, i \div 2 = m PROVE u(m \div 2) <= u(i)
  <2>1. i \in 1..size /\ i # m /\ i # h
    BY <1>1, <1>10, Parent
  <2>2. r(m) <= r(i)
    BY <1>1, <1>6, <1>10
  <2>3. QED
    BY <1>1, <1>4, <2>1, <2>2
<1>11. \A i \in 2..size : i \div 2 # m => u(i \div 2) <= u(i)
  BY <1>9
<1>12. m > 1 => \A i \in 2..size : i \div 2 = m => u(m \div 2) <= u(i)
  BY <1>10
<1>13. Sinking'
  BY <1>1, <1>2, <1>11, <1>12 DEF Sinking, Across, Before, u, size
<1>14. QED
  BY <1>1, <1>2, <1>13 DEF size

\* When a loop ends, everything is in order.
LEMMA RiseEnds ==
  ASSUME TimerType, hole \in 1..Len(timers), Rising, ~(hole > 1 /\ D!Sooner(hole, hole \div 2))
  PROVE  \A i \in 2..Len(timers) : Before(i \div 2, i, tick)
<1> SUFFICES ASSUME NEW i \in 2..Len(timers) PROVE Before(i \div 2, i, tick)
  OBVIOUS
<1>1. now \in Nat /\ tick \in Nat /\ now <= tick
  BY DEF TimerType
<1>2. Before(i \div 2, i, now)
  <2>1. CASE i # hole
    BY <2>1 DEF Rising
  <2>2. CASE i = hole
    <3>1. hole > 1 /\ hole \div 2 \in 1..Len(timers)
      BY <2>2, TimerAt, Parent
    <3>2. D!RemWait(timers[hole], now) \in Nat /\ D!RemWait(timers[hole \div 2], now) \in Nat
      BY <3>1, RemBetween
    <3>3. QED
      BY <2>2, <3>1, <3>2 DEF D!Sooner, Before
  <2>3. QED
    BY <2>1, <2>2
<1>3. QED
  BY <1>1, <1>2, OrderLater

LEMMA SinkEnds ==
  ASSUME TimerType, hole \in 1..Len(timers), Sinking,
         ~(D!Left <= Len(timers) /\ D!Sooner(D!Least, hole))
  PROVE  \A i \in 2..Len(timers) : Before(i \div 2, i, tick)
<1> SUFFICES ASSUME NEW i \in 2..Len(timers) PROVE Before(i \div 2, i, tick)
  OBVIOUS
<1>1. now \in Nat /\ tick \in Nat /\ now <= tick
  BY DEF TimerType
<1>2. Before(i \div 2, i, now)
  <2>1. CASE i \div 2 # hole
    BY <2>1 DEF Sinking
  <2>2. CASE i \div 2 = hole
    <3>1. hole \in Nat /\ Len(timers) \in Nat /\ (i = D!Left \/ i = D!Left + 1)
      BY <2>2, TimerAt, Parent DEF D!Left
    <3>2. D!Left \in 1..Len(timers) /\ (i = D!Left + 1 => D!Left < Len(timers) /\ D!Left + 1 \in 1..Len(timers))
      BY <3>1 DEF D!Left
    <3>3. /\ D!RemWait(timers[D!Left], now) \in Nat /\ D!RemWait(timers[hole], now) \in Nat
          /\ D!RemWait(timers[i], now) \in Nat
      BY <3>1, <3>2, RemBetween
    <3>4. ~D!Sooner(D!Least, hole)
      BY <3>2
    <3>5. D!Least \in {D!Left, D!Left + 1}
          /\ ~(D!RemWait(timers[D!Least], now) < D!RemWait(timers[hole], now))
      BY <3>4 DEF D!Sooner, D!Least
    <3>6. CASE i = D!Left
      <4>1. D!Least = i \/ (D!Left < Len(timers) /\ D!Sooner(D!Left + 1, D!Left) /\ D!Least = D!Left + 1)
        BY <3>6 DEF D!Least
      <4>2. D!Left < Len(timers) => D!Left + 1 \in 1..Len(timers)
        BY <3>1, <3>2
      <4>3. D!Left < Len(timers) => D!RemWait(timers[D!Left + 1], now) \in Nat
        BY <4>2, RemBetween
      <4>4. D!RemWait(timers[hole], now) <= D!RemWait(timers[i], now)
        BY <3>3, <3>5, <3>6, <4>1, <4>3 DEF D!Sooner
      <4>5. QED
        BY <2>2, <4>4 DEF Before
    <3>7. CASE i = D!Left + 1
      <4>1. D!Least = i \/ (~D!Sooner(i, D!Left) /\ D!Least = D!Left)
        BY <3>2, <3>7 DEF D!Least
      <4>2. D!RemWait(timers[hole], now) <= D!RemWait(timers[i], now)
        BY <3>3, <3>5, <4>1 DEF D!Sooner
      <4>3. QED
        BY <2>2, <4>2 DEF Before
    <3>8. QED
      BY <3>1, <3>6, <3>7
  <2>3. QED
    BY <2>1, <2>2
<1>3. QED
  BY <1>1, <1>2, OrderLater
-----------------------------------------------------------------------------
(* The steps. *)

\* A step that leaves the heap as it is.
LEMMA HeapKept ==
  ASSUME timers' = timers, fired' = fired, added' = added, TimersOnce
  PROVE  TimersOnce'
BY DEF TimersOnce, D!Pending

LEMMA DriverInit == D!Init => HeapInv
<1> SUFFICES ASSUME D!Init PROVE HeapInv
  OBVIOUS
<1>1. Len(timers) = 0 /\ timers = <<>>
  BY DEF D!Init
<1>2. TimerType
  <2>1. /\ tick = 0 /\ added = 0 /\ nested \in BOOLEAN /\ dpc = "idle" /\ caller = "idle"
        /\ hole = 1 /\ now = 0
    BY DEF D!Init
  <2>2. timers \in Seq(Timer)
    <3>1. <<>> \in Seq(Timer)
      BY EmptySeq
    <3>2. QED
      BY <1>1, <3>1
  <2>3. dpc \in DriverPlaces /\ caller \in {"idle", "callback"} /\ dpc \notin {"up", "down", "pushed"}
    BY <2>1 DEF DriverPlaces
  <2>4. QED
    BY <2>1, <2>2, <2>3 DEF TimerType
<1>3. D!Pending = {}
  BY <1>1 DEF D!Pending
<1>4. TimersOnce
  BY <1>1, <1>3 DEF D!Init, TimersOnce
<1>5. OrderInv
  BY <1>1 DEF D!Init, OrderInv
<1>6. QED
  BY <1>2, <1>4, <1>5 DEF HeapInv

LEMMA TickStep ==
  ASSUME HeapInv, D!Tick
  PROVE  HeapInv'
<1>1. /\ tick \in Nat /\ tick' = tick + 1 /\ timers' = timers /\ added' = added /\ fired' = fired
      /\ dpc' = dpc /\ nested' = nested /\ caller' = caller /\ hole' = hole /\ now' = now
  BY DEF HeapInv, TimerType, D!Tick, D!sift
<1>2. TimerType /\ TimersOnce
  BY DEF HeapInv
<1>3. TimerType'
  BY <1>1, <1>2 DEF TimerType
<1>4. TimersOnce'
  BY <1>1, <1>2, HeapKept
<1>5. ASSUME NEW i \in 2..Len(timers), Before(i \div 2, i, tick) PROVE Before(i \div 2, i, tick + 1)
  BY <1>1, <1>2, <1>5, OrderLater
<1>6. \A i, at : Before(i \div 2, i, at)' <=> Before(i \div 2, i, at)
  BY <1>1 DEF Before
<1>7. ASSUME ~nested PROVE OrderInv'
  <2>1. OrderInv
    BY <1>7 DEF HeapInv
  <2>2. (Rising' <=> Rising) /\ (Sinking' <=> Sinking)
    BY <1>1 DEF Rising, Sinking, Across, Before
  <2>3. dpc \in {"idle", "loop"} => \A i \in 2..Len(timers) : Before(i \div 2, i, tick)'
    <3>1. ASSUME dpc \in {"idle", "loop"}, NEW i \in 2..Len(timers)
          PROVE  D!RemWait(timers[i \div 2], tick + 1) <= D!RemWait(timers[i], tick + 1)
      BY <1>5, <2>1, <3>1 DEF OrderInv, Before
    <3>2. QED
      BY <1>1, <3>1 DEF Before
  <2>4. dpc = "pushed" => \A i \in 2..(Len(timers) - 1) : Before(i \div 2, i, tick)'
    <3>1. ASSUME dpc = "pushed", NEW i \in 2..(Len(timers) - 1)
          PROVE  D!RemWait(timers[i \div 2], tick + 1) <= D!RemWait(timers[i], tick + 1)
      <4>1. i \in 2..Len(timers)
        BY <1>2, TimerAt
      <4>2. Before(i \div 2, i, tick)
        BY <2>1, <3>1 DEF OrderInv
      <4>3. QED
        BY <1>5, <4>1, <4>2 DEF Before
    <3>2. QED
      BY <1>1, <3>1 DEF Before
  <2>5. dpc = "callback" => \A i \in 4..Len(timers) : Before(i \div 2, i, tick)'
    <3>1. ASSUME dpc = "callback", NEW i \in 4..Len(timers)
          PROVE  D!RemWait(timers[i \div 2], tick + 1) <= D!RemWait(timers[i], tick + 1)
      <4>1. i \in 2..Len(timers)
        BY <1>2, TimerAt
      <4>2. Before(i \div 2, i, tick)
        BY <2>1, <3>1 DEF OrderInv
      <4>3. QED
        BY <1>5, <4>1, <4>2 DEF Before
    <3>2. QED
      BY <1>1, <3>1 DEF Before
  <2>6. QED
    BY <1>1, <2>1, <2>2, <2>3, <2>4, <2>5 DEF OrderInv
<1>8. QED
  BY <1>1, <1>3, <1>4, <1>7 DEF HeapInv

LEMMA AddStep ==
  ASSUME HeapInv, NEW delay \in Delays, D!AddTimer(delay)
  PROVE  HeapInv'
<1>1. TimerType /\ TimersOnce /\ delay \in Nat
  BY DEF HeapInv
<1>2. /\ dpc \in {"idle", "callback"} /\ dpc' = "pushed" /\ caller' = dpc
      /\ timers' = Append(timers, [id |-> added + 1, due |-> tick + delay])
      /\ added' = added + 1 /\ fired' = fired /\ tick' = tick /\ hole' = hole /\ now' = now
      /\ nested' = (nested \/ (dpc = "callback" /\ timers # <<>>))
  BY DEF D!AddTimer
<1>3. /\ timers' \in Seq(Timer) /\ Len(timers') = Len(timers) + 1 /\ TimersOnce'
      /\ \A i \in 1..Len(timers) : timers'[i] = timers[i]
  BY <1>1, <1>2, AppendKeeps
<1>4. TimerType'
  <2>1. Len(timers') >= 1
    BY <1>1, <1>3, TimerAt
  <2>2. QED
    BY <1>1, <1>2, <1>3, <2>1 DEF TimerType, DriverPlaces
<1>5. ASSUME ~nested' PROVE OrderInv'
  <2>1. OrderInv /\ (dpc = "callback" => timers = <<>>)
    BY <1>2, <1>5 DEF HeapInv
  <2>2. Len(timers) \in Nat
    BY <1>1, TimerAt
  <2>3. ASSUME NEW i \in 2..(Len(timers') - 1) PROVE Before(i \div 2, i, tick)'
    <3>1. i \in 2..Len(timers) /\ dpc = "idle"
      BY <1>2, <1>3, <2>1, <2>2
    <3>2. Before(i \div 2, i, tick)
      BY <2>1, <3>1 DEF OrderInv
    <3>3. i \in 1..Len(timers) /\ i \div 2 \in 1..Len(timers)
      BY <2>2, <3>1, Parent
    <3>4. QED
      BY <1>2, <1>3, <3>2, <3>3 DEF Before
  <2>4. dpc = "callback" => Len(timers') = 1
    BY <1>3, <2>1
  <2>5. QED
    BY <1>2, <2>3, <2>4 DEF OrderInv
<1>6. QED
  BY <1>3, <1>4, <1>5 DEF HeapInv

LEMMA UpBeginsStep ==
  ASSUME HeapInv, D!HeapUpBegins
  PROVE  HeapInv'
<1>1. TimerType /\ TimersOnce
  BY DEF HeapInv
<1>2. /\ dpc = "pushed" /\ dpc' = "up" /\ now' = tick /\ hole' = Len(timers)
      /\ timers' = timers /\ added' = added /\ fired' = fired /\ tick' = tick
      /\ nested' = nested /\ caller' = caller
  BY DEF D!HeapUpBegins
<1>3. TimersOnce'
  BY <1>1, <1>2, HeapKept
<1>4. Len(timers) \in Nat /\ Len(timers) >= 1
  BY <1>1, <1>2, TimerAt DEF TimerType
<1>5. TimerType'
  BY <1>1, <1>2, <1>4 DEF TimerType, DriverPlaces
<1>6. ASSUME ~nested PROVE OrderInv'
  <2>1. OrderInv
    BY <1>6 DEF HeapInv
  <2>2. ASSUME NEW i \in 2..Len(timers), i # Len(timers) PROVE Before(i \div 2, i, tick)
    BY <1>2, <1>4, <2>1, <2>2 DEF OrderInv
  <2>3. ASSUME NEW i \in 2..Len(timers) PROVE i \div 2 # Len(timers)
    BY <1>4, Parent
  <2>4. Rising'
    BY <1>2, <2>2, <2>3 DEF Rising, Across, Before
  <2>5. QED
    BY <1>2, <2>1, <2>4 DEF OrderInv
<1>7. QED
  BY <1>2, <1>3, <1>5, <1>6 DEF HeapInv

LEMMA UpStep ==
  ASSUME HeapInv, D!HeapUp
  PROVE  HeapInv'
<1>1. TimerType /\ TimersOnce /\ dpc = "up" /\ hole \in 1..Len(timers)
  BY DEF HeapInv, TimerType, D!HeapUp
<1>2. /\ tick' = tick /\ added' = added /\ fired' = fired /\ nested' = nested
      /\ caller' = caller /\ now' = now
  BY DEF D!HeapUp
<1>3. CASE hole > 1 /\ D!Sooner(hole, hole \div 2)
  <2>1. D!Sift(hole \div 2) /\ dpc' = dpc /\ hole \div 2 \in 1..Len(timers)
    BY <1>1, <1>3, TimerAt, Parent DEF D!HeapUp
  <2>2. timers' \in Seq(Timer) /\ Len(timers') = Len(timers) /\ TimersOnce' /\ hole' = hole \div 2
    BY <1>1, <1>2, <2>1, SwapKeeps DEF D!Sift
  <2>3. TimerType'
    BY <1>1, <1>2, <2>1, <2>2 DEF TimerType
  <2>4. ASSUME ~nested PROVE OrderInv'
    <3>1. OrderInv
      BY <2>4 DEF HeapInv
    <3>2. Rising
      BY <1>1, <3>1 DEF OrderInv
    <3>3. Rising'
      BY <1>1, <1>2, <1>3, <2>1, <3>2, RiseStep
    <3>4. QED
      BY <1>1, <1>2, <2>1, <2>2, <3>1, <3>3 DEF OrderInv
  <2>5. QED
    BY <1>2, <2>2, <2>3, <2>4 DEF HeapInv
<1>4. CASE ~(hole > 1 /\ D!Sooner(hole, hole \div 2))
  <2>1. dpc' = caller /\ timers' = timers /\ hole' = hole
    BY <1>4 DEF D!HeapUp
  <2>2. TimersOnce'
    BY <1>1, <1>2, <2>1, HeapKept
  <2>3. TimerType' /\ caller \in {"idle", "callback"}
    BY <1>1, <1>2, <2>1 DEF TimerType, DriverPlaces
  <2>4. ASSUME ~nested PROVE OrderInv'
    <3>1. OrderInv
      BY <2>4 DEF HeapInv
    <3>2. Rising /\ (caller = "callback" => Len(timers) = 1)
      BY <1>1, <3>1 DEF OrderInv
    <3>3. \A i \in 2..Len(timers) : Before(i \div 2, i, tick)
      BY <1>1, <1>4, <3>2, RiseEnds
    <3>4. \A i \in 2..Len(timers') : Before(i \div 2, i, tick)'
      BY <1>2, <2>1, <3>3 DEF Before
    <3>5. dpc' = "callback" => Len(timers') = 1
      BY <2>1, <3>2
    <3>6. QED
      BY <2>1, <2>3, <3>4, <3>5 DEF OrderInv
  <2>5. QED
    BY <1>2, <2>2, <2>3, <2>4 DEF HeapInv
<1>5. QED
  BY <1>3, <1>4

LEMMA DownStep ==
  ASSUME HeapInv, D!HeapDown
  PROVE  HeapInv'
<1>1. TimerType /\ TimersOnce /\ dpc = "down" /\ hole \in 1..Len(timers)
  BY DEF HeapInv, TimerType, D!HeapDown
<1>2. /\ tick' = tick /\ added' = added /\ fired' = fired /\ nested' = nested
      /\ caller' = caller /\ now' = now
  BY DEF D!HeapDown
<1>3. CASE D!Left <= Len(timers) /\ D!Sooner(D!Least, hole)
  <2>1. D!Sift(D!Least) /\ dpc' = dpc
    BY <1>3 DEF D!HeapDown
  <2>2. D!Least \in 1..Len(timers)
    BY <1>1, <1>3, TimerAt DEF D!Least, D!Left
  <2>3. timers' \in Seq(Timer) /\ Len(timers') = Len(timers) /\ TimersOnce' /\ hole' = D!Least
    BY <1>1, <1>2, <2>1, <2>2, SwapKeeps DEF D!Sift
  <2>4. TimerType'
    BY <1>1, <1>2, <2>1, <2>2, <2>3 DEF TimerType
  <2>5. ASSUME ~nested PROVE OrderInv'
    <3>1. Sinking
      BY <1>1, <2>5 DEF HeapInv, OrderInv
    <3>2. Sinking'
      BY <1>1, <1>2, <1>3, <2>1, <3>1, SinkStep
    <3>3. QED
      BY <1>1, <2>1, <3>2 DEF OrderInv
  <2>6. QED
    BY <1>2, <2>3, <2>4, <2>5 DEF HeapInv
<1>4. CASE ~(D!Left <= Len(timers) /\ D!Sooner(D!Least, hole))
  <2>1. dpc' = "loop" /\ timers' = timers /\ hole' = hole
    BY <1>4 DEF D!HeapDown
  <2>2. TimersOnce'
    BY <1>1, <1>2, <2>1, HeapKept
  <2>3. TimerType'
    BY <1>1, <1>2, <2>1 DEF TimerType, DriverPlaces
  <2>4. ASSUME ~nested PROVE OrderInv'
    <3>1. Sinking
      BY <1>1, <2>4 DEF HeapInv, OrderInv
    <3>2. \A i \in 2..Len(timers) : Before(i \div 2, i, tick)
      BY <1>1, <1>4, <3>1, SinkEnds
    <3>3. \A i \in 2..Len(timers') : Before(i \div 2, i, tick)'
      BY <1>2, <2>1, <3>2 DEF Before
    <3>4. QED
      BY <2>1, <3>3 DEF OrderInv
  <2>5. QED
    BY <1>2, <2>2, <2>3, <2>4 DEF HeapInv
<1>5. QED
  BY <1>3, <1>4

LEMMA FireStep ==
  ASSUME HeapInv, D!PollFire
  PROVE  HeapInv'
<1>1. TimerType /\ TimersOnce /\ dpc = "loop" /\ timers # <<>>
  BY DEF HeapInv, D!PollFire, D!Due
<1>2. /\ timers' = D!WithoutFirst(timers) /\ fired' = fired \cup {timers[1].id} /\ dpc' = "callback"
      /\ tick' = tick /\ added' = added /\ nested' = nested
      /\ caller' = caller /\ hole' = hole /\ now' = now
  BY DEF D!PollFire, D!sift
<1>3. /\ timers' \in Seq(Timer) /\ Len(timers') = Len(timers) - 1 /\ Len(timers) >= 1
      /\ \A i \in 2..(Len(timers) - 1) : timers'[i] = timers[i]
      /\ TimersOnce'
  BY <1>1, <1>2, FirstTaken
<1>4. TimerType'
  BY <1>1, <1>2, <1>3 DEF TimerType, DriverPlaces
<1>5. ASSUME ~nested PROVE OrderInv'
  <2>1. \A i \in 2..Len(timers) : Before(i \div 2, i, tick)
    BY <1>1, <1>5 DEF HeapInv, OrderInv
  <2>2. Len(timers) \in Nat
    BY <1>1, TimerAt
  <2>3. ASSUME NEW i \in 4..Len(timers') PROVE Before(i \div 2, i, tick)'
    <3>1. i \in 2..Len(timers) /\ i \in 2..(Len(timers) - 1) /\ i \div 2 \in 2..(Len(timers) - 1)
      BY <1>3, <2>2, Parent
    <3>2. timers'[i] = timers[i] /\ timers'[i \div 2] = timers[i \div 2]
      BY <1>3, <3>1
    <3>3. QED
      BY <1>2, <2>1, <3>1, <3>2 DEF Before
  <2>4. QED
    BY <1>2, <2>3 DEF OrderInv
<1>6. QED
  BY <1>2, <1>3, <1>4, <1>5 DEF HeapInv

\* The steps of poll that leave the heap as it is.
LEMMA PollStep ==
  ASSUME HeapInv, D!PollPort \/ D!PollDown \/ D!PollEnds
  PROVE  HeapInv'
<1>1. TimerType /\ TimersOnce
  BY DEF HeapInv
<1>2. /\ timers' = timers /\ added' = added /\ fired' = fired /\ tick' = tick
      /\ nested' = nested /\ caller' = caller
      /\ \/ dpc \in {"idle", "loop"} /\ dpc' \in {"idle", "loop"} /\ hole' = hole /\ now' = now
         \/ /\ dpc = "callback" /\ timers = <<>> /\ dpc' = "loop" /\ hole' = hole /\ now' = now
         \/ /\ dpc = "callback" /\ timers # <<>> /\ dpc' = "down" /\ hole' = 1 /\ now' = tick
  BY DEF D!PollPort, D!PollDown, D!PollEnds, D!sift
<1>3. TimersOnce'
  BY <1>1, <1>2, HeapKept
<1>4. Len(timers) \in Nat /\ (timers # <<>> => Len(timers) >= 1) /\ (timers = <<>> => Len(timers) = 0)
  BY <1>1, TimerAt, EmptySeq DEF TimerType
<1>5. TimerType'
  BY <1>1, <1>2, <1>4 DEF TimerType, DriverPlaces
<1>6. ASSUME ~nested PROVE OrderInv'
  <2>1. OrderInv
    BY <1>6 DEF HeapInv
  <2>2. CASE dpc \in {"idle", "loop"} /\ dpc' \in {"idle", "loop"}
    BY <1>2, <2>1, <2>2 DEF OrderInv, Before
  <2>3. CASE dpc = "callback" /\ timers = <<>> /\ dpc' = "loop"
    BY <1>2, <1>4, <2>3 DEF OrderInv
  <2>4. CASE dpc = "callback" /\ timers # <<>> /\ dpc' = "down" /\ hole' = 1 /\ now' = tick
    <3>1. \A i \in 2..Len(timers) : i \div 2 # 1 => i \in 4..Len(timers)
      BY <1>4, Parent
    <3>2. \A i \in 2..Len(timers) : i \div 2 # 1 => Before(i \div 2, i, tick)
      BY <2>1, <2>4, <3>1 DEF OrderInv
    <3>3. Sinking'
      BY <1>2, <2>4, <3>2 DEF Sinking, Across, Before
    <3>4. QED
      BY <2>4, <3>3 DEF OrderInv
  <2>5. QED
    BY <1>2, <2>2, <2>3, <2>4
<1>7. QED
  BY <1>2, <1>3, <1>5, <1>6 DEF HeapInv

LEMMA WheelUnchanged ==
  ASSUME HeapInv, UNCHANGED D!wheel
  PROVE  HeapInv'
BY DEF HeapInv, TimerType, TimersOnce, D!Pending, OrderInv, Rising, Sinking, Across, Before, D!wheel, D!sift

LEMMA DriverStep ==
  ASSUME HeapInv, [D!Next]_(D!drvvars)
  PROVE  HeapInv'
<1>1. ASSUME UNCHANGED D!drvvars PROVE HeapInv'
  BY <1>1, WheelUnchanged DEF D!drvvars
<1>2. ASSUME NEW ov \in Ovs, D!Await(ov) \/ D!Complete(ov) PROVE HeapInv'
  BY <1>2, WheelUnchanged DEF D!Await, D!Complete
<1>3. QED
  BY <1>1, <1>2, TickStep, AddStep, UpBeginsStep, UpStep, DownStep, FireStep, PollStep
  DEF D!Next, D!Poll, D!Heap

LEMMA DriverSafe == HeapInv => D!TimersKept
<1> SUFFICES ASSUME HeapInv PROVE D!TimersKept
  OBVIOUS
<1>1. TimersOnce
  BY DEF HeapInv
<1>2. dpc \in {"idle", "loop"} /\ ~nested => D!HeapOrdered
  BY DEF HeapInv, OrderInv, D!HeapOrdered, Before
<1>3. QED
  BY <1>1, <1>2 DEF TimersOnce, D!TimersKept

HIDE DriverConstants DEF D!DriverAssumption

(***************************************************************************)
(* The lists of those who wait: a fiber that has pushed itself and was not *)
(* resumed has exactly one node, in the event's list or with the           *)
(* signaller; one forgotten by signal_all had tested the flag before it    *)
(* was set, and pushed itself after the last swap or was resumed before it *)
(* had suspended, for any number of fibers (event.rs); a timer is in the   *)
(* heap, once, or has fired, and between polls the heap is ordered unless  *)
(* a callback added to it, for any number of timers, any delays and a      *)
(* clock that moves between any two steps (driver.rs).                     *)
(***************************************************************************)
THEOREM ListsStayKept == Spec => []ListsKept
<1> DEFINE I == FInv /\ HeapInv
<1>1. Init => I
  BY FInit, DriverInit DEF Init
<1>2. I /\ [Next]_all => I'
  BY FStep, DriverStep, OneAtATime
<1>3. I => ListsKept
  BY EventSafe, DriverSafe DEF ListsKept
<1>4. QED
  BY <1>1, <1>2, <1>3, PTL DEF Spec

-----------------------------------------------------------------------------
(* The main loop *)

LEMMA AppConstants == A!AppAssumption
BY Constants

USE AppConstants DEF A!AppAssumption

Order == <<"draw", "begin", "depth", "colour", "present">>
Turn == {"message", "quit", "measure", "simulate", "update", "execute"}
Places == {"project", "window", "device", "shaders", "entities", "model", "destroy",
           "returned", "panicked"} \cup Turn

\* What is left to execute, and what the device has been asked for by then.
Stages == { << << <<"begin", "depth">>, <<"colour">>, <<"present">> >>, <<"draw">> >>,
            << << <<"colour">>, <<"present">> >>, <<"draw", "begin", "depth">> >>,
            << << <<"present">> >>, <<"draw", "begin", "depth", "colour">> >>,
            << <<>>, Order >> }

TimeInv ==
  /\ apc \in Places /\ clock \in Nat /\ acc \in Nat /\ steps \in Nat
  /\ (ringOpen = TRUE /\ apc = "update") \/ (ringOpen = FALSE /\ apc # "update")
  /\ clock = steps * Fixed + acc - (IF ringOpen THEN Fixed ELSE 0)
  /\ apc = "update" => acc >= Fixed
  /\ apc \notin {"simulate", "update"} => acc < Fixed
FrameInv ==
  /\ apc = "execute" => <<passes, frame>> \in Stages /\ device # "absent" /\ hasModel
  /\ apc # "execute" => passes = <<>> /\ frame = <<>>
  /\ apc \in {"device", "shaders", "entities", "model"} \cup Turn => window = "open"
LoopInv == TimeInv /\ FrameInv

LEMMA Concatenated ==
  ASSUME NEW T, NEW x \in Seq(T), NEW y \in Seq(T), NEW z \in Seq(T), Len(z) = Len(x) + Len(y),
         \A i \in 1..Len(z) : z[i] = IF i <= Len(x) THEN x[i] ELSE y[i - Len(x)]
  PROVE  x \o y = z
<1>1. /\ x \o y \in Seq(T) /\ Len(x \o y) = Len(x) + Len(y)
      /\ \A i \in 1..(Len(x) + Len(y)) :
           (x \o y)[i] = IF i <= Len(x) THEN x[i] ELSE y[i - Len(x)]
  BY ConcatProperties
<1>2. \A i \in 1..Len(z) : (x \o y)[i] = z[i]
  BY <1>1
<1>3. QED
  BY <1>1, <1>2, SeqEqual

LEMMA OneAndTwo ==
  ASSUME NEW a, NEW b, NEW c
  PROVE  <<a>> \o <<b, c>> = <<a, b, c>>
<1> DEFINE items == {a, b, c}
           x == <<a>>
           y == <<b, c>>
           z == <<a, b, c>>
<1>1. x \in Seq(items) /\ y \in Seq(items) /\ z \in Seq(items)
  OBVIOUS
<1>2. /\ Len(x) = 1 /\ Len(y) = 2 /\ Len(z) = 3
      /\ x[1] = z[1] /\ y[1] = z[2] /\ y[2] = z[3]
  OBVIOUS
<1> HIDE DEF items, x, y, z
<1>3. \A i \in 1..Len(z) : z[i] = IF i <= Len(x) THEN x[i] ELSE y[i - Len(x)]
  BY <1>2
<1>4. Len(z) = Len(x) + Len(y)
  BY <1>2
<1>5. x \o y = z
  BY <1>1, <1>3, <1>4, Concatenated
<1>6. QED
  BY <1>5 DEF x, y, z

LEMMA ThreeAndOne ==
  ASSUME NEW a, NEW b, NEW c, NEW d
  PROVE  <<a, b, c>> \o <<d>> = <<a, b, c, d>>
<1> DEFINE items == {a, b, c, d}
           x == <<a, b, c>>
           y == <<d>>
           z == <<a, b, c, d>>
<1>1. x \in Seq(items) /\ y \in Seq(items) /\ z \in Seq(items)
  OBVIOUS
<1>2. /\ Len(x) = 3 /\ Len(y) = 1 /\ Len(z) = 4
      /\ x[1] = z[1] /\ x[2] = z[2] /\ x[3] = z[3] /\ y[1] = z[4]
  OBVIOUS
<1> HIDE DEF items, x, y, z
<1>3. \A i \in 1..Len(z) : z[i] = IF i <= Len(x) THEN x[i] ELSE y[i - Len(x)]
  BY <1>2
<1>4. Len(z) = Len(x) + Len(y)
  BY <1>2
<1>5. x \o y = z
  BY <1>1, <1>3, <1>4, Concatenated
<1>6. QED
  BY <1>5 DEF x, y, z

LEMMA FourAndOne ==
  ASSUME NEW a, NEW b, NEW c, NEW d, NEW e
  PROVE  <<a, b, c, d>> \o <<e>> = <<a, b, c, d, e>>
<1> DEFINE items == {a, b, c, d, e}
           x == <<a, b, c, d>>
           y == <<e>>
           z == <<a, b, c, d, e>>
<1>1. x \in Seq(items) /\ y \in Seq(items) /\ z \in Seq(items)
  OBVIOUS
<1>2. /\ Len(x) = 4 /\ Len(y) = 1 /\ Len(z) = 5
      /\ x[1] = z[1] /\ x[2] = z[2] /\ x[3] = z[3] /\ x[4] = z[4] /\ y[1] = z[5]
  OBVIOUS
<1> HIDE DEF items, x, y, z
<1>3. \A i \in 1..Len(z) : z[i] = IF i <= Len(x) THEN x[i] ELSE y[i - Len(x)]
  BY <1>2
<1>4. Len(z) = Len(x) + Len(y)
  BY <1>2
<1>5. x \o y = z
  BY <1>1, <1>3, <1>4, Concatenated
<1>6. QED
  BY <1>5 DEF x, y, z

LEMMA NextStage ==
  ASSUME <<passes, frame>> \in Stages, passes # <<>>,
         frame' = frame \o Head(passes), passes' = Tail(passes)
  PROVE  <<passes', frame'>> \in Stages
<1>1. CASE passes = << <<"begin", "depth">>, <<"colour">>, <<"present">> >> /\ frame = <<"draw">>
  <2>1. Head(passes) = <<"begin", "depth">> /\ passes' = << <<"colour">>, <<"present">> >>
    BY <1>1
  <2>2. frame' = <<"draw", "begin", "depth">>
    BY <1>1, <2>1, OneAndTwo
  <2>3. QED
    BY <2>1, <2>2 DEF Stages
<1>2. CASE passes = << <<"colour">>, <<"present">> >> /\ frame = <<"draw", "begin", "depth">>
  <2>1. Head(passes) = <<"colour">> /\ passes' = << <<"present">> >>
    BY <1>2
  <2>2. frame' = <<"draw", "begin", "depth", "colour">>
    BY <1>2, <2>1, ThreeAndOne
  <2>3. QED
    BY <2>1, <2>2 DEF Stages
<1>3. CASE passes = << <<"present">> >> /\ frame = <<"draw", "begin", "depth", "colour">>
  <2>1. Head(passes) = <<"present">> /\ passes' = <<>>
    BY <1>3
  <2>2. frame' = Order
    BY <1>3, <2>1, FourAndOne DEF Order
  <2>3. QED
    BY <2>1, <2>2 DEF Stages
<1>4. QED
  BY <1>1, <1>2, <1>3 DEF Stages

LEMMA PrefixesOf ==
  /\ <<>> = SubSeq(Order, 1, 0) /\ <<"draw">> = SubSeq(Order, 1, 1)
  /\ <<"draw", "begin", "depth">> = SubSeq(Order, 1, 3)
  /\ <<"draw", "begin", "depth", "colour">> = SubSeq(Order, 1, 4)
  /\ Order = SubSeq(Order, 1, 5)
<1>1. <<>> = SubSeq(Order, 1, 0)
  BY DEF Order
<1>2. <<"draw">> = SubSeq(Order, 1, 1)
  BY DEF Order
<1>3. <<"draw", "begin", "depth">> = SubSeq(Order, 1, 3)
  BY DEF Order
<1>4. <<"draw", "begin", "depth", "colour">> = SubSeq(Order, 1, 4)
  BY DEF Order
<1>5. Order = SubSeq(Order, 1, 5)
  BY DEF Order
<1>6. QED
  BY <1>1, <1>2, <1>3, <1>4, <1>5

LEMMA LoopInit == A!Init => LoopInv
<1> SUFFICES ASSUME A!Init PROVE LoopInv
  OBVIOUS
<1>1. TimeInv
  BY DEF A!Init, TimeInv, Places, Turn
<1>2. FrameInv
  BY DEF A!Init, FrameInv, Turn
<1>3. QED
  BY <1>1, <1>2 DEF LoopInv

\* The steps that leave the time alone.
LEMMA TimeKept ==
  ASSUME TimeInv, UNCHANGED A!time, apc' \in Places,
         apc # "update", apc' # "update",
         apc' \notin {"simulate", "update"} =>
           \/ apc \notin {"simulate", "update"}
           \/ acc < Fixed
  PROVE  TimeInv'
BY DEF TimeInv, A!time

\* The steps outside the drawing of a frame.
LEMMA FrameKept ==
  ASSUME FrameInv, UNCHANGED A!drawing, apc # "execute", apc' # "execute",
         apc' \in {"device", "shaders", "entities", "model"} \cup Turn => window' = "open"
  PROVE  FrameInv'
BY DEF FrameInv, A!drawing

LEMMA Opening ==
  ASSUME LoopInv,
         \/ A!OpenProject \/ A!CreateWindow \/ A!CreateDevice \/ A!LoadShaders \/ A!SpawnEntities \/ A!LoadModel
  PROVE  LoopInv'
<1>1. TimeInv /\ FrameInv
  BY DEF LoopInv
<1>2. /\ UNCHANGED A!time /\ UNCHANGED A!drawing
      /\ apc \in {"project", "window", "device", "shaders", "entities", "model"}
      /\ apc' \in {"window", "device", "shaders", "entities", "model", "message", "returned", "panicked"}
  BY DEF A!OpenProject, A!CreateWindow, A!CreateDevice, A!LoadShaders, A!SpawnEntities, A!LoadModel, A!Goto
<1>3. apc' \in {"device", "shaders", "entities", "model"} \cup Turn => window' = "open"
  BY <1>1 DEF FrameInv, Turn,
     A!OpenProject, A!CreateWindow, A!CreateDevice, A!LoadShaders, A!SpawnEntities, A!LoadModel, A!Goto
<1>4. TimeInv'
  BY <1>1, <1>2, TimeKept DEF Places, Turn
<1>5. FrameInv'
  BY <1>1, <1>2, <1>3, FrameKept
<1>6. QED
  BY <1>4, <1>5 DEF LoopInv

\* Between two frames.
LEMMA Turning ==
  ASSUME LoopInv, A!ProcessMessage \/ A!TestQuit \/ A!SkipRender \/ A!Destroy
  PROVE  LoopInv'
<1>1. TimeInv /\ FrameInv
  BY DEF LoopInv
<1>2. /\ UNCHANGED A!time /\ UNCHANGED A!drawing
      /\ apc \in {"message", "quit", "simulate", "destroy"}
      /\ apc = "simulate" => acc < Fixed
      /\ apc' \in {"quit", "destroy", "measure", "message", "returned"}
      /\ apc' \in Turn => apc \in Turn /\ window' = window
  BY DEF A!ProcessMessage, A!TestQuit, A!SkipRender, A!Destroy, A!Goto, Turn
<1>3. TimeInv'
  BY <1>1, <1>2, TimeKept DEF Places, Turn
<1>4. FrameInv'
  <2>1. apc' \in {"device", "shaders", "entities", "model"} \cup Turn => window' = "open"
    BY <1>1, <1>2 DEF FrameInv, Turn
  <2>2. QED
    BY <1>1, <1>2, <2>1, FrameKept
<1>5. QED
  BY <1>3, <1>4 DEF LoopInv

LEMMA MeasureStep ==
  ASSUME LoopInv, A!Measure
  PROVE  LoopInv'
<1>1. TimeInv /\ FrameInv
  BY DEF LoopInv
<1>2. /\ apc = "measure" /\ apc' = "simulate" /\ window' = window /\ UNCHANGED A!drawing
      /\ steps' = steps /\ ringOpen' = ringOpen
  BY DEF A!Measure, A!Goto
<1>3. PICK dt \in Nat : clock' = clock + dt /\ acc' = acc + dt
  BY DEF A!Measure
<1>4. steps * Fixed \in Nat
  BY <1>1 DEF TimeInv
<1>5. TimeInv'
  BY <1>1, <1>2, <1>3, <1>4 DEF TimeInv, Places, Turn
<1>6. FrameInv'
  BY <1>1, <1>2, FrameKept DEF FrameInv, Turn
<1>7. QED
  BY <1>5, <1>6 DEF LoopInv

LEMMA OneMore ==
  ASSUME NEW s \in Nat
  PROVE  (s + 1) * Fixed = s * Fixed + Fixed /\ s * Fixed \in Nat
OBVIOUS

LEMMA StepBegins ==
  ASSUME LoopInv, A!BeginStep
  PROVE  LoopInv'
<1>1. TimeInv /\ FrameInv
  BY DEF LoopInv
<1>2. /\ apc = "simulate" /\ apc' = "update" /\ window' = window /\ UNCHANGED A!drawing
      /\ acc >= Fixed /\ acc' = acc /\ clock' = clock /\ steps' = steps + 1 /\ ringOpen' = TRUE
  BY DEF A!BeginStep, A!Goto
<1>3. steps \in Nat /\ acc \in Nat /\ clock \in Nat /\ clock = steps * Fixed + acc
  BY <1>1, <1>2 DEF TimeInv
<1>4. clock' = steps' * Fixed + acc' - Fixed
  BY <1>2, <1>3, OneMore
<1>5. TimeInv'
  BY <1>2, <1>3, <1>4 DEF TimeInv, Places, Turn
<1>6. FrameInv'
  BY <1>1, <1>2, FrameKept DEF FrameInv, Turn
<1>7. QED
  BY <1>5, <1>6 DEF LoopInv

LEMMA StepCommitted ==
  ASSUME LoopInv, A!CommitStep
  PROVE  LoopInv'
<1>1. TimeInv /\ FrameInv
  BY DEF LoopInv
<1>2. /\ apc = "update" /\ apc' = "simulate" /\ window' = window /\ UNCHANGED A!drawing
      /\ acc' = acc - Fixed /\ clock' = clock /\ steps' = steps /\ ringOpen' = FALSE
  BY DEF A!CommitStep, A!Goto
<1>3. /\ steps \in Nat /\ acc \in Nat /\ clock \in Nat /\ acc >= Fixed
      /\ clock = steps * Fixed + acc - Fixed
  BY <1>1, <1>2 DEF TimeInv
<1>4. clock' = steps' * Fixed + acc' /\ acc' \in Nat
  BY <1>2, <1>3, OneMore
<1>5. TimeInv'
  BY <1>2, <1>3, <1>4 DEF TimeInv, Places, Turn
<1>6. FrameInv'
  BY <1>1, <1>2, FrameKept DEF FrameInv, Turn
<1>7. QED
  BY <1>5, <1>6 DEF LoopInv

LEMMA Drawing ==
  ASSUME LoopInv, A!DrawFrame \/ A!ExecutePass \/ A!Sleep
  PROVE  LoopInv'
<1>1. TimeInv /\ FrameInv
  BY DEF LoopInv
<1>2. UNCHANGED A!time /\ window' = window /\ device' = device /\ hasModel' = hasModel
  BY DEF A!DrawFrame, A!ExecutePass, A!Sleep
<1>3. /\ apc \in {"simulate", "execute"} /\ apc' \in {"execute", "message"}
      /\ apc = "simulate" => acc < Fixed
  BY DEF A!DrawFrame, A!ExecutePass, A!Sleep, A!Goto
<1>4. TimeInv'
  BY <1>1, <1>2, <1>3, TimeKept DEF Places, Turn
<1>5. window' = "open"
  BY <1>1, <1>2, <1>3 DEF FrameInv, Turn
<1>6. CASE A!DrawFrame
  <2>1. apc' = "execute" /\ device' # "absent" /\ hasModel' /\ <<passes', frame'>> \in Stages
    BY <1>2, <1>6 DEF A!DrawFrame, A!Goto, Stages
  <2>2. QED
    BY <1>4, <1>5, <2>1 DEF LoopInv, FrameInv
<1>7. CASE A!ExecutePass
  <2>1. /\ apc = "execute" /\ apc' = "execute" /\ passes # <<>>
        /\ frame' = frame \o Head(passes) /\ passes' = Tail(passes)
    BY <1>7 DEF A!ExecutePass
  <2>2. <<passes', frame'>> \in Stages /\ device' # "absent" /\ hasModel'
    BY <1>1, <1>2, <2>1, NextStage DEF FrameInv
  <2>3. QED
    BY <1>4, <1>5, <2>1, <2>2 DEF LoopInv, FrameInv
<1>8. CASE A!Sleep
  <2>1. apc' = "message" /\ passes' = <<>> /\ frame' = <<>>
    BY <1>8 DEF A!Sleep, A!Goto
  <2>2. QED
    BY <1>4, <1>5, <2>1 DEF LoopInv, FrameInv
<1>9. QED
  BY <1>6, <1>7, <1>8

LEMMA LoopKept ==
  ASSUME LoopInv, UNCHANGED <<apc, device, hasModel, window, A!time, A!drawing>>
  PROVE  LoopInv'
BY DEF LoopInv, TimeInv, FrameInv, A!time, A!drawing

LEMMA LoopStep ==
  ASSUME LoopInv, [A!Next]_(A!appvars)
  PROVE  LoopInv'
<1>1. ASSUME UNCHANGED A!appvars \/ A!Post PROVE LoopInv'
  BY <1>1, LoopKept DEF A!appvars, A!Post, A!time, A!drawing
<1>2. QED
  BY <1>1, Opening, Turning, MeasureStep, StepBegins, StepCommitted, Drawing DEF A!Next, A!Main

LEMMA LoopSafe == LoopInv => A!AppSound
<1> SUFFICES ASSUME LoopInv PROVE A!AppSound
  OBVIOUS
<1>1. TimeInv /\ FrameInv
  BY DEF LoopInv
<1>2. A!ClockConserved
  BY <1>1 DEF TimeInv, A!ClockConserved
<1>3. \E n \in 0 .. 5 : frame = SubSeq(Order, 1, n)
  <2>1. \/ frame \in {<<>>, <<"draw">>, <<"draw", "begin", "depth">>, Order}
        \/ frame = <<"draw", "begin", "depth", "colour">>
    BY <1>1 DEF FrameInv, Stages
  <2>2. 0 \in 0..5 /\ 1 \in 0..5 /\ 3 \in 0..5 /\ 4 \in 0..5 /\ 5 \in 0..5
    OBVIOUS
  <2>3. QED
    BY <2>1, <2>2, PrefixesOf
<1>4. A!WholeFrames
  BY <1>1, <1>3 DEF FrameInv, A!WholeFrames, Order, Turn
<1>5. QED
  BY <1>2, <1>4 DEF A!AppSound

HIDE AppConstants DEF A!AppAssumption

(***************************************************************************)
(* The main loop conserves time, whatever a turn of it takes and however   *)
(* long a fixed step is, and the device sees whole frames, in order, only  *)
(* with a device, a model and an open window (main.rs).                    *)
(***************************************************************************)
THEOREM LoopStaysSound == Spec => []AppSound
<1>1. Init => LoopInv
  BY LoopInit DEF Init
<1>2. LoopInv /\ [Next]_all => LoopInv'
  BY LoopStep, OneAtATime
<1>3. LoopInv => AppSound
  BY LoopSafe DEF AppSound
<1>4. QED
  BY <1>1, <1>2, <1>3, PTL DEF Spec
=============================================================================
