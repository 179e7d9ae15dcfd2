----------------------------- MODULE Scheduler -----------------------------
(***************************************************************************)
(* The job scheduler of Sys.Job (Foundation/Sys/Job/API/scheduler.rs): the *)
(* workers of worker_main, and a caller that enqueues jobs, stops the      *)
(* workers and joins them.  A worker looks into its own two deques, then   *)
(* into those of the others, runs what it finds, and parks on its event    *)
(* when it finds nothing.                                                  *)
(*                                                                         *)
(* A deque operation is two steps here, what it reads and what it writes,  *)
(* so a push from a thread that does not own the deque can fall between    *)
(* the two halves of the owner's pop and be lost; ChaseLevDeque has every  *)
(* access.  The properties are about waking and stopping, which must work  *)
(* nevertheless.                                                           *)
(***************************************************************************)
EXTENDS Integers

CONSTANTS
  N,         \* worker_count
  Jobs,      \* the jobs
  Qos,       \* the qos of each job, an index of a worker or more
  High,      \* the jobs that are enqueued by enqueue_high
  Child,     \* the job that a job enqueues while it runs, or None
  MaxPushes, \* bound: pushes onto one deque (the ring is at least as large)
  None

Workers == 0..N-1
Main == N                 \* the thread that owns the Scheduler
Threads == 0..N
Queues == {"high", "norm"}
Children == {Child[j] : j \in Jobs} \ {None}

ASSUME WorkersAssumption == N \in Nat \ {0}
ASSUME PushesAssumption == MaxPushes \in Nat
ASSUME JobsAssumption ==
  /\ None \notin Jobs
  /\ Qos \in [Jobs -> Nat]
  /\ High \subseteq Jobs
  /\ Child \in [Jobs -> Jobs \cup {None}]

VARIABLES
  dq,      \* dq[w][q]: top, bottom and cells of a worker's deque
  ev,      \* the workers' parkers: auto-reset events
  stop,    \* the flag that stop stores
  inPlace, \* the workers' pointer still points to that flag (never changes)
  pc, job, reg,  \* per thread: program counter, job at hand, index read
  place,   \* per worker: how many deques it has looked into
  todo,    \* jobs the caller has not enqueued yet
  si       \* the caller's loop index in stop and join

vars == <<dq, ev, stop, inPlace, pc, job, reg, place, todo, si>>

Indices == 0..MaxPushes-1
NonEmpty(d) == d.top < d.bot

QueueFor(j) == IF j \in High THEN "high" ELSE "norm"

\* The index that enqueue computes: min(qos, worker_count - 1).
Target(j) == IF Qos[j] < N THEN Qos[j] ELSE N - 1

(***************************************************************************)
(* The order of the search: the worker's own deques, then those of the     *)
(* other workers by index; high before norm each time.                     *)
(***************************************************************************)
VictimOf(w) ==
  LET k == place[w] \div 2
  IN  IF k = 0 THEN w ELSE IF k - 1 < w THEN k - 1 ELSE k

QueueOf(w) == IF place[w] % 2 = 0 THEN "high" ELSE "norm"
Here(w) == dq[VictimOf(w)][QueueOf(w)]

Init ==
  /\ dq = [w \in Workers |-> [q \in Queues |->
             [top |-> 0, bot |-> 0, cell |-> [i \in Indices |-> None]]]]
  /\ ev = [w \in Workers |-> FALSE]
  /\ stop = FALSE
  /\ inPlace \in BOOLEAN
  /\ pc = [t \in Threads |-> IF t = Main THEN "calls" ELSE "check"]
  /\ job = [t \in Threads |-> None]
  /\ reg = [t \in Threads |-> <<>>]
  /\ place = [w \in Workers |-> 0]
  /\ todo = Jobs \ Children
  /\ si = 0

Go(t, l) == pc' = [pc EXCEPT ![t] = l]

-----------------------------------------------------------------------------
(* enqueue and enqueue_high, by the caller or by a job on its worker *)

EnqLoad(t) ==
  /\ pc[t] = "enqueue"
  /\ LET d == dq[Target(job[t])][QueueFor(job[t])]
     IN  /\ d.bot < MaxPushes
         /\ reg' = [reg EXCEPT ![t] = <<d.bot>>]
  /\ Go(t, "store")
  /\ UNCHANGED <<dq, ev, stop, inPlace, job, place, todo, si>>

EnqStore(t) ==
  /\ pc[t] = "store"
  /\ LET w == Target(job[t])
         q == QueueFor(job[t])
         b == reg[t][1]
         d == dq[w][q]
     IN  dq' = [dq EXCEPT ![w][q] =
                  [top |-> d.top, bot |-> b + 1, cell |-> [d.cell EXCEPT ![b] = job[t]]]]
  /\ Go(t, "unpark")
  /\ UNCHANGED <<ev, stop, inPlace, job, reg, place, todo, si>>

Back(t) ==
  /\ Go(t, IF t = Main THEN "calls" ELSE "check")
  /\ job' = [job EXCEPT ![t] = None]
  /\ reg' = [reg EXCEPT ![t] = <<>>]

\* Mutant: always the first worker's parker.
UnparkFirst(t) ==
  /\ pc[t] = "unpark"
  /\ ev' = [ev EXCEPT ![0] = TRUE]
  /\ Back(t)
  /\ UNCHANGED <<dq, stop, inPlace, place, todo, si>>

Unpark(t) ==
  /\ pc[t] = "unpark"
  /\ ev' = [ev EXCEPT ![Target(job[t])] = TRUE]
  /\ Back(t)
  /\ UNCHANGED <<dq, stop, inPlace, place, todo, si>>

Enqueue(t) == EnqLoad(t) \/ EnqStore(t) \/ Unpark(t)

-----------------------------------------------------------------------------
(* worker_main *)

(***************************************************************************)
(* The load of the flag.  start gives the workers a pointer to s.stop and  *)
(* then moves s to its caller: unless the move is elided the pointer       *)
(* dangles and the load may return anything.                               *)
(***************************************************************************)
CheckStop(w) ==
  /\ pc[w] = "check"
  /\ \E f \in IF inPlace THEN {stop} ELSE BOOLEAN :
       Go(w, IF f THEN "exit" ELSE "look")
  /\ place' = [place EXCEPT ![w] = 0]
  /\ UNCHANGED <<dq, ev, stop, inPlace, job, reg, todo, si>>

\* After the last deque the worker polls the driver and parks.
NextPlace(w) ==
  /\ place' = [place EXCEPT ![w] = IF @ + 1 = 2 * N THEN 0 ELSE @ + 1]
  /\ Go(w, IF place[w] + 1 = 2 * N THEN "park" ELSE "look")
  /\ reg' = [reg EXCEPT ![w] = <<>>]

\* A steal that failed: the owner pops next, a thief goes on.
NotStolen(w) ==
  IF VictimOf(w) = w
  THEN /\ Go(w, "pop")
       /\ reg' = [reg EXCEPT ![w] = <<>>]
       /\ UNCHANGED place
  ELSE NextPlace(w)

Look(w) ==
  /\ pc[w] = "look"
  /\ LET d == Here(w)
     IN  IF NonEmpty(d)
         THEN /\ reg' = [reg EXCEPT ![w] = <<d.top, d.cell[d.top]>>]
              /\ Go(w, "steal")
              /\ UNCHANGED place
         ELSE NotStolen(w)
  /\ UNCHANGED <<dq, ev, stop, inPlace, job, todo, si>>

Steal(w) ==
  /\ pc[w] = "steal"
  /\ Here(w).top = reg[w][1]
  /\ dq' = [dq EXCEPT ![VictimOf(w)][QueueOf(w)].top = @ + 1]
  /\ job' = [job EXCEPT ![w] = reg[w][2]]
  /\ reg' = [reg EXCEPT ![w] = <<>>]
  /\ Go(w, "run")
  /\ UNCHANGED <<ev, stop, inPlace, place, todo, si>>

StealLost(w) ==
  /\ pc[w] = "steal"
  /\ Here(w).top # reg[w][1]
  /\ NotStolen(w)
  /\ UNCHANGED <<dq, ev, stop, inPlace, job, todo, si>>

PopLoad(w) ==
  /\ pc[w] = "pop"
  /\ reg' = [reg EXCEPT ![w] = <<Here(w).bot - 1>>]
  /\ Go(w, "popped")
  /\ UNCHANGED <<dq, ev, stop, inPlace, job, place, todo, si>>

\* Mutant: the early return leaves bottom at its decremented value.
PopNothingNoReset(w) ==
  /\ pc[w] = "popped"
  /\ reg[w][1] < Here(w).top
  /\ dq' = [dq EXCEPT ![w][QueueOf(w)].bot = reg[w][1]]
  /\ NextPlace(w)
  /\ UNCHANGED <<ev, stop, inPlace, job, todo, si>>

\* The deque was empty when bottom was read: bottom := top, even if a job
\* was pushed in between.
PopNothing(w) ==
  /\ pc[w] = "popped"
  /\ reg[w][1] < Here(w).top
  /\ dq' = [dq EXCEPT ![w][QueueOf(w)].bot = Here(w).top]
  /\ NextPlace(w)
  /\ UNCHANGED <<ev, stop, inPlace, job, todo, si>>

Pop(w) ==
  /\ pc[w] = "popped"
  /\ LET d == Here(w)
         b == reg[w][1]
     IN  /\ b >= d.top
         /\ job' = [job EXCEPT ![w] = d.cell[b]]
         /\ dq' = [dq EXCEPT ![w][QueueOf(w)] =
                     IF b > d.top THEN [d EXCEPT !.bot = b]
                     ELSE [d EXCEPT !.top = b + 1, !.bot = b + 1]]
  /\ reg' = [reg EXCEPT ![w] = <<>>]
  /\ Go(w, "run")
  /\ UNCHANGED <<ev, stop, inPlace, place, todo, si>>

\* The job runs on a fiber to its end; it may enqueue another job.
RunJob(w) ==
  /\ pc[w] = "run"
  /\ job' = [job EXCEPT ![w] = Child[job[w]]]
  /\ Go(w, IF Child[job[w]] = None THEN "check" ELSE "enqueue")
  /\ UNCHANGED <<dq, ev, stop, inPlace, reg, place, todo, si>>

\* park returns because the event is set, and resets it, ...
Park(w) ==
  /\ pc[w] = "park"
  /\ ev[w]
  /\ ev' = [ev EXCEPT ![w] = FALSE]
  /\ Go(w, "check")
  /\ UNCHANGED <<dq, stop, inPlace, job, reg, place, todo, si>>

\* ... or after next_timeout_ms, which may be long: nothing relies on it.
ParkTimeout(w) ==
  /\ pc[w] = "park"
  /\ ~ev[w]
  /\ Go(w, "check")
  /\ UNCHANGED <<dq, ev, stop, inPlace, job, reg, place, todo, si>>

Worker(w) ==
  \/ CheckStop(w) \/ Look(w) \/ Steal(w) \/ StealLost(w)
  \/ PopLoad(w) \/ PopNothing(w) \/ Pop(w) \/ RunJob(w) \/ Park(w)

-----------------------------------------------------------------------------
(* The owner of the Scheduler *)

CallEnqueue(j) ==
  /\ pc[Main] = "calls"
  /\ todo' = todo \ {j}
  /\ job' = [job EXCEPT ![Main] = j]
  /\ Go(Main, "enqueue")
  /\ UNCHANGED <<dq, ev, stop, inPlace, reg, place, si>>

CallStop ==
  /\ pc[Main] = "calls"
  /\ stop' = TRUE
  /\ Go(Main, "stopping")
  /\ UNCHANGED <<dq, ev, inPlace, job, reg, place, todo, si>>

\* Mutant: the loop ends one worker early.
StopUnparkShort ==
  /\ pc[Main] = "stopping"
  /\ si < N
  /\ ev' = IF si = N - 1 THEN ev ELSE [ev EXCEPT ![si] = TRUE]
  /\ si' = si + 1
  /\ UNCHANGED <<dq, stop, inPlace, pc, job, reg, place, todo>>

StopUnpark ==
  /\ pc[Main] = "stopping"
  /\ si < N
  /\ ev' = [ev EXCEPT ![si] = TRUE]
  /\ si' = si + 1
  /\ UNCHANGED <<dq, stop, inPlace, pc, job, reg, place, todo>>

StopReturn ==
  /\ pc[Main] = "stopping"
  /\ si = N
  /\ si' = 0
  /\ Go(Main, "joining")
  /\ UNCHANGED <<dq, ev, stop, inPlace, job, reg, place, todo>>

\* thread_join of one worker after the other.
Join ==
  /\ pc[Main] = "joining"
  /\ pc[si] = "exit"
  /\ si' = si + 1
  /\ Go(Main, IF si + 1 = N THEN "joined" ELSE "joining")
  /\ UNCHANGED <<dq, ev, stop, inPlace, job, reg, place, todo>>

Owner == CallStop \/ StopUnpark \/ StopReturn \/ Join

Next ==
  \/ \E w \in Workers : Worker(w) \/ ParkTimeout(w)
  \/ \E t \in Threads : Enqueue(t)
  \/ \E j \in todo : CallEnqueue(j)
  \/ Owner

Spec == Init /\ [][Next]_vars

(***************************************************************************)
(* Threads that can run are scheduled, and jobs return.  Nothing is        *)
(* assumed of timeouts, nor that the owner calls enqueue or stop.          *)
(***************************************************************************)
FairSpec ==
  /\ Spec
  /\ \A w \in Workers : WF_vars(Worker(w) \/ Enqueue(w))
  /\ WF_vars(Enqueue(Main) \/ StopUnpark \/ StopReturn \/ Join)

-----------------------------------------------------------------------------
(* Properties *)

Cells == [Indices -> Jobs \cup {None}]
Deques == [top : 0..MaxPushes, bot : 0..MaxPushes, cell : Cells]
Labels == {"check", "look", "steal", "pop", "popped", "run", "park", "exit",
           "enqueue", "store", "unpark", "calls", "stopping", "joining", "joined"}

\* Every variable keeps its type, and a thread that runs or pushes has a job
\* (top may pass bot: a steal can succeed on a job that the owner's pop lost).
TypeOK ==
  /\ dq \in [Workers -> [Queues -> Deques]]
  /\ ev \in [Workers -> BOOLEAN]
  /\ stop \in BOOLEAN /\ inPlace \in BOOLEAN
  /\ pc \in [Threads -> Labels]
  /\ job \in [Threads -> Jobs \cup {None}]
  /\ \A t \in Threads : pc[t] \in {"run", "enqueue", "store", "unpark"} => job[t] # None
  /\ DOMAIN reg = Threads
  /\ place \in [Workers -> 0..2*N-1]
  /\ todo \subseteq Jobs
  /\ si \in 0..N

(***************************************************************************)
(* No wake-up is lost: a worker does not sleep on work that was pushed for *)
(* it.  When it waits in park and one of its deques holds a job, its event *)
(* is set or the pusher is about to set it, also if the push came between  *)
(* its last look and park, or while an event of the time before was set.   *)
(***************************************************************************)
Woken(w) ==
  \/ ev[w]
  \/ \E t \in Threads : pc[t] = "unpark" /\ Target(job[t]) = w

NoLostWakeup ==
  \A w \in Workers, q \in Queues :
    pc[w] = "park" /\ NonEmpty(dq[w][q]) => Woken(w)

(***************************************************************************)
(* stop and join return, whatever the workers are doing when stop is       *)
(* called and without the help of a timeout, provided the workers read the *)
(* flag that stop writes.                                                  *)
(***************************************************************************)
StopReturns ==
  inPlace /\ pc[Main] = "stopping" ~> pc[Main] = "joined"

-----------------------------------------------------------------------------
(***************************************************************************)
(* The inductive invariant behind NoLostWakeup and TypeOK.                 *)
(***************************************************************************)

\* Worker w has looked into its deque q since it last loaded the flag.
Searched(w, q) ==
  \/ pc[w] = "park"
  \/ /\ pc[w] \in {"look", "steal", "pop", "popped"}
     /\ place[w] > IF q = "high" THEN 0 ELSE 1

\* A job pushed onto a deque that its worker has already searched comes with
\* a wake-up.
WakeInv ==
  \A w \in Workers, q \in Queues :
    Searched(w, q) /\ NonEmpty(dq[w][q]) => Woken(w)

\* The first n cells of deque d were written at some time.
Filled(d, n) == \A i \in Indices : i < n => d.cell[i] \in Jobs

CellsInv ==
  \A w \in Workers, q \in Queues :
    Filled(dq[w][q], dq[w][q].top) /\ Filled(dq[w][q], dq[w][q].bot)

\* What a thread between the two halves of a push has read, and a worker
\* between the two halves of a steal or a pop.
StoreOk(t) ==
  pc[t] = "store" =>
    /\ reg[t][1] \in Indices
    /\ Filled(dq[Target(job[t])][QueueFor(job[t])], reg[t][1])

SearchOk(w) ==
  /\ pc[w] = "steal" => /\ reg[w][1] \in Indices
                        /\ Filled(Here(w), reg[w][1] + 1)
                        /\ reg[w][2] \in Jobs
  /\ pc[w] \in {"pop", "popped"} => place[w] < 2
  /\ pc[w] = "popped" => /\ reg[w][1] \in -1..MaxPushes-1
                         /\ Filled(Here(w), reg[w][1] + 1)

StoreInv == \A t \in Threads : StoreOk(t)
SearchInv == \A w \in Workers : SearchOk(w)

IInv == TypeOK /\ CellsInv /\ StoreInv /\ SearchInv /\ WakeInv

-----------------------------------------------------------------------------
(* An instance: two workers; two jobs for the first, one in each of its    *)
(* deques; the one of high priority enqueues a job for the second worker,  *)
(* by a qos beyond the last worker.                                        *)
ThreeJobs == 1..3
SomeQos == [j \in ThreeJobs |-> IF j = 3 THEN 2 ELSE 0]
SomeHigh == {2}
SomeChild == [j \in ThreeJobs |-> IF j = 2 THEN 3 ELSE None]
=============================================================================
