-------------------------- MODULE SchedulerProofs --------------------------
(* No wake-up is lost, for every number of workers and jobs. *)
EXTENDS Scheduler, TLAPS

USE WorkersAssumption, PushesAssumption, JobsAssumption

\* Where a job is pushed is a deque of a worker.
LEMMA TargetType == \A j \in Jobs : Target(j) \in Workers /\ QueueFor(j) \in Queues
BY DEF Target, QueueFor, Workers, Queues

\* Where a worker looks is a deque of a worker: one of its own while place is
\* below 2, one of another afterwards.
LEMMA PlaceType ==
  ASSUME NEW w \in Workers, place[w] \in 0..2*N-1
  PROVE  /\ VictimOf(w) \in Workers
         /\ QueueOf(w) \in Queues
         /\ VictimOf(w) = w <=> place[w] < 2
         /\ place[w] < 2 => QueueOf(w) = IF place[w] = 0 THEN "high" ELSE "norm"
<1> DEFINE k == place[w] \div 2
           r == place[w] % 2
<1>1. k \in Int /\ r \in {0, 1} /\ place[w] = 2 * k + r
  OBVIOUS
<1>2. VictimOf(w) = (IF k = 0 THEN w ELSE IF k - 1 < w THEN k - 1 ELSE k)
      /\ QueueOf(w) = (IF r = 0 THEN "high" ELSE "norm")
  BY DEF VictimOf, QueueOf
<1> HIDE DEF k, r
<1>3. QED
  BY <1>1, <1>2 DEF Workers, Queues

LEMMA InitInv == Init => IInv
<1> SUFFICES ASSUME Init PROVE IInv
  OBVIOUS
<1> USE DEF Init, Workers, Threads, Main
<1>1. TypeOK
  <2>1. \A w \in Workers, q \in Queues : dq[w][q] \in Deques
    BY DEF Deques, Cells
  <2>2. dq \in [Workers -> [Queues -> Deques]]
    BY <2>1
  <2>3. place \in [Workers -> 0..2*N-1] /\ si \in 0..N /\ todo \subseteq Jobs
    OBVIOUS
  <2>4. pc \in [Threads -> Labels] /\ DOMAIN reg = Threads
    BY DEF Labels
  <2>5. QED
    BY <2>2, <2>3, <2>4 DEF TypeOK
<1>2. CellsInv
  BY DEF CellsInv, Filled, Indices
<1>3. \A t \in Threads : pc[t] = "calls" \/ pc[t] = "check"
  OBVIOUS
<1>4. \A w \in Workers : pc[w] = "check"
  OBVIOUS
<1>5. StoreInv
  BY <1>3 DEF StoreInv, StoreOk
<1>6. SearchInv
  BY <1>4 DEF SearchInv, SearchOk
<1>7. WakeInv
  BY <1>4 DEF WakeInv, Searched
<1>8. QED
  BY <1>1, <1>2, <1>5, <1>6, <1>7 DEF IInv

\* Steps of the threads that change neither a deque nor a worker's place.
LEMMA OwnerStep ==
  ASSUME IInv, Owner \/ \E j \in todo : CallEnqueue(j)
  PROVE  IInv'
<1> USE DEF IInv, Owner, CallEnqueue, CallStop, StopUnpark, StopReturn, Join, Go, Main
<1>0. \A w \in Workers : w \in Threads /\ w # Main
  BY DEF Workers, Threads
<1>1. TypeOK'
  <2>1. CASE \E j \in todo : CallEnqueue(j)
    <3>1. PICK j \in todo : CallEnqueue(j)
      BY <2>1
    <3>2. j \in Jobs /\ j # None /\ Main \in Threads
      BY DEF TypeOK, Threads
    <3>3. job' \in [Threads -> Jobs \cup {None}] /\ pc' \in [Threads -> Labels]
      BY <3>1, <3>2 DEF TypeOK, Labels
    <3>4. \A t \in Threads : pc'[t] \in {"run", "enqueue", "store", "unpark"} => job'[t] # None
      BY <3>1, <3>2 DEF TypeOK
    <3>5. QED
      BY <3>1, <3>3, <3>4 DEF TypeOK
  <2>2. CASE CallStop \/ StopReturn
    <3>0. stop' \in BOOLEAN
      <4>1. stop' = TRUE \/ stop' = stop
        BY <2>2
      <4>2. QED
        BY <4>1 DEF TypeOK
    <3>1. si' \in 0..N
      BY <2>2 DEF TypeOK
    <3>2. pc' \in [Threads -> Labels]
      BY <2>2 DEF TypeOK, Labels
    <3>3. \A t \in Threads : pc'[t] \in {"run", "enqueue", "store", "unpark"} => job'[t] # None
      BY <2>2 DEF TypeOK
    <3>4. QED
      BY <2>2, <3>0, <3>1, <3>2, <3>3 DEF TypeOK
  <2>3. CASE StopUnpark
    BY <2>3 DEF TypeOK, Workers
  <2>4. CASE Join
    <3>1. si # N /\ si \in 0..N
      BY <2>4 DEF TypeOK
    <3>2. si' \in 0..N
      BY <2>4, <3>1
    <3>3. pc' \in [Threads -> Labels]
      BY <2>4 DEF TypeOK, Labels
    <3>4. \A t \in Threads : pc'[t] \in {"run", "enqueue", "store", "unpark"} => job'[t] # None
      BY <2>4 DEF TypeOK
    <3>5. QED
      BY <2>4, <3>2, <3>3, <3>4 DEF TypeOK
  <2>5. QED
    BY <2>1, <2>2, <2>3, <2>4
<1>2. CellsInv'
  BY DEF CellsInv, Filled
<1>3. \A w \in Workers : pc'[w] = pc[w]
  BY <1>0 DEF TypeOK
<1>4. StoreInv'
  BY DEF StoreInv, StoreOk, Filled, TypeOK, Threads
<1>5. SearchInv'
  BY <1>3 DEF SearchInv, SearchOk, Filled, Here, VictimOf, QueueOf
<1>6. \A w \in Workers : Woken(w) => Woken(w)'
  BY DEF Woken, TypeOK, Threads
<1>7. WakeInv'
  BY <1>3, <1>6 DEF WakeInv, Searched, NonEmpty
<1>8. QED
  BY <1>1, <1>2, <1>4, <1>5, <1>7

-----------------------------------------------------------------------------
(***************************************************************************)
(* A step of thread t preserves the invariant if t itself is right         *)
(* afterwards, no cell was emptied, a searched deque that became nonempty  *)
(* comes with a wake-up and no wake-up was taken back (except by a worker that   *)
(* starts to search again).                                                *)
(***************************************************************************)
LEMMA ThreadStep ==
  ASSUME IInv, TypeOK', CellsInv', NEW t \in Threads,
         \A u \in Threads \ {t} : pc'[u] = pc[u] /\ job'[u] = job[u] /\ reg'[u] = reg[u],
         \A w \in Workers \ {t} : place'[w] = place[w],
         \A w \in Workers, q \in Queues, i \in Indices :
            dq[w][q].cell[i] \in Jobs => dq'[w][q].cell[i] \in Jobs,
         \A w \in Workers, q \in Queues :
            Searched(w, q)' /\ NonEmpty(dq'[w][q]) => NonEmpty(dq[w][q]) \/ Woken(w)',
         \A w \in Workers : Woken(w) => Woken(w)' \/ (w = t /\ pc'[t] = "check"),
         StoreOk(t)', t \in Workers => SearchOk(t)',
         \A q \in Queues : t \in Workers /\ Searched(t, q)' =>
            Searched(t, q) \/ ~NonEmpty(dq'[t][q])
  PROVE  IInv'
<1> USE DEF IInv
<1>0. \A w \in Workers : w \in Threads
  BY DEF Workers, Threads
<1>1. StoreInv'
  <2>1. SUFFICES ASSUME NEW u \in Threads \ {t}, pc[u] = "store"
                 PROVE  StoreOk(u)'
    BY DEF StoreInv, StoreOk
  <2>2. job[u] \in Jobs /\ StoreOk(u)
    BY <2>1 DEF TypeOK, StoreInv
  <2>3. QED
    BY <2>1, <2>2, TargetType DEF StoreOk, Filled
<1>2. SearchInv'
  <2>1. SUFFICES ASSUME NEW w \in Workers \ {t}
                 PROVE  SearchOk(w)'
    BY DEF SearchInv
  <2>2. VictimOf(w) \in Workers /\ QueueOf(w) \in Queues
    BY PlaceType DEF TypeOK
  <2>3. Here(w)' = dq'[VictimOf(w)][QueueOf(w)]
    BY DEF Here, VictimOf, QueueOf
  <2>4. \A n : Filled(Here(w), n) => Filled(Here(w)', n)
    BY <2>2, <2>3 DEF Filled, Here
  <2>5. SearchOk(w) /\ pc'[w] = pc[w] /\ reg'[w] = reg[w] /\ place'[w] = place[w]
    BY <1>0 DEF SearchInv
  <2>6. QED
    BY <2>4, <2>5 DEF SearchOk
<1>3. ASSUME NEW w \in Workers, NEW q \in Queues, Searched(w, q)', NonEmpty(dq'[w][q])
      PROVE  Woken(w)'
  <2>1. Searched(w, q)
    BY <1>0, <1>3 DEF Searched
  <2>2. ~(w = t /\ pc'[t] = "check")
    BY <1>3 DEF Searched
  <2>3. QED
    BY <1>3, <2>1, <2>2 DEF WakeInv
<1>4. WakeInv'
  BY <1>3 DEF WakeInv
<1>5. QED
  BY <1>1, <1>2, <1>4

\* The same for a step that leaves the deques alone.
LEMMA QuietStep ==
  ASSUME IInv, TypeOK', NEW t \in Threads,
         UNCHANGED dq,
         \A u \in Threads \ {t} : pc'[u] = pc[u] /\ job'[u] = job[u] /\ reg'[u] = reg[u],
         \A w \in Workers \ {t} : place'[w] = place[w],
         \A w \in Workers : Woken(w) => Woken(w)' \/ (w = t /\ pc'[t] = "check"),
         StoreOk(t)', t \in Workers => SearchOk(t)',
         \A q \in Queues : t \in Workers /\ Searched(t, q)' =>
            Searched(t, q) \/ ~NonEmpty(dq[t][q])
  PROVE  IInv'
<1>1. CellsInv'
  BY DEF IInv, CellsInv, Filled
<1>2. QED
  BY <1>1, ThreadStep

\* The types after a step of thread t.
LEMMA TypeStep ==
  ASSUME TypeOK, NEW t \in Threads, NEW l \in Labels, Go(t, l),
         dq' \in [Workers -> [Queues -> Deques]],
         ev' \in [Workers -> BOOLEAN],
         place' \in [Workers -> 0..2*N-1],
         job' \in [Threads -> Jobs \cup {None}],
         \A u \in Threads \ {t} : job'[u] = job[u],
         l \in {"run", "enqueue", "store", "unpark"} => job'[t] # None,
         DOMAIN reg' = DOMAIN reg,
         UNCHANGED <<stop, inPlace, todo, si>>
  PROVE  TypeOK' /\ pc'[t] = l /\ (\A u \in Threads \ {t} : pc'[u] = pc[u])
<1>1. /\ pc' \in [Threads -> Labels]
      /\ pc'[t] = l
      /\ \A u \in Threads \ {t} : pc'[u] = pc[u]
  BY DEF TypeOK, Go
<1>2. \A u \in Threads : pc'[u] \in {"run", "enqueue", "store", "unpark"} => job'[u] # None
  BY <1>1 DEF TypeOK
<1>3. QED
  BY <1>1, <1>2 DEF TypeOK

\* What a step does to the deques when it changes one of them.
LEMMA DeqExcept ==
  ASSUME dq \in [Workers -> [Queues -> Deques]],
         NEW w \in Workers, NEW q \in Queues, NEW d \in Deques,
         dq' = [dq EXCEPT ![w][q] = d]
  PROVE  /\ dq' \in [Workers -> [Queues -> Deques]]
         /\ dq'[w][q] = d
         /\ \A v \in Workers, r \in Queues : ~(v = w /\ r = q) => dq'[v][r] = dq[v][r]
<1> DEFINE f == [dq[w] EXCEPT ![q] = d]
<1>1. f \in [Queues -> Deques] /\ \A r \in Queues : f[r] = IF r = q THEN d ELSE dq[w][r]
  OBVIOUS
<1>2. dq' = [dq EXCEPT ![w] = f]
  OBVIOUS
<1> HIDE DEF f
<1>3. \A v \in Workers : dq'[v] = IF v = w THEN f ELSE dq[v]
  BY <1>2
<1>4. QED
  BY <1>1, <1>2, <1>3

LEMMA DeqUpdate ==
  ASSUME CellsInv, NEW w \in Workers, NEW q \in Queues,
         \A v \in Workers, r \in Queues : ~(v = w /\ r = q) => dq'[v][r] = dq[v][r],
         \A i \in Indices : dq[w][q].cell[i] \in Jobs => dq'[w][q].cell[i] \in Jobs,
         Filled(dq'[w][q], dq'[w][q].top), Filled(dq'[w][q], dq'[w][q].bot)
  PROVE  /\ \A v \in Workers, r \in Queues, i \in Indices :
              dq[v][r].cell[i] \in Jobs => dq'[v][r].cell[i] \in Jobs
         /\ CellsInv'
<1>1. ASSUME NEW v \in Workers, NEW r \in Queues
      PROVE  /\ \A i \in Indices : dq[v][r].cell[i] \in Jobs => dq'[v][r].cell[i] \in Jobs
             /\ Filled(dq'[v][r], dq'[v][r].top) /\ Filled(dq'[v][r], dq'[v][r].bot)
  <2>1. CASE v = w /\ r = q
    BY <2>1
  <2>2. CASE ~(v = w /\ r = q)
    <3>1. dq'[v][r] = dq[v][r]
      BY <2>2
    <3>2. QED
      BY <3>1 DEF CellsInv
  <2>3. QED
    BY <2>1, <2>2
<1>2. CellsInv'
  BY <1>1 DEF CellsInv
<1>3. QED
  BY <1>1, <1>2

-----------------------------------------------------------------------------
(* enqueue *)

LEMMA EnqLoadStep ==
  ASSUME IInv, NEW t \in Threads, EnqLoad(t)
  PROVE  IInv'
<1>1. TypeOK /\ CellsInv
  BY DEF IInv
<1>2. job[t] \in Jobs /\ Target(job[t]) \in Workers /\ QueueFor(job[t]) \in Queues
  BY <1>1, TargetType DEF TypeOK, EnqLoad
<1>3. PICK d \in Deques :
        /\ d = dq[Target(job[t])][QueueFor(job[t])]
        /\ d.bot \in Indices /\ Filled(d, d.bot)
        /\ reg' = [reg EXCEPT ![t] = <<d.bot>>]
  <2> DEFINE d == dq[Target(job[t])][QueueFor(job[t])]
  <2>1. d \in Deques /\ Filled(d, d.bot)
    BY <1>1, <1>2 DEF TypeOK, CellsInv
  <2>2. d.bot < MaxPushes /\ reg' = [reg EXCEPT ![t] = <<d.bot>>]
    BY DEF EnqLoad
  <2> HIDE DEF d
  <2>3. d.bot \in Indices
    BY <2>1, <2>2 DEF Deques, Indices
  <2>4. QED
    BY <2>1, <2>2, <2>3 DEF d
<1>4. TypeOK' /\ pc'[t] = "store" /\ \A u \in Threads \ {t} : pc'[u] = pc[u]
  BY <1>1, <1>2, <1>3, TypeStep DEF EnqLoad, TypeOK, Labels
<1>5. StoreOk(t)'
  BY <1>1, <1>2, <1>3 DEF EnqLoad, StoreOk, TypeOK
<1>6. SearchOk(t)' /\ \A q \in Queues : ~Searched(t, q)'
  BY <1>4 DEF SearchOk, Searched
<1>7. \A w \in Workers : Woken(w) => Woken(w)'
  BY <1>4 DEF Woken, EnqLoad
<1>8. QED
  BY <1>1, <1>3, <1>4, <1>5, <1>6, <1>7, QuietStep DEF EnqLoad, TypeOK

LEMMA EnqStoreStep ==
  ASSUME IInv, NEW t \in Threads, EnqStore(t)
  PROVE  IInv'
<1>1. TypeOK /\ CellsInv /\ StoreInv
  BY DEF IInv
<1>2. job[t] \in Jobs
  BY <1>1 DEF EnqStore, TypeOK
<1>3. PICK w \in Workers, q \in Queues, b \in Indices :
        /\ w = Target(job[t]) /\ q = QueueFor(job[t]) /\ b = reg[t][1]
        /\ Filled(dq[w][q], b)
  BY <1>1, <1>2, TargetType DEF EnqStore, StoreInv, StoreOk
<1>4. dq[w][q] \in Deques
  BY <1>1 DEF TypeOK
<1>5. PICK d \in Deques :
        /\ dq' = [dq EXCEPT ![w][q] = d]
        /\ d.bot = b + 1 /\ d.top = dq[w][q].top
        /\ d.cell = [dq[w][q].cell EXCEPT ![b] = job[t]]
  <2> DEFINE c == [dq[w][q].cell EXCEPT ![b] = job[t]]
             d == [top |-> dq[w][q].top, bot |-> b + 1, cell |-> c]
  <2>1. c \in Cells /\ b + 1 \in 0..MaxPushes
    BY <1>2, <1>4 DEF Deques, Cells, Indices
  <2>2. dq' = [dq EXCEPT ![w][q] = d]
    BY <1>3 DEF EnqStore
  <2> HIDE DEF c
  <2>3. d \in Deques /\ d.top = dq[w][q].top /\ d.bot = b + 1 /\ d.cell = c
    BY <1>4, <2>1 DEF Deques
  <2> HIDE DEF d
  <2>4. QED
    BY <2>2, <2>3 DEF c
<1>6. \A i \in Indices :
        /\ dq[w][q].cell[i] \in Jobs => d.cell[i] \in Jobs
        /\ i < b + 1 => d.cell[i] \in Jobs
  <2>1. DOMAIN dq[w][q].cell = Indices
    BY <1>4 DEF Deques, Cells
  <2>2. \A i \in Indices : d.cell[i] = IF i = b THEN job[t] ELSE dq[w][q].cell[i]
    BY <1>5, <2>1
  <2>3. \A i \in Indices : i < b + 1 => i = b \/ i < b
    BY DEF Indices
  <2>4. QED
    BY <1>2, <1>3, <2>2, <2>3 DEF Filled
<1>7. Filled(d, d.top) /\ Filled(d, d.bot)
  BY <1>1, <1>5, <1>6 DEF CellsInv, Filled
<1>8. /\ dq' \in [Workers -> [Queues -> Deques]]
      /\ \A v \in Workers, r \in Queues : ~(v = w /\ r = q) => dq'[v][r] = dq[v][r]
      /\ \A v \in Workers, r \in Queues, i \in Indices :
           dq[v][r].cell[i] \in Jobs => dq'[v][r].cell[i] \in Jobs
      /\ CellsInv'
  <2>1. dq \in [Workers -> [Queues -> Deques]]
    BY <1>1 DEF TypeOK
  <2>2. /\ dq' \in [Workers -> [Queues -> Deques]]
        /\ dq'[w][q] = d
        /\ \A v \in Workers, r \in Queues : ~(v = w /\ r = q) => dq'[v][r] = dq[v][r]
    BY <1>5, <2>1, DeqExcept
  <2>3. QED
    BY <1>1, <1>6, <1>7, <2>2, DeqUpdate
<1>9. TypeOK' /\ pc'[t] = "unpark" /\ \A u \in Threads \ {t} : pc'[u] = pc[u]
  BY <1>1, <1>2, <1>8, TypeStep DEF EnqStore, TypeOK, Labels
<1>10. Woken(w)'
  BY <1>3, <1>9 DEF Woken, EnqStore
<1>11. \A v \in Workers, r \in Queues : NonEmpty(dq'[v][r]) => NonEmpty(dq[v][r]) \/ Woken(v)'
  BY <1>8, <1>10
<1>12. \A v \in Workers : Woken(v) => Woken(v)'
  BY <1>9 DEF Woken, EnqStore
<1>13. StoreOk(t)' /\ SearchOk(t)' /\ \A r \in Queues : ~Searched(t, r)'
  BY <1>9 DEF StoreOk, SearchOk, Searched
<1>14. QED
  BY <1>8, <1>9, <1>11, <1>12, <1>13, ThreadStep DEF EnqStore

LEMMA UnparkStep ==
  ASSUME IInv, NEW t \in Threads, Unpark(t)
  PROVE  IInv'
<1>1. TypeOK
  BY DEF IInv
<1>2. job[t] \in Jobs /\ Target(job[t]) \in Workers
  BY <1>1, TargetType DEF TypeOK, Unpark
<1>3. PICK l \in {"calls", "check"} : Go(t, l)
  BY DEF Unpark, Back
<1>4. TypeOK' /\ pc'[t] = l /\ \A u \in Threads \ {t} : pc'[u] = pc[u]
  <2>1. ev' \in [Workers -> BOOLEAN] /\ job' \in [Threads -> Jobs \cup {None}]
    BY <1>1, <1>2 DEF Unpark, Back, TypeOK
  <2>2. /\ \A u \in Threads \ {t} : job'[u] = job[u]
        /\ DOMAIN reg' = DOMAIN reg
        /\ l \in Labels /\ l \notin {"run", "enqueue", "store", "unpark"}
    BY <1>1 DEF Unpark, Back, TypeOK, Labels
  <2>3. UNCHANGED <<dq, stop, inPlace, place, todo, si>>
    BY DEF Unpark
  <2>4. dq \in [Workers -> [Queues -> Deques]] /\ place \in [Workers -> 0..2*N-1]
    BY <1>1 DEF TypeOK
  <2>5. QED
    BY <1>1, <1>3, <2>1, <2>2, <2>3, <2>4, TypeStep
<1>5. \A w \in Workers : Woken(w) => Woken(w)'
  BY <1>1, <1>2, <1>4 DEF Woken, Unpark, Back, TypeOK
<1>6. StoreOk(t)' /\ SearchOk(t)' /\ \A q \in Queues : ~Searched(t, q)'
  BY <1>4 DEF StoreOk, SearchOk, Searched
<1>7. QED
  BY <1>1, <1>4, <1>5, <1>6, QuietStep DEF Unpark, Back, TypeOK

-----------------------------------------------------------------------------
(* worker_main *)

LEMMA WorkerIsThread == \A w \in Workers : w \in Threads
BY DEF Workers, Threads

\* The steps that neither search nor touch a deque.
LEMMA CheckStopStep ==
  ASSUME IInv, NEW w \in Workers, CheckStop(w)
  PROVE  IInv'
<1>1. TypeOK
  BY DEF IInv
<1>2. PICK l \in {"exit", "look"} : Go(w, l)
  BY DEF CheckStop
<1>3. TypeOK' /\ pc'[w] = l /\ \A u \in Threads \ {w} : pc'[u] = pc[u]
  BY <1>1, <1>2, TypeStep, WorkerIsThread DEF CheckStop, TypeOK, Labels
<1>4. place'[w] = 0
  BY <1>1 DEF CheckStop, TypeOK
<1>5. StoreOk(w)' /\ SearchOk(w)' /\ \A q \in Queues : ~Searched(w, q)'
  BY <1>3, <1>4 DEF StoreOk, SearchOk, Searched
<1>6. \A v \in Workers : Woken(v) => Woken(v)'
  BY <1>3, WorkerIsThread DEF Woken, CheckStop
<1>7. QED
  BY <1>1, <1>3, <1>5, <1>6, QuietStep, WorkerIsThread DEF CheckStop, TypeOK

LEMMA RunJobStep ==
  ASSUME IInv, NEW w \in Workers, RunJob(w)
  PROVE  IInv'
<1>1. TypeOK
  BY DEF IInv
<1>2. job[w] \in Jobs
  BY <1>1, WorkerIsThread DEF TypeOK, RunJob
<1>3. PICK l \in {"check", "enqueue"} : Go(w, l) /\ (l = "enqueue" => Child[job[w]] # None)
  BY DEF RunJob
<1>4. job' \in [Threads -> Jobs \cup {None}] /\ job'[w] = Child[job[w]]
  BY <1>1, <1>2, WorkerIsThread DEF RunJob, TypeOK
<1>5. TypeOK' /\ pc'[w] = l /\ \A u \in Threads \ {w} : pc'[u] = pc[u]
  BY <1>1, <1>3, <1>4, TypeStep, WorkerIsThread DEF RunJob, TypeOK, Labels
<1>6. StoreOk(w)' /\ SearchOk(w)' /\ \A q \in Queues : ~Searched(w, q)'
  BY <1>5 DEF StoreOk, SearchOk, Searched
<1>7. \A v \in Workers : Woken(v) => Woken(v)'
  BY <1>1, <1>5, WorkerIsThread DEF Woken, RunJob, TypeOK
<1>8. QED
  BY <1>1, <1>5, <1>6, <1>7, QuietStep, WorkerIsThread DEF RunJob, TypeOK

LEMMA ParkStep ==
  ASSUME IInv, NEW w \in Workers, Park(w) \/ ParkTimeout(w)
  PROVE  IInv'
<1>1. TypeOK
  BY DEF IInv
<1>2. ev' \in [Workers -> BOOLEAN] /\ \A v \in Workers \ {w} : ev'[v] = ev[v]
  BY <1>1 DEF TypeOK, Park, ParkTimeout
<1>3. TypeOK' /\ pc'[w] = "check" /\ \A u \in Threads \ {w} : pc'[u] = pc[u]
  BY <1>1, <1>2, TypeStep, WorkerIsThread DEF Park, ParkTimeout, TypeOK, Labels
<1>4. StoreOk(w)' /\ SearchOk(w)' /\ \A q \in Queues : ~Searched(w, q)'
  BY <1>3 DEF StoreOk, SearchOk, Searched
<1>5. \A v \in Workers \ {w} : Woken(v) => Woken(v)'
  BY <1>2, <1>3, WorkerIsThread DEF Woken, Park, ParkTimeout
<1>6. QED
  BY <1>1, <1>3, <1>4, <1>5, QuietStep, WorkerIsThread DEF Park, ParkTimeout, TypeOK

-----------------------------------------------------------------------------
(* The search for a job.  Parts of it: going on to the next deque, ... *)
LEMMA NextPlaceTypes ==
  ASSUME TypeOK, NEW w \in Workers, NextPlace(w), pc[w] # "unpark",
         dq' \in [Workers -> [Queues -> Deques]],
         UNCHANGED <<ev, stop, inPlace, job, todo, si>>
  PROVE  /\ TypeOK' /\ pc'[w] \in {"look", "park"}
         /\ pc'[w] = "look" => place'[w] = place[w] + 1
         /\ \A u \in Threads \ {w} : pc'[u] = pc[u] /\ reg'[u] = reg[u]
         /\ \A v \in Workers \ {w} : place'[v] = place[v]
         /\ \A v \in Workers : Woken(v) => Woken(v)' \/ v = w
<1>1. place[w] \in 0..2*N-1
  BY DEF TypeOK
<1>2. /\ place' \in [Workers -> 0..2*N-1]
      /\ place'[w] = IF place[w] + 1 = 2*N THEN 0 ELSE place[w] + 1
      /\ \A v \in Workers \ {w} : place'[v] = place[v]
  BY <1>1 DEF NextPlace, TypeOK
<1>3. PICK l \in {"look", "park"} :
        Go(w, l) /\ (l = "look" => place[w] + 1 # 2*N)
  BY DEF NextPlace
<1>4. TypeOK' /\ pc'[w] = l /\ \A u \in Threads \ {w} : pc'[u] = pc[u]
  BY <1>2, <1>3, TypeStep, WorkerIsThread DEF NextPlace, TypeOK, Labels
<1>5. \A v \in Workers : Woken(v) => Woken(v)' \/ v = w
  BY <1>4 DEF Woken
<1>6. QED
  BY <1>2, <1>3, <1>4, <1>5 DEF NextPlace, TypeOK

\* ... the deque a worker looks into, ...
LEMMA HereFacts ==
  ASSUME TypeOK, CellsInv, NEW w \in Workers
  PROVE  \E v \in Workers, q \in Queues :
           /\ v = VictimOf(w) /\ q = QueueOf(w) /\ Here(w) = dq[v][q]
           /\ Here(w) \in Deques
           /\ Filled(Here(w), Here(w).top) /\ Filled(Here(w), Here(w).bot)
           /\ (v = w <=> place[w] < 2)
           /\ (place[w] < 2 => q = IF place[w] = 0 THEN "high" ELSE "norm")
<1>1. place[w] \in 0..2*N-1
  BY DEF TypeOK
<1>2. VictimOf(w) \in Workers /\ QueueOf(w) \in Queues
  BY <1>1, PlaceType
<1>3. /\ Here(w) = dq[VictimOf(w)][QueueOf(w)]
      /\ Here(w) \in Deques
      /\ Filled(Here(w), Here(w).top) /\ Filled(Here(w), Here(w).bot)
  BY <1>2 DEF Here, TypeOK, CellsInv
<1>4. QED
  BY <1>1, <1>2, <1>3, PlaceType

\* ... and a steal that failed.
LEMMA NotStolenStep ==
  ASSUME IInv, NEW w \in Workers, pc[w] \in {"look", "steal"}, NotStolen(w),
         UNCHANGED <<dq, ev, stop, inPlace, job, todo, si>>
  PROVE  IInv'
<1>1. TypeOK /\ CellsInv /\ place[w] \in 0..2*N-1
  BY DEF IInv, TypeOK
<1>2. CASE VictimOf(w) = w
  <2>1. place[w] < 2
    BY <1>1, <1>2, PlaceType
  <2>2. Go(w, "pop") /\ reg' = [reg EXCEPT ![w] = <<>>] /\ UNCHANGED place
    BY <1>2 DEF NotStolen
  <2>3. TypeOK' /\ pc'[w] = "pop" /\ \A u \in Threads \ {w} : pc'[u] = pc[u]
    BY <1>1, <2>2, TypeStep, WorkerIsThread DEF TypeOK, Labels
  <2>4. StoreOk(w)' /\ SearchOk(w)'
    BY <2>1, <2>2, <2>3 DEF StoreOk, SearchOk
  <2>5. \A q \in Queues : Searched(w, q)' => Searched(w, q)
    BY <2>2, <2>3 DEF Searched
  <2>6. \A v \in Workers : Woken(v) => Woken(v)'
    BY <2>3 DEF Woken
  <2>7. QED
    BY <1>1, <2>2, <2>3, <2>4, <2>5, <2>6, QuietStep, WorkerIsThread DEF TypeOK
<1>3. CASE VictimOf(w) # w
  <2>1. place[w] >= 2
    BY <1>1, <1>3, PlaceType
  <2>2. NextPlace(w)
    BY <1>3 DEF NotStolen
  <2>3. /\ TypeOK' /\ pc'[w] \in {"look", "park"}
        /\ \A u \in Threads \ {w} : pc'[u] = pc[u] /\ reg'[u] = reg[u]
        /\ \A v \in Workers \ {w} : place'[v] = place[v]
    BY <1>1, <2>2, NextPlaceTypes DEF TypeOK
  <2>4. StoreOk(w)' /\ SearchOk(w)'
    BY <2>3 DEF StoreOk, SearchOk
  <2>5. \A q \in Queues : Searched(w, q)
    BY <1>1, <2>1 DEF Searched
  <2>6. \A v \in Workers : Woken(v) => Woken(v)'
    BY <2>3 DEF Woken
  <2>7. QED
    BY <2>3, <2>4, <2>5, <2>6, QuietStep, WorkerIsThread
<1>4. QED
  BY <1>2, <1>3

LEMMA LookStep ==
  ASSUME IInv, NEW w \in Workers, Look(w)
  PROVE  IInv'
<1>1. TypeOK /\ CellsInv
  BY DEF IInv
<1>2. CASE ~NonEmpty(Here(w))
  BY <1>2, NotStolenStep DEF Look
<1>3. CASE NonEmpty(Here(w))
  <2>1. PICK d \in Deques : d = Here(w) /\ Filled(d, d.bot) /\ d.top < d.bot
    BY <1>1, <1>3, HereFacts DEF NonEmpty
  <2>2. d.top \in Indices /\ Filled(d, d.top + 1) /\ d.cell[d.top] \in Jobs
    BY <2>1 DEF Deques, Indices, Filled
  <2>3. reg' = [reg EXCEPT ![w] = <<d.top, d.cell[d.top]>>] /\ Go(w, "steal") /\ UNCHANGED place
    BY <1>3, <2>1 DEF Look
  <2>4. TypeOK' /\ pc'[w] = "steal" /\ \A u \in Threads \ {w} : pc'[u] = pc[u]
    BY <1>1, <2>3, TypeStep, WorkerIsThread DEF Look, TypeOK, Labels
  <2>5. Here(w)' = d
    BY <2>1, <2>3 DEF Look, Here, VictimOf, QueueOf
  <2>6. reg'[w][1] = d.top /\ reg'[w][2] = d.cell[d.top]
    BY <1>1, <2>3, WorkerIsThread DEF TypeOK
  <2>7. StoreOk(w)' /\ SearchOk(w)'
    BY <2>2, <2>4, <2>5, <2>6 DEF StoreOk, SearchOk
  <2>8. \A q \in Queues : Searched(w, q)' => Searched(w, q)
    BY <2>3, <2>4 DEF Look, Searched
  <2>9. \A v \in Workers : Woken(v) => Woken(v)'
    BY <2>4 DEF Look, Woken
  <2>10. QED
    BY <1>1, <2>3, <2>4, <2>7, <2>8, <2>9, QuietStep, WorkerIsThread DEF Look, TypeOK
<1>4. QED
  BY <1>2, <1>3

LEMMA StealLostStep ==
  ASSUME IInv, NEW w \in Workers, StealLost(w)
  PROVE  IInv'
BY NotStolenStep DEF StealLost

LEMMA PopLoadStep ==
  ASSUME IInv, NEW w \in Workers, PopLoad(w)
  PROVE  IInv'
<1>1. TypeOK /\ CellsInv /\ SearchOk(w)
  BY DEF IInv, SearchInv
<1>2. PICK d \in Deques : d = Here(w) /\ Filled(d, d.bot)
  BY <1>1, HereFacts
<1>3. d.bot - 1 \in -1..MaxPushes-1 /\ (d.bot - 1) + 1 = d.bot
  BY <1>2 DEF Deques
<1>4. reg' = [reg EXCEPT ![w] = <<d.bot - 1>>] /\ Go(w, "popped") /\ UNCHANGED place
  BY <1>2 DEF PopLoad
<1>5. TypeOK' /\ pc'[w] = "popped" /\ \A u \in Threads \ {w} : pc'[u] = pc[u]
  BY <1>1, <1>4, TypeStep, WorkerIsThread DEF PopLoad, TypeOK, Labels
<1>6. Here(w)' = d /\ reg'[w][1] = d.bot - 1
  <2>1. Here(w)' = Here(w)
    BY <1>4 DEF PopLoad, Here, VictimOf, QueueOf
  <2>2. reg'[w] = <<d.bot - 1>>
    BY <1>1, <1>4, WorkerIsThread DEF TypeOK
  <2>3. QED
    BY <1>2, <2>1, <2>2
<1>7. StoreOk(w)' /\ SearchOk(w)'
  BY <1>1, <1>2, <1>3, <1>4, <1>5, <1>6 DEF StoreOk, SearchOk, PopLoad
<1>8. \A q \in Queues : Searched(w, q)' => Searched(w, q)
  BY <1>4, <1>5 DEF PopLoad, Searched
<1>9. \A v \in Workers : Woken(v) => Woken(v)'
  BY <1>5 DEF PopLoad, Woken
<1>10. QED
  BY <1>1, <1>4, <1>5, <1>7, <1>8, <1>9, QuietStep, WorkerIsThread DEF PopLoad, TypeOK

LEMMA StealStep ==
  ASSUME IInv, NEW w \in Workers, Steal(w)
  PROVE  IInv'
<1>1. TypeOK /\ CellsInv /\ SearchOk(w) /\ pc[w] = "steal"
  BY DEF IInv, SearchInv, Steal
<1>2. PICK v \in Workers, q \in Queues :
        /\ v = VictimOf(w) /\ q = QueueOf(w) /\ Here(w) = dq[v][q]
        /\ Here(w) \in Deques /\ Filled(Here(w), Here(w).bot)
  BY <1>1, HereFacts
<1>3. PICK b \in Indices : b = dq[v][q].top /\ Filled(dq[v][q], b + 1)
  BY <1>1, <1>2 DEF SearchOk, Steal
<1>4. PICK d \in Deques :
        /\ dq' = [dq EXCEPT ![v][q] = d]
        /\ d.top = b + 1 /\ d.bot = dq[v][q].bot /\ d.cell = dq[v][q].cell
  <2> DEFINE d == [dq[v][q] EXCEPT !.top = @ + 1]
  <2>1. b + 1 \in 0..MaxPushes
    BY DEF Indices
  <2>2. d \in Deques /\ d.top = b + 1 /\ d.bot = dq[v][q].bot /\ d.cell = dq[v][q].cell
    BY <1>2, <1>3, <2>1 DEF Deques
  <2>3. dq' = [dq EXCEPT ![v][q] = d]
    BY <1>2 DEF Steal
  <2> HIDE DEF d
  <2>4. QED
    BY <2>2, <2>3
<1>5. /\ dq' \in [Workers -> [Queues -> Deques]]
      /\ dq'[v][q] = d
      /\ \A x \in Workers, r \in Queues : ~(x = v /\ r = q) => dq'[x][r] = dq[x][r]
  BY <1>1, <1>4, DeqExcept DEF TypeOK
<1>6. /\ \A x \in Workers, r \in Queues, i \in Indices :
           dq[x][r].cell[i] \in Jobs => dq'[x][r].cell[i] \in Jobs
      /\ CellsInv'
  <2>1. Filled(d, d.top) /\ Filled(d, d.bot)
    BY <1>2, <1>3, <1>4 DEF Filled
  <2>2. QED
    BY <1>1, <1>4, <1>5, <2>1, DeqUpdate
<1>7. job' = [job EXCEPT ![w] = reg[w][2]] /\ reg[w][2] \in Jobs
  BY <1>1 DEF Steal, SearchOk
<1>8. TypeOK' /\ pc'[w] = "run" /\ \A u \in Threads \ {w} : pc'[u] = pc[u]
  <2>1. /\ job' \in [Threads -> Jobs \cup {None}] /\ job'[w] # None
        /\ \A u \in Threads \ {w} : job'[u] = job[u]
    BY <1>1, <1>7, WorkerIsThread DEF TypeOK
  <2>2. QED
    BY <1>1, <1>5, <2>1, TypeStep, WorkerIsThread DEF Steal, TypeOK, Labels
<1>9. \A x \in Workers, r \in Queues : NonEmpty(dq'[x][r]) => NonEmpty(dq[x][r])
  <2>1. NonEmpty(d) => NonEmpty(dq[v][q])
    BY <1>2, <1>3, <1>4 DEF NonEmpty, Deques, Indices
  <2>2. QED
    BY <1>5, <2>1
<1>10. StoreOk(w)' /\ SearchOk(w)' /\ \A r \in Queues : ~Searched(w, r)'
  BY <1>8 DEF StoreOk, SearchOk, Searched
<1>11. \A x \in Workers : Woken(x) => Woken(x)'
  BY <1>1, <1>7, <1>8 DEF Steal, Woken, TypeOK
<1>12. QED
  BY <1>1, <1>6, <1>7, <1>8, <1>9, <1>10, <1>11, ThreadStep, WorkerIsThread DEF Steal, TypeOK

LEMMA PopStep ==
  ASSUME IInv, NEW w \in Workers, Pop(w)
  PROVE  IInv'
<1>1. TypeOK /\ CellsInv /\ SearchOk(w) /\ pc[w] = "popped"
  BY DEF IInv, SearchInv, Pop
<1>2. PICK q \in Queues :
        /\ q = QueueOf(w) /\ Here(w) = dq[w][q]
        /\ dq[w][q] \in Deques
  BY <1>1, HereFacts DEF SearchOk
<1>3. PICK b \in Indices : b = reg[w][1] /\ b >= dq[w][q].top /\ Filled(dq[w][q], b + 1)
  BY <1>1, <1>2 DEF SearchOk, Pop, Deques, Indices
<1>4. PICK d \in Deques :
        /\ dq' = [dq EXCEPT ![w][q] = d]
        /\ d.cell = dq[w][q].cell
        /\ \/ d.top = dq[w][q].top /\ d.bot = b
           \/ d.top = b + 1 /\ d.bot = b + 1
  <2> DEFINE d == IF b > dq[w][q].top THEN [dq[w][q] EXCEPT !.bot = b]
                  ELSE [dq[w][q] EXCEPT !.top = b + 1, !.bot = b + 1]
  <2>1. b \in 0..MaxPushes /\ b + 1 \in 0..MaxPushes
    BY DEF Indices
  <2>2. /\ d \in Deques /\ d.cell = dq[w][q].cell
        /\ \/ d.top = dq[w][q].top /\ d.bot = b
           \/ d.top = b + 1 /\ d.bot = b + 1
    BY <1>2, <2>1 DEF Deques
  <2>3. dq' = [dq EXCEPT ![w][q] = d]
    BY <1>2, <1>3 DEF Pop
  <2> HIDE DEF d
  <2>4. QED
    BY <2>2, <2>3
<1>5. /\ dq' \in [Workers -> [Queues -> Deques]]
      /\ dq'[w][q] = d
      /\ \A x \in Workers, r \in Queues : ~(x = w /\ r = q) => dq'[x][r] = dq[x][r]
  BY <1>1, <1>4, DeqExcept DEF TypeOK
<1>6. /\ \A x \in Workers, r \in Queues, i \in Indices :
           dq[x][r].cell[i] \in Jobs => dq'[x][r].cell[i] \in Jobs
      /\ CellsInv'
  <2>1. Filled(d, d.top) /\ Filled(d, d.bot)
    BY <1>1, <1>2, <1>3, <1>4 DEF CellsInv, Filled, Indices, Deques
  <2>2. QED
    BY <1>1, <1>4, <1>5, <2>1, DeqUpdate
<1>7. job' = [job EXCEPT ![w] = dq[w][q].cell[b]] /\ dq[w][q].cell[b] \in Jobs
  BY <1>2, <1>3 DEF Pop, Filled, Indices
<1>8. TypeOK' /\ pc'[w] = "run" /\ \A u \in Threads \ {w} : pc'[u] = pc[u]
  <2>1. /\ job' \in [Threads -> Jobs \cup {None}] /\ job'[w] # None
        /\ \A u \in Threads \ {w} : job'[u] = job[u]
    BY <1>1, <1>7, WorkerIsThread DEF TypeOK
  <2>2. QED
    BY <1>1, <1>5, <2>1, TypeStep, WorkerIsThread DEF Pop, TypeOK, Labels
<1>9. StoreOk(w)' /\ SearchOk(w)' /\ \A r \in Queues : ~Searched(w, r)'
  BY <1>8 DEF StoreOk, SearchOk, Searched
<1>10. \A x \in Workers : Woken(x) => Woken(x)'
  BY <1>1, <1>7, <1>8 DEF Pop, Woken, TypeOK
<1>11. QED
  <2>1. \A x \in Workers, r \in Queues :
          Searched(x, r)' /\ NonEmpty(dq'[x][r]) => NonEmpty(dq[x][r]) \/ Woken(x)'
    BY <1>5, <1>9
  <2>2. QED
    BY <1>1, <1>6, <1>7, <1>8, <2>1, <1>9, <1>10, ThreadStep, WorkerIsThread DEF Pop, TypeOK

LEMMA PopNothingStep ==
  ASSUME IInv, NEW w \in Workers, PopNothing(w)
  PROVE  IInv'
<1>1. TypeOK /\ CellsInv /\ SearchOk(w) /\ pc[w] = "popped"
  BY DEF IInv, SearchInv, PopNothing
<1>2. PICK q \in Queues :
        /\ q = QueueOf(w) /\ Here(w) = dq[w][q]
        /\ dq[w][q] \in Deques /\ Filled(dq[w][q], dq[w][q].top)
        /\ q = IF place[w] = 0 THEN "high" ELSE "norm"
  BY <1>1, HereFacts DEF SearchOk
<1>3. PICK d \in Deques :
        /\ dq' = [dq EXCEPT ![w][q] = d]
        /\ d.top = dq[w][q].top /\ d.bot = dq[w][q].top /\ d.cell = dq[w][q].cell
  <2> DEFINE d == [dq[w][q] EXCEPT !.bot = dq[w][q].top]
  <2>1. d \in Deques /\ d.top = dq[w][q].top /\ d.bot = dq[w][q].top /\ d.cell = dq[w][q].cell
    BY <1>2 DEF Deques
  <2>2. dq' = [dq EXCEPT ![w][q] = d]
    BY <1>2 DEF PopNothing
  <2> HIDE DEF d
  <2>3. QED
    BY <2>1, <2>2
<1>4. /\ dq' \in [Workers -> [Queues -> Deques]]
      /\ dq'[w][q] = d
      /\ \A x \in Workers, r \in Queues : ~(x = w /\ r = q) => dq'[x][r] = dq[x][r]
  BY <1>1, <1>3, DeqExcept DEF TypeOK
<1>5. /\ \A x \in Workers, r \in Queues, i \in Indices :
           dq[x][r].cell[i] \in Jobs => dq'[x][r].cell[i] \in Jobs
      /\ CellsInv'
  <2>1. Filled(d, d.top) /\ Filled(d, d.bot)
    BY <1>2, <1>3 DEF Filled
  <2>2. QED
    BY <1>1, <1>3, <1>4, <2>1, DeqUpdate
<1>6. NextPlace(w) /\ UNCHANGED <<ev, stop, inPlace, job, todo, si>>
  BY DEF PopNothing
<1>7. /\ TypeOK' /\ pc'[w] \in {"look", "park"}
      /\ pc'[w] = "look" => place'[w] = place[w] + 1
      /\ \A u \in Threads \ {w} : pc'[u] = pc[u] /\ reg'[u] = reg[u]
      /\ \A v \in Workers \ {w} : place'[v] = place[v]
  BY <1>1, <1>4, <1>6, NextPlaceTypes
<1>8. ~NonEmpty(dq'[w][q])
  BY <1>3, <1>4 DEF NonEmpty, Deques
<1>9. place[w] \in {0, 1} /\ (pc'[w] = "park" => place[w] = 1)
  <2>1. place[w] \in {0, 1}
    <3>1. place[w] \in 0..2*N-1 /\ place[w] < 2
      BY <1>1 DEF SearchOk, TypeOK
    <3>2. QED
      BY <3>1
  <2>2. place[w] + 1 = 2*N => place[w] = 1
    BY <2>1
  <2>3. pc'[w] = "park" => place[w] + 1 = 2*N
    BY <1>1, <1>6, WorkerIsThread DEF NextPlace, Go, TypeOK
  <2>4. QED
    BY <2>1, <2>2, <2>3
<1>10. \A r \in Queues : Searched(w, r)' => Searched(w, r) \/ ~NonEmpty(dq'[w][r])
  BY <1>1, <1>2, <1>7, <1>8, <1>9 DEF Searched, Queues
<1>11. \A x \in Workers, r \in Queues : NonEmpty(dq'[x][r]) => NonEmpty(dq[x][r])
  BY <1>4, <1>8
<1>12. StoreOk(w)' /\ SearchOk(w)'
  BY <1>7 DEF StoreOk, SearchOk
<1>13. \A x \in Workers : Woken(x) => Woken(x)'
  BY <1>1, <1>6, <1>7 DEF Woken
<1>14. QED
  BY <1>5, <1>6, <1>7, <1>10, <1>11, <1>12, <1>13, ThreadStep, WorkerIsThread

-----------------------------------------------------------------------------
LEMMA StepInv == IInv /\ [Next]_vars => IInv'
<1> SUFFICES ASSUME IInv, [Next]_vars PROVE IInv'
  OBVIOUS
<1>1. ASSUME NEW w \in Workers, Worker(w) \/ ParkTimeout(w) PROVE IInv'
  BY <1>1, CheckStopStep, LookStep, StealStep, StealLostStep, PopLoadStep,
     PopNothingStep, PopStep, RunJobStep, ParkStep DEF Worker
<1>2. ASSUME NEW t \in Threads, Enqueue(t) PROVE IInv'
  BY <1>2, EnqLoadStep, EnqStoreStep, UnparkStep DEF Enqueue
<1>3. CASE Owner \/ \E j \in todo : CallEnqueue(j)
  BY <1>3, OwnerStep
<1>4. CASE UNCHANGED vars
  <2>1. /\ \A w \in Workers : Here(w)' = Here(w) /\ (Woken(w)' <=> Woken(w))
        /\ UNCHANGED <<dq, ev, stop, inPlace, pc, job, reg, place, todo, si>>
    BY <1>4 DEF vars, Here, VictimOf, QueueOf, Woken
  <2>2. TypeOK' /\ CellsInv' /\ StoreInv'
    BY <2>1 DEF IInv, TypeOK, CellsInv, StoreInv, StoreOk, Filled
  <2>3. SearchInv'
    BY <2>1 DEF IInv, SearchInv, SearchOk, Filled
  <2>4. WakeInv'
    BY <2>1 DEF IInv, WakeInv, Searched, NonEmpty
  <2>5. QED
    BY <2>2, <2>3, <2>4 DEF IInv
<1>5. QED
  BY <1>1, <1>2, <1>3, <1>4 DEF Next

(***************************************************************************)
(* The invariant holds in every state, for every number of workers, jobs   *)
(* and children of jobs, whatever the interleaving of pushes and searches. *)
(***************************************************************************)
THEOREM Inductive == Spec => []IInv
<1>1. QED
  BY InitInv, StepInv, PTL DEF Spec

(***************************************************************************)
(* Every variable of the scheduler keeps its type; in particular what is   *)
(* taken out of a deque is a job, although pushes and pops may collide.    *)
(***************************************************************************)
THEOREM TypeCorrect == Spec => []TypeOK
<1>1. IInv => TypeOK
  BY DEF IInv
<1>2. QED
  BY <1>1, Inductive, PTL

(***************************************************************************)
(* No worker of worker_main sleeps in park on a job that enqueue pushed    *)
(* for it.                                                                 *)
(***************************************************************************)
THEOREM NoLostWakeups == Spec => []NoLostWakeup
<1>1. IInv => NoLostWakeup
  BY DEF IInv, WakeInv, NoLostWakeup, Searched
<1>2. QED
  BY <1>1, Inductive, PTL
=============================================================================
