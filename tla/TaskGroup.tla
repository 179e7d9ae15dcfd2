------------------------------ MODULE TaskGroup ------------------------------
(***************************************************************************)
(* Waiting for a group of tasks (Foundation/Sys/Job/API/counter.rs): an    *)
(* atomic count and a Parker, which is an event of the operating system    *)
(* that a wait which it releases also clears (Cap.Concurrency parker.rs,   *)
(* event_create(false, false)).  The callers follow the protocol of the    *)
(* job sample: a task is counted before it is enqueued.                    *)
(*                                                                         *)
(* Each atomic operation and each call of the event is a step.             *)
(***************************************************************************)
EXTENDS Naturals, FiniteSets

CONSTANTS
  Waiters,   \* threads that call wait
  Tasks      \* the tasks of the group

VARIABLES
  n, signaled,
  task,      \* per task: "new", "counted", "queued", "ran", "last", "over"
  wpc,       \* per waiter: "idle", "load", "parked", "returned"
  owed       \* history, per waiter: the tasks counted when its wait began

vars == <<n, signaled, task, wpc, owed>>

Init ==
  /\ n = 0 /\ signaled = FALSE
  /\ task = [k \in Tasks |-> "new"]
  /\ wpc = [w \in Waiters |-> "idle"]
  /\ owed = [w \in Waiters |-> {}]

Advance(k, from, to) == task[k] = from /\ task' = [task EXCEPT ![k] = to]
Goto(w, from, to) == wpc[w] = from /\ wpc' = [wpc EXCEPT ![w] = to]

-----------------------------------------------------------------------------
(* add_tasks(1), then enqueue *)

\* Mutant: the count is stored, not added to.
AddCountStored(k) ==
  /\ Advance(k, "new", "counted")
  /\ n' = 1
  /\ UNCHANGED <<signaled, wpc, owed>>

AddCount(k) ==
  /\ Advance(k, "new", "counted")
  /\ n' = n + 1
  /\ UNCHANGED <<signaled, wpc, owed>>

AddReset(k) ==
  /\ Advance(k, "counted", "queued")
  /\ signaled' = FALSE
  /\ UNCHANGED <<n, wpc, owed>>

-----------------------------------------------------------------------------
(* A worker runs the task and calls task_done *)

RunTask(k) ==
  /\ Advance(k, "queued", "ran")
  /\ UNCHANGED <<n, signaled, wpc, owed>>

DoneCount(k) ==
  /\ Advance(k, "ran", IF n = 1 THEN "last" ELSE "over")
  /\ n' = n - 1
  /\ UNCHANGED <<signaled, wpc, owed>>

DoneSignal(k) ==
  /\ Advance(k, "last", "over")
  /\ signaled' = TRUE
  /\ UNCHANGED <<n, wpc, owed>>

-----------------------------------------------------------------------------
(* wait *)

Counted == {k \in Tasks : task[k] # "new"}

WaitBegin(w) ==
  /\ Goto(w, "idle", "load")
  /\ owed' = [owed EXCEPT ![w] = Counted]
  /\ UNCHANGED <<n, signaled, task>>

\* Mutant: wait returns when it is woken, without another look at the count.
WakeReturns(w) ==
  /\ signaled
  /\ Goto(w, "parked", "returned")
  /\ signaled' = FALSE
  /\ UNCHANGED <<n, task, owed>>

WaitLoad(w) ==
  /\ Goto(w, "load", IF n = 0 THEN "returned" ELSE "parked")
  /\ UNCHANGED <<n, signaled, task, owed>>

\* The event is set, now or since before park: the wait clears it.
Wake(w) ==
  /\ signaled
  /\ Goto(w, "parked", "load")
  /\ signaled' = FALSE
  /\ UNCHANGED <<n, task, owed>>

\* Mutant: park without a timeout.
NoTimeout(w) == FALSE /\ UNCHANGED vars

\* The 1000 ms are over.
Timeout(w) ==
  /\ Goto(w, "parked", "load")
  /\ UNCHANGED <<n, signaled, task, owed>>

Caller(k) == AddCount(k) \/ AddReset(k)
Run(k) == RunTask(k) \/ DoneCount(k) \/ DoneSignal(k)
Wait(w) == WaitLoad(w) \/ Wake(w) \/ Timeout(w)

Next ==
  \/ \E k \in Tasks : Caller(k) \/ Run(k)
  \/ \E w \in Waiters : WaitBegin(w) \/ Wait(w)

Spec == Init /\ [][Next]_vars

\* Threads run, and a parked thread comes back by the event or the timeout.
\* Nothing makes a caller add tasks or begin to wait; once it has counted a
\* task it goes on to enqueue it.
Fairness ==
  /\ \A k \in Tasks : WF_vars(AddReset(k)) /\ WF_vars(Run(k))
  /\ \A w \in Waiters : WF_vars(Wait(w))

FairSpec == Spec /\ Fairness

-----------------------------------------------------------------------------
(* Properties *)

Live == {"counted", "queued", "ran"}

\* The count is the number of tasks counted and not taken back.
TypeOK ==
  /\ n = Cardinality({k \in Tasks : task[k] \in Live})
  /\ signaled \in BOOLEAN
  /\ task \in [Tasks -> {"new", "counted", "queued", "ran", "last", "over"}]
  /\ wpc \in [Waiters -> {"idle", "load", "parked", "returned"}]

(***************************************************************************)
(* wait returns only when every task that was counted when it was called   *)
(* has run, whatever tasks were added in the meantime and whoever took the *)
(* one signal.                                                             *)
(***************************************************************************)
GroupWaitSound ==
  \A w \in Waiters : wpc[w] = "returned" =>
    \A k \in owed[w] : task[k] \in {"last", "over"}

(***************************************************************************)
(* Every wait returns although the event wakes one waiter only and a late  *)
(* reset of add_tasks may erase the signal: the timeout makes up for both. *)
(***************************************************************************)
WaitReturnsTo(w) == wpc[w] = "load" ~> wpc[w] = "returned"
WaitReturns == \A w \in Waiters : WaitReturnsTo(w)
=============================================================================
