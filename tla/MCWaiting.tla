------------------------------- MODULE MCWaiting -------------------------------
(* Instances of everything in the repository that waits and is woken: the      *)
(* consumers of the MPMC queue, the waiters of a TaskGroup and of a Counter,   *)
(* the fibers of a FiberEvent, the timers and completions of a Driver, and the *)
(* messages of the main loop. One behaviour is of one of them, chosen at the   *)
(* start; the others keep their initial state.                                 *)
EXTENDS Integers, Sequences

CONSTANTS
  Producers, Consumers, Values, None, Capacity, MaxTickets,  \* of the queue
  Waiters, Tasks,                                            \* of the group
  Fibers,                                                    \* of the event
  CWaiters, CWorkers, CStart,                                \* of the counter
  MostTimers, Delays, LastTick, HeapCap, Ovs,                \* of the driver
  Fixed, Gaps, Horizon, Posts,                               \* of the loop
  w1, f1                                                     \* a waiter and a fiber

VARIABLES head, tail, seq, val, ppc, pt, pv, cpcq, ch, cv, sent, got,
          tasks, gsignaled, task, wpc, owed,
          esignaled, waiting, fpc, next, spc, taken, before, early,
          word, share, cpc, cur, wakes, timed,
          tick, timers, added, fired, polled, dpc, nested, caller, hole, now,
          awaited, packets, resumed,
          apc, device, hasModel, window, messages, posted, quit, clock, acc, steps, ringOpen,
          passes, frame,
          which

queue   == <<head, tail, seq, val, ppc, pt, pv, cpcq, ch, cv, sent, got>>
group   == <<tasks, gsignaled, task, wpc, owed>>
event   == <<esignaled, waiting, fpc, next, spc, taken, before, early>>
counter == <<word, share, cpc, cur, wakes, timed>>
driver  == <<tick, timers, added, fired, polled, dpc, nested, caller, hole, now,
             awaited, packets, resumed>>
loop    == <<apc, device, hasModel, window, messages, posted, quit, clock, acc, steps, ringOpen,
             passes, frame>>
all     == <<queue, group, event, counter, driver, loop, which>>

Q == INSTANCE MPMCQueue WITH cpc <- cpcq
G == INSTANCE TaskGroup WITH n <- tasks, signaled <- gsignaled
E == INSTANCE FiberEvent WITH signaled <- esignaled
C == INSTANCE Counter
D == INSTANCE Driver
A == INSTANCE AppFrame WITH queue <- messages

ASSUME Constants ==
  /\ C!CounterAssumption /\ D!DriverAssumption /\ A!AppAssumption
  /\ w1 \in Waiters \cap CWaiters /\ f1 \in Fibers

Init ==
  /\ which \in {"queue", "group", "event", "counter", "driver", "loop"}
  /\ Q!Init /\ G!Init /\ E!Init /\ D!Init /\ A!Init
  /\ C!Init
  /\ which # "counter" => share = [k \in CWorkers |-> 1] /\ timed = [w \in CWaiters |-> FALSE]

Next ==
  /\ UNCHANGED which
  /\ \/ which = "queue" /\ Q!Next /\ UNCHANGED <<group, event, counter, driver, loop>>
     \/ which = "group" /\ G!Next /\ UNCHANGED <<queue, event, counter, driver, loop>>
     \/ which = "event" /\ E!Next /\ UNCHANGED <<queue, group, counter, driver, loop>>
     \/ which = "counter" /\ C!Next /\ UNCHANGED <<queue, group, event, driver, loop>>
     \/ which = "driver" /\ D!Next /\ UNCHANGED <<queue, group, event, counter, loop>>
     \/ which = "loop" /\ A!Next /\ UNCHANGED <<queue, group, event, counter, driver>>

(* The fairness of each module, for the one that runs.                         *)
Fair ==
  /\ \A p \in Producers : WF_queue(which = "queue" /\ Q!ProducerStep(p))
  /\ \A c \in Consumers : WF_queue(which = "queue" /\ Q!ConsumerStep(c))
  /\ \A k \in Tasks : /\ WF_group(which = "group" /\ G!AddReset(k))
                      /\ WF_group(which = "group" /\ G!Run(k))
  /\ \A w \in Waiters : WF_group(which = "group" /\ G!Wait(w))
  /\ WF_event(which = "event" /\ E!Signal)
  /\ \A f \in Fibers : WF_event(which = "event" /\ E!Await(f))
  /\ \A k \in CWorkers : WF_counter(which = "counter" /\ C!Worker(k))
  /\ \A w \in CWaiters : WF_counter(which = "counter" /\ C!Waiter(w))
  /\ WF_driver(which = "driver" /\ D!Poll) /\ WF_driver(which = "driver" /\ D!Tick)
  /\ WF_loop(which = "loop" /\ A!Main)

Spec == Init /\ [][Next]_all /\ Fair
-----------------------------------------------------------------------------
(* wait of a TaskGroup returns only when every task counted when it was called *)
(* has run (counter.rs of Sys.Job).                                            *)
GroupWaitSound == which = "group" => G!GroupWaitSound

(* The lists of those who wait are kept by racing calls: a fiber that waits    *)
(* has exactly one node, in the list or in the hands of signal_all, and only   *)
(* one that pushed itself after the signal, or was resumed before it had       *)
(* suspended, can stay behind; a timer is in the heap, or has fired once, and  *)
(* between two polls the heap is ordered unless a callback added to it         *)
(* (event.rs, driver.rs).                                                      *)
ListsKept ==
  /\ which = "event" => E!NodesAccounted
  /\ which = "driver" => D!TimersKept

(* What was accepted by the queue is dequeued (mpmc_queue.rs).                 *)
EventuallyDequeued == Q!EventuallyDequeued

(* Every wait ends: of a TaskGroup, although a signal wakes one waiter and may *)
(* be erased; of a fiber that had suspended when the event was signalled;      *)
(* of wait_zero once the count is zero, without the help of its timeout. The    *)
(* waiters are interchangeable, so it is asked of one of each kind.            *)
WaitsEnd == G!WaitReturnsTo(w1) /\ E!Resumed(f1) /\ C!ZeroReturnsTo(w1)

(* Polled on and on, the driver fires every timer and resumes the fiber of     *)
(* every completion (driver.rs).                                               *)
EverythingFires == D!EverythingFires

(* The main loop conserves time and asks the device for whole frames; a close  *)
(* that was posted ends the program with its window destroyed (main.rs).       *)
AppSound == A!AppSound
CloseEnds == A!CloseEnds
=============================================================================
