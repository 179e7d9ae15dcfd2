-------------------------------- MODULE Driver --------------------------------
(* Driver (src/Foundation/Sys/Job/API/driver.rs), polled by one worker: timers *)
(* in a binary heap ordered by the time that remains, and completions of the   *)
(* system matched with the fibers that await them. now_ms is read anew by each *)
(* function that orders the heap, and once by poll; each turn of the loops of   *)
(* heap_up and heap_down is a step.                                            *)
EXTENDS Integers, Sequences

CONSTANTS
  MostTimers, \* bound: timers added, numbered as they come
  Delays,     \* wait_ms
  LastTick,   \* bound: the clock stops here, past every deadline
  HeapCap,    \* 64: timers, and awaited completions, kept at most
  Ovs         \* overlapped operations

DriverAssumption == HeapCap \in Nat /\ LastTick \in Nat
                           /\ MostTimers \in Nat /\ Delays \subseteq Nat

VARIABLES
  tick,       \* the clock, in milliseconds
  timers,     \* the heap: a sequence of [id, due]
  added,      \* timers added so far
  fired,      \* timers whose callback was called or fiber resumed
  polled,     \* the time poll read; meaningful inside its loop
  dpc,        \* "idle", "loop", "callback"; "pushed", "up", "down" in the heap
  caller,     \* where heap_up returns to: add_timer's caller, "idle" or "callback"
  hole,       \* i of heap_up and heap_down
  now,        \* the time they read
  nested,     \* whether a callback added a timer while the heap was unordered
  awaited,    \* maps: the operations with a fiber waiting
  packets,    \* completions in the port, in order
  resumed     \* operations whose fiber was resumed

sift    == <<caller, hole, now>>
wheel   == <<tick, timers, added, fired, polled, dpc, nested, sift>>
port    == <<awaited, packets, resumed>>
drvvars == <<wheel, port>>

Init ==
  /\ tick = 0 /\ timers = <<>> /\ added = 0 /\ fired = {} /\ polled = 0
  /\ dpc = "idle" /\ nested = FALSE /\ awaited = {} /\ packets = <<>> /\ resumed = {}
  /\ caller = "idle" /\ hole = 1 /\ now = 0

RemWait(t, at) == IF t.due <= at THEN 0 ELSE t.due - at
Swapped(s, i, j) == [s EXCEPT ![i] = s[j], ![j] = s[i]]
Sooner(i, j) == RemWait(timers[i], now) < RemWait(timers[j], now)

(* Indices from 1: the parent of i is i \div 2, its children are 2i and 2i + 1.*)
Sift(j) == timers' = Swapped(timers, hole, j) /\ hole' = j

HeapUpBegins ==
  /\ dpc = "pushed"
  /\ now' = tick /\ hole' = Len(timers) /\ dpc' = "up"
  /\ UNCHANGED <<tick, timers, added, fired, polled, nested, caller, port>>
HeapUp ==
  /\ dpc = "up"
  /\ IF hole > 1 /\ Sooner(hole, hole \div 2)
     THEN Sift(hole \div 2) /\ UNCHANGED dpc
     ELSE dpc' = caller /\ UNCHANGED <<timers, hole>>
  /\ UNCHANGED <<tick, added, fired, polled, nested, caller, now, port>>

Left == 2 * hole
Least == IF Left < Len(timers) /\ Sooner(Left + 1, Left) THEN Left + 1 ELSE Left
HeapDown ==
  /\ dpc = "down"
  /\ IF Left <= Len(timers) /\ Sooner(Least, hole)
     THEN Sift(Least) /\ UNCHANGED dpc
     ELSE dpc' = "loop" /\ UNCHANGED <<timers, hole>>
  /\ UNCHANGED <<tick, added, fired, polled, nested, caller, now, port>>

(* swap_remove(0): the last takes the place of the first.                      *)
WithoutFirst(s) ==
  IF Len(s) = 1 THEN <<>> ELSE <<s[Len(s)]>> \o SubSeq(s, 2, Len(s) - 1)

Tick ==
  /\ tick < LastTick /\ tick' = tick + 1
  /\ UNCHANGED <<timers, added, fired, polled, dpc, nested, sift, port>>

(* add_timer and add_timeout, from outside poll or from a callback of it.      *)
AddTimer(delay) ==
  /\ dpc \in {"idle", "callback"} /\ added < MostTimers /\ Len(timers) < HeapCap
  /\ tick + delay <= LastTick
  /\ timers' = Append(timers, [id |-> added + 1, due |-> tick + delay])
  /\ added' = added + 1 /\ caller' = dpc /\ dpc' = "pushed"
  /\ nested' = (nested \/ (dpc = "callback" /\ timers # <<>>))
  /\ UNCHANGED <<tick, fired, polled, hole, now, port>>

(* poll: at most one completion, then the timers that are due.                 *)
\* Mutant: the fiber is read from the list after its entry has been taken out,
\* and is that of the entry that took its place, if one did.
PollPortReadsLate ==
  /\ dpc = "idle"
  /\ IF packets = <<>> THEN UNCHANGED port
     ELSE /\ packets' = Tail(packets)
          /\ awaited' = awaited \ {Head(packets)}
          /\ resumed' \in IF awaited' = {} THEN {resumed}
                          ELSE {resumed \cup {ov} : ov \in awaited'}
  /\ polled' = tick /\ dpc' = "loop"
  /\ UNCHANGED <<tick, timers, added, fired, nested, sift>>
PollPort ==
  /\ dpc = "idle"
  /\ IF packets = <<>> THEN UNCHANGED port
     ELSE /\ packets' = Tail(packets)
          /\ IF Head(packets) \in awaited
             THEN awaited' = awaited \ {Head(packets)} /\ resumed' = resumed \cup {Head(packets)}
             ELSE UNCHANGED <<awaited, resumed>>
  /\ polled' = tick /\ dpc' = "loop"
  /\ UNCHANGED <<tick, timers, added, fired, nested, sift>>
Due == IF timers = <<>> THEN FALSE ELSE RemWait(timers[1], polled) = 0
PollFire ==
  /\ dpc = "loop" /\ Due
  /\ fired' = fired \cup {timers[1].id}
  /\ timers' = WithoutFirst(timers) /\ dpc' = "callback"
  /\ UNCHANGED <<tick, added, polled, nested, sift, port>>

PollDown ==
  /\ dpc = "callback"
  /\ IF timers = <<>> THEN dpc' = "loop" /\ UNCHANGED <<hole, now>>
     ELSE dpc' = "down" /\ hole' = 1 /\ now' = tick
  /\ UNCHANGED <<tick, timers, added, fired, polled, nested, caller, port>>
PollEnds ==
  /\ dpc = "loop" /\ ~Due
  /\ dpc' = "idle"
  /\ UNCHANGED <<tick, timers, added, fired, polled, nested, sift, port>>

(* await_iocp before the operation is issued, and its completion. One that     *)
(* completes with an error is taken from the port and forgotten by get_queued. *)
Await(ov) ==
  /\ dpc = "idle" /\ ov \notin awaited \cup resumed
  /\ \A i \in 1 .. Len(packets) : packets[i] # ov
  /\ awaited' = awaited \cup {ov}
  /\ UNCHANGED <<wheel, packets, resumed>>
Complete(ov) ==
  /\ ov \in awaited /\ \A i \in 1 .. Len(packets) : packets[i] # ov
  /\ packets' = Append(packets, ov)
  /\ UNCHANGED <<wheel, awaited, resumed>>

Heap == HeapUpBegins \/ HeapUp \/ HeapDown
Poll == PollPort \/ PollFire \/ PollDown \/ PollEnds \/ Heap
Next == \/ Poll \/ Tick
        \/ \E delay \in Delays : AddTimer(delay)
        \/ \E ov \in Ovs : Await(ov) \/ Complete(ov)
Spec == Init /\ [][Next]_drvvars /\ WF_drvvars(Poll) /\ WF_drvvars(Tick)
-----------------------------------------------------------------------------
(* No timer is lost or fired twice, and between polls the heap    *)
(* has the least remaining time first, although it is compared at different    *)
(* times and remainders stop at zero; unless a callback added a timer while    *)
(* the last element stood at the root, not yet moved down.                     *)
Pending == {timers[i].id : i \in 1 .. Len(timers)}
HeapOrdered == \A i \in 2 .. Len(timers) :
                 RemWait(timers[i \div 2], tick) <= RemWait(timers[i], tick)
TimersKept ==
  /\ Pending \cap fired = {} /\ Pending \cup fired = 1..added
  /\ \A i, j \in 1 .. Len(timers) : timers[i].id = timers[j].id => i = j
  /\ dpc \in {"idle", "loop"} /\ ~nested => HeapOrdered

(* Polled on and on, the driver empties its heap, even one whose order was     *)
(* broken, and TimersKept says that what left it has fired; and every awaited  *)
(* operation that completes without an error has its fiber resumed.            *)
EverythingFires ==
  /\ (timers # <<>>) ~> (timers = <<>>)
  /\ \A ov \in Ovs : (\E i \in 1 .. Len(packets) : packets[i] = ov) ~> (ov \in resumed)
=============================================================================
