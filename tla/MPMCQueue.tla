----------------------------- MODULE MPMCQueue -----------------------------
(***************************************************************************)
(* The bounded multi-producer multi-consumer queue of Cap.Containers       *)
(* (Foundation/Cap/Containers/API/mpmc_queue.rs): a ring of slots, each    *)
(* with a sequence number, and two ticket counters.  An operation takes a  *)
(* ticket with a compare-and-swap and then owns the ticket's slot until it *)
(* stores the slot's next sequence number.                                 *)
(*                                                                         *)
(* Every atomic access of the code is a step of its own, so the steps of   *)
(* all threads interleave between any two of them.                         *)
(***************************************************************************)
EXTENDS Integers, FiniteSets, TLC

CONSTANTS
  Producers,   \* threads that call enqueue
  Consumers,   \* threads that call dequeue
  Values,      \* the payloads
  Capacity,    \* capacity_pow2
  MaxTickets,  \* bound: enqueues that may be accepted
  None         \* "no value": an uninitialised slot, no result

IsPow2(n) == \E k \in 0..n : n = 2^k

\* The check of with_capacity: a positive power of two (1 is accepted).
ASSUME CapacityAssumption == Capacity \in Nat \ {0}
ASSUME Pow2Assumption == IsPow2(Capacity)
ASSUME BoundAssumption == MaxTickets \in Nat
ASSUME ValuesAssumption == None \notin Values

\* Producers, consumers and values are interchangeable; TLC uses it.
Symmetry == Permutations(Producers) \cup Permutations(Consumers) \cup Permutations(Values)

VARIABLES
  head, tail,  \* the ticket counters
  seq, val,    \* the slots: sequence number and payload
  ppc, pt, pv, \* per producer: program counter, ticket t, argument v
  cpc, ch, cv, \* per consumer: program counter, ticket h, value read
  sent, got    \* history: value accepted / returned for each ticket

pvars == <<ppc, pt, pv>>
cvars == <<cpc, ch, cv>>
vars == <<head, tail, seq, val, ppc, pt, pv, cpc, ch, cv, sent, got>>

Slots == 0..Capacity-1
Tickets == 0..MaxTickets-1

\* Mutant: the producer stores t back instead of t + 1.
UnpublishedSeq(t) == t

\* Mutant: the mask lost its lowest bit.
CoarseSlotOf(t) == (t - (t % 2)) % Capacity

(***************************************************************************)
(* t & mask: the capacity is a power of two and mask = capacity - 1.       *)
(***************************************************************************)
SlotOf(t) == t % Capacity

(***************************************************************************)
(* The sequence number that hands a slot to the consumer of ticket t, and  *)
(* the one that hands it to the producer of the next lap.                  *)
(***************************************************************************)
PublishedSeq(t) == t + 1

ReleasedSeq(h) == h + Capacity

Init ==
  /\ head = 0 /\ tail = 0
  /\ seq = [i \in Slots |-> i]
  /\ val = [i \in Slots |-> None]
  /\ ppc = [p \in Producers |-> "idle"]
  /\ pt  = [p \in Producers |-> 0]
  /\ pv  = [p \in Producers |-> None]
  /\ cpc = [c \in Consumers |-> "idle"]
  /\ ch  = [c \in Consumers |-> 0]
  /\ cv  = [c \in Consumers |-> None]
  /\ sent = [t \in Tickets |-> None]
  /\ got  = [t \in Tickets |-> None]

-----------------------------------------------------------------------------
(* enqueue(v) *)

EnqCall(p, v) ==
  /\ ppc[p] = "idle"
  /\ tail < MaxTickets
  /\ ppc' = [ppc EXCEPT ![p] = "loadTail"]
  /\ pv' = [pv EXCEPT ![p] = v]
  /\ UNCHANGED <<head, tail, seq, val, pt, cvars, sent, got>>

EnqLoadTail(p) ==
  /\ ppc[p] = "loadTail"
  /\ tail < MaxTickets
  /\ pt' = [pt EXCEPT ![p] = tail]
  /\ ppc' = [ppc EXCEPT ![p] = "loadSeq"]
  /\ UNCHANGED <<head, tail, seq, val, pv, cvars, sent, got>>

\* dif == 0: the slot is free for this ticket.
EnqSeesFree(p) ==
  /\ ppc[p] = "loadSeq"
  /\ seq[SlotOf(pt[p])] = pt[p]
  /\ ppc' = [ppc EXCEPT ![p] = "cas"]
  /\ UNCHANGED <<head, tail, seq, val, pt, pv, cvars, sent, got>>

\* dif < 0: the previous lap still owns the slot; Err(OutOfMemory).
EnqFull(p) ==
  /\ ppc[p] = "loadSeq"
  /\ seq[SlotOf(pt[p])] < pt[p]
  /\ ppc' = [ppc EXCEPT ![p] = "idle"]
  /\ UNCHANGED <<head, tail, seq, val, pt, pv, cvars, sent, got>>

\* dif > 0: another producer already took the ticket; once more.
EnqStale(p) ==
  /\ ppc[p] = "loadSeq"
  /\ seq[SlotOf(pt[p])] > pt[p]
  /\ ppc' = [ppc EXCEPT ![p] = "loadTail"]
  /\ UNCHANGED <<head, tail, seq, val, pt, pv, cvars, sent, got>>

\* Mutant: a plain store instead of the compare-and-swap.
EnqBlindClaim(p) ==
  /\ ppc[p] = "cas"
  /\ tail' = pt[p] + 1
  /\ sent' = [sent EXCEPT ![pt[p]] = pv[p]]
  /\ ppc' = [ppc EXCEPT ![p] = "write"]
  /\ UNCHANGED <<head, seq, val, pt, pv, cvars, got>>

EnqClaim(p) ==
  /\ ppc[p] = "cas"
  /\ tail = pt[p]
  /\ tail' = pt[p] + 1
  /\ sent' = [sent EXCEPT ![pt[p]] = pv[p]]
  /\ ppc' = [ppc EXCEPT ![p] = "write"]
  /\ UNCHANGED <<head, seq, val, pt, pv, cvars, got>>

EnqLost(p) ==
  /\ ppc[p] = "cas"
  /\ tail # pt[p]
  /\ ppc' = [ppc EXCEPT ![p] = "loadTail"]
  /\ UNCHANGED <<head, tail, seq, val, pt, pv, cvars, sent, got>>

EnqWrite(p) ==
  /\ ppc[p] = "write"
  /\ val' = [val EXCEPT ![SlotOf(pt[p])] = pv[p]]
  /\ ppc' = [ppc EXCEPT ![p] = "publish"]
  /\ UNCHANGED <<head, tail, seq, pt, pv, cvars, sent, got>>

\* Mutant: the sequence number is published before the payload is written.
EnqPublishEarly(p) ==
  /\ ppc[p] \in {"write", "publish"}
  /\ seq' = [seq EXCEPT ![SlotOf(pt[p])] = PublishedSeq(pt[p])]
  /\ ppc' = [ppc EXCEPT ![p] = "idle"]
  /\ UNCHANGED <<head, tail, val, pt, pv, cvars, sent, got>>

EnqPublish(p) ==
  /\ ppc[p] = "publish"
  /\ seq' = [seq EXCEPT ![SlotOf(pt[p])] = PublishedSeq(pt[p])]
  /\ ppc' = [ppc EXCEPT ![p] = "idle"]
  /\ UNCHANGED <<head, tail, val, pt, pv, cvars, sent, got>>

-----------------------------------------------------------------------------
(* dequeue() *)

DeqLoadHead(c) ==
  /\ cpc[c] \in {"idle", "loadHead"}
  /\ ch' = [ch EXCEPT ![c] = head]
  /\ cpc' = [cpc EXCEPT ![c] = "loadSeq"]
  /\ UNCHANGED <<head, tail, seq, val, pvars, cv, sent, got>>

DeqSeesFull(c) ==
  /\ cpc[c] = "loadSeq"
  /\ seq[SlotOf(ch[c])] = ch[c] + 1
  /\ cpc' = [cpc EXCEPT ![c] = "cas"]
  /\ UNCHANGED <<head, tail, seq, val, pvars, ch, cv, sent, got>>

\* dif < 0: nothing published for this ticket; None.
DeqEmpty(c) ==
  /\ cpc[c] = "loadSeq"
  /\ seq[SlotOf(ch[c])] < ch[c] + 1
  /\ cpc' = [cpc EXCEPT ![c] = "idle"]
  /\ UNCHANGED <<head, tail, seq, val, pvars, ch, cv, sent, got>>

DeqStale(c) ==
  /\ cpc[c] = "loadSeq"
  /\ seq[SlotOf(ch[c])] > ch[c] + 1
  /\ cpc' = [cpc EXCEPT ![c] = "loadHead"]
  /\ UNCHANGED <<head, tail, seq, val, pvars, ch, cv, sent, got>>

DeqClaim(c) ==
  /\ cpc[c] = "cas"
  /\ head = ch[c]
  /\ head' = ch[c] + 1
  /\ cpc' = [cpc EXCEPT ![c] = "read"]
  /\ UNCHANGED <<tail, seq, val, pvars, ch, cv, sent, got>>

DeqLost(c) ==
  /\ cpc[c] = "cas"
  /\ head # ch[c]
  /\ cpc' = [cpc EXCEPT ![c] = "loadHead"]
  /\ UNCHANGED <<head, tail, seq, val, pvars, ch, cv, sent, got>>

DeqRead(c) ==
  /\ cpc[c] = "read"
  /\ cv' = [cv EXCEPT ![c] = val[SlotOf(ch[c])]]
  /\ cpc' = [cpc EXCEPT ![c] = "release"]
  /\ UNCHANGED <<head, tail, seq, val, pvars, ch, sent, got>>

DeqRelease(c) ==
  /\ cpc[c] = "release"
  /\ seq' = [seq EXCEPT ![SlotOf(ch[c])] = ReleasedSeq(ch[c])]
  /\ got' = [got EXCEPT ![ch[c]] = cv[c]]
  /\ cpc' = [cpc EXCEPT ![c] = "idle"]
  /\ UNCHANGED <<head, tail, val, pvars, ch, cv, sent>>

-----------------------------------------------------------------------------
ProducerStep(p) ==
  \/ EnqLoadTail(p) \/ EnqSeesFree(p) \/ EnqFull(p) \/ EnqStale(p)
  \/ EnqClaim(p) \/ EnqLost(p) \/ EnqWrite(p) \/ EnqPublish(p)

ConsumerStep(c) ==
  \/ DeqLoadHead(c) \/ DeqSeesFull(c) \/ DeqEmpty(c) \/ DeqStale(c)
  \/ DeqClaim(c) \/ DeqLost(c) \/ DeqRead(c) \/ DeqRelease(c)

Next ==
  \/ \E p \in Producers : ProducerStep(p) \/ \E v \in Values : EnqCall(p, v)
  \/ \E c \in Consumers : ConsumerStep(c)

Spec == Init /\ [][Next]_vars

(***************************************************************************)
(* The operating system schedules every thread that can run, and the       *)
(* consumers call dequeue again and again (the consumer thread of          *)
(* Containers/Sample/Smoke).  No call of enqueue is assumed.               *)
(***************************************************************************)
Fairness ==
  /\ \A p \in Producers : WF_vars(ProducerStep(p))
  /\ \A c \in Consumers : WF_vars(ConsumerStep(c))

FairSpec == Spec /\ Fairness

-----------------------------------------------------------------------------
(* Properties *)

Accessing(p) == ppc[p] \in {"write", "publish"}  \* p owns slot SlotOf(pt[p])
Holding(c) == cpc[c] \in {"read", "release"}     \* c owns slot SlotOf(ch[c])

\* Every variable keeps its type; tickets stay within the bound.
TypeOK ==
  /\ head \in Nat /\ tail \in 0..MaxTickets
  /\ seq \in [Slots -> Nat]
  /\ val \in [Slots -> Values \cup {None}]
  /\ ppc \in [Producers ->
               {"idle", "loadTail", "loadSeq", "cas", "write", "publish"}]
  /\ pt \in [Producers -> Nat]
  /\ pv \in [Producers -> Values \cup {None}]
  /\ cpc \in [Consumers -> {"idle", "loadHead", "loadSeq", "cas", "read", "release"}]
  /\ ch \in [Consumers -> Nat]
  /\ cv \in [Consumers -> Values \cup {None}]
  /\ sent \in [Tickets -> Values \cup {None}]
  /\ got \in [Tickets -> Values \cup {None}]

(***************************************************************************)
(* What dequeue reads out of the slot of ticket h is what enqueue was      *)
(* given when it took ticket h: no payload is lost, read twice, read       *)
(* before it is written (line 54 assumes it is initialised) or overwritten *)
(* by the next lap while it is still being read.                           *)
(***************************************************************************)
TicketDelivery ==
  /\ \A c \in Consumers : cpc[c] = "release" => cv[c] = sent[ch[c]] /\ cv[c] # None
  /\ \A t \in Tickets : got[t] # None => got[t] = sent[t]

(***************************************************************************)
(* The UnsafeCell of a slot is accessed by one thread at a time: between   *)
(* its compare-and-swap and its sequence store a thread has the slot to    *)
(* itself (what "unsafe impl Sync" at line 12 relies on).                  *)
(***************************************************************************)
SlotExclusive ==
  /\ \A p, q \in Producers :
       Accessing(p) /\ Accessing(q) /\ SlotOf(pt[p]) = SlotOf(pt[q]) => p = q
  /\ \A c, d \in Consumers :
       Holding(c) /\ Holding(d) /\ SlotOf(ch[c]) = SlotOf(ch[d]) => c = d
  /\ \A p \in Producers, c \in Consumers :
       Accessing(p) /\ Holding(c) => SlotOf(pt[p]) # SlotOf(ch[c])

(***************************************************************************)
(* The window of tickets in use never exceeds the ring: the producers are  *)
(* at most one lap ahead of the head and of every consumer that still      *)
(* holds an older slot.                                                    *)
(***************************************************************************)
OneLapWindow ==
  /\ head <= tail /\ tail <= head + Capacity
  /\ \A c \in Consumers : Holding(c) => tail <= ch[c] + Capacity

(***************************************************************************)
(* enqueue answers OutOfMemory only if the slot of its ticket really is    *)
(* still in use by the ticket one lap earlier: that one was not taken yet, *)
(* or a consumer is between taking and releasing it.                       *)
(***************************************************************************)
FullStep ==
  \A p \in Producers : ppc[p] = "loadSeq" /\ ppc'[p] = "idle" =>
    \/ pt[p] - Capacity >= head
    \/ \E c \in Consumers : Holding(c) /\ ch[c] = pt[p] - Capacity

FullIsJustified == [][FullStep]_vars

(***************************************************************************)
(* dequeue answers None only if its ticket has not been taken by a         *)
(* producer, or that producer has not published it yet (later tickets may  *)
(* be published already: "empty" is not a snapshot of the whole queue).    *)
(***************************************************************************)
EmptyStep ==
  \A c \in Consumers : cpc[c] = "loadSeq" /\ cpc'[c] = "idle" =>
    \/ ch[c] >= tail
    \/ \E p \in Producers : Accessing(p) /\ pt[p] = ch[c]

EmptyIsJustified == [][EmptyStep]_vars

(***************************************************************************)
(* Every accepted value is eventually dequeued while the consumers keep    *)
(* calling (the smoke test's consumer loops until it has all of them).     *)
(***************************************************************************)
EventuallyDequeued ==
  \A t \in Tickets : sent[t] # None ~> got[t] = sent[t]

(***************************************************************************)
(* The queue implements a first-in first-out queue in which a value is in  *)
(* the queue from the producer's compare-and-swap to the consumer's.       *)
(***************************************************************************)
Fifo == INSTANCE BoundedFifo WITH
  q    <- [i \in 1..(tail - head) |-> sent[head + i - 1]],
  hold <- [c \in Consumers |-> IF cpc[c] = "read" THEN sent[ch[c]] ELSE None],
  out  <- cv

ImplementsFifo == Fifo!Spec
-----------------------------------------------------------------------------
(***************************************************************************)
(* The inductive invariant behind the safety properties, one conjunct per  *)
(* kind of ticket.  A ticket t is taken while head <= t < tail, free while *)
(* tail <= t < head + Capacity; those are Capacity consecutive tickets, so *)
(* no two of them share a slot.                                            *)
(***************************************************************************)

\* A taken ticket's slot is being filled by its producer or is published.
TakenTickets ==
  \A t \in head..tail-1 :
    \/ /\ seq[SlotOf(t)] = t
       /\ \E p \in Producers : Accessing(p) /\ pt[p] = t
    \/ /\ seq[SlotOf(t)] = t + 1
       /\ val[SlotOf(t)] = sent[t]

\* A free ticket's slot was released to it or is held by a consumer of the
\* previous lap.
FreeTickets ==
  \A t \in tail..head+Capacity-1 :
    \/ seq[SlotOf(t)] = t
    \/ /\ seq[SlotOf(t)] = t - Capacity + 1
       /\ \E c \in Consumers : Holding(c) /\ ch[c] = t - Capacity

\* The slot of a ticket already taken by a consumer has moved past it.
PastTickets == \A t \in 0..head-1 : seq[SlotOf(t)] > t

ProducerInv ==
  \A p \in Producers :
    /\ ppc[p] # "idle" => pv[p] # None
    /\ ppc[p] \in {"loadSeq", "cas"} => pt[p] <= tail /\ pt[p] < MaxTickets
    /\ ppc[p] = "cas" /\ pt[p] = tail => seq[SlotOf(pt[p])] = pt[p]
    /\ Accessing(p) => /\ head <= pt[p] /\ pt[p] < tail
                       /\ seq[SlotOf(pt[p])] = pt[p]
                       /\ sent[pt[p]] = pv[p]
    /\ ppc[p] = "publish" => val[SlotOf(pt[p])] = pv[p]
    /\ \A q \in Producers :
         Accessing(p) /\ Accessing(q) /\ pt[p] = pt[q] => p = q

ConsumerInv ==
  \A c \in Consumers :
    /\ cpc[c] \in {"loadSeq", "cas"} => ch[c] <= head
    /\ cpc[c] = "cas" /\ ch[c] = head => seq[SlotOf(ch[c])] = ch[c] + 1
    /\ Holding(c) => /\ ch[c] < head /\ tail <= ch[c] + Capacity
                     /\ seq[SlotOf(ch[c])] = ch[c] + 1
                     /\ val[SlotOf(ch[c])] = sent[ch[c]]
    /\ cpc[c] = "release" => cv[c] = sent[ch[c]]
    /\ \A d \in Consumers :
         Holding(c) /\ Holding(d) /\ ch[c] = ch[d] => c = d

HistoryInv ==
  \A t \in Tickets :
    /\ sent[t] # None <=> t < tail
    /\ got[t] # None => got[t] = sent[t]

WindowInv == head <= tail /\ tail <= head + Capacity

IInv ==
  /\ TypeOK /\ WindowInv /\ TakenTickets /\ FreeTickets /\ PastTickets
  /\ ProducerInv /\ ConsumerInv /\ HistoryInv
=============================================================================
