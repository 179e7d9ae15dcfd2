-------------------------- MODULE MPMCQueueProofs --------------------------
EXTENDS MPMCQueue, SequenceTheorems, TLAPS

LEMMA DivMod ==
  \A t \in Nat : /\ t = Capacity * (t \div Capacity) + (t % Capacity)
                 /\ t \div Capacity \in Int
                 /\ t % Capacity \in Slots
  BY CapacityAssumption DEF Slots

LEMMA MultipleGap ==
  ASSUME NEW d \in Int, d # 0
  PROVE  Capacity * d >= Capacity \/ Capacity * d <= -Capacity
<1>1. CASE d >= 1
  BY <1>1, CapacityAssumption
<1>2. CASE d <= -1
  BY <1>2, CapacityAssumption
<1>3. QED
  BY <1>1, <1>2

LEMMA SlotType == \A t \in Nat : SlotOf(t) \in Slots
  BY DivMod DEF SlotOf

LEMMA SlotSmall == \A t \in Slots : SlotOf(t) = t
<1>1. SUFFICES ASSUME NEW t \in Slots PROVE SlotOf(t) = t
  OBVIOUS
<1> DEFINE a == t \div Capacity
<1>2. /\ t = Capacity * a + SlotOf(t)
      /\ a \in Int /\ t \in Slots /\ SlotOf(t) \in Slots
  BY DivMod, CapacityAssumption DEF SlotOf, Slots
<1> HIDE DEF a
<1>3. a = 0
  BY <1>2, MultipleGap, CapacityAssumption DEF Slots
<1>4. QED
  BY <1>2, <1>3, CapacityAssumption DEF Slots

LEMMA SlotDistinct ==
  \A s, t \in Nat : s < t /\ t < s + Capacity => SlotOf(s) # SlotOf(t)
<1>1. SUFFICES ASSUME NEW s \in Nat, NEW t \in Nat, s < t, t < s + Capacity,
                      SlotOf(s) = SlotOf(t)
               PROVE  FALSE
  OBVIOUS
<1> DEFINE a == s \div Capacity
           b == t \div Capacity
<1>2. /\ s = Capacity * a + SlotOf(s)
      /\ t = Capacity * b + SlotOf(t)
      /\ a \in Int /\ b \in Int /\ SlotOf(s) \in Int
  BY DivMod, CapacityAssumption DEF SlotOf, Slots
<1> HIDE DEF a, b
<1>3. t - s = Capacity * (b - a)
  BY <1>1, <1>2, CapacityAssumption
<1>4. b - a # 0
  BY <1>1, <1>2, CapacityAssumption
<1>5. QED
  BY <1>1, <1>2, <1>3, <1>4, MultipleGap, CapacityAssumption

LEMMA SlotShift == \A t \in Nat : SlotOf(t + Capacity) = SlotOf(t)
<1>1. SUFFICES ASSUME NEW t \in Nat PROVE SlotOf(t + Capacity) = SlotOf(t)
  OBVIOUS
<1> DEFINE a == t \div Capacity
           b == (t + Capacity) \div Capacity
<1>2. /\ t = Capacity * a + SlotOf(t)
      /\ t + Capacity = Capacity * b + SlotOf(t + Capacity)
      /\ a \in Int /\ b \in Int
      /\ SlotOf(t) \in Slots /\ SlotOf(t + Capacity) \in Slots
  BY DivMod, CapacityAssumption DEF SlotOf
<1> HIDE DEF a, b
<1>3. Capacity * (a + 1 - b) = Capacity * a + Capacity - Capacity * b
  BY <1>2, CapacityAssumption
<1>4. SlotOf(t + Capacity) - SlotOf(t) = Capacity * (a + 1 - b)
  <2>1. Capacity * a \in Int /\ Capacity * b \in Int
    BY <1>2, CapacityAssumption
  <2> DEFINE x == Capacity * a
             y == Capacity * b
  <2> HIDE DEF x, y
  <2>2. x \in Int /\ y \in Int /\ t = x + SlotOf(t) /\ t + Capacity = y + SlotOf(t + Capacity)
        /\ SlotOf(t) \in Int /\ SlotOf(t + Capacity) \in Int
    BY <1>2, <2>1, CapacityAssumption DEF x, y, Slots
  <2>3. SlotOf(t + Capacity) - SlotOf(t) = x + Capacity - y
    BY <2>2, <1>1, CapacityAssumption
  <2>4. QED
    BY <2>3, <1>3 DEF x, y
<1>5. QED
  BY <1>2, <1>4, MultipleGap, CapacityAssumption DEF Slots

-----------------------------------------------------------------------------
USE CapacityAssumption, BoundAssumption, ValuesAssumption

LEMMA InitInv == Init => IInv
<1> SUFFICES ASSUME Init PROVE IInv
  OBVIOUS
<1> USE DEF Init
<1>1. TypeOK
  BY DEF TypeOK, Slots, Tickets
<1>2. WindowInv /\ TakenTickets /\ PastTickets /\ ProducerInv /\ ConsumerInv /\ HistoryInv
  BY DEF WindowInv, TakenTickets, PastTickets, ProducerInv, ConsumerInv, HistoryInv,
         Accessing, Holding, Tickets
<1>3. FreeTickets
  <2>1. \A t \in 0..Capacity-1 : t \in Slots /\ SlotOf(t) = t
    BY SlotSmall DEF Slots
  <2>2. QED
    BY <2>1 DEF FreeTickets
<1>4. QED
  BY <1>1, <1>2, <1>3 DEF IInv

(***************************************************************************)
(* The window argument, used by every step: two different tickets less     *)
(* than a lap apart have different slots.                                  *)
(***************************************************************************)
LEMMA SameSlot ==
  ASSUME NEW s \in Nat, NEW t \in Nat,
         s < t + Capacity, t < s + Capacity, SlotOf(s) = SlotOf(t)
  PROVE  s = t
BY SlotDistinct

LEMMA PrevLap == \A t \in Nat : t - Capacity \in Nat => SlotOf(t - Capacity) = SlotOf(t)
<1>1. SUFFICES ASSUME NEW t \in Nat, t - Capacity \in Nat
               PROVE  SlotOf(t - Capacity) = SlotOf(t)
  OBVIOUS
<1>2. (t - Capacity) + Capacity = t
  OBVIOUS
<1>3. QED
  BY <1>1, <1>2, SlotShift

\* The steps that touch neither the slots nor the two counters.
LEMMA ProducerLocalStep ==
  ASSUME Capacity >= 2, IInv, NEW p \in Producers,
         \/ \E v \in Values : EnqCall(p, v)
         \/ EnqLoadTail(p) \/ EnqSeesFree(p) \/ EnqFull(p) \/ EnqStale(p) \/ EnqLost(p)
  PROVE  IInv'
<1> USE DEF IInv, TypeOK
<1>1. TypeOK' /\ WindowInv' /\ PastTickets' /\ HistoryInv'
  BY DEF WindowInv, PastTickets, HistoryInv, EnqCall, EnqLoadTail, EnqSeesFree, EnqFull, EnqStale, EnqLost, cvars
<1>2. TakenTickets'
  BY DEF TakenTickets, Accessing, EnqCall, EnqLoadTail, EnqSeesFree, EnqFull, EnqStale, EnqLost, cvars
<1>3. FreeTickets'
  BY DEF FreeTickets, Holding, EnqCall, EnqLoadTail, EnqSeesFree, EnqFull, EnqStale, EnqLost, cvars
<1>4. ProducerInv'
  BY DEF ProducerInv, Accessing, EnqCall, EnqLoadTail, EnqSeesFree, EnqFull, EnqStale, EnqLost, cvars
<1>5. ConsumerInv'
  BY DEF ConsumerInv, Holding, EnqCall, EnqLoadTail, EnqSeesFree, EnqFull, EnqStale, EnqLost, cvars
<1>6. QED
  BY <1>1, <1>2, <1>3, <1>4, <1>5

LEMMA ConsumerLocalStep ==
  ASSUME Capacity >= 2, IInv, NEW c \in Consumers,
         DeqLoadHead(c) \/ DeqSeesFull(c) \/ DeqEmpty(c) \/ DeqStale(c) \/ DeqLost(c)
  PROVE  IInv'
<1> USE DEF IInv, TypeOK
<1>1. TypeOK' /\ WindowInv' /\ PastTickets' /\ HistoryInv'
  BY DEF WindowInv, PastTickets, HistoryInv, DeqLoadHead, DeqSeesFull, DeqEmpty, DeqStale, DeqLost, pvars
<1>2. TakenTickets'
  BY DEF TakenTickets, Accessing, DeqLoadHead, DeqSeesFull, DeqEmpty, DeqStale, DeqLost, pvars
<1>3. FreeTickets'
  BY DEF FreeTickets, Holding, DeqLoadHead, DeqSeesFull, DeqEmpty, DeqStale, DeqLost, pvars
<1>4. ProducerInv'
  BY DEF ProducerInv, Accessing, DeqLoadHead, DeqSeesFull, DeqEmpty, DeqStale, DeqLost, pvars
<1>5. ConsumerInv'
  BY DEF ConsumerInv, Holding, DeqLoadHead, DeqSeesFull, DeqEmpty, DeqStale, DeqLost, pvars
<1>6. QED
  BY <1>1, <1>2, <1>3, <1>4, <1>5

(***************************************************************************)
(* Taking a ticket.  The slot of ticket tail carries tail, so the tickets  *)
(* in use are fewer than Capacity: were the ring full, that slot would be  *)
(* the slot of ticket head, which carries head or head + 1.  Here the      *)
(* proof needs a ring of at least two slots.                               *)
(***************************************************************************)
LEMMA EnqClaimStep ==
  ASSUME Capacity >= 2, IInv, NEW p \in Producers, EnqClaim(p)
  PROVE  IInv'
<1> DEFINE t == pt[p]
<1> USE DEF IInv, TypeOK, EnqClaim, cvars
<1>1. /\ t \in Nat /\ t = tail /\ t \in Tickets
      /\ seq[SlotOf(t)] = t
      /\ pv[p] \in Values
  BY DEF ProducerInv, Tickets
<1>2. tail < head + Capacity
  <2>1. SUFFICES ASSUME tail = head + Capacity PROVE FALSE
    BY DEF WindowInv
  <2>2. SlotOf(head) = SlotOf(t) /\ head \in head..tail-1
    BY <1>1, <2>1, SlotShift
  <2>3. seq[SlotOf(t)] \in {head, head + 1}
    BY <2>2 DEF TakenTickets
  <2>4. QED
    BY <1>1, <2>1, <2>3
<1>3. TypeOK' /\ WindowInv' /\ PastTickets'
  BY <1>1, <1>2 DEF WindowInv, PastTickets, Tickets
<1>4. HistoryInv'
  BY <1>1 DEF HistoryInv, Tickets
<1>5. TakenTickets'
  <2>1. SUFFICES ASSUME NEW u \in head..t
                 PROVE  TakenTickets!(u)'
    BY <1>1 DEF TakenTickets
  <2>2. CASE u = t
    BY <1>1, <2>2 DEF Accessing
  <2>3. CASE u \in head..tail-1
    BY <1>1, <2>3 DEF TakenTickets, Accessing, Tickets, WindowInv
  <2>4. QED
    BY <1>1, <2>2, <2>3
<1>6. FreeTickets'
  BY <1>1 DEF FreeTickets, Holding
<1>7. ProducerInv'
  <2>1. ASSUME NEW q \in Producers PROVE ProducerInv!(q)'
    <3>1. CASE q = p
      BY <1>1, <3>1 DEF ProducerInv, Accessing, WindowInv, Tickets
    <3>2. CASE q # p
      BY <1>1, <3>2 DEF ProducerInv, Accessing, WindowInv, Tickets
    <3>3. QED
      BY <3>1, <3>2
  <2>2. QED
    BY <2>1 DEF ProducerInv
<1>8. ConsumerInv'
  <2>1. \A c \in Consumers : Holding(c) => t # ch[c] + Capacity
    BY <1>1, SlotShift DEF ConsumerInv
  <2>2. QED
    <3>1. ASSUME NEW c \in Consumers PROVE ConsumerInv!(c)'
      <4>1. Holding(c) => sent'[ch[c]] = sent[ch[c]]
        BY <1>1 DEF ConsumerInv, WindowInv, Tickets
      <4>2. QED
        BY <1>1, <2>1, <4>1 DEF ConsumerInv, Holding, WindowInv
    <3>2. QED
      BY <3>1 DEF ConsumerInv
<1>9. QED
  BY <1>3, <1>4, <1>5, <1>6, <1>7, <1>8

\* The payload is written into a slot nobody else uses.
LEMMA EnqWriteStep ==
  ASSUME Capacity >= 2, IInv, NEW p \in Producers, EnqWrite(p)
  PROVE  IInv'
<1> DEFINE t == pt[p]
<1> USE DEF IInv, TypeOK, EnqWrite, cvars
<1>1. /\ t \in Nat /\ head <= t /\ t < tail /\ tail <= head + Capacity
      /\ seq[SlotOf(t)] = t /\ SlotOf(t) \in Slots
  BY SlotType DEF ProducerInv, Accessing, WindowInv
<1>2. TypeOK' /\ WindowInv' /\ PastTickets' /\ HistoryInv' /\ FreeTickets'
  BY <1>1 DEF WindowInv, PastTickets, HistoryInv, FreeTickets, Holding
<1>3. TakenTickets'
  <2>1. SUFFICES ASSUME NEW u \in head..tail-1
                 PROVE  TakenTickets!(u)'
    BY DEF TakenTickets
  <2>2. CASE u = t
    BY <1>1, <2>2 DEF Accessing
  <2>3. CASE u # t
    <3>1. SlotOf(u) # SlotOf(t)
      BY <1>1, <2>3, SameSlot
    <3>2. QED
      BY <1>1, <3>1 DEF TakenTickets, Accessing
  <2>4. QED
    BY <2>2, <2>3
<1>4. ProducerInv'
  <2>1. \A q \in Producers : ppc[q] = "publish" /\ q # p => SlotOf(pt[q]) # SlotOf(t)
    BY <1>1, SameSlot DEF ProducerInv, Accessing
  <2>2. ASSUME NEW q \in Producers PROVE ProducerInv!(q)'
    <3>1. ppc'[q] = "publish" => val'[SlotOf(pt[q])] = pv[q]
      BY <1>1, <2>1 DEF ProducerInv, Accessing
    <3>2. QED
      BY <1>1, <3>1 DEF ProducerInv, Accessing
  <2>3. QED
    BY <2>2 DEF ProducerInv
<1>5. ConsumerInv'
  <2>1. \A c \in Consumers : Holding(c) => SlotOf(ch[c]) # SlotOf(t)
    BY <1>1, SameSlot DEF ConsumerInv
  <2>2. QED
    BY <1>1, <2>1 DEF ConsumerInv, Holding
<1>6. QED
  BY <1>2, <1>3, <1>4, <1>5

LEMMA EnqPublishStep ==
  ASSUME Capacity >= 2, IInv, NEW p \in Producers, EnqPublish(p)
  PROVE  IInv'
<1> DEFINE t == pt[p]
<1> USE DEF IInv, TypeOK, EnqPublish, PublishedSeq, cvars
<1>1. /\ t \in Nat /\ head <= t /\ t < tail /\ tail <= head + Capacity
      /\ seq[SlotOf(t)] = t /\ SlotOf(t) \in Slots
      /\ val[SlotOf(t)] = sent[t]
  BY SlotType DEF ProducerInv, Accessing, WindowInv
<1>2. TypeOK' /\ WindowInv' /\ PastTickets' /\ HistoryInv'
  BY <1>1, SlotType DEF WindowInv, PastTickets, HistoryInv
<1>3. \A u \in Nat : head <= u /\ u < head + Capacity /\ u # t => SlotOf(u) # SlotOf(t)
  BY <1>1, SameSlot
<1>4. TakenTickets'
  <2>1. SUFFICES ASSUME NEW u \in head..tail-1
                 PROVE  TakenTickets!(u)'
    BY DEF TakenTickets
  <2>2. CASE u = t
    BY <1>1, <2>2
  <2>3. CASE u # t
    BY <1>1, <1>3, <2>3 DEF TakenTickets, Accessing
  <2>4. QED
    BY <2>2, <2>3
<1>5. FreeTickets'
  BY <1>1, <1>3 DEF FreeTickets, Holding, WindowInv
<1>6. ProducerInv'
  BY <1>1, <1>3, SameSlot DEF ProducerInv, Accessing
<1>7. ConsumerInv'
  <2>1. \A c \in Consumers : Holding(c) => SlotOf(ch[c]) # SlotOf(t)
    BY <1>1, SameSlot DEF ConsumerInv
  <2>2. \A c \in Consumers :
          cpc[c] = "cas" /\ ch[c] = head => SlotOf(ch[c]) # SlotOf(t)
    BY <1>1, <1>3 DEF ConsumerInv
  <2>3. ASSUME NEW c \in Consumers PROVE ConsumerInv!(c)'
    BY <1>1, <2>1, <2>2 DEF ConsumerInv, Holding
  <2>4. QED
    BY <2>3 DEF ConsumerInv
<1>8. QED
  BY <1>2, <1>4, <1>5, <1>6, <1>7

(***************************************************************************)
(* Taking the head.  The slot carries head + 1, which only a published     *)
(* ticket's slot does: the queue is not empty, and the ticket that becomes *)
(* free, head + Capacity, waits for this consumer.                         *)
(***************************************************************************)
LEMMA DeqClaimStep ==
  ASSUME Capacity >= 2, IInv, NEW c \in Consumers, DeqClaim(c)
  PROVE  IInv'
<1> DEFINE h == ch[c]
<1> USE DEF IInv, TypeOK, DeqClaim, pvars
<1>1. h \in Nat /\ h = head /\ seq[SlotOf(h)] = h + 1
  BY DEF ConsumerInv
<1>2. head < tail
  BY <1>1 DEF WindowInv, FreeTickets
<1>3. val[SlotOf(h)] = sent[h]
  BY <1>1, <1>2 DEF TakenTickets
<1>4. TypeOK' /\ WindowInv' /\ PastTickets' /\ HistoryInv'
  BY <1>1, <1>2 DEF WindowInv, PastTickets, HistoryInv
<1>5. TakenTickets'
  BY <1>1 DEF TakenTickets, Accessing
<1>6. FreeTickets'
  <2>1. SUFFICES ASSUME NEW u \in tail..h+Capacity
                 PROVE  FreeTickets!(u)'
    BY <1>1 DEF FreeTickets
  <2>2. CASE u = h + Capacity
    BY <1>1, <2>2, SlotShift DEF Holding
  <2>3. CASE u \in tail..head+Capacity-1
    BY <1>1, <2>3 DEF FreeTickets, Holding
  <2>4. QED
    BY <1>1, <2>2, <2>3
<1>7. ProducerInv'
  <2>1. \A p \in Producers : Accessing(p) => pt[p] # h
    BY <1>1 DEF ProducerInv
  <2>2. QED
    BY <1>1, <2>1 DEF ProducerInv, Accessing
<1>8. ConsumerInv'
  <2>1. ASSUME NEW d \in Consumers PROVE ConsumerInv!(d)'
    <3>1. CASE d = c
      BY <1>1, <1>2, <1>3, <3>1 DEF ConsumerInv, Holding, WindowInv
    <3>2. CASE d # c
      BY <1>1, <3>2 DEF ConsumerInv, Holding
    <3>3. QED
      BY <3>1, <3>2
  <2>2. QED
    BY <2>1 DEF ConsumerInv
<1>9. QED
  BY <1>4, <1>5, <1>6, <1>7, <1>8

LEMMA DeqReadStep ==
  ASSUME Capacity >= 2, IInv, NEW c \in Consumers, DeqRead(c)
  PROVE  IInv'
<1> DEFINE h == ch[c]
<1> USE DEF IInv, TypeOK, DeqRead, pvars
<1>1. h \in Nat /\ SlotOf(h) \in Slots /\ val[SlotOf(h)] = sent[h]
  BY SlotType DEF ConsumerInv, Holding
<1>2. TypeOK' /\ WindowInv' /\ PastTickets' /\ HistoryInv' /\ TakenTickets'
  BY <1>1 DEF WindowInv, PastTickets, HistoryInv, TakenTickets, Accessing
<1>3. FreeTickets'
  BY DEF FreeTickets, Holding
<1>4. ProducerInv'
  BY DEF ProducerInv, Accessing
<1>5. ConsumerInv'
  BY <1>1 DEF ConsumerInv, Holding
<1>6. QED
  BY <1>2, <1>3, <1>4, <1>5

\* Releasing the slot to the ticket one lap later.
LEMMA DeqReleaseStep ==
  ASSUME Capacity >= 2, IInv, NEW c \in Consumers, DeqRelease(c)
  PROVE  IInv'
<1> DEFINE h == ch[c]
<1> USE DEF IInv, TypeOK, DeqRelease, ReleasedSeq, pvars
<1>1. /\ h \in Nat /\ h < head /\ tail <= h + Capacity /\ head <= tail
      /\ seq[SlotOf(h)] = h + 1 /\ SlotOf(h) \in Slots
      /\ cv[c] = sent[h] /\ h \in Tickets
  <2>1. h \in Nat /\ h < head /\ head <= tail /\ tail <= MaxTickets
    BY DEF ConsumerInv, Holding, WindowInv
  <2>2. h \in Tickets
    BY <2>1 DEF Tickets
  <2>3. SlotOf(h) \in Slots
    BY <2>1, SlotType
  <2>4. QED
    BY <2>1, <2>2, <2>3 DEF ConsumerInv, Holding
<1>2. TypeOK' /\ WindowInv' /\ PastTickets' /\ HistoryInv'
  <2>1. TypeOK' /\ WindowInv' /\ HistoryInv'
    BY <1>1 DEF WindowInv, HistoryInv, Tickets
  <2>2. ASSUME NEW u \in 0..head-1 PROVE seq'[SlotOf(u)] > u
    <3>1. SlotOf(u) \in Slots /\ seq[SlotOf(u)] > u
      BY SlotType DEF PastTickets
    <3>2. QED
      BY <1>1, <3>1
  <2>3. QED
    BY <2>1, <2>2 DEF PastTickets
<1>3. \A u \in Nat : h < u /\ u < h + Capacity => SlotOf(u) # SlotOf(h)
  BY <1>1, SameSlot
<1>4. TakenTickets'
  BY <1>1, <1>3 DEF TakenTickets, Accessing
<1>5. FreeTickets'
  <2>1. SUFFICES ASSUME NEW u \in tail..head+Capacity-1
                 PROVE  FreeTickets!(u)'
    BY DEF FreeTickets
  <2>2. CASE u = h + Capacity
    BY <1>1, <2>2, SlotShift
  <2>3. CASE u # h + Capacity
    <3>1. SlotOf(u) # SlotOf(h)
      <4>1. CASE u < h + Capacity
        BY <1>1, <1>3, <4>1
      <4>2. CASE u > h + Capacity
        BY <1>1, <4>2, SlotShift, SameSlot
      <4>3. QED
        BY <1>1, <2>3, <4>1, <4>2
    <3>2. PICK v \in {u} : FreeTickets!(v)
      BY DEF FreeTickets
    <3>3. QED
      BY <1>1, <2>3, <3>1, <3>2 DEF Holding
  <2>4. QED
    BY <2>2, <2>3
<1>6. ProducerInv'
  <2>1. \A p \in Producers : Accessing(p) => SlotOf(pt[p]) # SlotOf(h)
    BY <1>1, <1>3 DEF ProducerInv
  <2>2. \A p \in Producers :
          ppc[p] = "cas" /\ pt[p] = tail => SlotOf(pt[p]) # SlotOf(h)
    BY <1>1, <1>3, SlotShift DEF ProducerInv
  <2>3. QED
    BY <1>1, <2>1, <2>2 DEF ProducerInv, Accessing
<1>7. ConsumerInv'
  <2>1. \A d \in Consumers : Holding(d) /\ d # c => SlotOf(ch[d]) # SlotOf(h)
    BY <1>1, SameSlot DEF ConsumerInv, Holding
  <2>2. \A d \in Consumers :
          cpc[d] = "cas" /\ ch[d] = head => SlotOf(ch[d]) # SlotOf(h)
    BY <1>1, <1>3, SlotShift DEF ConsumerInv
  <2>3. ASSUME NEW d \in Consumers PROVE ConsumerInv!(d)'
    <3>1. CASE d = c
      BY <1>1, <3>1 DEF ConsumerInv, Holding
    <3>2. CASE d # c
      BY <1>1, <2>1, <2>2, <3>2 DEF ConsumerInv, Holding
    <3>3. QED
      BY <3>1, <3>2
  <2>4. QED
    BY <2>3 DEF ConsumerInv
<1>8. QED
  BY <1>2, <1>4, <1>5, <1>6, <1>7

-----------------------------------------------------------------------------
LEMMA StepInv == Capacity >= 2 /\ IInv /\ [Next]_vars => IInv'
<1> SUFFICES ASSUME Capacity >= 2, IInv, [Next]_vars PROVE IInv'
  OBVIOUS
<1>1. ASSUME NEW p \in Producers, ProducerStep(p) \/ \E v \in Values : EnqCall(p, v)
      PROVE  IInv'
  BY <1>1, ProducerLocalStep, EnqClaimStep, EnqWriteStep, EnqPublishStep
  DEF ProducerStep
<1>2. ASSUME NEW c \in Consumers, ConsumerStep(c)
      PROVE  IInv'
  BY <1>2, ConsumerLocalStep, DeqClaimStep, DeqReadStep, DeqReleaseStep
  DEF ConsumerStep
<1>3. CASE UNCHANGED vars
  BY <1>3 DEF vars, IInv, TypeOK, WindowInv, TakenTickets, FreeTickets, PastTickets, ProducerInv,
              ConsumerInv, HistoryInv, Accessing, Holding
<1>4. QED
  BY <1>1, <1>2, <1>3 DEF Next

(***************************************************************************)
(* For every number of threads and every capacity of at least two, the     *)
(* inductive invariant holds in every reachable state.                     *)
(***************************************************************************)
THEOREM Inductive == Capacity >= 2 => (Spec => []IInv)
<1> SUFFICES ASSUME Capacity >= 2 PROVE Spec => []IInv
  OBVIOUS
<1>1. Init => IInv
  BY InitInv
<1>2. IInv /\ [Next]_vars => IInv'
  BY StepInv
<1>3. QED
  BY <1>1, <1>2, PTL DEF Spec

\* enqueue and dequeue keep the types of the counters, slots and locals.
THEOREM TypeCorrect == Capacity >= 2 => (Spec => []TypeOK)
<1>1. IInv => TypeOK
  BY DEF IInv
<1>2. QED
  BY <1>1, Inductive, PTL

(***************************************************************************)
(* Every dequeue returns the payload of the enqueue with the same ticket   *)
(* (lines 36-39 against lines 53-56).                                      *)
(***************************************************************************)
THEOREM DeliveryCorrect == Capacity >= 2 => (Spec => []TicketDelivery)
<1>1. IInv => TicketDelivery
  <2> SUFFICES ASSUME IInv PROVE TicketDelivery
    OBVIOUS
  <2>1. ASSUME NEW c \in Consumers, cpc[c] = "release"
        PROVE  cv[c] = sent[ch[c]] /\ sent[ch[c]] # None
    <3>1. ch[c] \in Nat /\ ch[c] < head /\ head <= tail /\ tail <= MaxTickets
      BY <2>1 DEF IInv, TypeOK, ConsumerInv, Holding, WindowInv
    <3>2. ch[c] \in Tickets /\ ch[c] < tail
      BY <3>1 DEF IInv, TypeOK, Tickets
    <3>3. QED
      BY <2>1, <3>2 DEF IInv, ConsumerInv, HistoryInv
  <2>2. QED
    BY <2>1 DEF IInv, TicketDelivery, HistoryInv
<1>2. QED
  BY <1>1, Inductive, PTL

(***************************************************************************)
(* The producers never run more than one lap ahead.                        *)
(***************************************************************************)
THEOREM WindowCorrect == Capacity >= 2 => (Spec => []OneLapWindow)
<1>1. IInv => OneLapWindow
  BY DEF IInv, WindowInv, ConsumerInv, OneLapWindow
<1>2. QED
  BY <1>1, Inductive, PTL

(***************************************************************************)
(* No two threads are ever inside the same slot, so the plain reads and    *)
(* writes of the payload (lines 37 and 54) are free of data races.         *)
(***************************************************************************)
THEOREM SlotExclusion == Capacity >= 2 => (Spec => []SlotExclusive)
<1> SUFFICES ASSUME Capacity >= 2 PROVE Spec => []SlotExclusive
  OBVIOUS
<1>1. IInv => SlotExclusive
  <2> SUFFICES ASSUME IInv PROVE SlotExclusive
    OBVIOUS
  <2> USE DEF IInv, TypeOK, WindowInv
  <2>1. \A p \in Producers : Accessing(p) =>
          pt[p] \in Nat /\ head <= pt[p] /\ pt[p] < tail
    BY DEF ProducerInv
  <2>2. \A c \in Consumers : Holding(c) =>
          ch[c] \in Nat /\ ch[c] < head /\ tail <= ch[c] + Capacity
    BY DEF ConsumerInv
  <2>3. ASSUME NEW p \in Producers, NEW q \in Producers,
               Accessing(p), Accessing(q), SlotOf(pt[p]) = SlotOf(pt[q])
        PROVE  p = q
    <3>1. pt[p] = pt[q]
      BY <2>1, <2>3, SameSlot
    <3>2. QED
      BY <2>3, <3>1 DEF ProducerInv
  <2>4. ASSUME NEW c \in Consumers, NEW d \in Consumers,
               Holding(c), Holding(d), SlotOf(ch[c]) = SlotOf(ch[d])
        PROVE  c = d
    <3>1. ch[c] = ch[d]
      BY <2>2, <2>4, SameSlot
    <3>2. QED
      BY <2>4, <3>1 DEF ConsumerInv
  <2>5. ASSUME NEW p \in Producers, NEW c \in Consumers, Accessing(p), Holding(c)
        PROVE  SlotOf(pt[p]) # SlotOf(ch[c])
    BY <2>1, <2>2, <2>5, SlotDistinct
  <2>6. QED
    BY <2>3, <2>4, <2>5 DEF SlotExclusive
<1>2. QED
  BY <1>1, Inductive, PTL

(***************************************************************************)
(* "Full" is only ever answered while the ticket one lap earlier still     *)
(* occupies the slot (line 41).                                            *)
(***************************************************************************)
THEOREM FullJustified == Capacity >= 2 => (Spec => FullIsJustified)
<1> SUFFICES ASSUME Capacity >= 2 PROVE Spec => FullIsJustified
  OBVIOUS
<1>1. IInv /\ [Next]_vars => [FullStep]_vars
  <2> SUFFICES ASSUME IInv, [Next]_vars, NEW p \in Producers,
                      ppc[p] = "loadSeq", ppc'[p] = "idle"
               PROVE  \/ pt[p] - Capacity >= head
                      \/ \E c \in Consumers : Holding(c) /\ ch[c] = pt[p] - Capacity
    BY DEF FullStep
  <2> USE DEF IInv, TypeOK
  <2>1. seq[SlotOf(pt[p])] < pt[p]
    BY DEF Next, ProducerStep, ConsumerStep, EnqCall, EnqLoadTail, EnqSeesFree, EnqFull,
           EnqStale, EnqClaim, EnqLost, EnqWrite, EnqPublish, DeqLoadHead, DeqSeesFull,
           DeqEmpty, DeqStale, DeqClaim, DeqLost, DeqRead, DeqRelease, vars, pvars
  <2>2. /\ pt[p] \in Nat /\ pt[p] <= tail /\ SlotOf(pt[p]) \in Slots
        /\ seq[SlotOf(pt[p])] \in Nat
    BY SlotType DEF ProducerInv
  <2>3. CASE pt[p] < head
    BY <2>1, <2>2, <2>3 DEF PastTickets
  <2>4. CASE head <= pt[p] /\ pt[p] < tail
    BY <2>1, <2>2, <2>4 DEF TakenTickets
  <2>5. CASE pt[p] = tail /\ tail < head + Capacity
    BY <2>1, <2>2, <2>5 DEF FreeTickets
  <2>6. CASE pt[p] = tail /\ tail = head + Capacity
    BY <2>6
  <2>7. QED
    BY <2>2, <2>3, <2>4, <2>5, <2>6 DEF WindowInv
<1>2. QED
  BY <1>1, Inductive, PTL DEF Spec, FullIsJustified

(***************************************************************************)
(* "Empty" is only ever answered while the head ticket is untaken or not   *)
(* yet published (line 58).                                                *)
(***************************************************************************)
THEOREM EmptyJustified == Capacity >= 2 => (Spec => EmptyIsJustified)
<1> SUFFICES ASSUME Capacity >= 2 PROVE Spec => EmptyIsJustified
  OBVIOUS
<1>1. IInv /\ [Next]_vars => [EmptyStep]_vars
  <2> SUFFICES ASSUME IInv, [Next]_vars, NEW c \in Consumers,
                      cpc[c] = "loadSeq", cpc'[c] = "idle"
               PROVE  \/ ch[c] >= tail
                      \/ \E p \in Producers : Accessing(p) /\ pt[p] = ch[c]
    BY DEF EmptyStep
  <2> USE DEF IInv, TypeOK
  <2>1. seq[SlotOf(ch[c])] < ch[c] + 1
    BY DEF Next, ProducerStep, ConsumerStep, EnqCall, EnqLoadTail, EnqSeesFree, EnqFull,
           EnqStale, EnqClaim, EnqLost, EnqWrite, EnqPublish, DeqLoadHead, DeqSeesFull,
           DeqEmpty, DeqStale, DeqClaim, DeqLost, DeqRead, DeqRelease, vars, cvars
  <2>2. /\ ch[c] \in Nat /\ ch[c] <= head /\ SlotOf(ch[c]) \in Slots
        /\ seq[SlotOf(ch[c])] \in Nat
    BY SlotType DEF ConsumerInv
  <2>3. CASE ch[c] < head
    BY <2>1, <2>2, <2>3 DEF PastTickets
  <2>4. CASE ch[c] = head /\ head < tail
    BY <2>1, <2>2, <2>4 DEF TakenTickets
  <2>5. CASE ch[c] >= tail
    BY <2>5
  <2>6. QED
    BY <2>2, <2>3, <2>4, <2>5
<1>2. QED
  BY <1>1, Inductive, PTL DEF Spec, EmptyIsJustified
-----------------------------------------------------------------------------
(* The queue as a sequence: the values accepted for the tickets from lo to *)
(* hi - 1.  m is sent, now or after a step.                                *)

Accepted(m, lo, hi) == [i \in 1..(hi - lo) |-> m[lo + i - 1]]
Payloads == Values \cup {None}

LEMMA AcceptedIs ==
  ASSUME NEW m \in [Tickets -> Payloads], NEW lo \in Nat, NEW hi \in Nat,
         lo <= hi, hi <= MaxTickets
  PROVE  /\ Accepted(m, lo, hi) \in Seq(Payloads) /\ Len(Accepted(m, lo, hi)) = hi - lo
         /\ \A i \in 1..(hi - lo) : Accepted(m, lo, hi)[i] = m[lo + i - 1]
<1>1. hi - lo \in Nat /\ \A i \in 1..(hi - lo) : lo + i - 1 \in Tickets
  BY DEF Tickets
<1>2. Accepted(m, lo, hi) \in [1..(hi - lo) -> Payloads]
  BY <1>1 DEF Accepted
<1>3. QED
  BY <1>1, <1>2 DEF Accepted

\* Accepting a value for the next ticket puts it at the end.
LEMMA AcceptedAppend ==
  ASSUME NEW m \in [Tickets -> Payloads], NEW n \in [Tickets -> Payloads],
         NEW lo \in Nat, NEW hi \in Nat, lo <= hi, hi < MaxTickets,
         \A j \in Tickets : j # hi => n[j] = m[j]
  PROVE  Accepted(n, lo, hi + 1) = Append(Accepted(m, lo, hi), n[hi])
<1> DEFINE s == Accepted(m, lo, hi)
           k == hi + 1
           l == Accepted(n, lo, k)
           v == n[hi]
<1>1. v \in Payloads
  BY DEF Tickets
<1>2. /\ s \in Seq(Payloads) /\ Len(s) = hi - lo
      /\ \A i \in 1..(hi - lo) : s[i] = m[lo + i - 1]
  <2>1. lo <= hi /\ hi <= MaxTickets
    OBVIOUS
  <2>2. QED
    BY <2>1, AcceptedIs, Zenon
<1>3. /\ l \in Seq(Payloads) /\ Len(l) = k - lo
      /\ \A i \in 1..(k - lo) : l[i] = n[lo + i - 1]
  <2>1. k \in Nat /\ lo <= k /\ k <= MaxTickets
    OBVIOUS
  <2> HIDE DEF k
  <2>2. QED
    BY <2>1, AcceptedIs
<1>4. k - lo = hi - lo + 1
  OBVIOUS
<1> HIDE DEF s, l, k, v
<1>5. \A i \in 1..(hi - lo) : s[i] = l[i]
  <2>1. \A i \in 1..(hi - lo) : lo + i - 1 \in Tickets /\ lo + i - 1 # hi
    BY DEF Tickets
  <2>2. QED
    BY <1>2, <1>3, <1>4, <2>1
<1>6. l[hi - lo + 1] = v
  <2>1. lo + (hi - lo + 1) - 1 = hi /\ hi - lo + 1 \in 1..(k - lo)
    BY <1>4
  <2>2. QED
    BY <1>3, <2>1 DEF v
<1>7. /\ Append(s, v) \in Seq(Payloads) /\ Len(Append(s, v)) = hi - lo + 1
      /\ \A i \in 1..(hi - lo) : Append(s, v)[i] = s[i]
      /\ Append(s, v)[hi - lo + 1] = v
  BY <1>1, <1>2, AppendProperties
<1>8. \A i \in 1..(hi - lo + 1) : Append(s, v)[i] = l[i]
  BY <1>5, <1>6, <1>7
<1>9. l = Append(s, v)
  BY <1>3, <1>4, <1>7, <1>8, SeqEqual
<1>10. QED
  BY <1>9 DEF s, l, k, v

\* Taking a ticket takes the first value.
LEMMA AcceptedHead ==
  ASSUME NEW m \in [Tickets -> Payloads], NEW lo \in Nat, NEW hi \in Nat,
         lo < hi, hi <= MaxTickets
  PROVE  /\ Accepted(m, lo, hi) # <<>>
         /\ Head(Accepted(m, lo, hi)) = m[lo]
         /\ Tail(Accepted(m, lo, hi)) = Accepted(m, lo + 1, hi)
<1> DEFINE s == Accepted(m, lo, hi)
           k == lo + 1
           l == Accepted(m, k, hi)
<1>1. /\ s \in Seq(Payloads) /\ Len(s) = hi - lo
      /\ \A i \in 1..(hi - lo) : s[i] = m[lo + i - 1]
  <2>1. lo <= hi
    OBVIOUS
  <2>2. QED
    BY <2>1, AcceptedIs, Zenon
<1>2. /\ l \in Seq(Payloads) /\ Len(l) = hi - k
      /\ \A i \in 1..(hi - k) : l[i] = m[k + i - 1]
  <2>1. k \in Nat /\ k <= hi
    OBVIOUS
  <2> HIDE DEF k
  <2>2. QED
    BY <2>1, AcceptedIs
<1> HIDE DEF s, l
<1>3. s # <<>> /\ s[1] = m[lo] /\ Head(s) = s[1]
  <2>1. 1 \in 1..(hi - lo) /\ lo + 1 - 1 = lo
    OBVIOUS
  <2>2. QED
    BY <1>1, <2>1
<1>4. /\ Tail(s) \in Seq(Payloads) /\ Len(Tail(s)) = hi - lo - 1
      /\ \A i \in 1..(hi - lo - 1) : Tail(s)[i] = s[i + 1]
  BY <1>1, <1>3, HeadTailProperties
<1>5. \A i \in 1..(hi - lo - 1) : i + 1 \in 1..(hi - lo) /\ lo + (i + 1) - 1 = k + i - 1
  OBVIOUS
<1>6. Tail(s) = l
  <2>1. hi - k = hi - lo - 1
    OBVIOUS
  <2>2. \A i \in 1..(hi - lo - 1) : Tail(s)[i] = l[i]
    BY <1>1, <1>2, <1>4, <1>5, <2>1
  <2>3. QED
    BY <1>2, <1>4, <2>1, <2>2, SeqEqual
<1>7. QED
  BY <1>3, <1>6 DEF s, l

-----------------------------------------------------------------------------
Waiting == Accepted(sent, head, tail)
Taken == [c \in Consumers |-> IF cpc[c] = "read" THEN sent[ch[c]] ELSE None]

LEMMA FifoIs ==
  /\ Fifo!Init <=> /\ Waiting = <<>> /\ Taken = [c \in Consumers |-> None]
                   /\ cv = [c \in Consumers |-> None]
  /\ \A v : Fifo!Put(v) <=> /\ Len(Waiting) < Capacity /\ Waiting' = Append(Waiting, v)
                            /\ Taken' = Taken /\ cv' = cv
  /\ \A c : Fifo!Take(c) <=> /\ Waiting # <<>> /\ Taken[c] = None
                             /\ Taken' = [Taken EXCEPT ![c] = Head(Waiting)]
                             /\ Waiting' = Tail(Waiting) /\ cv' = cv
  /\ \A c : Fifo!Receive(c) <=> /\ Taken[c] # None /\ cv' = [cv EXCEPT ![c] = Taken[c]]
                                /\ Taken' = [Taken EXCEPT ![c] = None]
                                /\ Waiting' = Waiting
BY DEF Fifo!Init, Fifo!Put, Fifo!Take, Fifo!Receive, Waiting, Taken, Accepted

\* The slot that a producer claims is free, so fewer than Capacity are waiting.
LEMMA ClaimFindsRoom ==
  ASSUME IInv, Capacity >= 2, NEW p \in Producers, EnqClaim(p)
  PROVE  tail < head + Capacity
<1> USE DEF IInv, TypeOK, EnqClaim
<1>1. SUFFICES ASSUME tail = head + Capacity PROVE FALSE
  BY DEF WindowInv
<1>2. pt[p] = tail /\ seq[SlotOf(tail)] = tail
  BY DEF ProducerInv
<1>3. SlotOf(head) = SlotOf(tail) /\ head \in head..tail-1
  BY <1>1, SlotShift
<1>4. seq[SlotOf(tail)] \in {head, head + 1}
  BY <1>3 DEF TakenTickets
<1>5. QED
  BY <1>1, <1>2, <1>4

LEMMA ClaimIsPut ==
  ASSUME IInv, Capacity >= 2, NEW p \in Producers, EnqClaim(p)
  PROVE  \E v \in Values : Fifo!Put(v)
<1> USE DEF IInv, TypeOK
<1>1. /\ pt[p] = tail /\ tail' = tail + 1 /\ sent' = [sent EXCEPT ![tail] = pv[p]]
      /\ UNCHANGED <<head, cpc, ch, cv>>
  BY DEF EnqClaim, cvars
<1>2. /\ head \in Nat /\ tail \in Nat /\ head <= tail /\ tail < MaxTickets /\ pv[p] \in Values
      /\ sent \in [Tickets -> Payloads] /\ pv[p] \in Payloads
  BY DEF EnqClaim, ProducerInv, WindowInv, Payloads
<1>3. Waiting' = Append(Waiting, pv[p])
  <2>1. /\ sent' \in [Tickets -> Payloads] /\ sent'[tail] = pv[p]
        /\ \A j \in Tickets : j # tail => sent'[j] = sent[j]
    BY <1>1, <1>2 DEF Tickets
  <2> HIDE DEF IInv, TypeOK
  <2>2. Accepted(sent', head, tail + 1) = Append(Accepted(sent, head, tail), sent'[tail])
    BY <1>2, <2>1, AcceptedAppend
  <2>3. QED
    BY <1>1, <2>1, <2>2, Zenon DEF Waiting
<1>4. Len(Waiting) < Capacity
  <2>1. tail <= MaxTickets
    BY <1>2
  <2>2. Len(Waiting) = tail - head
    BY <1>2, <2>1, AcceptedIs, Zenon DEF Waiting
  <2>3. QED
    BY <1>2, <2>2, ClaimFindsRoom
<1>5. Taken' = Taken
  <2>1. \A c \in Consumers : cpc[c] = "read" => sent'[ch[c]] = sent[ch[c]]
    BY <1>1, <1>2 DEF ConsumerInv, Holding, WindowInv, Tickets
  <2>2. QED
    BY <1>1, <2>1 DEF Taken
<1>6. cv' = cv /\ pv[p] \in Values
  BY <1>1, <1>2
<1>7. PICK v \in Values : v = pv[p]
  BY <1>6
<1>8. Fifo!Put(v)
  BY <1>3, <1>4, <1>5, <1>6, <1>7, FifoIs
<1>9. QED
  BY <1>8

LEMMA ClaimIsTake ==
  ASSUME IInv, NEW c \in Consumers, DeqClaim(c)
  PROVE  Fifo!Take(c)
<1> USE DEF IInv, TypeOK
<1>1. /\ cpc[c] = "cas" /\ ch[c] = head /\ head' = head + 1
      /\ cpc' = [cpc EXCEPT ![c] = "read"] /\ UNCHANGED <<tail, ch, cv, sent>>
  BY DEF DeqClaim
<1>2. seq[SlotOf(head)] = head + 1
  BY <1>1 DEF ConsumerInv
<1>3. head < tail
  BY <1>2 DEF WindowInv, FreeTickets
<1>4. /\ head \in Nat /\ tail \in Nat /\ tail <= MaxTickets /\ sent \in [Tickets -> Payloads]
  BY DEF Payloads
<1>5. Waiting # <<>> /\ Head(Waiting) = sent[head] /\ Tail(Waiting) = Waiting'
  <2>1. /\ Accepted(sent, head, tail) # <<>>
        /\ Head(Accepted(sent, head, tail)) = sent[head]
        /\ Tail(Accepted(sent, head, tail)) = Accepted(sent, head + 1, tail)
    BY <1>3, <1>4, AcceptedHead, Zenon
  <2>2. QED
    BY <1>1, <2>1, Zenon DEF Waiting
<1>6. Taken[c] = None /\ Taken' = [Taken EXCEPT ![c] = sent[head]]
  BY <1>1 DEF Taken
<1>7. QED
  BY <1>1, <1>5, <1>6, FifoIs

LEMMA ReadIsReceive ==
  ASSUME IInv, NEW c \in Consumers, DeqRead(c)
  PROVE  Fifo!Receive(c)
<1> USE DEF IInv, TypeOK
<1>1. /\ cpc[c] = "read" /\ cv' = [cv EXCEPT ![c] = val[SlotOf(ch[c])]]
      /\ cpc' = [cpc EXCEPT ![c] = "release"] /\ UNCHANGED <<head, tail, ch, sent>>
  BY DEF DeqRead
<1>2. val[SlotOf(ch[c])] = sent[ch[c]] /\ ch[c] \in Nat /\ ch[c] < head /\ head <= tail
      /\ tail <= MaxTickets
  BY <1>1 DEF ConsumerInv, Holding, WindowInv
<1>3. sent[ch[c]] # None
  BY <1>2 DEF HistoryInv, Tickets
<1>4. /\ Taken[c] = sent[ch[c]] /\ Taken' = [Taken EXCEPT ![c] = None]
  BY <1>1 DEF Taken
<1>5. Waiting' = Waiting
  BY <1>1 DEF Waiting
<1>6. QED
  BY <1>1, <1>2, <1>3, <1>4, <1>5, FifoIs

\* The other steps are not visible in the queue.
LEMMA Unseen ==
  ASSUME IInv, UNCHANGED <<head, tail, sent, cv>>,
         \A c \in Consumers : (cpc'[c] = "read" <=> cpc[c] = "read")
                              /\ (cpc[c] = "read" => ch'[c] = ch[c])
  PROVE  UNCHANGED Fifo!vars
<1>1. Waiting' = Waiting /\ Taken' = Taken
  BY DEF Waiting, Taken
<1>2. QED
  BY <1>1 DEF Fifo!vars, Waiting, Taken, Accepted

LEMMA FifoStep ==
  ASSUME Capacity >= 2, IInv, [Next]_vars
  PROVE  [Fifo!Next]_(Fifo!vars)
<1> USE DEF IInv, TypeOK
<1>1. ASSUME NEW p \in Producers, EnqClaim(p) PROVE Fifo!Next
  <2> HIDE DEF IInv, TypeOK
  <2>1. \E v \in Values : Fifo!Put(v)
    BY <1>1, ClaimIsPut
  <2>2. QED
    BY <2>1 DEF Fifo!Next
<1>2. ASSUME NEW c \in Consumers, DeqClaim(c) \/ DeqRead(c) PROVE Fifo!Next
  <2>1. Fifo!Take(c) \/ Fifo!Receive(c)
    BY <1>2, ClaimIsTake, ReadIsReceive
  <2>2. QED
    BY <2>1, Zenon DEF Fifo!Next
<1>3. ASSUME NEW p \in Producers, ProducerStep(p) \/ \E v \in Values : EnqCall(p, v),
             ~EnqClaim(p)
      PROVE  UNCHANGED Fifo!vars
  <2>1. UNCHANGED <<head, tail, sent, cv, cpc, ch>>
    BY <1>3 DEF ProducerStep, EnqCall, EnqLoadTail, EnqSeesFree, EnqFull, EnqStale, EnqLost,
                EnqWrite, EnqPublish, cvars
  <2>2. QED
    BY <2>1, Unseen
<1>4. ASSUME NEW c \in Consumers, ConsumerStep(c), ~DeqClaim(c), ~DeqRead(c)
      PROVE  UNCHANGED Fifo!vars
  <2>1. /\ UNCHANGED <<head, tail, sent, cv>>
        /\ cpc[c] # "read" /\ cpc'[c] # "read"
        /\ \A d \in Consumers : d # c => cpc'[d] = cpc[d] /\ ch'[d] = ch[d]
    BY <1>4 DEF ConsumerStep, DeqLoadHead, DeqSeesFull, DeqEmpty, DeqStale, DeqLost, DeqRelease
  <2>2. QED
    BY <2>1, Unseen
<1>5. CASE UNCHANGED vars
  BY <1>5, Unseen DEF vars
<1>6. QED
  BY <1>1, <1>2, <1>3, <1>4, <1>5 DEF Next

(***************************************************************************)
(* The queue implements BoundedFifo: values leave in the order in which    *)
(* producers took their tickets, each to one consumer, and at most         *)
(* Capacity are waiting, for every number of threads and every capacity of *)
(* at least two (enqueue and dequeue, mpmc_queue.rs:27-61).                *)
(***************************************************************************)
THEOREM FifoRefines == Capacity >= 2 => (Spec => ImplementsFifo)
<1> SUFFICES ASSUME Capacity >= 2 PROVE Spec => ImplementsFifo
  OBVIOUS
<1>1. Init => Fifo!Init
  <2> SUFFICES ASSUME Init PROVE Fifo!Init
    OBVIOUS
  <2>1. Waiting = <<>>
    BY DEF Init, Waiting, Accepted
  <2>2. Taken = [c \in Consumers |-> None] /\ cv = [c \in Consumers |-> None]
    BY DEF Init, Taken
  <2>3. QED
    BY <2>1, <2>2, FifoIs
<1>2. IInv /\ [Next]_vars => [Fifo!Next]_(Fifo!vars)
  BY FifoStep
<1>3. QED
  BY <1>1, <1>2, Inductive, PTL DEF Spec, ImplementsFifo, Fifo!Spec
=============================================================================
