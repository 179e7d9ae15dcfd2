-------------------------------- MODULE Counter --------------------------------
(* Counter (src/Foundation/Cap/Concurrency/API/counter.rs) over the system's   *)
(* wait_on_address: the wait sleeps only while the word still holds what was   *)
(* compared, and comes back when it is woken, at times for no reason, or with  *)
(* an error when its time is over. sub wakes the waiters when it reaches zero. *)
EXTENDS Integers

CONSTANTS
  CWaiters,   \* threads in wait_zero
  CWorkers,   \* threads that take back what was added
  CStart      \* bound: the most one of them has added and not taken back

CounterAssumption == CStart \in Nat

VARIABLES
  word,     \* v
  share,    \* what each worker still has to take back
  cpc,      \* of each waiter: "load", "compare", "asleep", "true" or "false"
  cur,      \* the value each waiter loaded
  wakes,    \* workers that have reached zero and not yet woken the sleepers
  timed     \* whether a waiter's time runs: a timeout other than infinite

cntvars == <<word, share, cpc, cur, wakes, timed>>

Init ==
  /\ share \in {s \in [CWorkers -> 0 .. CStart] : \A w \in CWorkers : s[w] > 0}
  /\ word = (LET sum[S \in SUBSET CWorkers] ==
                   IF S = {} THEN 0 ELSE LET w == CHOOSE x \in S : TRUE IN share[w] + sum[S \ {w}]
             IN  sum[CWorkers])
  /\ cpc = [w \in CWaiters |-> "load"] /\ cur = [w \in CWaiters |-> 0]
  /\ wakes = {} /\ timed \in [CWaiters -> BOOLEAN]

(* A thread that still owes something adds more, so zero is final.            *)
Add(w) ==
  /\ w \notin wakes /\ share[w] \in 1 .. CStart - 1
  /\ word' = word + 1 /\ share' = [share EXCEPT ![w] = @ + 1]
  /\ UNCHANGED <<cpc, cur, wakes, timed>>

\* Mutant: no wake when the count comes to be exactly zero.
SubWakeAbove(w, n) ==
  /\ w \notin wakes /\ n \in 1 .. share[w]
  /\ word' = word - n
  /\ share' = [share EXCEPT ![w] = @ - n]
  /\ wakes' = IF word < n THEN wakes \cup {w} ELSE wakes
  /\ UNCHANGED <<cpc, cur, timed>>

(* fetch_sub of n, all that is left or one of it; prev <= n asks for a wake.   *)
Sub(w, n) ==
  /\ w \notin wakes /\ n \in 1 .. share[w]
  /\ word' = word - n
  /\ share' = [share EXCEPT ![w] = @ - n]
  /\ wakes' = IF word <= n THEN wakes \cup {w} ELSE wakes
  /\ UNCHANGED <<cpc, cur, timed>>
WakeAll(w) ==
  /\ w \in wakes
  /\ wakes' = wakes \ {w}
  /\ cpc' = [x \in CWaiters |-> IF cpc[x] = "asleep" THEN "load" ELSE cpc[x]]
  /\ UNCHANGED <<word, share, cur, timed>>

Go(x, from, to) == cpc[x] = from /\ cpc' = [cpc EXCEPT ![x] = to]
Load(x) ==
  /\ Go(x, "load", IF word = 0 THEN "true" ELSE "compare")
  /\ cur' = [cur EXCEPT ![x] = word]
  /\ UNCHANGED <<word, share, wakes, timed>>
Compare(x) ==
  /\ Go(x, "compare", IF word = cur[x] THEN "asleep" ELSE "load")
  /\ UNCHANGED <<word, share, cur, wakes, timed>>
Spurious(x) ==
  /\ Go(x, "asleep", "load")
  /\ UNCHANGED <<word, share, cur, wakes, timed>>
TimesOut(x) ==
  /\ timed[x]
  /\ Go(x, "asleep", "false")
  /\ UNCHANGED <<word, share, cur, wakes, timed>>

Worker(w) == WakeAll(w) \/ \E n \in 1 .. CStart : Sub(w, n)
Waiter(x) == Load(x) \/ Compare(x)
Next == \/ \E w \in CWorkers : Add(w) \/ Worker(w)
        \/ \E x \in CWaiters : Waiter(x) \/ Spurious(x) \/ TimesOut(x)
Spec == Init /\ [][Next]_cntvars
        /\ \A w \in CWorkers : WF_cntvars(Worker(w))
        /\ \A x \in CWaiters : WF_cntvars(Waiter(x))
-----------------------------------------------------------------------------
(* Once the count has reached zero every wait_zero that has not given up       *)
(* returns, with neither a timeout nor a spurious wakeup to rely on: no wake   *)
(* falls between the load of the count and the sleep.                          *)
ZeroReturnsTo(x) == (word = 0) ~> (cpc[x] \in {"true", "false"})
ZeroReturns == \A x \in CWaiters : ZeroReturnsTo(x)
=============================================================================
