------------------------------ MODULE Sorting ------------------------------
(* The slice algorithms of cap_algorithms: quick_sort over an explicit stack
   (sort.rs), radix_sort (radix.rs), binary_search and the prefix sums
   (scan.rs).  One call runs on one slice; quick_sort and the sums take one
   element per step, radix_sort one digit, binary_search halves once. *)
EXTENDS Integers, Sequences, FiniteSets

CONSTANTS
    SortValues,   \* values of the elements
    LongestSlice, \* bound of the model
    StackPairs,   \* ranges the stack holds; 64 in the code
    Base,         \* values of a digit; 256 in the code
    WordMod       \* values of a word; 2^32 or 2^64 in the code

VARIABLES
    algo, given, xs,
    ranges,  \* the stack of quick_sort; the one range of binary_search
    walk,    \* the loop that runs: its range, where the next element at most
             \* the pivot goes, and the next element
    operand, \* the weight of the next digit; the key; the sum so far
    outcome

sortvars == <<algo, given, xs, ranges, walk, operand, outcome>>

NaN == -1
Quick == {"quick_u64", "quick_f32"}
Sums == {"inclusive", "exclusive"}
SortingAssumption ==
    /\ LongestSlice \in Nat /\ StackPairs \in Nat \ {0} /\ Base \in Nat \ {0, 1}
    /\ \E digits \in 1 .. 8 : WordMod = Base ^ digits
    /\ WordMod \in Nat \ {0}
    /\ SortValues \subseteq 0 .. WordMod - 1

\* The comparison of the element type: NaN is not at most anything.
AtMost(u, v) == u # NaN /\ v # NaN /\ u <= v
SwapAt(s, i, j) == [s EXCEPT ![i] = s[j], ![j] = s[i]]
Sorted(s) == \A i, j \in DOMAIN s : i < j => AtMost(s[i], s[j])

NoWalk == [lo |-> 1, hi |-> 0, front |-> 1, next |-> 1]
Walking == walk.next <= walk.hi

Init ==
    /\ algo \in Quick \union Sums \union {"radix", "search"}
    /\ \E n \in 0 .. LongestSlice :
         given \in [1 .. n -> SortValues \union IF algo = "quick_f32" THEN {NaN} ELSE {}]
    /\ algo = "search" => Sorted(given)
    /\ xs = given
    /\ ranges = CASE algo = "search" -> <<<<1, Len(given) + 1>>>>
                  [] algo \in Quick /\ Len(given) > 1 -> <<<<1, Len(given)>>>>
                  [] OTHER -> << >>
    /\ walk = IF algo \in Sums THEN [NoWalk EXCEPT !.hi = Len(given)] ELSE NoWalk
    /\ CASE algo = "search" -> operand \in SortValues
         [] algo = "radix" -> operand = 1
         [] OTHER -> operand = 0
    /\ outcome = "running"

Running(algos) == algo \in algos /\ outcome = "running"

\* The last range is popped; one of fewer than two elements is left alone.
PopRange ==
    /\ Running(Quick) /\ ~Walking /\ ranges # << >>
    /\ LET top == ranges[Len(ranges)]
       IN  walk' = IF top[2] <= top[1] THEN NoWalk
                   ELSE [lo |-> top[1], hi |-> top[2], front |-> top[1], next |-> top[1]]
    /\ ranges' = SubSeq(ranges, 1, Len(ranges) - 1)
    /\ UNCHANGED <<algo, given, xs, operand, outcome>>

\* partition: the elements at most the pivot xs[hi] move to the front.
PartitionStep ==
    /\ Running(Quick) /\ walk.next < walk.hi
    /\ IF AtMost(xs[walk.next], xs[walk.hi])
       THEN /\ xs' = SwapAt(xs, walk.front, walk.next)
            /\ walk' = [walk EXCEPT !.front = @ + 1, !.next = @ + 1]
       ELSE /\ walk' = [walk EXCEPT !.next = @ + 1]
            /\ UNCHANGED xs
    /\ UNCHANGED <<algo, given, ranges, operand, outcome>>

\* Mutant of Worth: ranges of one element are pushed too.
WorthAnything(lo, hi) == lo <= hi

\* A range is pushed when it has two elements at least.
Worth(lo, hi) == lo < hi
Push(stack, lo, hi) == IF Worth(lo, hi) THEN Append(stack, <<lo, hi>>) ELSE stack

\* The pivot goes behind them, and the two sides are pushed; writing past the
\* stack array panics.
PartitionEnd ==
    /\ Running(Quick) /\ Walking /\ walk.next = walk.hi
    /\ xs' = SwapAt(xs, walk.front, walk.hi)
    /\ ranges' = Push(Push(ranges, walk.lo, walk.front - 1), walk.front + 1, walk.hi)
    /\ walk' = NoWalk
    /\ outcome' = IF Len(ranges') > StackPairs THEN "panicked" ELSE "running"
    /\ UNCHANGED <<algo, given, operand>>

QuickDone ==
    /\ Running(Quick) /\ ~Walking /\ ranges = << >>
    /\ outcome' = "done"
    /\ UNCHANGED <<algo, given, xs, ranges, walk, operand>>

\* One counting pass of radix_sort: where the element at i goes, from the
\* counts of the digits below its own and of the equal ones before it.
DigitOf(v, weight) == (v \div weight) % Base
Target(s, weight, i) ==
    Cardinality({j \in DOMAIN s :
        \/ DigitOf(s[j], weight) < DigitOf(s[i], weight)
        \/ (DigitOf(s[j], weight) = DigitOf(s[i], weight) /\ j <= i)})

\* Mutant of CountingPass: the positions are taken from the end.
CountingPassReversed(s, weight) ==
    [k \in DOMAIN s |-> s[CHOOSE i \in DOMAIN s : Target(s, weight, i) = Len(s) + 1 - k]]

CountingPass(s, weight) ==
    [k \in DOMAIN s |-> s[CHOOSE i \in DOMAIN s : Target(s, weight, i) = k]]

\* The scratch block of the slice's size is allocated before the first pass.
RadixFails ==
    /\ Running({"radix"}) /\ Len(xs) > 1 /\ operand = 1
    /\ outcome' = "out_of_memory"
    /\ UNCHANGED <<algo, given, xs, ranges, walk, operand>>

RadixStep ==
    /\ Running({"radix"})
    /\ IF Len(xs) > 1 /\ operand < WordMod
       THEN xs' = CountingPass(xs, operand) /\ operand' = operand * Base /\ UNCHANGED outcome
       ELSE outcome' = "done" /\ UNCHANGED <<xs, operand>>
    /\ UNCHANGED <<algo, given, ranges, walk>>

\* One halving of [lo, hi); the answer is the first position of the key.
SearchStep ==
    /\ Running({"search"})
    /\ LET lo == ranges[1][1]
           hi == ranges[1][2]
           mid == (lo + hi) \div 2
       IN  IF lo < hi
           THEN /\ ranges' = IF xs[mid] < operand THEN <<<<mid + 1, hi>>>> ELSE <<<<lo, mid>>>>
                /\ UNCHANGED outcome
           ELSE /\ outcome' = IF lo <= Len(xs) /\ xs[lo] = operand THEN "found" ELSE "none"
                /\ UNCHANGED ranges
    /\ UNCHANGED <<algo, given, xs, walk, operand>>

\* prefix_sum_u64_inclusive and _exclusive, with wrapping sums.
SumStep ==
    /\ Running(Sums)
    /\ IF Walking
       THEN /\ operand' = (operand + xs[walk.next]) % WordMod
            /\ xs' = [xs EXCEPT ![walk.next] = IF algo = "inclusive" THEN operand' ELSE operand]
            /\ walk' = [walk EXCEPT !.next = @ + 1]
            /\ UNCHANGED outcome
       ELSE outcome' = "done" /\ UNCHANGED <<xs, walk, operand>>
    /\ UNCHANGED <<algo, given, ranges>>

Next == PopRange \/ PartitionStep \/ PartitionEnd \/ QuickDone
            \/ RadixFails \/ RadixStep \/ SearchStep \/ SumStep

Spec == Init /\ [][Next]_sortvars

Count(s, v) == Cardinality({i \in DOMAIN s : s[i] = v})
Permuted == \A v \in SortValues \union {NaN} : Count(xs, v) = Count(given, v)

(* What each call answers: a sorted permutation (quick sort with NaN only a
   permutation), the first position of the key or none, the sums whose
   differences are the elements.  Quick sort panics on no slice shorter than
   3 * StackPairs + 2 elements: every pushed range has two elements at least
   and a pivot between it and the next. *)
SlicesCorrect ==
    /\ algo \in Quick \union {"radix"} => Permuted
    /\ outcome = "panicked" => Len(xs) >= 3 * StackPairs + 2
    /\ outcome = "out_of_memory" => xs = given
    /\ outcome = "done" /\ algo \in Quick \union {"radix"} =>
         Sorted(xs) \/ NaN \in {given[i] : i \in DOMAIN given}
    /\ outcome = "done" /\ algo = "inclusive" =>
         \A i \in DOMAIN xs : (xs[i] - (IF i = 1 THEN 0 ELSE xs[i - 1])) % WordMod = given[i]
    /\ outcome = "done" /\ algo = "exclusive" =>
         \A i \in DOMAIN xs : IF i = 1 THEN xs[1] = 0
                              ELSE (xs[i] - xs[i - 1]) % WordMod = given[i - 1]
    /\ outcome = "none" => Count(xs, operand) = 0
    /\ outcome = "found" =>
         /\ xs[ranges[1][1]] = operand
         /\ \A i \in 1 .. ranges[1][1] - 1 : xs[i] # operand
=============================================================================
