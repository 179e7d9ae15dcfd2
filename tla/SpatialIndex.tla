--------------------------- MODULE SpatialIndex ---------------------------
(* build_lbvh of cap_algorithms (spatial.rs): the primitives are ordered by the
   Morton codes of their centres and joined pairwise, level by level, into a
   tree of bounding boxes laid out in the caller's array.  An odd level carries
   its last node up by a node of its own with one child. *)
EXTENDS Integers, Sequences, FiniteSets

CONSTANTS
    Centers,     \* points a primitive may be centred at, records of x, y, z
    MostPrims    \* bound of the model

VARIABLES
    centre, room,  \* the arguments: the centres and the length of out_nodes
    stage, codes, order, nodes, level, above, scratch

lbvhvars == <<centre, room, stage, codes, order, nodes, level, above, scratch>>

Coords == {"x", "y", "z"}
SpatialAssumption == Centers \subseteq [Coords -> Int] /\ MostPrims \in Nat
Lower(S) == CHOOSE v \in S : \A u \in S : v <= u
Upper(S) == CHOOSE v \in S : \A u \in S : u <= v
N == Len(centre)

Box(c) == [min |-> [d \in Coords |-> c[d] - 1], max |-> [d \in Coords |-> c[d] + 1]]

\* Mutant of Union: the lower corner is taken from the first box only.
UnionFirstMin(a, b) ==
    [min |-> a.min, max |-> [d \in Coords |-> Upper({a.max[d], b.max[d]})]]

Union(a, b) == [min |-> [d \in Coords |-> Lower({a.min[d], b.min[d]})],
                max |-> [d \in Coords |-> Upper({a.max[d], b.max[d]})]]

BoxOfPoints(ps) ==
    [min |-> [d \in Coords |-> Lower({ps[i][d] : i \in DOMAIN ps})],
     max |-> [d \in Coords |-> Upper({ps[i][d] : i \in DOMAIN ps})]]

\* morton3: the cell of p on each axis, one of 1024, and the bits of the three
\* cells interleaved, x lowest.
Cell(p, box, d) == LET extent == box.max[d] - box.min[d]
                   IN  IF extent > 0 THEN ((p[d] - box.min[d]) * 1023) \div extent ELSE 0
Apart(v, rest) == (v % 2) + 8 * rest
Spread(v) ==
    Apart(v, Apart(v \div 2, Apart(v \div 4, Apart(v \div 8, Apart(v \div 16,
    Apart(v \div 32, Apart(v \div 64, Apart(v \div 128, Apart(v \div 256,
    Apart(v \div 512, 0))))))))))
Morton(p, box) == Spread(Cell(p, box, "x")) + 2 * Spread(Cell(p, box, "y"))
                    + 4 * Spread(Cell(p, box, "z"))

Init ==
    /\ \E n \in 0 .. MostPrims : centre \in [1 .. n -> Centers]
    /\ room \in {2 * N - 2, 2 * N - 1, 2 * N + 3} /\ room >= 0
    /\ stage = "start"
    /\ codes = << >> /\ order = << >> /\ nodes = << >> /\ level = << >> /\ above = << >>
    /\ scratch = {}

Refuse ==
    /\ stage = "start" /\ (N = 0 \/ room < 2 * N - 1)
    /\ stage' = IF N = 0 THEN "done" ELSE "failed"
    /\ UNCHANGED <<centre, room, codes, order, nodes, level, above, scratch>>

\* The scratch block for codes and indices, and the codes.
Encode ==
    /\ stage = "start" /\ N > 0 /\ room >= 2 * N - 1
    /\ stage' = "sort"
    /\ scratch' = {"codes"}
    /\ codes' = [i \in 1 .. N |-> Morton(centre[i], BoxOfPoints(centre))]
    /\ UNCHANGED <<centre, room, order, nodes, level, above>>

\* radix_sort_pairs_u32 keeps equal codes in the order of the primitives.
SortPairs ==
    /\ stage = "sort"
    /\ stage' = "leaves"
    /\ order' = [k \in 1 .. N |-> CHOOSE i \in 1 .. N :
                    Cardinality({j \in 1 .. N : \/ codes[j] < codes[i]
                                                \/ (codes[j] = codes[i] /\ j <= i)}) = k]
    /\ UNCHANGED <<centre, room, codes, nodes, level, above, scratch>>

\* An allocation fails: of the first block, of the sort's scratch, of the level
\* buffer.  What was allocated before is not given back.
AllocFails ==
    /\ \/ stage = "start" /\ N > 0 /\ room >= 2 * N - 1
       \/ stage = "sort" /\ N > 1
       \/ stage = "leaves"
    /\ stage' = "failed"
    /\ UNCHANGED <<centre, room, codes, order, nodes, level, above, scratch>>

Leaves ==
    /\ stage = "leaves"
    /\ stage' = "join"
    /\ nodes' = [k \in 1 .. N |-> [left |-> 0, right |-> 0, parent |-> 0,
                                   box |-> Box(centre[order[k]])]]
    /\ level' = [k \in 1 .. N |-> k]
    /\ scratch' = scratch \union {"level"}
    /\ UNCHANGED <<centre, room, codes, order, above>>

\* A new node above l and, in a pair, r (0 when l is the odd one out); writing
\* past out_nodes panics.
Join(l, r) ==
    LET free == Len(nodes) + 1
        parented == [i \in 1 .. Len(nodes) |->
                       IF i \in {l, r} THEN [nodes[i] EXCEPT !.parent = free] ELSE nodes[i]]
        box == IF r = 0 THEN nodes[l].box ELSE Union(nodes[l].box, nodes[r].box)
    IN  IF free > room
        THEN stage' = "panicked" /\ nodes' = parented /\ UNCHANGED above
        ELSE /\ nodes' = Append(parented, [left |-> l, right |-> r, parent |-> 0, box |-> box])
             /\ above' = Append(above, free)
             /\ UNCHANGED stage

JoinPair ==
    /\ stage = "join" /\ Len(level) >= 2
    /\ Join(level[1], level[2])
    /\ level' = SubSeq(level, 3, Len(level))
    /\ UNCHANGED <<centre, room, codes, order, scratch>>

CarryUp ==
    /\ stage = "join" /\ Len(level) = 1 /\ above # << >>
    /\ Join(level[1], 0)
    /\ level' = << >>
    /\ UNCHANGED <<centre, room, codes, order, scratch>>

NextLevel ==
    /\ stage = "join" /\ level = << >>
    /\ level' = above /\ above' = << >>
    /\ UNCHANGED <<centre, room, stage, codes, order, nodes, scratch>>

Finish ==
    /\ stage = "join" /\ Len(level) = 1 /\ above = << >>
    /\ stage' = "done"
    /\ scratch' = {}
    /\ UNCHANGED <<centre, room, codes, order, nodes, level, above>>

Next == Refuse \/ Encode \/ SortPairs \/ AllocFails \/ Leaves \/ JoinPair
            \/ CarryUp \/ NextLevel \/ Finish

Spec == Init /\ [][Next]_lbvhvars

\* The leaves below a node; children come before their parents.
Under == LET under[i \in 1 .. Len(nodes)] ==
                IF nodes[i].left = 0 THEN {i}
                ELSE under[nodes[i].left]
                     \union (IF nodes[i].right = 0 THEN {} ELSE under[nodes[i].right])
         IN  under

(* A finished build is one tree: the leaves hold every primitive once, in the
   order of their codes; every node but the last is a child of the parent it
   names; the last is the root above all leaves; a box is the smallest one
   around the boxes of the leaves below.  The array sized 2n - 1 is too short,
   and the build panics, only when some level is odd. *)
TreeSound ==
    /\ stage = "done" /\ N > 0 =>
         /\ scratch = {}
         /\ {order[k] : k \in 1 .. N} = 1 .. N
         /\ \A k \in 1 .. N - 1 : codes[order[k]] <= codes[order[k + 1]]
         /\ Under[Len(nodes)] = 1 .. N
         /\ \A i \in 1 .. Len(nodes) - 1 : i \in {nodes[nodes[i].parent].left,
                                                 nodes[nodes[i].parent].right}
         /\ \A i \in 1 .. Len(nodes), d \in Coords :
              /\ nodes[i].box.min[d] = Lower({nodes[k].box.min[d] : k \in Under[i]})
              /\ nodes[i].box.max[d] = Upper({nodes[k].box.max[d] : k \in Under[i]})
    /\ stage = "panicked" => N \notin {1, 2, 4, 8} /\ Len(nodes) >= 2 * N - 1

(* Nearer the lower corner on every axis means no larger code: the order keeps
   neighbours near each other. *)
CodesMonotone ==
    stage = "sort" => \A i, j \in 1 .. N :
        (\A d \in Coords : centre[i][d] <= centre[j][d]) => codes[i] <= codes[j]

(* Cap/Algorithms/Sample/Test/main.rs:31 and 34: the build answers 2n - 1
   nodes, the length it requires of out_nodes. *)
BuiltIsNeeded == stage = "done" /\ N > 0 => Len(nodes) = 2 * N - 1
=============================================================================
