------------------------------ MODULE MCStorage ------------------------------
(* Instances of the modules about memory and what is kept in it: allocators,   *)
(* containers, command buffers, and the graph that one thread builds and runs. *)
(* One behaviour is of one of them, chosen at the start; the others keep an    *)
(* initial state.                                                              *)
EXTENDS Integers, Sequences, FiniteSets

CONSTANTS Kinds, Capacity, Page, Sizes, Aligns, MaxFrames,
          Classes, Requests, BlocksPer, TlsSlots, Owner, Remotes,
          Regions, Amounts, Limit, Granule,
          HashKeys, HashValues, Slots,
          Elements, BlockIds, FirstCap, InitialCaps,
          Cells, CellValues,
          Pieces, SsoCap, Longest,
          Commands, CmdBuffers, BufferCap, AggregatorCap,
          NodeCap, EdgeCap, MaxCalls

TwoPieces == {<<"x">>, <<"y", "z">>}

VARIABLES kind, offset, lcommitted, marks, curBegin, live, snaps,
          pcommitted, remoteHead, link, tls, held, ppc, parg, want, old, phead, pnext,
          used, block,
          home, slot, hlen, ok, result,
          form, items, cap, blk, idx, owner, vlive,
          front, back, cell, twoEnded, answer,
          repr, bytes, slen, text, blocks,
          buf, list, at, cmd, pushed, applied,
          gnodes, edges, trig, commit, computes, calls, gpc, indeg, q, qh, scan, roots, ran, promised,
          which

linear   == <<kind, offset, lcommitted, marks, curBegin, live, snaps>>
pool     == <<pcommitted, remoteHead, link, tls, held, ppc, parg, want, old, phead, pnext>>
tagged   == <<used, block>>
table    == <<home, slot, hlen, ok, result>>
vector   == <<form, items, cap, blk, idx, owner, vlive>>
rings    == <<front, back, cell, twoEnded, answer>>
string   == <<repr, bytes, slen, text, blocks>>
commands == <<buf, list, at, cmd, pushed, applied>>
graph    == <<gnodes, edges, trig, commit, computes, calls, gpc, indeg, q, qh, scan, roots, ran,
              promised>>

L == INSTANCE LinearMemory WITH committed <- lcommitted
P == INSTANCE PoolMemory WITH
       committed <- pcommitted, pc <- ppc, arg <- parg, head <- phead, next <- pnext
T == INSTANCE TaggedMemory
H == INSTANCE HashMapTable WITH len <- hlen
V == INSTANCE VectorStorage WITH live <- vlive
R == INSTANCE RingContainers
S == INSTANCE StringStorage WITH len <- slen
C == INSTANCE CommandBuffers
G == INSTANCE TaskGraphInline WITH nodes <- gnodes, pc <- gpc

ASSUME Constants ==
  /\ L!LinearAssumption /\ P!PoolAssumption /\ T!TaggedAssumption /\ H!HashAssumption
  /\ V!VectorAssumption /\ R!RingAssumption /\ S!StringAssumption /\ G!CapAssumption

Init ==
  /\ which \in {"linear", "pool", "tagged", "table", "vector", "rings", "string", "commands",
                "graph"}
  /\ L!Init /\ (which # "linear" => kind = "frame")
  /\ P!Init /\ T!Init
  /\ H!Init /\ (which # "table" => home = [k \in HashKeys |-> 0])
  /\ V!Init /\ (which # "vector" => cap = 0)
  /\ R!Init /\ (which # "rings" => twoEnded)
  /\ S!Init /\ (which # "string" => repr = "inline")
  /\ C!Init /\ G!Init

Next ==
  /\ UNCHANGED which
  /\ \/ /\ which = "linear" /\ L!Next
        /\ UNCHANGED <<pool, tagged, table, vector, rings, string, commands, graph>>
     \/ /\ which = "pool" /\ P!Next
        /\ UNCHANGED <<linear, tagged, table, vector, rings, string, commands, graph>>
     \/ /\ which = "tagged" /\ T!Next
        /\ UNCHANGED <<linear, pool, table, vector, rings, string, commands, graph>>
     \/ /\ which = "table" /\ H!Next
        /\ UNCHANGED <<linear, pool, tagged, vector, rings, string, commands, graph>>
     \/ /\ which = "vector" /\ V!Next
        /\ UNCHANGED <<linear, pool, tagged, table, rings, string, commands, graph>>
     \/ /\ which = "rings" /\ R!Next
        /\ UNCHANGED <<linear, pool, tagged, table, vector, string, commands, graph>>
     \/ /\ which = "string" /\ S!Next
        /\ UNCHANGED <<linear, pool, tagged, table, vector, rings, commands, graph>>
     \/ /\ which = "commands" /\ C!Next
        /\ UNCHANGED <<linear, pool, tagged, table, vector, rings, string, graph>>
     \/ /\ which = "graph" /\ G!Next
        /\ UNCHANGED <<linear, pool, tagged, table, vector, rings, string, commands>>

Spec == Init /\ [][Next]_<<linear, pool, tagged, table, vector, rings, string, commands, graph,
                           which>>
-----------------------------------------------------------------------------
(* Frame, Stack and the state ring: blocks in use lie apart, inside what is    *)
(* committed and below the offset; a rollback brings back the blocks of the    *)
(* frame it returns to and no other.                                           *)
MemorySafe == which = "linear" => L!MemorySafe

(* SmallObject pools and budgets: a block is in one place however frees of     *)
(* other threads interleave with the owner's, and the budget of a tagged       *)
(* allocator is what its blocks take, to the byte.                             *)
BlocksAccounted ==
  /\ which = "pool" => P!EveryBlockInOnePlace
  /\ which = "tagged" => T!BudgetExact

(* HashMap with its tombstones is a map, Deque and RingBuffer are sequences.   *)
ImplementsDictionary == H!D!Init /\ [][which = "table" => H!DictionaryStep]_table
ImplementsSequence == R!E!Init /\ [][which = "rings" => R!SequenceStep]_rings

(* Vector, its iterator and String own each element and block once, and free   *)
(* each once; a string reads as what was pushed.                               *)
ElementsKept ==
  /\ which = "vector" => V!OwnedOnce
  /\ which = "string" => S!TextIsWhatWasPushed

(* CommandAggregator::apply_all executes the commands of each buffer once and  *)
(* in the order of push: those executed are the first of those pushed.         *)
AppliedOnceInOrder == which = "commands" => C!AppliedOnceInOrder

(* dispatch_inline: when it returns, every node that no cycle holds back has   *)
(* run, within the queue's bounds, and a commit after its computes; no node    *)
(* runs twice or before one it depends on (task_graph.rs).                     *)
InlineSound == which = "graph" => G!QueueFits /\ G!AllRunnableRan /\ G!CommitAfterComputes
ImplementsOrder == G!Order!Init /\ [][which = "graph" => G!OrderStep]_graph
=============================================================================
