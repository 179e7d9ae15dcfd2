----------------------------- MODULE PoolMemory -----------------------------
(***************************************************************************)
(* SmallObjectAllocatorResource and the PoolAllocatorResources it is made  *)
(* of (Cap.Memory, Windows backend): one pool per size class.  The thread  *)
(* that created the pools allocates and keeps what it frees in a cache of  *)
(* its own (POOL_TLS); the others free into a list shared with it, which   *)
(* is linked through the freed blocks and changed by compare-and-swap.     *)
(* A load, a compare-and-swap, or a piece of code that touches only memory *)
(* of one thread is a step.                                                *)
(*                                                                         *)
(* One thread allocates: allocate takes &mut self, and with two of them    *)
(* the pop of the shared list would be open to the reuse of its head.      *)
(***************************************************************************)
EXTENDS Naturals, Sequences, FiniteSets, Functions

CONSTANTS
  Classes,    \* sizes of the blocks of the pools (SIZE_CLASSES)
  Requests,   \* sizes that callers ask for
  BlocksPer,  \* blocks that fit into a pool
  TlsSlots,   \* entries of POOL_TLS (64 in the code)
  Owner,      \* the thread that created the pools
  Remotes     \* other threads, which only free

\* Requests beyond the classes go to the system; POOL_TLS has room for the pools.
PoolAssumption ==
  /\ IsFiniteSet(Classes) /\ Classes \subseteq Nat \ {0}
  /\ Requests \subseteq Nat \ {0} /\ \A size \in Requests : \E c \in Classes : c >= size
  /\ BlocksPer \in Nat /\ Cardinality(Classes) <= TlsSlots /\ TlsSlots \in Nat \ {0}
  /\ Owner \notin Remotes

Threads == {Owner} \cup Remotes
Blocks == Classes \X (1..BlocksPer)
Null == <<0, 0>>

VARIABLES
  committed,    \* per pool: blocks taken from the reserved space
  remoteHead,   \* per pool: remote_free_head
  link,         \* per block: the pointer in its first word
  tls,          \* entries of the owner's POOL_TLS
  held,         \* history: blocks that callers use, with the size they were given
  pc, arg,      \* per thread: place in the call; the block a remote thread frees
  want, old,    \* of the owner's call: the pool, the block that reallocate replaces
  head, next    \* what allocate read of the shared list

locals == <<want, old, head, next>>
vars == <<committed, remoteHead, link, tls, held, pc, arg, locals>>

Init ==
  /\ committed = [c \in Classes |-> 0]
  /\ remoteHead = [c \in Classes |-> Null]
  /\ link = [b \in Blocks |-> Null]
  /\ tls = <<>>
  /\ held = {}
  /\ pc = [t \in Threads |-> "idle"]
  /\ arg = [t \in Threads |-> Null]
  /\ want = 0 /\ old = Null /\ head = Null /\ next = Null

Goto(t, to) == pc' = [pc EXCEPT ![t] = to]

\* The class that serves a request: the first that is large enough.
ClassOf(size) == CHOOSE c \in Classes :
  c >= size /\ \A d \in Classes : d >= size => c <= d

-----------------------------------------------------------------------------
(* POOL_TLS: pools find their list by key; the table has a last resort for *)
(* the pools that come when it is full, the list of the first entry.       *)

\* Mutant: the key is not compared.
FirstSlot(c) == 1

SlotOf(c) ==
  LET mine == {i \in DOMAIN tls : tls[i].key = c}
  IN IF mine # {} THEN CHOOSE i \in mine : TRUE
     ELSE IF Len(tls) < TlsSlots THEN Len(tls) + 1 ELSE 1

Entries(c) == IF SlotOf(c) > Len(tls) THEN Append(tls, [key |-> c, head |-> Null])
                                      ELSE tls

HeadOf(c) == Entries(c)[SlotOf(c)].head

TlsPop(c) == tls' = [Entries(c) EXCEPT ![SlotOf(c)].head =
                       IF HeadOf(c) = Null THEN Null ELSE link[HeadOf(c)]]

TlsPush(c, b) ==
  /\ tls' = [Entries(c) EXCEPT ![SlotOf(c)].head = b]
  /\ link' = [link EXCEPT ![b] = HeadOf(c)]

-----------------------------------------------------------------------------
(* allocate and reallocate *)

\* The call returns block b, which its user writes to; what reallocate
\* replaces is freed next.
Return(b) ==
  /\ held' = (held \ {[block |-> old, size |-> old[1]]})
               \cup {[block |-> b, size |-> want]}
  /\ link' = [link EXCEPT ![b] = Null]
  /\ Goto(Owner, IF old = Null THEN "idle" ELSE "free")
  /\ head' = Null /\ next' = Null /\ want' = 0
  /\ UNCHANGED <<old, arg>>

\* SmallObject::allocate; reallocate comes here when the new size is beyond
\* the class of its block.
Allocate(size, b) ==
  /\ pc[Owner] = "idle"
  /\ b # Null => b[1] < ClassOf(size)
  /\ want' = ClassOf(size) /\ old' = b
  /\ Goto(Owner, "cached")
  /\ UNCHANGED <<committed, remoteHead, link, tls, held, arg, head, next>>

Cached ==
  /\ pc[Owner] = "cached"
  /\ TlsPop(want)
  /\ IF HeadOf(want) = Null
     THEN Goto(Owner, "shared") /\ UNCHANGED <<held, link, arg, locals>>
     ELSE Return(HeadOf(want))
  /\ UNCHANGED <<committed, remoteHead>>

Shared ==
  /\ pc[Owner] = "shared"
  /\ head' = remoteHead[want]
  /\ Goto(Owner, IF head' = Null THEN "fresh" ELSE "next")
  /\ UNCHANGED <<committed, remoteHead, link, tls, held, arg, next, want, old>>

SharedNext ==
  /\ pc[Owner] = "next"
  /\ next' = link[head]
  /\ Goto(Owner, "cas")
  /\ UNCHANGED <<committed, remoteHead, link, tls, held, arg, head, want, old>>

SharedCas ==
  /\ pc[Owner] = "cas"
  /\ IF remoteHead[want] = head
     THEN remoteHead' = [remoteHead EXCEPT ![want] = next] /\ Return(head)
     ELSE Goto(Owner, "shared") /\ UNCHANGED <<remoteHead, held, link, arg, locals>>
  /\ UNCHANGED <<committed, tls>>

\* A new block from the reserved space.
Fresh ==
  /\ pc[Owner] = "fresh" /\ committed[want] < BlocksPer
  /\ committed' = [committed EXCEPT ![want] = @ + 1]
  /\ Return(<<want, committed[want] + 1>>)
  /\ UNCHANGED <<remoteHead, tls>>

\* There is none, or its page cannot be committed; reallocate keeps its block.
OutOfMemory ==
  /\ pc[Owner] = "fresh"
  /\ want' = 0 /\ old' = Null /\ head' = Null
  /\ Goto(Owner, "idle")
  /\ UNCHANGED <<committed, remoteHead, link, tls, held, arg, next>>

\* The end of reallocate: the owner frees the block it replaced.
FreeOld ==
  /\ pc[Owner] = "free"
  /\ TlsPush(old[1], old)
  /\ old' = Null
  /\ Goto(Owner, "idle")
  /\ UNCHANGED <<committed, remoteHead, held, arg, head, next, want>>

-----------------------------------------------------------------------------
(* deallocate: by the size of the block.  The head that a remote thread    *)
(* read is what it wrote into the block.                                   *)

FreeOwn(h) ==
  /\ pc[Owner] = "idle"
  /\ held' = held \ {h}
  /\ TlsPush(h.size, h.block)
  /\ UNCHANGED <<committed, remoteHead, pc, arg, locals>>

LinkTo(b) == link' = [link EXCEPT ![b] = remoteHead[b[1]]]

FreeRemote(t, h) ==
  /\ pc[t] = "idle"
  /\ held' = held \ {h}
  /\ arg' = [arg EXCEPT ![t] = h.block]
  /\ LinkTo(h.block)
  /\ Goto(t, "push")
  /\ UNCHANGED <<committed, remoteHead, tls, locals>>

FreeAgain(t) ==
  /\ pc[t] = "link"
  /\ LinkTo(arg[t])
  /\ Goto(t, "push")
  /\ UNCHANGED <<committed, remoteHead, tls, held, arg, locals>>

Push(t) ==
  /\ remoteHead' = [remoteHead EXCEPT ![arg[t][1]] = arg[t]]
  /\ arg' = [arg EXCEPT ![t] = Null]
  /\ Goto(t, "idle")

\* Mutant: the head is stored without comparing.
FreePushBlind(t) ==
  /\ pc[t] = "push"
  /\ Push(t)
  /\ UNCHANGED <<committed, link, tls, held, locals>>

FreePush(t) ==
  /\ pc[t] = "push"
  /\ IF remoteHead[arg[t][1]] = link[arg[t]]
     THEN Push(t)
     ELSE Goto(t, "link") /\ UNCHANGED <<remoteHead, arg>>
  /\ UNCHANGED <<committed, link, tls, held, locals>>

-----------------------------------------------------------------------------

\* reset of all pools.  It forgets the shared lists and what was committed,
\* but not the cache: callers reset when nothing is in use or cached.
Reset ==
  /\ held = {} /\ \A t \in Threads : pc[t] = "idle"
  /\ \A i \in DOMAIN tls : tls[i].head = Null
  /\ committed' = [c \in Classes |-> 0]
  /\ remoteHead' = [c \in Classes |-> Null]
  /\ link' = [b \in Blocks |-> Null]
  /\ UNCHANGED <<tls, held, pc, arg, locals>>

Next ==
  \/ \E size \in Requests :
       Allocate(size, Null) \/ \E h \in held : Allocate(size, h.block)
  \/ Cached \/ Shared \/ SharedNext \/ SharedCas \/ Fresh \/ OutOfMemory \/ FreeOld
  \/ \E h \in held : h.block # old /\ (FreeOwn(h) \/ \E t \in Remotes : FreeRemote(t, h))
  \/ \E t \in Remotes : FreeAgain(t) \/ FreePush(t)
  \/ Reset

Spec == Init /\ [][Next]_vars

-----------------------------------------------------------------------------

\* The lists that blocks of class c can form, and whether s is the one at b.
Lists(c) == UNION {[1..n -> {c} \X (1..BlocksPer)] : n \in 0..BlocksPer}
Chain(links, s, b) ==
  /\ b = IF s = <<>> THEN Null ELSE s[1]
  /\ \A i \in 1..Len(s) : links[s[i]] = IF i = Len(s) THEN Null ELSE s[i + 1]

CachedHead(table, c) ==
  LET mine == {i \in DOMAIN table : table[i].key = c}
  IN IF mine = {} THEN Null ELSE table[CHOOSE i \in mine : TRUE].head

Moving == {arg[t] : t \in {u \in Remotes : pc[u] \in {"link", "push"}}}
            \cup (IF pc[Owner] = "free" THEN {old} ELSE {})
InUse(c) == {h.block : h \in {k \in held : k.size = c}}

\* Every block taken from the space of a pool is in exactly one place: used by
\* a caller, in the hands of a thread that frees it, or once in one of the two
\* lists of its pool.  So no block is handed out twice, given to a pool of
\* another size, or lost, however frees and allocations interleave.
EveryBlockInOnePlace ==
  \A c \in Classes : \E cached \in Lists(c), shared \in Lists(c) :
    LET moving == {b \in Moving : b[1] = c}
    IN /\ Chain(link, cached, CachedHead(tls, c)) /\ Chain(link, shared, remoteHead[c])
       /\ IsInjective(cached) /\ IsInjective(shared) /\ Range(cached) \cap Range(shared) = {}
       /\ (Range(cached) \cup Range(shared)) \cap (moving \cup InUse(c)) = {}
       /\ moving \cap InUse(c) = {}
       /\ Range(cached) \cup Range(shared) \cup moving \cup InUse(c) = {c} \X (1..committed[c])
=============================================================================
