---------------------------- MODULE HashMapTable ----------------------------
(***************************************************************************)
(* HashMap of Cap.Containers (hash_map.rs): open addressing with linear    *)
(* probing.  A removed entry leaves a tombstone, so that keys behind it    *)
(* are still found; insert reuses the first tombstone of its probe, but    *)
(* only once it has met an empty slot.  The hash function is any function. *)
(* A call is a step.                                                       *)
(***************************************************************************)
EXTENDS Naturals, FiniteSets, FiniteSetsExt

CONSTANTS HashKeys, HashValues, Slots   \* Slots: a power of two

HashAssumption == Slots \in Nat \ {0}

VARIABLES
  home,    \* the hash of each key, masked
  slot,    \* per slot: "empty", "deleted", or an entry
  len,
  ok, result   \* of the last call: whether it succeeded, the entries it gave

vars == <<home, slot, len, ok, result>>

Empty == [tag |-> "empty"]
Deleted == [tag |-> "deleted"]
Used(k, v) == [tag |-> "used", key |-> k, val |-> v]

Init ==
  /\ home \in [HashKeys -> 0..(Slots - 1)]
  /\ slot = [i \in 0..(Slots - 1) |-> Empty]
  /\ len = 0
  /\ ok = TRUE /\ result = {}

\* The slot of the n-th probe for k.  A probe ends at an empty slot, at the
\* slot of the key, or after Slots + 1 probes.
At(k, n) == (home[k] + n) % Slots
Holds(k, n) == slot[At(k, n)].tag = "used" /\ slot[At(k, n)].key = k
Ends(k) == {n \in 0..Slots : slot[At(k, n)] = Empty \/ Holds(k, n)}
Found(k) == Ends(k) # {} /\ Holds(k, Min(Ends(k)))
SlotOf(k) == At(k, Min(Ends(k)))

\* Where a new key goes: the first tombstone on the way to the empty slot.
Target(k) ==
  LET stones == {n \in 0..Min(Ends(k)) : slot[At(k, n)] = Deleted}
  IN At(k, Min(stones \cup {Min(Ends(k))}))

\* Mutant: a tombstone is taken before the key is looked for behind it.
FoundAtOnce(k) ==
  /\ Ends(k) # {} /\ Holds(k, Min(Ends(k)))
  /\ \A n \in 0..Min(Ends(k)) : slot[At(k, n)] # Deleted

Refused(k) == len >= Slots \div 2 \/ Ends(k) = {}

\* Mutant: the first tombstone is taken as soon as it is met.
InsertAtTombstone(k, v) ==
  /\ ~Refused(k)
  /\ LET old == FoundAtOnce(k)
     IN /\ slot' = [slot EXCEPT ![IF old THEN SlotOf(k) ELSE Target(k)] = Used(k, v)]
        /\ len' = IF old THEN len ELSE len + 1
  /\ ok' = TRUE /\ result' = {}
  /\ UNCHANGED home

Insert(k, v) ==
  /\ ~Refused(k)
  /\ slot' = [slot EXCEPT ![IF Found(k) THEN SlotOf(k) ELSE Target(k)] = Used(k, v)]
  /\ len' = IF Found(k) THEN len ELSE len + 1
  /\ ok' = TRUE /\ result' = {}
  /\ UNCHANGED home

Refuse(k) ==
  /\ Refused(k)
  /\ ok' = FALSE /\ result' = {}
  /\ UNCHANGED <<home, slot, len>>

ReturnEntry(k) ==
  /\ ok' = Found(k)
  /\ result' = IF Found(k) THEN {<<k, slot[SlotOf(k)].val>>} ELSE {}

Get(k) == ReturnEntry(k) /\ UNCHANGED <<home, slot, len>>

\* get_mut, and a write through the reference it gives.
GetMut(k, v) ==
  /\ Found(k)
  /\ slot' = [slot EXCEPT ![SlotOf(k)] = Used(k, v)]
  /\ ok' = TRUE /\ result' = {}
  /\ UNCHANGED <<home, len>>

Remove(k) ==
  /\ ReturnEntry(k)
  /\ slot' = IF Found(k) THEN [slot EXCEPT ![SlotOf(k)] = Deleted] ELSE slot
  /\ len' = IF Found(k) THEN len - 1 ELSE len
  /\ UNCHANGED home

InUse == {i \in DOMAIN slot : slot[i].tag = "used"}

Iterate ==
  /\ ok' = TRUE
  /\ result' = {<<slot[i].key, slot[i].val>> : i \in InUse}
  /\ UNCHANGED <<home, slot, len>>

Next ==
  \/ \E k \in HashKeys :
       \/ Refuse(k) \/ Get(k) \/ Remove(k)
       \/ \E v \in HashValues : Insert(k, v) \/ GetMut(k, v)
  \/ Iterate

Spec == Init /\ [][Next]_vars

-----------------------------------------------------------------------------

\* The entries, as a map from keys to values; with two entries for a key it
\* has that of the higher slot.
Contents ==
  [k \in {slot[i].key : i \in InUse} |->
     slot[Max({i \in InUse : slot[i].key = k})].val]

D == INSTANCE Dictionary WITH
       DictKeys <- HashKeys, DictValues <- HashValues, MaxLen <- Slots \div 2,
       map <- Contents

\* However inserts, replacements and removals leave tombstones behind, the
\* table is a map: no key twice, none lost behind a tombstone, and never so
\* many keys that a probe finds no end.
DictionaryStep == [D!Next]_<<Contents, ok, result>>
ImplementsDictionary == D!Init /\ [][DictionaryStep]_vars
=============================================================================
