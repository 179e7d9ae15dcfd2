----------------------------- MODULE Dictionary -----------------------------
(***************************************************************************)
(* What HashMap of Cap.Containers promises: a finite map of bounded size.  *)
(* insert may be refused, and then changes nothing; get, remove and the    *)
(* iterators answer from the map.                                          *)
(***************************************************************************)
EXTENDS Naturals, FiniteSets, Functions

CONSTANTS DictKeys, DictValues, MaxLen

VARIABLES
  map,
  ok,        \* the last call succeeded
  result     \* the entries it returned

Init == map = [k \in {} |-> 0] /\ ok = TRUE /\ result = {}

Has(k) == k \in DOMAIN map

Insert(k, v) ==
  /\ Has(k) \/ Cardinality(DOMAIN map) < MaxLen
  /\ map' = [j \in DOMAIN map \cup {k} |-> IF j = k THEN v ELSE map[j]]
  /\ ok' = TRUE /\ result' = {}

Refuse == map' = map /\ ok' = FALSE /\ result' = {}

Entries(K) == {<<k, map[k]>> : k \in K \cap DOMAIN map}

Return(K) == ok' = (K \cap DOMAIN map # {}) /\ result' = Entries(K)

Get(k) == map' = map /\ Return({k})

Remove(k) ==
  /\ map' = Restrict(map, DOMAIN map \ {k})
  /\ Return({k})

Iterate == map' = map /\ ok' = TRUE /\ result' = Entries(DOMAIN map)

Next ==
  \/ \E k \in DictKeys : Get(k) \/ Remove(k) \/ \E v \in DictValues : Insert(k, v)
  \/ Refuse
  \/ Iterate
=============================================================================
