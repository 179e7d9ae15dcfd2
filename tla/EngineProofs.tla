---------------------------- MODULE EngineProofs ----------------------------
(***************************************************************************)
(* Proofs about the world of entities, the mounted aliases, the versioned  *)
(* buffers, the frames of the Vulkan backend, the calls of the system, the *)
(* vector kernels, the lanes and the geometry of MCEngine, each with the   *)
(* inductive invariant of its own behaviours.                              *)
(***************************************************************************)
EXTENDS MCEngine, SequenceTheorems, TLAPS

\* Each module makes a step of its own or none.
LEMMA OneAtATime ==
  ASSUME [Next]_everything
  PROVE  [W!Next]_(W!simvars) /\ [P!Next]_(P!vfsvars) /\ [V!Next]_(V!vbvars)
<1>1. [W!Next]_sim /\ [P!Next]_files /\ [V!Next]_versions
  <2>1. CASE UNCHANGED everything
    BY <2>1 DEF everything
  <2>2. CASE Next
    BY <2>2 DEF Next
  <2>3. QED
    BY <2>1, <2>2
<1>2. QED
  BY <1>1 DEF sim, W!simvars, files, P!vfsvars, versions, V!vbvars

-----------------------------------------------------------------------------
(* The world of entities *)

\* The vectors of a world: a generation may be missing at the end, rows and
\* components go together, and there are none without a storage.
Worlds ==
  [entities : Seq(Nat), generations : Seq({0}), archetype : BOOLEAN, storage : BOOLEAN,
   rows : Seq(Nat), data : Seq(Int)]

ShapeOK(s) ==
  /\ s \in Worlds
  /\ Len(s.generations) <= Len(s.entities)
  /\ Len(s.rows) = Len(s.data)
  /\ Len(s.rows) > 0 => s.storage

\* The entities that were returned are those with a record, which names their
\* own row.
RecordsOK(s, k) ==
  /\ DOMAIN k = {e \in 1 .. Len(s.entities) : s.entities[e] # 0}
  /\ \A e \in DOMAIN k : s.entities[e] \in 1 .. Len(s.rows) /\ s.rows[s.entities[e]] = e

PlacesOK(s, k) ==
  /\ k = [e \in DOMAIN k |-> k[e]]
  /\ \A e \in DOMAIN k : k[e] \in Int
  /\ W!Whole(s) => \A e \in DOMAIN k : s.data[s.entities[e]] = k[e]

WorldOK(s, k) == ShapeOK(s) /\ RecordsOK(s, k) /\ PlacesOK(s, k)

LEMMA WorldFacts ==
  ASSUME NEW s \in Worlds
  PROVE  /\ s.entities \in Seq(Nat) /\ Len(s.entities) \in Nat
         /\ s.generations \in Seq({0}) /\ Len(s.generations) \in Nat
         /\ s.rows \in Seq(Nat) /\ Len(s.rows) \in Nat
         /\ s.data \in Seq(Int) /\ Len(s.data) \in Nat
         /\ s.archetype \in BOOLEAN /\ s.storage \in BOOLEAN
         /\ s = [entities |-> s.entities, generations |-> s.generations,
                 archetype |-> s.archetype, storage |-> s.storage,
                 rows |-> s.rows, data |-> s.data]
         /\ \A e \in 1 .. Len(s.entities) : s.entities[e] \in Nat
         /\ \A e \in 1 .. Len(s.generations) : s.generations[e] = 0
         /\ \A i \in 1 .. Len(s.data) : s.data[i] \in Int
<1>1. /\ s.entities \in Seq(Nat) /\ s.generations \in Seq({0})
      /\ s.rows \in Seq(Nat) /\ s.data \in Seq(Int)
      /\ s.archetype \in BOOLEAN /\ s.storage \in BOOLEAN
      /\ s = [entities |-> s.entities, generations |-> s.generations,
              archetype |-> s.archetype, storage |-> s.storage,
              rows |-> s.rows, data |-> s.data]
  BY DEF Worlds
<1>2. \A e \in 1 .. Len(s.entities) : s.entities[e] \in Nat
  BY <1>1, ElementOfSeq
<1>3. \A e \in 1 .. Len(s.generations) : s.generations[e] \in {0}
  BY <1>1, ElementOfSeq
<1>4. \A i \in 1 .. Len(s.data) : s.data[i] \in Int
  BY <1>1, ElementOfSeq
<1>5. QED
  BY <1>1, <1>2, <1>3, <1>4

\* What the parts of a spawn make of a world.
LEMMA AllocEntityParts ==
  ASSUME NEW s \in Worlds
  PROVE  /\ W!AllocEntity(s) \in Worlds
         /\ W!AllocEntity(s).entities = Append(s.entities, 0)
         /\ W!AllocEntity(s).generations = Append(s.generations, 0)
         /\ W!AllocEntity(s).rows = s.rows /\ W!AllocEntity(s).data = s.data
         /\ W!AllocEntity(s).storage = s.storage
<1>1. PICK x, y : x = Append(s.entities, 0) /\ y = Append(s.generations, 0)
  OBVIOUS
<1>2. x \in Seq(Nat) /\ y \in Seq({0})
  BY <1>1, WorldFacts, AppendProperties
<1>3. W!AllocEntity(s) = [s EXCEPT !.entities = x, !.generations = y]
  BY <1>1 DEF W!AllocEntity, W!NoRow
<1>4. QED
  BY <1>1, <1>2, <1>3 DEF Worlds

LEMMA WithRowParts ==
  ASSUME NEW s \in Worlds, NEW e \in Nat, NEW p \in Int
  PROVE  /\ W!WithRow(s, e, p) \in Worlds
         /\ W!WithRow(s, e, p).entities = s.entities
         /\ W!WithRow(s, e, p).generations = s.generations
         /\ W!WithRow(s, e, p).storage = TRUE
         /\ W!WithRow(s, e, p).rows = Append(s.rows, e)
         /\ W!WithRow(s, e, p).data = Append(s.data, p)
<1>1. PICK x, y : x = Append(s.rows, e) /\ y = Append(s.data, p)
  OBVIOUS
<1>2. x \in Seq(Nat) /\ y \in Seq(Int)
  BY <1>1, WorldFacts, AppendProperties
<1>3. PICK u : u = W!WithStorage(s)
  OBVIOUS
<1>4. u \in Worlds /\ u.storage = TRUE
      /\ u.entities = s.entities /\ u.generations = s.generations
      /\ u.rows = s.rows /\ u.data = s.data
  BY <1>3 DEF Worlds, W!WithStorage, W!WithArchetype
<1>5. W!WithRow(s, e, p) = [u EXCEPT !.rows = x, !.data = y]
  BY <1>1, <1>3, <1>4 DEF W!WithRow
<1>6. QED
  BY <1>1, <1>2, <1>4, <1>5 DEF Worlds

LEMMA WithRecordParts ==
  ASSUME NEW s \in Worlds, NEW e \in 1 .. Len(s.entities)
  PROVE  /\ W!WithRecord(s, e) \in Worlds
         /\ W!WithRecord(s, e).entities = [s.entities EXCEPT ![e] = Len(s.rows)]
         /\ W!WithRecord(s, e).generations = s.generations
         /\ W!WithRecord(s, e).storage = s.storage
         /\ W!WithRecord(s, e).rows = s.rows /\ W!WithRecord(s, e).data = s.data
<1>1. PICK x : x = [s.entities EXCEPT ![e] = Len(s.rows)]
  OBVIOUS
<1>2. x \in Seq(Nat)
  BY <1>1, WorldFacts, ExceptSeq
<1>3. W!WithRecord(s, e) = [s EXCEPT !.entities = x]
  BY <1>1 DEF W!WithRecord
<1>4. QED
  BY <1>1, <1>2, <1>3 DEF Worlds

\* An entity with a record is found, unless its generation is missing.
LEMMA FoundEntities ==
  ASSUME NEW s, NEW k, WorldOK(s, k)
  PROVE  \A e \in Nat \ {0} :
           W!Visible(s, e) <=> e \in DOMAIN k /\ e <= Len(s.generations)
<1>1. /\ s \in Worlds /\ Len(s.generations) <= Len(s.entities) /\ Len(s.rows) = Len(s.data)
      /\ (Len(s.rows) > 0 => s.storage)
  BY DEF WorldOK, ShapeOK
<1>2. /\ DOMAIN k = {e \in 1 .. Len(s.entities) : s.entities[e] # 0}
      /\ \A e \in DOMAIN k : s.entities[e] \in 1 .. Len(s.rows)
  BY DEF WorldOK, RecordsOK
<1>3. /\ Len(s.entities) \in Nat /\ Len(s.generations) \in Nat /\ Len(s.rows) \in Nat
      /\ \A e \in 1 .. Len(s.generations) : s.generations[e] = 0
  BY <1>1, WorldFacts
<1>4. QED
  BY <1>1, <1>2, <1>3 DEF W!Visible, W!NoRow

\* A world in which what the caller knows is spelt out.
LEMMA WorldUnfolded ==
  ASSUME NEW s, NEW k, WorldOK(s, k)
  PROVE  /\ s \in Worlds /\ Len(s.generations) <= Len(s.entities)
         /\ Len(s.rows) = Len(s.data) /\ (Len(s.rows) > 0 => s.storage)
         /\ \A e : e \in DOMAIN k <=> e \in 1 .. Len(s.entities) /\ s.entities[e] # 0
         /\ \A e \in DOMAIN k : /\ s.entities[e] \in 1 .. Len(s.rows)
                                /\ s.rows[s.entities[e]] = e
                                /\ k[e] \in Int
         /\ Len(s.generations) = Len(s.entities) =>
              \A e \in DOMAIN k : s.data[s.entities[e]] = k[e]
BY DEF WorldOK, ShapeOK, RecordsOK, PlacesOK, W!Whole

LEMMA SpawnedOK ==
  ASSUME NEW s, NEW k, WorldOK(s, k), NEW p \in Int
  PROVE  WorldOK(W!Spawned(s, p), W!Now(k, W!NextId(s), p))
<1> DEFINE id == Len(s.entities) + 1
           row == Len(s.rows) + 1
           t == W!Spawned(s, p)
           h == W!Now(k, W!NextId(s), p)
<1>1. s \in Worlds /\ Len(s.generations) <= Len(s.entities) /\ Len(s.rows) = Len(s.data)
  BY WorldUnfolded
<1>2. /\ s.entities \in Seq(Nat) /\ Len(s.entities) \in Nat
      /\ s.generations \in Seq({0}) /\ Len(s.generations) \in Nat
      /\ s.rows \in Seq(Nat) /\ s.data \in Seq(Int) /\ Len(s.rows) \in Nat
  BY <1>1, WorldFacts
<1>3. /\ t \in Worlds /\ t.storage = TRUE
      /\ t.entities = [Append(s.entities, 0) EXCEPT ![id] = Len(Append(s.rows, id))]
      /\ t.generations = Append(s.generations, 0)
      /\ t.rows = Append(s.rows, id) /\ t.data = Append(s.data, p)
  <2>1. PICK u : u = W!AllocEntity(s)
    OBVIOUS
  <2>2. PICK v : v = W!WithRow(u, id, p)
    OBVIOUS
  <2>3. t = W!WithRecord(v, id)
    BY <2>1, <2>2 DEF W!Spawned, W!NextId
  <2> id \in Nat
    BY <1>2
  <2> HIDE DEF t, id
  <2>4. /\ u \in Worlds /\ u.entities = Append(s.entities, 0)
        /\ u.generations = Append(s.generations, 0) /\ u.rows = s.rows /\ u.data = s.data
    BY <1>1, <2>1, AllocEntityParts
  <2>5. /\ v \in Worlds /\ v.entities = u.entities /\ v.generations = u.generations
        /\ v.storage = TRUE /\ v.rows = Append(u.rows, id) /\ v.data = Append(u.data, p)
    BY <1>2, <2>2, <2>4, WithRowParts
  <2>6. id \in 1 .. Len(v.entities)
    BY <1>2, <2>4, <2>5, AppendProperties DEF id
  <2>7. /\ t \in Worlds /\ t.entities = [v.entities EXCEPT ![id] = Len(v.rows)]
        /\ t.generations = v.generations /\ t.storage = v.storage
        /\ t.rows = v.rows /\ t.data = v.data
    BY <2>3, <2>5, <2>6, WithRecordParts
  <2>8. QED
    BY <2>4, <2>5, <2>7
<1>4. h = [e \in DOMAIN k \cup {id} |-> IF e = id THEN p ELSE k[e]]
  BY DEF W!Now, W!NextId
<1> HIDE DEF t, h
<1>5. /\ id \in Nat /\ Append(s.entities, 0) \in Seq(Nat)
      /\ Len(Append(s.entities, 0)) = id /\ id \in 1 .. id
      /\ \A e \in 1 .. Len(s.entities) : Append(s.entities, 0)[e] = s.entities[e]
  BY <1>2, AppendProperties
<1>6. /\ t.rows \in Seq(Nat) /\ Len(t.rows) = row
      /\ \A i \in 1 .. Len(s.rows) : t.rows[i] = s.rows[i]
      /\ t.rows[row] = id
  BY <1>2, <1>3, <1>5, AppendProperties
<1>7. /\ t.data \in Seq(Int) /\ Len(t.data) = row
      /\ \A i \in 1 .. Len(s.rows) : t.data[i] = s.data[i]
      /\ t.data[row] = p
  BY <1>1, <1>2, <1>3, AppendProperties
<1>8. t.generations \in Seq({0}) /\ Len(t.generations) = Len(s.generations) + 1
  BY <1>2, <1>3, AppendProperties
<1>9. /\ t.entities \in Seq(Nat) /\ Len(t.entities) = id
      /\ \A e \in 1 .. Len(s.entities) : t.entities[e] = s.entities[e]
      /\ t.entities[id] = row
  <2>1. row \in Nat /\ t.entities = [Append(s.entities, 0) EXCEPT ![id] = row]
    BY <1>2, <1>3, <1>6
  <2>2. PICK v : v = Append(s.entities, 0)
    OBVIOUS
  <2>3. v \in Seq(Nat) /\ id \in 1 .. Len(v) /\ Len(v) = id
    BY <1>5, <2>2
  <2>4. /\ [v EXCEPT ![id] = row] \in Seq(Nat)
        /\ Len([v EXCEPT ![id] = row]) = Len(v)
        /\ \A j \in 1 .. Len(v) : [v EXCEPT ![id] = row][j] = IF j = id THEN row ELSE v[j]
    BY <2>1, <2>3, ExceptSeq
  <2>5. t.entities = [v EXCEPT ![id] = row]
    BY <2>1, <2>2
  <2>6. QED
    BY <1>2, <1>5, <2>2, <2>3, <2>4, <2>5
<1>10. ShapeOK(t)
  BY <1>1, <1>2, <1>3, <1>6, <1>7, <1>8, <1>9 DEF ShapeOK
<1>11. \A e \in DOMAIN k : /\ e \in 1 .. Len(s.entities) /\ e # id
                           /\ t.entities[e] = s.entities[e]
                           /\ t.entities[e] \in 1 .. Len(s.rows) /\ t.entities[e] \in 1 .. row
                           /\ t.rows[t.entities[e]] = e
  <2>1. \A e \in DOMAIN k : /\ e \in 1 .. Len(s.entities)
                            /\ s.entities[e] \in 1 .. Len(s.rows)
                            /\ s.rows[s.entities[e]] = e
    BY WorldUnfolded
  <2>2. \A e \in 1 .. Len(s.entities) : e # id
    BY <1>2
  <2>3. \A i \in 1 .. Len(s.rows) : i \in 1 .. row
    BY <1>2
  <2>4. QED
    BY <1>6, <1>9, <2>1, <2>2, <2>3
<1>12. RecordsOK(t, h)
  <2>1. DOMAIN h = DOMAIN k \cup {id}
    BY <1>4
  <2>2. ASSUME NEW e
        PROVE  e \in DOMAIN h <=> e \in 1 .. Len(t.entities) /\ t.entities[e] # 0
    <3>1. CASE e = id
      BY <1>2, <1>5, <1>9, <2>1, <3>1
    <3>2. CASE e # id
      <4>1. e \in DOMAIN k <=> e \in 1 .. Len(s.entities) /\ s.entities[e] # 0
        BY WorldUnfolded
      <4>2. e \in 1 .. id <=> e \in 1 .. Len(s.entities)
        BY <1>2, <3>2
      <4>3. QED
        BY <1>9, <2>1, <3>2, <4>1, <4>2
    <3>3. QED
      BY <3>1, <3>2
  <2>3. DOMAIN h = {e \in 1 .. Len(t.entities) : t.entities[e] # 0}
    BY <2>2
  <2>4. row \in 1 .. row
    BY <1>2
  <2>5. QED
    BY <1>6, <1>9, <1>11, <2>1, <2>3, <2>4 DEF RecordsOK
<1>13. PlacesOK(t, h)
  <2>1. W!Whole(t) => Len(s.generations) = Len(s.entities)
    <3>1. Len(t.generations) = Len(s.generations) + 1 /\ Len(t.entities) = Len(s.entities) + 1
      BY <1>8, <1>9
    <3>2. QED
      BY <1>2, <3>1 DEF W!Whole
  <2>2. ASSUME NEW e \in DOMAIN h
        PROVE  h[e] \in Int /\ (W!Whole(t) => t.data[t.entities[e]] = h[e])
    <3>1. CASE e = id
      BY <1>4, <1>7, <1>9, <3>1
    <3>2. CASE e # id
      <4>1. e \in DOMAIN k /\ h[e] = k[e]
        BY <1>4, <3>2
      <4>2. k[e] \in Int /\ (W!Whole(t) => s.data[s.entities[e]] = k[e])
        BY <2>1, <4>1, WorldUnfolded
      <4>3. QED
        BY <1>7, <1>11, <4>1, <4>2
    <3>3. QED
      BY <3>1, <3>2
  <2>3. h = [e \in DOMAIN h |-> h[e]]
    BY <1>4
  <2>4. QED
    BY <2>2, <2>3 DEF PlacesOK
<1>14. QED
  BY <1>10, <1>12, <1>13 DEF WorldOK, t, h

\* A spawn that fails leaves an entity without a record, or nothing.
LEMMA AbandonedOK ==
  ASSUME NEW s, NEW k, WorldOK(s, k),
         NEW place \in {"entities", "generations", "archetype", "storage", "row"}
  PROVE  WorldOK(W!Abandoned(s, place), k)
<1> DEFINE t == W!Abandoned(s, place)
<1>1. /\ s \in Worlds /\ Len(s.generations) <= Len(s.entities) /\ Len(s.rows) = Len(s.data)
      /\ (Len(s.rows) > 0 => s.storage)
  BY WorldUnfolded
<1>2. /\ s.entities \in Seq(Nat) /\ Len(s.entities) \in Nat
      /\ s.generations \in Seq({0}) /\ Len(s.generations) \in Nat
      /\ s.rows \in Seq(Nat) /\ s.data \in Seq(Int)
      /\ s.archetype \in BOOLEAN /\ s.storage \in BOOLEAN
      /\ s = [entities |-> s.entities, generations |-> s.generations,
              archetype |-> s.archetype, storage |-> s.storage,
              rows |-> s.rows, data |-> s.data]
  BY <1>1, WorldFacts
<1>3. CASE place = "entities"
  BY <1>3 DEF W!Abandoned
<1>4. CASE place # "entities"
  <2>1. /\ t.entities = Append(s.entities, 0) /\ t.rows = s.rows /\ t.data = s.data
        /\ (t.generations = s.generations \/ t.generations = Append(s.generations, 0))
        /\ t.archetype \in BOOLEAN /\ t.storage \in BOOLEAN /\ (s.storage => t.storage)
        /\ t = [entities |-> t.entities, generations |-> t.generations,
                archetype |-> t.archetype, storage |-> t.storage,
                rows |-> t.rows, data |-> t.data]
    BY <1>2, <1>4 DEF W!Abandoned, W!AllocEntity, W!WithArchetype, W!WithStorage, W!NoRow
  <2> HIDE DEF t
  <2>2. /\ t.entities \in Seq(Nat) /\ Len(t.entities) = Len(s.entities) + 1
        /\ \A e \in 1 .. Len(s.entities) : t.entities[e] = s.entities[e]
        /\ t.entities[Len(s.entities) + 1] = 0
    BY <1>2, <2>1, AppendProperties
  <2>3. /\ t.generations \in Seq({0})
        /\ Len(t.generations) = Len(s.generations)
           \/ Len(t.generations) = Len(s.generations) + 1
    <3>1. CASE t.generations = s.generations
      BY <1>2, <3>1
    <3>2. CASE t.generations = Append(s.generations, 0)
      BY <1>2, <3>2, AppendProperties
    <3>3. QED
      BY <2>1, <3>1, <3>2
  <2>4. ShapeOK(t)
    <3>1. t.rows \in Seq(Nat) /\ t.data \in Seq(Int)
      BY <1>2, <2>1
    <3>2. t \in Worlds
      BY <2>1, <2>2, <2>3, <3>1 DEF Worlds
    <3>3. Len(t.generations) <= Len(t.entities) /\ Len(t.rows) = Len(t.data)
      BY <1>1, <1>2, <2>1, <2>2, <2>3
    <3>4. Len(t.rows) > 0 => t.storage
      BY <1>1, <2>1
    <3>5. QED
      BY <3>2, <3>3, <3>4 DEF ShapeOK
  <2>5. ASSUME NEW e
        PROVE  e \in DOMAIN k <=> e \in 1 .. Len(t.entities) /\ t.entities[e] # 0
    <3>1. e \in DOMAIN k <=> e \in 1 .. Len(s.entities) /\ s.entities[e] # 0
      BY WorldUnfolded
    <3>2. e \in 1 .. Len(t.entities) <=>
            e \in 1 .. Len(s.entities) \/ e = Len(s.entities) + 1
      BY <1>2, <2>2
    <3>3. Len(s.entities) + 1 \notin 1 .. Len(s.entities)
      BY <1>2
    <3>4. QED
      BY <2>2, <3>1, <3>2, <3>3
  <2>6. \A e \in DOMAIN k : t.entities[e] = s.entities[e]
    BY <2>2, WorldUnfolded
  <2>7. RecordsOK(t, k)
    <3>1. DOMAIN k = {e \in 1 .. Len(t.entities) : t.entities[e] # 0}
      BY <2>5
    <3>2. QED
      BY <2>1, <2>6, <3>1, WorldUnfolded DEF RecordsOK
  <2>8. W!Whole(t) => Len(s.generations) = Len(s.entities)
    BY <1>1, <1>2, <2>2, <2>3 DEF W!Whole
  <2>9. PlacesOK(t, k)
    BY <2>1, <2>6, <2>8, WorldUnfolded DEF WorldOK, PlacesOK
  <2>10. QED
    BY <2>4, <2>7, <2>9 DEF WorldOK, t
<1>5. QED
  BY <1>3, <1>4

\* Writing a component that is found changes no other entity's.
LEMMA SetOK ==
  ASSUME NEW s, NEW k, WorldOK(s, k), NEW e \in DOMAIN k, NEW p \in Int, NEW q \in Int,
         W!Whole(s) => p = q
  PROVE  WorldOK(W!Set(s, e, p), W!Now(k, e, q))
<1> DEFINE t == W!Set(s, e, p)
           h == W!Now(k, e, q)
           row == s.entities[e]
<1>1. /\ s \in Worlds /\ Len(s.generations) <= Len(s.entities) /\ Len(s.rows) = Len(s.data)
      /\ (Len(s.rows) > 0 => s.storage)
      /\ e \in 1 .. Len(s.entities) /\ row \in 1 .. Len(s.data)
  BY WorldUnfolded
<1>2. /\ s.entities \in Seq(Nat) /\ Len(s.entities) \in Nat
      /\ s.generations \in Seq({0}) /\ Len(s.generations) \in Nat
      /\ s.rows \in Seq(Nat) /\ s.data \in Seq(Int)
      /\ s.archetype \in BOOLEAN /\ s.storage \in BOOLEAN
      /\ s = [entities |-> s.entities, generations |-> s.generations,
              archetype |-> s.archetype, storage |-> s.storage,
              rows |-> s.rows, data |-> s.data]
  BY <1>1, WorldFacts
<1>3. h = [i \in DOMAIN k |-> IF i = e THEN q ELSE k[i]]
  BY DEF W!Now
<1>4. /\ t.entities = s.entities /\ t.generations = s.generations /\ t.rows = s.rows
      /\ t.archetype = s.archetype /\ t.storage = s.storage
      /\ t.data = IF W!Visible(s, e) THEN [s.data EXCEPT ![row] = p] ELSE s.data
      /\ t = [entities |-> t.entities, generations |-> t.generations,
              archetype |-> t.archetype, storage |-> t.storage,
              rows |-> t.rows, data |-> t.data]
  BY <1>2 DEF W!Set
<1> HIDE DEF t, h
<1>5. t.data \in Seq(Int) /\ Len(t.data) = Len(s.data)
  <2>1. [s.data EXCEPT ![row] = p] \in Seq(Int) /\ Len([s.data EXCEPT ![row] = p]) = Len(s.data)
    BY <1>1, <1>2, ExceptSeq
  <2>2. t.data = [s.data EXCEPT ![row] = p] \/ t.data = s.data
    BY <1>4
  <2>3. QED
    BY <1>2, <2>1, <2>2
<1>6. ShapeOK(t)
  BY <1>1, <1>2, <1>4, <1>5 DEF ShapeOK, Worlds
<1>7. RecordsOK(t, h)
  BY <1>3, <1>4 DEF WorldOK, RecordsOK
<1>8. PlacesOK(t, h)
  <2>1. W!Whole(t) => Len(s.generations) = Len(s.entities)
    BY <1>4 DEF W!Whole
  <2>2. ASSUME W!Whole(t), NEW i \in DOMAIN k PROVE t.data[t.entities[i]] = h[i]
    <3>1. W!Visible(s, e) /\ p = q
      BY <1>1, <2>1, <2>2, FoundEntities DEF W!Whole
    <3>2. s.entities[i] \in 1 .. Len(s.data) /\ s.data[s.entities[i]] = k[i]
      BY <2>1, <2>2, WorldUnfolded
    <3>3. i # e => s.entities[i] # row
      BY <2>2, WorldUnfolded
    <3>4. t.data = [s.data EXCEPT ![row] = p]
      BY <1>4, <3>1
    <3>5. \A j \in 1 .. Len(s.data) : t.data[j] = IF j = row THEN p ELSE s.data[j]
      <4> HIDE DEF row
      <4>1. PICK x : x = s.data
        OBVIOUS
      <4>2. x \in Seq(Int) /\ row \in 1 .. Len(x)
        BY <1>1, <1>2, <4>1
      <4>3. \A j \in 1 .. Len(x) : [x EXCEPT ![row] = p][j] = IF j = row THEN p ELSE x[j]
        BY <4>2, ExceptSeq
      <4>4. QED
        BY <3>4, <4>1, <4>3
    <3>6. QED
      BY <1>3, <1>4, <2>2, <3>1, <3>2, <3>3, <3>5
  <2>3. \A i \in DOMAIN k : h[i] \in Int
    BY <1>3, WorldUnfolded
  <2>4. DOMAIN h = DOMAIN k /\ h = [i \in DOMAIN h |-> h[i]]
    BY <1>3
  <2>5. QED
    BY <2>2, <2>3, <2>4 DEF PlacesOK
<1>9. QED
  BY <1>6, <1>7, <1>8 DEF WorldOK, t, h

\* What commands refer to.
Commands(entities) ==
  [op : {"spawn"}, at : Positions] \cup [op : {"move"}, entity : entities, by : Shifts]

CommandsOK == resolving \in BOOLEAN /\ cmds \in Seq(Commands(DOMAIN known["main"]))

Names == {"main", "fork"}

SimInv ==
  /\ world = [w \in Names |-> world[w]]
  /\ known = [w \in Names |-> known[w]]
  /\ \A w \in Names : WorldOK(world[w], known[w])
  /\ CommandsOK
  /\ resolving => cmds # <<>>

LEMMA SimInit == W!Init => SimInv
<1> SUFFICES ASSUME W!Init PROVE SimInv
  OBVIOUS
<1>1. <<>> \in Seq(Nat) /\ <<>> \in Seq({0}) /\ <<>> \in Seq(Int)
  OBVIOUS
<1>2. W!NoWorld \in Worlds
  BY <1>1 DEF W!NoWorld, Worlds
<1>3. WorldOK(W!NoWorld, W!Nowhere)
  BY <1>2 DEF WorldOK, ShapeOK, RecordsOK, PlacesOK, W!NoWorld, W!Nowhere
<1>4. \A w \in Names : world[w] = W!NoWorld /\ known[w] = W!Nowhere
  BY DEF W!Init, Names
<1>5. CommandsOK /\ resolving = FALSE
  BY EmptySeq DEF W!Init, CommandsOK
<1>6. QED
  BY <1>3, <1>4, <1>5 DEF SimInv, W!Init, Names

\* A call that makes one world into another that keeps what is known.
LEMMA ChangeOK ==
  ASSUME SimInv, NEW w \in Names, NEW s, NEW k, W!Change(w, s, k), WorldOK(s, k),
         w = "main" => DOMAIN known["main"] \subseteq DOMAIN k
  PROVE  /\ world' = [v \in Names |-> world'[v]]
         /\ known' = [v \in Names |-> known'[v]]
         /\ \A v \in Names : WorldOK(world'[v], known'[v])
         /\ DOMAIN known["main"] \subseteq DOMAIN known'["main"]
<1>1. /\ world' = [v \in Names |-> IF v = w THEN s ELSE world[v]]
      /\ known' = [v \in Names |-> IF v = w THEN k ELSE known[v]]
  BY DEF SimInv, W!Change
<1>2. \A v \in Names : WorldOK(world[v], known[v])
  BY DEF SimInv
<1>3. \A v \in Names : WorldOK(world'[v], known'[v])
  BY <1>1, <1>2
<1>4. "main" \in Names
  BY DEF Names
<1>5. QED
  BY <1>1, <1>3, <1>4

\* More commands are possible when more entities are known.
LEMMA CommandsKept ==
  ASSUME SimInv, DOMAIN known["main"] \subseteq DOMAIN known'["main"],
         \/ UNCHANGED <<cmds, resolving>>
         \/ W!NextCommand /\ resolving
         \/ cmds' = <<>> /\ resolving' = FALSE
  PROVE  CommandsOK' /\ (resolving' => cmds' # <<>>)
<1> DEFINE C == Commands(DOMAIN known["main"])
           D == Commands(DOMAIN known'["main"])
<1>1. C \subseteq D
  BY DEF Commands
<1>2. cmds \in Seq(C) /\ resolving \in BOOLEAN /\ (resolving => cmds # <<>>)
  BY DEF SimInv, CommandsOK
<1> HIDE DEF C, D
<1>3. cmds' \in Seq(C)
  <2>1. CASE UNCHANGED <<cmds, resolving>>
    BY <1>2, <2>1
  <2>2. CASE W!NextCommand /\ resolving
    BY <1>2, <2>2, HeadTailProperties DEF W!NextCommand
  <2>3. CASE cmds' = <<>> /\ resolving' = FALSE
    BY <2>3, EmptySeq
  <2>4. QED
    BY <2>1, <2>2, <2>3
<1>4. cmds' \in Seq(D)
  BY <1>1, <1>3, SeqMonotonic
<1>5. resolving' \in BOOLEAN /\ (resolving' => cmds' # <<>>)
  <2>1. CASE UNCHANGED <<cmds, resolving>>
    BY <1>2, <2>1
  <2>2. CASE W!NextCommand
    BY <2>2, Zenon DEF W!NextCommand
  <2>3. CASE cmds' = <<>> /\ resolving' = FALSE
    BY <2>3
  <2>4. QED
    BY <2>1, <2>2, <2>3
<1>6. QED
  BY <1>4, <1>5 DEF CommandsOK, D

LEMMA SpawnsStep ==
  ASSUME W!SimAssumption, SimInv, NEW w \in Names, NEW p \in Positions, W!Spawns(w, p)
  PROVE  /\ world' = [v \in Names |-> world'[v]]
         /\ known' = [v \in Names |-> known'[v]]
         /\ \A v \in Names : WorldOK(world'[v], known'[v])
         /\ DOMAIN known["main"] \subseteq DOMAIN known'["main"]
<1> PICK s, k : s = world[w] /\ k = known[w]
  OBVIOUS
<1>1. WorldOK(s, k) /\ p \in Int
  BY DEF SimInv, W!SimAssumption
<1>2. WorldOK(W!Spawned(s, p), W!Now(k, W!NextId(s), p))
  BY <1>1, SpawnedOK
<1>3. DOMAIN k \subseteq DOMAIN W!Now(k, W!NextId(s), p)
  BY DEF W!Now
<1>4. W!Change(w, W!Spawned(s, p), W!Now(k, W!NextId(s), p))
  BY DEF W!Spawns
<1>5. QED
  BY <1>2, <1>3, <1>4, ChangeOK

LEMMA SpawnStopsStep ==
  ASSUME W!SimAssumption, SimInv, NEW w \in Names, NEW place \in Faults, W!SpawnStops(w, place)
  PROVE  /\ world' = [v \in Names |-> world'[v]]
         /\ known' = [v \in Names |-> known'[v]]
         /\ \A v \in Names : WorldOK(world'[v], known'[v])
         /\ DOMAIN known["main"] \subseteq DOMAIN known'["main"]
<1> PICK s, k : s = world[w] /\ k = known[w]
  OBVIOUS
<1>1. WorldOK(W!Abandoned(s, place), k)
  BY AbandonedOK DEF SimInv, W!SimAssumption
<1>2. W!Change(w, W!Abandoned(s, place), k)
  BY DEF W!SpawnStops
<1>3. QED
  BY <1>1, <1>2, ChangeOK

LEMMA PutsStep ==
  ASSUME W!SimAssumption, SimInv, NEW w \in Names, NEW p \in Positions,
         NEW e \in 1 .. MaxEntities, W!Puts(w, e, p)
  PROVE  /\ world' = [v \in Names |-> world'[v]]
         /\ known' = [v \in Names |-> known'[v]]
         /\ \A v \in Names : WorldOK(world'[v], known'[v])
         /\ DOMAIN known["main"] \subseteq DOMAIN known'["main"]
<1> PICK s, k : s = world[w] /\ k = known[w]
  OBVIOUS
<1>1. WorldOK(s, k) /\ p \in Int /\ e \in Nat \ {0}
  BY DEF SimInv, W!SimAssumption
<1>2. CASE e \in DOMAIN k
  <2>1. WorldOK(W!Set(s, e, p), W!Now(k, e, p))
    BY <1>1, <1>2, SetOK
  <2>2. DOMAIN k \subseteq DOMAIN W!Now(k, e, p)
    BY DEF W!Now
  <2>3. W!Change(w, W!Set(s, e, p), W!Now(k, e, p))
    BY <1>2 DEF W!Puts
  <2>4. QED
    BY <2>1, <2>2, <2>3, ChangeOK
<1>3. CASE e \notin DOMAIN k
  <2>1. W!Set(s, e, p) = s
    BY <1>1, <1>3, FoundEntities DEF W!Set
  <2>2. W!Change(w, s, k)
    BY <1>3, <2>1 DEF W!Puts
  <2>3. QED
    BY <1>1, <2>2, ChangeOK
<1>4. QED
  BY <1>2, <1>3

LEMMA MoveStep ==
  ASSUME W!SimAssumption, SimInv, W!ResolveMove
  PROVE  SimInv'
<1> PICK s, k, e, d :
      s = world["main"] /\ k = known["main"] /\ e = Head(cmds).entity /\ d = Head(cmds).by
  OBVIOUS
<1>1. "main" \in Names /\ WorldOK(s, k)
  BY DEF SimInv, Names
<1>2. e \in DOMAIN k /\ d \in Int
  <2>1. resolving /\ Head(cmds).op = "move" /\ cmds # <<>>
    BY DEF W!ResolveMove, W!Current, SimInv
  <2>2. Head(cmds) \in Commands(DOMAIN known["main"])
    BY <2>1, HeadTailProperties DEF SimInv, CommandsOK
  <2>3. QED
    BY <2>1, <2>2 DEF W!SimAssumption, Commands
<1>3. k[e] + d \in Int /\ e \in Nat \ {0}
  <2>1. k[e] \in Int /\ e \in 1 .. Len(s.entities) /\ s \in Worlds
    BY <1>1, <1>2, WorldUnfolded
  <2>2. Len(s.entities) \in Nat
    BY <2>1, WorldFacts
  <2>3. QED
    BY <1>2, <2>1, <2>2
<1>4. PICK t : t = IF W!Visible(s, e) THEN W!Set(s, e, W!Get(s, e) + d) ELSE s
  OBVIOUS
<1>5. WorldOK(t, W!Now(k, e, k[e] + d))
  <2>1. CASE W!Visible(s, e)
    <3>1. W!Get(s, e) \in Int /\ (W!Whole(s) => W!Get(s, e) = k[e])
      <4>1. /\ s \in Worlds /\ s.entities[e] \in 1 .. Len(s.data)
            /\ W!Whole(s) => s.data[s.entities[e]] = k[e]
        BY <1>1, <1>2, WorldUnfolded DEF W!Whole
      <4>2. s.data[s.entities[e]] \in Int
        BY <4>1, WorldFacts
      <4>3. QED
        BY <4>1, <4>2 DEF W!Get
    <3>2. W!Get(s, e) + d \in Int /\ (W!Whole(s) => W!Get(s, e) + d = k[e] + d)
      BY <1>2, <3>1
    <3>3. QED
      BY <1>1, <1>2, <1>3, <1>4, <2>1, <3>2, SetOK
  <2>2. CASE ~W!Visible(s, e)
    <3>1. t = W!Set(s, e, k[e] + d)
      BY <1>4, <2>2 DEF W!Set
    <3>2. QED
      BY <1>1, <1>2, <1>3, <3>1, SetOK
  <2>3. QED
    BY <2>1, <2>2
<1>6. W!Change("main", t, W!Now(k, e, k[e] + d))
  BY <1>4 DEF W!ResolveMove
<1>7. DOMAIN k \subseteq DOMAIN W!Now(k, e, k[e] + d)
  BY DEF W!Now
<1>8. /\ world' = [v \in Names |-> world'[v]]
      /\ known' = [v \in Names |-> known'[v]]
      /\ \A v \in Names : WorldOK(world'[v], known'[v])
      /\ DOMAIN known["main"] \subseteq DOMAIN known'["main"]
  BY <1>1, <1>5, <1>6, <1>7, ChangeOK
<1>9. CommandsOK' /\ (resolving' => cmds' # <<>>)
  BY <1>8, CommandsKept DEF W!ResolveMove, W!Current
<1>10. QED
  BY <1>8, <1>9 DEF SimInv

LEMMA SimStep == W!SimAssumption /\ SimInv /\ [W!Next]_(W!simvars) => SimInv'
<1> SUFFICES ASSUME W!SimAssumption, SimInv, [W!Next]_(W!simvars) PROVE SimInv'
  OBVIOUS
<1>0. "main" \in Names /\ "fork" \in Names
  BY DEF Names
<1>1. ASSUME NEW w \in Names, NEW p \in Positions, W!SpawnTransform(w, p) PROVE SimInv'
  BY <1>1, SpawnsStep, CommandsKept DEF W!SpawnTransform, SimInv
<1>2. ASSUME NEW w \in Names, NEW place \in Faults, W!SpawnFails(w, place) PROVE SimInv'
  BY <1>2, SpawnStopsStep, CommandsKept DEF W!SpawnFails, SimInv
<1>3. ASSUME NEW w \in Names, NEW p \in Positions, NEW e \in 1 .. MaxEntities,
             W!SetPosition(w, e, p)
      PROVE  SimInv'
  BY <1>3, PutsStep, CommandsKept DEF W!SetPosition, SimInv
<1>4. CASE W!Fork
  <2>1. WorldOK(world["main"], known["main"])
    BY <1>0 DEF SimInv
  <2>2. W!Change("fork", world["main"], known["main"]) /\ UNCHANGED <<cmds, resolving>>
    BY <1>4 DEF W!Fork
  <2>3. QED
    BY <1>0, <2>1, <2>2, ChangeOK, CommandsKept DEF SimInv
<1>5. ASSUME NEW c, W!PushCommand(c),
             c \in Commands(DOMAIN known["main"])
      PROVE  SimInv'
  <2>1. UNCHANGED <<world, resolving, known>> /\ cmds' = Append(cmds, c) /\ ~resolving
    BY <1>5 DEF W!PushCommand
  <2>2. CommandsOK'
    BY <1>5, <2>1, AppendProperties DEF SimInv, CommandsOK
  <2>3. QED
    BY <2>1, <2>2 DEF SimInv
<1>6. ASSUME NEW p \in Positions, W!PushCommand(W!Spawn(p)) PROVE SimInv'
  BY <1>5, <1>6 DEF W!Spawn, Commands
<1>7. ASSUME NEW e \in DOMAIN known["main"], NEW d \in Shifts, W!PushCommand(W!Move(e, d))
      PROVE  SimInv'
  BY <1>5, <1>7 DEF W!Move, Commands
<1>8. CASE W!ResolvePhase
  BY <1>8 DEF W!ResolvePhase, SimInv, CommandsOK
<1>9. CASE W!ResolveSpawn
  <2>1. resolving /\ cmds # <<>> /\ Head(cmds).op = "spawn"
    BY <1>9 DEF W!ResolveSpawn, W!Current, SimInv
  <2>2. Head(cmds) \in Commands(DOMAIN known["main"])
    BY <2>1, HeadTailProperties DEF SimInv, CommandsOK
  <2>3. Head(cmds).at \in Positions
    BY <2>1, <2>2 DEF Commands
  <2>4. QED
    BY <1>0, <1>9, <2>1, <2>3, SpawnsStep, CommandsKept DEF W!ResolveSpawn, SimInv
<1>10. CASE W!ResolveMove
  BY <1>10, MoveStep
<1>11. ASSUME NEW place \in Faults, W!ResolveFails(place) PROVE SimInv'
  BY <1>0, <1>11, SpawnStopsStep, CommandsKept DEF W!ResolveFails, SimInv
<1>12. CASE UNCHANGED W!simvars
  BY <1>12 DEF W!simvars, SimInv, CommandsOK
<1>13. QED
  BY <1>1, <1>2, <1>3, <1>4, <1>6, <1>7, <1>8, <1>9, <1>10, <1>11, <1>12 DEF W!Next, Names

LEMMA SimSound == SimInv => W!EntitiesAreWhereTheyWerePut
<1> SUFFICES ASSUME SimInv PROVE W!EntitiesAreWhereTheyWerePut
  OBVIOUS
<1>1. DOMAIN world = Names
  BY DEF SimInv
<1>2. ASSUME NEW s, NEW k, WorldOK(s, k)
      PROVE  /\ {e \in 1 .. Len(s.entities) : W!Visible(s, e)} =
                  {e \in DOMAIN k : e <= Len(s.generations)}
             /\ \A e \in DOMAIN k : s.rows[s.entities[e]] = e
             /\ W!Whole(s) => \A e \in DOMAIN k : W!Get(s, e) = k[e]
  BY <1>2, FoundEntities DEF WorldOK, RecordsOK, PlacesOK, W!Get
<1>3. QED
  BY <1>1, <1>2 DEF SimInv, W!EntitiesAreWhereTheyWerePut

(***************************************************************************)
(* Every entity that a spawn returned is found where it was put last, in   *)
(* the world and in its fork, whatever failed on the way, for any number   *)
(* of entities, commands and positions (Sim/Scene/API/lib.rs).             *)
(***************************************************************************)
THEOREM EntitiesStayPut == Spec => []EntitiesAreWhereTheyWerePut
<1>1. W!SimAssumption
  BY Constants
<1>2. Init => SimInv
  BY SimInit DEF Init
<1>3. SimInv /\ [Next]_everything => SimInv'
  BY <1>1, OneAtATime, SimStep
<1>4. SimInv => EntitiesAreWhereTheyWerePut
  BY SimSound DEF EntitiesAreWhereTheyWerePut
<1>5. QED
  BY <1>2, <1>3, <1>4, PTL DEF Spec

-----------------------------------------------------------------------------
(* The mounted aliases *)

\* The entry that answers for an alias: no earlier one has it.
Answers(i, a) ==
  /\ i \in 1 .. Len(entries) /\ entries[i].alias = a
  /\ \A j \in 1 .. Len(entries) : entries[j].alias = a => i <= j

FilesInv ==
  /\ entries \in Seq([alias : Aliases, root : Roots])
  /\ mounts \in [Aliases -> Roots \cup {P!NotMounted}]
  /\ \A a \in Aliases :
       IF mounts[a] = P!NotMounted THEN \A i \in 1 .. Len(entries) : entries[i].alias # a
       ELSE \E i \in 1 .. Len(entries) : Answers(i, a) /\ entries[i].root = mounts[a]

LEMMA FilesInit == P!Init => FilesInv
BY EmptySeq DEF P!Init, FilesInv

LEMMA MountStep ==
  ASSUME P!FilesAssumption, FilesInv, NEW a \in Aliases, NEW r \in Roots, P!Mount(a, r)
  PROVE  FilesInv'
<1> DEFINE E == [alias |-> a, root |-> r]
<1> PICK n : n = Len(entries)
  OBVIOUS
<1>1. /\ entries' = Append(entries, E) /\ n \in Nat
      /\ mounts' = [mounts EXCEPT ![a] = IF @ = P!NotMounted THEN r ELSE @]
  BY DEF P!Mount, FilesInv
<1>2. /\ entries' \in Seq([alias : Aliases, root : Roots]) /\ Len(entries') = n + 1
      /\ \A i \in 1 .. n : entries'[i] = entries[i]
      /\ entries'[n + 1] = E
  BY <1>1, AppendProperties DEF FilesInv
<1>3. mounts' \in [Aliases -> Roots \cup {P!NotMounted}]
  BY <1>1 DEF FilesInv
<1>4. ASSUME NEW b \in Aliases, mounts[b] # P!NotMounted
      PROVE  /\ mounts'[b] = mounts[b]
             /\ \E i \in 1 .. Len(entries') : Answers(i, b)' /\ entries'[i].root = mounts'[b]
  <2>1. mounts'[b] = mounts[b]
    BY <1>1, <1>4 DEF FilesInv
  <2>2. PICK i \in 1 .. n : Answers(i, b) /\ entries[i].root = mounts[b]
    BY <1>4 DEF FilesInv
  <2>3. i \in 1 .. n + 1 /\ entries'[i].root = mounts'[b] /\ Answers(i, b)'
    BY <1>1, <1>2, <2>1, <2>2 DEF Answers
  <2>4. QED
    BY <1>2, <2>1, <2>3
<1>5. ASSUME NEW b \in Aliases, mounts[b] = P!NotMounted, b # a
      PROVE  /\ mounts'[b] = P!NotMounted
             /\ \A i \in 1 .. Len(entries') : entries'[i].alias # b
  BY <1>1, <1>2, <1>5 DEF FilesInv
<1>6. ASSUME mounts[a] = P!NotMounted
      PROVE  /\ mounts'[a] = r
             /\ Answers(n + 1, a)' /\ entries'[n + 1].root = r /\ n + 1 \in 1 .. Len(entries')
  <2>1. mounts'[a] = r
    BY <1>1, <1>6 DEF FilesInv
  <2>2. \A i \in 1 .. n : entries'[i].alias # a
    BY <1>2, <1>6 DEF FilesInv
  <2>3. n + 1 \in 1 .. Len(entries') /\ \A i \in 1 .. n + 1 : i \in 1 .. n \/ i = n + 1
    BY <1>1, <1>2
  <2>4. entries'[n + 1].alias = a /\ entries'[n + 1].root = r
    BY <1>2
  <2>5. Answers(n + 1, a)'
    BY <1>1, <1>2, <2>2, <2>3, <2>4 DEF Answers
  <2>6. QED
    BY <2>1, <2>3, <2>4, <2>5
<1>7. r # P!NotMounted
  BY DEF P!FilesAssumption
<1>8. ASSUME NEW b \in Aliases
      PROVE  IF mounts'[b] = P!NotMounted THEN \A i \in 1 .. Len(entries') : entries'[i].alias # b
             ELSE \E i \in 1 .. Len(entries') : Answers(i, b)' /\ entries'[i].root = mounts'[b]
  <2>1. CASE mounts[b] # P!NotMounted
    BY <1>4, <2>1
  <2>2. CASE mounts[b] = P!NotMounted /\ b # a
    BY <1>5, <2>2
  <2>3. CASE mounts[b] = P!NotMounted /\ b = a
    BY <1>6, <1>7, <2>3
  <2>4. QED
    BY <2>1, <2>2, <2>3
<1>9. QED
  BY <1>2, <1>3, <1>8 DEF FilesInv

LEMMA FilesStep == P!FilesAssumption /\ FilesInv /\ [P!Next]_(P!vfsvars) => FilesInv'
<1> SUFFICES ASSUME P!FilesAssumption, FilesInv, [P!Next]_(P!vfsvars) PROVE FilesInv'
  OBVIOUS
<1>1. CASE UNCHANGED <<entries, mounts>>
  BY <1>1 DEF FilesInv, Answers
<1>2. ASSUME NEW a \in Aliases, P!MountFails(a) \/ P!Resolve(a) \/ P!OpenRead(a)
      PROVE  UNCHANGED <<entries, mounts>>
  BY <1>2 DEF P!MountFails, P!Resolve, P!OpenRead
<1>3. CASE UNCHANGED P!vfsvars
  BY <1>1, <1>3 DEF P!vfsvars
<1>4. QED
  BY <1>1, <1>2, <1>3, MountStep DEF P!Next

LEMMA FilesSound == P!FilesAssumption /\ FilesInv => P!FirstMountAnswers
<1> SUFFICES ASSUME P!FilesAssumption, FilesInv, NEW a \in Aliases
             PROVE  IF P!FindAlias(a) = 0 THEN mounts[a] = P!NotMounted
                    ELSE entries[P!FindAlias(a)].root = mounts[a]
  BY DEF P!FirstMountAnswers
<1> DEFINE mine == {i \in 1 .. Len(entries) : entries[i].alias = a}
<1>1. P!FindAlias(a) = IF mine = {} THEN 0 ELSE CHOOSE i \in mine : \A j \in mine : i <= j
  BY DEF P!FindAlias
<1>2. CASE mounts[a] = P!NotMounted
  <2>1. mine = {}
    BY <1>2 DEF FilesInv
  <2>2. QED
    BY <1>1, <1>2, <2>1
<1>3. CASE mounts[a] # P!NotMounted
  <2>1. PICK i \in 1 .. Len(entries) : Answers(i, a) /\ entries[i].root = mounts[a]
    BY <1>3 DEF FilesInv
  <2>2. mine # {} /\ i \in mine /\ mine \subseteq Int /\ \A j \in mine : i <= j
    BY <2>1 DEF Answers
  <2> HIDE DEF mine
  <2>3. \A j \in mine : (\A m \in mine : j <= m) => j = i
    BY <2>2
  <2>4. (CHOOSE j \in mine : \A m \in mine : j <= m) = i
    BY <2>2, <2>3
  <2>5. P!FindAlias(a) = i /\ i # 0
    BY <1>1, <2>1, <2>2, <2>4
  <2>6. QED
    BY <2>1, <2>5
<1>4. QED
  BY <1>2, <1>3

-----------------------------------------------------------------------------
(* The versioned buffers *)

\* The writer is one slot ahead of the reader, except inside a commit.
SlotsInv ==
  \A b \in V!Bufs :
    /\ readIdx[b] \in 0 .. 2
    /\ writeIdx[b] = IF b \in moving THEN readIdx[b] ELSE (readIdx[b] + 1) % 3

\* A pointer taken is to the slot to read, or, one commit later, to the one
\* that is neither read nor written.
PinInv ==
  pin = V!NoPin \/
    /\ pin.buf \in V!Bufs /\ pin.age \in 0 .. 2
    /\ pin.age = 0 => pin.slot = readIdx[pin.buf]
    /\ pin.age = 1 => pin.slot = (readIdx[pin.buf] + 2) % 3

VBTypeOK ==
  /\ readIdx = [b \in V!Bufs |-> readIdx[b]]
  /\ writeIdx = [b \in V!Bufs |-> writeIdx[b]]
  /\ last = [b \in V!Bufs |-> last[b]]
  /\ val = [b \in V!Bufs |-> [s \in 0 .. 2 |-> val[b][s]]]
  /\ moving \subseteq V!Bufs
  /\ pin = [buf |-> pin.buf, slot |-> pin.slot, found |-> pin.found, age |-> pin.age]

VBInv == VBTypeOK /\ SlotsInv /\ PinInv /\ V!ReaderUndisturbed

LEMMA VersionsInit == V!VersionsAssumption /\ V!Init => VBInv
BY DEF V!VersionsAssumption, V!Init, VBInv, VBTypeOK, SlotsInv, PinInv, V!ReaderUndisturbed,
   V!Bufs, V!NoPin

\* The slot that is written is neither the one to read nor, one commit after a
\* pointer was taken, the one it points to.
LEMMA WriteStep ==
  ASSUME V!VersionsAssumption, VBInv, NEW b \in V!Bufs, V!Write(b)
  PROVE  VBInv'
<1> USE DEF VBInv, V!Write
<1>1. /\ writeIdx[b] = (readIdx[b] + 1) % 3 /\ readIdx[b] \in 0 .. 2
      /\ writeIdx[b] \in 0 .. 2 /\ writeIdx[b] # readIdx[b]
      /\ writeIdx[b] # (readIdx[b] + 2) % 3
  BY DEF SlotsInv
<1>2. \A c \in V!Bufs, s \in 0 .. 2 : c # b \/ s # writeIdx[b] => val'[c][s] = val[c][s]
  BY DEF VBTypeOK
<1>3. VBTypeOK' /\ SlotsInv' /\ PinInv'
  <2>1. val' = [c \in V!Bufs |-> [s \in 0 .. 2 |-> val'[c][s]]]
    BY DEF VBTypeOK
  <2>2. VBTypeOK'
    BY <2>1 DEF VBTypeOK
  <2>3. SlotsInv'
    BY DEF SlotsInv
  <2>4. PinInv'
    BY DEF PinInv
  <2>5. QED
    BY <2>2, <2>3, <2>4
<1>4. \A c \in V!Bufs : val'[c][readIdx[c]] = last[c]
  BY <1>1, <1>2 DEF SlotsInv, V!ReaderUndisturbed
<1>5. ASSUME pin.buf # 0, pin.age <= 1 PROVE val'[pin.buf][pin.slot] = pin.found
  <2>1. pin.buf \in V!Bufs /\ pin.age \in {0, 1}
    BY <1>5 DEF PinInv, V!NoPin
  <2>2. pin.slot \in 0 .. 2
    BY <2>1, <1>5 DEF PinInv, V!NoPin, SlotsInv
  <2>3. pin.buf # b \/ pin.slot # writeIdx[b]
    BY <1>1, <1>5, <2>1 DEF PinInv, V!NoPin
  <2>4. QED
    BY <1>2, <1>5, <2>1, <2>2, <2>3 DEF V!ReaderUndisturbed
<1>6. QED
  BY <1>3, <1>4, <1>5 DEF V!ReaderUndisturbed

LEMMA ReadPtrStep ==
  ASSUME V!VersionsAssumption, VBInv, NEW b \in V!Bufs, V!ReadPtr(b)
  PROVE  VBInv'
<1> USE DEF VBInv, V!ReadPtr
<1>1. /\ pin'.buf = b /\ pin'.slot = readIdx[b] /\ pin'.found = val[b][readIdx[b]]
      /\ pin'.age = 0
      /\ pin' = [buf |-> pin'.buf, slot |-> pin'.slot, found |-> pin'.found, age |-> pin'.age]
  OBVIOUS
<1>2. VBTypeOK'
  BY <1>1 DEF VBTypeOK
<1>3. SlotsInv'
  BY DEF SlotsInv
<1>4. PinInv'
  BY <1>1 DEF PinInv
<1>5. V!ReaderUndisturbed'
  BY <1>1 DEF V!ReaderUndisturbed
<1>6. QED
  BY <1>2, <1>3, <1>4, <1>5

LEMMA CommitStep ==
  ASSUME V!VersionsAssumption, VBInv, NEW b \in V!Bufs, V!Commit(b)
  PROVE  VBInv'
<1> USE DEF VBInv, V!Commit
<1>1. writeIdx[b] = (readIdx[b] + 1) % 3 /\ readIdx[b] \in 0 .. 2 /\ writeIdx[b] \in 0 .. 2
  BY DEF SlotsInv
<1>2. readIdx'[b] = writeIdx[b] /\ \A c \in V!Bufs : c # b => readIdx'[c] = readIdx[c]
  BY DEF VBTypeOK
<1>3. SlotsInv'
  BY <1>1, <1>2 DEF SlotsInv
<1>4. \A c \in V!Bufs : val[c][readIdx'[c]] = last'[c]
  BY <1>1, <1>2 DEF V!ReaderUndisturbed, VBTypeOK
<1>5. CASE pin.buf = b
  <2>1. pin # V!NoPin
    BY <1>5 DEF V!NoPin, V!Bufs
  <2>2. pin.age \in 0 .. 2 /\ pin' = [pin EXCEPT !.age = IF @ < 2 THEN @ + 1 ELSE @]
    BY <1>5, <2>1 DEF PinInv
  <2>3. /\ pin'.buf = b /\ pin'.slot = pin.slot /\ pin'.found = pin.found
        /\ pin'.age = IF pin.age < 2 THEN pin.age + 1 ELSE pin.age
        /\ pin' = [buf |-> pin'.buf, slot |-> pin'.slot, found |-> pin'.found,
                   age |-> pin'.age]
    BY <1>5, <2>2 DEF VBTypeOK
  <2>4. pin'.age = 1 => pin.age = 0 /\ pin.slot = readIdx[b]
    BY <1>5, <2>1, <2>2, <2>3 DEF PinInv
  <2>5. PinInv'
    BY <1>1, <1>2, <2>2, <2>3, <2>4 DEF PinInv
  <2>6. pin'.age <= 1 => val[b][pin.slot] = pin.found
    BY <1>5, <2>2, <2>3 DEF V!ReaderUndisturbed, V!Bufs
  <2>7. VBTypeOK'
    BY <2>3 DEF VBTypeOK
  <2>8. QED
    BY <1>3, <1>4, <2>3, <2>5, <2>6, <2>7 DEF V!ReaderUndisturbed
<1>6. CASE pin.buf # b
  <2>1. VBTypeOK' /\ PinInv'
    BY <1>2, <1>6 DEF VBTypeOK, PinInv, V!NoPin
  <2>2. QED
    BY <1>3, <1>4, <1>6, <2>1 DEF V!ReaderUndisturbed
<1>7. QED
  BY <1>5, <1>6

LEMMA MoveWriterStep ==
  ASSUME V!VersionsAssumption, VBInv, NEW b \in V!Bufs, V!MoveWriter(b)
  PROVE  VBInv'
<1> USE DEF VBInv, V!MoveWriter
<1>1. writeIdx[b] = readIdx[b] /\ readIdx[b] \in 0 .. 2
  BY DEF SlotsInv
<1>2. writeIdx'[b] = (readIdx[b] + 1) % 3 /\ \A c \in V!Bufs : c # b => writeIdx'[c] = writeIdx[c]
  BY <1>1 DEF VBTypeOK
<1>3. VBTypeOK' /\ SlotsInv'
  BY <1>1, <1>2 DEF VBTypeOK, SlotsInv
<1>4. PinInv' /\ V!ReaderUndisturbed'
  BY DEF PinInv, V!ReaderUndisturbed
<1>5. QED
  BY <1>3, <1>4

LEMMA VersionsStep == V!VersionsAssumption /\ VBInv /\ [V!Next]_(V!vbvars) => VBInv'
<1> SUFFICES ASSUME V!VersionsAssumption, VBInv, [V!Next]_(V!vbvars) PROVE VBInv'
  OBVIOUS
<1>1. CASE V!CreateBuffer \/ UNCHANGED V!vbvars
  BY <1>1 DEF V!CreateBuffer, V!vbvars, VBInv, VBTypeOK, SlotsInv, PinInv, V!ReaderUndisturbed
<1>2. CASE V!DropManager
  BY <1>2 DEF V!DropManager, VBInv, VBTypeOK, SlotsInv, PinInv, V!ReaderUndisturbed, V!NoPin
<1>3. QED
  BY <1>1, <1>2, WriteStep, ReadPtrStep, CommitStep, MoveWriterStep DEF V!Next

(***************************************************************************)
(* A path keeps leading to the directory its alias was mounted on first,   *)
(* for any aliases, directories and capacity (VFS/API/lib.rs).  What a     *)
(* reader found behind its pointer stays there until the second commit     *)
(* after it took the pointer, and the slot to read holds the version       *)
(* committed last, wherever in commit a reader comes, for any number of    *)
(* buffers and versions (Resource/API/lib.rs:18).                          *)
(***************************************************************************)
THEOREM ResourcesStayKept == Spec => []ResourcesKept
<1>1. P!FilesAssumption /\ V!VersionsAssumption
  BY Constants
<1>2. Init => FilesInv /\ VBInv
  BY <1>1, FilesInit, VersionsInit DEF Init
<1>3. FilesInv /\ VBInv /\ [Next]_everything => FilesInv' /\ VBInv'
  BY <1>1, OneAtATime, FilesStep, VersionsStep
<1>4. FilesInv /\ VBInv => ResourcesKept
  BY <1>1, FilesSound DEF ResourcesKept, VBInv
<1>5. QED
  BY <1>2, <1>3, <1>4, PTL DEF Spec
-----------------------------------------------------------------------------
(* The frames of the Vulkan backend *)

FramePlaces ==
  {"start", "draw", "begin", "acquire", "recreate_suboptimal", "recreate_lost",
   "acquire_again", "record", "depth", "colour", "present", "queue", "recreate_present",
   "results", "pixels", "pixels_acquire", "pixels_copy", "pixels_present", "panicked",
   "undefined"}
Recording == {"depth", "colour", "present"}
\* Between the wait for the fence and the submission.
Waited == {"acquire", "recreate_suboptimal", "recreate_lost", "acquire_again", "record",
           "pixels_acquire", "pixels_copy"} \cup Recording
Submitted == {"queue", "recreate_present", "results"}

\* Failures after which nothing records, no image is acquired, the semaphore
\* stays signaled, or the processor may still run.
Unrecorded == {"recreate", "acquire_again", "begin"}
Unacquired == F!Unsubmitted \cup {"suboptimal"}
Unconsumed == {"begin", "submit"}
Unawaited == {"wait", "reset"}
Failed(fs) == \E f \in fs : f \in faults

FrameTypes ==
  /\ vpc \in FramePlaces /\ gpu \in {"idle", "depth", "colour", "copy"}
  /\ fence \in BOOLEAN /\ semaphore \in BOOLEAN /\ chain \in BOOLEAN /\ targets \in BOOLEAN
  /\ staging \in BOOLEAN /\ image \in BOOLEAN /\ cmd \in BOOLEAN
  /\ pipeline \in {"null", "live", "stale"} /\ model \in {"none", "partial", "ready"}

\* The fence tells of the processor, but for a wait or a reset that failed and
\* for a frame that failed in between.
FenceInv ==
  /\ gpu # "idle" /\ fence => Failed(Unawaited)
  /\ vpc \in Waited => (gpu = "idle" /\ ~fence) \/ Failed(Unawaited)
  /\ gpu = "depth" => vpc \in Submitted \cup {"panicked"} \/ "results" \in faults
  /\ vpc = "start" => fence
  /\ vpc \in {"draw", "begin", "pixels", "pixels_present"} \cup Submitted /\ ~fence
       => gpu # "idle" \/ Failed(F!Unsubmitted)

\* What a frame has at each place, or which failure deprived it of it.
FrameHas ==
  /\ cmd => vpc \in Recording
  /\ vpc \in Recording => cmd \/ Failed(Unrecorded)
  /\ vpc = "recreate_suboptimal" => "suboptimal" \in faults
  /\ vpc \in {"record", "queue", "pixels_copy", "pixels_present"} \cup Recording
       => image \/ Failed(Unacquired)
  /\ semaphore => \/ vpc \in {"recreate_suboptimal", "record", "pixels_copy", "panicked",
                              "undefined"} \cup Recording
                  \/ Failed(Unconsumed)
  /\ ~chain \/ ~targets \/ ~staging \/ vpc = "panicked" => "recreate" \in faults
  /\ vpc = "undefined" => Failed(Unawaited)

AssetsInv ==
  /\ pipeline = "stale" => "pipeline" \in faults
  /\ vpc # "start" => /\ pipeline = "live" \/ "pipeline" \in faults
                      /\ model = "ready" \/ "upload" \in faults

\* Each misuse but the two that need no failure has the one that led to it.
MisuseInv ==
  /\ (\E m \in misuse : m \notin {"vertices", "staging"})
       => \E f \in faults : f \notin F!Harmless
  /\ "overlap" \in misuse => "results" \in faults
  /\ "busy_commands" \in misuse \/ "fence_in_use" \in misuse \/ "fence_signaled" \in misuse
       => Failed(Unawaited)
  /\ "in_use" \in misuse => "idle" \in faults
  /\ "dead_swapchain" \in misuse \/ "dead_staging" \in misuse => "recreate" \in faults
  /\ "unacquired_image" \in misuse => Failed(Unacquired)
  /\ "no_pipeline" \in misuse => "pipeline" \in faults

FramesInv == FrameTypes /\ FenceInv /\ FrameHas /\ AssetsInv /\ MisuseInv

LEMMA FramesInit == F!Init => FramesInv
BY DEF F!Init, FramesInv, FrameTypes, FenceInv, FrameHas, AssetsInv, MisuseInv, FramePlaces,
       Recording, Waited, Submitted

USE DEF F!Goto, F!Failing, F!Fault, F!NoFault, F!Misuses, F!When, F!swapState, F!assets,
        FramePlaces, Recording, Waited, Submitted, Failed, F!Unsubmitted, Unrecorded,
        Unacquired, Unconsumed, Unawaited

\* What recreating the swap chain leaves behind, whichever of its calls fail.
LEMMA RecreateIs ==
  ASSUME NEW failTo, NEW okTo, F!Recreate(failTo, okTo), staging \in BOOLEAN,
         okTo # "panicked"
  PROVE  /\ faults \subseteq faults' /\ image' = FALSE
         /\ chain' \in BOOLEAN /\ targets' \in BOOLEAN /\ staging' \in BOOLEAN
         /\ vpc' \in {failTo, okTo, "panicked"}
         /\ vpc' = okTo \/ "recreate" \in faults'
         /\ ~chain' \/ ~targets' \/ vpc' = "panicked" => "recreate" \in faults'
         /\ ~staging' => ~staging \/ "recreate" \in faults'
         /\ gpu # "idle" => "idle" \in faults'
         /\ F!DestroyMisuse
<1>1. PICK early \in {{}, {"idle"}} :
        /\ gpu = "idle" \/ "idle" \in early
        /\ F!DestroyMisuse /\ image' = FALSE
        /\ F!CreateSwapchain(early, failTo, okTo)
  BY DEF F!Recreate
<1>2. /\ image' = FALSE /\ F!DestroyMisuse
      /\ gpu = "idle" \/ "idle" \in early
  BY <1>1
<1>3. /\ faults \subseteq faults' /\ early \subseteq faults'
      /\ chain' \in BOOLEAN /\ targets' \in BOOLEAN
  BY <1>1 DEF F!CreateSwapchain
<1>4. /\ staging' \in BOOLEAN
      /\ ~staging' => ~staging \/ "recreate" \in faults'
  <2>1. \/ staging' = staging
        \/ staging' = TRUE
        \/ staging' = FALSE /\ "recreate" \in faults'
    BY <1>1 DEF F!CreateSwapchain
  <2>2. QED
    BY <2>1
<1>5. /\ vpc' \in {failTo, okTo, "panicked"}
      /\ vpc' = okTo \/ "recreate" \in faults'
      /\ ~chain' \/ ~targets' \/ vpc' = "panicked" => "recreate" \in faults'
  <2>1. \/ chain' /\ targets' /\ vpc' = okTo
        \/ "recreate" \in faults' /\ vpc' \in {failTo, "panicked"}
        \/ "recreate" \in faults' /\ vpc' = okTo
    BY <1>1 DEF F!CreateSwapchain
  <2>2. QED
    BY <2>1
<1>6. QED
  BY <1>2, <1>3, <1>4, <1>5

LEMMA CreatePipelinesKeeps == FramesInv /\ F!CreatePipelines => FramesInv'
<1> SUFFICES ASSUME FramesInv, F!CreatePipelines PROVE FramesInv'
  OBVIOUS
<1> USE DEF FramesInv, F!CreatePipelines
<1>1. FrameTypes'
  BY DEF FrameTypes
<1>2. FenceInv'
  BY DEF FrameTypes, FenceInv
<1>3. FrameHas'
  BY DEF FrameTypes, FenceInv, FrameHas
<1>4. AssetsInv'
  BY DEF FrameTypes, AssetsInv
<1>5. MisuseInv'
  BY DEF FrameTypes, FenceInv, FrameHas, AssetsInv, MisuseInv, F!Harmless
<1>6. QED
  BY <1>1, <1>2, <1>3, <1>4, <1>5

LEMMA UploadModelKeeps == FramesInv /\ F!UploadModel => FramesInv'
<1> SUFFICES ASSUME FramesInv, F!UploadModel PROVE FramesInv'
  OBVIOUS
<1> USE DEF FramesInv, F!UploadModel
<1>1. FrameTypes'
  BY DEF FrameTypes
<1>2. FenceInv'
  BY DEF FrameTypes, FenceInv
<1>3. FrameHas'
  BY DEF FrameTypes, FenceInv, FrameHas
<1>4. AssetsInv'
  BY DEF FrameTypes, AssetsInv
<1>5. MisuseInv'
  BY DEF FrameTypes, FenceInv, FrameHas, AssetsInv, MisuseInv, F!Harmless
<1>6. QED
  BY <1>1, <1>2, <1>3, <1>4, <1>5

LEMMA StartLoopKeeps == FramesInv /\ F!StartLoop => FramesInv'
<1> SUFFICES ASSUME FramesInv, F!StartLoop PROVE FramesInv'
  OBVIOUS
<1> USE DEF FramesInv, F!StartLoop
<1>1. FrameTypes'
  BY DEF FrameTypes
<1>2. FenceInv'
  BY DEF FrameTypes, FenceInv
<1>3. FrameHas'
  BY DEF FrameTypes, FenceInv, FrameHas
<1>4. AssetsInv'
  BY DEF FrameTypes, AssetsInv
<1>5. MisuseInv'
  BY DEF FrameTypes, FenceInv, FrameHas, AssetsInv, MisuseInv, F!Harmless
<1>6. QED
  BY <1>1, <1>2, <1>3, <1>4, <1>5

LEMMA DrawPacketKeeps == FramesInv /\ F!DrawPacket => FramesInv'
<1> SUFFICES ASSUME FramesInv, F!DrawPacket PROVE FramesInv'
  OBVIOUS
<1> USE DEF FramesInv, F!DrawPacket
<1>1. FrameTypes'
  BY DEF FrameTypes
<1>2. FenceInv'
  BY DEF FrameTypes, FenceInv
<1>3. FrameHas'
  BY DEF FrameTypes, FenceInv, FrameHas
<1>4. AssetsInv'
  BY DEF FrameTypes, AssetsInv
<1>5. MisuseInv'
  BY DEF FrameTypes, FenceInv, FrameHas, AssetsInv, MisuseInv, F!Harmless
<1>6. QED
  BY <1>1, <1>2, <1>3, <1>4, <1>5

LEMMA BeginFrameKeeps == FramesInv /\ F!BeginFrame => FramesInv'
<1> SUFFICES ASSUME FramesInv, F!BeginFrame PROVE FramesInv'
  OBVIOUS
<1> USE DEF FramesInv, F!BeginFrame, F!WaitFence
<1>1. FrameTypes'
  BY DEF FrameTypes
<1>2. FenceInv'
  BY DEF FrameTypes, FenceInv
<1>3. FrameHas'
  BY DEF FrameTypes, FenceInv, FrameHas
<1>4. AssetsInv'
  BY DEF FrameTypes, AssetsInv
<1>5. MisuseInv'
  BY DEF FrameTypes, FenceInv, FrameHas, AssetsInv, MisuseInv, F!Harmless
<1>6. QED
  BY <1>1, <1>2, <1>3, <1>4, <1>5

LEMMA AcquireKeeps == FramesInv /\ F!Acquire => FramesInv'
<1> SUFFICES ASSUME FramesInv, F!Acquire PROVE FramesInv'
  OBVIOUS
<1> USE DEF FramesInv, F!Acquire
<1>1. FrameTypes'
  <2>1. /\ vpc' \in FramePlaces /\ gpu' \in {"idle", "depth", "colour", "copy"}
        /\ UNCHANGED <<pipeline, model>>
    BY DEF FrameTypes
  <2>2. /\ fence' \in BOOLEAN /\ semaphore' \in BOOLEAN /\ chain' \in BOOLEAN
        /\ targets' \in BOOLEAN /\ staging' \in BOOLEAN
    BY DEF FrameTypes
  <2>3. image' \in BOOLEAN /\ cmd' \in BOOLEAN
    BY DEF FrameTypes
  <2>4. QED
    BY <2>1, <2>2, <2>3 DEF FrameTypes
<1>2. FenceInv'
  BY DEF FrameTypes, FenceInv
<1>3. FrameHas'
  BY DEF FrameTypes, FenceInv, FrameHas
<1>4. AssetsInv'
  BY DEF FrameTypes, AssetsInv
<1>5. MisuseInv'
  BY DEF FrameTypes, FenceInv, FrameHas, AssetsInv, MisuseInv, F!Harmless,
         F!AcquireMisuse
<1>6. QED
  BY <1>1, <1>2, <1>3, <1>4, <1>5

LEMMA RecreateSuboptimalKeeps == FramesInv /\ F!RecreateSuboptimal => FramesInv'
<1> SUFFICES ASSUME FramesInv, F!RecreateSuboptimal PROVE FramesInv'
  OBVIOUS
<1> USE DEF FramesInv
<1>1. /\ faults \subseteq faults' /\ image' = FALSE
      /\ chain' \in BOOLEAN /\ targets' \in BOOLEAN /\ staging' \in BOOLEAN
      /\ vpc' \in {"record", "panicked"}
      /\ vpc' = "record" \/ "recreate" \in faults'
      /\ ~chain' \/ ~targets' \/ vpc' = "panicked" => "recreate" \in faults'
      /\ ~staging' => ~staging \/ "recreate" \in faults'
      /\ gpu # "idle" => "idle" \in faults'
      /\ F!DestroyMisuse
  BY RecreateIs DEF FrameTypes, F!RecreateSuboptimal
<1>2. UNCHANGED <<fence, gpu, semaphore, cmd, pipeline, model>> /\ vpc = "recreate_suboptimal"
  BY DEF F!RecreateSuboptimal
<1>3. FrameTypes'
  <2>1. /\ vpc' \in FramePlaces /\ gpu' \in {"idle", "depth", "colour", "copy"}
        /\ UNCHANGED <<pipeline, model>>
    BY <1>1, <1>2 DEF FrameTypes
  <2>2. /\ fence' \in BOOLEAN /\ semaphore' \in BOOLEAN /\ chain' \in BOOLEAN
        /\ targets' \in BOOLEAN /\ staging' \in BOOLEAN
    BY <1>1, <1>2 DEF FrameTypes
  <2>3. image' \in BOOLEAN /\ cmd' \in BOOLEAN
    BY <1>1, <1>2 DEF FrameTypes
  <2>4. QED
    BY <2>1, <2>2, <2>3 DEF FrameTypes
<1>4. FenceInv'
  BY <1>1, <1>2 DEF FrameTypes, FenceInv
<1>5. FrameHas'
  BY <1>1, <1>2 DEF FrameTypes, FenceInv, FrameHas
<1>6. AssetsInv'
  BY <1>1, <1>2 DEF FrameTypes, AssetsInv
<1>7. MisuseInv'
  BY <1>1, <1>2 DEF FrameTypes, FenceInv, FrameHas, AssetsInv, MisuseInv,
                      F!Harmless, F!DestroyMisuse
<1>8. QED
  BY <1>3, <1>4, <1>5, <1>6, <1>7

LEMMA RecreateLostKeeps == FramesInv /\ F!RecreateLost => FramesInv'
<1> SUFFICES ASSUME FramesInv, F!RecreateLost PROVE FramesInv'
  OBVIOUS
<1> USE DEF FramesInv
<1>1. /\ faults \subseteq faults' /\ image' = FALSE
      /\ chain' \in BOOLEAN /\ targets' \in BOOLEAN /\ staging' \in BOOLEAN
      /\ vpc' \in {"depth", "acquire_again", "panicked"}
      /\ vpc' = "acquire_again" \/ "recreate" \in faults'
      /\ ~chain' \/ ~targets' \/ vpc' = "panicked" => "recreate" \in faults'
      /\ ~staging' => ~staging \/ "recreate" \in faults'
      /\ gpu # "idle" => "idle" \in faults'
      /\ F!DestroyMisuse
  BY RecreateIs DEF FrameTypes, F!RecreateLost
<1>2. UNCHANGED <<fence, gpu, semaphore, cmd, pipeline, model>> /\ vpc = "recreate_lost"
  BY DEF F!RecreateLost
<1>3. FrameTypes'
  <2>1. /\ vpc' \in FramePlaces /\ gpu' \in {"idle", "depth", "colour", "copy"}
        /\ UNCHANGED <<pipeline, model>>
    BY <1>1, <1>2 DEF FrameTypes
  <2>2. /\ fence' \in BOOLEAN /\ semaphore' \in BOOLEAN /\ chain' \in BOOLEAN
        /\ targets' \in BOOLEAN /\ staging' \in BOOLEAN
    BY <1>1, <1>2 DEF FrameTypes
  <2>3. image' \in BOOLEAN /\ cmd' \in BOOLEAN
    BY <1>1, <1>2 DEF FrameTypes
  <2>4. QED
    BY <2>1, <2>2, <2>3 DEF FrameTypes
<1>4. FenceInv'
  BY <1>1, <1>2 DEF FrameTypes, FenceInv
<1>5. FrameHas'
  BY <1>1, <1>2 DEF FrameTypes, FenceInv, FrameHas
<1>6. AssetsInv'
  BY <1>1, <1>2 DEF FrameTypes, AssetsInv
<1>7. MisuseInv'
  BY <1>1, <1>2 DEF FrameTypes, FenceInv, FrameHas, AssetsInv, MisuseInv,
                      F!Harmless, F!DestroyMisuse
<1>8. QED
  BY <1>3, <1>4, <1>5, <1>6, <1>7

LEMMA AcquireAgainKeeps == FramesInv /\ F!AcquireAgain => FramesInv'
<1> SUFFICES ASSUME FramesInv, F!AcquireAgain PROVE FramesInv'
  OBVIOUS
<1> USE DEF FramesInv, F!AcquireAgain, F!AcquireOrEnd
<1>1. FrameTypes'
  <2>1. /\ vpc' \in FramePlaces /\ gpu' \in {"idle", "depth", "colour", "copy"}
        /\ UNCHANGED <<pipeline, model>>
    BY DEF FrameTypes
  <2>2. /\ fence' \in BOOLEAN /\ semaphore' \in BOOLEAN /\ chain' \in BOOLEAN
        /\ targets' \in BOOLEAN /\ staging' \in BOOLEAN
    BY DEF FrameTypes
  <2>3. image' \in BOOLEAN /\ cmd' \in BOOLEAN
    BY DEF FrameTypes
  <2>4. QED
    BY <2>1, <2>2, <2>3 DEF FrameTypes
<1>2. FenceInv'
  BY DEF FrameTypes, FenceInv
<1>3. FrameHas'
  BY DEF FrameTypes, FenceInv, FrameHas
<1>4. AssetsInv'
  BY DEF FrameTypes, AssetsInv
<1>5. MisuseInv'
  BY DEF FrameTypes, FenceInv, FrameHas, AssetsInv, MisuseInv, F!Harmless,
         F!AcquireMisuse
<1>6. QED
  BY <1>1, <1>2, <1>3, <1>4, <1>5

LEMMA RecordKeeps == FramesInv /\ F!Record => FramesInv'
<1> SUFFICES ASSUME FramesInv, F!Record PROVE FramesInv'
  OBVIOUS
<1> USE DEF FramesInv, F!Record
<1>1. FrameTypes'
  BY DEF FrameTypes
<1>2. FenceInv'
  BY DEF FrameTypes, FenceInv
<1>3. FrameHas'
  BY DEF FrameTypes, FenceInv, FrameHas
<1>4. AssetsInv'
  BY DEF FrameTypes, AssetsInv
<1>5. MisuseInv'
  BY DEF FrameTypes, FenceInv, FrameHas, AssetsInv, MisuseInv, F!Harmless
<1>6. QED
  BY <1>1, <1>2, <1>3, <1>4, <1>5

LEMMA PassKeeps == FramesInv /\ (F!DepthPrepass \/ F!ColourPass) => FramesInv'
<1> SUFFICES ASSUME FramesInv, F!DepthPrepass \/ F!ColourPass PROVE FramesInv'
  OBVIOUS
<1> USE DEF FramesInv, F!DepthPrepass, F!ColourPass, F!RecordPass
<1>1. FrameTypes'
  BY DEF FrameTypes
<1>2. FenceInv'
  BY DEF FrameTypes, FenceInv
<1>3. FrameHas'
  BY DEF FrameTypes, FenceInv, FrameHas
<1>4. AssetsInv'
  BY DEF FrameTypes, AssetsInv
<1>5. MisuseInv'
  BY DEF FrameTypes, FenceInv, FrameHas, AssetsInv, MisuseInv, F!Harmless
<1>6. QED
  BY <1>1, <1>2, <1>3, <1>4, <1>5

LEMMA SubmitKeeps == FramesInv /\ F!Submit => FramesInv'
<1> SUFFICES ASSUME FramesInv, F!Submit PROVE FramesInv'
  OBVIOUS
<1> USE DEF FramesInv, F!Submit
<1>1. FrameTypes'
  <2>1. /\ vpc' \in FramePlaces /\ gpu' \in {"idle", "depth", "colour", "copy"}
        /\ UNCHANGED <<pipeline, model>>
    BY DEF FrameTypes
  <2>2. /\ fence' \in BOOLEAN /\ semaphore' \in BOOLEAN /\ chain' \in BOOLEAN
        /\ targets' \in BOOLEAN /\ staging' \in BOOLEAN
    BY DEF FrameTypes
  <2>3. image' \in BOOLEAN /\ cmd' \in BOOLEAN
    BY DEF FrameTypes
  <2>4. QED
    BY <2>1, <2>2, <2>3 DEF FrameTypes
<1>2. FenceInv'
  BY DEF FrameTypes, FenceInv
<1>3. FrameHas'
  BY DEF FrameTypes, FenceInv, FrameHas
<1>4. AssetsInv'
  BY DEF FrameTypes, AssetsInv
<1>5. MisuseInv'
  BY DEF FrameTypes, FenceInv, FrameHas, AssetsInv, MisuseInv, F!Harmless
<1>6. QED
  BY <1>1, <1>2, <1>3, <1>4, <1>5

LEMMA QueuePresentKeeps == FramesInv /\ F!QueuePresent => FramesInv'
<1> SUFFICES ASSUME FramesInv, F!QueuePresent PROVE FramesInv'
  OBVIOUS
<1> USE DEF FramesInv, F!QueuePresent, F!PresentImage
<1>1. FrameTypes'
  <2>1. /\ vpc' \in FramePlaces /\ gpu' \in {"idle", "depth", "colour", "copy"}
        /\ UNCHANGED <<pipeline, model>>
    BY DEF FrameTypes
  <2>2. /\ fence' \in BOOLEAN /\ semaphore' \in BOOLEAN /\ chain' \in BOOLEAN
        /\ targets' \in BOOLEAN /\ staging' \in BOOLEAN
    BY DEF FrameTypes
  <2>3. image' \in BOOLEAN /\ cmd' \in BOOLEAN
    BY DEF FrameTypes
  <2>4. QED
    BY <2>1, <2>2, <2>3 DEF FrameTypes
<1>2. FenceInv'
  BY DEF FrameTypes, FenceInv
<1>3. FrameHas'
  BY DEF FrameTypes, FenceInv, FrameHas
<1>4. AssetsInv'
  BY DEF FrameTypes, AssetsInv
<1>5. MisuseInv'
  BY DEF FrameTypes, FenceInv, FrameHas, AssetsInv, MisuseInv, F!Harmless
<1>6. QED
  BY <1>1, <1>2, <1>3, <1>4, <1>5

LEMMA RecreatePresentKeeps == FramesInv /\ F!RecreatePresent => FramesInv'
<1> SUFFICES ASSUME FramesInv, F!RecreatePresent PROVE FramesInv'
  OBVIOUS
<1> USE DEF FramesInv
<1>1. /\ faults \subseteq faults' /\ image' = FALSE
      /\ chain' \in BOOLEAN /\ targets' \in BOOLEAN /\ staging' \in BOOLEAN
      /\ vpc' \in {"results", "panicked"}
      /\ vpc' = "results" \/ "recreate" \in faults'
      /\ ~chain' \/ ~targets' \/ vpc' = "panicked" => "recreate" \in faults'
      /\ ~staging' => ~staging \/ "recreate" \in faults'
      /\ gpu # "idle" => "idle" \in faults'
      /\ F!DestroyMisuse
  BY RecreateIs DEF FrameTypes, F!RecreatePresent
<1>2. UNCHANGED <<fence, gpu, semaphore, cmd, pipeline, model>> /\ vpc = "recreate_present"
  BY DEF F!RecreatePresent
<1>3. FrameTypes'
  <2>1. /\ vpc' \in FramePlaces /\ gpu' \in {"idle", "depth", "colour", "copy"}
        /\ UNCHANGED <<pipeline, model>>
    BY <1>1, <1>2 DEF FrameTypes
  <2>2. /\ fence' \in BOOLEAN /\ semaphore' \in BOOLEAN /\ chain' \in BOOLEAN
        /\ targets' \in BOOLEAN /\ staging' \in BOOLEAN
    BY <1>1, <1>2 DEF FrameTypes
  <2>3. image' \in BOOLEAN /\ cmd' \in BOOLEAN
    BY <1>1, <1>2 DEF FrameTypes
  <2>4. QED
    BY <2>1, <2>2, <2>3 DEF FrameTypes
<1>4. FenceInv'
  BY <1>1, <1>2 DEF FrameTypes, FenceInv
<1>5. FrameHas'
  BY <1>1, <1>2 DEF FrameTypes, FenceInv, FrameHas
<1>6. AssetsInv'
  BY <1>1, <1>2 DEF FrameTypes, AssetsInv
<1>7. MisuseInv'
  BY <1>1, <1>2 DEF FrameTypes, FenceInv, FrameHas, AssetsInv, MisuseInv,
                      F!Harmless, F!DestroyMisuse
<1>8. QED
  BY <1>3, <1>4, <1>5, <1>6, <1>7

LEMMA QueryResultsKeeps == FramesInv /\ F!QueryResults => FramesInv'
<1> SUFFICES ASSUME FramesInv, F!QueryResults PROVE FramesInv'
  OBVIOUS
<1> USE DEF FramesInv, F!QueryResults
<1>1. FrameTypes'
  BY DEF FrameTypes
<1>2. FenceInv'
  BY DEF FrameTypes, FenceInv
<1>3. FrameHas'
  BY DEF FrameTypes, FenceInv, FrameHas
<1>4. AssetsInv'
  BY DEF FrameTypes, AssetsInv
<1>5. MisuseInv'
  BY DEF FrameTypes, FenceInv, FrameHas, AssetsInv, MisuseInv, F!Harmless
<1>6. QED
  BY <1>1, <1>2, <1>3, <1>4, <1>5

LEMMA FillStagingKeeps == FramesInv /\ F!FillStaging => FramesInv'
<1> SUFFICES ASSUME FramesInv, F!FillStaging PROVE FramesInv'
  OBVIOUS
<1> USE DEF FramesInv, F!FillStaging
<1>1. FrameTypes'
  BY DEF FrameTypes
<1>2. FenceInv'
  BY DEF FrameTypes, FenceInv
<1>3. FrameHas'
  BY DEF FrameTypes, FenceInv, FrameHas
<1>4. AssetsInv'
  BY DEF FrameTypes, AssetsInv
<1>5. MisuseInv'
  BY DEF FrameTypes, FenceInv, FrameHas, AssetsInv, MisuseInv, F!Harmless
<1>6. QED
  BY <1>1, <1>2, <1>3, <1>4, <1>5

LEMMA WaitPixelsKeeps == FramesInv /\ F!WaitPixels => FramesInv'
<1> SUFFICES ASSUME FramesInv, F!WaitPixels PROVE FramesInv'
  OBVIOUS
<1> USE DEF FramesInv, F!WaitPixels, F!WaitFence
<1>1. FrameTypes'
  BY DEF FrameTypes
<1>2. FenceInv'
  BY DEF FrameTypes, FenceInv
<1>3. FrameHas'
  BY DEF FrameTypes, FenceInv, FrameHas
<1>4. AssetsInv'
  BY DEF FrameTypes, AssetsInv
<1>5. MisuseInv'
  BY DEF FrameTypes, FenceInv, FrameHas, AssetsInv, MisuseInv, F!Harmless
<1>6. QED
  BY <1>1, <1>2, <1>3, <1>4, <1>5

LEMMA AcquirePixelsKeeps == FramesInv /\ F!AcquirePixels => FramesInv'
<1> SUFFICES ASSUME FramesInv, F!AcquirePixels PROVE FramesInv'
  OBVIOUS
<1> USE DEF FramesInv, F!AcquirePixels, F!AcquireOrEnd
<1>1. FrameTypes'
  <2>1. /\ vpc' \in FramePlaces /\ gpu' \in {"idle", "depth", "colour", "copy"}
        /\ UNCHANGED <<pipeline, model>>
    BY DEF FrameTypes
  <2>2. /\ fence' \in BOOLEAN /\ semaphore' \in BOOLEAN /\ chain' \in BOOLEAN
        /\ targets' \in BOOLEAN /\ staging' \in BOOLEAN
    BY DEF FrameTypes
  <2>3. image' \in BOOLEAN /\ cmd' \in BOOLEAN
    BY DEF FrameTypes
  <2>4. QED
    BY <2>1, <2>2, <2>3 DEF FrameTypes
<1>2. FenceInv'
  BY DEF FrameTypes, FenceInv
<1>3. FrameHas'
  BY DEF FrameTypes, FenceInv, FrameHas
<1>4. AssetsInv'
  BY DEF FrameTypes, AssetsInv
<1>5. MisuseInv'
  BY DEF FrameTypes, FenceInv, FrameHas, AssetsInv, MisuseInv, F!Harmless,
         F!AcquireMisuse
<1>6. QED
  BY <1>1, <1>2, <1>3, <1>4, <1>5

LEMMA CopyPixelsKeeps == FramesInv /\ F!CopyPixels => FramesInv'
<1> SUFFICES ASSUME FramesInv, F!CopyPixels PROVE FramesInv'
  OBVIOUS
<1> USE DEF FramesInv, F!CopyPixels
<1>1. FrameTypes'
  <2>1. /\ vpc' \in FramePlaces /\ gpu' \in {"idle", "depth", "colour", "copy"}
        /\ UNCHANGED <<pipeline, model>>
    BY DEF FrameTypes
  <2>2. /\ fence' \in BOOLEAN /\ semaphore' \in BOOLEAN /\ chain' \in BOOLEAN
        /\ targets' \in BOOLEAN /\ staging' \in BOOLEAN
    BY DEF FrameTypes
  <2>3. image' \in BOOLEAN /\ cmd' \in BOOLEAN
    BY DEF FrameTypes
  <2>4. QED
    BY <2>1, <2>2, <2>3 DEF FrameTypes
<1>2. FenceInv'
  BY DEF FrameTypes, FenceInv
<1>3. FrameHas'
  BY DEF FrameTypes, FenceInv, FrameHas
<1>4. AssetsInv'
  BY DEF FrameTypes, AssetsInv
<1>5. MisuseInv'
  BY DEF FrameTypes, FenceInv, FrameHas, AssetsInv, MisuseInv, F!Harmless
<1>6. QED
  BY <1>1, <1>2, <1>3, <1>4, <1>5

LEMMA PresentPixelsKeeps == FramesInv /\ F!PresentPixels => FramesInv'
<1> SUFFICES ASSUME FramesInv, F!PresentPixels PROVE FramesInv'
  OBVIOUS
<1> USE DEF FramesInv, F!PresentPixels, F!PresentImage
<1>1. FrameTypes'
  <2>1. /\ vpc' \in FramePlaces /\ gpu' \in {"idle", "depth", "colour", "copy"}
        /\ UNCHANGED <<pipeline, model>>
    BY DEF FrameTypes
  <2>2. /\ fence' \in BOOLEAN /\ semaphore' \in BOOLEAN /\ chain' \in BOOLEAN
        /\ targets' \in BOOLEAN /\ staging' \in BOOLEAN
    BY DEF FrameTypes
  <2>3. image' \in BOOLEAN /\ cmd' \in BOOLEAN
    BY DEF FrameTypes
  <2>4. QED
    BY <2>1, <2>2, <2>3 DEF FrameTypes
<1>2. FenceInv'
  BY DEF FrameTypes, FenceInv
<1>3. FrameHas'
  BY DEF FrameTypes, FenceInv, FrameHas
<1>4. AssetsInv'
  BY DEF FrameTypes, AssetsInv
<1>5. MisuseInv'
  BY DEF FrameTypes, FenceInv, FrameHas, AssetsInv, MisuseInv, F!Harmless
<1>6. QED
  BY <1>1, <1>2, <1>3, <1>4, <1>5

LEMMA ProcessorKeeps == FramesInv /\ F!Processor => FramesInv'
<1> SUFFICES ASSUME FramesInv, F!Processor PROVE FramesInv'
  OBVIOUS
<1> USE DEF FramesInv, F!Processor, F!DepthDone, F!AllDone
<1>1. FrameTypes'
  <2>1. /\ gpu' \in {"idle", "depth", "colour", "copy"} /\ fence' \in BOOLEAN
        /\ UNCHANGED <<vpc, semaphore, chain, targets, staging, image, cmd, pipeline, model>>
    BY DEF FrameTypes
  <2>2. QED
    BY <2>1 DEF FrameTypes
<1>2. FenceInv'
  BY DEF FrameTypes, FenceInv
<1>3. FrameHas'
  BY DEF FrameTypes, FenceInv, FrameHas
<1>4. AssetsInv'
  BY DEF FrameTypes, AssetsInv
<1>5. MisuseInv'
  BY DEF FrameTypes, FenceInv, FrameHas, AssetsInv, MisuseInv, F!Harmless
<1>6. QED
  BY <1>1, <1>2, <1>3, <1>4, <1>5

LEMMA FramesStep == FramesInv /\ [F!Next]_F!vkvars => FramesInv'
<1>1. CASE UNCHANGED F!vkvars
  BY <1>1 DEF F!vkvars, FramesInv, FrameTypes, FenceInv, FrameHas, AssetsInv, MisuseInv
<1>2. CASE F!Next
  BY <1>2, CreatePipelinesKeeps, UploadModelKeeps, StartLoopKeeps, DrawPacketKeeps,
     BeginFrameKeeps, AcquireKeeps, RecreateSuboptimalKeeps, RecreateLostKeeps,
     AcquireAgainKeeps, RecordKeeps, PassKeeps, SubmitKeeps, QueuePresentKeeps,
     RecreatePresentKeeps, QueryResultsKeeps, FillStagingKeeps, WaitPixelsKeeps,
     AcquirePixelsKeeps, CopyPixelsKeeps, PresentPixelsKeeps, ProcessorKeeps DEF F!Next
<1>3. QED
  BY <1>1, <1>2

LEMMA FramesAreSound == FramesInv => F!FramesSound
<1> SUFFICES ASSUME FramesInv PROVE F!FramesSound
  OBVIOUS
<1> USE DEF FramesInv, F!Harmless
<1>1. F!Hung => Failed(F!Unsubmitted)
  BY DEF F!Hung, FenceInv, FrameTypes
<1>2. faults \subseteq F!Harmless =>
        /\ misuse \subseteq {"vertices", "staging"}
        /\ ~F!Hung /\ vpc \notin {"panicked", "undefined"}
  BY <1>1 DEF MisuseInv, FrameHas
<1>3. /\ "overlap" \in misuse => "results" \in faults
      /\ "in_use" \in misuse => "idle" \in faults
      /\ "no_pipeline" \in misuse => "pipeline" \in faults
  BY DEF MisuseInv
<1>4. misuse \intersect {"busy_commands", "fence_in_use", "fence_signaled"} # {} =>
        faults \intersect {"wait", "reset"} # {}
  BY DEF MisuseInv
<1>5. misuse \intersect {"dead_swapchain", "dead_staging"} # {} \/ vpc = "panicked" =>
        "recreate" \in faults
  BY DEF MisuseInv, FrameHas
<1>6. /\ "unacquired_image" \in misuse =>
            faults \intersect (F!Unsubmitted \union {"suboptimal"}) # {}
      /\ F!Hung => faults \intersect F!Unsubmitted # {}
  BY <1>1 DEF MisuseInv
<1>7. QED
  BY <1>2, <1>3, <1>4, <1>5, <1>6 DEF F!FramesSound, F!Harmless

HIDE DEF F!Goto, F!Failing, F!Fault, F!NoFault, F!Misuses, F!When, F!swapState, F!assets,
         FramePlaces, Recording, Waited, Submitted, Failed, F!Unsubmitted, Unrecorded,
         Unacquired, Unconsumed, Unawaited

-----------------------------------------------------------------------------
(* What the calls of the system acquire and give back *)

\* A call that finds one set of things held and leaves another gives back only of
\* what it finds.
Rung(c, before, after) ==
  /\ c.undo \subseteq before /\ c.free \subseteq before
  /\ after = IF c.free = {} THEN before \cup c.take ELSE before \ c.free

\* held is what a ladder holds before each call, and after the last.
Holds(l, held) ==
  /\ Len(l.calls) \in Nat /\ held[1] = {}
  /\ \A r \in 1 .. Len(l.calls) : Rung(l.calls[r], held[r], held[r + 1])
  /\ l.closes \subseteq held[Len(l.calls) + 1]

\* One that cleans up gives back all of it when a call fails, and at the end.
Exact(l, held) ==
  /\ \A r \in 1 .. Len(l.calls) : l.calls[r].free = {} => l.calls[r].undo = held[r]
  /\ l.closes = held[Len(l.calls) + 1]

LEMMA EnumerateDevicesHolds ==
  \E held : Holds(O!EnumerateDevices, held) /\ Exact(O!EnumerateDevices, held)
<1>1. PICK calls, held : /\ calls = O!EnumerateDevices.calls
                         /\ held = << {}, O!Com, O!Enum, O!Endpoint, O!Client, O!Format, {} >>
  OBVIOUS
<1>2. Len(calls) = 6 /\ O!EnumerateDevices.closes = {}
  BY <1>1 DEF O!EnumerateDevices, O!Ladder, O!OpenClient
<1>3. /\ calls[1] = O!Take("com", {})
      /\ calls[2] = O!Take("enumerator", O!Com)
      /\ calls[3] = O!Take("endpoint", O!Enum)
      /\ calls[4] = O!Take("client", O!Endpoint)
      /\ calls[5] = O!Take("format", O!Client)
      /\ calls[6] = O!Free(O!Format)
  BY <1>1 DEF O!EnumerateDevices, O!Ladder, O!OpenClient
<1>4. /\ Rung(calls[1], held[1], held[2]) /\ (calls[1].free = {} => calls[1].undo = held[1])
      /\ Rung(calls[2], held[2], held[3]) /\ (calls[2].free = {} => calls[2].undo = held[2])
      /\ Rung(calls[3], held[3], held[4]) /\ (calls[3].free = {} => calls[3].undo = held[3])
      /\ Rung(calls[4], held[4], held[5]) /\ (calls[4].free = {} => calls[4].undo = held[4])
      /\ Rung(calls[5], held[5], held[6]) /\ (calls[5].free = {} => calls[5].undo = held[5])
      /\ Rung(calls[6], held[6], held[7]) /\ (calls[6].free = {} => calls[6].undo = held[6])
  BY <1>1, <1>3 DEF Rung, O!Take, O!Use, O!Free, O!Com, O!Enum, O!Endpoint, O!Client, O!Format,
     O!Sound
<1>5. \A r \in 1 .. 6 : r = 1 \/ r = 2 \/ r = 3 \/ r = 4 \/ r = 5 \/ r = 6
  OBVIOUS
<1>6. ASSUME NEW r \in 1 .. 6
      PROVE  Rung(calls[r], held[r], held[r + 1]) /\ (calls[r].free = {} => calls[r].undo = held[r])
  BY <1>4, <1>5
<1>7. held[1] = {} /\ O!EnumerateDevices.closes = held[7]
  BY <1>1, <1>2
<1>8. Holds(O!EnumerateDevices, held)
  BY <1>1, <1>2, <1>6, <1>7 DEF Holds
<1>9. Exact(O!EnumerateDevices, held)
  BY <1>1, <1>2, <1>6, <1>7 DEF Exact
<1>10. QED
  BY <1>8, <1>9

LEMMA PlaySineHolds == \E held : Holds(O!PlaySine, held) /\ Exact(O!PlaySine, held)
<1>1. PICK calls, held : /\ calls = O!PlaySine.calls
                         /\ held = << {}, O!Com, O!Enum, O!Endpoint, O!Client, O!Format,
                                     O!Format, O!Format, O!Sound, O!Sound, {} >>
  OBVIOUS
<1>2. Len(calls) = 10 /\ O!PlaySine.closes = {}
  BY <1>1 DEF O!PlaySine, O!Ladder, O!OpenClient
<1>3. /\ calls[1] = O!Take("com", {})
      /\ calls[2] = O!Take("enumerator", O!Com)
      /\ calls[3] = O!Take("endpoint", O!Enum)
      /\ calls[4] = O!Take("client", O!Endpoint)
      /\ calls[5] = O!Take("format", O!Client)
      /\ calls[6] = O!Use(O!Format)
      /\ calls[7] = O!Use(O!Format)
      /\ calls[8] = O!Take("render", O!Format)
      /\ calls[9] = O!Use(O!Sound)
      /\ calls[10] = O!Free(O!Sound)
  BY <1>1 DEF O!PlaySine, O!Ladder, O!OpenClient
<1>4. /\ Rung(calls[1], held[1], held[2]) /\ (calls[1].free = {} => calls[1].undo = held[1])
      /\ Rung(calls[2], held[2], held[3]) /\ (calls[2].free = {} => calls[2].undo = held[2])
      /\ Rung(calls[3], held[3], held[4]) /\ (calls[3].free = {} => calls[3].undo = held[3])
      /\ Rung(calls[4], held[4], held[5]) /\ (calls[4].free = {} => calls[4].undo = held[4])
      /\ Rung(calls[5], held[5], held[6]) /\ (calls[5].free = {} => calls[5].undo = held[5])
      /\ Rung(calls[6], held[6], held[7]) /\ (calls[6].free = {} => calls[6].undo = held[6])
      /\ Rung(calls[7], held[7], held[8]) /\ (calls[7].free = {} => calls[7].undo = held[7])
      /\ Rung(calls[8], held[8], held[9]) /\ (calls[8].free = {} => calls[8].undo = held[8])
      /\ Rung(calls[9], held[9], held[10]) /\ (calls[9].free = {} => calls[9].undo = held[9])
      /\ Rung(calls[10], held[10], held[11]) /\ (calls[10].free = {} => calls[10].undo = held[10])
  BY <1>1, <1>3 DEF Rung, O!Take, O!Use, O!Free, O!Com, O!Enum, O!Endpoint, O!Client, O!Format,
     O!Sound
<1>5. \A r \in 1 .. 10 : r = 1 \/ r = 2 \/ r = 3 \/ r = 4 \/ r = 5
                      \/ r = 6 \/ r = 7 \/ r = 8 \/ r = 9 \/ r = 10
  OBVIOUS
<1>6. ASSUME NEW r \in 1 .. 10
      PROVE  Rung(calls[r], held[r], held[r + 1]) /\ (calls[r].free = {} => calls[r].undo = held[r])
  BY <1>4, <1>5
<1>7. held[1] = {} /\ O!PlaySine.closes = held[11]
  BY <1>1, <1>2
<1>8. Holds(O!PlaySine, held)
  BY <1>1, <1>2, <1>6, <1>7 DEF Holds
<1>9. Exact(O!PlaySine, held)
  BY <1>1, <1>2, <1>6, <1>7 DEF Exact
<1>10. QED
  BY <1>8, <1>9

LEMMA EnumerateAdaptersHolds ==
  \E held : Holds(O!EnumerateAdapters, held) /\ Exact(O!EnumerateAdapters, held)
<1>1. PICK calls, held : /\ calls = O!EnumerateAdapters.calls
                         /\ held = << {}, {"factory"}, {"factory", "adapter"}, {"factory"},
                                     {"factory", "adapter"}, {"factory"}, {} >>
  OBVIOUS
<1>2. Len(calls) = 6 /\ O!EnumerateAdapters.closes = {}
  BY <1>1 DEF O!EnumerateAdapters, O!Ladder
<1>3. /\ calls[1] = O!Take("factory", {})
      /\ calls[2] = O!Take("adapter", {"factory"})
      /\ calls[3] = O!Free({"adapter"})
      /\ calls[4] = O!Take("adapter", {"factory"})
      /\ calls[5] = O!Free({"adapter"})
      /\ calls[6] = O!Free({"factory"})
  BY <1>1 DEF O!EnumerateAdapters, O!Ladder
<1>4. /\ Rung(calls[1], held[1], held[2]) /\ (calls[1].free = {} => calls[1].undo = held[1])
      /\ Rung(calls[2], held[2], held[3]) /\ (calls[2].free = {} => calls[2].undo = held[2])
      /\ Rung(calls[3], held[3], held[4]) /\ (calls[3].free = {} => calls[3].undo = held[3])
      /\ Rung(calls[4], held[4], held[5]) /\ (calls[4].free = {} => calls[4].undo = held[4])
      /\ Rung(calls[5], held[5], held[6]) /\ (calls[5].free = {} => calls[5].undo = held[5])
      /\ Rung(calls[6], held[6], held[7]) /\ (calls[6].free = {} => calls[6].undo = held[6])
  BY <1>1, <1>3 DEF Rung, O!Take, O!Use, O!Free
<1>5. \A r \in 1 .. 6 : r = 1 \/ r = 2 \/ r = 3 \/ r = 4 \/ r = 5 \/ r = 6
  OBVIOUS
<1>6. ASSUME NEW r \in 1 .. 6
      PROVE  Rung(calls[r], held[r], held[r + 1]) /\ (calls[r].free = {} => calls[r].undo = held[r])
  BY <1>4, <1>5
<1>7. held[1] = {} /\ O!EnumerateAdapters.closes = held[7]
  BY <1>1, <1>2
<1>8. Holds(O!EnumerateAdapters, held)
  BY <1>1, <1>2, <1>6, <1>7 DEF Holds
<1>9. Exact(O!EnumerateAdapters, held)
  BY <1>1, <1>2, <1>6, <1>7 DEF Exact
<1>10. QED
  BY <1>8, <1>9

LEMMA CreateCpuPresentHolds ==
  \E held : Holds(O!CreateCpuPresent, held) /\ Exact(O!CreateCpuPresent, held)
<1>1. PICK calls, held : /\ calls = O!CreateCpuPresent.calls
                         /\ held = << {}, {"dc"}, {"dc", "memoryDc"},
                                     {"dc", "memoryDc", "bitmap"} >>
  OBVIOUS
<1>2. Len(calls) = 3 /\ O!CreateCpuPresent.closes = {"bitmap", "memoryDc", "dc"}
  BY <1>1 DEF O!CreateCpuPresent, O!Ladder
<1>3. /\ calls[1] = O!Take("dc", {})
      /\ calls[2] = O!Take("memoryDc", {"dc"})
      /\ calls[3] = O!Take("bitmap", {"memoryDc", "dc"})
  BY <1>1 DEF O!CreateCpuPresent, O!Ladder
<1>4. /\ Rung(calls[1], held[1], held[2]) /\ (calls[1].free = {} => calls[1].undo = held[1])
      /\ Rung(calls[2], held[2], held[3]) /\ (calls[2].free = {} => calls[2].undo = held[2])
      /\ Rung(calls[3], held[3], held[4]) /\ (calls[3].free = {} => calls[3].undo = held[3])
  BY <1>1, <1>3 DEF Rung, O!Take, O!Use, O!Free
<1>5. \A r \in 1 .. 3 : r = 1 \/ r = 2 \/ r = 3
  OBVIOUS
<1>6. ASSUME NEW r \in 1 .. 3
      PROVE  Rung(calls[r], held[r], held[r + 1]) /\ (calls[r].free = {} => calls[r].undo = held[r])
  BY <1>4, <1>5
<1>7. held[1] = {} /\ O!CreateCpuPresent.closes = held[4]
  BY <1>1, <1>2
<1>8. Holds(O!CreateCpuPresent, held)
  BY <1>1, <1>2, <1>6, <1>7 DEF Holds
<1>9. Exact(O!CreateCpuPresent, held)
  BY <1>1, <1>2, <1>6, <1>7 DEF Exact
<1>10. QED
  BY <1>8, <1>9

LEMMA GetClipboardTextHolds ==
  \E held : Holds(O!GetClipboardText, held) /\ Exact(O!GetClipboardText, held)
<1>1. PICK calls, held : /\ calls = O!GetClipboardText.calls
                         /\ held = << {}, {"clipboard"}, {"clipboard"}, {"clipboard", "lock"},
                                     {"clipboard", "lock"}, {} >>
  OBVIOUS
<1>2. Len(calls) = 5 /\ O!GetClipboardText.closes = {}
  BY <1>1 DEF O!GetClipboardText, O!Ladder
<1>3. /\ calls[1] = O!Take("clipboard", {})
      /\ calls[2] = O!Use({"clipboard"})
      /\ calls[3] = O!Take("lock", {"clipboard"})
      /\ calls[4] = O!Use({"lock", "clipboard"})
      /\ calls[5] = O!Free({"lock", "clipboard"})
  BY <1>1 DEF O!GetClipboardText, O!Ladder
<1>4. /\ Rung(calls[1], held[1], held[2]) /\ (calls[1].free = {} => calls[1].undo = held[1])
      /\ Rung(calls[2], held[2], held[3]) /\ (calls[2].free = {} => calls[2].undo = held[2])
      /\ Rung(calls[3], held[3], held[4]) /\ (calls[3].free = {} => calls[3].undo = held[3])
      /\ Rung(calls[4], held[4], held[5]) /\ (calls[4].free = {} => calls[4].undo = held[4])
      /\ Rung(calls[5], held[5], held[6]) /\ (calls[5].free = {} => calls[5].undo = held[5])
  BY <1>1, <1>3 DEF Rung, O!Take, O!Use, O!Free
<1>5. \A r \in 1 .. 5 : r = 1 \/ r = 2 \/ r = 3 \/ r = 4 \/ r = 5
  OBVIOUS
<1>6. ASSUME NEW r \in 1 .. 5
      PROVE  Rung(calls[r], held[r], held[r + 1]) /\ (calls[r].free = {} => calls[r].undo = held[r])
  BY <1>4, <1>5
<1>7. held[1] = {} /\ O!GetClipboardText.closes = held[6]
  BY <1>1, <1>2
<1>8. Holds(O!GetClipboardText, held)
  BY <1>1, <1>2, <1>6, <1>7 DEF Holds
<1>9. Exact(O!GetClipboardText, held)
  BY <1>1, <1>2, <1>6, <1>7 DEF Exact
<1>10. QED
  BY <1>8, <1>9

LEMMA ThreadCreateHolds == \E held : Holds(O!ThreadCreate, held)
<1>1. PICK calls, held : /\ calls = O!ThreadCreate.calls
                         /\ held = << {}, {"start"}, {"start", "thread"}, {"thread"} >>
  OBVIOUS
<1>2. Len(calls) = 3 /\ O!ThreadCreate.closes = {"thread"}
  BY <1>1 DEF O!ThreadCreate, O!Ladder
<1>3. /\ calls[1] = O!Take("start", {})
      /\ calls[2] = O!Take("thread", {})
      /\ calls[3] = O!Free({"start"})
  BY <1>1 DEF O!ThreadCreate, O!Ladder
<1>4. /\ Rung(calls[1], held[1], held[2])
      /\ Rung(calls[2], held[2], held[3])
      /\ Rung(calls[3], held[3], held[4])
  BY <1>1, <1>3 DEF Rung, O!Take, O!Use, O!Free
<1>5. \A r \in 1 .. 3 : r = 1 \/ r = 2 \/ r = 3
  OBVIOUS
<1>6. ASSUME NEW r \in 1 .. 3
      PROVE  Rung(calls[r], held[r], held[r + 1])
  BY <1>4, <1>5
<1>7. held[1] = {} /\ O!ThreadCreate.closes \subseteq held[4]
  BY <1>1, <1>2
<1>8. Holds(O!ThreadCreate, held)
  BY <1>1, <1>2, <1>6, <1>7 DEF Holds
<1>9. QED
  BY <1>8

LEMMA CreateFiberHolds == \E held : Holds(O!CreateFiber, held)
<1>1. PICK calls, held : /\ calls = O!CreateFiber.calls
                         /\ held = << {}, {"start"}, {"start", "fiber"}, {"fiber"} >>
  OBVIOUS
<1>2. Len(calls) = 3 /\ O!CreateFiber.closes = {"fiber"}
  BY <1>1 DEF O!CreateFiber, O!Ladder
<1>3. /\ calls[1] = O!Take("start", {})
      /\ calls[2] = O!Take("fiber", {})
      /\ calls[3] = O!Free({"start"})
  BY <1>1 DEF O!CreateFiber, O!Ladder
<1>4. /\ Rung(calls[1], held[1], held[2])
      /\ Rung(calls[2], held[2], held[3])
      /\ Rung(calls[3], held[3], held[4])
  BY <1>1, <1>3 DEF Rung, O!Take, O!Use, O!Free
<1>5. \A r \in 1 .. 3 : r = 1 \/ r = 2 \/ r = 3
  OBVIOUS
<1>6. ASSUME NEW r \in 1 .. 3
      PROVE  Rung(calls[r], held[r], held[r + 1])
  BY <1>4, <1>5
<1>7. held[1] = {} /\ O!CreateFiber.closes \subseteq held[4]
  BY <1>1, <1>2
<1>8. Holds(O!CreateFiber, held)
  BY <1>1, <1>2, <1>6, <1>7 DEF Holds
<1>9. QED
  BY <1>8

LEMMA MapFileHolds == \E held : Holds(O!MapFile, held)
<1>1. PICK calls, held : /\ calls = O!MapFile.calls
                         /\ held = << {}, {"mapping"}, {"mapping", "view"} >>
  OBVIOUS
<1>2. Len(calls) = 2 /\ O!MapFile.closes = {"view"}
  BY <1>1 DEF O!MapFile, O!Ladder
<1>3. /\ calls[1] = O!Take("mapping", {})
      /\ calls[2] = O!Take("view", {"mapping"})
  BY <1>1 DEF O!MapFile, O!Ladder
<1>4. /\ Rung(calls[1], held[1], held[2])
      /\ Rung(calls[2], held[2], held[3])
  BY <1>1, <1>3 DEF Rung, O!Take, O!Use, O!Free
<1>5. \A r \in 1 .. 2 : r = 1 \/ r = 2
  OBVIOUS
<1>6. ASSUME NEW r \in 1 .. 2
      PROVE  Rung(calls[r], held[r], held[r + 1])
  BY <1>4, <1>5
<1>7. held[1] = {} /\ O!MapFile.closes \subseteq held[3]
  BY <1>1, <1>2
<1>8. Holds(O!MapFile, held)
  BY <1>1, <1>2, <1>6, <1>7 DEF Holds
<1>9. QED
  BY <1>8

LEMMA SetClipboardTextHolds == \E held : Holds(O!SetClipboardText, held)
<1>1. PICK calls, held : /\ calls = O!SetClipboardText.calls
                         /\ held = << {}, {"clipboard"}, {"clipboard"}, {"clipboard", "memory"},
                                     {"clipboard", "memory"}, {"clipboard", "memory"}, {} >>
  OBVIOUS
<1>2. Len(calls) = 6 /\ O!SetClipboardText.closes = {}
  BY <1>1 DEF O!SetClipboardText, O!Ladder
<1>3. /\ calls[1] = O!Take("clipboard", {})
      /\ calls[2] = O!Use({"clipboard"})
      /\ calls[3] = O!Take("memory", {"clipboard"})
      /\ calls[4] = O!Use({"clipboard"})
      /\ calls[5] = O!Use({"clipboard"})
      /\ calls[6] = O!Free({"memory", "clipboard"})
  BY <1>1 DEF O!SetClipboardText, O!Ladder
<1>4. /\ Rung(calls[1], held[1], held[2])
      /\ Rung(calls[2], held[2], held[3])
      /\ Rung(calls[3], held[3], held[4])
      /\ Rung(calls[4], held[4], held[5])
      /\ Rung(calls[5], held[5], held[6])
      /\ Rung(calls[6], held[6], held[7])
  BY <1>1, <1>3 DEF Rung, O!Take, O!Use, O!Free
<1>5. \A r \in 1 .. 6 : r = 1 \/ r = 2 \/ r = 3 \/ r = 4 \/ r = 5 \/ r = 6
  OBVIOUS
<1>6. ASSUME NEW r \in 1 .. 6
      PROVE  Rung(calls[r], held[r], held[r + 1])
  BY <1>4, <1>5
<1>7. held[1] = {} /\ O!SetClipboardText.closes \subseteq held[7]
  BY <1>1, <1>2
<1>8. Holds(O!SetClipboardText, held)
  BY <1>1, <1>2, <1>6, <1>7 DEF Holds
<1>9. QED
  BY <1>8

LEMMA ReadTextHolds == \E held : Holds(O!ReadText, held)
<1>1. PICK calls, held : /\ calls = O!ReadText.calls
                         /\ held = << {}, {"file"}, {"file"}, {"file"}, {} >>
  OBVIOUS
<1>2. Len(calls) = 4 /\ O!ReadText.closes = {}
  BY <1>1 DEF O!ReadText, O!Ladder
<1>3. /\ calls[1] = O!Take("file", {})
      /\ calls[2] = O!Use({})
      /\ calls[3] = O!Use({})
      /\ calls[4] = O!Free({"file"})
  BY <1>1 DEF O!ReadText, O!Ladder
<1>4. /\ Rung(calls[1], held[1], held[2])
      /\ Rung(calls[2], held[2], held[3])
      /\ Rung(calls[3], held[3], held[4])
      /\ Rung(calls[4], held[4], held[5])
  BY <1>1, <1>3 DEF Rung, O!Take, O!Use, O!Free
<1>5. \A r \in 1 .. 4 : r = 1 \/ r = 2 \/ r = 3 \/ r = 4
  OBVIOUS
<1>6. ASSUME NEW r \in 1 .. 4
      PROVE  Rung(calls[r], held[r], held[r + 1])
  BY <1>4, <1>5
<1>7. held[1] = {} /\ O!ReadText.closes \subseteq held[5]
  BY <1>1, <1>2
<1>8. Holds(O!ReadText, held)
  BY <1>1, <1>2, <1>6, <1>7 DEF Holds
<1>9. QED
  BY <1>8

\* A ladder that gives back nothing on the way holds what the calls so far took.
LEMMA OnlyTakes ==
  ASSUME NEW l, Len(l.calls) \in Nat,
         \A r \in 1 .. Len(l.calls) : l.calls[r].undo = {} /\ l.calls[r].free = {},
         \A x \in l.closes : \E r \in 1 .. Len(l.calls) : x \in l.calls[r].take
  PROVE  \E held : Holds(l, held)
<1>1. PICK n, c : n = Len(l.calls) /\ c = l.calls /\ n \in Nat
  OBVIOUS
<1> DEFINE taken(q) == UNION {c[p].take : p \in 1 .. q}
<1>2. PICK held : held = [r \in 1 .. n + 1 |-> taken(r - 1)]
  OBVIOUS
<1>3. ASSUME NEW r \in 0 .. n PROVE held[r + 1] = taken(r)
  <2> HIDE DEF taken
  <2>1. r + 1 \in 1 .. n + 1 /\ (r + 1) - 1 = r
    BY <1>1
  <2>2. QED
    BY <1>2, <2>1
<1>4. ASSUME NEW r \in 1 .. n PROVE Rung(c[r], held[r], held[r + 1])
  <2>1. 1 .. r = (1 .. r - 1) \cup {r}
    OBVIOUS
  <2>2. taken(r) = taken(r - 1) \cup c[r].take
    BY <2>1
  <2>3. held[r + 1] = taken(r) /\ held[r] = taken(r - 1)
    <3> HIDE DEF taken
    <3>1. r \in 0 .. n /\ r - 1 \in 0 .. n /\ (r - 1) + 1 = r
      BY <1>1
    <3>2. QED
      BY <1>3, <3>1
  <2>4. held[r + 1] = held[r] \cup c[r].take
    BY <2>2, <2>3
  <2>5. QED
    BY <1>1, <2>4 DEF Rung
<1>5. held[1] = {} /\ l.closes \subseteq held[n + 1]
  <2>1. taken(0) = {}
    OBVIOUS
  <2>2. l.closes \subseteq taken(n)
    BY <1>1
  <2>3. held[0 + 1] = taken(0) /\ held[n + 1] = taken(n)
    <3> HIDE DEF taken
    <3>1. 0 \in 0 .. n /\ n \in 0 .. n
      BY <1>1
    <3>2. QED
      BY <1>3, <3>1
  <2>4. QED
    BY <2>1, <2>2, <2>3
<1>6. QED
  BY <1>1, <1>4, <1>5 DEF Holds

LEMMA CreateVulkanSurfaceHolds == \E held : Holds(O!CreateVulkanSurface, held)
<1>1. PICK calls : calls = O!CreateVulkanSurface.calls
  OBVIOUS
<1>2. Len(calls) = 4
  BY <1>1 DEF O!CreateVulkanSurface, O!Ladder
<1>3. \A r \in 1 .. 4 : calls[r].undo = {} /\ calls[r].free = {}
  BY <1>1 DEF O!CreateVulkanSurface, O!Ladder, O!Take, O!Use
<1>4. \A x \in O!CreateVulkanSurface.closes : \E r \in 1 .. 4 : x \in calls[r].take
  BY <1>1 DEF O!CreateVulkanSurface, O!Ladder, O!Take, O!Use
<1>5. /\ Len(O!CreateVulkanSurface.calls) \in Nat
      /\ \A r \in 1 .. Len(O!CreateVulkanSurface.calls) :
           O!CreateVulkanSurface.calls[r].undo = {} /\ O!CreateVulkanSurface.calls[r].free = {}
  BY <1>1, <1>2, <1>3
<1>6. \A x \in O!CreateVulkanSurface.closes :
        \E r \in 1 .. Len(O!CreateVulkanSurface.calls) : x \in O!CreateVulkanSurface.calls[r].take
  BY <1>1, <1>2, <1>4
<1>7. QED
  BY <1>5, <1>6, OnlyTakes

LEMMA DestroyVulkanSurfaceHolds == \E held : Holds(O!DestroyVulkanSurface, held)
<1>1. PICK calls : calls = O!DestroyVulkanSurface.calls
  OBVIOUS
<1>2. Len(calls) = 4
  BY <1>1 DEF O!DestroyVulkanSurface, O!Ladder
<1>3. \A r \in 1 .. 4 : calls[r].undo = {} /\ calls[r].free = {}
  BY <1>1 DEF O!DestroyVulkanSurface, O!Ladder, O!Take, O!Use
<1>4. \A x \in O!DestroyVulkanSurface.closes : \E r \in 1 .. 4 : x \in calls[r].take
  BY <1>1 DEF O!DestroyVulkanSurface, O!Ladder, O!Take, O!Use
<1>5. /\ Len(O!DestroyVulkanSurface.calls) \in Nat
      /\ \A r \in 1 .. Len(O!DestroyVulkanSurface.calls) :
           O!DestroyVulkanSurface.calls[r].undo = {} /\ O!DestroyVulkanSurface.calls[r].free = {}
  BY <1>1, <1>2, <1>3
<1>6. \A x \in O!DestroyVulkanSurface.closes :
        \E r \in 1 .. Len(O!DestroyVulkanSurface.calls) : x \in O!DestroyVulkanSurface.calls[r].take
  BY <1>1, <1>2, <1>4
<1>7. QED
  BY <1>5, <1>6, OnlyTakes

LEMMA WindowCreateHolds == \E held : Holds(O!WindowCreate, held)
<1>1. PICK calls : calls = O!WindowCreate.calls
  OBVIOUS
<1>2. Len(calls) = 2
  BY <1>1 DEF O!WindowCreate, O!Ladder
<1>3. \A r \in 1 .. 2 : calls[r].undo = {} /\ calls[r].free = {}
  BY <1>1 DEF O!WindowCreate, O!Ladder, O!Take, O!Use
<1>4. \A x \in O!WindowCreate.closes : \E r \in 1 .. 2 : x \in calls[r].take
  BY <1>1 DEF O!WindowCreate, O!Ladder, O!Take, O!Use
<1>5. /\ Len(O!WindowCreate.calls) \in Nat
      /\ \A r \in 1 .. Len(O!WindowCreate.calls) :
           O!WindowCreate.calls[r].undo = {} /\ O!WindowCreate.calls[r].free = {}
  BY <1>1, <1>2, <1>3
<1>6. \A x \in O!WindowCreate.closes :
        \E r \in 1 .. Len(O!WindowCreate.calls) : x \in O!WindowCreate.calls[r].take
  BY <1>1, <1>2, <1>4
<1>7. QED
  BY <1>5, <1>6, OnlyTakes

LEMMA VersionedBufferNewHolds == \E held : Holds(O!VersionedBufferNew, held)
<1>1. PICK calls : calls = O!VersionedBufferNew.calls
  OBVIOUS
<1>2. Len(calls) = 3
  BY <1>1 DEF O!VersionedBufferNew, O!Ladder
<1>3. \A r \in 1 .. 3 : calls[r].undo = {} /\ calls[r].free = {}
  BY <1>1 DEF O!VersionedBufferNew, O!Ladder, O!Take, O!Use
<1>4. \A x \in O!VersionedBufferNew.closes : \E r \in 1 .. 3 : x \in calls[r].take
  BY <1>1 DEF O!VersionedBufferNew, O!Ladder, O!Take, O!Use
<1>5. /\ Len(O!VersionedBufferNew.calls) \in Nat
      /\ \A r \in 1 .. Len(O!VersionedBufferNew.calls) :
           O!VersionedBufferNew.calls[r].undo = {} /\ O!VersionedBufferNew.calls[r].free = {}
  BY <1>1, <1>2, <1>3
<1>6. \A x \in O!VersionedBufferNew.closes :
        \E r \in 1 .. Len(O!VersionedBufferNew.calls) : x \in O!VersionedBufferNew.calls[r].take
  BY <1>1, <1>2, <1>4
<1>7. QED
  BY <1>5, <1>6, OnlyTakes

LEMMA VkCtxInitHolds == \E held : Holds(O!VkCtxInit, held)
<1>1. PICK calls : calls = O!VkCtxInit.calls
  OBVIOUS
<1>2. Len(calls) = 24
  BY <1>1 DEF O!VkCtxInit, O!Ladder
<1>3. \A r \in 1 .. 24 : calls[r].undo = {} /\ calls[r].free = {}
  BY <1>1 DEF O!VkCtxInit, O!Ladder, O!Take, O!Use
<1>4. \A x \in O!VkCtxInit.closes : \E r \in 1 .. 24 : x \in calls[r].take
  BY <1>1 DEF O!VkCtxInit, O!Ladder, O!Take, O!Use
<1>5. /\ Len(O!VkCtxInit.calls) \in Nat
      /\ \A r \in 1 .. Len(O!VkCtxInit.calls) :
           O!VkCtxInit.calls[r].undo = {} /\ O!VkCtxInit.calls[r].free = {}
  BY <1>1, <1>2, <1>3
<1>6. \A x \in O!VkCtxInit.closes :
        \E r \in 1 .. Len(O!VkCtxInit.calls) : x \in O!VkCtxInit.calls[r].take
  BY <1>1, <1>2, <1>4
<1>7. QED
  BY <1>5, <1>6, OnlyTakes

\* The ladder climbed so far holds what its witness says.
LadderAt(held) ==
  /\ Holds(ladder, held) /\ (ladder \in O!Clean => Exact(ladder, held))
  /\ fate = "climbing" => have = held[rung]
  /\ fate = "done" => have = held[Len(ladder.calls) + 1]
LadderInv ==
  /\ fate \in {"climbing", "failed", "done", "closed"}
  /\ rung \in Nat \ {0} /\ unheld = FALSE
  /\ fate = "climbing" => rung <= Len(ladder.calls) + 1
  /\ ladder \in O!Clean /\ fate \in {"failed", "closed"} => have = {}
  /\ \E held : LadderAt(held)

LEMMA EveryLadder ==
  ASSUME NEW l \in O!Clean \cup O!Leaky
  PROVE  \E held : Holds(l, held) /\ (l \in O!Clean => Exact(l, held))
<1>1. CASE l \in O!Clean
  BY <1>1, EnumerateDevicesHolds, PlaySineHolds, EnumerateAdaptersHolds,
     CreateCpuPresentHolds, GetClipboardTextHolds DEF O!Clean
<1>2. CASE l \notin O!Clean
  BY <1>2, CreateVulkanSurfaceHolds, DestroyVulkanSurfaceHolds, WindowCreateHolds,
     ThreadCreateHolds, CreateFiberHolds, MapFileHolds, SetClipboardTextHolds, ReadTextHolds,
     VersionedBufferNewHolds, VkCtxInitHolds DEF O!Leaky
<1>3. QED
  BY <1>1, <1>2

LEMMA LadderInit == O!Init => LadderInv
<1> SUFFICES ASSUME O!Init PROVE LadderInv
  OBVIOUS
<1>1. /\ ladder \in O!Clean \cup O!Leaky
      /\ rung = 1 /\ have = {} /\ fate = "climbing" /\ unheld = FALSE
  BY DEF O!Init
<1>2. PICK held : Holds(ladder, held) /\ (ladder \in O!Clean => Exact(ladder, held))
  BY <1>1, EveryLadder
<1>3. Len(ladder.calls) \in Nat /\ held[1] = {}
  BY <1>2 DEF Holds
<1>4. LadderAt(held) /\ rung <= Len(ladder.calls) + 1
  BY <1>1, <1>2, <1>3 DEF LadderAt
<1>5. QED
  BY <1>1, <1>4 DEF LadderInv

LEMMA LadderStep == LadderInv /\ [O!Next]_(O!osvars) => LadderInv'
<1> SUFFICES ASSUME LadderInv, [O!Next]_(O!osvars) PROVE LadderInv'
  OBVIOUS
<1>1. PICK held, n : LadderAt(held) /\ n = Len(ladder.calls)
  BY DEF LadderInv
<1>2. /\ n \in Nat /\ held[1] = {}
      /\ \A r \in 1 .. n : Rung(ladder.calls[r], held[r], held[r + 1])
      /\ ladder.closes \subseteq held[n + 1]
      /\ rung \in Nat \ {0} /\ unheld = FALSE
  BY <1>1 DEF LadderAt, Holds, LadderInv
<1>3. ladder \in O!Clean =>
         /\ \A r \in 1 .. n : ladder.calls[r].free = {} => ladder.calls[r].undo = held[r]
         /\ ladder.closes = held[n + 1]
  BY <1>1 DEF LadderAt, Exact
<1>4. ASSUME fate = "climbing", rung <= n, ladder' = ladder
      PROVE  /\ O!Call = ladder.calls[rung] /\ rung \in 1 .. n /\ have = held[rung]
             /\ Rung(O!Call, held[rung], held[rung + 1])
             /\ rung + 1 \in Nat \ {0} /\ rung + 1 <= n + 1
  BY <1>1, <1>2, <1>4 DEF O!Call, LadderAt
<1>5. CASE O!Climb
  <2>1. have' = held[rung + 1]
    BY <1>1, <1>4, <1>5 DEF O!Climb, Rung
  <2>2. LadderAt(held)'
    BY <1>1, <1>5, <2>1 DEF O!Climb, LadderAt
  <2>3. QED
    BY <1>1, <1>2, <1>4, <1>5, <2>2 DEF O!Climb, LadderInv
<1>6. CASE O!Release
  <2>1. have' = held[rung + 1] /\ unheld' = FALSE
    BY <1>1, <1>2, <1>4, <1>6 DEF O!Release, O!GiveBack, Rung
  <2>2. LadderAt(held)'
    BY <1>1, <1>6, <2>1 DEF O!Release, LadderAt
  <2>3. QED
    BY <1>1, <1>2, <1>4, <1>6, <2>1, <2>2 DEF O!Release, LadderInv
<1>7. CASE O!Fall
  <2>1. /\ unheld' = FALSE /\ ladder' = ladder /\ fate' = "failed" /\ rung' = rung
        /\ have' = have \ O!Call.undo
    BY <1>1, <1>2, <1>4, <1>7 DEF O!Fall, O!GiveBack, Rung
  <2>2. ladder \in O!Clean => have' = {}
    BY <1>1, <1>3, <1>4, <1>7, <2>1 DEF O!Fall
  <2>3. LadderAt(held)'
    BY <1>1, <2>1 DEF LadderAt
  <2>4. QED
    BY <1>2, <2>1, <2>2, <2>3 DEF LadderInv
<1>8. CASE O!Arrive
  <2>1. /\ fate = "climbing" /\ rung = n + 1 /\ fate' = "done" /\ ladder' = ladder
        /\ have' = have /\ rung' = rung /\ unheld' = unheld
    BY <1>1, <1>2, <1>8 DEF O!Arrive, LadderInv
  <2>2. LadderAt(held)'
    BY <1>1, <2>1 DEF LadderAt
  <2>3. QED
    BY <1>2, <2>1, <2>2 DEF LadderInv
<1>9. CASE O!Close
  <2>1. /\ fate' = "closed" /\ ladder' = ladder /\ rung' = rung /\ unheld' = FALSE
        /\ have = held[n + 1] /\ have' = have \ ladder.closes
    BY <1>1, <1>2, <1>9 DEF O!Close, O!GiveBack, LadderAt
  <2>2. ladder \in O!Clean => have' = {}
    BY <1>3, <2>1
  <2>3. LadderAt(held)'
    BY <1>1, <2>1 DEF LadderAt
  <2>4. QED
    BY <1>2, <2>1, <2>2, <2>3 DEF LadderInv
<1>10. CASE UNCHANGED O!osvars
  BY <1>10 DEF O!osvars, LadderInv, LadderAt
<1>11. QED
  BY <1>5, <1>6, <1>7, <1>8, <1>9, <1>10 DEF O!Next

LEMMA LaddersSound == LadderInv => O!AcquiredIsReleased
BY DEF LadderInv, LadderAt, Exact, O!AcquiredIsReleased

(***************************************************************************)
(* For any number of failures, each wrong call of a frame of the Vulkan    *)
(* backend has the failure before it that leads to it: what the processor  *)
(* uses is destroyed only after a wait for the device failed, its commands *)
(* are begun anew only after a wait for the fence or a reset of it did,    *)
(* and a frame hangs only after one that failed unsubmitted; only vertices *)
(* and pixels are overwritten without any (vk_passes.rs).  Every branch of *)
(* the functions of Prm gives back only what it holds, and those that      *)
(* clean up give back everything when they fail or are closed.             *)
(***************************************************************************)
THEOREM ExternalCallsStaySound == Spec => []ExternalCallsSound
<1> DEFINE Inv == (which = "frames" => FramesInv) /\ (which = "ladders" => LadderInv)
<1>1. Init => Inv
  BY FramesInit, LadderInit DEF Init
<1>2. Inv /\ [Next]_everything => Inv'
  <2> SUFFICES ASSUME Inv, [Next]_everything PROVE Inv'
    OBVIOUS
  <2>1. which' = which /\ [F!Next]_frames /\ [O!Next]_ladders
    <3>1. CASE UNCHANGED everything
      BY <3>1 DEF everything
    <3>2. CASE Next
      BY <3>2 DEF Next
    <3>3. QED
      BY <3>1, <3>2
  <2>2. [F!Next]_(F!vkvars) /\ [O!Next]_(O!osvars)
    BY <2>1 DEF frames, F!vkvars, ladders, O!osvars
  <2>3. QED
    BY <2>1, <2>2, FramesStep, LadderStep
<1>3. Inv => ExternalCallsSound
  BY FramesAreSound, LaddersSound DEF ExternalCallsSound
<1>4. QED
  BY <1>1, <1>2, <1>3, PTL DEF Spec

-----------------------------------------------------------------------------
(* The column kernels *)

\* A function on 1 .. n has length n.
LEMMA ColumnLength ==
  ASSUME NEW n \in Nat, NEW f, f = [j \in 1 .. n |-> f[j]]
  PROVE  Len(f) = n /\ DOMAIN f = 1 .. n
<1>1. PICK R : R = {f[j] : j \in 1 .. n}
  OBVIOUS
<1>2. f \in [1 .. n -> R]
  BY <1>1
<1>3. f \in Seq(R)
  BY <1>2, SeqDef
<1>4. QED
  BY <1>2, <1>3, LenProperties

\* out is a column of n elements.
Column(f, n) == f = [j \in 1 .. n |-> f[j]]

\* Shortest is the least of the lengths a kernel looks at.
LEMMA ShortestIs ==
  ASSUME lenA \in Nat, lenB \in Nat, Len(out) \in Nat
  PROVE  /\ K!Shortest \in Nat /\ K!Shortest <= Len(out)
         /\ K!Shortest \in {lenA, lenB, Len(out)}
         /\ \A m \in {lenA, lenB, Len(out)} : K!Shortest <= m
<1>1. \E n \in {lenA, lenB, Len(out)} : \A m \in {lenA, lenB, Len(out)} : n <= m
  OBVIOUS
<1>2. QED
  BY <1>1 DEF K!Shortest

\* What is before the place of the next packet is filled, by whole packets of
\* four in the kernels without a tail.
KernelTypes ==
  /\ lenA \in Nat /\ lenB \in Nat
  /\ Len(out) \in Nat /\ Column(out, Len(out))
  /\ at \in Nat /\ at <= K!Shortest
FilledTo(n) ==
  \A j \in 1 .. Len(out) : out[j] = IF j <= n THEN K!Expected(j - 1) ELSE K!Untouched
KernelInv ==
  /\ KernelTypes
  /\ FilledTo(at)
  /\ kernel \in K!Unchecked => at % 4 = 0
  /\ returned # -1 =>
       /\ returned = K!Shortest
       /\ K!Shortest < at + (IF kernel \in K!Unchecked THEN 4 ELSE 1)

\* No kernel has written anything before its first packet.
LEMMA KernelInit == K!KernelsAssumption /\ K!Init => KernelInv
<1> SUFFICES ASSUME K!KernelsAssumption, K!Init PROVE KernelInv
  OBVIOUS
<1>1. PICK n \in Nat : out = [j \in 1 .. n |-> K!Untouched]
  BY DEF K!KernelsAssumption, K!Init
<1>2. lenA \in Nat /\ lenB \in Nat /\ at = 0 /\ returned = -1
  BY DEF K!KernelsAssumption, K!Init
<1>3. Column(out, n) /\ \A j \in 1 .. n : out[j] = K!Untouched
  BY <1>1 DEF Column
<1>4. Len(out) = n
  BY <1>3, ColumnLength DEF Column
<1>5. KernelTypes
  BY <1>2, <1>3, <1>4, ShortestIs DEF KernelTypes
<1>6. FilledTo(at)
  BY <1>2, <1>3, <1>4 DEF FilledTo
<1>7. QED
  BY <1>2, <1>5, <1>6 DEF KernelInv

\* A kernel writes a packet of w elements, or returns when no packet fits.
KernelStep ==
  /\ UNCHANGED <<kernel, lenA, lenB>>
  /\ \/ /\ returned' = K!Shortest /\ UNCHANGED <<at, out>>
        /\ K!Shortest < at + (IF kernel \in K!Unchecked THEN 4 ELSE 1)
     \/ \E w \in {1, 4, 8} :
          /\ at + w <= K!Shortest /\ at' = at + w /\ returned' = -1
          /\ kernel \in K!Unchecked => w # 1
          /\ Column(out', Len(out))
          /\ \A j \in 1 .. Len(out) :
               out'[j] = IF j - 1 \in at .. at + w - 1 THEN K!Expected(j - 1) ELSE out[j]

\* A packet fills its lanes and moves the place past them.
LEMMA StepKeepsKernel == KernelInv /\ KernelStep => KernelInv'
<1> SUFFICES ASSUME KernelInv, KernelStep PROVE KernelInv'
  OBVIOUS
<1>1. CASE returned' = K!Shortest /\ UNCHANGED <<kernel, lenA, lenB, at, out>>
           /\ K!Shortest < at + (IF kernel \in K!Unchecked THEN 4 ELSE 1)
  <2>1. K!Shortest' = K!Shortest
    BY <1>1 DEF K!Shortest
  <2>2. KernelTypes' /\ FilledTo(at)'
    BY <1>1, <2>1 DEF KernelInv, KernelTypes, FilledTo, K!Expected, Column
  <2>3. QED
    BY <1>1, <2>1, <2>2 DEF KernelInv
<1>2. CASE returned' # K!Shortest
           \/ ~UNCHANGED <<at, out>>
           \/ ~(K!Shortest < at + (IF kernel \in K!Unchecked THEN 4 ELSE 1))
  <2>1. PICK w \in {1, 4, 8} :
          /\ at + w <= K!Shortest /\ at' = at + w /\ returned' = -1
          /\ kernel \in K!Unchecked => w # 1
          /\ Column(out', Len(out))
          /\ \A j \in 1 .. Len(out) :
               out'[j] = IF j - 1 \in at .. at + w - 1 THEN K!Expected(j - 1) ELSE out[j]
    BY <1>2 DEF KernelStep
  <2>2. UNCHANGED <<kernel, lenA, lenB>>
    BY DEF KernelStep
  <2>3. Len(out') = Len(out)
    BY <2>1, ColumnLength DEF KernelInv, KernelTypes, Column
  <2>4. K!Shortest' = K!Shortest /\ K!Shortest \in Nat
    BY <2>2, <2>3, ShortestIs DEF K!Shortest, KernelInv, KernelTypes
  <2>5. KernelTypes'
    BY <2>1, <2>2, <2>3, <2>4 DEF KernelInv, KernelTypes
  <2>6. \A j : K!Expected(j)' = K!Expected(j)
    BY <2>2 DEF K!Expected
  <2>7. FilledTo(at)'
    <3>1. \A j \in 1 .. Len(out) :
            out'[j] = IF j <= at + w THEN K!Expected(j - 1) ELSE K!Untouched
      BY <2>1 DEF KernelInv, KernelTypes, FilledTo
    <3>2. QED
      BY <2>1, <2>3, <2>6, <3>1 DEF FilledTo
  <2>8. kernel' \in K!Unchecked => at' % 4 = 0
    BY <2>1, <2>2 DEF KernelInv, KernelTypes
  <2>9. QED
    BY <2>1, <2>5, <2>7, <2>8 DEF KernelInv
<1>3. QED
  BY <1>1, <1>2 DEF KernelStep

\* What a kernel that returned has filled and counted.
LEMMA KernelAnswers == KernelInv => K!ColumnsFilled
<1> SUFFICES ASSUME KernelInv, returned # -1 PROVE K!ColumnsFilled
  BY DEF K!ColumnsFilled
<1>1. returned = K!Shortest /\ K!Shortest \in Nat
  BY ShortestIs DEF KernelInv, KernelTypes
<1>2. at = IF kernel \in K!Unchecked THEN 4 * (returned \div 4) ELSE returned
  BY <1>1 DEF KernelInv, KernelTypes
<1>3. QED
  BY <1>1, <1>2 DEF KernelInv, FilledTo, K!ColumnsFilled

\* The angle is reduced to a quarter and a rest, and the table has a period of
\* sixteen and repeats its quarters.
LEMMA SixteenthParts ==
  ASSUME NEW x \in Int
  PROVE  \E q \in Int, c \in 0 .. 3, r \in -2 .. 2 :
           x = 16 * q + 4 * c + r /\ K!Quarter(x) = 4 * q + c
<1>1. K!Quarter(x) \in Int /\ x - 4 * K!Quarter(x) \in -2 .. 2
  BY DEF K!Quarter
<1>2. PICK k \in Int, r \in -2 .. 2 : k = K!Quarter(x) /\ x = 4 * k + r
  BY <1>1
<1>3. PICK q \in Int, c \in 0 .. 3 : k = 4 * q + c
  <2>1. k \div 4 \in Int /\ k % 4 \in 0 .. 3 /\ k = 4 * (k \div 4) + (k % 4)
    OBVIOUS
  <2>2. QED
    BY <2>1
<1>4. QED
  BY <1>2, <1>3

\* The sine of an entry of the table.
LEMMA SineOf ==
  ASSUME NEW q \in Int, NEW m \in 0 .. 15, NEW x, x = 16 * q + m
  PROVE  K!Sine(x) = K!SineTable[m + 1]
<1>1. x % 16 = m
  BY SMT
<1>2. QED
  BY <1>1 DEF K!Sine

\* The entries of the table of sines.
LEMMA SineTableIs ==
  /\ K!SineTable[1] = 0 /\ K!SineTable[2] = 1 /\ K!SineTable[3] = 2 /\ K!SineTable[4] = 3
  /\ K!SineTable[5] = 4 /\ K!SineTable[6] = 3 /\ K!SineTable[7] = 2 /\ K!SineTable[8] = 1
  /\ K!SineTable[9] = 0 /\ K!SineTable[10] = -1 /\ K!SineTable[11] = -2
  /\ K!SineTable[12] = -3 /\ K!SineTable[13] = -4 /\ K!SineTable[14] = -3
  /\ K!SineTable[15] = -2 /\ K!SineTable[16] = -1
BY DEF K!SineTable

\* The sine of what is up to two steps outside of a turn.
LEMMA SinesOf ==
  ASSUME NEW q \in Int, NEW n \in -2 .. 18, NEW x, x = 16 * q + n
  PROVE  K!Sine(x) =
           CASE n = -2 -> -2 [] n = -1 -> -1 [] n = 0 -> 0 [] n = 1 -> 1 [] n = 2 -> 2
             [] n = 3 -> 3 [] n = 4 -> 4 [] n = 5 -> 3 [] n = 6 -> 2 [] n = 7 -> 1
             [] n = 8 -> 0 [] n = 9 -> -1 [] n = 10 -> -2 [] n = 11 -> -3 [] n = 12 -> -4
             [] n = 13 -> -3 [] n = 14 -> -2 [] n = 15 -> -1 [] n = 16 -> 0
             [] n = 17 -> 1 [] n = 18 -> 2
<1>1. CASE n \in 0 .. 15
  <2>1. K!Sine(x) = K!SineTable[n + 1]
    BY <1>1, SineOf
  <2>2. QED
    BY <1>1, <2>1, SineTableIs
<1>2. CASE n \in {-2, -1}
  <2>1. x = 16 * (q - 1) + (16 + n) /\ q - 1 \in Int /\ 16 + n \in 0 .. 15
    BY <1>2
  <2>2. K!Sine(x) = K!SineTable[16 + n + 1]
    BY <2>1, SineOf
  <2>3. QED
    BY <1>2, <2>2, SineTableIs
<1>3. CASE n \in 16 .. 18
  <2>1. x = 16 * (q + 1) + (n - 16) /\ q + 1 \in Int /\ n - 16 \in 0 .. 15
    BY <1>3
  <2>2. K!Sine(x) = K!SineTable[n - 16 + 1]
    BY <2>1, SineOf
  <2>3. QED
    BY <1>3, <2>2, SineTableIs
<1>4. QED
  BY <1>1, <1>2, <1>3

\* sincos_scalar_precise gives the sine, and the sine a quarter further.
LEMMA SinCosIs ==
  ASSUME NEW x \in Int
  PROVE  K!SinCos(x) = <<K!Sine(x), K!Sine(x + 4)>>
<1>1. PICK q \in Int, c \in 0 .. 3, r \in -2 .. 2 :
        x = 16 * q + 4 * c + r /\ K!Quarter(x) = 4 * q + c
  BY SixteenthParts
<1>2. K!Quarter(x) % 4 = c /\ x - 4 * K!Quarter(x) = r /\ x - 4 * K!Quarter(x) + 4 = r + 4
  BY <1>1
<1>3. PICK s, t : s = K!Sine(r) /\ t = K!Sine(r + 4)
  OBVIOUS
<1>4. /\ s = r
      /\ t = CASE r = -2 -> 2 [] r = -1 -> 3 [] r = 0 -> 4 [] r = 1 -> 3 [] r = 2 -> 2
  <2>1. PICK z \in Int, n \in -2 .. 18, m \in -2 .. 18 : z = 0 /\ n = r /\ m = r + 4
    OBVIOUS
  <2>2. n = 16 * z + n /\ m = 16 * z + m
    BY <2>1
  <2>3. K!Sine(n) =
          CASE n = -2 -> -2 [] n = -1 -> -1 [] n = 0 -> 0 [] n = 1 -> 1 [] n = 2 -> 2
            [] OTHER -> K!Sine(n)
    BY <2>2, SinesOf
  <2>4. K!Sine(m) =
          CASE m = 2 -> 2 [] m = 3 -> 3 [] m = 4 -> 4 [] m = 5 -> 3 [] m = 6 -> 2
            [] OTHER -> K!Sine(m)
    BY <2>2, SinesOf
  <2>5. QED
    BY <1>3, <2>1, <2>3, <2>4
<1>5. K!SinCos(x) = CASE c = 0 -> <<s, t>> [] c = 1 -> <<t, -s>>
                      [] c = 2 -> <<-s, -t>> [] OTHER -> <<-t, s>>
  BY <1>2, <1>3 DEF K!SinCos
<1>6. PICK n \in -2 .. 14 : n = 4 * c + r /\ x = 16 * q + n /\ x + 4 = 16 * q + (n + 4)
  BY <1>1
<1>7. PICK u, v : u = K!Sine(x) /\ v = K!Sine(x + 4)
  OBVIOUS
<1>8. u = CASE c = 0 -> s [] c = 1 -> t [] c = 2 -> -s [] OTHER -> -t
  BY <1>4, <1>6, <1>7, SinesOf
<1>9. v = CASE c = 0 -> t [] c = 1 -> -s [] c = 2 -> -t [] OTHER -> s
  BY <1>4, <1>6, <1>7, SinesOf
<1>10. QED
  BY <1>5, <1>6, <1>7, <1>8, <1>9

\* The values of the columns are integers.
LEMMA ColumnValues ==
  ASSUME NEW c \in K!Axes, NEW j \in Int
  PROVE  K!A(c, j) \in Int /\ K!B(c, j) \in Int /\ K!Cam(c) \in Int
BY DEF K!Axes, K!A, K!B, K!Cam

\* The element that a kernel computes is the one it should.
LEMMA ElementsAre ==
  ASSUME NEW j \in Nat
  PROVE  /\ kernel \in {"add_batch", "add_soa", "add_soa_unchecked", "add_view",
                       "generic_add_soa"} => K!AddElem(j) = K!Expected(j)
         /\ kernel \in {"dot_soa", "dot_soa_unchecked", "generic_dot_soa"} =>
              K!DotElem(j) = K!Expected(j)
         /\ kernel \in {"fma_view", "fma_unchecked", "generic_fma_view"} =>
              K!FmaElem(j) = K!Expected(j)
         /\ kernel \in {"lwc", "lwc_view"} => K!LwcElem(j) = K!Expected(j)
         /\ kernel = "sin_view" => K!SinElem(j) = K!Expected(j)
         /\ kernel = "cos_view" => K!CosElem(j) = K!Expected(j)
         /\ kernel = "tan_view" => K!SinCos(K!Angle(j)) = K!Expected(j)
         /\ kernel = "exp_view" => K!ExpElem(j) = K!Expected(j)
<1>1. K!AddElem(j) = [c \in K!Axes |-> K!B(c, j) + K!A(c, j)]
  <2>1. \A c \in K!Axes : K!A(c, j) + K!B(c, j) = K!B(c, j) + K!A(c, j)
    BY ColumnValues
  <2>2. QED
    BY <2>1, Zenon DEF K!AddElem
<1>2. K!FmaElem(j) = [c \in K!Axes |-> K!A(c, j) + K!Dt * K!B(c, j)]
  <2>1. \A c \in K!Axes : K!A(c, j) + K!B(c, j) * K!Dt = K!A(c, j) + K!Dt * K!B(c, j)
    BY ColumnValues DEF K!Dt
  <2>2. QED
    BY <2>1, Zenon DEF K!FmaElem
<1>3. K!DotElem(j) = K!A("x", j) * K!B("x", j) + K!A("y", j) * K!B("y", j)
                       + K!A("z", j) * K!B("z", j)
  BY DEF K!DotElem, K!Sum3, K!Axes
<1>4. K!SinCos(K!Angle(j)) = <<K!Sine(K!Angle(j)), K!Sine(K!Angle(j) + 4)>>
  <2>1. K!Angle(j) \in Int
    BY DEF K!Angle
  <2>2. QED
    BY <2>1, SinCosIs
<1>5. QED
  BY <1>1, <1>2, <1>3, <1>4 DEF K!LwcElem, K!SinElem, K!CosElem, K!ExpElem, K!Expected

\* A sweep with the right elements writes the widest packet that fits.
LEMMA SweepIsStep ==
  ASSUME KernelInv, NEW widths \in SUBSET {1, 4, 8}, K!Sweep(widths, K!Expected),
         IF kernel \in K!Unchecked THEN 4 \in widths /\ 1 \notin widths ELSE 1 \in widths
  PROVE  KernelStep
<1>1. UNCHANGED <<kernel, lenA, lenB>> /\ returned = -1
  BY DEF K!Sweep
<1>2. at \in Nat /\ K!Shortest \in Nat
  BY ShortestIs DEF KernelInv, KernelTypes
<1>3. CASE K!Fits(widths) = {}
  <2>1. returned' = K!Shortest /\ UNCHANGED <<at, out>>
    BY <1>3 DEF K!Sweep
  <2>2. K!Shortest < at + (IF kernel \in K!Unchecked THEN 4 ELSE 1)
    BY <1>2, <1>3 DEF K!Fits
  <2>3. QED
    BY <1>1, <2>1, <2>2 DEF KernelStep
<1>4. CASE K!Fits(widths) # {}
  <2>1. PICK w : w = CHOOSE v \in K!Fits(widths) : \A u \in K!Fits(widths) : u <= v
    OBVIOUS
  <2>2. w \in K!Fits(widths)
    <3>1. \E v \in K!Fits(widths) : \A u \in K!Fits(widths) : u <= v
      <4>1. K!Fits(widths) \subseteq {1, 4, 8}
        BY DEF K!Fits
      <4>2. CASE 8 \in K!Fits(widths)
        BY <4>1, <4>2
      <4>3. CASE 8 \notin K!Fits(widths) /\ 4 \in K!Fits(widths)
        BY <4>1, <4>3
      <4>4. CASE 8 \notin K!Fits(widths) /\ 4 \notin K!Fits(widths)
        BY <1>4, <4>1, <4>4
      <4>5. QED
        BY <4>2, <4>3, <4>4
    <3>2. QED
      BY <2>1, <3>1
  <2>3. w \in {1, 4, 8} /\ at + w <= K!Shortest /\ (kernel \in K!Unchecked => w # 1)
    BY <2>2 DEF K!Fits
  <2>4. /\ at' = at + w /\ returned' = -1
        /\ out' = [j \in 1 .. Len(out) |->
                    IF j - 1 \in at .. at + w - 1 THEN K!Expected(j - 1) ELSE out[j]]
    BY <1>1, <1>4, <2>1 DEF K!Sweep
  <2>5. Column(out', Len(out))
    BY <2>4 DEF Column
  <2>6. \A j \in 1 .. Len(out) :
          out'[j] = IF j - 1 \in at .. at + w - 1 THEN K!Expected(j - 1) ELSE out[j]
    BY <2>4
  <2>7. QED
    BY <1>1, <2>3, <2>4, <2>5, <2>6 DEF KernelStep
<1>5. QED
  BY <1>3, <1>4

\* Each step of a kernel keeps the invariant.
LEMMA KernelSteps == KernelInv /\ K!Next => KernelInv'
<1> SUFFICES ASSUME KernelInv, K!Next PROVE KernelStep
  BY StepKeepsKernel
<1> USE DEF K!Unchecked
<1>0. Len(out) \in Nat
  BY DEF KernelInv, KernelTypes
<1>1. CASE K!AddBatch
  <2>1. kernel = "add_batch" /\ K!Sweep({1}, K!AddElem)
    BY <1>1 DEF K!AddBatch
  <2>2. \A j \in 1 .. Len(out) : K!AddElem(j - 1) = K!Expected(j - 1)
    BY <1>0, <2>1, ElementsAre
  <2>3. K!Sweep({1}, K!Expected)
    BY <2>1, <2>2 DEF K!Sweep
  <2>4. QED
    BY <2>1, <2>3, SweepIsStep
<1>2. CASE K!AddSoA
  <2>1. kernel = "add_soa" /\ K!Sweep({8, 4, 1}, K!AddElem)
    BY <1>2 DEF K!AddSoA
  <2>2. \A j \in 1 .. Len(out) : K!AddElem(j - 1) = K!Expected(j - 1)
    BY <1>0, <2>1, ElementsAre
  <2>3. K!Sweep({8, 4, 1}, K!Expected)
    BY <2>1, <2>2 DEF K!Sweep
  <2>4. QED
    BY <2>1, <2>3, SweepIsStep
<1>3. CASE K!DotSoA
  <2>1. kernel = "dot_soa" /\ K!Sweep({8, 4, 1}, K!DotElem)
    BY <1>3 DEF K!DotSoA
  <2>2. \A j \in 1 .. Len(out) : K!DotElem(j - 1) = K!Expected(j - 1)
    BY <1>0, <2>1, ElementsAre
  <2>3. K!Sweep({8, 4, 1}, K!Expected)
    BY <2>1, <2>2 DEF K!Sweep
  <2>4. QED
    BY <2>1, <2>3, SweepIsStep
<1>4. CASE K!AddSoAUnchecked
  <2>1. kernel = "add_soa_unchecked" /\ K!Sweep({8, 4}, K!AddElem)
    BY <1>4 DEF K!AddSoAUnchecked
  <2>2. \A j \in 1 .. Len(out) : K!AddElem(j - 1) = K!Expected(j - 1)
    BY <1>0, <2>1, ElementsAre
  <2>3. K!Sweep({8, 4}, K!Expected)
    BY <2>1, <2>2 DEF K!Sweep
  <2>4. QED
    BY <2>1, <2>3, SweepIsStep
<1>5. CASE K!DotSoAUnchecked
  <2>1. kernel = "dot_soa_unchecked" /\ K!Sweep({4}, K!DotElem)
    BY <1>5 DEF K!DotSoAUnchecked
  <2>2. \A j \in 1 .. Len(out) : K!DotElem(j - 1) = K!Expected(j - 1)
    BY <1>0, <2>1, ElementsAre
  <2>3. K!Sweep({4}, K!Expected)
    BY <2>1, <2>2 DEF K!Sweep
  <2>4. QED
    BY <2>1, <2>3, SweepIsStep
<1>6. CASE K!SubAndCast
  <2>1. kernel = "lwc" /\ K!Sweep({1}, K!LwcElem)
    BY <1>6 DEF K!SubAndCast
  <2>2. \A j \in 1 .. Len(out) : K!LwcElem(j - 1) = K!Expected(j - 1)
    BY <1>0, <2>1, ElementsAre
  <2>3. K!Sweep({1}, K!Expected)
    BY <2>1, <2>2 DEF K!Sweep
  <2>4. QED
    BY <2>1, <2>3, SweepIsStep
<1>7. CASE K!SubAndCastView
  <2>1. kernel = "lwc_view" /\ K!Sweep({8, 1}, K!LwcElem)
    BY <1>7 DEF K!SubAndCastView
  <2>2. \A j \in 1 .. Len(out) : K!LwcElem(j - 1) = K!Expected(j - 1)
    BY <1>0, <2>1, ElementsAre
  <2>3. K!Sweep({8, 1}, K!Expected)
    BY <2>1, <2>2 DEF K!Sweep
  <2>4. QED
    BY <2>1, <2>3, SweepIsStep
<1>8. CASE K!AddView
  <2>1. kernel = "add_view" /\ K!Sweep({4, 1}, K!AddElem)
    BY <1>8 DEF K!AddView
  <2>2. \A j \in 1 .. Len(out) : K!AddElem(j - 1) = K!Expected(j - 1)
    BY <1>0, <2>1, ElementsAre
  <2>3. K!Sweep({4, 1}, K!Expected)
    BY <2>1, <2>2 DEF K!Sweep
  <2>4. QED
    BY <2>1, <2>3, SweepIsStep
<1>9. CASE K!FmaView
  <2>1. kernel = "fma_view" /\ K!Sweep({8, 4, 1}, K!FmaElem)
    BY <1>9 DEF K!FmaView
  <2>2. \A j \in 1 .. Len(out) : K!FmaElem(j - 1) = K!Expected(j - 1)
    BY <1>0, <2>1, ElementsAre
  <2>3. K!Sweep({8, 4, 1}, K!Expected)
    BY <2>1, <2>2 DEF K!Sweep
  <2>4. QED
    BY <2>1, <2>3, SweepIsStep
<1>10. CASE K!FmaViewUnchecked
  <2>1. kernel = "fma_unchecked" /\ K!Sweep({8, 4}, K!FmaElem)
    BY <1>10 DEF K!FmaViewUnchecked
  <2>2. \A j \in 1 .. Len(out) : K!FmaElem(j - 1) = K!Expected(j - 1)
    BY <1>0, <2>1, ElementsAre
  <2>3. K!Sweep({8, 4}, K!Expected)
    BY <2>1, <2>2 DEF K!Sweep
  <2>4. QED
    BY <2>1, <2>3, SweepIsStep
<1>11. CASE K!SinView
  <2>1. kernel = "sin_view" /\ K!Sweep({1}, K!SinElem)
    BY <1>11 DEF K!SinView
  <2>2. \A j \in 1 .. Len(out) : K!SinElem(j - 1) = K!Expected(j - 1)
    BY <1>0, <2>1, ElementsAre
  <2>3. K!Sweep({1}, K!Expected)
    BY <2>1, <2>2 DEF K!Sweep
  <2>4. QED
    BY <2>1, <2>3, SweepIsStep
<1>12. CASE K!CosView
  <2>1. kernel = "cos_view" /\ K!Sweep({1}, K!CosElem)
    BY <1>12 DEF K!CosView
  <2>2. \A j \in 1 .. Len(out) : K!CosElem(j - 1) = K!Expected(j - 1)
    BY <1>0, <2>1, ElementsAre
  <2>3. K!Sweep({1}, K!Expected)
    BY <2>1, <2>2 DEF K!Sweep
  <2>4. QED
    BY <2>1, <2>3, SweepIsStep
<1>13. CASE K!TanView
  <2>1. kernel = "tan_view" /\ K!Sweep({1}, LAMBDA j : K!SinCos(K!Angle(j)))
    BY <1>13 DEF K!TanView
  <2>2. \A j \in 1 .. Len(out) : K!SinCos(K!Angle(j - 1)) = K!Expected(j - 1)
    BY <1>0, <2>1, ElementsAre
  <2>3. K!Sweep({1}, K!Expected)
    BY <2>1, <2>2 DEF K!Sweep
  <2>4. QED
    BY <2>1, <2>3, SweepIsStep
<1>14. CASE K!ExpView
  <2>1. kernel = "exp_view" /\ K!Sweep({1}, K!ExpElem)
    BY <1>14 DEF K!ExpView
  <2>2. \A j \in 1 .. Len(out) : K!ExpElem(j - 1) = K!Expected(j - 1)
    BY <1>0, <2>1, ElementsAre
  <2>3. K!Sweep({1}, K!Expected)
    BY <2>1, <2>2 DEF K!Sweep
  <2>4. QED
    BY <2>1, <2>3, SweepIsStep
<1>15. CASE K!GenericAddSoA
  <2>1. kernel = "generic_add_soa" /\ K!Sweep({4, 1}, K!AddElem)
    BY <1>15 DEF K!GenericAddSoA
  <2>2. \A j \in 1 .. Len(out) : K!AddElem(j - 1) = K!Expected(j - 1)
    BY <1>0, <2>1, ElementsAre
  <2>3. K!Sweep({4, 1}, K!Expected)
    BY <2>1, <2>2 DEF K!Sweep
  <2>4. QED
    BY <2>1, <2>3, SweepIsStep
<1>16. CASE K!GenericDotSoA
  <2>1. kernel = "generic_dot_soa" /\ K!Sweep({4, 1}, K!DotElem)
    BY <1>16 DEF K!GenericDotSoA
  <2>2. \A j \in 1 .. Len(out) : K!DotElem(j - 1) = K!Expected(j - 1)
    BY <1>0, <2>1, ElementsAre
  <2>3. K!Sweep({4, 1}, K!Expected)
    BY <2>1, <2>2 DEF K!Sweep
  <2>4. QED
    BY <2>1, <2>3, SweepIsStep
<1>17. CASE K!GenericView
  <2>1. kernel = "generic_fma_view" /\ K!Sweep({1}, K!FmaElem)
    BY <1>17 DEF K!GenericView
  <2>2. \A j \in 1 .. Len(out) : K!FmaElem(j - 1) = K!Expected(j - 1)
    BY <1>0, <2>1, ElementsAre
  <2>3. K!Sweep({1}, K!Expected)
    BY <2>1, <2>2 DEF K!Sweep
  <2>4. QED
    BY <2>1, <2>3, SweepIsStep
<1>18. QED
  BY <1>1, <1>2, <1>3, <1>4, <1>5, <1>6, <1>7, <1>8, <1>9, <1>10, <1>11, <1>12, <1>13, <1>14,
     <1>15, <1>16, <1>17 DEF K!Next

-----------------------------------------------------------------------------
(* The lanes *)

Vectors(n) == [1 .. n -> L!Lane]
Operations ==
  {"add", "mul", "fma", "min", "max", "cmp_lt", "cmp_eq", "select", "abs", "dot", "hsum8",
   "dot3", "floor", "ceil", "round", "trunc", "rcp", "rsqrt"}
LaneArguments(n) ==
  /\ op \in Operations /\ path \in {"instruction", "scalar"}
  /\ va \in Vectors(n) /\ vb \in Vectors(n) /\ vc \in Vectors(n)
  /\ op \in {"hsum8", "dot3"} => n = 8
  /\ op = "dot" => n = 4
  /\ op \in {"rcp", "rsqrt"} => \A i \in 1 .. n : va[i] \in L!Squares
LanesInv == (\E n \in {4, 8} : LaneArguments(n)) /\ L!LanesMatch

\* A lane is NaN or a multiple of a half within the bound.
LEMMA LaneIs ==
  ASSUME NEW u \in L!Lane
  PROVE  u \in Int /\ (u = L!NaN \/ (u \in -1000 .. 1000 /\ \E a \in -250 .. 250 : u = 4 * a))
BY DEF L!Lane, L!NaN

LEMMA NatProduct ==
  ASSUME NEW x \in Nat, NEW y \in Nat PROVE x * y \in Nat
OBVIOUS

Terms == {t \in Int : -125000 <= t /\ t <= 125000}
Halves == {t \in Int : -62500 <= t /\ t <= 62500}

\* A product of bounded factors is bounded.
LEMMA BoundedProduct ==
  ASSUME NEW a \in -250 .. 250, NEW b \in -250 .. 250
  PROVE  a * b \in Halves
<1>1. PICK x \in Nat, y \in Nat : x = 250 - a /\ y = 250 + a
  OBVIOUS
<1>2. PICK p \in Int : p = a * b
  OBVIOUS
<1>0. p \in Int
  BY <1>2
<1>3. x * b = 250 * b - p /\ y * b = 250 * b + p
  BY <1>1, <1>2, SMT
<1>4. x * (-b) = p - 250 * b /\ y * (-b) = -(250 * b) - p
  BY <1>1, <1>2, SMT
<1>5. CASE 0 <= b
  <2>1. x * b \in Nat /\ y * b \in Nat
    BY <1>5, NatProduct
  <2>2. 0 <= 250 * b - p /\ 0 <= 250 * b + p
    BY <1>3, <2>1
  <2>3. p \in Halves
    BY <1>0, <2>2 DEF Halves
  <2>4. QED
    BY <1>2, <2>3, Zenon
<1>6. CASE ~(0 <= b)
  <2>1. x * (-b) \in Nat /\ y * (-b) \in Nat
    BY <1>6, NatProduct
  <2>2. 0 <= p - 250 * b /\ 0 <= -(250 * b) - p
    BY <1>4, <2>1
  <2>3. p \in Halves
    BY <1>0, <2>2 DEF Halves
  <2>4. QED
    BY <1>2, <2>3, Zenon
<1>7. QED
  BY <1>5, <1>6, Zenon

\* A product of multiples of four.
LEMMA FourTimesFour ==
  ASSUME NEW a \in Int, NEW b \in Int, NEW p, p = a * b, NEW u, u = 4 * a, NEW v, v = 4 * b
  PROVE  u * v = 16 * p /\ v * u = 16 * p
BY SMT

\* A product, and what NaN makes of it.
LEMMA TimesIs ==
  ASSUME NEW u \in L!Lane, NEW v \in L!Lane
  PROVE  /\ L!NaN \in {u, v} => L!Times(u, v) = L!NaN
         /\ L!NaN \notin {u, v} => /\ L!Times(u, v) \in Terms
                                 /\ L!Unit * L!Times(u, v) = u * v
                                 /\ L!Unit * L!Times(u, v) = v * u
<1>1. L!NaN \in {u, v} => L!Times(u, v) = L!NaN
  BY Zenon DEF L!Times
<1>2. ASSUME L!NaN \notin {u, v}
      PROVE  /\ L!Times(u, v) \in Terms
             /\ L!Unit * L!Times(u, v) = u * v
             /\ L!Unit * L!Times(u, v) = v * u
  <2>1. /\ \E a \in -250 .. 250 : u = 4 * a
        /\ \E b \in -250 .. 250 : v = 4 * b
    BY <1>2, Zenon DEF L!Lane
  <2>2. PICK a \in -250 .. 250, b \in -250 .. 250 : u = 4 * a /\ v = 4 * b
    BY <2>1, Zenon
  <2>3. PICK p \in Halves : p = a * b
    BY <2>2, BoundedProduct, Zenon
  <2>4. a \in Int /\ b \in Int /\ p \in Int
    BY <2>2, <2>3 DEF Halves
  <2>5. PICK m \in Int : m = u * v /\ m = v * u /\ m = 16 * p
    <3>1. u * v = 16 * p /\ v * u = 16 * p
      BY <2>2, <2>3, <2>4, FourTimesFour, SMT
    <3>2. 16 * p \in Int
      BY <2>4
    <3>3. QED
      BY <3>1, <3>2, Zenon
  <2>6. PICK t : t = L!Times(u, v)
    OBVIOUS
  <2>7. t = m \div 8
    BY <1>2, <2>5, <2>6, Zenon DEF L!Times, L!Unit
  <2>8. t \in Terms /\ 8 * t = m
    BY <2>3, <2>5, <2>7 DEF Halves, Terms
  <2>9. QED
    BY <2>5, <2>6, <2>8, Zenon DEF L!Unit
<1>3. QED
  BY <1>1, <1>2, Zenon

\* A sum of lanes is NaN or their sum.
LEMMA PlusIs ==
  ASSUME NEW u \in {L!NaN} \union Terms, NEW v \in {L!NaN} \union Terms
  PROVE  /\ L!NaN \in {u, v} => L!Plus(u, v) = L!NaN
         /\ L!NaN \notin {u, v} => L!Plus(u, v) = u + v
BY DEF L!Plus

\* An operation starts with lanes of the table.
LEMMA LanesInit == L!LanesAssumption /\ L!Init => LanesInv
<1> SUFFICES ASSUME L!LanesAssumption, L!Init PROVE LanesInv
  OBVIOUS
<1>1. PICK u \in LaneInputs, v \in LaneInputs, w \in LaneInputs, wide \in BOOLEAN :
        /\ va = IF wide THEN u \o v ELSE u
        /\ vb = IF wide THEN v \o w ELSE v
        /\ vc = IF wide THEN w \o u ELSE w
  BY DEF L!Init
<1>2. \A x \in LaneInputs : x \in Seq(L!Lane) /\ Len(x) = 4 /\ x \in Vectors(4)
  <2>1. \A x \in LaneInputs : x \in [1 .. 4 -> L!Lane]
    BY DEF L!LanesAssumption
  <2>2. \A x \in LaneInputs : x \in Seq(L!Lane)
    BY <2>1, SeqDef
  <2>3. QED
    BY <2>1, <2>2, LenProperties DEF Vectors
<1>3. \A x, y \in LaneInputs : x \o y \in Vectors(8)
  <2> SUFFICES ASSUME NEW x \in LaneInputs, NEW y \in LaneInputs PROVE x \o y \in Vectors(8)
    OBVIOUS
  <2>1. x \in Seq(L!Lane) /\ y \in Seq(L!Lane) /\ Len(x) = 4 /\ Len(y) = 4
    BY <1>2
  <2>2. x \o y \in Seq(L!Lane) /\ Len(x \o y) = Len(x) + Len(y)
    BY <2>1, ConcatProperties, Zenon
  <2>3. Len(x \o y) = 8
    BY <2>1, <2>2
  <2>4. QED
    BY <2>2, <2>3, LenProperties DEF Vectors
<1>4. result = << >>
  BY DEF L!Init
<1>5. PICK n \in {4, 8} : /\ n = IF wide THEN 8 ELSE 4
                          /\ va \in Vectors(n) /\ vb \in Vectors(n) /\ vc \in Vectors(n)
  BY <1>1, <1>2, <1>3
<1>6. Len(va) = n /\ DOMAIN va = 1 .. n
  <2>1. va \in Seq(L!Lane)
    BY <1>5, SeqDef DEF Vectors
  <2>2. QED
    BY <1>5, <2>1, LenProperties DEF Vectors
<1>7. LaneArguments(n)
  BY <1>5, <1>6 DEF LaneArguments, Operations, L!Init
<1>8. QED
  BY <1>4, <1>7 DEF LanesInv, L!LanesMatch

\* A vector of four lanes has length four.
LEMMA VectorLength ==
  ASSUME NEW n \in {4, 8}, NEW v \in Vectors(n)
  PROVE  v \in Seq(L!Lane) /\ Len(v) = n /\ DOMAIN v = 1 .. n
<1>1. v \in Seq(L!Lane)
  BY SeqDef DEF Vectors
<1>2. QED
  BY <1>1, LenProperties DEF Vectors

\* One lemma for each operation: both of its paths answer alike.
LEMMA AddLanes ==
  ASSUME NEW n \in {4, 8}, LaneArguments(n), op = "add", L!Run PROVE L!LanesMatch'
<1>1. result' = [i \in DOMAIN va |-> L!Plus(va[i], vb[i])] /\ UNCHANGED <<op, path, va, vb, vc>>
  BY DEF L!Run, L!Answer, L!Pairwise, L!Each, L!Lanes
<1>2. DOMAIN va = 1 .. n
      /\ \A i \in 1 .. n : va[i] \in L!Lane /\ vb[i] \in L!Lane /\ vc[i] \in L!Lane
  BY DEF LaneArguments, Vectors
<1>3. ASSUME NEW i \in 1 .. n, NEW u \in L!Lane, u = va[i], NEW v \in L!Lane, v = vb[i],
             NEW w \in L!Lane, w = vc[i], NEW r, r = result'[i]
      PROVE  r = IF L!NaN \in {u, v} THEN L!NaN ELSE v + u
  <2>1. r = L!Plus(u, v)
    BY <1>1, <1>2, <1>3
  <2>2. QED
    BY <2>1, LaneIs DEF L!NaN, L!Plus
<1>4. QED
  BY <1>1, <1>2, <1>3 DEF L!LanesMatch

LEMMA MulLanes ==
  ASSUME NEW n \in {4, 8}, LaneArguments(n), op = "mul", L!Run PROVE L!LanesMatch'
<1>1. result' = [i \in DOMAIN va |-> L!Times(va[i], vb[i])] /\ UNCHANGED <<op, path, va, vb, vc>>
  BY DEF L!Run, L!Answer, L!Pairwise, L!Each, L!Lanes
<1>2. DOMAIN va = 1 .. n
      /\ \A i \in 1 .. n : va[i] \in L!Lane /\ vb[i] \in L!Lane /\ vc[i] \in L!Lane
  BY DEF LaneArguments, Vectors
<1>3. ASSUME NEW i \in 1 .. n, NEW u \in L!Lane, u = va[i], NEW v \in L!Lane, v = vb[i],
             NEW w \in L!Lane, w = vc[i], NEW r, r = result'[i]
      PROVE  L!NaN \in {u, v} \/ L!Unit * r = v * u
  <2>1. r = L!Times(u, v)
    BY <1>1, <1>2, <1>3
  <2>2. QED
    BY <2>1, TimesIs DEF L!NaN
<1>4. QED
  BY <1>1, <1>2, <1>3 DEF L!LanesMatch

LEMMA FmaLanes ==
  ASSUME NEW n \in {4, 8}, LaneArguments(n), op = "fma", L!Run PROVE L!LanesMatch'
<1>1. result' = [i \in DOMAIN va |-> L!Plus(L!Times(va[i], vb[i]), vc[i])]
      /\ UNCHANGED <<op, path, va, vb, vc>>
  BY DEF L!Run, L!Answer, L!Pairwise, L!Each, L!Lanes
<1>2. DOMAIN va = 1 .. n
      /\ \A i \in 1 .. n : va[i] \in L!Lane /\ vb[i] \in L!Lane /\ vc[i] \in L!Lane
  BY DEF LaneArguments, Vectors
<1>3. ASSUME NEW i \in 1 .. n, NEW u \in L!Lane, u = va[i], NEW v \in L!Lane, v = vb[i],
             NEW w \in L!Lane, w = vc[i], NEW r, r = result'[i]
      PROVE  L!NaN \in {u, v, w} \/ L!Unit * (r - w) = u * v
  <2>1. r = L!Plus(L!Times(u, v), w)
    BY <1>1, <1>2, <1>3
  <2>2. CASE L!NaN \in {u, v, w}
    BY <2>2
  <2>3. CASE L!NaN \notin {u, v, w}
    <3>1. PICK t \in Terms : t = L!Times(u, v) /\ L!Unit * t = u * v
      BY <2>3, TimesIs, Zenon
    <3>5. t \in Int /\ t # L!NaN
      BY <3>1 DEF Terms, L!NaN
    <3>2. r = t + w
      BY <2>1, <2>3, <3>1, <3>5 DEF L!Plus
    <3>3. r - w = t
      BY <2>3, <3>2, <3>5, LaneIs
    <3>4. QED
      BY <3>1, <3>3, Zenon
  <2>4. QED
    BY <2>2, <2>3, Zenon
<1>4. QED
  BY <1>1, <1>2, <1>3 DEF L!LanesMatch

LEMMA MinLanes ==
  ASSUME NEW n \in {4, 8}, LaneArguments(n), op = "min", L!Run PROVE L!LanesMatch'
<1>1. result' = [i \in DOMAIN va |-> L!MinLane(va[i], vb[i])] /\ UNCHANGED <<op, path, va, vb, vc>>
  BY DEF L!Run, L!Answer, L!Pairwise, L!Each, L!Lanes
<1>2. DOMAIN va = 1 .. n
      /\ \A i \in 1 .. n : va[i] \in L!Lane /\ vb[i] \in L!Lane /\ vc[i] \in L!Lane
  BY DEF LaneArguments, Vectors
<1>3. ASSUME NEW i \in 1 .. n, NEW u \in L!Lane, u = va[i], NEW v \in L!Lane, v = vb[i],
             NEW w \in L!Lane, w = vc[i], NEW r, r = result'[i]
      PROVE  r \in {u, v} /\ (L!NaN \in {u, v} => r = v)
             /\ (L!NaN \notin {u, v} => r <= u /\ r <= v)
  <2>1. r = L!MinLane(u, v)
    BY <1>1, <1>2, <1>3
  <2>2. QED
    BY <2>1, LaneIs DEF L!NaN, L!MinLane, L!Less
<1>4. QED
  BY <1>1, <1>2, <1>3 DEF L!LanesMatch

LEMMA MaxLanes ==
  ASSUME NEW n \in {4, 8}, LaneArguments(n), op = "max", L!Run PROVE L!LanesMatch'
<1>1. result' = [i \in DOMAIN va |-> L!MaxLane(va[i], vb[i])] /\ UNCHANGED <<op, path, va, vb, vc>>
  BY DEF L!Run, L!Answer, L!Pairwise, L!Each, L!Lanes
<1>2. DOMAIN va = 1 .. n
      /\ \A i \in 1 .. n : va[i] \in L!Lane /\ vb[i] \in L!Lane /\ vc[i] \in L!Lane
  BY DEF LaneArguments, Vectors
<1>3. ASSUME NEW i \in 1 .. n, NEW u \in L!Lane, u = va[i], NEW v \in L!Lane, v = vb[i],
             NEW w \in L!Lane, w = vc[i], NEW r, r = result'[i]
      PROVE  r \in {u, v} /\ (L!NaN \in {u, v} => r = v)
             /\ (L!NaN \notin {u, v} => r >= u /\ r >= v)
  <2>1. r = L!MaxLane(u, v)
    BY <1>1, <1>2, <1>3
  <2>2. QED
    BY <2>1, LaneIs DEF L!NaN, L!MaxLane, L!Less
<1>4. QED
  BY <1>1, <1>2, <1>3 DEF L!LanesMatch

LEMMA AbsLanes ==
  ASSUME NEW n \in {4, 8}, LaneArguments(n), op = "abs", L!Run PROVE L!LanesMatch'
<1>1. result' = [i \in DOMAIN va |-> L!Abs(va[i])] /\ UNCHANGED <<op, path, va, vb, vc>>
  BY DEF L!Run, L!Answer, L!Pairwise, L!Each, L!Lanes
<1>2. DOMAIN va = 1 .. n
      /\ \A i \in 1 .. n : va[i] \in L!Lane /\ vb[i] \in L!Lane /\ vc[i] \in L!Lane
  BY DEF LaneArguments, Vectors
<1>3. ASSUME NEW i \in 1 .. n, NEW u \in L!Lane, u = va[i], NEW v \in L!Lane, v = vb[i],
             NEW w \in L!Lane, w = vc[i], NEW r, r = result'[i]
      PROVE  r \in {u, -u} /\ r >= 0
  <2>1. r = L!Abs(u)
    BY <1>1, <1>2, <1>3
  <2>2. QED
    BY <2>1, LaneIs DEF L!NaN, L!Abs
<1>4. QED
  BY <1>1, <1>2, <1>3 DEF L!LanesMatch

LEMMA FloorLanes ==
  ASSUME NEW n \in {4, 8}, LaneArguments(n), op = "floor", L!Run PROVE L!LanesMatch'
<1>1. result' = [i \in DOMAIN va |-> L!Floor(va[i])] /\ UNCHANGED <<op, path, va, vb, vc>>
  BY DEF L!Run, L!Answer, L!Pairwise, L!Each, L!Lanes
<1>2. DOMAIN va = 1 .. n
      /\ \A i \in 1 .. n : va[i] \in L!Lane /\ vb[i] \in L!Lane /\ vc[i] \in L!Lane
  BY DEF LaneArguments, Vectors
<1>3. ASSUME NEW i \in 1 .. n, NEW u \in L!Lane, u = va[i], NEW v \in L!Lane, v = vb[i],
             NEW w \in L!Lane, w = vc[i], NEW r, r = result'[i]
      PROVE  u = L!NaN \/ (r % L!Unit = 0 /\ u - r \in 0 .. L!Unit - 1)
  <2>1. r = L!Floor(u)
    BY <1>1, <1>2, <1>3
  <2>2. QED
    BY <2>1, LaneIs DEF L!NaN, L!Floor, L!Unit
<1>4. QED
  BY <1>1, <1>2, <1>3 DEF L!LanesMatch

LEMMA CeilLanes ==
  ASSUME NEW n \in {4, 8}, LaneArguments(n), op = "ceil", L!Run PROVE L!LanesMatch'
<1>1. result' = [i \in DOMAIN va |-> L!Ceil(va[i])] /\ UNCHANGED <<op, path, va, vb, vc>>
  BY DEF L!Run, L!Answer, L!Pairwise, L!Each, L!Lanes
<1>2. DOMAIN va = 1 .. n
      /\ \A i \in 1 .. n : va[i] \in L!Lane /\ vb[i] \in L!Lane /\ vc[i] \in L!Lane
  BY DEF LaneArguments, Vectors
<1>3. ASSUME NEW i \in 1 .. n, NEW u \in L!Lane, u = va[i], NEW v \in L!Lane, v = vb[i],
             NEW w \in L!Lane, w = vc[i], NEW r, r = result'[i]
      PROVE  u = L!NaN \/ (r % L!Unit = 0 /\ r - u \in 0 .. L!Unit - 1)
  <2>1. r = L!Ceil(u)
    BY <1>1, <1>2, <1>3
  <2>2. QED
    BY <2>1, LaneIs DEF L!NaN, L!Floor, L!Ceil, L!Unit
<1>4. QED
  BY <1>1, <1>2, <1>3 DEF L!LanesMatch

LEMMA TruncLanes ==
  ASSUME NEW n \in {4, 8}, LaneArguments(n), op = "trunc", L!Run PROVE L!LanesMatch'
<1>1. result' = [i \in DOMAIN va |-> L!Trunc(va[i])] /\ UNCHANGED <<op, path, va, vb, vc>>
  BY DEF L!Run, L!Answer, L!Pairwise, L!Each, L!Lanes
<1>2. DOMAIN va = 1 .. n
      /\ \A i \in 1 .. n : va[i] \in L!Lane /\ vb[i] \in L!Lane /\ vc[i] \in L!Lane
  BY DEF LaneArguments, Vectors
<1>3. ASSUME NEW i \in 1 .. n, NEW u \in L!Lane, u = va[i], NEW v \in L!Lane, v = vb[i],
             NEW w \in L!Lane, w = vc[i], NEW r, r = result'[i]
      PROVE  u = L!NaN \/ (r % L!Unit = 0 /\ L!Abs(r) <= L!Abs(u) /\ L!Abs(u - r) < L!Unit)
  <2>1. r = L!Trunc(u)
    BY <1>1, <1>2, <1>3
  <2>2. QED
    BY <2>1, LaneIs DEF L!NaN, L!Floor, L!Ceil, L!Trunc, L!Abs, L!Unit
<1>4. QED
  BY <1>1, <1>2, <1>3 DEF L!LanesMatch

LEMMA CmpLtLanes ==
  ASSUME NEW n \in {4, 8}, LaneArguments(n), op = "cmp_lt", L!Run PROVE L!LanesMatch'
<1>1. result' = [i \in DOMAIN va |-> IF L!Less(va[i], vb[i]) THEN L!Ones ELSE 0]
      /\ UNCHANGED <<op, path, va, vb, vc>>
  BY DEF L!Run, L!Answer, L!CmpLt, L!Pairwise, L!Each, L!Lanes
<1>2. DOMAIN va = 1 .. n
      /\ \A i \in 1 .. n : va[i] \in L!Lane /\ vb[i] \in L!Lane /\ vc[i] \in L!Lane
  BY DEF LaneArguments, Vectors
<1>3. ASSUME NEW i \in 1 .. n, NEW u \in L!Lane, u = va[i], NEW v \in L!Lane, v = vb[i],
             NEW w \in L!Lane, w = vc[i], NEW r, r = result'[i]
      PROVE  (r # 0) = (L!NaN \notin {u, v} /\ v > u)
  <2>1. r = IF L!Less(u, v) THEN L!Ones ELSE 0
    BY <1>1, <1>2, <1>3
  <2>2. QED
    BY <2>1, LaneIs DEF L!NaN, L!Less, L!Ones
<1>4. QED
  BY <1>1, <1>2, <1>3 DEF L!LanesMatch

LEMMA CmpEqLanes ==
  ASSUME NEW n \in {4, 8}, LaneArguments(n), op = "cmp_eq", L!Run PROVE L!LanesMatch'
<1>1. result' = [i \in DOMAIN va |-> IF L!Same(va[i], vb[i]) THEN L!Ones ELSE 0]
      /\ UNCHANGED <<op, path, va, vb, vc>>
  BY DEF L!Run, L!Answer, L!CmpEq, L!Pairwise, L!Each, L!Lanes
<1>2. DOMAIN va = 1 .. n
      /\ \A i \in 1 .. n : va[i] \in L!Lane /\ vb[i] \in L!Lane /\ vc[i] \in L!Lane
  BY DEF LaneArguments, Vectors
<1>3. ASSUME NEW i \in 1 .. n, NEW u \in L!Lane, u = va[i], NEW v \in L!Lane, v = vb[i],
             NEW w \in L!Lane, w = vc[i], NEW r, r = result'[i]
      PROVE  (r # 0) = (u = v /\ v # L!NaN)
  <2>1. r = IF L!Same(u, v) THEN L!Ones ELSE 0
    BY <1>1, <1>2, <1>3
  <2>2. QED
    BY <2>1, LaneIs DEF L!NaN, L!Same, L!Ones
<1>4. QED
  BY <1>1, <1>2, <1>3 DEF L!LanesMatch

LEMMA SelectLanes ==
  ASSUME NEW n \in {4, 8}, LaneArguments(n), op = "select", L!Run PROVE L!LanesMatch'
<1>1. result' = [i \in DOMAIN va |->
                    L!SelectLane(path, IF L!Less(va[i], vb[i]) THEN L!Ones ELSE 0, va[i], vc[i])]
      /\ UNCHANGED <<op, path, va, vb, vc>>
  BY DEF L!Run, L!Answer, L!CmpLt, L!Select, L!Pairwise, L!Each, L!Lanes
<1>2. DOMAIN va = 1 .. n
      /\ \A i \in 1 .. n : va[i] \in L!Lane /\ vb[i] \in L!Lane /\ vc[i] \in L!Lane
  BY DEF LaneArguments, Vectors
<1>3. ASSUME NEW i \in 1 .. n, NEW u \in L!Lane, u = va[i], NEW v \in L!Lane, v = vb[i],
             NEW w \in L!Lane, w = vc[i], NEW r, r = result'[i]
      PROVE  r = IF L!Less(u, v) THEN u ELSE w
  <2>1. r = L!SelectLane(path, IF L!Less(u, v) THEN L!Ones ELSE 0, u, w)
    BY <1>1, <1>2, <1>3
  <2>2. QED
    BY <2>1 DEF L!NaN, L!SelectLane, L!BitAnd, L!BitAndNot, L!BitOr, L!Ones
<1>4. QED
  BY <1>1, <1>2, <1>3 DEF L!LanesMatch

\* The rounding of the vector path, to even.
LEMMA RoundEvenIs ==
  ASSUME NEW u \in L!Lane, NEW r, r = L!RoundEven(u)
  PROVE  L!Near(r, u) /\ (r = L!NaN \/ r % L!Unit = 0)
<1>1. CASE u = L!NaN
  BY <1>1, SMT DEF L!RoundEven, L!Floor, L!Plus, L!Near, L!NaN
<1>2. CASE u # L!NaN
  <2>1. PICK a \in -250 .. 250 : u = 4 * a /\ u + 4 = 4 * a + 4 /\ u # L!NaN
    BY <1>2, LaneIs
  <2>2. r = IF u % 16 = 4 THEN u - (u % 8) ELSE (u + 4) - ((u + 4) % 8)
    BY <2>1, SMT DEF L!RoundEven, L!Floor, L!Plus, L!Unit, L!NaN
  <2>5. PICK q \in Int, m \in {0, 4, 8, 12} : u = 16 * q + m
    <3>1. u % 16 \in {0, 4, 8, 12} /\ u = 16 * (u \div 16) + (u % 16) /\ u \div 16 \in Int
      BY <2>1, SMT
    <3>2. QED
      BY <3>1
  <2>6. r = CASE m = 0 -> 16 * q [] m = 4 -> 16 * q [] m = 8 -> 16 * q + 8
              [] OTHER -> 16 * q + 16
    BY <2>2, <2>5, SMT
  <2>3. r \in Int /\ r - u \in -4 .. 4 /\ r % 8 = 0 /\ r # L!NaN
    BY <2>1, <2>5, <2>6, SMT DEF L!NaN
  <2>4. QED
    BY <2>1, <2>3, SMT DEF L!Near, L!Abs, L!Unit, L!NaN
<1>3. QED
  BY <1>1, <1>2, Zenon

\* The rounding of the scalar path, away from zero.
LEMMA RoundAwayIs ==
  ASSUME NEW u \in L!Lane, NEW r, r = L!RoundAway(u)
  PROVE  L!Near(r, u) /\ (r = L!NaN \/ r % L!Unit = 0)
<1>1. CASE u = L!NaN
  BY <1>1, SMT DEF L!RoundAway, L!Near, L!NaN
<1>2. CASE u # L!NaN
  <2>1. PICK a \in -250 .. 250 : u = 4 * a /\ u + 4 = 4 * a + 4 /\ u # L!NaN
    BY <1>2, LaneIs
  <2>2. r = IF u >= 0 THEN (u + 4) - ((u + 4) % 8) ELSE -((4 - u) - ((4 - u) % 8))
    BY <2>1, SMT DEF L!RoundAway, L!Floor, L!Unit, L!NaN
  <2>3. /\ r \in Int /\ r - u \in -4 .. 4 /\ r # L!NaN
        /\ r % 8 = 0
    BY <2>1, <2>2, SMT DEF L!NaN
  <2>4. QED
    BY <2>1, <2>3, SMT DEF L!Near, L!Abs, L!Unit, L!NaN
<1>3. QED
  BY <1>1, <1>2, Zenon

\* The reciprocal of a square of the table is exact.
LEMMA RcpIs ==
  ASSUME NEW u \in L!Squares PROVE L!RcpLane(path, u) * u = L!Unit * L!Unit
<1>1. CASE u = 8
  BY <1>1, SMT DEF L!RcpLane, L!Times, L!Unit, L!NaN
<1>2. CASE u = 32
  BY <1>2, SMT DEF L!RcpLane, L!Times, L!Unit, L!NaN
<1>3. QED
  BY <1>1, <1>2 DEF L!Squares

\* So is that of its root on the scalar path.
LEMMA RsqrtIs ==
  ASSUME NEW u \in L!Squares
  PROVE  L!RsqrtLane("scalar", u) * L!RsqrtLane("scalar", u) * u = L!Unit * L!Unit * L!Unit
<1>1. CASE u = 8
  <2>1. L!Rsqrt(u) = 8
    BY <1>1, SMT DEF L!Rsqrt, L!Unit
  <2>2. QED
    BY <1>1, <2>1, SMT DEF L!RsqrtLane, L!Times, L!Unit, L!NaN
<1>2. CASE u = 32
  <2>1. L!Rsqrt(u) = 4
    BY <1>2, SMT DEF L!Rsqrt, L!Unit
  <2>2. QED
    BY <1>2, <2>1, SMT DEF L!RsqrtLane, L!Times, L!Unit, L!NaN
<1>3. QED
  BY <1>1, <1>2 DEF L!Squares

LEMMA RoundLanes ==
  ASSUME NEW n \in {4, 8}, LaneArguments(n), op = "round", L!Run PROVE L!LanesMatch'
<1>0. Len(va) = n
  BY VectorLength DEF LaneArguments
<1>1. result' = [i \in DOMAIN va |->
                    IF path = "instruction" /\ n = 4 THEN L!RoundEven(va[i]) ELSE L!RoundAway(va[i])]
      /\ UNCHANGED <<op, path, va, vb, vc>>
  BY <1>0 DEF L!Run, L!Answer, L!Round, L!Pairwise, L!Each, L!Lanes
<1>2. DOMAIN va = 1 .. n
      /\ \A i \in 1 .. n : va[i] \in L!Lane /\ vb[i] \in L!Lane /\ vc[i] \in L!Lane
  BY DEF LaneArguments, Vectors
<1>3. ASSUME NEW i \in 1 .. n, NEW u \in L!Lane, u = va[i], NEW v \in L!Lane, v = vb[i],
             NEW w \in L!Lane, w = vc[i], NEW r, r = result'[i]
      PROVE  L!Near(r, u)
             /\ (r = L!NaN \/ r % L!Unit = 0)
  <2>1. r = IF path = "instruction" /\ n = 4 THEN L!RoundEven(u) ELSE L!RoundAway(u)
    BY <1>1, <1>2, <1>3
  <2>2. QED
    BY <2>1, RoundEvenIs, RoundAwayIs 
<1>4. QED
  BY <1>0, <1>1, <1>2, <1>3 DEF L!LanesMatch

LEMMA RcpLanes ==
  ASSUME NEW n \in {4, 8}, LaneArguments(n), op = "rcp", L!Run PROVE L!LanesMatch'
<1>1. result' = [i \in DOMAIN va |-> L!RcpLane(path, va[i])] /\ UNCHANGED <<op, path, va, vb, vc>>
  BY DEF L!Run, L!Answer, L!Pairwise, L!Each, L!Lanes
<1>2. DOMAIN va = 1 .. n
      /\ \A i \in 1 .. n : va[i] \in L!Lane /\ vb[i] \in L!Lane /\ vc[i] \in L!Lane
  BY DEF LaneArguments, Vectors
<1>3. ASSUME NEW i \in 1 .. n, NEW u \in L!Lane, u = va[i], NEW v \in L!Lane, v = vb[i],
             NEW w \in L!Lane, w = vc[i], NEW r, r = result'[i]
      PROVE  r * u = L!Unit * L!Unit
  <2>1. r = L!RcpLane(path, u)
    BY <1>1, <1>2, <1>3
  <2>2. u \in L!Squares
    BY <1>3 DEF LaneArguments
  <2>3. QED
    BY <2>1, <2>2, RcpIs, Zenon
<1>4. QED
  BY <1>1, <1>2, <1>3 DEF L!LanesMatch

LEMMA RsqrtLanes ==
  ASSUME NEW n \in {4, 8}, LaneArguments(n), op = "rsqrt", L!Run PROVE L!LanesMatch'
<1>1. result' = [i \in DOMAIN va |-> L!RsqrtLane(path, va[i])] /\ UNCHANGED <<op, path, va, vb, vc>>
  BY DEF L!Run, L!Answer, L!Pairwise, L!Each, L!Lanes
<1>2. DOMAIN va = 1 .. n
      /\ \A i \in 1 .. n : va[i] \in L!Lane /\ vb[i] \in L!Lane /\ vc[i] \in L!Lane
  BY DEF LaneArguments, Vectors
<1>3. ASSUME NEW i \in 1 .. n, NEW u \in L!Lane, u = va[i], NEW v \in L!Lane, v = vb[i],
             NEW w \in L!Lane, w = vc[i], NEW r, r = result'[i]
      PROVE  path = "scalar" => r * r * u = L!Unit * L!Unit * L!Unit
  <2> HAVE path = "scalar"
  <2>1. r = L!RsqrtLane("scalar", u)
    BY <1>1, <1>2, <1>3
  <2>2. u \in L!Squares
    BY <1>3 DEF LaneArguments
  <2>3. QED
    BY <2>1, <2>2, RsqrtIs, Zenon
<1>4. QED
  BY <1>1, <1>2, <1>3 DEF L!LanesMatch

\* The sum of pairs.
LEMMA HorizontalSumIs ==
  ASSUME NEW m, DOMAIN m = 1 .. 4
  PROVE  L!HorizontalSum(m) = L!Plus(L!Plus(m[1], m[2]), L!Plus(m[3], m[4]))
<1>1. PICK f : f = L!Pairwise(L!Plus, m, L!MoveHDup(m))
  OBVIOUS
<1>2. f[1] = L!Plus(m[1], m[2]) /\ f[3] = L!Plus(m[3], m[4])
  <2>1. L!MoveHDup(m)[1] = m[2] /\ L!MoveHDup(m)[3] = m[4]
    BY DEF L!MoveHDup
  <2>2. QED
    BY <1>1, <2>1 DEF L!Pairwise, L!Lanes
<1>3. L!HorizontalSum(m) = L!Plus(f[1], L!MoveHL(L!MoveHDup(m), f)[1])
  BY <1>1, Zenon DEF L!HorizontalSum
<1>4. L!MoveHL(L!MoveHDup(m), f)[1] = f[3]
  BY DEF L!MoveHL
<1>5. QED
  BY <1>2, <1>3, <1>4

\* The equation of the loop of the scalar path.
Sums(s, v, n) == s = [i \in 0 .. n |-> IF i = 0 THEN 0 ELSE L!Plus(s[i - 1], v[i])]

\* The sum in turn, as its recursive equation.
LEMMA ScalarSumIs ==
  ASSUME NEW n \in Nat, NEW v, Len(v) = n, NEW f, Sums(f, v, n)
  PROVE  \E s : Sums(s, v, n) /\ L!ScalarSum(v) = s[n]
<1>1. PICK s : s = CHOOSE t : t = [i \in 0 .. n |-> IF i = 0 THEN 0 ELSE L!Plus(t[i - 1], v[i])]
  OBVIOUS
<1>2. Sums(s, v, n)
  BY <1>1 DEF Sums
<1>3. L!ScalarSum(v) = s[n]
  BY <1>1 DEF L!ScalarSum
<1>4. QED
  BY <1>2, <1>3

\* The sum in turn of four lanes.
LEMMA ScalarSumOfFour ==
  ASSUME NEW v, Len(v) = 4
  PROVE  L!ScalarSum(v) = L!Plus(L!Plus(L!Plus(L!Plus(0, v[1]), v[2]), v[3]), v[4])
<1>1. PICK a, b, c, d : /\ a = L!Plus(0, v[1]) /\ b = L!Plus(a, v[2])
                        /\ c = L!Plus(b, v[3]) /\ d = L!Plus(c, v[4])
  OBVIOUS
<1>2. PICK f : f = [i \in 0 .. 4 |-> IF i = 0 THEN 0 ELSE IF i = 1 THEN a ELSE IF i = 2 THEN b
                                   ELSE IF i = 3 THEN c ELSE d]
  OBVIOUS
<1>3. \A i \in 0 .. 4 : f[i] = IF i = 0 THEN 0 ELSE L!Plus(f[i - 1], v[i])
  <2>1. f[0] = 0 /\ f[1] = a /\ f[2] = b /\ f[3] = c /\ f[4] = d
    BY <1>2
  <2>2. QED
    BY <1>1, <2>1
<1>4. Sums(f, v, 4)
  BY <1>2, <1>3 DEF Sums
<1>5. PICK s : Sums(s, v, 4) /\ L!ScalarSum(v) = s[4]
  BY <1>4, ScalarSumIs
<1>6. \A i \in 0 .. 4 : s[i] = IF i = 0 THEN 0 ELSE L!Plus(s[i - 1], v[i])
  BY <1>5 DEF Sums
<1>7. s[0] = 0 /\ s[1] = a /\ s[2] = b /\ s[3] = c /\ s[4] = d
  BY <1>1, <1>6
<1>8. QED
  BY <1>1, <1>5, <1>7, Zenon

\* The sum in turn of eight lanes.
LEMMA ScalarSumOfEight ==
  ASSUME NEW v, Len(v) = 8
  PROVE  L!ScalarSum(v) =
           L!Plus(L!Plus(L!Plus(L!Plus(L!Plus(L!Plus(L!Plus(L!Plus(0, v[1]), v[2]), v[3]),
                  v[4]), v[5]), v[6]), v[7]), v[8])
<1>1. PICK a, b, c, d : /\ a = L!Plus(0, v[1]) /\ b = L!Plus(a, v[2])
                        /\ c = L!Plus(b, v[3]) /\ d = L!Plus(c, v[4])
  OBVIOUS
<1>2. PICK e, g, h, k : /\ e = L!Plus(d, v[5]) /\ g = L!Plus(e, v[6])
                        /\ h = L!Plus(g, v[7]) /\ k = L!Plus(h, v[8])
  OBVIOUS
<1>3. PICK f : f = [i \in 0 .. 8 |-> IF i = 0 THEN 0 ELSE IF i = 1 THEN a ELSE IF i = 2 THEN b
                                   ELSE IF i = 3 THEN c ELSE IF i = 4 THEN d
                                   ELSE IF i = 5 THEN e ELSE IF i = 6 THEN g
                                   ELSE IF i = 7 THEN h ELSE k]
  OBVIOUS
<1>4. \A i \in 0 .. 8 : f[i] = IF i = 0 THEN 0 ELSE L!Plus(f[i - 1], v[i])
  <2>1. /\ f[0] = 0 /\ f[1] = a /\ f[2] = b /\ f[3] = c /\ f[4] = d
        /\ f[5] = e /\ f[6] = g /\ f[7] = h /\ f[8] = k
    BY <1>3
  <2>2. QED
    BY <1>1, <1>2, <2>1
<1>5. Sums(f, v, 8)
  BY <1>3, <1>4 DEF Sums
<1>6. PICK s : Sums(s, v, 8) /\ L!ScalarSum(v) = s[8]
  BY <1>5, ScalarSumIs
<1>7. \A i \in 0 .. 8 : s[i] = IF i = 0 THEN 0 ELSE L!Plus(s[i - 1], v[i])
  BY <1>6 DEF Sums
<1>8. /\ s[0] = 0 /\ s[1] = a /\ s[2] = b /\ s[3] = c /\ s[4] = d
      /\ s[5] = e /\ s[6] = g /\ s[7] = h /\ s[8] = k
  BY <1>1, <1>2, <1>7
<1>9. QED
  BY <1>1, <1>2, <1>6, <1>8, Zenon

\* Sums of terms, whatever their order.
Summands == {L!NaN} \union Terms

SumOfThree(r, a, b, c) == r = IF L!NaN \in {a, b, c} THEN L!NaN ELSE a + b + c

\* A sum of three terms does not depend on the order.
LEMMA ThreeTerms ==
  ASSUME NEW a \in Summands, NEW b \in Summands, NEW c \in Summands
  PROVE  /\ SumOfThree(L!Plus(L!Plus(a, b), c), a, b, c)
         /\ SumOfThree(L!Plus(a, L!Plus(b, c)), a, b, c)
BY SMT DEF Summands, Terms, L!Plus, L!NaN, SumOfThree

\* Pairs first, or in turn: four terms have one sum.
LEMMA FourTerms ==
  ASSUME NEW a \in Summands, NEW b \in Summands, NEW c \in Summands, NEW d \in Summands
  PROVE  IF L!NaN \in {a, b, c, d}
         THEN /\ L!Plus(L!Plus(a, b), L!Plus(c, d)) = L!NaN
              /\ L!Plus(L!Plus(L!Plus(L!Plus(0, a), b), c), d) = L!NaN
         ELSE /\ L!Plus(L!Plus(a, b), L!Plus(c, d)) = a + b + c + d
              /\ L!Plus(L!Plus(L!Plus(L!Plus(0, a), b), c), d) = a + b + c + d
BY SMT DEF Summands, Terms, L!Plus, L!NaN

SumOfEight(r, a, b, c, d, e, f, g, h) ==
  r = IF L!NaN \in {a, b, c, d, e, f, g, h} THEN L!NaN ELSE h + g + f + e + d + c + b + a

\* The same for eight lanes.
LEMMA EightLanes ==
  ASSUME NEW a \in L!Lane, NEW b \in L!Lane, NEW c \in L!Lane, NEW d \in L!Lane,
         NEW e \in L!Lane, NEW f \in L!Lane, NEW g \in L!Lane, NEW h \in L!Lane
  PROVE  /\ SumOfEight(L!Plus(L!Plus(L!Plus(a, e), L!Plus(b, f)),
                              L!Plus(L!Plus(c, g), L!Plus(d, h))), a, b, c, d, e, f, g, h)
         /\ SumOfEight(L!Plus(L!Plus(L!Plus(L!Plus(L!Plus(L!Plus(L!Plus(L!Plus(0, a), b), c),
                              d), e), f), g), h), a, b, c, d, e, f, g, h)
<1>1. CASE L!NaN \in {a, b, c, d, e, f, g, h}
  <2>1. \A x : L!Plus(x, L!NaN) = L!NaN /\ L!Plus(L!NaN, x) = L!NaN
    BY Zenon DEF L!Plus
  <2>2. QED
    BY <1>1, <2>1 DEF SumOfEight
<1>2. CASE L!NaN \notin {a, b, c, d, e, f, g, h}
  <2>1. /\ a \in -1000 .. 1000 /\ b \in -1000 .. 1000 /\ c \in -1000 .. 1000
        /\ d \in -1000 .. 1000 /\ e \in -1000 .. 1000 /\ f \in -1000 .. 1000
        /\ g \in -1000 .. 1000 /\ h \in -1000 .. 1000
    <3>1. \A x \in L!Lane : x # L!NaN => x \in -1000 .. 1000
      BY LaneIs
    <3>2. QED
      BY <1>2, <3>1
  <2>2. QED
    BY <2>1, SMT DEF L!Plus, L!NaN, SumOfEight
<1>3. QED
  BY <1>1, <1>2, Zenon

\* NaN in a lane of either vector is NaN among the lanes of both.
LEMMA NaNAmong ==
  ASSUME NEW u \in Vectors(4), NEW v \in Vectors(4), NEW i \in 1 .. 4, L!NaN \in {u[i], v[i]}
  PROVE  L!AnyNaN(u \o v)
<1>1. u \in Seq(L!Lane) /\ v \in Seq(L!Lane) /\ Len(u) = 4 /\ Len(v) = 4
  BY VectorLength
<1>2. /\ DOMAIN (u \o v) = 1 .. 8
      /\ \A k \in 1 .. 8 : (u \o v)[k] = IF k <= 4 THEN u[k] ELSE v[k - 4]
  <2>1. /\ u \o v \in Seq(L!Lane)
        /\ Len(u \o v) = Len(u) + Len(v)
        /\ \A k \in 1 .. Len(u) + Len(v) :
             (u \o v)[k] = IF k <= Len(u) THEN u[k] ELSE v[k - Len(u)]
    BY <1>1, ConcatProperties, Zenon
  <2>2. Len(u \o v) = 8 /\ \A k \in 1 .. 8 : (u \o v)[k] = IF k <= 4 THEN u[k] ELSE v[k - 4]
    BY <1>1, <2>1
  <2>3. QED
    BY <2>1, <2>2, LenProperties
<1>3. CASE u[i] = L!NaN
  BY <1>2, <1>3 DEF L!AnyNaN
<1>4. CASE v[i] = L!NaN
  <2>1. i + 4 \in 1 .. 8 /\ ~(i + 4 <= 4) /\ (i + 4) - 4 = i
    OBVIOUS
  <2>1a. (u \o v)[i + 4] = v[(i + 4) - 4]
    BY <1>2, <2>1
  <2>1b. (u \o v)[i + 4] = L!NaN
    BY <1>4, <2>1, <2>1a
  <2>2. QED
    BY <1>2, <2>1, <2>1b DEF L!AnyNaN
<1>5. QED
  BY <1>3, <1>4

\* The dot product of the vector path.
LEMMA DotIs ==
  ASSUME NEW u \in Vectors(4), NEW v \in Vectors(4), NEW r,
         r \in {L!HorizontalSum(L!Pairwise(L!Times, u, v)),
                L!ScalarSum(L!Pairwise(L!Times, u, v))}
  PROVE  \/ L!AnyNaN(u \o v) /\ r = L!NaN
         \/ L!Unit * r = u[1] * v[1] + u[2] * v[2] + u[3] * v[3] + u[4] * v[4]
<1>1. PICK m : m = L!Pairwise(L!Times, u, v)
  OBVIOUS
<1>2. m = [i \in 1 .. 4 |-> m[i]] /\ DOMAIN m = 1 .. 4
      /\ \A i \in 1 .. 4 : m[i] = L!Times(u[i], v[i])
  BY <1>1 DEF L!Pairwise, L!Lanes, Vectors
<1>3. Len(m) = 4
  BY <1>2, ColumnLength
<1>4. PICK a, b, c, d : a = m[1] /\ b = m[2] /\ c = m[3] /\ d = m[4]
  OBVIOUS
<1>5. r \in {L!Plus(L!Plus(a, b), L!Plus(c, d)), L!Plus(L!Plus(L!Plus(L!Plus(0, a), b), c), d)}
  BY <1>1, <1>2, <1>3, <1>4, HorizontalSumIs, ScalarSumOfFour
<1>6. \A i \in 1 .. 4 : u[i] \in L!Lane /\ v[i] \in L!Lane
  BY DEF Vectors
<1>7. \A i \in 1 .. 4 : m[i] \in Summands /\ (m[i] = L!NaN => L!NaN \in {u[i], v[i]})
  BY <1>2, <1>6, TimesIs DEF Summands, Terms, L!NaN
<1>8. \A i \in 1 .. 4 : m[i] # L!NaN => m[i] \in Int /\ L!Unit * m[i] = u[i] * v[i]
  BY <1>2, <1>6, TimesIs DEF Summands, Terms, L!NaN
<1>9. CASE L!NaN \in {a, b, c, d}
  <2>1. r = L!NaN
    BY <1>4, <1>5, <1>7, <1>9, FourTerms
  <2>2. \E i \in 1 .. 4 : L!NaN \in {u[i], v[i]}
    BY <1>4, <1>7, <1>9
  <2>3. QED
    BY <2>1, <2>2, NaNAmong
<1>10. CASE L!NaN \notin {a, b, c, d}
  <2>1. r = a + b + c + d
    BY <1>4, <1>5, <1>7, <1>10, FourTerms
  <2>2. a \in Int /\ b \in Int /\ c \in Int /\ d \in Int
    BY <1>4, <1>8, <1>10
  <2>3. /\ L!Unit * a = u[1] * v[1] /\ L!Unit * b = u[2] * v[2]
        /\ L!Unit * c = u[3] * v[3] /\ L!Unit * d = u[4] * v[4]
    BY <1>4, <1>8, <1>10
  <2>4. L!Unit * r = L!Unit * a + L!Unit * b + L!Unit * c + L!Unit * d
    BY <2>1, <2>2, SMT DEF L!Unit
  <2>5. QED
    BY <2>3, <2>4, Zenon
<1>11. QED
  BY <1>9, <1>10, Zenon

LEMMA DotLanes ==
  ASSUME NEW n \in {4, 8}, LaneArguments(n), op = "dot", L!Run PROVE L!LanesMatch'
<1>1. result' = <<L!Dot(path)>> /\ UNCHANGED <<op, path, va, vb, vc>>
  BY DEF L!Run, L!Answer
<1>2. va \in Vectors(4) /\ vb \in Vectors(4)
  BY DEF LaneArguments
<1>3. PICK r : r = L!Dot(path)
  OBVIOUS
<1>4. r \in {L!HorizontalSum(L!Pairwise(L!Times, va, vb)),
             L!ScalarSum(L!Pairwise(L!Times, va, vb))}
  BY <1>3, Zenon DEF L!Dot
<1>5. \/ L!AnyNaN(va \o vb) /\ r = L!NaN
      \/ L!Unit * r = va[1] * vb[1] + va[2] * vb[2] + va[3] * vb[3] + va[4] * vb[4]
  BY <1>2, <1>4, DotIs
<1>6. DOMAIN result' = {1} /\ result'[1] = r
  BY <1>1, <1>3
<1>7. QED
  BY <1>1, <1>5, <1>6 DEF L!LanesMatch

\* The sum of eight lanes of the vector path.
LEMMA HSum8Is ==
  ASSUME NEW v \in Vectors(8), NEW r,
         r \in {L!HorizontalSum(L!Pairwise(L!Plus, L!Low(v), L!High(v))), L!ScalarSum(v)}
  PROVE  \/ L!AnyNaN(v) /\ r = L!NaN
         \/ r = v[8] + v[7] + v[6] + v[5] + v[4] + v[3] + v[2] + v[1]
<1>1. Len(v) = 8 /\ DOMAIN v = 1 .. 8 /\ \A i \in 1 .. 8 : v[i] \in L!Lane
  BY VectorLength DEF Vectors
<1>2. PICK m : m = L!Pairwise(L!Plus, L!Low(v), L!High(v))
  OBVIOUS
<1>3. DOMAIN m = 1 .. 4 /\ \A i \in 1 .. 4 : m[i] = L!Plus(v[i], v[i + 4])
  <2>1. PICK lo, hi : lo = L!Low(v) /\ hi = L!High(v)
    OBVIOUS
  <2>2. lo \in Seq(L!Lane) /\ Len(lo) = 4 /\ \A i \in 1 .. 4 : lo[i] = v[i]
    <3>1. \A i \in 1 .. 4 : v[i] \in L!Lane
      BY <1>1
    <3>2. /\ SubSeq(v, 1, 4) \in Seq(L!Lane)
          /\ Len(SubSeq(v, 1, 4)) = 4
          /\ \A i \in 1 .. 4 : SubSeq(v, 1, 4)[i] = v[i]
      BY <3>1, SubSeqProperties
    <3>3. QED
      BY <2>1, <3>2 DEF L!Low
  <2>3. \A i \in 1 .. 4 : hi[i] = v[i + 4]
    <3>1. \A i \in 5 .. 8 : v[i] \in L!Lane
      BY <1>1
    <3>2. \A i \in 1 .. 4 : SubSeq(v, 5, 8)[i] = v[5 + i - 1]
      BY <3>1, SubSeqProperties
    <3>3. QED
      BY <2>1, <3>2 DEF L!High
  <2>4. DOMAIN lo = 1 .. 4
    BY <2>2, LenProperties
  <2>5. QED
    BY <1>2, <2>1, <2>2, <2>3, <2>4 DEF L!Pairwise, L!Lanes
<1>4. PICK a, b, c, d, e, f, g, h : /\ a = v[1] /\ b = v[2] /\ c = v[3] /\ d = v[4]
                                    /\ e = v[5] /\ f = v[6] /\ g = v[7] /\ h = v[8]
  OBVIOUS
<1>5. m[1] = L!Plus(a, e) /\ m[2] = L!Plus(b, f) /\ m[3] = L!Plus(c, g) /\ m[4] = L!Plus(d, h)
  BY <1>3, <1>4
<1>6. PICK s, t :
        /\ s = L!Plus(L!Plus(L!Plus(a, e), L!Plus(b, f)), L!Plus(L!Plus(c, g), L!Plus(d, h)))
        /\ t = L!Plus(L!Plus(L!Plus(L!Plus(L!Plus(L!Plus(L!Plus(L!Plus(0, a), b), c), d), e),
                      f), g), h)
  OBVIOUS
<1>7. L!HorizontalSum(m) = s
  BY <1>3, <1>5, <1>6, HorizontalSumIs
<1>8. L!ScalarSum(v) = t
  BY <1>1, <1>4, <1>6, ScalarSumOfEight
<1>9. r \in {s, t}
  BY <1>2, <1>7, <1>8
<1>10. /\ a \in L!Lane /\ b \in L!Lane /\ c \in L!Lane /\ d \in L!Lane
       /\ e \in L!Lane /\ f \in L!Lane /\ g \in L!Lane /\ h \in L!Lane
  BY <1>1, <1>4
<1>11. IF L!NaN \in {a, b, c, d, e, f, g, h} THEN r = L!NaN
       ELSE r = h + g + f + e + d + c + b + a
  <2>1. SumOfEight(s, a, b, c, d, e, f, g, h) /\ SumOfEight(t, a, b, c, d, e, f, g, h)
    BY <1>6, <1>10, EightLanes, Zenon
  <2>2. SumOfEight(r, a, b, c, d, e, f, g, h)
    BY <1>9, <2>1, Zenon
  <2>3. QED
    BY <2>2, Zenon DEF SumOfEight
<1>12. L!NaN \in {a, b, c, d, e, f, g, h} => L!AnyNaN(v)
  BY <1>1, <1>4 DEF L!AnyNaN
<1>13. QED
  BY <1>4, <1>11, <1>12, Zenon

LEMMA Hsum8Lanes ==
  ASSUME NEW n \in {4, 8}, LaneArguments(n), op = "hsum8", L!Run PROVE L!LanesMatch'
<1>1. result' = <<L!HSum8(path)>> /\ UNCHANGED <<op, path, va, vb, vc>>
  BY DEF L!Run, L!Answer
<1>2. va \in Vectors(8)
  BY DEF LaneArguments
<1>3. PICK r : r = L!HSum8(path)
  OBVIOUS
<1>4. r \in {L!HorizontalSum(L!Pairwise(L!Plus, L!Low(va), L!High(va))), L!ScalarSum(va)}
  BY <1>3, Zenon DEF L!HSum8
<1>5. \/ L!AnyNaN(va) /\ r = L!NaN
      \/ r = va[8] + va[7] + va[6] + va[5] + va[4] + va[3] + va[2] + va[1]
  BY <1>2, <1>4, HSum8Is
<1>6. DOMAIN result' = {1} /\ result'[1] = r
  BY <1>1, <1>3
<1>7. QED
  BY <1>1, <1>5, <1>6 DEF L!LanesMatch

SumOfProducts(r, x, y, z, k, l, m) ==
  \/ L!NaN \in {x, y, z, k, l, m} /\ r = L!NaN
  \/ L!Unit * r = x * k + y * l + z * m

\* The dot product of three lanes of the vector path.
LEMMA Dot3Is ==
  ASSUME NEW x \in L!Lane, NEW y \in L!Lane, NEW z \in L!Lane,
         NEW k \in L!Lane, NEW l \in L!Lane, NEW m \in L!Lane, NEW r,
         r \in {L!Plus(L!Times(x, k), L!Plus(L!Times(y, l), L!Times(z, m))),
                L!Plus(L!Plus(L!Times(x, k), L!Times(y, l)), L!Times(z, m))}
  PROVE  SumOfProducts(r, x, y, z, k, l, m)
<1>1. PICK a, b, c : a = L!Times(x, k) /\ b = L!Times(y, l) /\ c = L!Times(z, m)
  OBVIOUS
<1>2. /\ a \in Summands /\ (a = L!NaN => L!NaN \in {x, k})
      /\ a # L!NaN => a \in Int /\ L!Unit * a = x * k
  BY <1>1, TimesIs DEF Summands, Terms, L!NaN
<1>3. /\ b \in Summands /\ (b = L!NaN => L!NaN \in {y, l})
      /\ b # L!NaN => b \in Int /\ L!Unit * b = y * l
  BY <1>1, TimesIs DEF Summands, Terms, L!NaN
<1>4. /\ c \in Summands /\ (c = L!NaN => L!NaN \in {z, m})
      /\ c # L!NaN => c \in Int /\ L!Unit * c = z * m
  BY <1>1, TimesIs DEF Summands, Terms, L!NaN
<1>4a. SumOfThree(r, a, b, c)
  <2>1. /\ SumOfThree(L!Plus(L!Plus(a, b), c), a, b, c)
        /\ SumOfThree(L!Plus(a, L!Plus(b, c)), a, b, c)
    BY <1>2, <1>3, <1>4, ThreeTerms, Zenon
  <2>2. r = L!Plus(a, L!Plus(b, c)) \/ r = L!Plus(L!Plus(a, b), c)
    BY <1>1, Zenon
  <2>3. QED
    BY <2>1, <2>2, Zenon
<1>5. CASE L!NaN \in {a, b, c}
  <2>1. r = L!NaN
    BY <1>4a, <1>5, Zenon DEF SumOfThree
  <2>2. QED
    BY <1>2, <1>3, <1>4, <1>5, <2>1, Zenon DEF SumOfProducts
<1>6. CASE L!NaN \notin {a, b, c}
  <2>1. r = a + b + c
    BY <1>4a, <1>6, Zenon DEF SumOfThree
  <2>2. a \in Int /\ b \in Int /\ c \in Int
    BY <1>2, <1>3, <1>4, <1>6, Zenon
  <2>3. L!Unit * r = L!Unit * a + L!Unit * b + L!Unit * c
    BY <2>1, <2>2, SMT DEF L!Unit
  <2>4. QED
    BY <1>2, <1>3, <1>4, <1>6, <2>3, Zenon DEF SumOfProducts
<1>7. QED
  BY <1>5, <1>6, Zenon

LEMMA Dot3Lanes ==
  ASSUME NEW n \in {4, 8}, LaneArguments(n), op = "dot3", L!Run PROVE L!LanesMatch'
<1>1. UNCHANGED <<op, path, va, vb, vc>> /\ result' = L!Dot3(path)
  BY DEF L!Run, L!Answer
<1>2. n = 8 /\ DOMAIN va = 1 .. 8
      /\ \A i \in 1 .. 8 : va[i] \in L!Lane /\ vb[i] \in L!Lane /\ vc[i] \in L!Lane
  BY DEF LaneArguments, Vectors
<1>3. DOMAIN result' = 1 .. 8
  BY <1>1, <1>2 DEF L!Dot3, L!Lanes
<1>4. ASSUME NEW i \in 1 .. 8, NEW r, r = result'[i]
      PROVE  \/ L!NaN \in {va[i], vb[i], vc[i], vb[1], vb[2], vb[3]} /\ r = L!NaN
             \/ L!Unit * r = va[i] * vb[1] + vb[i] * vb[2] + vc[i] * vb[3]
  <2>1. PICK x \in L!Lane, y \in L!Lane, z \in L!Lane : x = va[i] /\ y = vb[i] /\ z = vc[i]
    BY <1>2
  <2>2. PICK k \in L!Lane, l \in L!Lane, m \in L!Lane : k = vb[1] /\ l = vb[2] /\ m = vb[3]
    BY <1>2
  <2>3. r \in {L!Plus(L!Times(x, k), L!Plus(L!Times(y, l), L!Times(z, m))),
               L!Plus(L!Plus(L!Times(x, k), L!Times(y, l)), L!Times(z, m))}
    BY <1>1, <1>2, <1>4, <2>1, <2>2 DEF L!Dot3, L!Lanes
  <2>3a. x \in L!Lane /\ y \in L!Lane /\ z \in L!Lane
    BY <2>1
  <2>3b. k \in L!Lane /\ l \in L!Lane /\ m \in L!Lane
    BY <2>2
  <2>4. SumOfProducts(r, x, y, z, k, l, m)
    BY <2>3, <2>3a, <2>3b, Dot3Is
  <2>5. QED
    BY <2>1, <2>2, <2>4, Zenon DEF SumOfProducts
<1>5. QED
  BY <1>1, <1>3, <1>4 DEF L!LanesMatch

\* The answers depend on the operands alone.
LEMMA LanesStay ==
  ASSUME op \in Operations, L!LanesMatch,
         op' = op, path' = path, va' = va, vb' = vb, vc' = vc, result' = result
  PROVE  L!LanesMatch'
<1>1. CASE op = "add"
  BY <1>1 DEF L!LanesMatch
<1>2. CASE op = "mul"
  BY <1>2 DEF L!LanesMatch
<1>3. CASE op = "fma"
  BY <1>3 DEF L!LanesMatch
<1>4. CASE op = "min"
  BY <1>4 DEF L!LanesMatch
<1>5. CASE op = "max"
  BY <1>5 DEF L!LanesMatch
<1>6. CASE op = "cmp_lt"
  BY <1>6 DEF L!LanesMatch
<1>7. CASE op = "cmp_eq"
  BY <1>7 DEF L!LanesMatch
<1>8. CASE op = "select"
  BY <1>8 DEF L!LanesMatch
<1>9. CASE op = "abs"
  BY <1>9 DEF L!LanesMatch
<1>10. CASE op = "dot"
  BY <1>10 DEF L!LanesMatch
<1>11. CASE op = "hsum8"
  BY <1>11 DEF L!LanesMatch
<1>12. CASE op = "dot3"
  BY <1>12 DEF L!LanesMatch
<1>13. CASE op = "floor"
  BY <1>13 DEF L!LanesMatch
<1>14. CASE op = "ceil"
  BY <1>14 DEF L!LanesMatch
<1>15. CASE op = "round"
  BY <1>15 DEF L!LanesMatch
<1>16. CASE op = "trunc"
  BY <1>16 DEF L!LanesMatch
<1>17. CASE op = "rcp"
  BY <1>17 DEF L!LanesMatch
<1>18. CASE op = "rsqrt"
  BY <1>18 DEF L!LanesMatch
<1>19. QED
  BY <1>1, <1>2, <1>3, <1>4, <1>5, <1>6, <1>7, <1>8, <1>9, <1>10, <1>11, <1>12, <1>13, <1>14,
     <1>15, <1>16, <1>17, <1>18 DEF Operations

\* Each operation answers what its name says.
LEMMA LanesStep == LanesInv /\ [L!Next]_(L!simdvars) => LanesInv'
<1> SUFFICES ASSUME LanesInv, [L!Next]_(L!simdvars) PROVE LanesInv'
  OBVIOUS
<1>1. PICK n \in {4, 8} : LaneArguments(n)
  BY DEF LanesInv
<1>2. CASE UNCHANGED L!simdvars
  <2>1. UNCHANGED <<op, path, va, vb, vc, result>>
    BY <1>2 DEF L!simdvars
  <2>2. LaneArguments(n)'
    BY <1>1, <2>1 DEF LaneArguments
  <2>3. L!LanesMatch'
    BY <1>1, <2>1, LanesStay DEF LanesInv, LaneArguments
  <2>4. QED
    BY <2>2, <2>3 DEF LanesInv
<1>3. CASE L!Run
  <2>1. LaneArguments(n)'
    BY <1>1, <1>3 DEF L!Run, LaneArguments
  <2>2. L!LanesMatch'
    BY <1>1, <1>3, AddLanes, MulLanes, FmaLanes, MinLanes, MaxLanes, AbsLanes, FloorLanes,
       CeilLanes, TruncLanes, CmpLtLanes, CmpEqLanes, SelectLanes, RoundLanes, RcpLanes,
       RsqrtLanes, DotLanes, Hsum8Lanes, Dot3Lanes DEF LaneArguments, Operations
  <2>3. QED
    BY <2>1, <2>2 DEF LanesInv
<1>4. QED
  BY <1>2, <1>3 DEF L!Next

-----------------------------------------------------------------------------
(* Matrices, quaternions and intersections *)

Triples == [1 .. 3 -> Int]
Squares3 == [1 .. 3 -> Triples]
Fours == [1 .. 4 -> Int]
Squares4 == [1 .. 4 -> Fours]

\* A triple with a number after it is four numbers.
LEMMA AppendIs ==
  ASSUME NEW s \in Triples, NEW x \in Int
  PROVE  /\ Append(s, x) \in Fours
         /\ Append(s, x)[1] = s[1] /\ Append(s, x)[2] = s[2] /\ Append(s, x)[3] = s[3]
         /\ Append(s, x)[4] = x
<1>1. s \in Seq(Int)
  BY SeqDef DEF Triples
<1>2. Len(s) = 3
  BY <1>1, LenProperties DEF Triples
<1> DEFINE z == Append(s, x)
<1>3. z \in Seq(Int) /\ Len(z) = Len(s) + 1 /\ (\A i \in 1 .. Len(s) : z[i] = s[i])
      /\ z[Len(s) + 1] = x
  BY <1>1, AppendProperties
<1> HIDE DEF z
<1>4. Len(z) = 4
  BY <1>2, <1>3
<1>5. z \in Fours
  BY <1>3, <1>4, LenProperties DEF Fours
<1>6. z[1] = s[1] /\ z[2] = s[2] /\ z[3] = s[3] /\ z[4] = x
  BY <1>2, <1>3
<1>7. QED
  BY <1>5, <1>6 DEF z

\* The last row of an affine matrix.
LEMMA LastRow == <<0, 0, 0, 1>> \in Fours
BY DEF Fours

\* The entries of an affine matrix.
LEMMA AtIs ==
  ASSUME NEW m \in Squares3, NEW t \in Triples
  PROVE  /\ M!At3(m, t) \in Squares4
         /\ \A i \in 1 .. 3 : /\ M!At3(m, t)[i][1] = m[i][1] /\ M!At3(m, t)[i][2] = m[i][2]
                             /\ M!At3(m, t)[i][3] = m[i][3] /\ M!At3(m, t)[i][4] = t[i]
         /\ M!At3(m, t)[4] = <<0, 0, 0, 1>>
<1> DEFINE a == M!At3(m, t)
<1>1. \A i \in 1 .. 3 : m[i] \in Triples /\ t[i] \in Int
  BY DEF Squares3, Triples
<1>2. a = [i \in 1 .. 4 |-> IF i = 4 THEN <<0, 0, 0, 1>> ELSE Append(m[i], t[i])]
  BY DEF M!At3
<1> HIDE DEF a
<1>3. \A i \in 1 .. 3 : a[i] = Append(m[i], t[i])
  BY <1>2
<1>4. a[4] = <<0, 0, 0, 1>>
  BY <1>2
<1>5. ASSUME NEW i \in 1 .. 4 PROVE a[i] \in Fours
  <2>1. CASE i = 4
    BY <2>1, <1>4, LastRow
  <2>2. CASE i # 4
    <3>1. i \in 1 .. 3
      BY <2>2
    <3>2. QED
      BY <1>1, <1>3, <3>1, AppendIs
  <2>3. QED
    BY <2>1, <2>2
<1>6. a \in Squares4
  BY <1>2, <1>5 DEF Squares4
<1>7. ASSUME NEW i \in 1 .. 3
      PROVE  /\ a[i][1] = m[i][1] /\ a[i][2] = m[i][2] /\ a[i][3] = m[i][3]
             /\ a[i][4] = t[i]
  <2>1. a[i] = Append(m[i], t[i]) /\ m[i] \in Triples /\ t[i] \in Int
    BY <1>1, <1>3
  <2>2. QED
    BY <2>1, AppendIs
<1>8. QED
  BY <1>4, <1>6, <1>7 DEF a

\* A matrix whose last row leaves points points.
AffineMatrix(a) == a \in Squares4 /\ a[4] = <<0, 0, 0, 1>>

\* An affine matrix by its entries.
LEMMA AffineIs ==
  ASSUME M!MathAssumption, NEW a \in M!Affine
  PROVE  AffineMatrix(a)
<1>1. PICK m \in Linear, t \in Offsets : a = M!At3(m, t)
  BY DEF M!Affine
<1>2. m \in Squares3
  BY <1>1 DEF M!MathAssumption, Squares3, Triples
<1>3. t \in Triples
  BY <1>1 DEF M!MathAssumption, M!Points, Triples
<1>4. QED
  BY <1>1, <1>2, <1>3, AtIs DEF AffineMatrix

\* Entries of the product of rows.
LEMMA RowMulIs ==
  ASSUME NEW a \in Squares4, NEW b \in Squares4
  PROVE  /\ M!RowMul(a, b) \in Squares4
         /\ \A i \in 1 .. 4, j \in 1 .. 4 :
              M!RowMul(a, b)[i][j] = a[i][1] * b[1][j] + a[i][2] * b[2][j]
                                     + a[i][3] * b[3][j] + a[i][4] * b[4][j]
<1>1. \A i \in 1 .. 4, j \in 1 .. 4 : a[i][j] \in Int /\ b[i][j] \in Int
  BY DEF Squares4, Fours
<1>2. \A i \in 1 .. 4, j \in 1 .. 4 :
              M!RowMul(a, b)[i][j] = ((a[i][1] * b[1][j] + a[i][2] * b[2][j])
                                     + a[i][3] * b[3][j]) + a[i][4] * b[4][j]
  BY DEF M!RowMul
<1>3. \A i \in 1 .. 4, j \in 1 .. 4 : M!RowMul(a, b)[i][j] \in Int
  BY <1>1, <1>2
<1>4. M!RowMul(a, b) \in Squares4
  BY <1>3 DEF M!RowMul, Squares4, Fours
<1>5. QED
  BY <1>2, <1>4

\* Entries of the product by dots.
LEMMA DotMulIs ==
  ASSUME NEW a \in Squares4, NEW b \in Squares4
  PROVE  M!DotMul(a, b) = M!RowMul(a, b)
<1>1. \A k \in 1 .. 4, j \in 1 .. 4 : M!Transpose(b)[j][k] = b[k][j]
  BY DEF M!Transpose
<1>2. M!DotMul(a, b) = [i \in 1 .. 4 |-> [j \in 1 .. 4 |->
        a[i][1] * b[1][j] + a[i][2] * b[2][j] + a[i][3] * b[3][j] + a[i][4] * b[4][j]]]
  BY <1>1 DEF M!DotMul, M!Dot4, M!Dot3
<1>3. QED
  BY <1>2 DEF M!RowMul

\* Row i + 1 and column n + 1 of a matrix in a row of sixteen.
LEMMA FlatAt ==
  ASSUME NEW m, NEW i \in 0 .. 3, NEW n \in 0 .. 3
  PROVE  /\ i * 4 + n + 1 \in 1 .. 16
         /\ M!Flat(m)[i * 4 + n + 1] = m[i + 1][n + 1]
<1>1. i * 4 + n + 1 \in 1 .. 16
  OBVIOUS
<1>2. ((i * 4 + n + 1) - 1) \div 4 = i /\ ((i * 4 + n + 1) - 1) % 4 = n
  OBVIOUS
<1>3. QED
  BY <1>1, <1>2 DEF M!Flat

\* Entries of the product of flat matrices.
LEMMA FlatMulIs ==
  ASSUME NEW a \in Squares4, NEW b \in Squares4
  PROVE  M!FlatMul(M!Flat(a), M!Flat(b)) = M!Flat(M!RowMul(a, b))
<1> SUFFICES ASSUME NEW k \in 1 .. 16
             PROVE  M!FlatMul(M!Flat(a), M!Flat(b))[k] = M!Flat(M!RowMul(a, b))[k]
  BY DEF M!FlatMul, M!Flat
<1>1. PICK i \in 0 .. 3, j \in 0 .. 3 : i = (k - 1) \div 4 /\ j = (k - 1) % 4
  OBVIOUS
<1>0. i \in 0 .. 3 /\ j \in 0 .. 3
  BY <1>1
<1>2. k = i * 4 + j + 1
  BY <1>1
<1>3. \A n \in 0 .. 3 : M!Flat(a)[i * 4 + n + 1] = a[i + 1][n + 1]
                        /\ M!Flat(b)[n * 4 + j + 1] = b[n + 1][j + 1]
  BY <1>0, FlatAt
<1>4. M!FlatMul(M!Flat(a), M!Flat(b))[k] =
        M!Flat(a)[i * 4 + 0 + 1] * M!Flat(b)[0 * 4 + j + 1]
        + M!Flat(a)[i * 4 + 1 + 1] * M!Flat(b)[1 * 4 + j + 1]
        + M!Flat(a)[i * 4 + 2 + 1] * M!Flat(b)[2 * 4 + j + 1]
        + M!Flat(a)[i * 4 + 3 + 1] * M!Flat(b)[3 * 4 + j + 1]
  BY <1>1 DEF M!FlatMul
<1>5. M!FlatMul(M!Flat(a), M!Flat(b))[k] =
        a[i + 1][1] * b[1][j + 1] + a[i + 1][2] * b[2][j + 1]
        + a[i + 1][3] * b[3][j + 1] + a[i + 1][4] * b[4][j + 1]
  BY <1>3, <1>4
<1>6. M!Flat(M!RowMul(a, b))[k] = M!RowMul(a, b)[i + 1][j + 1]
  BY <1>0, <1>2, FlatAt
<1>7. i + 1 \in 1 .. 4 /\ j + 1 \in 1 .. 4
  BY <1>0
<1>8. QED
  BY <1>5, <1>6, <1>7, RowMulIs

\* One coordinate of a point moved by a product is that of the point moved twice.
LEMMA Composition ==
  ASSUME NEW a1 \in Int, NEW a2 \in Int, NEW a3 \in Int, NEW a4 \in Int,
         NEW p1 \in Int, NEW p2 \in Int, NEW p3 \in Int,
         NEW b11 \in Int, NEW b12 \in Int, NEW b13 \in Int, NEW b14 \in Int,
         NEW b21 \in Int, NEW b22 \in Int, NEW b23 \in Int, NEW b24 \in Int,
         NEW b31 \in Int, NEW b32 \in Int, NEW b33 \in Int, NEW b34 \in Int
  PROVE  p1 * (a1 * b11 + a2 * b21 + a3 * b31 + a4 * 0)
         + p2 * (a1 * b12 + a2 * b22 + a3 * b32 + a4 * 0)
         + p3 * (a1 * b13 + a2 * b23 + a3 * b33 + a4 * 0)
         + (a1 * b14 + a2 * b24 + a3 * b34 + a4 * 1)
         = (p1 * b11 + p2 * b12 + p3 * b13 + b14) * a1
         + (p1 * b21 + p2 * b22 + p3 * b23 + b24) * a2
         + (p1 * b31 + p2 * b32 + p3 * b33 + b34) * a3 + a4
OBVIOUS

\* A product of matrices moves a point as both in turn.
LEMMA ProductMoves ==
  ASSUME NEW a, AffineMatrix(a), NEW b, AffineMatrix(b), NEW p \in Triples
  PROVE  /\ M!TransformPoint(M!RowMul(a, b), p)
              = M!TransformPoint(a, M!TransformPoint(b, p))
         /\ M!RowMul(a, b)[4] = <<0, 0, 0, 1>>
<1>1. \A i \in 1 .. 4, j \in 1 .. 4 : a[i][j] \in Int /\ b[i][j] \in Int
  BY DEF AffineMatrix, Squares4, Fours
<1>2. p[1] \in Int /\ p[2] \in Int /\ p[3] \in Int
  BY DEF Triples
<1>3. \A j \in 1 .. 3 : a[4][j] = 0 /\ b[4][j] = 0
  BY DEF AffineMatrix
<1>4. a[4][4] = 1 /\ b[4][4] = 1
  BY DEF AffineMatrix
<1> DEFINE c == M!RowMul(a, b)
           q == M!TransformPoint(b, p)
<1>5. c \in Squares4
      /\ \A i \in 1 .. 4, j \in 1 .. 4 :
              c[i][j] = a[i][1] * b[1][j] + a[i][2] * b[2][j] + a[i][3] * b[3][j]
                        + a[i][4] * b[4][j]
  BY RowMulIs DEF AffineMatrix
<1>6. \A k \in 1 .. 3 : q[k] = p[1] * b[k][1] + p[2] * b[k][2] + p[3] * b[k][3] + b[k][4]
  BY DEF M!TransformPoint, M!Dot3
<1> HIDE DEF c, q
<1>7. ASSUME NEW i \in 1 .. 3
      PROVE  M!TransformPoint(c, p)[i] = M!TransformPoint(a, q)[i]
  <2>1. M!TransformPoint(c, p)[i]
          = p[1] * c[i][1] + p[2] * c[i][2] + p[3] * c[i][3] + c[i][4]
    BY DEF M!TransformPoint, M!Dot3
  <2>2. M!TransformPoint(a, q)[i]
          = q[1] * a[i][1] + q[2] * a[i][2] + q[3] * a[i][3] + a[i][4]
    BY DEF M!TransformPoint, M!Dot3
  <2>3. /\ c[i][1] = a[i][1] * b[1][1] + a[i][2] * b[2][1] + a[i][3] * b[3][1] + a[i][4] * 0
        /\ c[i][2] = a[i][1] * b[1][2] + a[i][2] * b[2][2] + a[i][3] * b[3][2] + a[i][4] * 0
        /\ c[i][3] = a[i][1] * b[1][3] + a[i][2] * b[2][3] + a[i][3] * b[3][3] + a[i][4] * 0
        /\ c[i][4] = a[i][1] * b[1][4] + a[i][2] * b[2][4] + a[i][3] * b[3][4] + a[i][4] * 1
    BY <1>3, <1>4, <1>5
  <2>4. /\ q[1] = p[1] * b[1][1] + p[2] * b[1][2] + p[3] * b[1][3] + b[1][4]
        /\ q[2] = p[1] * b[2][1] + p[2] * b[2][2] + p[3] * b[2][3] + b[2][4]
        /\ q[3] = p[1] * b[3][1] + p[2] * b[3][2] + p[3] * b[3][3] + b[3][4]
    BY <1>6
  <2>5. \A j \in 1 .. 4 : a[i][j] \in Int /\ b[1][j] \in Int /\ b[2][j] \in Int /\ b[3][j] \in Int
    BY <1>1
  <2>6. /\ a[i][1] \in Int /\ a[i][2] \in Int /\ a[i][3] \in Int /\ a[i][4] \in Int
        /\ b[1][1] \in Int /\ b[1][2] \in Int /\ b[1][3] \in Int /\ b[1][4] \in Int
        /\ b[2][1] \in Int /\ b[2][2] \in Int /\ b[2][3] \in Int /\ b[2][4] \in Int
        /\ b[3][1] \in Int /\ b[3][2] \in Int /\ b[3][3] \in Int /\ b[3][4] \in Int
    BY <2>5
  <2>7. QED
    BY <1>2, <2>1, <2>2, <2>3, <2>4, <2>6, Composition
<1>8. M!TransformPoint(c, p) = M!TransformPoint(a, q)
  BY <1>7 DEF M!TransformPoint
<1>9. c[4] = <<0, 0, 0, 1>>
  <2>1. \A j \in 1 .. 4 : c[4][j] = b[4][j]
    <3>1. \A j \in 1 .. 4 : c[4][j] = 0 * b[1][j] + 0 * b[2][j] + 0 * b[3][j] + 1 * b[4][j]
      BY <1>3, <1>4, <1>5
    <3>2. QED
      BY <1>1, <3>1
  <2>2. c[4] \in Fours /\ b[4] \in Fours
    BY <1>5 DEF Squares4, AffineMatrix
  <2>3. c[4] = b[4]
    BY <2>1, <2>2 DEF Fours
  <2>4. QED
    BY <2>3 DEF AffineMatrix
<1>10. QED
  BY <1>8, <1>9 DEF c, q

\* The flat product does too.
LEMMA FlatMoves ==
  ASSUME NEW c, AffineMatrix(c), NEW p \in Triples
  PROVE  M!FlatTransform(M!Flat(c), p) = Append(M!TransformPoint(c, p), 1)
<1>1. \A i \in 1 .. 4, j \in 1 .. 4 : c[i][j] \in Int
  BY DEF AffineMatrix, Squares4, Fours
<1>2. p[1] \in Int /\ p[2] \in Int /\ p[3] \in Int
  BY DEF Triples
<1>3. \A i \in 1 .. 4 : /\ M!Flat(c)[4 * i - 3] = c[i][1] /\ M!Flat(c)[4 * i - 2] = c[i][2]
                       /\ M!Flat(c)[4 * i - 1] = c[i][3] /\ M!Flat(c)[4 * i] = c[i][4]
  <2> SUFFICES ASSUME NEW i \in 1 .. 4
               PROVE  /\ M!Flat(c)[4 * i - 3] = c[i][1] /\ M!Flat(c)[4 * i - 2] = c[i][2]
                      /\ M!Flat(c)[4 * i - 1] = c[i][3] /\ M!Flat(c)[4 * i] = c[i][4]
    OBVIOUS
  <2>1. \A n \in 0 .. 3 : M!Flat(c)[(i - 1) * 4 + n + 1] = c[(i - 1) + 1][n + 1]
    BY FlatAt
  <2>2. \A n \in 0 .. 3 : M!Flat(c)[4 * i - 3 + n] = c[i][n + 1]
    BY <2>1
  <2>3. QED
    BY <2>2
<1> DEFINE f == M!FlatTransform(M!Flat(c), p)
           t == M!TransformPoint(c, p)
<1>4. f = [i \in 1 .. 4 |-> f[i]]
  BY DEF M!FlatTransform
<1>5. \A i \in 1 .. 4 : f[i] = c[i][1] * p[1] + c[i][2] * p[2] + c[i][3] * p[3] + c[i][4]
  BY <1>3 DEF M!FlatTransform
<1>6. \A i \in 1 .. 3 : t[i] = p[1] * c[i][1] + p[2] * c[i][2] + p[3] * c[i][3] + c[i][4]
  BY DEF M!TransformPoint, M!Dot3
<1>7. t = [i \in 1 .. 3 |-> t[i]]
  BY DEF M!TransformPoint
<1> HIDE DEF f, t
<1>8. \A i \in 1 .. 3 : t[i] \in Int /\ f[i] = t[i]
  BY <1>1, <1>2, <1>5, <1>6
<1>9. t \in Triples
  BY <1>7, <1>8 DEF Triples
<1>10. f[4] = 1
  <2>1. c[4][1] = 0 /\ c[4][2] = 0 /\ c[4][3] = 0 /\ c[4][4] = 1
    BY DEF AffineMatrix
  <2>2. QED
    BY <1>2, <1>5, <2>1
<1>11. \A i \in 1 .. 4 : f[i] = Append(t, 1)[i]
  BY <1>8, <1>9, <1>10, AppendIs
<1>12. f = Append(t, 1)
  <2>1. Append(t, 1) \in Fours
    BY <1>9, AppendIs
  <2>2. QED
    BY <1>4, <1>11, <2>1 DEF Fours
<1>13. QED
  BY <1>12 DEF f, t

\* The three products of matrices agree and compose.
LEMMA MulSound ==
  ASSUME M!MathAssumption, NEW a \in M!Affine, NEW b \in M!Affine
  PROVE  LET got == << M!RowMul(a, b), M!DotMul(a, b), M!FlatMul(M!Flat(a), M!Flat(b)) >>
         IN  /\ got[1] = got[2] /\ M!Flat(got[1]) = got[3]
             /\ \A p \in Offsets :
                  /\ M!TransformPoint(got[1], p)
                       = M!TransformPoint(a, M!TransformPoint(b, p))
                  /\ M!FlatTransform(got[3], p) = Append(M!TransformPoint(got[1], p), 1)
<1>1. AffineMatrix(a) /\ AffineMatrix(b)
  BY AffineIs
<1>2. a \in Squares4 /\ b \in Squares4
  BY <1>1 DEF AffineMatrix
<1> DEFINE c == M!RowMul(a, b)
<1>3. c = M!DotMul(a, b) /\ M!Flat(c) = M!FlatMul(M!Flat(a), M!Flat(b))
  BY <1>2, DotMulIs, FlatMulIs
<1>4. ASSUME NEW p \in Offsets
      PROVE  /\ M!TransformPoint(c, p) = M!TransformPoint(a, M!TransformPoint(b, p))
             /\ M!FlatTransform(M!Flat(c), p) = Append(M!TransformPoint(c, p), 1)
  <2>1. p \in Triples
    BY DEF M!MathAssumption, M!Points, Triples
  <2>2. AffineMatrix(c)
    BY <1>1, <1>2, <2>1, ProductMoves, RowMulIs DEF AffineMatrix
  <2>3. QED
    BY <1>1, <2>1, <2>2, ProductMoves, FlatMoves
<1> HIDE DEF c
<1>5. QED
  BY <1>3, <1>4 DEF c

\* The cofactors of a matrix by its entries.
LEMMA CofactorIs ==
  ASSUME NEW a
  PROVE  /\ M!Cofactor(a, 1, 1) = a[2][2] * a[3][3] - a[3][2] * a[2][3]
         /\ M!Cofactor(a, 1, 2) = a[3][2] * a[1][3] - a[1][2] * a[3][3]
         /\ M!Cofactor(a, 1, 3) = a[1][2] * a[2][3] - a[2][2] * a[1][3]
         /\ M!Cofactor(a, 2, 1) = a[2][3] * a[3][1] - a[3][3] * a[2][1]
         /\ M!Cofactor(a, 2, 2) = a[3][3] * a[1][1] - a[1][3] * a[3][1]
         /\ M!Cofactor(a, 2, 3) = a[1][3] * a[2][1] - a[2][3] * a[1][1]
         /\ M!Cofactor(a, 3, 1) = a[2][1] * a[3][2] - a[3][1] * a[2][2]
         /\ M!Cofactor(a, 3, 2) = a[3][1] * a[1][2] - a[1][1] * a[3][2]
         /\ M!Cofactor(a, 3, 3) = a[1][1] * a[2][2] - a[2][1] * a[1][2]
<1>1. 1 % 3 = 1 /\ 2 % 3 = 2 /\ 3 % 3 = 0
  OBVIOUS
<1>2. QED
  BY <1>1 DEF M!Cofactor

\* The nine cofactors are an inverse times the determinant, on both sides.
AdjugateOf(d, m11, m12, m13, m21, m22, m23, m31, m32, m33,
              v11, v12, v13, v21, v22, v23, v31, v32, v33) ==
  /\ m11 * v11 + m12 * v21 + m13 * v31 = d
  /\ m11 * v12 + m12 * v22 + m13 * v32 = 0
  /\ m11 * v13 + m12 * v23 + m13 * v33 = 0
  /\ m21 * v11 + m22 * v21 + m23 * v31 = 0
  /\ m21 * v12 + m22 * v22 + m23 * v32 = d
  /\ m21 * v13 + m22 * v23 + m23 * v33 = 0
  /\ m31 * v11 + m32 * v21 + m33 * v31 = 0
  /\ m31 * v12 + m32 * v22 + m33 * v32 = 0
  /\ m31 * v13 + m32 * v23 + m33 * v33 = d
  /\ v11 * m11 + v12 * m21 + v13 * m31 = d
  /\ v11 * m12 + v12 * m22 + v13 * m32 = 0
  /\ v11 * m13 + v12 * m23 + v13 * m33 = 0
  /\ v21 * m11 + v22 * m21 + v23 * m31 = 0
  /\ v21 * m12 + v22 * m22 + v23 * m32 = d
  /\ v21 * m13 + v22 * m23 + v23 * m33 = 0
  /\ v31 * m11 + v32 * m21 + v33 * m31 = 0
  /\ v31 * m12 + v32 * m22 + v33 * m32 = 0
  /\ v31 * m13 + v32 * m23 + v33 * m33 = d

LEMMA Adjugate ==
  ASSUME NEW m11 \in Int, NEW m12 \in Int, NEW m13 \in Int,
         NEW m21 \in Int, NEW m22 \in Int, NEW m23 \in Int,
         NEW m31 \in Int, NEW m32 \in Int, NEW m33 \in Int,
         NEW d, d = m11 * m22 * m33 + m12 * m23 * m31 + m13 * m21 * m32
                    - m13 * m22 * m31 - m12 * m21 * m33 - m11 * m23 * m32,
         NEW v11, v11 = m22 * m33 - m32 * m23, NEW v12, v12 = m32 * m13 - m12 * m33,
         NEW v13, v13 = m12 * m23 - m22 * m13, NEW v21, v21 = m23 * m31 - m33 * m21,
         NEW v22, v22 = m33 * m11 - m13 * m31, NEW v23, v23 = m13 * m21 - m23 * m11,
         NEW v31, v31 = m21 * m32 - m31 * m22, NEW v32, v32 = m31 * m12 - m11 * m32,
         NEW v33, v33 = m11 * m22 - m21 * m12
  PROVE  AdjugateOf(d, m11, m12, m13, m21, m22, m23, m31, m32, m33,
                       v11, v12, v13, v21, v22, v23, v31, v32, v33)
<1>1. /\ m11 * v11 + m12 * v21 + m13 * v31 = d
      /\ m11 * v12 + m12 * v22 + m13 * v32 = 0
      /\ m11 * v13 + m12 * v23 + m13 * v33 = 0
      /\ m21 * v11 + m22 * v21 + m23 * v31 = 0
      /\ m21 * v12 + m22 * v22 + m23 * v32 = d
      /\ m21 * v13 + m22 * v23 + m23 * v33 = 0
      /\ m31 * v11 + m32 * v21 + m33 * v31 = 0
      /\ m31 * v12 + m32 * v22 + m33 * v32 = 0
      /\ m31 * v13 + m32 * v23 + m33 * v33 = d
  OBVIOUS
<1>2. /\ v11 * m11 + v12 * m21 + v13 * m31 = d
      /\ v11 * m12 + v12 * m22 + v13 * m32 = 0
      /\ v11 * m13 + v12 * m23 + v13 * m33 = 0
      /\ v21 * m11 + v22 * m21 + v23 * m31 = 0
      /\ v21 * m12 + v22 * m22 + v23 * m32 = d
      /\ v21 * m13 + v22 * m23 + v23 * m33 = 0
      /\ v31 * m11 + v32 * m21 + v33 * m31 = 0
      /\ v31 * m12 + v32 * m22 + v33 * m32 = 0
      /\ v31 * m13 + v32 * m23 + v33 * m33 = d
  OBVIOUS
<1>3. QED
  BY <1>1, <1>2 DEF AdjugateOf

\* Multiplying by the determinant once more leaves one or zero.
ScaledOf(a, b, c, x, y, z, d) ==
  /\ a * x + b * y + c * z = d => a * (x * d) + b * (y * d) + c * (z * d) = 1
  /\ a * x + b * y + c * z = 0 => a * (x * d) + b * (y * d) + c * (z * d) = 0

\* For both signs of the determinant.
LEMMA Scaled ==
  ASSUME NEW a \in Int, NEW b \in Int, NEW c \in Int,
         NEW x \in Int, NEW y \in Int, NEW z \in Int, NEW d \in Int,
         d = 1 \/ d = -1
  PROVE  ScaledOf(a, b, c, x, y, z, d)
<1>1. CASE d = 1
  BY <1>1 DEF ScaledOf
<1>2. CASE d = -1
  <2>1. a * (x * d) + b * (y * d) + c * (z * d) = -(a * x + b * y + c * z)
    BY <1>2
  <2>2. QED
    BY <1>2, <2>1 DEF ScaledOf
<1>3. QED
  BY <1>1, <1>2

\* A row of one matrix and a column of translations that cancel.
LEMMA RowIsId ==
  ASSUME NEW a, AffineMatrix(a), NEW b, AffineMatrix(b),
         \A i \in 1 .. 3, j \in 1 .. 3 :
           a[i][1] * b[1][j] + a[i][2] * b[2][j] + a[i][3] * b[3][j] = IF i = j THEN 1 ELSE 0,
         \A i \in 1 .. 3 :
           a[i][1] * b[1][4] + a[i][2] * b[2][4] + a[i][3] * b[3][4] + a[i][4] = 0
  PROVE  M!RowMul(a, b) = M!Id4
<1>1. \A i \in 1 .. 4, j \in 1 .. 4 : a[i][j] \in Int /\ b[i][j] \in Int
  BY DEF AffineMatrix, Squares4, Fours
<1>2. b[4][1] = 0 /\ b[4][2] = 0 /\ b[4][3] = 0 /\ b[4][4] = 1
  BY DEF AffineMatrix
<1>3. a[4][1] = 0 /\ a[4][2] = 0 /\ a[4][3] = 0 /\ a[4][4] = 1
  BY DEF AffineMatrix
<1> DEFINE c == M!RowMul(a, b)
<1>4. c \in Squares4
      /\ \A i \in 1 .. 4, j \in 1 .. 4 :
              c[i][j] = a[i][1] * b[1][j] + a[i][2] * b[2][j] + a[i][3] * b[3][j]
                        + a[i][4] * b[4][j]
  BY RowMulIs DEF AffineMatrix
<1> HIDE DEF c
<1>5. ASSUME NEW i \in 1 .. 4, NEW j \in 1 .. 4
      PROVE  c[i][j] = IF i = j THEN 1 ELSE 0
  <2>1. c[i][j] = a[i][1] * b[1][j] + a[i][2] * b[2][j] + a[i][3] * b[3][j]
                  + a[i][4] * b[4][j]
    BY <1>4
  <2>2. CASE i = 4
    <3>1. c[i][j] = 0 * b[1][j] + 0 * b[2][j] + 0 * b[3][j] + 1 * b[4][j]
      BY <1>3, <2>1, <2>2
    <3>2. c[i][j] = b[4][j]
      <4>1. b[1][j] \in Int /\ b[2][j] \in Int /\ b[3][j] \in Int /\ b[4][j] \in Int
        BY <1>1
      <4>2. QED
        BY <3>1, <4>1
    <3>3. QED
      BY <1>2, <2>2, <3>2
  <2>3. CASE i # 4 /\ j # 4
    <3>1. i \in 1 .. 3 /\ j \in 1 .. 3
      BY <2>3
    <3>2. b[4][j] = 0 /\ a[i][4] * 0 = 0
      BY <1>1, <1>2, <3>1
    <3>3. a[i][1] * b[1][j] + a[i][2] * b[2][j] + a[i][3] * b[3][j] = IF i = j THEN 1 ELSE 0
      BY <3>1
    <3>4. QED
      BY <2>1, <3>2, <3>3
  <2>4. CASE i # 4 /\ j = 4
    <3>1. i \in 1 .. 3
      BY <2>4
    <3>2. a[i][4] * b[4][j] = a[i][4]
      BY <1>1, <1>2, <2>4
    <3>3. a[i][1] * b[1][4] + a[i][2] * b[2][4] + a[i][3] * b[3][4] + a[i][4] = 0
      BY <3>1
    <3>4. QED
      BY <2>1, <2>4, <3>2, <3>3
  <2>5. QED
    BY <2>2, <2>3, <2>4
<1>6. \A i \in 1 .. 4 : c[i] = [j \in 1 .. 4 |-> IF i = j THEN 1 ELSE 0]
  BY <1>4, <1>5 DEF Squares4, Fours
<1>7. c = M!Id4
  BY <1>4, <1>6 DEF Squares4, M!Id4
<1>8. QED
  BY <1>7 DEF c

\* The offset of the inverse takes back that of the matrix.
LEMMA Cancels ==
  ASSUME NEW a1 \in Int, NEW a2 \in Int, NEW a3 \in Int,
         NEW t1 \in Int, NEW t2 \in Int, NEW t3 \in Int,
         NEW v11 \in Int, NEW v12 \in Int, NEW v13 \in Int,
         NEW v21 \in Int, NEW v22 \in Int, NEW v23 \in Int,
         NEW v31 \in Int, NEW v32 \in Int, NEW v33 \in Int,
         NEW e1 \in Int, e1 = a1 * v11 + a2 * v21 + a3 * v31,
         NEW e2 \in Int, e2 = a1 * v12 + a2 * v22 + a3 * v32,
         NEW e3 \in Int, e3 = a1 * v13 + a2 * v23 + a3 * v33
  PROVE  a1 * (-(t1 * v11 + t2 * v12 + t3 * v13))
         + a2 * (-(t1 * v21 + t2 * v22 + t3 * v23))
         + a3 * (-(t1 * v31 + t2 * v32 + t3 * v33))
         = -(t1 * e1 + t2 * e2 + t3 * e3)
OBVIOUS

\* inverse_affine is the inverse from both sides.
LEMMA InverseSound ==
  ASSUME M!MathAssumption, NEW a \in M!Affine
  PROVE  LET got == M!InverseAffine(a)
         IN  M!RowMul(a, got) = M!Id4 /\ M!RowMul(got, a) = M!Id4
<1>1. PICK m \in Linear, t \in Offsets : a = M!At3(m, t)
  BY DEF M!Affine
<1>2. m \in Squares3 /\ M!Determinant(m) \in {1, -1}
  BY <1>1 DEF M!MathAssumption, Squares3, Triples
<1>3. t \in Triples
  BY <1>1 DEF M!MathAssumption, M!Points, Triples
<1>4. AffineMatrix(a)
  BY AffineIs
<1>5. \A i \in 1 .. 3 : /\ a[i][1] = m[i][1] /\ a[i][2] = m[i][2] /\ a[i][3] = m[i][3]
                       /\ a[i][4] = t[i]
  BY <1>1, <1>2, <1>3, AtIs
<1>6. \A i \in 1 .. 4, j \in 1 .. 4 : a[i][j] \in Int
  BY <1>4 DEF AffineMatrix, Squares4, Fours
<1> DEFINE d == M!Determinant(m)
           v(i, j) == M!Cofactor(a, i, j)
           r == [i \in 1 .. 3 |-> [j \in 1 .. 3 |-> v(i, j) * d]]
           s == <<a[1][4], a[2][4], a[3][4]>>
           u == [i \in 1 .. 3 |-> -M!Dot3(s, r[i])]
           z == M!At3(r, u)
<1>7. d = a[1][1] * a[2][2] * a[3][3] + a[1][2] * a[2][3] * a[3][1]
          + a[1][3] * a[2][1] * a[3][2] - a[1][3] * a[2][2] * a[3][1]
          - a[1][2] * a[2][1] * a[3][3] - a[1][1] * a[2][3] * a[3][2]
  BY <1>5 DEF M!Determinant
<1>8. d \in {1, -1}
  BY <1>2
<1>9. \A i \in 1 .. 3, j \in 1 .. 3 : v(i, j) \in Int
  <2>1. a[1][1] \in Int /\ a[1][2] \in Int /\ a[1][3] \in Int
        /\ a[2][1] \in Int /\ a[2][2] \in Int /\ a[2][3] \in Int
        /\ a[3][1] \in Int /\ a[3][2] \in Int /\ a[3][3] \in Int
    BY <1>6
  <2>2. /\ v(1, 1) \in Int /\ v(1, 2) \in Int /\ v(1, 3) \in Int
        /\ v(2, 1) \in Int /\ v(2, 2) \in Int /\ v(2, 3) \in Int
        /\ v(3, 1) \in Int /\ v(3, 2) \in Int /\ v(3, 3) \in Int
    BY <2>1, CofactorIs
  <2>3. QED
    BY <2>2
<1> HIDE DEF d
<1>10. ASSUME NEW i \in 1 .. 3, NEW j \in 1 .. 3
       PROVE  /\ a[i][1] * v(1, j) + a[i][2] * v(2, j) + a[i][3] * v(3, j)
                   = IF i = j THEN d ELSE 0
              /\ v(i, 1) * a[1][j] + v(i, 2) * a[2][j] + v(i, 3) * a[3][j]
                   = IF i = j THEN d ELSE 0
  <2>1. a[1][1] \in Int /\ a[1][2] \in Int /\ a[1][3] \in Int
        /\ a[2][1] \in Int /\ a[2][2] \in Int /\ a[2][3] \in Int
        /\ a[3][1] \in Int /\ a[3][2] \in Int /\ a[3][3] \in Int
    BY <1>6
  <2>0. AdjugateOf(d, a[1][1], a[1][2], a[1][3], a[2][1], a[2][2], a[2][3],
                  a[3][1], a[3][2], a[3][3],
                  v(1, 1), v(1, 2), v(1, 3), v(2, 1), v(2, 2), v(2, 3),
                  v(3, 1), v(3, 2), v(3, 3))
    BY <1>7, <2>1, CofactorIs, Adjugate
  <2>2. /\ a[1][1] * v(1, 1) + a[1][2] * v(2, 1) + a[1][3] * v(3, 1) = d
        /\ a[1][1] * v(1, 2) + a[1][2] * v(2, 2) + a[1][3] * v(3, 2) = 0
        /\ a[1][1] * v(1, 3) + a[1][2] * v(2, 3) + a[1][3] * v(3, 3) = 0
        /\ a[2][1] * v(1, 1) + a[2][2] * v(2, 1) + a[2][3] * v(3, 1) = 0
        /\ a[2][1] * v(1, 2) + a[2][2] * v(2, 2) + a[2][3] * v(3, 2) = d
        /\ a[2][1] * v(1, 3) + a[2][2] * v(2, 3) + a[2][3] * v(3, 3) = 0
        /\ a[3][1] * v(1, 1) + a[3][2] * v(2, 1) + a[3][3] * v(3, 1) = 0
        /\ a[3][1] * v(1, 2) + a[3][2] * v(2, 2) + a[3][3] * v(3, 2) = 0
        /\ a[3][1] * v(1, 3) + a[3][2] * v(2, 3) + a[3][3] * v(3, 3) = d
        /\ v(1, 1) * a[1][1] + v(1, 2) * a[2][1] + v(1, 3) * a[3][1] = d
        /\ v(1, 1) * a[1][2] + v(1, 2) * a[2][2] + v(1, 3) * a[3][2] = 0
        /\ v(1, 1) * a[1][3] + v(1, 2) * a[2][3] + v(1, 3) * a[3][3] = 0
        /\ v(2, 1) * a[1][1] + v(2, 2) * a[2][1] + v(2, 3) * a[3][1] = 0
        /\ v(2, 1) * a[1][2] + v(2, 2) * a[2][2] + v(2, 3) * a[3][2] = d
        /\ v(2, 1) * a[1][3] + v(2, 2) * a[2][3] + v(2, 3) * a[3][3] = 0
        /\ v(3, 1) * a[1][1] + v(3, 2) * a[2][1] + v(3, 3) * a[3][1] = 0
        /\ v(3, 1) * a[1][2] + v(3, 2) * a[2][2] + v(3, 3) * a[3][2] = 0
        /\ v(3, 1) * a[1][3] + v(3, 2) * a[2][3] + v(3, 3) * a[3][3] = d
    BY <2>0 DEF AdjugateOf
  <2>3. i \in {1, 2, 3} /\ j \in {1, 2, 3}
    OBVIOUS
  <2> HIDE DEF v
  <2>4. QED
    BY <2>2, <2>3
<1>10a. d = a[1][1] * v(1, 1) + a[1][2] * v(2, 1) + a[1][3] * v(3, 1)
  BY <1>10
<1>10b. ASSUME NEW i \in 1 .. 3, NEW j \in 1 .. 3
        PROVE  /\ a[i][1] * (v(1, j) * d) + a[i][2] * (v(2, j) * d) + a[i][3] * (v(3, j) * d)
                    = IF i = j THEN 1 ELSE 0
               /\ (v(i, 1) * d) * a[1][j] + (v(i, 2) * d) * a[2][j] + (v(i, 3) * d) * a[3][j]
                    = IF i = j THEN 1 ELSE 0
  <2>0. d \in Int /\ (d = 1 \/ d = -1)
    BY <1>8
  <2>1. a[i][1] \in Int /\ a[i][2] \in Int /\ a[i][3] \in Int
        /\ a[1][j] \in Int /\ a[2][j] \in Int /\ a[3][j] \in Int
    BY <1>6
  <2>2. v(1, j) \in Int /\ v(2, j) \in Int /\ v(3, j) \in Int
        /\ v(i, 1) \in Int /\ v(i, 2) \in Int /\ v(i, 3) \in Int
    BY <1>9
  <2> HIDE DEF v
  <2>3. a[i][1] * (v(1, j) * d) + a[i][2] * (v(2, j) * d) + a[i][3] * (v(3, j) * d)
          = IF i = j THEN 1 ELSE 0
    <3>1. ScaledOf(a[i][1], a[i][2], a[i][3], v(1, j), v(2, j), v(3, j), d)
      BY <2>0, <2>1, <2>2, Scaled
    <3>2. QED
      BY <1>10, <3>1, Zenon DEF ScaledOf
  <2>4. a[1][j] * (v(i, 1) * d) + a[2][j] * (v(i, 2) * d) + a[3][j] * (v(i, 3) * d)
          = IF i = j THEN 1 ELSE 0
    <3>1. a[1][j] * v(i, 1) + a[2][j] * v(i, 2) + a[3][j] * v(i, 3) = IF i = j THEN d ELSE 0
      BY <1>10, <2>1, <2>2
    <3>2. ScaledOf(a[1][j], a[2][j], a[3][j], v(i, 1), v(i, 2), v(i, 3), d)
      BY <2>0, <2>1, <2>2, Scaled
    <3>3. QED
      BY <3>1, <3>2, Zenon DEF ScaledOf
  <2>5. d \in Int
    BY <1>8
  <2>6. (v(i, 1) * d) * a[1][j] + (v(i, 2) * d) * a[2][j] + (v(i, 3) * d) * a[3][j]
          = a[1][j] * (v(i, 1) * d) + a[2][j] * (v(i, 2) * d) + a[3][j] * (v(i, 3) * d)
    BY <2>1, <2>2, <2>5
  <2>7. QED
    BY <2>3, <2>4, <2>6
<1>11. M!InverseAffine(a) = z
  BY <1>10a DEF M!InverseAffine
<1>12. \A i \in 1 .. 3, j \in 1 .. 3 : r[i][j] = v(i, j) * d /\ r[i][j] \in Int
  BY <1>8, <1>9
<1>13. r \in Squares3
  BY <1>12 DEF Squares3, Triples
<1>14. \A i \in 1 .. 3 : u[i] = -(a[1][4] * r[i][1] + a[2][4] * r[i][2] + a[3][4] * r[i][3])
  BY DEF M!Dot3
<1>15. \A i \in 1 .. 3 : u[i] \in Int
  <2> SUFFICES ASSUME NEW i \in 1 .. 3 PROVE u[i] \in Int
    OBVIOUS
  <2>1. a[1][4] \in Int /\ a[2][4] \in Int /\ a[3][4] \in Int
    BY <1>6
  <2>2. r[i][1] \in Int /\ r[i][2] \in Int /\ r[i][3] \in Int
    BY <1>12
  <2> HIDE DEF r, u
  <2>3. QED
    BY <1>14, <2>1, <2>2
<1>16. u \in Triples
  BY <1>15 DEF Triples
<1> HIDE DEF r, u, v
<1>17. AffineMatrix(z)
       /\ \A i \in 1 .. 3 : /\ z[i][1] = r[i][1] /\ z[i][2] = r[i][2] /\ z[i][3] = r[i][3]
                           /\ z[i][4] = u[i]
  BY <1>13, <1>16, AtIs DEF AffineMatrix
<1> HIDE DEF z
<1>18. ASSUME NEW i \in 1 .. 3, NEW j \in 1 .. 3
       PROVE  /\ a[i][1] * z[1][j] + a[i][2] * z[2][j] + a[i][3] * z[3][j]
                   = IF i = j THEN 1 ELSE 0
              /\ z[i][1] * a[1][j] + z[i][2] * a[2][j] + z[i][3] * a[3][j]
                   = IF i = j THEN 1 ELSE 0
  <2>1. \A k \in 1 .. 3 : z[k][j] = v(k, j) * d
    BY <1>12, <1>17
  <2>2. \A k \in 1 .. 3 : z[i][k] = v(i, k) * d
    BY <1>12, <1>17
  <2>3. QED
    BY <1>10b, <2>1, <2>2
<1>19. ASSUME NEW i \in 1 .. 3
       PROVE  /\ a[i][1] * z[1][4] + a[i][2] * z[2][4] + a[i][3] * z[3][4] + a[i][4] = 0
              /\ z[i][1] * a[1][4] + z[i][2] * a[2][4] + z[i][3] * a[3][4] + z[i][4] = 0
  <2>1. \A k \in 1 .. 3 :
          z[k][4] = -(a[1][4] * z[k][1] + a[2][4] * z[k][2] + a[3][4] * z[k][3])
    BY <1>14, <1>17
  <2>2. \A k, l \in 1 .. 3 : z[k][l] \in Int /\ a[k][l] \in Int /\ a[k][4] \in Int
    BY <1>6, <1>17 DEF AffineMatrix, Squares4, Fours
  <2>3. /\ a[i][1] \in Int /\ a[i][2] \in Int /\ a[i][3] \in Int /\ a[i][4] \in Int
        /\ a[1][4] \in Int /\ a[2][4] \in Int /\ a[3][4] \in Int
        /\ z[1][1] \in Int /\ z[1][2] \in Int /\ z[1][3] \in Int
        /\ z[2][1] \in Int /\ z[2][2] \in Int /\ z[2][3] \in Int
        /\ z[3][1] \in Int /\ z[3][2] \in Int /\ z[3][3] \in Int
        /\ z[i][1] \in Int /\ z[i][2] \in Int /\ z[i][3] \in Int
    BY <2>2
  <2> DEFINE e(k) == a[i][1] * z[1][k] + a[i][2] * z[2][k] + a[i][3] * z[3][k]
  <2>4. /\ e(1) = IF i = 1 THEN 1 ELSE 0
        /\ e(2) = IF i = 2 THEN 1 ELSE 0
        /\ e(3) = IF i = 3 THEN 1 ELSE 0
    BY <1>18
  <2>5. e(1) \in Int /\ e(2) \in Int /\ e(3) \in Int
    BY <2>4
  <2>6. a[i][1] * z[1][4] + a[i][2] * z[2][4] + a[i][3] * z[3][4]
          = -(a[1][4] * e(1) + a[2][4] * e(2) + a[3][4] * e(3))
    <3> DEFINE w(k) == -(a[1][4] * z[k][1] + a[2][4] * z[k][2] + a[3][4] * z[k][3])
    <3>1. a[i][1] * w(1) + a[i][2] * w(2) + a[i][3] * w(3)
            = -(a[1][4] * e(1) + a[2][4] * e(2) + a[3][4] * e(3))
      BY <2>3, <2>5, Cancels
    <3>2. z[1][4] = w(1) /\ z[2][4] = w(2) /\ z[3][4] = w(3)
      BY <2>1
    <3> HIDE DEF w, e
    <3>3. QED
      BY <3>1, <3>2
  <2> HIDE DEF e
  <2>7. a[1][4] * e(1) + a[2][4] * e(2) + a[3][4] * e(3) = a[i][4]
    BY <2>3, <2>4
  <2>8. a[i][1] * z[1][4] + a[i][2] * z[2][4] + a[i][3] * z[3][4] + a[i][4] = 0
    BY <2>3, <2>6, <2>7
  <2>9. z[i][4] = -(a[1][4] * z[i][1] + a[2][4] * z[i][2] + a[3][4] * z[i][3])
    BY <2>1
  <2>10. z[i][1] * a[1][4] + z[i][2] * a[2][4] + z[i][3] * a[3][4] + z[i][4] = 0
    BY <2>3, <2>9
  <2>11. QED
    BY <2>8, <2>10
<1>20. M!RowMul(a, z) = M!Id4
  BY <1>4, <1>17, <1>18, <1>19, RowIsId
<1>21. M!RowMul(z, a) = M!Id4
  BY <1>4, <1>17, <1>18, <1>19, RowIsId
<1>22. QED
  BY <1>11, <1>20, <1>21

\* The four parts of a unit quaternion.
LEMMA QuatParts ==
  ASSUME NEW q \in Fours
  PROVE  q = <<q[1], q[2], q[3], q[4]>> /\ q[1] \in Int /\ q[2] \in Int /\ q[3] \in Int
         /\ q[4] \in Int
BY DEF Fours

\* A quadruple by its parts.
LEMMA TupleIs ==
  ASSUME NEW a \in Int, NEW b \in Int, NEW c \in Int, NEW d \in Int
  PROVE  <<a, b, c, d>> \in Fours
BY DEF Fours

\* The product of quaternions is one.
LEMMA QuatMulType ==
  ASSUME NEW q \in Fours, NEW o \in Fours
  PROVE  M!QuatMul(q, o) \in Fours /\ M!Conj(q) \in Fours
<1>1. /\ q[1] \in Int /\ q[2] \in Int /\ q[3] \in Int /\ q[4] \in Int
      /\ o[1] \in Int /\ o[2] \in Int /\ o[3] \in Int /\ o[4] \in Int
  BY DEF Fours
<1>2. /\ q[4] * o[1] + q[1] * o[4] + q[2] * o[3] - q[3] * o[2] \in Int
      /\ q[4] * o[2] - q[1] * o[3] + q[2] * o[4] + q[3] * o[1] \in Int
      /\ q[4] * o[3] + q[1] * o[2] - q[2] * o[1] + q[3] * o[4] \in Int
      /\ q[4] * o[4] - q[1] * o[1] - q[2] * o[2] - q[3] * o[3] \in Int
      /\ -q[1] \in Int /\ -q[2] \in Int /\ -q[3] \in Int
  BY <1>1
<1>3. M!QuatMul(q, o) \in Fours
  BY <1>2, TupleIs DEF M!QuatMul
<1>4. M!Conj(q) \in Fours
  BY <1>1, <1>2, TupleIs DEF M!Conj
<1>5. QED
  BY <1>3, <1>4

\* The product of quaternions associates.
LEMMA QuatAssociates ==
  ASSUME NEW q \in Fours, NEW o \in Fours, NEW p \in Fours
  PROVE  M!QuatMul(M!QuatMul(q, o), p) = M!QuatMul(q, M!QuatMul(o, p))
<1>1. PICK a1 \in Int, a2 \in Int, a3 \in Int, a4 \in Int : q = <<a1, a2, a3, a4>>
  BY QuatParts
<1>2. PICK b1 \in Int, b2 \in Int, b3 \in Int, b4 \in Int : o = <<b1, b2, b3, b4>>
  BY QuatParts
<1>3. PICK c1 \in Int, c2 \in Int, c3 \in Int, c4 \in Int : p = <<c1, c2, c3, c4>>
  BY QuatParts
<1> DEFINE x1 == a4 * b1 + a1 * b4 + a2 * b3 - a3 * b2
           x2 == a4 * b2 - a1 * b3 + a2 * b4 + a3 * b1
           x3 == a4 * b3 + a1 * b2 - a2 * b1 + a3 * b4
           x4 == a4 * b4 - a1 * b1 - a2 * b2 - a3 * b3
           y1 == b4 * c1 + b1 * c4 + b2 * c3 - b3 * c2
           y2 == b4 * c2 - b1 * c3 + b2 * c4 + b3 * c1
           y3 == b4 * c3 + b1 * c2 - b2 * c1 + b3 * c4
           y4 == b4 * c4 - b1 * c1 - b2 * c2 - b3 * c3
<1>4. M!QuatMul(q, o) = <<x1, x2, x3, x4>>
  BY <1>1, <1>2 DEF M!QuatMul
<1>5. M!QuatMul(o, p) = <<y1, y2, y3, y4>>
  BY <1>2, <1>3 DEF M!QuatMul
<1>6. M!QuatMul(M!QuatMul(q, o), p) =
        << x4 * c1 + x1 * c4 + x2 * c3 - x3 * c2, x4 * c2 - x1 * c3 + x2 * c4 + x3 * c1,
           x4 * c3 + x1 * c2 - x2 * c1 + x3 * c4, x4 * c4 - x1 * c1 - x2 * c2 - x3 * c3 >>
  BY <1>3, <1>4 DEF M!QuatMul
<1>7. M!QuatMul(q, M!QuatMul(o, p)) =
        << a4 * y1 + a1 * y4 + a2 * y3 - a3 * y2, a4 * y2 - a1 * y3 + a2 * y4 + a3 * y1,
           a4 * y3 + a1 * y2 - a2 * y1 + a3 * y4, a4 * y4 - a1 * y1 - a2 * y2 - a3 * y3 >>
  BY <1>1, <1>5 DEF M!QuatMul
<1>8. /\ x4 * c1 + x1 * c4 + x2 * c3 - x3 * c2 = a4 * y1 + a1 * y4 + a2 * y3 - a3 * y2
      /\ x4 * c2 - x1 * c3 + x2 * c4 + x3 * c1 = a4 * y2 - a1 * y3 + a2 * y4 + a3 * y1
      /\ x4 * c3 + x1 * c2 - x2 * c1 + x3 * c4 = a4 * y3 + a1 * y2 - a2 * y1 + a3 * y4
      /\ x4 * c4 - x1 * c1 - x2 * c2 - x3 * c3 = a4 * y4 - a1 * y1 - a2 * y2 - a3 * y3
  BY <1>1, <1>2, <1>3
<1> HIDE DEF x1, x2, x3, x4, y1, y2, y3, y4
<1>9. QED
  BY <1>6, <1>7, <1>8

\* The conjugate of a product is the product of conjugates, reversed.
LEMMA ConjOfProduct ==
  ASSUME NEW q \in Fours, NEW o \in Fours
  PROVE  M!Conj(M!QuatMul(q, o)) = M!QuatMul(M!Conj(o), M!Conj(q))
<1>1. PICK a1 \in Int, a2 \in Int, a3 \in Int, a4 \in Int : q = <<a1, a2, a3, a4>>
  BY QuatParts
<1>2. PICK b1 \in Int, b2 \in Int, b3 \in Int, b4 \in Int : o = <<b1, b2, b3, b4>>
  BY QuatParts
<1>3. M!Conj(M!QuatMul(q, o)) =
        << -(a4 * b1 + a1 * b4 + a2 * b3 - a3 * b2), -(a4 * b2 - a1 * b3 + a2 * b4 + a3 * b1),
           -(a4 * b3 + a1 * b2 - a2 * b1 + a3 * b4), a4 * b4 - a1 * b1 - a2 * b2 - a3 * b3 >>
  BY <1>1, <1>2 DEF M!Conj, M!QuatMul
<1>4. M!Conj(q) = <<-a1, -a2, -a3, a4>> /\ M!Conj(o) = <<-b1, -b2, -b3, b4>>
  BY <1>1, <1>2 DEF M!Conj
<1>5. M!QuatMul(M!Conj(o), M!Conj(q)) =
        << b4 * (-a1) + (-b1) * a4 + (-b2) * (-a3) - (-b3) * (-a2),
           b4 * (-a2) - (-b1) * (-a3) + (-b2) * a4 + (-b3) * (-a1),
           b4 * (-a3) + (-b1) * (-a2) - (-b2) * (-a1) + (-b3) * a4,
           b4 * a4 - (-b1) * (-a1) - (-b2) * (-a2) - (-b3) * (-a3) >>
  BY <1>4 DEF M!QuatMul
<1>6. /\ -(a4 * b1 + a1 * b4 + a2 * b3 - a3 * b2)
           = b4 * (-a1) + (-b1) * a4 + (-b2) * (-a3) - (-b3) * (-a2)
      /\ -(a4 * b2 - a1 * b3 + a2 * b4 + a3 * b1)
           = b4 * (-a2) - (-b1) * (-a3) + (-b2) * a4 + (-b3) * (-a1)
      /\ -(a4 * b3 + a1 * b2 - a2 * b1 + a3 * b4)
           = b4 * (-a3) + (-b1) * (-a2) - (-b2) * (-a1) + (-b3) * a4
      /\ a4 * b4 - a1 * b1 - a2 * b2 - a3 * b3
           = b4 * a4 - (-b1) * (-a1) - (-b2) * (-a2) - (-b3) * (-a3)
  BY <1>1, <1>2
<1>7. QED
  BY <1>3, <1>5, <1>6

\* A turned vector is a vector again, its coordinates quadratic in the quaternion.
LEMMA TurnIs ==
  ASSUME NEW q \in Fours, NEW p \in Triples
  PROVE  LET full == M!QuatMul(M!QuatMul(q, Append(p, 0)), M!Conj(q))
         IN  /\ M!Turn(q, p) \in Triples
             /\ full = Append(M!Turn(q, p), 0)
             /\ M!Turn(q, p)[1] =
                  (q[4] * q[4] + q[1] * q[1] - q[2] * q[2] - q[3] * q[3]) * p[1]
                  + 2 * (q[1] * q[2] - q[4] * q[3]) * p[2]
                  + 2 * (q[1] * q[3] + q[4] * q[2]) * p[3]
             /\ M!Turn(q, p)[2] =
                  2 * (q[1] * q[2] + q[4] * q[3]) * p[1]
                  + (q[4] * q[4] - q[1] * q[1] + q[2] * q[2] - q[3] * q[3]) * p[2]
                  + 2 * (q[2] * q[3] - q[4] * q[1]) * p[3]
             /\ M!Turn(q, p)[3] =
                  2 * (q[1] * q[3] - q[4] * q[2]) * p[1]
                  + 2 * (q[2] * q[3] + q[4] * q[1]) * p[2]
                  + (q[4] * q[4] - q[1] * q[1] - q[2] * q[2] + q[3] * q[3]) * p[3]
<1>1. PICK a1 \in Int, a2 \in Int, a3 \in Int, a4 \in Int : q = <<a1, a2, a3, a4>>
  BY QuatParts
<1>2. PICK p1 \in Int, p2 \in Int, p3 \in Int : p[1] = p1 /\ p[2] = p2 /\ p[3] = p3
  BY DEF Triples
<1>3. Append(p, 0) = <<p1, p2, p3, 0>>
  <2>1. Append(p, 0) \in Fours /\ Append(p, 0)[1] = p1 /\ Append(p, 0)[2] = p2
        /\ Append(p, 0)[3] = p3 /\ Append(p, 0)[4] = 0
    BY <1>2, AppendIs
  <2>2. QED
    BY <2>1, QuatParts
<1>3a. PICK p4 \in Int : p4 = 0
  OBVIOUS
<1>3b. PICK n1 \in Int, n2 \in Int, n3 \in Int : n1 = -a1 /\ n2 = -a2 /\ n3 = -a3
  BY <1>1
<1> DEFINE v == Append(p, 0)
<1>3c. v = <<p1, p2, p3, p4>>
  BY <1>3, <1>3a
<1> HIDE DEF v
<1> DEFINE x1 == a4 * p1 + a1 * p4 + a2 * p3 - a3 * p2
           x2 == a4 * p2 - a1 * p3 + a2 * p4 + a3 * p1
           x3 == a4 * p3 + a1 * p2 - a2 * p1 + a3 * p4
           x4 == a4 * p4 - a1 * p1 - a2 * p2 - a3 * p3
<1> DEFINE g == M!QuatMul(q, v)
           h == M!Conj(q)
<1>4. g = <<x1, x2, x3, x4>>
  BY <1>1, <1>3c DEF M!QuatMul
<1>5. h = <<n1, n2, n3, a4>>
  BY <1>1, <1>3b DEF M!Conj
<1> HIDE DEF g, h
<1> DEFINE full == M!QuatMul(g, h)
           y1 == x4 * n1 + x1 * a4 + x2 * n3 - x3 * n2
           y2 == x4 * n2 - x1 * n3 + x2 * a4 + x3 * n1
           y3 == x4 * n3 + x1 * n2 - x2 * n1 + x3 * a4
           y4 == x4 * a4 - x1 * n1 - x2 * n2 - x3 * n3
<1>6. full = <<y1, y2, y3, y4>>
  <2> HIDE DEF x1, x2, x3, x4
  <2>1. QED
    BY <1>4, <1>5 DEF M!QuatMul
<1>7. y4 = 0
  BY <1>1, <1>2, <1>3a, <1>3b
<1>8. /\ y1 = (a4 * a4 + a1 * a1 - a2 * a2 - a3 * a3) * p1 + 2 * (a1 * a2 - a4 * a3) * p2
              + 2 * (a1 * a3 + a4 * a2) * p3
      /\ y2 = 2 * (a1 * a2 + a4 * a3) * p1 + (a4 * a4 - a1 * a1 + a2 * a2 - a3 * a3) * p2
              + 2 * (a2 * a3 - a4 * a1) * p3
      /\ y3 = 2 * (a1 * a3 - a4 * a2) * p1 + 2 * (a2 * a3 + a4 * a1) * p2
              + (a4 * a4 - a1 * a1 - a2 * a2 + a3 * a3) * p3
  BY <1>1, <1>2, <1>3a, <1>3b
<1>9. y1 \in Int /\ y2 \in Int /\ y3 \in Int
  BY <1>1, <1>2, <1>3a, <1>3b
<1> HIDE DEF y1, y2, y3, y4
<1> DEFINE t == SubSeq(full, 1, 3)
<1>10. M!Turn(q, p) = t
  BY DEF M!Turn, g, h, v
<1>11. \A i \in 1 .. 3 : full[i] \in Int
  BY <1>6, <1>9
<1> HIDE DEF full
<1>12. t \in Seq(Int) /\ Len(t) = 3 /\ \A i \in 1 .. 3 : t[i] = full[i]
  BY <1>11, SubSeqProperties
<1> HIDE DEF t
<1>13. t \in Triples
  BY <1>12, LenProperties DEF Triples
<1>14. t[1] = y1 /\ t[2] = y2 /\ t[3] = y3
  BY <1>6, <1>12
<1>15. full = Append(t, 0)
  <2>1. full \in Fours /\ full[1] = y1 /\ full[2] = y2 /\ full[3] = y3 /\ full[4] = 0
    BY <1>6, <1>7, <1>9, TupleIs
  <2>2. Append(t, 0) \in Fours
    BY <1>13, AppendIs
  <2>3. Append(t, 0)[1] = y1 /\ Append(t, 0)[2] = y2 /\ Append(t, 0)[3] = y3 /\ Append(t, 0)[4] = 0
    BY <1>13, <1>14, AppendIs
  <2>4. QED
    BY <2>1, <2>2, <2>3, QuatParts
<1>16. q[1] = a1 /\ q[2] = a2 /\ q[3] = a3 /\ q[4] = a4
  BY <1>1
<1>17. QED
  BY <1>2, <1>8, <1>10, <1>13, <1>14, <1>15, <1>16 DEF full, g, h, v

\* What the run asks of quaternions.
LEMMA QuatSound ==
  ASSUME M!MathAssumption, NEW q \in Units, NEW o \in Units
  PROVE  \A p \in Offsets : M!Turn(M!QuatMul(q, o), p) = M!Turn(q, M!Turn(o, p))
<1> SUFFICES ASSUME NEW p \in Offsets
             PROVE  M!Turn(M!QuatMul(q, o), p) = M!Turn(q, M!Turn(o, p))
  OBVIOUS
<1>1. q \in Fours /\ o \in Fours
  BY DEF M!MathAssumption, Fours
<1>2. p \in Triples
  BY DEF M!MathAssumption, M!Points, Triples
<1> DEFINE v == Append(p, 0)
           w == M!Turn(o, p)
           qo == M!QuatMul(q, o)
           cq == M!Conj(q)
           co == M!Conj(o)
<1>3. v \in Fours
  BY <1>2, AppendIs
<1>4. M!QuatMul(M!QuatMul(o, v), co) = Append(w, 0) /\ w \in Triples
  BY <1>1, <1>2, TurnIs
<1>5. cq \in Fours /\ co \in Fours /\ qo \in Fours /\ M!QuatMul(o, v) \in Fours
      /\ M!QuatMul(qo, v) \in Fours
  BY <1>1, <1>3, QuatMulType
<1>6. M!Conj(qo) = M!QuatMul(co, cq)
  BY <1>1, ConjOfProduct
<1>7. M!QuatMul(M!QuatMul(qo, v), M!QuatMul(co, cq))
        = M!QuatMul(M!QuatMul(M!QuatMul(qo, v), co), cq)
  BY <1>5, QuatAssociates
<1>8. M!QuatMul(qo, v) = M!QuatMul(q, M!QuatMul(o, v))
  BY <1>1, <1>3, QuatAssociates
<1>9. M!QuatMul(M!QuatMul(q, M!QuatMul(o, v)), co) = M!QuatMul(q, Append(w, 0))
  <2>1. M!QuatMul(M!QuatMul(q, M!QuatMul(o, v)), co) = M!QuatMul(q, M!QuatMul(M!QuatMul(o, v), co))
    BY <1>1, <1>5, QuatAssociates
  <2>2. QED
    BY <1>4, <2>1
<1>10. M!QuatMul(M!QuatMul(qo, v), M!Conj(qo)) = M!QuatMul(M!QuatMul(q, Append(w, 0)), cq)
  BY <1>6, <1>7, <1>8, <1>9
<1>11. M!Turn(qo, p) = SubSeq(M!QuatMul(M!QuatMul(qo, v), M!Conj(qo)), 1, 3)
  BY DEF M!Turn
<1>12. M!Turn(q, w) = SubSeq(M!QuatMul(M!QuatMul(q, Append(w, 0)), cq), 1, 3)
  BY DEF M!Turn
<1>13. QED
  BY <1>10, <1>11, <1>12

\* An integer quaternion of length one turns by nothing or by a half.
LEMMA UnitProducts ==
  ASSUME NEW x \in Int, NEW y \in Int, NEW z \in Int, NEW w \in Int,
         x * x + y * y + z * z + w * w = 1
  PROVE  /\ x * y = 0 /\ x * z = 0 /\ y * z = 0 /\ w * x = 0 /\ w * y = 0 /\ w * z = 0
         /\ 1 - (2 * y * y + 2 * z * z) \in {1, -1}
         /\ 1 - (2 * x * x + 2 * z * z) \in {1, -1}
         /\ 1 - (2 * x * x + 2 * y * y) \in {1, -1}
<1>1. x * x >= 0 /\ y * y >= 0 /\ z * z >= 0 /\ w * w >= 0
  OBVIOUS
<1>2. x * x <= 1 /\ y * y <= 1 /\ z * z <= 1 /\ w * w <= 1
  BY <1>1
<1>3. \A n \in Int : n * n <= 1 => n \in {-1, 0, 1}
  OBVIOUS
<1>4. x \in {-1, 0, 1} /\ y \in {-1, 0, 1} /\ z \in {-1, 0, 1} /\ w \in {-1, 0, 1}
  BY <1>2, <1>3
<1>5. QED
  BY <1>4

\* What GeometrySound says of from_trs.
Stretches(got, m) ==
  M!Alike(m[2]) => \A p \in Offsets :
    LET to == M!TransformPoint(got, p)
        u == [i \in 1 .. 3 |-> to[i] - m[1][i]]
    IN  M!Dot3(u, u) = m[2][1] * m[2][1] * M!Dot3(p, p)

\* from_trs moves the origin to t and stretches distances from it by the scale.
LEMMA TrsSound ==
  ASSUME M!MathAssumption, NEW r \in Units, NEW m \in Offsets \X Offsets
  PROVE  Stretches(M!FromTrs(m[1], r, m[2]), m)
<1> SUFFICES ASSUME M!Alike(m[2]), NEW p \in Offsets, NEW to, NEW u,
                    to = M!TransformPoint(M!FromTrs(m[1], r, m[2]), p),
                    u = [i \in 1 .. 3 |-> to[i] - m[1][i]]
             PROVE  M!Dot3(u, u) = m[2][1] * m[2][1] * M!Dot3(p, p)
  BY DEF Stretches
<1>1. r \in Fours /\ r[1] * r[1] + r[2] * r[2] + r[3] * r[3] + r[4] * r[4] = 1
  BY DEF M!MathAssumption, Fours
<1>2. p \in Triples /\ m[1] \in Triples /\ m[2] \in Triples
  BY DEF M!MathAssumption, M!Points, Triples
<1>3. PICK x \in Int, y \in Int, z \in Int, w \in Int : r[1] = x /\ r[2] = y /\ r[3] = z /\ r[4] = w
  BY <1>1 DEF Fours
<1>4. PICK p1 \in Int, p2 \in Int, p3 \in Int : p[1] = p1 /\ p[2] = p2 /\ p[3] = p3
  BY <1>2 DEF Triples
<1>5. PICK s \in Int : m[2][1] = s /\ m[2][2] = s /\ m[2][3] = s
  BY <1>2 DEF Triples, M!Alike
<1>6. PICK t1 \in Int, t2 \in Int, t3 \in Int : m[1][1] = t1 /\ m[1][2] = t2 /\ m[1][3] = t3
  BY <1>2 DEF Triples
<1> DEFINE f == M!FromTrs(m[1], r, m[2])
           k1 == 1 - (2 * y * y + 2 * z * z)
           k2 == 1 - (2 * x * x + 2 * z * z)
           k3 == 1 - (2 * x * x + 2 * y * y)
<1>7. f = << << k1 * s, (2 * x * y + 2 * w * z) * s, (2 * x * z - 2 * w * y) * s, t1 >>,
             << (2 * x * y - 2 * w * z) * s, k2 * s, (2 * y * z + 2 * w * x) * s, t2 >>,
             << (2 * x * z + 2 * w * y) * s, (2 * y * z - 2 * w * x) * s, k3 * s, t3 >>,
             << 0, 0, 0, 1 >> >>
  BY <1>3, <1>5, <1>6 DEF M!FromTrs
<1>8. /\ x * y = 0 /\ x * z = 0 /\ y * z = 0 /\ w * x = 0 /\ w * y = 0 /\ w * z = 0
      /\ k1 \in {1, -1} /\ k2 \in {1, -1} /\ k3 \in {1, -1}
  BY <1>1, <1>3, UnitProducts
<1>9. /\ 2 * x * y = 0 /\ 2 * x * z = 0 /\ 2 * y * z = 0
      /\ 2 * w * x = 0 /\ 2 * w * y = 0 /\ 2 * w * z = 0
  BY <1>8
<1> HIDE DEF k1, k2, k3
<1>10. f = << << k1 * s, 0, 0, t1 >>, << 0, k2 * s, 0, t2 >>, << 0, 0, k3 * s, t3 >>,
              << 0, 0, 0, 1 >> >>
  BY <1>5, <1>7, <1>9
<1> HIDE DEF f
<1>11. to[1] = p1 * (k1 * s) + t1 /\ to[2] = p2 * (k2 * s) + t2 /\ to[3] = p3 * (k3 * s) + t3
  BY <1>4, <1>5, <1>6, <1>8, <1>10 DEF M!TransformPoint, M!Dot3, f
<1>12. u[1] = p1 * (k1 * s) /\ u[2] = p2 * (k2 * s) /\ u[3] = p3 * (k3 * s)
  BY <1>4, <1>5, <1>6, <1>8, <1>11
<1>13. u[1] * u[1] = s * s * (p1 * p1) /\ u[2] * u[2] = s * s * (p2 * p2)
       /\ u[3] * u[3] = s * s * (p3 * p3)
  <2>1. ASSUME NEW k \in {1, -1}, NEW q \in Int
        PROVE  (q * (k * s)) * (q * (k * s)) = s * s * (q * q)
    <3>1. k * s = s \/ k * s = -s
      BY <1>5
    <3>2. QED
      BY <1>5, <3>1
  <2>2. /\ (p1 * (k1 * s)) * (p1 * (k1 * s)) = s * s * (p1 * p1)
        /\ (p2 * (k2 * s)) * (p2 * (k2 * s)) = s * s * (p2 * p2)
        /\ (p3 * (k3 * s)) * (p3 * (k3 * s)) = s * s * (p3 * p3)
    BY <1>4, <1>8, <2>1, Zenon
  <2>3. QED
    BY <1>12, <2>2, Zenon
<1>14. M!Dot3(u, u) = s * s * (p1 * p1) + s * s * (p2 * p2) + s * s * (p3 * p3)
  BY <1>13 DEF M!Dot3
<1>15. s * s * (p1 * p1) + s * s * (p2 * p2) + s * s * (p3 * p3)
         = s * s * (p1 * p1 + p2 * p2 + p3 * p3)
  BY <1>4, <1>5
<1>16. QED
  BY <1>4, <1>5, <1>14, <1>15 DEF M!Dot3

\* A box is a pair of corners, the first not beyond the second on any axis.
IsBox(b) ==
  /\ b[1] \in M!Points /\ b[2] \in M!Points
  /\ \A i \in 1 .. 3 : b[1][i] <= b[2][i]

\* The coordinates of a point are within the extent.
LEMMA PointParts ==
  ASSUME M!MathAssumption, NEW p \in M!Points
  PROVE  /\ p \in Triples
         /\ \A i \in 1 .. 3 : p[i] \in Int /\ -Extent <= p[i] /\ p[i] <= Extent
         /\ Extent \in Int /\ 3 <= Extent
BY DEF M!MathAssumption, M!Points, Triples

\* The boxes of a pair are boxes.
LEMMA BoxesAre ==
  ASSUME M!MathAssumption, NEW p \in BoxPairs
  PROVE  IsBox(p[1]) /\ IsBox(p[2])
<1>1. p \in [1 .. 2 -> [1 .. 2 -> M!Points]]
  BY DEF M!MathAssumption
<1>2. \A k \in 1 .. 2 : p[k] \in [1 .. 2 -> M!Points]
  BY <1>1
<1>3. \A k \in 1 .. 2, i \in 1 .. 3 : p[k][1][i] <= p[k][2][i]
  BY DEF M!MathAssumption
<1>4. QED
  BY <1>2, <1>3 DEF IsBox

\* Boxes intersect when they have a point in common.
LEMMA BoxesSound ==
  ASSUME M!MathAssumption, NEW b, IsBox(b), NEW d, IsBox(d)
  PROVE  M!Intersects(b, d) <=> \E p \in M!Points : M!Contains(b, p) /\ M!Contains(d, p)
<1>1. \A i \in 1 .. 3 : /\ b[1][i] \in -Extent .. Extent /\ b[2][i] \in -Extent .. Extent
                       /\ d[1][i] \in -Extent .. Extent /\ d[2][i] \in -Extent .. Extent
  BY DEF IsBox, M!Points
<1>2. Extent \in Int
  BY DEF M!MathAssumption
<1>3. \A i \in 1 .. 3 : /\ b[1][i] \in Int /\ b[2][i] \in Int /\ b[1][i] <= b[2][i]
                       /\ d[1][i] \in Int /\ d[2][i] \in Int /\ d[1][i] <= d[2][i]
  BY <1>1, <1>2 DEF IsBox
<1>4. ASSUME M!Intersects(b, d)
      PROVE  \E p \in M!Points : M!Contains(b, p) /\ M!Contains(d, p)
  <2> DEFINE p == [i \in 1 .. 3 |-> IF b[1][i] >= d[1][i] THEN b[1][i] ELSE d[1][i]]
  <2>1. \A i \in 1 .. 3 : p[i] \in {b[1][i], d[1][i]}
    OBVIOUS
  <2>2. p \in M!Points
    BY <1>1, <2>1 DEF M!Points
  <2>3. M!Contains(b, p) /\ M!Contains(d, p)
    BY <1>3, <1>4 DEF M!Intersects, M!Contains
  <2>4. QED
    BY <2>2, <2>3
<1>5. ASSUME NEW p \in M!Points, M!Contains(b, p), M!Contains(d, p)
      PROVE  M!Intersects(b, d)
  <2>1. \A i \in 1 .. 3 : p[i] \in Int
    BY PointParts
  <2>2. QED
    BY <1>3, <1>5, <2>1 DEF M!Intersects, M!Contains
<1>6. QED
  BY <1>4, <1>5

\* The smaller end of an interval, taken against the sign of a factor.
LEMMA Against ==
  ASSUME NEW n \in Int, NEW lo \in Int, NEW hi \in Int, lo <= hi
  PROVE  (n >= 0 => n * lo <= n * hi) /\ (n < 0 => n * hi <= n * lo)
OBVIOUS

\* overlap rejects a box just when all its corners are outside of one plane.
LEMMA OverlapSound ==
  ASSUME M!MathAssumption, NEW b, IsBox(b),
         NEW planes \in (Offsets \X {-3, 1}) \X (M!Directions \X {-1})
  PROVE  M!Overlap(planes, b) <=>
           ~\E i \in DOMAIN planes : \A p \in M!Corners(b) :
              M!Dot3(planes[i][1], p) + planes[i][2] > 0
<1>1. \A i \in 1 .. 3 : b[1][i] \in Int /\ b[2][i] \in Int /\ b[1][i] <= b[2][i]
  BY PointParts DEF IsBox
<1>2. ASSUME NEW i \in DOMAIN planes
      PROVE  planes[i][1] \in Triples /\ planes[i][2] \in Int
  <2>1. \A p \in Offsets : p \in Triples
    BY DEF M!MathAssumption, M!Points, Triples
  <2>2. \A p \in M!Directions : p \in Triples
    BY DEF M!Directions, Triples
  <2>3. DOMAIN planes = {1, 2}
    OBVIOUS
  <2>4. /\ planes[1][1] \in Offsets /\ planes[1][2] \in {-3, 1}
        /\ planes[2][1] \in M!Directions /\ planes[2][2] \in {-1}
    OBVIOUS
  <2>5. QED
    BY <2>1, <2>2, <2>3, <2>4
<1>3. ASSUME NEW i \in DOMAIN planes
      PROVE  LET n == planes[i][1]
                 p == [k \in 1 .. 3 |-> IF n[k] >= 0 THEN b[1][k] ELSE b[2][k]]
             IN  /\ M!Dot3(n, p) + planes[i][2] <= 0 =>
                      \E c \in M!Corners(b) : ~(M!Dot3(n, c) + planes[i][2] > 0)
                 /\ (\E c \in M!Corners(b) : ~(M!Dot3(n, c) + planes[i][2] > 0)) =>
                      M!Dot3(n, p) + planes[i][2] <= 0
  <2> DEFINE n == planes[i][1]
             d == planes[i][2]
             p == [k \in 1 .. 3 |-> IF n[k] >= 0 THEN b[1][k] ELSE b[2][k]]
  <2>1. n \in Triples /\ d \in Int
    BY <1>2
  <2>2. \A k \in 1 .. 3 : n[k] \in Int
    BY <2>1 DEF Triples
  <2>3. \A k \in 1 .. 3 : p[k] = IF n[k] >= 0 THEN b[1][k] ELSE b[2][k]
    OBVIOUS
  <2>4. p \in M!Corners(b)
    <3> DEFINE f == [k \in 1 .. 3 |-> IF n[k] >= 0 THEN 1 ELSE 2]
    <3>1. f \in [1 .. 3 -> {1, 2}]
      OBVIOUS
    <3>2. p = [k \in 1 .. 3 |-> b[f[k]][k]]
      OBVIOUS
    <3>3. QED
      BY <3>1, <3>2 DEF M!Corners
  <2> HIDE DEF p, n, d
  <2>5. ASSUME NEW c \in M!Corners(b)
        PROVE  M!Dot3(n, p) <= M!Dot3(n, c) /\ M!Dot3(n, c) \in Int /\ M!Dot3(n, p) \in Int
    <3>1. PICK f \in [1 .. 3 -> {1, 2}] : c = [k \in 1 .. 3 |-> b[f[k]][k]]
      BY DEF M!Corners
    <3>2. \A k \in 1 .. 3 : c[k] \in {b[1][k], b[2][k]}
      BY <3>1
    <3>3. ASSUME NEW k \in 1 .. 3
          PROVE  n[k] * p[k] <= n[k] * c[k] /\ n[k] * p[k] \in Int /\ n[k] * c[k] \in Int
      <4>1. n[k] \in Int /\ b[1][k] \in Int /\ b[2][k] \in Int /\ b[1][k] <= b[2][k]
        BY <1>1, <2>2
      <4>2. /\ n[k] >= 0 => n[k] * b[1][k] <= n[k] * b[2][k]
            /\ n[k] < 0 => n[k] * b[2][k] <= n[k] * b[1][k]
        BY <4>1, Against
      <4>3. n[k] * b[1][k] \in Int /\ n[k] * b[2][k] \in Int
        BY <4>1
      <4>4. QED
        BY <2>3, <3>2, <4>1, <4>2, <4>3
    <3>4. /\ n[1] * p[1] <= n[1] * c[1] /\ n[1] * p[1] \in Int /\ n[1] * c[1] \in Int
          /\ n[2] * p[2] <= n[2] * c[2] /\ n[2] * p[2] \in Int /\ n[2] * c[2] \in Int
          /\ n[3] * p[3] <= n[3] * c[3] /\ n[3] * p[3] \in Int /\ n[3] * c[3] \in Int
      BY <3>3
    <3>5. QED
      BY <3>4 DEF M!Dot3
  <2>6. /\ M!Dot3(n, p) + d <= 0 => \E c \in M!Corners(b) : ~(M!Dot3(n, c) + d > 0)
        /\ (\E c \in M!Corners(b) : ~(M!Dot3(n, c) + d > 0)) => M!Dot3(n, p) + d <= 0
    BY <2>1, <2>4, <2>5
  <2>7. QED
    BY <2>6 DEF n, d, p
<1>4. QED
  BY <1>3 DEF M!Overlap

\* A direction and its components.
LEMMA AxisIs ==
  ASSUME NEW n \in M!AxisDirections
  PROVE  /\ n[1] \in {-1, 0, 1} /\ n[2] \in {-1, 0, 1} /\ n[3] \in {-1, 0, 1}
         /\ \/ n[1] # 0 /\ n[2] = 0 /\ n[3] = 0
            \/ n[1] = 0 /\ n[2] # 0 /\ n[3] = 0
            \/ n[1] = 0 /\ n[2] = 0 /\ n[3] # 0
<1>1. n[1] \in {-1, 0, 1} /\ n[2] \in {-1, 0, 1} /\ n[3] \in {-1, 0, 1}
  BY DEF M!AxisDirections, M!Directions
<1>2. n[1] * n[1] + n[2] * n[2] + n[3] * n[3] = 1
  BY DEF M!AxisDirections, M!Dot3
<1>3. QED
  BY <1>1, <1>2

\* ray_plane answers the parameter at which the ray meets the plane.
LEMMA RayPlaneSound ==
  ASSUME M!MathAssumption, NEW o \in Offsets, NEW dir \in M!AxisDirections,
         NEW n \in M!AxisDirections, NEW d \in {-2, 0, 3}
  PROVE  LET got == M!RayPlane(o, dir, n, d)
             meets == {t \in M!Reach : M!Dot3(n, M!On(o, dir, t)) + d = 0}
         IN  IF meets = M!Reach \/ meets \intersect Nat = {} THEN got = M!None
             ELSE got[1] \in meets
<1> DEFINE got == M!RayPlane(o, dir, n, d)
           meets == {t \in M!Reach : M!Dot3(n, M!On(o, dir, t)) + d = 0}
<1>1. /\ o[1] \in Int /\ -Extent <= o[1] /\ o[1] <= Extent
      /\ o[2] \in Int /\ -Extent <= o[2] /\ o[2] <= Extent
      /\ o[3] \in Int /\ -Extent <= o[3] /\ o[3] <= Extent
      /\ Extent \in Int /\ 3 <= Extent
  BY PointParts DEF M!MathAssumption
<1>2. PICK k \in Int : k = M!Dot3(n, o) + d /\ -(2 * Extent) <= k /\ k <= 2 * Extent
  BY <1>1, AxisIs DEF M!Dot3
<1>3. PICK e \in {-1, 0, 1} : e = M!Dot3(n, dir)
  BY AxisIs DEF M!Dot3
<1>4. \A t \in Int : M!Dot3(n, M!On(o, dir, t)) + d = k + t * e
  <2> SUFFICES ASSUME NEW t \in Int PROVE M!Dot3(n, M!On(o, dir, t)) + d = k + t * e
    OBVIOUS
  <2>1. M!On(o, dir, t)[1] = o[1] + t * dir[1] /\ M!On(o, dir, t)[2] = o[2] + t * dir[2]
        /\ M!On(o, dir, t)[3] = o[3] + t * dir[3]
    BY DEF M!On
  <2>2. M!Dot3(n, M!On(o, dir, t)) + d
          = n[1] * (o[1] + t * dir[1]) + n[2] * (o[2] + t * dir[2]) + n[3] * (o[3] + t * dir[3]) + d
    BY <2>1 DEF M!Dot3
  <2>3. k = n[1] * o[1] + n[2] * o[2] + n[3] * o[3] + d
    BY <1>2 DEF M!Dot3
  <2>4. e = n[1] * dir[1] + n[2] * dir[2] + n[3] * dir[3]
    BY <1>3 DEF M!Dot3
  <2>5. PICK n1 \in Int, n2 \in Int, n3 \in Int : n[1] = n1 /\ n[2] = n2 /\ n[3] = n3
    BY AxisIs
  <2>6. PICK r1 \in Int, r2 \in Int, r3 \in Int : dir[1] = r1 /\ dir[2] = r2 /\ dir[3] = r3
    BY AxisIs
  <2>7. PICK o1 \in Int, o2 \in Int, o3 \in Int : o[1] = o1 /\ o[2] = o2 /\ o[3] = o3
    BY <1>1
  <2>8. n1 * (o1 + t * r1) + n2 * (o2 + t * r2) + n3 * (o3 + t * r3) + d
          = (n1 * o1 + n2 * o2 + n3 * o3 + d) + t * (n1 * r1 + n2 * r2 + n3 * r3)
    BY <2>5, <2>6, <2>7
  <2>9. QED
    BY <2>2, <2>3, <2>4, <2>5, <2>6, <2>7, <2>8
<1>5. M!Reach = -(2 * Extent) .. 2 * Extent
  BY DEF M!Reach
<1>5a. \A t \in M!Reach : t \in Int
  BY <1>1, <1>5
<1>6. meets = {t \in M!Reach : k + t * e = 0}
  BY <1>4, <1>5a
<1>7. got = IF e = 0 \/ -(k * e) < 0 THEN M!None ELSE <<-(k * e)>>
  BY <1>2, <1>3 DEF M!RayPlane
<1> HIDE DEF got, meets
<1>8. CASE e = 0
  <2>1. \A t \in M!Reach : k + t * e = k
    BY <1>1, <1>2, <1>5, <1>8
  <2>2. meets = M!Reach \/ meets = {}
    BY <1>6, <2>1
  <2>3. got = M!None
    BY <1>7, <1>8
  <2>4. QED
    BY <2>2, <2>3 DEF got, meets
<1>9. CASE e # 0
  <2>1. PICK t \in Int : t = -(k * e)
    BY <1>2, <1>3
  <2>1a. t = k \/ t = -k
    BY <1>2, <1>3, <1>9, <2>1
  <2>2. t \in M!Reach
    BY <1>1, <1>2, <1>5, <2>1a
  <2>3. \A s \in Int : k + s * e = 0 <=> s = t
    BY <1>2, <1>3, <1>9, <2>1
  <2>4. meets = {t}
    BY <1>5a, <1>6, <2>2, <2>3
  <2>5. meets # M!Reach
    <3>1. 0 \in M!Reach /\ 1 \in M!Reach
      BY <1>1, <1>5
    <3>2. QED
      BY <2>4, <3>1
  <2>6. CASE t < 0
    <3>1. meets \intersect Nat = {}
      BY <2>4, <2>6
    <3>2. got = M!None
      BY <1>7, <2>1, <2>6
    <3>3. QED
      BY <3>1, <3>2 DEF got, meets
  <2>7. CASE ~(t < 0)
    <3>1. t \in meets \intersect Nat
      BY <2>1, <2>4, <2>7
    <3>2. got[1] \in meets
      BY <1>7, <1>9, <2>1, <2>4, <2>7
    <3>3. QED
      BY <2>5, <3>1, <3>2 DEF got, meets
  <2>8. QED
    BY <2>6, <2>7
<1>10. QED
  BY <1>8, <1>9

\* Where the ray is between the two faces of an axis: from s[1] to s[2], the
\* infinities standing for a ray along the faces, between them or outside.
SlabOf(s, o, dir, b, i) ==
  /\ s[1] \in Int /\ s[2] \in Int /\ s[1] <= s[2] /\ s[1] # M!NaN /\ s[2] # M!NaN
  /\ \A t \in M!Reach : s[1] <= t /\ t <= s[2] <=>
                          b[1][i] <= o[i] + t * dir[i] /\ o[i] + t * dir[i] <= b[2][i]
  /\ dir[i] # 0 => s[1] \in M!Reach /\ s[2] \in M!Reach

\* The parameters at which a ray can meet a box.
LEMMA ReachIs ==
  ASSUME M!MathAssumption
  PROVE  /\ M!Reach = -(2 * Extent) .. 2 * Extent
         /\ Extent \in Int /\ 3 <= Extent
         /\ \A t \in M!Reach : t \in Int /\ -M!Inf < t /\ t < M!Inf /\ t # M!NaN
         /\ M!Inf \in Int /\ M!NaN \in Int /\ 0 < M!Inf /\ M!Inf < M!NaN
<1>1. M!Reach = -(2 * Extent) .. 2 * Extent /\ Extent \in Int /\ 3 <= Extent /\ Extent <= 1000
  BY SMT DEF M!Reach, M!MathAssumption
<1>2. M!Inf \in Int /\ M!NaN \in Int /\ 2000 < M!Inf /\ M!Inf < M!NaN
  BY SMT DEF M!Inf, M!NaN
<1>3. \A t \in M!Reach : t \in Int /\ -2000 <= t /\ t <= 2000
  BY <1>1, SMT
<1>4. \A t \in M!Reach : t \in Int /\ -M!Inf < t /\ t < M!Inf /\ t # M!NaN
  BY <1>2, <1>3, SMT
<1>5. 0 < M!Inf
  BY <1>2, SMT
<1>6. QED
  BY <1>1, <1>2, <1>4, <1>5

\* The slab of an axis is the interval of parameters between its two faces.
LEMMA SlabIs ==
  ASSUME M!MathAssumption, NEW o \in M!Points, NEW dir \in M!Directions, NEW b, IsBox(b),
         NEW i \in 1 .. 3, dir[i] = 0 => o[i] # b[1][i] /\ o[i] # b[2][i]
  PROVE  SlabOf(M!Slab(o, dir, b, i), o, dir, b, i)
<1>1. PICK lo \in Int, hi \in Int, at0 \in Int :
        /\ lo = b[1][i] /\ hi = b[2][i] /\ at0 = o[i] /\ lo <= hi
        /\ -Extent <= lo /\ hi <= Extent /\ -Extent <= at0 /\ at0 <= Extent
  BY PointParts DEF IsBox
<1>2. PICK e \in {-1, 0, 1} : e = dir[i]
  BY DEF M!Directions
<1> DEFINE s == M!Slab(o, dir, b, i)
<1>3. s = << M!TimesInv((IF e >= 0 THEN lo ELSE hi) - at0, e),
             M!TimesInv((IF e >= 0 THEN hi ELSE lo) - at0, e) >>
  BY <1>1, <1>2 DEF M!Slab
<1> HIDE DEF s
<1>4. Extent \in Int /\ \A t : t \in M!Reach <=> /\ t \in Int
                                              /\ -(2 * Extent) <= t /\ t <= 2 * Extent
  BY ReachIs
<1>5. SUFFICES /\ s[1] \in Int /\ s[2] \in Int /\ s[1] <= s[2] /\ s[1] # M!NaN /\ s[2] # M!NaN
               /\ \A t \in M!Reach :
                      s[1] <= t /\ t <= s[2] <=> lo <= at0 + t * e /\ at0 + t * e <= hi
               /\ e # 0 => s[1] \in M!Reach /\ s[2] \in M!Reach
  BY <1>1, <1>2 DEF SlabOf, s
<1>6. CASE e = 1
  <2>1. s[1] = lo - at0 /\ s[2] = hi - at0
    BY <1>1, <1>3, <1>6 DEF M!TimesInv
  <2>2. s[1] \in M!Reach /\ s[2] \in M!Reach /\ s[1] <= s[2]
    BY <1>1, <1>4, <2>1
  <2>3. ASSUME NEW t \in M!Reach
        PROVE  s[1] <= t /\ t <= s[2] <=> lo <= at0 + t * e /\ at0 + t * e <= hi
    <3>1. t \in Int /\ at0 + t * e = at0 + t
      BY <1>1, <1>4, <1>6
    <3>2. QED
      BY <1>1, <2>1, <3>1
  <2>4. QED
    BY <2>2, <2>3, ReachIs
<1>7. CASE e = -1
  <2>1. s[1] = at0 - hi /\ s[2] = at0 - lo
    BY <1>1, <1>3, <1>7 DEF M!TimesInv
  <2>2. s[1] \in M!Reach /\ s[2] \in M!Reach /\ s[1] <= s[2]
    BY <1>1, <1>4, <2>1
  <2>3. ASSUME NEW t \in M!Reach
        PROVE  s[1] <= t /\ t <= s[2] <=> lo <= at0 + t * e /\ at0 + t * e <= hi
    <3>1. t \in Int /\ at0 + t * e = at0 - t
      BY <1>1, <1>4, <1>7
    <3>2. QED
      BY <1>1, <2>1, <3>1
  <2>4. QED
    BY <2>2, <2>3, ReachIs
<1>8. CASE e = 0
  <2>1. lo # at0 /\ hi # at0
    BY <1>1, <1>2, <1>8
  <2>2. \A t \in M!Reach : at0 + t * e = at0
    BY <1>1, <1>4, <1>8
  <2>3. s[1] = M!TimesInv(lo - at0, 0) /\ s[2] = M!TimesInv(hi - at0, 0)
    BY <1>3, <1>8
  <2>4. /\ s[1] = IF lo - at0 > 0 THEN M!Inf ELSE -M!Inf
        /\ s[2] = IF hi - at0 > 0 THEN M!Inf ELSE -M!Inf
    BY <1>1, <2>1, <2>3 DEF M!TimesInv
  <2>5. s[1] \in Int /\ s[2] \in Int /\ s[1] <= s[2] /\ s[1] # M!NaN /\ s[2] # M!NaN
    <3>1. M!Inf \in Int /\ M!NaN \in Int /\ 0 < M!Inf /\ M!Inf < M!NaN
      BY ReachIs
    <3>2. QED
      BY <1>1, <2>4, <3>1
  <2>6. ASSUME NEW t \in M!Reach
        PROVE  s[1] <= t /\ t <= s[2] <=> lo <= at0 + t * e /\ at0 + t * e <= hi
    <3>1. t \in Int /\ -M!Inf < t /\ t < M!Inf /\ M!Inf \in Int
      BY ReachIs
    <3>2. s[1] <= t <=> lo <= at0
      BY <1>1, <2>1, <2>4, <3>1
    <3>3. t <= s[2] <=> at0 <= hi
      BY <1>1, <2>1, <2>4, <3>1
    <3>4. QED
      BY <2>2, <3>2, <3>3
  <2>7. QED
    BY <1>8, <2>5, <2>6
<1>9. QED
  BY <1>6, <1>7, <1>8

\* Both ends of what two slabs share.
LEMMA NarrowIs ==
  ASSUME NEW s, s[1] \in Int, s[2] \in Int, s[1] # M!NaN, s[2] # M!NaN,
         NEW r, r[1] \in Int, r[2] \in Int, r[1] # M!NaN, r[2] # M!NaN
  PROVE  LET n == M!Narrow(s, r)
         IN  /\ n[1] \in Int /\ n[2] \in Int /\ n[1] # M!NaN /\ n[2] # M!NaN
             /\ \A t \in Int : n[1] <= t <=> s[1] <= t /\ r[1] <= t
             /\ \A t \in Int : t <= n[2] <=> t <= s[2] /\ t <= r[2]
             /\ n[1] \in {s[1], r[1]} /\ n[2] \in {s[2], r[2]}
             /\ M!Disjoint(s, r) <=> s[1] > r[2] \/ r[1] > s[2]
<1> DEFINE n == M!Narrow(s, r)
<1>1. n = <<IF r[1] > s[1] THEN r[1] ELSE s[1], IF s[2] > r[2] THEN r[2] ELSE s[2]>>
  BY DEF M!Narrow, M!Gt
<1>2. M!Disjoint(s, r) <=> s[1] > r[2] \/ r[1] > s[2]
  BY DEF M!Disjoint, M!Gt
<1> HIDE DEF n
<1>3. n[1] = IF r[1] > s[1] THEN r[1] ELSE s[1]
  BY <1>1
<1>4. n[2] = IF s[2] > r[2] THEN r[2] ELSE s[2]
  BY <1>1
<1>5. \A t \in Int : n[1] <= t <=> s[1] <= t /\ r[1] <= t
  BY <1>3
<1>6. \A t \in Int : t <= n[2] <=> t <= s[2] /\ t <= r[2]
  BY <1>4
<1>7. n[1] \in {s[1], r[1]} /\ n[2] \in {s[2], r[2]}
  BY <1>3, <1>4
<1>8. QED
  BY <1>2, <1>5, <1>6, <1>7 DEF n

\* ray_aabb answers where the ray enters the box, or leaves it when it starts inside.
LEMMA RayBoxSound ==
  ASSUME M!MathAssumption, NEW o \in Offsets, NEW dir \in M!Directions, NEW b, IsBox(b),
         ~M!Grazes(o, dir, b)
  PROVE  LET hits == M!Hits(o, dir, b)
             lo == CHOOSE t \in hits : \A u \in hits : t <= u
             hi == CHOOSE t \in hits : \A u \in hits : u <= t
         IN  M!RayBox(o, dir, b) = IF hits \intersect Nat = {} THEN M!None
                                   ELSE <<IF lo >= 0 THEN lo ELSE hi>>
<1>0. o \in M!Points
  BY DEF M!MathAssumption
<1> DEFINE x == M!Slab(o, dir, b, 1)
           y == M!Slab(o, dir, b, 2)
           z == M!Slab(o, dir, b, 3)
           xy == M!Narrow(x, y)
           xyz == M!Narrow(xy, z)
           hits == M!Hits(o, dir, b)
           got == M!RayBox(o, dir, b)
<1>1. \A i \in 1 .. 3 : dir[i] = 0 => o[i] # b[1][i] /\ o[i] # b[2][i]
  BY DEF M!Grazes
<1>2. SlabOf(x, o, dir, b, 1) /\ SlabOf(y, o, dir, b, 2) /\ SlabOf(z, o, dir, b, 3)
  BY <1>0, <1>1, SlabIs
<1>3. dir[1] # 0 \/ dir[2] # 0 \/ dir[3] # 0
  <2>1. dir \in [1 .. 3 -> {-1, 0, 1}] /\ dir # <<0, 0, 0>>
    BY DEF M!Directions
  <2>2. ASSUME dir[1] = 0, dir[2] = 0, dir[3] = 0 PROVE FALSE
    <3>1. dir = <<0, 0, 0>>
      BY <2>1, <2>2
    <3>2. QED
      BY <2>1, <3>1
  <2>3. QED
    BY <2>2
<1>4. got = IF M!Disjoint(x, y) \/ M!Disjoint(xy, z) \/ M!Gt(0, xyz[2]) THEN M!None
            ELSE IF xyz[1] # M!NaN /\ xyz[1] >= 0 THEN <<xyz[1]>> ELSE <<xyz[2]>>
  BY DEF M!RayBox
<1>5. hits = {t \in M!Reach : \A i \in 1 .. 3 :
                b[1][i] <= o[i] + t * dir[i] /\ o[i] + t * dir[i] <= b[2][i]}
  BY DEF M!Hits, M!Contains, M!On
<1>6. hits = {t \in M!Reach : /\ x[1] <= t /\ t <= x[2] /\ y[1] <= t /\ t <= y[2]
                             /\ z[1] <= t /\ t <= z[2]}
  BY <1>2, <1>5 DEF SlabOf
<1> HIDE DEF x, y, z, hits, got
<1>7. /\ x[1] \in Int /\ x[2] \in Int /\ x[1] <= x[2] /\ x[1] # M!NaN /\ x[2] # M!NaN
      /\ y[1] \in Int /\ y[2] \in Int /\ y[1] <= y[2] /\ y[1] # M!NaN /\ y[2] # M!NaN
      /\ z[1] \in Int /\ z[2] \in Int /\ z[1] <= z[2] /\ z[1] # M!NaN /\ z[2] # M!NaN
  BY <1>2 DEF SlabOf
<1>8. /\ dir[1] # 0 => x[1] \in M!Reach /\ x[2] \in M!Reach
      /\ dir[2] # 0 => y[1] \in M!Reach /\ y[2] \in M!Reach
      /\ dir[3] # 0 => z[1] \in M!Reach /\ z[2] \in M!Reach
  BY <1>2 DEF SlabOf
<1>9. /\ xy[1] \in Int /\ xy[2] \in Int /\ xy[1] # M!NaN /\ xy[2] # M!NaN
      /\ \A t \in Int : xy[1] <= t <=> x[1] <= t /\ y[1] <= t
      /\ \A t \in Int : t <= xy[2] <=> t <= x[2] /\ t <= y[2]
      /\ M!Disjoint(x, y) <=> x[1] > y[2] \/ y[1] > x[2]
  BY <1>7, NarrowIs
<1> HIDE DEF xy
<1>10. /\ xyz[1] \in Int /\ xyz[2] \in Int /\ xyz[1] # M!NaN /\ xyz[2] # M!NaN
       /\ \A t \in Int : xyz[1] <= t <=> xy[1] <= t /\ z[1] <= t
       /\ \A t \in Int : t <= xyz[2] <=> t <= xy[2] /\ t <= z[2]
       /\ M!Disjoint(xy, z) <=> xy[1] > z[2] \/ z[1] > xy[2]
  BY <1>7, <1>9, NarrowIs
<1> HIDE DEF xyz
<1>11. \A t \in M!Reach : t \in Int
  BY ReachIs
<1>12. hits = {t \in M!Reach : xyz[1] <= t /\ t <= xyz[2]}
  BY <1>6, <1>9, <1>10, <1>11
<1>13. M!Disjoint(x, y) \/ M!Disjoint(xy, z) <=> xyz[1] > xyz[2]
  <2>1. \A t \in Int : xyz[1] <= t <=> x[1] <= t /\ y[1] <= t /\ z[1] <= t
    BY <1>9, <1>10
  <2>2. \A t \in Int : t <= xyz[2] <=> t <= x[2] /\ t <= y[2] /\ t <= z[2]
    BY <1>9, <1>10
  <2>3. xyz[1] <= xyz[2] <=> /\ x[1] <= x[2] /\ x[1] <= y[2] /\ x[1] <= z[2]
                             /\ y[1] <= x[2] /\ y[1] <= y[2] /\ y[1] <= z[2]
                             /\ z[1] <= x[2] /\ z[1] <= y[2] /\ z[1] <= z[2]
    BY <1>7, <1>10, <2>1, <2>2
  <2>4. M!Disjoint(x, y) <=> x[1] > y[2] \/ y[1] > x[2]
    BY <1>9
  <2>5. M!Disjoint(xy, z) <=> x[1] > z[2] \/ y[1] > z[2] \/ z[1] > x[2] \/ z[1] > y[2]
    <3>1. xy[1] <= z[2] <=> x[1] <= z[2] /\ y[1] <= z[2]
      BY <1>7, <1>9
    <3>2. z[1] <= xy[2] <=> z[1] <= x[2] /\ z[1] <= y[2]
      BY <1>7, <1>9
    <3>3. QED
      BY <1>7, <1>9, <1>10, <3>1, <3>2
  <2>6. QED
    BY <1>7, <1>10, <2>3, <2>4, <2>5
<1>14. M!Gt(0, xyz[2]) <=> 0 > xyz[2]
  BY <1>10, ReachIs DEF M!Gt
<1>15. got = IF xyz[1] > xyz[2] \/ 0 > xyz[2] THEN M!None
             ELSE IF xyz[1] >= 0 THEN <<xyz[1]>> ELSE <<xyz[2]>>
  BY <1>4, <1>10, <1>13, <1>14
<1>16. CASE xyz[1] > xyz[2] \/ 0 > xyz[2]
  <2>1. hits \intersect Nat = {}
    BY <1>10, <1>11, <1>12, <1>16
  <2>2. got = M!None
    BY <1>15, <1>16
  <2>3. QED
    BY <2>1, <2>2 DEF hits, got
<1>17. CASE ~(xyz[1] > xyz[2] \/ 0 > xyz[2])
  <2>1. xyz[1] \in M!Reach /\ xyz[2] \in M!Reach
    <3>1. /\ x[1] <= xyz[1] /\ y[1] <= xyz[1] /\ z[1] <= xyz[1]
          /\ xyz[2] <= x[2] /\ xyz[2] <= y[2] /\ xyz[2] <= z[2]
      <4>1. xy[1] <= xyz[1] /\ z[1] <= xyz[1] /\ xyz[2] <= xy[2] /\ xyz[2] <= z[2]
        BY <1>10
      <4>2. QED
        BY <1>9, <1>10, <4>1
    <3>2. PICK lo \in M!Reach, hi \in M!Reach : lo <= xyz[1] /\ xyz[2] <= hi
      BY <1>3, <1>8, <3>1
    <3>3. QED
      BY <1>10, <1>17, <3>2, ReachIs
  <2>2. xyz[1] \in hits /\ xyz[2] \in hits
    BY <1>10, <1>12, <1>17, <2>1
  <2>3. \A u \in hits : u \in Int /\ xyz[1] <= u /\ u <= xyz[2]
    BY <1>11, <1>12
  <2>4. (CHOOSE t \in hits : \A u \in hits : t <= u) = xyz[1]
    <3>1. \A t \in hits : (\A u \in hits : t <= u) => t = xyz[1]
      BY <1>10, <2>2, <2>3
    <3>2. \A u \in hits : xyz[1] <= u
      BY <2>3
    <3>3. QED
      BY <2>2, <3>1, <3>2
  <2>5. (CHOOSE t \in hits : \A u \in hits : u <= t) = xyz[2]
    <3>1. \A t \in hits : (\A u \in hits : u <= t) => t = xyz[2]
      BY <1>10, <2>2, <2>3
    <3>2. \A u \in hits : u <= xyz[2]
      BY <2>3
    <3>3. QED
      BY <2>2, <3>1, <3>2
  <2>6. hits \intersect Nat # {}
    BY <1>10, <1>17, <2>2
  <2>7. got = IF xyz[1] >= 0 THEN <<xyz[1]>> ELSE <<xyz[2]>>
    BY <1>15, <1>17
  <2>8. QED
    BY <2>4, <2>5, <2>6, <2>7 DEF hits, got
<1>18. QED
  BY <1>16, <1>17

\* A call keeps its arguments; what it answers is what GeometrySound says.
VectorArguments ==
  \/ call = "mul" /\ arg1 \in M!Affine /\ arg2 \in M!Affine
  \/ call = "inverse" /\ arg1 \in M!Affine /\ arg2 = M!None
  \/ call = "quat" /\ arg1 \in Units /\ arg2 \in Units
  \/ call = "trs" /\ arg1 \in Units /\ arg2 \in Offsets \X Offsets
  \/ call = "boxes" /\ IsBox(arg1) /\ IsBox(arg2)
  \/ call = "overlap" /\ IsBox(arg1)
                      /\ arg2 \in (Offsets \X {-3, 1}) \X (M!Directions \X {-1})
  \/ call = "ray_plane" /\ arg1 \in Offsets \X M!AxisDirections
                        /\ arg2 \in M!AxisDirections \X {-2, 0, 3}
  \/ call = "ray_box" /\ arg1 \in Offsets \X M!Directions /\ IsBox(arg2)
VectorsInv == VectorArguments /\ M!GeometrySound

\* The arguments are those of the tables, and no answer is given yet.
LEMMA VectorsInit == M!MathAssumption /\ M!Init => VectorsInv
<1> SUFFICES ASSUME M!MathAssumption, M!Init PROVE VectorsInv
  OBVIOUS
<1>1. M!GeometrySound
  BY DEF M!Init, M!GeometrySound
<1>2. \A b \in M!Boxes : IsBox(b)
  BY BoxesAre DEF M!Boxes
<1>3. \A p \in BoxPairs : IsBox(p[1]) /\ IsBox(p[2])
  BY BoxesAre
<1>4. VectorArguments
  BY <1>2, <1>3 DEF M!Init, VectorArguments
<1>5. QED
  BY <1>1, <1>4 DEF VectorsInv

\* What GeometrySound says of one more call.
MeetsBox(got, o, dir, b) ==
  LET hits == M!Hits(o, dir, b)
      lo == CHOOSE t \in hits : \A u \in hits : t <= u
      hi == CHOOSE t \in hits : \A u \in hits : u <= t
  IN  \/ M!Grazes(o, dir, b)
      \/ got = IF hits \intersect Nat = {} THEN M!None
               ELSE <<IF lo >= 0 THEN lo ELSE hi>>

\* Each call answers what the property asks of it.
LEMMA VectorsAnswer ==
  ASSUME M!MathAssumption, VectorArguments, M!Run
  PROVE  M!GeometrySound'
<1>1. call' = call /\ arg1' = arg1 /\ arg2' = arg2
  BY DEF M!Run
<1>2. CASE call = "mul" /\ arg1 \in M!Affine /\ arg2 \in M!Affine
  <2>1. answer' = << << M!RowMul(arg1, arg2), M!DotMul(arg1, arg2),
                        M!FlatMul(M!Flat(arg1), M!Flat(arg2)) >> >>
    BY <1>2 DEF M!Run
  <2>2. QED
    BY <1>1, <1>2, <2>1, MulSound DEF M!GeometrySound
<1>3. CASE call = "inverse" /\ arg1 \in M!Affine
  <2>1. answer' = << M!InverseAffine(arg1) >>
    BY <1>3 DEF M!Run
  <2>2. QED
    BY <1>1, <1>3, <2>1, InverseSound DEF M!GeometrySound
<1>4. CASE call = "quat" /\ arg1 \in Units /\ arg2 \in Units
  <2>1. answer' = << M!QuatMul(arg1, arg2) >>
    BY <1>4 DEF M!Run
  <2>2. QED
    BY <1>1, <1>4, <2>1, QuatSound DEF M!GeometrySound
<1>5. CASE call = "trs" /\ arg1 \in Units /\ arg2 \in Offsets \X Offsets
  <2>1. answer' = << M!FromTrs(arg2[1], arg1, arg2[2]) >>
    BY <1>5 DEF M!Run
  <2>2. Stretches(M!FromTrs(arg2[1], arg1, arg2[2]), arg2)
    BY <1>5, TrsSound
  <2>3. Stretches(answer'[1], arg2')
    BY <1>1, <2>1, <2>2
  <2>4. QED
    BY <1>1, <1>5, <2>3 DEF M!GeometrySound, Stretches
<1>6. CASE call = "boxes" /\ IsBox(arg1) /\ IsBox(arg2)
  <2>1. answer' = << M!Intersects(arg1, arg2) >>
    BY <1>6 DEF M!Run
  <2>2. QED
    BY <1>1, <1>6, <2>1, BoxesSound DEF M!GeometrySound
<1>7. CASE call = "overlap" /\ IsBox(arg1)
           /\ arg2 \in (Offsets \X {-3, 1}) \X (M!Directions \X {-1})
  <2>1. answer' = << M!Overlap(arg2, arg1) >>
    BY <1>7 DEF M!Run
  <2>2. QED
    BY <1>1, <1>7, <2>1, OverlapSound DEF M!GeometrySound
<1>8. CASE call = "ray_plane" /\ arg1 \in Offsets \X M!AxisDirections
           /\ arg2 \in M!AxisDirections \X {-2, 0, 3}
  <2>1. answer' = << M!RayPlane(arg1[1], arg1[2], arg2[1], arg2[2]) >>
    BY <1>8 DEF M!Run
  <2>2. /\ arg1[1] \in Offsets /\ arg1[2] \in M!AxisDirections
        /\ arg2[1] \in M!AxisDirections /\ arg2[2] \in {-2, 0, 3}
    BY <1>8
  <2>3. QED
    BY <1>1, <1>8, <2>1, <2>2, RayPlaneSound DEF M!GeometrySound
<1>9. CASE call = "ray_box" /\ arg1 \in Offsets \X M!Directions /\ IsBox(arg2)
  <2>1. answer' = << M!RayBox(arg1[1], arg1[2], arg2) >>
    BY <1>9 DEF M!Run
  <2>2. arg1[1] \in Offsets /\ arg1[2] \in M!Directions
    BY <1>9
  <2>3. MeetsBox(M!RayBox(arg1[1], arg1[2], arg2), arg1[1], arg1[2], arg2)
    BY <1>9, <2>2, RayBoxSound DEF MeetsBox
  <2>4. MeetsBox(answer'[1], arg1'[1], arg1'[2], arg2')
    BY <1>1, <2>1, <2>3
  <2>5. QED
    BY <1>1, <1>9, <2>4 DEF M!GeometrySound, MeetsBox
<1>10. QED
  BY <1>2, <1>3, <1>4, <1>5, <1>6, <1>7, <1>8, <1>9 DEF VectorArguments

\* The answers stay right.
LEMMA VectorsStep ==
  M!MathAssumption /\ VectorsInv /\ [M!Next]_(M!mathvars) => VectorsInv'
<1> SUFFICES ASSUME M!MathAssumption, VectorsInv, [M!Next]_(M!mathvars) PROVE VectorsInv'
  OBVIOUS
<1>1. CASE M!Run
  <2>1. VectorArguments'
    BY <1>1 DEF M!Run, VectorsInv, VectorArguments, IsBox
  <2>2. QED
    BY <1>1, <2>1, VectorsAnswer DEF VectorsInv
<1>2. CASE UNCHANGED M!mathvars
  BY <1>2 DEF M!mathvars, VectorsInv, VectorArguments, IsBox, M!GeometrySound
<1>3. QED
  BY <1>1, <1>2 DEF M!Next

-----------------------------------------------------------------------------
(* Kernels, lanes and geometry together *)

\* What a kernel has filled stays while another member of the run steps.
LEMMA KernelStays ==
  ASSUME KernelInv, UNCHANGED K!lkvars
  PROVE  KernelInv'
<1>1. /\ kernel' = kernel /\ lenA' = lenA /\ lenB' = lenB /\ out' = out /\ at' = at
      /\ returned' = returned
  BY DEF K!lkvars
<1>2. K!Shortest' = K!Shortest
  BY <1>1 DEF K!Shortest
<1>3. \A j : K!Expected(j)' = K!Expected(j)
  BY <1>1 DEF K!Expected
<1>4. (\A j \in 1 .. Len(out) : out[j] = IF j <= at THEN K!Expected(j - 1) ELSE K!Untouched)'
  BY <1>1, <1>3 DEF KernelInv, FilledTo
<1>5. FilledTo(at)'
  BY <1>4 DEF FilledTo
<1>6. KernelTypes'
  BY <1>1, <1>2 DEF KernelInv, KernelTypes, Column
<1>7. QED
  BY <1>1, <1>2, <1>5, <1>6 DEF KernelInv

\* Each of the three makes a step of its own or none.
LEMMA OneArithmetic ==
  ASSUME [Next]_everything
  PROVE  /\ which' = which
         /\ [K!Next]_(K!lkvars) /\ [L!Next]_(L!simdvars) /\ [M!Next]_(M!mathvars)
<1>1. which' = which /\ [K!Next]_kernels /\ [L!Next]_lanes /\ [M!Next]_vectors
  <2>1. CASE UNCHANGED everything
    BY <2>1 DEF everything
  <2>2. CASE Next
    BY <2>2 DEF Next
  <2>3. QED
    BY <2>1, <2>2
<1>2. QED
  BY <1>1 DEF kernels, K!lkvars, lanes, L!simdvars, vectors, M!mathvars

ArithmeticInv ==
  /\ which = "kernels" => KernelInv
  /\ which = "lanes" => LanesInv
  /\ which = "vectors" => VectorsInv

(***************************************************************************)
(* Whatever the lengths of the columns, each kernel fills just what it     *)
(* says and counts it; whatever the lanes, either path of an operation     *)
(* answers what its name says, but for the instruction path of rsqrt, of   *)
(* which nothing is said; whatever the matrices, quaternions, boxes and    *)
(* rays, the answer is the one geometry defines (Cap/Math, Prm/SIMD).      *)
(***************************************************************************)
THEOREM ArithmeticStaysSound == Spec => []ArithmeticSound
<1>1. K!KernelsAssumption /\ L!LanesAssumption /\ M!MathAssumption
  BY Constants
<1>2. Init => ArithmeticInv
  BY <1>1, KernelInit, LanesInit, VectorsInit DEF Init, ArithmeticInv
<1>3. ArithmeticInv /\ [Next]_everything => ArithmeticInv'
  <2>1. SUFFICES ASSUME ArithmeticInv, [Next]_everything PROVE ArithmeticInv'
    OBVIOUS
  <2>2. /\ which' = which
        /\ [K!Next]_(K!lkvars) /\ [L!Next]_(L!simdvars) /\ [M!Next]_(M!mathvars)
    BY <2>1, OneArithmetic
  <2>3. which = "kernels" => KernelInv'
    BY <2>1, <2>2, KernelSteps, KernelStays DEF ArithmeticInv
  <2>4. which = "lanes" => LanesInv'
    BY <2>1, <2>2, LanesStep DEF ArithmeticInv
  <2>5. which = "vectors" => VectorsInv'
    BY <1>1, <2>1, <2>2, VectorsStep DEF ArithmeticInv
  <2>6. QED
    BY <2>2, <2>3, <2>4, <2>5 DEF ArithmeticInv
<1>4. ArithmeticInv => ArithmeticSound
  BY KernelAnswers DEF ArithmeticInv, LanesInv, VectorsInv, ArithmeticSound
<1>5. QED
  BY <1>2, <1>3, <1>4, PTL DEF Spec
=============================================================================
