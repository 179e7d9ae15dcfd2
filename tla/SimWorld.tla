------------------------------ MODULE SimWorld ------------------------------
(***************************************************************************)
(* SimWorld (Sim/Scene/API/lib.rs): entities with a record each, the rows  *)
(* of the one archetype that spawn_transform uses, forks of the world, and *)
(* frames of commands that are collected in the read phase and applied one *)
(* by one in the resolve phase.  Other calls take &mut self and are steps; *)
(* memory may run out at the places Faults names, and leaves what was done *)
(* so far.                                                                 *)
(*                                                                         *)
(* Nothing removes an entity: free_indices stays empty and generations     *)
(* stay zero.  push_component panics without memory, which ends the world. *)
(***************************************************************************)
EXTENDS Integers, Sequences

CONSTANTS
  Positions,    \* an initial segment of the naturals
  Shifts,       \* distances a Move command adds
  MaxEntities, MaxCommands,
  Faults        \* places of a spawn where memory may run out

SimAssumption ==
  /\ Positions \subseteq Int /\ Shifts \subseteq Int
  /\ MaxEntities \in Nat /\ MaxCommands \in Nat
  /\ Faults \subseteq {"entities", "generations", "archetype", "storage", "row"}

VARIABLES
  world,      \* per name "main" and "fork": the world, or NoWorld
  cmds,       \* FrameCommands of the main world not yet applied
  resolving,  \* resolve_phase runs
  known       \* history, per world: entities that spawn returned, and where they are

simvars == <<world, cmds, resolving, known>>

NoWorld == [entities |-> <<>>, generations |-> <<>>, archetype |-> FALSE,
            storage |-> FALSE, rows |-> <<>>, data |-> <<>>]
Nowhere == [e \in {} |-> 0]
NoRow == 0

Init ==
  /\ world = [w \in {"main", "fork"} |-> NoWorld]
  /\ known = [w \in {"main", "fork"} |-> Nowhere]
  /\ cmds = <<>> /\ resolving = FALSE

-----------------------------------------------------------------------------
(* The world as a value: what each call makes of it *)

AllocEntity(s) ==
  [s EXCEPT !.entities = Append(@, NoRow), !.generations = Append(@, 0)]

\* find_or_create_archetype, and add_storage for a new one.
WithArchetype(s) == [s EXCEPT !.archetype = TRUE]
WithStorage(s) == [WithArchetype(s) EXCEPT !.storage = TRUE]

WithRow(s, e, p) == [WithStorage(s) EXCEPT !.rows = Append(@, e), !.data = Append(@, p)]

\* Mutant: the record is made with the first row and never set to its own.
WithRecordOfFirst(s, e) == [s EXCEPT !.entities[e] = 1]

WithRecord(s, e) == [s EXCEPT !.entities[e] = Len(s.rows)]

NextId(s) == Len(s.entities) + 1

Spawned(s, p) == WithRecord(WithRow(AllocEntity(s), NextId(s), p), NextId(s))

\* What is left when memory runs out at a place.
Abandoned(s, place) ==
  CASE place = "entities" -> s
    [] place = "generations" -> [s EXCEPT !.entities = Append(@, NoRow)]
    [] place = "archetype" -> AllocEntity(s)
    [] place = "storage" -> WithArchetype(AllocEntity(s))
    [] place = "row" -> WithStorage(AllocEntity(s))

\* The archetype and its storage are created once.
CanFail(s, place) ==
  /\ place \in Faults
  /\ place = "archetype" => ~s.archetype
  /\ place = "storage" => ~s.storage

\* get_component of an entity of generation zero.
Visible(s, e) ==
  /\ e <= Len(s.entities) /\ s.entities[e] # NoRow
  /\ e <= Len(s.generations) /\ s.generations[e] = 0
  /\ s.storage /\ s.entities[e] <= Len(s.data)

Get(s, e) == s.data[s.entities[e]]
Set(s, e, p) == IF Visible(s, e) THEN [s EXCEPT !.data[s.entities[e]] = p] ELSE s

-----------------------------------------------------------------------------

Room(w) == Len(world[w].entities) < MaxEntities
Change(w, s, k) ==
  world' = [world EXCEPT ![w] = s] /\ known' = [known EXCEPT ![w] = k]
Now(k, e, p) == [i \in DOMAIN k \cup {e} |-> IF i = e THEN p ELSE k[i]]

Spawns(w, p) ==
  /\ Room(w)
  /\ Change(w, Spawned(world[w], p), Now(known[w], NextId(world[w]), p))
SpawnStops(w, place) ==
  /\ Room(w) /\ CanFail(world[w], place)
  /\ Change(w, Abandoned(world[w], place), known[w])
Puts(w, e, p) ==
  Change(w, Set(world[w], e, p), IF e \in DOMAIN known[w] THEN Now(known[w], e, p)
                                                           ELSE known[w])

SpawnTransform(w, p) == ~resolving /\ Spawns(w, p) /\ UNCHANGED <<cmds, resolving>>
SpawnFails(w, place) == ~resolving /\ SpawnStops(w, place) /\ UNCHANGED <<cmds, resolving>>

\* set_position of a spawned entity, or dispatch_ir with "set_pos".
SetPosition(w, e, p) == ~resolving /\ Puts(w, e, p) /\ UNCHANGED <<cmds, resolving>>

\* A deep copy; when it fails, the part that was copied is dropped.
Fork ==
  /\ ~resolving
  /\ Change("fork", world["main"], known["main"])
  /\ UNCHANGED <<cmds, resolving>>

-----------------------------------------------------------------------------
(* Frames: systems look at the world and push commands, which refer to the *)
(* entities that they saw.  The resolve phase applies them in order.       *)

Move(e, d) == [op |-> "move", entity |-> e, by |-> d]
Spawn(p) == [op |-> "spawn", at |-> p]

PushCommand(c) ==
  /\ ~resolving /\ Len(cmds) < MaxCommands
  /\ cmds' = Append(cmds, c)
  /\ UNCHANGED <<world, resolving, known>>

ResolvePhase ==
  /\ ~resolving /\ cmds # <<>>
  /\ resolving' = TRUE
  /\ UNCHANGED <<world, cmds, known>>

NextCommand == cmds' = Tail(cmds) /\ resolving' = (Tail(cmds) # <<>>)
Current(op) == resolving /\ Head(cmds).op = op

ResolveSpawn == Current("spawn") /\ Spawns("main", Head(cmds).at) /\ NextCommand

\* The history moves the entity; the world does when the entity is found.
ResolveMove ==
  LET s == world["main"]  e == Head(cmds).entity  d == Head(cmds).by
      to == known["main"][e] + d
  IN  /\ Current("move") /\ to \in Positions
      /\ Change("main", IF Visible(s, e) THEN Set(s, e, Get(s, e) + d) ELSE s,
                Now(known["main"], e, to))
      /\ NextCommand

\* The commands behind a spawn that fails are not applied; a new list is
\* filled for the next frame.
ResolveFails(place) ==
  /\ Current("spawn") /\ SpawnStops("main", place)
  /\ cmds' = <<>> /\ resolving' = FALSE

Next ==
  \/ \E w \in {"main", "fork"} :
       \/ \E p \in Positions : \/ SpawnTransform(w, p)
                               \/ \E e \in 1..MaxEntities : SetPosition(w, e, p)
       \/ \E place \in Faults : SpawnFails(w, place)
  \/ Fork
  \/ \E p \in Positions : PushCommand(Spawn(p))
  \/ \E e \in DOMAIN known["main"], d \in Shifts : PushCommand(Move(e, d))
  \/ ResolvePhase \/ ResolveSpawn \/ ResolveMove
  \/ \E place \in Faults : ResolveFails(place)

Spec == Init /\ [][Next]_simvars

-----------------------------------------------------------------------------

\* No vector of the world was left shorter than the one it goes with.
Whole(s) == Len(s.generations) = Len(s.entities)

\* Every entity that a spawn returned is found at the position last given to it,
\* in its own world, and no other entity is: although failed spawns leave entities
\* without a row, rows and indices drift apart, a frame moves entities after
\* others were spawned in it, and a fork goes its own way.  A spawn that cannot
\* append to generations what it appended to entities leaves a world whose newest
\* entities are not found; even there an entity found is one that was spawned,
\* in its own row.
EntitiesAreWhereTheyWerePut ==
  \A w \in DOMAIN world :
    /\ {e \in 1..Len(world[w].entities) : Visible(world[w], e)} =
         {e \in DOMAIN known[w] : e <= Len(world[w].generations)}
    /\ \A e \in DOMAIN known[w] : world[w].rows[world[w].entities[e]] = e
    /\ Whole(world[w]) => \A e \in DOMAIN known[w] : Get(world[w], e) = known[w][e]
=============================================================================
