------------------------------- MODULE MCEngine -------------------------------
(* Instances of the modules about the world and what is drawn of it, the       *)
(* resources of the system, and the algorithms and vector arithmetic. One      *)
(* behaviour is of one of them, chosen at the start; the others keep an        *)
(* initial state.                                                              *)
EXTENDS Integers, Sequences

CONSTANTS
  Positions, Shifts, MaxEntities, MaxCommands, Faults,  \* of SimWorld
  MaxFaults,                                            \* of VulkanFrame
  VfsCap, Aliases, Roots,                               \* of VirtualFiles
  Managed, Versions,                                    \* of VersionedBuffers
  SortValues, LongestSlice, StackPairs, Base, WordMod,  \* of Sorting
  Centers, MostPrims,                                   \* of SpatialIndex
  Lens, LaneKernelSet,                                  \* of LaneKernels
  LaneInputs,                                           \* of SimdLanes
  Linear, Offsets, Units, BoxPairs, Extent              \* of VectorMath

VARIABLES world, cmds, resolving, known,
          vpc, fence, gpu, semaphore, chain, targets, staging, image, cmd, pipeline, model,
          faults, misuse,
          entries, reply, mounts,
          made, readIdx, writeIdx, val, last, moving, pin, managed,
          ladder, rung, have, fate, unheld,
          kernel, lenA, lenB, out, at, returned,
          algo, given, xs, ranges, walk, operand, outcome,
          centre, room, stage, codes, order, nodes, level, above, scratch,
          op, path, va, vb, vc, result,
          call, arg1, arg2, answer,
          which

sim      == <<world, cmds, resolving, known>>
frames   == <<vpc, fence, gpu, semaphore, chain, targets, staging, image, cmd, pipeline, model,
              faults, misuse>>
files    == <<entries, reply, mounts>>
versions == <<made, readIdx, writeIdx, val, last, moving, pin, managed>>
ladders  == <<ladder, rung, have, fate, unheld>>
kernels  == <<kernel, lenA, lenB, out, at, returned>>
sorting  == <<algo, given, xs, ranges, walk, operand, outcome>>
tree     == <<centre, room, stage, codes, order, nodes, level, above, scratch>>
lanes    == <<op, path, va, vb, vc, result>>
vectors  == <<call, arg1, arg2, answer>>

Alias(n, c) == [len |-> n, name |-> c]
SomeAliases == {Alias(0, "e"), Alias(3, "p"), Alias(3, "q"), Alias(17, "l")}
Centre(x, y, z) == [x |-> x, y |-> y, z |-> z]
SomeCentres == {Centre(0, 0, 0), Centre(3, 1, 0), Centre(1, 2, 5)}
EveryKernel == {"add_batch", "add_soa", "dot_soa", "add_soa_unchecked", "dot_soa_unchecked",
                "lwc", "lwc_view", "add_view", "fma_view", "fma_unchecked",
                "generic_add_soa", "generic_dot_soa", "generic_fma_view",
                "sin_view", "cos_view", "tan_view", "exp_view"}
NotANumber == 1000000  \* NaN of SimdLanes
SomeLanes == {<<-12, -4, 4, NotANumber>>, <<4, 12, 20, 32>>, <<8, 32, 32, 8>>,
              <<8, 0, -8, 4>>, <<NotANumber, -20, 8, -4>>}
SquareLanes == {<<8, 32, 32, 8>>}  \* no NaN, and no tie of rounding
SomeLinear == { << <<1, 0, 0>>, <<0, 1, 0>>, <<0, 0, 1>> >>,
                << <<0, 1, 0>>, <<0, 0, 1>>, <<1, 0, 0>> >>,
                << <<1, 2, 0>>, <<0, 1, 3>>, <<0, 0, -1>> >>,
                << <<2, 1, 0>>, <<1, 1, 2>>, <<0, 0, 1>> >> }
SomeOffsets == {<<0, 0, 0>>, <<1, 2, 3>>, <<-2, 1, 0>>, <<4, -1, 2>>, <<2, 2, 2>>}
SomeUnits == {q \in [1 .. 4 -> -1 .. 1] :
                q[1] * q[1] + q[2] * q[2] + q[3] * q[3] + q[4] * q[4] = 1}
Box(lo, hi) == <<lo, hi>>
SomeBoxes == {Box(<<0, 0, 0>>, <<3, 2, 4>>), Box(<<-2, 1, 1>>, <<1, 1, 3>>)} \X
             {Box(<<3, 1, 1>>, <<4, 5, 1>>), Box(<<-1, -2, 0>>, <<-1, 6, 2>>),
              Box(<<0, 1, 1>>, <<2, 1, 2>>)}

W == INSTANCE SimWorld
F == INSTANCE VulkanFrame
P == INSTANCE VirtualFiles
V == INSTANCE VersionedBuffers
O == INSTANCE OsResources
K == INSTANCE LaneKernels
S == INSTANCE Sorting
T == INSTANCE SpatialIndex
L == INSTANCE SimdLanes
M == INSTANCE VectorMath

ASSUME Constants == W!SimAssumption /\ F!FaultsAssumption /\ P!FilesAssumption /\ V!VersionsAssumption
                    /\ S!SortingAssumption /\ T!SpatialAssumption /\ K!KernelsAssumption
                    /\ L!LanesAssumption /\ M!MathAssumption /\ L!NaN = NotANumber

Init ==
  /\ which \in {"sim", "frames", "files", "versions", "ladders", "kernels", "sorting", "tree",
                "lanes", "vectors"}
  /\ W!Init /\ F!Init /\ P!Init /\ V!Init
  /\ IF which = "ladders" THEN O!Init
     ELSE /\ ladder = O!MapFile /\ rung = 1 /\ have = {} /\ fate = "parked"
          /\ unheld = FALSE
  /\ IF which = "kernels" THEN K!Init
     ELSE /\ kernel = "add_view" /\ lenA = 0 /\ lenB = 0 /\ out = << >> /\ at = 0
          /\ returned = 0
  /\ IF which = "sorting" THEN S!Init
     ELSE /\ algo = "radix" /\ given = << >> /\ xs = << >> /\ ranges = << >>
          /\ walk = S!NoWalk /\ operand = 0 /\ outcome = "done"
  /\ IF which = "tree" THEN T!Init
     ELSE /\ centre = << >> /\ room = 0 /\ stage = "done" /\ codes = << >>
          /\ order = << >> /\ nodes = << >> /\ level = << >> /\ above = << >>
          /\ scratch = {}
  /\ IF which = "lanes" THEN L!Init
     ELSE /\ op = "add" /\ path = "scalar" /\ va = << >> /\ vb = << >> /\ vc = << >>
          /\ result = << >>
  /\ IF which = "vectors" THEN M!Init
     ELSE /\ call = "parked" /\ arg1 = << >> /\ arg2 = << >> /\ answer = << >>

Next ==
  /\ UNCHANGED which
  /\ \/ /\ which = "sim" /\ W!Next
        /\ UNCHANGED <<frames, files, versions, ladders, kernels, sorting, tree, lanes, vectors>>
     \/ /\ which = "frames" /\ F!Next
        /\ UNCHANGED <<sim, files, versions, ladders, kernels, sorting, tree, lanes, vectors>>
     \/ /\ which = "files" /\ P!Next
        /\ UNCHANGED <<sim, frames, versions, ladders, kernels, sorting, tree, lanes, vectors>>
     \/ /\ which = "versions" /\ V!Next
        /\ UNCHANGED <<sim, frames, files, ladders, kernels, sorting, tree, lanes, vectors>>
     \/ /\ which = "ladders" /\ O!Next
        /\ UNCHANGED <<sim, frames, files, versions, kernels, sorting, tree, lanes, vectors>>
     \/ /\ which = "kernels" /\ K!Next
        /\ UNCHANGED <<sim, frames, files, versions, ladders, sorting, tree, lanes, vectors>>
     \/ /\ which = "sorting" /\ S!Next
        /\ UNCHANGED <<sim, frames, files, versions, ladders, kernels, tree, lanes, vectors>>
     \/ /\ which = "tree" /\ T!Next
        /\ UNCHANGED <<sim, frames, files, versions, ladders, kernels, sorting, lanes, vectors>>
     \/ /\ which = "lanes" /\ L!Next
        /\ UNCHANGED <<sim, frames, files, versions, ladders, kernels, sorting, tree, vectors>>
     \/ /\ which = "vectors" /\ M!Next
        /\ UNCHANGED <<sim, frames, files, versions, ladders, kernels, sorting, tree, lanes>>

everything == <<sim, frames, files, versions, ladders, kernels, sorting, tree, lanes, vectors,
                which>>
Spec == Init /\ [][Next]_everything
-----------------------------------------------------------------------------
(* SimWorld: every entity that spawn returned is where it was put, in the      *)
(* world and in its fork, whatever failed on the way (lib.rs of Sim.Scene).    *)
EntitiesAreWhereTheyWerePut == which = "sim" => W!EntitiesAreWhereTheyWerePut

(* The Vulkan frame: what the processor uses is destroyed or recorded anew     *)
(* only after a wait failed, and a frame waits for ever only after one failed  *)
(* unsubmitted (vk_passes.rs).  What a call of the system acquired is given    *)
(* back once, on every path of the functions that clean up (Prm).              *)
ExternalCallsSound ==
  /\ which = "frames" => F!FramesSound
  /\ which = "ladders" => O!AcquiredIsReleased

(* Aliases keep leading to their first mount (VFS/API/lib.rs); a reader of a   *)
(* versioned buffer is undisturbed until the second commit, and the slot to    *)
(* read holds the version committed last (Resource/API/lib.rs).                *)
ResourcesKept ==
  /\ which = "files" => P!FirstMountAnswers
  /\ which = "versions" => V!ReaderUndisturbed

(* The vector kernels fill just their columns; the lanes of both paths, and    *)
(* matrices, boxes and rays, are what their definitions say.                   *)
ArithmeticSound ==
  /\ which = "kernels" => K!ColumnsFilled
  /\ which = "lanes" => L!LanesMatch
  /\ which = "vectors" => M!GeometrySound

(* Sorting, searching and scanning give what their names say; the bounding     *)
(* volume tree encloses its primitives, each once, with monotone codes.        *)
OrderingSound ==
  /\ which = "sorting" => S!SlicesCorrect
  /\ which = "tree" => T!TreeSound /\ T!CodesMonotone

(* lbvh_build fills the needed nodes (Cap/Algorithms/Sample/Test/main.rs:31    *)
(* and 34 say 2n - 1).                                                         *)
BuiltIsNeeded == which = "tree" => T!BuiltIsNeeded

(* The instruction paths of the lanes answer what the scalar fallback answers  *)
(* (Cap/Math/README.md:26 and 103).                                            *)
PathsAgree == which = "lanes" => L!PathsAgree
=============================================================================
