----------------------------- MODULE TaskRuntime -----------------------------
(***************************************************************************)
(* Frame pacing (Foundation/Sys/Task/API/runtime.rs): the runtime thread   *)
(* polls the task group of a TaskGraph and, when it is done and the GPU is *)
(* not too many frames behind, dispatches the roots that the nodes asked   *)
(* for with NextFrameRoot triggers (dispatch_next_frame_roots).  It runs   *)
(* while workers finish nodes, push roots and count tasks.                 *)
(***************************************************************************)
EXTENDS TaskGraph

CONSTANTS
  MaxAhead,      \* max_ahead, see configure
  TargetFrames   \* target_frames

ASSUME RuntimeAssumption == MaxAhead \in Nat /\ TargetFrames \in Nat

VARIABLES
  frameIdx,     \* frame_idx
  gpuDone,      \* gpu_done
  stop,
  joined,       \* stop_and_join has returned
  rpc, ri, rend, \* runtime thread: program counter, loop index and its end
  dispatched    \* the count dispatch_next_frame_roots returns

rtvars == <<frameIdx, gpuDone, stop, joined, rpc, ri, rend, dispatched>>
loopvars == <<ri, rend, dispatched>>
vars == <<gvars, rtvars>>

RInit ==
  /\ GInit
  /\ frameIdx = 0 /\ gpuDone = 0
  /\ stop = FALSE /\ joined = FALSE
  /\ rpc = "top" /\ ri = 0 /\ rend = 0 /\ dispatched = 0

-----------------------------------------------------------------------------
(* runtime_entry *)

RGoto(from, to) == rpc = from /\ rpc' = to

\* Mutant: the stop flag counts only when all frames are through.
CheckStopLate ==
  /\ dpc = "done"
  /\ RGoto("top", IF stop /\ frameIdx >= TargetFrames THEN "exit" ELSE "isDone")
  /\ UNCHANGED <<gvars, frameIdx, gpuDone, stop, joined, loopvars>>

\* The runtime is started once the first frame has been dispatched.
CheckStop ==
  /\ dpc = "done"
  /\ RGoto("top", IF stop THEN "exit" ELSE "isDone")
  /\ UNCHANGED <<gvars, frameIdx, gpuDone, stop, joined, loopvars>>

CheckDone ==
  /\ RGoto("isDone", IF tg = 0 THEN "budget" ELSE "top")
  /\ UNCHANGED <<gvars, frameIdx, gpuDone, stop, joined, loopvars>>

\* fi.saturating_sub(gd)
Ahead == IF frameIdx > gpuDone THEN frameIdx - gpuDone ELSE 0

\* Mutant: the comparison lets one frame too many through.
CheckBudgetOffByOne ==
  /\ RGoto("budget", IF frameIdx < TargetFrames /\ Ahead <= MaxAhead THEN "roots" ELSE "top")
  /\ UNCHANGED <<gvars, frameIdx, gpuDone, stop, joined, loopvars>>

CheckBudget ==
  /\ RGoto("budget", IF frameIdx < TargetFrames /\ Ahead < MaxAhead THEN "roots" ELSE "top")
  /\ UNCHANGED <<gvars, frameIdx, gpuDone, stop, joined, loopvars>>

-----------------------------------------------------------------------------
(* dispatch_next_frame_roots *)

\* The range of the loop is fixed when it begins.
RootsBegin ==
  /\ RGoto("roots", IF nroots = 0 THEN "top" ELSE "loop")
  /\ ri' = 0 /\ rend' = nroots /\ dispatched' = 0
  /\ UNCHANGED <<gvars, frameIdx, gpuDone, stop, joined>>

\* Ids that name no node are passed over.
SkipRoot ==
  /\ RGoto("loop", "loop")
  /\ ri < rend /\ slots[ri] \notin Nodes
  /\ ri' = ri + 1
  /\ UNCHANGED <<gvars, frameIdx, gpuDone, stop, joined, rend, dispatched>>

EnqueueRoot ==
  /\ RGoto("loop", "add")
  /\ ri < rend /\ slots[ri] \in Nodes
  /\ Enqueue(slots[ri])
  /\ UNCHANGED <<graph, pool, indeg, tg, roots, dvars, wvars, hist>>
  /\ UNCHANGED <<frameIdx, gpuDone, stop, joined, ri, rend, dispatched>>

\* Mutant: the root is enqueued but not counted.
ForgetRoot ==
  /\ RGoto("add", "loop")
  /\ ri' = ri + 1 /\ dispatched' = dispatched + 1
  /\ UNCHANGED <<gvars, frameIdx, gpuDone, stop, joined, rend>>

AddRoot ==
  /\ RGoto("add", "loop")
  /\ AddTask
  /\ ri' = ri + 1 /\ dispatched' = dispatched + 1
  /\ UNCHANGED <<graph, pool, indeg, jobs, deques, roots, dvars, wvars, hist>>
  /\ UNCHANGED <<frameIdx, gpuDone, stop, joined, rend>>

\* next_roots_count = 0, whatever has been pushed since the loop began.
ClearRoots ==
  /\ ri = rend
  /\ RGoto("loop", IF dispatched > 0 THEN "frame" ELSE "top")
  /\ nroots' = 0
  /\ UNCHANGED <<graph, pool, indeg, jobs, deques, tg, slots, dvars, wvars, hist>>
  /\ UNCHANGED <<frameIdx, gpuDone, stop, joined, loopvars>>

\* Mutant: frame_idx counts the roots dispatched.
NextFramePerRoot ==
  /\ RGoto("frame", "top")
  /\ frameIdx' = frameIdx + dispatched
  /\ UNCHANGED <<gvars, gpuDone, stop, joined, loopvars>>

NextFrame ==
  /\ RGoto("frame", "top")
  /\ frameIdx' = frameIdx + 1
  /\ UNCHANGED <<gvars, gpuDone, stop, joined, loopvars>>

Runtime ==
  \/ CheckStop \/ CheckDone \/ CheckBudget \/ RootsBegin \/ SkipRoot
  \/ EnqueueRoot \/ AddRoot \/ ClearRoots \/ NextFrame

-----------------------------------------------------------------------------
(* The other threads *)

\* mark_gpu_completed: the GPU completes a frame that was dispatched.
MarkGpuCompleted ==
  /\ gpuDone <= frameIdx
  /\ gpuDone' = gpuDone + 1
  /\ UNCHANGED <<gvars, frameIdx, stop, joined, rpc, loopvars>>

\* stop_and_join
RequestStop ==
  /\ dpc = "done" /\ ~stop
  /\ stop' = TRUE
  /\ UNCHANGED <<gvars, frameIdx, gpuDone, joined, rpc, loopvars>>

Join ==
  /\ stop /\ ~joined /\ rpc = "exit"
  /\ joined' = TRUE
  /\ UNCHANGED <<gvars, frameIdx, gpuDone, stop, rpc, loopvars>>

Graph == GNext /\ UNCHANGED rtvars

RNext == Graph \/ (~repeated /\ (Runtime \/ MarkGpuCompleted \/ RequestStop \/ Join))

RSpec == RInit /\ [][RNext]_vars

\* The threads run.  Nothing makes the owner call stop or the GPU complete.
RFairness ==
  /\ WF_vars(~repeated /\ Runtime) /\ WF_vars(~repeated /\ Join)
  /\ WF_vars(~repeated /\ Dispatcher /\ UNCHANGED rtvars)
  /\ \A w \in Workers : WF_vars(~repeated /\ w \in pool /\ Worker(w) /\ UNCHANGED rtvars)

RFairSpec == RSpec /\ RFairness

-----------------------------------------------------------------------------
(* Properties *)

RTypeOK ==
  /\ frameIdx \in 0..TargetFrames /\ gpuDone \in Nat
  /\ stop \in BOOLEAN /\ joined \in BOOLEAN
  /\ rpc \in {"top", "isDone", "budget", "roots", "loop", "add", "frame", "exit"}
  /\ ri \in 0..rend /\ dispatched \in 0..ri

(***************************************************************************)
(* Frames dispatched never run more than max_ahead ahead of the frames the *)
(* GPU has completed, however stale the counters were when they were read. *)
(***************************************************************************)
Backpressure == frameIdx <= gpuDone + MaxAhead

(***************************************************************************)
(* While one worker pushes roots and the runtime clears them, the number   *)
(* of roots never passes the capacity of next_roots, and neither does the  *)
(* range of a dispatch under way.                                          *)
(***************************************************************************)
RootsInBounds == nroots <= RootsCap /\ rend <= RootsCap

(***************************************************************************)
(* The group's count accounts for the jobs of all frames, those enqueued   *)
(* by the runtime included, see CounterMatches.                            *)
(***************************************************************************)
FrameCounterMatches == tg = (Balance - (IF rpc = "add" THEN 1 ELSE 0)) % CounterMod

(***************************************************************************)
(* stop_and_join returns: the runtime thread sees the stop flag wherever   *)
(* it is in its loop, also when jobs were lost and the group never done.   *)
(***************************************************************************)
StopJoins == stop ~> joined \/ repeated

RuntimeQuiet == Quiet /\ rpc \in {"top", "isDone", "budget", "exit"}

(***************************************************************************)
(* Each frame goes through the whole chain: when nothing is left to do, a  *)
(* node has run as often as the node it depends on.                        *)
(***************************************************************************)
ChainReaction ==
  RuntimeQuiet => \A k \in DOMAIN graph.edges : started[To(k)] = started[From(k)]

-----------------------------------------------------------------------------
(* Instances: one node that asks for itself, one that asks for a node that *)
(* does not exist, two stages added backwards of which the second asks for *)
(* the first (Input and Sim of the design document), two nodes that ask    *)
(* for each other.                                                         *)
Frame(n, edges, trig) == [n |-> n, edges |-> edges, trig |-> trig]
InputSim == Frame(2, <<<<2, 1>>>>, <<2, 0>>)
InputSimOnly == {InputSim}
SomeFrames ==
  {Frame(1, <<>>, <<1>>), Frame(1, <<>>, <<7>>), InputSim, Frame(2, <<>>, <<1, 2>>)}
=============================================================================
