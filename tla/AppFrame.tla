------------------------------- MODULE AppFrame -------------------------------
(* The program's main function (src/Engine/App/src/main.rs): it sets the       *)
(* project up, opens a window and a device, loads shaders, entities and a      *)
(* model, and then loops: one window message, the simulation steps that are    *)
(* due, one frame. Time is counted in units of which Fixed make one fixed step.*)
EXTENDS Integers, Sequences

CONSTANTS
  Fixed,     \* units of time in one fixed step
  Gaps,      \* how long one turn of the loop may take
  Horizon,   \* bound: the clock stops here
  Posts      \* bound: messages posted to the window

AppAssumption == Fixed \in Nat \ {0} /\ Gaps \subseteq Nat /\ Horizon \in Nat

VARIABLES
  apc,       \* where main is
  device,    \* "absent", "bare", or "ready" once it has its pipelines
  hasModel,  \* whether cached_model is Some
  window,    \* "none", "open" or "destroyed"
  queue,     \* messages posted to the window and not yet taken
  posted,    \* how many have been posted
  quit,      \* QUIT
  clock,     \* time measured by the loop
  acc,       \* accumulator
  steps,     \* fixed steps simulated
  ringOpen,  \* between begin_frame and commit_frame of the state ring
  passes,    \* the passes of the frame graph being executed
  frame      \* what this turn has asked of the device

appvars == <<apc, device, hasModel, window, queue, posted, quit,
             clock, acc, steps, ringOpen, passes, frame>>
time    == <<clock, acc, steps, ringOpen>>
input   == <<queue, posted, quit>>
drawing == <<passes, frame>>

Init ==
  /\ apc = "project" /\ device = "absent"
  /\ hasModel = FALSE /\ window = "none" /\ queue = <<>> /\ posted = 0
  /\ quit = FALSE /\ clock = 0 /\ acc = 0 /\ steps = 0 /\ ringOpen = FALSE
  /\ passes = <<>> /\ frame = <<>>

Goto(p) == apc' = p

(* The project's directory comes from a file, or from a default written there; *)
(* its directories and the mounts follow unless it is not a directory.         *)
OpenProject ==
  /\ apc = "project"
  /\ Goto("window") \/ Goto("returned")
  /\ UNCHANGED <<device, hasModel, window, input, time, drawing>>
CreateWindow ==
  /\ apc = "window"
  /\ \E ok \in BOOLEAN : window' = (IF ok THEN "open" ELSE "none")
                         /\ Goto(IF ok THEN "device" ELSE "returned")
  /\ UNCHANGED <<device, hasModel, input, time, drawing>>
CreateDevice ==
  /\ apc = "device"
  /\ device' \in {"absent", "bare"} /\ Goto("shaders")
  /\ UNCHANGED <<hasModel, window, input, time, drawing>>
(* Pipelines need the three shader files read and the device present.          *)
LoadShaders ==
  /\ apc = "shaders"
  /\ device' \in IF device = "bare" THEN {"bare", "ready"} ELSE {device}
  /\ Goto("entities")
  /\ UNCHANGED <<hasModel, window, input, time, drawing>>
(* Two entities are spawned; out of memory here is a panic.                    *)
SpawnEntities ==
  /\ apc = "entities"
  /\ Goto("model") \/ Goto("panicked")
  /\ UNCHANGED <<device, hasModel, window, input, time, drawing>>
(* The model is kept whether or not the device accepted it.                    *)
LoadModel ==
  /\ apc = "model"
  /\ hasModel' \in BOOLEAN
  /\ Goto("message")
  /\ UNCHANGED <<device, window, input, time, drawing>>

(* Somebody posts a message to the window. A close sent rather than posted is  *)
(* handled inside the dispatch of another message and never reaches the        *)
(* callback that sets QUIT.                                                    *)
Post ==
  /\ window = "open" /\ posted < Posts
  /\ \E m \in {"close", "other"} : queue' = Append(queue, m)
  /\ posted' = posted + 1
  /\ UNCHANGED <<apc, quit, device, hasModel, window, time, drawing>>

\* Mutant: the message is looked at and stays in the queue.
PeekMessage ==
  /\ apc = "message"
  /\ quit' = IF queue = <<>> THEN quit ELSE (quit \/ Head(queue) = "close")
  /\ Goto("quit")
  /\ UNCHANGED <<queue, posted, device, hasModel, window, time, drawing>>

ProcessMessage ==
  /\ apc = "message"
  /\ IF queue = <<>> THEN UNCHANGED <<queue, quit>>
     ELSE queue' = Tail(queue) /\ quit' = (quit \/ Head(queue) = "close")
  /\ Goto("quit")
  /\ UNCHANGED <<posted, device, hasModel, window, time, drawing>>
TestQuit ==
  /\ apc = "quit"
  /\ Goto(IF quit THEN "destroy" ELSE "measure")
  /\ UNCHANGED <<input, device, hasModel, window, time, drawing>>
Measure ==
  /\ apc = "measure"
  /\ \E g \in Gaps \cup {0} : LET dt == IF clock + g <= Horizon THEN g ELSE 0
                              IN  clock' = clock + dt /\ acc' = acc + dt
  /\ Goto("simulate")
  /\ UNCHANGED <<steps, ringOpen, input, device, hasModel, window, drawing>>

BeginStep ==
  /\ apc = "simulate" /\ acc >= Fixed
  /\ ringOpen' = TRUE /\ steps' = steps + 1 /\ Goto("update")
  /\ UNCHANGED <<clock, acc, input, device, hasModel, window, drawing>>

\* Mutant: the accumulator is emptied, not lowered by one step.
CommitStepReset ==
  /\ apc = "update"
  /\ ringOpen' = FALSE /\ acc' = 0 /\ Goto("simulate")
  /\ UNCHANGED <<clock, steps, input, device, hasModel, window, drawing>>

(* The script's update, the commit of the ring, and the time it stood for.     *)
CommitStep ==
  /\ apc = "update"
  /\ ringOpen' = FALSE /\ acc' = acc - Fixed /\ Goto("simulate")
  /\ UNCHANGED <<clock, steps, input, device, hasModel, window, drawing>>
SkipRender ==
  /\ apc = "simulate" /\ acc < Fixed /\ (device = "absent" \/ ~hasModel)
  /\ Goto("message")
  /\ UNCHANGED <<input, device, hasModel, window, time, drawing>>

(* extract, draw_packet, and a frame graph of three passes in this order.      *)
DrawFrame ==
  /\ apc = "simulate" /\ acc < Fixed /\ device # "absent" /\ hasModel
  /\ frame' = <<"draw">>
  /\ passes' = << <<"begin", "depth">>, <<"colour">>, <<"present">> >>
  /\ Goto("execute")
  /\ UNCHANGED <<input, device, hasModel, window, time>>
(* A pass that fails is forgotten: what it returns is dropped.                 *)
ExecutePass ==
  /\ apc = "execute" /\ passes # <<>>
  /\ frame' = frame \o Head(passes) /\ passes' = Tail(passes)
  /\ UNCHANGED <<apc, input, device, hasModel, window, time>>
Sleep ==
  /\ apc = "execute" /\ passes = <<>>
  /\ frame' = <<>> /\ Goto("message")
  /\ UNCHANGED <<passes, input, device, hasModel, window, time>>
Destroy ==
  /\ apc = "destroy"
  /\ window' = "destroyed" /\ Goto("returned")
  /\ UNCHANGED <<input, device, hasModel, time, drawing>>

Main == \/ OpenProject \/ CreateWindow \/ CreateDevice
        \/ LoadShaders \/ SpawnEntities \/ LoadModel \/ ProcessMessage \/ TestQuit \/ Measure
        \/ BeginStep \/ CommitStep \/ SkipRender \/ DrawFrame \/ ExecutePass
        \/ Sleep \/ Destroy
Next == Main \/ Post
Spec == Init /\ [][Next]_appvars /\ WF_appvars(Main)
-----------------------------------------------------------------------------
(* No time is lost or simulated twice: what was measured is what was simulated *)
(* plus what is left over, less than one step of which ever waits for the next *)
(* frame; a step in progress is the only one whose ring frame is open.         *)
ClockConserved ==
  /\ clock = steps * Fixed + acc - (IF ringOpen THEN Fixed ELSE 0)
  /\ ringOpen <=> apc = "update"
  /\ apc \notin {"simulate", "update"} => acc \in 0 .. Fixed - 1

(* The device sees whole frames in one order, draw, begin, depth, colour,      *)
(* present, and only with a device and a model, never after the window closed. *)
WholeFrames ==
  /\ \E n \in 0 .. 5 : frame = SubSeq(<<"draw", "begin", "depth", "colour", "present">>, 1, n)
  /\ apc # "execute" => frame = <<>>
  /\ frame # <<>> => device # "absent" /\ hasModel /\ window = "open"
  /\ apc = "message" => passes = <<>>

AppSound == ClockConserved /\ WholeFrames

(* A close that was posted ends the program with its window destroyed, however *)
(* many steps are due: the backlog of a turn is finite and each turn takes one *)
(* message.                                                                    *)
CloseEnds == (window = "open" /\ apc # "panicked" /\ \E i \in 1 .. Len(queue) : queue[i] = "close")
               ~> (window = "destroyed" \/ apc = "panicked")
=============================================================================
