----------------------------- MODULE OsResources -----------------------------
(* The functions of src/Foundation/Prm (and of the layers right above it) that *)
(* acquire several things of the system in a row, each call depending on the   *)
(* one before: COM interfaces, device contexts, handles, blocks, Vulkan        *)
(* objects. Each is written as the ladder of its calls, with what the branch   *)
(* for a failure of that call gives back, in the order of the source.          *)
EXTENDS Naturals, Sequences

VARIABLES
  ladder,   \* the function that runs
  rung,     \* the next call of it
  have,     \* what has been acquired and not given back
  fate,     \* "climbing", "failed", "done" or "closed"
  unheld    \* whether something was given back that was not held

osvars == <<ladder, rung, have, fate, unheld>>

(* A call that acquires r, a call that acquires nothing, and a release. When   *)
(* the call fails, the function gives back undo and returns an error.          *)
Take(r, undo) == [take |-> {r}, undo |-> undo, free |-> {}]
Use(undo)     == [take |-> {}, undo |-> undo, free |-> {}]
Free(s)       == [take |-> {}, undo |-> {}, free |-> s]
Ladder(calls, closes) == [calls |-> calls, closes |-> closes]

Com == {"com"}                   Enum == Com \cup {"enumerator"}
Endpoint == Enum \cup {"endpoint"}  Client == Endpoint \cup {"client"}
Format == Client \cup {"format"}    Sound == Format \cup {"render"}
OpenClient == << Take("com", {}), Take("enumerator", Com), Take("endpoint", Enum),
                 Take("client", Endpoint), Take("format", Client) >>
(* Initialize, GetBufferSize, GetService, GetBuffer; then it plays.            *)
PlaySine == Ladder(OpenClient \o << Use(Format), Use(Format), Take("render", Format),
                                    Use(Sound), Free(Sound) >>, {})
EnumerateDevices == Ladder(OpenClient \o <<Free(Format)>>, {})

(* Two turns of the loop over the adapters; a call that fails ends the loop.   *)
EnumerateAdapters ==
  LET one == << Take("adapter", {"factory"}), Free({"adapter"}) >>
  IN  Ladder(<<Take("factory", {})>> \o one \o one \o <<Free({"factory"})>>, {})

\* Mutant: the window's device context is kept when the second fails.
CreateCpuPresentForgetful ==
  Ladder(<< Take("dc", {}), Take("memoryDc", {}), Take("bitmap", {"memoryDc", "dc"}) >>,
         {"bitmap", "memoryDc", "dc"})

CreateCpuPresent ==
  Ladder(<< Take("dc", {}), Take("memoryDc", {"dc"}), Take("bitmap", {"memoryDc", "dc"}) >>,
         {"bitmap", "memoryDc", "dc"})

(* The library stays loaded, whatever happens, and destroying loads it again.  *)
CreateVulkanSurface ==
  Ladder(<< Take("library", {}), Use({}), Use({}), Take("surface", {}) >>, {"surface"})
DestroyVulkanSurface ==
  Ladder(<< Take("library", {}), Use({}), Use({}), Use({}) >>, {})

(* The class outlives the window that failed.                                  *)
WindowCreate == Ladder(<< Take("class", {}), Take("hwnd", {}) >>, {"hwnd"})
(* The start block is freed by the thread or the fiber that runs.              *)
ThreadCreate == Ladder(<< Take("start", {}), Take("thread", {}), Free({"start"}) >>, {"thread"})
CreateFiber == Ladder(<< Take("start", {}), Take("fiber", {}), Free({"start"}) >>, {"fiber"})
(* unmap gives back the view and not the mapping.                              *)
MapFile == Ladder(<< Take("mapping", {}), Take("view", {"mapping"}) >>, {"view"})
(* The memory is the clipboard's once SetClipboardData has taken it.           *)
SetClipboardText ==
  Ladder(<< Take("clipboard", {}), Use({"clipboard"}), Take("memory", {"clipboard"}),
            Use({"clipboard"}), Use({"clipboard"}), Free({"memory", "clipboard"}) >>, {})
GetClipboardText ==
  Ladder(<< Take("clipboard", {}), Use({"clipboard"}), Take("lock", {"clipboard"}),
            Use({"lock", "clipboard"}), Free({"lock", "clipboard"}) >>, {})
(* size and read leave by `?`, without the close that follows them. Opening a  *)
(* file that is not there succeeds, with a handle whose size cannot be had.    *)
ReadText == Ladder(<< Take("file", {}), Use({}), Use({}), Free({"file"}) >>, {})
VersionedBufferNew ==
  Ladder(<< Take("slot0", {}), Take("slot1", {}), Take("slot2", {}) >>,
         {"slot0", "slot1", "slot2"})
(* Nothing is destroyed when a later object of the context cannot be had.      *)
VkCtxInit ==
  Ladder(<< Take("instance", {}), Take("surface", {}), Use({}), Use({}), Take("device", {}),
            Use({}), Use({}), Take("swapchain", {}), Use({}), Take("renderpass", {}),
            Take("depth", {}), Take("depthMemory", {}), Use({}), Take("depthView", {}),
            Take("pool", {}), Use({}), Take("available", {}), Take("finished", {}),
            Take("fence", {}), Take("buffer", {}), Take("memory", {}), Use({}),
            Take("layout", {}), Take("queries", {}) >>, {})

Clean == {EnumerateDevices, PlaySine, EnumerateAdapters, CreateCpuPresent, GetClipboardText}
Leaky == {CreateVulkanSurface, DestroyVulkanSurface, WindowCreate, ThreadCreate, CreateFiber,
          MapFile, SetClipboardText, ReadText, VersionedBufferNew, VkCtxInit}

Init == /\ ladder \in Clean \cup Leaky
        /\ rung = 1 /\ have = {} /\ fate = "climbing" /\ unheld = FALSE

Call == ladder.calls[rung]
GiveBack(s) == have' = have \ s /\ unheld' = (unheld \/ ~(s \subseteq have))

Climb ==
  /\ fate = "climbing" /\ rung <= Len(ladder.calls) /\ Call.free = {}
  /\ have' = have \cup Call.take /\ rung' = rung + 1
  /\ UNCHANGED <<ladder, fate, unheld>>
Release ==
  /\ fate = "climbing" /\ rung <= Len(ladder.calls) /\ Call.free # {}
  /\ GiveBack(Call.free) /\ rung' = rung + 1
  /\ UNCHANGED <<ladder, fate>>
Fall ==
  /\ fate = "climbing" /\ rung <= Len(ladder.calls) /\ Call.free = {}
  /\ GiveBack(Call.undo) /\ fate' = "failed"
  /\ UNCHANGED <<ladder, rung>>
Arrive ==
  /\ fate = "climbing" /\ rung > Len(ladder.calls)
  /\ fate' = "done"
  /\ UNCHANGED <<ladder, rung, have, unheld>>
(* destroy_cpu_present, unmap, join, delete_fiber, Drop.                       *)
Close ==
  /\ fate = "done" /\ ladder.closes # {}
  /\ GiveBack(ladder.closes) /\ fate' = "closed"
  /\ UNCHANGED <<ladder, rung>>

Next == Climb \/ Release \/ Fall \/ Arrive \/ Close
Spec == Init /\ [][Next]_osvars
-----------------------------------------------------------------------------
(* No branch gives back what it does not hold. A function that fails, or whose *)
(* handle is destroyed, holds nothing, for those that clean up; the others are *)
(* the leaks the code has, and what succeeded keeps just what its destroyer    *)
(* gives back.                                                                 *)
AcquiredIsReleased ==
  /\ ~unheld
  /\ ladder \in Clean /\ fate \in {"failed", "closed"} => have = {}
  /\ ladder \in Clean /\ fate = "done" => have = ladder.closes
=============================================================================
