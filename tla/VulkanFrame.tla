---------------------------- MODULE VulkanFrame ----------------------------
(* One frame after the other through Sys.RHI's Vulkan backend (vk_passes.rs,
   vk_renderer.rs, vk_model.rs), as the render graph of Engine.App drives it:
   draw_packet, begin_frame, depth_prepass, color_pass, present; or
   present_pixels, a whole frame of its own.  The passes ignore each other's
   errors, as the application does.  The processor runs the submitted commands
   on its own.  Every call of the driver may fail, the waits included, whose
   results the code discards; faults records which did, misuse what the program
   then does that Vulkan forbids or that writes what the processor reads. *)

EXTENDS Naturals, FiniteSets

CONSTANT MaxFaults  \* bound on the kinds of call that fail in one behaviour

FaultsAssumption == MaxFaults \in Nat

VARIABLES
    vpc,        \* the next call of the frame
    fence,      \* in_flight is signaled
    gpu,        \* what the processor executes: "idle", "depth", "colour", "copy"
    semaphore,  \* img_available is signaled
    chain,      \* the swapchain handle is alive
    targets,    \* framebuffers and depth image exist
    staging,    \* cpu_buf is alive
    image,      \* curr_img_index is acquired from this swapchain and not presented
    cmd,        \* the command buffer records
    pipeline, model, faults, misuse

vkvars == <<vpc, fence, gpu, semaphore, chain, targets, staging, image, cmd, pipeline, model,
            faults, misuse>>
swapState == <<chain, targets, staging, image>>
assets == <<pipeline, model>>

Init ==
    /\ vpc = "start"
    /\ fence = TRUE /\ gpu = "idle" /\ semaphore = FALSE
    /\ chain = TRUE /\ targets = TRUE /\ staging = TRUE /\ image = FALSE /\ cmd = FALSE
    /\ pipeline = "null" /\ model = "none"
    /\ faults = {} /\ misuse = {}

Goto(p) == vpc' = p
FewFaults == Cardinality(faults') <= MaxFaults
Failing(fs) == faults' = faults \union fs /\ FewFaults
Fault(f) == Failing({f})
NoFault == UNCHANGED faults
Misuses(ms) == misuse' = misuse \union ms
When(cond, m) == IF cond THEN {m} ELSE {}

-----------------------------------------------------------------------------
\* Before the loop: recreate_pipelines and upload_model, each once or more.

\* The old pipelines are destroyed first and their handles kept, so that a
\* failure leaves handles of nothing behind.
CreatePipelines ==
    /\ vpc = "start"
    /\ Misuses(When(pipeline = "stale", "destroyed_twice"))
    /\ \/ pipeline' = "live" /\ NoFault
       \/ pipeline' = (IF pipeline = "null" THEN "null" ELSE "stale") /\ Fault("pipeline")
    /\ UNCHANGED <<vpc, fence, gpu, semaphore, swapState, cmd, model>>

\* A failure leaves the buffers made so far behind; index_count stays zero.
UploadModel ==
    /\ vpc = "start"
    /\ \/ model' = "ready" /\ NoFault
       \/ model # "ready" /\ model' \in {"none", "partial"} /\ Fault("upload")
    /\ UNCHANGED <<vpc, fence, gpu, semaphore, swapState, cmd, pipeline, misuse>>

StartLoop ==
    /\ vpc = "start"
    /\ Goto("draw")
    /\ Failing(When(pipeline # "live", "pipeline") \union When(model # "ready", "upload"))
    /\ UNCHANGED <<fence, gpu, semaphore, swapState, cmd, assets, misuse>>

-----------------------------------------------------------------------------
\* draw_packet writes the vertices of both slots, before the fence is awaited:
\* the processor may still read them, in the colour pass or even in the depth
\* pass.  No instances, or memory that cannot be mapped, end it early.
DrawPacket ==
    /\ vpc = "draw"
    /\ Goto("begin")
    /\ \/ NoFault /\ Misuses(When(gpu = "depth", "overlap")
                             \union When(gpu \in {"depth", "colour"}, "vertices")
                             \union When(model = "none", "null_buffer"))
       \/ NoFault /\ UNCHANGED misuse
       \/ Fault("map") /\ UNCHANGED misuse
    /\ UNCHANGED <<fence, gpu, semaphore, swapState, cmd, assets>>

\* wait_for_fences and reset_fences.  Both results are discarded: the frame goes
\* on whether or not the processor is done and the fence is reset.
WaitFence(from, to) ==
    /\ vpc = from
    /\ \E fs \in SUBSET {"wait", "reset"} :
          /\ fence \/ "wait" \in fs
          /\ fence' = (fence /\ "reset" \in fs)
          /\ Misuses(When(gpu # "idle" /\ "reset" \notin fs, "fence_in_use"))
          /\ Failing(fs)
    /\ Goto(to)
    /\ UNCHANGED <<gpu, semaphore, swapState, cmd, assets>>

BeginFrame == WaitFence("begin", "acquire")

AcquireMisuse == Misuses(When(~chain, "dead_swapchain")
                         \union When(semaphore \/ gpu # "idle", "signaled_twice"))

\* acquire_next_image: an image; one of a swapchain that should be recreated;
\* none.
Acquire ==
    /\ vpc = "acquire"
    /\ AcquireMisuse
    /\ \/ image' = TRUE /\ semaphore' = TRUE /\ Goto("record") /\ NoFault
       \/ image' = TRUE /\ semaphore' = TRUE /\ Goto("recreate_suboptimal") /\ Fault("suboptimal")
       \/ UNCHANGED <<image, semaphore>> /\ Goto("recreate_lost") /\ Fault("acquire")
    /\ UNCHANGED <<fence, gpu, chain, targets, staging, cmd, assets>>

\* create_swapchain_related: all made; a failure before the framebuffers, with or
\* without a new swapchain; one after them, when the staging buffer was
\* destroyed to be made larger; an image view or a framebuffer that panics.
CreateSwapchain(early, failTo, okTo) ==
    \/ /\ chain' = TRUE /\ targets' = TRUE /\ staging' \in {staging, TRUE}
       /\ Goto(okTo) /\ Failing(early)
    \/ /\ chain' \in BOOLEAN /\ targets' = FALSE /\ UNCHANGED staging
       /\ Goto(failTo) /\ Failing(early \union {"recreate"})
    \/ /\ chain' = TRUE /\ targets' = TRUE /\ staging' = FALSE
       /\ Goto(failTo) /\ Failing(early \union {"recreate"})
    \/ /\ chain' = TRUE /\ targets' = FALSE /\ UNCHANGED staging
       /\ Goto("panicked") /\ Failing(early \union {"recreate"})

DestroyMisuse == Misuses(When(gpu # "idle", "in_use") \union When(~chain, "dead_swapchain")
                         \union When(~staging, "dead_staging"))

\* Mutant of Recreate: the processor is not awaited.
RecreateAtOnce(failTo, okTo) ==
    /\ DestroyMisuse
    /\ image' = FALSE
    /\ CreateSwapchain({}, failTo, okTo)

\* vk_ctx_recreate: waits for the processor, destroys the swapchain and what
\* hangs on it and makes them anew.  A wait that fails is ignored, and the
\* processor may still run.
Recreate(failTo, okTo) ==
    \E early \in {{}, {"idle"}} :
       /\ gpu = "idle" \/ "idle" \in early
       /\ DestroyMisuse
       /\ image' = FALSE
       /\ CreateSwapchain(early, failTo, okTo)

RecreateSuboptimal ==
    /\ vpc = "recreate_suboptimal"
    /\ Recreate("record", "record")
    /\ UNCHANGED <<fence, gpu, semaphore, cmd, assets>>

\* Here a failure fails begin_frame.
RecreateLost ==
    /\ vpc = "recreate_lost"
    /\ Recreate("depth", "acquire_again")
    /\ UNCHANGED <<fence, gpu, semaphore, cmd, assets>>

\* acquire_next_image whose failure ends the frame.
AcquireOrEnd(from, to, end) ==
    /\ vpc = from
    /\ AcquireMisuse
    /\ \/ image' = TRUE /\ semaphore' = TRUE /\ Goto(to) /\ NoFault
       \/ UNCHANGED <<image, semaphore>> /\ Goto(end) /\ Fault("acquire_again")
    /\ UNCHANGED <<fence, gpu, chain, targets, staging, cmd, assets>>

AcquireAgain == AcquireOrEnd("acquire_again", "record", "depth")

\* begin_command_buffer and the render pass; the framebuffer is indexed, which
\* panics when there is none.  What becomes of commands begun while they are
\* executed is undefined, and the model ends there.
Record ==
    /\ vpc = "record"
    /\ \/ /\ gpu # "idle" /\ Misuses({"busy_commands"}) /\ Goto("undefined")
          /\ NoFault /\ UNCHANGED cmd
       \/ /\ gpu = "idle" /\ cmd' = targets
          /\ Goto(IF targets THEN "depth" ELSE "panicked")
          /\ NoFault /\ UNCHANGED misuse
       \/ gpu = "idle" /\ Goto("depth") /\ Fault("begin") /\ UNCHANGED <<cmd, misuse>>
    /\ UNCHANGED <<fence, gpu, semaphore, swapState, assets>>

\* depth_prepass and color_pass record into whatever state the buffer is in.
RecordPass(p, next) ==
    /\ vpc = p
    /\ Misuses(When(~cmd, "not_recording") \union When(pipeline # "live", "no_pipeline")
               \union When(model # "ready", "null_buffer"))
    /\ Goto(next)
    /\ UNCHANGED <<fence, gpu, semaphore, swapState, cmd, assets, faults>>

DepthPrepass == RecordPass("depth", "colour")
ColourPass == RecordPass("colour", "present")

\* end_command_buffer and queue_submit.  A failure ends the frame with the fence
\* reset and nothing submitted that would signal it.
Submit ==
    /\ vpc = "present"
    /\ cmd' = FALSE
    /\ \/ /\ Misuses(When(~cmd, "not_recording"))
          /\ Goto("draw") /\ Fault("submit") /\ UNCHANGED <<gpu, semaphore>>
       \/ /\ cmd /\ Misuses(When(fence, "fence_signaled"))
          /\ gpu' = "depth" /\ semaphore' = FALSE /\ Goto("queue") /\ NoFault
    /\ UNCHANGED <<fence, swapState, assets>>

\* queue_present, and where a failure of it leads.
PresentImage(from, to, failTo) ==
    /\ vpc = from
    /\ Misuses(When(~image, "unacquired_image") \union When(~chain, "dead_swapchain"))
    /\ image' = FALSE
    /\ \/ Goto(to) /\ NoFault
       \/ Goto(failTo) /\ Fault("present")
    /\ UNCHANGED <<fence, gpu, semaphore, chain, targets, staging, cmd, assets>>

QueuePresent == PresentImage("queue", "results", "recreate_present")

RecreatePresent ==
    /\ vpc = "recreate_present"
    /\ Recreate("results", "results")
    /\ UNCHANGED <<fence, gpu, semaphore, cmd, assets>>

\* get_query_pool_results with WAIT returns when the depth pass has run, or
\* fails, which is ignored.
QueryResults ==
    /\ vpc = "results"
    /\ \/ gpu # "depth" /\ NoFault
       \/ Fault("results")
    /\ Goto("draw")
    /\ UNCHANGED <<fence, gpu, semaphore, swapState, cmd, assets, misuse>>

-----------------------------------------------------------------------------
\* present_pixels checks the size and fills the staging buffer before it waits
\* for the copy submitted last.
FillStaging ==
    /\ vpc = "draw"
    /\ \/ \E f \in {"size", "map"} : Fault(f)
          /\ UNCHANGED <<vpc, misuse>>
       \/ /\ Misuses(When(~staging, "dead_staging") \union When(gpu = "copy", "staging"))
          /\ Goto("pixels") /\ NoFault
    /\ UNCHANGED <<fence, gpu, semaphore, swapState, cmd, assets>>

WaitPixels == WaitFence("pixels", "pixels_acquire")

AcquirePixels == AcquireOrEnd("pixels_acquire", "pixels_copy", "draw")

\* begin_command_buffer, the copy, end_command_buffer and queue_submit.
CopyPixels ==
    /\ vpc = "pixels_copy"
    /\ \/ /\ gpu # "idle" /\ Misuses({"busy_commands"}) /\ Goto("undefined")
          /\ NoFault /\ UNCHANGED <<gpu, semaphore>>
       \/ /\ gpu = "idle" /\ Goto("draw")
          /\ \E f \in {"begin", "submit"} : Fault(f)
          /\ UNCHANGED <<gpu, semaphore, misuse>>
       \/ /\ gpu = "idle" /\ Misuses(When(fence, "fence_signaled"))
          /\ gpu' = "copy" /\ semaphore' = FALSE /\ Goto("pixels_present") /\ NoFault
    /\ UNCHANGED <<fence, swapState, cmd, assets>>

PresentPixels == PresentImage("pixels_present", "draw", "draw")

-----------------------------------------------------------------------------
\* The processor; at the end of a submission it signals the fence.
DepthDone == gpu = "depth" /\ gpu' = "colour" /\ UNCHANGED fence
AllDone == gpu \in {"colour", "copy"} /\ gpu' = "idle" /\ fence' = TRUE
Processor ==
    /\ DepthDone \/ AllDone
    /\ UNCHANGED <<vpc, semaphore, swapState, cmd, assets, faults, misuse>>

Next ==
    \/ CreatePipelines \/ UploadModel \/ StartLoop
    \/ DrawPacket \/ BeginFrame \/ Acquire \/ RecreateSuboptimal \/ RecreateLost
    \/ AcquireAgain \/ Record \/ DepthPrepass \/ ColourPass \/ Submit
    \/ QueuePresent \/ RecreatePresent \/ QueryResults
    \/ FillStaging \/ WaitPixels \/ AcquirePixels \/ CopyPixels \/ PresentPixels
    \/ Processor

Spec == Init /\ [][Next]_vkvars

\* Waiting for a fence that nothing submitted will signal.
Hung == vpc \in {"begin", "pixels"} /\ ~fence /\ gpu = "idle"
Harmless == {"acquire", "present", "map", "size"}
Unsubmitted == {"recreate", "acquire_again", "begin", "submit"}

(* A swapchain that is lost, at acquire or at present, and successfully made
   again does no harm.  All that happens without another failure is that the
   processor's vertices are overwritten in its colour pass and its pixels in
   their copy, because draw_packet and present_pixels write before the fence is
   awaited; in its depth pass only after the wait for the query results failed
   (vk_passes.rs:73).  Commands are begun anew or the fence is reset or
   submitted out of turn only after waiting for the fence or resetting it
   failed (vk_passes.rs:8-9, 95-96), and what the processor uses is destroyed
   only after the wait for the device failed (vk_renderer.rs:200).  An image is
   presented that was not acquired only after a suboptimal acquire or a failed
   frame, and a frame hangs only after one that failed between resetting the
   fence and submitting. *)
FramesSound ==
    /\ faults \subseteq Harmless =>
         misuse \subseteq {"vertices", "staging"} /\ ~Hung /\ vpc \notin {"panicked", "undefined"}
    /\ "overlap" \in misuse => "results" \in faults
    /\ misuse \intersect {"busy_commands", "fence_in_use", "fence_signaled"} # {} =>
         faults \intersect {"wait", "reset"} # {}
    /\ "in_use" \in misuse => "idle" \in faults
    /\ misuse \intersect {"dead_swapchain", "dead_staging"} # {} \/ vpc = "panicked" =>
         "recreate" \in faults
    /\ "unacquired_image" \in misuse =>
         faults \intersect (Unsubmitted \union {"suboptimal"}) # {}
    /\ "no_pipeline" \in misuse => "pipeline" \in faults
    /\ Hung => faults \intersect Unsubmitted # {}
=============================================================================
