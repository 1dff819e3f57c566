----------------------------- MODULE AsyncCompute -----------------------------
(* Compute work of scripts next to the frames: command lists of             *)
(* scripting/interop_compute and script_resources, submitted without a host *)
(* wait by frame_context::submit_async, whose timeline the frames wait for  *)
(* in end_frame.  The main thread runs the scripts, the render thread       *)
(* submits the frames, the device executes both.                            *)
(* Abstracted: a list is the buffers its dispatches use; every frame        *)
(* samples what the lists write.                                            *)
EXTENDS Naturals, Sequences

CONSTANTS
  Lists,               \* command lists, each begun at most once
  Buffers,             \* compute buffers, created before the start
  MaxFramesInFlight,   \* swapchain::max_frames_in_flight
  MaxFrames            \* bound: frames rendered

ASSUME SizesAssumption == MaxFramesInFlight \in Nat \ {0} /\ MaxFrames \in Nat

VARIABLES
  shared_queue,        \* whether the device has one queue for compute and graphics
  phase, uses,         \* the registry: what became of each list; the buffers it uses
  main_pc, awaited,    \* what the main thread is in the middle of, with which lists
  published,           \* _async_published
  returned,            \* history: the lists whose submit_async has returned
  retired_at, destroyed,  \* the value each buffer was retired with, 0 for none
  frame_index, render_pc, wait_value,  \* _frame_index; what end_frame waits for
  seen,                \* history: the returned lists when end_frame read published
  submissions,         \* history: what was submitted to the queues, in order
  started, finished,   \* which of it the device has begun, and completed
  async_timeline, timeline  \* the timeline semaphores of the lists and of the frames

registry == <<phase, uses, main_pc, awaited, published, returned>>
buffers == <<retired_at, destroyed>>
frames == <<frame_index, render_pc, wait_value, seen>>
device == <<started, finished, async_timeline, timeline>>
vars == <<shared_queue, registry, buffers, frames, submissions, device>>

Frame == 1..MaxFrames
Work == [list : SUBSET Lists, frame : 0..MaxFrames, wait : Nat, signal : Nat]
ListWork(l, signal) == [list |-> {l}, frame |-> 0, wait |-> 0, signal |-> signal]
FrameWork(f, wait) == [list |-> {}, frame |-> f, wait |-> wait, signal |-> 0]

Finished(l) == \E n \in finished : l \in submissions[n].list
Live(b) == retired_at[b] = 0

(* What IsComplete tells a script: the id is unknown or the fence signaled. *)
IsComplete(l) == phase[l] = "released" \/ (phase[l] = "fenced" /\ Finished(l))

Init ==
  /\ shared_queue \in BOOLEAN
  /\ phase = [l \in Lists |-> "unknown"] /\ uses = [l \in Lists |-> {}]
  /\ main_pc = "update" /\ awaited = {} /\ published = 0 /\ returned = {}
  /\ retired_at = [b \in Buffers |-> 0] /\ destroyed = {}
  /\ frame_index = 1 /\ render_pc = "begin" /\ wait_value = 0
  /\ seen = [f \in Frame |-> {}]
  /\ submissions = <<>> /\ started = {} /\ finished = {}
  /\ async_timeline = 0 /\ timeline = 0

-----------------------------------------------------------------------------
(* The scripts, on the main thread.                                         *)
Begin(l) ==
  /\ main_pc = "update" /\ phase[l] = "unknown"
  /\ phase' = [phase EXCEPT ![l] = "recording"]
  /\ UNCHANGED <<shared_queue, uses, main_pc, awaited, published, returned, buffers, frames,
                 submissions, device>>

\* A dispatch captures the address of a buffer its shader was given.
Dispatch(l, b) ==
  /\ main_pc = "update" /\ phase[l] = "recording" /\ Live(b)
  /\ uses' = [uses EXCEPT ![l] = @ \cup {b}]
  /\ UNCHANGED <<shared_queue, phase, main_pc, awaited, published, returned, buffers, frames,
                 submissions, device>>

\* Submit(): submit_idle() signals no timeline, only a fence of its own ...
SubmitIdle(l) ==
  /\ main_pc = "update" /\ phase[l] = "recording"
  /\ submissions' = Append(submissions, ListWork(l, 0))
  /\ main_pc' = "submit_idle" /\ awaited' = {l}
  /\ UNCHANGED <<shared_queue, phase, uses, published, returned, buffers, frames, device>>

\* Fault: the value is published before the work is submitted.
SubmitAsyncLate(l) ==
  /\ \/ /\ main_pc = "update" /\ phase[l] = "recording"
        /\ phase' = [phase EXCEPT ![l] = "fenced"]
        /\ published' = published + 1
        /\ main_pc' = "late" /\ awaited' = {l}
        /\ UNCHANGED submissions
     \/ /\ main_pc = "late" /\ awaited = {l}
        /\ submissions' = Append(submissions, ListWork(l, published))
        /\ main_pc' = "update" /\ awaited' = {}
        /\ UNCHANGED <<phase, published>>
  /\ UNCHANGED <<shared_queue, uses, returned, buffers, frames, device>>

(* SubmitAsync(): the list gets its fence; under _async_mutex the work goes *)
(* to the queue with the next value of the timeline ...                     *)
SubmitAsync(l) ==
  /\ main_pc = "update" /\ phase[l] = "recording"
  /\ phase' = [phase EXCEPT ![l] = "fenced"]
  /\ submissions' = Append(submissions, ListWork(l, published + 1))
  /\ main_pc' = "publish" /\ awaited' = {l}
  /\ UNCHANGED <<shared_queue, uses, published, returned, buffers, frames, device>>

\* ... and only then is the value published to end_frame.
Publish ==
  /\ main_pc = "publish"
  /\ published' = published + 1
  /\ returned' = returned \cup awaited
  /\ main_pc' = "update" /\ awaited' = {}
  /\ UNCHANGED <<shared_queue, phase, uses, buffers, frames, submissions, device>>

\* Dispose() of a list waits for its fence, if it has one.
Release(l) ==
  /\ main_pc = "update" /\ phase[l] \in {"recording", "fenced"}
  /\ main_pc' = "release" /\ awaited' = {l}
  /\ UNCHANGED <<shared_queue, phase, uses, published, returned, buffers, frames, submissions,
                 device>>

(* script_resources::clear(), when play mode stops or scripts are reloaded: *)
(* waits for the fence of every list.                                       *)
Clear ==
  /\ main_pc = "update"
  /\ main_pc' = "clear" /\ awaited' = {l \in Lists : phase[l] \in {"recording", "fenced"}}
  /\ UNCHANGED <<shared_queue, phase, uses, published, returned, buffers, frames, submissions,
                 device>>

\* Fault: nothing waits for the fences.
WaitsEndAtOnce ==
  /\ main_pc \in {"submit_idle", "release", "clear"}
  /\ phase' = [l \in Lists |-> IF l \in awaited THEN "released" ELSE phase[l]]
  /\ retired_at' = [b \in Buffers |-> IF main_pc = "clear" /\ Live(b)
                                        THEN frame_index ELSE retired_at[b]]
  /\ main_pc' = "update" /\ awaited' = {}
  /\ UNCHANGED <<shared_queue, uses, published, returned, destroyed, frames, submissions, device>>

(* After the wait the lists leave the registry, which frees their command   *)
(* buffers; clear() also retires the buffers.                               *)
WaitsEnd ==
  /\ main_pc \in {"submit_idle", "release", "clear"}
  /\ \A l \in awaited : (phase[l] = "fenced" \/ main_pc = "submit_idle") => Finished(l)
  /\ phase' = [l \in Lists |-> IF l \in awaited THEN "released" ELSE phase[l]]
  /\ retired_at' = [b \in Buffers |-> IF main_pc = "clear" /\ Live(b)
                                        THEN frame_index ELSE retired_at[b]]
  /\ main_pc' = "update" /\ awaited' = {}
  /\ UNCHANGED <<shared_queue, uses, published, returned, destroyed, frames, submissions, device>>

(* Scripts keep the rule of ComputeCommands: a buffer stays undisposed      *)
(* until the lists that use it are complete.                                *)
ReleaseBuffer(b) ==
  /\ main_pc = "update" /\ Live(b)
  /\ \A l \in Lists : b \in uses[l] => IsComplete(l)
  /\ retired_at' = [retired_at EXCEPT ![b] = frame_index]
  /\ UNCHANGED <<shared_queue, registry, destroyed, frames, submissions, device>>

-----------------------------------------------------------------------------
(* A frame, on the render thread.                                           *)
\* begin_frame() waits for the frame that used the slot and collects buffers.
BeginFrame ==
  /\ render_pc = "begin" /\ frame_index <= MaxFrames
  /\ frame_index <= timeline + MaxFramesInFlight
  /\ destroyed' = destroyed \cup {b \in Buffers : ~Live(b) /\ retired_at[b] <= timeline}
  /\ render_pc' = "load"
  /\ UNCHANGED <<shared_queue, registry, retired_at, frame_index, wait_value, seen,
                 submissions, device>>

\* Fault: end_frame() waits for the submission before the last.
LoadPreviousPublished ==
  /\ render_pc = "load"
  /\ wait_value' = IF published = 0 THEN 0 ELSE published - 1
  /\ seen' = [seen EXCEPT ![frame_index] = returned]
  /\ render_pc' = "submit"
  /\ UNCHANGED <<shared_queue, registry, buffers, frame_index, submissions, device>>

\* end_frame() reads _async_published once (0: nothing to wait for), ...
LoadPublished ==
  /\ render_pc = "load"
  /\ wait_value' = published
  /\ seen' = [seen EXCEPT ![frame_index] = returned]
  /\ render_pc' = "submit"
  /\ UNCHANGED <<shared_queue, registry, buffers, frame_index, submissions, device>>

\* ... submits the frame, which waits for that value on the device, ...
SubmitFrame ==
  /\ render_pc = "submit"
  /\ submissions' = Append(submissions, FrameWork(frame_index, wait_value))
  /\ render_pc' = "bump"
  /\ UNCHANGED <<shared_queue, registry, buffers, frame_index, wait_value, seen, device>>

\* ... and moves on to the next.
BumpFrameIndex ==
  /\ render_pc = "bump"
  /\ frame_index' = frame_index + 1 /\ render_pc' = "begin"
  /\ UNCHANGED <<shared_queue, registry, buffers, wait_value, seen, submissions, device>>

-----------------------------------------------------------------------------
(* The device.  Work of one queue starts in order, once its semaphore has   *)
(* the value it waits for, and signals in order; queues are independent.    *)
SameQueue(m, n) == shared_queue \/ (submissions[m].frame = 0 <=> submissions[n].frame = 0)

DeviceStarts(n) ==
  /\ n \in DOMAIN submissions \ started /\ submissions[n].wait <= async_timeline
  /\ \A m \in 1..(n - 1) : SameQueue(m, n) => m \in started
  /\ started' = started \cup {n}
  /\ UNCHANGED <<shared_queue, registry, buffers, frames, submissions, finished, async_timeline,
                 timeline>>

DeviceFinishes(n) ==
  /\ n \in started \ finished
  /\ \A m \in 1..(n - 1) : SameQueue(m, n) => m \in finished
  /\ finished' = finished \cup {n}
  /\ async_timeline' = IF submissions[n].signal = 0 THEN async_timeline ELSE submissions[n].signal
  /\ timeline' = IF submissions[n].frame = 0 THEN timeline ELSE submissions[n].frame
  /\ UNCHANGED <<shared_queue, registry, buffers, frames, submissions, started>>

-----------------------------------------------------------------------------
ScriptStep ==
  \/ \E l \in Lists : \/ Begin(l) \/ SubmitIdle(l) \/ SubmitAsync(l) \/ Release(l)
                      \/ \E b \in Buffers : Dispatch(l, b)
  \/ Publish \/ Clear \/ WaitsEnd
  \/ \E b \in Buffers : ReleaseBuffer(b)

RenderStep == BeginFrame \/ LoadPublished \/ SubmitFrame \/ BumpFrameIndex

DeviceStep == \E n \in DOMAIN submissions : DeviceStarts(n) \/ DeviceFinishes(n)

Next == ScriptStep \/ RenderStep \/ DeviceStep

(* The threads and the device go on; scripts need not call anything.        *)
Fairness == WF_vars(Publish) /\ WF_vars(WaitsEnd) /\ WF_vars(RenderStep) /\ WF_vars(DeviceStep)

Spec == Init /\ [][Next]_vars /\ Fairness

-----------------------------------------------------------------------------
(* Every variable has its type.                                             *)
TypeOK ==
  /\ shared_queue \in BOOLEAN
  /\ phase \in [Lists -> {"unknown", "recording", "fenced", "released"}]
  /\ uses \in [Lists -> SUBSET Buffers]
  /\ main_pc \in {"update", "publish", "submit_idle", "release", "clear"}
  /\ awaited \subseteq Lists /\ published \in Nat /\ returned \subseteq Lists
  /\ retired_at \in [Buffers -> Nat] /\ destroyed \subseteq Buffers
  /\ frame_index \in 1..(MaxFrames + 1) /\ render_pc \in {"begin", "load", "submit", "bump"}
  /\ render_pc # "begin" => frame_index <= MaxFrames
  /\ wait_value \in Nat
  /\ seen \in [Frame -> SUBSET Lists]
  /\ submissions \in Seq(Work)
  /\ started \subseteq DOMAIN submissions /\ finished \subseteq started
  /\ async_timeline \in Nat /\ timeline \in 0..MaxFrames

(* The shaders of a frame run only after every list is complete whose       *)
(* submit_async had returned when end_frame read the published value,       *)
(* whether the device has one queue for both or two.                        *)
FramesAwaitLists ==
  \A n \in started : submissions[n].frame # 0 =>
    \A l \in seen[submissions[n].frame] : Finished(l)

(* While the device executes a list, or may still begin to, its command     *)
(* buffer is not freed and no buffer it uses is on its way to destruction:  *)
(* IsComplete, Dispose, Submit and clear() are all told by a fence.         *)
DeviceUsesLiveResources ==
  \A n \in DOMAIN submissions \ finished : \A l \in submissions[n].list :
    phase[l] # "released" /\ \A b \in uses[l] : Live(b)

(* No submission waits for a value that is never signaled, nor for work     *)
(* behind it on its own queue: when the threads are done, so is the device. *)
DeviceDrains == <>[](finished = DOMAIN submissions)
=============================================================================
