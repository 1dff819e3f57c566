# A formal model of libsbx

libsbx is a C++ game engine with an editor, a runtime and managed (C#)
scripts. This directory holds TLA+ specifications of the parts of it where
threads, the GPU, callbacks and deferred work meet, TLC configurations that
check them on small instances, and TLAPS proofs of the most important results
for every instance. Paths below are relative to the repository root
(`src/` stands for it in `PROJECT.json`).

To repeat everything: `tlc -config X.cfg MC<Module>.tla` for each configuration,
`tlapm <Module>Proofs.tla` for the proofs.

## 1. Inventory

### Modelled

| part | state it keeps | operations | hard behaviour |
|---|---|---|---|
| `async/work_stealing_deque.hpp` | `_top`, `_bottom`, `_buffer` | owner: `push`, `pop`; any thread: `steal` | lock-free race for the last element, ring reuse, the "reservation" in `pop` |
| `async/worker_pool`, `async/job.hpp` | deque per worker, injection queue, `_epoch`, `_sleepers`, `_is_stopping`; per batch a counter, an exception slot and the jobs it owns | `schedule`, `parallel_for`, `wait`, worker loop, destructor | eventcount against lost wake-ups, waiting threads that execute jobs, nested batches, exceptions, lifetime of jobs, shutdown |
| `render/render_thread`, `render/presentation_module` | `_state` (idle, busy, kick), `_is_running`, one condition variable | `block_until_render_complete`, `kick`, `terminate`, worker loop | notification after unlock, spurious wake-ups, terminate over a pending kick, unlocked packet access |
| `graphics/frame_context`, `resource_pool`, `bindless_table`, `upload_context` | frame index and timeline, `_retired` queues, free and retired indices, queued descriptor writes, batched copies | `begin_frame`, `end_frame`, `retire`, `collect`, `allocate`, `flush_writes`, `flush` | the device runs up to two frames behind, everything is freed or reused by frame number |
| `assets/asset_residency` (textures), `asset_loader` | `_textures`, `_images`, `_resident_frame`, `_pending_textures` | `load_texture`, `create_storage_image`, `reimport`, `release_texture`, `process_uploads` | main thread and render thread both change them; an index outlives its texture |
| `scenes/scenes_module` | the scene set and the active handle, queued operations, asynchronous loads | `load_scene`, `load_scene_async`, `unload_scene`, `set_active_scene`, `move_node_to_scene`, `dont_destroy_on_load`, the per-frame update | handlers run script code in the middle of every operation and call back into the module |
| `graphics/pipeline/async_shader_compiler` and its client `shader_graph_node_preview_manager` | pending requests by key, results, abort flag | `submit`, `take_results`, worker loop, destructor; `request_recompile`, `forget`, `update` | coalescing while compiling, abort raised outside the lock, order of results |
| `frame_context::submit_async`, `scripting/interop_compute`, `script_resources` | the registry of compute lists with their fences, compute buffers, `_async_published` and its timeline | `begin`, `dispatch`, `Submit`, `SubmitAsync`, `IsComplete`, `Dispose`, `clear`; the wait in `end_frame` | lists and frames run on one queue or two, are submitted by two threads, and are freed by scripts |
| `signals` | the copy-on-write slot list, the mutex, `_index` and `_is_connected` of every slot | `connect`, `disconnect` by connection, callable or object, `disconnect_all`, `emit` | emission without the lock, swap-and-pop during emissions, handlers that call the signal back |
| `render/render_graph` and the passes' declarations | passes, `image_states`, `buffer_states`, `carried_images`, `cleared_by`, `_compiled` | `declare`, `compile`, `execute` | barriers that must cover the previous frame, and every combination of disabled groups |

How they interact: the application's main thread updates the modules (scripts
run inside `scenes_module` events), then `presentation_module::render` hands a
packet to the render thread, which drives `frame_context` and lets
`asset_residency` record its uploads; both threads retire resources by the
current frame index, and `begin_frame` frees what the device has finished
with. Assets are cooked by the loader's thread and finalised on the main
thread. The worker pool is used by the loops of the modules
(`parallel_for_chunks`); the editor's shader graph panel owns the shader
compiler. Compute lists of scripts are submitted by the main thread next to
the frames of the render thread, which wait for them on the device. Inside a
frame the render thread executes the compiled render graph; modules tell each
other what happened through signals.

What makes each correct: every job runs exactly once and is alive while it can
be reached, waiters see its exception, nobody sleeps while there is work;
frames are handed over one at a time and each is rendered once; a frame in
flight samples only live images, and those of its own textures, through
descriptors that do not change; a frame waits for the compute lists published
before it and nothing the device executes is freed; between two uses of an image
the graph has put the barriers the device needs; an emission calls what was
connected when it began; the active scene is loaded, nodes live in
listed scenes, operations are applied in order and exactly once (as far as handlers and failing
assets allow, section 5); the last edit
of a shader is the one that is compiled and shown.

### Not modelled

| part | why |
|---|---|
| `core` (engine, `command_queue`, project) | one thread, stages in fixed order; `command_queue` is planned |
| `ecs` | sequential; sparse set planned as a pure algorithm |
| what passes draw, compositor, graphics devices, commands, pipelines | Vulkan recording; what it relies on is modelled in `TextureStreaming`, `AsyncCompute` and `DeviceSync` |
| other asset kinds, cooker, manifest | same life cycle as textures, or file conversion |
| scene graph, serializer, components | data; only top-level nodes matter to `ScenesModule` |
| physics, navigation, particles, terrain, math, canvas | numeric |
| audio, platform, filesystem, launcher, runtime | I/O and entry points |
| the other scripting calls, managed assemblies | appear as the environment that calls the modules |
| containers, memory, utility, units, reflection, cli | value types and headers |
| editor panels and tools | one thread; undo/redo and play mode are planned |

`PROJECT.json` lists every component with its sources and 40 hazards, each at
its line, with the properties that watch it or the reason why none does yet.
What lies outside the modelled parts is by far the larger share of the repository:
numeric code, file formats, user interface and embedded fonts, in which nothing runs
concurrently and no sequence of calls has to be kept.

## 2. The modules and the code

### JobDeque, WorkStealingDeque, WorkStealingDequeProofs

`JobDeque` is the promise: a sequence, `push` and `pop` at the owner's end,
`steal` at the other, each atomic. `WorkStealingDeque` is the code: every
access to `_top`, `_bottom` or a slot that another thread can observe is a
step. `PushCheck`, `PushStore`, `PushPublish` are `push`; `PopReserve`,
`PopEmpty`, `PopSeveral`, `PopLast`, `PopCas`, `PopRestore` are `pop`;
`StealReadTop`, `StealReadBottom`, `StealReadValue`, `StealCas` are `steal`. A
value is the number of its push, so "handed out twice" is visible. `pushed`
and `takes` are history. `DequeContract` is the refinement: `push` takes effect
when `_bottom` is published, `pop` when it reads a `_top` below its reservation
or wins the compare-exchange, `steal` when it wins it.

Memory is sequentially consistent: the fences of the code are taken to provide
what the published algorithm needs, and weaker behaviour is outside this model.

### WorkerPool, ThreadProofs

The main thread runs a root body and the jobs form a tree (`Children`): a job's
body schedules its children, the last chunk runs inline (`RunInline`, the shape
of `parallel_for_chunks`), then it waits for its counter and takes part in the
work. Deques are `JobDeque`s with a capacity, which the deque's refinement
justifies. `Enqueue`, `BumpEpoch`, `NotifyOne` are `_submit`; `Enter`, `PopOwn`,
`TakeInjected`, `Steal`, `StealNothing` are `_try_acquire` (the victim is any
non-empty deque: the random choice and the scan order are abstracted);
`Leave`, `Spin`, `ReadEpoch`, `AddSleeper`, `EpochWait`, `Wake` are the worker
loop, `SetStopping`, `StopBump`, `StopNotifyAll`, `Join` the destructor,
`RecordException`, `CountDown`, `WaitReset` the counter of `job.hpp`.

### FrameHandoff, RenderThread, ThreadProofs

`FrameHandoff` is the contract: prepare, kick, work, in turn. `RenderThread` has
the main thread (`presentation_module::render`, `terminate`) and the worker loop,
with the condition variable as the set of `blocked` threads: setting `_state`
under the lock and notifying after it are two steps, and blocked threads may
wake for no reason. `policy` is chosen in `RenderInit`: single threaded policies run
the work inline. `ThreadProofs` holds the proofs of both kinds of threads, which is why
`RenderThread` has names of its own for the usual ones (`RenderInit`, `RenderNext`,
`RenderSpec`).

### TextureStreaming, TextureStreamingProofs

Composes the main thread (scripts and editor: load, release, reimport, create a
storage image; `Prepare` collects the packet), the loader as a FIFO, the
render thread (`BeginFrame` ... `BumpFrameIndex`, one step per call of
`presentation_module::_consume` and its callees) and the device, which
completes submitted frames in order (`DeviceCompletes`, external). The main
thread hands frames over as `FrameHandoff` promises. An image is a number, its
`content` the texture whose pixels it holds; a descriptor is the image it names.
`release_texture` is three steps, because it retires the image and the index one
after the other while holding only the residency mutex; all other critical
sections are one step.

`release_texture` is documented for textures made by `create_storage_image` and used no more
(asset_residency.hpp:134-140), but scripts reach it for any texture. `Releases` says what they
do: release only `created` textures, or also `resident` ones of which no request, copy or
descriptor write is under way, or `any`. With `Overlaps` a texture may be reimported
while an earlier request of it is under way (section 5, finding 2).

Abstractions: no handle of a texture is used after its release (the handles are
reference counted above this code); presenting and recreating the swapchain after
the frame index moved on are left out; `create_storage_image`, which flushes
descriptor writes from the main thread, is one step.

### ScenesModule, ScenesModuleProofs

One thread, but every operation is interrupted by handlers. `pc` says between which
two statements of `apply_pending_operations`, `_apply_load`, `_apply_unload`,
`_activate_load` and `_update_async_loads` the module is, and the script actions
(`LoadScene`, `LoadSceneAsync`, `SetAllowSceneActivation`, `UnloadScene`,
`SetActiveScene`, `CreateNode`, `MoveNodeToScene`, `DontDestroyOnLoad`) are enabled
wherever the code runs handlers and between updates. A queued scene is `loadable`
or not (the file exists, is a scene); an asynchronous load's parse ends with
success or failure. A scene is its handle; `populated` over-approximates where
top-level nodes may be (a node may also be destroyed at any time).

Scripts may do whatever the code lets them at every such point, also use a scene whose nodes
are already destroyed but which is still listed: `Left` while an unload announces it, `Replaced` in a
single load; `Live` are the others. What they do there is remembered in two history variables, which
nothing in the module reads: `reactivated` (scenes made active again after their unload had left
them) and `strays` (scenes that were given nodes when theirs had been destroyed). The properties say
that these are the only exceptions.

The assets an asynchronous load waits for are `pending`, then `loaded` or `failed` (`AssetsEnd`): an
asset whose data cannot be read or cooked is not marked loaded (asset_residency.cpp:1834-1837, and
1862, 1964, 1993, 2014 for the other kinds), and only a later import of its source
(`AssetReimported`) changes that. All assets of one load are one value.

Excluded: creating the persistent scene while
a single load iterates over the scene list, which reallocates the vector under the
loop (undefined behaviour). Not modelled: `restore_scene_set`, scene paths, instance
buffers, the order of the list and the camera.

### AsyncShaderCompiler, AsyncShaderCompilerProofs

The panel (`RequestRecompile`, `RejectGraph` for a graph no source can be generated
from, `Forget`, `Update`) and the compiler (`Submit` and `SubmitNotify`;
`Abort`, `ClearPending`, `AbortNotify`, `Join` for the destructor; `Lock`, `Leave`,
`PickUp`, `NothingToDo`, `Block`, `Compile`, `PushResult` for the worker loop). The
request mutex is explicit, because `_abort` raises its flag outside it: testing the
predicate and blocking are two steps with the mutex held in between. A source is
its version and whether it compiles. The result mutex is never held across another
step and is not a variable. `submit` after `_abort` cannot happen: only the
destructor aborts.

### AsyncCompute, AsyncComputeProofs

The scripts on the main thread (`Begin`, `Dispatch`, `SubmitAsync`, `Publish`,
`SubmitIdle`, `Release`, `ReleaseBuffer`, `Clear`; `WaitsEnd` is the return of a
blocking call), the render thread (`BeginFrame`, `LoadPublished`, `SubmitFrame`,
`BumpFrameIndex`) and the device. `submissions` is everything handed to
`vkQueueSubmit`; `shared_queue` says whether the device has one queue for compute and
graphics, which logical_device.cpp:81-130 leaves to the hardware: then the device
begins work in submission order, else only in the order of each queue. A frame begins
on the device once the timeline has reached the value it waits for: what that
delays is the shaders, which is what matters here. `submit_async` is two steps, the submission
and the publication, because `end_frame` reads the published value without the lock.
A script is taken to release a buffer only after the lists that use it are complete
(`IsComplete`), as ComputeCommands documents; a dispatch names one buffer.

### Signals, SignalsProofs

Threads with a stack of emissions each. `Connect`, `Disconnect`, `DisconnectIf`,
`DisconnectAll`, `Emit` are calls from outside or from a handler; `LockWrite`, `CopyList`
and one of `AddSlot`, `CleanSlot`, `MatchSlot`/`MatchEnd`, `ClearSlots` are a change under the mutex,
`EmitReference`, `CallSlot`, `SlotReturns`, `EmitEnd` an emission. The heap of payloads with
their reference counts is explicit: whether the list is unique is tested in one step, it
is replaced and written in others, while emissions release theirs without the mutex. A slot is
an identity that is connected once; `wanted` and the fields `first`, `called`, `stable` of an
emission are history. Left out: several groups of slots, blocking, tracked slots, moving
and destroying a signal.

### DeviceSync, RenderGraph, RenderGraphProofs

`DeviceSync` (external: the rules of Vulkan for one queue) says what a barrier does to what later
commands know of earlier ones: after which stages they are ordered, whether a write is
available, and to which stages and accesses it is visible; chains of barriers count.
`RenderGraph` is the code: groups are declared out of a `Catalogue` (`AddGroup`), `Compile`
walks all operations twice (`ApplyUse`, `ApplyDeclareReady`, `ApplyTransitionAfter`,
`NextGroup`, `SecondRound`, `CompileEnds`), with `advance_sync` as `SourceScopes` and `Advanced`, and
`execute` runs the groups of every frame (`ExecuteEntry`, `ExecuteBody`, `ExecuteExit`, `FrameEnds`),
enabled or not. The catalogue of `MCRenderGraph` is taken from the passes, one group per way of
declaring something. bloom_pass and ambient_occlusion_pass write an image between barriers of
their own and declare it ready; those barriers are part of `ExecuteBody`. The first one waits for
compute and fragment shaders (`OwnSource`). The last one goes to the fragment shader, as declared
(`ReadyScope`), in ambient_occlusion_pass (145-147) and in bloom_pass with bloom disabled (242-260);
with bloom enabled it goes to bloom's own dispatches (`DispatchScope`, bloom_pass.cpp:270-283, 336).
`EndsShort` names the images of which that may happen, and each execution chooses (`LastBarrier`).

`short` is history: the images whose pass last ended on a barrier to its own dispatches. So is `trace`,
for the proofs: the states each group was compiled from, in both rounds.

Assumptions about declarations, which the graph relies on and does not test. Of a single group
(named `ASSUME`s of the module, checked for the catalogues of both runs): it uses a resource once, and
may transition it once afterwards (`OncePerGroup`); the only write access an attachment declares is its
own (`WrittenAsAttached`); all reads of a resource in one layout declare the same access
(`ReadAlike`); an image that a pass makes ready itself is made ready by a pass that is never disabled
and is otherwise only read, in one layout and in shaders the pass waits for (`ReadiedAreRead`); a
group transitions afterwards only what it used before (`TransitionedAfterUse`, as depth_pre_pass and
selection_outline_pass do); a group that stores to an image is never disabled (`StoredAlways`: depth_pre_pass
is the only one, and does not override `should_execute`). `shader_read`, with which
depth_pre_pass transitions the scene's depth, includes `shader_sampled_read`, with which
ambient_occlusion and tonemap read it; they are one access here. Of groups that follow each
other (`WellDeclared`): what is read, or loaded without being
written, was declared by an earlier group. That an attachment which is loaded declares its read
access is not assumed: canvas_pass.cpp:88-91 does not, and the catalogue has such a group
(`Clears(Color, {})` behind another that writes `color`). Images that shaders only
reach through the bindless table are invisible to the graph, as render_graph.hpp:375 says.
Abstracted: all groups are one sequence, early and late fragment tests are one stage, a buffer
has one region per frame, the read of a depth resolve's source counts as part of the depth attachment;
an image made ready is one mip level, and the other image of such a pass is not in the model.

## 3. Runs

| run | instance | asks |
|---|---|---|
| `deque` | 2 thieves, ring of 2, 5 pushes | nothing lost or taken twice, `DequeContract` |
| `worker_pool` | 2 workers, a tree of 5 jobs in 2 levels, deques of 1 slot, 2 jobs that may throw | `NoDanglingJob`, `ExceptionReachesWaiter`, `NoStrandedJob`, `PoolJoins` |
| `render_thread` | both policies, 4 frames | exclusion, every kick rendered, liveness, `HandoffContract` |
| `texture_streaming` | 2 textures, 2 indices, 2 frames in flight, 2 uploads per frame, 6 frames, 4 images, 2 reimports that do not overlap a request, releases of `resident` textures | the seven properties below |
| `texture_reimport` | 1 upload per frame, 1 reimport, 5 frames | violation, section 5 |
| `texture_double_upload` | a reimport that overlaps the load, 2 uploads per frame | violation, section 5 |
| `scenes` | 3 operations, any mixture of kinds, every parse result, assets that load or fail, handlers at every point | the five properties below |
| `shader_compiler` | 2 nodes, 3 edits, 2 results per frame | coalescing, wake-ups, liveness |
| `async_compute` | 2 lists, 1 buffer, 3 frames, 2 in flight, one queue or two | waits, lifetime, no submission waits for ever |
| `signals` | 2 threads, 3 slots (2 at the start), 2 emissions that may nest, 1 disconnection by condition or of all | counts, list, snapshot, liveness |
| `render_graph` | every program of 1 to 4 groups out of 15, over 4 images and 1 buffer, 2 frames; `bloom_upsample` may end short | order, visibility, content |
| `graph_lost_composite` | the four passes that touch the HDR color, with MSAA | violation, section 5 |

Why the bounds suffice. Deque: the ring has two slots, so five pushes use each
index class more than twice, and two thieves and the owner can all hold a stale
`_top`; the theorems remove the bounds. Pool: a slot per deque makes the second
child overflow to the injection queue, two levels make a worker wait inside a job,
and a two-worker pool can have both asleep, one asleep or one waiting. Render
thread: a kick meets a worker in each of its states within two frames. Textures:
with two frames in flight, a release, its collection two frames later and the
re-use of the index take six frames, and a reimport, its upload and the collection of the image
it replaces take five; four images are two textures on an index and two reimports. Scenes: three operations
are a forced asynchronous load, the load that forces it and an unload, in every
order and also from handlers; one of them is enough for a handler to use a scene that is going. Shader compiler: three edits of two nodes are a request
in work, one that waits and one that replaces it, next to another key; `MaxTake = 2`
(8 in the code) makes more results wait than one frame takes. Async compute: with two
lists one is published while the other is being submitted, and with three frames one slot
is used again. Signals: with three slots a removal moves a slot that is neither the removed one nor
the last; two emissions are one inside the other, or one per thread, while the other
thread writes. Render graph: a hazard needs a first writer, a user in between
whose barrier is left out, and a later user; four groups add one more, and the second
frame meets what the first left, with bloom on in one and off in the other. The images are one of every role, the groups one of every
way the passes declare.

Deadlock is checked everywhere except in the `texture_*`, `async_compute`, `signals` and `*graph*`
runs, where the bounds stop the system; finished systems stutter by an explicit step
(`Terminated`).

### Fairness

A thread that can run does: weak fairness of each thread's step (`MainStep`,
`WorkerStep(w)`), of the module's own steps, of the parser thread and of the end of an asset's
loading, with either result, in `ScenesModule`; nothing makes a failed asset be imported again. In `AsyncShaderCompiler` the main thread has strong fairness: it competes
with the worker for a mutex that the worker holds only between two waits, so it is
free again and again, and a mutex grants it in the end; `Update` is weakly fair
because the open panel is drawn every frame. In `Signals` each thread's part of the signal's code is weakly fair (`SignalRuns`;
a handler returns), which is enough although threads compete for the mutex because the changes
are bounded. In `AsyncCompute` the rest of a call that has begun, the render thread and the
device are weakly fair: a queue makes progress as long as a submission is not waiting.
Elsewhere nothing is assumed of scripts, edits,
the device, spurious wake-ups, or which victim a thief picks.

## 4. Properties

* **WorkStealingDeque**: `TakenAtMostOnce`, `NothingLost`, `DequeContract`.
* **WorkerPool**: `NoDanglingJob` (whoever can still reach a job finds it alive),
  `ExceptionReachesWaiter`, `NoStrandedJob` (when a worker sleeps for good nothing is
  left to do, or a notification is on its way), `PoolJoins`.
* **RenderThread**: `IdleSectionExclusive`, `EveryKickRendered`,
  `KickIsServed`, `TerminateJoins`, `HandoffContract`.
* **TextureStreaming**: `FramesSampleLiveImages`, `FramesSampleTheirTextures`,
  `ResidentIsUploaded`, `NothingQueuedIsDead` (violated when requests overlap), `RetireOrdered`,
  `SlotReusable`; `SampledDescriptorsStable` (violated by a reimport).
* **ScenesModule**: `ActiveIsLoaded` (the active scene is loaded, or a handler reactivated it when its
  unload had left it), `NodesInLiveScenes` (nodes only live in scenes that are listed and not destroyed,
  or where a script put them in spite of that), `LoadsInOrder` (no load, of either kind, activates before an
  asynchronous one that was started before it, and queued operations apply in order),
  `NoOperationLost`, `IssuedIsSettled` (an asynchronous load alone may wait, and only behind one that
  a script holds or that has a failed asset).
* **AsyncShaderCompiler**: `LatestSurvives`, `CompiledOnceInOrder`, `EditIsReported`, `AbortJoins`.
* **AsyncCompute**: `FramesAwaitLists` (the shaders of a frame run after every list that was
  published when `end_frame` looked), `DeviceUsesLiveResources`, `DeviceDrains`.
* **Signals**: `CountsAreHolders`, `ListIsExact`, `SnapshotIsCalled` (an emission calls, once and in
  order, what was connected when it began, but for what is disconnected meanwhile), `CallsReturn`.
* **RenderGraph**: `UsesAreOrdered` (nothing runs next to what it conflicts with, across frames
  and disabled groups), `UsesSeeWrites`, both except for `CutShort` uses (of an image whose pass ended on a
  barrier to its own dispatches, in another stage) and the second but for `Undeclared` loads, `UsesFindContent` (layouts, and content for every load);
  `DrawingsSurvive` (violated).

`NoMissedNotify` (RenderThread, AsyncShaderCompiler) and most type invariants, which the proofs
establish for every instance, are not checked again by runs; the type invariants of WorkerPool and
TextureStreaming are, because they also bound counters.

Every property of a passing run has a seeded fault: an operator beside the action it
varies, marked `Fault:`, which is the action with one plausible bug (a dropped guard, a
missing notification, an index recycled too early). Put in place of the action, it
makes TLC find that property violated; `PROJECT.json` pairs them under `mutants`.

## 5. Findings

1. **A reimport changes a descriptor in use** (`texture_reimport`).
   `process_uploads` waits for the device before it uploads into an index that is in use
   (asset_residency.cpp:2341-2350), but the descriptor write is only queued (2366) and
   applied by the next `begin_frame`, when the frame recorded after the wait, which
   samples that index, may be executing.
2. **A texture uploaded twice in one batch** (`texture_double_upload`). A file that changes while
   its texture is being loaded is requested again. When both results are uploaded in one batch, the
   second retires the image of the first (asset_residency.cpp:2370-2373) before `upload_context::flush`
   records the copy into it: the lookup through the dead handle (upload_context.cpp:113) fails the
   assertion of `resource_pool::get`.
3. **Transparent surfaces vanish behind a world canvas** (`graph_lost_composite`).
   With MSAA, transparent_resolve_pass blends onto the single-sampled `color`
   (transparent_resolve_pass.cpp:75-80), and canvas_world_pass, added after it
   (scene_renderer_module.cpp:1364), draws to `color_msaa` and resolves that into `color`
   (canvas_world_pass.cpp:94-99): the resolve replaces the composite. Adding the canvas before
   the resolve, as for the other multisampled passes, keeps both.

Further behaviour met while modelling, each reproduced by TLC with the change named, but not
kept as a run of its own:

* *Releasing a texture that is still being uploaded*, which the contract of `release_texture` forbids:
  it does not drop an upload that is queued or taken (asset_residency.cpp:222-255). Its completion
  marks the released index resident, and the next texture on it counts as resident at once; or it
  retires the image of a storage image that got the index meanwhile, whose descriptor stays in use.
  `ResidentIsUploaded`, `FramesSampleLiveImages` under the configuration of `texture_streaming` with
  `Releases = "any"`, `MaxReimports = 0`, `MaxUploads = 1`.
* *Reactivating a scene that is being unloaded*: `_apply_unload` runs its handlers while the record
  is still listed (scenes_module.cpp:338-340), so `set_active_scene` (233-244) accepts it and the active
  handle dangles afterwards, against scenes_module.hpp:151, "The loaded scene new top-level nodes join."
  `ActiveIsLoaded` without `reactivated`, `MaxOperations = 2`.
* *Nodes made by handlers of a single load are orphaned*: `on_scene_unloaded` runs after the nodes of every
  scene were destroyed and before the scenes leave the list (scenes_module.cpp:392-408). A node created or
  moved there joins a scene that is then erased, and stays in the world although a single load "unloads
  every loaded scene (except the persistent one) first" (scenes_module.hpp:37). `NodesInLiveScenes` without
  `strays`, `MaxOperations = 1`.
* *A synchronous load also forces later asynchronous ones*: the comment at scenes_module.cpp:346 says "a
  synchronous load first completes every async load queued before it", but `_finish_async_loads(true)`
  forces whatever is in the list when the load is applied, also what was started after it was queued.
  `ForcedWereQueuedBefore` with `MaxOperations = 2`. "Async loads activate in the order they were started"
  (scenes_module.hpp:108) holds (`LoadsInOrder`).
* *A failed asset holds asynchronous loads back for ever*: the dependency is never loaded
  (asset_residency.cpp:1834-1837), so the load never becomes ready and, in order, none behind it does,
  unless a synchronous load forces them or the asset is imported again. `IssuedIsSettled` with
  `Stuck(load) == ~load.allow`.
* *Bloom's result is not ordered before tonemapping*: bloom_pass.cpp:181 declares `bloom_upsample` ready for
  the fragment shader, so that the graph derives no barrier for tonemap_pass.cpp:104, whose comment
  says "bloom_pass declares this ready every frame, even with bloom off." With bloom on, the last barrier on
  the image is to `COMPUTE_SHADER` (bloom_pass.cpp:270-283, 336): nothing orders its layout transition
  before the fragment shader's read. `ReadiedAreOrdered` under the configuration of `render_graph`.
* *The canvas loads what it did not declare*: canvas_pass.cpp:88-91 draws onto `final_image`, which
  fxaa_pass wrote, so compile() makes its attachment load; its access is the default, write only, so
  no barrier makes the earlier writes visible to the load and to blending. `LoadsSeeWrites` under the configuration of
  `render_graph`.
* *`is_operation_done` is true too early* for operations of the batch that is being applied
  (scenes_module.cpp:202 and 53-57, against scenes_module.hpp:124). `DoneMeansApplied` with
  `MaxOperations = 2`.
* *Previews may show an older graph*: `take_results` returns the newest result first
  (async_shader_compiler.cpp:42), so of two results of one node the older is installed last.
  `PreviewIsLatest` with `MaxTake = 8`, as in the code.
* *A list published late is awaited late*: frame_context.hpp:59 says "every frame submitted after
  this waits on it", but a list published between `end_frame`'s read (frame_context.cpp:128)
  and the frame's submission (162) is awaited by the next frame only. `FramesAwaitLists` is
  stated from that read.
* *Crossed reads are taken as covered*: `advance_sync` tests stages and accesses separately
  (render_graph.cpp:167), so after reads (s1, a1) and (s2, a2) a read (s1, a2) gets no barrier,
  against the comment above `sync_state`. No pass reads one image in that way beyond
  accesses that imply each other (the assumption `ReadAlike`); without that assumption a catalogue
  with such groups makes `UsesSeeWrites` fail.

## 6. Proofs

All theorems hold for every value of the constants, under the assumptions named in the
modules (`CapacityAssumption`: a positive capacity; `MaxPushAssumption`,
`MaxFramesAssumption`, `BoundAssumption`: bounds are naturals; `ThreadsAssumption`: the two
threads differ; `HandlesAssumption`, `NoneAssumption`: the special values are no handles,
no requests; `TreeAssumption`: finitely many workers and jobs, each job but the root scheduled by
one job, once). TLC evaluates them in every run.

* **WorkStealingDequeProofs** - `Invariance`, `TypeCorrect`, `ExactlyOnce`,
  `Conservation`, `Implementation`. `TakenAtMostOnce` is not inductive: whether a compare-exchange hands out a
  value twice depends on what the thread read before. `IInv` adds, for each program counter of
  the owner, how `_top` and `_bottom` relate (the reservation leaves `_bottom` one below
  `_top` at worst); for each thief, that its `_top` was once current and, as long as it is
  still current, that the value it read is the value of that live element (this needs
  "the ring never wraps onto a live element"); and that the live elements are pushed values
  nobody was handed. `Implementation` is the refinement `Spec => DequeContract`: with `Held` the
  values in the window from `_top` to `_bottom`, publishing `_bottom` appends to it, and
  narrowing it at the bottom or the top takes the newest or the oldest, in the very step where
  the code's operation takes effect; all other steps leave it alone.
* **ThreadProofs** (pool) - `Invariance`, `PoolTypeCorrect`, `NoDangling`, `ExceptionsReach`,
  `NoneStranded`. `IInv` has two halves. `Core` is about the jobs: where threads can be (`Places`), that
  every running job is on one stack, once (`Stacks`), that a job with others above it has scheduled all
  its children (`Waits`, `Schedules`), that a queued job is in one queue, once, or still in its
  submitter's hand (`Queues`), and that a counter is the number of the children that have not counted
  down (`Counts`, a counting argument over finite sets). `NoDanglingJob` then is: a child that can be
  reached is among those the counter counts, so its waiter, which destroys it, has not seen zero. It
  holds however a waiting thread nests other jobs on its stack, because nothing is said of whose
  job is above whose. `Ends`, `Throws`, `Exceptions` follow an exception from the inline part through
  the counter to the waiter. `Sync` is about the eventcount: what the epoch counts (`Epochs`: the
  submissions that have bumped it, and the destructor), who is a sleeper (`Sleeps`), and what a worker
  that still sees its epoch has looked at in vain (`Empties`, `Looks`): a job that it missed has a submitter
  that has not bumped yet. `NoneStranded` adds `Woken`: when all workers sleep, a job in the injection queue
  has such a submitter, or one that is about to notify. It assumes a worker: with `worker_count = 0` the
  owner runs everything in `wait`, and "all workers sleep" says nothing.
* **ThreadProofs** (render thread) - `RenderInvariance`, `IdleExclusion`, `KicksConserved`, `RenderNotified`,
  and `RenderImplementsHandoff`: every step of `RenderThread` is a step of `FrameHandoff` or
  leaves its mapped variables alone. `RenderInv` says what `_state` implies about where the two
  threads are, and that a blocked thread's condition is false or its notifier is between the
  assignment and the notification.
* **ScenesModuleProofs** - `Invariance`, `TypeCorrect`, `ActiveStaysLoaded`, `NoOrphans`, `Places`,
  `InOrder`, `NothingLost`, for whatever handlers do at every point where they run. `IInv` adds what each
  position between handlers implies: which operation is in progress, that an unload still has
  another scene to activate, that after the destruction another scene is active unless a handler
  reactivated this one, and that
  issued handles are smaller than `next_handle`, so a new scene never takes a listed one.
  `PlaceInv` follows the operations: the numbers issued so far are divided among the three queues,
  the waiting and the current operation and the settled ones (`EachInOnePlace`), each queue is
  sorted by number, and `Emptied` says which places are empty at each position, so that the swap
  of the queue, `waiting` and `current` never overwrite an operation. `LoadsInOrder` is then what
  the sorted queue of asynchronous loads gives when its front is activated, together with `QueueInv`
  (what is queued was issued after what is in the batch, and that after what is being applied), and
  `NoOperationLost` is counting.
* **AsyncShaderCompilerProofs** - `Invariance`, `TypeCorrect`, `NoLostWakeup`, `LatestNotLost`,
  `CompiledInOrder`.
  `NoMissedNotify` alone is not inductive: a worker that has decided to block is about to
  break it. `Deciding` says that such a worker holds the mutex, has nothing pending, and that an
  abort, if raised, is still before the clearing, which needs that mutex. `LatestSurvives`
  needs `Inserting`: what is being inserted is filed under its own key and is that key's
  latest. `CompiledOnceInOrder` needs the age of every request, not only of the compiled ones
  (`AgeInv`): of one key the results are older than what the worker holds, that is older than
  what is pending and that older than what is being submitted; no version is in two places, and
  none that was reported is in any. Taking results from the back keeps this, as it only moves the
  youngest of them to the reported.

* **AsyncComputeProofs** - `Invariance`, `FramesAwait`, `ResourcesLive`. What a frame waits for
  is a number; that the lists it was told of are complete then needs: signal values grow with the
  position in `submissions`, each queue begins and ends work in order, the timeline is the
  greatest value signaled, and what has been published covers every list that has returned
  (`SyncInv`). `LifeInv` says that the registry knows every list that may still execute, once, and
  that a list being recorded only uses live buffers. Assumption: at least one frame in flight.
* **SignalsProofs** - `Invariance`, `TypeCorrect`, `CopiesAreMade`, `Counted`, `Exact`, `Snapshot`. `IInv` says who may write
  what: the payload a writer is about to change has one reference, the signal's own; the list
  an emission iterates is still the one it began with; and in the middle of a change, by which
  slots the list and the indices deviate from `wanted`. `CopyList` is guarded by a free
  payload; `CopiesAreMade` shows that the guard never holds a writer up, by counting those who
  hold payloads. Assumption: finitely many threads.
* **RenderGraphProofs** - `IInvHolds`, `TypeCorrect`, `UsesOrdered`, `UsesSee`, `ContentFound`, for every catalogue that
  keeps the assumptions of section 2, whichever groups a program takes from it, in whatever order, and
  whichever of them are disabled in each frame. `compile()` keeps a summary per resource (last write,
  reads since); the device has its whole past. `Follows` says what the summary must say of the
  past: everything is behind a barrier that waits for the summary's writes and reads, writes are
  behind its writes alone, and the reads it names are ordered after every write and see it. The
  lemmas up to `UseFollows` show that the barrier `advance_sync` derives prepares its use, and that
  `Follows` holds again whether the use takes place or is skipped, which is what makes disabled
  groups harmless. `GroupEntry`, `GroupBody`, `GroupExit` lift that to a group, whose barriers are
  issued together before and after its uses. `IInv` ties the two phases: each group's barriers are
  those of the state the second round had there (`trace`), and at every point of a frame the past
  follows that state. The frame boundary needs that both rounds end alike: a state
  after the second round is the one after the first with other carried scopes (`EndCarrying`), so what
  is carried is how the frame really ends. Images a pass makes ready itself, for which the graph
  derives no barrier before the write, have an invariant of their own (`InOwnOrder`). If their pass ended
  short, `Follows` does not hold, and `ForDispatches` takes its place until the image is written again: all that
  is known then is that compute reads come after the write and see it (`ShortReady`, `ShortKept`, `GroupShort`),
  which is why the two properties except other uses. A load that was not declared writes the attachment as
  declared, so its order is proved like that of any write; what it reads is taken out of `UsesSeeWrites`. `ContentFound`
  adds `FoundInv`. While `compile()` walks, `cleared_by` names the group that starts an image (`Cleared`),
  and every group that starts an image a later group depends on is marked `clear_on_skip` (`Marked`).
  While frames run, a touched image is in the layout of its state (`LayoutOf`), and an image used in this
  frame is defined unless the group that starts it may be skipped without clearing (`ContentOf`); what a
  group loads or samples it depends on, so by `Marked` that exception does not apply to it. This is where
  `StoredAlways` and `TransitionedAfterUse` enter: a skipped group that stores would leave nothing, and a transition of
  an untouched image would discard it.
* **TextureStreamingProofs** - `IInvHolds`, `TypeCorrect`, `LiveImages`, `TheirTextures`, `ResidentTextures`,
  `RetiredOrder`, `SlotsReusable`, assuming `Releases # "any"`; reimports of one texture may overlap.
  `NothingDeadQueued` also assumes `~Overlaps`, and must: with overlapping requests finding 2 refutes it.
  That a frame in flight samples a live image of its own texture is not inductive, as the queued
  descriptor writes are about to change what it samples. `Final(x)` is what the descriptor of index x names
  once they are applied; `SampleInv` says, of what each frame in flight and the prepared frame sample,
  that the index is still its texture's or retired no sooner than that frame (`Held`), and that the
  descriptor's image and the `Final` one are of that texture and alive or retired no sooner than that frame
  (`Outlives`). A frame in flight is past `_timeline_value`, so neither collection reaches what it samples.
  The rest says why nothing else does: an index has one owner (`IndexInv`); a requested texture keeps
  its index (`RequestInv`, which is where the contract of release_texture enters), so an upload only
  replaces images of its own texture; no image is known under two indices (`NameInv`), also not
  between its staging and its record (`StageInv`), so what is retired is alive; both threads retire
  with the frame index of the moment, so the queue stays sorted (`RetiredInv`); an unborn image is
  never mentioned (`BirthInv`). `NothingDeadQueued` needs that a texture has one request at a time
  (`RequestedOnce`: not in the loader, pending and being uploaded at once), so that of each texture one
  upload at most is in a batch; a queued image is then its index's image, whose texture is loaded and
  not being released (`QueueInv`), and nothing retires it before its copy and its write are recorded.

Only model-checked: all liveness (`PoolJoins`, `KickIsServed`, `TerminateJoins`,
`IssuedIsSettled`, `EditIsReported`, `AbortJoins`, `DeviceDrains`, `CallsReturn`), which is out of the prover's reach.

## 7. Plan

Built in this order, the most shared code first: deque, pool, render thread, textures,
scenes, shader compiler, async compute, signals, render graph. Next:

1. `ResourcePool` with the generation width as a constant, and its proofs (handles of
   retired resources never resolve within one wrap).
2. `ScenesModule`: `restore_scene_set` and the editor's play mode (handles that repeat).
3. `CommandQueue`, the editor's undo stack, the ECS sparse set as small modules.
4. A store-buffer (TSO) variant of the deque.
5. The passes' catalogue generated from their declarations, stages of the compositor included.
