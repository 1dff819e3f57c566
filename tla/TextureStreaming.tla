--------------------------- MODULE TextureStreaming ---------------------------
(* A texture's way onto the screen and off it again, across the main        *)
(* thread, the loader, the render thread and the device: asset_residency    *)
(* (textures), bindless_table, the image pool of the resource registry and  *)
(* frame_context.  The main thread hands frames to the render thread by the *)
(* contract FrameHandoff: it prepares a frame in one step, while no frame's *)
(* work runs.  The mutex of asset_residency is held across two steps only   *)
(* by release_texture; every other critical section is one step.            *)
EXTENDS Naturals, FiniteSets, Sequences, SequencesExt

CONSTANTS
  Keys,           \* textures, by cache key (uuid and format)
  Capacity,       \* indices of the bindless array
  None,           \* no index, no image, no frame
  MaxFramesInFlight,   \* swapchain::max_frames_in_flight
  MaxUploads,     \* max_uploads_per_frame
  Releases,       \* which textures scripts release: "created", "resident" or "any"
  Overlaps,       \* whether a texture is reimported while a request of it is under way
  MaxReimports,   \* bound: reimports of loaded textures
  MaxFrames,      \* bound: the last frame index that is kicked
  MaxImages       \* bound: images created, also caps the loads

ASSUME SizesAssumption ==
  /\ {Capacity, MaxFramesInFlight, MaxUploads} \subseteq Nat \ {0}
  /\ {MaxReimports, MaxFrames, MaxImages} \subseteq Nat
  /\ Releases \in {"created", "resident", "any"} /\ Overlaps \in BOOLEAN
  /\ None \notin Nat

VARIABLES
  frame_index, submitted, timeline,  \* _frame_index; last frame submitted; last frame completed
  timeline_value,                    \* _timeline_value, the completed frame begin_frame last saw
  textures, image_of, resident_frame,  \* _textures, _images, _resident_frame
  loading,        \* keys with the loader: requested, or resolved and not taken
  pending, taken, \* _pending_textures, and what process_uploads took from it
  next_index, free_indices, retired_indices,  \* index_allocator
  phase, content, \* life of each image; the texture whose pixels it holds
  retired,        \* _retired of the image pool, oldest first
  writes, descriptor,  \* _pending_writes; the descriptor array
  staged,         \* images upload_context will copy into
  packet,         \* the textures the prepared frame samples
  flight,         \* and those of each frame that was submitted
  main_pc, release_key, release_value,
  created,        \* textures of create_storage_image, the others are of load_texture
  render_pc, loads, reimports

frames == <<frame_index, submitted, timeline, timeline_value, packet, flight>>
residency == <<textures, image_of, resident_frame, loading, pending, taken>>
bindless == <<next_index, free_indices, retired_indices, writes, descriptor>>
pool == <<phase, content, retired>>
main == <<main_pc, release_key, release_value, created, loads, reimports>>
vars == <<frames, residency, bindless, pool, staged, main, render_pc>>

Index == 0..(Capacity - 1)
Image == 1..MaxImages
Frame == 1..MaxFrames

InFlight == (timeline + 1)..submitted
Unlocked == main_pc = "update"   \* release_texture does not hold _mutex
Resident(k) ==
  /\ textures[k] # None /\ resident_frame[textures[k]] # None
  /\ timeline_value >= resident_frame[textures[k]]
(* A request of the texture is with the loader or waits for its upload; the *)
(* copy of its pixels or the write of its descriptor is still queued.       *)
Requested(k) ==
  \/ \E n \in DOMAIN loading : loading[n] = k
  \/ \E n \in DOMAIN pending : pending[n].key = k
  \/ \E n \in DOMAIN taken : taken[n].key = k
Queued(k) == \E i \in staged \cup {writes[n].image : n \in DOMAIN writes} : content[i] = k
(* release_texture is documented for what create_storage_image made; the    *)
(* scripting interface passes on whatever it is given.                      *)
MayRelease(k) ==
  \/ k \in created \/ Releases = "any"
  \/ Releases = "resident" /\ Resident(k) /\ ~Requested(k) /\ ~Queued(k)
Unborn == {i \in Image : phase[i] = "unborn"}
NextImage == CHOOSE i \in Unborn : \A j \in Unborn : i <= j
LastStaged == CHOOSE i \in staged : \A j \in staged : i >= j

Init ==
  /\ frame_index = 1 /\ submitted = 0 /\ timeline = 0 /\ timeline_value = 0
  /\ textures = [k \in Keys |-> None]
  /\ image_of = [i \in Index |-> None] /\ resident_frame = [i \in Index |-> None]
  /\ loading = <<>> /\ pending = <<>> /\ taken = <<>>
  /\ next_index = 0 /\ free_indices = <<>> /\ retired_indices = {}
  /\ phase = [i \in Image |-> "unborn"] /\ content = [i \in Image |-> None]
  /\ retired = <<>> /\ writes = <<>> /\ descriptor = [i \in Index |-> None]
  /\ staged = {} /\ packet = {} /\ flight = [f \in Frame |-> {}]
  /\ main_pc = "update" /\ release_key = None /\ release_value = None
  /\ created = {} /\ render_pc = "idle" /\ loads = 0 /\ reimports = 0

(* vkUpdateDescriptorSets applies the queued writes in order: the last one  *)
(* of an index stands.                                                      *)
WritesOf(queue, i) == {n \in DOMAIN queue : queue[n].index = i}
LastWrite(queue, i) == CHOOSE n \in WritesOf(queue, i) : \A m \in WritesOf(queue, i) : m <= n
ApplyWrites(array, queue) ==
  [i \in Index |-> IF WritesOf(queue, i) = {} THEN array[i] ELSE queue[LastWrite(queue, i)].image]

(* resource_pool::retire(): the handle is dead, the image is not yet.       *)
Retire(image, value) ==
  /\ phase' = [phase EXCEPT ![image] = "retired"]
  /\ retired' = Append(retired, [image |-> image, value |-> value])

-----------------------------------------------------------------------------
(* Seeded faults: operations of this module with one plausible bug each.    *)
(* Every property is checked to fail when its operation is so replaced.     *)
\* release_texture() leaves the resident frame of the index behind.
ReleaseImageStaysResident ==
  /\ main_pc = "release_image"
  /\ LET index == textures[release_key]
     IN /\ IF image_of[index] # None
             THEN Retire(image_of[index], release_value)
             ELSE UNCHANGED <<phase, retired>>
        /\ image_of' = [image_of EXCEPT ![index] = None]
  /\ main_pc' = "release_index" /\ release_value' = None
  /\ UNCHANGED <<frames, textures, resident_frame, loading, pending, taken, bindless, content,
                 staged, release_key, created, loads, reimports, render_pc>>

\* The index is retired with the frame that has completed, not the one recorded.
ReleaseIndexTooEarly ==
  /\ main_pc = "release_index"
  /\ retired_indices' =
       retired_indices \cup {[index |-> textures[release_key], value |-> timeline_value]}
  /\ textures' = [textures EXCEPT ![release_key] = None]
  /\ created' = created \ {release_key}
  /\ main_pc' = "update" /\ release_key' = None
  /\ UNCHANGED <<frames, image_of, resident_frame, loading, pending, taken, next_index,
                 free_indices, writes, descriptor, pool, staged, release_value, loads,
                 reimports, render_pc>>

\* begin_frame() lets the host run one frame too far ahead.
BeginFrameTooFarAhead ==
  /\ render_pc = "begin"
  /\ frame_index > MaxFramesInFlight => timeline + 1 >= frame_index - MaxFramesInFlight
  /\ timeline_value' = timeline
  /\ render_pc' = "collect"
  /\ UNCHANGED <<frame_index, submitted, timeline, packet, flight, residency, bindless, pool,
                 staged, main>>

\* begin_frame() publishes the frame last submitted as completed.
BeginFrameAssumesCompleted ==
  /\ render_pc = "begin"
  /\ frame_index > MaxFramesInFlight => timeline >= frame_index - MaxFramesInFlight
  /\ timeline_value' = submitted
  /\ render_pc' = "collect"
  /\ UNCHANGED <<frame_index, submitted, timeline, packet, flight, residency, bindless, pool,
                 staged, main>>

\* collect() compares with the frame last submitted.
CollectSubmittedImages ==
  /\ render_pc = "collect"
  /\ LET late == {n \in 1..Len(retired) : retired[n].value > submitted}
         n == IF late = {} THEN Len(retired) ELSE (CHOOSE m \in late : \A l \in late : m <= l) - 1
         due == {retired[m].image : m \in 1..n}
     IN /\ retired' = SubSeq(retired, n + 1, Len(retired))
        /\ phase' = [i \in Image |-> IF i \in due THEN "destroyed" ELSE phase[i]]
  /\ render_pc' = "collect_indices"
  /\ UNCHANGED <<frames, residency, bindless, content, staged, main>>

\* Every retired index is free again at the next frame.
CollectEveryIndex ==
  /\ render_pc = "collect_indices"
  /\ retired_indices' = {}
  /\ \E order \in SetToSeqs({r.index : r \in retired_indices}) :
       free_indices' = free_indices \o order
  /\ render_pc' = "flush_writes"
  /\ UNCHANGED <<frames, residency, next_index, writes, descriptor, pool, staged, main>>

\* flush() does not clear the list of images it has copied into.
FlushUploadsKeepsStaged ==
  /\ render_pc = "flush_uploads"
  /\ render_pc' = "submit"
  /\ UNCHANGED <<frames, residency, bindless, pool, staged, main>>

\* The replaced image is retired with the frame it was uploaded in.
RecordUploadRetiresOld ==
  /\ render_pc = "record" /\ Unlocked
  /\ LET index == Head(taken).index
         image == LastStaged
     IN /\ IF image_of[index] # None
             THEN Retire(image_of[index], resident_frame[index])
             ELSE UNCHANGED <<phase, retired>>
        /\ image_of' = [image_of EXCEPT ![index] = image]
        /\ resident_frame' = [resident_frame EXCEPT ![index] = IF @ = None THEN frame_index ELSE @]
  /\ taken' = Tail(taken)
  /\ render_pc' = "stage"
  /\ UNCHANGED <<frames, textures, loading, pending, bindless, content, staged, main>>

-----------------------------------------------------------------------------
(* index_allocator::allocate(): the index freed last, or one never used.    *)
NewIndex == IF free_indices # <<>> THEN Last(free_indices) ELSE next_index

Allocate ==
  IF free_indices # <<>>
    THEN free_indices' = Front(free_indices) /\ UNCHANGED next_index
    ELSE next_index < Capacity /\ next_index' = next_index + 1 /\ UNCHANGED free_indices

(* load_texture(): reserve an index and send the request to the loader.     *)
Load(k) ==
  /\ main_pc = "update" /\ textures[k] = None
  /\ loads + reimports < MaxImages
  /\ Allocate
  /\ textures' = [textures EXCEPT ![k] = NewIndex]
  /\ loading' = Append(loading, k)
  /\ loads' = loads + 1
  /\ UNCHANGED <<frames, image_of, resident_frame, pending, taken, retired_indices, writes,
                 descriptor, pool, staged, main_pc, release_key, release_value, created, reimports,
                 render_pc>>

(* create_storage_image(): the image is ready at once, so its descriptor is *)
(* written from the main thread, with every other write queued by then; and *)
(* emplace leaves what the index may still have alone.                      *)
CreateStorageImage(k) ==
  /\ main_pc = "update" /\ textures[k] = None
  /\ loads + reimports < MaxImages
  /\ Allocate
  /\ textures' = [textures EXCEPT ![k] = NewIndex]
  /\ phase' = [phase EXCEPT ![NextImage] = "alive"]
  /\ content' = [content EXCEPT ![NextImage] = k]
  /\ descriptor' =
       ApplyWrites(descriptor, Append(writes, [index |-> NewIndex, image |-> NextImage]))
  /\ writes' = <<>>
  /\ image_of' = [image_of EXCEPT ![NewIndex] = IF @ = None THEN NextImage ELSE @]
  /\ resident_frame' = [resident_frame EXCEPT ![NewIndex] = IF @ = None THEN 0 ELSE @]
  /\ created' = created \cup {k} /\ loads' = loads + 1
  /\ UNCHANGED <<frames, loading, pending, taken, retired_indices, retired, staged, main_pc,
                 release_key, release_value, reimports, render_pc>>

(* reimport() of a texture, which has a file: the same request into the     *)
(* existing record.                                                         *)
Reimport(k) ==
  /\ main_pc = "update" /\ textures[k] # None /\ k \notin created
  /\ Overlaps \/ ~Requested(k)
  /\ reimports < MaxReimports /\ loads + reimports < MaxImages
  /\ loading' = Append(loading, k)
  /\ reimports' = reimports + 1
  /\ UNCHANGED <<frames, textures, image_of, resident_frame, pending, taken, bindless, pool,
                 staged, main_pc, release_key, release_value, created, loads, render_pc>>

(* release_texture(): lock, read the frame index, retire the image and      *)
(* forget it; then retire the index with the frame index of that moment.    *)
ReleaseBegins(k) ==
  /\ main_pc = "update" /\ textures[k] # None
  /\ MayRelease(k)
  /\ release_key' = k /\ release_value' = frame_index
  /\ main_pc' = "release_image"
  /\ UNCHANGED <<frames, residency, bindless, pool, staged, created, loads, reimports, render_pc>>

ReleaseImage ==
  /\ main_pc = "release_image"
  /\ LET index == textures[release_key]
     IN /\ IF image_of[index] # None
             THEN Retire(image_of[index], release_value)
             ELSE UNCHANGED <<phase, retired>>
        /\ image_of' = [image_of EXCEPT ![index] = None]
        /\ resident_frame' = [resident_frame EXCEPT ![index] = None]
  /\ main_pc' = "release_index" /\ release_value' = None
  /\ UNCHANGED <<frames, textures, loading, pending, taken, bindless, content, staged,
                 release_key, created, loads, reimports, render_pc>>

ReleaseIndex ==
  /\ main_pc = "release_index"
  /\ retired_indices' =
       retired_indices \cup {[index |-> textures[release_key], value |-> frame_index]}
  /\ textures' = [textures EXCEPT ![release_key] = None]
  /\ created' = created \ {release_key}
  /\ main_pc' = "update" /\ release_key' = None
  /\ UNCHANGED <<frames, image_of, resident_frame, loading, pending, taken, next_index,
                 free_indices, writes, descriptor, pool, staged, release_value, loads,
                 reimports, render_pc>>

(* render() on the main thread: take what the loader has by now, in order   *)
(* and up to a number; some could not be cooked, and a result whose texture *)
(* is gone is dropped.  Then the frame is built from what is resident, and  *)
(* kicked.                                                                  *)
Subsequences(s) ==
  UNION {{[m \in 1..n |-> s[at[m]]] :
            at \in {f \in [1..n -> DOMAIN s] : \A a, b \in 1..n : a < b => f[a] < f[b]}} :
          n \in 0..Len(s)}

Prepare ==
  /\ main_pc = "update" /\ render_pc = "idle"
  /\ frame_index <= MaxFrames
  /\ \E n \in 0..Len(loading) : \E results \in Subsequences(SubSeq(loading, 1, n)) :
       /\ n <= MaxUploads /\ \A m \in DOMAIN results : textures[results[m]] # None
       /\ loading' = SubSeq(loading, n + 1, Len(loading))
       /\ pending' = pending \o [m \in 1..Len(results) |->
                                   [index |-> textures[results[m]], key |-> results[m]]]
  /\ packet' = {[index |-> textures[k], key |-> k] : k \in {r \in Keys : Resident(r)}}
  /\ render_pc' = "begin"
  /\ UNCHANGED <<frame_index, submitted, timeline, timeline_value, flight, textures, image_of,
                 resident_frame, taken, bindless, pool, staged, main>>

-----------------------------------------------------------------------------
(* begin_frame(): stay at most MaxFramesInFlight ahead of the device, then  *)
(* collect what was retired up to the completed frame, and update the       *)
(* descriptors.                                                             *)
BeginFrame ==
  /\ render_pc = "begin"
  /\ frame_index > MaxFramesInFlight => timeline >= frame_index - MaxFramesInFlight
  /\ timeline_value' = timeline
  /\ render_pc' = "collect"
  /\ UNCHANGED <<frame_index, submitted, timeline, packet, flight, residency, bindless, pool,
                 staged, main>>

(* The pool collects from the front of its queue, which the order in which  *)
(* resources are retired is to keep sorted.                                 *)
CollectImages ==
  /\ render_pc = "collect"
  /\ LET late == {n \in 1..Len(retired) : retired[n].value > timeline_value}
         n == IF late = {} THEN Len(retired) ELSE (CHOOSE m \in late : \A l \in late : m <= l) - 1
         due == {retired[m].image : m \in 1..n}
     IN /\ retired' = SubSeq(retired, n + 1, Len(retired))
        /\ phase' = [i \in Image |-> IF i \in due THEN "destroyed" ELSE phase[i]]
  /\ render_pc' = "collect_indices"
  /\ UNCHANGED <<frames, residency, bindless, content, staged, main>>

CollectIndices ==
  /\ render_pc = "collect_indices"
  /\ LET due == {r \in retired_indices : r.value <= timeline_value}
     IN /\ retired_indices' = retired_indices \ due
        /\ \E order \in SetToSeqs({r.index : r \in due}) : free_indices' = free_indices \o order
  /\ render_pc' = "flush_writes"
  /\ UNCHANGED <<frames, residency, next_index, writes, descriptor, pool, staged, main>>

FlushWrites ==
  /\ render_pc = "flush_writes"
  /\ descriptor' = ApplyWrites(descriptor, writes)
  /\ writes' = <<>>
  /\ render_pc' = "acquire"
  /\ UNCHANGED <<frames, residency, next_index, free_indices, retired_indices, pool, staged, main>>

(* The swapchain may be out of date: it is recreated on an idle device, and *)
(* the frame is dropped without using up its index.                         *)
Acquire ==
  /\ render_pc = "acquire"
  /\ \/ render_pc' = "take" /\ UNCHANGED packet
     \/ timeline = submitted /\ render_pc' = "idle" /\ packet' = {}
  /\ UNCHANGED <<frame_index, submitted, timeline, timeline_value, flight, residency, bindless,
                 pool, staged, main>>

(* process_uploads(): take a batch; wait for the device when one of the     *)
(* batch replaces an image; create and stage each image, queue the write of *)
(* its descriptor, and only then record it under the lock.                  *)
TakeUploads ==
  /\ render_pc = "take" /\ Unlocked
  /\ LET n == IF Len(pending) < MaxUploads THEN Len(pending) ELSE MaxUploads
     IN /\ taken' = SubSeq(pending, 1, n)
        /\ pending' = SubSeq(pending, n + 1, Len(pending))
  /\ render_pc' = IF pending = <<>> THEN "flush_uploads" ELSE "check"
  /\ UNCHANGED <<frames, textures, image_of, resident_frame, loading, bindless, pool, staged, main>>

AwaitReplaced ==
  /\ render_pc = "check" /\ Unlocked
  /\ (\E n \in 1..Len(taken) : image_of[taken[n].index] # None) => timeline = submitted
  /\ render_pc' = "stage"
  /\ UNCHANGED <<frames, residency, bindless, pool, staged, main>>

StageUpload ==
  /\ render_pc = "stage" /\ taken # <<>>
  /\ phase' = [phase EXCEPT ![NextImage] = "alive"]
  /\ content' = [content EXCEPT ![NextImage] = Head(taken).key]
  /\ staged' = staged \cup {NextImage}
  /\ writes' = Append(writes, [index |-> Head(taken).index, image |-> NextImage])
  /\ render_pc' = "record"
  /\ UNCHANGED <<frames, residency, next_index, free_indices, retired_indices, descriptor,
                 retired, main>>

(* insert_or_assign for the image, emplace for the frame: an index that has *)
(* a resident frame keeps it.                                               *)
RecordUpload ==
  /\ render_pc = "record" /\ Unlocked
  /\ LET index == Head(taken).index
         image == LastStaged
     IN /\ IF image_of[index] # None
             THEN Retire(image_of[index], frame_index)
             ELSE UNCHANGED <<phase, retired>>
        /\ image_of' = [image_of EXCEPT ![index] = image]
        /\ resident_frame' = [resident_frame EXCEPT ![index] = IF @ = None THEN frame_index ELSE @]
  /\ taken' = Tail(taken)
  /\ render_pc' = "stage"
  /\ UNCHANGED <<frames, textures, loading, pending, bindless, content, staged, main>>

UploadsEnd ==
  /\ render_pc = "stage" /\ taken = <<>>
  /\ render_pc' = "flush_uploads"
  /\ UNCHANGED <<frames, residency, bindless, pool, staged, main>>

(* upload_context::flush() looks every staged image up again.               *)
FlushUploads ==
  /\ render_pc = "flush_uploads"
  /\ staged' = {}
  /\ render_pc' = "submit"
  /\ UNCHANGED <<frames, residency, bindless, pool, main>>

(* end_frame(): the queue submission comes before the frame index moves on. *)
Submit ==
  /\ render_pc = "submit"
  /\ submitted' = frame_index
  /\ flight' = [flight EXCEPT ![frame_index] = packet]
  /\ packet' = {}
  /\ render_pc' = "bump"
  /\ UNCHANGED <<frame_index, timeline, timeline_value, residency, bindless, pool, staged, main>>

BumpFrameIndex ==
  /\ render_pc = "bump"
  /\ frame_index' = frame_index + 1
  /\ render_pc' = "idle"
  /\ UNCHANGED <<submitted, timeline, timeline_value, packet, flight, residency, bindless, pool,
                 staged, main>>

(* The device completes frames in the order they were submitted.            *)
DeviceCompletes ==
  /\ timeline < submitted
  /\ timeline' = timeline + 1
  /\ flight' = [flight EXCEPT ![timeline + 1] = {}]
  /\ UNCHANGED <<frame_index, submitted, timeline_value, packet, residency, bindless, pool,
                 staged, main, render_pc>>

-----------------------------------------------------------------------------
MainStep ==
  \/ \E k \in Keys : Load(k) \/ CreateStorageImage(k) \/ Reimport(k) \/ ReleaseBegins(k)
  \/ ReleaseImage \/ ReleaseIndex \/ Prepare

RenderStep ==
  \/ BeginFrame \/ CollectImages \/ CollectIndices \/ FlushWrites \/ Acquire
  \/ TakeUploads \/ AwaitReplaced \/ StageUpload \/ RecordUpload \/ UploadsEnd
  \/ FlushUploads \/ Submit \/ BumpFrameIndex

Next == MainStep \/ RenderStep \/ DeviceCompletes

Spec == Init /\ [][Next]_vars

-----------------------------------------------------------------------------
OptIndex == Index \cup {None}
OptImage == Image \cup {None}
OptFrame == 0..MaxFrames \cup {None}
Upload == [index : Index, key : Keys]

(* Every variable has its type, and the three frame counters are ordered.   *)
TypeOK ==
  /\ frame_index \in 1..(MaxFrames + 1) /\ submitted \in {frame_index - 1, frame_index}
  /\ timeline \in 0..submitted /\ timeline_value \in 0..timeline
  /\ textures \in [Keys -> OptIndex] /\ image_of \in [Index -> OptImage]
  /\ resident_frame \in [Index -> OptFrame]
  /\ loading \in Seq(Keys) /\ pending \in Seq(Upload) /\ taken \in Seq(Upload)
  /\ next_index \in 0..Capacity /\ free_indices \in Seq(Index)
  /\ retired_indices \subseteq [index : Index, value : Frame \cup {MaxFrames + 1}]
  /\ phase \in [Image -> {"unborn", "alive", "retired", "destroyed"}]
  /\ content \in [Image -> Keys \cup {None}]
  /\ retired \in Seq([image : Image, value : Frame \cup {MaxFrames + 1}])
  /\ writes \in Seq([index : Index, image : Image]) /\ descriptor \in [Index -> OptImage]
  /\ staged \subseteq Image /\ packet \subseteq Upload /\ flight \in [Frame -> SUBSET Upload]
  /\ main_pc \in {"update", "release_image", "release_index"}
  /\ created \subseteq Keys /\ release_key \in Keys \cup {None} /\ release_value \in Frame \cup {MaxFrames + 1, None}

(* No frame in flight samples a destroyed image, however the main thread    *)
(* releases and reimports textures while frames are recorded and executed.  *)
FramesSampleLiveImages ==
  \A f \in InFlight : \A t \in flight[f] :
    descriptor[t.index] # None => phase[descriptor[t.index]] # "destroyed"

(* Nor does it sample another texture's pixels: the index of a released     *)
(* texture is given to another one only when no frame samples it any more.  *)
FramesSampleTheirTextures ==
  \A f \in InFlight : \A t \in flight[f] :
    descriptor[t.index] # None /\ content[descriptor[t.index]] = t.key

(* A descriptor changes only while no frame in flight samples it            *)
(* (bindless_table.cpp: only slots the executing frame does not use may be  *)
(* written).                                                                *)
SampledDescriptorsStable ==
  [][\A f \in InFlight : \A t \in flight[f] :
        f \in InFlight' => descriptor'[t.index] = descriptor[t.index]]_vars

(* A texture counts as resident only when the image of its index holds its  *)
(* own pixels; an index is recycled without what the last texture left.     *)
ResidentIsUploaded ==
  \A k \in Keys : Resident(k) =>
    LET image == image_of[textures[k]]
    IN image # None /\ (main_pc = "update" => phase[image] = "alive") /\ content[image] = k

(* retire() asserts that values never decrease: otherwise collect, which    *)
(* stops at the first value that is not due, keeps images for too long.     *)
RetireOrdered == \A n \in 1..(Len(retired) - 1) : retired[n].value <= retired[n + 1].value

(* A queued descriptor write, which either thread may flush at any time,    *)
(* and a queued copy, when it is recorded, name an image that still exists. *)
NothingQueuedIsDead ==
  /\ \A n \in 1..Len(writes) : phase[writes[n].image] # "destroyed"
  /\ render_pc = "flush_uploads" => \A i \in staged : phase[i] = "alive"

(* The command buffer and the semaphores of a slot are reused only when the *)
(* frame that used them last has completed.                                 *)
SlotReusable ==
  render_pc \notin {"idle", "begin", "bump"} =>
    \A f \in InFlight : f % MaxFramesInFlight # frame_index % MaxFramesInFlight
=============================================================================
