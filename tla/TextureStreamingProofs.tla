------------------------ MODULE TextureStreamingProofs ------------------------
(* What the runs of TextureStreaming check on a small instance, for every   *)
(* value of the constants under which scripts keep to what release_texture  *)
(* is documented for.                                                       *)
EXTENDS TextureStreaming, FiniteSetTheorems, WellFoundedInduction, TLAPS

-----------------------------------------------------------------------------
(* The inductive invariant.                                                 *)
RenderPc ==
  {"idle", "begin", "collect", "collect_indices", "flush_writes", "acquire", "take", "check",
   "stage", "record", "flush_uploads", "submit", "bump"}
Value == 1..(MaxFrames + 1)
Write == [index : Index, image : Image]
Retirement == [image : Image, value : Value]
FrameIdle == {"idle", "bump"}   \* no frame is being recorded
BeforeWrites == {"begin", "collect", "collect_indices", "flush_writes"}

(* What the descriptor of an index names once the queued writes are flushed. *)
Final(x) == ApplyWrites(descriptor, writes)[x]

(* The counters, the slot of the frame and the value a release has read.    *)
FrameInv ==
  /\ frame_index \in Value /\ timeline \in Nat /\ timeline_value \in Nat
  /\ submitted = IF render_pc = "bump" THEN frame_index ELSE frame_index - 1
  /\ timeline_value <= timeline /\ timeline <= submitted
  /\ render_pc \in RenderPc /\ main_pc \in {"update", "release_image", "release_index"}
  /\ render_pc # "idle" => frame_index <= MaxFrames
  /\ render_pc \notin {"idle", "begin", "bump"} => frame_index <= timeline + MaxFramesInFlight
  /\ release_value \in Value \cup {None}
  /\ main_pc = "release_image" =>
       /\ release_value \in Value /\ submitted <= release_value /\ release_value <= frame_index
       /\ render_pc # "idle" => release_value = frame_index

(* Images are born in order, one for each request at the most.              *)
BornUpTo(n) ==
  /\ \A i \in Image : phase[i] = "unborn" <=> i > n
  /\ n + Len(loading) + Len(pending) + Len(taken)
       <= loads + reimports + IF render_pc = "record" THEN 1 ELSE 0
BirthInv ==
  /\ loads \in Nat /\ reimports \in Nat /\ loads + reimports <= MaxImages
  /\ loading \in Seq(Keys) /\ pending \in Seq(Upload) /\ taken \in Seq(Upload)
  /\ phase \in [Image -> {"unborn", "alive", "retired", "destroyed"}]
  /\ content \in [Image -> Keys \cup {None}]
  /\ render_pc = "record" => taken # <<>>
  /\ \E n \in 0..MaxImages : BornUpTo(n)

(* An index is owned by one texture, retired, free or has not been used.    *)
IndexInv ==
  /\ textures \in [Keys -> OptIndex] /\ next_index \in 0..Capacity
  /\ free_indices \in Seq(Index) /\ retired_indices \subseteq [index : Index, value : Value]
  /\ \A k \in Keys : textures[k] # None =>
       /\ textures[k] < next_index
       /\ \A l \in Keys : textures[l] = textures[k] => l = k
       /\ \A r \in retired_indices : r.index # textures[k]
       /\ \A n \in DOMAIN free_indices : free_indices[n] # textures[k]
  /\ \A r \in retired_indices :
       /\ r.index < next_index
       /\ \A s \in retired_indices : s.index = r.index => s = r
       /\ \A n \in DOMAIN free_indices : free_indices[n] # r.index
  /\ \A n \in DOMAIN free_indices :
       /\ free_indices[n] < next_index
       /\ \A m \in DOMAIN free_indices : free_indices[m] = free_indices[n] => m = n

(* A requested texture has a file and keeps its index.                      *)
RequestInv ==
  /\ created \subseteq Keys /\ \A k \in created : textures[k] # None
  /\ \A n \in DOMAIN loading : textures[loading[n]] # None /\ loading[n] \notin created
  /\ \A n \in DOMAIN pending :
       textures[pending[n].key] = pending[n].index /\ pending[n].key \notin created
  /\ \A n \in DOMAIN taken :
       textures[taken[n].key] = taken[n].index /\ taken[n].key \notin created
  /\ release_key \in Keys \cup {None}
  /\ main_pc # "update" =>
       release_key \in Keys /\ textures[release_key] # None /\ ~Requested(release_key)

(* No image is known under two indices; a resident one is of its texture.   *)
NameInv ==
  /\ image_of \in [Index -> OptImage] /\ resident_frame \in [Index -> OptFrame]
  /\ descriptor \in [Index -> OptImage] /\ writes \in Seq(Write)
  /\ \A n \in DOMAIN writes : phase[writes[n].image] # "unborn"
  /\ \A x \in Index :
       /\ descriptor[x] # None => phase[descriptor[x]] # "unborn"
       /\ image_of[x] # None <=> resident_frame[x] # None
       /\ image_of[x] # None =>
            /\ phase[image_of[x]] = "alive" /\ Final(x) # None /\ phase[Final(x)] = "alive"
            /\ \E k \in Keys : textures[k] = x /\ content[image_of[x]] = k /\ content[Final(x)] = k
            /\ \A y \in Index \ {x} : image_of[x] # image_of[y] /\ image_of[x] # Final(y)
  /\ main_pc = "release_index" => image_of[textures[release_key]] = None

(* The image staged last waits, alive and unknown, for its record.          *)
StageInv ==
  /\ staged \subseteq Image /\ \A i \in staged : phase[i] # "unborn"
  /\ render_pc = "record" =>
       \E i \in staged :
         /\ \A j \in staged : i >= j
         /\ phase[i] = "alive" /\ content[i] = Head(taken).key
         /\ \A x \in Index : image_of[x] # i /\ (Final(x) = i <=> x = Head(taken).index)

(* The retired images, in order.                                            *)
RetiredInv ==
  /\ retired \in Seq(Retirement)
  /\ \A n \in DOMAIN retired :
       /\ phase[retired[n].image] \in {"retired", "destroyed"}
       /\ retired[n].value <= frame_index
       /\ main_pc = "release_image" => retired[n].value <= release_value
       /\ \A m \in DOMAIN retired : m <= n => retired[m].value <= retired[n].value

(* What frame f samples: an index that is still its texture's or retired no *)
(* sooner than f, and an image of the texture that outlives f.              *)
Held(t, f) ==
  \/ textures[t.key] = t.index
  \/ \E r \in retired_indices : r.index = t.index /\ f <= r.value
Outlives(t, f, image) ==
  /\ image # None /\ phase[image] \in {"alive", "retired"} /\ content[image] = t.key
  /\ \A n \in DOMAIN retired : retired[n].image = image => f <= retired[n].value
Sampled(t, f) == Held(t, f) /\ Outlives(t, f, Final(t.index))

SampleInv ==
  /\ packet \subseteq Upload /\ flight \in [Frame -> SUBSET Upload]
  /\ render_pc \in FrameIdle => packet = {}
  /\ \A t \in packet :
       /\ Sampled(t, frame_index)
       /\ render_pc \notin BeforeWrites => Outlives(t, frame_index, descriptor[t.index])
  /\ \A f \in InFlight : \A t \in flight[f] : Sampled(t, f) /\ Outlives(t, f, descriptor[t.index])

IInv ==
  /\ FrameInv /\ BirthInv /\ IndexInv /\ RequestInv /\ NameInv /\ StageInv /\ RetiredInv
  /\ SampleInv

-----------------------------------------------------------------------------
(* The operators of the model.                                              *)

\* A set of numbers has a least element.
LEMMA LeastExists ==
  ASSUME NEW S \in SUBSET Nat, S # {}
  PROVE  \E n \in S : \A m \in S : n <= m
<1> DEFINE R == OpToRel(<, Nat)
<1>1. IsWellFoundedOn(R, Nat)
  BY NatLessThanWellFounded
<1>2. ASSUME NEW a \in Nat, NEW b \in Nat, a < b PROVE <<a, b>> \in R
  BY <1>2 DEF OpToRel
<1> HIDE DEF R
<1>3. PICK n \in S : \A m \in S : ~ (<<m, n>> \in R)
  BY <1>1, WFMin
<1>4. \A m \in S : ~ (m < n)
  BY <1>2, <1>3
<1> QED
  BY <1>4

\* A bounded one has a greatest.
LEMMA GreatestExists ==
  ASSUME NEW k \in Nat, NEW S \in SUBSET (0..k), S # {}
  PROVE  \E n \in S : \A m \in S : m <= n
<1> DEFINE T == {m \in Nat : m <= k /\ k - m \in S}
<1>1. T \in SUBSET Nat
  OBVIOUS
<1>0. T # {}
  <2>1. PICK s \in S : TRUE
    OBVIOUS
  <2>2. k - s \in T
    OBVIOUS
  <2> QED
    BY <2>2
<1>2. PICK n \in T : \A m \in T : n <= m
  BY <1>0, <1>1, LeastExists
<1>3. ASSUME NEW m \in S PROVE m <= k - n
  <2>1. k - m \in T
    OBVIOUS
  <2> QED
    BY <2>1, <1>2
<1> QED
  BY <1>2, <1>3

\* When the first n images are born, the next one is the one after them.
LEMMA NextImageIs ==
  ASSUME NEW n \in Nat, n < MaxImages, \A i \in Image : phase[i] = "unborn" <=> i > n
  PROVE  NextImage = n + 1 /\ n + 1 \in Image
<1>1. n + 1 \in Unborn /\ \A j \in Unborn : n + 1 <= j
  BY SizesAssumption DEF Unborn, Image
<1>2. \A i \in Unborn : (\A j \in Unborn : i <= j) => i = n + 1
  BY <1>1, SizesAssumption DEF Unborn, Image
<1> QED
  BY <1>1, <1>2 DEF NextImage, Unborn

\* The greatest of the staged images is the one staged last.
LEMMA LastStagedIs ==
  ASSUME staged \subseteq Image, NEW i \in staged, \A j \in staged : i >= j
  PROVE  LastStaged = i
<1>1. \A m \in staged : (\A j \in staged : m >= j) => m = i
  BY SizesAssumption DEF Image
<1> QED
  BY <1>1 DEF LastStaged

\* The last write of an index that has one is the write that comes last.
LEMMA LastWriteIs ==
  ASSUME NEW S, NEW queue \in Seq(S), NEW x, NEW n \in WritesOf(queue, x),
         \A m \in WritesOf(queue, x) : m <= n
  PROVE  LastWrite(queue, x) = n
<1>1. WritesOf(queue, x) \subseteq Nat
  BY DEF WritesOf
<1>2. \A m \in WritesOf(queue, x) : (\A j \in WritesOf(queue, x) : j <= m) => m = n
  BY <1>1
<1> QED
  BY <1>2 DEF LastWrite

\* What an index names after a queue of writes: what one of them says, or what it named before.
LEMMA AppliedFacts ==
  ASSUME NEW array \in [Index -> OptImage],
         NEW queue \in Seq(Write), NEW x \in Index
  PROVE  \/ ApplyWrites(array, queue)[x] = array[x]
         \/ \E n \in DOMAIN queue : ApplyWrites(array, queue)[x] = queue[n].image
<1>1. CASE WritesOf(queue, x) = {}
  BY <1>1 DEF ApplyWrites
<1>2. CASE WritesOf(queue, x) # {}
  <2>1. WritesOf(queue, x) \in SUBSET (0..Len(queue)) /\ Len(queue) \in Nat
    BY DEF WritesOf
  <2>2. PICK n \in WritesOf(queue, x) : \A m \in WritesOf(queue, x) : m <= n
    BY <1>2, <2>1, GreatestExists
  <2>3. LastWrite(queue, x) = n
    BY <2>2, LastWriteIs
  <2> QED
    BY <1>2, <2>3 DEF ApplyWrites, WritesOf
<1> QED
  BY <1>1, <1>2

\* No writes change nothing.
LEMMA AppliedNone ==
  ASSUME NEW array \in [Index -> OptImage]
  PROVE  \A x \in Index : ApplyWrites(array, << >>)[x] = array[x]
BY DEF ApplyWrites, WritesOf

\* One more write changes its own index only.
LEMMA AppliedOneMore ==
  ASSUME NEW array \in [Index -> OptImage],
         NEW queue \in Seq(Write),
         NEW i \in Index, NEW image \in Image, NEW x \in Index
  PROVE  ApplyWrites(array, Append(queue, [index |-> i, image |-> image]))[x] =
           IF x = i THEN image ELSE ApplyWrites(array, queue)[x]
<1> DEFINE w == [index |-> i, image |-> image]
           more == Append(queue, w)
<1>2. w.index = i /\ w.image = image /\ w \in Write
  BY DEF Write
<1>1. /\ more \in Seq(Write) /\ Len(more) = Len(queue) + 1
      /\ more[Len(queue) + 1] = w /\ \A n \in DOMAIN queue : more[n] = queue[n]
      /\ DOMAIN more = 1..(Len(queue) + 1) /\ DOMAIN queue = 1..Len(queue)
  <2> HIDE DEF w
  <2> QED
    BY <1>2
<1> HIDE DEF w, more
<1>3. CASE x = i
  <2>1. Len(queue) + 1 \in WritesOf(more, x) /\ \A m \in WritesOf(more, x) : m <= Len(queue) + 1
    BY <1>1, <1>2, <1>3 DEF WritesOf
  <2>2. LastWrite(more, x) = Len(queue) + 1
    BY <1>1, <2>1, LastWriteIs
  <2>3. WritesOf(more, x) # {}
    BY <2>1
  <2> QED
    BY <1>1, <1>2, <1>3, <2>2, <2>3 DEF ApplyWrites, more, w
<1>4. CASE x # i
  <2>1. WritesOf(more, x) = WritesOf(queue, x)
    BY <1>1, <1>2, <1>4 DEF WritesOf
  <2>2. LastWrite(more, x) = LastWrite(queue, x)
    BY <2>1 DEF LastWrite
  <2>3. CASE WritesOf(queue, x) = {}
    BY <1>4, <2>1, <2>3 DEF ApplyWrites, more, w
  <2>4. CASE WritesOf(queue, x) # {}
    <3>1. WritesOf(queue, x) \in SUBSET (0..Len(queue)) /\ Len(queue) \in Nat
      BY DEF WritesOf
    <3>2. PICK n \in WritesOf(queue, x) : \A m \in WritesOf(queue, x) : m <= n
      BY <2>4, <3>1, GreatestExists
    <3>3. LastWrite(queue, x) = n /\ n \in DOMAIN queue
      BY <3>2, LastWriteIs DEF WritesOf
    <3>4. more[LastWrite(more, x)] = queue[LastWrite(queue, x)]
      BY <1>1, <2>2, <3>3
    <3> QED
      BY <1>4, <2>1, <2>4, <3>4 DEF ApplyWrites, more, w
  <2> QED
    BY <2>3, <2>4
<1> QED
  BY <1>3, <1>4

-----------------------------------------------------------------------------
(* The counters, the slots and the release.                                 *)

\* The first state has them.
LEMMA FrameInit == Init => FrameInv
BY SizesAssumption DEF Init, FrameInv, RenderPc, Value

\* Every step keeps them.
LEMMA FrameStep ==
  ASSUME IInv, [Next]_vars
  PROVE  FrameInv'
<1> USE SizesAssumption DEF IInv, FrameInv, RenderPc, Value
<1>1. ASSUME NEW k \in Keys, Load(k) \/ CreateStorageImage(k) \/ Reimport(k)
      PROVE  FrameInv'
  BY <1>1 DEF Load, CreateStorageImage, Reimport, frames, bindless, pool
<1>2. ASSUME NEW k \in Keys, ReleaseBegins(k) PROVE FrameInv'
  BY <1>2 DEF ReleaseBegins, frames
<1>3. CASE ReleaseImage
  BY <1>3 DEF ReleaseImage, frames
<1>4. CASE ReleaseIndex
  BY <1>4 DEF ReleaseIndex, frames
<1>5. CASE Prepare
  BY <1>5 DEF Prepare, main
<1>6. CASE BeginFrame
  BY <1>6 DEF BeginFrame, main
<1>7. CASE CollectImages \/ CollectIndices \/ FlushWrites \/ AwaitReplaced \/ UploadsEnd \/ FlushUploads
  BY <1>7 DEF CollectImages, CollectIndices, FlushWrites, AwaitReplaced, UploadsEnd, FlushUploads,
              frames, main
<1>8. CASE Acquire
  BY <1>8 DEF Acquire, main
<1>9. CASE TakeUploads \/ StageUpload \/ RecordUpload
  BY <1>9 DEF TakeUploads, StageUpload, RecordUpload, frames, main
<1>10. CASE Submit
  BY <1>10 DEF Submit, main
<1>11. CASE BumpFrameIndex
  BY <1>11 DEF BumpFrameIndex, main
<1>12. CASE DeviceCompletes
  BY <1>12 DEF DeviceCompletes, main
<1>13. CASE UNCHANGED vars
  BY <1>13 DEF vars, frames, main
<1> QED
  BY <1>1, <1>2, <1>3, <1>4, <1>5, <1>6, <1>7, <1>8, <1>9, <1>10, <1>11, <1>12, <1>13
     DEF Next, MainStep, RenderStep

-----------------------------------------------------------------------------
(* What an operation does to the queues, the images and the descriptors.    *)

\* A subsequence is no longer, and consists of elements of the sequence.
LEMMA SubsequenceFacts ==
  ASSUME NEW s \in Seq(Keys), NEW r \in Subsequences(s)
  PROVE  /\ r \in Seq(Keys) /\ Len(r) <= Len(s)
         /\ \A m \in DOMAIN r : \E j \in DOMAIN s : r[m] = s[j]
<1>0. PICK n \in 0..Len(s) : \E at \in [1..n -> DOMAIN s] : r = [m \in 1..n |-> s[at[m]]]
  BY DEF Subsequences
<1>1. PICK at \in [1..n -> DOMAIN s] : r = [m \in 1..n |-> s[at[m]]]
  BY <1>0
<1>2. DOMAIN s = 1..Len(s) /\ n \in Nat /\ \A j \in DOMAIN s : s[j] \in Keys
  OBVIOUS
<1>3. r \in [1..n -> Keys]
  BY <1>1, <1>2
<1>4. r \in Seq(Keys) /\ Len(r) = n
  BY <1>2, <1>3
<1> QED
  BY <1>1, <1>2, <1>4

\* Prepare moves what it takes from the loader, or drops it.
LEMMA PrepareFacts ==
  ASSUME BirthInv, IndexInv, Prepare
  PROVE  /\ loading' \in Seq(Keys) /\ pending' \in Seq(Upload)
         /\ Len(loading') + Len(pending') <= Len(loading) + Len(pending)
         /\ \A n \in DOMAIN loading' : \E j \in DOMAIN loading : loading'[n] = loading[j]
         /\ \A n \in DOMAIN pending' :
              \/ \E j \in DOMAIN pending : pending'[n] = pending[j]
              \/ \E j \in DOMAIN loading :
                   /\ pending'[n].key = loading[j] /\ pending'[n].index = textures[loading[j]]
<1>0. PICK n \in 0..Len(loading) : \E results \in Subsequences(SubSeq(loading, 1, n)) :
        /\ \A m \in DOMAIN results : textures[results[m]] # None
        /\ loading' = SubSeq(loading, n + 1, Len(loading))
        /\ pending' = pending \o [m \in 1..Len(results) |->
                                    [index |-> textures[results[m]], key |-> results[m]]]
  BY DEF Prepare
<1>1. PICK results \in Subsequences(SubSeq(loading, 1, n)) :
        /\ \A m \in DOMAIN results : textures[results[m]] # None
        /\ loading' = SubSeq(loading, n + 1, Len(loading))
        /\ pending' = pending \o [m \in 1..Len(results) |->
                                    [index |-> textures[results[m]], key |-> results[m]]]
  BY <1>0
<1> DEFINE head == SubSeq(loading, 1, n)
           more == [m \in 1..Len(results) |-> [index |-> textures[results[m]], key |-> results[m]]]
<1>2. loading \in Seq(Keys) /\ pending \in Seq(Upload) /\ textures \in [Keys -> OptIndex]
  BY DEF BirthInv, IndexInv
<1>3. /\ head \in Seq(Keys) /\ Len(head) = n
      /\ \A m \in DOMAIN head : m \in DOMAIN loading /\ head[m] = loading[m]
      /\ loading' \in Seq(Keys) /\ Len(loading') = Len(loading) - n
      /\ \A m \in DOMAIN loading' : m + n \in DOMAIN loading /\ loading'[m] = loading[m + n]
  BY <1>1, <1>2
<1>4. /\ results \in Seq(Keys) /\ Len(results) <= n
      /\ \A m \in DOMAIN results : \E j \in DOMAIN head : results[m] = head[j]
  <2>1. results \in Subsequences(head)
    OBVIOUS
  <2> HIDE DEF head
  <2>2. head \in Seq(Keys) /\ Len(head) = n
    BY <1>3
  <2>3. /\ results \in Seq(Keys) /\ Len(results) <= Len(head)
        /\ \A m \in DOMAIN results : \E j \in DOMAIN head : results[m] = head[j]
    BY <2>1, <2>2, SubsequenceFacts
  <2> QED
    BY <2>2, <2>3
<1>5. \A m \in 1..Len(results) : results[m] \in Keys /\ textures[results[m]] \in Index
  BY <1>1, <1>2, <1>4 DEF OptIndex
<1>6. more \in [1..Len(results) -> Upload] /\ Len(results) \in Nat
  BY <1>4, <1>5 DEF Upload
<1>7. more \in Seq(Upload) /\ Len(more) = Len(results)
  BY <1>6
<1>8. \A m \in DOMAIN more : \E j \in DOMAIN loading :
        more[m].key = loading[j] /\ more[m].index = textures[loading[j]]
  BY <1>3, <1>4, <1>5
<1>9. pending' = pending \o more
  BY <1>1
<1> HIDE DEF more, head
<1>10. /\ pending' \in Seq(Upload) /\ Len(pending') = Len(pending) + Len(more)
       /\ \A m \in DOMAIN pending' :
            \/ m \in DOMAIN pending /\ pending'[m] = pending[m]
            \/ m - Len(pending) \in DOMAIN more /\ pending'[m] = more[m - Len(pending)]
  <2>1. /\ pending \o more \in Seq(Upload) /\ Len(pending \o more) = Len(pending) + Len(more)
        /\ DOMAIN more = 1..Len(more) /\ DOMAIN pending = 1..Len(pending)
        /\ DOMAIN (pending \o more) = 1..(Len(pending) + Len(more))
        /\ Len(pending) \in Nat /\ Len(more) \in Nat
    BY <1>2, <1>7
  <2>2. \A m \in 1..(Len(pending) + Len(more)) :
          (pending \o more)[m] = IF m <= Len(pending) THEN pending[m] ELSE more[m - Len(pending)]
    BY <1>2, <1>7
  <2> QED
    BY <1>9, <2>1, <2>2
<1>11. Len(loading) \in Nat /\ Len(pending) \in Nat /\ Len(results) \in Nat /\ n \in Nat
  BY <1>2, <1>4
<1>12. Len(loading') + Len(pending') <= Len(loading) + Len(pending)
  BY <1>3, <1>4, <1>7, <1>10, <1>11
<1>13. \A m \in DOMAIN loading' : \E j \in DOMAIN loading : loading'[m] = loading[j]
  BY <1>3
<1>14. ASSUME NEW m \in DOMAIN pending'
       PROVE  \/ \E j \in DOMAIN pending : pending'[m] = pending[j]
              \/ \E j \in DOMAIN loading :
                   /\ pending'[m].key = loading[j] /\ pending'[m].index = textures[loading[j]]
  <2>1. CASE m \in DOMAIN pending /\ pending'[m] = pending[m]
    BY <2>1
  <2>2. CASE m - Len(pending) \in DOMAIN more /\ pending'[m] = more[m - Len(pending)]
    <3>1. PICK j \in DOMAIN loading :
            /\ more[m - Len(pending)].key = loading[j]
            /\ more[m - Len(pending)].index = textures[loading[j]]
      BY <1>8, <2>2
    <3> QED
      BY <2>2, <3>1
  <2> QED
    BY <1>10, <2>1, <2>2
<1> QED
  BY <1>3, <1>10, <1>12, <1>13, <1>14

\* TakeUploads moves the front of the pending uploads.
LEMMA TakeFacts ==
  ASSUME BirthInv, TakeUploads
  PROVE  /\ pending' \in Seq(Upload) /\ taken' \in Seq(Upload)
         /\ Len(pending') + Len(taken') = Len(pending)
         /\ \A n \in DOMAIN pending' : \E j \in DOMAIN pending : pending'[n] = pending[j]
         /\ \A n \in DOMAIN taken' : \E j \in DOMAIN pending : taken'[n] = pending[j]
<1> DEFINE n == IF Len(pending) < MaxUploads THEN Len(pending) ELSE MaxUploads
<1>1. pending \in Seq(Upload) /\ n \in 0..Len(pending) /\ n \in Nat /\ Len(pending) \in Nat
  BY SizesAssumption DEF BirthInv
<1>2. taken' = SubSeq(pending, 1, n) /\ pending' = SubSeq(pending, n + 1, Len(pending))
  BY DEF TakeUploads
<1> HIDE DEF n
<1>3. /\ taken' \in Seq(Upload) /\ Len(taken') = n
      /\ \A m \in DOMAIN taken' : m \in DOMAIN pending /\ taken'[m] = pending[m]
  BY <1>1, <1>2
<1>4. /\ pending' \in Seq(Upload) /\ Len(pending') = Len(pending) - n
      /\ \A m \in DOMAIN pending' : m + n \in DOMAIN pending /\ pending'[m] = pending[m + n]
  BY <1>1, <1>2
<1> QED
  BY <1>1, <1>3, <1>4

\* A new image is the first that is not born: nothing names it and it is not retired.
LEMMA NewImage ==
  ASSUME IInv, \/ \E k \in Keys : CreateStorageImage(k)
               \/ StageUpload
  PROVE  \E n \in Nat :
           /\ BornUpTo(n) /\ NextImage = n + 1 /\ NextImage \in Image /\ phase[NextImage] = "unborn"
           /\ phase' = [phase EXCEPT ![NextImage] = "alive"]
           /\ NextImage <= MaxImages
<1>0. PICK n \in 0..MaxImages : BornUpTo(n)
  BY DEF IInv, BirthInv
<1>1. /\ \A i \in Image : phase[i] = "unborn" <=> i > n
      /\ n + Len(loading) + Len(pending) + Len(taken)
           <= loads + reimports + IF render_pc = "record" THEN 1 ELSE 0
  BY <1>0 DEF BornUpTo
<1>2. /\ n \in Nat /\ Len(loading) \in Nat /\ Len(pending) \in Nat /\ Len(taken) \in Nat
      /\ taken # << >> => Len(taken) >= 1
      /\ render_pc = "record" => Len(taken) >= 1
      /\ loads \in Nat /\ reimports \in Nat /\ loads + reimports <= MaxImages /\ MaxImages \in Nat
  BY SizesAssumption DEF IInv, BirthInv
<1>3. n < MaxImages
  <2>1. CASE StageUpload
    BY <1>1, <1>2, <2>1 DEF StageUpload
  <2>2. ASSUME NEW k \in Keys, CreateStorageImage(k) PROVE n < MaxImages
    BY <1>1, <1>2, <2>2 DEF CreateStorageImage
  <2> QED
    BY <2>1, <2>2
<1>4. NextImage = n + 1 /\ n + 1 \in Image
  BY <1>1, <1>2, <1>3, NextImageIs
<1> QED
  BY <1>0, <1>1, <1>2, <1>3, <1>4 DEF CreateStorageImage, StageUpload

\* collect() destroys only what is due, and keeps the rest of the queue as it is.
LEMMA CollectFacts ==
  ASSUME BirthInv, RetiredInv, timeline_value \in Nat, CollectImages
  PROVE  \E n \in Nat :
           /\ retired' \in Seq(Retirement)
           /\ \A m \in DOMAIN retired' : m + n \in DOMAIN retired /\ retired'[m] = retired[m + n]
           /\ phase' \in [Image -> {"unborn", "alive", "retired", "destroyed"}]
           /\ \A i \in Image : phase'[i] # phase[i] =>
                /\ phase'[i] = "destroyed"
                /\ \E m \in DOMAIN retired : retired[m].image = i /\ retired[m].value <= timeline_value
<1> DEFINE late == {n \in 1..Len(retired) : retired[n].value > timeline_value}
           first == CHOOSE m \in late : \A l \in late : m <= l
           n == IF late = {} THEN Len(retired) ELSE first - 1
           due == {retired[m].image : m \in 1..n}
<1>1. /\ retired \in Seq(Retirement) /\ Len(retired) \in Nat
      /\ DOMAIN retired = 1..Len(retired)
  BY DEF RetiredInv
<1>2. late \in SUBSET Nat
  BY <1>1
<1>3. late # {} => first \in late /\ \A l \in late : first <= l
  BY <1>2, LeastExists
<1>4. /\ n \in 0..Len(retired)
      /\ \A m \in 1..n : m \in DOMAIN retired /\ m \notin late
  <2> HIDE DEF first
  <2> QED
    BY <1>1, <1>3
<1>5. \A m \in 1..n : retired[m].value \in Nat /\ retired[m].value <= timeline_value
  <2>1. \A m \in DOMAIN retired : retired[m].value \in Nat
    <3>1. \A m \in DOMAIN retired : retired[m] \in Retirement
      BY <1>1
    <3> QED
      BY <3>1, SizesAssumption DEF Retirement, Value
  <2> HIDE DEF n
  <2> QED
    BY <1>1, <1>4, <2>1
<1>6. /\ retired' = SubSeq(retired, n + 1, Len(retired))
      /\ phase' = [i \in Image |-> IF i \in due THEN "destroyed" ELSE phase[i]]
  BY DEF CollectImages
<1>7. /\ retired' \in Seq(Retirement)
      /\ \A m \in DOMAIN retired' : m + n \in DOMAIN retired /\ retired'[m] = retired[m + n]
  <2> HIDE DEF n
  <2>1. n \in Nat /\ n <= Len(retired)
    BY <1>1, <1>4
  <2>2. SubSeq(retired, n + 1, Len(retired)) \in Seq(Retirement)
    BY <1>1, <2>1
  <2>3. \A m \in DOMAIN SubSeq(retired, n + 1, Len(retired)) :
          /\ m + n \in DOMAIN retired
          /\ SubSeq(retired, n + 1, Len(retired))[m] = retired[m + n]
    BY <1>1, <2>1
  <2> QED
    BY <1>6, <2>2, <2>3
<1>8. \A i \in due : \E m \in DOMAIN retired : retired[m].image = i /\ retired[m].value <= timeline_value
  <2> HIDE DEF n
  <2> QED
    BY <1>4, <1>5
<1> HIDE DEF n, due
<1>9. phase \in [Image -> {"unborn", "alive", "retired", "destroyed"}]
  BY DEF BirthInv
<1>10. /\ phase' \in [Image -> {"unborn", "alive", "retired", "destroyed"}]
       /\ \A i \in Image : phase'[i] # phase[i] => phase'[i] = "destroyed" /\ i \in due
  BY <1>6, <1>9
<1>11. n \in Nat
  BY <1>1, <1>4
<1> QED
  BY <1>7, <1>8, <1>10, <1>11

\* flush_writes() brings the descriptors to what they were to name.
LEMMA FlushFacts ==
  ASSUME NameInv, FlushWrites
  PROVE  /\ descriptor' \in [Index -> OptImage] /\ writes' = << >>
         /\ \A x \in Index : descriptor'[x] = Final(x) /\ Final(x)' = Final(x)
<1>1. descriptor' = ApplyWrites(descriptor, writes) /\ writes' = << >>
  BY DEF FlushWrites
<1>2. \A x \in Index : \/ Final(x) = descriptor[x]
                       \/ \E n \in DOMAIN writes : Final(x) = writes[n].image
  BY AppliedFacts DEF NameInv, Final
<1>3. \A x \in Index : Final(x) \in OptImage
  <2>1. descriptor \in [Index -> OptImage] /\ writes \in Seq(Write)
    BY DEF NameInv
  <2>2. \A n \in DOMAIN writes : writes[n] \in Write
    BY <2>1
  <2> QED
    BY <1>2, <2>1, <2>2 DEF OptImage, Write
<1>4. descriptor' \in [Index -> OptImage] /\ \A x \in Index : descriptor'[x] = Final(x)
  BY <1>1, <1>3 DEF ApplyWrites, Final
<1>5. \A x \in Index : ApplyWrites(descriptor', << >>)[x] = descriptor'[x]
  BY <1>4, AppliedNone
<1> QED
  BY <1>1, <1>4, <1>5 DEF Final

\* A staged upload is what its index is to name.
LEMMA StageFacts ==
  ASSUME NameInv, StageUpload, NextImage \in Image, taken \in Seq(Upload)
  PROVE  /\ Head(taken) \in Upload /\ descriptor' = descriptor
         /\ writes' \in Seq(Write)
         /\ \A n \in DOMAIN writes' : \/ writes'[n].image = NextImage
                                      \/ \E m \in DOMAIN writes : writes'[n] = writes[m]
         /\ \A x \in Index :
              Final(x)' = IF x = Head(taken).index THEN NextImage ELSE Final(x)
<1> DEFINE w == [index |-> Head(taken).index, image |-> NextImage]
<1>0. taken # << >>
  BY DEF StageUpload
<1>1. Head(taken) \in Upload /\ Head(taken).index \in Index
  <2>1. Head(taken) \in Upload
    BY <1>0
  <2> QED
    BY <2>1 DEF Upload
<1>2. writes' = Append(writes, w) /\ descriptor' = descriptor
  BY DEF StageUpload, bindless
<1>3. w \in Write /\ writes \in Seq(Write)
  BY <1>1 DEF NameInv, Write
<1>4. /\ writes' \in Seq(Write)
      /\ \A n \in DOMAIN writes' : writes'[n] = w \/ \E m \in DOMAIN writes : writes'[n] = writes[m]
  <2> HIDE DEF w
  <2> QED
    BY <1>2, <1>3
<1>5. ASSUME NEW x \in Index
      PROVE  Final(x)' = IF x = Head(taken).index THEN NextImage ELSE Final(x)
  <2>1. descriptor \in [Index -> OptImage]
    BY DEF NameInv
  <2>2. \A i \in Index, image \in Image :
          ApplyWrites(descriptor, Append(writes, [index |-> i, image |-> image]))[x] =
            IF x = i THEN image ELSE ApplyWrites(descriptor, writes)[x]
    BY <1>3, <2>1, AppliedOneMore
  <2>3. ApplyWrites(descriptor, Append(writes, w))[x] =
          IF x = Head(taken).index THEN NextImage ELSE ApplyWrites(descriptor, writes)[x]
    BY <1>1, <2>2
  <2> HIDE DEF w
  <2> QED
    BY <1>2, <2>3 DEF Final
<1> QED
  BY <1>1, <1>2, <1>4, <1>5

\* create_storage_image() writes the new descriptor and every queued one.
LEMMA CreateFacts ==
  ASSUME NameInv, NEW k \in Keys, CreateStorageImage(k), NextImage \in Image, NewIndex \in Index
  PROVE  /\ descriptor' \in [Index -> OptImage] /\ writes' = << >>
         /\ \A x \in Index : /\ Final(x)' = IF x = NewIndex THEN NextImage ELSE Final(x)
                             /\ descriptor'[x] = Final(x)'
                             /\ Final(x) \in OptImage
<1> DEFINE w == [index |-> NewIndex, image |-> NextImage]
           more == Append(writes, w)
<1>1. descriptor' = ApplyWrites(descriptor, more) /\ writes' = << >>
  BY DEF CreateStorageImage
<1>2. writes \in Seq(Write) /\ descriptor \in [Index -> OptImage]
  BY DEF NameInv
<1>3. \A x \in Index :
        ApplyWrites(descriptor, more)[x] = IF x = NewIndex THEN NextImage ELSE Final(x)
  <2> TAKE x \in Index
  <2>1. \A i \in Index, image \in Image :
          ApplyWrites(descriptor, Append(writes, [index |-> i, image |-> image]))[x] =
            IF x = i THEN image ELSE ApplyWrites(descriptor, writes)[x]
    BY <1>2, AppliedOneMore
  <2> QED
    BY <2>1 DEF Final
<1>4. \A x \in Index : \/ Final(x) = descriptor[x]
                       \/ \E n \in DOMAIN writes : Final(x) = writes[n].image
  BY <1>2, AppliedFacts DEF Final
<1>5. \A x \in Index : Final(x) \in OptImage
  <2>1. \A n \in DOMAIN writes : writes[n] \in Write
    BY <1>2
  <2> QED
    BY <1>2, <1>4, <2>1 DEF OptImage, Write
<1> HIDE DEF more
<1>6. descriptor' \in [Index -> OptImage]
  BY <1>1, <1>3, <1>5 DEF ApplyWrites, OptImage
<1>7. \A x \in Index : ApplyWrites(descriptor', << >>)[x] = descriptor'[x]
  BY <1>6, AppliedNone
<1> QED
  BY <1>1, <1>3, <1>5, <1>6, <1>7 DEF Final

\* Retiring a born image leaves it born.
LEMMA RetireFacts ==
  ASSUME BirthInv, RetiredInv, NEW image \in Image, NEW value \in Value, Retire(image, value)
  PROVE  /\ phase' \in [Image -> {"unborn", "alive", "retired", "destroyed"}]
         /\ phase'[image] = "retired" /\ \A i \in Image \ {image} : phase'[i] = phase[i]
         /\ retired' \in Seq(Retirement) /\ Len(retired') = Len(retired) + 1
         /\ \A n \in DOMAIN retired' :
              \/ n \in DOMAIN retired /\ retired'[n] = retired[n]
              \/ n = Len(retired) + 1 /\ retired'[n].image = image /\ retired'[n].value = value
<1> DEFINE r == [image |-> image, value |-> value]
<1>1. /\ retired' = Append(retired, r) /\ r \in Retirement /\ r.image = image /\ r.value = value
      /\ phase' = [phase EXCEPT ![image] = "retired"]
  BY DEF Retire, Retirement
<1> HIDE DEF r
<1>2. retired \in Seq(Retirement) /\ phase \in [Image -> {"unborn", "alive", "retired", "destroyed"}]
  BY DEF RetiredInv, BirthInv
<1>3. phase' \in [Image -> {"unborn", "alive", "retired", "destroyed"}]
  BY <1>1, <1>2
<1>4. /\ retired' \in Seq(Retirement) /\ Len(retired') = Len(retired) + 1
      /\ \A n \in DOMAIN retired' : \/ n \in DOMAIN retired /\ retired'[n] = retired[n]
                                    \/ n = Len(retired) + 1 /\ retired'[n] = r
  BY <1>1, <1>2
<1> QED
  BY <1>1, <1>2, <1>3, <1>4

\* What release_texture and a finished upload retire is alive; nothing else changes its phase.
LEMMA RetireSteps ==
  ASSUME IInv, ReleaseImage \/ RecordUpload
  PROVE  LET x == IF main_pc = "release_image" THEN textures[release_key] ELSE Head(taken).index
             value == IF main_pc = "release_image" THEN release_value ELSE frame_index
         IN  /\ x \in Index /\ value \in Value
             /\ image_of[x] = None => UNCHANGED <<phase, retired>>
             /\ image_of[x] # None =>
                  image_of[x] \in Image /\ phase[image_of[x]] = "alive" /\ Retire(image_of[x], value)
<1>1. /\ textures \in [Keys -> OptIndex] /\ image_of \in [Index -> OptImage]
      /\ \A y \in Index : image_of[y] # None => phase[image_of[y]] = "alive"
  BY DEF IInv, IndexInv, NameInv
<1>2. CASE ReleaseImage
  <2>1. main_pc = "release_image" /\ textures[release_key] \in Index /\ release_value \in Value
    BY <1>1, <1>2 DEF IInv, FrameInv, RequestInv, ReleaseImage, OptIndex
  <2> QED
    BY <1>1, <1>2, <2>1 DEF ReleaseImage, OptImage
<1>3. CASE RecordUpload
  <2>1. taken # << >> /\ taken \in Seq(Upload) /\ main_pc = "update"
    BY <1>3 DEF IInv, BirthInv, RecordUpload, Unlocked
  <2>2. Head(taken) \in Upload /\ frame_index \in Value
    BY <2>1 DEF IInv, FrameInv
  <2>3. Head(taken).index \in Index
    BY <2>2 DEF Upload
  <2> QED
    BY <1>1, <1>3, <2>1, <2>2, <2>3 DEF RecordUpload, OptImage
<1> QED
  BY <1>2, <1>3

-----------------------------------------------------------------------------
(* The births of the images.                                                *)

\* Nothing is born in the first state.
LEMMA BirthInit == Init => BirthInv
<1> SUFFICES ASSUME Init PROVE BirthInv
  OBVIOUS
<1>1. 0 \in 0..MaxImages /\ \A i \in Image : phase[i] = "unborn" /\ i > 0
  BY SizesAssumption DEF Init, Image
<1>2. loading = << >> /\ pending = << >> /\ taken = << >> /\ loads = 0 /\ reimports = 0
  BY DEF Init
<1>3. BornUpTo(0)
  BY <1>1, <1>2 DEF BornUpTo, Init
<1> QED
  BY <1>1, <1>2, <1>3, SizesAssumption DEF Init, BirthInv

\* A request brings one image to the world, at the most.
LEMMA BirthStep ==
  ASSUME IInv, [Next]_vars
  PROVE  BirthInv'
<1> USE SizesAssumption
<1>n. PICK n \in 0..MaxImages : BornUpTo(n)
  BY DEF IInv, BirthInv
<1>0. /\ \A i \in Image : phase[i] = "unborn" <=> i > n
      /\ n + Len(loading) + Len(pending) + Len(taken)
           <= loads + reimports + IF render_pc = "record" THEN 1 ELSE 0
  BY <1>n DEF BornUpTo
<1>a. /\ loads \in Nat /\ reimports \in Nat /\ loads + reimports <= MaxImages
      /\ loading \in Seq(Keys) /\ pending \in Seq(Upload) /\ taken \in Seq(Upload)
      /\ phase \in [Image -> {"unborn", "alive", "retired", "destroyed"}]
      /\ content \in [Image -> Keys \cup {None}]
      /\ render_pc = "record" => taken # << >>
      /\ n \in Nat /\ Len(loading) \in Nat /\ Len(pending) \in Nat /\ Len(taken) \in Nat
  BY DEF IInv, BirthInv
<1>b. /\ n + Len(loading) + Len(pending) + Len(taken)
           <= loads + reimports + IF render_pc = "record" THEN 1 ELSE 0
      /\ loads \in Nat /\ reimports \in Nat
      /\ n \in Nat /\ Len(loading) \in Nat /\ Len(pending) \in Nat /\ Len(taken) \in Nat
  BY <1>0, <1>a
<1>1. ASSUME NEW k \in Keys, Load(k) \/ Reimport(k) PROVE BirthInv'
  <2>1. /\ loads' + reimports' = loads + reimports + 1 /\ loads' + reimports' <= MaxImages
        /\ loads' \in Nat /\ reimports' \in Nat
        /\ UNCHANGED <<pending, taken, phase, content, render_pc>>
    <3>1. CASE Load(k)
      BY <1>a, <3>1, SMTT(30) DEF Load, pool
    <3>2. CASE Reimport(k)
      BY <1>a, <3>2 DEF Reimport, pool
    <3> QED
      BY <1>1, <3>1, <3>2
  <2>2. loading' \in Seq(Keys) /\ Len(loading') = Len(loading) + 1
    <3>1. loading' = Append(loading, k)
      BY <1>1 DEF Load, Reimport
    <3> QED
      BY <1>a, <3>1
  <2>3. n + Len(loading') + Len(pending') + Len(taken')
          <= loads' + reimports' + IF render_pc' = "record" THEN 1 ELSE 0
    <3>0. Len(loading') = Len(loading) + 1
      BY <2>2
    <3>1. UNCHANGED <<pending, taken, render_pc>>
      BY <2>1
    <3>2. /\ Len(pending') = Len(pending) /\ Len(taken') = Len(taken)
          /\ (IF render_pc' = "record" THEN 1 ELSE 0) = IF render_pc = "record" THEN 1 ELSE 0
      BY <3>1
    <3>3. loads' \in Nat /\ reimports' \in Nat /\ loads' + reimports' = loads + reimports + 1
      BY <2>1
    <3> DEFINE extra == IF render_pc = "record" THEN 1 ELSE 0
    <3>4. extra \in Nat /\ n + Len(loading) + Len(pending) + Len(taken) <= loads + reimports + extra
      BY <1>b
    <3> HIDE DEF extra
    <3>5. n + (Len(loading) + 1) + Len(pending) + Len(taken) <= (loads + reimports + 1) + extra
      BY <1>b, <3>4
    <3>6. n + Len(loading') + Len(pending') + Len(taken') <= loads' + reimports' + extra
      BY <3>0, <3>2, <3>3, <3>5
    <3> QED
      BY <3>2, <3>6 DEF extra
  <2>4. BornUpTo(n)'
    BY <1>0, <2>1, <2>3 DEF BornUpTo
  <2> QED
    BY <1>a, <2>1, <2>2, <2>4 DEF BirthInv
<1>3. ASSUME NEW k \in Keys, CreateStorageImage(k) PROVE BirthInv'
  <2>1. PICK m \in Nat :
           /\ BornUpTo(m) /\ NextImage = m + 1 /\ NextImage \in Image
           /\ phase' = [phase EXCEPT ![NextImage] = "alive"] /\ NextImage <= MaxImages
    BY <1>3, NewImage
  <2>2. \A i \in Image : phase'[i] = "unborn" <=> i > m + 1
    BY <1>a, <2>1 DEF Image, BornUpTo
  <2>3. /\ content' = [content EXCEPT ![NextImage] = k] /\ loads' = loads + 1
        /\ loads + reimports < MaxImages
        /\ UNCHANGED <<reimports, render_pc, loading, pending, taken>>
    BY <1>3 DEF CreateStorageImage
  <2>4. /\ content' \in [Image -> Keys \cup {None}]
        /\ phase' \in [Image -> {"unborn", "alive", "retired", "destroyed"}]
    BY <1>a, <2>1, <2>3
  <2>5. m + 1 \in 0..MaxImages /\ BornUpTo(m + 1)'
    BY <1>a, <2>1, <2>2, <2>3 DEF BornUpTo
  <2> QED
    BY <1>a, <2>3, <2>4, <2>5 DEF BirthInv
<1>4. CASE StageUpload
  <2>1. PICK m \in Nat :
           /\ BornUpTo(m) /\ NextImage = m + 1 /\ NextImage \in Image
           /\ phase' = [phase EXCEPT ![NextImage] = "alive"] /\ NextImage <= MaxImages
    BY <1>4, NewImage
  <2>2. \A i \in Image : phase'[i] = "unborn" <=> i > m + 1
    BY <1>a, <2>1 DEF Image, BornUpTo
  <2>3. /\ content' = [content EXCEPT ![NextImage] = Head(taken).key] /\ taken # << >>
        /\ render_pc = "stage" /\ render_pc' = "record"
        /\ UNCHANGED <<loads, reimports, loading, pending, taken>>
    BY <1>4 DEF StageUpload, main, residency
  <2>4. Head(taken) \in Upload
    BY <1>a, <2>3
  <2>5. /\ content' \in [Image -> Keys \cup {None}]
        /\ phase' \in [Image -> {"unborn", "alive", "retired", "destroyed"}]
    BY <1>a, <2>1, <2>3, <2>4 DEF Upload
  <2>6. m + 1 \in 0..MaxImages /\ BornUpTo(m + 1)'
    BY <1>a, <2>1, <2>2, <2>3 DEF BornUpTo
  <2> QED
    BY <1>a, <2>3, <2>5, <2>6 DEF BirthInv
<1>5. CASE Prepare
  <2>1. /\ loading' \in Seq(Keys) /\ pending' \in Seq(Upload)
        /\ Len(loading') + Len(pending') <= Len(loading) + Len(pending)
    BY <1>5, PrepareFacts DEF IInv
  <2>2. /\ UNCHANGED <<loads, reimports, taken, phase, content>>
        /\ render_pc = "idle" /\ render_pc' = "begin"
    BY <1>5 DEF Prepare, main, pool
  <2>3. BornUpTo(n)'
    BY <1>0, <1>a, <2>1, <2>2 DEF BornUpTo
  <2> QED
    BY <1>a, <2>1, <2>2, <2>3 DEF BirthInv
<1>6. CASE TakeUploads
  <2>1. /\ pending' \in Seq(Upload) /\ taken' \in Seq(Upload)
        /\ Len(pending') + Len(taken') = Len(pending)
    BY <1>6, TakeFacts DEF IInv
  <2>2. /\ UNCHANGED <<loads, reimports, loading, phase, content>>
        /\ render_pc = "take" /\ render_pc' # "record"
    BY <1>6 DEF TakeUploads, main, pool
  <2>3. BornUpTo(n)'
    BY <1>0, <1>a, <2>1, <2>2 DEF BornUpTo
  <2> QED
    BY <1>a, <2>1, <2>2, <2>3 DEF BirthInv
<1>7. ASSUME ReleaseImage \/ RecordUpload PROVE BirthInv'
  <2>1. /\ phase' \in [Image -> {"unborn", "alive", "retired", "destroyed"}]
        /\ \A i \in Image : phase'[i] = "unborn" <=> phase[i] = "unborn"
    BY <1>7, <1>a, RetireSteps, RetireFacts DEF IInv
  <2>2. CASE ReleaseImage
    <3>1. UNCHANGED <<loads, reimports, loading, pending, taken, content, render_pc>>
      BY <2>2 DEF ReleaseImage
    <3>2. BornUpTo(n)'
      BY <1>0, <2>1, <3>1 DEF BornUpTo
    <3> QED
      BY <1>a, <2>1, <3>1, <3>2 DEF BirthInv
  <2>3. CASE RecordUpload
    <3>1. /\ taken' = Tail(taken) /\ UNCHANGED <<loads, reimports, loading, pending, content>>
          /\ render_pc = "record" /\ render_pc' = "stage"
      BY <2>3 DEF RecordUpload, main
    <3>2. taken' \in Seq(Upload) /\ Len(taken') = Len(taken) - 1
      BY <1>a, <3>1
    <3>3. BornUpTo(n)'
      BY <1>0, <1>a, <2>1, <3>1, <3>2 DEF BornUpTo
    <3> QED
      BY <1>a, <2>1, <3>1, <3>2, <3>3 DEF BirthInv
  <2> QED
    BY <1>7, <2>2, <2>3
<1>8. CASE CollectImages
  <2>1. /\ phase' \in [Image -> {"unborn", "alive", "retired", "destroyed"}]
        /\ \A i \in Image : phase'[i] # phase[i] =>
             /\ phase'[i] = "destroyed"
             /\ \E m \in DOMAIN retired : retired[m].image = i
    BY <1>8, CollectFacts DEF IInv, FrameInv
  <2>2. \A m \in DOMAIN retired : phase[retired[m].image] # "unborn"
    BY DEF IInv, RetiredInv
  <2>3. \A i \in Image : phase'[i] = "unborn" <=> phase[i] = "unborn"
    BY <2>1, <2>2
  <2>4. /\ UNCHANGED <<loads, reimports, loading, pending, taken, content>>
        /\ render_pc = "collect" /\ render_pc' = "collect_indices"
    BY <1>8 DEF CollectImages, main, residency
  <2>5. BornUpTo(n)'
    BY <1>0, <2>3, <2>4 DEF BornUpTo
  <2> QED
    BY <1>a, <2>1, <2>4, <2>5 DEF BirthInv
<1>9. ASSUME UNCHANGED <<loads, reimports, loading, pending, taken, phase, content>>,
             render_pc # "record", render_pc' # "record"
      PROVE  BirthInv'
  <2>1. BornUpTo(n)'
    BY <1>n, <1>9 DEF BornUpTo
  <2> QED
    BY <1>a, <1>9, <2>1 DEF BirthInv
<1>10. ASSUME UNCHANGED <<loads, reimports, loading, pending, taken, phase, content, render_pc>>
       PROVE  BirthInv'
  <2>1. BornUpTo(n)'
    BY <1>n, <1>10 DEF BornUpTo
  <2> QED
    BY <1>a, <1>10, <2>1 DEF BirthInv
<1>11. CASE \/ \E k \in Keys : ReleaseBegins(k)
            \/ ReleaseIndex \/ DeviceCompletes \/ UNCHANGED vars
  BY <1>10, <1>11 DEF ReleaseBegins, ReleaseIndex, DeviceCompletes, vars, residency, pool, main
<1>12. CASE BeginFrame \/ CollectIndices \/ FlushWrites \/ Acquire
  BY <1>9, <1>12 DEF BeginFrame, CollectIndices, FlushWrites, Acquire, residency, pool, main
<1>13. CASE AwaitReplaced \/ UploadsEnd \/ FlushUploads \/ Submit \/ BumpFrameIndex
  BY <1>9, <1>13 DEF AwaitReplaced, UploadsEnd, FlushUploads, Submit, BumpFrameIndex,
                     residency, pool, main
<1> QED
  BY <1>1, <1>3, <1>4, <1>5, <1>6, <1>7, <1>8, <1>11, <1>12, <1>13
     DEF Next, MainStep, RenderStep

-----------------------------------------------------------------------------
(* The indices.                                                             *)

\* In the first state no index has been used.
LEMMA IndexInit == Init => IndexInv
BY SizesAssumption DEF Init, IndexInv, OptIndex

\* The allocated index was nobody's, neither free any more nor retired.
LEMMA AllocateFacts ==
  ASSUME IndexInv, Allocate
  PROVE  /\ NewIndex \in Index /\ next_index' \in 0..Capacity
         /\ NewIndex < next_index' /\ next_index <= next_index'
         /\ free_indices' \in Seq(Index)
         /\ \A n \in DOMAIN free_indices' :
              n \in DOMAIN free_indices /\ free_indices'[n] = free_indices[n] /\ free_indices[n] # NewIndex
         /\ \A k \in Keys : textures[k] # NewIndex
         /\ \A r \in retired_indices : r.index # NewIndex
<1>a. /\ next_index \in 0..Capacity /\ free_indices \in Seq(Index)
      /\ Len(free_indices) \in Nat /\ DOMAIN free_indices = 1..Len(free_indices)
      /\ next_index # None
      /\ \A n \in DOMAIN free_indices : free_indices[n] \in Index /\ free_indices[n] # None
  BY SizesAssumption DEF IndexInv, Index
<1>1. CASE free_indices # << >>
  <2>1. /\ free_indices' = SubSeq(free_indices, 1, Len(free_indices) - 1)
        /\ next_index' = next_index /\ NewIndex = free_indices[Len(free_indices)]
    BY <1>1 DEF Allocate, NewIndex, Front, Last
  <2>2. Len(free_indices) \in DOMAIN free_indices
    BY <1>a, <1>1
  <2>3. /\ free_indices' \in Seq(Index)
        /\ \A n \in DOMAIN free_indices' :
             n \in DOMAIN free_indices /\ n # Len(free_indices) /\ free_indices'[n] = free_indices[n]
    BY <1>a, <2>1, <2>2
  <2>4. NewIndex \in Index /\ NewIndex # None
    BY <1>a, <2>1, <2>2
  <2>5. /\ NewIndex < next_index
        /\ \A m \in DOMAIN free_indices : free_indices[m] = NewIndex => m = Len(free_indices)
        /\ \A k \in Keys : textures[k] # NewIndex
        /\ \A r \in retired_indices : r.index # NewIndex
    BY <2>1, <2>2, <2>4 DEF IndexInv
  <2> HIDE DEF NewIndex
  <2> QED
    BY <1>a, <2>1, <2>3, <2>4, <2>5
<1>2. CASE free_indices = << >>
  <2>1. /\ free_indices' = free_indices /\ next_index < Capacity /\ next_index' = next_index + 1
        /\ NewIndex = next_index
    BY <1>2 DEF Allocate, NewIndex
  <2>2. \A k \in Keys : textures[k] # next_index
    BY <1>a DEF IndexInv
  <2>3. \A r \in retired_indices : r.index # next_index
    BY <1>a DEF IndexInv
  <2> QED
    BY <1>a, <1>2, <2>1, <2>2, <2>3, SizesAssumption DEF Index
<1> QED
  BY <1>1, <1>2

\* A texture gets an index of its own.
LEMMA ReserveStep ==
  ASSUME IndexInv, Allocate, NEW k \in Keys, textures[k] = None,
         textures' = [textures EXCEPT ![k] = NewIndex], retired_indices' = retired_indices
  PROVE  IndexInv'
<1>1. /\ NewIndex \in Index /\ next_index' \in 0..Capacity
      /\ NewIndex < next_index' /\ next_index <= next_index'
      /\ free_indices' \in Seq(Index)
      /\ \A n \in DOMAIN free_indices' :
           n \in DOMAIN free_indices /\ free_indices'[n] = free_indices[n] /\ free_indices[n] # NewIndex
      /\ \A l \in Keys : textures[l] # NewIndex
      /\ \A r \in retired_indices : r.index # NewIndex
  BY AllocateFacts
<1>2. /\ textures \in [Keys -> OptIndex] /\ next_index \in 0..Capacity
      /\ retired_indices \subseteq [index : Index, value : Value]
      /\ \A r \in retired_indices : r.index \in Index
  BY DEF IndexInv
<1> HIDE DEF NewIndex
<1>3. textures' \in [Keys -> OptIndex] /\ textures'[k] = NewIndex
      /\ \A l \in Keys \ {k} : textures'[l] = textures[l]
  BY <1>1, <1>2 DEF OptIndex
<1>4. \A a, b \in Nat : a < next_index /\ b = next_index' => a < b
  BY <1>1, <1>2, SizesAssumption
<1>5. \A x \in Index : x < next_index => x < next_index'
  BY <1>1, <1>2, SizesAssumption DEF Index
<1>6. ASSUME NEW l \in Keys, textures'[l] # None
      PROVE  /\ textures'[l] < next_index'
             /\ \A j \in Keys : textures'[j] = textures'[l] => j = l
             /\ \A r \in retired_indices' : r.index # textures'[l]
             /\ \A n \in DOMAIN free_indices' : free_indices'[n] # textures'[l]
  <2>1. CASE l = k
    BY <1>1, <1>3, <2>1
  <2>2. CASE l # k
    <3>1. textures[l] # None /\ textures'[l] = textures[l] /\ textures[l] \in Index
      BY <1>2, <1>3, <1>6, <2>2 DEF OptIndex
    <3>2. /\ textures[l] < next_index
          /\ \A j \in Keys : textures[j] = textures[l] => j = l
          /\ \A r \in retired_indices : r.index # textures[l]
          /\ \A n \in DOMAIN free_indices : free_indices[n] # textures[l]
      BY <3>1 DEF IndexInv
    <3> QED
      BY <1>1, <1>3, <1>5, <3>1, <3>2
  <2> QED
    BY <2>1, <2>2
<1>7. ASSUME NEW r \in retired_indices'
      PROVE  /\ r.index < next_index'
             /\ \A s \in retired_indices' : s.index = r.index => s = r
             /\ \A n \in DOMAIN free_indices' : free_indices'[n] # r.index
  BY <1>1, <1>2, <1>5, <1>7 DEF IndexInv
<1>8. ASSUME NEW n \in DOMAIN free_indices'
      PROVE  /\ free_indices'[n] < next_index'
             /\ \A m \in DOMAIN free_indices' : free_indices'[m] = free_indices'[n] => m = n
  <2>1. /\ n \in DOMAIN free_indices /\ free_indices[n] < next_index
        /\ \A m \in DOMAIN free_indices : free_indices[m] = free_indices[n] => m = n
    BY <1>1, <1>8 DEF IndexInv
  <2>2. free_indices'[n] \in Index
    BY <1>1, <1>8
  <2> QED
    BY <1>1, <1>5, <1>8, <2>1, <2>2
<1> QED
  BY <1>1, <1>2, <1>3, <1>6, <1>7, <1>8 DEF IndexInv

\* A released index is retired.
LEMMA ReleaseIndexStep ==
  ASSUME IInv, ReleaseIndex
  PROVE  IndexInv'
<1> DEFINE x == textures[release_key]
           new == [index |-> x, value |-> frame_index]
<1>1. /\ textures \in [Keys -> OptIndex] /\ release_key \in Keys /\ x # None
      /\ frame_index \in Value
      /\ retired_indices \subseteq [index : Index, value : Value]
      /\ next_index \in 0..Capacity /\ free_indices \in Seq(Index)
  BY DEF IInv, FrameInv, RequestInv, IndexInv, ReleaseIndex
<1>2. x \in Index
  BY <1>1 DEF OptIndex
<1>3. /\ x < next_index
      /\ \A l \in Keys : textures[l] = x => l = release_key
      /\ \A r \in retired_indices : r.index # x
      /\ \A n \in DOMAIN free_indices : free_indices[n] # x
  BY <1>1 DEF IInv, IndexInv
<1>4. /\ textures' = [textures EXCEPT ![release_key] = None]
      /\ retired_indices' = retired_indices \cup {new}
      /\ UNCHANGED <<next_index, free_indices>>
  BY DEF ReleaseIndex
<1>5. new.index = x /\ new \in [index : Index, value : Value]
  BY <1>1, <1>2
<1> HIDE DEF x, new
<1>6. /\ textures' \in [Keys -> OptIndex] /\ textures'[release_key] = None
      /\ \A l \in Keys \ {release_key} : textures'[l] = textures[l]
      /\ retired_indices' \subseteq [index : Index, value : Value]
  BY <1>1, <1>4, <1>5 DEF OptIndex
<1>7. ASSUME NEW l \in Keys, textures'[l] # None
      PROVE  /\ textures'[l] < next_index'
             /\ \A j \in Keys : textures'[j] = textures'[l] => j = l
             /\ \A r \in retired_indices' : r.index # textures'[l]
             /\ \A n \in DOMAIN free_indices' : free_indices'[n] # textures'[l]
  <2>1. l # release_key /\ textures[l] # None /\ textures'[l] = textures[l] /\ textures[l] # x
    BY <1>1, <1>3, <1>6, <1>7
  <2>2. /\ textures[l] < next_index
        /\ \A j \in Keys : textures[j] = textures[l] => j = l
        /\ \A r \in retired_indices : r.index # textures[l]
        /\ \A n \in DOMAIN free_indices : free_indices[n] # textures[l]
    BY <2>1 DEF IInv, IndexInv
  <2> QED
    BY <1>4, <1>5, <1>6, <1>7, <2>1, <2>2
<1>8. ASSUME NEW r \in retired_indices'
      PROVE  /\ r.index < next_index'
             /\ \A s \in retired_indices' : s.index = r.index => s = r
             /\ \A n \in DOMAIN free_indices' : free_indices'[n] # r.index
  BY <1>3, <1>4, <1>5, <1>8 DEF IInv, IndexInv
<1>9. ASSUME NEW n \in DOMAIN free_indices'
      PROVE  /\ free_indices'[n] < next_index'
             /\ \A m \in DOMAIN free_indices' : free_indices'[m] = free_indices'[n] => m = n
  BY <1>4, <1>9 DEF IInv, IndexInv
<1> QED
  BY <1>1, <1>4, <1>6, <1>7, <1>8, <1>9 DEF IndexInv

\* The retired indices that are due become free, each once.
LEMMA CollectIndicesStep ==
  ASSUME IndexInv, CollectIndices
  PROVE  IndexInv'
<1> DEFINE due == {r \in retired_indices : r.value <= timeline_value}
           freed == {r.index : r \in due}
<1>1. PICK order \in SetToSeqs(freed) : free_indices' = free_indices \o order
  BY DEF CollectIndices
<1>2. retired_indices' = retired_indices \ due /\ UNCHANGED <<textures, next_index>>
  BY DEF CollectIndices, residency
<1>3. /\ textures \in [Keys -> OptIndex] /\ next_index \in 0..Capacity
      /\ retired_indices \subseteq [index : Index, value : Value]
      /\ free_indices \in Seq(Index) /\ Len(free_indices) \in Nat
      /\ DOMAIN free_indices = 1..Len(free_indices)
      /\ \A n \in DOMAIN free_indices : free_indices[n] \in Index
  BY DEF IndexInv
<1>4. freed \in SUBSET Index /\ due \subseteq retired_indices
  BY <1>3
<1>5. Cardinality(freed) \in Nat
  <2>1. IsFiniteSet(Index)
    BY FS_Interval, SizesAssumption DEF Index
  <2> HIDE DEF freed
  <2> QED
    BY <1>4, <2>1, FS_Subset, FS_CardinalityType
<1>6. \A x \in freed : \E r \in due : r.index = x
  OBVIOUS
<1> HIDE DEF freed
<1>7. /\ order \in [1..Cardinality(freed) -> freed]
      /\ \A i, j \in 1..Cardinality(freed) : i # j => order[i] # order[j]
  BY <1>1 DEF SetToSeqs
<1>8. order \in Seq(Index) /\ Len(order) = Cardinality(freed)
  BY <1>4, <1>5, <1>7
<1>9. /\ free_indices' \in Seq(Index) /\ DOMAIN free_indices' = 1..(Len(free_indices) + Len(order))
      /\ \A n \in DOMAIN free_indices' :
           \/ n \in DOMAIN free_indices /\ free_indices'[n] = free_indices[n]
           \/ /\ n > Len(free_indices) /\ n - Len(free_indices) \in 1..Cardinality(freed)
              /\ free_indices'[n] = order[n - Len(free_indices)]
  BY <1>1, <1>3, <1>5, <1>8
<1>10. \A n \in DOMAIN free_indices' :
         \/ n \in DOMAIN free_indices /\ free_indices'[n] = free_indices[n]
         \/ \E r \in due : free_indices'[n] = r.index
  BY <1>6, <1>7, <1>9
<1>11. \A r \in due, s \in retired_indices' : r.index # s.index
  BY <1>2, <1>4 DEF IndexInv
<1>12. \A n \in DOMAIN free_indices, r \in due : free_indices[n] # r.index
  BY <1>4 DEF IndexInv
<1>13. ASSUME NEW k \in Keys, textures'[k] # None
       PROVE  /\ textures'[k] < next_index'
              /\ \A l \in Keys : textures'[l] = textures'[k] => l = k
              /\ \A r \in retired_indices' : r.index # textures'[k]
              /\ \A n \in DOMAIN free_indices' : free_indices'[n] # textures'[k]
  <2>1. /\ textures[k] < next_index
        /\ \A l \in Keys : textures[l] = textures[k] => l = k
        /\ \A r \in retired_indices : r.index # textures[k]
        /\ \A n \in DOMAIN free_indices : free_indices[n] # textures[k]
    BY <1>2, <1>13 DEF IndexInv
  <2> HIDE DEF due
  <2> QED
    BY <1>2, <1>4, <1>10, <2>1
<1>14. ASSUME NEW r \in retired_indices'
       PROVE  /\ r.index < next_index'
              /\ \A s \in retired_indices' : s.index = r.index => s = r
              /\ \A n \in DOMAIN free_indices' : free_indices'[n] # r.index
  <2>1. /\ r.index < next_index
        /\ \A s \in retired_indices : s.index = r.index => s = r
        /\ \A n \in DOMAIN free_indices : free_indices[n] # r.index
    BY <1>2, <1>14 DEF IndexInv
  <2> HIDE DEF due
  <2> QED
    BY <1>2, <1>10, <1>11, <1>14, <2>1
<1>15. ASSUME NEW n \in DOMAIN free_indices'
       PROVE  /\ free_indices'[n] < next_index'
              /\ \A m \in DOMAIN free_indices' : free_indices'[m] = free_indices'[n] => m = n
  <2>1. free_indices'[n] < next_index'
    BY <1>2, <1>4, <1>10, <1>15 DEF IndexInv
  <2>2. ASSUME NEW m \in DOMAIN free_indices', free_indices'[m] = free_indices'[n] PROVE m = n
    <3>1. CASE n \in DOMAIN free_indices /\ m \in DOMAIN free_indices
      <4>1. free_indices'[n] = free_indices[n] /\ free_indices'[m] = free_indices[m]
        BY <1>1, <1>3, <1>8, <3>1
      <4> QED
        BY <2>2, <3>1, <4>1 DEF IndexInv
    <3>2. CASE n \notin DOMAIN free_indices /\ m \notin DOMAIN free_indices
      <4>1. /\ n - Len(free_indices) \in 1..Cardinality(freed)
            /\ m - Len(free_indices) \in 1..Cardinality(freed)
            /\ order[m - Len(free_indices)] = order[n - Len(free_indices)]
            /\ n \in Nat /\ m \in Nat
        BY <1>3, <1>5, <1>8, <1>9, <1>15, <2>2, <3>2
      <4>2. m - Len(free_indices) = n - Len(free_indices)
        BY <1>7, <4>1
      <4> QED
        BY <1>3, <4>1, <4>2
    <3>3. CASE n \in DOMAIN free_indices /\ m \notin DOMAIN free_indices
      BY <1>1, <1>3, <1>8, <1>10, <1>12, <2>2, <3>3
    <3>4. CASE n \notin DOMAIN free_indices /\ m \in DOMAIN free_indices
      BY <1>1, <1>3, <1>8, <1>10, <1>12, <1>15, <2>2, <3>4
    <3> QED
      BY <3>1, <3>2, <3>3, <3>4
  <2> QED
    BY <2>1, <2>2
<1>16. retired_indices' \subseteq [index : Index, value : Value]
  BY <1>2, <1>3
<1> QED
  BY <1>2, <1>3, <1>9, <1>13, <1>14, <1>15, <1>16 DEF IndexInv

\* Every step keeps the indices apart.
LEMMA IndexStep ==
  ASSUME IInv, [Next]_vars
  PROVE  IndexInv'
<1>1. ASSUME NEW k \in Keys, Load(k) \/ CreateStorageImage(k) PROVE IndexInv'
  <2>1. /\ Allocate /\ textures[k] = None /\ textures' = [textures EXCEPT ![k] = NewIndex]
        /\ retired_indices' = retired_indices
    BY <1>1 DEF Load, CreateStorageImage
  <2> QED
    BY <2>1, ReserveStep DEF IInv
<1>2. CASE ReleaseIndex
  BY <1>2, ReleaseIndexStep
<1>3. CASE CollectIndices
  BY <1>3, CollectIndicesStep DEF IInv
<1>4. ASSUME UNCHANGED <<textures, next_index, free_indices, retired_indices>> PROVE IndexInv'
  BY <1>4 DEF IInv, IndexInv
<1>5. CASE \/ \E k \in Keys : Reimport(k) \/ ReleaseBegins(k)
           \/ ReleaseImage \/ Prepare \/ DeviceCompletes \/ UNCHANGED vars
  BY <1>4, <1>5 DEF Reimport, ReleaseBegins, ReleaseImage, Prepare, DeviceCompletes, vars,
                    residency, bindless
<1>6. CASE BeginFrame \/ CollectImages \/ FlushWrites \/ Acquire \/ TakeUploads \/ AwaitReplaced
  BY <1>4, <1>6 DEF BeginFrame, CollectImages, FlushWrites, Acquire, TakeUploads, AwaitReplaced,
                    residency, bindless
<1>7. CASE \/ StageUpload \/ RecordUpload \/ UploadsEnd \/ FlushUploads \/ Submit \/ BumpFrameIndex
  BY <1>4, <1>7 DEF StageUpload, RecordUpload, UploadsEnd, FlushUploads, Submit, BumpFrameIndex,
                    residency, bindless
<1> QED
  BY <1>1, <1>2, <1>3, <1>5, <1>6, <1>7 DEF Next, MainStep, RenderStep

-----------------------------------------------------------------------------
(* The requests.                                                            *)

\* Nothing is requested in the first state.
LEMMA RequestInit == Init => RequestInv
BY DEF Init, RequestInv

\* A requested texture keeps its index: scripts do not release it.
LEMMA RequestStep ==
  ASSUME IInv, [Next]_vars, Releases # "any"
  PROVE  RequestInv'
<1>a. /\ textures \in [Keys -> OptIndex] /\ created \subseteq Keys
      /\ \A k \in created : textures[k] # None
      /\ loading \in Seq(Keys) /\ pending \in Seq(Upload) /\ taken \in Seq(Upload)
      /\ \A x \in Index : x # None
      /\ release_key \in Keys \cup {None}
  BY SizesAssumption DEF IInv, IndexInv, RequestInv, BirthInv, Index
<1>b. /\ \A n \in DOMAIN loading :
           loading[n] \in Keys /\ textures[loading[n]] # None /\ loading[n] \notin created
      /\ \A n \in DOMAIN pending :
           /\ pending[n].key \in Keys /\ textures[pending[n].key] # None
           /\ textures[pending[n].key] = pending[n].index /\ pending[n].key \notin created
      /\ \A n \in DOMAIN taken :
           /\ taken[n].key \in Keys /\ textures[taken[n].key] # None
           /\ textures[taken[n].key] = taken[n].index /\ taken[n].key \notin created
  <2>1. /\ \A n \in DOMAIN loading : loading[n] \in Keys
        /\ \A n \in DOMAIN pending : pending[n] \in Upload
        /\ \A n \in DOMAIN taken : taken[n] \in Upload
    BY <1>a
  <2>2. /\ \A n \in DOMAIN pending : pending[n].key \in Keys /\ pending[n].index \in Index
        /\ \A n \in DOMAIN taken : taken[n].key \in Keys /\ taken[n].index \in Index
    BY <2>1 DEF Upload
  <2> QED
    BY <1>a, <2>1, <2>2 DEF IInv, RequestInv
<1>c. main_pc # "update" => release_key \in Keys /\ textures[release_key] # None /\ ~Requested(release_key)
  BY DEF IInv, RequestInv
<1>1. ASSUME NEW k \in Keys, Load(k) PROVE RequestInv'
  <2>1. /\ main_pc = "update" /\ textures[k] = None /\ textures' = [textures EXCEPT ![k] = NewIndex]
        /\ loading' = Append(loading, k) /\ NewIndex \in Index
        /\ UNCHANGED <<pending, taken, created, main_pc, release_key>>
    BY <1>1, AllocateFacts DEF Load, IInv
  <2> HIDE DEF NewIndex
  <2>2. textures'[k] # None /\ \A l \in Keys \ {k} : textures'[l] = textures[l]
    BY <1>a, <2>1
  <2>3. \A n \in DOMAIN loading' : loading'[n] = k \/ \E m \in DOMAIN loading : loading'[n] = loading[m]
    BY <1>a, <2>1
  <2>4. k \notin created
    BY <1>a, <2>1
  <2>5. \A n \in DOMAIN loading' : textures'[loading'[n]] # None /\ loading'[n] \notin created'
    BY <1>b, <2>1, <2>2, <2>3, <2>4
  <2>6. \A l \in created' : textures'[l] # None
    BY <1>a, <2>1, <2>2, <2>4
  <2> QED
    BY <1>a, <1>b, <2>1, <2>2, <2>5, <2>6 DEF RequestInv
<1>2. ASSUME NEW k \in Keys, CreateStorageImage(k) PROVE RequestInv'
  <2>1. /\ main_pc = "update" /\ textures[k] = None /\ textures' = [textures EXCEPT ![k] = NewIndex]
        /\ created' = created \cup {k} /\ NewIndex \in Index
        /\ UNCHANGED <<loading, pending, taken, main_pc, release_key>>
    BY <1>2, AllocateFacts DEF CreateStorageImage, IInv
  <2> HIDE DEF NewIndex
  <2>2. textures'[k] # None /\ \A l \in Keys \ {k} : textures'[l] = textures[l]
    BY <1>a, <2>1
  <2> QED
    BY <1>a, <1>b, <2>1, <2>2 DEF RequestInv
<1>3. ASSUME NEW k \in Keys, Reimport(k) PROVE RequestInv'
  <2>1. /\ main_pc = "update" /\ textures[k] # None /\ k \notin created
        /\ loading' = Append(loading, k)
        /\ UNCHANGED <<textures, pending, taken, created, main_pc, release_key>>
    BY <1>3 DEF Reimport
  <2>2. \A n \in DOMAIN loading' : loading'[n] = k \/ \E m \in DOMAIN loading : loading'[n] = loading[m]
    BY <1>a, <2>1
  <2>3. \A n \in DOMAIN loading' : textures'[loading'[n]] # None /\ loading'[n] \notin created'
    BY <1>b, <2>1, <2>2
  <2> QED
    BY <1>a, <1>b, <2>1, <2>3 DEF RequestInv
<1>4. ASSUME NEW k \in Keys, ReleaseBegins(k) PROVE RequestInv'
  <2>1. /\ textures[k] # None /\ MayRelease(k) /\ release_key' = k
        /\ UNCHANGED <<textures, loading, pending, taken, created>>
    BY <1>4 DEF ReleaseBegins, residency
  <2>2. ~Requested(k)
    <3>1. k \in created => ~Requested(k)
      BY <1>b DEF Requested
    <3> QED
      BY <2>1, <3>1 DEF MayRelease
  <2> QED
    BY <1>a, <1>b, <2>1, <2>2 DEF RequestInv, Requested
<1>5. CASE ReleaseIndex
  <2>1. /\ main_pc # "update" /\ main_pc' = "update" /\ release_key' = None
        /\ textures' = [textures EXCEPT ![release_key] = None]
        /\ created' = created \ {release_key}
        /\ UNCHANGED <<loading, pending, taken>>
    BY <1>5 DEF ReleaseIndex
  <2>2. \A l \in Keys \ {release_key} : textures'[l] = textures[l]
    BY <1>a, <2>1
  <2> QED
    BY <1>a, <1>b, <1>c, <2>1, <2>2 DEF RequestInv, Requested
<1>6. CASE Prepare
  <2>1. /\ main_pc = "update" /\ UNCHANGED <<textures, taken, created, main_pc, release_key>>
    BY <1>6 DEF Prepare, main
  <2>2. /\ \A n \in DOMAIN loading' : \E j \in DOMAIN loading : loading'[n] = loading[j]
        /\ \A n \in DOMAIN pending' :
             \/ \E j \in DOMAIN pending : pending'[n] = pending[j]
             \/ \E j \in DOMAIN loading :
                  /\ pending'[n].key = loading[j] /\ pending'[n].index = textures[loading[j]]
    BY <1>6, PrepareFacts DEF IInv
  <2>3. \A n \in DOMAIN loading' : textures'[loading'[n]] # None /\ loading'[n] \notin created'
    BY <1>b, <2>1, <2>2
  <2>4. \A n \in DOMAIN pending' :
          textures'[pending'[n].key] = pending'[n].index /\ pending'[n].key \notin created'
    BY <1>b, <2>1, <2>2
  <2> QED
    BY <1>a, <1>b, <2>1, <2>3, <2>4 DEF RequestInv
<1>7. CASE TakeUploads
  <2>1. /\ main_pc = "update" /\ UNCHANGED <<textures, loading, created, main_pc, release_key>>
    BY <1>7 DEF TakeUploads, main, Unlocked
  <2>2. /\ \A n \in DOMAIN pending' : \E j \in DOMAIN pending : pending'[n] = pending[j]
        /\ \A n \in DOMAIN taken' : \E j \in DOMAIN pending : taken'[n] = pending[j]
    BY <1>7, TakeFacts DEF IInv
  <2> QED
    BY <1>a, <1>b, <2>1, <2>2 DEF RequestInv
<1>8. CASE RecordUpload
  <2>1. /\ main_pc = "update" /\ taken' = Tail(taken) /\ taken # << >>
        /\ UNCHANGED <<textures, loading, pending, created, main_pc, release_key>>
    BY <1>8 DEF RecordUpload, main, Unlocked, IInv, BirthInv
  <2>2. \A n \in DOMAIN taken' : \E j \in DOMAIN taken : taken'[n] = taken[j]
    BY <1>a, <2>1
  <2> QED
    BY <1>a, <1>b, <2>1, <2>2 DEF RequestInv
<1>9. CASE ReleaseImage
  <2>1. /\ main_pc # "update"
        /\ UNCHANGED <<textures, loading, pending, taken, created, release_key>>
    BY <1>9 DEF ReleaseImage
  <2> QED
    BY <1>a, <1>b, <1>c, <2>1 DEF RequestInv, Requested
<1>10. ASSUME UNCHANGED <<textures, loading, pending, taken, created, main_pc, release_key>>
       PROVE  RequestInv'
  BY <1>a, <1>b, <1>c, <1>10 DEF RequestInv, Requested
<1>11. CASE BeginFrame \/ CollectImages \/ CollectIndices \/ FlushWrites \/ Acquire \/ AwaitReplaced
  BY <1>10, <1>11 DEF BeginFrame, CollectImages, CollectIndices, FlushWrites, Acquire, AwaitReplaced,
                      residency, main
<1>12. CASE \/ StageUpload \/ UploadsEnd \/ FlushUploads \/ Submit \/ BumpFrameIndex
            \/ DeviceCompletes \/ UNCHANGED vars
  BY <1>10, <1>12 DEF StageUpload, UploadsEnd, FlushUploads, Submit, BumpFrameIndex,
                      DeviceCompletes, vars, residency, main
<1> QED
  BY <1>1, <1>2, <1>3, <1>4, <1>5, <1>6, <1>7, <1>8, <1>9, <1>11, <1>12
     DEF Next, MainStep, RenderStep

-----------------------------------------------------------------------------
(* The retired images.                                                      *)

\* Nothing is retired in the first state.
LEMMA RetiredInit == Init => RetiredInv
BY DEF Init, RetiredInv

\* Whatever is retired is retired with the value of now: the queue stays sorted.
LEMMA RetiredStep ==
  ASSUME IInv, [Next]_vars
  PROVE  RetiredInv'
<1>a. /\ retired \in Seq(Retirement) /\ frame_index \in Nat /\ frame_index \in Value
      /\ timeline_value \in Nat
      /\ phase \in [Image -> {"unborn", "alive", "retired", "destroyed"}]
      /\ \A n \in DOMAIN retired :
           /\ retired[n].image \in Image /\ retired[n].value \in Value /\ retired[n].value \in Nat
           /\ phase[retired[n].image] \in {"retired", "destroyed"}
           /\ retired[n].value <= frame_index
           /\ main_pc = "release_image" => retired[n].value <= release_value
           /\ \A m \in DOMAIN retired : m <= n => retired[m].value <= retired[n].value
  <2>1. retired \in Seq(Retirement)
    BY DEF IInv, RetiredInv
  <2>2. \A n \in DOMAIN retired : retired[n] \in Retirement
    BY <2>1
  <2>3. \A v \in Value : v \in Nat
    BY SizesAssumption DEF Value
  <2>4. \A n \in DOMAIN retired :
          retired[n].image \in Image /\ retired[n].value \in Value /\ retired[n].value \in Nat
    BY <2>2, <2>3 DEF Retirement
  <2>5. /\ frame_index \in Value /\ timeline_value \in Nat
        /\ phase \in [Image -> {"unborn", "alive", "retired", "destroyed"}]
    BY DEF IInv, FrameInv, BirthInv
  <2>6. \A n \in DOMAIN retired :
          /\ phase[retired[n].image] \in {"retired", "destroyed"}
          /\ retired[n].value <= frame_index
          /\ main_pc = "release_image" => retired[n].value <= release_value
          /\ \A m \in DOMAIN retired : m <= n => retired[m].value <= retired[n].value
    BY DEF IInv, RetiredInv
  <2> QED
    BY <2>1, <2>3, <2>4, <2>5, <2>6
<1>1. CASE (\E k \in Keys : CreateStorageImage(k)) \/ StageUpload
  <2>1. /\ NextImage \in Image /\ phase[NextImage] = "unborn"
        /\ phase' = [phase EXCEPT ![NextImage] = "alive"]
    BY <1>1, NewImage
  <2>2. UNCHANGED <<retired, main_pc, release_value, frame_index>>
    BY <1>1 DEF CreateStorageImage, StageUpload, frames, main
  <2>3. \A n \in DOMAIN retired : phase'[retired[n].image] = phase[retired[n].image]
    BY <1>a, <2>1
  <2> QED
    BY <1>a, <2>2, <2>3 DEF RetiredInv
<1>2. CASE ReleaseImage \/ RecordUpload
  <2> DEFINE x == IF main_pc = "release_image" THEN textures[release_key] ELSE Head(taken).index
             value == IF main_pc = "release_image" THEN release_value ELSE frame_index
  <2>1. /\ value \in Value
        /\ image_of[x] = None => UNCHANGED <<phase, retired>>
        /\ image_of[x] # None =>
             image_of[x] \in Image /\ phase[image_of[x]] = "alive" /\ Retire(image_of[x], value)
    BY <1>2, RetireSteps
  <2>2. main_pc' # "release_image" /\ frame_index' = frame_index
    BY <1>2 DEF ReleaseImage, RecordUpload, frames, main, Unlocked
  <2>3. /\ value <= frame_index /\ value \in Nat
        /\ \A n \in DOMAIN retired : retired[n].value <= value
    <3>1. CASE main_pc = "release_image"
      BY <1>a, <2>1, <3>1, SizesAssumption DEF IInv, FrameInv, Value
    <3>2. CASE main_pc # "release_image"
      BY <1>a, <3>2
    <3> QED
      BY <3>1, <3>2
  <2> HIDE DEF value, x
  <2>4. CASE image_of[x] = None
    BY <1>a, <2>1, <2>2, <2>4 DEF RetiredInv
  <2>5. CASE image_of[x] # None
    <3>1. /\ phase'[image_of[x]] = "retired"
          /\ \A i \in Image \ {image_of[x]} : phase'[i] = phase[i]
          /\ retired' \in Seq(Retirement) /\ Len(retired') = Len(retired) + 1
          /\ \A n \in DOMAIN retired' :
               \/ n \in DOMAIN retired /\ retired'[n] = retired[n]
               \/ n = Len(retired) + 1 /\ retired'[n].image = image_of[x] /\ retired'[n].value = value
      BY <2>1, <2>5, RetireFacts DEF IInv
    <3>2. DOMAIN retired = 1..Len(retired) /\ Len(retired) \in Nat
      BY <1>a
    <3>3. ASSUME NEW n \in DOMAIN retired'
          PROVE  /\ phase'[retired'[n].image] \in {"retired", "destroyed"}
                 /\ retired'[n].value <= frame_index
                 /\ \A m \in DOMAIN retired' : m <= n => retired'[m].value <= retired'[n].value
      <4>1. CASE n \in DOMAIN retired /\ retired'[n] = retired[n]
        <5>1. \A m \in DOMAIN retired' : m <= n => m \in DOMAIN retired /\ retired'[m] = retired[m]
          BY <3>1, <3>2, <4>1
        <5> QED
          BY <1>a, <3>1, <4>1, <5>1
      <4>2. CASE n = Len(retired) + 1 /\ retired'[n].image = image_of[x] /\ retired'[n].value = value
        <5>1. \A m \in DOMAIN retired' : retired'[m].value <= value
          BY <2>3, <3>1
        <5> QED
          BY <2>3, <3>1, <4>2, <5>1
      <4> QED
        BY <3>1, <4>1, <4>2
    <3> QED
      BY <2>2, <3>1, <3>3 DEF RetiredInv
  <2> QED
    BY <2>4, <2>5
<1>3. CASE CollectImages
  <2>1. PICK n \in Nat :
          /\ retired' \in Seq(Retirement)
          /\ \A m \in DOMAIN retired' : m + n \in DOMAIN retired /\ retired'[m] = retired[m + n]
          /\ \A i \in Image : phase'[i] # phase[i] => phase'[i] = "destroyed"
    BY <1>3, <1>a, CollectFacts DEF IInv
  <2>2. UNCHANGED <<main_pc, release_value, frame_index>>
    BY <1>3 DEF CollectImages, frames, main
  <2>3. \A m \in DOMAIN retired' : m \in Nat
    BY <2>1
  <2>4. ASSUME NEW m \in DOMAIN retired'
        PROVE  /\ phase'[retired'[m].image] \in {"retired", "destroyed"}
               /\ retired'[m].value <= frame_index
               /\ main_pc = "release_image" => retired'[m].value <= release_value
               /\ \A l \in DOMAIN retired' : l <= m => retired'[l].value <= retired'[m].value
    <3>1. m + n \in DOMAIN retired /\ retired'[m] = retired[m + n]
      BY <2>1
    <3>2. \A l \in DOMAIN retired' : l <= m => l + n \in DOMAIN retired /\ l + n <= m + n
      BY <2>1, <2>3
    <3> QED
      BY <1>a, <2>1, <3>1, <3>2
  <2> QED
    BY <2>1, <2>2, <2>4 DEF RetiredInv
<1>4. ASSUME NEW k \in Keys, ReleaseBegins(k) PROVE RetiredInv'
  BY <1>4, <1>a DEF ReleaseBegins, RetiredInv, frames, pool
<1>5. CASE ReleaseIndex
  BY <1>5, <1>a DEF ReleaseIndex, RetiredInv, frames, pool
<1>6. CASE BumpFrameIndex
  <2>1. /\ frame_index' = frame_index + 1 /\ UNCHANGED <<retired, phase, main_pc, release_value>>
    BY <1>6 DEF BumpFrameIndex, pool, main
  <2>2. \A n \in DOMAIN retired : retired[n].value <= frame_index'
    BY <1>a, <2>1
  <2> QED
    BY <1>a, <2>1, <2>2 DEF RetiredInv
<1>7. ASSUME UNCHANGED <<retired, phase, main_pc, release_value, frame_index>> PROVE RetiredInv'
  BY <1>a, <1>7 DEF RetiredInv
<1>8. CASE \/ \E k \in Keys : Load(k) \/ Reimport(k)
           \/ Prepare \/ BeginFrame \/ CollectIndices \/ FlushWrites \/ Acquire
  BY <1>7, <1>8 DEF Load, Reimport, Prepare, BeginFrame, CollectIndices, FlushWrites, Acquire,
                    frames, pool, main
<1>9. CASE TakeUploads \/ AwaitReplaced \/ UploadsEnd \/ FlushUploads
  BY <1>7, <1>9 DEF TakeUploads, AwaitReplaced, UploadsEnd, FlushUploads, frames, pool, main
<1>10. CASE Submit \/ DeviceCompletes \/ UNCHANGED vars
  BY <1>7, <1>10 DEF Submit, DeviceCompletes, vars, frames, pool, main
<1> QED
  BY <1>1, <1>2, <1>3, <1>4, <1>5, <1>6, <1>8, <1>9, <1>10 DEF Next, MainStep, RenderStep

-----------------------------------------------------------------------------
(* The images the indices are known under.                                  *)

\* What the named images are, as facts a step starts from.
LEMMA NameFacts ==
  ASSUME IInv
  PROVE  /\ image_of \in [Index -> OptImage] /\ resident_frame \in [Index -> OptFrame]
         /\ descriptor \in [Index -> OptImage] /\ writes \in Seq(Write)
         /\ phase \in [Image -> {"unborn", "alive", "retired", "destroyed"}]
         /\ content \in [Image -> Keys \cup {None}] /\ textures \in [Keys -> OptIndex]
         /\ \A i \in Image : i # None
         /\ \A x \in Index : x # None
         /\ \A n \in DOMAIN writes : writes[n].image \in Image /\ phase[writes[n].image] # "unborn"
         /\ \A x \in Index :
              /\ Final(x) \in OptImage /\ (Final(x) # None => phase[Final(x)] # "unborn")
              /\ descriptor[x] # None => phase[descriptor[x]] # "unborn"
              /\ image_of[x] # None <=> resident_frame[x] # None
              /\ image_of[x] # None =>
                   /\ image_of[x] \in Image /\ Final(x) \in Image
                   /\ phase[image_of[x]] = "alive" /\ phase[Final(x)] = "alive"
                   /\ \E k \in Keys :
                        textures[k] = x /\ content[image_of[x]] = k /\ content[Final(x)] = k
                   /\ \A y \in Index \ {x} : image_of[x] # image_of[y] /\ image_of[x] # Final(y)
<1>1. /\ image_of \in [Index -> OptImage] /\ resident_frame \in [Index -> OptFrame]
      /\ descriptor \in [Index -> OptImage] /\ writes \in Seq(Write)
      /\ phase \in [Image -> {"unborn", "alive", "retired", "destroyed"}]
      /\ content \in [Image -> Keys \cup {None}] /\ textures \in [Keys -> OptIndex]
  BY DEF IInv, NameInv, BirthInv, IndexInv
<1>2. (\A i \in Image : i # None) /\ \A x \in Index : x # None
  BY SizesAssumption DEF Image, Index
<1>3. \A n \in DOMAIN writes : writes[n] \in Write
  BY <1>1
<1>4. \A n \in DOMAIN writes : writes[n].image \in Image /\ phase[writes[n].image] # "unborn"
  BY <1>3 DEF Write, IInv, NameInv
<1>5. ASSUME NEW x \in Index
      PROVE  Final(x) \in OptImage /\ (Final(x) # None => phase[Final(x)] # "unborn")
  <2>1. Final(x) = descriptor[x] \/ \E n \in DOMAIN writes : Final(x) = writes[n].image
    BY <1>1, AppliedFacts DEF Final
  <2> QED
    BY <1>1, <1>4, <2>1 DEF OptImage, IInv, NameInv
<1>6. \A x \in Index : image_of[x] # None => image_of[x] \in Image /\ Final(x) \in Image /\ Final(x) # None
  BY <1>1, <1>5 DEF IInv, NameInv, OptImage
<1> QED
  BY <1>1, <1>2, <1>4, <1>5, <1>6 DEF IInv, NameInv

\* Nothing is known in the first state.
LEMMA NameInit == Init => NameInv
<1> SUFFICES ASSUME Init PROVE NameInv
  OBVIOUS
<1>1. /\ image_of = [i \in Index |-> None] /\ resident_frame = [i \in Index |-> None]
      /\ descriptor = [i \in Index |-> None] /\ writes = << >> /\ main_pc = "update"
  BY DEF Init
<1> QED
  BY <1>1 DEF NameInv, OptImage, OptFrame

\* create_storage_image() makes a new image known under an index that was nobody's.
LEMMA CreateNames ==
  ASSUME IInv, NEW k \in Keys, CreateStorageImage(k)
  PROVE  NameInv'
<1>a. /\ NextImage \in Image /\ phase[NextImage] = "unborn"
      /\ phase' = [phase EXCEPT ![NextImage] = "alive"]
  BY NewImage
<1>b. NewIndex \in Index /\ \A l \in Keys : textures[l] # NewIndex
  BY AllocateFacts DEF IInv, CreateStorageImage
<1>c. /\ descriptor' \in [Index -> OptImage] /\ writes' = << >>
      /\ \A x \in Index : /\ Final(x)' = IF x = NewIndex THEN NextImage ELSE Final(x)
                          /\ descriptor'[x] = Final(x)'
  BY <1>a, <1>b, CreateFacts DEF IInv
<1>d. /\ textures[k] = None /\ textures' = [textures EXCEPT ![k] = NewIndex]
      /\ content' = [content EXCEPT ![NextImage] = k]
      /\ image_of' = [image_of EXCEPT ![NewIndex] = IF @ = None THEN NextImage ELSE @]
      /\ resident_frame' = [resident_frame EXCEPT ![NewIndex] = IF @ = None THEN 0 ELSE @]
      /\ main_pc = "update" /\ main_pc' = "update"
  BY DEF CreateStorageImage
<1> HIDE DEF NewIndex, NextImage
<1>1. image_of[NewIndex] = None /\ resident_frame[NewIndex] = None
  BY <1>b, NameFacts
<1>2. /\ image_of' \in [Index -> OptImage] /\ image_of'[NewIndex] = NextImage
      /\ \A x \in Index \ {NewIndex} : image_of'[x] = image_of[x]
      /\ resident_frame' \in [Index -> OptFrame] /\ resident_frame'[NewIndex] = 0
      /\ \A x \in Index \ {NewIndex} : resident_frame'[x] = resident_frame[x]
      /\ 0 # None
  BY <1>a, <1>b, <1>d, <1>1, NameFacts, SizesAssumption DEF OptImage, OptFrame
<1>3. /\ \A i \in Image : phase[i] # "unborn" => /\ i # NextImage /\ phase'[i] = phase[i]
                                                 /\ content'[i] = content[i]
      /\ phase'[NextImage] = "alive" /\ content'[NextImage] = k
      /\ textures'[k] = NewIndex /\ \A l \in Keys \ {k} : textures'[l] = textures[l]
  BY <1>a, <1>d, NameFacts
<1>4. ASSUME NEW x \in Index
      PROVE  /\ descriptor'[x] # None => phase'[descriptor'[x]] # "unborn"
             /\ image_of'[x] # None <=> resident_frame'[x] # None
  BY <1>a, <1>b, <1>c, <1>2, <1>3, NameFacts DEF OptImage
<1>5. ASSUME NEW x \in Index, image_of'[x] # None
      PROVE  /\ phase'[image_of'[x]] = "alive" /\ Final(x)' # None /\ phase'[Final(x)'] = "alive"
             /\ \E l \in Keys :
                  textures'[l] = x /\ content'[image_of'[x]] = l /\ content'[Final(x)'] = l
             /\ \A y \in Index \ {x} : image_of'[x] # image_of'[y] /\ image_of'[x] # Final(y)'
  <2>1. CASE x = NewIndex
    <3>1. \A y \in Index \ {x} : NextImage # image_of[y] /\ NextImage # Final(y)
      BY <1>a, NameFacts
    <3> QED
      BY <1>a, <1>c, <1>2, <1>3, <2>1, <3>1, NameFacts
  <2>2. CASE x # NewIndex
    <3>1. /\ image_of'[x] = image_of[x] /\ Final(x)' = Final(x) /\ image_of[x] # None
          /\ image_of[x] \in Image /\ Final(x) \in Image
          /\ phase[image_of[x]] = "alive" /\ phase[Final(x)] = "alive"
      BY <1>c, <1>2, <1>5, <2>2, NameFacts
    <3>2. PICK l \in Keys : textures[l] = x /\ content[image_of[x]] = l /\ content[Final(x)] = l
      BY <3>1, NameFacts
    <3>3. l # k
      BY <1>d, <3>2, NameFacts
    <3>4. \A y \in Index \ {x} : image_of[x] # image_of[y] /\ image_of[x] # Final(y)
      BY <3>1, NameFacts
    <3>5. \A y \in Index \ {x} : image_of'[x] # image_of'[y] /\ image_of'[x] # Final(y)'
      BY <1>a, <1>c, <1>2, <3>1, <3>4
    <3> QED
      BY <1>3, <3>1, <3>2, <3>3, <3>5, NameFacts
  <2> QED
    BY <2>1, <2>2
<1> QED
  <2>1. writes' \in Seq(Write) /\ \A n \in DOMAIN writes' : phase'[writes'[n].image] # "unborn"
    BY <1>c
  <2> QED
    BY <1>c, <1>d, <1>2, <1>4, <1>5, <2>1 DEF NameInv

\* A staged upload is going to be what its index names, and the index is its texture's.
LEMMA StageNames ==
  ASSUME IInv, StageUpload
  PROVE  NameInv'
<1>a. /\ NextImage \in Image /\ phase[NextImage] = "unborn"
      /\ phase' = [phase EXCEPT ![NextImage] = "alive"]
  BY NewImage
<1> DEFINE x0 == Head(taken).index
           k0 == Head(taken).key
<1>b. /\ Head(taken) \in Upload /\ descriptor' = descriptor /\ writes' \in Seq(Write)
      /\ \A n \in DOMAIN writes' : \/ writes'[n].image = NextImage
                                   \/ \E m \in DOMAIN writes : writes'[n] = writes[m]
      /\ \A x \in Index : Final(x)' = IF x = x0 THEN NextImage ELSE Final(x)
  BY <1>a, StageFacts DEF IInv, BirthInv
<1>c. x0 \in Index /\ k0 \in Keys /\ textures[k0] = x0
  <2>1. taken \in Seq(Upload) /\ taken # << >>
    BY DEF IInv, BirthInv, StageUpload
  <2>2. 1 \in DOMAIN taken /\ Head(taken) = taken[1]
    BY <2>1
  <2> QED
    BY <1>b, <2>2 DEF Upload, IInv, RequestInv
<1>d. /\ content' = [content EXCEPT ![NextImage] = k0]
      /\ UNCHANGED <<image_of, resident_frame, textures, main_pc, release_key>>
  BY DEF StageUpload, residency, main
<1>1. main_pc = "release_index" => image_of[textures[release_key]] = None
  BY DEF IInv, NameInv
<1> HIDE DEF x0, k0, NextImage
<1>2. /\ \A i \in Image : phase[i] # "unborn" => /\ i # NextImage /\ phase'[i] = phase[i]
                                                 /\ content'[i] = content[i]
      /\ phase'[NextImage] = "alive" /\ content'[NextImage] = k0
  BY <1>a, <1>d, NameFacts
<1>3. \A n \in DOMAIN writes' : phase'[writes'[n].image] # "unborn"
  BY <1>b, <1>2, NameFacts
<1>4. ASSUME NEW x \in Index
      PROVE  /\ descriptor'[x] # None => phase'[descriptor'[x]] # "unborn"
             /\ image_of'[x] # None <=> resident_frame'[x] # None
  BY <1>b, <1>d, <1>2, NameFacts DEF OptImage
<1>5. ASSUME NEW x \in Index, image_of'[x] # None
      PROVE  /\ phase'[image_of'[x]] = "alive" /\ Final(x)' # None /\ phase'[Final(x)'] = "alive"
             /\ \E l \in Keys :
                  textures'[l] = x /\ content'[image_of'[x]] = l /\ content'[Final(x)'] = l
             /\ \A y \in Index \ {x} : image_of'[x] # image_of'[y] /\ image_of'[x] # Final(y)'
  <2>1. /\ image_of'[x] = image_of[x] /\ image_of[x] \in Image /\ phase[image_of[x]] = "alive"
        /\ Final(x) \in Image /\ phase[Final(x)] = "alive"
        /\ image_of[x] # NextImage
    BY <1>a, <1>d, <1>5, NameFacts
  <2>2. PICK l \in Keys : textures[l] = x /\ content[image_of[x]] = l /\ content[Final(x)] = l
    BY <2>1, <1>d, <1>5, NameFacts
  <2>3. \A y \in Index \ {x} : image_of[x] # image_of[y] /\ image_of[x] # Final(y)
    BY <1>d, <1>5, NameFacts
  <2>4. \A y \in Index \ {x} : image_of'[x] # image_of'[y] /\ image_of'[x] # Final(y)'
    BY <1>b, <1>d, <2>1, <2>3
  <2>5. CASE x = x0
    <3>1. l = k0
      BY <1>c, <2>2, <2>5, NameFacts DEF IInv, IndexInv
    <3>2. Final(x)' = NextImage
      BY <1>b, <2>5
    <3> QED
      BY <1>a, <1>c, <1>d, <1>2, <2>1, <2>2, <2>4, <2>5, <3>1, <3>2, NameFacts
  <2>6. CASE x # x0
    <3>1. Final(x)' = Final(x)
      BY <1>b, <2>6
    <3> QED
      BY <1>d, <1>2, <2>1, <2>2, <2>4, <3>1, NameFacts
  <2> QED
    BY <2>5, <2>6
<1> QED
  BY <1>b, <1>d, <1>1, <1>3, <1>4, <1>5, NameFacts DEF NameInv

\* What retiring the image of an index does to the images of the others: nothing.
LEMMA RetireNames ==
  ASSUME IInv, NEW x0 \in Index, NEW value \in Value,
         image_of[x0] = None => UNCHANGED <<phase, retired>>,
         image_of[x0] # None => Retire(image_of[x0], value)
  PROVE  /\ \A x \in Index \ {x0} : image_of[x] # None =>
              phase'[image_of[x]] = "alive" /\ phase'[Final(x)] = "alive"
         /\ \A i \in Image : phase[i] # "unborn" => phase'[i] # "unborn"
         /\ \A i \in Image : i # image_of[x0] => phase'[i] = phase[i]
<1>1. CASE image_of[x0] = None
  BY <1>1, NameFacts
<1>2. CASE image_of[x0] # None
  <2>1. image_of[x0] \in Image
    BY <1>2, NameFacts
  <2>2. phase'[image_of[x0]] = "retired" /\ \A i \in Image \ {image_of[x0]} : phase'[i] = phase[i]
    BY <1>2, <2>1, RetireFacts DEF IInv
  <2>3. ASSUME NEW x \in Index \ {x0}, image_of[x] # None
        PROVE  image_of[x] # image_of[x0] /\ Final(x) # image_of[x0]
    BY <1>2, <2>3, NameFacts
  <2> QED
    BY <2>2, <2>3, NameFacts
<1> QED
  BY <1>1, <1>2

\* A finished upload is known under its index, in place of what it replaces.
LEMMA RecordNames ==
  ASSUME IInv, RecordUpload
  PROVE  NameInv'
<1> DEFINE x0 == Head(taken).index
           k0 == Head(taken).key
<1>a. PICK i \in staged :
        /\ \A j \in staged : i >= j
        /\ phase[i] = "alive" /\ content[i] = k0
        /\ \A x \in Index : image_of[x] # i /\ (Final(x) = i <=> x = x0)
  BY DEF IInv, StageInv, RecordUpload
<1>b. i \in Image /\ LastStaged = i
  BY <1>a, LastStagedIs DEF IInv, StageInv
<1>c. x0 \in Index /\ k0 \in Keys /\ textures[k0] = x0
  <2>1. taken \in Seq(Upload) /\ taken # << >>
    BY DEF IInv, BirthInv, RecordUpload
  <2>2. 1 \in DOMAIN taken /\ Head(taken) = taken[1] /\ Head(taken) \in Upload
    BY <2>1
  <2> QED
    BY <2>2 DEF Upload, IInv, RequestInv
<1>d. /\ image_of' = [image_of EXCEPT ![x0] = i]
      /\ resident_frame' = [resident_frame EXCEPT ![x0] = IF @ = None THEN frame_index ELSE @]
      /\ UNCHANGED <<textures, content, writes, descriptor>> /\ main_pc' = "update"
      /\ image_of[x0] = None => UNCHANGED <<phase, retired>>
      /\ image_of[x0] # None => Retire(image_of[x0], frame_index)
      /\ frame_index \in 0..MaxFrames /\ frame_index \in Value /\ frame_index # None
  BY <1>b, SizesAssumption DEF RecordUpload, bindless, main, Unlocked, IInv, FrameInv, Value
<1> HIDE DEF x0, k0
<1>1. /\ \A x \in Index \ {x0} : image_of[x] # None =>
           phase'[image_of[x]] = "alive" /\ phase'[Final(x)] = "alive"
      /\ \A j \in Image : phase[j] # "unborn" => phase'[j] # "unborn"
      /\ \A j \in Image : j # image_of[x0] => phase'[j] = phase[j]
  BY <1>c, <1>d, RetireNames
<1>2. phase'[i] = "alive"
  BY <1>a, <1>b, <1>c, <1>1
<1>3. \A x \in Index : Final(x)' = Final(x)
  BY <1>d DEF Final
<1>4. /\ image_of' \in [Index -> OptImage] /\ image_of'[x0] = i
      /\ \A x \in Index \ {x0} : image_of'[x] = image_of[x]
      /\ resident_frame' \in [Index -> OptFrame] /\ resident_frame'[x0] # None
      /\ \A x \in Index \ {x0} : resident_frame'[x] = resident_frame[x]
  BY <1>b, <1>c, <1>d, NameFacts DEF OptImage, OptFrame
<1>5. \A n \in DOMAIN writes' : phase'[writes'[n].image] # "unborn"
  BY <1>d, <1>1, NameFacts
<1>6. ASSUME NEW x \in Index
      PROVE  /\ descriptor'[x] # None => phase'[descriptor'[x]] # "unborn"
             /\ image_of'[x] # None <=> resident_frame'[x] # None
  BY <1>b, <1>d, <1>1, <1>4, NameFacts DEF OptImage
<1>7. ASSUME NEW x \in Index, image_of'[x] # None
      PROVE  /\ phase'[image_of'[x]] = "alive" /\ Final(x)' # None /\ phase'[Final(x)'] = "alive"
             /\ \E l \in Keys :
                  textures'[l] = x /\ content'[image_of'[x]] = l /\ content'[Final(x)'] = l
             /\ \A y \in Index \ {x} : image_of'[x] # image_of'[y] /\ image_of'[x] # Final(y)'
  <2>1. CASE x = x0
    <3>1. \A y \in Index \ {x} : i # image_of[y] /\ i # Final(y)
      BY <1>a, <2>1
    <3>2. Final(x)' = i
      BY <1>a, <1>3, <2>1
    <3> QED
      BY <1>a, <1>b, <1>c, <1>d, <1>2, <1>3, <1>4, <2>1, <3>1, <3>2, NameFacts
  <2>2. CASE x # x0
    <3>1. image_of'[x] = image_of[x] /\ image_of[x] # None /\ Final(x)' = Final(x)
      BY <1>3, <1>4, <1>7, <2>2
    <3>2. \A y \in Index \ {x} : image_of[x] # image_of[y] /\ image_of[x] # Final(y) /\ image_of[x] # i
      BY <1>a, <3>1, NameFacts
    <3>3. \A y \in Index \ {x} : image_of'[x] # image_of'[y] /\ image_of'[x] # Final(y)'
      BY <1>3, <1>4, <3>1, <3>2
    <3> QED
      BY <1>d, <1>1, <2>2, <3>1, <3>3, NameFacts
  <2> QED
    BY <2>1, <2>2
<1> QED
  BY <1>d, <1>4, <1>5, <1>6, <1>7, NameFacts DEF NameInv

\* A released texture's image is no longer known; the others are as they were.
LEMMA ReleaseNames ==
  ASSUME IInv, ReleaseImage
  PROVE  NameInv'
<1> DEFINE x0 == textures[release_key]
<1>a. /\ x0 \in Index /\ release_value \in Value
      /\ image_of[x0] = None => UNCHANGED <<phase, retired>>
      /\ image_of[x0] # None => Retire(image_of[x0], release_value)
  BY RetireSteps DEF ReleaseImage
<1>b. /\ image_of' = [image_of EXCEPT ![x0] = None]
      /\ resident_frame' = [resident_frame EXCEPT ![x0] = None]
      /\ UNCHANGED <<textures, content, writes, descriptor, release_key>>
      /\ textures'[release_key'] = x0
  BY DEF ReleaseImage, bindless
<1> HIDE DEF x0
<1>1. /\ \A x \in Index \ {x0} : image_of[x] # None =>
           phase'[image_of[x]] = "alive" /\ phase'[Final(x)] = "alive"
      /\ \A j \in Image : phase[j] # "unborn" => phase'[j] # "unborn"
  BY <1>a, RetireNames
<1>2. \A x \in Index : Final(x)' = Final(x)
  BY <1>b DEF Final
<1>3. /\ image_of' \in [Index -> OptImage] /\ image_of'[x0] = None
      /\ \A x \in Index \ {x0} : image_of'[x] = image_of[x]
      /\ resident_frame' \in [Index -> OptFrame] /\ resident_frame'[x0] = None
      /\ \A x \in Index \ {x0} : resident_frame'[x] = resident_frame[x]
  BY <1>a, <1>b, NameFacts DEF OptImage, OptFrame
<1>4. \A n \in DOMAIN writes' : phase'[writes'[n].image] # "unborn"
  BY <1>b, <1>1, NameFacts
<1>5. ASSUME NEW x \in Index
      PROVE  /\ descriptor'[x] # None => phase'[descriptor'[x]] # "unborn"
             /\ image_of'[x] # None <=> resident_frame'[x] # None
  BY <1>b, <1>1, <1>3, NameFacts DEF OptImage
<1>6. ASSUME NEW x \in Index, image_of'[x] # None
      PROVE  /\ phase'[image_of'[x]] = "alive" /\ Final(x)' # None /\ phase'[Final(x)'] = "alive"
             /\ \E l \in Keys :
                  textures'[l] = x /\ content'[image_of'[x]] = l /\ content'[Final(x)'] = l
             /\ \A y \in Index \ {x} : image_of'[x] # image_of'[y] /\ image_of'[x] # Final(y)'
  <2>1. x # x0 /\ image_of'[x] = image_of[x] /\ image_of[x] # None /\ Final(x)' = Final(x)
    BY <1>2, <1>3, <1>6
  <2>2. \A y \in Index \ {x} : image_of'[x] # image_of'[y] /\ image_of'[x] # Final(y)'
    BY <1>2, <1>3, <2>1, NameFacts
  <2> QED
    BY <1>b, <1>1, <2>1, <2>2, NameFacts
<1> QED
  BY <1>b, <1>3, <1>4, <1>5, <1>6, NameFacts DEF NameInv

\* collect() destroys only images no index is known under.
LEMMA CollectNames ==
  ASSUME IInv, CollectImages
  PROVE  /\ NameInv'
         /\ \A i \in Image : phase[i] \in {"unborn", "alive"} => phase'[i] = phase[i]
         /\ \A i \in Image : phase[i] # "unborn" => phase'[i] # "unborn"
<1>1. \A i \in Image : phase'[i] # phase[i] =>
        phase'[i] = "destroyed" /\ \E m \in DOMAIN retired : retired[m].image = i
  BY CollectFacts DEF IInv, FrameInv
<1>2. \A i \in Image : phase[i] \in {"unborn", "alive"} => phase'[i] = phase[i]
  BY <1>1 DEF IInv, RetiredInv
<1>3. \A i \in Image : phase[i] # "unborn" => phase'[i] # "unborn"
  BY <1>1
<1>4. /\ UNCHANGED <<image_of, resident_frame, descriptor, writes, textures, content, main_pc,
                     release_key>>
      /\ \A x \in Index : Final(x)' = Final(x)
  BY DEF CollectImages, residency, bindless, main, Final
<1>5. main_pc = "release_index" => image_of[textures[release_key]] = None
  BY DEF IInv, NameInv
<1>6. \A n \in DOMAIN writes' : phase'[writes'[n].image] # "unborn"
  BY <1>3, <1>4, NameFacts
<1>7. ASSUME NEW x \in Index
      PROVE  /\ descriptor'[x] # None => phase'[descriptor'[x]] # "unborn"
             /\ image_of'[x] # None <=> resident_frame'[x] # None
  BY <1>3, <1>4, NameFacts DEF OptImage
<1>8. ASSUME NEW x \in Index, image_of'[x] # None
      PROVE  /\ phase'[image_of'[x]] = "alive" /\ Final(x)' # None /\ phase'[Final(x)'] = "alive"
             /\ \E l \in Keys :
                  textures'[l] = x /\ content'[image_of'[x]] = l /\ content'[Final(x)'] = l
             /\ \A y \in Index \ {x} : image_of'[x] # image_of'[y] /\ image_of'[x] # Final(y)'
  BY <1>2, <1>4, <1>8, NameFacts
<1> QED
  BY <1>2, <1>3, <1>4, <1>5, <1>6, <1>7, <1>8, NameFacts DEF NameInv

\* Every step keeps the names of the images.
LEMMA NameStep ==
  ASSUME IInv, [Next]_vars
  PROVE  NameInv'
<1>a. main_pc = "release_index" => image_of[textures[release_key]] = None
  BY DEF IInv, NameInv
<1>b. ASSUME UNCHANGED <<image_of, resident_frame, phase, content>>,
             descriptor' \in [Index -> OptImage], writes' \in Seq(Write),
             \A n \in DOMAIN writes' : phase[writes'[n].image] # "unborn",
             \A x \in Index :
               Final(x)' = Final(x) /\ (descriptor'[x] = descriptor[x] \/ descriptor'[x] = Final(x)),
             \A k \in Keys : textures[k] # None /\ image_of[textures[k]] # None => textures'[k] = textures[k],
             main_pc' = "release_index" =>
               main_pc = "release_index" /\ UNCHANGED <<textures, release_key>>
      PROVE  NameInv'
  <2>1. ASSUME NEW x \in Index
        PROVE  /\ descriptor'[x] # None => phase'[descriptor'[x]] # "unborn"
               /\ image_of'[x] # None <=> resident_frame'[x] # None
    BY <1>b, NameFacts
  <2>2. ASSUME NEW x \in Index, image_of'[x] # None
        PROVE  /\ phase'[image_of'[x]] = "alive" /\ Final(x)' # None /\ phase'[Final(x)'] = "alive"
               /\ \E l \in Keys :
                    textures'[l] = x /\ content'[image_of'[x]] = l /\ content'[Final(x)'] = l
               /\ \A y \in Index \ {x} : image_of'[x] # image_of'[y] /\ image_of'[x] # Final(y)'
    <3>1. image_of[x] # None /\ Final(x)' = Final(x)
      BY <1>b, <2>2
    <3>2. PICK l \in Keys : textures[l] = x /\ content[image_of[x]] = l /\ content[Final(x)] = l
      BY <3>1, NameFacts
    <3>3. textures'[l] = x
      BY <1>b, <3>1, <3>2, NameFacts
    <3>4. \A y \in Index \ {x} : image_of'[x] # image_of'[y] /\ image_of'[x] # Final(y)'
      BY <1>b, <3>1, NameFacts
    <3>5. Final(x)' # None /\ phase'[image_of'[x]] = "alive" /\ phase'[Final(x)'] = "alive"
      BY <1>b, <3>1, NameFacts
    <3> QED
      BY <1>b, <3>1, <3>2, <3>3, <3>4, <3>5
  <2>3. main_pc' = "release_index" => image_of'[textures'[release_key']] = None
    BY <1>a, <1>b
  <2> QED
    BY <1>b, <2>1, <2>2, <2>3, NameFacts DEF NameInv
<1>c. ASSUME UNCHANGED <<image_of, resident_frame, phase, content, descriptor, writes>>,
             \A k \in Keys : textures[k] # None /\ image_of[textures[k]] # None => textures'[k] = textures[k],
             main_pc' = "release_index" =>
               main_pc = "release_index" /\ UNCHANGED <<textures, release_key>>
      PROVE  NameInv'
  <2>1. \A x \in Index : Final(x)' = Final(x) /\ descriptor'[x] = descriptor[x]
    BY <1>c DEF Final
  <2> QED
    BY <1>b, <1>c, <2>1, NameFacts
<1>1. ASSUME NEW k \in Keys, Load(k) PROVE NameInv'
  <2>1. /\ UNCHANGED <<image_of, resident_frame, phase, content, descriptor, writes>>
        /\ main_pc' = "update" /\ textures[k] = None
        /\ textures' = [textures EXCEPT ![k] = NewIndex]
    BY <1>1 DEF Load, pool
  <2> QED
    BY <1>c, <2>1, NameFacts
<1>2. ASSUME NEW k \in Keys, CreateStorageImage(k) PROVE NameInv'
  BY <1>2, CreateNames
<1>3. CASE ReleaseIndex
  <2>1. /\ UNCHANGED <<image_of, resident_frame, phase, content, descriptor, writes>>
        /\ main_pc' = "update" /\ main_pc = "release_index"
        /\ textures' = [textures EXCEPT ![release_key] = None]
    BY <1>3 DEF ReleaseIndex, pool
  <2> QED
    BY <1>a, <1>c, <2>1, NameFacts
<1>4. CASE FlushWrites
  <2>1. /\ descriptor' \in [Index -> OptImage] /\ writes' = << >>
        /\ \A x \in Index : descriptor'[x] = Final(x) /\ Final(x)' = Final(x)
    BY <1>4, FlushFacts DEF IInv
  <2>2. UNCHANGED <<image_of, resident_frame, phase, content, textures, main_pc, release_key>>
    BY <1>4 DEF FlushWrites, residency, pool, main
  <2>3. writes' \in Seq(Write) /\ \A n \in DOMAIN writes' : phase[writes'[n].image] # "unborn"
    BY <2>1
  <2> QED
    BY <1>b, <2>1, <2>2, <2>3
<1>5. CASE StageUpload
  BY <1>5, StageNames
<1>6. CASE RecordUpload
  BY <1>6, RecordNames
<1>7. CASE ReleaseImage
  BY <1>7, ReleaseNames
<1>8. CASE CollectImages
  BY <1>8, CollectNames
<1>9. ASSUME NEW k \in Keys, ReleaseBegins(k) PROVE NameInv'
  BY <1>c, <1>9 DEF ReleaseBegins, residency, bindless, pool
<1>10. CASE \/ \E k \in Keys : Reimport(k)
            \/ Prepare \/ BeginFrame \/ CollectIndices \/ Acquire \/ TakeUploads
  BY <1>c, <1>10 DEF Reimport, Prepare, BeginFrame, CollectIndices, Acquire, TakeUploads,
                     residency, bindless, pool, main
<1>11. CASE AwaitReplaced \/ UploadsEnd \/ FlushUploads \/ Submit \/ BumpFrameIndex
  BY <1>c, <1>11 DEF AwaitReplaced, UploadsEnd, FlushUploads, Submit, BumpFrameIndex,
                     residency, bindless, pool, main
<1>12. CASE DeviceCompletes \/ UNCHANGED vars
  BY <1>c, <1>12 DEF DeviceCompletes, vars, residency, bindless, pool, main
<1> QED
  BY <1>1, <1>2, <1>3, <1>4, <1>5, <1>6, <1>7, <1>8, <1>9, <1>10, <1>11, <1>12
     DEF Next, MainStep, RenderStep

-----------------------------------------------------------------------------
(* The image that waits for its record.                                     *)

\* Nothing is staged in the first state.
LEMMA StageInit == Init => StageInv
BY DEF Init, StageInv

\* Between its staging and its record nothing happens to the image.
LEMMA StageStep ==
  ASSUME IInv, [Next]_vars
  PROVE  StageInv'
<1>a. staged \subseteq Image /\ \A i \in staged : phase[i] # "unborn"
  BY DEF IInv, StageInv
<1>1. CASE StageUpload
  <2>1. PICK n \in Nat :
          /\ BornUpTo(n) /\ NextImage = n + 1 /\ NextImage \in Image /\ phase[NextImage] = "unborn"
          /\ phase' = [phase EXCEPT ![NextImage] = "alive"]
    BY <1>1, NewImage
  <2>2. /\ Head(taken) \in Upload
        /\ \A x \in Index : Final(x)' = IF x = Head(taken).index THEN NextImage ELSE Final(x)
    BY <1>1, <2>1, StageFacts DEF IInv, BirthInv
  <2>3. /\ content' = [content EXCEPT ![NextImage] = Head(taken).key]
        /\ staged' = staged \cup {NextImage} /\ UNCHANGED <<taken, image_of>>
    BY <1>1 DEF StageUpload, residency
  <2>4. \A j \in staged : j <= n
    <3>1. \A j \in staged : ~ (j > n) /\ j \in Nat
      BY <1>a, <2>1, SizesAssumption DEF BornUpTo, Image
    <3> QED
      BY <3>1
  <2>5. \A j \in staged' : NextImage >= j
    BY <2>1, <2>3, <2>4, <1>a DEF Image
  <2>6. phase'[NextImage] = "alive" /\ content'[NextImage] = Head(taken').key
    BY <2>1, <2>3, NameFacts
  <2>7. \A x \in Index : image_of'[x] # NextImage /\ (Final(x)' = NextImage <=> x = Head(taken').index)
    BY <2>1, <2>2, <2>3, NameFacts
  <2>8. staged' \subseteq Image /\ \A i \in staged' : phase'[i] # "unborn"
    BY <1>a, <2>1, <2>3, NameFacts
  <2>9. NextImage \in staged'
    BY <2>3
  <2> HIDE DEF NextImage
  <2> QED
    BY <2>5, <2>6, <2>7, <2>8, <2>9 DEF StageInv
<1>2. ASSUME NEW k \in Keys, CreateStorageImage(k) PROVE StageInv'
  <2>1. /\ NextImage \in Image /\ phase[NextImage] = "unborn"
        /\ phase' = [phase EXCEPT ![NextImage] = "alive"]
    BY <1>2, NewImage
  <2>2. NewIndex \in Index /\ \A l \in Keys : textures[l] # NewIndex
    BY <1>2, AllocateFacts DEF IInv, CreateStorageImage
  <2>3. \A x \in Index : Final(x)' = IF x = NewIndex THEN NextImage ELSE Final(x)
    BY <1>2, <2>1, <2>2, CreateFacts DEF IInv
  <2>4. /\ content' = [content EXCEPT ![NextImage] = k]
        /\ image_of' = [image_of EXCEPT ![NewIndex] = IF @ = None THEN NextImage ELSE @]
        /\ UNCHANGED <<staged, render_pc, taken>>
    BY <1>2 DEF CreateStorageImage
  <2> HIDE DEF NextImage, NewIndex
  <2>5. staged' \subseteq Image /\ \A i \in staged' : phase'[i] # "unborn"
    BY <1>a, <2>1, <2>4, NameFacts
  <2>6. ASSUME render_pc = "record"
        PROVE  \E i \in staged :
                 /\ \A j \in staged : i >= j
                 /\ phase'[i] = "alive" /\ content'[i] = Head(taken).key
                 /\ \A x \in Index : image_of'[x] # i /\ (Final(x)' = i <=> x = Head(taken).index)
    <3>1. PICK i \in staged :
            /\ \A j \in staged : i >= j
            /\ phase[i] = "alive" /\ content[i] = Head(taken).key
            /\ \A x \in Index : image_of[x] # i /\ (Final(x) = i <=> x = Head(taken).index)
      BY <2>6 DEF IInv, StageInv
    <3>2. NewIndex # Head(taken).index
      <4>1. taken \in Seq(Upload) /\ taken # << >>
        BY <2>6 DEF IInv, BirthInv
      <4>2. 1 \in DOMAIN taken /\ Head(taken) = taken[1] /\ Head(taken) \in Upload
        BY <4>1
      <4>3. textures[Head(taken).key] = Head(taken).index /\ Head(taken).key \in Keys
        BY <4>2 DEF Upload, IInv, RequestInv
      <4> QED
        BY <2>2, <4>3
    <3>3. i # NextImage /\ i \in Image
      BY <1>a, <2>1
    <3>4. phase'[i] = "alive" /\ content'[i] = Head(taken).key
      BY <2>1, <2>4, <3>1, <3>3, NameFacts
    <3>5. \A x \in Index : image_of'[x] # i
      BY <2>4, <3>1, <3>3, NameFacts
    <3>6. \A x \in Index : Final(x)' = i <=> x = Head(taken).index
      BY <2>3, <3>1, <3>2, <3>3
    <3> QED
      BY <3>1, <3>4, <3>5, <3>6
  <2> QED
    BY <2>4, <2>5, <2>6 DEF StageInv
<1>3. CASE ReleaseImage
  <2> DEFINE x0 == textures[release_key]
  <2>1. /\ x0 \in Index /\ release_value \in Value
        /\ image_of[x0] = None => UNCHANGED <<phase, retired>>
        /\ image_of[x0] # None => Retire(image_of[x0], release_value)
    BY <1>3, RetireSteps DEF ReleaseImage
  <2>2. /\ image_of' = [image_of EXCEPT ![x0] = None]
        /\ UNCHANGED <<staged, render_pc, taken, content, writes, descriptor>>
    BY <1>3 DEF ReleaseImage, bindless
  <2> HIDE DEF x0
  <2>3. /\ \A j \in Image : phase[j] # "unborn" => phase'[j] # "unborn"
        /\ \A j \in Image : j # image_of[x0] => phase'[j] = phase[j]
    BY <2>1, RetireNames
  <2>4. \A x \in Index : Final(x)' = Final(x)
    BY <2>2 DEF Final
  <2>5. \A j \in staged : (\A x \in Index : image_of[x] # j) =>
          phase'[j] = phase[j] /\ \A x \in Index : image_of'[x] # j
    BY <1>a, <2>1, <2>2, <2>3, NameFacts
  <2> QED
    BY <1>a, <2>2, <2>3, <2>4, <2>5 DEF IInv, StageInv
<1>4. ASSUME UNCHANGED <<staged, phase, content, taken, image_of, writes, descriptor>>,
             render_pc' = "record" => render_pc = "record"
      PROVE  StageInv'
  <2>1. \A x \in Index : Final(x)' = Final(x)
    BY <1>4 DEF Final
  <2> QED
    BY <1>4, <2>1 DEF IInv, StageInv
<1>5. ASSUME staged' \subseteq staged, render_pc' # "record",
             \A i \in Image : phase[i] # "unborn" => phase'[i] # "unborn"
      PROVE  StageInv'
  BY <1>a, <1>5 DEF StageInv
<1>6. CASE CollectImages
  BY <1>5, <1>6, CollectNames DEF CollectImages
<1>7. CASE RecordUpload
  <2> DEFINE x0 == Head(taken).index
  <2>1. /\ x0 \in Index /\ frame_index \in Value
        /\ image_of[x0] = None => UNCHANGED <<phase, retired>>
        /\ image_of[x0] # None => Retire(image_of[x0], frame_index)
    BY <1>7, RetireSteps DEF RecordUpload, Unlocked
  <2> HIDE DEF x0
  <2>2. \A j \in Image : phase[j] # "unborn" => phase'[j] # "unborn"
    BY <2>1, RetireNames
  <2>3. staged' = staged /\ render_pc' # "record"
    BY <1>7 DEF RecordUpload
  <2> QED
    BY <1>5, <2>2, <2>3
<1>8. CASE \/ \E k \in Keys : Load(k) \/ Reimport(k) \/ ReleaseBegins(k)
           \/ ReleaseIndex \/ DeviceCompletes \/ UNCHANGED vars
  BY <1>4, <1>8 DEF Load, Reimport, ReleaseBegins, ReleaseIndex, DeviceCompletes, vars, residency,
                    bindless, pool
<1>9. CASE Prepare \/ BeginFrame \/ CollectIndices \/ FlushWrites \/ Acquire \/ TakeUploads
  BY <1>5, <1>9 DEF Prepare, BeginFrame, CollectIndices, FlushWrites, Acquire, TakeUploads, pool
<1>10. CASE AwaitReplaced \/ UploadsEnd \/ FlushUploads \/ Submit \/ BumpFrameIndex
  BY <1>5, <1>10 DEF AwaitReplaced, UploadsEnd, FlushUploads, Submit, BumpFrameIndex, pool
<1> QED
  BY <1>1, <1>2, <1>3, <1>6, <1>7, <1>8, <1>9, <1>10 DEF Next, MainStep, RenderStep

-----------------------------------------------------------------------------
(* What the frames sample.                                                  *)

\* An image that is to outlive a frame that has not completed does.
LEMMA OutlivesStep ==
  ASSUME IInv, [Next]_vars, NEW t, NEW f \in Nat, NEW image \in Image, timeline < f, f <= frame_index,
         main_pc = "release_image" => f <= release_value,
         Outlives(t, f, image)
  PROVE  Outlives(t, f, image)'
<1>a. /\ phase \in [Image -> {"unborn", "alive", "retired", "destroyed"}]
      /\ content \in [Image -> Keys \cup {None}] /\ image # None
      /\ timeline \in Nat /\ timeline_value \in Nat /\ timeline_value <= timeline
      /\ retired \in Seq(Retirement)
  BY NameFacts DEF IInv, FrameInv, RetiredInv
<1>b. \A n \in DOMAIN retired : retired[n].value \in Nat
  <2>1. \A n \in DOMAIN retired : retired[n] \in Retirement
    BY <1>a
  <2> QED
    BY <2>1, SizesAssumption DEF Retirement, Value
<1>c. /\ phase[image] \in {"alive", "retired"} /\ content[image] = t.key
      /\ \A n \in DOMAIN retired : retired[n].image = image => f <= retired[n].value
  BY DEF Outlives
<1>1. CASE (\E k \in Keys : CreateStorageImage(k)) \/ StageUpload
  <2>1. /\ NextImage \in Image /\ phase[NextImage] = "unborn"
        /\ phase' = [phase EXCEPT ![NextImage] = "alive"]
    BY <1>1, NewImage
  <2>2. retired' = retired /\ \E k : content' = [content EXCEPT ![NextImage] = k]
    BY <1>1 DEF CreateStorageImage, StageUpload
  <2> HIDE DEF NextImage
  <2>3. image # NextImage
    BY <1>c, <2>1
  <2>4. phase'[image] = phase[image] /\ content'[image] = content[image]
    BY <1>a, <2>1, <2>2, <2>3
  <2> QED
    BY <1>a, <1>c, <2>2, <2>4 DEF Outlives
<1>2. CASE ReleaseImage \/ RecordUpload
  <2> DEFINE x == IF main_pc = "release_image" THEN textures[release_key] ELSE Head(taken).index
             value == IF main_pc = "release_image" THEN release_value ELSE frame_index
  <2>1. /\ x \in Index /\ value \in Value
        /\ image_of[x] = None => UNCHANGED <<phase, retired>>
        /\ image_of[x] # None =>
             image_of[x] \in Image /\ phase[image_of[x]] = "alive" /\ Retire(image_of[x], value)
    BY <1>2, RetireSteps
  <2>2. f <= value
    OBVIOUS
  <2>3. content' = content
    BY <1>2 DEF ReleaseImage, RecordUpload
  <2> HIDE DEF x, value
  <2>4. CASE image_of[x] = None
    BY <1>a, <1>c, <2>1, <2>3, <2>4 DEF Outlives
  <2>5. CASE image_of[x] # None
    <3>1. /\ phase'[image_of[x]] = "retired"
          /\ \A i \in Image \ {image_of[x]} : phase'[i] = phase[i]
          /\ \A n \in DOMAIN retired' :
               \/ n \in DOMAIN retired /\ retired'[n] = retired[n]
               \/ n = Len(retired) + 1 /\ retired'[n].image = image_of[x] /\ retired'[n].value = value
      BY <2>1, <2>5, RetireFacts DEF IInv
    <3>2. \A n \in DOMAIN retired' : retired'[n].image = image => f <= retired'[n].value
      BY <1>c, <2>2, <3>1
    <3>3. phase'[image] \in {"alive", "retired"}
      BY <1>c, <3>1
    <3> QED
      BY <1>a, <1>c, <2>3, <3>2, <3>3 DEF Outlives
  <2> QED
    BY <2>4, <2>5
<1>3. CASE CollectImages
  <2>1. PICK n \in Nat :
          /\ \A m \in DOMAIN retired' : m + n \in DOMAIN retired /\ retired'[m] = retired[m + n]
          /\ \A i \in Image : phase'[i] # phase[i] =>
               \E m \in DOMAIN retired : retired[m].image = i /\ retired[m].value <= timeline_value
    BY <1>3, <1>a, CollectFacts DEF IInv
  <2>2. phase'[image] = phase[image]
    BY <1>a, <1>b, <1>c, <2>1
  <2>3. content' = content
    BY <1>3 DEF CollectImages
  <2>4. \A m \in DOMAIN retired' : retired'[m].image = image => f <= retired'[m].value
    BY <1>c, <2>1
  <2> QED
    BY <1>a, <1>c, <2>2, <2>3, <2>4 DEF Outlives
<1>4. ASSUME UNCHANGED <<phase, content, retired>> PROVE Outlives(t, f, image)'
  BY <1>a, <1>c, <1>4 DEF Outlives
<1>5. CASE \/ \E k \in Keys : Load(k) \/ Reimport(k) \/ ReleaseBegins(k)
           \/ ReleaseIndex \/ Prepare \/ BeginFrame \/ CollectIndices \/ FlushWrites
  BY <1>4, <1>5 DEF Load, Reimport, ReleaseBegins, ReleaseIndex, Prepare, BeginFrame,
                    CollectIndices, FlushWrites, pool
<1>6. CASE Acquire \/ TakeUploads \/ AwaitReplaced \/ UploadsEnd \/ FlushUploads
  BY <1>4, <1>6 DEF Acquire, TakeUploads, AwaitReplaced, UploadsEnd, FlushUploads, pool
<1>7. CASE Submit \/ BumpFrameIndex \/ DeviceCompletes \/ UNCHANGED vars
  BY <1>4, <1>7 DEF Submit, BumpFrameIndex, DeviceCompletes, vars, pool
<1> QED
  BY <1>1, <1>2, <1>3, <1>5, <1>6, <1>7 DEF Next, MainStep, RenderStep

\* An index stays with its texture, or retired, until the frames that sample it have completed.
LEMMA HeldStep ==
  ASSUME IInv, [Next]_vars, NEW t \in Upload, NEW f \in Nat, timeline < f, f <= frame_index,
         Held(t, f)
  PROVE  Held(t, f)'
<1>a. /\ textures \in [Keys -> OptIndex] /\ t.key \in Keys /\ t.index \in Index /\ t.index # None
      /\ retired_indices \subseteq [index : Index, value : Value]
      /\ timeline \in Nat /\ timeline_value \in Nat /\ timeline_value <= timeline
      /\ frame_index \in Value
  BY NameFacts DEF IInv, FrameInv, IndexInv, Upload
<1>1. ASSUME NEW k \in Keys, Load(k) \/ CreateStorageImage(k) PROVE Held(t, f)'
  <2>1. /\ textures[k] = None /\ textures' = [textures EXCEPT ![k] = NewIndex]
        /\ retired_indices' = retired_indices
    BY <1>1 DEF Load, CreateStorageImage
  <2> QED
    BY <1>a, <2>1 DEF Held
<1>2. CASE ReleaseIndex
  <2>1. /\ textures' = [textures EXCEPT ![release_key] = None]
        /\ retired_indices' =
             retired_indices \cup {[index |-> textures[release_key], value |-> frame_index]}
    BY <1>2 DEF ReleaseIndex
  <2>2. CASE textures[t.key] = t.index /\ t.key = release_key
    <3> DEFINE r == [index |-> textures[release_key], value |-> frame_index]
    <3>0. r \in retired_indices' /\ r.index = t.index /\ f <= r.value
      BY <2>1, <2>2
    <3>1. \E q \in retired_indices' : q.index = t.index /\ f <= q.value
      BY <3>0
    <3> QED
      BY <3>1 DEF Held
  <2>3. CASE textures[t.key] = t.index /\ t.key # release_key
    BY <1>a, <2>1, <2>3 DEF Held
  <2>4. CASE \E r \in retired_indices : r.index = t.index /\ f <= r.value
    BY <2>1, <2>4 DEF Held
  <2> QED
    BY <2>2, <2>3, <2>4 DEF Held
<1>3. CASE CollectIndices
  <2>1. /\ retired_indices' = retired_indices \ {r \in retired_indices : r.value <= timeline_value}
        /\ textures' = textures
    BY <1>3 DEF CollectIndices, residency
  <2>2. \A r \in retired_indices : f <= r.value => r \in retired_indices'
    <3>1. \A r \in retired_indices : r.value \in Nat
      BY <1>a, SizesAssumption DEF Value
    <3> QED
      BY <1>a, <2>1, <3>1
  <2> QED
    BY <2>1, <2>2 DEF Held
<1>4. ASSUME UNCHANGED <<textures, retired_indices>> PROVE Held(t, f)'
  BY <1>4 DEF Held
<1>5. CASE \/ \E k \in Keys : Reimport(k) \/ ReleaseBegins(k)
           \/ ReleaseImage \/ Prepare \/ DeviceCompletes \/ UNCHANGED vars
  BY <1>4, <1>5 DEF Reimport, ReleaseBegins, ReleaseImage, Prepare, DeviceCompletes, vars,
                    residency, bindless
<1>6. CASE BeginFrame \/ CollectImages \/ FlushWrites \/ Acquire \/ TakeUploads \/ AwaitReplaced
  BY <1>4, <1>6 DEF BeginFrame, CollectImages, FlushWrites, Acquire, TakeUploads, AwaitReplaced,
                    residency, bindless
<1>7. CASE StageUpload \/ RecordUpload \/ UploadsEnd \/ FlushUploads \/ Submit \/ BumpFrameIndex
  BY <1>4, <1>7 DEF StageUpload, RecordUpload, UploadsEnd, FlushUploads, Submit, BumpFrameIndex,
                    residency, bindless
<1> QED
  BY <1>1, <1>2, <1>3, <1>5, <1>6, <1>7 DEF Next, MainStep, RenderStep

\* What an index names changes to a new image of its own texture only.
LEMMA SampledStep ==
  ASSUME IInv, [Next]_vars, NEW t \in Upload, NEW f \in Nat, timeline < f, f <= frame_index,
         main_pc = "release_image" => f <= release_value,
         Sampled(t, f)
  PROVE  /\ Sampled(t, f)'
         /\ FlushWrites \/ Outlives(t, f, descriptor[t.index]) => Outlives(t, f, descriptor[t.index])'
<1>a. /\ t.index \in Index /\ t.key \in Keys /\ Held(t, f) /\ Held(t, f)'
      /\ Outlives(t, f, Final(t.index))
  BY HeldStep DEF Sampled, Upload
<1>b. \A image \in Image : Outlives(t, f, image) => Outlives(t, f, image)'
  BY OutlivesStep
<1>c. Final(t.index) \in Image
  BY <1>a, NameFacts DEF Outlives, OptImage
<1>d. PICK image \in Image : image = Final(t.index)
  BY <1>c
<1>e. Outlives(t, f, image)'
  <2>1. Outlives(t, f, image)
    BY <1>a, <1>d
  <2> QED
    BY <1>b, <2>1
<1>f. Outlives(t, f, descriptor[t.index]) => descriptor[t.index] \in Image
  BY <1>a, NameFacts DEF Outlives, OptImage
<1>g. ASSUME Final(t.index)' = Final(t.index),
             descriptor'[t.index] = Final(t.index) \/ (descriptor' = descriptor /\ ~FlushWrites)
      PROVE  /\ Sampled(t, f)'
             /\ FlushWrites \/ Outlives(t, f, descriptor[t.index]) => Outlives(t, f, descriptor[t.index])'
  <2>1. Sampled(t, f)'
    BY <1>a, <1>d, <1>e, <1>g DEF Sampled, Outlives
  <2>2. CASE descriptor'[t.index] = Final(t.index)
    BY <1>d, <1>e, <2>1, <2>2 DEF Outlives
  <2>3. CASE descriptor' = descriptor /\ ~FlushWrites
    <3>1. ASSUME Outlives(t, f, descriptor[t.index]) PROVE Outlives(t, f, descriptor[t.index])'
      <4>1. PICK i \in Image : i = descriptor[t.index]
        BY <1>f, <3>1
      <4>2. Outlives(t, f, i)
        BY <3>1, <4>1
      <4>3. Outlives(t, f, i)'
        BY <1>b, <4>2
      <4> QED
        BY <2>3, <4>1, <4>3 DEF Outlives
    <3> QED
      BY <2>1, <2>3, <3>1
  <2> QED
    BY <1>g, <2>2, <2>3
<1>1. ASSUME NEW k \in Keys, CreateStorageImage(k)
      PROVE  Final(t.index)' = Final(t.index) /\ descriptor'[t.index] = Final(t.index)
  <2>1. NextImage \in Image
    BY <1>1, NewImage
  <2>2. /\ NewIndex \in Index /\ \A l \in Keys : textures[l] # NewIndex
        /\ \A r \in retired_indices : r.index # NewIndex
    BY <1>1, AllocateFacts DEF IInv, CreateStorageImage
  <2>3. /\ Final(t.index)' = IF t.index = NewIndex THEN NextImage ELSE Final(t.index)
        /\ descriptor'[t.index] = Final(t.index)'
    BY <1>1, <1>a, <2>1, <2>2, CreateFacts DEF IInv
  <2>4. t.index # NewIndex
    BY <1>a, <2>2 DEF Held
  <2> QED
    BY <2>3, <2>4
<1>2. CASE FlushWrites
  <2>1. Final(t.index)' = Final(t.index) /\ descriptor'[t.index] = Final(t.index)
    BY <1>2, <1>a, FlushFacts DEF IInv
  <2> QED
    BY <1>g, <2>1
<1>3. CASE StageUpload
  <2>1. /\ NextImage \in Image /\ phase[NextImage] = "unborn"
        /\ phase' = [phase EXCEPT ![NextImage] = "alive"]
    BY <1>3, NewImage
  <2>2. /\ Head(taken) \in Upload /\ descriptor' = descriptor
        /\ Final(t.index)' = IF t.index = Head(taken).index THEN NextImage ELSE Final(t.index)
    BY <1>3, <1>a, <2>1, StageFacts DEF IInv, BirthInv
  <2>3. content' = [content EXCEPT ![NextImage] = Head(taken).key] /\ retired' = retired
    BY <1>3 DEF StageUpload
  <2>4. ~FlushWrites
    BY <1>3 DEF StageUpload, FlushWrites
  <2>5. CASE t.index # Head(taken).index
    BY <1>g, <2>2, <2>4, <2>5
  <2>6. CASE t.index = Head(taken).index
    <3>1. textures[Head(taken).key] = t.index /\ Head(taken).key \in Keys
      <4>1. taken \in Seq(Upload) /\ taken # << >>
        BY <1>3 DEF IInv, BirthInv, StageUpload
      <4>2. 1 \in DOMAIN taken /\ Head(taken) = taken[1]
        BY <4>1
      <4> QED
        BY <2>2, <2>6, <4>2 DEF Upload, IInv, RequestInv
    <3>2. textures[t.key] = t.index
      BY <1>a, <3>1, NameFacts DEF Held, IInv, IndexInv
    <3>3. t.key = Head(taken).key
      BY <1>a, <3>1, <3>2, NameFacts DEF IInv, IndexInv
    <3>4. \A n \in DOMAIN retired : retired[n].image # NextImage
      BY <2>1 DEF IInv, RetiredInv
    <3>5. PICK i \in Image : i = NextImage
      BY <2>1
    <3>6. /\ phase'[i] = "alive" /\ content'[i] = t.key /\ i # None
          /\ \A n \in DOMAIN retired' : retired'[n].image # i
      BY <2>1, <2>3, <3>3, <3>4, <3>5, NameFacts
    <3>7. Final(t.index)' = i
      BY <2>2, <2>6, <3>5
    <3>8. Sampled(t, f)'
      BY <1>a, <3>6, <3>7 DEF Sampled, Outlives
    <3>9. ASSUME Outlives(t, f, descriptor[t.index]) PROVE Outlives(t, f, descriptor[t.index])'
      <4>1. PICK j \in Image : j = descriptor[t.index]
        BY <1>f, <3>9
      <4>2. Outlives(t, f, j)
        BY <3>9, <4>1
      <4>3. Outlives(t, f, j)'
        BY <1>b, <4>2
      <4> QED
        BY <2>2, <4>1, <4>3 DEF Outlives
    <3> QED
      BY <2>4, <3>8, <3>9
  <2> QED
    BY <2>5, <2>6
<1>4. ASSUME UNCHANGED <<writes, descriptor>>, ~FlushWrites
      PROVE  /\ Sampled(t, f)'
             /\ FlushWrites \/ Outlives(t, f, descriptor[t.index]) => Outlives(t, f, descriptor[t.index])'
  <2>1. Final(t.index)' = Final(t.index)
    BY <1>4 DEF Final
  <2> QED
    BY <1>g, <1>4, <2>1
<1>5. CASE ~FlushWrites /\ ~StageUpload /\ ~ \E k \in Keys : CreateStorageImage(k)
  <2>1. CASE \/ \E k \in Keys : Load(k) \/ Reimport(k) \/ ReleaseBegins(k)
             \/ ReleaseImage \/ ReleaseIndex \/ Prepare \/ BeginFrame \/ CollectImages
    BY <1>4, <1>5, <2>1 DEF Load, Reimport, ReleaseBegins, ReleaseImage, ReleaseIndex, Prepare,
                            BeginFrame, CollectImages, bindless
  <2>2. CASE CollectIndices \/ Acquire \/ TakeUploads \/ AwaitReplaced \/ RecordUpload \/ UploadsEnd
    BY <1>4, <1>5, <2>2 DEF CollectIndices, Acquire, TakeUploads, AwaitReplaced, RecordUpload,
                            UploadsEnd, bindless
  <2>3. CASE FlushUploads \/ Submit \/ BumpFrameIndex \/ DeviceCompletes \/ UNCHANGED vars
    BY <1>4, <1>5, <2>3 DEF FlushUploads, Submit, BumpFrameIndex, DeviceCompletes, vars, bindless
  <2> QED
    BY <1>5, <2>1, <2>2, <2>3 DEF Next, MainStep, RenderStep
<1> QED
  BY <1>1, <1>2, <1>3, <1>5, <1>g

\* No frame samples anything in the first state.
LEMMA SampleInit == Init => SampleInv
<1> SUFFICES ASSUME Init PROVE SampleInv
  OBVIOUS
<1>1. /\ packet = {} /\ flight = [f \in Frame |-> {}] /\ timeline = 0 /\ submitted = 0
  BY DEF Init
<1>2. InFlight = {}
  BY <1>1 DEF InFlight
<1> QED
  BY <1>1, <1>2 DEF SampleInv

\* A frame is prepared from textures whose images are theirs and alive.
LEMMA PrepareSamples ==
  ASSUME IInv, Prepare, NEW t \in packet'
  PROVE  t \in Upload /\ Sampled(t, frame_index)
<1>1. PICK k \in Keys : Resident(k) /\ t = [index |-> textures[k], key |-> k]
  BY DEF Prepare
<1>2. textures[k] \in Index /\ t.index = textures[k] /\ t.key = k /\ t \in Upload
  BY <1>1, NameFacts DEF Resident, OptIndex, Upload
<1>3. image_of[t.index] # None
  BY <1>1, <1>2, NameFacts DEF Resident
<1>4. PICK l \in Keys : textures[l] = t.index /\ content[Final(t.index)] = l
  BY <1>2, <1>3, NameFacts
<1>5. l = k
  BY <1>2, <1>4, NameFacts DEF IInv, IndexInv
<1>6. Final(t.index) \in Image /\ phase[Final(t.index)] = "alive"
  BY <1>2, <1>3, NameFacts
<1>7. \A n \in DOMAIN retired : retired[n].image # Final(t.index)
  BY <1>6 DEF IInv, RetiredInv
<1>8. Final(t.index) # None
  BY <1>6, NameFacts
<1> QED
  BY <1>2, <1>4, <1>5, <1>6, <1>7, <1>8 DEF Sampled, Held, Outlives

\* Every step keeps what the frames sample.
LEMMA SampleStep ==
  ASSUME IInv, [Next]_vars
  PROVE  SampleInv'
<1>a. /\ frame_index \in Nat /\ frame_index \in Value /\ timeline \in Nat
      /\ submitted = IF render_pc = "bump" THEN frame_index ELSE frame_index - 1
      /\ timeline <= submitted
      /\ render_pc # "idle" => frame_index <= MaxFrames
      /\ main_pc = "release_image" =>
           /\ submitted <= release_value /\ release_value \in Nat
           /\ render_pc # "idle" => release_value = frame_index
      /\ packet \subseteq Upload /\ flight \in [Frame -> SUBSET Upload]
      /\ render_pc \in FrameIdle => packet = {}
  BY SizesAssumption DEF IInv, FrameInv, SampleInv, Value
<1>b. \A f \in InFlight : f \in Nat /\ f \in Frame /\ timeline < f /\ f <= submitted
  <2>1. submitted <= MaxFrames /\ submitted \in Nat
    BY <1>a, SizesAssumption DEF Value
  <2> QED
    BY <1>a, <2>1, SizesAssumption DEF InFlight, Frame
\* What a frame in flight samples stays as it is, whatever the step.
<1>1. ASSUME NEW f \in InFlight, NEW t \in flight[f]
      PROVE  /\ t \in Upload /\ Sampled(t, f)'
             /\ Outlives(t, f, descriptor[t.index])'
  <2>1. /\ f \in Nat /\ timeline < f /\ f <= frame_index
        /\ main_pc = "release_image" => f <= release_value
    BY <1>a, <1>b
  <2>2. t \in Upload /\ Sampled(t, f) /\ Outlives(t, f, descriptor[t.index])
    BY <1>a, <1>b DEF IInv, SampleInv
  <2> QED
    BY <2>1, <2>2, SampledStep
\* And so does what the prepared frame samples.
<1>2. ASSUME NEW t \in packet
      PROVE  /\ t \in Upload /\ Sampled(t, frame_index)
             /\ \E f \in Nat :
                  /\ f = frame_index /\ Sampled(t, f)'
                  /\ FlushWrites \/ render_pc \notin BeforeWrites => Outlives(t, f, descriptor[t.index])'
  <2>1. render_pc \notin FrameIdle /\ t \in Upload /\ Sampled(t, frame_index)
    BY <1>a DEF IInv, SampleInv
  <2>2. PICK f \in Nat : f = frame_index
    BY <1>a
  <2>3. /\ timeline < f /\ f <= frame_index
        /\ main_pc = "release_image" => f <= release_value
    BY <1>a, <2>1, <2>2 DEF FrameIdle
  <2>4. render_pc \notin BeforeWrites => Outlives(t, f, descriptor[t.index])
    BY <2>2 DEF IInv, SampleInv
  <2>5. Sampled(t, f)
    BY <2>1, <2>2
  <2> QED
    BY <2>1, <2>2, <2>3, <2>4, <2>5, SampledStep
\* A step that neither submits, completes nor prepares a frame.
<1>3. ASSUME UNCHANGED <<flight, submitted, timeline>>
      PROVE  /\ flight' \in [Frame -> SUBSET Upload]
             /\ \A f \in InFlight' : \A t \in flight'[f] :
                  Sampled(t, f)' /\ Outlives(t, f, descriptor[t.index])'
  <2>1. InFlight' = InFlight
    BY <1>3 DEF InFlight
  <2> QED
    BY <1>a, <1>1, <1>3, <2>1
<1>4. ASSUME UNCHANGED <<flight, submitted, timeline>>, packet' = {}
      PROVE  SampleInv'
  BY <1>3, <1>4 DEF SampleInv
<1>5. ASSUME UNCHANGED <<packet, frame_index>>, render_pc' \in FrameIdle => render_pc \in FrameIdle,
             render_pc' \notin BeforeWrites => FlushWrites \/ render_pc \notin BeforeWrites
      PROVE  /\ packet' \subseteq Upload /\ (render_pc' \in FrameIdle => packet' = {})
             /\ \A t \in packet' :
                  /\ Sampled(t, frame_index)'
                  /\ render_pc' \notin BeforeWrites => Outlives(t, frame_index, descriptor[t.index])'
  <2>1. ASSUME NEW t \in packet'
        PROVE  /\ Sampled(t, frame_index)'
               /\ render_pc' \notin BeforeWrites => Outlives(t, frame_index, descriptor[t.index])'
    <3>1. t \in packet
      BY <1>5, <2>1
    <3>2. PICK f \in Nat :
            /\ f = frame_index /\ Sampled(t, f)'
            /\ FlushWrites \/ render_pc \notin BeforeWrites => Outlives(t, f, descriptor[t.index])'
      BY <1>2, <3>1
    <3>3. frame_index' = f
      BY <1>5, <3>2
    <3> QED
      BY <1>5, <3>2, <3>3 DEF Sampled, Held, Outlives
  <2> QED
    BY <1>a, <1>5, <2>1
<1>6. ASSUME UNCHANGED <<flight, submitted, timeline, packet, frame_index>>,
             render_pc' \in FrameIdle => render_pc \in FrameIdle,
             render_pc' \notin BeforeWrites => FlushWrites \/ render_pc \notin BeforeWrites
      PROVE  SampleInv'
  BY <1>3, <1>5, <1>6 DEF SampleInv
<1>7. CASE Prepare
  <2>1. /\ UNCHANGED <<flight, submitted, timeline, frame_index>> /\ render_pc' = "begin"
    BY <1>7 DEF Prepare
  <2>2. UNCHANGED <<textures, retired_indices, phase, content, retired, writes, descriptor>>
    BY <1>7 DEF Prepare, bindless, pool
  <2>3. ASSUME NEW t \in packet' PROVE t \in Upload /\ Sampled(t, frame_index)'
    <3>1. t \in Upload /\ Sampled(t, frame_index)
      BY <1>7, PrepareSamples
    <3> QED
      BY <2>1, <2>2, <3>1 DEF Sampled, Held, Outlives, Final
  <2> QED
    BY <1>3, <2>1, <2>3 DEF SampleInv, FrameIdle, BeforeWrites
<1>8. CASE Acquire
  <2>1. /\ UNCHANGED <<flight, submitted, timeline, frame_index>> /\ render_pc = "acquire"
        /\ (render_pc' = "take" /\ packet' = packet) \/ packet' = {}
    BY <1>8 DEF Acquire
  <2> QED
    BY <1>4, <1>6, <2>1 DEF FrameIdle, BeforeWrites
<1>9. CASE Submit
  <2>1. /\ render_pc = "submit" /\ submitted' = frame_index /\ timeline' = timeline
        /\ flight' = [flight EXCEPT ![frame_index] = packet] /\ packet' = {}
        /\ ~FlushWrites /\ frame_index \in Frame
    BY <1>9, <1>a, SizesAssumption DEF Submit, FlushWrites, Frame, Value
  <2>2. flight' \in [Frame -> SUBSET Upload]
    BY <1>a, <2>1
  <2>3. ASSUME NEW f \in InFlight', NEW t \in flight'[f]
        PROVE  Sampled(t, f)' /\ Outlives(t, f, descriptor[t.index])'
    <3>1. CASE f = frame_index
      <4>1. t \in packet
        BY <1>a, <2>1, <2>3, <3>1
      <4>2. render_pc \notin BeforeWrites
        BY <2>1 DEF BeforeWrites
      <4>3. PICK g \in Nat : g = frame_index /\ Sampled(t, g)' /\ Outlives(t, g, descriptor[t.index])'
        BY <1>2, <4>1, <4>2
      <4> QED
        BY <3>1, <4>3
    <3>2. CASE f # frame_index
      <4>1. f \in InFlight
        BY <1>a, <2>1, <2>3, <3>2, SizesAssumption DEF InFlight
      <4>2. t \in flight[f]
        BY <1>a, <1>b, <2>1, <2>3, <3>2, <4>1
      <4> QED
        BY <1>1, <4>1, <4>2
    <3> QED
      BY <3>1, <3>2
  <2> QED
    BY <2>1, <2>2, <2>3 DEF SampleInv
<1>10. CASE BumpFrameIndex
  <2>1. UNCHANGED <<flight, submitted, timeline, packet>> /\ packet = {}
    BY <1>10, <1>a DEF BumpFrameIndex, FrameIdle
  <2> QED
    BY <1>4, <2>1
<1>11. CASE DeviceCompletes
  <2>1. /\ timeline < submitted /\ timeline' = timeline + 1
        /\ flight' = [flight EXCEPT ![timeline + 1] = {}]
        /\ UNCHANGED <<submitted, packet, frame_index, render_pc>>
    BY <1>11 DEF DeviceCompletes
  <2>2. timeline + 1 \in InFlight /\ timeline + 1 \in Frame
    BY <1>a, <1>b, <2>1, SizesAssumption DEF InFlight, Value
  <2>3. flight' \in [Frame -> SUBSET Upload]
    BY <1>a, <2>1, <2>2
  <2>4. ASSUME NEW f \in InFlight', NEW t \in flight'[f]
        PROVE  Sampled(t, f)' /\ Outlives(t, f, descriptor[t.index])'
    <3>1. f \in InFlight /\ f # timeline + 1
      BY <1>a, <2>1, <2>4, SizesAssumption DEF InFlight, Value
    <3>2. t \in flight[f]
      BY <1>a, <1>b, <2>1, <2>4, <3>1
    <3> QED
      BY <1>1, <3>1, <3>2
  <2> QED
    BY <1>5, <2>1, <2>3, <2>4 DEF SampleInv
<1>12. CASE \E k \in Keys : Load(k) \/ CreateStorageImage(k) \/ Reimport(k) \/ ReleaseBegins(k)
  BY <1>6, <1>12 DEF Load, CreateStorageImage, Reimport, ReleaseBegins, frames
<1>13. CASE ReleaseImage \/ ReleaseIndex \/ UNCHANGED vars
  BY <1>6, <1>13 DEF ReleaseImage, ReleaseIndex, vars, frames
<1>14. CASE BeginFrame \/ CollectImages \/ CollectIndices \/ FlushWrites \/ TakeUploads
  BY <1>6, <1>14 DEF BeginFrame, CollectImages, CollectIndices, FlushWrites, TakeUploads, frames,
                     FrameIdle, BeforeWrites
<1>15. CASE AwaitReplaced \/ StageUpload \/ RecordUpload \/ UploadsEnd \/ FlushUploads
  BY <1>6, <1>15 DEF AwaitReplaced, StageUpload, RecordUpload, UploadsEnd, FlushUploads, frames,
                     FrameIdle, BeforeWrites
<1> QED
  BY <1>7, <1>8, <1>9, <1>10, <1>11, <1>12, <1>13, <1>14, <1>15 DEF Next, MainStep, RenderStep

-----------------------------------------------------------------------------
(* What is queued, when no texture has two requests at a time.              *)

\* A texture is requested once: with the loader, waiting for its upload or being uploaded.
RequestedOnce ==
  /\ \A m, n \in DOMAIN loading : loading[m] = loading[n] => m = n
  /\ \A m, n \in DOMAIN pending : pending[m].key = pending[n].key => m = n
  /\ \A m, n \in DOMAIN taken : taken[m].key = taken[n].key => m = n
  /\ \A m \in DOMAIN loading :
       /\ \A n \in DOMAIN pending : pending[n].key # loading[m]
       /\ \A n \in DOMAIN taken : taken[n].key # loading[m]
  /\ \A m \in DOMAIN pending, n \in DOMAIN taken : pending[m].key # taken[n].key

\* An image to be copied into or written to a descriptor is alive, its texture is not being
\* released, and the batch has no second upload of it.
QueuedImages == staged \cup {writes[n].image : n \in DOMAIN writes}
QueueInv ==
  /\ render_pc \in {"acquire", "take", "check"} => writes = << >>
  /\ render_pc \notin {"stage", "record", "flush_uploads"} => staged = {}
  /\ \A i \in QueuedImages :
       /\ phase[i] = "alive"
       /\ content[i] \in Keys \ created /\ textures[content[i]] # None
       /\ main_pc # "update" => content[i] # release_key
       /\ \A n \in DOMAIN taken : taken[n].key = content[i] =>
            render_pc = "record" /\ n = 1 /\ i \in staged /\ \A j \in staged : i >= j

\* Prepare takes a texture from the loader or leaves it there.
LEMMA PrepareOnce ==
  ASSUME BirthInv, IndexInv, RequestedOnce, Prepare
  PROVE  RequestedOnce'
<1>0. PICK n \in 0..Len(loading) : \E results \in Subsequences(SubSeq(loading, 1, n)) :
        /\ loading' = SubSeq(loading, n + 1, Len(loading))
        /\ pending' = pending \o [m \in 1..Len(results) |->
                                    [index |-> textures[results[m]], key |-> results[m]]]
  BY DEF Prepare
<1> DEFINE head == SubSeq(loading, 1, n)
<1>1. PICK results \in Subsequences(head) :
        /\ loading' = SubSeq(loading, n + 1, Len(loading))
        /\ pending' = pending \o [m \in 1..Len(results) |->
                                    [index |-> textures[results[m]], key |-> results[m]]]
  BY <1>0
<1>2. /\ loading \in Seq(Keys) /\ pending \in Seq(Upload) /\ n \in Nat /\ n <= Len(loading)
      /\ Len(loading) \in Nat /\ Len(pending) \in Nat
      /\ DOMAIN loading = 1..Len(loading) /\ DOMAIN pending = 1..Len(pending)
  BY DEF BirthInv
<1>3. /\ head \in Seq(Keys) /\ Len(head) = n /\ DOMAIN head = 1..n
      /\ \A m \in 1..n : head[m] = loading[m]
  BY <1>2
<1> HIDE DEF head
<1>4. PICK k \in 0..Len(head) :
        \E at \in {f \in [1..k -> DOMAIN head] : \A a, b \in 1..k : a < b => f[a] < f[b]} :
          results = [m \in 1..k |-> head[at[m]]]
  BY DEF Subsequences
<1>5. PICK at \in [1..k -> 1..n] :
        /\ \A a, b \in 1..k : a < b => at[a] < at[b]
        /\ results = [m \in 1..k |-> head[at[m]]]
  BY <1>3, <1>4
<1>6. k \in Nat /\ \A a \in 1..k : at[a] \in 1..n /\ at[a] \in Nat
  BY <1>2, <1>3, <1>5
<1>7. \A a, b \in 1..k : at[a] = at[b] => a = b
  <2> SUFFICES ASSUME NEW a \in 1..k, NEW b \in 1..k, at[a] = at[b], a # b PROVE FALSE
    OBVIOUS
  <2>1. a < b \/ b < a
    BY <1>6
  <2> QED
    BY <1>5, <1>6, <2>1
<1>8. Len(results) = k /\ \A m \in 1..k : results[m] = loading[at[m]]
  <2>1. \A m \in 1..k : results[m] = head[at[m]]
    BY <1>5
  <2>2. results \in [1..k -> Keys]
    BY <1>3, <1>5, <1>6
  <2> QED
    BY <1>3, <1>6, <2>1, <2>2
<1> DEFINE more == [m \in 1..k |-> [index |-> textures[results[m]], key |-> results[m]]]
<1>9. pending' = pending \o more /\ \A m \in 1..k : more[m].key = loading[at[m]]
  BY <1>1, <1>8
<1>10. Len(more) = k /\ DOMAIN more = 1..k
  BY <1>6
<1> DEFINE S == [index : OptIndex, key : Keys]
<1>r. more \in Seq(S) /\ pending \in Seq(S)
  <2>1. Upload \subseteq S
    BY DEF Upload, OptIndex
  <2>2. \A m \in 1..k : results[m] \in Keys
    BY <1>2, <1>8, <1>6
  <2>3. \A m \in 1..k : more[m] \in S
    BY <2>2 DEF IndexInv
  <2>4. pending \in Seq(S)
    <3>1. \A m \in 1..Len(pending) : pending[m] \in Upload
      BY <1>2
    <3>2. \A m \in 1..Len(pending) : pending[m] \in S
      BY <2>1, <3>1
    <3> HIDE DEF S
    <3> QED
      BY <1>2, <3>2
  <2>5. more \in [1..k -> S]
    BY <2>3
  <2> QED
    BY <1>6, <2>4, <2>5
<1> HIDE DEF more, S
<1>11. /\ DOMAIN pending' = 1..(Len(pending) + k)
       /\ \A m \in 1..(Len(pending) + k) :
            pending'[m] = IF m <= Len(pending) THEN pending[m] ELSE more[m - Len(pending)]
  <2>1. DOMAIN (pending \o more) = 1..(Len(pending) + k)
    <3>1. pending \o more \in Seq(S) /\ Len(pending \o more) = Len(pending) + Len(more)
      BY <1>r
    <3>2. DOMAIN (pending \o more) = 1..Len(pending \o more)
      BY <3>1
    <3> QED
      BY <1>10, <3>1, <3>2
  <2>2. \A m \in 1..(Len(pending) + k) :
          (pending \o more)[m] = IF m <= Len(pending) THEN pending[m] ELSE more[m - Len(pending)]
    BY <1>2, <1>6, <1>10, <1>r
  <2> QED
    BY <1>9, <2>1, <2>2
<1>12. \A m \in DOMAIN pending' :
         \/ m \in DOMAIN pending /\ pending'[m].key = pending[m].key
         \/ /\ m - Len(pending) \in 1..k /\ m \in Nat /\ m > Len(pending)
            /\ pending'[m].key = loading[at[m - Len(pending)]]
  <2> SUFFICES ASSUME NEW m \in DOMAIN pending'
               PROVE  \/ m \in DOMAIN pending /\ pending'[m].key = pending[m].key
                      \/ /\ m - Len(pending) \in 1..k /\ m \in Nat /\ m > Len(pending)
                         /\ pending'[m].key = loading[at[m - Len(pending)]]
    OBVIOUS
  <2>1. CASE m <= Len(pending)
    BY <1>2, <1>6, <1>11, <2>1
  <2>2. CASE ~(m <= Len(pending))
    <3>1. m - Len(pending) \in 1..k /\ m \in Nat /\ m > Len(pending)
      BY <1>2, <1>6, <1>11, <2>2
    <3>2. pending'[m] = more[m - Len(pending)]
      BY <1>11, <2>2
    <3> QED
      BY <1>9, <3>1, <3>2
  <2> QED
    BY <2>1, <2>2
<1>13. \A m \in DOMAIN loading' :
         /\ m \in Nat /\ m > 0 /\ m + n \in DOMAIN loading /\ loading'[m] = loading[m + n]
  <2>1. DOMAIN loading' = 1..(Len(loading) - n)
    BY <1>1, <1>2
  <2>2. \A m \in 1..(Len(loading) - n) : loading'[m] = loading[m + n]
    BY <1>1, <1>2
  <2> QED
    BY <1>2, <2>1, <2>2
<1>14. \A a \in 1..k : at[a] \in DOMAIN loading
  BY <1>2, <1>6
<1>15. taken' = taken
  BY DEF Prepare
<1>u. /\ \A a, b \in DOMAIN loading : loading[a] = loading[b] => a = b
      /\ \A a, b \in DOMAIN pending : pending[a].key = pending[b].key => a = b
      /\ \A a \in DOMAIN loading, b \in DOMAIN pending : pending[b].key # loading[a]
  BY DEF RequestedOnce
<1>16. \A l, m \in DOMAIN loading' : loading'[l] = loading'[m] => l = m
  <2> SUFFICES ASSUME NEW l \in DOMAIN loading', NEW m \in DOMAIN loading', loading'[l] = loading'[m]
               PROVE  l = m
    OBVIOUS
  <2>1. l + n = m + n
    BY <1>13 DEF RequestedOnce
  <2> QED
    BY <1>2, <1>13, <2>1
<1>17. \A l, m \in DOMAIN pending' : pending'[l].key = pending'[m].key => l = m
  <2> SUFFICES ASSUME NEW l \in DOMAIN pending', NEW m \in DOMAIN pending',
                      pending'[l].key = pending'[m].key
               PROVE  l = m
    OBVIOUS
  <2>1. CASE l \in DOMAIN pending /\ pending'[l].key = pending[l].key
    <3>1. CASE m \in DOMAIN pending /\ pending'[m].key = pending[m].key
      BY <1>u, <2>1, <3>1
    <3>2. CASE m - Len(pending) \in 1..k /\ pending'[m].key = loading[at[m - Len(pending)]]
      BY <1>14, <1>u, <2>1, <3>2
    <3> QED
      BY <1>12, <3>1, <3>2
  <2>2. CASE /\ l - Len(pending) \in 1..k /\ l \in Nat /\ l > Len(pending)
             /\ pending'[l].key = loading[at[l - Len(pending)]]
    <3>1. CASE m \in DOMAIN pending /\ pending'[m].key = pending[m].key
      BY <1>14, <1>u, <2>2, <3>1
    <3>2. CASE /\ m - Len(pending) \in 1..k /\ m \in Nat /\ m > Len(pending)
               /\ pending'[m].key = loading[at[m - Len(pending)]]
      <4>1. at[l - Len(pending)] = at[m - Len(pending)]
        BY <1>14, <2>2, <3>2 DEF RequestedOnce
      <4>2. l - Len(pending) = m - Len(pending)
        BY <1>7, <2>2, <3>2, <4>1
      <4> QED
        BY <1>2, <2>2, <3>2, <4>2
    <3> QED
      BY <1>12, <3>1, <3>2
  <2> QED
    BY <1>12, <2>1, <2>2
<1>18. \A l \in DOMAIN loading', m \in DOMAIN pending' : pending'[m].key # loading'[l]
  <2> SUFFICES ASSUME NEW l \in DOMAIN loading', NEW m \in DOMAIN pending',
                      pending'[m].key = loading'[l]
               PROVE  FALSE
    OBVIOUS
  <2>1. CASE m \in DOMAIN pending /\ pending'[m].key = pending[m].key
    <3>1. l + n \in DOMAIN loading /\ loading'[l] = loading[l + n]
      BY <1>13
    <3> QED
      BY <1>u, <2>1, <3>1
  <2>2. CASE m - Len(pending) \in 1..k /\ pending'[m].key = loading[at[m - Len(pending)]]
    <3>1. at[m - Len(pending)] = l + n
      BY <1>13, <1>14, <2>2 DEF RequestedOnce
    <3>2. at[m - Len(pending)] <= n /\ at[m - Len(pending)] \in Nat
      BY <1>6, <2>2
    <3> QED
      BY <1>2, <1>13, <3>1, <3>2
  <2> QED
    BY <1>12, <2>1, <2>2
<1>19. \A l \in DOMAIN loading', m \in DOMAIN taken' : taken'[m].key # loading'[l]
  BY <1>13, <1>15 DEF RequestedOnce
<1>20. \A l \in DOMAIN pending', m \in DOMAIN taken' : pending'[l].key # taken'[m].key
  BY <1>12, <1>14, <1>15 DEF RequestedOnce
<1>21. \A l, m \in DOMAIN taken' : taken'[l].key = taken'[m].key => l = m
  BY <1>15 DEF RequestedOnce
<1> QED
  BY <1>16, <1>17, <1>18, <1>19, <1>20, <1>21 DEF RequestedOnce

\* A texture is only requested when it is not, as long as reimports do not overlap.
LEMMA OnceStep ==
  ASSUME IInv, RequestedOnce, [Next]_vars, ~Overlaps
  PROVE  RequestedOnce'
<1>a. loading \in Seq(Keys) /\ pending \in Seq(Upload) /\ taken \in Seq(Upload)
  BY DEF IInv, BirthInv
<1>u. /\ \A m, n \in DOMAIN loading : loading[m] = loading[n] => m = n
      /\ \A m, n \in DOMAIN pending : pending[m].key = pending[n].key => m = n
      /\ \A m, n \in DOMAIN taken : taken[m].key = taken[n].key => m = n
      /\ \A m \in DOMAIN loading, n \in DOMAIN pending : pending[n].key # loading[m]
      /\ \A m \in DOMAIN loading, n \in DOMAIN taken : taken[n].key # loading[m]
      /\ \A m \in DOMAIN pending, n \in DOMAIN taken : pending[m].key # taken[n].key
  BY DEF RequestedOnce
<1>1. ASSUME NEW k \in Keys, Load(k) \/ Reimport(k) PROVE RequestedOnce'
  <2>1. loading' = Append(loading, k) /\ UNCHANGED <<pending, taken>>
    BY <1>1 DEF Load, Reimport
  <2>2. ~Requested(k)
    <3>1. CASE Reimport(k)
      BY <3>1 DEF Reimport
    <3>2. CASE Load(k)
      <4>1. textures[k] = None
        BY <3>2 DEF Load
      <4>2. /\ \A n \in DOMAIN loading : textures[loading[n]] # None
            /\ \A n \in DOMAIN pending : textures[pending[n].key] # None
            /\ \A n \in DOMAIN taken : textures[taken[n].key] # None
        <5>1. /\ \A n \in DOMAIN pending : pending[n].index \in Index
              /\ \A n \in DOMAIN taken : taken[n].index \in Index
          <6>1. /\ \A n \in DOMAIN pending : pending[n] \in Upload
                /\ \A n \in DOMAIN taken : taken[n] \in Upload
            BY <1>a
          <6> QED
            BY <6>1 DEF Upload
        <5>2. \A x \in Index : x # None
          BY SizesAssumption DEF Index
        <5> QED
          BY <5>1, <5>2 DEF IInv, RequestInv
      <4> QED
        BY <4>1, <4>2 DEF Requested
    <3> QED
      BY <1>1, <3>1, <3>2
  <2>3. DOMAIN loading' = 1..(Len(loading) + 1) /\ DOMAIN loading = 1..Len(loading) /\ Len(loading) \in Nat
    BY <1>a, <2>1
  <2>4. \A n \in DOMAIN loading' :
          \/ n \in DOMAIN loading /\ loading'[n] = loading[n]
          \/ n = Len(loading) + 1 /\ loading'[n] = k
    BY <1>a, <2>1
  <2>5. /\ \A n \in DOMAIN loading : loading[n] # k
        /\ \A n \in DOMAIN pending : pending[n].key # k
        /\ \A n \in DOMAIN taken : taken[n].key # k
    BY <2>2 DEF Requested
  <2>6. \A m, n \in DOMAIN loading' : loading'[m] = loading'[n] => m = n
    BY <1>u, <2>4, <2>5
  <2>7. /\ \A m \in DOMAIN loading', n \in DOMAIN pending : pending[n].key # loading'[m]
        /\ \A m \in DOMAIN loading', n \in DOMAIN taken : taken[n].key # loading'[m]
    BY <1>u, <2>4, <2>5
  <2> QED
    BY <1>u, <2>1, <2>6, <2>7 DEF RequestedOnce
<1>2. CASE Prepare
  BY <1>2, PrepareOnce DEF IInv
<1>3. CASE TakeUploads
  <2> DEFINE n == IF Len(pending) < MaxUploads THEN Len(pending) ELSE MaxUploads
  <2>1. n \in Nat /\ n <= Len(pending) /\ Len(pending) \in Nat
    BY <1>a, SizesAssumption
  <2>2. /\ taken' = SubSeq(pending, 1, n) /\ pending' = SubSeq(pending, n + 1, Len(pending))
        /\ loading' = loading
    BY <1>3 DEF TakeUploads
  <2> HIDE DEF n
  <2>3. \A m \in DOMAIN taken' : m \in DOMAIN pending /\ taken'[m] = pending[m] /\ m <= n /\ m \in Nat
    BY <1>a, <2>1, <2>2
  <2>4. \A m \in DOMAIN pending' :
          m + n \in DOMAIN pending /\ pending'[m] = pending[m + n] /\ m \in Nat /\ m > 0
    BY <1>a, <2>1, <2>2
  <2>5. \A l, m \in DOMAIN taken' : taken'[l].key = taken'[m].key => l = m
    BY <1>u, <2>3
  <2>6. \A l, m \in DOMAIN pending' : pending'[l].key = pending'[m].key => l = m
    <3> SUFFICES ASSUME NEW l \in DOMAIN pending', NEW m \in DOMAIN pending',
                        pending'[l].key = pending'[m].key
                 PROVE  l = m
      OBVIOUS
    <3>1. l + n = m + n
      BY <1>u, <2>4
    <3> QED
      BY <2>1, <2>4, <3>1
  <2>7. \A l \in DOMAIN pending', m \in DOMAIN taken' : pending'[l].key # taken'[m].key
    <3> SUFFICES ASSUME NEW l \in DOMAIN pending', NEW m \in DOMAIN taken',
                        pending'[l].key = taken'[m].key
                 PROVE  FALSE
      OBVIOUS
    <3>1. l + n = m
      BY <1>u, <2>3, <2>4
    <3> QED
      BY <2>1, <2>3, <2>4, <3>1
  <2>8. /\ \A l \in DOMAIN loading', m \in DOMAIN pending' : pending'[m].key # loading'[l]
        /\ \A l \in DOMAIN loading', m \in DOMAIN taken' : taken'[m].key # loading'[l]
    <3>1. \A l \in DOMAIN loading, m \in DOMAIN pending' : pending'[m].key # loading[l]
      BY <1>u, <2>4
    <3>2. \A l \in DOMAIN loading, m \in DOMAIN taken' : taken'[m].key # loading[l]
      BY <1>u, <2>3
    <3> QED
      BY <2>2, <3>1, <3>2
  <2>9. \A l, m \in DOMAIN loading' : loading'[l] = loading'[m] => l = m
    BY <1>u, <2>2
  <2> QED
    BY <2>5, <2>6, <2>7, <2>8, <2>9 DEF RequestedOnce
<1>4. CASE RecordUpload
  <2>1. taken # << >> /\ taken' = Tail(taken) /\ UNCHANGED <<loading, pending>>
    BY <1>4 DEF RecordUpload, IInv, BirthInv
  <2>2. \A n \in DOMAIN taken' : n + 1 \in DOMAIN taken /\ taken'[n] = taken[n + 1] /\ n \in Nat
    BY <1>a, <2>1
  <2>3. \A m, n \in DOMAIN taken' : taken'[m].key = taken'[n].key => m = n
    <3> SUFFICES ASSUME NEW m \in DOMAIN taken', NEW n \in DOMAIN taken', taken'[m].key = taken'[n].key
                 PROVE  m = n
      OBVIOUS
    <3>1. m + 1 = n + 1
      BY <1>u, <2>2
    <3> QED
      BY <2>2, <3>1
  <2>4. /\ \A m \in DOMAIN loading', n \in DOMAIN taken' : taken'[n].key # loading'[m]
        /\ \A m \in DOMAIN pending', n \in DOMAIN taken' : pending'[m].key # taken'[n].key
    BY <1>u, <2>1, <2>2
  <2> QED
    BY <1>u, <2>1, <2>3, <2>4 DEF RequestedOnce
<1>5. ASSUME UNCHANGED <<loading, pending, taken>> PROVE RequestedOnce'
  BY <1>u, <1>5 DEF RequestedOnce
<1>6. CASE \E k \in Keys : CreateStorageImage(k) \/ ReleaseBegins(k)
  BY <1>5, <1>6 DEF CreateStorageImage, ReleaseBegins, residency
<1>7. CASE ReleaseImage \/ ReleaseIndex \/ DeviceCompletes \/ UNCHANGED vars
  BY <1>5, <1>7 DEF ReleaseImage, ReleaseIndex, DeviceCompletes, vars, residency
<1>8. CASE BeginFrame \/ CollectImages \/ CollectIndices \/ FlushWrites \/ Acquire \/ AwaitReplaced
  BY <1>5, <1>8 DEF BeginFrame, CollectImages, CollectIndices, FlushWrites, Acquire, AwaitReplaced,
                    residency
<1>9. CASE StageUpload \/ UploadsEnd \/ FlushUploads \/ Submit \/ BumpFrameIndex
  BY <1>5, <1>9 DEF StageUpload, UploadsEnd, FlushUploads, Submit, BumpFrameIndex, residency
<1> QED
  BY <1>1, <1>2, <1>3, <1>4, <1>6, <1>7, <1>8, <1>9 DEF Next, MainStep, RenderStep

\* What is queued stays alive: who retires an image either has its texture released, which is not
\* done while its images are queued, or uploaded a second time, which no batch does.
LEMMA QueueStep ==
  ASSUME IInv, RequestedOnce, QueueInv, [Next]_vars, Releases # "any"
  PROVE  QueueInv'
<1>a. /\ taken \in Seq(Upload) /\ staged \subseteq Image /\ textures \in [Keys -> OptIndex]
      /\ created \subseteq Keys
  BY DEF IInv, BirthInv, StageInv, IndexInv, RequestInv
<1>b. QueuedImages \subseteq Image
  BY <1>a, NameFacts DEF QueuedImages
<1>q. /\ render_pc \in {"acquire", "take", "check"} => writes = << >>
      /\ render_pc \notin {"stage", "record", "flush_uploads"} => staged = {}
      /\ \A i \in QueuedImages :
           /\ phase[i] = "alive" /\ i \in Image
           /\ content[i] \in Keys \ created /\ textures[content[i]] # None
           /\ main_pc # "update" => content[i] # release_key
           /\ \A n \in DOMAIN taken : taken[n].key = content[i] =>
                render_pc = "record" /\ n = 1 /\ i \in staged /\ \A j \in staged : i >= j
  BY <1>b DEF QueueInv
<1>1. ASSUME NEW k \in Keys, Load(k) \/ Reimport(k) PROVE QueueInv'
  <2>1. UNCHANGED <<phase, content, created, taken, staged, writes, main_pc, release_key, render_pc>>
    BY <1>1 DEF Load, Reimport, pool, bindless
  <2>2. \A i \in QueuedImages : textures'[content[i]] # None
    <3>1. CASE Reimport(k)
      BY <1>q, <3>1 DEF Reimport
    <3>2. CASE Load(k)
      <4>1. textures[k] = None /\ textures' = [textures EXCEPT ![k] = NewIndex]
        BY <3>2 DEF Load
      <4>2. \A l \in Keys \ {k} : textures'[l] = textures[l]
        BY <1>a, <4>1
      <4> QED
        BY <1>q, <4>1, <4>2
    <3> QED
      BY <1>1, <3>1, <3>2
  <2> QED
    BY <1>q, <2>1, <2>2 DEF QueueInv, QueuedImages
<1>2. ASSUME NEW k \in Keys, CreateStorageImage(k) PROVE QueueInv'
  <2>1. /\ NextImage \in Image /\ phase[NextImage] = "unborn"
        /\ phase' = [phase EXCEPT ![NextImage] = "alive"]
    BY <1>2, NewImage
  <2>2. /\ textures[k] = None /\ textures' = [textures EXCEPT ![k] = NewIndex]
        /\ content' = [content EXCEPT ![NextImage] = k] /\ writes' = << >>
        /\ created' = created \cup {k} /\ main_pc = "update"
        /\ UNCHANGED <<taken, staged, main_pc, release_key, render_pc>>
    BY <1>2 DEF CreateStorageImage
  <2> HIDE DEF NextImage, NewIndex
  <2>3. QueuedImages' \subseteq QueuedImages
    BY <2>2 DEF QueuedImages
  <2>4. \A i \in QueuedImages : i # NextImage /\ phase'[i] = phase[i] /\ content'[i] = content[i]
    BY <1>q, <2>1, <2>2, NameFacts
  <2>5. \A l \in Keys \ {k} : textures'[l] = textures[l]
    BY <1>a, <2>2
  <2>6. \A i \in QueuedImages : content[i] # k
    BY <1>q, <2>2
  <2>7. \A i \in QueuedImages' :
          /\ phase'[i] = "alive"
          /\ content'[i] \in Keys \ created' /\ textures'[content'[i]] # None
          /\ \A n \in DOMAIN taken : taken[n].key = content'[i] =>
               render_pc = "record" /\ n = 1 /\ i \in staged /\ \A j \in staged : i >= j
    BY <1>q, <2>2, <2>3, <2>4, <2>5, <2>6
  <2> QED
    BY <1>q, <2>2, <2>7 DEF QueueInv
<1>3. ASSUME NEW k \in Keys, ReleaseBegins(k) PROVE QueueInv'
  <2>1. /\ MayRelease(k) /\ release_key' = k
        /\ UNCHANGED <<phase, content, textures, created, taken, staged, writes, render_pc>>
    BY <1>3 DEF ReleaseBegins, residency, pool, bindless
  <2>2. \A i \in QueuedImages : content[i] # k
    <3>1. CASE k \in created
      BY <1>q, <3>1
    <3>2. CASE ~Queued(k)
      BY <3>2 DEF Queued, QueuedImages
    <3> QED
      BY <2>1, <3>1, <3>2 DEF MayRelease
  <2> QED
    BY <1>q, <2>1, <2>2 DEF QueueInv, QueuedImages
<1>4. ASSUME UNCHANGED <<content, textures, created, taken, staged, writes, release_key, render_pc>>,
             main_pc' # "update" => main_pc # "update",
             \A i \in QueuedImages : phase'[i] = "alive"
      PROVE  QueueInv'
  BY <1>q, <1>4 DEF QueueInv, QueuedImages
<1>5. CASE ReleaseImage
  <2>1. main_pc = "release_image" /\ UNCHANGED <<content, textures, created, taken, staged, writes,
                                                 release_key, render_pc>>
    BY <1>5 DEF ReleaseImage, bindless
  <2> DEFINE x == textures[release_key]
  <2>2. /\ x \in Index
        /\ image_of[x] = None => UNCHANGED <<phase, retired>>
        /\ image_of[x] # None => image_of[x] \in Image /\ Retire(image_of[x], release_value)
    BY <1>5, <2>1, RetireSteps
  <2>3. release_key \in Keys
    BY <2>1 DEF IInv, RequestInv
  <2>4. ASSUME NEW i \in QueuedImages PROVE phase'[i] = "alive"
    <3>1. CASE image_of[x] = None
      BY <1>q, <2>2, <3>1
    <3>2. CASE image_of[x] # None
      <4>1. PICK k \in Keys : textures[k] = x /\ content[image_of[x]] = k
        BY <2>2, <3>2, NameFacts
      <4>2. k = release_key
        BY <2>2, <2>3, <4>1, NameFacts DEF IInv, IndexInv
      <4>3. i # image_of[x]
        BY <1>q, <2>1, <4>1, <4>2
      <4>4. phase' = [phase EXCEPT ![image_of[x]] = "retired"]
        BY <2>2, <3>2 DEF Retire
      <4> QED
        BY <1>q, <4>3, <4>4, NameFacts
    <3> QED
      BY <3>1, <3>2
  <2> QED
    BY <1>4, <2>1, <2>4
<1>6. CASE ReleaseIndex
  <2>1. /\ main_pc # "update" /\ main_pc' = "update"
        /\ textures' = [textures EXCEPT ![release_key] = None]
        /\ created' = created \ {release_key}
        /\ UNCHANGED <<phase, content, taken, staged, writes, render_pc>>
    BY <1>6 DEF ReleaseIndex, pool
  <2>2. \A l \in Keys : l # release_key => textures'[l] = textures[l]
    BY <1>a, <2>1
  <2>3. \A i \in QueuedImages : content[i] \in Keys \ created' /\ textures'[content[i]] # None
    BY <1>q, <2>1, <2>2
  <2> QED
    BY <1>q, <2>1, <2>3 DEF QueueInv, QueuedImages
<1>7. CASE CollectImages
  <2>1. /\ render_pc = "collect" /\ render_pc' = "collect_indices"
        /\ UNCHANGED <<content, textures, created, taken, staged, writes, main_pc, release_key>>
    BY <1>7 DEF CollectImages, residency, bindless, main
  <2>2. \A i \in Image : phase'[i] # phase[i] => \E m \in DOMAIN retired : retired[m].image = i
    BY <1>7, CollectFacts DEF IInv, FrameInv
  <2>3. \A m \in DOMAIN retired : phase[retired[m].image] \in {"retired", "destroyed"}
    BY DEF IInv, RetiredInv
  <2>4. \A i \in QueuedImages : phase'[i] = "alive"
    BY <1>q, <2>2, <2>3
  <2> QED
    BY <1>q, <2>1, <2>4 DEF QueueInv, QueuedImages
<1>8. CASE FlushWrites
  <2>1. /\ render_pc = "flush_writes" /\ render_pc' = "acquire" /\ writes' = << >> /\ UNCHANGED staged
    BY <1>8 DEF FlushWrites
  <2>2. staged' = {}
    BY <1>q, <2>1
  <2>3. QueuedImages' = {}
    BY <2>1, <2>2 DEF QueuedImages
  <2> QED
    BY <2>1, <2>2, <2>3 DEF QueueInv
<1>9. CASE TakeUploads \/ AwaitReplaced
  <2>1. /\ render_pc \in {"take", "check"} /\ UNCHANGED <<staged, writes>>
    BY <1>9 DEF TakeUploads, AwaitReplaced, bindless
  <2>2. staged' = {} /\ writes' = << >>
    BY <1>q, <2>1
  <2>3. QueuedImages' = {}
    BY <2>2 DEF QueuedImages
  <2> QED
    BY <2>2, <2>3 DEF QueueInv
<1>10. CASE StageUpload
  <2>1. PICK n \in Nat :
          /\ BornUpTo(n) /\ NextImage = n + 1 /\ NextImage \in Image /\ phase[NextImage] = "unborn"
          /\ phase' = [phase EXCEPT ![NextImage] = "alive"]
    BY <1>10, NewImage
  <2>2. /\ render_pc = "stage" /\ render_pc' = "record" /\ taken # << >>
        /\ content' = [content EXCEPT ![NextImage] = Head(taken).key]
        /\ staged' = staged \cup {NextImage}
        /\ UNCHANGED <<taken, textures, created, main_pc, release_key>>
    BY <1>10 DEF StageUpload, residency, main
  <2>3. \A m \in DOMAIN writes' : \/ writes'[m].image = NextImage
                                  \/ \E l \in DOMAIN writes : writes'[m] = writes[l]
    BY <1>10, <2>1, StageFacts DEF IInv, BirthInv
  <2>4. \A j \in staged' : NextImage >= j
    <3>1. \A j \in staged : ~ (j > n) /\ j \in Nat
      BY <1>a, <2>1, SizesAssumption DEF IInv, StageInv, BornUpTo, Image
    <3> QED
      BY <2>1, <2>2, <3>1
  <2>5. 1 \in DOMAIN taken /\ Head(taken) = taken[1] /\ taken[1] \in Upload /\ taken[1].key \in Keys
    <3>1. 1 \in DOMAIN taken /\ Head(taken) = taken[1] /\ taken[1] \in Upload
      BY <1>a, <2>2
    <3> QED
      BY <3>1 DEF Upload
  <2> HIDE DEF NextImage
  <2>6. QueuedImages' \subseteq QueuedImages \cup {NextImage}
    BY <2>2, <2>3 DEF QueuedImages
  <2>7. \A i \in QueuedImages : i # NextImage /\ phase'[i] = phase[i] /\ content'[i] = content[i]
    BY <1>q, <2>1, <2>2, NameFacts
  <2>8. phase'[NextImage] = "alive" /\ content'[NextImage] = taken[1].key
    BY <2>1, <2>2, <2>5, NameFacts
  <2>9. /\ taken[1].key \in Keys \ created /\ textures[taken[1].key] # None
        /\ main_pc # "update" => taken[1].key # release_key
    <3>1. textures[taken[1].key] = taken[1].index /\ taken[1].key \notin created
      BY <2>5 DEF IInv, RequestInv
    <3>2. taken[1].index # None
      BY <2>5, SizesAssumption DEF Upload, Index
    <3>3. main_pc # "update" => ~Requested(release_key)
      BY DEF IInv, RequestInv
    <3> QED
      BY <2>5, <3>1, <3>2, <3>3 DEF Requested
  <2>10. \A m \in DOMAIN taken : taken[m].key = taken[1].key => m = 1
    BY <2>5 DEF RequestedOnce
  <2>11. NextImage \in staged'
    BY <2>2
  <2>12. \A i \in QueuedImages' :
           /\ phase'[i] = "alive"
           /\ content'[i] \in Keys \ created /\ textures[content'[i]] # None
           /\ main_pc # "update" => content'[i] # release_key
           /\ \A m \in DOMAIN taken : taken[m].key = content'[i] =>
                m = 1 /\ i \in staged' /\ \A j \in staged' : i >= j
    <3>1. ASSUME NEW i \in QueuedImages
          PROVE  \A m \in DOMAIN taken : taken[m].key # content'[i]
      BY <1>q, <2>2, <2>7
    <3> QED
      BY <1>q, <2>4, <2>6, <2>7, <2>8, <2>9, <2>10, <2>11, <3>1
  <2> QED
    BY <2>2, <2>12 DEF QueueInv
<1>11. CASE RecordUpload
  <2>1. /\ render_pc = "record" /\ render_pc' = "stage" /\ main_pc = "update" /\ taken # << >>
        /\ taken' = Tail(taken)
        /\ UNCHANGED <<textures, content, staged, writes, created, main_pc, release_key>>
    BY <1>11 DEF RecordUpload, main, bindless, Unlocked, IInv, BirthInv
  <2> DEFINE x == Head(taken).index
  <2>2. /\ x \in Index
        /\ image_of[x] = None => UNCHANGED <<phase, retired>>
        /\ image_of[x] # None => image_of[x] \in Image /\ Retire(image_of[x], frame_index)
    BY <1>11, <2>1, RetireSteps
  <2>3. /\ 1 \in DOMAIN taken /\ Head(taken) = taken[1] /\ taken[1].key \in Keys
        /\ textures[taken[1].key] = x
    <3>1. 1 \in DOMAIN taken /\ Head(taken) = taken[1] /\ taken[1] \in Upload
      BY <1>a, <2>1
    <3> QED
      BY <3>1 DEF Upload, IInv, RequestInv
  <2>4. PICK l \in staged : (\A j \in staged : l >= j) /\ \A y \in Index : image_of[y] # l
    BY <2>1 DEF IInv, StageInv
  <2>5. ASSUME NEW i \in QueuedImages, image_of[x] # None PROVE i # image_of[x]
    <3> SUFFICES ASSUME i = image_of[x] PROVE FALSE
      OBVIOUS
    <3>1. PICK k \in Keys : textures[k] = x /\ content[image_of[x]] = k
      BY <2>2, <2>5, NameFacts
    <3>2. k = taken[1].key
      BY <2>2, <2>3, <3>1, NameFacts DEF IInv, IndexInv
    <3>3. i \in staged /\ \A j \in staged : i >= j
      BY <1>q, <2>3, <3>1, <3>2
    <3>4. i = l
      <4>1. i \in Int /\ l \in Int
        BY <1>a, <3>3, SizesAssumption DEF Image
      <4> QED
        BY <2>4, <3>3, <4>1
    <3> QED
      BY <2>2, <2>4, <3>4
  <2>6. \A i \in QueuedImages : phase'[i] = "alive"
    <3>1. CASE image_of[x] = None
      BY <1>q, <2>2, <3>1
    <3>2. CASE image_of[x] # None
      <4>1. phase' = [phase EXCEPT ![image_of[x]] = "retired"]
        BY <2>2, <3>2 DEF Retire
      <4> QED
        BY <1>q, <2>5, <3>2, <4>1, NameFacts
    <3> QED
      BY <3>1, <3>2
  <2>7. \A n \in DOMAIN taken' : n + 1 \in DOMAIN taken /\ taken'[n] = taken[n + 1] /\ n + 1 # 1
    BY <1>a, <2>1
  <2>8. \A i \in QueuedImages, n \in DOMAIN taken' : taken'[n].key # content[i]
    BY <1>q, <2>7
  <2> QED
    BY <1>q, <2>1, <2>6, <2>8 DEF QueueInv, QueuedImages
<1>12. CASE Prepare \/ BeginFrame \/ CollectIndices \/ Acquire \/ Submit \/ BumpFrameIndex
  <2>1. UNCHANGED <<phase, content, textures, created, taken, staged, writes, main_pc, release_key>>
    BY <1>12 DEF Prepare, BeginFrame, CollectIndices, Acquire, Submit, BumpFrameIndex, residency, pool,
                 bindless, main
  <2>2. /\ render_pc \notin {"stage", "record", "flush_uploads"}
        /\ render_pc' \notin {"stage", "record", "flush_uploads", "check"}
        /\ render_pc' \in {"acquire", "take"} => render_pc = "acquire"
    BY <1>12 DEF Prepare, BeginFrame, CollectIndices, Acquire, Submit, BumpFrameIndex
  <2> QED
    BY <1>q, <2>1, <2>2 DEF QueueInv, QueuedImages
<1>13. CASE UploadsEnd
  <2>1. /\ render_pc = "stage" /\ render_pc' = "flush_uploads"
        /\ UNCHANGED <<phase, content, textures, created, taken, staged, writes, main_pc, release_key>>
    BY <1>13 DEF UploadsEnd, residency, pool, bindless, main
  <2> QED
    BY <1>q, <2>1 DEF QueueInv, QueuedImages
<1>14. CASE FlushUploads
  <2>1. /\ render_pc = "flush_uploads" /\ render_pc' = "submit" /\ staged' = {}
        /\ UNCHANGED <<phase, content, textures, created, taken, writes, main_pc, release_key>>
    BY <1>14 DEF FlushUploads, residency, pool, bindless, main
  <2>2. QueuedImages' \subseteq QueuedImages
    BY <2>1 DEF QueuedImages
  <2> QED
    BY <1>q, <2>1, <2>2 DEF QueueInv
<1>15. CASE DeviceCompletes \/ UNCHANGED vars
  <2>1. UNCHANGED <<phase, content, textures, created, taken, staged, writes, main_pc, release_key,
                    render_pc>>
    BY <1>15 DEF DeviceCompletes, vars, residency, pool, bindless, main
  <2> QED
    BY <1>4, <1>q, <2>1
<1> QED
  BY <1>1, <1>2, <1>3, <1>5, <1>6, <1>7, <1>8, <1>9, <1>10, <1>11, <1>12, <1>13, <1>14, <1>15
     DEF Next, MainStep, RenderStep

-----------------------------------------------------------------------------
(* The theorems.  All of them assume that scripts release only what         *)
(* create_storage_image made, or what is resident and has no request or     *)
(* copy under way; reimports may overlap each other, but in the last one.   *)

\* The inductive invariant holds in every reachable state.
THEOREM IInvHolds ==
  ASSUME Releases # "any"
  PROVE  Spec => []IInv
<1>1. Init => IInv
  BY FrameInit, BirthInit, IndexInit, RequestInit, NameInit, StageInit, RetiredInit, SampleInit
     DEF IInv
<1>2. IInv /\ [Next]_vars => IInv'
  <2> SUFFICES ASSUME IInv, [Next]_vars PROVE IInv'
    OBVIOUS
  <2>1. FrameInv' /\ BirthInv' /\ IndexInv' /\ RequestInv'
    BY FrameStep, BirthStep, IndexStep, RequestStep
  <2>2. NameInv' /\ StageInv' /\ RetiredInv' /\ SampleInv'
    BY NameStep, StageStep, RetiredStep, SampleStep
  <2> QED
    BY <2>1, <2>2 DEF IInv
<1> QED
  BY <1>1, <1>2, PTL DEF Spec

\* Every variable has its type, and the frame counters are in order.
THEOREM TypeCorrect ==
  ASSUME Releases # "any"
  PROVE  Spec => []TypeOK
<1>1. IInv => TypeOK
  <2> SUFFICES ASSUME IInv PROVE TypeOK
    OBVIOUS
  <2>1. Value = Frame \cup {MaxFrames + 1}
    BY SizesAssumption DEF Value, Frame
  <2>2. /\ frame_index \in 1..(MaxFrames + 1) /\ submitted \in {frame_index - 1, frame_index}
        /\ timeline \in 0..submitted /\ timeline_value \in 0..timeline
    BY SizesAssumption DEF IInv, FrameInv, Value
  <2>3. /\ textures \in [Keys -> OptIndex] /\ image_of \in [Index -> OptImage]
        /\ resident_frame \in [Index -> OptFrame]
        /\ loading \in Seq(Keys) /\ pending \in Seq(Upload) /\ taken \in Seq(Upload)
        /\ phase \in [Image -> {"unborn", "alive", "retired", "destroyed"}]
        /\ content \in [Image -> Keys \cup {None}]
    BY DEF IInv, IndexInv, NameInv, BirthInv
  <2>4. /\ next_index \in 0..Capacity /\ free_indices \in Seq(Index)
        /\ retired_indices \subseteq [index : Index, value : Frame \cup {MaxFrames + 1}]
    BY <2>1 DEF IInv, IndexInv
  <2>5. retired \in Seq([image : Image, value : Frame \cup {MaxFrames + 1}])
    BY <2>1 DEF IInv, RetiredInv, Retirement
  <2>6. writes \in Seq([index : Index, image : Image]) /\ descriptor \in [Index -> OptImage]
    BY DEF IInv, NameInv, Write
  <2>7. staged \subseteq Image /\ packet \subseteq Upload /\ flight \in [Frame -> SUBSET Upload]
    BY DEF IInv, StageInv, SampleInv
  <2>8. /\ main_pc \in {"update", "release_image", "release_index"}
        /\ created \subseteq Keys /\ release_key \in Keys \cup {None}
        /\ release_value \in Frame \cup {MaxFrames + 1, None}
    BY <2>1 DEF IInv, FrameInv, RequestInv
  <2> QED
    BY <2>2, <2>3, <2>4, <2>5, <2>6, <2>7, <2>8 DEF TypeOK
<1> QED
  BY <1>1, IInvHolds, PTL

\* No frame in flight samples a destroyed image.
THEOREM LiveImages ==
  ASSUME Releases # "any"
  PROVE  Spec => []FramesSampleLiveImages
<1>1. IInv => FramesSampleLiveImages
  BY DEF IInv, SampleInv, Outlives, FramesSampleLiveImages
<1> QED
  BY <1>1, IInvHolds, PTL

\* Nor another texture's pixels.
THEOREM TheirTextures ==
  ASSUME Releases # "any"
  PROVE  Spec => []FramesSampleTheirTextures
<1>1. IInv => FramesSampleTheirTextures
  BY DEF IInv, SampleInv, Outlives, FramesSampleTheirTextures
<1> QED
  BY <1>1, IInvHolds, PTL

\* A resident texture has an image of its own, which is alive.
THEOREM ResidentTextures ==
  ASSUME Releases # "any"
  PROVE  Spec => []ResidentIsUploaded
<1>1. ASSUME IInv, NEW k \in Keys, Resident(k)
      PROVE  LET image == image_of[textures[k]]
             IN image # None /\ phase[image] = "alive" /\ content[image] = k
  <2>1. textures[k] \in Index /\ resident_frame[textures[k]] # None
    BY <1>1, NameFacts DEF Resident, OptIndex
  <2>2. image_of[textures[k]] # None /\ phase[image_of[textures[k]]] = "alive"
    BY <1>1, <2>1, NameFacts
  <2>3. PICK l \in Keys : textures[l] = textures[k] /\ content[image_of[textures[k]]] = l
    BY <1>1, <2>1, <2>2, NameFacts
  <2>4. l = k
    BY <1>1, <2>1, <2>3, NameFacts DEF IInv, IndexInv
  <2> QED
    BY <2>2, <2>3, <2>4
<1>2. IInv => ResidentIsUploaded
  BY <1>1 DEF ResidentIsUploaded
<1> QED
  BY <1>2, IInvHolds, PTL

\* The values in the queue of retired images never decrease.
THEOREM RetiredOrder ==
  ASSUME Releases # "any"
  PROVE  Spec => []RetireOrdered
<1>1. ASSUME IInv, NEW n \in 1..(Len(retired) - 1)
      PROVE  retired[n].value <= retired[n + 1].value
  <2>1. retired \in Seq(Retirement)
    BY <1>1 DEF IInv, RetiredInv
  <2>2. n \in DOMAIN retired /\ n + 1 \in DOMAIN retired /\ n <= n + 1
    BY <2>1
  <2> QED
    BY <1>1, <2>2 DEF IInv, RetiredInv
<1>2. IInv => RetireOrdered
  BY <1>1 DEF RetireOrdered
<1> QED
  BY <1>2, IInvHolds, PTL

\* A frame that is recorded shares its slot with no frame in flight.
THEOREM SlotsReusable ==
  ASSUME Releases # "any"
  PROVE  Spec => []SlotReusable
<1>1. ASSUME NEW a \in Nat, NEW b \in Nat, NEW m \in Nat \ {0}, a < b, b - a < m
      PROVE  a % m # b % m
  <2> DEFINE p == a \div m
             q == b \div m
  <2>1. /\ p \in Int /\ q \in Int /\ a % m \in Int /\ b % m \in Int
        /\ a = (m * p) + (a % m) /\ b = (m * q) + (b % m)
    OBVIOUS
  <2> HIDE DEF p, q
  <2>2. ASSUME a % m = b % m PROVE FALSE
    <3>1. b - a = (m * q) - (m * p)
      BY <2>1, <2>2
    <3>2. CASE q <= p
      <4>1. m * q <= m * p
        BY <2>1, <3>2
      <4>2. m * q \in Int /\ m * p \in Int
        BY <2>1
      <4> QED
        BY <1>1, <3>1, <4>1, <4>2
    <3>3. CASE q >= p + 1
      <4>1. m * q >= m * (p + 1)
        BY <2>1, <3>3
      <4>2. m * (p + 1) = (m * p) + m
        BY <2>1
      <4>3. m * q \in Int /\ m * p \in Int
        BY <2>1
      <4> QED
        BY <1>1, <3>1, <4>1, <4>2, <4>3
    <3> QED
      BY <2>1, <3>2, <3>3
  <2> QED
    BY <2>2
<1>2. ASSUME IInv, render_pc \notin {"idle", "begin", "bump"}, NEW f \in InFlight
      PROVE  f % MaxFramesInFlight # frame_index % MaxFramesInFlight
  <2>1. /\ frame_index \in Nat /\ timeline \in Nat /\ MaxFramesInFlight \in Nat \ {0}
        /\ submitted = frame_index - 1 /\ frame_index <= timeline + MaxFramesInFlight
    BY <1>2, SizesAssumption DEF IInv, FrameInv, Value
  <2>2. f \in Nat /\ f < frame_index /\ frame_index - f < MaxFramesInFlight
    BY <2>1 DEF InFlight
  <2> QED
    BY <1>1, <2>1, <2>2
<1>3. IInv => SlotReusable
  BY <1>2 DEF SlotReusable
<1> QED
  BY <1>3, IInvHolds, PTL

\* No queued descriptor write names a destroyed image and no queued copy a retired one, as long
\* as no texture is requested again while it is requested (section 5 of the README has the run
\* that shows what happens otherwise).
THEOREM NothingDeadQueued ==
  ASSUME Releases # "any", ~Overlaps
  PROVE  Spec => []NothingQueuedIsDead
<1>1. Init => RequestedOnce /\ QueueInv
  BY DEF Init, RequestedOnce, QueueInv, QueuedImages
<1>2. IInv /\ RequestedOnce /\ QueueInv /\ [Next]_vars => (RequestedOnce /\ QueueInv)'
  BY OnceStep, QueueStep
<1>3. ASSUME IInv, QueueInv PROVE NothingQueuedIsDead
  <2>1. \A n \in 1..Len(writes) : writes[n].image \in QueuedImages
    BY <1>3, NameFacts DEF QueuedImages
  <2>2. staged \subseteq QueuedImages
    BY DEF QueuedImages
  <2>3. \A i \in QueuedImages : phase[i] = "alive"
    BY <1>3 DEF QueueInv
  <2> QED
    BY <2>1, <2>2, <2>3 DEF NothingQueuedIsDead
<1>4. IInv /\ QueueInv => NothingQueuedIsDead
  BY <1>3
<1> QED
  BY <1>1, <1>2, <1>4, IInvHolds, PTL DEF Spec
=============================================================================
