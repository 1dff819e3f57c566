-------------------------- MODULE AsyncComputeProofs --------------------------
(* Theorems about AsyncCompute, for any lists, buffers, frames in flight    *)
(* and number of frames, with one queue or two.                             *)
EXTENDS AsyncCompute, TLAPS

(* Signal values grow in submission order and stay below what is published, *)
(* except for the one that is about to be.                                  *)
SignalsGrow ==
  /\ \A n \in DOMAIN submissions : submissions[n].signal # 0 => submissions[n].frame = 0
  /\ \A n \in DOMAIN submissions :
       submissions[n].signal <= IF main_pc = "publish" THEN published + 1 ELSE published
  /\ \A m, n \in DOMAIN submissions :
       m < n /\ submissions[n].signal # 0 => submissions[m].signal < submissions[n].signal

(* A queue completes in order, so the timeline is the largest value         *)
(* signaled, and nothing at or below it is still to come.                   *)
QueuesInOrder ==
  \A m, n \in DOMAIN submissions : m < n /\ SameQueue(m, n) /\ n \in finished => m \in finished
TimelineReached ==
  /\ async_timeline # 0 => \E n \in finished : submissions[n].signal = async_timeline
  /\ \A n \in DOMAIN submissions :
       submissions[n].signal # 0 /\ submissions[n].signal <= async_timeline => n \in finished
StartedWaited == \A n \in started : submissions[n].wait <= async_timeline

(* Who waits for value v waits for list l.                                  *)
Covers(v, l) == \E n \in DOMAIN submissions :
  l \in submissions[n].list /\ submissions[n].signal # 0 /\ submissions[n].signal <= v

SeenCovered ==
  /\ main_pc = "publish" => \A l \in awaited : Covers(published + 1, l)
  /\ \A l \in returned : Covers(published, l)
  /\ render_pc = "submit" => \A l \in seen[frame_index] : Covers(wait_value, l)
  /\ \A n \in DOMAIN submissions : submissions[n].frame # 0 =>
       \A l \in seen[submissions[n].frame] : Covers(submissions[n].wait, l)
FramesInTurn ==
  \A n \in DOMAIN submissions : /\ submissions[n].frame <= frame_index
                                /\ render_pc # "bump" => submissions[n].frame < frame_index

(* Where the lists of the submissions are: submitted once, and known to the *)
(* registry as such until they are complete.                                *)
ListsOnce ==
  \A m, n \in DOMAIN submissions : \A l \in submissions[m].list :
    l \in submissions[n].list => m = n
ListsKnown ==
  \A n \in DOMAIN submissions : \A l \in submissions[n].list :
    phase[l] \in {"fenced", "released"} \/ (main_pc = "submit_idle" /\ l \in awaited)
RecordedLive == \A l \in Lists :
  (phase[l] = "unknown" => uses[l] = {}) /\ (phase[l] = "recording" => \A b \in uses[l] : Live(b))
ClearAwaitsAll ==
  main_pc = "clear" => \A l \in Lists : phase[l] \in {"recording", "fenced"} => l \in awaited

SyncInv ==
  SignalsGrow /\ QueuesInOrder /\ TimelineReached /\ StartedWaited /\ SeenCovered /\ FramesInTurn
LifeInv ==
  ListsOnce /\ ListsKnown /\ RecordedLive /\ ClearAwaitsAll /\ DeviceUsesLiveResources
IInv == TypeOK /\ SyncInv /\ LifeInv

(* The invariant holds initially.                                           *)
LEMMA InitInv == Init => IInv
<1> SUFFICES ASSUME Init PROVE IInv
  OBVIOUS
<1>1. TypeOK
  <2>1. shared_queue \in BOOLEAN
    BY DEF Init
  <2>2. DOMAIN submissions = {} /\ submissions \in Seq(Work)
    BY DEF Init
  <2> QED
    BY <2>1, <2>2, SizesAssumption DEF Init, TypeOK
<1>2. SyncInv /\ LifeInv
  BY DEF Init, SyncInv, SignalsGrow, QueuesInOrder, TimelineReached, StartedWaited, SeenCovered,
         FramesInTurn, LifeInv, ListsOnce, ListsKnown, RecordedLive, ClearAwaitsAll,
         DeviceUsesLiveResources
<1> QED
  BY <1>1, <1>2 DEF IInv

(* A submission keeps those before it and their places.                     *)
LEMMA AppendWork ==
  ASSUME NEW q \in Seq(Work), NEW w \in Work
  PROVE  /\ Append(q, w) \in Seq(Work)
         /\ Len(q) \in Nat /\ DOMAIN q = 1..Len(q)
         /\ DOMAIN Append(q, w) = DOMAIN q \cup {Len(q) + 1}
         /\ Len(q) + 1 \notin DOMAIN q
         /\ \A n \in DOMAIN q : Append(q, w)[n] = q[n] /\ n < Len(q) + 1
         /\ Append(q, w)[Len(q) + 1] = w
<1>1. Len(Append(q, w)) = Len(q) + 1 /\ Append(q, w) \in Seq(Work)
  OBVIOUS
<1> QED
  BY <1>1

(* What was submitted has its type.                                         *)
LEMMA WorkTypes ==
  ASSUME TypeOK
  PROVE  \A n \in DOMAIN submissions :
           /\ submissions[n].list \subseteq Lists /\ submissions[n].frame \in 0..MaxFrames
           /\ submissions[n].wait \in Nat /\ submissions[n].signal \in Nat
<1>1. submissions \in Seq(Work)
  BY DEF TypeOK
<1>2. \A n \in DOMAIN submissions : submissions[n] \in Work
  BY <1>1
<1> QED
  BY <1>2 DEF Work

(* Type correctness is inductive by itself.                                 *)
LEMMA TypeInv == TypeOK /\ Next => TypeOK'
<1> SUFFICES ASSUME TypeOK, Next PROVE TypeOK'
  OBVIOUS
<1> USE SizesAssumption DEF registry, buffers, frames, device
<1>1. ASSUME NEW l \in Lists, Begin(l) PROVE TypeOK'
  BY <1>1 DEF Begin, TypeOK
<1>2. ASSUME NEW l \in Lists, NEW b \in Buffers, Dispatch(l, b) PROVE TypeOK'
  BY <1>2 DEF Dispatch, TypeOK
<1>3. ASSUME NEW l \in Lists, SubmitIdle(l) \/ SubmitAsync(l) PROVE TypeOK'
  <2>1. PICK w \in Work : submissions' = Append(submissions, w)
    BY <1>3 DEF SubmitIdle, SubmitAsync, ListWork, Work, TypeOK
  <2>2. submissions' \in Seq(Work) /\ DOMAIN submissions \subseteq DOMAIN submissions'
    BY <2>1, AppendWork DEF TypeOK
  <2> QED
    BY <1>3, <2>2 DEF SubmitIdle, SubmitAsync, TypeOK
<1>4. ASSUME NEW l \in Lists, Release(l) PROVE TypeOK'
  BY <1>4 DEF Release, TypeOK
<1>5. CASE Publish
  BY <1>5 DEF Publish, TypeOK
<1>6. CASE Clear
  BY <1>6 DEF Clear, TypeOK
<1>7. CASE WaitsEnd
  BY <1>7 DEF WaitsEnd, TypeOK
<1>8. ASSUME NEW b \in Buffers, ReleaseBuffer(b) PROVE TypeOK'
  BY <1>8 DEF ReleaseBuffer, TypeOK
<1>9. CASE BeginFrame
  BY <1>9 DEF BeginFrame, TypeOK, Frame
<1>10. CASE LoadPublished
  BY <1>10 DEF LoadPublished, TypeOK, Frame
<1>11. CASE SubmitFrame
  <2>0. frame_index \in 0..MaxFrames /\ wait_value \in Nat
    BY <1>11 DEF SubmitFrame, TypeOK
  <2>1. PICK w \in Work : submissions' = Append(submissions, w)
    BY <1>11, <2>0 DEF SubmitFrame, FrameWork, Work
  <2>2. submissions' \in Seq(Work) /\ DOMAIN submissions \subseteq DOMAIN submissions'
    BY <2>1, AppendWork DEF TypeOK
  <2> QED
    BY <1>11, <2>2 DEF SubmitFrame, TypeOK
<1>12. CASE BumpFrameIndex
  BY <1>12 DEF BumpFrameIndex, TypeOK
<1>13. ASSUME NEW n \in DOMAIN submissions, DeviceStarts(n) PROVE TypeOK'
  BY <1>13 DEF DeviceStarts, TypeOK
<1>14. ASSUME NEW n \in DOMAIN submissions, DeviceFinishes(n) PROVE TypeOK'
  <2>1. submissions[n] \in Work
    BY DEF TypeOK
  <2>2. submissions[n].signal \in Nat /\ submissions[n].frame \in 0..MaxFrames
    BY <2>1 DEF Work
  <2> QED
    BY <1>14, <2>2 DEF DeviceFinishes, TypeOK
<1> QED
  BY <1>1, <1>2, <1>3, <1>4, <1>5, <1>6, <1>7, <1>8, <1>9, <1>10, <1>11, <1>12, <1>13, <1>14
     DEF Next, ScriptStep, RenderStep, DeviceStep

(* The steps that submit nothing and are not the device's keep the order of *)
(* what was submitted.                                                      *)
LEMMA QuietSync ==
  ASSUME TypeOK, SyncInv, UNCHANGED <<shared_queue, submissions, device>>
  PROVE  QueuesInOrder' /\ TimelineReached' /\ StartedWaited'
         /\ \A v, l : Covers(v, l)' <=> Covers(v, l)
BY DEF SyncInv, QueuesInOrder, SameQueue, TimelineReached, StartedWaited, Covers, device

(* A submission of a new list, or of a frame, keeps the order: the device   *)
(* has not begun it.                                                        *)
LEMMA SubmitSync ==
  ASSUME TypeOK, SyncInv, NEW w \in Work, submissions' = Append(submissions, w),
         UNCHANGED <<shared_queue, device>>,
         w.signal # 0 => \A n \in DOMAIN submissions : submissions[n].signal < w.signal,
         w.signal # 0 => async_timeline < w.signal
  PROVE  /\ QueuesInOrder' /\ TimelineReached' /\ StartedWaited'
         /\ \A v, l : Covers(v, l) => Covers(v, l)'
         /\ \A m, n \in DOMAIN submissions' :
              m < n /\ submissions'[n].signal # 0 => submissions'[m].signal < submissions'[n].signal
<1> DEFINE last == Len(submissions) + 1
<1>1. /\ Len(submissions) \in Nat /\ DOMAIN submissions = 1..Len(submissions)
      /\ DOMAIN submissions' = DOMAIN submissions \cup {last} /\ last \notin DOMAIN submissions
      /\ \A n \in DOMAIN submissions : submissions'[n] = submissions[n] /\ n < last
      /\ submissions'[last] = w
  BY AppendWork DEF TypeOK
<1>2. started \subseteq DOMAIN submissions /\ finished \subseteq DOMAIN submissions
  BY DEF TypeOK
<1>3. QueuesInOrder'
  BY <1>1, <1>2 DEF QueuesInOrder, SyncInv, SameQueue, device
<1>4. TimelineReached'
  <2>1. w.signal \in Nat /\ async_timeline \in Nat
    BY DEF Work, TypeOK
  <2> QED
    BY <1>1, <1>2, <2>1 DEF TimelineReached, SyncInv, device
<1>5. StartedWaited'
  BY <1>1, <1>2 DEF StartedWaited, SyncInv, device
<1>6. \A v, l : Covers(v, l) => Covers(v, l)'
  BY <1>1 DEF Covers
<1>7. \A m, n \in DOMAIN submissions' :
        m < n /\ submissions'[n].signal # 0 => submissions'[m].signal < submissions'[n].signal
  BY <1>1 DEF SignalsGrow, SyncInv
<1> QED
  BY <1>3, <1>4, <1>5, <1>6, <1>7

(* Waiting for more covers more.                                            *)
LEMMA CoversMore ==
  ASSUME TypeOK, NEW v \in Nat, NEW u \in Nat, u <= v, NEW l, Covers(u, l)
  PROVE  Covers(v, l)
BY WorkTypes DEF Covers

(* Steps that neither submit, publish nor read what is published.           *)
LEMMA OtherSync ==
  ASSUME TypeOK, SyncInv, UNCHANGED <<shared_queue, submissions, device, published, returned>>,
         UNCHANGED <<seen, wait_value, frame_index>>,
         main_pc' = "publish" <=> main_pc = "publish", main_pc = "publish" => awaited' = awaited,
         render_pc' = "submit" => render_pc = "submit",
         render_pc = "bump" <=> render_pc' = "bump"
  PROVE  SyncInv'
<1>1. QueuesInOrder' /\ TimelineReached' /\ StartedWaited' /\ \A v, l : Covers(v, l)' <=> Covers(v, l)
  BY QuietSync
<1>2. SignalsGrow'
  BY DEF SyncInv, SignalsGrow
<1>3. SeenCovered'
  BY <1>1 DEF SyncInv, SeenCovered
<1>4. FramesInTurn'
  BY DEF SyncInv, FramesInTurn
<1> QED
  BY <1>1, <1>2, <1>3, <1>4 DEF SyncInv

(* A submission whose frame, if it is one, waits for the lists it saw.       *)
LEMMA SubmitSeen ==
  ASSUME SyncInv, NEW w, UNCHANGED <<published, returned, seen>>,
         DOMAIN submissions' = DOMAIN submissions \cup {Len(submissions) + 1},
         \A n \in DOMAIN submissions : submissions'[n] = submissions[n],
         submissions'[Len(submissions) + 1] = w,
         \A v, l : Covers(v, l) => Covers(v, l)',
         w.frame # 0 => \A l \in seen[w.frame] : Covers(w.wait, l)
  PROVE  /\ \A l \in returned' : Covers(published, l)'
         /\ \A n \in DOMAIN submissions' : submissions'[n].frame # 0 =>
              \A l \in seen'[submissions'[n].frame] : Covers(submissions[n].wait, l)'
<1>1. \A l \in returned' : Covers(published, l)'
  BY DEF SyncInv, SeenCovered, Covers
<1>2. ASSUME NEW n \in DOMAIN submissions', submissions'[n].frame # 0,
             NEW l \in seen'[submissions'[n].frame]
      PROVE  Covers(submissions[n].wait, l)'
  <2>1. CASE n \in DOMAIN submissions
    BY <1>2, <2>1 DEF SyncInv, SeenCovered, Covers
  <2>2. CASE n = Len(submissions) + 1
    BY <1>2, <2>2 DEF Covers
  <2> QED
    BY <2>1, <2>2
<1> QED
  BY <1>1, <1>2

(* Every step keeps the order of signals and waits.                         *)
LEMMA SyncStep == TypeOK /\ SyncInv /\ Next => SyncInv'
<1> SUFFICES ASSUME TypeOK, SyncInv, Next PROVE SyncInv'
  OBVIOUS
<1> USE DEF registry, buffers, frames, device
<1>1. ASSUME NEW l \in Lists, Begin(l) \/ Release(l) PROVE SyncInv'
  BY <1>1, OtherSync DEF Begin, Release
<1>2. ASSUME NEW l \in Lists, NEW b \in Buffers, Dispatch(l, b) PROVE SyncInv'
  BY <1>2, OtherSync DEF Dispatch
<1>3. CASE Clear \/ WaitsEnd
  BY <1>3, OtherSync DEF Clear, WaitsEnd
<1>4. ASSUME NEW b \in Buffers, ReleaseBuffer(b) PROVE SyncInv'
  BY <1>4, OtherSync DEF ReleaseBuffer
<1>5. CASE BeginFrame
  BY <1>5, OtherSync DEF BeginFrame
<1>6. CASE Publish
  <2>1. QueuesInOrder' /\ TimelineReached' /\ StartedWaited' /\ \A v, l : Covers(v, l)' <=> Covers(v, l)
    BY <1>6, QuietSync DEF Publish
  <2>2. SignalsGrow'
    BY <1>6, WorkTypes DEF Publish, SyncInv, SignalsGrow, TypeOK
  <2>3. SeenCovered'
    <3>1. \A l \in returned' : Covers(published', l)
      BY <1>6, CoversMore DEF Publish, SyncInv, SeenCovered, TypeOK
    <3> QED
      BY <1>6, <2>1, <3>1 DEF Publish, SyncInv, SeenCovered
  <2>4. FramesInTurn'
    BY <1>6 DEF Publish, SyncInv, FramesInTurn
  <2> QED
    BY <2>1, <2>2, <2>3, <2>4 DEF SyncInv
<1>7. CASE LoadPublished
  <2>1. QueuesInOrder' /\ TimelineReached' /\ StartedWaited' /\ \A v, l : Covers(v, l)' <=> Covers(v, l)
    BY <1>7, QuietSync DEF LoadPublished
  <2>2. SignalsGrow'
    BY <1>7 DEF LoadPublished, SyncInv, SignalsGrow
  <2>3. frame_index \in Frame /\ \A n \in DOMAIN submissions : submissions[n].frame # frame_index
    BY <1>7, WorkTypes DEF LoadPublished, SyncInv, FramesInTurn, TypeOK, Frame
  <2>4. \A n \in DOMAIN submissions : seen'[submissions[n].frame] = seen[submissions[n].frame]
    BY <1>7, <2>3 DEF LoadPublished, TypeOK
  <2>5. SeenCovered'
    BY <1>7, <2>1, <2>3, <2>4 DEF LoadPublished, SyncInv, SeenCovered, TypeOK
  <2>6. FramesInTurn'
    BY <1>7 DEF LoadPublished, SyncInv, FramesInTurn
  <2> QED
    BY <2>1, <2>2, <2>5, <2>6 DEF SyncInv
<1>8. CASE BumpFrameIndex
  <2>1. QueuesInOrder' /\ TimelineReached' /\ StartedWaited' /\ \A v, l : Covers(v, l)' <=> Covers(v, l)
    BY <1>8, QuietSync DEF BumpFrameIndex
  <2>2. SignalsGrow' /\ SeenCovered'
    BY <1>8, <2>1 DEF BumpFrameIndex, SyncInv, SignalsGrow, SeenCovered
  <2>3. FramesInTurn'
    BY <1>8, WorkTypes DEF BumpFrameIndex, SyncInv, FramesInTurn, TypeOK
  <2> QED
    BY <2>1, <2>2, <2>3 DEF SyncInv
<1>9. ASSUME NEW l \in Lists, SubmitIdle(l) PROVE SyncInv'
  <2> DEFINE w == ListWork(l, 0)
  <2>0. w \in Work
    BY SizesAssumption DEF ListWork, Work
  <2>1. /\ QueuesInOrder' /\ TimelineReached' /\ StartedWaited'
        /\ \A v, k : Covers(v, k) => Covers(v, k)'
        /\ \A m, n \in DOMAIN submissions' :
             m < n /\ submissions'[n].signal # 0 => submissions'[m].signal < submissions'[n].signal
    BY <1>9, <2>0, SubmitSync DEF SubmitIdle, ListWork
  <2>2. /\ DOMAIN submissions' = DOMAIN submissions \cup {Len(submissions) + 1}
        /\ \A n \in DOMAIN submissions : submissions'[n] = submissions[n]
        /\ submissions'[Len(submissions) + 1] = w
    BY <1>9, <2>0, AppendWork DEF SubmitIdle, TypeOK
  <2>3. SignalsGrow'
    BY <1>9, <2>1, <2>2 DEF SubmitIdle, ListWork, SyncInv, SignalsGrow, TypeOK
  <2>4. SeenCovered'
    BY <1>9, <2>1, <2>2, SubmitSeen DEF SubmitIdle, ListWork, SyncInv, SeenCovered
  <2>5. FramesInTurn'
    BY <1>9, <2>2 DEF SubmitIdle, ListWork, SyncInv, FramesInTurn, TypeOK
  <2> QED
    BY <2>1, <2>3, <2>4, <2>5 DEF SyncInv
<1>10. ASSUME NEW l \in Lists, SubmitAsync(l) PROVE SyncInv'
  <2> DEFINE w == ListWork(l, published + 1)
  <2>a. published \in Nat /\ main_pc = "update"
    BY <1>10 DEF SubmitAsync, TypeOK
  <2>b. \A n \in DOMAIN submissions : submissions[n].signal < published + 1
    BY <2>a, WorkTypes DEF SyncInv, SignalsGrow
  <2>c. async_timeline < published + 1
    BY <2>a, <2>b DEF SyncInv, TimelineReached, TypeOK
  <2>0. w \in Work
    BY <2>a, SizesAssumption DEF ListWork, Work
  <2>1. /\ QueuesInOrder' /\ TimelineReached' /\ StartedWaited'
        /\ \A v, k : Covers(v, k) => Covers(v, k)'
        /\ \A m, n \in DOMAIN submissions' :
             m < n /\ submissions'[n].signal # 0 => submissions'[m].signal < submissions'[n].signal
    BY <1>10, <2>0, SubmitSync, <2>b, <2>c DEF SubmitAsync, ListWork
  <2>2. /\ DOMAIN submissions' = DOMAIN submissions \cup {Len(submissions) + 1}
        /\ \A n \in DOMAIN submissions : submissions'[n] = submissions[n]
        /\ submissions'[Len(submissions) + 1] = w
    BY <1>10, <2>0, AppendWork DEF SubmitAsync, TypeOK
  <2>3. SignalsGrow'
    BY <1>10, <2>a, <2>b, <2>1, <2>2, WorkTypes DEF SubmitAsync, ListWork, SyncInv, SignalsGrow
  <2>4. Covers(published + 1, l)'
    BY <1>10, <2>2, <2>a DEF SubmitAsync, ListWork, Covers
  <2>5. SeenCovered'
    <3>1. main_pc' = "publish" => \A k \in awaited' : Covers(published + 1, k)'
      BY <1>10, <2>4 DEF SubmitAsync
    <3>2. published' = published /\ returned' = returned /\ UNCHANGED <<render_pc, seen, frame_index, wait_value>>
      BY <1>10 DEF SubmitAsync, frames
    <3>3. \A k \in returned : Covers(published, k)'
      BY <2>1, <3>2 DEF SyncInv, SeenCovered
    <3>4. render_pc = "submit" => \A k \in seen[frame_index] : Covers(wait_value, k)'
      BY <2>1, <3>2 DEF SyncInv, SeenCovered
    <3>5. w.frame = 0
      BY DEF ListWork
    <3>6. ASSUME NEW n \in (DOMAIN submissions)', (submissions[n].frame # 0)',
                 NEW k \in (seen[submissions[n].frame])'
          PROVE Covers(submissions[n].wait, k)'
      <4>1. n \in DOMAIN submissions /\ submissions'[n] = submissions[n]
        BY <2>2, <3>5, <3>6
      <4>2. Covers(submissions[n].wait, k)
        BY <4>1, <3>2, <3>6 DEF SyncInv, SeenCovered
      <4> QED
        BY <4>1, <4>2, <2>1
    <3> QED
      BY <3>1, <3>2, <3>3, <3>4, <3>6 DEF SeenCovered
  <2>6. FramesInTurn'
    BY <1>10, <2>2 DEF SubmitAsync, ListWork, SyncInv, FramesInTurn, TypeOK
  <2> QED
    BY <2>1, <2>3, <2>5, <2>6 DEF SyncInv
<1>11. CASE SubmitFrame
  <2> DEFINE w == FrameWork(frame_index, wait_value)
  <2>a. frame_index \in 1..MaxFrames /\ wait_value \in Nat /\ render_pc = "submit"
    BY <1>11 DEF SubmitFrame, TypeOK
  <2>0. w \in Work
    BY <2>a, SizesAssumption DEF FrameWork, Work
  <2>1. /\ QueuesInOrder' /\ TimelineReached' /\ StartedWaited'
        /\ \A v, k : Covers(v, k) => Covers(v, k)'
        /\ \A m, n \in DOMAIN submissions' :
             m < n /\ submissions'[n].signal # 0 => submissions'[m].signal < submissions'[n].signal
    BY <1>11, <2>0, SubmitSync DEF SubmitFrame, FrameWork
  <2>2. /\ DOMAIN submissions' = DOMAIN submissions \cup {Len(submissions) + 1}
        /\ \A n \in DOMAIN submissions : submissions'[n] = submissions[n]
        /\ submissions'[Len(submissions) + 1] = w
    BY <1>11, <2>0, AppendWork DEF SubmitFrame, TypeOK
  <2>3. SignalsGrow'
    BY <1>11, <2>1, <2>2 DEF SubmitFrame, FrameWork, SyncInv, SignalsGrow, TypeOK
  <2>4. SeenCovered'
    <3>1. \A l \in seen[frame_index] : Covers(wait_value, l)
      BY <2>a DEF SyncInv, SeenCovered
    <3>2. main_pc' = "publish" => \A l \in awaited' : Covers(published + 1, l)'
      BY <1>11, <2>1 DEF SubmitFrame, SyncInv, SeenCovered, Covers
    <3>3. w.frame # 0 => \A l \in seen[w.frame] : Covers(w.wait, l)
      BY <3>1 DEF FrameWork
    <3>4. UNCHANGED <<published, returned, seen, wait_value>> /\ render_pc' = "bump"
      BY <1>11 DEF SubmitFrame
    <3>5. /\ \A l \in returned' : Covers(published, l)'
          /\ \A n \in DOMAIN submissions' : submissions'[n].frame # 0 =>
               \A l \in seen'[submissions'[n].frame] : Covers(submissions[n].wait, l)'
      <4> HIDE DEF w
      <4> QED
        BY <2>1, <2>2, <3>3, <3>4, SubmitSeen
    <3> QED
      BY <3>2, <3>4, <3>5 DEF SeenCovered
  <2>5. FramesInTurn'
    BY <1>11, <2>a, <2>2, WorkTypes DEF SubmitFrame, FrameWork, SyncInv, FramesInTurn
  <2> QED
    BY <2>1, <2>3, <2>4, <2>5 DEF SyncInv
<1>12. ASSUME NEW n \in DOMAIN submissions, DeviceStarts(n) PROVE SyncInv'
  <2>1. SignalsGrow' /\ SeenCovered' /\ FramesInTurn'
    BY <1>12 DEF DeviceStarts, SyncInv, SignalsGrow, SeenCovered, Covers, FramesInTurn
  <2>2. QueuesInOrder' /\ TimelineReached'
    BY <1>12 DEF DeviceStarts, SyncInv, QueuesInOrder, SameQueue, TimelineReached
  <2>3. StartedWaited'
    BY <1>12 DEF DeviceStarts, SyncInv, StartedWaited
  <2> QED
    BY <2>1, <2>2, <2>3 DEF SyncInv
<1>13. ASSUME NEW n \in DOMAIN submissions, DeviceFinishes(n) PROVE SyncInv'
  <2>1. SignalsGrow' /\ SeenCovered' /\ FramesInTurn'
    BY <1>13 DEF DeviceFinishes, SyncInv, SignalsGrow, SeenCovered, Covers, FramesInTurn
  <2>2. /\ n \in Nat /\ n \notin finished /\ finished' = finished \cup {n}
        /\ \A m \in DOMAIN submissions : m \in Nat /\ (m < n /\ SameQueue(m, n) => m \in finished)
        /\ UNCHANGED <<shared_queue, submissions, started>>
    BY <1>13 DEF DeviceFinishes, TypeOK
  <2>3. QueuesInOrder'
    BY <2>2 DEF SyncInv, QueuesInOrder, SameQueue
  <2>4. CASE submissions[n].signal = 0
    <3>1. async_timeline' = async_timeline
      BY <1>13, <2>4 DEF DeviceFinishes
    <3>2. TimelineReached' /\ StartedWaited'
      BY <2>2, <3>1 DEF SyncInv, TimelineReached, StartedWaited
    <3> QED
      BY <2>1, <2>3, <3>2 DEF SyncInv
  <2>5. CASE submissions[n].signal # 0
    <3>1. async_timeline' = submissions[n].signal
      BY <1>13, <2>5 DEF DeviceFinishes
    <3>2. \A m \in DOMAIN submissions : submissions[m].signal # 0 => SameQueue(m, n) /\ SameQueue(n, m)
      BY <2>5 DEF SyncInv, SignalsGrow, SameQueue
    <3>3. \A m \in DOMAIN submissions :
            submissions[m].signal # 0 /\ submissions[m].signal <= submissions[n].signal
              => m \in finished \cup {n}
      <4> SUFFICES ASSUME NEW m \in DOMAIN submissions, submissions[m].signal # 0, m # n,
                          submissions[m].signal <= submissions[n].signal
                   PROVE  m \in finished
        OBVIOUS
      <4>1. ~(n < m)
        BY WorkTypes, <2>2 DEF SyncInv, SignalsGrow
      <4> QED
        BY <4>1, <2>2, <3>2
    <3>4. \A m \in finished : submissions[m].signal # 0 => submissions[m].signal < submissions[n].signal
      <4> SUFFICES ASSUME NEW m \in finished, submissions[m].signal # 0
                   PROVE  submissions[m].signal < submissions[n].signal
        OBVIOUS
      <4>1. m \in DOMAIN submissions /\ m # n
        BY <2>2 DEF TypeOK
      <4>2. ~(n < m)
        BY <4>1, <3>2, <2>2 DEF SyncInv, QueuesInOrder
      <4>3. m < n
        BY <4>1, <4>2, <2>2
      <4> QED
        BY <4>1, <4>3, <2>5 DEF SyncInv, SignalsGrow
    <3>5. async_timeline <= async_timeline'
      BY <3>1, <3>4, WorkTypes, <2>2 DEF SyncInv, TimelineReached, TypeOK
    <3>6. TimelineReached'
      BY <2>2, <3>1, <3>3 DEF TimelineReached
    <3>7. StartedWaited'
      <4> SUFFICES ASSUME NEW m \in started PROVE submissions[m].wait <= async_timeline'
        BY <2>2 DEF StartedWaited
      <4>1. m \in DOMAIN submissions /\ submissions[m].wait \in Nat /\ async_timeline \in Nat
        BY WorkTypes DEF TypeOK
      <4>2. async_timeline' \in Nat
        BY <3>1, WorkTypes
      <4>3. submissions[m].wait <= async_timeline
        BY DEF SyncInv, StartedWaited
      <4> QED
        BY <3>5, <4>1, <4>2, <4>3
    <3> QED
      BY <2>1, <2>3, <3>6, <3>7 DEF SyncInv
  <2> QED
    BY <2>4, <2>5
<1> QED
  BY <1>1, <1>2, <1>3, <1>4, <1>5, <1>6, <1>7, <1>8, <1>9, <1>10, <1>11, <1>12, <1>13
     DEF Next, ScriptStep, RenderStep, DeviceStep

(* The steps that leave the lists, the buffers and the submissions alone.   *)
LEMMA OtherLife ==
  ASSUME TypeOK, LifeInv, UNCHANGED <<submissions, phase, uses, retired_at>>,
         finished \subseteq finished',
         main_pc' # "clear" \/ UNCHANGED <<main_pc, awaited>>,
         main_pc # "submit_idle" \/ UNCHANGED <<main_pc, awaited>>
  PROVE  LifeInv'
<1>1. ListsOnce'
  BY DEF LifeInv, ListsOnce
<1>2. ListsKnown'
  BY DEF LifeInv, ListsKnown
<1>3. RecordedLive'
  BY DEF LifeInv, RecordedLive, Live
<1>4. ClearAwaitsAll'
  BY DEF LifeInv, ClearAwaitsAll
<1>5. DeviceUsesLiveResources'
  BY DEF LifeInv, DeviceUsesLiveResources, Live
<1> QED
  BY <1>1, <1>2, <1>3, <1>4, <1>5 DEF LifeInv

(* A submission that is not complete has no complete list.                  *)
LEMMA UnfinishedLists ==
  ASSUME TypeOK, LifeInv, NEW n \in DOMAIN submissions \ finished, NEW l \in submissions[n].list
  PROVE  ~Finished(l) /\ l \in Lists
<1>1. l \in Lists
  BY WorkTypes
<1> QED
  BY <1>1 DEF LifeInv, ListsOnce, Finished, TypeOK

(* Every step keeps what a list in submission uses.                         *)
LEMMA LifeStep == TypeOK /\ LifeInv /\ Next => LifeInv'
<1> SUFFICES ASSUME TypeOK, LifeInv, Next PROVE LifeInv'
  OBVIOUS
<1> USE DEF registry, buffers, frames, device
<1>1. ASSUME NEW l \in Lists, Begin(l) PROVE LifeInv'
  <2>1. ListsOnce' /\ ClearAwaitsAll'
    BY <1>1 DEF Begin, LifeInv, ListsOnce, ClearAwaitsAll
  <2>2. \A n \in DOMAIN submissions : l \notin submissions[n].list
    BY <1>1 DEF Begin, LifeInv, ListsKnown
  <2>3. ListsKnown' /\ DeviceUsesLiveResources'
    BY <1>1, <2>2, WorkTypes
       DEF Begin, LifeInv, ListsKnown, DeviceUsesLiveResources, Live, TypeOK
  <2>4. RecordedLive'
    BY <1>1 DEF Begin, LifeInv, RecordedLive, Live, TypeOK
  <2> QED
    BY <2>1, <2>3, <2>4 DEF LifeInv
<1>2. ASSUME NEW l \in Lists, NEW b \in Buffers, Dispatch(l, b) PROVE LifeInv'
  <2>1. ListsOnce' /\ ListsKnown' /\ ClearAwaitsAll'
    BY <1>2 DEF Dispatch, LifeInv, ListsOnce, ListsKnown, ClearAwaitsAll
  <2>2. \A n \in DOMAIN submissions : l \notin submissions[n].list
    BY <1>2 DEF Dispatch, LifeInv, ListsKnown
  <2>3. DeviceUsesLiveResources'
    BY <1>2, <2>2, WorkTypes DEF Dispatch, LifeInv, DeviceUsesLiveResources, Live, TypeOK
  <2>4. RecordedLive'
    BY <1>2 DEF Dispatch, LifeInv, RecordedLive, Live, TypeOK
  <2> QED
    BY <2>1, <2>3, <2>4 DEF LifeInv
<1>3. ASSUME NEW l \in Lists, SubmitIdle(l) \/ SubmitAsync(l) PROVE LifeInv'
  <2>1. PICK w \in Work : submissions' = Append(submissions, w) /\ w.list = {l}
    BY <1>3, SizesAssumption DEF SubmitIdle, SubmitAsync, ListWork, Work, TypeOK
  <2>2. /\ DOMAIN submissions' = DOMAIN submissions \cup {Len(submissions) + 1}
        /\ \A n \in DOMAIN submissions : submissions'[n] = submissions[n]
        /\ submissions'[Len(submissions) + 1].list = {l}
    BY <2>1, AppendWork DEF TypeOK
  <2>3. \A n \in DOMAIN submissions : l \notin submissions[n].list
    BY <1>3 DEF SubmitIdle, SubmitAsync, LifeInv, ListsKnown
  <2>4. ListsOnce'
    BY <2>2, <2>3 DEF LifeInv, ListsOnce
  <2>5. /\ \A k \in Lists \ {l} : phase'[k] = phase[k]
        /\ phase'[l] = "fenced" \/ (phase'[l] = "recording" /\ main_pc' = "submit_idle")
        /\ phase[l] = "recording" /\ main_pc = "update" /\ main_pc' # "clear"
        /\ l \in awaited' /\ UNCHANGED <<uses, retired_at, finished>>
    BY <1>3 DEF SubmitIdle, SubmitAsync, TypeOK
  <2>6. ListsKnown'
    BY <2>2, <2>3, <2>5, WorkTypes DEF LifeInv, ListsKnown
  <2>7. RecordedLive' /\ ClearAwaitsAll'
    BY <2>5 DEF LifeInv, RecordedLive, ClearAwaitsAll, Live
  <2>8. DeviceUsesLiveResources'
    BY <2>2, <2>3, <2>5, WorkTypes DEF LifeInv, RecordedLive, DeviceUsesLiveResources, Live
  <2> QED
    BY <2>4, <2>6, <2>7, <2>8 DEF LifeInv
<1>4. ASSUME NEW l \in Lists, Release(l) PROVE LifeInv'
  BY <1>4, OtherLife DEF Release
<1>5. CASE Publish
  BY <1>5, OtherLife DEF Publish
<1>6. CASE Clear
  <2>1. ListsOnce' /\ ListsKnown' /\ RecordedLive' /\ DeviceUsesLiveResources'
    BY <1>6 DEF Clear, LifeInv, ListsOnce, ListsKnown, RecordedLive, DeviceUsesLiveResources, Live
  <2>2. ClearAwaitsAll'
    BY <1>6 DEF Clear, ClearAwaitsAll
  <2> QED
    BY <2>1, <2>2 DEF LifeInv
<1>7. CASE WaitsEnd
  <2>1. ListsOnce' /\ ClearAwaitsAll'
    BY <1>7 DEF WaitsEnd, LifeInv, ListsOnce, ClearAwaitsAll
  <2>2. \A l \in Lists : /\ l \in awaited => phase'[l] = "released"
                         /\ l \notin awaited => phase'[l] = phase[l]
    BY <1>7 DEF WaitsEnd
  <2>3. ListsKnown'
    BY <1>7, <2>2, WorkTypes DEF WaitsEnd, LifeInv, ListsKnown
  <2>4. main_pc # "clear" => \A b \in Buffers : retired_at'[b] = retired_at[b]
    BY <1>7 DEF WaitsEnd
  <2>5. uses' = uses /\ \A l \in Lists : uses[l] \subseteq Buffers
    BY <1>7 DEF WaitsEnd, TypeOK
  <2>6. RecordedLive'
    <3>1. ASSUME NEW l \in Lists, phase'[l] = "unknown" PROVE uses'[l] = {}
      BY <3>1, <2>2, <2>5 DEF LifeInv, RecordedLive
    <3>2. ASSUME NEW l \in Lists, phase'[l] = "recording", NEW b \in uses[l] PROVE Live(b)'
      <4>1. phase[l] = "recording" /\ l \notin awaited
        BY <3>2, <2>2
      <4>2. main_pc # "clear"
        BY <4>1 DEF LifeInv, ClearAwaitsAll
      <4> QED
        BY <4>1, <4>2, <2>4, <2>5 DEF LifeInv, RecordedLive, Live
    <3> QED
      BY <3>1, <3>2, <2>5 DEF RecordedLive
  <2>7. DeviceUsesLiveResources'
    <3> SUFFICES ASSUME NEW n \in DOMAIN submissions \ finished, NEW l \in submissions[n].list
                 PROVE  phase'[l] # "released" /\ \A b \in uses[l] : Live(b)'
      BY <1>7, <2>5 DEF WaitsEnd, DeviceUsesLiveResources
    <3>1. l \in Lists /\ ~Finished(l)
      BY UnfinishedLists
    <3>2. phase[l] # "released" /\ \A b \in uses[l] : Live(b)
      BY DEF LifeInv, DeviceUsesLiveResources
    <3>3. phase[l] = "fenced" \/ (main_pc = "submit_idle" /\ l \in awaited)
      BY <3>2 DEF LifeInv, ListsKnown
    <3>4. l \notin awaited
      BY <1>7, <3>1, <3>3 DEF WaitsEnd
    <3>5. main_pc # "clear"
      BY <3>1, <3>3, <3>4 DEF LifeInv, ClearAwaitsAll
    <3> QED
      BY <3>1, <3>2, <3>4, <3>5, <2>2, <2>4, <2>5 DEF Live
  <2> QED
    BY <2>1, <2>3, <2>6, <2>7 DEF LifeInv
<1>8. ASSUME NEW b \in Buffers, ReleaseBuffer(b) PROVE LifeInv'
  <2>1. ListsOnce' /\ ListsKnown' /\ ClearAwaitsAll'
    BY <1>8 DEF ReleaseBuffer, LifeInv, ListsOnce, ListsKnown, ClearAwaitsAll
  <2>2. /\ \A c \in Buffers \ {b} : retired_at'[c] = retired_at[c]
        /\ \A l \in Lists : uses[l] \subseteq Buffers
        /\ UNCHANGED <<phase, uses, submissions, finished>>
    BY <1>8 DEF ReleaseBuffer, TypeOK
  <2>3. \A l \in Lists : b \in uses[l] => phase[l] # "recording"
    BY <1>8 DEF ReleaseBuffer, IsComplete
  <2>4. RecordedLive'
    BY <2>2, <2>3 DEF LifeInv, RecordedLive, Live
  <2>5. \A n \in DOMAIN submissions \ finished : \A l \in submissions[n].list : b \notin uses[l]
    BY <1>8, UnfinishedLists DEF ReleaseBuffer, IsComplete, LifeInv, DeviceUsesLiveResources
  <2>6. DeviceUsesLiveResources'
    BY <2>2, <2>5, UnfinishedLists DEF LifeInv, DeviceUsesLiveResources, Live
  <2> QED
    BY <2>1, <2>4, <2>6 DEF LifeInv
<1>9. CASE BeginFrame \/ LoadPublished \/ BumpFrameIndex
  BY <1>9, OtherLife DEF BeginFrame, LoadPublished, BumpFrameIndex
<1>10. CASE SubmitFrame
  <2>0. frame_index \in 0..MaxFrames /\ wait_value \in Nat
    BY <1>10 DEF SubmitFrame, TypeOK
  <2>1. PICK w \in Work : submissions' = Append(submissions, w) /\ w.list = {}
    BY <1>10, <2>0 DEF SubmitFrame, FrameWork, Work
  <2>2. /\ DOMAIN submissions' = DOMAIN submissions \cup {Len(submissions) + 1}
        /\ \A n \in DOMAIN submissions : submissions'[n] = submissions[n]
        /\ submissions'[Len(submissions) + 1].list = {}
    BY <2>1, AppendWork DEF TypeOK
  <2>3. UNCHANGED <<phase, uses, main_pc, awaited, retired_at, finished>>
    BY <1>10 DEF SubmitFrame
  <2>4. ListsOnce' /\ ListsKnown'
    BY <2>2, <2>3 DEF LifeInv, ListsOnce, ListsKnown
  <2>5. RecordedLive' /\ ClearAwaitsAll' /\ DeviceUsesLiveResources'
    BY <2>2, <2>3 DEF LifeInv, RecordedLive, ClearAwaitsAll, DeviceUsesLiveResources, Live
  <2> QED
    BY <2>4, <2>5 DEF LifeInv
<1>11. ASSUME NEW n \in DOMAIN submissions, DeviceStarts(n) \/ DeviceFinishes(n) PROVE LifeInv'
  BY <1>11, OtherLife DEF DeviceStarts, DeviceFinishes
<1> QED
  BY <1>1, <1>2, <1>3, <1>4, <1>5, <1>6, <1>7, <1>8, <1>9, <1>10, <1>11
     DEF Next, ScriptStep, RenderStep, DeviceStep

(* The inductive invariant: the signals of the lists, the values the frames *)
(* wait for, and the registry agree at every step.                          *)
THEOREM Invariance == Spec => []IInv
<1>1. Init => IInv
  BY InitInv
<1>2. IInv /\ [Next]_vars => IInv'
  <2>1. IInv /\ Next => IInv'
    BY TypeInv, SyncStep, LifeStep DEF IInv
  <2>2. ASSUME IInv, UNCHANGED vars PROVE IInv'
    <3> USE <2>2 DEF IInv, vars, registry, buffers, frames, device
    <3>1. TypeOK'
      BY DEF TypeOK
    <3>2. SyncInv'
      BY OtherSync
    <3>3. LifeInv'
      BY OtherLife
    <3> QED
      BY <3>1, <3>2, <3>3
  <2> QED
    BY <2>1, <2>2
<1> QED
  BY <1>1, <1>2, PTL DEF Spec

(* A frame that waits for a value waits for every list it covers: the       *)
(* timeline cannot pass a value whose list is not complete.                 *)
LEMMA AwaitsLists == IInv => FramesAwaitLists
<1> SUFFICES ASSUME IInv, NEW n \in started, submissions[n].frame # 0,
                    NEW l \in seen[submissions[n].frame]
             PROVE  Finished(l)
  BY DEF FramesAwaitLists
<1>1. n \in DOMAIN submissions /\ submissions[n].wait <= async_timeline
  BY DEF IInv, TypeOK, SyncInv, StartedWaited
<1>2. PICK m \in DOMAIN submissions : /\ l \in submissions[m].list /\ submissions[m].signal # 0
                                      /\ submissions[m].signal <= submissions[n].wait
  BY <1>1 DEF IInv, SyncInv, SeenCovered, Covers
<1>3. submissions[m].signal <= async_timeline
  BY <1>1, <1>2, WorkTypes DEF IInv, TypeOK
<1> QED
  BY <1>2, <1>3 DEF IInv, SyncInv, TimelineReached, Finished

(* A frame runs its shaders only after the lists it was told of.            *)
THEOREM FramesAwait == Spec => []FramesAwaitLists
BY Invariance, AwaitsLists, PTL

(* Nothing a submitted list uses is freed before the list is complete.      *)
THEOREM ResourcesLive == Spec => []DeviceUsesLiveResources
<1>1. IInv => DeviceUsesLiveResources
  BY DEF IInv, LifeInv
<1> QED
  BY <1>1, Invariance, PTL
=============================================================================
