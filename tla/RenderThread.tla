----------------------------- MODULE RenderThread -----------------------------
(* render/render_thread: the idle / busy / kick state machine between the   *)
(* main thread, driven by presentation_module::render(), and the worker     *)
(* that runs the frame's work.  One mutex guards the state and one          *)
(* condition variable serves both threads: a critical section is a step,    *)
(* and so is each notify_all, which comes after the mutex was released.     *)
(* (Names differ from WorkerPool's: ThreadProofs reasons about both.)       *)
EXTENDS Naturals, FiniteSets

CONSTANTS
  MainThread, WorkerThread,   \* the two threads
  MaxFrames                   \* bound: frames the main thread renders before it stops

ASSUME ThreadsAssumption == MainThread # WorkerThread
ASSUME MaxFramesAssumption == MaxFrames \in Nat

VARIABLES
  policy,         \* _policy; anything but "multi_threaded" runs inline
  state,          \* _state
  is_running,     \* _is_running
  blocked,        \* the threads blocked in _condition.wait
  main_pc, worker_pc,
  app_frame,      \* _app_thread_frame
  rendered        \* history: how often the work was run to its end

render_vars == <<policy, state, is_running, blocked, main_pc, worker_pc, app_frame, rendered>>

MultiThreaded == policy = "multi_threaded"

(* The constructor and run(): the worker exists only when multi-threaded.   *)
RenderInit ==
  /\ policy \in {"single_threaded", "multi_threaded"}
  /\ state = "idle" /\ is_running = TRUE /\ blocked = {}
  /\ main_pc = "update"
  /\ worker_pc = IF MultiThreaded THEN "wait" ELSE "absent"
  /\ app_frame = 0 /\ rendered = 0

(* _condition.wait(lock, condition): a thread that finds the condition true *)
(* goes on, any other blocks until a notification.                          *)
Proceeds(t, condition) == t \notin blocked /\ condition
Blocks(t, condition) == t \notin blocked /\ ~condition /\ blocked' = blocked \cup {t}

NotifyAll == blocked' = {}

(* The conditions block_until_render_complete() and the worker wait for.    *)
\* Fault: the main thread goes on once the worker has picked the frame up.
PickedUpOrStopped == state # "kick" \/ ~is_running
IdleOrStopped == state = "idle" \/ ~is_running
KickedOrStopped == state = "kick" \/ ~is_running

-----------------------------------------------------------------------------
(* Seeded faults: operations of this module with one plausible bug each.    *)
(* Every property is checked to fail when its operation is so replaced.     *)
\* kick() forgets to notify.
KickSilently ==
  /\ main_pc = "kick_notify"
  /\ main_pc' = "update"
  /\ UNCHANGED <<policy, state, is_running, blocked, worker_pc, app_frame, rendered>>

\* terminate() forgets to notify.
TerminateSilently ==
  /\ main_pc = "terminate_notify"
  /\ main_pc' = "join"
  /\ UNCHANGED <<policy, state, is_running, blocked, worker_pc, app_frame, rendered>>

\* The loop ends as soon as the thread is stopped, kicked or not.
WorkerLeavesAtOnce ==
  /\ worker_pc = "wait" /\ Proceeds(WorkerThread, KickedOrStopped)
  /\ ~is_running
  /\ worker_pc' = "left"
  /\ UNCHANGED <<policy, state, is_running, blocked, main_pc, app_frame, rendered>>

\* The loop takes any wake-up for a kick.
WorkerStartsUnasked ==
  /\ worker_pc = "wait" /\ Proceeds(WorkerThread, KickedOrStopped)
  /\ state' = "busy"
  /\ worker_pc' = "work"
  /\ UNCHANGED <<policy, is_running, blocked, main_pc, app_frame, rendered>>

\* The loop gives the kick back before the work has run.
WorkerStartsNotBusy ==
  /\ worker_pc = "wait" /\ Proceeds(WorkerThread, KickedOrStopped)
  /\ state = "kick"
  /\ state' = "idle"
  /\ worker_pc' = "work"
  /\ UNCHANGED <<policy, is_running, blocked, main_pc, app_frame, rendered>>

\* The loop forgets to notify after the work.
WorkerIdleSilently ==
  /\ worker_pc = "worked"
  /\ state' = "idle"
  /\ worker_pc' = "wait"
  /\ UNCHANGED <<policy, is_running, blocked, main_pc, app_frame, rendered>>

-----------------------------------------------------------------------------
(* presentation_module::render() returns at once when the window is         *)
(* iconified; a frame it starts waits for the previous one.                 *)
StartFrame ==
  /\ main_pc = "update" /\ app_frame < MaxFrames
  /\ main_pc' = IF MultiThreaded THEN "wait_idle" ELSE "next_frame"
  /\ UNCHANGED <<policy, state, is_running, blocked, worker_pc, app_frame, rendered>>

WaitIdleBlocks ==
  /\ main_pc = "wait_idle" /\ Blocks(MainThread, IdleOrStopped)
  /\ UNCHANGED <<policy, state, is_running, main_pc, worker_pc, app_frame, rendered>>

WaitIdleReturns ==
  /\ main_pc = "wait_idle" /\ Proceeds(MainThread, IdleOrStopped)
  /\ main_pc' = "next_frame"
  /\ UNCHANGED <<policy, state, is_running, blocked, worker_pc, app_frame, rendered>>

(* next_frame(), then the idle section: on_render_idle, build_frame and     *)
(* prepare change what the work reads.                                      *)
NextFrame ==
  /\ main_pc = "next_frame"
  /\ app_frame' = app_frame + 1
  /\ main_pc' = "prepare"
  /\ UNCHANGED <<policy, state, is_running, blocked, worker_pc, rendered>>

(* kick(): hand the frame to the worker, or run the work right here.        *)
Kick ==
  /\ main_pc = "prepare" /\ MultiThreaded
  /\ state' = "kick"
  /\ main_pc' = "kick_notify"
  /\ UNCHANGED <<policy, is_running, blocked, worker_pc, app_frame, rendered>>

KickNotify ==
  /\ main_pc = "kick_notify"
  /\ NotifyAll
  /\ main_pc' = "update"
  /\ UNCHANGED <<policy, state, is_running, worker_pc, app_frame, rendered>>

KickInline ==
  /\ main_pc = "prepare" /\ ~MultiThreaded
  /\ state' = "busy"
  /\ main_pc' = "work"
  /\ UNCHANGED <<policy, is_running, blocked, worker_pc, app_frame, rendered>>

WorkInlineEnds ==
  /\ main_pc = "work"
  /\ rendered' = rendered + 1
  /\ state' = "idle"
  /\ main_pc' = "update"
  /\ UNCHANGED <<policy, is_running, blocked, worker_pc, app_frame>>

(* terminate(), from the destructor of the presentation module.             *)
Terminate ==
  /\ main_pc = "update"
  /\ is_running' = FALSE
  /\ main_pc' = IF MultiThreaded THEN "terminate_notify" ELSE "joined"
  /\ UNCHANGED <<policy, state, blocked, worker_pc, app_frame, rendered>>

TerminateNotify ==
  /\ main_pc = "terminate_notify"
  /\ NotifyAll
  /\ main_pc' = "join"
  /\ UNCHANGED <<policy, state, is_running, worker_pc, app_frame, rendered>>

JoinWorker ==
  /\ main_pc = "join" /\ worker_pc = "left"
  /\ main_pc' = "joined"
  /\ UNCHANGED <<policy, state, is_running, blocked, worker_pc, app_frame, rendered>>

-----------------------------------------------------------------------------
(* _worker_loop(): a frame kicked before terminate() is still rendered, the *)
(* loop ends only when nothing is kicked.                                   *)
WorkerBlocks ==
  /\ worker_pc = "wait" /\ Blocks(WorkerThread, KickedOrStopped)
  /\ UNCHANGED <<policy, state, is_running, main_pc, worker_pc, app_frame, rendered>>

WorkerLeaves ==
  /\ worker_pc = "wait" /\ Proceeds(WorkerThread, KickedOrStopped)
  /\ state # "kick" /\ ~is_running
  /\ worker_pc' = "left"
  /\ UNCHANGED <<policy, state, is_running, blocked, main_pc, app_frame, rendered>>

WorkerStarts ==
  /\ worker_pc = "wait" /\ Proceeds(WorkerThread, KickedOrStopped)
  /\ state = "kick"
  /\ state' = "busy"
  /\ worker_pc' = "work"
  /\ UNCHANGED <<policy, is_running, blocked, main_pc, app_frame, rendered>>

WorkEnds ==
  /\ worker_pc = "work"
  /\ rendered' = rendered + 1
  /\ worker_pc' = "worked"
  /\ UNCHANGED <<policy, state, is_running, blocked, main_pc, app_frame>>

WorkerIdle ==
  /\ worker_pc = "worked"
  /\ state' = "idle"
  /\ worker_pc' = "idle_notify"
  /\ UNCHANGED <<policy, is_running, blocked, main_pc, app_frame, rendered>>

WorkerNotify ==
  /\ worker_pc = "idle_notify"
  /\ NotifyAll
  /\ worker_pc' = "wait"
  /\ UNCHANGED <<policy, state, is_running, main_pc, app_frame, rendered>>

(* The standard lets a condition variable wake a thread for no reason.      *)
SpuriousWakeup ==
  /\ \E t \in blocked : blocked' = blocked \ {t}
  /\ UNCHANGED <<policy, state, is_running, main_pc, worker_pc, app_frame, rendered>>

-----------------------------------------------------------------------------
MainThreadStep ==
  \/ StartFrame \/ WaitIdleBlocks \/ WaitIdleReturns \/ NextFrame
  \/ Kick \/ KickNotify \/ KickInline \/ WorkInlineEnds
  \/ Terminate \/ TerminateNotify \/ JoinWorker

WorkerThreadStep ==
  \/ WorkerBlocks \/ WorkerLeaves \/ WorkerStarts \/ WorkEnds \/ WorkerIdle \/ WorkerNotify

Joined == main_pc = "joined"
StaysJoined == Joined /\ UNCHANGED render_vars

RenderNext == MainThreadStep \/ WorkerThreadStep \/ SpuriousWakeup \/ StaysJoined

(* The operating system runs a thread that can run; the spurious wake-ups   *)
(* are not owed to anyone.                                                  *)
RenderFairness == WF_render_vars(MainThreadStep) /\ WF_render_vars(WorkerThreadStep)

RenderSpec == RenderInit /\ [][RenderNext]_render_vars /\ RenderFairness

-----------------------------------------------------------------------------
InIdleSection == main_pc \in {"next_frame", "prepare"}
Kicked == IF main_pc = "prepare" THEN app_frame - 1 ELSE app_frame
AtWork == worker_pc \in {"work", "worked"} \/ main_pc = "work"

(* Every variable has its type.                                             *)
RenderTypes ==
  /\ policy \in {"single_threaded", "multi_threaded"}
  /\ state \in {"idle", "busy", "kick"}
  /\ is_running \in BOOLEAN
  /\ blocked \subseteq {MainThread, WorkerThread}
  /\ main_pc \in {"update", "wait_idle", "next_frame", "prepare", "kick_notify", "work",
                  "terminate_notify", "join", "joined"}
  /\ worker_pc \in {"absent", "wait", "work", "worked", "idle_notify", "left"}
  /\ app_frame \in 0..MaxFrames
  /\ rendered \in 0..MaxFrames

(* While the main thread is between block_until_render_complete() and       *)
(* kick() no work runs and none is about to: the packets the two threads    *)
(* exchange carry no lock of their own.                                     *)
IdleSectionExclusive == InIdleSection => state = "idle" /\ ~AtWork

(* A kick is neither lost nor served twice, a frame kicked right before     *)
(* terminate() included: when the worker was joined nothing is left over.   *)
EveryKickRendered ==
  /\ rendered + (IF state = "kick" \/ worker_pc = "work" \/ main_pc = "work" THEN 1 ELSE 0)
       = Kicked
  /\ Joined => rendered = app_frame

(* Nobody sleeps through the notification it needs: a thread blocked on a   *)
(* condition that holds is about to be notified by the other one.           *)
NoMissedNotify ==
  /\ MainThread \in blocked /\ IdleOrStopped => worker_pc = "idle_notify"
  /\ WorkerThread \in blocked /\ KickedOrStopped => main_pc \in {"kick_notify", "terminate_notify"}

-----------------------------------------------------------------------------
(* The inductive invariant behind the properties above.                     *)

(* Which program counters and states go together.                           *)
PcInv ==
  /\ worker_pc = "absent" <=> ~MultiThreaded
  /\ MultiThreaded => main_pc # "work"
  /\ ~MultiThreaded => /\ main_pc \notin {"wait_idle", "kick_notify", "terminate_notify", "join"}
                       /\ state # "kick"
  /\ state = "busy" <=> AtWork
  /\ is_running <=> main_pc \notin {"terminate_notify", "join", "joined"}
  /\ worker_pc = "left" => ~is_running /\ state # "kick"
  /\ main_pc = "joined" => worker_pc \in {"left", "absent"}
  /\ main_pc \in {"wait_idle", "next_frame"} => app_frame < MaxFrames

(* A thread is blocked only where it waits.                                 *)
BlockedInv ==
  /\ MainThread \in blocked => main_pc = "wait_idle"
  /\ WorkerThread \in blocked => worker_pc = "wait"

RenderInv ==
  /\ RenderTypes /\ PcInv /\ BlockedInv
  /\ IdleSectionExclusive /\ EveryKickRendered /\ NoMissedNotify

-----------------------------------------------------------------------------
(* A frame that was kicked is rendered, also when terminate() follows at    *)
(* once; and terminate() joins the worker whatever it was doing.            *)
KickIsServed == \A n \in 1..MaxFrames : Kicked = n ~> rendered = n
TerminateJoins == ~is_running ~> Joined

(* The state machine keeps the contract the frame pipeline relies on.       *)
Handoff == INSTANCE FrameHandoff WITH
  kicked <- Kicked,
  holding <- InIdleSection

HandoffContract == Handoff!Spec
=============================================================================
