------------------------------ MODULE WorkerPool ------------------------------
(* async/worker_pool and async/job: worker threads with a deque each, an    *)
(* injection queue for everybody else, the epoch idle workers sleep on, and *)
(* the counters threads wait on by running other jobs meanwhile.            *)
(*                                                                          *)
(* The jobs form a tree, as nested parallel_for calls make it: a job        *)
(* schedules its children on a job_counter of its own, runs its inline part *)
(* (the first chunk) and waits for the counter.  Root is what the main      *)
(* thread runs before it destroys the pool.  Deque operations are one step  *)
(* each, which WorkStealingDeque justifies (DequeContract).                 *)
EXTENDS Naturals, FiniteSets, Sequences, SequencesExt

CONSTANTS
  Workers, Main,  \* the pool's threads, and the thread that owns the pool
  Jobs, Root,     \* the jobs; Root \in Jobs is never scheduled itself
  Children,       \* the jobs each job schedules, in order
  MayThrow,       \* the jobs whose inline part may throw
  Capacity,       \* slots of a worker's deque
  NoJob           \* the null job / exception pointer

ASSUME TreeAssumption ==
  /\ Main \notin Workers /\ Root \in Jobs /\ NoJob \notin Jobs /\ MayThrow \subseteq Jobs
  /\ IsFiniteSet(Jobs) /\ IsFiniteSet(Workers) /\ Capacity \in Nat
  /\ Children \in [Jobs -> Seq(Jobs)] /\ \A j \in Jobs : IsInjective(Children[j])
  /\ \A j \in Jobs \ {Root} : Cardinality({p \in Jobs : j \in ToSet(Children[p])}) = 1
  /\ \A p \in Jobs : Root \notin ToSet(Children[p])

VARIABLES
  deque,          \* each worker's deque
  injection,      \* _injection
  epoch, sleepers, is_stopping,
  waiting,        \* the workers blocked in _epoch.wait
  pc, stack,      \* what each thread does; the jobs it has entered, innermost last
  last_look,      \* the worker read the epoch before this look for work
  seen_epoch,     \* the epoch it read
  phase,          \* life of each job object
  scheduled,      \* how many children the job has scheduled
  pending, exception,   \* job_sync of the counter each job waits on
  thrown          \* what left the job: the job that threw it, or NoJob

queues == <<deque, injection>>
sync == <<epoch, sleepers, is_stopping, waiting>>
local == <<last_look, seen_epoch>>
jobs == <<phase, scheduled, pending, exception, thrown>>
vars == <<queues, sync, pc, stack, local, jobs>>

Threads == Workers \cup {Main}
Parent(j) == CHOOSE p \in Jobs : j \in ToSet(Children[p])
Top(t) == Last(stack[t])
Goto(t, label) == pc' = [pc EXCEPT ![t] = label]

Init ==
  /\ deque = [w \in Workers |-> <<>>] /\ injection = <<>>
  /\ epoch = 0 /\ sleepers = 0 /\ is_stopping = FALSE /\ waiting = {}
  /\ pc = [t \in Threads |-> IF t = Main THEN "run" ELSE "look"]
  /\ stack = [t \in Threads |-> IF t = Main THEN <<Root>> ELSE <<>>]
  /\ last_look = [t \in Threads |-> FALSE]
  /\ seen_epoch = [t \in Threads |-> 0]
  /\ phase = [j \in Jobs |-> IF j = Root THEN "running" ELSE "unborn"]
  /\ scheduled = [j \in Jobs |-> 0]
  /\ pending = [j \in Jobs |-> 0]
  /\ exception = [j \in Jobs |-> NoJob]
  /\ thrown = [j \in Jobs |-> NoJob]

-----------------------------------------------------------------------------
(* Seeded faults: operations of this module with one plausible bug each.    *)
(* Every property is checked to fail when its operation is so replaced.     *)
\* Submitting notifies without bumping the epoch.
NoBump(t) ==
  /\ pc[t] = "bump"
  /\ Goto(t, "notify")
  /\ UNCHANGED <<queues, sync, stack, local, jobs>>

\* wait() returns when there is nothing to help with, not when the counter is done.
WaitUntilIdle(t) ==
  /\ pc[t] = "wait" /\ injection = <<>> /\ \A w \in Workers : deque[w] = <<>>
  /\ LET j == Top(t)
     IN /\ phase' = [c \in Jobs |-> IF c \in ToSet(Children[j]) THEN "freed" ELSE phase[c]]
        /\ thrown' = [thrown EXCEPT ![j] = IF @ = NoJob THEN exception[j] ELSE @]
        /\ exception' = [exception EXCEPT ![j] = NoJob]
  /\ Goto(t, "ended")
  /\ UNCHANGED <<queues, sync, stack, local, scheduled, pending>>

\* wait() resets the counter before it looks for an exception.
WaitForgets(t) ==
  /\ pc[t] = "wait" /\ pending[Top(t)] = 0
  /\ LET j == Top(t)
     IN /\ phase' = [c \in Jobs |-> IF c \in ToSet(Children[j]) THEN "freed" ELSE phase[c]]
        /\ exception' = [exception EXCEPT ![j] = NoJob]
  /\ Goto(t, "ended")
  /\ UNCHANGED <<queues, sync, stack, local, scheduled, pending, thrown>>

\* A worker that wakes up stays counted as a sleeper.
WakeUncounted(w) ==
  /\ pc[w] = "woken" /\ w \notin waiting
  /\ Goto(w, "look")
  /\ UNCHANGED <<queues, epoch, sleepers, is_stopping, waiting, stack, local, jobs>>

\* The destructor notifies without bumping the epoch.
StopWithoutBump ==
  /\ pc[Main] = "stop_bump"
  /\ Goto(Main, "stop_notify")
  /\ UNCHANGED <<queues, sync, stack, local, jobs>>

-----------------------------------------------------------------------------
(* schedule(): the counter counts the job before any queue can show it.     *)
Emplace(t) ==
  /\ pc[t] = "run" /\ scheduled[Top(t)] < Len(Children[Top(t)])
  /\ LET j == Top(t)
         c == Children[j][scheduled[j] + 1]
     IN /\ scheduled' = [scheduled EXCEPT ![j] = @ + 1]
        /\ pending' = [pending EXCEPT ![j] = @ + 1]
        /\ phase' = [phase EXCEPT ![c] = "queued"]
  /\ Goto(t, "enqueue")
  /\ UNCHANGED <<queues, sync, stack, local, exception, thrown>>

(* _submit(): a worker's own deque, or the injection queue when the thread  *)
(* has none or its deque is full.                                           *)
Enqueue(t) ==
  /\ pc[t] = "enqueue"
  /\ LET c == Children[Top(t)][scheduled[Top(t)]]
     IN IF t \in Workers /\ Len(deque[t]) < Capacity
          THEN deque' = [deque EXCEPT ![t] = Append(@, c)] /\ UNCHANGED injection
          ELSE injection' = Append(injection, c) /\ UNCHANGED deque
  /\ Goto(t, "bump")
  /\ UNCHANGED <<sync, stack, local, jobs>>

BumpEpoch(t) ==
  /\ pc[t] = "bump"
  /\ epoch' = epoch + 1
  /\ Goto(t, "notify")
  /\ UNCHANGED <<queues, sleepers, is_stopping, waiting, stack, local, jobs>>

NotifyOne(t) ==
  /\ pc[t] = "notify"
  /\ IF sleepers > 0 /\ waiting # {}
       THEN \E w \in waiting : waiting' = waiting \ {w}
       ELSE UNCHANGED waiting
  /\ Goto(t, "run")
  /\ UNCHANGED <<queues, epoch, sleepers, is_stopping, stack, local, jobs>>

(* The job's own part: the first chunk of a parallel_for, or a leaf's work. *)
(* An exception in it is kept until every scheduled job has ended.          *)
RunInline(t) ==
  /\ pc[t] = "run" /\ scheduled[Top(t)] = Len(Children[Top(t)])
  /\ \/ UNCHANGED thrown
     \/ Top(t) \in MayThrow /\ thrown' = [thrown EXCEPT ![Top(t)] = Top(t)]
  /\ Goto(t, IF Children[Top(t)] = <<>> THEN "ended" ELSE "wait")
  /\ UNCHANGED <<queues, sync, stack, local, phase, scheduled, pending, exception>>

-----------------------------------------------------------------------------
(* wait() and _wait_ignoring_exceptions(): help until the counter is done,  *)
(* then reset it; the first exception of a child leaves the waiting job     *)
(* unless its inline part already threw.                                    *)
WaitReset(t) ==
  /\ pc[t] = "wait" /\ pending[Top(t)] = 0
  /\ LET j == Top(t)
     IN /\ phase' = [c \in Jobs |-> IF c \in ToSet(Children[j]) THEN "freed" ELSE phase[c]]
        /\ thrown' = [thrown EXCEPT ![j] = IF @ = NoJob THEN exception[j] ELSE @]
        /\ exception' = [exception EXCEPT ![j] = NoJob]
  /\ Goto(t, "ended")
  /\ UNCHANGED <<queues, sync, stack, local, scheduled, pending>>

(* job::run() after the callable: keep the first exception of the batch,    *)
(* then count the job down, which is the last access to it.                 *)
RecordException(t) ==
  /\ pc[t] = "ended" /\ Top(t) # Root /\ thrown[Top(t)] # NoJob
  /\ LET p == Parent(Top(t))
     IN exception' = [exception EXCEPT ![p] = IF @ = NoJob THEN thrown[Top(t)] ELSE @]
  /\ Goto(t, "count_down")
  /\ UNCHANGED <<queues, sync, stack, local, phase, scheduled, pending, thrown>>

CountDown(t) ==
  /\ \/ pc[t] = "count_down"
     \/ pc[t] = "ended" /\ Top(t) # Root /\ thrown[Top(t)] = NoJob
  /\ LET j == Top(t)
     IN /\ pending' = [pending EXCEPT ![Parent(j)] = @ - 1]
        /\ phase' = [phase EXCEPT ![j] = "done"]
  /\ stack' = [stack EXCEPT ![t] = Front(@)]
  /\ Goto(t, IF Len(stack[t]) = 1 THEN "look" ELSE "wait")
  /\ UNCHANGED <<queues, sync, local, scheduled, exception, thrown>>

-----------------------------------------------------------------------------
(* _try_acquire(): own deque, injection queue, then the other deques.  A    *)
(* worker looks from its loop, any thread from a wait whose counter it just *)
(* read as pending.                                                         *)
MayLook(t) == pc[t] = "look" \/ (pc[t] = "wait" /\ pending[Top(t)] > 0)

Enter(t, j) ==
  /\ stack' = [stack EXCEPT ![t] = Append(@, j)]
  /\ phase' = [phase EXCEPT ![j] = "running"]
  /\ Goto(t, "run")
  /\ last_look' = [last_look EXCEPT ![t] = FALSE]
  /\ seen_epoch' = [seen_epoch EXCEPT ![t] = 0]
  /\ UNCHANGED <<sync, scheduled, pending, exception, thrown>>

PopOwn(t) ==
  /\ MayLook(t)
  /\ IF t \in Workers /\ deque[t] # <<>>
       THEN /\ deque' = [deque EXCEPT ![t] = Front(@)]
            /\ Enter(t, Last(deque[t]))
            /\ UNCHANGED injection
       ELSE /\ Goto(t, "look_injection")
            /\ UNCHANGED <<queues, sync, stack, local, jobs>>

TakeInjected(t) ==
  /\ pc[t] = "look_injection"
  /\ IF injection # <<>>
       THEN /\ injection' = Tail(injection)
            /\ Enter(t, Head(injection))
            /\ UNCHANGED deque
       ELSE /\ Goto(t, "steal")
            /\ UNCHANGED <<queues, sync, stack, local, jobs>>

Steal(t) ==
  /\ pc[t] = "steal"
  /\ \E w \in Workers \ {t} :
       /\ deque[w] # <<>>
       /\ deque' = [deque EXCEPT ![w] = Tail(@)]
       /\ Enter(t, Head(deque[w]))
       /\ UNCHANGED injection

(* The scan of the other deques may miss a job: a deque fills after it was  *)
(* tried, or another thread wins the compare-exchange.  A waiting thread    *)
(* then reads its counter again, a worker goes on with its loop.            *)
StealNothing(t) ==
  /\ pc[t] = "steal"
  /\ Goto(t, IF stack[t] # <<>> THEN "wait" ELSE "idle")
  /\ UNCHANGED <<queues, sync, stack, local, jobs>>

-----------------------------------------------------------------------------
(* _worker_loop(): leave when stopping; spin a number of rounds, then read  *)
(* the epoch, look once more, and sleep on the epoch read.                  *)
Leave(w) ==
  /\ pc[w] = "idle" /\ is_stopping
  /\ Goto(w, "left")
  /\ UNCHANGED <<queues, sync, stack, local, jobs>>

Spin(w) ==
  /\ pc[w] = "idle" /\ ~is_stopping /\ ~last_look[w]
  /\ Goto(w, "look")
  /\ UNCHANGED <<queues, sync, stack, local, jobs>>

ReadEpoch(w) ==
  /\ pc[w] = "idle" /\ ~is_stopping /\ ~last_look[w]
  /\ seen_epoch' = [seen_epoch EXCEPT ![w] = epoch]
  /\ last_look' = [last_look EXCEPT ![w] = TRUE]
  /\ Goto(w, "look")
  /\ UNCHANGED <<queues, sync, stack, jobs>>

AddSleeper(w) ==
  /\ pc[w] = "idle" /\ ~is_stopping /\ last_look[w]
  /\ sleepers' = sleepers + 1
  /\ last_look' = [last_look EXCEPT ![w] = FALSE]
  /\ Goto(w, "sleep")
  /\ UNCHANGED <<queues, epoch, is_stopping, waiting, stack, seen_epoch, jobs>>

(* _epoch.wait(): compares and blocks in one step.                          *)
EpochWait(w) ==
  /\ pc[w] = "sleep"
  /\ waiting' = IF epoch = seen_epoch[w] THEN waiting \cup {w} ELSE waiting
  /\ seen_epoch' = [seen_epoch EXCEPT ![w] = 0]
  /\ Goto(w, "woken")
  /\ UNCHANGED <<queues, epoch, sleepers, is_stopping, stack, last_look, jobs>>

Wake(w) ==
  /\ pc[w] = "woken" /\ w \notin waiting
  /\ sleepers' = sleepers - 1
  /\ Goto(w, "look")
  /\ UNCHANGED <<queues, epoch, is_stopping, waiting, stack, local, jobs>>

-----------------------------------------------------------------------------
(* ~worker_pool(): raise the flag, bump the epoch, wake everyone, join.     *)
SetStopping ==
  /\ pc[Main] = "ended" /\ Top(Main) = Root
  /\ is_stopping' = TRUE
  /\ Goto(Main, "stop_bump")
  /\ UNCHANGED <<queues, epoch, sleepers, waiting, stack, local, jobs>>

StopBump ==
  /\ pc[Main] = "stop_bump"
  /\ epoch' = epoch + 1
  /\ Goto(Main, "stop_notify")
  /\ UNCHANGED <<queues, sleepers, is_stopping, waiting, stack, local, jobs>>

StopNotifyAll ==
  /\ pc[Main] = "stop_notify"
  /\ waiting' = {}
  /\ Goto(Main, "join")
  /\ UNCHANGED <<queues, epoch, sleepers, is_stopping, stack, local, jobs>>

Join ==
  /\ pc[Main] = "join" /\ \A w \in Workers : pc[w] = "left"
  /\ Goto(Main, "joined")
  /\ UNCHANGED <<queues, sync, stack, local, jobs>>

-----------------------------------------------------------------------------
ThreadStep(t) ==
  \/ Emplace(t) \/ Enqueue(t) \/ BumpEpoch(t) \/ NotifyOne(t) \/ RunInline(t)
  \/ WaitReset(t) \/ RecordException(t) \/ CountDown(t)
  \/ PopOwn(t) \/ TakeInjected(t) \/ Steal(t) \/ StealNothing(t)

WorkerStep(w) ==
  ThreadStep(w) \/ Leave(w) \/ Spin(w) \/ ReadEpoch(w) \/ AddSleeper(w) \/ EpochWait(w) \/ Wake(w)

MainStep == ThreadStep(Main) \/ SetStopping \/ StopBump \/ StopNotifyAll \/ Join

Done == pc[Main] = "joined"
Terminated == Done /\ UNCHANGED vars

Next == MainStep \/ (\E w \in Workers : WorkerStep(w)) \/ Terminated

(* The operating system runs every thread that can run.                     *)
Fairness == WF_vars(MainStep) /\ \A w \in Workers : WF_vars(WorkerStep(w))

Spec == Init /\ [][Next]_vars /\ Fairness

-----------------------------------------------------------------------------
(* Every variable has its type; epoch and sleepers stay within what the     *)
(* submits and the workers can add to them.                                 *)
TypeOK ==
  /\ DOMAIN deque = Workers /\ \A w \in Workers : Len(deque[w]) <= Capacity
  /\ ToSet(injection) \subseteq Jobs /\ \A t \in Threads : ToSet(stack[t]) \subseteq Jobs
  /\ epoch \in 0..Cardinality(Jobs)
  /\ sleepers \in 0..Cardinality(Workers) /\ waiting \subseteq Workers
  /\ is_stopping \in BOOLEAN
  /\ \A t \in Threads : seen_epoch[t] <= epoch
  /\ phase \in [Jobs -> {"unborn", "queued", "running", "done", "freed"}]
  /\ pending \in [Jobs -> 0..Cardinality(Jobs)]
  /\ exception \in [Jobs -> Jobs \cup {NoJob}] /\ thrown \in [Jobs -> Jobs \cup {NoJob}]

Queued == (UNION {ToSet(deque[w]) : w \in Workers}) \cup ToSet(injection)
Running == (UNION {ToSet(stack[t]) : t \in Threads}) \ {Root}

(* A job object is destroyed with its counter, so no queue and no thread    *)
(* may still hold one whose waiter has gone on (job.hpp: the job must not   *)
(* be touched once it is counted down; worker_pool.hpp: the scheduled       *)
(* chunks reference the waiter's stack frame).                              *)
NoDanglingJob ==
  /\ \A j \in Queued : phase[j] = "queued"
  /\ \A j \in Running : phase[j] = "running"

(* wait() rethrows what a job of the batch threw, at every level of the     *)
(* tree: a job that left its wait and did not throw itself has thrown what  *)
(* one of its children threw, and nothing only if none of them threw.       *)
Left(j) == phase[j] \in {"done", "freed"} \/ (j = Root /\ is_stopping)
ThrownBelow(j) == {thrown[c] : c \in ToSet(Children[j])} \ {NoJob}
ExceptionReachesWaiter ==
  \A j \in Jobs : Left(j) /\ thrown[j] # j =>
    IF ThrownBelow(j) = {} THEN thrown[j] = NoJob ELSE thrown[j] \in ThrownBelow(j)

Submitting(t) == pc[t] \in {"bump", "notify"}

(* No lost wake-up: when every worker sleeps, a queued job is one whose     *)
(* submitter has not yet bumped the epoch and notified; and a worker never  *)
(* sleeps on work in its own deque.                                         *)
NoStrandedJob ==
  /\ Workers \subseteq waiting /\ Queued # {} => \E t \in Threads : Submitting(t)
  /\ \A w \in waiting : deque[w] = <<>>

(* The pool can always be shut down: every nested wait ends and every       *)
(* worker, asleep or not, leaves its loop and is joined.                    *)
PoolJoins == <>Done
=============================================================================
