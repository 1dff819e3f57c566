----------------------------- MODULE ThreadProofs -----------------------------
(* Theorems about the program's threads: the worker pool, for every tree of *)
(* jobs, number of workers and capacity of their deques; and, at the end,   *)
(* the render thread, for every number of frames.                           *)
EXTENDS WorkerPool, RenderThread, SequenceTheorems, FiniteSetTheorems, TLAPS

(* The worker pool.  Names for what its invariants speak of: the children   *)
(* of a job, the job a submitting thread holds, the labels of the threads.  *)
Kids(j) == ToSet(Children[j])
Held(t) == Children[Top(t)][scheduled[Top(t)]]
Enqueued(t) == pc[t] \in {"enqueue", "bump", "notify"}
Stopping == {"stop_bump", "stop_notify", "join", "joined"}
InLoop == {"look", "idle", "sleep", "woken", "left"}
Looking == {"look_injection", "steal"}
Label == InLoop \cup Looking \cup Stopping
           \cup {"run", "enqueue", "bump", "notify", "wait", "ended", "count_down"}

Types ==
  /\ deque \in [Workers -> Seq(Jobs)] /\ \A w \in Workers : Len(deque[w]) <= Capacity
  /\ injection \in Seq(Jobs) /\ stack \in [Threads -> Seq(Jobs)]
  /\ pc \in [Threads -> Label]
  /\ epoch \in Nat /\ sleepers \in Nat /\ waiting \subseteq Workers /\ is_stopping \in BOOLEAN
  /\ last_look \in [Threads -> BOOLEAN] /\ seen_epoch \in [Threads -> Nat]
  /\ phase \in [Jobs -> {"unborn", "queued", "running", "done", "freed"}]
  /\ scheduled \in [Jobs -> Nat] /\ pending \in [Jobs -> Nat]
  /\ exception \in [Jobs -> Jobs \cup {NoJob}] /\ thrown \in [Jobs -> Jobs \cup {NoJob}]

(* Where a thread can be: only a worker without a job is in the loop, only  *)
(* the main thread, back in the root, shuts the pool down.                  *)
Places ==
  /\ stack[Main] # <<>> /\ stack[Main][1] = Root
  /\ is_stopping <=> pc[Main] \in Stopping
  /\ \A t \in Threads :
       /\ pc[t] \in InLoop => stack[t] = <<>>
       /\ pc[t] \notin InLoop \cup Looking => stack[t] # <<>>
       /\ pc[t] \in Stopping => t = Main /\ Top(Main) = Root
       /\ pc[t] = "count_down" => Top(t) # Root

(* A job on a stack is running, and is there once.                          *)
Stacks ==
  /\ \A t \in Threads : \A i \in DOMAIN stack[t] : phase[stack[t][i]] = "running"
  /\ \A t, u \in Threads : \A i \in DOMAIN stack[t], k \in DOMAIN stack[u] :
       stack[t][i] = stack[u][k] => t = u /\ i = k

(* A job that has others above it, or waits or ends, has scheduled all its  *)
(* children.                                                                *)
Waits ==
  \A t \in Threads : \A i \in DOMAIN stack[t] :
    i < Len(stack[t]) \/ pc[t] \in {"wait", "ended", "count_down"} \cup Looking \cup Stopping =>
      scheduled[stack[t][i]] = Len(Children[stack[t][i]])

(* The children are scheduled in order, each of them once.                  *)
Schedules ==
  /\ \A j \in Jobs : scheduled[j] <= Len(Children[j])
  /\ \A j \in Jobs : \A n \in 1..Len(Children[j]) :
       phase[Children[j][n]] = "unborn" <=> n > scheduled[j]
  /\ \A t \in Threads : Enqueued(t) => scheduled[Top(t)] > 0

(* A job in a queue waits to be run, and is in one queue once; the job a    *)
(* thread is about to enqueue is in none.                                   *)
Queues ==
  /\ \A w \in Workers : \A i \in DOMAIN deque[w] : phase[deque[w][i]] = "queued"
  /\ \A i \in DOMAIN injection : phase[injection[i]] = "queued"
  /\ \A w, v \in Workers : \A i \in DOMAIN deque[w], k \in DOMAIN deque[v] :
       deque[w][i] = deque[v][k] => w = v /\ i = k
  /\ \A i, k \in DOMAIN injection : injection[i] = injection[k] => i = k
  /\ \A w \in Workers : \A i \in DOMAIN deque[w], k \in DOMAIN injection : deque[w][i] # injection[k]
  /\ \A t \in Threads : pc[t] = "enqueue" =>
       /\ phase[Held(t)] = "queued"
       /\ \A w \in Workers : \A i \in DOMAIN deque[w] : deque[w][i] # Held(t)
       /\ \A i \in DOMAIN injection : injection[i] # Held(t)

(* A counter counts the children that have not ended.                       *)
Live(j) == {c \in Kids(j) : phase[c] \in {"queued", "running"}}
Counts == \A j \in Jobs : pending[j] = Cardinality(Live(j))

(* A job that has left its wait has freed its children, and no other has.   *)
AtTop(j, labels) == \E t \in Threads : stack[t] # <<>> /\ Top(t) = j /\ pc[t] \in labels
Ended(j) == phase[j] \in {"done", "freed"} \/ AtTop(j, {"ended", "count_down"} \cup Stopping)
Ends == \A j \in Jobs : \A c \in Kids(j) : Ended(j) <=> phase[c] = "freed"

(* What a job can have thrown, as far as it has come.                       *)
Throws ==
  /\ \A j \in Jobs : phase[j] \in {"unborn", "queued"} => thrown[j] = NoJob
  /\ \A t \in Threads : Enqueued(t) \/ pc[t] = "run" => thrown[Top(t)] = NoJob
  /\ \A j \in Jobs : ~Ended(j) => thrown[j] \in {NoJob, j}

(* A counter holds what a child threw as soon as one that threw has stored  *)
(* it, until the wait takes it.                                             *)
Recorded(j) == phase[j] = "done" \/ AtTop(j, {"count_down"})
Exceptions ==
  \A j \in Jobs :
    /\ exception[j] # NoJob => exception[j] \in ThrownBelow(j)
    /\ \A c \in Kids(j) : Recorded(c) /\ thrown[c] # NoJob => exception[j] # NoJob
    /\ Ended(j) /\ thrown[j] # j =>
         IF ThrownBelow(j) = {} THEN thrown[j] = NoJob ELSE thrown[j] \in ThrownBelow(j)

(* The epoch counts the jobs whose submitter has bumped it, and the stop.   *)
Unbumped == {Held(t) : t \in {u \in Threads : pc[u] \in {"enqueue", "bump"}}}
Bumped == {j \in Jobs \ {Root} : phase[j] # "unborn"} \ Unbumped
StopBumped == pc[Main] \in {"stop_notify", "join", "joined"}
Epochs ==
  /\ epoch = Cardinality(Bumped) + (IF StopBumped THEN 1 ELSE 0)
  /\ \A t \in Threads : seen_epoch[t] <= epoch

(* The counter of sleepers counts the workers around _epoch.wait.           *)
Sleeping == {w \in Workers : pc[w] \in {"sleep", "woken"}}
Sleeps ==
  /\ sleepers = Cardinality(Sleeping)
  /\ \A w \in waiting : pc[w] = "woken"

(* A worker that has tried its own deque has left nothing in it.            *)
Empties == \A w \in Workers : pc[w] \in Looking \cup {"idle", "sleep", "woken", "left"} => deque[w] = <<>>

(* A worker on its last look that has found the injection queue empty, and  *)
(* would still block on the epoch it read, has missed nothing: a job that   *)
(* came since is one whose submitter is about to bump the epoch.            *)
Looked(w) == pc[w] = "sleep" \/ (last_look[w] /\ pc[w] \in {"steal", "idle"})
Looks ==
  \A w \in Workers : Looked(w) /\ seen_epoch[w] = epoch /\ injection # <<>> =>
    \E t \in Threads : pc[t] = "bump"

Core == /\ Places /\ Stacks /\ Waits /\ Schedules /\ Queues /\ Counts /\ Ends
        /\ Throws /\ Exceptions
Sync == Epochs /\ Sleeps /\ Empties /\ Looks
IInv == Types /\ Core /\ Sync

(* All workers asleep leave no job but one whose submitter will notify.     *)
Woken == Workers \subseteq waiting /\ injection # <<>> => \E t \in Threads : Submitting(t)

-----------------------------------------------------------------------------

-----------------------------------------------------------------------------
(* What the assumption says of the tree of jobs.                            *)
LEMMA Tree ==
  /\ \A p \in Jobs : /\ Children[p] \in Seq(Jobs) /\ Len(Children[p]) \in Nat
                     /\ DOMAIN Children[p] = 1..Len(Children[p])
                     /\ Kids(p) \subseteq Jobs \ {Root} /\ IsFiniteSet(Kids(p))
  /\ \A p \in Jobs : \A n \in 1..Len(Children[p]) :
       Children[p][n] \in Kids(p) /\ Children[p][n] \in Jobs \ {Root}
  /\ \A p \in Jobs : \A m, n \in 1..Len(Children[p]) : Children[p][m] = Children[p][n] => m = n
  /\ \A p \in Jobs : \A c \in Kids(p) : \E n \in 1..Len(Children[p]) : c = Children[p][n]
  /\ \A p, q \in Jobs : Kids(p) \cap Kids(q) # {} => p = q
<1>1. ASSUME NEW p \in Jobs
      PROVE  /\ Children[p] \in Seq(Jobs) /\ Len(Children[p]) \in Nat
             /\ DOMAIN Children[p] = 1..Len(Children[p])
             /\ Kids(p) \subseteq Jobs \ {Root} /\ IsFiniteSet(Kids(p))
  <2>1. /\ Children[p] \in Seq(Jobs) /\ Len(Children[p]) \in Nat
        /\ DOMAIN Children[p] = 1..Len(Children[p])
        /\ \A n \in 1..Len(Children[p]) : Children[p][n] \in Jobs
    BY TreeAssumption
  <2>2. Kids(p) \subseteq Jobs \ {Root}
    BY <2>1, TreeAssumption DEF Kids, ToSet
  <2> QED
    BY <2>1, <2>2, TreeAssumption, FS_Subset
<1>2. \A p \in Jobs : \A n \in 1..Len(Children[p]) : Children[p][n] \in Kids(p)
  BY <1>1 DEF Kids, ToSet
<1>3. \A p \in Jobs : \A m, n \in 1..Len(Children[p]) : Children[p][m] = Children[p][n] => m = n
  BY <1>1, TreeAssumption DEF IsInjective
<1>4. \A p \in Jobs : \A c \in Kids(p) : \E n \in 1..Len(Children[p]) : c = Children[p][n]
  BY <1>1 DEF Kids, ToSet
<1>5. ASSUME NEW p \in Jobs, NEW q \in Jobs, Kids(p) \cap Kids(q) # {} PROVE p = q
  <2>1. PICK c \in Kids(p) : c \in Kids(q)
    BY <1>5
  <2> DEFINE S == {r \in Jobs : c \in ToSet(Children[r])}
  <2>2. IsFiniteSet(S) /\ Cardinality(S) = 1
    <3>1. c \in Jobs \ {Root}
      BY <1>1, <2>1
    <3>2. Cardinality(S) = 1
      BY <3>1, TreeAssumption
    <3> QED
      BY <3>2, TreeAssumption, FS_Subset
  <2>3. PICK x : S = {x}
    BY <2>2, FS_Singleton
  <2> QED
    BY <2>1, <2>3 DEF Kids
<1> QED
  BY <1>1, <1>2, <1>3, <1>4, <1>5

(* The parent of a child is the job that schedules it.                      *)
LEMMA Parents ==
  /\ \A p \in Jobs : \A c \in Kids(p) : Parent(c) = p
  /\ \A c \in Jobs \ {Root} : Parent(c) \in Jobs /\ c \in Kids(Parent(c))
<1>1. ASSUME NEW p \in Jobs, NEW c \in Kids(p) PROVE Parent(c) = p
  <2>1. c \in ToSet(Children[p]) /\ \A q \in Jobs : c \in ToSet(Children[q]) => q = p
    BY Tree DEF Kids
  <2> QED
    BY <2>1 DEF Parent
<1>2. ASSUME NEW c \in Jobs \ {Root} PROVE \E p \in Jobs : c \in Kids(p)
  <2> DEFINE S == {p \in Jobs : c \in ToSet(Children[p])}
  <2>1. IsFiniteSet(S) /\ Cardinality(S) = 1
    <3>1. Cardinality(S) = 1
      BY TreeAssumption
    <3> QED
      BY <3>1, TreeAssumption, FS_Subset
  <2>2. PICK x : S = {x}
    BY <2>1, FS_Singleton
  <2> QED
    BY <2>2 DEF Kids
<1> QED
  BY <1>1, <1>2

(* The stacks: entering a job, and leaving it.                              *)
LEMMA Push ==
  ASSUME Types, NEW t \in Threads, NEW j \in Jobs, stack' = [stack EXCEPT ![t] = Append(@, j)]
  PROVE  /\ stack' \in [Threads -> Seq(Jobs)]
         /\ \A u \in Threads : u # t => stack'[u] = stack[u]
         /\ Len(stack[t]) \in Nat /\ Len(stack'[t]) = Len(stack[t]) + 1 /\ stack'[t] # <<>>
         /\ DOMAIN stack[t] = 1..Len(stack[t]) /\ DOMAIN stack'[t] = 1..(Len(stack[t]) + 1)
         /\ stack'[t][Len(stack[t]) + 1] = j
         /\ \A i \in 1..Len(stack[t]) : stack'[t][i] = stack[t][i]
<1>1. stack[t] \in Seq(Jobs) /\ stack'[t] = Append(stack[t], j)
  BY DEF Types
<1>2. stack' \in [Threads -> Seq(Jobs)] /\ \A u \in Threads : u # t => stack'[u] = stack[u]
  BY <1>1 DEF Types
<1> DEFINE s == stack[t]
           r == stack'[t]
<1>3. s \in Seq(Jobs) /\ r = Append(s, j)
  BY <1>1
<1> HIDE DEF s, r
<1>4. /\ Len(s) \in Nat /\ Len(r) = Len(s) + 1 /\ r # <<>>
      /\ DOMAIN s = 1..Len(s) /\ DOMAIN r = 1..(Len(s) + 1) /\ r[Len(s) + 1] = j
      /\ \A i \in 1..Len(s) : r[i] = s[i]
  BY <1>3
<1> QED
  BY <1>2, <1>4 DEF s, r

(* Leaving the job on top.                                                 *)
LEMMA Pop ==
  ASSUME Types, NEW t \in Threads, stack[t] # <<>>, stack' = [stack EXCEPT ![t] = Front(@)]
  PROVE  /\ stack' \in [Threads -> Seq(Jobs)]
         /\ \A u \in Threads : u # t => stack'[u] = stack[u]
         /\ Len(stack[t]) \in Nat \ {0} /\ Len(stack'[t]) = Len(stack[t]) - 1
         /\ stack'[t] = <<>> <=> Len(stack[t]) = 1
         /\ DOMAIN stack[t] = 1..Len(stack[t]) /\ DOMAIN stack'[t] = 1..(Len(stack[t]) - 1)
         /\ \A i \in 1..(Len(stack[t]) - 1) : stack'[t][i] = stack[t][i]
<1>1. stack[t] \in Seq(Jobs) /\ stack'[t] = SubSeq(stack[t], 1, Len(stack[t]) - 1)
  BY DEF Types, Front
<1> DEFINE s == stack[t]
           r == stack'[t]
<1>3. s \in Seq(Jobs) /\ s # <<>> /\ r = SubSeq(s, 1, Len(s) - 1)
  BY <1>1
<1> HIDE DEF s, r
<1>4. /\ Len(s) \in Nat \ {0} /\ Len(r) = Len(s) - 1 /\ r \in Seq(Jobs)
      /\ DOMAIN s = 1..Len(s) /\ DOMAIN r = 1..(Len(s) - 1)
      /\ \A i \in 1..(Len(s) - 1) : r[i] = s[i]
  <2>1. Len(s) \in Nat \ {0} /\ DOMAIN s = 1..Len(s)
    BY <1>3
  <2>2. r \in Seq(Jobs) /\ Len(r) = Len(s) - 1
    BY <1>3, <2>1, SubSeqProperties
  <2>3. ASSUME NEW i \in 1..(Len(s) - 1) PROVE r[i] = s[i]
    BY <1>3, <2>1, SubSeqProperties
  <2> QED
    BY <2>1, <2>2, <2>3
<1>5. r = <<>> <=> Len(s) = 1
  BY <1>4
<1>2. stack' \in [Threads -> Seq(Jobs)] /\ \A u \in Threads : u # t => stack'[u] = stack[u]
  BY <1>1, <1>4 DEF Types, s, r, Front
<1> QED
  BY <1>2, <1>4, <1>5 DEF s, r

(* The job on top of a stack, and that no other stack shows it.             *)
LEMMA Tops ==
  ASSUME Types, Stacks, NEW t \in Threads, stack[t] # <<>>
  PROVE  /\ Len(stack[t]) \in DOMAIN stack[t] /\ Top(t) = stack[t][Len(stack[t])]
         /\ Len(stack[t]) \in Nat \ {0} /\ DOMAIN stack[t] = 1..Len(stack[t])
         /\ Top(t) \in Jobs /\ phase[Top(t)] = "running"
         /\ \A u \in Threads : stack[u] # <<>> /\ Top(u) = Top(t) => u = t
<1>1. ASSUME NEW u \in Threads, stack[u] # <<>>
      PROVE  /\ Len(stack[u]) \in DOMAIN stack[u] /\ Top(u) = stack[u][Len(stack[u])]
             /\ Len(stack[u]) \in Nat \ {0} /\ DOMAIN stack[u] = 1..Len(stack[u])
             /\ Top(u) \in Jobs
  <2> DEFINE s == stack[u]
  <2>1. s \in Seq(Jobs) /\ s # <<>>
    BY <1>1 DEF Types
  <2> HIDE DEF s
  <2>2. Len(s) \in Nat \ {0} /\ DOMAIN s = 1..Len(s) /\ Len(s) \in DOMAIN s /\ s[Len(s)] \in Jobs
    BY <2>1
  <2> QED
    BY <2>2 DEF s, Top, Last
<1>2. \A u \in Threads : stack[u] # <<>> /\ Top(u) = Top(t) => u = t
  BY <1>1 DEF Stacks
<1> QED
  BY <1>1, <1>2 DEF Stacks

(* The job a submitting thread holds is a child of the one it runs, and no  *)
(* other thread holds it.                                                   *)
LEMMA Helds ==
  ASSUME Types, Places, Stacks, Schedules, NEW t \in Threads, Enqueued(t)
  PROVE  /\ stack[t] # <<>> /\ Top(t) \in Jobs
         /\ scheduled[Top(t)] \in 1..Len(Children[Top(t)])
         /\ Held(t) \in Kids(Top(t)) /\ Held(t) \in Jobs \ {Root} /\ phase[Held(t)] # "unborn"
         /\ \A u \in Threads : Enqueued(u) /\ Held(u) = Held(t) => u = t
<1>1. ASSUME NEW u \in Threads, Enqueued(u)
      PROVE  /\ stack[u] # <<>> /\ Top(u) \in Jobs
             /\ scheduled[Top(u)] \in 1..Len(Children[Top(u)])
             /\ Held(u) \in Kids(Top(u)) /\ Held(u) \in Jobs \ {Root}
             /\ phase[Held(u)] # "unborn"
  <2>1. stack[u] # <<>>
    BY <1>1 DEF Places, Enqueued, InLoop, Looking
  <2>2. Top(u) \in Jobs
    BY <2>1, Tops
  <2>3. scheduled[Top(u)] \in 1..Len(Children[Top(u)])
    <3>1. scheduled[Top(u)] \in Nat /\ Len(Children[Top(u)]) \in Nat
      BY <2>2, Tree DEF Types
    <3> QED
      BY <1>1, <2>2, <3>1 DEF Schedules
  <2> QED
    BY <2>1, <2>2, <2>3, Tree DEF Held, Schedules
<1>2. ASSUME NEW u \in Threads, Enqueued(u), Held(u) = Held(t) PROVE u = t
  <2>1. Top(u) = Top(t)
    BY <1>1, <1>2, Tree
  <2> QED
    BY <1>1, <1>2, <2>1, Tops
<1> QED
  BY <1>1, <1>2

(* What the counters hold is kept when no exception moves, no wait is left  *)
(* and no other job has stored its exception.                               *)
LEMMA ExceptionsKept ==
  ASSUME Exceptions, exception' = exception, thrown' = thrown,
         \A k \in Jobs : Ended(k)' <=> Ended(k),
         \A k \in Jobs : Recorded(k)' /\ thrown[k] # NoJob => Recorded(k)
  PROVE  Exceptions'
<1>1. \A k \in Jobs : ThrownBelow(k)' = ThrownBelow(k)
  BY DEF ThrownBelow
<1>2. ASSUME NEW k \in Jobs
      PROVE  /\ exception'[k] # NoJob => exception'[k] \in ThrownBelow(k)'
             /\ \A d \in Kids(k) : Recorded(d)' /\ thrown'[d] # NoJob => exception'[k] # NoJob
             /\ Ended(k)' /\ thrown'[k] # k =>
                  IF ThrownBelow(k)' = {} THEN thrown'[k] = NoJob
                                          ELSE thrown'[k] \in ThrownBelow(k)'
  <2>1. exception'[k] # NoJob => exception'[k] \in ThrownBelow(k)'
    BY <1>1 DEF Exceptions
  <2>2. ASSUME NEW d \in Kids(k), Recorded(d)', thrown'[d] # NoJob PROVE exception'[k] # NoJob
    <3>1. d \in Jobs
      BY Tree
    <3> QED
      BY <2>2, <3>1 DEF Exceptions
  <2>3. ASSUME Ended(k)', thrown'[k] # k
        PROVE  IF ThrownBelow(k)' = {} THEN thrown'[k] = NoJob
                                       ELSE thrown'[k] \in ThrownBelow(k)'
    BY <1>1, <2>3 DEF Exceptions
  <2> QED
    BY <2>1, <2>2, <2>3
<1> QED
  BY <1>2 DEF Exceptions

-----------------------------------------------------------------------------
(* The steps that leave the jobs, the queues and the stacks alone.          *)
Moves ==
  {<<"bump", "notify">>, <<"notify", "run">>, <<"look", "look_injection">>,
   <<"wait", "look_injection">>, <<"look_injection", "steal">>, <<"steal", "wait">>,
   <<"steal", "idle">>, <<"idle", "left">>, <<"idle", "look">>, <<"idle", "sleep">>,
   <<"sleep", "woken">>, <<"woken", "look">>, <<"ended", "stop_bump">>,
   <<"stop_bump", "stop_notify">>, <<"stop_notify", "join">>, <<"join", "joined">>}

(* They keep what holds of the jobs.                                        *)
LEMMA Quiet ==
  ASSUME IInv, NEW t \in Threads, NEW l, <<pc[t], l>> \in Moves, Goto(t, l),
         UNCHANGED <<queues, stack, jobs>>,
         l = "wait" => stack[t] # <<>>, l = "idle" => stack[t] = <<>>,
         l = "stop_bump" => t = Main /\ Top(Main) = Root,
         is_stopping' = IF l = "stop_bump" THEN TRUE ELSE is_stopping
  PROVE  Core'
<1> USE DEF IInv, Core
<1>1. /\ pc' = [pc EXCEPT ![t] = l] /\ pc \in [Threads -> Label] /\ pc'[t] = l
      /\ \A u \in Threads : u # t => pc'[u] = pc[u]
  BY DEF Goto, Types
<1>2. /\ deque' = deque /\ injection' = injection /\ stack' = stack /\ phase' = phase
      /\ scheduled' = scheduled /\ pending' = pending /\ exception' = exception
      /\ thrown' = thrown
  BY DEF queues, jobs
<1>3. \A u \in Threads : pc'[u] \in {"enqueue", "count_down"} => pc[u] = pc'[u]
  BY <1>1 DEF Moves
<1>4. \A u \in Threads : Enqueued(u)' => Enqueued(u)
  BY <1>1 DEF Moves, Enqueued
<1>5. ASSUME NEW j \in Jobs PROVE Ended(j)' <=> Ended(j)
  <2>1. \A u \in Threads : pc'[u] \in {"ended", "count_down"} \cup Stopping
                             <=> pc[u] \in {"ended", "count_down"} \cup Stopping
    BY <1>1 DEF Moves, Stopping
  <2> QED
    BY <1>2, <2>1 DEF Ended, AtTop, Top
<1>6. ASSUME NEW j \in Jobs PROVE Recorded(j)' <=> Recorded(j)
  <2>1. \A u \in Threads : pc'[u] \in {"count_down"} <=> pc[u] \in {"count_down"}
    BY <1>1 DEF Moves
  <2> QED
    BY <1>2, <2>1 DEF Recorded, AtTop, Top
<1>7. Places'
  BY <1>1, <1>2 DEF Places, Top, Moves, InLoop, Looking, Stopping, Threads
<1>8. Stacks'
  BY <1>2 DEF Stacks
<1>9. Waits'
  <2> DEFINE Labels == {"wait", "ended", "count_down"} \cup Looking \cup Stopping
  <2>1. \A u \in Threads : pc'[u] \in Labels => pc[u] \in Labels \/ stack[u] = <<>>
    BY <1>1 DEF Moves, Looking, Stopping, Places, InLoop
  <2>2. \A u \in Threads : stack[u] = <<>> => DOMAIN stack[u] = {}
    OBVIOUS
  <2> HIDE DEF Labels
  <2>3. \A u \in Threads : \A i \in DOMAIN stack[u] :
          i < Len(stack[u]) \/ pc[u] \in Labels =>
            scheduled[stack[u][i]] = Len(Children[stack[u][i]])
    BY DEF Waits, Labels
  <2>4. \A u \in Threads : \A i \in DOMAIN stack'[u] :
          i < Len(stack'[u]) \/ pc'[u] \in Labels =>
            scheduled'[stack'[u][i]] = Len(Children[stack'[u][i]])
    BY <1>2, <2>1, <2>2, <2>3
  <2> QED
    BY <2>4 DEF Waits, Labels
<1>10. Schedules'
  BY <1>2, <1>4 DEF Schedules, Top
<1>11. Queues'
  BY <1>2, <1>3 DEF Queues, Held, Top
<1>12. Counts'
  BY <1>2 DEF Counts, Live
<1>13. Ends'
  BY <1>2, <1>5, Tree DEF Ends
<1>14. Throws'
  <2>1. \A u \in Threads : Enqueued(u)' \/ pc'[u] = "run" => Enqueued(u) \/ pc[u] = "run"
    BY <1>1 DEF Moves, Enqueued
  <2> QED
    BY <1>2, <1>5, <2>1 DEF Throws, Top
<1>15. Exceptions'
  BY <1>2, <1>5, <1>6, ExceptionsKept
<1> QED
  BY <1>7, <1>8, <1>9, <1>10, <1>11, <1>12, <1>13, <1>14, <1>15

(* Scheduling a child: its parent's counter counts it, nothing else does.   *)
LEMMA EmplaceCore == ASSUME IInv, NEW t \in Threads, Emplace(t) PROVE Core'
<1> USE DEF IInv, Core
<1>1. PICK j \in Jobs :
        /\ pc \in [Threads -> Label] /\ pc[t] = "run" /\ stack[t] # <<>>
        /\ j = Top(t) /\ scheduled[j] \in Nat /\ Len(Children[j]) \in Nat
        /\ scheduled[j] < Len(Children[j])
  <2>1. pc[t] = "run" /\ stack[t] # <<>>
    BY DEF Emplace, Places, InLoop, Looking
  <2>2. Top(t) \in Jobs
    BY <2>1, Tops
  <2> QED
    BY <2>1, <2>2, Tree DEF Types, Emplace
<1>2. PICK c \in Kids(j) :
        c = Children[j][scheduled[j] + 1] /\ c \in Jobs \ {Root} /\ phase[c] = "unborn"
  <2>1. scheduled[j] + 1 \in 1..Len(Children[j]) /\ scheduled[j] + 1 > scheduled[j]
    BY <1>1
  <2> QED
    BY <1>1, <2>1, Tree DEF Schedules
<1>3. /\ scheduled' = [scheduled EXCEPT ![j] = @ + 1]
      /\ pending' = [pending EXCEPT ![j] = @ + 1]
      /\ phase' = [phase EXCEPT ![c] = "queued"]
      /\ pc' = [pc EXCEPT ![t] = "enqueue"]
      /\ deque' = deque /\ injection' = injection /\ stack' = stack /\ exception' = exception
      /\ thrown' = thrown /\ is_stopping' = is_stopping
  BY <1>1, <1>2 DEF Emplace, Goto, queues, sync
<1>4. /\ pc'[t] = "enqueue" /\ \A u \in Threads : u # t => pc'[u] = pc[u]
      /\ phase'[c] = "queued" /\ \A k \in Jobs : k # c => phase'[k] = phase[k]
      /\ scheduled'[j] = scheduled[j] + 1
      /\ \A k \in Jobs : k # j => scheduled'[k] = scheduled[k]
  BY <1>1, <1>2, <1>3 DEF Types
<1>5. \A u \in Threads : u # t /\ stack[u] # <<>> => Top(u) \in Jobs /\ Top(u) # j
  BY <1>1, Tops
<1>6. Top(t)' = j /\ \A u \in Threads : Top(u)' = Top(u)
  BY <1>1, <1>3 DEF Top
<1>7. ASSUME NEW k \in Jobs PROVE Ended(k)' <=> Ended(k)
  <2>1. \A u \in Threads : pc'[u] \in {"ended", "count_down"} \cup Stopping
                             <=> pc[u] \in {"ended", "count_down"} \cup Stopping
    BY <1>1, <1>4 DEF Stopping
  <2>2. phase'[k] \in {"done", "freed"} <=> phase[k] \in {"done", "freed"}
    BY <1>2, <1>4
  <2> QED
    BY <1>3, <1>6, <2>1, <2>2 DEF Ended, AtTop
<1>8. ASSUME NEW k \in Jobs PROVE Recorded(k)' <=> Recorded(k)
  <2>1. \A u \in Threads : pc'[u] \in {"count_down"} <=> pc[u] \in {"count_down"}
    BY <1>1, <1>4
  <2>2. phase'[k] = "done" <=> phase[k] = "done"
    BY <1>2, <1>4
  <2> QED
    BY <1>3, <1>6, <2>1, <2>2 DEF Recorded, AtTop
<1>9. Places'
  BY <1>1, <1>3, <1>4, <1>6 DEF Places, InLoop, Looking, Stopping, Threads
<1>10. Stacks'
  <2>1. \A u \in Threads : \A i \in DOMAIN stack[u] : stack[u][i] \in Jobs
    BY DEF Types
  <2> QED
    BY <1>2, <1>3, <1>4, <2>1 DEF Stacks
<1>11. Waits'
  <2>1. ASSUME NEW u \in Threads, NEW i \in DOMAIN stack[u],
               i < Len(stack[u]) \/ pc'[u] \in {"wait", "ended", "count_down"} \cup Looking \cup Stopping
        PROVE  scheduled'[stack[u][i]] = Len(Children[stack[u][i]])
    <3>1. i < Len(stack[u]) \/ pc[u] \in {"wait", "ended", "count_down"} \cup Looking \cup Stopping
      BY <1>4, <2>1 DEF Looking, Stopping
    <3>2. scheduled[stack[u][i]] = Len(Children[stack[u][i]])
      BY <3>1 DEF Waits
    <3>3. stack[u][i] \in Jobs /\ stack[u][i] # j
      BY <1>1, <3>2 DEF Types
    <3> QED
      BY <1>4, <3>2, <3>3
  <2> QED
    BY <1>3, <2>1 DEF Waits
<1>12. Schedules'
  <2>1. \A k \in Jobs : scheduled'[k] <= Len(Children[k])
    BY <1>1, <1>4 DEF Schedules
  <2>2. ASSUME NEW k \in Jobs, NEW n \in 1..Len(Children[k])
        PROVE  phase'[Children[k][n]] = "unborn" <=> n > scheduled'[k]
    <3>1. Children[k][n] \in Jobs /\ Children[k][n] \in Kids(k)
      BY Tree
    <3>2. CASE k # j
      <4>1. Children[k][n] # c
        BY <1>1, <1>2, <3>1, <3>2, Tree
      <4> QED
        BY <1>4, <3>1, <3>2, <4>1 DEF Schedules
    <3>3. CASE k = j /\ n = scheduled[j] + 1
      BY <1>1, <1>2, <1>4, <3>3
    <3>4. CASE k = j /\ n # scheduled[j] + 1
      <4>1. Children[k][n] # c
        <5>1. scheduled[j] + 1 \in 1..Len(Children[j])
          BY <1>1
        <5> QED
          BY <1>1, <1>2, <3>4, <5>1, Tree
      <4>2. n > scheduled'[k] <=> n > scheduled[k]
        BY <1>1, <1>4, <3>4
      <4> QED
        BY <1>4, <3>1, <4>1, <4>2 DEF Schedules
    <3> QED
      BY <3>2, <3>3, <3>4
  <2>3. ASSUME NEW u \in Threads, Enqueued(u)' PROVE scheduled'[Top(u)] > 0
    <3>1. CASE u = t
      BY <1>1, <1>4, <3>1
    <3>2. CASE u # t
      <4>1. Enqueued(u) /\ stack[u] # <<>>
        BY <1>4, <2>3, <3>2 DEF Enqueued, Places, InLoop, Looking
      <4> QED
        BY <1>4, <1>5, <3>2, <4>1 DEF Schedules
    <3> QED
      BY <3>1, <3>2
  <2> QED
    BY <1>6, <2>1, <2>2, <2>3 DEF Schedules
<1>13. Queues'
  <2>1. /\ \A w \in Workers : \A i \in DOMAIN deque[w] : deque[w][i] \in Jobs /\ deque[w][i] # c
        /\ \A i \in DOMAIN injection : injection[i] \in Jobs /\ injection[i] # c
    <3>1. /\ \A w \in Workers : \A i \in DOMAIN deque[w] : deque[w][i] \in Jobs
          /\ \A i \in DOMAIN injection : injection[i] \in Jobs
      BY DEF Types
    <3> QED
      BY <1>2, <3>1 DEF Queues
  <2>2. Held(t)' = c
    BY <1>1, <1>2, <1>3, <1>4, <1>6 DEF Held
  <2>3. ASSUME NEW u \in Threads, u # t, pc'[u] = "enqueue"
        PROVE  Held(u)' = Held(u) /\ pc[u] = "enqueue" /\ Held(u) \in Jobs /\ Held(u) # c
    <3>1. pc[u] = "enqueue" /\ stack[u] # <<>>
      BY <1>4, <2>3 DEF Places, InLoop, Looking
    <3>2. Held(u) \in Jobs /\ Held(u) # c
      BY <1>2, <3>1, Helds DEF Enqueued
    <3> QED
      BY <1>4, <1>5, <1>6, <2>3, <3>1, <3>2 DEF Held
  <2>4. ASSUME NEW u \in Threads, pc'[u] = "enqueue"
        PROVE  /\ phase'[Held(u)'] = "queued"
               /\ \A w \in Workers : \A i \in DOMAIN deque[w] : deque[w][i] # Held(u)'
               /\ \A i \in DOMAIN injection : injection[i] # Held(u)'
    <3>1. CASE u = t
      BY <1>4, <2>1, <2>2, <3>1
    <3>2. CASE u # t
      BY <1>4, <2>3, <2>4, <3>2 DEF Queues
    <3> QED
      BY <3>1, <3>2
  <2>5. /\ \A w \in Workers : \A i \in DOMAIN deque[w] : phase'[deque[w][i]] = "queued"
        /\ \A i \in DOMAIN injection : phase'[injection[i]] = "queued"
    BY <1>4, <2>1 DEF Queues
  <2> QED
    BY <1>3, <2>4, <2>5 DEF Queues
<1>14. Counts'
  <2>1. ASSUME NEW k \in Jobs, k # j PROVE pending'[k] = Cardinality(Live(k)')
    <3>1. c \notin Kids(k)
      BY <1>1, <1>2, <2>1, Tree
    <3>2. Live(k)' = Live(k)
      BY <1>4, <3>1, Tree DEF Live
    <3> QED
      BY <1>3, <2>1, <3>2 DEF Counts, Types
  <2>2. pending'[j] = Cardinality(Live(j)')
    <3>1. Live(j)' = Live(j) \cup {c} /\ c \notin Live(j)
      <4>1. Kids(j) \subseteq Jobs
        BY Tree
      <4> QED
        BY <1>2, <1>4, <4>1 DEF Live
    <3>2. IsFiniteSet(Live(j))
      BY <1>1, Tree, FS_Subset DEF Live
    <3>3. Cardinality(Live(j)') = Cardinality(Live(j)) + 1
      BY <3>1, <3>2, FS_AddElement
    <3> QED
      BY <1>1, <1>3, <3>3 DEF Counts, Types
  <2> QED
    BY <2>1, <2>2 DEF Counts
<1>15. Ends'
  <2>1. ASSUME NEW k \in Jobs, NEW d \in Kids(k) PROVE phase'[d] = "freed" <=> phase[d] = "freed"
    BY <1>2, <1>4, Tree
  <2> QED
    BY <1>7, <2>1 DEF Ends
<1>16. Throws'
  <2>1. \A k \in Jobs : phase'[k] \in {"unborn", "queued"} => phase[k] \in {"unborn", "queued"}
    BY <1>2, <1>4
  <2>2. \A u \in Threads : Enqueued(u)' \/ pc'[u] = "run" => Enqueued(u) \/ pc[u] = "run"
    BY <1>1, <1>4 DEF Enqueued
  <2> QED
    BY <1>3, <1>6, <1>7, <2>1, <2>2 DEF Throws
<1>17. Exceptions'
  BY <1>3, <1>7, <1>8, ExceptionsKept
<1> QED
  BY <1>9, <1>10, <1>11, <1>12, <1>13, <1>14, <1>15, <1>16, <1>17

(* Sequences that lose or gain one element at an end.                       *)
LEMMA OneMore ==
  ASSUME NEW S, NEW s \in Seq(S), NEW e \in S, NEW r, r = Append(s, e)
  PROVE  /\ r \in Seq(S) /\ Len(s) \in Nat /\ Len(r) = Len(s) + 1
         /\ DOMAIN s = 1..Len(s) /\ DOMAIN r = 1..(Len(s) + 1)
         /\ r[Len(s) + 1] = e /\ \A i \in DOMAIN s : r[i] = s[i]
OBVIOUS

(* Both ends of a sequence that is not empty.                               *)
LEMMA OneLess ==
  ASSUME NEW S, NEW s \in Seq(S), s # <<>>
  PROVE  /\ Len(s) \in Nat \ {0} /\ DOMAIN s = 1..Len(s)
         /\ Last(s) \in S /\ Head(s) \in S /\ Last(s) = s[Len(s)] /\ Head(s) = s[1]
<1>1. Len(s) \in Nat \ {0} /\ DOMAIN s = 1..Len(s)
  OBVIOUS
<1> QED
  BY <1>1 DEF Last

(* What is left without the last element.                                   *)
LEMMA LessFront ==
  ASSUME NEW S, NEW s \in Seq(S), s # <<>>, NEW r, r = Front(s)
  PROVE  /\ r \in Seq(S) /\ Len(r) = Len(s) - 1 /\ DOMAIN r = 1..(Len(s) - 1)
         /\ \A i \in 1..(Len(s) - 1) : r[i] = s[i]
<1>1. Len(s) \in Nat \ {0} /\ DOMAIN s = 1..Len(s)
  OBVIOUS
<1>2. r \in Seq(S) /\ Len(r) = Len(s) - 1 /\ \A i \in 1..(Len(s) - 1) : r[i] = s[i]
  BY <1>1, SubSeqProperties DEF Front
<1> QED
  BY <1>1, <1>2

(* What is left without the first element.                                  *)
LEMMA LessHead ==
  ASSUME NEW S, NEW s \in Seq(S), s # <<>>, NEW r, r = Tail(s)
  PROVE  /\ r \in Seq(S) /\ Len(r) = Len(s) - 1 /\ DOMAIN r = 1..(Len(s) - 1)
         /\ \A i \in 1..(Len(s) - 1) : r[i] = s[i + 1]
OBVIOUS

(* Putting the held job into a queue.                                       *)
LEMMA EnqueueCore == ASSUME IInv, NEW t \in Threads, Enqueue(t) PROVE Core'
<1> USE DEF IInv, Core
<1>1. pc \in [Threads -> Label] /\ pc[t] = "enqueue" /\ Enqueued(t)
  BY DEF Enqueue, Enqueued, Types
<1>2. PICK c \in Jobs \ {Root} :
        c = Held(t) /\ phase[c] = "queued" /\ stack[t] # <<>>
  BY <1>1, Helds DEF Queues
<1>3. /\ pc' = [pc EXCEPT ![t] = "bump"] /\ phase' = phase /\ scheduled' = scheduled
      /\ pending' = pending /\ stack' = stack /\ exception' = exception /\ thrown' = thrown
      /\ is_stopping' = is_stopping
  BY DEF Enqueue, Goto, jobs, sync
<1>4. /\ pc'[t] = "bump" /\ \A u \in Threads : u # t => pc'[u] = pc[u]
      /\ \A u \in Threads : Top(u)' = Top(u) /\ Held(u)' = Held(u)
  BY <1>1, <1>3 DEF Top, Held
<1>5. ASSUME NEW k \in Jobs PROVE (Ended(k)' <=> Ended(k)) /\ (Recorded(k)' <=> Recorded(k))
  <2>1. \A u \in Threads : pc'[u] \in {"ended", "count_down"} \cup Stopping
                             <=> pc[u] \in {"ended", "count_down"} \cup Stopping
    BY <1>1, <1>4 DEF Stopping
  <2>2. \A u \in Threads : pc'[u] \in {"count_down"} <=> pc[u] \in {"count_down"}
    BY <1>1, <1>4
  <2>3. Ended(k)' <=> Ended(k)
    BY <1>3, <1>4, <2>1 DEF Ended, AtTop
  <2>4. Recorded(k)' <=> Recorded(k)
    BY <1>3, <1>4, <2>2 DEF Recorded, AtTop
  <2> QED
    BY <2>3, <2>4
<1>6. Places'
  BY <1>1, <1>2, <1>3, <1>4 DEF Places, InLoop, Looking, Stopping, Threads
<1>7. Stacks'
  BY <1>3 DEF Stacks
<1>8. Waits'
  <2>1. \A u \in Threads : pc'[u] \in {"wait", "ended", "count_down"} \cup Looking \cup Stopping
                             <=> pc[u] \in {"wait", "ended", "count_down"} \cup Looking \cup Stopping
    BY <1>1, <1>4 DEF Looking, Stopping
  <2> QED
    BY <1>3, <2>1 DEF Waits
<1>9. Schedules'
  <2>1. \A u \in Threads : Enqueued(u)' => Enqueued(u)
    BY <1>1, <1>4 DEF Enqueued
  <2> QED
    BY <1>3, <1>4, <2>1 DEF Schedules
<1>10. Queues'
  <2>1. \A w \in Workers : deque[w] \in Seq(Jobs)
    BY DEF Types
  <2>2. injection \in Seq(Jobs)
    BY DEF Types
  <2>3. /\ \A w \in Workers : \A i \in DOMAIN deque[w] : deque[w][i] # c
        /\ \A i \in DOMAIN injection : injection[i] # c
    BY <1>1, <1>2 DEF Queues
  <2>4. ASSUME NEW u \in Threads, pc'[u] = "enqueue"
        PROVE  /\ phase[Held(u)] = "queued" /\ Held(u) # c
               /\ \A w \in Workers : \A i \in DOMAIN deque[w] : deque[w][i] # Held(u)
               /\ \A i \in DOMAIN injection : injection[i] # Held(u)
    <3>1. u # t /\ pc[u] = "enqueue"
      BY <1>4, <2>4
    <3>2. Held(u) # c
      BY <1>1, <1>2, <3>1, Helds DEF Enqueued
    <3> QED
      BY <3>1, <3>2 DEF Queues
  <2>5. CASE deque' = [deque EXCEPT ![t] = Append(@, c)] /\ injection' = injection /\ t \in Workers
    <3>1. deque[t] \in Seq(Jobs) /\ deque'[t] = Append(deque[t], c)
      BY <2>1, <2>5 DEF Types
    <3>2. /\ Len(deque[t]) \in Nat /\ DOMAIN deque[t] = 1..Len(deque[t])
          /\ DOMAIN deque'[t] = 1..(Len(deque[t]) + 1) /\ deque'[t][Len(deque[t]) + 1] = c
          /\ \A i \in DOMAIN deque[t] : deque'[t][i] = deque[t][i]
      BY <1>2, <3>1, OneMore
    <3>3. \A w \in Workers : w # t => deque'[w] = deque[w]
      BY <2>5 DEF Types
    <3>4. ASSUME NEW w \in Workers, NEW i \in DOMAIN deque'[w]
          PROVE  \/ i \in DOMAIN deque[w] /\ deque'[w][i] = deque[w][i]
                 \/ w = t /\ i = Len(deque[t]) + 1 /\ deque'[w][i] = c
      BY <3>2, <3>3
    <3>5. /\ \A w \in Workers : \A i \in DOMAIN deque'[w] : phase[deque'[w][i]] = "queued"
          /\ \A w, v \in Workers : \A i \in DOMAIN deque'[w], k \in DOMAIN deque'[v] :
               deque'[w][i] = deque'[v][k] => w = v /\ i = k
          /\ \A w \in Workers : \A i \in DOMAIN deque'[w], k \in DOMAIN injection :
               deque'[w][i] # injection[k]
      <4>1. \A w \in Workers : \A i \in DOMAIN deque'[w] : phase[deque'[w][i]] = "queued"
        BY <1>2, <3>4 DEF Queues
      <4>2. ASSUME NEW w \in Workers, NEW v \in Workers, NEW i \in DOMAIN deque'[w],
                   NEW k \in DOMAIN deque'[v], deque'[w][i] = deque'[v][k]
            PROVE  w = v /\ i = k
        BY <2>3, <3>4, <4>2 DEF Queues
      <4>3. \A w \in Workers : \A i \in DOMAIN deque'[w], k \in DOMAIN injection :
               deque'[w][i] # injection[k]
        BY <2>3, <3>4 DEF Queues
      <4> QED
        BY <4>1, <4>2, <4>3
    <3>6. ASSUME NEW u \in Threads, pc'[u] = "enqueue"
          PROVE  \A w \in Workers : \A i \in DOMAIN deque'[w] : deque'[w][i] # Held(u)
      BY <2>4, <3>4, <3>6
    <3>7. /\ \A i \in DOMAIN injection : phase[injection[i]] = "queued"
          /\ \A i, k \in DOMAIN injection : injection[i] = injection[k] => i = k
      BY DEF Queues
    <3> QED
      BY <1>3, <1>4, <2>4, <2>5, <3>5, <3>6, <3>7 DEF Queues
  <2>6. CASE injection' = Append(injection, c) /\ deque' = deque
    <3>1. /\ Len(injection) \in Nat /\ DOMAIN injection = 1..Len(injection)
          /\ DOMAIN injection' = 1..(Len(injection) + 1) /\ injection'[Len(injection) + 1] = c
          /\ \A i \in DOMAIN injection : injection'[i] = injection[i]
      BY <1>2, <2>2, <2>6, OneMore
    <3>2. \A i \in DOMAIN injection' : \/ i \in DOMAIN injection /\ injection'[i] = injection[i]
                                       \/ i = Len(injection) + 1 /\ injection'[i] = c
      BY <3>1
    <3>3. /\ \A i \in DOMAIN injection' : phase[injection'[i]] = "queued"
          /\ \A i, k \in DOMAIN injection' : injection'[i] = injection'[k] => i = k
          /\ \A w \in Workers : \A i \in DOMAIN deque[w], k \in DOMAIN injection' :
               deque[w][i] # injection'[k]
      BY <1>2, <2>3, <3>2 DEF Queues
    <3>4. ASSUME NEW u \in Threads, pc'[u] = "enqueue"
          PROVE  \A i \in DOMAIN injection' : injection'[i] # Held(u)
      BY <2>4, <3>2, <3>4
    <3>5. /\ \A w \in Workers : \A i \in DOMAIN deque[w] : phase[deque[w][i]] = "queued"
          /\ \A w, v \in Workers : \A i \in DOMAIN deque[w], k \in DOMAIN deque[v] :
               deque[w][i] = deque[v][k] => w = v /\ i = k
      BY DEF Queues
    <3> QED
      BY <1>3, <1>4, <2>4, <2>6, <3>3, <3>4, <3>5 DEF Queues
  <2> QED
    BY <1>2, <2>5, <2>6 DEF Enqueue, Held
<1>11. Counts'
  BY <1>3 DEF Counts, Live
<1>12. Ends'
  BY <1>3, <1>5, Tree DEF Ends
<1>13. Throws'
  <2>1. \A u \in Threads : Enqueued(u)' \/ pc'[u] = "run" => Enqueued(u) \/ pc[u] = "run"
    BY <1>1, <1>4 DEF Enqueued
  <2> QED
    BY <1>3, <1>4, <1>5, <2>1 DEF Throws
<1>14. Exceptions'
  BY <1>3, <1>5, ExceptionsKept
<1> QED
  BY <1>6, <1>7, <1>8, <1>9, <1>10, <1>11, <1>12, <1>13, <1>14

(* The labels at which a job has left its wait decide which jobs have ended.*)
LEMMA EndedAt ==
  ASSUME Types, Stacks, NEW t \in Threads, stack[t] # <<>>
  PROVE  /\ Ended(Top(t)) <=> pc[t] \in {"ended", "count_down"} \cup Stopping
         /\ Recorded(Top(t)) <=> pc[t] = "count_down"
BY Tops DEF Ended, Recorded, AtTop

(* Running the inline part: only the job itself can be what it throws.      *)
LEMMA RunInlineCore == ASSUME IInv, NEW t \in Threads, RunInline(t) PROVE Core'
<1> USE DEF IInv, Core
<1>1. PICK j \in Jobs : /\ pc \in [Threads -> Label] /\ pc[t] = "run" /\ stack[t] # <<>>
                        /\ j = Top(t) /\ scheduled[j] = Len(Children[j]) /\ phase[j] = "running"
  <2>1. pc[t] = "run" /\ stack[t] # <<>>
    BY DEF RunInline, Places, InLoop, Looking
  <2> QED
    BY <2>1, Tops DEF Types, RunInline
<1>2. PICK l \in {"ended", "wait"} :
        pc' = [pc EXCEPT ![t] = l] /\ (l = "ended" <=> Children[j] = <<>>)
  BY <1>1 DEF RunInline, Goto
<1>3. /\ phase' = phase /\ scheduled' = scheduled /\ deque' = deque /\ injection' = injection
      /\ pending' = pending /\ stack' = stack /\ exception' = exception
      /\ is_stopping' = is_stopping
      /\ thrown' = thrown \/ thrown' = [thrown EXCEPT ![j] = j]
  BY <1>1 DEF RunInline, queues, sync
<1>4. /\ pc'[t] = l /\ \A u \in Threads : u # t => pc'[u] = pc[u]
      /\ \A u \in Threads : Top(u)' = Top(u) /\ Held(u)' = Held(u)
  BY <1>1, <1>2, <1>3 DEF Top, Held
<1>5. /\ thrown' \in [Jobs -> Jobs \cup {NoJob}] /\ thrown[j] = NoJob /\ thrown'[j] \in {NoJob, j}
      /\ \A k \in Jobs : k # j => thrown'[k] = thrown[k]
  <2>1. thrown[j] = NoJob
    BY <1>1 DEF Throws
  <2> QED
    BY <1>3, <2>1 DEF Types
<1>6. ASSUME NEW k \in Jobs, k # j PROVE (Ended(k)' <=> Ended(k)) /\ (Recorded(k)' <=> Recorded(k))
  <2>1. \A u \in Threads : Top(u) = k =>
          (pc'[u] \in {"ended", "count_down"} \cup Stopping
             <=> pc[u] \in {"ended", "count_down"} \cup Stopping)
    BY <1>1, <1>4, <1>6
  <2>2. \A u \in Threads : pc'[u] \in {"count_down"} <=> pc[u] \in {"count_down"}
    BY <1>1, <1>4
  <2>3. Ended(k)' <=> Ended(k)
    BY <1>3, <1>4, <2>1 DEF Ended, AtTop
  <2>4. Recorded(k)' <=> Recorded(k)
    BY <1>3, <1>4, <2>2 DEF Recorded, AtTop
  <2> QED
    BY <2>3, <2>4
<1>7. Ended(j)' => Children[j] = <<>> /\ Kids(j) = {}
  <2>1. ASSUME Ended(j)' PROVE l = "ended"
    <3>1. PICK u \in Threads : /\ stack[u] # <<>> /\ Top(u) = j
                               /\ pc'[u] \in {"ended", "count_down"} \cup Stopping
      BY <1>1, <1>3, <1>4, <2>1 DEF Ended, AtTop
    <3>2. u = t
      BY <1>1, <3>1, Tops
    <3> QED
      BY <1>4, <3>1, <3>2 DEF Stopping
  <2>2. Children[j] = <<>> => Kids(j) = {}
    BY DEF Kids, ToSet
  <2> QED
    BY <1>2, <2>1, <2>2
<1>8. ~Ended(j) /\ ~Recorded(j) /\ ~Recorded(j)'
  <2>1. ~Ended(j) /\ ~Recorded(j)
    BY <1>1, EndedAt DEF Stopping
  <2>2. ~Recorded(j)'
    <3>1. \A u \in Threads : pc'[u] \in {"count_down"} => pc[u] \in {"count_down"}
      BY <1>1, <1>4
    <3> QED
      BY <1>3, <1>4, <2>1, <3>1 DEF Recorded, AtTop
  <2> QED
    BY <2>1, <2>2
<1>9. Places'
  BY <1>1, <1>3, <1>4 DEF Places, InLoop, Looking, Stopping, Threads
<1>10. Stacks'
  BY <1>3 DEF Stacks
<1>11. Waits'
  <2>1. ASSUME NEW u \in Threads, NEW i \in DOMAIN stack[u],
               i < Len(stack[u]) \/ pc'[u] \in {"wait", "ended", "count_down"} \cup Looking \cup Stopping
        PROVE  scheduled[stack[u][i]] = Len(Children[stack[u][i]])
    <3>1. CASE u # t \/ i < Len(stack[u])
      BY <1>4, <2>1, <3>1 DEF Waits
    <3>2. CASE u = t /\ ~(i < Len(stack[u]))
      <4>1. i = Len(stack[t])
        BY <1>1, <3>2, Tops
      <4> QED
        BY <1>1, <3>2, <4>1, Tops
    <3> QED
      BY <3>1, <3>2
  <2> QED
    BY <1>3, <2>1 DEF Waits
<1>12. Schedules'
  <2>1. \A u \in Threads : Enqueued(u)' => Enqueued(u)
    BY <1>1, <1>4 DEF Enqueued
  <2> QED
    BY <1>3, <1>4, <2>1 DEF Schedules
<1>13. Queues'
  <2>1. \A u \in Threads : pc'[u] = "enqueue" => pc[u] = "enqueue"
    BY <1>1, <1>4
  <2> QED
    BY <1>3, <1>4, <2>1 DEF Queues
<1>14. Counts'
  BY <1>3 DEF Counts, Live
<1>15. Ends'
  <2>1. ASSUME NEW k \in Jobs, NEW d \in Kids(k) PROVE Ended(k)' <=> phase[d] = "freed"
    BY <1>6, <1>7, <1>8, <2>1 DEF Ends
  <2> QED
    BY <1>3, <2>1 DEF Ends
<1>16. Throws'
  <2>1. ASSUME NEW u \in Threads, Enqueued(u)' \/ pc'[u] = "run" PROVE thrown'[Top(u)] = NoJob
    <3>1. (Enqueued(u) \/ pc[u] = "run") /\ u # t
      BY <1>1, <1>4, <2>1 DEF Enqueued
    <3>2. stack[u] # <<>>
      BY <3>1 DEF Places, Enqueued, InLoop, Looking
    <3>3. Top(u) \in Jobs /\ Top(u) # j
      BY <1>1, <3>1, <3>2, Tops
    <3> QED
      BY <1>5, <3>1, <3>3 DEF Throws
  <2>2. \A k \in Jobs : phase[k] \in {"unborn", "queued"} => thrown'[k] = NoJob
    BY <1>1, <1>5 DEF Throws
  <2>3. \A k \in Jobs : ~Ended(k)' => thrown'[k] \in {NoJob, k}
    BY <1>5, <1>6 DEF Throws
  <2> QED
    BY <1>3, <1>4, <2>1, <2>2, <2>3 DEF Throws
<1>17. Exceptions'
  <2>1. ASSUME NEW k \in Jobs PROVE ThrownBelow(k) \subseteq ThrownBelow(k)'
    <3>1. Kids(k) \subseteq Jobs /\ ToSet(Children[k]) = Kids(k)
      BY Tree DEF Kids
    <3>2. \A d \in Kids(k) : thrown[d] # NoJob => thrown'[d] = thrown[d]
      BY <1>5, <3>1
    <3> QED
      BY <3>1, <3>2 DEF ThrownBelow
  <2>2. ASSUME NEW k \in Jobs, exception[k] # NoJob PROVE exception[k] \in ThrownBelow(k)'
    BY <2>1, <2>2 DEF Exceptions
  <2>3. ASSUME NEW k \in Jobs, NEW d \in Kids(k), Recorded(d)', thrown'[d] # NoJob
        PROVE  exception[k] # NoJob
    <3>1. d \in Jobs /\ d # j
      BY <1>8, <2>3, Tree
    <3> QED
      BY <1>5, <1>6, <2>3, <3>1 DEF Exceptions
  <2>4. ASSUME NEW k \in Jobs, Ended(k)', thrown'[k] # k
        PROVE  IF ThrownBelow(k)' = {} THEN thrown'[k] = NoJob
                                       ELSE thrown'[k] \in ThrownBelow(k)'
    <3>1. CASE k = j
      <4>1. ThrownBelow(k)' = {}
        BY <1>7, <2>4, <3>1 DEF ThrownBelow, Kids
      <4> QED
        BY <1>5, <2>4, <3>1, <4>1
    <3>2. CASE k # j
      <4>1. Ended(k) /\ thrown[k] = thrown'[k]
        BY <1>5, <1>6, <2>4, <3>2
      <4>2. Kids(k) \subseteq Jobs /\ ToSet(Children[k]) = Kids(k)
        BY Tree DEF Kids
      <4>3. \A d \in Kids(k) : thrown'[d] = thrown[d]
        BY <1>1, <1>5, <4>1, <4>2 DEF Ends
      <4>4. ThrownBelow(k)' = ThrownBelow(k)
        BY <4>2, <4>3 DEF ThrownBelow
      <4> QED
        BY <2>4, <4>1, <4>4 DEF Exceptions
    <3> QED
      BY <3>1, <3>2
  <2> QED
    BY <1>3, <2>2, <2>3, <2>4 DEF Exceptions
<1> QED
  BY <1>9, <1>10, <1>11, <1>12, <1>13, <1>14, <1>15, <1>16, <1>17

(* Leaving a wait: nobody holds the children any more, so freeing them is   *)
(* safe; what one of them threw leaves the job.                             *)
LEMMA WaitResetCore == ASSUME IInv, NEW t \in Threads, WaitReset(t) PROVE Core'
<1> USE DEF IInv, Core
<1>1. PICK j \in Jobs : /\ pc \in [Threads -> Label] /\ pc[t] = "wait" /\ stack[t] # <<>>
                        /\ j = Top(t) /\ pending[j] = 0 /\ phase[j] = "running"
                        /\ scheduled[j] = Len(Children[j])
  <2>1. pc[t] = "wait" /\ stack[t] # <<>>
    BY DEF WaitReset, Places, InLoop, Looking
  <2>2. scheduled[Top(t)] = Len(Children[Top(t)])
    BY <2>1, Tops DEF Waits
  <2> QED
    BY <2>1, <2>2, Tops DEF Types, WaitReset
<1>2. /\ phase' = [d \in Jobs |-> IF d \in Kids(j) THEN "freed" ELSE phase[d]]
      /\ thrown' = [thrown EXCEPT ![j] = IF @ = NoJob THEN exception[j] ELSE @]
      /\ exception' = [exception EXCEPT ![j] = NoJob]
      /\ pc' = [pc EXCEPT ![t] = "ended"]
      /\ scheduled' = scheduled /\ deque' = deque /\ injection' = injection
      /\ pending' = pending /\ stack' = stack /\ is_stopping' = is_stopping
  BY <1>1 DEF WaitReset, Goto, queues, sync, Kids
<1>3. /\ pc'[t] = "ended" /\ \A u \in Threads : u # t => pc'[u] = pc[u]
      /\ \A u \in Threads : Top(u)' = Top(u) /\ Held(u)' = Held(u)
  BY <1>1, <1>2 DEF Top, Held
<1>4. ~Ended(j) /\ ~Recorded(j)
  BY <1>1, EndedAt DEF Stopping
<1>5. Kids(j) \subseteq Jobs \ {Root} /\ \A d \in Kids(j) : phase[d] = "done"
  <2>1. Kids(j) \subseteq Jobs \ {Root}
    BY Tree
  <2>2. Live(j) = {}
    <3>1. IsFiniteSet(Live(j)) /\ Cardinality(Live(j)) = 0
      BY <1>1, Tree, FS_Subset DEF Live, Counts
    <3> QED
      BY <3>1, FS_EmptySet
  <2>3. ASSUME NEW d \in Kids(j) PROVE phase[d] = "done"
    <3>1. phase[d] \notin {"queued", "running"}
      BY <2>2 DEF Live
    <3>2. phase[d] # "freed"
      BY <1>4 DEF Ends
    <3>3. phase[d] # "unborn"
      <4>1. PICK n \in 1..Len(Children[j]) : d = Children[j][n]
        BY Tree
      <4>2. ~(n > scheduled[j])
        BY <1>1, <4>1, Tree
      <4> QED
        BY <4>1, <4>2 DEF Schedules
    <3> QED
      BY <2>1, <3>1, <3>2, <3>3 DEF Types
  <2> QED
    BY <2>1, <2>3
<1>6. /\ \A d \in Kids(j) : phase'[d] = "freed" /\ phase[d] = "done"
      /\ \A d \in Jobs : d \notin Kids(j) => phase'[d] = phase[d]
      /\ j \notin Kids(j)
  BY <1>1, <1>2, <1>5
<1>7. /\ \A k \in Jobs : k # j => thrown'[k] = thrown[k] /\ exception'[k] = exception[k]
      /\ thrown[j] # NoJob => thrown'[j] = thrown[j]
      /\ thrown[j] = NoJob => thrown'[j] = exception[j]
      /\ exception'[j] = NoJob
      /\ \A k \in Jobs : thrown[k] # NoJob => thrown'[k] = thrown[k]
  BY <1>1, <1>2 DEF Types
<1>8. Ended(j)' /\ \A k \in Jobs : k # j => (Ended(k)' <=> Ended(k))
  <2>1. Ended(j)'
    BY <1>1, <1>2, <1>3 DEF Ended, AtTop
  <2>2. ASSUME NEW k \in Jobs, k # j PROVE Ended(k)' <=> Ended(k)
    <3>1. \A u \in Threads : Top(u) = k => pc'[u] = pc[u]
      BY <1>1, <1>3, <2>2
    <3>2. phase'[k] \in {"done", "freed"} <=> phase[k] \in {"done", "freed"}
      BY <1>6
    <3> QED
      BY <1>2, <1>3, <3>1, <3>2 DEF Ended, AtTop
  <2> QED
    BY <2>1, <2>2
<1>9. \A k \in Jobs : Recorded(k)' => Recorded(k) /\ k \notin Kids(j) /\ k # j
  <2>1. ASSUME NEW k \in Jobs, Recorded(k)' PROVE Recorded(k) /\ k \notin Kids(j)
    <3>1. CASE phase'[k] = "done"
      BY <1>6, <3>1 DEF Recorded
    <3>2. CASE phase'[k] # "done"
      <4>1. PICK u \in Threads : stack[u] # <<>> /\ Top(u) = k /\ pc'[u] = "count_down"
        BY <1>2, <1>3, <2>1, <3>2 DEF Recorded, AtTop
      <4>2. pc[u] = "count_down" /\ phase[k] = "running"
        BY <1>3, <4>1, Tops
      <4> QED
        BY <1>6, <4>1, <4>2 DEF Recorded, AtTop
    <3> QED
      BY <3>1, <3>2
  <2> QED
    BY <1>4, <2>1
<1>10. Places'
  BY <1>1, <1>2, <1>3 DEF Places, InLoop, Looking, Stopping, Threads
<1>11. Stacks'
  <2>1. \A u \in Threads : \A i \in DOMAIN stack[u] : stack[u][i] \in Jobs
    BY DEF Types
  <2> QED
    BY <1>2, <1>6, <2>1 DEF Stacks
<1>12. Waits'
  <2>1. \A u \in Threads : pc'[u] \in {"wait", "ended", "count_down"} \cup Looking \cup Stopping
                             => pc[u] \in {"wait", "ended", "count_down"} \cup Looking \cup Stopping
    BY <1>1, <1>3
  <2> QED
    BY <1>2, <2>1 DEF Waits
<1>13. Schedules'
  <2>1. \A u \in Threads : Enqueued(u)' => Enqueued(u)
    BY <1>1, <1>3 DEF Enqueued
  <2>2. \A k \in Jobs : phase'[k] = "unborn" <=> phase[k] = "unborn"
    BY <1>6
  <2>3. \A k \in Jobs : \A n \in 1..Len(Children[k]) : Children[k][n] \in Jobs
    BY Tree
  <2> QED
    BY <1>2, <1>3, <2>1, <2>2, <2>3 DEF Schedules
<1>14. Queues'
  <2>1. /\ \A w \in Workers : \A i \in DOMAIN deque[w] : deque[w][i] \in Jobs
        /\ \A i \in DOMAIN injection : injection[i] \in Jobs
    BY DEF Types
  <2>2. \A k \in Jobs : phase[k] = "queued" => phase'[k] = "queued"
    BY <1>6
  <2>3. \A u \in Threads : pc'[u] = "enqueue" => pc[u] = "enqueue" /\ Held(u) \in Jobs
    BY <1>1, <1>3, Helds DEF Enqueued
  <2> QED
    BY <1>2, <1>3, <2>1, <2>2, <2>3 DEF Queues
<1>15. Counts'
  <2>1. ASSUME NEW k \in Jobs PROVE Live(k)' = Live(k)
    <3>1. Kids(k) \subseteq Jobs
      BY Tree
    <3>2. \A d \in Jobs : phase'[d] \in {"queued", "running"} <=> phase[d] \in {"queued", "running"}
      BY <1>6
    <3> QED
      BY <3>1, <3>2 DEF Live
  <2> QED
    BY <1>2, <2>1 DEF Counts
<1>16. Ends'
  <2>1. ASSUME NEW k \in Jobs, NEW d \in Kids(k) PROVE Ended(k)' <=> phase'[d] = "freed"
    <3>1. CASE k = j
      BY <1>6, <1>8, <3>1
    <3>2. CASE k # j
      <4>1. d \notin Kids(j) /\ d \in Jobs
        BY <3>2, Tree
      <4> QED
        BY <1>6, <1>8, <3>2, <4>1 DEF Ends
    <3> QED
      BY <3>1, <3>2
  <2> QED
    BY <2>1 DEF Ends
<1>17. Throws'
  <2>1. ASSUME NEW u \in Threads, Enqueued(u)' \/ pc'[u] = "run" PROVE thrown'[Top(u)] = NoJob
    <3>1. (Enqueued(u) \/ pc[u] = "run") /\ u # t
      BY <1>1, <1>3, <2>1 DEF Enqueued
    <3>2. stack[u] # <<>>
      BY <3>1 DEF Places, Enqueued, InLoop, Looking
    <3>3. Top(u) \in Jobs /\ Top(u) # j
      BY <1>1, <3>1, <3>2, Tops
    <3> QED
      BY <1>7, <3>1, <3>3 DEF Throws
  <2>2. \A k \in Jobs : phase'[k] \in {"unborn", "queued"} => thrown'[k] = NoJob
    BY <1>1, <1>6, <1>7 DEF Throws
  <2>3. \A k \in Jobs : ~Ended(k)' => thrown'[k] \in {NoJob, k}
    BY <1>7, <1>8 DEF Throws
  <2> QED
    BY <1>3, <2>1, <2>2, <2>3 DEF Throws
<1>18. Exceptions'
  <2>1. \A k \in Jobs : Kids(k) \subseteq Jobs /\ ToSet(Children[k]) = Kids(k)
    BY Tree DEF Kids
  <2>2. ASSUME NEW k \in Jobs, exception'[k] # NoJob PROVE exception'[k] \in ThrownBelow(k)'
    <3>1. exception'[k] = exception[k] /\ exception[k] \in ThrownBelow(k)
      BY <1>7, <2>2 DEF Exceptions
    <3>2. \A d \in Kids(k) : thrown[d] # NoJob => thrown'[d] = thrown[d]
      BY <1>7, <2>1
    <3> QED
      BY <2>1, <3>1, <3>2 DEF ThrownBelow
  <2>3. ASSUME NEW k \in Jobs, NEW d \in Kids(k), Recorded(d)', thrown'[d] # NoJob
        PROVE  exception'[k] # NoJob
    <3>1. d \in Jobs /\ Recorded(d) /\ d \notin Kids(j) /\ d # j
      BY <1>9, <2>1, <2>3
    <3>2. k # j
      BY <3>1
    <3> QED
      BY <1>7, <2>3, <3>1, <3>2 DEF Exceptions
  <2>4. ASSUME NEW k \in Jobs, Ended(k)', thrown'[k] # k
        PROVE  IF ThrownBelow(k)' = {} THEN thrown'[k] = NoJob
                                       ELSE thrown'[k] \in ThrownBelow(k)'
    <3>1. ASSUME k = j \/ Ended(k) PROVE ThrownBelow(k)' = ThrownBelow(k)
      <4>1. j \notin Kids(k)
        <5>1. CASE k = j
          BY <1>6, <5>1
        <5>2. CASE k # j
          BY <1>1, <3>1, <5>2 DEF Ends
        <5> QED
          BY <5>1, <5>2
      <4>2. \A d \in Kids(k) : thrown'[d] = thrown[d]
        BY <1>7, <2>1, <4>1
      <4> QED
        BY <2>1, <4>2 DEF ThrownBelow
    <3>2. CASE k # j
      BY <1>7, <1>8, <2>4, <3>1, <3>2 DEF Exceptions
    <3>3. CASE k = j
      <4>1. thrown[j] = NoJob /\ thrown'[j] = exception[j]
        BY <1>4, <1>7, <2>4, <3>3 DEF Throws
      <4>2. CASE exception[j] # NoJob
        BY <3>1, <3>3, <4>1, <4>2 DEF Exceptions
      <4>3. CASE exception[j] = NoJob
        <5>1. \A d \in Kids(j) : thrown[d] = NoJob
          BY <1>5, <4>3 DEF Exceptions, Recorded
        <5>2. ThrownBelow(j) = {}
          BY <2>1, <5>1 DEF ThrownBelow
        <5> QED
          BY <3>1, <3>3, <4>1, <4>3, <5>2
      <4> QED
        BY <4>2, <4>3
    <3> QED
      BY <3>2, <3>3
  <2> QED
    BY <2>2, <2>3, <2>4 DEF Exceptions
<1> QED
  BY <1>10, <1>11, <1>12, <1>13, <1>14, <1>15, <1>16, <1>17, <1>18

(* Storing what a child threw in its parent's counter, unless it holds one. *)
LEMMA RecordCore == ASSUME IInv, NEW t \in Threads, RecordException(t) PROVE Core'
<1> USE DEF IInv, Core
<1>1. PICK j \in Jobs \ {Root} :
        /\ pc \in [Threads -> Label] /\ pc[t] = "ended" /\ stack[t] # <<>>
        /\ j = Top(t) /\ thrown[j] # NoJob /\ phase[j] = "running"
  <2>1. pc[t] = "ended" /\ stack[t] # <<>>
    BY DEF RecordException, Places, InLoop, Looking
  <2> QED
    BY <2>1, Tops DEF Types, RecordException
<1>2. PICK p \in Jobs : p = Parent(j) /\ j \in Kids(p)
  BY <1>1, Parents
<1>3. /\ exception' = [exception EXCEPT ![p] = IF @ = NoJob THEN thrown[j] ELSE @]
      /\ pc' = [pc EXCEPT ![t] = "count_down"] /\ phase' = phase /\ thrown' = thrown
      /\ scheduled' = scheduled /\ deque' = deque /\ injection' = injection
      /\ pending' = pending /\ stack' = stack /\ is_stopping' = is_stopping
  BY <1>1, <1>2 DEF RecordException, Goto, queues, sync
<1>4. /\ pc'[t] = "count_down" /\ \A u \in Threads : u # t => pc'[u] = pc[u]
      /\ \A u \in Threads : Top(u)' = Top(u) /\ Held(u)' = Held(u)
  BY <1>1, <1>3 DEF Top, Held
<1>5. \A k \in Jobs : Ended(k)' <=> Ended(k)
  <2>1. \A u \in Threads : pc'[u] \in {"ended", "count_down"} \cup Stopping
                             <=> pc[u] \in {"ended", "count_down"} \cup Stopping
    BY <1>1, <1>4
  <2> QED
    BY <1>3, <1>4, <2>1 DEF Ended, AtTop
<1>6. \A k \in Jobs : Recorded(k)' => Recorded(k) \/ k = j
  BY <1>1, <1>3, <1>4 DEF Recorded, AtTop
<1>7. Places'
  BY <1>1, <1>3, <1>4 DEF Places, InLoop, Looking, Stopping, Threads
<1>8. Stacks'
  BY <1>3 DEF Stacks
<1>9. Waits'
  <2>1. \A u \in Threads : pc'[u] \in {"wait", "ended", "count_down"} \cup Looking \cup Stopping
                             => pc[u] \in {"wait", "ended", "count_down"} \cup Looking \cup Stopping
    BY <1>1, <1>4
  <2> QED
    BY <1>3, <2>1 DEF Waits
<1>10. Schedules'
  <2>1. \A u \in Threads : Enqueued(u)' => Enqueued(u)
    BY <1>1, <1>4 DEF Enqueued
  <2> QED
    BY <1>3, <1>4, <2>1 DEF Schedules
<1>11. Queues'
  <2>1. \A u \in Threads : pc'[u] = "enqueue" => pc[u] = "enqueue"
    BY <1>1, <1>4
  <2> QED
    BY <1>3, <1>4, <2>1 DEF Queues
<1>12. Counts'
  BY <1>3 DEF Counts, Live
<1>13. Ends'
  BY <1>3, <1>5 DEF Ends
<1>14. Throws'
  <2>1. \A u \in Threads : Enqueued(u)' \/ pc'[u] = "run" => Enqueued(u) \/ pc[u] = "run"
    BY <1>1, <1>4 DEF Enqueued
  <2> QED
    BY <1>3, <1>4, <1>5, <2>1 DEF Throws
<1>15. Exceptions'
  <2>1. \A k \in Jobs : ThrownBelow(k)' = ThrownBelow(k)
    BY <1>3 DEF ThrownBelow
  <2>2. /\ \A k \in Jobs : k # p => exception'[k] = exception[k]
        /\ exception[p] # NoJob => exception'[p] = exception[p]
        /\ exception[p] = NoJob => exception'[p] = thrown[j]
        /\ exception'[p] # NoJob
    BY <1>1, <1>3 DEF Types
  <2>3. thrown[j] \in ThrownBelow(p)
    BY <1>1, <1>2 DEF ThrownBelow, Kids
  <2>4. \A k \in Jobs : exception'[k] # NoJob => exception'[k] \in ThrownBelow(k)
    BY <2>2, <2>3 DEF Exceptions
  <2>5. ASSUME NEW k \in Jobs, NEW d \in Kids(k), Recorded(d)', thrown[d] # NoJob
        PROVE  exception'[k] # NoJob
    <3>1. d \in Jobs
      BY Tree
    <3>2. CASE d = j
      <4>1. k = p
        BY <1>2, <3>2, Tree
      <4> QED
        BY <2>2, <4>1
    <3>3. CASE d # j
      <4>1. exception[k] # NoJob
        BY <1>6, <2>5, <3>1, <3>3 DEF Exceptions
      <4> QED
        BY <2>2, <4>1
    <3> QED
      BY <3>2, <3>3
  <2>6. ASSUME NEW k \in Jobs, Ended(k)', thrown[k] # k
        PROVE  IF ThrownBelow(k) = {} THEN thrown[k] = NoJob ELSE thrown[k] \in ThrownBelow(k)
    BY <1>5, <2>6 DEF Exceptions
  <2> QED
    BY <1>3, <2>1, <2>4, <2>5, <2>6 DEF Exceptions
<1> QED
  BY <1>7, <1>8, <1>9, <1>10, <1>11, <1>12, <1>13, <1>14, <1>15

(* Counting a job down: its thread goes back to the job below, or to its    *)
(* loop.                                                                    *)
LEMMA CountDownCore == ASSUME IInv, NEW t \in Threads, CountDown(t) PROVE Core'
<1> USE DEF IInv, Core
<1>1. PICK j \in Jobs \ {Root} :
        /\ pc \in [Threads -> Label] /\ pc[t] \in {"ended", "count_down"} /\ stack[t] # <<>>
        /\ j = Top(t) /\ (pc[t] = "ended" => thrown[j] = NoJob) /\ phase[j] = "running"
        /\ Len(stack[t]) \in Nat \ {0} /\ DOMAIN stack[t] = 1..Len(stack[t])
        /\ j = stack[t][Len(stack[t])]
  <2>1. pc[t] \in {"ended", "count_down"} /\ stack[t] # <<>> /\ Top(t) # Root
    BY DEF CountDown, Places, InLoop, Looking
  <2> QED
    BY <2>1, Tops DEF Types, CountDown
<1>2. PICK p \in Jobs : p = Parent(j) /\ j \in Kids(p)
  BY <1>1, Parents
<1>3. /\ pending' = [pending EXCEPT ![p] = @ - 1] /\ phase' = [phase EXCEPT ![j] = "done"]
      /\ stack' = [stack EXCEPT ![t] = Front(@)]
      /\ pc' = [pc EXCEPT ![t] = IF Len(stack[t]) = 1 THEN "look" ELSE "wait"]
      /\ exception' = exception /\ thrown' = thrown
      /\ scheduled' = scheduled /\ deque' = deque /\ injection' = injection
      /\ is_stopping' = is_stopping
  BY <1>1, <1>2 DEF CountDown, Goto, queues, sync
<1>4. /\ \A u \in Threads : u # t => stack'[u] = stack[u]
      /\ Len(stack'[t]) = Len(stack[t]) - 1 /\ (stack'[t] = <<>> <=> Len(stack[t]) = 1)
      /\ DOMAIN stack'[t] = 1..(Len(stack[t]) - 1)
      /\ \A i \in 1..(Len(stack[t]) - 1) : stack'[t][i] = stack[t][i]
      /\ stack' \in [Threads -> Seq(Jobs)]
  BY <1>1, <1>3, Pop
<1>5. /\ \A u \in Threads : u # t => pc'[u] = pc[u]
      /\ pc'[t] = IF stack'[t] = <<>> THEN "look" ELSE "wait"
      /\ \A u \in Threads : u # t => Top(u)' = Top(u) /\ Held(u)' = Held(u)
      /\ phase'[j] = "done" /\ \A k \in Jobs : k # j => phase'[k] = phase[k]
  BY <1>1, <1>3, <1>4 DEF Top, Held, Types
<1>6. ASSUME NEW u \in Threads, NEW i \in DOMAIN stack'[u]
      PROVE  /\ i \in DOMAIN stack[u] /\ stack'[u][i] = stack[u][i] /\ stack[u][i] \in Jobs \ {j}
             /\ u = t => i < Len(stack[u])
  <2>1. /\ i \in DOMAIN stack[u] /\ stack'[u][i] = stack[u][i] /\ (u = t => i < Len(stack[u]))
    BY <1>1, <1>4
  <2>2. stack[u][i] \in Jobs
    BY <2>1 DEF Types
  <2>3. stack[u][i] # j
    <3>1. CASE u = t
      <4>1. i # Len(stack[t]) /\ Len(stack[t]) \in DOMAIN stack[t]
        BY <1>1, <2>1, <3>1
      <4> QED
        BY <1>1, <2>1, <3>1, <4>1 DEF Stacks
    <3>2. CASE u # t
      BY <1>1, <2>1, <3>2 DEF Stacks
    <3> QED
      BY <3>1, <3>2
  <2> QED
    BY <2>1, <2>2, <2>3
<1>7. \A k \in Jobs : Ended(k)' <=> Ended(k)
  <2>1. ASSUME NEW k \in Jobs, k # j PROVE Ended(k)' <=> Ended(k)
    <3>1. \A u \in Threads :
            (stack'[u] # <<>> /\ Top(u)' = k /\ pc'[u] \in {"ended", "count_down"} \cup Stopping)
             <=> (stack[u] # <<>> /\ Top(u) = k /\ pc[u] \in {"ended", "count_down"} \cup Stopping)
      BY <1>1, <1>4, <1>5, <2>1 DEF Stopping
    <3> QED
      BY <1>5, <2>1, <3>1 DEF Ended, AtTop
  <2>2. Ended(j)' /\ Ended(j)
    BY <1>1, <1>5, EndedAt DEF Ended
  <2> QED
    BY <2>1, <2>2
<1>8. \A k \in Jobs : Recorded(k)' /\ thrown[k] # NoJob => Recorded(k)
  <2>1. ASSUME NEW k \in Jobs, k # j PROVE Recorded(k)' => Recorded(k)
    <3>1. \A u \in Threads :
            (stack'[u] # <<>> /\ Top(u)' = k /\ pc'[u] \in {"count_down"})
             => (stack[u] # <<>> /\ Top(u) = k /\ pc[u] \in {"count_down"})
      BY <1>1, <1>4, <1>5, <2>1
    <3> QED
      BY <1>5, <2>1, <3>1 DEF Recorded, AtTop
  <2>2. Recorded(j) \/ thrown[j] = NoJob
    BY <1>1, EndedAt
  <2> QED
    BY <2>1, <2>2
<1>9. Places'
  <2>1. stack'[Main] # <<>> /\ stack'[Main][1] = Root
    <3>1. CASE t # Main
      BY <1>4, <3>1 DEF Places, Threads
    <3>2. CASE t = Main
      <4>1. Len(stack[t]) # 1
        BY <1>1, <3>2 DEF Places
      <4>2. 1 \in 1..(Len(stack[t]) - 1)
        <5>1. \A n \in Nat \ {0} : n # 1 => 1 \in 1..(n - 1)
          OBVIOUS
        <5> QED
          BY <1>1, <4>1, <5>1
      <4> QED
        BY <1>4, <3>2, <4>1, <4>2 DEF Places
    <3> QED
      BY <3>1, <3>2
  <2>2. pc'[Main] \in Stopping <=> pc[Main] \in Stopping
    BY <1>1, <1>5 DEF Stopping, Threads
  <2>3. ASSUME NEW u \in Threads
        PROVE  /\ pc'[u] \in InLoop => stack'[u] = <<>>
               /\ pc'[u] \notin InLoop \cup Looking => stack'[u] # <<>>
               /\ pc'[u] \in Stopping => u = Main /\ Top(Main)' = Root
               /\ pc'[u] = "count_down" => Top(u)' # Root
    <3>1. CASE u = t
      BY <1>5, <3>1 DEF InLoop, Looking, Stopping
    <3>2. CASE u # t
      BY <1>4, <1>5, <3>2 DEF Places
    <3> QED
      BY <3>1, <3>2
  <2>4. is_stopping' <=> pc'[Main] \in Stopping
    BY <1>3, <2>2 DEF Places
  <2> QED
    BY <2>1, <2>3, <2>4 DEF Places
<1>10. Stacks'
  <2>1. \A u \in Threads : \A i \in DOMAIN stack'[u] : phase'[stack'[u][i]] = "running"
    BY <1>5, <1>6 DEF Stacks
  <2>2. ASSUME NEW u \in Threads, NEW v \in Threads, NEW i \in DOMAIN stack'[u],
               NEW k \in DOMAIN stack'[v], stack'[u][i] = stack'[v][k]
        PROVE  u = v /\ i = k
    BY <1>6, <2>2 DEF Stacks
  <2> QED
    BY <2>1, <2>2 DEF Stacks
<1>11. Waits'
  <2>1. ASSUME NEW u \in Threads, NEW i \in DOMAIN stack'[u],
               i < Len(stack'[u]) \/ pc'[u] \in {"wait", "ended", "count_down"} \cup Looking \cup Stopping
        PROVE  scheduled[stack'[u][i]] = Len(Children[stack'[u][i]])
    <3>1. \/ i < Len(stack[u])
          \/ pc[u] \in {"wait", "ended", "count_down"} \cup Looking \cup Stopping
      BY <1>4, <1>5, <1>6, <2>1
    <3> QED
      BY <1>6, <3>1 DEF Waits
  <2> QED
    BY <1>3, <2>1 DEF Waits
<1>12. Schedules'
  <2>1. \A u \in Threads : Enqueued(u)' => Enqueued(u) /\ u # t
    BY <1>5 DEF Enqueued
  <2>2. \A k \in Jobs : phase'[k] = "unborn" <=> phase[k] = "unborn"
    BY <1>1, <1>5
  <2>3. \A k \in Jobs : \A n \in 1..Len(Children[k]) : Children[k][n] \in Jobs
    BY Tree
  <2> QED
    BY <1>3, <1>5, <2>1, <2>2, <2>3 DEF Schedules
<1>13. Queues'
  <2>1. /\ \A w \in Workers : \A i \in DOMAIN deque[w] : deque[w][i] \in Jobs
        /\ \A i \in DOMAIN injection : injection[i] \in Jobs
    BY DEF Types
  <2>2. \A k \in Jobs : phase[k] = "queued" => phase'[k] = "queued"
    BY <1>1, <1>5
  <2>3. \A u \in Threads : pc'[u] = "enqueue" => pc[u] = "enqueue" /\ u # t /\ Held(u) \in Jobs
    BY <1>5, Helds DEF Enqueued
  <2> QED
    BY <1>3, <1>5, <2>1, <2>2, <2>3 DEF Queues
<1>14. Counts'
  <2>1. ASSUME NEW k \in Jobs, k # p PROVE pending'[k] = Cardinality(Live(k)')
    <3>1. j \notin Kids(k)
      BY <1>2, <2>1, Tree
    <3>2. Live(k)' = Live(k)
      BY <1>5, <3>1, Tree DEF Live
    <3> QED
      BY <1>3, <2>1, <3>2 DEF Counts, Types
  <2>2. pending'[p] = Cardinality(Live(p)')
    <3>1. Live(p)' = Live(p) \ {j} /\ j \in Live(p)
      <4>1. Kids(p) \subseteq Jobs
        BY Tree
      <4> QED
        BY <1>1, <1>2, <1>5, <4>1 DEF Live
    <3>2. IsFiniteSet(Live(p))
      BY <1>2, Tree, FS_Subset DEF Live
    <3>3. Cardinality(Live(p)') = Cardinality(Live(p)) - 1
      BY <3>1, <3>2, FS_RemoveElement
    <3> QED
      BY <1>3, <3>3 DEF Counts, Types
  <2> QED
    BY <2>1, <2>2 DEF Counts
<1>15. Ends'
  <2>1. ASSUME NEW k \in Jobs, NEW d \in Kids(k) PROVE phase'[d] = "freed" <=> phase[d] = "freed"
    BY <1>1, <1>5, Tree
  <2> QED
    BY <1>7, <2>1 DEF Ends
<1>16. Throws'
  <2>1. \A k \in Jobs : phase'[k] \in {"unborn", "queued"} => phase[k] \in {"unborn", "queued"}
    BY <1>1, <1>5
  <2>2. \A u \in Threads : Enqueued(u)' \/ pc'[u] = "run" => u # t /\ (Enqueued(u) \/ pc[u] = "run")
    BY <1>5 DEF Enqueued
  <2> QED
    BY <1>3, <1>5, <1>7, <2>1, <2>2 DEF Throws
<1>17. Exceptions'
  BY <1>3, <1>7, <1>8, ExceptionsKept
<1> QED
  BY <1>9, <1>10, <1>11, <1>12, <1>13, <1>14, <1>15, <1>16, <1>17

(* Taking a job out of a queue and entering it: what is left in the queues  *)
(* was in them before, and is not the job.                                  *)
LEMMA EnterCore ==
  ASSUME IInv, NEW t \in Threads, NEW j \in Jobs, Enter(t, j), phase[j] = "queued",
         pc[t] \in {"look", "wait"} \cup Looking,
         \A w \in Workers : \A i \in DOMAIN deque'[w] :
           deque'[w][i] # j /\ \E n \in DOMAIN deque[w] : deque'[w][i] = deque[w][n],
         \A i \in DOMAIN injection' :
           injection'[i] # j /\ \E n \in DOMAIN injection : injection'[i] = injection[n],
         \A w \in Workers : \A i, k \in DOMAIN deque'[w] : deque'[w][i] = deque'[w][k] => i = k,
         \A i, k \in DOMAIN injection' : injection'[i] = injection'[k] => i = k,
         \A u \in Threads : pc[u] = "enqueue" => Held(u) # j
  PROVE  Core'
<1> USE DEF IInv, Core
<1>1. /\ pc \in [Threads -> Label] /\ pc[t] \in {"look", "wait"} \cup Looking
      /\ j # Root
  <2>1. phase[Root] = "running"
    <3>1. stack[Main] \in Seq(Jobs) /\ stack[Main] # <<>>
      BY DEF Types, Places, Threads
    <3>2. 1 \in DOMAIN stack[Main]
      BY <3>1
    <3> QED
      BY <3>2 DEF Places, Stacks, Threads
  <2> QED
    BY <2>1 DEF Types
<1>2. /\ stack' = [stack EXCEPT ![t] = Append(@, j)] /\ phase' = [phase EXCEPT ![j] = "running"]
      /\ pc' = [pc EXCEPT ![t] = "run"]
      /\ scheduled' = scheduled /\ pending' = pending /\ exception' = exception
      /\ thrown' = thrown /\ is_stopping' = is_stopping
  BY DEF Enter, Goto, sync
<1>3. /\ stack' \in [Threads -> Seq(Jobs)]
      /\ \A u \in Threads : u # t => stack'[u] = stack[u]
      /\ Len(stack[t]) \in Nat /\ Len(stack'[t]) = Len(stack[t]) + 1 /\ stack'[t] # <<>>
      /\ DOMAIN stack[t] = 1..Len(stack[t]) /\ DOMAIN stack'[t] = 1..(Len(stack[t]) + 1)
      /\ stack'[t][Len(stack[t]) + 1] = j
      /\ \A i \in 1..Len(stack[t]) : stack'[t][i] = stack[t][i]
  BY <1>2, Push
<1>4. /\ pc'[t] = "run" /\ \A u \in Threads : u # t => pc'[u] = pc[u]
      /\ \A u \in Threads : u # t => Top(u)' = Top(u) /\ Held(u)' = Held(u)
      /\ Top(t)' = j
      /\ phase'[j] = "running" /\ \A k \in Jobs : k # j => phase'[k] = phase[k]
  <2>1. Top(t)' = j
    BY <1>3 DEF Top, Last
  <2>2. \A u \in Threads : u # t => Top(u)' = Top(u) /\ Held(u)' = Held(u)
    BY <1>2, <1>3 DEF Top, Held
  <2> QED
    BY <1>1, <1>2, <2>1, <2>2 DEF Types
<1>5. ASSUME NEW u \in Threads, NEW i \in DOMAIN stack[u]
      PROVE  stack[u][i] \in Jobs /\ stack[u][i] # j /\ phase[stack[u][i]] = "running"
  BY DEF Types, Stacks
<1>6. ASSUME NEW u \in Threads, NEW i \in DOMAIN stack'[u]
      PROVE  \/ i \in DOMAIN stack[u] /\ stack'[u][i] = stack[u][i]
             \/ u = t /\ i = Len(stack[t]) + 1 /\ stack'[u][i] = j
  BY <1>3
<1>7. \A k \in Jobs : Ended(k)' <=> Ended(k)
  <2>1. \A k \in Jobs : \A u \in Threads :
          (stack'[u] # <<>> /\ Top(u)' = k /\ pc'[u] \in {"ended", "count_down"} \cup Stopping)
           <=> (stack[u] # <<>> /\ Top(u) = k /\ pc[u] \in {"ended", "count_down"} \cup Stopping)
    BY <1>1, <1>3, <1>4 DEF Stopping, Looking
  <2>2. \A k \in Jobs : phase'[k] \in {"done", "freed"} <=> phase[k] \in {"done", "freed"}
    BY <1>4
  <2> QED
    BY <2>1, <2>2 DEF Ended, AtTop
<1>8. \A k \in Jobs : Recorded(k)' => Recorded(k)
  <2>1. \A k \in Jobs : \A u \in Threads :
          (stack'[u] # <<>> /\ Top(u)' = k /\ pc'[u] \in {"count_down"})
           => (stack[u] # <<>> /\ Top(u) = k /\ pc[u] \in {"count_down"})
    BY <1>3, <1>4
  <2>2. \A k \in Jobs : phase'[k] = "done" <=> phase[k] = "done"
    BY <1>4
  <2> QED
    BY <2>1, <2>2 DEF Recorded, AtTop
<1>9. Places'
  <2>1. stack'[Main] # <<>> /\ stack'[Main][1] = Root
    <3>1. CASE t # Main
      BY <1>3, <3>1 DEF Places, Threads
    <3>2. CASE t = Main
      <4>1. stack[Main] \in Seq(Jobs) /\ stack[Main] # <<>>
        BY DEF Types, Places, Threads
      <4>2. 1 \in 1..Len(stack[t])
        BY <1>3, <3>2, <4>1
      <4> QED
        BY <1>3, <3>2, <4>2 DEF Places
    <3> QED
      BY <3>1, <3>2
  <2>2. pc'[Main] \in Stopping <=> pc[Main] \in Stopping
    BY <1>1, <1>4 DEF Stopping, Looking, Threads
  <2>3. ASSUME NEW u \in Threads
        PROVE  /\ pc'[u] \in InLoop => stack'[u] = <<>>
               /\ pc'[u] \notin InLoop \cup Looking => stack'[u] # <<>>
               /\ pc'[u] \in Stopping => u = Main /\ Top(Main)' = Root
               /\ pc'[u] = "count_down" => Top(u)' # Root
    <3>1. CASE u = t
      BY <1>3, <1>4, <3>1 DEF InLoop, Stopping
    <3>2. CASE u # t
      BY <1>3, <1>4, <3>2 DEF Places
    <3> QED
      BY <3>1, <3>2
  <2>4. is_stopping' <=> pc'[Main] \in Stopping
    BY <1>2, <2>2 DEF Places
  <2> QED
    BY <2>1, <2>3, <2>4 DEF Places
<1>10. Stacks'
  <2>1. \A u \in Threads : \A i \in DOMAIN stack'[u] : phase'[stack'[u][i]] = "running"
    BY <1>4, <1>5, <1>6
  <2>2. ASSUME NEW u \in Threads, NEW v \in Threads, NEW i \in DOMAIN stack'[u],
               NEW k \in DOMAIN stack'[v], stack'[u][i] = stack'[v][k]
        PROVE  u = v /\ i = k
    BY <1>5, <1>6, <2>2 DEF Stacks
  <2> QED
    BY <2>1, <2>2 DEF Stacks
<1>11. Waits'
  <2>1. ASSUME NEW u \in Threads, NEW i \in DOMAIN stack'[u],
               i < Len(stack'[u]) \/ pc'[u] \in {"wait", "ended", "count_down"} \cup Looking \cup Stopping
        PROVE  scheduled[stack'[u][i]] = Len(Children[stack'[u][i]])
    <3>1. CASE u = t
      <4>1. i < Len(stack[t]) + 1
        BY <1>3, <1>4, <2>1, <3>1 DEF Looking, Stopping
      <4>2. i \in DOMAIN stack[t] /\ stack'[u][i] = stack[t][i]
        BY <1>3, <3>1, <4>1
      <4>3. pc[t] \in {"wait"} \cup Looking
        BY <1>1, <4>2 DEF Places, InLoop
      <4> QED
        BY <3>1, <4>2, <4>3 DEF Waits
    <3>2. CASE u # t
      BY <1>3, <1>4, <2>1, <3>2 DEF Waits
    <3> QED
      BY <3>1, <3>2
  <2> QED
    BY <1>2, <2>1 DEF Waits
<1>12. Schedules'
  <2>1. \A u \in Threads : Enqueued(u)' => Enqueued(u) /\ u # t
    BY <1>4 DEF Enqueued
  <2>2. \A k \in Jobs : phase'[k] = "unborn" <=> phase[k] = "unborn"
    BY <1>4
  <2>3. \A k \in Jobs : \A n \in 1..Len(Children[k]) : Children[k][n] \in Jobs
    BY Tree
  <2> QED
    BY <1>2, <1>4, <2>1, <2>2, <2>3 DEF Schedules
<1>13. Queues'
  <2>1. /\ \A w \in Workers : \A i \in DOMAIN deque[w] : deque[w][i] \in Jobs
        /\ \A i \in DOMAIN injection : injection[i] \in Jobs
    BY DEF Types
  <2>2. \A k \in Jobs : phase[k] = "queued" /\ k # j => phase'[k] = "queued"
    BY <1>4
  <2>3. /\ \A w \in Workers : \A i \in DOMAIN deque'[w] : phase'[deque'[w][i]] = "queued"
        /\ \A i \in DOMAIN injection' : phase'[injection'[i]] = "queued"
    BY <2>1, <2>2 DEF Queues
  <2>4. /\ \A w, v \in Workers : \A i \in DOMAIN deque'[w], k \in DOMAIN deque'[v] :
             deque'[w][i] = deque'[v][k] => w = v /\ i = k
        /\ \A i, k \in DOMAIN injection' : injection'[i] = injection'[k] => i = k
    BY DEF Queues
  <2>5. \A w \in Workers : \A i \in DOMAIN deque'[w], k \in DOMAIN injection' :
          deque'[w][i] # injection'[k]
    BY DEF Queues
  <2>6. ASSUME NEW u \in Threads, pc'[u] = "enqueue"
        PROVE  /\ phase'[Held(u)'] = "queued"
               /\ \A w \in Workers : \A i \in DOMAIN deque'[w] : deque'[w][i] # Held(u)'
               /\ \A i \in DOMAIN injection' : injection'[i] # Held(u)'
    <3>1. u # t /\ pc[u] = "enqueue" /\ Held(u)' = Held(u)
      BY <1>4, <2>6
    <3>2. Held(u) \in Jobs /\ Held(u) # j
      BY <3>1, Helds DEF Enqueued
    <3> QED
      BY <2>2, <3>1, <3>2 DEF Queues
  <2> QED
    BY <2>3, <2>4, <2>5, <2>6 DEF Queues
<1>14. Counts'
  <2>1. ASSUME NEW k \in Jobs PROVE Live(k)' = Live(k)
    <3>1. Kids(k) \subseteq Jobs
      BY Tree
    <3>2. \A d \in Jobs : phase'[d] \in {"queued", "running"} <=> phase[d] \in {"queued", "running"}
      BY <1>4
    <3> QED
      BY <3>1, <3>2 DEF Live
  <2> QED
    BY <1>2, <2>1 DEF Counts
<1>15. Ends'
  <2>1. ASSUME NEW k \in Jobs, NEW d \in Kids(k) PROVE phase'[d] = "freed" <=> phase[d] = "freed"
    BY <1>4, Tree
  <2> QED
    BY <1>7, <2>1 DEF Ends
<1>16. Throws'
  <2>1. \A k \in Jobs : phase'[k] \in {"unborn", "queued"} => phase[k] \in {"unborn", "queued"}
    BY <1>4
  <2>2. \A u \in Threads : u # t /\ (Enqueued(u)' \/ pc'[u] = "run") => Enqueued(u) \/ pc[u] = "run"
    BY <1>4 DEF Enqueued
  <2>3. thrown[j] = NoJob
    BY DEF Throws
  <2> QED
    BY <1>2, <1>4, <1>7, <2>1, <2>2, <2>3 DEF Throws
<1>17. Exceptions'
  BY <1>2, <1>7, <1>8, ExceptionsKept
<1> QED
  BY <1>9, <1>10, <1>11, <1>12, <1>13, <1>14, <1>15, <1>16, <1>17

(* A worker pops its own deque, any thread takes from the injection queue,  *)
(* and from the other deques.                                               *)
LEMMA PopOwnCore ==
  ASSUME IInv, NEW t \in Workers, MayLook(t), deque[t] # <<>>,
         deque' = [deque EXCEPT ![t] = Front(@)], Enter(t, Last(deque[t])), injection' = injection
  PROVE  Core'
<1> USE DEF IInv, Core
<1>1. /\ Len(deque[t]) \in Nat \ {0} /\ DOMAIN deque[t] = 1..Len(deque[t])
      /\ DOMAIN deque'[t] = 1..(Len(deque[t]) - 1) /\ Last(deque[t]) = deque[t][Len(deque[t])]
      /\ Last(deque[t]) \in Jobs
      /\ \A i \in 1..(Len(deque[t]) - 1) : deque'[t][i] = deque[t][i]
  <2>1. deque[t] \in Seq(Jobs) /\ deque'[t] = Front(deque[t])
    BY DEF Types
  <2> QED
    BY <2>1, OneLess, LessFront
<1>2. PICK j \in Jobs : j = Last(deque[t])
  BY <1>1
<1>3. \A w \in Workers : w # t => deque'[w] = deque[w]
  BY DEF Types
<1>4. Len(deque[t]) \in DOMAIN deque[t] /\ j = deque[t][Len(deque[t])]
  BY <1>1, <1>2
<1>5. ASSUME NEW w \in Workers, NEW i \in DOMAIN deque'[w]
      PROVE  i \in DOMAIN deque[w] /\ deque'[w][i] = deque[w][i] /\ deque[w][i] # j
  <2>1. CASE w # t
    BY <1>3, <1>4, <2>1 DEF Queues
  <2>2. CASE w = t
    <3>1. i \in DOMAIN deque[t] /\ i # Len(deque[t])
      BY <1>1, <2>2
    <3> QED
      BY <1>1, <1>4, <2>2, <3>1 DEF Queues
  <2> QED
    BY <2>1, <2>2
<1>6. /\ \A i \in DOMAIN injection : injection[i] # j
      /\ \A u \in Threads : pc[u] = "enqueue" => Held(u) # j
      /\ phase[j] = "queued"
  BY <1>4 DEF Queues
<1>7. \A w \in Workers : \A i, k \in DOMAIN deque'[w] : deque'[w][i] = deque'[w][k] => i = k
  BY <1>5 DEF Queues
<1>8. \A i, k \in DOMAIN injection : injection[i] = injection[k] => i = k
  BY DEF Queues
<1>9. t \in Threads /\ pc[t] \in {"look", "wait"} \cup Looking
  BY DEF MayLook, Threads
<1>10. Enter(t, j)
  BY <1>2
<1> QED
  BY <1>5, <1>6, <1>7, <1>8, <1>9, <1>10, EnterCore

(* Taking the oldest injected job moves it from the queue to the thread's   *)
(* stack.                                                                   *)
LEMMA TakeInjectedCore ==
  ASSUME IInv, NEW t \in Threads, pc[t] = "look_injection", injection # <<>>,
         injection' = Tail(injection), Enter(t, Head(injection)), deque' = deque
  PROVE  Core'
<1> USE DEF IInv, Core
<1>1. /\ Len(injection) \in Nat \ {0} /\ DOMAIN injection = 1..Len(injection)
      /\ DOMAIN injection' = 1..(Len(injection) - 1) /\ Head(injection) = injection[1]
      /\ Head(injection) \in Jobs
      /\ \A i \in 1..(Len(injection) - 1) : injection'[i] = injection[i + 1]
  <2>1. injection \in Seq(Jobs)
    BY DEF Types
  <2> QED
    BY <2>1, OneLess, LessHead
<1>2. PICK j \in Jobs : j = Head(injection)
  BY <1>1
<1>3. 1 \in DOMAIN injection /\ j = injection[1]
  BY <1>1, <1>2
<1>4. ASSUME NEW i \in DOMAIN injection'
      PROVE  i + 1 \in DOMAIN injection /\ injection'[i] = injection[i + 1] /\ injection[i + 1] # j
             /\ i \in Nat
  <2>1. i + 1 \in DOMAIN injection /\ i + 1 # 1 /\ i \in Nat
    BY <1>1
  <2> QED
    BY <1>1, <1>3, <2>1 DEF Queues
<1>5. /\ \A w \in Workers : \A i \in DOMAIN deque[w] : deque[w][i] # j
      /\ \A u \in Threads : pc[u] = "enqueue" => Held(u) # j
      /\ phase[j] = "queued"
  BY <1>3 DEF Queues
<1>6. \A w \in Workers : \A i, k \in DOMAIN deque[w] : deque[w][i] = deque[w][k] => i = k
  BY DEF Queues
<1>7. ASSUME NEW i \in DOMAIN injection', NEW k \in DOMAIN injection',
             injection'[i] = injection'[k]
      PROVE  i = k
  <2>1. i + 1 = k + 1 /\ i \in Nat /\ k \in Nat
    BY <1>4, <1>7 DEF Queues
  <2> QED
    BY <2>1
<1>8. pc[t] \in {"look", "wait"} \cup Looking
  BY DEF Looking
<1>9. Enter(t, j)
  BY <1>2
<1>10. \A i \in DOMAIN injection' :
         injection'[i] # j /\ \E n \in DOMAIN injection : injection'[i] = injection[n]
  BY <1>4
<1> QED
  BY <1>5, <1>6, <1>7, <1>8, <1>9, <1>10, EnterCore

(* Stealing moves the oldest job of the victim's deque to the thief's       *)
(* stack.                                                                   *)
LEMMA StealCore ==
  ASSUME IInv, NEW t \in Threads, NEW v \in Workers, pc[t] = "steal", deque[v] # <<>>,
         deque' = [deque EXCEPT ![v] = Tail(@)], Enter(t, Head(deque[v])), injection' = injection
  PROVE  Core'
<1> USE DEF IInv, Core
<1>1. /\ Len(deque[v]) \in Nat \ {0} /\ DOMAIN deque[v] = 1..Len(deque[v])
      /\ DOMAIN deque'[v] = 1..(Len(deque[v]) - 1) /\ Head(deque[v]) = deque[v][1]
      /\ Head(deque[v]) \in Jobs
      /\ \A i \in 1..(Len(deque[v]) - 1) : deque'[v][i] = deque[v][i + 1]
  <2>1. deque[v] \in Seq(Jobs) /\ deque'[v] = Tail(deque[v])
    BY DEF Types
  <2>2. /\ Len(deque[v]) \in Nat \ {0} /\ DOMAIN deque[v] = 1..Len(deque[v])
        /\ Head(deque[v]) = deque[v][1] /\ Head(deque[v]) \in Jobs
    BY <2>1, OneLess
  <2>3. /\ DOMAIN deque'[v] = 1..(Len(deque[v]) - 1)
        /\ \A i \in 1..(Len(deque[v]) - 1) : deque'[v][i] = deque[v][i + 1]
    BY <2>1, LessHead
  <2> QED
    BY <2>2, <2>3
<1>2. PICK j \in Jobs : j = Head(deque[v])
  BY <1>1
<1>3. 1 \in DOMAIN deque[v] /\ j = deque[v][1]
  BY <1>1, <1>2
<1>4. \A w \in Workers : w # v => deque'[w] = deque[w]
  BY DEF Types
<1>5. ASSUME NEW i \in DOMAIN deque'[v]
      PROVE  i + 1 \in DOMAIN deque[v] /\ deque'[v][i] = deque[v][i + 1] /\ deque[v][i + 1] # j
             /\ i \in Nat
  <2>1. i + 1 \in DOMAIN deque[v] /\ i + 1 # 1 /\ i \in Nat
    BY <1>1
  <2> QED
    BY <1>1, <1>3, <2>1 DEF Queues
<1>6. ASSUME NEW w \in Workers, NEW i \in DOMAIN deque'[w]
      PROVE  deque'[w][i] # j /\ \E n \in DOMAIN deque[w] : deque'[w][i] = deque[w][n]
  <2>1. CASE w = v
    BY <1>5, <2>1
  <2>2. CASE w # v
    BY <1>3, <1>4, <2>2 DEF Queues
  <2> QED
    BY <2>1, <2>2
<1>7. ASSUME NEW w \in Workers, NEW i \in DOMAIN deque'[w], NEW k \in DOMAIN deque'[w],
             deque'[w][i] = deque'[w][k]
      PROVE  i = k
  <2>1. CASE w = v
    <3>1. i + 1 = k + 1 /\ i \in Nat /\ k \in Nat
      BY <1>5, <1>7, <2>1 DEF Queues
    <3> QED
      BY <3>1
  <2>2. CASE w # v
    BY <1>4, <1>7, <2>2 DEF Queues
  <2> QED
    BY <2>1, <2>2
<1>8. /\ \A i \in DOMAIN injection : injection[i] # j
      /\ \A u \in Threads : pc[u] = "enqueue" => Held(u) # j
      /\ phase[j] = "queued"
  BY <1>3 DEF Queues
<1>9. \A i, k \in DOMAIN injection : injection[i] = injection[k] => i = k
  BY DEF Queues
<1>10. pc[t] \in {"look", "wait"} \cup Looking
  BY DEF Looking
<1>11. Enter(t, j)
  BY <1>2
<1> QED
  BY <1>6, <1>7, <1>8, <1>9, <1>10, <1>11, EnterCore

-----------------------------------------------------------------------------
(* A count that a step lowers is not zero.                                  *)
LEMMA CountedJob ==
  ASSUME IInv, NEW t \in Threads, stack[t] # <<>>, Top(t) # Root
  PROVE  /\ Top(t) \in Jobs /\ Parent(Top(t)) \in Jobs
         /\ pending[Parent(Top(t))] \in Nat \ {0}
<1>1. Top(t) \in Jobs \ {Root} /\ phase[Top(t)] = "running"
  BY Tops DEF IInv, Core
<1>2. PICK p \in Jobs : p = Parent(Top(t)) /\ Top(t) \in Kids(p)
  BY <1>1, Parents
<1>3. Top(t) \in Live(p) /\ IsFiniteSet(Live(p))
  BY <1>1, <1>2, Tree, FS_Subset DEF Live
<1>4. pending[p] # 0
  BY <1>3, FS_EmptySet DEF IInv, Core, Counts
<1> QED
  BY <1>1, <1>2, <1>4 DEF IInv, Types

(* A worker that is still to leave its sleep is counted.                    *)
LEMMA CountedSleeper == ASSUME IInv, NEW w \in Workers, pc[w] = "woken" PROVE sleepers \in Nat \ {0}
<1>1. IsFiniteSet(Workers) /\ Sleeping \subseteq Workers /\ w \in Sleeping
  BY TreeAssumption DEF Sleeping
<1>2. IsFiniteSet(Sleeping)
  BY <1>1, FS_Subset
<1>3. sleepers # 0
  BY <1>1, <1>2, FS_EmptySet DEF IInv, Sync, Sleeps
<1> QED
  BY <1>3 DEF IInv, Types

(* Every step keeps the types.                                              *)
LEMMA TypeStep == ASSUME IInv, [Next]_vars PROVE Types'
<1> USE DEF Types, Label, InLoop, Looking, Stopping, Goto
<1>0. Types
  BY DEF IInv
<1>1. ASSUME NEW t \in Threads, Emplace(t) PROVE Types'
  <2>1. stack[t] # <<>> /\ Top(t) \in Jobs
    BY <1>1, Tops DEF IInv, Core, Places, Emplace
  <2> QED
    <3>1. scheduled' \in [Jobs -> Nat] /\ pending' \in [Jobs -> Nat]
      BY <1>0, <1>1, <2>1 DEF Emplace
    <3>2. phase' \in [Jobs -> {"unborn", "queued", "running", "done", "freed"}]
      BY <1>0, <1>1, <2>1 DEF Emplace
    <3>3. pc' \in [Threads -> Label]
      BY <1>0, <1>1 DEF Emplace
    <3> QED
      BY <1>0, <1>1, <3>1, <3>2, <3>3 DEF Emplace, queues, sync, local
<1>2. ASSUME NEW t \in Threads, Enqueue(t) PROVE Types'
  <2>1. PICK c \in Jobs : c = Held(t)
    BY <1>2, Helds DEF IInv, Core, Enqueue, Enqueued
  <2>2. CASE t \in Workers /\ Len(deque[t]) < Capacity
    <3>1. deque[t] \in Seq(Jobs) /\ Len(deque[t]) \in Nat /\ Capacity \in Nat
      BY <1>0, <2>2, TreeAssumption
    <3>2. deque' = [deque EXCEPT ![t] = Append(@, c)] /\ injection' = injection
      BY <1>2, <2>1, <2>2 DEF Enqueue, Held
    <3>3. Append(deque[t], c) \in Seq(Jobs) /\ Len(Append(deque[t], c)) = Len(deque[t]) + 1
      BY <3>1
    <3>4. deque' \in [Workers -> Seq(Jobs)] /\ \A w \in Workers : Len(deque'[w]) <= Capacity
      BY <1>0, <2>2, <3>1, <3>2, <3>3
    <3> QED
      BY <1>0, <1>2, <3>2, <3>4 DEF Enqueue, sync, local, jobs
  <2>3. CASE ~(t \in Workers /\ Len(deque[t]) < Capacity)
    <3>1. injection' = Append(injection, c) /\ deque' = deque
      BY <1>2, <2>1, <2>3 DEF Enqueue, Held
    <3>2. injection' \in Seq(Jobs)
      BY <1>0, <3>1
    <3> QED
      BY <1>0, <1>2, <3>1, <3>2 DEF Enqueue, sync, local, jobs
  <2> QED
    BY <2>2, <2>3
<1>3. ASSUME NEW t \in Threads, BumpEpoch(t) \/ NotifyOne(t) PROVE Types'
  <2>1. CASE BumpEpoch(t)
    BY <1>0, <2>1 DEF BumpEpoch, queues, local, jobs
  <2>2. CASE NotifyOne(t)
    BY <1>0, <2>2 DEF NotifyOne, queues, local, jobs
  <2> QED
    BY <1>3, <2>1, <2>2
<1>4. ASSUME NEW t \in Threads, RunInline(t) \/ WaitReset(t) \/ RecordException(t) PROVE Types'
  <2>1. stack[t] # <<>> /\ Top(t) \in Jobs
    BY <1>4, Tops DEF IInv, Core, Places, RunInline, WaitReset, RecordException
  <2>2. CASE RunInline(t)
    BY <1>0, <2>1, <2>2 DEF RunInline, queues, sync, local
  <2>3. CASE WaitReset(t)
    BY <1>0, <2>1, <2>3 DEF WaitReset, queues, sync, local
  <2>4. CASE RecordException(t)
    BY <1>0, <2>1, <2>4 DEF RecordException, queues, sync, local
  <2> QED
    BY <1>4, <2>2, <2>3, <2>4
<1>5. ASSUME NEW t \in Threads, CountDown(t) PROVE Types'
  <2>1. stack[t] # <<>> /\ Top(t) # Root
    BY <1>5 DEF IInv, Core, Places, CountDown
  <2>2. Top(t) \in Jobs /\ Parent(Top(t)) \in Jobs /\ pending[Parent(Top(t))] \in Nat \ {0}
    BY <2>1, CountedJob
  <2>3. stack' \in [Threads -> Seq(Jobs)]
    BY <1>0, <1>5, <2>1, Pop DEF CountDown
  <2>4. pending' \in [Jobs -> Nat]
    <3>1. \A n \in Nat \ {0} : n - 1 \in Nat
      OBVIOUS
    <3> QED
      BY <1>0, <1>5, <2>2, <3>1 DEF CountDown
  <2> QED
    BY <1>0, <1>5, <2>2, <2>3, <2>4 DEF CountDown, queues, sync, local
<1>6. ASSUME NEW t \in Threads, NEW j \in Jobs, Enter(t, j),
             deque' \in [Workers -> Seq(Jobs)], \A w \in Workers : Len(deque'[w]) <= Capacity,
             injection' \in Seq(Jobs)
      PROVE  Types'
  <2>1. stack' \in [Threads -> Seq(Jobs)]
    BY <1>0, <1>6, Push DEF Enter
  <2> QED
    BY <1>0, <1>6, <2>1 DEF Enter, sync
<1>7. ASSUME NEW t \in Threads, PopOwn(t) PROVE Types'
  <2>1. CASE t \in Workers /\ deque[t] # <<>>
    <3>1. deque' = [deque EXCEPT ![t] = Front(@)] /\ Enter(t, Last(deque[t])) /\ injection' = injection
      BY <1>7, <2>1 DEF PopOwn
    <3>2. deque[t] \in Seq(Jobs) /\ Len(deque[t]) <= Capacity
      BY <1>0, <2>1
    <3>3. /\ Last(deque[t]) \in Jobs /\ Front(deque[t]) \in Seq(Jobs)
          /\ Len(deque[t]) \in Nat /\ Len(Front(deque[t])) = Len(deque[t]) - 1
      BY <2>1, <3>2, OneLess, LessFront
    <3>4. Len(Front(deque[t])) <= Capacity
      BY <3>2, <3>3, TreeAssumption
    <3>5. deque' \in [Workers -> Seq(Jobs)] /\ \A w \in Workers : Len(deque'[w]) <= Capacity
      BY <1>0, <2>1, <3>1, <3>3, <3>4
    <3> QED
      BY <1>0, <1>6, <3>1, <3>3, <3>5
  <2>2. CASE ~(t \in Workers /\ deque[t] # <<>>)
    BY <1>0, <1>7, <2>2 DEF PopOwn, queues, sync, local, jobs
  <2> QED
    BY <2>1, <2>2
<1>8. ASSUME NEW t \in Threads, TakeInjected(t) PROVE Types'
  <2>1. CASE injection # <<>>
    <3>1. injection' = Tail(injection) /\ Enter(t, Head(injection)) /\ deque' = deque
      BY <1>8, <2>1 DEF TakeInjected
    <3>2. Head(injection) \in Jobs /\ injection' \in Seq(Jobs)
      BY <1>0, <2>1, <3>1
    <3> QED
      BY <1>0, <1>6, <3>1, <3>2
  <2>2. CASE injection = <<>>
    BY <1>0, <1>8, <2>2 DEF TakeInjected, queues, sync, local, jobs
  <2> QED
    BY <2>1, <2>2
<1>9. ASSUME NEW t \in Threads, Steal(t) PROVE Types'
  <2>1. PICK v \in Workers : /\ deque[v] # <<>> /\ deque' = [deque EXCEPT ![v] = Tail(@)]
                             /\ Enter(t, Head(deque[v])) /\ injection' = injection
    BY <1>9 DEF Steal
  <2>2. deque[v] \in Seq(Jobs) /\ Len(deque[v]) <= Capacity
    BY <1>0
  <2>3. /\ Head(deque[v]) \in Jobs /\ Tail(deque[v]) \in Seq(Jobs)
        /\ Len(deque[v]) \in Nat /\ Len(Tail(deque[v])) = Len(deque[v]) - 1
    BY <2>1, <2>2
  <2>4. Len(Tail(deque[v])) <= Capacity
    BY <2>2, <2>3, TreeAssumption
  <2>5. deque' \in [Workers -> Seq(Jobs)] /\ \A w \in Workers : Len(deque'[w]) <= Capacity
    BY <1>0, <2>1, <2>3, <2>4
  <2> QED
    BY <1>0, <1>6, <2>1, <2>3, <2>5
<1>10. ASSUME NEW t \in Threads, StealNothing(t) PROVE Types'
  BY <1>0, <1>10 DEF StealNothing, queues, sync, local, jobs
<1>11. ASSUME NEW t \in Threads, ThreadStep(t) PROVE Types'
  BY <1>1, <1>2, <1>3, <1>4, <1>5, <1>7, <1>8, <1>9, <1>10, <1>11 DEF ThreadStep
<1>12. ASSUME NEW w \in Workers, Leave(w) \/ Spin(w) \/ ReadEpoch(w) \/ AddSleeper(w) \/ EpochWait(w)
       PROVE  Types'
  <2>1. w \in Threads
    BY DEF Threads
  <2> QED
    <3>1. CASE Leave(w) \/ Spin(w)
      BY <1>0, <2>1, <3>1 DEF Leave, Spin, queues, sync, local, jobs
    <3>2. CASE ReadEpoch(w)
      BY <1>0, <2>1, <3>2 DEF ReadEpoch, queues, sync, jobs
    <3>3. CASE AddSleeper(w)
      BY <1>0, <2>1, <3>3 DEF AddSleeper, queues, jobs
    <3>4. CASE EpochWait(w)
      BY <1>0, <2>1, <3>4 DEF EpochWait, queues, jobs
    <3> QED
      BY <1>12, <3>1, <3>2, <3>3, <3>4
<1>13. ASSUME NEW w \in Workers, Wake(w) PROVE Types'
  <2>1. w \in Threads
    BY DEF Threads
  <2>2. sleepers' \in Nat
    <3>1. sleepers \in Nat \ {0}
      BY <1>13, CountedSleeper DEF Wake
    <3> QED
      BY <1>13, <3>1 DEF Wake
  <2> QED
    BY <1>0, <1>13, <2>1, <2>2 DEF Wake, queues, local, jobs
<1>14. ASSUME SetStopping \/ StopBump \/ StopNotifyAll \/ Join PROVE Types'
  <2>1. Main \in Threads
    BY DEF Threads
  <2> QED
    <3>1. CASE SetStopping
      BY <1>0, <2>1, <3>1 DEF SetStopping, queues, local, jobs
    <3>2. CASE StopBump
      BY <1>0, <2>1, <3>2 DEF StopBump, queues, local, jobs
    <3>3. CASE StopNotifyAll
      BY <1>0, <2>1, <3>3 DEF StopNotifyAll, queues, local, jobs
    <3>4. CASE Join
      BY <1>0, <2>1, <3>4 DEF Join, queues, sync, local, jobs
    <3> QED
      BY <1>14, <3>1, <3>2, <3>3, <3>4
<1>15. CASE UNCHANGED vars
  BY <1>0, <1>15 DEF vars, queues, sync, local, jobs
<1>16. CASE MainStep
  BY <1>11, <1>14, <1>16 DEF MainStep, Threads
<1>17. CASE \E w \in Workers : WorkerStep(w)
  BY <1>11, <1>12, <1>13, <1>17 DEF WorkerStep, Threads
<1> QED
  BY <1>15, <1>16, <1>17 DEF Next, Terminated

(* Every step keeps what holds of the jobs.                                 *)
LEMMA CoreStep == ASSUME IInv, [Next]_vars PROVE Core'
<1>1. ASSUME NEW t \in Threads, NEW l, <<pc[t], l>> \in Moves, Goto(t, l),
             UNCHANGED <<queues, stack, jobs>>, l \notin {"wait", "idle", "stop_bump"},
             is_stopping' = is_stopping
      PROVE  Core'
  BY <1>1, Quiet
<1>2. ASSUME NEW t \in Threads, ThreadStep(t) PROVE Core'
  <2>1. CASE BumpEpoch(t)
    <3>1. <<pc[t], "notify">> \in Moves
      BY <2>1 DEF BumpEpoch, Moves
    <3> QED
      BY <1>1, <2>1, <3>1 DEF BumpEpoch
  <2>2. CASE NotifyOne(t)
    <3>1. <<pc[t], "run">> \in Moves
      BY <2>2 DEF NotifyOne, Moves
    <3> QED
      BY <1>1, <2>2, <3>1 DEF NotifyOne
  <2>3. CASE PopOwn(t)
    <3>1. CASE t \in Workers /\ deque[t] # <<>>
      BY <2>3, <3>1, PopOwnCore DEF PopOwn
    <3>2. CASE ~(t \in Workers /\ deque[t] # <<>>)
      <4>1. <<pc[t], "look_injection">> \in Moves
        BY <2>3 DEF PopOwn, MayLook, Moves
      <4> QED
        BY <1>1, <2>3, <3>2, <4>1 DEF PopOwn, sync
    <3> QED
      BY <3>1, <3>2
  <2>4. CASE TakeInjected(t)
    <3>1. CASE injection # <<>>
      BY <2>4, <3>1, TakeInjectedCore DEF TakeInjected
    <3>2. CASE injection = <<>>
      <4>1. <<pc[t], "steal">> \in Moves
        BY <2>4 DEF TakeInjected, Moves
      <4> QED
        BY <1>1, <2>4, <3>2, <4>1 DEF TakeInjected, sync
    <3> QED
      BY <3>1, <3>2
  <2>5. CASE Steal(t)
    BY <2>5, StealCore DEF Steal
  <2>6. CASE StealNothing(t)
    <3>1. <<pc[t], "wait">> \in Moves /\ <<pc[t], "idle">> \in Moves
      BY <2>6 DEF StealNothing, Moves
    <3>2. is_stopping' = is_stopping /\ UNCHANGED <<queues, stack, jobs>>
      BY <2>6 DEF StealNothing, sync
    <3>3. CASE stack[t] # <<>>
      <4>1. Goto(t, "wait")
        BY <2>6, <3>3 DEF StealNothing
      <4> QED
        BY <3>1, <3>2, <3>3, <4>1, Quiet
    <3>4. CASE stack[t] = <<>>
      <4>1. Goto(t, "idle")
        BY <2>6, <3>4 DEF StealNothing
      <4> QED
        BY <3>1, <3>2, <3>4, <4>1, Quiet
    <3> QED
      BY <3>3, <3>4
  <2> QED
    BY <1>2, <2>1, <2>2, <2>3, <2>4, <2>5, <2>6, EmplaceCore, EnqueueCore, RunInlineCore,
       WaitResetCore, RecordCore, CountDownCore DEF ThreadStep
<1>3. ASSUME NEW w \in Workers, \/ Leave(w) \/ Spin(w) \/ ReadEpoch(w) \/ AddSleeper(w)
                                \/ EpochWait(w) \/ Wake(w)
      PROVE  Core'
  <2>1. w \in Threads
    BY DEF Threads
  <2>2. CASE Leave(w)
    <3>1. <<pc[w], "left">> \in Moves
      BY <2>2 DEF Leave, Moves
    <3> QED
      BY <1>1, <2>1, <2>2, <3>1 DEF Leave, sync
  <2>3. CASE Spin(w) \/ ReadEpoch(w) \/ Wake(w)
    <3>1. <<pc[w], "look">> \in Moves
      BY <2>3 DEF Spin, ReadEpoch, Wake, Moves
    <3> QED
      BY <1>1, <2>1, <2>3, <3>1 DEF Spin, ReadEpoch, Wake, sync
  <2>4. CASE AddSleeper(w)
    <3>1. <<pc[w], "sleep">> \in Moves
      BY <2>4 DEF AddSleeper, Moves
    <3> QED
      BY <1>1, <2>1, <2>4, <3>1 DEF AddSleeper
  <2>5. CASE EpochWait(w)
    <3>1. <<pc[w], "woken">> \in Moves
      BY <2>5 DEF EpochWait, Moves
    <3> QED
      BY <1>1, <2>1, <2>5, <3>1 DEF EpochWait
  <2> QED
    BY <1>3, <2>2, <2>3, <2>4, <2>5
<1>4. ASSUME SetStopping \/ StopBump \/ StopNotifyAll \/ Join PROVE Core'
  <2>1. Main \in Threads
    BY DEF Threads
  <2>2. CASE SetStopping
    <3>1. <<pc[Main], "stop_bump">> \in Moves
      BY <2>2 DEF SetStopping, Moves
    <3>2. /\ Goto(Main, "stop_bump") /\ UNCHANGED <<queues, stack, jobs>> /\ Top(Main) = Root
          /\ is_stopping' = TRUE
      BY <2>2 DEF SetStopping
    <3> QED
      BY <2>1, <3>1, <3>2, Quiet
  <2>3. CASE StopBump
    <3>1. <<pc[Main], "stop_notify">> \in Moves
      BY <2>3 DEF StopBump, Moves
    <3> QED
      BY <1>1, <2>1, <2>3, <3>1 DEF StopBump
  <2>4. CASE StopNotifyAll
    <3>1. <<pc[Main], "join">> \in Moves
      BY <2>4 DEF StopNotifyAll, Moves
    <3> QED
      BY <1>1, <2>1, <2>4, <3>1 DEF StopNotifyAll
  <2>5. CASE Join
    <3>1. <<pc[Main], "joined">> \in Moves
      BY <2>5 DEF Join, Moves
    <3> QED
      BY <1>1, <2>1, <2>5, <3>1 DEF Join, sync
  <2> QED
    BY <1>4, <2>2, <2>3, <2>4, <2>5
<1>5. CASE UNCHANGED vars
  <2> USE DEF IInv, Core
  <2>1. UNCHANGED <<deque, injection, is_stopping, pc, stack, phase, scheduled, pending, exception, thrown>>
    BY <1>5 DEF vars, queues, sync, jobs
  <2>2. Places' /\ Stacks' /\ Waits' /\ Counts'
    BY <2>1 DEF Places, Stacks, Waits, Counts, Live, Top
  <2>3. Schedules' /\ Queues'
    BY <2>1 DEF Schedules, Queues, Enqueued, Held, Top
  <2>4. \A k \in Jobs : (Ended(k)' <=> Ended(k)) /\ (Recorded(k)' <=> Recorded(k))
    BY <2>1 DEF Ended, Recorded, AtTop, Top
  <2>5. Ends' /\ Throws'
    BY <2>1, <2>4 DEF Ends, Throws, Enqueued, Top
  <2>6. Exceptions'
    BY <2>1, <2>4, ExceptionsKept
  <2> QED
    BY <2>2, <2>3, <2>5, <2>6
<1>6. CASE MainStep
  BY <1>2, <1>4, <1>6 DEF MainStep, Threads
<1>7. CASE \E w \in Workers : WorkerStep(w)
  BY <1>2, <1>3, <1>7 DEF WorkerStep, Threads
<1> QED
  BY <1>5, <1>6, <1>7 DEF Next, Terminated

-----------------------------------------------------------------------------
(* The set the epoch counts changes only with a job's birth and with a bump.*)
LEMMA BumpedKept ==
  ASSUME \A k \in Jobs : phase'[k] = "unborn" <=> phase[k] = "unborn",
         \A u \in Threads : pc'[u] \in {"enqueue", "bump"} <=> pc[u] \in {"enqueue", "bump"},
         \A u \in Threads : pc[u] \in {"enqueue", "bump"} => Held(u)' = Held(u)
  PROVE  Bumped' = Bumped
<1>1. Unbumped' = Unbumped
  BY DEF Unbumped
<1> QED
  BY <1>1 DEF Bumped

(* A step that bumps nothing, and reads the epoch at most, keeps what the   *)
(* epoch counts.                                                            *)
LEMMA EpochsKept ==
  ASSUME Types, Epochs, Bumped' = Bumped, epoch' = epoch,
         pc'[Main] \in {"stop_notify", "join", "joined"}
           <=> pc[Main] \in {"stop_notify", "join", "joined"},
         \A u \in Threads : seen_epoch'[u] \in {seen_epoch[u], 0, epoch}
  PROVE  Epochs'
<1>1. StopBumped' <=> StopBumped
  BY DEF StopBumped
<1>2. epoch' = Cardinality(Bumped') + (IF StopBumped' THEN 1 ELSE 0)
  BY <1>1 DEF Epochs
<1>3. ASSUME NEW u \in Threads PROVE seen_epoch'[u] <= epoch'
  <2>1. seen_epoch[u] \in Nat /\ epoch \in Nat /\ seen_epoch[u] <= epoch
    BY DEF Epochs, Types
  <2> QED
    BY <2>1
<1> QED
  BY <1>2, <1>3 DEF Epochs

(* The steps of a thread that is, and stays, busy.                          *)
LEMMA Busy ==
  ASSUME IInv, NEW t \in Threads, NEW l, Goto(t, l), pc[t] \notin {"bump", "sleep", "woken"},
         l \notin Looking \cup {"idle", "sleep", "woken", "left"},
         sleepers' = sleepers, epoch' = epoch, waiting' \subseteq waiting,
         \A w \in Workers : w # t => last_look'[w] = last_look[w] /\ seen_epoch'[w] = seen_epoch[w],
         \A w \in Workers : w # t /\ deque[w] = <<>> => deque'[w] = <<>>,
         injection' = <<>> \/ injection # <<>> \/ l = "bump"
  PROVE  Sleeps' /\ Empties' /\ Looks'
<1>1. pc'[t] = l /\ \A u \in Threads : u # t => pc'[u] = pc[u]
  BY DEF Goto, IInv, Types
<1>2. \A w \in Workers : w \in Threads
  BY DEF Threads
<1>3. Sleeps'
  <2>1. Sleeping' = Sleeping
    BY <1>1, <1>2 DEF Sleeping
  <2>2. waiting \subseteq Workers /\ \A w \in waiting : pc[w] = "woken" /\ w # t
    BY DEF IInv, Types, Sync, Sleeps
  <2>3. \A w \in waiting' : pc'[w] = "woken"
    BY <1>1, <1>2, <2>2
  <2> QED
    BY <2>1, <2>3 DEF IInv, Sync, Sleeps
<1>4. Empties'
  BY <1>1, <1>2 DEF IInv, Sync, Empties
<1>5. Looks'
  <2> SUFFICES ASSUME NEW w \in Workers, Looked(w)', seen_epoch'[w] = epoch', injection' # <<>>
               PROVE  \E u \in Threads : pc'[u] = "bump"
    BY DEF Looks
  <2>1. w # t /\ Looked(w) /\ seen_epoch[w] = epoch
    BY <1>1, <1>2 DEF Looked, Looking
  <2>2. CASE l = "bump"
    BY <1>1, <2>2
  <2>3. CASE injection # <<>>
    <3>1. PICK u \in Threads : pc[u] = "bump"
      BY <2>1, <2>3 DEF IInv, Sync, Looks
    <3> QED
      BY <1>1, <3>1
  <2> QED
    BY <2>2, <2>3
<1> QED
  BY <1>3, <1>4, <1>5

(* Emplace: the new job is held, so the epoch does not count it yet.        *)
LEMMA EmplaceSync == ASSUME IInv, NEW t \in Threads, Emplace(t) PROVE Sync'
<1> USE DEF IInv, Core, Sync
<1>1. PICK j \in Jobs :
        /\ pc \in [Threads -> Label] /\ pc[t] = "run" /\ stack[t] # <<>>
        /\ j = Top(t) /\ scheduled[j] \in Nat /\ Len(Children[j]) \in Nat
        /\ scheduled[j] < Len(Children[j])
  <2>1. pc[t] = "run" /\ stack[t] # <<>>
    BY DEF Emplace, Places, InLoop, Looking
  <2>2. Top(t) \in Jobs
    BY <2>1, Tops
  <2> QED
    BY <2>1, <2>2, Tree DEF Types, Emplace
<1>2. PICK c \in Kids(j) :
        c = Children[j][scheduled[j] + 1] /\ c \in Jobs \ {Root} /\ phase[c] = "unborn"
  <2>1. scheduled[j] + 1 \in 1..Len(Children[j]) /\ scheduled[j] + 1 > scheduled[j]
    BY <1>1
  <2> QED
    BY <1>1, <2>1, Tree DEF Schedules
<1>3. /\ scheduled' = [scheduled EXCEPT ![j] = @ + 1] /\ phase' = [phase EXCEPT ![c] = "queued"]
      /\ pc' = [pc EXCEPT ![t] = "enqueue"] /\ Goto(t, "enqueue") /\ stack' = stack
      /\ deque' = deque /\ injection' = injection /\ waiting' = waiting /\ sleepers' = sleepers
      /\ epoch' = epoch /\ last_look' = last_look /\ seen_epoch' = seen_epoch
  BY <1>1, <1>2 DEF Emplace, Goto, queues, sync, local
<1>4. Sleeps' /\ Empties' /\ Looks'
  BY <1>1, <1>3, Busy DEF Looking
<1>5. Unbumped' = Unbumped \cup {c}
  <2>1. Held(t)' = c
    BY <1>1, <1>2, <1>3 DEF Held, Top, Types
  <2>2. ASSUME NEW u \in Threads, u # t, pc[u] \in {"enqueue", "bump"} PROVE Held(u)' = Held(u)
    <3>1. stack[u] # <<>>
      BY <2>2 DEF Places, InLoop, Looking
    <3>2. Top(u) \in Jobs /\ Top(u) # j
      BY <1>1, <2>2, <3>1, Tops
    <3> QED
      BY <1>3, <3>2 DEF Held, Top, Types
  <2>3. /\ pc'[t] = "enqueue" /\ pc[t] = "run"
        /\ \A u \in Threads : u # t => pc'[u] = pc[u]
    BY <1>1, <1>3
  <2> QED
    BY <2>1, <2>2, <2>3 DEF Unbumped
<1>6. Bumped' = Bumped
  <2>1. \A k \in Jobs : phase'[k] # "unborn" <=> phase[k] # "unborn" \/ k = c
    BY <1>2, <1>3 DEF Types
  <2> QED
    BY <1>2, <1>5, <2>1 DEF Bumped
<1>7. Epochs'
  <2>1. pc'[Main] \in {"stop_notify", "join", "joined"} <=> pc[Main] \in {"stop_notify", "join", "joined"}
    BY <1>1, <1>3 DEF Threads
  <2> QED
    BY <1>3, <1>6, <2>1, EpochsKept
<1> QED
  BY <1>4, <1>7

(* Bumping the epoch counts the job held, and no worker that looked before  *)
(* can block any more.                                                      *)
LEMMA BumpSync == ASSUME IInv, NEW t \in Threads, BumpEpoch(t) PROVE Sync'
<1> USE DEF IInv, Core, Sync
<1>1. /\ pc \in [Threads -> Label] /\ pc[t] = "bump" /\ pc' = [pc EXCEPT ![t] = "notify"]
      /\ epoch' = epoch + 1 /\ epoch \in Nat /\ seen_epoch \in [Threads -> Nat]
      /\ scheduled' = scheduled /\ phase' = phase
      /\ deque' = deque /\ injection' = injection /\ waiting' = waiting /\ sleepers' = sleepers
      /\ last_look' = last_look /\ seen_epoch' = seen_epoch /\ stack' = stack
  BY DEF BumpEpoch, Goto, queues, local, jobs, Types
<1>2. pc'[t] = "notify" /\ \A u \in Threads : u # t => pc'[u] = pc[u]
  BY <1>1
<1>3. PICK c \in Jobs \ {Root} :
        /\ c = Held(t) /\ phase[c] # "unborn"
        /\ \A u \in Threads : Enqueued(u) /\ Held(u) = c => u = t
  BY <1>1, Helds DEF Enqueued
<1>4. Bumped' = Bumped \cup {c} /\ c \notin Bumped
  <2>1. \A u \in Threads : Held(u)' = Held(u)
    BY <1>1 DEF Held, Top
  <2>2. \A u \in Threads : u # t /\ pc[u] \in {"enqueue", "bump"} => Held(u) # c
    BY <1>3 DEF Enqueued
  <2>3. Unbumped' = Unbumped \ {c} /\ c \in Unbumped
    BY <1>1, <1>2, <1>3, <2>1, <2>2 DEF Unbumped
  <2> QED
    BY <1>1, <1>3, <2>3 DEF Bumped
<1>5. Epochs'
  <2>1. IsFiniteSet(Bumped)
    BY TreeAssumption, FS_Subset DEF Bumped
  <2>2. Cardinality(Bumped') = Cardinality(Bumped) + 1 /\ Cardinality(Bumped) \in Nat
    BY <1>4, <2>1, FS_AddElement, FS_CardinalityType
  <2>3. StopBumped' <=> StopBumped
    BY <1>1 DEF StopBumped, Threads
  <2>4. epoch' = Cardinality(Bumped') + (IF StopBumped' THEN 1 ELSE 0)
    BY <1>1, <2>2, <2>3 DEF Epochs
  <2>5. \A u \in Threads : seen_epoch'[u] <= epoch'
    BY <1>1 DEF Epochs
  <2> QED
    BY <2>4, <2>5 DEF Epochs
<1>6. Sleeps'
  <2>1. Sleeping' = Sleeping
    BY <1>1, <1>2 DEF Sleeping, Threads
  <2>2. waiting \subseteq Workers /\ \A w \in waiting : pc[w] = "woken" /\ w # t
    BY <1>1 DEF Types, Sleeps
  <2>3. \A w \in waiting' : pc'[w] = "woken"
    BY <1>1, <1>2, <2>2 DEF Threads
  <2> QED
    BY <1>1, <2>1, <2>3 DEF Sleeps
<1>7. Empties'
  BY <1>1, <1>2 DEF Empties, Threads, Looking
<1>8. Looks'
  <2>1. \A w \in Workers : seen_epoch'[w] # epoch'
    BY <1>1 DEF Epochs, Threads
  <2> QED
    BY <2>1 DEF Looks
<1> QED
  BY <1>5, <1>6, <1>7, <1>8

(* The other steps of the jobs: no birth, no bump.                          *)
LEMMA JobSync ==
  ASSUME IInv, NEW t \in Threads,
         \/ Enqueue(t) \/ NotifyOne(t) \/ RunInline(t) \/ WaitReset(t) \/ RecordException(t)
         \/ CountDown(t)
  PROVE  Sync'
<1> USE DEF IInv, Core, Sync
<1>1. PICK l \in {"bump", "run", "ended", "wait", "count_down", "look"} :
        /\ Goto(t, l) /\ pc[t] \in {"enqueue", "notify", "run", "wait", "ended", "count_down"}
        /\ pc[t] = "enqueue" <=> l = "bump"
        /\ sleepers' = sleepers /\ epoch' = epoch /\ waiting' \subseteq waiting
        /\ last_look' = last_look /\ seen_epoch' = seen_epoch
        /\ \A w \in Workers : w # t /\ deque[w] = <<>> => deque'[w] = <<>>
        /\ l # "bump" => injection' = injection
        /\ scheduled' = scheduled /\ \A u \in Threads : u # t => stack'[u] = stack[u]
        /\ l = "bump" => stack' = stack
  <2>1. CASE Enqueue(t)
    <3>1. deque \in [Workers -> Seq(Jobs)]
      BY DEF Types
    <3>2. \A w \in Workers : w # t => deque'[w] = deque[w]
      BY <2>1, <3>1 DEF Enqueue
    <3> QED
      BY <2>1, <3>2 DEF Enqueue, sync, local, jobs
  <2>2. CASE NotifyOne(t)
    BY <2>2 DEF NotifyOne, queues, local, jobs
  <2>3. CASE RunInline(t)
    BY <2>3 DEF RunInline, queues, sync, local
  <2>4. CASE WaitReset(t)
    BY <2>4 DEF WaitReset, queues, sync, local
  <2>5. CASE RecordException(t)
    BY <2>5 DEF RecordException, queues, sync, local
  <2>6. CASE CountDown(t)
    <3>1. \A u \in Threads : u # t => stack'[u] = stack[u]
      BY <2>6 DEF CountDown, Types
    <3> QED
      BY <2>6, <3>1 DEF CountDown, queues, sync, local
  <2> QED
    BY <2>1, <2>2, <2>3, <2>4, <2>5, <2>6
<1>2. Sleeps' /\ Empties' /\ Looks'
  <2>1. /\ pc[t] \notin {"bump", "sleep", "woken"}
        /\ l \notin Looking \cup {"idle", "sleep", "woken", "left"}
    BY <1>1 DEF Looking
  <2> QED
    BY <1>1, <2>1, Busy
<1>3. pc'[t] = l /\ \A u \in Threads : u # t => pc'[u] = pc[u]
  BY <1>1 DEF Goto, Types
<1>4. \A k \in Jobs : phase'[k] = "unborn" <=> phase[k] = "unborn"
  <2>1. CASE Enqueue(t) \/ NotifyOne(t) \/ RunInline(t) \/ RecordException(t)
    BY <2>1 DEF Enqueue, NotifyOne, RunInline, RecordException, jobs
  <2>2. CASE CountDown(t)
    <3>1. stack[t] # <<>>
      BY <2>2 DEF CountDown, Places, InLoop, Looking
    <3>2. Top(t) \in Jobs /\ phase[Top(t)] = "running" /\ phase' = [phase EXCEPT ![Top(t)] = "done"]
      BY <2>2, <3>1, Tops DEF CountDown
    <3> QED
      BY <3>2 DEF Types
  <2>3. CASE WaitReset(t)
    <3>1. /\ stack[t] # <<>> /\ pc[t] = "wait" /\ pending[Top(t)] = 0
          /\ phase' = [d \in Jobs |-> IF d \in Kids(Top(t)) THEN "freed" ELSE phase[d]]
      BY <2>3 DEF WaitReset, Places, InLoop, Looking, Kids
    <3>2. PICK j \in Jobs : j = Top(t) /\ scheduled[j] = Len(Children[j])
      BY <3>1, Tops DEF Waits
    <3>3. ASSUME NEW d \in Kids(j) PROVE phase[d] # "unborn"
      <4>1. PICK n \in 1..Len(Children[j]) : d = Children[j][n]
        BY Tree
      <4>2. ~(n > scheduled[j])
        BY <3>2, <4>1, Tree
      <4> QED
        BY <4>1, <4>2 DEF Schedules
    <3> QED
      BY <3>1, <3>2, <3>3
  <2> QED
    BY <2>1, <2>2, <2>3
<1>5. Epochs'
  <2>1. \A u \in Threads : pc'[u] \in {"enqueue", "bump"} <=> pc[u] \in {"enqueue", "bump"}
    BY <1>1, <1>3
  <2>2. \A u \in Threads : pc[u] \in {"enqueue", "bump"} => Held(u)' = Held(u)
    BY <1>1 DEF Held, Top
  <2>3. Bumped' = Bumped
    BY <1>4, <2>1, <2>2, BumpedKept
  <2>4. pc'[Main] \in {"stop_notify", "join", "joined"} <=> pc[Main] \in {"stop_notify", "join", "joined"}
    BY <1>1, <1>3 DEF Threads
  <2> QED
    BY <1>1, <2>3, <2>4, EpochsKept
<1> QED
  BY <1>2, <1>5

(* Entering a job forgets the last look.                                    *)
LEMMA EnterSync ==
  ASSUME IInv, NEW t \in Threads, NEW j \in Jobs, Enter(t, j), phase[j] = "queued",
         pc[t] \in {"look", "wait"} \cup Looking,
         \A w \in Workers : deque[w] = <<>> => deque'[w] = <<>>,
         injection' = <<>> \/ injection # <<>>
  PROVE  Sync'
<1> USE DEF IInv, Core, Sync
<1>1. /\ Goto(t, "run") /\ pc' = [pc EXCEPT ![t] = "run"] /\ pc \in [Threads -> Label]
      /\ sleepers' = sleepers /\ epoch' = epoch /\ waiting' = waiting /\ scheduled' = scheduled
      /\ stack' = [stack EXCEPT ![t] = Append(@, j)] /\ phase' = [phase EXCEPT ![j] = "running"]
      /\ last_look' = [last_look EXCEPT ![t] = FALSE]
      /\ seen_epoch' = [seen_epoch EXCEPT ![t] = 0]
  BY DEF Enter, Goto, sync, Types
<1>2. /\ \A u \in Threads : u # t => pc'[u] = pc[u] /\ stack'[u] = stack[u]
      /\ pc'[t] = "run" /\ pc[t] \in {"look", "wait"} \cup Looking
      /\ \A u \in Threads : u # t => last_look'[u] = last_look[u] /\ seen_epoch'[u] = seen_epoch[u]
      /\ seen_epoch'[t] = 0
  BY <1>1 DEF Types
<1>3. Sleeps' /\ Empties' /\ Looks'
  <2>1. /\ pc[t] \notin {"bump", "sleep", "woken"}
        /\ "run" \notin Looking \cup {"idle", "sleep", "woken", "left"}
    BY DEF Looking
  <2> QED
    BY <1>1, <1>2, <2>1, Busy DEF Threads
<1>4. Epochs'
  <2>1. \A u \in Threads : pc'[u] \in {"enqueue", "bump"} <=> pc[u] \in {"enqueue", "bump"}
    BY <1>2 DEF Looking
  <2>2. \A u \in Threads : pc[u] \in {"enqueue", "bump"} => Held(u)' = Held(u)
    BY <1>1, <1>2 DEF Held, Top, Looking
  <2>3. \A k \in Jobs : phase'[k] = "unborn" <=> phase[k] = "unborn"
    BY <1>1 DEF Types
  <2>4. Bumped' = Bumped
    BY <2>1, <2>2, <2>3, BumpedKept
  <2>5. pc'[Main] \in {"stop_notify", "join", "joined"} <=> pc[Main] \in {"stop_notify", "join", "joined"}
    BY <1>2 DEF Threads, Looking
  <2> QED
    BY <1>1, <1>2, <2>4, <2>5, EpochsKept
<1> QED
  BY <1>3, <1>4

(* The steps of the search for work and of the worker loop.                 *)
LEMMA LoopEpochs ==
  ASSUME IInv, NEW t \in Threads, NEW l, Goto(t, l), UNCHANGED <<stack, jobs>>, epoch' = epoch,
         {pc[t], l} \cap ({"enqueue", "bump"} \cup {"stop_notify", "join", "joined"}) = {},
         \A u \in Threads : seen_epoch'[u] \in {seen_epoch[u], 0, epoch}
  PROVE  Epochs'
<1>1. pc'[t] = l /\ \A u \in Threads : u # t => pc'[u] = pc[u]
  BY DEF Goto, IInv, Types
<1>2. phase' = phase /\ scheduled' = scheduled /\ stack' = stack
  BY DEF jobs
<1>3. \A u \in Threads : pc'[u] \in {"enqueue", "bump"} <=> pc[u] \in {"enqueue", "bump"}
  BY <1>1
<1>4. \A u \in Threads : Held(u)' = Held(u)
  BY <1>2 DEF Held, Top
<1>5. Bumped' = Bumped
  BY <1>2, <1>3, <1>4, BumpedKept
<1>6. pc'[Main] \in {"stop_notify", "join", "joined"} <=> pc[Main] \in {"stop_notify", "join", "joined"}
  BY <1>1 DEF Threads
<1> QED
  BY <1>5, <1>6, EpochsKept DEF IInv, Sync

(* The steps of the worker loop, and of a thread that looks for work while  *)
(* it waits, keep the eventcount's invariants.                              *)
LEMMA LoopSync ==
  ASSUME IInv, NEW t \in Threads, NEW l, Goto(t, l), UNCHANGED <<stack, queues, jobs>>,
         <<pc[t], l>> \in Moves, pc[t] \in InLoop \cup Looking \cup {"wait"}, epoch' = epoch,
         t \in Workers /\ l = "look_injection" => deque[t] = <<>>,
         t \in Workers /\ l = "steal" => injection = <<>>,
         pc[t] = "idle" => t \in Workers,
         \/ sleepers' = sleepers /\ Sleeping' = Sleeping
         \/ sleepers' = sleepers + 1 /\ t \in Workers /\ l = "sleep"
         \/ sleepers' = sleepers - 1 /\ t \in Workers /\ pc[t] = "woken",
         waiting' \subseteq waiting \cup {t}, t \in waiting' => l = "woken" /\ t \in Workers,
         \A u \in Threads : u # t => last_look'[u] = last_look[u] /\ seen_epoch'[u] = seen_epoch[u],
         seen_epoch'[t] \in {seen_epoch[t], 0, epoch},
         l \in {"steal", "idle"} => last_look'[t] = last_look[t] /\ seen_epoch'[t] = seen_epoch[t],
         l = "sleep" => last_look[t] /\ seen_epoch'[t] = seen_epoch[t]
  PROVE  Sync'
<1> USE DEF IInv, Sync
<1>1. pc'[t] = l /\ \A u \in Threads : u # t => pc'[u] = pc[u]
  BY DEF Goto, Types
<1>2. deque' = deque /\ injection' = injection
  BY DEF queues
<1>3. Epochs'
  <2>1. {pc[t], l} \cap ({"enqueue", "bump"} \cup {"stop_notify", "join", "joined"}) = {}
    BY DEF Moves, InLoop, Looking
  <2> QED
    BY <2>1, LoopEpochs
<1>4. \A w \in Workers : w \in Threads
  BY DEF Threads
<1>5. Sleeps'
  <2>1. sleepers' = Cardinality(Sleeping')
    <3>1. IsFiniteSet(Sleeping) /\ Cardinality(Sleeping) \in Nat
      BY TreeAssumption, FS_Subset, FS_CardinalityType DEF Sleeping
    <3>2. CASE sleepers' = sleepers /\ Sleeping' = Sleeping
      BY <3>2 DEF Sleeps
    <3>3. CASE sleepers' = sleepers + 1 /\ t \in Workers /\ l = "sleep"
      <4>1. Sleeping' = Sleeping \cup {t} /\ t \notin Sleeping
        BY <1>1, <1>4, <3>3 DEF Sleeping, Moves
      <4> QED
        BY <3>1, <3>3, <4>1, FS_AddElement DEF Sleeps
    <3>4. CASE sleepers' = sleepers - 1 /\ t \in Workers /\ pc[t] = "woken"
      <4>1. Sleeping' = Sleeping \ {t} /\ t \in Sleeping
        BY <1>1, <1>4, <3>4 DEF Sleeping, Moves
      <4> QED
        BY <3>1, <3>4, <4>1, FS_RemoveElement DEF Sleeps
    <3> QED
      BY <3>2, <3>3, <3>4
  <2>2. ASSUME NEW w \in waiting' PROVE pc'[w] = "woken"
    <3>1. CASE w = t
      BY <1>1, <3>1
    <3>2. CASE w # t
      <4>1. w \in waiting
        BY <3>2
      <4>2. w \in Threads /\ pc[w] = "woken"
        BY <1>4, <4>1 DEF Sleeps, Types
      <4> QED
        BY <1>1, <3>2, <4>2
    <3> QED
      BY <3>1, <3>2
  <2> QED
    BY <2>1, <2>2 DEF Sleeps
<1>6. Empties'
  <2>1. ASSUME NEW w \in Workers, pc'[w] \in Looking \cup {"idle", "sleep", "woken", "left"}
        PROVE  deque[w] = <<>>
    <3>1. CASE w # t
      BY <1>1, <1>4, <2>1, <3>1 DEF Empties
    <3>2. CASE w = t
      <4>1. CASE l = "look_injection"
        BY <3>2, <4>1
      <4>2. CASE l # "look_injection"
        <5>1. pc[t] \in Looking \cup {"idle", "sleep"}
          BY <1>1, <2>1, <3>2, <4>2 DEF Moves, Looking
        <5> QED
          BY <3>2, <5>1 DEF Empties
      <4> QED
        BY <4>1, <4>2
    <3> QED
      BY <3>1, <3>2
  <2> QED
    BY <1>2, <2>1 DEF Empties
<1>7. Looks'
  <2> SUFFICES ASSUME NEW w \in Workers, Looked(w)', seen_epoch'[w] = epoch, injection # <<>>
               PROVE  \E u \in Threads : pc'[u] = "bump"
    BY <1>2 DEF Looks
  <2>1. Looked(w) /\ seen_epoch[w] = epoch
    <3>1. CASE w # t
      BY <1>1, <1>4, <3>1 DEF Looked
    <3>2. CASE w = t
      <4>1. l \in {"sleep", "idle"} /\ seen_epoch[w] = epoch /\ last_look[t]
        BY <1>1, <3>2 DEF Looked
      <4>2. l = "sleep" => pc[t] = "idle"
        BY DEF Moves
      <4>3. l = "idle" => pc[t] = "steal"
        BY DEF Moves
      <4> QED
        BY <3>2, <4>1, <4>2, <4>3 DEF Looked
    <3> QED
      BY <3>1, <3>2
  <2>2. PICK u \in Threads : pc[u] = "bump"
    BY <2>1 DEF Looks
  <2>3. u # t
    BY <2>2 DEF InLoop, Looking
  <2> QED
    BY <1>1, <2>2, <2>3
<1> QED
  BY <1>3, <1>5, <1>6, <1>7

(* So do those of the destructor.                                           *)
LEMMA StopSync ==
  ASSUME IInv, SetStopping \/ StopBump \/ StopNotifyAll \/ Join
  PROVE  Sync'
<1> USE DEF IInv, Sync
<1>1. Main \in Threads /\ Main \notin Workers
  BY TreeAssumption DEF Threads
<1>2. PICK l \in {"stop_bump", "stop_notify", "join", "joined"} :
        /\ Goto(Main, l) /\ pc[Main] \in {"ended", "stop_bump", "stop_notify", "join"}
        /\ l = "stop_notify" <=> pc[Main] = "stop_bump"
        /\ l = "stop_bump" <=> pc[Main] = "ended"
        /\ epoch' = IF l = "stop_notify" THEN epoch + 1 ELSE epoch
        /\ sleepers' = sleepers /\ waiting' \subseteq waiting
        /\ last_look' = last_look /\ seen_epoch' = seen_epoch
        /\ deque' = deque /\ injection' = injection /\ stack' = stack
        /\ phase' = phase /\ scheduled' = scheduled
  <2>1. CASE SetStopping
    BY <2>1 DEF SetStopping, queues, local, jobs
  <2>2. CASE StopBump
    BY <2>2 DEF StopBump, queues, local, jobs
  <2>3. CASE StopNotifyAll
    BY <2>3 DEF StopNotifyAll, queues, local, jobs
  <2>4. CASE Join
    BY <2>4 DEF Join, queues, sync, local, jobs
  <2> QED
    BY <2>1, <2>2, <2>3, <2>4
<1>3. pc'[Main] = l /\ \A u \in Threads : u # Main => pc'[u] = pc[u]
  BY <1>1, <1>2 DEF Goto, Types
<1>4. Bumped' = Bumped
  <2>1. \A u \in Threads : pc'[u] \in {"enqueue", "bump"} <=> pc[u] \in {"enqueue", "bump"}
    BY <1>2, <1>3
  <2>2. \A u \in Threads : Held(u)' = Held(u)
    BY <1>2 DEF Held, Top
  <2> QED
    BY <1>2, <2>1, <2>2, BumpedKept
<1>5. CASE l # "stop_notify"
  <2>1. Sleeps' /\ Empties' /\ Looks'
    <3>1. /\ pc[Main] \notin {"bump", "sleep", "woken"}
          /\ l \notin Looking \cup {"idle", "sleep", "woken", "left"}
      BY <1>2 DEF Looking
    <3>2. epoch' = epoch
      BY <1>2, <1>5
    <3> QED
      BY <1>1, <1>2, <3>1, <3>2, Busy
  <2>2. pc'[Main] \in {"stop_notify", "join", "joined"} <=> pc[Main] \in {"stop_notify", "join", "joined"}
    BY <1>2, <1>3, <1>5
  <2>3. Epochs'
    BY <1>2, <1>4, <1>5, <2>2, EpochsKept
  <2> QED
    BY <2>1, <2>3
<1>6. CASE l = "stop_notify"
  <2>1. epoch \in Nat /\ \A u \in Threads : seen_epoch[u] \in Nat /\ seen_epoch[u] <= epoch
    BY DEF Types, Epochs
  <2>2. epoch' = epoch + 1 /\ \A u \in Threads : seen_epoch'[u] <= epoch' /\ seen_epoch'[u] # epoch'
    BY <1>2, <1>6, <2>1
  <2>3. StopBumped' /\ ~StopBumped
    BY <1>2, <1>3, <1>6 DEF StopBumped
  <2>4. Epochs'
    <3>1. Cardinality(Bumped) \in Nat
      BY TreeAssumption, FS_Subset, FS_CardinalityType DEF Bumped
    <3> QED
      BY <1>4, <2>2, <2>3, <3>1 DEF Epochs
  <2>5. Looks'
    BY <2>2 DEF Looks, Threads
  <2>6. \A w \in Workers : pc'[w] = pc[w] /\ w \in Threads
    BY <1>1, <1>3 DEF Threads
  <2>7. Sleeps'
    <3>1. Sleeping' = Sleeping
      BY <2>6 DEF Sleeping
    <3> QED
      BY <1>2, <2>6, <3>1 DEF Sleeps, Types
  <2>8. Empties'
    BY <1>2, <2>6 DEF Empties
  <2> QED
    BY <2>4, <2>5, <2>7, <2>8
<1> QED
  BY <1>5, <1>6

(* Every step keeps what the wake-ups rest on.                              *)
LEMMA SyncStep == ASSUME IInv, [Next]_vars PROVE Sync'
<1>1. ASSUME NEW t \in Threads, PopOwn(t) PROVE Sync'
  <2>1. CASE t \in Workers /\ deque[t] # <<>>
    <3>1. deque' = [deque EXCEPT ![t] = Front(@)] /\ Enter(t, Last(deque[t])) /\ injection' = injection
      BY <1>1, <2>1 DEF PopOwn
    <3>2. deque \in [Workers -> Seq(Jobs)] /\ deque[t] \in Seq(Jobs)
      BY <2>1 DEF IInv, Types
    <3>3. PICK j \in Jobs : j = Last(deque[t])
      BY <2>1, <3>2, OneLess
    <3>4. phase[j] = "queued"
      <4>1. Len(deque[t]) \in DOMAIN deque[t] /\ j = deque[t][Len(deque[t])]
        BY <2>1, <3>2, <3>3, OneLess
      <4> QED
        BY <2>1, <4>1 DEF IInv, Core, Queues
    <3>5. \A w \in Workers : deque[w] = <<>> => deque'[w] = <<>>
      BY <2>1, <3>1, <3>2
    <3>6. pc[t] \in {"look", "wait"} \cup Looking
      BY <1>1 DEF PopOwn, MayLook
    <3> QED
      BY <3>1, <3>3, <3>4, <3>5, <3>6, EnterSync
  <2>2. CASE ~(t \in Workers /\ deque[t] # <<>>)
    <3>1. /\ Goto(t, "look_injection") /\ UNCHANGED <<queues, stack, jobs>> /\ epoch' = epoch
          /\ sleepers' = sleepers /\ waiting' = waiting
          /\ last_look' = last_look /\ seen_epoch' = seen_epoch
      BY <1>1, <2>2 DEF PopOwn, sync, local
    <3>2. /\ <<pc[t], "look_injection">> \in Moves /\ pc[t] \in InLoop \cup Looking \cup {"wait"}
          /\ pc[t] \notin {"sleep", "woken", "idle"}
      BY <1>1 DEF PopOwn, MayLook, Moves, InLoop
    <3>3. Sleeping' = Sleeping
      BY <3>1, <3>2 DEF Sleeping, Goto, IInv, Types, Threads
    <3>4. t \notin waiting
      BY <3>2 DEF IInv, Sync, Sleeps
    <3> QED
      BY <2>2, <3>1, <3>2, <3>3, <3>4, LoopSync
  <2> QED
    BY <2>1, <2>2
<1>2. ASSUME NEW t \in Threads, TakeInjected(t) PROVE Sync'
  <2>1. CASE injection # <<>>
    <3>1. injection' = Tail(injection) /\ Enter(t, Head(injection)) /\ deque' = deque
      BY <1>2, <2>1 DEF TakeInjected
    <3>2. injection \in Seq(Jobs)
      BY DEF IInv, Types
    <3>3. PICK j \in Jobs : j = Head(injection)
      BY <2>1, <3>2
    <3>4. phase[j] = "queued"
      <4>1. 1 \in DOMAIN injection /\ j = injection[1]
        BY <2>1, <3>2, <3>3
      <4> QED
        BY <4>1 DEF IInv, Core, Queues
    <3>5. pc[t] \in {"look", "wait"} \cup Looking
      BY <1>2 DEF TakeInjected, Looking
    <3> QED
      BY <2>1, <3>1, <3>3, <3>4, <3>5, EnterSync
  <2>2. CASE injection = <<>>
    <3>1. /\ Goto(t, "steal") /\ UNCHANGED <<queues, stack, jobs>> /\ epoch' = epoch
          /\ sleepers' = sleepers /\ waiting' = waiting
          /\ last_look' = last_look /\ seen_epoch' = seen_epoch
      BY <1>2, <2>2 DEF TakeInjected, sync, local
    <3>2. <<pc[t], "steal">> \in Moves /\ pc[t] = "look_injection"
      BY <1>2 DEF TakeInjected, Moves
    <3>3. Sleeping' = Sleeping
      BY <3>1, <3>2 DEF Sleeping, Goto, IInv, Types, Threads
    <3>4. t \notin waiting
      BY <3>2 DEF IInv, Sync, Sleeps
    <3> QED
      BY <2>2, <3>1, <3>2, <3>3, <3>4, LoopSync DEF Looking
  <2> QED
    BY <2>1, <2>2
<1>3. ASSUME NEW t \in Threads, Steal(t) PROVE Sync'
  <2>1. PICK v \in Workers : /\ deque[v] # <<>> /\ deque' = [deque EXCEPT ![v] = Tail(@)]
                             /\ Enter(t, Head(deque[v])) /\ injection' = injection
    BY <1>3 DEF Steal
  <2>2. deque \in [Workers -> Seq(Jobs)] /\ deque[v] \in Seq(Jobs)
    BY DEF IInv, Types
  <2>3. PICK j \in Jobs : j = Head(deque[v])
    BY <2>1, <2>2
  <2>4. phase[j] = "queued"
    <3>1. 1 \in DOMAIN deque[v] /\ j = deque[v][1]
      BY <2>1, <2>2, <2>3
    <3> QED
      BY <3>1 DEF IInv, Core, Queues
  <2>5. \A w \in Workers : deque[w] = <<>> => deque'[w] = <<>>
    BY <2>1, <2>2
  <2>6. pc[t] \in {"look", "wait"} \cup Looking
    BY <1>3 DEF Steal, Looking
  <2> QED
    BY <2>1, <2>3, <2>4, <2>5, <2>6, EnterSync
<1>4. ASSUME NEW t \in Threads, StealNothing(t) PROVE Sync'
  <2>1. PICK l \in {"wait", "idle"} : Goto(t, l) /\ (l = "wait" <=> stack[t] # <<>>)
    BY <1>4 DEF StealNothing
  <2>2. /\ UNCHANGED <<queues, stack, jobs>> /\ epoch' = epoch
        /\ sleepers' = sleepers /\ waiting' = waiting
        /\ last_look' = last_look /\ seen_epoch' = seen_epoch
    BY <1>4 DEF StealNothing, sync, local
  <2>3. <<pc[t], l>> \in Moves /\ pc[t] = "steal"
    BY <1>4 DEF StealNothing, Moves
  <2>4. Sleeping' = Sleeping
    BY <2>1, <2>3 DEF Sleeping, Goto, IInv, Types, Threads
  <2>5. t \notin waiting
    BY <2>3 DEF IInv, Sync, Sleeps
  <2> QED
    BY <2>1, <2>2, <2>3, <2>4, <2>5, LoopSync DEF Looking
<1>5. ASSUME NEW t \in Threads, ThreadStep(t) PROVE Sync'
  BY <1>1, <1>2, <1>3, <1>4, <1>5, EmplaceSync, BumpSync, JobSync DEF ThreadStep
<1>6. ASSUME NEW w \in Workers, \/ Leave(w) \/ Spin(w) \/ ReadEpoch(w) \/ AddSleeper(w)
                                \/ EpochWait(w) \/ Wake(w)
      PROVE  Sync'
  <2>1. w \in Threads
    BY DEF Threads
  <2>2. \A l : Goto(w, l) /\ {pc[w], l} \cap {"sleep", "woken"} = {} => Sleeping' = Sleeping
    BY DEF Sleeping, Goto, IInv, Types, Threads
  <2>3. pc[w] # "woken" => w \notin waiting
    BY DEF IInv, Sync, Sleeps
  <2>4. last_look \in [Threads -> BOOLEAN] /\ seen_epoch \in [Threads -> Nat]
    BY DEF IInv, Types
  <2>5. CASE Leave(w) \/ Spin(w)
    <3>1. PICK l \in {"left", "look"} : Goto(w, l)
      BY <2>5 DEF Leave, Spin
    <3>2. /\ pc[w] = "idle" /\ <<pc[w], l>> \in Moves /\ UNCHANGED <<queues, stack, jobs>>
          /\ epoch' = epoch /\ sleepers' = sleepers /\ waiting' = waiting
          /\ last_look' = last_look /\ seen_epoch' = seen_epoch
      BY <2>5, <3>1 DEF Leave, Spin, Moves, sync, local
    <3>3. Sleeping' = Sleeping
      BY <2>2, <3>1, <3>2
    <3> QED
      BY <2>1, <2>3, <3>1, <3>2, <3>3, LoopSync DEF InLoop
  <2>6. CASE ReadEpoch(w)
    <3>1. /\ pc[w] = "idle" /\ Goto(w, "look") /\ UNCHANGED <<queues, stack, jobs>>
          /\ epoch' = epoch /\ sleepers' = sleepers /\ waiting' = waiting
          /\ last_look' = [last_look EXCEPT ![w] = TRUE]
          /\ seen_epoch' = [seen_epoch EXCEPT ![w] = epoch]
      BY <2>6 DEF ReadEpoch, sync
    <3>2. <<pc[w], "look">> \in Moves /\ pc[w] \in InLoop
      BY <3>1 DEF Moves, InLoop
    <3>3. Sleeping' = Sleeping
      BY <2>2, <3>1
    <3>4. /\ seen_epoch'[w] = epoch
          /\ \A u \in Threads : u # w => last_look'[u] = last_look[u] /\ seen_epoch'[u] = seen_epoch[u]
      BY <2>1, <2>4, <3>1
    <3> QED
      BY <2>1, <2>3, <3>1, <3>2, <3>3, <3>4, LoopSync
  <2>7. CASE AddSleeper(w)
    <3>1. /\ pc[w] = "idle" /\ Goto(w, "sleep") /\ UNCHANGED <<queues, stack, jobs>>
          /\ epoch' = epoch /\ sleepers' = sleepers + 1 /\ waiting' = waiting /\ last_look[w]
          /\ last_look' = [last_look EXCEPT ![w] = FALSE] /\ seen_epoch' = seen_epoch
      BY <2>7 DEF AddSleeper
    <3>2. <<pc[w], "sleep">> \in Moves /\ pc[w] \in InLoop
      BY <3>1 DEF Moves, InLoop
    <3>3. \A u \in Threads : u # w => last_look'[u] = last_look[u] /\ seen_epoch'[u] = seen_epoch[u]
      BY <2>1, <2>4, <3>1
    <3> QED
      BY <2>1, <2>3, <3>1, <3>2, <3>3, LoopSync
  <2>8. CASE EpochWait(w)
    <3>1. /\ pc[w] = "sleep" /\ Goto(w, "woken") /\ UNCHANGED <<queues, stack, jobs>>
          /\ epoch' = epoch /\ sleepers' = sleepers /\ waiting' \subseteq waiting \cup {w}
          /\ last_look' = last_look /\ seen_epoch' = [seen_epoch EXCEPT ![w] = 0]
      BY <2>8 DEF EpochWait
    <3>2. <<pc[w], "woken">> \in Moves /\ pc[w] \in InLoop
      BY <3>1 DEF Moves, InLoop
    <3>3. Sleeping' = Sleeping
      BY <2>1, <3>1 DEF Sleeping, Goto, IInv, Types, Threads
    <3>4. /\ seen_epoch'[w] = 0
          /\ \A u \in Threads : u # w => last_look'[u] = last_look[u] /\ seen_epoch'[u] = seen_epoch[u]
      BY <2>1, <2>4, <3>1
    <3> QED
      BY <2>1, <3>1, <3>2, <3>3, <3>4, LoopSync
  <2>9. CASE Wake(w)
    <3>1. /\ pc[w] = "woken" /\ Goto(w, "look") /\ UNCHANGED <<queues, stack, jobs>>
          /\ epoch' = epoch /\ sleepers' = sleepers - 1 /\ waiting' = waiting /\ w \notin waiting
          /\ last_look' = last_look /\ seen_epoch' = seen_epoch
      BY <2>9 DEF Wake, local
    <3>2. <<pc[w], "look">> \in Moves /\ pc[w] \in InLoop
      BY <3>1 DEF Moves, InLoop
    <3> QED
      BY <2>1, <3>1, <3>2, LoopSync
  <2> QED
    BY <1>6, <2>5, <2>6, <2>7, <2>8, <2>9
<1>7. CASE UNCHANGED vars
  <2>1. UNCHANGED <<deque, injection, pc, stack, phase, scheduled, epoch, sleepers, waiting,
                    last_look, seen_epoch>>
    BY <1>7 DEF vars, queues, sync, local, jobs
  <2>2. Bumped' = Bumped /\ Sleeping' = Sleeping
    BY <2>1 DEF Bumped, Unbumped, Sleeping, Held, Top
  <2> QED
    BY <2>1, <2>2 DEF IInv, Sync, Epochs, StopBumped, Sleeps, Empties, Looks, Looked
<1>8. CASE MainStep
  BY <1>5, <1>8, StopSync DEF MainStep, Threads
<1>9. CASE \E w \in Workers : WorkerStep(w)
  BY <1>5, <1>6, <1>9 DEF WorkerStep, Threads
<1> QED
  BY <1>7, <1>8, <1>9 DEF Next, Terminated

-----------------------------------------------------------------------------
(* The invariant holds of the pool as its constructor leaves it.            *)
LEMMA InitInv == Init => IInv
<1> SUFFICES ASSUME Init PROVE IInv
  OBVIOUS
<1> USE DEF Init
<1>1. Main \in Threads /\ Main \notin Workers /\ Root \in Jobs /\ \A w \in Workers : w \in Threads
  BY TreeAssumption DEF Threads
<1>2. /\ \A t \in Threads : t # Main => stack[t] = <<>> /\ pc[t] = "look"
      /\ stack[Main] = <<Root>> /\ pc[Main] = "run"
  BY <1>1
<1>3. Types
  <2>1. deque \in [Workers -> Seq(Jobs)] /\ stack \in [Threads -> Seq(Jobs)] /\ injection \in Seq(Jobs)
    BY <1>1
  <2>2. \A w \in Workers : Len(deque[w]) <= Capacity
    BY TreeAssumption
  <2>3. pc \in [Threads -> Label]
    BY <1>1 DEF Label, InLoop
  <2> QED
    BY <2>1, <2>2, <2>3 DEF Types
<1>4. /\ \A t \in Threads : \A i \in DOMAIN stack[t] : t = Main /\ i = 1 /\ stack[t][i] = Root
      /\ Len(stack[Main]) = 1 /\ Top(Main) = Root
  BY <1>1, <1>2 DEF Top, Last
<1>5. \A k \in Jobs : k # Root => phase[k] = "unborn"
  OBVIOUS
<1>6. \A k \in Jobs : \A d \in Kids(k) : d \in Jobs /\ d # Root /\ phase[d] = "unborn"
  BY <1>5, Tree
<1>7. Places
  BY <1>1, <1>2 DEF Places, Stopping, InLoop, Looking
<1>8. Stacks
  BY <1>1, <1>4 DEF Stacks
<1>9. Waits
  BY <1>2, <1>4 DEF Waits, Looking, Stopping
<1>10. Schedules
  <2>1. \A k \in Jobs : Len(Children[k]) \in Nat /\ scheduled[k] = 0
    BY Tree
  <2>2. ASSUME NEW k \in Jobs, NEW n \in 1..Len(Children[k])
        PROVE  phase[Children[k][n]] = "unborn" /\ n > scheduled[k]
    <3>1. Children[k][n] \in Kids(k)
      BY Tree
    <3>2. phase[Children[k][n]] = "unborn"
      BY <1>6, <3>1
    <3>3. n \in Nat \ {0}
      BY <2>1
    <3> QED
      BY <2>1, <3>2, <3>3
  <2>3. \A t \in Threads : ~Enqueued(t)
    BY <1>2 DEF Enqueued
  <2> QED
    BY <2>1, <2>2, <2>3 DEF Schedules
<1>11. Queues
  BY <1>2 DEF Queues
<1>12. Counts
  <2>1. ASSUME NEW k \in Jobs PROVE Live(k) = {}
    BY <1>6 DEF Live
  <2> QED
    BY <2>1, FS_EmptySet DEF Counts
<1>13. \A k \in Jobs : ~Ended(k) /\ ~Recorded(k)
  BY <1>2 DEF Ended, Recorded, AtTop, Stopping
<1>14. Ends
  BY <1>6, <1>13 DEF Ends
<1>15. Throws
  BY <1>1, <1>2, <1>4, <1>13 DEF Throws, Enqueued
<1>16. Exceptions
  BY <1>6, <1>13 DEF Exceptions
<1>17. Sync
  <2>1. Bumped = {} /\ Sleeping = {}
    BY <1>1, <1>2 DEF Bumped, Sleeping
  <2>2. Epochs
    BY <1>2, <2>1, FS_EmptySet DEF Epochs, StopBumped
  <2>3. Sleeps
    BY <2>1, FS_EmptySet DEF Sleeps
  <2> QED
    BY <2>2, <2>3 DEF Sync, Empties, Looks
<1> QED
  BY <1>3, <1>7, <1>8, <1>9, <1>10, <1>11, <1>12, <1>14, <1>15, <1>16, <1>17 DEF IInv, Core

(* The inductive invariant: for every tree of jobs, every number of workers *)
(* and every capacity, in every state the pool reaches.                     *)
THEOREM Invariance == Spec => []IInv
<1>1. IInv /\ [Next]_vars => IInv'
  BY TypeStep, CoreStep, SyncStep DEF IInv
<1> QED
  BY InitInv, <1>1, PTL DEF Spec

(* The type invariant; the epoch cannot pass the number of jobs, nor a      *)
(* counter, nor the sleepers the number of workers.                         *)
THEOREM PoolTypeCorrect == Spec => []TypeOK
<1>1. IInv => TypeOK
  <2> SUFFICES ASSUME IInv PROVE TypeOK
    OBVIOUS
  <2> USE DEF IInv, Core, Sync
  <2>1. /\ DOMAIN deque = Workers /\ (\A w \in Workers : Len(deque[w]) <= Capacity)
        /\ ToSet(injection) \subseteq Jobs
        /\ (\A t \in Threads : ToSet(stack[t]) \subseteq Jobs)
    BY DEF Types, ToSet
  <2>2. epoch \in 0..Cardinality(Jobs)
    <3>1. /\ IsFiniteSet(Jobs) /\ IsFiniteSet(Jobs \ {Root}) /\ Cardinality(Jobs) \in Nat
          /\ Cardinality(Jobs \ {Root}) = Cardinality(Jobs) - 1
      BY TreeAssumption, FS_RemoveElement, FS_CardinalityType
    <3>2. Bumped \subseteq Jobs \ {Root}
      BY DEF Bumped
    <3>3. Cardinality(Bumped) \in Nat /\ Cardinality(Bumped) <= Cardinality(Jobs) - 1
      BY <3>1, <3>2, FS_Subset, FS_CardinalityType
    <3> QED
      BY <3>1, <3>3 DEF Epochs
  <2>3. sleepers \in 0..Cardinality(Workers)
    <3>1. IsFiniteSet(Workers) /\ Sleeping \subseteq Workers
      BY TreeAssumption DEF Sleeping
    <3>2. /\ Cardinality(Sleeping) \in Nat /\ Cardinality(Workers) \in Nat
          /\ Cardinality(Sleeping) <= Cardinality(Workers)
      BY <3>1, FS_Subset, FS_CardinalityType
    <3> QED
      BY <3>2 DEF Sleeps
  <2>4. pending \in [Jobs -> 0..Cardinality(Jobs)]
    <3>1. ASSUME NEW k \in Jobs PROVE pending[k] \in 0..Cardinality(Jobs)
      <4>1. IsFiniteSet(Jobs) /\ Live(k) \subseteq Jobs
        BY TreeAssumption, Tree DEF Live
      <4>2. /\ Cardinality(Live(k)) \in Nat /\ Cardinality(Jobs) \in Nat
            /\ Cardinality(Live(k)) <= Cardinality(Jobs)
        BY <4>1, FS_Subset, FS_CardinalityType
      <4> QED
        BY <4>2 DEF Counts
    <3> QED
      BY <3>1 DEF Types
  <2>5. \A t \in Threads : seen_epoch[t] <= epoch
    BY DEF Epochs
  <2> QED
    BY <2>1, <2>2, <2>3, <2>4, <2>5 DEF TypeOK, Types
<1> QED
  BY Invariance, <1>1, PTL

(* No queue and no thread holds a job object that its waiter has destroyed, *)
(* however deep the waits nest and whoever runs the job.                    *)
THEOREM NoDangling == Spec => []NoDanglingJob
<1>1. IInv => NoDanglingJob
  <2> SUFFICES ASSUME IInv PROVE NoDanglingJob
    OBVIOUS
  <2> USE DEF IInv, Core
  <2>1. ASSUME NEW k \in Queued PROVE phase[k] = "queued"
    <3>1. CASE k \in ToSet(injection)
      BY <3>1 DEF ToSet, Queues
    <3>2. CASE k \notin ToSet(injection)
      <4>1. PICK w \in Workers : k \in ToSet(deque[w])
        <5>1. k \in UNION {ToSet(deque[w]) : w \in Workers}
          BY <3>2 DEF Queued
        <5> QED
          BY <5>1
      <4> QED
        BY <4>1 DEF ToSet, Queues
    <3> QED
      BY <3>1, <3>2
  <2>2. ASSUME NEW k \in Running PROVE phase[k] = "running"
    <3>1. PICK t \in Threads : k \in ToSet(stack[t])
      BY DEF Running
    <3> QED
      BY <3>1 DEF ToSet, Stacks
  <2> QED
    BY <2>1, <2>2 DEF NoDanglingJob
<1> QED
  BY Invariance, <1>1, PTL

(* What a job of a batch throws leaves the wait of the job that scheduled   *)
(* it, level by level up to the thread that owns the pool.                  *)
THEOREM ExceptionsReach == Spec => []ExceptionReachesWaiter
<1>1. IInv => ExceptionReachesWaiter
  <2> SUFFICES ASSUME IInv PROVE ExceptionReachesWaiter
    OBVIOUS
  <2> USE DEF IInv, Core
  <2>1. ASSUME NEW k \in Jobs, Left(k) PROVE Ended(k)
    <3>1. CASE phase[k] \in {"done", "freed"}
      BY <3>1 DEF Ended
    <3>2. CASE k = Root /\ is_stopping
      <4>1. Main \in Threads /\ pc[Main] \in Stopping /\ stack[Main] # <<>> /\ Top(Main) = Root
        BY <3>2 DEF Places, Threads
      <4> QED
        BY <3>2, <4>1 DEF Ended, AtTop
    <3> QED
      BY <2>1, <3>1, <3>2 DEF Left
  <2> QED
    BY <2>1 DEF ExceptionReachesWaiter, Exceptions
<1> QED
  BY Invariance, <1>1, PTL

(* When all workers sleep, a job that appears in the injection queue has a  *)
(* submitter that still has to notify.                                      *)
LEMMA WokenStep == ASSUME Workers # {}, IInv, Woken, [Next]_vars PROVE Woken'
<1> USE DEF IInv, Sync
<1>1. pc \in [Threads -> Label] /\ \A w \in Workers : w \in Threads
  BY DEF Types, Threads
<1>2. ASSUME waiting' \subseteq waiting, injection' = <<>> \/ injection # <<>>,
             \A u \in Threads : Submitting(u) => Submitting(u)'
      PROVE  Woken'
  BY <1>2 DEF Woken
<1>3. ASSUME NEW t \in Threads, NEW l, Goto(t, l), l \in {"bump", "notify"} PROVE Woken'
  <2>1. pc'[t] = l
    BY <1>1, <1>3 DEF Goto
  <2> QED
    BY <1>3, <2>1 DEF Woken, Submitting
<1>4. ASSUME ~(Workers \subseteq waiting') PROVE Woken'
  BY <1>4 DEF Woken
<1>5. ASSUME NEW t \in Threads, NEW l, Goto(t, l), ~Submitting(t)
      PROVE  \A u \in Threads : Submitting(u) => Submitting(u)'
  BY <1>1, <1>5 DEF Goto, Submitting
<1>6. ASSUME NEW t \in Threads, NotifyOne(t) PROVE Woken'
  <2>1. waiting \subseteq Workers
    BY DEF Types
  <2>2. CASE sleepers > 0 /\ waiting # {}
    BY <1>4, <1>6, <2>1, <2>2 DEF NotifyOne
  <2>3. CASE waiting = {}
    BY <1>4, <1>6, <2>3 DEF NotifyOne
  <2>4. CASE ~(sleepers > 0)
    <3>1. IsFiniteSet(Sleeping) /\ sleepers = 0
      BY <2>4, TreeAssumption, FS_Subset DEF Sleeping, Types
    <3>2. Sleeping = {}
      BY <3>1, FS_EmptySet DEF Sleeps
    <3>3. waiting = {}
      BY <2>1, <3>2 DEF Sleeping, Sleeps
    <3> QED
      BY <2>3, <3>3
  <2> QED
    BY <2>2, <2>3, <2>4
<1>7. ASSUME NEW w \in Workers, EpochWait(w) PROVE Woken'
  <2>1. w \in Threads /\ pc[w] = "sleep" /\ Goto(w, "woken") /\ injection' = injection
        /\ waiting' = IF epoch = seen_epoch[w] THEN waiting \cup {w} ELSE waiting
    BY <1>7 DEF EpochWait, Threads, queues
  <2>2. w \notin waiting
    BY <2>1 DEF Sleeps
  <2>3. CASE epoch # seen_epoch[w]
    BY <1>4, <2>1, <2>2, <2>3
  <2>4. CASE epoch = seen_epoch[w] /\ injection # <<>>
    <3>1. PICK u \in Threads : pc[u] = "bump"
      BY <2>1, <2>4 DEF Looks, Looked
    <3>2. pc'[u] = "bump"
      BY <1>1, <2>1, <3>1 DEF Goto
    <3> QED
      BY <3>2 DEF Woken, Submitting
  <2>5. CASE injection = <<>>
    BY <2>1, <2>5 DEF Woken
  <2> QED
    BY <2>3, <2>4, <2>5
<1>8. ASSUME NEW t \in Threads, ThreadStep(t) PROVE Woken'
  <2>1. CASE Enqueue(t)
    BY <1>3, <2>1 DEF Enqueue
  <2>2. CASE BumpEpoch(t)
    BY <1>3, <2>2 DEF BumpEpoch
  <2>3. CASE Emplace(t) \/ RunInline(t) \/ WaitReset(t) \/ RecordException(t) \/ CountDown(t)
             \/ StealNothing(t)
    <3>1. /\ ~Submitting(t) /\ waiting' = waiting /\ injection' = injection
          /\ \E l : Goto(t, l)
      BY <2>3 DEF Emplace, RunInline, WaitReset, RecordException, CountDown, StealNothing,
         Submitting, queues, sync
    <3> QED
      BY <1>2, <1>5, <3>1
  <2>4. CASE PopOwn(t) \/ TakeInjected(t) \/ Steal(t)
    <3>1. /\ ~Submitting(t) /\ waiting' = waiting /\ (injection' = <<>> \/ injection # <<>>)
          /\ \E l : Goto(t, l)
      BY <2>4 DEF PopOwn, TakeInjected, Steal, Enter, MayLook, Submitting, queues, sync
    <3> QED
      BY <1>2, <1>5, <3>1
  <2> QED
    BY <1>6, <1>8, <2>1, <2>2, <2>3, <2>4 DEF ThreadStep
<1>9. ASSUME NEW w \in Workers, Leave(w) \/ Spin(w) \/ ReadEpoch(w) \/ AddSleeper(w) \/ Wake(w)
      PROVE  Woken'
  <2>1. /\ ~Submitting(w) /\ waiting' = waiting /\ injection' = injection
        /\ (\E l : Goto(w, l)) /\ w \in Threads
    BY <1>1, <1>9 DEF Leave, Spin, ReadEpoch, AddSleeper, Wake, Submitting, queues, sync
  <2> QED
    BY <1>2, <1>5, <2>1
<1>10. ASSUME SetStopping \/ StopBump \/ Join PROVE Woken'
  <2>1. /\ ~Submitting(Main) /\ waiting' = waiting /\ injection' = injection
        /\ (\E l : Goto(Main, l)) /\ Main \in Threads
    BY <1>10 DEF SetStopping, StopBump, Join, Submitting, queues, sync, Threads
  <2> QED
    BY <1>2, <1>5, <2>1
<1>11. CASE StopNotifyAll
  BY <1>4, <1>11 DEF StopNotifyAll
<1>12. CASE UNCHANGED vars
  BY <1>2, <1>12 DEF vars, queues, sync, Submitting
<1>13. CASE MainStep
  BY <1>8, <1>10, <1>11, <1>13 DEF MainStep, Threads
<1>14. CASE \E w \in Workers : WorkerStep(w)
  BY <1>1, <1>7, <1>8, <1>9, <1>14 DEF WorkerStep
<1> QED
  BY <1>12, <1>13, <1>14 DEF Next, Terminated

(* No lost wake-up, for every pool that has a worker: when all of them      *)
(* sleep, a queued job is one whose submitter is still to bump the epoch    *)
(* and notify.  (Without workers the owner runs every job itself.)          *)
THEOREM NoneStranded == ASSUME Workers # {} PROVE Spec => []NoStrandedJob
<1>1. Init => Woken
  BY DEF Init, Woken
<1>2. IInv /\ Woken /\ [Next]_vars => Woken'
  BY WokenStep
<1>3. IInv /\ Woken => NoStrandedJob
  <2> SUFFICES ASSUME IInv, Woken PROVE NoStrandedJob
    OBVIOUS
  <2>1. ASSUME NEW w \in waiting PROVE w \in Workers /\ deque[w] = <<>>
    BY DEF IInv, Types, Sync, Sleeps, Empties
  <2>2. ASSUME Workers \subseteq waiting, Queued # {} PROVE \E t \in Threads : Submitting(t)
    <3>1. \A w \in Workers : ToSet(deque[w]) = {}
      BY <2>1, <2>2 DEF ToSet
    <3>2. ToSet(injection) # {}
      BY <2>2, <3>1 DEF Queued
    <3>3. injection # <<>>
      BY <3>2 DEF ToSet
    <3> QED
      BY <2>2, <3>3 DEF Woken
  <2> QED
    BY <2>1, <2>2 DEF NoStrandedJob
<1> QED
  BY Invariance, <1>1, <1>2, <1>3, PTL DEF Spec

-----------------------------------------------------------------------------
(* The render thread, for any number of frames and both policies.           *)

(* The constructor and run() establish the invariant.                       *)
LEMMA RenderInitInv == RenderInit => RenderInv
BY MaxFramesAssumption
   DEF RenderInit, RenderInv, RenderTypes, PcInv, BlockedInv, IdleSectionExclusive,
       EveryKickRendered, NoMissedNotify, MultiThreaded, InIdleSection, AtWork, Kicked,
       Joined, IdleOrStopped, KickedOrStopped

(* Every critical section and every notification preserves it.              *)
LEMMA RenderStep == RenderInv /\ [RenderNext]_render_vars => RenderInv'
<1> SUFFICES ASSUME RenderInv, [RenderNext]_render_vars PROVE RenderInv'
    OBVIOUS
<1> USE ThreadsAssumption, MaxFramesAssumption
    DEF RenderInv, RenderTypes, PcInv, BlockedInv, IdleSectionExclusive, EveryKickRendered,
        NoMissedNotify, MultiThreaded, InIdleSection, AtWork, Kicked, Joined,
        IdleOrStopped, KickedOrStopped
<1>1. CASE StartFrame
      BY <1>1 DEF StartFrame
<1>2. CASE WaitIdleBlocks
      BY <1>2 DEF WaitIdleBlocks, Blocks
<1>3. CASE WaitIdleReturns
      BY <1>3 DEF WaitIdleReturns, Proceeds
<1>4. CASE NextFrame
      BY <1>4 DEF NextFrame
<1>5. CASE Kick
      BY <1>5 DEF Kick
<1>6. CASE KickNotify
      BY <1>6 DEF KickNotify, NotifyAll
<1>7. CASE KickInline
      BY <1>7 DEF KickInline
<1>8. CASE WorkInlineEnds
      BY <1>8 DEF WorkInlineEnds
<1>9. CASE Terminate
  <2>1. CASE MultiThreaded
        BY <1>9, <2>1 DEF Terminate
  <2>2. CASE ~MultiThreaded
    <3>1. /\ is_running' = FALSE /\ main_pc' = "joined"
          /\ UNCHANGED <<policy, state, blocked, worker_pc, app_frame, rendered>>
          BY <1>9, <2>2 DEF Terminate
    <3>2. worker_pc = "absent" /\ state = "idle" /\ rendered = app_frame
          BY <1>9, <2>2 DEF Terminate
    <3>3. RenderTypes' /\ PcInv' /\ BlockedInv'
          BY <2>2, <3>1, <3>2
    <3>4. IdleSectionExclusive' /\ EveryKickRendered' /\ NoMissedNotify'
          BY <2>2, <3>1, <3>2
    <3>5. QED BY <3>3, <3>4
  <2>3. QED BY <2>1, <2>2
<1>10. CASE TerminateNotify
      BY <1>10 DEF TerminateNotify, NotifyAll
<1>11. CASE JoinWorker
      BY <1>11 DEF JoinWorker
<1>12. CASE WorkerBlocks
      BY <1>12 DEF WorkerBlocks, Blocks
<1>13. CASE WorkerLeaves
      BY <1>13 DEF WorkerLeaves, Proceeds
<1>14. CASE WorkerStarts
      BY <1>14 DEF WorkerStarts, Proceeds
<1>15. CASE WorkEnds
      BY <1>15 DEF WorkEnds
<1>16. CASE WorkerIdle
      BY <1>16 DEF WorkerIdle
<1>17. CASE WorkerNotify
      BY <1>17 DEF WorkerNotify, NotifyAll
<1>18. CASE SpuriousWakeup
      BY <1>18 DEF SpuriousWakeup
<1>19. CASE UNCHANGED render_vars
      BY <1>19 DEF render_vars
<1>20. QED
      BY <1>1, <1>2, <1>3, <1>4, <1>5, <1>6, <1>7, <1>8, <1>9, <1>10, <1>11, <1>12, <1>13,
         <1>14, <1>15, <1>16, <1>17, <1>18, <1>19
      DEF RenderNext, MainThreadStep, WorkerThreadStep, StaysJoined

(* The invariant holds for every number of frames and both policies.        *)
THEOREM RenderInvariance == RenderSpec => []RenderInv
BY RenderInitInv, RenderStep, PTL DEF RenderSpec

(* The main thread's idle section excludes the frame's work.                *)
THEOREM IdleExclusion == RenderSpec => []IdleSectionExclusive
<1>1. RenderInv => IdleSectionExclusive
      BY DEF RenderInv
<1>2. QED BY <1>1, RenderInvariance, PTL

(* No kick is lost or served twice, shutdown included.                      *)
THEOREM KicksConserved == RenderSpec => []EveryKickRendered
<1>1. RenderInv => EveryKickRendered
      BY DEF RenderInv
<1>2. QED BY <1>1, RenderInvariance, PTL

(* No thread blocks on a condition that holds without a notification due.   *)
THEOREM RenderNotified == RenderSpec => []NoMissedNotify
<1>1. RenderInv => NoMissedNotify
      BY DEF RenderInv
<1>2. QED BY <1>1, RenderInvariance, PTL

-----------------------------------------------------------------------------
(* Every step of the handshake is a step of the contract or a stutter.      *)
LEMMA HandoffStep ==
  RenderInv /\ RenderInv' /\ [RenderNext]_render_vars => [Handoff!Next]_(Handoff!handoff)
<1> SUFFICES ASSUME RenderInv, RenderInv', [RenderNext]_render_vars
             PROVE  [Handoff!Next]_(Handoff!handoff)
    OBVIOUS
<1> USE ThreadsAssumption, MaxFramesAssumption
    DEF RenderInv, RenderTypes, PcInv, IdleSectionExclusive, EveryKickRendered, MultiThreaded,
        InIdleSection, AtWork, Kicked, Handoff!Next, Handoff!handoff
<1>1. CASE StartFrame
      BY <1>1 DEF StartFrame, Handoff!EnterIdle
<1>2. CASE WaitIdleReturns
      BY <1>2 DEF WaitIdleReturns, Proceeds, IdleOrStopped, Handoff!EnterIdle
<1>3. CASE Kick
      BY <1>3 DEF Kick, Handoff!HandOver
<1>4. CASE KickInline
      BY <1>4 DEF KickInline, Handoff!HandOver
<1>5. CASE WorkEnds
      BY <1>5 DEF WorkEnds, Handoff!Render
<1>6. CASE WorkInlineEnds
      BY <1>6 DEF WorkInlineEnds, Handoff!Render
<1>7. CASE NextFrame
      BY <1>7 DEF NextFrame
<1>8. CASE WaitIdleBlocks
      BY <1>8 DEF WaitIdleBlocks
<1>9. CASE KickNotify
      BY <1>9 DEF KickNotify
<1>10. CASE Terminate
  <2>1. /\ main_pc = "update" /\ main_pc' \in {"terminate_notify", "joined"}
        /\ app_frame' = app_frame /\ rendered' = rendered
        BY <1>10 DEF Terminate
  <2>2. QED BY <2>1
<1>11. CASE TerminateNotify
      BY <1>11 DEF TerminateNotify
<1>12. CASE JoinWorker
      BY <1>12 DEF JoinWorker
<1>13. CASE WorkerBlocks \/ WorkerLeaves \/ WorkerStarts
      BY <1>13 DEF WorkerBlocks, WorkerLeaves, WorkerStarts
<1>14. CASE WorkerIdle \/ WorkerNotify
      BY <1>14 DEF WorkerIdle, WorkerNotify
<1>15. CASE SpuriousWakeup \/ UNCHANGED render_vars
      BY <1>15 DEF SpuriousWakeup, render_vars
<1>16. QED
      BY <1>1, <1>2, <1>3, <1>4, <1>5, <1>6, <1>7, <1>8, <1>9, <1>10, <1>11, <1>12, <1>13,
         <1>14, <1>15
      DEF RenderNext, MainThreadStep, WorkerThreadStep, StaysJoined

(* RenderThread implements FrameHandoff.                                    *)
THEOREM RenderImplementsHandoff == RenderSpec => HandoffContract
<1>1. RenderInit => Handoff!Init
      BY DEF RenderInit, Handoff!Init, Kicked, InIdleSection
<1>2. QED BY <1>1, HandoffStep, RenderInvariance, PTL DEF RenderSpec, HandoffContract, Handoff!Spec
=============================================================================
