-------------------------- MODULE AsyncShaderCompiler --------------------------
(* graphics/pipeline/async_shader_compiler with the editor's node previews  *)
(* as its client: the main thread submits a source per edit, coalesced by   *)
(* key; a worker thread compiles; the panel takes the results frame by      *)
(* frame and shows what was compiled; the destructor aborts and joins.      *)
(* Abstracted: a source is a version number and whether it compiles.        *)
EXTENDS Naturals, Sequences, FiniteSets

CONSTANTS
  Keys, None,
  MaxTake,      \* results taken per frame: take_results(8u), or 1u
  MaxSubmits    \* bound: edits

ASSUME BoundAssumption == MaxTake \in Nat \ {0} /\ MaxSubmits \in Nat

VARIABLES
  aborted, mutex,     \* _aborted; the thread that holds _request_mutex
  pending,            \* _pending: the request of each key, or None
  results,            \* _results, oldest first
  blocked,            \* the worker sleeps in _request_condition
  worker_pc, current, \* what the worker does; the request it compiles
  main_pc, submitting,\* what the main thread does; the request it submits
  submits,            \* history: versions given to requests so far
  latest,             \* history: the last request of each key
  reported,           \* history: the versions taken
  entries, shown      \* the manager's _entries; the version each shows, 0 for none

compiler == <<aborted, mutex, pending, results, blocked>>
worker == <<worker_pc, current>>
main == <<main_pc, submitting, submits, latest>>
previews == <<reported, entries, shown>>
vars == <<compiler, worker, main, previews>>

Version == 1..MaxSubmits
Request == [key : Keys, version : Version, compiles : BOOLEAN]
ASSUME NoneAssumption == None \notin Request

Init ==
  /\ aborted = FALSE /\ mutex = "free" /\ blocked = FALSE
  /\ pending = [k \in Keys |-> None] /\ results = <<>>
  /\ worker_pc = "lock" /\ current = None
  /\ main_pc = "draw" /\ submitting = None /\ submits = 0
  /\ latest = [k \in Keys |-> None]
  /\ reported = {} /\ entries = {} /\ shown = [k \in Keys |-> 0]

Pending == {k \in Keys : pending[k] # None}

-----------------------------------------------------------------------------
(* The main thread: an edit asks for a preview of node k, ...               *)
RequestRecompile(k, compiles) ==
  /\ main_pc = "draw" /\ submits < MaxSubmits
  /\ submits' = submits + 1
  /\ submitting' = [key |-> k, version |-> submits + 1, compiles |-> compiles]
  /\ latest' = [latest EXCEPT ![k] = submitting']
  /\ entries' = entries \cup {k}
  /\ main_pc' = "insert"
  /\ UNCHANGED <<compiler, worker, reported, shown>>

\* A graph no source can be generated for only marks its node.
RejectGraph(k) ==
  /\ main_pc = "draw" /\ k \notin entries
  /\ entries' = entries \cup {k}
  /\ UNCHANGED <<compiler, worker, main, reported, shown>>

\* Fault: emplace() instead of operator[] keeps the request that waits.
SubmitKeepsOld ==
  /\ main_pc = "insert" /\ mutex = "free"
  /\ pending' = [pending EXCEPT ![submitting.key] = IF @ = None THEN submitting ELSE @]
  /\ submitting' = None /\ main_pc' = "notify"
  /\ UNCHANGED <<aborted, mutex, results, blocked, worker, submits, latest, previews>>

\* Fault: the worker is notified only for a key that was already pending.
SubmitSilently ==
  /\ main_pc = "insert" /\ mutex = "free"
  /\ pending' = [pending EXCEPT ![submitting.key] = submitting]
  /\ submitting' = None
  /\ main_pc' = IF pending[submitting.key] = None THEN "draw" ELSE "notify"
  /\ UNCHANGED <<aborted, mutex, results, blocked, worker, submits, latest, previews>>

\* ... which replaces a request of the same key that was not picked up yet.
Submit ==
  /\ main_pc = "insert" /\ mutex = "free"
  /\ pending' = [pending EXCEPT ![submitting.key] = submitting]
  /\ submitting' = None /\ main_pc' = "notify"
  /\ UNCHANGED <<aborted, mutex, results, blocked, worker, submits, latest, previews>>

SubmitNotify ==
  /\ main_pc = "notify"
  /\ blocked' = FALSE /\ main_pc' = "draw"
  /\ UNCHANGED <<aborted, mutex, pending, results, worker, submitting, submits, latest, previews>>

Forget(k) ==
  /\ main_pc = "draw" /\ k \in entries
  /\ entries' = entries \ {k}
  /\ shown' = [shown EXCEPT ![k] = 0]
  /\ UNCHANGED <<compiler, worker, main, reported>>

(* update(): take_results() pops from the back, so the results of a frame   *)
(* are applied newest first; one for a forgotten node is discarded.         *)
Update ==
  /\ main_pc = "draw" /\ results # <<>>
  /\ LET kept == IF Len(results) > MaxTake THEN Len(results) - MaxTake ELSE 0
         Usable(k) == {n \in (kept + 1)..Len(results) :
                         results[n].key = k /\ results[n].compiles /\ k \in entries}
         LastApplied(k) == CHOOSE n \in Usable(k) : \A m \in Usable(k) : n <= m
     IN /\ results' = SubSeq(results, 1, kept)
        /\ reported' = reported \cup {results[n].version : n \in (kept + 1)..Len(results)}
        /\ shown' = [k \in Keys |->
                       IF Usable(k) = {} THEN shown[k] ELSE results[LastApplied(k)].version]
  /\ UNCHANGED <<aborted, mutex, pending, blocked, worker, main, entries>>

(* ~async_shader_compiler(): the flag is raised outside the lock, but the   *)
(* lock is taken once before the worker is notified.                        *)
Abort ==
  /\ main_pc = "draw"
  /\ aborted' = TRUE /\ main_pc' = "clear"
  /\ UNCHANGED <<mutex, pending, results, blocked, worker, submitting, submits, latest, previews>>

\* Fault: the requests are not cleared under the lock.
ClearUnlocked ==
  /\ main_pc = "clear"
  /\ pending' = [k \in Keys |-> None] /\ main_pc' = "wake"
  /\ UNCHANGED <<aborted, mutex, results, blocked, worker, submitting, submits, latest, previews>>

ClearPending ==
  /\ main_pc = "clear" /\ mutex = "free"
  /\ pending' = [k \in Keys |-> None] /\ main_pc' = "wake"
  /\ UNCHANGED <<aborted, mutex, results, blocked, worker, submitting, submits, latest, previews>>

AbortNotify ==
  /\ main_pc = "wake"
  /\ blocked' = FALSE /\ main_pc' = "join"
  /\ UNCHANGED <<aborted, mutex, pending, results, worker, submitting, submits, latest, previews>>

Join ==
  /\ main_pc = "join" /\ worker_pc = "left"
  /\ main_pc' = "joined"
  /\ UNCHANGED <<compiler, worker, submitting, submits, latest, previews>>

-----------------------------------------------------------------------------
(* The worker: waits under the lock, compiles without it.                   *)
Lock ==
  /\ worker_pc = "lock" \/ (worker_pc = "wait" /\ ~blocked)
  /\ mutex = "free"
  /\ mutex' = "worker" /\ worker_pc' = "check"
  /\ UNCHANGED <<aborted, pending, results, blocked, current, main, previews>>

Leave ==
  /\ worker_pc = "check" /\ aborted
  /\ mutex' = "free" /\ worker_pc' = "left"
  /\ UNCHANGED <<aborted, pending, results, blocked, current, main, previews>>

\* Fault: the lock is held while compiling.
PickUpHolding(k) ==
  /\ worker_pc = "check" /\ ~aborted /\ k \in Pending
  /\ current' = pending[k]
  /\ pending' = [pending EXCEPT ![k] = None]
  /\ worker_pc' = "compile"
  /\ UNCHANGED <<aborted, mutex, results, blocked, main, previews>>

\* Fault: the request that was picked up stays pending.
PickUpKeeps(k) ==
  /\ worker_pc = "check" /\ ~aborted /\ k \in Pending
  /\ current' = pending[k]
  /\ mutex' = "free" /\ worker_pc' = "compile"
  /\ UNCHANGED <<aborted, pending, results, blocked, main, previews>>

PickUp(k) ==
  /\ worker_pc = "check" /\ ~aborted /\ k \in Pending
  /\ current' = pending[k]
  /\ pending' = [pending EXCEPT ![k] = None]
  /\ mutex' = "free" /\ worker_pc' = "compile"
  /\ UNCHANGED <<aborted, results, blocked, main, previews>>

NothingToDo ==
  /\ worker_pc = "check" /\ ~aborted /\ Pending = {}
  /\ worker_pc' = "block"
  /\ UNCHANGED <<compiler, current, main, previews>>

\* The condition variable gives up the lock and blocks in one step.
Block ==
  /\ worker_pc = "block"
  /\ mutex' = "free" /\ blocked' = TRUE /\ worker_pc' = "wait"
  /\ UNCHANGED <<aborted, pending, results, current, main, previews>>

SpuriousWakeup ==
  /\ blocked /\ blocked' = FALSE
  /\ UNCHANGED <<aborted, mutex, pending, results, worker, main, previews>>

\* Fault: a compile error is not caught and ends the thread.
CompileThrows ==
  /\ worker_pc = "compile"
  /\ worker_pc' = IF current.compiles THEN IF aborted THEN "lock" ELSE "push" ELSE "left"
  /\ current' = IF worker_pc' = "push" THEN current ELSE None
  /\ UNCHANGED <<compiler, main, previews>>

\* A result nobody would take any more is dropped.
Compile ==
  /\ worker_pc = "compile"
  /\ worker_pc' = IF aborted THEN "lock" ELSE "push"
  /\ current' = IF aborted THEN None ELSE current
  /\ UNCHANGED <<compiler, main, previews>>

PushResult ==
  /\ worker_pc = "push"
  /\ results' = Append(results, current)
  /\ current' = None /\ worker_pc' = "lock"
  /\ UNCHANGED <<aborted, mutex, pending, blocked, main, previews>>

-----------------------------------------------------------------------------
Edit ==
  \E k \in Keys :
    Forget(k) \/ RejectGraph(k) \/ \E compiles \in BOOLEAN : RequestRecompile(k, compiles)
MainStep == Submit \/ SubmitNotify \/ ClearPending \/ AbortNotify \/ Join
WorkerStep ==
  \/ Lock \/ Leave \/ NothingToDo \/ Block \/ Compile \/ PushResult
  \/ \E k \in Keys : PickUp(k)
Terminated == main_pc = "joined" /\ UNCHANGED vars

Next == Edit \/ Update \/ Abort \/ MainStep \/ WorkerStep \/ SpuriousWakeup \/ Terminated

(* Threads run, and one that waits for the mutex gets it in the end (the    *)
(* worker gives it up between two waits); the panel is drawn, and takes     *)
(* results, frame after frame.  Nobody has to edit or to close the panel,   *)
(* and no spurious wake-up has to come.                                     *)
Spec ==
  /\ Init /\ [][Next]_vars
  /\ WF_vars(WorkerStep) /\ SF_vars(MainStep) /\ WF_vars(Update)

-----------------------------------------------------------------------------
InWork == Pending # {} \/ current # None \/ submitting # None

(* Every variable has its type; a request is in the hands of the thread     *)
(* that works on it, and the worker holds the lock exactly while it decides *)
(* what to do.                                                              *)
TypeOK ==
  /\ aborted \in BOOLEAN /\ blocked \in BOOLEAN
  /\ worker_pc \in {"lock", "check", "block", "wait", "compile", "push", "left"}
  /\ main_pc \in {"draw", "insert", "notify", "clear", "wake", "join", "joined"}
  /\ mutex = IF worker_pc \in {"check", "block"} THEN "worker" ELSE "free"
  /\ pending \in [Keys -> Request \cup {None}]
  /\ results \in Seq(Request)
  /\ current \in IF worker_pc \in {"compile", "push"} THEN Request ELSE {None}
  /\ submitting \in IF main_pc = "insert" THEN Request ELSE {None}
  /\ submits \in 0..MaxSubmits /\ latest \in [Keys -> Request \cup {None}]
  /\ reported \subseteq Version /\ entries \subseteq Keys /\ DOMAIN shown = Keys

(* Coalescing never drops the newest edit: until the abort, the latest      *)
(* request of a key is on its way or its result has been taken.             *)
LatestSurvives ==
  ~aborted =>
    \A k \in Keys : latest[k] # None =>
      \/ latest[k] \in {submitting, pending[k], current}
      \/ latest[k] \in {results[n] : n \in DOMAIN results}
      \/ latest[k].version \in reported

(* No request is compiled twice, and the worker finishes the requests of a  *)
(* key in the order of the edits.                                           *)
CompiledOnceInOrder ==
  /\ \A n \in DOMAIN results : results[n].version \notin reported
  /\ \A n, m \in DOMAIN results :
       n < m /\ results[n].key = results[m].key => results[n].version < results[m].version
  /\ current # None =>
       /\ current.version \notin reported
       /\ \A n \in DOMAIN results : results[n].key = current.key => results[n].version < current.version

(* No lost wake-up: while the worker sleeps on a request, the submitter has *)
(* not notified it yet; and it never falls asleep over the abort.           *)
NoMissedNotify ==
  blocked => /\ Pending # {} => main_pc = "notify"
             /\ aborted => main_pc \in {"clear", "wake"}

(* Whatever is submitted is compiled and reported, unless a later edit of   *)
(* the key or the abort overtakes it; a source that does not compile stops  *)
(* nothing.                                                                 *)
LatestVersion(k) == IF latest[k] = None THEN 0 ELSE latest[k].version
EditIsReported ==
  \A k \in Keys, v \in Version :
    LatestVersion(k) = v ~> (v \in reported \/ LatestVersion(k) > v \/ aborted)

(* The destructor returns, whatever the worker is doing when it starts.     *)
AbortJoins == aborted ~> main_pc = "joined"

(* The previews show the graph as it was edited last: once all work is done *)
(* and every result taken, a node that shows anything shows its latest      *)
(* source (unless that does not compile).  Not so: see the README, section 5. *)
PreviewIsLatest ==
  ~aborted /\ ~InWork /\ results = <<>> =>
    \A k \in entries :
      shown[k] # 0 /\ latest[k].compiles => shown[k] = latest[k].version
=============================================================================
