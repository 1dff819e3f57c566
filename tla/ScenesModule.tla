----------------------------- MODULE ScenesModule -----------------------------
(* scenes/scenes_module: the set of loaded scenes, the operations queued    *)
(* for the next pre_update() and the loads that are parsed in the           *)
(* background.  Everything but the parsing happens on the main thread, but  *)
(* applying an operation calls scripts back in the middle, and they may     *)
(* call the module again: a step runs from one callback to the next, and    *)
(* the calls made by all handlers of one signal happen at one point.        *)
(* Abstracted: names, paths, cameras and the order of the scene list; of    *)
(* the nodes, which scenes they may belong to.                              *)
EXTENDS Naturals, Sequences, FiniteSets

CONSTANTS
  Persistent, None,    \* persistent_scene_handle; no operation
  MaxOperations        \* bound: operations that are queued

ASSUME BoundAssumption == MaxOperations \in Nat
ASSUME HandlesAssumption == Persistent \notin Nat

VARIABLES
  scenes, active, next_handle,  \* _scene_set
  populated,        \* the handles top-level nodes may have as their scene_membership
  pending, next_id, \* _pending_operations, _next_operation_id
  async_loads,      \* _async_loads
  pc,               \* where the main thread is
  operations,       \* the batch apply_pending_operations() swapped out
  waiting,          \* the load for which _finish_async_loads(true) runs
  current,          \* the operation being applied
  settled,          \* history: operations applied or rejected
  reactivated,      \* history: scenes made active after their unload had left them
  strays            \* history: scenes given nodes after theirs were destroyed

set_vars == <<scenes, active, populated>>
queue_vars == <<pending, next_id, next_handle, async_loads>>
apply_vars == <<pc, operations, waiting, current, settled>>
late_vars == <<reactivated, strays>>
vars == <<set_vars, queue_vars, apply_vars, late_vars>>

Id == 1..MaxOperations
Handle == 1..(MaxOperations + 1)
Load ==
  [id : Id, kind : {"load", "load_async"}, handle : Handle,
   mode : {"single", "additive"}, loadable : BOOLEAN]
Unload == [id : Id, kind : {"unload"}, handle : Handle \cup {Persistent}]
Operation == Load \cup Unload
ASSUME NoneAssumption == None \notin Operation

AsyncLoad ==
  [operation : Load, parse : {"running", "ok", "bad"}, assets : {"pending", "loaded", "failed"},
   stage : {"unparsed", "waiting", "ready", "failed"}, allow : BOOLEAN]

\* The points where scripts run: their updates, and the handlers of
\* on_scene_unloading, on_scene_unloaded, on_active_scene_changed, on_scene_loaded.
ScriptPoint == {"update", "unloading", "unloaded", "active_changed", "loaded"}

Init ==
  /\ scenes = {1} /\ active = 1 /\ next_handle = 2 /\ populated = {1}
  /\ pending = <<>> /\ next_id = 1 /\ async_loads = <<>>
  /\ pc = "update" /\ operations = <<>> /\ waiting = None /\ current = None
  /\ settled = {} /\ reactivated = {} /\ strays = {}

Unloading == current # None /\ current.kind = "unload"
ReplacingAll == current # None /\ current.kind # "unload" /\ current.mode = "single"
Others(handle) == scenes \ {Persistent, handle}

\* Scenes still listed whose nodes have been destroyed: by an unload, which
\* has also chosen another active scene if need be, or by a single load.
Left == IF Unloading /\ pc \in {"active_changed", "unloaded"} THEN {current.handle} ELSE {}
Replaced == IF ReplacingAll /\ pc = "unloaded" THEN scenes \ {Persistent} ELSE {}
Live == scenes \ (Left \cup Replaced)

Ids(queue) == {queue[i].id : i \in DOMAIN queue}
AsyncIds == {async_loads[i].operation.id : i \in DOMAIN async_loads}

\* is_operation_done()
IsOperationDone(id) == id < next_id /\ id \notin Ids(pending) \cup AsyncIds

-----------------------------------------------------------------------------
(* Calls from scripts.                                                      *)
Issue == /\ pc \in ScriptPoint /\ next_id <= MaxOperations /\ next_id' = next_id + 1
NewLoad(kind, mode, loadable) ==
  [id |-> next_id, kind |-> kind, handle |-> next_handle, mode |-> mode, loadable |-> loadable]

LoadScene(mode, loadable) ==
  /\ Issue
  /\ pending' = Append(pending, NewLoad("load", mode, loadable))
  /\ next_handle' = next_handle + 1
  /\ UNCHANGED <<set_vars, async_loads, apply_vars, late_vars>>

UnloadScene(handle) ==
  /\ Issue
  /\ pending' = Append(pending, [id |-> next_id, kind |-> "unload", handle |-> handle])
  /\ UNCHANGED <<set_vars, next_handle, async_loads, apply_vars, late_vars>>

NewAsyncLoad(operation) ==
  [operation |-> operation, parse |-> "running", assets |-> "pending", stage |-> "unparsed", allow |-> TRUE]

\* A scene that cannot be loaded is rejected at once.
LoadSceneAsync(mode, loadable) ==
  /\ Issue
  /\ next_handle' = next_handle + 1
  /\ LET operation == NewLoad("load_async", mode, loadable) IN
       IF loadable
         THEN async_loads' = Append(async_loads, NewAsyncLoad(operation)) /\ UNCHANGED settled
         ELSE settled' = settled \cup {next_id} /\ UNCHANGED async_loads
  /\ UNCHANGED <<set_vars, pending, pc, operations, waiting, current, late_vars>>

SetAllowSceneActivation(i, allow) ==
  /\ pc \in ScriptPoint
  /\ async_loads[i].allow # allow
  /\ async_loads' = [async_loads EXCEPT ![i].allow = allow]
  /\ UNCHANGED <<set_vars, pending, next_id, next_handle, apply_vars, late_vars>>

\* The handlers of _change_active's signal run at this same point.
SetActiveScene(handle) ==
  /\ pc \in ScriptPoint
  /\ handle \in Others(active)
  /\ active' = handle
  /\ reactivated' = reactivated \cup ({handle} \cap Left)
  /\ UNCHANGED <<scenes, populated, queue_vars, apply_vars, strays>>

\* A node joins a scene, be it one whose nodes were destroyed already.
Join(handle) ==
  /\ populated' = populated \cup {handle}
  /\ strays' = strays \cup ({handle} \ Live)

\* A script creates a node: it joins the active scene.
CreateNode ==
  /\ pc \in ScriptPoint
  /\ Join(active)
  /\ UNCHANGED <<scenes, active, queue_vars, apply_vars, reactivated>>

MoveNodeToScene(to) ==
  /\ pc \in ScriptPoint
  /\ to \in scenes /\ populated # {}
  /\ Join(to)
  /\ UNCHANGED <<scenes, active, queue_vars, apply_vars, reactivated>>

\* dont_destroy_on_load().  The list must not grow while _activate_load
\* iterates it: what a first call from OnDestroy does then is not modelled.
DontDestroyOnLoad ==
  /\ pc \in ScriptPoint
  /\ populated # {}
  /\ Persistent \in scenes \/ ~(ReplacingAll /\ pc = "unloading")
  /\ scenes' = scenes \cup {Persistent}
  /\ populated' = populated \cup {Persistent}
  /\ UNCHANGED <<active, queue_vars, apply_vars, late_vars>>

-----------------------------------------------------------------------------
(* The background: std::async parses the file, the loader resolves the      *)
(* assets it names.                                                         *)
ParseEnds(i, result) ==
  /\ async_loads[i].parse = "running"
  /\ async_loads' = [async_loads EXCEPT ![i].parse = result]
  /\ UNCHANGED <<set_vars, pending, next_id, next_handle, apply_vars, late_vars>>

\* An asset whose data cannot be read or cooked is never marked loaded ...
AssetsEnd(i, result) ==
  /\ async_loads[i].parse = "ok" /\ async_loads[i].assets = "pending"
  /\ async_loads' = [async_loads EXCEPT ![i].assets = result]
  /\ UNCHANGED <<set_vars, pending, next_id, next_handle, apply_vars, late_vars>>

\* ... unless its source is mended and imported again.
AssetReimported(i) ==
  /\ async_loads[i].assets = "failed"
  /\ async_loads' = [async_loads EXCEPT ![i].assets = "loaded"]
  /\ UNCHANGED <<set_vars, pending, next_id, next_handle, apply_vars, late_vars>>

-----------------------------------------------------------------------------
(* pre_update(): first the queued operations ...                            *)
Settle(operation, next_pc) ==
  /\ settled' = settled \cup {operation.id} /\ current' = None /\ pc' = next_pc

\* Fault: the batch is applied from a copy of the queue.
PreUpdateCopies ==
  /\ pc = "update"
  /\ operations' = pending
  /\ pc' = "apply"
  /\ UNCHANGED <<set_vars, queue_vars, waiting, current, settled, late_vars>>

PreUpdate ==
  /\ pc = "update"
  /\ operations' = pending /\ pending' = <<>>
  /\ pc' = "apply"
  /\ UNCHANGED <<set_vars, next_id, next_handle, async_loads, waiting, current, settled, late_vars>>

\* Fault: a queued load overtakes the asynchronous ones.
ApplyLoadAtOnce ==
  /\ pc = "apply" /\ operations # <<>> /\ Head(operations).kind = "load"
  /\ operations' = Tail(operations)
  /\ IF Head(operations).loadable
       THEN /\ current' = Head(operations) /\ UNCHANGED settled
            /\ pc' = IF Head(operations).mode = "single" THEN "unloading" ELSE "list"
       ELSE Settle(Head(operations), "apply")
  /\ UNCHANGED <<set_vars, queue_vars, waiting, late_vars>>

ApplyLoad ==
  /\ pc = "apply" /\ operations # <<>> /\ Head(operations).kind = "load"
  /\ waiting' = Head(operations) /\ operations' = Tail(operations)
  /\ pc' = "finish"
  /\ UNCHANGED <<set_vars, queue_vars, current, settled, late_vars>>

\* Only a listed scene, not the persistent one and not the last one.
Unloadable(handle) == handle \in scenes \ {Persistent} /\ Others(handle) # {}

RejectUnload ==
  /\ pc = "apply" /\ operations # <<>> /\ Head(operations).kind = "unload"
  /\ ~Unloadable(Head(operations).handle)
  /\ Settle(Head(operations), "apply") /\ operations' = Tail(operations)
  /\ UNCHANGED <<set_vars, queue_vars, waiting, late_vars>>

ApplyUnload ==
  /\ pc = "apply" /\ operations # <<>> /\ Head(operations).kind = "unload"
  /\ Unloadable(Head(operations).handle)
  /\ current' = Head(operations) /\ operations' = Tail(operations)
  /\ pc' = "unloading"
  /\ UNCHANGED <<set_vars, queue_vars, waiting, settled, late_vars>>

\* Fault: the active scene stays active when it is unloaded.
DestroyUnloadedKeepsActive ==
  /\ pc = "unloading" /\ Unloading
  /\ populated' = populated \ {current.handle}
  /\ pc' \in {"active_changed", "unloaded"}
  /\ UNCHANGED <<scenes, active, queue_vars, operations, waiting, current, settled, late_vars>>

\* destroy_scene_nodes(), and another scene becomes active if need be.
\* Losing the camera announces the active scene again.
DestroyUnloaded ==
  /\ pc = "unloading" /\ Unloading
  /\ populated' = populated \ {current.handle}
  /\ IF active = current.handle
       THEN active' \in Others(current.handle) /\ pc' = "active_changed"
       ELSE pc' \in {"active_changed", "unloaded"} /\ UNCHANGED active
  /\ UNCHANGED <<scenes, queue_vars, operations, waiting, current, settled, late_vars>>

AnnounceUnloaded ==
  /\ pc = "active_changed" /\ Unloading
  /\ pc' = "unloaded"
  /\ UNCHANGED <<set_vars, queue_vars, operations, waiting, current, settled, late_vars>>

EraseUnloaded ==
  /\ pc = "unloaded" /\ Unloading
  /\ scenes' = scenes \ {current.handle}
  /\ Settle(current, "apply")
  /\ UNCHANGED <<active, populated, queue_vars, operations, waiting, late_vars>>

(* ... then the asynchronous loads are polled ...                           *)
\* Fault: a file that does not parse is tried forever.
PolledRetries(load) ==
  IF load.stage = "unparsed" /\ load.parse # "ok" THEN load
  ELSE [load EXCEPT !.stage = IF load.assets = "loaded" THEN "ready" ELSE "waiting"]

Polled(load) ==
  IF load.stage = "failed" \/ (load.stage = "unparsed" /\ load.parse = "running") THEN load
  ELSE [load EXCEPT !.stage = IF load.parse = "bad" THEN "failed"
                              ELSE IF load.assets = "loaded" THEN "ready" ELSE "waiting"]

UpdateAsyncLoads ==
  /\ pc = "apply" /\ operations = <<>>
  /\ async_loads' = [i \in DOMAIN async_loads |-> Polled(async_loads[i])]
  /\ pc' = "finish"
  /\ UNCHANGED <<set_vars, pending, next_id, next_handle, operations, waiting, current, settled, late_vars>>

(* ... and _finish_async_loads activates them in order; a queued load       *)
(* forces all of them first.                                                *)
Forced == waiting # None
Front == async_loads[1]

DropFailed ==
  /\ pc = "finish" /\ async_loads # <<>>
  /\ Front.stage = "failed" \/ (Forced /\ Front.stage = "unparsed" /\ Front.parse = "bad")
  /\ async_loads' = Tail(async_loads)
  /\ settled' = settled \cup {Front.operation.id}
  /\ UNCHANGED <<set_vars, pending, next_id, next_handle, pc, operations, waiting, current, late_vars>>

MayActivate(load) ==
  IF Forced THEN load.stage \in {"waiting", "ready"} \/ (load.stage = "unparsed" /\ load.parse = "ok")
  ELSE load.stage = "ready" /\ load.allow

\* _activate_load: a single load first announces that all others go.
Begin(operation) ==
  /\ current' = operation
  /\ pc' = IF operation.mode = "single" THEN "unloading" ELSE "list"

ActivateFront ==
  /\ pc = "finish" /\ async_loads # <<>> /\ MayActivate(Front)
  /\ Begin(Front.operation)
  /\ async_loads' = Tail(async_loads)
  /\ UNCHANGED <<set_vars, pending, next_id, next_handle, operations, waiting, settled, late_vars>>

FinishEnds ==
  /\ pc = "finish" /\ ~Forced
  /\ async_loads # <<>> => Front.stage # "failed" /\ ~MayActivate(Front)
  /\ pc' = "update"
  /\ UNCHANGED <<set_vars, queue_vars, operations, waiting, current, settled, late_vars>>

ResumeLoad ==
  /\ pc = "finish" /\ Forced /\ async_loads = <<>>
  /\ waiting' = None
  /\ IF waiting.loadable THEN Begin(waiting) /\ UNCHANGED settled ELSE Settle(waiting, "apply")
  /\ UNCHANGED <<set_vars, queue_vars, operations, late_vars>>

\* Fault: only the active scene's nodes are destroyed.
DestroyActive ==
  /\ pc = "unloading" /\ ReplacingAll
  /\ populated' = populated \ {active}
  /\ pc' = "unloaded"
  /\ UNCHANGED <<scenes, active, queue_vars, operations, waiting, current, settled, late_vars>>

DestroyAll ==
  /\ pc = "unloading" /\ ReplacingAll
  /\ populated' = populated \ (scenes \ {Persistent})
  /\ pc' = "unloaded"
  /\ UNCHANGED <<scenes, active, queue_vars, operations, waiting, current, settled, late_vars>>

\* The record and the nodes of the new scene.
ListLoaded ==
  /\ pc = "list" \/ (pc = "unloaded" /\ ReplacingAll)
  /\ scenes' = {current.handle} \cup (IF ReplacingAll THEN scenes \cap {Persistent} ELSE scenes)
  /\ populated' = populated \cup {current.handle}
  /\ IF ReplacingAll THEN active' = current.handle /\ pc' = "active_changed"
                     ELSE pc' = "loaded" /\ UNCHANGED active
  /\ UNCHANGED <<queue_vars, operations, waiting, current, settled, late_vars>>

AnnounceLoaded ==
  /\ pc = "active_changed" /\ ReplacingAll
  /\ pc' = "loaded"
  /\ UNCHANGED <<set_vars, queue_vars, operations, waiting, current, settled, late_vars>>

ActivationEnds ==
  /\ pc = "loaded"
  /\ Settle(current, IF current.kind = "load" THEN "apply" ELSE "finish")
  /\ UNCHANGED <<set_vars, queue_vars, operations, waiting, late_vars>>

-----------------------------------------------------------------------------
ScriptCall ==
  \/ \E loadable \in BOOLEAN, mode \in {"single", "additive"} :
       LoadScene(mode, loadable) \/ LoadSceneAsync(mode, loadable)
  \/ \E handle \in 1..(next_handle - 1) \cup {Persistent} : UnloadScene(handle)
  \/ \E i \in DOMAIN async_loads, allow \in BOOLEAN : SetAllowSceneActivation(i, allow)
  \/ \E handle \in scenes : SetActiveScene(handle)
  \/ CreateNode \/ DontDestroyOnLoad
  \/ \E handle \in scenes : MoveNodeToScene(handle)

Parse == \E i \in DOMAIN async_loads, result \in {"ok", "bad"} : ParseEnds(i, result)
LoadAssets ==
  \E i \in DOMAIN async_loads, result \in {"loaded", "failed"} : AssetsEnd(i, result)
Reimport == \E i \in DOMAIN async_loads : AssetReimported(i)

ModuleStep ==
  \/ PreUpdate \/ ApplyLoad \/ RejectUnload \/ ApplyUnload
  \/ DestroyUnloaded \/ AnnounceUnloaded \/ EraseUnloaded
  \/ UpdateAsyncLoads \/ DropFailed \/ ActivateFront \/ FinishEnds \/ ResumeLoad
  \/ DestroyAll \/ ListLoaded \/ AnnounceLoaded \/ ActivationEnds

Next == ScriptCall \/ Parse \/ LoadAssets \/ Reimport \/ ModuleStep

(* Handlers return, frames follow one another, files get parsed, and an     *)
(* asset is loaded or fails.                                                *)
Spec ==
  /\ Init /\ [][Next]_vars
  /\ WF_vars(ModuleStep) /\ WF_vars(Parse) /\ WF_vars(LoadAssets)

-----------------------------------------------------------------------------
(* Every variable ranges over the values its declaration in                 *)
(* scenes_module.hpp admits; the queues hold operations with the handle     *)
(* that was reserved for them.                                              *)
TypeOK ==
  /\ scenes \subseteq Handle \cup {Persistent} /\ populated \subseteq Handle \cup {Persistent}
  /\ active \in Handle
  /\ next_id \in 1..(MaxOperations + 1) /\ next_handle \in 2..(MaxOperations + 2)
  /\ pending \in Seq(Operation) /\ operations \in Seq(Operation)
  /\ async_loads \in Seq(AsyncLoad)
  /\ waiting \in Load \cup {None} /\ current \in Operation \cup {None}
  /\ settled \subseteq Id
  /\ pc \in ScriptPoint \cup {"apply", "finish", "list"}
  /\ reactivated \cup strays \subseteq Handle \cup {Persistent}

(* The active scene, which new nodes join, is a loaded one and never the    *)
(* persistent one, and a scene stays loaded, whatever handlers do between   *)
(* the steps of an unload or a single load, but for one call: activating    *)
(* again the scene that the unload in progress has just left.               *)
ActiveIsLoaded ==
  active \in (scenes \ {Persistent}) \cup reactivated /\ scenes \ {Persistent} # {}

(* No node belongs to a scene that is not loaded or whose nodes were        *)
(* already destroyed, where no later unload would find it, unless a script  *)
(* put one there itself: created while such a scene was active, or moved.   *)
NodesInLiveScenes == populated \subseteq Live \cup strays

(* An asynchronous load activates after every one started before it, a      *)
(* queued load after every load started before it, of either kind, and an   *)
(* unload after the loads and unloads queued before it.  The converse fails *)
(* for asynchronous loads: one started after a queued load may activate     *)
(* before it, forced or at once (README, section 5).                        *)
LoadsInOrder ==
  current # None =>
    /\ current.kind # "unload" => \A id \in AsyncIds : current.id < id
    /\ current.kind # "load_async" =>
         \A id \in Ids(pending) \cup Ids(operations) : current.id < id

(* "A synchronous load first completes every async load queued before it":  *)
(* it completes those queued after it too.  Not so: README, section 5.      *)
ForcedWereQueuedBefore ==
  waiting # None /\ current # None => current.id < waiting.id

(* An operation is either settled or in exactly one queue: none is lost     *)
(* when handlers queue more during the batch, none is applied twice.        *)
InHand == {operation.id : operation \in {waiting, current} \ {None}}
NoOperationLost ==
  LET unsettled == Ids(pending) \cup Ids(operations) \cup AsyncIds \cup InHand
      places == Len(pending) + Len(operations) + Len(async_loads) + Cardinality(InHand)
  IN /\ 1..(next_id - 1) = settled \cup unsettled
     /\ settled \cap unsettled = {} /\ Cardinality(unsettled) = places

(* is_operation_done(): no script is told that an operation is done before  *)
(* the module has come to it.  Not so: see the README, section 5.           *)
DoneMeansApplied ==
  pc \in ScriptPoint =>
    \A id \in Id : IsOperationDone(id) =>
      id \notin Ids(operations) /\ (waiting # None => id # waiting.id)

(* Whatever is queued is applied or rejected in the end.  Only an           *)
(* asynchronous load may wait: while scripts hold it, or one started before *)
(* it, back, or an asset of either has failed.  A file that does not parse  *)
(* blocks nothing.                                                          *)
Stuck(load) == ~load.allow \/ load.assets = "failed"
HeldBack(id) ==
  \E i \in DOMAIN async_loads :
    async_loads[i].operation.id = id /\ \E j \in 1..i : Stuck(async_loads[j])
IssuedIsSettled ==
  \A id \in Id : id < next_id ~> (id \in settled \/ HeldBack(id))
=============================================================================
