-------------------------- MODULE ScenesModuleProofs --------------------------
(* The scenes module for any number of operations and whatever scripts do   *)
(* at every point where they run: which scene may be active and which may   *)
(* hold nodes, and where every operation is and in which order it applies.  *)
EXTENDS ScenesModule, SequenceTheorems, FiniteSetTheorems, TLAPS

(* Every load was given a handle of its own number or less.                 *)
HandlesReserved == next_handle <= next_id + 1

(* Where the main thread is decides what it is applying.                    *)
Applying ==
  /\ pc \in {"unloading", "unloaded", "active_changed"} => Unloading \/ ReplacingAll
  /\ pc \in {"list", "loaded"} => current # None /\ current.kind # "unload"
  /\ pc = "list" => current.mode = "additive"

(* An unload in progress: another scene remains, and once the nodes are     *)
(* gone the scene is active only if a handler activated it again.           *)
UnloadInv ==
  Unloading /\ pc \in {"unloading", "active_changed", "unloaded"} =>
    /\ current.handle # Persistent /\ Others(current.handle) # {}
    /\ pc # "unloading" => active # current.handle \/ current.handle \in reactivated

SceneInv == ActiveIsLoaded /\ NodesInLiveScenes /\ UnloadInv

IInv == TypeOK /\ HandlesReserved /\ Applying /\ SceneInv

-----------------------------------------------------------------------------
(* A load that scripts queue is well formed.                                *)
LEMMA NewLoadType ==
  ASSUME TypeOK, HandlesReserved, next_id <= MaxOperations,
         NEW kind \in {"load", "load_async"}, NEW mode \in {"single", "additive"},
         NEW loadable \in BOOLEAN
  PROVE  /\ NewLoad(kind, mode, loadable) \in Load
         /\ next_id \in Id /\ next_handle \in Handle
BY BoundAssumption DEF TypeOK, HandlesReserved, late_vars, NewLoad, Load, Id, Handle

(* Changing one asynchronous load leaves a sequence of them.                *)
LEMMA ChangedLoad ==
  ASSUME TypeOK, NEW i \in DOMAIN async_loads, NEW load \in AsyncLoad
  PROVE  [async_loads EXCEPT ![i] = load] \in Seq(AsyncLoad)
BY ExceptSeq DEF TypeOK

(* Polling leaves a load well formed.                                       *)
LEMMA PolledType ==
  ASSUME NEW load \in AsyncLoad
  PROVE  Polled(load) \in AsyncLoad
BY DEF Polled, AsyncLoad

LEMMA PolledLoads ==
  ASSUME TypeOK
  PROVE  [i \in DOMAIN async_loads |-> Polled(async_loads[i])] \in Seq(AsyncLoad)
<1>1. \A i \in 1..Len(async_loads) : async_loads[i] \in AsyncLoad
  BY DEF TypeOK
<1>2. [i \in 1..Len(async_loads) |-> Polled(async_loads[i])] \in [1..Len(async_loads) -> AsyncLoad]
  BY <1>1, PolledType
<1>3. DOMAIN async_loads = 1..Len(async_loads) /\ Len(async_loads) \in Nat
  BY DEF TypeOK
<1> QED
  BY <1>2, <1>3

(* The module starts in the invariant.                                      *)
LEMMA InitInv == Init => IInv
BY BoundAssumption, HandlesAssumption
   DEF Init, IInv, TypeOK, HandlesReserved, late_vars, Applying, SceneInv, ActiveIsLoaded, NodesInLiveScenes,
       UnloadInv, Live, Left, Replaced, Unloading, ReplacingAll, Others, Handle, ScriptPoint

(* Steps that leave the set of scenes and the operation in progress alone   *)
(* need only their queues to stay well formed.                              *)
LEMMA QueueStep ==
  ASSUME IInv, UNCHANGED <<set_vars, late_vars>>, UNCHANGED <<pc, current>>
  PROVE  Applying' /\ SceneInv'
BY DEF IInv, Applying, SceneInv, ActiveIsLoaded, NodesInLiveScenes, UnloadInv, Live, Left, Replaced,
       Unloading, ReplacingAll, Others, set_vars, late_vars

-----------------------------------------------------------------------------
(* What scripts call preserves the invariant, at every point where they run.*)
LEMMA CallStep ==
  ASSUME IInv, ScriptCall
  PROVE  IInv'
<1>a. TypeOK /\ HandlesReserved /\ Applying /\ SceneInv
  BY DEF IInv
<1>1. ASSUME NEW loadable \in BOOLEAN, NEW mode \in {"single", "additive"},
             LoadScene(mode, loadable)
      PROVE  IInv'
  <2>1. NewLoad("load", mode, loadable) \in Operation
    BY <1>a, <1>1, NewLoadType DEF LoadScene, Issue, TypeOK, Operation
  <2>2. TypeOK' /\ HandlesReserved'
    BY <1>a, <1>1, <2>1, BoundAssumption
    DEF TypeOK, HandlesReserved, late_vars, LoadScene, Issue, set_vars, apply_vars
  <2> QED
    BY <1>1, <2>2, QueueStep DEF IInv, LoadScene, apply_vars
<1>2. ASSUME NEW loadable \in BOOLEAN, NEW mode \in {"single", "additive"},
             LoadSceneAsync(mode, loadable)
      PROVE  IInv'
  <2>1. NewAsyncLoad(NewLoad("load_async", mode, loadable)) \in AsyncLoad /\ next_id \in Id
    BY <1>a, <1>2, NewLoadType DEF LoadSceneAsync, Issue, TypeOK, NewAsyncLoad, AsyncLoad
  <2>2. async_loads' \in Seq(AsyncLoad) /\ settled' \subseteq Id
    <3>1. CASE loadable
      <4>1. /\ async_loads' = Append(async_loads, NewAsyncLoad(NewLoad("load_async", mode, loadable)))
            /\ settled' = settled
        BY <1>2, <3>1, Zenon DEF LoadSceneAsync
      <4> QED
        BY <1>a, <2>1, <4>1 DEF TypeOK
    <3>2. CASE ~loadable
      <4>1. async_loads' = async_loads /\ settled' = settled \cup {next_id}
        BY <1>2, <3>2, Zenon DEF LoadSceneAsync
      <4> QED
        BY <1>a, <2>1, <4>1 DEF TypeOK
    <3> QED
      BY <3>1, <3>2
  <2>3. TypeOK' /\ HandlesReserved'
    BY <1>a, <1>2, <2>2, BoundAssumption
    DEF TypeOK, HandlesReserved, late_vars, LoadSceneAsync, Issue, set_vars
  <2> QED
    BY <1>2, <2>3, QueueStep DEF IInv, LoadSceneAsync
<1>3. ASSUME NEW handle \in 1..(next_handle - 1) \cup {Persistent}, UnloadScene(handle)
      PROVE  IInv'
  <2>1. [id |-> next_id, kind |-> "unload", handle |-> handle] \in Operation
    BY <1>a, <1>3, BoundAssumption
    DEF UnloadScene, Issue, TypeOK, Operation, Unload, Id, Handle
  <2>2. TypeOK' /\ HandlesReserved'
    BY <1>a, <1>3, <2>1, BoundAssumption
    DEF TypeOK, HandlesReserved, late_vars, UnloadScene, Issue, set_vars, apply_vars
  <2> QED
    BY <1>3, <2>2, QueueStep DEF IInv, UnloadScene, apply_vars
<1>4. ASSUME NEW i \in DOMAIN async_loads, NEW allow \in BOOLEAN, SetAllowSceneActivation(i, allow)
      PROVE  IInv'
  <2>1. [async_loads[i] EXCEPT !.allow = allow] \in AsyncLoad
    <3>1. async_loads[i] \in AsyncLoad
      BY <1>a DEF TypeOK
    <3> QED
      BY <3>1, Zenon DEF AsyncLoad
  <2>2. TypeOK' /\ HandlesReserved'
    BY <1>a, <1>4, <2>1, ChangedLoad
    DEF TypeOK, HandlesReserved, late_vars, SetAllowSceneActivation, set_vars, apply_vars
  <2> QED
    BY <1>4, <2>2, QueueStep DEF IInv, SetAllowSceneActivation, apply_vars
<1>5. ASSUME NEW handle \in scenes, SetActiveScene(handle)
      PROVE  IInv'
  <2>1. /\ handle \in scenes \ {Persistent} /\ active' = handle
        /\ reactivated' = reactivated \cup ({handle} \cap Left)
        /\ UNCHANGED <<scenes, populated, strays, pc, current>>
    BY <1>5 DEF SetActiveScene, Others, apply_vars
  <2>2. Left' = Left /\ Replaced' = Replaced
    BY <2>1 DEF Left, Replaced, Unloading, ReplacingAll
  <2>3. TypeOK' /\ HandlesReserved'
    BY <1>a, <1>5, <2>1
    DEF TypeOK, HandlesReserved, SetActiveScene, queue_vars, apply_vars
  <2>4. Applying'
    BY <1>a, <2>1 DEF Applying, Unloading, ReplacingAll
  <2>5. UnloadInv'
    BY <1>a, <2>1 DEF SceneInv, UnloadInv, Left, Unloading, Others
  <2>6. ActiveIsLoaded' /\ NodesInLiveScenes'
    BY <1>a, <2>1, <2>2 DEF SceneInv, ActiveIsLoaded, NodesInLiveScenes, Live
  <2> QED
    BY <2>3, <2>4, <2>5, <2>6 DEF IInv, SceneInv
<1>6. ASSUME NEW handle \in Handle \cup {Persistent}, Join(handle),
             UNCHANGED <<scenes, active, queue_vars, apply_vars, reactivated>>
      PROVE  IInv'
  <2>1. TypeOK' /\ HandlesReserved'
    BY <1>a, <1>6 DEF Join, TypeOK, HandlesReserved, queue_vars, apply_vars
  <2>2. Left' = Left /\ Replaced' = Replaced
    BY <1>6 DEF Left, Replaced, Unloading, ReplacingAll, apply_vars
  <2>3. Applying' /\ UnloadInv'
    BY <1>a, <1>6 DEF Applying, SceneInv, UnloadInv, Unloading, ReplacingAll, Others, apply_vars
  <2>4. ActiveIsLoaded' /\ NodesInLiveScenes'
    BY <1>a, <1>6, <2>2 DEF Join, SceneInv, ActiveIsLoaded, NodesInLiveScenes, Live
  <2> QED
    BY <2>1, <2>3, <2>4 DEF IInv, SceneInv
<1>7. CASE CreateNode
  BY <1>a, <1>6, <1>7 DEF CreateNode, TypeOK
<1>8. ASSUME NEW handle \in scenes, MoveNodeToScene(handle)
      PROVE  IInv'
  BY <1>a, <1>6, <1>8 DEF MoveNodeToScene, TypeOK
<1>9. CASE DontDestroyOnLoad
  <2>1. /\ scenes' = scenes \cup {Persistent} /\ populated' = populated \cup {Persistent}
        /\ UNCHANGED <<active, queue_vars, apply_vars, late_vars>>
    BY <1>9 DEF DontDestroyOnLoad
  <2>2. TypeOK' /\ HandlesReserved'
    BY <1>a, <2>1 DEF TypeOK, HandlesReserved, late_vars, queue_vars, apply_vars
  <2>3. Applying' /\ UnloadInv'
    BY <1>a, <2>1
    DEF Applying, SceneInv, UnloadInv, Unloading, ReplacingAll, Others, apply_vars, late_vars
  <2>4. Left' = Left /\ Replaced' = Replaced /\ Persistent \notin Left \cup Replaced
    BY <1>a, <2>1 DEF Left, Replaced, Unloading, ReplacingAll, apply_vars, SceneInv, UnloadInv
  <2>5. ActiveIsLoaded' /\ NodesInLiveScenes'
    BY <1>a, <2>1, <2>4 DEF SceneInv, ActiveIsLoaded, NodesInLiveScenes, Live, late_vars
  <2> QED
    BY <2>2, <2>3, <2>5 DEF IInv, SceneInv
<1> QED
  BY <1>1, <1>2, <1>3, <1>4, <1>5, <1>7, <1>8, <1>9 DEF ScriptCall

-----------------------------------------------------------------------------
(* The background only advances asynchronous loads.                         *)
LEMMA BackgroundStep ==
  ASSUME IInv, Parse \/ LoadAssets \/ Reimport
  PROVE  IInv'
<1>a. TypeOK /\ HandlesReserved
  BY DEF IInv
<1>1. ASSUME NEW i \in DOMAIN async_loads, NEW load \in AsyncLoad,
             async_loads' = [async_loads EXCEPT ![i] = load],
             UNCHANGED <<set_vars, pending, next_id, next_handle, apply_vars, late_vars>>
      PROVE  IInv'
  <2>1. TypeOK' /\ HandlesReserved'
    BY <1>a, <1>1, ChangedLoad DEF TypeOK, HandlesReserved, late_vars, set_vars, apply_vars
  <2> QED
    BY <1>1, <2>1, QueueStep DEF IInv, apply_vars
<1>2. ASSUME NEW i \in DOMAIN async_loads, NEW result \in {"ok", "bad"}, ParseEnds(i, result)
      PROVE  IInv'
  <2>1. async_loads[i] \in AsyncLoad
    BY <1>a DEF TypeOK
  <2>2. [async_loads[i] EXCEPT !.parse = result] \in AsyncLoad
    BY <2>1 DEF AsyncLoad
  <2> QED
    BY <1>1, <1>2, <2>2 DEF ParseEnds
<1>3. ASSUME NEW i \in DOMAIN async_loads, NEW result \in {"loaded", "failed"},
             AssetsEnd(i, result) \/ (AssetReimported(i) /\ result = "loaded")
      PROVE  IInv'
  <2>1. async_loads[i] \in AsyncLoad
    BY <1>a DEF TypeOK
  <2>2. [async_loads[i] EXCEPT !.assets = result] \in AsyncLoad
    BY <2>1 DEF AsyncLoad
  <2> QED
    BY <1>1, <1>3, <2>2 DEF AssetsEnd, AssetReimported
<1> QED
  BY <1>2, <1>3 DEF Parse, LoadAssets, Reimport

-----------------------------------------------------------------------------
(* The first operation of a batch is well formed, and so is what follows.   *)
LEMMA Batch ==
  ASSUME TypeOK, operations # <<>>
  PROVE  Head(operations) \in Operation /\ Tail(operations) \in Seq(Operation)
BY HeadTailProperties DEF TypeOK

LEMMA FrontLoad ==
  ASSUME TypeOK, async_loads # <<>>
  PROVE  Front \in AsyncLoad /\ Front.operation \in Load /\ Tail(async_loads) \in Seq(AsyncLoad)
<1>1. Front \in AsyncLoad /\ Tail(async_loads) \in Seq(AsyncLoad)
  BY HeadTailProperties, EmptySeq DEF TypeOK, Front
<1> QED
  BY <1>1 DEF AsyncLoad

(* Beginning a load, between two operations, disturbs no scene.             *)
LEMMA BeginStep ==
  ASSUME IInv, UNCHANGED <<set_vars, late_vars>>, NEW load \in Load, Begin(load)
  PROVE  Applying' /\ SceneInv' /\ current' \in Operation
         /\ pc' \in ScriptPoint \cup {"apply", "finish", "list"}
<1>1. load \in Operation /\ load # None
  BY NoneAssumption DEF Operation
<1>2. load.kind # "unload" /\ load.mode \in {"single", "additive"}
  BY DEF Load
<1> QED
  BY <1>1, <1>2
  DEF IInv, Begin, Applying, SceneInv, ActiveIsLoaded, NodesInLiveScenes, UnloadInv, Live, Left, Replaced,
      Unloading, ReplacingAll, Others, set_vars, late_vars, ScriptPoint

-----------------------------------------------------------------------------
(* Every step of the module itself preserves the invariant.                 *)
LEMMA ModuleStepInv ==
  ASSUME IInv, ModuleStep
  PROVE  IInv'
<1>a. TypeOK /\ HandlesReserved /\ Applying /\ SceneInv
  BY DEF IInv
<1> USE DEF ScriptPoint
<1>1. CASE PreUpdate
  BY <1>a, <1>1, EmptySeq
  DEF PreUpdate, IInv, TypeOK, HandlesReserved, late_vars, Applying, SceneInv, ActiveIsLoaded,
      NodesInLiveScenes, UnloadInv, Live, Left, Replaced, Unloading, ReplacingAll, Others, set_vars, late_vars
<1>2. CASE ApplyLoad
  <2>1. Head(operations) \in Load /\ Tail(operations) \in Seq(Operation)
    BY <1>a, <1>2, Batch DEF ApplyLoad, Operation, Unload
  <2>2. TypeOK' /\ HandlesReserved'
    BY <1>a, <1>2, <2>1 DEF ApplyLoad, TypeOK, HandlesReserved, late_vars, set_vars, queue_vars
  <2>3. Applying' /\ SceneInv'
    BY <1>a, <1>2
    DEF ApplyLoad, Applying, SceneInv, ActiveIsLoaded, NodesInLiveScenes, UnloadInv, Live, Left, Replaced,
        Unloading, ReplacingAll, Others, set_vars, late_vars
  <2> QED
    BY <2>2, <2>3 DEF IInv
<1>3. CASE RejectUnload
  <2>1. Head(operations).id \in Id /\ Tail(operations) \in Seq(Operation)
    BY <1>a, <1>3, Batch DEF RejectUnload, Operation, Load, Unload
  <2>2. TypeOK' /\ HandlesReserved'
    BY <1>a, <1>3, <2>1 DEF RejectUnload, Settle, TypeOK, HandlesReserved, late_vars, set_vars, queue_vars
  <2>3. Applying' /\ SceneInv'
    BY <1>a, <1>3
    DEF RejectUnload, Settle, Applying, SceneInv, ActiveIsLoaded, NodesInLiveScenes, UnloadInv,
        Live, Left, Replaced, Unloading, ReplacingAll, Others, set_vars, late_vars
  <2> QED
    BY <2>2, <2>3 DEF IInv
<1>4. CASE ApplyUnload
  <2>1. Head(operations) \in Operation /\ Tail(operations) \in Seq(Operation)
    BY <1>a, <1>4, Batch DEF ApplyUnload
  <2>2. TypeOK' /\ HandlesReserved'
    BY <1>a, <1>4, <2>1 DEF ApplyUnload, TypeOK, HandlesReserved, late_vars, set_vars, queue_vars
  <2>3. /\ current' # None /\ current'.kind = "unload" /\ pc' = "unloading"
        /\ current'.handle \in scenes \ {Persistent} /\ Others(current'.handle) # {}
    BY <1>4, <2>1, NoneAssumption DEF ApplyUnload, Unloadable
  <2>4. Applying' /\ SceneInv'
    BY <1>a, <1>4, <2>3
    DEF ApplyUnload, Applying, SceneInv, ActiveIsLoaded, NodesInLiveScenes, UnloadInv,
        Live, Left, Replaced, Unloading, ReplacingAll, Others, set_vars, late_vars
  <2> QED
    BY <2>2, <2>4 DEF IInv
<1>5. CASE DestroyUnloaded
  <2>1. /\ Unloading /\ Unloading' /\ current' = current /\ scenes' = scenes
        /\ populated' = populated \ {current.handle} /\ pc' \in {"active_changed", "unloaded"}
        /\ pc = "unloading" /\ UNCHANGED <<queue_vars, operations, waiting, settled, late_vars>>
    BY <1>5 DEF DestroyUnloaded, Unloading
  <2>2. active' # current.handle /\ active' \in (scenes \ {Persistent}) \cup reactivated
    BY <1>a, <1>5 DEF DestroyUnloaded, Others, SceneInv, ActiveIsLoaded
  <2>a. active' \in Handle
    BY <1>a, <1>5 DEF DestroyUnloaded, Others, TypeOK
  <2>3. TypeOK' /\ HandlesReserved'
    BY <1>a, <2>1, <2>a DEF TypeOK, HandlesReserved, late_vars, queue_vars
  <2>4. ~ReplacingAll /\ ~ReplacingAll'
    BY <2>1 DEF Unloading, ReplacingAll
  <2>5. Applying'
    BY <2>1, <2>4 DEF Applying
  <2>6. UnloadInv'
    BY <1>a, <2>1, <2>2 DEF SceneInv, UnloadInv, Others
  <2>7. Left = {} /\ Left' = {current.handle} /\ Replaced = {} /\ Replaced' = {}
    BY <2>1, <2>4 DEF Left, Replaced
  <2>8. ActiveIsLoaded' /\ NodesInLiveScenes'
    BY <1>a, <2>1, <2>2, <2>7
    DEF SceneInv, ActiveIsLoaded, NodesInLiveScenes, Live, late_vars
  <2> QED
    BY <2>3, <2>5, <2>6, <2>8 DEF IInv, SceneInv
<1>6. CASE AnnounceUnloaded
  BY <1>a, <1>6
  DEF AnnounceUnloaded, IInv, TypeOK, HandlesReserved, late_vars, Applying, SceneInv, ActiveIsLoaded,
      NodesInLiveScenes, UnloadInv, Live, Left, Replaced, Unloading,
      ReplacingAll, Others, set_vars, late_vars, queue_vars
<1>7. CASE EraseUnloaded
  <2>1. current.id \in Id
    BY <1>a, <1>7 DEF EraseUnloaded, Unloading, TypeOK, Operation, Load, Unload
  <2>2. /\ Others(current.handle) # {}
        /\ active # current.handle \/ current.handle \in reactivated
    BY <1>a, <1>7 DEF EraseUnloaded, SceneInv, UnloadInv
  <2>3. TypeOK' /\ HandlesReserved'
    BY <1>a, <1>7, <2>1 DEF EraseUnloaded, Settle, TypeOK, HandlesReserved, late_vars, queue_vars
  <2>4. Applying' /\ UnloadInv'
    BY <1>7 DEF EraseUnloaded, Settle, Applying, UnloadInv, Unloading
  <2>5. Left = {current.handle} /\ Replaced = {} /\ Left' = {} /\ Replaced' = {}
    BY <1>7 DEF EraseUnloaded, Settle, Left, Replaced, Unloading, ReplacingAll
  <2>6. ActiveIsLoaded' /\ NodesInLiveScenes'
    BY <1>a, <1>7, <2>2, <2>5
    DEF EraseUnloaded, SceneInv, ActiveIsLoaded, NodesInLiveScenes, Live, Others, late_vars
  <2> QED
    BY <2>3, <2>4, <2>6 DEF IInv, SceneInv
<1>8. CASE UpdateAsyncLoads
  <2>1. TypeOK' /\ HandlesReserved'
    BY <1>a, <1>8, PolledLoads DEF UpdateAsyncLoads, TypeOK, HandlesReserved, late_vars, set_vars
  <2>2. Applying' /\ SceneInv'
    BY <1>a, <1>8
    DEF UpdateAsyncLoads, Applying, SceneInv, ActiveIsLoaded, NodesInLiveScenes, UnloadInv,
        Live, Left, Replaced, Unloading, ReplacingAll, Others, set_vars, late_vars
  <2> QED
    BY <2>1, <2>2 DEF IInv
<1>9. CASE DropFailed
  <2>1. Front.operation.id \in Id /\ Tail(async_loads) \in Seq(AsyncLoad)
    BY <1>a, <1>9, FrontLoad DEF DropFailed, Load
  <2>2. TypeOK' /\ HandlesReserved'
    BY <1>a, <1>9, <2>1 DEF DropFailed, TypeOK, HandlesReserved, late_vars, set_vars
  <2> QED
    BY <1>9, <2>2, QueueStep DEF IInv, DropFailed
<1>10. CASE ActivateFront
  <2>1. Front.operation \in Load /\ Tail(async_loads) \in Seq(AsyncLoad)
    BY <1>a, <1>10, FrontLoad DEF ActivateFront
  <2>2. /\ Applying' /\ SceneInv' /\ current' \in Operation
        /\ pc' \in ScriptPoint \cup {"apply", "finish", "list"}
    BY <1>10, <2>1, BeginStep DEF ActivateFront
  <2>3. TypeOK' /\ HandlesReserved'
    BY <1>a, <1>10, <2>1, <2>2 DEF ActivateFront, TypeOK, HandlesReserved, late_vars, set_vars
  <2> QED
    BY <2>2, <2>3 DEF IInv
<1>11. CASE FinishEnds
  BY <1>a, <1>11
  DEF FinishEnds, IInv, TypeOK, HandlesReserved, late_vars, Applying, SceneInv, ActiveIsLoaded,
      NodesInLiveScenes, UnloadInv, Live, Left, Replaced, Unloading,
      ReplacingAll, Others, set_vars, late_vars, queue_vars
<1>12. CASE ResumeLoad
  <2>1. waiting \in Load /\ waiting.id \in Id
    <3>1. waiting \in Load
      BY <1>a, <1>12 DEF ResumeLoad, Forced, TypeOK
    <3> QED
      BY <3>1 DEF Load
  <2>2. UNCHANGED <<set_vars, queue_vars, operations, late_vars>> /\ waiting' = None
    BY <1>12 DEF ResumeLoad
  <2>3. CASE Begin(waiting) /\ UNCHANGED settled
    <3>1. /\ Applying' /\ SceneInv' /\ current' \in Operation
          /\ pc' \in ScriptPoint \cup {"apply", "finish", "list"}
      BY <2>1, <2>2, <2>3, BeginStep
    <3>2. TypeOK' /\ HandlesReserved'
      BY <1>a, <2>2, <2>3, <3>1 DEF TypeOK, HandlesReserved, late_vars, set_vars, queue_vars
    <3> QED
      BY <3>1, <3>2 DEF IInv
  <2>4. CASE Settle(waiting, "apply")
    <3>1. TypeOK' /\ HandlesReserved'
      BY <1>a, <2>1, <2>2, <2>4 DEF Settle, TypeOK, HandlesReserved, late_vars, set_vars, queue_vars
    <3>2. Applying' /\ SceneInv'
      BY <1>a, <1>12, <2>2, <2>4
      DEF ResumeLoad, Settle, Applying, SceneInv, ActiveIsLoaded, NodesInLiveScenes, UnloadInv,
          Live, Left, Replaced, Unloading, ReplacingAll, Others, set_vars, late_vars
    <3> QED
      BY <3>1, <3>2 DEF IInv
  <2> QED
    BY <1>12, <2>3, <2>4 DEF ResumeLoad
<1>13. CASE DestroyAll
  <2>1. TypeOK' /\ HandlesReserved'
    BY <1>a, <1>13 DEF DestroyAll, TypeOK, HandlesReserved, late_vars, queue_vars
  <2>2. /\ ~Unloading /\ ~Unloading' /\ ReplacingAll' /\ Left = {} /\ Left' = {}
        /\ Replaced = {} /\ Replaced' = scenes \ {Persistent}
    BY <1>13 DEF DestroyAll, Left, Replaced, Unloading, ReplacingAll
  <2>3. Applying' /\ SceneInv'
    BY <1>a, <1>13, <2>2
    DEF DestroyAll, Applying, SceneInv, ActiveIsLoaded, NodesInLiveScenes, UnloadInv, Live, late_vars
  <2> QED
    BY <2>1, <2>3 DEF IInv
<1>14. CASE ListLoaded
  <2>1. current \in Load /\ current # None /\ current.kind # "unload"
    BY <1>a, <1>14
    DEF ListLoaded, Applying, ReplacingAll, TypeOK, Operation, Load, Unload
  <2>2. current.handle \in Handle /\ current.handle # Persistent
    BY <2>1, HandlesAssumption DEF Load, Handle
  <2>3. /\ scenes' = {current.handle} \cup (IF ReplacingAll THEN scenes \cap {Persistent} ELSE scenes)
        /\ populated' = populated \cup {current.handle} /\ current' = current
        /\ UNCHANGED <<queue_vars, operations, waiting, settled, late_vars>>
    BY <1>14 DEF ListLoaded
  <2>4. pc' \in {"active_changed", "loaded"} /\ active' \in {active, current.handle}
    BY <1>14 DEF ListLoaded
  <2>5. TypeOK' /\ HandlesReserved'
    BY <1>a, <2>2, <2>3, <2>4 DEF TypeOK, HandlesReserved, late_vars, queue_vars
  <2>6. /\ ~Unloading /\ ~Unloading' /\ ReplacingAll' = ReplacingAll
        /\ Left = {} /\ Left' = {} /\ Replaced' = {}
    BY <2>1, <2>3, <2>4 DEF Left, Replaced, Unloading, ReplacingAll
  <2>7. Applying' /\ UnloadInv'
    BY <1>14, <2>1, <2>3, <2>4, <2>6 DEF ListLoaded, Applying, UnloadInv
  <2>8. CASE ReplacingAll
    <3>1. pc = "unloaded" /\ active' = current.handle
      BY <1>a, <1>14, <2>8 DEF ListLoaded, Applying, ReplacingAll
    <3>2. populated \subseteq ({Persistent} \cap scenes) \cup strays
      BY <1>a, <2>6, <2>8, <3>1 DEF SceneInv, NodesInLiveScenes, Live, Replaced
    <3> QED
      BY <2>2, <2>3, <2>5, <2>6, <2>7, <2>8, <3>1, <3>2
      DEF IInv, SceneInv, ActiveIsLoaded, NodesInLiveScenes, Live, late_vars
  <2>9. CASE ~ReplacingAll
    <3>1. active' = active /\ Replaced = {}
      BY <1>14, <2>6, <2>9 DEF ListLoaded, Replaced
    <3> QED
      BY <1>a, <2>2, <2>3, <2>5, <2>6, <2>7, <2>9, <3>1
      DEF IInv, SceneInv, ActiveIsLoaded, NodesInLiveScenes, Live, late_vars
  <2> QED
    BY <2>8, <2>9
<1>15. CASE AnnounceLoaded
  BY <1>a, <1>15
  DEF AnnounceLoaded, IInv, TypeOK, HandlesReserved, late_vars, Applying, SceneInv, ActiveIsLoaded,
      NodesInLiveScenes, UnloadInv, Live, Left, Replaced, Unloading,
      ReplacingAll, Others, set_vars, late_vars, queue_vars
<1>16. CASE ActivationEnds
  <2>1. current.id \in Id
    BY <1>a, <1>16 DEF ActivationEnds, Applying, TypeOK, Operation, Load, Unload
  <2>2. TypeOK' /\ HandlesReserved'
    BY <1>a, <1>16, <2>1 DEF ActivationEnds, Settle, TypeOK, HandlesReserved, late_vars, set_vars, queue_vars
  <2>3. Applying' /\ SceneInv'
    BY <1>a, <1>16
    DEF ActivationEnds, Settle, Applying, SceneInv, ActiveIsLoaded, NodesInLiveScenes, UnloadInv,
        Live, Left, Replaced, Unloading, ReplacingAll, Others, set_vars, late_vars
  <2> QED
    BY <2>2, <2>3 DEF IInv
<1> QED
  BY <1>1, <1>2, <1>3, <1>4, <1>5, <1>6, <1>7, <1>8, <1>9, <1>10, <1>11, <1>12, <1>13, <1>14,
     <1>15, <1>16 DEF ModuleStep

LEMMA StutterStep ==
  ASSUME IInv, UNCHANGED vars
  PROVE  IInv'
<1>1. TypeOK' /\ HandlesReserved'
  BY DEF IInv, TypeOK, HandlesReserved, vars, set_vars, queue_vars, apply_vars, late_vars
<1> QED
  BY <1>1, QueueStep DEF IInv, vars, apply_vars

-----------------------------------------------------------------------------
(* Every state of the scenes module satisfies the invariant.                *)
THEOREM Invariance == Spec => []IInv
<1>1. Init => IInv
  BY InitInv
<1>2. IInv /\ [Next]_vars => IInv'
  BY CallStep, BackgroundStep, ModuleStepInv, StutterStep DEF Next
<1> QED
  BY <1>1, <1>2, PTL DEF Spec

(* The queues and the set of scenes are always well formed.                 *)
THEOREM TypeCorrect == Spec => []TypeOK
BY Invariance, PTL DEF IInv

(* The scene that new nodes join is a loaded one, and a scene stays loaded, *)
(* for every number of loads and unloads in any order and whatever handlers *)
(* do, unless one activates again the scene that an unload has just left.   *)
THEOREM ActiveStaysLoaded == Spec => []ActiveIsLoaded
BY Invariance, PTL DEF IInv, SceneInv

(* No node outlives the scene it belongs to, but in scenes where scripts put *)
(* one after the module had destroyed those it had.                         *)
THEOREM NoOrphans == Spec => []NodesInLiveScenes
BY Invariance, PTL DEF IInv, SceneInv

-----------------------------------------------------------------------------
(* Where every operation is.  The numbers in a queue grow towards its end;  *)
(* the queues, the two hands and the settled ones have no number in common  *)
(* and together hold those that were issued.                                *)
Hand(operation) == IF operation = None THEN {} ELSE {operation.id}

Sorted ==
  /\ \A i, j \in DOMAIN pending : i < j => pending[i].id < pending[j].id
  /\ \A i, j \in DOMAIN operations : i < j => operations[i].id < operations[j].id
  /\ \A i, j \in DOMAIN async_loads :
       i < j => async_loads[i].operation.id < async_loads[j].operation.id

Placed(p, o, a, w, c, s, all) ==
  /\ p \cup o \cup a \cup w \cup c \cup s = all
  /\ p \cap (o \cup a \cup w \cup c \cup s) = {}
  /\ o \cap (a \cup w \cup c \cup s) = {}
  /\ a \cap (w \cup c \cup s) = {}
  /\ w \cap (c \cup s) = {} /\ c \cap s = {}

Issued == 1..(next_id - 1)
EachInOnePlace ==
  Placed(Ids(pending), Ids(operations), AsyncIds, Hand(waiting), Hand(current), settled, Issued)

(* Which places are empty, by where the main thread is: nothing that is     *)
(* still held is overwritten.                                               *)
Emptied ==
  /\ pc \in {"update", "apply", "finish"} => current = None
  /\ pc \in {"update", "apply"} \/ (current # None /\ current.kind # "load_async") => waiting = None
  /\ pc = "update" \/ (waiting = None /\ (pc = "finish" \/ (current # None /\ current.kind = "load_async")))
       => operations = <<>>
  /\ waiting # None => waiting.kind = "load"
  /\ \A i \in DOMAIN async_loads : async_loads[i].operation.kind = "load_async"

(* The part of LoadsInOrder that is about asynchronous loads.               *)
AsyncBehind == current # None /\ current.kind # "unload" => \A id \in AsyncIds : current.id < id

PlaceInv == Sorted /\ EachInOnePlace /\ Emptied /\ AsyncBehind

(* What the type invariant says of the queues.                              *)
Queues ==
  /\ pending \in Seq(Operation) /\ operations \in Seq(Operation) /\ async_loads \in Seq(AsyncLoad)
  /\ \A i \in DOMAIN pending : pending[i].id \in Nat
  /\ \A i \in DOMAIN operations : operations[i].id \in Nat
  /\ \A i \in DOMAIN async_loads : async_loads[i].operation.id \in Nat /\ async_loads[i].operation # None
  /\ waiting # None => waiting.id \in Nat
  /\ current # None => current.id \in Nat
  /\ next_id \in Nat \ {0}
  /\ \A i \in DOMAIN operations : operations[i] # None

(* The type invariant implies it.                                           *)
LEMMA QueueTypes == TypeOK => Queues
<1> SUFFICES ASSUME TypeOK PROVE Queues
  OBVIOUS
<1>1. \A op \in Operation : op.id \in Nat /\ op # None
  BY NoneAssumption DEF Operation, Load, Unload, Id
<1>2. \A load \in AsyncLoad : load.operation \in Operation
  BY DEF AsyncLoad, Operation
<1>3. /\ pending \in Seq(Operation) /\ operations \in Seq(Operation) /\ async_loads \in Seq(AsyncLoad)
      /\ waiting \in Operation \cup {None} /\ current \in Operation \cup {None}
  BY DEF TypeOK, Operation
<1>4. next_id \in Nat \ {0}
  BY BoundAssumption DEF TypeOK
<1> HIDE DEF Operation, AsyncLoad
<1>5. /\ \A i \in DOMAIN pending : pending[i] \in Operation
      /\ \A i \in DOMAIN operations : operations[i] \in Operation
      /\ \A i \in DOMAIN async_loads : async_loads[i] \in AsyncLoad
  BY <1>3
<1>6. /\ \A i \in DOMAIN pending : pending[i].id \in Nat
      /\ \A i \in DOMAIN operations : operations[i].id \in Nat /\ operations[i] # None
      /\ \A i \in DOMAIN async_loads : async_loads[i].operation.id \in Nat /\ async_loads[i].operation # None
  BY <1>1, <1>2, <1>5
<1>7. (waiting # None => waiting.id \in Nat) /\ (current # None => current.id \in Nat)
  BY <1>1, <1>3
<1> QED
  BY <1>3, <1>4, <1>6, <1>7 DEF Queues

(* Appending an operation with the next number.                             *)
LEMMA AppendIds ==
  ASSUME NEW T, NEW q \in Seq(T), NEW x
  PROVE  /\ Ids(Append(q, x)) = Ids(q) \cup {x.id}
         /\ (\A i, j \in DOMAIN q : i < j => q[i].id < q[j].id)
              /\ (\A i \in DOMAIN q : q[i].id < x.id)
            => \A i, j \in DOMAIN Append(q, x) :
                 i < j => Append(q, x)[i].id < Append(q, x)[j].id
<1> DEFINE r == Append(q, x)
<1>1. /\ Len(q) \in Nat /\ DOMAIN q = 1..Len(q) /\ DOMAIN r = 1..(Len(q) + 1)
      /\ r[Len(q) + 1] = x /\ \A i \in 1..Len(q) : r[i] = q[i]
  OBVIOUS
<1> HIDE DEF r
<1>2. \A i \in DOMAIN r : (i \in DOMAIN q /\ r[i] = q[i]) \/ (i = Len(q) + 1 /\ r[i] = x)
  BY <1>1
<1>3. Ids(r) = Ids(q) \cup {x.id}
  BY <1>1, <1>2 DEF Ids
<1>4. \A i, j \in DOMAIN r : i < j => i \in DOMAIN q /\ r[i] = q[i]
  BY <1>1
<1> QED
  BY <1>2, <1>3, <1>4 DEF r

(* Taking the first one away.                                               *)
LEMMA TailIds ==
  ASSUME NEW T, NEW q \in Seq(T), q # <<>>,
         \A i \in DOMAIN q : q[i].id \in Nat,
         \A i, j \in DOMAIN q : i < j => q[i].id < q[j].id
  PROVE  /\ Head(q).id \in Ids(q) /\ Ids(Tail(q)) = Ids(q) \ {Head(q).id}
         /\ \A i, j \in DOMAIN Tail(q) : i < j => Tail(q)[i].id < Tail(q)[j].id
<1> DEFINE r == Tail(q)
<1>1. /\ Len(q) \in Nat \ {0} /\ DOMAIN q = 1..Len(q) /\ Head(q) = q[1] /\ DOMAIN r = 1..(Len(q) - 1)
      /\ \A i \in 1..(Len(q) - 1) : r[i] = q[i + 1]
  OBVIOUS
<1> HIDE DEF r
<1>2. Head(q).id \in Ids(q)
  BY <1>1 DEF Ids
<1>3. \A i \in DOMAIN r : i + 1 \in DOMAIN q /\ r[i] = q[i + 1] /\ q[1].id < q[i + 1].id
  BY <1>1
<1>4. Ids(r) \subseteq Ids(q) \ {q[1].id}
  BY <1>1, <1>3 DEF Ids
<1>5. ASSUME NEW i \in DOMAIN q, q[i].id # q[1].id PROVE q[i].id \in Ids(r)
  <2>1. i - 1 \in DOMAIN r /\ r[i - 1] = q[i]
    BY <1>1, <1>5
  <2> QED
    BY <2>1 DEF Ids
<1>6. \A i, j \in DOMAIN r : i < j => r[i].id < r[j].id
  BY <1>1, <1>3
<1>7. Ids(q) \ {q[1].id} \subseteq Ids(r)
  BY <1>5 DEF Ids
<1>8. Ids(r) = Ids(q) \ {Head(q).id}
  BY <1>1, <1>4, <1>7
<1> QED
  BY <1>2, <1>6, <1>8 DEF r

(* An asynchronous load is started with the next number.                    *)
LEMMA AppendAsyncIds ==
  ASSUME Queues, NEW load, async_loads' = Append(async_loads, load), Sorted,
         \A i \in DOMAIN async_loads : async_loads[i].operation.id < load.operation.id
  PROVE  /\ AsyncIds' = AsyncIds \cup {load.operation.id}
         /\ \A i, j \in DOMAIN async_loads' :
              i < j => async_loads'[i].operation.id < async_loads'[j].operation.id
         /\ \A i \in DOMAIN async_loads' :
              \/ i \in DOMAIN async_loads /\ async_loads'[i] = async_loads[i]
              \/ async_loads'[i] = load
<1>1. /\ Len(async_loads) \in Nat /\ DOMAIN async_loads = 1..Len(async_loads)
      /\ DOMAIN async_loads' = 1..(Len(async_loads) + 1)
      /\ async_loads'[Len(async_loads) + 1] = load
      /\ \A i \in 1..Len(async_loads) : async_loads'[i] = async_loads[i]
  BY DEF Queues
<1>2. \A i \in DOMAIN async_loads' :
        \/ i \in DOMAIN async_loads /\ async_loads'[i] = async_loads[i]
        \/ i = Len(async_loads) + 1 /\ async_loads'[i] = load
  BY <1>1
<1>3. AsyncIds' = AsyncIds \cup {load.operation.id}
  BY <1>1, <1>2 DEF AsyncIds
<1>4. \A i, j \in DOMAIN async_loads' : i < j => i \in DOMAIN async_loads /\ async_loads'[i] = async_loads[i]
  BY <1>1
<1> QED
  BY <1>2, <1>3, <1>4 DEF Sorted

(* The front one leaves, whose number is the smallest.                      *)
LEMMA TailAsyncIds ==
  ASSUME Queues, Sorted, async_loads # <<>>, async_loads' = Tail(async_loads)
  PROVE  /\ Front.operation.id \in AsyncIds /\ AsyncIds' = AsyncIds \ {Front.operation.id}
         /\ \A id \in AsyncIds' : Front.operation.id < id
         /\ \A i, j \in DOMAIN async_loads' :
              i < j => async_loads'[i].operation.id < async_loads'[j].operation.id
         /\ \A i \in DOMAIN async_loads' : \E j \in DOMAIN async_loads : async_loads'[i] = async_loads[j]
         /\ Front.operation # None /\ Front.operation.id \in Nat
         /\ \E j \in DOMAIN async_loads : Front = async_loads[j]
<1>1. /\ Len(async_loads) \in Nat \ {0} /\ DOMAIN async_loads = 1..Len(async_loads)
      /\ DOMAIN async_loads' = 1..(Len(async_loads) - 1)
      /\ \A i \in 1..(Len(async_loads) - 1) : async_loads'[i] = async_loads[i + 1]
  BY DEF Queues
<1>2. 1 \in DOMAIN async_loads /\ Front = async_loads[1]
  BY <1>1 DEF Front
<1>3. \A i \in DOMAIN async_loads' :
        /\ i + 1 \in DOMAIN async_loads /\ async_loads'[i] = async_loads[i + 1]
        /\ Front.operation.id < async_loads[i + 1].operation.id
  BY <1>1, <1>2 DEF Sorted
<1>4. \A id \in AsyncIds' : id \in AsyncIds /\ Front.operation.id < id
  BY <1>3 DEF AsyncIds
<1>5. ASSUME NEW i \in DOMAIN async_loads, async_loads[i].operation.id # Front.operation.id
      PROVE  async_loads[i].operation.id \in AsyncIds'
  <2>1. i - 1 \in DOMAIN async_loads' /\ async_loads'[i - 1] = async_loads[i]
    BY <1>1, <1>2, <1>5
  <2> QED
    BY <2>1 DEF AsyncIds
<1>6. Front.operation.id \in AsyncIds /\ Front.operation # None /\ Front.operation.id \in Nat
  BY <1>2 DEF AsyncIds, Queues
<1>7. AsyncIds' = AsyncIds \ {Front.operation.id}
  <2>1. AsyncIds' \subseteq AsyncIds \ {Front.operation.id}
    BY <1>4, <1>6
  <2>2. AsyncIds \ {Front.operation.id} \subseteq AsyncIds'
    BY <1>5 DEF AsyncIds
  <2> QED
    BY <2>1, <2>2
<1>8. \A i, j \in DOMAIN async_loads' : i < j => async_loads'[i].operation.id < async_loads'[j].operation.id
  BY <1>1, <1>3 DEF Sorted
<1> QED
  BY <1>2, <1>3, <1>4, <1>6, <1>7, <1>8
(* The numbers in any place were issued.                                    *)
LEMMA IdsIssued ==
  ASSUME Queues, EachInOnePlace
  PROVE  /\ \A i \in DOMAIN pending : pending[i].id < next_id
         /\ \A i \in DOMAIN operations : operations[i].id < next_id
         /\ \A i \in DOMAIN async_loads : async_loads[i].operation.id < next_id
         /\ waiting # None => waiting.id < next_id
         /\ current # None => current.id < next_id
         /\ next_id \notin Issued
<1>1. \A id \in Issued : id < next_id
  BY DEF Issued, Queues
<1>2. /\ Ids(pending) \subseteq Issued /\ Ids(operations) \subseteq Issued /\ AsyncIds \subseteq Issued
      /\ Hand(waiting) \subseteq Issued /\ Hand(current) \subseteq Issued
  BY DEF EachInOnePlace, Placed
<1>3. /\ \A i \in DOMAIN pending : pending[i].id < next_id
      /\ \A i \in DOMAIN operations : operations[i].id < next_id
      /\ \A i \in DOMAIN async_loads : async_loads[i].operation.id < next_id
  BY <1>1, <1>2 DEF Ids, AsyncIds
<1>4. (waiting # None => waiting.id < next_id) /\ (current # None => current.id < next_id)
  BY <1>1, <1>2 DEF Hand
<1>5. next_id \notin Issued
  BY DEF Issued, Queues
<1> QED
  BY <1>3, <1>4, <1>5

(* With a new number there is one more to place.                            *)
LEMMA IssuedGrows ==
  ASSUME Queues, next_id' = next_id + 1
  PROVE  Issued' = Issued \cup {next_id}
BY DEF Queues, Issued

(* A queued operation is behind those that wait already.                    *)
LEMMA QueuedPlaces ==
  ASSUME Queues, PlaceInv, NEW op, op.id = next_id,
         pending' = Append(pending, op), next_id' = next_id + 1,
         UNCHANGED <<async_loads, apply_vars>>
  PROVE  PlaceInv'
<1>1. /\ Ids(pending)' = Ids(pending) \cup {next_id}
      /\ \A i, j \in DOMAIN pending' : i < j => pending'[i].id < pending'[j].id
  BY AppendIds, IdsIssued DEF PlaceInv, Sorted, Queues
<1>2. Sorted'
  BY <1>1 DEF PlaceInv, Sorted, apply_vars
<1>3. next_id \notin Issued /\ Issued' = Issued \cup {next_id}
  BY IdsIssued, IssuedGrows DEF PlaceInv
<1>4. /\ Ids(operations)' = Ids(operations) /\ AsyncIds' = AsyncIds /\ Hand(waiting)' = Hand(waiting)
      /\ Hand(current)' = Hand(current) /\ settled' = settled
  BY DEF apply_vars, Ids, AsyncIds, Hand
<1>5. EachInOnePlace'
  BY <1>1, <1>3, <1>4 DEF PlaceInv, EachInOnePlace, Placed
<1>6. Emptied' /\ AsyncBehind'
  BY <1>4 DEF PlaceInv, Emptied, AsyncBehind, apply_vars
<1> QED
  BY <1>2, <1>5, <1>6 DEF PlaceInv

(* An asynchronous load is behind those that run, and has a greater number  *)
(* than the one being activated; if it is rejected it is settled at once.   *)
LEMMA StartedPlaces ==
  ASSUME Queues, PlaceInv,
         NEW loadable \in BOOLEAN, NEW mode \in {"single", "additive"}, LoadSceneAsync(mode, loadable)
  PROVE  PlaceInv'
<1> DEFINE load == NewAsyncLoad(NewLoad("load_async", mode, loadable))
<1>1. /\ next_id' = next_id + 1 /\ UNCHANGED <<pending, pc, operations, waiting, current>>
      /\ IF loadable THEN async_loads' = Append(async_loads, load) /\ settled' = settled
                     ELSE settled' = settled \cup {next_id} /\ async_loads' = async_loads
  BY DEF LoadSceneAsync, Issue
<1>2. load.operation.id = next_id /\ load.operation.kind = "load_async"
  BY DEF NewAsyncLoad, NewLoad
<1> HIDE DEF load
<1>3. next_id \notin Issued /\ Issued' = Issued \cup {next_id}
  BY <1>1, IdsIssued, IssuedGrows DEF PlaceInv
<1>4. /\ Ids(operations)' = Ids(operations) /\ Ids(pending)' = Ids(pending)
      /\ Hand(waiting)' = Hand(waiting) /\ Hand(current)' = Hand(current)
  BY <1>1 DEF Ids, Hand
<1>5. CASE loadable
  <2>1. async_loads' = Append(async_loads, load) /\ settled' = settled
    BY <1>1, <1>5
  <2>2. /\ AsyncIds' = AsyncIds \cup {next_id}
        /\ \A i, j \in DOMAIN async_loads' :
             i < j => async_loads'[i].operation.id < async_loads'[j].operation.id
        /\ \A i \in DOMAIN async_loads' : async_loads'[i].operation.kind = "load_async"
    BY <2>1, <1>2, AppendAsyncIds, IdsIssued DEF PlaceInv, Emptied
  <2>3. Sorted'
    BY <1>1, <2>2 DEF PlaceInv, Sorted
  <2>4. EachInOnePlace'
    BY <1>3, <1>4, <2>1, <2>2 DEF PlaceInv, EachInOnePlace, Placed
  <2>5. Emptied'
    BY <1>1, <2>2 DEF PlaceInv, Emptied
  <2>6. AsyncBehind'
    BY <1>1, <2>2, IdsIssued DEF PlaceInv, AsyncBehind
  <2> QED
    BY <2>3, <2>4, <2>5, <2>6 DEF PlaceInv
<1>6. CASE ~loadable
  <2>1. async_loads' = async_loads /\ settled' = settled \cup {next_id} /\ AsyncIds' = AsyncIds
    BY <1>1, <1>6 DEF AsyncIds
  <2>2. Sorted' /\ Emptied' /\ AsyncBehind'
    BY <1>1, <2>1 DEF PlaceInv, Sorted, Emptied, AsyncBehind
  <2>3. EachInOnePlace'
    BY <1>3, <1>4, <2>1 DEF PlaceInv, EachInOnePlace, Placed
  <2> QED
    BY <2>2, <2>3 DEF PlaceInv
<1> QED
  BY <1>5, <1>6

(* Steps that change of the asynchronous loads only how far they are.       *)
LEMMA ProgressPlaces ==
  ASSUME PlaceInv, UNCHANGED <<pending, next_id, operations, waiting, current, settled>>,
         DOMAIN async_loads' = DOMAIN async_loads,
         \A i \in DOMAIN async_loads : async_loads'[i].operation = async_loads[i].operation,
         Emptied'
  PROVE  PlaceInv'
<1>1. AsyncIds' = AsyncIds
  BY DEF AsyncIds
<1>2. Sorted'
  BY DEF PlaceInv, Sorted
<1>3. EachInOnePlace'
  BY <1>1 DEF PlaceInv, EachInOnePlace, Issued, Ids, Hand
<1>4. AsyncBehind'
  BY <1>1 DEF PlaceInv, AsyncBehind
<1> QED
  BY <1>2, <1>3, <1>4 DEF PlaceInv

(* Calls from scripts keep every operation in one place.                    *)
LEMMA CallPlaces == TypeOK /\ PlaceInv /\ ScriptCall => PlaceInv'
<1> SUFFICES ASSUME TypeOK, PlaceInv, ScriptCall PROVE PlaceInv'
  OBVIOUS
<1>0. Queues
  BY QueueTypes
<1>1. ASSUME NEW loadable \in BOOLEAN, NEW mode \in {"single", "additive"}, LoadScene(mode, loadable)
      PROVE  PlaceInv'
  BY <1>0, <1>1, QueuedPlaces DEF LoadScene, Issue, NewLoad
<1>2. ASSUME NEW handle, UnloadScene(handle) PROVE PlaceInv'
  BY <1>0, <1>2, QueuedPlaces DEF UnloadScene, Issue
<1>3. ASSUME NEW i \in DOMAIN async_loads, NEW allow, SetAllowSceneActivation(i, allow) PROVE PlaceInv'
  <2>1. /\ DOMAIN async_loads' = DOMAIN async_loads
        /\ \A j \in DOMAIN async_loads : async_loads'[j].operation = async_loads[j].operation
    <3>1. async_loads' = [async_loads EXCEPT ![i] = [async_loads[i] EXCEPT !.allow = allow]]
      BY <1>3 DEF SetAllowSceneActivation
    <3>2. [async_loads[i] EXCEPT !.allow = allow].operation = async_loads[i].operation
      BY <1>0 DEF TypeOK, AsyncLoad
    <3> QED
      BY <3>1, <3>2
  <2>2. UNCHANGED <<pending, next_id, apply_vars>>
    BY <1>3 DEF SetAllowSceneActivation
  <2>3. Emptied'
    BY <2>1, <2>2 DEF PlaceInv, Emptied, apply_vars
  <2> QED
    BY <2>1, <2>2, <2>3, ProgressPlaces DEF apply_vars
<1>4. ASSUME UNCHANGED <<pending, next_id, async_loads, apply_vars>> PROVE PlaceInv'
  <2>1. Emptied'
    BY <1>4 DEF PlaceInv, Emptied, apply_vars
  <2> QED
    BY <1>4, <2>1, ProgressPlaces DEF apply_vars
<1>5. ASSUME NEW handle, SetActiveScene(handle) \/ CreateNode \/ DontDestroyOnLoad \/ MoveNodeToScene(handle)
      PROVE  PlaceInv'
  BY <1>4, <1>5 DEF SetActiveScene, CreateNode, DontDestroyOnLoad, MoveNodeToScene, queue_vars
<1> QED
  BY <1>1, <1>2, <1>3, <1>5, StartedPlaces, <1>0 DEF ScriptCall
(* So does the background.                                                  *)
LEMMA BackgroundPlaces == TypeOK /\ PlaceInv /\ (Parse \/ LoadAssets \/ Reimport) => PlaceInv'
<1> SUFFICES ASSUME TypeOK, PlaceInv, Parse \/ LoadAssets \/ Reimport PROVE PlaceInv'
  OBVIOUS
<1>1. ASSUME NEW i \in DOMAIN async_loads, NEW result, ParseEnds(i, result) PROVE PlaceInv'
  <2>1. /\ DOMAIN async_loads' = DOMAIN async_loads
        /\ \A j \in DOMAIN async_loads : async_loads'[j].operation = async_loads[j].operation
    <3>1. async_loads' = [async_loads EXCEPT ![i] = [async_loads[i] EXCEPT !.parse = result]]
      BY <1>1 DEF ParseEnds
    <3>2. [async_loads[i] EXCEPT !.parse = result].operation = async_loads[i].operation
      BY DEF TypeOK, AsyncLoad
    <3> QED
      BY <3>1, <3>2
  <2>2. UNCHANGED <<pending, next_id, apply_vars>>
    BY <1>1 DEF ParseEnds
  <2>3. Emptied'
    BY <2>1, <2>2 DEF PlaceInv, Emptied, apply_vars
  <2> QED
    BY <2>1, <2>2, <2>3, ProgressPlaces DEF apply_vars
<1>2. ASSUME NEW i \in DOMAIN async_loads, NEW result,
             AssetsEnd(i, result) \/ (AssetReimported(i) /\ result = "loaded")
      PROVE  PlaceInv'
  <2>1. /\ DOMAIN async_loads' = DOMAIN async_loads
        /\ \A j \in DOMAIN async_loads : async_loads'[j].operation = async_loads[j].operation
    <3>1. async_loads' = [async_loads EXCEPT ![i] = [async_loads[i] EXCEPT !.assets = result]]
      BY <1>2 DEF AssetsEnd, AssetReimported
    <3>2. [async_loads[i] EXCEPT !.assets = result].operation = async_loads[i].operation
      BY DEF TypeOK, AsyncLoad
    <3> QED
      BY <3>1, <3>2
  <2>2. UNCHANGED <<pending, next_id, apply_vars>>
    BY <1>2 DEF AssetsEnd, AssetReimported
  <2>3. Emptied'
    BY <2>1, <2>2 DEF PlaceInv, Emptied, apply_vars
  <2> QED
    BY <2>1, <2>2, <2>3, ProgressPlaces DEF apply_vars
<1> QED
  BY <1>1, <1>2 DEF Parse, LoadAssets, Reimport

(* The first operation of the batch leaves it for a hand or is settled.     *)
LEMMA HeadPlaces ==
  ASSUME Queues, PlaceInv, pc = "apply", operations # <<>>, operations' = Tail(operations),
         UNCHANGED queue_vars,
         \/ waiting' = Head(operations) /\ UNCHANGED <<current, settled>>
         \/ current' = Head(operations) /\ UNCHANGED <<waiting, settled>>
         \/ settled' = settled \cup {Head(operations).id} /\ current' = None /\ UNCHANGED waiting
  PROVE  Sorted' /\ EachInOnePlace'
<1>1. /\ Head(operations).id \in Ids(operations)
      /\ Ids(operations)' = Ids(operations) \ {Head(operations).id}
      /\ \A i, j \in DOMAIN operations' : i < j => operations'[i].id < operations'[j].id
  BY TailIds DEF PlaceInv, Sorted, Queues
<1>2. Sorted'
  BY <1>1 DEF PlaceInv, Sorted, queue_vars
<1>3. Ids(pending)' = Ids(pending) /\ AsyncIds' = AsyncIds /\ Issued' = Issued
  BY DEF Ids, AsyncIds, Issued, queue_vars
<1>4. waiting = None /\ current = None /\ Hand(waiting) = {} /\ Hand(current) = {}
  BY DEF PlaceInv, Emptied, Hand
<1>5. Head(operations) # None
  BY DEF Queues
<1>6. \/ Hand(waiting)' = {Head(operations).id} /\ Hand(current)' = {} /\ settled' = settled
      \/ Hand(current)' = {Head(operations).id} /\ Hand(waiting)' = {} /\ settled' = settled
      \/ Hand(current)' = {} /\ Hand(waiting)' = {} /\ settled' = settled \cup {Head(operations).id}
  BY <1>4, <1>5 DEF Hand
<1>7. EachInOnePlace'
  BY <1>1, <1>3, <1>4, <1>6 DEF PlaceInv, EachInOnePlace, Placed
<1> QED
  BY <1>2, <1>7

(* What is in hand is settled, or a load that waited becomes current.       *)
LEMMA HandPlaces ==
  ASSUME PlaceInv, UNCHANGED <<queue_vars, operations>>,
         \/ UNCHANGED <<waiting, current, settled>>
         \/ /\ current # None /\ settled' = settled \cup {current.id}
            /\ current' = None /\ UNCHANGED waiting
         \/ /\ waiting # None /\ current = None /\ waiting' = None
            /\ \/ current' = waiting /\ UNCHANGED settled
               \/ current' = None /\ settled' = settled \cup {waiting.id}
  PROVE  Sorted' /\ EachInOnePlace'
<1>1. Sorted'
  BY DEF PlaceInv, Sorted, queue_vars
<1>2. /\ Ids(pending)' = Ids(pending) /\ AsyncIds' = AsyncIds /\ Issued' = Issued
      /\ Ids(operations)' = Ids(operations)
  BY DEF Ids, AsyncIds, Issued, queue_vars
<1>3. \/ Hand(current)' = Hand(current) /\ Hand(waiting)' = Hand(waiting) /\ settled' = settled
      \/ Hand(current)' = {} /\ Hand(waiting)' = Hand(waiting) /\ settled' = settled \cup Hand(current)
      \/ Hand(current) = {} /\ Hand(current)' = Hand(waiting) /\ Hand(waiting)' = {} /\ settled' = settled
      \/ /\ Hand(current) = {} /\ Hand(current)' = {} /\ Hand(waiting)' = {}
         /\ settled' = settled \cup Hand(waiting)
  BY DEF Hand
<1>4. EachInOnePlace'
  BY <1>2, <1>3 DEF PlaceInv, EachInOnePlace, Placed
<1> QED
  BY <1>1, <1>4

(* And so does every step of the module.                                    *)
LEMMA ModulePlaces == TypeOK /\ Applying /\ PlaceInv /\ ModuleStep => PlaceInv'
<1> SUFFICES ASSUME TypeOK, Applying, PlaceInv, ModuleStep PROVE PlaceInv'
  OBVIOUS
<1>0. Queues
  BY QueueTypes
<1>1. CASE PreUpdate
  <2>1. /\ pc = "update" /\ pc' = "apply" /\ operations' = pending /\ pending' = <<>>
        /\ UNCHANGED <<next_id, async_loads, waiting, current, settled>>
    BY <1>1 DEF PreUpdate
  <2>2. operations = <<>> /\ Ids(operations) = {} /\ Ids(pending)' = {}
    BY <2>1 DEF PlaceInv, Emptied, Ids
  <2>3. /\ Ids(operations)' = Ids(pending) /\ AsyncIds' = AsyncIds /\ Issued' = Issued
        /\ Hand(waiting)' = Hand(waiting) /\ Hand(current)' = Hand(current)
    BY <2>1 DEF Ids, AsyncIds, Issued, Hand
  <2>4. EachInOnePlace'
    BY <2>1, <2>2, <2>3 DEF PlaceInv, EachInOnePlace, Placed
  <2>5. Sorted' /\ Emptied' /\ AsyncBehind'
    BY <2>1 DEF PlaceInv, Sorted, Emptied, AsyncBehind
  <2> QED
    BY <2>4, <2>5 DEF PlaceInv
<1>2. CASE ApplyLoad
  <2>1. Sorted' /\ EachInOnePlace'
    BY <1>0, <1>2, HeadPlaces DEF ApplyLoad
  <2>2. Head(operations) # None /\ Head(operations).kind = "load" /\ current' = None
    BY <1>0, <1>2 DEF ApplyLoad, Queues, PlaceInv, Emptied
  <2>3. Emptied' /\ AsyncBehind'
    BY <1>2, <2>2 DEF ApplyLoad, PlaceInv, Emptied, AsyncBehind, queue_vars
  <2> QED
    BY <2>1, <2>3 DEF PlaceInv
<1>3. CASE RejectUnload
  <2>1. Sorted' /\ EachInOnePlace'
    BY <1>0, <1>3, HeadPlaces DEF RejectUnload, Settle
  <2>2. Emptied' /\ AsyncBehind'
    BY <1>3 DEF RejectUnload, Settle, PlaceInv, Emptied, AsyncBehind, queue_vars
  <2> QED
    BY <2>1, <2>2 DEF PlaceInv
<1>4. CASE ApplyUnload
  <2>1. Sorted' /\ EachInOnePlace'
    BY <1>0, <1>4, HeadPlaces DEF ApplyUnload
  <2>2. Emptied' /\ AsyncBehind'
    BY <1>4 DEF ApplyUnload, PlaceInv, Emptied, AsyncBehind, queue_vars
  <2> QED
    BY <2>1, <2>2 DEF PlaceInv
<1>5. CASE DestroyUnloaded \/ AnnounceUnloaded \/ DestroyAll \/ ListLoaded \/ AnnounceLoaded
  <2>1. /\ UNCHANGED <<queue_vars, operations, waiting, current, settled>>
        /\ pc' \in {"active_changed", "unloaded", "loaded"} /\ current # None
    BY <1>5 DEF DestroyUnloaded, AnnounceUnloaded, DestroyAll, ListLoaded, AnnounceLoaded, Applying,
                Unloading, ReplacingAll
  <2>2. Sorted' /\ EachInOnePlace'
    BY <2>1, HandPlaces
  <2>3. AsyncBehind'
    BY <2>1 DEF PlaceInv, AsyncBehind, AsyncIds, queue_vars
  <2>4. Emptied'
    BY <2>1 DEF PlaceInv, Emptied, queue_vars
  <2> QED
    BY <2>2, <2>3, <2>4 DEF PlaceInv
<1>6. CASE EraseUnloaded \/ ActivationEnds
  <2>1. /\ current # None /\ settled' = settled \cup {current.id} /\ current' = None
        /\ UNCHANGED <<queue_vars, operations, waiting>>
        /\ pc' = "apply" \/ (pc' = "finish" /\ current.kind # "load")
        /\ pc' = "apply" => current.kind # "load_async"
    BY <1>6 DEF EraseUnloaded, ActivationEnds, Settle, Applying, Unloading, TypeOK, Operation, Load, Unload
  <2>2. Sorted' /\ EachInOnePlace'
    BY <2>1, HandPlaces
  <2>3. AsyncBehind'
    BY <2>1 DEF AsyncBehind
  <2>4. Emptied'
    <3>1. pc' = "finish" => current.kind = "load_async"
      BY <1>6 DEF EraseUnloaded, ActivationEnds, Settle, Applying, Unloading, TypeOK, Operation, Load, Unload
    <3> QED
      BY <2>1, <3>1 DEF PlaceInv, Emptied, queue_vars
  <2> QED
    BY <2>2, <2>3, <2>4 DEF PlaceInv
<1>7. CASE UpdateAsyncLoads
  <2>1. /\ async_loads' = [i \in DOMAIN async_loads |-> Polled(async_loads[i])]
        /\ pc = "apply" /\ pc' = "finish" /\ operations = <<>>
        /\ UNCHANGED <<pending, next_id, operations, waiting, current, settled>>
    BY <1>7 DEF UpdateAsyncLoads
  <2>2. \A load \in AsyncLoad : Polled(load).operation = load.operation
    BY DEF Polled, AsyncLoad
  <2>3. /\ DOMAIN async_loads' = DOMAIN async_loads
        /\ \A j \in DOMAIN async_loads : async_loads'[j].operation = async_loads[j].operation
    BY <1>0, <2>1, <2>2 DEF Queues
  <2>4. Emptied'
    BY <2>1, <2>3 DEF PlaceInv, Emptied
  <2> QED
    BY <2>1, <2>3, <2>4, ProgressPlaces
<1>8. CASE DropFailed \/ ActivateFront
  <2>1. /\ pc = "finish" /\ async_loads # <<>> /\ async_loads' = Tail(async_loads)
        /\ UNCHANGED <<pending, next_id, operations, waiting>>
        /\ \/ current' = current /\ settled' = settled \cup {Front.operation.id} /\ pc' = pc
           \/ current' = Front.operation /\ settled' = settled /\ pc' \in {"unloading", "list"}
    BY <1>8 DEF DropFailed, ActivateFront, Begin
  <2>2. /\ Front.operation.id \in AsyncIds /\ AsyncIds' = AsyncIds \ {Front.operation.id}
        /\ \A id \in AsyncIds' : Front.operation.id < id
        /\ \A i, j \in DOMAIN async_loads' :
             i < j => async_loads'[i].operation.id < async_loads'[j].operation.id
        /\ \A i \in DOMAIN async_loads' : \E j \in DOMAIN async_loads : async_loads'[i] = async_loads[j]
        /\ Front.operation # None /\ Front.operation.id \in Nat
        /\ \E j \in DOMAIN async_loads : Front = async_loads[j]
    BY <1>0, <2>1, TailAsyncIds DEF PlaceInv
  <2>3. current = None /\ Hand(current) = {}
    BY <2>1 DEF PlaceInv, Emptied, Hand
  <2>4. Sorted'
    BY <2>1, <2>2 DEF PlaceInv, Sorted
  <2>5. EachInOnePlace'
    <3>1. /\ Ids(pending)' = Ids(pending) /\ Issued' = Issued
          /\ Ids(operations)' = Ids(operations) /\ Hand(waiting)' = Hand(waiting)
      BY <2>1 DEF Ids, Issued, Hand
    <3>2. \/ Hand(current)' = {} /\ settled' = settled \cup {Front.operation.id}
          \/ Hand(current)' = {Front.operation.id} /\ settled' = settled
      BY <2>1, <2>2, <2>3 DEF Hand
    <3> QED
      BY <2>2, <2>3, <3>1, <3>2 DEF PlaceInv, EachInOnePlace, Placed
  <2>6. /\ Front.operation.kind = "load_async"
        /\ \A i \in DOMAIN async_loads' : async_loads'[i].operation.kind = "load_async"
    BY <2>2 DEF PlaceInv, Emptied
  <2>7. Emptied'
    BY <2>1, <2>3, <2>6 DEF PlaceInv, Emptied
  <2>8. AsyncBehind'
    BY <1>0, <2>1, <2>2, <2>3 DEF AsyncBehind, AsyncIds, Queues
  <2> QED
    BY <2>4, <2>5, <2>7, <2>8 DEF PlaceInv
<1>9. CASE FinishEnds
  <2>1. /\ pc = "finish" /\ waiting = None /\ pc' = "update"
        /\ UNCHANGED <<queue_vars, operations, waiting, current, settled>>
    BY <1>9 DEF FinishEnds, Forced
  <2>2. Sorted' /\ EachInOnePlace'
    BY <2>1, HandPlaces
  <2>3. operations = <<>> /\ current = None
    BY <2>1 DEF PlaceInv, Emptied
  <2>4. Emptied' /\ AsyncBehind'
    BY <2>1, <2>3 DEF PlaceInv, Emptied, AsyncBehind, queue_vars
  <2> QED
    BY <2>2, <2>4 DEF PlaceInv
<1>10. CASE ResumeLoad
  <2>1. /\ pc = "finish" /\ waiting # None /\ waiting' = None /\ async_loads = <<>>
        /\ UNCHANGED <<queue_vars, operations>>
        /\ \/ current' = waiting /\ settled' = settled /\ pc' \in {"unloading", "list"}
           \/ current' = None /\ settled' = settled \cup {waiting.id} /\ pc' = "apply"
    BY <1>10 DEF ResumeLoad, Forced, Begin, Settle
  <2>2. current = None /\ waiting.kind = "load"
    BY <2>1 DEF PlaceInv, Emptied
  <2>3. Sorted' /\ EachInOnePlace'
    BY <2>1, <2>2, HandPlaces
  <2>4. AsyncBehind'
    BY <2>1 DEF AsyncBehind, AsyncIds, queue_vars
  <2>5. Emptied'
    BY <2>1, <2>2 DEF PlaceInv, Emptied, queue_vars
  <2> QED
    BY <2>3, <2>4, <2>5 DEF PlaceInv
<1> QED
  BY <1>1, <1>2, <1>3, <1>4, <1>5, <1>6, <1>7, <1>8, <1>9, <1>10 DEF ModuleStep

-----------------------------------------------------------------------------
(* Queued operations are applied first in, first out: those swapped out     *)
(* come before those that handlers queue meanwhile, and the one in hand     *)
(* before both.                                                             *)
BatchFirst == \A a \in Ids(operations), b \in Ids(pending) : a < b
WaitingFirst == \A a \in Hand(waiting), b \in Ids(pending) \cup Ids(operations) : a < b
CurrentFirst ==
  current # None /\ current.kind # "load_async" =>
    \A b \in Ids(pending) \cup Ids(operations) : current.id < b
QueueInv == BatchFirst /\ WaitingFirst /\ CurrentFirst

(* Taking the first operation of the batch leaves the greater ones.         *)
LEMMA HeadFirst ==
  ASSUME Queues, PlaceInv, QueueInv, operations # <<>>
  PROVE  /\ Head(operations).id \in Ids(operations)
         /\ Ids(Tail(operations)) \subseteq Ids(operations)
         /\ \A b \in Ids(Tail(operations)) \cup Ids(pending) : Head(operations).id < b
<1> DEFINE rest == Tail(operations)
<1>1. /\ 1 \in DOMAIN operations /\ Head(operations) = operations[1]
      /\ \A i \in DOMAIN rest :
           i + 1 \in DOMAIN operations /\ 1 < i + 1 /\ rest[i] = operations[i + 1]
  BY DEF Queues
<1> HIDE DEF rest
<1>2. \A i \in DOMAIN rest : \E j \in DOMAIN operations : rest[i] = operations[j] /\ operations[1].id < operations[j].id
  BY <1>1 DEF PlaceInv, Sorted
<1>3. Head(operations).id \in Ids(operations)
  BY <1>1 DEF Ids
<1>4. \A b \in Ids(rest) : b \in Ids(operations) /\ Head(operations).id < b
  BY <1>1, <1>2 DEF Ids
<1>5. \A b \in Ids(pending) : Head(operations).id < b
  BY <1>3 DEF QueueInv, BatchFirst
<1> QED
  BY <1>3, <1>4, <1>5 DEF rest

(* Steps that leave the queued operations alone, and at most settle the one *)
(* in hand or take up an asynchronous load.                                 *)
LEMMA SameQueues ==
  ASSUME QueueInv, UNCHANGED <<pending, operations>>,
         waiting' \in {waiting, None},
         current' \in {current, None} \/ current'.kind = "load_async"
  PROVE  QueueInv'
<1>1. /\ Ids(pending)' = Ids(pending) /\ Ids(operations)' = Ids(operations)
      /\ Hand(waiting)' \subseteq Hand(waiting)
  BY DEF Ids, Hand
<1> QED
  BY <1>1 DEF QueueInv, BatchFirst, WaitingFirst, CurrentFirst

(* A script queues an operation, with the next number.                      *)
LEMMA AppendQueue ==
  ASSUME Queues, PlaceInv, QueueInv, NEW op, op.id = next_id, pending' = Append(pending, op),
         UNCHANGED <<operations, waiting, current>>
  PROVE  QueueInv'
<1>1. Ids(pending)' = Ids(pending) \cup {next_id} /\ Ids(operations)' = Ids(operations)
  <2>1. Ids(Append(pending, op)) = Ids(pending) \cup {op.id}
    BY AppendIds DEF Queues
  <2> QED
    BY <2>1 DEF Ids
<1>2. /\ \A a \in Ids(operations) \cup Hand(waiting) : a < next_id
      /\ current # None => current.id < next_id
  BY IdsIssued DEF PlaceInv, Ids, Hand
<1> QED
  BY <1>1, <1>2 DEF QueueInv, BatchFirst, WaitingFirst, CurrentFirst, Hand

(* The first operation of the batch is taken in hand.                       *)
LEMMA TakeHead ==
  ASSUME Queues, PlaceInv, QueueInv, pc = "apply", operations # <<>>,
         operations' = Tail(operations), pending' = pending,
         \/ waiting' = Head(operations) /\ current' = None
         \/ waiting' = None /\ current' \in {Head(operations), None}
  PROVE  QueueInv'
<1>1. Ids(operations)' = Ids(Tail(operations)) /\ Ids(pending)' = Ids(pending)
  BY DEF Ids
<1>2. Hand(waiting)' \subseteq {Head(operations).id}
  BY DEF Hand
<1> QED
  BY <1>1, <1>2, HeadFirst DEF QueueInv, BatchFirst, WaitingFirst, CurrentFirst

(* Every step keeps them in order.                                          *)
LEMMA QueueStepInv == TypeOK /\ PlaceInv /\ QueueInv /\ [Next]_vars => QueueInv'
<1> SUFFICES ASSUME TypeOK, PlaceInv, QueueInv, [Next]_vars PROVE QueueInv'
  OBVIOUS
<1>0. Queues
  BY QueueTypes
<1>1. ASSUME NEW loadable, NEW mode, LoadScene(mode, loadable) PROVE QueueInv'
  BY <1>0, <1>1, AppendQueue DEF LoadScene, Issue, NewLoad, apply_vars
<1>2. ASSUME NEW handle, UnloadScene(handle) PROVE QueueInv'
  BY <1>0, <1>2, AppendQueue DEF UnloadScene, Issue, apply_vars
<1>3. ASSUME UNCHANGED <<pending, operations, waiting, current>> PROVE QueueInv'
  BY <1>3, SameQueues
<1>4. CASE ScriptCall
  BY <1>1, <1>2, <1>3, <1>4
  DEF ScriptCall, LoadSceneAsync, SetAllowSceneActivation, SetActiveScene, CreateNode,
      DontDestroyOnLoad, MoveNodeToScene, queue_vars, apply_vars
<1>5. CASE Parse \/ LoadAssets \/ Reimport \/ UNCHANGED vars
  BY <1>3, <1>5
  DEF Parse, LoadAssets, Reimport, ParseEnds, AssetsEnd, AssetReimported, vars, queue_vars, apply_vars
<1>6. CASE PreUpdate
  <2>1. operations' = pending /\ pending' = <<>> /\ UNCHANGED <<waiting, current>> /\ pc = "update"
    BY <1>6 DEF PreUpdate
  <2>2. waiting = None /\ current = None /\ Ids(pending)' = {}
    BY <2>1 DEF PlaceInv, Emptied, Ids
  <2> QED
    BY <2>1, <2>2 DEF QueueInv, BatchFirst, WaitingFirst, CurrentFirst, Hand
<1>7. CASE ApplyLoad \/ RejectUnload \/ ApplyUnload
  <2>1. /\ pc = "apply" /\ operations # <<>> /\ operations' = Tail(operations) /\ pending' = pending
        /\ \/ waiting' = Head(operations) /\ current' = current
           \/ waiting' = waiting /\ current' \in {Head(operations), None}
    BY <1>7 DEF ApplyLoad, RejectUnload, ApplyUnload, Settle, queue_vars
  <2>2. waiting = None /\ current = None
    BY <2>1 DEF PlaceInv, Emptied
  <2> QED
    BY <1>0, <2>1, <2>2, TakeHead
<1>8. CASE DestroyUnloaded \/ AnnounceUnloaded \/ DestroyAll \/ ListLoaded \/ AnnounceLoaded
           \/ UpdateAsyncLoads \/ DropFailed \/ FinishEnds
  BY <1>3, <1>8
  DEF DestroyUnloaded, AnnounceUnloaded, DestroyAll, ListLoaded, AnnounceLoaded, UpdateAsyncLoads,
      DropFailed, FinishEnds, queue_vars
<1>9. CASE EraseUnloaded \/ ActivationEnds
  BY <1>9, SameQueues DEF EraseUnloaded, ActivationEnds, Settle, queue_vars
<1>10. CASE ActivateFront
  <2>1. Front.operation.kind = "load_async"
    <3>1. 1 \in DOMAIN async_loads
      BY <1>0, <1>10 DEF ActivateFront, Queues
    <3> QED
      BY <3>1 DEF PlaceInv, Emptied, Front
  <2> QED
    BY <1>10, <2>1, SameQueues DEF ActivateFront, Begin
<1>11. CASE ResumeLoad
  <2>1. /\ waiting # None /\ waiting' = None /\ current' \in {waiting, None}
        /\ UNCHANGED <<pending, operations>>
    BY <1>11 DEF ResumeLoad, Forced, Begin, Settle, queue_vars
  <2>2. Ids(pending)' = Ids(pending) /\ Ids(operations)' = Ids(operations) /\ Hand(waiting)' = {}
    BY <2>1 DEF Ids, Hand
  <2> QED
    BY <2>1, <2>2 DEF QueueInv, BatchFirst, WaitingFirst, CurrentFirst, Hand
<1> QED
  BY <1>4, <1>5, <1>6, <1>7, <1>8, <1>9, <1>10, <1>11 DEF Next, ModuleStep

-----------------------------------------------------------------------------
(* A queue has as many numbers as operations.                               *)
LEMMA CountIds ==
  ASSUME NEW n \in Nat, NEW f, DOMAIN f = 1..n,
         \A i \in DOMAIN f : f[i] \in Nat, \A i, j \in DOMAIN f : i < j => f[i] < f[j]
  PROVE  /\ IsFiniteSet({f[i] : i \in DOMAIN f})
         /\ Cardinality({f[i] : i \in DOMAIN f}) = n
<1> DEFINE S == {f[i] : i \in DOMAIN f}
           g == [i \in 1..n |-> f[i]]
<1>1. g \in [1..n -> S] /\ \A i \in 1..n : g[i] = f[i]
  OBVIOUS
<1>2. ASSUME NEW i \in 1..n, NEW j \in 1..n, i # j PROVE g[i] # g[j]
  <2>1. f[i] \in Nat /\ f[j] \in Nat /\ (i < j \/ j < i)
    BY <1>2
  <2>2. f[i] < f[j] \/ f[j] < f[i]
    BY <1>2, <2>1
  <2> QED
    BY <1>1, <2>1, <2>2
<1>3. \A v \in S : \E i \in 1..n : g[i] = v
  BY <1>1
<1> HIDE DEF g, S
<1>4. g \in Bijection(1..n, S)
  <2>1. g \in Surjection(1..n, S)
    BY <1>1, <1>3 DEF Surjection
  <2>2. \A i, j \in 1..n : g[i] = g[j] => i = j
    BY <1>2
  <2> QED
    BY <1>1, <2>1, <2>2 DEF Bijection, Injection, IsInjective
<1>5. ExistsBijection(1..n, S)
  BY <1>4 DEF ExistsBijection
<1>6. IsFiniteSet(1..n) /\ Cardinality(1..n) = n
  BY FS_Interval
<1> QED
  BY <1>5, <1>6, FS_Bijection DEF S

(* Two sets that have no number in common add up.                           *)
LEMMA CountBoth ==
  ASSUME NEW S, NEW T, IsFiniteSet(S), IsFiniteSet(T), S \cap T = {}
  PROVE  IsFiniteSet(S \cup T) /\ Cardinality(S \cup T) = Cardinality(S) + Cardinality(T)
BY FS_Union, FS_EmptySet, FS_CardinalityType

(* Every operation being in one place, none is lost and none is in two.     *)
LEMMA PlacesCount == TypeOK /\ PlaceInv => NoOperationLost
<1> SUFFICES ASSUME TypeOK, PlaceInv PROVE NoOperationLost
  OBVIOUS
<1>0. Queues
  BY QueueTypes
<1>1. /\ IsFiniteSet(Ids(pending)) /\ Cardinality(Ids(pending)) = Len(pending)
      /\ IsFiniteSet(Ids(operations)) /\ Cardinality(Ids(operations)) = Len(operations)
      /\ IsFiniteSet(AsyncIds) /\ Cardinality(AsyncIds) = Len(async_loads)
      /\ Len(pending) \in Nat /\ Len(operations) \in Nat /\ Len(async_loads) \in Nat
  <2> DEFINE p == [i \in DOMAIN pending |-> pending[i].id]
             o == [i \in DOMAIN operations |-> operations[i].id]
             a == [i \in DOMAIN async_loads |-> async_loads[i].operation.id]
  <2>1. /\ Len(pending) \in Nat /\ DOMAIN p = 1..Len(pending)
        /\ Len(operations) \in Nat /\ DOMAIN o = 1..Len(operations)
        /\ Len(async_loads) \in Nat /\ DOMAIN a = 1..Len(async_loads)
    BY <1>0 DEF Queues
  <2>2. /\ \A i \in DOMAIN p : p[i] \in Nat
        /\ \A i \in DOMAIN o : o[i] \in Nat
        /\ \A i \in DOMAIN a : a[i] \in Nat
    BY <1>0 DEF Queues
  <2>3. /\ \A i, j \in DOMAIN p : i < j => p[i] < p[j]
        /\ \A i, j \in DOMAIN o : i < j => o[i] < o[j]
        /\ \A i, j \in DOMAIN a : i < j => a[i] < a[j]
    BY DEF PlaceInv, Sorted
  <2>4. Ids(pending) = {p[i] : i \in DOMAIN p}
    BY DEF Ids
  <2>5. Ids(operations) = {o[i] : i \in DOMAIN o}
    BY DEF Ids
  <2>6. AsyncIds = {a[i] : i \in DOMAIN a}
    BY DEF AsyncIds
  <2> HIDE DEF p, o, a
  <2>7. IsFiniteSet(Ids(pending)) /\ Cardinality(Ids(pending)) = Len(pending)
    BY <2>1, <2>2, <2>3, <2>4, CountIds
  <2>8. IsFiniteSet(Ids(operations)) /\ Cardinality(Ids(operations)) = Len(operations)
    BY <2>1, <2>2, <2>3, <2>5, CountIds
  <2>9. IsFiniteSet(AsyncIds) /\ Cardinality(AsyncIds) = Len(async_loads)
    BY <2>1, <2>2, <2>3, <2>6, CountIds
  <2> QED
    BY <2>1, <2>7, <2>8, <2>9
<1>2. InHand = Hand(waiting) \cup Hand(current)
  BY DEF InHand, Hand
<1>3. IsFiniteSet(InHand)
  BY <1>2, FS_EmptySet, FS_Singleton, FS_Union DEF Hand
<1>4. /\ Ids(pending) \cap Ids(operations) = {}
      /\ (Ids(pending) \cup Ids(operations)) \cap AsyncIds = {}
      /\ (Ids(pending) \cup Ids(operations) \cup AsyncIds) \cap InHand = {}
      /\ settled \cap (Ids(pending) \cup Ids(operations) \cup AsyncIds \cup InHand) = {}
      /\ 1..(next_id - 1) = settled \cup (Ids(pending) \cup Ids(operations) \cup AsyncIds \cup InHand)
  BY <1>2 DEF PlaceInv, EachInOnePlace, Placed, Issued
<1>5. /\ IsFiniteSet(Ids(pending) \cup Ids(operations))
      /\ Cardinality(Ids(pending) \cup Ids(operations)) = Len(pending) + Len(operations)
  BY <1>1, <1>4, CountBoth
<1>6. /\ IsFiniteSet(Ids(pending) \cup Ids(operations) \cup AsyncIds)
      /\ Cardinality(Ids(pending) \cup Ids(operations) \cup AsyncIds)
           = Len(pending) + Len(operations) + Len(async_loads)
  BY <1>1, <1>4, <1>5, CountBoth
<1>7. Cardinality(Ids(pending) \cup Ids(operations) \cup AsyncIds \cup InHand)
        = Len(pending) + Len(operations) + Len(async_loads) + Cardinality(InHand)
  BY <1>3, <1>4, <1>6, CountBoth
<1> QED
  BY <1>4, <1>7 DEF NoOperationLost

(* The operations keep their places in every state.                         *)
THEOREM Places == Spec => []PlaceInv
<1>1. Init => PlaceInv
  <2> SUFFICES ASSUME Init PROVE PlaceInv
    OBVIOUS
  <2>1. /\ Ids(pending) = {} /\ Ids(operations) = {} /\ AsyncIds = {} /\ Issued = {}
        /\ Hand(waiting) = {} /\ Hand(current) = {} /\ settled = {}
    BY DEF Init, Ids, AsyncIds, Issued, Hand
  <2> QED
    BY <2>1 DEF Init, PlaceInv, Sorted, EachInOnePlace, Placed, Emptied, AsyncBehind
<1>2. PlaceInv /\ UNCHANGED vars => PlaceInv'
  <2> SUFFICES ASSUME PlaceInv, UNCHANGED vars PROVE PlaceInv'
    OBVIOUS
  <2>1. Emptied'
    BY DEF PlaceInv, Emptied, vars, queue_vars, apply_vars
  <2> QED
    BY <2>1, ProgressPlaces DEF vars, queue_vars, apply_vars
<1>3. IInv /\ PlaceInv /\ [Next]_vars => PlaceInv'
  BY <1>2, CallPlaces, BackgroundPlaces, ModulePlaces DEF IInv, Next
<1> QED
  BY <1>1, <1>3, Invariance, PTL DEF Spec

(* An asynchronous load activates after every one started before it, a      *)
(* queued load after every load started before it, and queued operations    *)
(* apply first in, first out, whatever the background finishes first and    *)
(* whatever handlers start meanwhile.                                       *)
THEOREM InOrder == Spec => []LoadsInOrder
<1>1. Init => QueueInv
  BY DEF Init, QueueInv, BatchFirst, WaitingFirst, CurrentFirst, Ids, Hand
<1>2. IInv /\ PlaceInv /\ QueueInv /\ [Next]_vars => QueueInv'
  BY QueueStepInv DEF IInv
<1>3. PlaceInv /\ QueueInv => LoadsInOrder
  BY DEF PlaceInv, AsyncBehind, QueueInv, CurrentFirst, LoadsInOrder
<1> QED
  BY <1>1, <1>2, <1>3, Invariance, Places, PTL DEF Spec

(* No operation is lost or applied twice.                                   *)
THEOREM NothingLost == Spec => []NoOperationLost
BY Places, Invariance, PlacesCount, PTL DEF IInv
=============================================================================
