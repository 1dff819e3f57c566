------------------------------ MODULE DeviceSync ------------------------------
(* What a Vulkan device promises about the commands of one queue, as far as *)
(* the barriers of render_graph.cpp rely on it.  Commands run in any order  *)
(* unless a barrier, or a chain of them, orders them; what a command wrote  *)
(* is seen by another once a barrier made it available and one after it     *)
(* visible to the stage and access that reads it.                           *)
(* A scope is a set of stages and a set of accesses.  The past of a         *)
(* resource is a set of events: for each what later commands know of it.    *)

CONSTANT WriteAccesses

Scope(stage, access) == [stage |-> stage, access |-> access]
Writes(access) == access \cap WriteAccesses # {}

(* A command is one event in each of its stages.  Of its accesses, what it  *)
(* writes has to be made available.                                         *)
Issued(use) ==
  {[stage |-> s, access |-> use.access \cap WriteAccesses, writes |-> Writes(use.access),
    ordered |-> {}, available |-> FALSE, visible |-> {}] : s \in use.stage}

(* A layout transition writes the image, on behalf of the barrier itself.   *)
Transitioned(dst) ==
  {[stage |-> "transition", access |-> {}, writes |-> TRUE, ordered |-> dst.stage,
    available |-> TRUE, visible |-> dst.stage \X dst.access]}

\* The first scope of a barrier includes e, directly or by a chain.
Precedes(e, src) == e.stage \in src.stage \/ e.ordered \cap src.stage # {}
AvailableAfter(e, src) ==
  e.available \/ (e.stage \in src.stage /\ e.access \subseteq src.access)

Passed(e, src, dst) ==
  IF ~Precedes(e, src) THEN e
  ELSE [e EXCEPT !.ordered = @ \cup dst.stage,
                 !.available = AvailableAfter(e, src),
                 !.visible = IF AvailableAfter(e, src)
                               THEN @ \cup (dst.stage \X dst.access) ELSE @]
AfterBarrier(past, src, dst) == {Passed(e, src, dst) : e \in past}

(* After a write, whoever is ordered after it is ordered after the rest.    *)
AfterUse(past, use) == (IF Writes(use.access) THEN {} ELSE past) \cup Issued(use)

\* A write comes after everything before it, a read after every write.
OrderedUse(past, use) ==
  \A e \in past : e.writes \/ Writes(use.access) => use.stage \subseteq e.ordered
VisibleUse(past, use) ==
  \A e \in past : e.writes => use.stage \X use.access \subseteq e.visible
OrderedTransition(past, src) ==
  \A e \in past : Precedes(e, src) /\ (e.writes => AvailableAfter(e, src))
=============================================================================
