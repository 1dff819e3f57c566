-------------------------- MODULE RenderGraphProofs --------------------------
(* Theorems about RenderGraph, for every catalogue of groups, any images    *)
(* and buffers, and any number of frames: the barriers that compile()       *)
(* derives order every use against every other and make every write         *)
(* visible, and every use finds its layout and its content.  Four parts:    *)
(* what one derived barrier and one use do to the past of a resource        *)
(* (Follows: a state describes the past); what a whole group does, enabled  *)
(* or not (GroupEntry, GroupBody, GroupExit); that the groups are compiled  *)
(* with the states their execution meets (IInv, by way of trace); and which *)
(* groups clear when they are skipped (FoundInv, by way of cleared_by).     *)
EXTENDS RenderGraph, TLAPS

\* What is done to a resource in one operation.

UseSet == [stage : (SUBSET Stages) \ {{}}, access : SUBSET Accesses, layout : Layouts]

-----------------------------------------------------------------------------
(* The device.  Behind: a barrier that waits for these stages and flushes   *)
(* these accesses waits for e, and flushes what it wrote.                   *)
Behind(e, src) == Precedes(e, src) /\ (e.writes => AvailableAfter(e, src))

(* What the state of a touched resource says of its past: everything is     *)
(* behind the writes and reads it names, the writes behind the writes, and  *)
(* the reads it names see them.                                             *)
Follows(events, s) == \A e \in events :
  /\ Behind(e, EndOfFrameScope(s))
  /\ e.writes => /\ Behind(e, Scope(s.write_stage, s.write_access))
                 /\ s.read_stages \subseteq e.ordered
                 /\ s.read_stages \X s.read_accesses \subseteq e.visible
(* An untouched one is behind what is carried.                              *)
FollowsCarried(events, s) ==
  events # {} => s.carried # {} /\ \A src \in s.carried : \A e \in events : Behind(e, src)
Sees(events, u) == OrderedUse(events, u) /\ VisibleUse(events, u)

\* A barrier adds to what is known of an event, and to nothing else of it.
LEMMA PassedFacts ==
  ASSUME NEW e \in EventSet, NEW src \in ScopeSet, NEW dst \in ScopeSet
  PROVE  LET p == Passed(e, src, dst) IN
         /\ p \in EventSet /\ p.stage = e.stage /\ p.access = e.access /\ p.writes = e.writes
         /\ e.ordered \subseteq p.ordered /\ e.visible \subseteq p.visible
         /\ e.available => p.available
         /\ Precedes(e, src) => /\ dst.stage \subseteq p.ordered
                                /\ AvailableAfter(e, src) =>
                                     p.available /\ dst.stage \X dst.access \subseteq p.visible
<1> DEFINE p == Passed(e, src, dst)
           o == e.ordered \cup dst.stage
           a == AvailableAfter(e, src)
           v == IF a THEN e.visible \cup (dst.stage \X dst.access) ELSE e.visible
<1>1. /\ o \in SUBSET Stages /\ a \in BOOLEAN /\ v \in SUBSET (Stages \X Accesses)
      /\ e.available => a
  BY DEF EventSet, ScopeSet, AvailableAfter
<1>2. CASE ~Precedes(e, src)
  BY <1>2 DEF Passed
<1>3. CASE Precedes(e, src)
  <2>1. p = [e EXCEPT !.ordered = o, !.available = a, !.visible = v]
    BY <1>3 DEF Passed
  <2> HIDE DEF o, a, v, p
  <2>2. /\ p \in EventSet /\ p.stage = e.stage /\ p.access = e.access /\ p.writes = e.writes
        /\ p.ordered = o /\ p.available = a /\ p.visible = v
    BY <1>1, <2>1 DEF EventSet
  <2> QED
    BY <1>1, <2>2 DEF o, v, a, p
<1> QED
  BY <1>2, <1>3

\* What is behind a scope stays behind it after any barrier, and behind a larger one.
LEMMA StaysBehind ==
  ASSUME NEW e \in EventSet, NEW p \in EventSet, NEW src \in ScopeSet, NEW wide \in ScopeSet,
         p.stage = e.stage, p.access = e.access, p.writes = e.writes,
         e.ordered \subseteq p.ordered, e.available => p.available,
         src.stage \subseteq wide.stage, src.access \subseteq wide.access, Behind(e, src)
  PROVE  Behind(p, wide)
BY DEF Behind, Precedes, AvailableAfter

\* What is behind the source of a barrier is behind its destination afterwards.
LEMMA ThenBehind ==
  ASSUME NEW p \in EventSet, NEW src \in ScopeSet, NEW st \in SUBSET Stages, st # {},
         st \subseteq src.stage, st \subseteq p.ordered, p.writes => p.available
  PROVE  Behind(p, src)
BY DEF Behind, Precedes, AvailableAfter, EventSet, ScopeSet

-----------------------------------------------------------------------------
(* One use of a resource: the barrier that advance_sync derives before it.  *)
LEMMA AdvancedFacts ==
  ASSUME NEW s \in StateSet, NEW u \in UseSet
  PROVE  LET t == Advanced(s, u) IN
         /\ t \in StateSet /\ t.touched /\ t.layout = u.layout /\ t.carried = s.carried
         /\ IF Writes(u.access)
              THEN /\ t.write_stage = u.stage /\ t.write_access = u.access
                   /\ t.read_stages = {} /\ t.read_accesses = {}
            ELSE IF Transitions(s, u) \/ ~s.touched
              THEN /\ t.write_stage = u.stage /\ t.write_access = {}
                   /\ t.read_stages = u.stage /\ t.read_accesses = u.access
            ELSE /\ t.write_stage = s.write_stage /\ t.write_access = s.write_access
                 /\ t.read_stages = s.read_stages \cup u.stage
                 /\ t.read_accesses = s.read_accesses \cup u.access
<1>1. CASE Writes(u.access) \/ Transitions(s, u) \/ ~s.touched
  BY <1>1 DEF Advanced, StateSet, UseSet
<1>2. CASE ~(Writes(u.access) \/ Transitions(s, u) \/ ~s.touched)
  <2>1. Advanced(s, u) = [s EXCEPT !.read_stages = @ \cup u.stage, !.read_accesses = @ \cup u.access]
    BY <1>2 DEF Advanced
  <2> QED
    BY <1>2, <2>1 DEF StateSet, UseSet, Transitions
<1> QED
  BY <1>1, <1>2

\* The scopes of a derived barrier are scopes.
LEMMA SourceFacts ==
  ASSUME NEW s \in StateSet, NEW u \in UseSet
  PROVE  /\ SourceScopes(s, u) \subseteq ScopeSet
         /\ Scope(u.stage, u.access) \in ScopeSet
         /\ Scope(s.write_stage, s.write_access) \in ScopeSet
         /\ EndOfFrameScope(s) \in ScopeSet
BY DEF SourceScopes, Scope, ScopeSet, StateSet, UseSet, EndOfFrameScope

\* What lets the reads of a state be kept as stages and accesses apart.
Alike(s, u) ==
  \/ s.read_stages = {} /\ s.read_accesses = {}
  \/ s.layout = u.layout /\ ~Writes(u.access) => s.read_accesses = u.access

\* A transition comes after everything, and everything after it.
LEMMA AfterTransition ==
  ASSUME NEW s \in StateSet, NEW u \in UseSet, Writes(u.access) \/ Transitions(s, u) \/ ~s.touched
  PROVE  LET p == Transitioned(Scope(u.stage, u.access)) IN
         p \in SUBSET EventSet /\ Follows(p, Advanced(s, u)) /\ Sees(p, u)
<1> DEFINE e == [stage |-> "transition", access |-> {}, writes |-> TRUE, ordered |-> u.stage,
                 available |-> TRUE, visible |-> u.stage \X u.access]
           t == Advanced(s, u)
<1>1. Transitioned(Scope(u.stage, u.access)) = {e} /\ u.stage # {}
  BY DEF Transitioned, Scope, UseSet
<1>2. e \in EventSet
  BY DEF EventSet, UseSet
<1>3. /\ t \in StateSet /\ t.write_stage = u.stage
      /\ t.read_stages \in {{}, u.stage} /\ t.read_accesses \in {{}, u.access}
  BY AdvancedFacts
<1>4. /\ EndOfFrameScope(t) \in ScopeSet /\ u.stage \subseteq EndOfFrameScope(t).stage
      /\ Scope(t.write_stage, t.write_access) \in ScopeSet
      /\ u.stage \subseteq Scope(t.write_stage, t.write_access).stage
  BY <1>3, SourceFacts DEF EndOfFrameScope, Scope
<1>5. Behind(e, EndOfFrameScope(t)) /\ Behind(e, Scope(t.write_stage, t.write_access))
  <2> u.stage \in SUBSET Stages /\ u.stage \subseteq e.ordered /\ e.writes /\ e.available
    BY DEF UseSet
  <2> QED
    BY <1>1, <1>2, <1>4, ThenBehind
<1> QED
  BY <1>1, <1>2, <1>3, <1>5 DEF Follows, Sees, OrderedUse, VisibleUse

\* A barrier that waits for all of the past.
LEMMA AfterFullBarrier ==
  ASSUME NEW s \in StateSet, NEW u \in UseSet, NEW events \in SUBSET EventSet,
         s.touched, Follows(events, s), Writes(u.access) \/ Transitions(s, u)
  PROVE  LET p == AfterBarrier(events, EndOfFrameScope(s), Scope(u.stage, u.access)) IN
         p \in SUBSET EventSet /\ Follows(p, Advanced(s, u)) /\ Sees(p, u)
<1> DEFINE src == EndOfFrameScope(s)
           dst == Scope(u.stage, u.access)
           t == Advanced(s, u)
<1>1. src \in ScopeSet /\ dst \in ScopeSet /\ dst.stage = u.stage /\ dst.access = u.access
  BY SourceFacts DEF Scope
<1>2. /\ t \in StateSet /\ t.write_stage = u.stage
      /\ t.read_stages \in {{}, u.stage} /\ t.read_accesses \in {{}, u.access}
  BY AdvancedFacts
<1>3. /\ EndOfFrameScope(t) \in ScopeSet /\ u.stage \subseteq EndOfFrameScope(t).stage
      /\ Scope(t.write_stage, t.write_access) \in ScopeSet
      /\ u.stage \subseteq Scope(t.write_stage, t.write_access).stage
  BY <1>2, SourceFacts DEF EndOfFrameScope, Scope
<1>4. ASSUME NEW e \in events
      PROVE  LET p == Passed(e, src, dst) IN
             /\ p \in EventSet /\ u.stage \subseteq p.ordered
             /\ p.writes => p.available /\ u.stage \X u.access \subseteq p.visible
             /\ Behind(p, EndOfFrameScope(t)) /\ Behind(p, Scope(t.write_stage, t.write_access))
  <2> DEFINE p == Passed(e, src, dst)
  <2>1. e \in EventSet /\ Precedes(e, src) /\ (e.writes => AvailableAfter(e, src))
    BY DEF Follows, Behind
  <2>2. /\ p \in EventSet /\ u.stage \subseteq p.ordered
        /\ p.writes => p.available /\ u.stage \X u.access \subseteq p.visible
    BY <1>1, <2>1, PassedFacts
  <2>3. u.stage \in SUBSET Stages /\ u.stage # {}
    BY DEF UseSet
  <2> QED
    BY <1>3, <2>2, <2>3, ThenBehind
<1> QED
  BY <1>2, <1>4 DEF AfterBarrier, Follows, Sees, OrderedUse, VisibleUse

\* A read that the reads before it cover needs no barrier.
LEMMA CoveredRead ==
  ASSUME NEW s \in StateSet, NEW u \in UseSet, NEW events \in SUBSET EventSet,
         s.touched, Follows(events, s), ~Writes(u.access), ~Transitions(s, u), Covered(s, u)
  PROVE  Follows(events, Advanced(s, u)) /\ Sees(events, u)
<1> DEFINE t == Advanced(s, u)
<1>1. /\ t.write_stage = s.write_stage /\ t.write_access = s.write_access
      /\ t.read_stages = s.read_stages /\ t.read_accesses = s.read_accesses
      /\ u.stage \subseteq s.read_stages /\ u.access \subseteq s.read_accesses
  BY AdvancedFacts DEF Covered
<1> QED
  BY <1>1 DEF Follows, Sees, OrderedUse, VisibleUse, EndOfFrameScope

\* One they do not cover waits for the writes.
LEMMA AfterReadBarrier ==
  ASSUME NEW s \in StateSet, NEW u \in UseSet, NEW events \in SUBSET EventSet,
         s.touched, Follows(events, s), ~Writes(u.access), ~Transitions(s, u), Alike(s, u)
  PROVE  LET p == AfterBarrier(events, Scope(s.write_stage, s.write_access),
                               Scope(u.stage, u.access)) IN
         p \in SUBSET EventSet /\ Follows(p, Advanced(s, u)) /\ Sees(p, u)
<1> DEFINE src == Scope(s.write_stage, s.write_access)
           dst == Scope(u.stage, u.access)
           t == Advanced(s, u)
<1>1. src \in ScopeSet /\ dst \in ScopeSet /\ dst.stage = u.stage /\ dst.access = u.access
  BY SourceFacts DEF Scope
<1>2. /\ t \in StateSet /\ t.write_stage = s.write_stage /\ t.write_access = s.write_access
      /\ t.read_stages = s.read_stages \cup u.stage /\ t.read_accesses = s.read_accesses \cup u.access
  BY AdvancedFacts
<1>3. /\ EndOfFrameScope(s) \in ScopeSet /\ EndOfFrameScope(t) \in ScopeSet
      /\ EndOfFrameScope(s).stage \subseteq EndOfFrameScope(t).stage
      /\ EndOfFrameScope(s).access \subseteq EndOfFrameScope(t).access
  <2>1. EndOfFrameScope(s) \in ScopeSet /\ EndOfFrameScope(t) \in ScopeSet
    BY <1>2, SourceFacts
  <2> QED
    BY <1>2, <2>1 DEF EndOfFrameScope, Scope
<1>4. (s.read_stages \cup u.stage) \X (s.read_accesses \cup u.access)
        \subseteq (s.read_stages \X s.read_accesses) \cup (u.stage \X u.access)
  BY DEF Alike, Transitions
<1>5. ASSUME NEW e \in events
      PROVE  LET p == Passed(e, src, dst) IN
             /\ p \in EventSet /\ Behind(p, EndOfFrameScope(t))
             /\ p.writes => /\ Behind(p, src)
                            /\ s.read_stages \cup u.stage \subseteq p.ordered
                            /\ t.read_stages \X t.read_accesses \subseteq p.visible
                            /\ u.stage \X u.access \subseteq p.visible
  <2> DEFINE p == Passed(e, src, dst)
  <2>1. /\ e \in EventSet /\ Behind(e, EndOfFrameScope(s))
        /\ e.writes => /\ Behind(e, src) /\ s.read_stages \subseteq e.ordered
                       /\ s.read_stages \X s.read_accesses \subseteq e.visible
    BY DEF Follows
  <2>2. /\ p \in EventSet /\ p.stage = e.stage /\ p.access = e.access /\ p.writes = e.writes
        /\ e.ordered \subseteq p.ordered /\ e.visible \subseteq p.visible
        /\ e.available => p.available
        /\ Precedes(e, src) => /\ u.stage \subseteq p.ordered
                               /\ AvailableAfter(e, src) => u.stage \X u.access \subseteq p.visible
    BY <1>1, <2>1, PassedFacts
  <2>3. Behind(p, EndOfFrameScope(t))
    BY <1>3, <2>1, <2>2, StaysBehind
  <2>4. ASSUME p.writes
        PROVE  /\ Behind(p, src) /\ s.read_stages \cup u.stage \subseteq p.ordered
               /\ s.read_stages \X s.read_accesses \subseteq p.visible
               /\ u.stage \X u.access \subseteq p.visible
    <3>1. Behind(e, src) /\ Precedes(e, src) /\ AvailableAfter(e, src)
      BY <2>1, <2>2, <2>4 DEF Behind
    <3>2. Behind(p, src)
      BY <1>1, <2>1, <2>2, <3>1, StaysBehind
    <3> QED
      BY <2>1, <2>2, <2>4, <3>1, <3>2
  <2> QED
    BY <1>2, <1>4, <2>2, <2>3, <2>4
<1> QED
  BY <1>2, <1>5 DEF AfterBarrier, Follows, Sees, OrderedUse, VisibleUse

\* A resource after a set of barriers.
BarrierPast(barriers, events) ==
  IF barriers = {} THEN events ELSE UNION {After(b, events) : b \in barriers}

(* What the past of a resource has to be before a use, given its state.     *)
Prepared(events, s, r) ==
  /\ s.touched => Follows(events, s)
  /\ ~s.touched => FollowsCarried(events, s) /\ (r \notin Images => s.carried = {})

\* Where a derived barrier leads, and when it is a layout transition.
LEMMA BarrierFacts ==
  ASSUME NEW s \in StateSet, NEW u \in UseSet, NEW r \in Resources,
         NEW b \in TouchBarriers(r, s, u)
  PROVE  /\ b.resource = r /\ b.dst = Scope(u.stage, u.access) /\ b.src \in SourceScopes(s, u)
         /\ IsTransition(b) <=> r \in Images /\ (~s.touched \/ Transitions(s, u))
<1>1. PICK src \in SourceScopes(s, u) :
        b = [resource |-> r, src |-> src, dst |-> Scope(u.stage, u.access),
             old |-> IF s.touched THEN s.layout ELSE "undefined", new |-> u.layout]
  BY DEF TouchBarriers
<1>2. u.layout # "undefined"
  BY DEF UseSet, Layouts
<1> QED
  BY <1>1, <1>2 DEF IsTransition, Transitions

\* A single barrier that is no transition acts on the past as one.
LEMMA OnlyBarrier ==
  ASSUME NEW s \in StateSet, NEW u \in UseSet, NEW r \in Resources, NEW src, NEW events,
         SourceScopes(s, u) = {src}, ~(r \in Images /\ (~s.touched \/ Transitions(s, u)))
  PROVE  BarrierPast(TouchBarriers(r, s, u), events)
           = AfterBarrier(events, src, Scope(u.stage, u.access))
<1> DEFINE b == [resource |-> r, src |-> src, dst |-> Scope(u.stage, u.access),
                 old |-> IF s.touched THEN s.layout ELSE "undefined", new |-> u.layout]
<1>1. TouchBarriers(r, s, u) = {b}
  BY DEF TouchBarriers
<1>2. ~IsTransition(b)
  BY <1>1, BarrierFacts
<1>3. After(b, events) = AfterBarrier(events, src, Scope(u.stage, u.access))
  BY <1>2 DEF After
<1> HIDE DEF b
<1> QED
  BY <1>1, <1>3 DEF BarrierPast

(* The barrier before a use keeps what the state says of the past, and the  *)
(* use finds everything it conflicts with done and visible.                 *)
LEMMA UseIsPrepared ==
  ASSUME NEW s \in StateSet, NEW u \in UseSet, NEW r \in Resources,
         NEW events \in SUBSET EventSet, Prepared(events, s, r), Alike(s, u)
  PROVE  LET barriers == TouchBarriers(r, s, u)
             p == BarrierPast(barriers, events) IN
         /\ \A b \in barriers : IsTransition(b) => OrderedTransition(events, b.src)
         /\ p \in SUBSET EventSet /\ Follows(p, Advanced(s, u)) /\ Sees(p, u)
<1> DEFINE barriers == TouchBarriers(r, s, u)
           p == BarrierPast(barriers, events)
           dst == Scope(u.stage, u.access)
<1>1. CASE r \in Images /\ (~s.touched \/ Transitions(s, u))
  <2>1. SourceScopes(s, u) # {} /\ \A src \in SourceScopes(s, u) : OrderedTransition(events, src)
    <3>1. CASE s.touched
      BY <1>1, <3>1 DEF SourceScopes, Prepared, Follows, Behind, OrderedTransition, EndOfFrameScope
    <3>2. CASE ~s.touched
      BY <3>2 DEF SourceScopes, Prepared, FollowsCarried, Behind, OrderedTransition
    <3> QED
      BY <3>1, <3>2
  <2>2. barriers # {}
    BY <2>1 DEF TouchBarriers
  <2>3. ASSUME NEW b \in barriers
        PROVE  IsTransition(b) /\ OrderedTransition(events, b.src) /\ After(b, events) = Transitioned(dst)
    BY <1>1, <2>1, BarrierFacts DEF After
  <2> HIDE DEF barriers
  <2>4. p = Transitioned(dst)
    BY <2>2, <2>3 DEF BarrierPast
  <2>5. /\ Transitioned(dst) \in SUBSET EventSet /\ Follows(Transitioned(dst), Advanced(s, u))
        /\ Sees(Transitioned(dst), u)
    BY <1>1, AfterTransition
  <2> QED
    BY <2>3, <2>4, <2>5 DEF barriers
<1>2. CASE ~(r \in Images /\ (~s.touched \/ Transitions(s, u)))
  <2>1. \A b \in barriers : ~IsTransition(b)
    BY <1>2, BarrierFacts
  <2>2. CASE ~s.touched
    <3>1. events = {} /\ SourceScopes(s, u) = {Scope(u.stage, {})}
      BY <1>2, <2>2 DEF Prepared, FollowsCarried, SourceScopes
    <3>2. p = AfterBarrier(events, Scope(u.stage, {}), dst)
      BY <1>2, <3>1, OnlyBarrier
    <3>3. p = {}
      BY <3>1, <3>2 DEF AfterBarrier
    <3> QED
      BY <2>1, <3>3 DEF Follows, Sees, OrderedUse, VisibleUse
  <2>3. CASE s.touched /\ (Writes(u.access) \/ Transitions(s, u))
    <3>1. SourceScopes(s, u) = {EndOfFrameScope(s)}
      BY <2>3 DEF SourceScopes, EndOfFrameScope
    <3>2. p = AfterBarrier(events, EndOfFrameScope(s), dst)
      BY <1>2, <3>1, OnlyBarrier
    <3> QED
      BY <2>1, <2>3, <3>2, AfterFullBarrier DEF Prepared
  <2>4. CASE s.touched /\ ~Writes(u.access) /\ ~Transitions(s, u) /\ Covered(s, u)
    <3>1. p = events
      BY <2>4 DEF SourceScopes, TouchBarriers, BarrierPast
    <3> QED
      BY <2>1, <2>4, <3>1, CoveredRead DEF Prepared
  <2>5. CASE s.touched /\ ~Writes(u.access) /\ ~Transitions(s, u) /\ ~Covered(s, u)
    <3>1. SourceScopes(s, u) = {Scope(s.write_stage, s.write_access)}
      BY <2>5 DEF SourceScopes
    <3>2. p = AfterBarrier(events, Scope(s.write_stage, s.write_access), dst)
      BY <1>2, <3>1, OnlyBarrier
    <3> QED
      BY <2>1, <2>5, <3>2, AfterReadBarrier DEF Prepared
  <2> QED
    BY <2>2, <2>3, <2>4, <2>5
<1> QED
  BY <1>1, <1>2

(* The use itself is where the state says the last write or read was.       *)
LEMMA UseFollows ==
  ASSUME NEW s \in StateSet, NEW u \in UseSet, NEW events \in SUBSET EventSet,
         Follows(events, Advanced(s, u))
  PROVE  /\ AfterUse(events, u) \in SUBSET EventSet
         /\ Follows(AfterUse(events, u), Advanced(s, u))
<1> DEFINE t == Advanced(s, u)
<1>1. /\ t \in StateSet
      /\ Writes(u.access) => /\ t.write_stage = u.stage /\ t.write_access = u.access
                             /\ t.read_stages = {}
      /\ ~Writes(u.access) => u.stage \subseteq t.read_stages
  BY AdvancedFacts
<1>2. ASSUME NEW e \in Issued(u)
      PROVE  /\ e \in EventSet /\ Behind(e, EndOfFrameScope(t))
             /\ e.writes => Writes(u.access) /\ Behind(e, Scope(t.write_stage, t.write_access))
  <2>1. PICK st \in u.stage :
          e = [stage |-> st, access |-> u.access \cap WriteAccesses, writes |-> Writes(u.access),
               ordered |-> {}, available |-> FALSE, visible |-> {}]
    BY DEF Issued
  <2>2. e \in EventSet
    BY <2>1 DEF EventSet, UseSet, Writes
  <2>3. CASE Writes(u.access)
    BY <1>1, <2>1, <2>2, <2>3 DEF Behind, Precedes, AvailableAfter, EndOfFrameScope, Scope
  <2>4. CASE ~Writes(u.access)
    BY <1>1, <2>1, <2>2, <2>4 DEF Behind, Precedes, EndOfFrameScope, Scope
  <2> QED
    BY <2>3, <2>4
<1>3. CASE Writes(u.access)
  <2>1. AfterUse(events, u) = Issued(u)
    BY <1>3 DEF AfterUse
  <2> QED
    BY <1>1, <1>2, <1>3, <2>1 DEF Follows
<1>4. CASE ~Writes(u.access)
  <2>1. AfterUse(events, u) = events \cup Issued(u)
    BY <1>4 DEF AfterUse
  <2> QED
    BY <1>2, <1>4, <2>1 DEF Follows
<1> QED
  BY <1>3, <1>4

-----------------------------------------------------------------------------
(* An image that a pass makes ready itself: the pass waits for the compute  *)
(* and fragment shaders of everything before it, and flushes nothing.       *)
InOwnOrder(events) == \A e \in events : Precedes(e, OwnSource) /\ (e.writes => e.available)

(* If its last barrier is to its own dispatches, they at least are behind   *)
(* what it wrote.                                                           *)
ForDispatches(events) ==
  /\ InOwnOrder(events)
  /\ \A e \in events : e.writes =>
       /\ DispatchScope.stage \subseteq e.ordered
       /\ DispatchScope.stage \X DispatchScope.access \subseteq e.visible

\* A pass that makes an image ready itself may write it.
LEMMA OwnWriteIsOrdered ==
  ASSUME NEW events, InOwnOrder(events)
  PROVE  OrderedTransition(events, OwnSource)
BY DEF InOwnOrder, OrderedTransition, AvailableAfter

\* What it leaves is what mark_ready() notes.
LEMMA ReadyFollows ==
  /\ Transitioned(ReadyScope) \in SUBSET EventSet /\ InOwnOrder(Transitioned(ReadyScope))
  /\ \A s, u : u.stage = ReadyScope.stage /\ u.access = ReadyScope.access =>
       Follows(Transitioned(ReadyScope), MarkedReady(s, u))
<1> DEFINE st == {"fragment_shader"}
           ac == {"sampled_read"}
           e == [stage |-> "transition", access |-> {}, writes |-> TRUE, ordered |-> st,
                 available |-> TRUE, visible |-> st \X ac]
<1>1. Transitioned(ReadyScope) = {e} /\ ReadyScope.stage = st /\ ReadyScope.access = ac
  BY DEF Transitioned, ReadyScope, Scope
<1>2. st \in SUBSET Stages /\ ac \in SUBSET Accesses
  BY DEF Stages, Accesses
<1>3. e \in EventSet
  BY <1>2 DEF EventSet
<1>4. InOwnOrder({e})
  BY DEF InOwnOrder, Precedes, OwnSource, Scope
<1>5. ASSUME NEW s, NEW u, u.stage = st, u.access = ac
      PROVE  Follows({e}, MarkedReady(s, u))
  <2> DEFINE t == MarkedReady(s, u)
  <2>1. t.write_stage = st /\ t.read_stages = st /\ t.read_accesses = ac
    BY <1>5 DEF MarkedReady
  <2> HIDE DEF t
  <2>2. Behind(e, EndOfFrameScope(t)) /\ Behind(e, Scope(t.write_stage, t.write_access))
    BY <2>1 DEF Behind, Precedes, AvailableAfter, EndOfFrameScope, Scope
  <2>3. t.read_stages \subseteq e.ordered /\ t.read_stages \X t.read_accesses = e.visible
    BY <2>1
  <2> HIDE DEF e
  <2>4. Follows({e}, t)
    BY <2>2, <2>3 DEF Follows
  <2> QED
    BY <2>4 DEF e, t
<1> QED
  BY <1>1, <1>3, <1>4, <1>5

\* Reads in the stages of the pass's own barriers, and what precedes them, stay in its order.
LEMMA OwnOrderKept ==
  ASSUME NEW events \in SUBSET EventSet, InOwnOrder(events),
         NEW u \in UseSet, u.stage \subseteq OwnSource.stage
  PROVE  /\ \A s \in StateSet, r \in Resources :
              InOwnOrder(BarrierPast(TouchBarriers(r, s, u), events))
         /\ ~Writes(u.access) => InOwnOrder(AfterUse(events, u))
<1> DEFINE dst == Scope(u.stage, u.access)
<1>1. u.stage # {} /\ dst.stage = u.stage /\ dst \in ScopeSet
  BY DEF UseSet, Scope, ScopeSet
<1>2. InOwnOrder(Transitioned(dst))
  BY <1>1 DEF InOwnOrder, Transitioned, Precedes
<1>3. ASSUME NEW src \in ScopeSet PROVE InOwnOrder(AfterBarrier(events, src, dst))
  <2>1. ASSUME NEW e \in events
        PROVE  /\ Precedes(Passed(e, src, dst), OwnSource)
               /\ Passed(e, src, dst).writes => Passed(e, src, dst).available
    <3>1. e \in EventSet /\ Precedes(e, OwnSource) /\ (e.writes => e.available)
      BY DEF InOwnOrder
    <3> DEFINE p == Passed(e, src, dst)
    <3>2. /\ p.stage = e.stage /\ p.writes = e.writes /\ e.ordered \subseteq p.ordered
          /\ e.available => p.available
      BY <1>1, <3>1, PassedFacts
    <3> HIDE DEF p
    <3>3. Precedes(p, OwnSource) /\ (p.writes => p.available)
      BY <3>1, <3>2 DEF Precedes
    <3> QED
      BY <3>3 DEF p
  <2> QED
    BY <2>1 DEF AfterBarrier, InOwnOrder
<1>4. ASSUME NEW s \in StateSet, NEW r \in Resources
      PROVE  InOwnOrder(BarrierPast(TouchBarriers(r, s, u), events))
  <2>1. \A b \in TouchBarriers(r, s, u) : b.src \in ScopeSet /\ b.dst = dst
    BY BarrierFacts, SourceFacts
  <2>2. \A b \in TouchBarriers(r, s, u) : InOwnOrder(After(b, events))
    BY <1>2, <1>3, <2>1 DEF After
  <2> QED
    BY <2>2 DEF BarrierPast, InOwnOrder
<1>5. ASSUME ~Writes(u.access) PROVE InOwnOrder(AfterUse(events, u))
  <2>1. \A e \in Issued(u) : Precedes(e, OwnSource) /\ ~e.writes
    BY <1>5 DEF Issued, Precedes
  <2> QED
    BY <1>5, <2>1 DEF AfterUse, InOwnOrder
<1> QED
  BY <1>4, <1>5

\* What such a barrier leaves.
LEMMA ShortReady ==
  Transitioned(DispatchScope) \in SUBSET EventSet /\ ForDispatches(Transitioned(DispatchScope))
<1> DEFINE st == {"compute_shader"}
           ac == {"sampled_read"}
           e == [stage |-> "transition", access |-> {}, writes |-> TRUE, ordered |-> st,
                 available |-> TRUE, visible |-> st \X ac]
<1>1. Transitioned(DispatchScope) = {e} /\ DispatchScope.stage = st /\ DispatchScope.access = ac
  BY DEF Transitioned, DispatchScope, Scope
<1>2. st \in SUBSET Stages /\ ac \in SUBSET Accesses
  BY DEF Stages, Accesses
<1>3. e \in EventSet
  BY <1>2 DEF EventSet
<1>4. InOwnOrder({e})
  BY DEF InOwnOrder, Precedes, OwnSource, Scope
<1>5. e.ordered = DispatchScope.stage /\ e.visible = DispatchScope.stage \X DispatchScope.access
  BY <1>1
<1> HIDE DEF e
<1>6. ForDispatches({e})
  BY <1>4, <1>5 DEF ForDispatches
<1> QED
  BY <1>1, <1>3, <1>6

\* A barrier that is no transition, and a read, leave it so.
LEMMA ShortKept ==
  ASSUME NEW events \in SUBSET EventSet, ForDispatches(events),
         NEW u \in UseSet, u.stage \subseteq OwnSource.stage, ~Writes(u.access),
         NEW s \in StateSet, NEW r \in Resources, s.touched, s.layout = u.layout
  PROVE  LET p == BarrierPast(TouchBarriers(r, s, u), events) IN
         /\ p \in SUBSET EventSet /\ ForDispatches(p)
         /\ \A b \in TouchBarriers(r, s, u) : ~IsTransition(b)
         /\ AfterUse(events, u) \in SUBSET EventSet /\ ForDispatches(AfterUse(events, u))
<1> DEFINE dst == Scope(u.stage, u.access)
           p == BarrierPast(TouchBarriers(r, s, u), events)
<1>1. dst \in ScopeSet /\ ~Transitions(s, u)
  BY SourceFacts DEF Transitions
<1>2. \A b \in TouchBarriers(r, s, u) : ~IsTransition(b) /\ b.src \in ScopeSet /\ b.dst = dst
  BY <1>1, BarrierFacts, SourceFacts
<1>3. ASSUME NEW src \in ScopeSet, NEW e \in events
      PROVE  /\ Passed(e, src, dst) \in EventSet
             /\ Passed(e, src, dst).writes =>
                  /\ DispatchScope.stage \subseteq Passed(e, src, dst).ordered
                  /\ DispatchScope.stage \X DispatchScope.access \subseteq Passed(e, src, dst).visible
  <2> DEFINE q == Passed(e, src, dst)
  <2>1. e \in EventSet
    OBVIOUS
  <2>2. /\ q \in EventSet /\ q.writes = e.writes
        /\ e.ordered \subseteq q.ordered /\ e.visible \subseteq q.visible
    BY <1>1, <2>1, PassedFacts
  <2> HIDE DEF q
  <2>3. q.writes => /\ DispatchScope.stage \subseteq q.ordered
                    /\ DispatchScope.stage \X DispatchScope.access \subseteq q.visible
    BY <2>2 DEF ForDispatches
  <2> QED
    BY <2>2, <2>3 DEF q
<1>4. \A b \in TouchBarriers(r, s, u) :
        After(b, events) = AfterBarrier(events, b.src, dst)
  BY <1>2 DEF After
<1>5. ASSUME NEW e \in p
      PROVE  /\ e \in EventSet
             /\ e.writes => /\ DispatchScope.stage \subseteq e.ordered
                            /\ DispatchScope.stage \X DispatchScope.access \subseteq e.visible
  <2>1. CASE e \in events
    BY <2>1 DEF ForDispatches
  <2>2. CASE e \notin events
    <3>1. PICK b \in TouchBarriers(r, s, u) : e \in AfterBarrier(events, b.src, dst)
      BY <1>4, <1>5, <2>2 DEF BarrierPast
    <3>2. PICK f \in events : e = Passed(f, b.src, dst)
      BY <3>1 DEF AfterBarrier
    <3> QED
      BY <1>2, <1>3, <3>2
  <2> QED
    BY <2>1, <2>2
<1>6. InOwnOrder(p) /\ InOwnOrder(AfterUse(events, u))
  BY OwnOrderKept DEF ForDispatches
<1>7. ASSUME NEW e \in Issued(u) PROVE e \in EventSet /\ ~e.writes
  <2>1. PICK st \in u.stage :
          e = [stage |-> st, access |-> u.access \cap WriteAccesses, writes |-> Writes(u.access),
               ordered |-> {}, available |-> FALSE, visible |-> {}]
    BY DEF Issued
  <2> QED
    BY <2>1 DEF EventSet, UseSet, Writes
<1>8. AfterUse(events, u) = events \cup Issued(u)
  BY DEF AfterUse
<1> HIDE DEF p
<1>9. p \in SUBSET EventSet /\ ForDispatches(p)
  BY <1>5, <1>6 DEF ForDispatches
<1>10. AfterUse(events, u) \in SUBSET EventSet /\ ForDispatches(AfterUse(events, u))
  BY <1>6, <1>7, <1>8 DEF ForDispatches
<1> QED
  BY <1>2, <1>9, <1>10 DEF p

-----------------------------------------------------------------------------
(* What may be declared.                                                    *)
Groups == UNION {Catalogue[n] : n \in DOMAIN Catalogue}

\* The operations of a group of the catalogue.
LEMMA GroupFacts ==
  ASSUME NEW g \in Groups
  PROVE  /\ g \in Group /\ g.ops \in Seq(Operation) /\ Len(g.ops) \in Nat
         /\ DOMAIN g.ops = 1..Len(g.ops)
         /\ \A i \in DOMAIN g.ops : g.ops[i] \in Declarable /\ g.ops[i] \in Operation
<1>1. PICK n \in DOMAIN Catalogue : g \in Catalogue[n]
  BY DEF Groups
<1>2. Catalogue[n] \in SUBSET Group
  BY CatalogueAssumption
<1>3. g \in Group /\ g.ops \in Seq(Operation)
  BY <1>1, <1>2 DEF Group
<1>4. \A i \in DOMAIN g.ops : g.ops[i] \in Declarable
  BY <1>1 DEF Declarable
<1> QED
  BY <1>3, <1>4

\* Every use of an operation is one.
LEMMA UseFacts ==
  ASSUME NEW op \in Operation, NEW r \in Resources
  PROVE  UseOf(op, r) \in UseSet
<1>1. DepthResolve \in UseSet
  BY DEF DepthResolve, UseSet, Stages, Accesses, Layouts
<1> QED
  BY <1>1 DEF UseOf, Operation, UseSet

\* Images that passes make ready are otherwise read, in the stages the passes wait for.
LEMMA ReadyOpFacts ==
  ASSUME NEW op \in Declarable, NEW r \in UsedBy(op), r \in Readied
  PROVE  /\ r = op.resource /\ ~Writes(op.access)
         /\ UseOf(op, r) = [stage |-> op.stage, access |-> op.access, layout |-> op.layout]
         /\ UseOf(op, r).stage \subseteq OwnSource.stage /\ UseOf(op, r).layout = "read_only"
         /\ UseOf(op, r).access = DispatchScope.access
         /\ IF op.kind = "declare_image_ready"
              THEN /\ UseOf(op, r).stage = ReadyScope.stage
                   /\ UseOf(op, r).access = ReadyScope.access
              ELSE op.kind = "read_image"
<1>1. UsedBy(op) \cap Readied # {}
  OBVIOUS
<1>2. op.resolve = {} /\ ~Writes(op.access) /\ op.layout = "read_only"
  BY <1>1, ReadiedAreRead
<1>3. r = op.resource
  BY <1>2 DEF UsedBy
<1>4. UseOf(op, r) = [stage |-> op.stage, access |-> op.access, layout |-> op.layout]
  BY <1>3 DEF UseOf
<1>5. \/ /\ op.kind = "declare_image_ready"
         /\ op.stage = ReadyScope.stage /\ op.access = ReadyScope.access
      \/ op.kind = "read_image" /\ op.stage \subseteq OwnSource.stage
  BY <1>1, ReadiedAreRead
<1>6. ReadyScope.stage \subseteq OwnSource.stage /\ ReadyScope.access = DispatchScope.access
  BY DEF ReadyScope, DispatchScope, OwnSource, Scope
<1>7. op.access = DispatchScope.access
  <2>1. PICK other \in Declarable : other.kind = "declare_image_ready" /\ r = other.resource
    BY DEF Readied
  <2>2. UsedBy(other) \cap Readied # {} /\ r \in UsedBy(other)
    BY <2>1 DEF UsedBy
  <2>3. other.access = ReadyScope.access /\ other.layout = "read_only" /\ ~Writes(other.access)
    BY <2>1, <2>2, ReadiedAreRead
  <2>4. UseOf(other, r) = [stage |-> other.stage, access |-> other.access, layout |-> other.layout]
    BY <2>1 DEF UseOf
  <2>5. UseOf(op, r).access = UseOf(other, r).access
    BY <1>2, <1>4, <2>2, <2>3, <2>4, ReadAlike
  <2> QED
    BY <1>4, <1>6, <2>3, <2>4, <2>5
<1> QED
  BY <1>2, <1>3, <1>4, <1>5, <1>6, <1>7

\* An operation that makes an image ready uses that image only.
LEMMA ReadyIsReadied ==
  ASSUME NEW op \in Declarable, op.kind = "declare_image_ready"
  PROVE  op.resource \in Readied /\ UsedBy(op) = {op.resource}
<1>1. op.resource \in Readied /\ op.resource \in UsedBy(op)
  BY DEF Readied, UsedBy
<1>2. op.resolve = {}
  BY <1>1, ReadiedAreRead
<1> QED
  BY <1>1, <1>2 DEF UsedBy

(* The state of a resource after one operation that uses it.  A state is    *)
(* sound if what it covers is as fine as what is declared, and an image     *)
(* made ready is in the layout to sample it in.                             *)
OpState(s, op, r) ==
  IF op.kind = "declare_image_ready" THEN MarkedReady(s, UseOf(op, r)) ELSE Advanced(s, UseOf(op, r))
Sound(s, r) ==
  /\ s \in StateSet /\ \A op \in Declarable : r \in UsedBy(op) => Alike(s, UseOf(op, r))
  /\ s.touched /\ r \in Readied => s.layout = "read_only"

\* An operation leaves a sound state.
LEMMA OpStateSound ==
  ASSUME NEW r \in Resources, NEW s, Sound(s, r),
         NEW op \in Declarable, op \in Operation, r \in UsedBy(op)
  PROVE  LET t == OpState(s, op, r) IN
         Sound(t, r) /\ t.touched /\ t.carried = s.carried
<1> DEFINE u == UseOf(op, r)
           t == OpState(s, op, r)
<1>1. u \in UseSet /\ s \in StateSet /\ Alike(s, u)
  BY UseFacts DEF Sound
<1>2. ASSUME NEW other \in Declarable, r \in UsedBy(other),
             UseOf(other, r).layout = u.layout, ~Writes(u.access), ~Writes(UseOf(other, r).access)
      PROVE  UseOf(other, r).access = u.access
  BY <1>2, ReadAlike
<1>5. r \in Readied => u.layout = "read_only"
  BY ReadyOpFacts
<1>3. CASE op.kind = "declare_image_ready"
  <2>1. ~Writes(u.access)
    BY <1>3, ReadyIsReadied, ReadyOpFacts
  <2>2. t = MarkedReady(s, u)
    BY <1>3 DEF OpState
  <2> HIDE DEF u
  <2>3. /\ t \in StateSet /\ t.touched /\ t.carried = s.carried /\ t.layout = u.layout
        /\ t.read_accesses = u.access
    BY <1>1, <2>2 DEF MarkedReady, StateSet, UseSet
  <2> QED
    BY <1>2, <1>5, <2>1, <2>3 DEF Sound, Alike
<1>4. CASE op.kind # "declare_image_ready"
  <2>1. t = Advanced(s, u)
    BY <1>4 DEF OpState
  <2> HIDE DEF u
  <2>2. /\ t \in StateSet /\ t.touched /\ t.layout = u.layout /\ t.carried = s.carried
        /\ Writes(u.access) => t.read_stages = {} /\ t.read_accesses = {}
    BY <1>1, <2>1, AdvancedFacts
  <2>3. ~Writes(u.access) => t.read_accesses = u.access
    <3>1. CASE Transitions(s, u) \/ ~s.touched
      BY <1>1, <2>1, <3>1, AdvancedFacts
    <3>2. CASE ~Transitions(s, u) /\ s.touched /\ ~Writes(u.access)
      <4>1. t.read_accesses = s.read_accesses \cup u.access
        BY <1>1, <2>1, <3>2, AdvancedFacts
      <4>2. s.read_accesses \in {{}, u.access}
        BY <1>1, <3>2 DEF Alike, Transitions
      <4> QED
        BY <4>1, <4>2
    <3> QED
      BY <3>1, <3>2
  <2> QED
    BY <1>2, <1>5, <2>2, <2>3 DEF Sound, Alike
<1> QED
  BY <1>3, <1>4

-----------------------------------------------------------------------------
(* One group: the operations before the k-th that use a resource, and those *)
(* that transition it afterwards; the state of the resource between the two *)
(* and behind both; the barriers before and after the group.                *)
Users(g, k, r) ==
  {i \in DOMAIN g.ops : i < k /\ r \in UsedBy(g.ops[i]) /\ g.ops[i].kind # "transition_after"}
Leavers(g, k, r) ==
  {i \in DOMAIN g.ops : i < k /\ r \in UsedBy(g.ops[i]) /\ g.ops[i].kind = "transition_after"}
The(indices) == CHOOSE i \in indices : TRUE
Middle(g, k, r, s) ==
  IF Users(g, k, r) = {} THEN s ELSE OpState(s, g.ops[The(Users(g, k, r))], r)
End(g, k, r, s) ==
  IF Leavers(g, k, r) = {} THEN Middle(g, k, r, s)
  ELSE OpState(Middle(g, k, r, s), g.ops[The(Leavers(g, k, r))], r)
EntryBarriers(g, k, r, s) ==
  UNION {IF g.ops[i].kind = "declare_image_ready" THEN {}
         ELSE TouchBarriers(r, s, UseOf(g.ops[i], r)) : i \in Users(g, k, r)}
ExitBarriers(g, k, r, s) ==
  UNION {TouchBarriers(r, Middle(g, k, r, s), UseOf(g.ops[i], r)) : i \in Leavers(g, k, r)}
Attachments(g, k, from) ==
  {[op |-> g.ops[i], load |-> from[g.ops[i].resource].touched] :
     i \in {j \in DOMAIN g.ops : j < k /\ Attaches(g.ops[j])}}
Behindmost(g) == Len(g.ops) + 1

\* A second use of a resource in a group is its transition afterwards.
LEMMA OnceUsed ==
  ASSUME NEW g \in Groups, NEW i \in DOMAIN g.ops, NEW j \in DOMAIN g.ops, i < j,
         NEW r \in UsedBy(g.ops[i]), r \in UsedBy(g.ops[j])
  PROVE  g.ops[i].kind # "transition_after" /\ g.ops[j].kind = "transition_after"
<1>1. PICK n \in DOMAIN Catalogue : g \in Catalogue[n]
  BY DEF Groups
<1>2. \/ UsedBy(g.ops[i]) \cap UsedBy(g.ops[j]) = {}
      \/ g.ops[i].kind # "transition_after" /\ g.ops[j].kind = "transition_after"
  BY <1>1, OncePerGroup
<1> QED
  BY <1>2

\* A resource has one user and one leaver.
LEMMA OneUser ==
  ASSUME NEW g \in Groups, NEW k \in Nat, NEW r
  PROVE  /\ \A i, j \in Users(g, k, r) : i = j
         /\ \A i, j \in Leavers(g, k, r) : i = j
<1>1. \A i \in DOMAIN g.ops : i \in Nat
  BY GroupFacts
<1>2. ASSUME NEW i \in DOMAIN g.ops, NEW j \in DOMAIN g.ops, i # j,
             r \in UsedBy(g.ops[i]), r \in UsedBy(g.ops[j])
      PROVE  (g.ops[i].kind = "transition_after") # (g.ops[j].kind = "transition_after")
  <2>1. CASE i < j
    BY <1>2, <2>1, OnceUsed
  <2>2. CASE j < i
    BY <1>2, <2>2, OnceUsed
  <2> QED
    BY <1>1, <1>2, <2>1, <2>2
<1> QED
  BY <1>2 DEF Users, Leavers

\* How one more operation changes the user and the leaver of a resource.
LEMMA NextUsers ==
  ASSUME NEW g \in Groups, NEW k \in DOMAIN g.ops, NEW r
  PROVE  /\ r \notin UsedBy(g.ops[k]) => /\ Users(g, k + 1, r) = Users(g, k, r)
                                        /\ Leavers(g, k + 1, r) = Leavers(g, k, r)
         /\ r \in UsedBy(g.ops[k]) /\ g.ops[k].kind # "transition_after" =>
              /\ Users(g, k, r) = {} /\ Users(g, k + 1, r) = {k}
              /\ Leavers(g, k, r) = {} /\ Leavers(g, k + 1, r) = {}
         /\ r \in UsedBy(g.ops[k]) /\ g.ops[k].kind = "transition_after" =>
              /\ Users(g, k + 1, r) = Users(g, k, r)
              /\ Leavers(g, k, r) = {} /\ Leavers(g, k + 1, r) = {k}
<1>1. k \in Nat /\ \A i \in DOMAIN g.ops : i \in Nat
  BY GroupFacts
<1>2. \A i \in DOMAIN g.ops : i < k + 1 <=> i < k \/ i = k
  BY <1>1
<1>3. ASSUME r \in UsedBy(g.ops[k]), NEW i \in DOMAIN g.ops, i < k, r \in UsedBy(g.ops[i])
      PROVE  g.ops[i].kind # "transition_after" /\ g.ops[k].kind = "transition_after"
  BY <1>3, OnceUsed
<1>4. ~(k < k)
  BY <1>1
<1> QED
  BY <1>2, <1>3, <1>4 DEF Users, Leavers

\* Before the first operation there are none.
LEMMA FirstUsers ==
  ASSUME NEW g \in Groups, NEW r, NEW s, NEW from
  PROVE  /\ Users(g, 1, r) = {} /\ Leavers(g, 1, r) = {} /\ End(g, 1, r, s) = s
         /\ EntryBarriers(g, 1, r, s) = {} /\ ExitBarriers(g, 1, r, s) = {}
         /\ Attachments(g, 1, from) = {}
<1>1. \A i \in DOMAIN g.ops : ~(i < 1)
  BY GroupFacts
<1> QED
  BY <1>1 DEF Users, Leavers, Middle, End, EntryBarriers, ExitBarriers, Attachments

(* How each of these grows with one more operation.                         *)
LEMMA NextEnd ==
  ASSUME NEW g \in Groups, NEW k \in DOMAIN g.ops, NEW r, NEW s
  PROVE  LET op == g.ops[k] IN
         /\ End(g, k + 1, r, s) = IF r \in UsedBy(op) THEN OpState(End(g, k, r, s), op, r)
                                  ELSE End(g, k, r, s)
         /\ EntryBarriers(g, k + 1, r, s) =
              EntryBarriers(g, k, r, s) \cup
                (IF r \in UsedBy(op) /\ op.kind \notin {"declare_image_ready", "transition_after"}
                   THEN TouchBarriers(r, End(g, k, r, s), UseOf(op, r)) ELSE {})
         /\ ExitBarriers(g, k + 1, r, s) =
              ExitBarriers(g, k, r, s) \cup
                (IF r \in UsedBy(op) /\ op.kind = "transition_after"
                   THEN TouchBarriers(r, End(g, k, r, s), UseOf(op, r)) ELSE {})
<1> DEFINE op == g.ops[k]
<1>1. CASE r \notin UsedBy(op)
  <2>1. Users(g, k + 1, r) = Users(g, k, r) /\ Leavers(g, k + 1, r) = Leavers(g, k, r)
    BY <1>1, NextUsers
  <2>2. Middle(g, k + 1, r, s) = Middle(g, k, r, s)
    BY <2>1 DEF Middle
  <2>3. End(g, k + 1, r, s) = End(g, k, r, s)
    BY <2>1, <2>2 DEF End
  <2>4. /\ EntryBarriers(g, k + 1, r, s) = EntryBarriers(g, k, r, s)
        /\ ExitBarriers(g, k + 1, r, s) = ExitBarriers(g, k, r, s)
    BY <2>1, <2>2 DEF EntryBarriers, ExitBarriers
  <2> QED
    BY <1>1, <2>3, <2>4
<1>2. CASE r \in UsedBy(op) /\ op.kind # "transition_after"
  <2>1. /\ Users(g, k, r) = {} /\ Users(g, k + 1, r) = {k}
        /\ Leavers(g, k, r) = {} /\ Leavers(g, k + 1, r) = {}
    BY <1>2, NextUsers
  <2>2. End(g, k, r, s) = s /\ End(g, k + 1, r, s) = OpState(s, op, r)
    BY <2>1 DEF End, Middle, The
  <2>3. /\ EntryBarriers(g, k, r, s) = {}
        /\ EntryBarriers(g, k + 1, r, s) =
             IF op.kind = "declare_image_ready" THEN {} ELSE TouchBarriers(r, s, UseOf(op, r))
        /\ ExitBarriers(g, k, r, s) = {} /\ ExitBarriers(g, k + 1, r, s) = {}
    BY <2>1 DEF EntryBarriers, ExitBarriers
  <2> QED
    BY <1>2, <2>2, <2>3
<1>3. CASE r \in UsedBy(op) /\ op.kind = "transition_after"
  <2>1. /\ Users(g, k + 1, r) = Users(g, k, r)
        /\ Leavers(g, k, r) = {} /\ Leavers(g, k + 1, r) = {k}
    BY <1>3, NextUsers
  <2>2. Middle(g, k + 1, r, s) = Middle(g, k, r, s) /\ End(g, k, r, s) = Middle(g, k, r, s)
    BY <2>1 DEF End, Middle
  <2>3. End(g, k + 1, r, s) = OpState(Middle(g, k, r, s), op, r)
    BY <2>1, <2>2 DEF End, The
  <2>4. /\ EntryBarriers(g, k + 1, r, s) = EntryBarriers(g, k, r, s)
        /\ ExitBarriers(g, k, r, s) = {}
        /\ ExitBarriers(g, k + 1, r, s) = TouchBarriers(r, Middle(g, k, r, s), UseOf(op, r))
    BY <2>1, <2>2 DEF EntryBarriers, ExitBarriers
  <2> QED
    BY <1>3, <2>2, <2>3, <2>4
<1> QED
  BY <1>1, <1>2, <1>3

\* How one more operation changes the attachments.
LEMMA NextAttachments ==
  ASSUME NEW g \in Groups, NEW k \in DOMAIN g.ops, NEW from
  PROVE  Attachments(g, k + 1, from) = Attachments(g, k, from) \cup
           (IF Attaches(g.ops[k])
              THEN {[op |-> g.ops[k], load |-> from[g.ops[k].resource].touched]} ELSE {})
<1>1. \A i \in DOMAIN g.ops : i < k + 1 <=> i < k \/ i = k
  BY GroupFacts
<1>2. {j \in DOMAIN g.ops : j < k + 1 /\ Attaches(g.ops[j])}
        = {j \in DOMAIN g.ops : j < k /\ Attaches(g.ops[j])} \cup
            (IF Attaches(g.ops[k]) THEN {k} ELSE {})
  BY <1>1
<1> QED
  BY <1>2 DEF Attachments

(* The state stays sound, keeps what is carried, and is touched once used.  *)
LEMMA EndSound ==
  ASSUME NEW g \in Groups, NEW k \in Nat, NEW r \in Resources, NEW s, Sound(s, r)
  PROVE  /\ Sound(Middle(g, k, r, s), r) /\ Sound(End(g, k, r, s), r)
         /\ Middle(g, k, r, s).carried = s.carried /\ End(g, k, r, s).carried = s.carried
         /\ Middle(g, k, r, s).touched <=> s.touched \/ Users(g, k, r) # {}
         /\ End(g, k, r, s).touched
              <=> s.touched \/ \E i \in DOMAIN g.ops : i < k /\ r \in UsedBy(g.ops[i])
<1> DEFINE m == Middle(g, k, r, s)
           t == End(g, k, r, s)
<1>1. \A i \in DOMAIN g.ops : g.ops[i] \in Declarable /\ g.ops[i] \in Operation
  BY GroupFacts
<1>2. /\ Sound(m, r) /\ m.carried = s.carried
      /\ m.touched <=> s.touched \/ Users(g, k, r) # {}
  <2>1. CASE Users(g, k, r) = {}
    BY <2>1 DEF Middle
  <2>2. CASE Users(g, k, r) # {}
    <3> DEFINE i == The(Users(g, k, r))
    <3>1. i \in DOMAIN g.ops /\ r \in UsedBy(g.ops[i])
      BY <2>2 DEF Users, The
    <3>2. m = OpState(s, g.ops[i], r)
      BY <2>2 DEF Middle
    <3> HIDE DEF i, m
    <3> QED
      BY <1>1, <2>2, <3>1, <3>2, OpStateSound
  <2> QED
    BY <2>1, <2>2
<1>3. /\ Sound(t, r) /\ t.carried = s.carried
      /\ t.touched <=> m.touched \/ Leavers(g, k, r) # {}
  <2>1. CASE Leavers(g, k, r) = {}
    BY <1>2, <2>1 DEF End
  <2>2. CASE Leavers(g, k, r) # {}
    <3> DEFINE i == The(Leavers(g, k, r))
    <3>1. i \in DOMAIN g.ops /\ r \in UsedBy(g.ops[i])
      BY <2>2 DEF Leavers, The
    <3>2. t = OpState(m, g.ops[i], r)
      BY <2>2 DEF End
    <3> HIDE DEF i, t, m
    <3> QED
      BY <1>1, <1>2, <2>2, <3>1, <3>2, OpStateSound
  <2> QED
    BY <2>1, <2>2
<1>4. Users(g, k, r) # {} \/ Leavers(g, k, r) # {}
        <=> \E i \in DOMAIN g.ops : i < k /\ r \in UsedBy(g.ops[i])
  BY DEF Users, Leavers
<1> QED
  BY <1>2, <1>3, <1>4

(* What is carried plays no part in how a state changes.                    *)
Carrying(s, scopes) ==
  [carried |-> scopes, write_stage |-> s.write_stage, write_access |-> s.write_access,
   read_stages |-> s.read_stages, read_accesses |-> s.read_accesses,
   touched |-> s.touched, layout |-> s.layout]

\* What is carried takes no part in an operation ...
LEMMA OpStateCarrying ==
  ASSUME NEW s \in StateSet, NEW op \in Operation, NEW r \in Resources, NEW scopes
  PROVE  OpState(Carrying(s, scopes), op, r) = Carrying(OpState(s, op, r), scopes)
<1> DEFINE u == UseOf(op, r)
           c == Carrying(s, scopes)
<1>1. /\ c = [carried |-> scopes, write_stage |-> s.write_stage, write_access |-> s.write_access,
              read_stages |-> s.read_stages, read_accesses |-> s.read_accesses,
              touched |-> s.touched, layout |-> s.layout]
  BY DEF Carrying
<1> HIDE DEF u, c
<1>2. MarkedReady(c, u) = Carrying(MarkedReady(s, u), scopes)
  BY <1>1 DEF MarkedReady, Carrying
<1>3. Transitions(c, u) = Transitions(s, u)
  BY <1>1 DEF Transitions
<1>4. CASE Writes(u.access) \/ Transitions(s, u) \/ ~s.touched
  <2>1. Writes(u.access) \/ Transitions(c, u) \/ ~c.touched
    BY <1>1, <1>3, <1>4
  <2>2. Advanced(c, u) = Carrying(Advanced(s, u), scopes)
    BY <1>1, <1>4, <2>1 DEF Advanced, Carrying
  <2> QED
    BY <1>2, <2>2 DEF OpState, u, c
<1>5. CASE ~(Writes(u.access) \/ Transitions(s, u) \/ ~s.touched)
  <2>1. ~(Writes(u.access) \/ Transitions(c, u) \/ ~c.touched)
    BY <1>1, <1>3, <1>5
  <2>2. /\ Advanced(c, u) = [c EXCEPT !.read_stages = @ \cup u.stage, !.read_accesses = @ \cup u.access]
        /\ Advanced(s, u) = [s EXCEPT !.read_stages = @ \cup u.stage, !.read_accesses = @ \cup u.access]
    BY <1>5, <2>1 DEF Advanced
  <2>3. Advanced(c, u) = Carrying(Advanced(s, u), scopes)
    BY <1>1, <2>2 DEF Carrying, StateSet
  <2> QED
    BY <1>2, <2>3 DEF OpState, u, c
<1> QED
  BY <1>4, <1>5

\* ... nor in a group.
LEMMA EndCarrying ==
  ASSUME NEW g \in Groups, NEW k \in Nat, NEW r \in Resources, NEW s, Sound(s, r), NEW scopes
  PROVE  End(g, k, r, Carrying(s, scopes)) = Carrying(End(g, k, r, s), scopes)
<1> DEFINE c == Carrying(s, scopes)
<1>1. \A i \in DOMAIN g.ops : g.ops[i] \in Operation
  BY GroupFacts
<1>2. Middle(g, k, r, s) \in StateSet /\ s \in StateSet
  BY EndSound DEF Sound
<1>3. Middle(g, k, r, c) = Carrying(Middle(g, k, r, s), scopes)
  <2>1. CASE Users(g, k, r) = {}
    BY <2>1 DEF Middle
  <2>2. CASE Users(g, k, r) # {}
    <3>1. The(Users(g, k, r)) \in DOMAIN g.ops
      BY <2>2 DEF Users, The
    <3> QED
      BY <1>1, <1>2, <2>2, <3>1, OpStateCarrying DEF Middle
  <2> QED
    BY <2>1, <2>2
<1>4. CASE Leavers(g, k, r) = {}
  BY <1>3, <1>4 DEF End
<1>5. CASE Leavers(g, k, r) # {}
  <2>1. The(Leavers(g, k, r)) \in DOMAIN g.ops
    BY <1>5 DEF Leavers, The
  <2> QED
    BY <1>1, <1>2, <1>3, <1>5, <2>1, OpStateCarrying DEF End
<1> QED
  BY <1>4, <1>5

-----------------------------------------------------------------------------
(* One group on the device: before it, between its barriers and its work,   *)
(* after its work, and after the barriers behind it.                        *)
Follow(events, s, r) ==
  /\ s.touched \/ r \notin Readied => Prepared(events, s, r)
  /\ r \in Readied => InOwnOrder(events)
ReadyIn(g) ==
  {g.ops[i].resource : i \in {j \in DOMAIN g.ops : g.ops[j].kind = "declare_image_ready"}}
Ready(events, g, s, r) ==
  IF r \in ReadyIn(g) THEN InOwnOrder(events)
  ELSE /\ Follow(events, Middle(g, Behindmost(g), r, s), r)
       /\ \A i \in Users(g, Behindmost(g), r) : Sees(events, UseOf(g.ops[i], r))

\* The user of a resource, if there is one.
LEMMA SingleUser ==
  ASSUME NEW g \in Groups, NEW k \in Nat, NEW r, NEW i \in Users(g, k, r)
  PROVE  Users(g, k, r) = {i} /\ The(Users(g, k, r)) = i /\ i \in DOMAIN g.ops
           /\ r \in UsedBy(g.ops[i]) /\ g.ops[i] \in Declarable /\ g.ops[i] \in Operation
<1>1. Users(g, k, r) = {i}
  BY OneUser
<1>2. i \in DOMAIN g.ops /\ r \in UsedBy(g.ops[i])
  BY DEF Users
<1> QED
  BY <1>1, <1>2, GroupFacts DEF The

\* Its leaver, which no image made ready has.
LEMMA SingleLeaver ==
  ASSUME NEW g \in Groups, NEW k \in Nat, NEW r, NEW i \in Leavers(g, k, r)
  PROVE  Leavers(g, k, r) = {i} /\ The(Leavers(g, k, r)) = i /\ i \in DOMAIN g.ops
           /\ r \in UsedBy(g.ops[i]) /\ g.ops[i] \in Declarable /\ g.ops[i] \in Operation
           /\ g.ops[i].kind = "transition_after" /\ r \notin Readied
<1>1. Leavers(g, k, r) = {i}
  BY OneUser
<1>2. i \in DOMAIN g.ops /\ r \in UsedBy(g.ops[i]) /\ g.ops[i].kind = "transition_after"
  BY DEF Leavers
<1>3. g.ops[i] \in Declarable /\ g.ops[i] \in Operation
  BY <1>2, GroupFacts
<1>4. r \notin Readied
  BY <1>2, <1>3, ReadyOpFacts
<1> QED
  BY <1>1, <1>2, <1>3, <1>4 DEF The

\* An image is made ready by its user.
LEMMA ReadyUser ==
  ASSUME NEW g \in Groups, NEW r
  PROVE  /\ r \in ReadyIn(g) <=>
              \E i \in Users(g, Behindmost(g), r) : g.ops[i].kind = "declare_image_ready"
         /\ Behindmost(g) \in Nat
<1>1. \A i \in DOMAIN g.ops : i < Behindmost(g)
  BY GroupFacts DEF Behindmost
<1>2. Behindmost(g) \in Nat
  BY GroupFacts DEF Behindmost
<1>3. ASSUME NEW i \in DOMAIN g.ops, g.ops[i].kind = "declare_image_ready"
      PROVE  UsedBy(g.ops[i]) = {g.ops[i].resource}
  BY <1>3, GroupFacts, ReadyIsReadied
<1> QED
  BY <1>1, <1>2, <1>3 DEF ReadyIn, Users

\* The barriers at the entry of a group prepare its uses.
LEMMA GroupEntry ==
  ASSUME NEW g \in Groups, NEW r \in Resources, NEW s, Sound(s, r),
         NEW events \in SUBSET EventSet, Follow(events, s, r),
         r \in Readied /\ ~s.touched => \A i \in Users(g, Behindmost(g), r) :
           g.ops[i].kind = "declare_image_ready"
  PROVE  LET barriers == EntryBarriers(g, Behindmost(g), r, s)
             p == BarrierPast(barriers, events) IN
         /\ \A b \in barriers : IsTransition(b) => OrderedTransition(events, b.src)
         /\ p \in SUBSET EventSet /\ Ready(p, g, s, r)
<1> DEFINE k == Behindmost(g)
           barriers == EntryBarriers(g, k, r, s)
           p == BarrierPast(barriers, events)
<1>1. k \in Nat
  BY ReadyUser
<1>2. CASE Users(g, k, r) = {}
  <2>1. barriers = {} /\ Middle(g, k, r, s) = s
    BY <1>2 DEF EntryBarriers, Middle
  <2>2. p = events
    BY <2>1 DEF BarrierPast
  <2>3. r \notin ReadyIn(g)
    BY <1>2, ReadyUser
  <2> QED
    BY <1>2, <2>1, <2>2, <2>3 DEF Ready
<1>3. ASSUME NEW i \in Users(g, k, r), g.ops[i].kind = "declare_image_ready"
      PROVE  barriers = {} /\ r \in ReadyIn(g) /\ InOwnOrder(p) /\ p = events
  <2>1. Users(g, k, r) = {i} /\ r \in UsedBy(g.ops[i]) /\ g.ops[i] \in Declarable
    BY <1>1, SingleUser
  <2>2. barriers = {}
    BY <1>3, <2>1 DEF EntryBarriers
  <2>3. r \in ReadyIn(g) /\ r \in Readied
    BY <1>3, <2>1, ReadyUser, ReadyIsReadied
  <2>4. p = events
    BY <2>2 DEF BarrierPast
  <2> QED
    BY <2>2, <2>3, <2>4 DEF Follow
<1>4. ASSUME NEW i \in Users(g, k, r), g.ops[i].kind # "declare_image_ready"
      PROVE  /\ \A b \in barriers : IsTransition(b) => OrderedTransition(events, b.src)
             /\ p \in SUBSET EventSet /\ Ready(p, g, s, r)
  <2> DEFINE u == UseOf(g.ops[i], r)
  <2>1. /\ Users(g, k, r) = {i} /\ The(Users(g, k, r)) = i
        /\ r \in UsedBy(g.ops[i]) /\ g.ops[i] \in Declarable /\ g.ops[i] \in Operation
    BY <1>1, SingleUser
  <2>2. u \in UseSet /\ s \in StateSet /\ Alike(s, u)
    BY <2>1, UseFacts DEF Sound
  <2>3. Middle(g, k, r, s) = Advanced(s, u)
    BY <1>4, <2>1 DEF Middle, OpState
  <2>4. barriers = TouchBarriers(r, s, u)
    BY <1>4, <2>1 DEF EntryBarriers
  <2>5. r \notin ReadyIn(g)
    BY <1>4, <2>1, ReadyUser
  <2> HIDE DEF u, barriers, k
  <2>6. Prepared(events, s, r)
    BY <1>4 DEF Follow, k
  <2>7. /\ \A b \in barriers : IsTransition(b) => OrderedTransition(events, b.src)
        /\ p \in SUBSET EventSet /\ Follows(p, Advanced(s, u)) /\ Sees(p, u)
    BY <2>2, <2>4, <2>6, UseIsPrepared
  <2>8. r \in Readied => InOwnOrder(p)
    <3>1. ASSUME r \in Readied PROVE u.stage \subseteq OwnSource.stage
      BY <2>1, <3>1, ReadyOpFacts DEF u
    <3> QED
      BY <2>2, <2>4, <3>1, OwnOrderKept DEF Follow
  <2>9. Advanced(s, u).touched
    BY <2>2, AdvancedFacts
  <2>10. Follow(p, Advanced(s, u), r)
    BY <2>7, <2>8, <2>9 DEF Follow, Prepared
  <2> QED
    BY <2>1, <2>3, <2>5, <2>7, <2>10 DEF Ready, k, u
<1> HIDE DEF barriers, p
<1>5. ASSUME NEW i \in Users(g, k, r), g.ops[i].kind = "declare_image_ready"
      PROVE  /\ \A b \in barriers : IsTransition(b) => OrderedTransition(events, b.src)
             /\ p \in SUBSET EventSet /\ Ready(p, g, s, r)
  BY <1>3, <1>5 DEF Ready
<1> QED
  BY <1>2, <1>4, <1>5 DEF barriers, p

\* The group itself leaves what its state in the middle says, used or skipped.
LEMMA GroupBody ==
  ASSUME NEW g \in Groups, NEW r \in Resources, NEW s, Sound(s, r),
         NEW events \in SUBSET EventSet, Ready(events, g, s, r)
  PROVE  LET m == Middle(g, Behindmost(g), r, s) IN
         IF r \in ReadyIn(g)
           THEN /\ Transitioned(ReadyScope) \in SUBSET EventSet
                /\ Follow(Transitioned(ReadyScope), m, r)
           ELSE /\ Follow(events, m, r)
                /\ \A i \in Users(g, Behindmost(g), r) : LET p == AfterUse(events, UseOf(g.ops[i], r)) IN
                     p \in SUBSET EventSet /\ Follow(p, m, r)
<1> DEFINE k == Behindmost(g)
           m == Middle(g, k, r, s)
<1>1. k \in Nat
  BY ReadyUser
<1>2. CASE r \in ReadyIn(g)
  <2>1. PICK i \in Users(g, k, r) : g.ops[i].kind = "declare_image_ready"
    BY <1>2, ReadyUser
  <2>2. The(Users(g, k, r)) = i /\ r \in UsedBy(g.ops[i]) /\ g.ops[i] \in Declarable
    BY <1>1, SingleUser
  <2>3. m = MarkedReady(s, UseOf(g.ops[i], r))
    BY <2>1, <2>2 DEF Middle, OpState
  <2>4. r \in Readied
    BY <2>1, <2>2, ReadyIsReadied
  <2>5. /\ UseOf(g.ops[i], r).stage = ReadyScope.stage
        /\ UseOf(g.ops[i], r).access = ReadyScope.access
    BY <2>1, <2>2, <2>4, ReadyOpFacts
  <2>6. m.touched
    BY <2>3 DEF MarkedReady
  <2>7. /\ Transitioned(ReadyScope) \in SUBSET EventSet /\ InOwnOrder(Transitioned(ReadyScope))
        /\ Follows(Transitioned(ReadyScope), m)
    BY <2>3, <2>5, ReadyFollows
  <2> HIDE DEF m
  <2>8. Follow(Transitioned(ReadyScope), m, r)
    BY <2>6, <2>7 DEF Follow, Prepared
  <2> QED
    BY <1>2, <2>7, <2>8 DEF m
<1>3. CASE r \notin ReadyIn(g)
  <2>1. ASSUME NEW i \in Users(g, k, r)
        PROVE  LET p == AfterUse(events, UseOf(g.ops[i], r)) IN
               p \in SUBSET EventSet /\ Follow(p, m, r)
    <3> DEFINE u == UseOf(g.ops[i], r)
    <3>1. /\ The(Users(g, k, r)) = i /\ r \in UsedBy(g.ops[i])
          /\ g.ops[i] \in Declarable /\ g.ops[i] \in Operation
      BY <1>1, SingleUser
    <3>2. g.ops[i].kind # "declare_image_ready"
      BY <1>3, ReadyUser
    <3>3. m = Advanced(s, u)
      BY <3>1, <3>2 DEF Middle, OpState
    <3>4. u \in UseSet /\ s \in StateSet
      BY <3>1, UseFacts DEF Sound
    <3>5. m.touched
      BY <3>3, <3>4, AdvancedFacts
    <3>6. r \in Readied => u.stage \subseteq OwnSource.stage /\ ~Writes(u.access)
      BY <3>1, ReadyOpFacts
    <3> HIDE DEF u, m
    <3>7. Follows(events, m) /\ (r \in Readied => InOwnOrder(events))
      BY <1>3, <3>5 DEF Ready, Follow, Prepared, m
    <3>8. AfterUse(events, u) \in SUBSET EventSet /\ Follows(AfterUse(events, u), m)
      BY <3>3, <3>4, <3>7, UseFollows
    <3>9. r \in Readied => InOwnOrder(AfterUse(events, u))
      BY <3>4, <3>6, <3>7, OwnOrderKept
    <3> QED
      BY <3>5, <3>8, <3>9 DEF Follow, Prepared, u, m
  <2> QED
    BY <1>3, <2>1 DEF Ready
<1> QED
  BY <1>2, <1>3

\* The barriers at its exit leave what its last state says.
LEMMA GroupExit ==
  ASSUME NEW g \in Groups, NEW r \in Resources, NEW s, Sound(s, r),
         NEW events \in SUBSET EventSet, Follow(events, Middle(g, Behindmost(g), r, s), r)
  PROVE  LET barriers == ExitBarriers(g, Behindmost(g), r, s)
             p == BarrierPast(barriers, events) IN
         /\ \A b \in barriers : IsTransition(b) => OrderedTransition(events, b.src)
         /\ p \in SUBSET EventSet /\ Follow(p, End(g, Behindmost(g), r, s), r)
<1> DEFINE k == Behindmost(g)
           m == Middle(g, k, r, s)
           barriers == ExitBarriers(g, k, r, s)
           p == BarrierPast(barriers, events)
<1>1. k \in Nat
  BY ReadyUser
<1>2. Sound(m, r)
  BY <1>1, EndSound
<1>3. CASE Leavers(g, k, r) = {}
  <2>1. barriers = {} /\ End(g, k, r, s) = m
    BY <1>3 DEF ExitBarriers, End
  <2>2. p = events
    BY <2>1 DEF BarrierPast
  <2> QED
    BY <2>1, <2>2
<1>4. ASSUME NEW i \in Leavers(g, k, r)
      PROVE  /\ \A b \in barriers : IsTransition(b) => OrderedTransition(events, b.src)
             /\ p \in SUBSET EventSet /\ Follow(p, End(g, k, r, s), r)
  <2> DEFINE u == UseOf(g.ops[i], r)
  <2>1. /\ Leavers(g, k, r) = {i} /\ The(Leavers(g, k, r)) = i
        /\ r \in UsedBy(g.ops[i]) /\ g.ops[i] \in Declarable /\ g.ops[i] \in Operation
        /\ g.ops[i].kind = "transition_after" /\ r \notin Readied
    BY <1>1, SingleLeaver
  <2>2. u \in UseSet /\ m \in StateSet /\ Alike(m, u)
    BY <1>2, <2>1, UseFacts DEF Sound
  <2>3. End(g, k, r, s) = Advanced(m, u)
    BY <2>1 DEF End, OpState
  <2>4. barriers = TouchBarriers(r, m, u)
    BY <2>1 DEF ExitBarriers
  <2> HIDE DEF u, barriers, m, k
  <2>5. Prepared(events, m, r)
    BY <2>1 DEF Follow, k, m
  <2>6. /\ \A b \in barriers : IsTransition(b) => OrderedTransition(events, b.src)
        /\ p \in SUBSET EventSet /\ Follows(p, Advanced(m, u))
    BY <2>2, <2>4, <2>5, UseIsPrepared
  <2>7. Advanced(m, u).touched
    BY <2>2, AdvancedFacts
  <2> QED
    BY <2>1, <2>3, <2>6, <2>7 DEF Follow, Prepared
<1> HIDE DEF barriers, p
<1> QED
  BY <1>3, <1>4 DEF barriers, p

(* A group and an image whose pass ended on a barrier to its own            *)
(* dispatches: until it is made ready anew, they are behind what it wrote.  *)
LEMMA GroupShort ==
  ASSUME NEW g \in Groups, NEW r \in Resources, r \in Readied, NEW s, Sound(s, r),
         NEW events \in SUBSET EventSet, ForDispatches(events),
         ~s.touched => \A i \in Users(g, Behindmost(g), r) : g.ops[i].kind = "declare_image_ready"
  PROVE  LET barriers == EntryBarriers(g, Behindmost(g), r, s)
             p == BarrierPast(barriers, events) IN
         /\ \A b \in barriers : ~IsTransition(b)
         /\ p \in SUBSET EventSet /\ ForDispatches(p)
         /\ ExitBarriers(g, Behindmost(g), r, s) = {}
         /\ \A i \in Users(g, Behindmost(g), r) : r \notin ReadyIn(g) =>
              LET v == UseOf(g.ops[i], r) IN
              /\ ~Writes(v.access) /\ v.access = DispatchScope.access
              /\ AfterUse(events, v) \in SUBSET EventSet /\ ForDispatches(AfterUse(events, v))
<1> DEFINE k == Behindmost(g)
           barriers == EntryBarriers(g, k, r, s)
<1>1. k \in Nat
  BY ReadyUser
<1>2. ExitBarriers(g, k, r, s) = {}
  BY <1>1, SingleLeaver DEF ExitBarriers
<1>3. CASE Users(g, k, r) = {}
  <2>1. barriers = {}
    BY <1>3 DEF EntryBarriers
  <2> QED
    BY <1>2, <1>3, <2>1 DEF BarrierPast
<1>4. ASSUME NEW i \in Users(g, k, r), g.ops[i].kind = "declare_image_ready"
      PROVE  barriers = {} /\ r \in ReadyIn(g)
  <2>1. Users(g, k, r) = {i}
    BY <1>1, SingleUser
  <2>2. r \in ReadyIn(g)
    BY <1>4, ReadyUser
  <2>3. barriers = {}
    BY <1>4, <2>1 DEF EntryBarriers
  <2> QED
    BY <2>2, <2>3
<1>5. ASSUME NEW i \in Users(g, k, r), g.ops[i].kind # "declare_image_ready"
      PROVE  LET v == UseOf(g.ops[i], r) IN
             /\ \A b \in barriers : ~IsTransition(b)
             /\ BarrierPast(barriers, events) \in SUBSET EventSet
             /\ ForDispatches(BarrierPast(barriers, events))
             /\ ~Writes(v.access) /\ v.access = DispatchScope.access
             /\ AfterUse(events, v) \in SUBSET EventSet /\ ForDispatches(AfterUse(events, v))
  <2> DEFINE v == UseOf(g.ops[i], r)
  <2>1. /\ Users(g, k, r) = {i} /\ The(Users(g, k, r)) = i
        /\ r \in UsedBy(g.ops[i]) /\ g.ops[i] \in Declarable /\ g.ops[i] \in Operation
    BY <1>1, SingleUser
  <2>2. /\ v \in UseSet /\ v.stage \subseteq OwnSource.stage /\ ~Writes(v.access)
        /\ v.layout = "read_only" /\ v.access = DispatchScope.access
    BY <2>1, UseFacts, ReadyOpFacts
  <2>3. s \in StateSet /\ s.touched /\ s.layout = "read_only"
    BY <1>5 DEF Sound
  <2>4. barriers = TouchBarriers(r, s, v)
    BY <1>5, <2>1 DEF EntryBarriers
  <2> HIDE DEF v, barriers
  <2>5. /\ BarrierPast(barriers, events) \in SUBSET EventSet
        /\ ForDispatches(BarrierPast(barriers, events))
        /\ \A b \in barriers : ~IsTransition(b)
        /\ AfterUse(events, v) \in SUBSET EventSet /\ ForDispatches(AfterUse(events, v))
    BY <2>2, <2>3, <2>4, ShortKept
  <2> QED
    BY <2>2, <2>5 DEF v
<1>6. ASSUME NEW i \in Users(g, k, r), g.ops[i].kind = "declare_image_ready"
      PROVE  BarrierPast(barriers, events) = events /\ barriers = {}
  BY <1>4, <1>6 DEF BarrierPast
<1>7. ASSUME NEW i \in Users(g, k, r), r \notin ReadyIn(g)
      PROVE  g.ops[i].kind # "declare_image_ready"
  BY <1>4, <1>7
<1> HIDE DEF barriers, k
<1>8. /\ \A b \in barriers : ~IsTransition(b)
      /\ BarrierPast(barriers, events) \in SUBSET EventSet
      /\ ForDispatches(BarrierPast(barriers, events))
  BY <1>3, <1>5, <1>6 DEF barriers, k
<1> QED
  BY <1>2, <1>5, <1>7, <1>8 DEF barriers, k

-----------------------------------------------------------------------------
(* The invariant.  A program declares what compile() relies on.             *)
UsedEarlier(prog, n, r) ==
  \E m \in 1..(n - 1) : \E i \in DOMAIN prog[m].ops : r \in UsedBy(prog[m].ops[i])
Declared(prog) ==
  /\ prog \in Seq(Groups)
  /\ \A n \in 1..Len(prog) : \A i \in DOMAIN prog[n].ops : LET op == prog[n].ops[i] IN
       NeedsContent(op) => UsedEarlier(prog, n, op.resource)

(* The states its groups are compiled from, one after the other.            *)
Traced(prog, tr) ==
  /\ tr \in Seq([Resources -> StateSet])
  /\ \A n \in 1..Len(tr) : \A r \in Resources :
       Sound(tr[n][r], r) /\ (tr[n][r].touched <=> UsedEarlier(prog, n, r))
  /\ \A n \in 1..(Len(tr) - 1) : \A r \in Resources :
       tr[n + 1][r] = End(prog[n], Behindmost(prog[n]), r, tr[n][r])
CompiledAs(c, g, k, from) ==
  /\ \A r \in Resources : /\ On(c.entry, r) = EntryBarriers(g, k, r, from[r])
                          /\ On(c.exit, r) = ExitBarriers(g, k, r, from[r])
  /\ c.attachments = Attachments(g, k, from)
CompiledUpTo(comp, prog, tr, n) ==
  \A m \in 1..n : CompiledAs(comp[m], prog[m], Behindmost(prog[m]), tr[m])
CarriedInto(last, r) ==
  IF r \in Images /\ last[r].touched THEN {EndOfFrameScope(last[r])} ELSE {}

Compiling ==
  LET tr == trace[round + 1] IN
  /\ group \in 1..Len(program) /\ op_at \in 1..Behindmost(program[group])
  /\ Len(compiled) = group /\ Len(tr) = group /\ Traced(program, tr)
  /\ tr[1] = [r \in Resources |-> Untouched(carried[r])]
  /\ states = [r \in Resources |-> End(program[group], op_at, r, tr[group][r])]
  /\ CompiledAs(compiled[group], program[group], op_at, tr[group])
  /\ CompiledUpTo(compiled, program, tr, group - 1)
  /\ IF round = 0 THEN carried = NoCarried
     ELSE /\ Len(trace[1]) = Len(program) + 1 /\ Traced(program, trace[1])
          /\ carried = [r \in Resources |-> CarriedInto(trace[1][Len(program) + 1], r)]
          /\ \A n \in 1..group : \A r \in Resources :
               tr[n][r] = Carrying(trace[1][n][r], carried[r])

Ran ==
  LET tr == trace[2]  last == tr[Len(program) + 1] IN
  /\ group \in 1..Len(program) /\ Len(compiled) = Len(program)
  /\ Len(tr) = Len(program) + 1 /\ Traced(program, tr)
  /\ CompiledUpTo(compiled, program, tr, Len(program))
  /\ \A r \in Resources : /\ tr[1][r] = Untouched(CarriedInto(last, r))
                          /\ last[r].carried = CarriedInto(last, r)

Followed(r) ==
  LET g == program[group]  s == trace[2][group][r] IN
  IF r \in short THEN r \in Readied /\ ForDispatches(past[r])
  ELSE /\ point = "entry" => Follow(past[r], s, r)
       /\ point = "body" => Ready(past[r], g, s, r)
       /\ point = "exit" => Follow(past[r], Middle(g, Behindmost(g), r, s), r)

IInv ==
  /\ TypeOK /\ Declared(program)
  /\ phase = "declare" => /\ round = 0 /\ group = 1 /\ op_at = 1 /\ carried = NoCarried
                          /\ states = [r \in Resources |-> Untouched({})]
  /\ phase = "compile" => Compiling
  /\ phase # "execute" => point = "entry" /\ past = [r \in Resources |-> {}] /\ short = {}
  /\ phase = "execute" => /\ Ran /\ \A r \in Resources : Followed(r)
                          /\ point = "body" /\ ~program[group].optional => enabled

-----------------------------------------------------------------------------
(* The declarations.                                                        *)
LEMMA UntouchedFacts ==
  ASSUME NEW r, NEW scopes \in SUBSET ScopeSet
  PROVE  Sound(Untouched(scopes), r) /\ ~Untouched(scopes).touched
           /\ Untouched(scopes).carried = scopes
<1>1. Untouched(scopes) \in StateSet
  BY DEF Untouched, StateSet
<1> QED
  BY <1>1 DEF Sound, Alike, Untouched

\* What is declared is of the catalogue.
LEMMA ProgramGroup ==
  ASSUME NEW prog, Declared(prog), NEW n \in 1..Len(prog)
  PROVE  prog[n] \in Groups /\ Len(prog) \in Nat
BY DEF Declared

\* Nothing is declared, compiled or used at first.
LEMMA InitIInv == Init => IInv
<1> SUFFICES ASSUME Init PROVE IInv
  OBVIOUS
<1>1. Untouched({}) \in StateSet
  BY UntouchedFacts DEF Sound
<1>2. TypeOK
  <2>1. trace \in [1..2 -> Seq([Resources -> StateSet])]
    <3>1. <<>> \in Seq([Resources -> StateSet])
      OBVIOUS
    <3>2. trace = [q \in 1..2 |-> <<>>]
      BY DEF Init
    <3> QED
      BY <3>1, <3>2
  <2>2. /\ states \in [Resources -> StateSet]
        /\ carried \in [Resources -> SUBSET ScopeSet]
        /\ cleared_by \in [Resources -> SUBSET Nat]
        /\ past \in [Resources -> SUBSET EventSet]
        /\ layout \in [Resources -> Layouts \cup {"undefined"}]
        /\ content \in [Resources -> [defined : BOOLEAN, drawings : SUBSET Nat]]
    BY <1>1 DEF Init, NoCarried, Undefined
  <2>3. frame \in 1..(MaxFrames + 1)
    BY FramesAssumption DEF Init
  <2> QED
    BY <2>1, <2>2, <2>3 DEF Init, TypeOK
<1>3. Declared(program)
  BY DEF Init, Declared
<1> QED
  BY <1>2, <1>3 DEF Init, IInv

\* A declaration.
LEMMA AddGroupIInv ==
  ASSUME IInv, AddGroup PROVE IInv'
<1>1. PICK g \in Catalogue[Len(program) + 1] :
        /\ \A i \in DOMAIN g.ops : WellDeclared(g.ops[i])
        /\ program' = Append(program, g)
  BY DEF AddGroup
<1>2. /\ TypeOK /\ Declared(program) /\ phase = "declare" /\ Len(program) < Len(Catalogue)
      /\ UNCHANGED <<phase, walk, compiler, frame, point, enabled, device>>
  BY DEF AddGroup, IInv
<1>3. Len(program) \in Nat /\ program \in Seq(Groups)
  BY <1>2 DEF Declared
<1>4. g \in Groups
  <2>1. Len(program) + 1 \in DOMAIN Catalogue
    BY <1>2, <1>3, CatalogueAssumption
  <2> QED
    BY <1>1, <2>1 DEF Groups
<1>5. /\ program' \in Seq(Groups) /\ Len(program') = Len(program) + 1
      /\ program'[Len(program) + 1] = g /\ \A n \in 1..Len(program) : program'[n] = program[n]
  BY <1>1, <1>3, <1>4
<1>6. \A n \in 1..(Len(program) + 1) : \A r : UsedEarlier(program', n, r) <=> UsedEarlier(program, n, r)
  BY <1>3, <1>5 DEF UsedEarlier
<1>7. \A r : UsedBefore(r) <=> UsedEarlier(program, Len(program) + 1, r)
  BY <1>3 DEF UsedBefore, UsedEarlier
<1>8. Declared(program')
  <2>1. ASSUME NEW n \in 1..Len(program'), NEW i \in DOMAIN program'[n].ops
        PROVE  LET op == program'[n].ops[i] IN
               NeedsContent(op) => UsedEarlier(program', n, op.resource)
    <3>1. CASE n = Len(program) + 1
      BY <1>1, <1>3, <1>5, <1>6, <1>7, <3>1 DEF WellDeclared
    <3>2. CASE n \in 1..Len(program)
      BY <1>2, <1>3, <1>5, <1>6, <3>2 DEF Declared
    <3> QED
      BY <1>3, <1>5, <3>1, <3>2
  <2> QED
    BY <1>5, <2>1 DEF Declared
<1>9. TypeOK'
  <2>1. program' \in Seq(Group)
    <3>1. Groups \subseteq Group
      BY GroupFacts
    <3> QED
      BY <1>1, <1>2, <1>4, <3>1 DEF TypeOK
  <2> QED
    BY <1>2, <2>1 DEF TypeOK, walk, compiler, device
<1> QED
  BY <1>2, <1>8, <1>9 DEF IInv, walk, compiler, device

-----------------------------------------------------------------------------
(* compile().                                                               *)
LEMMA FreshGroup ==
  ASSUME NEW g \in Groups, NEW from
  PROVE  CompiledAs(EmptyGroup, g, 1, from) /\ EmptyGroup \in CompiledSet
<1>1. EmptyGroup.entry = {} /\ EmptyGroup.exit = {} /\ EmptyGroup.attachments = {}
  BY DEF EmptyGroup
<1>2. \A r \in Resources : /\ EntryBarriers(g, 1, r, from[r]) = {}
                           /\ ExitBarriers(g, 1, r, from[r]) = {}
                           /\ Attachments(g, 1, from) = {}
  BY FirstUsers
<1>3. Attachments(g, 1, from) = {}
  BY FirstUsers
<1>4. EmptyGroup \in CompiledSet
  BY DEF EmptyGroup, CompiledSet
<1> QED
  BY <1>1, <1>2, <1>3, <1>4 DEF CompiledAs, On

\* The first states of a walk, and how NextGroup and its end extend them.
LEMMA FirstTrace ==
  ASSUME NEW prog, NEW scopes \in [Resources -> SUBSET ScopeSet]
  PROVE  LET from == [r \in Resources |-> Untouched(scopes[r])] IN
         from \in [Resources -> StateSet] /\ Traced(prog, <<from>>)
<1> DEFINE from == [r \in Resources |-> Untouched(scopes[r])]
<1>1. \A r \in Resources : Sound(from[r], r) /\ ~from[r].touched
  BY UntouchedFacts
<1>2. from \in [Resources -> StateSet]
  BY <1>1 DEF Sound
<1>3. \A r : ~UsedEarlier(prog, 1, r)
  BY DEF UsedEarlier
<1> DEFINE tr == <<from>>
<1> HIDE DEF from
<1>4. /\ Len(tr) = 1 /\ tr[1] = from
      /\ tr \in Seq([Resources -> StateSet])
  BY <1>2
<1> HIDE DEF tr
<1>5. Traced(prog, tr)
  BY <1>1, <1>3, <1>4 DEF Traced
<1> QED
  BY <1>2, <1>5 DEF from, tr

\* One more group of the walk.
LEMMA NextTrace ==
  ASSUME NEW prog, Declared(prog), NEW tr, Traced(prog, tr), Len(tr) \in 1..Len(prog)
  PROVE  LET n == Len(tr)
             new == [r \in Resources |-> End(prog[n], Behindmost(prog[n]), r, tr[n][r])]
             longer == Append(tr, new) IN
         /\ new \in [Resources -> StateSet] /\ Traced(prog, longer) /\ Len(longer) = n + 1
         /\ longer[n + 1] = new /\ \A m \in 1..n : longer[m] = tr[m]
<1> DEFINE n == Len(tr)
           g == prog[n]
           new == [r \in Resources |-> End(g, Behindmost(g), r, tr[n][r])]
           longer == Append(tr, new)
<1>1. n \in Nat /\ n \in 1..Len(prog) /\ tr \in Seq([Resources -> StateSet])
  BY DEF Traced
<1>2. g \in Groups /\ Behindmost(g) \in Nat /\ DOMAIN g.ops = 1..Len(g.ops) /\ Len(g.ops) \in Nat
  BY <1>1, ProgramGroup, ReadyUser, GroupFacts
<1>3. ASSUME NEW r \in Resources
      PROVE  /\ Sound(new[r], r) /\ new[r] \in StateSet
             /\ new[r].touched <=> UsedEarlier(prog, n + 1, r)
  <2>1. Sound(tr[n][r], r) /\ (tr[n][r].touched <=> UsedEarlier(prog, n, r))
    BY <1>1 DEF Traced
  <2>2. /\ Sound(new[r], r)
        /\ new[r].touched <=>
             tr[n][r].touched \/ \E i \in DOMAIN g.ops : i < Behindmost(g) /\ r \in UsedBy(g.ops[i])
    <3> HIDE DEF g, n
    <3> QED
      BY <1>2, <2>1, EndSound
  <2>3. \A i \in DOMAIN g.ops : i < Behindmost(g)
    BY <1>2 DEF Behindmost
  <2>4. UsedEarlier(prog, n + 1, r)
          <=> UsedEarlier(prog, n, r) \/ \E i \in DOMAIN g.ops : r \in UsedBy(g.ops[i])
    BY <1>1 DEF UsedEarlier
  <2> QED
    BY <2>1, <2>2, <2>3, <2>4 DEF Sound
<1>4. new \in [Resources -> StateSet]
  BY <1>3
<1> HIDE DEF new
<1>5. /\ longer \in Seq([Resources -> StateSet]) /\ Len(longer) = n + 1
      /\ longer[n + 1] = new /\ \A m \in 1..n : longer[m] = tr[m]
  BY <1>1, <1>4
<1> HIDE DEF longer
<1>6. ASSUME NEW m \in 1..(n + 1), NEW r \in Resources
      PROVE  Sound(longer[m][r], r) /\ (longer[m][r].touched <=> UsedEarlier(prog, m, r))
  <2>1. CASE m = n + 1
    BY <1>3, <1>5, <2>1
  <2>2. CASE m \in 1..n
    BY <1>1, <1>5, <2>2 DEF Traced
  <2> QED
    BY <1>1, <2>1, <2>2
<1>7. ASSUME NEW m \in 1..n, NEW r \in Resources
      PROVE  longer[m + 1][r] = End(prog[m], Behindmost(prog[m]), r, longer[m][r])
  <2>1. CASE m = n
    BY <1>5, <1>1, <2>1 DEF new
  <2>2. CASE m \in 1..(n - 1)
    <3>1. m + 1 \in 1..n
      BY <1>1, <2>2
    <3>2. tr[m + 1][r] = End(prog[m], Behindmost(prog[m]), r, tr[m][r])
      BY <1>1, <2>2 DEF Traced
    <3> QED
      BY <1>1, <1>5, <3>1, <3>2
  <2> QED
    BY <1>1, <2>1, <2>2
<1>8. Traced(prog, longer)
  BY <1>1, <1>5, <1>6, <1>7 DEF Traced
<1> QED
  BY <1>4, <1>5, <1>8 DEF new, longer

\* The states at the start of a group, as the walk enters it.
LEMMA EnterGroup ==
  ASSUME NEW g \in Groups, NEW from \in [Resources -> StateSet]
  PROVE  [r \in Resources |-> End(g, 1, r, from[r])] = from
<1>1. \A r \in Resources : End(g, 1, r, from[r]) = from[r]
  BY FirstUsers
<1> QED
  BY <1>1

\* The start of compile().
LEMMA CompileIInv ==
  ASSUME IInv, Compile PROVE IInv'
<1>1. /\ TypeOK /\ Declared(program) /\ phase = "declare" /\ phase' = "compile"
      /\ program # <<>> /\ compiled' = <<EmptyGroup>> /\ trace' = [trace EXCEPT ![1] = <<states>>]
      /\ UNCHANGED <<program, walk, states, carried, cleared_by, frame, point, enabled, device>>
      /\ round = 0 /\ group = 1 /\ op_at = 1 /\ carried = NoCarried
      /\ states = [r \in Resources |-> Untouched({})]
      /\ point = "entry" /\ past = [r \in Resources |-> {}]
  BY DEF Compile, IInv
<1>2. states = [r \in Resources |-> Untouched(carried[r])]
  BY <1>1 DEF NoCarried
<1>3. carried \in [Resources -> SUBSET ScopeSet]
  BY <1>1 DEF TypeOK
<1>4. states \in [Resources -> StateSet] /\ Traced(program, <<states>>)
  BY <1>2, <1>3, FirstTrace
<1>5. 1 \in 1..Len(program) /\ program[1] \in Groups
  <2>1. Len(program) \in Nat /\ Len(program) # 0
    BY <1>1 DEF Declared
  <2>2. 1 \in 1..Len(program)
    BY <2>1
  <2> QED
    BY <1>1, <2>2, ProgramGroup
<1>6. states = [r \in Resources |-> End(program[1], 1, r, states[r])]
  BY <1>4, <1>5, EnterGroup
<1>7. CompiledAs(EmptyGroup, program[1], 1, states) /\ EmptyGroup \in CompiledSet
  BY <1>5, FreshGroup
<1>8. /\ trace[1] \in Seq([Resources -> StateSet]) /\ trace'[1] = <<states>>
      /\ trace' \in [1..2 -> Seq([Resources -> StateSet])]
  <2>1. <<states>> \in Seq([Resources -> StateSet])
    BY <1>4
  <2> QED
    BY <1>1, <2>1 DEF TypeOK
<1>9. TypeOK'
  <2>1. <<EmptyGroup>> \in Seq(CompiledSet)
    BY <1>7
  <2> QED
    BY <1>1, <1>8, <2>1 DEF TypeOK, walk, device
<1>10. Compiling'
  <2>1. 1 \in 1..Behindmost(program[1])
    BY <1>5, GroupFacts DEF Behindmost
  <2>2. /\ group' = 1 /\ op_at' = 1 /\ round' = 0 /\ program' = program
        /\ carried' = carried /\ states' = states
    BY <1>1 DEF walk
  <2>3. Len(compiled') = 1 /\ compiled'[1] = EmptyGroup /\ Len(trace'[1]) = 1 /\ trace'[1][1] = states
    BY <1>1, <1>8
  <2>4. CompiledUpTo(compiled', program, trace'[1], 0)
    BY DEF CompiledUpTo
  <2> QED
    BY <1>1, <1>2, <1>4, <1>5, <1>6, <1>7, <1>8, <2>1, <2>2, <2>3, <2>4 DEF Compiling
<1> QED
  BY <1>1, <1>9, <1>10 DEF IInv, walk, device

\* Derived barriers are of their type.
LEMMA TouchedBarriers ==
  ASSUME NEW s \in StateSet, NEW u \in UseSet, NEW r \in Resources
  PROVE  TouchBarriers(r, s, u) \subseteq BarrierSet
<1>1. ASSUME NEW src \in SourceScopes(s, u)
      PROVE  [resource |-> r, src |-> src, dst |-> Scope(u.stage, u.access),
              old |-> IF s.touched THEN s.layout ELSE "undefined", new |-> u.layout] \in BarrierSet
  <2>1. src \in ScopeSet /\ Scope(u.stage, u.access) \in ScopeSet
    BY SourceFacts
  <2>2. s.layout \in Layouts \cup {"undefined"} /\ u.layout \in Layouts
    BY DEF StateSet, UseSet
  <2> QED
    BY <2>1, <2>2 DEF BarrierSet
<1> QED
  BY <1>1 DEF TouchBarriers

\* The operation the walk is at.
LEMMA OpFacts ==
  ASSUME TypeOK, Declared(program), Compiling, Walking
  PROVE  /\ program[group] \in Groups /\ op_at \in DOMAIN program[group].ops
         /\ Op \in Declarable /\ Op \in Operation /\ UsedBy(Op) \subseteq Resources
         /\ \A r \in Resources : states[r] \in StateSet /\ UseOf(Op, r) \in UseSet
         /\ OpBarriers(Op) \subseteq BarrierSet
         /\ \A r \in Resources : On(OpBarriers(Op), r) =
              IF r \in UsedBy(Op) THEN TouchBarriers(r, states[r], UseOf(Op, r)) ELSE {}
         /\ AttachmentsOf(Op) \subseteq [op : Operation, load : BOOLEAN]
<1>1. program[group] \in Groups
  BY ProgramGroup DEF Compiling
<1>2. op_at \in DOMAIN program[group].ops
  <2>1. op_at \in 1..Behindmost(program[group]) /\ op_at <= Len(program[group].ops)
    BY DEF Compiling, Walking
  <2> QED
    BY <1>1, <2>1, GroupFacts
<1>3. Op \in Declarable /\ Op \in Operation
  BY <1>1, <1>2, GroupFacts DEF Op
<1>4. UsedBy(Op) \subseteq Resources
  BY <1>3 DEF UsedBy, Operation, Resources
<1>5. \A r \in Resources : states[r] \in StateSet /\ UseOf(Op, r) \in UseSet
  BY <1>3, UseFacts DEF TypeOK
<1>6. OpBarriers(Op) \subseteq BarrierSet
  BY <1>4, <1>5, TouchedBarriers DEF OpBarriers
<1>7. ASSUME NEW r \in Resources
      PROVE  On(OpBarriers(Op), r) =
               IF r \in UsedBy(Op) THEN TouchBarriers(r, states[r], UseOf(Op, r)) ELSE {}
  <2>1. \A q \in UsedBy(Op) : \A b \in TouchBarriers(q, states[q], UseOf(Op, q)) : b.resource = q
    BY <1>4, <1>5, BarrierFacts
  <2> QED
    BY <2>1 DEF On, OpBarriers
<1>8. AttachmentsOf(Op) \subseteq [op : Operation, load : BOOLEAN]
  <2>1. states[Op.resource].touched \in BOOLEAN
    BY <1>4, <1>5 DEF UsedBy, StateSet
  <2> QED
    BY <1>3, <2>1 DEF AttachmentsOf
<1> QED
  BY <1>1, <1>2, <1>3, <1>4, <1>5, <1>6, <1>7, <1>8

(* What every operation of the walk does to the invariant.                  *)
LEMMA WalkStep ==
  ASSUME TypeOK, Declared(program), Compiling, Walking,
         states' = [r \in Resources |-> IF r \in UsedBy(Op) THEN OpState(states[r], Op, r)
                                        ELSE states[r]],
         op_at' = op_at + 1, UNCHANGED <<program, round, group, carried, trace>>,
         Len(compiled') = Len(compiled),
         \A n \in 1..Len(compiled) : n # group =>
           /\ compiled'[n].entry = compiled[n].entry /\ compiled'[n].exit = compiled[n].exit
           /\ compiled'[n].attachments = compiled[n].attachments,
         compiled'[group].entry = compiled[group].entry \cup
           (IF Op.kind \notin {"declare_image_ready", "transition_after"} THEN OpBarriers(Op) ELSE {}),
         compiled'[group].exit = compiled[group].exit \cup
           (IF Op.kind = "transition_after" THEN OpBarriers(Op) ELSE {}),
         compiled'[group].attachments = compiled[group].attachments \cup AttachmentsOf(Op)
  PROVE  Compiling'
<1> DEFINE g == program[group]
           from == trace[round + 1][group]
           k == op_at
<1>1. /\ g \in Groups /\ k \in DOMAIN g.ops /\ k \in Nat /\ Op = g.ops[k]
      /\ Op \in Declarable /\ Op \in Operation /\ UsedBy(Op) \subseteq Resources
  BY OpFacts, GroupFacts DEF Op
<1>2. op_at' \in 1..Behindmost(g)
  BY <1>1, GroupFacts DEF Behindmost
<1>3. \A r \in Resources : states[r] = End(g, k, r, from[r])
  BY DEF Compiling
<1>4. states' = [r \in Resources |-> End(g, k + 1, r, from[r])]
  <2>1. \A r \in Resources : End(g, k + 1, r, from[r]) =
          IF r \in UsedBy(Op) THEN OpState(states[r], Op, r) ELSE states[r]
    <3> HIDE DEF g, k, from
    <3> QED
      BY <1>1, <1>3, NextEnd
  <2> QED
    BY <2>1
<1>5. CompiledAs(compiled[group], g, k, from)
  BY DEF Compiling
<1>6. CompiledAs(compiled'[group], g, k + 1, from)
  <2>1. ASSUME NEW r \in Resources
        PROVE  /\ On(compiled'[group].entry, r) = EntryBarriers(g, k + 1, r, from[r])
               /\ On(compiled'[group].exit, r) = ExitBarriers(g, k + 1, r, from[r])
    <3>1. On(OpBarriers(Op), r) =
            IF r \in UsedBy(Op) THEN TouchBarriers(r, states[r], UseOf(Op, r)) ELSE {}
      BY OpFacts
    <3>2. /\ EntryBarriers(g, k + 1, r, from[r]) =
               EntryBarriers(g, k, r, from[r]) \cup
                 (IF r \in UsedBy(Op) /\ Op.kind \notin {"declare_image_ready", "transition_after"}
                    THEN TouchBarriers(r, states[r], UseOf(Op, r)) ELSE {})
          /\ ExitBarriers(g, k + 1, r, from[r]) =
               ExitBarriers(g, k, r, from[r]) \cup
                 (IF r \in UsedBy(Op) /\ Op.kind = "transition_after"
                    THEN TouchBarriers(r, states[r], UseOf(Op, r)) ELSE {})
      <4> HIDE DEF g, k, from
      <4> QED
        BY <1>1, <1>3, NextEnd
    <3>3. /\ On(compiled[group].entry, r) = EntryBarriers(g, k, r, from[r])
          /\ On(compiled[group].exit, r) = ExitBarriers(g, k, r, from[r])
      BY <1>5 DEF CompiledAs
    <3>4. \A A, B : On(A \cup B, r) = On(A, r) \cup On(B, r)
      BY DEF On
    <3>5. On({}, r) = {}
      BY DEF On
    <3> DEFINE before == IF Op.kind \notin {"declare_image_ready", "transition_after"}
                           THEN OpBarriers(Op) ELSE {}
               after == IF Op.kind = "transition_after" THEN OpBarriers(Op) ELSE {}
    <3>6. /\ On(before, r) = IF r \in UsedBy(Op) /\ Op.kind \notin {"declare_image_ready", "transition_after"}
                              THEN TouchBarriers(r, states[r], UseOf(Op, r)) ELSE {}
          /\ On(after, r) = IF r \in UsedBy(Op) /\ Op.kind = "transition_after"
                              THEN TouchBarriers(r, states[r], UseOf(Op, r)) ELSE {}
      BY <3>1, <3>5
    <3>7. /\ On(compiled'[group].entry, r) = On(compiled[group].entry, r) \cup On(before, r)
          /\ On(compiled'[group].exit, r) = On(compiled[group].exit, r) \cup On(after, r)
      BY <3>4
    <3> HIDE DEF g, k, from, before, after
    <3> QED
      BY <3>2, <3>3, <3>6, <3>7
  <2>2. compiled'[group].attachments = Attachments(g, k + 1, from)
    <3>1. Attachments(g, k + 1, from) = Attachments(g, k, from) \cup
            (IF Attaches(Op) THEN {[op |-> Op, load |-> from[Op.resource].touched]} ELSE {})
      <4> HIDE DEF g, k, from
      <4> QED
        BY <1>1, NextAttachments
    <3>2. Attaches(Op) => states[Op.resource] = from[Op.resource]
      <4>1. ASSUME Attaches(Op) PROVE states[Op.resource] = from[Op.resource]
        <5>1. Op.resource \in UsedBy(Op) /\ Op.resource \in Resources /\ Op.kind # "transition_after"
          BY <1>1, <4>1 DEF Attaches, UsedBy
        <5>2. Users(g, k, Op.resource) = {} /\ Leavers(g, k, Op.resource) = {}
          <6> HIDE DEF g, k
          <6> QED
            BY <1>1, <5>1, NextUsers
        <5> QED
          BY <1>3, <5>1, <5>2 DEF End, Middle
      <4> QED
        BY <4>1
    <3>3. compiled[group].attachments = Attachments(g, k, from)
      BY <1>5 DEF CompiledAs
    <3>4. AttachmentsOf(Op) =
            IF Attaches(Op) THEN {[op |-> Op, load |-> from[Op.resource].touched]} ELSE {}
      BY <3>2 DEF AttachmentsOf
    <3> HIDE DEF g, k, from
    <3> QED
      BY <3>1, <3>3, <3>4
  <2> HIDE DEF g, k, from
  <2> QED
    BY <2>1, <2>2 DEF CompiledAs
<1>7. CompiledUpTo(compiled', program, trace[round + 1], group - 1)
  <2>1. CompiledUpTo(compiled, program, trace[round + 1], group - 1) /\ Len(compiled) = group
        /\ group \in Nat
    BY DEF Compiling, TypeOK
  <2>2. \A n \in 1..(group - 1) : n \in 1..Len(compiled) /\ n # group
    BY <2>1
  <2> QED
    BY <2>1, <2>2 DEF CompiledUpTo, CompiledAs
<1> QED
  BY <1>2, <1>4, <1>6, <1>7 DEF Compiling

\* Noting clears changes nothing but clear_on_skip.
LEMMA WithClearsFacts ==
  ASSUME compiled \in Seq(CompiledSet), NEW owners
  PROVE  /\ WithClears(owners) \in Seq(CompiledSet) /\ Len(WithClears(owners)) = Len(compiled)
         /\ \A n \in 1..Len(compiled) :
              /\ WithClears(owners)[n].entry = compiled[n].entry
              /\ WithClears(owners)[n].exit = compiled[n].exit
              /\ WithClears(owners)[n].attachments = compiled[n].attachments
<1> DEFINE w == WithClears(owners)
<1>1. DOMAIN compiled = 1..Len(compiled) /\ Len(compiled) \in Nat
  OBVIOUS
<1>2. ASSUME NEW n \in 1..Len(compiled)
      PROVE  /\ w[n] \in CompiledSet /\ w[n].entry = compiled[n].entry
             /\ w[n].exit = compiled[n].exit /\ w[n].attachments = compiled[n].attachments
  <2> DEFINE c == compiled[n]
             b == c.clear_on_skip \/ n \in owners
  <2>1. c \in CompiledSet /\ b \in BOOLEAN
    OBVIOUS
  <2>2. w[n] = [c EXCEPT !.clear_on_skip = b]
    BY <1>1 DEF WithClears
  <2> HIDE DEF c, b, w
  <2>3. /\ w[n] \in CompiledSet /\ w[n].entry = c.entry
        /\ w[n].exit = c.exit /\ w[n].attachments = c.attachments
    BY <2>1, <2>2 DEF CompiledSet
  <2> QED
    BY <2>3 DEF c
<1>3. w = [n \in 1..Len(compiled) |-> w[n]]
  BY <1>1 DEF WithClears
<1> HIDE DEF w
<1>4. w \in Seq(CompiledSet) /\ Len(w) = Len(compiled)
  BY <1>1, <1>2, <1>3
<1> QED
  BY <1>2, <1>4 DEF w

\* The states after an operation are of their type.
LEMMA WalkStates ==
  ASSUME TypeOK, Declared(program), Compiling, Walking
  PROVE  [r \in Resources |-> IF r \in UsedBy(Op) THEN OpState(states[r], Op, r) ELSE states[r]]
           \in [Resources -> StateSet]
<1>1. ASSUME NEW r \in Resources
      PROVE  OpState(states[r], Op, r) \in StateSet /\ states[r] \in StateSet
  <2>1. states[r] \in StateSet /\ UseOf(Op, r) \in UseSet
    BY <1>1, OpFacts
  <2>2. MarkedReady(states[r], UseOf(Op, r)) \in StateSet
    BY <2>1 DEF MarkedReady, StateSet, UseSet
  <2>3. Advanced(states[r], UseOf(Op, r)) \in StateSet
    BY <2>1, AdvancedFacts
  <2> QED
    BY <2>1, <2>2, <2>3 DEF OpState
<1> QED
  BY <1>1

\* A use: its barriers are the entry barriers the group was to have.
LEMMA ApplyUseIInv ==
  ASSUME IInv, ApplyUse PROVE IInv'
<1>1. /\ TypeOK /\ Declared(program) /\ Compiling /\ Walking /\ phase = "compile"
      /\ point = "entry" /\ past = [r \in Resources |-> {}]
  BY DEF ApplyUse, IInv, Walking
<1> DEFINE w == WithClears(NotedClears(Op))
           entry == w[group].entry \cup OpBarriers(Op)
           attachments == w[group].attachments \cup AttachmentsOf(Op)
<1>2. /\ Op.kind \notin {"declare_image_ready", "transition_after"}
      /\ compiled' = [w EXCEPT ![group].entry = @ \cup OpBarriers(Op),
                               ![group].attachments = @ \cup AttachmentsOf(Op)]
      /\ cleared_by' = [r \in Resources |-> IF r \in FirstUses(Op) THEN {group} ELSE cleared_by[r]]
      /\ states' = StatesAfter(Op) /\ op_at' = op_at + 1
      /\ UNCHANGED <<program, phase, round, group, carried, trace, frame, point, enabled, device>>
  BY DEF ApplyUse
<1>3. /\ w \in Seq(CompiledSet) /\ Len(w) = Len(compiled)
      /\ \A n \in 1..Len(compiled) : /\ w[n].entry = compiled[n].entry /\ w[n].exit = compiled[n].exit
                                     /\ w[n].attachments = compiled[n].attachments
  BY <1>1, WithClearsFacts DEF TypeOK
<1>4. group \in 1..Len(compiled) /\ op_at \in Nat /\ Len(compiled) = group
  BY <1>1 DEF Compiling, TypeOK
<1>5. /\ compiled' \in Seq(CompiledSet) /\ Len(compiled') = Len(compiled)
      /\ compiled'[group].entry = entry /\ compiled'[group].exit = w[group].exit
      /\ compiled'[group].attachments = attachments
      /\ \A n \in 1..Len(compiled) : n # group => compiled'[n] = w[n]
  <2>1. OpBarriers(Op) \subseteq BarrierSet /\ AttachmentsOf(Op) \subseteq [op : Operation, load : BOOLEAN]
    BY <1>1, OpFacts
  <2> DEFINE c == w[group]
             d == [c EXCEPT !.entry = entry, !.attachments = attachments]
  <2>2. compiled' = [w EXCEPT ![group] = d]
    BY <1>2
  <2>3. c \in CompiledSet
    BY <1>3, <1>4
  <2>4. /\ d \in CompiledSet /\ d.entry = entry /\ d.exit = c.exit
        /\ d.attachments = attachments
    <3>1. entry \in SUBSET BarrierSet /\ attachments \in SUBSET [op : Operation, load : BOOLEAN]
      BY <2>1, <2>3 DEF CompiledSet
    <3> HIDE DEF c, entry, attachments
    <3> QED
      BY <2>3, <3>1 DEF CompiledSet
  <2> HIDE DEF w, d, c, entry, attachments
  <2>5. /\ compiled' \in Seq(CompiledSet) /\ Len(compiled') = Len(w) /\ compiled'[group] = d
        /\ \A n \in 1..Len(w) : n # group => compiled'[n] = w[n]
    BY <1>3, <1>4, <2>2, <2>4
  <2> QED
    BY <1>3, <2>4, <2>5 DEF c
<1>6. states' = [r \in Resources |-> IF r \in UsedBy(Op) THEN OpState(states[r], Op, r) ELSE states[r]]
  BY <1>2 DEF StatesAfter, OpState
<1>7. states' \in [Resources -> StateSet]
  BY <1>1, <1>6, WalkStates
<1> HIDE DEF w
<1>8. Compiling'
  <2>1. /\ compiled'[group].entry = compiled[group].entry \cup OpBarriers(Op)
        /\ compiled'[group].exit = compiled[group].exit
        /\ compiled'[group].attachments = compiled[group].attachments \cup AttachmentsOf(Op)
    BY <1>3, <1>4, <1>5
  <2>2. \A n \in 1..Len(compiled) : n # group =>
           /\ compiled'[n].entry = compiled[n].entry /\ compiled'[n].exit = compiled[n].exit
           /\ compiled'[n].attachments = compiled[n].attachments
    BY <1>3, <1>5
  <2> QED
    BY <1>1, <1>2, <1>5, <1>6, <2>1, <2>2, WalkStep
<1>9. TypeOK'
  <2>1. cleared_by' \in [Resources -> SUBSET Nat]
    BY <1>1, <1>2 DEF TypeOK
  <2> QED
    BY <1>1, <1>2, <1>4, <1>5, <1>7, <2>1 DEF TypeOK, device
<1> QED
  BY <1>1, <1>2, <1>8, <1>9 DEF IInv, device

\* declare_image_ready: the state is set, no barrier is derived.
LEMMA ApplyDeclareReadyIInv ==
  ASSUME IInv, ApplyDeclareReady PROVE IInv'
<1>1. /\ TypeOK /\ Declared(program) /\ Compiling /\ Walking /\ phase = "compile"
      /\ point = "entry" /\ past = [r \in Resources |-> {}]
  BY DEF ApplyDeclareReady, IInv, Walking
<1>2. /\ Op.kind = "declare_image_ready" /\ op_at' = op_at + 1
      /\ states' = [states EXCEPT ![Op.resource] = MarkedReady(@, UseOf(Op, Op.resource))]
      /\ UNCHANGED <<program, phase, round, group, carried, cleared_by, compiled, trace,
                     frame, point, enabled, device>>
  BY DEF ApplyDeclareReady
<1>3. UsedBy(Op) = {Op.resource} /\ Op.resource \in Resources
  <2>1. Op \in Declarable /\ UsedBy(Op) \subseteq Resources
    BY <1>1, OpFacts
  <2>2. UsedBy(Op) = {Op.resource}
    BY <1>2, <2>1, ReadyIsReadied
  <2> QED
    BY <2>1, <2>2
<1>4. states' = [r \in Resources |-> IF r \in UsedBy(Op) THEN OpState(states[r], Op, r) ELSE states[r]]
  <2>1. states \in [Resources -> StateSet]
    BY <1>1 DEF TypeOK
  <2> QED
    BY <1>2, <1>3, <2>1 DEF OpState
<1>5. AttachmentsOf(Op) = {}
  BY <1>2 DEF AttachmentsOf, Attaches
<1>6. Compiling'
  BY <1>1, <1>2, <1>4, <1>5, WalkStep
<1>7. TypeOK'
  <2>1. states' \in [Resources -> StateSet]
    BY <1>1, <1>4, WalkStates
  <2> QED
    BY <1>1, <1>2, <2>1 DEF TypeOK, device
<1> QED
  BY <1>1, <1>2, <1>6, <1>7 DEF IInv, device

\* transition_after: its barriers are exit barriers.
LEMMA ApplyTransitionAfterIInv ==
  ASSUME IInv, ApplyTransitionAfter PROVE IInv'
<1>1. /\ TypeOK /\ Declared(program) /\ Compiling /\ Walking /\ phase = "compile"
      /\ point = "entry" /\ past = [r \in Resources |-> {}]
  BY DEF ApplyTransitionAfter, IInv, Walking
<1>2. /\ Op.kind = "transition_after" /\ op_at' = op_at + 1 /\ states' = StatesAfter(Op)
      /\ compiled' = [compiled EXCEPT ![group].exit = @ \cup OpBarriers(Op)]
      /\ UNCHANGED <<program, phase, round, group, carried, cleared_by, trace,
                     frame, point, enabled, device>>
  BY DEF ApplyTransitionAfter
<1>3. states' = [r \in Resources |-> IF r \in UsedBy(Op) THEN OpState(states[r], Op, r) ELSE states[r]]
  BY <1>2 DEF StatesAfter, OpState
<1>4. AttachmentsOf(Op) = {}
  BY <1>2 DEF AttachmentsOf, Attaches
<1>5. group \in 1..Len(compiled) /\ op_at \in Nat /\ compiled \in Seq(CompiledSet)
  BY <1>1 DEF Compiling, TypeOK
<1>6. /\ compiled' \in Seq(CompiledSet) /\ Len(compiled') = Len(compiled)
      /\ compiled'[group].entry = compiled[group].entry
      /\ compiled'[group].exit = compiled[group].exit \cup OpBarriers(Op)
      /\ compiled'[group].attachments = compiled[group].attachments
      /\ \A n \in 1..Len(compiled) : n # group => compiled'[n] = compiled[n]
  <2>1. OpBarriers(Op) \subseteq BarrierSet
    BY <1>1, OpFacts
  <2> DEFINE c == compiled[group]
             exit == c.exit \cup OpBarriers(Op)
             d == [c EXCEPT !.exit = exit]
  <2>2. compiled' = [compiled EXCEPT ![group] = d]
    BY <1>2
  <2>3. c \in CompiledSet
    BY <1>5
  <2>4. /\ d \in CompiledSet /\ d.entry = c.entry /\ d.exit = exit /\ d.attachments = c.attachments
    <3>1. exit \in SUBSET BarrierSet
      BY <2>1, <2>3 DEF CompiledSet
    <3> HIDE DEF c, exit
    <3> QED
      BY <2>3, <3>1 DEF CompiledSet
  <2> HIDE DEF d, c, exit
  <2>5. /\ compiled' \in Seq(CompiledSet) /\ Len(compiled') = Len(compiled) /\ compiled'[group] = d
        /\ \A n \in 1..Len(compiled) : n # group => compiled'[n] = compiled[n]
    BY <1>5, <2>2, <2>4
  <2> QED
    BY <2>4, <2>5 DEF c, exit
<1>7. Compiling'
  BY <1>1, <1>2, <1>3, <1>4, <1>6, WalkStep
<1>8. TypeOK'
  <2>1. states' \in [Resources -> StateSet]
    BY <1>1, <1>3, WalkStates
  <2> QED
    BY <1>1, <1>2, <1>5, <1>6, <2>1 DEF TypeOK, device
<1> QED
  BY <1>1, <1>2, <1>7, <1>8 DEF IInv, device

\* At the end of a group the walk has the state of the next one.
LEMMA GroupDone ==
  ASSUME TypeOK, Declared(program), Compiling, op_at > Len(program[group].ops)
  PROVE  LET tr == trace[round + 1]  g == program[group] IN
         /\ op_at = Behindmost(g) /\ g \in Groups /\ group \in Nat /\ group <= Len(program)
         /\ states = [r \in Resources |-> End(g, Behindmost(g), r, tr[group][r])]
         /\ Traced(program, Append(tr, states)) /\ Len(Append(tr, states)) = group + 1
         /\ Append(tr, states)[group + 1] = states
         /\ \A m \in 1..group : Append(tr, states)[m] = tr[m]
         /\ CompiledUpTo(compiled, program, Append(tr, states), group)
<1> DEFINE tr == trace[round + 1]
           g == program[group]
<1>1. /\ group \in 1..Len(program) /\ op_at \in 1..Behindmost(g) /\ Len(tr) = group
      /\ Traced(program, tr)
      /\ states = [r \in Resources |-> End(g, op_at, r, tr[group][r])]
      /\ CompiledAs(compiled[group], g, op_at, tr[group])
      /\ CompiledUpTo(compiled, program, tr, group - 1)
  BY DEF Compiling
<1>2. g \in Groups /\ Len(g.ops) \in Nat /\ Len(program) \in Nat
  BY <1>1, ProgramGroup, GroupFacts
<1>3. op_at = Behindmost(g)
  BY <1>1, <1>2 DEF Behindmost
<1>4. /\ Traced(program, Append(tr, states)) /\ Len(Append(tr, states)) = group + 1
      /\ Append(tr, states)[group + 1] = states
      /\ \A m \in 1..group : Append(tr, states)[m] = tr[m]
  <2>1. Len(tr) \in 1..Len(program)
    BY <1>1
  <2>2. states = [r \in Resources |-> End(program[Len(tr)], Behindmost(program[Len(tr)]), r, tr[Len(tr)][r])]
    BY <1>1, <1>3
  <2>3. states \in [Resources -> StateSet]
    BY DEF TypeOK
  <2> HIDE DEF tr
  <2>4. /\ Traced(program, Append(tr, states)) /\ Len(Append(tr, states)) = Len(tr) + 1
        /\ Append(tr, states)[Len(tr) + 1] = states
        /\ \A m \in 1..Len(tr) : Append(tr, states)[m] = tr[m]
    BY <1>1, <2>1, <2>2, NextTrace
  <2> QED
    BY <1>1, <2>4
<1>5. CompiledUpTo(compiled, program, Append(tr, states), group)
  <2>1. ASSUME NEW m \in 1..group
        PROVE  CompiledAs(compiled[m], program[m], Behindmost(program[m]), Append(tr, states)[m])
    <3>1. CASE m = group
      BY <1>1, <1>3, <1>4, <3>1
    <3>2. CASE m \in 1..(group - 1)
      <4>1. CompiledAs(compiled[m], program[m], Behindmost(program[m]), tr[m])
        BY <1>1, <3>2 DEF CompiledUpTo
      <4> QED
        BY <1>4, <4>1
    <3> QED
      BY <1>1, <3>1, <3>2
  <2> QED
    BY <2>1 DEF CompiledUpTo
<1> QED
  BY <1>1, <1>2, <1>3, <1>4, <1>5

\* In the second round the states carry what the first one ended with.
LEMMA CarryingOn ==
  ASSUME TypeOK, Declared(program), Compiling, round = 1, op_at > Len(program[group].ops),
         NEW r \in Resources
  PROVE  states[r] = Carrying(trace[1][group + 1][r], carried[r])
<1> DEFINE g == program[group]
           k == Behindmost(g)
           s == trace[1][group][r]
<1>1. /\ g \in Groups /\ group \in 1..Len(program) /\ Len(program) \in Nat /\ k \in Nat
      /\ states[r] = End(g, k, r, trace[2][group][r])
  BY GroupDone, ProgramGroup, ReadyUser DEF Compiling
<1>2. /\ Len(trace[1]) = Len(program) + 1 /\ Traced(program, trace[1])
      /\ trace[2][group][r] = Carrying(s, carried[r])
  BY <1>1 DEF Compiling
<1>3. Sound(s, r)
  BY <1>1, <1>2 DEF Traced
<1>4. trace[1][group + 1][r] = End(g, k, r, s)
  BY <1>1, <1>2 DEF Traced
<1> HIDE DEF g, k, s
<1>5. End(g, k, r, Carrying(s, carried[r])) = Carrying(End(g, k, r, s), carried[r])
  BY <1>1, <1>3, EndCarrying
<1> QED
  BY <1>1, <1>2, <1>4, <1>5

\* The next group of a round.
LEMMA NextGroupIInv ==
  ASSUME IInv, NextGroup PROVE IInv'
<1> DEFINE q == round + 1
           tr == trace[q]
           longer == Append(tr, states)
<1>1. /\ TypeOK /\ Declared(program) /\ Compiling /\ phase = "compile"
      /\ point = "entry" /\ past = [r \in Resources |-> {}]
      /\ group < Len(program) /\ op_at > Len(program[group].ops)
      /\ group' = group + 1 /\ op_at' = 1 /\ compiled' = Append(compiled, EmptyGroup)
      /\ trace' = [trace EXCEPT ![q] = longer]
      /\ UNCHANGED <<program, phase, round, states, carried, cleared_by, frame, point, enabled, device>>
  BY DEF NextGroup, IInv
<1>2. /\ program[group] \in Groups /\ group \in Nat
      /\ states = [r \in Resources |-> End(program[group], Behindmost(program[group]), r, tr[group][r])]
      /\ Traced(program, longer) /\ Len(longer) = group + 1 /\ longer[group + 1] = states
      /\ \A m \in 1..group : longer[m] = tr[m]
      /\ CompiledUpTo(compiled, program, longer, group)
  BY <1>1, GroupDone
<1>3. q \in 1..2 /\ trace \in [1..2 -> Seq([Resources -> StateSet])] /\ round \in 0..1
  BY <1>1 DEF TypeOK
<1> HIDE DEF longer
<1>4. /\ trace'[q] = longer /\ \A p \in 1..2 : p # q => trace'[p] = trace[p]
      /\ trace' \in [1..2 -> Seq([Resources -> StateSet])]
  <2>1. longer \in Seq([Resources -> StateSet])
    BY <1>2 DEF Traced
  <2> HIDE DEF q
  <2> QED
    BY <1>1, <1>3, <2>1
<1>5. group + 1 \in 1..Len(program) /\ program[group + 1] \in Groups
  <2>1. Len(program) \in Nat /\ group + 1 \in 1..Len(program)
    BY <1>1, <1>2 DEF Declared
  <2> QED
    BY <1>1, <2>1, ProgramGroup
<1>6. CompiledAs(EmptyGroup, program[group + 1], 1, longer[group + 1]) /\ EmptyGroup \in CompiledSet
  BY <1>5, FreshGroup
<1>7. /\ compiled' \in Seq(CompiledSet) /\ Len(compiled') = group + 1
      /\ compiled'[group + 1] = EmptyGroup /\ \A m \in 1..group : compiled'[m] = compiled[m]
  <2>1. compiled \in Seq(CompiledSet) /\ Len(compiled) = group
    BY <1>1 DEF TypeOK, Compiling
  <2> QED
    BY <1>1, <1>6, <2>1
<1>8. TypeOK'
  <2>1. group' \in Nat \ {0}
    BY <1>1, <1>2
  <2> QED
    BY <1>1, <1>4, <1>7, <2>1 DEF TypeOK, device
<1>9. Compiling'
  <2>1. 1 \in 1..Behindmost(program[group + 1])
    BY <1>5, GroupFacts DEF Behindmost
  <2>2. states = [r \in Resources |-> End(program[group + 1], 1, r, longer[group + 1][r])]
    <3>1. states \in [Resources -> StateSet]
      BY <1>1 DEF TypeOK
    <3> QED
      BY <1>2, <1>5, <3>1, EnterGroup
  <2>3. longer[1] = [r \in Resources |-> Untouched(carried[r])]
    BY <1>1, <1>2 DEF Compiling
  <2>4. CompiledUpTo(compiled', program, longer, group)
    BY <1>2, <1>7 DEF CompiledUpTo
  <2>5. IF round = 0 THEN carried = NoCarried
        ELSE /\ Len(trace'[1]) = Len(program) + 1 /\ Traced(program, trace'[1])
             /\ carried = [r \in Resources |-> CarriedInto(trace'[1][Len(program) + 1], r)]
             /\ \A n \in 1..(group + 1) : \A r \in Resources :
                  longer[n][r] = Carrying(trace'[1][n][r], carried[r])
    <3>1. CASE round = 0
      BY <1>1, <3>1 DEF Compiling
    <3>2. CASE round = 1
      <4>1. trace'[1] = trace[1] /\ tr = trace[2]
        BY <1>4, <3>2
      <4>2. /\ Len(trace[1]) = Len(program) + 1 /\ Traced(program, trace[1])
            /\ carried = [r \in Resources |-> CarriedInto(trace[1][Len(program) + 1], r)]
            /\ \A n \in 1..group : \A r \in Resources :
                 tr[n][r] = Carrying(trace[1][n][r], carried[r])
        BY <1>1, <3>2 DEF Compiling
      <4>3. \A r \in Resources : states[r] = Carrying(trace[1][group + 1][r], carried[r])
        BY <1>1, <3>2, CarryingOn
      <4>4. ASSUME NEW n \in 1..(group + 1), NEW r \in Resources
            PROVE  longer[n][r] = Carrying(trace[1][n][r], carried[r])
        <5>1. CASE n = group + 1
          BY <1>2, <4>3, <5>1
        <5>2. CASE n \in 1..group
          BY <1>2, <4>2, <5>2
        <5> QED
          BY <1>2, <5>1, <5>2
      <4> QED
        BY <3>2, <4>1, <4>2, <4>4
    <3> QED
      BY <1>3, <3>1, <3>2
  <2>6. /\ round' = round /\ carried' = carried /\ states' = states /\ program' = program
        /\ trace'[round + 1] = longer /\ op_at' = 1 /\ group' = group + 1
        /\ group' - 1 = group
    BY <1>1, <1>2, <1>4
  <2> QED
    BY <1>2, <1>5, <1>6, <1>7, <2>1, <2>2, <2>3, <2>4, <2>5, <2>6 DEF Compiling
<1> QED
  BY <1>1, <1>8, <1>9 DEF IInv, device

\* The end of the first round: what it found is carried into the second.
LEMMA SecondRoundIInv ==
  ASSUME IInv, SecondRound PROVE IInv'
<1> DEFINE tr == trace[1]
           longer == Append(tr, states)
           n == Len(program)
<1>1. /\ TypeOK /\ Declared(program) /\ Compiling /\ phase = "compile" /\ round = 0
      /\ point = "entry" /\ past = [r \in Resources |-> {}] /\ short = {}
      /\ group = n /\ op_at > Len(program[group].ops)
      /\ carried' = [r \in Resources |->
           IF r \in Images /\ states[r].touched THEN {EndOfFrameScope(states[r])} ELSE {}]
      /\ states' = [r \in Resources |-> Untouched(carried'[r])] /\ cleared_by' = NoCarried
      /\ round' = 1 /\ group' = 1 /\ op_at' = 1 /\ compiled' = <<EmptyGroup>>
      /\ trace' = [trace EXCEPT ![1] = longer, ![2] = <<states'>>]
      /\ UNCHANGED <<program, phase, frame, point, enabled, device>>
  BY DEF SecondRound, RoundEnds, IInv
<1>2. /\ n \in Nat /\ n # 0 /\ states \in [Resources -> StateSet]
      /\ trace \in [1..2 -> Seq([Resources -> StateSet])]
  BY <1>1 DEF Declared, Compiling, TypeOK
<1>3. /\ Traced(program, longer) /\ Len(longer) = n + 1 /\ longer[n + 1] = states
      /\ \A m \in 1..n : longer[m] = tr[m]
  BY <1>1, GroupDone
<1>4. carried' \in [Resources -> SUBSET ScopeSet]
  <2>1. \A r \in Resources : states[r] \in StateSet
    BY <1>2
  <2>2. \A s \in StateSet : EndOfFrameScope(s) \in ScopeSet
    BY DEF EndOfFrameScope, StateSet, ScopeSet, Scope
  <2>3. \A r \in Resources :
          (IF r \in Images /\ states[r].touched THEN {EndOfFrameScope(states[r])} ELSE {})
            \in SUBSET ScopeSet
    BY <2>1, <2>2
  <2> QED
    BY <1>1, <2>3
<1>5. states' \in [Resources -> StateSet] /\ Traced(program, <<states'>>)
  <2> DEFINE c == carried'
             from == [r \in Resources |-> Untouched(c[r])]
  <2>1. from \in [Resources -> StateSet] /\ Traced(program, <<from>>)
    <3> HIDE DEF c
    <3> QED
      BY <1>4, FirstTrace DEF c
  <2>2. states' = from
    BY <1>1
  <2> QED
    BY <2>1, <2>2
<1> HIDE DEF longer
<1>6. /\ trace'[1] = longer /\ trace'[2] = <<states'>>
      /\ trace' \in [1..2 -> Seq([Resources -> StateSet])]
  <2>1. longer \in Seq([Resources -> StateSet]) /\ <<states'>> \in Seq([Resources -> StateSet])
    BY <1>3, <1>5 DEF Traced
  <2> DEFINE first == <<states'>>
  <2>2. trace' = [trace EXCEPT ![1] = longer, ![2] = first]
    BY <1>1
  <2> HIDE DEF first
  <2>3. trace'[1] = longer /\ trace'[2] = first /\ trace' \in [1..2 -> Seq([Resources -> StateSet])]
    BY <1>2, <2>1, <2>2 DEF first
  <2> QED
    BY <2>3 DEF first
<1>7. 1 \in 1..n /\ program[1] \in Groups
  <2>1. 1 \in 1..n
    BY <1>2
  <2> QED
    BY <1>1, <2>1, ProgramGroup
<1>8. CompiledAs(EmptyGroup, program[1], 1, states') /\ EmptyGroup \in CompiledSet
  BY <1>7, FreshGroup
<1>9. TypeOK'
  <2>1. <<EmptyGroup>> \in Seq(CompiledSet) /\ NoCarried \in [Resources -> SUBSET Nat]
    BY <1>8 DEF NoCarried
  <2>2. /\ TypeOK /\ round' = 1 /\ group' = 1 /\ op_at' = 1 /\ compiled' = <<EmptyGroup>>
        /\ cleared_by' = NoCarried
        /\ UNCHANGED <<program, phase, frame, point, enabled, device>>
    BY <1>1
  <2> QED
    BY <1>4, <1>5, <1>6, <2>1, <2>2 DEF TypeOK, device
<1>10. Compiling'
  <2>1. 1 \in 1..Behindmost(program[1])
    BY <1>7, GroupFacts DEF Behindmost
  <2>2. states' = [r \in Resources |-> End(program[1], 1, r, states'[r])]
    BY <1>5, <1>7, EnterGroup
  <2>3. carried' = [r \in Resources |-> CarriedInto(longer[n + 1], r)]
    BY <1>1, <1>3 DEF CarriedInto
  <2>4. \A r \in Resources : states'[r] = Carrying(longer[1][r], carried'[r])
    <3>1. longer[1] = [r \in Resources |-> Untouched({})]
      <4>1. longer[1] = tr[1]
        BY <1>3, <1>7
      <4>2. tr[1] = [r \in Resources |-> Untouched(carried[r])] /\ carried = NoCarried
        BY <1>1 DEF Compiling
      <4> QED
        BY <4>1, <4>2 DEF NoCarried
    <3>2. ASSUME NEW scopes PROVE Untouched(scopes) = Carrying(Untouched({}), scopes)
      BY DEF Untouched, Carrying
    <3> QED
      BY <1>1, <3>1, <3>2
  <2>5. /\ Len(compiled') = 1 /\ compiled'[1] = EmptyGroup
        /\ Len(trace'[2]) = 1 /\ trace'[2][1] = states'
    BY <1>1, <1>6
  <2>6. CompiledUpTo(compiled', program, trace'[2], 0)
    BY DEF CompiledUpTo
  <2>7. \A m \in 1..1 : m = 1
    OBVIOUS
  <2>8. /\ program' = program /\ round' = 1 /\ round' + 1 = 2 /\ group' = 1 /\ op_at' = 1
        /\ group' - 1 = 0
    BY <1>1
  <2>9. states' = [r \in Resources |-> Untouched(carried'[r])]
    BY <1>1
  <2>10. Traced(program, trace'[2]) /\ Traced(program, trace'[1]) /\ Len(trace'[1]) = n + 1
    BY <1>3, <1>5, <1>6
  <2> QED
    BY <1>6, <1>7, <1>8, <2>1, <2>2, <2>3, <2>4, <2>5, <2>6, <2>7, <2>8, <2>9, <2>10 DEF Compiling
<1> QED
  BY <1>1, <1>9, <1>10 DEF IInv, device

\* The end of the second round: the graph is compiled.
LEMMA CompileEndsIInv ==
  ASSUME IInv, CompileEnds PROVE IInv'
<1> DEFINE tr == trace[2]
           longer == Append(tr, states)
           n == Len(program)
           last == trace[1][n + 1]
<1>1. /\ TypeOK /\ Declared(program) /\ Compiling /\ phase = "compile" /\ round = 1
      /\ point = "entry" /\ past = [r \in Resources |-> {}] /\ short = {}
      /\ group = n /\ op_at > Len(program[group].ops)
      /\ phase' = "execute" /\ round' = 0 /\ group' = 1 /\ op_at' = 1
      /\ states' = [r \in Resources |-> Untouched({})]
      /\ carried' = NoCarried /\ cleared_by' = NoCarried
      /\ trace' = [trace EXCEPT ![2] = longer]
      /\ UNCHANGED <<program, compiled, frame, point, enabled, device>>
  BY DEF CompileEnds, RoundEnds, IInv
<1>2. /\ n \in Nat /\ n # 0 /\ Len(compiled) = n /\ round + 1 = 2
      /\ trace \in [1..2 -> Seq([Resources -> StateSet])]
  BY <1>1 DEF Declared, Compiling, TypeOK
<1>3. /\ Traced(program, longer) /\ Len(longer) = n + 1 /\ longer[n + 1] = states
      /\ \A m \in 1..n : longer[m] = tr[m]
      /\ CompiledUpTo(compiled, program, longer, n)
  BY <1>1, <1>2, GroupDone
<1>4. /\ tr[1] = [r \in Resources |-> Untouched(carried[r])]
      /\ carried = [r \in Resources |-> CarriedInto(last, r)]
  BY <1>1, <1>2 DEF Compiling
<1>5. \A r \in Resources : states[r] = Carrying(last[r], carried[r])
  BY <1>1, CarryingOn
<1> HIDE DEF longer, last
<1>6. ASSUME NEW r \in Resources
      PROVE  /\ CarriedInto(states, r) = carried[r] /\ states[r].carried = carried[r]
             /\ longer[1][r] = Untouched(carried[r])
  <2>1. EndOfFrameScope(Carrying(last[r], carried[r])) = EndOfFrameScope(last[r])
    BY DEF EndOfFrameScope, Carrying
  <2>2. /\ Carrying(last[r], carried[r]).touched = last[r].touched
        /\ Carrying(last[r], carried[r]).carried = carried[r]
    BY DEF Carrying
  <2>3. carried[r] = CarriedInto(last, r)
    BY <1>4
  <2>4. longer[1] = tr[1]
    BY <1>2, <1>3
  <2>5. CarriedInto(states, r) = CarriedInto(last, r)
    BY <1>5, <2>1, <2>2 DEF CarriedInto
  <2> QED
    BY <1>4, <1>5, <2>2, <2>3, <2>4, <2>5
<1>7. trace'[2] = longer /\ trace' \in [1..2 -> Seq([Resources -> StateSet])]
  <2>1. longer \in Seq([Resources -> StateSet])
    BY <1>3 DEF Traced
  <2> QED
    BY <1>1, <1>2, <2>1
<1>8. TypeOK'
  <2>1. Untouched({}) \in StateSet
    BY UntouchedFacts DEF Sound
  <2>2. NoCarried \in [Resources -> SUBSET ScopeSet] /\ NoCarried \in [Resources -> SUBSET Nat]
    BY DEF NoCarried
  <2> QED
    BY <1>1, <1>7, <2>1, <2>2 DEF TypeOK, device
<1>9. Ran'
  <2>1. 1 \in 1..n
    BY <1>2
  <2>2. \A r \in Resources : /\ longer[1][r] = Untouched(CarriedInto(longer[n + 1], r))
                              /\ longer[n + 1][r].carried = CarriedInto(longer[n + 1], r)
    BY <1>3, <1>6
  <2> QED
    BY <1>1, <1>2, <1>3, <1>7, <2>1, <2>2 DEF Ran
<1>10. ASSUME NEW r \in Resources PROVE Followed(r)'
  <2>1. trace'[2][1][r] = Untouched(carried[r]) /\ past'[r] = {} /\ short' = {}
    BY <1>1, <1>6, <1>7 DEF device
  <2>2. r \notin Images => carried[r] = {}
    BY <1>4 DEF CarriedInto
  <2>3. Follow({}, Untouched(carried[r]), r)
    BY <2>2 DEF Follow, Prepared, Follows, FollowsCarried, InOwnOrder, Untouched
  <2> QED
    BY <1>1, <2>1, <2>3 DEF Followed
<1> QED
  BY <1>1, <1>8, <1>9, <1>10 DEF IInv

-----------------------------------------------------------------------------
(* execute().                                                               *)
LEMMA CurrentFacts ==
  ASSUME IInv, phase = "execute"
  PROVE  LET g == program[group]  from == trace[2][group] IN
         /\ g \in Groups /\ Behindmost(g) \in Nat /\ group \in Nat /\ group \in 1..Len(program)
         /\ CompiledAs(Current, g, Behindmost(g), from)
         /\ \A r \in Resources :
              /\ Sound(from[r], r) /\ (from[r].touched <=> UsedEarlier(program, group, r))
              /\ trace[2][group + 1][r] = End(g, Behindmost(g), r, from[r])
              /\ past[r] \in SUBSET EventSet
<1>1. /\ group \in 1..Len(program) /\ Len(trace[2]) = Len(program) + 1 /\ Declared(program)
      /\ Traced(program, trace[2]) /\ CompiledUpTo(compiled, program, trace[2], Len(program))
      /\ TypeOK
  BY DEF IInv, Ran
<1>2. program[group] \in Groups /\ Len(program) \in Nat
  BY <1>1, ProgramGroup
<1>3. group \in 1..Len(trace[2]) /\ group \in 1..(Len(trace[2]) - 1)
  BY <1>1, <1>2
<1>4. CompiledAs(Current, program[group], Behindmost(program[group]), trace[2][group])
  BY <1>1 DEF CompiledUpTo, Current
<1>5. past \in [Resources -> SUBSET EventSet]
  BY <1>1 DEF TypeOK
<1>6. Behindmost(program[group]) \in Nat /\ group \in Nat
  BY <1>1, <1>2, ReadyUser
<1>7. ASSUME NEW r \in Resources
      PROVE  /\ Sound(trace[2][group][r], r)
             /\ trace[2][group][r].touched <=> UsedEarlier(program, group, r)
             /\ trace[2][group + 1][r]
                  = End(program[group], Behindmost(program[group]), r, trace[2][group][r])
             /\ past[r] \in SUBSET EventSet
  BY <1>1, <1>3, <1>5 DEF Traced
<1> QED
  BY <1>1, <1>2, <1>4, <1>6, <1>7

\* An image that is made ready is first used by who makes it ready.
LEMMA ReadyFirst ==
  ASSUME IInv, phase = "execute", NEW r \in Resources, r \in Readied,
         ~trace[2][group][r].touched,
         NEW i \in Users(program[group], Behindmost(program[group]), r)
  PROVE  program[group].ops[i].kind = "declare_image_ready"
<1> DEFINE g == program[group]
           op == g.ops[i]
<1>1. g \in Groups /\ group \in 1..Len(program) /\ ~UsedEarlier(program, group, r)
      /\ Behindmost(g) \in Nat
  BY CurrentFacts
<1>2. i \in DOMAIN g.ops /\ r \in UsedBy(op) /\ op \in Declarable
  BY <1>1, SingleUser
<1>3. r = op.resource
  BY <1>2, ReadyOpFacts
<1>4. ~NeedsContent(op)
  <2>1. NeedsContent(op) => UsedEarlier(program, group, op.resource)
    BY <1>1, <1>2 DEF IInv, Declared
  <2> QED
    BY <1>1, <1>3, <2>1
<1>5. op.kind # "read_image"
  BY <1>4 DEF NeedsContent
<1> QED
  BY <1>2, <1>5, ReadyOpFacts

\* The entry barriers of the group that is executed.
LEMMA EntryStep ==
  ASSUME IInv, Executing("entry"), NEW r \in Resources
  PROVE  /\ \A b \in On(Current.entry, r) : IsTransition(b) => OrderedTransition(past[r], b.src)
         /\ PastAfter(Current.entry, r) \in SUBSET EventSet
         /\ IF r \in short THEN r \in Readied /\ ForDispatches(PastAfter(Current.entry, r))
            ELSE Ready(PastAfter(Current.entry, r), program[group], trace[2][group][r], r)
<1> DEFINE g == program[group]
           s == trace[2][group][r]
           barriers == EntryBarriers(g, Behindmost(g), r, s)
<1>1. /\ g \in Groups /\ Sound(s, r) /\ past[r] \in SUBSET EventSet
      /\ On(Current.entry, r) = barriers
  BY CurrentFacts DEF Executing, CompiledAs
<1>2. IF r \in short THEN r \in Readied /\ ForDispatches(past[r]) ELSE Follow(past[r], s, r)
  BY DEF IInv, Executing, Followed
<1>3. PastAfter(Current.entry, r) = BarrierPast(barriers, past[r])
  BY <1>1 DEF PastAfter, BarrierPast
<1>4. r \in Readied /\ ~s.touched => \A i \in Users(g, Behindmost(g), r) :
        g.ops[i].kind = "declare_image_ready"
  BY ReadyFirst DEF Executing
<1> HIDE DEF g, s
<1>5. CASE r \notin short
  <2>1. /\ \A b \in barriers : IsTransition(b) => OrderedTransition(past[r], b.src)
        /\ BarrierPast(barriers, past[r]) \in SUBSET EventSet
        /\ Ready(BarrierPast(barriers, past[r]), g, s, r)
    BY <1>1, <1>2, <1>4, <1>5, GroupEntry
  <2> QED
    BY <1>1, <1>3, <1>5, <2>1 DEF g, s
<1>6. CASE r \in short
  <2>1. /\ \A b \in barriers : ~IsTransition(b)
        /\ BarrierPast(barriers, past[r]) \in SUBSET EventSet
        /\ ForDispatches(BarrierPast(barriers, past[r]))
    BY <1>1, <1>2, <1>4, <1>6, GroupShort
  <2> QED
    BY <1>1, <1>2, <1>3, <1>6, <2>1
<1> QED
  BY <1>5, <1>6

\* Its exit barriers.
LEMMA ExitStep ==
  ASSUME IInv, Executing("exit"), NEW r \in Resources
  PROVE  /\ \A b \in On(Current.exit, r) : IsTransition(b) => OrderedTransition(past[r], b.src)
         /\ PastAfter(Current.exit, r) \in SUBSET EventSet
         /\ IF r \in short THEN r \in Readied /\ ForDispatches(PastAfter(Current.exit, r))
            ELSE Follow(PastAfter(Current.exit, r), trace[2][group + 1][r], r)
<1> DEFINE g == program[group]
           s == trace[2][group][r]
           barriers == ExitBarriers(g, Behindmost(g), r, s)
<1>1. /\ g \in Groups /\ Sound(s, r) /\ past[r] \in SUBSET EventSet
      /\ On(Current.exit, r) = barriers
      /\ trace[2][group + 1][r] = End(g, Behindmost(g), r, s)
  BY CurrentFacts DEF Executing, CompiledAs
<1>2. IF r \in short THEN r \in Readied /\ ForDispatches(past[r])
      ELSE Follow(past[r], Middle(g, Behindmost(g), r, s), r)
  BY DEF IInv, Executing, Followed
<1>3. PastAfter(Current.exit, r) = BarrierPast(barriers, past[r])
  BY <1>1 DEF PastAfter, BarrierPast
<1>4. r \in Readied => barriers = {}
  BY <1>1, CurrentFacts, SingleLeaver DEF ExitBarriers, Executing
<1> HIDE DEF g, s
<1>5. CASE r \notin short
  <2>1. /\ \A b \in barriers : IsTransition(b) => OrderedTransition(past[r], b.src)
        /\ BarrierPast(barriers, past[r]) \in SUBSET EventSet
        /\ Follow(BarrierPast(barriers, past[r]), End(g, Behindmost(g), r, s), r)
    BY <1>1, <1>2, <1>5, GroupExit
  <2> QED
    BY <1>1, <1>3, <1>5, <2>1 DEF g, s
<1>6. CASE r \in short
  <2>1. barriers = {} /\ BarrierPast(barriers, past[r]) = past[r]
    BY <1>2, <1>4, <1>6 DEF BarrierPast
  <2> QED
    BY <1>1, <1>2, <1>3, <1>6, <2>1
<1> QED
  BY <1>5, <1>6

\* What is not loaded is cleared, and was declared to be written.
LEMMA ClearIsDeclared ==
  ASSUME IInv, phase = "execute", NEW a \in Current.attachments
  PROVE  /\ \E i \in DOMAIN program[group].ops : a.op = program[group].ops[i]
         /\ Attaches(a.op) /\ (a.load \/ WritesOf(a.op) \in a.op.access)
<1> DEFINE g == program[group]
           from == trace[2][group]
<1>1. /\ g \in Groups /\ group \in 1..Len(program)
      /\ Current.attachments = Attachments(g, Behindmost(g), from)
  BY CurrentFacts DEF CompiledAs
<1>2. PICK i \in DOMAIN g.ops :
        Attaches(g.ops[i]) /\ a = [op |-> g.ops[i], load |-> from[g.ops[i].resource].touched]
  BY <1>1 DEF Attachments
<1> DEFINE op == g.ops[i]
<1>3. a.op = op /\ (a.load <=> from[op.resource].touched)
  BY <1>2
<1>4. op \in Declarable /\ op \in Operation /\ op.resource \in Resources
  BY <1>1, GroupFacts DEF Operation
<1>5. from[op.resource].touched <=> UsedEarlier(program, group, op.resource)
  BY <1>4, CurrentFacts
<1>6. NeedsContent(op) => UsedEarlier(program, group, op.resource)
  BY <1>1, <1>2 DEF IInv, Declared
<1>7. CASE ~a.load
  <2>1. Writes(op.access)
    BY <1>2, <1>3, <1>5, <1>6, <1>7 DEF NeedsContent
  <2>2. op.access \cap WriteAccesses \subseteq {WritesOf(op)}
    BY <1>2, <1>4, WrittenAsAttached
  <2>3. WritesOf(op) \in op.access
    BY <2>1, <2>2 DEF Writes
  <2> QED
    BY <1>2, <1>3, <2>3
<1> QED
  BY <1>2, <1>3, <1>7

(* A use is what was declared of it, but for the load of an attachment: in  *)
(* these stages and this layout, with no other writes, and with no accesses *)
(* but the undeclared ones besides.                                         *)
DeclaredAs(u, v, r) ==
  /\ u.stage = v.stage /\ u.layout = v.layout
  /\ u.access \cap WriteAccesses = v.access \cap WriteAccesses
  /\ [u EXCEPT !.access = @ \ Undeclared(r)].stage = v.stage
  /\ [u EXCEPT !.access = @ \ Undeclared(r)].access \subseteq v.access

\* What a group does on the device is what one of its operations declares.
LEMMA UsesAreDeclared ==
  ASSUME IInv, Executing("body"), NEW r \in Resources, NEW u \in Uses(r)
  PROVE  /\ \E i \in Users(program[group], Behindmost(program[group]), r) :
              DeclaredAs(u, UseOf(program[group].ops[i], r), r)
         /\ r \notin ReadyIn(program[group])
<1> DEFINE g == program[group]
<1>1. g \in Groups /\ Behindmost(g) \in Nat /\ phase = "execute"
  BY CurrentFacts DEF Executing
<1>6. ASSUME NEW i \in DOMAIN g.ops, u = UseOf(g.ops[i], r)
      PROVE  DeclaredAs(u, UseOf(g.ops[i], r), r)
  <2>1. u \in UseSet
    BY <1>1, <1>6, GroupFacts, UseFacts
  <2> QED
    BY <1>6, <2>1 DEF DeclaredAs, UseSet
<1>2. PICK i \in DOMAIN g.ops : r \in UsedBy(g.ops[i]) /\ DeclaredAs(u, UseOf(g.ops[i], r), r)
        /\ g.ops[i].kind \notin {"declare_image_ready", "transition_after"}
  <2>1. CASE u \in PassUses(r)
    <3>1. PICK op \in EnabledOps({"read_image", "write_image", "read_buffer", "write_buffer"}) :
            op.resource = r /\ u = UseOf(op, r)
      BY <2>1 DEF PassUses
    <3>2. PICK i \in DOMAIN g.ops : op = g.ops[i]
      BY <3>1 DEF EnabledOps
    <3>3. op.kind \notin {"declare_image_ready", "transition_after"}
      BY <3>1 DEF EnabledOps
    <3> QED
      BY <1>6, <3>1, <3>2, <3>3 DEF UsedBy
  <2>2. CASE u \in AttachmentUses(r)
    <3>1. CASE \E a \in Current.attachments : a.op.resource = r /\
                 u = [UseOf(a.op, r) EXCEPT !.access = @ \cup {LoadAccess(a.op, a.load)}]
      <4>1. PICK a \in Current.attachments : a.op.resource = r /\
              u = [UseOf(a.op, r) EXCEPT !.access = @ \cup {LoadAccess(a.op, a.load)}]
        BY <3>1
      <4>2. PICK i \in DOMAIN g.ops : a.op = g.ops[i]
        BY <1>1, ClearIsDeclared
      <4>3. Attaches(a.op) /\ (a.load \/ WritesOf(a.op) \in a.op.access)
        BY <1>1, ClearIsDeclared
      <4>4. UseOf(a.op, r) = [stage |-> a.op.stage, access |-> a.op.access, layout |-> a.op.layout]
        BY <4>1 DEF UseOf
      <4> DEFINE more == LoadAccess(a.op, a.load)
      <4>5. u = [stage |-> a.op.stage, access |-> a.op.access \cup {more}, layout |-> a.op.layout]
        BY <4>1, <4>4
      <4>6. more \in a.op.access \/ (more \in Undeclared(r) /\ more \notin WriteAccesses)
        BY <4>1, <4>3, AccessAssumption DEF LoadAccess, Undeclared, ReadsOf
      <4> HIDE DEF more
      <4>7. DeclaredAs(u, UseOf(a.op, r), r)
        BY <4>4, <4>5, <4>6 DEF DeclaredAs
      <4>8. r \in UsedBy(a.op) /\ a.op.kind \notin {"declare_image_ready", "transition_after"}
        BY <4>1, <4>3 DEF UsedBy, Attaches
      <4> QED
        BY <4>2, <4>7, <4>8
    <3>2. CASE \E a \in Current.attachments : r \in a.op.resolve /\ u = UseOf(a.op, r)
      <4>1. PICK a \in Current.attachments : r \in a.op.resolve /\ u = UseOf(a.op, r)
        BY <3>2
      <4>2. PICK i \in DOMAIN g.ops : a.op = g.ops[i]
        BY <1>1, ClearIsDeclared
      <4>3. Attaches(a.op)
        BY <1>1, ClearIsDeclared
      <4> QED
        BY <1>6, <4>1, <4>2, <4>3 DEF UsedBy, Attaches
    <3> QED
      BY <2>2, <3>1, <3>2 DEF AttachmentUses
  <2> QED
    BY <2>1, <2>2 DEF Uses
<1>3. i \in Users(g, Behindmost(g), r)
  <2>1. i < Behindmost(g)
    BY <1>1, GroupFacts DEF Behindmost
  <2> QED
    BY <1>2, <2>1 DEF Users
<1>4. Users(g, Behindmost(g), r) = {i}
  BY <1>1, <1>3, SingleUser
<1>5. r \notin ReadyIn(g)
  BY <1>1, <1>2, <1>4, ReadyUser
<1> QED
  BY <1>2, <1>3, <1>5

\* A group that makes an image ready is enabled.
LEMMA OwnWritesReady ==
  ASSUME IInv, Executing("body")
  PROVE  OwnWrites = ReadyIn(program[group])
<1> DEFINE g == program[group]
<1>1. /\ g \in Groups /\ (~g.optional => enabled)
  BY CurrentFacts DEF Executing, IInv
<1>2. (\E i \in DOMAIN g.ops : g.ops[i].kind = "declare_image_ready") => enabled
  <2>1. PICK n \in DOMAIN Catalogue : g \in Catalogue[n]
    BY <1>1 DEF Groups
  <2> QED
    BY <1>1, <2>1, ReadiedAreRead
<1> QED
  BY <1>2 DEF OwnWrites, ReadyIn, EnabledOps

\* They are resources, and are made ready.
LEMMA OwnWritesAreResources ==
  ASSUME IInv, Executing("body")
  PROVE  OwnWrites \subseteq Resources \cap Readied
<1> DEFINE g == program[group]
<1>1. g \in Groups /\ OwnWrites = ReadyIn(g)
  BY OwnWritesReady, CurrentFacts DEF Executing
<1>2. ASSUME NEW i \in DOMAIN g.ops, g.ops[i].kind = "declare_image_ready"
      PROVE  g.ops[i].resource \in Resources \cap Readied
  BY <1>1, <1>2, GroupFacts, ReadyIsReadied DEF Operation
<1> QED
  BY <1>1, <1>2 DEF ReadyIn

BodyPast(r, ends) ==
  IF r \in OwnWrites THEN Transitioned(LastBarrier(r, ends))
  ELSE IF Uses(r) = {} THEN past[r] ELSE UNION {AfterUse(past[r], u) : u \in Uses(r)}

\* Uses leave what the declared one leaves, and find what it finds.
LEMMA UsedAsDeclared ==
  ASSUME NEW events, NEW r, NEW u, NEW v, DeclaredAs(u, v, r)
  PROVE  /\ AfterUse(events, u) = AfterUse(events, v)
         /\ Sees(events, v) => /\ OrderedUse(events, u)
                               /\ VisibleUse(events, [u EXCEPT !.access = @ \ Undeclared(r)])
<1> DEFINE w == [u EXCEPT !.access = @ \ Undeclared(r)]
<1>1. /\ u.stage = v.stage /\ (Writes(u.access) <=> Writes(v.access))
      /\ u.access \cap WriteAccesses = v.access \cap WriteAccesses
      /\ w.stage = v.stage /\ w.access \subseteq v.access
  BY DEF DeclaredAs, Writes
<1> HIDE DEF w
<1>2. Issued(u) = Issued(v)
  <2> DEFINE I(a, b) == {[stage |-> st, access |-> a, writes |-> b, ordered |-> {},
                          available |-> FALSE, visible |-> {}] : st \in v.stage}
  <2>1. Writes(u.access) = Writes(v.access)
    BY <1>1 DEF Writes
  <2>2. /\ Issued(u) = I(u.access \cap WriteAccesses, Writes(u.access))
        /\ Issued(v) = I(v.access \cap WriteAccesses, Writes(v.access))
    BY <1>1 DEF Issued
  <2> HIDE DEF I
  <2> QED
    BY <1>1, <2>1, <2>2
<1>3. AfterUse(events, u) = AfterUse(events, v)
  BY <1>1, <1>2 DEF AfterUse
<1>4. w.stage \X w.access \subseteq v.stage \X v.access
  BY <1>1
<1>5. Sees(events, v) => OrderedUse(events, u) /\ VisibleUse(events, w)
  BY <1>1, <1>4 DEF Sees, OrderedUse, VisibleUse
<1> QED
  BY <1>3, <1>5 DEF w

(* What the group does finds everything done and visible, and leaves what   *)
(* its state says; or what a pass that ends short leaves to its dispatches. *)
LEMMA BodyStep ==
  ASSUME IInv, Executing("body"), NEW r \in Resources, NEW ends \in SUBSET OwnWrites
  PROVE  LET g == program[group]  m == Middle(g, Behindmost(g), r, trace[2][group][r]) IN
         /\ r \in OwnWrites => OrderedTransition(past[r], OwnSource)
         /\ \A u \in Uses(r) :
              \/ CutShort(r, u)
              \/ /\ OrderedUse(past[r], u)
                 /\ VisibleUse(past[r], [u EXCEPT !.access = @ \ Undeclared(r)])
         /\ BodyPast(r, ends) \in SUBSET EventSet
         /\ IF r \in (short \ OwnWrites) \cup ends
              THEN r \in Readied /\ ForDispatches(BodyPast(r, ends))
              ELSE Follow(BodyPast(r, ends), m, r)
<1> DEFINE g == program[group]
           s == trace[2][group][r]
           m == Middle(g, Behindmost(g), r, s)
           Found(u) == /\ OrderedUse(past[r], u)
                       /\ VisibleUse(past[r], [u EXCEPT !.access = @ \ Undeclared(r)])
<1>1. /\ g \in Groups /\ Sound(s, r) /\ past[r] \in SUBSET EventSet /\ Behindmost(g) \in Nat
  BY CurrentFacts DEF Executing
<1>2. IF r \in short THEN r \in Readied /\ ForDispatches(past[r]) ELSE Ready(past[r], g, s, r)
  BY DEF IInv, Executing, Followed
<1>3. OwnWrites = ReadyIn(g) /\ OwnWrites \subseteq Readied
  BY OwnWritesReady, OwnWritesAreResources
<1>4. \A u \in Uses(r) : r \notin ReadyIn(g)
                           /\ \E i \in Users(g, Behindmost(g), r) : DeclaredAs(u, UseOf(g.ops[i], r), r)
  BY UsesAreDeclared
<1>5. r \in Readied /\ ~s.touched => \A i \in Users(g, Behindmost(g), r) :
        g.ops[i].kind = "declare_image_ready"
  BY ReadyFirst DEF Executing
<1> HIDE DEF g, s, Found
<1>6. r \in ReadyIn(g) => InOwnOrder(past[r])
  BY <1>2 DEF Ready, ForDispatches
<1>7. ASSUME NEW i \in Users(g, Behindmost(g), r), Uses(r) # {},
             \A u \in Uses(r) : DeclaredAs(u, UseOf(g.ops[i], r), r)
      PROVE  UNION {AfterUse(past[r], u) : u \in Uses(r)} = AfterUse(past[r], UseOf(g.ops[i], r))
  <2>1. \A u \in Uses(r) : AfterUse(past[r], u) = AfterUse(past[r], UseOf(g.ops[i], r))
    BY <1>7, UsedAsDeclared
  <2> QED
    BY <1>7, <2>1
<1>8. ASSUME NEW u \in Uses(r)
      PROVE  \E i \in Users(g, Behindmost(g), r) :
               \A w \in Uses(r) : DeclaredAs(w, UseOf(g.ops[i], r), r)
  <2>1. PICK i \in Users(g, Behindmost(g), r) : DeclaredAs(u, UseOf(g.ops[i], r), r)
    BY <1>4
  <2>2. Users(g, Behindmost(g), r) = {i}
    BY <1>1, SingleUser
  <2> QED
    BY <1>4, <2>2
<1>9. CASE r \in ReadyIn(g)
  <2>1. OrderedTransition(past[r], OwnSource)
    BY <1>6, <1>9, OwnWriteIsOrdered
  <2>2. Uses(r) = {} /\ r \in OwnWrites
    BY <1>3, <1>4, <1>9
  <2>3. CASE r \in ends
    <3>1. BodyPast(r, ends) = Transitioned(DispatchScope)
      BY <2>2, <2>3 DEF BodyPast, LastBarrier
    <3> QED
      BY <1>3, <2>1, <2>2, <2>3, <3>1, ShortReady
  <2>4. CASE r \notin ends
    <3>1. BodyPast(r, ends) = Transitioned(ReadyScope)
      BY <2>2, <2>4 DEF BodyPast, LastBarrier
    <3>2. Ready(past[r], g, s, r)
      BY <1>6, <1>9 DEF Ready
    <3>3. Transitioned(ReadyScope) \in SUBSET EventSet /\ Follow(Transitioned(ReadyScope), m, r)
      BY <1>1, <1>9, <3>2, GroupBody
    <3> QED
      BY <2>1, <2>2, <2>4, <3>1, <3>3 DEF g, s
  <2> QED
    BY <2>3, <2>4
<1>10. CASE r \notin ReadyIn(g) /\ r \notin short
  <2>1. Ready(past[r], g, s, r)
    BY <1>2, <1>10
  <2>2. /\ Follow(past[r], m, r)
        /\ \A i \in Users(g, Behindmost(g), r) :
             LET p == AfterUse(past[r], UseOf(g.ops[i], r)) IN
             p \in SUBSET EventSet /\ Follow(p, m, r)
    BY <1>1, <1>10, <2>1, GroupBody
  <2>3. r \notin (short \ OwnWrites) \cup ends /\ r \notin OwnWrites
    BY <1>3, <1>10
  <2>4. CASE Uses(r) = {}
    BY <1>1, <2>2, <2>3, <2>4 DEF BodyPast, g, s
  <2>5. CASE Uses(r) # {}
    <3>1. PICK i \in Users(g, Behindmost(g), r) :
            \A w \in Uses(r) : DeclaredAs(w, UseOf(g.ops[i], r), r)
      BY <1>8, <2>5
    <3>2. Sees(past[r], UseOf(g.ops[i], r))
      BY <1>10, <2>1 DEF Ready
    <3>3. \A u \in Uses(r) : Found(u)
      BY <3>1, <3>2, UsedAsDeclared DEF Found
    <3>4. BodyPast(r, ends) = AfterUse(past[r], UseOf(g.ops[i], r))
      BY <1>7, <2>3, <2>5, <3>1 DEF BodyPast
    <3> QED
      BY <2>2, <2>3, <3>3, <3>4 DEF Found, g, s
  <2> QED
    BY <2>4, <2>5
<1>11. CASE r \notin ReadyIn(g) /\ r \in short
  <2>1. r \in Readied /\ ForDispatches(past[r])
    BY <1>2, <1>11
  <2>2. r \in (short \ OwnWrites) \cup ends /\ r \notin OwnWrites
    BY <1>3, <1>11
  <2>3. CASE Uses(r) = {}
    BY <1>1, <2>1, <2>2, <2>3 DEF BodyPast, g, s
  <2>4. CASE Uses(r) # {}
    <3>1. PICK i \in Users(g, Behindmost(g), r) :
            \A w \in Uses(r) : DeclaredAs(w, UseOf(g.ops[i], r), r)
      BY <1>8, <2>4
    <3> DEFINE v == UseOf(g.ops[i], r)
    <3>2. /\ ~Writes(v.access) /\ v.access = DispatchScope.access
          /\ AfterUse(past[r], v) \in SUBSET EventSet /\ ForDispatches(AfterUse(past[r], v))
      BY <1>1, <1>5, <1>11, <2>1, GroupShort
    <3>3. BodyPast(r, ends) = AfterUse(past[r], v)
      BY <1>7, <2>2, <2>4, <3>1 DEF BodyPast
    <3> HIDE DEF v
    <3>4. ASSUME NEW u \in Uses(r), ~CutShort(r, u) PROVE Found(u)
      <4>1. DeclaredAs(u, v, r)
        BY <3>1 DEF v
      <4>2. v.stage \subseteq DispatchScope.stage
        BY <1>11, <3>4, <4>1 DEF CutShort, DeclaredAs
      <4>3. v.stage \X v.access \subseteq DispatchScope.stage \X DispatchScope.access
        BY <3>2, <4>2
      <4>4. Sees(past[r], v)
        BY <2>1, <3>2, <4>2, <4>3 DEF ForDispatches, Sees, OrderedUse, VisibleUse
      <4> QED
        BY <4>1, <4>4, UsedAsDeclared DEF Found
    <3> QED
      BY <2>1, <2>2, <3>2, <3>3, <3>4 DEF Found, g, s
  <2> QED
    BY <2>3, <2>4
<1> QED
  BY <1>9, <1>10, <1>11

ContentSet == [defined : BOOLEAN, drawings : SUBSET Nat]

\* What is compiled of the current group is of its type.
LEMMA CurrentTyped ==
  ASSUME IInv, phase = "execute"
  PROVE  Current \in CompiledSet
BY DEF IInv, Ran, TypeOK, Current

\* Barriers leave layouts and contents.
LEMMA IssueTyped ==
  ASSUME TypeOK, NEW barriers \in SUBSET BarrierSet, Issue(barriers)
  PROVE  /\ layout' \in [Resources -> Layouts \cup {"undefined"}]
         /\ content' \in [Resources -> ContentSet]
<1>1. ASSUME NEW r \in Resources, On(barriers, r) # {}
      PROVE  (CHOOSE l \in {b.new : b \in On(barriers, r)} : TRUE) \in Layouts
  <2>1. \A l \in {b.new : b \in On(barriers, r)} : l \in Layouts
    BY DEF On, BarrierSet
  <2>2. {b.new : b \in On(barriers, r)} # {}
    BY <1>1
  <2> DEFINE news == {b.new : b \in On(barriers, r)}
  <2> HIDE DEF news
  <2>3. (CHOOSE l \in news : TRUE) \in news
    BY <2>2 DEF news
  <2> QED
    BY <2>1, <2>3 DEF news
<1>2. layout \in [Resources -> Layouts \cup {"undefined"}] /\ content \in [Resources -> ContentSet]
  BY DEF TypeOK, ContentSet
<1>3. layout' \in [Resources -> Layouts \cup {"undefined"}]
  <2> DEFINE l(r) == IF On(barriers, r) = {} THEN layout[r]
                     ELSE CHOOSE n \in {b.new : b \in On(barriers, r)} : TRUE
  <2>1. \A r \in Resources : l(r) \in Layouts \cup {"undefined"}
    BY <1>1, <1>2
  <2>2. layout' = [r \in Resources |-> l(r)]
    BY DEF Issue
  <2> HIDE DEF l
  <2> QED
    BY <2>1, <2>2
<1>4. Undefined \in ContentSet
  BY DEF Undefined, ContentSet
<1>5. content' \in [Resources -> ContentSet]
  BY <1>2, <1>4 DEF Issue
<1> QED
  BY <1>3, <1>5

\* So does drawing.
LEMMA DrawnTyped ==
  ASSUME IInv, Executing("body"), NEW r \in Resources, NEW c \in Drawn(r)
  PROVE  c \in ContentSet
<1>1. /\ phase = "execute" /\ Current \in CompiledSet /\ group \in Nat
      /\ content \in [Resources -> ContentSet]
  BY CurrentTyped, CurrentFacts DEF Executing, IInv, TypeOK, ContentSet
<1>2. PICK a \in Current.attachments : c = DrawnTo(a)
  BY DEF Drawn
<1>3. a \in [op : Operation, load : BOOLEAN]
  BY <1>1 DEF CompiledSet
<1>4. content[a.op.resource] \in ContentSet
  BY <1>1, <1>3 DEF Operation
<1>5. Drawing \in SUBSET Nat
  BY <1>1 DEF Drawing
<1>6. (~a.load \/ content[a.op.resource].defined) \in BOOLEAN
  OBVIOUS
<1>7. Drawing \cup (IF a.load THEN content[a.op.resource].drawings ELSE {}) \in SUBSET Nat
  BY <1>4, <1>5 DEF ContentSet
<1> QED
  BY <1>2, <1>6, <1>7 DEF DrawnTo, ContentSet

\* A group begins.
LEMMA ExecuteEntryIInv ==
  ASSUME IInv, ExecuteEntry PROVE IInv'
<1>1. /\ TypeOK /\ Declared(program) /\ Ran /\ phase = "execute" /\ Executing("entry")
      /\ enabled' \in (IF program[group].optional THEN BOOLEAN ELSE {TRUE})
      /\ past' = [r \in Resources |-> PastAfter(Current.entry, r)] /\ Issue(Current.entry)
      /\ point' = "body" /\ UNCHANGED <<program, phase, walk, compiler, frame, short>>
  BY DEF ExecuteEntry, Executing, IInv
<1>2. ASSUME NEW r \in Resources
      PROVE  /\ PastAfter(Current.entry, r) \in SUBSET EventSet
             /\ IF r \in short THEN r \in Readied /\ ForDispatches(PastAfter(Current.entry, r))
                ELSE Ready(PastAfter(Current.entry, r), program[group], trace[2][group][r], r)
  BY <1>1, EntryStep
<1>3. TypeOK'
  <2>1. past' \in [Resources -> SUBSET EventSet]
    BY <1>1, <1>2
  <2>2. Current.entry \in SUBSET BarrierSet
    BY <1>1, CurrentTyped DEF CompiledSet
  <2>3. /\ layout' \in [Resources -> Layouts \cup {"undefined"}]
        /\ content' \in [Resources -> ContentSet]
    BY <1>1, <2>2, IssueTyped
  <2>4. enabled' \in BOOLEAN
    BY <1>1
  <2> QED
    BY <1>1, <2>1, <2>3, <2>4 DEF TypeOK, walk, compiler, ContentSet
<1>4. Ran'
  BY <1>1 DEF Ran, walk, compiler
<1>5. ASSUME NEW r \in Resources PROVE Followed(r)'
  BY <1>1, <1>2 DEF Followed, walk, compiler
<1> QED
  BY <1>1, <1>3, <1>4, <1>5 DEF IInv, walk, compiler

\* It runs, or is skipped.
LEMMA ExecuteBodyIInv ==
  ASSUME IInv, ExecuteBody PROVE IInv'
<1>1. PICK ends \in SUBSET (OwnWrites \cap EndsShort) :
        /\ past' = [r \in Resources |-> BodyPast(r, ends)]
        /\ short' = (short \ OwnWrites) \cup ends
  BY DEF ExecuteBody, BodyPast
<1>2. /\ TypeOK /\ Declared(program) /\ Ran /\ phase = "execute" /\ Executing("body")
      /\ layout' = [r \in Resources |-> IF r \in OwnWrites THEN "read_only" ELSE layout[r]]
      /\ content' = [r \in Resources |->
           IF r \in Written THEN [defined |-> TRUE, drawings |-> Drawing]
           ELSE IF Drawn(r) = {} THEN content[r] ELSE CHOOSE c \in Drawn(r) : TRUE]
      /\ point' = "exit" /\ UNCHANGED <<program, phase, walk, compiler, frame, enabled>>
  BY DEF ExecuteBody, Executing, IInv
<1>6. ASSUME NEW r \in Resources
      PROVE  /\ BodyPast(r, ends) \in SUBSET EventSet
             /\ IF r \in short' THEN r \in Readied /\ ForDispatches(BodyPast(r, ends))
                ELSE Follow(BodyPast(r, ends),
                       Middle(program[group], Behindmost(program[group]), r, trace[2][group][r]), r)
  BY <1>1, <1>2, BodyStep
<1>7. short' \in SUBSET Resources
  <2>1. OwnWrites \subseteq Resources
    BY <1>2, OwnWritesAreResources
  <2> QED
    BY <1>1, <1>2, <2>1 DEF TypeOK
<1>3. TypeOK'
  <2>1. past' \in [Resources -> SUBSET EventSet]
    BY <1>1, <1>6
  <2>2. layout' \in [Resources -> Layouts \cup {"undefined"}]
    <3>1. "read_only" \in Layouts
      BY DEF Layouts
    <3> QED
      BY <1>2, <3>1 DEF TypeOK
  <2>3. content' \in [Resources -> ContentSet]
    <3> DEFINE new(r) == IF r \in Written THEN [defined |-> TRUE, drawings |-> Drawing]
                         ELSE IF Drawn(r) = {} THEN content[r] ELSE CHOOSE c \in Drawn(r) : TRUE
    <3>1. ASSUME NEW r \in Resources PROVE new(r) \in ContentSet
      <4>1. [defined |-> TRUE, drawings |-> Drawing] \in ContentSet
        BY <1>2, CurrentFacts DEF ContentSet, Drawing
      <4>2. content[r] \in ContentSet
        BY <1>2 DEF TypeOK, ContentSet
      <4>3. Drawn(r) # {} => (CHOOSE c \in Drawn(r) : TRUE) \in ContentSet
        <5> DEFINE drawn == Drawn(r)
        <5>1. \A c \in drawn : c \in ContentSet
          BY <1>2, DrawnTyped
        <5> HIDE DEF drawn
        <5>2. drawn # {} => (CHOOSE c \in drawn : TRUE) \in ContentSet
          BY <5>1
        <5> QED
          BY <5>2 DEF drawn
      <4> QED
        BY <4>1, <4>2, <4>3
    <3>2. content' = [r \in Resources |-> new(r)]
      BY <1>2
    <3> HIDE DEF new
    <3> QED
      BY <3>1, <3>2
  <2> QED
    BY <1>2, <1>7, <2>1, <2>2, <2>3 DEF TypeOK, walk, compiler, ContentSet
<1>4. Ran'
  BY <1>2 DEF Ran, walk, compiler
<1>5. ASSUME NEW r \in Resources PROVE Followed(r)'
  BY <1>1, <1>2, <1>6 DEF Followed, walk, compiler
<1> QED
  BY <1>2, <1>3, <1>4, <1>5 DEF IInv, walk, compiler

\* It ends and another follows.
LEMMA ExecuteExitIInv ==
  ASSUME IInv, ExecuteExit PROVE IInv'
<1>1. /\ TypeOK /\ Declared(program) /\ Ran /\ phase = "execute" /\ Executing("exit")
      /\ group < Len(program)
      /\ past' = [r \in Resources |-> PastAfter(Current.exit, r)] /\ Issue(Current.exit)
      /\ group' = group + 1 /\ point' = "entry" /\ enabled' = TRUE
      /\ UNCHANGED <<program, phase, round, op_at, compiler, frame, short>>
  BY DEF ExecuteExit, Executing, IInv
<1>2. ASSUME NEW r \in Resources
      PROVE  /\ PastAfter(Current.exit, r) \in SUBSET EventSet
             /\ IF r \in short THEN r \in Readied /\ ForDispatches(PastAfter(Current.exit, r))
                ELSE Follow(PastAfter(Current.exit, r), trace[2][group + 1][r], r)
  BY <1>1, ExitStep
<1>3. group + 1 \in 1..Len(program) /\ group + 1 \in Nat \ {0}
  <2>1. group \in Nat /\ Len(program) \in Nat
    BY <1>1 DEF TypeOK, Declared
  <2> QED
    BY <1>1, <2>1
<1>4. TypeOK'
  <2>1. past' \in [Resources -> SUBSET EventSet]
    BY <1>1, <1>2
  <2>2. Current.exit \in SUBSET BarrierSet
    BY <1>1, CurrentTyped DEF CompiledSet
  <2>3. /\ layout' \in [Resources -> Layouts \cup {"undefined"}]
        /\ content' \in [Resources -> ContentSet]
    BY <1>1, <2>2, IssueTyped
  <2> QED
    BY <1>1, <1>3, <2>1, <2>3 DEF TypeOK, compiler, ContentSet
<1>5. Ran'
  BY <1>1, <1>3 DEF Ran, compiler
<1>6. ASSUME NEW r \in Resources PROVE Followed(r)'
  BY <1>1, <1>2 DEF Followed, compiler
<1> QED
  BY <1>1, <1>4, <1>5, <1>6 DEF IInv, compiler

\* The first use of the next frame follows the last of this one.
LEMMA NextFrameFollows ==
  ASSUME NEW r \in Resources, NEW last, Sound(last[r], r), last[r].carried = CarriedInto(last, r),
         NEW events \in SUBSET EventSet, Follow(events, last[r], r)
  PROVE  Follow(IF r \in Buffers THEN {} ELSE events, Untouched(CarriedInto(last, r)), r)
<1> DEFINE c == CarriedInto(last, r)
           kept == IF r \in Buffers THEN {} ELSE events
<1>1. ~Untouched(c).touched /\ Untouched(c).carried = c
  BY DEF Untouched
<1>2. r \in Readied => InOwnOrder(kept)
  BY DEF Follow, InOwnOrder
<1>3. r \notin Images => c = {}
  BY DEF CarriedInto
<1>4. ASSUME r \notin Readied, kept # {}
      PROVE  c # {} /\ \A src \in c : \A e \in kept : Behind(e, src)
  <2>1. kept = events /\ r \in Images /\ Prepared(events, last[r], r)
    BY <1>4 DEF Follow, Resources
  <2>2. CASE last[r].touched
    BY <2>1, <2>2 DEF Prepared, Follows, CarriedInto
  <2>3. CASE ~last[r].touched
    BY <1>4, <2>1, <2>3 DEF Prepared, FollowsCarried, CarriedInto
  <2> QED
    BY <2>2, <2>3
<1> QED
  BY <1>1, <1>2, <1>3, <1>4 DEF Follow, Prepared, FollowsCarried

\* The last group of a frame ends.
LEMMA FrameEndsIInv ==
  ASSUME IInv, FrameEnds PROVE IInv'
<1>1. /\ TypeOK /\ Declared(program) /\ Ran /\ phase = "execute" /\ Executing("exit")
      /\ group = Len(program) /\ frame <= MaxFrames
      /\ past' = [r \in Resources |-> IF r \in Buffers THEN {} ELSE PastAfter(Current.exit, r)]
      /\ Issue(Current.exit)
      /\ frame' = frame + 1 /\ group' = 1 /\ point' = "entry" /\ enabled' = TRUE
      /\ UNCHANGED <<program, phase, round, op_at, compiler, short>>
  BY DEF FrameEnds, Executing, IInv
<1>2. ASSUME NEW r \in Resources
      PROVE  /\ PastAfter(Current.exit, r) \in SUBSET EventSet
             /\ IF r \in short THEN r \in Readied /\ ForDispatches(PastAfter(Current.exit, r))
                ELSE Follow(PastAfter(Current.exit, r), trace[2][group + 1][r], r)
  BY <1>1, ExitStep
<1>3. 1 \in 1..Len(program) /\ Len(program) + 1 \in 1..Len(trace[2]) /\ frame' \in 1..(MaxFrames + 1)
  <2>1. /\ group \in Nat \ {0} /\ Len(program) \in Nat /\ Len(trace[2]) = Len(program) + 1
        /\ frame \in 1..(MaxFrames + 1) /\ MaxFrames \in Nat
    BY <1>1, FramesAssumption DEF TypeOK, Declared, Ran
  <2> QED
    BY <1>1, <2>1
<1>4. TypeOK'
  <2>1. past' \in [Resources -> SUBSET EventSet]
    BY <1>1, <1>2
  <2>2. Current.exit \in SUBSET BarrierSet
    BY <1>1, CurrentTyped DEF CompiledSet
  <2>3. /\ layout' \in [Resources -> Layouts \cup {"undefined"}]
        /\ content' \in [Resources -> ContentSet]
    BY <1>1, <2>2, IssueTyped
  <2> QED
    BY <1>1, <1>3, <2>1, <2>3 DEF TypeOK, compiler, ContentSet
<1>5. Ran'
  BY <1>1, <1>3 DEF Ran, compiler
<1>6. ASSUME NEW r \in Resources PROVE Followed(r)'
  <2> DEFINE last == trace[2][Len(program) + 1]
  <2>1. /\ Sound(last[r], r) /\ last[r].carried = CarriedInto(last, r)
        /\ trace[2][1][r] = Untouched(CarriedInto(last, r))
    BY <1>1, <1>3 DEF Ran, Traced
  <2>2. past'[r] = IF r \in Buffers THEN {} ELSE PastAfter(Current.exit, r)
    BY <1>1
  <2>3. CASE r \notin short
    <3>1. Follow(PastAfter(Current.exit, r), last[r], r) /\ PastAfter(Current.exit, r) \in SUBSET EventSet
      BY <1>1, <1>2, <2>3
    <3> HIDE DEF last
    <3>2. Follow(past'[r], trace[2][1][r], r)
      BY <2>1, <2>2, <3>1, NextFrameFollows
    <3> QED
      BY <1>1, <2>3, <3>2 DEF Followed, compiler
  <2>4. CASE r \in short
    <3>1. r \in Readied /\ ForDispatches(past'[r])
      BY <1>2, <2>2, <2>4 DEF ForDispatches, InOwnOrder
    <3> QED
      BY <1>1, <2>4, <3>1 DEF Followed
  <2> QED
    BY <2>3, <2>4
<1> QED
  BY <1>1, <1>4, <1>5, <1>6 DEF IInv, compiler

-----------------------------------------------------------------------------
\* Nothing happens.
LEMMA StutterIInv ==
  ASSUME IInv, UNCHANGED vars PROVE IInv'
BY DEF IInv, vars, walk, compiler, device, TypeOK, Compiling, Ran, Followed, Executing

(* The states compile() derives describe the device, in every frame and     *)
(* whichever groups are disabled.                                           *)
THEOREM IInvHolds == Spec => []IInv
<1>1. Init => IInv
  BY InitIInv
<1>2. IInv /\ [Next]_vars => IInv'
  BY AddGroupIInv, CompileIInv, ApplyUseIInv, ApplyDeclareReadyIInv, ApplyTransitionAfterIInv,
     NextGroupIInv, SecondRoundIInv, CompileEndsIInv, ExecuteEntryIInv, ExecuteBodyIInv,
     ExecuteExitIInv, FrameEndsIInv, StutterIInv DEF Next
<1> QED
  BY <1>1, <1>2, PTL DEF Spec

(* Types: every state, barrier and event is one of the model's.             *)
THEOREM TypeCorrect == Spec => []TypeOK
<1>1. IInv => TypeOK
  BY DEF IInv
<1> QED
  BY <1>1, IInvHolds, PTL

(* advance_sync() and the walk over the declarations: nothing runs next to  *)
(* what it conflicts with, in one frame or in two that follow each other.   *)
THEOREM UsesOrdered == Spec => []UsesAreOrdered
<1>1. IInv => UsesAreOrdered
  <2> SUFFICES ASSUME IInv PROVE UsesAreOrdered
    OBVIOUS
  <2>1. ASSUME NEW b \in BarriersNext, IsTransition(b)
        PROVE  OrderedTransition(past[b.resource], b.src)
    <3>1. CASE Executing("entry") /\ b \in Current.entry
      <4>1. b \in On(Current.entry, b.resource) /\ b.resource \in Resources
        BY <3>1, CurrentTyped DEF On, Executing, CompiledSet, BarrierSet
      <4> QED
        BY <2>1, <3>1, <4>1, EntryStep
    <3>2. CASE Executing("exit") /\ b \in Current.exit
      <4>1. b \in On(Current.exit, b.resource) /\ b.resource \in Resources
        BY <3>2, CurrentTyped DEF On, Executing, CompiledSet, BarrierSet
      <4> QED
        BY <2>1, <3>2, <4>1, ExitStep
    <3> QED
      BY <3>1, <3>2 DEF BarriersNext
  <2>2. ASSUME NEW r \in OwnWritesNext PROVE OrderedTransition(past[r], OwnSource)
    <3>1. Executing("body") /\ r \in OwnWrites
      BY DEF OwnWritesNext
    <3>2. r \in Resources
      BY <3>1, OwnWritesAreResources
    <3> QED
      BY <3>1, <3>2, BodyStep
  <2>3. ASSUME NEW r \in Resources, NEW u \in UsesNext(r)
        PROVE  CutShort(r, u) \/ OrderedUse(past[r], u)
    BY <2>3, BodyStep DEF UsesNext
  <2> QED
    BY <2>1, <2>2, <2>3 DEF UsesAreOrdered
<1> QED
  BY <1>1, IInvHolds, PTL

(* The access masks of the barriers: what a group reads or overwrites was   *)
(* made available, and visible to just this stage and access.               *)
THEOREM UsesSee == Spec => []UsesSeeWrites
<1>1. IInv => UsesSeeWrites
  <2> SUFFICES ASSUME IInv, NEW r \in Resources, NEW u \in UsesNext(r)
               PROVE  \/ CutShort(r, u)
                      \/ VisibleUse(past[r], [u EXCEPT !.access = @ \ Undeclared(r)])
    BY DEF UsesSeeWrites
  <2>1. Executing("body") /\ u \in Uses(r)
    BY DEF UsesNext
  <2> QED
    BY <2>1, BodyStep
<1> QED
  BY <1>1, IInvHolds, PTL
-----------------------------------------------------------------------------
(* Layouts and contents.  The group that first uses an image in a frame, as *)
(* an attachment or what one resolves into; the ones that need what is in   *)
(* an image.  While compile() walks, what it has not met does not count.    *)
Met(n, i) == phase = "compile" /\ n = group => i < op_at
Starts(n, r) ==
  /\ ~UsedEarlier(program, n, r)
  /\ \E i \in DOMAIN program[n].ops :
       Met(n, i) /\ Attaches(program[n].ops[i]) /\ r \in UsedBy(program[n].ops[i])
Depends(n, r) ==
  \E i \in DOMAIN program[n].ops : Met(n, i) /\ LET op == program[n].ops[i] IN
    /\ op.resource = r
    /\ \/ op.kind \in {"read_image", "write_image"}
       \/ Attaches(op) /\ UsedEarlier(program, n, op.resource)

(* cleared_by names the group that starts an image, and that group clears   *)
(* when a later one depends on the image.                                   *)
WalkedGroups == IF phase = "compile" THEN 1..group ELSE 1..Len(program)
Cleared ==
  phase = "compile" => \A r \in Resources : \A m \in 1..group : Starts(m, r) => m \in cleared_by[r]
Marked ==
  phase # "declare" =>
    \A r \in Resources : \A n \in WalkedGroups : \A m \in 1..(n - 1) :
      Starts(m, r) /\ Depends(n, r) => compiled[m].clear_on_skip

(* While a frame runs, a used image has the layout of its state, and what   *)
(* is in it is defined, unless the group that starts it never clears.       *)
Laid(l, s) == s.touched => l = s.layout /\ s.layout \in Layouts
LayoutOf(r) ==
  LET g == program[group]  s == trace[2][group][r] IN
  /\ point = "entry" => Laid(layout[r], s)
  /\ point # "entry" /\ ~(point = "body" /\ r \in ReadyIn(g)) =>
       Laid(layout[r], Middle(g, Behindmost(g), r, s))
UsedSoFar(r) ==
  \/ UsedEarlier(program, group, r)
  \/ point = "exit" /\ Users(program[group], Behindmost(program[group]), r) # {}
Skippable(r) == \E m \in 1..Len(program) : Starts(m, r) /\ ~compiled[m].clear_on_skip
ContentOf(r) == UsedSoFar(r) => content[r].defined \/ Skippable(r)
Present == phase = "execute" => \A r \in Images : LayoutOf(r) /\ ContentOf(r)

FoundInv == Cleared /\ Marked /\ Present

-----------------------------------------------------------------------------
(* What the catalogue keeps to, for one operation of a group.               *)
LEMMA GroupRules ==
  ASSUME NEW g \in Groups, NEW i \in DOMAIN g.ops
  PROVE  /\ g.ops[i].kind = "transition_after" =>
              \E j \in DOMAIN g.ops : j < i /\ g.ops[i].resource \in UsedBy(g.ops[j])
         /\ g.ops[i].kind \in {"write_image", "declare_image_ready"} => ~g.optional
         /\ g.ops[i].kind = "declare_image_ready" => g.ops[i].layout = "read_only"
         /\ g.ops[i].kind \in {"read_buffer", "write_buffer"} <=> g.ops[i].resource \in Buffers
         /\ g.ops[i].resolve # {} => Attaches(g.ops[i])
<1>1. PICK n \in DOMAIN Catalogue : g \in Catalogue[n]
  BY DEF Groups
<1>2. g.ops[i] \in Declarable
  BY GroupFacts
<1>3. /\ g.ops[i].kind = "transition_after" =>
           \E j \in DOMAIN g.ops : j < i /\ g.ops[i].resource \in UsedBy(g.ops[j])
      /\ g.ops[i].kind \in {"write_image", "declare_image_ready"} => ~g.optional
  BY <1>1, TransitionedAfterUse, StoredAlways, ReadiedAreRead
<1>4. g.ops[i].kind = "declare_image_ready" => g.ops[i].layout = "read_only"
  <2>1. g.ops[i].kind = "declare_image_ready" => UsedBy(g.ops[i]) \cap Readied # {}
    BY <1>2 DEF UsedBy, Readied
  <2> QED
    BY <1>2, <2>1, ReadiedAreRead
<1> QED
  BY <1>2, <1>3, <1>4, CatalogueAssumption

\* A state of the walk is touched once an earlier operation has used the resource.
LEMMA WalkTouched ==
  ASSUME TypeOK, Declared(program), Compiling, Walking, NEW r \in Resources
  PROVE  states[r].touched <=> \/ UsedEarlier(program, group, r)
                               \/ \E i \in DOMAIN program[group].ops :
                                    i < op_at /\ r \in UsedBy(program[group].ops[i])
<1>1. /\ group \in 1..Len(trace[round + 1]) /\ Traced(program, trace[round + 1])
      /\ states[r] = End(program[group], op_at, r, trace[round + 1][group][r])
      /\ group \in 1..Len(program)
  BY DEF Compiling
<1>2. program[group] \in Groups /\ op_at \in Nat
  BY <1>1, ProgramGroup DEF TypeOK
<1>3. /\ Sound(trace[round + 1][group][r], r)
      /\ trace[round + 1][group][r].touched <=> UsedEarlier(program, group, r)
  BY <1>1 DEF Traced
<1> QED
  BY <1>1, <1>2, <1>3, EndSound

-----------------------------------------------------------------------------
\* No group has been declared, or compiled, at first.
LEMMA InitFound == Init => FoundInv
BY DEF Init, FoundInv, Cleared, Marked, Present

\* Declarations come before the walk.
LEMMA AddGroupFound == ASSUME IInv, FoundInv, AddGroup PROVE FoundInv'
BY DEF AddGroup, FoundInv, Cleared, Marked, Present

\* A walk begins before the first operation.
LEMMA WalkBegins ==
  ASSUME phase' = "compile", group' = 1, op_at' = 1, program' = program,
         Declared(program), 1 \in 1..Len(program)
  PROVE  Cleared' /\ Marked'
<1>1. Cleared'
  <2> SUFFICES ASSUME NEW r \in Resources, NEW m \in 1..group', Starts(m, r)' PROVE FALSE
    BY DEF Cleared
  <2>1. m = 1
    OBVIOUS
  <2>2. PICK i \in DOMAIN program[1].ops : i < 1
    BY <2>1 DEF Starts, Met
  <2>3. program[1] \in Groups
    BY ProgramGroup
  <2> QED
    BY <2>2, <2>3, GroupFacts
<1>2. Marked'
  BY DEF Marked, WalkedGroups
<1> QED
  BY <1>1, <1>2

\* The first walk of compile().
LEMMA CompileFound == ASSUME IInv, FoundInv, Compile PROVE FoundInv'
<1>1. /\ group' = 1 /\ op_at' = 1 /\ phase' = "compile" /\ program' = program
      /\ Declared(program) /\ 1 \in 1..Len(program)
  <2>1. /\ phase = "declare" /\ phase' = "compile" /\ program # <<>> /\ program' = program
        /\ walk' = walk /\ Declared(program)
    BY DEF IInv, Compile
  <2>2. group = 1 /\ op_at = 1
    BY <2>1 DEF IInv
  <2>3. Len(program) \in Nat /\ Len(program) # 0
    BY <2>1 DEF Declared
  <2> QED
    BY <2>1, <2>2, <2>3 DEF walk
<1> QED
  BY <1>1, WalkBegins DEF FoundInv, Present

\* Another operation is met, and no other one.
LEMMA MetNext ==
  ASSUME IInv, Walking, phase' = phase, group' = group, op_at' = op_at + 1, program' = program,
         NEW n \in 1..group, NEW i \in DOMAIN program[n].ops, Met(n, i)'
  PROVE  Met(n, i) \/ (n = group /\ i = op_at)
<1>1. phase = "compile" /\ group \in 1..Len(program) /\ group \in Nat /\ op_at \in Nat
  BY DEF Walking, IInv, Compiling, TypeOK
<1>2. CASE n # group
  BY <1>1, <1>2 DEF Met
<1>3. CASE n = group
  <2>1. program[group] \in Groups
    BY <1>1, ProgramGroup DEF IInv
  <2>2. i \in Nat /\ i < op_at + 1
    BY <1>1, <1>3, <2>1, GroupFacts DEF Met
  <2>3. i < op_at \/ i = op_at
    BY <1>1, <2>2
  <2> QED
    BY <1>3, <2>3 DEF Met
<1> QED
  BY <1>2, <1>3

\* A group that starts an image did so before, or does with this operation.
LEMMA StartsNext ==
  ASSUME IInv, Walking, phase' = phase, group' = group, op_at' = op_at + 1, program' = program,
         NEW n \in 1..group, NEW r, Starts(n, r)'
  PROVE  \/ Starts(n, r)
         \/ n = group /\ Attaches(Op) /\ r \in UsedBy(Op) /\ ~UsedEarlier(program, group, r)
<1>1. PICK i \in DOMAIN program[n].ops :
        Met(n, i)' /\ Attaches(program[n].ops[i]) /\ r \in UsedBy(program[n].ops[i])
  BY DEF Starts
<1>2. ~UsedEarlier(program, n, r)
  BY DEF Starts, UsedEarlier
<1>3. Met(n, i) \/ (n = group /\ i = op_at)
  BY <1>1, MetNext
<1> QED
  BY <1>1, <1>2, <1>3 DEF Starts, Op

\* What a group depends on, it did before, or does with this operation.
LEMMA DependsNext ==
  ASSUME IInv, Walking, phase' = phase, group' = group, op_at' = op_at + 1, program' = program,
         NEW n \in 1..group, NEW r \in Resources, Depends(n, r)'
  PROVE  Depends(n, r) \/ (n = group /\ r \in Dependents(Op))
<1>1. PICK i \in DOMAIN program[n].ops : Met(n, i)' /\ LET op == program[n].ops[i] IN
        /\ op.resource = r
        /\ \/ op.kind \in {"read_image", "write_image"}
           \/ Attaches(op) /\ UsedEarlier(program', n, op.resource)
  BY DEF Depends
<1>2. CASE Met(n, i)
  BY <1>1, <1>2 DEF Depends
<1>3. CASE n = group /\ i = op_at
  <2>1. /\ Op.resource = r
        /\ \/ Op.kind \in {"read_image", "write_image"}
           \/ Attaches(Op) /\ UsedEarlier(program, group, r)
    BY <1>1, <1>3 DEF Op
  <2>2. UsedEarlier(program, group, r) => states[r].touched
    BY WalkTouched DEF IInv, Walking
  <2> QED
    BY <1>3, <2>1, <2>2 DEF Dependents
<1> QED
  BY <1>1, <1>2, <1>3, MetNext

\* What the walk keeps of cleared_by when an operation leaves it alone.
LEMMA ClearedKept ==
  ASSUME IInv, FoundInv, Walking, phase' = phase, group' = group, op_at' = op_at + 1,
         program' = program, cleared_by' = cleared_by, ~Attaches(Op)
  PROVE  Cleared'
<1> SUFFICES ASSUME NEW r \in Resources, NEW m \in 1..group, Starts(m, r)'
             PROVE  m \in cleared_by[r]
  BY DEF Cleared
<1>1. Starts(m, r)
  BY StartsNext
<1> QED
  BY <1>1 DEF FoundInv, Cleared, Walking

\* The first attachment use of an image is noted, and no later use replaces it.
LEMMA ClearedByUse == ASSUME IInv, FoundInv, ApplyUse PROVE Cleared'
<1>1. /\ Walking /\ phase = "compile" /\ phase' = phase /\ group' = group /\ op_at' = op_at + 1
      /\ program' = program
      /\ cleared_by' = [r \in Resources |-> IF r \in FirstUses(Op) THEN {group} ELSE cleared_by[r]]
      /\ TypeOK /\ Declared(program) /\ Compiling
  BY DEF ApplyUse, Walking, IInv
<1> SUFFICES ASSUME NEW r \in Resources, NEW m \in 1..group, Starts(m, r)'
             PROVE  m \in cleared_by'[r]
  BY <1>1 DEF Cleared
<1>2. /\ program[group] \in Groups /\ op_at \in DOMAIN program[group].ops /\ group \in Nat
      /\ op_at \in Nat
  BY <1>1, OpFacts DEF TypeOK
<1>3. states[r].touched <=> \/ UsedEarlier(program, group, r)
                            \/ \E i \in DOMAIN program[group].ops :
                                 i < op_at /\ r \in UsedBy(program[group].ops[i])
  BY <1>1, WalkTouched
<1>4. CASE Starts(m, r)
  <2>1. m \in cleared_by[r]
    BY <1>1, <1>4 DEF FoundInv, Cleared
  <2>2. PICK i \in DOMAIN program[m].ops : r \in UsedBy(program[m].ops[i]) /\ Met(m, i)
    BY <1>4 DEF Starts
  <2>3. states[r].touched
    <3>1. CASE m < group
      <4>1. m \in 1..(group - 1)
        BY <1>2, <3>1
      <4> QED
        BY <1>3, <2>2, <4>1 DEF UsedEarlier
    <3>2. CASE m = group
      BY <1>1, <1>3, <2>2, <3>2 DEF Met
    <3> QED
      BY <1>2, <3>1, <3>2
  <2>4. r \notin FirstUses(Op)
    BY <2>3 DEF FirstUses
  <2> QED
    BY <1>1, <2>1, <2>4
<1>5. CASE m = group /\ Attaches(Op) /\ r \in UsedBy(Op) /\ ~UsedEarlier(program, group, r)
  <2>1. ASSUME NEW i \in DOMAIN program[group].ops, i < op_at, r \in UsedBy(program[group].ops[i])
        PROVE  FALSE
    <3>1. program[group].ops[op_at].kind = "transition_after"
      BY <1>2, <1>5, <2>1, OnceUsed DEF Op
    <3> QED
      BY <1>5, <3>1 DEF Attaches, Op
  <2>2. r \in FirstUses(Op)
    BY <1>3, <1>5, <2>1 DEF FirstUses
  <2> QED
    BY <1>1, <1>5, <2>2
<1> QED
  BY <1>1, <1>4, <1>5, StartsNext

\* An operation that marks the groups it depends on keeps all that is marked.
LEMMA MarkedNext ==
  ASSUME IInv, FoundInv, Walking, phase' = phase, group' = group, op_at' = op_at + 1,
         program' = program,
         \A m \in 1..group : compiled[m].clear_on_skip => compiled'[m].clear_on_skip,
         \A r \in Dependents(Op) : \A m \in 1..group :
           m \in cleared_by[r] => compiled'[m].clear_on_skip
  PROVE  Marked'
<1>1. phase = "compile" /\ group \in Nat
  BY DEF Walking, IInv, TypeOK
<1> SUFFICES ASSUME NEW r \in Resources, NEW n \in 1..group, NEW m \in 1..(n - 1),
                    Starts(m, r)', Depends(n, r)'
             PROVE  compiled'[m].clear_on_skip
  BY <1>1 DEF Marked, WalkedGroups
<1>2. m \in 1..group /\ m # group
  BY <1>1
<1>3. Starts(m, r)
  BY <1>2, StartsNext
<1>4. CASE Depends(n, r)
  BY <1>1, <1>2, <1>3, <1>4 DEF FoundInv, Marked, WalkedGroups
<1>5. CASE r \in Dependents(Op)
  BY <1>1, <1>2, <1>3, <1>5 DEF FoundInv, Cleared
<1> QED
  BY <1>4, <1>5, DependsNext

\* A use: what it depends on is marked.
LEMMA ApplyUseFound == ASSUME IInv, FoundInv, ApplyUse PROVE FoundInv'
<1> DEFINE w == WithClears(NotedClears(Op))
<1>1. /\ Walking /\ phase = "compile" /\ phase' = phase /\ group' = group /\ op_at' = op_at + 1
      /\ program' = program /\ TypeOK /\ Compiling
      /\ compiled' = [w EXCEPT ![group].entry = @ \cup OpBarriers(Op),
                               ![group].attachments = @ \cup AttachmentsOf(Op)]
  BY DEF ApplyUse, Walking, IInv
<1>2. Len(compiled) = group /\ compiled \in Seq(CompiledSet)
  BY <1>1 DEF Compiling, TypeOK
<1>3. ASSUME NEW m \in 1..group
      PROVE  compiled'[m].clear_on_skip <=> compiled[m].clear_on_skip \/ m \in NotedClears(Op)
  <2> DEFINE c == compiled[m]
             b == c.clear_on_skip \/ m \in NotedClears(Op)
  <2>1. w[m] = [c EXCEPT !.clear_on_skip = b] /\ m \in DOMAIN w /\ c \in CompiledSet
    BY <1>2 DEF WithClears
  <2>2. w[m].clear_on_skip = b
    BY <2>1 DEF CompiledSet
  <2>3. compiled'[m].clear_on_skip = w[m].clear_on_skip
    <3> DEFINE d == [w[group] EXCEPT !.entry = @ \cup OpBarriers(Op),
                                     !.attachments = @ \cup AttachmentsOf(Op)]
    <3>1. compiled' = [w EXCEPT ![group] = d]
      BY <1>1
    <3>2. d.clear_on_skip = w[group].clear_on_skip
      <4>1. w[group] \in CompiledSet
        BY <1>1, <1>2, WithClearsFacts DEF Compiling
      <4> HIDE DEF w
      <4> QED
        BY <4>1 DEF CompiledSet
    <3> HIDE DEF w, d
    <3>3. CASE m = group
      BY <2>1, <3>1, <3>2, <3>3
    <3>4. CASE m # group
      BY <2>1, <3>1, <3>4
    <3> QED
      BY <3>3, <3>4
  <2> QED
    BY <2>2, <2>3
<1>4. Marked'
  <2>1. \A r \in Dependents(Op) : cleared_by[r] \subseteq NotedClears(Op)
    BY DEF NotedClears
  <2> HIDE DEF w
  <2> QED
    BY <1>1, <1>3, <2>1, MarkedNext
<1> QED
  BY <1>1, <1>4, ClearedByUse DEF FoundInv, Present

\* declare_image_ready and transition_after: nothing is noted and nothing depends.
LEMMA ApplyDeclareReadyFound == ASSUME IInv, FoundInv, ApplyDeclareReady PROVE FoundInv'
<1>1. /\ Walking /\ phase = "compile" /\ phase' = phase /\ group' = group /\ op_at' = op_at + 1
      /\ program' = program /\ cleared_by' = cleared_by /\ compiled' = compiled
      /\ Op.kind = "declare_image_ready"
  BY DEF ApplyDeclareReady, Walking
<1>2. ~Attaches(Op) /\ Dependents(Op) = {}
  BY <1>1 DEF Attaches, Dependents
<1>3. Cleared' /\ Marked'
  BY <1>1, <1>2, ClearedKept, MarkedNext
<1> QED
  BY <1>1, <1>3 DEF FoundInv, Present

\* The layout after a group is the group's.
LEMMA ApplyTransitionAfterFound == ASSUME IInv, FoundInv, ApplyTransitionAfter PROVE FoundInv'
<1>1. /\ Walking /\ phase = "compile" /\ phase' = phase /\ group' = group /\ op_at' = op_at + 1
      /\ program' = program /\ cleared_by' = cleared_by
      /\ compiled' = [compiled EXCEPT ![group].exit = @ \cup OpBarriers(Op)]
      /\ Op.kind = "transition_after" /\ compiled \in Seq(CompiledSet) /\ Len(compiled) = group
  BY DEF ApplyTransitionAfter, Walking, IInv, TypeOK, Compiling
<1>2. ~Attaches(Op) /\ Dependents(Op) = {}
  BY <1>1 DEF Attaches, Dependents
<1>3. \A m \in 1..group : compiled'[m].clear_on_skip = compiled[m].clear_on_skip
  BY <1>1
<1>4. Cleared' /\ Marked'
  BY <1>1, <1>2, <1>3, ClearedKept, MarkedNext
<1> QED
  BY <1>1, <1>4 DEF FoundInv, Present

\* At the end of a group all its operations are met.
LEMMA AllMet ==
  ASSUME IInv, phase = "compile", op_at > Len(program[group].ops),
         NEW n \in 1..group, NEW i \in DOMAIN program[n].ops
  PROVE  Met(n, i)
<1>1. group \in 1..Len(program) /\ op_at \in Nat
  BY DEF IInv, Compiling, TypeOK
<1>2. program[group] \in Groups
  BY <1>1, ProgramGroup DEF IInv
<1>3. n = group => i \in Nat /\ i < op_at
  BY <1>1, <1>2, GroupFacts
<1> QED
  BY <1>3 DEF Met

\* The next group is walked.
LEMMA NextGroupFound == ASSUME IInv, FoundInv, NextGroup PROVE FoundInv'
<1>1. /\ phase = "compile" /\ phase' = phase /\ op_at > Len(program[group].ops)
      /\ group' = group + 1 /\ op_at' = 1 /\ program' = program /\ cleared_by' = cleared_by
      /\ compiled' = Append(compiled, EmptyGroup)
      /\ group + 1 \in 1..Len(program) /\ group \in Nat
  <2>1. group \in Nat /\ program \in Seq(Group) /\ group < Len(program)
    BY DEF NextGroup, IInv, TypeOK
  <2>2. group + 1 \in 1..Len(program)
    BY <2>1
  <2> QED
    BY <2>1, <2>2 DEF NextGroup
<1>2. compiled \in Seq(CompiledSet) /\ Len(compiled) = group
  BY <1>1 DEF IInv, Compiling, TypeOK
<1>3. ASSUME NEW m \in 1..group PROVE compiled'[m] = compiled[m]
  BY <1>1, <1>2
<1>4. ASSUME NEW n, n = group + 1, NEW i \in DOMAIN program[n].ops PROVE ~Met(n, i)'
  <2>1. program[n] \in Groups
    BY <1>1, <1>4, ProgramGroup DEF IInv
  <2>2. ~(i < 1)
    BY <2>1, GroupFacts
  <2> QED
    BY <1>1, <1>4, <2>2 DEF Met
<1>5. \A n \in 1..(group + 1) : \A r : Starts(n, r)' => n \in 1..group /\ Starts(n, r)
  <2> SUFFICES ASSUME NEW n \in 1..(group + 1), NEW r, Starts(n, r)'
               PROVE  n \in 1..group /\ Starts(n, r)
    OBVIOUS
  <2>1. /\ ~UsedEarlier(program, n, r)
        /\ \E i \in DOMAIN program[n].ops :
             Met(n, i)' /\ Attaches(program[n].ops[i]) /\ r \in UsedBy(program[n].ops[i])
    BY <1>1 DEF Starts
  <2>2. n # group + 1
    BY <1>4, <2>1
  <2>3. n \in 1..group
    BY <1>1, <2>2
  <2> QED
    BY <1>1, <2>1, <2>3, AllMet DEF Starts
<1>6. \A n \in 1..(group + 1) : \A r : Depends(n, r)' => n \in 1..group /\ Depends(n, r)
  <2> SUFFICES ASSUME NEW n \in 1..(group + 1), NEW r, Depends(n, r)'
               PROVE  n \in 1..group /\ Depends(n, r)
    OBVIOUS
  <2>1. \E i \in DOMAIN program[n].ops : Met(n, i)' /\ LET op == program[n].ops[i] IN
          /\ op.resource = r
          /\ \/ op.kind \in {"read_image", "write_image"}
             \/ Attaches(op) /\ UsedEarlier(program, n, op.resource)
    BY <1>1 DEF Depends
  <2>2. n # group + 1
    BY <1>4, <2>1
  <2>3. n \in 1..group
    BY <1>1, <2>2
  <2> QED
    BY <1>1, <2>1, <2>3, AllMet DEF Depends
<1>7. Cleared'
  BY <1>1, <1>5 DEF FoundInv, Cleared
<1>8. Marked'
  <2> SUFFICES ASSUME NEW r \in Resources, NEW n \in 1..(group + 1), NEW m \in 1..(n - 1),
                      Starts(m, r)', Depends(n, r)'
               PROVE  compiled'[m].clear_on_skip
    BY <1>1 DEF Marked, WalkedGroups
  <2>1. n \in 1..group /\ Depends(n, r)
    BY <1>6
  <2>2. m \in 1..group /\ m \in 1..(group + 1)
    BY <1>1, <2>1
  <2>3. Starts(m, r)
    BY <1>5, <2>2
  <2> QED
    BY <1>1, <1>3, <2>1, <2>2, <2>3 DEF FoundInv, Marked, WalkedGroups
<1> QED
  BY <1>1, <1>7, <1>8 DEF FoundInv, Present

\* The second walk.
LEMMA SecondRoundFound == ASSUME IInv, FoundInv, SecondRound PROVE FoundInv'
<1>1. /\ group' = 1 /\ op_at' = 1 /\ phase' = "compile" /\ program' = program
      /\ Declared(program) /\ 1 \in 1..Len(program)
  <2>1. /\ phase = "compile" /\ phase' = phase /\ program' = program /\ group' = 1 /\ op_at' = 1
        /\ Declared(program) /\ group \in 1..Len(program)
    BY DEF IInv, SecondRound, RoundEnds, Compiling
  <2>2. Len(program) \in Nat
    BY <2>1 DEF Declared
  <2> QED
    BY <2>1, <2>2
<1> QED
  BY <1>1, WalkBegins DEF FoundInv, Present

\* The walk has met everything, and nothing has run.
LEMMA CompileEndsFound == ASSUME IInv, FoundInv, CompileEnds PROVE FoundInv'
<1>1. /\ phase = "compile" /\ phase' = "execute" /\ op_at > Len(program[group].ops)
      /\ group = Len(program) /\ group' = 1 /\ program' = program /\ compiled' = compiled
      /\ point = "entry" /\ point' = point
  BY DEF CompileEnds, RoundEnds, IInv
<1>2. \A n \in 1..group : \A r : Starts(n, r)' => Starts(n, r)
  BY <1>1, AllMet DEF Starts, UsedEarlier
<1>3. \A n \in 1..group : \A r : Depends(n, r)' => Depends(n, r)
  BY <1>1, AllMet DEF Depends, UsedEarlier
<1>4. Marked'
  <2> SUFFICES ASSUME NEW r \in Resources, NEW n \in 1..group, NEW m \in 1..(n - 1),
                      Starts(m, r)', Depends(n, r)'
               PROVE  compiled[m].clear_on_skip
    BY <1>1 DEF Marked, WalkedGroups
  <2>1. m \in 1..group
    BY DEF IInv, TypeOK
  <2> QED
    BY <1>1, <1>2, <1>3, <2>1 DEF FoundInv, Marked, WalkedGroups
<1>5. ASSUME NEW r \in Images PROVE LayoutOf(r)' /\ ContentOf(r)'
  <2>1. Ran' /\ r \in Resources
    BY <1>1, CompileEndsIInv DEF IInv, Resources
  <2>2. PICK scopes : trace'[2][1][r] = Untouched(scopes)
    BY <2>1 DEF Ran
  <2>3. LayoutOf(r)'
    BY <1>1, <2>2 DEF LayoutOf, Laid, Untouched
  <2>4. ~UsedSoFar(r)'
    BY <1>1 DEF UsedSoFar, UsedEarlier
  <2> QED
    BY <2>3, <2>4 DEF ContentOf
<1> QED
  BY <1>1, <1>4, <1>5 DEF FoundInv, Cleared, Present

-----------------------------------------------------------------------------
(* The barriers of one use: they name the layout the image has, leave the   *)
(* one of the use, and keep what is in an image that is touched.            *)
LEMMA TouchLays ==
  ASSUME NEW r \in Resources, NEW s \in StateSet, NEW u \in UseSet, Laid(layout[r], s),
         NEW barriers, On(barriers, r) = TouchBarriers(r, s, u)
  PROVE  /\ \A b \in On(barriers, r) : b.old \in {"undefined", layout[r]}
         /\ Issue(barriers) => /\ Laid(layout'[r], Advanced(s, u))
                               /\ s.touched => content'[r] = content[r]
<1> DEFINE old == IF s.touched THEN s.layout ELSE "undefined"
<1>1. \A b \in On(barriers, r) : b.old = old /\ b.new = u.layout
  BY DEF TouchBarriers
<1>2. \A b \in On(barriers, r) : b.old \in {"undefined", layout[r]}
  BY <1>1 DEF Laid
<1>3. ASSUME Issue(barriers) PROVE Laid(layout'[r], Advanced(s, u))
  <2>1. layout'[r] = IF On(barriers, r) = {} THEN layout[r]
                     ELSE CHOOSE l \in {b.new : b \in On(barriers, r)} : TRUE
    BY <1>3 DEF Issue
  <2>2. Advanced(s, u).layout = u.layout /\ u.layout \in Layouts
    BY AdvancedFacts DEF UseSet
  <2>3. CASE On(barriers, r) = {}
    <3>1. SourceScopes(s, u) = {}
      BY <2>3 DEF TouchBarriers
    <3>2. s.touched /\ s.layout = u.layout
      BY <3>1 DEF SourceScopes, Transitions
    <3> QED
      BY <2>1, <2>2, <2>3, <3>2 DEF Laid
  <2>4. CASE On(barriers, r) # {}
    <3>1. {b.new : b \in On(barriers, r)} = {u.layout}
      BY <1>1, <2>4
    <3>2. layout'[r] = u.layout
      BY <2>1, <2>4, <3>1
    <3> QED
      BY <2>2, <3>2 DEF Laid
  <2> QED
    BY <2>3, <2>4
<1>4. ASSUME Issue(barriers), s.touched PROVE content'[r] = content[r]
  <2>1. old # "undefined"
    BY <1>4 DEF Laid, Layouts
  <2>2. ~\E b \in On(barriers, r) : b.old = "undefined"
    BY <1>1, <2>1
  <2> QED
    BY <1>4, <2>2 DEF Issue
<1> QED
  BY <1>2, <1>3, <1>4

\* A resource without a barrier keeps its layout and its content.
LEMMA NothingIssued ==
  ASSUME NEW r \in Resources, NEW barriers, On(barriers, r) = {}, Issue(barriers)
  PROVE  layout'[r] = layout[r] /\ content'[r] = content[r]
BY DEF Issue

\* The barriers at the entry of a group.
LEMMA EntryLays ==
  ASSUME IInv, FoundInv, Executing("entry"), NEW r \in Images
  PROVE  LET g == program[group]  s == trace[2][group][r] IN
         /\ \A b \in On(Current.entry, r) : b.old \in {"undefined", layout[r]}
         /\ Issue(Current.entry) =>
              /\ r \notin ReadyIn(g) => Laid(layout'[r], Middle(g, Behindmost(g), r, s))
              /\ s.touched => content'[r] = content[r]
<1> DEFINE g == program[group]
           k == Behindmost(g)
           s == trace[2][group][r]
<1>1. /\ r \in Resources /\ phase = "execute" /\ point = "entry"
      /\ g \in Groups /\ k \in Nat /\ Sound(s, r)
      /\ On(Current.entry, r) = EntryBarriers(g, k, r, s)
  BY CurrentFacts DEF Executing, CompiledAs, Resources
<1>2. Laid(layout[r], s)
  BY <1>1 DEF FoundInv, Present, LayoutOf
<1>3. CASE Users(g, k, r) = {}
  <2>1. EntryBarriers(g, k, r, s) = {} /\ Middle(g, k, r, s) = s
    BY <1>3 DEF EntryBarriers, Middle
  <2> HIDE DEF g, k, s
  <2> QED
    BY <1>1, <1>2, <2>1, NothingIssued DEF g, k, s
<1>4. ASSUME NEW i \in Users(g, k, r), g.ops[i].kind = "declare_image_ready" PROVE
        On(Current.entry, r) = {} /\ r \in ReadyIn(g)
  BY <1>1, <1>4, SingleUser, ReadyUser DEF EntryBarriers
<1>5. ASSUME NEW i \in Users(g, k, r), g.ops[i].kind # "declare_image_ready" PROVE
        /\ On(Current.entry, r) = TouchBarriers(r, s, UseOf(g.ops[i], r))
        /\ Middle(g, k, r, s) = Advanced(s, UseOf(g.ops[i], r))
        /\ UseOf(g.ops[i], r) \in UseSet /\ s \in StateSet
  <2>1. Users(g, k, r) = {i} /\ The(Users(g, k, r)) = i /\ g.ops[i] \in Operation
    BY <1>1, SingleUser
  <2> QED
    BY <1>1, <1>5, <2>1, UseFacts DEF EntryBarriers, Middle, OpState, Sound
<1> HIDE DEF g, k, s
<1>6. CASE Users(g, k, r) # {}
  <2>1. PICK i \in Users(g, k, r) : TRUE
    BY <1>6
  <2>2. CASE g.ops[i].kind = "declare_image_ready"
    BY <1>1, <1>4, <2>2, NothingIssued DEF g, k, s
  <2>3. CASE g.ops[i].kind # "declare_image_ready"
    <3> DEFINE u == UseOf(g.ops[i], r)
    <3>1. /\ On(Current.entry, r) = TouchBarriers(r, s, u) /\ Middle(g, k, r, s) = Advanced(s, u)
          /\ u \in UseSet /\ s \in StateSet
      BY <1>5, <2>3
    <3> HIDE DEF u
    <3>2. /\ \A b \in On(Current.entry, r) : b.old \in {"undefined", layout[r]}
          /\ Issue(Current.entry) => /\ Laid(layout'[r], Advanced(s, u))
                                     /\ s.touched => content'[r] = content[r]
      BY <1>1, <1>2, <3>1, TouchLays
    <3>3. /\ \A b \in On(Current.entry, r) : b.old \in {"undefined", layout[r]}
          /\ Issue(Current.entry) => /\ Laid(layout'[r], Middle(g, k, r, s))
                                     /\ s.touched => content'[r] = content[r]
      BY <3>1, <3>2, Zenon
    <3> HIDE DEF u
    <3> QED
      BY <3>3 DEF g, k, s
  <2> QED
    BY <2>2, <2>3
<1> QED
  BY <1>3, <1>6

\* Those at its exit.
LEMMA ExitLays ==
  ASSUME IInv, FoundInv, Executing("exit"), NEW r \in Images
  PROVE  LET s == trace[2][group + 1][r] IN
         /\ \A b \in On(Current.exit, r) : b.old \in {"undefined", layout[r]}
         /\ Issue(Current.exit) => Laid(layout'[r], s) /\ content'[r] = content[r]
<1> DEFINE g == program[group]
           k == Behindmost(g)
           s == trace[2][group][r]
           m == Middle(g, k, r, s)
<1>1. /\ r \in Resources /\ phase = "execute" /\ point = "exit"
      /\ g \in Groups /\ k \in Nat /\ Sound(s, r)
      /\ On(Current.exit, r) = ExitBarriers(g, k, r, s)
      /\ trace[2][group + 1][r] = End(g, k, r, s)
  BY CurrentFacts DEF Executing, CompiledAs, Resources
<1>2. Laid(layout[r], m)
  BY <1>1 DEF FoundInv, Present, LayoutOf
<1>3. Sound(m, r) /\ (m.touched <=> s.touched \/ Users(g, k, r) # {})
  BY <1>1, EndSound
<1>4. CASE Leavers(g, k, r) = {}
  <2>1. ExitBarriers(g, k, r, s) = {} /\ End(g, k, r, s) = m
    BY <1>4 DEF ExitBarriers, End
  <2> HIDE DEF g, k, s, m
  <2> QED
    BY <1>1, <1>2, <2>1, NothingIssued
<1>5. ASSUME NEW i \in Leavers(g, k, r) PROVE
        /\ On(Current.exit, r) = TouchBarriers(r, m, UseOf(g.ops[i], r))
        /\ trace[2][group + 1][r] = Advanced(m, UseOf(g.ops[i], r))
        /\ UseOf(g.ops[i], r) \in UseSet /\ m \in StateSet /\ m.touched
  <2>1. /\ Leavers(g, k, r) = {i} /\ The(Leavers(g, k, r)) = i /\ i \in DOMAIN g.ops
        /\ r \in UsedBy(g.ops[i]) /\ g.ops[i] \in Operation
        /\ g.ops[i].kind = "transition_after"
    BY <1>1, SingleLeaver
  <2>2. g.ops[i].resource = r
    BY <1>1, <2>1, GroupRules DEF UsedBy, Attaches
  <2>3. PICK j \in DOMAIN g.ops : j < i /\ r \in UsedBy(g.ops[j])
    BY <1>1, <2>1, <2>2, GroupRules
  <2>4. g.ops[j].kind # "transition_after"
    BY <1>1, <2>1, <2>3, OnceUsed
  <2>5. j < k
    BY <1>1, GroupFacts DEF Behindmost
  <2>6. Users(g, k, r) # {}
    BY <2>3, <2>4, <2>5 DEF Users
  <2>7. UseOf(g.ops[i], r) \in UseSet
    BY <1>1, <2>1, UseFacts
  <2> HIDE DEF m
  <2>8. m \in StateSet /\ m.touched
    BY <1>3, <2>6 DEF Sound
  <2>9. /\ ExitBarriers(g, k, r, s) = TouchBarriers(r, m, UseOf(g.ops[i], r))
        /\ End(g, k, r, s) = Advanced(m, UseOf(g.ops[i], r))
    BY <2>1 DEF ExitBarriers, End, OpState, m
  <2> QED
    BY <1>1, <2>7, <2>8, <2>9
<1> HIDE DEF g, k, s, m
<1>6. CASE Leavers(g, k, r) # {}
  <2>1. PICK i \in Leavers(g, k, r) : TRUE
    BY <1>6
  <2> DEFINE u == UseOf(g.ops[i], r)
  <2>2. /\ On(Current.exit, r) = TouchBarriers(r, m, u)
        /\ trace[2][group + 1][r] = Advanced(m, u)
        /\ u \in UseSet /\ m \in StateSet /\ m.touched
    BY <1>5
  <2> HIDE DEF u
  <2>3. /\ \A b \in On(Current.exit, r) : b.old \in {"undefined", layout[r]}
        /\ Issue(Current.exit) => Laid(layout'[r], Advanced(m, u)) /\ content'[r] = content[r]
    <3>1. On(Current.exit, r) = TouchBarriers(r, m, u)
      BY <2>2
    <3> QED
      BY <1>1, <1>2, <2>2, <3>1, TouchLays
  <2> QED
    BY <2>2, <2>3, Zenon
<1> QED
  BY <1>4, <1>6

\* What a later group depends on is there.
LEMMA DependedDefined ==
  ASSUME IInv, FoundInv, phase = "execute", NEW r \in Images,
         Depends(group, r), UsedEarlier(program, group, r)
  PROVE  content[r].defined
<1>1. /\ group \in 1..Len(program) /\ group \in Nat /\ Len(program) \in Nat /\ r \in Resources
  BY CurrentFacts DEF Resources, IInv, Declared
<1>2. content[r].defined \/ Skippable(r)
  BY DEF FoundInv, Present, ContentOf, UsedSoFar
<1>3. ASSUME NEW m \in 1..Len(program), Starts(m, r), ~compiled[m].clear_on_skip PROVE FALSE
  <2>1. PICK n \in 1..(group - 1) : \E i \in DOMAIN program[n].ops : r \in UsedBy(program[n].ops[i])
    BY DEF UsedEarlier
  <2>2. ~(n \in 1..(m - 1))
    BY <1>3, <2>1 DEF Starts, UsedEarlier
  <2>3. m \in 1..(group - 1)
    BY <1>1, <2>1, <2>2
  <2> QED
    BY <1>1, <1>3, <2>3 DEF FoundInv, Marked, WalkedGroups
<1> QED
  BY <1>2, <1>3 DEF Skippable

\* What is loaded or sampled is there.
LEMMA LoadedDefined ==
  ASSUME IInv, FoundInv, Executing("body")
  PROVE  /\ \A a \in Current.attachments : a.load => content[a.op.resource].defined
         /\ \A r \in Images : Loads(r) => content[r].defined
<1> DEFINE g == program[group]
           from == trace[2][group]
<1>1. /\ phase = "execute" /\ g \in Groups /\ group \in 1..Len(program) /\ Declared(program)
      /\ Current.attachments = Attachments(g, Behindmost(g), from)
  BY CurrentFacts DEF Executing, CompiledAs, IInv
<1>2. ASSUME NEW i \in DOMAIN g.ops
      PROVE  /\ Met(group, i) /\ g.ops[i].resource \in Resources
             /\ g.ops[i].kind \notin {"read_buffer", "write_buffer"} => g.ops[i].resource \in Images
  <2>1. g.ops[i].resource \in Resources
    BY <1>1, GroupFacts DEF Operation
  <2> QED
    BY <1>1, <2>1, GroupRules DEF Met, Resources
<1>3. ASSUME NEW a \in Current.attachments, a.load PROVE content[a.op.resource].defined
  <2>1. PICK i \in DOMAIN g.ops :
          Attaches(g.ops[i]) /\ a = [op |-> g.ops[i], load |-> from[g.ops[i].resource].touched]
    BY <1>1 DEF Attachments
  <2> DEFINE q == g.ops[i].resource
  <2>2. a.op.resource = q /\ from[q].touched /\ q \in Images
    BY <1>2, <1>3, <2>1 DEF Attaches
  <2>3. UsedEarlier(program, group, q)
    BY <1>1, <1>2, <2>2, CurrentFacts
  <2>4. Depends(group, q)
    BY <1>2, <2>1, <2>3 DEF Depends
  <2> QED
    BY <1>1, <2>2, <2>3, <2>4, DependedDefined
<1>4. ASSUME NEW r \in Images, NEW op \in EnabledOps({"read_image"}), op.resource = r
      PROVE  content[r].defined
  <2>1. PICK i \in DOMAIN g.ops : op = g.ops[i] /\ op.kind = "read_image"
    BY DEF EnabledOps
  <2>2. UsedEarlier(program, group, r)
    BY <1>1, <1>4, <2>1 DEF Declared, NeedsContent
  <2>3. Depends(group, r)
    BY <1>2, <1>4, <2>1 DEF Depends
  <2> QED
    BY <1>1, <2>2, <2>3, DependedDefined
<1> QED
  BY <1>3, <1>4 DEF Loads

-----------------------------------------------------------------------------
\* Who starts an image, and who depends on it, is settled once a frame runs.
LEMMA GraphKept ==
  ASSUME IInv, FoundInv, phase = "execute", phase' = phase, program' = program,
         compiled' = compiled
  PROVE  Marked' /\ \A r : Skippable(r)' <=> Skippable(r)
<1>1. ASSUME NEW n, NEW r
      PROVE  (Starts(n, r)' <=> Starts(n, r)) /\ (Depends(n, r)' <=> Depends(n, r))
  BY DEF Starts, Depends, Met, UsedEarlier
<1>2. Marked'
  BY <1>1 DEF FoundInv, Marked, WalkedGroups
<1>3. ASSUME NEW r PROVE Skippable(r)' <=> Skippable(r)
  BY <1>1 DEF Skippable
<1> QED
  BY <1>2, <1>3

\* A group begins: the barriers keep what earlier groups left.
LEMMA ExecuteEntryFound == ASSUME IInv, FoundInv, ExecuteEntry PROVE FoundInv'
<1>1. /\ phase = "execute" /\ phase' = phase /\ Executing("entry") /\ Issue(Current.entry)
      /\ point = "entry" /\ point' = "body" /\ program' = program /\ compiled' = compiled
      /\ group' = group /\ trace' = trace
  BY DEF ExecuteEntry, Executing, walk, compiler
<1>2. Marked' /\ \A r : Skippable(r)' <=> Skippable(r)
  BY <1>1, GraphKept
<1>3. ASSUME NEW r \in Images PROVE LayoutOf(r)' /\ ContentOf(r)'
  <2> DEFINE g == program[group]
             s == trace[2][group][r]
  <2>1. /\ r \notin ReadyIn(g) => Laid(layout'[r], Middle(g, Behindmost(g), r, s))
        /\ s.touched => content'[r] = content[r]
    BY <1>1, EntryLays
  <2>2. LayoutOf(r)'
    BY <1>1, <2>1 DEF LayoutOf
  <2>3. UsedSoFar(r)' => UsedSoFar(r) /\ s.touched
    <3>1. s.touched <=> UsedEarlier(program, group, r)
      BY <1>1, CurrentFacts DEF Resources
    <3> QED
      BY <1>1, <3>1 DEF UsedSoFar, UsedEarlier
  <2>4. ContentOf(r)
    BY <1>1 DEF FoundInv, Present
  <2> HIDE DEF g, s
  <2>5. ContentOf(r)'
    BY <1>2, <2>1, <2>3, <2>4 DEF ContentOf
  <2> QED
    BY <2>2, <2>5
<1> QED
  BY <1>1, <1>2, <1>3 DEF FoundInv, Cleared, Present

\* Work leaves the layout its state names: a pass that makes an image ready
\* leaves it to be read.
LEMMA BodyLays ==
  ASSUME IInv, FoundInv, Executing("body"), NEW r \in Images
  PROVE  LET g == program[group] IN
         Laid(IF r \in OwnWrites THEN "read_only" ELSE layout[r],
              Middle(g, Behindmost(g), r, trace[2][group][r]))
<1> DEFINE g == program[group]
           s == trace[2][group][r]
           m == Middle(g, Behindmost(g), r, s)
<1>1. /\ phase = "execute" /\ point = "body" /\ g \in Groups /\ Behindmost(g) \in Nat
      /\ OwnWrites = ReadyIn(g)
  BY CurrentFacts, OwnWritesReady DEF Executing
<1>2. CASE r \in ReadyIn(g)
  <2>1. PICK i \in Users(g, Behindmost(g), r) : g.ops[i].kind = "declare_image_ready"
    BY <1>1, <1>2, ReadyUser
  <2>2. /\ The(Users(g, Behindmost(g), r)) = i /\ i \in DOMAIN g.ops
        /\ r \in UsedBy(g.ops[i]) /\ g.ops[i] \in Declarable
    BY <1>1, SingleUser
  <2>3. m = MarkedReady(s, UseOf(g.ops[i], r))
    BY <2>1, <2>2 DEF Middle, OpState
  <2>4. UseOf(g.ops[i], r).layout = "read_only"
    <3>1. g.ops[i].layout = "read_only" /\ r \in Readied
      BY <1>1, <2>1, <2>2, GroupRules, ReadyIsReadied
    <3> QED
      BY <2>2, <3>1, ReadyOpFacts
  <2> HIDE DEF m
  <2>5. m.layout = "read_only"
    BY <2>3, <2>4 DEF MarkedReady
  <2> QED
    BY <1>1, <1>2, <2>5 DEF Laid, Layouts, m
<1>3. CASE r \notin ReadyIn(g)
  BY <1>1, <1>3 DEF FoundInv, Present, LayoutOf
<1> QED
  BY <1>2, <1>3

\* What a group draws to is there afterwards.
LEMMA DrawnDefined ==
  ASSUME IInv, FoundInv, Executing("body"), NEW r, Drawn(r) # {}
  PROVE  (CHOOSE c \in Drawn(r) : TRUE).defined
<1> DEFINE drawn == Drawn(r)
<1>1. ASSUME NEW c \in drawn PROVE c.defined
  <2>1. PICK a \in Current.attachments : c = DrawnTo(a)
    BY DEF Drawn
  <2>2. ~a.load \/ content[a.op.resource].defined
    BY LoadedDefined
  <2> QED
    BY <2>1, <2>2 DEF DrawnTo
<1> HIDE DEF drawn
<1>2. drawn # {} => (CHOOSE c \in drawn : TRUE).defined
  BY <1>1
<1> QED
  BY <1>2 DEF drawn

\* An image a group uses first is written by it, or is one the group may skip.
LEMMA FirstWritten ==
  ASSUME IInv, FoundInv, Executing("body"), NEW r \in Images,
         ~UsedEarlier(program, group, r),
         NEW i \in Users(program[group], Behindmost(program[group]), r)
  PROVE  r \in Written \/ Drawn(r) # {} \/ Skippable(r)
<1> DEFINE g == program[group]
           op == g.ops[i]
<1>1. /\ phase = "execute" /\ g \in Groups /\ group \in 1..Len(program) /\ Declared(program)
      /\ (~g.optional => enabled) /\ Behindmost(g) \in Nat
      /\ Current.attachments = Attachments(g, Behindmost(g), trace[2][group])
  BY CurrentFacts DEF Executing, CompiledAs, IInv
<1>2. /\ i \in DOMAIN g.ops /\ r \in UsedBy(op) /\ op \in Operation /\ i < Behindmost(g)
      /\ op.kind # "transition_after"
  BY <1>1, SingleUser DEF Users
<1>3. ~Attaches(op) => op.resource = r
  BY <1>1, <1>2, GroupRules DEF UsedBy
<1>4. op.kind \notin {"read_buffer", "write_buffer"}
  <2>1. Images \cap Buffers = {}
    BY FramesAssumption
  <2>2. op.kind \in {"read_buffer", "write_buffer"} => op.resource \in Buffers /\ ~Attaches(op)
    BY <1>1, <1>2, GroupRules DEF Attaches
  <2> QED
    BY <1>3, <2>1, <2>2
<1>5. op.kind # "read_image"
  <2>1. op.kind = "read_image" => NeedsContent(op) /\ op.resource = r
    BY <1>3 DEF NeedsContent, Attaches
  <2> QED
    BY <1>1, <1>2, <2>1 DEF Declared
<1>6. CASE op.kind \in {"write_image", "declare_image_ready"}
  <2>1. enabled /\ op.resource = r
    BY <1>1, <1>2, <1>3, <1>6, GroupRules DEF Attaches
  <2> QED
    BY <1>2, <1>6, <2>1 DEF Written, OwnWrites, EnabledOps
<1>7. CASE Attaches(op) /\ RunsRendering
  <2> DEFINE a == [op |-> op, load |-> trace[2][group][op.resource].touched]
  <2>1. a \in Current.attachments /\ a.op = op
    BY <1>1, <1>2, <1>7 DEF Attachments
  <2> HIDE DEF a
  <2>2. DrawnTo(a) \in Drawn(r)
    BY <1>2, <1>7, <2>1 DEF Drawn
  <2> QED
    BY <2>2
<1>8. CASE Attaches(op) /\ ~RunsRendering
  <2>1. Current.attachments # {}
    BY <1>1, <1>2, <1>8 DEF Attachments
  <2>2. ~compiled[group].clear_on_skip
    BY <1>8, <2>1 DEF RunsRendering, Current
  <2>3. Starts(group, r)
    BY <1>1, <1>2, <1>8 DEF Starts, Met
  <2> QED
    BY <1>1, <2>2, <2>3 DEF Skippable
<1>9. op.kind \in Kinds
  BY <1>2 DEF Operation
<1> QED
  BY <1>2, <1>4, <1>5, <1>6, <1>7, <1>8, <1>9 DEF Kinds, Attaches

\* It runs, or is skipped.
LEMMA ExecuteBodyFound == ASSUME IInv, FoundInv, ExecuteBody PROVE FoundInv'
<1>1. /\ phase = "execute" /\ phase' = phase /\ Executing("body")
      /\ point = "body" /\ point' = "exit" /\ program' = program /\ compiled' = compiled
      /\ group' = group /\ trace' = trace
      /\ layout' = [r \in Resources |-> IF r \in OwnWrites THEN "read_only" ELSE layout[r]]
      /\ content' = [r \in Resources |->
           IF r \in Written THEN [defined |-> TRUE, drawings |-> Drawing]
           ELSE IF Drawn(r) = {} THEN content[r] ELSE CHOOSE c \in Drawn(r) : TRUE]
  BY DEF ExecuteBody, Executing, walk, compiler
<1>2. Marked' /\ \A r : Skippable(r)' <=> Skippable(r)
  BY <1>1, GraphKept
<1>3. ASSUME NEW r \in Images PROVE LayoutOf(r)' /\ ContentOf(r)'
  <2> DEFINE g == program[group]
             s == trace[2][group][r]
             m == Middle(g, Behindmost(g), r, s)
  <2>1. layout'[r] = (IF r \in OwnWrites THEN "read_only" ELSE layout[r])
    BY <1>1 DEF Resources
  <2>2. Laid(layout'[r], m)
    BY <1>1, <2>1, BodyLays
  <2>3. LayoutOf(r)'
    BY <1>1, <2>2 DEF LayoutOf
  <2>4. content'[r] = IF r \in Written THEN [defined |-> TRUE, drawings |-> Drawing]
                      ELSE IF Drawn(r) = {} THEN content[r] ELSE CHOOSE c \in Drawn(r) : TRUE
    BY <1>1 DEF Resources
  <2>5. CASE r \in Written \/ Drawn(r) # {}
    <3>1. content'[r].defined
      BY <1>1, <2>4, <2>5, DrawnDefined
    <3> QED
      BY <2>3, <3>1 DEF ContentOf
  <2>6. CASE ~(r \in Written \/ Drawn(r) # {})
    <3>1. content'[r] = content[r]
      BY <2>4, <2>6
    <3>2. ContentOf(r)
      BY <1>1 DEF FoundInv, Present
    <3>3. CASE UsedEarlier(program, group, r)
      <4>1. UsedSoFar(r)
        BY <3>3 DEF UsedSoFar
      <4> QED
        BY <1>2, <2>3, <3>1, <3>2, <4>1 DEF ContentOf
    <3>4. CASE ~UsedEarlier(program, group, r)
      <4>1. ASSUME UsedSoFar(r)' PROVE Skippable(r)
        <5>1. Users(g, Behindmost(g), r) # {}
          BY <1>1, <3>4, <4>1 DEF UsedSoFar, UsedEarlier
        <5> QED
          BY <1>1, <2>6, <3>4, <5>1, FirstWritten
      <4> QED
        BY <1>2, <2>3, <4>1 DEF ContentOf
    <3> QED
      BY <3>3, <3>4
  <2> QED
    BY <2>5, <2>6
<1> QED
  BY <1>1, <1>2, <1>3 DEF FoundInv, Cleared, Present

\* It ends and another follows.
LEMMA ExecuteExitFound == ASSUME IInv, FoundInv, ExecuteExit PROVE FoundInv'
<1>1. /\ phase = "execute" /\ phase' = phase /\ Executing("exit") /\ Issue(Current.exit)
      /\ point = "exit" /\ point' = "entry" /\ program' = program /\ compiled' = compiled
      /\ group' = group + 1 /\ trace' = trace
  BY DEF ExecuteExit, Executing, compiler
<1>2. Marked' /\ \A r : Skippable(r)' <=> Skippable(r)
  BY <1>1, GraphKept
<1>3. ASSUME NEW r \in Images PROVE LayoutOf(r)' /\ ContentOf(r)'
  <2> DEFINE g == program[group]
  <2>1. Laid(layout'[r], trace[2][group + 1][r]) /\ content'[r] = content[r]
    BY <1>1, ExitLays
  <2>2. LayoutOf(r)'
    BY <1>1, <2>1 DEF LayoutOf
  <2>3. UsedSoFar(r)' => UsedSoFar(r)
    <3> SUFFICES ASSUME UsedSoFar(r)' PROVE UsedSoFar(r)
      OBVIOUS
    <3>1. PICK m \in 1..group : \E i \in DOMAIN program[m].ops : r \in UsedBy(program[m].ops[i])
      <4>1. (group + 1) - 1 = group
        BY <1>1, CurrentFacts
      <4>2. UsedEarlier(program, group + 1, r)
        BY <1>1 DEF UsedSoFar, UsedEarlier
      <4> QED
        BY <4>1, <4>2 DEF UsedEarlier
    <3>2. CASE m = group
      <4>1. g \in Groups /\ Behindmost(g) \in Nat
        BY <1>1, CurrentFacts
      <4>2. PICK i \in DOMAIN g.ops : r \in UsedBy(g.ops[i])
        BY <3>1, <3>2
      <4>3. PICK j \in DOMAIN g.ops : r \in UsedBy(g.ops[j]) /\ g.ops[j].kind # "transition_after"
        <5>1. CASE g.ops[i].kind = "transition_after"
          <6>1. g.ops[i].resource = r
            BY <4>1, <4>2, <5>1, GroupRules DEF UsedBy, Attaches
          <6>2. PICK j \in DOMAIN g.ops : j < i /\ r \in UsedBy(g.ops[j])
            BY <4>1, <5>1, <6>1, GroupRules
          <6>3. g.ops[j].kind # "transition_after"
            BY <4>1, <4>2, <6>2, OnceUsed
          <6> QED
            BY <6>2, <6>3
        <5> QED
          BY <4>2, <5>1
      <4>4. j < Behindmost(g)
        BY <4>1, GroupFacts DEF Behindmost
      <4> QED
        BY <1>1, <4>3, <4>4 DEF UsedSoFar, Users
    <3>3. CASE m # group
      <4>1. m \in 1..(group - 1)
        BY <1>1, <3>3, CurrentFacts
      <4> QED
        BY <3>1, <4>1 DEF UsedSoFar, UsedEarlier
    <3> QED
      BY <3>2, <3>3
  <2>4. ContentOf(r)
    BY <1>1 DEF FoundInv, Present
  <2>5. ContentOf(r)'
    BY <1>2, <2>1, <2>3, <2>4 DEF ContentOf
  <2> QED
    BY <2>2, <2>5
<1> QED
  BY <1>1, <1>2, <1>3 DEF FoundInv, Cleared, Present

\* The next frame begins: no image has been used in it.
LEMMA FrameEndsFound == ASSUME IInv, FoundInv, FrameEnds PROVE FoundInv'
<1>1. /\ phase = "execute" /\ phase' = phase /\ point' = "entry" /\ program' = program
      /\ compiled' = compiled /\ group' = 1 /\ trace' = trace
  BY DEF FrameEnds, Executing, compiler
<1>2. Marked'
  BY <1>1, GraphKept
<1>3. ASSUME NEW r \in Images PROVE LayoutOf(r)' /\ ContentOf(r)'
  <2>1. Ran /\ r \in Resources
    BY <1>1 DEF IInv, Resources
  <2>2. PICK scopes : trace[2][1][r] = Untouched(scopes)
    BY <2>1 DEF Ran
  <2>3. LayoutOf(r)'
    BY <1>1, <2>2 DEF LayoutOf, Laid, Untouched
  <2>4. ~UsedSoFar(r)'
    BY <1>1 DEF UsedSoFar, UsedEarlier
  <2> QED
    BY <2>3, <2>4 DEF ContentOf
<1> QED
  BY <1>1, <1>2, <1>3 DEF FoundInv, Cleared, Present

\* Nothing happens.
LEMMA StutterFound == ASSUME FoundInv, UNCHANGED vars PROVE FoundInv'
<1>1. ASSUME NEW n, NEW r
      PROVE  (Starts(n, r)' <=> Starts(n, r)) /\ (Depends(n, r)' <=> Depends(n, r))
  BY DEF Starts, Depends, Met, UsedEarlier, vars, walk
<1>2. Cleared' /\ Marked'
  BY <1>1 DEF FoundInv, Cleared, Marked, WalkedGroups, vars, walk, compiler
<1>3. ASSUME NEW r PROVE (LayoutOf(r)' <=> LayoutOf(r)) /\ (ContentOf(r)' <=> ContentOf(r))
  BY <1>1 DEF LayoutOf, ContentOf, UsedSoFar, UsedEarlier, Skippable, vars, walk, compiler, device
<1> QED
  BY <1>2, <1>3 DEF FoundInv, Present, vars

(* RenderGraph::compile() clears on skip what a later group depends on, and *)
(* derives the layouts: a use finds the image in the layout it expects, a   *)
(* barrier in the one it names, and what loads or samples an image finds    *)
(* something there, whichever groups are disabled.                          *)
THEOREM ContentFound == Spec => []UsesFindContent
<1>1. Init => FoundInv
  BY InitFound
<1>2. IInv /\ FoundInv /\ [Next]_vars => FoundInv'
  BY AddGroupFound, CompileFound, ApplyUseFound, ApplyDeclareReadyFound, ApplyTransitionAfterFound,
     NextGroupFound, SecondRoundFound, CompileEndsFound, ExecuteEntryFound, ExecuteBodyFound,
     ExecuteExitFound, FrameEndsFound, StutterFound DEF Next
<1>3. IInv /\ FoundInv => UsesFindContent
  <2> SUFFICES ASSUME IInv, FoundInv PROVE UsesFindContent
    OBVIOUS
  <2>1. ASSUME NEW b \in BarriersNext, IsTransition(b)
        PROVE  b.old \in {"undefined", layout[b.resource]}
    <3>1. b.resource \in Images
      BY <2>1 DEF IsTransition
    <3>2. CASE Executing("entry") /\ b \in Current.entry
      BY <3>1, <3>2, EntryLays DEF On
    <3>3. CASE Executing("exit") /\ b \in Current.exit
      BY <3>1, <3>3, ExitLays DEF On
    <3> QED
      BY <3>2, <3>3 DEF BarriersNext
  <2>2. ASSUME NEW r \in Images, NEW u \in UsesNext(r) PROVE layout[r] = u.layout
    <3> DEFINE g == program[group]
               s == trace[2][group][r]
    <3>1. Executing("body") /\ u \in Uses(r) /\ r \in Resources
      BY DEF UsesNext, Resources
    <3>2. PICK i \in Users(g, Behindmost(g), r) :
            DeclaredAs(u, UseOf(g.ops[i], r), r) /\ r \notin ReadyIn(g)
      BY <3>1, UsesAreDeclared
    <3> DEFINE v == UseOf(g.ops[i], r)
    <3>8. u.layout = v.layout
      BY <3>2 DEF DeclaredAs
    <3>3. g \in Groups /\ Behindmost(g) \in Nat /\ Sound(s, r)
      BY <3>1, CurrentFacts DEF Executing
    <3>4. /\ The(Users(g, Behindmost(g), r)) = i /\ Users(g, Behindmost(g), r) = {i}
          /\ g.ops[i] \in Operation /\ g.ops[i].kind # "declare_image_ready"
      BY <3>2, <3>3, SingleUser, ReadyUser
    <3>5. Middle(g, Behindmost(g), r, s) = Advanced(s, v)
      BY <3>4 DEF Middle, OpState
    <3>6. Laid(layout[r], Middle(g, Behindmost(g), r, s))
      BY <3>1, <3>2 DEF FoundInv, Present, LayoutOf, Executing
    <3> HIDE DEF g, s
    <3>7. Advanced(s, v).touched /\ Advanced(s, v).layout = v.layout
      BY <3>1, <3>2, <3>3, <3>4, UseFacts, AdvancedFacts DEF Sound
    <3> QED
      BY <3>5, <3>6, <3>7, <3>8 DEF Laid
  <2>3. ASSUME NEW r \in Images, Executing("body"), Loads(r) PROVE content[r].defined
    BY <2>3, LoadedDefined
  <2> QED
    BY <2>1, <2>2, <2>3 DEF UsesFindContent
<1> QED
  BY <1>1, <1>2, <1>3, IInvHolds, PTL DEF Spec
=============================================================================
