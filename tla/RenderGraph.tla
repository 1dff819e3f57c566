----------------------------- MODULE RenderGraph -----------------------------
(* The render graph: passes declare what their groups do to images and      *)
(* buffers, compile() walks the declarations twice and derives barriers,    *)
(* load operations and the groups that must clear even when disabled;       *)
(* execute() records every frame from that, groups enabled or not.          *)
(* Abstracted: the groups of all passes are one sequence; a compute pass is *)
(* one group; aspects, extents, clear values, mips; early and late fragment *)
(* tests are one stage; everything is stored; no queries, no clear().       *)
EXTENDS Naturals, Sequences, DeviceSync

CONSTANTS
  Images, Buffers,
  Catalogue,         \* which groups may be declared first, second, and so on
  EndsShort,         \* images made ready whose pass may end on a barrier to itself only
  MaxFrames          \* bound: frames executed

Resources == Images \cup Buffers
Kinds == {"color_attachment", "depth_attachment", "read_image", "write_image", "read_buffer",
          "write_buffer", "declare_image_ready", "transition_after"}
Stages == {"draw_indirect", "vertex_shader", "fragment_tests", "fragment_shader",
           "color_output", "compute_shader", "transfer"}
Accesses == {"indirect_read", "sampled_read", "storage_write", "color_read", "color_write",
             "depth_read", "depth_write", "transfer_read", "transfer_write"}
Layouts == {"general", "color_attachment", "depth_attachment", "read_only",
            "transfer_source", "transfer_destination", "none"}

(* A group: what it does, in the declared order, and whether it may be      *)
(* disabled.                                                                *)
Operation ==
  [kind : Kinds, resource : Resources, resolve : SUBSET Images,
   stage : (SUBSET Stages) \ {{}}, access : SUBSET Accesses, layout : Layouts]
Group == [ops : Seq(Operation), optional : BOOLEAN]
Declarable ==
  UNION {UNION {{g.ops[i] : i \in DOMAIN g.ops} : g \in Catalogue[n]} : n \in DOMAIN Catalogue}

UsedBy(op) == {op.resource} \cup op.resolve
Attaches(op) == op.kind \in {"color_attachment", "depth_attachment"}
ReadsOf(op) == IF op.kind = "color_attachment" THEN "color_read" ELSE "depth_read"
WritesOf(op) == IF op.kind = "color_attachment" THEN "color_write" ELSE "depth_write"

(* touch_image and touch_buffer.  The depth of a group resolves in a stage  *)
(* and a layout of its own.                                                 *)
DepthResolve ==
  [stage |-> {"color_output"}, access |-> {"color_write"}, layout |-> "general"]
UseOf(op, r) == IF op.kind = "depth_attachment" /\ r # op.resource THEN DepthResolve
                ELSE [stage |-> op.stage, access |-> op.access, layout |-> op.layout]

(* What the graph relies on and does not test.  A group uses a resource     *)
(* once, and transitions it once afterwards.  An attachment is written as   *)
(* one.  All reads of a resource in one layout are of the same kind: what   *)
(* is covered is kept as stages and accesses apart.  An image a pass makes  *)
(* ready itself is always made ready, and otherwise sampled only.  What a   *)
(* group transitions afterwards it has used, and a group that stores to an  *)
(* image is never disabled.                                                 *)
Readied == {op.resource : op \in {o \in Declarable : o.kind = "declare_image_ready"}}
OwnSource == Scope({"compute_shader", "fragment_shader"}, {})
ReadyScope == Scope({"fragment_shader"}, {"sampled_read"})
DispatchScope == Scope({"compute_shader"}, {"sampled_read"})

ASSUME FramesAssumption == MaxFrames \in Nat /\ Images \cap Buffers = {}
ASSUME AccessAssumption ==
  /\ {"color_write", "depth_write"} \subseteq WriteAccesses
  /\ {"color_read", "depth_read", "sampled_read"} \cap WriteAccesses = {}
ASSUME CatalogueAssumption ==
  /\ Catalogue \in Seq(SUBSET Group)
  /\ \A op \in Declarable :
       /\ op.kind \in {"read_buffer", "write_buffer"} <=> op.resource \in Buffers
       /\ op.resolve # {} => Attaches(op)
ASSUME OncePerGroup ==
  \A n \in DOMAIN Catalogue : \A g \in Catalogue[n] : \A i, j \in DOMAIN g.ops : i < j =>
    \/ UsedBy(g.ops[i]) \cap UsedBy(g.ops[j]) = {}
    \/ g.ops[i].kind # "transition_after" /\ g.ops[j].kind = "transition_after"
ASSUME WrittenAsAttached ==
  \A op \in Declarable : Attaches(op) => op.access \cap WriteAccesses \subseteq {WritesOf(op)}
ASSUME ReadAlike ==
  \A op1, op2 \in Declarable : \A r \in UsedBy(op1) \cap UsedBy(op2) :
    LET u == UseOf(op1, r)  v == UseOf(op2, r) IN
    u.layout = v.layout /\ ~Writes(u.access) /\ ~Writes(v.access) => u.access = v.access
ASSUME ReadiedAreRead ==
  /\ \A op \in Declarable : UsedBy(op) \cap Readied # {} =>
       /\ op.resolve = {} /\ ~Writes(op.access) /\ op.layout = "read_only"
       /\ \/ /\ op.kind = "declare_image_ready"
             /\ op.stage = ReadyScope.stage /\ op.access = ReadyScope.access
          \/ op.kind = "read_image" /\ op.stage \subseteq OwnSource.stage
  /\ \A n \in DOMAIN Catalogue : \A g \in Catalogue[n] :
       (\E i \in DOMAIN g.ops : g.ops[i].kind = "declare_image_ready") => ~g.optional
ASSUME TransitionedAfterUse ==
  \A n \in DOMAIN Catalogue : \A g \in Catalogue[n] : \A i \in DOMAIN g.ops :
    g.ops[i].kind = "transition_after" =>
      \E j \in DOMAIN g.ops : j < i /\ g.ops[i].resource \in UsedBy(g.ops[j])
ASSUME StoredAlways ==
  \A n \in DOMAIN Catalogue : \A g \in Catalogue[n] :
    (\E i \in DOMAIN g.ops : g.ops[i].kind = "write_image") => ~g.optional

VARIABLES
  program,           \* the declared groups
  phase,             \* "declare", "compile", "execute"
  round, group, op_at,  \* where compile() is, group also where execute() is
  states,            \* image_states and buffer_states
  carried,           \* carried_images: at most one scope each
  cleared_by,        \* at most one group each
  compiled,          \* _compiled
  trace,             \* history: the states each group was compiled from, by round
  frame, point, enabled,  \* the frame, where its group is, whether it is enabled
  past, layout, content,  \* the device: events, layout and content of a resource
  short              \* history: images whose pass ended on a barrier to itself only

walk == <<round, group, op_at>>
compiler == <<states, carried, cleared_by, compiled, trace>>
device == <<past, layout, content, short>>
vars == <<program, phase, walk, compiler, frame, point, enabled, device>>

Untouched(scopes) ==
  [carried |-> scopes, write_stage |-> {}, write_access |-> {}, read_stages |-> {},
   read_accesses |-> {}, touched |-> FALSE, layout |-> "undefined"]
EmptyGroup == [entry |-> {}, exit |-> {}, attachments |-> {}, clear_on_skip |-> FALSE]
Undefined == [defined |-> FALSE, drawings |-> {}]
NoCarried == [r \in Resources |-> {}]

Init ==
  /\ program = <<>> /\ phase = "declare"
  /\ round = 0 /\ group = 1 /\ op_at = 1
  /\ states = [r \in Resources |-> Untouched({})]
  /\ carried = NoCarried /\ cleared_by = NoCarried
  /\ compiled = <<>> /\ trace = [q \in 1..2 |-> <<>>]
  /\ frame = 1 /\ point = "entry" /\ enabled = TRUE
  /\ past = [r \in Resources |-> {}]
  /\ layout = [r \in Resources |-> "undefined"]
  /\ content = [r \in Resources |-> Undefined]
  /\ short = {}

-----------------------------------------------------------------------------
(* The passes declare.  A pass reads what an earlier one wrote.             *)
NeedsContent(op) ==
  op.kind \in {"read_image", "read_buffer"} \/ (Attaches(op) /\ ~Writes(op.access))
UsedBefore(r) == \E n \in DOMAIN program : \E i \in DOMAIN program[n].ops :
  r \in UsedBy(program[n].ops[i])

WellDeclared(op) == NeedsContent(op) => UsedBefore(op.resource)

AddGroup ==
  /\ phase = "declare" /\ Len(program) < Len(Catalogue)
  /\ \E g \in Catalogue[Len(program) + 1] :
       /\ \A i \in DOMAIN g.ops : WellDeclared(g.ops[i])
       /\ program' = Append(program, g)
  /\ UNCHANGED <<phase, walk, compiler, frame, point, enabled, device>>

Compile ==
  /\ phase = "declare" /\ program # <<>>
  /\ phase' = "compile"
  /\ compiled' = <<EmptyGroup>>
  /\ trace' = [trace EXCEPT ![1] = <<states>>]
  /\ UNCHANGED <<program, walk, states, carried, cleared_by, frame, point, enabled, device>>

-----------------------------------------------------------------------------
(* advance_sync: what the barrier before a use waits for, if it needs one,  *)
(* and the state after it.                                                  *)
\* Fault: a stage that has not read yet counts as covered.
CoveredByAccess(s, use) == use.access \subseteq s.read_accesses
Covered(s, use) == use.stage \subseteq s.read_stages /\ use.access \subseteq s.read_accesses
Transitions(s, use) == s.touched /\ s.layout # use.layout

SourceScopes(s, use) ==
  IF ~s.touched THEN IF s.carried = {} THEN {Scope(use.stage, {})} ELSE s.carried
  ELSE IF Writes(use.access) \/ Transitions(s, use)
    THEN {Scope(s.write_stage \cup s.read_stages, s.write_access)}
  ELSE IF Covered(s, use) THEN {} ELSE {Scope(s.write_stage, s.write_access)}

Advanced(s, use) ==
  IF Writes(use.access) \/ Transitions(s, use) \/ ~s.touched
    THEN [carried |-> s.carried, touched |-> TRUE, layout |-> use.layout,
          write_stage |-> use.stage,
          write_access |-> IF Writes(use.access) THEN use.access ELSE {},
          read_stages |-> IF Writes(use.access) THEN {} ELSE use.stage,
          read_accesses |-> IF Writes(use.access) THEN {} ELSE use.access]
    ELSE [s EXCEPT !.read_stages = @ \cup use.stage, !.read_accesses = @ \cup use.access]

MarkedReady(s, use) ==
  [carried |-> s.carried, touched |-> TRUE, layout |-> use.layout,
   write_stage |-> use.stage, write_access |-> {},
   read_stages |-> use.stage, read_accesses |-> use.access]

\* Fault: the next frame does not wait for this frame's reads.
EndOfFrameWrite(s) == Scope(s.write_stage, s.write_access)
EndOfFrameScope(s) == Scope(s.write_stage \cup s.read_stages, s.write_access)

(* touch_image and touch_buffer.                                           *)
TouchBarriers(r, s, use) ==
  {[resource |-> r, src |-> src, dst |-> Scope(use.stage, use.access),
    old |-> IF s.touched THEN s.layout ELSE "undefined",
    new |-> use.layout] : src \in SourceScopes(s, use)}
OpBarriers(op) == UNION {TouchBarriers(r, states[r], UseOf(op, r)) : r \in UsedBy(op)}
StatesAfter(op) ==
  [r \in Resources |-> IF r \in UsedBy(op) THEN Advanced(states[r], UseOf(op, r)) ELSE states[r]]

(* The first use of an attachment, or of what it resolves into, writes it   *)
(* from nothing; a later one depends on this.                               *)
FirstUses(op) == IF Attaches(op) THEN {r \in UsedBy(op) : ~states[r].touched} ELSE {}
Dependents(op) ==
  IF op.kind \in {"read_image", "write_image"} THEN {op.resource}
  ELSE IF Attaches(op) /\ states[op.resource].touched THEN {op.resource} ELSE {}
AttachmentsOf(op) ==
  IF Attaches(op)
    THEN {[op |-> op, load |-> states[op.resource].touched]} ELSE {}

NotedClears(op) == UNION {cleared_by[r] : r \in Dependents(op)}
WithClears(owners) ==
  [n \in DOMAIN compiled |->
     [compiled[n] EXCEPT !.clear_on_skip = @ \/ n \in owners]]

Op == program[group].ops[op_at]
Walking == phase = "compile" /\ group <= Len(program) /\ op_at <= Len(program[group].ops)

ApplyUse ==
  /\ Walking /\ Op.kind \notin {"declare_image_ready", "transition_after"}
  /\ compiled' = [WithClears(NotedClears(Op)) EXCEPT
                    ![group].entry = @ \cup OpBarriers(Op),
                    ![group].attachments = @ \cup AttachmentsOf(Op)]
  /\ cleared_by' = [r \in Resources |-> IF r \in FirstUses(Op) THEN {group} ELSE cleared_by[r]]
  /\ states' = StatesAfter(Op)
  /\ op_at' = op_at + 1
  /\ UNCHANGED <<program, phase, round, group, carried, trace, frame, point, enabled, device>>

ApplyDeclareReady ==
  /\ Walking /\ Op.kind = "declare_image_ready"
  /\ states' = [states EXCEPT ![Op.resource] = MarkedReady(@, UseOf(Op, Op.resource))]
  /\ op_at' = op_at + 1
  /\ UNCHANGED <<program, phase, round, group, carried, cleared_by, compiled, trace,
                 frame, point, enabled, device>>

ApplyTransitionAfter ==
  /\ Walking /\ Op.kind = "transition_after"
  /\ compiled' = [compiled EXCEPT ![group].exit = @ \cup OpBarriers(Op)]
  /\ states' = StatesAfter(Op)
  /\ op_at' = op_at + 1
  /\ UNCHANGED <<program, phase, round, group, carried, cleared_by, trace,
                 frame, point, enabled, device>>

NextGroup ==
  /\ phase = "compile" /\ group < Len(program) /\ op_at > Len(program[group].ops)
  /\ group' = group + 1 /\ op_at' = 1
  /\ compiled' = Append(compiled, EmptyGroup)
  /\ trace' = [trace EXCEPT ![round + 1] = Append(@, states)]
  /\ UNCHANGED <<program, phase, round, states, carried, cleared_by, frame, point, enabled, device>>

RoundEnds == phase = "compile" /\ group = Len(program) /\ op_at > Len(program[group].ops)

(* The first round finds out how a frame leaves every image; the second     *)
(* compiles with it.  Buffers have a region per frame and are not carried.  *)
SecondRound ==
  /\ RoundEnds /\ round = 0
  /\ carried' = [r \in Resources |->
       IF r \in Images /\ states[r].touched THEN {EndOfFrameScope(states[r])} ELSE {}]
  /\ states' = [r \in Resources |-> Untouched(carried'[r])]
  /\ cleared_by' = NoCarried
  /\ round' = 1 /\ group' = 1 /\ op_at' = 1
  /\ compiled' = <<EmptyGroup>>
  /\ trace' = [trace EXCEPT ![1] = Append(@, states), ![2] = <<states'>>]
  /\ UNCHANGED <<program, phase, frame, point, enabled, device>>

CompileEnds ==
  /\ RoundEnds /\ round = 1
  /\ phase' = "execute" /\ round' = 0 /\ group' = 1 /\ op_at' = 1
  /\ states' = [r \in Resources |-> Untouched({})]
  /\ carried' = NoCarried /\ cleared_by' = NoCarried
  /\ trace' = [trace EXCEPT ![2] = Append(@, states)]
  /\ UNCHANGED <<program, compiled, frame, point, enabled, device>>

-----------------------------------------------------------------------------
(* execute(), and the device.                                               *)
Executing(p) == phase = "execute" /\ frame <= MaxFrames /\ point = p
Current == compiled[group]
\* Fault: a disabled group never renders.
RendersEnabled == Current.attachments # {} /\ enabled
RunsRendering == Current.attachments # {} /\ (enabled \/ Current.clear_on_skip)

IsTransition(b) == b.resource \in Images /\ (b.old = "undefined" \/ b.old # b.new)
After(b, events) ==
  IF IsTransition(b) THEN Transitioned(b.dst) ELSE AfterBarrier(events, b.src, b.dst)
On(barriers, r) == {b \in barriers : b.resource = r}
PastAfter(barriers, r) ==
  IF On(barriers, r) = {} THEN past[r] ELSE UNION {After(b, past[r]) : b \in On(barriers, r)}
Issue(barriers) ==
  /\ layout' = [r \in Resources |->
       IF On(barriers, r) = {} THEN layout[r]
         ELSE CHOOSE l \in {b.new : b \in On(barriers, r)} : TRUE]
  /\ content' = [r \in Resources |->
       IF \E b \in On(barriers, r) : b.old = "undefined" THEN Undefined ELSE content[r]]

(* A disabled group issues its barriers nevertheless.                       *)
ExecuteEntry ==
  /\ Executing("entry")
  /\ enabled' \in (IF program[group].optional THEN BOOLEAN ELSE {TRUE})
  /\ past' = [r \in Resources |-> PastAfter(Current.entry, r)] /\ Issue(Current.entry)
  /\ point' = "body"
  /\ UNCHANGED <<program, phase, walk, compiler, frame, short>>

(* What the group does to a resource.  An attachment is read if loaded and  *)
(* written if cleared, whatever the pass declared.                          *)
LoadAccess(op, load) == IF load THEN ReadsOf(op) ELSE WritesOf(op)
AttachmentUses(r) ==
  IF ~RunsRendering THEN {}
  ELSE {[UseOf(a.op, r) EXCEPT !.access = @ \cup {LoadAccess(a.op, a.load)}] :
          a \in {b \in Current.attachments : b.op.resource = r}}
       \cup {UseOf(a.op, r) : a \in {b \in Current.attachments : r \in b.op.resolve}}
EnabledOps(kinds) ==
  {op \in {program[group].ops[i] : i \in DOMAIN program[group].ops} : enabled /\ op.kind \in kinds}
PassUses(r) ==
  {UseOf(op, r) : op \in {o \in EnabledOps({"read_image", "write_image", "read_buffer", "write_buffer"}) :
                            o.resource = r}}
Uses(r) == AttachmentUses(r) \cup PassUses(r)

(* A pass that declares an image ready writes it between barriers of its    *)
(* own.  The last one of ambient_occlusion_pass, and of bloom_pass if bloom *)
(* is off, is to the readers declared; that of bloom_pass if bloom is on is *)
(* to its own dispatches.                                                   *)
OwnWrites == {op.resource : op \in EnabledOps({"declare_image_ready"})}

Loads(r) ==
  \/ \E a \in Current.attachments : RunsRendering /\ a.op.resource = r /\ a.load
  \/ \E op \in EnabledOps({"read_image"}) : op.resource = r
Drawing == IF enabled THEN {group} ELSE {}
DrawnTo(a) ==
  [defined |-> ~a.load \/ content[a.op.resource].defined,
   drawings |-> Drawing \cup (IF a.load THEN content[a.op.resource].drawings ELSE {})]
Drawn(r) ==
  IF RunsRendering THEN {DrawnTo(a) : a \in {b \in Current.attachments : r \in UsedBy(b.op)}} ELSE {}
Written == OwnWrites \cup {op.resource : op \in EnabledOps({"write_image"})}

LastBarrier(r, ends) == IF r \in ends THEN DispatchScope ELSE ReadyScope

ExecuteBody ==
  /\ Executing("body")
  /\ \E ends \in SUBSET (OwnWrites \cap EndsShort) :
       /\ past' = [r \in Resources |->
            IF r \in OwnWrites THEN Transitioned(LastBarrier(r, ends))
            ELSE IF Uses(r) = {} THEN past[r] ELSE UNION {AfterUse(past[r], u) : u \in Uses(r)}]
       /\ short' = (short \ OwnWrites) \cup ends
  /\ layout' = [r \in Resources |-> IF r \in OwnWrites THEN "read_only" ELSE layout[r]]
  /\ content' = [r \in Resources |->
       IF r \in Written THEN [defined |-> TRUE, drawings |-> Drawing]
       ELSE IF Drawn(r) = {} THEN content[r] ELSE CHOOSE c \in Drawn(r) : TRUE]
  /\ point' = "exit"
  /\ UNCHANGED <<program, phase, walk, compiler, frame, enabled>>

ExecuteExit ==
  /\ Executing("exit") /\ group < Len(program)
  /\ past' = [r \in Resources |-> PastAfter(Current.exit, r)] /\ Issue(Current.exit)
  /\ group' = group + 1 /\ point' = "entry" /\ enabled' = TRUE
  /\ UNCHANGED <<program, phase, round, op_at, compiler, frame, short>>

(* The next frame uses other regions of the buffers.                        *)
FrameEnds ==
  /\ Executing("exit") /\ group = Len(program)
  /\ past' = [r \in Resources |-> IF r \in Buffers THEN {} ELSE PastAfter(Current.exit, r)]
  /\ Issue(Current.exit)
  /\ frame' = frame + 1 /\ group' = 1 /\ point' = "entry" /\ enabled' = TRUE
  /\ UNCHANGED <<program, phase, round, op_at, compiler, short>>

-----------------------------------------------------------------------------
Next ==
  \/ AddGroup \/ Compile
  \/ ApplyUse \/ ApplyDeclareReady \/ ApplyTransitionAfter
  \/ NextGroup \/ SecondRound \/ CompileEnds
  \/ ExecuteEntry \/ ExecuteBody \/ ExecuteExit \/ FrameEnds

Spec == Init /\ [][Next]_vars

-----------------------------------------------------------------------------
(* The scopes, states and barriers of the compiler, what it makes of a      *)
(* group, and the events of the device.                                     *)
ScopeSet == [stage : SUBSET Stages, access : SUBSET Accesses]
StateSet ==
  [carried : SUBSET ScopeSet, write_stage : SUBSET Stages, write_access : SUBSET Accesses,
   read_stages : SUBSET Stages, read_accesses : SUBSET Accesses, touched : BOOLEAN,
   layout : Layouts \cup {"undefined"}]
BarrierSet ==
  [resource : Resources, src : ScopeSet, dst : ScopeSet,
   old : Layouts \cup {"undefined"}, new : Layouts]
CompiledSet ==
  [entry : SUBSET BarrierSet, exit : SUBSET BarrierSet,
   attachments : SUBSET [op : Operation, load : BOOLEAN], clear_on_skip : BOOLEAN]
EventSet ==
  [stage : Stages \cup {"transition"}, access : SUBSET Accesses, writes : BOOLEAN,
   ordered : SUBSET Stages, available : BOOLEAN, visible : SUBSET (Stages \X Accesses)]

(* Type invariant of the declarations, the compiler and the device.         *)
TypeOK ==
  /\ program \in Seq(Group) /\ phase \in {"declare", "compile", "execute"}
  /\ round \in 0..1 /\ group \in Nat \ {0} /\ op_at \in Nat \ {0}
  /\ states \in [Resources -> StateSet] /\ carried \in [Resources -> SUBSET ScopeSet]
  /\ cleared_by \in [Resources -> SUBSET Nat] /\ compiled \in Seq(CompiledSet)
  /\ trace \in [1..2 -> Seq([Resources -> StateSet])]
  /\ frame \in 1..(MaxFrames + 1) /\ point \in {"entry", "body", "exit"} /\ enabled \in BOOLEAN
  /\ past \in [Resources -> SUBSET EventSet]
  /\ layout \in [Resources -> Layouts \cup {"undefined"}]
  /\ content \in [Resources -> [defined : BOOLEAN, drawings : SUBSET Nat]]
  /\ short \in SUBSET Resources

(* What the device is about to do: transitions and uses of a resource.      *)
BarriersNext ==
  IF Executing("entry") THEN Current.entry ELSE IF Executing("exit") THEN Current.exit ELSE {}
UsesNext(r) == IF Executing("body") THEN Uses(r) ELSE {}
OwnWritesNext == IF Executing("body") THEN OwnWrites ELSE {}

(* Nothing runs next to what it conflicts with: a use comes after every     *)
(* earlier write, a write or a transition after every earlier use, those of *)
(* the previous frame included, whichever groups are enabled.  Except that  *)
(* if the pass that makes an image ready ended on a barrier to its own      *)
(* dispatches, only uses in their stage are ordered after it.               *)
CutShort(r, u) == r \in short /\ ~(u.stage \subseteq DispatchScope.stage)
UsesAreOrdered ==
  /\ \A b \in BarriersNext : IsTransition(b) => OrderedTransition(past[b.resource], b.src)
  /\ \A r \in OwnWritesNext : OrderedTransition(past[r], OwnSource)
  /\ \A r \in Resources : \A u \in UsesNext(r) : CutShort(r, u) \/ OrderedUse(past[r], u)

(* Every use sees the write before it: it was made available, and visible   *)
(* to the stages and accesses of this use.  Except again for an image whose *)
(* pass ended short, and for the load of an attachment that its pass        *)
(* declared as written only: that access is in no barrier.                  *)
Undeclared(r) ==
  {ReadsOf(a.op) : a \in {b \in Current.attachments :
                            b.op.resource = r /\ b.load /\ ReadsOf(b.op) \notin b.op.access}}
UsesSeeWrites ==
  \A r \in Resources : \A u \in UsesNext(r) :
    CutShort(r, u) \/ VisibleUse(past[r], [u EXCEPT !.access = @ \ Undeclared(r)])

(* An image made ready is ordered before everyone who reads it as its pass  *)
(* declared.  Not so: README, section 5.                                    *)
ReadiedAreOrdered ==
  \A r \in Readied : \A u \in UsesNext(r) : OrderedUse(past[r], u) /\ VisibleUse(past[r], u)

(* An attachment that is loaded is visible to the load.  Not so: README,    *)
(* section 5.                                                               *)
LoadsSeeWrites ==
  \A r \in Images \ Readied : \A u \in UsesNext(r) : VisibleUse(past[r], u)

(* A use finds the image in the layout it expects, a barrier in the one it  *)
(* names, and what loads or samples an image finds something there: a group *)
(* that writes it first has at least cleared it, though it was disabled.    *)
UsesFindContent ==
  /\ \A b \in BarriersNext : IsTransition(b) => b.old \in {"undefined", layout[b.resource]}
  /\ \A r \in Images : \A u \in UsesNext(r) : layout[r] = u.layout
  /\ \A r \in Images : Executing("body") /\ Loads(r) => content[r].defined

(* What was drawn to an image is still there when something else resolves   *)
(* into it: passes draw over each other, in the order they were added.      *)
DrawingsSurvive ==
  Executing("body") /\ RunsRendering => \A a \in Current.attachments : \A r \in a.op.resolve :
    content[r].drawings \subseteq DrawnTo(a).drawings
=============================================================================
