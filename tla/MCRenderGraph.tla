---------------------------- MODULE MCRenderGraph ----------------------------
(* Groups as the passes of src/libsbx/render/passes declare them, over one  *)
(* image of every role.  At most four of them in any order, or the passes   *)
(* that draw to the HDR color with MSAA, in the order they are added in.    *)
EXTENDS RenderGraph

Color == "color"            \* a single-sampled target, also resolved into
Msaa == "color_msaa"
Depth == "depth"
Ready == "bloom_upsample"   \* written by a pass between its own barriers
Args == "indirect_args"     \* a buffer

MCWriteAccesses == {"color_write", "depth_write", "storage_write"}

MCOp(kind, r, resolve, stage, access, l) ==
  [kind |-> kind, resource |-> r, resolve |-> resolve, stage |-> {stage}, access |-> access,
   layout |-> l]
DrawsTo(r, resolve) ==
  MCOp("color_attachment", r, resolve, "color_output", {"color_read", "color_write"}, "color_attachment")
Clears(r, resolve) ==
  MCOp("color_attachment", r, resolve, "color_output", {"color_write"}, "color_attachment")
DrawsDepth(resolve) ==
  MCOp("depth_attachment", Depth, resolve, "fragment_tests", {"depth_read", "depth_write"}, "depth_attachment")
TestsDepth ==
  MCOp("depth_attachment", Depth, {}, "fragment_tests", {"depth_read"}, "depth_attachment")
Samples(r, stage) == MCOp("read_image", r, {}, stage, {"sampled_read"}, "read_only")
Stores(r) == MCOp("write_image", r, {}, "compute_shader", {"storage_write"}, "general")
Readies(r) ==
  MCOp("declare_image_ready", r, {}, "fragment_shader", {"sampled_read"}, "read_only")
ToSampled(r) ==
  MCOp("transition_after", r, {}, "fragment_shader", {"sampled_read"}, "read_only")

Optional(ops) == [ops |-> ops, optional |-> TRUE]
Always(ops) == [ops |-> ops, optional |-> FALSE]

AnyGroup == {
  Optional(<<DrawsTo(Color, {})>>),
  Optional(<<Clears(Color, {})>>),
  Optional(<<Clears(Msaa, {Color})>>),
  Optional(<<DrawsTo(Color, {}), ToSampled(Color)>>),
  Optional(<<DrawsTo(Msaa, {Color})>>),
  Optional(<<DrawsDepth({Color})>>),
  Optional(<<DrawsTo(Msaa, {Color}), TestsDepth>>),
  Optional(<<Samples(Color, "fragment_shader"), DrawsDepth({})>>),
  Optional(<<Samples(Color, "compute_shader")>>),
  Optional(<<Samples(Ready, "fragment_shader"), DrawsTo(Color, {})>>),
  Optional(<<Samples(Ready, "compute_shader")>>),        \* of no pass yet
  Always(<<Stores(Color)>>),
  Always(<<Samples(Color, "compute_shader"), Readies(Ready)>>),
  Always(<<MCOp("write_buffer", Args, {}, "compute_shader", {"storage_write"}, "none")>>),
  Optional(<<MCOp("read_buffer", Args, {}, "draw_indirect", {"indirect_read"}, "none"),
             DrawsDepth({})>>)}

AnyFour == [n \in 1..4 |-> AnyGroup]

HdrPasses == <<
  {Always(<<Clears(Msaa, {Color})>>)},                  \* opaque_pass
  {Always(<<DrawsTo(Color, {})>>)},                     \* transparent_resolve_pass
  {Optional(<<DrawsTo(Msaa, {Color})>>)},               \* canvas_world_pass
  {Always(<<Samples(Color, "fragment_shader")>>)}>>     \* tonemap_pass
=============================================================================
