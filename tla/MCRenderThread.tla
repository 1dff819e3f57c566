---------------------------- MODULE MCRenderThread ----------------------------
(* Both policies; four frames, so that a kick meets a worker that blocks,   *)
(* works, is about to notify and has not yet waited.                        *)
EXTENDS RenderThread
=============================================================================
