----------------------------- MODULE FrameHandoff -----------------------------
(* What the render thread promises the main thread: frames are handed over  *)
(* one at a time, each is rendered exactly once and in order, and while the *)
(* main thread holds the idle section no frame is being rendered, nor is    *)
(* one waiting.  TextureStreaming builds on this contract.                  *)
EXTENDS Naturals

VARIABLES
  kicked,      \* frames handed over so far
  rendered,    \* frames whose work has returned
  holding      \* the main thread is in its idle section

handoff == <<kicked, rendered, holding>>

Init == kicked = 0 /\ rendered = 0 /\ holding = FALSE

EnterIdle ==
  /\ ~holding /\ rendered = kicked
  /\ holding' = TRUE
  /\ UNCHANGED <<kicked, rendered>>

HandOver ==
  /\ holding
  /\ holding' = FALSE /\ kicked' = kicked + 1
  /\ UNCHANGED rendered

Render ==
  /\ rendered < kicked
  /\ rendered' = rendered + 1
  /\ UNCHANGED <<kicked, holding>>

Next == EnterIdle \/ HandOver \/ Render

Spec == Init /\ [][Next]_handoff
=============================================================================
