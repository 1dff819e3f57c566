------------------------ MODULE MCWorkStealingDeque ------------------------
(* Two thieves against the owner of a ring of two slots; five pushes reuse  *)
(* both slots more than once.                                               *)
EXTENDS WorkStealingDeque
=============================================================================
