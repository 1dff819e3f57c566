---------------------------- MODULE MCAsyncCompute ----------------------------
(* The bounds of the run are in MCAsyncCompute.cfg.                         *)
EXTENDS AsyncCompute
=============================================================================
