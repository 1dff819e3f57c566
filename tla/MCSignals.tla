------------------------------- MODULE MCSignals -------------------------------
(* The bounds of the run are in MCSignals.cfg.                              *)
EXTENDS Signals
=============================================================================
