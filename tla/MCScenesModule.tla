--------------------------- MODULE MCScenesModule ---------------------------
(* The scenes module with a few operations: enough for a queued load with   *)
(* an asynchronous one before or after it and an unload in the same batch.  *)
EXTENDS ScenesModule
=============================================================================
