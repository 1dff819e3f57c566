---------------------------- MODULE MCWorkerPool ----------------------------
(* Two workers; the main thread schedules a and b, a schedules c and d.     *)
(* Deques of one slot, so that d finds the deque of a's worker full.        *)
EXTENDS WorkerPool, TLC

CONSTANTS root, job_a, job_b, job_c, job_d

MCChildren ==
  root :> <<job_a, job_b>> @@ job_a :> <<job_c, job_d>>
    @@ job_b :> <<>> @@ job_c :> <<>> @@ job_d :> <<>>
=============================================================================
