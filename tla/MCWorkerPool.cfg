SPECIFICATION Spec
CONSTANTS
  root = root
  job_a = job_a
  job_b = job_b
  job_c = job_c
  job_d = job_d
  Workers = {w1, w2}
  Main = main
  Jobs = {root, job_a, job_b, job_c, job_d}
  Root = root
  Children <- MCChildren
  MayThrow = {job_a, job_c}
  Capacity = 1
  NoJob = NoJob
INVARIANTS
  TypeOK
  NoDanglingJob
  ExceptionReachesWaiter
  NoStrandedJob
PROPERTIES
  PoolJoins
