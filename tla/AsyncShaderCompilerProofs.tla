----------------------- MODULE AsyncShaderCompilerProofs -----------------------
(* Theorems about AsyncShaderCompiler, for every set of keys, every number  *)
(* of edits and every MaxTake.                                              *)
EXTENDS AsyncShaderCompiler, TLAPS

(* Only a worker in its wait is blocked; and when it is about to block it   *)
(* has seen that there is nothing to do, under the lock it still holds: no  *)
(* request can be inserted, and an abort cannot get past the clearing.      *)
Asleep == blocked => worker_pc = "wait"
Deciding == worker_pc = "block" => Pending = {} /\ (aborted => main_pc = "clear")
AbortPhase == aborted <=> (main_pc \in {"clear", "wake", "join", "joined"})

(* The latest request of a key is filed under it, and the one that is being *)
(* inserted is its key's latest.                                            *)
Inserting ==
  /\ \A k \in Keys : latest[k] # None => latest[k].key = k
  /\ main_pc = "insert" => latest[submitting.key] = submitting

IInv ==
  TypeOK /\ Asleep /\ Deciding /\ AbortPhase /\ NoMissedNotify /\ Inserting /\ LatestSurvives

(* The invariant holds initially.                                           *)
LEMMA InitInv == Init => IInv
<1> SUFFICES ASSUME Init PROVE IInv
  OBVIOUS
<1>1. TypeOK
  <2>1. aborted \in BOOLEAN /\ blocked \in BOOLEAN
    BY DEF Init
  <2>2. /\ pending \in [Keys -> Request \cup {None}] /\ results \in Seq(Request)
        /\ latest \in [Keys -> Request \cup {None}] /\ submits \in 0..MaxSubmits
        /\ reported \subseteq Version /\ entries \subseteq Keys /\ DOMAIN shown = Keys
    BY BoundAssumption DEF Init
  <2>3. /\ worker_pc = "lock" /\ main_pc = "draw" /\ mutex = "free"
        /\ current = None /\ submitting = None
    BY DEF Init
  <2> QED
    BY <2>1, <2>2, <2>3 DEF TypeOK
<1>2. Asleep /\ Deciding /\ AbortPhase /\ NoMissedNotify /\ Inserting /\ LatestSurvives
  BY DEF Init, Asleep, Deciding, AbortPhase, NoMissedNotify, Inserting, LatestSurvives
<1> QED
  BY <1>1, <1>2 DEF IInv

(* The steps of the main thread preserve it.                                *)
LEMMA MainInv == IInv /\ (Edit \/ Update \/ Abort \/ MainStep) => IInv'
<1> SUFFICES ASSUME IInv, Edit \/ Update \/ Abort \/ MainStep PROVE IInv'
  OBVIOUS
<1> USE BoundAssumption, NoneAssumption
    DEF IInv, TypeOK, Asleep, Deciding, AbortPhase, NoMissedNotify, Inserting, LatestSurvives,
        Pending, compiler, worker, previews, main
<1>1. ASSUME NEW k \in Keys, NEW compiles \in BOOLEAN, RequestRecompile(k, compiles) PROVE IInv'
  BY <1>1 DEF RequestRecompile, Request, Version
<1>2. ASSUME NEW k \in Keys, Forget(k) PROVE IInv'
  <2>1. UNCHANGED <<compiler, worker, main, reported>>
    BY <1>2 DEF Forget
  <2>2. entries' \subseteq Keys /\ DOMAIN shown' = Keys
    BY <1>2 DEF Forget
  <2> QED
    BY <2>1, <2>2
<1>3. CASE Submit
  <2>1. /\ main_pc = "insert" /\ mutex = "free" /\ main_pc' = "notify" /\ submitting' = None
        /\ pending' = [pending EXCEPT ![submitting.key] = submitting]
        /\ UNCHANGED <<aborted, mutex, results, blocked, worker, submits, latest, previews>>
    BY <1>3 DEF Submit
  <2>2. submitting \in Request /\ submitting.key \in Keys /\ pending'[submitting.key] = submitting
    BY <2>1 DEF Request
  <2>3. TypeOK'
    BY <2>1, <2>2
  <2>4. LatestSurvives'
    <3> SUFFICES ASSUME ~aborted, NEW k \in Keys, latest[k] # None
                 PROVE  \/ latest[k] \in {None, pending'[k], current}
                        \/ latest[k] \in {results[n] : n \in DOMAIN results}
                        \/ latest[k].version \in reported
      BY <2>1
    <3>1. CASE k = submitting.key
      BY <3>1, <2>1, <2>2
    <3>2. CASE k # submitting.key
      BY <3>2, <2>1, <2>2
    <3> QED
      BY <3>1, <3>2
  <2>5. Inserting' /\ Asleep' /\ Deciding' /\ AbortPhase' /\ NoMissedNotify'
    BY <2>1
  <2> QED
    BY <2>3, <2>4, <2>5
<1>4. CASE SubmitNotify
  <2>1. /\ main_pc = "notify" /\ main_pc' = "draw" /\ blocked' = FALSE
        /\ UNCHANGED <<aborted, mutex, pending, results, worker, submitting, submits, latest, previews>>
    BY <1>4 DEF SubmitNotify
  <2>2. TypeOK'
    BY <2>1
  <2>3. Inserting' /\ Asleep' /\ Deciding' /\ AbortPhase' /\ NoMissedNotify'
    BY <2>1
  <2>4. LatestSurvives'
    BY <2>1
  <2> QED
    BY <2>2, <2>3, <2>4
<1>5. CASE Update
  <2> DEFINE kept == IF Len(results) > MaxTake THEN Len(results) - MaxTake ELSE 0
  <2>1. /\ kept \in 0..Len(results) /\ main_pc = "draw"
        /\ results' = SubSeq(results, 1, kept)
        /\ reported' = reported \cup {results[n].version : n \in (kept + 1)..Len(results)}
    BY <1>5 DEF Update
  <2>2. UNCHANGED <<aborted, mutex, pending, blocked, worker, main, entries>> /\ DOMAIN shown' = Keys
    BY <1>5 DEF Update
  <2> HIDE DEF kept
  <2>3. results' \in Seq(Request) /\ \A n \in 1..kept : n \in DOMAIN results' /\ results'[n] = results[n]
    BY <2>1
  <2>4. \A n \in DOMAIN results : results[n].version \in Version
    <3>1. \A n \in DOMAIN results : results[n] \in Request
      OBVIOUS
    <3> QED
      BY <3>1 DEF Request
  <2>5. TypeOK'
    BY <2>1, <2>2, <2>3, <2>4
  <2>6. LatestSurvives'
    <3> SUFFICES ASSUME ~aborted, NEW k \in Keys, latest[k] # None,
                        latest[k] \notin {submitting, pending[k], current}
                 PROVE  \/ latest[k] \in {results'[n] : n \in DOMAIN results'}
                        \/ latest[k].version \in reported'
      BY <2>2
    <3>1. CASE latest[k].version \in reported
      BY <3>1, <2>1
    <3>2. ASSUME NEW n \in DOMAIN results, latest[k] = results[n]
          PROVE  \/ latest[k] \in {results'[m] : m \in DOMAIN results'}
                 \/ latest[k].version \in reported'
      <4>1. CASE n \in 1..kept
        BY <4>1, <3>2, <2>3
      <4>2. CASE n \in (kept + 1)..Len(results)
        BY <4>2, <3>2, <2>1
      <4> QED
        BY <4>1, <4>2, <2>1
    <3> QED
      BY <3>1, <3>2
  <2> QED
    BY <2>2, <2>5, <2>6
<1>6. CASE Abort
  BY <1>6 DEF Abort
<1>7. CASE ClearPending
  BY <1>7 DEF ClearPending
<1>8. CASE AbortNotify
  BY <1>8 DEF AbortNotify
<1>9. CASE Join
  BY <1>9 DEF Join
<1>10. ASSUME NEW k \in Keys, RejectGraph(k) PROVE IInv'
  <2>1. UNCHANGED <<compiler, worker, main, reported, shown>> /\ entries' \subseteq Keys
    BY <1>10 DEF RejectGraph
  <2> QED
    BY <2>1
<1> QED
  BY <1>1, <1>2, <1>3, <1>4, <1>5, <1>6, <1>7, <1>8, <1>9, <1>10 DEF Edit, MainStep

(* So do the steps of the worker.                                           *)
LEMMA WorkerInv == IInv /\ (WorkerStep \/ SpuriousWakeup) => IInv'
<1> SUFFICES ASSUME IInv, WorkerStep \/ SpuriousWakeup PROVE IInv'
  OBVIOUS
<1> USE NoneAssumption
    DEF IInv, TypeOK, Asleep, Deciding, AbortPhase, NoMissedNotify, Inserting, LatestSurvives,
        Pending, compiler, worker, previews, main
<1>1. CASE Lock
  BY <1>1 DEF Lock
<1>2. CASE Leave
  BY <1>2 DEF Leave
<1>3. CASE NothingToDo
  BY <1>3 DEF NothingToDo
<1>4. CASE Block
  BY <1>4 DEF Block
<1>5. CASE Compile
  BY <1>5 DEF Compile
<1>6. CASE PushResult
  <2>1. /\ worker_pc = "push" /\ worker_pc' = "lock" /\ current' = None
        /\ results' = Append(results, current)
        /\ UNCHANGED <<aborted, mutex, pending, blocked, main, previews>>
    BY <1>6 DEF PushResult
  <2>2. current \in Request /\ results \in Seq(Request)
    BY <2>1
  <2>3. TypeOK'
    BY <2>1, <2>2
  <2>4. Asleep' /\ Deciding' /\ AbortPhase' /\ NoMissedNotify' /\ Inserting'
    BY <2>1
  <2>5. LatestSurvives'
    <3>1. \A r \in {results[n] : n \in DOMAIN results} \cup {current} :
            r \in {results'[n] : n \in DOMAIN results'}
      <4>1. \A n \in DOMAIN results : n \in DOMAIN results' /\ results'[n] = results[n]
        BY <2>1, <2>2
      <4>2. Len(results) + 1 \in DOMAIN results' /\ results'[Len(results) + 1] = current
        BY <2>1, <2>2
      <4> QED
        BY <4>1, <4>2
    <3> QED
      BY <2>1, <3>1
  <2> QED
    BY <2>3, <2>4, <2>5
<1>7. ASSUME NEW k \in Keys, PickUp(k) PROVE IInv'
  BY <1>7 DEF PickUp
<1>8. CASE SpuriousWakeup
  <2>1. /\ blocked' = FALSE
        /\ UNCHANGED <<aborted, mutex, pending, results, worker, main, previews>>
    BY <1>8 DEF SpuriousWakeup
  <2>2. TypeOK'
    BY <2>1
  <2>3. Inserting' /\ Asleep' /\ Deciding' /\ AbortPhase' /\ NoMissedNotify' /\ LatestSurvives'
    BY <2>1
  <2> QED
    BY <2>2, <2>3
<1> QED
  BY <1>1, <1>2, <1>3, <1>4, <1>5, <1>6, <1>7, <1>8 DEF WorkerStep

(* The invariant holds in every reachable state.                            *)
THEOREM Invariance == Spec => []IInv
<1>1. IInv /\ UNCHANGED vars => IInv'
  BY DEF IInv, TypeOK, Asleep, Deciding, AbortPhase, NoMissedNotify, Inserting, LatestSurvives,
         Pending, compiler, worker, previews, main, vars
<1>2. IInv /\ [Next]_vars => IInv'
  BY <1>1, MainInv, WorkerInv DEF Next, Terminated
<1> QED
  BY InitInv, <1>2, PTL DEF Spec

(* Type correctness of the compiler and its client.                         *)
THEOREM TypeCorrect == Spec => []TypeOK
<1>1. IInv => TypeOK
  BY DEF IInv
<1> QED
  BY <1>1, Invariance, PTL

(* No wake-up of the worker is lost, whether for a request or for the abort *)
(* that the destructor raises outside the lock.                             *)
THEOREM NoLostWakeup == Spec => []NoMissedNotify
<1>1. IInv => NoMissedNotify
  BY DEF IInv
<1> QED
  BY <1>1, Invariance, PTL

(* Coalescing never loses the latest request of a key.                      *)
THEOREM LatestNotLost == Spec => []LatestSurvives
<1>1. IInv => LatestSurvives
  BY DEF IInv
<1> QED
  BY <1>1, Invariance, PTL

-----------------------------------------------------------------------------
(* Where the requests are, by age.  Versions are given out in the order of  *)
(* the edits, each to one request, and no request is in two places; those   *)
(* of a key are oldest in the results, then in the worker's hands, then     *)
(* pending, then in the submitter's.                                        *)
Numbered ==
  /\ \A v \in reported : v <= submits
  /\ \A n \in DOMAIN results : results[n].version <= submits
  /\ current # None => current.version <= submits
  /\ \A k \in Keys : pending[k] # None => pending[k].key = k /\ pending[k].version <= submits
  /\ submitting # None => submitting.version = submits

Unreported ==
  /\ \A n \in DOMAIN results : results[n].version \notin reported
  /\ current # None => current.version \notin reported
  /\ \A k \in Keys : pending[k] # None => pending[k].version \notin reported
  /\ submitting # None => submitting.version \notin reported

\* Request q is younger than r, or belongs to another key (and is another one).
Follows(r, q) == r.version # q.version /\ (r.key = q.key => r.version < q.version)

Ordered ==
  /\ \A n, m \in DOMAIN results : n < m => Follows(results[n], results[m])
  /\ current # None => \A n \in DOMAIN results : Follows(results[n], current)
  /\ \A k \in Keys : pending[k] # None =>
       /\ \A n \in DOMAIN results : Follows(results[n], pending[k])
       /\ current # None => Follows(current, pending[k])
       /\ \A j \in Keys : j # k /\ pending[j] # None => pending[j].version # pending[k].version

Youngest ==
  submitting # None =>
    /\ \A n \in DOMAIN results : results[n].version < submitting.version
    /\ current # None => current.version < submitting.version
    /\ \A k \in Keys : pending[k] # None => pending[k].version < submitting.version

AgeInv == Numbered /\ Unreported /\ Ordered /\ Youngest

(* What the type invariant says of the requests, and nothing else.          *)
Requests ==
  /\ results \in Seq(Request) /\ \A n \in DOMAIN results : results[n] \in Request
  /\ current \in Request \cup {None} /\ submitting \in Request \cup {None}
  /\ \A k \in Keys : pending[k] \in Request \cup {None}
  /\ pending \in [Keys -> Request \cup {None}]
  /\ submits \in Nat /\ reported \subseteq Version
  /\ \A r \in Request : r.version \in Nat /\ r.key \in Keys

(* The type invariant implies it.                                           *)
LEMMA RequestTypes == IInv => Requests
<1> SUFFICES ASSUME TypeOK PROVE Requests
  BY DEF IInv
<1>1. \A r \in Request : r.version \in Nat /\ r.key \in Keys
  BY BoundAssumption DEF Request, Version
<1>2. results \in Seq(Request) /\ pending \in [Keys -> Request \cup {None}]
  BY DEF TypeOK
<1>3. \A n \in DOMAIN results : results[n] \in Request
  BY <1>2
<1>4. submits \in Nat /\ reported \subseteq Version
  BY BoundAssumption DEF TypeOK
<1>5. current \in Request \cup {None} /\ submitting \in Request \cup {None}
  BY DEF TypeOK
<1> QED
  BY <1>1, <1>2, <1>3, <1>4, <1>5 DEF Requests

(* A new request is younger than every other.                               *)
LEMMA RequestAges ==
  ASSUME IInv, AgeInv, NEW k \in Keys, NEW compiles \in BOOLEAN, RequestRecompile(k, compiles)
  PROVE  AgeInv'
<1>1. Requests
  BY RequestTypes
<1>2. /\ submits' = submits + 1 /\ submitting'.version = submits + 1
      /\ UNCHANGED <<compiler, worker, reported>>
  BY DEF RequestRecompile
<1>3. Numbered'
  <2>1. \A v \in reported : v \in Nat
    BY <1>1, BoundAssumption DEF Requests, Version
  <2> QED
    BY <1>1, <1>2, <2>1 DEF AgeInv, Numbered, Requests, compiler, worker
<1>4. Unreported'
  <2>1. submits + 1 \notin reported
    BY <1>1 DEF AgeInv, Numbered, Requests
  <2> QED
    BY <1>2, <2>1 DEF AgeInv, Unreported, compiler, worker
<1>5. Ordered'
  BY <1>2 DEF AgeInv, Ordered, Follows, compiler, worker
<1>6. Youngest'
  BY <1>1, <1>2 DEF AgeInv, Numbered, Youngest, Requests, compiler, worker
<1> QED
  BY <1>3, <1>4, <1>5, <1>6 DEF AgeInv

(* Submitting replaces the waiting request of the key by the youngest.      *)
LEMMA SubmitAges == IInv /\ AgeInv /\ Submit => AgeInv'
<1> SUFFICES ASSUME IInv, AgeInv, Submit PROVE AgeInv'
  OBVIOUS
<1>1. Requests
  BY RequestTypes
<1>2. /\ main_pc = "insert" /\ submitting' = None
      /\ pending' = [pending EXCEPT ![submitting.key] = submitting]
      /\ UNCHANGED <<results, worker, submits, reported>>
  BY DEF Submit, previews
<1>3. submitting \in Request /\ submitting.key \in Keys /\ submitting # None
  BY <1>2, <1>1, NoneAssumption DEF IInv, TypeOK, Requests
<1>4. /\ pending'[submitting.key] = submitting
      /\ \A k \in Keys : k # submitting.key => pending'[k] = pending[k]
  BY <1>1, <1>2, <1>3 DEF Requests
<1>5. Numbered'
  BY <1>1, <1>2, <1>3, <1>4 DEF AgeInv, Numbered, Requests, worker
<1>6. Unreported'
  BY <1>2, <1>3, <1>4 DEF AgeInv, Unreported, worker
<1>7. Ordered'
  <2>1. \A n, m \in DOMAIN results : n < m => Follows(results[n], results[m])
    BY DEF AgeInv, Ordered
  <2>2. current # None => \A n \in DOMAIN results : Follows(results[n], current)
    BY DEF AgeInv, Ordered
  <2>3. ASSUME NEW k \in Keys, pending'[k] # None
        PROVE  /\ \A n \in DOMAIN results : Follows(results[n], pending'[k])
               /\ current # None => Follows(current, pending'[k])
               /\ \A j \in Keys : j # k /\ pending'[j] # None => pending'[j].version # pending'[k].version
    <3>1. CASE k = submitting.key
      <4>1. \A r \in Request : r.version < submitting.version => Follows(r, submitting)
        BY <1>1, <1>3 DEF Follows, Requests
      <4>2. /\ \A n \in DOMAIN results : results[n] \in Request /\ results[n].version < submitting.version
            /\ current # None => current \in Request /\ current.version < submitting.version
        BY <1>1, <1>3 DEF AgeInv, Youngest, Requests
      <4>3. \A j \in Keys : j # k /\ pending'[j] # None => pending'[j].version # pending'[k].version
        BY <1>1, <1>3, <1>4, <3>1 DEF AgeInv, Youngest, Requests
      <4> QED
        BY <3>1, <1>4, <4>1, <4>2, <4>3
    <3>2. CASE k # submitting.key
      <4>1. pending'[k] = pending[k]
        BY <3>2, <1>4
      <4>2. \A j \in Keys : j # k /\ pending'[j] # None => pending'[j].version # pending'[k].version
        BY <1>1, <1>3, <1>4, <2>3, <3>2 DEF AgeInv, Youngest, Ordered, Requests
      <4>3. /\ \A n \in DOMAIN results : Follows(results[n], pending[k])
            /\ current # None => Follows(current, pending[k])
        BY <4>1, <2>3 DEF AgeInv, Ordered
      <4> QED
        BY <4>1, <4>2, <4>3
    <3> QED
      BY <3>1, <3>2
  <2> QED
    BY <1>2, <2>1, <2>2, <2>3 DEF Ordered, worker
<1>8. Youngest'
  BY <1>2 DEF Youngest
<1> QED
  BY <1>5, <1>6, <1>7, <1>8 DEF AgeInv
(* Taking results from the back moves the youngest of them to the reported. *)
LEMMA UpdateAges == IInv /\ AgeInv /\ Update => AgeInv'
<1> SUFFICES ASSUME IInv, AgeInv, Update PROVE AgeInv'
  OBVIOUS
<1> DEFINE kept == IF Len(results) > MaxTake THEN Len(results) - MaxTake ELSE 0
<1>1. Requests
  BY RequestTypes
<1>2. /\ results' = SubSeq(results, 1, kept) /\ kept \in 0..Len(results)
      /\ reported' = reported \cup {results[n].version : n \in (kept + 1)..Len(results)}
      /\ UNCHANGED <<pending, worker, main>>
  BY <1>1, BoundAssumption DEF Update, Requests
<1> HIDE DEF kept
<1>3. /\ DOMAIN results' = 1..kept /\ DOMAIN results = 1..Len(results) /\ Len(results) \in Nat
      /\ \A n \in 1..kept : results'[n] = results[n]
  BY <1>1, <1>2 DEF Requests
<1>4. \A v \in reported' \ reported :
        \E m \in DOMAIN results : m > kept /\ v = results[m].version
  BY <1>2, <1>3
<1>5. \A n \in DOMAIN results' : n \in DOMAIN results /\ results'[n] = results[n]
  BY <1>2, <1>3
<1>6. Numbered'
  BY <1>2, <1>4, <1>5 DEF AgeInv, Numbered, worker, main
<1>7. Unreported'
  <2>1. ASSUME NEW n \in DOMAIN results', results'[n].version \in reported' PROVE FALSE
    <3>1. PICK m \in DOMAIN results : m > kept /\ results[n].version = results[m].version
      BY <1>4, <1>5, <2>1 DEF AgeInv, Unreported
    <3>2. n < m
      BY <1>2, <1>3, <3>1
    <3> QED
      BY <1>5, <2>1, <3>1, <3>2 DEF AgeInv, Ordered, Follows
  <2>2. current # None => current.version \notin reported'
    BY <1>4 DEF AgeInv, Unreported, Ordered, Follows
  <2>3. \A k \in Keys : pending[k] # None => pending[k].version \notin reported'
    BY <1>4 DEF AgeInv, Unreported, Ordered, Follows
  <2>4. submitting # None => submitting.version \notin reported'
    <3>1. \A m \in DOMAIN results : submitting # None => results[m].version # submitting.version
      BY <1>1 DEF AgeInv, Youngest, Requests
    <3> QED
      BY <1>4, <3>1 DEF AgeInv, Unreported
  <2> QED
    BY <1>2, <2>1, <2>2, <2>3, <2>4 DEF Unreported, worker, main
<1>8. Ordered'
  BY <1>2, <1>5 DEF AgeInv, Ordered, Follows, worker
<1>9. Youngest'
  BY <1>2, <1>5 DEF AgeInv, Youngest, worker, main
<1> QED
  BY <1>6, <1>7, <1>8, <1>9 DEF AgeInv

(* The worker takes a pending request, which follows every result.          *)
LEMMA PickUpAges == ASSUME IInv, AgeInv, NEW k \in Keys, PickUp(k) PROVE AgeInv'
<1>1. Requests
  BY RequestTypes
<1>2. /\ current' = pending[k] /\ pending' = [pending EXCEPT ![k] = None]
      /\ UNCHANGED <<results, submitting, submits, reported>>
      /\ pending[k] # None
  BY DEF PickUp, Pending, main, previews
<1>3. pending'[k] = None /\ \A j \in Keys : j # k => pending'[j] = pending[j]
  BY <1>1, <1>2 DEF Requests
<1>4. Numbered'
  BY <1>2, <1>3 DEF AgeInv, Numbered
<1>5. Unreported'
  BY <1>2, <1>3 DEF AgeInv, Unreported
<1>6. Ordered'
  <2>1. \A n \in DOMAIN results : Follows(results[n], pending[k])
    BY <1>2 DEF AgeInv, Ordered
  <2>2. ASSUME NEW j \in Keys, pending'[j] # None
        PROVE  j # k /\ pending'[j] = pending[j] /\ Follows(pending[k], pending[j])
    <3>1. j # k /\ pending'[j] = pending[j]
      BY <1>3, <2>2
    <3>2. pending[j].version # pending[k].version /\ pending[j].key = j /\ pending[k].key = k
      BY <1>2, <2>2, <3>1 DEF AgeInv, Ordered, Numbered
    <3> QED
      BY <3>1, <3>2 DEF Follows
  <2>3. \A j \in Keys : pending'[j] # None =>
          /\ \A n \in DOMAIN results : Follows(results[n], pending'[j])
          /\ \A i \in Keys : i # j /\ pending'[i] # None => pending'[i].version # pending'[j].version
    BY <2>2 DEF AgeInv, Ordered
  <2> QED
    BY <1>2, <2>1, <2>2, <2>3 DEF AgeInv, Ordered
<1>7. Youngest'
  BY <1>2, <1>3 DEF AgeInv, Youngest
<1> QED
  BY <1>4, <1>5, <1>6, <1>7 DEF AgeInv

(* What it has compiled goes behind the results, which it follows.          *)
LEMMA PushAges == IInv /\ AgeInv /\ PushResult => AgeInv'
<1> SUFFICES ASSUME IInv, AgeInv, PushResult PROVE AgeInv'
  OBVIOUS
<1>1. Requests
  BY RequestTypes
<1>2. /\ current # None /\ current' = None /\ results' = Append(results, current)
      /\ UNCHANGED <<pending, main, reported>>
  BY NoneAssumption DEF PushResult, IInv, TypeOK, previews
<1>3. /\ DOMAIN results' = 1..(Len(results) + 1) /\ DOMAIN results = 1..Len(results)
      /\ Len(results) \in Nat /\ results'[Len(results) + 1] = current
      /\ \A n \in 1..Len(results) : results'[n] = results[n]
  BY <1>1, <1>2 DEF Requests
<1>4. \A n \in DOMAIN results' :
        (n \in DOMAIN results /\ results'[n] = results[n]) \/ (n = Len(results) + 1 /\ results'[n] = current)
  BY <1>3
<1>5. Numbered'
  BY <1>2, <1>4 DEF AgeInv, Numbered, main
<1>6. Unreported'
  BY <1>2, <1>4 DEF AgeInv, Unreported, main
<1>7. Ordered'
  <2>1. ASSUME NEW n \in DOMAIN results', NEW m \in DOMAIN results', n < m
        PROVE  Follows(results'[n], results'[m])
    <3>1. n \in DOMAIN results /\ results'[n] = results[n]
      BY <1>3, <2>1
    <3> QED
      BY <1>2, <1>4, <2>1, <3>1 DEF AgeInv, Ordered
  <2>2. ASSUME NEW k \in Keys, pending[k] # None
        PROVE  /\ \A n \in DOMAIN results' : Follows(results'[n], pending[k])
               /\ \A j \in Keys : j # k /\ pending[j] # None => pending[j].version # pending[k].version
    BY <1>2, <1>4, <2>2 DEF AgeInv, Ordered
  <2> QED
    BY <1>2, <2>1, <2>2 DEF Ordered
<1>8. Youngest'
  BY <1>2, <1>4 DEF AgeInv, Youngest, main
<1> QED
  BY <1>5, <1>6, <1>7, <1>8 DEF AgeInv

(* No other step moves a request, except that a pending one may be dropped  *)
(* by the abort and a compiled one that nobody will take.                   *)
LEMMA OtherAges ==
  ASSUME IInv, AgeInv,
         UNCHANGED <<results, submitting, submits, reported>>,
         current' \in {current, None}, pending' \in {pending, [k \in Keys |-> None]}
  PROVE  AgeInv'
<1>1. \A k \in Keys : pending'[k] # None => pending'[k] = pending[k]
  OBVIOUS
<1>2. Numbered' /\ Unreported'
  BY <1>1 DEF AgeInv, Numbered, Unreported
<1>3. Ordered' /\ Youngest'
  BY <1>1 DEF AgeInv, Ordered, Youngest
<1> QED
  BY <1>2, <1>3 DEF AgeInv

(* So the requests keep their order in every step.                          *)
LEMMA AgeStep == IInv /\ AgeInv /\ [Next]_vars => AgeInv'
<1> SUFFICES ASSUME IInv, AgeInv, [Next]_vars PROVE AgeInv'
  OBVIOUS
<1> DEFINE Moved == UNCHANGED <<results, submitting, submits, reported>>
                    /\ current' \in {current, None}
                    /\ pending' \in {pending, [k \in Keys |-> None]}
<1>1. ASSUME NEW k \in Keys, Forget(k) \/ RejectGraph(k) PROVE Moved
  BY <1>1 DEF Forget, RejectGraph, compiler, worker, main
<1>2. CASE SubmitNotify \/ Abort \/ ClearPending \/ AbortNotify \/ Join
  <2>1. Moved
    BY <1>2 DEF SubmitNotify, Abort, ClearPending, AbortNotify, Join, compiler, worker, previews
  <2> QED
    BY <2>1, OtherAges
<1>3. CASE Lock \/ Leave \/ NothingToDo \/ Block \/ Compile \/ SpuriousWakeup
  <2>1. Moved
    BY <1>3 DEF Lock, Leave, NothingToDo, Block, Compile, SpuriousWakeup, compiler, worker, main, previews
  <2> QED
    BY <2>1, OtherAges
<1>4. CASE UNCHANGED vars
  <2>1. Moved
    BY <1>4 DEF vars, compiler, worker, main, previews
  <2> QED
    BY <2>1, OtherAges
<1> QED
  BY <1>1, <1>2, <1>3, <1>4, OtherAges, RequestAges, SubmitAges, UpdateAges, PickUpAges, PushAges
     DEF Next, Edit, MainStep, WorkerStep, Terminated

(* No request is compiled twice or after a later one of its key.            *)
THEOREM CompiledInOrder == Spec => []CompiledOnceInOrder
<1>1. Init => AgeInv
  BY DEF Init, AgeInv, Numbered, Unreported, Ordered, Youngest
<1>2. IInv /\ AgeInv => CompiledOnceInOrder
  BY DEF AgeInv, Unreported, Ordered, Follows, CompiledOnceInOrder
<1> QED
  BY <1>1, <1>2, AgeStep, Invariance, PTL DEF Spec
=============================================================================
