------------------------- MODULE RemoteUpdateProofs -------------------------
(***************************************************************************)
(* Proofs about RemoteUpdate, for every number of requesters, workers and  *)
(* releases.                                                               *)
(***************************************************************************)
EXTENDS RemoteUpdate, FiniteSetTheorems, TLAPS

On(w)     == job[w] # "off"
Asking(r) == asks[r] # "nothing"

\* OneWorker, and what it rests on: until two requests have met only one is ever
\* between its locks, it is there with no worker, and a worker has the handle.
Alone ==
  ~met => /\ \A q, r \in Requesters : Asking(q) /\ Asking(r) => q = r
          /\ \A r \in Requesters, w \in Workers : Asking(r) => ~On(w)
          /\ \A w \in Workers : On(w) => workerTask = w

\* Until then the state says what the worker is at, as long as it has the lock.
States ==
  ~met => /\ ~missed /\ remoteState \in {"CHECKING", "DOWNLOADING"} =>
               \E w \in Workers : On(w)
          /\ \A w \in Workers :
               job[w] \in {"fetch", "publish"} => remoteState = "CHECKING"

\* The package prepared, if any, is the one of release u or came by hand.
Holds(u) == prepared \in {u, ByHand, None}

\* Until then baseUrl, wherever an install may start from it, is the release of
\* the prepared package, and the worker's copy is, until it downloads.
Kept ==
  ~met => /\ remoteState = "AVAILABLE" => Holds(baseUrl)
          /\ \A r \in Requesters : asks[r] = "apply" => Holds(baseUrl)
          /\ \A w \in Workers : job[w] = "apply" => Holds(baseUrl)
          /\ \A w \in Workers : job[w] \in {"publish", "download"} => Holds(local[w])

\* TypeOK in two parts.
SharedTyped == /\ remoteState \in {"IDLE", "CHECKING", "AVAILABLE", "DOWNLOADING", "FAILED"}
               /\ workerTask \in Workers \cup {None}
               /\ manifestUrl \in Urls \cup {None} /\ baseUrl \in Urls \cup {None}
               /\ prepared \in Urls \cup {None, ByHand}
TasksTyped  == /\ asks \in [Requesters -> {"nothing", "check", "apply", "fail"}]
               /\ job \in [Workers -> {"off", "check", "fetch", "publish", "apply",
                                       "download", "done", "fail"}]
               /\ local \in [Workers -> Urls \cup {None}]
FlagsTyped  == met \in BOOLEAN /\ missed \in BOOLEAN

\* The inductive invariant.
IInv == /\ SharedTyped /\ TasksTyped /\ FlagsTyped
        /\ Alone /\ States /\ Kept /\ HandleMeansWorker

-----------------------------------------------------------------------------
(* The invariant *)

LEMMA Typed == SharedTyped /\ TasksTyped /\ FlagsTyped <=> TypeOK
BY DEF TypeOK, SharedTyped, TasksTyped, FlagsTyped

LEMMA InitIInv == Init => IInv
<1> SUFFICES ASSUME Init PROVE IInv
  OBVIOUS
<1> USE RemoteAssumption DEF Init
<1>1. SharedTyped
  BY DEF SharedTyped
<1>2. TasksTyped
  BY DEF TasksTyped
<1>3. FlagsTyped
  BY DEF FlagsTyped
<1>4. Alone
  BY DEF Alone, On, Asking, SharedTyped, TasksTyped
<1>5. States
  BY DEF Alone, States, On, Asking, SharedTyped, TasksTyped
<1>6. Kept
  BY DEF Alone, States, Kept, Holds, On, Asking, SharedTyped, TasksTyped
<1>7. HandleMeansWorker
  BY DEF HandleMeansWorker, Alive, SharedTyped, TasksTyped
<1> QED BY <1>1, <1>2, <1>3, <1>4, <1>5, <1>6, <1>7 DEF IInv

\* Every step keeps the invariant.
LEMMA NextIInv == IInv /\ [Next]_vars => IInv'
<1> SUFFICES ASSUME IInv, [Next]_vars PROVE IInv'
  OBVIOUS
<1> USE RemoteAssumption DEF IInv
<1>1. ASSUME NEW r \in Requesters, NEW u \in Urls, RequestCheck(r, u) PROVE IInv'
  <2> USE <1>1 DEF RequestCheck, Ask, Busy, shared
  <2>1. SharedTyped'
    BY DEF SharedTyped
  <2>2. TasksTyped'
    BY DEF TasksTyped
  <2>3. FlagsTyped'
    BY DEF FlagsTyped
  <2>4. Alone'
    BY DEF Alone, On, Asking, SharedTyped, TasksTyped
  <2>5. States'
    BY DEF Alone, States, On, Asking, SharedTyped, TasksTyped
  <2>6. Kept'
    <3>1. \A w \in Workers : job[w] = "off" \/ met'
      BY DEF Alone, On
    <3>2. \A q \in Requesters : asks[q] = "nothing" \/ met'
      BY DEF TasksTyped
    <3>3. remoteState' # "AVAILABLE"
      OBVIOUS
    <3>4. asks'[r] # "apply"
      BY DEF TasksTyped
    <3>5. \A q \in Requesters : asks'[q] = "apply" => met'
      BY <3>2, <3>4 DEF TasksTyped
    <3> QED BY <3>1, <3>3, <3>5 DEF Kept
  <2>7. HandleMeansWorker'
    BY DEF HandleMeansWorker, Alive, SharedTyped, TasksTyped
  <2> QED BY <2>1, <2>2, <2>3, <2>4, <2>5, <2>6, <2>7
<1>2. ASSUME NEW r \in Requesters, RequestApply(r) PROVE IInv'
  <2> USE <1>2 DEF RequestApply, Ask, shared
  <2>1. SharedTyped'
    BY DEF SharedTyped
  <2>2. TasksTyped'
    BY DEF TasksTyped
  <2>3. FlagsTyped'
    BY DEF FlagsTyped
  <2>4. Alone'
    BY DEF Alone, On, Asking, SharedTyped, TasksTyped
  <2>5. States'
    BY DEF Alone, States, On, Asking, SharedTyped, TasksTyped
  <2>6. Kept'
    BY DEF Alone, States, Kept, Holds, On, Asking, SharedTyped, TasksTyped
  <2>7. HandleMeansWorker'
    BY DEF HandleMeansWorker, Alive, SharedTyped, TasksTyped
  <2> QED BY <2>1, <2>2, <2>3, <2>4, <2>5, <2>6, <2>7
<1>3. ASSUME NEW r \in Requesters, StartWorker(r) PROVE IInv'
  <2> USE <1>3 DEF StartWorker, shared
  <2>1. SharedTyped'
    BY DEF SharedTyped
  <2>2. TasksTyped'
    BY DEF TasksTyped
  <2>3. FlagsTyped'
    BY DEF FlagsTyped
  <2>4. Alone'
    BY DEF Alone, On, Asking, SharedTyped, TasksTyped
  <2>5. States'
    BY DEF Alone, States, On, Asking, SharedTyped, TasksTyped
  <2>6. Kept'
    BY DEF Alone, States, Kept, Holds, On, Asking, SharedTyped, TasksTyped
  <2>7. HandleMeansWorker'
    BY DEF HandleMeansWorker, Alive, SharedTyped, TasksTyped
  <2> QED BY <2>1, <2>2, <2>3, <2>4, <2>5, <2>6, <2>7
<1>4. ASSUME NEW r \in Requesters, RequestFails(r) PROVE IInv'
  <2> USE <1>4 DEF RequestFails, setFailed, shared
  <2>1. SharedTyped'
    BY DEF SharedTyped
  <2>2. TasksTyped'
    BY DEF TasksTyped
  <2>3. FlagsTyped'
    BY DEF FlagsTyped
  <2>4. Alone'
    BY DEF Alone, On, Asking, SharedTyped, TasksTyped
  <2>5. States'
    BY DEF Alone, States, On, Asking, SharedTyped, TasksTyped
  <2>6. Kept'
    BY DEF Alone, States, Kept, Holds, On, Asking, SharedTyped, TasksTyped
  <2>7. HandleMeansWorker'
    BY DEF HandleMeansWorker, Alive, SharedTyped, TasksTyped
  <2> QED BY <2>1, <2>2, <2>3, <2>4, <2>5, <2>6, <2>7
<1>5. ASSUME NEW w \in Workers, CheckWorker(w) PROVE IInv'
  <2> USE <1>5 DEF CheckWorker, Goto
  <2>1. SharedTyped'
    BY DEF SharedTyped
  <2>2. TasksTyped'
    BY DEF SharedTyped, TasksTyped
  <2>3. FlagsTyped'
    BY DEF FlagsTyped
  <2>4. Alone'
    BY DEF Alone, On, Asking, SharedTyped, TasksTyped
  <2>5. States'
    BY DEF Alone, States, On, Asking, SharedTyped, TasksTyped
  <2>6. Kept'
    BY DEF Alone, States, Kept, Holds, On, Asking, SharedTyped, TasksTyped
  <2>7. HandleMeansWorker'
    BY DEF HandleMeansWorker, Alive, SharedTyped, TasksTyped
  <2> QED BY <2>1, <2>2, <2>3, <2>4, <2>5, <2>6, <2>7
<1>6. ASSUME NEW w \in Workers, Fetch(w) PROVE IInv'
  <2> USE <1>6 DEF Fetch, Goto, shared
  <2>1. SharedTyped'
    BY DEF SharedTyped, TasksTyped
  <2>2. TasksTyped'
    BY DEF TasksTyped
  <2>3. FlagsTyped'
    BY DEF FlagsTyped
  <2>4. Alone'
    BY DEF Alone, On, Asking, SharedTyped, TasksTyped
  <2>5. States'
    BY DEF Alone, States, On, Asking, SharedTyped, TasksTyped
  <2>6. Kept'
    BY DEF Alone, States, Kept, Holds, On, Asking, SharedTyped, TasksTyped
  <2>7. HandleMeansWorker'
    BY DEF HandleMeansWorker, Alive, SharedTyped, TasksTyped
  <2> QED BY <2>1, <2>2, <2>3, <2>4, <2>5, <2>6, <2>7
<1>7. ASSUME NEW w \in Workers, Publish(w) PROVE IInv'
  <2> USE <1>7 DEF Publish, Goto, Delete
  <2>1. SharedTyped'
    BY DEF SharedTyped, TasksTyped
  <2>2. TasksTyped'
    BY DEF TasksTyped
  <2>3. FlagsTyped'
    BY DEF FlagsTyped
  <2>4. Alone'
    BY DEF Alone, On, Asking, SharedTyped, TasksTyped
  <2>5. States'
    BY DEF Alone, States, On, Asking, SharedTyped, TasksTyped
  <2>6. Kept'
    BY DEF Alone, States, Kept, Holds, On, Asking, SharedTyped, TasksTyped
  <2>7. HandleMeansWorker'
    BY DEF HandleMeansWorker, Alive, SharedTyped, TasksTyped
  <2> QED BY <2>1, <2>2, <2>3, <2>4, <2>5, <2>6, <2>7
<1>8. ASSUME NEW w \in Workers, ApplyWorker(w) PROVE IInv'
  <2> USE <1>8 DEF ApplyWorker, Goto
  <2>1. SharedTyped'
    BY DEF SharedTyped
  <2>2. TasksTyped'
    BY DEF SharedTyped, TasksTyped
  <2>3. FlagsTyped'
    BY DEF FlagsTyped
  <2>4. Alone'
    BY DEF Alone, On, Asking, SharedTyped, TasksTyped
  <2>5. States'
    BY DEF Alone, States, On, Asking, SharedTyped, TasksTyped
  <2>6. Kept'
    BY DEF Alone, States, Kept, Holds, On, Asking, SharedTyped, TasksTyped
  <2>7. HandleMeansWorker'
    BY DEF HandleMeansWorker, Alive, SharedTyped, TasksTyped
  <2> QED BY <2>1, <2>2, <2>3, <2>4, <2>5, <2>6, <2>7
<1>9. ASSUME NEW w \in Workers, Download(w) PROVE IInv'
  <2> USE <1>9 DEF Download, Goto, shared
  <2>1. SharedTyped'
    BY DEF SharedTyped
  <2>2. TasksTyped'
    BY DEF TasksTyped
  <2>3. FlagsTyped'
    BY DEF FlagsTyped
  <2>4. Alone'
    BY DEF Alone, On, Asking, SharedTyped, TasksTyped
  <2>5. States'
    BY DEF Alone, States, On, Asking, SharedTyped, TasksTyped
  <2>6. Kept'
    BY DEF Alone, States, Kept, Holds, On, Asking, SharedTyped, TasksTyped
  <2>7. HandleMeansWorker'
    BY DEF HandleMeansWorker, Alive, SharedTyped, TasksTyped
  <2> QED BY <2>1, <2>2, <2>3, <2>4, <2>5, <2>6, <2>7
<1>10. ASSUME NEW w \in Workers, Finish(w) PROVE IInv'
  <2> USE <1>10 DEF Finish, Goto, Delete
  <2>1. SharedTyped'
    BY DEF SharedTyped
  <2>2. TasksTyped'
    BY DEF TasksTyped
  <2>3. FlagsTyped'
    BY DEF FlagsTyped
  <2>4. Alone'
    BY DEF Alone, On, Asking, SharedTyped, TasksTyped
  <2>5. States'
    BY DEF Alone, States, On, Asking, SharedTyped, TasksTyped
  <2>6. Kept'
    BY DEF Alone, States, Kept, Holds, On, Asking, SharedTyped, TasksTyped
  <2>7. HandleMeansWorker'
    BY DEF HandleMeansWorker, Alive, SharedTyped, TasksTyped
  <2> QED BY <2>1, <2>2, <2>3, <2>4, <2>5, <2>6, <2>7
<1>11. ASSUME NEW w \in Workers, WorkerFails(w) PROVE IInv'
  <2> USE <1>11 DEF WorkerFails, Goto, Delete, setFailed
  <2>1. SharedTyped'
    BY DEF SharedTyped
  <2>2. TasksTyped'
    BY DEF TasksTyped
  <2>3. FlagsTyped'
    BY DEF FlagsTyped
  <2>4. Alone'
    BY DEF Alone, On, Asking, SharedTyped, TasksTyped
  <2>5. States'
    BY DEF Alone, States, On, Asking, SharedTyped, TasksTyped
  <2>6. Kept'
    BY DEF Alone, States, Kept, Holds, On, Asking, SharedTyped, TasksTyped
  <2>7. HandleMeansWorker'
    BY DEF HandleMeansWorker, Alive, SharedTyped, TasksTyped
  <2> QED BY <2>1, <2>2, <2>3, <2>4, <2>5, <2>6, <2>7
<1>12. ASSUME NEW w \in Workers, WorkerMisses(w) PROVE IInv'
  <2> USE <1>12 DEF WorkerMisses, Goto, Delete, shared
  <2>1. SharedTyped'
    BY DEF SharedTyped
  <2>2. TasksTyped'
    BY DEF TasksTyped
  <2>3. FlagsTyped'
    BY DEF FlagsTyped
  <2>4. Alone'
    BY DEF Alone, On, Asking, SharedTyped, TasksTyped
  <2>5. States'
    BY DEF Alone, States, On, Asking, SharedTyped, TasksTyped
  <2>6. Kept'
    BY DEF Alone, States, Kept, Holds, On, Asking, SharedTyped, TasksTyped
  <2>7. HandleMeansWorker'
    BY DEF HandleMeansWorker, Alive, SharedTyped, TasksTyped
  <2> QED BY <2>1, <2>2, <2>3, <2>4, <2>5, <2>6, <2>7
<1>13. ASSUME PrepareByHand PROVE IInv'
  <2> USE <1>13 DEF PrepareByHand, shared
  <2>1. SharedTyped'
    BY DEF SharedTyped
  <2>2. TasksTyped'
    BY DEF TasksTyped
  <2>3. FlagsTyped'
    BY DEF FlagsTyped
  <2>4. Alone'
    BY DEF Alone, On, Asking, SharedTyped, TasksTyped
  <2>5. States'
    BY DEF Alone, States, On, Asking, SharedTyped, TasksTyped
  <2>6. Kept'
    BY DEF Alone, States, Kept, Holds, On, Asking, SharedTyped, TasksTyped
  <2>7. HandleMeansWorker'
    BY DEF HandleMeansWorker, Alive, SharedTyped, TasksTyped
  <2> QED BY <2>1, <2>2, <2>3, <2>4, <2>5, <2>6, <2>7
<1>14. CASE UNCHANGED vars
  <2> USE <1>14 DEF vars, shared
  <2>1. SharedTyped'
    BY DEF SharedTyped
  <2>2. TasksTyped'
    BY DEF TasksTyped
  <2>3. FlagsTyped'
    BY DEF FlagsTyped
  <2>4. Alone'
    BY DEF Alone, On, Asking, SharedTyped, TasksTyped
  <2>5. States'
    BY DEF Alone, States, On, Asking, SharedTyped, TasksTyped
  <2>6. Kept'
    BY DEF Alone, States, Kept, Holds, On, Asking, SharedTyped, TasksTyped
  <2>7. HandleMeansWorker'
    BY DEF HandleMeansWorker, Alive, SharedTyped, TasksTyped
  <2> QED BY <2>1, <2>2, <2>3, <2>4, <2>5, <2>6, <2>7
<1> QED BY <1>1, <1>2, <1>3, <1>4, <1>5, <1>6, <1>7, <1>8, <1>9, <1>10, <1>11, <1>12, <1>13, <1>14 DEF Next, RequestStep, WorkerStep

LEMMA Invariant == Spec => []IInv
<1> QED BY InitIInv, NextIInv, PTL DEF Spec

\* Every variable stays in its range: the states stateName() names, and handles
\* and releases that exist.
THEOREM TypeCorrect == Spec => []TypeOK
<1>1. IInv => TypeOK
  BY Typed DEF IInv
<1> QED BY <1>1, Invariant, PTL

\* No handle is left behind while nobody has missed the lock, whoever meets whom.
THEOREM NoHandleLeft == Spec => []HandleMeansWorker
<1>1. IInv => HandleMeansWorker
  BY DEF IInv
<1> QED BY <1>1, Invariant, PTL

\* At most one worker, and the state is busy only with it, until two requests meet.
THEOREM NeverTwoWorkers == Spec => []OneWorker
<1>1. IInv => OneWorker
  <2> SUFFICES ASSUME IInv, ~met
               PROVE  /\ Cardinality(Alive) <= 1
                      /\ Alive # {} => workerTask \in Alive
                      /\ ~missed /\ remoteState \in {"CHECKING", "DOWNLOADING"} =>
                           Alive # {}
    BY DEF OneWorker
  <2>1. Alive \subseteq {workerTask}
    BY DEF IInv, Alone, On, Alive
  <2>2. Cardinality(Alive) <= 1
    <3>1. Alive = {} \/ Alive = {workerTask}
      BY <2>1
    <3>2. Cardinality({}) = 0 /\ Cardinality({workerTask}) = 1
      BY FS_EmptySet, FS_Singleton
    <3> QED BY <3>1, <3>2
  <2>3. Alive # {} => workerTask \in Alive
    BY <2>1
  <2>4. ~missed /\ remoteState \in {"CHECKING", "DOWNLOADING"} => Alive # {}
    BY DEF IInv, States, On, Alive
  <2> QED BY <2>2, <2>3, <2>4
<1> QED BY <1>1, Invariant, PTL

\* A worker that downloads gets done by downloading, whatever else may happen.
LEMMA OnlyDownloadEnds ==
  ASSUME TasksTyped, Next, NEW w \in Workers, job[w] = "download", job'[w] = "done"
  PROVE  Download(w)
<1> USE DEF TasksTyped, Goto, Delete
<1>1. job' # job
  OBVIOUS
<1>2. CASE \E r \in Requesters : (\E u \in Urls : RequestCheck(r, u)) \/ RequestApply(r)
  BY <1>1, <1>2 DEF RequestCheck, RequestApply
<1>3. CASE \E r \in Requesters : RequestStep(r)
  BY <1>3 DEF RequestStep, StartWorker, RequestFails
<1>4. ASSUME NEW v \in Workers, WorkerStep(v) PROVE v = w /\ Download(w)
  <2>1. job[v] = "download" /\ v = w
    BY <1>4 DEF WorkerStep, CheckWorker, Fetch, Publish, ApplyWorker, Download, Finish,
                WorkerFails, WorkerMisses
  <2> QED BY <1>4, <2>1 DEF WorkerStep, CheckWorker, Fetch, Publish, ApplyWorker, Finish,
                            WorkerFails, WorkerMisses
<1>5. ~PrepareByHand
  BY <1>1 DEF PrepareByHand
<1> QED BY <1>2, <1>3, <1>4, <1>5 DEF Next

\* An install that was requested while a release was available writes that
\* release's package, or the one the upload page put in its place.
THEOREM InstallsWhatWasPrepared == Spec => DownloadsWhatIsPrepared
<1>1. ASSUME IInv, [Next]_vars
      PROVE  [\A w \in Workers : job[w] = "download" /\ job'[w] = "done" /\ ~met =>
                prepared \in {local[w], ByHand}]_vars
  <2> SUFFICES ASSUME Next, NEW w \in Workers, ~met,
                      job[w] = "download", job'[w] = "done"
               PROVE  prepared \in {local[w], ByHand}
    BY <1>1
  <2>1. Download(w)
    BY <1>1, OnlyDownloadEnds DEF IInv
  <2>2. prepared # None
    BY <1>1, <2>1 DEF Download, Goto, IInv, TasksTyped
  <2>3. Holds(local[w])
    BY <1>1 DEF IInv, Kept
  <2> QED BY <2>2, <2>3 DEF Holds
<1> QED BY <1>1, Invariant, PTL DEF Spec, DownloadsWhatIsPrepared
=============================================================================
