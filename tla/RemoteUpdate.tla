---------------------------- MODULE RemoteUpdate ----------------------------
(***************************************************************************)
(* The remote update service (src/src/remote_update_service.cpp): checks   *)
(* and installs are requested from the HTTP task and from the loop task    *)
(* (MQTT commands, the update scheduler) and carried out by a worker task. *)
(* stateMutex guards each step below, not the sequence of steps a request  *)
(* takes, and whoever waits 250 ms for it in vain goes on without it.      *)
(* FirmwareUpdate is seen only through what a call may answer.             *)
(***************************************************************************)
EXTENDS Naturals, FiniteSets

CONSTANTS
  Requesters,   \* tasks that call requestCheck() and requestApply()
  Workers,      \* FreeRTOS tasks that may exist at a time
  Urls,         \* releases that may be asked for
  None,         \* no url, no worker, no package
  ByHand        \* a package that came through the upload page

ASSUME RemoteAssumption == /\ None \notin Urls \cup Workers \cup {ByHand}
                           /\ ByHand \notin Urls

VARIABLES
  remoteState, workerTask, manifestUrl, baseUrl,
  asks,         \* what a requester found it may start: between its two locks
  job,          \* what each worker is at
  local,        \* its copy of manifestUrl or baseUrl
  prepared,     \* the release whose package FirmwareUpdate has prepared
  met,          \* history: two requests were between their two locks at once
  missed        \* history: a worker ended, or a failure was told, without the lock

shared == <<remoteState, workerTask, manifestUrl, baseUrl>>
vars   == <<shared, asks, job, local, prepared, met, missed>>

TypeOK ==
  /\ remoteState \in {"IDLE", "CHECKING", "AVAILABLE", "DOWNLOADING", "FAILED"}
  /\ workerTask \in Workers \cup {None}
  /\ manifestUrl \in Urls \cup {None} /\ baseUrl \in Urls \cup {None}
  /\ asks \in [Requesters -> {"nothing", "check", "apply", "fail"}]
  /\ job \in [Workers -> {"off", "check", "fetch", "publish", "apply", "download",
                          "done", "fail"}]
  /\ local \in [Workers -> Urls \cup {None}]
  /\ prepared \in Urls \cup {None, ByHand}
  /\ met \in BOOLEAN /\ missed \in BOOLEAN

Init ==
  /\ remoteState = "IDLE" /\ workerTask = None
  /\ manifestUrl = None /\ baseUrl = None
  /\ asks = [r \in Requesters |-> "nothing"]
  /\ job = [w \in Workers |-> "off"] /\ local = [w \in Workers |-> None]
  /\ prepared = None /\ met = FALSE /\ missed = FALSE

-----------------------------------------------------------------------------
(* The requests *)

Ask(r, what) == /\ asks' = [asks EXCEPT ![r] = what]
                /\ met' = (met \/ \E q \in Requesters : asks[q] # "nothing")

\* Fault: only the state is looked at.
BusyStateOnly == remoteState \in {"CHECKING", "DOWNLOADING"}

Busy == workerTask # None \/ remoteState \in {"CHECKING", "DOWNLOADING"}

\* requestCheck() up to startWorker(); a busy service changes nothing.
RequestCheck(r, u) ==
  /\ asks[r] = "nothing" /\ ~Busy
  /\ manifestUrl' = u /\ baseUrl' = None /\ remoteState' = "IDLE"
  /\ Ask(r, "check")
  /\ UNCHANGED <<workerTask, job, local, prepared, missed>>

RequestApply(r) ==
  /\ asks[r] = "nothing" /\ remoteState = "AVAILABLE" /\ workerTask = None
  /\ Ask(r, "apply")
  /\ UNCHANGED <<shared, job, local, prepared, missed>>

\* startWorker() looks at the handle again, and creating the task may fail.
StartWorker(r) ==
  /\ asks[r] \in {"check", "apply"}
  /\ \/ /\ workerTask = None
        /\ \E w \in Workers : /\ job[w] = "off" /\ workerTask' = w
                              /\ job' = [job EXCEPT ![w] = asks[r]]
        /\ asks' = [asks EXCEPT ![r] = "nothing"]
     \/ asks' = [asks EXCEPT ![r] = "fail"] /\ UNCHANGED <<workerTask, job>>
  /\ UNCHANGED <<remoteState, manifestUrl, baseUrl, local, prepared, met, missed>>

\* setFailed() clears the handle, whoever's it is.
setFailed == remoteState' = "FAILED" /\ workerTask' = None

RequestFails(r) ==
  /\ asks[r] = "fail" /\ asks' = [asks EXCEPT ![r] = "nothing"]
  /\ \/ setFailed /\ UNCHANGED missed
     \/ missed' = TRUE /\ UNCHANGED <<remoteState, workerTask>>
  /\ UNCHANGED <<manifestUrl, baseUrl, job, local, prepared, met>>

-----------------------------------------------------------------------------
(* The workers *)

Goto(w, l) == job' = [job EXCEPT ![w] = l]

\* vTaskDelete, as part of the last step under the lock: the task ends and its
\* copy goes with it.
Delete(w) == Goto(w, "off") /\ local' = [local EXCEPT ![w] = None]

CheckWorker(w) ==
  /\ job[w] = "check" /\ Goto(w, "fetch")
  /\ remoteState' = "CHECKING" /\ local' = [local EXCEPT ![w] = manifestUrl]
  /\ UNCHANGED <<workerTask, manifestUrl, baseUrl, asks, prepared, met, missed>>

\* Fetch and prepare; a refused manifest leaves nothing prepared, a failed
\* fetch or a busy engine what was.
Fetch(w) ==
  /\ job[w] = "fetch"
  /\ \/ Goto(w, "publish") /\ prepared' = local[w]
     \/ Goto(w, "fail") /\ prepared' \in {prepared, None}
  /\ UNCHANGED <<shared, asks, local, met, missed>>

Publish(w) ==
  /\ job[w] = "publish" /\ Delete(w)
  /\ baseUrl' = local[w] /\ remoteState' = "AVAILABLE" /\ workerTask' = None
  /\ UNCHANGED <<manifestUrl, asks, prepared, met, missed>>

ApplyWorker(w) ==
  /\ job[w] = "apply" /\ Goto(w, "download")
  /\ remoteState' = "DOWNLOADING" /\ local' = [local EXCEPT ![w] = baseUrl]
  /\ UNCHANGED <<workerTask, manifestUrl, baseUrl, asks, prepared, met, missed>>

\* Fault: nobody looks whether a package is prepared.
DownloadUnchecked(w) ==
  /\ job[w] = "download" /\ Goto(w, "done")
  /\ UNCHANGED <<shared, asks, local, prepared, met, missed>>

\* Download and install.  Every read has its timeout, so this ends.
Download(w) ==
  /\ job[w] = "download"
  /\ \/ local[w] # None /\ prepared # None /\ Goto(w, "done")
     \/ Goto(w, "fail")
  /\ UNCHANGED <<shared, asks, local, prepared, met, missed>>

\* Faults: a state stateName() does not know; the handle is not cleared.
FinishUnknown(w) ==
  /\ job[w] = "done" /\ Delete(w)
  /\ remoteState' = "DONE" /\ workerTask' = None
  /\ UNCHANGED <<manifestUrl, baseUrl, asks, prepared, met, missed>>
FinishKeepsHandle(w) ==
  /\ job[w] = "done" /\ Delete(w)
  /\ remoteState' = "IDLE"
  /\ UNCHANGED <<workerTask, manifestUrl, baseUrl, asks, prepared, met, missed>>

Finish(w) ==
  /\ job[w] = "done" /\ Delete(w)
  /\ remoteState' = "IDLE" /\ workerTask' = None
  /\ UNCHANGED <<manifestUrl, baseUrl, asks, prepared, met, missed>>

WorkerFails(w) ==
  /\ job[w] = "fail" /\ Delete(w)
  /\ setFailed
  /\ UNCHANGED <<manifestUrl, baseUrl, asks, prepared, met, missed>>

\* A worker that misses the lock, at its start or at its end, is gone all the
\* same, and leaves everything as it is.
WorkerMisses(w) ==
  /\ job[w] \in {"check", "apply", "publish", "done", "fail"} /\ Delete(w)
  /\ missed' = TRUE
  /\ UNCHANGED <<shared, asks, prepared, met>>

\* POST /api/update/prepare: the upload page has a package of its own verified.
PrepareByHand == /\ prepared' \in {ByHand, None}
                 /\ UNCHANGED <<shared, asks, job, local, met, missed>>

-----------------------------------------------------------------------------
WorkerStep(w) == \/ CheckWorker(w) \/ Fetch(w) \/ Publish(w)
                 \/ ApplyWorker(w) \/ Download(w) \/ Finish(w) \/ WorkerFails(w)
                 \/ WorkerMisses(w)
RequestStep(r) == StartWorker(r) \/ RequestFails(r)

Next == \/ \E r \in Requesters : \/ \E u \in Urls : RequestCheck(r, u)
                                 \/ RequestApply(r) \/ RequestStep(r)
        \/ \E w \in Workers : WorkerStep(w)
        \/ PrepareByHand

Spec == /\ Init /\ [][Next]_vars
        /\ \A w \in Workers : WF_vars(WorkerStep(w))
        /\ \A r \in Requesters : WF_vars(RequestStep(r))

-----------------------------------------------------------------------------
(* Properties *)

\* Workers that have not left their last critical section.  What a task does after
\* it, recordResult() and vTaskDelete(), takes nothing from the service.
Alive == {w \in Workers : job[w] # "off"}

\* As long as nobody missed the lock no handle is left behind: while it is set,
\* the worker it stands for is still there to clear it.
HandleMeansWorker == ~missed /\ workerTask # None => workerTask \in Alive

\* Until two requests have met between their two locks there is never a second
\* worker, not even after the lock was missed; and if it was not, the state says
\* CHECKING or DOWNLOADING only while there is a worker.
OneWorker ==
  ~met => /\ Cardinality(Alive) <= 1
          /\ Alive # {} => workerTask \in Alive
          /\ ~missed /\ remoteState \in {"CHECKING", "DOWNLOADING"} => Alive # {}

\* Until then, a package that came from a release is installed from that release.
DownloadsWhatIsPrepared ==
  [][\A w \in Workers : job[w] = "download" /\ job'[w] = "done" /\ ~met =>
        prepared \in {local[w], ByHand}]_vars

\* The service is not busy for ever, but for a missed lock.
BusyEnds == Busy ~> ~Busy \/ missed
=============================================================================
