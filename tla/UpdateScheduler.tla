--------------------------- MODULE UpdateScheduler ---------------------------
(***************************************************************************)
(* The automatic firmware check (src/src/update_scheduler.cpp) and the     *)
(* policy it follows (src/src/update_policy.cpp).  The HTTP task posts a   *)
(* policy, the OTA worker records results in it; the loop task watches it  *)
(* once a second and runs the check task it arms.  Both locks, PolicyLock  *)
(* and SchedulerLock, may be waited for in vain.  Time is one fact per     *)
(* task: it is due.                                                        *)
(***************************************************************************)
EXTENDS Naturals

CONSTANTS
  Intervals,      \* values interval_seconds may take
  MaxRevision     \* bound on the policies posted

ASSUME SchedulerAssumption ==
  Intervals \subseteq Nat \ {0} /\ Intervals # {} /\ MaxRevision \in Nat

Policies == [revision : 0..MaxRevision, enabled : BOOLEAN, interval : Intervals]

VARIABLES
  policy,      \* RAM: the policy in force
  stored,      \* NVS: the policy a restart will load
  observed,    \* what applyPolicy() last saw; Nothing since begin()
  armed,       \* schedulerArmed, as reported
  task,        \* automaticCheckTask: enabled, and the interval it runs at
  due,         \* its delay is over
  network,     \* networkAvailable
  loop,        \* the callback the loop task is in
  read,        \* what automaticCheckConfig() returned to it
  missed,      \* history: a lock was missed since applyPolicy() saw a change
  checked      \* history: revisions under which a check was requested

vars == <<policy, stored, observed, armed, task, due, network, loop, read, missed,
          checked>>

Default == [revision |-> 0, enabled |-> FALSE,
            interval |-> CHOOSE i \in Intervals : \A j \in Intervals : i <= j]
\* UINT32_MAX, and nothing else: no policy has this revision.
Nothing == [revision |-> MaxRevision + 1, enabled |-> FALSE, interval |-> 0]

TypeOK ==
  /\ policy \in Policies /\ stored \in Policies
  /\ observed \in Policies \cup {Nothing}
  /\ armed \in BOOLEAN /\ due \in BOOLEAN /\ network \in BOOLEAN
  /\ task \in [enabled : BOOLEAN, interval : Intervals \cup {0}]
  /\ loop \in {"begin", "idle", "apply", "check", "request"}
  /\ read \in Policies
  /\ missed \in BOOLEAN /\ checked \subseteq 0..MaxRevision

schedule == <<observed, armed, task, due>>

Init ==
  /\ policy = Default /\ stored = Default
  /\ observed = Nothing /\ armed = FALSE /\ due = FALSE
  /\ task = [enabled |-> FALSE, interval |-> 0]
  /\ network = FALSE /\ loop = "begin" /\ read = Default
  /\ missed = FALSE /\ checked = {}

-----------------------------------------------------------------------------
(* FirmwareUpdatePolicy *)

\* POST /api/update/policy: persisted first, in force after.
Post(e, i) ==
  LET new == [revision |-> policy.revision + 1, enabled |-> e, interval |-> i]
  IN  /\ policy.revision < MaxRevision /\ loop # "begin"
      /\ \/ policy' = new /\ stored' = new
         \/ UNCHANGED <<policy, stored>>    \* the write fails: status 500
      /\ UNCHANGED <<schedule, network, loop, read, missed, checked>>

-----------------------------------------------------------------------------
(* The watch: policyWatchCallback() and applyPolicy(), on the loop task *)

\* The report is written under SchedulerLock, or not at all.
Report(on, before) == \/ armed' = on /\ missed' = before
                      \/ UNCHANGED armed /\ missed' = TRUE

\* Fault: only the report is changed.
disarmReportOnly(before) == Report(FALSE, before) /\ UNCHANGED <<task, due>>

\* The task comes first, the report, under its lock, second.
disarm(before) == /\ task' = [task EXCEPT !.enabled = FALSE]
                  /\ Report(FALSE, before) /\ UNCHANGED due

\* automaticCheckConfig() did not get PolicyLock.
Unavailable == disarm(TRUE) /\ loop' = "idle" /\ UNCHANGED <<observed, read>>

\* begin() runs the callback at once, policyWatchTask every second.
Watch ==
  /\ loop \in {"begin", "idle"}
  /\ \/ /\ read' = policy /\ loop' = "apply"
        /\ UNCHANGED <<schedule, missed>>
     \/ Unavailable
  /\ UNCHANGED <<policy, stored, network, checked>>

Changed == read # observed

\* Fault: restarted, but at the interval before.
ArmKeepsInterval == /\ task' = [task EXCEPT !.enabled = TRUE]
                    /\ Report(TRUE, FALSE) /\ due' = FALSE

Arm == /\ task' = [enabled |-> TRUE, interval |-> read.interval]
       /\ Report(TRUE, FALSE) /\ due' = FALSE

\* An unchanged policy leaves the check task, armed or not, as it is, and so
\* does a missed lock.
ApplyPolicy ==
  /\ loop = "apply" /\ loop' = "idle"
  /\ \/ missed' = TRUE /\ UNCHANGED schedule
     \/ ~Changed /\ UNCHANGED <<schedule, missed>>
     \/ Changed /\ observed' = read /\ IF read.enabled THEN Arm ELSE disarm(FALSE)
  /\ UNCHANGED <<policy, stored, network, read, checked>>

-----------------------------------------------------------------------------
(* The check: automaticCheckCallback(), on the loop task *)

Elapse == /\ task.enabled /\ ~due /\ due' = TRUE
          /\ UNCHANGED <<policy, stored, observed, armed, task, network, loop, read,
                         missed, checked>>

CheckReads ==
  /\ loop = "idle" /\ task.enabled /\ due
  /\ \/ read' = policy /\ loop' = "check" /\ UNCHANGED <<schedule, missed>>
     \/ Unavailable
  /\ UNCHANGED <<policy, stored, network, checked>>

\* Fault: milliseconds where seconds are meant.
AgainScaled == /\ task' = [enabled |-> TRUE, interval |-> 1000 * read.interval]
               /\ due' = FALSE

Again == /\ task' = [enabled |-> TRUE, interval |-> read.interval]
         /\ due' = FALSE

\* Fault: without a network the check is not put off, but dropped.
CheckDrops ==
  /\ loop = "check"
  /\ IF ~read.enabled \/ ~network
     THEN disarm(missed) /\ loop' = "idle"
     ELSE Again /\ loop' = "request" /\ UNCHANGED <<armed, missed>>
  /\ UNCHANGED <<policy, stored, observed, network, read, checked>>

\* Disabled by now; SchedulerLock missed, so not this time; no network, so again
\* in 15 s, or go; or the lock missed only then, with the new interval in place.
Check ==
  /\ loop = "check"
  /\ \/ ~read.enabled /\ disarm(missed) /\ loop' = "idle"
     \/ /\ read.enabled /\ missed' = TRUE /\ due' = FALSE /\ loop' = "idle"
        /\ UNCHANGED <<armed, task>>
     \/ /\ read.enabled /\ Again /\ UNCHANGED <<armed, missed>>
        /\ loop' = IF network THEN "request" ELSE "idle"
     \/ /\ read.enabled /\ network /\ Again /\ UNCHANGED armed
        /\ missed' = TRUE /\ loop' = "idle"
  /\ UNCHANGED <<policy, stored, observed, network, read, checked>>

\* RemoteFirmwareUpdate::requestCheck, accepted or not: the task stays armed,
\* for its interval or for the retry.
Request ==
  /\ loop = "request" /\ loop' = "idle"
  /\ checked' = checked \cup {read.revision}
  /\ UNCHANGED <<policy, stored, schedule, network, read, missed>>

\* loop() tells the scheduler about the network on every pass.
Network == /\ loop = "idle" /\ network' = ~network
           /\ UNCHANGED <<policy, stored, schedule, loop, read, missed, checked>>

\* A restart loads the stored policy and schedules from scratch.
Restart ==
  /\ loop' = "begin" /\ policy' = stored
  /\ observed' = Nothing /\ armed' = FALSE /\ due' = FALSE
  /\ task' = [enabled |-> FALSE, interval |-> 0] /\ network' = FALSE
  /\ missed' = FALSE /\ read' = Default
  /\ UNCHANGED <<stored, checked>>

-----------------------------------------------------------------------------
CheckStep == CheckReads \/ Check \/ Request

Next == \/ \E e \in BOOLEAN, i \in Intervals : Post(e, i)
        \/ Watch \/ ApplyPolicy \/ CheckStep
        \/ Elapse \/ Network \/ Restart

Spec == /\ Init /\ [][Next]_vars
        /\ WF_vars(Watch) /\ WF_vars(ApplyPolicy)
        /\ SF_vars(CheckReads) /\ WF_vars(Check \/ Request) /\ WF_vars(Elapse)

-----------------------------------------------------------------------------
(* Properties *)

\* Between callbacks, unless a lock was missed, the report says whether the check
\* task is enabled, and the task runs for the policy that was observed: enabled
\* if and only if that is, at its interval, unless the policy is newer than that.
\* Lock or no lock, a task never runs for an observed policy that is disabled.
TaskFollowsObserved ==
  loop = "idle" =>
     /\ ~missed => armed = task.enabled
     /\ observed = policy /\ ~policy.enabled => ~task.enabled
     /\ ~missed /\ observed = policy =>
          /\ task.enabled = policy.enabled
          /\ task.enabled => task.interval = policy.interval

\* docs/architecture.md:222: "the actual remote-check task is disabled until
\* persisted policy.enabled=true; enabling the policy arms it": an enabled
\* policy that has been observed has an enabled check task.
EnabledIsArmed ==
  loop = "idle" /\ observed = policy /\ policy.enabled => task.enabled

\* A policy that is disabled for good ends the checks, at latest with the one
\* already on its way.
DisabledStops == <>[](~policy.enabled) => <>[](~task.enabled)

\* While an enabled policy stays in force, the network is up and the watch gets
\* its lock, a check is requested under it.
EnabledChecks ==
  \A n \in 1..MaxRevision :
     <>[](policy.revision = n /\ policy.enabled /\ network /\ ~missed) =>
        <>(n \in checked)
=============================================================================
