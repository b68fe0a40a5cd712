------------------------ MODULE UpdateSchedulerProofs ------------------------
(***************************************************************************)
(* Proofs about UpdateScheduler, for every set of intervals and every      *)
(* number of policies posted.                                              *)
(***************************************************************************)
EXTENDS UpdateScheduler, WellFoundedInduction, TLAPS

\* p is the policy in force or an older one: no revision is used twice.
NotNewer(p) == /\ p.revision <= policy.revision
               /\ p.revision = policy.revision => p = policy

\* What the watch and the check hold of the policy, and NVS has of it.
Versions ==
  /\ stored = policy
  /\ NotNewer(Default) /\ NotNewer(read)
  /\ observed = Nothing \/ NotNewer(observed)
  /\ loop \in {"check", "request"} /\ observed = policy => read = policy

\* TaskFollowsObserved in every state, not only between two callbacks.
Reported  == ~missed => armed = task.enabled
Stops     == observed = policy /\ ~policy.enabled => ~task.enabled
Serves    == ~missed /\ observed = policy =>
                /\ task.enabled = policy.enabled
                /\ task.enabled => task.interval = policy.interval
Checking  == loop = "check" => task.enabled
Following == Reported /\ Stops /\ Serves /\ Checking

\* TypeOK in three parts, small enough for the provers.
PolicyTyped == /\ policy \in Policies /\ stored \in Policies /\ read \in Policies
               /\ observed \in Policies \cup {Nothing}
TaskTyped   == /\ task \in [enabled : BOOLEAN, interval : Intervals \cup {0}]
               /\ loop \in {"begin", "idle", "apply", "check", "request"}
               /\ checked \subseteq 0..MaxRevision
FlagsTyped  == armed \in BOOLEAN /\ due \in BOOLEAN /\ network \in BOOLEAN /\ missed \in BOOLEAN

\* The inductive invariant.
IInv == PolicyTyped /\ TaskTyped /\ FlagsTyped /\ Versions /\ Following

-----------------------------------------------------------------------------
(* The policy the device starts with *)

\* A set of naturals that is not empty has a least element.
LEMMA Least ==
  ASSUME NEW S, S \subseteq Nat, S # {}
  PROVE  \E i \in S : \A j \in S : i <= j
<1>1. PICK i \in S : \A j \in S : <<j, i>> \notin OpToRel(<, Nat)
  BY NatLessThanWellFounded, WFMin, Zenon
<1>2. \A j \in S : ~(j < i)
  BY <1>1, Zenon DEF OpToRel
<1> QED BY <1>2

LEMMA DefaultIsPolicy == Default \in Policies /\ Default.revision = 0
<1>1. \E i \in Intervals : \A j \in Intervals : i <= j
  BY SchedulerAssumption, Least
<1>2. Default.interval \in Intervals
  BY <1>1 DEF Default
<1> QED BY <1>2, SchedulerAssumption DEF Default, Policies

LEMMA NothingIsNoPolicy == Nothing \notin Policies
BY SchedulerAssumption DEF Nothing, Policies

-----------------------------------------------------------------------------
(* The invariant *)

LEMMA Typed == PolicyTyped /\ TaskTyped /\ FlagsTyped <=> TypeOK
BY DEF TypeOK, PolicyTyped, TaskTyped, FlagsTyped

\* A disarmed task is disabled, whether the report could be written or not.
LEMMA Disarmed ==
  ASSUME TaskTyped, NEW before, disarm(before)
  PROVE  /\ task' \in [enabled : BOOLEAN, interval : Intervals \cup {0}]
         /\ ~task'.enabled /\ due' = due
         /\ \/ armed' = FALSE /\ missed' = before
            \/ armed' = armed /\ missed' = TRUE
BY DEF TaskTyped, disarm, Report

LEMMA InitIInv == Init => IInv
<1> SUFFICES ASSUME Init PROVE IInv
  OBVIOUS
<1> USE DefaultIsPolicy, NothingIsNoPolicy DEF Init
<1>1. PolicyTyped
  BY DEF PolicyTyped
<1>2. TaskTyped
  BY DEF TaskTyped
<1>3. FlagsTyped
  BY DEF FlagsTyped
<1>4. Versions
  BY DEF Versions, NotNewer
<1>5. Following
  BY DEF Following, Reported, Stops, Serves, Checking
<1> QED BY <1>1, <1>2, <1>3, <1>4, <1>5 DEF IInv

\* Every step keeps the invariant.
LEMMA NextIInv == IInv /\ [Next]_vars => IInv'
<1> SUFFICES ASSUME IInv, [Next]_vars PROVE IInv'
  OBVIOUS
<1> USE SchedulerAssumption, DefaultIsPolicy, NothingIsNoPolicy DEF IInv, schedule
<1>1. ASSUME NEW e \in BOOLEAN, NEW i \in Intervals, Post(e, i) PROVE IInv'
  <2> USE <1>1 DEF Post
  <2>1. PolicyTyped'
    BY DEF PolicyTyped, Policies
  <2>2. TaskTyped'
    BY DEF TaskTyped, PolicyTyped, Policies
  <2>3. FlagsTyped'
    BY DEF FlagsTyped
  <2>4. Versions'
    BY DEF Versions, NotNewer, PolicyTyped, Policies
  <2>5. Reported'
    BY DEF Following, Reported, Checking, TaskTyped, FlagsTyped
  <2>6. Stops'
    BY DEF Following, Stops, Versions, PolicyTyped, Policies, TaskTyped, NotNewer
  <2>7. Serves'
    BY DEF Following, Serves, Versions, PolicyTyped, Policies, TaskTyped, NotNewer
  <2>8. Checking'
    BY DEF Following, Checking, TaskTyped
  <2> QED BY <2>1, <2>2, <2>3, <2>4, <2>5, <2>6, <2>7, <2>8 DEF Following
<1>2. CASE Watch
  <2> USE <1>2 DEF Watch
  <2>1. CASE /\ read' = policy /\ loop' = "apply"
           /\ UNCHANGED <<schedule, missed>>
    <3> USE <2>1
    <3>1. PolicyTyped'
      BY DEF PolicyTyped, Policies
    <3>2. TaskTyped'
      BY DEF TaskTyped, PolicyTyped, Policies
    <3>3. FlagsTyped'
      BY DEF FlagsTyped
    <3>4. Versions'
      BY DEF Versions, NotNewer, PolicyTyped, Policies
    <3>5. Reported'
      BY DEF Following, Reported, Checking, TaskTyped, FlagsTyped
    <3>6. Stops'
      BY DEF Following, Stops, Versions, PolicyTyped, Policies, TaskTyped, NotNewer
    <3>7. Serves'
      BY DEF Following, Serves, Versions, PolicyTyped, Policies, TaskTyped, NotNewer
    <3>8. Checking'
      BY DEF Following, Checking, TaskTyped
    <3> QED BY <3>1, <3>2, <3>3, <3>4, <3>5, <3>6, <3>7, <3>8 DEF Following
  <2>2. CASE Unavailable
    <3> USE <2>2 DEF Unavailable
    <3>1. PolicyTyped'
      BY Disarmed DEF PolicyTyped, Policies
    <3>2. TaskTyped'
      BY Disarmed DEF TaskTyped, PolicyTyped, Policies
    <3>3. FlagsTyped'
      BY Disarmed DEF FlagsTyped
    <3>4. Versions'
      BY Disarmed DEF Versions, NotNewer, PolicyTyped, Policies
    <3>5. Reported'
      BY Disarmed DEF Following, Reported, Checking, TaskTyped, FlagsTyped
    <3>6. Stops'
      BY Disarmed DEF Following, Stops, Versions, PolicyTyped, Policies, TaskTyped, NotNewer
    <3>7. Serves'
      <4>1. missed'
        BY Zenon DEF Unavailable, disarm, Report
      <4> QED BY <4>1 DEF Serves
    <3>8. Checking'
      BY Disarmed DEF Following, Checking, TaskTyped
    <3> QED BY <3>1, <3>2, <3>3, <3>4, <3>5, <3>6, <3>7, <3>8 DEF Following
  <2> QED BY <2>1, <2>2
<1>3. CASE ApplyPolicy
  <2> USE <1>3 DEF ApplyPolicy, Changed
  <2>1. CASE missed' = TRUE /\ UNCHANGED schedule
    <3> USE <2>1
    <3>1. PolicyTyped'
      BY DEF PolicyTyped, Policies
    <3>2. TaskTyped'
      BY DEF TaskTyped, PolicyTyped, Policies
    <3>3. FlagsTyped'
      BY DEF FlagsTyped
    <3>4. Versions'
      BY DEF Versions, NotNewer, PolicyTyped, Policies
    <3>5. Reported'
      BY DEF Following, Reported, Checking, TaskTyped, FlagsTyped
    <3>6. Stops'
      BY DEF Following, Stops, Versions, PolicyTyped, Policies, TaskTyped, NotNewer
    <3>7. Serves'
      BY DEF Following, Serves, Versions, PolicyTyped, Policies, TaskTyped, NotNewer
    <3>8. Checking'
      BY DEF Following, Checking, TaskTyped
    <3> QED BY <3>1, <3>2, <3>3, <3>4, <3>5, <3>6, <3>7, <3>8 DEF Following
  <2>2. CASE ~Changed /\ UNCHANGED <<schedule, missed>>
    <3> USE <2>2
    <3>1. PolicyTyped'
      BY DEF PolicyTyped, Policies
    <3>2. TaskTyped'
      BY DEF TaskTyped, PolicyTyped, Policies
    <3>3. FlagsTyped'
      BY DEF FlagsTyped
    <3>4. Versions'
      BY DEF Versions, NotNewer, PolicyTyped, Policies
    <3>5. Reported'
      BY DEF Following, Reported, Checking, TaskTyped, FlagsTyped
    <3>6. Stops'
      BY DEF Following, Stops, Versions, PolicyTyped, Policies, TaskTyped, NotNewer
    <3>7. Serves'
      BY DEF Following, Serves, Versions, PolicyTyped, Policies, TaskTyped, NotNewer
    <3>8. Checking'
      BY DEF Following, Checking, TaskTyped
    <3> QED BY <3>1, <3>2, <3>3, <3>4, <3>5, <3>6, <3>7, <3>8 DEF Following
  <2>3. CASE observed' = read /\ read.enabled /\ Arm
    <3> USE <2>3 DEF Arm, Report
    <3>1. PolicyTyped'
      BY DEF PolicyTyped, Policies
    <3>2. TaskTyped'
      BY DEF TaskTyped, PolicyTyped, Policies
    <3>3. FlagsTyped'
      BY DEF FlagsTyped
    <3>4. Versions'
      BY DEF Versions, NotNewer, PolicyTyped, Policies
    <3>5. Reported'
      BY DEF Following, Reported, Checking, TaskTyped, FlagsTyped
    <3>6. Stops'
      BY DEF Following, Stops, Versions, PolicyTyped, Policies, TaskTyped, NotNewer
    <3>7. Serves'
      BY DEF Following, Serves, Versions, PolicyTyped, Policies, TaskTyped, NotNewer
    <3>8. Checking'
      BY DEF Following, Checking, TaskTyped
    <3> QED BY <3>1, <3>2, <3>3, <3>4, <3>5, <3>6, <3>7, <3>8 DEF Following
  <2>4. CASE observed' = read /\ ~read.enabled /\ disarm(FALSE)
    <3> USE <2>4
    <3>1. PolicyTyped'
      BY Disarmed DEF PolicyTyped, Policies
    <3>2. TaskTyped'
      BY Disarmed DEF TaskTyped, PolicyTyped, Policies
    <3>3. FlagsTyped'
      BY Disarmed DEF FlagsTyped
    <3>4. Versions'
      BY Disarmed DEF Versions, NotNewer, PolicyTyped, Policies
    <3>5. Reported'
      BY Disarmed DEF Following, Reported, Checking, TaskTyped, FlagsTyped
    <3>6. Stops'
      BY Disarmed DEF Following, Stops, Versions, PolicyTyped, Policies, TaskTyped, NotNewer
    <3>7. Serves'
      BY Disarmed DEF Following, Serves, Versions, PolicyTyped, Policies, TaskTyped, NotNewer
    <3>8. Checking'
      BY Disarmed DEF Following, Checking, TaskTyped
    <3> QED BY <3>1, <3>2, <3>3, <3>4, <3>5, <3>6, <3>7, <3>8 DEF Following
  <2> QED BY <2>1, <2>2, <2>3, <2>4
<1>4. CASE CheckReads
  <2> USE <1>4 DEF CheckReads
  <2>1. CASE /\ read' = policy /\ loop' = "check"
           /\ UNCHANGED <<schedule, missed>>
    <3> USE <2>1
    <3>1. PolicyTyped'
      BY DEF PolicyTyped, Policies
    <3>2. TaskTyped'
      BY DEF TaskTyped, PolicyTyped, Policies
    <3>3. FlagsTyped'
      BY DEF FlagsTyped
    <3>4. Versions'
      BY DEF Versions, NotNewer, PolicyTyped, Policies
    <3>5. Reported'
      BY DEF Following, Reported, Checking, TaskTyped, FlagsTyped
    <3>6. Stops'
      BY DEF Following, Stops, Versions, PolicyTyped, Policies, TaskTyped, NotNewer
    <3>7. Serves'
      BY DEF Following, Serves, Versions, PolicyTyped, Policies, TaskTyped, NotNewer
    <3>8. Checking'
      BY DEF Following, Checking, TaskTyped
    <3> QED BY <3>1, <3>2, <3>3, <3>4, <3>5, <3>6, <3>7, <3>8 DEF Following
  <2>2. CASE Unavailable
    <3> USE <2>2 DEF Unavailable
    <3>1. PolicyTyped'
      BY Disarmed DEF PolicyTyped, Policies
    <3>2. TaskTyped'
      BY Disarmed DEF TaskTyped, PolicyTyped, Policies
    <3>3. FlagsTyped'
      BY Disarmed DEF FlagsTyped
    <3>4. Versions'
      BY Disarmed DEF Versions, NotNewer, PolicyTyped, Policies
    <3>5. Reported'
      BY Disarmed DEF Following, Reported, Checking, TaskTyped, FlagsTyped
    <3>6. Stops'
      BY Disarmed DEF Following, Stops, Versions, PolicyTyped, Policies, TaskTyped, NotNewer
    <3>7. Serves'
      <4>1. missed'
        BY Zenon DEF Unavailable, disarm, Report
      <4> QED BY <4>1 DEF Serves
    <3>8. Checking'
      BY Disarmed DEF Following, Checking, TaskTyped
    <3> QED BY <3>1, <3>2, <3>3, <3>4, <3>5, <3>6, <3>7, <3>8 DEF Following
  <2> QED BY <2>1, <2>2
<1>5. CASE Check
  <2> USE <1>5 DEF Check
  <2>1. CASE ~read.enabled /\ disarm(missed) /\ loop' = "idle"
    <3> USE <2>1
    <3>1. PolicyTyped'
      BY Disarmed DEF PolicyTyped, Policies
    <3>2. TaskTyped'
      BY Disarmed DEF TaskTyped, PolicyTyped, Policies
    <3>3. FlagsTyped'
      BY Disarmed DEF FlagsTyped
    <3>4. Versions'
      BY Disarmed DEF Versions, NotNewer, PolicyTyped, Policies
    <3>5. Reported'
      BY Disarmed DEF Following, Reported, Checking, TaskTyped, FlagsTyped
    <3>6. Stops'
      BY Disarmed DEF Following, Stops, Versions, PolicyTyped, Policies, TaskTyped, NotNewer
    <3>7. Serves'
      BY Disarmed DEF Following, Serves, Versions, PolicyTyped, Policies, TaskTyped, NotNewer
    <3>8. Checking'
      BY Disarmed DEF Following, Checking, TaskTyped
    <3> QED BY <3>1, <3>2, <3>3, <3>4, <3>5, <3>6, <3>7, <3>8 DEF Following
  <2>2. CASE /\ missed' = TRUE /\ due' = FALSE /\ loop' = "idle"
           /\ UNCHANGED <<armed, task>>
    <3> USE <2>2
    <3>1. PolicyTyped'
      BY DEF PolicyTyped, Policies
    <3>2. TaskTyped'
      BY DEF TaskTyped, PolicyTyped, Policies
    <3>3. FlagsTyped'
      BY DEF FlagsTyped
    <3>4. Versions'
      BY DEF Versions, NotNewer, PolicyTyped, Policies
    <3>5. Reported'
      BY DEF Following, Reported, Checking, TaskTyped, FlagsTyped
    <3>6. Stops'
      BY DEF Following, Stops, Versions, PolicyTyped, Policies, TaskTyped, NotNewer
    <3>7. Serves'
      BY DEF Following, Serves, Versions, PolicyTyped, Policies, TaskTyped, NotNewer
    <3>8. Checking'
      BY DEF Following, Checking, TaskTyped
    <3> QED BY <3>1, <3>2, <3>3, <3>4, <3>5, <3>6, <3>7, <3>8 DEF Following
  <2>3. CASE /\ read.enabled /\ Again /\ UNCHANGED <<armed, missed>>
           /\ loop' = IF network THEN "request" ELSE "idle"
    <3> USE <2>3 DEF Again
    <3>1. PolicyTyped'
      BY DEF PolicyTyped, Policies
    <3>2. TaskTyped'
      BY DEF TaskTyped, PolicyTyped, Policies
    <3>3. FlagsTyped'
      BY DEF FlagsTyped
    <3>4. Versions'
      BY DEF Versions, NotNewer, PolicyTyped, Policies
    <3>5. Reported'
      BY DEF Following, Reported, Checking, TaskTyped, FlagsTyped
    <3>6. Stops'
      BY DEF Following, Stops, Versions, PolicyTyped, Policies, TaskTyped, NotNewer
    <3>7. Serves'
      BY DEF Following, Serves, Versions, PolicyTyped, Policies, TaskTyped, NotNewer
    <3>8. Checking'
      BY DEF Following, Checking, TaskTyped
    <3> QED BY <3>1, <3>2, <3>3, <3>4, <3>5, <3>6, <3>7, <3>8 DEF Following
  <2>4. CASE /\ read.enabled /\ Again /\ UNCHANGED armed
           /\ missed' = TRUE /\ loop' = "idle"
    <3> USE <2>4 DEF Again
    <3>1. PolicyTyped'
      BY DEF PolicyTyped, Policies
    <3>2. TaskTyped'
      BY DEF TaskTyped, PolicyTyped, Policies
    <3>3. FlagsTyped'
      BY DEF FlagsTyped
    <3>4. Versions'
      BY DEF Versions, NotNewer, PolicyTyped, Policies
    <3>5. Reported'
      BY DEF Following, Reported, Checking, TaskTyped, FlagsTyped
    <3>6. Stops'
      BY DEF Following, Stops, Versions, PolicyTyped, Policies, TaskTyped, NotNewer
    <3>7. Serves'
      BY DEF Following, Serves, Versions, PolicyTyped, Policies, TaskTyped, NotNewer
    <3>8. Checking'
      BY DEF Following, Checking, TaskTyped
    <3> QED BY <3>1, <3>2, <3>3, <3>4, <3>5, <3>6, <3>7, <3>8 DEF Following
  <2> QED BY <2>1, <2>2, <2>3, <2>4
<1>6. CASE Request
  <2> USE <1>6 DEF Request
  <2>1. PolicyTyped'
    BY DEF PolicyTyped, Policies
  <2>2. TaskTyped'
    BY DEF TaskTyped, PolicyTyped, Policies
  <2>3. FlagsTyped'
    BY DEF FlagsTyped
  <2>4. Versions'
    BY DEF Versions, NotNewer, PolicyTyped, Policies
  <2>5. Reported'
    BY DEF Following, Reported, Checking, TaskTyped, FlagsTyped
  <2>6. Stops'
    BY DEF Following, Stops, Versions, PolicyTyped, Policies, TaskTyped, NotNewer
  <2>7. Serves'
    BY DEF Following, Serves, Versions, PolicyTyped, Policies, TaskTyped, NotNewer
  <2>8. Checking'
    BY DEF Following, Checking, TaskTyped
  <2> QED BY <2>1, <2>2, <2>3, <2>4, <2>5, <2>6, <2>7, <2>8 DEF Following
<1>7. CASE Elapse
  <2> USE <1>7 DEF Elapse
  <2>1. PolicyTyped'
    BY DEF PolicyTyped, Policies
  <2>2. TaskTyped'
    BY DEF TaskTyped, PolicyTyped, Policies
  <2>3. FlagsTyped'
    BY DEF FlagsTyped
  <2>4. Versions'
    BY DEF Versions, NotNewer, PolicyTyped, Policies
  <2>5. Reported'
    BY DEF Following, Reported, Checking, TaskTyped, FlagsTyped
  <2>6. Stops'
    BY DEF Following, Stops, Versions, PolicyTyped, Policies, TaskTyped, NotNewer
  <2>7. Serves'
    BY DEF Following, Serves, Versions, PolicyTyped, Policies, TaskTyped, NotNewer
  <2>8. Checking'
    BY DEF Following, Checking, TaskTyped
  <2> QED BY <2>1, <2>2, <2>3, <2>4, <2>5, <2>6, <2>7, <2>8 DEF Following
<1>8. CASE Network
  <2> USE <1>8 DEF Network
  <2>1. PolicyTyped'
    BY DEF PolicyTyped, Policies
  <2>2. TaskTyped'
    BY DEF TaskTyped, PolicyTyped, Policies
  <2>3. FlagsTyped'
    BY DEF FlagsTyped
  <2>4. Versions'
    BY DEF Versions, NotNewer, PolicyTyped, Policies
  <2>5. Reported'
    BY DEF Following, Reported, Checking, TaskTyped, FlagsTyped
  <2>6. Stops'
    BY DEF Following, Stops, Versions, PolicyTyped, Policies, TaskTyped, NotNewer
  <2>7. Serves'
    BY DEF Following, Serves, Versions, PolicyTyped, Policies, TaskTyped, NotNewer
  <2>8. Checking'
    BY DEF Following, Checking, TaskTyped
  <2> QED BY <2>1, <2>2, <2>3, <2>4, <2>5, <2>6, <2>7, <2>8 DEF Following
<1>9. CASE Restart
  <2> USE <1>9 DEF Restart
  <2>1. PolicyTyped'
    BY DEF PolicyTyped, Policies
  <2>2. TaskTyped'
    BY DEF TaskTyped, PolicyTyped, Policies
  <2>3. FlagsTyped'
    BY DEF FlagsTyped
  <2>4. Versions'
    BY DEF Versions, NotNewer, PolicyTyped, Policies
  <2>5. Reported'
    BY DEF Following, Reported, Checking, TaskTyped, FlagsTyped
  <2>6. Stops'
    BY DEF Following, Stops, Versions, PolicyTyped, Policies, TaskTyped, NotNewer
  <2>7. Serves'
    BY DEF Following, Serves, Versions, PolicyTyped, Policies, TaskTyped, NotNewer
  <2>8. Checking'
    BY DEF Following, Checking, TaskTyped
  <2> QED BY <2>1, <2>2, <2>3, <2>4, <2>5, <2>6, <2>7, <2>8 DEF Following
<1>10. CASE UNCHANGED vars
  <2> USE <1>10 DEF vars
  <2>1. (PolicyTyped /\ TaskTyped)'
    BY DEF PolicyTyped, TaskTyped
  <2>2. FlagsTyped'
    BY DEF FlagsTyped
  <2>3. (Versions /\ Following)'
    BY DEF Versions, Following, Reported, Stops, Serves, Checking, NotNewer
  <2> QED BY <2>1, <2>2, <2>3
<1> QED BY <1>1, <1>2, <1>3, <1>4, <1>5, <1>6, <1>7, <1>8, <1>9, <1>10 DEF Next, CheckStep

LEMMA Invariant == Spec => []IInv
BY InitIInv, NextIInv, PTL DEF Spec

-----------------------------------------------------------------------------
(* Theorems *)

\* Every reachable state has its type: the check task never runs at an interval that
\* no policy may ask for, and what is observed is a policy or nothing at all.
THEOREM TypeCorrect == Spec => []TypeOK
<1>1. IInv => TypeOK
  BY Typed DEF IInv
<1> QED BY <1>1, Invariant, PTL

\* Report, check task and observed policy agree as far as the locks were had, and
\* a disabled policy that was observed never leaves a task behind.
THEOREM TaskAlwaysFollows == Spec => []TaskFollowsObserved
<1>1. IInv => TaskFollowsObserved
  BY DEF IInv, Following, Reported, Stops, Serves, TaskFollowsObserved
<1> QED BY <1>1, Invariant, PTL
=============================================================================
