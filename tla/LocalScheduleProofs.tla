------------------------ MODULE LocalScheduleProofs ------------------------
(***************************************************************************)
(* Proofs about LocalSchedule, for every set of schedules a configuration  *)
(* may hold and every set of answers of the target.                        *)
(***************************************************************************)
EXTENDS LocalSchedule, TLAPS

\* What an activation that is half way through has established.
Activating ==
  /\ web # "idle" => ~Work!Armed(task)
  /\ web = "disable" => ~action.enabled
  /\ web \in {"rearm", "arm", "restart"} => action.enabled

\* Without a crossing the activation finds the loop task idle and leaves it a
\* WAITING schedule with fresh work; each step of the execution that follows
\* knows what the FSM is in, that the delay is over and that no work is left.
Crossless == /\ web # "idle" => loop = "idle" /\ applied = 0
             /\ web = "arm" => state \in {"DISABLED", "COMPLETED", "FAULT"}
             /\ web = "restart" => state = "WAITING"
Pending   == Work!Armed(task) => state = "WAITING" /\ loop = "idle" /\ applied = 0
Running   == /\ loop # "idle" => due
             /\ loop = "fire" => state = "WAITING" /\ applied = 0
             /\ loop = "apply" => state = "FIRING" /\ applied = 0
             /\ loop = "finish" => state = "FIRING" /\ applied = 1
             /\ applied <= 1 /\ (applied = 1 => due)
Uncrossed == Crossless /\ Pending /\ Running

\* TypeOK in three parts, small enough for the provers.
FsmTyped  == state \in States /\ task \in Work!Task /\ action \in Actions \cup {NoAction}
Flags     == due \in BOOLEAN /\ output \in BOOLEAN /\ accepted \in BOOLEAN /\ crossed \in BOOLEAN
Places    == /\ loop \in {"idle", "fire", "apply", "finish"} /\ applied \in 0..2
             /\ web \in {"idle", "disable", "rearm", "arm", "restart"}

\* The inductive invariant.
IInv == /\ FsmTyped /\ Flags /\ Places
        /\ NeverStuckFiring /\ WorkFollowsSchedule /\ Activating
        /\ ~crossed => Uncrossed

-----------------------------------------------------------------------------
(* What an operation does to the one-shot task *)

LEMMA TaskSteps ==
  ASSUME NEW t \in Work!Task
  PROVE  /\ Work!Disable(t) \in Work!Task /\ ~Work!Armed(Work!Disable(t))
         /\ Work!CountDown(t) \in Work!Task /\ ~Work!Armed(Work!CountDown(t))
         /\ Work!Restart(t) \in Work!Task /\ Work!Armed(Work!Restart(t))
<1> USE DEF Work!Task, Work!Armed
<1>1. Work!Disable(t) \in Work!Task /\ ~Work!Armed(Work!Disable(t))
  BY DEF Work!Disable
<1>2. Work!CountDown(t) \in Work!Task
  BY DEF Work!CountDown
<1>3. ~Work!Armed(Work!CountDown(t))
  BY DEF Work!CountDown
<1>4. Work!Restart(t) \in Work!Task /\ Work!Armed(Work!Restart(t))
  BY DEF Work!Restart, Work!Once
<1> QED BY <1>1, <1>2, <1>3, <1>4

-----------------------------------------------------------------------------
(* What an event does to the FSM *)

LEMMA Triggered ==
  ASSUME NEW event, Trigger(event)
  PROVE  \/ <<state, event, state'>> \in Transitions
         \/ state' = state /\ \A s : <<state, event, s>> \notin Transitions
<1>1. \A t \in Transitions : t = <<t[1], t[2], t[3]>>
  BY DEF Transitions
<1>2. \A s : s \in Successors(event) <=> <<state, event, s>> \in Transitions
  BY <1>1 DEF Successors
<1>3. CASE Successors(event) = {}
  BY <1>2, <1>3 DEF Trigger
<1>4. CASE Successors(event) # {}
  BY <1>2, <1>4 DEF Trigger
<1> QED BY <1>3, <1>4

LEMMA DisableEvent ==
  ASSUME FsmTyped, Trigger("Disable")
  PROVE  state' = IF state \in {"WAITING", "COMPLETED", "FAULT"} THEN "DISABLED" ELSE state
BY Triggered DEF FsmTyped, States, Transitions

LEMMA ArmEvent ==
  ASSUME FsmTyped, Trigger("Arm")
  PROVE  state' = IF state \in {"DISABLED", "COMPLETED", "FAULT"} THEN "WAITING" ELSE state
BY Triggered DEF FsmTyped, States, Transitions

LEMMA FireEvent ==
  ASSUME FsmTyped, Trigger("Fire")
  PROVE  state' = IF state = "WAITING" THEN "FIRING" ELSE state
BY Triggered DEF FsmTyped, States, Transitions

LEMMA DoneEvent ==
  ASSUME FsmTyped, Trigger("Done")
  PROVE  state' = IF state = "FIRING" THEN "COMPLETED" ELSE state
BY Triggered DEF FsmTyped, States, Transitions

LEMMA FailEvent ==
  ASSUME FsmTyped, Trigger("Fail")
  PROVE  state' = IF state = "FIRING" THEN "FAULT" ELSE state
BY Triggered DEF FsmTyped, States, Transitions

-----------------------------------------------------------------------------
(* The invariant *)

LEMMA ActionTyped ==
  ASSUME FsmTyped
  PROVE  action.enabled \in BOOLEAN /\ action.desiredOn \in BOOLEAN
<1>1. action \in [enabled : BOOLEAN, desiredOn : BOOLEAN]
  <2>1. action \in Actions \/ action = NoAction
    BY DEF FsmTyped
  <2>2. NoAction \in [enabled : BOOLEAN, desiredOn : BOOLEAN]
    BY DEF NoAction
  <2> QED BY <2>1, <2>2, ScheduleAssumption
<1> QED BY <1>1

LEMMA Typed == FsmTyped /\ Flags /\ Places <=> TypeOK
BY DEF TypeOK, FsmTyped, Flags, Places

LEMMA InitIInv == Init => IInv
<1> SUFFICES ASSUME Init PROVE IInv
  OBVIOUS
<1> USE DEF Init, Work!Task, Work!Disabled, Work!Armed
<1>1. FsmTyped
  BY DEF FsmTyped, States
<1>2. Flags
  BY DEF Flags
<1>4. Places
  BY DEF Places
<1>3. NeverStuckFiring /\ WorkFollowsSchedule /\ Activating /\ Uncrossed
  BY DEF NeverStuckFiring, WorkFollowsSchedule, Activating, Uncrossed, Crossless, Pending,
         Running, NoAction
<1> QED BY <1>1, <1>2, <1>3, <1>4 DEF IInv

\* Every step keeps the invariant.
LEMMA NextIInv == IInv /\ [Next]_vars => IInv'
<1> SUFFICES ASSUME IInv, [Next]_vars PROVE IInv'
  OBVIOUS
<1> USE ScheduleAssumption DEF IInv, loopVars, FsmTyped, States
<1>1. ASSUME NEW a \in Actions \cup {NoAction}, Activate(a) PROVE IInv'
  <2> USE <1>1 DEF Activate, NoAction
  <2>1. FsmTyped'
    BY TaskSteps
  <2>2. Flags'
    BY DEF Flags
  <2>3. Places'
    BY DEF Places
  <2>4. NeverStuckFiring' /\ Activating'
    BY TaskSteps DEF NeverStuckFiring, Activating
  <2>5. WorkFollowsSchedule'
    BY TaskSteps DEF WorkFollowsSchedule, Activating
  <2>6. ASSUME ~crossed' PROVE Uncrossed'
    <3>1. loop = "idle" /\ applied' = 0 /\ loop' = "idle"
      BY <2>6
    <3>2. ~Work!Armed(task') /\ web' \in {"rearm", "disable"}
      BY TaskSteps
    <3> QED BY <3>1, <3>2 DEF Uncrossed, Crossless, Pending, Running
  <2> QED BY <2>1, <2>2, <2>3, <2>4, <2>5, <2>6
<1>2. CASE WebDisable
  <2> USE <1>2 DEF WebDisable
  <2>1. FsmTyped'
    BY DisableEvent
  <2>2. Flags'
    BY DEF Flags
  <2>3. Places'
    BY DEF Places
  <2>4. NeverStuckFiring' /\ Activating'
    BY DisableEvent DEF NeverStuckFiring, Activating
  <2>5. WorkFollowsSchedule'
    BY DisableEvent DEF WorkFollowsSchedule, Activating
  <2>6. ASSUME ~crossed' PROVE Uncrossed'
    <3>1. Uncrossed
      BY <2>6
    <3>2. Crossless'
      BY DisableEvent, <3>1 DEF Places, Uncrossed, Crossless, NeverStuckFiring
    <3>3. Pending'
      BY DEF Pending, Activating
    <3>4. Running'
      BY DisableEvent, <3>1 DEF Places, Uncrossed, Crossless, Pending, Running
    <3> QED BY <3>2, <3>3, <3>4 DEF Uncrossed
  <2> QED BY <2>1, <2>2, <2>3, <2>4, <2>5, <2>6
<1>3. CASE Rearm
  <2> USE <1>3 DEF Rearm
  <2>1. FsmTyped'
    BY DisableEvent
  <2>2. Flags'
    BY DEF Flags
  <2>3. Places'
    BY DEF Places
  <2>4. NeverStuckFiring' /\ Activating'
    BY DisableEvent DEF NeverStuckFiring, Activating
  <2>5. WorkFollowsSchedule'
    BY DisableEvent DEF WorkFollowsSchedule, Activating
  <2>6. ASSUME ~crossed' PROVE Uncrossed'
    <3>1. Uncrossed
      BY <2>6
    <3>2. Crossless'
      BY DisableEvent, <3>1 DEF Places, Uncrossed, Crossless, NeverStuckFiring
    <3>3. Pending'
      BY DEF Pending, Activating
    <3>4. Running'
      BY DisableEvent, <3>1 DEF Places, Uncrossed, Crossless, Pending, Running
    <3> QED BY <3>2, <3>3, <3>4 DEF Uncrossed
  <2> QED BY <2>1, <2>2, <2>3, <2>4, <2>5, <2>6
<1>4. CASE Arm
  <2> USE <1>4 DEF Arm
  <2>1. FsmTyped'
    BY ArmEvent
  <2>2. Flags'
    BY DEF Flags
  <2>3. Places'
    BY DEF Places
  <2>4. NeverStuckFiring' /\ Activating'
    BY ArmEvent DEF NeverStuckFiring, Activating
  <2>5. WorkFollowsSchedule'
    BY ArmEvent DEF WorkFollowsSchedule, Activating
  <2>6. ASSUME ~crossed' PROVE Uncrossed'
    <3>1. Uncrossed
      BY <2>6
    <3>2. Crossless'
      BY ArmEvent, <3>1 DEF Places, Uncrossed, Crossless, NeverStuckFiring
    <3>3. Pending'
      BY DEF Pending, Activating
    <3>4. Running'
      BY ArmEvent, <3>1 DEF Places, Uncrossed, Crossless, Pending, Running
    <3> QED BY <3>2, <3>3, <3>4 DEF Uncrossed
  <2> QED BY <2>1, <2>2, <2>3, <2>4, <2>5, <2>6
<1>5. CASE RestartDelayed
  <2> USE <1>5 DEF RestartDelayed
  <2>1. FsmTyped'
    BY TaskSteps
  <2>2. Flags'
    BY DEF Flags
  <2>3. Places'
    BY DEF Places
  <2>4. NeverStuckFiring' /\ Activating'
    BY TaskSteps DEF NeverStuckFiring, Activating
  <2>5. WorkFollowsSchedule'
    BY TaskSteps DEF WorkFollowsSchedule, Activating
  <2>6. ASSUME ~crossed' PROVE Uncrossed'
    <3>1. Uncrossed
      BY <2>6
    <3>2. Crossless'
      BY <3>1, TaskSteps DEF Uncrossed, Crossless, Activating
    <3>3. Pending'
      BY <3>1, TaskSteps DEF Places, Uncrossed, Crossless, Pending, NeverStuckFiring
    <3>4. Running'
      BY <3>1, TaskSteps DEF Places, Uncrossed, Crossless, Pending, Running
    <3> QED BY <3>2, <3>3, <3>4 DEF Uncrossed
  <2> QED BY <2>1, <2>2, <2>3, <2>4, <2>5, <2>6
<1>6. CASE Elapse
  <2> USE <1>6 DEF Elapse
  <2>1. FsmTyped'
    OBVIOUS
  <2>2. Flags'
    BY DEF Flags
  <2>3. Places'
    BY DEF Places
  <2>4. NeverStuckFiring' /\ Activating'
    BY DEF NeverStuckFiring, Activating
  <2>5. WorkFollowsSchedule'
    BY DEF WorkFollowsSchedule, Activating
  <2>6. ASSUME ~crossed' PROVE Uncrossed'
    <3>1. Uncrossed
      BY <2>6
    <3>2. Crossless'
      BY <3>1 DEF Places, Uncrossed, Crossless, NeverStuckFiring
    <3>3. Pending'
      BY <3>1 DEF Places, Uncrossed, Crossless, Pending, NeverStuckFiring
    <3>4. Running'
      BY <3>1 DEF Places, Uncrossed, Crossless, Pending, Running
    <3> QED BY <3>2, <3>3, <3>4 DEF Uncrossed
  <2> QED BY <2>1, <2>2, <2>3, <2>4, <2>5, <2>6
<1>7. CASE Pass
  <2> USE <1>7 DEF Pass
  <2>1. FsmTyped'
    <3>1. task' \in Work!Task
      BY TaskSteps
    <3> QED BY <3>1
  <2>2. Flags'
    BY DEF Flags
  <2>3. Places'
    BY DEF Places
  <2>4. NeverStuckFiring' /\ Activating'
    BY TaskSteps DEF NeverStuckFiring, Activating
  <2>5. WorkFollowsSchedule'
    BY TaskSteps DEF WorkFollowsSchedule, Activating, Work!Spent, Work!Armed
  <2>6. ASSUME ~crossed' PROVE Uncrossed'
    <3>1. Uncrossed
      BY <2>6
    <3>2. Crossless'
      BY <3>1, TaskSteps DEF Uncrossed, Crossless, Activating
    <3>3. Pending'
      BY <3>1, TaskSteps DEF Places, Uncrossed, Crossless, Pending, NeverStuckFiring
    <3>4. Running'
      BY <3>1, TaskSteps DEF Places, Uncrossed, Crossless, Pending, Running
    <3> QED BY <3>2, <3>3, <3>4 DEF Uncrossed
  <2> QED BY <2>1, <2>2, <2>3, <2>4, <2>5, <2>6
<1>8. CASE Fire
  <2> USE <1>8 DEF Fire
  <2>1. FsmTyped'
    BY FireEvent
  <2>2. Flags'
    BY DEF Flags
  <2>3. Places'
    BY DEF Places
  <2>4. NeverStuckFiring' /\ Activating'
    BY FireEvent DEF NeverStuckFiring, Activating
  <2>5. WorkFollowsSchedule'
    BY FireEvent DEF WorkFollowsSchedule, Activating
  <2>6. ASSUME ~crossed' PROVE Uncrossed'
    <3>1. Uncrossed
      BY <2>6
    <3>2. Crossless'
      BY FireEvent, <3>1 DEF Places, Uncrossed, Crossless, NeverStuckFiring
    <3>3. Pending'
      BY FireEvent, <3>1 DEF Places, Uncrossed, Crossless, Pending, NeverStuckFiring
    <3>4. Running'
      BY FireEvent, <3>1 DEF Places, Uncrossed, Crossless, Pending, Running
    <3> QED BY <3>2, <3>3, <3>4 DEF Uncrossed
  <2> QED BY <2>1, <2>2, <2>3, <2>4, <2>5, <2>6
<1>9. CASE Apply
  <2> USE <1>9 DEF Apply
  <2>1. FsmTyped'
    OBVIOUS
  <2>2. Flags'
    <3>1. action.desiredOn \in BOOLEAN
      BY ActionTyped
    <3>2. accepted' \in BOOLEAN /\ output' \in BOOLEAN
      BY <3>1 DEF Flags
    <3> QED BY <3>2 DEF Flags
  <2>3. Places'
    BY DEF Places
  <2>4. NeverStuckFiring' /\ Activating'
    BY DEF NeverStuckFiring, Activating
  <2>5. WorkFollowsSchedule'
    BY DEF WorkFollowsSchedule, Activating
  <2>6. ASSUME ~crossed' PROVE Uncrossed'
    <3>1. Uncrossed
      BY <2>6
    <3>2. Crossless'
      BY <3>1 DEF Places, Uncrossed, Crossless, NeverStuckFiring
    <3>3. Pending'
      BY <3>1 DEF Places, Uncrossed, Crossless, Pending, NeverStuckFiring
    <3>4. Running'
      BY <3>1 DEF Places, Uncrossed, Crossless, Pending, Running
    <3> QED BY <3>2, <3>3, <3>4 DEF Uncrossed
  <2> QED BY <2>1, <2>2, <2>3, <2>4, <2>5, <2>6
<1>10. CASE Finish
  <2> USE <1>10 DEF Finish
  <2>1. FsmTyped'
    BY DoneEvent, FailEvent
  <2>2. Flags'
    BY DEF Flags
  <2>3. Places'
    BY DEF Places
  <2>4. NeverStuckFiring' /\ Activating'
    BY DoneEvent, FailEvent DEF NeverStuckFiring, Activating
  <2>5. WorkFollowsSchedule'
    BY DoneEvent, FailEvent DEF WorkFollowsSchedule, Activating
  <2>6. ASSUME ~crossed' PROVE Uncrossed'
    <3>1. Uncrossed
      BY <2>6
    <3>2. Crossless'
      BY DoneEvent, FailEvent, <3>1 DEF Places, Uncrossed, Crossless, NeverStuckFiring
    <3>3. Pending'
      BY DoneEvent, FailEvent, <3>1 DEF Places, Uncrossed, Crossless, Pending, NeverStuckFiring
    <3>4. Running'
      BY DoneEvent, FailEvent, <3>1 DEF Places, Uncrossed, Crossless, Pending, Running
    <3> QED BY <3>2, <3>3, <3>4 DEF Uncrossed
  <2> QED BY <2>1, <2>2, <2>3, <2>4, <2>5, <2>6
<1>11. CASE UNCHANGED vars
  BY <1>11 DEF vars, Flags, Places, NeverStuckFiring, WorkFollowsSchedule,
              Activating, Uncrossed, Crossless, Pending, Running
<1> QED BY <1>1, <1>2, <1>3, <1>4, <1>5, <1>6, <1>7, <1>8, <1>9, <1>10, <1>11 DEF Next, WebStep, LoopStep

LEMMA Invariant == Spec => []IInv
BY InitIInv, NextIInv, PTL DEF Spec

-----------------------------------------------------------------------------
(* Theorems *)

\* Every reachable state has its type, whatever the two tasks interleave.
THEOREM TypeCorrect == Spec => []TypeOK
<1>1. IInv => TypeOK
  BY Typed DEF IInv
<1> QED BY <1>1, Invariant, PTL

\* No crossing of an activation and an execution leaves the FSM in FIRING.
THEOREM NeverLeftFiring == Spec => []NeverStuckFiring
<1>1. IInv => NeverStuckFiring
  BY DEF IInv
<1> QED BY <1>1, Invariant, PTL

\* Between activations a waiting schedule has its work, and a removed one none.
THEOREM WorkAlwaysFollows == Spec => []WorkFollowsSchedule
<1>1. IInv => WorkFollowsSchedule
  BY DEF IInv
<1> QED BY <1>1, Invariant, PTL

\* An activation that crosses no execution is run once at most, after its delay.
THEOREM OnceUnlessCrossed == Spec => []RunsOnceUncrossed
<1>1. IInv => RunsOnceUncrossed
  BY DEF IInv, Uncrossed, Pending, Running, RunsOnceUncrossed
<1> QED BY <1>1, Invariant, PTL
=============================================================================
