----------------------------- MODULE NodeProofs -----------------------------
(***************************************************************************)
(* Theorems about Node: its types, the port that portal and services       *)
(* share, and the restarts that must not look like a double reset.  Node   *)
(* has no constants and the proofs no assumptions.                         *)
(***************************************************************************)
EXTENDS Node, TLAPS

Setting == {"boot", "forced", "connect"}

\* LinksTypeOK in four parts, small enough for the provers.
StoredTyped == /\ ap \in BOOLEAN /\ broker \in BOOLEAN /\ saved \in BOOLEAN
               /\ configured \in BOOLEAN /\ restartRequested \in BOOLEAN
RadioTyped  == wifi \in BOOLEAN /\ mqtt \in {"none", "live", "stale"} /\ portal \in BOOLEAN
BootTyped   == /\ drd \in BOOLEAN /\ late \in BOOLEAN
               /\ at \in {"boot", "forced", "connect", "loop"}
               /\ ordered \in BOOLEAN /\ appState \in AppStates
TasksTyped  == /\ networkServicesStarted \in BOOLEAN
               /\ wifiReconnectTask \in BOOLEAN /\ mqttReconnectTask \in BOOLEAN
               /\ mqttTelemetryTask \in BOOLEAN /\ wifiReconnectPending \in BOOLEAN

\* Nothing is up before setup() is through, and an ordered restart leaves no
\* marker to the boot it leads to: it clears it, or comes late, when the
\* detector has.
Orderly == /\ PortalHasThePort
           /\ at \in Setting => ~portal /\ ~networkServicesStarted
           /\ at = "boot" /\ ordered => ~drd
           /\ late => at = "loop" /\ ~drd

LinksInv == StoredTyped /\ RadioTyped /\ BootTyped /\ TasksTyped /\ Orderly

NodeInv == LinksInv /\ SupervisionTypeOK

-----------------------------------------------------------------------------
(* Supervision *)

\* What the connectivity component makes of a sample has its type.
LEMMA SampleTyped ==
  ASSUME SupervisionTypeOK, NEW w \in BOOLEAN, NEW m \in BOOLEAN, NEW c \in BOOLEAN,
         sample(w, m, c)
  PROVE  SupervisionTypeOK'
BY DEF SupervisionTypeOK, sample, Observed, Healths

\* An evaluation leads the supervisor's FSM to one of its states.
LEMMA EvaluateTyped ==
  ASSUME SupervisionTypeOK, evaluate
  PROVE  SupervisionTypeOK'
<1> DEFINE Names == {"INITIALIZING", "RUNNING", "DEGRADED", "FAULT"}
<1>1. \A t \in SupervisorTransitions : t[3] \in Names
  BY DEF SupervisorTransitions
<1>2. supervisor' \in Names
  BY <1>1 DEF evaluate, SupervisionTypeOK
<1> QED BY <1>2 DEF evaluate, SupervisionTypeOK

\* The lab endpoints leave the input a health and a flag.
LEMMA InputTyped ==
  ASSUME SupervisionTypeOK, ChangeInput
  PROVE  SupervisionTypeOK'
<1> DEFINE Inputs == [health : Healths, hasValue : BOOLEAN]
<1>1. input \in Inputs
  BY DEF SupervisionTypeOK
<1>2. input' \in Inputs
  <2>1. CASE setValue
    BY <2>1 DEF setValue, Healths
  <2>2. CASE injectFault
    BY <1>1, <2>2 DEF injectFault, Healths
  <2>3. CASE recover
    BY <1>1, <2>3 DEF recover, Healths
  <2>4. CASE disable
    BY <2>4 DEF disable, NoInput, Healths
  <2> QED BY <2>1, <2>2, <2>3, <2>4 DEF ChangeInput
<1> QED BY <1>2 DEF ChangeInput, SupervisionTypeOK

\* A reset begins again with what begin() sets.
LEMMA BeginTyped ==
  ASSUME BeginAgain
  PROVE  SupervisionTypeOK'
BY DEF BeginAgain, SupervisionTypeOK, Starting, NoInput, Healths

-----------------------------------------------------------------------------
(* The links *)

\* An event leads the application FSM to one of its states.
LEMMA TriggerTyped ==
  ASSUME appState \in AppStates, NEW states, NEW event, TriggerFrom(states, event)
  PROVE  appState' \in AppStates
<1>1. \A t \in AppTransitions : t[3] \in AppStates
  BY DEF AppTransitions, AppStates
<1> QED BY <1>1 DEF TriggerFrom

LEMMA LinksTyped == LinksInv => LinksTypeOK
BY DEF LinksInv, LinksTypeOK, StoredTyped, RadioTyped, BootTyped, TasksTyped

\* A step of setup() keeps LinksInv: only the one that ends it opens the portal
\* or starts the services, and not both.
LEMMA SetupKeeps ==
  ASSUME LinksInv, Setup
  PROVE  LinksInv'
<1> USE DEF LinksInv, StoredTyped, RadioTyped, BootTyped, TasksTyped, Orderly,
            PortalHasThePort, Setting, air, tasks, settings, boot
<1>1. CASE Detect
  <2> USE <1>1 DEF Detect
  <2>1. StoredTyped'
    OBVIOUS
  <2>2. RadioTyped'
    OBVIOUS
  <2>3. BootTyped'
    BY TriggerTyped
  <2>4. TasksTyped'
    OBVIOUS
  <2>5. Orderly'
    OBVIOUS
  <2> QED BY <2>1, <2>2, <2>3, <2>4, <2>5
<1>2. CASE ForcePortal
  <2> USE <1>2 DEF ForcePortal
  <2>1. StoredTyped'
    OBVIOUS
  <2>2. RadioTyped'
    OBVIOUS
  <2>3. BootTyped'
    OBVIOUS
  <2>4. TasksTyped'
    OBVIOUS
  <2>5. Orderly'
    OBVIOUS
  <2> QED BY <2>1, <2>2, <2>3, <2>4, <2>5
<1>3. CASE AutoConnect
  <2> USE <1>3 DEF AutoConnect
  <2>1. StoredTyped'
    OBVIOUS
  <2>2. RadioTyped'
    OBVIOUS
  <2>3. BootTyped'
    BY TriggerTyped
  <2>4. TasksTyped'
    OBVIOUS
  <2>5. Orderly'
    OBVIOUS
  <2> QED BY <2>1, <2>2, <2>3, <2>4, <2>5
<1> QED BY <1>1, <1>2, <1>3 DEF Setup

\* So does a task of loop(): the tail starts the services without a portal only.
LEMMA LinkTaskKeeps ==
  ASSUME LinksInv, LinkTask
  PROVE  LinksInv'
<1> USE DEF LinksInv, StoredTyped, RadioTyped, BootTyped, TasksTyped, Orderly,
            PortalHasThePort, Setting, air, tasks, settings, boot
<1>1. CASE CoordinateWifi
  <2> USE <1>1 DEF CoordinateWifi
  <2>1. StoredTyped'
    OBVIOUS
  <2>2. RadioTyped'
    OBVIOUS
  <2>3. BootTyped'
    BY TriggerTyped
  <2>4. TasksTyped'
    OBVIOUS
  <2>5. Orderly'
    OBVIOUS
  <2> QED BY <2>1, <2>2, <2>3, <2>4, <2>5
<1>2. CASE RunWifiReconnect
  <2> USE <1>2 DEF RunWifiReconnect
  <2>1. StoredTyped'
    OBVIOUS
  <2>2. RadioTyped'
    OBVIOUS
  <2>3. BootTyped'
    OBVIOUS
  <2>4. TasksTyped'
    OBVIOUS
  <2>5. Orderly'
    OBVIOUS
  <2> QED BY <2>1, <2>2, <2>3, <2>4, <2>5
<1>3. CASE CoordinateMqtt
  <2> USE <1>3 DEF CoordinateMqtt, Eligible, connected
  <2>1. StoredTyped'
    OBVIOUS
  <2>2. RadioTyped'
    OBVIOUS
  <2>3. BootTyped'
    OBVIOUS
  <2>4. TasksTyped'
    OBVIOUS
  <2>5. Orderly'
    OBVIOUS
  <2> QED BY <2>1, <2>2, <2>3, <2>4, <2>5
<1>4. CASE RunMqttReconnect
  <2> USE <1>4 DEF RunMqttReconnect, Eligible, connectMqtt, connected
  <2>1. StoredTyped'
    OBVIOUS
  <2>2. RadioTyped'
    OBVIOUS
  <2>3. BootTyped'
    OBVIOUS
  <2>4. TasksTyped'
    OBVIOUS
  <2>5. Orderly'
    OBVIOUS
  <2> QED BY <2>1, <2>2, <2>3, <2>4, <2>5
<1>5. CASE RunMqttTelemetry
  <2> USE <1>5 DEF RunMqttTelemetry, connected
  <2>1. StoredTyped'
    OBVIOUS
  <2>2. RadioTyped'
    OBVIOUS
  <2>3. BootTyped'
    OBVIOUS
  <2>4. TasksTyped'
    OBVIOUS
  <2>5. Orderly'
    OBVIOUS
  <2> QED BY <2>1, <2>2, <2>3, <2>4, <2>5
<1>6. CASE Process
  <2> USE <1>6 DEF Process
  <2>1. StoredTyped'
    OBVIOUS
  <2>2. RadioTyped'
    OBVIOUS
  <2>3. BootTyped'
    OBVIOUS
  <2>4. TasksTyped'
    OBVIOUS
  <2>5. Orderly'
    OBVIOUS
  <2> QED BY <2>1, <2>2, <2>3, <2>4, <2>5
<1>7. CASE Tail
  <2> USE <1>7 DEF Tail
  <2>1. StoredTyped'
    OBVIOUS
  <2>2. RadioTyped'
    OBVIOUS
  <2>3. BootTyped'
    BY TriggerTyped
  <2>4. TasksTyped'
    OBVIOUS
  <2>5. Orderly'
    OBVIOUS
  <2> QED BY <2>1, <2>2, <2>3, <2>4, <2>5
<1> QED BY <1>1, <1>2, <1>3, <1>4, <1>5, <1>6, <1>7 DEF LinkTask

\* So does what comes from outside setup() and the tasks.
LEMMA OutsideKeeps ==
  ASSUME LinksInv, CloseWindow \/ SaveSettings \/ WebConnect \/ Outside
  PROVE  LinksInv'
<1> USE DEF LinksInv, StoredTyped, RadioTyped, BootTyped, TasksTyped, Orderly,
            PortalHasThePort, Setting, air, tasks, settings, boot
<1>1. CASE CloseWindow
  <2> USE <1>1 DEF CloseWindow
  <2>1. StoredTyped'
    OBVIOUS
  <2>2. RadioTyped'
    OBVIOUS
  <2>3. BootTyped'
    OBVIOUS
  <2>4. TasksTyped'
    OBVIOUS
  <2>5. Orderly'
    OBVIOUS
  <2> QED BY <2>1, <2>2, <2>3, <2>4, <2>5
<1>2. CASE SaveSettings
  <2> USE <1>2 DEF SaveSettings
  <2>1. StoredTyped'
    OBVIOUS
  <2>2. RadioTyped'
    OBVIOUS
  <2>3. BootTyped'
    OBVIOUS
  <2>4. TasksTyped'
    OBVIOUS
  <2>5. Orderly'
    OBVIOUS
  <2> QED BY <2>1, <2>2, <2>3, <2>4, <2>5
<1>3. CASE WebConnect
  <2> USE <1>3 DEF WebConnect, connectMqtt
  <2>1. StoredTyped'
    OBVIOUS
  <2>2. RadioTyped'
    OBVIOUS
  <2>3. BootTyped'
    OBVIOUS
  <2>4. TasksTyped'
    OBVIOUS
  <2>5. Orderly'
    OBVIOUS
  <2> QED BY <2>1, <2>2, <2>3, <2>4, <2>5
<1>4. CASE AccessPoint
  <2> USE <1>4 DEF AccessPoint, Cut
  <2>1. StoredTyped'
    OBVIOUS
  <2>2. RadioTyped'
    OBVIOUS
  <2>3. BootTyped'
    OBVIOUS
  <2>4. TasksTyped'
    OBVIOUS
  <2>5. Orderly'
    OBVIOUS
  <2> QED BY <2>1, <2>2, <2>3, <2>4, <2>5
<1>5. CASE Broker
  <2> USE <1>5 DEF Broker, Cut
  <2>1. StoredTyped'
    OBVIOUS
  <2>2. RadioTyped'
    OBVIOUS
  <2>3. BootTyped'
    OBVIOUS
  <2>4. TasksTyped'
    OBVIOUS
  <2>5. Orderly'
    OBVIOUS
  <2> QED BY <2>1, <2>2, <2>3, <2>4, <2>5
<1>6. CASE Associate
  <2> USE <1>6 DEF Associate
  <2>1. StoredTyped'
    OBVIOUS
  <2>2. RadioTyped'
    OBVIOUS
  <2>3. BootTyped'
    OBVIOUS
  <2>4. TasksTyped'
    OBVIOUS
  <2>5. Orderly'
    OBVIOUS
  <2> QED BY <2>1, <2>2, <2>3, <2>4, <2>5
<1>7. CASE LoseWifi
  <2> USE <1>7 DEF LoseWifi
  <2>1. StoredTyped'
    OBVIOUS
  <2>2. RadioTyped'
    OBVIOUS
  <2>3. BootTyped'
    OBVIOUS
  <2>4. TasksTyped'
    OBVIOUS
  <2>5. Orderly'
    OBVIOUS
  <2> QED BY <2>1, <2>2, <2>3, <2>4, <2>5
<1>8. CASE SessionEnds
  <2> USE <1>8 DEF SessionEnds
  <2>1. StoredTyped'
    OBVIOUS
  <2>2. RadioTyped'
    OBVIOUS
  <2>3. BootTyped'
    OBVIOUS
  <2>4. TasksTyped'
    OBVIOUS
  <2>5. Orderly'
    OBVIOUS
  <2> QED BY <2>1, <2>2, <2>3, <2>4, <2>5
<1> QED BY <1>1, <1>2, <1>3, <1>4, <1>5, <1>6, <1>7, <1>8 DEF Outside

\* So does a reset, where one the firmware orders leaves no marker, or comes
\* after the window of the detector.
LEMMA ResetKeeps ==
  ASSUME LinksInv, NEW marker \in BOOLEAN, NEW byOrder \in BOOLEAN,
         byOrder => ~marker, Reset(marker, byOrder)
  PROVE  LinksInv'
BY DEF LinksInv, StoredTyped, RadioTyped, BootTyped, TasksTyped, Orderly, PortalHasThePort,
       Setting, Reset, AppStates, air

\* Each of the four restarts is such a reset.
LEMMA RestartKeeps ==
  ASSUME LinksInv,
         RequestedRestart \/ CommandedRestart \/ RollbackReboot \/ HardwareReset
  PROVE  LinksInv'
<1>1. drd \in BOOLEAN
  BY DEF LinksInv, BootTyped
<1>2. CASE RequestedRestart \/ CommandedRestart
  BY <1>2, ResetKeeps DEF RequestedRestart, CommandedRestart, restartNow
<1>3. CASE RollbackReboot
  BY <1>1, <1>3, ResetKeeps DEF RollbackReboot, LinksInv, Orderly
<1>4. CASE HardwareReset
  BY <1>1, <1>4, ResetKeeps DEF HardwareReset
<1> QED BY <1>2, <1>3, <1>4

-----------------------------------------------------------------------------
(* The node *)

LEMMA InitInv ==
  ASSUME Init
  PROVE  NodeInv
BY DEF Init, LinksInit, SupervisionInit, NodeInv, LinksInv, StoredTyped, RadioTyped,
       BootTyped, TasksTyped, Orderly, PortalHasThePort, Setting, AppStates,
       SupervisionTypeOK, Starting, NoInput, Healths

\* Every step keeps the invariant: the parts it leaves alone stay, the lemmas
\* above say the rest.
LEMMA NextInv ==
  ASSUME NodeInv, [Next]_vars
  PROVE  NodeInv'
<1>1. ASSUME UNCHANGED linkVars
      PROVE  LinksInv'
  BY <1>1 DEF NodeInv, LinksInv, StoredTyped, RadioTyped, BootTyped, TasksTyped, Orderly,
              PortalHasThePort, linkVars, air, tasks, settings, boot
<1>2. ASSUME UNCHANGED supervisionVars
      PROVE  SupervisionTypeOK'
  BY <1>2 DEF NodeInv, SupervisionTypeOK, supervisionVars
<1>3. CASE /\ Setup \/ LinkTask \/ CloseWindow \/ SaveSettings \/ WebConnect \/ Outside
           /\ UNCHANGED supervisionVars
  BY <1>2, <1>3, SetupKeeps, LinkTaskKeeps, OutsideKeeps DEF NodeInv
<1>4. CASE Sample
  <2>1. wifi \in BOOLEAN /\ connected \in BOOLEAN /\ configured \in BOOLEAN
    BY DEF NodeInv, LinksInv, StoredTyped, RadioTyped, connected
  <2> QED BY <1>1, <1>4, <2>1, SampleTyped DEF Sample, NodeInv
<1>5. CASE Evaluate
  BY <1>1, <1>5, EvaluateTyped DEF Evaluate, NodeInv
<1>6. CASE LabInput
  BY <1>1, <1>6, InputTyped DEF LabInput, NodeInv
<1>7. CASE /\ RequestedRestart \/ CommandedRestart \/ RollbackReboot \/ HardwareReset
           /\ BeginAgain
  BY <1>7, RestartKeeps, BeginTyped DEF NodeInv
<1>8. CASE UNCHANGED vars
  BY <1>1, <1>2, <1>8 DEF vars, NodeInv
<1> QED BY <1>3, <1>4, <1>5, <1>6, <1>7, <1>8 DEF Next

LEMMA Invariant == Spec => []NodeInv
BY InitInv, NextInv, PTL DEF Spec

\* Every reachable state of links and supervision has its type: no step of the
\* two FSMs leads to a state that is none of theirs.
THEOREM TypeCorrect == Spec => []TypeOK
<1>1. NodeInv => TypeOK
  BY LinksTyped DEF NodeInv, TypeOK
<1> QED BY <1>1, Invariant, PTL

\* The portal and the services of the device are never both on the port they
\* share, whatever the radio, the HTTP task and the resets do.
THEOREM OneOwnerOfThePort == Spec => []PortalHasThePort
<1>1. NodeInv => PortalHasThePort
  BY DEF NodeInv, LinksInv, Orderly
<1> QED BY <1>1, Invariant, PTL

\* The boot after a restart the firmware ordered never takes it for a double
\* reset, over any sequence of boots and resets.
THEOREM RestartNeverDoubleReset == Spec => RestartIsNoDoubleReset
<1> DEFINE Honest == at = "boot" /\ at' = "forced" => ~ordered
<1>1. ASSUME NodeInv, [Next]_vars
      PROVE  [Honest]_vars
  <2>1. CASE Detect
    <3>1. at = "boot" /\ ordered => ~drd
      BY <1>1 DEF NodeInv, LinksInv, Orderly
    <3>2. at' = "forced" => drd
      BY <2>1 DEF Detect
    <3> QED BY <3>1, <3>2
  <2>2. CASE ForcePortal \/ AutoConnect
    BY <2>2 DEF ForcePortal, AutoConnect
  <2>3. CASE LinkTask
    BY <2>3 DEF LinkTask, CoordinateWifi, RunWifiReconnect, CoordinateMqtt, RunMqttReconnect,
                RunMqttTelemetry, Process, Tail
  <2>4. CASE UNCHANGED boot
    BY <2>4 DEF boot
  <2>5. CASE at' = "boot"
    BY <2>5
  <2>6. CASE CloseWindow
    BY <2>6 DEF CloseWindow
  <2>7. SaveSettings \/ WebConnect \/ Outside => UNCHANGED boot
    BY DEF SaveSettings, WebConnect, Outside, AccessPoint, Broker, Associate, LoseWifi,
           SessionEnds
  <2>8. Sample \/ Evaluate \/ LabInput \/ UNCHANGED vars => UNCHANGED boot
    BY DEF Sample, Evaluate, LabInput, vars, linkVars
  <2>9. RequestedRestart \/ CommandedRestart \/ RollbackReboot \/ HardwareReset => at' = "boot"
    BY DEF RequestedRestart, CommandedRestart, RollbackReboot, HardwareReset, restartNow, Reset
  <2> QED BY <1>1, <2>1, <2>2, <2>3, <2>4, <2>5, <2>6, <2>7, <2>8, <2>9 DEF Next, Setup
<1> QED BY <1>1, Invariant, PTL DEF Spec, RestartIsNoDoubleReset
=============================================================================
