-------------------------------- MODULE Node --------------------------------
(***************************************************************************)
(* The links and the supervision of the device together, as setup() and    *)
(* loop() wire them (src/src/main.cpp): the connectivity component samples *)
(* the links the tasks of Links bring up and down, the supervisor sums up  *)
(* its health and the input's, and a reset starts all of it again.         *)
(***************************************************************************)
EXTENDS Links, Supervision

vars == <<linkVars, supervisionVars>>

TypeOK == LinksTypeOK /\ SupervisionTypeOK

Init == LinksInit /\ SupervisionInit

\* connectivityHealthTask, every 2 s.
Sample == /\ at = "loop" /\ sample(wifi, connected, configured)
          /\ UNCHANGED linkVars

\* supervisorTask, every second.
Evaluate == at = "loop" /\ evaluate /\ UNCHANGED linkVars

\* /api/test/rules/input, fault, recover and reset, on the HTTP task.
LabInput == networkServicesStarted /\ ChangeInput /\ UNCHANGED linkVars

Setup    == Detect \/ ForcePortal \/ AutoConnect
LinkTask == \/ CoordinateWifi \/ RunWifiReconnect
            \/ CoordinateMqtt \/ RunMqttReconnect \/ RunMqttTelemetry
            \/ Process \/ Tail
Radio    == (wifiReconnectPending /\ Associate) \/ LoseWifi
Outside  == AccessPoint \/ Broker \/ Associate \/ LoseWifi \/ SessionEnds

Next ==
  \/ /\ Setup \/ LinkTask \/ CloseWindow \/ SaveSettings \/ WebConnect \/ Outside
     /\ UNCHANGED supervisionVars
  \/ Sample \/ Evaluate \/ LabInput
  \/ /\ RequestedRestart \/ CommandedRestart \/ RollbackReboot \/ HardwareReset
     /\ BeginAgain

\* What the device does by itself.  The tasks of the links have one condition
\* together: as long as one of them has something to do, one of them does it.
Spec ==
  /\ Init /\ [][Next]_vars
  /\ WF_vars(Setup /\ UNCHANGED supervisionVars)
  /\ WF_vars(LinkTask /\ UNCHANGED supervisionVars)
  /\ WF_vars(Radio /\ UNCHANGED supervisionVars)
  /\ WF_vars(Sample) /\ WF_vars(Evaluate)

-----------------------------------------------------------------------------
(* Properties *)

\* docs/architecture.md:354: an intentional reboot does not mimic a human double
\* reset: the boot after one never opens the configuration portal by force.
RestartIsNoDoubleReset ==
  [][at = "boot" /\ at' = "forced" => ~ordered]_vars

\* WiFiManager's portal and the services of the device listen on one port: they
\* are never both there.
PortalHasThePort == portal => ~networkServicesStarted

\* Eventually the device is up for good.
StaysUp == <>[](at \in {"forced", "connect", "loop"})

\* docs/architecture.md:291-305, 322: the links settle.  Whatever went on before,
\* once the access point and the broker stay in reach the device ends up ONLINE
\* with its services, a live session and telemetry, and with both reconnection
\* tasks disabled; without the access point it ends up OFFLINE, still trying,
\* with the MQTT tasks disabled.
LinksSettle ==
  StaysUp =>
     /\ <>[](Reachable /\ configured) =>
          <>[](/\ appState = "ONLINE" /\ networkServicesStarted
               /\ mqtt = "live" /\ mqttTelemetryTask
               /\ ~mqttReconnectTask /\ ~wifiReconnectTask)
     /\ <>[]~ap =>
          <>[](/\ appState = "OFFLINE" /\ wifiReconnectTask /\ wifiReconnectPending
               /\ ~mqttReconnectTask /\ ~mqttTelemetryTask)

\* The supervisor comes to say what is the case: FAULT for an input that stays
\* faulty; without one, DEGRADED for links that stay down, and RUNNING for
\* links that stay up.
SupervisorFollows ==
  StaysUp =>
     /\ <>[](input.health = "Fault") => <>[](supervisor = "FAULT")
     /\ <>[](input.health # "Fault") =>
          /\ <>[]~ap => <>[](supervisor = "DEGRADED")
          /\ <>[](Reachable /\ configured) => <>[](supervisor = "RUNNING")
=============================================================================
