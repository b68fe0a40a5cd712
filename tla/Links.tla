-------------------------------- MODULE Links --------------------------------
(***************************************************************************)
(* The links of the device and the application FSM (src/src/main.cpp):     *)
(* setup() with its double-reset detector and configuration portal, the    *)
(* tasks that bring Wi-Fi and the MQTT session back, the tail of loop(),   *)
(* and the ordered and unordered restarts.  A task of the scheduler may be *)
(* due in one pass of loop() and not in the next, so that the order of two *)
(* of them in the chain means nothing: any task that is enabled may run    *)
(* next.  Between two tasks the radio, the broker and the HTTP task may    *)
(* do anything.  A blocking call decides by what it finds at its end.      *)
(* Modelled is the production build, without its lab endpoints.            *)
(***************************************************************************)

VARIABLES
  ap,            \* the access point that was provisioned is in reach
  broker,        \* the MQTT broker answers
  wifi,          \* WiFi.status() == WL_CONNECTED
  mqtt,          \* the session: "none", "live", or "stale": dead, not noticed
  portal,        \* wifiManager.getConfigPortalActive()
  saved,         \* NVS: complete MQTT settings
  configured,    \* mqttConfigured(): what loadMqttConfig() found at boot
  drd,           \* the marker of the double-reset detector, over restarts
  late,          \* this pass of loop() began 10 s after the boot, or later
  at,            \* where setup() is, or "loop"
  appState,
  networkServicesStarted,
  wifiReconnectTask, mqttReconnectTask, mqttTelemetryTask,  \* isEnabled()
  wifiReconnectPending,
  restartRequested,
  ordered        \* history: this boot follows a restart the firmware ordered

air      == <<ap, broker>>
tasks    == <<wifiReconnectTask, mqttReconnectTask, mqttTelemetryTask>>
settings == <<saved, configured, restartRequested>>
boot     == <<drd, late, at, ordered>>
linkVars == <<air, wifi, mqtt, portal, settings, boot, appState, tasks,
              networkServicesStarted, wifiReconnectPending>>

AppStates == {"BOOT", "CONFIG_PORTAL", "WIFI_CONNECTING", "ONLINE", "OFFLINE"}

LinksTypeOK ==
  /\ ap \in BOOLEAN /\ broker \in BOOLEAN
  /\ wifi \in BOOLEAN /\ mqtt \in {"none", "live", "stale"}
  /\ portal \in BOOLEAN /\ saved \in BOOLEAN /\ configured \in BOOLEAN
  /\ drd \in BOOLEAN /\ late \in BOOLEAN /\ at \in {"boot", "forced", "connect", "loop"}
  /\ appState \in AppStates
  /\ networkServicesStarted \in BOOLEAN
  /\ wifiReconnectTask \in BOOLEAN /\ mqttReconnectTask \in BOOLEAN
  /\ mqttTelemetryTask \in BOOLEAN /\ wifiReconnectPending \in BOOLEAN
  /\ restartRequested \in BOOLEAN /\ ordered \in BOOLEAN

LinksInit ==
  /\ ap \in BOOLEAN /\ broker \in BOOLEAN
  /\ saved \in BOOLEAN /\ configured = saved
  /\ wifi = FALSE /\ mqtt = "none" /\ portal = FALSE
  /\ drd = FALSE /\ late = FALSE /\ ordered = FALSE
  /\ at = "boot" /\ appState = "BOOT" /\ networkServicesStarted = FALSE
  /\ wifiReconnectTask = FALSE /\ mqttReconnectTask = FALSE
  /\ mqttTelemetryTask = FALSE /\ wifiReconnectPending = FALSE
  /\ restartRequested = FALSE

-----------------------------------------------------------------------------
(* The application FSM *)

\* configureStateMachine(), as <<from, event, to>>; any other event is ignored.
AppTransitions ==
  {<<"BOOT", "START_NETWORK", "WIFI_CONNECTING">>, <<"BOOT", "FORCE_CONFIG", "CONFIG_PORTAL">>,
   <<"WIFI_CONNECTING", "PORTAL_OPEN", "CONFIG_PORTAL">>,
   <<"CONFIG_PORTAL", "CONFIG_DONE", "WIFI_CONNECTING">>,
   <<"WIFI_CONNECTING", "WIFI_UP", "ONLINE">>, <<"WIFI_CONNECTING", "WIFI_DOWN", "OFFLINE">>,
   <<"ONLINE", "WIFI_DOWN", "OFFLINE">>, <<"OFFLINE", "WIFI_UP", "ONLINE">>}

\* machine.trigger(event), where the caller looks at the state before it does.
TriggerFrom(states, event) ==
  LET targets == {t[3] : t \in {u \in AppTransitions : u[1] = appState /\ u[2] = event}}
  IN  appState' \in IF appState \in states /\ targets # {} THEN targets ELSE {appState}

-----------------------------------------------------------------------------
(* The world outside *)

Reachable == ap /\ broker

\* What an outage of either kind does to a session: nobody notices at once.
Cut == mqtt' = IF mqtt = "live" THEN "stale" ELSE mqtt

AccessPoint == /\ ap' = ~ap /\ Cut
               /\ UNCHANGED <<broker, wifi, portal, settings, boot, appState, tasks,
                              networkServicesStarted, wifiReconnectPending>>

Broker == /\ broker' = ~broker /\ Cut
          /\ UNCHANGED <<ap, wifi, portal, settings, boot, appState, tasks,
                         networkServicesStarted, wifiReconnectPending>>

\* The station associates, by itself or because of WiFi.reconnect().
Associate == /\ at = "loop" /\ ap /\ ~wifi /\ wifi' = TRUE
             /\ UNCHANGED <<air, mqtt, portal, settings, boot, appState, tasks,
                            networkServicesStarted, wifiReconnectPending>>

LoseWifi == /\ ~ap /\ wifi /\ wifi' = FALSE
            /\ UNCHANGED <<air, mqtt, portal, settings, boot, appState, tasks,
                           networkServicesStarted, wifiReconnectPending>>

\* The socket turns out to be closed.
SessionEnds == /\ mqtt = "stale" /\ mqtt' = "none"
               /\ UNCHANGED <<air, wifi, portal, settings, boot, appState, tasks,
                              networkServicesStarted, wifiReconnectPending>>

-----------------------------------------------------------------------------
(* setup(), from drd->detectDoubleReset() on *)

\* The detector finds the marker of the boot before, or leaves its own.
Detect ==
  /\ at = "boot" /\ drd' = ~drd /\ ordered' = FALSE
  /\ IF drd THEN at' = "forced" /\ TriggerFrom(AppStates, "FORCE_CONFIG")
            ELSE at' = "connect" /\ TriggerFrom(AppStates, "START_NETWORK")
  /\ UNCHANGED <<air, wifi, mqtt, portal, settings, tasks, networkServicesStarted,
                 wifiReconnectPending, late>>

ForcePortal ==
  /\ at = "forced" /\ at' = "loop" /\ portal' = TRUE
  /\ UNCHANGED <<air, wifi, mqtt, settings, drd, late, ordered, appState, tasks,
                 networkServicesStarted, wifiReconnectPending>>

\* autoConnect() brings Wi-Fi up, for good or just for its own duration, or
\* opens the portal and calls the AP callback.
AutoConnect ==
  /\ at = "connect" /\ at' = "loop"
  /\ \/ /\ ap /\ wifi' = TRUE /\ networkServicesStarted' = TRUE
        /\ TriggerFrom(AppStates, "WIFI_UP") /\ UNCHANGED portal
     \/ ap /\ UNCHANGED <<wifi, portal, networkServicesStarted, appState>>
     \/ /\ portal' = TRUE /\ TriggerFrom({"WIFI_CONNECTING"}, "PORTAL_OPEN")
        /\ UNCHANGED <<wifi, networkServicesStarted>>
  /\ UNCHANGED <<air, mqtt, settings, drd, late, ordered, tasks, wifiReconnectPending>>

-----------------------------------------------------------------------------
(* The Wi-Fi tasks *)

\* coordinateWifiTasks(): the reconnection task works while there is neither
\* Wi-Fi nor a portal, and the FSM is told of the link.
CoordinateWifi ==
  /\ at = "loop"
  /\ wifiReconnectTask' = (~portal /\ ~wifi)
  /\ wifiReconnectPending' = (wifiReconnectPending /\ ~portal /\ ~wifi)
  /\ \/ portal /\ UNCHANGED appState
     \/ ~portal /\ wifi /\ TriggerFrom({"OFFLINE", "WIFI_CONNECTING"}, "WIFI_UP")
     \/ ~portal /\ ~wifi /\ TriggerFrom({"WIFI_CONNECTING", "ONLINE"}, "WIFI_DOWN")
  /\ UNCHANGED <<air, wifi, mqtt, portal, settings, boot, networkServicesStarted,
                 mqttReconnectTask, mqttTelemetryTask>>

\* runWifiReconnectTask(): retire, or have the radio try once more.
RunWifiReconnect ==
  /\ at = "loop" /\ wifiReconnectTask
  /\ \/ (portal \/ wifi) /\ wifiReconnectTask' = FALSE /\ UNCHANGED wifiReconnectPending
     \/ ~portal /\ ~wifi /\ wifiReconnectPending' = TRUE /\ UNCHANGED wifiReconnectTask
  /\ UNCHANGED <<air, wifi, mqtt, portal, settings, boot, appState,
                 networkServicesStarted, mqttReconnectTask, mqttTelemetryTask>>

-----------------------------------------------------------------------------
(* The MQTT tasks *)

connected == mqtt # "none"

Eligible == networkServicesStarted /\ wifi /\ ~portal /\ configured

\* A broker in reach takes the connection.
connectMqtt == mqtt' = IF wifi /\ ~connected /\ configured /\ Reachable THEN "live" ELSE mqtt

\* coordinateMqttTasks(): reconnect without a session, telemetry with one.
CoordinateMqtt ==
  /\ at = "loop"
  /\ mqttReconnectTask' = (Eligible /\ ~connected)
  /\ mqttTelemetryTask' = (Eligible /\ connected)
  /\ UNCHANGED <<air, wifi, mqtt, portal, settings, boot, appState,
                 networkServicesStarted, wifiReconnectTask, wifiReconnectPending>>

\* runMqttReconnectTask(): it stays enabled only after an attempt that failed.
RunMqttReconnect ==
  /\ at = "loop" /\ mqttReconnectTask
  /\ IF Eligible THEN connectMqtt ELSE UNCHANGED mqtt
  /\ mqttReconnectTask' = (Eligible /\ mqtt' = "none")
  /\ UNCHANGED <<air, wifi, portal, settings, boot, appState, mqttTelemetryTask,
                 networkServicesStarted, wifiReconnectTask, wifiReconnectPending>>

\* runMqttTelemetryTask(): publishing changes nothing here.
RunMqttTelemetry ==
  /\ at = "loop" /\ mqttTelemetryTask
  /\ mqttTelemetryTask' = connected
  /\ UNCHANGED <<air, wifi, mqtt, portal, settings, boot, appState, mqttReconnectTask,
                 networkServicesStarted, wifiReconnectTask, wifiReconnectPending>>

-----------------------------------------------------------------------------
(* The rest of loop() *)

\* wifiManager.process(): the portal is done, or its 180 s are over.
Process ==
  /\ at = "loop" /\ portal /\ portal' = FALSE
  /\ UNCHANGED <<air, wifi, mqtt, settings, boot, appState, tasks,
                 networkServicesStarted, wifiReconnectPending>>

\* Fault: the window stays open.
CloseWindowNever ==
  /\ at = "loop" /\ ~late /\ late' = TRUE
  /\ UNCHANGED <<air, wifi, mqtt, portal, settings, drd, at, ordered, appState, tasks,
                 networkServicesStarted, wifiReconnectPending>>

\* drd->loop(), with which each pass begins: nobody reset the device for 10 s.
CloseWindow ==
  /\ at = "loop" /\ ~late /\ late' = TRUE /\ drd' = FALSE
  /\ UNCHANGED <<air, wifi, mqtt, portal, settings, at, ordered, appState, tasks,
                 networkServicesStarted, wifiReconnectPending>>

\* Fault: the session is not serviced, so no keep-alive is missed.
TailUnserviced ==
  /\ at = "loop"
  /\ IF portal THEN TriggerFrom({"WIFI_CONNECTING"}, "PORTAL_OPEN")
               ELSE TriggerFrom({"CONFIG_PORTAL"}, "CONFIG_DONE")
  /\ networkServicesStarted' = (networkServicesStarted \/ (wifi /\ ~portal))
  /\ UNCHANGED <<air, wifi, mqtt, portal, settings, boot, tasks, wifiReconnectPending>>

\* Fault: the portal is not looked at before the services are started.
TailUnguarded ==
  /\ at = "loop"
  /\ TriggerFrom({"CONFIG_PORTAL"}, "CONFIG_DONE")
  /\ networkServicesStarted' = (networkServicesStarted \/ wifi)
  /\ UNCHANGED <<air, wifi, mqtt, portal, settings, boot, tasks, wifiReconnectPending>>

\* From the second look at the portal to the end: startNetworkServices() once,
\* and mqttClient.loop(), which ends a dead session when it misses a keep-alive.
Tail ==
  /\ at = "loop"
  /\ IF portal THEN TriggerFrom({"WIFI_CONNECTING"}, "PORTAL_OPEN")
               ELSE TriggerFrom({"CONFIG_PORTAL"}, "CONFIG_DONE")
  /\ networkServicesStarted' = (networkServicesStarted \/ (wifi /\ ~portal))
  /\ mqtt' \in IF wifi /\ ~portal /\ mqtt = "stale" THEN {"stale", "none"} ELSE {mqtt}
  /\ UNCHANGED <<air, wifi, portal, settings, boot, tasks, wifiReconnectPending>>

-----------------------------------------------------------------------------
(* The HTTP task, and restarts *)

\* POST /config/mqtt, complete; the writes are not looked at and may fail.
SaveSettings ==
  /\ networkServicesStarted
  /\ saved' \in {saved, TRUE} /\ restartRequested' = TRUE
  /\ UNCHANGED <<air, wifi, mqtt, portal, configured, boot, appState, tasks,
                 networkServicesStarted, wifiReconnectPending>>

\* WebSerial's "mqtt" command connects from the HTTP task.
WebConnect ==
  /\ networkServicesStarted /\ connectMqtt
  /\ UNCHANGED <<air, wifi, portal, settings, boot, appState, tasks,
                 networkServicesStarted, wifiReconnectPending>>

\* What a reset of the chip leaves: the NVS, and the detector's marker.
Reset(marker, byOrder) ==
  /\ drd' = marker /\ late' = FALSE /\ ordered' = byOrder /\ at' = "boot"
  /\ wifi' = FALSE /\ mqtt' = "none" /\ portal' = FALSE
  /\ configured' = saved /\ restartRequested' = FALSE
  /\ appState' = "BOOT" /\ networkServicesStarted' = FALSE
  /\ wifiReconnectTask' = FALSE /\ mqttReconnectTask' = FALSE
  /\ mqttTelemetryTask' = FALSE /\ wifiReconnectPending' = FALSE
  /\ UNCHANGED <<air, saved>>

\* Fault: the hook that stops the detector is not called.
restartNowUnhooked == Reset(drd, TRUE)

\* RestartService::restartNow(): the hook first, drd->stop().
restartNow == Reset(FALSE, TRUE)

\* loop() carries out a requested restart, 750 ms after the answer.
RequestedRestart == at = "loop" /\ restartRequested /\ restartNow

\* The "reboot" of WebSerial and of MQTT, and the restart after an install.
CommandedRestart == networkServicesStarted /\ restartNow

\* FirmwareUpdate::tick() gives a trial up after 30 s and restarts without the
\* hook.  tick() follows drd->loop() in a pass, by less than 20 s.
RollbackReboot == at = "loop" /\ late /\ Reset(drd, TRUE)

\* Somebody presses the button, or the power fails.
HardwareReset == Reset(drd, FALSE)
=============================================================================
