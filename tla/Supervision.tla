----------------------------- MODULE Supervision -----------------------------
(***************************************************************************)
(* The supervisor (src/src/core/supervisor.cpp) and what it aggregates:    *)
(* the connectivity component, which reads the links every two seconds,    *)
(* and the virtual input, which the lab endpoints set, fault and recover.  *)
(* The two virtual outputs are left out: their health is Ok or Disabled,   *)
(* and the supervisor makes no difference between these.                   *)
(***************************************************************************)

VARIABLES
  connectivity,   \* its state_ and health_
  input,          \* virtual.temperature: its health, and hasValue_
  supervisor      \* state_ of the supervisor, and of its FSM

supervisionVars == <<connectivity, input, supervisor>>

Healths == {"Ok", "Degraded", "Fault", "Recovering", "Disabled"}

SupervisionTypeOK ==
  /\ connectivity \in [state : {"STARTING", "OFFLINE", "WIFI_ONLY", "ONLINE"},
                       health : Healths,
                       faultCode : {"starting", "wifi_disconnected", "mqtt_not_configured",
                                    "mqtt_disconnected", ""}]
  /\ input \in [health : Healths, hasValue : BOOLEAN]
  /\ supervisor \in {"INITIALIZING", "RUNNING", "DEGRADED", "FAULT"}

\* beginAll() and begin().
Starting == [state |-> "STARTING", health |-> "Recovering", faultCode |-> "starting"]
NoInput  == [health |-> "Disabled", hasValue |-> FALSE]

SupervisionInit == connectivity = Starting /\ input = NoInput /\ supervisor = "INITIALIZING"

\* A reset of the chip.
BeginAgain == connectivity' = Starting /\ input' = NoInput /\ supervisor' = "INITIALIZING"

-----------------------------------------------------------------------------
(* ConnectivityComponent *)

Observed(wifiUp, mqttUp, isConfigured) ==
  CASE ~wifiUp ->
         [state |-> "OFFLINE", health |-> "Degraded", faultCode |-> "wifi_disconnected"]
    [] wifiUp /\ ~isConfigured ->
         [state |-> "WIFI_ONLY", health |-> "Degraded", faultCode |-> "mqtt_not_configured"]
    [] wifiUp /\ isConfigured /\ ~mqttUp ->
         [state |-> "WIFI_ONLY", health |-> "Degraded", faultCode |-> "mqtt_disconnected"]
    [] OTHER ->
         [state |-> "ONLINE", health |-> "Ok", faultCode |-> ""]

sample(wifiUp, mqttUp, isConfigured) ==
  /\ connectivity' = Observed(wifiUp, mqttUp, isConfigured)
  /\ UNCHANGED <<input, supervisor>>

-----------------------------------------------------------------------------
(* VirtualInputComponent *)

setValue    == input' = [health |-> "Ok", hasValue |-> TRUE]
injectFault == input' = [input EXCEPT !.health = "Fault"]
recover     == input' = [input EXCEPT !.health = IF input.hasValue THEN "Ok" ELSE "Disabled"]
disable     == input' = NoInput

ChangeInput == /\ setValue \/ injectFault \/ recover \/ disable
               /\ UNCHANGED <<connectivity, supervisor>>

-----------------------------------------------------------------------------
(* Supervisor *)

\* Faults: a state stateName() does not know; no way from FAULT to DEGRADED.
SupervisorTransitionsMisspelt ==
  {<<"INITIALIZING", "AllHealthy", "RUNNING">>, <<"INITIALIZING", "Degraded", "DEGRADE">>,
   <<"INITIALIZING", "Fault", "FAULT">>}
SupervisorTransitionsOneWay ==
  {<<"INITIALIZING", "AllHealthy", "RUNNING">>, <<"INITIALIZING", "Degraded", "DEGRADED">>,
   <<"INITIALIZING", "Fault", "FAULT">>,
   <<"RUNNING", "Degraded", "DEGRADED">>,       <<"RUNNING", "Fault", "FAULT">>,
   <<"DEGRADED", "AllHealthy", "RUNNING">>,     <<"DEGRADED", "Fault", "FAULT">>,
   <<"FAULT", "AllHealthy", "RUNNING">>}

\* configureTransitions(), as <<from, event, to>>.
SupervisorTransitions ==
  {<<"INITIALIZING", "AllHealthy", "RUNNING">>, <<"INITIALIZING", "Degraded", "DEGRADED">>,
   <<"INITIALIZING", "Fault", "FAULT">>,
   <<"RUNNING", "Degraded", "DEGRADED">>,       <<"RUNNING", "Fault", "FAULT">>,
   <<"DEGRADED", "AllHealthy", "RUNNING">>,     <<"DEGRADED", "Fault", "FAULT">>,
   <<"FAULT", "AllHealthy", "RUNNING">>,        <<"FAULT", "Degraded", "DEGRADED">>}

\* countHealth() over the registry, and requestState(): one fault outweighs any
\* degradation, and what is disabled does not count.
Aggregate ==
  LET healths == {connectivity.health, input.health}
  IN  CASE "Fault" \in healths -> "Fault"
        [] "Fault" \notin healths /\ healths \cap {"Degraded", "Recovering"} # {} -> "Degraded"
        [] OTHER -> "AllHealthy"

evaluate ==
  LET targets == {t[3] : t \in {u \in SupervisorTransitions :
                                  u[1] = supervisor /\ u[2] = Aggregate}}
  IN  /\ supervisor' \in IF targets = {} THEN {supervisor} ELSE targets
      /\ UNCHANGED <<connectivity, input>>
=============================================================================
