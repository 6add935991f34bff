----------------------------- MODULE MCClientParts -----------------------------
(***************************************************************************)
(* Small instances of parts of the client that have no state in common     *)
(* (the uplink of events and telemetry, the event collector's scans, the   *)
(* discovery of the Master, the firewall agent that may be sent any        *)
(* policy, the agent with its block server's connections), side by side: a *)
(* behaviour is one of one part, and the others rest in an initial state.  *)
(***************************************************************************)
EXTENDS EventUplink, AppMonitor, MasterDiscovery, BlockedAttempts

CONSTANTS a, b, n1, n2, browser, tool, game, ProductA, ProductB

VARIABLE part   \* the part that runs

\* A known browser; one executable name of three programs, two users' with
\* product names of their own and one of the system's; and a game.
FivePrograms ==
  LET P(exe, known, others, product) ==
        [exe |-> exe, known |-> known, ignored |-> FALSE, service |-> FALSE,
         system |-> others, sysdir |-> FALSE, worker |-> FALSE, product |-> product]
  IN  {P(browser, TRUE, FALSE, Undeclared), P(game, FALSE, FALSE, Undeclared),
       P(tool, FALSE, TRUE, Undeclared), P(tool, FALSE, FALSE, ProductA),
       P(tool, FALSE, FALSE, ProductB)}

\* Names under "x", and one stored with a "www" because two were entered.
TwoNames == {<<"x">>, <<"www", "y">>}
EnteredNames == {<<"www", "x">>, <<"www", "www", "y">>}
AskedNames == {<<"x">>, <<"www", "x">>, <<"s", "x">>, <<"y">>, <<"localhost">>}
LoopbackNames == {<<"localhost">>}

\* With the connections, the policy is one of two and system calls do not fail.
OnOrOff == {[enabled |-> TRUE, version |-> 1, domains |-> TwoNames],
            [enabled |-> FALSE, version |-> 0, domains |-> {<<"x">>}]}

-----------------------------------------------------------------------------
Init ==
  /\ part \in {"uplink", "collector", "discovery", "firewall", "attempts"}
  /\ UplinkInit
  /\ MonitorInit /\ (part # "collector" => platform = "windows")
  /\ DiscoveryInit
  /\ part # "discovery" => home = Nothing /\ pinned = Nothing /\ setting.kind = "none"
  /\ AgentInit /\ AttemptsInit

Next ==
  /\ \/ part = "uplink" /\ UplinkNext /\ UNCHANGED <<monitorVars, discoveryVars, agentVars, attemptVars>>
     \/ part = "collector" /\ MonitorNext /\ UNCHANGED <<uplinkVars, discoveryVars, agentVars, attemptVars>>
     \/ part = "discovery" /\ DiscoveryNext /\ UNCHANGED <<uplinkVars, monitorVars, agentVars, attemptVars>>
     \/ /\ part = "firewall" /\ AgentNext
        /\ UNCHANGED <<uplinkVars, monitorVars, discoveryVars, attemptVars>>
     \/ /\ part = "attempts" /\ AttemptsNext
        /\ faults' = faults /\ current' \in {current, Default} \cup OnOrOff
        /\ UNCHANGED <<uplinkVars, monitorVars, discoveryVars>>
  /\ UNCHANGED part

vars == <<part, uplinkVars, monitorVars, discoveryVars, agentVars, attemptVars>>

\* UplinkFairness and DiscoveryFairness, each when its part runs.
Fairness ==
  /\ WF_uplinkVars(part = "uplink" /\ ScanApps)
  /\ WF_uplinkVars(part = "uplink" /\ SampleTelemetry)
  /\ \A w \in Workers : WF_uplinkVars(part = "uplink" /\ WorkerStep(w))
  /\ \A r \in Requests : WF_uplinkVars(part = "uplink" /\ MasterStep(r))
  /\ WF_discoveryVars(part = "discovery" /\ Step)

Spec == Init /\ [][Next]_vars /\ Fairness

-----------------------------------------------------------------------------
\* The part that runs is in a state of its type.
PartsTypeOK ==
  CASE part = "uplink" -> UplinkTypeOK
    [] part = "collector" -> MonitorTypeOK
    [] part = "discovery" -> DiscoveryTypeOK
    [] part = "firewall" -> AgentTypeOK
    [] part = "attempts" -> AgentTypeOK /\ AttemptsTypeOK
=============================================================================
