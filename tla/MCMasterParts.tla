----------------------------- MODULE MCMasterParts -----------------------------
(***************************************************************************)
(* Small instances of parts of the Master that have no state in common (a  *)
(* camera's monitoring, the command center, AWS, the firewall policy),     *)
(* side by side: a behaviour is one of one part, and the others rest in    *)
(* their initial states.                                                   *)
(***************************************************************************)
EXTENDS CctvMonitor, CommandCenter, AwsMonitor, FirewallMaster

CONSTANTS c1, p1, p2, k1, k2, t1, t2, r1, r2, i1, x, y, a1, a2

VARIABLE part   \* the part that runs

TwoBehaviours ==
  LET B(tcp, options, digest, anew) ==
        [tcp |-> tcp, login |-> TRUE, options |-> options, digest |-> digest,
         again |-> "error", anew |-> anew]
  IN  {B(FALSE, "error", FALSE, "error"), B(TRUE, "401", TRUE, "200")}

ThreePolicies ==
  LET P(telemetry, scan, severity) ==
        [telemetry |-> telemetry, scan |-> scan, severity |-> severity, frozen |-> FALSE]
  IN  {P(5, 60, Absent), P(300, 61, Absent), P(Absent, Null, "severity")}

OneInstance == [i \in {i1} |-> r1]

-----------------------------------------------------------------------------
Init ==
  /\ part \in {"camera", "commands", "aws", "policy"}
  /\ CctvInit /\ (part # "camera" => \A p \in Endpoints : ~world[p].tcp)
  /\ CommandInit /\ (part # "commands" => online /\ paired)
  /\ AwsInit /\ MasterInit

Next ==
  /\ \/ part = "camera" /\ CctvNext /\ UNCHANGED <<commandVars, awsVars, recordVars>>
     \/ part = "commands" /\ CommandNext /\ UNCHANGED <<cctvVars, awsVars, recordVars>>
     \/ part = "aws" /\ AwsNext /\ UNCHANGED <<cctvVars, commandVars, recordVars>>
     \/ part = "policy" /\ MasterNext /\ UNCHANGED <<cctvVars, commandVars, awsVars>>
  /\ UNCHANGED part

vars == <<part, cctvVars, commandVars, awsVars, recordVars>>

\* The fairness of CctvSpec, when the camera's is the part that runs.
Fairness ==
  /\ WF_cctvVars(part = "camera" /\ UpdateWrites)
  /\ WF_cctvVars(part = "camera" /\ ReadCamera(Poller))
  /\ \A t \in Threads : WF_cctvVars(part = "camera" /\ Conclude(t))

Spec == Init /\ [][Next]_vars /\ Fairness

-----------------------------------------------------------------------------
\* The part that runs is in a state of its type.
PartsTypeOK ==
  CASE part = "camera" -> CctvTypeOK
    [] part = "commands" -> CommandTypeOK
    [] part = "aws" -> AwsTypeOK
    [] part = "policy" -> MasterTypeOK
=============================================================================
