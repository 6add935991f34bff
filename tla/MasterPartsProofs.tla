-------------------------- MODULE MasterPartsProofs --------------------------
(***************************************************************************)
(* Proofs about the parts of the Master that MCMasterParts runs beside the *)
(* firewall policy: the command center, the AWS monitoring and the         *)
(* monitoring of a camera; each for any number of concurrent requests and  *)
(* any number of mishaps.  At the end, with what FirewallMasterProofs says *)
(* of the policy, the four are put side by side as MCMasterParts has them. *)
(***************************************************************************)
EXTENDS MCMasterParts, FirewallMasterProofs, FiniteSetTheorems, TLAPS

(***************************************************************************)
(* The command center.                                                     *)
(***************************************************************************)
AuditEntries == {"REFUSED", "REJECTED", "COMPLETED", "FAILED", "ERROR"}
IsUpdate(c) == command[c].type = "UPDATE_MONITORING_POLICY"
Ends(c) == command[c].type = "REAUTHENTICATE_AGENT"

\* Only a policy has parameters; what the Master found fine of it is what is
\* recorded as completed.
Judged(c) ==
  /\ command[c].type # "UPDATE_MONITORING_POLICY" => command[c].params = NoParameters
  /\ IsUpdate(c) /\ (does[c] \in {"complete", "auditCompleted"} \/ row[c] = "COMPLETED") =>
       MasterVerdict(command[c].params) = "fine"
  /\ does[c] \in {"fail", "auditFailed"} => IsUpdate(c)

\* How far the record is at each stage of a request.
Recorded(c) ==
  /\ does[c] \in {"idle", "read", "reject", "pending", "auditRefused"} => row[c] = "none"
  /\ does[c] \in {"dispatch", "complete", "fail"} => row[c] = "PENDING"
  /\ does[c] = "auditRejected" => row[c] = "REJECTED"
  /\ does[c] = "auditCompleted" => row[c] = "COMPLETED"
  /\ does[c] \in {"auditFailed", "auditError"} => row[c] = "FAILED"
  /\ does[c] = "error" => row[c] \in {"PENDING", "COMPLETED", "FAILED"}

\* The audit log is written once, last, and agrees with the record; a request that
\* ends without an entry is one that raised or died, or has left no record.
Audited(c) ==
  /\ does[c] # "done" => audit[c] = <<>>
  /\ \/ audit[c] = <<>>
     \/ audit[c] = <<"REFUSED">> /\ row[c] = "none"
     \/ audit[c] = <<"ERROR">> /\ row[c] = "FAILED"
     \/ audit[c] = <<row[c]>> /\ row[c] \in {"REJECTED", "COMPLETED", "FAILED"}
  /\ does[c] = "done" /\ audit[c] = <<>> => row[c] = "none" \/ c \in broken

\* A session is ended at the dispatch, and the outcome of that request is never a
\* refused policy's.
Ended(c) ==
  /\ c \in revoking => /\ Ends(c)
                       /\ row[c] \in {"PENDING", "COMPLETED", "FAILED"}
                       /\ audit[c] # <<"FAILED">>
                       /\ does[c] \in {"complete", "auditCompleted", "error", "auditError", "done"}
  /\ Ends(c) /\ (does[c] \in {"complete", "auditCompleted"} \/ row[c] = "COMPLETED") => c \in revoking

CommandInv == CommandTypeOK /\ \A c \in Commands : Judged(c) /\ Recorded(c) /\ Audited(c) /\ Ended(c)

LEMMA NoParametersType == NoParameters \in Policy
  BY DEF NoParameters, Policy, Values, Severities

LEMMA CommandInitInv == CommandInit => CommandInv
<1> SUFFICES ASSUME CommandInit PROVE CommandInv
  OBVIOUS
<1>1. NoCommand \in [type : Allowed \cup {"none"}, params : Policy] /\ NoCommand.type = "none"
      /\ NoCommand.params = NoParameters
  BY NoParametersType DEF NoCommand
<1>2. CommandTypeOK
  <2>1. online \in BOOLEAN /\ paired \in BOOLEAN  BY DEF CommandInit
  <2>2. does \in [Commands -> CommandStages]  BY DEF CommandInit, CommandStages
  <2>3. command \in [Commands -> [type : Allowed \cup {"none"}, params : Policy]]
    BY <1>1 DEF CommandInit
  <2>4. row \in [Commands -> {"none", "REJECTED", "PENDING", "COMPLETED", "FAILED"}]
    BY DEF CommandInit
  <2>5. audit \in [Commands -> Seq({Entry[e] : e \in DOMAIN Entry})]  BY DEF CommandInit
  <2>6. intervals.telemetry \in TelemetrySafe /\ intervals.scan \in ScanSafe
    BY DEF CommandInit, Defaults, TelemetrySafe, ScanSafe
  <2>7. revoking \subseteq Commands /\ broken \subseteq Commands /\ mishaps \in 0..MaxMishaps
    BY CommandAssumption DEF CommandInit
  <2> QED  BY <2>1, <2>2, <2>3, <2>4, <2>5, <2>6, <2>7 DEF CommandTypeOK
<1>3. ASSUME NEW c \in Commands PROVE Judged(c) /\ Recorded(c) /\ Audited(c) /\ Ended(c)
  BY <1>1 DEF CommandInit, Judged, Recorded, Audited, Ended, IsUpdate, Ends
<1> QED  BY <1>2, <1>3 DEF CommandInv

\* The intervals of the client stay in the ranges it accepts.
LEMMA ClientSetsType ==
  ASSUME NEW p \in Policy, NEW now, now.telemetry \in TelemetrySafe, now.scan \in ScanSafe
  PROVE  /\ ClientSets(p, now).telemetry \in TelemetrySafe
         /\ ClientSets(p, now).scan \in ScanSafe
  BY CommandAssumption DEF ClientSets, ClientTakes, Policy, Values

LEMMA ClientHandlesType ==
  ASSUME NEW type, NEW p \in Policy, NEW now, now.telemetry \in TelemetrySafe, now.scan \in ScanSafe
  PROVE  /\ ClientHandles(type, p, now).telemetry \in TelemetrySafe
         /\ ClientHandles(type, p, now).scan \in ScanSafe
  BY ClientSetsType DEF ClientHandles

\* What the log says at each stage that writes to it.
LEMMA EntryValues ==
  /\ DOMAIN Entry = {"auditRefused", "auditRejected", "auditCompleted", "auditFailed", "auditError"}
  /\ Entry["auditRefused"] = "REFUSED" /\ Entry["auditRejected"] = "REJECTED"
  /\ Entry["auditCompleted"] = "COMPLETED" /\ Entry["auditFailed"] = "FAILED"
  /\ Entry["auditError"] = "ERROR"
  BY DEF Entry

\* The first parameter that is not fine decides, so that with the verdict "fine" every
\* parameter is.
LEMMA FineInEveryPart ==
  ASSUME NEW p \in Policy, MasterVerdict(p) = "fine"
  PROVE  /\ ~p.frozen
         /\ MasterCheck(p.telemetry, TelemetrySafe) = "fine"
         /\ MasterCheck(p.scan, ScanSafe) = "fine"
         /\ p.severity \in {Absent, "severity"}
<1> DEFINE checks == << IF p.frozen THEN "refused" ELSE "fine",
                        MasterCheck(p.telemetry, TelemetrySafe), MasterCheck(p.scan, ScanSafe),
                        IF p.severity \in {Absent, "severity"} THEN "fine" ELSE "refused" >>
           wrong == {i \in DOMAIN checks : checks[i] # "fine"}
           Leads(i) == i \in wrong /\ \A j \in wrong : i <= j
<1>1. DOMAIN checks = 1..4
  OBVIOUS
<1>2. ASSUME wrong # {} PROVE FALSE
  <2>1. wrong \subseteq 1..4
    BY <1>1
  <2>2. \E i \in wrong : \A j \in wrong : i <= j
    <3>1. CASE 1 \in wrong  BY <2>1, <3>1
    <3>2. CASE 1 \notin wrong /\ 2 \in wrong  BY <2>1, <3>2
    <3>3. CASE 1 \notin wrong /\ 2 \notin wrong /\ 3 \in wrong  BY <2>1, <3>3
    <3>4. CASE wrong \subseteq {4}  BY <1>2, <3>4
    <3> QED  BY <2>1, <3>1, <3>2, <3>3, <3>4
  <2>3. MasterVerdict(p) = checks[CHOOSE i \in wrong : \A j \in wrong : i <= j]
    BY <1>2, Zenon DEF MasterVerdict
  <2> DEFINE k == CHOOSE i \in wrong : \A j \in wrong : i <= j
  <2>4. k \in wrong
    BY <2>2, Zenon
  <2> QED  BY <2>3, <2>4
<1>3. \A i \in 1..4 : checks[i] = "fine"
  BY <1>1, <1>2
<1>4. checks[1] = "fine" /\ checks[2] = "fine" /\ checks[3] = "fine" /\ checks[4] = "fine"
  BY <1>3
<1> QED  BY <1>4

\* The two validations agree on what is put in force: the client would take all of a
\* policy that the Master finds fine.
LEMMA FineIsHonoured ==
  ASSUME NEW p \in Policy, MasterVerdict(p) = "fine" \/ p = NoParameters
  PROVE  Honoured(p)
<1>1. ASSUME NEW q \in Values, NEW safe \in {TelemetrySafe, ScanSafe}, MasterCheck(q, safe) = "fine"
      PROVE  q \in safe \cup {Absent}
  BY <1>1 DEF MasterCheck
<1>2. /\ ~p.frozen /\ p.severity \in {Absent, "severity"}
      /\ p.telemetry \in TelemetrySafe \cup {Absent} /\ p.scan \in ScanSafe \cup {Absent}
  <2>1. CASE MasterVerdict(p) = "fine"
    BY <1>1, <2>1, FineInEveryPart DEF Policy
  <2>2. CASE p = NoParameters
    BY <2>2 DEF NoParameters
  <2> QED  BY <2>1, <2>2
<1>3. TelemetrySafe \subseteq Nat /\ ScanSafe \subseteq Nat
  BY DEF TelemetrySafe, ScanSafe
<1>4. ClientAccepts(p)
  <2>1. p.severity # "other"
    BY <1>2, CommandAssumption DEF Policy, Severities
  <2> QED  BY <1>2, <2>1 DEF ClientAccepts, ClientTakes
<1> QED  BY <1>2, <1>3, <1>4, CommandAssumption DEF Honoured, ClientAccepts, ClientSets

-----------------------------------------------------------------------------
LEMMA CommandMishap == ASSUME CommandTypeOK, Mishap PROVE mishaps' \in 0..MaxMishaps
  BY CommandAssumption DEF CommandTypeOK, Mishap

\* Every step of a request, of the device, of the client or of the process keeps the
\* types.
LEMMA CommandNextType == CommandTypeOK /\ [CommandNext]_commandVars => CommandTypeOK'
<1> SUFFICES ASSUME CommandTypeOK, [CommandNext]_commandVars PROVE CommandTypeOK'
  OBVIOUS
<1> USE DEF CommandTypeOK, deviceState, records
<1>1. CASE UNCHANGED commandVars
  BY <1>1 DEF commandVars
<1>2. ASSUME NEW c \in Commands, AskFor(c) PROVE CommandTypeOK'
  <2>1. PICK type \in Types, p \in Policies \cup {NoParameters} :
          IF Admissible(type, p)
          THEN /\ Go(c, "idle", "read")
               /\ command' = [command EXCEPT ![c] = [type |-> type, params |-> p]]
          ELSE /\ Go(c, "idle", IF type \in Allowed THEN "done" ELSE "auditRefused")
               /\ UNCHANGED command
    BY <1>2 DEF AskFor
  <2>2. p \in Policy
    BY CommandAssumption, NoParametersType
  <2>3. does' \in [Commands -> CommandStages]
    BY <2>1, EntryValues DEF Go, CommandStages
  <2>4. command' \in [Commands -> [type : Allowed \cup {"none"}, params : Policy]]
    BY <2>1, <2>2 DEF Admissible
  <2> QED  BY <1>2, <2>3, <2>4 DEF AskFor
<1>3. ASSUME NEW c \in Commands, ReadPresence(c) PROVE CommandTypeOK'
  <2>1. does' \in [Commands -> CommandStages]
    BY <1>3 DEF ReadPresence, Go, CommandStages
  <2> QED  BY <1>3, <2>1 DEF ReadPresence
<1>4. ASSUME NEW c \in Commands, NEW from,
             NEW status \in {"REJECTED", "PENDING", "COMPLETED", "FAILED"},
             NEW to \in CommandStages, Record(c, from, status, to)
      PROVE  CommandTypeOK'
  BY <1>4 DEF Record, Go
<1>5. ASSUME NEW c \in Commands, Dispatch(c) PROVE CommandTypeOK'
  <2>1. does' \in [Commands -> CommandStages]
    BY <1>5 DEF Dispatch, Go, CommandStages
  <2>2. online' \in BOOLEAN /\ paired' \in BOOLEAN
    BY <1>5, Zenon DEF Dispatch
  <2>3. revoking' \subseteq Commands
    BY <1>5 DEF Dispatch
  <2>4. UNCHANGED <<command, row, audit, broken, intervals, mishaps>>
    BY <1>5 DEF Dispatch
  <2> QED  BY <2>1, <2>2, <2>3, <2>4
<1>6. ASSUME NEW c \in Commands, LogAudit(c) PROVE CommandTypeOK'
  <2>1. audit' \in [Commands -> Seq({Entry[e] : e \in DOMAIN Entry})]
    BY <1>6 DEF LogAudit
  <2>2. does' \in [Commands -> CommandStages]
    BY <1>6 DEF LogAudit, Go, CommandStages
  <2> QED  BY <1>6, <2>1, <2>2 DEF LogAudit
<1>7. ASSUME NEW c \in Commands, DatabaseFails(c) PROVE CommandTypeOK'
  <2>1. does' \in [Commands -> CommandStages]
    BY <1>7 DEF DatabaseFails, CommandStages
  <2> QED  BY <1>7, <2>1, CommandMishap DEF DatabaseFails
<1>8. CASE DeviceChanges
  <2>1. online' \in BOOLEAN /\ paired' \in BOOLEAN
    BY <1>8, Zenon DEF DeviceChanges
  <2> QED  BY <1>8, <2>1, CommandMishap DEF DeviceChanges
<1>9. CASE MasterCrashes
  <2>1. does' \in [Commands -> CommandStages]
    BY <1>9 DEF MasterCrashes, CommandStages
  <2> QED  BY <1>9, <2>1, CommandMishap DEF MasterCrashes
<1>10. CASE LocalCommand
  <2>1. PICK type \in Types, p \in Policies \cup {NoParameters} :
          intervals' = ClientHandles(type, p, intervals)
    BY <1>10 DEF LocalCommand
  <2>2. p \in Policy
    BY CommandAssumption, NoParametersType
  <2>3. intervals'.telemetry \in TelemetrySafe /\ intervals'.scan \in ScanSafe
    BY <2>1, <2>2, ClientHandlesType
  <2> QED  BY <1>10, <2>3, CommandMishap DEF LocalCommand
<1>11. CASE ClientRestart
  <2>1. intervals'.telemetry = 60 /\ intervals'.scan = 5
    BY <1>11 DEF ClientRestart, Defaults
  <2>2. 60 \in TelemetrySafe /\ 5 \in ScanSafe
    BY DEF TelemetrySafe, ScanSafe
  <2> QED  BY <1>11, <2>1, <2>2, CommandMishap DEF ClientRestart
<1> QED
  BY <1>1, <1>2, <1>3, <1>4, <1>5, <1>6, <1>7, <1>8, <1>9, <1>10, <1>11, EntryValues
     DEF CommandNext, Execute, CommandStages

\* What is known of one command.
Known(c) == Judged(c) /\ Recorded(c) /\ Audited(c) /\ Ended(c)
Same(c) == UNCHANGED <<does[c], command[c], row[c], audit[c], c \in revoking>>

\* It goes on to hold while nothing of the command changes but that it may turn out
\* broken.
LEMMA SameKnown ==
  ASSUME NEW c \in Commands, Known(c), Same(c), c \in broken => c \in broken'
  PROVE  Known(c)'
  BY DEF Known, Same, Judged, Recorded, Audited, Ended, IsUpdate, Ends

\* A request touches its own command only.
LEMMA OthersSame ==
  ASSUME CommandTypeOK, NEW k \in Commands, AskFor(k) \/ Execute(k) \/ DatabaseFails(k),
         NEW c \in Commands, c # k
  PROVE  Same(c) /\ (c \in broken => c \in broken')
<1> USE DEF CommandTypeOK, Same, deviceState, records
<1>1. CASE AskFor(k)  BY <1>1 DEF AskFor, Go
<1>2. CASE ReadPresence(k)  BY <1>2 DEF ReadPresence, Go
<1>3. CASE Dispatch(k)  BY <1>3 DEF Dispatch, Go
<1>4. CASE LogAudit(k)  BY <1>4 DEF LogAudit, Go
<1>5. ASSUME NEW from, NEW status, NEW to, Record(k, from, status, to)
      PROVE  Same(c) /\ (c \in broken => c \in broken')
  BY <1>5 DEF Record, Go
<1>6. CASE DatabaseFails(k)  BY <1>6 DEF DatabaseFails
<1> QED  BY <1>1, <1>2, <1>3, <1>4, <1>5, <1>6 DEF Execute

\* What each step of a request leaves known of its command: asking for it ...
LEMMA AskForKnown == ASSUME CommandTypeOK, NEW c \in Commands, Known(c), AskFor(c) PROVE Known(c)'
<1>1. PICK type \in Types, p \in Policies \cup {NoParameters} :
        IF Admissible(type, p)
        THEN /\ Go(c, "idle", "read")
             /\ command' = [command EXCEPT ![c] = [type |-> type, params |-> p]]
        ELSE /\ Go(c, "idle", IF type \in Allowed THEN "done" ELSE "auditRefused")
             /\ UNCHANGED command
  BY DEF AskFor
<1>2. does[c] = "idle" /\ UNCHANGED records
  BY <1>1 DEF AskFor, Go
<1>3. row[c] = "none" /\ audit[c] = <<>> /\ c \notin revoking
  BY <1>2 DEF Known, Recorded, Audited, Ended
<1>4. does'[c] \in {"read", "done", "auditRefused"}
  BY <1>1 DEF Go, CommandTypeOK
<1>5. command'[c].type # "UPDATE_MONITORING_POLICY" => command'[c].params = NoParameters
  BY <1>1 DEF CommandTypeOK, Admissible, Known, Judged
<1> QED  BY <1>2, <1>3, <1>4, <1>5 DEF Known, Judged, Recorded, Audited, Ended, IsUpdate, Ends, records

\* ... reading the presence ...
LEMMA ReadPresenceKnown ==
  ASSUME CommandTypeOK, NEW c \in Commands, Known(c), ReadPresence(c) PROVE Known(c)'
<1>1. does[c] = "read" /\ does'[c] \in {"pending", "reject"} /\ UNCHANGED <<command, records>>
  BY DEF ReadPresence, Go, CommandTypeOK
<1> QED  BY <1>1 DEF Known, Judged, Recorded, Audited, Ended, IsUpdate, Ends, records

\* ... recording the status of each stage ...
LEMMA RecordKnown ==
  ASSUME CommandTypeOK, NEW c \in Commands, Known(c),
         \/ Record(c, "reject", "REJECTED", "auditRejected")
         \/ Record(c, "pending", "PENDING", "dispatch")
         \/ Record(c, "complete", "COMPLETED", "auditCompleted")
         \/ Record(c, "fail", "FAILED", "auditFailed")
         \/ Record(c, "error", "FAILED", "auditError")
  PROVE  Known(c)'
<1>1. UNCHANGED <<command, audit, revoking, broken>>
  BY DEF Record
<1>2. \/ does[c] = "reject" /\ does'[c] = "auditRejected" /\ row'[c] = "REJECTED"
      \/ does[c] = "pending" /\ does'[c] = "dispatch" /\ row'[c] = "PENDING"
      \/ does[c] = "complete" /\ does'[c] = "auditCompleted" /\ row'[c] = "COMPLETED"
      \/ does[c] = "fail" /\ does'[c] = "auditFailed" /\ row'[c] = "FAILED"
      \/ does[c] = "error" /\ does'[c] = "auditError" /\ row'[c] = "FAILED"
  BY DEF Record, Go, CommandTypeOK
<1> QED  BY <1>1, <1>2 DEF Known, Judged, Recorded, Audited, Ended, IsUpdate, Ends

\* ... carrying the command out ...
LEMMA DispatchKnown ==
  ASSUME CommandTypeOK, NEW c \in Commands, Known(c), Dispatch(c) PROVE Known(c)'
<1>1. /\ does[c] = "dispatch" /\ UNCHANGED <<command, row, audit, broken>>
      /\ IF IsUpdate(c)
         THEN does'[c] = CASE MasterVerdict(command[c].params) = "fine" -> "complete"
                           [] MasterVerdict(command[c].params) = "refused" -> "fail"
                           [] OTHER -> "error"
         ELSE does'[c] = "complete"
      /\ IF Ends(c) THEN revoking' = revoking \cup {c} ELSE revoking' = revoking
  BY DEF Dispatch, Go, CommandTypeOK, IsUpdate, Ends
<1>2. does'[c] \in {"complete", "fail", "error"}
  BY <1>1
<1>3. does'[c] = "complete" /\ IsUpdate(c) => MasterVerdict(command[c].params) = "fine"
  BY <1>1
<1>4. does'[c] # "complete" => IsUpdate(c)
  BY <1>1
<1>5. Ends(c) => ~IsUpdate(c)
  BY DEF Ends, IsUpdate
<1>6. row[c] = "PENDING" /\ audit[c] = <<>> /\ c \notin revoking
  BY <1>1 DEF Known, Recorded, Audited, Ended
<1> QED  BY <1>1, <1>2, <1>3, <1>4, <1>5, <1>6
         DEF Known, Judged, Recorded, Audited, Ended, IsUpdate, Ends

\* ... writing the audit log ...
LEMMA LogAuditKnown ==
  ASSUME CommandTypeOK, NEW c \in Commands, Known(c), LogAudit(c) PROVE Known(c)'
<1>1. /\ does[c] \in DOMAIN Entry /\ does'[c] = "done"
      /\ UNCHANGED <<command, row, revoking, broken>>
      /\ audit'[c] = Append(audit[c], Entry[does[c]])
  BY DEF LogAudit, Go, CommandTypeOK
<1>2. audit[c] = <<>>
  BY <1>1, EntryValues DEF Known, Audited
<1>3. audit'[c] = <<Entry[does[c]]>>
  BY <1>1, <1>2
<1>4. \/ does[c] = "auditRefused" /\ audit'[c] = <<"REFUSED">>
      \/ does[c] = "auditRejected" /\ audit'[c] = <<"REJECTED">>
      \/ does[c] = "auditCompleted" /\ audit'[c] = <<"COMPLETED">>
      \/ does[c] = "auditFailed" /\ audit'[c] = <<"FAILED">>
      \/ does[c] = "auditError" /\ audit'[c] = <<"ERROR">>
  BY <1>1, <1>3, EntryValues
<1>5. does[c] = "auditFailed" => c \notin revoking
  BY DEF Known, Ended
<1>6. "FAILED" # "ERROR" /\ "FAILED" # "REJECTED" /\ "FAILED" # "REFUSED" /\ "FAILED" # "COMPLETED"
  OBVIOUS
<1>7. /\ Judged(c)' /\ Recorded(c)'
  BY <1>1, <1>2, <1>4 DEF Known, Judged, Recorded, IsUpdate
<1>8. Audited(c)'
  <2>1. does'[c] = "done" /\ row'[c] = row[c] /\ audit'[c] # <<>>
    BY <1>1, <1>4
  <2>2. \/ audit'[c] = <<"REFUSED">> /\ row[c] = "none"
        \/ audit'[c] = <<"ERROR">> /\ row[c] = "FAILED"
        \/ audit'[c] = <<row[c]>> /\ row[c] \in {"REJECTED", "COMPLETED", "FAILED"}
    BY <1>4 DEF Known, Recorded
  <2> QED  BY <2>1, <2>2 DEF Audited
<1>9. Ended(c)'
  BY <1>1, <1>4, <1>5, <1>6 DEF Known, Ended, Ends, Recorded
<1> QED  BY <1>7, <1>8, <1>9 DEF Known

\* ... and a database error.
LEMMA DatabaseFailsKnown ==
  ASSUME CommandTypeOK, NEW c \in Commands, Known(c), DatabaseFails(c) PROVE Known(c)'
<1>1. does[c] \notin {"idle", "done"} /\ UNCHANGED <<command, row, audit, revoking>>
  BY DEF DatabaseFails
<1>2. \/ does[c] \in Caught /\ does'[c] = "error" /\ broken' = broken
      \/ does[c] \notin Caught /\ does'[c] = "done" /\ c \in broken'
  BY DEF DatabaseFails, CommandTypeOK
<1>3. CASE does[c] \in Caught
  BY <1>1, <1>2, <1>3 DEF Known, Judged, Recorded, Audited, Ended, IsUpdate, Ends, Caught
<1>4. CASE does[c] \notin Caught
  BY <1>1, <1>2, <1>4 DEF Known, Judged, Recorded, Audited, Ended, IsUpdate, Ends, Caught
<1> QED  BY <1>3, <1>4

\* What ends a request in its middle: a crash of the process.
LEMMA CrashKnown ==
  ASSUME CommandTypeOK, NEW c \in Commands, Known(c), MasterCrashes PROVE Known(c)'
<1>1. UNCHANGED <<command, row, audit, revoking>> /\ (c \in broken => c \in broken')
  BY DEF MasterCrashes
<1>2. \/ does'[c] = does[c]
      \/ does'[c] = "done" /\ c \in broken'
  BY DEF MasterCrashes, CommandTypeOK
<1>3. CASE does'[c] = does[c]
  BY <1>1, <1>3, SameKnown DEF Same
<1>4. CASE does'[c] = "done" /\ c \in broken'
  BY <1>1, <1>4 DEF Known, Judged, Recorded, Audited, Ended, IsUpdate, Ends
<1> QED  BY <1>2, <1>3, <1>4

LEMMA CommandNextInv == CommandInv /\ [CommandNext]_commandVars => CommandInv'
<1> SUFFICES ASSUME CommandInv, [CommandNext]_commandVars PROVE CommandInv'
  OBVIOUS
<1>1. CommandTypeOK /\ CommandTypeOK'
  BY CommandNextType DEF CommandInv
<1> SUFFICES ASSUME NEW c \in Commands PROVE Known(c)'
  BY <1>1 DEF CommandInv, Known
<1>2. Known(c)
  BY DEF CommandInv, Known
<1>3. ASSUME NEW k \in Commands, AskFor(k) \/ Execute(k) \/ DatabaseFails(k) PROVE Known(c)'
  <2>1. CASE k # c
    BY <1>1, <1>2, <1>3, <2>1, OthersSame, SameKnown
  <2>2. CASE k = c
    BY <1>1, <1>2, <1>3, <2>2, AskForKnown, ReadPresenceKnown, RecordKnown, DispatchKnown,
       LogAuditKnown, DatabaseFailsKnown DEF Execute
  <2> QED  BY <2>1, <2>2
<1>4. CASE DeviceChanges \/ LocalCommand \/ ClientRestart \/ UNCHANGED commandVars
  <2>1. Same(c) /\ broken' = broken
    BY <1>4 DEF DeviceChanges, LocalCommand, ClientRestart, commandVars, records, Same
  <2> QED  BY <1>2, <2>1, SameKnown
<1>5. CASE MasterCrashes
  BY <1>1, <1>2, <1>5, CrashKnown
<1> QED  BY <1>3, <1>4, <1>5 DEF CommandNext

\* What is known of a command between its steps gives what the records must say.
LEMMA KnownTells == CommandInv => RecordTellsTheTruth
<1> SUFFICES ASSUME CommandInv, NEW c \in Commands
             PROVE  LET ends == command[c].type = "REAUTHENTICATE_AGENT"
                    IN  /\ Len(audit[c]) <= 1
                        /\ \A i \in DOMAIN audit[c] :
                             CASE audit[c][i] = "REFUSED" -> row[c] = "none"
                               [] audit[c][i] = "ERROR" -> row[c] = "FAILED"
                               [] OTHER -> row[c] = audit[c][i]
                        /\ does[c] = "done" /\ row[c] # "none" /\ c \notin broken =>
                             audit[c] # <<>> /\ row[c] # "PENDING"
                        /\ c \in revoking =>
                             ends /\ row[c] \notin {"none", "REJECTED"} /\ audit[c] # <<"FAILED">>
                        /\ ends /\ row[c] = "COMPLETED" => c \in revoking
                        /\ row[c] = "COMPLETED" => Honoured(command[c].params)
  BY Zenon DEF RecordTellsTheTruth
<1>1. CommandTypeOK /\ Judged(c) /\ Recorded(c) /\ Audited(c) /\ Ended(c)
  BY DEF CommandInv
<1>2. Len(audit[c]) <= 1
  <2>1. audit[c] = <<>> \/ \E e : audit[c] = <<e>>
    BY <1>1, Zenon DEF Audited
  <2>2. CASE audit[c] = <<>>
    BY <2>2
  <2>3. ASSUME NEW e, audit[c] = <<e>> PROVE Len(audit[c]) <= 1
    <3>1. Len(<<e>>) = 1
      OBVIOUS
    <3> QED  BY <2>3, <3>1
  <2> QED  BY <2>1, <2>2, <2>3
<1>3. ASSUME NEW i \in DOMAIN audit[c]
      PROVE  CASE audit[c][i] = "REFUSED" -> row[c] = "none"
               [] audit[c][i] = "ERROR" -> row[c] = "FAILED"
               [] OTHER -> row[c] = audit[c][i]
  <2>1. \/ audit[c][i] = "REFUSED" /\ row[c] = "none"
        \/ audit[c][i] = "ERROR" /\ row[c] = "FAILED"
        \/ audit[c][i] = row[c] /\ row[c] \in {"REJECTED", "COMPLETED", "FAILED"}
    BY <1>1 DEF Audited
  <2> QED  BY <2>1
<1>4. does[c] = "done" /\ row[c] # "none" /\ c \notin broken => audit[c] # <<>> /\ row[c] # "PENDING"
  <2>1. audit[c] # <<>> => row[c] # "PENDING"
    BY <1>1 DEF Audited
  <2>2. does[c] = "done" /\ audit[c] = <<>> => row[c] = "none" \/ c \in broken
    BY <1>1, Zenon DEF Audited
  <2> QED  BY <2>1, <2>2, Zenon
<1>5. row[c] = "COMPLETED" => Honoured(command[c].params)
  <2>1. command[c].params \in Policy
    BY <1>1 DEF CommandTypeOK
  <2> QED  BY <1>1, <2>1, FineIsHonoured DEF Judged, IsUpdate
<1> QED  BY <1>1, <1>2, <1>3, <1>4, <1>5 DEF Ended, Ends

\* The tables and the requests of the command center stay in their types, and what is
\* known of a command at each stage goes on to hold.
THEOREM CommandInvariance == CommandSpec => []CommandInv
<1> QED  BY CommandInitInv, CommandNextInv, PTL DEF CommandSpec

\* Whatever fails in between, the record of a command and the audit log agree, no
\* request returns with its command pending, and what is recorded as completed was
\* carried out and would be honoured by the client's own validation.
THEOREM RecordsTellTheTruth == CommandSpec => []RecordTellsTheTruth
<1> QED  BY CommandInvariance, KnownTells, PTL

(***************************************************************************)
(* The AWS monitoring.                                                     *)
(***************************************************************************)
PublicState == [mode : Modes, region : Regions, account : Accounts, status : AwsStatuses]
Outcomes == [status : AwsStatuses, account : Accounts]
Tasks == {"idle", "snapshot", "insert", "identity", "access", "status", "region", "describe", "save"}
Inventories == UNION {[ids -> {"initializing", "checked"}] : ids \in SUBSET Instances}
Findings == UNION {StatusChecks(ids) : ids \in SUBSET Instances}

AwsTyped ==
  /\ held \in [mode : Modes, region : Regions, account : Accounts, status : AwsStatuses,
                key : {"key", NoKey}]
  /\ held.mode = "env" => held.key = NoKey
  /\ saved \in PublicState
  /\ rows \in Inventories
  /\ task \in [AwsRequests -> Tasks]
  /\ session \in [AwsRequests -> Modes] /\ about \in [AwsRequests -> Regions]
  /\ outcome \in [AwsRequests -> Outcomes]
  /\ snapshot \in [AwsRequests -> PublicState]
  /\ found \in [AwsRequests -> Findings]
  /\ disturbed \in BOOLEAN /\ used \in 0..AwsChanges

\* Unless a save was overtaken or failed: a snapshot in hand is what is held, and a
\* difference of the newest row from what is held is some request's to save yet.
SavesFollow ==
  disturbed \/
    /\ \A t \in AwsRequests : task[t] = "insert" => snapshot[t] = Public(held)
    /\ saved = Public(held) \/ \E t \in AwsRequests : task[t] \in {"access", "status", "snapshot", "insert"}

AwsInv == AwsTyped /\ SavesFollow

\* Values the requests start from.
LEMMA AwsStartValues ==
  /\ Initial \in PublicState /\ Initial.region \in Regions
  /\ NoOutcome \in Outcomes /\ NoInstances \in Inventories /\ NoInstances \in Findings
<1>1. (CHOOSE r \in Regions : TRUE) \in Regions
  BY AwsAssumption, Zenon
<1>2. "Not Configured" \in AwsStatuses /\ "Connecting" \in AwsStatuses
  BY DEF AwsStatuses
<1>3. "env" \in Modes /\ NoKey \in Accounts
  BY DEF Modes, Accounts
<1>4. Initial \in PublicState /\ Initial.region \in Regions
  BY <1>1, <1>2, <1>3 DEF Initial, PublicState
<1>5. NoOutcome \in Outcomes
  BY <1>2, <1>3 DEF NoOutcome, Outcomes
<1>6. NoInstances \in [{} -> {"initializing", "checked"}] /\ {} \in SUBSET Instances
  BY DEF NoInstances
<1>7. NoInstances \in Inventories
  BY <1>6, Zenon DEF Inventories
<1>8. NoInstances \in StatusChecks({})
  BY Zenon DEF NoInstances, StatusChecks
<1>9. NoInstances \in Findings
  BY <1>6, <1>8, Zenon DEF Findings
<1> QED  BY <1>4, <1>5, <1>7, <1>9

\* What is saved is part of what is held, and is all that a restart brings back.
LEMMA PublicType ==
  /\ AwsTyped => Public(held) \in PublicState
  /\ \A p \in PublicState : \A k : Public(WithKey(p, k)) = p
<1>1. AwsTyped => Public(held) \in PublicState
  BY DEF AwsTyped, Public, PublicState
<1>2. ASSUME NEW p \in PublicState, NEW k PROVE Public(WithKey(p, k)) = p
  BY DEF WithKey, Public, PublicState
<1> QED  BY <1>1, <1>2

LEMMA AwsInitInv == AwsInit => AwsInv
<1> SUFFICES ASSUME AwsInit PROVE AwsInv
  OBVIOUS
<1>1. used \in 0..AwsChanges /\ disturbed \in BOOLEAN
  <2>1. used \in 0..AwsChanges  BY AwsAssumption DEF AwsInit
  <2>2. disturbed \in BOOLEAN  BY Zenon DEF AwsInit
  <2> QED  BY <2>1, <2>2
<1>2. Initial.mode = "env"
  BY DEF Initial
<1>3. held \in [mode : Modes, region : Regions, account : Accounts, status : AwsStatuses, key : {"key", NoKey}]
      /\ held.key = NoKey
  BY AwsStartValues DEF AwsInit, WithKey, PublicState
<1>4. "env" \in Modes /\ "idle" \in Tasks
  BY DEF Modes, Tasks
<1>5. /\ task \in [AwsRequests -> Tasks] /\ session \in [AwsRequests -> Modes]
      /\ about \in [AwsRequests -> Regions]
  BY <1>4, AwsStartValues DEF AwsInit
<1>6. /\ outcome \in [AwsRequests -> Outcomes] /\ snapshot \in [AwsRequests -> PublicState]
      /\ found \in [AwsRequests -> Findings] /\ rows \in Inventories /\ saved \in PublicState
  BY AwsStartValues DEF AwsInit
<1>7. AwsTyped
  BY <1>1, <1>3, <1>5, <1>6 DEF AwsTyped
<1>8. SavesFollow
  <2>1. Public(held) = Initial
    BY AwsStartValues, PublicType, Zenon DEF AwsInit
  <2>2. \A t \in AwsRequests : task[t] = "idle"
    BY DEF AwsInit
  <2> QED  BY <2>1, <2>2 DEF AwsInit, SavesFollow
<1> QED  BY <1>7, <1>8 DEF AwsInv

\* A request's turn moves that request only.
LEMMA TurnType ==
  ASSUME AwsTyped, NEW t \in AwsRequests, NEW from, NEW to \in Tasks, Turn(t, from, to)
  PROVE  /\ task' \in [AwsRequests -> Tasks] /\ task[t] = from /\ task'[t] = to
         /\ \A o \in AwsRequests \ {t} : task'[o] = task[o]
  BY DEF AwsTyped, Turn

\* A request that returns is idle, with its local variables as at the start.
LEMMA DoneType ==
  ASSUME AwsTyped, NEW t \in AwsRequests, NEW from, Done(t, from)
  PROVE  /\ task' \in [AwsRequests -> Tasks] /\ task[t] = from /\ task'[t] = "idle"
         /\ \A o \in AwsRequests \ {t} : task'[o] = task[o] /\ snapshot'[o] = snapshot[o]
         /\ session' \in [AwsRequests -> Modes] /\ about' \in [AwsRequests -> Regions]
         /\ outcome' \in [AwsRequests -> Outcomes] /\ snapshot' \in [AwsRequests -> PublicState]
         /\ found' \in [AwsRequests -> Findings]
<1>1. Turn(t, from, "idle") /\ "idle" \in Tasks
  BY DEF Done, Tasks
<1>2. session' \in [AwsRequests -> Modes]
  BY DEF Done, AwsTyped, Modes
<1>3. about' \in [AwsRequests -> Regions] /\ outcome' \in [AwsRequests -> Outcomes]
  BY AwsStartValues DEF Done, AwsTyped
<1>4. /\ snapshot' \in [AwsRequests -> PublicState]
      /\ \A o \in AwsRequests \ {t} : snapshot'[o] = snapshot[o]
  BY AwsStartValues DEF Done, AwsTyped
<1>5. found' \in [AwsRequests -> Findings]
  BY AwsStartValues DEF Done, AwsTyped
<1> QED  BY <1>1, <1>2, <1>3, <1>4, <1>5, TurnType

LEMMA UseCounted == ASSUME AwsTyped, Use PROVE used' \in 0..AwsChanges
  BY AwsAssumption DEF AwsTyped, Use

\* A change of what is held that finds a snapshot in another request's hands leaves
\* the saves disturbed; else no snapshot is left behind by it.
LEMMA OvertakesNotes ==
  ASSUME AwsTyped, NEW t \in AwsRequests, Overtakes(t)
  PROVE  /\ disturbed' \in BOOLEAN /\ (disturbed => disturbed')
         /\ disturbed' \/ \A o \in AwsRequests \ {t} : task[o] # "insert"
  BY Zenon DEF Overtakes, AwsTyped

\* Every step keeps the types.
LEMMA AwsNextType == AwsTyped /\ [AwsNext]_awsVars => AwsTyped'
<1> SUFFICES ASSUME AwsTyped, [AwsNext]_awsVars PROVE AwsTyped'
  OBVIOUS
<1> DEFINE Holding == [mode : Modes, region : Regions, account : Accounts, status : AwsStatuses,
                       key : {"key", NoKey}]
<1>1. CASE UNCHANGED awsVars
  BY <1>1 DEF AwsTyped, awsVars, threadState
<1>2. ASSUME NEW t \in AwsRequests, Configure(t) PROVE AwsTyped'
  <2>1. PICK mode \in Modes, region \in Regions, key \in {held.key, "key", NoKey} :
          held' = [held EXCEPT !.mode = mode, !.region = region,
                               !.key = IF mode = "env" THEN NoKey ELSE key]
    BY <1>2 DEF Configure
  <2>2. held' \in Holding /\ (held'.mode = "env" => held'.key = NoKey)
    BY <2>1 DEF AwsTyped
  <2>3. task' \in [AwsRequests -> Tasks]
    BY <1>2, TurnType DEF Configure, Tasks
  <2>4. UNCHANGED <<saved, rows, session, about, outcome, snapshot, found>>
    BY <1>2 DEF Configure
  <2> QED  BY <1>2, <2>2, <2>3, <2>4, UseCounted, OvertakesNotes DEF AwsTyped, Configure
<1>3. ASSUME NEW t \in AwsRequests, TakeSnapshot(t) PROVE AwsTyped'
  <2>1. task' \in [AwsRequests -> Tasks]
    BY <1>3, TurnType DEF TakeSnapshot, Tasks
  <2>2. snapshot' \in [AwsRequests -> PublicState]
    BY <1>3, PublicType DEF TakeSnapshot, AwsTyped
  <2>3. UNCHANGED <<held, saved, rows, session, about, outcome, found, disturbed, used>>
    BY <1>3 DEF TakeSnapshot
  <2> QED  BY <2>1, <2>2, <2>3 DEF AwsTyped
<1>4. ASSUME NEW t \in AwsRequests, InsertRow(t) PROVE AwsTyped'
  <2>1. Done(t, "insert") /\ UNCHANGED <<held, rows, disturbed, used>>
    BY <1>4 DEF InsertRow
  <2>2. saved' \in PublicState
    BY <1>4 DEF InsertRow, AwsTyped
  <2> QED  BY <2>1, <2>2, DoneType DEF AwsTyped
<1>5. ASSUME NEW t \in AwsRequests, InsertRowFails(t) PROVE AwsTyped'
  <2>1. Use /\ Done(t, "insert") /\ UNCHANGED <<held, saved, rows>>
    BY <1>5 DEF InsertRowFails
  <2>2. disturbed' \in BOOLEAN
    BY <1>5, Zenon DEF InsertRowFails
  <2> QED  BY <2>1, <2>2, DoneType, UseCounted DEF AwsTyped
<1>6. ASSUME NEW t \in AwsRequests, NEW next \in {"identity", "region"}, Use, Open(t, next),
             UNCHANGED <<held, saved, rows, about, snapshot, found, disturbed>>
      PROVE  AwsTyped'
  <2>1. session' \in [AwsRequests -> Modes]
    BY <1>6 DEF Open, AwsTyped
  <2>2. outcome' \in [AwsRequests -> Outcomes]
    <3>1. [NoOutcome EXCEPT !.status = "Authentication Failed"] \in Outcomes
      BY AwsStartValues DEF Outcomes, AwsStatuses
    <3> QED  BY <1>6, <3>1, AwsStartValues DEF Open, AwsTyped
  <2>3. \E to \in Tasks : Turn(t, "idle", to)
    <3>1. {"idle", "status", "identity", "region"} \subseteq Tasks
      BY DEF Tasks
    <3> QED  BY <1>6, <3>1 DEF Open
  <2>4. task' \in [AwsRequests -> Tasks]
    BY <2>3, TurnType
  <2> QED  BY <1>6, <2>1, <2>2, <2>4, UseCounted DEF AwsTyped
<1>7. ASSUME NEW t \in AwsRequests, AskIdentity(t) PROVE AwsTyped'
  <2>1. UNCHANGED <<saved, rows, session, about, snapshot, found, used>>
    BY <1>7 DEF AskIdentity
  <2>2. task' \in [AwsRequests -> Tasks]
    BY <1>7, TurnType DEF AskIdentity, Tasks
  <2>3. outcome' \in [AwsRequests -> Outcomes]
    <3>1. outcome[t] \in Outcomes
      BY DEF AwsTyped
    <3>2. \A a \in {"account", "key"} : [outcome[t] EXCEPT !.account = a] \in Outcomes
      BY <3>1 DEF Outcomes, Accounts
    <3>3. \A e \in {"Authentication Failed", "Connection Error"} :
            [outcome[t] EXCEPT !.status = e] \in Outcomes
      BY <3>1 DEF Outcomes, AwsStatuses
    <3>4. \/ \E a \in {"account", "key"} : outcome' = [outcome EXCEPT ![t] = [outcome[t] EXCEPT !.account = a]]
          \/ \E e \in {"Authentication Failed", "Connection Error"} :
               outcome' = [outcome EXCEPT ![t] = [outcome[t] EXCEPT !.status = e]]
      BY <1>7 DEF AskIdentity
    <3>5. PICK new \in Outcomes : outcome' = [outcome EXCEPT ![t] = new]
      BY <3>2, <3>3, <3>4
    <3> QED  BY <3>5 DEF AwsTyped
  <2>4. held' \in Holding /\ (held'.mode = "env" => held'.key = NoKey)
    BY <1>7 DEF AskIdentity, AwsTyped, Accounts
  <2>5. disturbed' \in BOOLEAN
    BY <1>7, OvertakesNotes DEF AskIdentity, AwsTyped
  <2> QED  BY <2>1, <2>2, <2>3, <2>4, <2>5 DEF AwsTyped
<1>8. ASSUME NEW t \in AwsRequests, AskAccess(t) PROVE AwsTyped'
  <2>1. UNCHANGED <<held, saved, rows, session, about, snapshot, found, disturbed, used>>
    BY <1>8 DEF AskAccess
  <2>2. task' \in [AwsRequests -> Tasks]
    BY <1>8, TurnType DEF AskAccess, Tasks
  <2>3. outcome' \in [AwsRequests -> Outcomes]
    <3>1. outcome[t] \in Outcomes
      BY DEF AwsTyped
    <3>2. \A e \in {"Connected", "Permission Denied", "Connection Error"} :
            [outcome[t] EXCEPT !.status = e] \in Outcomes
      BY <3>1 DEF Outcomes, AwsStatuses
    <3>3. PICK new \in Outcomes : outcome' = [outcome EXCEPT ![t] = new]
      BY <1>8, <3>2 DEF AskAccess
    <3> QED  BY <3>3 DEF AwsTyped
  <2> QED  BY <2>1, <2>2, <2>3 DEF AwsTyped
<1>9. ASSUME NEW t \in AwsRequests, UpdateStatus(t) PROVE AwsTyped'
  <2>1. UNCHANGED <<saved, rows, session, about, outcome, snapshot, found, used>>
    BY <1>9 DEF UpdateStatus
  <2>2. task' \in [AwsRequests -> Tasks]
    BY <1>9, TurnType DEF UpdateStatus, Tasks
  <2>3. held' \in Holding /\ (held'.mode = "env" => held'.key = NoKey)
    BY <1>9 DEF UpdateStatus, AwsTyped, Outcomes
  <2> QED  BY <1>9, <2>1, <2>2, <2>3, OvertakesNotes DEF UpdateStatus, AwsTyped
<1>10. ASSUME NEW t \in AwsRequests, ReadRegion(t) PROVE AwsTyped'
  <2>1. task' \in [AwsRequests -> Tasks]
    BY <1>10, TurnType DEF ReadRegion, Tasks
  <2>2. about' \in [AwsRequests -> Regions]
    BY <1>10 DEF ReadRegion, AwsTyped
  <2> QED  BY <1>10, <2>1, <2>2 DEF ReadRegion, AwsTyped
<1>11. ASSUME NEW t \in AwsRequests, QueryInstances(t) PROVE AwsTyped'
  <2>1. task' \in [AwsRequests -> Tasks]
    BY <1>11, TurnType DEF QueryInstances, Tasks
  <2>2. PICK checks \in StatusChecks({i \in Instances : LivesIn[i] = about[t]}) :
          found' = [found EXCEPT ![t] = checks]
    BY <1>11 DEF QueryInstances
  <2>3. {i \in Instances : LivesIn[i] = about[t]} \in SUBSET Instances
    OBVIOUS
  <2>4. checks \in Findings
    BY <2>3, Zenon DEF Findings
  <2>5. found' \in [AwsRequests -> Findings]
    BY <2>2, <2>4 DEF AwsTyped
  <2> QED  BY <1>11, <2>1, <2>5 DEF QueryInstances, AwsTyped
<1>12. ASSUME NEW t \in AwsRequests, QueryFails(t) PROVE AwsTyped'
  BY <1>12, DoneType DEF QueryFails, AwsTyped
<1>13. ASSUME NEW t \in AwsRequests, SaveInstances(t) PROVE AwsTyped'
  <2>1. rows' \in Inventories
    <3>1. PICK ids \in SUBSET Instances : rows \in [ids -> {"initializing", "checked"}]
      BY DEF AwsTyped, Inventories
    <3>2. PICK more \in SUBSET Instances : found[t] \in StatusChecks(more)
      BY DEF AwsTyped, Findings
    <3>3. found[t] \in [more -> {"initializing", "checked"}]
      BY <3>2 DEF StatusChecks
    <3> DEFINE merged == [i \in DOMAIN found[t] \cup DOMAIN rows |->
                            IF i \in DOMAIN found[t] THEN found[t][i] ELSE rows[i]]
    <3>4. merged \in [more \cup ids -> {"initializing", "checked"}]
      BY <3>1, <3>3
    <3>5. more \cup ids \in SUBSET Instances
      OBVIOUS
    <3>6. merged \in Inventories
      BY <3>4, <3>5, Zenon DEF Inventories
    <3> QED  BY <1>13, <3>6 DEF SaveInstances, AwsTyped
  <2>2. Done(t, "save") /\ UNCHANGED <<held, saved, disturbed, used>>
    BY <1>13 DEF SaveInstances
  <2> QED  BY <2>1, <2>2, DoneType DEF AwsTyped
<1>14. CASE RestartMaster
  <2>1. held' \in Holding /\ held'.key = NoKey
    BY <1>14 DEF RestartMaster, WithKey, AwsTyped, PublicState
  <2>2. /\ task' \in [AwsRequests -> Tasks] /\ session' \in [AwsRequests -> Modes]
        /\ about' \in [AwsRequests -> Regions] /\ outcome' \in [AwsRequests -> Outcomes]
        /\ snapshot' \in [AwsRequests -> PublicState] /\ found' \in [AwsRequests -> Findings]
    BY <1>14, AwsStartValues DEF RestartMaster, Tasks, Modes
  <2>3. disturbed' \in BOOLEAN
    BY <1>14, Zenon DEF RestartMaster
  <2> QED  BY <1>14, <2>1, <2>2, <2>3, UseCounted DEF RestartMaster, AwsTyped
<1> QED
  BY <1>1, <1>2, <1>3, <1>4, <1>5, <1>6, <1>7, <1>8, <1>9, <1>10, <1>11, <1>12, <1>13, <1>14
     DEF AwsNext, AwsStep, BeginTest, BeginDiscovery

\* The stages of a request that will come to save what is held.
WillSave(t) == task[t] \in {"access", "status", "snapshot", "insert"}

\* A step that changes neither what is held nor what is saved nor a snapshot in hand,
\* takes no request up to its insertion and none from its way there, keeps the saves
\* following.
LEMMA FollowsStill ==
  ASSUME AwsInv, Public(held)' = Public(held), saved' = saved, disturbed => disturbed',
         NEW t \in AwsRequests,
         \A o \in AwsRequests \ {t} : task'[o] = task[o] /\ snapshot'[o] = snapshot[o],
         task'[t] = "insert" => snapshot'[t] = Public(held),
         WillSave(t) => WillSave(t)'
  PROVE  SavesFollow'
<1>1. CASE disturbed
  BY <1>1 DEF SavesFollow
<1>2. CASE ~disturbed
  <2>1. /\ \A o \in AwsRequests : task[o] = "insert" => snapshot[o] = Public(held)
        /\ saved = Public(held) \/ \E o \in AwsRequests : WillSave(o)
    BY <1>2 DEF AwsInv, SavesFollow, WillSave
  <2>2. \A o \in AwsRequests : WillSave(o) => WillSave(o)'
    BY DEF WillSave
  <2>3. \A o \in AwsRequests : task'[o] = "insert" => snapshot'[o] = Public(held)'
    BY <2>1
  <2>4. (saved = Public(held))' \/ \E o \in AwsRequests : WillSave(o)'
    BY <2>1, <2>2
  <2> QED  BY <2>3, <2>4 DEF SavesFollow, WillSave
<1> QED  BY <1>1, <1>2

\* A change of what is held keeps them following: the request that made it will save
\* it, and any snapshot it leaves behind is noted.
LEMMA FollowsChange ==
  ASSUME AwsInv, NEW t \in AwsRequests, Overtakes(t),
         \A o \in AwsRequests \ {t} : task'[o] = task[o],
         WillSave(t)', task'[t] # "insert"
  PROVE  SavesFollow'
<1>1. disturbed' \/ \A o \in AwsRequests \ {t} : task[o] # "insert"
  BY OvertakesNotes DEF AwsInv
<1>2. disturbed' \/ \A o \in AwsRequests : task'[o] # "insert"
  BY <1>1
<1> QED  BY <1>2 DEF SavesFollow, WillSave

LEMMA AwsNextInv == AwsInv /\ [AwsNext]_awsVars => AwsInv'
<1> SUFFICES ASSUME AwsInv, [AwsNext]_awsVars PROVE SavesFollow'
  BY AwsNextType DEF AwsInv
<1> AwsTyped /\ SavesFollow
  BY DEF AwsInv
<1>1. CASE UNCHANGED awsVars
  BY <1>1 DEF SavesFollow, awsVars, threadState, Public
<1>2. ASSUME NEW t \in AwsRequests, Configure(t) PROVE SavesFollow'
  <2>1. Turn(t, "idle", "snapshot") /\ "snapshot" \in Tasks /\ Overtakes(t)
    BY <1>2 DEF Configure, Tasks
  <2> QED  BY <2>1, TurnType, FollowsChange DEF WillSave
<1>3. ASSUME NEW t \in AwsRequests, TakeSnapshot(t) PROVE SavesFollow'
  <2>1. Turn(t, "snapshot", "insert") /\ "insert" \in Tasks
    BY <1>3 DEF TakeSnapshot, Tasks
  <2>2. /\ snapshot'[t] = Public(held) /\ held' = held /\ saved' = saved /\ disturbed' = disturbed
        /\ \A o \in AwsRequests \ {t} : snapshot'[o] = snapshot[o]
    BY <1>3 DEF TakeSnapshot, AwsTyped
  <2>3. WillSave(t)' /\ Public(held)' = Public(held)
    BY <2>1, <2>2, TurnType DEF WillSave, Public
  <2> QED  BY <2>1, <2>2, <2>3, TurnType, FollowsStill
<1>4. ASSUME NEW t \in AwsRequests, InsertRow(t) PROVE SavesFollow'
  <2>1. /\ Done(t, "insert") /\ saved' = snapshot[t] /\ held' = held /\ disturbed' = disturbed
    BY <1>4 DEF InsertRow
  <2>2. CASE disturbed
    BY <2>1, <2>2 DEF SavesFollow
  <2>3. CASE ~disturbed
    <3>1. saved' = Public(held)
      BY <2>1, <2>3, DoneType DEF SavesFollow
    <3>2. \A o \in AwsRequests : task'[o] = "insert" => snapshot'[o] = Public(held)
      BY <2>1, <2>3, DoneType DEF SavesFollow
    <3> QED  BY <2>1, <3>1, <3>2 DEF SavesFollow, Public
  <2> QED  BY <2>2, <2>3
<1>5. ASSUME NEW t \in AwsRequests, InsertRowFails(t) PROVE SavesFollow'
  BY <1>5, Zenon DEF InsertRowFails, SavesFollow
<1>6. ASSUME NEW t \in AwsRequests, NEW next \in {"identity", "region"}, Open(t, next),
             UNCHANGED <<held, saved, rows, about, snapshot, found, disturbed>>
      PROVE  SavesFollow'
  <2>1. PICK to \in {"identity", "region", "status", "idle"} : Turn(t, "idle", to)
    BY <1>6 DEF Open
  <2>2. to \in Tasks /\ to # "insert"
    BY DEF Tasks
  <2>3. ~WillSave(t) /\ Public(held)' = Public(held)
    BY <1>6, <2>1, <2>2, TurnType DEF WillSave, Public
  <2> QED  BY <1>6, <2>1, <2>2, <2>3, TurnType, FollowsStill
<1>7. ASSUME NEW t \in AwsRequests, AskIdentity(t) PROVE SavesFollow'
  <2>1. CASE Turn(t, "identity", "access") /\ Overtakes(t)
    <3>1. "access" \in Tasks
      BY DEF Tasks
    <3> QED  BY <2>1, <3>1, TurnType, FollowsChange DEF WillSave
  <2>2. CASE Turn(t, "identity", "status") /\ UNCHANGED <<held, disturbed>>
    <3>1. "status" \in Tasks /\ UNCHANGED <<saved, snapshot>>
      BY <1>7 DEF Tasks, AskIdentity
    <3>2. Public(held)' = Public(held) /\ WillSave(t)'
      BY <2>2, <3>1, TurnType DEF Public, WillSave
    <3> QED  BY <2>2, <3>1, <3>2, TurnType, FollowsStill
  <2> QED  BY <1>7, <2>1, <2>2 DEF AskIdentity
<1>8. ASSUME NEW t \in AwsRequests, AskAccess(t) PROVE SavesFollow'
  <2>1. Turn(t, "access", "status") /\ "status" \in Tasks /\ UNCHANGED <<held, saved, snapshot, disturbed>>
    BY <1>8 DEF Tasks, AskAccess
  <2>2. Public(held)' = Public(held) /\ WillSave(t)'
    BY <2>1, TurnType DEF Public, WillSave
  <2> QED  BY <2>1, <2>2, TurnType, FollowsStill
<1>9. ASSUME NEW t \in AwsRequests, UpdateStatus(t) PROVE SavesFollow'
  <2>1. Turn(t, "status", "snapshot") /\ "snapshot" \in Tasks /\ Overtakes(t)
    BY <1>9 DEF UpdateStatus, Tasks
  <2> QED  BY <2>1, TurnType, FollowsChange DEF WillSave
<1>10. ASSUME NEW t \in AwsRequests, ReadRegion(t) \/ QueryInstances(t) PROVE SavesFollow'
  <2>1. /\ Turn(t, "region", "describe") \/ Turn(t, "describe", "save")
        /\ UNCHANGED <<held, saved, snapshot, disturbed>>
    BY <1>10 DEF ReadRegion, QueryInstances
  <2>2. /\ task'[t] # "insert" /\ ~WillSave(t)
        /\ \A o \in AwsRequests \ {t} : task'[o] = task[o]
    <3>1. "describe" \in Tasks /\ "save" \in Tasks
      BY DEF Tasks
    <3> QED  BY <2>1, <3>1, TurnType DEF WillSave
  <2>3. Public(held)' = Public(held)
    BY <2>1 DEF Public
  <2> QED  BY <2>1, <2>2, <2>3, FollowsStill
<1>11. ASSUME NEW t \in AwsRequests, QueryFails(t) \/ SaveInstances(t) PROVE SavesFollow'
  <2>1. (Done(t, "describe") \/ Done(t, "save")) /\ UNCHANGED <<held, saved, disturbed>>
    BY <1>11 DEF QueryFails, SaveInstances
  <2>2. /\ task'[t] # "insert" /\ ~WillSave(t) /\ Public(held)' = Public(held)
        /\ \A o \in AwsRequests \ {t} : task'[o] = task[o] /\ snapshot'[o] = snapshot[o]
    BY <2>1, DoneType DEF WillSave, Public
  <2> QED  BY <2>1, <2>2, FollowsStill
<1>12. CASE RestartMaster
  <2>1. Public(held)' = saved
    BY <1>12, PublicType DEF RestartMaster, AwsTyped, Public
  <2>2. \A t \in AwsRequests : task'[t] = "idle"
    BY <1>12 DEF RestartMaster
  <2> QED  BY <1>12, <2>1, <2>2 DEF RestartMaster, SavesFollow
<1> QED
  BY <1>1, <1>2, <1>3, <1>4, <1>5, <1>6, <1>7, <1>8, <1>9, <1>10, <1>11, <1>12
     DEF AwsNext, AwsStep, BeginTest, BeginDiscovery

\* What is held, saved and in the hands of requests stays in its type, and the saves
\* follow what is held unless that is noted.
THEOREM AwsInvariance == AwsSpec => []AwsInv
<1> QED  BY AwsInitInv, AwsNextInv, PTL DEF AwsSpec

\* With no request under way a restart of the Master would bring back the settings in
\* force, unless a save failed or was overtaken by a change.
THEOREM SettingsComeBack == AwsSpec => []RestartBringsBackSettings
<1>1. AwsInv => RestartBringsBackSettings
  BY DEF AwsInv, SavesFollow, RestartBringsBackSettings
<1> QED  BY <1>1, AwsInvariance, PTL

(***************************************************************************)
(* The monitoring of a camera.                                             *)
(***************************************************************************)
Verdicts == [old : Statuses \cup {"UNKNOWN", Unset}, new : Statuses \cup {Unset}]
CctvSteps == {"idle", "probe", "judge", "store", "log"}

CctvTyped == CctvTypeOK /\ verdict \in [Threads -> Verdicts]

\* What a thread has in hand at each step of its check.
InHand(t) ==
  /\ step[t] \in {"judge", "store", "log"} => verdict[t].new \in Statuses
  /\ step[t] \in {"store", "log"} => verdict[t].old # Unset
  /\ step[t] = "log" => Changed(t)

\* A transition that a thread has seen and not logged yet.
Pending(t) == step[t] \in {"store", "log"} /\ Changed(t)
Enters(t, s) == Pending(t) /\ verdict[t].new = s
Leaves(t, s) == Pending(t) /\ verdict[t].old = s
Entering(s) == {t \in Threads : Enters(t, s)}
Leaving(s) == {t \in Threads : Leaves(t, s)}
Count(holds) == IF holds THEN 1 ELSE 0

\* The story that TransitionsAddUp tells of a quiet log, at any moment: with the
\* transitions the threads still carry, the log leads from the first status to the
\* last known one.
Booked ==
  ~unlogged => \A s \in Statuses :
    (into[s] + Cardinality(Entering(s))) - (outOf[s] + Cardinality(Leaving(s)))
      = Count(lastKnown = s) - Count(first = s)

CctvInv ==
  /\ CctvTyped /\ Booked
  /\ \A t \in Threads : InHand(t)
  /\ first = Unset <=> lastKnown = Unset

LEMMA NoVerdictType == NoVerdict \in Verdicts /\ NoTransitions \in [Statuses -> Nat]
  BY DEF NoVerdict, Verdicts, NoTransitions

LEMMA ThreadsFinite == IsFiniteSet(Threads)
  BY CctvAssumption, FS_AddElement DEF Threads

LEMMA CountOne ==
  ASSUME NEW S \in SUBSET Threads, NEW t
  PROVE  Cardinality(S) \in Nat /\ Cardinality(S \ {t}) \in Nat
         /\ Cardinality(S) = Cardinality(S \ {t}) + Count(t \in S)
<1>1. IsFiniteSet(S) /\ IsFiniteSet(S \ {t})
  BY ThreadsFinite, FS_Subset
<1>2. Cardinality(S) \in Nat /\ Cardinality(S \ {t}) \in Nat
  BY <1>1, FS_CardinalityType
<1>3. CASE t \in S
  BY <1>1, <1>2, <1>3, FS_RemoveElement DEF Count
<1>4. CASE t \notin S
  <2>1. S \ {t} = S /\ Count(t \in S) = 0
    BY <1>4 DEF Count
  <2>2. Cardinality(S \ {t}) = Cardinality(S)
    BY <2>1, Zenon
  <2> QED  BY <1>2, <2>1, <2>2
<1> QED  BY <1>3, <1>4

\* What one thread does changes the counts of what is carried by its own part.
LEMMA CarriedByOne ==
  ASSUME NEW t \in Threads, NEW s,
         \A o \in Threads \ {t} : step'[o] = step[o] /\ verdict'[o] = verdict[o]
  PROVE  \E n, m \in Nat :
           /\ Cardinality(Entering(s)) = n + Count(Enters(t, s))
           /\ Cardinality(Entering(s))' = n + Count(Enters(t, s))'
           /\ Cardinality(Leaving(s)) = m + Count(Leaves(t, s))
           /\ Cardinality(Leaving(s))' = m + Count(Leaves(t, s))'
<1>1. \A o \in Threads \ {t} : (Enters(o, s)' <=> Enters(o, s)) /\ (Leaves(o, s)' <=> Leaves(o, s))
  BY DEF Enters, Leaves, Pending, Changed
<1>2. Entering(s)' \ {t} = Entering(s) \ {t} /\ Leaving(s)' \ {t} = Leaving(s) \ {t}
  BY <1>1 DEF Entering, Leaving
<1>3. /\ (t \in Entering(s) <=> Enters(t, s)) /\ (t \in Entering(s)' <=> Enters(t, s)')
      /\ (t \in Leaving(s) <=> Leaves(t, s)) /\ (t \in Leaving(s)' <=> Leaves(t, s)')
  BY DEF Entering, Leaving
<1>4. /\ Entering(s) \in SUBSET Threads /\ Entering(s)' \in SUBSET Threads
      /\ Leaving(s) \in SUBSET Threads /\ Leaving(s)' \in SUBSET Threads
  BY DEF Entering, Leaving
<1>5. /\ Cardinality(Entering(s) \ {t}) \in Nat /\ Cardinality(Leaving(s) \ {t}) \in Nat
      /\ Cardinality(Entering(s)) = Cardinality(Entering(s) \ {t}) + Count(t \in Entering(s))
      /\ Cardinality(Leaving(s)) = Cardinality(Leaving(s) \ {t}) + Count(t \in Leaving(s))
  BY <1>4, CountOne
<1>6. /\ Cardinality(Entering(s)') = Cardinality(Entering(s) \ {t}) + Count(t \in Entering(s)')
      /\ Cardinality(Leaving(s)') = Cardinality(Leaving(s) \ {t}) + Count(t \in Leaving(s)')
  <2>1. \A S \in SUBSET Threads : Cardinality(S) = Cardinality(S \ {t}) + Count(t \in S)
    BY CountOne
  <2> QED  BY <1>2, <1>4, <2>1
<1> QED  BY <1>3, <1>5, <1>6 DEF Count

\* A thread that carries after its step what it carried before leaves the books as
\* they are.
LEMMA BookedStill ==
  ASSUME Booked, NEW t \in Threads,
         \A o \in Threads \ {t} : step'[o] = step[o] /\ verdict'[o] = verdict[o],
         Pending(t)' <=> Pending(t), Pending(t) => verdict'[t] = verdict[t],
         UNCHANGED <<lastKnown, into, outOf, first>>, unlogged => unlogged'
  PROVE  Booked'
<1>1. \A s : (Enters(t, s)' <=> Enters(t, s)) /\ (Leaves(t, s)' <=> Leaves(t, s))
  BY DEF Enters, Leaves
<1>2. \A s : /\ Cardinality(Entering(s))' = Cardinality(Entering(s))
             /\ Cardinality(Leaving(s))' = Cardinality(Leaving(s))
  <2> SUFFICES ASSUME NEW s
               PROVE  /\ Cardinality(Entering(s))' = Cardinality(Entering(s))
                      /\ Cardinality(Leaving(s))' = Cardinality(Leaving(s))
    OBVIOUS
  <2> QED  BY <1>1, CarriedByOne DEF Count
<1> QED  BY <1>2 DEF Booked, Count

LEMMA CctvInitInv == CctvInit => CctvInv
<1> SUFFICES ASSUME CctvInit PROVE CctvInv
  OBVIOUS
<1>1. CctvTyped
  <2>1. verdict \in [Threads -> Verdicts]
    BY NoVerdictType DEF CctvInit
  <2>2. \A t \in Threads : /\ verdict[t].new \in Statuses \cup {Unset}
                           /\ verdict[t].old \in Statuses \cup {"UNKNOWN", Unset}
    BY <2>1 DEF Verdicts
  <2>3. into \in [Statuses -> Nat] /\ outOf \in [Statuses -> Nat]
    BY NoVerdictType DEF CctvInit
  <2>4. unlogged \in BOOLEAN
    BY Zenon DEF CctvInit
  <2>5. spent \in 0..CctvChanges
    BY CctvAssumption DEF CctvInit
  <2> QED  BY <2>1, <2>2, <2>3, <2>4, <2>5 DEF CctvInit, CctvTyped, CctvTypeOK
<1>2. \A t \in Threads : InHand(t) /\ ~Pending(t)
  BY DEF CctvInit, InHand, Pending
<1>3. Booked
  <2>1. \A s : Entering(s) = {} /\ Leaving(s) = {}
    BY <1>2 DEF Entering, Leaving, Enters, Leaves
  <2>2. Cardinality({}) = 0
    BY FS_EmptySet
  <2>3. \A s \in Statuses : s # Unset
    BY DEF Statuses, Unset
  <2> QED  BY <2>1, <2>2, <2>3 DEF CctvInit, NoTransitions, Booked, Count
<1> QED  BY <1>1, <1>2, <1>3 DEF CctvInv, CctvInit

LEMMA SpendType == ASSUME CctvTyped, Spend PROVE spent' \in 0..CctvChanges
  BY CctvAssumption DEF CctvTyped, CctvTypeOK, Spend

\* A step of a thread is its own.
LEMMA ProceedType ==
  ASSUME CctvTyped, NEW t \in Threads, NEW from, NEW to \in CctvSteps, Proceed(t, from, to)
  PROVE  /\ step' \in [Threads -> CctvSteps] /\ step[t] = from /\ step'[t] = to
         /\ \A o \in Threads \ {t} : step'[o] = step[o]
  BY DEF CctvTyped, CctvTypeOK, Proceed, CctvSteps

LEMMA EndCheckType ==
  ASSUME CctvTyped, NEW t \in Threads, NEW from, EndCheck(t, from)
  PROVE  /\ step' \in [Threads -> CctvSteps] /\ step[t] = from /\ step'[t] = "idle"
         /\ target' \in [Threads -> CameraRow \cup {NoCamera}]
         /\ verdict' \in [Threads -> Verdicts]
         /\ \A o \in Threads \ {t} :
              step'[o] = step[o] /\ target'[o] = target[o] /\ verdict'[o] = verdict[o]
<1>1. "idle" \in CctvSteps /\ Proceed(t, from, "idle")
  BY DEF CctvSteps, EndCheck
<1>2. /\ target' \in [Threads -> CameraRow \cup {NoCamera}]
      /\ \A o \in Threads \ {t} : target'[o] = target[o]
  BY DEF EndCheck, CctvTyped, CctvTypeOK
<1>3. /\ verdict' \in [Threads -> Verdicts]
      /\ \A o \in Threads \ {t} : verdict'[o] = verdict[o]
  BY NoVerdictType DEF EndCheck, CctvTyped
<1> QED  BY <1>1, <1>2, <1>3, ProceedType

LEMMA ProbeStatusType == \A b : ProbeStatus(b) \in Statuses
  BY DEF ProbeStatus, Statuses

\* The types of what the threads have, from their parts.
LEMMA ThreadsTyped ==
  ASSUME step' \in [Threads -> CctvSteps], verdict' \in [Threads -> Verdicts],
         target' \in [Threads -> CameraRow \cup {NoCamera}],
         \A t \in Threads : step'[t] # "idle" => target'[t] # NoCamera,
         {camera', edit'} \subseteq CameraRow \cup {NoCamera},
         lastKnown' \in Statuses \cup {Unset}, first' \in Statuses \cup {Unset},
         world' \in [Endpoints -> Behaviours],
         into' \in [Statuses -> Nat], outOf' \in [Statuses -> Nat],
         unlogged' \in BOOLEAN, spent' \in 0..CctvChanges
  PROVE  CctvTyped'
  BY DEF CctvTyped, CctvTypeOK, CctvSteps, Verdicts

\* What holds when no thread takes a step: registration, and the camera's network.
LEMMA RegistrationInv ==
  ASSUME CctvInv, UNCHANGED <<lastKnown, threadVars, logVars>>,
         {camera', edit'} \subseteq CameraRow \cup {NoCamera},
         world' \in [Endpoints -> Behaviours], spent' \in 0..CctvChanges
  PROVE  CctvInv'
<1>1. CctvTyped'
  BY DEF CctvInv, CctvTyped, CctvTypeOK, threadVars, logVars
<1>2. \A t \in Threads : InHand(t)'
  BY DEF CctvInv, InHand, Changed, threadVars
<1>3. Booked'
  <2>1. \A s : Entering(s)' = Entering(s) /\ Leaving(s)' = Leaving(s)
    BY DEF Entering, Leaving, Enters, Leaves, Pending, Changed, threadVars
  <2> QED  BY <2>1 DEF CctvInv, Booked, logVars
<1> QED  BY <1>1, <1>2, <1>3 DEF CctvInv, logVars

LEMMA OthersInHand ==
  ASSUME CctvInv, NEW t \in Threads, InHand(t)',
         \A o \in Threads \ {t} : step'[o] = step[o] /\ verdict'[o] = verdict[o]
  PROVE  \A o \in Threads : InHand(o)'
  BY DEF CctvInv, InHand, Changed

LEMMA ReadCameraInv ==
  ASSUME CctvInv, NEW t \in Threads, ReadCamera(t) PROVE CctvInv'
<1>1. Proceed(t, "idle", "probe") /\ "probe" \in CctvSteps /\ CctvTyped
  BY DEF ReadCamera, CctvSteps, CctvInv
<1>2. /\ step' \in [Threads -> CctvSteps] /\ step[t] = "idle" /\ step'[t] = "probe"
      /\ \A o \in Threads \ {t} : step'[o] = step[o]
  BY <1>1, ProceedType
<1>3. UNCHANGED <<camera, edit, lastKnown, world, verdict, into, outOf, first, unlogged, spent>>
  BY DEF ReadCamera, logVars
<1>4. CctvTyped'
  <2>1. /\ target' \in [Threads -> CameraRow \cup {NoCamera}]
        /\ target'[t] # NoCamera /\ \A o \in Threads \ {t} : target'[o] = target[o]
    BY <1>1 DEF ReadCamera, CctvTyped, CctvTypeOK
  <2>2. \A o \in Threads : step'[o] # "idle" => target'[o] # NoCamera
    BY <1>1, <1>2, <2>1 DEF CctvTyped, CctvTypeOK
  <2> QED  BY <1>1, <1>2, <1>3, <2>1, <2>2, ThreadsTyped DEF CctvTyped, CctvTypeOK
<1>5. InHand(t)' /\ ~Pending(t) /\ ~Pending(t)'
  BY <1>2 DEF InHand, Pending
<1>6. \A o \in Threads : InHand(o)'
  BY <1>2, <1>3, <1>5, OthersInHand
<1>7. Booked'
  BY <1>2, <1>3, <1>5, BookedStill DEF CctvInv
<1> QED  BY <1>3, <1>4, <1>6, <1>7 DEF CctvInv

LEMMA ProbeInv ==
  ASSUME CctvInv, NEW t \in Threads, Probe(t) PROVE CctvInv'
<1>1. Proceed(t, "probe", "judge") /\ "judge" \in CctvSteps /\ CctvTyped
  BY DEF Probe, CctvSteps, CctvInv
<1>2. /\ step' \in [Threads -> CctvSteps] /\ step[t] = "probe" /\ step'[t] = "judge"
      /\ \A o \in Threads \ {t} : step'[o] = step[o]
  BY <1>1, ProceedType
<1>3. UNCHANGED <<camera, edit, lastKnown, world, target, into, outOf, first, unlogged, spent>>
  BY DEF Probe, logVars
<1>4. /\ verdict' \in [Threads -> Verdicts] /\ verdict'[t].new \in Statuses
      /\ \A o \in Threads \ {t} : verdict'[o] = verdict[o]
  <2>1. PICK b : verdict' = [verdict EXCEPT ![t].new = ProbeStatus(b)]
    BY DEF Probe
  <2>2. verdict[t] \in Verdicts /\ verdict \in [Threads -> Verdicts]
    BY <1>1 DEF CctvTyped
  <2>3. /\ [verdict[t] EXCEPT !.new = ProbeStatus(b)] \in Verdicts
        /\ [verdict[t] EXCEPT !.new = ProbeStatus(b)].new = ProbeStatus(b)
    BY <2>2, ProbeStatusType DEF Verdicts
  <2> QED  BY <2>1, <2>2, <2>3, ProbeStatusType
<1>5. CctvTyped'
  BY <1>1, <1>2, <1>3, <1>4, ThreadsTyped DEF CctvTyped, CctvTypeOK
<1>6. InHand(t)' /\ ~Pending(t) /\ ~Pending(t)'
  BY <1>2, <1>4 DEF InHand, Pending
<1>7. \A o \in Threads : InHand(o)'
  BY <1>2, <1>4, <1>6, OthersInHand
<1>8. Booked'
  BY <1>2, <1>3, <1>4, <1>6, BookedStill DEF CctvInv
<1> QED  BY <1>3, <1>5, <1>7, <1>8 DEF CctvInv

\* The exchange under the lock is what keeps the books: the status it replaces is
\* the one the last exchange has left.
LEMMA ExchangeStatusInv ==
  ASSUME CctvInv, NEW t \in Threads, ExchangeStatus(t) PROVE CctvInv'
<1> DEFINE old == IF lastKnown = Unset THEN target[t].status ELSE lastKnown
           new == verdict[t].new
<1>1. Proceed(t, "judge", "store") /\ "store" \in CctvSteps /\ CctvTyped
  BY DEF ExchangeStatus, CctvSteps, CctvInv
<1>2. /\ step' \in [Threads -> CctvSteps] /\ step[t] = "judge" /\ step'[t] = "store"
      /\ \A o \in Threads \ {t} : step'[o] = step[o]
  BY <1>1, ProceedType
<1>3. /\ UNCHANGED <<camera, edit, world, target, into, outOf, unlogged, spent>>
      /\ lastKnown' = new
      /\ first' = IF first # Unset THEN first ELSE IF old = "UNKNOWN" THEN new ELSE old
  BY DEF ExchangeStatus
<1>4. /\ new \in Statuses /\ new # Unset /\ old \in Statuses \cup {"UNKNOWN"} /\ old # Unset
      /\ first \in Statuses \cup {Unset} /\ lastKnown \in Statuses \cup {Unset}
      /\ (lastKnown # Unset => old \in Statuses /\ first # Unset)
      /\ (lastKnown = Unset => first = Unset)
  BY <1>2 DEF CctvInv, InHand, CctvTyped, CctvTypeOK, CameraRow, Unset, Statuses
<1>5. /\ verdict' \in [Threads -> Verdicts]
      /\ verdict'[t].old = old /\ verdict'[t].new = new
      /\ \A o \in Threads \ {t} : verdict'[o] = verdict[o]
  <2>1. verdict' = [verdict EXCEPT ![t].old = old]
    BY DEF ExchangeStatus
  <2>2. verdict[t] \in Verdicts /\ verdict \in [Threads -> Verdicts]
    BY <1>1 DEF CctvTyped
  <2>3. /\ [verdict[t] EXCEPT !.old = old] \in Verdicts
        /\ [verdict[t] EXCEPT !.old = old].new = new /\ [verdict[t] EXCEPT !.old = old].old = old
    BY <1>4, <2>2 DEF Verdicts
  <2> QED  BY <2>1, <2>2, <2>3
<1>6. first' \in Statuses /\ lastKnown' \in Statuses /\ first' # Unset /\ lastKnown' # Unset
  BY <1>3, <1>4 DEF Statuses, Unset
<1>7. CctvTyped'
  BY <1>1, <1>2, <1>3, <1>5, <1>6, ThreadsTyped DEF CctvTyped, CctvTypeOK
<1>8. InHand(t)'
  BY <1>2, <1>4, <1>5 DEF InHand
<1>9. \A o \in Threads : InHand(o)'
  BY <1>2, <1>5, <1>8, OthersInHand
<1>10. Booked'
  <2> SUFFICES ASSUME ~unlogged, NEW s \in Statuses
               PROVE  (into[s] + Cardinality(Entering(s))') - (outOf[s] + Cardinality(Leaving(s))')
                        = Count(lastKnown = s)' - Count(first = s)'
    BY <1>3 DEF Booked
  <2>1. /\ Enters(t, s) = FALSE /\ Leaves(t, s) = FALSE
        /\ Enters(t, s)' <=> (old \notin {new, "UNKNOWN"} /\ new = s)
        /\ Leaves(t, s)' <=> (old \notin {new, "UNKNOWN"} /\ old = s)
    BY <1>2, <1>5 DEF Enters, Leaves, Pending, Changed
  <2>2. PICK n \in Nat, m \in Nat :
          /\ Cardinality(Entering(s)) = n /\ Cardinality(Entering(s))' = n + Count(Enters(t, s))'
          /\ Cardinality(Leaving(s)) = m /\ Cardinality(Leaving(s))' = m + Count(Leaves(t, s))'
    BY <1>2, <1>5, <2>1, CarriedByOne DEF Count
  <2>3. (into[s] + n) - (outOf[s] + m) = Count(lastKnown = s) - Count(first = s)
    BY <2>2 DEF CctvInv, Booked
  <2>4. into[s] \in Nat /\ outOf[s] \in Nat /\ s # Unset /\ s # "UNKNOWN"
    BY <1>1 DEF CctvTyped, CctvTypeOK, Statuses, Unset
  <2> HIDE DEF old, new
  <2>5. Count(Enters(t, s))' - Count(Leaves(t, s))'
          = (Count(lastKnown = s)' - Count(first = s)') - (Count(lastKnown = s) - Count(first = s))
    <3>1. CASE lastKnown = Unset
      BY <1>3, <1>4, <2>1, <2>4, <3>1 DEF Count
    <3>2. CASE lastKnown # Unset
      <4>1. old = lastKnown /\ old # "UNKNOWN" /\ first' = first
        BY <1>3, <1>4, <3>2 DEF old, Statuses
      <4> QED  BY <1>3, <2>1, <4>1 DEF Count
    <3> QED  BY <3>1, <3>2
  <2>6. /\ Count(Enters(t, s))' \in 0..1 /\ Count(Leaves(t, s))' \in 0..1
        /\ Count(lastKnown = s)' \in 0..1 /\ Count(first = s)' \in 0..1
        /\ Count(lastKnown = s) \in 0..1 /\ Count(first = s) \in 0..1
    BY DEF Count
  <2> QED  BY <2>2, <2>3, <2>4, <2>5, <2>6 DEF Count
<1> QED  BY <1>6, <1>7, <1>9, <1>10 DEF CctvInv

LEMMA StoreResultInv ==
  ASSUME CctvInv, NEW t \in Threads, StoreResult(t) PROVE CctvInv'
<1>1. /\ UNCHANGED <<edit, lastKnown, world, into, outOf, first, unlogged, spent>>
      /\ step[t] = "store" /\ CctvTyped
  BY DEF StoreResult, logVars, CctvInv, Proceed, EndCheck
<1>2. camera' \in CameraRow
  <2>1. verdict[t].new \in Statuses /\ camera \in CameraRow
    BY <1>1 DEF CctvInv, InHand, StoreResult, CctvTyped, CctvTypeOK
  <2> QED  BY <2>1 DEF StoreResult, CameraRow
<1>3. CASE Changed(t)
  <2>1. Proceed(t, "store", "log") /\ "log" \in CctvSteps /\ UNCHANGED <<target, verdict>>
    BY <1>3 DEF StoreResult, CctvSteps
  <2>2. /\ step' \in [Threads -> CctvSteps] /\ step'[t] = "log"
        /\ \A o \in Threads \ {t} : step'[o] = step[o]
    BY <1>1, <2>1, ProceedType
  <2>3. InHand(t)' /\ Pending(t) /\ Pending(t)'
    BY <1>1, <1>3, <2>1, <2>2 DEF CctvInv, InHand, Pending, Changed
  <2>4. CctvTyped'
    BY <1>1, <1>2, <2>1, <2>2, ThreadsTyped DEF CctvTyped, CctvTypeOK
  <2>5. Booked' /\ \A o \in Threads : InHand(o)'
    BY <1>1, <2>1, <2>2, <2>3, OthersInHand, BookedStill DEF CctvInv
  <2> QED  BY <1>1, <2>4, <2>5 DEF CctvInv
<1>4. CASE ~Changed(t)
  <2>1. EndCheck(t, "store")
    BY <1>4 DEF StoreResult
  <2>2. InHand(t)' /\ ~Pending(t) /\ ~Pending(t)'
    BY <1>1, <1>4, <2>1, EndCheckType DEF InHand, Pending
  <2>3. CctvTyped'
    BY <1>1, <1>2, <2>1, EndCheckType, ThreadsTyped DEF CctvTyped, CctvTypeOK
  <2>4. Booked' /\ \A o \in Threads : InHand(o)'
    BY <1>1, <2>1, <2>2, EndCheckType, OthersInHand, BookedStill DEF CctvInv
  <2> QED  BY <1>1, <2>3, <2>4 DEF CctvInv
<1> QED  BY <1>3, <1>4

\* A check that ends without an entry either had none to write or leaves the log open.
LEMMA EndsUnlogged ==
  ASSUME CctvInv, NEW t \in Threads, NEW from, EndCheck(t, from), spent' \in 0..CctvChanges,
         UNCHANGED <<camera, edit, lastKnown, world, into, outOf, first>>,
         unlogged' \in BOOLEAN, unlogged => unlogged', Pending(t) => unlogged'
  PROVE  CctvInv'
<1>1. CctvTyped
  BY DEF CctvInv
<1>2. CctvTyped'
  BY <1>1, EndCheckType, ThreadsTyped DEF CctvTyped, CctvTypeOK
<1>3. \A o \in Threads : InHand(o)'
  BY <1>1, EndCheckType, OthersInHand DEF InHand
<1>4. Booked'
  <2>1. ~Pending(t)'
    BY <1>1, EndCheckType DEF Pending
  <2>2. CASE Pending(t)
    BY <2>2 DEF Booked
  <2>3. CASE ~Pending(t)
    BY <1>1, <2>1, <2>3, EndCheckType, BookedStill DEF CctvInv
  <2> QED  BY <2>2, <2>3
<1> QED  BY <1>2, <1>3, <1>4 DEF CctvInv

LEMMA LogTransitionInv ==
  ASSUME CctvInv, NEW t \in Threads, LogTransition(t) PROVE CctvInv'
<1> DEFINE old == verdict[t].old  new == verdict[t].new
<1>1. /\ EndCheck(t, "log") /\ CctvTyped /\ step[t] = "log"
      /\ UNCHANGED <<camera, edit, lastKnown, world, first, unlogged, spent>>
  BY DEF LogTransition, CctvInv, EndCheck, Proceed
<1>2. new \in Statuses /\ old \in Statuses /\ Pending(t) /\ ~Pending(t)'
  BY <1>1, EndCheckType DEF CctvInv, InHand, Changed, Pending, CctvTyped, Verdicts
<1>3. /\ into' \in [Statuses -> Nat] /\ outOf' \in [Statuses -> Nat]
      /\ into' = [into EXCEPT ![new] = @ + 1] /\ outOf' = [outOf EXCEPT ![old] = @ + 1]
  BY <1>1, <1>2 DEF LogTransition, CctvTyped, CctvTypeOK
<1>4. CctvTyped'
  BY <1>1, <1>3, EndCheckType, ThreadsTyped DEF CctvTyped, CctvTypeOK
<1>5. \A o \in Threads : InHand(o)'
  BY <1>1, EndCheckType, OthersInHand DEF InHand
<1>6. Booked'
  <2> SUFFICES ASSUME ~unlogged, NEW s \in Statuses
               PROVE  (into'[s] + Cardinality(Entering(s))') - (outOf'[s] + Cardinality(Leaving(s))')
                        = Count(lastKnown = s) - Count(first = s)
    BY <1>1 DEF Booked, Count
  <2>1. /\ Enters(t, s) <=> new = s
        /\ Leaves(t, s) <=> old = s
        /\ Enters(t, s)' = FALSE /\ Leaves(t, s)' = FALSE
    BY <1>2 DEF Enters, Leaves
  <2>2. PICK n \in Nat, m \in Nat :
          /\ Cardinality(Entering(s)) = n + Count(new = s) /\ Cardinality(Entering(s))' = n
          /\ Cardinality(Leaving(s)) = m + Count(old = s) /\ Cardinality(Leaving(s))' = m
    BY <1>1, <2>1, EndCheckType, CarriedByOne DEF Count
  <2>3. (into[s] + Cardinality(Entering(s))) - (outOf[s] + Cardinality(Leaving(s)))
          = Count(lastKnown = s) - Count(first = s)
    BY DEF CctvInv, Booked
  <2>4. into[s] \in Nat /\ outOf[s] \in Nat
    BY <1>1 DEF CctvTyped, CctvTypeOK
  <2>5. into'[s] = into[s] + Count(new = s) /\ outOf'[s] = outOf[s] + Count(old = s)
    BY <1>1, <1>3, <2>4 DEF Count, CctvTyped, CctvTypeOK
  <2> QED  BY <2>2, <2>3, <2>4, <2>5 DEF Count
<1> QED  BY <1>1, <1>4, <1>5, <1>6 DEF CctvInv

LEMMA MasterRestartsInv == ASSUME CctvInv, MasterRestarts PROVE CctvInv'
<1>1. \A t \in Threads : step'[t] = "idle"
  BY DEF MasterRestarts
<1>2. /\ step' \in [Threads -> CctvSteps] /\ verdict' \in [Threads -> Verdicts]
      /\ target' \in [Threads -> CameraRow \cup {NoCamera}]
  BY NoVerdictType DEF MasterRestarts, CctvSteps
<1>3. into' \in [Statuses -> Nat] /\ outOf' \in [Statuses -> Nat] /\ unlogged' \in BOOLEAN
  BY NoVerdictType, Zenon DEF MasterRestarts
<1>4. CctvTyped /\ spent' \in 0..CctvChanges
  BY SpendType DEF CctvInv, MasterRestarts
<1>5. /\ edit' = NoCamera /\ camera' = camera /\ world' = world
      /\ lastKnown' = Unset /\ first' = Unset
  BY DEF MasterRestarts
<1>6. CctvTyped'
  BY <1>1, <1>2, <1>3, <1>4, <1>5, ThreadsTyped DEF CctvTyped, CctvTypeOK
<1>7. \A t \in Threads : InHand(t)' /\ ~Pending(t)'
  BY <1>1 DEF InHand, Pending
<1>8. Booked'
  <2>1. \A s : Entering(s)' = {} /\ Leaving(s)' = {}
    BY <1>7 DEF Entering, Leaving, Enters, Leaves
  <2>2. Cardinality({}) = 0
    BY FS_EmptySet
  <2>3. \A s \in Statuses : s # Unset
    BY DEF Statuses, Unset
  <2>4. \A s \in Statuses : into'[s] = 0 /\ outOf'[s] = 0
    BY DEF MasterRestarts, NoTransitions
  <2> QED  BY <1>5, <2>1, <2>2, <2>3, <2>4 DEF Booked, Count
<1> QED  BY <1>5, <1>6, <1>7, <1>8 DEF CctvInv

LEMMA CctvNextInv == CctvInv /\ [CctvNext]_cctvVars => CctvInv'
<1> SUFFICES ASSUME CctvInv, [CctvNext]_cctvVars PROVE CctvInv'
  OBVIOUS
<1> USE SpendType
<1>1. CctvTyped
  BY DEF CctvInv
<1>2. CASE UNCHANGED cctvVars
  BY <1>1, <1>2, RegistrationInv DEF cctvVars, CctvTyped, CctvTypeOK, threadVars, logVars
<1>3. CASE RegisterCamera
  <2>1. camera' \in CameraRow
    BY <1>3 DEF RegisterCamera, NewCameras, CameraRow
  <2> QED  BY <1>1, <1>3, <2>1, RegistrationInv DEF RegisterCamera, CctvTyped, CctvTypeOK
<1>4. CASE UpdateReads
  <2>1. edit' \in CameraRow
    BY <1>1, <1>4 DEF UpdateReads, CctvTyped, CctvTypeOK, CameraRow
  <2> QED  BY <1>1, <1>4, <2>1, RegistrationInv DEF UpdateReads, CctvTyped, CctvTypeOK
<1>5. CASE UpdateWrites
  <2>1. camera' \in CameraRow \cup {NoCamera}
    BY <1>1, <1>5 DEF UpdateWrites, CctvTyped, CctvTypeOK, CameraRow
  <2> QED  BY <1>1, <1>5, <2>1, RegistrationInv DEF UpdateWrites, CctvTyped, CctvTypeOK
<1>6. CASE SetEnabled
  <2>1. camera' \in CameraRow
    BY <1>1, <1>6 DEF SetEnabled, CctvTyped, CctvTypeOK, CameraRow
  <2> QED  BY <1>1, <1>6, <2>1, RegistrationInv DEF SetEnabled, CctvTyped, CctvTypeOK
<1>7. CASE DeleteCamera
  BY <1>1, <1>7, RegistrationInv DEF DeleteCamera, CctvTyped, CctvTypeOK
<1>8. CASE WorldChanges
  <2>1. world' \in [Endpoints -> Behaviours]
    BY <1>1, <1>8 DEF WorldChanges, CctvTyped, CctvTypeOK
  <2> QED  BY <1>1, <1>8, <2>1, RegistrationInv DEF WorldChanges, CctvTyped, CctvTypeOK
<1>9. ASSUME NEW t \in Threads, StoreFails(t) PROVE CctvInv'
  <2>1. unlogged' \in BOOLEAN /\ (unlogged => unlogged') /\ (Changed(t) => unlogged')
    BY <1>1, <1>9, Zenon DEF StoreFails, CctvTyped, CctvTypeOK
  <2>2. spent' \in 0..CctvChanges
    BY <1>1, <1>9 DEF StoreFails, CctvTyped, CctvTypeOK
  <2> QED  BY <1>9, <2>1, <2>2, EndsUnlogged DEF StoreFails, Pending
<1>10. ASSUME NEW t \in Threads, LogFails(t) PROVE CctvInv'
  <2>1. unlogged' \in BOOLEAN /\ unlogged'
    BY <1>10, Zenon DEF LogFails
  <2>2. spent' \in 0..CctvChanges
    BY <1>1, <1>10 DEF LogFails
  <2> QED  BY <1>10, <2>1, <2>2, EndsUnlogged DEF LogFails
<1> QED
  BY <1>2, <1>3, <1>4, <1>5, <1>6, <1>7, <1>8, <1>9, <1>10, ReadCameraInv, ProbeInv,
     ExchangeStatusInv, StoreResultInv, LogTransitionInv, MasterRestartsInv DEF CctvNext, Conclude

\* The log of transitions, with those the threads still carry, leads from the first
\* status to the last known one, unless one was lost to an error.
THEOREM CctvInvariance == CctvSpec => []CctvInv
<1> QED  BY CctvInitInv, CctvNextInv, PTL DEF CctvSpec

\* However many checks overlap, a quiet log is one story: a status that was entered
\* was left before it was entered anew, and no transition is logged twice.
THEOREM TransitionsTellOneStory == CctvSpec => []TransitionsAddUp
<1>1. ASSUME CctvInv PROVE TransitionsAddUp
  <2> SUFFICES ASSUME ~unlogged, \A t \in Threads : step[t] = "idle", NEW s \in Statuses
               PROVE  into[s] - outOf[s] = Count(lastKnown = s) - Count(first = s)
    BY DEF TransitionsAddUp, Count
  <2>1. Entering(s) = {} /\ Leaving(s) = {}
    BY DEF Entering, Leaving, Enters, Leaves, Pending
  <2>2. Cardinality({}) = 0
    BY FS_EmptySet
  <2>3. into[s] \in Nat /\ outOf[s] \in Nat
    BY <1>1 DEF CctvInv, CctvTyped, CctvTypeOK
  <2>4. (into[s] + Cardinality(Entering(s))) - (outOf[s] + Cardinality(Leaving(s)))
          = Count(lastKnown = s) - Count(first = s)
    BY <1>1 DEF CctvInv, Booked
  <2> QED  BY <2>1, <2>2, <2>3, <2>4 DEF Count
<1> QED  BY <1>1, CctvInvariance, PTL

(***************************************************************************)
(* The parts side by side.                                                 *)
(***************************************************************************)
PartsInv ==
  /\ part \in {"camera", "commands", "aws", "policy"}
  /\ CctvInv /\ CommandInv /\ AwsInv /\ MasterTypeOK

LEMMA PartsInitInv == Init => PartsInv
  BY CctvInitInv, CommandInitInv, AwsInitInv, TypeInit DEF Init, PartsInv

\* The part that runs keeps what is known of it, and leaves the others as they are.
LEMMA PartsNextInv == PartsInv /\ [Next]_vars => PartsInv'
<1> SUFFICES ASSUME PartsInv, [Next]_vars PROVE PartsInv'
  OBVIOUS
<1>1. part' = part
  BY DEF Next, vars
<1>2. [CctvNext]_cctvVars /\ [CommandNext]_commandVars /\ [AwsNext]_awsVars /\ [MasterNext]_recordVars
  BY DEF Next, vars
<1> QED  BY <1>1, <1>2, CctvNextInv, CommandNextInv, AwsNextInv, TypesKept DEF PartsInv

LEMMA AwsTypes == AwsTyped => AwsTypeOK
  BY DEF AwsTyped, AwsTypeOK, Public, Inventories, Findings

\* Whichever part of the Master runs, with any cameras, requests, regions or
\* administrators, it stays in the states of its type.
THEOREM PartsTyped == Spec => []PartsTypeOK
<1>1. PartsInv => PartsTypeOK
  BY AwsTypes DEF PartsInv, PartsTypeOK, CctvInv, CctvTyped, CommandInv, AwsInv
<1> QED  BY <1>1, PartsInitInv, PartsNextInv, PTL DEF Spec
=============================================================================
