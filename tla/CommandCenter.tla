----------------------------- MODULE CommandCenter -----------------------------
(***************************************************************************)
(* The Master's command center, for one device, and the command handler of *)
(* the client.  A request checks the command, reads the device's presence, *)
(* records the command, carries it out on the Master itself (the API hands *)
(* over no client handler), updates the record and writes the audit log:   *)
(* each a connection and a commit of its own, any of which may fail, with  *)
(* other requests, the device and a crash in between.                      *)
(*                                                                         *)
(* The client's handler is reached through the client's local web UI.  Of  *)
(* its commands, UPDATE_MONITORING_POLICY is modelled here: it sets the    *)
(* intervals of the workers as it checks them.  What REAUTHENTICATE_AGENT  *)
(* does to a client is in ClientLifecycle.                                 *)
(***************************************************************************)
EXTENDS Integers, Sequences

CONSTANTS
  Commands,    \* command ids, one for each request
  Types,       \* command types asked for
  Policies,    \* parameters of the UPDATE_MONITORING_POLICY commands
  Absent,      \* a parameter that is not given,
  Null,        \* one given as null,
  Word,        \* and one that is no number
  MaxMishaps   \* bound on database errors, crashes and changes of presence

Allowed == {"RUN_HEALTH_CHECK", "REAUTHENTICATE_AGENT", "SYNCHRONIZE_TIME",
            "CONNECTIVITY_CHECK", "UPDATE_MONITORING_POLICY"}

\* What a parameter may be; frozen says that a heartbeat or presence interval is
\* among the parameters.
Values == Nat \cup {Absent, Null, Word}
Severities == {Absent, Null, "severity", "other"}
Policy == [telemetry : Values, scan : Values, severity : Severities, frozen : BOOLEAN]

ASSUME CommandAssumption ==
  /\ Policies \subseteq Policy /\ MaxMishaps \in Nat
  /\ {Absent, Null, Word} \cap Nat = {} /\ Null # Absent /\ Word \notin {Absent, Null}
  /\ {Absent, Null} \cap {"severity", "other"} = {}

-----------------------------------------------------------------------------
(* The monitoring policy, as the Master and as the client validate it.     *)

TelemetrySafe == 5..300
ScanSafe == 2..60
NoParameters == [telemetry |-> Absent, scan |-> Absent, severity |-> Absent, frozen |-> FALSE]

\* Faulty variant: a null is passed over, as it is by the client.
MasterCheckLenient(value, safe) ==
  CASE value = Word -> "raises"
    [] value \in safe \cup {Absent, Null} -> "fine"
    [] OTHER -> "refused"

\* The Master takes every parameter that is given; a null raises like a word.
MasterCheck(value, safe) ==
  CASE value \in {Null, Word} -> "raises"
    [] value \in safe \cup {Absent} -> "fine"
    [] OTHER -> "refused"

\* The first parameter that is not fine decides.
MasterVerdict(p) ==
  LET checks == << IF p.frozen THEN "refused" ELSE "fine",
                   MasterCheck(p.telemetry, TelemetrySafe), MasterCheck(p.scan, ScanSafe),
                   IF p.severity \in {Absent, "severity"} THEN "fine" ELSE "refused" >>
      wrong == {i \in DOMAIN checks : checks[i] # "fine"}
  IN  IF wrong = {} THEN "fine" ELSE checks[CHOOSE i \in wrong : \A j \in wrong : i <= j]

\* The client passes over a null.
ClientTakes(value, safe) == value \in safe \cup {Absent, Null}

ClientAccepts(p) ==
  /\ ~p.frozen /\ ClientTakes(p.telemetry, TelemetrySafe) /\ ClientTakes(p.scan, ScanSafe)
  /\ p.severity # "other"

\* It sets each interval as soon as it has checked it: a later parameter may
\* still have the command refused.
ClientSets(p, now) ==
  LET first == ~p.frozen /\ ClientTakes(p.telemetry, TelemetrySafe)
      second == first /\ ClientTakes(p.scan, ScanSafe)
  IN  [telemetry |-> IF first /\ p.telemetry \in Nat THEN p.telemetry ELSE now.telemetry,
       scan |-> IF second /\ p.scan \in Nat THEN p.scan ELSE now.scan]

\* Both sides check the type and that only a policy comes with parameters.
Admissible(type, p) ==
  type \in Allowed /\ (type = "UPDATE_MONITORING_POLICY" \/ p = NoParameters)

\* The intervals after a command to the client: no other type sets them.
ClientHandles(type, p, now) ==
  IF Admissible(type, p) /\ type = "UPDATE_MONITORING_POLICY" THEN ClientSets(p, now) ELSE now

-----------------------------------------------------------------------------
VARIABLES
  online,     \* devices.status = 'online'
  paired,     \* the device is authenticated
  does,       \* what each request does next
  command,    \* its command's type and parameters
  row,        \* the command's status in the commands table
  audit,      \* what the audit log says of it
  revoking,   \* commands that have ended the device's session
  broken,     \* requests that raised or died
  intervals,  \* the client's config.TELEMETRY_INTERVAL and EVENT_SCAN_INTERVAL
  mishaps     \* uses of MaxMishaps

deviceState == <<online, paired>>
records == <<row, audit, revoking, broken>>
commandVars == <<deviceState, does, command, records, intervals, mishaps>>

Defaults == [telemetry |-> 60, scan |-> 5]
NoCommand == [type |-> "none", params |-> NoParameters]

CommandInit ==
  /\ online \in BOOLEAN /\ paired \in BOOLEAN
  /\ does = [c \in Commands |-> "idle"]
  /\ command = [c \in Commands |-> NoCommand]
  /\ row = [c \in Commands |-> "none"]
  /\ audit = [c \in Commands |-> <<>>]
  /\ revoking = {} /\ broken = {}
  /\ intervals = Defaults
  /\ mishaps = 0

Mishap == mishaps < MaxMishaps /\ mishaps' = mishaps + 1
Go(c, from, to) == does[c] = from /\ does' = [does EXCEPT ![c] = to]

-----------------------------------------------------------------------------
(* A request.  The stages named audit... write one entry of the audit log. *)

\* Only an unknown type is logged when it is refused; parameters that a command
\* does not take are refused without a trace.
AskFor(c) ==
  /\ \E type \in Types, p \in Policies \cup {NoParameters} :
       IF Admissible(type, p)
       THEN Go(c, "idle", "read") /\ command' = [command EXCEPT ![c] = [type |-> type, params |-> p]]
       ELSE Go(c, "idle", IF type \in Allowed THEN "done" ELSE "auditRefused") /\ UNCHANGED command
  /\ UNCHANGED <<deviceState, records, intervals, mishaps>>

ReadPresence(c) ==
  /\ Go(c, "read", IF online THEN "pending" ELSE "reject")
  /\ UNCHANGED <<deviceState, command, records, intervals, mishaps>>

Record(c, from, status, to) ==
  /\ Go(c, from, to)
  /\ row' = [row EXCEPT ![c] = status]
  /\ UNCHANGED <<deviceState, command, audit, revoking, broken, intervals, mishaps>>

\* The Master's own execution.  Time and connectivity are taken for granted, a
\* monitoring policy is validated and reaches nobody, and a health check goes to
\* DeviceHealth.
Dispatch(c) ==
  LET type == command[c].type
      verdict == IF type = "UPDATE_MONITORING_POLICY" THEN MasterVerdict(command[c].params) ELSE "fine"
  IN  /\ Go(c, "dispatch", CASE verdict = "fine" -> "complete"
                             [] verdict = "refused" -> "fail"
                             [] OTHER -> "error")
      /\ IF type = "REAUTHENTICATE_AGENT"
         THEN online' = FALSE /\ paired' = FALSE /\ revoking' = revoking \cup {c}
         ELSE UNCHANGED <<deviceState, revoking>>
      /\ UNCHANGED <<command, row, audit, broken, intervals, mishaps>>

Entry == [auditRefused |-> "REFUSED", auditRejected |-> "REJECTED", auditCompleted |-> "COMPLETED",
          auditFailed |-> "FAILED", auditError |-> "ERROR"]

LogAudit(c) ==
  /\ does[c] \in DOMAIN Entry /\ Go(c, does[c], "done")
  /\ audit' = [audit EXCEPT ![c] = Append(@, Entry[does[c]])]
  /\ UNCHANGED <<deviceState, command, row, revoking, broken, intervals, mishaps>>

\* A database error.  From the dispatch to its audit entry it is caught, and the
\* command recorded as failed, whatever was recorded before; elsewhere the
\* request raises.
Caught == {"dispatch", "complete", "fail", "auditCompleted", "auditFailed"}

DatabaseFails(c) ==
  /\ Mishap /\ does[c] \notin {"idle", "done"}
  /\ does' = [does EXCEPT ![c] = IF @ \in Caught THEN "error" ELSE "done"]
  /\ broken' = IF does[c] \in Caught THEN broken ELSE broken \cup {c}
  /\ UNCHANGED <<deviceState, command, row, audit, revoking, intervals>>

Execute(c) ==
  \/ ReadPresence(c) \/ Dispatch(c) \/ LogAudit(c)
  \/ Record(c, "reject", "REJECTED", "auditRejected")
  \/ Record(c, "pending", "PENDING", "dispatch")
  \/ Record(c, "complete", "COMPLETED", "auditCompleted")
  \/ Record(c, "fail", "FAILED", "auditFailed")
  \/ Record(c, "error", "FAILED", "auditError")

-----------------------------------------------------------------------------
(* The device, the Master's process, and the client's local web UI. *)

DeviceChanges ==
  /\ Mishap
  /\ \/ paired /\ online' = ~online /\ UNCHANGED paired
     \/ ~paired /\ online' = TRUE /\ paired' = TRUE
  /\ UNCHANGED <<does, command, records, intervals>>

MasterCrashes ==
  LET cut == {c \in Commands : does[c] \notin {"idle", "done"}}
  IN  /\ Mishap /\ cut # {}
      /\ does' = [c \in Commands |-> IF c \in cut THEN "done" ELSE does[c]]
      /\ broken' = broken \cup cut
      /\ UNCHANGED <<deviceState, command, row, audit, revoking, intervals>>

LocalCommand ==
  /\ Mishap
  /\ \E type \in Types, p \in Policies \cup {NoParameters} :
       intervals' = ClientHandles(type, p, intervals)
  /\ UNCHANGED <<deviceState, does, command, records>>

ClientRestart ==
  Mishap /\ intervals' = Defaults /\ UNCHANGED <<deviceState, does, command, records>>

CommandNext ==
  \/ \E c \in Commands : AskFor(c) \/ Execute(c) \/ DatabaseFails(c)
  \/ DeviceChanges \/ MasterCrashes \/ LocalCommand \/ ClientRestart

CommandSpec == CommandInit /\ [][CommandNext]_commandVars

-----------------------------------------------------------------------------
(* Properties. *)

CommandStages == {"idle", "read", "reject", "pending", "dispatch", "complete", "fail", "error",
           "done"} \cup DOMAIN Entry

CommandTypeOK ==
  /\ online \in BOOLEAN /\ paired \in BOOLEAN
  /\ does \in [Commands -> CommandStages]
  /\ command \in [Commands -> [type : Allowed \cup {"none"}, params : Policy]]
  /\ row \in [Commands -> {"none", "REJECTED", "PENDING", "COMPLETED", "FAILED"}]
  /\ audit \in [Commands -> Seq({Entry[s] : s \in DOMAIN Entry})]
  /\ revoking \subseteq Commands /\ broken \subseteq Commands
  /\ intervals.telemetry \in TelemetrySafe /\ intervals.scan \in ScanSafe
  /\ mishaps \in 0..MaxMishaps

Honoured(p) ==
  /\ ClientAccepts(p)
  /\ p.telemetry \in {Absent, ClientSets(p, intervals).telemetry}
  /\ p.scan \in {Absent, ClientSets(p, intervals).scan}

\* Whatever fails in between, a command has at most one entry in the audit log,
\* which says what its record says; a request that returns has left one, and no
\* command pending; a session was ended by a command unless that was rejected, and
\* is ended when the log says completed.  A monitoring policy recorded as completed
\* is one that the client's handler, which validates on its own, would put in force
\* in full.
RecordTellsTheTruth ==
  \A c \in Commands :
    LET ends == command[c].type = "REAUTHENTICATE_AGENT"
    IN  /\ Len(audit[c]) <= 1
        /\ \A i \in DOMAIN audit[c] :
             CASE audit[c][i] = "REFUSED" -> row[c] = "none"
               [] audit[c][i] = "ERROR" -> row[c] = "FAILED"
               [] OTHER -> row[c] = audit[c][i]
        /\ does[c] = "done" /\ row[c] # "none" /\ c \notin broken =>
             audit[c] # <<>> /\ row[c] # "PENDING"
        /\ c \in revoking => ends /\ row[c] \notin {"none", "REJECTED"} /\ audit[c] # <<"FAILED">>
        /\ ends /\ row[c] = "COMPLETED" => c \in revoking
        /\ row[c] = "COMPLETED" => Honoured(command[c].params)
=============================================================================
