---------------------------- MODULE DeviceHealth ----------------------------
(***************************************************************************)
(* The Master's health assessment of one device and its alerts table.  A   *)
(* request reads the presence, the telemetry and the log counts in that    *)
(* order and computes the score and the alerts that hold.  A health check  *)
(* then brings the table in line: it reads the open rows, inserts what is  *)
(* missing and resolves what has cleared, in one transaction that starts   *)
(* at its first write.  Requests run in threads, so a statement of one     *)
(* falls between any two of another, and the device reports meanwhile.     *)
(*                                                                         *)
(* Of the telemetry only the newest record decides an alert; the history   *)
(* enters the score alone, which HealthScore relates to the alerts for     *)
(* every snapshot, the torn ones included.                                 *)
(***************************************************************************)
EXTENDS HealthScore

CONSTANTS
  Evaluators,   \* requests that assess the device
  Loads,        \* telemetry records the client sends
  LogStates,    \* log counts the device may have
  MaxChanges    \* bound on what happens to the device and on failures

NoLogs == [warn1h |-> 0, crit1h |-> 0, warn24h |-> 0, crit24h |-> 0]

ASSUME HealthAssumption ==
  /\ Loads \subseteq Records /\ LogStates \subseteq Counts /\ NoLogs \in LogStates
  /\ MaxChanges \in Nat

VARIABLES
  up,       \* devices.status = 'online'
  latest,   \* the newest telemetry record, a sequence of at most one
  counts,   \* the log counts
  alerts,   \* for each alert type its rows, in the order of their ids
  stage,    \* what each request does next
  seen,     \* what it has read of the device so far
  active,   \* the alerts it found to hold
  opened,   \* for each type the open row it found, 0 for none
  changes   \* what has happened to the device so far

deviceVars == <<up, latest, counts>>
requestVars == <<stage, seen, active, opened>>
healthVars == <<deviceVars, alerts, requestVars, changes>>

Stages == {"idle", "latest", "logs", "open", "write"}
NothingSeen == [online |-> FALSE, latest |-> <<>>, history |-> <<>>, logs |-> NoLogs]
NoneOpen == [a \in AlertTypes |-> 0]

HealthInit ==
  /\ up \in BOOLEAN
  /\ latest = <<>>
  /\ counts = NoLogs
  /\ alerts = [a \in AlertTypes |-> <<>>]
  /\ stage = [e \in Evaluators |-> "idle"]
  /\ seen = [e \in Evaluators |-> NothingSeen]
  /\ active = [e \in Evaluators |-> {}]
  /\ opened = [e \in Evaluators |-> NoneOpen]
  /\ changes = 0

-----------------------------------------------------------------------------
(* The device, as the rest of the Master records it. *)

Change ==
  /\ changes < MaxChanges /\ changes' = changes + 1
  /\ UNCHANGED <<alerts, requestVars>>

PresenceChanges == Change /\ up' = ~up /\ UNCHANGED <<latest, counts>>

\* Telemetry sets the device online, and a usage from 90 percent on is logged as a
\* warning of its own.
HighUsages(t) == Cardinality({r \in DOMAIN t : Reaches(t[r], 90)})

TelemetryArrives ==
  /\ Change
  /\ \E t \in Loads :
       /\ latest' = <<t>>
       /\ counts' = [counts EXCEPT !.warn1h = @ + HighUsages(t), !.warn24h = @ + HighUsages(t)]
  /\ up' = TRUE

LogsChange ==
  Change /\ counts' \in LogStates \ {counts} /\ UNCHANGED <<up, latest>>

-----------------------------------------------------------------------------
(* A request. *)

Advance(e, from, to) == stage[e] = from /\ stage' = [stage EXCEPT ![e] = to]

\* The request returns, and its local variables are gone.
Returns(e, from) ==
  /\ Advance(e, from, "idle")
  /\ seen' = [seen EXCEPT ![e] = NothingSeen]
  /\ active' = [active EXCEPT ![e] = {}]
  /\ opened' = [opened EXCEPT ![e] = NoneOpen]

ReadDevice(e) ==
  /\ Advance(e, "idle", "latest")
  /\ seen' = [seen EXCEPT ![e].online = up]
  /\ UNCHANGED <<deviceVars, alerts, active, opened, changes>>

ReadLatest(e) ==
  /\ Advance(e, "latest", "logs")
  /\ seen' = [seen EXCEPT ![e].latest = latest]
  /\ UNCHANGED <<deviceVars, alerts, active, opened, changes>>

\* The assessment is complete: a look at the device's health returns it, a
\* health check goes on to the alerts table.
ReadLogs(e) ==
  /\ \/ /\ Advance(e, "logs", "open")
        /\ active' = [active EXCEPT ![e] = ActiveAlerts([seen[e] EXCEPT !.logs = counts])]
        /\ seen' = [seen EXCEPT ![e] = NothingSeen]
        /\ UNCHANGED opened
     \/ Returns(e, "logs")
  /\ UNCHANGED <<deviceVars, alerts, changes>>

OpenRows(a) == {i \in DOMAIN alerts[a] : alerts[a][i].status = "open"}

\* Of several open rows of one type the last one read stands for the type.
LastOpen(a) ==
  IF OpenRows(a) = {} THEN 0
  ELSE CHOOSE i \in OpenRows(a) : \A j \in OpenRows(a) : j <= i

SelectOpen(e) ==
  /\ Advance(e, "open", "write")
  /\ opened' = [opened EXCEPT ![e] = [a \in AlertTypes |-> LastOpen(a)]]
  /\ UNCHANGED <<deviceVars, alerts, seen, active, changes>>

\* Faulty variants: a resolved row is deleted; what is open is not looked at; and
\* nothing is resolved.
SyncedDeleting(e, a) ==
  LET row == opened[e][a]
  IN  CASE a \in active[e] /\ row = 0 -> Append(alerts[a], [by |-> e, status |-> "open"])
        [] a \notin active[e] /\ row # 0 ->
             SubSeq(alerts[a], 1, row - 1) \o SubSeq(alerts[a], row + 1, Len(alerts[a]))
        [] OTHER -> alerts[a]

SyncedUnread(e, a) ==
  LET row == opened[e][a]
  IN  CASE a \in active[e] -> Append(alerts[a], [by |-> e, status |-> "open"])
        [] a \notin active[e] /\ row # 0 -> [alerts[a] EXCEPT ![row].status = "resolved"]
        [] OTHER -> alerts[a]

SyncedKeeping(e, a) ==
  IF a \in active[e] /\ opened[e][a] = 0
  THEN Append(alerts[a], [by |-> e, status |-> "open"]) ELSE alerts[a]

\* The rows of type a after request e has inserted or resolved its own: by names
\* the request that inserted a row.
Synced(e, a) ==
  LET row == opened[e][a]
  IN  CASE a \in active[e] /\ row = 0 -> Append(alerts[a], [by |-> e, status |-> "open"])
        [] a \notin active[e] /\ row # 0 -> [alerts[a] EXCEPT ![row].status = "resolved"]
        [] OTHER -> alerts[a]

WriteAlerts(e) ==
  /\ alerts' = [a \in AlertTypes |-> Synced(e, a)]
  /\ Returns(e, "write")
  /\ UNCHANGED <<deviceVars, changes>>

\* A database error rolls the writes back; the request returns all the same.
SyncFails(e) ==
  /\ changes < MaxChanges /\ changes' = changes + 1
  /\ Returns(e, "open") \/ Returns(e, "write")
  /\ UNCHANGED <<deviceVars, alerts>>

Continue(e) == ReadLatest(e) \/ ReadLogs(e) \/ SelectOpen(e) \/ WriteAlerts(e)

HealthNext ==
  \/ PresenceChanges \/ TelemetryArrives \/ LogsChange
  \/ \E e \in Evaluators : ReadDevice(e) \/ Continue(e) \/ SyncFails(e)

\* A request the web server has begun is finished.
HealthFairness == \A e \in Evaluators : WF_healthVars(Continue(e))

HealthSpec == HealthInit /\ [][HealthNext]_healthVars /\ HealthFairness

-----------------------------------------------------------------------------
(* Properties. *)

Row == [by : Evaluators, status : {"open", "resolved"}]

HealthTypeOK ==
  /\ up \in BOOLEAN /\ latest \in Seq(Loads) /\ counts \in [DOMAIN NoLogs -> Nat]
  /\ alerts \in [AlertTypes -> Seq(Row)]
  /\ stage \in [Evaluators -> Stages]
  /\ active \in [Evaluators -> SUBSET AlertTypes]
  /\ opened \in [Evaluators -> [AlertTypes -> Nat]]
  /\ \A e \in Evaluators, a \in AlertTypes : opened[e][a] \in 0..Len(alerts[a])
  /\ changes \in 0..MaxChanges

\* However health checks interleave, a request never has two open rows of one
\* type: a persistent condition has at most one open alert per concurrent
\* request, and with one request at a time the table is free of duplicates.
OneOpenAlertPerRequest ==
  \A a \in AlertTypes : \A i, j \in OpenRows(a) :
    alerts[a][i].by = alerts[a][j].by => i = j

\* If health checks keep coming, the open alerts come to be those that hold of
\* the device and stay so: what a stale or concurrent check leaves behind is
\* cleared by later ones.
AlertsSettle ==
  LET exact == {a \in AlertTypes : OpenRows(a) # {}} =
               ActiveAlerts([online |-> up, history |-> <<>>, logs |-> counts, latest |-> latest])
  IN  []<>(\E e \in Evaluators : stage[e] = "write") => <>[]exact
=============================================================================
