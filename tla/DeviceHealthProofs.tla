------------------------- MODULE DeviceHealthProofs -------------------------
(***************************************************************************)
(* Proofs about the health of a device.                                    *)
(*                                                                         *)
(* DeviceHealth, for any number of concurrent requests, any telemetry and  *)
(* log counts, and any bound on what happens to the device: type           *)
(* correctness, and that no request ever has two open rows of one alert    *)
(* type.  The second rests on what a request remembers between its SELECT  *)
(* and its writes: no open row of its own.                                 *)
(*                                                                         *)
(* HealthScore: how score, alerts and anomalies agree, for every snapshot, *)
(* any usages of 0 to 100 percent and any log counts.  The checked         *)
(* instance, MCDeviceHealth, looks at a few usages on each side of the     *)
(* thresholds.  The argument is one of bounds: what a part without its     *)
(* alert is worth at least, what a saturated resource leaves at most, and  *)
(* that each partial score, cap and rounding keeps the order.              *)
(***************************************************************************)
EXTENDS MCDeviceHealth, FiniteSetTheorems, SequenceTheorems, WellFoundedInduction, TLAPS

(***************************************************************************)
(* The alerts table.                                                       *)
(***************************************************************************)
\* A set of naturals has a least element, and one that is bounded a greatest.
LEMMA Least ==
  ASSUME NEW T \in SUBSET Nat, T # {}
  PROVE  \E x \in T : \A y \in T : x <= y
<1> DEFINE Below == {ss \in Nat \X Nat : ss[1] < ss[2]}
<1>1. IsWellFoundedOn(Below, Nat)
  BY NatLessThanWellFounded DEF OpToRel
<1>2. \E x \in T : \A y \in T : ~ (<<y, x>> \in Below)
  <2> HIDE DEF Below
  <2> QED  BY <1>1, WFMin
<1>3. PICK x \in T : \A y \in T : ~ (<<y, x>> \in Below)
  BY <1>2
<1>4. ASSUME NEW y \in T PROVE x <= y
  <2>1. x \in Nat /\ y \in Nat /\ <<y, x>> \notin Below
    BY <1>3
  <2>2. ~(y < x)
    BY <2>1
  <2> QED  BY <2>1, <2>2
<1> QED  BY <1>4

LEMMA Greatest ==
  ASSUME NEW n \in Nat, NEW T \in SUBSET (1..n), T # {}
  PROVE  \E x \in T : \A y \in T : y <= x
<1> DEFINE Rest == {n - y : y \in T}
<1>1. Rest \in SUBSET Nat /\ Rest # {}
  <2>1. \A y \in T : n - y \in Nat
    OBVIOUS
  <2> QED  BY <2>1
<1>2. PICK r \in Rest : \A q \in Rest : r <= q
  BY <1>1, Least
<1>3. PICK x \in T : r = n - x
  OBVIOUS
<1>4. ASSUME NEW y \in T PROVE y <= x
  <2>1. n - x <= n - y
    BY <1>2, <1>3
  <2> QED  BY <2>1
<1> QED  BY <1>4

\* The row a request takes note of: the last open one, or 0 when none is open.
LEMMA LastOpenFound ==
  ASSUME NEW a \in AlertTypes, alerts[a] \in Seq(Row)
  PROVE  /\ LastOpen(a) \in 0..Len(alerts[a])
         /\ LastOpen(a) = 0 => OpenRows(a) = {}
<1>1. OpenRows(a) \in SUBSET (1..Len(alerts[a])) /\ Len(alerts[a]) \in Nat
  BY DEF OpenRows
<1>2. CASE OpenRows(a) # {}
  <2>1. \E i \in OpenRows(a) : \A j \in OpenRows(a) : j <= i
    BY <1>1, <1>2, Greatest
  <2>2. LastOpen(a) \in OpenRows(a)
    BY <1>2, <2>1 DEF LastOpen
  <2> QED  BY <1>1, <2>2
<1>3. CASE OpenRows(a) = {}
  BY <1>1, <1>3 DEF LastOpen
<1> QED  BY <1>2, <1>3
-----------------------------------------------------------------------------
\* What the writes of a request do to the rows of one type: they append an open
\* row of its own, or close one, or leave them.
LEMMA SyncedRows ==
  ASSUME HealthTypeOK, NEW e \in Evaluators, NEW a \in AlertTypes
  PROVE  /\ Synced(e, a) \in Seq(Row)
         /\ Len(Synced(e, a)) >= Len(alerts[a])
         /\ \A i \in DOMAIN Synced(e, a) :
              Synced(e, a)[i].status = "open" =>
                \/ i \in OpenRows(a) /\ Synced(e, a)[i] = alerts[a][i]
                \/ /\ i = Len(alerts[a]) + 1 /\ i = Len(Synced(e, a))
                   /\ Synced(e, a)[i].by = e /\ opened[e][a] = 0
<1>1. /\ alerts[a] \in Seq(Row) /\ opened[e][a] \in 0..Len(alerts[a])
      /\ Len(alerts[a]) \in Nat
  BY DEF HealthTypeOK
<1>2. CASE a \in active[e] /\ opened[e][a] = 0
  <2> DEFINE new == [by |-> e, status |-> "open"]
  <2>1. new \in Row /\ new.by = e
    BY DEF Row
  <2>2. Synced(e, a) = Append(alerts[a], new)
    BY <1>2 DEF Synced
  <2> HIDE DEF new
  <2> QED  BY <1>1, <1>2, <2>1, <2>2, AppendProperties DEF OpenRows
<1>3. CASE a \notin active[e] /\ opened[e][a] # 0
  <2> DEFINE row == opened[e][a]  closed == [alerts[a][row] EXCEPT !.status = "resolved"]
  <2>1. row \in 1..Len(alerts[a]) /\ alerts[a][row] \in Row
    BY <1>1, <1>3
  <2>2. closed \in Row /\ closed.status # "open"
    BY <2>1 DEF Row
  <2>3. Synced(e, a) = [alerts[a] EXCEPT ![row] = closed]
    BY <1>3 DEF Synced
  <2> HIDE DEF row, closed
  <2> QED  BY <1>1, <2>1, <2>2, <2>3, ExceptSeq DEF OpenRows
<1>4. CASE ~(a \in active[e] /\ opened[e][a] = 0) /\ ~(a \notin active[e] /\ opened[e][a] # 0)
  <2>1. Synced(e, a) = alerts[a]
    BY <1>4 DEF Synced
  <2> QED  BY <1>1, <2>1 DEF OpenRows
<1> QED  BY <1>2, <1>3, <1>4
-----------------------------------------------------------------------------
\* Between its SELECT and its writes a request that found no open row of a type
\* has none of its own in the table.
FoundNone ==
  \A e \in Evaluators, a \in AlertTypes :
    stage[e] = "write" /\ opened[e][a] = 0 => \A i \in OpenRows(a) : alerts[a][i].by # e

HealthInv == HealthTypeOK /\ FoundNone /\ OneOpenAlertPerRequest

\* What every step leaves of the types of the device and of the request.
Calm == UNCHANGED <<deviceVars, changes>>

LEMMA ChangeTypes ==
  ASSUME HealthTypeOK, PresenceChanges \/ TelemetryArrives \/ LogsChange
  PROVE  HealthTypeOK'
<1> USE DEF HealthTypeOK
<1>1. changes' \in 0..MaxChanges
  <2>1. Change
    BY DEF PresenceChanges, TelemetryArrives, LogsChange
  <2> QED  BY <2>1, HealthAssumption DEF Change
<1>2. CASE PresenceChanges
  BY <1>1, <1>2 DEF PresenceChanges, Change, requestVars
<1>3. CASE TelemetryArrives
  <2>1. PICK t \in Loads : latest' = <<t>> /\
          counts' = [counts EXCEPT !.warn1h = @ + HighUsages(t), !.warn24h = @ + HighUsages(t)]
    BY <1>3 DEF TelemetryArrives
  <2>2. HighUsages(t) \in Nat
    <3>1. DOMAIN t = {"cpu", "ram", "disk"}
      BY HealthAssumption DEF Records
    <3>2. IsFiniteSet({"cpu", "ram", "disk"})
      <4>1. IsFiniteSet({"cpu"}) /\ IsFiniteSet({"cpu"} \cup {"ram"})
        BY FS_EmptySet, FS_AddElement, FS_Singleton
      <4>2. IsFiniteSet(({"cpu"} \cup {"ram"}) \cup {"disk"})
        BY <4>1, FS_AddElement
      <4>3. ({"cpu"} \cup {"ram"}) \cup {"disk"} = {"cpu", "ram", "disk"}
        OBVIOUS
      <4> QED  BY <4>2, <4>3
    <3> DEFINE high == {r \in DOMAIN t : Reaches(t[r], 90)}
    <3>3. high \in SUBSET {"cpu", "ram", "disk"}
      BY <3>1
    <3>4. IsFiniteSet(high)
      BY <3>2, <3>3, FS_Subset
    <3> QED  BY <3>4, FS_CardinalityType DEF HighUsages
  <2>3. counts' \in [DOMAIN NoLogs -> Nat]
    <3>1. DOMAIN NoLogs = {"warn1h", "crit1h", "warn24h", "crit24h"}
      BY DEF NoLogs
    <3> HIDE DEF NoLogs
    <3>2. \A n \in Nat : n + HighUsages(t) \in Nat
      BY <2>2
    <3> QED  BY <2>1, <3>1, <3>2
  <2>4. latest' \in Seq(Loads)
    BY <2>1
  <2> QED  BY <1>1, <1>3, <2>3, <2>4 DEF TelemetryArrives, Change, requestVars
<1>4. CASE LogsChange
  <2>1. counts' \in [DOMAIN NoLogs -> Nat]
    <3>1. counts' \in [warn1h : LogCounts, crit1h : LogCounts,
                       warn24h : LogCounts, crit24h : LogCounts]
      BY <1>4, HealthAssumption DEF LogsChange, Counts
    <3>2. DOMAIN NoLogs = {"warn1h", "crit1h", "warn24h", "crit24h"}
      BY DEF NoLogs
    <3> QED  BY <3>1, <3>2, ScoreAssumption
  <2> QED  BY <1>1, <1>4, <2>1 DEF LogsChange, Change, requestVars
<1> QED  BY <1>2, <1>3, <1>4

LEMMA ReturnTypes ==
  ASSUME HealthTypeOK, NEW e \in Evaluators, NEW from, Returns(e, from)
  PROVE  /\ stage' \in [Evaluators -> Stages]
         /\ active' \in [Evaluators -> SUBSET AlertTypes]
         /\ opened' \in [Evaluators -> [AlertTypes -> Nat]]
         /\ \A d \in Evaluators, a \in AlertTypes :
              stage'[d] = "write" => d # e /\ stage[d] = "write" /\ opened'[d] = opened[d]
         /\ \A d \in Evaluators, a \in AlertTypes :
              /\ opened'[d][a] = 0 \/ opened'[d][a] = opened[d][a]
              /\ opened'[d][a] \in 0..Len(alerts[a])
<1>1. \A a \in AlertTypes : Len(alerts[a]) \in Nat
  BY DEF HealthTypeOK
<1>2. \A d \in Evaluators, a \in AlertTypes :
        opened'[d][a] = 0 \/ opened'[d][a] = opened[d][a]
  BY DEF HealthTypeOK, Returns, NoneOpen
<1>3. \A d \in Evaluators, a \in AlertTypes : opened'[d][a] \in 0..Len(alerts[a])
  BY <1>1, <1>2 DEF HealthTypeOK
<1> QED  BY <1>2, <1>3 DEF HealthTypeOK, Returns, Advance, NoneOpen, Stages

LEMMA ActiveAlertsTypes == ASSUME NEW s PROVE ActiveAlerts(s) \subseteq AlertTypes
BY DEF ActiveAlerts, AlertTypes

LEMMA RequestTypes ==
  ASSUME HealthTypeOK, NEW e \in Evaluators, ReadDevice(e) \/ Continue(e) \/ SyncFails(e)
  PROVE  HealthTypeOK'
<1> USE DEF HealthTypeOK
<1>1. CASE ReadDevice(e) \/ ReadLatest(e)
  BY <1>1 DEF ReadDevice, ReadLatest, Advance, Stages, deviceVars
<1>2. CASE ReadLogs(e)
  <2>1. CASE Returns(e, "logs")
    BY <1>2, <2>1, ReturnTypes DEF ReadLogs, deviceVars
  <2>2. CASE /\ Advance(e, "logs", "open") /\ UNCHANGED opened
             /\ active' = [active EXCEPT ![e] = ActiveAlerts([seen[e] EXCEPT !.logs = counts])]
    BY <1>2, <2>2, ActiveAlertsTypes DEF ReadLogs, Advance, Stages, deviceVars
  <2> QED  BY <1>2, <2>1, <2>2 DEF ReadLogs
<1>3. CASE SelectOpen(e)
  <2>1. \A a \in AlertTypes : LastOpen(a) \in 0..Len(alerts[a]) /\ Len(alerts[a]) \in Nat
    BY LastOpenFound
  <2>2. opened' \in [Evaluators -> [AlertTypes -> Nat]]
    BY <1>3, <2>1 DEF SelectOpen
  <2>3. \A d \in Evaluators, a \in AlertTypes : opened'[d][a] \in 0..Len(alerts'[a])
    BY <1>3, <2>1 DEF SelectOpen
  <2> QED  BY <1>3, <2>2, <2>3 DEF SelectOpen, Advance, Stages, deviceVars
<1>4. CASE WriteAlerts(e)
  <2>1. \A a \in AlertTypes :
          alerts'[a] = Synced(e, a) /\ alerts'[a] \in Seq(Row) /\ Len(alerts'[a]) >= Len(alerts[a])
    BY <1>4, SyncedRows DEF WriteAlerts
  <2>2. alerts' \in [AlertTypes -> Seq(Row)]
    BY <1>4, <2>1 DEF WriteAlerts
  <2>3. \A d \in Evaluators, a \in AlertTypes : opened'[d][a] \in 0..Len(alerts'[a])
    <3> SUFFICES ASSUME NEW d \in Evaluators, NEW a \in AlertTypes
                 PROVE  opened'[d][a] \in 0..Len(alerts'[a])
      OBVIOUS
    <3>1. opened'[d][a] = 0 \/ opened'[d][a] = opened[d][a]
      BY <1>4, ReturnTypes DEF WriteAlerts
    <3>2. opened[d][a] \in 0..Len(alerts[a]) /\ Len(alerts'[a]) \in Nat /\ Len(alerts[a]) \in Nat
      BY <2>1
    <3> QED  BY <2>1, <3>1, <3>2
  <2> QED  BY <1>4, <2>2, <2>3, ReturnTypes DEF WriteAlerts, deviceVars
<1>5. CASE SyncFails(e)
  <2>1. changes' \in 0..MaxChanges
    BY <1>5, HealthAssumption DEF SyncFails
  <2>2. \A d \in Evaluators, a \in AlertTypes : opened'[d][a] \in 0..Len(alerts[a])
    BY <1>5, ReturnTypes DEF SyncFails
  <2> QED  BY <1>5, <2>1, <2>2, ReturnTypes DEF SyncFails, deviceVars
<1> QED  BY <1>1, <1>2, <1>3, <1>4, <1>5 DEF Continue

LEMMA TypesKept == ASSUME HealthTypeOK, [HealthNext]_healthVars PROVE HealthTypeOK'
<1>1. CASE UNCHANGED healthVars
  BY <1>1 DEF HealthTypeOK, healthVars, deviceVars, requestVars
<1>2. CASE HealthNext
  BY <1>2, ChangeTypes, RequestTypes DEF HealthNext
<1> QED  BY <1>1, <1>2
-----------------------------------------------------------------------------
\* A step that is not a write to the alerts table keeps the rows; only a SELECT
\* brings a request to its writes, and it sees whether a row is open.
LEMMA QuietStep ==
  ASSUME HealthInv, UNCHANGED alerts,
         \A e \in Evaluators : stage'[e] = "write" =>
           \/ stage[e] = "write" /\ opened'[e] = opened[e]
           \/ \A a \in AlertTypes : opened'[e][a] = 0 => OpenRows(a) = {}
  PROVE  FoundNone' /\ OneOpenAlertPerRequest'
<1>1. \A a \in AlertTypes : OpenRows(a)' = OpenRows(a)
  BY DEF OpenRows
<1> QED  BY <1>1 DEF HealthInv, FoundNone, OneOpenAlertPerRequest

LEMMA WritingStep ==
  ASSUME HealthInv, NEW e \in Evaluators, WriteAlerts(e)
  PROVE  FoundNone' /\ OneOpenAlertPerRequest'
<1>1. \A a \in AlertTypes : alerts'[a] = Synced(e, a)
  BY DEF WriteAlerts
<1>2. stage[e] = "write"
  BY DEF WriteAlerts, Returns, Advance
<1>3. ASSUME NEW a \in AlertTypes, NEW i \in OpenRows(a)'
      PROVE  \/ i \in OpenRows(a) /\ alerts'[a][i] = alerts[a][i]
             \/ /\ i = Len(alerts[a]) + 1 /\ i = Len(alerts'[a])
                /\ alerts'[a][i].by = e /\ opened[e][a] = 0
  BY <1>1, <1>3, SyncedRows DEF HealthInv, OpenRows
<1>4. FoundNone'
  <2> SUFFICES ASSUME NEW d \in Evaluators, NEW a \in AlertTypes,
                      stage'[d] = "write", opened'[d][a] = 0, NEW i \in OpenRows(a)'
               PROVE  alerts'[a][i].by # d
    BY DEF FoundNone
  <2>1. d # e /\ stage[d] = "write" /\ opened[d][a] = 0
    BY ReturnTypes DEF WriteAlerts, HealthInv
  <2> QED  BY <1>3, <2>1 DEF HealthInv, FoundNone
<1>5. OneOpenAlertPerRequest'
  <2> SUFFICES ASSUME NEW a \in AlertTypes, NEW i \in OpenRows(a)', NEW j \in OpenRows(a)',
                      alerts'[a][i].by = alerts'[a][j].by
               PROVE  i = j
    BY DEF OneOpenAlertPerRequest
  <2> QED  BY <1>2, <1>3 DEF HealthInv, FoundNone, OneOpenAlertPerRequest
<1> QED  BY <1>4, <1>5

LEMMA InvKept == ASSUME HealthInv, [HealthNext]_healthVars PROVE HealthInv'
<1>1. HealthTypeOK'
  BY TypesKept DEF HealthInv
<1>2. CASE UNCHANGED healthVars
  <2>1. UNCHANGED <<alerts, stage, opened>>
    BY <1>2 DEF healthVars, requestVars
  <2> QED  BY <1>1, <2>1, QuietStep DEF HealthInv
<1>3. CASE PresenceChanges \/ TelemetryArrives \/ LogsChange
  <2>1. UNCHANGED <<alerts, stage, opened>>
    BY <1>3 DEF PresenceChanges, TelemetryArrives, LogsChange, Change, requestVars
  <2> QED  BY <1>1, <2>1, QuietStep DEF HealthInv
<1>4. ASSUME NEW e \in Evaluators, ReadDevice(e) \/ ReadLatest(e) PROVE HealthInv'
  <2>1. /\ UNCHANGED <<alerts, opened>>
        /\ \A d \in Evaluators : stage'[d] = "write" => stage[d] = "write"
    BY <1>4 DEF ReadDevice, ReadLatest, Advance, HealthInv, HealthTypeOK
  <2> QED  BY <1>1, <2>1, QuietStep DEF HealthInv
<1>5. ASSUME NEW e \in Evaluators, ReadLogs(e) \/ SyncFails(e) PROVE HealthInv'
  <2>1. /\ UNCHANGED alerts
        /\ \A d \in Evaluators : stage'[d] = "write" =>
             stage[d] = "write" /\ opened'[d] = opened[d]
    <3>1. ASSUME NEW from, Returns(e, from), NEW d \in Evaluators, stage'[d] = "write"
          PROVE  stage[d] = "write" /\ opened'[d] = opened[d]
      BY <3>1 DEF Returns, Advance, HealthInv, HealthTypeOK
    <3>2. ASSUME Advance(e, "logs", "open"), UNCHANGED opened,
                 NEW d \in Evaluators, stage'[d] = "write"
          PROVE  stage[d] = "write" /\ opened'[d] = opened[d]
      BY <3>2 DEF Advance, HealthInv, HealthTypeOK
    <3> QED  BY <1>5, <3>1, <3>2 DEF ReadLogs, SyncFails
  <2> QED  BY <1>1, <2>1, QuietStep DEF HealthInv
<1>6. ASSUME NEW e \in Evaluators, SelectOpen(e) PROVE HealthInv'
  <2>1. ASSUME NEW d \in Evaluators, stage'[d] = "write"
        PROVE  \/ stage[d] = "write" /\ opened'[d] = opened[d]
               \/ \A a \in AlertTypes : opened'[d][a] = 0 => OpenRows(a) = {}
    <3>1. CASE d = e
      <4>1. \A a \in AlertTypes : opened'[e][a] = LastOpen(a)
        BY <1>6 DEF SelectOpen, HealthInv, HealthTypeOK
      <4> QED  BY <3>1, <4>1, LastOpenFound DEF HealthInv, HealthTypeOK
    <3>2. CASE d # e
      BY <1>6, <2>1, <3>2 DEF SelectOpen, Advance, HealthInv, HealthTypeOK
    <3> QED  BY <3>1, <3>2
  <2>2. UNCHANGED alerts
    BY <1>6 DEF SelectOpen
  <2> QED  BY <1>1, <2>1, <2>2, QuietStep DEF HealthInv
<1>7. ASSUME NEW e \in Evaluators, WriteAlerts(e) PROVE HealthInv'
  BY <1>1, <1>7, WritingStep DEF HealthInv
<1> QED
  BY <1>2, <1>3, <1>4, <1>5, <1>6, <1>7 DEF HealthNext, Continue

\* What the two properties rest on always holds.
THEOREM HealthInvariance == HealthSpec => []HealthInv
<1>1. HealthInit => HealthInv
  <2> SUFFICES ASSUME HealthInit PROVE HealthInv
    OBVIOUS
  <2>1. HealthTypeOK
    <3>1. counts \in [DOMAIN NoLogs -> Nat]
      BY DEF HealthInit, NoLogs
    <3>2. active \in [Evaluators -> SUBSET AlertTypes] /\ alerts \in [AlertTypes -> Seq(Row)]
      BY DEF HealthInit
    <3>3. opened \in [Evaluators -> [AlertTypes -> Nat]] /\ stage \in [Evaluators -> Stages]
      BY DEF HealthInit, NoneOpen, Stages
    <3>4. \A e \in Evaluators, a \in AlertTypes : opened[e][a] = 0 /\ Len(alerts[a]) = 0
      BY DEF HealthInit, NoneOpen
    <3> QED  BY <3>1, <3>2, <3>3, <3>4, HealthAssumption DEF HealthInit, HealthTypeOK
  <2>2. \A e \in Evaluators : stage[e] # "write"
    BY DEF HealthInit
  <2>3. \A a \in AlertTypes : OpenRows(a) = {}
    BY DEF HealthInit, OpenRows
  <2> QED  BY <2>1, <2>2, <2>3 DEF HealthInv, FoundNone, OneOpenAlertPerRequest
<1>2. HealthInv /\ [HealthNext]_healthVars => HealthInv'
  BY InvKept
<1> QED  BY <1>1, <1>2, PTL DEF HealthSpec

\* Device, alerts table and requests keep their types; a request that has read the
\* table remembers a row of it.
THEOREM TypeCorrect == HealthSpec => []HealthTypeOK
<1>1. HealthInv => HealthTypeOK
  BY DEF HealthInv
<1> QED  BY <1>1, HealthInvariance, PTL

\* However many health checks run at once, none of them ever has two open rows of
\* one alert type.
THEOREM OneOpenAlert == HealthSpec => []OneOpenAlertPerRequest
<1>1. HealthInv => OneOpenAlertPerRequest
  BY DEF HealthInv
<1> QED  BY <1>1, HealthInvariance, PTL

(***************************************************************************)
(* Score, alerts and anomalies.                                            *)
(***************************************************************************)
Latest == {<<>>} \cup {<<t>> : t \in Records}
Snapshots == [online : BOOLEAN, latest : Latest, history : Seq(Records), logs : Counts]

\* The newest record is among those of the period.
Covered(s) == s.latest # <<>> => \E i \in DOMAIN s.history : s.history[i] = s.latest[1]

-----------------------------------------------------------------------------
(* Rounding. *)

LEMMA Division ==
  ASSUME NEW n \in Nat, NEW d \in {10, 1000}
  PROVE  n \div d \in Nat /\ n % d \in 0..d - 1 /\ n = d * (n \div d) + (n % d)
<1>1. CASE d = 10
  BY <1>1
<1>2. CASE d = 1000
  BY <1>2
<1> QED  BY <1>1, <1>2

LEMMA Rounded ==
  ASSUME NEW n \in Nat, NEW d \in {10, 1000}
  PROVE  RoundTo(n, d) \in Nat /\ 2 * d * RoundTo(n, d) <= 2 * n + d
         /\ 2 * n <= 2 * d * RoundTo(n, d) + d
<1>1. PICK q \in Nat, r \in 0..d - 1 : q = n \div d /\ r = n % d /\ n = d * q + r
  BY Division
<1>2. RoundTo(n, d) = IF 2 * r > d \/ (2 * r = d /\ q % 2 = 1) THEN q + 1 ELSE q
  BY <1>1 DEF RoundTo
<1>3. CASE d = 10
  BY <1>1, <1>2, <1>3
<1>4. CASE d = 1000
  BY <1>1, <1>2, <1>4
<1> QED  BY <1>3, <1>4

\* Rounding keeps the order, ties to the even number included.
LEMMA RoundingKeepsOrder ==
  ASSUME NEW m \in Nat, NEW n \in Nat, m <= n, NEW d \in {10, 1000}
  PROVE  RoundTo(m, d) <= RoundTo(n, d)
<1>1. PICK p \in Nat, r \in 0..d - 1 : p = m \div d /\ r = m % d /\ m = d * p + r
  BY Division
<1>2. PICK q \in Nat, t \in 0..d - 1 : q = n \div d /\ t = n % d /\ n = d * q + t
  BY Division
<1>3. RoundTo(m, d) = IF 2 * r > d \/ (2 * r = d /\ p % 2 = 1) THEN p + 1 ELSE p
  BY <1>1 DEF RoundTo
<1>4. RoundTo(n, d) = IF 2 * t > d \/ (2 * t = d /\ q % 2 = 1) THEN q + 1 ELSE q
  BY <1>2 DEF RoundTo
<1>5. p < q \/ (p = q /\ r <= t)
  <2>1. CASE d = 10
    BY <1>1, <1>2, <2>1
  <2>2. CASE d = 1000
    BY <1>1, <1>2, <2>2
  <2> QED  BY <2>1, <2>2
<1> QED  BY <1>1, <1>2, <1>3, <1>4, <1>5

-----------------------------------------------------------------------------
(* Partial scores. *)

LEMMA LevelScores ==
  ASSUME NEW u \in Readings
  PROVE  /\ LevelScore(u) \in {10, 40, 75, 100}
         /\ Reaches(u, 95) => LevelScore(u) = 10
  BY ScoreAssumption DEF LevelScore, Reaches, Readings

LEMMA LevelsReached ==
  ASSUME NEW u \in Readings
  PROVE  /\ LevelScore(u) < 75 => Reaches(u, 85)
         /\ LevelScore(u) < 100 => Reaches(u, 70)
         /\ Reaches(u, 95) => Reaches(u, 70) /\ Reaches(u, 85) /\ Reaches(u, 90)
  BY ScoreAssumption DEF LevelScore, Reaches, Readings

LEMMA LevelsKeepOrder ==
  ASSUME NEW v \in Readings, NEW u \in Usages, v = NoValue \/ u >= v
  PROVE  LevelScore(u) <= LevelScore(v)
  BY ScoreAssumption DEF LevelScore, Reaches, Readings

LEMMA ResourceSum ==
  ASSUME NEW t \in Records
  PROVE  \E n \in Nat :
           /\ n = 35 * LevelScore(t.cpu) + 35 * LevelScore(t.ram) + 30 * LevelScore(t.disk)
           /\ ResourceScore(t) \in Nat
           /\ 20 * ResourceScore(t) <= 2 * n + 10 /\ 2 * n <= 20 * ResourceScore(t) + 10
<1>1. PICK a, b, c : a = LevelScore(t.cpu) /\ b = LevelScore(t.ram) /\ c = LevelScore(t.disk)
  OBVIOUS
<1>2. a \in {10, 40, 75, 100} /\ b \in {10, 40, 75, 100} /\ c \in {10, 40, 75, 100}
  BY <1>1, LevelScores DEF Records
<1>3. PICK n \in Nat : n = 35 * a + 35 * b + 30 * c
  BY <1>2
<1>4. ResourceScore(t) = RoundTo(n, 10)
  BY <1>1, <1>3 DEF ResourceScore
<1>5. /\ RoundTo(n, 10) \in Nat /\ 20 * RoundTo(n, 10) <= 2 * n + 10
      /\ 2 * n <= 20 * RoundTo(n, 10) + 10
  BY Rounded
<1> QED  BY <1>1, <1>3, <1>4, <1>5

LEMMA ResourceRange == ASSUME NEW t \in Records PROVE ResourceScore(t) \in 0..1000
<1>1. \A r \in {"cpu", "ram", "disk"} : LevelScore(t[r]) \in {10, 40, 75, 100}
  BY LevelScores DEF Records
<1> QED  BY <1>1, ResourceSum

LEMMA SaturatedScore ==
  ASSUME NEW t \in Records, NEW r \in {"cpu", "ram", "disk"}, Reaches(t[r], 95)
  PROVE  ResourceScore(t) <= 750
<1>1. \A k \in {"cpu", "ram", "disk"} : LevelScore(t[k]) \in {10, 40, 75, 100}
  BY LevelScores DEF Records
<1>2. LevelScore(t[r]) = 10
  BY LevelScores DEF Records
<1> QED  BY <1>1, <1>2, ResourceSum

LEMMA ModerateScore ==
  ASSUME NEW t \in Records,
         \A r \in {"cpu", "ram", "disk"} : LevelScore(t[r]) >= 75
  PROVE  ResourceScore(t) >= 750
<1>1. \A k \in {"cpu", "ram", "disk"} : LevelScore(t[k]) \in {75, 100}
  BY LevelScores DEF Records
<1> QED  BY <1>1, ResourceSum

LEMMA FullScore ==
  ASSUME NEW t \in Records,
         \A r \in {"cpu", "ram", "disk"} : LevelScore(t[r]) = 100
  PROVE  ResourceScore(t) = 1000
<1>1. LevelScore(t.cpu) = 100 /\ LevelScore(t.ram) = 100 /\ LevelScore(t.disk) = 100
  OBVIOUS
<1> QED  BY <1>1, ResourceSum

LEMMA LogScores ==
  ASSUME NEW c \in [warn1h : Nat, crit1h : Nat, warn24h : Nat, crit24h : Nat]
  PROVE  /\ LogScore(c) \in 0..1000
         /\ c.warn1h <= c.warn24h /\ c.crit1h <= c.crit24h /\ c.crit24h = 0 =>
              LogScore(c) >= 1000 - 60 * c.warn24h
<1>1. PICK w, v, k, j \in Nat :
        w = c.warn1h /\ v = c.warn24h /\ k = c.crit1h /\ j = c.crit24h
  OBVIOUS
<1>2. PICK a, b : a = MostOf(0, v - w) /\ b = MostOf(0, j - k)
  OBVIOUS
<1>3. a \in Nat /\ b \in Nat /\ (w <= v => a = v - w) /\ (k <= j => b = j - k)
  BY <1>2 DEF MostOf
<1>4. LogScore(c) = MostOf(0, 1000 - 60 * w - 180 * k - 35 * a - 100 * b)
  BY <1>1, <1>2 DEF LogScore
<1>5. PICK n \in Int : n = 1000 - 60 * w - 180 * k - 35 * a - 100 * b
  BY <1>3
<1>6. LogScore(c) = IF 0 > n THEN 0 ELSE n
  BY <1>4, <1>5 DEF MostOf
<1>7. n <= 1000
  BY <1>5, <1>3
<1>8. ASSUME w <= v, k <= j, j = 0 PROVE n >= 1000 - 60 * v
  BY <1>5, <1>8, <1>3
<1> QED  BY <1>1, <1>6, <1>7, <1>8

LEMMA LogCountsType ==
  ASSUME NEW c \in Counts
  PROVE  /\ c \in [warn1h : Nat, crit1h : Nat, warn24h : Nat, crit24h : Nat]
         /\ c.warn1h <= c.warn24h /\ c.crit1h <= c.crit24h
  BY ScoreAssumption DEF Counts

LEMMA TrendScores == ASSUME NEW history PROVE TrendScore(history) \in {400, 750, 1000}
  BY DEF TrendScore

-----------------------------------------------------------------------------
(* The score of a snapshot. *)

\* The weighted sum before rounding.
Raw(s) ==
  IF s.latest = <<>>
  THEN 50 * LogScore(s.logs) + 35 * ConnectivityScore(s.online) + 15 * TrendScore(s.history)
  ELSE LeastOf(40 * ResourceScore(s.latest[1]) + 30 * LogScore(s.logs)
                 + 20 * ConnectivityScore(s.online) + 10 * TrendScore(s.history),
               Cap(ResourceScore(s.latest[1])))

\* What the score is made of, of a snapshot or of one with other counts.
Scored(s) ==
  /\ s.online \in BOOLEAN /\ s.latest \in Latest
  /\ s.logs \in [warn1h : Nat, crit1h : Nat, warn24h : Nat, crit24h : Nat]

LEMMA SnapshotScored == ASSUME NEW s \in Snapshots PROVE Scored(s)
  BY LogCountsType DEF Snapshots, Scored

LEMMA NewestRecord ==
  ASSUME NEW s, Scored(s), s.latest # <<>>
  PROVE  s.latest[1] \in Records /\ s.latest = <<s.latest[1]>>
  BY DEF Scored, Latest

LEMMA LogPart == ASSUME NEW s, Scored(s) PROVE LogScore(s.logs) \in 0..1000
  BY LogScores DEF Scored

LEMMA TrendPart == ASSUME NEW s, Scored(s) PROVE TrendScore(s.history) \in {400, 750, 1000}
  BY TrendScores

LEMMA ResourcesOfNewest ==
  ASSUME NEW s, Scored(s), s.latest # <<>>
  PROVE  ResourceScore(s.latest[1]) \in 0..1000
<1>1. s.latest[1] \in Records
  BY NewestRecord
<1> QED  BY <1>1, ResourceRange, ZenonT(40)

LEMMA RawType == ASSUME NEW s, Scored(s) PROVE Raw(s) \in Nat
<1>1. PICK log, trend, conn : /\ log = LogScore(s.logs) /\ trend = TrendScore(s.history)
                              /\ conn = ConnectivityScore(s.online)
  OBVIOUS
<1>2. log \in 0..1000 /\ trend \in {400, 750, 1000}
  BY <1>1, LogPart, TrendPart
<1>3. conn \in {150, 1000}
  BY <1>1 DEF ConnectivityScore
<1>4. CASE s.latest = <<>>
  <2>1. Raw(s) = 50 * log + 35 * conn + 15 * trend
    BY <1>1, <1>4 DEF Raw
  <2> QED  BY <1>2, <1>3, <2>1
<1>5. CASE s.latest # <<>>
  <2>1. PICK res, cap : res = ResourceScore(s.latest[1]) /\ cap = Cap(res)
    OBVIOUS
  <2>2. res \in 0..1000
    BY <1>5, <2>1, ResourcesOfNewest, ZenonT(40)
  <2>3. cap \in {49000, 79000, 100000}
    BY <2>1 DEF Cap
  <2>4. Raw(s) = LeastOf(40 * res + 30 * log + 20 * conn + 10 * trend, cap)
    BY <1>1, <1>5, <2>1 DEF Raw
  <2> QED  BY <1>2, <1>3, <2>2, <2>3, <2>4 DEF LeastOf
<1> QED  BY <1>4, <1>5

LEMMA ScoreOfRaw ==
  ASSUME NEW s, Scored(s)
  PROVE  Score(s) = LET points == LeastOf(100, RoundTo(Raw(s), 1000))
                    IN  IF s.online THEN points ELSE LeastOf(points, 49)
<1>1. CASE s.latest = <<>>
  BY <1>1 DEF Score, Raw
<1>2. CASE s.latest # <<>>
  BY <1>2 DEF Score, Raw
<1> QED  BY <1>1, <1>2

\* Whatever the weighted sum is, the score is a percentage that follows it.
LEMMA ScoreBounds ==
  ASSUME NEW s, Scored(s)
  PROVE  /\ Score(s) \in 0..100
         /\ ~s.online => Score(s) < 50
         /\ Raw(s) <= 79000 => Score(s) < 80
         /\ s.online /\ Raw(s) >= 50000 => Score(s) >= 50
         /\ s.online /\ Raw(s) >= 80000 => Score(s) >= 80
<1>1. PICK n \in Nat : n = Raw(s)
  BY RawType
<1>2. PICK p \in Nat : p = RoundTo(n, 1000) /\ 2000 * p <= 2 * n + 1000 /\ 2 * n <= 2000 * p + 1000
  BY Rounded
<1>3. Score(s) = IF s.online THEN LeastOf(100, p) ELSE LeastOf(LeastOf(100, p), 49)
  BY <1>1, <1>2, ScoreOfRaw
<1>4. CASE s.online
  <2>1. Score(s) = IF 100 < p THEN 100 ELSE p
    BY <1>3, <1>4 DEF LeastOf
  <2> QED  BY <1>1, <1>2, <1>4, <2>1
<1>5. CASE ~s.online
  <2>1. Score(s) = IF p < 49 THEN p ELSE 49
    BY <1>2, <1>3, <1>5 DEF LeastOf
  <2> QED  BY <1>1, <1>2, <1>5, <2>1
<1> QED  BY <1>4, <1>5

LEMMA ScoreFollowsRaw ==
  ASSUME NEW s, NEW z, Scored(s), Scored(z), Raw(z) <= Raw(s), z.online => s.online
  PROVE  Score(z) <= Score(s)
<1>1. PICK p, q \in Nat : p = RoundTo(Raw(z), 1000) /\ q = RoundTo(Raw(s), 1000) /\ p <= q
  <2>1. Raw(z) \in Nat /\ Raw(s) \in Nat
    BY RawType
  <2>2. /\ RoundTo(Raw(z), 1000) \in Nat /\ RoundTo(Raw(s), 1000) \in Nat
        /\ RoundTo(Raw(z), 1000) <= RoundTo(Raw(s), 1000)
    BY <2>1, Rounded, RoundingKeepsOrder
  <2> QED  BY <2>2
<1>2. /\ Score(z) = IF z.online THEN LeastOf(100, p) ELSE LeastOf(LeastOf(100, p), 49)
      /\ Score(s) = IF s.online THEN LeastOf(100, q) ELSE LeastOf(LeastOf(100, q), 49)
  BY <1>1, ScoreOfRaw
<1> QED  BY <1>1, <1>2 DEF LeastOf, Scored

-----------------------------------------------------------------------------
(* Score and alerts. *)

\* The alerts that the agreement is about, and what each means.
LEMMA AlertsOfLogs ==
  ASSUME NEW s
  PROVE  /\ "DEVICE_OFFLINE" \in ActiveAlerts(s) <=> ~s.online
         /\ "REPEATED_CRITICAL_LOGS" \in ActiveAlerts(s) <=> s.logs.crit24h >= 3
         /\ "CRITICAL_LOG_EVENT" \in ActiveAlerts(s) <=> s.logs.crit24h \in 1..2
         /\ "REPEATED_WARNING_LOGS" \in ActiveAlerts(s) <=> s.logs.warn24h >= 5
  BY DEF ActiveAlerts

LEMMA AlertsOfRecord ==
  ASSUME NEW s, s.latest # <<>>
  PROVE  /\ "HIGH_CPU_CRITICAL" \in ActiveAlerts(s) <=> Reaches(s.latest[1].cpu, 95)
         /\ "HIGH_RAM_CRITICAL" \in ActiveAlerts(s) <=> Reaches(s.latest[1].ram, 95)
         /\ "CRITICAL_STORAGE_CAPACITY" \in ActiveAlerts(s) <=> Reaches(s.latest[1].disk, 95)
         /\ "HIGH_CPU_WARNING" \in ActiveAlerts(s) <=>
              Reaches(s.latest[1].cpu, 85) /\ ~Reaches(s.latest[1].cpu, 95)
         /\ "HIGH_RAM_WARNING" \in ActiveAlerts(s) <=>
              Reaches(s.latest[1].ram, 85) /\ ~Reaches(s.latest[1].ram, 95)
         /\ "STORAGE_CAPACITY_WARNING" \in ActiveAlerts(s) <=>
              Reaches(s.latest[1].disk, 85) /\ ~Reaches(s.latest[1].disk, 95)
  BY DEF ActiveAlerts

LEMMA AlertsWithoutRecord ==
  ASSUME NEW s, s.latest = <<>>
  PROVE  {"HIGH_CPU_CRITICAL", "HIGH_RAM_CRITICAL", "CRITICAL_STORAGE_CAPACITY"}
           \cap ActiveAlerts(s) = {}
<1>1. ~Reaches(NoValue, 95)
  BY DEF Reaches
<1>2. /\ "HIGH_CPU_CRITICAL" \notin ActiveAlerts(s)
      /\ "HIGH_RAM_CRITICAL" \notin ActiveAlerts(s)
      /\ "CRITICAL_STORAGE_CAPACITY" \notin ActiveAlerts(s)
  BY <1>1 DEF ActiveAlerts
<1> QED  BY <1>2

\* A saturated resource caps the weighted sum below what GOOD takes.
LEMMA SaturatedIsNotGood ==
  ASSUME NEW s, Scored(s), s.latest # <<>>, NEW r \in {"cpu", "ram", "disk"},
         Reaches(s.latest[1][r], 95)
  PROVE  Score(s) < 80
<1>1. PICK t \in Records : t = s.latest[1]
  BY NewestRecord
<1>2. ResourceScore(t) \in 0..1000 /\ ResourceScore(t) <= 750
  <2>1. Reaches(t[r], 95)
    BY <1>1
  <2> QED  BY <2>1, ResourceRange, SaturatedScore
<1>3. Cap(ResourceScore(t)) \in {49000, 79000}
  BY <1>2 DEF Cap
<1>4. PICK n : Raw(s) = LeastOf(n, Cap(ResourceScore(t)))
  BY <1>1 DEF Raw
<1>5. Raw(s) \in Nat
  BY RawType
<1>6. Raw(s) <= 79000
  BY <1>3, <1>4, <1>5 DEF LeastOf
<1> QED  BY <1>6, ScoreBounds

\* Log counts below their alerts leave three quarters of the points, and telemetry below
\* its alerts as much: the weighted sum is far above what CRITICAL takes.
LEMMA QuietIsNotCritical ==
  ASSUME NEW s \in Snapshots, s.online, ActiveAlerts(s) = {}
  PROVE  Score(s) >= 50
<1>1. Scored(s) /\ s.logs \in Counts
  BY SnapshotScored DEF Snapshots
<1>2. s.logs \in [warn1h : Nat, crit1h : Nat, warn24h : Nat, crit24h : Nat]
      /\ s.logs.warn1h <= s.logs.warn24h /\ s.logs.crit1h <= s.logs.crit24h
  BY <1>1, LogCountsType
<1>3. s.logs.crit24h = 0 /\ s.logs.warn24h <= 4
  BY <1>2, AlertsOfLogs
<1>4. PICK log, trend, conn : /\ log = LogScore(s.logs) /\ trend = TrendScore(s.history)
                              /\ conn = ConnectivityScore(s.online)
  OBVIOUS
<1>5. log \in 0..1000 /\ trend \in {400, 750, 1000} /\ conn = 1000
  BY <1>1, <1>4, LogPart, TrendPart DEF ConnectivityScore
<1>6. log >= 760
  BY <1>2, <1>3, <1>4, <1>5, LogScores
<1>7. CASE s.latest = <<>>
  <2>1. Raw(s) = 50 * log + 35 * conn + 15 * trend
    BY <1>4, <1>7 DEF Raw
  <2> QED  BY <1>1, <1>5, <1>6, <2>1, ScoreBounds
<1>8. CASE s.latest # <<>>
  <2>1. PICK t \in Records : t = s.latest[1]
    BY <1>1, <1>8, NewestRecord
  <2>2. ~Reaches(t.cpu, 85) /\ ~Reaches(t.ram, 85) /\ ~Reaches(t.disk, 85)
    BY <1>8, <2>1, AlertsOfRecord
  <2>3. \A r \in {"cpu", "ram", "disk"} : LevelScore(t[r]) >= 75
    BY <2>2, LevelsReached, LevelScores DEF Records
  <2>4. PICK res : res = ResourceScore(t)
    OBVIOUS
  <2>5. res \in 0..1000 /\ res >= 750
    BY <2>3, <2>4, ResourceRange, ModerateScore
  <2>6. Cap(res) \in {79000, 100000}
    BY <2>5 DEF Cap
  <2>7. Raw(s) = LeastOf(40 * res + 30 * log + 20 * conn + 10 * trend, Cap(res))
    BY <1>4, <1>8, <2>1, <2>4 DEF Raw
  <2>8. Raw(s) >= 50000
    BY <1>5, <1>6, <2>5, <2>6, <2>7 DEF LeastOf
  <2> QED  BY <1>1, <2>8, ScoreBounds
<1> QED  BY <1>7, <1>8

\* Readings below 70 percent and no log entry of a day leave a GOOD score.
LEMMA BlamelessIsGood ==
  ASSUME NEW s \in Snapshots, s.online, s.logs.warn24h = 0, s.logs.crit24h = 0,
         s.latest # <<>> => \A r \in {"cpu", "ram", "disk"} : ~Reaches(s.latest[1][r], 70)
  PROVE  Score(s) >= 80
<1>1. Scored(s) /\ s.logs \in Counts
  BY SnapshotScored DEF Snapshots
<1>2. s.logs \in [warn1h : Nat, crit1h : Nat, warn24h : Nat, crit24h : Nat]
      /\ s.logs.warn1h <= s.logs.warn24h /\ s.logs.crit1h <= s.logs.crit24h
  BY <1>1, LogCountsType
<1>3. PICK log, trend, conn : /\ log = LogScore(s.logs) /\ trend = TrendScore(s.history)
                              /\ conn = ConnectivityScore(s.online)
  OBVIOUS
<1>4. log \in 0..1000 /\ trend \in {400, 750, 1000} /\ conn = 1000
  <2>1. log \in 0..1000
    BY <1>1, <1>3, LogPart, ZenonT(40)
  <2>2. trend \in {400, 750, 1000}
    BY <1>1, <1>3, TrendPart
  <2> QED  BY <1>3, <2>1, <2>2 DEF ConnectivityScore
<1>5. log >= 1000
  BY <1>2, <1>3, <1>4, LogScores
<1>6. CASE s.latest = <<>>
  <2>1. Raw(s) = 50 * log + 35 * conn + 15 * trend
    BY <1>3, <1>6 DEF Raw
  <2> QED  BY <1>1, <1>4, <1>5, <2>1, ScoreBounds
<1>7. CASE s.latest # <<>>
  <2>1. PICK t \in Records : t = s.latest[1]
    BY <1>1, <1>7, NewestRecord
  <2>2. \A r \in {"cpu", "ram", "disk"} : LevelScore(t[r]) = 100
    BY <1>7, <2>1, LevelsReached, LevelScores DEF Records
  <2>3. PICK res : res = ResourceScore(t)
    OBVIOUS
  <2>4. res = 1000
    BY <2>2, <2>3, FullScore
  <2>5. Raw(s) = LeastOf(40 * res + 30 * log + 20 * conn + 10 * trend, Cap(res))
    BY <1>3, <1>7, <2>1, <2>3 DEF Raw
  <2>6. Raw(s) >= 80000
    BY <1>4, <1>5, <2>4, <2>5 DEF LeastOf, Cap
  <2> QED  BY <1>1, <2>6, ScoreBounds
<1> QED  BY <1>6, <1>7

\* No point of the trend of an offline device reaches 50.
LEMMA OfflineTrend == ASSUME NEW t \in Records PROVE TrendPoint(t, FALSE) < 50
<1>1. PICK n \in Nat : n = 60 * ResourceScore(t) + 40 * ConnectivityScore(FALSE)
  BY ResourceRange DEF ConnectivityScore
<1>2. PICK p \in Nat : p = RoundTo(n, 1000)
  BY Rounded
<1>3. TrendPoint(t, FALSE) = LeastOf(p, 49)
  BY <1>1, <1>2 DEF TrendPoint
<1>4. LeastOf(p, 49) < 50
  BY <1>2 DEF LeastOf
<1> QED  BY <1>3, <1>4, Zenon

LEMMA StatusOfScore ==
  ASSUME NEW s, s.online \in BOOLEAN, Score(s) \in 0..100, ~s.online => Score(s) < 50
  PROVE  /\ Status(s) = "GOOD" => s.online /\ Score(s) >= 80
         /\ Status(s) = "CRITICAL" => Score(s) < 50
         /\ Status(s) = "WARNING" => s.online /\ Score(s) < 80
         /\ ~s.online => Status(s) = "CRITICAL"
  BY DEF Status

\* What is shown agrees with the alerts, for every snapshot.
THEOREM ScoreAgreesWithAlerts == \A s \in Snapshots : StatusAgreesWithAlerts(s)
<1> SUFFICES ASSUME NEW s \in Snapshots PROVE StatusAgreesWithAlerts(s)
  OBVIOUS
<1>1. Scored(s) /\ s.online \in BOOLEAN /\ s.history \in Seq(Records) /\ s.logs \in Counts
  BY SnapshotScored DEF Snapshots
<1>2. Score(s) \in 0..100 /\ (~s.online => Score(s) < 50)
  BY <1>1, ScoreBounds
<1>3. ASSUME Status(s) = "GOOD" PROVE ActiveAlerts(s) \cap DOMAIN Saturation = {}
  <2>1. Score(s) >= 80
    BY <1>1, <1>2, <1>3, StatusOfScore
  <2>2. CASE s.latest = <<>>
    BY <2>2, AlertsWithoutRecord DEF Saturation
  <2>3. CASE s.latest # <<>>
    <3>1. \A r \in {"cpu", "ram", "disk"} : ~Reaches(s.latest[1][r], 95)
      <4> SUFFICES ASSUME NEW r \in {"cpu", "ram", "disk"}, Reaches(s.latest[1][r], 95)
                   PROVE  Score(s) < 80
        BY <1>2, <2>1
      <4> QED  BY <1>1, <2>3, SaturatedIsNotGood
    <3>2. /\ "HIGH_CPU_CRITICAL" \notin ActiveAlerts(s)
          /\ "HIGH_RAM_CRITICAL" \notin ActiveAlerts(s)
          /\ "CRITICAL_STORAGE_CAPACITY" \notin ActiveAlerts(s)
      BY <2>3, <3>1, AlertsOfRecord
    <3> QED  BY <3>2 DEF Saturation
  <2> QED  BY <2>2, <2>3
<1>4. ASSUME Status(s) = "CRITICAL" PROVE ActiveAlerts(s) # {}
  <2>1. Score(s) < 50
    BY <1>1, <1>2, <1>4, StatusOfScore
  <2>2. CASE s.online
    BY <1>2, <2>1, <2>2, QuietIsNotCritical
  <2>3. CASE ~s.online
    BY <2>3, AlertsOfLogs
  <2> QED  BY <2>2, <2>3, <1>1
<1>5. ASSUME Status(s) = "WARNING" PROVE Reasons(s) # {}
  <2>1. s.online /\ Score(s) < 80
    BY <1>1, <1>2, <1>5, StatusOfScore
  <2>2. s.logs.warn24h \in Nat /\ s.logs.crit24h \in Nat
    BY <1>1, LogCountsType
  <2>3. CASE s.logs.warn24h > 0 \/ s.logs.crit24h > 0
    BY <1>5, <2>3 DEF Reasons
  <2>4. CASE s.logs.warn24h = 0 /\ s.logs.crit24h = 0
    <3>1. PICK r \in {"cpu", "ram", "disk"} : s.latest # <<>> /\ Reaches(s.latest[1][r], 70)
      <4>1. ~(Score(s) >= 80)
        BY <1>2, <2>1
      <4> SUFFICES ASSUME s.latest # <<>> =>
                            \A r \in {"cpu", "ram", "disk"} : ~Reaches(s.latest[1][r], 70)
                   PROVE  Score(s) >= 80
        BY <4>1, Zenon
      <4> QED  BY <2>1, <2>4, BlamelessIsGood
    <3>2. DOMAIN s.latest[1] = {"cpu", "ram", "disk"}
      BY <1>1, <3>1, NewestRecord DEF Records
    <3> QED  BY <1>5, <3>1, <3>2 DEF Reasons
  <2> QED  BY <2>2, <2>3, <2>4
<1>6. ASSUME ~s.online
      PROVE  /\ Status(s) = "CRITICAL"
             /\ \A i \in DOMAIN s.history : TrendPoint(s.history[i], FALSE) < 50
  <2>1. Status(s) = "CRITICAL"
    BY <1>6 DEF Status
  <2>2. \A i \in DOMAIN s.history : s.history[i] \in Records
    BY <1>1
  <2> QED  BY <2>1, <2>2, OfflineTrend
<1> QED  BY <1>2, <1>3, <1>4, <1>5, <1>6 DEF StatusAgreesWithAlerts

-----------------------------------------------------------------------------
(* Alerts and anomalies. *)

\* A critical alert is a critical anomaly of every period with the record.
THEOREM AnalysisNamesCriticalAlerts ==
  \A s \in Snapshots : Covered(s) => AnalysisCoversAlerts(s)
<1> SUFFICES ASSUME NEW s \in Snapshots, Covered(s), NEW a \in ActiveAlerts(s), a \in DOMAIN Saturation
             PROVE  Anomaly(Saturation[a], "CRITICAL") \in
                      Anomalies([status |-> "online", telemetry |-> s.history, starts |-> <<>>,
                                 critical |-> 0, warnings |-> 0])
  BY DEF AnalysisCoversAlerts
<1> DEFINE period == [status |-> "online", telemetry |-> s.history, starts |-> <<>>,
                      critical |-> 0, warnings |-> 0]
<1>1. a \in {"HIGH_CPU_CRITICAL", "HIGH_RAM_CRITICAL", "CRITICAL_STORAGE_CAPACITY"}
  BY DEF Saturation
<1>2. s.latest # <<>>
  BY <1>1, AlertsWithoutRecord
<1>3. PICK i \in DOMAIN s.history : s.history[i] = s.latest[1]
  BY <1>2 DEF Covered
<1>4. s.latest[1] \in Records
  BY <1>2, NewestRecord, SnapshotScored
<1>5. /\ CpuAnomalies(s.history) \subseteq Anomalies(period)
      /\ FullAnomalies(s.history, "ram", "MEMORY") \subseteq Anomalies(period)
      /\ FullAnomalies(s.history, "disk", "STORAGE") \subseteq Anomalies(period)
  BY DEF Anomalies
<1>6. CASE a = "HIGH_CPU_CRITICAL"
  <2>1. Reaches(s.history[i].cpu, 95)
    BY <1>2, <1>3, <1>6, AlertsOfRecord
  <2>2. Peak(s.history, "cpu", 95)
    BY <2>1 DEF Peak
  <2>3. Anomaly("CPU", "CRITICAL") \in CpuAnomalies(s.history)
    BY <2>2 DEF CpuAnomalies, Found
  <2> QED  BY <1>5, <1>6, <2>3 DEF Saturation
<1>7. CASE a = "HIGH_RAM_CRITICAL"
  <2>1. Reaches(s.history[i].ram, 90)
    BY <1>2, <1>3, <1>4, <1>7, AlertsOfRecord, LevelsReached DEF Records
  <2>2. Peak(s.history, "ram", 90)
    BY <2>1 DEF Peak
  <2>3. Anomaly("MEMORY", "CRITICAL") \in FullAnomalies(s.history, "ram", "MEMORY")
    BY <2>2 DEF FullAnomalies, Found
  <2> QED  BY <1>5, <1>7, <2>3 DEF Saturation
<1>8. CASE a = "CRITICAL_STORAGE_CAPACITY"
  <2>1. Reaches(s.history[i].disk, 90)
    BY <1>2, <1>3, <1>4, <1>8, AlertsOfRecord, LevelsReached DEF Records
  <2>2. Peak(s.history, "disk", 90)
    BY <2>1 DEF Peak
  <2>3. Anomaly("STORAGE", "CRITICAL") \in FullAnomalies(s.history, "disk", "STORAGE")
    BY <2>2 DEF FullAnomalies, Found
  <2> QED  BY <1>5, <1>8, <2>3 DEF Saturation
<1> QED  BY <1>1, <1>6, <1>7, <1>8

-----------------------------------------------------------------------------
(* Order. *)

LEMMA CapKeepsOrder ==
  ASSUME NEW a \in Int, NEW b \in Int, a <= b PROVE Cap(a) <= Cap(b)
  BY DEF Cap

\* One worse reading lowers no resource score.
LEMMA ResourcesKeepOrder ==
  ASSUME NEW t \in Records, NEW u \in Records,
         \A r \in {"cpu", "ram", "disk"} : LevelScore(u[r]) <= LevelScore(t[r])
  PROVE  ResourceScore(u) <= ResourceScore(t)
<1>1. \A r \in {"cpu", "ram", "disk"} : LevelScore(t[r]) \in Nat /\ LevelScore(u[r]) \in Nat
  BY LevelScores DEF Records
<1>2. PICK m, n \in Nat :
        /\ m = 35 * LevelScore(u.cpu) + 35 * LevelScore(u.ram) + 30 * LevelScore(u.disk)
        /\ n = 35 * LevelScore(t.cpu) + 35 * LevelScore(t.ram) + 30 * LevelScore(t.disk)
  BY <1>1
<1>3. m <= n
  BY <1>1, <1>2
<1> QED  BY <1>2, <1>3, RoundingKeepsOrder DEF ResourceScore

\* A snapshot whose parts are worth no more has no higher weighted sum.
LEMMA RawKeepsOrder ==
  ASSUME NEW s, NEW z, Scored(s), Scored(z), z.history = s.history,
         z.online => s.online, LogScore(z.logs) <= LogScore(s.logs),
         (z.latest = <<>>) <=> (s.latest = <<>>),
         s.latest # <<>> => ResourceScore(z.latest[1]) <= ResourceScore(s.latest[1])
  PROVE  Raw(z) <= Raw(s)
<1>1. PICK log, trend, conn, log2, conn2 :
        /\ log = LogScore(s.logs) /\ trend = TrendScore(s.history)
        /\ conn = ConnectivityScore(s.online)
        /\ log2 = LogScore(z.logs) /\ conn2 = ConnectivityScore(z.online)
  OBVIOUS
<1>2. log \in 0..1000 /\ trend \in {400, 750, 1000} /\ log2 \in 0..1000 /\ log2 <= log
  <2>1. LogScore(s.logs) \in 0..1000 /\ TrendScore(s.history) \in {400, 750, 1000}
    BY LogPart, TrendPart
  <2>2. LogScore(z.logs) \in 0..1000
    BY LogPart, ZenonT(40)
  <2> QED  BY <1>1, <2>1, <2>2, SMTT(30)
<1>3. conn \in {150, 1000} /\ conn2 \in {150, 1000} /\ conn2 <= conn
  BY <1>1 DEF ConnectivityScore, Scored
<1>4. CASE s.latest = <<>>
  <2>1. Raw(s) = 50 * log + 35 * conn + 15 * trend /\ Raw(z) = 50 * log2 + 35 * conn2 + 15 * trend
    BY <1>1, <1>4 DEF Raw
  <2> QED  BY <1>2, <1>3, <2>1
<1>5. CASE s.latest # <<>>
  <2>1. PICK res, res2 : res = ResourceScore(s.latest[1]) /\ res2 = ResourceScore(z.latest[1])
    OBVIOUS
  <2>2. res \in 0..1000 /\ res2 \in 0..1000 /\ res2 <= res
    <3>1. ResourceScore(s.latest[1]) \in 0..1000
      BY <1>5, ResourcesOfNewest, ZenonT(40)
    <3>2. ResourceScore(z.latest[1]) \in 0..1000
      BY <1>5, ResourcesOfNewest, ZenonT(40)
    <3> QED  BY <1>5, <2>1, <3>1, <3>2, ZenonT(40)
  <2>3. PICK cap, cap2 : cap = Cap(res) /\ cap2 = Cap(res2)
    OBVIOUS
  <2>4. cap \in Nat /\ cap2 \in Nat /\ cap2 <= cap
    BY <2>2, <2>3 DEF Cap
  <2>5. Raw(s) = LeastOf(40 * res + 30 * log + 20 * conn + 10 * trend, cap)
    BY <1>1, <1>5, <2>1, <2>3 DEF Raw
  <2>6. Raw(z) = LeastOf(40 * res2 + 30 * log2 + 20 * conn2 + 10 * trend, cap2)
    BY <1>1, <1>5, <2>1, <2>3 DEF Raw
  <2> QED  BY <1>2, <1>3, <2>2, <2>4, <2>5, <2>6 DEF LeastOf
<1> QED  BY <1>4, <1>5

LogNumbers == [warn1h : Nat, crit1h : Nat, warn24h : Nat, crit24h : Nat]

\* An entry of the last hour is one of the last day too, and counts as the heavier.
LEMMA LogsKeepOrder ==
  ASSUME NEW c \in LogNumbers, NEW d \in LogNumbers,
         \/ /\ d.warn1h = c.warn1h + 1 /\ d.warn24h = c.warn24h + 1
            /\ d.crit1h = c.crit1h /\ d.crit24h = c.crit24h
         \/ /\ d.warn1h = c.warn1h /\ d.warn24h = c.warn24h
            /\ d.crit1h = c.crit1h + 1 /\ d.crit24h = c.crit24h + 1
  PROVE  LogScore(d) <= LogScore(c)
<1>1. PICK w, k \in Nat : w = c.warn1h /\ k = c.crit1h
  BY DEF LogNumbers
<1>2. PICK x, y \in Nat : x = d.warn1h /\ y = d.crit1h /\ w <= x /\ k <= y
  BY <1>1 DEF LogNumbers
<1>3. PICK i, j \in Int : /\ i = c.warn24h - c.warn1h /\ j = c.crit24h - c.crit1h
                          /\ i = d.warn24h - d.warn1h /\ j = d.crit24h - d.crit1h
  BY DEF LogNumbers
<1>4. PICK a, b : a = MostOf(0, i) /\ b = MostOf(0, j)
  OBVIOUS
<1>5. a \in Nat /\ b \in Nat
  BY <1>3, <1>4 DEF MostOf
<1>6. /\ LogScore(c) = MostOf(0, 1000 - 60 * w - 180 * k - 35 * a - 100 * b)
      /\ LogScore(d) = MostOf(0, 1000 - 60 * x - 180 * y - 35 * a - 100 * b)
  BY <1>1, <1>2, <1>3, <1>4 DEF LogScore
<1>7. PICK m, n \in Int : /\ n = 1000 - 60 * w - 180 * k - 35 * a - 100 * b
                          /\ m = 1000 - 60 * x - 180 * y - 35 * a - 100 * b
  BY <1>5
<1>8. m <= n
  BY <1>2, <1>5, <1>7
<1>9. LogScore(c) = (IF 0 > n THEN 0 ELSE n) /\ LogScore(d) = (IF 0 > m THEN 0 ELSE m)
  BY <1>6, <1>7 DEF MostOf
<1> QED  BY <1>8, <1>9

\* The score after a change that makes no part worth more.
LEMMA ScoreKeepsOrder ==
  ASSUME NEW s, NEW z, Scored(s), Scored(z), z.history = s.history,
         z.online => s.online, LogScore(z.logs) <= LogScore(s.logs),
         (z.latest = <<>>) <=> (s.latest = <<>>),
         s.latest # <<>> => ResourceScore(z.latest[1]) <= ResourceScore(s.latest[1])
  PROVE  Score(z) <= Score(s)
<1>1. Raw(z) <= Raw(s)
  BY RawKeepsOrder
<1> QED  BY <1>1, ScoreFollowsRaw

\* A worse reading, one more log entry or a lost connection never raises the score.
THEOREM WorseningNeverRaisesScore == \A s \in Snapshots : WorseIsNeverHigher(s)
<1> SUFFICES ASSUME NEW s \in Snapshots PROVE WorseIsNeverHigher(s)
  OBVIOUS
<1>1. Scored(s) /\ s.logs \in LogNumbers
  BY SnapshotScored DEF Scored, LogNumbers
<1>2. LogScore(s.logs) \in Int
  <2>1. LogScore(s.logs) \in 0..1000
    BY <1>1, LogPart, TrendPart
  <2> QED  BY <2>1
<1>3. s.latest # <<>> => ResourceScore(s.latest[1]) <= ResourceScore(s.latest[1])
  <2>1. PICK v : v = ResourceScore(s.latest[1])
    OBVIOUS
  <2>2. s.latest # <<>> => v \in 0..1000
    BY <1>1, <2>1, ResourcesOfNewest, ZenonT(40)
  <2>3. v \in 0..1000 => v <= v
    OBVIOUS
  <2> QED  BY <2>1, <2>2, <2>3, Zenon
<1>4. ASSUME s.latest # <<>>, NEW r \in DOMAIN s.latest[1], NEW u \in Usages,
             s.latest[1][r] = NoValue \/ u >= s.latest[1][r]
      PROVE  Score([s EXCEPT !.latest = <<[@[1] EXCEPT ![r] = u]>>]) <= Score(s)
  <2>1. PICK t \in Records : t = s.latest[1]
    BY <1>1, <1>4, NewestRecord
  <2>2. r \in {"cpu", "ram", "disk"}
    BY <1>4, <2>1 DEF Records
  <2>3. PICK x : x = [t EXCEPT ![r] = u]
    OBVIOUS
  <2>4. x \in Records /\ x[r] = u /\ \A k \in {"cpu", "ram", "disk"} \ {r} : x[k] = t[k]
    BY <2>2, <2>3 DEF Records, Readings
  <2>5. \A k \in {"cpu", "ram", "disk"} : LevelScore(x[k]) <= LevelScore(t[k])
    <3>1. LevelScore(x[r]) <= LevelScore(t[r])
      BY <1>4, <2>1, <2>2, <2>4, LevelsKeepOrder DEF Records
    <3>2. \A k \in {"cpu", "ram", "disk"} : LevelScore(t[k]) <= LevelScore(t[k])
      BY LevelScores DEF Records
    <3> QED  BY <2>4, <3>1, <3>2
  <2>6. ResourceScore(x) <= ResourceScore(t)
    BY <2>4, <2>5, ResourcesKeepOrder
  <2>7. PICK z : z = [s EXCEPT !.latest = <<x>>]
    OBVIOUS
  <2>8. /\ z.latest = <<x>> /\ z.online = s.online /\ z.logs = s.logs /\ z.history = s.history
    BY <2>7 DEF Snapshots
  <2>9. Scored(z)
    BY <1>1, <2>4, <2>8 DEF Scored, Latest
  <2>10. Score(z) <= Score(s)
    <3>1. LogScore(z.logs) <= LogScore(s.logs)
      BY <1>2, <2>8
    <3>2. z.latest # <<>> /\ z.latest[1] = x
      BY <2>8
    <3>3. ResourceScore(z.latest[1]) <= ResourceScore(s.latest[1])
      BY <2>1, <2>6, <3>2
    <3> QED  BY <1>1, <1>4, <2>8, <2>9, <3>1, <3>2, <3>3, ScoreKeepsOrder
  <2>11. [s EXCEPT !.latest = <<[@[1] EXCEPT ![r] = u]>>] = z
    BY <2>1, <2>3, <2>7
  <2> QED  BY <2>10, <2>11
<1>5. ASSUME NEW d \in LogNumbers, LogScore(d) <= LogScore(s.logs)
      PROVE  Score([s EXCEPT !.logs = d]) <= Score(s)
  <2>1. PICK z : z = [s EXCEPT !.logs = d]
    OBVIOUS
  <2>2. z.logs = d /\ z.online = s.online /\ z.latest = s.latest /\ z.history = s.history
    BY <2>1 DEF Snapshots
  <2>3. Scored(z)
    BY <1>1, <2>2 DEF Scored, LogNumbers
  <2>4. LogScore(z.logs) <= LogScore(s.logs)
    BY <1>5, <2>2
  <2>5. s.latest # <<>> => ResourceScore(z.latest[1]) <= ResourceScore(s.latest[1])
    BY <1>3, <2>2, Zenon
  <2>6. Score(z) <= Score(s)
    BY <1>1, <2>2, <2>3, <2>4, <2>5, ScoreKeepsOrder
  <2> QED  BY <2>1, <2>6
<1>6. Score([s EXCEPT !.logs.warn1h = @ + 1, !.logs.warn24h = @ + 1]) <= Score(s)
  <2>1. PICK d : d = [s.logs EXCEPT !.warn1h = s.logs.warn1h + 1, !.warn24h = s.logs.warn24h + 1]
    OBVIOUS
  <2>2. /\ d \in LogNumbers /\ d.warn1h = s.logs.warn1h + 1 /\ d.warn24h = s.logs.warn24h + 1
        /\ d.crit1h = s.logs.crit1h /\ d.crit24h = s.logs.crit24h
    <3>1. s.logs.warn1h + 1 \in Nat /\ s.logs.warn24h + 1 \in Nat
      BY <1>1 DEF LogNumbers
    <3> QED  BY <1>1, <2>1, <3>1 DEF LogNumbers
  <2>3. Score([s EXCEPT !.logs = d]) <= Score(s)
    BY <1>1, <1>5, <2>2, LogsKeepOrder
  <2>4. [s EXCEPT !.logs.warn1h = @ + 1, !.logs.warn24h = @ + 1] = [s EXCEPT !.logs = d]
    BY <2>1 DEF Snapshots
  <2> QED  BY <2>3, <2>4
<1>7. Score([s EXCEPT !.logs.crit1h = @ + 1, !.logs.crit24h = @ + 1]) <= Score(s)
  <2>1. PICK d : d = [s.logs EXCEPT !.crit1h = s.logs.crit1h + 1, !.crit24h = s.logs.crit24h + 1]
    OBVIOUS
  <2>2. /\ d \in LogNumbers /\ d.crit1h = s.logs.crit1h + 1 /\ d.crit24h = s.logs.crit24h + 1
        /\ d.warn1h = s.logs.warn1h /\ d.warn24h = s.logs.warn24h
    <3>1. s.logs.crit1h + 1 \in Nat /\ s.logs.crit24h + 1 \in Nat
      BY <1>1 DEF LogNumbers
    <3> QED  BY <1>1, <2>1, <3>1 DEF LogNumbers
  <2>3. Score([s EXCEPT !.logs = d]) <= Score(s)
    BY <1>1, <1>5, <2>2, LogsKeepOrder
  <2>4. [s EXCEPT !.logs.crit1h = @ + 1, !.logs.crit24h = @ + 1] = [s EXCEPT !.logs = d]
    BY <2>1 DEF Snapshots
  <2> QED  BY <2>3, <2>4
<1>8. Score([s EXCEPT !.online = FALSE]) <= Score(s)
  <2>1. PICK z : z = [s EXCEPT !.online = FALSE]
    OBVIOUS
  <2>2. ~z.online /\ z.online \in BOOLEAN /\ z.logs = s.logs /\ z.latest = s.latest
        /\ z.history = s.history
    BY <2>1 DEF Snapshots
  <2>3. Scored(z)
    BY <1>1, <2>2 DEF Scored
  <2>4. LogScore(z.logs) <= LogScore(s.logs)
    BY <1>2, <2>2
  <2>5. s.latest # <<>> => ResourceScore(z.latest[1]) <= ResourceScore(s.latest[1])
    BY <1>3, <2>2, Zenon
  <2>6. Score(z) <= Score(s)
    BY <1>1, <2>2, <2>3, <2>4, <2>5, ScoreKeepsOrder
  <2> QED  BY <2>1, <2>6
<1> QED  BY <1>4, <1>6, <1>7, <1>8 DEF WorseIsNeverHigher

-----------------------------------------------------------------------------
(* The snapshots that are put together for a check. *)

SampleInv ==
  /\ ready \in {-1, 0, 1, 2, 3} /\ sample \in Snapshots
  /\ ready = 3 => Covered(sample)

LEMMA InstanceTypes ==
  /\ Older \subseteq Records /\ NothingSeen \in Snapshots
  /\ \A t \in Records : <<t>> \in Latest
<1>1. Older \subseteq Records
  BY InstanceAssumption DEF Older, R, Records, Readings
<1>2. NoLogs \in Counts
  BY HealthAssumption
<1> QED  BY <1>1, <1>2 DEF NothingSeen, Snapshots, Latest

\* The newest record and one more, in either order, are records that include the newest.
LEMMA TwoRecords ==
  ASSUME NEW l \in Latest, NEW t \in Records,
         NEW h \in {l, l \o <<t>>, IF l = <<>> THEN l ELSE <<t>> \o l}
  PROVE  h \in Seq(Records) /\ (l # <<>> => \E i \in DOMAIN h : h[i] = l[1])
<1>1. CASE l = <<>>
  <2>1. h = <<>> \/ h = <<t>>
    BY <1>1
  <2>2. <<>> \in Seq(Records) /\ <<t>> \in Seq(Records)
    OBVIOUS
  <2>3. h \in Seq(Records)
    BY <2>1, <2>2
  <2> QED  BY <1>1, <2>3
<1>2. CASE l # <<>>
  <2>1. PICK u \in Records : l = <<u>>
    BY <1>2 DEF Latest
  <2>2. h \in {<<u>>, <<u, t>>, <<t, u>>}
    BY <1>2, <2>1
  <2>3. CASE h = <<u>>
    BY <2>1, <2>3
  <2>4. CASE h = <<u, t>>
    <3>1. 1 \in DOMAIN h /\ h[1] = u
      BY <2>4
    <3> QED  BY <2>1, <2>4, <3>1
  <2>5. CASE h = <<t, u>>
    <3>1. 2 \in DOMAIN h /\ h[2] = u
      BY <2>5
    <3> QED  BY <2>1, <2>5, <3>1
  <2> QED  BY <2>2, <2>3, <2>4, <2>5
<1> QED  BY <1>1, <1>2

LEMMA SampleNextInv == SampleInv /\ [Next]_vars => SampleInv'
<1> SUFFICES ASSUME SampleInv, [Next]_vars PROVE SampleInv'
  OBVIOUS
<1>1. CASE UNCHANGED <<sample, ready>>
  BY <1>1 DEF SampleInv, Covered
<1>2. CASE ready = 0 /\ ExtendSample
  <2>1. PICK o \in BOOLEAN, l \in Latest : sample' = [sample EXCEPT !.online = o, !.latest = l]
    <3>1. ready # 1 /\ ready # 2
      BY <1>2
    <3> QED  BY <1>2, <3>1, Zenon DEF ExtendSample, Latest
  <2>2. ready' = 1
    <3>1. ready = 0 /\ ready' = ready + 1
      BY <1>2, Zenon DEF ExtendSample
    <3> QED  BY <3>1
  <2>3. sample' \in Snapshots
    BY <2>1 DEF SampleInv, Snapshots
  <2> QED  BY <2>2, <2>3 DEF SampleInv
<1>3. CASE ready = 1 /\ ExtendSample
  <2>1. PICK c \in Counts : sample' = [sample EXCEPT !.logs = c]
    BY <1>3 DEF ExtendSample
  <2>2. sample' \in Snapshots /\ ready' = 2
    BY <1>3, <2>1 DEF ExtendSample, SampleInv, Snapshots
  <2> QED  BY <2>2 DEF SampleInv
<1>4. CASE ready = 2 /\ ExtendSample
  <2>1. PICK t \in Older, l \in {sample.latest} :
          \E h \in {l, l \o <<t>>, IF l = <<>> THEN l ELSE <<t>> \o l} :
            sample' = [sample EXCEPT !.history = h]
    <3>1. ready # 0 /\ ready # 1
      BY <1>4
    <3> QED  BY <1>4, <3>1, Zenon DEF ExtendSample
  <2>2. PICK h \in {l, l \o <<t>>, IF l = <<>> THEN l ELSE <<t>> \o l} :
          sample' = [sample EXCEPT !.history = h]
    BY <2>1
  <2>3. l = sample.latest /\ l \in Latest /\ t \in Records
    BY InstanceTypes DEF SampleInv, Snapshots
  <2>4. h \in Seq(Records) /\ (l # <<>> => \E i \in DOMAIN h : h[i] = l[1])
    BY <2>3, TwoRecords
  <2>5. sample' \in Snapshots /\ sample'.latest = l /\ sample'.history = h /\ ready' = 3
    BY <1>4, <2>2, <2>3, <2>4 DEF ExtendSample, SampleInv, Snapshots
  <2>6. Covered(sample')
    BY <2>4, <2>5 DEF Covered
  <2> QED  BY <2>5, <2>6 DEF SampleInv, Covered
<1> QED  BY <1>1, <1>2, <1>3, <1>4 DEF Next, vars, SampleInv, ExtendSample

LEMMA SampleInvariance == Spec => []SampleInv
<1>1. Init => SampleInv
  BY InstanceTypes DEF Init, SampleInv
<1> QED  BY <1>1, SampleNextInv, PTL DEF Spec

\* Every snapshot that is put together has a status that agrees with its alerts.
THEOREM StatusAlwaysAgrees == Spec => []StatusAgrees
<1>1. SampleInv => StatusAgrees
  BY ScoreAgreesWithAlerts DEF SampleInv, StatusAgrees
<1> QED  BY <1>1, SampleInvariance, PTL

\* ... its critical alerts among the anomalies of its period ...
THEOREM AnalysisAlwaysAgrees == Spec => []AnalysisAgrees
<1>1. SampleInv => AnalysisAgrees
  BY AnalysisNamesCriticalAlerts DEF SampleInv, AnalysisAgrees
<1> QED  BY <1>1, SampleInvariance, PTL

\* ... and a score that no worsening raises.
THEOREM ScoreIsAlwaysMonotone == Spec => []ScoreIsMonotone
<1>1. SampleInv => ScoreIsMonotone
  BY WorseningNeverRaisesScore DEF SampleInv, ScoreIsMonotone
<1> QED  BY <1>1, SampleInvariance, PTL
=============================================================================
