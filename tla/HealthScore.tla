----------------------------- MODULE HealthScore -----------------------------
(***************************************************************************)
(* What the Master concludes from a device's readings: the health score,   *)
(* the alerts that hold, and the anomalies an AI analysis or a report      *)
(* starts from.  Three pieces of code with thresholds of their own; the    *)
(* properties at the end relate them.                                      *)
(*                                                                         *)
(* A snapshot s is what one assessment has read: the presence (online),    *)
(* the newest telemetry record or none (latest), the newest records, the   *)
(* newest first (history), and the log counts (logs).  Usage is a          *)
(* percentage; partial scores are in tenths of a point.                    *)
(***************************************************************************)
EXTENDS Integers, FiniteSets, Sequences

CONSTANTS
  Usages,    \* CPU, memory and disk percentages a client reports
  NoValue,   \* a reading the client could not take
  LogCounts  \* numbers of warnings, and of errors, in an hour or a day

ASSUME ScoreAssumption ==
  Usages \subseteq 0..100 /\ NoValue \notin Usages /\ LogCounts \subseteq Nat

Readings == Usages \cup {NoValue}
Records == [cpu : Readings, ram : Readings, disk : Readings]
Counts == {c \in [warn1h : LogCounts, crit1h : LogCounts,
                  warn24h : LogCounts, crit24h : LogCounts] :
             c.warn1h <= c.warn24h /\ c.crit1h <= c.crit24h}

LeastOf(a, b) == IF a < b THEN a ELSE b
MostOf(a, b) == IF a > b THEN a ELSE b
Reaches(usage, limit) == usage # NoValue /\ usage >= limit

\* n / d to the nearest integer, a tie to the even one.
RoundTo(n, d) ==
  LET q == n \div d  twice == 2 * (n % d)
  IN  IF twice > d \/ (twice = d /\ q % 2 = 1) THEN q + 1 ELSE q

-----------------------------------------------------------------------------
(* The score. *)

\* Faulty variant: two of the levels are swapped.
LevelScoreSwapped(usage) ==
  CASE Reaches(usage, 95) -> 10
    [] Reaches(usage, 85) /\ ~Reaches(usage, 95) -> 75
    [] Reaches(usage, 70) /\ ~Reaches(usage, 85) -> 40
    [] OTHER -> 100

LevelScore(usage) ==
  CASE Reaches(usage, 95) -> 10
    [] Reaches(usage, 85) /\ ~Reaches(usage, 95) -> 40
    [] Reaches(usage, 70) /\ ~Reaches(usage, 85) -> 75
    [] OTHER -> 100

ResourceScore(t) ==
  RoundTo(35 * LevelScore(t.cpu) + 35 * LevelScore(t.ram) + 30 * LevelScore(t.disk), 10)

\* An entry of the last hour weighs more than an older one.
LogScore(c) ==
  MostOf(0, 1000 - 60 * c.warn1h - 180 * c.crit1h
                 - 35 * MostOf(0, c.warn24h - c.warn1h)
                 - 100 * MostOf(0, c.crit24h - c.crit1h))

ConnectivityScore(up) == IF up THEN 1000 ELSE 150

\* The mean of the values that were taken is at least limit.
MeanReaches(values, limit) ==
  LET taken == {i \in DOMAIN values : values[i] # NoValue}
      total[i \in 0..Len(values)] ==
        IF i = 0 THEN 0 ELSE total[i - 1] + (IF i \in taken THEN values[i] ELSE 0)
  IN  taken # {} /\ total[Len(values)] >= limit * Cardinality(taken)

CpusOf(history) == [i \in DOMAIN history |-> history[i].cpu]
RamsOf(history) == [i \in DOMAIN history |-> history[i].ram]

TrendScore(history) ==
  LET Loaded(limit) == \/ MeanReaches(CpusOf(history), limit)
                       \/ MeanReaches(RamsOf(history), limit)
  IN  CASE Len(history) >= 2 /\ Loaded(90) -> 400
        [] Len(history) >= 2 /\ ~Loaded(90) /\ Loaded(75) -> 750
        [] OTHER -> 1000

\* Faulty variant: the second cap is missing.
CapOnce(res) == IF res <= 400 THEN 49000 ELSE 100000

\* Loaded resources cap the score (in thousandths of a point).
Cap(res) == IF res <= 400 THEN 49000 ELSE IF res <= 750 THEN 79000 ELSE 100000

\* The weighted score in points; without telemetry the rest is scaled up, and
\* an offline device is never above 49.
Score(s) ==
  LET log == LogScore(s.logs)
      conn == ConnectivityScore(s.online)
      trend == TrendScore(s.history)
      raw == IF s.latest = <<>>
             THEN 50 * log + 35 * conn + 15 * trend
             ELSE LET res == ResourceScore(s.latest[1])
                  IN  LeastOf(40 * res + 30 * log + 20 * conn + 10 * trend, Cap(res))
      points == LeastOf(100, RoundTo(raw, 1000))
  IN  IF s.online THEN points ELSE LeastOf(points, 49)

Status(s) ==
  CASE ~s.online \/ Score(s) < 50 -> "CRITICAL"
    [] s.online /\ Score(s) >= 80 -> "GOOD"
    [] OTHER -> "WARNING"

\* What the summary in words blames for a status: at WARNING every resource from 70
\* percent on and every entry of the last day, at CRITICAL the worst only.
Reasons(s) ==
  LET limit == IF Status(s) = "WARNING" THEN 70 ELSE 95
      blamed == IF s.latest = <<>> THEN {}
                ELSE {r \in DOMAIN s.latest[1] : Reaches(s.latest[1][r], limit)}
      logged == {l \in {"warn24h", "crit24h"} : s.logs[l] > 0}
  IN  blamed \cup IF Status(s) = "WARNING" THEN logged ELSE logged \ {"warn24h"}

\* A point of the health trend: a stored record, scored with the presence of
\* the moment it is asked for.
TrendPoint(t, up) ==
  LET points == RoundTo(60 * ResourceScore(t) + 40 * ConnectivityScore(up), 1000)
  IN  IF up THEN points ELSE LeastOf(points, 49)

-----------------------------------------------------------------------------
(* The alerts. *)

\* The conditions that hold of snapshot s.
ActiveAlerts(s) ==
  LET t == IF s.latest = <<>> THEN [cpu |-> NoValue, ram |-> NoValue, disk |-> NoValue]
           ELSE s.latest[1]
      Between(usage) == Reaches(usage, 85) /\ ~Reaches(usage, 95)
      holds == [DEVICE_OFFLINE |-> ~s.online,
                HIGH_CPU_CRITICAL |-> Reaches(t.cpu, 95),
                HIGH_CPU_WARNING |-> Between(t.cpu),
                HIGH_RAM_CRITICAL |-> Reaches(t.ram, 95),
                HIGH_RAM_WARNING |-> Between(t.ram),
                CRITICAL_STORAGE_CAPACITY |-> Reaches(t.disk, 95),
                STORAGE_CAPACITY_WARNING |-> Between(t.disk),
                REPEATED_CRITICAL_LOGS |-> s.logs.crit24h >= 3,
                CRITICAL_LOG_EVENT |-> s.logs.crit24h \in 1..2,
                REPEATED_WARNING_LOGS |-> s.logs.warn24h >= 5]
  IN  {a \in DOMAIN holds : holds[a]}

AlertTypes ==
  {"DEVICE_OFFLINE", "HIGH_CPU_CRITICAL", "HIGH_CPU_WARNING", "HIGH_RAM_CRITICAL",
   "HIGH_RAM_WARNING", "CRITICAL_STORAGE_CAPACITY", "STORAGE_CAPACITY_WARNING",
   "REPEATED_CRITICAL_LOGS", "CRITICAL_LOG_EVENT", "REPEATED_WARNING_LOGS"}

\* The resource each critical alert is about, as the anomalies name it.
Saturation == [HIGH_CPU_CRITICAL |-> "CPU", HIGH_RAM_CRITICAL |-> "MEMORY",
               CRITICAL_STORAGE_CAPACITY |-> "STORAGE"]

-----------------------------------------------------------------------------
(* The anomalies of a period: the device's status, its telemetry of the    *)
(* period, the newest first, how often each application was started, and   *)
(* how many entries of severity CRITICAL and of WARNING were logged.       *)

\* Faulty variant: the newest record stands for the period.
PeakOfNewest(t, get, limit) == t # <<>> /\ Reaches(t[1][get], limit)

Peak(t, get, limit) == \E i \in DOMAIN t : Reaches(t[i][get], limit)

Anomaly(category, severity) == [category |-> category, severity |-> severity]
Found(condition, category, severity) ==
  IF condition THEN {Anomaly(category, severity)} ELSE {}

\* A sudden rise between two records counts only if the newer one is high.
CpuAnomalies(t) ==
  LET often == Cardinality({i \in DOMAIN t : Reaches(t[i].cpu, 90)}) >= 2
      critical == Peak(t, "cpu", 95) \/ (often /\ MeanReaches(CpusOf(t), 85))
      elevated == ~critical /\ (Peak(t, "cpu", 80) \/ MeanReaches(CpusOf(t), 75))
      spike == \E i \in 1..Len(t) - 1 :
                 /\ Reaches(t[i].cpu, 80) /\ t[i + 1].cpu # NoValue
                 /\ t[i].cpu - t[i + 1].cpu >= 40
  IN  Found(critical, "CPU", "CRITICAL") \cup Found(elevated \/ spike, "CPU", "WARNING")

FullAnomalies(t, get, category) ==
  Found(Peak(t, get, 90), category, "CRITICAL")
  \cup Found(Peak(t, get, 80) /\ ~Peak(t, get, 90), category, "WARNING")

LogAnomalies(critical, warnings) ==
  Found(critical >= 2, "LOGS", "CRITICAL")
  \cup Found(critical = 1 \/ warnings >= 6, "LOGS", "WARNING")

Anomalies(period) ==
  Found(period.status = "offline", "CONNECTIVITY", "CRITICAL")
  \cup CpuAnomalies(period.telemetry)
  \cup FullAnomalies(period.telemetry, "ram", "MEMORY")
  \cup FullAnomalies(period.telemetry, "disk", "STORAGE")
  \cup Found(\E app \in DOMAIN period.starts : period.starts[app] >= 4, "APPLICATION", "WARNING")
  \cup LogAnomalies(period.critical, period.warnings)

-----------------------------------------------------------------------------
(* How the three agree. *)

\* What is shown agrees with the alerts.  A device with a saturated resource is
\* not shown GOOD, although a GOOD device may have alerts; one shown CRITICAL has
\* an alert that says why: the weighted score never falls below 50 while each part
\* stays below the threshold of its alert; the summary of a WARNING names a reason,
\* and so never blames a mere "moderate operational load"; and an offline device is CRITICAL in
\* the assessment and at every point of its trend.
StatusAgreesWithAlerts(s) ==
  /\ Score(s) \in 0..100
  /\ Status(s) = "GOOD" => ActiveAlerts(s) \cap DOMAIN Saturation = {}
  /\ Status(s) = "CRITICAL" => ActiveAlerts(s) # {}
  /\ Status(s) = "WARNING" => Reasons(s) # {}
  /\ ~s.online => /\ Status(s) = "CRITICAL"
                  /\ \A i \in DOMAIN s.history : TrendPoint(s.history[i], FALSE) < 50

\* A resource an alert calls critical is a critical anomaly of every period that
\* includes the record, for all that the two have their own thresholds.
AnalysisCoversAlerts(s) ==
  \A a \in ActiveAlerts(s) \cap DOMAIN Saturation :
    Anomaly(Saturation[a], "CRITICAL") \in
      Anomalies([status |-> "online", telemetry |-> s.history, starts |-> <<>>,
                 critical |-> 0, warnings |-> 0])

\* A worse reading, or one more log entry, never raises the score: the weights,
\* the caps and the rounding keep the order.
WorseIsNeverHigher(s) ==
  /\ s.latest # <<>> =>
       \A r \in DOMAIN s.latest[1], u \in Usages :
         s.latest[1][r] = NoValue \/ u >= s.latest[1][r] =>
           Score([s EXCEPT !.latest = <<[@[1] EXCEPT ![r] = u]>>]) <= Score(s)
  /\ Score([s EXCEPT !.logs.warn1h = @ + 1, !.logs.warn24h = @ + 1]) <= Score(s)
  /\ Score([s EXCEPT !.logs.crit1h = @ + 1, !.logs.crit24h = @ + 1]) <= Score(s)
  /\ Score([s EXCEPT !.online = FALSE]) <= Score(s)
=============================================================================
