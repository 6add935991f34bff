---------------------------- MODULE MCDeviceHealth ----------------------------
(***************************************************************************)
(* A small instance of DeviceHealth and, in behaviours of their own, the   *)
(* snapshots for which HealthScore says how score, alerts and anomalies    *)
(* agree.                                                                  *)
(***************************************************************************)
EXTENDS DeviceHealth

CONSTANTS e1, e2

ASSUME InstanceAssumption == {69, 84, 94, 95} \subseteq Usages

VARIABLES
  sample,   \* a snapshot for HealthScore, put together in three steps
  ready     \* how many of them are done, or "no sample"

R(cpu, ram, disk) == [cpu |-> cpu, ram |-> ram, disk |-> disk]
OneLoad == {R(95, 69, 69)}
OneCritical == {NoLogs, [NoLogs EXCEPT !.crit24h = 1]}
Older == {R(69, 69, 69), R(94, 84, NoValue), R(84, 95, 69)}

-----------------------------------------------------------------------------
Init ==
  /\ HealthInit /\ up
  /\ sample = NothingSeen
  /\ ready \in {-1, 0}

\* A snapshot need not be of one moment: the newest record may be the second.
ExtendSample ==
  /\ \/ /\ ready = 0
        /\ \E o \in BOOLEAN, l \in {<<>>} \cup {<<t>> : t \in Records} :
             sample' = [sample EXCEPT !.online = o, !.latest = l]
     \/ /\ ready = 1
        /\ \E c \in Counts : sample' = [sample EXCEPT !.logs = c]
     \/ /\ ready = 2
        /\ \E t \in Older, l \in {sample.latest} :
             \E h \in {l, l \o <<t>>, IF l = <<>> THEN l ELSE <<t>> \o l} :
               sample' = [sample EXCEPT !.history = h]
  /\ ready' = ready + 1

Next ==
  \/ ready = -1 /\ HealthNext /\ UNCHANGED <<sample, ready>>
  \/ ready \in 0..2 /\ ExtendSample /\ UNCHANGED healthVars

vars == <<healthVars, sample, ready>>

Fairness == \A e \in Evaluators : WF_healthVars(ready = -1 /\ Continue(e))

Spec == Init /\ [][Next]_vars /\ Fairness

-----------------------------------------------------------------------------
\* What HealthScore says of a snapshot, of every one that is put together.
StatusAgrees == ready = 3 => StatusAgreesWithAlerts(sample)
AnalysisAgrees == ready = 3 => AnalysisCoversAlerts(sample)
ScoreIsMonotone == ready = 3 => WorseIsNeverHigher(sample)
=============================================================================
