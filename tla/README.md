# APEXEYE in TLA+

APEXEYE monitors PCs on a LAN. One **Master** (Flask, SQLite, a few background
threads) keeps the devices, what they report, and the policies; a **client** on each
PC (Windows: `client/`, Linux: `client_linux/`, kept in step by hand) finds it, pairs
with it, reports, and enforces its firewall policy. This directory holds a formal model
of the parts in which threads, failures and restarts meet, and of the computations
that have to agree with each other: TLA+ modules, TLC configurations and TLAPS proofs.
`PROJECT.json` lists components, hazards, runs, mutants, findings, theorems and, per
definition, the source lines it stands for. Paths below are relative to `src/`.

Run a check with `tlc -workers 2 -config <run>.cfg MC<Module>.tla`, a proof with
`tlapm <Module>Proofs.tla`.

## 1. Inventory

| component | state it keeps | operations | meets whom, how | hard |
|---|---|---|---|---|
| authentication and pairing (`master/app/auth`, `api/auth_middleware.py`, `api/client_api.py`, `api/devices.py`) | table `device_auth` | issue, use, revoke a credential; check it on every request | devices table, through connections of its own | several commits per request, checks stale when used |
| device table (`services/device_service.py`) | table `devices`: `status`, `authentication_status`, `last_seen`, `updated_at` | register, upsert, update, remove, reconcile presence | written by every handler and by the monitor | read-then-write in concurrent threads |
| ingestion (`heartbeat_service`, `telemetry_service`, `event_service`, `host_info_service`) | record tables | store, deduplicate, set the device online | after the middleware's check | the check is stale when the service writes; SELECT before INSERT |
| presence monitor (`services/presence_service.py`) | - | every second: silent devices go offline | device table | liveness; NULL `last_seen` |
| command center (`services/command_service.py`) | tables `commands`, `audit_logs` | health check, forced re-authentication, time, connectivity, monitoring policy | changes the device table | dispatch between two commits; errors after it |
| firewall policy (`services/firewall_service.py`, `api/firewall_api.py`) | tables `firewall_settings`, `firewall_blocked_domains`, `firewall_logs` | enable, disable, add, remove; serve the policy; log blocked attempts | clients poll it and report to it; each change re-applies it to the Master's hosts file | version computed outside the transaction; two SELECTs per answer |
| Master's hosts file (`services/master_firewall_enforcer.py`) | hosts file | apply policy | called by each request after its commit | read, truncate, write, by several threads |
| client firewall agent, enforcers (`*/services/firewall_agent.py`, `enforcement/`) | memory, cache file, hosts file, QUIC rule | boot from the cache, poll, apply, tear down | polls the Master; shown in the local UI | a sequence of system calls, each may fail; what outlives a crash |
| block server (`*/services/block_server.py`) | listeners, recent attempts | start, stop, serve a connection, report it | its threads read the agent's policy | policy changes under a connection |
| client lifecycle and authentication (`*/main.py`, `auth`, `agent.py`) | credentials file, identity, two events, the current agent | verify, wait for pairing, run an agent, disconnect, start over | threads of main, UI, terminal, workers and commands, without a lock | interleavings, lost wake-ups, pending flags |
| client communication (`*/communication`) | identity, offline buffer, Master's URL | request with retry, buffer, flush, rediscovery | used by all workers | unguarded buffer; late and lost answers |
| client discovery (`*/services/discovery*`, `config`) | cached endpoint | broadcast, names, cache, verification | chooses the Master's URL | order of sources; a Master that moves |
| client event collector (`*/collectors/events.py`) | classification cache, the groups of the last scan | scan, classify, group, compare | operating system; feeds the uplink | processes that come and go during a scan; a full cache |
| client command handler (`*/services/command_handler.py`) | two intervals | the same five commands | runs the disconnect callback | races with the lifecycle; sets while it checks |
| alerts, health, anomalies (`alert_service`, `health_service`, `anomaly_service`) | table `alerts` | score, evaluate, sync | called by pages and commands | two evaluations of one device; thresholds in three places |
| CCTV (`cctv_monitor`, `cctv_service`, `cctv_prober`) | cameras, last known status | probe, administer | monitor thread beside administrators | results for cameras changed meanwhile |
| AWS (`aws_service`) | connection object, configuration rows, instance rows | configure, test, discover, restore | concurrent requests on one object | test, lock and save are separate |
| rate limiter, admin sessions, logs, AI and reports, dashboard | sliding windows; -; -; -; - | admit; query; render | - | read-only |

What makes each part correct, in a sentence:

- *pairing*: a device called paired has a credential that is accepted; one live
  credential per device; a revoked one stays revoked; no credential without a device.
- *presence*: a device that stops talking, or lost its pairing, ends up not online.
- *policy*: a version names one policy; versions move forward; the Master's hosts
  file comes to follow the policy and keeps its other lines.
- *client firewall*: the displayed state is true whatever fails; a firewall that is
  taken down leaves nothing behind; the client ends up
  blocking exactly what the last policy blocks; a visit is refused and logged
  according to the policy it ran under.
- *lifecycle*: one session does not reach into the next; a disconnect ends the
  session that runs; a revoked client comes back to the login page; a paired one
  reports; the process does not exit by itself.
- *communication*: an event is neither lost nor stored twice, except where the code
  gives it up; *discovery*: a client finds a Master that can be found.
- *collector*: churn inside an application is silent; no application is hidden.
- *commands*: record, audit log and effect tell one story.
- *health*: score, alerts and anomalies agree; no duplicate alerts. *CCTV*: logged
  transitions add up; the row ends up right. *AWS*: a restart brings back what was
  in force.

## 2. Modules

| module | component | status |
|---|---|---|
| `MasterSession` | pairing, device table, presence, what ingestion and REAUTHENTICATE_AGENT do to them | checked, proved |
| `FirewallPolicy` | policy tables and the administrator's requests (variables and actions, no specification of its own) | part of the next two |
| `FirewallMaster` | `FirewallPolicy` with the Master's hosts file and histories: what versions are worth | checked, proved |
| `FirewallAgent` | a client's firewall, either platform | checked, proved |
| `FirewallSync` | `FirewallPolicy` and `FirewallAgent` (by INSTANCE), joined by polling | checked, proved |
| `BlockedAttempts` | `FirewallAgent` with the block server's connections and the Master's log of attempts | checked, proved |
| `ClientLifecycle` | main loop, ClientAuth, Agent's workers, login page and terminal prompt, disconnect callback, REAUTHENTICATE_AGENT | checked, proved |
| `EventUplink` | workers, retries, offline buffer, flush, the Master's deduplication | checked, proved |
| `AppMonitor` | the event collector's scans | checked, proved |
| `MasterDiscovery` | configuration, broadcast, names, cache, rediscovery, the Master's responder | checked |
| `HealthScore` | score, alert conditions, anomalies, trend (operators) | checked, proved |
| `DeviceHealth` | `HealthScore` in concurrent health checks, the alerts table | checked, proved |
| `CommandCenter` | commands at the Master, the client's monitoring policy | checked, proved |
| `CctvMonitor` | probe, monitor thread, immediate checks, administration | checked, proved |
| `AwsMonitor` | settings, connection test, discovery, restart | checked, proved |
| `...Proofs` | theorems about the module of that name; `DeviceHealthProofs` holds those about `HealthScore`, `MasterPartsProofs` and `ClientPartsProofs` those about the parts of the two modules below | proved |
| `MC...` | the small instances; `MCMasterParts` and `MCClientParts` hold several parts each | |

**How state and actions correspond to the code.** A handler of the Master is a
sequence of actions, one per transaction: a SELECT before the first write of a
connection runs outside any transaction, so it is a step of its own, and a group of
writes closed by one `commit()` is one step. A thread's place and what it has read are
a record (`req`, `job`) or functions of the thread. A client thread is modelled the same
way, one action per call that touches shared state or the system. Time is only ever
compared as differences, so timestamps are ages, saturated above the largest limit,
or small clocks. Tokens, domains and addresses are model values; a host name is the
sequence of its labels where labels matter. Descriptive columns, logging, hashing and
the form of messages are left out. Variables called histories (`cut`, `revived`, `stray`,
`missed`, `named`, `alone`, `unremoved`, `blind`, `overlapped`, `unlogged`, `disturbed`,
`steady`) name exactly where the code gives a promise up; a property that would otherwise
be false says so with one of them. What each exempts is a race or a failure that the code
is exposed to, and the hazards in `PROJECT.json` say so where a property leaves one out.

*MasterSession.* `StartContact`/`CredCheck`/`Touch` are the middleware's two checks
and the write of whichever ingestion service follows; `AuthSelect` to `AuthMark` is
`authenticate_device` (SELECT, `upsert_device`, the device read that reconciles
presence, UPDATE by id); `PairDevice`, `StartClientRegister`..`ClientIssue`, `Revoke`,
`Register`, `UpdateRead`/`UpdateWrite`, `Remove`, `ReauthCheck`/`ReauthWrite` are the other
endpoints; `Monitor` is the monitor loop and every read that reconciles; `Fail(R)` ends
any set of requests halfway, a death of the process being the case of all of them.

*FirewallPolicy.* `set_enabled` is `StartSetEnabled`, `EnsureRow`, `ReadVersion`,
`Write`, `ListDomains`; `add_domain`/`remove_domain` are a start, `ListWrite` or
`Duplicate`, and `ChangeList`/`ChangeListFirst`; then each reads the policy again
(`ReadSettings`, `ReadDomains`). `RequestFails` ends a request anywhere.

*FirewallMaster.* `apply_policy` is `ReadHosts`, `EmptyHosts`, `FillHosts`: the file is
read, emptied by `open(..., "w")` and written, by any number of threads at once. `others`
stands for all lines outside the sentinel block. Two histories: `named` has the versions
committed until two requests are at work together, `alone` the requests that have met no
other since their commit.

*FirewallAgent.* `Receive` decides whether an answer is new, `Save` writes the cache,
then either `WriteHosts`, `AddQuic`, `PortsFree` and `BlockServer.start()`, or `ClearHosts`,
`DeleteQuic`, `ClearQuicFlag` and `BlockServer.stop()`, each system call with its failure.
`stop()` is `CloseListeners` and then `StopServer`, the statuses; `start()` calls it before
`Listen`, so a changed policy has a moment without listeners, as a teardown has one in which
the rule is gone and its flag is not, each with the old display. `unremoved` notes a teardown
that failed. `Restart` may tear the cache when it interrupts the save. `VersionOnly` and
`PortsExclusive` choose between the two clients.

*FirewallSync.* `Poll`, `ServeSettings`, `ServeDomains`, `Deliver`; `PollLost` at any
point. One sync thread per client is assumed: `agent.py:56` can leave an old one
beside the new (see hazards).

*BlockedAttempts.* A visitor is a connection: `Connect`, `ServeHttp`/`ServeHttps`, `Match`
(exact name, without or with "www", parent domain), `Note` (the agent's list),
`Report` or `ReportFails`, then the Master's `LookForRow` and `InsertRow` under the UNIQUE
key of device, domain, version and minute. `AgentStep` changes the policy meanwhile.

*ClientLifecycle.* `main` walks through verify, environment, wait, spawn, start, run,
join, after; `OnDisconnect` is the callback, step by step, in whichever thread runs it;
`worker` is one of the telemetry, heartbeat, host-info and event threads, which differ
only in what they send. `prompt` is a terminal prompt blocked in `input()`, which may
survive the session it was opened for. The credentials file and the copy in memory
are one variable. `stray` turns true when something outside the *orderly course*
happens: a worker outlives the five seconds it is waited for, the user sends
credentials while main() is not waiting, or a REAUTHENTICATE_AGENT comes. Properties
that need that course say so; `DisconnectEndsSession` does not.

*EventUplink.* A worker sends, waits, retries, and gives up into the buffer; after a
success it takes the buffer (`flush_buffer` copies, sends, puts back what failed and
replaces the list, without the lock of the other workers). A request lives on at
the Master when its answer is late, so a retry may overlap it; `LookUp` and `Store`
are the deduplication.

*AppMonitor.* A scan examines the processes one by one while they start and exit;
`ExamineWindows` and `ExamineLinux` differ in what is filtered before the cache is asked.

*MasterDiscovery.* `phase` is the search: verify what was configured, broadcast
(`lan`), `names`, `cache`, then `up`; a request that cannot connect starts over without
the cache. `Take` writes the cache file.

*HealthScore, DeviceHealth.* Scores are integers in tenths of a point, rounding is to
the nearest even. `ReadDevice`, `ReadLatest`, `ReadLogs` are the three connections of an
assessment, `SelectOpen` and `WriteAlerts` those of `sync_alerts`.

*CommandCenter.* `AskFor` to `LogAudit` are the commits of one request;
`DatabaseFails` and `MasterCrashes` come between any two. `MasterVerdict` and
`ClientAccepts`/`ClientSets` are the two validations of a monitoring policy.

*CctvMonitor.* `Authenticated` and `ProbeStatus` are the RTSP exchange; a check is
`ReadCamera`, probe, `ExchangeStatus` (the lock), `StoreResult`, log.

*AwsMonitor.* `held` is the connection object, `saved` the newest configuration row;
configuring, testing and discovering release the lock between what they do.

## 3. Runs

Four runs are about one component, `sync_...` about two that talk to each other. The
parts in `MCMasterParts` and `MCClientParts` have no state in common: their runs put
them side by side, the initial state chooses the `part` that runs, the others rest.
This is the union of the parts' state spaces, not their product. In these modules
`PartsTypeOK` states the type invariant of the part that runs, and `Fairness` repeats each
part's own fairness for behaviours of that part.

| run | question | bounds |
|---|---|---|
| `session_safety` | do device and credential table keep agreeing? | 1 device, 2 tokens, 2 handlers, limits 0 |
| `session_presence` | do silent and unpaired devices go offline? | 1 device, 1 token, 2 handlers, timeout 1 |
| `session_revoked` (violated) | does a revoked credential stay revoked? | as `session_safety` |
| `policy_versions` (violated) | does the version move with every change? | 1 domain, 2 requests, changes begun below version 3 |
| `master_hosts` (violated) | do the other lines of the Master's hosts file stay? | 1 domain, 2 requests, below version 2 |
| `sync_windows` | does a Windows client converge, whatever fails? | 1 domain, 2 requests, below version 1; 1 failing call of any of the 6 kinds, 1 restart |
| `sync_ports` (violated) | Linux client: does a changed policy take effect? | 1 domain, below version 3, no failure |
| `lifecycle_sessions` | sessions apart, disconnect, revocation, pairing | 2 tokens, 1 worker, 1 mishap |
| `lifecycle_reauth` (violated) | does a pending disconnect end the agent that runs? | the same |
| `health_alerts` | do score, alerts and anomalies agree? does the alerts table? | usages at every threshold's edge, 3 log counts, 2 checks, 2 changes |
| `master_parts` | camera; commands; AWS settings; policy and hosts file | 2 endpoints, poller and 1 check; 2 commands, 2 mishaps; 2 requests, 2 regions; 2 administrators' requests, 2 domains, below version 3 |
| `client_parts` | uplink; collector; discovery; firewall agent; visits | 2 apps, buffer of 1, 2 tries; 5 programs, 3 launches, cache of 2; 2 addresses, 3 moves; 2 names, 2 failures, 1 restart; 2 visitors, 2 minutes, a list of 2 |

**Why the bounds are enough for these questions.** Devices do not share state in
`MasterSession`, so one device shows what concerns one; two tokens give an old and a
new credential, two handlers every race of two requests (the proofs cover all
numbers). Limits of 0 and 1 make "just expired" and "just timed out" reachable. Two
domains separate "adds" from "replaces"; two requests that start at version 0 are
enough for colliding versions, since a collision needs one stale SELECT, and two for the
hosts file: the policies of both in either order, a third request after them. One worker
suffices for the callback to race the command handler, main and the UI; two tokens
give an earlier session's and the next one's. A buffer of one payload overflows at
the second, and with two workers a flush overlaps a put. Two tries make a first and
a last one, two requests at the Master an overlapping retry. Three launches of
programs that share an executable name reach a second and a third process of one
group; the cache of two entries overflows, which `CacheSuffices` excludes where the code's
512 entries are what a property rests on. The usages 69, 84, 94, 95 (and their
worse neighbours by `WorseIsNeverHigher`) lie at the limits of the three sets of
thresholds. Two concurrent checks are every race for one alert row, and the proof
covers all numbers. One mishap in `lifecycle_sessions` is a lost request *or* a
command *or* a restart: two of them together are not covered. `CHECK_DEADLOCK FALSE`
appears where the system may stop: changes are bounded, and a client may end.

**What the violated runs show** (`findings` in `PROJECT.json` quotes what they contradict):

- `session_revoked`: `authenticate_device` marks a credential paired by its id after two
  other commits; a revocation in between is undone.
- `policy_versions`: `set_enabled` reads the version outside its transaction, so two
  changes may share one number. A Windows client survives it, because it compares
  contents (`sync_windows`). Until two requests meet it cannot happen (`MovesForward`).
- `master_hosts`: a request that reads the Master's hosts file while another has
  emptied it writes back nothing but the block, and no later request brings the lines
  back. What the file blocks, in contrast, is mended by the next request that meets no
  other (`LoneRequestSettles`): until then the file may have the older policy of two.
- `sync_ports`: on Linux the port check runs before the client's own listeners are
  closed, so a changed policy stays in error, at every retry.
- `lifecycle_reauth`: a disconnect that runs with no agent current (before `main.py:300`,
  or while main() waits) sets `disconnect_event` and stops nothing; it stays pending,
  the next agent runs, and every later disconnect returns at once.

**What else the models say of the code**, where no document says otherwise:

- *Commands.* The API hands the command service no client handler, so a policy
  update, time synchronisation or connectivity check recorded COMPLETED never reaches
  the client. Commands refused for their parameters leave no audit entry. A
  COMPLETED whose audit entry cannot be written is overwritten as FAILED. The client
  keeps a telemetry interval although a later parameter has the command refused, and
  accepts a null at which the Master raises.
- *Health.* `sync_alerts`' "ONE active alert" does not hold of concurrent checks; one per
  check does (proved), and later checks clear the rest. CPU at 90 % still scores
  GOOD; three critical logs raise an alert while the status is GOOD; the anomaly's search
  for an application start uses `datetime` without importing it. A WARNING always
  names a reason, so the fallback text cannot appear. Against the Python code the integer
  score differs in 6 of 38,880 inputs, by floating-point ties away from any threshold.
- *Client firewall.* ACTIVE is on display, for a moment, without listeners or without the
  rule (`ActiveIsEnforced` says exactly when). What the enforcer returns from a teardown is
  not looked at (`firewall_agent.py:229-239`): one that fails counts as applied and INACTIVE,
  is not tried again by that process, and leaves names redirected or the rule in place until
  another policy comes. `Converges` and `InactiveIsRemoved` hold up to that, and say so with `unremoved`.
- *Uplink.* Telemetry is not deduplicated. *Collector.* On Linux a process name of root
  that is cached as system hides a user's program of that name.
- *Discovery.* Verifying a configured URL overwrites the cached host name; a legacy loopback
  address is taken unverified; values of `.env` become environment variables, so a
  second resolution in one process never searches the network.
- *CCTV.* A result in flight is stored for a camera registered anew; `update_cctv` writes
  back every column it has read. *AWS.* A failed status query replaces a known status by
  "initializing".
- *Block server.* A ClientHello whose name lies beyond 1,024 bytes is closed unlogged;
  a report is tried once; only the first "www." is stripped from what is entered, so
  "www.www.y" makes the block server refuse "y", which hosts does not redirect.

## 4. Fairness

- `MasterSession`: `WF` on each handler's next step (a thread in a request is
  scheduled and its statements return or fail), on the monitor (`while` with a
  one-second wait) and on time. None on requests arriving.
- `FirewallSync`: `WF` on polling and on the client's step (its own thread), on the
  steps of requests begun; `SF` on serving and delivering a poll: a poll may be lost
  again and again, but not every one for ever. None on administrators starting.
- `ClientLifecycle`: `WF` on main(), on the UI's and the command handler's begun steps
  and on each worker. None on the Master issuing or revoking or on the user. Lost
  requests are bounded, standing for "not lost for ever".
- `EventUplink`: `WF` on the two periodic workers, each worker's next step and each
  request at the Master. Nothing about the link: `LatestEventTells` assumes it stays up.
- `MasterDiscovery`: `WF` on the client's step. The network's moves are bounded and free.
- `DeviceHealth`: `WF` on a begun request. That checks keep coming is a premise of
  `AlertsSettle`.
- `CctvMonitor`: `WF` on the poller's next read (its loop), on every begun check and on
  the second half of an update.

`CommandCenter`, `AwsMonitor`, `AppMonitor`, `BlockedAttempts` and `FirewallMaster` state
safety only.

## 5. Proofs

No `RECURSIVE` operator is used anywhere. Every invariant below was model-checked first.

`MasterSessionProofs`: for any number of devices, tokens and handlers, any timeouts,
from `SessionAssumption`. `TypeCorrect` first; then `Invariance`:
`IInv = TypeOK /\ PairingInFlight /\ NoOrphanCredential /\ PairedIsBacked /\ OneLiveCredential`
is inductive, and the four safety theorems follow. The parts need each other: `AuthMark` keeps
`PairedIsBacked` only because the credential it marks still belongs to the device it
has paired (`PairingInFlight`), which holds only because credentials go with their
device (`NoOrphanCredential`); `OneLiveCredential` needs to know that what `AuthMark`
marks was issued. There is a lemma per action or group of actions.

`FirewallAgentProofs`: for any names and versions, either client, any set of calls that
may fail and any number of failures and restarts, from `AgentAssumption`.
`ActiveIsEnforced` is not inductive: what it says at rest is the work of all the steps
before. `Staged` adds what each stage may rely on (the hosts file is written before the
rule, the rule before the listeners; the flags in memory promise more than the system
holds only between the call that takes it away and their own reset; the stages of a
teardown find the rule gone unless it failed), and `Settled` what the thread waits with;
`IInv = AgentTypeOK /\ Staged /\ (at = "wait" => Settled)` is inductive, and gives
`Truthful`, `TeardownIsClean` and `FailuresShow`.

`FirewallMasterProofs`: for any domains, any `MaxVersion` and any number of threads at
once, from `PolicyAssumption`. `MasterInv` adds two things to the types. `LoneInv`: a
request that has met no other since its commit holds what the tables say, and the file it
has emptied is empty; that it fills the file rightly (`LoneRequestSettles`) follows, whatever
races came before. `NamedInv`, which speaks of the time until two requests meet: without a
settings row the firewall is off, which is why the first domain change may reuse a version; a
request about to write holds the version after the present one (`Versioned`); no version of
the future is named, the present one names what is in force (`NamedSoFar`). `OnePolicy` and
`MovesForward` follow. After such a meeting they are false, as `policy_versions` shows.

`FirewallSyncProofs`: for any domains, threads and failures, from `PolicyAssumption` and
`SyncAssumption`. `SyncImplementsAgent` is the refinement `FairSpec => Agent!AgentSpec`: a
step of the Master, the network or the client is a step of `FirewallAgent`, or leaves it
alone. It rests on `PollInv`: what a poll has read is a policy, and the agent's thread
waits while one is under way. Through it the theorems of `FirewallAgentProofs` hold of a
client that polls (`PollingClientIsTruthful`: the display, the errors and the teardown;
`TypeCorrect`); they are cited from an
instance of that module, and the lemma about the tables from one of
`FirewallMasterProofs`, whose hosts file that lemma does not mention.

`ClientLifecycleProofs`: for any tokens and numbers of workers and mishaps, from
`LifecycleAssumption`. Neither `SessionsApart` nor `NeverExits` is inductive; `Orderly` ties
them to where main() is: `disconnect_event` is set only by a worker's callback, which only
afterwards stops the agent, so that an agent that has stopped has a disconnect pending
and main() starts over; workers live from Agent.start to the join. `IInv = TypeOK /\
(stray \/ Orderly)`.

`DeviceHealthProofs`: for any number of concurrent health checks, from
`ScoreAssumption` and `HealthAssumption`. `OneOpenAlertPerRequest` is kept by `FoundNone`: a
request that is about to write and has noted no open row of a type has none of its own there.
That the noted row is the last open one needs a greatest element, which is derived
from the well-foundedness of `<` on the naturals (`Least`, `Greatest`). Its second half is
about `HealthScore`: for every snapshot, any usages from 0 to 100 and any log counts, status
and alerts agree (`ScoreAgreesWithAlerts`), the anomalies name every critical alert
(`AnalysisNamesCriticalAlerts`, where the newest record is in the period), and no worsening raises
the score (`WorseningNeverRaisesScore`). The argument is by bounds: each part of the score
without its alert is worth at least so much, a saturated resource leaves at most so much, and
weights, caps and rounding keep the order. The three invariants of `health_alerts` follow.

`MasterPartsProofs`, three parts, each for any number of requests or threads and mishaps,
and the composition:
- commands (`CommandInvariance`): what record, audit log and effect are at each stage of a
  request, and that what the Master found fine the client accepts;
- AWS (`AwsInvariance`): unless a save failed or was overtaken, which the history notes, a
  snapshot in hand is what the connection object holds, and the newest row says the same or
  some request has yet to save (`SavesFollow`);
- camera (`CctvInvariance`): `Booked` counts, per status, the transitions logged and those in
  threads' hands: together they lead from the first status to the last known one;
- side by side (`PartsTyped`): `PartsInv` has the invariant of whichever part runs, that of the
  firewall policy cited from `FirewallMasterProofs`.

`ClientPartsProofs`, likewise:
- visits (`AttemptsInvariance`, on top of the agent's invariant): `Follows` says what a steady
  visit has come to at each stage, from a name that the policy in force blocks to the entry
  in the agent's list and the row at the Master that bear its version;
- uplink (`UplinkInvariance`): a worker waits for the one answer still to come, about the
  payload it has (`Expected`); what a request found missing has no row, unless its event has
  been at the Master twice at a time (`Missed`, `Overlapping`);
- scans (`MonitorInvariance`): a process that ran on is still to be examined or in a group
  (`InSight`, on Windows); while the cache has room it has one entry per name it was asked
  about (a pigeonhole argument: `RoomForAnother`), so the name of an application is settled once a
  process is counted (`AllSettled`). The two action properties follow.
- types: the uplink's buffer keeps its bound because what is put in or back is cut
  (`BoundedFits`): `UplinkTypeCorrect`. The client has a URL from the moment it has resolved
  one, and only phases of the start need none (`DiscoveryInv`): `DiscoveryTypeCorrect`.
  `PartsTyped` puts the parts side by side, the agent's cited from `FirewallAgentProofs`.

The assumptions on constants say what the code fixes: names are not the markers used beside
them (`Absent`, `Null`, `"SYSTEM"`), there is a region, limits are numbers, what is finite is
finite. TLC evaluates them in the runs.

**Only model-checked**: liveness (presence, `Converges`, the lifecycle's leads-to
and stability properties, `AlertsSettle`, `StatusSettles`, `LatestEventTells`,
`FindsTheMaster`), which is out of the prover's reach. Every invariant and every action
property of the passing runs is a theorem, and none has a premise on how many threads
there are.

## 6. Not modelled, and why

- *Rate limiter, admin sessions*: one list per client under a lock, read nowhere else; the
  address alone decides who is an administrator.
- *The descriptive part of the tables*, the stored host information, the dashboard's
  summaries, log queries and exports: no property of the modelled parts reads them.
- *AI analysis, reports, charts, PDF, dashboard, templates*: read-only computations and text.
- *AWS*: metrics and their thresholds (read-only), an installation without boto3.
- *Metrics collectors* of the clients: they only read the operating system.
- *TLS, certificates, the bytes* of ClientHello, RTSP and the block page: only what
  decides is modelled.
- *A restart of the client* under open connections of the block server, which end with it.
- `MasterDiscoverer.resolve()` and `acknowledge()` of alerts, which nothing calls.
- In `ClientLifecycle`: Ctrl+C, a failed write of cleared credentials, a change of Master,
  two authentications at a time (a second prompt can be started beside one that waits).
- Two sync threads of one client's firewall agent (`agent.py:55`).
- Database migrations.

## 7. Plan

**Done**: the modules of section 2, the runs and the proofs above. Next, in this order:

1. Abstract specification of enforcement (a display and what is really blocked),
   with `FirewallAgent` shown to implement it, by TLC and then by TLAPS.
2. Two sync threads of one agent, with the event that was replaced between them.
