------------------------------ MODULE AwsMonitor ------------------------------
(***************************************************************************)
(* The Master's AWS monitoring: the credentials and the region it is given *)
(* (secrets in memory only), the connection test, the discovery of EC2     *)
(* instances, and the configuration rows the next start reads.  Requests   *)
(* run in threads and share one connection object; its lock protects each  *)
(* access, not the sequences of them.                                      *)
(***************************************************************************)
EXTENDS Integers, FiniteSets

CONSTANTS
  AwsRequests,   \* requests of administrators
  Regions,       \* regions asked for
  Instances,     \* EC2 instances
  LivesIn,       \* the region of each
  NoKey,         \* no access key, no account
  AwsChanges     \* bound on settings, failures and restarts

\* "account" stands for the account of the environment's credentials, "key" for
\* an access key with its secret and for its account.
Modes == {"env", "keys"}
Accounts == {"account", "key", NoKey}
AwsStatuses == {"Not Configured", "Connecting", "Connected", "Permission Denied",
                "Authentication Failed", "Connection Error"}

ASSUME AwsAssumption ==
  /\ Regions # {} /\ LivesIn \in [Instances -> Regions] /\ NoKey \notin {"account", "key"}
  /\ AwsChanges \in Nat

VARIABLES
  held,       \* what the connection object holds
  saved,      \* the newest row of aws_config: the same but for the key
  rows,       \* the recorded instances, with the state of their status checks
  task,       \* what each request does next
  session,    \* the credential mode its session was made in
  about,      \* the region it has read for its queries
  outcome,    \* what its test has found so far
  snapshot,   \* the state it is about to save
  found,      \* the instances it has found, with the state of their status checks
  disturbed,  \* a save was overtaken by another request's change, or failed
  used        \* uses of AwsChanges

threadState == <<task, session, about, outcome, snapshot, found>>
awsVars == <<held, saved, rows, threadState, disturbed, used>>

Initial == [mode |-> "env", region |-> CHOOSE r \in Regions : TRUE, account |-> NoKey,
            status |-> "Not Configured"]
WithKey(public, key) ==
  [mode |-> public.mode, region |-> public.region, account |-> public.account,
   status |-> public.status, key |-> key]
\* get_public_state, as far as it is saved.
Public(h) == [mode |-> h.mode, region |-> h.region, account |-> h.account, status |-> h.status]

NoOutcome == [status |-> "Connecting", account |-> NoKey]
NoInstances == [i \in {} |-> "initializing"]

AwsInit ==
  /\ held = WithKey(Initial, NoKey) /\ saved = Initial
  /\ rows = NoInstances
  /\ task = [t \in AwsRequests |-> "idle"]
  /\ session = [t \in AwsRequests |-> "env"]
  /\ about = [t \in AwsRequests |-> Initial.region]
  /\ outcome = [t \in AwsRequests |-> NoOutcome]
  /\ snapshot = [t \in AwsRequests |-> Initial]
  /\ found = [t \in AwsRequests |-> NoInstances]
  /\ disturbed = FALSE /\ used = 0

Turn(t, from, to) == task[t] = from /\ task' = [task EXCEPT ![t] = to]

\* The request returns, and its local variables are gone.
Done(t, from) ==
  /\ Turn(t, from, "idle")
  /\ session' = [session EXCEPT ![t] = "env"]
  /\ about' = [about EXCEPT ![t] = Initial.region]
  /\ outcome' = [outcome EXCEPT ![t] = NoOutcome]
  /\ snapshot' = [snapshot EXCEPT ![t] = Initial]
  /\ found' = [found EXCEPT ![t] = NoInstances]
Use == used < AwsChanges /\ used' = used + 1

\* A change of what is saved while another request has yet to save its snapshot.
Overtakes(t) == disturbed' = (disturbed \/ \E o \in AwsRequests \ {t} : task[o] = "insert")

-----------------------------------------------------------------------------
(* Settings. *)

\* An empty region becomes the default one in the API.  A part of the key that is not
\* given stays, and so does an empty secret, but an empty id clears the one that is
\* held; the environment's mode forgets both.  The account and the status of the last
\* test stay.
Configure(t) ==
  /\ Use /\ Turn(t, "idle", "snapshot")
  /\ \E mode \in Modes, region \in Regions, key \in {held.key, "key", NoKey} :
       held' = [held EXCEPT !.mode = mode, !.region = region,
                            !.key = IF mode = "env" THEN NoKey ELSE key]
  /\ UNCHANGED <<saved, rows, session, about, outcome, snapshot, found>>
  /\ Overtakes(t)

\* _persist_config reads the state under the lock, and inserts a row.
TakeSnapshot(t) ==
  /\ Turn(t, "snapshot", "insert")
  /\ snapshot' = [snapshot EXCEPT ![t] = Public(held)]
  /\ UNCHANGED <<held, saved, rows, session, about, outcome, found, disturbed, used>>

InsertRow(t) ==
  /\ Done(t, "insert")
  /\ saved' = snapshot[t]
  /\ UNCHANGED <<held, rows, disturbed, used>>

\* The error is logged, and the request succeeds.
InsertRowFails(t) ==
  /\ Use /\ Done(t, "insert")
  /\ disturbed' = TRUE
  /\ UNCHANGED <<held, saved, rows>>

-----------------------------------------------------------------------------
(* The connection test, and the discovery of instances. *)

\* create_session reads the configuration at once.  Without a key there is no
\* session in the keys mode.
Open(t, next) ==
  LET failed == held.mode = "keys" /\ held.key = NoKey
  IN  /\ session' = [session EXCEPT ![t] = held.mode]
      /\ outcome' = [outcome EXCEPT ![t] =
           IF failed THEN [NoOutcome EXCEPT !.status = "Authentication Failed"] ELSE NoOutcome]
      /\ Turn(t, "idle", CASE ~failed -> next
                           [] failed /\ next = "identity" -> "status"
                           [] OTHER -> "idle")

BeginTest(t) ==
  Use /\ Open(t, "identity") /\ UNCHANGED <<held, saved, rows, about, snapshot, found, disturbed>>

\* The account is that of the session's credentials, and is held at once.
AskIdentity(t) ==
  /\ \/ LET account == IF session[t] = "env" THEN "account" ELSE "key"
        IN  /\ Turn(t, "identity", "access")
            /\ outcome' = [outcome EXCEPT ![t].account = account]
            /\ held' = [held EXCEPT !.account = account]
            /\ Overtakes(t)
     \/ /\ Turn(t, "identity", "status")
        /\ \E error \in {"Authentication Failed", "Connection Error"} :
             outcome' = [outcome EXCEPT ![t].status = error]
        /\ UNCHANGED <<held, disturbed>>
  /\ UNCHANGED <<saved, rows, session, about, snapshot, found, used>>

\* EC2 and CloudWatch are asked about the region of the moment.
AskAccess(t) ==
  /\ Turn(t, "access", "status")
  /\ \E verdict \in {"Connected", "Permission Denied", "Connection Error"} :
       outcome' = [outcome EXCEPT ![t].status = verdict]
  /\ UNCHANGED <<held, saved, rows, session, about, snapshot, found, disturbed, used>>

\* Faulty variant: the outcome is not saved.
UpdateStatusUnsaved(t) ==
  /\ Done(t, "status")
  /\ held' = [held EXCEPT !.status = outcome[t].status,
                          !.account = IF outcome[t].account = NoKey THEN @ ELSE outcome[t].account]
  /\ Overtakes(t)
  /\ UNCHANGED <<saved, rows, used>>

UpdateStatus(t) ==
  /\ Turn(t, "status", "snapshot")
  /\ held' = [held EXCEPT !.status = outcome[t].status,
                          !.account = IF outcome[t].account = NoKey THEN @ ELSE outcome[t].account]
  /\ Overtakes(t)
  /\ UNCHANGED <<saved, rows, session, about, outcome, snapshot, found, used>>

BeginDiscovery(t) ==
  Use /\ Open(t, "region") /\ UNCHANGED <<held, saved, rows, about, snapshot, found, disturbed>>

\* The region is read after the session was made.
ReadRegion(t) ==
  /\ Turn(t, "region", "describe")
  /\ about' = [about EXCEPT ![t] = held.region]
  /\ UNCHANGED <<held, saved, rows, session, outcome, snapshot, found, disturbed, used>>

\* DescribeInstanceStatus for a batch of instances: whether each passed its
\* checks is known when the query succeeds, and "initializing" when it fails.
StatusChecks(batch) == {[i \in batch |-> status] : status \in {"initializing", "checked"}}

\* All pages of the region's instances are read before any is recorded.
QueryInstances(t) ==
  /\ Turn(t, "describe", "save")
  /\ \E checks \in StatusChecks({i \in Instances : LivesIn[i] = about[t]}) :
       found' = [found EXCEPT ![t] = checks]
  /\ UNCHANGED <<held, saved, rows, session, about, outcome, snapshot, disturbed, used>>

\* The request is answered with an error, and nothing is recorded.
QueryFails(t) ==
  Done(t, "describe") /\ UNCHANGED <<held, saved, rows, disturbed, used>>

\* One transaction inserts or replaces the rows of what was found, and removes
\* none.  Its failure is logged, and the recorded instances are the answer.
SaveInstances(t) ==
  /\ Done(t, "save")
  /\ \/ rows' = [i \in DOMAIN found[t] \cup DOMAIN rows |->
                    IF i \in DOMAIN found[t] THEN found[t][i] ELSE rows[i]]
     \/ UNCHANGED rows
  /\ UNCHANGED <<held, saved, disturbed, used>>

\* The newest row is read back; the key and what was in hand are gone.
RestartMaster ==
  /\ Use
  /\ held' = WithKey(saved, NoKey)
  /\ task' = [t \in AwsRequests |-> "idle"]
  /\ session' = [t \in AwsRequests |-> "env"]
  /\ about' = [t \in AwsRequests |-> Initial.region]
  /\ outcome' = [t \in AwsRequests |-> NoOutcome]
  /\ snapshot' = [t \in AwsRequests |-> Initial]
  /\ found' = [t \in AwsRequests |-> NoInstances]
  /\ disturbed' = FALSE
  /\ UNCHANGED <<saved, rows>>

AwsStep(t) ==
  \/ TakeSnapshot(t) \/ InsertRow(t)
  \/ AskIdentity(t) \/ AskAccess(t) \/ UpdateStatus(t)
  \/ ReadRegion(t) \/ QueryInstances(t) \/ QueryFails(t) \/ SaveInstances(t)

AwsNext ==
  \/ \E t \in AwsRequests :
       Configure(t) \/ BeginTest(t) \/ BeginDiscovery(t) \/ AwsStep(t) \/ InsertRowFails(t)
  \/ RestartMaster

AwsSpec == AwsInit /\ [][AwsNext]_awsVars

-----------------------------------------------------------------------------
(* Properties. *)

AwsTypeOK ==
  /\ Public(held) \in [mode : Modes, region : Regions, account : Accounts, status : AwsStatuses]
  /\ held.key \in {"key", NoKey} /\ (held.mode = "env" => held.key = NoKey)
  /\ rows \in UNION {[ids -> {"initializing", "checked"}] : ids \in SUBSET Instances}
  /\ \A t \in AwsRequests : found[t] \in UNION {StatusChecks(ids) : ids \in SUBSET Instances}
  /\ \A t \in AwsRequests : about[t] \in Regions /\ session[t] \in Modes
  /\ disturbed \in BOOLEAN /\ used \in 0..AwsChanges

\* A restart brings back what was in force: with no request under way the newest
\* row is what the connection object holds, unless a save failed or another
\* request changed the settings, the account or the status while a snapshot of
\* them was still to be inserted.
RestartBringsBackSettings ==
  (\A t \in AwsRequests : task[t] = "idle") => disturbed \/ saved = Public(held)
=============================================================================
