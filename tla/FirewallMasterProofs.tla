------------------------ MODULE FirewallMasterProofs ------------------------
(***************************************************************************)
(* Proofs about FirewallMaster, for any domains, any number of handler     *)
(* threads and any bound on the versions: type correctness; that a request *)
(* that meets no other from its commit on leaves the hosts file with the   *)
(* policy, whatever overlapping and failing requests have made of it; and  *)
(* that a version names one policy as long as requests come one at a time. *)
(* Among overlapping requests that fails, as the runs show.                *)
(***************************************************************************)
EXTENDS FirewallMaster, TLAPS

Served(a) == (AdminStep(a) \/ AdminStart(a)) /\ UNCHANGED <<file, writer>>
Fails(a) ==
  RequestFails(a) /\ writer' = [writer EXCEPT ![a] = NotWriting] /\ UNCHANGED file

\* A thread that has nothing to do has the job Free, which is a job.
LEMMA FreeJob == Free \in Job
<1>1. (CHOOSE d \in Domains : TRUE) \in Domains
  BY PolicyAssumption
<1> QED  BY <1>1 DEF Free, Job, Ops, Steps

\* The request that takes a step leaves the jobs of the others alone.
LEMMA JobsKept ==
  ASSUME PolicyTypeOK, NEW a \in Admins, AdminStep(a) \/ AdminStart(a) \/ Answer(a) \/ RequestFails(a)
  PROVE  \A b \in Admins \ {a} : job'[b] = job[b]
<1> USE DEF PolicyTypeOK, GoOn, Finish, Committed
<1>1. CASE AdminStep(a)
  BY <1>1 DEF AdminStep, EnsureRow, ReadVersion, Write, ListDomains, ChangeList, ChangeListFirst,
              InsertFails, ReadSettings, ReadDomains
<1>2. CASE AdminStart(a)
  BY <1>2 DEF AdminStart, StartSetEnabled, StartAddDomain, StartRemoveDomain
<1>3. CASE Answer(a) \/ RequestFails(a)
  BY <1>3 DEF Answer, RequestFails
<1> QED  BY <1>1, <1>2, <1>3

\* The tables and jobs keep their types, whatever a request does.
LEMMA PolicyTypes ==
  ASSUME PolicyTypeOK, NEW a \in Admins, AdminStep(a) \/ AdminStart(a) \/ Answer(a) \/ RequestFails(a)
  PROVE  PolicyTypeOK'
<1> USE FreeJob DEF PolicyTypeOK
<1>1. job[a] \in Job
  OBVIOUS
<1>2. CASE EnsureRow(a)
  BY <1>1, <1>2 DEF EnsureRow, GoOn, Job, Steps
<1>3. CASE ReadVersion(a)
  <2>1. version + 1 \in Nat
    OBVIOUS
  <2>2. job'[a] = [job[a] EXCEPT !.pc = "write", !.ver = version + 1]
    BY <1>1, <1>3 DEF ReadVersion, Job
  <2>3. [job[a] EXCEPT !.pc = "write", !.ver = version + 1] \in Job
    BY <1>1, <2>1 DEF Job, Steps
  <2> QED  BY <1>3, <2>2, <2>3 DEF ReadVersion, tables
<1>4. ASSUME Committed(a) PROVE job' \in [Admins -> Job]
  <2>1. [job[a] EXCEPT !.pc = "list", !.ver = 0] \in Job /\ [Free EXCEPT !.pc = "settings"] \in Job
    BY <1>1 DEF Job, Steps
  <2> QED  BY <1>4, <2>1 DEF Committed
<1>5. CASE Write(a)
  BY <1>1, <1>4, <1>5 DEF Write, Job
<1>6. CASE ListDomains(a)
  BY <1>1, <1>6 DEF ListDomains, tables, Job, Steps
<1>7. CASE ChangeList(a)
  BY <1>1, <1>4, <1>7 DEF ChangeList, ListWrite, Job
<1>8. CASE ChangeListFirst(a)
  <2>1. [Free EXCEPT !.op = "add_domain", !.pc = "read"] \in Job
    BY DEF Job, Ops, Steps
  <2> QED  BY <1>1, <1>8, <2>1 DEF ChangeListFirst, ListWrite, Job
<1>9. CASE InsertFails(a) \/ Answer(a) \/ RequestFails(a)
  BY <1>9 DEF InsertFails, Answer, RequestFails, Finish, tables
<1>10. CASE ReadSettings(a)
  BY <1>1, <1>10 DEF ReadSettings, tables, Job, Steps
<1>11. CASE ReadDomains(a)
  BY <1>1, <1>11 DEF ReadDomains, tables, Job, Steps
<1>12. CASE AdminStart(a)
  <2>1. ASSUME NEW b \in BOOLEAN, StartSetEnabled(a, b) PROVE PolicyTypeOK'
    <3>1. [Free EXCEPT !.op = "set_enabled", !.pc = "ensure", !.flag = b] \in Job
      BY DEF Job, Ops, Steps
    <3> QED  BY <2>1, <3>1 DEF StartSetEnabled, tables
  <2>2. ASSUME NEW d \in Domains, StartAddDomain(a, d) \/ StartRemoveDomain(a, d)
        PROVE  PolicyTypeOK'
    <3> DEFINE known == d \in listed
    <3>1. known \in BOOLEAN
      OBVIOUS
    <3> HIDE DEF known
    <3>2. /\ [Free EXCEPT !.op = "add_domain", !.pc = "begin", !.dom = d, !.flag = known] \in Job
          /\ [Free EXCEPT !.op = "remove_domain", !.pc = "begin", !.dom = d] \in Job
      BY <3>1 DEF Job, Ops, Steps
    <3> QED  BY <2>2, <3>2 DEF StartAddDomain, StartRemoveDomain, tables, known
  <2> QED  BY <1>12, <2>1, <2>2 DEF AdminStart
<1> QED
  BY <1>2, <1>3, <1>5, <1>6, <1>7, <1>8, <1>9, <1>10, <1>11, <1>12 DEF AdminStep
-----------------------------------------------------------------------------
\* A request that has its policy in hand is past the steps of AdminStep.
LEMMA NoStepAtApply ==
  ASSUME NEW a \in Admins, AdminStep(a) \/ AdminStart(a)
  PROVE  ~OnStep(a, "apply")
BY DEF AdminStep, AdminStart, EnsureRow, ReadVersion, Write, ListDomains, ChangeList,
       ChangeListFirst, InsertFails, ReadSettings, ReadDomains, StartSetEnabled,
       StartAddDomain, StartRemoveDomain, OnStep

LEMMA RecordTypes ==
  ASSUME MasterTypeOK, PolicyTypeOK', HistoriesKept
  PROVE  named' \in SUBSET (Nat \X SUBSET Domains) /\ alone' \in [Admins -> BOOLEAN]
<1>1. version' \in Nat /\ InForce' \in SUBSET Domains
  BY DEF PolicyTypeOK, InForce, Blocks
<1>2. named' \in SUBSET (Nat \X SUBSET Domains)
  BY <1>1 DEF MasterTypeOK, HistoriesKept
<1>3. alone' \in [Admins -> BOOLEAN]
  BY DEF HistoriesKept
<1> QED  BY <1>2, <1>3

LEMMA TypesKept == ASSUME MasterTypeOK, [MasterNext]_recordVars PROVE MasterTypeOK'
<1>1. CASE UNCHANGED recordVars
  BY <1>1 DEF MasterTypeOK, PolicyTypeOK, recordVars, masterVars, tables, file, OnStep
<1>2. ASSUME NEW a \in Admins, Served(a), missed' \in BOOLEAN, HistoriesKept
      PROVE  MasterTypeOK'
  <2>1. PolicyTypeOK'
    BY <1>2, PolicyTypes DEF Served, MasterTypeOK
  <2>2. \A b \in Admins : writer'[b].does # "read" => OnStep(b, "apply")'
    BY <1>2, JobsKept, NoStepAtApply DEF Served, MasterTypeOK, OnStep
  <2> QED  BY <1>2, <2>1, <2>2, RecordTypes DEF Served, MasterTypeOK, file
<1>3. ASSUME NEW a \in Admins, ReadHosts(a), missed' \in BOOLEAN, HistoriesKept
      PROVE  MasterTypeOK'
  <2>1. PolicyTypeOK'
    BY <1>3 DEF ReadHosts, MasterTypeOK, PolicyTypeOK, masterVars, tables
  <2>2. writer' \in [Admins -> [does : {"read", "empty", "fill"}, kept : BOOLEAN]]
    BY <1>3 DEF ReadHosts, MasterTypeOK
  <2>3. \A b \in Admins : writer'[b].does # "read" => OnStep(b, "apply")'
    BY <1>3 DEF ReadHosts, MasterTypeOK, masterVars, OnStep
  <2> QED  BY <1>3, <2>1, <2>2, <2>3, RecordTypes DEF ReadHosts, MasterTypeOK, file
<1>4. ASSUME NEW a \in Admins, EmptyHosts(a), missed' \in BOOLEAN, HistoriesKept
      PROVE  MasterTypeOK'
  <2>1. PolicyTypeOK'
    BY <1>4 DEF EmptyHosts, MasterTypeOK, PolicyTypeOK, masterVars, tables
  <2>2. writer' \in [Admins -> [does : {"read", "empty", "fill"}, kept : BOOLEAN]]
    BY <1>4 DEF EmptyHosts, MasterTypeOK
  <2>3. \A b \in Admins : writer'[b].does # "read" => OnStep(b, "apply")'
    BY <1>4 DEF EmptyHosts, MasterTypeOK, masterVars, OnStep
  <2> QED  BY <1>4, <2>1, <2>2, <2>3, RecordTypes DEF EmptyHosts, MasterTypeOK
<1>5. ASSUME NEW a \in Admins, Answer(a) \/ RequestFails(a),
             writer' = [writer EXCEPT ![a] = NotWriting],
             mhosts' \in SUBSET Domains, others' \in BOOLEAN, missed' \in BOOLEAN, HistoriesKept
      PROVE  MasterTypeOK'
  <2>1. PolicyTypeOK'
    BY <1>5, PolicyTypes DEF MasterTypeOK
  <2>2. writer' \in [Admins -> [does : {"read", "empty", "fill"}, kept : BOOLEAN]]
    BY <1>5 DEF NotWriting, MasterTypeOK
  <2>3. \A b \in Admins : writer'[b].does # "read" => OnStep(b, "apply")'
    BY <1>5, JobsKept DEF NotWriting, MasterTypeOK, OnStep
  <2> QED  BY <1>5, <2>1, <2>2, <2>3, RecordTypes DEF MasterTypeOK
<1>6. ASSUME NEW a \in Admins, FillHosts(a)
      PROVE  mhosts' \in SUBSET Domains /\ others' \in BOOLEAN
  <2>1. job[a] \in Job /\ writer[a].kept \in BOOLEAN
    BY DEF MasterTypeOK, PolicyTypeOK
  <2> QED  BY <1>6, <2>1 DEF FillHosts, MasterTypeOK, Job, Blocks
<1>7. ASSUME MasterNext PROVE MasterTypeOK'
  <2>1. missed' \in BOOLEAN /\ HistoriesKept
    BY <1>7 DEF MasterNext, MasterTypeOK
  <2>2. PICK a \in Admins :
          Served(a) \/ ApplyPolicy(a) \/ Fails(a)
    BY <1>7 DEF MasterNext, Served, Fails
  <2>3. CASE FillHosts(a)
    BY <1>5, <1>6, <2>1, <2>3 DEF FillHosts
  <2>4. CASE Fails(a)
    BY <1>5, <2>1, <2>4 DEF Fails, file, MasterTypeOK
  <2> QED  BY <1>2, <1>3, <1>4, <2>1, <2>2, <2>3, <2>4 DEF ApplyPolicy
<1> QED  BY <1>1, <1>7

LEMMA TypeInit == ASSUME MasterInit PROVE MasterTypeOK
<1>1. PolicyTypeOK
  BY FreeJob DEF MasterInit, PolicyInit, PolicyTypeOK
<1>2. named \in SUBSET (Nat \X SUBSET Domains) /\ alone \in [Admins -> BOOLEAN]
  BY DEF MasterInit
<1> QED  BY <1>1, <1>2 DEF MasterInit, MasterTypeOK, NotWriting

\* The tables, the file and the threads keep their types, and only a thread with
\* a policy in hand is at work on the file.
THEOREM TypeCorrect == MasterSpec => []MasterTypeOK
<1>1. MasterInit => MasterTypeOK
  BY TypeInit
<1>2. MasterTypeOK /\ [MasterNext]_recordVars => MasterTypeOK'
  BY TypesKept
<1> QED  BY <1>1, <1>2, PTL DEF MasterSpec
-----------------------------------------------------------------------------
(***************************************************************************)
(* A request alone.                                                        *)
(***************************************************************************)
\* A request that has met no other since its commit holds what the tables say, and
\* the file that it has emptied is empty.
LoneInv ==
  \A a \in Admins : alone[a] =>
    /\ job[a].pc \in Syncing /\ Lone(a)
    /\ job[a].pc \in {"list", "domains"} => job[a].flag = enabled
    /\ job[a].pc = "apply" => Blocks(job[a].flag, job[a].names) = InForce
    /\ writer[a].does = "fill" => mhosts = {}

\* What a request begins with.
LEMMA Begins ==
  ASSUME PolicyTypeOK, NEW a \in Admins, AdminStart(a)
  PROVE  /\ UNCHANGED tables /\ job'[a].pc \in {"ensure", "begin"}
         /\ job'[a].pc = "begin" => job'[a].op # "set_enabled"
<1> USE DEF PolicyTypeOK, Free
<1>1. ASSUME NEW b \in BOOLEAN, StartSetEnabled(a, b)
      PROVE  UNCHANGED tables /\ job'[a].pc = "ensure"
  BY <1>1 DEF StartSetEnabled
<1>2. ASSUME NEW d \in Domains, StartAddDomain(a, d)
      PROVE  UNCHANGED tables /\ job'[a].pc = "begin" /\ job'[a].op = "add_domain"
  BY <1>2 DEF StartAddDomain
<1>3. ASSUME NEW d \in Domains, StartRemoveDomain(a, d)
      PROVE  UNCHANGED tables /\ job'[a].pc = "begin" /\ job'[a].op = "remove_domain"
  BY <1>3 DEF StartRemoveDomain
<1> QED  BY <1>1, <1>2, <1>3 DEF AdminStart

\* A request that is being served takes the step, or one begins.
LEMMA WhoSteps ==
  ASSUME MasterTypeOK, NEW a \in Admins, Served(a) \/ ApplyPolicy(a) \/ Fails(a)
  PROVE  /\ \A b \in Admins \ {a} : job'[b] = job[b]
         /\ ~OnStep(a, "idle") \/ ~OnStep(a, "idle")'
<1>1. ASSUME ReadHosts(a) \/ EmptyHosts(a) PROVE UNCHANGED job /\ OnStep(a, "apply")
  BY <1>1 DEF ReadHosts, EmptyHosts, masterVars, MasterTypeOK
<1>2. CASE ReadHosts(a) \/ EmptyHosts(a)
  BY <1>1, <1>2 DEF OnStep
<1>3. CASE FillHosts(a) \/ Fails(a)
  <2>1. Answer(a) \/ RequestFails(a)
    BY <1>3 DEF FillHosts, Fails
  <2> QED  BY <2>1, JobsKept DEF MasterTypeOK, Answer, RequestFails, OnStep
<1>4. CASE AdminStep(a)
  <2>1. ~OnStep(a, "idle")
    BY <1>4 DEF AdminStep, EnsureRow, ReadVersion, Write, ListDomains, ChangeList, ChangeListFirst,
                InsertFails, ReadSettings, ReadDomains, OnStep
  <2> QED  BY <1>4, <2>1, JobsKept DEF MasterTypeOK
<1>5. CASE AdminStart(a)
  BY <1>5, Begins, JobsKept DEF MasterTypeOK, OnStep
<1> QED  BY <1>2, <1>3, <1>4, <1>5 DEF Served, ApplyPolicy

\* Only set_enabled sets the switch.
Begun == \A a \in Admins : OnStep(a, "begin") => job[a].op # "set_enabled"

LEMMA BegunKept ==
  ASSUME MasterTypeOK, Begun, NEW a \in Admins, Served(a) \/ ApplyPolicy(a) \/ Fails(a)
  PROVE  Begun'
<1> USE DEF OnStep, MasterTypeOK, PolicyTypeOK
<1>1. SUFFICES job'[a].pc = "begin" => job'[a].op # "set_enabled"
  BY WhoSteps DEF Begun
<1>2. CASE AdminStart(a)
  BY <1>2, Begins
<1>3. CASE UNCHANGED job
  BY <1>3 DEF Begun
<1>4. ASSUME AdminStep(a) \/ Answer(a) \/ RequestFails(a) PROVE job'[a].pc # "begin"
  <2>1. job[a] \in Job /\ Free.pc = "idle"
    BY DEF Free
  <2>2. CASE EnsureRow(a) \/ ReadVersion(a) \/ ListDomains(a) \/ ReadSettings(a) \/ ReadDomains(a)
    BY <2>1, <2>2 DEF EnsureRow, ReadVersion, ListDomains, ReadSettings, ReadDomains, GoOn, Job
  <2>3. CASE Write(a) \/ ChangeList(a)
    <3>1. /\ [job[a] EXCEPT !.pc = "list", !.ver = 0].pc = "list"
          /\ [Free EXCEPT !.pc = "settings"].pc = "settings"
      BY <2>1 DEF Free, Job
    <3>2. Committed(a)
      BY <2>3 DEF Write, ChangeList
    <3> QED  BY <2>1, <3>1, <3>2 DEF Committed
  <2>4. CASE ChangeListFirst(a)
    BY <2>4 DEF ChangeListFirst, Free
  <2>5. CASE InsertFails(a) \/ Answer(a) \/ RequestFails(a)
    BY <2>1, <2>5 DEF InsertFails, Answer, RequestFails, Finish
  <2> QED  BY <1>4, <2>2, <2>3, <2>4, <2>5 DEF AdminStep
<1> QED
  BY <1>2, <1>3, <1>4
  DEF Served, ApplyPolicy, ReadHosts, EmptyHosts, FillHosts, Fails, masterVars

\* What a request alone, before the step or from it on, has after it.
LEMMA LoneStep ==
  ASSUME MasterTypeOK, Begun, LoneInv,
         NEW a \in Admins, Served(a) \/ ApplyPolicy(a) \/ Fails(a),
         job'[a].pc \in Syncing, alone[a] \/ job[a].pc \notin Syncing
  PROVE  /\ job'[a].pc \in {"list", "domains"} => job'[a].flag = enabled'
         /\ job'[a].pc = "apply" => Blocks(job'[a].flag, job'[a].names) = InForce'
         /\ writer'[a].does = "fill" => mhosts' = {}
<1> USE DEF LoneInv, Syncing, InForce, Blocks, OnStep, MasterTypeOK, PolicyTypeOK
<1>1. job[a] \in Job /\ writer[a] \in [does : {"read", "empty", "fill"}, kept : BOOLEAN]
  OBVIOUS
<1>2. ASSUME Served(a) PROVE mhosts' = mhosts /\ writer' = writer
  BY <1>2 DEF Served, file
<1>3. ASSUME Served(a), job[a].pc # "apply" PROVE writer'[a].does # "fill"
  BY <1>2, <1>3
<1>4. CASE Served(a) /\ EnsureRow(a)
  BY <1>1, <1>4 DEF EnsureRow, GoOn, Job
<1>5. CASE Served(a) /\ ReadVersion(a)
  BY <1>1, <1>5 DEF ReadVersion, Job
<1>6. CASE Served(a) /\ Write(a)
  BY <1>1, <1>3, <1>6 DEF Write, Committed, Free, Job
<1>7. CASE Served(a) /\ ListDomains(a)
  BY <1>1, <1>3, <1>7 DEF ListDomains, tables, Job
<1>8. CASE Served(a) /\ ChangeList(a)
  BY <1>1, <1>3, <1>8 DEF ChangeList, Committed, Free, Job, Begun
<1>9. CASE Served(a) /\ ChangeListFirst(a)
  BY <1>1, <1>9 DEF ChangeListFirst, Free, Job
<1>10. CASE Served(a) /\ InsertFails(a)
  BY <1>1, <1>10 DEF InsertFails, Finish, Free
<1>11. CASE Served(a) /\ (ReadSettings(a) \/ ReadDomains(a))
  BY <1>1, <1>3, <1>11 DEF ReadSettings, ReadDomains, tables, Job
<1>12. CASE Served(a) /\ AdminStart(a)
  BY <1>12, Begins
<1>13. CASE ReadHosts(a)
  BY <1>1, <1>13 DEF ReadHosts, masterVars, tables
<1>14. CASE EmptyHosts(a)
  BY <1>1, <1>14 DEF EmptyHosts, masterVars, tables
<1>15. CASE FillHosts(a) \/ Fails(a)
  <2>1. job'[a].pc = "idle"
    BY <1>15 DEF FillHosts, Answer, Fails, RequestFails, Finish, Free
  <2> QED  BY <2>1
<1> QED
  BY <1>4, <1>5, <1>6, <1>7, <1>8, <1>9, <1>10, <1>11, <1>12, <1>13, <1>14, <1>15
  DEF Served, AdminStep, ApplyPolicy

LEMMA LoneKept ==
  ASSUME MasterTypeOK, Begun, LoneInv, HistoriesKept,
         NEW a \in Admins, Served(a) \/ ApplyPolicy(a) \/ Fails(a)
  PROVE  LoneInv'
<1> SUFFICES ASSUME NEW b \in Admins, alone'[b]
             PROVE  /\ job'[b].pc \in Syncing /\ Lone(b)'
                    /\ job'[b].pc \in {"list", "domains"} => job'[b].flag = enabled'
                    /\ job'[b].pc = "apply" => Blocks(job'[b].flag, job'[b].names) = InForce'
                    /\ writer'[b].does = "fill" => mhosts' = {}
  BY DEF LoneInv
<1>1. job'[b].pc \in Syncing /\ Lone(b)' /\ (alone[b] \/ job[b].pc \notin Syncing)
  BY DEF HistoriesKept
<1>2. a = b
  <2> SUFFICES ASSUME a # b PROVE FALSE
    OBVIOUS
  <2>1. job'[b] = job[b] /\ (~OnStep(a, "idle") \/ ~OnStep(a, "idle")')
    BY WhoSteps
  <2>2. alone[b] /\ Lone(b)
    BY <1>1, <2>1 DEF LoneInv
  <2> QED  BY <1>1, <2>1, <2>2 DEF Lone
<1> QED  BY <1>1, <1>2, LoneStep

(***************************************************************************)
(* One request at a time.                                                  *)
(***************************************************************************)
\* Without a settings row the firewall is off; a request that is about to write
\* the version has seen the one in the table.
Versioned ==
  /\ ~made => ~enabled
  /\ \A a \in Admins : OnStep(a, "read") \/ OnStep(a, "write") => made
  /\ \A a \in Admins : OnStep(a, "write") => job[a].ver = version + 1

\* What is named is not of the future, and under the present version it is what
\* is in force.
NamedSoFar ==
  /\ \A p \in named : p[1] <= version /\ (p[1] = version => p[2] = InForce)
  /\ VersionNamesOnePolicy

\* As long as requests come one at a time.
NamedInv == named # {} => OneAtMost /\ Versioned /\ NamedSoFar

MasterInv == MasterTypeOK /\ Begun /\ LoneInv /\ NamedInv

\* A step that changes what is blocked takes the version one further; every other
\* step leaves it.
StepCounts ==
  \/ version' = version /\ InForce' = InForce
  \/ version' = version + 1

LEMMA AdminStepVersioned ==
  ASSUME MasterTypeOK, Versioned, OneAtMost, OneAtMost', NEW a \in Admins, Served(a)
  PROVE  Versioned' /\ StepCounts
<1> USE DEF OnStep, MasterTypeOK, PolicyTypeOK
<1>1. \A b \in Admins \ {a} : job'[b].pc = "idle"
  BY WhoSteps DEF OneAtMost, Lone
<1> SUFFICES /\ ~made' => ~enabled'
             /\ job'[a].pc \in {"read", "write"} => made'
             /\ job'[a].pc = "write" => job'[a].ver = version' + 1
             /\ StepCounts
  BY <1>1 DEF Versioned
<1> USE DEF Versioned, StepCounts, InForce, Blocks
<1>2. job[a] \in Job
  OBVIOUS
<1>3. CASE EnsureRow(a)
  BY <1>2, <1>3 DEF EnsureRow, GoOn, Job
<1>4. CASE ReadVersion(a)
  BY <1>2, <1>4 DEF ReadVersion, tables, Job
<1>5. CASE Write(a)
  BY <1>2, <1>5 DEF Write, Committed, Free, Job
<1>6. CASE ListDomains(a)
  BY <1>2, <1>6 DEF ListDomains, tables, Job
<1>7. CASE ChangeList(a)
  BY <1>2, <1>7 DEF ChangeList, Committed, Free, Job
<1>8. CASE ChangeListFirst(a)
  BY <1>2, <1>8 DEF ChangeListFirst, Free, Job
<1>9. CASE InsertFails(a)
  BY <1>2, <1>9 DEF InsertFails, Finish, Free, tables, Job
<1>10. CASE ReadSettings(a) \/ ReadDomains(a)
  BY <1>2, <1>10 DEF ReadSettings, ReadDomains, tables, Job
<1>11. CASE AdminStart(a)
  BY <1>11, Begins DEF tables
<1> QED
  BY <1>3, <1>4, <1>5, <1>6, <1>7, <1>8, <1>9, <1>10, <1>11 DEF Served, AdminStep

\* What the other steps do to the policy and its jobs: nothing, or end one.
LEMMA RestVersioned ==
  ASSUME MasterTypeOK, Versioned, NEW a \in Admins, ApplyPolicy(a) \/ Fails(a)
  PROVE  Versioned' /\ StepCounts
<1> USE DEF Versioned, StepCounts, InForce, Blocks, OnStep, MasterTypeOK, PolicyTypeOK
<1>1. CASE UNCHANGED masterVars
  BY <1>1 DEF masterVars, tables
<1>2. CASE Answer(a) \/ RequestFails(a)
  <2>1. job' = [job EXCEPT ![a] = Free] /\ Free.pc = "idle" /\ UNCHANGED tables
    BY <1>2 DEF Answer, RequestFails, Finish, Free
  <2> QED  BY <2>1 DEF tables
<1> QED  BY <1>1, <1>2 DEF ApplyPolicy, ReadHosts, EmptyHosts, FillHosts, Fails

LEMMA NamedSoFarKept ==
  ASSUME MasterTypeOK, NamedSoFar, StepCounts, named' = named \cup {<<version', InForce'>>}
  PROVE  NamedSoFar'
<1>1. version \in Nat /\ \A p \in named : p[1] \in Nat
  BY DEF MasterTypeOK, PolicyTypeOK
<1>2. version' \in Nat /\ version' >= version
  BY <1>1 DEF StepCounts
<1>3. \A p \in named : p[1] <= version' /\ (p[1] = version' => p[2] = InForce')
  BY <1>1, <1>2 DEF NamedSoFar, StepCounts
<1>4. \A p \in named' : p[1] <= version' /\ (p[1] = version' => p[2] = InForce')
  <2> DEFINE new == <<version', InForce'>>
  <2>1. new[1] <= version' /\ new[2] = InForce'
    BY <1>2
  <2> QED  BY <1>3, <2>1
<1>5. VersionNamesOnePolicy'
  <2>1. ASSUME NEW p \in named', NEW q \in named', p[1] = q[1] PROVE p[2] = q[2]
    <3>1. CASE p \in named /\ q \in named
      BY <2>1, <3>1 DEF NamedSoFar, VersionNamesOnePolicy
    <3>2. CASE p = <<version', InForce'>> \/ q = <<version', InForce'>>
      <4>1. p[1] = version' /\ q[1] = version'
        BY <2>1, <3>2
      <4> QED  BY <1>4, <4>1
    <3> QED  BY <3>1, <3>2
  <2> QED  BY <2>1 DEF VersionNamesOnePolicy
<1> QED  BY <1>4, <1>5 DEF NamedSoFar

\* A step after which requests still have come one at a time.
LEMMA SerialStep ==
  ASSUME MasterTypeOK, NamedInv, HistoriesKept, named' # {},
         NEW a \in Admins, Served(a) \/ ApplyPolicy(a) \/ Fails(a)
  PROVE  OneAtMost' /\ Versioned' /\ NamedSoFar' /\ StepCounts
<1>1. /\ named # {} /\ OneAtMost'
      /\ named' = named \cup {<<version', InForce'>>}
  BY DEF HistoriesKept
<1>2. Versioned' /\ StepCounts
  BY <1>1, AdminStepVersioned, RestVersioned DEF NamedInv
<1> QED  BY <1>1, <1>2, NamedSoFarKept DEF NamedInv

LEMMA MasterStep == MasterInv /\ [MasterNext]_recordVars => MasterInv'
<1> SUFFICES ASSUME MasterInv, [MasterNext]_recordVars PROVE MasterInv'
  OBVIOUS
<1> USE DEF MasterInv
<1>1. CASE UNCHANGED recordVars
  BY <1>1, TypesKept DEF Begun, LoneInv, Lone, OneAtMost, NamedInv, Versioned, NamedSoFar,
                         VersionNamesOnePolicy, InForce, Blocks, OnStep, recordVars, masterVars,
                         tables, file
<1>2. CASE MasterNext
  <2>1. MasterTypeOK' /\ HistoriesKept
    BY <1>2, TypesKept DEF MasterNext
  <2>2. PICK a \in Admins : Served(a) \/ ApplyPolicy(a) \/ Fails(a)
    BY <1>2 DEF MasterNext, Served, Fails
  <2>3. Begun' /\ LoneInv'
    BY <2>1, <2>2, BegunKept, LoneKept
  <2>4. NamedInv'
    BY <2>1, <2>2, SerialStep DEF NamedInv
  <2> QED  BY <2>1, <2>3, <2>4
<1> QED  BY <1>1, <1>2

\* What the properties rest on always holds, for any number of threads.
THEOREM Invariance == MasterSpec => []MasterInv
<1>1. MasterInit => MasterInv
  <2> SUFFICES ASSUME MasterInit PROVE MasterInv
    OBVIOUS
  <2>1. /\ MasterTypeOK
        /\ \A a \in Admins : job[a] = Free /\ ~alone[a]
    BY TypeInit DEF MasterInit, PolicyInit
  <2>2. Free.pc = "idle"
    BY DEF Free
  <2> QED
    BY <2>1, <2>2 DEF MasterInit, PolicyInit, MasterInv, Begun, LoneInv, NamedInv, OneAtMost, Versioned,
       NamedSoFar, VersionNamesOnePolicy, InForce, Blocks, OnStep
<1> QED  BY <1>1, MasterStep, PTL DEF MasterSpec

\* A request that meets no other from its commit on leaves the Master's own hosts
\* file with what the policy says, whatever requests before it, at work together
\* or failing halfway, have made of the file.
THEOREM LoneRequestSettles == MasterSpec => LoneRequestSettlesFile
<1>1. MasterInv /\ [MasterNext]_recordVars
      => [\A a \in Admins : FillHosts(a) /\ alone[a] => mhosts' = InForce']_recordVars
  <2> SUFFICES ASSUME MasterInv, NEW a \in Admins, FillHosts(a), alone[a]
               PROVE  mhosts' = InForce'
    OBVIOUS
  <2>1. OnStep(a, "apply") /\ UNCHANGED tables
    BY DEF FillHosts, Answer
  <2>2. mhosts = {} /\ Blocks(job[a].flag, job[a].names) = InForce
    BY <2>1 DEF MasterInv, LoneInv, FillHosts, OnStep
  <2>3. mhosts' = Blocks(job[a].flag, job[a].names)
    BY <2>2 DEF FillHosts
  <2>4. InForce' = InForce
    BY <2>1 DEF InForce, Blocks, tables
  <2> QED  BY <2>2, <2>3, <2>4
<1> QED  BY <1>1, Invariance, PTL DEF MasterSpec, LoneRequestSettlesFile

\* As long as requests come one at a time a policy version names one set of blocked
\* names: a client that compares versions alone misses no change.
THEOREM OnePolicy == MasterSpec => []VersionNamesOnePolicy
<1>1. MasterInv => VersionNamesOnePolicy
  BY DEF MasterInv, NamedInv, NamedSoFar, VersionNamesOnePolicy
<1> QED  BY <1>1, Invariance, PTL

\* As long as requests come one at a time the version moves forward with every
\* change of what is blocked, and never back: the collision takes two at work
\* together.
THEOREM MovesForward ==
  MasterSpec => [][named' # {} => /\ version' >= version
                                  /\ InForce' # InForce => version' > version]_recordVars
<1>1. MasterInv /\ [MasterNext]_recordVars
      => [named' # {} => /\ version' >= version
                         /\ InForce' # InForce => version' > version]_recordVars
  <2> SUFFICES ASSUME MasterInv, MasterNext, named' # {}
               PROVE  version' >= version /\ (InForce' # InForce => version' > version)
    OBVIOUS
  <2>1. version \in Nat
    BY DEF MasterInv, MasterTypeOK, PolicyTypeOK
  <2>2. PICK a \in Admins : Served(a) \/ ApplyPolicy(a) \/ Fails(a)
    BY DEF MasterNext, Served, Fails
  <2>3. StepCounts
    BY <2>2, SerialStep DEF MasterInv, MasterNext
  <2> QED  BY <2>1, <2>3 DEF StepCounts
<1> QED  BY <1>1, Invariance, PTL DEF MasterSpec
=============================================================================
