------------------------- MODULE FirewallSyncProofs -------------------------
(***************************************************************************)
(* Proofs about FirewallSync, for any domains, handler threads, bounds and *)
(* failures: every step of the Master, the network and the client is a     *)
(* step of FirewallAgent or leaves the client alone, so what is proved of  *)
(* an agent under arbitrary policies holds of one that polls this Master;  *)
(* and every policy it is handed is one.                                   *)
(*                                                                         *)
(* The lemmas about the tables come from FirewallMasterProofs; they do not *)
(* mention the Master's own hosts file, which FirewallSync leaves out, so  *)
(* any file will do for them.                                              *)
(***************************************************************************)
EXTENDS FirewallSync, TLAPS

OfAgent == INSTANCE FirewallAgentProofs WITH Names <- Domains, Versions <- Nat
OfMaster == INSTANCE FirewallMasterProofs
              WITH mhosts <- {}, others <- TRUE, writer <- <<>>, missed <- FALSE, named <- {},
                   alone <- <<>>

\* A poll is made of a policy that the tables held in part, and holds the agent's thread.
PollInv ==
  /\ PolicyTypeOK
  /\ get \in [pc : {"none", "settings", "domains", "reply"}, policy : Agent!Policy]
  /\ get.pc # "none" => at = "wait"

LEMMA AgentAssumed == OfAgent!AgentAssumption /\ OfAgent!Policy = Agent!Policy
  BY SyncAssumption DEF OfAgent!AgentAssumption, OfAgent!Policy, Agent!Policy

\* The two instances of FirewallAgent are one.
LEMMA SameAgent ==
  /\ OfAgent!AgentInit <=> Agent!AgentInit
  /\ OfAgent!AgentTypeOK <=> Agent!AgentTypeOK
  /\ OfAgent!ActiveIsEnforced <=> Agent!ActiveIsEnforced
  /\ OfAgent!InactiveIsRemoved <=> Agent!InactiveIsRemoved
  /\ OfAgent!NoSilentFailure <=> Agent!NoSilentFailure
  BY DEF OfAgent!AgentInit, Agent!AgentInit, OfAgent!Default, Agent!Default,
         OfAgent!AgentTypeOK, Agent!AgentTypeOK, OfAgent!Policy, Agent!Policy,
         OfAgent!ActiveIsEnforced, Agent!ActiveIsEnforced, OfAgent!State, Agent!State,
         OfAgent!Wanted, Agent!Wanted, OfAgent!NoSilentFailure, Agent!NoSilentFailure,
         OfAgent!InactiveIsRemoved, Agent!InactiveIsRemoved

LEMMA SameSteps == OfAgent!AgentNext <=> Agent!AgentNext
<1>1. OfAgent!ApplyStep <=> Agent!ApplyStep
  BY DEF OfAgent!ApplyStep, Agent!ApplyStep, OfAgent!Wanted, Agent!Wanted,
         OfAgent!Receive, Agent!Receive, OfAgent!Unchanged, Agent!Unchanged, OfAgent!Boot,
         Agent!Boot, OfAgent!First, Agent!First, OfAgent!Save, Agent!Save,
         OfAgent!WriteHosts, Agent!WriteHosts, OfAgent!WriteHostsFails,
         Agent!WriteHostsFails, OfAgent!AddQuic, Agent!AddQuic, OfAgent!AddQuicFails,
         Agent!AddQuicFails, OfAgent!PortsFree, Agent!PortsFree, OfAgent!PortTaken,
         Agent!PortTaken, OfAgent!Listen, Agent!Listen, OfAgent!ListenFails,
         Agent!ListenFails, OfAgent!ClearHosts, Agent!ClearHosts, OfAgent!ClearHostsFails,
         Agent!ClearHostsFails, OfAgent!DeleteQuic, Agent!DeleteQuic,
         OfAgent!DeleteQuicFails, Agent!DeleteQuicFails, OfAgent!ClearQuicFlag, Agent!ClearQuicFlag,
         OfAgent!CloseListeners, Agent!CloseListeners, OfAgent!StopServer, Agent!StopServer,
         OfAgent!Serving, Agent!Serving, OfAgent!Fault, Agent!Fault, OfAgent!Outcome, Agent!Outcome,
         OfAgent!memory, Agent!memory, OfAgent!system, Agent!system, OfAgent!server,
         Agent!server, OfAgent!budget, Agent!budget
<1>2. OfAgent!Restart <=> Agent!Restart
  BY DEF OfAgent!Restart, Agent!Restart, OfAgent!Default, Agent!Default, OfAgent!system, Agent!system
<1>3. ASSUME NEW p PROVE OfAgent!Receive(p) <=> Agent!Receive(p)
  BY DEF OfAgent!Receive, Agent!Receive, OfAgent!Unchanged, Agent!Unchanged,
         OfAgent!system, Agent!system, OfAgent!server, Agent!server, OfAgent!budget, Agent!budget
<1> QED  BY <1>1, <1>2, <1>3, AgentAssumed DEF OfAgent!AgentNext, Agent!AgentNext

\* A step of an administrator's request keeps the types of the tables.
LEMMA AdminTypes ==
  ASSUME PolicyTypeOK, NEW a \in Admins, AdminStep(a) \/ Answer(a) \/ AdminStart(a) \/ RequestFails(a)
  PROVE  PolicyTypeOK'
<1>1. OfMaster!PolicyTypeOK /\ (OfMaster!PolicyTypeOK' => PolicyTypeOK')
  BY DEF PolicyTypeOK, OfMaster!PolicyTypeOK, Job, OfMaster!Job, Ops, OfMaster!Ops,
         Steps, OfMaster!Steps
<1>2. OfMaster!AdminStep(a) <=> AdminStep(a)
  BY DEF AdminStep, OfMaster!AdminStep,
         EnsureRow, OfMaster!EnsureRow, ReadVersion, OfMaster!ReadVersion, Write,
         OfMaster!Write, ListDomains, OfMaster!ListDomains, ChangeList, OfMaster!ChangeList,
         ChangeListFirst, OfMaster!ChangeListFirst, InsertFails, OfMaster!InsertFails,
         ReadSettings, OfMaster!ReadSettings, ReadDomains, OfMaster!ReadDomains, OnStep,
         OfMaster!OnStep, GoOn, OfMaster!GoOn, Finish, OfMaster!Finish, Committed,
         OfMaster!Committed, Duplicate, OfMaster!Duplicate, ListWrite, OfMaster!ListWrite,
         Free, OfMaster!Free, tables, OfMaster!tables
<1>3. OfMaster!AdminStart(a) <=> AdminStart(a)
  BY DEF AdminStart, OfMaster!AdminStart,
         StartSetEnabled, OfMaster!StartSetEnabled, StartAddDomain, OfMaster!StartAddDomain,
         StartRemoveDomain, OfMaster!StartRemoveDomain, OnStep, OfMaster!OnStep, Free,
         OfMaster!Free, tables, OfMaster!tables
<1>4. OfMaster!Answer(a) <=> Answer(a)
  BY DEF Answer, OfMaster!Answer, OnStep, OfMaster!OnStep, Finish, OfMaster!Finish, Free, OfMaster!Free, tables,
         OfMaster!tables
<1>5. OfMaster!RequestFails(a) <=> RequestFails(a)
  BY DEF RequestFails, OfMaster!RequestFails,
         OnStep, OfMaster!OnStep, Finish, OfMaster!Finish, Free, OfMaster!Free, tables,
         OfMaster!tables
<1> QED  BY <1>1, <1>2, <1>3, <1>4, <1>5, OfMaster!PolicyTypes, PolicyAssumption

-----------------------------------------------------------------------------
Polls == [pc : {"none", "settings", "domains", "reply"}, policy : Agent!Policy]

LEMMA NoPollIsOne == NoPoll \in Polls /\ NoPoll.pc = "none"
  BY DEF NoPoll, Polls, Agent!Default, Agent!Policy

\* The agent applies nothing while it waits.
LEMMA BusyWhenApplying == ASSUME Agent!ApplyStep PROVE at # "wait"
  BY DEF Agent!ApplyStep, Agent!Boot, Agent!Save, Agent!WriteHosts, Agent!WriteHostsFails,
         Agent!AddQuic, Agent!AddQuicFails, Agent!PortsFree, Agent!PortTaken, Agent!Listen,
         Agent!ListenFails, Agent!ClearHosts, Agent!ClearHostsFails, Agent!DeleteQuic,
         Agent!DeleteQuicFails, Agent!ClearQuicFlag, Agent!CloseListeners, Agent!StopServer,
         Agent!Serving

LEMMA ServeInv ==
  ASSUME PollInv, Poll \/ ServeSettings \/ ServeDomains PROVE PollInv'
<1>1. /\ get \in Polls /\ enabled \in BOOLEAN /\ version \in Nat /\ active \in SUBSET Domains
      /\ PolicyTypeOK
  BY DEF PollInv, PolicyTypeOK, Polls
<1>2. at' = at /\ at = "wait"
  BY DEF PollInv, Poll, ServeSettings, ServeDomains, clientVars
<1>3. PolicyTypeOK'
  BY <1>1 DEF PolicyTypeOK, Poll, ServeSettings, ServeDomains, masterVars, tables
<1>4. get' \in Polls
  <2>1. CASE Poll
    BY <1>1, <2>1 DEF Poll, Polls
  <2>2. CASE ServeSettings
    BY <1>1, <2>2 DEF ServeSettings, Polls, Agent!Policy
  <2>3. CASE ServeDomains
    <3>1. PICK p \in Agent!Policy : p = get.policy
      BY <1>1 DEF Polls
    <3>2. [p EXCEPT !.domains = active] \in Agent!Policy
      BY <1>1, <3>1 DEF Agent!Policy
    <3>3. get' = [get EXCEPT !.pc = "reply", !.policy = [p EXCEPT !.domains = active]]
      BY <2>3, <1>1, <3>1 DEF ServeDomains, Polls
    <3> QED  BY <1>1, <3>2, <3>3 DEF Polls
  <2> QED  BY <2>1, <2>2, <2>3
<1> QED  BY <1>2, <1>3, <1>4 DEF PollInv, Polls

LEMMA PollInitInv == ASSUME Init PROVE PollInv
<1>1. Free \in Job
  <2>1. (CHOOSE d \in Domains : TRUE) \in Domains
    BY PolicyAssumption
  <2> QED  BY <2>1 DEF Free, Job, Ops, Steps
<1> QED  BY <1>1, NoPollIsOne DEF Init, PolicyInit, PollInv, PolicyTypeOK, Polls

LEMMA PollNextInv == PollInv /\ [Next]_vars => PollInv'
<1> SUFFICES ASSUME PollInv, [Next]_vars PROVE PollInv'
  OBVIOUS
<1>1. CASE UNCHANGED vars
  BY <1>1 DEF vars, masterVars, clientVars, tables, PollInv, PolicyTypeOK
<1>2. CASE Poll \/ ServeSettings \/ ServeDomains
  BY <1>2, ServeInv
<1>3. CASE Deliver \/ PollLost \/ ClientRestart
  BY <1>3, NoPollIsOne
     DEF Deliver, PollLost, ClientRestart, PollInv, PolicyTypeOK, Polls, masterVars, tables
<1>4. ASSUME NEW a \in Admins, Admin(a) PROVE PollInv'
  BY <1>4, AdminTypes DEF Admin, PollInv, clientVars
<1>5. CASE ClientStep
  BY <1>5, BusyWhenApplying DEF ClientStep, PollInv, PolicyTypeOK, masterVars, tables
<1> QED  BY <1>1, <1>2, <1>3, <1>4, <1>5 DEF Next

LEMMA PollInvariance == FairSpec => []PollInv
<1>1. Init => PollInv
  BY PollInitInv
<1> QED  BY <1>1, PollNextInv, PTL DEF FairSpec

\* Every step of the system is one of the agent's, under a policy it may be sent, or
\* leaves its state alone.
LEMMA StepOfAgent == PollInv /\ [Next]_vars => [Agent!AgentNext]_(Agent!agentVars)
<1> SUFFICES ASSUME PollInv, [Next]_vars PROVE [Agent!AgentNext]_(Agent!agentVars)
  OBVIOUS
<1>1. CASE UNCHANGED clientVars
  BY <1>1 DEF clientVars, Agent!agentVars, Agent!memory, Agent!system, Agent!server, Agent!budget
<1>2. CASE UNCHANGED vars \/ Poll \/ ServeSettings \/ ServeDomains \/ PollLost
  BY <1>1, <1>2 DEF vars, Poll, ServeSettings, ServeDomains, PollLost
<1>3. ASSUME NEW a \in Admins, Admin(a) PROVE UNCHANGED clientVars
  BY <1>3 DEF Admin
<1>4. CASE Deliver
  <2>1. at = "wait" /\ get.policy \in Agent!Policy
    BY <1>4 DEF Deliver, PollInv
  <2> QED  BY <1>4, <2>1 DEF Deliver, Agent!AgentNext
<1>5. CASE ClientStep \/ ClientRestart
  BY <1>5 DEF ClientStep, ClientRestart, Agent!AgentNext
<1> QED  BY <1>1, <1>2, <1>3, <1>4, <1>5 DEF Next

\* A client that polls the Master is an agent that is handed policies: FirewallSync
\* implements FirewallAgent, whatever the requests and the network do.
THEOREM SyncImplementsAgent == FairSpec => Agent!AgentSpec
<1>1. Init => Agent!AgentInit
  BY DEF Init
<1> QED  BY <1>1, StepOfAgent, PollInvariance, PTL DEF FairSpec, Agent!AgentSpec

\* The same, for the instance whose theorems are cited.
LEMMA ImplementsOfAgent == FairSpec => OfAgent!AgentSpec
<1>1. Init => OfAgent!AgentInit
  BY SameAgent DEF Init
<1>2. PollInv /\ [Next]_vars => [OfAgent!AgentNext]_(OfAgent!agentVars)
  <2>1. UNCHANGED Agent!agentVars => UNCHANGED OfAgent!agentVars
    BY DEF OfAgent!agentVars, Agent!agentVars, OfAgent!memory, Agent!memory, OfAgent!system,
           Agent!system, OfAgent!server, Agent!server, OfAgent!budget, Agent!budget
  <2> QED  BY <2>1, StepOfAgent, SameSteps
<1> QED  BY <1>1, <1>2, PollInvariance, PTL DEF FairSpec, OfAgent!AgentSpec

\* Tables, requests, polls and the client keep their types.
THEOREM TypeCorrect == FairSpec => []SyncTypeOK
<1>1. FairSpec => []OfAgent!AgentTypeOK
  BY ImplementsOfAgent, OfAgent!TypeCorrect, AgentAssumed, PTL
<1>2. PollInv /\ OfAgent!AgentTypeOK => SyncTypeOK
  BY SameAgent DEF PollInv, SyncTypeOK
<1> QED  BY <1>1, <1>2, PollInvariance, PTL

\* A client that polls this Master shows ACTIVE at rest only over what it was last
\* handed and enforces in full, leaves no failure to enforce unseen, and nothing
\* of the firewall behind a policy that blocks nothing unless the teardown failed.
THEOREM PollingClientIsTruthful ==
  FairSpec => [](Agent!ActiveIsEnforced /\ Agent!NoSilentFailure /\ Agent!InactiveIsRemoved)
<1>1. FairSpec => []OfAgent!ActiveIsEnforced
  BY ImplementsOfAgent, OfAgent!Truthful, AgentAssumed, PTL
<1>2. FairSpec => []OfAgent!NoSilentFailure
  BY ImplementsOfAgent, OfAgent!FailuresShow, AgentAssumed, PTL
<1>3. FairSpec => []OfAgent!InactiveIsRemoved
  BY ImplementsOfAgent, OfAgent!TeardownIsClean, AgentAssumed, PTL
<1> QED  BY <1>1, <1>2, <1>3, SameAgent, PTL
=============================================================================
