------------------------ MODULE FirewallAgentProofs ------------------------
(***************************************************************************)
(* Proofs about FirewallAgent, for any names and versions, either client,  *)
(* any set of system calls that may fail, and any number of failures and   *)
(* restarts.                                                               *)
(***************************************************************************)
EXTENDS FirewallAgent, TLAPS

\* The stages of an application with and without something to block, and those of
\* the teardown that find the rule dealt with.
Blocking == {"hosts", "quic", "check", "listen", "closed", "bind", "serve"}
Removing == {"unhosts", "unquic", "unquicked", "unlisten", "unserved"}
Unruled == {"unquicked", "unlisten", "unserved"}

\* What holds between the steps of one application: the flags in memory promise
\* more than the system does only while the call that takes it away goes on; each
\* stage finds done what the stages before it did, unless the teardown failed.
Staged ==
  /\ quicFlag => quicRule \/ at = "unquicked"
  /\ running => bound \/ at \in {"closed", "unserved"}
  /\ at \notin {"boot", "wait"} => current \in Policy
  /\ at = "boot" => ~flag /\ ~error /\ applied = -1
  /\ at \in Blocking => Wanted(current) # {}
  /\ at \in Removing => Wanted(current) = {}
  /\ at \in Blocking \ {"hosts"} => hosts = Wanted(current)
  /\ at \in Blocking \ {"hosts", "quic"} => quicFlag
  /\ at = "bind" => ~running
  /\ at = "serve" => running
  /\ at = "unquic" => hosts = {}
  /\ at \in Unruled => unremoved \/ (hosts = {} /\ ~quicRule)
  /\ at = "unserved" => ~bound

\* What the thread waits with is the whole policy in force, or an error, or
\* nothing that ought to be in force, and then nothing that is unless the
\* teardown failed.
Settled ==
  /\ flag /\ ~error => /\ hosts = Wanted(current) /\ hosts # {}
                       /\ applied = current.version
                       /\ quicFlag /\ running
  /\ ~flag /\ ~error =>
       \/ applied = -1
       \/ Wanted(current) = {} /\ (unremoved \/ (hosts = {} /\ ~quicRule /\ ~bound))

IInv == AgentTypeOK /\ Staged /\ (at = "wait" => Settled)

\* The first stage of a policy suits what it wants.
LEMMA FirstStage ==
  ASSUME NEW p \in Policy
  PROVE  /\ \/ First(p) = "hosts" /\ Wanted(p) # {}
            \/ First(p) = "unhosts" /\ Wanted(p) = {}
         /\ Wanted(p) \in SUBSET Names
  BY DEF First, Wanted, Policy

\* A cached policy is a policy.
LEMMA CachedPolicy ==
  ASSUME AgentTypeOK, cache # NoCache
  PROVE  cache \in Policy
  BY DEF AgentTypeOK

\* A policy carries a version.
LEMMA PolicyVersion ==
  ASSUME NEW p \in Policy
  PROVE  p.version \in Versions /\ p.version # -1
  BY AgentAssumption DEF Policy

\* A fault stays within the bound on faults.
LEMMA FaultCounted ==
  ASSUME AgentTypeOK, NEW f, Fault(f)
  PROVE  faults' \in 0 .. MaxFaults /\ restarts' \in 0 .. MaxRestarts
  BY AgentAssumption DEF AgentTypeOK, Fault

\* The agent starts with nothing promised.
LEMMA InitInv == AgentInit => IInv
<1> SUFFICES ASSUME AgentInit PROVE IInv
  OBVIOUS
<1>1. faults \in 0 .. MaxFaults /\ restarts \in 0 .. MaxRestarts
  BY AgentAssumption DEF AgentInit
<1>2. AgentTypeOK
  BY <1>1, Zenon DEF AgentInit, AgentTypeOK
<1>3. Staged /\ at # "wait"
  BY DEF AgentInit, Staged, Blocking, Removing, Unruled
<1> QED  BY <1>2, <1>3 DEF IInv

\* Receiving a policy keeps the invariant: either it is the one applied, or the
\* thread goes on to save it.
LEMMA ReceiveInv ==
  ASSUME IInv, at = "wait", NEW p \in Policy, Receive(p)
  PROVE  IInv'
<1>1. CASE Unchanged(p)
  BY <1>1 DEF IInv, AgentTypeOK, Staged, Settled, Receive, system, server, budget,
           Wanted, Blocking, Removing, Unruled
<1>2. CASE ~Unchanged(p)
  BY <1>2 DEF IInv, AgentTypeOK, Staged, Settled, Receive, system, server, budget,
           Wanted, Blocking, Removing, Unruled
<1> QED  BY <1>1, <1>2

\* Booting keeps the invariant: no cache leaves nothing promised, a cached policy
\* is applied from its first stage.
LEMMA BootInv == ASSUME IInv, Boot PROVE IInv'
<1>1. CASE cache = NoCache
  BY <1>1 DEF IInv, AgentTypeOK, Staged, Settled, Boot, system, server, budget,
           Wanted, Blocking, Removing, Unruled
<1>2. CASE cache # NoCache
  <2>1. cache \in Policy
    BY <1>2, CachedPolicy DEF IInv
  <2>2. \/ First(cache) = "hosts" /\ Wanted(cache) # {}
        \/ First(cache) = "unhosts" /\ Wanted(cache) = {}
    BY <2>1, FirstStage
  <2> QED
    BY <1>2, <2>1, <2>2 DEF IInv, AgentTypeOK, Staged, Boot, system, server, budget,
              Wanted, Blocking, Removing, Unruled
<1> QED  BY <1>1, <1>2

\* Saving the policy, or failing to, leads to the policy's first stage.
LEMMA SaveInv == ASSUME IInv, Save PROVE IInv'
<1>1. current \in Policy
  BY DEF IInv, Staged, Save
<1>2. \/ First(current) = "hosts" /\ Wanted(current) # {}
      \/ First(current) = "unhosts" /\ Wanted(current) = {}
  BY <1>1, FirstStage
<1>3. cache' \in Policy \cup {NoCache} /\ faults' \in 0 .. MaxFaults
      /\ restarts' \in 0 .. MaxRestarts
  BY <1>1, FaultCounted DEF IInv, AgentTypeOK, Save, budget
<1>4. UNCHANGED <<memory, system, quicFlag, server, unremoved>> /\ at' = First(current)
  BY DEF Save
<1> QED
  <2>1. AgentTypeOK'
    BY <1>1, <1>2, <1>3, <1>4 DEF IInv, AgentTypeOK, memory, system, server
  <2>2. Staged' /\ at' # "wait"
    BY <1>1, <1>2, <1>4
    DEF IInv, Staged, Save, memory, system, server, Wanted, Blocking, Removing, Unruled
  <2> QED  BY <2>1, <2>2 DEF IInv

\* A way through _apply_policy that ends with an error on display.
LEMMA FailedOutcome ==
  ASSUME IInv, at \notin {"boot", "wait"}, Outcome(FALSE, TRUE),
         UNCHANGED cache, faults' \in 0 .. MaxFaults, restarts' \in 0 .. MaxRestarts,
         hosts' \in SUBSET Names, quicRule' \in BOOLEAN, quicFlag' \in BOOLEAN,
         bound' \in BOOLEAN, running' \in BOOLEAN, unremoved' \in BOOLEAN,
         quicFlag' => quicRule', running' => bound'
  PROVE  IInv'
<1>1. current \in Policy /\ applied' \in Versions
  BY PolicyVersion DEF IInv, Staged, Outcome
<1> QED
  BY <1>1 DEF IInv, AgentTypeOK, Staged, Settled, Outcome, Blocking, Removing, Unruled

\* Writing the hosts file, adding the QUIC rule, finding the ports free.
LEMMA BlockInv == ASSUME IInv, WriteHosts \/ AddQuic \/ PortsFree PROVE IInv'
<1> USE DEF IInv, AgentTypeOK, Staged, Blocking, Removing, Unruled
<1>1. current \in Policy
  BY DEF WriteHosts, AddQuic, PortsFree
<1>2. Wanted(current) \in SUBSET Names
  BY <1>1, FirstStage
<1>3. CASE WriteHosts
  BY <1>1, <1>2, <1>3 DEF WriteHosts, memory, server, budget, Wanted
<1>4. CASE AddQuic
  BY <1>1, <1>4 DEF AddQuic, memory, server, budget, Wanted
<1>5. CASE PortsFree
  BY <1>1, <1>5 DEF PortsFree, memory, system, server, budget, Wanted
<1> QED  BY <1>3, <1>4, <1>5

\* The server is stopped and started: the sockets go before the statuses and come
\* before them, and once it has started, all of the policy is in force.
LEMMA ServerInv ==
  ASSUME IInv, CloseListeners \/ StopServer \/ Listen \/ Serving PROVE IInv'
<1> USE DEF IInv, AgentTypeOK, Staged, Blocking, Removing, Unruled
<1>1. current \in Policy
  BY DEF CloseListeners, StopServer, Listen, Serving
<1>2. CASE CloseListeners
  BY <1>1, <1>2 DEF CloseListeners, memory, system, budget, Wanted
<1>3. CASE StopServer /\ at = "closed"
  BY <1>1, <1>3 DEF StopServer, memory, system, budget, Wanted, Outcome
<1>4. CASE StopServer /\ at = "unserved"
  <2>1. applied' \in Versions /\ at' = "wait"
    BY <1>1, <1>4, PolicyVersion DEF StopServer, Outcome
  <2> QED  BY <1>1, <1>4, <2>1 DEF Settled, StopServer, Outcome, system, budget, Wanted
<1>5. CASE Listen
  BY <1>1, <1>5 DEF Listen, memory, system, budget, Wanted
<1>6. CASE Serving
  <2>1. applied' \in Versions /\ at' = "wait"
    BY <1>1, <1>6, PolicyVersion DEF Serving, Outcome
  <2> QED  BY <1>1, <1>6, <2>1 DEF Settled, Serving, Outcome, system, server, budget, Wanted
<1> QED  BY <1>2, <1>3, <1>4, <1>5, <1>6 DEF StopServer

\* Each failure on the way puts the error on display.
LEMMA FailureInv ==
  ASSUME IInv, WriteHostsFails \/ AddQuicFails \/ PortTaken \/ ListenFails
  PROVE  IInv'
<1>1. at \notin {"boot", "wait"} /\ Outcome(FALSE, TRUE) /\ UNCHANGED cache
  BY DEF WriteHostsFails, AddQuicFails, PortTaken, ListenFails
<1>2. faults' \in 0 .. MaxFaults /\ restarts' \in 0 .. MaxRestarts
  BY FaultCounted DEF IInv, AgentTypeOK, WriteHostsFails, AddQuicFails, PortTaken,
                      ListenFails, budget
<1>3. /\ hosts' \in SUBSET Names /\ quicRule' \in BOOLEAN /\ quicFlag' \in BOOLEAN
      /\ bound' \in BOOLEAN /\ running' \in BOOLEAN
      /\ quicFlag' => quicRule'
      /\ running' => bound'
  <2>1. CASE WriteHostsFails
    BY <2>1, Zenon DEF IInv, AgentTypeOK, Staged, WriteHostsFails, server
  <2>2. CASE AddQuicFails
    BY <2>2, Zenon DEF IInv, AgentTypeOK, Staged, AddQuicFails, server
  <2>3. CASE PortTaken
    BY <2>3 DEF IInv, AgentTypeOK, Staged, PortTaken, system
  <2>4. CASE ListenFails
    BY <2>4 DEF IInv, AgentTypeOK, Staged, ListenFails, system, server
  <2> QED  BY <2>1, <2>2, <2>3, <2>4
<1>4. unremoved' \in BOOLEAN
  BY DEF IInv, AgentTypeOK, WriteHostsFails, AddQuicFails, PortTaken, ListenFails
<1> QED  BY <1>1, <1>2, <1>3, <1>4, FailedOutcome

\* The teardown, stage by stage: nothing is wanted, and what is left is noted.
LEMMA TeardownInv ==
  ASSUME IInv,
         ClearHosts \/ ClearHostsFails \/ DeleteQuic \/ DeleteQuicFails \/ ClearQuicFlag
  PROVE  IInv'
<1> USE DEF IInv, AgentTypeOK, Staged, Blocking, Removing, Unruled
<1>1. current \in Policy
  BY DEF ClearHosts, ClearHostsFails, DeleteQuic, DeleteQuicFails, ClearQuicFlag
<1>2. CASE ClearHosts
  BY <1>1, <1>2 DEF ClearHosts, memory, server, budget, Wanted
<1>3. CASE ClearHostsFails
  BY <1>1, <1>3, FaultCounted DEF ClearHostsFails, memory, server, Wanted
<1>4. CASE DeleteQuic
  BY <1>1, <1>4 DEF DeleteQuic, memory, server, budget, Wanted
<1>5. CASE DeleteQuicFails
  BY <1>1, <1>5, FaultCounted DEF DeleteQuicFails, memory, server, Wanted
<1>6. CASE ClearQuicFlag
  BY <1>1, <1>6 DEF ClearQuicFlag, memory, system, server, budget, Wanted
<1> QED  BY <1>2, <1>3, <1>4, <1>5, <1>6

\* A restart forgets every promise.
LEMMA RestartInv == ASSUME IInv, Restart PROVE IInv'
<1>1. cache' \in Policy \cup {NoCache}
  BY DEF IInv, AgentTypeOK, Staged, Restart
<1>2. restarts' \in 0 .. MaxRestarts
  BY AgentAssumption DEF IInv, AgentTypeOK, Restart
<1> QED
  BY <1>1, <1>2 DEF IInv, AgentTypeOK, Staged, Restart, Blocking, Removing, Unruled

\* Every step keeps the invariant.
LEMMA NextInv == IInv /\ [AgentNext]_agentVars => IInv'
<1> SUFFICES ASSUME IInv, [AgentNext]_agentVars PROVE IInv'
  OBVIOUS
<1>1. ASSUME at = "wait", NEW p \in Policy, Receive(p) PROVE IInv'
  BY <1>1, ReceiveInv
<1>2. CASE ApplyStep
  BY <1>2, BootInv, SaveInv, BlockInv, ServerInv, FailureInv, TeardownInv DEF ApplyStep
<1>3. CASE Restart
  BY <1>3, RestartInv
<1>4. CASE UNCHANGED agentVars
  BY <1>4 DEF IInv, AgentTypeOK, Staged, Settled, agentVars, memory, system, server,
              budget, Wanted, Blocking, Removing, Unruled
<1> QED  BY <1>1, <1>2, <1>3, <1>4 DEF AgentNext

\* The strengthened invariant holds throughout.
THEOREM Invariance == AgentSpec => []IInv
  BY InitInv, NextInv, PTL DEF AgentSpec

\* Memory, cache, system and listeners keep their types.
THEOREM TypeCorrect == AgentSpec => []AgentTypeOK
<1>1. IInv => AgentTypeOK
  BY DEF IInv
<1> QED  BY <1>1, Invariance, PTL

\* The displayed state ACTIVE is truthful at rest, and in the middle of a change it
\* outlives the rule and the listeners by no more than the call that takes them away.
THEOREM Truthful == AgentSpec => []ActiveIsEnforced
<1>1. IInv => ActiveIsEnforced
  BY DEF IInv, Staged, Settled, ActiveIsEnforced, State
<1> QED  BY <1>1, Invariance, PTL

\* A policy with nothing to block leaves nothing of the firewall behind, whichever
\* process put it there and whatever failed before, unless its teardown fails.
THEOREM TeardownIsClean == AgentSpec => []InactiveIsRemoved
<1>1. IInv => InactiveIsRemoved
  BY DEF IInv, Settled, InactiveIsRemoved
<1> QED  BY <1>1, Invariance, PTL

\* A policy that blocks something ends ACTIVE or with its error on display.
THEOREM FailuresShow == AgentSpec => []NoSilentFailure
<1>1. IInv => NoSilentFailure
  BY DEF IInv, Settled, NoSilentFailure, State
<1> QED  BY <1>1, Invariance, PTL
=============================================================================
