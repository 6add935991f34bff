---------------------------- MODULE FirewallSync ----------------------------
(***************************************************************************)
(* The Master's policy and one client that polls it.  Every few seconds    *)
(* the client's sync thread asks for the policy and waits for the answer;  *)
(* the Master's handler reads the settings and then the domains, in two    *)
(* SELECTs with any other request's commit between them.                   *)
(*                                                                         *)
(* The client is taken to be paired throughout (MasterSession says what    *)
(* becomes of it otherwise); a poll may be lost at any point, and a        *)
(* request of an administrator may fail at any.                            *)
(***************************************************************************)
EXTENDS FirewallPolicy

CONSTANTS VersionOnly, PortsExclusive, Faults, MaxFaults, MaxRestarts, NoCache

VARIABLES
  at, current, applied, flag, error, cache, hosts, quicRule, quicFlag, bound,
  running, faults, restarts, unremoved,
  get    \* the poll: how far its handler is, and what it has read

Agent == INSTANCE FirewallAgent WITH Names <- Domains, Versions <- Nat

clientVars == <<at, current, applied, flag, error, cache, hosts, quicRule, quicFlag,
                bound, running, faults, restarts, unremoved>>
vars == <<masterVars, clientVars, get>>

\* The client's side, as in FirewallAgent.
ASSUME SyncAssumption ==
  /\ VersionOnly \in BOOLEAN /\ PortsExclusive \in BOOLEAN
  /\ Faults \subseteq {"hosts", "quic", "port", "unhosts", "unquic", "cache"}
  /\ MaxFaults \in Nat /\ MaxRestarts \in Nat
  /\ NoCache \notin Agent!Policy

InForce == Blocks(enabled, active)
NoPoll == [pc |-> "none", policy |-> Agent!Default]

SyncTypeOK ==
  /\ PolicyTypeOK
  /\ Agent!AgentTypeOK
  /\ get \in [pc : {"none", "settings", "domains", "reply"}, policy : Agent!Policy]

Init ==
  /\ PolicyInit
  /\ Agent!AgentInit
  /\ get = NoPoll
-----------------------------------------------------------------------------
\* The request of get_firewall_policy leaves the client, whose thread waits.
Poll ==
  /\ at = "wait" /\ get.pc = "none"
  /\ get' = [get EXCEPT !.pc = "settings"]
  /\ UNCHANGED <<masterVars, clientVars>>

\* FirewallService.get_policy: a missing settings row is inserted, then read.
ServeSettings ==
  /\ get.pc = "settings"
  /\ made' = TRUE
  /\ get' = [pc |-> "domains", policy |-> [enabled |-> enabled, version |-> version,
                                           domains |-> {}]]
  /\ UNCHANGED <<enabled, version, active, listed, job, clientVars>>

ServeDomains ==
  /\ get.pc = "domains"
  /\ get' = [get EXCEPT !.pc = "reply", !.policy.domains = active]
  /\ UNCHANGED <<masterVars, clientVars>>

Deliver ==
  /\ get.pc = "reply"
  /\ Agent!Receive(get.policy)
  /\ get' = NoPoll
  /\ UNCHANGED masterVars

\* A timeout, a refused connection or an error status: the agent waits for its
\* next turn.
PollLost ==
  /\ get.pc # "none"
  /\ get' = NoPoll
  /\ UNCHANGED <<masterVars, clientVars>>

Admin(a) ==
  /\ AdminStep(a) \/ Answer(a) \/ AdminStart(a) \/ RequestFails(a)
  /\ UNCHANGED <<clientVars, get>>

ClientStep == Agent!ApplyStep /\ UNCHANGED <<masterVars, get>>

ClientRestart == Agent!Restart /\ get' = NoPoll /\ UNCHANGED masterVars

Next ==
  \/ Poll \/ ServeSettings \/ ServeDomains \/ Deliver \/ PollLost
  \/ \E a \in Admins : Admin(a)
  \/ ClientStep \/ ClientRestart

(***************************************************************************)
(* The sync loop comes round for ever and its thread runs; requests being  *)
(* served are served to the end or fail; and polls are not all lost.       *)
(* Nothing obliges an administrator to start a request.                    *)
(***************************************************************************)
FairSpec ==
  /\ Init /\ [][Next]_vars
  /\ WF_vars(Poll) /\ WF_vars(ClientStep)
  /\ SF_vars(ServeSettings) /\ SF_vars(ServeDomains) /\ SF_vars(Deliver)
  /\ \A a \in Admins : WF_vars((AdminStep(a) \/ Answer(a)) /\ UNCHANGED <<clientVars, get>>)
-----------------------------------------------------------------------------
Enforced ==
  IF InForce # {} THEN Agent!State = "ACTIVE" /\ hosts = InForce
  ELSE /\ Agent!State = "INACTIVE"
       /\ unremoved \/ (hosts = {} /\ ~quicRule /\ ~bound)

\* Changes are bounded, so at some point the policy is the last one: from some
\* point on the client blocks exactly what that policy blocks and says so, after
\* restarts, lost polls and failed system calls alike.  One failure may
\* be for good: a teardown that fails counts as applied, is not tried again by that
\* process, and leaves of the firewall what it leaves, under the name of INACTIVE.
Converges == <>[]Enforced
=============================================================================
