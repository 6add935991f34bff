--------------------------- MODULE FirewallAgent ---------------------------
(***************************************************************************)
(* The firewall on a client: FirewallAgent, its platform enforcer (hosts   *)
(* file and QUIC rule) and its block server (listeners on ports 80 and     *)
(* 443).  One thread runs it all, so a policy is applied as a sequence of  *)
(* system calls, each of which may fail, and the process may die between   *)
(* any two.  The hosts file, the QUIC rule and the cached policy outlive   *)
(* the process; its listeners and its memory do not.                       *)
(*                                                                         *)
(* The two clients differ in two places: the Linux agent tells whether a   *)
(* policy is new by its version alone (VersionOnly), and on Linux a port   *)
(* with a listener cannot be bound again, by the same process either, for  *)
(* all SO_REUSEADDR (PortsExclusive).                                      *)
(***************************************************************************)
EXTENDS Integers, FiniteSets

CONSTANTS
  Names,           \* domains a policy may block
  Versions,        \* policy versions
  VersionOnly,     \* TRUE: the Linux client's test for a new policy
  PortsExclusive,  \* TRUE: the Linux rule for binding a port
  Faults,          \* system calls that may fail
  MaxFaults,       \* bound on failures
  MaxRestarts,     \* bound on restarts of the client process
  NoCache          \* no usable cached policy

ASSUME AgentAssumption ==
  /\ Versions \subseteq Nat
  /\ VersionOnly \in BOOLEAN /\ PortsExclusive \in BOOLEAN
  /\ Faults \subseteq {"hosts", "quic", "port", "unhosts", "unquic", "cache"}
  /\ MaxFaults \in Nat /\ MaxRestarts \in Nat
  /\ NoCache \notin [enabled : BOOLEAN, version : Versions, domains : SUBSET Names]

VARIABLES
  at,        \* what the agent's thread does next
  current,   \* _current_policy
  applied,   \* _applied_version; -1 before any
  flag,      \* _enforcement_active
  error,     \* _enforcement_error is set
  cache,     \* the cached policy on disk; NoCache if missing or torn
  hosts,     \* names the APEXEYE block of the hosts file redirects
  quicRule,  \* the operating system drops outbound UDP 443
  quicFlag,  \* _quic_active
  bound,     \* the block server's own listeners are open
  running,   \* http_status and https_status are both RUNNING
  faults,    \* failures so far
  restarts,  \* restarts so far
  unremoved  \* history: the last teardown failed, which nothing notices

memory == <<current, applied, flag, error>>
system == <<hosts, quicRule>>
server == <<bound, running>>
budget == <<faults, restarts>>
agentVars == <<at, memory, cache, system, quicFlag, server, budget, unremoved>>

Policy == [enabled : BOOLEAN, version : Versions, domains : SUBSET Names]
Default == [enabled |-> FALSE, version |-> 0, domains |-> {}]

\* The names policy p blocks; without any, the firewall is taken down.
Wanted(p) == IF p.enabled THEN p.domains ELSE {}
First(p) == IF Wanted(p) # {} THEN "hosts" ELSE "unhosts"

AgentTypeOK ==
  /\ at \in {"boot", "wait", "save", "hosts", "quic", "check", "listen", "closed", "bind",
             "serve", "unhosts", "unquic", "unquicked", "unlisten", "unserved"}
  /\ current \in Policy \cup {Default}
  /\ applied \in Versions \cup {-1}
  /\ cache \in Policy \cup {NoCache}
  /\ hosts \in SUBSET Names
  /\ flag \in BOOLEAN /\ error \in BOOLEAN
  /\ quicRule \in BOOLEAN /\ quicFlag \in BOOLEAN
  /\ bound \in BOOLEAN /\ running \in BOOLEAN
  /\ faults \in 0 .. MaxFaults /\ restarts \in 0 .. MaxRestarts
  /\ unremoved \in BOOLEAN

AgentInit ==
  /\ at = "boot" /\ cache = NoCache
  /\ current = Default /\ applied = -1 /\ flag = FALSE /\ error = FALSE
  /\ hosts = {} /\ quicRule = FALSE /\ quicFlag = FALSE
  /\ bound = FALSE /\ running = FALSE
  /\ faults = 0 /\ restarts = 0 /\ unremoved = FALSE

\* enforcement_state
State == IF error THEN "ENFORCEMENT_ERROR"
         ELSE IF flag /\ running /\ quicFlag THEN "ACTIVE" ELSE "INACTIVE"

Fault(f) == /\ f \in Faults /\ faults < MaxFaults
            /\ faults' = faults + 1
            /\ UNCHANGED restarts

\* How each way through _apply_policy ends.
Outcome(on, failed) ==
  /\ applied' = current.version
  /\ flag' = on /\ error' = failed
  /\ at' = "wait"
  /\ UNCHANGED current
-----------------------------------------------------------------------------
\* Faulty variant: a torn cache is not told from a policy.
BootUnchecked ==
  /\ at = "boot"
  /\ current' = cache
  /\ at' = IF cache = NoCache THEN "wait" ELSE First(cache)
  /\ UNCHANGED <<applied, flag, error, cache, system, quicFlag, server, budget, unremoved>>

\* apply_cached_policy, before the sync loop starts.
Boot ==
  /\ at = "boot"
  /\ IF cache = NoCache
     THEN at' = "wait" /\ UNCHANGED current
     ELSE current' = cache /\ at' = First(cache)
  /\ UNCHANGED <<applied, flag, error, cache, system, quicFlag, server, budget, unremoved>>

\* Faulty variant: the version alone is compared.
UnchangedByVersion(p) == p.version = applied /\ ~error

\* Is p what _sync_once takes for the policy already applied?
Unchanged(p) ==
  /\ p.version = applied /\ ~error
  /\ VersionOnly \/ (p.enabled = current.enabled /\ p.domains = current.domains)

\* _sync_once with p in hand.
Receive(p) ==
  /\ IF Unchanged(p)
     THEN at' = "wait" /\ UNCHANGED current
     ELSE at' = "save" /\ current' = p
  /\ UNCHANGED <<applied, flag, error, cache, system, quicFlag, server, budget, unremoved>>

\* _save_cached_policy; when it fails, before or after truncating the file, the
\* policy is applied all the same.
Save ==
  /\ at = "save"
  /\ \/ cache' = current /\ UNCHANGED budget
     \/ cache' \in {cache, NoCache} /\ Fault("cache")
  /\ at' = First(current)
  /\ UNCHANGED <<memory, system, quicFlag, server, unremoved>>
-----------------------------------------------------------------------------
(***************************************************************************)
(* _apply_policy with something to block                                   *)
(***************************************************************************)
WriteHosts ==
  /\ at = "hosts"
  /\ hosts' = Wanted(current)
  /\ at' = "quic"
  /\ UNCHANGED <<memory, cache, quicRule, quicFlag, server, budget, unremoved>>

\* Opening the file fails and it stays, or writing does, after its truncation.
WriteHostsFails ==
  /\ at = "hosts" /\ Fault("hosts")
  /\ hosts' \in {hosts, {}}
  /\ Outcome(FALSE, TRUE)
  /\ UNCHANGED <<cache, quicRule, quicFlag, server, unremoved>>

AddQuic ==
  /\ at = "quic"
  /\ quicRule' = TRUE /\ quicFlag' = TRUE
  /\ at' = "check"
  /\ UNCHANGED <<memory, cache, hosts, server, budget, unremoved>>

\* Faulty variant: the agent goes on although the rule could not be added.
AddQuicFailsUnseen ==
  /\ at = "quic" /\ Fault("quic")
  /\ quicFlag' = TRUE
  /\ at' = "check"
  /\ UNCHANGED <<memory, cache, hosts, quicRule, server, unremoved>>

\* The command fails, or times out with the rule added or not; the names are
\* taken out of the hosts file again, unless that write fails too, unseen.
AddQuicFails ==
  /\ at = "quic" /\ Fault("quic")
  /\ quicFlag' = FALSE
  /\ quicRule' \in {quicRule, TRUE}
  /\ hosts' = {} \/ ("hosts" \in Faults /\ hosts' = hosts)
  /\ Outcome(FALSE, TRUE)
  /\ UNCHANGED <<cache, server, unremoved>>

\* preflight_check binds each port and lets it go.
PortsFree ==
  /\ at = "check"
  /\ ~(PortsExclusive /\ bound)
  /\ at' = "listen"
  /\ UNCHANGED <<memory, cache, system, quicFlag, server, budget, unremoved>>

\* A port is taken, by another program or by the listener opened earlier.
PortTaken ==
  /\ at = "check"
  /\ \/ PortsExclusive /\ bound /\ UNCHANGED budget
     \/ Fault("port")
  /\ running' = FALSE
  /\ Outcome(FALSE, TRUE)
  /\ UNCHANGED <<cache, system, quicFlag, bound, unremoved>>

-----------------------------------------------------------------------------
(***************************************************************************)
(* BlockServer.  stop(), which start() calls first, closes the sockets and *)
(* joins their threads, and changes the statuses after that.               *)
(***************************************************************************)
CloseListeners ==
  /\ at \in {"listen", "unlisten"}
  /\ bound' = FALSE
  /\ at' = IF at = "listen" THEN "closed" ELSE "unserved"
  /\ UNCHANGED <<memory, cache, system, quicFlag, running, budget, unremoved>>

\* In a teardown, the end of _apply_policy.
StopServer ==
  /\ running' = FALSE
  /\ \/ at = "closed" /\ at' = "bind" /\ UNCHANGED memory
     \/ at = "unserved" /\ Outcome(FALSE, FALSE)
  /\ UNCHANGED <<cache, system, quicFlag, bound, budget, unremoved>>

\* Both ports are bound before the second status is RUNNING.
Listen ==
  /\ at = "bind"
  /\ bound' = TRUE /\ running' = TRUE
  /\ at' = "serve"
  /\ UNCHANGED <<memory, cache, system, quicFlag, budget, unremoved>>

\* Faulty variant: what start() returns is not looked at.
ListenFailsUnseen ==
  /\ at = "bind" /\ Fault("port")
  /\ Outcome(TRUE, FALSE)
  /\ UNCHANGED <<cache, system, quicFlag, server, unremoved>>

\* What was bound is closed again, with the statuses at FAILED and STOPPED.
ListenFails ==
  /\ at = "bind" /\ Fault("port")
  /\ Outcome(FALSE, TRUE)
  /\ UNCHANGED <<cache, system, quicFlag, server, unremoved>>

\* start() has returned.
Serving ==
  /\ at = "serve"
  /\ Outcome(TRUE, FALSE)
  /\ UNCHANGED <<cache, system, quicFlag, server, budget, unremoved>>
-----------------------------------------------------------------------------
(***************************************************************************)
(* _apply_policy with nothing to block: what the enforcer returns is not   *)
(* looked at, so a teardown that fails counts as done.  The block server's *)
(* stop() comes last.                                                      *)
(***************************************************************************)
ClearHosts ==
  /\ at = "unhosts"
  /\ hosts' = {} /\ unremoved' = FALSE
  /\ at' = "unquic"
  /\ UNCHANGED <<memory, cache, quicRule, quicFlag, server, budget>>

\* The enforcer returns before it comes to the QUIC rule.
ClearHostsFails ==
  /\ at = "unhosts" /\ Fault("unhosts")
  /\ hosts' \in {hosts, {}} /\ unremoved' = TRUE
  /\ at' = "unlisten"
  /\ UNCHANGED <<memory, cache, quicRule, quicFlag, server>>

\* Faulty variant: the rule is deleted only if this process has added it.
DeleteOwnQuic ==
  /\ at = "unquic"
  /\ quicRule' = (quicRule /\ ~quicFlag)
  /\ at' = "unquicked"
  /\ UNCHANGED <<memory, cache, hosts, quicFlag, server, budget, unremoved>>

\* The rule goes, whoever added it.
DeleteQuic ==
  /\ at = "unquic"
  /\ quicRule' = FALSE
  /\ at' = "unquicked"
  /\ UNCHANGED <<memory, cache, hosts, quicFlag, server, budget, unremoved>>

\* The command fails, or times out with the rule deleted or not.
DeleteQuicFails ==
  /\ at = "unquic" /\ Fault("unquic")
  /\ quicRule' \in {quicRule, FALSE} /\ unremoved' = TRUE
  /\ at' = "unquicked"
  /\ UNCHANGED <<memory, cache, hosts, quicFlag, server>>

\* _quic_active = False, after the command, whatever came of it.
ClearQuicFlag ==
  /\ at = "unquicked"
  /\ quicFlag' = FALSE
  /\ at' = "unlisten"
  /\ UNCHANGED <<memory, cache, system, server, budget, unremoved>>
-----------------------------------------------------------------------------
\* The process dies, in the middle of saving the policy or of writing the hosts
\* file perhaps, and is started again.
Restart ==
  /\ restarts < MaxRestarts /\ restarts' = restarts + 1
  /\ at' = "boot"
  /\ current' = Default /\ applied' = -1 /\ flag' = FALSE /\ error' = FALSE
  /\ quicFlag' = FALSE /\ bound' = FALSE /\ running' = FALSE
  /\ cache' \in IF at = "save" THEN {cache, NoCache, current} ELSE {cache}
  /\ hosts' \in IF at \in {"hosts", "unhosts"} THEN {hosts, {}} ELSE {hosts}
  /\ UNCHANGED <<quicRule, faults, unremoved>>

ApplyStep ==
  \/ Boot \/ Save
  \/ WriteHosts \/ WriteHostsFails \/ AddQuic \/ AddQuicFails
  \/ PortsFree \/ PortTaken
  \/ CloseListeners \/ StopServer \/ Listen \/ ListenFails \/ Serving
  \/ ClearHosts \/ ClearHostsFails \/ DeleteQuic \/ DeleteQuicFails \/ ClearQuicFlag

AgentNext ==
  \/ at = "wait" /\ \E p \in Policy : Receive(p)
  \/ ApplyStep
  \/ Restart

AgentSpec == AgentInit /\ [][AgentNext]_agentVars
-----------------------------------------------------------------------------
(***************************************************************************)
(* "Security & Truthful State Guarantees"                                  *)
(***************************************************************************)

\* At rest, ACTIVE means that the hosts file redirects exactly the names of the
\* policy that was applied, with the QUIC rule in place and the listeners open.
\* In the middle of a change, ACTIVE outlives the rule only up to the end of the
\* call that deletes it, and the listeners only up to the end of stop(), however
\* earlier changes failed and whatever a dead process left behind.
ActiveIsEnforced ==
  State = "ACTIVE" =>
    /\ quicRule \/ at = "unquicked"
    /\ bound \/ at \in {"closed", "unserved"}
    /\ at = "wait" => /\ hosts = Wanted(current) /\ hosts # {}
                      /\ applied = current.version

\* "clean teardown": once a policy with nothing to block has been applied, none of
\* the firewall is left, whichever process put it there and whatever failed on
\* the way, unless the teardown itself failed.
InactiveIsRemoved ==
  at = "wait" /\ applied # -1 /\ ~error /\ Wanted(current) = {} =>
    unremoved \/ (hosts = {} /\ ~quicRule /\ ~bound)

\* A policy that blocks something is never left behind as plainly inactive: once
\* it has been applied, the state is ACTIVE or the error is on display.
NoSilentFailure ==
  at = "wait" /\ applied # -1 /\ Wanted(current) # {} => State # "INACTIVE"
=============================================================================
