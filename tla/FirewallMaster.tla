--------------------------- MODULE FirewallMaster ---------------------------
(***************************************************************************)
(* FirewallPolicy and the Master's own hosts file, which every request     *)
(* brings up to date after its commit: its thread reads the file, empties  *)
(* it and fills it, beside the threads of other requests.  The file is the *)
(* operating system's; what else it says is one thing here, which is there *)
(* or lost.  Besides, what policy versions are worth to a client that      *)
(* compares them.                                                          *)
(***************************************************************************)
EXTENDS FirewallPolicy

VARIABLES
  mhosts,  \* names redirected by the Master's own hosts file
  others,  \* its lines outside the block are there
  writer,  \* how far each thread is with the file, and whether it has read them
  missed,  \* history: its other lines went with a request that failed
  named,   \* history: which names were blocked, under which version, until
           \* two requests are at work together; then {}
  alone    \* history: which requests have met no other since their commit

file == <<mhosts, others>>
recordVars == <<masterVars, file, writer, missed, named, alone>>

InForce == Blocks(enabled, active)
NotWriting == [does |-> "read", kept |-> FALSE]

\* A request from its commit on, when it still has to bring the file up to date.
Syncing == {"list", "settings", "domains", "apply"}
Lone(a) == \A b \in Admins \ {a} : OnStep(b, "idle")
OneAtMost == \A a \in Admins : OnStep(a, "idle") \/ Lone(a)

MasterInit ==
  /\ PolicyInit
  /\ mhosts = {} /\ others = TRUE
  /\ writer = [a \in Admins |-> NotWriting]
  /\ missed = FALSE
  /\ named = {<<0, {}>>}
  /\ alone = [a \in Admins |-> FALSE]
-----------------------------------------------------------------------------
(***************************************************************************)
(* MasterFirewallEnforcer.apply_policy, with the policy the thread has     *)
(* read, whatever it is by now.                                            *)
(***************************************************************************)
ReadHosts(a) ==
  /\ OnStep(a, "apply") /\ writer[a].does = "read"
  /\ writer' = [writer EXCEPT ![a] = [does |-> "empty", kept |-> others]]
  /\ UNCHANGED <<masterVars, file>>

\* write_text empties the file as it opens it.
EmptyHosts(a) ==
  /\ writer[a].does = "empty"
  /\ writer' = [writer EXCEPT ![a].does = "fill"]
  /\ mhosts' = {} /\ others' = FALSE
  /\ UNCHANGED masterVars

\* Faulty variant: the enforcer adds names and never takes one out.
FillHostsAdding(a) ==
  /\ writer[a].does = "fill" /\ Answer(a)
  /\ \E before \in SUBSET listed : mhosts' = before \cup Blocks(job[a].flag, job[a].names)
  /\ others' = writer[a].kept
  /\ writer' = [writer EXCEPT ![a] = NotWriting]

\* The file is written from its beginning on: of what another thread has written
\* since it was emptied, the end may be left.
FillHosts(a) ==
  /\ writer[a].does = "fill" /\ Answer(a)
  /\ \E rest \in SUBSET mhosts : mhosts' = rest \cup Blocks(job[a].flag, job[a].names)
  /\ others' = writer[a].kept
  /\ writer' = [writer EXCEPT ![a] = NotWriting]

ApplyPolicy(a) == ReadHosts(a) \/ EmptyHosts(a) \/ FillHosts(a)

\* What the histories make of a step.
HistoriesKept ==
  /\ named' = IF named = {} \/ ~OneAtMost' THEN {} ELSE named \cup {<<version', InForce'>>}
  /\ alone' = [a \in Admins |-> job'[a].pc \in Syncing /\ Lone(a)'
                               /\ (alone[a] \/ job[a].pc \notin Syncing)]

MasterNext ==
  /\ \E a \in Admins :
       \/ /\ \/ (AdminStep(a) \/ AdminStart(a)) /\ UNCHANGED <<file, writer>>
             \/ ApplyPolicy(a)
          /\ missed' = (missed /\ ~others')
       \/ /\ RequestFails(a)
          /\ writer' = [writer EXCEPT ![a] = NotWriting]
          /\ missed' = ~others
          /\ UNCHANGED file
  /\ HistoriesKept

MasterSpec == MasterInit /\ [][MasterNext]_recordVars
-----------------------------------------------------------------------------
\* The tables, the file and the threads have their types, and only a thread with
\* a policy in hand is at work on the file; the histories have their types.
MasterTypeOK ==
  /\ PolicyTypeOK
  /\ mhosts \in SUBSET Domains /\ others \in BOOLEAN
  /\ writer \in [Admins -> [does : {"read", "empty", "fill"}, kept : BOOLEAN]]
  /\ \A a \in Admins : writer[a].does # "read" => OnStep(a, "apply")
  /\ missed \in BOOLEAN
  /\ named \in SUBSET (Nat \X SUBSET Domains)
  /\ alone \in [Admins -> BOOLEAN]

\* As long as requests come one at a time, in whatever threads, and fail wherever
\* they may, a policy version names one set of blocked names: a client that has
\* applied some version needs no other look at it.  (LinuxFirewallAgent compares
\* nothing but versions.)
VersionNamesOnePolicy ==
  \A p, q \in named : p[1] = q[1] => p[2] = q[2]

NobodyAtWork == \A a \in Admins : OnStep(a, "idle")

\* "NEVER modifies any line outside the sentinel block": whenever no request is
\* being served, the other lines are there, unless one failed halfway.
OtherLinesStay == NobodyAtWork => missed \/ others

\* "Re-apply the current policy to the Master hosts file after a change."  Requests
\* at work together, or failing halfway, may leave the file with an older policy or
\* half of one; the next request that meets no other from its commit on leaves it
\* with what the policy says, whatever it has found there.
LoneRequestSettlesFile ==
  [][\A a \in Admins : FillHosts(a) /\ alone[a] => mhosts' = InForce']_recordVars

\* "Policy versioning (incremented on every state/domain change)": a step that
\* switches the firewall on or off, or changes what it blocks, moves the version
\* forward, and none moves it back.
VersionMovesForward ==
  [][version' >= version /\ (InForce' # InForce => version' > version)]_recordVars
=============================================================================
