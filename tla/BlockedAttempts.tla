--------------------------- MODULE BlockedAttempts ---------------------------
(***************************************************************************)
(* What the block server does with the connections that the hosts file     *)
(* sends to it, while the agent's thread may be changing the policy.  Each *)
(* connection has a thread of its own: it finds the name that was asked    *)
(* for, asks the agent whether the policy blocks it, records the attempt   *)
(* with the agent, reports it to the Master once and refuses.  The Master  *)
(* keeps one row per device, domain, version and minute.                   *)
(*                                                                         *)
(* A host name is the sequence of its labels.  A visitor is a program that *)
(* connects once.  The restart of the client, which ends every connection  *)
(* and empties the agent's list, is left to FirewallAgent.                 *)
(***************************************************************************)
EXTENDS FirewallAgent, Sequences

CONSTANTS
  Visitors,
  Entered,    \* host names the administrator enters to be blocked
  Asked,      \* host names that visitors ask for
  Local,      \* the loopback names
  MaxRecent,  \* maxlen of _recent_blocks: 50 in the code
  MaxMinutes  \* bound on the clock

\* What the administrator enters is stored without its first "www".
BareName(h) == IF Len(h) > 1 /\ h[1] = "www" THEN Tail(h) ELSE h

ASSUME AttemptsAssumption ==
  /\ Entered \cup Asked \subseteq Seq(STRING) \ {<<>>}
  /\ Names = {BareName(h) : h \in Entered}
  /\ Local \subseteq Asked /\ Local \cap Names = {}
  /\ MaxRecent \in Nat \ {0} /\ MaxMinutes \in Nat

VARIABLES
  visit,   \* each visitor's connection
  recent,  \* _recent_blocks, the newest first
  rows,    \* rows of firewall_logs of this device, by dedup key
  minute   \* the Master's clock

attemptVars == <<visit, recent, rows, minute>>

NoName == <<>>
Minutes == 0..MaxMinutes
Keys == [domain : Asked \cup Names, version : Versions \cup {-1}, minute : Minutes]

\* What a visitor sends: a request with a Host header and a path (of interest for
\* the loopback names), or a ClientHello, of which the first 1024 bytes may or may
\* not hold the whole server name.
Requests80 == [tls : {FALSE}, name : Local, path : {"/", "/health", "/other"}] \cup
              [tls : {FALSE}, name : (Asked \ Local) \cup {NoName}, path : {"/other"}]
Requests443 == [tls : {TRUE}, name : Asked \ Local, within : BOOLEAN]

\* stage; what was asked; the domain judged blocked; the version sent to the
\* Master; whether the Master answered; whether the policy was the same all along.
Quiet == [stage |-> "none", steady |-> TRUE]
Ended == {"none", "alive", "page", "closed"}

Www(d) == <<"www">> \o d
Under(h, d) == Len(h) > Len(d) /\ SubSeq(h, Len(h) - Len(d) + 1, Len(h)) = d

\* The names a blocked domain redirects.
BlockHostnames(d) == IF d[1] = "www" THEN {d} ELSE {d, Www(d)}

\* The domain under which h is blocked: exact, without or with "www", else the
\* first in the list of those it lies under.
Verdicts(h, blocked) ==
  CASE h \in blocked -> {h}
    [] h \notin blocked /\ BareName(h) # h /\ BareName(h) \in blocked -> {BareName(h)}
    [] h \notin blocked /\ BareName(h) \notin blocked /\ Www(h) \in blocked -> {h}
    [] OTHER -> {d \in blocked : Under(h, d)}

\* The server name, if the record is a ClientHello and all of the name is there.
ServerName(q) == IF q.within THEN q.name ELSE NoName

AttemptsInit ==
  /\ visit = [v \in Visitors |-> Quiet]
  /\ recent = <<>> /\ rows = [k \in Keys |-> 0] /\ minute = 0

Stage(v) == visit[v].stage
Close(answer) == [Quiet EXCEPT !.stage = answer]

\* A connection that is refused, whatever came of its report.
Refused(v, logged) ==
  [stage |-> "refused", steady |-> visit[v].steady, domain |-> visit[v].domain, logged |-> logged]

\* is_policy_enabled is read, the domains are read later.
ToPolicy(v) ==
  LET name == visit[v].q.name
  IN  [stage |-> IF name # NoName /\ current.enabled THEN "match" ELSE "passed",
       name |-> name, steady |-> visit[v].steady]
-----------------------------------------------------------------------------
\* An accepted connection gets a thread.
Connect(v) ==
  /\ bound /\ Stage(v) = "none"
  /\ \E q \in Requests80 \cup Requests443 :
       visit' = [visit EXCEPT ![v] = [stage |-> "asked", q |-> q,
                                      steady |-> at = "wait" /\ applied = current.version]]
  /\ UNCHANGED <<agentVars, recent, rows, minute>>

\* Port 80: the health check and the block page for the loopback names, or on to
\* the policy.
ServeHttp(v) ==
  /\ Stage(v) = "asked" /\ ~visit[v].q.tls
  /\ LET q == visit[v].q
     IN  visit' = [visit EXCEPT ![v] =
           CASE q.path = "/health" -> Close("alive")
             [] q.path = "/" -> Close("page")
             [] q.path = "/other" -> ToPolicy(v)]
  /\ UNCHANGED <<agentVars, recent, rows, minute>>

\* Port 443: without a server name the connection is closed.
ServeHttps(v) ==
  /\ Stage(v) = "asked" /\ visit[v].q.tls
  /\ visit' = [visit EXCEPT ![v] =
       IF ServerName(visit[v].q) = NoName THEN Close("closed") ELSE ToPolicy(v)]
  /\ UNCHANGED <<agentVars, recent, rows, minute>>

\* Faulty variant: the name asked for is taken for the domain.
MatchAsked(v) ==
  /\ Stage(v) = "match"
  /\ LET found == Verdicts(visit[v].name, current.domains)
     IN  visit' = [visit EXCEPT ![v] =
           IF found = {} THEN [@ EXCEPT !.stage = "passed"]
           ELSE [stage |-> "blocked", steady |-> @.steady, domain |-> @.name]]
  /\ UNCHANGED <<agentVars, recent, rows, minute>>

Match(v) ==
  /\ Stage(v) = "match"
  /\ LET found == Verdicts(visit[v].name, current.domains)
     IN  \/ /\ found = {}
            /\ visit' = [visit EXCEPT ![v].stage = "passed"]
         \/ \E d \in found :
              visit' = [visit EXCEPT ![v] =
                          [stage |-> "blocked", steady |-> @.steady, domain |-> d]]
  /\ UNCHANGED <<agentVars, recent, rows, minute>>

\* The agent's own list, under its lock.
Note(v) ==
  /\ Stage(v) = "blocked"
  /\ recent' = SubSeq(<<[domain |-> visit[v].domain, version |-> applied]>> \o recent,
                      1, IF Len(recent) < MaxRecent THEN Len(recent) + 1 ELSE MaxRecent)
  /\ visit' = [visit EXCEPT ![v].stage = "noted"]
  /\ UNCHANGED <<agentVars, rows, minute>>

\* One report is sent, with the version applied by now.
Report(v) ==
  /\ Stage(v) = "noted"
  /\ visit' = [visit EXCEPT ![v] =
       [stage |-> "sent", steady |-> @.steady,
        domain |-> @.domain, version |-> applied]]
  /\ UNCHANGED <<agentVars, recent, rows, minute>>

\* The client is not signed in, the report does not arrive, or the Master refuses
\* the session: there is no second attempt.
ReportFails(v) ==
  /\ Stage(v) = "sent"
  /\ visit' = [visit EXCEPT ![v] = Refused(v, FALSE)]
  /\ UNCHANGED <<agentVars, recent, rows, minute>>

-----------------------------------------------------------------------------
(* log_blocked_attempt at the Master, in concurrent handlers. *)

\* The minute is taken, and the SELECT finds a row of this key or none.
LookForRow(v) ==
  /\ Stage(v) = "sent"
  /\ LET key == [domain |-> visit[v].domain, version |-> visit[v].version, minute |-> minute]
     IN  visit' = [visit EXCEPT ![v] =
           IF rows[key] > 0 THEN Refused(v, TRUE)
           ELSE [stage |-> "insert", steady |-> @.steady, domain |-> @.domain, key |-> key]]
  /\ UNCHANGED <<agentVars, recent, rows, minute>>

\* dedup_key is UNIQUE: an INSERT that comes second fails, and like every error
\* is answered as a duplicate.
InsertRow(v) ==
  /\ Stage(v) = "insert"
  /\ rows' = IF rows[visit[v].key] > 0 THEN rows ELSE [rows EXCEPT ![visit[v].key] = 1]
  /\ visit' = [visit EXCEPT ![v] = Refused(v, TRUE)]
  /\ UNCHANGED <<agentVars, recent, minute>>

InsertRowFails(v) ==
  /\ Stage(v) = "insert"
  /\ visit' = [visit EXCEPT ![v] = Refused(v, FALSE)]
  /\ UNCHANGED <<agentVars, recent, rows, minute>>

-----------------------------------------------------------------------------
MinutePasses ==
  /\ minute < MaxMinutes /\ minute' = minute + 1
  /\ UNCHANGED <<agentVars, visit, recent, rows>>

\* The agent's thread takes a step: a change of the policy or of its version is
\* noted in every visit.
AgentStep ==
  /\ (at = "wait" /\ \E p \in Policy : Receive(p)) \/ ApplyStep
  /\ visit' = [v \in Visitors |->
       IF Stage(v) \in Ended \/ <<current, applied>>' = <<current, applied>> THEN visit[v]
       ELSE [visit[v] EXCEPT !.steady = FALSE]]
  /\ UNCHANGED <<recent, rows, minute>>

AttemptsNext ==
  \/ AgentStep \/ MinutePasses
  \/ \E v \in Visitors :
       \/ Connect(v) \/ ServeHttp(v) \/ ServeHttps(v) \/ Match(v) \/ Note(v)
       \/ Report(v) \/ ReportFails(v) \/ LookForRow(v) \/ InsertRow(v) \/ InsertRowFails(v)

AttemptsSpec == AgentInit /\ AttemptsInit /\ [][AttemptsNext]_<<agentVars, attemptVars>>

-----------------------------------------------------------------------------
(* Properties. *)

AttemptsTypeOK ==
  /\ \A v \in Visitors :
       /\ Stage(v) \in Ended \cup {"asked", "match", "passed", "blocked", "noted", "sent",
                                 "insert", "refused"}
       /\ Stage(v) = "asked" => visit[v].q \in Requests80 \cup Requests443
  /\ Len(recent) <= MaxRecent
  /\ rows \in [Keys -> Nat] /\ minute \in Minutes

\* A visit that ran under one policy is refused if the policy redirects the name that was
\* asked for, and only if it blocks the domain that is reported; the agent's
\* list and, if the Master took the report, the Master's log have the attempt
\* under that policy's version.
VisitsFollowPolicy ==
  \A v \in Visitors : Stage(v) \notin Ended /\ visit[v].steady =>
    /\ Stage(v) = "passed" => \A d \in Wanted(current) : visit[v].name \notin BlockHostnames(d)
    /\ Stage(v) = "refused" =>
         /\ {visit[v].domain, Www(visit[v].domain)} \cap Wanted(current) # {}
         /\ \/ Len(recent) = MaxRecent
            \/ \E i \in DOMAIN recent :
                 recent[i] = [domain |-> visit[v].domain, version |-> current.version]
         /\ visit[v].logged =>
              \E m \in Minutes : rows[[domain |-> visit[v].domain, version |-> current.version,
                                      minute |-> m]] = 1
=============================================================================
