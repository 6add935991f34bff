--------------------------- MODULE FirewallPolicy ---------------------------
(***************************************************************************)
(* The firewall policy on the Master: tables firewall_settings and         *)
(* firewall_blocked_domains and the administrator's requests that change   *)
(* them, up to the point where a request has read the policy that it will  *)
(* apply to the Master's own hosts file (FirewallMaster).                  *)
(*                                                                         *)
(* Each request runs in a thread of its own over its own connection.  A    *)
(* SELECT before the first write of a connection runs outside the          *)
(* transaction: set_enabled computes the new version from such a SELECT,   *)
(* add_domain and remove_domain from one inside it.  The INSERT of a       *)
(* missing settings row commits on the spot, whatever is open.             *)
(***************************************************************************)
EXTENDS Integers, FiniteSets

CONSTANTS
  Domains,     \* normalized domain names
  Admins,      \* handler threads serving the administrator
  MaxVersion   \* bound: no change is begun once policy_version is here

ASSUME PolicyAssumption ==
  /\ Domains # {} /\ Admins # {}
  /\ MaxVersion \in Nat

VARIABLES
  made,     \* firewall_settings has a row (a second one is never read)
  enabled,  \* firewall_settings.enabled
  version,  \* firewall_settings.policy_version
  active,   \* domains with is_active = 1
  listed,   \* domains with a row in firewall_blocked_domains
  job       \* where each handler thread stands, and what it has read

tables == <<made, enabled, version, active, listed>>
masterVars == <<tables, job>>

Ops == {"none", "set_enabled", "add_domain", "remove_domain"}
Steps == {"idle", "ensure", "read", "write", "begin", "bump", "list", "settings",
          "domains", "apply"}

\* flag: the value to set or whether add_domain found a row, then the enabled
\* that was read for the hosts file.
Job == [op : Ops, pc : Steps, dom : Domains, flag : BOOLEAN, ver : Nat,
        names : SUBSET Domains]
Free == [op |-> "none", pc |-> "idle", dom |-> CHOOSE d \in Domains : TRUE,
         flag |-> FALSE, ver |-> 0, names |-> {}]

PolicyTypeOK ==
  /\ made \in BOOLEAN /\ enabled \in BOOLEAN
  /\ version \in Nat
  /\ active \in SUBSET listed
  /\ listed \in SUBSET Domains
  /\ job \in [Admins -> Job]

PolicyInit ==
  /\ made = FALSE /\ enabled = FALSE /\ version = 0
  /\ active = {} /\ listed = {}
  /\ job = [a \in Admins |-> Free]

\* The names a policy blocks.
Blocks(on, names) == IF on THEN names ELSE {}

OnStep(a, pc) == job[a].pc = pc
GoOn(a, pc) == job' = [job EXCEPT ![a].pc = pc]
Finish(a) == job' = [job EXCEPT ![a] = Free]

\* The change is committed; what the thread has read for it is of no more use.
Committed(a) ==
  job' = [job EXCEPT ![a] = IF @.op = "set_enabled"
                            THEN [@ EXCEPT !.pc = "list", !.ver = 0]
                            ELSE [Free EXCEPT !.pc = "settings"]]
-----------------------------------------------------------------------------
(***************************************************************************)
(* set_enabled                                                             *)
(***************************************************************************)
StartSetEnabled(a, b) ==
  /\ OnStep(a, "idle") /\ version < MaxVersion
  /\ job' = [job EXCEPT ![a] = [Free EXCEPT !.op = "set_enabled", !.pc = "ensure",
                                            !.flag = b]]
  /\ UNCHANGED tables

\* _ensure_settings_row
EnsureRow(a) ==
  /\ OnStep(a, "ensure")
  /\ made' = TRUE
  /\ GoOn(a, "read")
  /\ UNCHANGED <<enabled, version, active, listed>>

\* The SELECT of _bump_version, outside any transaction here.
ReadVersion(a) ==
  /\ OnStep(a, "read")
  /\ job' = [job EXCEPT ![a].pc = "write", ![a].ver = version + 1]
  /\ UNCHANGED tables

\* Faulty variant: the version is left as it is.
WriteNoBump(a) ==
  /\ OnStep(a, "write")
  /\ enabled' = IF job[a].op = "set_enabled" THEN job[a].flag ELSE enabled
  /\ Committed(a)
  /\ UNCHANGED <<made, version, active, listed>>

\* The UPDATEs and the commit.  After a domain change that had to insert the
\* settings row, only the version is left to write.
Write(a) ==
  /\ OnStep(a, "write")
  /\ version' = job[a].ver
  /\ enabled' = IF job[a].op = "set_enabled" THEN job[a].flag ELSE enabled
  /\ Committed(a)
  /\ UNCHANGED <<made, active, listed>>

\* The domain list that set_enabled returns, read after the commit.
ListDomains(a) ==
  /\ OnStep(a, "list")
  /\ job' = [job EXCEPT ![a].pc = "apply", ![a].names = active]
  /\ UNCHANGED tables
-----------------------------------------------------------------------------
(***************************************************************************)
(* add_domain and remove_domain: a SELECT decides, the writes follow in a  *)
(* transaction of their own.                                               *)
(***************************************************************************)
StartAddDomain(a, d) ==
  /\ OnStep(a, "idle") /\ version < MaxVersion
  /\ d \notin active
  /\ job' = [job EXCEPT ![a] = [Free EXCEPT !.op = "add_domain", !.pc = "begin",
                                            !.dom = d, !.flag = d \in listed]]
  /\ UNCHANGED tables

StartRemoveDomain(a, d) ==
  /\ OnStep(a, "idle") /\ version < MaxVersion
  /\ d \in active
  /\ job' = [job EXCEPT ![a] = [Free EXCEPT !.op = "remove_domain", !.pc = "begin",
                                            !.dom = d]]
  /\ UNCHANGED tables

\* The INSERT of a domain that has got a row since: UNIQUE fails the request.
Duplicate(a) == job[a].op = "add_domain" /\ ~job[a].flag /\ job[a].dom \in listed

InsertFails(a) ==
  /\ OnStep(a, "begin") /\ Duplicate(a)
  /\ Finish(a)
  /\ UNCHANGED tables

\* Faulty variant: the INSERT of the domain's row is left out.
ListWriteNoRow(a) ==
  /\ ~Duplicate(a)
  /\ active' = IF job[a].op = "add_domain" THEN active \cup {job[a].dom}
                                           ELSE active \ {job[a].dom}
  /\ UNCHANGED listed

\* Writing the row of the domain: a new one, or is_active of the old one.
ListWrite(a) ==
  /\ ~Duplicate(a)
  /\ active' = IF job[a].op = "add_domain" THEN active \cup {job[a].dom}
                                           ELSE active \ {job[a].dom}
  /\ listed' = listed \cup {job[a].dom}

\* Faulty variant: a change of the list keeps the version.
ChangeListNoBump(a) ==
  /\ OnStep(a, "begin") /\ made
  /\ ListWrite(a)
  /\ Committed(a)
  /\ UNCHANGED <<made, enabled, version>>

\* The settings row is there: domain, version and audit entry share one commit.
ChangeList(a) ==
  /\ OnStep(a, "begin") /\ made
  /\ ListWrite(a)
  /\ version' = version + 1
  /\ Committed(a)
  /\ UNCHANGED <<made, enabled>>

\* There is none: the commit of its INSERT takes the domain along, and the
\* version follows outside that transaction.
ChangeListFirst(a) ==
  /\ OnStep(a, "begin") /\ ~made
  /\ ListWrite(a)
  /\ made' = TRUE
  /\ job' = [job EXCEPT ![a] = [Free EXCEPT !.op = "add_domain", !.pc = "read"]]
  /\ UNCHANGED <<enabled, version>>

\* _sync_master_enforcement: get_policy reads the settings, then the domains.
ReadSettings(a) ==
  /\ OnStep(a, "settings")
  /\ job' = [job EXCEPT ![a].pc = "domains", ![a].flag = enabled]
  /\ UNCHANGED tables

ReadDomains(a) ==
  /\ OnStep(a, "domains")
  /\ job' = [job EXCEPT ![a].pc = "apply", ![a].names = active]
  /\ UNCHANGED tables
-----------------------------------------------------------------------------
\* The request is answered once its thread is done with the hosts file.
Answer(a) == OnStep(a, "apply") /\ Finish(a) /\ UNCHANGED tables

AdminStep(a) ==
  \/ EnsureRow(a) \/ ReadVersion(a) \/ Write(a) \/ ListDomains(a)
  \/ ChangeList(a) \/ ChangeListFirst(a) \/ InsertFails(a)
  \/ ReadSettings(a) \/ ReadDomains(a)

\* A statement of the request fails (the database stayed locked too long), or
\* the Master dies under it: what was committed stays, the rest never comes.
RequestFails(a) ==
  /\ ~OnStep(a, "idle")
  /\ Finish(a)
  /\ UNCHANGED tables

AdminStart(a) ==
  \/ \E b \in BOOLEAN : StartSetEnabled(a, b)
  \/ \E d \in Domains : StartAddDomain(a, d) \/ StartRemoveDomain(a, d)
=============================================================================
