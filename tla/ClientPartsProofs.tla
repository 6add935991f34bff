-------------------------- MODULE ClientPartsProofs --------------------------
(***************************************************************************)
(* Proofs about the parts of the client that MCClientParts runs: the block *)
(* server's connections while the agent changes the policy, for any names, *)
(* visitors and policies; the uplink of events, for any number of requests *)
(* and any size of the buffer; the event collector's scans, for any        *)
(* programs, processes and size of the cache; the discovery of the Master; *)
(* and the types of whichever part runs.                                   *)
(***************************************************************************)
EXTENDS MCClientParts, FirewallAgentProofs, SequenceTheorems, FiniteSetTheorems

(***************************************************************************)
(* Host names.                                                             *)
(***************************************************************************)
Labels == STRING \cup {"www"}
Labelled == Seq(Labels) \ {<<>>}

LEMMA LabelledType == Asked \subseteq Labelled /\ Names \subseteq Labelled
<1>1. ASSUME NEW h \in Entered \cup Asked PROVE h \in Labelled
  <2>1. h \in Seq(STRING) /\ h # <<>>
    BY AttemptsAssumption
  <2>2. h \in Seq(Labels)
    BY <2>1, SeqMonotonic DEF Labels
  <2> QED  BY <2>1, <2>2 DEF Labelled
<1>2. ASSUME NEW h \in Entered PROVE BareName(h) \in Labelled
  <2>1. h \in Seq(Labels) /\ h # <<>>
    BY <1>1 DEF Labelled
  <2>2. CASE Len(h) > 1 /\ h[1] = "www"
    <3>1. Tail(h) \in Seq(Labels) /\ Len(Tail(h)) = Len(h) - 1
      BY <2>1, HeadTailProperties
    <3>2. Len(Tail(h)) # 0
      BY <2>1, <2>2, <3>1, LenProperties
    <3> QED  BY <2>2, <3>1, <3>2, EmptySeq DEF BareName, Labelled
  <2>3. CASE ~(Len(h) > 1 /\ h[1] = "www")
    BY <1>1, <2>3 DEF BareName
  <2> QED  BY <2>2, <2>3
<1> QED  BY <1>1, <1>2, AttemptsAssumption

\* A name with "www" before it lies under that name.
LEMMA WwwUnder == ASSUME NEW d \in Labelled PROVE Under(Www(d), d) /\ Www(d) # <<>>
<1>1. d \in Seq(Labels) /\ <<"www">> \in Seq(Labels) /\ Len(<<"www">>) = 1
  BY DEF Labelled, Labels
<1>2. Len(d) \in Nat /\ Len(d) # 0
  BY <1>1, LenProperties, EmptySeq DEF Labelled
<1>3. Www(d) \in Seq(Labels) /\ Len(Www(d)) = Len(d) + 1
  BY <1>1, <1>2, ConcatProperties DEF Www
<1>4. SubSeq(Www(d), 2, Len(d) + 1) = SubSeq(d, 1, Len(d))
  BY <1>1, <1>2, SubSeqOfConcat2 DEF Www
<1>5. SubSeq(d, 1, Len(d)) = d
  BY <1>1, SubSeqFull
<1> QED  BY <1>2, <1>3, <1>4, <1>5, EmptySeq DEF Under

\* A name without a verdict is redirected for none of the blocked domains.
LEMMA NoVerdictNoRedirect ==
  ASSUME NEW h \in Labelled, NEW blocked \in SUBSET Names, Verdicts(h, blocked) = {},
         NEW d \in blocked
  PROVE  h \notin BlockHostnames(d)
<1>1. h \notin blocked /\ Verdicts(h, blocked) = {e \in blocked : Under(h, e)}
  BY DEF Verdicts
<1>2. h # d /\ ~Under(h, d)
  BY <1>1
<1>3. Under(Www(d), d)
  BY WwwUnder, LabelledType
<1> QED  BY <1>2, <1>3 DEF BlockHostnames

\* A verdict names a blocked domain, perhaps without its "www".
LEMMA VerdictIsBlocked ==
  ASSUME NEW h \in Asked, NEW blocked \in SUBSET Names, NEW d \in Verdicts(h, blocked)
  PROVE  d \in Asked \cup Names /\ {d, Www(d)} \cap blocked # {}
  BY DEF Verdicts

(***************************************************************************)
(* The connections of the block server.                                    *)
(***************************************************************************)
Blockable == Asked \cup Names
Marks == Versions \cup {-1}
Entries == [domain : Blockable, version : Marks]

\* What a connection carries at each stage.
Visits ==
  [stage : Ended, steady : BOOLEAN]
  \cup [stage : {"asked"}, q : Requests80 \cup Requests443, steady : BOOLEAN]
  \cup [stage : {"match"}, name : Asked, steady : BOOLEAN]
  \cup [stage : {"passed"}, name : Asked \cup {NoName}, steady : BOOLEAN]
  \cup [stage : {"blocked", "noted"}, steady : BOOLEAN, domain : Blockable]
  \cup [stage : {"sent"}, steady : BOOLEAN, domain : Blockable, version : Marks]
  \cup [stage : {"insert"}, steady : BOOLEAN, domain : Blockable, key : Keys]
  \cup [stage : {"refused"}, steady : BOOLEAN, domain : Blockable, logged : BOOLEAN]

VisitsTyped ==
  /\ visit \in [Visitors -> Visits]
  /\ recent \in Seq(Entries) /\ Len(recent) <= MaxRecent
  /\ rows \in [Keys -> {0, 1}] /\ minute \in Minutes

\* An attempt is in the agent's list, unless the list is full; it has a row.
NotedAs(d) == \/ Len(recent) = MaxRecent
              \/ \E i \in DOMAIN recent : recent[i] = [domain |-> d, version |-> current.version]
LoggedAs(d) == \E k \in Keys : rows[k] = 1 /\ k.domain = d /\ k.version = current.version

\* What a visit x under one policy has come to at each of its stages.
Follows(x) ==
  x.steady /\ x.stage \notin Ended =>
    /\ applied = current.version
    /\ x.stage = "match" => current.enabled
    /\ x.stage = "passed" => \A d \in Wanted(current) : x.name \notin BlockHostnames(d)
    /\ x.stage \in {"blocked", "noted", "sent", "insert", "refused"} =>
         {x.domain, Www(x.domain)} \cap Wanted(current) # {}
    /\ x.stage \in {"noted", "sent", "insert", "refused"} => NotedAs(x.domain)
    /\ x.stage = "sent" => x.version = current.version
    /\ x.stage = "insert" => x.key.domain = x.domain /\ x.key.version = current.version
    /\ x.stage = "refused" /\ x.logged => LoggedAs(x.domain)

AttemptsInv == IInv /\ VisitsTyped /\ \A v \in Visitors : Follows(visit[v])

LEMMA AttemptsInitInv == AgentInit /\ AttemptsInit => AttemptsInv
<1> SUFFICES ASSUME AgentInit, AttemptsInit PROVE AttemptsInv
  OBVIOUS
<1>1. \A v \in Visitors : visit[v] = Quiet
  BY DEF AttemptsInit
<1>2. Quiet \in Visits /\ Quiet.stage \in Ended
  BY DEF Quiet, Visits, Ended
<1>3. VisitsTyped
  <2>1. visit \in [Visitors -> Visits]
    BY <1>2 DEF AttemptsInit
  <2>2. recent \in Seq(Entries) /\ Len(recent) <= MaxRecent
    BY AttemptsAssumption DEF AttemptsInit
  <2>3. rows \in [Keys -> {0, 1}] /\ minute \in Minutes
    BY AttemptsAssumption DEF AttemptsInit, Minutes
  <2> QED  BY <2>1, <2>2, <2>3 DEF VisitsTyped
<1> QED  BY <1>1, <1>2, <1>3, InitInv DEF AttemptsInv, Follows

\* What the agent's list and the Master's table have is kept by a step.
ListKept == \A d \in Blockable : NotedAs(d) => NotedAs(d)'
TableKept == \A d \in Blockable : LoggedAs(d) => LoggedAs(d)'

LEMMA FollowsStill ==
  ASSUME NEW x \in Visits, Follows(x), ListKept, TableKept,
         x.steady /\ x.stage \notin Ended => UNCHANGED <<current, applied>>
  PROVE  Follows(x)'
<1> SUFFICES ASSUME x.steady, x.stage \notin Ended PROVE Follows(x)'
  BY DEF Follows
<1>1. current' = current /\ applied' = applied
  OBVIOUS
<1>2. x.stage \in {"blocked", "noted", "sent", "insert", "refused"} => x.domain \in Blockable
  BY DEF Visits, Ended
<1> QED  BY <1>1, <1>2 DEF Follows, ListKept, TableKept, Wanted

LEMMA SameNotes == ASSUME UNCHANGED <<current, recent>> PROVE ListKept
  BY DEF ListKept, NotedAs
LEMMA SameRows == ASSUME UNCHANGED <<current, rows>> PROVE TableKept
  BY DEF TableKept, LoggedAs

\* A connection's step concerns the others only through the list and the table.
LEMMA VisitStep ==
  ASSUME AttemptsInv, NEW v \in Visitors, NEW x \in Visits,
         visit' = [visit EXCEPT ![v] = x], Follows(x)', UNCHANGED agentVars,
         ListKept, TableKept,
         recent' \in Seq(Entries), Len(recent') <= MaxRecent,
         rows' \in [Keys -> {0, 1}], minute' \in Minutes
  PROVE  AttemptsInv'
<1>1. VisitsTyped'
  BY DEF AttemptsInv, VisitsTyped
<1>2. IInv'
  BY NextInv DEF AttemptsInv
<1>3. UNCHANGED <<current, applied>>
  BY DEF agentVars, memory
<1>4. \A o \in Visitors : Follows(visit[o])'
  <2> SUFFICES ASSUME NEW o \in Visitors PROVE Follows(visit[o])'
    OBVIOUS
  <2>1. CASE o = v
    <3>1. visit'[o] = x
      BY <2>1 DEF AttemptsInv, VisitsTyped
    <3> QED  BY <3>1 DEF Follows, NotedAs, LoggedAs
  <2>2. CASE o # v
    <3>1. visit'[o] = visit[o] /\ visit[o] \in Visits /\ Follows(visit[o])
      BY <2>2 DEF AttemptsInv, VisitsTyped
    <3> DEFINE y == visit[o]
    <3>2. \A z \in Visits : Follows(z) => Follows(z)'
      BY <1>3, FollowsStill
    <3> QED  BY <3>1, <3>2 DEF Follows, NotedAs, LoggedAs
  <2> QED  BY <2>1, <2>2
<1> QED  BY <1>1, <1>2, <1>4 DEF AttemptsInv

\* Most of them leave list and table alone as well.
LEMMA QuietStep ==
  ASSUME AttemptsInv, NEW v \in Visitors, NEW x \in Visits,
         visit' = [visit EXCEPT ![v] = x], Follows(x),
         UNCHANGED <<agentVars, recent, rows, minute>>
  PROVE  AttemptsInv'
<1>1. UNCHANGED <<current, applied>>
  BY DEF agentVars, memory
<1>2. ListKept /\ TableKept
  BY <1>1, SameNotes, SameRows
<1>3. Follows(x)'
  BY <1>1, <1>2, FollowsStill
<1> QED  BY <1>2, <1>3, VisitStep DEF AttemptsInv, VisitsTyped

LEMMA ConnectInv == ASSUME AttemptsInv, NEW v \in Visitors, Connect(v) PROVE AttemptsInv'
<1>1. PICK q \in Requests80 \cup Requests443 :
        visit' = [visit EXCEPT ![v] = [stage |-> "asked", q |-> q,
                                       steady |-> at = "wait" /\ applied = current.version]]
  BY DEF Connect
<1> DEFINE calm == at = "wait" /\ applied = current.version
           x == [stage |-> "asked", q |-> q, steady |-> calm]
<1>2. calm \in BOOLEAN
  OBVIOUS
<1>3. x \in Visits
  <2> HIDE DEF calm
  <2> QED  BY <1>2 DEF Visits
<1>4. Follows(x)
  BY DEF Follows
<1> QED  BY <1>1, <1>3, <1>4, QuietStep DEF Connect

\* The name goes on to the policy, if there is one in force.
LEMMA ToPolicyFollows ==
  ASSUME AttemptsInv, NEW v \in Visitors, Stage(v) = "asked", visit[v].q.name \in Asked \cup {NoName}
  PROVE  ToPolicy(v) \in Visits /\ Follows(ToPolicy(v))
<1> DEFINE name == visit[v].q.name
           x == ToPolicy(v)
<1>1. visit[v] \in Visits /\ Follows(visit[v]) /\ visit[v].steady \in BOOLEAN
  BY DEF AttemptsInv, VisitsTyped, Visits
<1>2. x = [stage |-> IF name # NoName /\ current.enabled THEN "match" ELSE "passed",
           name |-> name, steady |-> visit[v].steady]
  BY DEF ToPolicy
<1>3. visit[v].steady => applied = current.version
  BY <1>1 DEF Follows, Stage, Ended
<1>4. \A d \in Names : NoName \notin BlockHostnames(d)
  BY WwwUnder, LabelledType DEF NoName, BlockHostnames, Labelled
<1>5. Wanted(current) \subseteq Names
  BY DEF AttemptsInv, IInv, AgentTypeOK, Wanted, Policy, Default
<1>6. CASE name # NoName /\ current.enabled
  <2>1. x = [stage |-> "match", name |-> name, steady |-> visit[v].steady]
    BY <1>2, <1>6
  <2>2. x \in [stage : {"match"}, name : Asked, steady : BOOLEAN]
    BY <1>1, <1>6, <2>1
  <2>3. x \in Visits
    BY <2>2 DEF Visits
  <2> QED  BY <1>3, <1>6, <2>1, <2>3 DEF Follows
<1>7. CASE ~(name # NoName /\ current.enabled)
  <2>1. x = [stage |-> "passed", name |-> name, steady |-> visit[v].steady]
    BY <1>2, <1>7
  <2>2. x \in [stage : {"passed"}, name : Asked \cup {NoName}, steady : BOOLEAN]
    BY <1>1, <2>1
  <2>3. x \in Visits
    BY <2>2 DEF Visits
  <2>4. \A d \in Wanted(current) : name \notin BlockHostnames(d)
    BY <1>4, <1>5, <1>7 DEF Wanted
  <2> QED  BY <1>3, <2>1, <2>3, <2>4 DEF Follows
<1> QED  BY <1>6, <1>7

LEMMA CloseFollows == \A e \in Ended : Close(e) \in Visits /\ Follows(Close(e))
  BY DEF Close, Quiet, Visits, Follows

LEMMA AskedRequest ==
  ASSUME AttemptsInv, NEW v \in Visitors, Stage(v) = "asked"
  PROVE  /\ visit[v].q \in Requests80 \cup Requests443
         /\ visit[v].q.name \in Asked \cup {NoName}
         /\ ~visit[v].q.tls => visit[v].q.path \in {"/", "/health", "/other"}
<1>1. visit[v] \in Visits
  BY DEF AttemptsInv, VisitsTyped
<1>2. visit[v].q \in Requests80 \cup Requests443
  BY <1>1 DEF Visits, Stage, Ended
<1> QED  BY <1>2, AttemptsAssumption DEF Requests80, Requests443

LEMMA ServeInv ==
  ASSUME AttemptsInv, NEW v \in Visitors, ServeHttp(v) \/ ServeHttps(v) PROVE AttemptsInv'
<1>1. /\ Stage(v) = "asked" /\ UNCHANGED <<agentVars, recent, rows, minute>>
  BY DEF ServeHttp, ServeHttps
<1>2. \E x \in {Close("alive"), Close("page"), Close("closed"), ToPolicy(v)} :
        visit' = [visit EXCEPT ![v] = x]
  BY <1>1, AskedRequest DEF ServeHttp, ServeHttps
<1>3. \A x \in {Close("alive"), Close("page"), Close("closed"), ToPolicy(v)} :
        x \in Visits /\ Follows(x)
  <2>1. {"alive", "page", "closed"} \subseteq Ended
    BY DEF Ended
  <2> QED  BY <1>1, <2>1, CloseFollows, ToPolicyFollows, AskedRequest
<1> QED  BY <1>1, <1>2, <1>3, QuietStep

LEMMA MatchInv == ASSUME AttemptsInv, NEW v \in Visitors, Match(v) PROVE AttemptsInv'
<1> DEFINE name == visit[v].name  steady == visit[v].steady
           judged == Verdicts(name, current.domains)
<1>1. /\ name \in Asked /\ steady \in BOOLEAN /\ Follows(visit[v])
      /\ visit[v] \in [stage : {"match"}, name : Asked, steady : BOOLEAN]
      /\ UNCHANGED <<agentVars, recent, rows, minute>>
  BY DEF AttemptsInv, VisitsTyped, Visits, Match, Stage, Ended
<1>2. steady => applied = current.version /\ Wanted(current) = current.domains
  BY <1>1 DEF Follows, Ended, Wanted
<1>3. current.domains \in SUBSET Names
  BY DEF AttemptsInv, IInv, AgentTypeOK, Policy, Default
<1>4. CASE judged = {} /\ visit' = [visit EXCEPT ![v].stage = "passed"]
  <2> DEFINE x == [visit[v] EXCEPT !.stage = "passed"]
  <2>1. /\ x \in [stage : {"passed"}, name : Asked, steady : BOOLEAN]
        /\ x.name = name /\ x.steady = steady /\ x.stage = "passed"
    BY <1>1
  <2>2. x \in Visits
    BY <2>1 DEF Visits
  <2>3. \A d \in current.domains : name \notin BlockHostnames(d)
    BY <1>1, <1>3, <1>4, LabelledType, NoVerdictNoRedirect
  <2>4. Follows(x)
    BY <1>2, <2>1, <2>3 DEF Follows
  <2> QED  BY <1>1, <1>4, <2>2, <2>4, QuietStep
<1>5. ASSUME NEW d \in judged,
             visit' = [visit EXCEPT ![v] = [stage |-> "blocked", steady |-> @.steady, domain |-> d]]
      PROVE  AttemptsInv'
  <2> DEFINE x == [stage |-> "blocked", steady |-> steady, domain |-> d]
  <2>1. d \in Blockable /\ {d, Www(d)} \cap current.domains # {}
    BY <1>1, <1>3, VerdictIsBlocked DEF Blockable
  <2>2. x \in Visits /\ Follows(x)
    BY <1>1, <1>2, <2>1 DEF Visits, Follows
  <2> QED  BY <1>1, <1>5, <2>2, QuietStep
<1> QED  BY <1>4, <1>5 DEF Match

\* The newest entry comes first, and the others stay unless the list is full.
WithNewest(list, e) ==
  SubSeq(<<e>> \o list, 1, IF Len(list) < MaxRecent THEN Len(list) + 1 ELSE MaxRecent)

LEMMA NewestFirst ==
  ASSUME NEW list \in Seq(Entries), Len(list) <= MaxRecent, NEW e \in Entries
  PROVE  LET next == WithNewest(list, e)
         IN  /\ next \in Seq(Entries) /\ Len(next) <= MaxRecent
             /\ 1 \in DOMAIN next /\ next[1] = e
             /\ Len(list) = MaxRecent => Len(next) = MaxRecent
             /\ Len(list) < MaxRecent =>
                  \A i \in DOMAIN list : i + 1 \in DOMAIN next /\ next[i + 1] = list[i]
<1> DEFINE all == <<e>> \o list
           n == IF Len(list) < MaxRecent THEN Len(list) + 1 ELSE MaxRecent
           next == WithNewest(list, e)
<1>1. <<e>> \in Seq(Entries) /\ Len(<<e>>) = 1 /\ <<e>>[1] = e
  OBVIOUS
<1>2. Len(list) \in Nat /\ DOMAIN list = 1..Len(list)
  BY LenProperties
<1>3. /\ all \in Seq(Entries) /\ Len(all) = Len(list) + 1
      /\ \A i \in 1..Len(list) + 1 : all[i] = IF i <= 1 THEN e ELSE list[i - 1]
  BY <1>1, <1>2, ConcatProperties
<1>4. n \in Nat \ {0} /\ n <= MaxRecent /\ n <= Len(all)
  BY <1>2, <1>3, AttemptsAssumption
<1>5. \A i \in 1..n : all[i] \in Entries
  BY <1>3, <1>4, ElementOfSeq
<1>6. next = SubSeq(all, 1, n)
  BY DEF WithNewest
<1>7. Len(list) = MaxRecent => n = MaxRecent
  OBVIOUS
<1>8. Len(list) < MaxRecent => n = Len(list) + 1
  OBVIOUS
<1> HIDE DEF all, n, next
<1>9. /\ next \in Seq(Entries) /\ Len(next) = n /\ DOMAIN next = 1..n
      /\ \A i \in 1..n : next[i] = all[i]
  <2>1. /\ SubSeq(all, 1, n) \in Seq(Entries) /\ Len(SubSeq(all, 1, n)) = n
        /\ \A i \in 1..n : SubSeq(all, 1, n)[i] = all[i]
    BY <1>4, <1>5, SubSeqProperties
  <2> QED  BY <1>6, <2>1, LenProperties
<1>10. 1 \in 1..n /\ all[1] = e
  BY <1>2, <1>3, <1>4
<1>11. ASSUME Len(list) < MaxRecent, NEW i \in DOMAIN list
       PROVE  i + 1 \in DOMAIN next /\ next[i + 1] = list[i]
  <2>1. i + 1 \in 1..n /\ i + 1 \in 1..Len(list) + 1 /\ ~(i + 1 <= 1) /\ (i + 1) - 1 = i
    BY <1>2, <1>8, <1>11
  <2> QED  BY <1>3, <1>9, <2>1
<1> QED  BY <1>4, <1>7, <1>9, <1>10, <1>11 DEF next

LEMMA NoteInv == ASSUME AttemptsInv, NEW v \in Visitors, Note(v) PROVE AttemptsInv'
<1>1. /\ visit[v] \in [stage : {"blocked"}, steady : BOOLEAN, domain : Blockable]
      /\ Follows(visit[v]) /\ UNCHANGED <<agentVars, rows, minute>>
      /\ applied \in Marks
  BY DEF AttemptsInv, VisitsTyped, Visits, Note, Stage, Ended, IInv, AgentTypeOK, Marks
<1>2. PICK d \in Blockable, steady \in BOOLEAN :
        visit[v].domain = d /\ visit[v].steady = steady
  BY <1>1
<1>3. PICK e \in Entries : e = [domain |-> d, version |-> applied]
  BY <1>1 DEF Entries
<1>4. PICK x : x = [visit[v] EXCEPT !.stage = "noted"]
  OBVIOUS
<1>5. /\ x \in [stage : {"noted"}, steady : BOOLEAN, domain : Blockable]
      /\ x.stage = "noted" /\ x.steady = steady /\ x.domain = d
  BY <1>1, <1>2, <1>4
<1>6. x \in Visits
  BY <1>5 DEF Visits
<1>7. current' = current /\ applied' = applied
  BY <1>1 DEF agentVars, memory
<1>8. recent \in Seq(Entries) /\ Len(recent) <= MaxRecent /\ recent' = WithNewest(recent, e)
  BY <1>2, <1>3 DEF AttemptsInv, VisitsTyped, Note, WithNewest
<1>9. /\ recent' \in Seq(Entries) /\ Len(recent') <= MaxRecent
      /\ 1 \in DOMAIN recent' /\ recent'[1] = e
      /\ Len(recent) = MaxRecent => Len(recent') = MaxRecent
      /\ Len(recent) < MaxRecent =>
           \A i \in DOMAIN recent : i + 1 \in DOMAIN recent' /\ recent'[i + 1] = recent[i]
  BY <1>8, NewestFirst
<1>10. ListKept
  <2>1. Len(recent) = MaxRecent \/ Len(recent) < MaxRecent
    BY <1>8, LenProperties, AttemptsAssumption
  <2> QED  BY <1>7, <1>9, <2>1 DEF ListKept, NotedAs
<1>11. TableKept
  BY <1>1, <1>7, SameRows
<1>12. Follows(x)'
  <2>1. steady => applied = current.version /\ {d, Www(d)} \cap Wanted(current) # {}
    BY <1>1, <1>2 DEF Follows, Ended
  <2>2. steady => e = [domain |-> d, version |-> current'.version]
    BY <1>3, <1>7, <2>1
  <2>3. steady => NotedAs(d)'
    BY <1>9, <2>2 DEF NotedAs
  <2>4. Wanted(current)' = Wanted(current)
    BY <1>7 DEF Wanted
  <2> QED  BY <1>5, <1>7, <2>1, <2>3, <2>4 DEF Follows
<1>13. visit' = [visit EXCEPT ![v] = x]
  BY <1>4 DEF Note
<1> QED  BY <1>1, <1>6, <1>9, <1>10, <1>11, <1>12, <1>13, VisitStep DEF AttemptsInv, VisitsTyped

LEMMA ReportInv ==
  ASSUME AttemptsInv, NEW v \in Visitors, Report(v) \/ ReportFails(v) PROVE AttemptsInv'
<1>1. visit[v] \in Visits /\ Follows(visit[v]) /\ UNCHANGED <<agentVars, recent, rows, minute>>
  BY DEF AttemptsInv, VisitsTyped, Report, ReportFails
<1>2. CASE Report(v)
  <2> DEFINE x == [stage |-> "sent", steady |-> visit[v].steady, domain |-> visit[v].domain,
                   version |-> applied]
  <2>1. visit[v] \in [stage : {"noted"}, steady : BOOLEAN, domain : Blockable]
    BY <1>1, <1>2 DEF Report, Stage, Visits, Ended
  <2>2. applied \in Marks
    BY DEF AttemptsInv, IInv, AgentTypeOK, Marks
  <2>3. x \in Visits
    BY <2>1, <2>2 DEF Visits
  <2>4. Follows(x)
    BY <1>1, <2>1 DEF Follows, Ended
  <2> QED  BY <1>1, <1>2, <2>3, <2>4, QuietStep DEF Report
<1>3. CASE ReportFails(v)
  <2> DEFINE x == Refused(v, FALSE)
  <2>1. /\ visit[v].stage = "sent"
        /\ visit[v] \in [stage : {"sent"}, steady : BOOLEAN, domain : Blockable, version : Marks]
    BY <1>1, <1>3 DEF ReportFails, Stage, Visits, Ended
  <2>2. x \in Visits /\ Follows(x)
    BY <1>1, <2>1 DEF Refused, Visits, Follows, Ended
  <2>3. visit' = [visit EXCEPT ![v] = x]
    BY <1>3 DEF ReportFails
  <2> QED  BY <1>1, <2>2, <2>3, QuietStep
<1> QED  BY <1>2, <1>3

LEMMA LookForRowInv == ASSUME AttemptsInv, NEW v \in Visitors, LookForRow(v) PROVE AttemptsInv'
<1> DEFINE key == [domain |-> visit[v].domain, version |-> visit[v].version, minute |-> minute]
<1>1. /\ visit[v] \in [stage : {"sent"}, steady : BOOLEAN, domain : Blockable, version : Marks]
      /\ Follows(visit[v]) /\ UNCHANGED <<agentVars, recent, rows, minute>>
  BY DEF AttemptsInv, VisitsTyped, Visits, LookForRow, Stage, Ended
<1>2. key \in Keys /\ key.domain = visit[v].domain /\ key.version = visit[v].version
  BY <1>1 DEF AttemptsInv, VisitsTyped, Keys, Blockable, Marks
<1>3. rows[key] \in {0, 1}
  BY <1>2 DEF AttemptsInv, VisitsTyped
<1>4. CASE rows[key] > 0
  <2> DEFINE x == Refused(v, TRUE)
  <2>1. /\ x.stage = "refused" /\ x.steady = visit[v].steady /\ x.domain = visit[v].domain
        /\ x \in Visits
    BY <1>1 DEF Refused, Visits
  <2>2. visit' = [visit EXCEPT ![v] = x]
    BY <1>4 DEF LookForRow
  <2>4. visit[v].steady => LoggedAs(visit[v].domain)
    <3>1. rows[key] = 1
      BY <1>3, <1>4
    <3>2. visit[v].steady => visit[v].version = current.version
      BY <1>1 DEF Follows, Ended
    <3> HIDE DEF key
    <3> QED  BY <1>2, <3>1, <3>2 DEF LoggedAs
  <2> HIDE DEF x, key
  <2>5. Follows(x)
    BY <1>1, <2>1, <2>4 DEF Follows, Ended
  <2> QED  BY <1>1, <2>1, <2>2, <2>5, QuietStep
<1>5. CASE ~(rows[key] > 0)
  <2> DEFINE x == [stage |-> "insert", steady |-> visit[v].steady, domain |-> visit[v].domain,
                   key |-> key]
  <2>1. visit' = [visit EXCEPT ![v] = x]
    BY <1>5 DEF LookForRow
  <2> HIDE DEF key
  <2>2. x \in [stage : {"insert"}, steady : BOOLEAN, domain : Blockable, key : Keys]
    BY <1>1, <1>2
  <2>3. x \in Visits
    BY <2>2 DEF Visits
  <2>4. Follows(x)
    BY <1>1, <1>2 DEF Follows, Ended
  <2> QED  BY <1>1, <2>1, <2>3, <2>4, QuietStep
<1> QED  BY <1>4, <1>5

\* Of two inserts of one key the second finds the first's row, which will do as well.
LEMMA InsertRowInv ==
  ASSUME AttemptsInv, NEW v \in Visitors, InsertRow(v) \/ InsertRowFails(v) PROVE AttemptsInv'
<1>1. /\ visit[v] \in [stage : {"insert"}, steady : BOOLEAN, domain : Blockable, key : Keys]
      /\ Follows(visit[v]) /\ UNCHANGED <<agentVars, recent, minute>>
  BY DEF AttemptsInv, VisitsTyped, Visits, InsertRow, InsertRowFails, Stage, Ended
<1>2. UNCHANGED <<current, applied>>
  BY <1>1 DEF agentVars, memory
<1>3. ListKept
  BY <1>1, <1>2, SameNotes
<1>4. PICK key \in Keys : visit[v].key = key
  BY <1>1
<1>5. CASE InsertRow(v)
  <2>1. PICK x : x = Refused(v, TRUE)
    OBVIOUS
  <2>2. x.stage = "refused" /\ x.steady = visit[v].steady /\ x.domain = visit[v].domain
    BY <2>1 DEF Refused
  <2>3. x \in Visits
    BY <1>1, <2>1 DEF Refused, Visits
  <2>4. visit' = [visit EXCEPT ![v] = x]
    BY <1>5, <2>1 DEF InsertRow, AttemptsInv, VisitsTyped
  <2>5. /\ rows' \in [Keys -> {0, 1}] /\ rows'[key] = 1
        /\ \A k \in Keys : rows[k] = 1 => rows'[k] = 1
    BY <1>4, <1>5 DEF InsertRow, AttemptsInv, VisitsTyped
  <2>6. TableKept
    BY <1>2, <2>5 DEF TableKept, LoggedAs
  <2>7. Follows(x)'
    <3>1. visit[v].steady =>
            /\ applied = current.version
            /\ {x.domain, Www(x.domain)} \cap Wanted(current) # {}
            /\ NotedAs(x.domain) /\ key.domain = x.domain /\ key.version = current.version
      BY <1>1, <1>4, <2>2 DEF Follows, Ended
    <3>2. Wanted(current)' = Wanted(current)
      BY <1>2 DEF Wanted
    <3>3. x.domain \in Blockable
      BY <1>1, <2>2
    <3>4. visit[v].steady => NotedAs(x.domain)' /\ LoggedAs(x.domain)'
      BY <1>2, <1>3, <2>5, <3>1, <3>3 DEF ListKept, LoggedAs
    <3> QED  BY <1>2, <2>2, <3>1, <3>2, <3>4 DEF Follows
  <2> QED  BY <1>1, <1>3, <2>3, <2>4, <2>5, <2>6, <2>7, VisitStep DEF AttemptsInv, VisitsTyped
<1>6. CASE InsertRowFails(v)
  <2> DEFINE x == Refused(v, FALSE)
  <2>1. visit' = [visit EXCEPT ![v] = x] /\ UNCHANGED rows
    BY <1>6 DEF InsertRowFails
  <2>2. x \in Visits /\ Follows(x)
    BY <1>1 DEF Refused, Visits, Follows, Ended
  <2> QED  BY <1>1, <2>1, <2>2, QuietStep
<1> QED  BY <1>5, <1>6

LEMMA MinutePassesInv == ASSUME AttemptsInv, MinutePasses PROVE AttemptsInv'
<1>1. UNCHANGED <<agentVars, visit, recent, rows>> /\ minute' \in Minutes
  BY AttemptsAssumption DEF MinutePasses, AttemptsInv, VisitsTyped, Minutes
<1>2. UNCHANGED <<current, applied>> /\ IInv'
  BY <1>1, NextInv DEF AttemptsInv, agentVars, memory
<1>3. \A v \in Visitors : Follows(visit[v])'
  BY <1>1, <1>2 DEF AttemptsInv, Follows, NotedAs, LoggedAs, Wanted
<1> QED  BY <1>1, <1>2, <1>3 DEF AttemptsInv, VisitsTyped

LEMMA UnsteadyVisit ==
  \A x \in Visits : [x EXCEPT !.steady = FALSE] \in Visits /\ ~[x EXCEPT !.steady = FALSE].steady
<1> SUFFICES ASSUME NEW x \in Visits
             PROVE  [x EXCEPT !.steady = FALSE] \in Visits /\ ~[x EXCEPT !.steady = FALSE].steady
  OBVIOUS
<1> DEFINE y == [x EXCEPT !.steady = FALSE]
<1>1. CASE x \in [stage : Ended, steady : BOOLEAN]
  <2>1. y \in [stage : Ended, steady : BOOLEAN] /\ ~y.steady
    BY <1>1
  <2> QED  BY <2>1 DEF Visits
<1>2. CASE x \in [stage : {"asked"}, q : Requests80 \cup Requests443, steady : BOOLEAN]
  <2>1. y \in [stage : {"asked"}, q : Requests80 \cup Requests443, steady : BOOLEAN] /\ ~y.steady
    BY <1>2
  <2> QED  BY <2>1 DEF Visits
<1>3. CASE x \in [stage : {"match"}, name : Asked, steady : BOOLEAN]
  <2>1. y \in [stage : {"match"}, name : Asked, steady : BOOLEAN] /\ ~y.steady
    BY <1>3
  <2> QED  BY <2>1 DEF Visits
<1>4. CASE x \in [stage : {"passed"}, name : Asked \cup {NoName}, steady : BOOLEAN]
  <2>1. y \in [stage : {"passed"}, name : Asked \cup {NoName}, steady : BOOLEAN] /\ ~y.steady
    BY <1>4
  <2> QED  BY <2>1 DEF Visits
<1>5. CASE x \in [stage : {"blocked", "noted"}, steady : BOOLEAN, domain : Blockable]
  <2>1. y \in [stage : {"blocked", "noted"}, steady : BOOLEAN, domain : Blockable] /\ ~y.steady
    BY <1>5
  <2> QED  BY <2>1 DEF Visits
<1>6. CASE x \in [stage : {"sent"}, steady : BOOLEAN, domain : Blockable, version : Marks]
  <2>1. /\ y \in [stage : {"sent"}, steady : BOOLEAN, domain : Blockable, version : Marks]
        /\ ~y.steady
    BY <1>6
  <2> QED  BY <2>1 DEF Visits
<1>7. CASE x \in [stage : {"insert"}, steady : BOOLEAN, domain : Blockable, key : Keys]
  <2>1. y \in [stage : {"insert"}, steady : BOOLEAN, domain : Blockable, key : Keys] /\ ~y.steady
    BY <1>7
  <2> QED  BY <2>1 DEF Visits
<1>8. CASE x \in [stage : {"refused"}, steady : BOOLEAN, domain : Blockable, logged : BOOLEAN]
  <2>1. /\ y \in [stage : {"refused"}, steady : BOOLEAN, domain : Blockable, logged : BOOLEAN]
        /\ ~y.steady
    BY <1>8
  <2> QED  BY <2>1 DEF Visits
<1> QED  BY <1>1, <1>2, <1>3, <1>4, <1>5, <1>6, <1>7, <1>8 DEF Visits

\* A visit that goes on while the policy or its version changes is no longer steady.
LEMMA AgentStepInv == ASSUME AttemptsInv, AgentStep PROVE AttemptsInv'
<1> DEFINE same == <<current, applied>>' = <<current, applied>>
<1>1. IInv'
  <2>1. AgentNext
    BY DEF AgentStep, AgentNext
  <2> QED  BY <2>1, NextInv DEF AttemptsInv
<1>2. /\ UNCHANGED <<recent, rows, minute>>
      /\ visit' = [v \in Visitors |-> IF Stage(v) \in Ended \/ same THEN visit[v]
                                      ELSE [visit[v] EXCEPT !.steady = FALSE]]
  BY DEF AgentStep
<1>3. ASSUME NEW v \in Visitors PROVE visit'[v] \in Visits /\ Follows(visit[v])'
  <2>1. visit[v] \in Visits /\ Follows(visit[v])
    BY DEF AttemptsInv, VisitsTyped
  <2>2. CASE Stage(v) \in Ended
    BY <1>2, <2>1, <2>2 DEF Stage, Follows
  <2>3. CASE Stage(v) \notin Ended /\ same
    <3>1. visit'[v] = visit[v] /\ UNCHANGED <<current, applied>>
      BY <1>2, <2>3
    <3> QED  BY <1>2, <2>1, <3>1 DEF Follows, NotedAs, LoggedAs, Wanted
  <2>4. CASE Stage(v) \notin Ended /\ ~same
    <3> DEFINE x == [visit[v] EXCEPT !.steady = FALSE]
    <3>1. visit'[v] = x
      BY <1>2, <2>4
    <3>2. x \in Visits /\ ~x.steady
      BY <2>1, UnsteadyVisit
    <3> QED  BY <3>1, <3>2 DEF Follows
  <2> QED  BY <2>2, <2>3, <2>4
<1>4. visit' \in [Visitors -> Visits]
  BY <1>2, <1>3
<1>5. VisitsTyped'
  BY <1>2, <1>4 DEF AttemptsInv, VisitsTyped
<1> QED  BY <1>1, <1>3, <1>5 DEF AttemptsInv

LEMMA AttemptsNextInv ==
  AttemptsInv /\ [AttemptsNext]_<<agentVars, attemptVars>> => AttemptsInv'
<1> SUFFICES ASSUME AttemptsInv, [AttemptsNext]_<<agentVars, attemptVars>> PROVE AttemptsInv'
  OBVIOUS
<1>1. CASE UNCHANGED <<agentVars, attemptVars>>
  <2>1. IInv' /\ UNCHANGED <<current, applied, visit, recent, rows, minute>>
    BY <1>1, NextInv DEF AttemptsInv, agentVars, memory, attemptVars
  <2> QED  BY <2>1 DEF AttemptsInv, VisitsTyped, Follows, NotedAs, LoggedAs, Wanted
<1>2. CASE AttemptsNext
  BY <1>2, AgentStepInv, MinutePassesInv, ConnectInv, ServeInv, MatchInv, NoteInv, ReportInv,
     LookForRowInv, InsertRowInv DEF AttemptsNext
<1> QED  BY <1>1, <1>2

\* Types, rows and what every steady visit has come to, for any number of visitors.
THEOREM AttemptsInvariance == AttemptsSpec => []AttemptsInv
<1> QED  BY AttemptsInitInv, AttemptsNextInv, PTL DEF AttemptsSpec

\* A visit under one policy is refused exactly as that policy says, and what the agent
\* lists and the Master logs of it bears that policy's version.
THEOREM VisitsAreJudged == AttemptsSpec => []VisitsFollowPolicy
<1>1. ASSUME AttemptsInv PROVE VisitsFollowPolicy
  <2> SUFFICES ASSUME NEW v \in Visitors, Stage(v) \notin Ended, visit[v].steady
               PROVE  /\ Stage(v) = "passed" =>
                           \A d \in Wanted(current) : visit[v].name \notin BlockHostnames(d)
                      /\ Stage(v) = "refused" =>
                           /\ {visit[v].domain, Www(visit[v].domain)} \cap Wanted(current) # {}
                           /\ NotedAs(visit[v].domain)
                           /\ visit[v].logged =>
                                \E m \in Minutes :
                                  rows[[domain |-> visit[v].domain, version |-> current.version,
                                        minute |-> m]] = 1
    BY DEF VisitsFollowPolicy, NotedAs
  <2>1. Follows(visit[v])
    BY <1>1 DEF AttemptsInv
  <2>2. ASSUME NEW d, LoggedAs(d)
        PROVE  \E m \in Minutes :
                 rows[[domain |-> d, version |-> current.version, minute |-> m]] = 1
    <3>1. PICK k \in Keys : rows[k] = 1 /\ k.domain = d /\ k.version = current.version
      BY <2>2 DEF LoggedAs
    <3>2. k = [domain |-> d, version |-> current.version, minute |-> k.minute]
          /\ k.minute \in Minutes
      BY <3>1 DEF Keys
    <3> QED  BY <3>1, <3>2
  <2> QED  BY <2>1, <2>2 DEF Follows, Stage
<1> QED  BY <1>1, AttemptsInvariance, PTL

(***************************************************************************)
(* The uplink of events.                                                   *)
(***************************************************************************)
Payloads == Seq(Events)
Work == [does : {"idle", "send", "wait", "flush", "putback", "replace"}, payload : Payloads,
         flushing : BOOLEAN, tries : 0..MaxTries - 1, keep : Seq(Payloads)]
Sent == [owner : Workers, events : Payloads, missing : SUBSET Events,
         stage : {"look", "write"}, awaited : BOOLEAN]

UplinkTyped ==
  /\ worker \in [Workers -> Work] /\ buffer \in Seq(Payloads)
  /\ request \in [Requests -> Sent \cup {NoRequest}]
  /\ stored \in [Events -> Nat] /\ collected \subseteq Events
  /\ open \subseteq Apps /\ reported \subseteq Apps
  /\ IsFiniteSet(open) /\ IsFiniteSet(reported)
  /\ changed \in 0..MaxAppChanges /\ clock \in 0..changed
  /\ open # reported => clock < changed

\* A worker has a payload only while it sends it or puts it back, and a buffer in
\* hand only to put it in place.
Handed(x) ==
  /\ x.does \in {"idle", "flush", "replace"} => x.payload = <<>>
  /\ x.does # "replace" => x.keep = <<>>

AtMaster(r) == request[r] # NoRequest
AwaitedBy(r, w) == AtMaster(r) /\ request[r].awaited /\ request[r].owner = w

\* A worker waits for the one answer that is still to come, about the payload it has.
Expected(r) ==
  AtMaster(r) /\ request[r].awaited =>
    /\ worker[request[r].owner].does = "wait"
    /\ worker[request[r].owner].payload = request[r].events
    /\ \A o \in Requests \ {r} : ~AwaitedBy(o, request[r].owner)

\* What a request found missing has no row, unless it has been at the Master twice; and
\* two requests with one event have overlapped.
Missed(r) ==
  AtMaster(r) => \A e \in request[r].missing :
    e \in ToSet(request[r].events) /\ (stored[e] = 0 \/ e \in overlapped)
Overlapping(r, o) ==
  AtMaster(r) /\ AtMaster(o) /\ r # o =>
    ToSet(request[r].events) \cap ToSet(request[o].events) \subseteq overlapped

RequestsInv ==
  /\ \A r \in Requests : Expected(r) /\ Missed(r)
  /\ \A r, o \in Requests : Overlapping(r, o)

UplinkInv ==
  /\ UplinkTyped /\ RequestsInv
  /\ \A w \in Workers : Handed(worker[w])
  /\ EventsAreAccountedFor /\ StoredOnceUnlessOverlapping

(* What the sequences hold. *)

LEMMA ToSetType == ASSUME NEW p \in Payloads PROVE ToSet(p) \subseteq Events
  BY LenProperties, ElementOfSeq DEF ToSet, Payloads

LEMMA EventsOfType == ASSUME NEW s \in Seq(Payloads) PROVE EventsOf(s) \subseteq Events
<1>1. \A i \in DOMAIN s : s[i] \in Payloads
  BY LenProperties, ElementOfSeq
<1> QED  BY <1>1, ToSetType DEF EventsOf

LEMMA NothingIn == ToSet(<<>>) = {} /\ EventsOf(<<>>) = {}
  BY DEF ToSet, EventsOf

LEMMA EventsOfAppend ==
  ASSUME NEW s \in Seq(Payloads), NEW p \in Payloads
  PROVE  /\ Append(s, p) \in Seq(Payloads)
         /\ EventsOf(Append(s, p)) = EventsOf(s) \cup ToSet(p)
<1> DEFINE c == Append(s, p)
<1>1. /\ c \in Seq(Payloads) /\ Len(c) = Len(s) + 1
      /\ \A i \in 1..Len(s) : c[i] = s[i]
      /\ c[Len(s) + 1] = p
  BY AppendProperties
<1> HIDE DEF c
<1>2. Len(s) \in Nat /\ DOMAIN s = 1..Len(s) /\ DOMAIN c = 1..Len(s) + 1
  BY <1>1, LenProperties
<1>3. \A i \in DOMAIN c : (i \in DOMAIN s /\ c[i] = s[i]) \/ i = Len(s) + 1
  BY <1>1, <1>2
<1>4. ASSUME NEW e \in EventsOf(c) PROVE e \in EventsOf(s) \cup ToSet(p)
  <2>1. PICK i \in DOMAIN c : e \in ToSet(c[i])
    BY <1>4 DEF EventsOf
  <2> QED  BY <1>1, <1>3, <2>1 DEF EventsOf
<1>5. ASSUME NEW e \in EventsOf(s) \cup ToSet(p) PROVE e \in EventsOf(c)
  <2>1. CASE e \in ToSet(p)
    <3>1. Len(s) + 1 \in DOMAIN c
      BY <1>2
    <3> QED  BY <1>1, <2>1, <3>1 DEF EventsOf
  <2>2. CASE e \in EventsOf(s)
    <3>1. PICK i \in DOMAIN s : e \in ToSet(s[i])
      BY <2>2 DEF EventsOf
    <3>2. i \in DOMAIN c /\ c[i] = s[i]
      BY <1>1, <1>2
    <3> QED  BY <3>1, <3>2 DEF EventsOf
  <2> QED  BY <1>5, <2>1, <2>2
<1> QED  BY <1>1, <1>4, <1>5 DEF c

LEMMA EventsOfHeadTail ==
  ASSUME NEW s \in Seq(Payloads), s # <<>>
  PROVE  /\ Head(s) \in Payloads /\ Tail(s) \in Seq(Payloads)
         /\ EventsOf(s) \subseteq ToSet(Head(s)) \cup EventsOf(Tail(s))
<1>1. /\ Head(s) \in Payloads /\ Tail(s) \in Seq(Payloads) /\ Len(Tail(s)) = Len(s) - 1
      /\ \A i \in 1..Len(Tail(s)) : Tail(s)[i] = s[i + 1]
  BY HeadTailProperties
<1>2. /\ Len(s) \in Nat /\ Len(s) # 0 /\ DOMAIN s = 1..Len(s)
      /\ DOMAIN Tail(s) = 1..Len(Tail(s))
  BY <1>1, LenProperties, EmptySeq
<1>3. Head(s) = s[1]
  OBVIOUS
<1>4. ASSUME NEW e \in EventsOf(s) PROVE e \in ToSet(Head(s)) \cup EventsOf(Tail(s))
  <2>1. PICK i \in DOMAIN s : e \in ToSet(s[i])
    BY <1>4 DEF EventsOf
  <2>2. CASE i = 1
    BY <1>3, <2>1, <2>2
  <2>3. CASE i # 1
    <3>1. i - 1 \in 1..Len(Tail(s)) /\ (i - 1) + 1 = i
      BY <1>1, <1>2, <2>3
    <3>2. i - 1 \in DOMAIN Tail(s) /\ Tail(s)[i - 1] = s[i]
      BY <1>1, <1>2, <3>1
    <3> QED  BY <2>1, <3>2 DEF EventsOf
  <2> QED  BY <2>2, <2>3
<1> QED  BY <1>1, <1>4

LEMMA EventsOfCons ==
  ASSUME NEW p \in Payloads, NEW s \in Seq(Payloads)
  PROVE  /\ <<p>> \o s \in Seq(Payloads)
         /\ ToSet(p) \cup EventsOf(s) \subseteq EventsOf(<<p>> \o s)
<1> DEFINE c == <<p>> \o s
<1>1. <<p>> \in Seq(Payloads) /\ Len(<<p>>) = 1 /\ <<p>>[1] = p
  OBVIOUS
<1>2. Len(s) \in Nat /\ DOMAIN s = 1..Len(s)
  BY LenProperties
<1>3. /\ c \in Seq(Payloads) /\ Len(c) = Len(s) + 1
      /\ \A i \in 1..Len(s) + 1 : c[i] = IF i <= 1 THEN <<p>>[i] ELSE s[i - 1]
  BY <1>1, <1>2, ConcatProperties
<1> HIDE DEF c
<1>4. DOMAIN c = 1..Len(s) + 1
  BY <1>3, LenProperties
<1>5. 1 \in DOMAIN c /\ c[1] = p
  BY <1>1, <1>2, <1>3, <1>4
<1>6. \A i \in DOMAIN s : i + 1 \in DOMAIN c /\ c[i + 1] = s[i]
  <2> SUFFICES ASSUME NEW i \in DOMAIN s PROVE i + 1 \in DOMAIN c /\ c[i + 1] = s[i]
    OBVIOUS
  <2>1. i + 1 \in 1..Len(s) + 1 /\ ~(i + 1 <= 1) /\ (i + 1) - 1 = i
    BY <1>2
  <2> QED  BY <1>3, <1>4, <2>1
<1>7. ToSet(p) \subseteq EventsOf(c)
  BY <1>5 DEF EventsOf
<1>8. EventsOf(s) \subseteq EventsOf(c)
  BY <1>6 DEF EventsOf
<1> QED  BY <1>3, <1>7, <1>8 DEF c

LEMMA BoundedType == ASSUME NEW s \in Seq(Payloads) PROVE Bounded(s) \in Seq(Payloads)
<1>1. Len(s) \in Nat
  BY LenProperties
<1>2. CASE Len(s) > MaxBuffer
  <2>1. Len(s) - MaxBuffer + 1 \in Int /\ \A i \in Len(s) - MaxBuffer + 1..Len(s) : i \in 1..Len(s)
    BY <1>1, <1>2, UplinkAssumption
  <2>2. \A i \in Len(s) - MaxBuffer + 1..Len(s) : s[i] \in Payloads
    BY <2>1, ElementOfSeq
  <2>3. Newest(s) \in Seq(Payloads)
    BY <1>1, <2>1, <2>2, SubSeqProperties DEF Newest
  <2> QED  BY <1>2, <2>3 DEF Bounded
<1> QED  BY <1>2 DEF Bounded

\* A scan's events are put in some order, none left out.
LEMMA SetToSeqType ==
  ASSUME NEW S \in SUBSET Events, IsFiniteSet(S)
  PROVE  SetToSeq(S) \in Payloads /\ ToSet(SetToSeq(S)) = S
<1> DEFINE n == Cardinality(S)
           f == SetToSeq(S)
<1>1. n \in Nat /\ ExistsBijection(1..n, S)
  BY FS_CardinalityType
<1>2. \E g \in [1..n -> S] : IsInjective(g)
  BY <1>1 DEF ExistsBijection, Bijection, Injection
<1>3. f \in [1..n -> S] /\ IsInjective(f)
  BY <1>2 DEF SetToSeq
<1>4. f \in Injection(1..n, S)
  BY <1>3 DEF Injection
<1>5. Cardinality(1..n) = n
  BY <1>1, FS_Interval
<1>6. f \in Surjection(1..n, S)
  BY <1>4, <1>5, FS_Injection
<1> HIDE DEF f, n
<1>7. f \in Seq(Events)
  BY <1>1, <1>3, SeqDef
<1>8. ToSet(f) = S
  BY <1>3, <1>6 DEF ToSet, Surjection
<1> QED  BY <1>7, <1>8 DEF Payloads, f

(* The steps. *)

Carried(x) == EventsOf(x.keep) \cup ToSet(x.payload)

\* A worker that comes to x loses nothing of what it or the buffer had.
NothingLost(w, x) ==
  \A e \in EventsOf(buffer) \cup Carried(worker[w]) :
    e.app \in blind' \/ e \in EventsOf(buffer)' \/ e \in Carried(x)

LEMMA IdleType == Idle \in Work /\ Handed(Idle) /\ Idle.does = "idle"
  BY UplinkAssumption DEF Idle, Work, Payloads, Handed

LEMMA UplinkInitInv == UplinkInit => UplinkInv
<1> SUFFICES ASSUME UplinkInit PROVE UplinkInv
  OBVIOUS
<1>1. UplinkTyped
  <2>1. worker \in [Workers -> Work] /\ buffer \in Seq(Payloads)
    BY IdleType DEF UplinkInit
  <2>2. IsFiniteSet({})
    BY FS_EmptySet
  <2> QED  BY <2>1, <2>2, UplinkAssumption DEF UplinkInit, UplinkTyped
<1>2. RequestsInv
  BY DEF UplinkInit, RequestsInv, Expected, Missed, Overlapping, AtMaster
<1>3. \A w \in Workers : Handed(worker[w])
  BY IdleType DEF UplinkInit
<1>4. EventsAreAccountedFor /\ StoredOnceUnlessOverlapping
  BY DEF UplinkInit, EventsAreAccountedFor, StoredOnceUnlessOverlapping
<1> QED  BY <1>1, <1>2, <1>3, <1>4 DEF UplinkInv

LEMMA AccountedStill ==
  ASSUME UplinkInv, NEW w \in Workers, NEW x, worker' = [worker EXCEPT ![w] = x],
         NothingLost(w, x), UNCHANGED <<stored, collected>>, blind \subseteq blind'
  PROVE  EventsAreAccountedFor'
<1> SUFFICES ASSUME NEW e \in collected
             PROVE  \/ e.app \in blind' \/ stored'[e] > 0 \/ e \in EventsOf(buffer)'
                    \/ \E v \in Workers : e \in Carried(worker'[v])
  BY DEF EventsAreAccountedFor, Carried
<1>1. \/ e.app \in blind \/ stored[e] > 0 \/ e \in EventsOf(buffer)
      \/ \E v \in Workers : e \in Carried(worker[v])
  BY DEF UplinkInv, EventsAreAccountedFor, Carried
<1>2. worker'[w] = x /\ \A v \in Workers \ {w} : worker'[v] = worker[v]
  BY DEF UplinkInv, UplinkTyped
<1> QED  BY <1>1, <1>2 DEF NothingLost

LEMMA RequestsStill ==
  ASSUME UplinkInv, NEW w \in Workers, NEW x, worker' = [worker EXCEPT ![w] = x],
         worker[w].does # "wait", UNCHANGED <<request, stored, overlapped>>
  PROVE  RequestsInv'
<1>1. \A v \in Workers \ {w} : worker'[v] = worker[v]
  BY DEF UplinkInv, UplinkTyped
<1>2. ASSUME NEW r \in Requests PROVE Expected(r)'
  <2> SUFFICES ASSUME AtMaster(r), request[r].awaited
               PROVE  /\ worker'[request[r].owner] = worker[request[r].owner]
                      /\ Expected(r)
    BY DEF Expected, AtMaster, AwaitedBy
  <2>1. Expected(r) /\ request[r].owner \in Workers
    BY DEF UplinkInv, RequestsInv, UplinkTyped, AtMaster, Sent
  <2> QED  BY <1>1, <2>1 DEF Expected
<1> QED  BY <1>2 DEF UplinkInv, RequestsInv, Missed, Overlapping, AtMaster

\* What a worker does that waits for nothing.
LEMMA ClientMoves ==
  ASSUME UplinkInv, NEW w \in Workers, NEW x \in Work, worker' = [worker EXCEPT ![w] = x],
         Handed(x), NothingLost(w, x), worker[w].does # "wait",
         UNCHANGED <<clientVars, masterVars, collected>>,
         buffer' \in Seq(Payloads), blind \subseteq blind'
  PROVE  UplinkInv'
<1>1. UplinkTyped'
  BY DEF UplinkInv, UplinkTyped, clientVars, masterVars
<1>2. RequestsInv'
  BY RequestsStill DEF masterVars
<1>3. \A v \in Workers : Handed(worker[v])'
  <2>1. \A v \in Workers : worker'[v] = IF v = w THEN x ELSE worker[v]
    BY DEF UplinkInv, UplinkTyped
  <2> QED  BY <2>1 DEF UplinkInv, Handed
<1>4. EventsAreAccountedFor'
  BY AccountedStill DEF masterVars
<1>5. StoredOnceUnlessOverlapping'
  BY DEF UplinkInv, StoredOnceUnlessOverlapping, masterVars
<1> QED  BY <1>1, <1>2, <1>3, <1>4, <1>5 DEF UplinkInv

\* Applications start and stop, and the Master goes out of reach and comes back.
LEMMA SurroundingsInv ==
  ASSUME UplinkInv, AppChanges \/ LinkChanges PROVE UplinkInv'
<1>1. UNCHANGED <<worker, buffer, request, stored, overlapped, collected, blind, reported, clock>>
  BY DEF AppChanges, LinkChanges, masterVars, clientVars
<1>2. UplinkTyped'
  <2>1. CASE AppChanges
    <3>1. PICK x \in Apps : open' = IF x \in open THEN open \ {x} ELSE open \cup {x}
      BY <2>1 DEF AppChanges
    <3>2. open' \subseteq Apps /\ IsFiniteSet(open')
      BY <3>1, FS_AddElement, FS_RemoveElement DEF UplinkInv, UplinkTyped
    <3>3. changed' \in 0..MaxAppChanges /\ clock < changed'
      BY <2>1, UplinkAssumption DEF AppChanges, UplinkInv, UplinkTyped
    <3> QED  BY <1>1, <3>2, <3>3 DEF UplinkInv, UplinkTyped
  <2>2. CASE LinkChanges
    BY <1>1, <2>2 DEF LinkChanges, clientVars, UplinkInv, UplinkTyped
  <2> QED  BY <2>1, <2>2
<1>3. RequestsInv'
  BY <1>1 DEF UplinkInv, RequestsInv, Expected, Missed, Overlapping, AtMaster, AwaitedBy
<1>4. EventsAreAccountedFor' /\ StoredOnceUnlessOverlapping'
  BY <1>1 DEF UplinkInv, EventsAreAccountedFor, StoredOnceUnlessOverlapping
<1> QED  BY <1>1, <1>2, <1>3, <1>4 DEF UplinkInv

LEMMA SampleTelemetryInv == ASSUME UplinkInv, SampleTelemetry PROVE UplinkInv'
<1> DEFINE w == "telemetry"
           x == [worker[w] EXCEPT !.does = "send", !.payload = <<>>]
<1>1. w \in Workers /\ worker[w].does = "idle" /\ worker[w] \in Work /\ Handed(worker[w])
  BY DEF SampleTelemetry, Begin, Workers, UplinkInv, UplinkTyped
<1>2. worker' = [worker EXCEPT ![w] = x]
  BY DEF SampleTelemetry, Begin
<1>3. /\ x \in Work /\ x.does = "send" /\ x.payload = <<>> /\ x.keep = worker[w].keep
      /\ worker[w].payload = <<>>
  BY <1>1 DEF Work, Payloads, Handed
<1> HIDE DEF x
<1>4. Handed(x) /\ NothingLost(w, x)
  BY <1>1, <1>3 DEF Handed, NothingLost, Carried, SampleTelemetry
<1> QED  BY <1>1, <1>2, <1>3, <1>4, ClientMoves DEF SampleTelemetry, UplinkInv, UplinkTyped

\* A scan finds finitely many changes.
LEMMA ScansAreFinite ==
  ASSUME UplinkTyped
  PROVE  IsFiniteSet([app : open \ reported, type : {"STARTED"}, at : {clock + 1}] \cup
                     [app : reported \ open, type : {"STOPPED"}, at : {clock + 1}])
<1> DEFINE news == [app : open \ reported, type : {"STARTED"}, at : {clock + 1}] \cup
                   [app : reported \ open, type : {"STOPPED"}, at : {clock + 1}]
<1>1. IsFiniteSet(open \ reported) /\ IsFiniteSet(reported \ open)
  BY FS_Subset DEF UplinkTyped
<1>2. \A S : IsFiniteSet(S) => \A t : IsFiniteSet({[app |-> m, type |-> t, at |-> clock + 1] : m \in S})
  <2> SUFFICES ASSUME NEW S, IsFiniteSet(S), NEW t
               PROVE  IsFiniteSet({[app |-> m, type |-> t, at |-> clock + 1] : m \in S})
    OBVIOUS
  <2> DEFINE g == [m \in S |-> [app |-> m, type |-> t, at |-> clock + 1]]
             T == {g[m] : m \in S}
  <2>1. g \in Surjection(S, T)
    BY DEF Surjection
  <2>2. IsFiniteSet(T)
    BY <2>1, FS_Surjection
  <2>3. T = {[app |-> m, type |-> t, at |-> clock + 1] : m \in S}
    OBVIOUS
  <2> QED  BY <2>2, <2>3
<1>3. news = {[app |-> m, type |-> "STARTED", at |-> clock + 1] : m \in open \ reported}
             \cup {[app |-> m, type |-> "STOPPED", at |-> clock + 1] : m \in reported \ open}
  OBVIOUS
<1>4. IsFiniteSet({[app |-> m, type |-> "STARTED", at |-> clock + 1] : m \in open \ reported})
  BY <1>1, <1>2
<1>5. IsFiniteSet({[app |-> m, type |-> "STOPPED", at |-> clock + 1] : m \in reported \ open})
  BY <1>1, <1>2
<1>6. IsFiniteSet(news)
  <2> HIDE DEF news
  <2> QED  BY <1>3, <1>4, <1>5, FS_Union
<1> QED  BY <1>6

\* Every event of a scan is in the payload it sends.
LEMMA ScanAppsInv == ASSUME UplinkInv, ScanApps PROVE UplinkInv'
<1> DEFINE w == "events"
           news == [app : open \ reported, type : {"STARTED"}, at : {clock + 1}] \cup
                   [app : reported \ open, type : {"STOPPED"}, at : {clock + 1}]
           x == [worker[w] EXCEPT !.does = "send", !.payload = SetToSeq(news)]
<1>1. w \in Workers /\ worker[w].does = "idle" /\ worker[w] \in Work /\ Handed(worker[w])
  BY DEF ScanApps, Begin, Workers, UplinkInv, UplinkTyped
<1>2. /\ worker' = [worker EXCEPT ![w] = x] /\ collected' = collected \cup news
      /\ news # {} /\ reported' = open /\ clock' = clock + 1
      /\ UNCHANGED <<open, changed, buffer, request, stored, overlapped, blind>>
  BY DEF ScanApps, Begin, masterVars
<1>3. open # reported /\ clock < changed
  BY <1>2 DEF UplinkInv, UplinkTyped
<1>4. news \subseteq Events
  <2>1. clock + 1 \in Times
    BY <1>3, UplinkAssumption DEF UplinkInv, UplinkTyped, Times
  <2> QED  BY <2>1 DEF Events, UplinkInv, UplinkTyped
<1>5. IsFiniteSet(news)
  BY ScansAreFinite DEF UplinkInv
<1> HIDE DEF news
<1>6. SetToSeq(news) \in Payloads /\ ToSet(SetToSeq(news)) = news
  BY <1>4, <1>5, SetToSeqType
<1>7. /\ x \in Work /\ x.does = "send" /\ x.payload = SetToSeq(news) /\ x.keep = worker[w].keep
      /\ worker[w].payload = <<>> /\ worker[w].keep = <<>>
  BY <1>1, <1>6 DEF Work, Handed
<1> HIDE DEF x
<1>8. worker'[w] = x /\ \A v \in Workers \ {w} : worker'[v] = worker[v]
  BY <1>1, <1>2 DEF UplinkInv, UplinkTyped
<1>9. UplinkTyped'
  <2>1. worker' \in [Workers -> Work]
    BY <1>2, <1>7 DEF UplinkInv, UplinkTyped
  <2>2. collected' \subseteq Events /\ clock' \in 0..changed
    BY <1>2, <1>3, <1>4 DEF UplinkInv, UplinkTyped
  <2> QED  BY <1>2, <2>1, <2>2 DEF UplinkInv, UplinkTyped
<1>10. RequestsInv'
  BY <1>1, <1>2, RequestsStill
<1>11. \A v \in Workers : Handed(worker[v])'
  BY <1>1, <1>7, <1>8 DEF UplinkInv, Handed
<1>12. EventsAreAccountedFor'
  <2>1. ASSUME NEW e \in news PROVE e \in ToSet(worker'[w].payload)
    BY <1>6, <1>7, <1>8
  <2>2. Carried(worker[w]) = {}
    BY <1>7, NothingIn DEF Carried
  <2>3. ASSUME NEW e \in collected
        PROVE  \/ e.app \in blind \/ stored[e] > 0 \/ e \in EventsOf(buffer)
               \/ \E v \in Workers \ {w} : e \in Carried(worker[v])
    BY <2>2 DEF UplinkInv, EventsAreAccountedFor, Carried
  <2> QED  BY <1>1, <1>2, <1>8, <2>1, <2>3 DEF EventsAreAccountedFor, Carried
<1>13. StoredOnceUnlessOverlapping'
  BY <1>2 DEF UplinkInv, StoredOnceUnlessOverlapping
<1> QED  BY <1>9, <1>10, <1>11, <1>12, <1>13 DEF UplinkInv

\* A payload that got no answer is kept, or given up with the events of what makes room.
LEMMA UnansweredKeeps ==
  ASSUME UplinkTyped, NEW w \in Workers, Handed(worker[w]), worker[w].does \in {"send", "wait"},
         GoesUnanswered(w)
  PROVE  /\ buffer' \in Seq(Payloads) /\ blind \subseteq blind'
         /\ \E x \in Work : /\ worker' = [worker EXCEPT ![w] = x]
                            /\ Handed(x) /\ x.does # "wait" /\ NothingLost(w, x)
<1>1. worker[w] \in Work /\ worker[w].keep = <<>> /\ worker[w].payload \in Payloads
  BY DEF UplinkTyped, Work, Handed
<1>2. CASE worker[w].flushing
  <2> DEFINE x == [worker[w] EXCEPT !.does = "putback"]
  <2>1. worker' = [worker EXCEPT ![w] = x] /\ UNCHANGED <<buffer, blind>>
    BY <1>2 DEF GoesUnanswered
  <2>2. /\ x \in Work /\ x.does = "putback"
        /\ x.payload = worker[w].payload /\ x.keep = worker[w].keep
    BY <1>1 DEF Work
  <2> HIDE DEF x
  <2>3. Handed(x) /\ NothingLost(w, x)
    BY <1>1, <2>1, <2>2 DEF Handed, NothingLost, Carried
  <2> QED  BY <2>1, <2>2, <2>3 DEF UplinkTyped
<1>3. CASE ~worker[w].flushing /\ worker[w].tries + 1 < MaxTries
  <2> DEFINE x == [worker[w] EXCEPT !.does = "send", !.tries = @ + 1]
  <2>1. worker' = [worker EXCEPT ![w] = x] /\ UNCHANGED <<buffer, blind>>
    BY <1>3 DEF GoesUnanswered
  <2>2. /\ x \in Work /\ x.does = "send"
        /\ x.payload = worker[w].payload /\ x.keep = worker[w].keep
    <3>1. worker[w].tries + 1 \in 0..MaxTries - 1
      BY <1>1, <1>3, UplinkAssumption DEF Work
    <3> QED  BY <1>1, <3>1 DEF Work
  <2> HIDE DEF x
  <2>3. Handed(x) /\ NothingLost(w, x)
    BY <1>1, <2>1, <2>2 DEF Handed, NothingLost, Carried
  <2> QED  BY <2>1, <2>2, <2>3 DEF UplinkTyped
<1>4. CASE ~worker[w].flushing /\ ~(worker[w].tries + 1 < MaxTries)
  <2> DEFINE longer == Append(buffer, worker[w].payload)
  <2>1. /\ worker' = [worker EXCEPT ![w] = Idle] /\ buffer' = Bounded(longer)
        /\ GivesUp(EventsOf(longer) \ EventsOf(Bounded(longer)))
    BY <1>4 DEF GoesUnanswered
  <2>2. /\ longer \in Seq(Payloads)
        /\ EventsOf(longer) = EventsOf(buffer) \cup ToSet(worker[w].payload)
    BY <1>1, EventsOfAppend DEF UplinkTyped
  <2> HIDE DEF longer
  <2>3. Carried(worker[w]) = ToSet(worker[w].payload)
    BY <1>1, NothingIn DEF Carried
  <2>4. NothingLost(w, Idle)
    BY <2>1, <2>2, <2>3 DEF NothingLost, GivesUp, AppsOf
  <2> QED  BY <2>1, <2>2, <2>4, BoundedType, IdleType DEF GivesUp
<1> QED  BY <1>2, <1>3, <1>4

LEMMA ConnectionFailsInv ==
  ASSUME UplinkInv, NEW w \in Workers, ConnectionFails(w) PROVE UplinkInv'
<1>1. UplinkTyped /\ Handed(worker[w]) /\ worker[w].does = "send" /\ GoesUnanswered(w)
  BY DEF ConnectionFails, UplinkInv
<1>2. PICK x \in Work : /\ worker' = [worker EXCEPT ![w] = x]
                        /\ Handed(x) /\ x.does # "wait" /\ NothingLost(w, x)
  BY <1>1, UnansweredKeeps
<1> QED  BY <1>1, <1>2, UnansweredKeeps, ClientMoves DEF ConnectionFails

LEMMA FlushNextInv == ASSUME UplinkInv, NEW w \in Workers, FlushNext(w) PROVE UplinkInv'
<1>1. /\ UplinkTyped /\ Handed(worker[w]) /\ worker[w].does = "flush"
      /\ UNCHANGED <<clientVars, masterVars, collected, blind>>
  BY DEF FlushNext, UplinkInv
<1>2. Carried(worker[w]) = {}
  BY <1>1, NothingIn DEF Handed, Carried
<1>3. CASE buffer = <<>>
  <2>1. worker' = [worker EXCEPT ![w] = Idle] /\ UNCHANGED buffer
    BY <1>3 DEF FlushNext
  <2>2. NothingLost(w, Idle)
    BY <1>2, <2>1 DEF NothingLost
  <2> QED  BY <1>1, <2>1, <2>2, IdleType, ClientMoves DEF UplinkTyped
<1>4. CASE buffer # <<>>
  <2>1. PICK x : x = [Idle EXCEPT !.does = "send", !.flushing = TRUE, !.payload = Head(buffer)]
    OBVIOUS
  <2>2. worker' = [worker EXCEPT ![w] = x] /\ buffer' = Tail(buffer)
    BY <1>4, <2>1 DEF FlushNext
  <2>3. /\ Head(buffer) \in Payloads /\ Tail(buffer) \in Seq(Payloads)
        /\ EventsOf(buffer) \subseteq ToSet(Head(buffer)) \cup EventsOf(Tail(buffer))
    BY <1>1, <1>4, EventsOfHeadTail DEF UplinkTyped
  <2>4. /\ x \in Work /\ x.does = "send" /\ x.payload = Head(buffer) /\ x.keep = <<>>
    BY <2>1, <2>3, IdleType DEF Work, Idle
  <2>5. Handed(x) /\ NothingLost(w, x)
    BY <1>2, <2>2, <2>3, <2>4 DEF Handed, NothingLost, Carried
  <2> QED  BY <1>1, <2>2, <2>3, <2>4, <2>5, ClientMoves
<1> QED  BY <1>3, <1>4

\* What neither the new deque nor the old one holds is given up.
LEMMA PutBackInv == ASSUME UplinkInv, NEW w \in Workers, PutBack(w) PROVE UplinkInv'
<1> DEFINE whole == <<worker[w].payload>> \o buffer
<1>1. /\ UplinkTyped /\ Handed(worker[w]) /\ worker[w].does = "putback"
      /\ worker[w] \in Work /\ worker[w].payload \in Payloads /\ worker[w].keep = <<>>
      /\ UNCHANGED <<clientVars, buffer, masterVars, collected>>
  BY DEF PutBack, UplinkInv, UplinkTyped, Handed, Work
<1>2. PICK x : x = [Idle EXCEPT !.does = "replace", !.keep = Bounded(whole)]
  OBVIOUS
<1>3. /\ worker' = [worker EXCEPT ![w] = x]
      /\ GivesUp(EventsOf(whole) \ (EventsOf(Bounded(whole)) \cup EventsOf(buffer)))
  BY <1>2 DEF PutBack
<1>4. /\ whole \in Seq(Payloads) /\ ToSet(worker[w].payload) \subseteq EventsOf(whole)
  BY <1>1, EventsOfCons DEF UplinkTyped
<1> HIDE DEF whole
<1>5. x \in Work /\ x.does = "replace" /\ x.payload = <<>> /\ x.keep = Bounded(whole)
  BY <1>2, <1>4, BoundedType, IdleType DEF Work, Idle
<1>6. Handed(x)
  BY <1>5 DEF Handed
<1>7. NothingLost(w, x)
  <2>1. Carried(worker[w]) = ToSet(worker[w].payload) /\ EventsOf(Bounded(whole)) \subseteq Carried(x)
    BY <1>1, <1>5, NothingIn DEF Carried
  <2>2. buffer' = buffer
    BY <1>1
  <2> QED  BY <1>3, <1>4, <2>1, <2>2 DEF NothingLost, GivesUp, AppsOf
<1>8. blind \subseteq blind' /\ buffer' \in Seq(Payloads)
  BY <1>1, <1>3 DEF GivesUp, UplinkTyped
<1> QED  BY <1>1, <1>3, <1>5, <1>6, <1>7, <1>8, ClientMoves

LEMMA ReplaceInv == ASSUME UplinkInv, NEW w \in Workers, Replace(w) PROVE UplinkInv'
<1>1. /\ UplinkTyped /\ Handed(worker[w]) /\ worker[w].does = "replace"
      /\ worker[w].keep \in Seq(Payloads) /\ worker[w].payload = <<>>
      /\ UNCHANGED <<clientVars, masterVars, collected>>
      /\ worker' = [worker EXCEPT ![w] = Idle] /\ buffer' = worker[w].keep
      /\ GivesUp(EventsOf(buffer) \ EventsOf(worker[w].keep))
  BY DEF Replace, UplinkInv, UplinkTyped, Work, Handed
<1>2. Carried(worker[w]) = EventsOf(buffer)'
  BY <1>1, NothingIn DEF Carried, EventsOf
<1>3. NothingLost(w, Idle)
  <2>1. \A e \in EventsOf(buffer) : e \in EventsOf(worker[w].keep) \/ e.app \in blind'
    BY <1>1 DEF GivesUp, AppsOf
  <2>2. EventsOf(worker[w].keep) \subseteq Carried(worker[w])
    BY DEF Carried
  <2> QED  BY <1>2, <2>1, <2>2 DEF NothingLost
<1>4. blind \subseteq blind'
  BY <1>1 DEF GivesUp
<1> QED  BY <1>1, <1>3, <1>4, IdleType, ClientMoves

\* A new request is the only one its worker waits for, and whatever it has in common
\* with another is noted.
LEMMA DeliverInv == ASSUME UplinkInv, NEW w \in Workers, Deliver(w) PROVE UplinkInv'
<1>1. /\ worker[w].does = "send" /\ worker[w] \in Work /\ worker[w].payload \in Payloads
      /\ UNCHANGED <<clientVars, buffer, stored, collected, blind>>
  BY DEF Deliver, UplinkInv, UplinkTyped, Work
<1>2. PICK x : x = [worker[w] EXCEPT !.does = "wait"]
  OBVIOUS
<1>3. /\ worker' = [worker EXCEPT ![w] = x] /\ x \in Work /\ x.does = "wait"
      /\ x.payload = worker[w].payload /\ x.keep = worker[w].keep
  BY <1>1, <1>2 DEF Deliver, Work
<1>4. worker'[w] = x /\ \A v \in Workers \ {w} : worker'[v] = worker[v]
  BY <1>3 DEF UplinkInv, UplinkTyped
<1> DEFINE q == [owner |-> w, events |-> worker[w].payload, missing |-> {}, stage |-> "look",
                 awaited |-> TRUE]
<1>5. PICK r \in Requests : request[r] = NoRequest /\ request' = [request EXCEPT ![r] = q]
  BY DEF Deliver
<1>6. /\ q \in Sent /\ q # NoRequest /\ q.owner = w /\ q.awaited
      /\ q.events = worker[w].payload /\ q.missing = {}
  BY <1>1 DEF Sent, NoRequest, Workers
<1>7. request'[r] = q /\ \A o \in Requests \ {r} : request'[o] = request[o]
  BY <1>5 DEF UplinkInv, UplinkTyped
<1> HIDE DEF q
<1>8. overlapped' = overlapped \cup
        {e \in ToSet(worker[w].payload) :
           \E o \in Requests : request[o] # NoRequest /\ e \in ToSet(request[o].events)}
  BY DEF Deliver
<1>9. UplinkTyped'
  BY <1>1, <1>3, <1>5, <1>6 DEF UplinkInv, UplinkTyped, clientVars
<1>10. ASSUME NEW o \in Requests PROVE Expected(o)' /\ Missed(o)'
  <2>1. Expected(o) /\ Missed(o)
    BY DEF UplinkInv, RequestsInv
  <2>2. \A p \in Requests : ~AwaitedBy(p, w)
    BY <1>1 DEF UplinkInv, RequestsInv, Expected, AwaitedBy
  <2>3. \A p \in Requests \ {r} : \A v : AwaitedBy(p, v)' <=> AwaitedBy(p, v)
    BY <1>7 DEF AwaitedBy, AtMaster
  <2>4. AwaitedBy(r, w)' /\ \A v : AwaitedBy(r, v)' => v = w
    BY <1>6, <1>7 DEF AwaitedBy, AtMaster
  <2>5. CASE o = r
    <3>1. Expected(o)'
      BY <1>3, <1>4, <1>6, <1>7, <2>2, <2>3, <2>5 DEF Expected
    <3>2. Missed(o)'
      BY <1>6, <1>7, <2>5 DEF Missed
    <3> QED  BY <3>1, <3>2
  <2>6. CASE o # r
    <3>1. request'[o] = request[o]
      BY <1>7, <2>6
    <3>2. Missed(o)'
      BY <1>1, <1>8, <2>1, <3>1 DEF Missed, AtMaster
    <3>3. Expected(o)'
      <4> SUFFICES ASSUME AtMaster(o), request[o].awaited PROVE Expected(o)'
        BY <3>1 DEF Expected, AtMaster
      <4>1. AwaitedBy(o, request[o].owner) /\ request[o].owner # w
        BY <2>2 DEF AwaitedBy
      <4>2. request[o].owner \in Workers
        BY DEF UplinkInv, UplinkTyped, AtMaster, Sent
      <4>3. worker'[request[o].owner] = worker[request[o].owner]
        BY <1>4, <4>1, <4>2
      <4>4. PICK v : v = request[o].owner
        OBVIOUS
      <4>5. \A p \in Requests \ {o} : ~AwaitedBy(p, v)'
        BY <2>1, <2>3, <2>4, <4>1, <4>4 DEF Expected
      <4> QED  BY <2>1, <3>1, <4>3, <4>4, <4>5 DEF Expected, AwaitedBy
    <3> QED  BY <3>2, <3>3
  <2> QED  BY <2>5, <2>6
<1>11. ASSUME NEW o \in Requests, NEW p \in Requests PROVE Overlapping(o, p)'
  <2>1. Overlapping(o, p)
    BY DEF UplinkInv, RequestsInv
  <2>2. \A k \in Requests \ {r} : AtMaster(k) =>
          ToSet(request[k].events) \cap ToSet(worker[w].payload) \subseteq overlapped'
    BY <1>8 DEF AtMaster
  <2>3. overlapped \subseteq overlapped'
    BY <1>8
  <2>4. CASE o # r /\ p # r
    BY <1>7, <2>1, <2>3, <2>4 DEF Overlapping, AtMaster
  <2>5. CASE o = r /\ p # r
    BY <1>6, <1>7, <2>2, <2>5 DEF Overlapping, AtMaster
  <2>6. CASE o # r /\ p = r
    BY <1>6, <1>7, <2>2, <2>6 DEF Overlapping, AtMaster
  <2> QED  BY <2>4, <2>5, <2>6 DEF Overlapping
<1>12. RequestsInv'
  BY <1>10, <1>11 DEF RequestsInv
<1>13. \A v \in Workers : Handed(worker[v])'
  BY <1>1, <1>3, <1>4 DEF UplinkInv, Handed
<1>14. NothingLost(w, x)
  BY <1>1, <1>3 DEF NothingLost, Carried
<1>15. EventsAreAccountedFor'
  BY <1>1, <1>3, <1>14, AccountedStill
<1>16. StoredOnceUnlessOverlapping'
  BY <1>1, <1>8 DEF UplinkInv, StoredOnceUnlessOverlapping
<1> QED  BY <1>9, <1>12, <1>13, <1>15, <1>16 DEF UplinkInv

LEMMA LookUpInv == ASSUME UplinkInv, NEW r \in Requests, LookUp(r) PROVE UplinkInv'
<1> DEFINE events == request[r].events
           new == {i \in DOMAIN events : stored[events[i]] = 0}
           first == {i \in new : \A k \in new : i <= k}
           lacking == {events[i] : i \in first}
<1>1. /\ AtMaster(r) /\ request[r] \in Sent /\ events \in Payloads
      /\ UNCHANGED <<clientVars, worker, buffer, stored, overlapped, collected, blind>>
  BY DEF LookUp, AtMaster, UplinkInv, UplinkTyped, Sent
<1>2. lacking \subseteq ToSet(events) /\ \A e \in lacking : stored[e] = 0
  BY DEF ToSet
<1>3. lacking \subseteq Events
  BY <1>1, <1>2, ToSetType
<1>4. request' = [request EXCEPT ![r] = [request[r] EXCEPT !.stage = "write", !.missing = lacking]]
  <2>1. request' = [request EXCEPT ![r].stage = "write", ![r].missing = lacking]
    BY <1>1 DEF LookUp, AtMaster
  <2> HIDE DEF lacking
  <2> QED  BY <2>1 DEF UplinkInv, UplinkTyped
<1> HIDE DEF lacking, new, first
<1>5. PICK q : q = [request[r] EXCEPT !.stage = "write", !.missing = lacking]
  OBVIOUS
<1>6. /\ q \in Sent /\ q # NoRequest /\ q.owner = request[r].owner /\ q.events = events
      /\ q.awaited = request[r].awaited /\ q.missing = lacking
  BY <1>1, <1>3, <1>5 DEF Sent, NoRequest, Workers
<1> HIDE DEF events
<1>7. request'[r] = q /\ \A o \in Requests \ {r} : request'[o] = request[o]
  BY <1>4, <1>5 DEF UplinkInv, UplinkTyped
<1>8. UplinkTyped'
  BY <1>1, <1>4, <1>5, <1>6 DEF UplinkInv, UplinkTyped, clientVars
<1>9. \A o \in Requests : /\ AtMaster(o)' <=> AtMaster(o)
                          /\ request'[o].owner = request[o].owner
                          /\ request'[o].awaited = request[o].awaited
                          /\ request'[o].events = request[o].events
  BY <1>1, <1>6, <1>7 DEF AtMaster, events
<1>10. RequestsInv'
  <2>1. \A o, v : o \in Requests => (AwaitedBy(o, v)' <=> AwaitedBy(o, v))
    BY <1>9 DEF AwaitedBy
  <2>2. \A o \in Requests : Expected(o)'
    BY <1>1, <1>9, <2>1 DEF UplinkInv, RequestsInv, Expected
  <2>3. \A o \in Requests : Missed(o)'
    <3>1. \A o \in Requests \ {r} : Missed(o)'
      BY <1>1, <1>7 DEF UplinkInv, RequestsInv, Missed, AtMaster
    <3>2. Missed(r)'
      BY <1>1, <1>2, <1>6, <1>7 DEF Missed
    <3> QED  BY <3>1, <3>2
  <2>4. \A o, p \in Requests : Overlapping(o, p)'
    BY <1>1, <1>9 DEF UplinkInv, RequestsInv, Overlapping
  <2> QED  BY <2>2, <2>3, <2>4 DEF RequestsInv
<1> QED  BY <1>1, <1>8, <1>10 DEF UplinkInv, EventsAreAccountedFor, StoredOnceUnlessOverlapping

\* A request ends, or stays and is awaited no more than before, by a worker that has
\* not moved.
Fades(r) ==
  AtMaster(r)' =>
    /\ AtMaster(r) /\ request'[r] \in Sent
    /\ request'[r].owner = request[r].owner /\ request'[r].events = request[r].events
    /\ request'[r].missing = request[r].missing
    /\ request'[r].awaited => /\ request[r].awaited
                              /\ worker'[request[r].owner] = worker[request[r].owner]

LEMMA FadingRequests ==
  ASSUME UplinkInv, \A r \in Requests : Fades(r), UNCHANGED overlapped,
         \A r \in Requests : AtMaster(r)' =>
           \A e \in request[r].missing : stored'[e] = stored[e] \/ e \in overlapped
  PROVE  RequestsInv'
<1>1. ASSUME NEW r \in Requests, AtMaster(r)', request'[r].awaited PROVE Expected(r)'
  <2>1. PICK v : v = request[r].owner
    OBVIOUS
  <2>2. /\ AtMaster(r) /\ request[r].awaited /\ worker'[v] = worker[v]
        /\ request'[r].owner = v /\ request'[r].events = request[r].events
    BY <1>1, <2>1 DEF Fades
  <2>3. /\ worker[v].does = "wait" /\ worker[v].payload = request[r].events
        /\ \A o \in Requests \ {r} : ~AwaitedBy(o, v)
    BY <2>1, <2>2 DEF UplinkInv, RequestsInv, Expected
  <2>4. \A o \in Requests \ {r} : ~AwaitedBy(o, v)'
    BY <2>3 DEF AwaitedBy, Fades
  <2> QED  BY <2>2, <2>3, <2>4 DEF Expected, AwaitedBy
<1>2. \A r \in Requests : Expected(r)'
  BY <1>1 DEF Expected
<1>3. ASSUME NEW r \in Requests, AtMaster(r)' PROVE Missed(r)'
  <2>1. /\ AtMaster(r) /\ request'[r].missing = request[r].missing
        /\ request'[r].events = request[r].events
    BY <1>3 DEF Fades
  <2>2. \A e \in request[r].missing : e \in ToSet(request[r].events) /\ (stored[e] = 0 \/ e \in overlapped)
    BY <2>1 DEF UplinkInv, RequestsInv, Missed
  <2> QED  BY <1>3, <2>1, <2>2 DEF Missed
<1>4. \A r \in Requests : Missed(r)'
  BY <1>3 DEF Missed
<1>5. ASSUME NEW r \in Requests, NEW o \in Requests PROVE Overlapping(r, o)'
  BY DEF Fades, Overlapping, UplinkInv, RequestsInv
<1> QED  BY <1>2, <1>4, <1>5 DEF RequestsInv

\* The request goes on at the Master when its worker waits no longer.
LEMMA AnswerIsLateInv == ASSUME UplinkInv, NEW w \in Workers, AnswerIsLate(w) PROVE UplinkInv'
<1>1. /\ UplinkTyped /\ Handed(worker[w]) /\ worker[w].does = "wait" /\ GoesUnanswered(w)
      /\ UNCHANGED <<clientVars, stored, overlapped, collected>>
      /\ request' = [r \in Requests |-> IF r \in Awaited(w)
                                        THEN [request[r] EXCEPT !.awaited = FALSE] ELSE request[r]]
  BY DEF AnswerIsLate, UplinkInv
<1>2. PICK x \in Work : /\ worker' = [worker EXCEPT ![w] = x]
                        /\ Handed(x) /\ x.does # "wait" /\ NothingLost(w, x)
  BY <1>1, UnansweredKeeps
<1>3. buffer' \in Seq(Payloads) /\ blind \subseteq blind'
  BY <1>1, UnansweredKeeps
<1>4. worker'[w] = x /\ \A v \in Workers \ {w} : worker'[v] = worker[v]
  BY <1>1, <1>2 DEF UplinkTyped
<1>5. ASSUME NEW r \in Requests PROVE request'[r] \in Sent \cup {NoRequest} /\ Fades(r)
  <2>1. CASE r \in Awaited(w)
    <3>1. request[r] \in Sent
      BY <1>1, <2>1 DEF Awaited, UplinkTyped
    <3>2. PICK q : q = [request[r] EXCEPT !.awaited = FALSE]
      OBVIOUS
    <3>3. /\ q \in Sent /\ ~q.awaited /\ q.owner = request[r].owner
          /\ q.events = request[r].events /\ q.missing = request[r].missing
      BY <3>1, <3>2 DEF Sent
    <3>4. request'[r] = q
      BY <1>1, <2>1, <3>2
    <3>5. AtMaster(r)
      BY <2>1 DEF Awaited, AtMaster
    <3> QED  BY <3>3, <3>4, <3>5 DEF Fades
  <2>2. CASE r \notin Awaited(w)
    <3>1. request'[r] = request[r] /\ request[r] \in Sent \cup {NoRequest}
      BY <1>1, <2>2 DEF UplinkTyped
    <3>2. AtMaster(r) /\ request[r].awaited => request[r].owner \in Workers \ {w}
      BY <1>1, <2>2 DEF Awaited, AtMaster, UplinkTyped, Sent
    <3> QED  BY <1>4, <3>1, <3>2 DEF Fades, AtMaster
  <2> QED  BY <2>1, <2>2
<1>6. UplinkTyped'
  <2>1. request' \in [Requests -> Sent \cup {NoRequest}]
    BY <1>1, <1>5
  <2> QED  BY <1>1, <1>2, <1>3, <2>1 DEF UplinkTyped, clientVars
<1>7. RequestsInv'
  BY <1>1, <1>5, FadingRequests
<1>8. \A v \in Workers : Handed(worker[v])'
  BY <1>2, <1>4 DEF UplinkInv, Handed
<1>9. EventsAreAccountedFor'
  BY <1>1, <1>2, <1>3, AccountedStill
<1>10. StoredOnceUnlessOverlapping'
  BY <1>1 DEF UplinkInv, StoredOnceUnlessOverlapping
<1> QED  BY <1>6, <1>7, <1>8, <1>9, <1>10 DEF UplinkInv

\* The end of a request, and where its worker goes if it still waits for the answer.
LEMMA RequestEnds ==
  ASSUME UplinkInv, NEW r \in Requests, AtMaster(r), request' = [request EXCEPT ![r] = NoRequest],
         NEW x \in Work, Handed(x),
         worker' = IF request[r].awaited THEN [worker EXCEPT ![request[r].owner] = x] ELSE worker
  PROVE  /\ request' \in [Requests -> Sent \cup {NoRequest}] /\ worker' \in [Workers -> Work]
         /\ \A o \in Requests : Fades(o) /\ (AtMaster(o)' => o # r)
         /\ \A w \in Workers : Handed(worker'[w])
         /\ \A w \in Workers : \/ worker'[w] = worker[w]
                               \/ request[r].awaited /\ Carried(worker[w]) = ToSet(request[r].events)
<1>1. request[r] \in Sent /\ request[r].owner \in Workers /\ UplinkTyped
  BY DEF UplinkInv, UplinkTyped, AtMaster, Sent
<1>2. request'[r] = NoRequest /\ \A o \in Requests \ {r} : request'[o] = request[o]
  BY <1>1 DEF UplinkTyped
<1>3. \A w \in Workers :
        IF request[r].awaited /\ w = request[r].owner THEN worker'[w] = x ELSE worker'[w] = worker[w]
  BY <1>1 DEF UplinkTyped
<1>4. request' \in [Requests -> Sent \cup {NoRequest}] /\ worker' \in [Workers -> Work]
  BY <1>1, <1>3 DEF UplinkTyped
<1>5. ASSUME NEW o \in Requests, AtMaster(o)' PROVE o # r /\ Fades(o)
  <2>1. o # r /\ request'[o] = request[o] /\ AtMaster(o) /\ request[o] \in Sent
    BY <1>1, <1>2, <1>5 DEF AtMaster, UplinkTyped
  <2>2. request[o].owner \in Workers
    BY <2>1 DEF Sent
  <2>3. ASSUME request[o].awaited, request[r].awaited PROVE request[o].owner # request[r].owner
    BY <2>1, <2>3 DEF UplinkInv, RequestsInv, Expected, AwaitedBy
  <2>4. request[o].awaited => worker'[request[o].owner] = worker[request[o].owner]
    BY <1>3, <2>2, <2>3
  <2> QED  BY <2>1, <2>4 DEF Fades
<1>6. \A o \in Requests : Fades(o) /\ (AtMaster(o)' => o # r)
  BY <1>5 DEF Fades
<1>7. \A w \in Workers : Handed(worker'[w])
  BY <1>3 DEF UplinkInv
<1>8. ASSUME request[r].awaited PROVE Carried(worker[request[r].owner]) = ToSet(request[r].events)
  <2>1. /\ worker[request[r].owner].does = "wait"
        /\ worker[request[r].owner].payload = request[r].events
    BY <1>8 DEF UplinkInv, RequestsInv, Expected
  <2>2. worker[request[r].owner].keep = <<>>
    BY <1>1, <2>1 DEF UplinkInv, Handed
  <2> QED  BY <2>1, <2>2, NothingIn DEF Carried
<1> QED  BY <1>3, <1>4, <1>6, <1>7, <1>8

LEMMA FlushWork ==
  LET x == [Idle EXCEPT !.does = "flush"] IN x \in Work /\ Handed(x)
  BY IdleType DEF Work, Handed, Idle

\* An insert for an event that has a row already is one for a request that overlapped.
LEMMA StoreInv == ASSUME UplinkInv, NEW r \in Requests, Store(r) PROVE UplinkInv'
<1>1. /\ AtMaster(r) /\ request' = [request EXCEPT ![r] = NoRequest]
      /\ stored' = [e \in Events |->
           IF e \in request[r].missing \/ (e \in ToSet(request[r].events) /\ stored[e] = 0)
           THEN stored[e] + 1 ELSE stored[e]]
      /\ UNCHANGED <<clientVars, buffer, overlapped, collected, blind>>
  BY DEF Store, AtMaster
<1>2. PICK x : x = [Idle EXCEPT !.does = "flush"]
  OBVIOUS
<1>3. x \in Work /\ Handed(x)
  BY <1>2, FlushWork
<1>4. worker' = IF request[r].awaited THEN [worker EXCEPT ![request[r].owner] = x] ELSE worker
  BY <1>2 DEF Store
<1>5. /\ request' \in [Requests -> Sent \cup {NoRequest}] /\ worker' \in [Workers -> Work]
      /\ \A o \in Requests : Fades(o) /\ (AtMaster(o)' => o # r)
      /\ \A w \in Workers : Handed(worker'[w])
      /\ \A w \in Workers : \/ worker'[w] = worker[w]
                            \/ request[r].awaited /\ Carried(worker[w]) = ToSet(request[r].events)
  BY <1>1, <1>3, <1>4, RequestEnds
<1>6. stored \in [Events -> Nat] /\ collected \subseteq Events
  BY DEF UplinkInv, UplinkTyped
<1>7. UplinkTyped'
  <2>1. stored' \in [Events -> Nat]
    BY <1>1, <1>6
  <2> QED  BY <1>1, <1>5, <2>1 DEF UplinkInv, UplinkTyped, clientVars
<1>8. \A e \in request[r].missing : e \in ToSet(request[r].events) /\ (stored[e] = 0 \/ e \in overlapped)
  BY <1>1 DEF UplinkInv, RequestsInv, Missed
<1>9. \A e \in Events : e \notin ToSet(request[r].events) => stored'[e] = stored[e]
  BY <1>1, <1>8
<1>10. RequestsInv'
  <2>1. ASSUME NEW o \in Requests, AtMaster(o)', NEW e \in request[o].missing
        PROVE  stored'[e] = stored[e] \/ e \in overlapped
    <3>1. o # r /\ AtMaster(o)
      BY <1>5, <2>1 DEF Fades
    <3>2. e \in ToSet(request[o].events) /\ Overlapping(r, o) /\ e \in Events
      BY <2>1, <3>1 DEF UplinkInv, UplinkTyped, RequestsInv, Missed, Sent, AtMaster
    <3> QED  BY <1>1, <1>9, <3>1, <3>2 DEF Overlapping
  <2> QED  BY <1>1, <1>5, <2>1, FadingRequests
<1>11. EventsAreAccountedFor'
  <2> SUFFICES ASSUME NEW e \in collected
               PROVE  \/ e.app \in blind \/ stored'[e] > 0 \/ e \in EventsOf(buffer)
                      \/ \E w \in Workers : e \in Carried(worker'[w])
    BY <1>1 DEF EventsAreAccountedFor, Carried
  <2>1. \/ e.app \in blind \/ stored[e] > 0 \/ e \in EventsOf(buffer)
        \/ \E w \in Workers : e \in Carried(worker[w])
    BY DEF UplinkInv, EventsAreAccountedFor, Carried
  <2>2. stored[e] > 0 \/ e \in ToSet(request[r].events) => stored'[e] > 0
    BY <1>1, <1>6
  <2> QED  BY <1>5, <2>1, <2>2
<1>12. StoredOnceUnlessOverlapping'
  <2> SUFFICES ASSUME NEW e \in Events, stored'[e] > 1 PROVE e \in overlapped
    BY <1>1 DEF StoredOnceUnlessOverlapping
  <2>1. stored[e] > 1 \/ (e \in request[r].missing /\ stored[e] # 0)
    BY <1>1, <1>6
  <2> QED  BY <1>8, <2>1 DEF UplinkInv, StoredOnceUnlessOverlapping
<1> QED  BY <1>5, <1>7, <1>10, <1>11, <1>12 DEF UplinkInv

\* What the answer of an error loses is given up.
LEMMA StoreFailsInv ==
  ASSUME UplinkInv, NEW r \in Requests, StoreFailsToCommit(r) PROVE UplinkInv'
<1>1. /\ AtMaster(r) /\ request' = [request EXCEPT ![r] = NoRequest]
      /\ UNCHANGED <<clientVars, buffer, stored, overlapped, collected>>
  BY DEF StoreFailsToCommit, AtMaster
<1>2. PICK x : x = IF worker[request[r].owner].flushing THEN [Idle EXCEPT !.does = "flush"] ELSE Idle
  OBVIOUS
<1>3. x \in Work /\ Handed(x)
  BY <1>2, FlushWork, IdleType
<1>4. worker' = IF request[r].awaited THEN [worker EXCEPT ![request[r].owner] = x] ELSE worker
  <2>1. request[r].owner \in Workers
    BY <1>1 DEF UplinkInv, UplinkTyped, AtMaster, Sent
  <2>2. request[r].awaited =>
          worker' = [worker EXCEPT ![request[r].owner] =
                       IF @.flushing THEN [Idle EXCEPT !.does = "flush"] ELSE Idle]
    BY DEF StoreFailsToCommit
  <2>3. ~request[r].awaited => worker' = worker
    BY DEF StoreFailsToCommit
  <2> QED  BY <1>2, <2>2, <2>3
<1>5. blind \subseteq blind' /\ (request[r].awaited => AppsOf(ToSet(request[r].events)) \subseteq blind')
  BY DEF StoreFailsToCommit, GivesUp
<1>6. /\ request' \in [Requests -> Sent \cup {NoRequest}] /\ worker' \in [Workers -> Work]
      /\ \A o \in Requests : Fades(o)
      /\ \A w \in Workers : Handed(worker'[w])
      /\ \A w \in Workers : \/ worker'[w] = worker[w]
                            \/ request[r].awaited /\ Carried(worker[w]) = ToSet(request[r].events)
  BY <1>1, <1>3, <1>4, RequestEnds
<1>7. UplinkTyped'
  BY <1>1, <1>6 DEF UplinkInv, UplinkTyped, clientVars
<1>8. RequestsInv'
  BY <1>1, <1>6, FadingRequests
<1>9. EventsAreAccountedFor'
  <2> SUFFICES ASSUME NEW e \in collected
               PROVE  \/ e.app \in blind' \/ stored[e] > 0 \/ e \in EventsOf(buffer)
                      \/ \E w \in Workers : e \in Carried(worker'[w])
    BY <1>1 DEF EventsAreAccountedFor, Carried, EventsOf
  <2>1. \/ e.app \in blind \/ stored[e] > 0 \/ e \in EventsOf(buffer)
        \/ \E w \in Workers : e \in Carried(worker[w])
    BY DEF UplinkInv, EventsAreAccountedFor, Carried
  <2> QED  BY <1>5, <1>6, <2>1 DEF AppsOf
<1>10. StoredOnceUnlessOverlapping'
  BY <1>1 DEF UplinkInv, StoredOnceUnlessOverlapping
<1> QED  BY <1>6, <1>7, <1>8, <1>9, <1>10 DEF UplinkInv

LEMMA ClientRestartsInv == ASSUME UplinkInv, ClientRestarts PROVE UplinkInv'
<1>1. /\ reported' = open /\ blind' = Apps /\ worker' = [w \in Workers |-> Idle] /\ buffer' = <<>>
      /\ request' = [r \in Requests |-> IF request[r] = NoRequest THEN NoRequest
                                        ELSE [request[r] EXCEPT !.awaited = FALSE]]
      /\ UNCHANGED <<open, clock, changed, stored, overlapped, collected>>
  BY DEF ClientRestarts
<1>2. ASSUME NEW r \in Requests PROVE request'[r] \in Sent \cup {NoRequest} /\ Fades(r)
  <2>1. CASE ~AtMaster(r)
    BY <1>1, <2>1 DEF AtMaster, Fades
  <2>2. CASE AtMaster(r)
    <3>1. request[r] \in Sent
      BY <2>2 DEF AtMaster, UplinkInv, UplinkTyped
    <3>2. PICK q : q = [request[r] EXCEPT !.awaited = FALSE]
      OBVIOUS
    <3>3. /\ q \in Sent /\ ~q.awaited /\ q.owner = request[r].owner
          /\ q.events = request[r].events /\ q.missing = request[r].missing
      BY <3>1, <3>2 DEF Sent
    <3>4. request'[r] = q
      BY <1>1, <2>2, <3>2 DEF AtMaster
    <3> QED  BY <2>2, <3>3, <3>4 DEF Fades
  <2> QED  BY <2>1, <2>2
<1>3. UplinkTyped'
  <2>1. /\ request' \in [Requests -> Sent \cup {NoRequest}]
        /\ worker' \in [Workers -> Work] /\ buffer' \in Seq(Payloads)
    BY <1>1, <1>2, IdleType
  <2> QED  BY <1>1, <2>1 DEF UplinkInv, UplinkTyped
<1>4. RequestsInv'
  BY <1>1, <1>2, FadingRequests
<1>5. \A w \in Workers : Handed(worker[w])'
  BY <1>1, IdleType DEF Handed
<1>6. EventsAreAccountedFor'
  <2>1. \A e \in collected : e.app \in Apps
    BY DEF UplinkInv, UplinkTyped, Events
  <2> QED  BY <1>1, <2>1 DEF EventsAreAccountedFor
<1>7. StoredOnceUnlessOverlapping'
  BY <1>1 DEF UplinkInv, StoredOnceUnlessOverlapping
<1> QED  BY <1>3, <1>4, <1>5, <1>6, <1>7 DEF UplinkInv

LEMMA UplinkNextInv == UplinkInv /\ [UplinkNext]_uplinkVars => UplinkInv'
<1> SUFFICES ASSUME UplinkInv, [UplinkNext]_uplinkVars PROVE UplinkInv'
  OBVIOUS
<1>1. CASE UNCHANGED uplinkVars
  <2>1. UNCHANGED <<worker, buffer, request, stored, collected, blind, overlapped, open, reported,
                    changed, clock>>
    BY <1>1 DEF uplinkVars, clientVars, masterVars
  <2>2. UplinkTyped'
    BY <2>1 DEF UplinkInv, UplinkTyped
  <2>3. RequestsInv'
    BY <2>1 DEF UplinkInv, RequestsInv, Expected, Missed, Overlapping, AtMaster, AwaitedBy
  <2>4. EventsAreAccountedFor' /\ StoredOnceUnlessOverlapping'
    BY <2>1 DEF UplinkInv, EventsAreAccountedFor, StoredOnceUnlessOverlapping, EventsOf
  <2>5. \A w \in Workers : Handed(worker[w])'
    BY <2>1 DEF UplinkInv, Handed
  <2> QED  BY <2>2, <2>3, <2>4, <2>5 DEF UplinkInv
<1>2. CASE AppChanges \/ LinkChanges
  BY <1>2, SurroundingsInv
<1>3. CASE ScanApps
  BY <1>3, ScanAppsInv
<1>4. CASE SampleTelemetry
  BY <1>4, SampleTelemetryInv
<1>5. CASE ClientRestarts
  BY <1>5, ClientRestartsInv
<1>6. ASSUME NEW w \in Workers, WorkerStep(w) \/ AnswerIsLate(w) PROVE UplinkInv'
  BY <1>6, DeliverInv, ConnectionFailsInv, FlushNextInv, PutBackInv, ReplaceInv, AnswerIsLateInv
     DEF WorkerStep
<1>7. ASSUME NEW r \in Requests, MasterStep(r) \/ StoreFailsToCommit(r) PROVE UplinkInv'
  BY <1>7, LookUpInv, StoreInv, StoreFailsInv DEF MasterStep
<1> QED  BY <1>1, <1>2, <1>3, <1>4, <1>5, <1>6, <1>7 DEF UplinkNext

\* Types, what a worker waits for, and what two requests have in common, for any number of
\* applications, requests at a time, attempts and failures, and any size of the buffer.
THEOREM UplinkInvariance == UplinkSpec => []UplinkInv
<1> QED  BY UplinkInitInv, UplinkNextInv, PTL DEF UplinkSpec

\* Outages, late answers, flushes, overflows and errors lose no event except one that the
\* code gives up.
THEOREM NoEventVanishes == UplinkSpec => []EventsAreAccountedFor
<1>1. UplinkInv => EventsAreAccountedFor
  BY DEF UplinkInv
<1> QED  BY <1>1, UplinkInvariance, PTL

\* A second row of an event takes two requests with it at the Master at a time.
THEOREM SendingAgainStoresOnce == UplinkSpec => []StoredOnceUnlessOverlapping
<1>1. UplinkInv => StoredOnceUnlessOverlapping
  BY DEF UplinkInv
<1> QED  BY <1>1, UplinkInvariance, PTL

(* The rest of the types.                                                  *)

\* Every event that the buffer, a worker or a request has was collected.
Collected ==
  /\ EventsOf(buffer) \subseteq collected /\ overlapped \subseteq collected
  /\ \A w \in Workers : Carried(worker[w]) \subseteq collected
  /\ \A r \in Requests : AtMaster(r) => ToSet(request[r].events) \subseteq collected

\* The deques have room for what is in them; and a worker waits only while an answer
\* is still to come.
Fits ==
  /\ Len(buffer) <= MaxBuffer /\ \A w \in Workers : Len(worker[w].keep) <= MaxBuffer
  /\ \A w \in Workers : worker[w].does = "wait" => \E r \in Requests : AwaitedBy(r, w)
  /\ link \in BOOLEAN /\ blind \subseteq Apps /\ failures \in 0..MaxFailures

UplinkKept == UplinkInv /\ Collected /\ Fits

LEMMA EventsOfParts ==
  ASSUME NEW s \in Seq(Payloads), s # <<>>
  PROVE  ToSet(Head(s)) \cup EventsOf(Tail(s)) \subseteq EventsOf(s)
<1>1. Len(s) \in Nat /\ Len(s) # 0 /\ DOMAIN s = 1..Len(s)
  BY LenProperties, EmptySeq
<1>2. Head(s) = s[1] /\ 1 \in DOMAIN s
  BY <1>1
<1>3. DOMAIN Tail(s) = 1..Len(s) - 1 /\ \A i \in 1..Len(s) - 1 : Tail(s)[i] = s[i + 1]
  BY <1>1, HeadTailProperties, LenProperties
<1>4. \A i \in DOMAIN Tail(s) : i + 1 \in DOMAIN s
  BY <1>1, <1>3
<1> QED  BY <1>2, <1>3, <1>4 DEF EventsOf

LEMMA EventsOfWhole ==
  ASSUME NEW p \in Payloads, NEW s \in Seq(Payloads)
  PROVE  EventsOf(<<p>> \o s) \subseteq ToSet(p) \cup EventsOf(s)
<1> DEFINE c == <<p>> \o s
<1>1. /\ Len(s) \in Nat /\ DOMAIN s = 1..Len(s) /\ <<p>> \in Seq(Payloads)
      /\ Len(<<p>>) = 1 /\ <<p>>[1] = p
  BY LenProperties
<1>2. /\ DOMAIN c = 1..Len(s) + 1
      /\ \A i \in 1..Len(s) + 1 : c[i] = IF i <= 1 THEN <<p>>[i] ELSE s[i - 1]
  BY <1>1, ConcatProperties, LenProperties
<1>3. \A i \in 1..Len(s) + 1 : i = 1 \/ (~(i <= 1) /\ i - 1 \in DOMAIN s)
  BY <1>1
<1>4. \A i \in DOMAIN c : c[i] = p \/ (i - 1 \in DOMAIN s /\ c[i] = s[i - 1])
  BY <1>1, <1>2, <1>3
<1> QED  BY <1>4 DEF EventsOf

LEMMA BoundedFits ==
  ASSUME NEW s \in Seq(Payloads)
  PROVE  EventsOf(Bounded(s)) \subseteq EventsOf(s) /\ Len(Bounded(s)) <= MaxBuffer
<1>1. Len(s) \in Nat /\ DOMAIN s = 1..Len(s) /\ MaxBuffer \in Nat
  BY LenProperties, UplinkAssumption
<1>2. CASE Len(s) > MaxBuffer
  <2> DEFINE k == Len(s) - MaxBuffer + 1
  <2>1. k \in Int /\ \A i \in k..Len(s) : i \in 1..Len(s) /\ s[i] \in Payloads
    BY <1>1, <1>2, ElementOfSeq
  <2>2. /\ Len(Newest(s)) = MaxBuffer /\ DOMAIN Newest(s) = 1..MaxBuffer
        /\ \A i \in 1..MaxBuffer : Newest(s)[i] = s[k + i - 1]
    BY <1>1, <1>2, <2>1, SubSeqProperties, LenProperties DEF Newest
  <2>3. \A i \in 1..MaxBuffer : k + i - 1 \in DOMAIN s
    BY <1>1, <1>2
  <2>4. EventsOf(Newest(s)) \subseteq EventsOf(s)
    BY <2>2, <2>3 DEF EventsOf
  <2> QED  BY <1>1, <1>2, <2>2, <2>4 DEF Bounded
<1>3. CASE ~(Len(s) > MaxBuffer)
  BY <1>1, <1>3 DEF Bounded
<1> QED  BY <1>2, <1>3

LEMMA AppsOfEvents == \A S \in SUBSET Events : AppsOf(S) \subseteq Apps
  BY DEF AppsOf, Events

\* What is collected is an event, and so is all that goes about in payloads.
LEMMA CarriedType ==
  ASSUME UplinkInv, NEW w \in Workers
  PROVE  /\ worker[w] \in Work /\ worker[w].payload \in Payloads /\ worker[w].keep \in Seq(Payloads)
         /\ Carried(worker[w]) \subseteq Events /\ EventsOf(buffer) \subseteq Events
<1>1. worker[w] \in Work /\ buffer \in Seq(Payloads)
  BY DEF UplinkInv, UplinkTyped
<1>2. worker[w].payload \in Payloads /\ worker[w].keep \in Seq(Payloads)
  BY <1>1 DEF Work
<1> QED  BY <1>1, <1>2, ToSetType, EventsOfType DEF Carried

LEMMA FailureType == ASSUME Fits, Failure PROVE failures' \in 0..MaxFailures
  BY UplinkAssumption DEF Fits, Failure

\* A worker that waits for nothing comes to x, with events out of what there was.
LEMMA ClientMovesKept ==
  ASSUME UplinkInv, Collected, Fits, NEW w \in Workers, NEW x, worker' = [worker EXCEPT ![w] = x],
         UNCHANGED request, x.does # "wait", worker[w].does # "wait",
         overlapped' = overlapped, collected \subseteq collected',
         EventsOf(buffer)' \cup Carried(x) \subseteq collected',
         Len(buffer') <= MaxBuffer, Len(x.keep) <= MaxBuffer,
         link' = link, blind' \subseteq Apps, failures' = failures
  PROVE  Collected' /\ Fits'
<1>1. worker'[w] = x /\ \A v \in Workers \ {w} : worker'[v] = worker[v]
  BY DEF UplinkInv, UplinkTyped
<1>2. Collected'
  BY <1>1 DEF Collected, AtMaster
<1>3. \A v \in Workers : worker'[v].does = "wait" => \E r \in Requests : AwaitedBy(r, v)'
  BY <1>1 DEF Fits, AwaitedBy, AtMaster
<1> QED  BY <1>1, <1>2, <1>3 DEF Fits

LEMMA UnansweredFits ==
  ASSUME UplinkInv, Fits, NEW w \in Workers, worker[w].does \in {"send", "wait"}, GoesUnanswered(w)
  PROVE  /\ Len(buffer') <= MaxBuffer /\ blind' \subseteq Apps
         /\ \E x \in Work :
              /\ worker' = [worker EXCEPT ![w] = x] /\ x.does # "wait" /\ Len(x.keep) <= MaxBuffer
              /\ EventsOf(buffer)' \cup Carried(x) \subseteq EventsOf(buffer) \cup Carried(worker[w])
<1>1. /\ worker[w] \in Work /\ worker[w].payload \in Payloads /\ worker[w].keep = <<>>
      /\ buffer \in Seq(Payloads)
  BY CarriedType DEF UplinkInv, UplinkTyped, Handed
<1>2. Len(<<>>) <= MaxBuffer
  BY UplinkAssumption
<1>3. CASE worker[w].flushing
  <2> DEFINE x == [worker[w] EXCEPT !.does = "putback"]
  <2>1. worker' = [worker EXCEPT ![w] = x] /\ UNCHANGED <<buffer, blind>>
    BY <1>3 DEF GoesUnanswered
  <2>2. /\ x \in Work /\ x.does = "putback"
        /\ x.payload = worker[w].payload /\ x.keep = <<>>
    BY <1>1 DEF Work
  <2> HIDE DEF x
  <2>3. Carried(x) = Carried(worker[w]) /\ EventsOf(buffer)' = EventsOf(buffer)
    BY <1>1, <2>1, <2>2 DEF Carried
  <2> QED  BY <1>2, <2>1, <2>2, <2>3 DEF Fits
<1>4. CASE ~worker[w].flushing /\ worker[w].tries + 1 < MaxTries
  <2> DEFINE x == [worker[w] EXCEPT !.does = "send", !.tries = @ + 1]
  <2>1. worker' = [worker EXCEPT ![w] = x] /\ UNCHANGED <<buffer, blind>>
    BY <1>4 DEF GoesUnanswered
  <2>2. worker[w].tries + 1 \in 0..MaxTries - 1
    BY <1>1, <1>4, UplinkAssumption DEF Work
  <2>3. /\ x \in Work /\ x.does = "send"
        /\ x.payload = worker[w].payload /\ x.keep = <<>>
    BY <1>1, <2>2 DEF Work
  <2> HIDE DEF x
  <2>4. Carried(x) = Carried(worker[w]) /\ EventsOf(buffer)' = EventsOf(buffer)
    BY <1>1, <2>1, <2>3 DEF Carried
  <2> QED  BY <1>2, <2>1, <2>3, <2>4 DEF Fits
<1>5. CASE ~worker[w].flushing /\ ~(worker[w].tries + 1 < MaxTries)
  <2> DEFINE longer == Append(buffer, worker[w].payload)
  <2>1. /\ worker' = [worker EXCEPT ![w] = Idle] /\ buffer' = Bounded(longer)
        /\ blind' = blind \cup AppsOf(EventsOf(longer) \ EventsOf(Bounded(longer)))
    BY <1>5 DEF GoesUnanswered, GivesUp
  <2>2. longer \in Seq(Payloads) /\ EventsOf(longer) = EventsOf(buffer) \cup ToSet(worker[w].payload)
    BY <1>1, EventsOfAppend
  <2> HIDE DEF longer
  <2>3. EventsOf(buffer)' = EventsOf(Bounded(longer))
    BY <2>1 DEF EventsOf
  <2>4. EventsOf(Bounded(longer)) \subseteq EventsOf(longer) /\ Len(Bounded(longer)) <= MaxBuffer
    BY <2>2, BoundedFits
  <2>5. blind' \subseteq Apps
    BY <2>1, <2>2, EventsOfType, AppsOfEvents DEF Fits
  <2>6. Carried(Idle) = {} /\ Idle.keep = <<>> /\ Idle \in Work /\ Idle.does # "wait"
    BY IdleType, NothingIn DEF Carried, Idle
  <2>7. ToSet(worker[w].payload) \subseteq Carried(worker[w])
    BY DEF Carried
  <2> QED  BY <1>2, <2>1, <2>2, <2>3, <2>4, <2>5, <2>6, <2>7
<1> QED  BY <1>3, <1>4, <1>5

LEMMA ConnectionFailsKept ==
  ASSUME UplinkKept, NEW w \in Workers, ConnectionFails(w) PROVE Collected' /\ Fits'
<1>1. /\ worker[w].does = "send" /\ GoesUnanswered(w)
      /\ UNCHANGED <<request, overlapped, collected, link, failures>>
  BY DEF ConnectionFails, masterVars
<1>2. PICK x \in Work :
        /\ worker' = [worker EXCEPT ![w] = x] /\ x.does # "wait" /\ Len(x.keep) <= MaxBuffer
        /\ EventsOf(buffer)' \cup Carried(x) \subseteq EventsOf(buffer) \cup Carried(worker[w])
  BY <1>1, UnansweredFits DEF UplinkKept
<1>3. EventsOf(buffer)' \cup Carried(x) \subseteq collected'
  BY <1>1, <1>2 DEF UplinkKept, Collected
<1> QED  BY <1>1, <1>2, <1>3, UnansweredFits, ClientMovesKept DEF UplinkKept

LEMMA BeginKept ==
  ASSUME UplinkKept, ScanApps \/ SampleTelemetry PROVE Collected' /\ Fits'
<1>1. /\ UNCHANGED <<request, overlapped, link, failures, buffer, blind>> /\ collected \subseteq collected'
      /\ EventsOf(buffer)' \subseteq collected'
  BY DEF ScanApps, SampleTelemetry, masterVars, clientVars, UplinkKept, Collected, EventsOf
<1>2. PICK w \in Workers, payload \in Payloads :
        /\ worker[w].does = "idle" /\ ToSet(payload) \subseteq collected'
        /\ worker' = [worker EXCEPT ![w].does = "send", ![w].payload = payload]
  <2>1. CASE SampleTelemetry
    <3>1. "telemetry" \in Workers /\ <<>> \in Payloads /\ ToSet(<<>>) \subseteq collected'
      BY NothingIn DEF Workers, Payloads
    <3> QED  BY <2>1, <3>1 DEF SampleTelemetry, Begin
  <2>2. CASE ScanApps
    <3> DEFINE news == [app : open \ reported, type : {"STARTED"}, at : {clock + 1}] \cup
                       [app : reported \ open, type : {"STOPPED"}, at : {clock + 1}]
    <3>1. Begin("events", SetToSeq(news)) /\ collected' = collected \cup news
      BY <2>2 DEF ScanApps
    <3> HIDE DEF news
    <3>2. UplinkInv'
      BY <2>2, ScanAppsInv DEF UplinkKept
    <3>3. worker'["events"].payload = SetToSeq(news)
      BY <3>1 DEF Begin, Workers, UplinkKept, UplinkInv, UplinkTyped
    <3>4. "events" \in Workers /\ SetToSeq(news) \in Payloads
      BY <3>2, <3>3 DEF UplinkInv, UplinkTyped, Work, Workers
    <3>5. ToSet(SetToSeq(news)) \subseteq collected'
      <4>1. news \subseteq Events
        BY <3>1, <3>2 DEF UplinkInv, UplinkTyped
      <4>2. IsFiniteSet(news)
        BY <2>2, ScansAreFinite DEF news, UplinkKept, UplinkInv
      <4> QED  BY <3>1, <4>1, <4>2, SetToSeqType
    <3> QED  BY <3>1, <3>4, <3>5 DEF Begin
  <2> QED  BY <2>1, <2>2
<1>3. PICK x : x = [worker[w] EXCEPT !.does = "send", !.payload = payload]
  OBVIOUS
<1>4. worker[w] \in Work /\ worker' = [worker EXCEPT ![w] = x]
  BY <1>2, <1>3, CarriedType DEF UplinkKept
<1>5. x.does = "send" /\ x.payload = payload /\ x.keep = worker[w].keep
  BY <1>3, <1>4 DEF Work
<1>6. EventsOf(buffer)' \cup Carried(x) \subseteq collected'
  BY <1>1, <1>2, <1>5 DEF Carried, UplinkKept, Collected
<1> QED  BY <1>1, <1>2, <1>4, <1>5, <1>6, ClientMovesKept DEF UplinkKept, Fits

LEMMA FlushNextKept == ASSUME UplinkKept, NEW w \in Workers, FlushNext(w) PROVE Collected' /\ Fits'
<1>1. /\ worker[w].does = "flush" /\ buffer \in Seq(Payloads)
      /\ UNCHANGED <<request, overlapped, collected, link, failures, blind>>
      /\ Len(<<>>) <= MaxBuffer
  BY UplinkAssumption DEF FlushNext, masterVars, UplinkKept, UplinkInv, UplinkTyped
<1>2. CASE buffer = <<>>
  <2>1. worker' = [worker EXCEPT ![w] = Idle] /\ buffer' = buffer
    BY <1>2 DEF FlushNext
  <2>2. Carried(Idle) = {} /\ Idle.keep = <<>> /\ Idle.does = "idle"
    BY NothingIn DEF Carried, Idle
  <2>3. EventsOf(buffer)' \subseteq collected
    BY <2>1 DEF EventsOf, UplinkKept, Collected
  <2> QED  BY <1>1, <2>1, <2>2, <2>3, ClientMovesKept DEF UplinkKept, Fits
<1>3. CASE buffer # <<>>
  <2>1. PICK x : x = [Idle EXCEPT !.does = "send", !.flushing = TRUE, !.payload = Head(buffer)]
    OBVIOUS
  <2>2. /\ worker' = [worker EXCEPT ![w] = x] /\ buffer' = Tail(buffer)
        /\ x.does = "send" /\ x.payload = Head(buffer) /\ x.keep = <<>>
    BY <1>3, <2>1 DEF FlushNext, Idle
  <2>3. ToSet(Head(buffer)) \cup EventsOf(Tail(buffer)) \subseteq EventsOf(buffer)
    BY <1>1, <1>3, EventsOfParts
  <2>4. Len(Tail(buffer)) <= MaxBuffer
    BY <1>1, <1>3, HeadTailProperties, LenProperties, UplinkAssumption DEF UplinkKept, Fits
  <2>5. EventsOf(buffer)' = EventsOf(Tail(buffer)) /\ Carried(x) = ToSet(Head(buffer))
    BY <2>2, NothingIn DEF EventsOf, Carried
  <2>6. EventsOf(buffer)' \cup Carried(x) \subseteq collected
    BY <2>3, <2>5 DEF UplinkKept, Collected
  <2> QED  BY <1>1, <2>2, <2>4, <2>6, ClientMovesKept DEF UplinkKept, Fits
<1> QED  BY <1>2, <1>3

LEMMA PutBackKept ==
  ASSUME UplinkKept, NEW w \in Workers, PutBack(w) \/ Replace(w) PROVE Collected' /\ Fits'
<1>1. /\ worker[w].payload \in Payloads /\ worker[w].keep \in Seq(Payloads) /\ buffer \in Seq(Payloads)
      /\ EventsOf(buffer) \cup Carried(worker[w]) \subseteq collected
      /\ EventsOf(buffer) \subseteq Events /\ collected \subseteq Events
      /\ UNCHANGED <<request, overlapped, collected, link, failures>>
  BY CarriedType DEF PutBack, Replace, masterVars, UplinkKept, UplinkInv, UplinkTyped, Collected
<1>2. CASE PutBack(w)
  <2> DEFINE whole == <<worker[w].payload>> \o buffer
  <2>1. PICK x : x = [Idle EXCEPT !.does = "replace", !.keep = Bounded(whole)]
    OBVIOUS
  <2>2. /\ worker[w].does = "putback" /\ worker' = [worker EXCEPT ![w] = x] /\ buffer' = buffer
        /\ blind' = blind \cup AppsOf(EventsOf(whole) \ (EventsOf(Bounded(whole)) \cup EventsOf(buffer)))
        /\ x.does = "replace" /\ x.payload = <<>> /\ x.keep = Bounded(whole)
    BY <1>2, <2>1 DEF PutBack, GivesUp, Idle
  <2>3. /\ whole \in Seq(Payloads)
        /\ EventsOf(whole) \subseteq ToSet(worker[w].payload) \cup EventsOf(buffer)
    BY <1>1, EventsOfCons, EventsOfWhole
  <2> HIDE DEF whole
  <2>4. EventsOf(Bounded(whole)) \subseteq EventsOf(whole) /\ Len(Bounded(whole)) <= MaxBuffer
    BY <2>3, BoundedFits
  <2>5. Carried(x) = EventsOf(Bounded(whole)) /\ EventsOf(buffer)' = EventsOf(buffer)
    BY <2>2, NothingIn DEF Carried, EventsOf
  <2>6. ToSet(worker[w].payload) \subseteq Carried(worker[w])
    BY DEF Carried
  <2>7. EventsOf(buffer)' \cup Carried(x) \subseteq collected'
    BY <1>1, <2>3, <2>4, <2>5, <2>6
  <2>8. blind' \subseteq Apps
    BY <2>2, <2>3, EventsOfType, AppsOfEvents DEF UplinkKept, Fits
  <2> QED  BY <1>1, <2>2, <2>4, <2>7, <2>8, ClientMovesKept DEF UplinkKept, Fits
<1>3. CASE Replace(w)
  <2>1. /\ worker[w].does = "replace" /\ worker' = [worker EXCEPT ![w] = Idle]
        /\ buffer' = worker[w].keep
        /\ blind' = blind \cup AppsOf(EventsOf(buffer) \ EventsOf(worker[w].keep))
    BY <1>3 DEF Replace, GivesUp
  <2>2. Carried(Idle) = {} /\ Idle.keep = <<>> /\ Idle.does = "idle" /\ Len(<<>>) <= MaxBuffer
    BY NothingIn, UplinkAssumption DEF Carried, Idle
  <2>3. EventsOf(buffer)' \subseteq Carried(worker[w])
    BY <2>1 DEF Carried, EventsOf
  <2>4. blind' \subseteq Apps
    BY <1>1, <2>1, AppsOfEvents DEF UplinkKept, Fits
  <2> QED  BY <1>1, <2>1, <2>2, <2>3, <2>4, ClientMovesKept DEF UplinkKept, Fits
<1> QED  BY <1>2, <1>3

LEMMA DeliverKept == ASSUME UplinkKept, NEW w \in Workers, Deliver(w) PROVE Collected' /\ Fits'
<1> DEFINE q == [owner |-> w, events |-> worker[w].payload, missing |-> {}, stage |-> "look",
                 awaited |-> TRUE]
<1>1. /\ worker[w] \in Work /\ worker' = [worker EXCEPT ![w].does = "wait"]
      /\ UNCHANGED <<buffer, collected, blind, link, failures>>
  BY CarriedType DEF Deliver, UplinkKept
<1>2. PICK r \in Requests : request[r] = NoRequest /\ request' = [request EXCEPT ![r] = q]
  BY DEF Deliver
<1>3. q # NoRequest /\ q.owner = w /\ q.awaited /\ q.events = worker[w].payload
  BY DEF NoRequest, Workers
<1>4. request'[r] = q /\ \A o \in Requests \ {r} : request'[o] = request[o]
  BY <1>2 DEF UplinkKept, UplinkInv, UplinkTyped
<1> HIDE DEF q
<1>5. /\ worker'[w].payload = worker[w].payload /\ worker'[w].keep = worker[w].keep
      /\ \A v \in Workers \ {w} : worker'[v] = worker[v]
  BY <1>1 DEF UplinkKept, UplinkInv, UplinkTyped, Work
<1>6. ToSet(worker[w].payload) \subseteq collected
  BY DEF UplinkKept, Collected, Carried
<1>7. overlapped' \subseteq collected
  BY <1>6 DEF Deliver, UplinkKept, Collected
<1>8. \A v \in Workers : Carried(worker'[v]) \subseteq collected /\ Len(worker'[v].keep) <= MaxBuffer
  BY <1>5 DEF UplinkKept, Collected, Fits, Carried
<1>9. \A o \in Requests : AtMaster(o)' => ToSet(request'[o].events) \subseteq collected
  BY <1>3, <1>4, <1>6 DEF UplinkKept, Collected, AtMaster
<1>10. Collected'
  BY <1>1, <1>7, <1>8, <1>9 DEF UplinkKept, Collected, EventsOf
<1>11. AwaitedBy(r, w)' /\ \A o \in Requests, v \in Workers : AwaitedBy(o, v) => AwaitedBy(o, v)'
  BY <1>2, <1>3, <1>4 DEF AwaitedBy, AtMaster
<1> QED  BY <1>1, <1>5, <1>8, <1>10, <1>11 DEF UplinkKept, Fits

LEMMA LookUpKept == ASSUME UplinkKept, NEW r \in Requests, LookUp(r) PROVE Collected' /\ Fits'
<1> DEFINE lacking ==
      {request[r].events[i] : i \in {j \in {k \in DOMAIN request[r].events : stored[request[r].events[k]] = 0} :
         \A k \in {l \in DOMAIN request[r].events : stored[request[r].events[l]] = 0} : j <= k}}
<1>1. /\ AtMaster(r) /\ UNCHANGED <<worker, buffer, overlapped, collected, blind, link, failures>>
      /\ request' = [request EXCEPT ![r].stage = "write", ![r].missing = lacking]
  BY DEF LookUp, AtMaster
<1> HIDE DEF lacking
<1>2. request[r] \in Sent
  BY <1>1 DEF UplinkKept, UplinkInv, UplinkTyped, AtMaster
<1>3. \A o \in Requests : /\ AtMaster(o)' => AtMaster(o) /\ request'[o].events = request[o].events
                          /\ \A v \in Workers : AwaitedBy(o, v) => AwaitedBy(o, v)'
  <2>1. /\ request'[r].owner = request[r].owner /\ request'[r].events = request[r].events
        /\ request'[r].awaited = request[r].awaited /\ request'[r] # NoRequest
    <3>1. PICK q : q = [request[r] EXCEPT !.stage = "write", !.missing = lacking]
      OBVIOUS
    <3>2. request'[r] = q
      BY <1>1, <3>1 DEF UplinkKept, UplinkInv, UplinkTyped
    <3>3. q.owner = request[r].owner /\ q.events = request[r].events /\ q.awaited = request[r].awaited
      BY <1>2, <3>1 DEF Sent
    <3>4. q # NoRequest
      BY <1>2, <3>3 DEF Sent, NoRequest, Workers
    <3> QED  BY <3>2, <3>3, <3>4
  <2>2. \A o \in Requests \ {r} : request'[o] = request[o]
    BY <1>1 DEF UplinkKept, UplinkInv, UplinkTyped
  <2> QED  BY <1>1, <2>1, <2>2 DEF AtMaster, AwaitedBy
<1> QED  BY <1>1, <1>3 DEF UplinkKept, Collected, Fits, EventsOf

LEMMA AnswerIsLateKept ==
  ASSUME UplinkKept, NEW w \in Workers, AnswerIsLate(w) PROVE Collected' /\ Fits'
<1>1. /\ worker[w].does = "wait" /\ GoesUnanswered(w) /\ Failure
      /\ UNCHANGED <<overlapped, collected, link>>
      /\ request' = [r \in Requests |-> IF r \in Awaited(w)
                                        THEN [request[r] EXCEPT !.awaited = FALSE] ELSE request[r]]
  BY DEF AnswerIsLate
<1>2. PICK x \in Work :
        /\ worker' = [worker EXCEPT ![w] = x] /\ x.does # "wait" /\ Len(x.keep) <= MaxBuffer
        /\ EventsOf(buffer)' \cup Carried(x) \subseteq EventsOf(buffer) \cup Carried(worker[w])
  BY <1>1, UnansweredFits DEF UplinkKept
<1>3. worker'[w] = x /\ \A v \in Workers \ {w} : worker'[v] = worker[v]
  BY <1>2 DEF UplinkKept, UplinkInv, UplinkTyped
<1>4. ASSUME NEW r \in Requests
      PROVE  /\ AtMaster(r)' => AtMaster(r) /\ request'[r].events = request[r].events
             /\ \A v \in Workers \ {w} : AwaitedBy(r, v) => AwaitedBy(r, v)'
  <2>1. CASE r \in Awaited(w)
    <3>1. request[r] \in Sent /\ AtMaster(r) /\ request[r].owner = w
      BY <2>1 DEF Awaited, AtMaster, UplinkKept, UplinkInv, UplinkTyped
    <3>2. request'[r].events = request[r].events
      BY <1>1, <2>1, <3>1 DEF Sent
    <3> QED  BY <3>1, <3>2 DEF AwaitedBy
  <2>2. CASE r \notin Awaited(w)
    BY <1>1, <2>2 DEF AtMaster, AwaitedBy
  <2> QED  BY <2>1, <2>2
<1>5. Collected'
  BY <1>1, <1>2, <1>3, <1>4 DEF UplinkKept, Collected
<1>6. ASSUME NEW v \in Workers, worker'[v].does = "wait" PROVE \E r \in Requests : AwaitedBy(r, v)'
  BY <1>2, <1>3, <1>4, <1>6 DEF UplinkKept, Fits
<1>7. Len(buffer') <= MaxBuffer /\ blind' \subseteq Apps
  BY <1>1, UnansweredFits DEF UplinkKept
<1>8. failures' \in 0..MaxFailures
  BY <1>1, FailureType DEF UplinkKept
<1> QED  BY <1>1, <1>2, <1>3, <1>5, <1>6, <1>7, <1>8 DEF UplinkKept, Fits

\* With its request the wait of a worker ends, and no other's.
LEMMA RequestEndsKept ==
  ASSUME UplinkKept, NEW r \in Requests, Store(r) \/ StoreFailsToCommit(r) PROVE Collected' /\ Fits'
<1>1. /\ AtMaster(r) /\ request' = [request EXCEPT ![r] = NoRequest]
      /\ UNCHANGED <<buffer, overlapped, collected, link>>
  BY DEF Store, StoreFailsToCommit, AtMaster
<1>2. request[r] \in Sent /\ request[r].owner \in Workers /\ request[r].events \in Payloads
  BY <1>1 DEF UplinkKept, UplinkInv, UplinkTyped, AtMaster, Sent
<1>3. PICK x \in {Idle, [Idle EXCEPT !.does = "flush"]} :
        worker' = IF request[r].awaited THEN [worker EXCEPT ![request[r].owner] = x] ELSE worker
  <2>1. CASE Store(r)
    BY <2>1 DEF Store
  <2>2. CASE StoreFailsToCommit(r)
    <3> DEFINE y == IF worker[request[r].owner].flushing THEN [Idle EXCEPT !.does = "flush"] ELSE Idle
    <3>1. request[r].awaited =>
            worker' = [worker EXCEPT ![request[r].owner] =
                         IF @.flushing THEN [Idle EXCEPT !.does = "flush"] ELSE Idle]
      BY <2>2 DEF StoreFailsToCommit
    <3>2. ~request[r].awaited => worker' = worker
      BY <2>2 DEF StoreFailsToCommit
    <3>3. y \in {Idle, [Idle EXCEPT !.does = "flush"]}
      OBVIOUS
    <3>4. worker' = IF request[r].awaited THEN [worker EXCEPT ![request[r].owner] = y] ELSE worker
      BY <1>2, <3>1, <3>2
    <3> HIDE DEF y
    <3> QED  BY <3>3, <3>4
  <2> QED  BY <2>1, <2>2
<1>4. x.does # "wait" /\ x.payload = <<>> /\ x.keep = <<>>
  BY <1>3 DEF Idle
<1>5. Carried(x) = {} /\ Len(x.keep) <= MaxBuffer
  BY <1>4, NothingIn, UplinkAssumption DEF Carried
<1>6. request'[r] = NoRequest /\ \A o \in Requests \ {r} : request'[o] = request[o]
  BY <1>1 DEF UplinkKept, UplinkInv, UplinkTyped
<1>7. \A v \in Workers : IF request[r].awaited /\ v = request[r].owner
                         THEN worker'[v] = x ELSE worker'[v] = worker[v]
  BY <1>2, <1>3 DEF UplinkKept, UplinkInv, UplinkTyped
<1>8. Collected'
  <2>1. \A v \in Workers : Carried(worker'[v]) \subseteq collected
    BY <1>5, <1>7 DEF UplinkKept, Collected
  <2>2. \A o \in Requests : AtMaster(o)' => AtMaster(o) /\ request'[o].events = request[o].events
    BY <1>6 DEF AtMaster
  <2> QED  BY <1>1, <2>1, <2>2 DEF UplinkKept, Collected, EventsOf
<1>9. ASSUME NEW v \in Workers, worker'[v].does = "wait" PROVE \E o \in Requests : AwaitedBy(o, v)'
  <2>1. worker[v].does = "wait" /\ ~(request[r].awaited /\ v = request[r].owner)
    BY <1>4, <1>7, <1>9
  <2>2. PICK o \in Requests : AwaitedBy(o, v)
    BY <2>1 DEF UplinkKept, Fits
  <2>3. o # r
    BY <2>1, <2>2 DEF AwaitedBy
  <2> QED  BY <1>6, <2>2, <2>3 DEF AwaitedBy, AtMaster
<1>10. failures' \in 0..MaxFailures
  BY FailureType DEF Store, StoreFailsToCommit, UplinkKept, Fits
<1>11. blind' \subseteq Apps
  BY <1>2, ToSetType, AppsOfEvents DEF Store, StoreFailsToCommit, GivesUp, UplinkKept, Fits
<1>12. \A v \in Workers : Len(worker'[v].keep) <= MaxBuffer
  BY <1>5, <1>7 DEF UplinkKept, Fits
<1> QED  BY <1>1, <1>8, <1>9, <1>10, <1>11, <1>12 DEF UplinkKept, Fits

LEMMA ClientRestartsKept == ASSUME UplinkKept, ClientRestarts PROVE Collected' /\ Fits'
<1>1. /\ blind' = Apps /\ worker' = [w \in Workers |-> Idle] /\ buffer' = <<>> /\ Failure
      /\ request' = [r \in Requests |-> IF request[r] = NoRequest THEN NoRequest
                                        ELSE [request[r] EXCEPT !.awaited = FALSE]]
      /\ UNCHANGED <<overlapped, collected, link>>
  BY DEF ClientRestarts
<1>2. Carried(Idle) = {} /\ Idle.keep = <<>> /\ Idle.does = "idle" /\ Len(<<>>) <= MaxBuffer
  BY NothingIn, UplinkAssumption DEF Carried, Idle
<1>3. EventsOf(buffer)' = {}
  BY <1>1, NothingIn DEF EventsOf
<1>4. ASSUME NEW r \in Requests, AtMaster(r)'
      PROVE  AtMaster(r) /\ request'[r].events = request[r].events
  <2>1. AtMaster(r)
    BY <1>1, <1>4 DEF AtMaster
  <2>2. request[r] \in Sent
    BY <2>1 DEF AtMaster, UplinkKept, UplinkInv, UplinkTyped
  <2> QED  BY <1>1, <2>1, <2>2 DEF AtMaster, Sent
<1>5. Collected'
  BY <1>1, <1>2, <1>3, <1>4 DEF UplinkKept, Collected
<1>6. failures' \in 0..MaxFailures
  BY <1>1, FailureType DEF UplinkKept
<1> QED  BY <1>1, <1>2, <1>5, <1>6 DEF UplinkKept, Fits

LEMMA SurroundingsKept == ASSUME UplinkKept, AppChanges \/ LinkChanges PROVE Collected' /\ Fits'
<1>1. UNCHANGED <<worker, buffer, request, overlapped, collected, blind>>
  BY DEF AppChanges, LinkChanges, masterVars
<1>2. link' \in BOOLEAN /\ failures' \in 0..MaxFailures
  BY FailureType, Zenon DEF AppChanges, LinkChanges, UplinkKept, Fits
<1> QED  BY <1>1, <1>2 DEF UplinkKept, Collected, Fits, AtMaster, AwaitedBy, EventsOf

LEMMA UplinkInitKept == UplinkInit => UplinkKept
<1> SUFFICES ASSUME UplinkInit PROVE Collected /\ Fits
  BY UplinkInitInv DEF UplinkKept
<1>1. Carried(Idle) = {} /\ Idle.keep = <<>> /\ Idle.does = "idle" /\ Len(<<>>) <= MaxBuffer
  BY NothingIn, UplinkAssumption DEF Carried, Idle
<1> QED  BY <1>1, NothingIn, UplinkAssumption DEF UplinkInit, Collected, Fits, AtMaster

LEMMA UplinkNextKept == UplinkKept /\ [UplinkNext]_uplinkVars => UplinkKept'
<1> SUFFICES ASSUME UplinkKept, [UplinkNext]_uplinkVars PROVE Collected' /\ Fits'
  BY UplinkNextInv DEF UplinkKept
<1>1. CASE UNCHANGED uplinkVars
  BY <1>1 DEF uplinkVars, masterVars, UplinkKept, Collected, Fits, AtMaster, AwaitedBy, EventsOf
<1>2. CASE AppChanges \/ LinkChanges \/ ScanApps \/ SampleTelemetry \/ ClientRestarts
  BY <1>2, SurroundingsKept, BeginKept, ClientRestartsKept
<1>3. ASSUME NEW w \in Workers, WorkerStep(w) \/ AnswerIsLate(w) PROVE Collected' /\ Fits'
  BY <1>3, DeliverKept, ConnectionFailsKept, FlushNextKept, PutBackKept, AnswerIsLateKept DEF WorkerStep
<1>4. ASSUME NEW r \in Requests, MasterStep(r) \/ StoreFailsToCommit(r) PROVE Collected' /\ Fits'
  BY <1>4, LookUpKept, RequestEndsKept DEF MasterStep
<1> QED  BY <1>1, <1>2, <1>3, <1>4 DEF UplinkNext

LEMMA UplinkTypes == UplinkKept => UplinkTypeOK
<1> SUFFICES ASSUME UplinkKept PROVE UplinkTypeOK
  OBVIOUS
<1>1. ASSUME NEW w \in Workers
      PROVE  /\ worker[w].does \in {"idle", "send", "wait", "flush", "putback", "replace"}
             /\ worker[w].payload \in Seq(Events) /\ worker[w].tries \in 0..MaxTries - 1
             /\ Len(worker[w].keep) <= MaxBuffer
             /\ worker[w].does = "wait" <=> Awaited(w) # {}
  <2>1. worker[w] \in Work
    BY DEF UplinkKept, UplinkInv, UplinkTyped
  <2>2. Awaited(w) # {} => worker[w].does = "wait"
    BY DEF Awaited, UplinkKept, UplinkInv, RequestsInv, Expected, AtMaster
  <2>3. worker[w].does = "wait" => Awaited(w) # {}
    BY DEF Awaited, UplinkKept, Fits, AwaitedBy, AtMaster
  <2> QED  BY <2>1, <2>2, <2>3 DEF Work, Payloads, UplinkKept, Fits
<1> QED  BY <1>1 DEF UplinkTypeOK, UplinkKept, UplinkInv, UplinkTyped, Collected, Fits

\* Everything on its way was collected, and the deques have room for what is in them.
THEOREM UplinkTypeCorrect == UplinkSpec => []UplinkTypeOK
<1> QED  BY UplinkInitKept, UplinkNextKept, UplinkTypes, PTL DEF UplinkSpec

(***************************************************************************)
(* The event collector's scans.                                            *)
(***************************************************************************)
CacheEntries == [exe : AppNames, name : IF platform = "windows" THEN AppNames
                                          ELSE AppNames \cup {"SYSTEM"}]

MonitorTyped ==
  /\ platform \in {"windows", "linux"} /\ scanning \in BOOLEAN /\ todo \subseteq Pids
  /\ process \in [Pids -> Programs \cup {NotRunning}]
  /\ names \in Seq(CacheEntries)
  /\ stayed \subseteq Alive /\ (scanning => stayed \cap ended = {})

\* A process that was there before the scan is still to be examined or, on Windows and of a
\* user application, in a group.
InSight ==
  scanning => \A i \in stayed \ todo :
    platform = "windows" /\ IsUserApplicationWindows(process[i]) => i \in Members(found)

\* The cache has one entry for each executable name it was asked about.
OneEntryEach ==
  /\ \A j, k \in DOMAIN names : names[j].exe = names[k].exe => j = k
  /\ \A k \in DOMAIN names : \E p \in Programs : ~p.known /\ names[k].exe = p.exe

\* What a program needs of its own to be counted, and what the name m in the cache is
\* shown as.
Eligible(p) == IF platform = "windows" THEN IsUserApplicationWindows(p) ELSE ~Infrastructure(p)
Shown(p, m) ==
  IF platform # "windows" /\ m # "SYSTEM" /\ HasDesktopEntry(p) THEN p.product ELSE m

\* Whatever comes, a process of program p will be counted for application n.
Settles(p, n) ==
  /\ n # "SYSTEM" /\ Eligible(p)
  /\ \/ p.known /\ n = p.exe
     \/ ~p.known /\ \E k \in DOMAIN names : names[k].exe = p.exe /\ n = Shown(p, names[k].name)

\* While the cache is large enough, those that were counted and run on are settled, and
\* the application of each is found again once it has been examined.
AllSettled ==
  /\ OneEntryEach
  /\ \A n \in DOMAIN previous : \A i \in previous[n] \cap stayed : Settles(process[i], n)
  /\ scanning =>
       /\ \A n \in DOMAIN found : \A i \in found[n] \ ended : i \in Alive /\ Settles(process[i], n)
       /\ \A n \in DOMAIN previous : \A i \in previous[n] \cap stayed : i \in todo \/ n \in DOMAIN found

MonitorInv ==
  /\ MonitorTyped /\ InSight
  /\ ~scanning => DOMAIN found = {}
  /\ CacheSuffices => AllSettled

LEMMA ExeName ==
  ASSUME NEW p \in Programs
  PROVE  p.exe \in AppNames /\ p.exe # "SYSTEM" /\ p # NotRunning
<1>1. p \in Program(AppNames) /\ "SYSTEM" \notin AppNames
  BY MonitorAssumption
<1>2. Undeclared \notin AppNames
  BY DEF AppNames
<1> QED  BY <1>1, <1>2 DEF Program, NotRunning

LEMMA ProductName ==
  ASSUME NEW p \in Programs, p.product # Undeclared
  PROVE  p.product \in AppNames /\ p.product # "SYSTEM"
<1>1. p \in Program(AppNames) /\ "SYSTEM" \notin AppNames
  BY MonitorAssumption
<1> QED  BY <1>1 DEF Program

LEMMA ShownName ==
  ASSUME NEW p \in Programs, NEW m
  PROVE  Shown(p, m) = "SYSTEM" <=> m = "SYSTEM"
  BY ProductName DEF Shown, HasDesktopEntry

\* The four ways through the examination of a process, in either client.
ExaminedAs(p, answer) ==
  \/ ~Eligible(p) /\ answer.name = "SYSTEM" /\ answer.cache = names
  \/ Eligible(p) /\ p.known /\ answer.name = p.exe /\ answer.cache = names
  \/ /\ Eligible(p) /\ ~p.known /\ answer.cache = names
     /\ \E k \in DOMAIN names : names[k].exe = p.exe /\ answer.name = Shown(p, names[k].name)
  \/ /\ Eligible(p) /\ ~p.known /\ Cached(names, p.exe) = {}
     /\ \E e \in CacheEntries : /\ e.exe = p.exe /\ answer.cache = Remember(names, e)
                                /\ answer.name = Shown(p, e.name)

LEMMA ExaminedOnWindows ==
  ASSUME MonitorTyped, platform = "windows", NEW p \in Programs
  PROVE  ExaminedAs(p, Examined(names, p))
<1>1. CASE ~IsUserApplicationWindows(p)
  <2>1. Examined(names, p) = [name |-> "SYSTEM", cache |-> names]
    BY <1>1 DEF Examined, ExamineWindows
  <2> QED  BY <1>1, <2>1 DEF ExaminedAs, Eligible
<1>2. CASE IsUserApplicationWindows(p) /\ p.known
  <2>1. Examined(names, p) = [name |-> p.exe, cache |-> names]
    BY <1>2 DEF Examined, ExamineWindows, ClassifyWindows, IsUserApplicationWindows
  <2> QED  BY <1>2, <2>1 DEF ExaminedAs, Eligible
<1>3. CASE IsUserApplicationWindows(p) /\ ~p.known /\ Cached(names, p.exe) # {}
  <2>1. PICK k \in Cached(names, p.exe) : k = CHOOSE i \in Cached(names, p.exe) : TRUE
    BY <1>3
  <2>2. Examined(names, p) = [name |-> names[k].name, cache |-> names]
    BY <1>3, <2>1 DEF Examined, ExamineWindows, ClassifyWindows, IsUserApplicationWindows
  <2>3. k \in DOMAIN names /\ names[k].exe = p.exe /\ names[k].name = Shown(p, names[k].name)
    BY <2>1 DEF Shown, Cached
  <2> QED  BY <1>3, <2>2, <2>3 DEF ExaminedAs, Eligible
<1>4. CASE IsUserApplicationWindows(p) /\ ~p.known /\ Cached(names, p.exe) = {}
  <2>1. PICK e : e = [exe |-> p.exe, name |-> VersionInfoName(p)]
    OBVIOUS
  <2>2. e \in CacheEntries /\ e.exe = p.exe /\ e.name = VersionInfoName(p)
    <3>1. VersionInfoName(p) \in AppNames /\ p.exe \in AppNames
      BY ExeName, ProductName DEF VersionInfoName
    <3> QED  BY <2>1, <3>1 DEF CacheEntries
  <2>3. Examined(names, p) = [name |-> e.name, cache |-> Remember(names, e)]
    BY <1>4, <2>1 DEF Examined, ExamineWindows, ClassifyWindows, IsUserApplicationWindows, Answer
  <2> QED  BY <1>4, <2>2, <2>3 DEF ExaminedAs, Eligible, Shown
<1> QED  BY <1>1, <1>2, <1>3, <1>4

LEMMA ExaminedOnLinux ==
  ASSUME MonitorTyped, platform # "windows", NEW p \in Programs
  PROVE  ExaminedAs(p, Examined(names, p))
<1> DEFINE answer == ClassifyLinux(names, p)
<1>1. Examined(names, p) = IF answer.name # "SYSTEM" /\ ~p.known /\ HasDesktopEntry(p)
                           THEN [answer EXCEPT !.name = p.product] ELSE answer
  BY DEF Examined, ExamineLinux
<1>2. CASE Infrastructure(p)
  <2>1. answer = [name |-> "SYSTEM", cache |-> names]
    BY <1>2 DEF ClassifyLinux
  <2> QED  BY <1>1, <1>2, <2>1 DEF ExaminedAs, Eligible
<1>3. CASE ~Infrastructure(p) /\ p.known
  <2>1. answer = [name |-> p.exe, cache |-> names]
    BY <1>3 DEF ClassifyLinux
  <2> QED  BY <1>1, <1>3, <2>1 DEF ExaminedAs, Eligible
<1>4. CASE ~Infrastructure(p) /\ ~p.known /\ Cached(names, p.exe) # {}
  <2>1. PICK k \in Cached(names, p.exe) : k = CHOOSE i \in Cached(names, p.exe) : TRUE
    BY <1>4
  <2>2. answer = [name |-> names[k].name, cache |-> names]
    BY <1>4, <2>1 DEF ClassifyLinux
  <2>3. /\ Examined(names, p).cache = names
        /\ Examined(names, p).name = Shown(p, names[k].name)
    BY <1>1, <1>4, <2>2 DEF Shown
  <2> QED  BY <1>4, <2>1, <2>3 DEF ExaminedAs, Eligible, Cached
<1>5. CASE ~Infrastructure(p) /\ ~p.known /\ Cached(names, p.exe) = {}
  <2>1. PICK e : e = [exe |-> p.exe, name |-> IF IsUserApplicationLinux(p) THEN DesktopName(p)
                                              ELSE "SYSTEM"]
    OBVIOUS
  <2>2. e \in CacheEntries /\ e.exe = p.exe
    <3>1. DesktopName(p) \in AppNames /\ p.exe \in AppNames
      BY ExeName, ProductName DEF DesktopName, HasDesktopEntry
    <3> QED  BY <2>1, <3>1 DEF CacheEntries
  <2>3. answer = [name |-> e.name, cache |-> Remember(names, e)]
    BY <1>5, <2>1 DEF ClassifyLinux, Answer
  <2>4. /\ Examined(names, p).cache = Remember(names, e)
        /\ Examined(names, p).name = Shown(p, e.name)
    BY <1>1, <1>5, <2>3 DEF Shown
  <2> QED  BY <1>5, <2>2, <2>4 DEF ExaminedAs, Eligible
<1> QED  BY <1>2, <1>3, <1>4, <1>5

LEMMA Remembering ==
  ASSUME MonitorTyped, NEW e \in CacheEntries
  PROVE  /\ Remember(names, e) \in Seq(CacheEntries)
         /\ Len(names) < CacheSize => Remember(names, e) = Append(names, e)
<1>1. Len(names) \in Nat /\ names \in Seq(CacheEntries)
  BY LenProperties DEF MonitorTyped
<1>2. CASE Len(names) >= CacheSize
  <2>1. names # <<>>
    BY <1>1, <1>2, MonitorAssumption, EmptySeq
  <2>2. Tail(names) \in Seq(CacheEntries)
    BY <1>1, <2>1, HeadTailProperties
  <2>3. Append(Tail(names), e) \in Seq(CacheEntries) /\ Append(names, e) \in Seq(CacheEntries)
    BY <1>1, <2>2, AppendProperties
  <2> QED  BY <1>1, <1>2, <2>3, MonitorAssumption DEF Remember
<1>3. CASE ~(Len(names) >= CacheSize)
  <2>1. Append(names, e) \in Seq(CacheEntries)
    BY <1>1, AppendProperties
  <2> QED  BY <1>3, <2>1 DEF Remember
<1> QED  BY <1>2, <1>3

\* A name the cache was not asked about yet finds room in one that suffices.
LEMMA RoomForAnother ==
  ASSUME MonitorTyped, OneEntryEach, CacheSuffices, NEW p \in Programs, ~p.known,
         Cached(names, p.exe) = {}
  PROVE  Len(names) < CacheSize
<1> DEFINE S == {q \in Programs : ~q.known}
           E == {q.exe : q \in S}
           f == [k \in 1..Len(names) |-> names[k].exe]
           g == [q \in S |-> q.exe]
<1>1. Len(names) \in Nat /\ DOMAIN names = 1..Len(names)
  BY LenProperties DEF MonitorTyped
<1>2. IsFiniteSet(S)
  BY MonitorAssumption, FS_Subset
<1>3. g \in Surjection(S, E)
  BY DEF Surjection
<1>4. IsFiniteSet(E)
  BY <1>2, <1>3, FS_Surjection
<1>5. p.exe \in E /\ CacheSize \in Nat
  BY MonitorAssumption
<1>6. Cardinality(E \ {p.exe}) = Cardinality(E) - 1 /\ IsFiniteSet(E \ {p.exe})
  BY <1>4, <1>5, FS_RemoveElement
<1>7. \A k \in 1..Len(names) : names[k].exe \in E \ {p.exe}
  BY <1>1 DEF OneEntryEach, Cached
<1>8. f \in Injection(1..Len(names), E \ {p.exe})
  BY <1>1, <1>7 DEF Injection, IsInjective, OneEntryEach
<1>9. Cardinality(1..Len(names)) = Len(names)
  BY <1>1, FS_Interval
<1>10. Cardinality(1..Len(names)) <= Cardinality(E \ {p.exe})
  BY <1>6, <1>8, FS_Injection
<1>11. Cardinality(E) \in Nat /\ Cardinality(E) <= CacheSize
  BY <1>4, FS_CardinalityType DEF CacheSuffices
<1> QED  BY <1>1, <1>5, <1>6, <1>9, <1>10, <1>11

\* What is settled stays so, and has one name.
LEMMA StaysSettled ==
  ASSUME MonitorTyped, NEW p, NEW n, Settles(p, n), UNCHANGED platform,
         names' = names \/ \E e \in CacheEntries : names' = Append(names, e)
  PROVE  Settles(p, n)'
<1>1. \A k \in DOMAIN names : k \in DOMAIN names' /\ names'[k] = names[k]
  <2>1. Len(names) \in Nat /\ DOMAIN names = 1..Len(names) /\ names \in Seq(CacheEntries)
    BY LenProperties DEF MonitorTyped
  <2>2. CASE names' = names
    BY <2>2
  <2>3. ASSUME NEW e \in CacheEntries, names' = Append(names, e)
        PROVE  \A k \in DOMAIN names : k \in DOMAIN names' /\ names'[k] = names[k]
    <3>1. /\ DOMAIN Append(names, e) = 1..Len(names) + 1
          /\ \A k \in 1..Len(names) : Append(names, e)[k] = names[k]
      BY <2>1, AppendProperties
    <3>2. \A k \in 1..Len(names) : k \in 1..Len(names) + 1
      BY <2>1
    <3> QED  BY <2>1, <2>3, <3>1, <3>2
  <2> QED  BY <2>2, <2>3
<1>2. CASE p.known
  BY <1>2 DEF Settles, Eligible, Shown
<1>3. CASE ~p.known
  <2>1. PICK k \in DOMAIN names : names[k].exe = p.exe /\ n = Shown(p, names[k].name)
    BY <1>3 DEF Settles
  <2>2. k \in DOMAIN names' /\ names'[k].exe = p.exe /\ n = Shown(p, names'[k].name)
    BY <1>1, <2>1
  <2> QED  BY <1>3, <2>2 DEF Settles, Eligible, Shown
<1> QED  BY <1>2, <1>3

LEMMA OneName ==
  ASSUME OneEntryEach, NEW p, NEW n, NEW m, Settles(p, n), Settles(p, m) PROVE n = m
  BY DEF OneEntryEach, Settles

\* What an examination leaves of the cache, and what it settles.
LEMMA AfterExamined ==
  ASSUME MonitorTyped, NEW p \in Programs, NEW answer, ExaminedAs(p, answer)
  PROVE  /\ answer.cache \in Seq(CacheEntries)
         /\ platform = "windows" /\ IsUserApplicationWindows(p) => answer.name # "SYSTEM"
<1>1. answer.cache \in Seq(CacheEntries)
  BY Remembering DEF ExaminedAs, MonitorTyped
<1>2. ASSUME platform = "windows", IsUserApplicationWindows(p)
      PROVE  answer.name # "SYSTEM"
  <2>1. \A e \in CacheEntries : e.name # "SYSTEM"
    BY <1>2, MonitorAssumption DEF CacheEntries
  <2>2. \A k \in DOMAIN names : names[k] \in CacheEntries
    BY LenProperties, ElementOfSeq DEF MonitorTyped
  <2>3. \A m : Shown(p, m) = m
    BY <1>2 DEF Shown
  <2>4. Eligible(p) /\ p.exe # "SYSTEM"
    BY <1>2, ExeName DEF Eligible
  <2> QED  BY <2>1, <2>2, <2>3, <2>4 DEF ExaminedAs
<1> QED  BY <1>1, <1>2

LEMMA ExaminedSettles ==
  ASSUME MonitorTyped, OneEntryEach, CacheSuffices, NEW p \in Programs, UNCHANGED platform,
         NEW answer, ExaminedAs(p, answer), names' = answer.cache
  PROVE  /\ names' = names \/ \E e \in CacheEntries : names' = Append(names, e)
         /\ OneEntryEach'
         /\ answer.name # "SYSTEM" => Settles(p, answer.name)'
         /\ \A n : Settles(p, n) => answer.name = n
<1>1. ASSUME names' = names
      PROVE  OneEntryEach' /\ \A n : Settles(p, n) => Settles(p, n)'
  BY <1>1, StaysSettled DEF OneEntryEach
<1>2. CASE ~Eligible(p) /\ answer.name = "SYSTEM" /\ names' = names
  <2>1. \A n : ~Settles(p, n)
    BY <1>2 DEF Settles
  <2> QED  BY <1>1, <1>2, <2>1
<1>3. CASE Eligible(p) /\ p.known /\ answer.name = p.exe /\ names' = names
  <2>1. Settles(p, answer.name)
    BY <1>3, ExeName DEF Settles
  <2>2. \A n : Settles(p, n) => answer.name = n
    BY <1>3 DEF Settles
  <2> QED  BY <1>1, <1>3, <2>1, <2>2
<1>4. CASE /\ Eligible(p) /\ ~p.known /\ names' = names
           /\ \E k \in DOMAIN names : names[k].exe = p.exe /\ answer.name = Shown(p, names[k].name)
  <2>1. answer.name # "SYSTEM" => Settles(p, answer.name)
    BY <1>4 DEF Settles
  <2>2. \A n : Settles(p, n) => answer.name = n
    BY <1>4 DEF Settles, OneEntryEach
  <2> QED  BY <1>1, <1>4, <2>1, <2>2
<1>5. ASSUME Eligible(p), ~p.known, Cached(names, p.exe) = {}, NEW e \in CacheEntries,
             e.exe = p.exe, names' = Remember(names, e), answer.name = Shown(p, e.name)
      PROVE  /\ \E d \in CacheEntries : names' = Append(names, d)
             /\ OneEntryEach'
             /\ answer.name # "SYSTEM" => Settles(p, answer.name)'
             /\ \A n : ~Settles(p, n)
  <2>1. names' = Append(names, e)
    BY <1>5, RoomForAnother, Remembering
  <2>2. /\ Len(names) \in Nat /\ DOMAIN names = 1..Len(names)
        /\ DOMAIN names' = 1..Len(names) + 1 /\ names'[Len(names) + 1] = e
        /\ \A k \in DOMAIN names : names'[k] = names[k]
    BY <2>1, AppendProperties, LenProperties DEF MonitorTyped
  <2>3. \A k \in DOMAIN names' : k \in DOMAIN names \/ k = Len(names) + 1
    BY <2>2
  <2>4. \A k \in DOMAIN names : names[k].exe # e.exe
    BY <1>5 DEF Cached
  <2>5. OneEntryEach'
    BY <1>5, <2>2, <2>3, <2>4 DEF OneEntryEach
  <2>6. answer.name # "SYSTEM" => Settles(p, answer.name)'
    <3>1. Len(names) + 1 \in DOMAIN names' /\ names'[Len(names) + 1] = e
      BY <2>2
    <3> QED  BY <1>5, <3>1 DEF Settles, Eligible, Shown
  <2>7. \A n : ~Settles(p, n)
    BY <1>5, <2>4 DEF Settles
  <2> QED  BY <2>1, <2>5, <2>6, <2>7
<1> QED  BY <1>2, <1>3, <1>4, <1>5 DEF ExaminedAs

\* A program starts, a process exits, or nothing happens.
LEMMA ProcessesChange ==
  ASSUME MonitorInv, UNCHANGED <<platform, names, todo, scanning, found, previous>>,
         process' \in [Pids -> Programs \cup {NotRunning}],
         stayed' \subseteq stayed, scanning => ended \subseteq ended' /\ stayed' \cap ended' = {},
         \A i \in Alive : \/ i \in Alive' /\ process'[i] = process[i]
                          \/ i \notin stayed' /\ (scanning => i \in ended')
  PROVE  MonitorInv'
<1>1. \A p, n : Settles(p, n)' <=> Settles(p, n)
  BY DEF Settles, Eligible, Shown
<1>2. \A i \in stayed' : i \in stayed /\ i \in Alive' /\ process'[i] = process[i]
  BY DEF MonitorInv, MonitorTyped
<1>3. MonitorTyped'
  BY <1>2 DEF MonitorInv, MonitorTyped, CacheEntries
<1>4. InSight'
  BY <1>2 DEF MonitorInv, InSight, Members
<1>5. (~scanning => DOMAIN found = {})'
  BY DEF MonitorInv
<1>6. ASSUME CacheSuffices PROVE AllSettled'
  <2>1. OneEntryEach'
    BY <1>6 DEF MonitorInv, AllSettled, OneEntryEach
  <2>2. ASSUME NEW n \in DOMAIN previous, NEW i \in previous[n] \cap stayed'
        PROVE  Settles(process[i], n)'
    <3>1. PICK q : q = process[i]
      OBVIOUS
    <3>2. Settles(q, n) /\ process'[i] = q
      BY <1>2, <1>6, <3>1 DEF MonitorInv, AllSettled
    <3> QED  BY <1>1, <3>2
  <2>3. ASSUME scanning, NEW n \in DOMAIN found, NEW i \in found[n] \ ended'
        PROVE  i \in Alive' /\ Settles(process[i], n)'
    <3>1. i \in found[n] \ ended
      BY <2>3
    <3>2. i \in Alive /\ Settles(process[i], n)
      BY <1>6, <2>3, <3>1 DEF MonitorInv, AllSettled
    <3>3. i \in Alive' /\ process'[i] = process[i]
      BY <2>3, <3>2
    <3>4. PICK q : q = process[i]
      OBVIOUS
    <3>5. Settles(q, n)'
      BY <1>1, <3>2, <3>4
    <3> QED  BY <3>3, <3>4, <3>5
  <2>4. ASSUME scanning, NEW n \in DOMAIN previous, NEW i \in previous[n] \cap stayed'
        PROVE  i \in todo \/ n \in DOMAIN found
    BY <1>2, <1>6, <2>4 DEF MonitorInv, AllSettled
  <2> QED  BY <2>1, <2>2, <2>3, <2>4 DEF AllSettled
<1> QED  BY <1>3, <1>4, <1>5, <1>6 DEF MonitorInv, CacheSuffices

LEMMA LaunchInv ==
  ASSUME MonitorInv, NEW i \in Pids, Launch(i), UNCHANGED platform PROVE MonitorInv'
<1>1. PICK p \in Programs : process' = [process EXCEPT ![i] = p]
  BY DEF Launch
<1>2. process \in [Pids -> Programs \cup {NotRunning}] /\ process[i] = NotRunning
  BY DEF MonitorInv, MonitorTyped, Launch
<1>3. process' \in [Pids -> Programs \cup {NotRunning}]
  BY <1>1, <1>2
<1>4. \A j \in Alive : j \in Alive' /\ process'[j] = process[j]
  BY <1>1, <1>2 DEF Alive
<1>5. stayed' \subseteq stayed /\ (scanning => ended \subseteq ended' /\ stayed' \cap ended' = {})
  BY DEF Launch, MonitorInv, MonitorTyped
<1>6. UNCHANGED <<platform, names, todo, scanning, found, previous>>
  BY DEF Launch
<1> QED  BY <1>3, <1>4, <1>5, <1>6, ProcessesChange

LEMMA ExitInv ==
  ASSUME MonitorInv, NEW i \in Pids, Exit(i), UNCHANGED platform PROVE MonitorInv'
<1>1. process' = [process EXCEPT ![i] = NotRunning] /\ stayed' = stayed \ {i}
      /\ (scanning => ended' = ended \cup {i})
  BY DEF Exit
<1>2. process \in [Pids -> Programs \cup {NotRunning}]
  BY DEF MonitorInv, MonitorTyped
<1>3. process' \in [Pids -> Programs \cup {NotRunning}]
  BY <1>1, <1>2
<1>4. \A j \in Alive : \/ j \in Alive' /\ process'[j] = process[j]
                       \/ j \notin stayed' /\ (scanning => j \in ended')
  BY <1>1, <1>2 DEF Alive
<1>5. stayed' \subseteq stayed /\ (scanning => ended \subseteq ended' /\ stayed' \cap ended' = {})
  BY <1>1 DEF MonitorInv, MonitorTyped
<1>6. UNCHANGED <<platform, names, todo, scanning, found, previous>>
  BY DEF Exit
<1> QED  BY <1>3, <1>4, <1>5, <1>6, ProcessesChange

LEMMA BeginScanInv ==
  ASSUME MonitorInv, BeginScan, UNCHANGED platform PROVE MonitorInv'
<1>1. /\ ~scanning /\ scanning' = TRUE /\ todo' = Alive /\ ended' = {} /\ Alive' = Alive
      /\ UNCHANGED <<platform, process, names, found, previous, stayed>>
  BY DEF BeginScan, Alive
<1>2. \A p, n : Settles(p, n)' <=> Settles(p, n)
  BY <1>1 DEF Settles, Eligible, Shown
<1>3. stayed \subseteq Alive /\ DOMAIN found = {} /\ Alive \subseteq Pids
  BY <1>1 DEF MonitorInv, MonitorTyped, Alive
<1>4. MonitorTyped'
  BY <1>1, <1>3 DEF MonitorInv, MonitorTyped, CacheEntries
<1>5. InSight'
  BY <1>1, <1>3 DEF InSight
<1>6. ASSUME CacheSuffices PROVE AllSettled'
  <2>1. OneEntryEach'
    BY <1>1, <1>6 DEF MonitorInv, AllSettled, OneEntryEach
  <2>2. \A n \in DOMAIN previous : \A j \in previous[n] \cap stayed :
          Settles(process[j], n) /\ j \in Alive
    BY <1>3, <1>6 DEF MonitorInv, AllSettled
  <2> QED  BY <1>1, <1>2, <1>3, <2>1, <2>2 DEF AllSettled
<1> QED  BY <1>1, <1>4, <1>5, <1>6 DEF MonitorInv, CacheSuffices

\* A process that is gone when its turn comes, and one that is not.
LEMMA ExamineGoneInv ==
  ASSUME MonitorInv, NEW i \in Pids, Examine(i), process[i] = NotRunning, UNCHANGED platform
  PROVE  MonitorInv'
<1>1. /\ scanning /\ scanning' = scanning /\ todo' = todo \ {i} /\ Alive' = Alive
      /\ UNCHANGED <<platform, process, names, found, previous, stayed, ended>>
  BY DEF Examine, Alive
<1>2. \A p, n : Settles(p, n)' <=> Settles(p, n)
  BY <1>1 DEF Settles, Eligible, Shown
<1>3. i \notin stayed
  BY DEF MonitorInv, MonitorTyped, Alive
<1>4. MonitorTyped'
  BY <1>1 DEF MonitorInv, MonitorTyped, CacheEntries
<1>5. InSight'
  BY <1>1, <1>3 DEF MonitorInv, InSight, Members
<1>6. ASSUME CacheSuffices PROVE AllSettled'
  <2>1. OneEntryEach'
    BY <1>1, <1>6 DEF MonitorInv, AllSettled, OneEntryEach
  <2>2. /\ \A n \in DOMAIN previous : \A j \in previous[n] \cap stayed :
             Settles(process[j], n) /\ (j \in todo \/ n \in DOMAIN found)
        /\ \A n \in DOMAIN found : \A j \in found[n] \ ended : j \in Alive /\ Settles(process[j], n)
    BY <1>1, <1>6 DEF MonitorInv, AllSettled
  <2> QED  BY <1>1, <1>2, <1>3, <2>1, <2>2 DEF AllSettled
<1> QED  BY <1>1, <1>4, <1>5, <1>6 DEF MonitorInv, CacheSuffices

LEMMA ExamineAliveInv ==
  ASSUME MonitorInv, NEW i \in Pids, Examine(i), process[i] # NotRunning, UNCHANGED platform
  PROVE  MonitorInv'
<1>1. PICK p : p = process[i]
  OBVIOUS
<1>2. PICK answer : answer = Examined(names, p)
  OBVIOUS
<1>3. p \in Programs /\ i \in Alive
  BY <1>1 DEF MonitorInv, MonitorTyped, Alive
<1>4. /\ scanning /\ scanning' = scanning /\ todo' = todo \ {i} /\ Alive' = Alive
      /\ UNCHANGED <<platform, process, previous, stayed, ended>>
  BY DEF Examine, Alive
<1>5. /\ names' = answer.cache
      /\ found' = IF answer.name = "SYSTEM" THEN found ELSE Join(found, answer.name, i)
  BY <1>1, <1>2 DEF Examine
<1>6. ExaminedAs(p, answer)
  BY <1>2, <1>3, ExaminedOnWindows, ExaminedOnLinux DEF MonitorInv
<1>7. /\ names' \in Seq(CacheEntries)
      /\ platform = "windows" /\ IsUserApplicationWindows(p) => answer.name # "SYSTEM"
  BY <1>3, <1>5, <1>6, AfterExamined DEF MonitorInv
<1>8. CacheEntries' = CacheEntries
  BY <1>4 DEF CacheEntries
<1>9. /\ \A n \in DOMAIN found : n \in DOMAIN found' /\ found[n] \subseteq found'[n]
      /\ answer.name # "SYSTEM" => answer.name \in DOMAIN found' /\ i \in found'[answer.name]
  BY <1>5 DEF Join
<1>10. \A n \in DOMAIN found' : \A j \in found'[n] :
         (n \in DOMAIN found /\ j \in found[n]) \/ (answer.name # "SYSTEM" /\ n = answer.name /\ j = i)
  BY <1>5 DEF Join
<1>11. MonitorTyped'
  BY <1>4, <1>7, <1>8 DEF MonitorInv, MonitorTyped
<1>12. InSight'
  <2> SUFFICES ASSUME NEW j \in stayed \ todo', platform = "windows",
                      IsUserApplicationWindows(process[j])
               PROVE  j \in Members(found')
    BY <1>4 DEF InSight, Members
  <2>1. CASE j = i
    BY <1>1, <1>7, <1>9, <2>1 DEF Members
  <2>2. CASE j # i
    <3>1. j \in Members(found)
      BY <1>4, <2>2 DEF MonitorInv, InSight
    <3> QED  BY <1>9, <3>1 DEF Members
  <2> QED  BY <2>1, <2>2
<1>13. ASSUME CacheSuffices PROVE AllSettled'
  <2>1. AllSettled /\ OneEntryEach /\ MonitorTyped
    BY <1>13 DEF MonitorInv, AllSettled
  <2>2. names' = names \/ \E e \in CacheEntries : names' = Append(names, e)
    BY <1>3, <1>4, <1>5, <1>6, <1>13, <2>1, ExaminedSettles
  <2>3. OneEntryEach'
    BY <1>3, <1>4, <1>5, <1>6, <1>13, <2>1, ExaminedSettles
  <2>4. answer.name # "SYSTEM" => Settles(p, answer.name)'
    BY <1>3, <1>4, <1>5, <1>6, <1>13, <2>1, ExaminedSettles
  <2>5. \A n : Settles(p, n) => answer.name = n
    BY <1>3, <1>4, <1>5, <1>6, <1>13, <2>1, ExaminedSettles
  <2>6. \A q, n : Settles(q, n) => Settles(q, n)'
    BY <1>4, <2>1, <2>2, StaysSettled
  <2>7. ASSUME NEW n \in DOMAIN previous, NEW j \in previous[n] \cap stayed
        PROVE  Settles(process[j], n)' /\ (j \in todo' \/ n \in DOMAIN found')
    <3>1. Settles(process[j], n) /\ (j \in todo \/ n \in DOMAIN found)
      BY <1>4, <2>1 DEF AllSettled
    <3>2. PICK q : q = process[j]
      OBVIOUS
    <3>3. Settles(q, n)'
      BY <2>6, <3>1, <3>2
    <3>4. j = i => n = answer.name /\ n # "SYSTEM"
      BY <1>1, <2>5, <3>1 DEF Settles
    <3> QED  BY <1>4, <1>9, <3>1, <3>2, <3>3, <3>4
  <2>8. ASSUME NEW n \in DOMAIN found', NEW j \in found'[n] \ ended
        PROVE  j \in Alive /\ Settles(process[j], n)'
    <3>1. PICK q : q = process[j]
      OBVIOUS
    <3>2. CASE n \in DOMAIN found /\ j \in found[n]
      <4>1. j \in Alive /\ Settles(process[j], n)
        BY <1>4, <2>1, <2>8, <3>2 DEF AllSettled
      <4>2. Settles(q, n)'
        BY <2>6, <3>1, <4>1
      <4> QED  BY <1>4, <3>1, <4>1, <4>2
    <3>3. CASE answer.name # "SYSTEM" /\ n = answer.name /\ j = i
      BY <1>1, <1>3, <1>4, <2>4, <3>3
    <3> QED  BY <1>10, <2>8, <3>2, <3>3
  <2> QED  BY <1>4, <2>3, <2>7, <2>8 DEF AllSettled
<1> QED  BY <1>4, <1>11, <1>12, <1>13 DEF MonitorInv, CacheSuffices

LEMMA ReportChangesInv ==
  ASSUME MonitorInv, ReportChanges, UNCHANGED platform PROVE MonitorInv'
<1>1. /\ scanning /\ ~scanning' /\ scanning' \in BOOLEAN /\ todo = {} /\ Alive' = Alive
      /\ previous' = found /\ found' = NoGroups /\ stayed' = Alive \ ended
      /\ UNCHANGED <<platform, process, names, todo>>
  BY DEF ReportChanges, Alive
<1>2. \A p, n : Settles(p, n)' <=> Settles(p, n)
  BY <1>1 DEF Settles, Eligible, Shown
<1>3. MonitorTyped'
  BY <1>1 DEF MonitorInv, MonitorTyped, CacheEntries
<1>4. InSight' /\ DOMAIN found' = {}
  BY <1>1 DEF InSight, NoGroups
<1>5. ASSUME CacheSuffices PROVE AllSettled'
  <2>1. OneEntryEach'
    BY <1>1, <1>5 DEF MonitorInv, AllSettled, OneEntryEach
  <2>2. \A n \in DOMAIN previous' : \A j \in previous'[n] \cap stayed' : Settles(process[j], n)
    BY <1>1, <1>5 DEF MonitorInv, AllSettled
  <2> QED  BY <1>1, <1>2, <2>1, <2>2 DEF AllSettled
<1> QED  BY <1>3, <1>4, <1>5 DEF MonitorInv, CacheSuffices

LEMMA ScanFailsInv ==
  ASSUME MonitorInv, ScanFails, UNCHANGED platform PROVE MonitorInv'
<1>1. /\ ~scanning' /\ scanning' \in BOOLEAN /\ todo' = {} /\ found' = NoGroups /\ Alive' = Alive
      /\ UNCHANGED <<platform, process, names, previous, stayed>>
  BY DEF ScanFails, Alive
<1>2. \A p, n : Settles(p, n)' <=> Settles(p, n)
  BY <1>1 DEF Settles, Eligible, Shown
<1>3. MonitorTyped'
  BY <1>1 DEF MonitorInv, MonitorTyped, CacheEntries
<1>4. InSight' /\ DOMAIN found' = {}
  BY <1>1 DEF InSight, NoGroups
<1>5. ASSUME CacheSuffices PROVE AllSettled'
  <2>1. OneEntryEach'
    BY <1>1, <1>5 DEF MonitorInv, AllSettled, OneEntryEach
  <2>2. \A n \in DOMAIN previous : \A j \in previous[n] \cap stayed : Settles(process[j], n)
    BY <1>5 DEF MonitorInv, AllSettled
  <2> QED  BY <1>1, <1>2, <2>1, <2>2 DEF AllSettled
<1> QED  BY <1>3, <1>4, <1>5 DEF MonitorInv, CacheSuffices

LEMMA MonitorInitInv == MonitorInit => MonitorInv
<1> SUFFICES ASSUME MonitorInit PROVE MonitorInv
  OBVIOUS
<1>1. /\ platform \in Platforms /\ process = [i \in Pids |-> NotRunning] /\ names = <<>>
      /\ todo = {} /\ scanning = FALSE /\ found = NoGroups /\ previous = NoGroups
      /\ stayed = {} /\ ended = {}
  BY DEF MonitorInit
<1>2. names \in Seq(CacheEntries) /\ DOMAIN names = {}
  BY <1>1, EmptySeq
<1>3. MonitorTyped
  BY <1>1, <1>2, MonitorAssumption DEF MonitorTyped
<1>4. InSight /\ DOMAIN found = {} /\ DOMAIN previous = {}
  BY <1>1 DEF InSight, NoGroups
<1>5. AllSettled
  BY <1>1, <1>2, <1>4 DEF AllSettled, OneEntryEach
<1> QED  BY <1>3, <1>4, <1>5 DEF MonitorInv

LEMMA MonitorNextInv == MonitorInv /\ [MonitorNext]_monitorVars => MonitorInv'
<1> SUFFICES ASSUME MonitorInv, [MonitorNext]_monitorVars PROVE MonitorInv'
  OBVIOUS
<1>1. CASE UNCHANGED monitorVars
  <2>1. UNCHANGED <<platform, process, names, todo, scanning, found, previous, stayed, ended>>
    BY <1>1 DEF monitorVars
  <2>2. /\ process' \in [Pids -> Programs \cup {NotRunning}]
        /\ stayed' \subseteq stayed /\ (scanning => ended \subseteq ended' /\ stayed' \cap ended' = {})
        /\ \A i \in Alive : i \in Alive' /\ process'[i] = process[i]
    BY <2>1 DEF MonitorInv, MonitorTyped, Alive
  <2> QED  BY <2>1, <2>2, ProcessesChange
<1>2. ASSUME NEW i \in Pids, Launch(i) \/ Exit(i) \/ Examine(i), UNCHANGED platform PROVE MonitorInv'
  BY <1>2, LaunchInv, ExitInv, ExamineGoneInv, ExamineAliveInv
<1>3. CASE (BeginScan \/ ReportChanges \/ ScanFails) /\ UNCHANGED platform
  BY <1>3, BeginScanInv, ReportChangesInv, ScanFailsInv
<1> QED  BY <1>1, <1>2, <1>3 DEF MonitorNext

\* Types, what the cache holds, and what becomes of the processes that run on through a
\* scan, for any number of programs and processes, in whatever order they start and exit.
THEOREM MonitorInvariance == MonitorSpec => []MonitorInv
<1> QED  BY MonitorInitInv, MonitorNextInv, PTL DEF MonitorSpec

\* On Windows no entry of the cache hides a process of a user application that runs on.
THEOREM CacheHidesNone == MonitorSpec => CacheHidesNoApplication
<1>1. ASSUME MonitorInv, ReportChanges, platform = "windows",
             NEW i \in stayed, IsUserApplicationWindows(process[i])
      PROVE  i \in Members(found)
  BY <1>1 DEF MonitorInv, InSight, ReportChanges
<1>2. MonitorInv => [platform = "windows" /\ ReportChanges =>
                       \A i \in stayed : IsUserApplicationWindows(process[i]) => i \in Members(found)]_monitorVars
  BY <1>1
<1> QED  BY <1>2, MonitorInvariance, PTL DEF CacheHidesNoApplication

\* While the cache has room for every name it is asked about, the processes that come and
\* go beside one that runs on are not reported.
THEOREM ScansReportNoChurn == MonitorSpec => ChurnIsSilent
<1>1. ASSUME MonitorInv, CacheSuffices, ReportChanges, NEW app \in DOMAIN previous \ DOMAIN found
      PROVE  previous[app] \cap stayed = {}
  BY <1>1 DEF MonitorInv, AllSettled, ReportChanges
<1>2. ASSUME MonitorInv, CacheSuffices, ReportChanges, NEW app \in DOMAIN found \ DOMAIN previous
      PROVE  found[app] \cap stayed \cap Members(previous) = {}
  <2> SUFFICES ASSUME NEW n \in DOMAIN previous, NEW i \in previous[n], i \in found[app] \cap stayed
               PROVE  FALSE
    BY DEF Members
  <2>1. scanning /\ AllSettled /\ i \notin ended
    BY <1>2 DEF MonitorInv, MonitorTyped, ReportChanges
  <2>2. Settles(process[i], n) /\ Settles(process[i], app)
    BY <1>2, <2>1 DEF AllSettled
  <2>3. n = app
    BY <2>1, <2>2, OneName DEF AllSettled
  <2> QED  BY <1>2, <2>3
<1>3. ASSUME MonitorInv, CacheSuffices, ReportChanges, NEW r \in reports'
      PROVE  IF r.type = "STOPPED" THEN previous[r.app] \cap stayed = {}
             ELSE found[r.app] \cap stayed \cap Members(previous) = {}
  <2>1. CASE r \in Opened(found, previous)
    BY <1>2, <1>3, <2>1 DEF Opened
  <2>2. CASE r \in Closed(found, previous)
    BY <1>1, <1>3, <2>2 DEF Closed
  <2> QED  BY <1>3, <2>1, <2>2 DEF ReportChanges
<1>4. MonitorInv => [CacheSuffices /\ ReportChanges =>
                       \A r \in reports' :
                         IF r.type = "STOPPED" THEN previous[r.app] \cap stayed = {}
                         ELSE found[r.app] \cap stayed \cap Members(previous) = {}]_monitorVars
  BY <1>3
<1> QED  BY <1>4, MonitorInvariance, PTL DEF ChurnIsSilent

(* The rest of the types.                                                  *)

Grouped(groups) ==
  DOMAIN groups \subseteq AppNames /\ \A n \in DOMAIN groups : groups[n] \in (SUBSET Pids) \ {{}}

MonitorRest ==
  /\ platform \in Platforms /\ Len(names) <= CacheSize
  /\ Grouped(found) /\ Grouped(previous)
  /\ reports \subseteq [type : {"STARTED", "STOPPED"}, app : AppNames]
  /\ ended \subseteq Pids /\ launches \in 0..MaxLaunches

\* What is remembered takes no more room than there is, and the name that an
\* examination finds is an application's.
LEMMA ExaminedFits ==
  ASSUME MonitorTyped, Len(names) <= CacheSize, NEW p \in Programs, NEW answer, ExaminedAs(p, answer)
  PROVE  Len(answer.cache) <= CacheSize /\ (answer.name # "SYSTEM" => answer.name \in AppNames)
<1>1. Len(names) \in Nat /\ DOMAIN names = 1..Len(names) /\ names \in Seq(CacheEntries)
  BY LenProperties DEF MonitorTyped
<1>2. \A k \in DOMAIN names : names[k] \in CacheEntries
  BY <1>1, ElementOfSeq
<1>3. \A m \in AppNames \cup {"SYSTEM"} : Shown(p, m) # "SYSTEM" => Shown(p, m) \in AppNames
  BY ProductName DEF Shown, HasDesktopEntry
<1>4. \A e \in CacheEntries : e.name \in AppNames \cup {"SYSTEM"}
  BY DEF CacheEntries
<1>5. answer.name # "SYSTEM" => answer.name \in AppNames
  BY <1>2, <1>3, <1>4, ExeName DEF ExaminedAs
<1>6. ASSUME NEW e \in CacheEntries, Cached(names, e.exe) = {}
      PROVE  Len(Remember(names, e)) <= CacheSize
  <2>1. CASE Len(names) >= CacheSize
    <3>1. Tail(names) \in Seq(CacheEntries) /\ Len(Tail(names)) = Len(names) - 1
      BY <1>1, <2>1, MonitorAssumption, EmptySeq, HeadTailProperties
    <3>2. Len(Append(Tail(names), e)) = Len(names)
      BY <1>1, <3>1, AppendProperties
    <3> QED  BY <1>6, <2>1, <3>2 DEF Remember
  <2>2. CASE ~(Len(names) >= CacheSize)
    <3>1. Len(Append(names, e)) = Len(names) + 1
      BY <1>1, AppendProperties
    <3> QED  BY <1>1, <2>2, <3>1, MonitorAssumption DEF Remember
  <2> QED  BY <2>1, <2>2
<1> QED  BY <1>5, <1>6 DEF ExaminedAs

LEMMA JoinGrouped ==
  ASSUME NEW groups, Grouped(groups), NEW name \in AppNames, NEW i \in Pids
  PROVE  Grouped(Join(groups, name, i))
<1>1. DOMAIN Join(groups, name, i) = DOMAIN groups \cup {name}
  BY DEF Join
<1>2. ASSUME NEW n \in DOMAIN groups \cup {name}
      PROVE  Join(groups, name, i)[n] \in (SUBSET Pids) \ {{}}
  <2>1. Join(groups, name, i)[n] =
          (IF n \in DOMAIN groups THEN groups[n] ELSE {}) \cup (IF n = name THEN {i} ELSE {})
    BY DEF Join
  <2>2. n \in DOMAIN groups => groups[n] \in SUBSET Pids /\ groups[n] # {}
    BY DEF Grouped
  <2> QED  BY <1>2, <2>1, <2>2
<1> QED  BY <1>1, <1>2 DEF Grouped

LEMMA NoGroupsGrouped == Grouped(NoGroups)
  BY DEF Grouped, NoGroups

LEMMA ExamineRest ==
  ASSUME MonitorInv, MonitorRest, NEW i \in Pids, Examine(i), UNCHANGED platform PROVE MonitorRest'
<1>1. UNCHANGED <<platform, previous, reports, ended, launches>>
  BY DEF Examine
<1>2. CASE process[i] = NotRunning
  BY <1>1, <1>2 DEF Examine, MonitorRest
<1>3. CASE process[i] # NotRunning
  <2>1. PICK p \in Programs : p = process[i]
    BY <1>3 DEF MonitorInv, MonitorTyped
  <2>2. PICK answer : answer = Examined(names, p)
    OBVIOUS
  <2>3. /\ names' = answer.cache
        /\ found' = IF answer.name = "SYSTEM" THEN found ELSE Join(found, answer.name, i)
    BY <1>3, <2>1, <2>2 DEF Examine
  <2>4. ExaminedAs(p, answer)
    BY <2>2, ExaminedOnWindows, ExaminedOnLinux DEF MonitorInv
  <2>5. Len(names') <= CacheSize /\ (answer.name # "SYSTEM" => answer.name \in AppNames)
    BY <2>3, <2>4, ExaminedFits DEF MonitorInv, MonitorRest
  <2>6. Grouped(found')
    BY <2>3, <2>5, JoinGrouped DEF MonitorRest
  <2> QED  BY <1>1, <2>5, <2>6 DEF MonitorRest, Grouped
<1> QED  BY <1>2, <1>3

LEMMA MonitorRestNext == MonitorInv /\ MonitorRest /\ [MonitorNext]_monitorVars => MonitorRest'
<1> SUFFICES ASSUME MonitorInv, MonitorRest, [MonitorNext]_monitorVars PROVE MonitorRest'
  OBVIOUS
<1>1. CASE UNCHANGED monitorVars
  BY <1>1 DEF monitorVars, MonitorRest, Grouped
<1>2. ASSUME NEW i \in Pids, Launch(i) \/ Exit(i), UNCHANGED platform PROVE MonitorRest'
  <2>1. UNCHANGED <<platform, names, found, previous, reports>>
    BY <1>2 DEF Launch, Exit
  <2>2. ended' \subseteq Pids /\ launches' \in 0..MaxLaunches
    <3>1. CASE Launch(i)
      BY <1>2, <3>1, MonitorAssumption DEF Launch, MonitorRest
    <3>2. CASE Exit(i)
      BY <1>2, <3>2 DEF Exit, MonitorRest
    <3> QED  BY <1>2, <3>1, <3>2
  <2> QED  BY <2>1, <2>2 DEF MonitorRest, Grouped
<1>3. ASSUME NEW i \in Pids, Examine(i), UNCHANGED platform PROVE MonitorRest'
  BY <1>3, ExamineRest
<1>4. CASE BeginScan /\ UNCHANGED platform
  BY <1>4 DEF BeginScan, MonitorRest, Grouped
<1>5. CASE ReportChanges /\ UNCHANGED platform
  <2>1. /\ UNCHANGED <<platform, names, launches>> /\ previous' = found /\ found' = NoGroups
        /\ ended' = {} /\ reports' = Opened(found, previous) \cup Closed(found, previous)
    BY <1>5 DEF ReportChanges
  <2>2. reports' \subseteq [type : {"STARTED", "STOPPED"}, app : AppNames]
    BY <2>1 DEF Opened, Closed, MonitorRest, Grouped
  <2> QED  BY <2>1, <2>2, NoGroupsGrouped DEF MonitorRest, Grouped
<1>6. CASE ScanFails /\ UNCHANGED platform
  BY <1>6, NoGroupsGrouped DEF ScanFails, MonitorRest, Grouped
<1> QED  BY <1>1, <1>2, <1>3, <1>4, <1>5, <1>6 DEF MonitorNext

LEMMA MonitorRestInit == MonitorInit => MonitorRest
  BY NoGroupsGrouped, MonitorAssumption DEF MonitorInit, MonitorRest

LEMMA MonitorTypes == MonitorInv /\ MonitorRest => MonitorTypeOK
<1> SUFFICES ASSUME MonitorInv, MonitorRest PROVE MonitorTypeOK
  OBVIOUS
<1>1. names \in Seq([exe : AppNames, name : AppNames \cup {"SYSTEM"}])
  <2>1. /\ names \in Seq(CacheEntries)
        /\ CacheEntries \subseteq [exe : AppNames, name : AppNames \cup {"SYSTEM"}]
    BY DEF MonitorInv, MonitorTyped, CacheEntries
  <2> HIDE DEF CacheEntries
  <2> QED  BY <2>1, SeqMonotonic
<1>2. stayed \subseteq Pids
  BY DEF MonitorInv, MonitorTyped, Alive
<1> QED  BY <1>1, <1>2 DEF MonitorTypeOK, MonitorInv, MonitorTyped, MonitorRest, Grouped

(***************************************************************************)
(* The discovery of the Master.                                            *)
(***************************************************************************)

\* The client has a URL as soon as it has resolved one, and before its start no
\* phase needs one.
DiscoveryInv ==
  /\ DiscoveryTypeOK
  /\ starting <=> url = Nothing
  /\ phase \in {"off", "verify", "cache"} => starting
  /\ phase = "verify" => setting.kind # "none"
  /\ cached.url = Nothing => cached = NoneCached

LEMMA UrlTypes ==
  /\ HostNames = {FixedName, HostName} /\ Nothing \notin HostNames
  /\ HostNames \subseteq Urls /\ Addresses \subseteq Urls /\ Localhost \in Urls /\ Nothing \notin Urls
  /\ \A x \in Settings : IF x.kind = "none" THEN x.url = Nothing ELSE x.url \in Urls
  BY DiscoveryAssumption DEF HostNames, Urls, Settings, Kinds

LEMMA DiscoveryInitInv == DiscoveryInit => DiscoveryInv
<1> SUFFICES ASSUME DiscoveryInit PROVE DiscoveryInv
  OBVIOUS
<1>1. resolves \in [HostNames -> Addresses \cup {Nothing}]
  BY DEF DiscoveryInit
<1> QED  BY <1>1, DiscoveryAssumption DEF DiscoveryInit, DiscoveryInv, DiscoveryTypeOK, NoneCached

\* The client takes a URL that is one.
LEMMA UpInv ==
  ASSUME DiscoveryInv, NEW u \in Urls, Up(u), UNCHANGED <<networkVars, setting, moves>>,
         cached' = cached \/ (cached'.url \in Urls /\ cached'.host \in HostNames \cup {Nothing})
  PROVE  DiscoveryInv'
<1>1. u # Nothing
  BY UrlTypes
<1>2. cached'.url = Nothing => cached' = NoneCached
  BY UrlTypes DEF DiscoveryInv
<1>3. cached'.url \in Urls \cup {Nothing} /\ cached'.host \in HostNames \cup {Nothing}
  BY DEF DiscoveryInv, DiscoveryTypeOK
<1> QED  BY <1>1, <1>2, <1>3 DEF Up, DiscoveryInv, DiscoveryTypeOK, networkVars

\* The client goes on to the next phase.
LEMMA PhaseInv ==
  ASSUME DiscoveryInv, NEW next \in {"verify", "lan", "names", "cache", "up"}, phase' = next,
         UNCHANGED <<networkVars, setting, moves, url, starting>>,
         cached' = cached \/ (cached'.url \in Urls /\ cached'.host \in HostNames \cup {Nothing}),
         next \in {"verify", "cache"} => starting, next = "up" => ~starting,
         next = "verify" => setting.kind # "none"
  PROVE  DiscoveryInv'
<1>1. cached'.url = Nothing => cached' = NoneCached
  BY UrlTypes DEF DiscoveryInv
<1>2. cached'.url \in Urls \cup {Nothing} /\ cached'.host \in HostNames \cup {Nothing}
  BY DEF DiscoveryInv, DiscoveryTypeOK
<1> QED  BY <1>1, <1>2 DEF DiscoveryInv, DiscoveryTypeOK, networkVars

\* What a search has found is in the cache, and taken or passed over.
LEMMA FoundInv ==
  ASSUME DiscoveryInv, NEW u \in Urls, NEW h \in HostNames, NEW next \in {"names", "up"},
         cached' = [url |-> u, host |-> h], Take(u, next), UNCHANGED <<networkVars, setting, moves>>
  PROVE  DiscoveryInv'
<1>1. CASE starting \/ u # url
  BY <1>1, UpInv DEF Take
<1>2. CASE ~(starting \/ u # url)
  BY <1>2, PhaseInv DEF Take
<1> QED  BY <1>1, <1>2

LEMMA ResolveInv == ASSUME DiscoveryInv, Resolve PROVE DiscoveryInv'
<1> USE DEF DiscoveryInv
<1>1. /\ setting \in Settings /\ phase \in {"off", "verify", "lan", "names", "cache", "up"}
      /\ UNCHANGED <<networkVars, setting, moves>>
  BY DEF DiscoveryTypeOK, Resolve, Start, VerifySetting, LanFinds, LanFindsNothing, NameFinds,
         NamesFindNothing, TryCache
<1>2. setting.kind # "none" => setting.url \in Urls
  BY <1>1, UrlTypes
<1>3. CASE Start
  BY <1>1, <1>3, UrlTypes, UpInv, PhaseInv DEF Start
<1>4. CASE VerifySetting
  <2>1. setting.url \in Urls
    BY <1>2, <1>4 DEF VerifySetting
  <2>2. PICK u : u = setting.url
    OBVIOUS
  <2>3. CASE Healthy(setting.url)
    <3>1. Up(u) /\ cached' = [url |-> u, host |-> Nothing]
      BY <1>4, <2>2, <2>3 DEF VerifySetting
    <3>2. u \in Urls /\ cached'.url \in Urls /\ cached'.host \in HostNames \cup {Nothing}
      BY <2>1, <2>2, <3>1
    <3> QED  BY <1>1, <3>1, <3>2, UpInv
  <2>4. CASE ~Healthy(setting.url)
    <3>1. phase' = "lan" /\ UNCHANGED <<url, starting, cached>>
      BY <1>4, <2>4 DEF VerifySetting
    <3> QED  BY <1>1, <3>1, PhaseInv
  <2> QED  BY <2>3, <2>4
<1>5. CASE LanFinds
  <2>1. Advertised \in Urls /\ HostName \in HostNames
    BY <1>5, UrlTypes DEF LanFinds, Answers, Advertised, DiscoveryTypeOK
  <2> QED  BY <1>1, <1>5, <2>1, FoundInv DEF LanFinds
<1>6. CASE LanFindsNothing
  BY <1>1, <1>2, <1>6, UpInv, PhaseInv DEF LanFindsNothing
<1>7. CASE NameFinds
  <2>1. PICK name : name = IF FixedName \in GoodNames THEN FixedName ELSE HostName
    OBVIOUS
  <2>2. name \in Urls /\ name \in HostNames
    BY <2>1, UrlTypes
  <2>3. cached' = [url |-> name, host |-> name] /\ Take(name, "up")
    BY <1>7, <2>1 DEF NameFinds
  <2> QED  BY <1>1, <2>2, <2>3, FoundInv
<1>8. CASE NamesFindNothing
  BY <1>1, <1>8, PhaseInv DEF NamesFindNothing
<1>9. CASE TryCache
  <2>1. PICK u : u = IF cached # NoneCached /\ Healthy(cached.url) THEN cached.url
                     ELSE IF setting.kind = ".env" THEN setting.url ELSE Localhost
    OBVIOUS
  <2>2. cached # NoneCached => cached.url \in Urls
    BY DEF DiscoveryTypeOK
  <2>3. u \in Urls
    BY <1>2, <2>1, <2>2, UrlTypes
  <2> QED  BY <1>1, <1>9, <2>1, <2>3, UpInv DEF TryCache
<1> QED  BY <1>3, <1>4, <1>5, <1>6, <1>7, <1>8, <1>9 DEF Resolve

LEMMA DiscoveryNextInv == DiscoveryInv /\ [DiscoveryNext]_discoveryVars => DiscoveryInv'
<1> SUFFICES ASSUME DiscoveryInv, [DiscoveryNext]_discoveryVars PROVE DiscoveryInv'
  OBVIOUS
<1>1. CASE UNCHANGED discoveryVars
  BY <1>1 DEF discoveryVars, networkVars, DiscoveryInv, DiscoveryTypeOK
<1>2. ASSUME Move PROVE moves' \in 0..MaxMoves
  BY <1>2, DiscoveryAssumption DEF Move, DiscoveryInv, DiscoveryTypeOK
<1>3. CASE RequestCannotConnect \/ RequestTimesOut
  BY <1>2, <1>3 DEF RequestCannotConnect, RequestTimesOut, Rediscover, networkVars, DiscoveryInv,
                    DiscoveryTypeOK
<1>4. CASE MasterMoves
  BY <1>2, <1>4 DEF MasterMoves, DiscoveryInv, DiscoveryTypeOK
<1>5. CASE NetworkChanges
  <2>1. UNCHANGED <<home, pinned, setting, cached, phase, starting, url>>
    BY <1>5 DEF NetworkChanges
  <2>2. udp' \in BOOLEAN
    BY <1>5, Zenon DEF NetworkChanges, DiscoveryInv, DiscoveryTypeOK
  <2>3. resolves' \in [HostNames -> Addresses \cup {Nothing}]
    BY <1>5 DEF NetworkChanges, DiscoveryInv, DiscoveryTypeOK
  <2> QED  BY <1>2, <1>5, <2>1, <2>2, <2>3 DEF NetworkChanges, DiscoveryInv, DiscoveryTypeOK
<1>6. CASE RestartClient
  BY <1>2, <1>6 DEF RestartClient, networkVars, DiscoveryInv, DiscoveryTypeOK
<1>7. CASE Resolve
  BY <1>7, ResolveInv
<1> QED  BY <1>1, <1>3, <1>4, <1>5, <1>6, <1>7 DEF DiscoveryNext, Step

\* A client that is up has a URL, however the Master moves and the client restarts.
THEOREM DiscoveryTypeCorrect == DiscoverySpec => []DiscoveryTypeOK
<1>1. DiscoveryInv => DiscoveryTypeOK
  BY DEF DiscoveryInv
<1> QED  BY <1>1, DiscoveryInitInv, DiscoveryNextInv, PTL DEF DiscoverySpec

(***************************************************************************)
(* The parts side by side.                                                 *)
(***************************************************************************)
PartsInv ==
  /\ part \in {"uplink", "collector", "discovery", "firewall", "attempts"}
  /\ part = "uplink" => UplinkKept
  /\ part = "collector" => MonitorInv /\ MonitorRest
  /\ part = "discovery" => DiscoveryInv
  /\ part = "firewall" => IInv
  /\ part = "attempts" => AttemptsInv

LEMMA PartsInitInv == Init => PartsInv
  BY UplinkInitKept, MonitorInitInv, MonitorRestInit, DiscoveryInitInv, InitInv, AttemptsInitInv
     DEF Init, PartsInv

\* A step is one of the part that runs.
LEMMA PartsNextInv == PartsInv /\ [Next]_vars => PartsInv'
<1> SUFFICES ASSUME PartsInv, [Next]_vars PROVE PartsInv'
  OBVIOUS
<1>1. part' = part
  BY DEF Next, vars
<1>2. CASE part = "uplink"
  <2>1. [UplinkNext]_uplinkVars
    BY <1>2 DEF Next, vars
  <2> QED  BY <1>1, <1>2, <2>1, UplinkNextKept DEF PartsInv
<1>3. CASE part = "collector"
  <2>1. [MonitorNext]_monitorVars
    BY <1>3 DEF Next, vars
  <2> QED  BY <1>1, <1>3, <2>1, MonitorNextInv, MonitorRestNext DEF PartsInv
<1>4. CASE part = "discovery"
  <2>1. [DiscoveryNext]_discoveryVars
    BY <1>4 DEF Next, vars
  <2> QED  BY <1>1, <1>4, <2>1, DiscoveryNextInv DEF PartsInv
<1>5. CASE part = "firewall"
  <2>1. [AgentNext]_agentVars
    BY <1>5 DEF Next, vars
  <2> QED  BY <1>1, <1>5, <2>1, NextInv DEF PartsInv
<1>6. CASE part = "attempts"
  <2>1. [AttemptsNext]_<<agentVars, attemptVars>>
    BY <1>6 DEF Next, vars
  <2> QED  BY <1>1, <1>6, <2>1, AttemptsNextInv DEF PartsInv
<1> QED  BY <1>2, <1>3, <1>4, <1>5, <1>6 DEF PartsInv

LEMMA AttemptsTypes == AttemptsInv => AgentTypeOK /\ AttemptsTypeOK
<1> SUFFICES ASSUME AttemptsInv PROVE AgentTypeOK /\ AttemptsTypeOK
  OBVIOUS
<1>1. ASSUME NEW v \in Visitors
      PROVE  /\ Stage(v) \in Ended \cup {"asked", "match", "passed", "blocked", "noted", "sent",
                                        "insert", "refused"}
             /\ Stage(v) = "asked" => visit[v].q \in Requests80 \cup Requests443
  <2>1. visit[v] \in Visits
    BY DEF AttemptsInv, VisitsTyped
  <2> QED  BY <2>1 DEF Visits, Stage, Ended
<1>2. Len(recent) <= MaxRecent /\ rows \in [Keys -> Nat] /\ minute \in Minutes
  BY DEF AttemptsInv, VisitsTyped
<1> QED  BY <1>1, <1>2 DEF AttemptsTypeOK, AttemptsInv, IInv

\* Whichever part of the client runs, with any applications, programs, addresses, names or
\* visitors, it stays in the states of its type.
THEOREM PartsTyped == Spec => []PartsTypeOK
<1>1. PartsInv => PartsTypeOK
  BY UplinkTypes, MonitorTypes, AttemptsTypes DEF PartsInv, PartsTypeOK, DiscoveryInv, IInv
<1> QED  BY <1>1, PartsInitInv, PartsNextInv, PTL DEF Spec
=============================================================================
