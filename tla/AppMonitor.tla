------------------------------ MODULE AppMonitor ------------------------------
(***************************************************************************)
(* The clients' event collector: every scan examines the running processes *)
(* one by one, groups those of user applications by the application's      *)
(* name, and reports the groups that appeared and disappeared since the    *)
(* scan before.  How an executable name is classified is remembered in a   *)
(* cache with a limit.  Processes start and exit between any two steps of  *)
(* a scan.  The Windows and the Linux client differ in what they filter    *)
(* and in what they ask the cache for.                                     *)
(*                                                                         *)
(* A program is an executable with what the collector can learn of it: its *)
(* executable name, whether the name is in the taxonomy of known           *)
(* applications or in the list of ignored ones, whether it runs as a       *)
(* service (a child of services.exe, a kernel thread) or under a system    *)
(* account, whether it lies in a system directory, whether its name looks  *)
(* like a worker's, and the product name it declares (its version          *)
(* information, its .desktop entry) or Undeclared.                         *)
(***************************************************************************)
EXTENDS Integers, FiniteSets, Sequences

CONSTANTS
  Platforms,    \* "windows", "linux"
  Programs,     \* the programs users and the system run
  Undeclared,   \* no product name
  Pids,         \* process ids
  CacheSize,    \* _CACHE_MAX_ENTRIES: 512 in the code
  MaxLaunches   \* bound on the processes that are started

Program(labels) == [exe : labels, known : BOOLEAN, ignored : BOOLEAN, service : BOOLEAN,
                   system : BOOLEAN, sysdir : BOOLEAN, worker : BOOLEAN,
                   product : labels \cup {Undeclared}]

AppNames == ({p.exe : p \in Programs} \cup {p.product : p \in Programs}) \ {Undeclared}
NotRunning == [exe |-> Undeclared]

\* "SYSTEM" marks what is no application (in the code a category beside the name).
ASSUME MonitorAssumption ==
  /\ Programs \subseteq Program(AppNames) /\ IsFiniteSet(Programs) /\ "SYSTEM" \notin AppNames
  /\ Platforms \subseteq {"windows", "linux"} /\ Pids \subseteq Nat
  /\ CacheSize \in Nat \ {0} /\ MaxLaunches \in Nat

VARIABLES
  platform,   \* the client's
  process,    \* the program of each process
  names,      \* the classification cache, the oldest entry first
  todo,       \* processes the scan under way has still to examine
  scanning,   \* a scan is under way
  found,      \* the groups it has found: application name to process ids
  previous,   \* the groups of the scan before
  reports,    \* events of the last scan
  stayed,     \* processes that have run throughout since the scan before
  ended,      \* ids whose process has ended since the scan under way began
  launches    \* processes started

monitorVars == <<platform, process, names, todo, scanning, found, previous, reports, stayed, ended, launches>>

Alive == {i \in Pids : process[i] # NotRunning}

-----------------------------------------------------------------------------
(* Classification. *)

\* The name of the application: the file description or product name of the
\* executable's version information, failing that a title made of its file name.
VersionInfoName(p) == IF p.product # Undeclared THEN p.product ELSE p.exe

\* A .desktop entry names the executable.
HasDesktopEntry(p) == p.product # Undeclared

DesktopName(p) == IF HasDesktopEntry(p) THEN p.product ELSE p.exe

\* Kernel threads and the daemons of the lists: by name or by their parent.
Infrastructure(p) == p.ignored \/ p.service

\* A known application counts wherever it lies and whoever started it, except
\* under a system account.  Session 0 is not looked at: the process objects
\* have no session_id.
IsUserApplicationWindows(p) ==
  /\ ~p.ignored /\ ~p.system
  /\ p.known \/ ~(p.service \/ p.sysdir \/ p.worker)

IsUserApplicationLinux(p) ==
  /\ ~Infrastructure(p)
  /\ p.known \/ ~(p.system \/ p.sysdir \/ p.worker)

Cached(memory, exe) == {i \in DOMAIN memory : memory[i].exe = exe}

\* Faulty variant: the last place is never used.
RememberFewer(memory, entry) ==
  LET full == Len(memory) >= CacheSize - 1 /\ Cached(memory, entry.exe) = {}
  IN  Append(IF full THEN Tail(memory) ELSE memory, entry)

\* _bounded_cache_set: the oldest entry gives way.
Remember(memory, entry) ==
  LET full == Len(memory) >= CacheSize /\ Cached(memory, entry.exe) = {}
  IN  Append(IF full THEN Tail(memory) ELSE memory, entry)

\* What a lookup of program p answers, and the cache afterwards: the name of the
\* application, or "SYSTEM".
Answer(memory, p, name) ==
  [name |-> name, cache |-> Remember(memory, [exe |-> p.exe, name |-> name])]

\* What is in the taxonomy or ignored does not reach the cache; any other name
\* stands for whatever its first process was.
ClassifyWindows(memory, p) ==
  LET hit == Cached(memory, p.exe)
  IN  CASE p.ignored -> [name |-> "SYSTEM", cache |-> memory]
        [] ~p.ignored /\ p.known -> [name |-> p.exe, cache |-> memory]
        [] ~p.ignored /\ ~p.known /\ hit # {} ->
             [name |-> memory[CHOOSE i \in hit : TRUE].name, cache |-> memory]
        [] OTHER -> Answer(memory, p, IF IsUserApplicationWindows(p) THEN VersionInfoName(p)
                                      ELSE "SYSTEM")

ClassifyLinux(memory, p) ==
  LET hit == Cached(memory, p.exe)
  IN  CASE Infrastructure(p) -> [name |-> "SYSTEM", cache |-> memory]
        [] ~Infrastructure(p) /\ p.known -> [name |-> p.exe, cache |-> memory]
        [] ~(Infrastructure(p) \/ p.known) /\ hit # {} ->
             [name |-> memory[CHOOSE i \in hit : TRUE].name, cache |-> memory]
        [] OTHER -> Answer(memory, p, IF IsUserApplicationLinux(p) THEN DesktopName(p)
                                      ELSE "SYSTEM")

\* Faulty variant: the filter is left to the classification.
ExamineUnfiltered(memory, p) == ClassifyWindows(memory, p)

\* The Windows client filters by the process itself before it asks for the name.
ExamineWindows(memory, p) ==
  IF IsUserApplicationWindows(p) THEN ClassifyWindows(memory, p)
  ELSE [name |-> "SYSTEM", cache |-> memory]

\* The Linux client asks the cache first, and the product name is then looked
\* up afresh.
ExamineLinux(memory, p) ==
  LET answer == ClassifyLinux(memory, p)
  IN  IF answer.name # "SYSTEM" /\ ~p.known /\ HasDesktopEntry(p)
      THEN [answer EXCEPT !.name = p.product] ELSE answer

Examined(memory, p) ==
  IF platform = "windows" THEN ExamineWindows(memory, p) ELSE ExamineLinux(memory, p)

-----------------------------------------------------------------------------
NoGroups == [name \in {} |-> {}]

\* Process i joins the group of application name.
Join(groups, name, i) ==
  [n \in DOMAIN groups \cup {name} |->
     (IF n \in DOMAIN groups THEN groups[n] ELSE {}) \cup (IF n = name THEN {i} ELSE {})]

MonitorInit ==
  /\ platform \in Platforms
  /\ process = [i \in Pids |-> NotRunning]
  /\ names = <<>> /\ todo = {} /\ scanning = FALSE
  /\ found = NoGroups /\ previous = NoGroups
  /\ reports = {} /\ stayed = {} /\ ended = {} /\ launches = 0

Launch(i) ==
  /\ process[i] = NotRunning /\ launches < MaxLaunches
  /\ \E p \in Programs : process' = [process EXCEPT ![i] = p]
  /\ launches' = launches + 1
  /\ UNCHANGED <<names, todo, scanning, found, previous, reports, stayed, ended>>

Exit(i) ==
  /\ process[i] # NotRunning
  /\ process' = [process EXCEPT ![i] = NotRunning]
  /\ stayed' = stayed \ {i} /\ ended' = IF scanning THEN ended \cup {i} ELSE {}
  /\ UNCHANGED <<names, todo, scanning, found, previous, reports, launches>>

\* The ids are listed first, and the processes examined one after the other.
BeginScan ==
  /\ ~scanning /\ scanning' = TRUE
  /\ todo' = Alive /\ ended' = {} /\ reports' = {}
  /\ UNCHANGED <<process, names, found, previous, stayed, launches>>

Examine(i) ==
  /\ scanning /\ i \in todo /\ \A j \in todo : i <= j
  /\ todo' = todo \ {i}
  /\ IF process[i] = NotRunning THEN UNCHANGED <<names, found>>
     ELSE LET answer == Examined(names, process[i])
          IN  /\ names' = answer.cache
              /\ found' = IF answer.name = "SYSTEM" THEN found ELSE Join(found, answer.name, i)
  /\ UNCHANGED <<process, scanning, previous, reports, stayed, ended, launches>>

Members(groups) == UNION {groups[n] : n \in DOMAIN groups}

\* One event per application that was in no group before, and one per
\* application that is in none any more.
Opened(now, before) == [type : {"STARTED"}, app : DOMAIN now \ DOMAIN before]
Closed(now, before) == [type : {"STOPPED"}, app : DOMAIN before \ DOMAIN now]

ReportChanges ==
  /\ scanning /\ todo = {} /\ scanning' = FALSE
  /\ reports' = Opened(found, previous) \cup Closed(found, previous)
  /\ previous' = found /\ found' = NoGroups
  /\ stayed' = Alive \ ended /\ ended' = {}
  /\ UNCHANGED <<process, names, todo, launches>>

\* Listing the processes fails: nothing is reported, the scan before stays.
ScanFails ==
  /\ scanning /\ scanning' = FALSE
  /\ todo' = {} /\ found' = NoGroups /\ ended' = {}
  /\ UNCHANGED <<process, names, previous, reports, stayed, launches>>

MonitorNext ==
  /\ \/ \E i \in Pids : Launch(i) \/ Exit(i) \/ Examine(i)
     \/ BeginScan \/ ReportChanges \/ ScanFails
  /\ UNCHANGED platform

MonitorSpec == MonitorInit /\ [][MonitorNext]_monitorVars

-----------------------------------------------------------------------------
(* Properties. *)

MonitorTypeOK ==
  /\ platform \in Platforms
  /\ process \in [Pids -> Programs \cup {NotRunning}]
  /\ names \in Seq([exe : AppNames, name : AppNames \cup {"SYSTEM"}]) /\ Len(names) <= CacheSize
  /\ todo \subseteq Pids /\ scanning \in BOOLEAN
  /\ \A groups \in {found, previous} :
       DOMAIN groups \subseteq AppNames /\ \A n \in DOMAIN groups : groups[n] \in (SUBSET Pids) \ {{}}
  /\ reports \subseteq [type : {"STARTED", "STOPPED"}, app : AppNames]
  /\ stayed \subseteq Pids /\ ended \subseteq Pids /\ launches \in 0..MaxLaunches

\* The cache has room for every executable name that is classified with it.
CacheSuffices == Cardinality({p.exe : p \in {q \in Programs : ~q.known}}) <= CacheSize

\* Starting and ending of further processes of an application is silent: a scan
\* reports neither the end of an application one of whose processes has run ever
\* since the scan before, nor the start of one that such a process was already
\* counted for, whichever way processes were listed, examined and cached.  (Once
\* names give way in the cache, two products that share an executable name may
\* swap names between scans.)
ChurnIsSilent ==
  [][CacheSuffices /\ ReportChanges =>
       \A r \in reports' :
         IF r.type = "STOPPED" THEN previous[r.app] \cap stayed = {}
         ELSE found[r.app] \cap stayed \cap Members(previous) = {}]_monitorVars

\* On Windows a process of a user application that runs on from one scan to the
\* end of the next is in a group: the cache is asked only about processes that
\* pass the filter themselves, so no system process hides an application of its
\* name.  (On Linux the cache comes first, and one does.)
CacheHidesNoApplication ==
  [][platform = "windows" /\ ReportChanges =>
       \A i \in stayed : IsUserApplicationWindows(process[i]) => i \in Members(found)]_monitorVars
=============================================================================
