--------------------------- MODULE MasterDiscovery ---------------------------
(***************************************************************************)
(* How a client comes to know where the Master is, and comes to know it    *)
(* again.  At its start it resolves a URL: one given by its environment or *)
(* its .env file is verified and otherwise looked for on the network, by a *)
(* UDP broadcast that the Master answers, by host names, and in the cache  *)
(* of the last Master found.  When a request cannot connect later on, the  *)
(* client looks by broadcast and by names.  Every candidate is verified    *)
(* with a TCP connection and a health request before it is taken.          *)
(*                                                                         *)
(* The Master moves, comes and goes meanwhile.  The two clients' code is   *)
(* the same.                                                               *)
(***************************************************************************)
EXTENDS Integers, FiniteSets

CONSTANTS
  Addresses,   \* URLs that hold an address of the network
  Localhost,   \* http://127.0.0.1:9100
  FixedName,   \* the URL of the host apexeye-master
  HostName,    \* the URL of the Master's own host name
  Nothing,     \* no address, no URL, no name
  MaxMoves     \* bound on what happens to the network and the processes

HostNames == {FixedName, HostName}
Urls == Addresses \cup HostNames \cup {Localhost}
Kinds == {"environment", ".env", "address", "none"}

ASSUME DiscoveryAssumption ==
  /\ Cardinality(HostNames) = 2 /\ Localhost \notin Addresses \cup HostNames
  /\ Addresses \cap HostNames = {} /\ Nothing \notin Urls /\ MaxMoves \in Nat

VARIABLES
  home,       \* where the Master is served, or Nothing
  pinned,     \* the address it is told to advertise, or Nothing
  udp,        \* broadcasts and their answers get through
  resolves,   \* the address each host name resolves to
  setting,    \* the kind of the client's setting and its URL
  cached,     \* the cache file: the URL and the name of the last Master found
  phase,      \* what the client does next
  starting,   \* it is resolving for the first time since its start
  url,        \* the URL it sends to
  moves       \* uses of MaxMoves

networkVars == <<home, pinned, udp, resolves>>
discoveryVars == <<networkVars, setting, cached, phase, starting, url, moves>>

NoneCached == [url |-> Nothing, host |-> Nothing]

Settings ==
  {[kind |-> k, url |-> u] : k \in Kinds \ {"none"}, u \in Addresses \cup {Localhost}} \cup
  {[kind |-> "none", url |-> Nothing]}

DiscoveryInit ==
  /\ home \in Addresses \cup {Nothing} /\ pinned \in Addresses \cup {Nothing}
  /\ udp = TRUE
  /\ resolves = [n \in HostNames |-> Nothing]
  /\ setting \in Settings
  /\ cached = NoneCached
  /\ phase = "off" /\ starting = TRUE /\ url = Nothing
  /\ moves = 0

-----------------------------------------------------------------------------
(* What verification finds, and what the Master says of itself.            *)

\* verify_master_endpoint: the Master is healthy where it is served.
Healthy(u) ==
  home # Nothing /\ (u = home \/ (u \in HostNames /\ resolves[u] = home))

\* The address is looked up for every answer, unless one is set for good.
Advertised == IF pinned # Nothing THEN pinned ELSE home

\* The Master's listener hears a probe, and its answer is heard.
Answers == udp /\ home # Nothing

-----------------------------------------------------------------------------
(* The client. *)

Up(u) == phase' = "up" /\ url' = u /\ starting' = FALSE

\* The address form of the setting is not verified when it is the localhost.
Start ==
  /\ phase = "off"
  /\ CASE setting.kind = "none" -> phase' = "lan" /\ UNCHANGED <<url, starting>>
       [] setting.kind = "address" /\ setting.url = Localhost -> Up(Localhost)
       [] OTHER -> phase' = "verify" /\ UNCHANGED <<url, starting>>
  /\ UNCHANGED <<networkVars, setting, cached, moves>>

\* The host name in the cache is lost.
VerifySetting ==
  /\ phase = "verify"
  /\ IF Healthy(setting.url)
     THEN Up(setting.url) /\ cached' = [url |-> setting.url, host |-> Nothing]
     ELSE phase' = "lan" /\ UNCHANGED <<url, starting, cached>>
  /\ UNCHANGED <<networkVars, setting, moves>>

\* Faulty variant: what a later search finds is not taken.
TakeAtStart(u, next) ==
  IF starting THEN Up(u) ELSE phase' = next /\ UNCHANGED <<url, starting>>

\* A search has found u: at the start it is taken, and later when it is another
\* than the one in use; otherwise the search goes on.
Take(u, next) ==
  IF starting \/ u # url THEN Up(u) ELSE phase' = next /\ UNCHANGED <<url, starting>>

LanFinds ==
  /\ phase = "lan" /\ Answers /\ Healthy(Advertised)
  /\ cached' = [url |-> Advertised, host |-> HostName]
  /\ Take(Advertised, "names")
  /\ UNCHANGED <<networkVars, setting, moves>>

\* At the start a setting in the environment, or in the form of an address, is then
\* taken as it is.
LanFindsNothing ==
  /\ phase = "lan" /\ ~(Answers /\ Healthy(Advertised))
  /\ IF starting /\ setting.kind \in {"environment", "address"} THEN Up(setting.url)
     ELSE phase' = "names" /\ UNCHANGED <<url, starting>>
  /\ UNCHANGED <<networkVars, setting, cached, moves>>

\* The fixed name is tried before the one in the cache.
GoodNames == {n \in {FixedName} \cup ({cached.host} \ {Nothing}) : Healthy(n)}

NameFinds ==
  LET name == IF FixedName \in GoodNames THEN FixedName ELSE HostName
  IN  /\ phase = "names" /\ GoodNames # {}
      /\ cached' = [url |-> name, host |-> name]
      /\ Take(name, "up")
      /\ UNCHANGED <<networkVars, setting, moves>>

NamesFindNothing ==
  /\ phase = "names" /\ GoodNames = {}
  /\ phase' = IF starting THEN "cache" ELSE "up"
  /\ UNCHANGED <<networkVars, setting, cached, url, starting, moves>>

TryCache ==
  /\ phase = "cache"
  /\ Up(IF cached # NoneCached /\ Healthy(cached.url) THEN cached.url
        ELSE IF setting.kind = ".env" THEN setting.url ELSE Localhost)
  /\ UNCHANGED <<networkVars, setting, cached, moves>>

Resolve ==
  Start \/ VerifySetting \/ LanFinds \/ LanFindsNothing \/ NameFinds \/ NamesFindNothing \/ TryCache

Rediscover ==
  /\ phase = "up" /\ phase' = "lan"
  /\ UNCHANGED <<networkVars, setting, cached, starting, url>>

\* A request that cannot connect, in its first two attempts.
RequestCannotConnect == ~Healthy(url) /\ Rediscover /\ UNCHANGED moves

Step == Resolve \/ RequestCannotConnect

-----------------------------------------------------------------------------
(* Everything else. *)

Move == moves < MaxMoves /\ moves' = moves + 1

RequestTimesOut == Healthy(url) /\ Move /\ Rediscover

MasterMoves ==
  /\ Move /\ home' \in Addresses \cup {Nothing}
  /\ UNCHANGED <<pinned, udp, resolves, setting, cached, phase, starting, url>>

NetworkChanges ==
  /\ Move
  /\ \/ udp' = ~udp /\ UNCHANGED resolves
     \/ /\ \E n \in HostNames, p \in Addresses \cup {Nothing} : resolves' = [resolves EXCEPT ![n] = p]
        /\ UNCHANGED udp
  /\ UNCHANGED <<home, pinned, setting, cached, phase, starting, url>>

\* The setting stays, and so does the cache.
RestartClient ==
  /\ Move
  /\ phase' = "off" /\ starting' = TRUE /\ url' = Nothing
  /\ UNCHANGED <<networkVars, setting, cached>>

DiscoveryNext == Step \/ RequestTimesOut \/ MasterMoves \/ NetworkChanges \/ RestartClient

\* The workers keep sending, and every probe has a timeout.
DiscoveryFairness == WF_discoveryVars(Step)

DiscoverySpec == DiscoveryInit /\ [][DiscoveryNext]_discoveryVars /\ DiscoveryFairness

-----------------------------------------------------------------------------
(* Properties. *)

DiscoveryTypeOK ==
  /\ {home, pinned} \subseteq Addresses \cup {Nothing} /\ udp \in BOOLEAN
  /\ resolves \in [HostNames -> Addresses \cup {Nothing}]
  /\ setting \in Settings
  /\ cached.url \in Urls \cup {Nothing} /\ cached.host \in HostNames \cup {Nothing}
  /\ phase \in {"off", "verify", "lan", "names", "cache", "up"}
  /\ starting \in BOOLEAN /\ url \in Urls \cup {Nothing} /\ (phase = "up" => url # Nothing)
  /\ moves \in 0..MaxMoves

\* Wherever the Master moves, and whatever the client was told, has cached or was
\* using: once the Master stays in a place that its broadcasts advertise or the
\* fixed name stands for, the client comes to send to it and stays with it.
FindsTheMaster ==
  LET known == home # Nothing /\ ((udp /\ Advertised = home) \/ resolves[FixedName] = home)
  IN  <>[]known => <>[](phase = "up" /\ Healthy(url))
=============================================================================
