----------------------------- MODULE CctvMonitor -----------------------------
(***************************************************************************)
(* The Master's monitoring of one camera: the probe of its endpoint, the   *)
(* monitor thread that polls every enabled camera, the checks an           *)
(* administrator asks for meanwhile, and the registration they read.  A    *)
(* check holds the lock only while it exchanges the last known status for  *)
(* its own result; reading the row, probing, storing the result and        *)
(* logging the transition are steps of their own, each with a database     *)
(* connection of its own.  Cameras share nothing but the thread.           *)
(***************************************************************************)
EXTENDS Integers, FiniteSets

CONSTANTS
  Checkers,      \* requests for an immediate check
  Poller,        \* the monitor thread
  Endpoints,     \* addresses a camera is registered with
  Behaviours,    \* what may answer at an address
  NoCamera,      \* no row in cctv_devices
  CctvChanges    \* bound on what administrators, cameras and failures do

Threads == Checkers \cup {Poller}
Statuses == {"ONLINE", "ONLINE_NETWORK", "OFFLINE"}
Unset == "unset"

-----------------------------------------------------------------------------
(* The probe.  A behaviour is what the socket calls of one probe meet: a   *)
(* TCP connection or none, the answer to OPTIONS, whether a 401 carries a  *)
(* Digest challenge, the answer to the Digest request on the same          *)
(* connection and, where that fails, on a new one.  Beside a status code   *)
(* an answer is "closed" (the peer has closed: nothing to read), "error"   *)
(* (a reset or a timeout) or "garbage".                                    *)

Answers == {"200", "401", "403", "404", "405", "454", "500", "501", "503",
            "closed", "error", "garbage"}
Behaviour == [tcp : BOOLEAN, login : BOOLEAN, options : Answers, digest : BOOLEAN,
              again : Answers, anew : Answers]

ASSUME CctvAssumption ==
  /\ Behaviours \subseteq Behaviour /\ Poller \notin Checkers /\ NoCamera \notin Endpoints
  /\ IsFiniteSet(Checkers) /\ CctvChanges \in Nat

\* A Digest request is repeated on a new connection after an error only, not
\* when the camera has closed the old one.
Authenticated(b) ==
  b.digest /\ (IF b.again = "error" THEN b.anew ELSE b.again) \in {"200", "403", "404"}

\* Any answer that shows an RTSP server counts; a 405 or 501 also when the
\* DESCRIBE request tried next fails.
RtspAvailable(b) ==
  \/ b.options \in {"200", "403", "404", "405", "454", "500", "501"}
  \/ b.options = "401" /\ (b.login => Authenticated(b))

ProbeStatus(b) ==
  CASE ~b.tcp -> "OFFLINE"
    [] b.tcp /\ RtspAvailable(b) -> "ONLINE"
    [] OTHER -> "ONLINE_NETWORK"

-----------------------------------------------------------------------------
VARIABLES
  camera,     \* the row: endpoint, enabled and status, or NoCamera
  edit,       \* an update that has read the row, or NoCamera
  lastKnown,  \* _last_known_status of the camera, Unset when it has none
  world,      \* the behaviour at each endpoint
  step,       \* what each thread does next
  target,     \* the row each thread has read
  verdict,    \* the status it replaced and the status it found
  into,       \* log entries of a transition into each status
  outOf,      \* and out of each status
  first,      \* the status the log starts from, Unset before any
  unlogged,   \* a transition was not logged
  spent       \* uses of CctvChanges

logVars == <<into, outOf, first, unlogged>>
threadVars == <<step, target, verdict>>
cctvVars == <<camera, edit, lastKnown, world, threadVars, logVars, spent>>

NoVerdict == [old |-> Unset, new |-> Unset]
NoTransitions == [s \in Statuses |-> 0]

NewCameras == [endpoint : Endpoints, enabled : BOOLEAN, status : {"UNKNOWN"}]

CctvInit ==
  /\ camera = NoCamera /\ edit = NoCamera
  /\ lastKnown = Unset
  /\ world \in [Endpoints -> Behaviours]
  /\ step = [t \in Threads |-> "idle"]
  /\ target = [t \in Threads |-> NoCamera]
  /\ verdict = [t \in Threads |-> NoVerdict]
  /\ into = NoTransitions /\ outOf = NoTransitions
  /\ first = Unset /\ unlogged = FALSE
  /\ spent = 0

Spend == spent < CctvChanges /\ spent' = spent + 1

-----------------------------------------------------------------------------
(* Registration. *)

RegisterCamera ==
  /\ Spend /\ camera = NoCamera /\ camera' \in NewCameras
  /\ UNCHANGED <<edit, lastKnown, world, threadVars, logVars>>

\* An update reads the row, and writes every column back, changed or not.
UpdateReads ==
  /\ Spend /\ camera # NoCamera /\ edit = NoCamera
  /\ \E p \in Endpoints, on \in BOOLEAN : edit' = [camera EXCEPT !.endpoint = p, !.enabled = on]
  /\ UNCHANGED <<camera, lastKnown, world, threadVars, logVars>>

UpdateWrites ==
  /\ edit # NoCamera /\ edit' = NoCamera
  /\ camera' = IF camera = NoCamera THEN NoCamera
               ELSE [edit EXCEPT !.status = camera.status]
  /\ UNCHANGED <<lastKnown, world, threadVars, logVars, spent>>

SetEnabled ==
  /\ Spend /\ camera # NoCamera
  /\ camera' = [camera EXCEPT !.enabled = ~@]
  /\ UNCHANGED <<edit, lastKnown, world, threadVars, logVars>>

\* The last known status stays behind.
DeleteCamera ==
  /\ Spend /\ camera # NoCamera /\ camera' = NoCamera
  /\ UNCHANGED <<edit, lastKnown, world, threadVars, logVars>>

-----------------------------------------------------------------------------
(* A check, by the monitor thread or by a request. *)

Proceed(t, from, to) == step[t] = from /\ step' = [step EXCEPT ![t] = to]
EndCheck(t, from) ==
  /\ Proceed(t, from, "idle")
  /\ target' = [target EXCEPT ![t] = NoCamera]
  /\ verdict' = [verdict EXCEPT ![t] = NoVerdict]

ReadCamera(t) ==
  /\ Proceed(t, "idle", "probe")
  /\ camera # NoCamera /\ (t = Poller => camera.enabled)
  /\ target' = [target EXCEPT ![t] = camera]
  /\ UNCHANGED <<camera, edit, lastKnown, world, verdict, logVars, spent>>

Probe(t) ==
  /\ Proceed(t, "probe", "judge")
  /\ verdict' = [verdict EXCEPT ![t].new = ProbeStatus(world[target[t].endpoint])]
  /\ UNCHANGED <<camera, edit, lastKnown, world, target, logVars, spent>>

\* Faulty variant: the status the thread has read is taken for the last one.
ExchangeStatusRead(t) ==
  LET old == target[t].status
      new == verdict[t].new
  IN  /\ Proceed(t, "judge", "store")
      /\ verdict' = [verdict EXCEPT ![t].old = old]
      /\ lastKnown' = new
      /\ first' = IF first # Unset THEN first ELSE IF old = "UNKNOWN" THEN new ELSE old
      /\ UNCHANGED <<camera, edit, world, target, into, outOf, unlogged, spent>>

\* Under the lock.
ExchangeStatus(t) ==
  LET old == IF lastKnown = Unset THEN target[t].status ELSE lastKnown
      new == verdict[t].new
  IN  /\ Proceed(t, "judge", "store")
      /\ verdict' = [verdict EXCEPT ![t].old = old]
      /\ lastKnown' = new
      /\ first' = IF first # Unset THEN first ELSE IF old = "UNKNOWN" THEN new ELSE old
      /\ UNCHANGED <<camera, edit, world, target, into, outOf, unlogged, spent>>

Changed(t) == verdict[t].old \notin {verdict[t].new, "UNKNOWN"}

\* Faulty variant: only a status other than the last one is stored.
StoreResultIfNew(t) ==
  /\ camera # NoCamera
  /\ camera' = [camera EXCEPT !.status = IF verdict[t].new # verdict[t].old
                                         THEN verdict[t].new ELSE @]
  /\ IF Changed(t) THEN Proceed(t, "store", "log") /\ UNCHANGED <<target, verdict>>
     ELSE EndCheck(t, "store")
  /\ UNCHANGED <<edit, lastKnown, world, logVars, spent>>

StoreResult(t) ==
  /\ camera # NoCamera
  /\ camera' = [camera EXCEPT !.status = verdict[t].new]
  /\ IF Changed(t) THEN Proceed(t, "store", "log") /\ UNCHANGED <<target, verdict>>
     ELSE EndCheck(t, "store")
  /\ UNCHANGED <<edit, lastKnown, world, logVars, spent>>

\* The telemetry row of a deleted camera violates its foreign key, and any
\* other database error ends the check as well: the transition is not logged.
StoreFails(t) ==
  /\ (camera = NoCamera /\ UNCHANGED spent) \/ Spend
  /\ EndCheck(t, "store")
  /\ unlogged' = (unlogged \/ Changed(t))
  /\ UNCHANGED <<camera, edit, lastKnown, world, into, outOf, first>>

LogTransition(t) ==
  /\ EndCheck(t, "log")
  /\ into' = [into EXCEPT ![verdict[t].new] = @ + 1]
  /\ outOf' = [outOf EXCEPT ![verdict[t].old] = @ + 1]
  /\ UNCHANGED <<camera, edit, lastKnown, world, first, unlogged, spent>>

LogFails(t) ==
  /\ Spend /\ EndCheck(t, "log") /\ unlogged' = TRUE
  /\ UNCHANGED <<camera, edit, lastKnown, world, into, outOf, first>>

-----------------------------------------------------------------------------
(* The camera's network, and the Master's process. *)

WorldChanges ==
  /\ Spend /\ \E p \in Endpoints, b \in Behaviours : world' = [world EXCEPT ![p] = b]
  /\ UNCHANGED <<camera, edit, lastKnown, threadVars, logVars>>

\* The rows stay; the log is counted afresh from the status they show.
MasterRestarts ==
  /\ Spend
  /\ edit' = NoCamera /\ lastKnown' = Unset
  /\ step' = [t \in Threads |-> "idle"]
  /\ target' = [t \in Threads |-> NoCamera]
  /\ verdict' = [t \in Threads |-> NoVerdict]
  /\ into' = NoTransitions /\ outOf' = NoTransitions /\ first' = Unset /\ unlogged' = FALSE
  /\ UNCHANGED <<camera, world>>

Conclude(t) ==
  Probe(t) \/ ExchangeStatus(t) \/ StoreResult(t) \/ StoreFails(t) \/ LogTransition(t)

CctvNext ==
  \/ RegisterCamera \/ UpdateReads \/ UpdateWrites \/ SetEnabled \/ DeleteCamera
  \/ WorldChanges \/ MasterRestarts
  \/ \E t \in Threads : ReadCamera(t) \/ Conclude(t) \/ LogFails(t)

\* Every socket call of a check has a timeout, and the monitor thread polls again.
CctvFairness ==
  /\ WF_cctvVars(UpdateWrites)
  /\ WF_cctvVars(ReadCamera(Poller))
  /\ \A t \in Threads : WF_cctvVars(Conclude(t))

CctvSpec == CctvInit /\ [][CctvNext]_cctvVars /\ CctvFairness

-----------------------------------------------------------------------------
(* Properties. *)

CameraRow == [endpoint : Endpoints, enabled : BOOLEAN, status : Statuses \cup {"UNKNOWN"}]

CctvTypeOK ==
  /\ {camera, edit} \subseteq CameraRow \cup {NoCamera}
  /\ lastKnown \in Statuses \cup {Unset} /\ first \in Statuses \cup {Unset}
  /\ world \in [Endpoints -> Behaviours]
  /\ step \in [Threads -> {"idle", "probe", "judge", "store", "log"}]
  /\ target \in [Threads -> CameraRow \cup {NoCamera}]
  /\ \A t \in Threads :
       /\ verdict[t].new \in Statuses \cup {Unset}
       /\ verdict[t].old \in Statuses \cup {"UNKNOWN", Unset}
       /\ step[t] # "idle" => target[t] # NoCamera
  /\ into \in [Statuses -> Nat] /\ outOf \in [Statuses -> Nat]
  /\ unlogged \in BOOLEAN /\ spent \in 0..CctvChanges

\* However the monitor thread and the immediate checks interleave, the logged
\* transitions make up one story: apart from transitions lost to an error, every
\* status that was entered was left again before it was entered anew, from the
\* first status to the last known one, and none is logged twice.
TransitionsAddUp ==
  LET Is(a, b) == IF a = b THEN 1 ELSE 0
  IN  ~unlogged /\ (\A t \in Threads : step[t] = "idle") =>
        \A s \in Statuses : into[s] - outOf[s] = Is(lastKnown, s) - Is(first, s)

\* Once nobody changes it any more, the row of an enabled camera comes to show
\* what a probe of its endpoint finds and goes on to show it, whatever results of
\* old probes were still to be stored.
StatusSettles ==
  <>[](camera # NoCamera /\ camera.enabled =>
         camera.status = ProbeStatus(world[camera.endpoint]))
=============================================================================
