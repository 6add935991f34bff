----------------------------- MODULE EventUplink -----------------------------
(***************************************************************************)
(* From the client's event and telemetry workers to the Master's logs      *)
(* table.  A worker sends its payload with retries, puts it into the       *)
(* offline buffer when the Master cannot be reached, and after a success   *)
(* sends what the buffer holds.  The Master stores the events of a request *)
(* it has not stored yet.  A request whose answer is late or lost goes on  *)
(* at the Master while the client sends again.                             *)
(*                                                                         *)
(* A payload is the sequence of a batch's events; telemetry carries none   *)
(* and matters for the room it takes and for the flush it triggers, and    *)
(* stands for heartbeats, logs and host information as well.               *)
(***************************************************************************)
EXTENDS Integers, FiniteSets, SequencesExt

CONSTANTS
  Apps,           \* applications the collector tells apart
  MaxBuffer,      \* _MAX_BUFFER_SIZE: 50 in the code
  MaxTries,       \* attempts of one send: four, and one more per rediscovery
  MaxRequests,    \* bound on the requests at the Master at a time
  MaxAppChanges,  \* bound on starts and stops
  MaxFailures     \* bound on outages, late answers, errors and restarts

ASSUME UplinkAssumption ==
  /\ {MaxBuffer, MaxTries, MaxRequests} \subseteq Nat \ {0}
  /\ {MaxAppChanges, MaxFailures} \subseteq Nat

Workers == {"events", "telemetry"}
Times == 1..MaxAppChanges
Events == [app : Apps, type : {"STARTED", "STOPPED"}, at : Times]
Requests == 1..MaxRequests
NoRequest == [owner |-> "nobody"]
Idle == [does |-> "idle", payload |-> <<>>, flushing |-> FALSE, tries |-> 0, keep |-> <<>>]

VARIABLES
  link,       \* the Master can be reached
  open,       \* applications that run
  reported,   \* applications as of the last scan
  clock,      \* scans that found a change
  worker,     \* what each worker does, its payload, whether that came from the buffer,
              \* its attempts so far, and the buffer it is about to put in place
  buffer,     \* _offline_buffer, the oldest payload first
  request,    \* requests at the Master
  stored,     \* rows of each event in the logs table
  collected,  \* events reported by the collector
  blind,      \* applications of which an event was given up
  overlapped, \* events that were in two requests at a time
  changed,    \* starts and stops so far
  failures      \* failures so far

clientVars == <<open, reported, clock, changed>>
masterVars == <<request, stored, overlapped>>
uplinkVars == <<clientVars, worker, buffer, masterVars, collected, blind, link, failures>>

UplinkInit ==
  /\ link = TRUE
  /\ open = {} /\ reported = {} /\ clock = 0 /\ changed = 0
  /\ worker = [w \in Workers |-> Idle]
  /\ buffer = <<>>
  /\ request = [r \in Requests |-> NoRequest]
  /\ stored = [e \in Events |-> 0]
  /\ collected = {} /\ blind = {} /\ overlapped = {} /\ failures = 0

Failure == failures < MaxFailures /\ failures' = failures + 1
EventsOf(payloads) == UNION {ToSet(payloads[i]) : i \in DOMAIN payloads}
AppsOf(events) == {e.app : e \in events}

-----------------------------------------------------------------------------
(* The client's applications, the network, and the workers that begin to  *)
(* send.                                                                   *)

AppChanges ==
  /\ changed < MaxAppChanges /\ changed' = changed + 1
  /\ \E a \in Apps : open' = IF a \in open THEN open \ {a} ELSE open \cup {a}
  /\ UNCHANGED <<link, reported, clock, worker, buffer, masterVars, collected, blind, failures>>

LinkChanges ==
  /\ Failure /\ link' = ~link
  /\ UNCHANGED <<clientVars, worker, buffer, masterVars, collected, blind>>

Begin(w, batch) ==
  /\ worker[w].does = "idle"
  /\ worker' = [worker EXCEPT ![w].does = "send", ![w].payload = batch]

ScanApps ==
  LET news == [app : open \ reported, type : {"STARTED"}, at : {clock + 1}] \cup
              [app : reported \ open, type : {"STOPPED"}, at : {clock + 1}]
  IN  /\ news # {} /\ Begin("events", SetToSeq(news))
      /\ reported' = open /\ clock' = clock + 1
      /\ collected' = collected \cup news
      /\ UNCHANGED <<link, open, changed, buffer, masterVars, blind, failures>>

SampleTelemetry ==
  /\ Begin("telemetry", <<>>)
  /\ UNCHANGED <<link, clientVars, buffer, masterVars, collected, blind, failures>>

-----------------------------------------------------------------------------
(* A request on its way. *)

Deliver(w) ==
  /\ worker[w].does = "send" /\ link
  /\ worker' = [worker EXCEPT ![w].does = "wait"]
  /\ \E r \in Requests :
       /\ request[r] = NoRequest /\ \A s \in Requests : request[s] = NoRequest => r <= s
       /\ request' = [request EXCEPT ![r] = [owner |-> w, events |-> worker[w].payload,
                                            missing |-> {}, stage |-> "look", awaited |-> TRUE]]
  /\ overlapped' = overlapped \cup
       {e \in ToSet(worker[w].payload) :
          \E r \in Requests : request[r] # NoRequest /\ e \in ToSet(request[r].events)}
  /\ UNCHANGED <<link, clientVars, buffer, stored, collected, blind, failures>>

Awaited(w) == {r \in Requests : request[r] # NoRequest /\ request[r].owner = w /\ request[r].awaited}

\* deque(maxlen): the oldest payloads make room.
Newest(payloads) == SubSeq(payloads, Len(payloads) - MaxBuffer + 1, Len(payloads))
Bounded(payloads) == IF Len(payloads) > MaxBuffer THEN Newest(payloads) ELSE payloads

\* These events will not be sent again.
GivesUp(events) == blind' = blind \cup AppsOf(events)

\* No answer has come.  A send is repeated and at last goes to the buffer; a
\* payload out of the buffer is put back.
GoesUnanswered(w) ==
  CASE worker[w].flushing ->
         worker' = [worker EXCEPT ![w].does = "putback"] /\ UNCHANGED <<buffer, blind>>
    [] ~worker[w].flushing /\ worker[w].tries + 1 < MaxTries ->
         /\ worker' = [worker EXCEPT ![w].does = "send", ![w].tries = @ + 1]
         /\ UNCHANGED <<buffer, blind>>
    [] OTHER ->
         LET longer == Append(buffer, worker[w].payload)
         IN  /\ worker' = [worker EXCEPT ![w] = Idle]
             /\ buffer' = Bounded(longer)
             /\ GivesUp(EventsOf(longer) \ EventsOf(Bounded(longer)))

ConnectionFails(w) ==
  /\ worker[w].does = "send" /\ ~link /\ GoesUnanswered(w)
  /\ UNCHANGED <<link, clientVars, masterVars, collected, failures>>

AnswerIsLate(w) ==
  /\ Failure /\ worker[w].does = "wait" /\ GoesUnanswered(w)
  /\ request' = [r \in Requests |->
                   IF r \in Awaited(w) THEN [request[r] EXCEPT !.awaited = FALSE] ELSE request[r]]
  /\ UNCHANGED <<link, clientVars, stored, overlapped, collected>>

-----------------------------------------------------------------------------
(* The Master. *)

\* Faulty variant: what is in the table already is not looked up.
LookUpNothing(r) ==
  /\ request[r] # NoRequest /\ request[r].stage = "look"
  /\ request' = [request EXCEPT ![r].stage = "write", ![r].missing = ToSet(request[r].events)]
  /\ UNCHANGED <<link, clientVars, worker, buffer, stored, overlapped, collected, blind, failures>>

\* The SELECT of the first event that has no row yet takes no lock.
LookUp(r) ==
  LET events == IF request[r] = NoRequest THEN <<>> ELSE request[r].events
      new == {i \in DOMAIN events : stored[events[i]] = 0}
  IN  /\ request[r] # NoRequest /\ request[r].stage = "look"
      /\ request' = [request EXCEPT ![r].stage = "write",
                       ![r].missing = {events[i] : i \in {j \in new : \A k \in new : j <= k}}]
      /\ UNCHANGED <<link, clientVars, worker, buffer, stored, overlapped, collected, blind, failures>>

\* Faulty variant: the loop over a request's events ends after the first insert.
StoreFirst(r) ==
  /\ request[r] # NoRequest /\ request[r].stage = "write"
  /\ stored' = [e \in Events |-> IF e \in request[r].missing THEN stored[e] + 1 ELSE stored[e]]
  /\ request' = [request EXCEPT ![r] = NoRequest]
  /\ worker' = IF request[r].awaited
               THEN [worker EXCEPT ![request[r].owner] = [Idle EXCEPT !.does = "flush"]]
               ELSE worker
  /\ UNCHANGED <<link, clientVars, buffer, overlapped, collected, blind, failures>>

\* Its INSERT takes the write lock: the other events are looked up and inserted
\* under it, and one commit ends the request.  The worker turns to the buffer.
Store(r) ==
  /\ request[r] # NoRequest /\ request[r].stage = "write"
  /\ stored' = [e \in Events |->
       IF e \in request[r].missing \/ (e \in ToSet(request[r].events) /\ stored[e] = 0)
       THEN stored[e] + 1 ELSE stored[e]]
  /\ request' = [request EXCEPT ![r] = NoRequest]
  /\ worker' = IF request[r].awaited
               THEN [worker EXCEPT ![request[r].owner] = [Idle EXCEPT !.does = "flush"]]
               ELSE worker
  /\ UNCHANGED <<link, clientVars, buffer, overlapped, collected, blind, failures>>

\* A database error rolls the request back.  The answer is an error: the payload
\* is given up, and a flush goes on.
StoreFailsToCommit(r) ==
  /\ Failure /\ request[r] # NoRequest /\ request[r].stage = "write"
  /\ request' = [request EXCEPT ![r] = NoRequest]
  /\ LET w == request[r].owner
     IN  IF request[r].awaited
         THEN /\ worker' = [worker EXCEPT ![w] =
                              IF @.flushing THEN [Idle EXCEPT !.does = "flush"] ELSE Idle]
              /\ GivesUp(ToSet(request[r].events))
         ELSE UNCHANGED <<worker, blind>>
  /\ UNCHANGED <<link, clientVars, buffer, stored, overlapped, collected>>

-----------------------------------------------------------------------------
(* The buffer. *)

FlushNext(w) ==
  /\ worker[w].does = "flush"
  /\ IF buffer = <<>>
     THEN worker' = [worker EXCEPT ![w] = Idle] /\ UNCHANGED buffer
     ELSE /\ worker' = [worker EXCEPT ![w] = [Idle EXCEPT !.does = "send", !.flushing = TRUE,
                                                          !.payload = Head(buffer)]]
          /\ buffer' = Tail(buffer)
  /\ UNCHANGED <<link, clientVars, masterVars, collected, blind, failures>>

\* Faulty variant: the payload in hand is not put back.
PutBackBuffer(w) ==
  /\ worker[w].does = "putback"
  /\ worker' = [worker EXCEPT ![w] = [Idle EXCEPT !.does = "replace", !.keep = buffer]]
  /\ UNCHANGED <<link, clientVars, buffer, masterVars, collected, blind, failures>>

\* A new deque is filled from the payload and the buffer ...
PutBack(w) ==
  LET whole == <<worker[w].payload>> \o buffer
  IN  /\ worker[w].does = "putback"
      /\ worker' = [worker EXCEPT ![w] = [Idle EXCEPT !.does = "replace", !.keep = Bounded(whole)]]
      /\ GivesUp(EventsOf(whole) \ (EventsOf(Bounded(whole)) \cup EventsOf(buffer)))
      /\ UNCHANGED <<link, clientVars, buffer, masterVars, collected, failures>>

\* ... and takes the buffer's place, without what was appended meanwhile.
Replace(w) ==
  /\ worker[w].does = "replace" /\ worker' = [worker EXCEPT ![w] = Idle]
  /\ buffer' = worker[w].keep
  /\ GivesUp(EventsOf(buffer) \ EventsOf(worker[w].keep))
  /\ UNCHANGED <<link, clientVars, masterVars, collected, failures>>

\* Buffer and workers are gone, and what runs then is the new baseline.
ClientRestarts ==
  /\ Failure
  /\ reported' = open /\ blind' = Apps
  /\ worker' = [w \in Workers |-> Idle] /\ buffer' = <<>>
  /\ request' = [r \in Requests |-> IF request[r] = NoRequest THEN NoRequest
                                    ELSE [request[r] EXCEPT !.awaited = FALSE]]
  /\ UNCHANGED <<link, open, clock, changed, stored, overlapped, collected>>

WorkerStep(w) == Deliver(w) \/ ConnectionFails(w) \/ FlushNext(w) \/ PutBack(w) \/ Replace(w)
MasterStep(r) == LookUp(r) \/ Store(r)

UplinkNext ==
  \/ AppChanges \/ ScanApps \/ SampleTelemetry \/ LinkChanges \/ ClientRestarts
  \/ \E w \in Workers : WorkerStep(w) \/ AnswerIsLate(w)
  \/ \E r \in Requests : MasterStep(r) \/ StoreFailsToCommit(r)

\* The workers' loops and the Master's requests go on.
UplinkFairness ==
  /\ WF_uplinkVars(ScanApps)
  /\ WF_uplinkVars(SampleTelemetry)
  /\ \A w \in Workers : WF_uplinkVars(WorkerStep(w))
  /\ \A r \in Requests : WF_uplinkVars(MasterStep(r))

UplinkSpec == UplinkInit /\ [][UplinkNext]_uplinkVars /\ UplinkFairness

-----------------------------------------------------------------------------
(* Properties. *)

UplinkTypeOK ==
  /\ link \in BOOLEAN /\ open \subseteq Apps /\ reported \subseteq Apps /\ blind \subseteq Apps
  /\ \A w \in Workers :
       /\ worker[w].does \in {"idle", "send", "wait", "flush", "putback", "replace"}
       /\ worker[w].payload \in Seq(Events) /\ worker[w].tries \in 0..MaxTries - 1
       /\ worker[w].does = "wait" <=> Awaited(w) # {}
       /\ Len(worker[w].keep) <= MaxBuffer
  /\ Len(buffer) <= MaxBuffer
  /\ stored \in [Events -> Nat]
  /\ collected \subseteq Events /\ overlapped \subseteq collected
  /\ changed \in 0..MaxAppChanges /\ clock \in 0..changed /\ failures \in 0..MaxFailures

\* An event that was collected is stored, on its way or waiting: no mix of
\* failures, late answers, flushes and overflows makes one vanish except where
\* the code gives it up.
EventsAreAccountedFor ==
  \A e \in collected :
    \/ e.app \in blind \/ stored[e] > 0 \/ e \in EventsOf(buffer)
    \/ \E w \in Workers : e \in EventsOf(worker[w].keep) \cup ToSet(worker[w].payload)

\* Sending again does not store again: an event has a second row only when two
\* requests with it were at the Master at the same time.
StoredOnceUnlessOverlapping == \A e \in Events : stored[e] > 1 => e \in overlapped

\* Once the Master stays in reach and the applications are quiet, the newest event of an
\* application in the table says whether it runs, for every application of which
\* no event was given up.
LatestEventTells ==
  LET Rows(a) == {e \in Events : e.app = a /\ stored[e] > 0}
      Tells(a) == IF Rows(a) = {} THEN a \notin open
                  ELSE \A e \in Rows(a) : (\A f \in Rows(a) : f.at <= e.at) =>
                                            (e.type = "STARTED" <=> a \in open)
  IN  <>[]link => <>[](\A a \in Apps \ blind : Tells(a))
=============================================================================
