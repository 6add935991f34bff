--------------------------- MODULE MasterSession ---------------------------
(***************************************************************************)
(* Device identity, pairing credentials and presence on the Master.        *)
(*                                                                         *)
(* The Master serves every HTTP request in a thread of its own and opens a *)
(* new SQLite connection for nearly every statement group.  A SELECT that  *)
(* precedes the first write of a connection runs outside any transaction,  *)
(* so a handler is a sequence of separate steps on shared tables: that     *)
(* sequence is what this module spells out.  A group of writes closed by   *)
(* one commit() is one action.                                             *)
(*                                                                         *)
(* Time: only differences of timestamps are ever compared, so every        *)
(* timestamp is kept as its age, saturated just above the largest limit    *)
(* it is compared with.  Tick ages all of them.  updated_at is read only   *)
(* where last_seen is NULL.                                                *)
(***************************************************************************)
EXTENDS Integers, FiniteSets

CONSTANTS
  Devices,        \* device_id values
  Tokens,         \* pairing tokens; secrets.token_urlsafe never repeats one
  Owner,          \* Owner[t]: the device for which token t is generated
  Reqs,           \* handler threads of the Master
  Timeout,        \* HEARTBEAT_TIMEOUT_SECONDS
  Expiry,         \* AUTH_TOKEN_EXPIRY_HOURS, in the same unit
  AdminStatuses,  \* values an administrator's PUT may give to status
  Null            \* SQL NULL in last_seen; a field that a PUT leaves out

ASSUME SessionAssumption ==
  /\ Devices # {} /\ Tokens # {}
  /\ Owner \in [Tokens -> Devices]
  /\ Timeout \in Nat
  /\ Expiry \in Nat
  /\ Null \notin Nat

VARIABLES
  row,      \* devices that have a row in table devices
  status,   \* devices.status
  auth,     \* devices.authentication_status
  seen,     \* age of devices.last_seen, or Null
  upd,      \* age of devices.updated_at
  cred,     \* device_auth.authentication_status of the row of each token
  credAge,  \* age of device_auth.created_at; expires_at is created_at + Expiry
  req,      \* where each handler thread stands, and what it has read so far
  cut,      \* history: devices of pairings cut short by a failure or a removal
  revived   \* history: tokens that went from revoked back to paired

deviceVars == <<row, status, auth, seen, upd>>
credVars == <<cred, credAge>>
history == <<cut, revived>>
vars == <<deviceVars, credVars, req, history>>

Cap == (IF Timeout > Expiry THEN Timeout ELSE Expiry) + 1
Age == 0 .. Cap
Older(a) == IF a < Cap THEN a + 1 ELSE a

Status == {"pending", "online", "offline"} \cup AdminStatuses
AuthStatus == {"unauthenticated", "pending", "paired"}
CredStatus == {"unissued", "pending", "paired", "revoked", "gone"}
Op == {"none", "contact", "authenticate", "client_register", "register",
       "update_device", "reauth"}
Step == {"idle", "cred_check", "touch", "up_read", "up_write", "present",
         "mark", "issue", "update", "reauth"}

TypeOK ==
  /\ row \in SUBSET Devices
  /\ status \in [Devices -> Status]
  /\ auth \in [Devices -> AuthStatus]
  /\ seen \in [Devices -> Age \cup {Null}]
  /\ upd \in [Devices -> Age]
  /\ cred \in [Tokens -> CredStatus]
  /\ credAge \in [Tokens -> Age]
  /\ req \in [Reqs -> [op : Op, pc : Step, dev : Devices, tok : Tokens,
                       found : BOOLEAN, age : Age]]
  /\ cut \in SUBSET Devices
  /\ revived \in SUBSET Tokens

\* What the columns read as for a device without a row: never consulted.
NoRow == [status |-> "pending", auth |-> "unauthenticated"]
Idle == [op |-> "none", pc |-> "idle", dev |-> CHOOSE d \in Devices : TRUE,
         tok |-> CHOOSE t \in Tokens : TRUE, found |-> FALSE, age |-> 0]

Init ==
  /\ row = {}
  /\ status = [d \in Devices |-> NoRow.status]
  /\ auth = [d \in Devices |-> NoRow.auth]
  /\ seen = [d \in Devices |-> Null]
  /\ upd = [d \in Devices |-> 0]
  /\ cred = [t \in Tokens |-> "unissued"]
  /\ credAge = [t \in Tokens |-> 0]
  /\ req = [r \in Reqs |-> Idle]
  /\ cut = {}
  /\ revived = {}

Live(t) == cred[t] \in {"pending", "paired"}

\* Thread r continues at step pc, or ends its request.
Goto(r, pc) == req' = [req EXCEPT ![r].pc = pc]
Done(r) == req' = [req EXCEPT ![r] = Idle]
At(r, pc) == req[r].pc = pc

\* Every credential of d that is not revoked yet becomes revoked.
RevokeAll(d) ==
  [t \in Tokens |-> IF Owner[t] = d /\ Live(t) THEN "revoked" ELSE cred[t]]
-----------------------------------------------------------------------------
(***************************************************************************)
(* Presence.  One UPDATE; the monitor thread runs it every second and each *)
(* read of the device table runs it first.                                 *)
(***************************************************************************)
\* Faulty variant: a device that was never seen is never timed out.
SilentOnlyIfSeen(d) ==
  /\ status[d] = "online"
  /\ seen[d] # Null /\ seen[d] > Timeout

Silent(d) ==
  /\ status[d] = "online"
  /\ \/ seen[d] # Null /\ seen[d] > Timeout
     \/ seen[d] = Null /\ upd[d] > Timeout

ReconcilePresence ==
  /\ status' = [d \in Devices |-> IF Silent(d) THEN "offline" ELSE status[d]]
  /\ upd' = [d \in Devices |-> IF Silent(d) THEN 0 ELSE upd[d]]
  /\ UNCHANGED <<row, auth, seen>>

\* PresenceMonitorEngine._monitor_loop, and the GET handlers.
Monitor == ReconcilePresence /\ UNCHANGED <<credVars, req, history>>

\* Thread r holds a timestamp that it has yet to write.
HoldsStamp(r) == req[r].pc \in {"touch", "up_read", "up_write"}

Tick ==
  /\ seen' = [d \in Devices |-> IF seen[d] = Null THEN Null ELSE Older(seen[d])]
  /\ upd' = [d \in Devices |-> Older(upd[d])]
  /\ credAge' = [t \in Tokens |-> Older(credAge[t])]
  /\ req' = [r \in Reqs |-> IF HoldsStamp(r) THEN [req[r] EXCEPT !.age = Older(@)]
                            ELSE req[r]]
  /\ UNCHANGED <<row, status, auth, cred, history>>
-----------------------------------------------------------------------------
(***************************************************************************)
(* Heartbeat, telemetry, events and host information: the middleware reads *)
(* the device row, then the credential row, and only then the service      *)
(* writes status and last_seen, without reading either again.              *)
(***************************************************************************)
StartContact(r, t) ==
  /\ At(r, "idle")
  /\ cred[t] # "unissued"
  /\ Owner[t] \in row
  /\ auth[Owner[t]] = "paired"
  /\ req' = [req EXCEPT ![r] = [Idle EXCEPT !.op = "contact", !.pc = "cred_check",
                                            !.dev = Owner[t], !.tok = t]]
  /\ UNCHANGED <<deviceVars, credVars, history>>

CredCheck(r) ==
  /\ At(r, "cred_check")
  /\ IF cred[req[r].tok] = "paired"
     THEN req' = [req EXCEPT ![r].pc = "touch", ![r].age = 0]
     ELSE Done(r)
  /\ UNCHANGED <<deviceVars, credVars, history>>

\* The UPDATE that heartbeats and all data a device sends end in; of a device
\* without a row it changes nothing.
PutOnline(d, age) ==
  IF d \in row
  THEN /\ status' = [status EXCEPT ![d] = "online"]
       /\ seen' = [seen EXCEPT ![d] = age]
       /\ upd' = [upd EXCEPT ![d] = age]
  ELSE UNCHANGED <<status, seen, upd>>

Touch(r) ==
  /\ At(r, "touch")
  /\ PutOnline(req[r].dev, req[r].age)
  /\ Done(r)
  /\ UNCHANGED <<row, auth, credVars, history>>
-----------------------------------------------------------------------------
(***************************************************************************)
(* DeviceService.upsert_device, called by authenticate_device and by       *)
(* client_register.  It reads the row, then inserts or updates it in a     *)
(* transaction of its own, then get_device reconciles presence.            *)
(***************************************************************************)
\* Faulty variant: the caller takes every device for a new one.
UpsertReadAsNew(r) ==
  /\ At(r, "up_read")
  /\ req' = [req EXCEPT ![r].pc = "up_write", ![r].found = FALSE]
  /\ UNCHANGED <<deviceVars, credVars, history>>

UpsertRead(r) ==
  /\ At(r, "up_read")
  /\ req' = [req EXCEPT ![r].pc = "up_write", ![r].found = req[r].dev \in row]
  /\ UNCHANGED <<deviceVars, credVars, history>>

\* The status, authentication_status and last_seen each caller passes.
UpsertValues(r) ==
  IF req[r].op = "authenticate"
  THEN [status |-> "online", auth |-> "paired", seen |-> req[r].age]
  ELSE [status |-> "pending", auth |-> "unauthenticated",
        seen |-> IF req[r].found THEN seen[req[r].dev] ELSE Null]

\* The row the thread read and its timestamp are of no more use to it.
Written(r) == req' = [req EXCEPT ![r].pc = "present", ![r].found = FALSE, ![r].age = 0]

\* An INSERT that meets a row violates UNIQUE and fails the request; an UPDATE
\* that no longer meets one changes nothing, and the handler goes on.
UpsertWrite(r) ==
  /\ At(r, "up_write")
  /\ LET d == req[r].dev
         v == UpsertValues(r)
     IN \/ /\ ~req[r].found /\ d \in row
           /\ Done(r)
           /\ UNCHANGED deviceVars
        \/ /\ req[r].found /\ d \notin row
           /\ Written(r)
           /\ UNCHANGED deviceVars
        \/ /\ req[r].found = (d \in row)
           /\ row' = row \cup {d}
           /\ status' = [status EXCEPT ![d] = v.status]
           /\ auth' = [auth EXCEPT ![d] = v.auth]
           /\ seen' = [seen EXCEPT ![d] = v.seen]
           /\ upd' = [upd EXCEPT ![d] = req[r].age]
           /\ Written(r)
  /\ UNCHANGED <<credVars, history>>

\* get_device at the end of a handler's write: reconcile, then read the row.
Present(r) ==
  /\ At(r, "present")
  /\ ReconcilePresence
  /\ CASE req[r].op = "authenticate"    -> Goto(r, "mark")
       [] req[r].op = "client_register" -> Goto(r, "issue")
       [] OTHER                         -> Done(r)
  /\ UNCHANGED <<credVars, history>>
-----------------------------------------------------------------------------
(***************************************************************************)
(* AuthService.authenticate_device: select a live credential, check its    *)
(* expiry, upsert the device as paired and online over another connection, *)
(* then mark the credential row paired by its id, whatever it is by then.  *)
(***************************************************************************)
AuthSelect(r, t) ==
  /\ At(r, "idle")
  /\ Live(t)
  /\ credAge[t] <= Expiry
  /\ req' = [req EXCEPT ![r] = [Idle EXCEPT !.op = "authenticate", !.pc = "up_read",
                                            !.dev = Owner[t], !.tok = t]]
  /\ UNCHANGED <<deviceVars, credVars, history>>

AuthMark(r) ==
  /\ At(r, "mark")
  /\ LET t == req[r].tok IN
       /\ cred' = [cred EXCEPT ![t] = IF @ = "gone" THEN "gone" ELSE "paired"]
       /\ revived' = IF cred[t] = "revoked" THEN revived \cup {t} ELSE revived
  /\ Done(r)
  /\ UNCHANGED <<deviceVars, credAge, cut>>

(***************************************************************************)
(* AuthService.generate_pairing_credential: revoke, insert, set the device *)
(* pending, one commit.  A missing device fails the insert.                *)
(***************************************************************************)
\* Faulty variants: earlier credentials stay live; the device stays paired.
GenerateBesides(t) ==
  LET d == Owner[t] IN
  /\ cred[t] = "unissued"
  /\ d \in row
  /\ cred' = [cred EXCEPT ![t] = "pending"]
  /\ credAge' = [credAge EXCEPT ![t] = 0]
  /\ auth' = [auth EXCEPT ![d] = "pending"]
  /\ upd' = [upd EXCEPT ![d] = 0]
  /\ UNCHANGED <<row, status, seen>>

GenerateQuietly(t) ==
  /\ cred[t] = "unissued"
  /\ Owner[t] \in row
  /\ cred' = [RevokeAll(Owner[t]) EXCEPT ![t] = "pending"]
  /\ credAge' = [credAge EXCEPT ![t] = 0]
  /\ UNCHANGED <<row, status, auth, seen, upd>>

Generate(t) ==
  LET d == Owner[t] IN
  /\ cred[t] = "unissued"
  /\ d \in row
  /\ cred' = [RevokeAll(d) EXCEPT ![t] = "pending"]
  /\ credAge' = [credAge EXCEPT ![t] = 0]
  /\ auth' = [auth EXCEPT ![d] = "pending"]
  /\ upd' = [upd EXCEPT ![d] = 0]
  /\ UNCHANGED <<row, status, seen>>

\* POST /devices/<id>/pair
PairDevice(t) == Generate(t) /\ UNCHANGED <<req, history>>

\* POST /client/register: upsert as pending, then generate a credential.
StartClientRegister(r, d) ==
  /\ At(r, "idle")
  /\ req' = [req EXCEPT ![r] = [Idle EXCEPT !.op = "client_register",
                                            !.pc = "up_read", !.dev = d]]
  /\ UNCHANGED <<deviceVars, credVars, history>>

ClientIssue(r) ==
  /\ At(r, "issue")
  /\ \/ \E t \in Tokens : Owner[t] = req[r].dev /\ Generate(t)
     \/ req[r].dev \notin row /\ UNCHANGED <<deviceVars, credVars>>
  /\ Done(r)
  /\ UNCHANGED history
-----------------------------------------------------------------------------
\* AuthService.revoke_device: both updates, one commit.
Revoke(d) ==
  /\ cred' = RevokeAll(d)
  /\ IF d \in row
     THEN /\ auth' = [auth EXCEPT ![d] = "unauthenticated"]
          /\ status' = [status EXCEPT ![d] = "pending"]
          /\ upd' = [upd EXCEPT ![d] = 0]
     ELSE UNCHANGED <<auth, status, upd>>
  /\ UNCHANGED <<row, seen, credAge, req, history>>

\* CommandService.execute_command reads that the device is online and records
\* the command before REAUTHENTICATE_AGENT is carried out.
ReauthCheck(r, d) ==
  /\ At(r, "idle")
  /\ d \in row
  /\ status[d] = "online"
  /\ req' = [req EXCEPT ![r] = [Idle EXCEPT !.op = "reauth", !.pc = "reauth", !.dev = d]]
  /\ UNCHANGED <<deviceVars, credVars, history>>

ReauthWrite(r) ==
  /\ At(r, "reauth")
  /\ LET d == req[r].dev IN
       /\ cred' = RevokeAll(d)
       /\ IF d \in row
          THEN /\ auth' = [auth EXCEPT ![d] = "unauthenticated"]
               /\ status' = [status EXCEPT ![d] = "offline"]
               /\ upd' = [upd EXCEPT ![d] = 0]
          ELSE UNCHANGED <<auth, status, upd>>
  /\ Done(r)
  /\ UNCHANGED <<row, seen, credAge, history>>

\* Faulty variant: status is left to the schema's default.
RegisterInactive(r, d) ==
  /\ At(r, "idle")
  /\ d \notin row
  /\ row' = row \cup {d}
  /\ status' = [status EXCEPT ![d] = "inactive"]
  /\ auth' = [auth EXCEPT ![d] = "unauthenticated"]
  /\ seen' = [seen EXCEPT ![d] = Null]
  /\ upd' = [upd EXCEPT ![d] = 0]
  /\ req' = [req EXCEPT ![r] = [Idle EXCEPT !.op = "register", !.pc = "present", !.dev = d]]
  /\ UNCHANGED <<credVars, history>>

\* DeviceService.register: an INSERT (an existing row fails it), then get_device.
Register(r, d) ==
  /\ At(r, "idle")
  /\ d \notin row
  /\ row' = row \cup {d}
  /\ status' = [status EXCEPT ![d] = "pending"]
  /\ auth' = [auth EXCEPT ![d] = "unauthenticated"]
  /\ seen' = [seen EXCEPT ![d] = Null]
  /\ upd' = [upd EXCEPT ![d] = 0]
  /\ req' = [req EXCEPT ![r] = [Idle EXCEPT !.op = "register", !.pc = "present", !.dev = d]]
  /\ UNCHANGED <<credVars, history>>

\* DeviceService.update_device: get_device first, an UPDATE that may carry
\* a status (any string is taken) or leave it out, get_device again.
UpdateRead(r, d) ==
  /\ At(r, "idle")
  /\ d \in row
  /\ ReconcilePresence
  /\ req' = [req EXCEPT ![r] = [Idle EXCEPT !.op = "update_device", !.pc = "update",
                                            !.dev = d]]
  /\ UNCHANGED <<credVars, history>>

UpdateWrite(r, s) ==
  /\ At(r, "update")
  /\ LET d == req[r].dev IN
       IF d \in row
       THEN /\ status' = IF s = Null THEN status ELSE [status EXCEPT ![d] = s]
            /\ upd' = [upd EXCEPT ![d] = 0]
       ELSE UNCHANGED <<status, upd>>
  /\ Goto(r, "present")
  /\ UNCHANGED <<row, auth, seen, credVars, history>>

\* A pairing of d is under way in thread r: its credential has been selected.
Pairing(r, d) == req[r].op = "authenticate" /\ req[r].dev = d

\* Faulty variant: the credentials are not taken along.
RemoveRowOnly(d) ==
  /\ d \in row
  /\ row' = row \ {d}
  /\ status' = [status EXCEPT ![d] = NoRow.status]
  /\ auth' = [auth EXCEPT ![d] = NoRow.auth]
  /\ seen' = [seen EXCEPT ![d] = Null]
  /\ upd' = [upd EXCEPT ![d] = 0]
  /\ cut' = IF \E r \in Reqs : Pairing(r, d) THEN cut \cup {d} ELSE cut
  /\ UNCHANGED <<credVars, req, revived>>

\* DeviceService.remove_device; ON DELETE CASCADE takes the credentials.
Remove(d) ==
  /\ d \in row
  /\ row' = row \ {d}
  /\ status' = [status EXCEPT ![d] = NoRow.status]
  /\ auth' = [auth EXCEPT ![d] = NoRow.auth]
  /\ seen' = [seen EXCEPT ![d] = Null]
  /\ upd' = [upd EXCEPT ![d] = 0]
  /\ cred' = [t \in Tokens |-> IF Owner[t] = d /\ cred[t] # "unissued"
                               THEN "gone" ELSE cred[t]]
  /\ cut' = IF \E r \in Reqs : Pairing(r, d) THEN cut \cup {d} ELSE cut
  /\ UNCHANGED <<credAge, req, revived>>

\* The requests of threads R end halfway: a statement of each fails (the database
\* stayed locked for longer than busy_timeout), or, R being all of them, the
\* Master process dies and is started again.  What was committed stays.
Fail(R) ==
  /\ req' = [r \in Reqs |-> IF r \in R THEN Idle ELSE req[r]]
  /\ cut' = cut \cup {d \in Devices : \E r \in R : Pairing(r, d)}
  /\ UNCHANGED <<deviceVars, credVars, revived>>
-----------------------------------------------------------------------------
HandlerStep(r) ==
  \/ CredCheck(r) \/ Touch(r)
  \/ UpsertRead(r) \/ UpsertWrite(r) \/ Present(r)
  \/ AuthMark(r) \/ ClientIssue(r) \/ ReauthWrite(r)
  \/ \E s \in AdminStatuses \cup {Null} : UpdateWrite(r, s)

Arrival(r) ==
  \/ \E t \in Tokens : StartContact(r, t) \/ AuthSelect(r, t)
  \/ \E d \in Devices : \/ StartClientRegister(r, d) \/ ReauthCheck(r, d)
                        \/ Register(r, d) \/ UpdateRead(r, d)

Next ==
  \/ \E r \in Reqs : HandlerStep(r) \/ Arrival(r)
  \/ \E t \in Tokens : PairDevice(t)
  \/ \E d \in Devices : Revoke(d) \/ Remove(d)
  \/ \E R \in SUBSET Reqs : Fail(R)
  \/ Monitor \/ Tick

Spec == Init /\ [][Next]_vars

(***************************************************************************)
(* Handler threads run to their end, the monitor loop comes round again,   *)
(* and time passes.  Nothing obliges a client or an administrator to act.  *)
(***************************************************************************)
FairSpec ==
  /\ Spec
  /\ WF_vars(Tick)
  /\ WF_vars(Monitor)
  /\ \A r \in Reqs : WF_vars(HandlerStep(r))
-----------------------------------------------------------------------------
(***************************************************************************)
(* Properties                                                              *)
(***************************************************************************)

\* A device the tables call paired has a paired credential the middleware will
\* accept, or an authentication of it that has selected its credential is still
\* on its way to mark it; the exception is a device of which such a handler was
\* cut short by a failure or by the device's removal.
\* (authenticate_device commits the device before the credential.)
PairedIsBacked ==
  \A d \in Devices \ cut :
    auth[d] = "paired" =>
      \/ \E t \in Tokens : Owner[t] = d /\ cred[t] = "paired"
      \/ \E r \in Reqs : Pairing(r, d)

\* Issuing a credential retires every earlier one: two credentials of one
\* device are never live together, unless an authentication that had read one
\* of them before it was revoked has brought it back.
OneLiveCredential ==
  \A t, u \in Tokens :
    Owner[t] = Owner[u] /\ Live(t) /\ Live(u) /\ t # u => {t, u} \cap revived # {}

\* The foreign key and its cascade keep table device_auth tied to table devices:
\* a credential that is pending, paired or revoked belongs to a device that has
\* a row, whatever the order of removals and authentications under way.
NoOrphanCredential ==
  \A t \in Tokens : cred[t] \in {"pending", "paired", "revoked"} => Owner[t] \in row

\* An authentication past its SELECT works on an issued credential of its own
\* device, and finds the device's row there when it comes to write, unless the
\* device was removed under it: then the history says so.  Nothing else marks a
\* credential paired.
InFlight(r) ==
  /\ At(r, "mark") => req[r].op = "authenticate"
  /\ req[r].op = "authenticate" =>
       /\ req[r].pc \in {"up_read", "up_write", "present", "mark"}
       /\ Owner[req[r].tok] = req[r].dev
       /\ cred[req[r].tok] # "unissued"
       /\ \/ req[r].dev \in cut
          \/ /\ cred[req[r].tok] # "gone"
             /\ req[r].dev \in row
             /\ At(r, "up_write") => req[r].found

PairingInFlight == \A r \in Reqs : InFlight(r)

\* A revoked credential stays revoked: "Old token should no longer work"
\* (tests/test_phase1.py:245).
RevokedIsFinal ==
  [][\A t \in Tokens : cred[t] = "revoked" => cred'[t] \in {"revoked", "gone"}]_cred

\* An administrator writes status = 'online' for d, or edits a device that was
\* never seen, whose updated_at then counts as its last sign of life.
AdminWrite(d) ==
  \E r \in Reqs : /\ req[r].dev = d
                  /\ \/ UpdateWrite(r, "online")
                     \/ UpdateWrite(r, Null) /\ seen[d] = Null

\* Some thread writes status = 'online' for d, or keeps it so by an edit.
OnlineWrite(d) ==
  \/ AdminWrite(d)
  \/ \E r \in Reqs : /\ req[r].dev = d
                     /\ Touch(r) \/ (UpsertWrite(r) /\ req[r].op = "authenticate")

\* A device that is silent from some point on (no heartbeat, telemetry, event,
\* pairing or administrator puts it online) ends up, and stays, not online.
SilentGoesOffline ==
  \A d \in Devices : []<><<OnlineWrite(d)>>_vars \/ <>[](status[d] # "online")

\* A device that loses its pairing for good ends up not online, even if
\* heartbeats already past the middleware put it online after the revocation;
\* only an administrator who keeps writing to it by hand can prevent it.
UnpairedGoesOffline ==
  \A d \in Devices :
    \/ []<>(auth[d] = "paired")
    \/ []<><<AdminWrite(d)>>_vars
    \/ <>[](status[d] # "online")
=============================================================================
