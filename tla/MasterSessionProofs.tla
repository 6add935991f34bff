------------------------ MODULE MasterSessionProofs ------------------------
(***************************************************************************)
(* Proofs about MasterSession, for any number of devices, tokens and       *)
(* handler threads, any timeouts, with failures and removals included.      *)
(***************************************************************************)
EXTENDS MasterSession, TLAPS

\* A saturated age stays an age when it grows.
LEMMA OlderAge == ASSUME NEW a \in Age PROVE Older(a) \in Age
  BY SessionAssumption DEF Age, Cap, Older

\* A timestamp taken now is an age.
LEMMA ZeroAge == 0 \in Age
  BY SessionAssumption DEF Age, Cap

\* The record of a thread that serves no request.
LEMMA IdleType ==
  /\ Idle \in [op : Op, pc : Step, dev : Devices, tok : Tokens,
               found : BOOLEAN, age : Age]
  /\ Idle.op = "none" /\ Idle.pc = "idle"
  BY SessionAssumption, ZeroAge DEF Idle, Op, Step

\* The initial tables and threads have their types.
LEMMA InitType == Init => TypeOK
  BY IdleType, ZeroAge DEF Init, TypeOK, NoRow, Status, AuthStatus, CredStatus

\* Reconciling presence keeps the device columns well typed.
LEMMA ReconcileType ==
  ASSUME TypeOK, ReconcilePresence
  PROVE  /\ status' \in [Devices -> Status] /\ upd' \in [Devices -> Age]
         /\ row' = row /\ auth' = auth /\ seen' = seen
  BY ZeroAge DEF TypeOK, ReconcilePresence, Status

\* The records of threads, and what a thread begins or goes on with.
Threads == [op : Op, pc : Step, dev : Devices, tok : Tokens, found : BOOLEAN, age : Age]

LEMMA OpenType ==
  ASSUME NEW o \in Op, NEW p \in Step, NEW d \in Devices
  PROVE  /\ [Idle EXCEPT !.op = o, !.pc = p, !.dev = d] \in Threads
         /\ \A t \in Tokens : [Idle EXCEPT !.op = o, !.pc = p, !.dev = d, !.tok = t] \in Threads
  BY IdleType DEF Threads

LEMMA ServedType ==
  ASSUME TypeOK, NEW r \in Reqs, NEW x \in Threads, req' = [req EXCEPT ![r] = x]
  PROVE  req' \in [Reqs -> Threads]
  BY DEF TypeOK, Threads

LEMMA DoneType == ASSUME TypeOK, NEW r \in Reqs, Done(r) PROVE req' \in [Reqs -> Threads]
  BY ServedType, IdleType DEF Done, Threads

\* Every step of Next keeps every variable in its type.
LEMMA NextType == TypeOK /\ [Next]_vars => TypeOK'
<1> SUFFICES ASSUME TypeOK, [Next]_vars PROVE TypeOK'
  OBVIOUS
<1> USE ZeroAge, IdleType, SessionAssumption
<1>1. ASSUME NEW r \in Reqs, NEW t \in Tokens, StartContact(r, t) PROVE TypeOK'
  <2>1. "contact" \in Op /\ "cred_check" \in Step /\ Owner[t] \in Devices
    BY DEF Op, Step
  <2>2. req' \in [Reqs -> Threads]
    BY <1>1, <2>1, OpenType, ServedType DEF StartContact
  <2> QED  BY <1>1, <2>2 DEF TypeOK, StartContact, Threads, deviceVars, credVars, history
<1>2. ASSUME NEW r \in Reqs, CredCheck(r) PROVE TypeOK'
  BY <1>2 DEF TypeOK, CredCheck, Done, deviceVars, credVars, history, Step
<1>3. ASSUME NEW r \in Reqs, Touch(r) PROVE TypeOK'
  BY <1>3 DEF TypeOK, Touch, PutOnline, Done, credVars, history, Status
<1>4. ASSUME NEW r \in Reqs, UpsertRead(r) PROVE TypeOK'
  <2> DEFINE F == req[r].dev \in row
  <2>1. F \in BOOLEAN /\ "up_write" \in Step
    BY DEF Step
  <2>2. req' = [req EXCEPT ![r] = [req[r] EXCEPT !.pc = "up_write", !.found = F]]
    BY <1>4 DEF UpsertRead
  <2> HIDE DEF F
  <2>3. req' \in [Reqs -> [op : Op, pc : Step, dev : Devices, tok : Tokens,
                           found : BOOLEAN, age : Age]]
    BY <2>1, <2>2 DEF TypeOK
  <2> QED  BY <1>4, <2>3 DEF TypeOK, UpsertRead, deviceVars, credVars, history
<1>5. ASSUME NEW r \in Reqs, UpsertWrite(r) PROVE TypeOK'
  <2>1. req' \in [Reqs -> Threads]
    <3>1. req[r] \in Threads /\ "present" \in Step
      BY DEF TypeOK, Threads, Step
    <3>2. [req[r] EXCEPT !.pc = "present", !.found = FALSE, !.age = 0] \in Threads
      BY <3>1 DEF Threads
    <3>3. CASE Written(r)
      <4>1. req' = [req EXCEPT ![r] = [req[r] EXCEPT !.pc = "present", !.found = FALSE, !.age = 0]]
        BY <3>3 DEF Written, TypeOK
      <4> QED  BY <3>2, <4>1, ServedType
    <3> QED  BY <1>5, <3>3, DoneType DEF UpsertWrite
  <2>2. UpsertValues(r).status \in Status /\ UpsertValues(r).auth \in AuthStatus
        /\ UpsertValues(r).seen \in Age \cup {Null}
    BY DEF UpsertValues, TypeOK, Status, AuthStatus
  <2>3. CASE UNCHANGED deviceVars
    BY <1>5, <2>1, <2>3 DEF UpsertWrite, TypeOK, Threads, deviceVars, credVars, history
  <2>4. CASE ~UNCHANGED deviceVars
    <3>1. PICK v : v = UpsertValues(r)
      OBVIOUS
    <3>2. /\ row' = row \cup {req[r].dev}
          /\ status' = [status EXCEPT ![req[r].dev] = v.status]
          /\ auth' = [auth EXCEPT ![req[r].dev] = v.auth]
          /\ seen' = [seen EXCEPT ![req[r].dev] = v.seen]
          /\ upd' = [upd EXCEPT ![req[r].dev] = req[r].age]
      BY <1>5, <2>4, <3>1 DEF UpsertWrite
    <3>3. UNCHANGED <<credVars, history>>
      BY <1>5 DEF UpsertWrite
    <3>4. v.status \in Status /\ v.auth \in AuthStatus /\ v.seen \in Age \cup {Null}
      BY <2>2, <3>1
    <3> QED  BY <2>1, <3>2, <3>3, <3>4 DEF TypeOK, Threads, credVars, history
  <2> QED  BY <2>3, <2>4
<1>6. ASSUME NEW r \in Reqs, Present(r) PROVE TypeOK'
  BY <1>6, ReconcileType DEF TypeOK, Present, Goto, Done, credVars, history, Step
<1>7. ASSUME NEW r \in Reqs, AuthMark(r) PROVE TypeOK'
  <2>1. cred' \in [Tokens -> CredStatus] /\ revived' \in SUBSET Tokens
    BY <1>7 DEF TypeOK, AuthMark, CredStatus
  <2>2. req' \in [Reqs -> [op : Op, pc : Step, dev : Devices, tok : Tokens,
                           found : BOOLEAN, age : Age]]
    BY <1>7 DEF TypeOK, AuthMark, Done
  <2> QED  BY <1>7, <2>1, <2>2 DEF TypeOK, AuthMark, deviceVars
<1>8. ASSUME NEW r \in Reqs, NEW t \in Tokens, AuthSelect(r, t) PROVE TypeOK'
  <2>1. "authenticate" \in Op /\ "up_read" \in Step /\ Owner[t] \in Devices
    BY DEF Op, Step
  <2>2. req' \in [Reqs -> Threads]
    BY <1>8, <2>1, OpenType, ServedType DEF AuthSelect
  <2> QED  BY <1>8, <2>2 DEF TypeOK, AuthSelect, Threads, deviceVars, credVars, history
<1>9. ASSUME NEW t \in Tokens, Generate(t), req' \in [Reqs -> [op : Op, pc : Step,
        dev : Devices, tok : Tokens, found : BOOLEAN, age : Age]], UNCHANGED history
      PROVE TypeOK'
  BY <1>9 DEF TypeOK, Generate, RevokeAll, Live, history, CredStatus, AuthStatus
<1>10. ASSUME NEW t \in Tokens, PairDevice(t) PROVE TypeOK'
  BY <1>9, <1>10 DEF PairDevice, TypeOK
<1>11. ASSUME NEW r \in Reqs, NEW d \in Devices, StartClientRegister(r, d) PROVE TypeOK'
  <2>1. "client_register" \in Op /\ "up_read" \in Step
    BY DEF Op, Step
  <2>2. req' \in [Reqs -> Threads]
    BY <1>11, <2>1, OpenType, ServedType DEF StartClientRegister
  <2> QED  BY <1>11, <2>2 DEF TypeOK, StartClientRegister, Threads, deviceVars, credVars, history
<1>12. ASSUME NEW r \in Reqs, ClientIssue(r) PROVE TypeOK'
  <2>1. req' \in [Reqs -> [op : Op, pc : Step, dev : Devices, tok : Tokens,
                           found : BOOLEAN, age : Age]]
    BY <1>12 DEF TypeOK, ClientIssue, Done
  <2>2. CASE \E t \in Tokens : Owner[t] = req[r].dev /\ Generate(t)
    BY <1>9, <1>12, <2>1, <2>2 DEF ClientIssue
  <2>3. CASE UNCHANGED <<deviceVars, credVars>>
    BY <1>12, <2>1, <2>3 DEF TypeOK, ClientIssue, deviceVars, credVars, history
  <2> QED  BY <1>12, <2>2, <2>3 DEF ClientIssue
<1>13. ASSUME NEW d \in Devices, Revoke(d) PROVE TypeOK'
  BY <1>13 DEF TypeOK, Revoke, RevokeAll, Live, history, CredStatus, AuthStatus, Status
<1>14. ASSUME NEW r \in Reqs, NEW d \in Devices, ReauthCheck(r, d) PROVE TypeOK'
  BY <1>14 DEF TypeOK, ReauthCheck, deviceVars, credVars, history, Op, Step, Idle
<1>15. ASSUME NEW r \in Reqs, ReauthWrite(r) PROVE TypeOK'
  <2>1. req' \in [Reqs -> Threads]
    BY <1>15, DoneType DEF ReauthWrite
  <2>2. cred' \in [Tokens -> CredStatus]
    BY <1>15 DEF TypeOK, ReauthWrite, RevokeAll, CredStatus
  <2>3. auth' \in [Devices -> AuthStatus] /\ status' \in [Devices -> Status]
    BY <1>15 DEF TypeOK, ReauthWrite, AuthStatus, Status
  <2>4. upd' \in [Devices -> Age]
    BY <1>15 DEF TypeOK, ReauthWrite
  <2> QED  BY <1>15, <2>1, <2>2, <2>3, <2>4 DEF TypeOK, ReauthWrite, Threads, history
<1>16. ASSUME NEW r \in Reqs, NEW d \in Devices, Register(r, d) PROVE TypeOK'
  <2>1. "register" \in Op /\ "present" \in Step
    BY DEF Op, Step
  <2>2. req' \in [Reqs -> Threads]
    BY <1>16, <2>1, OpenType, ServedType DEF Register
  <2> QED  BY <1>16, <2>2 DEF TypeOK, Register, Threads, credVars, history, Status, AuthStatus
<1>17. ASSUME NEW r \in Reqs, NEW d \in Devices, UpdateRead(r, d) PROVE TypeOK'
  BY <1>17, ReconcileType DEF TypeOK, UpdateRead, credVars, history, Op, Step, Idle
<1>18. ASSUME NEW r \in Reqs, NEW s \in AdminStatuses \cup {Null}, UpdateWrite(r, s) PROVE TypeOK'
  BY <1>18 DEF TypeOK, UpdateWrite, Goto, credVars, history, Step, Status
<1>19. ASSUME NEW d \in Devices, Remove(d) PROVE TypeOK'
  BY <1>19 DEF TypeOK, Remove, NoRow, Status, AuthStatus, CredStatus
<1>20. ASSUME Monitor PROVE TypeOK'
  BY <1>20, ReconcileType DEF TypeOK, Monitor, credVars, history
<1>21. ASSUME Tick PROVE TypeOK'
  <2>1. req' \in [Reqs -> [op : Op, pc : Step, dev : Devices, tok : Tokens,
                           found : BOOLEAN, age : Age]]
    BY <1>21, OlderAge DEF TypeOK, Tick
  <2>2. /\ seen' \in [Devices -> Age \cup {Null}] /\ upd' \in [Devices -> Age]
        /\ credAge' \in [Tokens -> Age]
    BY <1>21, OlderAge DEF TypeOK, Tick
  <2> QED  BY <1>21, <2>1, <2>2 DEF TypeOK, Tick, history
<1>22. ASSUME NEW R \in SUBSET Reqs, Fail(R) PROVE TypeOK'
  BY <1>22 DEF TypeOK, Fail, deviceVars, credVars
<1>23. ASSUME UNCHANGED vars PROVE TypeOK'
  BY <1>23 DEF TypeOK, vars, deviceVars, credVars, history
<1> QED
  BY <1>1, <1>2, <1>3, <1>4, <1>5, <1>6, <1>7, <1>8, <1>10, <1>11, <1>12, <1>13, <1>14,
     <1>15, <1>16, <1>17, <1>18, <1>19, <1>20, <1>21, <1>22, <1>23
  DEF Next, HandlerStep, Arrival

\* Tables and handler threads keep their types, whatever interleaving of
\* requests, clock, failures and removals the Master runs through.
THEOREM TypeCorrect == Spec => []TypeOK
  BY InitType, NextType, PTL DEF Spec
-----------------------------------------------------------------------------
(***************************************************************************)
(* The inductive invariant.  PairedIsBacked alone is not inductive: when a *)
(* handler finishes, its last write must land on a credential that exists, *)
(* which PairingInFlight says; that holds for a handler that starts only   *)
(* because a live credential has a device row, which is NoOrphanCredential.*)
(***************************************************************************)
IInv ==
  /\ TypeOK
  /\ PairingInFlight
  /\ NoOrphanCredential
  /\ PairedIsBacked
  /\ OneLiveCredential

\* No device is paired, no credential is issued and no request is served.
LEMMA InitInv == Init => IInv
<1> SUFFICES ASSUME Init PROVE IInv
  OBVIOUS
<1>1. TypeOK
  BY InitType
<1>2. PairingInFlight
  BY IdleType DEF Init, PairingInFlight, InFlight, At
<1>3. NoOrphanCredential /\ OneLiveCredential
  BY DEF Init, NoOrphanCredential, OneLiveCredential, Live
<1>4. PairedIsBacked
  BY DEF Init, PairedIsBacked, NoRow
<1> QED  BY <1>1, <1>2, <1>3, <1>4 DEF IInv

\* What one step may do to the rows, to the credentials and to the history.
\* Only a removal takes a row away, and with it the credentials; an issued
\* credential never becomes unissued again.
Shrink ==
  \A d \in Devices :
    \/ /\ d \in row => d \in row'
       /\ \A t \in Tokens : Owner[t] = d /\ cred'[t] = "gone" => cred[t] = "gone"
    \/ Remove(d)

Monotone ==
  /\ cut \subseteq cut'
  /\ \A t \in Tokens : cred[t] # "unissued" => cred'[t] # "unissued"

\* Every step of Next is one that Shrink and Monotone describe.
LEMMA NextTables == ASSUME IInv, [Next]_vars PROVE Shrink /\ Monotone
<1> USE DEF IInv, TypeOK, Shrink, Monotone, history, deviceVars, credVars
<1>1. ASSUME NEW r \in Reqs, NEW t \in Tokens, StartContact(r, t)
      PROVE Shrink /\ Monotone
  BY <1>1 DEF StartContact
<1>2. ASSUME NEW r \in Reqs, CredCheck(r) PROVE Shrink /\ Monotone
  BY <1>2 DEF CredCheck
<1>3. ASSUME NEW r \in Reqs, Touch(r) PROVE Shrink /\ Monotone
  BY <1>3 DEF Touch, PutOnline
<1>4. ASSUME NEW r \in Reqs, UpsertRead(r) PROVE Shrink /\ Monotone
  BY <1>4 DEF UpsertRead
<1>5. ASSUME NEW r \in Reqs, UpsertWrite(r) PROVE Shrink /\ Monotone
  BY <1>5 DEF UpsertWrite
<1>6. ASSUME ReconcilePresence, UNCHANGED <<credVars, history>>
      PROVE Shrink /\ Monotone
  BY <1>6 DEF ReconcilePresence
<1>7. ASSUME NEW r \in Reqs, AuthMark(r) PROVE Shrink /\ Monotone
  BY <1>7 DEF AuthMark
<1>8. ASSUME NEW r \in Reqs, NEW t \in Tokens, AuthSelect(r, t)
      PROVE Shrink /\ Monotone
  BY <1>8 DEF AuthSelect
<1>9. ASSUME NEW t \in Tokens, Generate(t), UNCHANGED history
      PROVE Shrink /\ Monotone
  BY <1>9 DEF Generate, RevokeAll, Live
<1>10. ASSUME NEW r \in Reqs, NEW d \in Devices, StartClientRegister(r, d)
       PROVE Shrink /\ Monotone
  BY <1>10 DEF StartClientRegister
<1>11. ASSUME NEW r \in Reqs, ClientIssue(r) PROVE Shrink /\ Monotone
  BY <1>9, <1>11 DEF ClientIssue
<1>12. ASSUME NEW d \in Devices, Revoke(d) PROVE Shrink /\ Monotone
  BY <1>12 DEF Revoke, RevokeAll, Live
<1>13. ASSUME NEW r \in Reqs, NEW d \in Devices, ReauthCheck(r, d)
       PROVE Shrink /\ Monotone
  BY <1>13 DEF ReauthCheck
<1>14. ASSUME NEW r \in Reqs, ReauthWrite(r) PROVE Shrink /\ Monotone
  BY <1>14 DEF ReauthWrite, RevokeAll, Live
<1>15. ASSUME NEW r \in Reqs, NEW d \in Devices, Register(r, d)
       PROVE Shrink /\ Monotone
  BY <1>15 DEF Register
<1>16. ASSUME NEW r \in Reqs, NEW s \in AdminStatuses \cup {Null}, UpdateWrite(r, s)
       PROVE Shrink /\ Monotone
  BY <1>16 DEF UpdateWrite
<1>17. ASSUME NEW d \in Devices, Remove(d) PROVE Shrink /\ Monotone
  BY <1>17 DEF Remove
<1>18. ASSUME Tick PROVE Shrink /\ Monotone
  BY <1>18 DEF Tick
<1>19. ASSUME NEW R \in SUBSET Reqs, Fail(R) PROVE Shrink /\ Monotone
  BY <1>19 DEF Fail
<1>20. ASSUME UNCHANGED vars PROVE Shrink /\ Monotone
  BY <1>20 DEF vars
<1> QED
  BY <1>1, <1>2, <1>3, <1>4, <1>5, <1>6, <1>7, <1>8, <1>9, <1>10, <1>11, <1>12,
     <1>13, <1>14, <1>15, <1>16, <1>17, <1>18, <1>19, <1>20
  DEF Next, HandlerStep, Arrival, Present, UpdateRead, Monitor, PairDevice
-----------------------------------------------------------------------------
\* A thread that keeps its place and what it read: a removal of its device is
\* written into the history, and nothing else takes what it relies on away.
Stays(q) ==
  /\ req'[q].op = req[q].op /\ req'[q].pc = req[q].pc /\ req'[q].dev = req[q].dev
  /\ req'[q].tok = req[q].tok /\ req'[q].found = req[q].found

LEMMA StaysInFlight ==
  ASSUME IInv, Shrink, Monotone, NEW q \in Reqs, Stays(q)
  PROVE  InFlight(q)'
<1> DEFINE d == req[q].dev
<1>1. InFlight(q)
  BY DEF IInv, PairingInFlight
<1>2. d \in Devices /\ req[q].tok \in Tokens
  BY DEF IInv, TypeOK
<1>3. CASE Remove(d)
  BY <1>1, <1>2, <1>3 DEF Stays, InFlight, At, Remove, Pairing, Monotone
<1>4. CASE ~Remove(d)
  BY <1>1, <1>2, <1>4 DEF Stays, InFlight, At, Shrink, Monotone
<1> QED  BY <1>3, <1>4

\* A thread that is at none of the steps of authenticate_device.
LEMMA OtherInFlight ==
  ASSUME NEW q, req'[q].op # "authenticate", req'[q].pc # "mark"
  PROVE  InFlight(q)'
  BY DEF InFlight, At

\* A thread in flight that stays in flight: its device and token are the same,
\* and its row and credential survive or it is in the history.
LEMMA MovesInFlight ==
  ASSUME IInv, Shrink, Monotone, NEW q \in Reqs, req[q].op = "authenticate",
         req'[q].op = "authenticate", req'[q].dev = req[q].dev,
         req'[q].tok = req[q].tok,
         req'[q].pc \in {"up_read", "up_write", "present", "mark"},
         req'[q].pc # "up_write" \/ (req[q].dev \in row => req'[q].found),
         req'[q].found = TRUE \/ req'[q].found = FALSE
  PROVE  InFlight(q)'
<1> DEFINE d == req[q].dev
<1>1. InFlight(q)
  BY DEF IInv, PairingInFlight
<1>2. d \in Devices /\ req[q].tok \in Tokens
  BY DEF IInv, TypeOK
<1>3. CASE Remove(d)
  BY <1>1, <1>2, <1>3 DEF InFlight, At, Remove, Pairing, Monotone
<1>4. CASE ~Remove(d)
  BY <1>1, <1>2, <1>4 DEF InFlight, At, Shrink, Monotone
<1> QED  BY <1>3, <1>4

\* PairingInFlight is preserved: threads that do not move keep it, and the one
\* that moves is followed from the SELECT to the mark.
LEMMA NextInFlight == ASSUME IInv, [Next]_vars PROVE PairingInFlight'
<1>1. Shrink /\ Monotone
  BY NextTables
<1> SUFFICES ASSUME NEW q \in Reqs PROVE InFlight(q)'
  BY DEF PairingInFlight
<1> USE <1>1, StaysInFlight, OtherInFlight, IdleType
<1>2. req \in [Reqs -> [op : Op, pc : Step, dev : Devices, tok : Tokens,
                        found : BOOLEAN, age : Age]]
  BY DEF IInv, TypeOK
<1>3. InFlight(q)
  BY DEF IInv, PairingInFlight
<1>4. ASSUME NEW r \in Reqs, NEW x, req' = [req EXCEPT ![r] = x], r # q
      PROVE InFlight(q)'
  BY <1>2, <1>4 DEF Stays
<1>5. ASSUME NEW r \in Reqs, NEW x, req' = [req EXCEPT ![r] = x],
             x.op # "authenticate", x.pc # "mark"
      PROVE InFlight(q)'
  BY <1>2, <1>4, <1>5
<1>6. ASSUME NEW r \in Reqs, Done(r) PROVE InFlight(q)'
  BY <1>5, <1>6 DEF Done
<1>7. ASSUME req' = req PROVE InFlight(q)'
  BY <1>7 DEF Stays
<1>8. ASSUME NEW r \in Reqs, NEW t \in Tokens, StartContact(r, t) PROVE InFlight(q)'
  <2> DEFINE x == [Idle EXCEPT !.op = "contact", !.pc = "cred_check",
                                !.dev = Owner[t], !.tok = t]
  <2>1. req' = [req EXCEPT ![r] = x] /\ x.op # "authenticate" /\ x.pc # "mark"
    BY <1>8 DEF StartContact, Idle
  <2> HIDE DEF x
  <2> QED  BY <1>5, <2>1
<1>9. ASSUME NEW r \in Reqs, CredCheck(r) PROVE InFlight(q)'
  <2>1. CASE Done(r)
    BY <1>6, <2>1
  <2>2. CASE req' = [req EXCEPT ![r].pc = "touch", ![r].age = 0]
    <3>1. CASE r # q
      BY <1>2, <2>2, <3>1 DEF Stays
    <3>2. CASE r = q
      BY <1>2, <1>3, <1>9, <2>2, <3>2 DEF InFlight, At, CredCheck
    <3> QED  BY <3>1, <3>2
  <2> QED  BY <1>9, <2>1, <2>2 DEF CredCheck
<1>10. ASSUME NEW r \in Reqs, Touch(r) PROVE InFlight(q)'
  BY <1>6, <1>10 DEF Touch, PutOnline
<1>11. ASSUME NEW r \in Reqs, UpsertRead(r) PROVE InFlight(q)'
  <2> DEFINE F == req[r].dev \in row
  <2>1. /\ req[r].dev \in row => F
        /\ F = TRUE \/ F = FALSE
    OBVIOUS
  <2>2. req' = [req EXCEPT ![r] = [req[r] EXCEPT !.pc = "up_write", !.found = F]]
    BY <1>11 DEF UpsertRead
  <2> HIDE DEF F
  <2>3. CASE r # q
    BY <1>4, <2>2, <2>3
  <2>4. CASE r = q /\ req[q].op # "authenticate"
    BY <1>2, <2>2, <2>4
  <2>5. CASE r = q /\ req[q].op = "authenticate"
    BY <1>2, <2>1, <2>2, <2>5, MovesInFlight
  <2> QED  BY <2>3, <2>4, <2>5
<1>12. ASSUME NEW r \in Reqs, NEW x, req' = [req EXCEPT ![r] = x],
              x.op = req[r].op, x.dev = req[r].dev, x.tok = req[r].tok,
              x.found \in BOOLEAN, x.pc \in {"present", "mark", "issue"},
              x.pc = "mark" => req[r].op = "authenticate",
              x.pc = "issue" => req[r].op # "authenticate"
       PROVE InFlight(q)'
  <2>1. CASE r # q
    BY <1>4, <1>12, <2>1
  <2>2. CASE r = q /\ req[q].op # "authenticate"
    BY <1>2, <1>12, <2>2
  <2>3. CASE r = q /\ req[q].op = "authenticate"
    BY <1>2, <1>12, <2>3, MovesInFlight
  <2> QED  BY <2>1, <2>2, <2>3
<1>13. ASSUME NEW r \in Reqs, UpsertWrite(r) PROVE InFlight(q)'
  <2>1. CASE Done(r)
    BY <1>6, <2>1
  <2>2. CASE Written(r)
    <3> DEFINE x == [req[r] EXCEPT !.pc = "present", !.found = FALSE, !.age = 0]
    <3>1. req' = [req EXCEPT ![r] = x]
      BY <2>2 DEF Written
    <3>2. /\ x.op = req[r].op /\ x.dev = req[r].dev /\ x.tok = req[r].tok
          /\ x.found \in BOOLEAN /\ x.pc = "present"
      BY <1>2
    <3> QED  BY <1>12, <3>1, <3>2
  <2> QED  BY <1>13, <2>1, <2>2 DEF UpsertWrite
<1>14. ASSUME NEW r \in Reqs, NEW pc \in {"present", "mark", "issue"}, Goto(r, pc),
              pc = "mark" => req[r].op = "authenticate",
              pc = "issue" => req[r].op # "authenticate"
       PROVE InFlight(q)'
  <2> DEFINE x == [req[r] EXCEPT !.pc = pc]
  <2>1. req' = [req EXCEPT ![r] = x]
    BY <1>14 DEF Goto
  <2>2. /\ x.op = req[r].op /\ x.dev = req[r].dev /\ x.tok = req[r].tok
        /\ x.found \in BOOLEAN /\ x.pc = pc
    BY <1>2
  <2> QED  BY <1>12, <1>14, <2>1, <2>2
<1>15. ASSUME NEW r \in Reqs, Present(r) PROVE InFlight(q)'
  <2>1. CASE req[r].op = "authenticate"
    BY <1>14, <1>15, <2>1 DEF Present
  <2>2. CASE req[r].op = "client_register"
    BY <1>14, <1>15, <2>2 DEF Present
  <2>3. CASE req[r].op \notin {"authenticate", "client_register"}
    BY <1>6, <1>15, <2>3 DEF Present
  <2> QED  BY <2>1, <2>2, <2>3
<1>16. ASSUME NEW r \in Reqs, AuthMark(r) PROVE InFlight(q)'
  BY <1>6, <1>16 DEF AuthMark
<1>17. ASSUME NEW r \in Reqs, NEW t \in Tokens, AuthSelect(r, t) PROVE InFlight(q)'
  <2>1. CASE r # q
    BY <1>4, <1>17, <2>1 DEF AuthSelect
  <2>2. CASE r = q
    <3>1. Live(t) /\ Owner[t] \in row /\ row' = row /\ cred' = cred
      BY <1>17 DEF AuthSelect, IInv, NoOrphanCredential, Live, deviceVars, credVars
    <3>2. /\ req'[q].op = "authenticate" /\ req'[q].pc = "up_read"
          /\ req'[q].dev = Owner[t] /\ req'[q].tok = t
      BY <1>2, <1>17, <2>2 DEF AuthSelect, Idle
    <3> QED  BY <3>1, <3>2 DEF InFlight, At, Live
  <2> QED  BY <2>1, <2>2
<1>18. ASSUME NEW r \in Reqs, NEW d \in Devices,
              StartClientRegister(r, d) \/ ReauthCheck(r, d) \/ Register(r, d)
                \/ UpdateRead(r, d)
       PROVE InFlight(q)'
  <2>1. CASE StartClientRegister(r, d)
    <3> DEFINE x == [Idle EXCEPT !.op = "client_register", !.pc = "up_read", !.dev = d]
    <3>1. req' = [req EXCEPT ![r] = x] /\ x.op # "authenticate" /\ x.pc # "mark"
      BY <2>1 DEF StartClientRegister, Idle
    <3> HIDE DEF x
    <3> QED  BY <1>5, <3>1
  <2>2. CASE ReauthCheck(r, d)
    <3> DEFINE x == [Idle EXCEPT !.op = "reauth", !.pc = "reauth", !.dev = d]
    <3>1. req' = [req EXCEPT ![r] = x] /\ x.op # "authenticate" /\ x.pc # "mark"
      BY <2>2 DEF ReauthCheck, Idle
    <3> HIDE DEF x
    <3> QED  BY <1>5, <3>1
  <2>3. CASE Register(r, d)
    <3> DEFINE x == [Idle EXCEPT !.op = "register", !.pc = "present", !.dev = d]
    <3>1. req' = [req EXCEPT ![r] = x] /\ x.op # "authenticate" /\ x.pc # "mark"
      BY <2>3 DEF Register, Idle
    <3> HIDE DEF x
    <3> QED  BY <1>5, <3>1
  <2>4. CASE UpdateRead(r, d)
    <3> DEFINE x == [Idle EXCEPT !.op = "update_device", !.pc = "update", !.dev = d]
    <3>1. req' = [req EXCEPT ![r] = x] /\ x.op # "authenticate" /\ x.pc # "mark"
      BY <2>4 DEF UpdateRead, Idle
    <3> HIDE DEF x
    <3> QED  BY <1>5, <3>1
  <2> QED  BY <1>18, <2>1, <2>2, <2>3, <2>4
<1>19. ASSUME NEW r \in Reqs, ClientIssue(r) \/ ReauthWrite(r) PROVE InFlight(q)'
  BY <1>6, <1>19 DEF ClientIssue, ReauthWrite
<1>20. ASSUME NEW r \in Reqs, NEW s \in AdminStatuses \cup {Null}, UpdateWrite(r, s)
       PROVE InFlight(q)'
  BY <1>14, <1>20 DEF UpdateWrite
<1>21. ASSUME Tick PROVE InFlight(q)'
  BY <1>2, <1>21 DEF Tick, Stays
<1>22. ASSUME NEW R \in SUBSET Reqs, Fail(R) PROVE InFlight(q)'
  <2>1. CASE q \in R
    BY <1>22, <2>1 DEF Fail
  <2>2. CASE q \notin R
    BY <1>2, <1>22, <2>2 DEF Fail, Stays
  <2> QED  BY <2>1, <2>2
<1> QED
  BY <1>7, <1>8, <1>9, <1>10, <1>11, <1>13, <1>15, <1>16, <1>17, <1>18, <1>19, <1>20,
     <1>21, <1>22
  DEF Next, HandlerStep, Arrival, PairDevice, Revoke, Remove, Monitor, vars
-----------------------------------------------------------------------------
\* The steps that write table device_auth; all others leave it alone.
CredWrite ==
  \/ \E t \in Tokens : Generate(t)
  \/ \E r \in Reqs : AuthMark(r) \/ ReauthWrite(r)
  \/ \E d \in Devices : Revoke(d) \/ Remove(d)

LEMMA OtherCred == ASSUME [Next]_vars PROVE CredWrite \/ cred' = cred
<1> USE DEF CredWrite, credVars
<1>1. ASSUME NEW r \in Reqs, HandlerStep(r) PROVE CredWrite \/ cred' = cred
  <2>1. CASE ClientIssue(r)
    BY <2>1 DEF ClientIssue
  <2> QED
    BY <1>1, <2>1 DEF HandlerStep, CredCheck, Touch, PutOnline, UpsertRead, UpsertWrite, Present,
                      UpdateWrite
<1>2. ASSUME NEW r \in Reqs, Arrival(r) PROVE CredWrite \/ cred' = cred
  BY <1>2 DEF Arrival, StartContact, AuthSelect, StartClientRegister, ReauthCheck,
              Register, UpdateRead
<1> QED
  BY <1>1, <1>2 DEF Next, PairDevice, Monitor, Tick, Fail, vars

\* NoOrphanCredential is preserved: a credential is written only where a row was
\* checked by the foreign key, and a row leaves together with its credentials.
LEMMA NextOrphan == ASSUME IInv, [Next]_vars PROVE NoOrphanCredential'
<1> DEFINE Kept == {"pending", "paired", "revoked"}
<1> SUFFICES ASSUME NEW t \in Tokens, cred'[t] \in Kept PROVE Owner[t] \in row'
  BY DEF NoOrphanCredential
<1>1. Owner[t] \in Devices /\ cred[t] \in CredStatus
  BY SessionAssumption DEF IInv, TypeOK
<1>2. CASE Remove(Owner[t])
  BY <1>1, <1>2 DEF Remove, IInv, TypeOK, CredStatus
<1>3. ASSUME ~Remove(Owner[t]), cred[t] \in Kept PROVE Owner[t] \in row'
  BY <1>1, <1>3, NextTables DEF Shrink, IInv, NoOrphanCredential
<1>4. CASE ~Remove(Owner[t]) /\ cred[t] \notin Kept
  <2>1. CASE \E u \in Tokens : Generate(u)
    BY <1>4, <2>1 DEF Generate, RevokeAll, Live, IInv, TypeOK, CredStatus
  <2>2. ASSUME NEW r \in Reqs, AuthMark(r) PROVE FALSE
    BY <1>4, <2>2 DEF AuthMark, IInv, TypeOK, CredStatus, PairingInFlight, InFlight, At
  <2>3. CASE \E d \in Devices : cred' = RevokeAll(d) \/ Remove(d)
    BY <1>4, <2>3 DEF RevokeAll, Live, Remove, IInv, TypeOK, CredStatus
  <2>4. CASE cred' = cred
    BY <1>4, <2>4
  <2>5. ASSUME NEW r \in Reqs, ReauthWrite(r)
        PROVE \E d \in Devices : cred' = RevokeAll(d)
    BY <2>5 DEF ReauthWrite, IInv, TypeOK
  <2> QED
    BY <2>1, <2>2, <2>3, <2>4, <2>5, OtherCred DEF CredWrite, Revoke
<1> QED  BY <1>2, <1>3, <1>4

\* OneLiveCredential is preserved: an insert revokes the others in the same
\* commit, and a mark makes a credential live only by reviving it.
LEMMA NextOneLive == ASSUME IInv, [Next]_vars PROVE OneLiveCredential'
<1> SUFFICES ASSUME NEW t \in Tokens, NEW u \in Tokens, Owner[t] = Owner[u], t # u,
                    cred'[t] \in {"pending", "paired"}, cred'[u] \in {"pending", "paired"}
             PROVE  {t, u} \cap revived' # {}
  BY DEF OneLiveCredential, Live
<1> USE DEF IInv, TypeOK, CredStatus
<1>1. revived \subseteq revived'
  <2>1. ASSUME NEW r \in Reqs, HandlerStep(r) PROVE revived \subseteq revived'
    BY <2>1 DEF HandlerStep, CredCheck, Touch, PutOnline, UpsertRead, UpsertWrite, Present, AuthMark,
                ClientIssue, ReauthWrite, UpdateWrite, history
  <2>2. ASSUME NEW r \in Reqs, Arrival(r) PROVE revived \subseteq revived'
    BY <2>2 DEF Arrival, StartContact, AuthSelect, StartClientRegister, ReauthCheck,
                Register, UpdateRead, history
  <2> QED
    BY <2>1, <2>2 DEF Next, PairDevice, Revoke, Remove, Monitor, Tick, Fail, vars, history
<1>2. CASE Live(t) /\ Live(u)
  BY <1>1, <1>2 DEF OneLiveCredential
<1>3. CASE ~(Live(t) /\ Live(u))
  <2>1. ASSUME NEW v \in Tokens, Generate(v) PROVE FALSE
    BY <1>3, <2>1 DEF Generate, RevokeAll, Live
  <2>2. ASSUME NEW r \in Reqs, AuthMark(r) PROVE {t, u} \cap revived' # {}
    <3> DEFINE k == req[r].tok
    <3>1. k \in Tokens /\ cred[k] # "unissued"
      BY <2>2 DEF AuthMark, At, PairingInFlight, InFlight
    <3>2. \A x \in Tokens : x # k => cred'[x] = cred[x]
      BY <2>2 DEF AuthMark
    <3>3. k \in {t, u} /\ ~Live(k) /\ cred'[k] \in {"pending", "paired"}
      BY <1>3, <3>1, <3>2 DEF Live
    <3>4. cred[k] = "revoked"
      BY <2>2, <3>1, <3>3 DEF AuthMark, Live
    <3> QED  BY <2>2, <3>3, <3>4 DEF AuthMark
  <2>3. CASE \E d \in Devices : cred' = RevokeAll(d) \/ Remove(d)
    BY <1>3, <2>3 DEF RevokeAll, Live, Remove
  <2>4. CASE cred' = cred
    BY <1>3, <2>4 DEF Live
  <2>5. ASSUME NEW r \in Reqs, ReauthWrite(r)
        PROVE \E d \in Devices : cred' = RevokeAll(d)
    BY <2>5 DEF ReauthWrite
  <2> QED
    BY <2>1, <2>2, <2>3, <2>4, <2>5, OtherCred DEF CredWrite, Revoke
<1> QED  BY <1>2, <1>3
-----------------------------------------------------------------------------
\* How a device stays backed: by a paired credential that no step of this kind
\* touches, or by a handler that stays in its pairing.
Backed(d) ==
  \/ \E t \in Tokens : Owner[t] = d /\ cred[t] = "paired"
  \/ \E r \in Reqs : Pairing(r, d)

\* Only the second half of an authentication, a revocation, a removal or a new
\* credential can change what backs a device; the other steps keep it.
LEMMA KeepsBacked ==
  ASSUME IInv, NEW d \in Devices, Backed(d),
         \A t \in Tokens : cred[t] = "paired" /\ Owner[t] = d => cred'[t] = "paired",
         \A q \in Reqs : Pairing(q, d) => Pairing(q, d)'
  PROVE  Backed(d)'
  BY DEF Backed

\* Threads serving another request than an authentication may move as they like.
LEMMA KeepsPairing ==
  ASSUME IInv, NEW r \in Reqs, NEW x, req' = [req EXCEPT ![r] = x], NEW d,
         req[r].op # "authenticate" \/ (x.op = "authenticate" /\ x.dev = req[r].dev)
  PROVE  \A q \in Reqs : Pairing(q, d) => Pairing(q, d)'
  BY DEF IInv, TypeOK, Pairing

\* A thread that is idle, or past the middleware, is not pairing a device.
LEMMA NotPairing ==
  ASSUME IInv, NEW r \in Reqs,
         req[r].pc \in {"idle", "cred_check", "touch", "issue", "update", "reauth"}
  PROVE  req[r].op # "authenticate"
  BY DEF IInv, PairingInFlight, InFlight

\* PairedIsBacked is preserved.  The first write of an authentication pairs the
\* device while its thread is still pairing; the second finds its credential,
\* unless the device was removed, and marks it paired.
LEMMA NextBacked == ASSUME IInv, [Next]_vars PROVE PairedIsBacked'
<1> SUFFICES ASSUME NEW d \in Devices, d \notin cut', auth'[d] = "paired"
             PROVE  Backed(d)'
  BY DEF PairedIsBacked, Backed
<1> USE KeepsPairing, NotPairing DEF IInv, TypeOK
<1>1. d \notin cut
  BY NextTables DEF Monotone
<1>2. auth[d] = "paired" => Backed(d)
  BY <1>1 DEF PairedIsBacked, Backed
<1>3. ASSUME auth' = auth, cred' = cred,
             \A q \in Reqs : Pairing(q, d) => Pairing(q, d)'
      PROVE Backed(d)'
  BY <1>2, <1>3, KeepsBacked
<1>4. ASSUME NEW r \in Reqs, NEW t \in Tokens, StartContact(r, t) \/ AuthSelect(r, t)
      PROVE Backed(d)'
  BY <1>3, <1>4 DEF StartContact, AuthSelect, At, deviceVars, credVars
<1>5. ASSUME NEW r \in Reqs, CredCheck(r) PROVE Backed(d)'
  <2>1. req[r].op # "authenticate" /\ auth' = auth /\ cred' = cred
    BY <1>5 DEF CredCheck, At, deviceVars, credVars
  <2>2. \E x : req' = [req EXCEPT ![r] = x]
    BY <1>5 DEF CredCheck, Done
  <2> QED  BY <1>3, <2>1, <2>2
<1>6. ASSUME NEW r \in Reqs, Touch(r) PROVE Backed(d)'
  BY <1>3, <1>6 DEF Touch, PutOnline, At, Done, credVars
<1>7. ASSUME NEW r \in Reqs, NEW x, req' = [req EXCEPT ![r] = x], x.op = req[r].op,
             x.dev = req[r].dev
      PROVE \A q \in Reqs : Pairing(q, d) => Pairing(q, d)'
  BY <1>7 DEF Pairing
<1>8. ASSUME NEW r \in Reqs, UpsertRead(r) PROVE Backed(d)'
  <2> DEFINE x == [req[r] EXCEPT !.pc = "up_write", !.found = req[r].dev \in row]
  <2>1. req' = [req EXCEPT ![r] = x] /\ x.op = req[r].op /\ x.dev = req[r].dev
    BY <1>8 DEF UpsertRead
  <2> HIDE DEF x
  <2>2. \A q \in Reqs : Pairing(q, d) => Pairing(q, d)'
    BY <1>7, <2>1
  <2>3. auth' = auth /\ cred' = cred
    BY <1>8 DEF UpsertRead, deviceVars, credVars
  <2> QED  BY <1>3, <2>2, <2>3
<1>9. ASSUME NEW r \in Reqs, UpsertWrite(r) PROVE Backed(d)'
  <2> DEFINE x == [req[r] EXCEPT !.pc = "present", !.found = FALSE, !.age = 0]
  <2>1. cred' = cred
    BY <1>9 DEF UpsertWrite, credVars
  <2>2. x.op = req[r].op /\ x.dev = req[r].dev
    OBVIOUS
  <2>3. Written(r) => req' = [req EXCEPT ![r] = x]
    BY DEF Written
  <2> HIDE DEF x
  <2>4. CASE ~req[r].found /\ req[r].dev \in row /\ Done(r) /\ UNCHANGED deviceVars
    <3>1. ~Pairing(r, d)
      BY <1>1, <1>9, <2>4 DEF UpsertWrite, Pairing, PairingInFlight, InFlight, At
    <3>2. \A q \in Reqs : Pairing(q, d) => Pairing(q, d)'
      BY <2>4, <3>1 DEF Pairing, Done
    <3> QED  BY <1>3, <2>1, <2>4, <3>2 DEF deviceVars
  <2>5. CASE Written(r) /\ UNCHANGED deviceVars
    BY <1>3, <1>7, <2>1, <2>2, <2>3, <2>5 DEF deviceVars
  <2>6. CASE Written(r) /\ auth' = [auth EXCEPT ![req[r].dev] = UpsertValues(r).auth]
    <3>1. \A q \in Reqs : Pairing(q, d) => Pairing(q, d)'
      BY <1>7, <2>2, <2>3, <2>6
    <3>2. CASE req[r].dev = d
      <4>1. req[r].op = "authenticate"
        BY <2>6, <3>2 DEF UpsertValues
      <4> QED  BY <3>1, <3>2, <4>1 DEF Pairing, Backed
    <3>3. CASE req[r].dev # d
      BY <1>2, <2>1, <2>6, <3>1, <3>3, KeepsBacked
    <3> QED  BY <3>2, <3>3
  <2> QED  BY <1>9, <2>4, <2>5, <2>6 DEF UpsertWrite
<1>10. ASSUME NEW r \in Reqs, Present(r) PROVE Backed(d)'
  <2>1. cred' = cred /\ auth' = auth
    BY <1>10 DEF Present, ReconcilePresence, credVars
  <2>2. CASE req[r].op = "authenticate"
    <3> DEFINE x == [req[r] EXCEPT !.pc = "mark"]
    <3>1. req' = [req EXCEPT ![r] = x] /\ x.op = req[r].op /\ x.dev = req[r].dev
      BY <1>10, <2>2 DEF Present, Goto
    <3> HIDE DEF x
    <3> QED  BY <1>3, <1>7, <2>1, <3>1
  <2>3. CASE req[r].op # "authenticate"
    <3>1. \E x : req' = [req EXCEPT ![r] = x]
      BY <1>10, <2>3 DEF Present, Goto, Done
    <3> QED  BY <1>3, <2>1, <2>3, <3>1
  <2> QED  BY <2>2, <2>3
<1>11. ASSUME NEW r \in Reqs, AuthMark(r) PROVE Backed(d)'
  <2> DEFINE k == req[r].tok
  <2>1. /\ req[r].op = "authenticate" /\ k \in Tokens /\ Owner[k] = req[r].dev
        /\ req[r].dev \in cut \/ cred[k] # "gone"
    BY <1>11 DEF AuthMark, At, PairingInFlight, InFlight
  <2>2. auth' = auth /\ req' = [req EXCEPT ![r] = Idle]
        /\ \A t \in Tokens : cred[t] = "paired" => cred'[t] = "paired"
    BY <1>11 DEF AuthMark, Done, deviceVars
  <2>3. CASE req[r].dev = d
    BY <1>1, <1>11, <2>1, <2>3 DEF AuthMark, Backed
  <2>4. CASE req[r].dev # d
    BY <1>2, <2>2, <2>4, KeepsBacked DEF Pairing
  <2> QED  BY <2>3, <2>4
<1>12. ASSUME NEW t \in Tokens, Generate(t),
              \A q \in Reqs : Pairing(q, d) => Pairing(q, d)'
       PROVE Backed(d)'
  <2>1. Owner[t] # d /\ auth[d] = "paired"
    BY <1>12 DEF Generate
  <2> QED  BY <1>2, <1>12, <2>1, KeepsBacked DEF Generate, RevokeAll, Live
<1>13. ASSUME NEW r \in Reqs, ClientIssue(r) PROVE Backed(d)'
  <2>1. \A q \in Reqs : Pairing(q, d) => Pairing(q, d)'
    BY <1>13 DEF ClientIssue, At, Done
  <2> QED  BY <1>3, <1>12, <1>13, <2>1 DEF ClientIssue, deviceVars, credVars
<1>14. ASSUME NEW r \in Reqs, NEW e \in Devices,
              StartClientRegister(r, e) \/ ReauthCheck(r, e)
       PROVE Backed(d)'
  BY <1>3, <1>14 DEF StartClientRegister, ReauthCheck, At, deviceVars, credVars
<1>15. ASSUME NEW e \in Devices, cred' = RevokeAll(e), auth' = IF e \in row
                THEN [auth EXCEPT ![e] = "unauthenticated"] ELSE auth,
              \A q \in Reqs : Pairing(q, d) => Pairing(q, d)'
       PROVE Backed(d)'
  <2>1. auth[d] = "paired" /\ (e # d \/ e \notin row)
    BY <1>15
  <2>2. \A t \in Tokens : Owner[t] = d /\ cred[t] = "paired" => cred'[t] = "paired"
    BY <1>15, <2>1 DEF RevokeAll, NoOrphanCredential
  <2> QED  BY <1>2, <1>15, <2>1, <2>2, KeepsBacked
<1>16. ASSUME NEW r \in Reqs, ReauthWrite(r) PROVE Backed(d)'
  <2>1. \A q \in Reqs : Pairing(q, d) => Pairing(q, d)'
    BY <1>16 DEF ReauthWrite, At, Done
  <2> QED  BY <1>15, <1>16, <2>1 DEF ReauthWrite
<1>17. ASSUME NEW e \in Devices, Revoke(e) PROVE Backed(d)'
  <2>1. \A q \in Reqs : Pairing(q, d) => Pairing(q, d)'
    BY <1>17 DEF Revoke, Pairing
  <2> QED  BY <1>15, <1>17, <2>1 DEF Revoke
<1>18. ASSUME NEW r \in Reqs, NEW e \in Devices, Register(r, e) PROVE Backed(d)'
  <2>1. \A q \in Reqs : Pairing(q, d) => Pairing(q, d)'
    BY <1>18 DEF Register, At
  <2>2. cred' = cred /\ auth[d] = "paired"
    BY <1>18 DEF Register, credVars
  <2> QED  BY <1>2, <2>1, <2>2, KeepsBacked
<1>19. ASSUME NEW r \in Reqs, NEW e \in Devices, UpdateRead(r, e) PROVE Backed(d)'
  BY <1>3, <1>19 DEF UpdateRead, ReconcilePresence, At, credVars
<1>20. ASSUME NEW r \in Reqs, NEW s \in AdminStatuses \cup {Null}, UpdateWrite(r, s)
       PROVE Backed(d)'
  BY <1>3, <1>20 DEF UpdateWrite, Goto, At, credVars
<1>21. ASSUME NEW e \in Devices, Remove(e) PROVE Backed(d)'
  <2>1. e # d /\ auth[d] = "paired"
    BY <1>21 DEF Remove, NoRow
  <2> QED  BY <1>2, <1>21, <2>1, KeepsBacked DEF Remove, Pairing
<1>22. ASSUME Tick PROVE Backed(d)'
  BY <1>3, <1>22 DEF Tick, Pairing
<1>23. ASSUME NEW R \in SUBSET Reqs, Fail(R) PROVE Backed(d)'
  <2>1. \A q \in R : ~Pairing(q, d)
    BY <1>23 DEF Fail
  <2>2. \A q \in Reqs : Pairing(q, d) => Pairing(q, d)'
    BY <1>23, <2>1 DEF Fail, Pairing
  <2> QED  BY <1>3, <1>23, <2>2 DEF Fail, deviceVars, credVars
<1>24. ASSUME Monitor \/ UNCHANGED vars PROVE Backed(d)'
  BY <1>3, <1>24 DEF Monitor, ReconcilePresence, Pairing, vars, deviceVars, credVars
<1>25. ASSUME NEW t \in Tokens, PairDevice(t) PROVE Backed(d)'
  BY <1>12, <1>25 DEF PairDevice, Pairing
<1> QED
  BY <1>4, <1>5, <1>6, <1>8, <1>9, <1>10, <1>11, <1>13, <1>14, <1>16, <1>17, <1>18,
     <1>19, <1>20, <1>21, <1>22, <1>23, <1>24, <1>25
  DEF Next, HandlerStep, Arrival
-----------------------------------------------------------------------------
\* IInv is inductive, so it holds of every reachable state.
THEOREM Invariance == Spec => []IInv
<1>1. IInv /\ [Next]_vars => IInv'
  BY NextType, NextInFlight, NextOrphan, NextBacked, NextOneLive DEF IInv
<1> QED  BY InitInv, <1>1, PTL DEF Spec

\* Whatever crashes and races, a device the tables call paired has a credential
\* the middleware accepts, or a handler that will mark one, or a recorded cut.
THEOREM PairedBacked == Spec => []PairedIsBacked
<1>1. IInv => PairedIsBacked
  BY DEF IInv
<1> QED  BY Invariance, <1>1, PTL

\* Two credentials of one device are live together only through a revival.
THEOREM OneLive == Spec => []OneLiveCredential
<1>1. IInv => OneLiveCredential
  BY DEF IInv
<1> QED  BY Invariance, <1>1, PTL

\* No credential outlives its device's row.
THEOREM NoOrphan == Spec => []NoOrphanCredential
<1>1. IInv => NoOrphanCredential
  BY DEF IInv
<1> QED  BY Invariance, <1>1, PTL

\* A pairing handler keeps the row and credential it works on, or is recorded cut.
THEOREM InFlightKept == Spec => []PairingInFlight
<1>1. IInv => PairingInFlight
  BY DEF IInv
<1> QED  BY Invariance, <1>1, PTL
=============================================================================
