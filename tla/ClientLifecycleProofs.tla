------------------------ MODULE ClientLifecycleProofs ------------------------
(***************************************************************************)
(* Proofs about ClientLifecycle, for any tokens and any number of worker   *)
(* threads, lost requests, commands and restarts.                          *)
(***************************************************************************)
EXTENDS ClientLifecycle, TLAPS

\* A thread that has set disconnect_event and has not come to the end of the
\* callback.
PastMark == {"clear_creds", "clear_identity", "stop_agent"}

\* The orderly course, between the steps of main(): workers live only from
\* Agent.start until they are joined; disconnect_event is set only by a worker's
\* callback, which only afterwards stops the agent, and is cleared before the
\* next agent; so an agent that has stopped has a disconnect pending, and main()
\* starts over.
Orderly ==
  /\ cmd = "idle"
  /\ main.pc # "exited"
  /\ main.pc \notin {"run", "join"} => AllEnded
  /\ main.pc \notin {"run", "join", "after"} => ~discEv
  /\ main.pc = "start" => ~stop
  /\ main.pc \in {"join", "after"} => stop
  /\ main.pc \in {"run", "join", "after"} /\ stop => discEv
  /\ \A w \in Workers : worker[w].pc \in PastMark => discEv

IInv == TypeOK /\ (stray \/ Orderly)

WorkerRecord == [pc : {"ended", "idle", "sent"} \cup Callback, tok : Token, old : BOOLEAN]
UiRecord == [pc : {"idle", "sent", "save", "arm", "signal", "forget"}, tok : Token, typed : BOOLEAN]

\* What a mishap does to their count.
LEMMA MishapCounted == ASSUME TypeOK, Mishap PROVE mishaps' \in 0 .. MaxMishaps
  BY LifecycleAssumption DEF TypeOK, Mishap

\* The initial state is of its type and orderly.
LEMMA InitInv == Init => IInv
<1> SUFFICES ASSUME Init PROVE IInv
  OBVIOUS
<1>1. Ended \in WorkerRecord /\ NoCall \in UiRecord /\ Ended.pc = "ended"
  BY DEF Ended, NoCall, WorkerRecord, UiRecord, Token
<1>2. mishaps \in 0 .. MaxMishaps
  BY LifecycleAssumption DEF Init
<1>3. TypeOK
  BY <1>1, <1>2, LifecycleAssumption DEF Init, TypeOK, Token, MainStep, WorkerRecord, UiRecord
<1>4. Orderly
  BY <1>1 DEF Init, Orderly, AllEnded, PastMark
<1> QED  BY <1>3, <1>4 DEF IInv

\* A step of the callback, in whichever thread, leaves the client's state in its
\* type.
LEMMA CallbackType ==
  ASSUME TypeOK, NEW pc, NEW to, OnDisconnect(pc, to)
  PROVE  /\ stored' \in Token /\ identity' \in Token /\ env' \in Token
         /\ authEv' \in BOOLEAN /\ discEv' \in BOOLEAN /\ agent' \in BOOLEAN /\ stop' \in BOOLEAN
  BY DEF TypeOK, OnDisconnect, creds, events, session, Token

\* The steps of main() keep the types.
LEMMA MainType == TypeOK /\ MainNext => TypeOK'
<1> SUFFICES ASSUME TypeOK, MainNext PROVE TypeOK'
  OBVIOUS
<1> USE MishapCounted DEF TypeOK, master, creds, events, session, user, Token, MainStep, MainAt, MainTo
<1>1. CASE Verify  BY <1>1 DEF Verify
<1>2. CASE Verified  BY <1>2 DEF Verified
<1>3. CASE TryEnv  BY <1>3 DEF TryEnv
<1>4. CASE TriedEnv  BY <1>4 DEF TriedEnv
<1>5. CASE Forget  BY <1>5 DEF Forget
<1>6. CASE Arm  BY <1>6 DEF Arm
<1>7. CASE StartWaiting
  <2>1. main' \in [pc : MainStep, tok : Token]  BY <1>7 DEF StartWaiting
  <2>2. authEv' \in BOOLEAN /\ discEv' \in BOOLEAN  BY <1>7, Zenon DEF StartWaiting
  <2>3. prompt' \in BOOLEAN  BY <1>7, Zenon DEF StartWaiting
  <2>4. UNCHANGED <<master, creds, session, worker, ui, cmd, mishaps, stray>>
    BY <1>7, Zenon DEF StartWaiting
  <2> QED  BY <2>1, <2>2, <2>3, <2>4
<1>8. CASE StopWaiting  BY <1>8 DEF StopWaiting
<1>9. CASE Spawn
  <2>1. main' \in [pc : MainStep, tok : Token]  BY <1>9 DEF Spawn
  <2>2. agent' \in BOOLEAN /\ stop' \in BOOLEAN  BY <1>9, Zenon DEF Spawn
  <2>3. UNCHANGED <<master, creds, events, worker, user, cmd, mishaps, stray>>
    BY <1>9, Zenon DEF Spawn
  <2> QED  BY <2>1, <2>2, <2>3
<1>10. CASE Start
  <2>1. main' \in [pc : MainStep, tok : Token]  BY <1>10 DEF Start
  <2>2. worker' \in [Workers -> WorkerRecord]
    <3>1. \A w \in Workers : worker[w] \in WorkerRecord  BY DEF WorkerRecord
    <3>2. [Ended EXCEPT !.pc = "idle"] \in WorkerRecord  BY DEF Ended, WorkerRecord
    <3> QED  BY <1>10, <3>1, <3>2, Zenon DEF Start
  <2> QED  BY <1>10, <2>1, <2>2 DEF Start, WorkerRecord
<1>11. CASE Stopped  BY <1>11 DEF Stopped
<1>12. CASE Join
  <2>1. main' \in [pc : MainStep, tok : Token]  BY <1>12 DEF Join
  <2>2. worker' \in [Workers -> WorkerRecord]
    <3>1. \A w \in Workers : worker[w] \in WorkerRecord  BY DEF WorkerRecord
    <3>2. Ended \in WorkerRecord  BY DEF Ended, WorkerRecord
    <3>3. \A w \in Workers : [worker[w] EXCEPT !.old = TRUE] \in WorkerRecord
      BY <3>1 DEF WorkerRecord
    <3> QED  BY <1>12, <3>2, <3>3, Zenon DEF Join
  <2>3. stray' \in BOOLEAN /\ agent' \in BOOLEAN  BY <1>12, Zenon DEF Join
  <2>4. UNCHANGED <<master, creds, events, stop, user, cmd, mishaps>>
    BY <1>12, Zenon DEF Join
  <2> QED  BY <2>1, <2>2, <2>3, <2>4 DEF WorkerRecord
<1>13. CASE StartOver
  <2>1. main' \in [pc : MainStep, tok : Token]  BY <1>13 DEF StartOver
  <2>2. authEv' \in BOOLEAN /\ discEv' \in BOOLEAN  BY <1>13, Zenon DEF StartOver
  <2>3. UNCHANGED <<master, creds, session, worker, user, cmd, mishaps, stray>>
    BY <1>13, Zenon DEF StartOver
  <2> QED  BY <2>1, <2>2, <2>3
<1>14. CASE Exit  BY <1>14 DEF Exit, Ended, NoCall
<1> QED
  BY <1>1, <1>2, <1>3, <1>4, <1>5, <1>6, <1>7, <1>8, <1>9, <1>10, <1>11, <1>12, <1>13, <1>14
     DEF MainNext

\* The steps of a worker keep the types.
LEMMA WorkerType == ASSUME TypeOK, NEW w \in Workers, WorkerNext(w) PROVE TypeOK'
<1> USE MishapCounted DEF TypeOK, master, creds, events, session, user, Token
<1>1. CASE EndWorker(w)  BY <1>1 DEF EndWorker, Ended
<1>2. CASE Send(w)
  <2>1. worker' \in [Workers -> WorkerRecord]
    <3>1. worker[w] \in WorkerRecord  BY DEF WorkerRecord
    <3>2. [worker[w] EXCEPT !.pc = "sent", !.tok = identity] \in WorkerRecord
      BY <3>1 DEF WorkerRecord
    <3> QED  BY <1>2, <3>2 DEF Send, WorkerRecord
  <2> QED  BY <1>2, <2>1 DEF Send, WorkerRecord
<1>3. CASE Answered(w)  BY <1>3 DEF Answered, Callback
<1>4. CASE WorkerCallback(w)
  <2>1. PICK to \in Callback \cup {"idle"} :
          /\ OnDisconnect(worker[w].pc, to)
          /\ worker' = [worker EXCEPT ![w].pc = to]
          /\ UNCHANGED <<master, main, user, cmd, mishaps, stray>>
    BY <1>4 DEF WorkerCallback
  <2>2. worker' \in [Workers -> WorkerRecord]
    BY <2>1 DEF WorkerRecord
  <2> QED  BY <2>1, <2>2, CallbackType DEF WorkerRecord
<1> QED  BY <1>1, <1>2, <1>3, <1>4 DEF WorkerNext

\* So do those of the authentication a user asks for ...
LEMMA UserType ==
  ASSUME TypeOK, UiNext \/ (\E t \in Tokens : Submit(t) \/ Prompt(t))
  PROVE  TypeOK'
<1> USE MishapCounted DEF TypeOK, master, creds, events, session, Token, NoCall, AskAgain, MainAt
<1>1. ASSUME NEW t \in Tokens, Submit(t) PROVE TypeOK'  BY <1>1 DEF Submit
<1>2. ASSUME NEW t \in Tokens, Prompt(t) PROVE TypeOK'
  <2>1. ui' \in UiRecord
    <3>1. ui \in UiRecord  BY DEF UiRecord
    <3>2. [pc |-> "sent", tok |-> t, typed |-> TRUE] \in UiRecord  BY DEF UiRecord
    <3> QED  BY <1>2, <3>1, <3>2, Zenon DEF Prompt
  <2>2. stray' \in BOOLEAN /\ prompt' \in BOOLEAN  BY <1>2, Zenon DEF Prompt
  <2>3. UNCHANGED <<master, creds, events, session, main, worker, cmd, mishaps>>
    BY <1>2, Zenon DEF Prompt
  <2> QED  BY <2>1, <2>2, <2>3 DEF UiRecord
<1>3. CASE Authenticate
  <2>1. ui' \in UiRecord
    <3>1. NoCall \in UiRecord  BY DEF UiRecord
    <3>2. \A pc \in {"save", "forget"} : [ui EXCEPT !.pc = pc] \in UiRecord  BY DEF UiRecord
    <3> QED  BY <1>3, <3>1, <3>2, Zenon DEF Authenticate
  <2>2. identity' \in Token  BY <1>3, Zenon DEF Authenticate
  <2>3. prompt' \in BOOLEAN  BY <1>3 DEF Authenticate
  <2>4. mishaps' \in 0 .. MaxMishaps  BY <1>3, Zenon DEF Authenticate
  <2> QED  BY <1>3, <2>1, <2>2, <2>3, <2>4, ZenonT(40) DEF Authenticate, UiRecord
<1>4. CASE SaveCredentials  BY <1>4 DEF SaveCredentials
<1>5. CASE SetIdentity  BY <1>5 DEF SetIdentity
<1>6. CASE OnAuthenticated  BY <1>6 DEF OnAuthenticated
<1>7. CASE Rejected  BY <1>7 DEF Rejected
<1> QED  BY <1>1, <1>2, <1>3, <1>4, <1>5, <1>6, <1>7 DEF UiNext

\* ... and those of the command handler, the Master and a restart.
LEMMA OthersType ==
  ASSUME TypeOK, CmdNext \/ Command \/ Restart \/ Revoke \/ (\E t \in Tokens : Issue(t))
  PROVE  TypeOK'
<1> USE MishapCounted DEF TypeOK, master, creds, events, session, user, Token, MainAt, MainTo
<1>1. CASE Reauthenticate  BY <1>1 DEF Reauthenticate, Callback
<1>2. CASE CommandCallback
  BY <1>2, CallbackType DEF CommandCallback
<1>3. CASE Command  BY <1>3 DEF Command
<1>4. CASE Restart  BY <1>4, LifecycleAssumption DEF Restart, Ended, NoCall, MainStep
<1>5. CASE Revoke  BY <1>5 DEF Revoke
<1>6. ASSUME NEW t \in Tokens, Issue(t) PROVE TypeOK'  BY <1>6 DEF Issue
<1> QED  BY <1>1, <1>2, <1>3, <1>4, <1>5, <1>6 DEF CmdNext

\* Every step keeps the types.
LEMMA NextType == TypeOK /\ [Next]_vars => TypeOK'
<1>1. TypeOK /\ UNCHANGED vars => TypeOK'
  BY DEF TypeOK, vars, master, creds, events, session, user
<1> QED  BY <1>1, MainType, WorkerType, UserType, OthersType DEF Next
-----------------------------------------------------------------------------
\* What strayed from the orderly course never counts as orderly again.
LEMMA StraySticks == stray /\ [Next]_vars => stray'
<1> SUFFICES ASSUME stray, [Next]_vars PROVE stray'
  OBVIOUS
<1>1. CASE UNCHANGED vars  BY <1>1 DEF vars
<1>2. CASE MainNext
  BY <1>2, Zenon DEF MainNext, Verify, Verified, TryEnv, TriedEnv, Forget, Arm, StartWaiting,
     StopWaiting, Spawn, Start, Stopped, Join, StartOver, Exit
<1>3. CASE UiNext \/ CmdNext \/ Command \/ Restart \/ Revoke
  BY <1>3, Zenon DEF UiNext, Authenticate, SaveCredentials, SetIdentity, OnAuthenticated,
     Rejected, CmdNext, Reauthenticate, CommandCallback, Command, Restart, Revoke
<1>4. ASSUME NEW t \in Tokens, Issue(t) \/ Submit(t) \/ Prompt(t) PROVE stray'
  BY <1>4, Zenon DEF Issue, Submit, Prompt
<1>5. ASSUME NEW w \in Workers, WorkerNext(w) PROVE stray'
  BY <1>5, Zenon DEF WorkerNext, EndWorker, Send, Answered, WorkerCallback
<1> QED  BY <1>1, <1>2, <1>3, <1>4, <1>5 DEF Next

\* A step of the callback never clears disconnect_event, sets it before it goes on,
\* and stops the agent only at its last step.
LEMMA CallbackMarks ==
  ASSUME TypeOK, NEW pc, NEW to, OnDisconnect(pc, to)
  PROVE  /\ discEv => discEv'
         /\ to \in PastMark => discEv' \/ pc \in PastMark
         /\ stop' => stop \/ pc \in PastMark
         /\ pc \notin {"idle", "ended", "sent"}
         /\ to # "ended"
  BY DEF TypeOK, OnDisconnect, creds, events, session, PastMark

\* main() keeps the orderly course, or leaves it for good.
LEMMA MainOrderly ==
  ASSUME TypeOK, Orderly, MainNext
  PROVE  stray' \/ Orderly'
<1> USE DEF Orderly, AllEnded, events, session, user, MainAt, MainTo
<1>1. CASE Verify \/ TryEnv \/ Forget \/ StopWaiting
  BY <1>1 DEF Verify, TryEnv, Forget, StopWaiting
<1>2. CASE Verified \/ TriedEnv \/ Arm
  BY <1>2 DEF Verified, TriedEnv, Arm, creds
<1>3. CASE StartWaiting  BY <1>3, Zenon DEF StartWaiting, PastMark
<1>4. CASE Spawn  BY <1>4 DEF Spawn, PastMark
<1>5. CASE Start  BY <1>5 DEF Start, Ended, PastMark, TypeOK
<1>6. CASE Stopped  BY <1>6 DEF Stopped
<1>7. CASE Join  BY <1>7 DEF Join, Ended
<1>8. CASE StartOver  BY <1>8 DEF StartOver, PastMark
<1>9. CASE Exit  BY <1>9 DEF Exit
<1> QED  BY <1>1, <1>2, <1>3, <1>4, <1>5, <1>6, <1>7, <1>8, <1>9 DEF MainNext

\* A worker keeps it: it is there only while the agent runs, and only a callback that
\* has set disconnect_event stops the agent.
LEMMA WorkerOrderly ==
  ASSUME TypeOK, Orderly, NEW w \in Workers, WorkerNext(w)
  PROVE  Orderly'
<1>1. UNCHANGED <<main, cmd>> /\ \A v \in Workers : v # w => worker'[v] = worker[v]
  BY DEF WorkerNext, EndWorker, Send, Answered, WorkerCallback, TypeOK
<1>2. worker[w].pc # "ended"
  BY CallbackMarks DEF WorkerNext, EndWorker, Send, Answered, WorkerCallback, WorkerAt
<1>3. main.pc \in {"run", "join"}
  BY <1>2 DEF Orderly, AllEnded
<1>4. CASE EndWorker(w) \/ Send(w) \/ Answered(w)
  <2>1. UNCHANGED <<events, session>> /\ worker'[w].pc \notin PastMark
    BY <1>4 DEF EndWorker, Send, Answered, TypeOK, Ended, PastMark
  <2> QED  BY <1>1, <1>3, <2>1 DEF Orderly, events, session
<1>5. CASE WorkerCallback(w)
  <2>1. PICK to \in Callback \cup {"idle"} :
          OnDisconnect(worker[w].pc, to) /\ worker' = [worker EXCEPT ![w].pc = to]
    BY <1>5 DEF WorkerCallback
  <2>2. worker'[w].pc = to  BY <2>1 DEF TypeOK
  <2>3. discEv \/ to \in PastMark \/ worker[w].pc \in PastMark => discEv'
    BY <2>1, CallbackMarks DEF Orderly
  <2>4. stop => stop'
    BY <2>1 DEF OnDisconnect, session
  <2>5. stop' => stop \/ worker[w].pc \in PastMark
    BY <2>1, CallbackMarks
  <2> QED  BY <1>1, <1>3, <2>2, <2>3, <2>4, <2>5 DEF Orderly
<1> QED  BY <1>4, <1>5 DEF WorkerNext

\* The user, the Master and a restart do not disturb it; a command leaves it.
LEMMA OthersOrderly ==
  ASSUME TypeOK, Orderly,
         \/ UiNext \/ CmdNext \/ Command \/ Restart \/ Revoke
         \/ \E t \in Tokens : Issue(t) \/ Submit(t) \/ Prompt(t)
  PROVE  stray' \/ Orderly'
<1> USE DEF Orderly, AllEnded, events, session
<1>1. CASE UiNext
  BY <1>1 DEF UiNext, Authenticate, SaveCredentials, SetIdentity, OnAuthenticated, Rejected
<1>2. ASSUME CmdNext PROVE FALSE
  BY <1>2, CallbackMarks DEF CmdNext, Reauthenticate, CommandCallback
<1>3. CASE Command  BY <1>3 DEF Command
<1>4. CASE Restart  BY <1>4 DEF Restart, Ended, PastMark, MainTo
<1>5. CASE Revoke  BY <1>5 DEF Revoke
<1>6. ASSUME NEW t \in Tokens, Issue(t) \/ Submit(t) \/ Prompt(t) PROVE Orderly'
  BY <1>6 DEF Issue, Submit, Prompt
<1> QED  BY <1>1, <1>2, <1>3, <1>4, <1>5, <1>6

LEMMA NextInv == IInv /\ [Next]_vars => IInv'
<1> SUFFICES ASSUME IInv, [Next]_vars PROVE IInv'
  OBVIOUS
<1>1. TypeOK'
  BY NextType DEF IInv
<1>2. CASE stray
  BY <1>1, <1>2, StraySticks DEF IInv
<1>3. CASE Orderly /\ UNCHANGED vars
  BY <1>1, <1>3 DEF IInv, Orderly, AllEnded, vars, events, session
<1>4. CASE Orderly /\ Next
  BY <1>1, <1>4, MainOrderly, WorkerOrderly, OthersOrderly DEF Next, IInv
<1> QED  BY <1>2, <1>3, <1>4 DEF IInv
-----------------------------------------------------------------------------
\* The state of the client, its threads and the Master's answers stay in their
\* types, and what the orderly course relies on holds in every course that has
\* not strayed.
THEOREM LifecycleInvariance == FairSpec => []IInv
<1> QED  BY InitInv, NextInv, PTL DEF FairSpec

\* Every variable stays in its type.
THEOREM TypeCorrect == FairSpec => []TypeOK
<1>1. IInv => TypeOK  BY DEF IInv
<1> QED  BY <1>1, LifecycleInvariance, PTL

\* In the orderly course no worker outlives its session, and no disconnect of an
\* ended session is pending when the client waits for the user or starts an agent.
THEOREM ApartSessions == FairSpec => []SessionsApart
<1>1. IInv => SessionsApart
  BY DEF IInv, Orderly, SessionsApart
<1> QED  BY <1>1, LifecycleInvariance, PTL

\* In the orderly course the client process does not end by itself: an agent that
\* stops has been disconnected, and main() starts over.
THEOREM StaysAlive == FairSpec => []NeverExits
<1>1. IInv => NeverExits
  BY DEF IInv, Orderly, NeverExits, MainAt
<1> QED  BY <1>1, LifecycleInvariance, PTL
=============================================================================
