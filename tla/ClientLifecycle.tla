-------------------------- MODULE ClientLifecycle --------------------------
(***************************************************************************)
(* The life of a client process: main() verifies stored credentials or     *)
(* waits for the user to enter some on the login page, runs an Agent whose *)
(* worker threads report to the Master, and starts over when the session   *)
(* is disconnected.  A worker that is answered 401 disconnects it, and so  *)
(* does the Master's command REAUTHENTICATE_AGENT; both run the callback   *)
(* on_disconnect_triggered in threads of their own, on state that main(),  *)
(* the UI's authentication handler and the workers share without a lock.   *)
(*                                                                         *)
(* The Master is what it answers: one token is valid at a time.  A request *)
(* may be lost (status 0).  The file with the credentials and the copy in  *)
(* memory are one variable: they are written together.                     *)
(***************************************************************************)
EXTENDS Integers, FiniteSets

CONSTANTS
  Tokens,       \* pairing tokens; the Master never issues one twice
  Workers,      \* threads that can be workers of agents
  None,         \* no token
  EnvToken,     \* APEXEYE_AUTH_TOKEN in the environment the client is started in
  MaxMishaps    \* bound on lost requests, commands and restarts together

ASSUME LifecycleAssumption ==
  /\ None \notin Tokens /\ EnvToken \in Tokens \cup {None}
  /\ MaxMishaps \in Nat

VARIABLES
  valid,     \* the token the Master accepts
  issued,    \* tokens it has issued
  stored,    \* the token in the client's credentials
  identity,  \* the token MasterConnection sends
  env,       \* APEXEYE_AUTH_TOKEN in the process's environment
  authEv,    \* authenticated_event
  discEv,    \* disconnect_event
  agent,     \* current_agent is set
  stop,      \* the stop event of the newest agent
  main,      \* where main() is, and the token it is verifying
  worker,    \* where each worker is, the token of its request, its agent's age
  ui,        \* where the authentication a user asked for is, its token, and
             \* whether it came from the terminal
  prompt,    \* a prompt in the terminal waits for input
  cmd,       \* where the command handler is
  mishaps,   \* lost requests, commands REAUTHENTICATE_AGENT and restarts so far
  stray      \* history: something happened outside the orderly course

master == <<valid, issued>>
events == <<authEv, discEv>>
creds == <<stored, identity, env>>
session == <<agent, stop>>
user == <<ui, prompt>>
vars == <<master, creds, events, session, main, worker, user, cmd, mishaps, stray>>

Token == Tokens \cup {None}
MainStep == {"verify", "verifying", "forget", "env", "trying", "give_up", "clear", "arm",
             "waiting", "spawn", "start", "run", "join", "after", "exited"}
\* The steps of on_disconnect_triggered, in whichever thread it runs.
Callback == {"hit", "mark", "clear_creds", "clear_identity", "stop_agent"}

TypeOK ==
  /\ valid \in Token /\ issued \in SUBSET Tokens
  /\ stored \in Token /\ identity \in Token /\ env \in Token
  /\ authEv \in BOOLEAN /\ discEv \in BOOLEAN
  /\ agent \in BOOLEAN /\ stop \in BOOLEAN
  /\ main \in [pc : MainStep, tok : Token]
  /\ worker \in [Workers -> [pc : {"ended", "idle", "sent"} \cup Callback,
                             tok : Token, old : BOOLEAN]]
  /\ ui \in [pc : {"idle", "sent", "save", "arm", "signal", "forget"}, tok : Token,
             typed : BOOLEAN]
  /\ prompt \in BOOLEAN
  /\ cmd \in {"idle", "forget", "disarm"} \cup Callback
  /\ mishaps \in 0 .. MaxMishaps
  /\ stray \in BOOLEAN

Ended == [pc |-> "ended", tok |-> None, old |-> FALSE]
NoCall == [pc |-> "idle", tok |-> None, typed |-> FALSE]

\* The token in the environment may or may not be the one that is valid.
Init ==
  /\ valid \in {EnvToken, None} /\ issued = {EnvToken} \ {None}
  /\ stored = None /\ identity = None /\ env = EnvToken
  /\ authEv = FALSE /\ discEv = FALSE
  /\ agent = FALSE /\ stop = FALSE
  /\ main = [pc |-> "verify", tok |-> None]
  /\ worker = [w \in Workers |-> Ended]
  /\ ui = NoCall /\ prompt = FALSE /\ cmd = "idle"
  /\ mishaps = 0
  /\ stray = FALSE

MainAt(pc) == main.pc = pc
MainTo(pc) == main' = [pc |-> pc, tok |-> None]

Mishap == mishaps < MaxMishaps /\ mishaps' = mishaps + 1
-----------------------------------------------------------------------------
(***************************************************************************)
(* The Master: MasterSession has the whole of it.                          *)
(***************************************************************************)
Issue(t) ==
  /\ t \notin issued
  /\ issued' = issued \cup {t} /\ valid' = t
  /\ UNCHANGED <<creds, events, session, main, worker, user, cmd, mishaps, stray>>

Revoke ==
  /\ valid # None /\ valid' = None
  /\ UNCHANGED <<issued, creds, events, session, main, worker, user, cmd, mishaps, stray>>
-----------------------------------------------------------------------------
(***************************************************************************)
(* main(): stored credentials, then those of the environment.              *)
(***************************************************************************)
Verify ==
  /\ MainAt("verify")
  /\ main' = IF stored # None THEN [pc |-> "verifying", tok |-> stored]
                              ELSE [pc |-> "env", tok |-> None]
  /\ UNCHANGED <<master, creds, events, session, worker, user, cmd, mishaps, stray>>

\* ClientAuth._verify_existing: the answer decides on the identity; a refusal on
\* the stored token too.
Verified ==
  /\ MainAt("verifying")
  /\ \/ main.tok = valid /\ identity' = main.tok /\ MainTo("arm") /\ UNCHANGED mishaps
     \/ main.tok # valid /\ identity' = None /\ MainTo("forget") /\ UNCHANGED mishaps
     \/ Mishap /\ identity' = None /\ MainTo("env")
  /\ UNCHANGED <<master, stored, env, events, session, worker, user, cmd, stray>>

TryEnv ==
  /\ MainAt("env")
  /\ main' = IF env # None THEN [pc |-> "trying", tok |-> env]
                           ELSE [pc |-> "clear", tok |-> None]
  /\ UNCHANGED <<master, creds, events, session, worker, user, cmd, mishaps, stray>>

\* ClientAuth.authenticate with the token of the environment.
TriedEnv ==
  /\ MainAt("trying")
  /\ \/ /\ main.tok = valid /\ MainTo("arm")
        /\ stored' = main.tok /\ identity' = main.tok
        /\ UNCHANGED mishaps
     \/ /\ main.tok # valid /\ MainTo("give_up")
        /\ identity' = None
        /\ UNCHANGED <<stored, mishaps>>
     \/ /\ Mishap /\ MainTo("clear")
        /\ identity' = None
        /\ UNCHANGED stored
  /\ UNCHANGED <<master, env, events, session, worker, user, cmd, stray>>

\* The refused token goes; the environment is tried after the stored one.
Forget ==
  /\ MainAt("forget") \/ MainAt("give_up")
  /\ stored' = None
  /\ MainTo(IF MainAt("forget") THEN "env" ELSE "clear")
  /\ UNCHANGED <<master, identity, env, events, session, worker, user, cmd, mishaps, stray>>

\* set_identity with what is stored by now, and authenticated_event.
Arm ==
  /\ MainAt("arm")
  /\ identity' = stored /\ authEv' = TRUE
  /\ MainTo("spawn")
  /\ UNCHANGED <<master, stored, env, discEv, session, worker, user, cmd, mishaps, stray>>

\* Both events are cleared, the login page is opened and, if the client was
\* started in a terminal, another thread prompts there.
StartWaiting ==
  /\ MainAt("clear")
  /\ authEv' = FALSE /\ discEv' = FALSE
  /\ prompt' \in {prompt, TRUE}
  /\ MainTo("waiting")
  /\ UNCHANGED <<master, creds, session, worker, ui, cmd, mishaps, stray>>

StopWaiting ==
  /\ MainAt("waiting") /\ authEv
  /\ MainTo("spawn")
  /\ UNCHANGED <<master, creds, events, session, worker, user, cmd, mishaps, stray>>
-----------------------------------------------------------------------------
(***************************************************************************)
(* main(): one Agent, from its constructor to the end of its session.      *)
(***************************************************************************)
\* Faulty variant: the agent is kept in a variable the callback does not see.
SpawnUnseen ==
  /\ MainAt("spawn")
  /\ stop' = FALSE /\ UNCHANGED agent
  /\ MainTo("start")
  /\ UNCHANGED <<master, creds, events, worker, user, cmd, mishaps, stray>>

Spawn ==
  /\ MainAt("spawn")
  /\ agent' = TRUE /\ stop' = FALSE
  /\ MainTo("start")
  /\ UNCHANGED <<master, creds, events, worker, user, cmd, mishaps, stray>>

\* Agent.start: threads become workers, beside those that outlived their session.
\* Workers bounds them: a start that finds no thread ended has no worker of its own.
Start ==
  /\ MainAt("start")
  /\ worker' = [w \in Workers |-> IF worker[w].pc = "ended"
                                  THEN [Ended EXCEPT !.pc = "idle"] ELSE worker[w]]
  /\ MainTo("run")
  /\ UNCHANGED <<master, creds, events, session, user, cmd, mishaps, stray>>

\* Agent.wait returns once the stop event is set.
Stopped ==
  /\ MainAt("run") /\ stop
  /\ MainTo("join")
  /\ UNCHANGED <<master, creds, events, session, worker, user, cmd, mishaps, stray>>

AllEnded == \A w \in Workers : worker[w].pc = "ended"

\* Faulty variant: the workers are told to stop and not waited for.
JoinNobody ==
  /\ MainAt("join")
  /\ agent' = FALSE
  /\ worker' = [w \in Workers |-> IF worker[w].pc = "ended" THEN Ended
                                  ELSE [worker[w] EXCEPT !.old = TRUE]]
  /\ MainTo("after")
  /\ UNCHANGED <<master, creds, events, stop, user, cmd, mishaps, stray>>

\* Agent.stop waits five seconds for each worker; a request may take longer.
Join ==
  /\ MainAt("join")
  /\ agent' = FALSE
  /\ worker' = [w \in Workers |-> IF worker[w].pc = "ended" THEN Ended
                                  ELSE [worker[w] EXCEPT !.old = TRUE]]
  /\ stray' = (stray \/ ~AllEnded)
  /\ MainTo("after")
  /\ UNCHANGED <<master, creds, events, stop, user, cmd, mishaps>>

\* After a disconnect main() starts over.
StartOver ==
  /\ MainAt("after") /\ discEv
  /\ authEv' = FALSE /\ discEv' = FALSE
  /\ MainTo("verify")
  /\ UNCHANGED <<master, creds, session, worker, user, cmd, mishaps, stray>>

\* Without one the process ends, and its threads with it.
Exit ==
  /\ MainAt("after") /\ ~discEv
  /\ MainTo("exited")
  /\ worker' = [w \in Workers |-> Ended] /\ ui' = NoCall /\ prompt' = FALSE
  /\ cmd' = "idle"
  /\ UNCHANGED <<master, creds, events, session, mishaps, stray>>

MainNext ==
  \/ Verify \/ Verified \/ TryEnv \/ TriedEnv \/ Forget \/ Arm
  \/ StartWaiting \/ StopWaiting \/ Spawn \/ Start \/ Stopped \/ Join
  \/ StartOver \/ Exit
-----------------------------------------------------------------------------
(***************************************************************************)
(* on_disconnect_triggered, from step pc on to step to, "idle" at its end: *)
(* it returns at once while another disconnect is pending.                 *)
(***************************************************************************)
\* Faulty variant: the event that makes main() start over is not set.
OnDisconnectUnmarked(pc, to) ==
  \/ /\ pc = "hit"
     /\ to = "clear_creds"
     /\ UNCHANGED <<creds, events, session>>
  \/ /\ pc = "clear_creds" /\ to = "clear_identity"
     /\ stored' = None
     /\ UNCHANGED <<identity, env, events, session>>
  \/ /\ pc = "clear_identity" /\ to = "stop_agent"
     /\ identity' = None
     /\ UNCHANGED <<stored, env, events, session>>
  \/ /\ pc = "stop_agent" /\ to = "idle"
     /\ env' = None
     /\ stop' = (stop \/ agent)
     /\ UNCHANGED <<stored, identity, events, agent>>

OnDisconnect(pc, to) ==
  \/ /\ pc = "hit"
     /\ to = IF discEv THEN "idle" ELSE "mark"
     /\ UNCHANGED <<creds, events, session>>
  \/ /\ pc = "mark" /\ to = "clear_creds"
     /\ discEv' = TRUE
     /\ UNCHANGED <<creds, authEv, session>>
  \/ /\ pc = "clear_creds" /\ to = "clear_identity"
     /\ stored' = None
     /\ UNCHANGED <<identity, env, events, session>>
  \/ /\ pc = "clear_identity" /\ to = "stop_agent"
     /\ identity' = None
     /\ UNCHANGED <<stored, env, events, session>>
  \/ /\ pc = "stop_agent" /\ to = "idle"
     /\ env' = None
     /\ stop' = (stop \/ agent)
     /\ UNCHANGED <<stored, identity, events, agent>>

(***************************************************************************)
(* A worker of an agent: it ends when its agent is stopped or there is no  *)
(* identity; else it sends, retries what gets lost, and a 401 makes it run *)
(* the callback.                                                           *)
(***************************************************************************)
WorkerAt(w, pc) == worker[w].pc = pc
ToldToStop(w) == worker[w].old \/ stop

EndWorker(w) ==
  /\ WorkerAt(w, "idle")
  /\ ToldToStop(w) \/ identity = None
  /\ worker' = [worker EXCEPT ![w] = Ended]
  /\ UNCHANGED <<master, creds, events, session, main, user, cmd, mishaps, stray>>

Send(w) ==
  /\ WorkerAt(w, "idle")
  /\ ~ToldToStop(w) /\ identity # None
  /\ worker' = [worker EXCEPT ![w].pc = "sent", ![w].tok = identity]
  /\ UNCHANGED <<master, creds, events, session, main, user, cmd, mishaps, stray>>

\* Faulty variant: a 401 is taken for any other error.
AnsweredUnheard(w) ==
  /\ WorkerAt(w, "sent")
  /\ \/ worker' = [worker EXCEPT ![w].pc = "idle", ![w].tok = None] /\ UNCHANGED mishaps
     \/ Mishap /\ worker' = [worker EXCEPT ![w].tok = None, ![w].pc = "idle"]
  /\ UNCHANGED <<master, creds, events, session, main, user, cmd, stray>>

Answered(w) ==
  /\ WorkerAt(w, "sent")
  /\ \/ /\ worker' = [worker EXCEPT ![w].tok = None,
                        ![w].pc = IF worker[w].tok = valid THEN "idle" ELSE "hit"]
        /\ UNCHANGED mishaps
     \/ Mishap /\ worker' = [worker EXCEPT ![w].tok = None, ![w].pc = "idle"]
  /\ UNCHANGED <<master, creds, events, session, main, user, cmd, stray>>

WorkerCallback(w) ==
  \E to \in Callback \cup {"idle"} :
    /\ OnDisconnect(worker[w].pc, to)
    /\ worker' = [worker EXCEPT ![w].pc = to]
    /\ UNCHANGED <<master, main, user, cmd, mishaps, stray>>

WorkerNext(w) == EndWorker(w) \/ Send(w) \/ Answered(w) \/ WorkerCallback(w)
-----------------------------------------------------------------------------
(***************************************************************************)
(* The login page is shown while no token is stored; the user sends a      *)
(* token with it, or enters one at the prompt in the terminal.  One        *)
(* authentication at a time.                                               *)
(***************************************************************************)
Submit(t) ==
  /\ ui.pc = "idle" /\ stored = None /\ ~MainAt("exited")
  /\ ui' = [pc |-> "sent", tok |-> t, typed |-> FALSE]
  /\ stray' = (stray \/ ~MainAt("waiting"))
  /\ UNCHANGED <<master, creds, events, session, main, worker, prompt, cmd, mishaps>>

\* The prompt gives up if somebody authenticated while it waited for its input.  It
\* may have waited since before the session that ended last.
Prompt(t) ==
  /\ prompt /\ prompt' = FALSE
  /\ ui.pc = "idle"
  /\ IF authEv THEN UNCHANGED <<ui, stray>>
     ELSE /\ ui' = [pc |-> "sent", tok |-> t, typed |-> TRUE]
          /\ stray' = (stray \/ ~MainAt("waiting"))
  /\ UNCHANGED <<master, creds, events, session, main, worker, cmd, mishaps>>

\* After a failure the terminal prompts again, up to three times.
AskAgain == prompt' \in {prompt, prompt \/ ui.typed}

\* ClientAuth.authenticate, with the Master's answer.
Authenticate ==
  /\ ui.pc = "sent"
  /\ \/ /\ ui.tok = valid /\ ui' = [ui EXCEPT !.pc = "save"]
        /\ UNCHANGED <<identity, prompt, mishaps>>
     \/ /\ ui.tok # valid /\ ui' = [ui EXCEPT !.pc = "forget"]
        /\ identity' = None
        /\ UNCHANGED <<prompt, mishaps>>
     \/ Mishap /\ ui' = NoCall /\ identity' = None /\ AskAgain
  /\ UNCHANGED <<master, stored, env, events, session, main, worker, cmd, stray>>

\* Faulty variant: the whole form is stored, not its token.
SaveForm ==
  /\ ui.pc = "save"
  /\ stored' = ui
  /\ ui' = [ui EXCEPT !.pc = "arm"]
  /\ UNCHANGED <<master, identity, env, events, session, main, worker, prompt, cmd, mishaps, stray>>

SaveCredentials ==
  /\ ui.pc = "save"
  /\ stored' = ui.tok
  /\ ui' = [ui EXCEPT !.pc = "arm"]
  /\ UNCHANGED <<master, identity, env, events, session, main, worker, prompt, cmd, mishaps, stray>>

SetIdentity ==
  /\ ui.pc = "arm"
  /\ identity' = ui.tok
  /\ ui' = [ui EXCEPT !.pc = "signal"]
  /\ UNCHANGED <<master, stored, env, events, session, main, worker, prompt, cmd, mishaps, stray>>

\* Faulty variant: main() is not woken.
OnAuthenticatedSilent ==
  /\ ui.pc = "signal"
  /\ identity' = ui.tok
  /\ ui' = NoCall
  /\ UNCHANGED <<master, stored, env, events, session, main, worker, prompt, cmd, mishaps, stray>>

\* on_authenticated sets the identity once more and wakes main().
OnAuthenticated ==
  /\ ui.pc = "signal"
  /\ identity' = ui.tok /\ authEv' = TRUE
  /\ ui' = NoCall
  /\ UNCHANGED <<master, stored, env, discEv, session, main, worker, prompt, cmd, mishaps, stray>>

Rejected ==
  /\ ui.pc = "forget"
  /\ stored' = None
  /\ ui' = NoCall /\ AskAgain
  /\ UNCHANGED <<master, identity, env, events, session, main, worker, cmd, mishaps, stray>>

UiNext == Authenticate \/ SaveCredentials \/ SetIdentity \/ OnAuthenticated \/ Rejected
-----------------------------------------------------------------------------
(***************************************************************************)
(* REAUTHENTICATE_AGENT, in a thread of the local server.                  *)
(***************************************************************************)
Command ==
  /\ cmd = "idle" /\ ~MainAt("exited")
  /\ Mishap
  /\ cmd' = "forget" /\ stray' = TRUE
  /\ UNCHANGED <<master, creds, events, session, main, worker, user>>

Reauthenticate ==
  /\ \/ cmd = "forget" /\ cmd' = "disarm" /\ stored' = None /\ UNCHANGED identity
     \/ cmd = "disarm" /\ cmd' = "hit" /\ identity' = None /\ UNCHANGED stored
  /\ UNCHANGED <<master, env, events, session, main, worker, user, mishaps, stray>>

CommandCallback ==
  \E to \in Callback \cup {"idle"} :
    /\ OnDisconnect(cmd, to)
    /\ cmd' = to
    /\ UNCHANGED <<master, main, worker, user, mishaps, stray>>

CmdNext == Reauthenticate \/ CommandCallback
-----------------------------------------------------------------------------
\* The process dies, leaving an unreadable file if it was saving credentials,
\* and is started again, with its environment as it was.
Restart ==
  /\ Mishap
  /\ stored' \in IF ui.pc = "save" THEN {stored, None, ui.tok} ELSE {stored}
  /\ identity' = None /\ env' = EnvToken
  /\ authEv' = FALSE /\ discEv' = FALSE /\ agent' = FALSE /\ stop' = FALSE
  /\ MainTo("verify")
  /\ worker' = [w \in Workers |-> Ended] /\ ui' = NoCall /\ prompt' = FALSE
  /\ cmd' = "idle"
  /\ UNCHANGED <<master, stray>>

Next ==
  \/ Revoke \/ \E t \in Tokens : Issue(t) \/ Submit(t) \/ Prompt(t)
  \/ MainNext \/ UiNext \/ CmdNext \/ Command \/ Restart
  \/ \E w \in Workers : WorkerNext(w)

(***************************************************************************)
(* Every thread of the process runs, and the number of lost requests is    *)
(* bounded.  Nothing obliges the Master to issue or revoke, or the user to *)
(* enter, a token.                                                         *)
(***************************************************************************)
FairSpec ==
  /\ Init /\ [][Next]_vars
  /\ WF_vars(MainNext) /\ WF_vars(UiNext) /\ WF_vars(CmdNext)
  /\ \A w \in Workers : WF_vars(WorkerNext(w))
-----------------------------------------------------------------------------
(***************************************************************************)
(* Properties.  The orderly course is: no worker outlives the five seconds *)
(* it is waited for, the user acts while the client waits for that, and no *)
(* command REAUTHENTICATE_AGENT comes.                                     *)
(***************************************************************************)

\* In the orderly course nothing of one session reaches the next: outside a
\* session no worker is left that could disconnect it, and the client neither
\* waits for the user nor starts an agent with a disconnect pending, which would
\* make the next disconnect go unheeded.
SessionsApart ==
  \/ stray
  \/ main.pc \in {"run", "join"}
  \/ /\ AllEnded
     /\ main.pc \in {"waiting", "spawn", "start"} => ~discEv

\* "Client enters WAITING_FOR_PAIRING state - DO NOT EXIT!": in the orderly course
\* the process never ends by itself.
NeverExits == stray \/ ~MainAt("exited")

\* A disconnect that begins, in whatever thread and course, while an agent runs
\* ends that agent's session: concurrent ones may return early, but one does it.
Disconnecting ==
  \/ cmd \in Callback \ {"hit", "mark"}
  \/ \E w \in Workers : worker[w].pc \in Callback \ {"hit", "mark"}

DisconnectEndsSession == Disconnecting /\ MainAt("run") ~> ~MainAt("run")

\* In the orderly course a client that the Master stops accepting for good drops
\* its identity and goes back to waiting for the user.
RevocationNoticed ==
  \/ []<>(stray \/ valid # None)
  \/ <>[](MainAt("waiting") /\ identity = None)

\* In the orderly course a client that is paired for good comes to run an agent,
\* with a worker at work, and keeps it.
PairedReports ==
  \/ []<>(stray \/ identity = None \/ identity # valid)
  \/ <>[](MainAt("run") /\ \E w \in Workers : worker[w].pc \in {"idle", "sent"})

\* A pending disconnect ends the agent that runs: "Fire disconnect callback to stop
\* background loops and transition to WAITING_FOR_PAIRING"
\* (client/app/services/command_handler.py:182).
PendingDisconnectIsTaken == discEv /\ MainAt("run") ~> ~MainAt("run")
=============================================================================
