------------------------------ MODULE Launcher -------------------------------
(***************************************************************************)
(* The backend actions of the desktop launcher (main.rs): Start, Stop and  *)
(* Restart from the window or at sign-in, and the shutdown of a confirmed  *)
(* close, each in a thread of its own and all under BACKEND_ACTION_LOCK.   *)
(* Who finds the lock taken gives up at once, except the closing thread,   *)
(* which waits.  The docker commands a thread started are processes of     *)
(* their own and outlive the launcher.                                     *)
(*                                                                         *)
(* An action refused because the lock is taken, a close request while one  *)
(* is under way, logs and status change nothing and have no action here.   *)
(***************************************************************************)
EXTENDS Machine

CONSTANTS
    Thread,    \* threads of the launcher
    Closer,    \* the one its close request starts
    Job,       \* what the user and the sign-in may ask: start, stop, restart
    NoThread

VARIABLES
    app,      \* the launcher's process: "closed", "open" or "leaving"
    lock,     \* the thread that holds BACKEND_ACTION_LOCK
    confirm,  \* CLOSE_CONFIRM_ACTIVE
    thread,   \* what each thread is doing, and where in it
    stray     \* the command a launcher left behind, if any; a second one ends the first

launcher == <<app, lock, confirm, thread, stray>>
mine == <<machine, launcher>>

Idle == [job |-> "none", at |-> "idle"]
Command == {"down", "up", "build"}
Running(t) == thread[t].at \in Command

\* docker compose down, up -d, and up -d --build with the development file.
Done(command) ==
    \/ command = "down" /\ engine = "up" /\ stack' = "none" /\ UNCHANGED have
    \/ command = "up" /\ CanUp /\ stack' = "up" /\ have' = have \union {names}
    \/ command = "build" /\ engine = "up" /\ stack' = "up" /\ have' = have \union {"dev"}

Fails == UNCHANGED <<have, stack>>

GoOn(t, at) == thread' = [thread EXCEPT ![t].at = at] /\ UNCHANGED lock

\* The action ends: the guard is dropped.
End(t) == thread' = [thread EXCEPT ![t] = Idle] /\ lock' = NoThread

\* Preparing the runtime keeps the image names that are there.
Launch ==
    /\ app = "closed"
    /\ app' = "open"
    /\ UNCHANGED <<machine, lock, confirm, thread, stray>>

Act(t, job) ==
    /\ app # "closed" /\ thread[t] = Idle /\ lock = NoThread
    /\ lock' = t
    /\ thread' = [thread EXCEPT ![t] = [job |-> job, at |-> IF job = "stop" THEN "down" ELSE "ready"]]
    /\ UNCHANGED <<machine, app, confirm, stray>>

\* ensure_docker_ready: the engine answers, or has not for 90 seconds.
Ready(t) ==
    /\ thread[t].at = "ready"
    /\ \/ engine = "up" /\ GoOn(t, IF thread[t].job = "restart" THEN "down" ELSE "up")
       \/ engine # "up" /\ End(t)
    /\ UNCHANGED <<machine, app, confirm, stray>>

\* Restart and the closing thread go on whether the command failed or not.
DownEnds(t) ==
    /\ thread[t].at = "down"
    /\ Done("down") \/ Fails
    /\ \/ thread[t].job = "stop" /\ End(t)
       \/ thread[t].job = "restart" /\ GoOn(t, "up")
       \/ thread[t].job = "close" /\ GoOn(t, "leaving")
    /\ UNCHANGED <<engine, names, app, confirm, stray>>

\* When up fails because the registry denies an image, local ones are built.
UpEnds(t) ==
    /\ thread[t].at = "up"
    /\ \/ (Done("up") \/ Fails) /\ End(t)
       \/ /\ engine = "up" /\ names \notin have
          /\ Fails /\ GoOn(t, "build")
    /\ UNCHANGED <<engine, names, app, confirm, stray>>

\* Mutant: the local build is named although it failed.
BuildEndsAnyhow(t) ==
    /\ thread[t].at = "build"
    /\ Done("build") \/ Fails
    /\ GoOn(t, "rename")
    /\ UNCHANGED <<engine, names, app, confirm, stray>>

BuildEnds(t) ==
    /\ thread[t].at = "build"
    /\ \/ Done("build") /\ GoOn(t, "rename")
       \/ Fails /\ End(t)
    /\ UNCHANGED <<engine, names, app, confirm, stray>>

\* The compose .env names the local build from now on, if it can be
\* written; its two names count as one.
Rename(t) ==
    /\ thread[t].at = "rename"
    /\ names' \in {names, "dev"}
    /\ End(t)
    /\ UNCHANGED <<engine, have, stack, app, confirm, stray>>

CloseRequested ==
    /\ app # "closed" /\ ~confirm
    /\ confirm' = TRUE
    /\ thread' = [thread EXCEPT ![Closer] = [job |-> "close", at |-> "asking"]]
    /\ UNCHANGED <<machine, app, lock, stray>>

Cancelled ==
    /\ thread[Closer].at = "asking"
    /\ confirm' = FALSE
    /\ thread' = [thread EXCEPT ![Closer] = Idle]
    /\ UNCHANGED <<machine, app, lock, stray>>

Confirmed ==
    /\ thread[Closer].at = "asking"
    /\ GoOn(Closer, "waiting")
    /\ UNCHANGED <<machine, app, confirm, stray>>

\* Mutant: a failed lock is taken for a held one.
CloserLocksAnyhow ==
    /\ thread[Closer].at = "waiting"
    /\ lock' = Closer
    /\ thread' = [thread EXCEPT ![Closer].at = "down"]
    /\ UNCHANGED <<machine, app, confirm, stray>>

\* Mutant: the closing thread gives up like the others.
CloserTriesLock ==
    /\ thread[Closer].at = "waiting"
    /\ \/ lock = NoThread /\ lock' = Closer /\ thread' = [thread EXCEPT ![Closer].at = "down"]
       \/ lock # NoThread /\ lock' = lock /\ thread' = [thread EXCEPT ![Closer] = Idle]
    /\ UNCHANGED <<machine, app, confirm, stray>>

CloserLocks ==
    /\ thread[Closer].at = "waiting" /\ lock = NoThread
    /\ lock' = Closer
    /\ thread' = [thread EXCEPT ![Closer].at = "down"]
    /\ UNCHANGED <<machine, app, confirm, stray>>

\* app.exit(0) only asks the event loop to end; the guard is dropped.
Leave ==
    /\ thread[Closer].at = "leaving"
    /\ app' = "leaving"
    /\ End(Closer)
    /\ UNCHANGED <<machine, confirm, stray>>

\* The process ends: there is no lock, and what it ran goes on.
Exit ==
    /\ app' = "closed" /\ lock' = NoThread /\ confirm' = FALSE
    /\ stray' = IF \E t \in Thread : Running(t)
                THEN {thread[t].at : t \in {u \in Thread : Running(u)}} ELSE stray
    /\ thread' = [t \in Thread |-> Idle]
    /\ UNCHANGED machine

Exits == app = "leaving" /\ Exit
Crash == app # "closed" /\ Exit

StrayEnds(command) ==
    /\ command \in stray
    /\ Done(command) \/ Fails
    /\ stray' = stray \ {command}
    /\ UNCHANGED <<engine, names, app, lock, confirm, thread>>

Proceeds(t) == Ready(t) \/ DownEnds(t) \/ UpEnds(t) \/ BuildEnds(t) \/ Rename(t)

Next ==
    \/ Launch \/ Exits \/ Crash
    \/ \E t \in Thread \ {Closer}, job \in Job : Act(t, job)
    \/ \E t \in Thread : Proceeds(t)
    \/ CloseRequested \/ Cancelled \/ Confirmed \/ CloserLocks \/ Leave
    \/ \E command \in Command : StrayEnds(command)

\* Docker commands and the event loop come to an end, and the closing
\* thread gets the lock if it is free again and again.
Fairness ==
    /\ \A t \in Thread \ {Closer} : WF_mine(Proceeds(t))
    /\ WF_mine(Proceeds(Closer) \/ Leave \/ Exits)
    /\ SF_mine(CloserLocks)
=============================================================================
