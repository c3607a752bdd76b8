------------------------------ MODULE Installer ------------------------------
(***************************************************************************)
(* Invoke-HyperSearchInstallation of HyperSearchInstallerCore.ps1: one run *)
(* of the Windows setup, phase by phase, from the options the wizard       *)
(* collected to the summary.  The machine outlives the run, and others     *)
(* change it meanwhile.                                                    *)
(*                                                                         *)
(* The state of a run is $State; its grade is the worst status, warning or *)
(* error so far, which is what Write-SetupSummary makes the result of.     *)
(* Copying files, LM Studio, the profile and the model download matter     *)
(* here only through their grade; command lines, logs, the diagnostics     *)
(* bundle and warnings that no phase looks at are left out.                *)
(***************************************************************************)
EXTENDS Naturals, Machine

CONSTANTS
    Options,  \* what the wizard may be told: docker, repair, source, start
    Media     \* the image archives media may hold, each with the images in it

VARIABLE run  \* the run of setup

\* Statuses of a phase, ordered as Write-SetupSummary ranks them.
Passed == 0
Warning == 1
Blocked == 2
Failed == 3
Fine == {Passed, Warning}

Off == [step |-> "off"]

Fresh(o) ==
    [step |-> "runtime", opt |-> o, grade |-> Passed, held |-> FALSE,
     ready |-> FALSE, left |-> {}, expected |-> {}, faulty |-> FALSE, verified |-> FALSE,
     answered |-> FALSE]

\* Mutant: statuses add up.
GoAddingUp(step, status) == [run EXCEPT !.step = step, !.grade = @ + status]

\* The run goes on to a phase; the one it leaves has this status.
Go(step, status) ==
    [run EXCEPT !.step = step, !.grade = IF status > @ THEN status ELSE @]

Begin(o) ==
    /\ run.step = "off"
    /\ run' = Fresh(o)
    /\ UNCHANGED machine

\* The payload is copied and the .env files are written; or it is missing,
\* and the names stay those of whoever wrote them last.
Runtime ==
    /\ run.step = "runtime"
    /\ \E status \in Fine :
        /\ names' = IF status = Passed THEN "release" ELSE names
        /\ run' = IF run.opt.docker THEN Go("wsl", status) ELSE Go("docker", Warning)
    /\ UNCHANGED <<engine, have, stack>>

WslUsable ==
    /\ run.step = "wsl"
    /\ \E status \in Fine : run' = Go("docker", status)
    /\ UNCHANGED machine

\* Virtualization is off, or Windows must restart first: setup is blocked
\* here, or deferred when the wizard could be registered in RunOnce; the
\* run goes on alike, its messages differ.
WslBlocks ==
    /\ run.step = "wsl"
    /\ run' = [Go("configure", Blocked) EXCEPT !.held = TRUE]
    /\ UNCHANGED machine

DockerSkipped ==
    /\ run.step = "docker" /\ ~run.opt.docker
    /\ run' = Go("images", Warning)
    /\ UNCHANGED machine

DockerPresent ==
    /\ run.step = "docker" /\ run.opt.docker /\ engine # "absent"
    /\ run' = Go("wait", Passed)
    /\ UNCHANGED machine

\* Docker Desktop's installer runs, because it is missing or as the repair
\* pass; an exit code other than 0 is a warning.
InstallDocker ==
    /\ \/ run.step = "docker" /\ run.opt.docker /\ engine = "absent"
       \/ run.step = "repair"
    /\ engine' \in {engine, "down"}
    /\ \E status \in Fine : run' = Go("recheck", status)
    /\ UNCHANGED <<have, names, stack>>

DockerUnsupported ==
    /\ \/ run.step = "docker" /\ run.opt.docker /\ engine = "absent"
       \/ run.step = "repair"
    /\ run' = Go("configure", Blocked)
    /\ UNCHANGED machine

DockerReady ==
    /\ run.step \in {"wait", "recheck"} /\ engine = "up"
    /\ run' = [Go("images", Passed) EXCEPT !.ready = TRUE]
    /\ UNCHANGED machine

\* No answer within the timeout: one repair pass for a Docker that was
\* there before, none for one just installed or repaired; then the images
\* are blocked too.
DockerNotReady ==
    /\ run.step \in {"wait", "recheck"} /\ engine # "up"
    /\ run' = IF run.step = "wait" /\ run.opt.repair THEN Go("repair", Warning)
                                                     ELSE Go("configure", Blocked)
    /\ UNCHANGED machine

\* Skipped by option; or Docker was not ready, nothing is expected or the
\* media hold no archive.
NoImages ==
    /\ run.step = "images"
    /\ run' = IF run.opt.source = "skip" THEN Go("configure", Warning)
                                         ELSE Go("configure", Blocked)
    /\ UNCHANGED machine

\* What to expect: all that the manifests on the media record, of which
\* some may be missing or unreadable (a warning); if that is nothing, what
\* the compose .env names.
Expectable ==
    LET recorded == {UNION manifests : manifests \in SUBSET Media}
    IN  (recorded \ {{}}) \union {{names}}

\* Nothing compares what the manifests record, and the archives on the
\* media hold, with what the compose .env names.
PrepareImages ==
    /\ run.step = "images" /\ run.opt.source # "skip" /\ run.ready
    /\ \E expected \in Expectable :
        IF run.opt.source = "online"
        THEN run' = [Go("pull", Passed) EXCEPT !.expected = expected]
        ELSE \E archives \in (SUBSET Media) \ {{}} :
                run' = [Go("load", Passed) EXCEPT !.expected = expected, !.left = archives]
    /\ UNCHANGED machine

\* An archive fails its checksum, or docker load fails and leaves some of
\* it: an error of the image setup, and the next archive is tried.
LoadArchive(archive) ==
    /\ run.step = "load" /\ archive \in run.left
    /\ \/ /\ engine = "up"
          /\ have' = have \union archive
          /\ run' = [run EXCEPT !.left = @ \ {archive}]
       \/ /\ \E part \in SUBSET archive : have' = have \union part
          /\ run' = [Go("load", Warning) EXCEPT !.left = @ \ {archive}, !.faulty = TRUE]
    /\ UNCHANGED <<engine, names, stack>>

\* docker compose pull fetches what the compose .env names.
PullImages ==
    /\ run.step = "pull"
    /\ \/ /\ engine = "up" /\ names \in Published
          /\ have' = have \union {names}
          /\ run' = Go("inspect", Passed)
       \/ /\ have' \in {have, have \union ({names} \intersect Published)}
          /\ run' = [Go("inspect", Warning) EXCEPT !.faulty = TRUE]
    /\ UNCHANGED <<engine, names, stack>>

\* Mutant: images that are there count as verified although a load failed.
InspectImagesOnly ==
    /\ \/ run.step = "inspect"
       \/ run.step = "load" /\ run.left = {}
    /\ LET verified == engine = "up" /\ run.expected \subseteq have
       IN  run' = [Go("configure", IF verified THEN Passed ELSE Blocked) EXCEPT
                      !.verified = verified]
    /\ UNCHANGED machine

InspectImages ==
    /\ \/ run.step = "inspect"
       \/ run.step = "load" /\ run.left = {}
    /\ LET verified == ~run.faulty /\ engine = "up" /\ run.expected \subseteq have
       IN  run' = [Go("configure", IF verified THEN Passed ELSE Blocked) EXCEPT
                      !.verified = verified]
    /\ UNCHANGED machine

\* LM Studio, sign-in startup and the profile; when WSL held setup up, the
\* stack is blocked and the model a warning without being tried.
Configure ==
    /\ run.step = "configure"
    /\ \E status \in Fine :
        run' = IF run.held THEN Go("done", Blocked) ELSE Go("stack", status)
    /\ UNCHANGED machine

\* Mutant: that the images were not verified is no more than a warning.
StackSkippedMildly ==
    /\ run.step = "stack" /\ ~(run.opt.start /\ run.verified)
    /\ run' = Go("model", Warning)
    /\ UNCHANGED machine

StackSkipped ==
    /\ run.step = "stack" /\ ~(run.opt.start /\ run.verified)
    /\ run' = Go("model", IF run.opt.start THEN Blocked ELSE Warning)
    /\ UNCHANGED machine

\* docker compose up -d.
ComposeUp ==
    /\ run.step = "stack" /\ run.opt.start /\ run.verified
    /\ \/ /\ CanUp
          /\ have' = have \union {names}
          /\ stack' = "up"
          /\ run' = Go("probe", Passed)
       \/ /\ UNCHANGED <<have, stack>>
          /\ run' = Go("model", Blocked)
    /\ UNCHANGED <<engine, names>>

\* /v1/live and /v1/ready answer, or do not within two minutes.
ProbeStack ==
    /\ run.step = "probe"
    /\ \/ /\ engine = "up" /\ stack # "none"
          /\ run' = [Go("model", Passed) EXCEPT !.answered = TRUE]
       \/ run' = Go("model", Blocked)
    /\ UNCHANGED machine

ModelDownload ==
    /\ run.step = "model"
    /\ \E status \in Fine : run' = Go("done", status)
    /\ UNCHANGED machine

\* An exception in any phase: robocopy fails, an installer is not trusted,
\* a file cannot be written.  The summary is written all the same.
Throws ==
    /\ run.step \notin {"off", "done"}
    /\ names' \in IF run.step = "runtime" THEN {names, "release"} ELSE {names}
    /\ run' = Go("done", Failed)
    /\ UNCHANGED <<engine, have, stack>>

\* The wizard's process ends, in the middle of a run or after it.
Killed ==
    /\ run.step # "off"
    /\ run' = Off
    /\ UNCHANGED machine

Step ==
    \/ Runtime \/ WslUsable \/ WslBlocks
    \/ DockerSkipped \/ DockerPresent \/ InstallDocker \/ DockerUnsupported
    \/ DockerReady \/ DockerNotReady
    \/ NoImages \/ PrepareImages \/ PullImages \/ InspectImages
    \/ \E archive \in Media : LoadArchive(archive)
    \/ Configure \/ StackSkipped \/ ComposeUp \/ ProbeStack \/ ModelDownload
    \/ Throws

Next == Step \/ Killed \/ \E o \in Options : Begin(o)
=============================================================================
