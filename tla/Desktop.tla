------------------------------- MODULE Desktop -------------------------------
(***************************************************************************)
(* One machine, with the setup wizard and the desktop launcher on it: both *)
(* run docker compose over the same images, names and containers, neither  *)
(* knows of the other, and a sign-in after the restart the wizard asked    *)
(* for brings both back at once.                                           *)
(***************************************************************************)
EXTENDS Naturals, Machine

CONSTANTS Options, Media, Found, Thread, Closer, Job, NoThread

ASSUME DesktopAssumption ==
    /\ Options \subseteq [docker : BOOLEAN, repair : BOOLEAN, start : BOOLEAN,
                          source : {"bundled", "online", "skip"}]
    /\ Media \subseteq SUBSET Image
    /\ Found \subseteq {"release", "old"}
    /\ Job \subseteq {"start", "stop", "restart"}
    /\ Closer \in Thread /\ NoThread \notin Thread

VARIABLES run, app, lock, confirm, thread, stray

I == INSTANCE Installer
L == INSTANCE Launcher

launcher == <<app, lock, confirm, thread, stray>>
vars == <<machine, run, launcher>>

\* Found are the names in the compose .env, which an earlier release may have left.
Init ==
    /\ engine \in {"absent", "down", "up"} /\ have = {} /\ names \in Found /\ stack = "none"
    /\ run = I!Off
    /\ app = "closed" /\ lock = NoThread /\ confirm = FALSE
    /\ thread = [t \in Thread |-> L!Idle] /\ stray = {}

\* Windows restarts: every process ends, the containers stay.
Restart ==
    /\ engine' = IF engine = "up" THEN "down" ELSE engine
    /\ run' = I!Off
    /\ app' = "closed" /\ lock' = NoThread /\ confirm' = FALSE
    /\ thread' = [t \in Thread |-> L!Idle] /\ stray' = {}
    /\ UNCHANGED <<have, names, stack>>

Next ==
    \/ I!Next /\ UNCHANGED launcher
    \/ L!Next /\ UNCHANGED run
    \/ (EngineStarts \/ EngineStops) /\ UNCHANGED <<run, launcher>>
    \/ Restart

Spec == Init /\ [][Next]_vars
FairSpec == Spec /\ L!Fairness

(***************************************************************************)
(* Properties.                                                             *)
(***************************************************************************)
Option == [docker : BOOLEAN, repair : BOOLEAN, start : BOOLEAN, source : {"bundled", "online", "skip"}]
Phase == {"runtime", "wsl", "docker", "repair", "wait", "recheck", "images", "load", "pull", "inspect",
          "configure", "stack", "probe", "model", "done"}
Run == [step : Phase, opt : Option, grade : 0..3, held : BOOLEAN,
        ready : BOOLEAN, left : SUBSET Media,
        expected : SUBSET Image, faulty : BOOLEAN, verified : BOOLEAN, answered : BOOLEAN]
Work == [job : {"none", "start", "stop", "restart", "close", "stray"},
         at : {"idle", "ready", "down", "up", "build", "rename", "asking", "waiting", "leaving"}]

\* Types of the machine, the wizard's run and the launcher.
TypeOK ==
    /\ engine \in {"absent", "down", "up"} /\ have \subseteq Image
    /\ names \in Name /\ stack \in {"none", "up"}
    /\ run \in Run \union {I!Off}
    /\ app \in {"closed", "open", "leaving"} /\ lock \in Thread \union {NoThread}
    /\ confirm \in BOOLEAN /\ thread \in [Thread -> Work]
    /\ stray \subseteq L!Command

\* Start, Stop, Restart and the shutdown of a close never run over each
\* other: one docker command of the live launcher at a time
\* (docs/desktop-launcher.md "Backend actions are serialized").
Serialized ==
    \A t, u \in Thread : L!Running(t) /\ L!Running(u) => t = u

\* Once the user has confirmed, the launcher closes, however many actions
\* are under way or asked for, and whatever becomes of Docker.
CloseEnds == (thread[Closer].at = "waiting") ~> (app = "closed")

\* Images count as verified only when no archive and no pull failed and
\* all that is expected is there (docs/installer_1_1_postmortem.md: a run
\* once claimed it after a docker load had failed).
ImagesVerified ==
    run.step # "off" /\ run.verified => ~run.faulty /\ run.expected # {} /\ run.expected \subseteq have

\* When setup starts the stack after verifying this release's images, the
\* images the compose .env names by then are here, though the launcher may
\* have gone over to a local build in between: no registry is needed
\* (docs/windows_installation_wizard_1_1_design.md: "Standard install
\* avoids Docker Hub pulls").  Only then: setup never compares the images
\* it verified with those named, so media without this release's names, or
\* a .env an earlier release left, end in a pull.
NoPullNeeded ==
    /\ run.step = "stack" /\ run.opt.start /\ run.verified
    /\ "release" \in run.expected /\ names # "old"
    => names \in have

\* No image is loaded or pulled and no stack started before this run saw
\* Docker ready, nor in a run that WSL holds up (the same document:
\* "do not run until readiness passes").
Gates ==
    [][(\E archive \in Media : I!LoadArchive(archive)) \/ I!PullImages \/ I!ComposeUp
       => run.ready /\ ~run.held]_vars

\* A setup asked to start the stack reports passed or warning only if its
\* images were verified and the stack answered: Write-SetupSummary.
HonestResult ==
    run.step = "done" /\ run.grade <= I!Warning /\ run.opt.start => run.verified /\ run.answered

\* The lock is never left behind: whoever has it is at a step that ends by itself, however Docker
\* answers, a refused, failed, cancelled or killed action included.
HolderProceeds ==
    lock # NoThread =>
        \/ thread[lock].at \in {"ready", "up", "build", "rename"}
        \/ thread[lock].at = "down" /\ thread[lock].job \in {"stop", "restart", "close"}
        \/ thread[lock].at = "leaving" /\ lock = Closer

\* The steps an action has before it at most.
Left(at) ==
    CASE at = "ready" -> 5 [] at = "down" -> 4 [] at = "up" -> 3 [] at = "build" -> 2
      [] at \in {"rename", "leaving"} -> 1 [] OTHER -> 0

\* An action of the launcher takes each of its steps once, whatever fails.
ActionsEnd == [][\A t \in Thread : L!Proceeds(t) => Left(thread'[t].at) < Left(thread[t].at)]_vars

\* The phases setup may still go through, in their order.
Remaining(step) ==
    CASE step = "runtime" -> 13 [] step = "wsl" -> 12 [] step = "docker" -> 11 [] step = "wait" -> 10
      [] step = "repair" -> 9 [] step = "recheck" -> 8 [] step = "images" -> 7
      [] step \in {"load", "pull"} -> 6 [] step = "inspect" -> 5 [] step = "configure" -> 4
      [] step = "stack" -> 3 [] step = "probe" -> 2 [] step = "model" -> 1 [] OTHER -> 0

\* A run of setup goes through its phases once, the repair pass included, and loads an archive once.
SetupEnds ==
    [][I!Step => \/ Remaining(run'.step) < Remaining(run.step)
                 \/ run'.step = run.step /\ run'.left \subseteq run.left /\ run'.left # run.left]_vars
=============================================================================
