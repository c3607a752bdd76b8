------------------------------- MODULE Machine -------------------------------
(***************************************************************************)
(* The Windows machine under HyperSearch, as far as the installer and the  *)
(* desktop launcher both read and change it: Docker's engine, its images,  *)
(* the image names in the compose .env and the containers.  Docker is      *)
(* external; what it does is taken from how HyperSearchInstallerCore.ps1   *)
(* and main.rs use it.                                                     *)
(***************************************************************************)
VARIABLES
    engine,   \* Docker: "absent", "down" (installed) or "up" (its engine answers)
    have,     \* images the engine has
    names,    \* whose images the compose .env names for the API and the interface:
              \* "release" (this one), "old" (an earlier one) or "dev" (the local build)
    stack     \* HyperSearch's containers: "none" or "up"

machine == <<engine, have, names, stack>>

\* The images of the services, by the names HyperSearch's own have: those a
\* .env may give them, and those it never does ("other": the build's own
\* tags and Docker Hub's).  The images of other projects come with each.
Name == {"release", "old", "dev"}
Image == Name \union {"other"}

\* A local build is nowhere but here.
Published == Image \ {"dev"}

\* docker compose up pulls what is missing.
CanUp == engine = "up" /\ names \in have \union Published

\* Docker Desktop is started, by the launcher, by setup or by hand.
EngineStarts ==
    /\ engine = "down"
    /\ engine' = "up"
    /\ UNCHANGED <<have, names, stack>>

EngineStops ==
    /\ engine = "up"
    /\ engine' = "down"
    /\ UNCHANGED <<have, names, stack>>
=============================================================================
