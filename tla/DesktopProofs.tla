---------------------------- MODULE DesktopProofs ----------------------------
(***************************************************************************)
(* What the setup wizard and the desktop launcher keep to on one machine,  *)
(* for any options, any threads and any jobs; that neither goes on for     *)
(* ever, and that the lock of the launcher is never left behind.           *)
(***************************************************************************)
EXTENDS Desktop, TLAPS

(***************************************************************************)
(* The inductive invariant.                                                *)
(***************************************************************************)

\* Who is past taking the lock has it.
LockHeld ==
    \A t \in Thread :
        thread[t].at \in L!Command \union {"ready", "rename", "leaving"} => lock = t

\* The local build is named, or about to be, only when it is there.
NamedIsThere ==
    /\ names = "dev" => "dev" \in have
    /\ \A t \in Thread : thread[t].at = "rename" => "dev" \in have

Early == {"runtime", "wsl", "docker", "repair", "wait", "recheck", "images"}
Handling == {"load", "pull", "inspect"}

\* What a run of setup expects, and what its flags stand for.
ExpectInv == run.step \in Early => run.expected = {}

FlagInv ==
    run.step # "off" =>
        /\ run.step \in Early \union Handling => ~run.verified
        /\ run.step \in Handling => run.expected # {} /\ run.ready
        /\ run.verified => run.ready /\ ~run.faulty /\ run.expected # {} /\ run.expected \subseteq have
        /\ run.held => run.step \in {"configure", "done"}

GradeInv ==
    run.step # "off" =>
        /\ run.step = "probe" => run.verified
        /\ run.step \in {"model", "done"} /\ run.grade <= I!Warning /\ run.opt.start
              => run.verified /\ run.answered

IInv == TypeOK /\ LockHeld /\ NamedIsThere /\ ExpectInv /\ FlagInv /\ GradeInv
RunInv == run \in Run \union {I!Off} /\ ExpectInv /\ FlagInv /\ GradeInv

\* All the wizard does to the machine: images come, and the release
\* images are named.
ImagesCome ==
    /\ engine' \in {"absent", "down", "up"} /\ stack' \in {"none", "up"}
    /\ have \subseteq have' /\ have' \subseteq Image
    /\ names' \in {names, "release"}

(***************************************************************************)
(* The wizard.                                                             *)
(***************************************************************************)

LEMMA RunMachine ==
    ASSUME TypeOK, I!Next PROVE ImagesCome
<1> USE DEF TypeOK, ImagesCome, I!machine, Image, Name, I!Image, I!Name, I!Published, I!CanUp
<1>1. CASE I!Runtime
  BY <1>1 DEF I!Runtime
<1>2. CASE I!WslUsable
  BY <1>2 DEF I!WslUsable
<1>3. CASE I!WslBlocks
  BY <1>3 DEF I!WslBlocks
<1>4. CASE I!DockerSkipped
  BY <1>4 DEF I!DockerSkipped
<1>5. CASE I!DockerPresent
  BY <1>5 DEF I!DockerPresent
<1>6. CASE I!InstallDocker
  BY <1>6 DEF I!InstallDocker
<1>7. CASE I!DockerUnsupported
  BY <1>7 DEF I!DockerUnsupported
<1>8. CASE I!DockerReady
  BY <1>8 DEF I!DockerReady
<1>9. CASE I!DockerNotReady
  BY <1>9 DEF I!DockerNotReady
<1>10. CASE I!NoImages
  BY <1>10 DEF I!NoImages
<1>11. CASE I!PrepareImages
  BY <1>11 DEF I!PrepareImages
<1>12. CASE I!PullImages
  BY <1>12 DEF I!PullImages
<1>13. CASE I!InspectImages
  BY <1>13 DEF I!InspectImages
<1>14. CASE I!Configure
  BY <1>14 DEF I!Configure
<1>15. CASE I!StackSkipped
  BY <1>15 DEF I!StackSkipped
<1>16. CASE I!ComposeUp
  BY <1>16 DEF I!ComposeUp
<1>17. CASE I!ProbeStack
  BY <1>17 DEF I!ProbeStack
<1>18. CASE I!ModelDownload
  BY <1>18 DEF I!ModelDownload
<1>19. CASE I!Throws
  BY <1>19 DEF I!Throws
<1>20. CASE I!Killed
  BY <1>20 DEF I!Killed
<1>21. CASE \E archive \in Media : I!LoadArchive(archive)
  BY <1>21, DesktopAssumption DEF I!LoadArchive
<1>22. CASE \E o \in Options : I!Begin(o)
  BY <1>22 DEF I!Begin
<1> QED
  BY <1>1, <1>2, <1>3, <1>4, <1>5, <1>6, <1>7, <1>8, <1>9, <1>10, <1>11, <1>12, <1>13, <1>14, <1>15, <1>16, <1>17, <1>18, <1>19, <1>20, <1>21, <1>22 DEF I!Next, I!Step


LEMMA RunIsRun ==
    ASSUME run \in Run \union {I!Off}, run.step # "off" PROVE run \in Run
BY DEF I!Off

\* The run after Go.
LEMMA GoFields ==
    ASSUME run \in Run, NEW s \in Phase, NEW g \in 0..3
    PROVE  /\ I!Go(s, g) \in Run /\ I!Go(s, g).step = s
           /\ I!Go(s, g).grade >= run.grade /\ I!Go(s, g).grade >= g
           /\ I!Go(s, g).opt = run.opt /\ I!Go(s, g).held = run.held
           /\ I!Go(s, g).ready = run.ready /\ I!Go(s, g).expected = run.expected
           /\ I!Go(s, g).faulty = run.faulty /\ I!Go(s, g).verified = run.verified
           /\ I!Go(s, g).answered = run.answered
<1> DEFINE grade == IF g > run.grade THEN g ELSE run.grade
           next == [run EXCEPT !.step = s, !.grade = grade]
<1>1. grade \in 0..3 /\ grade >= run.grade /\ grade >= g
  BY DEF Run
<1>2. I!Go(s, g) = next
  BY DEF I!Go
<1> HIDE DEF grade
<1>3. next \in Run
  BY <1>1 DEF Run
<1>4. next.step = s /\ next.grade = grade
  BY DEF Run
<1>5. next.opt = run.opt /\ next.held = run.held /\ next.ready = run.ready
  BY DEF Run
<1>6. next.expected = run.expected /\ next.faulty = run.faulty
  BY DEF Run
<1>7. next.verified = run.verified /\ next.answered = run.answered
  BY DEF Run
<1> QED
  BY <1>1, <1>2, <1>3, <1>4, <1>5, <1>6, <1>7 DEF I!Go

\* A step that only goes on to phase s with status g.
LEMMA GoKeeps ==
    ASSUME run \in Run, run.step # "off", ExpectInv, FlagInv, GradeInv,
           NEW s \in Phase, NEW g \in 0..3, run' = I!Go(s, g),
           have \subseteq have',
           s \in Early => run.step \in Early,
           s \in Handling => run.step \in Handling,
           run.held => s \in {"configure", "done"},
           s = "probe" => run.verified,
           s \in {"model", "done"} =>
               run.step \in {"model", "done"} \/ ~run.opt.start \/ g \in {I!Blocked, I!Failed}
    PROVE  RunInv'
<1>1. /\ run' \in Run /\ run'.step = s /\ run'.grade >= run.grade /\ run'.grade >= g
      /\ run'.opt = run.opt /\ run'.held = run.held /\ run'.ready = run.ready
      /\ run'.expected = run.expected /\ run'.faulty = run.faulty
      /\ run'.verified = run.verified /\ run'.answered = run.answered
  BY GoFields
<1>2. run'.grade \in 0..3 /\ run.grade \in 0..3
  BY <1>1 DEF Run
<1>3. ExpectInv'
  BY <1>1 DEF ExpectInv, Early
<1>4. FlagInv'
  <2>1. s \in Early \union Handling => ~run.verified
    BY DEF FlagInv
  <2> QED
    BY <1>1, <2>1 DEF FlagInv
<1>5. GradeInv'
  BY <1>1, <1>2 DEF GradeInv, I!Warning, I!Blocked, I!Failed
<1> QED
  BY <1>1, <1>3, <1>4, <1>5 DEF RunInv

\* What PrepareImages leaves, whether it goes on to load or to pull.
Prepared(s, expected) ==
    /\ run' \in Run /\ run'.step = s /\ run'.expected = expected
    /\ run'.verified = run.verified /\ run'.ready = run.ready /\ run'.held = run.held

\* Something is expected, and images it is.
LEMMA ExpectedAreImages ==
    ASSUME names \in Name, NEW expected \in I!Expectable
    PROVE  expected \subseteq Image /\ expected # {}
<1>1. \A manifests \in SUBSET Media : UNION manifests \subseteq Image
  BY DesktopAssumption
<1>2. {names} \subseteq Image
  BY DEF Image, Name
<1> QED
  BY <1>1, <1>2 DEF I!Expectable

\* A step of the wizard leaves a run that is well formed.
LEMMA RunStep ==
    ASSUME TypeOK, NamedIsThere, RunInv, I!Next PROVE RunInv'
<1> USE DEF Phase, Early, Handling, I!Fine, I!Passed, I!Warning, I!Blocked, I!Failed
<1>0. ASSUME run.step # "off" PROVE run \in Run /\ ExpectInv /\ FlagInv /\ GradeInv
  BY <1>0, RunIsRun DEF RunInv
<1>1. CASE I!Runtime
  BY <1>0, <1>1, GoKeeps DEF I!Runtime, I!machine, ExpectInv, FlagInv, GradeInv
<1>2. CASE I!WslUsable
  BY <1>0, <1>2, GoKeeps DEF I!WslUsable, I!machine, ExpectInv, FlagInv, GradeInv
<1>3. CASE I!DockerSkipped
  BY <1>0, <1>3, GoKeeps DEF I!DockerSkipped, I!machine, ExpectInv, FlagInv, GradeInv
<1>4. CASE I!DockerPresent
  BY <1>0, <1>4, GoKeeps DEF I!DockerPresent, I!machine, ExpectInv, FlagInv, GradeInv
<1>5. CASE I!InstallDocker
  BY <1>0, <1>5, GoKeeps DEF I!InstallDocker, I!machine, ExpectInv, FlagInv, GradeInv
<1>6. CASE I!DockerUnsupported
  BY <1>0, <1>6, GoKeeps DEF I!DockerUnsupported, I!machine, ExpectInv, FlagInv, GradeInv
<1>7. CASE I!DockerNotReady
  BY <1>0, <1>7, GoKeeps DEF I!DockerNotReady, I!machine, ExpectInv, FlagInv, GradeInv
<1>8. CASE I!NoImages
  BY <1>0, <1>8, GoKeeps DEF I!NoImages, I!machine, ExpectInv, FlagInv, GradeInv
<1>9. CASE I!Configure
  BY <1>0, <1>9, GoKeeps DEF I!Configure, I!machine, ExpectInv, FlagInv, GradeInv
<1>10. CASE I!StackSkipped
  BY <1>0, <1>10, GoKeeps DEF I!StackSkipped, I!machine, ExpectInv, FlagInv, GradeInv
<1>11. CASE I!ComposeUp
  BY <1>0, <1>11, GoKeeps DEF I!ComposeUp, I!machine, ExpectInv, FlagInv, GradeInv
<1>12. CASE I!ModelDownload
  BY <1>0, <1>12, GoKeeps DEF I!ModelDownload, I!machine, ExpectInv, FlagInv, GradeInv
<1>13. CASE I!Throws
  BY <1>0, <1>13, GoKeeps DEF I!Throws, I!machine, ExpectInv, FlagInv, GradeInv
<1>14. CASE I!WslBlocks
  <2> DEFINE r == I!Go("configure", I!Blocked)
  <2>1. run \in Run /\ run.step = "wsl" /\ ~run.verified /\ have' = have /\ names' = names
    BY <1>0, <1>14 DEF I!WslBlocks, I!machine, FlagInv
  <2>2. r \in Run /\ r.step = "configure" /\ r.expected = run.expected /\ r.verified = run.verified
    BY <2>1, GoFields
  <2>3. run' = [r EXCEPT !.held = TRUE]
    BY <1>14 DEF I!WslBlocks
  <2> HIDE DEF r
  <2>4. run' \in Run
    BY <2>2, <2>3 DEF Run
  <2>5. run'.step = "configure" /\ run'.expected = run.expected /\ run'.verified = run.verified
    BY <2>2, <2>3 DEF Run
  <2> QED
    BY <1>0, <1>14, <2>1, <2>4, <2>5 DEF I!WslBlocks, RunInv, ExpectInv, FlagInv, GradeInv
<1>15. CASE I!DockerReady
  <2> DEFINE r == I!Go("images", I!Passed)
  <2>1. /\ run \in Run /\ run.step \in {"wait", "recheck"} /\ ~run.verified /\ run.expected = {}
        /\ ~run.held /\ have' = have /\ names' = names
    BY <1>0, <1>15 DEF I!DockerReady, I!machine, ExpectInv, FlagInv
  <2>2. r \in Run /\ r.step = "images" /\ r.expected = {} /\ r.verified = run.verified /\ r.held = run.held
    BY <2>1, GoFields
  <2>3. run' = [r EXCEPT !.ready = TRUE]
    BY <1>15 DEF I!DockerReady
  <2> HIDE DEF r
  <2>4. run' \in Run
    BY <2>2, <2>3 DEF Run
  <2>5. run'.step = "images" /\ run'.expected = {} /\ run'.verified = run.verified /\ run'.held = run.held
    BY <2>2, <2>3 DEF Run
  <2> QED
    BY <1>15, <2>1, <2>4, <2>5 DEF I!DockerReady, RunInv, ExpectInv, FlagInv, GradeInv
<1>16. CASE I!PrepareImages
  <2>1. /\ run \in Run /\ run.step = "images" /\ ~run.verified /\ run.ready /\ ~run.held
        /\ have' = have /\ names \in Name
    BY <1>0, <1>16 DEF I!PrepareImages, I!machine, FlagInv, TypeOK
  <2>2. PICK expected \in I!Expectable :
          \/ run' = [I!Go("pull", I!Passed) EXCEPT !.expected = expected]
          \/ \E archives \in (SUBSET Media) \ {{}} :
                run' = [I!Go("load", I!Passed) EXCEPT !.expected = expected, !.left = archives]
    BY <1>16 DEF I!PrepareImages
  <2>3. expected \subseteq Image /\ expected # {}
    BY <2>1, ExpectedAreImages
  <2>4. ASSUME run' = [I!Go("pull", I!Passed) EXCEPT !.expected = expected]
        PROVE  Prepared("pull", expected)
    <3> DEFINE r == I!Go("pull", I!Passed)
    <3>0. "pull" \in Phase /\ I!Passed \in 0..3
      OBVIOUS
    <3>1. r \in Run /\ r.step = "pull" /\ r.verified = run.verified /\ r.ready = run.ready /\ r.held = run.held
      <4> HIDE DEF Phase, I!Passed
      <4> QED
        BY <2>1, <3>0, GoFields
    <3> HIDE DEF r
    <3>2. run' = [r EXCEPT !.expected = expected]
      BY <2>4 DEF r
    <3>3. run' \in Run
      BY <2>3, <3>1, <3>2 DEF Run
    <3> QED
      BY <3>1, <3>2, <3>3 DEF Run, Prepared
  <2>5. ASSUME NEW archives \in (SUBSET Media) \ {{}},
               run' = [I!Go("load", I!Passed) EXCEPT !.expected = expected, !.left = archives]
        PROVE  Prepared("load", expected)
    <3> DEFINE r == I!Go("load", I!Passed)
    <3>0. "load" \in Phase /\ I!Passed \in 0..3
      OBVIOUS
    <3>1. r \in Run /\ r.step = "load" /\ r.verified = run.verified /\ r.ready = run.ready /\ r.held = run.held
      <4> HIDE DEF Phase, I!Passed
      <4> QED
        BY <2>1, <3>0, GoFields
    <3> HIDE DEF r
    <3>2. run' = [r EXCEPT !.expected = expected, !.left = archives]
      BY <2>5 DEF r
    <3>3. run' \in Run
      BY <2>3, <3>1, <3>2 DEF Run
    <3> QED
      BY <3>1, <3>2, <3>3 DEF Run, Prepared
  <2>6. Prepared("pull", expected) \/ Prepared("load", expected)
    BY <2>2, <2>4, <2>5
  <2> QED
    BY <2>1, <2>3, <2>6 DEF Prepared, RunInv, ExpectInv, FlagInv, GradeInv
<1>17. CASE I!PullImages
  <2>1. /\ run \in Run /\ run.step = "pull" /\ ~run.verified /\ run.ready /\ run.expected # {} /\ ~run.held
        /\ have \subseteq have'
    BY <1>0, <1>17 DEF I!PullImages, FlagInv
  <2>2. CASE run' = I!Go("inspect", I!Passed)
    BY <1>0, <2>1, <2>2, GoKeeps
  <2>3. CASE run' = [I!Go("inspect", I!Warning) EXCEPT !.faulty = TRUE]
    <3> DEFINE r == I!Go("inspect", I!Warning)
    <3>0. "inspect" \in Phase /\ I!Warning \in 0..3
      OBVIOUS
    <3>1. /\ r \in Run /\ r.step = "inspect" /\ r.verified = run.verified
          /\ r.ready = run.ready /\ r.held = run.held /\ r.expected = run.expected
      <4> HIDE DEF Phase, I!Warning
      <4> QED
        BY <2>1, <3>0, GoFields
    <3> HIDE DEF r
    <3>2. run' = [r EXCEPT !.faulty = TRUE]
      BY <2>3 DEF r
    <3>3. run' \in Run
      BY <3>1, <3>2 DEF Run
    <3>4. /\ run'.step = "inspect" /\ run'.verified = run.verified /\ run'.ready = run.ready
          /\ run'.held = run.held /\ run'.expected = run.expected
      BY <3>1, <3>2 DEF Run
    <3> QED
      BY <1>0, <2>1, <3>3, <3>4 DEF RunInv, ExpectInv, FlagInv, GradeInv
  <2> QED
    BY <1>17, <2>2, <2>3 DEF I!PullImages
<1>18. CASE I!InspectImages
  <2>1. /\ run \in Run /\ run.step \in {"inspect", "load"} /\ run.ready /\ run.expected # {} /\ ~run.held
        /\ have' = have /\ names' = names
    BY <1>0, <1>18 DEF I!InspectImages, I!machine, FlagInv
  <2>2. PICK verified \in BOOLEAN, g \in {I!Passed, I!Blocked} :
          /\ verified => ~run.faulty /\ run.expected \subseteq have
          /\ run' = [I!Go("configure", g) EXCEPT !.verified = verified]
    BY <1>18 DEF I!InspectImages
  <2> DEFINE r == I!Go("configure", g)
  <2>3. /\ r \in Run /\ r.step = "configure" /\ r.faulty = run.faulty
        /\ r.ready = run.ready /\ r.held = run.held /\ r.expected = run.expected
    <3>1. "configure" \in Phase /\ g \in 0..3
      OBVIOUS
    <3> HIDE DEF Phase
    <3> QED
      BY <2>1, <3>1, GoFields
  <2> HIDE DEF r
  <2>4. run' = [r EXCEPT !.verified = verified]
    BY <2>2 DEF r
  <2>5. run' \in Run
    BY <2>3, <2>4 DEF Run
  <2>6. /\ run'.step = "configure" /\ run'.verified = verified /\ run'.faulty = run.faulty
        /\ run'.ready = run.ready /\ run'.held = run.held /\ run'.expected = run.expected
    BY <2>3, <2>4 DEF Run
  <2> QED
    BY <1>0, <2>1, <2>2, <2>5, <2>6 DEF RunInv, ExpectInv, FlagInv, GradeInv
<1>19. CASE I!ProbeStack
  <2>1. run \in Run /\ run.step = "probe" /\ run.verified /\ ~run.held /\ have' = have /\ names' = names
    BY <1>0, <1>19 DEF I!ProbeStack, I!machine, FlagInv, GradeInv
  <2>2. CASE run' = I!Go("model", I!Blocked)
    BY <1>0, <2>1, <2>2, GoKeeps
  <2>3. CASE run' = [I!Go("model", I!Passed) EXCEPT !.answered = TRUE]
    <3> DEFINE r == I!Go("model", I!Passed)
    <3>0. "model" \in Phase /\ I!Passed \in 0..3
      OBVIOUS
    <3>1. /\ r \in Run /\ r.step = "model" /\ r.verified = run.verified /\ r.faulty = run.faulty
          /\ r.ready = run.ready /\ r.held = run.held /\ r.expected = run.expected
      <4> HIDE DEF Phase, I!Passed
      <4> QED
        BY <2>1, <3>0, GoFields
    <3> HIDE DEF r
    <3>2. run' = [r EXCEPT !.answered = TRUE]
      BY <2>3 DEF r
    <3>3. run' \in Run
      BY <3>1, <3>2 DEF Run
    <3>4. /\ run'.step = "model" /\ run'.answered = TRUE /\ run'.verified = run.verified
          /\ run'.faulty = run.faulty /\ run'.ready = run.ready /\ run'.held = run.held
          /\ run'.expected = run.expected
      BY <3>1, <3>2 DEF Run
    <3> QED
      BY <1>0, <2>1, <3>3, <3>4 DEF RunInv, ExpectInv, FlagInv, GradeInv
  <2> QED
    BY <1>19, <2>2, <2>3 DEF I!ProbeStack
<1>20. CASE I!Killed
  BY <1>20 DEF I!Killed, I!Off, RunInv, ExpectInv, FlagInv, GradeInv
<1>21. ASSUME NEW archive \in Media, I!LoadArchive(archive) PROVE RunInv'
  <2>1. /\ run \in Run /\ run.step = "load" /\ ~run.verified /\ run.ready /\ run.expected # {} /\ ~run.held
        /\ have \subseteq have'
    BY <1>0, <1>21 DEF I!LoadArchive, FlagInv
  <2>2. PICK r \in Run, faulty \in BOOLEAN :
          /\ r.step = "load" /\ r.verified = run.verified /\ r.ready = run.ready
          /\ r.held = run.held /\ r.expected = run.expected
          /\ run' = [r EXCEPT !.left = run.left \ {archive}, !.faulty = faulty]
    <3>1. CASE run' = [run EXCEPT !.left = @ \ {archive}]
      <4>1. run.faulty \in BOOLEAN /\ run' = [run EXCEPT !.left = run.left \ {archive}, !.faulty = run.faulty]
        BY <2>1, <3>1 DEF Run
      <4> QED
        BY <2>1, <4>1
    <3>2. CASE run' = [I!Go("load", I!Warning) EXCEPT !.left = @ \ {archive}, !.faulty = TRUE]
      <4> DEFINE after == I!Go("load", I!Warning)
      <4>1. "load" \in Phase /\ I!Warning \in 0..3
        OBVIOUS
      <4>2. /\ after \in Run /\ after.step = "load" /\ after.verified = run.verified
            /\ after.ready = run.ready /\ after.held = run.held /\ after.expected = run.expected
        <5> HIDE DEF Phase, I!Warning
        <5> QED
          BY <2>1, <4>1, GoFields
      <4>3. after.left = run.left
        BY <2>1 DEF I!Go, Run
      <4>4. run' = [after EXCEPT !.left = run.left \ {archive}, !.faulty = TRUE]
        BY <3>2, <4>3
      <4> HIDE DEF after
      <4> QED
        BY <4>2, <4>4
    <3> QED
      BY <1>21, <3>1, <3>2 DEF I!LoadArchive
  <2>4. run.left \ {archive} \subseteq Media
    BY <2>1 DEF Run
  <2>6. run' \in Run
    BY <2>2, <2>4 DEF Run
  <2>7. /\ run'.step = "load" /\ run'.verified = run.verified /\ run'.ready = run.ready
        /\ run'.held = run.held /\ run'.expected = run.expected
    BY <2>2 DEF Run
  <2> QED
    BY <1>0, <2>1, <2>6, <2>7 DEF RunInv, ExpectInv, FlagInv, GradeInv
<1>22. ASSUME NEW o \in Options, I!Begin(o) PROVE RunInv'
  <2>1. o \in Option
    BY DesktopAssumption DEF Option
  <2>2. run' = I!Fresh(o)
    BY <1>22 DEF I!Begin
  <2>3. run' \in Run
    BY <2>1, <2>2 DEF I!Fresh, Run
  <2>4. run'.step = "runtime" /\ run'.expected = {} /\ run'.verified = FALSE /\ run'.held = FALSE
    BY <2>2 DEF I!Fresh
  <2> QED
    BY <2>3, <2>4 DEF RunInv, ExpectInv, FlagInv, GradeInv
<1> QED
  BY <1>1, <1>2, <1>3, <1>4, <1>5, <1>6, <1>7, <1>8, <1>9, <1>10, <1>11, <1>12, <1>13,
     <1>14, <1>15, <1>16, <1>17, <1>18, <1>19, <1>20, <1>21, <1>22 DEF I!Next, I!Step

(***************************************************************************)
(* The launcher.                                                           *)
(***************************************************************************)

Place == {"idle", "ready", "down", "up", "build", "rename", "asking", "waiting", "leaving"}

LEMMA ThreadIdles ==
    ASSUME thread \in [Thread -> Work], NEW t \in Thread, thread' = [thread EXCEPT ![t] = L!Idle]
    PROVE  /\ thread' \in [Thread -> Work] /\ thread'[t].at = "idle"
           /\ \A u \in Thread : u # t => thread'[u] = thread[u]
BY DEF Work, L!Idle

LEMMA ThreadMoves ==
    ASSUME thread \in [Thread -> Work], NEW t \in Thread, NEW at \in Place,
           thread' = [thread EXCEPT ![t].at = at]
    PROVE  /\ thread' \in [Thread -> Work] /\ thread'[t].at = at
           /\ \A u \in Thread : u # t => thread'[u] = thread[u]
<1>1. thread'[t] = [thread[t] EXCEPT !.at = at] /\ thread[t] \in Work
  OBVIOUS
<1>2. thread'[t] \in Work /\ thread'[t].at = at
  BY <1>1 DEF Work, Place
<1> QED
  BY <1>2

\* The thread that has the lock moves on in the same action.
LEMMA GoOnKeepsLock ==
    ASSUME thread \in [Thread -> Work], LockHeld, NEW t \in Thread, lock = t,
           NEW at \in Place, L!GoOn(t, at)
    PROVE  thread' \in [Thread -> Work] /\ LockHeld' /\ lock' = lock /\ thread'[t].at = at
           /\ \A u \in Thread : u # t => thread'[u].at = thread[u].at
<1>1. thread' = [thread EXCEPT ![t].at = at] /\ lock' = lock
  BY DEF L!GoOn
<1>2. /\ thread' \in [Thread -> Work] /\ thread'[t].at = at
      /\ \A u \in Thread : u # t => thread'[u] = thread[u]
  BY <1>1, ThreadMoves
<1> QED
  BY <1>1, <1>2 DEF LockHeld

\* It ends, and nobody has the lock.
LEMMA EndKeepsLock ==
    ASSUME thread \in [Thread -> Work], LockHeld, NEW t \in Thread, lock = t, L!End(t)
    PROVE  thread' \in [Thread -> Work] /\ LockHeld' /\ lock' = NoThread /\ thread'[t].at = "idle"
           /\ \A u \in Thread : u # t => thread'[u].at = thread[u].at
<1>1. thread' = [thread EXCEPT ![t] = L!Idle] /\ lock' = NoThread
  BY DEF L!End
<1>2. /\ thread' \in [Thread -> Work] /\ thread'[t].at = "idle"
      /\ \A u \in Thread : u # t => thread'[u] = thread[u]
  BY <1>1, ThreadIdles
<1> QED
  BY <1>1, <1>2 DEF LockHeld, L!Command

\* A docker command only brings images.
LEMMA DoneBrings ==
    ASSUME TypeOK, NEW command \in L!Command, L!Done(command) \/ L!Fails
    PROVE  /\ have \subseteq have' /\ have' \subseteq Image /\ stack' \in {"none", "up"}
           /\ L!Done("build") => "dev" \in have'
BY DEF TypeOK, L!Done, L!Fails, Image, Name, L!Command

\* What a step of the launcher leaves.
LauncherInv ==
    /\ engine \in {"absent", "down", "up"} /\ have \subseteq Image
    /\ names \in Name /\ stack \in {"none", "up"}
    /\ app \in {"closed", "open", "leaving"} /\ lock \in Thread \union {NoThread}
    /\ confirm \in BOOLEAN /\ thread \in [Thread -> Work] /\ stray \subseteq L!Command
    /\ LockHeld /\ NamedIsThere

LauncherGoal == LauncherInv' /\ have \subseteq have' /\ names' \in {names, "dev"}

LEMMA ThreadStep ==
    ASSUME TypeOK, LockHeld, NamedIsThere, NEW t \in Thread, L!Proceeds(t) PROVE LauncherGoal
<1> USE DEF Place
<1>1. /\ thread \in [Thread -> Work] /\ lock \in Thread \union {NoThread}
      /\ thread[t].at \in {"ready", "down", "up", "build", "rename"} => lock = t
  BY DEF TypeOK, LockHeld, L!Command
<1>2. CASE L!Ready(t)
  <2>1. \/ \E at \in {"down", "up"} : L!GoOn(t, at)
        \/ L!End(t)
    BY <1>2 DEF L!Ready
  <2>2. /\ thread' \in [Thread -> Work] /\ LockHeld' /\ lock' \in Thread \union {NoThread}
        /\ \A u \in Thread : thread'[u].at = "rename" => thread[u].at = "rename"
    BY <1>1, <1>2, <2>1, GoOnKeepsLock, EndKeepsLock DEF L!Ready
  <2> QED
    BY <1>2, <2>2 DEF L!Ready, L!machine, LauncherGoal, LauncherInv, TypeOK, NamedIsThere
<1>3. CASE L!DownEnds(t)
  <2>1. \/ \E at \in {"up", "leaving"} : L!GoOn(t, at)
        \/ L!End(t)
    BY <1>3 DEF L!DownEnds
  <2>2. /\ thread' \in [Thread -> Work] /\ LockHeld' /\ lock' \in Thread \union {NoThread}
        /\ \A u \in Thread : thread'[u].at = "rename" => thread[u].at = "rename"
    BY <1>1, <1>3, <2>1, GoOnKeepsLock, EndKeepsLock DEF L!DownEnds
  <2>3. have \subseteq have' /\ have' \subseteq Image /\ stack' \in {"none", "up"}
    BY <1>3, DoneBrings DEF L!DownEnds, L!Command
  <2> QED
    BY <1>3, <2>2, <2>3 DEF L!DownEnds, LauncherGoal, LauncherInv, TypeOK, NamedIsThere
<1>4. CASE L!UpEnds(t)
  <2>1. L!GoOn(t, "build") \/ L!End(t)
    BY <1>4 DEF L!UpEnds
  <2>2. /\ thread' \in [Thread -> Work] /\ LockHeld' /\ lock' \in Thread \union {NoThread}
        /\ \A u \in Thread : thread'[u].at = "rename" => thread[u].at = "rename"
    BY <1>1, <1>4, <2>1, GoOnKeepsLock, EndKeepsLock DEF L!UpEnds
  <2>3. have \subseteq have' /\ have' \subseteq Image /\ stack' \in {"none", "up"}
    BY <1>4, DoneBrings DEF L!UpEnds, L!Command
  <2> QED
    BY <1>4, <2>2, <2>3 DEF L!UpEnds, LauncherGoal, LauncherInv, TypeOK, NamedIsThere
<1>5. CASE L!BuildEnds(t)
  <2>1. have \subseteq have' /\ have' \subseteq Image /\ stack' \in {"none", "up"}
    BY <1>5, DoneBrings DEF L!BuildEnds, L!Command
  <2>2. CASE L!Done("build") /\ L!GoOn(t, "rename")
    <3>1. thread' \in [Thread -> Work] /\ LockHeld' /\ lock' \in Thread \union {NoThread}
      BY <1>1, <1>5, <2>2, GoOnKeepsLock DEF L!BuildEnds
    <3>2. "dev" \in have'
      BY <2>2, DoneBrings DEF L!Command
    <3> QED
      BY <1>5, <2>1, <3>1, <3>2 DEF L!BuildEnds, LauncherGoal, LauncherInv, TypeOK, NamedIsThere
  <2>3. CASE L!Fails /\ L!End(t)
    <3>1. /\ thread' \in [Thread -> Work] /\ LockHeld' /\ lock' \in Thread \union {NoThread}
          /\ \A u \in Thread : thread'[u].at = "rename" => thread[u].at = "rename"
      BY <1>1, <1>5, <2>3, EndKeepsLock DEF L!BuildEnds
    <3> QED
      BY <1>5, <2>1, <3>1 DEF L!BuildEnds, LauncherGoal, LauncherInv, TypeOK, NamedIsThere
  <2> QED
    BY <1>5, <2>2, <2>3 DEF L!BuildEnds
<1>6. CASE L!Rename(t)
  <2>1. /\ thread' \in [Thread -> Work] /\ LockHeld' /\ lock' \in Thread \union {NoThread}
        /\ \A u \in Thread : thread'[u].at = "rename" => thread[u].at = "rename"
    BY <1>1, <1>6, EndKeepsLock DEF L!Rename
  <2>2. "dev" \in have
    BY <1>6 DEF L!Rename, NamedIsThere
  <2> QED
    BY <1>6, <2>1, <2>2 DEF L!Rename, LauncherGoal, LauncherInv, TypeOK, NamedIsThere, Name
<1> QED
  BY <1>2, <1>3, <1>4, <1>5, <1>6 DEF L!Proceeds

LEMMA LauncherStep ==
    ASSUME TypeOK, LockHeld, NamedIsThere, L!Next PROVE LauncherGoal
<1> USE DesktopAssumption DEF Place
<1>1. /\ thread \in [Thread -> Work] /\ lock \in Thread \union {NoThread}
      /\ \A t \in Thread : thread[t].at \in L!Command \union {"ready", "rename", "leaving"} => lock = t
  BY DEF TypeOK, LockHeld
<1>2. CASE L!Launch
  BY <1>2 DEF L!Launch, L!machine, LauncherGoal, LauncherInv, TypeOK, LockHeld, NamedIsThere
<1>3. CASE L!Exit
  <2>1. thread' = [t \in Thread |-> L!Idle] /\ thread' \in [Thread -> Work]
    BY <1>3 DEF L!Exit, L!Idle, Work
  <2>2. \A t \in Thread : thread'[t].at = "idle"
    BY <2>1 DEF L!Idle
  <2>3. stray' \subseteq L!Command
    BY <1>3 DEF L!Exit, L!Running, TypeOK
  <2> QED
    BY <1>3, <2>1, <2>2, <2>3
    DEF L!Exit, L!machine, L!Command, LauncherGoal, LauncherInv, TypeOK, LockHeld, NamedIsThere
<1>4. ASSUME NEW t \in Thread \ {Closer}, NEW job \in Job, L!Act(t, job) PROVE LauncherGoal
  <2> DEFINE work == [job |-> job, at |-> IF job = "stop" THEN "down" ELSE "ready"]
  <2>1. thread' = [thread EXCEPT ![t] = work] /\ lock = NoThread /\ lock' = t
    BY <1>4 DEF L!Act
  <2>2. work \in Work /\ work.at \in {"down", "ready"}
    BY DEF Work
  <2> HIDE DEF work
  <2>3. thread' \in [Thread -> Work] /\ \A u \in Thread : thread'[u] = IF u = t THEN work ELSE thread[u]
    BY <1>1, <2>1, <2>2
  <2>4. LockHeld'
    BY <1>1, <2>1, <2>3 DEF LockHeld
  <2>5. \A u \in Thread : thread'[u].at = "rename" => thread[u].at = "rename"
    BY <2>2, <2>3
  <2> QED
    BY <1>4, <2>1, <2>3, <2>4, <2>5
    DEF L!Act, L!machine, LauncherGoal, LauncherInv, TypeOK, NamedIsThere
<1>5. ASSUME NEW t \in Thread, L!Proceeds(t) PROVE LauncherGoal
  BY <1>5, ThreadStep
<1>6. CASE L!CloseRequested
  <2> DEFINE work == [job |-> "close", at |-> "asking"]
  <2>1. thread' = [thread EXCEPT ![Closer] = work] /\ lock' = lock /\ work \in Work /\ work.at = "asking"
    BY <1>6 DEF L!CloseRequested, Work
  <2> HIDE DEF work
  <2>2. thread' \in [Thread -> Work] /\ \A u \in Thread : thread'[u] = IF u = Closer THEN work ELSE thread[u]
    BY <1>1, <2>1
  <2>3. LockHeld'
    BY <1>1, <2>1, <2>2 DEF LockHeld, L!Command
  <2>4. \A u \in Thread : thread'[u].at = "rename" => thread[u].at = "rename"
    BY <2>1, <2>2
  <2> QED
    BY <1>6, <2>1, <2>2, <2>3, <2>4
    DEF L!CloseRequested, L!machine, LauncherGoal, LauncherInv, TypeOK, NamedIsThere
<1>7. CASE L!Cancelled
  <2>1. thread' = [thread EXCEPT ![Closer] = L!Idle] /\ lock' = lock
    BY <1>7 DEF L!Cancelled
  <2>2. /\ thread' \in [Thread -> Work] /\ thread'[Closer].at = "idle"
        /\ \A u \in Thread : u # Closer => thread'[u] = thread[u]
    BY <1>1, <2>1, ThreadIdles
  <2>3. LockHeld'
    BY <1>1, <2>1, <2>2 DEF LockHeld, L!Command
  <2>4. \A u \in Thread : thread'[u].at = "rename" => thread[u].at = "rename"
    BY <2>2
  <2> QED
    BY <1>7, <2>1, <2>2, <2>3, <2>4
    DEF L!Cancelled, L!machine, LauncherGoal, LauncherInv, TypeOK, NamedIsThere
<1>8. CASE L!Confirmed
  <2>1. thread' = [thread EXCEPT ![Closer].at = "waiting"] /\ lock' = lock
    BY <1>8 DEF L!Confirmed, L!GoOn
  <2>2. /\ thread' \in [Thread -> Work] /\ thread'[Closer].at = "waiting"
        /\ \A u \in Thread : u # Closer => thread'[u] = thread[u]
    BY <1>1, <2>1, ThreadMoves
  <2>3. LockHeld'
    BY <1>1, <2>1, <2>2 DEF LockHeld, L!Command
  <2>4. \A u \in Thread : thread'[u].at = "rename" => thread[u].at = "rename"
    BY <2>2
  <2> QED
    BY <1>8, <2>1, <2>2, <2>3, <2>4
    DEF L!Confirmed, L!machine, LauncherGoal, LauncherInv, TypeOK, NamedIsThere
<1>9. CASE L!CloserLocks
  <2>1. thread' = [thread EXCEPT ![Closer].at = "down"] /\ lock = NoThread /\ lock' = Closer
    BY <1>9 DEF L!CloserLocks
  <2>2. /\ thread' \in [Thread -> Work] /\ thread'[Closer].at = "down"
        /\ \A u \in Thread : u # Closer => thread'[u] = thread[u]
    BY <1>1, <2>1, ThreadMoves
  <2>3. LockHeld'
    BY <1>1, <2>1, <2>2 DEF LockHeld
  <2>4. \A u \in Thread : thread'[u].at = "rename" => thread[u].at = "rename"
    BY <2>2
  <2> QED
    BY <1>9, <2>1, <2>2, <2>3, <2>4
    DEF L!CloserLocks, L!machine, LauncherGoal, LauncherInv, TypeOK, NamedIsThere
<1>10. CASE L!Leave
  <2>1. lock = Closer
    BY <1>1, <1>10 DEF L!Leave
  <2>2. /\ thread' \in [Thread -> Work] /\ LockHeld' /\ lock' = NoThread
        /\ \A u \in Thread : thread'[u].at = "rename" => thread[u].at = "rename"
    BY <1>1, <1>10, <2>1, EndKeepsLock DEF L!Leave
  <2> QED
    BY <1>10, <2>2 DEF L!Leave, L!machine, LauncherGoal, LauncherInv, TypeOK, NamedIsThere
<1>11. ASSUME NEW command \in L!Command, L!StrayEnds(command) PROVE LauncherGoal
  <2>1. have \subseteq have' /\ have' \subseteq Image /\ stack' \in {"none", "up"}
    BY <1>11, DoneBrings DEF L!StrayEnds
  <2> QED
    BY <1>11, <2>1 DEF L!StrayEnds, LauncherGoal, LauncherInv, TypeOK, LockHeld, NamedIsThere
<1> QED
  BY <1>2, <1>3, <1>4, <1>5, <1>6, <1>7, <1>8, <1>9, <1>10, <1>11 DEF L!Next, L!Exits, L!Crash

(***************************************************************************)
(* Both on one machine.                                                    *)
(***************************************************************************)

LEMMA Initially == Init => IInv
<1> SUFFICES ASSUME Init PROVE IInv
  OBVIOUS
<1>1. thread \in [Thread -> Work] /\ \A t \in Thread : thread[t].at = "idle"
  BY DEF Init, Work, L!Idle
<1> QED
  BY <1>1, DesktopAssumption
  DEF Init, IInv, TypeOK, LockHeld, NamedIsThere, ExpectInv, FlagInv, GradeInv, I!Off, L!Command,
      Early, Name

\* While the run of setup waits, images only come and names only become "dev".
LEMMA RunUndisturbed ==
    ASSUME RunInv, run' = run, have \subseteq have', names' \in {names, "dev"}
    PROVE  RunInv'
BY DEF RunInv, ExpectInv, FlagInv, GradeInv

LEMMA Stays == IInv /\ [Next]_vars => IInv'
<1> SUFFICES ASSUME IInv, [Next]_vars PROVE IInv'
  OBVIOUS
<1>1. TypeOK /\ LockHeld /\ NamedIsThere /\ RunInv
  BY DEF IInv, TypeOK, RunInv
<1>2. ASSUME RunInv', LauncherInv' PROVE IInv'
  BY <1>2 DEF IInv, RunInv, LauncherInv, TypeOK
<1>3. CASE I!Next /\ UNCHANGED launcher
  <2>1. RunInv'
    BY <1>1, <1>3, RunStep
  <2>2. ImagesCome
    BY <1>1, <1>3, RunMachine
  <2>3. LauncherInv'
    BY <1>1, <1>3, <2>2 DEF ImagesCome, launcher, LauncherInv, TypeOK, LockHeld, NamedIsThere, Name
  <2> QED
    BY <1>2, <2>1, <2>3
<1>4. CASE L!Next /\ UNCHANGED run
  <2>1. LauncherGoal
    BY <1>1, <1>4, LauncherStep
  <2>2. RunInv'
    BY <1>1, <1>4, <2>1, RunUndisturbed DEF LauncherGoal
  <2> QED
    BY <1>2, <2>1, <2>2 DEF LauncherGoal
<1>5. CASE (EngineStarts \/ EngineStops) /\ UNCHANGED <<run, launcher>>
  <2>1. RunInv'
    BY <1>1, <1>5, RunUndisturbed DEF EngineStarts, EngineStops
  <2>2. LauncherInv'
    BY <1>1, <1>5 DEF EngineStarts, EngineStops, launcher, LauncherInv, TypeOK, LockHeld, NamedIsThere
  <2> QED
    BY <1>2, <2>1, <2>2
<1>6. CASE Restart
  <2>1. thread' \in [Thread -> Work] /\ \A t \in Thread : thread'[t].at = "idle"
    BY <1>6 DEF Restart, Work, L!Idle
  <2>2. LauncherInv'
    BY <1>1, <1>6, <2>1 DEF Restart, LauncherInv, TypeOK, LockHeld, NamedIsThere, L!Command
  <2>3. RunInv'
    BY <1>6 DEF Restart, RunInv, ExpectInv, FlagInv, GradeInv, I!Off, Early
  <2> QED
    BY <1>2, <2>2, <2>3
<1>7. CASE UNCHANGED vars
  <2>1. RunInv'
    BY <1>1, <1>7, RunUndisturbed DEF vars, machine
  <2>2. LauncherInv'
    BY <1>1, <1>7 DEF vars, machine, launcher, LauncherInv, TypeOK, LockHeld, NamedIsThere
  <2> QED
    BY <1>2, <2>1, <2>2
<1> QED
  BY <1>3, <1>4, <1>5, <1>6, <1>7 DEF Next

LEMMA Inductive == Spec => []IInv
BY Initially, Stays, PTL DEF Spec

\* The types of the machine, the wizard's run and the launcher, whatever
\* the wizard is told and however many threads the launcher has.
THEOREM TypeCorrect == Spec => []TypeOK
<1>1. IInv => TypeOK
  BY DEF IInv
<1> QED
  BY <1>1, Inductive, PTL

\* BACKEND_ACTION_LOCK serializes the docker commands of the launcher's
\* threads, the closing one included.
THEOREM ActionsSerialized == Spec => []Serialized
<1>1. IInv => Serialized
  BY DEF IInv, LockHeld, Serialized, L!Running, L!Command
<1> QED
  BY <1>1, Inductive, PTL

\* Initialize-DockerImages claims verified images only when nothing failed
\* and all that it expects is there, and they stay.
THEOREM VerifiedAreThere == Spec => []ImagesVerified
<1>1. IInv => ImagesVerified
  BY DEF IInv, FlagInv, ImagesVerified
<1> QED
  BY <1>1, Inductive, PTL

\* Whatever the media hold and whatever the launcher renames between the
\* image phase and the stack phase, setup's docker compose up needs no
\* registry once this release's images were among the verified ones and the
\* compose .env does not name an earlier release's.
THEOREM StartsOffline == Spec => []NoPullNeeded
<1>1. IInv => NoPullNeeded
  <2> SUFFICES ASSUME IInv, run.step = "stack", run.verified, "release" \in run.expected, names # "old"
               PROVE  names \in have
    BY DEF NoPullNeeded
  <2>1. names \in {"release", "dev"} /\ (names = "dev" => "dev" \in have)
    BY DEF IInv, TypeOK, NamedIsThere, Name
  <2>2. run.expected \subseteq have
    BY DEF IInv, FlagInv
  <2> QED
    BY <2>1, <2>2
<1> QED
  BY <1>1, Inductive, PTL

\* Write-SetupSummary reports passed or warning for a setup that was to
\* start the stack only when the stack answered on verified images.
THEOREM ResultHonest == Spec => []HonestResult
<1>1. IInv => HonestResult
  BY DEF IInv, GradeInv, HonestResult
<1> QED
  BY <1>1, Inductive, PTL

\* Images are loaded or pulled and the stack is started only after this run
\* saw Docker ready, and never in a run that WSL holds up.
THEOREM GatesHold == Spec => Gates
<1> DEFINE gated == (\E archive \in Media : I!LoadArchive(archive)) \/ I!PullImages \/ I!ComposeUp
                       => run.ready /\ ~run.held
<1>1. IInv /\ [Next]_vars => [gated]_vars
  <2> SUFFICES ASSUME IInv PROVE gated
    OBVIOUS
  <2>1. ASSUME run.step \in {"load", "pull"} PROVE run.ready /\ ~run.held
    BY <2>1 DEF IInv, FlagInv, Handling
  <2>2. ASSUME run.step = "stack", run.verified PROVE run.ready /\ ~run.held
    BY <2>2 DEF IInv, FlagInv
  <2> QED
    BY <2>1, <2>2 DEF I!LoadArchive, I!PullImages, I!ComposeUp
<1> QED
  BY <1>1, Inductive, PTL DEF Spec, Gates

(***************************************************************************)
(* Nothing goes on for ever.                                               *)
(***************************************************************************)

\* The phase after Go, and after what some phases note besides.
LEMMA GoPhase ==
    ASSUME run \in Run, NEW s \in Phase, NEW g
    PROVE  /\ I!Go(s, g).step = s /\ I!Go(s, g).left = run.left
           /\ [I!Go(s, g) EXCEPT !.held = TRUE].step = s
           /\ [I!Go(s, g) EXCEPT !.ready = TRUE].step = s
           /\ [I!Go(s, g) EXCEPT !.answered = TRUE].step = s
           /\ \A e, l : [I!Go(s, g) EXCEPT !.expected = e].step = s
                        /\ [I!Go(s, g) EXCEPT !.expected = e, !.left = l].step = s
           /\ [I!Go(s, g) EXCEPT !.faulty = TRUE].step = s
           /\ \A v : [I!Go(s, g) EXCEPT !.verified = v].step = s
<1> DEFINE grade == IF g > run.grade THEN g ELSE run.grade
           next == [run EXCEPT !.step = s, !.grade = grade]
<1>1. I!Go(s, g) = next
  BY DEF I!Go
<1> HIDE DEF grade
<1>2. next.step = s /\ next.left = run.left
  BY DEF Run
<1>3. next = [f \in DOMAIN run |-> IF f = "step" THEN s ELSE IF f = "grade" THEN grade ELSE run[f]]
      /\ "step" \in DOMAIN run
  BY DEF Run
<1>4. DOMAIN next = DOMAIN run
  BY <1>3
<1> HIDE DEF next
<1> QED
  BY <1>1, <1>2, <1>3, <1>4

LEMMA Onwards ==
    ASSUME TypeOK, I!Step
    PROVE  \/ Remaining(run'.step) < Remaining(run.step)
           \/ run'.step = run.step /\ run'.left \subseteq run.left /\ run'.left # run.left
<1>0. run \in Run
  BY RunIsRun
     DEF TypeOK, I!Off, I!Step, I!Runtime, I!WslUsable, I!WslBlocks, I!DockerSkipped, I!DockerPresent, I!InstallDocker,
         I!DockerUnsupported, I!DockerReady, I!DockerNotReady, I!NoImages, I!PrepareImages, I!PullImages,
         I!InspectImages, I!LoadArchive, I!Configure, I!StackSkipped, I!ComposeUp, I!ProbeStack, I!ModelDownload, I!Throws
<1> USE DEF Phase, I!Fine
<1>1. CASE I!Runtime \/ I!WslUsable \/ I!WslBlocks
  <2>1. I!Runtime => run.step = "runtime" /\ run'.step \in {"wsl", "docker"}
    BY <1>0, GoPhase DEF I!Runtime
  <2>2. I!WslUsable => run.step = "wsl" /\ run'.step = "docker"
    BY <1>0, GoPhase DEF I!WslUsable
  <2>3. I!WslBlocks => run.step = "wsl" /\ run'.step = "configure"
    BY <1>0, GoPhase DEF I!WslBlocks
  <2> QED
    BY <1>1, <2>1, <2>2, <2>3 DEF Remaining
<1>2. CASE I!DockerSkipped \/ I!DockerPresent \/ I!InstallDocker \/ I!DockerUnsupported
  <2>1. \/ run.step = "docker" /\ run'.step \in {"images", "wait", "recheck", "configure"}
        \/ run.step = "repair" /\ run'.step \in {"recheck", "configure"}
    BY <1>0, <1>2, GoPhase DEF I!DockerSkipped, I!DockerPresent, I!InstallDocker, I!DockerUnsupported
  <2> QED
    BY <2>1 DEF Remaining
<1>3. CASE I!DockerReady \/ I!DockerNotReady
  <2>1. I!DockerReady => run.step \in {"wait", "recheck"} /\ run'.step = "images"
    BY <1>0, GoPhase DEF I!DockerReady
  <2>2. ASSUME I!DockerNotReady
        PROVE  \/ run.step = "wait" /\ run'.step \in {"repair", "configure"}
               \/ run.step = "recheck" /\ run'.step = "configure"
    <3>1. I!Go("repair", I!Warning).step = "repair" /\ I!Go("configure", I!Blocked).step = "configure"
      BY <1>0, GoPhase
    <3>2. CASE run' = I!Go("repair", I!Warning) /\ run.step = "wait"
      BY <3>1, <3>2
    <3>3. CASE run' = I!Go("configure", I!Blocked) /\ run.step \in {"wait", "recheck"}
      BY <3>1, <3>3
    <3> QED
      BY <2>2, <3>2, <3>3 DEF I!DockerNotReady
  <2> QED
    BY <1>3, <2>1, <2>2 DEF Remaining
<1>4. CASE I!NoImages \/ I!PrepareImages
  <2>1. I!NoImages => run.step = "images" /\ run'.step = "configure"
    BY <1>0, GoPhase DEF I!NoImages
  <2>2. I!PrepareImages => run.step = "images" /\ run'.step \in {"pull", "load"}
    <3> DEFINE pull == I!Go("pull", I!Passed)
               load == I!Go("load", I!Passed)
    <3>1. ASSUME NEW e, NEW l
          PROVE  [pull EXCEPT !.expected = e].step = "pull" /\ [load EXCEPT !.expected = e, !.left = l].step = "load"
      BY <1>0, GoPhase
    <3> SUFFICES ASSUME I!PrepareImages PROVE run.step = "images" /\ run'.step \in {"pull", "load"}
      OBVIOUS
    <3>2. PICK e \in I!Expectable :
              IF run.opt.source = "online" THEN run' = [pull EXCEPT !.expected = e]
              ELSE \E l \in (SUBSET Media) \ {{}} : run' = [load EXCEPT !.expected = e, !.left = l]
      BY DEF I!PrepareImages
    <3>3. CASE run.opt.source = "online"
      BY <3>1, <3>2, <3>3 DEF I!PrepareImages
    <3>4. CASE run.opt.source # "online"
      <4>1. PICK l \in (SUBSET Media) \ {{}} : run' = [load EXCEPT !.expected = e, !.left = l]
        BY <3>2, <3>4
      <4>2. run'.step = "load"
        BY <3>1, <4>1
      <4> QED
        BY <4>2 DEF I!PrepareImages
    <3> QED
      BY <3>3, <3>4
  <2> QED
    BY <1>4, <2>1, <2>2 DEF Remaining
<1>5. ASSUME NEW archive \in Media, I!LoadArchive(archive)
      PROVE  run'.step = run.step /\ run'.left \subseteq run.left /\ run'.left # run.left
  <2>1. /\ archive \in run.left /\ run.step = "load"
        /\ \/ run' = [run EXCEPT !.left = @ \ {archive}]
           \/ run' = [I!Go("load", I!Warning) EXCEPT !.left = @ \ {archive}, !.faulty = TRUE]
    BY <1>5 DEF I!LoadArchive
  <2>2. run'.step = run.step /\ run'.left = run.left \ {archive}
    <3>1. CASE run' = [run EXCEPT !.left = @ \ {archive}]
      BY <1>0, <3>1 DEF Run
    <3>2. CASE run' = [I!Go("load", I!Warning) EXCEPT !.left = @ \ {archive}, !.faulty = TRUE]
      <4> DEFINE next == I!Go("load", I!Warning)
      <4>1. next.step = "load" /\ next.left = run.left /\ next \in Run
        BY <1>0, GoPhase, GoFields DEF I!Warning
      <4> HIDE DEF next
      <4>2. run' = [next EXCEPT !.left = @ \ {archive}, !.faulty = TRUE]
        BY <3>2 DEF next
      <4> QED
        BY <2>1, <4>1, <4>2 DEF Run
    <3> QED
      BY <2>1, <3>1, <3>2
  <2> QED
    BY <2>1, <2>2
<1>6. CASE I!PullImages \/ I!InspectImages
  <2>1. I!PullImages => run.step = "pull" /\ run'.step = "inspect"
    <3>1. I!Go("inspect", I!Passed).step = "inspect" /\ [I!Go("inspect", I!Warning) EXCEPT !.faulty = TRUE].step = "inspect"
      BY <1>0, GoPhase
    <3>2. I!PullImages => /\ run.step = "pull"
                         /\ \/ run' = I!Go("inspect", I!Passed)
                            \/ run' = [I!Go("inspect", I!Warning) EXCEPT !.faulty = TRUE]
      BY DEF I!PullImages
    <3> QED
      BY <3>1, <3>2
  <2>2. I!InspectImages => run.step \in {"load", "inspect"} /\ run'.step = "configure"
    BY <1>0, GoPhase DEF I!InspectImages
  <2> QED
    BY <1>6, <2>1, <2>2 DEF Remaining
<1>7. CASE I!Configure \/ I!StackSkipped \/ I!ComposeUp \/ I!ProbeStack \/ I!ModelDownload
  <2>1. I!Configure => run.step = "configure" /\ run'.step \in {"stack", "done"}
    BY <1>0, GoPhase DEF I!Configure
  <2>2. I!StackSkipped \/ I!ComposeUp => run.step = "stack" /\ run'.step \in {"probe", "model"}
    BY <1>0, GoPhase DEF I!StackSkipped, I!ComposeUp
  <2>3. I!ProbeStack => run.step = "probe" /\ run'.step = "model"
    <3>1. [I!Go("model", I!Passed) EXCEPT !.answered = TRUE].step = "model" /\ I!Go("model", I!Blocked).step = "model"
      BY <1>0, GoPhase
    <3>2. I!ProbeStack => /\ run.step = "probe"
                         /\ \/ run' = [I!Go("model", I!Passed) EXCEPT !.answered = TRUE]
                            \/ run' = I!Go("model", I!Blocked)
      BY DEF I!ProbeStack
    <3> QED
      BY <3>1, <3>2
  <2>4. I!ModelDownload => run.step = "model" /\ run'.step = "done"
    BY <1>0, GoPhase DEF I!ModelDownload
  <2> QED
    BY <1>7, <2>1, <2>2, <2>3, <2>4 DEF Remaining
<1>8. CASE I!Throws
  <2>1. run.step \in Phase \ {"done"} /\ run'.step = "done"
    BY <1>0, <1>8, GoPhase DEF I!Throws, Run
  <2> QED
    BY <2>1 DEF Remaining
<1> QED
  BY <1>1, <1>2, <1>3, <1>4, <1>5, <1>6, <1>7, <1>8 DEF I!Step

\* Invoke-HyperSearchInstallation goes through its phases once, with one repair pass for Docker and
\* one attempt per archive, and so comes to its summary.
THEOREM SetupIsFinite == Spec => SetupEnds
<1>1. TypeOK /\ [Next]_vars =>
          [I!Step => \/ Remaining(run'.step) < Remaining(run.step)
                     \/ run'.step = run.step /\ run'.left \subseteq run.left /\ run'.left # run.left]_vars
  BY Onwards
<1> QED
  BY <1>1, TypeCorrect, PTL DEF Spec, SetupEnds

LEMMA Shorter ==
    ASSUME TypeOK, NEW t \in Thread, L!Proceeds(t)
    PROVE  Left(thread'[t].at) < Left(thread[t].at)
<1>1. \A at \in Place : L!GoOn(t, at) => thread'[t].at = at
  BY ThreadMoves DEF TypeOK, L!GoOn
<1>2. L!End(t) => thread'[t].at = "idle"
  BY ThreadIdles DEF TypeOK, L!End
<1>3. \/ thread[t].at = "ready" /\ thread'[t].at \in {"down", "up", "idle"}
      \/ thread[t].at = "down" /\ thread'[t].at \in {"up", "leaving", "idle"}
      \/ thread[t].at = "up" /\ thread'[t].at \in {"build", "idle"}
      \/ thread[t].at = "build" /\ thread'[t].at \in {"rename", "idle"}
      \/ thread[t].at = "rename" /\ thread'[t].at = "idle"
  BY <1>1, <1>2 DEF L!Proceeds, L!Ready, L!DownEnds, L!UpEnds, L!BuildEnds, L!Rename, Place
<1> QED
  BY <1>3 DEF Left

\* An action under BACKEND_ACTION_LOCK takes at most five steps.
THEOREM ActionsAreFinite == Spec => ActionsEnd
<1>1. TypeOK /\ [Next]_vars =>
          [\A t \in Thread : L!Proceeds(t) => Left(thread'[t].at) < Left(thread[t].at)]_vars
  BY Shorter
<1> QED
  BY <1>1, TypeCorrect, PTL DEF Spec, ActionsEnd

(***************************************************************************)
(* Whoever has the lock can go on.                                         *)
(***************************************************************************)

\* What each thread does: only the closing one asks, waits and leaves, and only while
\* CLOSE_CONFIRM_ACTIVE is set.
Duties ==
    /\ thread[Closer].at # "idle" => confirm
    /\ \A t \in Thread :
           /\ thread[t].at = "down" => thread[t].job \in {"stop", "restart", "close"}
           /\ thread[t].at \in {"asking", "waiting"} => thread[t].job = "close"
           /\ thread[t].job = "close" \/ thread[t].at = "leaving" => t = Closer

HolderInv == HolderProceeds /\ Duties

\* A step of a thread that leaves the others alone.
LEMMA Alone ==
    ASSUME TypeOK, HolderInv, NEW t \in Thread, NEW work, thread' = [thread EXCEPT ![t] = work],
           t = Closer /\ work.at # "idle" => confirm',
           t # Closer => confirm' = confirm,
           work.at = "down" => work.job \in {"stop", "restart", "close"},
           work.at \in {"asking", "waiting"} => work.job = "close",
           work.job = "close" \/ work.at = "leaving" => t = Closer,
           \/ lock' = NoThread
           \/ lock' = lock /\ lock # t
           \/ lock' = t /\ work.at \in {"ready", "up", "build", "rename", "down", "leaving"}
    PROVE  HolderInv'
<1>1. thread'[t] = work /\ \A u \in Thread \ {t} : thread'[u] = thread[u]
  BY DEF TypeOK
<1>2. Duties'
  BY <1>1, DesktopAssumption DEF HolderInv, Duties
<1>3. lock' \in Thread \union {NoThread}
  BY DEF TypeOK
<1>4. HolderProceeds'
  BY <1>1, <1>2, <1>3 DEF HolderInv, HolderProceeds, Duties
<1> QED
  BY <1>2, <1>4 DEF HolderInv

LEMMA HolderStays == TypeOK /\ LockHeld /\ HolderInv /\ [Next]_vars => HolderInv'
<1> SUFFICES ASSUME TypeOK, LockHeld, HolderInv, [Next]_vars PROVE HolderInv'
  OBVIOUS
<1> USE DesktopAssumption
<1>0. /\ thread \in [Thread -> Work] /\ lock \in Thread \union {NoThread}
      /\ \A t \in Thread : thread[t].at \in {"ready", "down", "up", "build", "rename", "leaving"} => lock = t
  BY DEF TypeOK, LockHeld, L!Command
<1>1. CASE UNCHANGED launcher
  BY <1>1 DEF launcher, HolderInv, HolderProceeds, Duties
<1>2. CASE L!Launch
  BY <1>2 DEF L!Launch, HolderInv, HolderProceeds, Duties
<1>3. CASE thread' = [t \in Thread |-> L!Idle] /\ lock' = NoThread
  BY <1>3 DEF L!Idle, HolderInv, HolderProceeds, Duties
<1>4. ASSUME NEW t \in Thread \ {Closer}, NEW job \in Job, L!Act(t, job) PROVE HolderInv'
  <2> DEFINE work == [job |-> job, at |-> IF job = "stop" THEN "down" ELSE "ready"]
  <2>1. /\ thread' = [thread EXCEPT ![t] = work] /\ lock' = t /\ confirm' = confirm
        /\ work.at \in {"down", "ready"} /\ work.job = job
        /\ work.at = "down" => job = "stop"
    BY <1>4 DEF L!Act
  <2>2. job # "close"
    OBVIOUS
  <2> HIDE DEF work
  <2> QED
    BY <2>1, <2>2, Alone
<1>5. ASSUME NEW t \in Thread, NEW at, L!GoOn(t, at), confirm' = confirm, thread[t].at # "idle",
             (at \in {"down", "up", "build", "rename", "leaving"} /\ lock = t) \/ at = "waiting",
             at = "waiting" => lock # t /\ thread[t].at = "asking",
             at = "down" => thread[t].job = "restart",
             at = "leaving" => thread[t].job = "close"
      PROVE  HolderInv'
  <2> DEFINE work == [thread[t] EXCEPT !.at = at]
  <2>1. thread' = [thread EXCEPT ![t] = work] /\ work.at = at /\ work.job = thread[t].job /\ lock' = lock
    BY <1>0, <1>5 DEF L!GoOn, Work
  <2>2. /\ thread[t].at = "asking" => thread[t].job = "close"
        /\ thread[t].job = "close" => t = Closer
        /\ thread[Closer].at # "idle" => confirm
    BY DEF HolderInv, Duties
  <2> HIDE DEF work
  <2> QED
    BY <1>5, <2>1, <2>2, Alone
<1>6. ASSUME NEW t \in Thread, L!End(t), confirm' = confirm PROVE HolderInv'
  <2>1. thread' = [thread EXCEPT ![t] = L!Idle] /\ lock' = NoThread
    BY <1>6 DEF L!End
  <2>2. L!Idle.at = "idle" /\ L!Idle.job = "none"
    BY DEF L!Idle
  <2> HIDE DEF L!Idle
  <2> QED
    BY <1>6, <2>1, <2>2, Alone
<1>7. ASSUME NEW t \in Thread, L!Proceeds(t) PROVE HolderInv'
  <2>1. confirm' = confirm /\ lock = t /\ thread[t].at # "idle"
    BY <1>0, <1>7 DEF L!Proceeds, L!Ready, L!DownEnds, L!UpEnds, L!BuildEnds, L!Rename
  <2>2. \/ L!End(t)
        \/ L!GoOn(t, "down") /\ thread[t].job = "restart"
        \/ L!GoOn(t, "up") \/ L!GoOn(t, "build") \/ L!GoOn(t, "rename")
        \/ L!GoOn(t, "leaving") /\ thread[t].job = "close"
    BY <1>7 DEF L!Proceeds, L!Ready, L!DownEnds, L!UpEnds, L!BuildEnds, L!Rename
  <2> QED
    BY <1>5, <1>6, <2>1, <2>2
<1>8. CASE L!CloseRequested
  <2> DEFINE work == [job |-> "close", at |-> "asking"]
  <2>1. /\ thread' = [thread EXCEPT ![Closer] = work] /\ lock' = lock /\ confirm' = TRUE /\ ~confirm
        /\ work.job = "close" /\ work.at = "asking"
    BY <1>8 DEF L!CloseRequested
  <2>2. lock # Closer
    BY <2>1 DEF HolderInv, HolderProceeds, Duties
  <2> HIDE DEF work
  <2> QED
    BY <2>1, <2>2, Alone
<1>9. CASE L!Cancelled
  <2>1. thread' = [thread EXCEPT ![Closer] = L!Idle] /\ lock' = lock /\ thread[Closer].at = "asking"
    BY <1>9 DEF L!Cancelled
  <2>2. lock # Closer
    BY <2>1 DEF HolderInv, HolderProceeds
  <2>3. L!Idle.at = "idle" /\ L!Idle.job = "none"
    BY DEF L!Idle
  <2> HIDE DEF L!Idle
  <2> QED
    BY <2>1, <2>2, <2>3, Alone
<1>10. CASE L!Confirmed
  <2>1. L!GoOn(Closer, "waiting") /\ thread[Closer].at = "asking" /\ confirm' = confirm
    BY <1>10 DEF L!Confirmed
  <2>2. lock # Closer
    BY <2>1 DEF HolderInv, HolderProceeds
  <2> QED
    BY <1>5, <2>1, <2>2
<1>11. CASE L!CloserLocks
  <2> DEFINE work == [thread[Closer] EXCEPT !.at = "down"]
  <2>1. /\ thread' = [thread EXCEPT ![Closer] = work] /\ lock' = Closer /\ confirm' = confirm
        /\ work.at = "down" /\ work.job = thread[Closer].job /\ thread[Closer].at = "waiting"
    BY <1>0, <1>11 DEF L!CloserLocks, Work
  <2>2. thread[Closer].job = "close" /\ confirm
    BY <2>1 DEF HolderInv, Duties
  <2> HIDE DEF work
  <2> QED
    BY <2>1, <2>2, Alone
<1>12. CASE L!Leave
  BY <1>6, <1>12 DEF L!Leave
<1>13. ASSUME NEW command, L!StrayEnds(command) PROVE HolderInv'
  BY <1>13 DEF L!StrayEnds, HolderInv, HolderProceeds, Duties
<1> QED
  BY <1>1, <1>2, <1>3, <1>4, <1>7, <1>8, <1>9, <1>10, <1>11, <1>12, <1>13
     DEF Next, vars, launcher, Restart, L!Next, L!Exits, L!Crash, L!Exit

\* No thread of the launcher finds BACKEND_ACTION_LOCK taken for good, the closing one, which waits
\* for it, included: as long as it is taken, the thread that has it can go on.
THEOREM LockIsWorked == Spec => []HolderProceeds
<1>1. Init => HolderInv
  BY DesktopAssumption DEF Init, HolderInv, HolderProceeds, Duties, L!Idle
<1>2. IInv => TypeOK /\ LockHeld
  BY DEF IInv
<1>3. HolderInv => HolderProceeds
  BY DEF HolderInv
<1> QED
  BY <1>1, <1>2, <1>3, HolderStays, Inductive, PTL DEF Spec
=============================================================================
