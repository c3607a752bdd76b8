---------------------------- MODULE StorageProofs ---------------------------
(***************************************************************************)
(* Proofs about the database, for any number of threads, profiles, rows    *)
(* and presets and any sequence of crashes and failing statements.         *)
(***************************************************************************)
EXTENDS Storage, TLAPS

\* What the argument of each call is.
LEMMA CallShape ==
    ASSUME NEW c \in Call
    PROVE  /\ c.op \in {"default", "demote", "appoint", "set", "write", "delete", "save", "drop", "vacuum"}
           /\ c.op \in {"default", "demote", "appoint"} => c.arg \in Provider
           /\ c.op = "write" => c.arg \in Entry
           /\ c.op = "delete" => c.arg \subseteq Entry
           /\ c.op = "save" => c.arg \in Name
           /\ c.op = "drop" => c.arg \in Preset
           /\ c \in LoopCall => c.op \in {"default", "demote", "appoint", "set"}
BY DEF Call, LoopCall

\* The scripts are short sequences.
LEMMA ScriptShape ==
    ASSUME NEW v \in Version
    PROVE  /\ Len(Script[v]) \in 1..3
           /\ DOMAIN Script[v] = 1..Len(Script[v])
BY DEF Version, Script

LEMMA InsideShape == Statement \subseteq Inside /\ "commit" \in Inside /\ "idle" \notin Inside /\ "waiting" \notin Inside
                     /\ "done" \notin Inside /\ "failed" \notin Inside /\ "commit" \notin Statement
BY DEF Inside, Statement

(***************************************************************************)
(* Initial states, and steps that leave part of the state alone.           *)
(***************************************************************************)

LEMMA InitHolds == ASSUME Init PROVE IInv
<1>1. PICK n \in 0..3 : recorded = 1..n
  BY DEF Init
<1>2. recorded \subseteq Version
  BY <1>1 DEF Version
<1>3. PICK presets \in [Preset -> Name \union {Absent}] :
          disk = [profiles |-> {}, defaults |-> {}, history |-> {}, presets |-> presets]
  BY DEF Init
<1>4. disk \in Tables /\ disk.history = {}
  BY <1>3 DEF Tables
<1>5. TypeOK
  <2>1. schema \subseteq UNION {Objects(v) : v \in Version}
    BY <1>2 DEF Init
  <2>2. \A t \in Thread : pc[t] = "idle"
    BY DEF Init
  <2>3. \A t \in Thread : owner = t <=> pc[t] \in Inside
    BY <2>2, InsideShape, SentinelAssumption DEF Init
  <2>4. boot \in {"down", "migrating", "up", "closing"} /\ version \in 1..4 /\ line \in 0..4 /\ pending \subseteq Version
    BY DEF Init
  <2>5. /\ view \in Tables /\ open \in BOOLEAN /\ dirty \in BOOLEAN /\ owner \in Thread \union {NoThread}
        /\ owed \subseteq Entry
    BY <1>4 DEF Init
  <2>6. pc \in [Thread -> Inside \union {"idle", "waiting", "done", "failed"}]
    BY DEF Init
  <2>7. /\ call \in [Thread -> Call \union {NoCall}] /\ preset \in [Thread -> Preset \union {Absent}]
        /\ orphan \in [Thread -> BOOLEAN]
    BY DEF Init
  <2> QED
    BY <1>2, <1>4, <2>1, <2>3, <2>4, <2>5, <2>6, <2>7 DEF TypeOK
<1>6. UpIsRecorded
  BY DEF Init, UpIsRecorded
<1>7. Migrated
  BY DEF Init, Migrated
<1>8. Seen
  BY <1>4 DEF Init, Seen
<1>9. \A t \in Thread : Working(t)
  BY DEF Init, Working, Inside, Statement
<1> QED
  BY <1>5, <1>6, <1>7, <1>8, <1>9 DEF IInv

\* A step of the migrations leaves the tables and the threads alone.
LEMMA ThreadsStay ==
    ASSUME IInv, UNCHANGED <<transaction, threads, owed>>
    PROVE  Seen' /\ \A t \in Thread : Working(t)'
<1>1. Seen'
  BY DEF IInv, Seen, transaction, threads
<1>2. \A t \in Thread : Working(t)'
  <2> SUFFICES ASSUME NEW t \in Thread PROVE Working(t)'
    OBVIOUS
  <2>1. Working(t) /\ UNCHANGED <<disk, view, open, dirty, owner, pc, call, preset, orphan>>
    BY DEF IInv, transaction, threads
  <2>2. Progress(t)' <=> Progress(t)
    BY <2>1 DEF Progress, Effect, Named
  <2> QED
    BY <2>1, <2>2 DEF Working, Named
<1> QED
  BY <1>1, <1>2

\* A call leaves the migrations alone.
LEMMA MigrationStays ==
    ASSUME IInv, UNCHANGED <<boot, migration>>
    PROVE  UpIsRecorded' /\ Migrated'
BY DEF IInv, migration, UpIsRecorded, Migrated

\* Only who holds the lock changes what others build on.
LEMMA OthersWork ==
    ASSUME IInv, NEW t \in Thread, owner = t \/ UNCHANGED <<view, disk, dirty>>,
           \A s \in Thread \ {t} : /\ pc'[s] = pc[s] /\ call'[s] = call[s]
                                   /\ preset'[s] = preset[s] /\ orphan'[s] = orphan[s],
           Working(t)'
    PROVE  \A s \in Thread : Working(s)'
<1> SUFFICES ASSUME NEW s \in Thread \ {t} PROVE Working(s)'
  OBVIOUS
<1>1. Working(s) /\ UNCHANGED <<pc[s], call[s], preset[s], orphan[s]>>
  BY DEF IInv
<1>2. CASE UNCHANGED <<view, disk, dirty>>
  <2>1. Progress(s)' <=> Progress(s)
    BY <1>1, <1>2 DEF Progress, Effect, Named
  <2> QED
    BY <1>1, <1>2, <2>1 DEF Working, Named
<1>3. CASE owner = t
  <2>1. pc[s] \notin Inside
    BY <1>3 DEF IInv, TypeOK
  <2>2. /\ pc[s] \notin Statement /\ pc[s] \notin {"clear", "rename", "dedupe", "add", "commit"}
    BY <2>1 DEF Inside, Statement
  <2> QED
    BY <1>1, <2>1, <2>2 DEF Working
<1> QED
  BY <1>2, <1>3

\* Moving t alone keeps the lock where it belongs.
LEMMA LockStays ==
    ASSUME IInv, NEW t \in Thread, NEW where \in Inside \union {"idle", "waiting", "done", "failed"},
           Goto(t, where),
           \/ where \in Inside /\ owner' = t /\ owner \in {t, NoThread}
           \/ where \notin Inside /\ owner' = NoThread /\ owner \in {t, NoThread}
           \/ where \notin Inside /\ pc[t] \notin Inside /\ owner' = owner
    PROVE  /\ pc' \in [Thread -> Inside \union {"idle", "waiting", "done", "failed"}]
           /\ owner' \in Thread \union {NoThread}
           /\ \A s \in Thread : owner' = s <=> pc'[s] \in Inside
           /\ pc'[t] = where /\ \A s \in Thread \ {t} : pc'[s] = pc[s]
<1>1. pc' = [pc EXCEPT ![t] = where]
  BY DEF Goto
<1>2. pc' \in [Thread -> Inside \union {"idle", "waiting", "done", "failed"}]
  BY <1>1 DEF IInv, TypeOK
<1>3. pc'[t] = where /\ \A s \in Thread \ {t} : pc'[s] = pc[s]
  BY <1>1 DEF IInv, TypeOK
<1>4. \A s \in Thread : owner = s <=> pc[s] \in Inside
  BY DEF IInv, TypeOK
<1>5. owner' \in Thread \union {NoThread}
  BY DEF IInv, TypeOK
<1>6. \A s \in Thread : owner' = s <=> pc'[s] \in Inside
  BY <1>3, <1>4, SentinelAssumption
<1> QED
  BY <1>2, <1>3, <1>5, <1>6

(***************************************************************************)
(* The migrations.                                                         *)
(***************************************************************************)

\* What else a step of the migrations keeps.
LEMMA MigrateKeeps ==
    ASSUME IInv, UNCHANGED <<transaction, threads, owed>>,
           boot' \in {"migrating", "up"}, version' \in 1..4, line' \in 0..4,
           recorded' \subseteq Version, pending' \subseteq Version,
           schema' \subseteq UNION {Objects(v) : v \in Version},
           UpIsRecorded', Migrated'
    PROVE  IInv'
<1>1. Seen' /\ \A t \in Thread : Working(t)'
  BY ThreadsStay
<1>2. TypeOK'
  BY DEF IInv, TypeOK, transaction, threads
<1> QED
  BY <1>1, <1>2 DEF IInv

LEMMA StartKeeps == ASSUME IInv, Start PROVE IInv'
<1>1. /\ UNCHANGED <<recorded, pending, schema>> /\ UNCHANGED <<transaction, threads, owed>>
      /\ boot' = "migrating" /\ version' = 1 /\ line' = 0
  BY DEF Start
<1>2. Migrated'
  BY <1>1, ScriptShape DEF IInv, Migrated, Version
<1>3. UpIsRecorded'
  BY <1>1 DEF UpIsRecorded
<1> QED
  BY <1>1, <1>2, <1>3, MigrateKeeps DEF IInv, TypeOK

LEMMA CheckMigrationKeeps == ASSUME IInv, CheckMigration PROVE IInv'
<1>1. /\ UNCHANGED <<boot, schema>> /\ UNCHANGED <<transaction, threads, owed>>
      /\ boot = "migrating" /\ version \in Version /\ line = 0
  BY DEF CheckMigration
<1>2. recorded' \union pending' = recorded \union pending /\ recorded' \subseteq Version /\ pending' \subseteq Version
  BY DEF IInv, TypeOK, CheckMigration
<1>3. UpIsRecorded'
  BY <1>1 DEF UpIsRecorded
<1>4. /\ version' \in 1..4 /\ line' \in 0..1
      /\ version' = version \/ (version' = version + 1 /\ version \in recorded \union pending)
  BY <1>1 DEF CheckMigration, Version
<1>5. Migrated'
  <2>1. \A v \in Version : v < version' => v \in recorded' \union pending'
    BY <1>1, <1>2, <1>4 DEF IInv, Migrated, Version
  <2>2. \A v \in recorded' \union pending' : Objects(v) \subseteq schema'
    BY <1>1, <1>2 DEF IInv, Migrated
  <2>3. \A v \in Version : line' <= Len(Script[v]) + 1
    BY <1>4, ScriptShape
  <2>4. \A i \in 1..(line' - 1) : FALSE
    <3>1. line' = 0 \/ line' = 1
      BY <1>4
    <3> QED
      BY <3>1
  <2> QED
    BY <1>1, <2>1, <2>2, <2>3, <2>4 DEF Migrated
<1> QED
  BY <1>1, <1>2, <1>3, <1>4, <1>5, MigrateKeeps DEF IInv, TypeOK

LEMMA RunStatementKeeps == ASSUME IInv, RunStatement PROVE IInv'
<1>1. /\ UNCHANGED <<boot, version, recorded, pending>> /\ UNCHANGED <<transaction, threads, owed>>
      /\ boot = "migrating" /\ version \in Version /\ line \in DOMAIN Script[version]
      /\ line' = line + 1 /\ schema' = schema \union {Script[version][line]}
  BY DEF RunStatement
<1>2. line \in 1..Len(Script[version]) /\ Len(Script[version]) \in 1..3
  BY <1>1, ScriptShape
<1>3. Script[version][line] \in Objects(version)
  BY <1>1 DEF Objects
<1>4. UpIsRecorded'
  BY <1>1 DEF UpIsRecorded
<1>5. Migrated'
  <2>1. \A v \in recorded' \union pending' : Objects(v) \subseteq schema'
    BY <1>1 DEF IInv, Migrated
  <2>2. \A i \in 1..(line' - 1) : Script[version][i] \in schema'
    <3>1. \A i \in 1..(line' - 1) : i \in 1..(line - 1) \/ i = line
      BY <1>1, <1>2
    <3>2. \A i \in 1..(line - 1) : Script[version][i] \in schema
      BY <1>1 DEF IInv, Migrated
    <3> QED
      BY <1>1, <3>1, <3>2
  <2>3. line' <= Len(Script[version]) + 1
    BY <1>1, <1>2
  <2> QED
    BY <1>1, <2>1, <2>2, <2>3 DEF IInv, Migrated
<1>6. schema' \subseteq UNION {Objects(v) : v \in Version}
  BY <1>1, <1>3 DEF IInv, TypeOK
<1>7. line' \in 0..4
  BY <1>1, <1>2
<1> QED
  BY <1>1, <1>4, <1>5, <1>6, <1>7, MigrateKeeps DEF IInv, TypeOK

LEMMA RecordMigrationKeeps == ASSUME IInv, RecordMigration PROVE IInv'
<1>1. /\ UNCHANGED <<boot, recorded, schema>> /\ UNCHANGED <<transaction, threads, owed>>
      /\ boot = "migrating" /\ version \in Version /\ line = Len(Script[version]) + 1
      /\ line' = 0 /\ version' = version + 1 /\ pending' = pending \union {version}
  BY DEF RecordMigration
<1>2. Objects(version) \subseteq schema
  <2>1. \A i \in 1..Len(Script[version]) : Script[version][i] \in schema
    BY <1>1, ScriptShape DEF IInv, Migrated
  <2> QED
    BY <1>1, <2>1, ScriptShape DEF Objects
<1>3. UpIsRecorded'
  BY <1>1 DEF UpIsRecorded
<1>4. Migrated'
  <2>1. \A v \in Version : v < version' => v \in recorded' \union pending'
    BY <1>1 DEF IInv, Migrated, Version
  <2>2. \A v \in recorded' \union pending' : Objects(v) \subseteq schema'
    BY <1>1, <1>2 DEF IInv, Migrated
  <2>3. \A v \in Version : line' <= Len(Script[v]) + 1
    BY <1>1, ScriptShape
  <2>4. \A i \in 1..(line' - 1) : FALSE
    BY <1>1
  <2> QED
    BY <1>1, <2>1, <2>2, <2>3, <2>4 DEF Migrated
<1>5. version' \in 1..4 /\ pending' \subseteq Version
  BY <1>1 DEF IInv, TypeOK, Version
<1> QED
  BY <1>1, <1>3, <1>4, <1>5, MigrateKeeps DEF IInv, TypeOK

LEMMA ServeKeeps == ASSUME IInv, Serve PROVE IInv'
<1>1. /\ UNCHANGED <<version, line, schema>> /\ UNCHANGED <<transaction, threads, owed>>
      /\ boot = "migrating" /\ version = 4
      /\ boot' = "up" /\ recorded' = recorded \union pending /\ pending' = {}
  BY DEF Serve
<1>2. recorded' = Version
  BY <1>1 DEF IInv, TypeOK, Migrated, Version
<1>3. UpIsRecorded'
  BY <1>2 DEF UpIsRecorded
<1>4. Migrated'
  BY <1>1 DEF IInv, Migrated
<1> QED
  BY <1>1, <1>2, <1>3, <1>4, MigrateKeeps DEF IInv, TypeOK

LEMMA DieKeeps == ASSUME IInv, Die PROVE IInv'
<1>1. /\ UNCHANGED <<recorded, schema, disk, owed>>
      /\ boot' = "down" /\ version' = 1 /\ line' = 0 /\ pending' = {}
      /\ view' = disk /\ open' = FALSE /\ dirty' = FALSE /\ owner' = NoThread
      /\ pc' = [t \in Thread |-> "idle"] /\ call' = [t \in Thread |-> NoCall]
      /\ preset' = [t \in Thread |-> Absent] /\ orphan' = [t \in Thread |-> FALSE]
  BY DEF Die
<1>2. TypeOK'
  <2>1. \A t \in Thread : owner' = t <=> pc'[t] \in Inside
    BY <1>1, InsideShape, SentinelAssumption
  <2>2. pc' \in [Thread -> Inside \union {"idle", "waiting", "done", "failed"}]
    BY <1>1
  <2>3. /\ call' \in [Thread -> Call \union {NoCall}] /\ preset' \in [Thread -> Preset \union {Absent}]
        /\ orphan' \in [Thread -> BOOLEAN]
    BY <1>1
  <2>4. /\ boot' \in {"down", "migrating", "up", "closing"} /\ version' \in 1..4 /\ line' \in 0..4
        /\ recorded' \subseteq Version /\ pending' \subseteq Version
        /\ disk' \in Tables /\ view' \in Tables /\ open' \in BOOLEAN /\ dirty' \in BOOLEAN
        /\ owner' \in Thread \union {NoThread} /\ owed' \subseteq Entry
    <3>1. recorded \subseteq Version /\ disk \in Tables /\ owed \subseteq Entry
      BY DEF IInv, TypeOK
    <3>2. version' \in 1..4 /\ line' \in 0..4
      BY <1>1
    <3>3. open' \in BOOLEAN /\ dirty' \in BOOLEAN
      BY <1>1
    <3> QED
      BY <1>1, <3>1, <3>2, <3>3
  <2>5. schema' \subseteq UNION {Objects(v) : v \in Version}
    <3>1. schema \subseteq UNION {Objects(v) : v \in Version}
      BY DEF IInv, TypeOK
    <3>2. schema' = schema
      BY <1>1
    <3> QED
      BY <3>1, <3>2
  <2> QED
    BY <2>1, <2>2, <2>3, <2>4, <2>5 DEF TypeOK
<1>3. UpIsRecorded'
  BY <1>1 DEF UpIsRecorded
<1>4. Migrated'
  BY <1>1 DEF IInv, Migrated
<1>5. Seen'
  BY <1>1 DEF IInv, Seen
<1>6. \A t \in Thread : Working(t)'
  BY <1>1 DEF Working, Inside, Statement
<1> QED
  BY <1>2, <1>3, <1>4, <1>5, <1>6 DEF IInv

(***************************************************************************)
(* The calls.                                                              *)
(***************************************************************************)

\* What else a step of a call keeps when the migrations and the boot stay as they are.
LEMMA CallKeeps ==
    ASSUME IInv, NEW t \in Thread, NEW where \in Inside \union {"idle", "waiting", "done", "failed"},
           UNCHANGED <<boot, migration>>,
           Goto(t, where),
           \/ where \in Inside /\ owner' = t /\ owner \in {t, NoThread}
           \/ where \notin Inside /\ owner' = NoThread /\ owner \in {t, NoThread}
           \/ where \notin Inside /\ pc[t] \notin Inside /\ owner' = owner,
           owner = t \/ UNCHANGED <<view, disk, dirty>>,
           \A s \in Thread \ {t} : call'[s] = call[s] /\ preset'[s] = preset[s] /\ orphan'[s] = orphan[s],
           disk' \in Tables, view' \in Tables, open' \in BOOLEAN, dirty' \in BOOLEAN, owed' \subseteq Entry,
           call' \in [Thread -> Call \union {NoCall}], preset' \in [Thread -> Preset \union {Absent}],
           orphan' \in [Thread -> BOOLEAN],
           Seen', pc'[t] = where => Working(t)'
    PROVE  IInv'
<1>1. /\ pc' \in [Thread -> Inside \union {"idle", "waiting", "done", "failed"}]
      /\ owner' \in Thread \union {NoThread}
      /\ \A s \in Thread : owner' = s <=> pc'[s] \in Inside
      /\ pc'[t] = where /\ \A s \in Thread \ {t} : pc'[s] = pc[s]
  BY LockStays
<1>2. UpIsRecorded' /\ Migrated'
  BY MigrationStays
<1>3. \A s \in Thread : Working(s)'
  BY <1>1, OthersWork
<1>4. TypeOK'
  <2>1. /\ boot' \in {"down", "migrating", "up", "closing"} /\ version' \in 1..4 /\ line' \in 0..4
        /\ recorded' \subseteq Version /\ pending' \subseteq Version
    BY DEF IInv, TypeOK, migration
  <2>2. schema' = schema /\ schema \subseteq UNION {Objects(v) : v \in Version}
    BY DEF IInv, TypeOK, migration
  <2> QED
    BY <1>1, <2>1, <2>2 DEF TypeOK
<1> QED
  BY <1>2, <1>3, <1>4 DEF IInv

LEMMA RequestKeeps ==
    ASSUME IInv, NEW t \in Thread, NEW c \in Call, Request(t, c)
    PROVE  IInv'
<1>1. /\ pc[t] = "idle" /\ Goto(t, "waiting") /\ call' = [call EXCEPT ![t] = c]
      /\ UNCHANGED <<boot, migration>> /\ UNCHANGED <<disk, view, open, dirty, owner, preset, orphan, owed>>
  BY DEF Request, transaction
<1>2. pc[t] \notin Inside /\ "waiting" \notin Inside
  BY <1>1, InsideShape
<1>3. call' \in [Thread -> Call \union {NoCall}] /\ call'[t] = c /\ \A s \in Thread \ {t} : call'[s] = call[s]
  BY <1>1 DEF IInv, TypeOK
<1>4. Seen'
  BY <1>1 DEF IInv, Seen
<1>5. ~ orphan[t]
  BY <1>1 DEF IInv, Working
<1>6. pc'[t] = "waiting" => Working(t)'
  BY <1>1, <1>3, <1>5 DEF Working, Inside, Statement
<1>7. /\ disk' \in Tables /\ view' \in Tables /\ open' \in BOOLEAN /\ dirty' \in BOOLEAN /\ owed' \subseteq Entry
      /\ preset' \in [Thread -> Preset \union {Absent}] /\ orphan' \in [Thread -> BOOLEAN]
  BY <1>1 DEF IInv, TypeOK
<1> QED
  BY <1>1, <1>2, <1>3, <1>4, <1>6, <1>7, CallKeeps

\* What t finds with the lock in its hands.
LEMMA BeginsWell ==
    ASSUME IInv, NEW t \in Thread, pc[t] = "waiting", owner = NoThread, Begins(t)
    PROVE  /\ preset' \in [Thread -> Preset \union {Absent}]
           /\ \A s \in Thread \ {t} : preset'[s] = preset[s]
           /\ \E where \in Statement :
                  /\ Goto(t, where) /\ where \in Statements(call[t].op)
                  /\ where \notin {"flag"} /\ ~ (where = "upsert" /\ call[t].op = "default")
                  /\ where = "clear" /\ call[t].op = "appoint" => call[t].arg \in view.profiles
                  /\ where \in {"rename", "dedupe"} => preset'[t] \in Preset /\ view.presets[preset'[t]] = call[t].arg
                  /\ where = "add" => /\ preset'[t] \in Preset /\ Named(view, call[t].arg) = {}
                                       /\ view.presets[preset'[t]] = Absent
<1> DEFINE c == call[t]
<1>1. preset \in [Thread -> Preset \union {Absent}]
  BY DEF IInv, TypeOK
<1>2. CASE c.op = "save"
  <2>1. PICK p \in Preset :
            /\ preset' = [preset EXCEPT ![t] = p]
            /\ \/ p \in Named(view, c.arg) /\ Goto(t, "rename")
               \/ Named(view, c.arg) = {} /\ view.presets[p] = Absent /\ Goto(t, "add")
    BY <1>2 DEF Begins
  <2>2. preset'[t] = p /\ preset' \in [Thread -> Preset \union {Absent}] /\ \A s \in Thread \ {t} : preset'[s] = preset[s]
    BY <1>1, <2>1
  <2>3. CASE p \in Named(view, c.arg) /\ Goto(t, "rename")
    <3>1. "rename" \in Statement /\ "rename" \in Statements(c.op) /\ view.presets[p] = c.arg
      BY <1>2, <2>3 DEF Statement, Statements, Named
    <3> QED
      BY <2>2, <2>3, <3>1
  <2>4. CASE Named(view, c.arg) = {} /\ view.presets[p] = Absent /\ Goto(t, "add")
    <3>1. "add" \in Statement /\ "add" \in Statements(c.op)
      BY <1>2 DEF Statement, Statements
    <3> QED
      BY <2>2, <2>4, <3>1
  <2> QED
    BY <2>1, <2>3, <2>4
<1>3. CASE c.op # "save"
  <2>1. preset' = preset
    BY <1>3 DEF Begins
  <2>2. PICK where \in {"insert", "delete", "remove", "put", "vacuum", "upsert", "clear"} :
            /\ Goto(t, where) /\ where \in Statements(c.op)
            /\ ~ (where = "upsert" /\ c.op = "default")
            /\ where = "clear" /\ c.op = "appoint" => c.arg \in view.profiles
    BY <1>3 DEF Begins, Statements
  <2>3. where \in Statement
    BY DEF Statement
  <2> QED
    BY <1>1, <2>1, <2>2, <2>3
<1> QED
  BY <1>2, <1>3

LEMMA EnterKeeps == ASSUME IInv, NEW t \in Thread, Enter(t) PROVE IInv'
<1>1. /\ pc[t] = "waiting" /\ owner = NoThread /\ Begins(t) /\ owner' = t
      /\ UNCHANGED <<boot, migration>> /\ UNCHANGED <<disk, view, open, dirty, call, orphan, owed>>
  BY DEF Enter, transaction
<1>2. /\ preset' \in [Thread -> Preset \union {Absent}]
      /\ \A s \in Thread \ {t} : preset'[s] = preset[s]
  BY <1>1, BeginsWell
<1>3. PICK where \in Statement :
          /\ Goto(t, where) /\ where \in Statements(call[t].op)
          /\ where \notin {"flag"} /\ ~ (where = "upsert" /\ call[t].op = "default")
          /\ where = "clear" /\ call[t].op = "appoint" => call[t].arg \in view.profiles
          /\ where \in {"rename", "dedupe"} => preset'[t] \in Preset /\ view.presets[preset'[t]] = call[t].arg
          /\ where = "add" => /\ preset'[t] \in Preset /\ Named(view, call[t].arg) = {}
                               /\ view.presets[preset'[t]] = Absent
  BY <1>1, BeginsWell
<1>4. where \in Inside /\ where # "commit" /\ where # "idle"
  BY InsideShape
<1>5. Seen'
  BY <1>1, SentinelAssumption DEF IInv, Seen
<1>6. Working(t)
  BY DEF IInv
<1>7. ASSUME pc'[t] = where PROVE Working(t)'
  <2>1. ~ dirty => view = disk
    BY <1>1 DEF IInv, Seen
  <2>2. ~ dirty' => Progress(t)'
    BY <1>1, <1>3, <1>4, <1>7, <2>1 DEF Progress
  <2> QED
    BY <1>1, <1>3, <1>4, <1>6, <1>7, <2>2 DEF Working, Named
<1>8. /\ disk' \in Tables /\ view' \in Tables /\ open' \in BOOLEAN /\ dirty' \in BOOLEAN /\ owed' \subseteq Entry
      /\ call' \in [Thread -> Call \union {NoCall}] /\ orphan' \in [Thread -> BOOLEAN]
  BY <1>1 DEF IInv, TypeOK
<1> QED
  BY <1>1, <1>2, <1>3, <1>4, <1>5, <1>7, <1>8, CallKeeps

\* A step of t that leaves the tables, its call and who awaits it alone, to a place outside.
LEMMA LeavesKeeps ==
    ASSUME IInv, NEW t \in Thread, NEW where \in {"waiting", "done", "failed"}, Goto(t, where),
           UNCHANGED <<boot, migration, disk, view, open, dirty, call, preset, orphan, owed>>,
           pc[t] # "idle",
           \/ pc[t] \notin Inside /\ owner' = owner
           \/ owner = t /\ owner' = NoThread /\ (~ dirty => view = disk)
    PROVE  IInv'
<1>1. where \notin Inside
  BY InsideShape
<1>2. Seen'
  BY SentinelAssumption DEF IInv, Seen
<1>3. Working(t)
  BY DEF IInv
<1>4. pc'[t] = where => Working(t)'
  BY <1>1, <1>3 DEF Working, Inside, Statement
<1>5. /\ disk' \in Tables /\ view' \in Tables /\ open' \in BOOLEAN /\ dirty' \in BOOLEAN /\ owed' \subseteq Entry
      /\ call' \in [Thread -> Call \union {NoCall}] /\ orphan' \in [Thread -> BOOLEAN]
      /\ preset' \in [Thread -> Preset \union {Absent}]
  BY DEF IInv, TypeOK
<1> QED
  BY <1>1, <1>2, <1>4, <1>5, CallKeeps

LEMMA RefuseKeeps == ASSUME IInv, NEW t \in Thread, Refuse(t) PROVE IInv'
<1>1. /\ pc[t] = "waiting" /\ Goto(t, "failed") /\ owner' = owner
      /\ UNCHANGED <<boot, migration, disk, view, open, dirty, call, preset, orphan, owed>>
  BY DEF Refuse, transaction
<1> QED
  BY <1>1, InsideShape, LeavesKeeps

LEMMA VacuumKeeps == ASSUME IInv, NEW t \in Thread, Vacuum(t) PROVE IInv'
<1>1. /\ pc[t] = "vacuum"
      /\ UNCHANGED <<boot, migration, disk, view, open, dirty, call, preset, orphan, owed>>
  BY DEF Vacuum, transaction
<1>2. owner = t /\ Working(t)
  BY <1>1 DEF IInv, TypeOK, Inside, Statement
<1>3. ~ dirty => view = disk
  BY <1>1, <1>2 DEF Working, Progress, Inside, Statement
<1>4. CASE open /\ Goto(t, "failed") /\ owner' = NoThread
  BY <1>1, <1>2, <1>3, <1>4, LeavesKeeps
<1>5. CASE ~ open /\ Goto(t, "commit") /\ UNCHANGED owner
  <2>1. Seen'
    BY <1>1, <1>2, <1>5 DEF IInv, Seen
  <2>2. call[t].op = "vacuum"
    <3>1. call[t] \in Call /\ "vacuum" \in Statements(call[t].op)
      BY <1>1, <1>2 DEF Working, Statement
    <3> QED
      BY <3>1, CallShape DEF Statements
  <2>3. ASSUME pc'[t] = "commit" PROVE Working(t)'
    <3>1. ~ dirty' => Progress(t)'
      BY <1>1, <1>3, <2>3 DEF Progress
    <3> QED
      BY <1>1, <1>2, <2>2, <2>3, <3>1 DEF Working, Statement
  <2>4. /\ disk' \in Tables /\ view' \in Tables /\ open' \in BOOLEAN /\ dirty' \in BOOLEAN /\ owed' \subseteq Entry
        /\ call' \in [Thread -> Call \union {NoCall}] /\ orphan' \in [Thread -> BOOLEAN]
        /\ preset' \in [Thread -> Preset \union {Absent}]
    BY <1>1 DEF IInv, TypeOK
  <2> QED
    BY <1>1, <1>2, <1>5, <2>1, <2>3, <2>4, InsideShape, CallKeeps
<1> QED
  BY <1>4, <1>5 DEF Vacuum

LEMMA CommitKeeps == ASSUME IInv, NEW t \in Thread, Commit(t) PROVE IInv'
<1>1. /\ pc[t] = "commit" /\ disk' = view /\ view' = view /\ open' = FALSE /\ dirty' = FALSE
      /\ owner' = NoThread /\ Goto(t, "done")
      /\ owed' = IF call[t].op = "write" /\ ~ orphan[t] THEN owed \union {call[t].arg} ELSE owed
      /\ UNCHANGED <<boot, migration, call, preset, orphan>>
  BY DEF Commit
<1>2. owner = t /\ Working(t) /\ view \in Tables
  BY <1>1 DEF IInv, TypeOK, Inside, Statement
<1>3. owed' \subseteq view.history /\ view.history \subseteq Entry
  BY <1>1, <1>2 DEF IInv, Seen, Working, Tables
<1>4. Seen'
  BY <1>1, <1>3 DEF Seen
<1>5. pc'[t] = "done" => Working(t)'
  BY <1>1, <1>2 DEF Working, Inside, Statement
<1>6. /\ call' \in [Thread -> Call \union {NoCall}] /\ orphan' \in [Thread -> BOOLEAN]
      /\ preset' \in [Thread -> Preset \union {Absent}]
  BY <1>1 DEF IInv, TypeOK
<1> QED
  BY <1>1, <1>2, <1>3, <1>4, <1>5, <1>6, InsideShape, CallKeeps

LEMMA FailsKeeps == ASSUME IInv, NEW t \in Thread, Fails(t) PROVE IInv'
<1>1. /\ pc[t] \in Inside /\ owner' = NoThread /\ Goto(t, "failed") /\ pc[t] # "idle"
      /\ UNCHANGED <<boot, migration, disk, call, preset, orphan, owed>>
      /\ \/ open' = TRUE /\ dirty' = TRUE /\ view' = view
         \/ open' = FALSE /\ dirty' = FALSE /\ view' = disk
  BY DEF Fails, Inside, Statement
<1>2. owner = t /\ Working(t) /\ view \in Tables /\ disk \in Tables
  BY <1>1 DEF IInv, TypeOK
<1>3. Seen'
  BY <1>1 DEF IInv, Seen
<1>4. pc'[t] = "failed" => Working(t)'
  BY <1>1, <1>2 DEF Working, Inside, Statement
<1>5. /\ call' \in [Thread -> Call \union {NoCall}] /\ orphan' \in [Thread -> BOOLEAN]
      /\ preset' \in [Thread -> Preset \union {Absent}] /\ owed' \subseteq Entry
      /\ open' \in BOOLEAN /\ dirty' \in BOOLEAN
  BY <1>1 DEF IInv, TypeOK
<1> QED
  BY <1>1, <1>2, <1>3, <1>4, <1>5, InsideShape, CallKeeps

LEMMA ReplyKeeps == ASSUME IInv, NEW t \in Thread, Reply(t) PROVE IInv'
<1>1. /\ pc[t] \in {"done", "failed"} /\ Goto(t, "idle") /\ call' = [call EXCEPT ![t] = NoCall]
      /\ preset' = [preset EXCEPT ![t] = Absent] /\ orphan' = [orphan EXCEPT ![t] = FALSE]
      /\ UNCHANGED <<boot, migration>> /\ UNCHANGED <<disk, view, open, dirty, owner, owed>>
  BY DEF Reply, transaction
<1>2. pc[t] \notin Inside
  BY <1>1, InsideShape
<1>3. Seen'
  BY <1>1 DEF IInv, Seen
<1>4. /\ call' \in [Thread -> Call \union {NoCall}] /\ orphan' \in [Thread -> BOOLEAN]
      /\ preset' \in [Thread -> Preset \union {Absent}] /\ ~ orphan'[t]
      /\ \A s \in Thread \ {t} : call'[s] = call[s] /\ preset'[s] = preset[s] /\ orphan'[s] = orphan[s]
  BY <1>1 DEF IInv, TypeOK
<1>5. pc'[t] = "idle" => Working(t)'
  BY <1>4 DEF Working, Inside, Statement
<1>6. /\ disk' \in Tables /\ view' \in Tables /\ open' \in BOOLEAN /\ dirty' \in BOOLEAN /\ owed' \subseteq Entry
  BY <1>1 DEF IInv, TypeOK
<1> QED
  BY <1>1, <1>2, <1>3, <1>4, <1>5, <1>6, InsideShape, CallKeeps

LEMMA CancelKeeps == ASSUME IInv, NEW t \in Thread, Cancel(t) PROVE IInv'
<1>1. /\ pc[t] # "idle" /\ call[t].op = "write" /\ orphan' = [orphan EXCEPT ![t] = TRUE]
      /\ UNCHANGED <<boot, migration>>
      /\ UNCHANGED <<disk, view, open, dirty, owner, pc, call, preset, owed>>
  BY DEF Cancel, transaction
<1>2. orphan' \in [Thread -> BOOLEAN] /\ orphan'[t] /\ \A s \in Thread \ {t} : orphan'[s] = orphan[s]
  BY <1>1 DEF IInv, TypeOK
<1>3. UpIsRecorded' /\ Migrated'
  BY <1>1, MigrationStays
<1>4. Seen'
  BY <1>1 DEF IInv, Seen
<1>5. Working(t)'
  <2>1. Working(t)
    BY DEF IInv
  <2>2. Progress(t)' <=> Progress(t)
    BY <1>1 DEF Progress, Effect, Named
  <2> QED
    BY <1>1, <1>2, <2>1, <2>2 DEF Working, Named
<1>6. \A s \in Thread : Working(s)'
  BY <1>1, <1>2, <1>5, OthersWork
<1>7. TypeOK'
  BY <1>1, <1>2 DEF IInv, TypeOK, migration
<1> QED
  BY <1>3, <1>4, <1>6, <1>7 DEF IInv

\* Whoever is in a call when the connection is closed is writing a row for nobody.
LEMMA CloseKeeps == ASSUME IInv, Close PROVE IInv'
<1>1. /\ boot = "up" /\ boot' = "closing" /\ \A t \in Thread : pc[t] = "idle" \/ orphan[t]
      /\ view' = disk /\ disk' = disk /\ open' = FALSE /\ dirty' = FALSE
      /\ UNCHANGED <<version, line, recorded, pending, schema, owner, pc, call, preset, orphan, owed>>
  BY DEF Close, migration, threads
<1>2. UpIsRecorded' /\ Migrated'
  BY <1>1 DEF IInv, UpIsRecorded, Migrated
<1>3. Seen'
  BY <1>1 DEF IInv, Seen
<1>4. TypeOK'
  BY <1>1 DEF IInv, TypeOK
<1>5. ASSUME NEW t \in Thread PROVE Working(t)'
  <2>1. Working(t) /\ (pc[t] = "idle" \/ orphan[t])
    BY <1>1 DEF IInv
  <2>2. CASE pc[t] = "idle"
    BY <1>1, <2>1, <2>2 DEF Working, Inside, Statement
  <2>3. CASE orphan[t]
    <3>1. call[t].op = "write"
      BY <2>1, <2>3 DEF Working
    <3>2. pc[t] \in Statement => pc[t] = "insert"
      BY <2>1, <3>1 DEF Working, Statements
    <3>3. pc[t] \notin {"clear", "flag", "upsert", "rename", "dedupe", "add"}
      BY <3>2 DEF Statement
    <3>4. Progress(t)'
      BY <1>1, <3>3 DEF Progress
    <3> QED
      BY <1>1, <2>1, <2>3, <3>1, <3>3, <3>4 DEF Working
  <2> QED
    BY <2>1, <2>2, <2>3
<1> QED
  BY <1>2, <1>3, <1>4, <1>5 DEF IInv

(***************************************************************************)
(* Statements.                                                             *)
(***************************************************************************)

\* What statement belongs to which call.
LEMMA WhoseStatement ==
    ASSUME IInv, NEW t \in Thread, pc[t] \in Statement
    PROVE  /\ call[t] \in Call /\ owner = t
           /\ pc[t] = "clear" => call[t].op \in {"default", "appoint"}
           /\ pc[t] = "flag" => call[t].op = "appoint"
           /\ pc[t] = "upsert" => call[t].op \in {"default", "demote"}
           /\ pc[t] = "insert" => call[t].op = "write"
           /\ pc[t] = "delete" => call[t].op = "delete"
           /\ pc[t] \in {"rename", "dedupe", "add"} => call[t].op = "save"
           /\ pc[t] = "remove" => call[t].op = "drop"
           /\ pc[t] = "put" => call[t].op = "set"
<1>1. Working(t) /\ pc[t] # "idle" /\ owner = t
  BY DEF IInv, TypeOK, Statement, Inside
<1>2. call[t] \in Call /\ pc[t] \in Statements(call[t].op)
  BY <1>1 DEF Working
<1>3. call[t].op \in {"default", "demote", "appoint", "set", "write", "delete", "save", "drop", "vacuum"}
  BY <1>2, CallShape
<1> QED
  BY <1>1, <1>2, <1>3 DEF Statements

\* A statement yields tables.
LEMMA AfterType ==
    ASSUME IInv, NEW t \in Thread, pc[t] \in Statement
    PROVE  After(t, view) \in Tables
<1> DEFINE c == call[t]
<1>1. view \in Tables
  BY DEF IInv, TypeOK
<1>2. view = [profiles |-> view.profiles, defaults |-> view.defaults, history |-> view.history, presets |-> view.presets]
  BY <1>1 DEF Tables
<1>3. /\ view.profiles \subseteq Provider /\ view.defaults \subseteq Provider /\ view.history \subseteq Entry
      /\ view.presets \in [Preset -> Name \union {Absent}]
  BY <1>1 DEF Tables
<1>4. c \in Call
  BY WhoseStatement
<1>5. CASE pc[t] = "clear"
  BY <1>1, <1>5 DEF After, Tables
<1>6. CASE pc[t] = "flag"
  BY <1>1, <1>6 DEF After, Tables
<1>7. CASE pc[t] = "upsert"
  <2>1. c.arg \in Provider
    BY <1>4, <1>7, WhoseStatement, CallShape
  <2> QED
    BY <1>1, <1>7, <2>1 DEF After, Tables
<1>8. CASE pc[t] = "insert"
  <2>1. c.arg \in Entry
    BY <1>4, <1>8, WhoseStatement, CallShape
  <2> QED
    BY <1>1, <1>8, <2>1 DEF After, Tables
<1>9. CASE pc[t] = "delete"
  BY <1>1, <1>9 DEF After, Tables
<1>10. CASE pc[t] = "add"
  <2>1. c.arg \in Name
    BY <1>4, <1>10, WhoseStatement, CallShape
  <2>2. [view.presets EXCEPT ![preset[t]] = c.arg] \in [Preset -> Name \union {Absent}]
    BY <1>3, <2>1
  <2> QED
    BY <1>1, <1>10, <2>2 DEF After, Tables
<1>11. CASE pc[t] = "dedupe"
  <2> DEFINE other == {q \in Named(view, c.arg) : q # preset[t]}
             f == [q \in Preset |-> IF q \in other THEN Absent ELSE view.presets[q]]
  <2>1. f \in [Preset -> Name \union {Absent}]
    BY <1>3
  <2>2. After(t, view) = [view EXCEPT !.presets = f]
    BY <1>11 DEF After
  <2> HIDE DEF f
  <2> QED
    BY <1>1, <2>1, <2>2 DEF Tables
<1>12. CASE pc[t] = "remove"
  <2>2. [view.presets EXCEPT ![c.arg] = Absent] \in [Preset -> Name \union {Absent}]
    BY <1>3
  <2> QED
    BY <1>1, <1>12, <2>2 DEF After, Tables
<1>13. CASE pc[t] \in {"rename", "put", "vacuum"}
  BY <1>1, <1>13 DEF After
<1> QED
  BY <1>5, <1>6, <1>7, <1>8, <1>9, <1>10, <1>11, <1>12, <1>13 DEF Statement

\* What each statement does to the tables and what comes next.
LEMMA AfterWhat ==
    ASSUME NEW t \in Thread
    PROVE  /\ pc[t] = "clear" => After(t, view) = [view EXCEPT !.defaults = {}]
           /\ pc[t] = "flag" => After(t, view) = [view EXCEPT !.defaults = @ \union ({call[t].arg} \intersect view.profiles)]
           /\ pc[t] = "upsert" =>
                  After(t, view) = [view EXCEPT !.profiles = @ \union {call[t].arg},
                                                !.defaults = IF call[t].op = "default" THEN @ \union {call[t].arg}
                                                             ELSE @ \ {call[t].arg}]
           /\ pc[t] = "insert" => After(t, view) = [view EXCEPT !.history = @ \union {call[t].arg}]
           /\ pc[t] = "delete" => After(t, view) = [view EXCEPT !.history = @ \ call[t].arg]
           /\ pc[t] = "add" => After(t, view) = [view EXCEPT !.presets[preset[t]] = call[t].arg]
           /\ pc[t] = "dedupe" =>
                  After(t, view) =
                      [view EXCEPT !.presets =
                          [q \in Preset |-> IF q \in {r \in Named(view, call[t].arg) : r # preset[t]}
                                            THEN Absent ELSE @[q]]]
           /\ pc[t] = "remove" => After(t, view) = [view EXCEPT !.presets[call[t].arg] = Absent]
           /\ pc[t] \in {"rename", "put"} => After(t, view) = view
<1>1. pc[t] = "clear" => After(t, view) = [view EXCEPT !.defaults = {}]
  BY DEF After
<1>2. pc[t] = "flag" => After(t, view) = [view EXCEPT !.defaults = @ \union ({call[t].arg} \intersect view.profiles)]
  BY DEF After
<1>3. pc[t] = "upsert" =>
          After(t, view) = [view EXCEPT !.profiles = @ \union {call[t].arg},
                                        !.defaults = IF call[t].op = "default" THEN @ \union {call[t].arg}
                                                     ELSE @ \ {call[t].arg}]
  BY DEF After
<1>4. /\ pc[t] = "insert" => After(t, view) = [view EXCEPT !.history = @ \union {call[t].arg}]
      /\ pc[t] = "delete" => After(t, view) = [view EXCEPT !.history = @ \ call[t].arg]
  BY DEF After
<1>5. /\ pc[t] = "add" => After(t, view) = [view EXCEPT !.presets[preset[t]] = call[t].arg]
      /\ pc[t] = "remove" => After(t, view) = [view EXCEPT !.presets[call[t].arg] = Absent]
  BY DEF After
<1>6. pc[t] = "dedupe" =>
          After(t, view) = [view EXCEPT !.presets =
                                [q \in Preset |-> IF q \in {r \in Named(view, call[t].arg) : r # preset[t]}
                                                  THEN Absent ELSE @[q]]]
  BY DEF After
<1>7. pc[t] \in {"rename", "put"} => After(t, view) = view
  BY DEF After
<1> QED
  BY <1>1, <1>2, <1>3, <1>4, <1>5, <1>6, <1>7

\* The three tables after a statement, one by one.
LEMMA AfterTables ==
    ASSUME IInv, NEW t \in Thread, pc[t] \in Statement \ {"vacuum"}
    PROVE  /\ After(t, view).history =
                  CASE pc[t] = "insert" -> view.history \union {call[t].arg}
                    [] pc[t] = "delete" -> view.history \ call[t].arg
                    [] OTHER -> view.history
           /\ After(t, view).defaults =
                  CASE pc[t] = "clear" -> {}
                    [] pc[t] = "flag" -> view.defaults \union ({call[t].arg} \intersect view.profiles)
                    [] pc[t] = "upsert" /\ call[t].op = "default" -> view.defaults \union {call[t].arg}
                    [] pc[t] = "upsert" /\ call[t].op # "default" -> view.defaults \ {call[t].arg}
                    [] OTHER -> view.defaults
           /\ After(t, view).presets =
                  CASE pc[t] = "add" -> [view.presets EXCEPT ![preset[t]] = call[t].arg]
                    [] pc[t] = "remove" -> [view.presets EXCEPT ![call[t].arg] = Absent]
                    [] pc[t] = "dedupe" ->
                           [q \in Preset |-> IF q \in {r \in Named(view, call[t].arg) : r # preset[t]}
                                             THEN Absent ELSE view.presets[q]]
                    [] OTHER -> view.presets
<1>1. view \in Tables
  BY DEF IInv, TypeOK
<1>2. CASE pc[t] = "clear"
  <2>1. After(t, view) = [view EXCEPT !.defaults = {}]
    BY <1>2, AfterWhat
  <2> QED
    BY <1>1, <1>2, <2>1 DEF Tables
<1>3. CASE pc[t] = "flag"
  <2>1. After(t, view) = [view EXCEPT !.defaults = @ \union ({call[t].arg} \intersect view.profiles)]
    BY <1>3, AfterWhat
  <2> QED
    BY <1>1, <1>3, <2>1 DEF Tables
<1>4. CASE pc[t] = "upsert"
  <2>1. After(t, view) = [view EXCEPT !.profiles = @ \union {call[t].arg},
                                      !.defaults = IF call[t].op = "default" THEN @ \union {call[t].arg}
                                                   ELSE @ \ {call[t].arg}]
    BY <1>4, AfterWhat
  <2> QED
    BY <1>1, <1>4, <2>1 DEF Tables
<1>5. CASE pc[t] = "insert"
  <2>1. After(t, view) = [view EXCEPT !.history = @ \union {call[t].arg}]
    BY <1>5, AfterWhat
  <2> QED
    BY <1>1, <1>5, <2>1 DEF Tables
<1>6. CASE pc[t] = "delete"
  <2>1. After(t, view) = [view EXCEPT !.history = @ \ call[t].arg]
    BY <1>6, AfterWhat
  <2> QED
    BY <1>1, <1>6, <2>1 DEF Tables
<1>7. CASE pc[t] = "add"
  <2>1. After(t, view) = [view EXCEPT !.presets[preset[t]] = call[t].arg]
    BY <1>7, AfterWhat
  <2> QED
    BY <1>1, <1>7, <2>1 DEF Tables
<1>8. CASE pc[t] = "dedupe"
  <2>1. After(t, view) =
            [view EXCEPT !.presets = [q \in Preset |-> IF q \in {r \in Named(view, call[t].arg) : r # preset[t]}
                                                       THEN Absent ELSE @[q]]]
    BY <1>8, AfterWhat
  <2> QED
    BY <1>1, <1>8, <2>1 DEF Tables
<1>9. CASE pc[t] = "remove"
  <2>1. After(t, view) = [view EXCEPT !.presets[call[t].arg] = Absent]
    BY <1>9, AfterWhat
  <2> QED
    BY <1>1, <1>9, <2>1 DEF Tables
<1>10. CASE pc[t] \in {"rename", "put"}
  <2>1. After(t, view) = view
    BY <1>10, AfterWhat
  <2> QED
    BY <1>10, <2>1
<1> QED
  BY <1>2, <1>3, <1>4, <1>5, <1>6, <1>7, <1>8, <1>9, <1>10 DEF Statement

\* Only an insert and a delete touch the history, and only statements about presets their names.
LEMMA AfterHistory ==
    ASSUME IInv, NEW t \in Thread, pc[t] \in Statement \ {"vacuum"}
    PROVE  After(t, view).history =
               CASE pc[t] = "insert" -> view.history \union {call[t].arg}
                 [] pc[t] = "delete" -> view.history \ call[t].arg
                 [] OTHER -> view.history
BY AfterTables

LEMMA AfterPresets ==
    ASSUME IInv, NEW t \in Thread, pc[t] \in Statement \ {"vacuum"}, NEW p \in Preset
    PROVE  After(t, view).presets[p] =
               CASE pc[t] = "add" /\ p = preset[t] -> call[t].arg
                 [] pc[t] = "remove" /\ p = call[t].arg -> Absent
                 [] pc[t] = "dedupe" /\ view.presets[p] = call[t].arg /\ p # preset[t] -> Absent
                 [] OTHER -> view.presets[p]
<1>1. view.presets \in [Preset -> Name \union {Absent}]
  BY DEF IInv, TypeOK, Tables
<1>2. CASE pc[t] = "add"
  <2>1. After(t, view).presets = [view.presets EXCEPT ![preset[t]] = call[t].arg]
    BY <1>2, AfterTables
  <2> QED
    BY <1>1, <1>2, <2>1
<1>3. CASE pc[t] = "remove"
  <2>1. After(t, view).presets = [view.presets EXCEPT ![call[t].arg] = Absent]
    BY <1>3, AfterTables
  <2> QED
    BY <1>1, <1>3, <2>1
<1>4. CASE pc[t] = "dedupe"
  <2>1. After(t, view).presets =
            [q \in Preset |-> IF q \in {r \in Named(view, call[t].arg) : r # preset[t]} THEN Absent ELSE view.presets[q]]
    BY <1>4, AfterTables
  <2> QED
    BY <1>4, <2>1 DEF Named
<1>5. CASE pc[t] \notin {"add", "remove", "dedupe"}
  <2>1. After(t, view).presets = view.presets
    BY <1>5, AfterTables
  <2> QED
    BY <1>5, <2>1
<1> QED
  BY <1>2, <1>3, <1>4, <1>5

\* A statement neither brings two presets to one name nor touches a row somebody relies on.
LEMMA ExecuteSees == ASSUME IInv, NEW t \in Thread, Execute(t) PROVE Seen'
<1>1. /\ pc[t] \in Statement \ {"vacuum"} /\ view' = After(t, view) /\ open' = TRUE
      /\ owed' = IF pc[t] = "delete" THEN owed \ call[t].arg ELSE owed
      /\ UNCHANGED <<disk, dirty, owner, call, preset>>
  BY DEF Execute
<1>2. owner = t /\ owner # NoThread
  BY <1>1, WhoseStatement, SentinelAssumption
<1>3. owed' \subseteq disk'.history \intersect view'.history
  <2>1. owed \subseteq disk.history \intersect view.history
    BY DEF IInv, Seen
  <2>2. pc[t] = "delete" => view'.history = view.history \ call[t].arg
    BY <1>1, AfterHistory
  <2>3. pc[t] # "delete" => view.history \subseteq view'.history
    BY <1>1, AfterHistory
  <2> QED
    BY <1>1, <2>1, <2>2, <2>3
<1>4. ASSUME NEW p \in Preset, NEW q \in Preset, p # q,
             view'.presets[p] = view'.presets[q], view'.presets[p] # Absent
      PROVE  disk'.presets[p] = disk'.presets[q]
  <2>1. view.presets[p] = view.presets[q] /\ view.presets[p] # Absent => disk.presets[p] = disk.presets[q]
    BY <1>4 DEF IInv, Seen
  <2>2. CASE pc[t] = "add"
    <3>1. preset[t] \in Preset /\ \A r \in Preset : view.presets[r] # call[t].arg
      BY <2>2 DEF IInv, Working, Named
    <3>2. \A r \in Preset : view'.presets[r] = IF r = preset[t] THEN call[t].arg ELSE view.presets[r]
      BY <1>1, <2>2, AfterPresets
    <3>3. p # preset[t] /\ q # preset[t]
      BY <1>4, <3>1, <3>2
    <3> QED
      BY <1>1, <1>4, <2>1, <3>2, <3>3
  <2>3. CASE pc[t] # "add"
    <3>1. \A r \in Preset : view'.presets[r] \in {Absent, view.presets[r]}
      BY <1>1, <2>3, AfterPresets
    <3> QED
      BY <1>1, <1>4, <2>1, <3>1
  <2> QED
    BY <2>2, <2>3
<1> QED
  BY <1>1, <1>2, <1>3, <1>4 DEF Seen

\* After its last statement a call has done all it does, on the tables it found.
LEMMA LastStatement ==
    ASSUME IInv, NEW t \in Thread, pc[t] \in Statement \ {"vacuum"}, ~ dirty, Following(t) = "commit"
    PROVE  After(t, view) \in Effect(call[t], disk) \union {disk}
<1> DEFINE c == call[t]
<1>1. /\ Working(t) /\ Progress(t) /\ pc[t] \in Inside
      /\ view \in Tables /\ disk \in Tables
  BY DEF IInv, TypeOK, Working, Inside, Statement
<1>2. pc[t] \notin {"clear", "rename"}
  <2>1. pc[t] = "clear" => c.op \in {"default", "appoint"}
    BY WhoseStatement
  <2> QED
    BY <2>1 DEF Following
<1>3. CASE pc[t] = "flag"
  <2>1. c.op = "appoint" /\ view = [disk EXCEPT !.defaults = {}] /\ c.arg \in disk.profiles
    BY <1>1, <1>3, WhoseStatement DEF Progress
  <2>2. After(t, view) = [view EXCEPT !.defaults = @ \union ({c.arg} \intersect view.profiles)]
    BY <1>3, AfterWhat
  <2>3. view.profiles = disk.profiles /\ view.defaults = {}
    BY <1>1, <2>1 DEF Tables
  <2>4. view.defaults \union ({c.arg} \intersect view.profiles) = {c.arg}
    BY <2>1, <2>3
  <2>5. After(t, view) = [disk EXCEPT !.defaults = {c.arg}]
    BY <1>1, <2>1, <2>2, <2>4 DEF Tables
  <2> QED
    BY <2>1, <2>5 DEF Effect
<1>4. CASE pc[t] = "upsert"
  <2>1. CASE c.op = "default"
    <3>1. view = [disk EXCEPT !.defaults = {}]
      BY <1>1, <1>4, <2>1 DEF Progress
    <3>2. After(t, view) = [view EXCEPT !.profiles = @ \union {c.arg}, !.defaults = @ \union {c.arg}]
      BY <1>4, <2>1, AfterWhat
    <3>3. view.defaults = {} /\ view.profiles = disk.profiles
      BY <1>1, <3>1 DEF Tables
    <3>4. After(t, view) = [disk EXCEPT !.profiles = @ \union {c.arg}, !.defaults = {c.arg}]
      BY <1>1, <3>1, <3>2, <3>3 DEF Tables
    <3> QED
      BY <2>1, <3>4 DEF Effect
  <2>2. CASE c.op = "demote"
    <3>1. view = disk
      BY <1>1, <1>4, <2>2 DEF Progress
    <3>2. After(t, view) = [view EXCEPT !.profiles = @ \union {c.arg}, !.defaults = @ \ {c.arg}]
      BY <1>4, <2>2, AfterWhat
    <3> QED
      BY <2>2, <3>1, <3>2 DEF Effect
  <2> QED
    BY <1>4, <2>1, <2>2, WhoseStatement
<1>5. CASE pc[t] \in {"insert", "delete", "remove", "put"}
  <2>1. view = disk
    BY <1>1, <1>5 DEF Progress
  <2>2. CASE pc[t] = "insert"
    <3>1. c.op = "write"
      BY <2>2, WhoseStatement
    <3> QED
      BY <2>1, <2>2, <3>1, AfterWhat DEF Effect
  <2>3. CASE pc[t] = "delete"
    <3>1. c.op = "delete"
      BY <2>3, WhoseStatement
    <3> QED
      BY <2>1, <2>3, <3>1, AfterWhat DEF Effect
  <2>4. CASE pc[t] = "remove"
    <3>1. c.op = "drop"
      BY <2>4, WhoseStatement
    <3> QED
      BY <2>1, <2>4, <3>1, AfterWhat DEF Effect
  <2>5. CASE pc[t] = "put"
    BY <2>1, <2>5, AfterWhat
  <2> QED
    BY <1>5, <2>2, <2>3, <2>4, <2>5
<1>6. CASE pc[t] \in {"dedupe", "add"}
  <2> DEFINE f == [q \in Preset |-> IF q = preset[t] THEN c.arg ELSE IF disk.presets[q] = c.arg THEN Absent ELSE disk.presets[q]]
  <2>1. view = disk /\ c.op = "save" /\ preset[t] \in Preset /\ disk.presets \in [Preset -> Name \union {Absent}]
    BY <1>1, <1>6, WhoseStatement DEF Progress, Working, Tables
  <2>2. preset[t] \in IF Named(disk, c.arg) # {} THEN Named(disk, c.arg) ELSE Named(disk, Absent)
    BY <1>1, <1>6, <2>1 DEF Working, Named
  <2>3. [disk EXCEPT !.presets = f] \in Effect(c, disk)
    BY <2>1, <2>2 DEF Effect
  <2>4. CASE pc[t] = "dedupe"
    <3> DEFINE g == [q \in Preset |-> IF q \in {r \in Named(disk, c.arg) : r # preset[t]} THEN Absent ELSE disk.presets[q]]
    <3>1. disk.presets[preset[t]] = c.arg
      BY <1>1, <2>1, <2>4 DEF Working
    <3>2. After(t, view) = [disk EXCEPT !.presets = g]
      <4>1. After(t, view) =
                [view EXCEPT !.presets =
                    [q \in Preset |-> IF q \in {r \in Named(view, c.arg) : r # preset[t]}
                                      THEN Absent ELSE view.presets[q]]]
        BY <2>4, AfterWhat
      <4> QED
        BY <2>1, <4>1
    <3>3. \A q \in Preset : q \in {r \in Named(disk, c.arg) : r # preset[t]}
                              <=> disk.presets[q] = c.arg /\ q # preset[t]
      BY DEF Named
    <3>4. g = f
      BY <3>1, <3>3
    <3> HIDE DEF f, g
    <3> QED
      BY <2>3, <3>2, <3>4
  <2>5. CASE pc[t] = "add"
    <3> DEFINE g == [disk.presets EXCEPT ![preset[t]] = c.arg]
    <3>1. \A q \in Preset : disk.presets[q] # c.arg
      BY <1>1, <2>1, <2>5 DEF Working, Named
    <3>2. After(t, view) = [disk EXCEPT !.presets = g]
      BY <2>1, <2>5, AfterWhat
    <3>3. g = f
      BY <2>1, <3>1
    <3> HIDE DEF f, g
    <3> QED
      BY <2>3, <3>2, <3>3
  <2> QED
    BY <1>6, <2>4, <2>5
<1> QED
  BY <1>2, <1>3, <1>4, <1>5, <1>6 DEF Statement

LEMMA ExecuteKeeps == ASSUME IInv, NEW t \in Thread, Execute(t) PROVE IInv'
<1> DEFINE c == call[t]
           where == Following(t)
<1>1. /\ pc[t] \in Statement \ {"vacuum"} /\ view' = After(t, view) /\ open' = TRUE
      /\ Goto(t, where)
      /\ owed' = IF pc[t] = "delete" THEN owed \ call[t].arg ELSE owed
      /\ UNCHANGED <<boot, migration>> /\ UNCHANGED <<disk, dirty, owner, call, preset, orphan>>
  BY DEF Execute
<1>2. owner = t /\ c \in Call /\ Working(t) /\ view \in Tables
  BY <1>1, WhoseStatement DEF IInv, TypeOK, Working, Inside
<1>3. Seen'
  BY ExecuteSees
<1>4. where \in {"flag", "upsert", "dedupe", "commit"} /\ where \in Inside
  BY DEF Following, Inside, Statement
<1>5. where # "commit" => where \in Statements(c.op)
  BY <1>1, <1>4, WhoseStatement DEF Following, Statements
<1>6. ~ dirty => Progress(t)
  BY <1>1 DEF IInv, Working, Inside
<1>7. ASSUME pc'[t] = where PROVE Working(t)'
  <2>1. where = "commit" /\ c.op = "write" /\ ~ orphan[t] => c.arg \in view'.history
    <3>1. c.op = "write" => pc[t] = "insert"
      <4>1. pc[t] \in Statements(c.op)
        BY <1>1, <1>2 DEF Working
      <4> QED
        BY <4>1 DEF Statements
    <3>2. pc[t] = "insert" => c.arg \in view'.history
      BY <1>1, AfterHistory
    <3> QED
      BY <3>1, <3>2
  <2>2. where = "dedupe" => preset[t] \in Preset /\ view'.presets[preset[t]] = c.arg
    <3>1. where = "dedupe" => pc[t] = "rename"
      BY DEF Following
    <3>2. pc[t] = "rename" => view' = view
      BY <1>1, AfterWhat
    <3> QED
      BY <1>2, <3>1, <3>2 DEF Working
  <2>3. ASSUME ~ dirty PROVE Progress(t)'
    <3>1. CASE where = "commit"
      <4>1. view' \in Effect(c, disk) \union {disk}
        BY <1>1, <2>3, <3>1, LastStatement
      <4>2. view' \in Effect(c', disk') \union {disk'}
        BY <1>1, <4>1
      <4> QED
        BY <1>1, <1>7, <3>1, <4>2 DEF Progress
    <3>2. CASE where = "dedupe"
      <4>1. pc[t] = "rename"
        BY <3>2 DEF Following
      <4>2. view' = view /\ view = disk
        BY <1>1, <1>6, <2>3, <4>1, AfterWhat DEF Progress
      <4> QED
        BY <1>1, <1>7, <3>2, <4>2 DEF Progress
    <3>3. CASE where \in {"flag", "upsert"}
      <4>1. pc[t] = "clear" /\ (where = "flag" => c.op = "appoint") /\ (where = "upsert" => c.op = "default")
        BY <3>3 DEF Following
      <4>2. view = disk
        BY <1>6, <2>3, <4>1 DEF Progress
      <4>3. view' = [disk EXCEPT !.defaults = {}]
        BY <1>1, <4>1, <4>2, AfterWhat
      <4>4. where = "flag" => c.arg \in disk.profiles
        BY <1>2, <4>1, <4>2 DEF Working
      <4> QED
        BY <1>1, <1>7, <3>3, <4>1, <4>3, <4>4 DEF Progress
    <3> QED
      BY <1>4, <3>1, <3>2, <3>3
  <2>4. where \notin {"idle", "clear", "rename", "add"}
    BY <1>4
  <2>5. where \in Statement => where \in Statements(c.op)
    BY <1>5, InsideShape
  <2>6. (pc[t] # "idle" => c \in Call) /\ (orphan[t] => c.op = "write")
    BY <1>2 DEF Working
  <2> HIDE DEF where
  <2> QED
    BY <1>1, <1>2, <1>7, <2>1, <2>2, <2>3, <2>4, <2>5, <2>6 DEF Working
<1>8. view' \in Tables
  BY <1>1, AfterType
<1>9. /\ disk' \in Tables /\ open' \in BOOLEAN /\ dirty' \in BOOLEAN /\ owed' \subseteq Entry
      /\ call' \in [Thread -> Call \union {NoCall}] /\ orphan' \in [Thread -> BOOLEAN]
      /\ preset' \in [Thread -> Preset \union {Absent}]
  BY <1>1 DEF IInv, TypeOK
<1> HIDE DEF where
<1> QED
  BY <1>1, <1>2, <1>3, <1>4, <1>7, <1>8, <1>9, CallKeeps

(***************************************************************************)
(* The theorems.                                                           *)
(***************************************************************************)

LEMMA StepHolds == ASSUME IInv, [Next]_vars PROVE IInv'
<1>1. CASE UNCHANGED vars
  <2>1. UNCHANGED <<boot, version, line, recorded, pending, schema>> /\ UNCHANGED <<transaction, threads, owed>>
    BY <1>1 DEF vars, transaction, threads
  <2>2. UpIsRecorded' /\ Migrated'
    BY <2>1, MigrationStays DEF migration
  <2>3. Seen' /\ \A t \in Thread : Working(t)'
    BY <2>1, ThreadsStay
  <2>4. TypeOK'
    BY <2>1 DEF IInv, TypeOK, transaction, threads
  <2> QED
    BY <2>2, <2>3, <2>4 DEF IInv
<1>2. CASE Migrate
  BY <1>2, StartKeeps, CheckMigrationKeeps, RunStatementKeeps, RecordMigrationKeeps, ServeKeeps DEF Migrate
<1>3. CASE Crash \/ Exit
  BY <1>3, DieKeeps DEF Crash, Exit
<1>4. CASE Close
  BY <1>4, CloseKeeps
<1>5. ASSUME NEW t \in Thread, NEW c \in Call, Request(t, c) PROVE IInv'
  BY <1>5, RequestKeeps
<1>6. ASSUME NEW t \in Thread,
             \/ Enter(t) \/ Refuse(t) \/ Execute(t) \/ Vacuum(t) \/ Commit(t) \/ Fails(t)
             \/ Reply(t) \/ Cancel(t)
      PROVE  IInv'
  BY <1>6, EnterKeeps, RefuseKeeps, ExecuteKeeps, VacuumKeeps, CommitKeeps, FailsKeeps, ReplyKeeps, CancelKeeps
<1> QED
  BY <1>1, <1>2, <1>3, <1>4, <1>5, <1>6 DEF Next

\* The inductive invariant holds in every state: mutual exclusion, what the connection sees, and
\* what each call has done so far.
THEOREM Inductive == Spec => []IInv
<1>1. Init => IInv
  BY InitHolds
<1>2. IInv /\ [Next]_vars => IInv'
  BY StepHolds
<1> QED
  BY <1>1, <1>2, PTL DEF Spec

\* Every variable has its type, and whoever is between two statements of a call holds the lock.
THEOREM TypeCorrect == Spec => []TypeOK
<1>1. IInv => TypeOK
  BY DEF IInv
<1> QED
  BY <1>1, Inductive, PTL

\* A migration recorded on disk has taken effect, wherever starts are interrupted.
THEOREM Applied == Spec => []RecordedIsApplied
<1>1. IInv => RecordedIsApplied
  BY DEF IInv, Migrated, RecordedIsApplied
<1> QED
  BY <1>1, Inductive, PTL

\* While the API serves, every migration is recorded on disk.
THEOREM Recorded == Spec => []UpIsRecorded
<1>1. IInv => UpIsRecorded
  BY DEF IInv
<1> QED
  BY <1>1, Inductive, PTL

\* A history row whose writer has succeeded stays on disk until somebody sets out to delete it.
THEOREM Durable == Spec => []HistoryIsDurable
<1>1. IInv => HistoryIsDurable
  BY DEF IInv, Seen, HistoryIsDurable
<1> QED
  BY <1>1, Inductive, PTL

\* Only a commit changes the tables on disk.
LEMMA OnlyCommits == ASSUME [Next]_vars PROVE disk' = disk \/ \E t \in Thread : Commit(t)
<1>1. CASE UNCHANGED vars
  BY <1>1 DEF vars
<1>2. CASE Migrate \/ Crash \/ Close \/ Exit
  BY <1>2 DEF Migrate, Start, CheckMigration, RunStatement, RecordMigration, Serve, Crash, Close, Exit, Die, transaction
<1>3. ASSUME NEW t \in Thread, NEW c \in Call, Request(t, c) PROVE disk' = disk
  BY <1>3 DEF Request, transaction
<1>4. ASSUME NEW t \in Thread,
             Enter(t) \/ Refuse(t) \/ Execute(t) \/ Vacuum(t) \/ Fails(t) \/ Reply(t) \/ Cancel(t)
      PROVE  disk' = disk
  BY <1>4 DEF Enter, Refuse, Execute, Vacuum, Fails, Reply, Cancel, transaction
<1> QED
  BY <1>1, <1>2, <1>3, <1>4 DEF Next

\* What reaches the disk is one whole call, unless a failed call has left a transaction behind.
THEOREM Atomic == Spec => AllOrNothing
<1>1. ASSUME IInv, [Next]_vars
      PROVE  ~ dirty => disk' = disk \/ \E t \in Thread : pc[t] = "commit" /\ disk' \in Effect(call[t], disk)
  <2> SUFFICES ASSUME ~ dirty, disk' # disk
               PROVE  \E t \in Thread : pc[t] = "commit" /\ disk' \in Effect(call[t], disk)
    OBVIOUS
  <2>1. PICK t \in Thread : Commit(t)
    BY <1>1, OnlyCommits
  <2>2. pc[t] = "commit" /\ disk' = view /\ pc[t] \in Inside
    BY <2>1 DEF Commit, Inside
  <2>3. view \in Effect(call[t], disk) \union {disk}
    BY <1>1, <2>2 DEF IInv, Working, Progress
  <2> QED
    BY <2>2, <2>3
<1>2. IInv /\ [Next]_vars =>
          [~ dirty => disk' = disk \/ \E t \in Thread : pc[t] = "commit" /\ disk' \in Effect(call[t], disk)]_vars
  BY <1>1
<1> QED
  BY <1>2, Inductive, PTL DEF Spec, AllOrNothing

\* No commit gives two presets the same name.
THEOREM Distinct == Spec => NoNamesakes
<1>1. ASSUME IInv, [Next]_vars, NEW p \in Preset, NEW q \in Preset, p # q,
             disk'.presets[p] = disk'.presets[q], disk'.presets[p] # Absent
      PROVE  disk.presets[p] = disk.presets[q]
  <2>1. CASE disk' = disk
    BY <1>1, <2>1
  <2>2. CASE \E t \in Thread : Commit(t)
    <3>1. disk' = view
      BY <2>2 DEF Commit
    <3> QED
      BY <1>1, <3>1 DEF IInv, Seen
  <2> QED
    BY <1>1, <2>1, <2>2, OnlyCommits
<1>2. IInv /\ [Next]_vars =>
          [\A p, q \in Preset :
               p # q /\ disk'.presets[p] = disk'.presets[q] /\ disk'.presets[p] # Absent
                   => disk.presets[p] = disk.presets[q]]_vars
  BY <1>1
<1> QED
  BY <1>2, Inductive, PTL DEF Spec, NoNamesakes

\* Only a call that clears the defaults first adds one: the statements on the tables keep Cleared.
LEMMA ExecuteClears ==
    ASSUME IInv, Cleared, NEW t \in Thread, Execute(t)
    PROVE  Cleared'
<1> DEFINE c == call[t]
<1>1. /\ pc[t] \in Statement \ {"vacuum"} /\ view' = After(t, view) /\ Goto(t, Following(t))
      /\ UNCHANGED <<owner, call>> /\ view \in Tables /\ owner = t
  BY WhoseStatement DEF Execute, IInv, TypeOK
<1>2. pc'[t] = Following(t) /\ \A s \in Thread \ {t} : pc'[s] = pc[s]
  BY <1>1 DEF Goto, IInv, TypeOK
<1>3. pc[t] = "clear" => view'.defaults = {}
  BY <1>1, AfterTables
<1>4. pc[t] = "flag" => view'.defaults \subseteq {c.arg}
  <2>1. pc[t] = "flag" => view.defaults = {} /\ view'.defaults = view.defaults \union ({c.arg} \intersect view.profiles)
    BY <1>1, AfterTables DEF Cleared
  <2> QED
    BY <2>1
<1>5. pc[t] = "upsert" => view'.defaults \subseteq {c.arg} \/ view'.defaults \subseteq view.defaults
  <2>1. pc[t] = "upsert" /\ c.op = "default" => view.defaults = {} /\ view'.defaults = view.defaults \union {c.arg}
    BY <1>1, AfterTables DEF Cleared
  <2>2. pc[t] = "upsert" /\ c.op # "default" => view'.defaults = view.defaults \ {c.arg}
    BY <1>1, AfterTables
  <2> QED
    BY <2>1, <2>2
<1>6. pc[t] \notin {"clear", "flag", "upsert"} => view'.defaults = view.defaults
  BY <1>1, AfterTables
<1>7. \A p, q \in view'.defaults : p = q
  BY <1>3, <1>4, <1>5, <1>6 DEF Cleared
<1>8. ASSUME NEW s \in Thread, pc'[s] = "flag" \/ (pc'[s] = "upsert" /\ call'[s].op = "default")
      PROVE  view'.defaults = {}
  <2>1. s = t
    <3>1. pc[s] \in Inside => s = t
      BY <1>1 DEF IInv, TypeOK
    <3> QED
      BY <1>2, <1>8, <3>1 DEF Inside, Statement
  <2>2. pc[t] = "clear"
    BY <1>1, <1>2, <1>8, <2>1 DEF Following
  <2> QED
    BY <1>3, <2>2
<1> QED
  BY <1>7, <1>8 DEF Cleared

\* Every other step takes a table that was seen before, and nobody to "flag" or "upsert" without it.
LEMMA OthersClear ==
    ASSUME IInv, Cleared, OneDefault, view' \in {view, disk},
           \A s \in Thread : \/ pc'[s] \notin {"flag", "upsert"} \/ (pc'[s] = "upsert" /\ call'[s].op # "default")
                             \/ UNCHANGED <<pc[s], call[s], view>>
    PROVE  Cleared'
BY DEF Cleared, OneDefault

\* The default is unique in what the connection sees and on disk.
LEMMA DefaultsStay ==
    ASSUME IInv, Cleared, OneDefault, [Next]_vars
    PROVE  Cleared' /\ OneDefault'
<1>1. OneDefault'
  <2>1. CASE disk' = disk
    BY <2>1 DEF OneDefault
  <2>2. CASE \E t \in Thread : Commit(t)
    BY <2>2 DEF Commit, Cleared, OneDefault
  <2> QED
    BY <2>1, <2>2, OnlyCommits
<1> SUFFICES Cleared'
  BY <1>1
<1>2. CASE UNCHANGED vars \/ Migrate
  <2>1. UNCHANGED <<view, pc, call>>
    BY <1>2 DEF vars, Migrate, Start, CheckMigration, RunStatement, RecordMigration, Serve, transaction, threads
  <2> QED
    BY <2>1 DEF Cleared
<1>3. CASE Crash \/ Exit
  <2>1. view' = disk /\ \A t \in Thread : pc'[t] = "idle"
    BY <1>3 DEF Crash, Exit, Die
  <2> QED
    BY <2>1, OthersClear
<1>4. CASE Close
  <2>1. view' = disk /\ UNCHANGED <<pc, call>> /\ \A t \in Thread : pc[t] = "idle" \/ orphan[t]
    BY <1>4 DEF Close, threads
  <2>2. \A t \in Thread : pc[t] \notin {"flag", "upsert"}
    <3>1. \A t \in Thread : orphan[t] => call[t].op = "write"
      BY DEF IInv, Working
    <3> QED
      BY <2>1, <3>1, WhoseStatement DEF Statement
  <2> QED
    BY <2>1, <2>2, OthersClear
<1>5. ASSUME NEW t \in Thread, NEW c \in Call, Request(t, c) PROVE Cleared'
  <2>1. UNCHANGED view /\ pc'[t] = "waiting" /\ \A s \in Thread \ {t} : UNCHANGED <<pc[s], call[s]>>
    BY <1>5 DEF Request, Goto, transaction, IInv, TypeOK
  <2> QED
    BY <2>1, OthersClear
<1>6. ASSUME NEW t \in Thread, Enter(t) PROVE Cleared'
  <2>1. UNCHANGED <<view, call>> /\ pc[t] = "waiting" /\ owner = NoThread /\ Begins(t)
    BY <1>6 DEF Enter, transaction
  <2>2. PICK where \in Statement : Goto(t, where) /\ where # "flag" /\ ~ (where = "upsert" /\ call[t].op = "default")
    BY <2>1, BeginsWell
  <2>3. pc'[t] = where /\ \A s \in Thread \ {t} : pc'[s] = pc[s]
    BY <2>2 DEF Goto, IInv, TypeOK
  <2> QED
    BY <2>1, <2>2, <2>3, OthersClear
<1>7. ASSUME NEW t \in Thread, Refuse(t) \/ Vacuum(t) \/ Commit(t) \/ Fails(t) \/ Reply(t)
      PROVE  Cleared'
  <2>1. view' \in {view, disk} /\ \E where \in {"commit", "done", "failed", "idle"} : Goto(t, where)
    BY <1>7 DEF Refuse, Vacuum, Commit, Fails, Reply, transaction
  <2>2. \A s \in Thread \ {t} : pc'[s] = pc[s] /\ call'[s] = call[s]
    BY <1>7 DEF Refuse, Vacuum, Commit, Fails, Reply, Goto, IInv, TypeOK
  <2>3. pc'[t] \in {"commit", "done", "failed", "idle"}
    BY <2>1 DEF Goto, IInv, TypeOK
  <2>4. CASE UNCHANGED view
    BY <2>1, <2>2, <2>3, <2>4, OthersClear
  <2>5. CASE Fails(t)
    <3>1. \A s \in Thread \ {t} : pc[s] \notin {"flag", "upsert"}
      <4>1. pc[t] \in Inside
        BY <2>5 DEF Fails, Inside
      <4> QED
        BY <4>1 DEF IInv, TypeOK, Inside, Statement
    <3> QED
      BY <2>1, <2>2, <2>3, <3>1, OthersClear
  <2> QED
    BY <1>7, <2>4, <2>5 DEF Refuse, Vacuum, Commit, Reply, transaction
<1>8. ASSUME NEW t \in Thread, Cancel(t) PROVE Cleared'
  BY <1>8 DEF Cancel, transaction, Cleared
<1> QED
  BY <1>2, <1>3, <1>4, <1>5, <1>6, <1>7, <1>8, ExecuteClears DEF Next

\* There is never more than one default on disk, whatever calls run at once and whichever
\* statements fail, even where the next commit writes what a failed call left in the transaction.
THEOREM Sole == Spec => []OneDefault
<1>1. Init => Cleared /\ OneDefault
  <2> SUFFICES ASSUME Init PROVE Cleared /\ OneDefault
    OBVIOUS
  <2>1. view.defaults = {} /\ disk.defaults = {} /\ \A t \in Thread : pc[t] = "idle"
    BY DEF Init
  <2> QED
    BY <2>1 DEF Cleared, OneDefault
<1>2. IInv /\ Cleared /\ OneDefault /\ [Next]_vars => Cleared' /\ OneDefault'
  BY DefaultsStay
<1>3. Spec => [](Cleared /\ OneDefault)
  BY <1>1, <1>2, Inductive, PTL DEF Spec
<1> QED
  BY <1>3, PTL
=============================================================================
