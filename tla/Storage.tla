------------------------------ MODULE Storage -------------------------------
(***************************************************************************)
(* The SQLite database of the API (class Database): migrations at every    *)
(* start, then calls from the event loop and from worker threads over one  *)
(* connection, with crashes and failing statements in between.             *)
(*                                                                         *)
(* Writers hold a lock from their first statement to their commit; a       *)
(* statement is a step.  The sqlite3 module opens a transaction before the *)
(* first write and leaves it open when a statement or the commit fails,    *)
(* unless SQLite has rolled it back; DDL is committed as it runs, and      *)
(* executescript commits first.  A transaction is what the connection sees *)
(* (view) before it is on disk.  Reads take no lock and change nothing.    *)
(*                                                                         *)
(* The tables are what these properties tell apart: which profiles exist   *)
(* and are the default, history rows and the names of presets.  A crash is *)
(* one of the process: the system and its disk survive.                    *)
(***************************************************************************)
EXTENDS Naturals, Sequences

CONSTANTS
    Thread,    \* threads that may be in a call: the event loop's and those of to_thread
    Provider,
    Entry,     \* history rows
    Preset,    \* preset ids
    Name,      \* names of presets, upper and lower case being the same
    NoThread, NoCall, Absent

ASSUME SentinelAssumption == NoThread \notin Thread /\ Absent \notin Name

\* The migrations and the objects each of their statements makes.
Version == 1..3
Script ==
    << <<"provider_configs", "search_history", "presets">>,
       <<"display_name", "idx_kind", "idx_query">>,
       <<"app_settings">> >>

Objects(v) == {Script[v][i] : i \in DOMAIN Script[v]}

\* ALTER TABLE has no IF NOT EXISTS.
Repeatable(object) == object # "display_name"

\* What the event loop calls: an upsert with or without is_default, set_default_provider, and
\* set_app_setting, whose value does not matter here.
LoopCall ==
    [op : {"default", "demote", "appoint"}, arg : Provider] \union {[op |-> "set", arg |-> Absent]}
Call ==
    LoopCall \union [op : {"write"}, arg : Entry] \union [op : {"delete"}, arg : SUBSET Entry]
    \union [op : {"save"}, arg : Name] \union [op : {"drop"}, arg : Preset]
    \union {[op |-> "vacuum", arg |-> Absent]}

ASSUME CallAssumption == NoCall \notin Call

VARIABLES
    boot,      \* "down", "migrating", "up" or "closing" (the connection was closed)
    version,   \* while migrating: the migration and the line of its script it is at
    line,
    recorded,  \* rows of schema_migrations on disk
    pending,   \* those not committed yet
    schema,    \* objects on disk
    disk,      \* the tables on disk
    view,      \* the tables as the connection sees them
    open,      \* the connection is in a transaction
    dirty,     \* history: what a failed call did is in that transaction
    owner,     \* of _lock
    pc,        \* pc[t]: the next statement of t's call
    call,      \* what t was asked
    preset,    \* the preset_id of its save
    orphan,    \* the request that awaited it is cancelled; the thread runs on
    owed       \* history: rows whose writing succeeded for somebody and that nobody set out to delete

vars == <<boot, version, line, recorded, pending, schema, disk, view, open, dirty, owner, pc, call,
          preset, orphan, owed>>
migration == <<version, line, recorded, pending, schema>>
threads == <<owner, pc, call, preset, orphan>>
transaction == <<disk, view, open, dirty>>

Tables ==
    [profiles : SUBSET Provider, defaults : SUBSET Provider, history : SUBSET Entry,
     presets : [Preset -> Name \union {Absent}]]

Statement == {"clear", "flag", "upsert", "insert", "delete", "rename", "dedupe", "add", "remove", "put", "vacuum"}
Inside == Statement \union {"commit"}

\* Types, and mutual exclusion: whoever is inside a transaction of its own holds the lock.
TypeOK ==
    /\ boot \in {"down", "migrating", "up", "closing"}
    /\ version \in 1..4 /\ line \in 0..4
    /\ recorded \subseteq Version /\ pending \subseteq Version
    /\ schema \subseteq UNION {Objects(v) : v \in Version}
    /\ disk \in Tables /\ view \in Tables
    /\ open \in BOOLEAN /\ dirty \in BOOLEAN
    /\ owner \in Thread \union {NoThread}
    /\ pc \in [Thread -> Inside \union {"idle", "waiting", "done", "failed"}]
    /\ call \in [Thread -> Call \union {NoCall}]
    /\ preset \in [Thread -> Preset \union {Absent}]
    /\ orphan \in [Thread -> BOOLEAN]
    /\ owed \subseteq Entry
    /\ \A t \in Thread : owner = t <=> pc[t] \in Inside

\* An installation, new or of an earlier release, which may have left presets of equal names.
Init ==
    /\ boot = "down" /\ version = 1 /\ line = 0
    /\ recorded \in {1..n : n \in 0..3} /\ pending = {}
    /\ schema = UNION {Objects(v) : v \in recorded}
    /\ \E presets \in [Preset -> Name \union {Absent}] :
           /\ recorded = {} => presets = [p \in Preset |-> Absent]
           /\ disk = [profiles |-> {}, defaults |-> {}, history |-> {}, presets |-> presets]
    /\ view = disk /\ open = FALSE /\ dirty = FALSE
    /\ owner = NoThread
    /\ pc = [t \in Thread |-> "idle"]
    /\ call = [t \in Thread |-> NoCall]
    /\ preset = [t \in Thread |-> Absent]
    /\ orphan = [t \in Thread |-> FALSE]
    /\ owed = {}

-----------------------------------------------------------------------------
\* initialize and _run_migrations.

Start ==
    /\ boot = "down"
    /\ boot' = "migrating" /\ version' = 1 /\ line' = 0
    /\ UNCHANGED <<recorded, pending, schema, transaction, threads, owed>>

\* Mutant: the row is inserted before the script runs, and executescript commits it.
CheckAndRecord ==
    /\ boot = "migrating" /\ version \in Version /\ line = 0
    /\ \/ version \in recorded \union pending
          /\ version' = version + 1
          /\ UNCHANGED <<line, recorded, pending>>
       \/ version \notin recorded \union pending
          /\ line' = 1 /\ recorded' = recorded \union pending \union {version} /\ pending' = {}
          /\ UNCHANGED version
    /\ UNCHANGED <<boot, schema, transaction, threads, owed>>

\* Is the migration recorded?  If not, executescript first commits what is pending.
CheckMigration ==
    /\ boot = "migrating" /\ version \in Version /\ line = 0
    /\ \/ version \in recorded \union pending
          /\ version' = version + 1
          /\ UNCHANGED <<line, recorded, pending>>
       \/ version \notin recorded \union pending
          /\ line' = 1 /\ recorded' = recorded \union pending /\ pending' = {}
          /\ UNCHANGED version
    /\ UNCHANGED <<boot, schema, transaction, threads, owed>>

\* A statement of the script takes effect at once.
RunStatement ==
    /\ boot = "migrating" /\ version \in Version /\ line \in DOMAIN Script[version]
    /\ LET object == Script[version][line]
       IN  /\ Repeatable(object) \/ object \notin schema
           /\ schema' = schema \union {object}
    /\ line' = line + 1
    /\ UNCHANGED <<boot, version, recorded, pending, transaction, threads, owed>>

RecordMigration ==
    /\ boot = "migrating" /\ version \in Version /\ line = Len(Script[version]) + 1
    /\ pending' = pending \union {version}
    /\ version' = version + 1 /\ line' = 0
    /\ UNCHANGED <<boot, recorded, schema, transaction, threads, owed>>

\* Mutant: initialize leaves the commit to whoever writes next.
ServeUncommitted ==
    /\ boot = "migrating" /\ version = 4
    /\ boot' = "up"
    /\ UNCHANGED <<version, line, recorded, pending, schema, transaction, threads, owed>>

\* All migrations are done, initialize commits.
Serve ==
    /\ boot = "migrating" /\ version = 4
    /\ boot' = "up"
    /\ recorded' = recorded \union pending /\ pending' = {}
    /\ UNCHANGED <<version, line, schema, transaction, threads, owed>>

\* The process ends and takes everything with it that is not on disk.
Die ==
    /\ boot' = "down"
    /\ version' = 1 /\ line' = 0 /\ pending' = {}
    /\ view' = disk /\ open' = FALSE /\ dirty' = FALSE
    /\ owner' = NoThread
    /\ pc' = [t \in Thread |-> "idle"]
    /\ call' = [t \in Thread |-> NoCall]
    /\ preset' = [t \in Thread |-> Absent]
    /\ orphan' = [t \in Thread |-> FALSE]
    /\ UNCHANGED <<recorded, schema, disk, owed>>

\* At any time; a migration that raises an error, like a column that is there already, ends it too.
Crash == boot # "down" /\ Die

-----------------------------------------------------------------------------
\* Calls.

Named(d, n) == {p \in Preset : d.presets[p] = n}

\* A synchronous call keeps the event loop from doing anything else.
LoopBusy == \E t \in Thread : pc[t] \in Inside \union {"waiting"} /\ call[t] \in LoopCall

Goto(t, where) == pc' = [pc EXCEPT ![t] = where]

\* A row to be written is new (its id is a fresh uuid).
Request(t, c) ==
    /\ boot = "up" /\ pc[t] = "idle" /\ ~ LoopBusy
    /\ c.op = "write" => c.arg \notin view.history \union disk.history /\ \A s \in Thread : call[s] # c
    /\ Goto(t, "waiting")
    /\ call' = [call EXCEPT ![t] = c]
    /\ UNCHANGED <<boot, migration, transaction, owner, preset, orphan, owed>>

\* What t's call does first once it has the lock; saving looks for a preset of that name.
Begins(t) ==
    LET c == call[t] IN
    \/ c.op = "write" /\ Goto(t, "insert") /\ UNCHANGED preset
    \/ c.op = "delete" /\ Goto(t, "delete") /\ UNCHANGED preset
    \/ c.op = "drop" /\ Goto(t, "remove") /\ UNCHANGED preset
    \/ c.op = "set" /\ Goto(t, "put") /\ UNCHANGED preset
    \/ c.op = "vacuum" /\ Goto(t, "vacuum") /\ UNCHANGED preset
    \/ c.op = "demote" /\ Goto(t, "upsert") /\ UNCHANGED preset
    \/ c.op = "default" /\ Goto(t, "clear") /\ UNCHANGED preset
    \/ c.op = "appoint" /\ c.arg \in view.profiles /\ Goto(t, "clear") /\ UNCHANGED preset
    \/ /\ c.op = "save"
       /\ \E p \in Preset :
              /\ preset' = [preset EXCEPT ![t] = p]
              /\ \/ p \in Named(view, c.arg) /\ Goto(t, "rename")
                 \/ Named(view, c.arg) = {} /\ view.presets[p] = Absent /\ Goto(t, "add")

\* Mutant: saving a preset does without the lock.
EnterUnlocked(t) ==
    /\ pc[t] = "waiting" /\ (call[t].op = "save" \/ owner = NoThread)
    /\ Begins(t)
    /\ owner' = t
    /\ UNCHANGED <<boot, migration, transaction, call, orphan, owed>>

Enter(t) ==
    /\ pc[t] = "waiting" /\ owner = NoThread
    /\ Begins(t)
    /\ owner' = t
    /\ UNCHANGED <<boot, migration, transaction, call, orphan, owed>>

\* set_default_provider does not know the profile, or it is disabled.
Refuse(t) ==
    /\ pc[t] = "waiting" /\ owner = NoThread /\ call[t].op = "appoint"
    /\ Goto(t, "failed")
    /\ UNCHANGED <<boot, migration, transaction, owner, call, preset, orphan, owed>>

\* The tables after t's next statement.
After(t, d) ==
    LET c == call[t]
        other == {q \in Named(d, c.arg) : q # preset[t]}
    IN  CASE pc[t] = "clear" -> [d EXCEPT !.defaults = {}]
          [] pc[t] = "flag" -> [d EXCEPT !.defaults = @ \union ({c.arg} \intersect d.profiles)]
          [] pc[t] = "upsert" ->
                 [d EXCEPT !.profiles = @ \union {c.arg},
                           !.defaults = IF c.op = "default" THEN @ \union {c.arg} ELSE @ \ {c.arg}]
          [] pc[t] = "insert" -> [d EXCEPT !.history = @ \union {c.arg}]
          [] pc[t] = "delete" -> [d EXCEPT !.history = @ \ c.arg]
          [] pc[t] = "add" -> [d EXCEPT !.presets[preset[t]] = c.arg]
          [] pc[t] = "dedupe" -> [d EXCEPT !.presets = [q \in Preset |-> IF q \in other THEN Absent ELSE @[q]]]
          [] pc[t] = "remove" -> [d EXCEPT !.presets[c.arg] = Absent]
          [] OTHER -> d

Following(t) ==
    CASE pc[t] = "clear" /\ call[t].op = "appoint" -> "flag"
      [] pc[t] = "clear" /\ call[t].op = "default" -> "upsert"
      [] pc[t] = "rename" -> "dedupe"
      [] OTHER -> "commit"

\* Mutant: every statement is committed by itself.
ExecuteAndCommit(t) ==
    /\ pc[t] \in Statement \ {"vacuum"}
    /\ view' = After(t, view) /\ disk' = view' /\ open' = FALSE /\ dirty' = FALSE
    /\ Goto(t, Following(t))
    /\ owed' = IF pc[t] = "delete" THEN owed \ call[t].arg ELSE owed
    /\ UNCHANGED <<boot, migration, owner, call, preset, orphan>>

\* Mutant: a new default takes the flag from itself instead of from all profiles.
ExecuteClearsItself(t) ==
    /\ pc[t] \in Statement \ {"vacuum"}
    /\ view' = IF pc[t] = "clear" THEN [view EXCEPT !.defaults = @ \ {call[t].arg}] ELSE After(t, view)
    /\ open' = TRUE
    /\ Goto(t, Following(t))
    /\ owed' = IF pc[t] = "delete" THEN owed \ call[t].arg ELSE owed
    /\ UNCHANGED <<boot, migration, disk, dirty, owner, call, preset, orphan>>

Execute(t) ==
    /\ pc[t] \in Statement \ {"vacuum"}
    /\ view' = After(t, view) /\ open' = TRUE
    /\ Goto(t, Following(t))
    /\ owed' = IF pc[t] = "delete" THEN owed \ call[t].arg ELSE owed
    /\ UNCHANGED <<boot, migration, disk, dirty, owner, call, preset, orphan>>

\* Mutant: the lock is not released when VACUUM fails.
VacuumKeepsLock(t) ==
    /\ pc[t] = "vacuum"
    /\ \/ ~ open /\ Goto(t, "commit")
       \/ open /\ Goto(t, "failed")
    /\ UNCHANGED <<boot, migration, transaction, owner, call, preset, orphan, owed>>

\* VACUUM fails inside a transaction, such as one a failed call left behind.
Vacuum(t) ==
    /\ pc[t] = "vacuum"
    /\ \/ ~ open /\ Goto(t, "commit") /\ UNCHANGED owner
       \/ open /\ Goto(t, "failed") /\ owner' = NoThread
    /\ UNCHANGED <<boot, migration, transaction, call, preset, orphan, owed>>

Commit(t) ==
    /\ pc[t] = "commit"
    /\ disk' = view /\ open' = FALSE /\ dirty' = FALSE
    /\ owner' = NoThread /\ Goto(t, "done")
    /\ owed' = IF call[t].op = "write" /\ ~ orphan[t] THEN owed \union {call[t].arg} ELSE owed
    /\ UNCHANGED <<boot, migration, view, call, preset, orphan>>

\* A statement or the commit fails (a full or failing disk): the error leaves the lock, and the
\* transaction stays open unless SQLite has rolled it back.
Fails(t) ==
    /\ pc[t] \in Statement \ {"vacuum"} \/ (pc[t] = "commit" /\ open)
    /\ owner' = NoThread /\ Goto(t, "failed")
    /\ \/ open' = TRUE /\ dirty' = TRUE /\ UNCHANGED view
       \/ open' = FALSE /\ dirty' = FALSE /\ view' = disk
    /\ UNCHANGED <<boot, migration, disk, call, preset, orphan, owed>>

\* The caller gets its reply or error.
Reply(t) ==
    /\ pc[t] \in {"done", "failed"} /\ ~ LoopBusy
    /\ Goto(t, "idle")
    /\ call' = [call EXCEPT ![t] = NoCall]
    /\ preset' = [preset EXCEPT ![t] = Absent]
    /\ orphan' = [orphan EXCEPT ![t] = FALSE]
    /\ UNCHANGED <<boot, migration, transaction, owner, owed>>

\* The research budget cancels a search that awaits its history row.
Cancel(t) ==
    /\ pc[t] # "idle" /\ call[t].op = "write" /\ ~ orphan[t] /\ ~ LoopBusy
    /\ orphan' = [orphan EXCEPT ![t] = TRUE]
    /\ UNCHANGED <<boot, migration, transaction, owner, pc, call, preset, owed>>

\* Mutant: the connection is closed while requests are still being served.
CloseAtOnce ==
    /\ boot = "up"
    /\ boot' = "closing"
    /\ view' = disk /\ open' = FALSE /\ dirty' = FALSE
    /\ UNCHANGED <<migration, disk, threads, owed>>

\* Shutdown: the server has let its requests finish, and closes the connection without the lock
\* while a thread nobody waits for may still use it; that thread will open another.
Close ==
    /\ boot = "up" /\ \A t \in Thread : pc[t] = "idle" \/ orphan[t]
    /\ boot' = "closing"
    /\ view' = disk /\ open' = FALSE /\ dirty' = FALSE
    /\ UNCHANGED <<migration, disk, threads, owed>>

\* The process waits for such threads.
Exit ==
    /\ boot = "closing" /\ \A t \in Thread : pc[t] \in {"idle", "done", "failed"}
    /\ Die

Migrate == Start \/ CheckMigration \/ RunStatement \/ RecordMigration \/ Serve
Next ==
    \/ Migrate \/ Crash \/ Close \/ Exit
    \/ \E t \in Thread : \E c \in Call : Request(t, c)
    \/ \E t \in Thread :
           \/ Enter(t) \/ Refuse(t) \/ Execute(t) \/ Vacuum(t) \/ Commit(t) \/ Fails(t)
           \/ Reply(t) \/ Cancel(t)

Spec == Init /\ [][Next]_vars

-----------------------------------------------------------------------------
\* Properties.

\* A migration is only recorded on disk when its whole script has taken effect, wherever a start
\* is interrupted: the implicit commit of executescript comes before the script.
RecordedIsApplied == \A v \in recorded : Objects(v) \subseteq schema

\* Once the API serves, every migration is recorded on disk, so however it ends the next start
\* does not run the ALTER TABLE again, which would fail.
UpIsRecorded == boot \in {"up", "closing"} => recorded = Version

\* "Durable history is stored in SQLite": a row whose writer succeeds is on disk until somebody
\* sets out to delete it, in spite of crashes, of others who fail or roll back, and of the shutdown.
HistoryIsDurable == owed \subseteq disk.history

\* What a call does to the tables, all at once.
Effect(c, d) ==
    CASE c.op = "write" -> {[d EXCEPT !.history = @ \union {c.arg}]}
      [] c.op = "delete" -> {[d EXCEPT !.history = @ \ c.arg]}
      [] c.op = "default" -> {[d EXCEPT !.profiles = @ \union {c.arg}, !.defaults = {c.arg}]}
      [] c.op = "demote" -> {[d EXCEPT !.profiles = @ \union {c.arg}, !.defaults = @ \ {c.arg}]}
      [] c.op = "appoint" -> {[d EXCEPT !.defaults = {c.arg}]}
      [] c.op = "drop" -> {[d EXCEPT !.presets[c.arg] = Absent]}
      [] c.op = "save" ->
             {[d EXCEPT !.presets = [q \in Preset |-> IF q = p THEN c.arg
                                                     ELSE IF @[q] = c.arg THEN Absent ELSE @[q]]] :
                 p \in IF Named(d, c.arg) # {} THEN Named(d, c.arg) ELSE Named(d, Absent)}
      [] OTHER -> {d}

\* As long as no failed call has left a transaction behind, what reaches the disk is one call of
\* one thread, whole: no default is lost between two statements.
AllOrNothing ==
    [][~ dirty => disk' = disk \/ \E t \in Thread : pc[t] = "commit" /\ disk' \in Effect(call[t], disk)]_vars

\* Two presets on disk never come to share a name, however many threads save it at once.
NoNamesakes ==
    [][\A p, q \in Preset :
          p # q /\ disk'.presets[p] = disk'.presets[q] /\ disk'.presets[p] # Absent
              => disk.presets[p] = disk.presets[q]]_vars

\* get_default_provider_name takes any profile with the flag: there is never more than one, not
\* even when the next commit writes what a failed call left behind.  There may well be none.
OneDefault == \A p, q \in disk.defaults : p = q

-----------------------------------------------------------------------------
\* The inductive invariant.

\* What is recorded or about to be has taken effect, and so has the part of the script so far.
Migrated ==
    /\ boot # "migrating" => pending = {}
    /\ boot = "migrating" => \A v \in Version : v < version => v \in recorded \union pending
    /\ \A v \in recorded \union pending : Objects(v) \subseteq schema
    /\ boot = "migrating" /\ version \in Version =>
           line <= Len(Script[version]) + 1 /\ \A i \in 1..(line - 1) : Script[version][i] \in schema

\* What the connection sees is what is on disk, but for the transaction it is in.
Seen ==
    /\ ~ open => view = disk /\ ~ dirty
    /\ owner = NoThread /\ ~ dirty => view = disk
    /\ owed \subseteq disk.history \intersect view.history
    /\ \A p, q \in Preset :
          p # q /\ view.presets[p] = view.presets[q] /\ view.presets[p] # Absent
              => disk.presets[p] = disk.presets[q]

\* The statements of each call.
Statements(op) ==
    CASE op = "write" -> {"insert"}
      [] op = "delete" -> {"delete"}
      [] op = "drop" -> {"remove"}
      [] op = "set" -> {"put"}
      [] op = "vacuum" -> {"vacuum"}
      [] op = "demote" -> {"upsert"}
      [] op = "default" -> {"clear", "upsert"}
      [] op = "appoint" -> {"clear", "flag"}
      [] op = "save" -> {"rename", "dedupe", "add"}
      [] OTHER -> {}

\* What t has done to the tables when no failed call did anything before.
Progress(t) ==
    LET c == call[t]
    IN  CASE pc[t] = "commit" -> view \in Effect(c, disk) \union {disk}
          [] pc[t] = "flag" -> view = [disk EXCEPT !.defaults = {}] /\ c.arg \in disk.profiles
          [] pc[t] = "upsert" /\ c.op = "default" -> view = [disk EXCEPT !.defaults = {}]
          [] OTHER -> view = disk

\* What a thread in a call knows.
Working(t) ==
    /\ pc[t] # "idle" => call[t] \in Call
    /\ pc[t] = "idle" => ~ orphan[t]
    /\ orphan[t] => call[t].op = "write"
    /\ pc[t] \in Statement => pc[t] \in Statements(call[t].op)
    /\ pc[t] = "clear" /\ call[t].op = "appoint" => call[t].arg \in view.profiles
    /\ pc[t] \in {"rename", "dedupe"} => preset[t] \in Preset /\ view.presets[preset[t]] = call[t].arg
    /\ pc[t] = "add" => preset[t] \in Preset /\ Named(view, call[t].arg) = {} /\ view.presets[preset[t]] = Absent
    /\ pc[t] = "commit" /\ call[t].op = "write" /\ ~ orphan[t] => call[t].arg \in view.history
    /\ pc[t] \in Inside /\ ~ dirty => Progress(t)

\* No default is added but to a table that was cleared under the same lock.
Cleared ==
    /\ \A p, q \in view.defaults : p = q
    /\ \A t \in Thread :
          pc[t] = "flag" \/ (pc[t] = "upsert" /\ call[t].op = "default") => view.defaults = {}

IInv == TypeOK /\ UpIsRecorded /\ Migrated /\ Seen /\ \A t \in Thread : Working(t)
=============================================================================
