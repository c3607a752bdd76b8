------------------------------ MODULE Coalesce ------------------------------
(***************************************************************************)
(* The hot cache of the API and its request coalescing (CacheService):     *)
(* get_json, set_json, coalesce and invalidate_namespace, used by many     *)
(* asyncio tasks of one process.                                           *)
(*                                                                         *)
(* Grain of atomicity.  A task is interrupted only where it awaits         *)
(* something that is not ready.  The memory backend never is: its lock is  *)
(* free whenever it is tried, so a get or a set is one step with the code  *)
(* around it.  A Valkey call is three: the request is sent, the server     *)
(* applies it, the task resumes with the reply.  asyncio.Lock is external: *)
(* a free lock without waiters is taken without yielding, other callers    *)
(* queue first-in first-out, a release makes the head of the queue         *)
(* runnable and nobody overtakes it.  A request that Valkey has not        *)
(* applied when its task is cancelled is taken to be lost with the         *)
(* connection.                                                             *)
(*                                                                         *)
(* A cached value is represented by the generation of its key in which its *)
(* loader started: the number of invalidations of the key's namespace      *)
(* before that.  Expiry is a step that may happen at any time.             *)
(***************************************************************************)
EXTENDS Integers, Sequences

CONSTANTS
    Task,          \* the asyncio tasks that use the cache
    Key,           \* the cache keys
    LockId,        \* identities of asyncio.Lock objects, reused once collected
    Namespace(_),  \* the namespace prefix of a key
    MaxGen,        \* bound: invalidations of one namespace
    NoKey, NoLock, NoTask, Absent

ASSUME SentinelAssumption ==
    NoKey \notin Key /\ NoLock \notin LockId /\ NoTask \notin Task /\ Absent \notin Nat
ASSUME GenAssumption == MaxGen \in Nat

VARIABLES
    valkey,    \* TRUE when connect() reached Valkey, FALSE for the memory backend
    pc,        \* pc[t]: where task t is, "idle" outside the cache service
    key,       \* key[t]: the key of t's call
    ref,       \* ref[t]: the lock object t got from _get_lock, while in coalesce's try block
    got,       \* got[t]: the Valkey reply t has not resumed with yet
    started,   \* started[t]: generation of the key when t's load began
    table,     \* table[k]: the entry of _singleflight, or NoLock
    owner,     \* owner[l]: the task inside "async with lock"
    queue,     \* queue[l]: the tasks waiting for the lock, oldest first
    store,     \* store[k]: the generation of the cached value, or Absent
    gen,       \* gen[k]: invalidations of k's namespace so far
    sweep,     \* keys found by SCAN that the running invalidation still has to delete
    exempt,    \* keys the last invalidation promises nothing about
    disturbed, \* history: k lost a load or its value in the current busy period of k
    flights    \* history: coalesced loads begun in the busy period while it was not disturbed

vars == <<valkey, pc, key, ref, got, started, table, owner, queue, store, gen, sweep, exempt,
          disturbed, flights>>
lockVars == <<table, owner, queue>>
settled == <<valkey, gen, sweep, exempt>>  \* what no call changes
historyVars == <<disturbed, flights>>

Loading == {"load", "store"}
Phase == {"idle", "probe", "probed", "queued", "recheck", "rechecked", "load", "store", "stored", "refresh"}

Cached == Nat \union {Absent}

\* The tasks inside coalesce's try block for key k.
Region(k) == {t \in Task : key[t] = k /\ ref[t] # NoLock}

\* Lock objects somebody still holds a reference to; the others are garbage.
Referenced == {table[k] : k \in Key} \union {ref[t] : t \in Task}

TypeOK ==
    /\ valkey \in BOOLEAN
    /\ pc \in [Task -> Phase]
    /\ key \in [Task -> Key \union {NoKey}]
    /\ ref \in [Task -> LockId \union {NoLock}]
    /\ got \in [Task -> Cached]
    /\ started \in [Task -> Nat]
    /\ table \in [Key -> LockId \union {NoLock}]
    /\ owner \in [LockId -> Task \union {NoTask}]
    /\ queue \in [LockId -> Seq(Task)]
    /\ store \in [Key -> Cached]
    /\ gen \in [Key -> Nat]
    /\ sweep \subseteq Key
    /\ exempt \subseteq Key
    /\ disturbed \in [Key -> BOOLEAN]
    /\ flights \in [Key -> Nat]

Init ==
    /\ valkey \in BOOLEAN
    /\ pc = [t \in Task |-> "idle"]
    /\ key = [t \in Task |-> NoKey]
    /\ ref = [t \in Task |-> NoLock]
    /\ got = [t \in Task |-> Absent]
    /\ started = [t \in Task |-> 0]
    /\ table = [k \in Key |-> NoLock]
    /\ owner = [l \in LockId |-> NoTask]
    /\ queue = [l \in LockId |-> <<>>]
    /\ store = [k \in Key |-> Absent]
    /\ gen = [k \in Key |-> 0]
    /\ sweep = {}
    /\ exempt = {}
    /\ disturbed = [k \in Key |-> FALSE]
    /\ flights = [k \in Key |-> 0]

-----------------------------------------------------------------------------
\* The history variables.  A busy period of a key lasts while somebody is inside
\* coalesce for it.  It is disturbed from its first mishap on: a caller leaves without
\* having put or found a value, or the value is removed.

BeginsFlight(t, k) == key'[t] = k /\ ref'[t] # NoLock /\ pc[t] # "load" /\ pc'[t] = "load"

Disturb(ks) ==
    /\ disturbed' = [k \in Key |-> (disturbed[k] \/ k \in ks) /\ Region(k)' # {}]
    /\ flights' = [k \in Key |->
           IF Region(k)' = {} THEN 0
           ELSE IF ~disturbed[k] /\ \E t \in Task : BeginsFlight(t, k) THEN flights[k] + 1
           ELSE flights[k]]

Settle == Disturb({})

\* Pieces of coalesce.

Move(t, phase) == pc' = [pc EXCEPT ![t] = phase]

BeginLoad(t, k, phase) ==
    /\ Move(t, phase)
    /\ started' = [started EXCEPT ![t] = gen[k]]

\* The task's call is over: its locals are gone.
Return(t) ==
    /\ Move(t, "idle")
    /\ key' = [key EXCEPT ![t] = NoKey]
    /\ ref' = [ref EXCEPT ![t] = NoLock]
    /\ got' = [got EXCEPT ![t] = Absent]
    /\ started' = [started EXCEPT ![t] = 0]

\* "async with lock" lets go, if t was inside it.
Release(t) == owner' = [l \in LockId |-> IF owner[l] = t THEN NoTask ELSE owner[l]]

\* The finally clause: drop the table entry if it is still this task's lock.
PopEntry(t) == table' = [k \in Key |-> IF k = key[t] /\ table[k] = ref[t] THEN NoLock ELSE table[k]]

\* Mutant: _get_lock makes a lock although the table has one.
EnterOwnLock(t, k) ==
    \E l \in LockId \ Referenced :
        /\ table' = [table EXCEPT ![k] = l]
        /\ ref' = [ref EXCEPT ![t] = l]
        /\ owner' = [owner EXCEPT ![l] = t] /\ UNCHANGED queue
        /\ IF valkey THEN Move(t, "recheck") /\ UNCHANGED started ELSE BeginLoad(t, k, "load")

\* _get_lock followed by lock.acquire(): nothing here yields unless the lock is taken.
\* With the memory backend the get_json under the lock does not yield either and
\* misses as the one before it did, so the loader starts in the same step.
Enter(t, k) ==
    \E l \in LockId :
        /\ IF table[k] # NoLock THEN l = table[k] ELSE l \notin Referenced
        /\ table' = [table EXCEPT ![k] = l]
        /\ ref' = [ref EXCEPT ![t] = l]
        /\ \/ /\ owner[l] = NoTask /\ queue[l] = <<>>
              /\ owner' = [owner EXCEPT ![l] = t]
              /\ UNCHANGED queue
              /\ IF valkey THEN Move(t, "recheck") /\ UNCHANGED started
                           ELSE BeginLoad(t, k, "load")
           \/ /\ ~ (owner[l] = NoTask /\ queue[l] = <<>>)
              /\ queue' = [queue EXCEPT ![l] = Append(@, t)]
              /\ Move(t, "queued")
              /\ UNCHANGED <<owner, started>>

-----------------------------------------------------------------------------
\* coalesce, one action per stretch of code between two awaits.

\* A call arrives.  Memory: the first get_json answers at once and a hit returns
\* without leaving a trace.  Valkey: the GET is sent.
Call(t, k) ==
    /\ pc[t] = "idle"
    /\ key' = [key EXCEPT ![t] = k]
    /\ \/ valkey /\ Move(t, "probe") /\ UNCHANGED <<ref, started, lockVars>>
       \/ ~valkey /\ store[k] = Absent /\ Enter(t, k)
    /\ UNCHANGED <<got, store, settled>>
    /\ Settle

\* Valkey answers a GET: the one before the lock or the one under it.
ServeGet(t) ==
    /\ \/ pc[t] = "probe" /\ Move(t, "probed")
       \/ pc[t] = "recheck" /\ Move(t, "rechecked")
    /\ got' = [got EXCEPT ![t] = store[key[t]]]
    /\ UNCHANGED <<key, ref, started, lockVars, store, settled, historyVars>>

\* The first get_json was a hit.
ProbeHit(t) ==
    /\ pc[t] = "probed" /\ got[t] # Absent
    /\ Return(t)
    /\ UNCHANGED <<lockVars, store, settled, historyVars>>

\* The first get_json was a miss.
ProbeMiss(t) ==
    /\ pc[t] = "probed" /\ got[t] = Absent
    /\ Enter(t, key[t])
    /\ UNCHANGED <<key, got, store, settled>>
    /\ Settle

\* Mutant: who waited for the lock does not look into the cache again.
WakeWithoutRecheck(t) ==
    /\ pc[t] = "queued" /\ owner[ref[t]] = NoTask
    /\ queue[ref[t]] # <<>> /\ Head(queue[ref[t]]) = t
    /\ queue' = [queue EXCEPT ![ref[t]] = Tail(@)]
    /\ owner' = [owner EXCEPT ![ref[t]] = t]
    /\ BeginLoad(t, key[t], "load")
    /\ UNCHANGED <<key, ref, got, table, store, settled>>
    /\ Settle

\* The head of the queue runs after a release, rechecks the cache and loads on a miss.
Wake(t) ==
    /\ pc[t] = "queued" /\ owner[ref[t]] = NoTask
    /\ queue[ref[t]] # <<>> /\ Head(queue[ref[t]]) = t
    /\ queue' = [queue EXCEPT ![ref[t]] = Tail(@)]
    /\ \/ /\ valkey \/ store[key[t]] = Absent
          /\ owner' = [owner EXCEPT ![ref[t]] = t]
          /\ IF valkey THEN Move(t, "recheck") /\ UNCHANGED started
                       ELSE BeginLoad(t, key[t], "load")
          /\ UNCHANGED <<key, ref, got, table>>
       \/ /\ ~valkey /\ store[key[t]] # Absent
          /\ PopEntry(t) /\ Return(t)
          /\ UNCHANGED owner
    /\ UNCHANGED <<store, settled>>
    /\ Settle

RecheckHit(t) ==
    /\ pc[t] = "rechecked" /\ got[t] # Absent
    /\ Release(t) /\ PopEntry(t) /\ Return(t)
    /\ UNCHANGED <<queue, store, settled>>
    /\ Settle

RecheckMiss(t) ==
    /\ pc[t] = "rechecked" /\ got[t] = Absent
    /\ BeginLoad(t, key[t], "load")
    /\ UNCHANGED <<key, ref, got, lockVars, store, settled>>
    /\ Settle

\* The loader returns.  Memory: set_json, release and pop happen before anyone else runs.
LoaderReturns(t) ==
    /\ pc[t] = "load"
    /\ \/ /\ valkey
          /\ Move(t, "store")
          /\ UNCHANGED <<key, ref, got, started, lockVars, store, historyVars>>
       \/ /\ ~valkey
          /\ store' = [store EXCEPT ![key[t]] = started[t]]
          /\ Release(t) /\ PopEntry(t) /\ Return(t)
          /\ UNCHANGED queue
          /\ Settle
    /\ UNCHANGED settled

\* Valkey applies a SET.
ServeSet(t) ==
    /\ pc[t] = "store"
    /\ store' = [store EXCEPT ![key[t]] = started[t]]
    /\ Move(t, "stored")
    /\ UNCHANGED <<key, ref, got, started, lockVars, settled, historyVars>>

\* set_json returns: a coalesced loader leaves the lock, a refresh has nothing to leave.
StoreReturns(t) ==
    /\ pc[t] = "stored"
    /\ Release(t) /\ PopEntry(t) /\ Return(t)
    /\ UNCHANGED <<queue, store, settled>>
    /\ Settle

-----------------------------------------------------------------------------
\* A write that does not go through coalesce: cache_policy "refresh" runs the
\* loader without a lock and then calls set_json.

RefreshStart(t, k) ==
    /\ pc[t] = "idle"
    /\ BeginLoad(t, k, "refresh")
    /\ key' = [key EXCEPT ![t] = k]
    /\ UNCHANGED <<ref, got, lockVars, store, settled, historyVars>>

RefreshReturns(t) ==
    /\ pc[t] = "refresh"
    /\ \/ /\ valkey
          /\ Move(t, "store")
          /\ UNCHANGED <<key, ref, got, started, store>>
       \/ /\ ~valkey
          /\ store' = [store EXCEPT ![key[t]] = started[t]]
          /\ Return(t)
    /\ UNCHANGED <<lockVars, settled, historyVars>>

-----------------------------------------------------------------------------
\* What goes wrong.

\* Mutant: no finally clause, the table entry stays when a call fails.
AbortKeepsEntry(t) ==
    /\ pc[t] \notin {"idle", "queued"}
    /\ LET inside == ref[t] # NoLock IN
           /\ Release(t) /\ Return(t)
           /\ Disturb(IF inside THEN {key[t]} ELSE {})
    /\ UNCHANGED <<table, queue, store, settled>>

\* Mutant: the lock is acquired and released by hand, and a failure skips the release.
AbortKeepsLock(t) ==
    /\ pc[t] \notin {"idle", "queued"}
    /\ LET inside == ref[t] # NoLock IN
           /\ PopEntry(t) /\ Return(t)
           /\ Disturb(IF inside THEN {key[t]} ELSE {})
    /\ UNCHANGED <<owner, queue, store, settled>>

\* The loader raises, Valkey refuses a call, or the task is cancelled while it is not
\* waiting for the lock: the exception leaves through "async with" and finally.
Abort(t) ==
    /\ pc[t] \notin {"idle", "queued"}
    /\ LET inside == ref[t] # NoLock IN
           /\ Release(t) /\ PopEntry(t) /\ Return(t)
           /\ Disturb(IF inside THEN {key[t]} ELSE {})
    /\ UNCHANGED <<queue, store, settled>>

\* Mutant: a caller cancelled in the queue stays there, and is woken in vain.
CancelWaitStaysInLine(t) ==
    /\ pc[t] = "queued"
    /\ PopEntry(t) /\ Return(t)
    /\ UNCHANGED <<owner, queue, store, settled>>
    /\ Disturb({key[t]})

\* The task is cancelled while it waits for the lock; the finally clause runs all the same.
CancelWait(t) ==
    /\ pc[t] = "queued"
    /\ \E i \in DOMAIN queue[ref[t]] :
           /\ queue[ref[t]][i] = t
           /\ queue' = [queue EXCEPT ![ref[t]] = SubSeq(@, 1, i - 1) \o SubSeq(@, i + 1, Len(@))]
    /\ PopEntry(t) /\ Return(t)
    /\ UNCHANGED <<owner, store, settled>>
    /\ Disturb({key[t]})

\* An entry's time to live elapses.
Expire(k) ==
    /\ store[k] # Absent
    /\ store' = [store EXCEPT ![k] = Absent]
    /\ UNCHANGED <<pc, key, ref, got, started, lockVars, settled>>
    /\ Disturb({k})

-----------------------------------------------------------------------------
\* invalidate_namespace

\* A load that is under way keeps its value and stores it afterwards: the invalidation
\* makes no promise about its key.
InFlight(k) == \E t \in Task : key[t] = k /\ pc[t] \in Loading \union {"refresh"}

\* The invalidation starts.  Memory: every key of the namespace is gone at once.
\* Valkey: SCAN returns at least the keys present throughout.
Invalidate(ns) ==
    LET hit == {k \in Key : Namespace(k) = ns}
    IN  /\ sweep = {}
        /\ \A k \in hit : gen[k] < MaxGen
        /\ gen' = [k \in Key |-> IF k \in hit THEN gen[k] + 1 ELSE gen[k]]
        /\ exempt' = (exempt \ hit) \union {k \in hit : InFlight(k)}
        /\ UNCHANGED <<valkey, pc, key, ref, got, started, lockVars>>
        /\ \/ /\ valkey
              /\ sweep' = {k \in hit : store[k] # Absent}
              /\ UNCHANGED <<store, historyVars>>
           \/ /\ ~valkey
              /\ store' = [k \in Key |-> IF k \in hit THEN Absent ELSE store[k]]
              /\ UNCHANGED sweep
              /\ Disturb(hit)

\* Valkey deletes one of the keys.
SweepDelete(k) ==
    /\ k \in sweep
    /\ sweep' = sweep \ {k}
    /\ store' = [store EXCEPT ![k] = Absent]
    /\ UNCHANGED <<valkey, pc, key, ref, got, started, lockVars, gen, exempt>>
    /\ Disturb({k})

\* Mutant: a failed SCAN or DEL ends the invalidation as if it were complete.
SweepAbortsQuietly ==
    /\ sweep # {}
    /\ sweep' = {}
    /\ UNCHANGED <<valkey, pc, key, ref, got, started, lockVars, store, gen, exempt, historyVars>>

\* A SCAN or DEL raises: the keys left are not deleted and the caller gets an error.
SweepAborts ==
    /\ sweep # {}
    /\ exempt' = exempt \union sweep
    /\ sweep' = {}
    /\ UNCHANGED <<valkey, pc, key, ref, got, started, lockVars, store, gen, historyVars>>

-----------------------------------------------------------------------------
\* What a task does by itself once it has called, until its call is over.
Advance(t) ==
    \/ ServeGet(t) \/ ProbeHit(t) \/ ProbeMiss(t) \/ Wake(t) \/ RecheckHit(t) \/ RecheckMiss(t)
    \/ LoaderReturns(t) \/ ServeSet(t) \/ StoreReturns(t) \/ RefreshReturns(t)

Next ==
    \/ \E t \in Task : \E k \in Key : Call(t, k) \/ RefreshStart(t, k)
    \/ \E t \in Task : Advance(t) \/ Abort(t) \/ CancelWait(t)
    \/ \E k \in Key : Expire(k) \/ SweepDelete(k) \/ Invalidate(Namespace(k))
    \/ SweepAborts

Spec == Init /\ [][Next]_vars

\* Loaders end (they carry timeouts) and Valkey answers; nothing makes a caller call,
\* an entry expire or a task be cancelled.
FairSpec == Spec /\ \A t \in Task : WF_vars(Advance(t))

-----------------------------------------------------------------------------
\* Properties.

\* Request coalescing: however many tasks ask for a key at the same time, its loader runs
\* at most once until they are all served, unless something disturbs the key in between (a
\* failed or cancelled call, an expiry, an invalidation).
SingleFlight == \A k \in Key : ~disturbed[k] => flights[k] <= 1

\* The table of locks does not leak: an entry is the lock of a task that is still inside
\* coalesce for that key, so at quiescence the table is empty.
TableLive ==
    \A k \in Key : table[k] # NoLock => \E t \in Region(k) : ref[t] = table[k]

\* The cache service keeps its contract, on either backend: entries of the lock table, locks
\* and queues are its own affair.
Holders(k) == {t \in Region(k) : pc[t] # "queued"}

Contract ==
    INSTANCE CoalesceContract WITH
        Caller <- Task,
        inside <- [k \in Key |-> Region(k)],
        holding <- [k \in Key |-> Holders(k)],
        forked <- {k \in Key : \E t \in Region(k) : ref[t] # table[k]}

KeepsContract == Contract!Spec

\* Two callers that share a lock object want the same key: waiting never crosses keys.
LocksAreKeyed ==
    \A t, u \in Task : ref[t] # NoLock /\ ref[t] = ref[u] => key[t] = key[u]

\* A task past the lock owns it, so one lock never admits two tasks.
OwnerHolds ==
    \A t \in Task :
        ref[t] # NoLock /\ pc[t] # "queued" => owner[ref[t]] = t

\* After an invalidation is over, the cache holds no value loaded before it, except for
\* keys whose load was running when it started or that it failed to delete.
InvalidationHolds ==
    \A k \in Key \ (exempt \union sweep) : store[k] \in {Absent, gen[k]}

\* What keeps it true: a load begun before the last invalidation is one of an exempt key.
LoadsKnown ==
    \A t \in Task :
        pc[t] \in Loading \union {"refresh"} /\ key[t] \notin exempt => started[t] = gen[key[t]]

\* The inductive invariant.  Where a task is decides what it holds; and as long as a key
\* is undisturbed, either its value is in the store or every task inside coalesce for it
\* waits on the one lock of the table.

Held == {"recheck", "rechecked", "load"}
LockPhase == Held \union {"queued", "store", "stored"}

\* Who waits for a lock is in its queue, once, and who has it is inside and past the queue.
Lines ==
    \A l \in LockId :
        /\ owner[l] # NoTask => ref[owner[l]] = l /\ pc[owner[l]] # "queued"
        /\ {queue[l][i] : i \in DOMAIN queue[l]} = {t \in Task : ref[t] = l /\ pc[t] = "queued"}
        /\ \A i, j \in DOMAIN queue[l] : queue[l][i] = queue[l][j] => i = j

\* Nobody is forgotten in a queue, whoever fails or is cancelled before, behind or around him, and
\* with however many locks for the key: the lock a task waits for is held by somebody past the
\* queue, whose call ends by itself, or is free, and then the head of the queue can take it.
NobodyForgotten ==
    \A t \in Task : pc[t] = "queued" =>
        LET l == ref[t]
        IN  \/ owner[l] \in Task /\ pc[owner[l]] \in Held \union {"store", "stored"}
            \/ /\ owner[l] = NoTask /\ queue[l] # <<>>
               /\ pc[Head(queue[l])] = "queued" /\ ref[Head(queue[l])] = l

Places ==
    \A t \in Task :
        /\ pc[t] # "idle" => key[t] \in Key
        /\ pc[t] \in Held \union {"queued"} => ref[t] # NoLock
        /\ ref[t] # NoLock => pc[t] \in LockPhase
        /\ pc[t] \in {"probe", "probed"} => valkey

WillLoad(t) == pc[t] = "rechecked" /\ got[t] = Absent

Undisturbed(k) ==
    /\ store[k] = Absent => \A t \in Region(k) : ref[t] = table[k]
    /\ flights[k] \in {0, 1}
    /\ flights[k] = 1 /\ store[k] = Absent => \E t \in Region(k) : pc[t] \in Loading
    /\ \A t \in Region(k) :
           /\ pc[t] \in Loading => flights[k] = 1
           /\ WillLoad(t) => flights[k] = 0
           /\ WillLoad(t) => \A u \in Region(k) : WillLoad(u) => t = u
           /\ pc[t] = "rechecked" /\ got[t] # Absent => store[k] # Absent
           /\ pc[t] = "stored" => store[k] # Absent

QuietKeys == \A k \in Key : Region(k) = {} => flights[k] = 0

Structure == Places /\ TableLive /\ LocksAreKeyed /\ OwnerHolds

Flights == \A k \in Key : ~disturbed[k] => Undisturbed(k)

IInv == TypeOK /\ Structure /\ QuietKeys /\ Flights

\* How many steps a call has left at most, and who is before t in the queue of its lock.
Distance ==
    [probe |-> 8, probed |-> 7, queued |-> 6, recheck |-> 5, rechecked |-> 4, load |-> 3, refresh |-> 3,
     store |-> 2, stored |-> 1, idle |-> 0]

Before(t) ==
    LET q == queue[ref[t]] IN {q[i] : i \in {j \in DOMAIN q : \E n \in DOMAIN q : j < n /\ q[n] = t}}

\* Calls of coalesce advance: a step of a call brings it closer to its end, and while it waits it
\* keeps its lock and nobody gets before it, whoever else calls, is cancelled or fails.
CallsAdvance ==
    [][\A t \in Task : pc[t] # "idle" =>
          \/ Distance[pc'[t]] < Distance[pc[t]]
          \/ /\ pc'[t] = pc[t] /\ ref'[t] = ref[t]
             /\ pc[t] = "queued" => Before(t)' \subseteq Before(t)]_vars

\* Every call ends.
CallsEnd == \A t \in Task : pc[t] # "idle" ~> pc[t] = "idle"
=============================================================================
