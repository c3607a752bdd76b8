--------------------------- MODULE CoalesceProofs ---------------------------
(***************************************************************************)
(* Proofs about Coalesce: types, the request coalescing promise, what an   *)
(* invalidation leaves, the queues of the locks, and that the cache service*)
(* implements CoalesceContract.                                            *)
(***************************************************************************)
EXTENDS Coalesce, SequenceTheorems, TLAPS

USE DEF vars, lockVars, settled, historyVars

-----------------------------------------------------------------------------
\* Types.

LEMMA ReturnTypes ==
    ASSUME TypeOK, NEW t \in Task, Return(t)
    PROVE  /\ pc' \in [Task -> Phase]
           /\ key' \in [Task -> Key \union {NoKey}]
           /\ ref' \in [Task -> LockId \union {NoLock}]
           /\ got' \in [Task -> Cached]
           /\ started' \in [Task -> Nat]
  BY DEF TypeOK, Return, Move, Phase, Cached

LEMMA PopEntryTypes ==
    ASSUME TypeOK, NEW t, PopEntry(t)
    PROVE  table' \in [Key -> LockId \union {NoLock}]
  BY DEF TypeOK, PopEntry

LEMMA ReleaseTypes ==
    ASSUME TypeOK, NEW t, Release(t)
    PROVE  owner' \in [LockId -> Task \union {NoTask}]
  BY DEF TypeOK, Release

LEMMA DisturbTypes ==
    ASSUME TypeOK, NEW ks, Disturb(ks)
    PROVE  disturbed' \in [Key -> BOOLEAN] /\ flights' \in [Key -> Nat]
  BY DEF TypeOK, Disturb

LEMMA BeginLoadTypes ==
    ASSUME TypeOK, NEW t \in Task, NEW k \in Key, NEW phase \in Phase, BeginLoad(t, k, phase)
    PROVE  pc' \in [Task -> Phase] /\ started' \in [Task -> Nat]
  BY DEF TypeOK, BeginLoad, Move

LEMMA EnterTypes ==
    ASSUME TypeOK, NEW t \in Task, NEW k \in Key, Enter(t, k)
    PROVE  /\ pc' \in [Task -> Phase]
           /\ ref' \in [Task -> LockId \union {NoLock}]
           /\ started' \in [Task -> Nat]
           /\ table' \in [Key -> LockId \union {NoLock}]
           /\ owner' \in [LockId -> Task \union {NoTask}]
           /\ queue' \in [LockId -> Seq(Task)]
  <1>1. PICK l \in LockId :
          /\ table' = [table EXCEPT ![k] = l]
          /\ ref' = [ref EXCEPT ![t] = l]
          /\ \/ /\ owner' = [owner EXCEPT ![l] = t]
                /\ UNCHANGED queue
                /\ IF valkey THEN Move(t, "recheck") /\ UNCHANGED started
                             ELSE BeginLoad(t, k, "load")
             \/ /\ queue' = [queue EXCEPT ![l] = Append(@, t)]
                /\ Move(t, "queued")
                /\ UNCHANGED <<owner, started>>
    BY DEF Enter
  <1>2. queue' \in [LockId -> Seq(Task)]
    <2>1. Append(queue[l], t) \in Seq(Task)
      BY AppendProperties DEF TypeOK
    <2> QED BY <1>1, <2>1 DEF TypeOK
  <1>3. owner' \in [LockId -> Task \union {NoTask}]
    BY <1>1 DEF TypeOK
  <1>4. pc' \in [Task -> Phase] /\ started' \in [Task -> Nat]
    <2>1. CASE BeginLoad(t, k, "load")
      BY <2>1, BeginLoadTypes DEF Phase
    <2>2. ASSUME NEW phase \in Phase, Move(t, phase), UNCHANGED started
          PROVE  pc' \in [Task -> Phase] /\ started' \in [Task -> Nat]
      BY <2>2 DEF TypeOK, Move
    <2>3. "recheck" \in Phase /\ "queued" \in Phase
      BY DEF Phase
    <2> QED BY <1>1, <2>1, <2>2, <2>3
  <1> QED BY <1>1, <1>2, <1>3, <1>4 DEF TypeOK

LEMMA TypePreserved == TypeOK /\ Places /\ [Next]_vars => TypeOK'
  <1> SUFFICES ASSUME TypeOK, Places, [Next]_vars PROVE TypeOK'
    OBVIOUS
  <1>1. ASSUME NEW t \in Task, NEW k \in Key, Call(t, k) PROVE TypeOK'
    <2>1. disturbed' \in [Key -> BOOLEAN] /\ flights' \in [Key -> Nat]
      BY <1>1, DisturbTypes DEF Call, Settle
    <2>2. CASE valkey /\ Move(t, "probe") /\ UNCHANGED <<ref, started, lockVars>>
      BY <1>1, <2>1, <2>2 DEF Call, TypeOK, Move, Phase
    <2>3. CASE ~valkey /\ store[k] = Absent /\ Enter(t, k)
      BY <1>1, <2>1, <2>3, EnterTypes DEF Call, TypeOK
    <2> QED BY <1>1, <2>2, <2>3 DEF Call
  <1>2. ASSUME NEW t \in Task, NEW k \in Key, RefreshStart(t, k) PROVE TypeOK'
    BY <1>2, BeginLoadTypes DEF RefreshStart, TypeOK, Phase
  <1>3. ASSUME NEW t \in Task, ServeGet(t) PROVE TypeOK'
    BY <1>3 DEF ServeGet, TypeOK, Move, Phase, Cached, Places
  <1>4. ASSUME NEW t \in Task, ProbeHit(t) PROVE TypeOK'
    BY <1>4, ReturnTypes DEF ProbeHit, TypeOK
  <1>5. ASSUME NEW t \in Task, ProbeMiss(t) PROVE TypeOK'
    BY <1>5, EnterTypes, DisturbTypes DEF ProbeMiss, TypeOK, Places, Settle
  <1>6. ASSUME NEW t \in Task, Wake(t) PROVE TypeOK'
    <2>1. disturbed' \in [Key -> BOOLEAN] /\ flights' \in [Key -> Nat]
      BY <1>6, DisturbTypes DEF Wake, Settle
    <2>2. queue' \in [LockId -> Seq(Task)]
      <3>1. ref[t] \in LockId
        BY <1>6 DEF Wake, Places, TypeOK
      <3>2. queue[ref[t]] \in Seq(Task) /\ queue[ref[t]] # <<>>
        BY <1>6, <3>1 DEF Wake, TypeOK
      <3>3. Tail(queue[ref[t]]) \in Seq(Task)
        BY <3>2, HeadTailProperties
      <3> QED BY <1>6, <3>1, <3>3 DEF Wake, TypeOK
    <2>3. CASE valkey \/ store[key[t]] = Absent
      <3>1. key[t] \in Key
        BY <1>6 DEF Wake, Places
      <3>2. CASE BeginLoad(t, key[t], "load")
        <4>1. pc' \in [Task -> Phase] /\ started' \in [Task -> Nat]
          BY <3>1, <3>2, BeginLoadTypes DEF Phase
        <4> QED BY <1>6, <2>1, <2>2, <2>3, <4>1 DEF Wake, TypeOK
      <3>3. CASE Move(t, "recheck") /\ UNCHANGED started
        BY <1>6, <2>1, <2>2, <2>3, <3>3 DEF Wake, TypeOK, Move, Phase
      <3> QED BY <1>6, <2>3, <3>2, <3>3 DEF Wake
    <2>4. CASE ~valkey /\ store[key[t]] # Absent
      BY <1>6, <2>1, <2>2, <2>4, ReturnTypes, PopEntryTypes DEF Wake, TypeOK
    <2> QED BY <2>3, <2>4
  <1>7. ASSUME NEW t \in Task, RecheckHit(t) PROVE TypeOK'
    BY <1>7, ReturnTypes, PopEntryTypes, ReleaseTypes, DisturbTypes DEF RecheckHit, TypeOK, Settle
  <1>8. ASSUME NEW t \in Task, RecheckMiss(t) PROVE TypeOK'
    BY <1>8, BeginLoadTypes, DisturbTypes DEF RecheckMiss, TypeOK, Phase, Settle, Places
  <1>9. ASSUME NEW t \in Task, LoaderReturns(t) PROVE TypeOK'
    <2>1. CASE valkey
      BY <1>9, <2>1 DEF LoaderReturns, TypeOK, Move, Phase
    <2>2. CASE ~valkey
      BY <1>9, <2>2, ReturnTypes, PopEntryTypes, ReleaseTypes, DisturbTypes
         DEF LoaderReturns, TypeOK, Settle, Cached
    <2> QED BY <2>1, <2>2
  <1>10. ASSUME NEW t \in Task, ServeSet(t) PROVE TypeOK'
    BY <1>10 DEF ServeSet, TypeOK, Move, Phase, Cached
  <1>11. ASSUME NEW t \in Task, StoreReturns(t) PROVE TypeOK'
    BY <1>11, ReturnTypes, PopEntryTypes, ReleaseTypes, DisturbTypes
       DEF StoreReturns, TypeOK, Settle
  <1>12. ASSUME NEW t \in Task, RefreshReturns(t) PROVE TypeOK'
    BY <1>12, ReturnTypes DEF RefreshReturns, TypeOK, Move, Phase, Cached
  <1>13. ASSUME NEW t \in Task, Abort(t) PROVE TypeOK'
    BY <1>13, ReturnTypes, PopEntryTypes, ReleaseTypes, DisturbTypes DEF Abort, TypeOK
  <1>14. ASSUME NEW t \in Task, CancelWait(t) PROVE TypeOK'
    <2>1. queue' \in [LockId -> Seq(Task)]
      <3> DEFINE q == queue[ref[t]]
      <3>1. PICK i \in DOMAIN q :
              queue' = [queue EXCEPT ![ref[t]] = SubSeq(q, 1, i - 1) \o SubSeq(q, i + 1, Len(q))]
        BY <1>14 DEF CancelWait
      <3>2. ref[t] \in LockId
        BY <1>14 DEF CancelWait, TypeOK, Places
      <3> HIDE DEF q
      <3>3. q \in Seq(Task)
        BY <3>2 DEF q, TypeOK
      <3>4. i \in 1..Len(q)
        BY <3>1, <3>3
      <3>5. SubSeq(q, 1, i - 1) \in Seq(Task) /\ SubSeq(q, i + 1, Len(q)) \in Seq(Task)
        BY <3>3, <3>4, SubSeqProperties
      <3>6. SubSeq(q, 1, i - 1) \o SubSeq(q, i + 1, Len(q)) \in Seq(Task)
        BY <3>5, ConcatProperties
      <3> QED BY <3>1, <3>6 DEF TypeOK
    <2> QED
      BY <1>14, <2>1, ReturnTypes, PopEntryTypes, DisturbTypes DEF CancelWait, TypeOK
  <1>15. ASSUME NEW k \in Key, Expire(k) PROVE TypeOK'
    BY <1>15, DisturbTypes DEF Expire, TypeOK, Cached
  <1>16. ASSUME NEW k \in Key, SweepDelete(k) PROVE TypeOK'
    BY <1>16, DisturbTypes DEF SweepDelete, TypeOK, Cached
  <1>17. ASSUME NEW ns, Invalidate(ns) PROVE TypeOK'
    BY <1>17, DisturbTypes DEF Invalidate, TypeOK, Cached
  <1>18. CASE SweepAborts
    BY <1>18 DEF SweepAborts, TypeOK
  <1>19. CASE UNCHANGED vars
    BY <1>19 DEF TypeOK
  <1> QED
    BY <1>1, <1>2, <1>3, <1>4, <1>5, <1>6, <1>7, <1>8, <1>9, <1>10, <1>11, <1>12, <1>13, <1>14,
       <1>15, <1>16, <1>17, <1>18, <1>19 DEF Next, Advance
-----------------------------------------------------------------------------
\* The steps that combine alternatives, taken apart.

\* Entering coalesce's try block with lock object l.
EnterStep(t, k, l) ==
    /\ l \in LockId
    /\ table[k] # NoLock => l = table[k]
    /\ table[k] = NoLock => (\A u \in Task : ref[u] # l) /\ (\A j \in Key : table[j] # l)
    /\ table' = [table EXCEPT ![k] = l]
    /\ ref' = [ref EXCEPT ![t] = l]
    /\ key' = [key EXCEPT ![t] = k]
    /\ \/ /\ owner[l] = NoTask /\ owner' = [owner EXCEPT ![l] = t]
          /\ queue[l] = <<>> /\ queue' = queue
          /\ pc' = [pc EXCEPT ![t] = IF valkey THEN "recheck" ELSE "load"]
       \/ /\ owner[l] # NoTask \/ queue[l] # <<>>
          /\ owner' = owner /\ queue' = [queue EXCEPT ![l] = Append(@, t)]
          /\ pc' = [pc EXCEPT ![t] = "queued"]

LEMMA EnterShape ==
    ASSUME TypeOK, NEW t \in Task, NEW k \in Key, Enter(t, k), key' = [key EXCEPT ![t] = k]
    PROVE  \E l \in LockId : EnterStep(t, k, l)
  <1>1. PICK l \in LockId :
          /\ IF table[k] # NoLock THEN l = table[k] ELSE l \notin Referenced
          /\ table' = [table EXCEPT ![k] = l]
          /\ ref' = [ref EXCEPT ![t] = l]
          /\ \/ /\ owner[l] = NoTask /\ queue[l] = <<>>
                /\ owner' = [owner EXCEPT ![l] = t] /\ queue' = queue
                /\ IF valkey THEN Move(t, "recheck") /\ UNCHANGED started
                             ELSE BeginLoad(t, k, "load")
             \/ /\ owner[l] # NoTask \/ queue[l] # <<>>
                /\ queue' = [queue EXCEPT ![l] = Append(@, t)]
                /\ Move(t, "queued") /\ UNCHANGED <<owner, started>>
    BY DEF Enter
  <1>2. table[k] = NoLock => (\A u \in Task : ref[u] # l) /\ (\A j \in Key : table[j] # l)
    BY <1>1 DEF Referenced
  <1>3. \/ /\ owner[l] = NoTask /\ owner' = [owner EXCEPT ![l] = t]
           /\ queue[l] = <<>> /\ queue' = queue
           /\ pc' = [pc EXCEPT ![t] = IF valkey THEN "recheck" ELSE "load"]
        \/ /\ owner[l] # NoTask \/ queue[l] # <<>>
           /\ owner' = owner /\ queue' = [queue EXCEPT ![l] = Append(@, t)]
           /\ pc' = [pc EXCEPT ![t] = "queued"]
    BY <1>1 DEF Move, BeginLoad
  <1> QED BY <1>1, <1>2, <1>3 DEF EnterStep

\* Getting the lock after having waited for it.
TakeStep(t) ==
    /\ pc[t] = "queued" /\ owner[ref[t]] = NoTask
    /\ queue[ref[t]] # <<>> /\ Head(queue[ref[t]]) = t
    /\ queue' = [queue EXCEPT ![ref[t]] = Tail(@)]
    /\ owner' = [owner EXCEPT ![ref[t]] = t]
    /\ pc' = [pc EXCEPT ![t] = IF valkey THEN "recheck" ELSE "load"]
    /\ UNCHANGED <<key, ref, table>>

LEMMA WakeShape ==
    ASSUME NEW t \in Task, Wake(t)
    PROVE  \/ TakeStep(t) /\ got' = got /\ (~valkey => store[key[t]] = Absent)
           \/ ~valkey /\ store[key[t]] # Absent /\ PopEntry(t) /\ Return(t) /\ UNCHANGED owner
  <1>1. CASE valkey
    BY <1>1 DEF Wake, TakeStep, Move
  <1>2. CASE ~valkey
    BY <1>2 DEF Wake, TakeStep, Move, BeginLoad
  <1> QED BY <1>1, <1>2

LEMMA EnterKeeps ==
    ASSUME TypeOK, TypeOK', Structure, NEW t \in Task, NEW k \in Key, NEW l, EnterStep(t, k, l),
           ref[t] = NoLock, valkey' = valkey
    PROVE  Structure'
  <1> USE SentinelAssumption
  <1>1. Places'
    BY DEF Structure, EnterStep, TypeOK, Places, Held, LockPhase
  <1>2. TableLive'
    <2> SUFFICES ASSUME NEW j \in Key, table'[j] # NoLock
                 PROVE  \E u \in Region(j)' : ref'[u] = table'[j]
      BY DEF TableLive
    <2>1. CASE j = k
      BY <2>1 DEF EnterStep, TypeOK, Region
    <2>2. CASE j # k
      <3>1. PICK u \in Region(j) : ref[u] = table[j]
        BY <2>2 DEF Structure, TableLive, EnterStep, TypeOK
      <3>2. u # t
        BY <3>1 DEF Region
      <3> QED BY <2>2, <3>1, <3>2 DEF EnterStep, TypeOK, Region
    <2> QED BY <2>1, <2>2
  <1>3. LocksAreKeyed'
    <2>1. ASSUME NEW u \in Task, u # t, ref[u] = l PROVE key[u] = k
      <3>1. table[k] = l
        BY <2>1 DEF EnterStep
      <3>2. PICK w \in Region(k) : ref[w] = l
        BY <3>1 DEF Structure, TableLive, EnterStep
      <3> QED BY <2>1, <3>2 DEF Region, Structure, LocksAreKeyed
    <2> QED BY <2>1 DEF Structure, LocksAreKeyed, EnterStep, TypeOK
  <1>4. OwnerHolds'
    BY DEF Structure, OwnerHolds, EnterStep, TypeOK
  <1> QED BY <1>1, <1>2, <1>3, <1>4 DEF Structure

\* Leaving, with or without holding the lock.
Without(q, i) == SubSeq(q, 1, i - 1) \o SubSeq(q, i + 1, Len(q))

LeaveStep(t) ==
    /\ PopEntry(t) /\ Return(t)
    /\ \/ pc[t] # "queued" /\ Release(t) /\ queue' = queue
       \/ /\ pc[t] = "queued" /\ owner' = owner
          /\ \/ /\ owner[ref[t]] = NoTask /\ queue[ref[t]] # <<>> /\ Head(queue[ref[t]]) = t
                /\ queue' = [queue EXCEPT ![ref[t]] = Tail(@)]
             \/ \E i \in DOMAIN queue[ref[t]] :
                    queue[ref[t]][i] = t /\ queue' = [queue EXCEPT ![ref[t]] = Without(@, i)]

LEMMA CancelShape == ASSUME NEW t \in Task, CancelWait(t) PROVE LeaveStep(t)
  BY DEF CancelWait, LeaveStep, Without

LEMMA WakeLeaves ==
    ASSUME NEW t \in Task, Wake(t), PopEntry(t) /\ Return(t) /\ UNCHANGED owner
    PROVE  LeaveStep(t)
  BY DEF Wake, LeaveStep

LEMMA LeaveKeeps ==
    ASSUME TypeOK, TypeOK', Structure, NEW t \in Task, LeaveStep(t), valkey' = valkey
    PROVE  Structure'
  <1> USE SentinelAssumption
  <1>1. Places'
    BY DEF Structure, LeaveStep, Return, Move, TypeOK, Places, Held, LockPhase
  <1>2. TableLive'
    <2> SUFFICES ASSUME NEW j \in Key, table'[j] # NoLock
                 PROVE  \E u \in Region(j)' : ref'[u] = table'[j]
      BY DEF TableLive
    <2>1. table'[j] = table[j] /\ ~ (j = key[t] /\ table[j] = ref[t])
      BY DEF LeaveStep, PopEntry
    <2>2. PICK u \in Region(j) : ref[u] = table[j]
      BY <2>1 DEF Structure, TableLive
    <2>3. u # t
      BY <2>1, <2>2 DEF Region
    <2> QED BY <2>1, <2>2, <2>3 DEF LeaveStep, Return, TypeOK, Region
  <1>3. LocksAreKeyed'
    BY DEF Structure, LocksAreKeyed, LeaveStep, Return, TypeOK
  <1>4. OwnerHolds'
    BY DEF Structure, OwnerHolds, LeaveStep, Return, Release, Move, TypeOK
  <1> QED BY <1>1, <1>2, <1>3, <1>4 DEF Structure

\* Steps that change neither the locks nor who is inside coalesce.
LocalStep(t) ==
    /\ valkey' = valkey
    /\ UNCHANGED <<ref, table, owner, queue>>
    /\ \A u \in Task \ {t} : pc'[u] = pc[u] /\ key'[u] = key[u]
    /\ ref[t] # NoLock => key'[t] = key[t] /\ pc[t] # "queued"
    /\ \/ ref[t] = NoLock /\ pc'[t] \notin Held \union {"queued"}
       \/ ref[t] # NoLock /\ pc'[t] \in LockPhase \ {"queued"}
    /\ pc'[t] # "idle" => key'[t] \in Key
    /\ pc'[t] \in {"probe", "probed"} => valkey

LEMMA LocalKeeps ==
    ASSUME TypeOK, TypeOK', Structure, NEW t \in Task, LocalStep(t)
    PROVE  Structure'
  <1>1. Places'
    BY DEF Structure, LocalStep, Places, TypeOK
  <1>2. TableLive'
    BY DEF Structure, LocalStep, TableLive, Region
  <1>3. LocksAreKeyed'
    BY DEF Structure, LocalStep, LocksAreKeyed
  <1>4. OwnerHolds'
    BY DEF Structure, LocalStep, OwnerHolds
  <1> QED BY <1>1, <1>2, <1>3, <1>4 DEF Structure

LEMMA StructurePreserved == TypeOK /\ TypeOK' /\ Structure /\ [Next]_vars => Structure'
  <1> SUFFICES ASSUME TypeOK, TypeOK', Structure, [Next]_vars PROVE Structure'
    OBVIOUS
  <1> USE SentinelAssumption
  <1>a. Places
    BY DEF Structure
  <1>1. ASSUME NEW t \in Task, NEW k \in Key, Call(t, k) PROVE Structure'
    <2>1. ref[t] = NoLock
      BY <1>1, <1>a DEF Call, Places, LockPhase, Held
    <2>2. CASE valkey /\ Move(t, "probe") /\ UNCHANGED <<ref, started, lockVars>>
      <3>1. LocalStep(t)
        BY <1>1, <2>1, <2>2 DEF Call, LocalStep, Move, TypeOK, Held
      <3> QED BY <3>1, LocalKeeps
    <2>3. CASE Enter(t, k)
      BY <1>1, <2>1, <2>3, EnterShape, EnterKeeps DEF Call
    <2> QED BY <1>1, <2>2, <2>3 DEF Call
  <1>2. ASSUME NEW t \in Task, NEW k \in Key, RefreshStart(t, k) PROVE Structure'
    <2>1. LocalStep(t)
      BY <1>2, <1>a DEF RefreshStart, BeginLoad, Move, LocalStep, Places, TypeOK, LockPhase, Held
    <2> QED BY <2>1, LocalKeeps
  <1>3. ASSUME NEW t \in Task, ServeGet(t) PROVE Structure'
    <2>1. LocalStep(t)
      BY <1>3, <1>a DEF ServeGet, Move, LocalStep, Places, TypeOK, LockPhase, Held
    <2> QED BY <2>1, LocalKeeps
  <1>4. ASSUME NEW t \in Task, ProbeHit(t) PROVE Structure'
    <2>1. LocalStep(t)
      BY <1>4, <1>a DEF ProbeHit, Return, Move, LocalStep, Places, TypeOK, LockPhase, Held
    <2> QED BY <2>1, LocalKeeps
  <1>5. ASSUME NEW t \in Task, ProbeMiss(t) PROVE Structure'
    <2>1. ref[t] = NoLock /\ key[t] \in Key
      BY <1>5, <1>a DEF ProbeMiss, Places, LockPhase, Held
    <2>2. key' = [key EXCEPT ![t] = key[t]]
      BY <1>5 DEF ProbeMiss, TypeOK
    <2> QED BY <1>5, <2>1, <2>2, EnterShape, EnterKeeps DEF ProbeMiss
  <1>6. ASSUME NEW t \in Task, Wake(t) PROVE Structure'
    <2>1. pc[t] = "queued" /\ owner[ref[t]] = NoTask /\ ref[t] \in LockId /\ key[t] \in Key
      BY <1>6, <1>a DEF Wake, Places, TypeOK
    <2>2. CASE TakeStep(t)
      <3>1. Places'
        BY <1>6, <2>1, <2>2, <1>a DEF Wake, settled, TakeStep, Places, TypeOK, Held, LockPhase
      <3>2. TableLive'
        BY <2>2 DEF TakeStep, Structure, TableLive, Region
      <3>3. LocksAreKeyed'
        BY <2>2 DEF TakeStep, Structure, LocksAreKeyed
      <3>4. OwnerHolds'
        BY <2>1, <2>2 DEF TakeStep, Structure, OwnerHolds, TypeOK
      <3> QED BY <3>1, <3>2, <3>3, <3>4 DEF Structure
    <2>3. CASE PopEntry(t) /\ Return(t) /\ UNCHANGED owner
      BY <1>6, <2>1, <2>3, WakeLeaves, LeaveKeeps DEF Wake, settled
    <2> QED BY <1>6, <2>2, <2>3, WakeShape
  <1>7. ASSUME NEW t \in Task, RecheckHit(t) PROVE Structure'
    BY <1>7, LeaveKeeps DEF RecheckHit, LeaveStep
  <1>8. ASSUME NEW t \in Task, RecheckMiss(t) PROVE Structure'
    <2>1. LocalStep(t)
      BY <1>8, <1>a DEF RecheckMiss, BeginLoad, Move, LocalStep, Places, TypeOK, LockPhase, Held
    <2> QED BY <2>1, LocalKeeps
  <1>9. ASSUME NEW t \in Task, LoaderReturns(t) PROVE Structure'
    <2>1. CASE valkey
      <3>1. LocalStep(t)
        BY <1>9, <1>a, <2>1 DEF LoaderReturns, Move, LocalStep, Places, TypeOK, LockPhase, Held
      <3> QED BY <3>1, LocalKeeps
    <2>2. CASE ~valkey
      BY <1>9, <2>2, LeaveKeeps DEF LoaderReturns, LeaveStep
    <2> QED BY <2>1, <2>2
  <1>10. ASSUME NEW t \in Task, ServeSet(t) PROVE Structure'
    <2>1. LocalStep(t)
      BY <1>10, <1>a DEF ServeSet, Move, LocalStep, Places, TypeOK, LockPhase, Held
    <2> QED BY <2>1, LocalKeeps
  <1>11. ASSUME NEW t \in Task, StoreReturns(t) PROVE Structure'
    BY <1>11, LeaveKeeps DEF StoreReturns, LeaveStep
  <1>12. ASSUME NEW t \in Task, RefreshReturns(t) PROVE Structure'
    <2>1. ref[t] = NoLock /\ key[t] \in Key
      BY <1>12, <1>a DEF RefreshReturns, Places, LockPhase, Held
    <2>2. CASE valkey
      <3>1. LocalStep(t)
        BY <1>12, <2>1, <2>2 DEF RefreshReturns, Move, LocalStep, TypeOK, Held
      <3> QED BY <3>1, LocalKeeps
    <2>3. CASE ~valkey
      <3>1. LocalStep(t)
        BY <1>12, <2>1, <2>3 DEF RefreshReturns, Return, Move, LocalStep, TypeOK, Held
      <3> QED BY <3>1, LocalKeeps
    <2> QED BY <2>2, <2>3
  <1>13. ASSUME NEW t \in Task, Abort(t) PROVE Structure'
    BY <1>13, LeaveKeeps DEF Abort, LeaveStep
  <1>14. ASSUME NEW t \in Task, CancelWait(t) PROVE Structure'
    BY <1>14, CancelShape, LeaveKeeps DEF CancelWait
  <1>15. ASSUME UNCHANGED <<valkey, pc, key, ref, table, owner>> PROVE Structure'
    BY <1>15 DEF Structure, Places, TableLive, Region, LocksAreKeyed, OwnerHolds
  <1> QED
    BY <1>1, <1>2, <1>3, <1>4, <1>5, <1>6, <1>7, <1>8, <1>9, <1>10, <1>11, <1>12, <1>13, <1>14,
       <1>15 DEF Next, Advance, Expire, SweepDelete, Invalidate, SweepAborts

-----------------------------------------------------------------------------
\* The busy periods.

\* An undisturbed key after a step of Disturb has a busy period that goes on, and its
\* count changed only if a load began.
LEMMA DisturbShape ==
    ASSUME TypeOK, NEW ks, Disturb(ks), NEW j \in Key
    PROVE  /\ Region(j)' = {} => flights'[j] = 0
           /\ ~disturbed'[j] /\ Region(j)' # {} => ~disturbed[j] /\ j \notin ks
           /\ Region(j)' # {} /\ ~disturbed[j] /\ (\A u \in Task : ~BeginsFlight(u, j))
                 => flights'[j] = flights[j]
           /\ Region(j)' # {} /\ ~disturbed[j] /\ (\E u \in Task : BeginsFlight(u, j))
                 => flights'[j] = flights[j] + 1
  BY DEF TypeOK, Disturb

\* It is enough to look at keys whose busy period goes on.
LEMMA BusyKeysSuffice ==
    ASSUME TypeOK, Flights, NEW ks, Disturb(ks),
           \A j \in Key : Undisturbed(j) /\ ~disturbed[j] /\ j \notin ks /\ Region(j)' # {}
                             => Undisturbed(j)'
    PROVE  QuietKeys' /\ Flights'
  <1>1. QuietKeys'
    BY DisturbShape DEF QuietKeys
  <1>2. ASSUME NEW j \in Key, ~disturbed'[j] PROVE Undisturbed(j)'
    <2>1. CASE Region(j)' = {}
      <3>1. flights'[j] = 0
        BY <2>1, DisturbShape
      <3> QED BY <2>1, <3>1 DEF Undisturbed
    <2>2. CASE Region(j)' # {}
      BY <1>2, <2>2, DisturbShape DEF Flights
    <2> QED BY <2>1, <2>2
  <1> QED BY <1>1, <1>2 DEF Flights

\* The only lock a task can be waiting for or holding while the value is absent is the
\* one of the table, and its owner is the only task past the lock.
LEMMA FreeLockMeansNoFlight ==
    ASSUME TypeOK, Structure, NEW j \in Key, Undisturbed(j), store[j] = Absent,
           NEW l \in LockId, owner[l] = NoTask, table[j] \in {l, NoLock}
    PROVE  flights[j] = 0 /\ \A u \in Region(j) : pc[u] = "queued"
  <1>1. \A u \in Region(j) : ref[u] = l
    BY SentinelAssumption DEF Undisturbed, Region
  <1>2. \A u \in Region(j) : pc[u] = "queued"
    BY <1>1, SentinelAssumption DEF Structure, OwnerHolds, Region
  <1> QED BY <1>2 DEF Undisturbed, Loading

\* Somebody leaves: fine if the value is in the store or the key is disturbed by it.
LEMMA LeaveFlights ==
    ASSUME TypeOK, Structure, Flights, NEW t \in Task, LeaveStep(t), NEW ks, Disturb(ks),
           \A i \in Key : store'[i] = Absent => store[i] = Absent,
           ref[t] # NoLock => key[t] \in ks \/ store'[key[t]] # Absent
    PROVE  QuietKeys' /\ Flights'
  <1> SUFFICES ASSUME NEW j \in Key, Undisturbed(j), ~disturbed[j], j \notin ks, Region(j)' # {}
               PROVE  Undisturbed(j)'
    BY BusyKeysSuffice
  <1>1. \A u \in Task : ~BeginsFlight(u, j)
    BY DEF LeaveStep, Return, Move, BeginsFlight, TypeOK
  <1>2. flights'[j] = flights[j]
    BY <1>1, DisturbShape
  <1>3. \A u \in Region(j)' : u # t /\ u \in Region(j) /\ pc'[u] = pc[u] /\ got'[u] = got[u] /\ ref'[u] = ref[u]
    BY DEF LeaveStep, Return, Move, Region, TypeOK
  <1>4. t \in Region(j) => store'[j] # Absent
    BY DEF Region
  <1>5. \A u \in Region(j) : u # t => u \in Region(j)'
    BY DEF LeaveStep, Return, Region, TypeOK
  <1>6. store'[j] = Absent => table'[j] = table[j]
    BY <1>4, SentinelAssumption DEF LeaveStep, PopEntry, Region, TypeOK
  <1>7. store'[j] = Absent => \A u \in Region(j)' : ref'[u] = table'[j]
    BY <1>3, <1>6 DEF Undisturbed
  <1>8. flights'[j] = 1 /\ store'[j] = Absent => \E u \in Region(j)' : pc'[u] \in Loading
    BY <1>2, <1>3, <1>4, <1>5 DEF Undisturbed
  <1>9. \A u \in Region(j)' : WillLoad(u)' => WillLoad(u)
    BY <1>3 DEF WillLoad
  <1> QED BY <1>2, <1>3, <1>7, <1>8, <1>9 DEF Undisturbed

\* Somebody comes in.
LEMMA EnterFlights ==
    ASSUME TypeOK, TypeOK', Structure, Flights, NEW t \in Task, NEW k \in Key, NEW l,
           EnterStep(t, k, l), ref[t] = NoLock, Disturb({}), store' = store, got' = got,
           ~valkey => store[k] = Absent, pc[t] # "load"
    PROVE  QuietKeys' /\ Flights'
  <1> USE SentinelAssumption
  <1> SUFFICES ASSUME NEW j \in Key, Undisturbed(j), ~disturbed[j], Region(j)' # {}
               PROVE  Undisturbed(j)'
    BY BusyKeysSuffice
  <1>0. l \in LockId
    BY DEF EnterStep
  <1>1. \A u \in Task \ {t} : /\ pc'[u] = pc[u] /\ got'[u] = got[u] /\ ref'[u] = ref[u]
                              /\ key'[u] = key[u] /\ ~BeginsFlight(u, j)
    BY DEF EnterStep, TypeOK, BeginsFlight
  <1>2. key'[t] = k /\ ref'[t] = l /\ table'[k] = l
    BY DEF EnterStep, TypeOK
  <1>3. CASE j # k
    <2>1. Region(j)' = Region(j) /\ t \notin Region(j)
      BY <1>1, <1>2, <1>3 DEF Region
    <2>2. flights'[j] = flights[j]
      BY <1>1, <1>2, <1>3, DisturbShape DEF BeginsFlight
    <2>3. table'[j] = table[j]
      BY <1>3 DEF EnterStep, TypeOK
    <2> QED BY <1>1, <2>1, <2>2, <2>3 DEF Undisturbed, WillLoad, Region
  <1>4. CASE j = k
    <2>1. Region(k)' = Region(k) \union {t} /\ t \notin Region(k)
      BY <1>0, <1>1, <1>2 DEF Region
    <2>2. \A u \in Region(k) : u # t /\ pc'[u] = pc[u] /\ ref'[u] = ref[u] /\ (WillLoad(u)' <=> WillLoad(u))
      BY <1>1, <2>1 DEF WillLoad, Region
    <2>3. store'[k] = Absent => \A u \in Region(k)' : ref'[u] = table'[k]
      BY <1>0, <1>2, <1>4, <2>1, <2>2 DEF Undisturbed, EnterStep, Region
    <2>4. CASE pc'[t] \in {"queued", "recheck"}
      <3>1. flights'[k] = flights[k]
        BY <1>1, <1>4, <2>4, DisturbShape DEF BeginsFlight
      <3>2. ~WillLoad(t)' /\ pc'[t] \notin Loading
        BY <2>4 DEF WillLoad, Loading
      <3> QED BY <1>4, <2>1, <2>2, <2>3, <2>4, <3>1, <3>2 DEF Undisturbed
    <2>5. CASE pc'[t] = "load"
      <3>1. owner[l] = NoTask /\ ~valkey
        BY <2>5 DEF EnterStep, TypeOK
      <3>2. flights[k] = 0 /\ \A u \in Region(k) : pc[u] = "queued"
        BY <1>0, <1>4, <3>1, FreeLockMeansNoFlight DEF EnterStep
      <3>3. flights'[k] = 1
        BY <1>0, <1>2, <1>4, <2>5, <3>2, DisturbShape DEF BeginsFlight
      <3>4. \A u \in Region(k)' : ~WillLoad(u)' /\ (u = t \/ pc'[u] = "queued")
        BY <2>1, <2>2, <2>5, <3>2 DEF WillLoad
      <3> QED BY <1>4, <2>1, <2>3, <2>5, <3>3, <3>4 DEF Undisturbed, Loading
    <2> QED BY <2>4, <2>5 DEF EnterStep, TypeOK
  <1> QED BY <1>3, <1>4

\* Somebody who waited gets the lock.
LEMMA TakeFlights ==
    ASSUME TypeOK, TypeOK', Structure, Flights, NEW t \in Task, TakeStep(t), Disturb({}),
           pc[t] = "queued", owner[ref[t]] = NoTask, ref[t] \in LockId, key[t] \in Key,
           store' = store, got' = got, ~valkey => store[key[t]] = Absent
    PROVE  QuietKeys' /\ Flights'
  <1> USE SentinelAssumption
  <1> SUFFICES ASSUME NEW j \in Key, Undisturbed(j), ~disturbed[j], Region(j)' # {}
               PROVE  Undisturbed(j)'
    BY BusyKeysSuffice
  <1>1. Region(j)' = Region(j) /\ table' = table /\ ref' = ref
    BY DEF TakeStep, Region
  <1>2. \A u \in Task \ {t} : pc'[u] = pc[u] /\ (WillLoad(u)' <=> WillLoad(u)) /\ ~BeginsFlight(u, j)
    BY DEF TakeStep, TypeOK, BeginsFlight, WillLoad
  <1>3. CASE valkey \/ key[t] # j
    <2>1. ~BeginsFlight(t, j)
      BY <1>3 DEF TakeStep, TypeOK, BeginsFlight
    <2>2. flights'[j] = flights[j]
      BY <1>2, <2>1, DisturbShape
    <2>3. t \in Region(j) => pc'[t] = "recheck"
      BY <1>3 DEF TakeStep, TypeOK, Region
    <2>4. \A u \in Region(j) : u = t => pc[u] = "queued" /\ pc'[u] = "recheck"
      BY <2>3
    <2>5. \A u \in Region(j) :
                              /\ WillLoad(u)' <=> WillLoad(u)
                              /\ pc'[u] \in Loading <=> pc[u] \in Loading
                              /\ pc'[u] = "rechecked" <=> pc[u] = "rechecked"
                              /\ pc'[u] = "stored" <=> pc[u] = "stored"
      <3> TAKE u \in Region(j)
      <3>1. u \in Task
        BY DEF Region
      <3>2. CASE u = t
        BY <2>4, <3>2 DEF WillLoad, Loading
      <3>3. CASE u # t
        BY <1>2, <3>1, <3>3 DEF WillLoad, Loading
      <3> QED BY <3>2, <3>3
    <2>6. store'[j] = Absent => \A u \in Region(j)' : ref'[u] = table'[j]
      BY <1>1 DEF Undisturbed
    <2>7. \A u \in Region(j)' : WillLoad(u)' =>
              flights'[j] = 0 /\ \A w \in Region(j)' : WillLoad(w)' => u = w
      BY <1>1, <2>2, <2>5 DEF Undisturbed
    <2>8. \A u \in Region(j)' :
                               /\ pc'[u] \in Loading => flights'[j] = 1
                               /\ pc'[u] = "stored" => store'[j] # Absent
      BY <1>1, <2>2, <2>5 DEF Undisturbed, WillLoad
    <2>9. \A u \in Region(j)' : pc'[u] = "rechecked" /\ got'[u] # Absent => store'[j] # Absent
      BY <1>1, <2>5 DEF Undisturbed, WillLoad
    <2>10. flights'[j] = 1 /\ store'[j] = Absent => \E u \in Region(j)' : pc'[u] \in Loading
      BY <1>1, <2>2, <2>5 DEF Undisturbed, WillLoad
    <2> QED BY <2>2, <2>6, <2>7, <2>8, <2>9, <2>10 DEF Undisturbed, WillLoad
  <1>4. CASE ~valkey /\ key[t] = j
    <2>1. table[j] = ref[t] /\ store[j] = Absent
      BY <1>4 DEF Undisturbed, Region
    <2>2. flights[j] = 0 /\ \A u \in Region(j) : pc[u] = "queued"
      BY <2>1, FreeLockMeansNoFlight
    <2>3. BeginsFlight(t, j) /\ pc'[t] = "load"
      BY <1>4 DEF TakeStep, TypeOK, BeginsFlight
    <2>4. flights'[j] = 1
      BY <2>2, <2>3, DisturbShape
    <2>5. \A u \in Region(j)' : ~WillLoad(u)' /\ (u = t \/ pc'[u] = "queued")
      BY <1>1, <1>2, <2>2, <2>3 DEF WillLoad, Region
    <2>6. t \in Region(j)'
      BY <1>1, <1>4 DEF Region
    <2> QED BY <1>1, <2>1, <2>3, <2>4, <2>5, <2>6 DEF Undisturbed, Loading
  <1> QED BY <1>3, <1>4

\* Steps of a task that stays where it is: t's own phase is what changes.
LEMMA LocalFlights ==
    ASSUME TypeOK, TypeOK', Structure, QuietKeys, Flights, NEW t \in Task, LocalStep(t),
           UNCHANGED historyVars,
           \A u \in Task \ {t} : got'[u] = got[u],
           \A i \in Key : store'[i] = Absent => store[i] = Absent,
           ref[t] # NoLock =>
               /\ pc'[t] \in Loading => pc[t] \in Loading
               /\ pc[t] \in Loading => pc'[t] \in Loading \/ store'[key[t]] # Absent
               /\ pc'[t] = "stored" => store'[key[t]] # Absent
               /\ pc'[t] = "rechecked" =>
                     /\ pc[t] = "recheck" /\ owner[ref[t]] = t
                     /\ got'[t] = store[key[t]] /\ store' = store
    PROVE  QuietKeys' /\ Flights'
  <1> USE SentinelAssumption
  <1>1. \A j \in Key : Region(j)' = Region(j)
    BY DEF LocalStep, Region, TypeOK
  <1>2. QuietKeys'
    BY <1>1 DEF QuietKeys
  <1>3. ASSUME NEW j \in Key, ~disturbed[j], Undisturbed(j) PROVE Undisturbed(j)'
    <2>1. \A u \in Region(j) : u # t =>
              /\ pc'[u] = pc[u] /\ (WillLoad(u)' <=> WillLoad(u)) /\ ref'[u] = ref[u]
      BY DEF Region, WillLoad, LocalStep
    <2>2. store'[j] = Absent => \A u \in Region(j)' : ref'[u] = table'[j]
      BY <1>1, <1>3 DEF Undisturbed, LocalStep
    <2>3. flights'[j] = 1 /\ store'[j] = Absent => \E u \in Region(j)' : pc'[u] \in Loading
      BY <1>1, <1>3, <2>1 DEF Undisturbed, Region
    <2>4. \A u \in Region(j)' : pc'[u] \in Loading => flights'[j] = 1
      BY <1>1, <1>3, <2>1 DEF Undisturbed, Region
    <2>5. \A u \in Region(j)' : pc'[u] = "rechecked" /\ got'[u] # Absent => store'[j] # Absent
      BY <1>1, <1>3, <2>1 DEF Undisturbed, Region, WillLoad
    <2>6. \A u \in Region(j)' : pc'[u] = "stored" => store'[j] # Absent
      BY <1>1, <1>3, <2>1 DEF Undisturbed, Region
    <2>7. CASE t \in Region(j) /\ WillLoad(t)'
      <3>1. store[j] = Absent /\ owner[ref[t]] = t /\ pc[t] = "recheck" /\ ref[t] \in LockId
        BY <2>7 DEF WillLoad, Region, TypeOK
      <3>2. \A u \in Region(j) : ref[u] = ref[t]
        BY <1>3, <2>7, <3>1 DEF Undisturbed
      <3>3. \A u \in Region(j) : u # t => pc[u] = "queued"
        BY <3>1, <3>2 DEF Structure, OwnerHolds, Region
      <3>4. flights[j] = 0
        BY <1>3, <3>1, <3>3 DEF Undisturbed, Loading
      <3>5. \A u \in Region(j) : WillLoad(u)' => u = t
        BY <2>1, <3>3 DEF WillLoad
      <3>6. \A u \in Region(j)' : WillLoad(u)' =>
                flights'[j] = 0 /\ \A w \in Region(j)' : WillLoad(w)' => u = w
        BY <1>1, <3>4, <3>5
      <3> QED BY <1>3, <2>2, <2>3, <2>4, <2>5, <2>6, <3>4, <3>6 DEF Undisturbed
    <2>8. CASE ~ (t \in Region(j) /\ WillLoad(t)')
      <3>1. \A u \in Region(j)' : WillLoad(u)' => WillLoad(u) /\ u \in Region(j)
        BY <1>1, <2>1, <2>8
      <3>2. \A u \in Region(j)' : WillLoad(u)' =>
                flights'[j] = 0 /\ \A w \in Region(j)' : WillLoad(w)' => u = w
        BY <1>1, <1>3, <3>1 DEF Undisturbed
      <3> QED BY <1>3, <2>2, <2>3, <2>4, <2>5, <2>6, <3>2 DEF Undisturbed
    <2> QED BY <2>7, <2>8
  <1> QED BY <1>2, <1>3 DEF Flights

\* A task that saw a miss under the lock starts its loader.
LEMMA RecheckMissFlights ==
    ASSUME TypeOK, TypeOK', Structure, Flights, NEW t \in Task, RecheckMiss(t)
    PROVE  QuietKeys' /\ Flights'
  <1> SUFFICES ASSUME NEW j \in Key, Undisturbed(j), ~disturbed[j], Region(j)' # {}
               PROVE  Undisturbed(j)'
    BY BusyKeysSuffice DEF RecheckMiss, Settle
  <1>0. pc' = [pc EXCEPT ![t] = "load"] /\ UNCHANGED <<key, ref, got, table, store>>
    BY DEF RecheckMiss, BeginLoad, Move
  <1>1. Region(j)' = Region(j)
    BY <1>0 DEF Region
  <1>2. \A u \in Task \ {t} : pc'[u] = pc[u] /\ (WillLoad(u)' <=> WillLoad(u)) /\ ~BeginsFlight(u, j)
    BY <1>0 DEF TypeOK, BeginsFlight, WillLoad
  <1>3. WillLoad(t) /\ pc'[t] = "load" /\ ~WillLoad(t)' /\ t \in Region(key[t]) /\ key[t] \in Key
    BY <1>0 DEF RecheckMiss, WillLoad, Region, Structure, Places, Held, TypeOK
  <1>4. CASE key[t] # j
    <2>1. ~BeginsFlight(t, j) /\ t \notin Region(j)
      BY <1>0, <1>4 DEF BeginsFlight, Region
    <2>2. flights'[j] = flights[j]
      BY <1>2, <2>1, DisturbShape DEF RecheckMiss, Settle
    <2>3. \A u \in Region(j) : u # t /\ pc'[u] = pc[u] /\ (WillLoad(u)' <=> WillLoad(u))
      BY <1>2, <2>1 DEF Region
    <2> QED BY <1>0, <1>1, <2>2, <2>3 DEF Undisturbed
  <1>5. CASE key[t] = j
    <2>1. flights[j] = 0 /\ \A u \in Region(j) : WillLoad(u) => u = t
      BY <1>3, <1>5 DEF Undisturbed
    <2>2. BeginsFlight(t, j)
      BY <1>0, <1>3, <1>5 DEF BeginsFlight, WillLoad, Region
    <2>3. flights'[j] = 1
      BY <2>1, <2>2, DisturbShape DEF RecheckMiss, Settle
    <2>4. \A u \in Region(j)' : ~WillLoad(u)'
      BY <1>1, <1>2, <1>3, <2>1 DEF Region
    <2>5. \A u \in Region(j) : u = t \/ pc'[u] = pc[u]
      BY <1>2 DEF Region
    <2>6. t \in Region(j)' /\ pc'[t] \in Loading
      BY <1>1, <1>3, <1>5 DEF Loading
    <2> QED BY <1>0, <1>1, <1>3, <2>3, <2>4, <2>5, <2>6 DEF Undisturbed
  <1> QED BY <1>4, <1>5

LEMMA FlightsPreserved ==
    IInv /\ TypeOK' /\ [Next]_vars => QuietKeys' /\ Flights'
  <1> SUFFICES ASSUME IInv, TypeOK', [Next]_vars PROVE QuietKeys' /\ Flights'
    OBVIOUS
  <1> USE SentinelAssumption
  <1>a. TypeOK /\ Structure /\ QuietKeys /\ Flights /\ Places
    BY DEF IInv, Structure
  <1>b. \A n \in Nat : n # Absent
    OBVIOUS
  <1>1. ASSUME NEW t \in Task, NEW k \in Key, Call(t, k) PROVE QuietKeys' /\ Flights'
    <2>1. ref[t] = NoLock /\ pc[t] = "idle"
      BY <1>1, <1>a DEF Call, Places, LockPhase, Held
    <2>2. CASE valkey /\ Move(t, "probe") /\ UNCHANGED <<ref, started, lockVars>>
      <3> SUFFICES ASSUME NEW j \in Key, Undisturbed(j), ~disturbed[j], Region(j)' # {}
                   PROVE  Undisturbed(j)'
        BY <1>1, <1>a, BusyKeysSuffice DEF Call, Settle
      <3>1. \A u \in Region(j)' : u \in Region(j) /\ pc'[u] = pc[u]
        BY <1>1, <1>a, <2>1, <2>2 DEF Call, Move, Region, TypeOK
      <3>2. \A u \in Region(j) : u \in Region(j)'
        BY <1>1, <1>a, <2>1, <2>2 DEF Call, Region, TypeOK
      <3>3. \A u \in Task : ~BeginsFlight(u, j)
        BY <1>a, <2>2 DEF Move, BeginsFlight, TypeOK
      <3>4. flights'[j] = flights[j]
        BY <1>1, <1>a, <3>3, DisturbShape DEF Call, Settle
      <3>5. UNCHANGED <<ref, table, got, store>>
        BY <1>1, <2>2 DEF Call
      <3> QED BY <3>1, <3>2, <3>4, <3>5 DEF Undisturbed, WillLoad
    <2>3. CASE ~valkey /\ store[k] = Absent /\ Enter(t, k)
      BY <1>1, <1>a, <2>1, <2>3, EnterShape, EnterFlights DEF Call, Settle
    <2> QED BY <1>1, <2>2, <2>3 DEF Call
  <1>2. ASSUME NEW t \in Task, NEW k \in Key, RefreshStart(t, k) PROVE QuietKeys' /\ Flights'
    <2>1. LocalStep(t) /\ ref[t] = NoLock
      BY <1>2, <1>a DEF RefreshStart, BeginLoad, Move, LocalStep, Places, TypeOK, LockPhase, Held
    <2> QED BY <1>2, <1>a, <2>1, LocalFlights DEF RefreshStart
  <1>3. ASSUME NEW t \in Task, ServeGet(t) PROVE QuietKeys' /\ Flights'
    <2>1. LocalStep(t)
      BY <1>3, <1>a DEF ServeGet, Move, LocalStep, Places, TypeOK, LockPhase, Held
    <2>2. ref[t] # NoLock => /\ pc[t] = "recheck" /\ pc'[t] = "rechecked"
                             /\ owner[ref[t]] = t /\ got'[t] = store[key[t]]
      BY <1>3, <1>a DEF ServeGet, Move, Places, TypeOK, LockPhase, Held, Structure, OwnerHolds
    <2>3. (\A u \in Task \ {t} : got'[u] = got[u]) /\ store' = store /\ UNCHANGED historyVars
      BY <1>3, <1>a DEF ServeGet, TypeOK
    <2> QED BY <1>a, <2>1, <2>2, <2>3, LocalFlights DEF Loading
  <1>4. ASSUME NEW t \in Task, ProbeHit(t) PROVE QuietKeys' /\ Flights'
    <2>1. LocalStep(t) /\ ref[t] = NoLock
      BY <1>4, <1>a DEF ProbeHit, Return, Move, LocalStep, Places, TypeOK, LockPhase, Held
    <2>2. (\A u \in Task \ {t} : got'[u] = got[u]) /\ store' = store /\ UNCHANGED historyVars
      BY <1>4, <1>a DEF ProbeHit, Return, TypeOK
    <2> QED BY <1>a, <2>1, <2>2, LocalFlights
  <1>5. ASSUME NEW t \in Task, ProbeMiss(t) PROVE QuietKeys' /\ Flights'
    <2>1. ref[t] = NoLock /\ key[t] \in Key /\ pc[t] = "probed"
      BY <1>5, <1>a DEF ProbeMiss, Places, LockPhase, Held
    <2>2. key' = [key EXCEPT ![t] = key[t]]
      BY <1>5, <1>a DEF ProbeMiss, TypeOK
    <2>3. PICK l \in LockId : EnterStep(t, key[t], l)
      BY <1>5, <1>a, <2>1, <2>2, EnterShape DEF ProbeMiss
    <2>4. CASE valkey
      BY <1>5, <1>a, <2>1, <2>3, <2>4, EnterFlights DEF ProbeMiss, Settle
    <2>5. CASE ~valkey
      BY <1>a, <2>1, <2>5 DEF Places
    <2> QED BY <2>4, <2>5
  <1>6. ASSUME NEW t \in Task, Wake(t) PROVE QuietKeys' /\ Flights'
    <2>1. pc[t] = "queued" /\ owner[ref[t]] = NoTask /\ ref[t] \in LockId /\ key[t] \in Key
      BY <1>6, <1>a DEF Wake, Places, TypeOK
    <2>2. store' = store /\ Disturb({})
      BY <1>6 DEF Wake, Settle
    <2>3. CASE TakeStep(t) /\ got' = got /\ (~valkey => store[key[t]] = Absent)
      BY <1>a, <2>1, <2>2, <2>3, TakeFlights
    <2>4. CASE store[key[t]] # Absent /\ PopEntry(t) /\ Return(t) /\ UNCHANGED owner
      BY <1>6, <1>a, <2>1, <2>2, <2>4, WakeLeaves, LeaveFlights
    <2> QED BY <1>6, <2>3, <2>4, WakeShape
  <1>7. ASSUME NEW t \in Task, RecheckHit(t) PROVE QuietKeys' /\ Flights'
    <2>1. LeaveStep(t) /\ store' = store /\ Disturb({}) /\ pc[t] = "rechecked" /\ got[t] # Absent
      BY <1>7 DEF RecheckHit, LeaveStep, Settle
    <2>2. ref[t] # NoLock /\ key[t] \in Key
      BY <1>a, <2>1 DEF Places, Held
    <2>3. CASE store[key[t]] # Absent
      BY <1>a, <2>1, <2>3, LeaveFlights
    <2>4. CASE store[key[t]] = Absent
      <3>1. disturbed[key[t]]
        BY <1>a, <2>1, <2>2, <2>4 DEF Flights, Undisturbed, Region
      <3>2. Disturb({key[t]})
        BY <2>1, <3>1 DEF Disturb
      <3> QED BY <1>a, <2>1, <3>2, LeaveFlights
    <2> QED BY <2>3, <2>4
  <1>8. ASSUME NEW t \in Task, RecheckMiss(t) PROVE QuietKeys' /\ Flights'
    BY <1>8, <1>a, RecheckMissFlights
  <1>9. ASSUME NEW t \in Task, LoaderReturns(t) PROVE QuietKeys' /\ Flights'
    <2>1. pc[t] = "load" /\ ref[t] # NoLock /\ key[t] \in Key
      BY <1>9, <1>a DEF LoaderReturns, Places, Held
    <2>2. CASE valkey
      <3>1. LocalStep(t) /\ pc'[t] = "store"
        BY <1>9, <1>a, <2>1, <2>2 DEF LoaderReturns, Move, LocalStep, TypeOK, LockPhase, Held
      <3>2. UNCHANGED <<got, store, historyVars>>
        BY <1>9, <2>2 DEF LoaderReturns
      <3> QED BY <1>a, <2>1, <3>1, <3>2, LocalFlights DEF Loading
    <2>3. CASE ~valkey
      <3>1. LeaveStep(t) /\ Disturb({}) /\ store' = [store EXCEPT ![key[t]] = started[t]]
        BY <1>9, <2>3 DEF LoaderReturns, LeaveStep, Settle
      <3>2. store'[key[t]] # Absent /\ \A i \in Key : store'[i] = Absent => store[i] = Absent
        BY <1>a, <1>b, <2>1, <3>1 DEF TypeOK
      <3> QED BY <1>a, <3>1, <3>2, LeaveFlights
    <2> QED BY <2>2, <2>3
  <1>10. ASSUME NEW t \in Task, ServeSet(t) PROVE QuietKeys' /\ Flights'
    <2>1. LocalStep(t) /\ pc[t] = "store" /\ pc'[t] = "stored" /\ key[t] \in Key
      BY <1>10, <1>a DEF ServeSet, Move, LocalStep, Places, TypeOK, LockPhase, Held
    <2>2. UNCHANGED <<got, historyVars>> /\ store' = [store EXCEPT ![key[t]] = started[t]]
      BY <1>10 DEF ServeSet
    <2>3. store'[key[t]] # Absent /\ \A i \in Key : store'[i] = Absent => store[i] = Absent
      BY <1>a, <1>b, <2>1, <2>2 DEF TypeOK
    <2> QED BY <1>a, <2>1, <2>2, <2>3, LocalFlights DEF Loading
  <1>11. ASSUME NEW t \in Task, StoreReturns(t) PROVE QuietKeys' /\ Flights'
    <2>1. LeaveStep(t) /\ store' = store /\ Disturb({}) /\ pc[t] = "stored" /\ key[t] \in Key
      BY <1>11, <1>a DEF StoreReturns, LeaveStep, Settle, Places
    <2>2. CASE ref[t] = NoLock \/ store[key[t]] # Absent
      BY <1>a, <2>1, <2>2, LeaveFlights
    <2>3. CASE ref[t] # NoLock /\ store[key[t]] = Absent
      <3>1. disturbed[key[t]]
        BY <1>a, <2>1, <2>3 DEF Flights, Undisturbed, Region
      <3>2. Disturb({key[t]})
        BY <2>1, <3>1 DEF Disturb
      <3> QED BY <1>a, <2>1, <3>2, LeaveFlights
    <2> QED BY <2>2, <2>3
  <1>12. ASSUME NEW t \in Task, RefreshReturns(t) PROVE QuietKeys' /\ Flights'
    <2>1. ref[t] = NoLock /\ key[t] \in Key
      BY <1>12, <1>a DEF RefreshReturns, Places, LockPhase, Held
    <2>2. CASE valkey
      <3>1. LocalStep(t) /\ UNCHANGED <<got, store, historyVars>>
        BY <1>12, <1>a, <2>1, <2>2 DEF RefreshReturns, Move, LocalStep, TypeOK, Held
      <3> QED BY <1>a, <2>1, <3>1, LocalFlights
    <2>3. CASE ~valkey
      <3>1. LocalStep(t) /\ UNCHANGED historyVars /\ \A u \in Task \ {t} : got'[u] = got[u]
        BY <1>12, <1>a, <2>1, <2>3 DEF RefreshReturns, Return, Move, LocalStep, TypeOK, Held
      <3>2. \A i \in Key : store'[i] = Absent => store[i] = Absent
        BY <1>12, <1>a, <1>b, <2>1, <2>3 DEF RefreshReturns, TypeOK
      <3> QED BY <1>a, <2>1, <3>1, <3>2, LocalFlights
    <2> QED BY <2>2, <2>3
  <1>13. ASSUME NEW t \in Task, Abort(t) PROVE QuietKeys' /\ Flights'
    <2>1. LeaveStep(t) /\ store' = store
      BY <1>13 DEF Abort, LeaveStep
    <2>2. CASE ref[t] # NoLock
      BY <1>13, <1>a, <2>1, <2>2, LeaveFlights DEF Abort
    <2>3. CASE ref[t] = NoLock
      BY <1>13, <1>a, <2>1, <2>3, LeaveFlights DEF Abort
    <2> QED BY <2>2, <2>3
  <1>14. ASSUME NEW t \in Task, CancelWait(t) PROVE QuietKeys' /\ Flights'
    <2>1. LeaveStep(t) /\ store' = store /\ Disturb({key[t]})
      BY <1>14, CancelShape DEF CancelWait
    <2> QED BY <1>a, <2>1, LeaveFlights
  <1>15. ASSUME NEW ks, Disturb(ks), UNCHANGED <<pc, key, ref, got, table>>,
                \A i \in Key : i \notin ks => store'[i] = store[i]
         PROVE  QuietKeys' /\ Flights'
    <2> SUFFICES ASSUME NEW j \in Key, Undisturbed(j), ~disturbed[j], j \notin ks, Region(j)' # {}
                 PROVE  Undisturbed(j)'
      BY <1>15, <1>a, BusyKeysSuffice
    <2>1. Region(j)' = Region(j) /\ store'[j] = store[j]
      BY <1>15 DEF Region
    <2>2. flights'[j] = flights[j]
      BY <1>15, <1>a, DisturbShape DEF BeginsFlight
    <2> QED BY <1>15, <2>1, <2>2 DEF Undisturbed, WillLoad
  <1>16. ASSUME UNCHANGED <<pc, key, ref, got, table, store, disturbed, flights>>
         PROVE  QuietKeys' /\ Flights'
    BY <1>16, <1>a DEF QuietKeys, Flights, Undisturbed, WillLoad, Region
  <1>17. ASSUME NEW k \in Key, Expire(k) PROVE QuietKeys' /\ Flights'
    <2>1. \A i \in Key : i \notin {k} => store'[i] = store[i]
      BY <1>17, <1>a DEF Expire, TypeOK
    <2> QED BY <1>15, <1>17, <2>1 DEF Expire
  <1>18. ASSUME NEW k \in Key, SweepDelete(k) PROVE QuietKeys' /\ Flights'
    <2>1. \A i \in Key : i \notin {k} => store'[i] = store[i]
      BY <1>18, <1>a DEF SweepDelete, TypeOK
    <2> QED BY <1>15, <1>18, <2>1 DEF SweepDelete
  <1>19. ASSUME NEW ns, Invalidate(ns) PROVE QuietKeys' /\ Flights'
    <2> DEFINE hit == {k \in Key : Namespace(k) = ns}
    <2>1. CASE UNCHANGED <<store, historyVars>>
      BY <1>16, <1>19, <2>1 DEF Invalidate
    <2>2. CASE Disturb(hit) /\ store' = [k \in Key |-> IF k \in hit THEN Absent ELSE store[k]]
      <3>1. \A i \in Key : i \notin hit => store'[i] = store[i]
        BY <2>2
      <3> HIDE DEF hit
      <3> QED BY <1>15, <1>19, <2>2, <3>1 DEF Invalidate
    <2> QED BY <1>19, <2>1, <2>2 DEF Invalidate
  <1>20. CASE SweepAborts
    BY <1>16, <1>20 DEF SweepAborts
  <1>21. CASE UNCHANGED vars
    BY <1>16, <1>21
  <1> QED
    BY <1>1, <1>2, <1>3, <1>4, <1>5, <1>6, <1>7, <1>8, <1>9, <1>10, <1>11, <1>12, <1>13, <1>14,
       <1>17, <1>18, <1>19, <1>20, <1>21 DEF Next, Advance

-----------------------------------------------------------------------------
\* The theorems.

LEMMA InitIInv == Init => IInv
  <1> SUFFICES ASSUME Init PROVE IInv
    OBVIOUS
  <1> USE SentinelAssumption
  <1>1. TypeOK
    BY DEF Init, TypeOK, Phase, Cached
  <1>2. Structure
    BY DEF Init, Structure, Places, Held, LockPhase, TableLive, Region, LocksAreKeyed, OwnerHolds
  <1>3. QuietKeys /\ Flights
    BY DEF Init, QuietKeys, Flights, Undisturbed, Region
  <1> QED BY <1>1, <1>2, <1>3 DEF IInv

LEMMA NextIInv == IInv /\ [Next]_vars => IInv'
  <1> SUFFICES ASSUME IInv, [Next]_vars PROVE IInv'
    OBVIOUS
  <1>1. TypeOK'
    BY TypePreserved DEF IInv, Structure
  <1>2. Structure'
    BY <1>1, StructurePreserved DEF IInv
  <1>3. QuietKeys' /\ Flights'
    BY <1>1, FlightsPreserved
  <1> QED BY <1>1, <1>2, <1>3 DEF IInv

\* The inductive invariant holds in every reachable state, whatever the tasks, keys and
\* backend.
THEOREM Inductive == Spec => []IInv
  <1> QED BY InitIInv, NextIInv, PTL DEF Spec

\* Every variable of the cache service keeps its type.
THEOREM TypeCorrect == Spec => []TypeOK
  <1>1. IInv => TypeOK
    BY DEF IInv
  <1> QED BY <1>1, Inductive, PTL

\* Request coalescing: within an undisturbed busy period of a key its loader is started at
\* most once, for any number of concurrent callers and with either backend.
THEOREM Coalescing == Spec => []SingleFlight
  <1>1. IInv => SingleFlight
    BY DEF IInv, Flights, Undisturbed, SingleFlight
  <1> QED BY <1>1, Inductive, PTL

\* The singleflight table never leaks an entry: each belongs to a caller that is still
\* inside coalesce and that will drop it.
THEOREM NoLeak == Spec => []TableLive
  <1>1. IInv => TableLive
    BY DEF IInv, Structure
  <1> QED BY <1>1, Inductive, PTL

-----------------------------------------------------------------------------
\* Invalidation.

Epochs == LoadsKnown /\ InvalidationHolds

\* A step that starts no load and touches neither store nor generations keeps Epochs.
LEMMA QuietEpochs ==
    ASSUME Epochs, UNCHANGED <<store, gen, sweep, exempt>>,
           \A t \in Task : pc'[t] \in Loading \union {"refresh"} =>
               \/ pc[t] \in Loading \union {"refresh"} /\ key'[t] = key[t] /\ started'[t] = started[t]
               \/ started'[t] = gen[key'[t]]
    PROVE  Epochs'
  BY DEF Epochs, LoadsKnown, InvalidationHolds

\* Storing the value of one's own load keeps it.
LEMMA StoreEpochs ==
    ASSUME TypeOK, Epochs, UNCHANGED <<gen, sweep, exempt>>, NEW t \in Task,
           pc[t] \in Loading \union {"refresh"},
           store' = [store EXCEPT ![key[t]] = started[t]],
           \A u \in Task : pc'[u] \in Loading \union {"refresh"} =>
               pc[u] \in Loading \union {"refresh"} /\ key'[u] = key[u] /\ started'[u] = started[u]
    PROVE  Epochs'
  BY DEF Epochs, LoadsKnown, InvalidationHolds, TypeOK

\* Removing values keeps it.
LEMMA RemoveEpochs ==
    ASSUME TypeOK, Epochs, UNCHANGED <<pc, key, started, gen, exempt>>, NEW k \in Key,
           store' = [store EXCEPT ![k] = Absent],
           sweep' \in {sweep, sweep \ {k}}
    PROVE  Epochs'
  BY DEF Epochs, LoadsKnown, InvalidationHolds, TypeOK

LEMMA EpochsPreserved == IInv /\ Epochs /\ [Next]_vars => Epochs'
  <1> SUFFICES ASSUME IInv, Epochs, [Next]_vars PROVE Epochs'
    OBVIOUS
  <1> USE DEF Loading
  <1>a. TypeOK /\ Places
    BY DEF IInv, Structure
  <1>1. ASSUME NEW t \in Task, NEW k \in Key, Call(t, k) PROVE Epochs'
    <2>1. \A u \in Task \ {t} : pc'[u] = pc[u] /\ key'[u] = key[u] /\ started'[u] = started[u]
      BY <1>1, <1>a DEF Call, Enter, BeginLoad, Move, TypeOK
    <2>2. pc'[t] \in {"load", "store", "refresh"} => started'[t] = gen[key'[t]]
      BY <1>1, <1>a DEF Call, Enter, BeginLoad, Move, TypeOK
    <2> QED BY <1>1, <2>1, <2>2, QuietEpochs DEF Call
  <1>2. ASSUME NEW t \in Task, NEW k \in Key, RefreshStart(t, k) PROVE Epochs'
    <2>1. \A u \in Task \ {t} : pc'[u] = pc[u] /\ key'[u] = key[u] /\ started'[u] = started[u]
      BY <1>2, <1>a DEF RefreshStart, BeginLoad, Move, TypeOK
    <2>2. started'[t] = gen[key'[t]]
      BY <1>2, <1>a DEF RefreshStart, BeginLoad, Move, TypeOK
    <2> QED BY <1>2, <2>1, <2>2, QuietEpochs DEF RefreshStart
  <1>3. ASSUME NEW t \in Task, ServeGet(t) PROVE Epochs'
    BY <1>3, <1>a, QuietEpochs DEF ServeGet, Move, TypeOK
  <1>4. ASSUME NEW t \in Task, ProbeHit(t) PROVE Epochs'
    BY <1>4, <1>a, QuietEpochs DEF ProbeHit, Return, Move, TypeOK
  <1>5. ASSUME NEW t \in Task, ProbeMiss(t) PROVE Epochs'
    <2>1. \A u \in Task \ {t} : pc'[u] = pc[u] /\ key'[u] = key[u] /\ started'[u] = started[u]
      BY <1>5, <1>a DEF ProbeMiss, Enter, BeginLoad, Move, TypeOK
    <2>2. pc'[t] \in {"load", "store", "refresh"} => started'[t] = gen[key'[t]]
      BY <1>5, <1>a DEF ProbeMiss, Enter, BeginLoad, Move, TypeOK
    <2> QED BY <1>5, <2>1, <2>2, QuietEpochs DEF ProbeMiss
  <1>6. ASSUME NEW t \in Task, Wake(t) PROVE Epochs'
    <2>1. \A u \in Task \ {t} : pc'[u] = pc[u] /\ key'[u] = key[u] /\ started'[u] = started[u]
      BY <1>6, <1>a DEF Wake, BeginLoad, Return, Move, TypeOK
    <2>2. pc'[t] \in {"load", "store", "refresh"} => started'[t] = gen[key'[t]]
      BY <1>6, <1>a DEF Wake, BeginLoad, Return, Move, TypeOK
    <2> QED BY <1>6, <2>1, <2>2, QuietEpochs DEF Wake
  <1>7. ASSUME NEW t \in Task, RecheckHit(t) PROVE Epochs'
    BY <1>7, <1>a, QuietEpochs DEF RecheckHit, Return, Move, TypeOK
  <1>8. ASSUME NEW t \in Task, RecheckMiss(t) PROVE Epochs'
    <2>1. \A u \in Task \ {t} : pc'[u] = pc[u] /\ key'[u] = key[u] /\ started'[u] = started[u]
      BY <1>8, <1>a DEF RecheckMiss, BeginLoad, Move, TypeOK
    <2>2. started'[t] = gen[key'[t]]
      BY <1>8, <1>a DEF RecheckMiss, BeginLoad, Move, TypeOK
    <2> QED BY <1>8, <2>1, <2>2, QuietEpochs DEF RecheckMiss
  <1>9. ASSUME NEW t \in Task, LoaderReturns(t) PROVE Epochs'
    <2>1. CASE valkey
      BY <1>9, <1>a, <2>1, QuietEpochs DEF LoaderReturns, Move, TypeOK
    <2>2. CASE ~valkey
      BY <1>9, <1>a, <2>2, StoreEpochs DEF LoaderReturns, Return, Move, TypeOK
    <2> QED BY <2>1, <2>2
  <1>10. ASSUME NEW t \in Task, ServeSet(t) PROVE Epochs'
    BY <1>10, <1>a, StoreEpochs DEF ServeSet, Move, TypeOK
  <1>11. ASSUME NEW t \in Task, StoreReturns(t) PROVE Epochs'
    BY <1>11, <1>a, QuietEpochs DEF StoreReturns, Return, Move, TypeOK
  <1>12. ASSUME NEW t \in Task, RefreshReturns(t) PROVE Epochs'
    <2>1. CASE valkey
      BY <1>12, <1>a, <2>1, QuietEpochs DEF RefreshReturns, Move, TypeOK
    <2>2. CASE ~valkey
      BY <1>12, <1>a, <2>2, StoreEpochs DEF RefreshReturns, Return, Move, TypeOK
    <2> QED BY <2>1, <2>2
  <1>13. ASSUME NEW t \in Task, Abort(t) PROVE Epochs'
    BY <1>13, <1>a, QuietEpochs DEF Abort, Return, Move, TypeOK
  <1>14. ASSUME NEW t \in Task, CancelWait(t) PROVE Epochs'
    BY <1>14, <1>a, QuietEpochs DEF CancelWait, Return, Move, TypeOK
  <1>15. ASSUME NEW k \in Key, Expire(k) PROVE Epochs'
    BY <1>15, <1>a, RemoveEpochs DEF Expire
  <1>16. ASSUME NEW k \in Key, SweepDelete(k) PROVE Epochs'
    BY <1>16, <1>a, RemoveEpochs DEF SweepDelete
  <1>17. ASSUME NEW ns, Invalidate(ns) PROVE Epochs'
    <2>1. LoadsKnown'
      BY <1>17, <1>a DEF Invalidate, InFlight, Epochs, LoadsKnown, Places, TypeOK
    <2>2. InvalidationHolds'
      BY <1>17, <1>a DEF Invalidate, Epochs, InvalidationHolds, TypeOK
    <2> QED BY <2>1, <2>2 DEF Epochs
  <1>18. CASE SweepAborts
    BY <1>18 DEF SweepAborts, Epochs, LoadsKnown, InvalidationHolds
  <1>19. CASE UNCHANGED vars
    BY <1>19 DEF Epochs, LoadsKnown, InvalidationHolds
  <1> QED
    BY <1>1, <1>2, <1>3, <1>4, <1>5, <1>6, <1>7, <1>8, <1>9, <1>10, <1>11, <1>12, <1>13, <1>14,
       <1>15, <1>16, <1>17, <1>18, <1>19 DEF Next, Advance

\* Once an invalidation is over, the namespace holds no value from before it, except for
\* keys whose load straddled it or that it reported it could not delete.
THEOREM Invalidation == Spec => []InvalidationHolds
  <1>1. Init => Epochs
    BY DEF Init, Epochs, LoadsKnown, InvalidationHolds, Loading
  <1>2. Epochs => InvalidationHolds
    BY DEF Epochs
  <1> QED BY <1>1, <1>2, Inductive, EpochsPreserved, PTL DEF Spec

-----------------------------------------------------------------------------
\* Every step of a task is an entry, the taking of a lock, a departure, or a step that leaves
\* locks and queues alone; the others do so too.

LEMMA Shapes ==
    ASSUME IInv, [Next]_vars
    PROVE  \/ \E t \in Task : \E k \in Key : \E l \in LockId : ref[t] = NoLock /\ EnterStep(t, k, l)
           \/ \E t \in Task : TakeStep(t)
           \/ \E t \in Task : LeaveStep(t)
           \/ \E t \in Task : LocalStep(t)
           \/ UNCHANGED <<pc, key, ref, lockVars>>
  <1>a. TypeOK /\ Places
    BY DEF IInv, Structure
  <1>1. ASSUME NEW t \in Task, NEW k \in Key, Call(t, k)
        PROVE  LocalStep(t) \/ \E l \in LockId : ref[t] = NoLock /\ EnterStep(t, k, l)
    <2>1. ref[t] = NoLock
      BY <1>1, <1>a DEF Call, Places, LockPhase, Held
    <2>2. CASE valkey /\ Move(t, "probe") /\ UNCHANGED <<ref, started, lockVars>>
      BY <1>1, <1>a, <2>1, <2>2 DEF Call, LocalStep, Move, TypeOK, Held
    <2>3. CASE Enter(t, k)
      BY <1>1, <1>a, <2>1, <2>3, EnterShape DEF Call
    <2> QED BY <1>1, <2>2, <2>3 DEF Call
  <1>2. ASSUME NEW t \in Task, NEW k \in Key, RefreshStart(t, k) PROVE LocalStep(t)
    BY <1>2, <1>a DEF RefreshStart, BeginLoad, Move, LocalStep, Places, TypeOK, LockPhase, Held
  <1>3. ASSUME NEW t \in Task, ServeGet(t) PROVE LocalStep(t)
    BY <1>3, <1>a DEF ServeGet, Move, LocalStep, Places, TypeOK, LockPhase, Held
  <1>4. ASSUME NEW t \in Task, ProbeHit(t) PROVE LocalStep(t)
    BY <1>4, <1>a DEF ProbeHit, Return, Move, LocalStep, Places, TypeOK, LockPhase, Held
  <1>5. ASSUME NEW t \in Task, ProbeMiss(t)
        PROVE  \E k \in Key : \E l \in LockId : ref[t] = NoLock /\ EnterStep(t, k, l)
    <2>1. ref[t] = NoLock /\ key[t] \in Key
      BY <1>5, <1>a DEF ProbeMiss, Places, LockPhase, Held
    <2>2. key' = [key EXCEPT ![t] = key[t]]
      BY <1>5, <1>a DEF ProbeMiss, TypeOK
    <2> QED BY <1>5, <1>a, <2>1, <2>2, EnterShape DEF ProbeMiss
  <1>6. ASSUME NEW t \in Task, Wake(t) PROVE TakeStep(t) \/ LeaveStep(t)
    BY <1>6, WakeShape, WakeLeaves
  <1>7. ASSUME NEW t \in Task, RecheckHit(t) \/ StoreReturns(t) \/ Abort(t) PROVE LeaveStep(t)
    BY <1>7 DEF RecheckHit, StoreReturns, Abort, LeaveStep
  <1>8. ASSUME NEW t \in Task, RecheckMiss(t) PROVE LocalStep(t)
    BY <1>8, <1>a DEF RecheckMiss, BeginLoad, Move, LocalStep, Places, TypeOK, LockPhase, Held
  <1>9. ASSUME NEW t \in Task, LoaderReturns(t) PROVE LocalStep(t) \/ LeaveStep(t)
    <2>1. CASE valkey
      BY <1>9, <1>a, <2>1 DEF LoaderReturns, Move, LocalStep, Places, TypeOK, LockPhase, Held
    <2>2. CASE ~valkey
      BY <1>9, <2>2 DEF LoaderReturns, LeaveStep
    <2> QED BY <2>1, <2>2
  <1>10. ASSUME NEW t \in Task, ServeSet(t) PROVE LocalStep(t)
    BY <1>10, <1>a DEF ServeSet, Move, LocalStep, Places, TypeOK, LockPhase, Held
  <1>11. ASSUME NEW t \in Task, RefreshReturns(t) PROVE LocalStep(t)
    <2>1. ref[t] = NoLock /\ key[t] \in Key
      BY <1>11, <1>a DEF RefreshReturns, Places, LockPhase, Held
    <2>2. CASE valkey
      BY <1>11, <1>a, <2>1, <2>2 DEF RefreshReturns, Move, LocalStep, TypeOK, Held
    <2>3. CASE ~valkey
      BY <1>11, <1>a, <2>1, <2>3 DEF RefreshReturns, Return, Move, LocalStep, TypeOK, Held
    <2> QED BY <2>2, <2>3
  <1>12. ASSUME NEW t \in Task, CancelWait(t) PROVE LeaveStep(t)
    BY <1>12, CancelShape
  <1> QED
    BY <1>1, <1>2, <1>3, <1>4, <1>5, <1>6, <1>7, <1>8, <1>9, <1>10, <1>11, <1>12
       DEF Next, Advance, Expire, SweepDelete, Invalidate, SweepAborts

-----------------------------------------------------------------------------
\* Queues.

InQueue(q) == {q[i] : i \in DOMAIN q}
Once(q) == \A i, j \in DOMAIN q : q[i] = q[j] => i = j

LEMMA QueueJoined ==
    ASSUME NEW q \in Seq(Task), NEW t \in Task, Once(q), t \notin InQueue(q)
    PROVE  InQueue(Append(q, t)) = InQueue(q) \union {t} /\ Once(Append(q, t))
  <1>1. /\ Append(q, t) \in Seq(Task) /\ Len(Append(q, t)) = Len(q) + 1
        /\ \A i \in 1 .. Len(q) : Append(q, t)[i] = q[i]
        /\ Append(q, t)[Len(q) + 1] = t
    BY AppendProperties
  <1>2. DOMAIN q = 1 .. Len(q) /\ DOMAIN Append(q, t) = 1 .. Len(q) + 1 /\ Len(q) \in Nat
    BY <1>1, LenProperties
  <1> DEFINE new == Append(q, t)
  <1> HIDE DEF new
  <1>3. InQueue(new) = InQueue(q) \union {t}
    <2>1. ASSUME NEW i \in DOMAIN new PROVE new[i] \in InQueue(q) \union {t}
      BY <1>1, <1>2 DEF InQueue, new
    <2>2. ASSUME NEW i \in DOMAIN q PROVE q[i] \in InQueue(new)
      BY <1>1, <1>2 DEF InQueue, new
    <2>3. t \in InQueue(new)
      BY <1>1, <1>2 DEF InQueue, new
    <2> QED BY <2>1, <2>2, <2>3 DEF InQueue
  <1>4. Once(new)
    BY <1>1, <1>2 DEF Once, InQueue, new
  <1> QED BY <1>3, <1>4 DEF new

\* A queue without its i-th member.
LEMMA QueueCut ==
    ASSUME NEW q \in Seq(Task), Once(q), NEW i \in DOMAIN q, NEW r \in Seq(Task),
           Len(r) = Len(q) - 1, \A j \in 1 .. Len(r) : r[j] = IF j < i THEN q[j] ELSE q[j + 1]
    PROVE  InQueue(r) = InQueue(q) \ {q[i]} /\ Once(r)
  <1>1. DOMAIN q = 1 .. Len(q) /\ DOMAIN r = 1 .. Len(r) /\ Len(q) \in Nat /\ Len(r) \in Nat
    BY LenProperties
  <1>2. ASSUME NEW j \in DOMAIN r PROVE r[j] \in InQueue(q) \ {q[i]}
    BY <1>1 DEF Once, InQueue
  <1>3. ASSUME NEW j \in DOMAIN q, j # i PROVE q[j] \in InQueue(r)
    <2>1. CASE j < i
      <3>1. j \in DOMAIN r /\ r[j] = q[j]
        BY <1>1, <2>1
      <3> QED BY <3>1 DEF InQueue
    <2>2. CASE j > i
      <3>1. j - 1 \in DOMAIN r /\ r[j - 1] = q[j]
        BY <1>1, <2>2
      <3> QED BY <3>1 DEF InQueue
    <2> QED BY <1>1, <1>3, <2>1, <2>2
  <1>4. Once(r)
    BY <1>1 DEF Once
  <1> QED BY <1>2, <1>3, <1>4 DEF InQueue

LEMMA QueueServed ==
    ASSUME NEW q \in Seq(Task), q # <<>>, Once(q)
    PROVE  InQueue(Tail(q)) = InQueue(q) \ {Head(q)} /\ Once(Tail(q))
  <1>1. /\ Tail(q) \in Seq(Task) /\ Len(Tail(q)) = Len(q) - 1 /\ Head(q) = q[1]
        /\ \A j \in 1 .. Len(Tail(q)) : Tail(q)[j] = q[j + 1]
    BY HeadTailProperties
  <1>2. 1 \in DOMAIN q
    BY LenProperties, EmptySeq
  <1> DEFINE r == Tail(q)
  <1> HIDE DEF r
  <1>3. \A j \in 1 .. Len(r) : r[j] = IF j < 1 THEN q[j] ELSE q[j + 1]
    BY <1>1 DEF r
  <1>4. InQueue(r) = InQueue(q) \ {q[1]} /\ Once(r)
    BY <1>1, <1>2, <1>3, QueueCut DEF r
  <1> QED BY <1>1, <1>4 DEF r

LEMMA WithoutIs ==
    ASSUME NEW q \in Seq(Task), NEW i \in DOMAIN q
    PROVE  /\ Without(q, i) \in Seq(Task) /\ Len(Without(q, i)) = Len(q) - 1
           /\ \A j \in 1 .. Len(Without(q, i)) : Without(q, i)[j] = IF j < i THEN q[j] ELSE q[j + 1]
  <1> DEFINE a == SubSeq(q, 1, i - 1)
             b == SubSeq(q, i + 1, Len(q))
  <1>1. i \in 1 .. Len(q) /\ Len(q) \in Nat
    BY LenProperties
  <1>2. /\ a \in Seq(Task) /\ Len(a) = i - 1 /\ \A j \in 1 .. i - 1 : a[j] = q[j]
        /\ b \in Seq(Task) /\ Len(b) = Len(q) - i /\ \A j \in 1 .. Len(q) - i : b[j] = q[i + j]
    BY <1>1, SubSeqProperties
  <1> HIDE DEF a, b
  <1>3. /\ a \o b \in Seq(Task) /\ Len(a \o b) = Len(a) + Len(b)
        /\ \A j \in 1 .. Len(a) + Len(b) : (a \o b)[j] = IF j <= Len(a) THEN a[j] ELSE b[j - Len(a)]
    BY <1>2, ConcatProperties
  <1>4. Len(a \o b) = Len(q) - 1
    BY <1>1, <1>2, <1>3
  <1>5. ASSUME NEW j \in 1 .. Len(a \o b) PROVE (a \o b)[j] = IF j < i THEN q[j] ELSE q[j + 1]
    <2>1. CASE j < i
      BY <1>1, <1>2, <1>3, <2>1
    <2>2. CASE ~ (j < i)
      <3>1. j - (i - 1) \in 1 .. Len(q) - i /\ i + (j - (i - 1)) = j + 1
        BY <1>1, <1>4, <2>2
      <3>2. j \in 1 .. Len(a) + Len(b) /\ ~ (j <= Len(a)) /\ j - Len(a) = j - (i - 1)
        BY <1>1, <1>2, <1>3, <1>4, <2>2
      <3>3. (a \o b)[j] = b[j - (i - 1)]
        BY <1>3, <3>2
      <3>4. b[j - (i - 1)] = q[i + (j - (i - 1))]
        BY <1>2, <3>1
      <3> QED BY <2>2, <3>1, <3>3, <3>4
    <2> QED BY <2>1, <2>2
  <1> QED BY <1>3, <1>4, <1>5 DEF Without, a, b

LEMMA QueueLeft ==
    ASSUME NEW q \in Seq(Task), Once(q), NEW i \in DOMAIN q
    PROVE  InQueue(Without(q, i)) = InQueue(q) \ {q[i]} /\ Once(Without(q, i))
  BY WithoutIs, QueueCut

Waiting(l) == {t \in Task : ref[t] = l /\ pc[t] = "queued"}

LEMMA LinesAre ==
    Lines <=> \A l \in LockId :
                  /\ owner[l] # NoTask => ref[owner[l]] = l /\ pc[owner[l]] # "queued"
                  /\ InQueue(queue[l]) = Waiting(l)
                  /\ Once(queue[l])
  BY DEF Lines, InQueue, Waiting, Once

LEMMA EnterKeepsLines ==
    ASSUME TypeOK, TypeOK', Lines, NEW t \in Task, NEW k \in Key, NEW l \in LockId, ref[t] = NoLock,
           EnterStep(t, k, l)
    PROVE  Lines'
  <1> USE SentinelAssumption
  <1>0. ref' = [ref EXCEPT ![t] = l] /\ (pc' = [pc EXCEPT ![t] = pc'[t]])
    BY DEF EnterStep, TypeOK
  <1>1. ASSUME NEW m \in LockId
        PROVE  owner'[m] # NoTask => ref'[owner'[m]] = m /\ pc'[owner'[m]] # "queued"
    <2>1. owner[m] # NoTask => owner[m] \in Task /\ owner[m] # t /\ ref[owner[m]] = m /\ pc[owner[m]] # "queued"
      BY LinesAre DEF TypeOK
    <2>2. CASE owner'[m] = owner[m]
      BY <1>0, <2>1, <2>2 DEF TypeOK
    <2>3. CASE owner'[m] # owner[m]
      <3>1. m = l /\ owner'[m] = t
        BY <2>3 DEF EnterStep, TypeOK
      <3>2. pc'[t] # "queued"
        BY <2>3 DEF EnterStep, TypeOK
      <3> QED BY <1>0, <3>1, <3>2 DEF TypeOK
    <2> QED BY <2>2, <2>3
  <1>2. ASSUME NEW m \in LockId, m # l PROVE Waiting(m)' = Waiting(m) /\ queue'[m] = queue[m]
    BY <1>2 DEF EnterStep, TypeOK, Waiting
  <1>3. InQueue(queue'[l]) = Waiting(l)' /\ Once(queue'[l])
    <2>1. CASE owner[l] = NoTask /\ queue[l] = <<>>
      <3>1. Waiting(l)' = Waiting(l) /\ queue'[l] = queue[l]
        BY <2>1 DEF EnterStep, TypeOK, Waiting
      <3> QED BY <3>1, LinesAre
    <2>2. CASE ~ (owner[l] = NoTask /\ queue[l] = <<>>)
      <3>0. pc' = [pc EXCEPT ![t] = "queued"] /\ queue'[l] = Append(queue[l], t)
        BY <2>2 DEF EnterStep, TypeOK
      <3>1. Waiting(l)' = Waiting(l) \union {t}
        BY <1>0, <3>0 DEF TypeOK, Waiting
      <3>2. queue[l] \in Seq(Task) /\ Once(queue[l]) /\ InQueue(queue[l]) = Waiting(l) /\ t \notin Waiting(l)
        BY LinesAre DEF TypeOK, Waiting
      <3> QED BY <3>0, <3>1, <3>2, QueueJoined
    <2> QED BY <2>1, <2>2
  <1>4. \A m \in LockId : InQueue(queue'[m]) = Waiting(m)' /\ Once(queue'[m])
    <2>1. \A m \in LockId : InQueue(queue[m]) = Waiting(m) /\ Once(queue[m])
      BY LinesAre
    <2> QED BY <2>1, <1>2, <1>3
  <1> QED BY <1>1, <1>4 DEF Lines, InQueue, Waiting, Once

LEMMA TakeKeepsLines ==
    ASSUME TypeOK, TypeOK', Places, Lines, NEW t \in Task, TakeStep(t)
    PROVE  Lines'
  <1> USE SentinelAssumption
  <1>0. PICK l \in LockId : ref[t] = l
    BY DEF TakeStep, Places, Held, TypeOK
  <1>1. ASSUME NEW m \in LockId
        PROVE  owner'[m] # NoTask => ref'[owner'[m]] = m /\ pc'[owner'[m]] # "queued"
    BY <1>0, LinesAre DEF TakeStep, TypeOK
  <1>2. ASSUME NEW m \in LockId, m # l PROVE Waiting(m)' = Waiting(m) /\ queue'[m] = queue[m]
    BY <1>0, <1>2 DEF TakeStep, TypeOK, Waiting
  <1>3. InQueue(queue'[l]) = Waiting(l)' /\ Once(queue'[l])
    <2>1. Waiting(l)' = Waiting(l) \ {t} /\ queue'[l] = Tail(queue[l])
      BY <1>0 DEF TakeStep, TypeOK, Waiting
    <2>2. /\ queue[l] \in Seq(Task) /\ queue[l] # <<>> /\ Head(queue[l]) = t
          /\ Once(queue[l]) /\ InQueue(queue[l]) = Waiting(l)
      BY <1>0, LinesAre DEF TakeStep, TypeOK
    <2> QED BY <2>1, <2>2, QueueServed
  <1>4. \A m \in LockId : InQueue(queue'[m]) = Waiting(m)' /\ Once(queue'[m])
    <2>1. \A m \in LockId : InQueue(queue[m]) = Waiting(m) /\ Once(queue[m])
      BY LinesAre
    <2> QED BY <2>1, <1>2, <1>3
  <1> QED BY <1>1, <1>4 DEF Lines, InQueue, Waiting, Once

LEMMA LeaveKeepsLines ==
    ASSUME TypeOK, TypeOK', Places, Lines, NEW t \in Task, LeaveStep(t)
    PROVE  Lines'
  <1> USE SentinelAssumption
  <1>0. ref' = [ref EXCEPT ![t] = NoLock] /\ pc' = [pc EXCEPT ![t] = "idle"]
    BY DEF LeaveStep, Return, Move
  <1>1. CASE pc[t] # "queued"
    <2>1. /\ queue' = queue
          /\ owner' = [l \in LockId |-> IF owner[l] = t THEN NoTask ELSE owner[l]]
      BY <1>1 DEF LeaveStep, Release
    <2>2. ASSUME NEW m \in LockId PROVE Waiting(m)' = Waiting(m)
      BY <1>0, <1>1 DEF TypeOK, Waiting
    <2>3. ASSUME NEW m \in LockId
          PROVE  owner'[m] # NoTask => ref'[owner'[m]] = m /\ pc'[owner'[m]] # "queued"
      BY <1>0, <2>1, LinesAre DEF TypeOK
    <2>4. \A m \in LockId : InQueue(queue'[m]) = Waiting(m)' /\ Once(queue'[m])
      BY <2>1, <2>2, LinesAre
    <2> QED BY <2>3, <2>4 DEF Lines, InQueue, Waiting, Once
  <1>2. CASE pc[t] = "queued"
    <2>0. PICK l \in LockId : ref[t] = l
      BY <1>2 DEF Places, Held, TypeOK
    <2>1. queue[l] \in Seq(Task) /\ Once(queue[l]) /\ InQueue(queue[l]) = Waiting(l)
      BY <2>0, LinesAre DEF TypeOK
    <2>2. Waiting(l)' = Waiting(l) \ {t}
      <3>1. \A u \in Task \ {t} : ref'[u] = ref[u] /\ pc'[u] = pc[u]
        BY <1>0 DEF TypeOK
      <3>2. pc'[t] # "queued"
        BY <1>0 DEF TypeOK
      <3> QED BY <3>1, <3>2 DEF Waiting
    <2>3. ASSUME NEW m \in LockId, m # l PROVE Waiting(m)' = Waiting(m) /\ queue'[m] = queue[m]
      BY <1>0, <1>2, <2>0, <2>3 DEF LeaveStep, TypeOK, Waiting
    <2>4. InQueue(queue'[l]) = Waiting(l)' /\ Once(queue'[l])
      <3>1. CASE /\ queue[l] # <<>> /\ Head(queue[l]) = t
                 /\ queue' = [queue EXCEPT ![l] = Tail(@)]
        <4>1. queue'[l] = Tail(queue[l])
          BY <2>0, <3>1 DEF TypeOK
        <4> QED BY <2>1, <2>2, <3>1, <4>1, QueueServed
      <3>2. ASSUME NEW i \in DOMAIN queue[l], queue[l][i] = t, queue' = [queue EXCEPT ![l] = Without(@, i)]
            PROVE  InQueue(queue'[l]) = Waiting(l)' /\ Once(queue'[l])
        <4>1. queue'[l] = Without(queue[l], i)
          BY <2>0, <3>2 DEF TypeOK
        <4> QED BY <2>1, <2>2, <3>2, <4>1, QueueLeft
      <3> QED BY <1>2, <2>0, <3>1, <3>2 DEF LeaveStep
    <2>5. ASSUME NEW m \in LockId
          PROVE  owner'[m] # NoTask => ref'[owner'[m]] = m /\ pc'[owner'[m]] # "queued"
      BY <1>0, <1>2, LinesAre DEF LeaveStep, TypeOK
    <2>6. \A m \in LockId : InQueue(queue'[m]) = Waiting(m)' /\ Once(queue'[m])
      <3>1. \A m \in LockId : InQueue(queue[m]) = Waiting(m) /\ Once(queue[m])
        BY LinesAre
      <3> QED BY <3>1, <2>3, <2>4
    <2> QED BY <2>5, <2>6 DEF Lines, InQueue, Waiting, Once
  <1> QED BY <1>1, <1>2

LEMMA LinesKeep == IInv /\ IInv' /\ Lines /\ [Next]_vars => Lines'
  <1> SUFFICES ASSUME IInv, IInv', Lines, [Next]_vars PROVE Lines'
    OBVIOUS
  <1> USE SentinelAssumption
  <1>a. TypeOK /\ TypeOK' /\ Places
    BY DEF IInv, Structure
  <1>1. ASSUME NEW t \in Task, LocalStep(t) PROVE Lines'
    <2>1. ASSUME NEW u \in Task, ref[u] # NoLock PROVE pc'[u] = "queued" <=> pc[u] = "queued"
      BY <1>1, <2>1 DEF LocalStep
    <2>2. ASSUME NEW m \in LockId PROVE Waiting(m)' = Waiting(m)
      BY <1>1, <2>1 DEF LocalStep, Waiting
    <2>3. ASSUME NEW m \in LockId
          PROVE  owner'[m] # NoTask => ref'[owner'[m]] = m /\ pc'[owner'[m]] # "queued"
      BY <1>1, <1>a, <2>1, LinesAre DEF LocalStep, TypeOK
    <2>4. \A m \in LockId : InQueue(queue'[m]) = Waiting(m)' /\ Once(queue'[m])
      BY <1>1, <2>2, LinesAre DEF LocalStep
    <2> QED BY <2>3, <2>4 DEF Lines, InQueue, Waiting, Once
  <1>2. CASE UNCHANGED <<pc, key, ref, lockVars>>
    BY <1>2 DEF Lines
  <1> QED
    BY <1>a, <1>1, <1>2, Shapes, EnterKeepsLines, TakeKeepsLines, LeaveKeepsLines

-----------------------------------------------------------------------------
\* Nobody is lost in a queue.

LEMMA InitLines == Init => Lines
  <1> SUFFICES ASSUME Init, NEW l \in LockId
      PROVE  /\ owner[l] # NoTask => ref[owner[l]] = l /\ pc[owner[l]] # "queued"
             /\ InQueue(queue[l]) = Waiting(l)
             /\ Once(queue[l])
    BY LinesAre
  <1>1. DOMAIN queue[l] = {} /\ owner[l] = NoTask /\ Waiting(l) = {}
    BY DEF Init, Waiting
  <1> QED BY <1>1 DEF InQueue, Once

LEMMA Members ==
    ASSUME TypeOK, Lines, NEW l \in LockId
    PROVE  queue[l] # <<>> => Head(queue[l]) \in Waiting(l)
  <1>1. queue[l] \in Seq(Task) /\ InQueue(queue[l]) = Waiting(l)
    BY LinesAre DEF TypeOK
  <1>2. ASSUME queue[l] # <<>> PROVE Head(queue[l]) = queue[l][1] /\ 1 \in DOMAIN queue[l]
    BY <1>1, <1>2, HeadTailProperties, LenProperties, EmptySeq
  <1> QED BY <1>1, <1>2 DEF InQueue

LEMMA EmptyLine ==
    ASSUME TypeOK, Lines, NEW l \in LockId
    PROVE  queue[l] = <<>> <=> Waiting(l) = {}
  <1>1. queue[l] = <<>> => InQueue(queue[l]) = {}
    BY DEF InQueue
  <1>2. InQueue(queue[l]) = Waiting(l)
    BY LinesAre
  <1> QED BY <1>1, <1>2, Members

\* The locks and queues of asyncio.Lock as CacheService uses it agree with where its callers are:
\* who waits in coalesce is in the queue of its lock, once, and who has a lock is past its queue.
THEOREM QueuesAgree == Spec => []Lines
  <1> QED BY InitLines, LinesKeep, Inductive, PTL DEF Spec

\* No wakeup is lost when a caller of coalesce fails or is cancelled: the lock somebody waits for
\* is held by a caller that goes on by itself, or is free and the head of its queue may take it.
THEOREM NoLostWakeup == Spec => []NobodyForgotten
  <1>1. IInv /\ Lines => NobodyForgotten
    <2> SUFFICES ASSUME IInv, Lines, NEW t \in Task, pc[t] = "queued"
        PROVE  \/ owner[ref[t]] \in Task /\ pc[owner[ref[t]]] \in Held \union {"store", "stored"}
               \/ /\ owner[ref[t]] = NoTask /\ queue[ref[t]] # <<>>
                  /\ pc[Head(queue[ref[t]])] = "queued" /\ ref[Head(queue[ref[t]])] = ref[t]
      BY DEF NobodyForgotten
    <2> DEFINE l == ref[t]
    <2>0. TypeOK /\ Places
      BY DEF IInv, Structure
    <2>1. l \in LockId /\ t \in Waiting(l)
      BY <2>0 DEF TypeOK, Places, Held, Waiting
    <2>2. CASE owner[l] # NoTask
      <3>1. owner[l] \in Task /\ ref[owner[l]] = l /\ pc[owner[l]] # "queued"
        BY <2>0, <2>1, <2>2, LinesAre DEF TypeOK
      <3>2. l # NoLock
        BY <2>1, SentinelAssumption
      <3> QED BY <2>0, <3>1, <3>2 DEF Places, LockPhase
    <2>3. CASE owner[l] = NoTask
      <3>1. queue[l] # <<>>
        BY <2>0, <2>1, EmptyLine
      <3>2. Head(queue[l]) \in Waiting(l)
        BY <2>0, <2>1, <3>1, Members
      <3> QED BY <2>3, <3>1, <3>2 DEF Waiting
    <2> QED BY <2>2, <2>3
  <1> QED BY <1>1, QueuesAgree, Inductive, PTL

-----------------------------------------------------------------------------
\* The cache service keeps the contract of CoalesceContract.

Forked(k) == \E t \in Region(k) : ref[t] # table[k]

\* What the contract says of one key.
LEMMA AtKey ==
    ASSUME NEW k \in Key, NEW c
    PROVE  /\ Contract!MayWait(k) <=> Region(k) # {}
           /\ Contract!MayEnter(k) <=> Region(k) = {} \/ Forked(k)
           /\ Contract!MayTake(k) <=> Holders(k) = {} \/ Forked(k)
           /\ Contract!SameLocks(k) <=> (Forked(k)' <=> Forked(k))
           /\ Contract!Stay(k) <=>
                  Region(k)' = Region(k) /\ Holders(k)' = Holders(k) /\ (Forked(k)' <=> Forked(k))
           /\ Contract!Wait(c, k) <=>
                  /\ c \notin Region(k) /\ Region(k) # {}
                  /\ Region(k)' = Region(k) \union {c} /\ Holders(k)' = Holders(k)
                  /\ Forked(k)' <=> Forked(k)
           /\ Contract!Enter(c, k) <=>
                  /\ c \notin Region(k) /\ (Region(k) = {} \/ Forked(k))
                  /\ Region(k)' = Region(k) \union {c} /\ Holders(k)' = Holders(k) \union {c}
                  /\ Forked(k)' <=> Forked(k)
           /\ Contract!Take(c, k) <=>
                  /\ c \in Region(k) \ Holders(k) /\ (Holders(k) = {} \/ Forked(k))
                  /\ Region(k)' = Region(k) /\ Holders(k)' = Holders(k) \union {c}
                  /\ Forked(k)' <=> Forked(k)
           /\ Contract!Leave(c, k) <=>
                  /\ c \in Region(k)
                  /\ Region(k)' = Region(k) \ {c} /\ Holders(k)' = Holders(k) \ {c}
                  /\ Forked(k)' => Region(k)' # {}
                  /\ ~Forked(k)' => \A d, e \in Holders(k)' : d = e
  BY DEF Contract!MayWait, Contract!MayEnter, Contract!MayTake, Contract!SameLocks, Contract!Stay,
         Contract!Wait, Contract!Enter, Contract!Take, Contract!Leave, Forked

Allowed(k) ==
    Contract!Stay(k) \/ \E c \in Task : Contract!Wait(c, k) \/ Contract!Enter(c, k) \/ Contract!Take(c, k) \/ Contract!Leave(c, k)

LEMMA EnterAllowed ==
    ASSUME TypeOK, TypeOK', Structure, Lines, NEW t \in Task, NEW k \in Key, NEW l \in LockId,
           ref[t] = NoLock, EnterStep(t, k, l), NEW j \in Key
    PROVE  Allowed(j)
  <1> USE SentinelAssumption
  <1>1. /\ \A u \in Task \ {t} : ref'[u] = ref[u] /\ key'[u] = key[u] /\ pc'[u] = pc[u]
        /\ ref'[t] = l /\ key'[t] = k /\ l # NoLock
        /\ table'[k] = l /\ \A i \in Key \ {k} : table'[i] = table[i]
    BY DEF EnterStep, TypeOK
  <1>2. CASE j # k
    <2>1. Region(j)' = Region(j) /\ Holders(j)' = Holders(j) /\ t \notin Region(j)
      BY <1>1, <1>2 DEF Region, Holders
    <2>2. \A u \in Region(j) : u \in Task /\ u # t
      BY <2>1 DEF Region
    <2>3. Forked(j)' <=> Forked(j)
      BY <1>1, <1>2, <2>1, <2>2 DEF Forked
    <2> QED BY <2>1, <2>3, AtKey DEF Allowed
  <1>3. CASE j = k
    <2>1. Region(k)' = Region(k) \union {t} /\ t \notin Region(k)
      BY <1>1 DEF Region
    <2>2. Forked(k)' <=> Forked(k)
      <3>1. CASE table[k] # NoLock
        <4>1. table[k] = l
          BY <3>1 DEF EnterStep
        <4> QED BY <1>1, <2>1, <4>1 DEF Forked, Region
      <3>2. CASE table[k] = NoLock
        <4>1. \A u \in Task : ref[u] # l
          BY <3>2 DEF EnterStep
        <4>2. Forked(k) <=> Region(k) # {}
          BY <3>2 DEF Forked, Region
        <4>3. Forked(k)' <=> Region(k) # {}
          BY <1>1, <2>1, <4>1 DEF Forked, Region
        <4> QED BY <4>2, <4>3
      <3> QED BY <3>1, <3>2
    <2>3. CASE owner[l] = NoTask /\ queue[l] = <<>>
      <3>1. pc'[t] # "queued"
        BY <2>3 DEF EnterStep, TypeOK
      <3>2. Holders(k)' = Holders(k) \union {t}
        <4>1. \A u \in Region(k) : pc'[u] = pc[u]
          BY <1>1, <2>1 DEF Region
        <4> QED BY <2>1, <3>1, <4>1 DEF Holders
      <3>3. Region(k) = {} \/ Forked(k)
        <4> SUFFICES ASSUME ~Forked(k), NEW u \in Region(k) PROVE FALSE
          OBVIOUS
        <4>1. ref[u] = table[k] /\ ref[u] # NoLock /\ u \in Task
          BY DEF Forked, Region
        <4>2. ref[u] = l
          BY <4>1 DEF EnterStep
        <4>3. u \notin Waiting(l)
          BY <2>3, EmptyLine
        <4> QED BY <2>3, <4>1, <4>2, <4>3 DEF Waiting, Structure, OwnerHolds
      <3> QED BY <1>3, <2>1, <2>2, <3>2, <3>3, AtKey DEF Allowed
    <2>4. CASE ~ (owner[l] = NoTask /\ queue[l] = <<>>)
      <3>1. pc'[t] = "queued"
        BY <2>4 DEF EnterStep, TypeOK
      <3>2. Holders(k)' = Holders(k)
        <4>1. \A u \in Region(k) : pc'[u] = pc[u]
          BY <1>1, <2>1 DEF Region
        <4> QED BY <2>1, <3>1, <4>1 DEF Holders
      <3>3. Region(k) # {}
        <4>1. CASE table[k] # NoLock
          BY <4>1 DEF Structure, TableLive
        <4>2. CASE table[k] = NoLock
          <5>1. \A u \in Task : ref[u] # l
            BY <4>2 DEF EnterStep
          <5>2. owner[l] = NoTask
            BY <5>1, LinesAre DEF TypeOK
          <5>3. queue[l] = <<>>
            BY <5>1, EmptyLine DEF Waiting
          <5> QED BY <2>4, <5>2, <5>3
        <4> QED BY <4>1, <4>2
      <3> QED BY <1>3, <2>1, <2>2, <3>2, <3>3, AtKey DEF Allowed
    <2> QED BY <2>3, <2>4
  <1> QED BY <1>2, <1>3

LEMMA TakeAllowed ==
    ASSUME TypeOK, TypeOK', Structure, NEW t \in Task, TakeStep(t), NEW j \in Key
    PROVE  Allowed(j)
  <1> USE SentinelAssumption
  <1>1. /\ UNCHANGED <<key, ref, table>> /\ pc[t] = "queued" /\ pc'[t] # "queued"
        /\ \A u \in Task \ {t} : pc'[u] = pc[u]
        /\ ref[t] # NoLock
    BY DEF TakeStep, TypeOK, Structure, Places, Held
  <1>2. Region(j)' = Region(j) /\ (Forked(j)' <=> Forked(j))
    BY <1>1 DEF Region, Forked
  <1>3. CASE j # key[t]
    <2>1. Holders(j)' = Holders(j)
      BY <1>1, <1>2, <1>3 DEF Holders, Region
    <2> QED BY <1>2, <2>1, AtKey DEF Allowed
  <1>4. CASE j = key[t]
    <2>1. t \in Region(j) \ Holders(j) /\ Holders(j)' = Holders(j) \union {t}
      BY <1>1, <1>2, <1>4 DEF Holders, Region
    <2>2. Holders(j) = {} \/ Forked(j)
      <3> SUFFICES ASSUME ~Forked(j), NEW u \in Holders(j) PROVE FALSE
        OBVIOUS
      <3>1. ref[u] = table[j] /\ ref[t] = table[j] /\ u \in Task /\ pc[u] # "queued" /\ ref[u] # NoLock
        BY <2>1 DEF Forked, Holders, Region
      <3> QED BY <3>1 DEF TakeStep, Structure, OwnerHolds
    <2> QED BY <1>2, <2>1, <2>2, AtKey DEF Allowed
  <1> QED BY <1>3, <1>4

LEMMA LeaveAllowed ==
    ASSUME TypeOK, TypeOK', Structure', NEW t \in Task, LeaveStep(t), NEW j \in Key
    PROVE  Allowed(j)
  <1> USE SentinelAssumption
  <1>1. /\ \A u \in Task \ {t} : ref'[u] = ref[u] /\ key'[u] = key[u] /\ pc'[u] = pc[u]
        /\ ref'[t] = NoLock
    BY DEF LeaveStep, Return, Move, TypeOK
  <1>2. table' = [k \in Key |-> IF k = key[t] /\ table[k] = ref[t] THEN NoLock ELSE table[k]]
    BY DEF LeaveStep, PopEntry
  <1>3. CASE t \notin Region(j)
    <2>1. Region(j)' = Region(j) /\ Holders(j)' = Holders(j)
      BY <1>1, <1>3 DEF Region, Holders
    <2>2. table'[j] = table[j]
      BY <1>2, <1>3 DEF Region, TypeOK
    <2>3. Forked(j)' <=> Forked(j)
      BY <1>1, <1>3, <2>1, <2>2 DEF Forked, Region
    <2> QED BY <2>1, <2>3, AtKey DEF Allowed
  <1>4. CASE t \in Region(j)
    <2>1. Region(j)' = Region(j) \ {t} /\ Holders(j)' = Holders(j) \ {t}
      BY <1>1 DEF Region, Holders
    <2>2. Forked(j)' => Region(j)' # {}
      BY DEF Forked
    <2>3. ASSUME ~Forked(j)', NEW d \in Holders(j)', NEW e \in Holders(j)' PROVE d = e
      <3>1. /\ d \in Task /\ e \in Task /\ ref'[d] = table'[j] /\ ref'[e] = table'[j]
            /\ ref'[d] # NoLock /\ pc'[d] # "queued" /\ pc'[e] # "queued"
        BY <2>3 DEF Forked, Holders, Region
      <3> QED BY <3>1 DEF Structure, OwnerHolds
    <2> QED BY <1>4, <2>1, <2>2, <2>3, AtKey DEF Allowed
  <1> QED BY <1>3, <1>4

LEMMA LocalAllowed ==
    ASSUME NEW j \in Key,
           \/ UNCHANGED <<pc, key, ref, lockVars>>
           \/ \E t \in Task : LocalStep(t)
    PROVE  Allowed(j)
  <1>1. /\ ref' = ref /\ table' = table
        /\ \A u \in Task : ref[u] # NoLock => key'[u] = key[u] /\ (pc'[u] = "queued" <=> pc[u] = "queued")
    BY DEF LocalStep
  <1>2. Region(j)' = Region(j) /\ Holders(j)' = Holders(j)
    BY <1>1 DEF Region, Holders
  <1>3. Forked(j)' <=> Forked(j)
    BY <1>1, <1>2 DEF Forked
  <1> QED BY <1>2, <1>3, AtKey DEF Allowed

LEMMA StepAllowed == IInv /\ IInv' /\ Lines /\ [Next]_vars => [Contract!Next]_(Contract!vars)
  <1> SUFFICES ASSUME IInv, IInv', Lines, [Next]_vars PROVE Contract!Next
    OBVIOUS
  <1>1. TypeOK /\ TypeOK' /\ Structure /\ Structure'
    BY DEF IInv
  <1>2. ASSUME NEW j \in Key PROVE Allowed(j)
    BY <1>1, Shapes, EnterAllowed, TakeAllowed, LeaveAllowed, LocalAllowed
  <1>3. /\ [k \in Key |-> Region(k)'] \in [Key -> SUBSET Task]
        /\ [k \in Key |-> Holders(k)'] \in [Key -> SUBSET Task]
    BY DEF Region, Holders
  <1> QED BY <1>2, <1>3 DEF Contract!Next, Allowed

\* The cache service implements its contract: one caller at a time for a key unless a second
\* lock was made, no newcomer past those who wait, nobody waiting for nobody.
THEOREM Implements == Spec => KeepsContract
  <1>1. Init => Contract!Init
    BY DEF Init, Contract!Init, Region, Holders
  <1> QED BY <1>1, StepAllowed, QueuesAgree, Inductive, PTL DEF Spec, KeepsContract, Contract!Spec

\* One at a time: unless a second lock was made for the key.
THEOREM OneAtATime == Spec => []Contract!Exclusive
  <1>1. Structure => Contract!Exclusive
    BY DEF Structure, OwnerHolds, Contract!Exclusive, Holders, Region
  <1>2. IInv => Structure
    BY DEF IInv
  <1> QED BY <1>1, <1>2, Inductive, PTL

-----------------------------------------------------------------------------
\* Calls advance.

\* Who comes before t in a queue.
Preceding(q, t) == {q[i] : i \in {j \in DOMAIN q : \E n \in DOMAIN q : j < n /\ q[n] = t}}

LEMMA PrecedingJoined ==
    ASSUME NEW q \in Seq(Task), NEW t \in Task, NEW u \in Task \ {t}
    PROVE  Preceding(Append(q, t), u) \subseteq Preceding(q, u)
  <1> DEFINE new == Append(q, t)
  <1>1. /\ DOMAIN q = 1 .. Len(q) /\ DOMAIN new = 1 .. Len(q) + 1 /\ Len(q) \in Nat
        /\ \A i \in 1 .. Len(q) : new[i] = q[i]
        /\ new[Len(q) + 1] = t
    BY AppendProperties, LenProperties
  <1> HIDE DEF new
  <1>2. ASSUME NEW j \in DOMAIN new, NEW n \in DOMAIN new, j < n, new[n] = u
        PROVE  new[j] \in Preceding(q, u)
    <2>1. n # Len(q) + 1
      BY <1>1, <1>2
    <2>2. j \in DOMAIN q /\ n \in DOMAIN q /\ q[n] = u /\ new[j] = q[j]
      BY <1>1, <1>2, <2>1
    <2> QED BY <1>2, <2>2 DEF Preceding
  <1> QED BY <1>2 DEF Preceding, new

LEMMA PrecedingCut ==
    ASSUME NEW q \in Seq(Task), NEW i \in DOMAIN q, NEW r \in Seq(Task), NEW u \in Task,
           Len(r) = Len(q) - 1, \A j \in 1 .. Len(r) : r[j] = IF j < i THEN q[j] ELSE q[j + 1]
    PROVE  Preceding(r, u) \subseteq Preceding(q, u)
  <1>1. DOMAIN q = 1 .. Len(q) /\ DOMAIN r = 1 .. Len(r) /\ Len(q) \in Nat /\ Len(r) \in Nat
    BY LenProperties
  <1> DEFINE Was(j) == IF j < i THEN j ELSE j + 1
  <1>2. \A j \in DOMAIN r : Was(j) \in DOMAIN q /\ r[j] = q[Was(j)]
    BY <1>1
  <1>3. \A j, n \in DOMAIN r : j < n => Was(j) < Was(n)
    BY <1>1
  <1> HIDE DEF Was
  <1>4. ASSUME NEW j \in DOMAIN r, NEW n \in DOMAIN r, j < n, r[n] = u
        PROVE  r[j] \in Preceding(q, u)
    BY <1>2, <1>3, <1>4 DEF Preceding
  <1> QED BY <1>4 DEF Preceding

\* A step of somebody else lets nobody get before who waits.
LEMMA KeepsTurn ==
    ASSUME IInv, IInv', [Next]_vars, NEW u \in Task, pc[u] = "queued", pc'[u] = "queued"
    PROVE  ref'[u] = ref[u] /\ Before(u)' \subseteq Before(u)
  <1> DEFINE m == ref[u]
  <1>1. TypeOK /\ Places /\ m \in LockId
    BY DEF IInv, Structure, Places, Held, TypeOK
  <1>2. Before(u) = Preceding(queue[m], u)
    BY DEF Before, Preceding
  <1>3. ASSUME ref'[u] = m, Preceding(queue'[m], u) \subseteq Preceding(queue[m], u)
        PROVE  ref'[u] = ref[u] /\ Before(u)' \subseteq Before(u)
    <2>1. Before(u)' = Preceding(queue'[m], u)
      BY <1>3 DEF Before, Preceding
    <2> QED BY <1>2, <1>3, <2>1
  <1> HIDE DEF m
  <1>4. ASSUME NEW t \in Task, NEW k \in Key, NEW l \in LockId, ref[t] = NoLock, EnterStep(t, k, l)
        PROVE  ref'[u] = m /\ Preceding(queue'[m], u) \subseteq Preceding(queue[m], u)
    <2>1. u # t
      BY <1>1, <1>4, SentinelAssumption DEF m
    <2>2. ref'[u] = m
      BY <1>1, <1>4, <2>1 DEF EnterStep, TypeOK, m
    <2>3. queue'[m] = queue[m] \/ queue'[m] = Append(queue[m], t)
      BY <1>1, <1>4 DEF EnterStep, TypeOK
    <2> QED BY <1>1, <2>1, <2>2, <2>3, PrecedingJoined DEF TypeOK
  <1>5. ASSUME NEW q \in Seq(Task), q # <<>> PROVE Preceding(Tail(q), u) \subseteq Preceding(q, u)
    <2>1. /\ Tail(q) \in Seq(Task) /\ Len(Tail(q)) = Len(q) - 1
          /\ \A j \in 1 .. Len(Tail(q)) : Tail(q)[j] = q[j + 1]
          /\ 1 \in DOMAIN q
      BY <1>5, HeadTailProperties, LenProperties, EmptySeq
    <2>2. \A j \in 1 .. Len(Tail(q)) : Tail(q)[j] = IF j < 1 THEN q[j] ELSE q[j + 1]
      BY <2>1
    <2> QED BY <2>1, <2>2, PrecedingCut
  <1>6. ASSUME NEW t \in Task, TakeStep(t)
        PROVE  ref'[u] = m /\ Preceding(queue'[m], u) \subseteq Preceding(queue[m], u)
    <2>1. ref' = ref /\ (queue'[m] = queue[m] \/ (queue[m] # <<>> /\ queue'[m] = Tail(queue[m])))
      BY <1>1, <1>6 DEF TakeStep, TypeOK
    <2> QED BY <1>1, <1>5, <2>1 DEF TypeOK, m
  <1>7. ASSUME NEW t \in Task, LeaveStep(t)
        PROVE  ref'[u] = m /\ Preceding(queue'[m], u) \subseteq Preceding(queue[m], u)
    <2>1. u # t /\ ref'[u] = m
      <3>1. pc' = [pc EXCEPT ![t] = "idle"] /\ ref' = [ref EXCEPT ![t] = NoLock]
        BY <1>7 DEF LeaveStep, Return, Move
      <3> QED BY <1>1, <3>1 DEF TypeOK, m
    <2>2. \/ queue'[m] = queue[m]
          \/ queue[m] # <<>> /\ queue'[m] = Tail(queue[m])
          \/ \E i \in DOMAIN queue[m] : queue'[m] = Without(queue[m], i)
      BY <1>1, <1>7 DEF LeaveStep, TypeOK
    <2>3. ASSUME NEW i \in DOMAIN queue[m]
          PROVE  Preceding(Without(queue[m], i), u) \subseteq Preceding(queue[m], u)
      <3>1. queue[m] \in Seq(Task)
        BY <1>1 DEF TypeOK
      <3> QED BY <3>1, WithoutIs, PrecedingCut
    <2> QED BY <1>1, <1>5, <2>1, <2>2, <2>3 DEF TypeOK
  <1>8. ASSUME NEW t \in Task, LocalStep(t)
        PROVE  ref'[u] = m /\ Preceding(queue'[m], u) \subseteq Preceding(queue[m], u)
    BY <1>8 DEF LocalStep, m
  <1>9. CASE UNCHANGED <<pc, key, ref, lockVars>>
    BY <1>3, <1>9 DEF m
  <1> QED BY <1>3, <1>4, <1>6, <1>7, <1>8, <1>9, Shapes

\* A step moves one task at most, and closer to its end.
LEMMA Nears ==
    ASSUME IInv, [Next]_vars, NEW t \in Task, pc[t] # "idle", pc'[t] # pc[t]
    PROVE  Distance[pc'[t]] < Distance[pc[t]]
  <1>1. TypeOK /\ Places
    BY DEF IInv, Structure
  <1>2. PICK u \in Task :
            \/ \E k \in Key : Call(u, k) \/ RefreshStart(u, k)
            \/ Advance(u) \/ Abort(u) \/ CancelWait(u)
    BY DEF Next, Expire, SweepDelete, Invalidate, SweepAborts
  <1>3. ASSUME NEW phase, Move(u, phase) PROVE u = t /\ pc'[t] = phase
    BY <1>1, <1>3 DEF Move, TypeOK
  <1>4. ASSUME Return(u) PROVE Distance[pc'[t]] < Distance[pc[t]]
    <2>1. u = t /\ pc'[t] = "idle"
      BY <1>3, <1>4 DEF Return
    <2> QED BY <1>1, <2>1 DEF TypeOK, Phase, Distance
  <1>5. ASSUME NEW k, Enter(u, k) PROVE u = t /\ pc'[t] \in {"recheck", "load", "queued"}
    <2>1. \E phase \in {"recheck", "load", "queued"} : Move(u, phase)
      BY <1>5 DEF Enter, BeginLoad
    <2> QED BY <1>3, <2>1
  <1>6. CASE \E k \in Key : Call(u, k) \/ RefreshStart(u, k)
    <2>1. pc[u] = "idle" /\ \E phase : Move(u, phase)
      BY <1>6 DEF Call, RefreshStart, Enter, BeginLoad
    <2> QED BY <1>3, <2>1
  <1>7. CASE ServeGet(u)
    BY <1>3, <1>7 DEF ServeGet, Distance
  <1>8. CASE ProbeMiss(u)
    BY <1>5, <1>8 DEF ProbeMiss, Distance
  <1>9. CASE Wake(u)
    <2>1. pc[u] = "queued" /\ (Return(u) \/ \E phase \in {"recheck", "load"} : Move(u, phase))
      BY <1>9 DEF Wake, BeginLoad
    <2> QED BY <1>3, <1>4, <2>1 DEF Distance
  <1>10. CASE RecheckMiss(u)
    BY <1>3, <1>10 DEF RecheckMiss, BeginLoad, Distance
  <1>11. CASE LoaderReturns(u) \/ RefreshReturns(u)
    <2>1. pc[u] \in {"load", "refresh"} /\ (Return(u) \/ Move(u, "store"))
      BY <1>11 DEF LoaderReturns, RefreshReturns
    <2> QED BY <1>3, <1>4, <2>1 DEF Distance
  <1>12. CASE ServeSet(u)
    BY <1>3, <1>12 DEF ServeSet, Distance
  <1>13. CASE ProbeHit(u) \/ RecheckHit(u) \/ StoreReturns(u) \/ Abort(u) \/ CancelWait(u)
    BY <1>4, <1>13 DEF ProbeHit, RecheckHit, StoreReturns, Abort, CancelWait
  <1> QED BY <1>2, <1>6, <1>7, <1>8, <1>9, <1>10, <1>11, <1>12, <1>13 DEF Advance

\* A task stays at its place with its lock unless it moves.
LEMMA KeepsLock ==
    ASSUME IInv, [Next]_vars, NEW t \in Task, pc'[t] = pc[t], pc[t] # "idle"
    PROVE  ref'[t] = ref[t]
  <1>1. TypeOK /\ Places
    BY DEF IInv, Structure
  <1>2. ASSUME NEW u \in Task, NEW k \in Key, NEW l \in LockId, ref[u] = NoLock, EnterStep(u, k, l)
        PROVE  ref'[t] = ref[t]
    <2>1. CASE u # t
      BY <1>1, <1>2, <2>1 DEF EnterStep, TypeOK
    <2>2. CASE u = t
      <3>1. pc'[t] \in Held \union {"queued"}
        BY <1>1, <1>2, <2>2 DEF EnterStep, TypeOK, Held
      <3> QED BY <1>1, <1>2, <2>2, <3>1 DEF Places
    <2> QED BY <2>1, <2>2
  <1>3. ASSUME NEW u \in Task, LeaveStep(u) PROVE ref'[t] = ref[t]
    BY <1>1, <1>3 DEF LeaveStep, Return, Move, TypeOK
  <1> QED BY <1>2, <1>3, Shapes DEF TakeStep, LocalStep

\* A call of coalesce takes finitely many steps and is served in its turn.
THEOREM Advancing == Spec => CallsAdvance
  <1>1. ASSUME IInv, IInv', [Next]_vars, NEW t \in Task, pc[t] # "idle"
        PROVE  \/ Distance[pc'[t]] < Distance[pc[t]]
               \/ /\ pc'[t] = pc[t] /\ ref'[t] = ref[t]
                  /\ pc[t] = "queued" => Before(t)' \subseteq Before(t)
    BY <1>1, Nears, KeepsLock, KeepsTurn
  <1>2. IInv /\ IInv' /\ [Next]_vars =>
            [\A t \in Task : pc[t] # "idle" =>
                \/ Distance[pc'[t]] < Distance[pc[t]]
                \/ /\ pc'[t] = pc[t] /\ ref'[t] = ref[t]
                   /\ pc[t] = "queued" => Before(t)' \subseteq Before(t)]_vars
    BY <1>1
  <1> QED BY <1>2, Inductive, PTL DEF Spec, CallsAdvance
=============================================================================
