-------------------------- MODULE CoalesceContract --------------------------
(***************************************************************************)
(* What CacheService.coalesce promises those who call it at the same time: *)
(* for one key they come in one at a time, as long as no second lock has   *)
(* been made for it, no newcomer gets past those who wait, and nobody      *)
(* waits unless somebody else is there.  A second lock may be made once a  *)
(* caller has left and others stay, and is forgotten when all are gone.    *)
(* What the lock table, the locks and their queues look like is left to    *)
(* the cache service.                                                      *)
(***************************************************************************)

CONSTANTS Caller, Key

VARIABLES
    inside,    \* inside[k]: the callers for k, waiting or holding its lock
    holding,   \* holding[k]: those of them who hold one
    forked     \* the keys for which there may be a second lock

vars == <<inside, holding, forked>>

Init ==
    /\ inside = [k \in Key |-> {}]
    /\ holding = [k \in Key |-> {}]
    /\ forked = {}

\* Who has to wait does so because of somebody.
MayWait(k) == inside[k] # {}

\* A newcomer gets in past nobody who waits, and a waiter once the lock is free; or there may be
\* another lock.
MayEnter(k) == inside[k] = {} \/ k \in forked
MayTake(k) == holding[k] = {} \/ k \in forked

SameLocks(k) == k \in forked' <=> k \in forked

Wait(c, k) ==
    /\ c \notin inside[k] /\ MayWait(k)
    /\ inside'[k] = inside[k] \union {c} /\ holding'[k] = holding[k]
    /\ SameLocks(k)

Enter(c, k) ==
    /\ c \notin inside[k] /\ MayEnter(k)
    /\ inside'[k] = inside[k] \union {c} /\ holding'[k] = holding[k] \union {c}
    /\ SameLocks(k)

\* Which of several waiters is next is left open.
Take(c, k) ==
    /\ c \in inside[k] \ holding[k] /\ MayTake(k)
    /\ inside'[k] = inside[k] /\ holding'[k] = holding[k] \union {c}
    /\ SameLocks(k)

\* A caller leaves, served, failed or cancelled.
Leave(c, k) ==
    /\ c \in inside[k]
    /\ inside'[k] = inside[k] \ {c} /\ holding'[k] = holding[k] \ {c}
    /\ k \in forked' => inside'[k] # {}
    /\ k \notin forked' => \A d, e \in holding'[k] : d = e

Stay(k) == inside'[k] = inside[k] /\ holding'[k] = holding[k] /\ SameLocks(k)

\* The keys are independent of each other, and a step may be about several of them.
Next ==
    /\ inside' \in [Key -> SUBSET Caller] /\ holding' \in [Key -> SUBSET Caller] /\ forked' \subseteq Key
    /\ \A k \in Key : Stay(k) \/ \E c \in Caller : Wait(c, k) \/ Enter(c, k) \/ Take(c, k) \/ Leave(c, k)

Spec == Init /\ [][Next]_vars

\* One at a time: a lock admits one caller, and there is one lock unless the key is forked.
Exclusive == \A k \in Key : k \notin forked => \A c, d \in holding[k] : c = d

=============================================================================
