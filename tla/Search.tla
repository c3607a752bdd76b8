------------------------------- MODULE Search -------------------------------
(***************************************************************************)
(* SearchService.execute: searches that run at the same time, each under   *)
(* its cache policy, over the caches of searches, pages, extracts and      *)
(* summaries, the locks of CacheService.coalesce (one module of its own)   *)
(* and the semaphore of FetchService.                                      *)
(*                                                                         *)
(* The cache is the memory backend's: reading and writing it never yields, *)
(* nor does extracting text, so a step runs from one await to the next:    *)
(* SearXNG, a lock, the semaphore, a fetch, the model, the history thread. *)
(* What a coalesce lock protects tells who holds it.  Who has to wait and  *)
(* who is let in is what the contract of coalesce says (CoalesceContract,  *)
(* which Coalesce implements); a waiter looks into the cache first.        *)
(* Which pages a search collects is the matter of Collection; here a query *)
(* has its URLs, each once.                                                *)
(*                                                                         *)
(* Every piece of data carries the epoch in which it came from upstream,   *)
(* and a reply the oldest epoch among the data it was made of.             *)
(*                                                                         *)
(* gather hands on the exception of one hydration task at once and leaves  *)
(* the others running: orphans of a request that has already failed.  The  *)
(* slot of such a request is taken until they have ended.                  *)
(***************************************************************************)
EXTENDS Naturals, FiniteSets

CONSTANTS
    Request,      \* searches under way at the same time
    Query,        \* queries with their filters
    Url,
    Urls(_),      \* the URLs a query finds
    Topic(_),     \* its text and URLs, which a summary is cached under: filters may differ
    Call,         \* what clients may ask: query, policy, summarize
    Concurrency,  \* fetch_concurrency, the size of the semaphore
    MaxEpoch,     \* bound on how often the web changes
    Outcome,      \* bound: whether a fetch or the model may succeed (TRUE), fail or both
    NoCall, Absent

Policy == {"use", "bypass", "refresh", "only-if-cached"}

ASSUME CallAssumption ==
    Call \subseteq [query : Query, policy : Policy, summarize : BOOLEAN] /\ NoCall \notin Call
ASSUME UrlAssumption == \A q \in Query : Urls(q) \subseteq Url
ASSUME BoundAssumption == Concurrency \in Nat \ {0} /\ MaxEpoch \in Nat /\ Outcome \subseteq BOOLEAN

VARIABLES
    pc,         \* where each request is (its client may be told before its tasks end)
    call,       \* what it was asked
    born,       \* history: the epoch in which it began
    child,      \* child[r][u]: where the hydration of u for r is, an orphan's too
    oldest,     \* the oldest epoch among the data it has used
    summary,    \* how its summary was made: "none", "model" or "fallback"
    rows,       \* rows of search_history written by it
    searches,   \* namespace "search"
    pages,      \* namespace "page"
    extracts,   \* namespace "extract": the epoch of the page it was taken from
    summaries,  \* namespace "synthesis"
    epoch,
    forked        \* what may be coalesced under more than one lock

vars == <<pc, call, born, child, oldest, summary, rows, searches, pages, extracts, summaries, epoch, forked>>
caches == <<searches, pages, extracts, summaries>>
local == <<call, born>>

Epoch == 0..MaxEpoch
Key == [query : Query, summarize : BOOLEAN]
Reply == [oldest : Epoch, summary : {"none", "model", "fallback"}, recorded : BOOLEAN]
Page == [at : Epoch, ok : BOOLEAN]
Summary == [at : Epoch, kind : {"model", "fallback"}]

Subject == {Topic(q) : q \in Query}

\* What calls of coalesce are about.
Coalesced == ({"search"} \X Key) \union ({"page"} \X Url) \union ({"summary"} \X Subject)

\* "done" is a reply, "failed" an error, "missed" the empty reply of only-if-cached.
Phase == {"idle", "queued", "collect", "hydrate", "sumqueued", "summarize", "record",
          "done", "failed", "missed"}
Ended == {"done", "failed", "missed"}

\* Types; and a hydration task outlives the phase of its request that made it only when the
\* request failed.
Typed ==
    /\ pc \in [Request -> Phase]
    /\ call \in [Request -> Call \union {NoCall}]
    /\ born \in [Request -> Epoch]
    /\ child \in [Request -> [Url -> {"none", "start", "page", "permit", "fetch", "done"}]]
    /\ oldest \in [Request -> Epoch]
    /\ summary \in [Request -> {"none", "model", "fallback"}]
    /\ rows \in [Request -> {0, 1}]
    /\ searches \in [Key -> Reply \union {Absent}]
    /\ pages \in [Url -> Page \union {Absent}]
    /\ extracts \in [Url -> Epoch \union {Absent}]
    /\ summaries \in [Subject -> Summary \union {Absent}]
    /\ epoch \in Epoch
    /\ \A r \in Request : pc[r] \notin {"hydrate", "failed"} => \A u \in Url : child[r][u] = "none"

\* The same, and two locks only for what there is a lock for.
TypeOK == Typed /\ forked \subseteq Coalesced

Init ==
    /\ pc = [r \in Request |-> "idle"]
    /\ call = [r \in Request |-> NoCall]
    /\ born = [r \in Request |-> 0]
    /\ child = [r \in Request |-> [u \in Url |-> "none"]]
    /\ oldest = [r \in Request |-> 0]
    /\ summary = [r \in Request |-> "none"]
    /\ rows = [r \in Request |-> 0]
    /\ searches = [k \in Key |-> Absent]
    /\ pages = [u \in Url |-> Absent]
    /\ extracts = [u \in Url |-> Absent]
    /\ summaries = [q \in Subject |-> Absent]
    /\ epoch = 0
    /\ forked = {}

-----------------------------------------------------------------------------
\* Who may read and write the caches, and who holds what.

Goto(r, phase) == pc' = [pc EXCEPT ![r] = phase]

Reads(r) == call[r].policy \in {"use", "only-if-cached"}
Coalesces(r) == call[r].policy = "use"

\* Mutant: everybody writes who is not confined to the cache.
WritesUnlessConfined(r) == call[r].policy # "only-if-cached"

Writes(r) == call[r].policy \in {"use", "refresh"}

SearchKey(c) == [query |-> c.query, summarize |-> c.summarize]

SearchLoader(r) == Coalesces(r) /\ pc[r] \in {"collect", "hydrate", "sumqueued", "summarize", "record"}

\* Who is inside coalesce for x, waiting for its lock or holding it.
Inside(x) ==
    {r \in Request : call[r] # NoCall /\ Coalesces(r) /\
        \/ x = <<"search", SearchKey(call[r])>> /\ (pc[r] = "queued" \/ SearchLoader(r))
        \/ \E u \in Url : x = <<"page", u>> /\ child[r][u] \in {"page", "permit", "fetch"}
        \/ x = <<"summary", Topic(call[r].query)>> /\ pc[r] \in {"sumqueued", "summarize"}}

Holding(x) ==
    {r \in Inside(x) :
        \/ x[1] = "search" /\ pc[r] # "queued"
        \/ x[1] = "page" /\ child[r][x[2]] # "page"
        \/ x[1] = "summary" /\ pc[r] # "sumqueued"}

\* Who leaves drops the entry of the lock table although others may still be there: newcomers
\* make another lock, and from then until all have left both locks let somebody in.
Fork ==
    forked' = {x \in Coalesced : Inside(x)' # {} /\ (x \in forked \/ ~ Inside(x) \subseteq Inside(x)')}

\* The contract of coalesce: who may enter, and who may have to wait.
Lock ==
    INSTANCE CoalesceContract WITH
        Caller <- Request, Key <- Coalesced,
        inside <- [x \in Coalesced |-> Inside(x)],
        holding <- [x \in Coalesced |-> Holding(x)]

\* Mutant: the semaphore is taken before the page's lock.
FetchingOrWaiting == {f \in Request \X Url : child[f[1]][f[2]] \in {"page", "fetch"}}

\* The permits of the semaphore in use.
Fetching == {f \in Request \X Url : child[f[1]][f[2]] = "fetch"}

Older(a, b) == IF a < b THEN a ELSE b

\* A cached search is the reply, its summary and age included.
Serve(r, reply) ==
    /\ Goto(r, "done")
    /\ oldest' = [oldest EXCEPT ![r] = reply.oldest]
    /\ summary' = [summary EXCEPT ![r] = reply.summary]

-----------------------------------------------------------------------------
\* execute

\* A request arrives: a hit is served at once, "use" joins or becomes the loader, "bypass" and
\* "refresh" load for themselves.
Begin(r, c) ==
    /\ pc[r] = "idle"
    /\ call' = [call EXCEPT ![r] = c]
    /\ born' = [born EXCEPT ![r] = epoch]
    /\ LET cached == searches[SearchKey(c)]
           reads == c.policy \in {"use", "only-if-cached"}
       IN  \/ reads /\ cached # Absent /\ Serve(r, cached)
           \/ /\ ~ (reads /\ cached # Absent)
              /\ \/ c.policy = "only-if-cached" /\ Goto(r, "missed")
                 \/ c.policy = "use" /\ Lock!MayWait(<<"search", SearchKey(c)>>) /\ Goto(r, "queued")
                 \/ c.policy = "use" /\ Lock!MayEnter(<<"search", SearchKey(c)>>) /\ Goto(r, "collect")
                 \/ c.policy \in {"bypass", "refresh"} /\ Goto(r, "collect")
              /\ UNCHANGED <<oldest, summary>>
    /\ UNCHANGED <<child, rows, caches, epoch>>
    /\ Fork

\* The search's lock is free again.
SearchWake(r) ==
    /\ pc[r] = "queued"
    /\ LET k == SearchKey(call[r])
       IN  /\ Lock!MayTake(<<"search", k>>)
           /\ \/ searches[k] # Absent /\ Serve(r, searches[k])
              \/ searches[k] = Absent /\ Goto(r, "collect") /\ UNCHANGED <<oldest, summary>>
    /\ UNCHANGED <<local, child, rows, caches, epoch>>
    /\ Fork

\* The result pages are there; gather makes a task of every result.
Collected(r) ==
    /\ pc[r] = "collect"
    /\ Goto(r, "hydrate")
    /\ oldest' = [oldest EXCEPT ![r] = epoch]
    /\ child' = [child EXCEPT ![r] = [u \in Url |-> IF u \in Urls(call[r].query) THEN "start" ELSE "none"]]
    /\ UNCHANGED <<local, summary, rows, caches, epoch>>
    /\ Fork

\* SearXNG fails, or the row cannot be written: the caller gets an error, nothing is cached.
Fails(r) ==
    /\ pc[r] \in {"collect", "record"}
    /\ Goto(r, "failed")
    /\ UNCHANGED <<local, child, oldest, summary, rows, caches, epoch>>
    /\ Fork

-----------------------------------------------------------------------------
\* _hydrate_results: one task per result.

Become(r, u, phase) == child' = [child EXCEPT ![r][u] = phase]

\* The text of a page was extracted before, by a search that wrote it.
Reuses(r, u, page) == Reads(r) /\ page.ok /\ extracts[u] # Absent

\* The page of u is known: its text, if there is any, is extracted or was before.
Extract(r, u, page) ==
    LET reuse == Reuses(r, u, page)
        at == IF reuse THEN extracts[u] ELSE page.at
    IN  /\ Become(r, u, "done")
        /\ oldest' = [oldest EXCEPT ![r] = Older(@, Older(page.at, at))]
        /\ extracts' = IF page.ok /\ ~ reuse /\ Writes(r) THEN [extracts EXCEPT ![u] = page.at]
                       ELSE extracts
        /\ UNCHANGED pc

\* Extracting raises: the task is over, and the request with it if it still waits, but the
\* tasks of its other results run on.
Raise(r, u, page) ==
    /\ page.ok /\ ~ Reuses(r, u, page)
    /\ Become(r, u, "done")
    /\ Goto(r, IF pc[r] = "hydrate" THEN "failed" ELSE pc[r])
    /\ UNCHANGED <<oldest, extracts>>

Process(r, u, page) == Extract(r, u, page) \/ Raise(r, u, page)

\* Mutant: every policy looks into the page cache.
ChildStartAnyPolicy(r, u) ==
    /\ child[r][u] = "start"
    /\ \/ pages[u] # Absent /\ Process(r, u, pages[u])
       \/ /\ pages[u] = Absent
          /\ \/ Coalesces(r) /\ Lock!MayWait(<<"page", u>>) /\ Become(r, u, "page")
             \/ (Coalesces(r) => Lock!MayEnter(<<"page", u>>)) /\ Become(r, u, "permit")
          /\ UNCHANGED <<pc, oldest, extracts>>
    /\ UNCHANGED <<local, summary, rows, searches, pages, summaries, epoch>>
    /\ Fork

\* The task runs up to its first await.
ChildStart(r, u) ==
    /\ child[r][u] = "start"
    /\ \/ Reads(r) /\ pages[u] # Absent /\ Process(r, u, pages[u])
       \/ /\ ~ (Reads(r) /\ pages[u] # Absent)
          /\ \/ Coalesces(r) /\ Lock!MayWait(<<"page", u>>) /\ Become(r, u, "page")
             \/ (Coalesces(r) => Lock!MayEnter(<<"page", u>>)) /\ Become(r, u, "permit")
          /\ UNCHANGED <<pc, oldest, extracts>>
    /\ UNCHANGED <<local, summary, rows, searches, pages, summaries, epoch>>
    /\ Fork

\* The page's lock is free again.
ChildWake(r, u) ==
    /\ child[r][u] = "page" /\ Lock!MayTake(<<"page", u>>)
    /\ \/ pages[u] # Absent /\ Process(r, u, pages[u])
       \/ pages[u] = Absent /\ Become(r, u, "permit") /\ UNCHANGED <<pc, oldest, extracts>>
    /\ UNCHANGED <<local, summary, rows, searches, pages, summaries, epoch>>
    /\ Fork

FetchStart(r, u) ==
    /\ child[r][u] = "permit"
    /\ Cardinality(Fetching) < Concurrency
    /\ Become(r, u, "fetch")
    /\ UNCHANGED <<pc, local, oldest, summary, rows, caches, epoch>>
    /\ Fork

\* The fetch answers: an error is a page too, without text, and is cached like one.
FetchReturns(r, u) ==
    /\ child[r][u] = "fetch"
    /\ \E ok \in Outcome :
           LET page == [at |-> epoch, ok |-> ok]
           IN  /\ pages' = IF Writes(r) THEN [pages EXCEPT ![u] = page] ELSE pages
               /\ Process(r, u, page)
    /\ UNCHANGED <<local, summary, rows, searches, summaries, epoch>>
    /\ Fork

-----------------------------------------------------------------------------
\* The summary, the history and the reply.

UseSummary(r, cached) ==
    /\ Goto(r, "record")
    /\ summary' = [summary EXCEPT ![r] = cached.kind]
    /\ oldest' = [oldest EXCEPT ![r] = Older(@, cached.at)]

\* All results are hydrated.
Hydrated(r) ==
    /\ pc[r] = "hydrate"
    /\ \A u \in Urls(call[r].query) : child[r][u] = "done"
    /\ child' = [child EXCEPT ![r] = [u \in Url |-> "none"]]
    /\ LET q == Topic(call[r].query)
           hit == Reads(r) /\ summaries[q] # Absent
       IN  \/ call[r].summarize /\ hit /\ UseSummary(r, summaries[q])
           \/ /\ ~ (call[r].summarize /\ hit)
              /\ \/ ~ call[r].summarize /\ Goto(r, "record")
                 \/ call[r].summarize /\ Coalesces(r) /\ Lock!MayWait(<<"summary", q>>) /\ Goto(r, "sumqueued")
                 \/ call[r].summarize /\ (Coalesces(r) => Lock!MayEnter(<<"summary", q>>)) /\ Goto(r, "summarize")
              /\ UNCHANGED <<oldest, summary>>
    /\ UNCHANGED <<local, rows, caches, epoch>>
    /\ Fork

SummaryWake(r) ==
    /\ pc[r] = "sumqueued"
    /\ LET q == Topic(call[r].query)
       IN  /\ Lock!MayTake(<<"summary", q>>)
           /\ \/ summaries[q] # Absent /\ UseSummary(r, summaries[q])
              \/ summaries[q] = Absent /\ Goto(r, "summarize") /\ UNCHANGED <<oldest, summary>>
    /\ UNCHANGED <<local, child, rows, caches, epoch>>
    /\ Fork

\* summarize_search never raises: without a model it lists the sources instead.
Summarized(r) ==
    /\ pc[r] = "summarize"
    /\ Goto(r, "record")
    /\ \E ok \in Outcome : LET kind == IF ok THEN "model" ELSE "fallback" IN
           /\ summary' = [summary EXCEPT ![r] = kind]
           /\ summaries' = IF Writes(r) THEN [summaries EXCEPT ![Topic(call[r].query)] = [at |-> oldest[r], kind |-> kind]]
                           ELSE summaries
    /\ UNCHANGED <<local, child, oldest, rows, searches, pages, extracts, epoch>>
    /\ Fork

\* Mutant: the reply is cached and sent while its row is left to a later time.
RecordedLater(r) ==
    /\ pc[r] = "record"
    /\ Goto(r, "done")
    /\ searches' = IF Writes(r)
                   THEN [searches EXCEPT ![SearchKey(call[r])] =
                            [oldest |-> oldest[r], summary |-> summary[r], recorded |-> rows[r] = 1]]
                   ELSE searches
    /\ UNCHANGED <<local, child, oldest, summary, rows, pages, extracts, summaries, epoch>>
    /\ Fork

\* The history thread is done; the reply is cached and sent.
Recorded(r) ==
    /\ pc[r] = "record"
    /\ Goto(r, "done")
    /\ rows' = [rows EXCEPT ![r] = 1]
    /\ searches' = IF Writes(r)
                   THEN [searches EXCEPT ![SearchKey(call[r])] =
                            [oldest |-> oldest[r], summary |-> summary[r], recorded |-> rows'[r] = 1]]
                   ELSE searches
    /\ UNCHANGED <<local, child, oldest, summary, pages, extracts, summaries, epoch>>
    /\ Fork

\* Mutant: what the request had started runs on.
ForgetOnlyItself(r) ==
    /\ Goto(r, "idle")
    /\ call' = [call EXCEPT ![r] = NoCall]
    /\ born' = [born EXCEPT ![r] = 0]
    /\ oldest' = [oldest EXCEPT ![r] = 0]
    /\ summary' = [summary EXCEPT ![r] = "none"]
    /\ rows' = [rows EXCEPT ![r] = 0]
    /\ UNCHANGED <<child, caches, epoch>>
    /\ Fork

\* The request is over and its locals are gone; cancelling gather cancels its tasks.
Forget(r) ==
    /\ Goto(r, "idle")
    /\ call' = [call EXCEPT ![r] = NoCall]
    /\ born' = [born EXCEPT ![r] = 0]
    /\ child' = [child EXCEPT ![r] = [u \in Url |-> "none"]]
    /\ oldest' = [oldest EXCEPT ![r] = 0]
    /\ summary' = [summary EXCEPT ![r] = "none"]
    /\ rows' = [rows EXCEPT ![r] = 0]
    /\ UNCHANGED <<caches, epoch>>
    /\ Fork

Runs(r, u) == child[r][u] \in {"start", "page", "permit", "fetch"}

\* A search is at work until it has ended and so has all that it started.
Working(r) == pc[r] \notin Ended \union {"idle"} \/ \E u \in Url : Runs(r, u)

\* The client has its reply or its error, and nothing of the request runs any more.
Leave(r) == pc[r] \in Ended /\ ~ Working(r) /\ Forget(r)

\* Research runs out of its search budget: wait_for cancels the search wherever it is.
Cancel(r) == pc[r] \notin Ended \union {"idle"} /\ Forget(r)

-----------------------------------------------------------------------------
\* A cached value's time to live elapses.
Expire ==
    /\ \/ /\ \E k \in Key : searches[k] # Absent /\ searches' = [searches EXCEPT ![k] = Absent]
          /\ UNCHANGED <<pages, extracts, summaries>>
       \/ /\ \E u \in Url : pages[u] # Absent /\ pages' = [pages EXCEPT ![u] = Absent]
          /\ UNCHANGED <<searches, extracts, summaries>>
       \/ /\ \E u \in Url : extracts[u] # Absent /\ extracts' = [extracts EXCEPT ![u] = Absent]
          /\ UNCHANGED <<searches, pages, summaries>>
       \/ /\ \E q \in Subject : summaries[q] # Absent /\ summaries' = [summaries EXCEPT ![q] = Absent]
          /\ UNCHANGED <<searches, pages, extracts>>
    /\ UNCHANGED <<pc, local, child, oldest, summary, rows, epoch, forked>>

\* The web changes.
Tick ==
    /\ epoch < MaxEpoch
    /\ epoch' = epoch + 1
    /\ UNCHANGED <<pc, local, child, oldest, summary, rows, caches, forked>>

\* What r does by itself, and what it does once it gets a lock or a permit.
Moves(r) ==
    \/ Collected(r) \/ Fails(r) \/ Hydrated(r) \/ Summarized(r) \/ Recorded(r)
    \/ \E u \in Url : ChildStart(r, u) \/ FetchReturns(r, u)
Acquires(r) == SearchWake(r) \/ SummaryWake(r) \/ \E u \in Url : ChildWake(r, u) \/ FetchStart(r, u)

\* The same when the lock it waits for is free beyond doubt.
Obtains(r) ==
    \/ SearchWake(r) /\ Holding(<<"search", SearchKey(call[r])>>) = {}
    \/ SummaryWake(r) /\ Holding(<<"summary", Topic(call[r].query)>>) = {}
    \/ \E u \in Url : (ChildWake(r, u) /\ Holding(<<"page", u>>) = {}) \/ FetchStart(r, u)

Next ==
    \/ \E r \in Request : \E c \in Call : Begin(r, c)
    \/ \E r \in Request : Moves(r) \/ Acquires(r) \/ Leave(r) \/ Cancel(r)
    \/ Expire \/ Tick

Spec == Init /\ [][Next]_vars

\* Upstreams answer or time out; locks and the semaphore are first-in first-out, so who waits
\* for one that is free again and again gets it.  A search takes finitely many steps, so one
\* condition for all of them does.
FairSpec == Spec /\ \A r \in Request : SF_vars(Moves(r) \/ Obtains(r))

-----------------------------------------------------------------------------
\* Properties.

\* "bypass is best for fresh verification", "refresh forces recomputation": nothing in such a
\* reply, its pages, texts and summary included, is older than the request.
FreshReplies ==
    \A r \in Request :
        pc[r] = "done" /\ call[r].policy \in {"bypass", "refresh"} => oldest[r] >= born[r]

\* A bypassing request leaves every cache as it found it, failed or not.
BypassLeavesNoTrace ==
    [][\A r \in Request :
          call[r] # NoCall /\ call[r].policy = "bypass" /\ <<pc[r], child[r]>>' # <<pc[r], child[r]>>
              => UNCHANGED caches]_vars

\* What is served from the search cache is in the history: no reply is cached before its row is
\* written, so one whose request failed or was cancelled never is.
CachedIsRecorded == \A k \in Key : searches[k] # Absent => searches[k].recorded

\* Every search ends, and so do the tasks that run on after it failed, whoever fails or is
\* cancelled while it holds a lock or a permit.
SearchesEnd == \A r \in Request : Working(r) ~> ~ Working(r)

\* What r waits for inside coalesce.
Awaited(r) == {x \in Coalesced : r \in Inside(x) \ Holding(x)}

\* What r can do next needs nobody else.
Ready(r) ==
    \/ pc[r] \in {"collect", "summarize", "record"}
    \/ pc[r] = "hydrate" /\ \A u \in Urls(call[r].query) : child[r][u] = "done"
    \/ \E u \in Url :
           \/ child[r][u] \in {"start", "fetch"}
           \/ child[r][u] = "permit" /\ Cardinality(Fetching) < Concurrency
    \/ \E x \in Awaited(r) : Holding(x) = {}

\* s has the lock or the permit that r waits for.
Blocks(s, r) ==
    \/ \E x \in Awaited(r) : s \in Holding(x)
    \/ \E u, v \in Url : child[r][u] = "permit" /\ child[s][v] = "fetch"

\* Nobody waits in a circle: from a search at work, or one that failed and whose tasks run on,
\* at most three steps of the relation above lead to one that can go on by itself.
NobodyStranded ==
    \A r \in Request : Working(r) =>
        \/ Ready(r)
        \/ \E s \in Request : Blocks(s, r) /\
              \/ Ready(s)
              \/ \E t \in Request : Blocks(t, s) /\
                    (Ready(t) \/ \E p \in Request : Blocks(p, t) /\ Ready(p))

\* How far a search, and a hydration task of it, is from its end.
Distance ==
    [queued |-> 6, collect |-> 5, hydrate |-> 4, sumqueued |-> 3, summarize |-> 2, record |-> 1,
     done |-> 0, failed |-> 0, missed |-> 0, idle |-> 0]
TaskDistance == [start |-> 4, page |-> 3, permit |-> 2, fetch |-> 1, done |-> 0]

\* Searches advance: a step of a search, or of one of its tasks, orphans included, brings it
\* closer to its end, and nothing that others do, fail or are cancelled at takes it back or
\* makes a new task.
SearchesAdvance ==
    [][\A r \in Request : Working(r) =>
          \/ Distance[pc'[r]] < Distance[pc[r]]
          \/ /\ pc'[r] = pc[r]
             /\ \A u \in Url : \/ child'[r][u] = child[r][u]
                              \/ TaskDistance[child'[r][u]] < TaskDistance[child[r][u]]]_vars

\* A search that hydrates has a task for every result.
Hydrating == \A r \in Request : pc[r] = "hydrate" => \A u \in Urls(call[r].query) : child[r][u] # "none"

\* A request that reads no cache has only used what came in after it began.
Untainted ==
    \A r \in Request :
        /\ pc[r] = "idle" <=> call[r] = NoCall
        /\ pc[r] \in {"queued", "sumqueued"} => Coalesces(r)
        /\ \A u \in Url : child[r][u] = "page" => Coalesces(r)
        /\ born[r] <= epoch
        /\ pc[r] \in {"hydrate", "sumqueued", "summarize", "record", "done"}
              /\ call[r].policy \in {"bypass", "refresh"} => oldest[r] >= born[r]

IInv == Typed /\ Untainted /\ CachedIsRecorded
=============================================================================
