---------------------------- MODULE SearchProofs ----------------------------
(***************************************************************************)
(* Proofs about concurrent searches, for any set of requests, queries,     *)
(* URLs and permits and any number of changes of the web.                  *)
(***************************************************************************)
EXTENDS Search, FiniteSetTheorems, TLAPS

ChildPhase == {"none", "start", "page", "permit", "fetch", "done"}
TaskPhase == {"hydrate", "failed"}
Asking == {"hydrate", "sumqueued", "summarize", "record", "done"}

\* The part of the state that a step about request r may not change for another.
Others(r) ==
    \A s \in Request \ {r} : /\ pc'[s] = pc[s] /\ call'[s] = call[s] /\ born'[s] = born[s]
                             /\ child'[s] = child[s] /\ oldest'[s] = oldest[s]

\* Untainted for one request.
UntaintedAt(r) ==
    /\ pc[r] = "idle" <=> call[r] = NoCall
    /\ pc[r] \in {"queued", "sumqueued"} => Coalesces(r)
    /\ \A u \in Url : child[r][u] = "page" => Coalesces(r)
    /\ born[r] <= epoch
    /\ pc[r] \in Asking /\ call[r].policy \in {"bypass", "refresh"} => oldest[r] >= born[r]

LEMMA OneByOne == Untainted <=> \A r \in Request : UntaintedAt(r)
BY DEF Untainted, UntaintedAt, Asking

\* Only the request a step is about can lose the invariant.
LEMMA OthersStay ==
    ASSUME Untainted, NEW r \in Request, Others(r), epoch' = epoch, UntaintedAt(r)'
    PROVE  Untainted'
<1>1. ASSUME NEW s \in Request \ {r} PROVE UntaintedAt(s)'
  BY <1>1, OneByOne DEF Others, UntaintedAt, Coalesces
<1>2. \A s \in Request : UntaintedAt(s)'
  BY <1>1
<1> QED
  BY <1>2 DEF Untainted, UntaintedAt, Asking

LEMMA OlderType == ASSUME NEW a \in Epoch, NEW b \in Epoch PROVE Older(a, b) \in Epoch
BY DEF Older

LEMMA OlderBound ==
    ASSUME NEW a \in Epoch, NEW b \in Epoch, NEW m \in Epoch, a >= m, b >= m
    PROVE  Older(a, b) >= m
BY DEF Older, Epoch

LEMMA EpochNat == Epoch \subseteq Nat
BY BoundAssumption DEF Epoch

\* What a hydration task does once it has its page.
LEMMA ExtractKeeps ==
    ASSUME Typed, NEW r \in Request, NEW u \in Url, NEW page \in Page,
           Extract(r, u, page)
    PROVE  /\ pc' = pc
           /\ child' \in [Request -> [Url -> ChildPhase]]
           /\ oldest' \in [Request -> Epoch]
           /\ extracts' \in [Url -> Epoch \union {Absent}]
           /\ child' = [child EXCEPT ![r][u] = "done"]
           /\ \A s \in Request \ {r} : child'[s] = child[s] /\ oldest'[s] = oldest[s]
           /\ ~ Reads(r) =>
                  \A m \in Epoch : oldest[r] >= m /\ page.at >= m => oldest'[r] >= m
           /\ ~ Writes(r) => extracts' = extracts
<1> DEFINE reuse == Reuses(r, u, page)
           at == IF reuse THEN extracts[u] ELSE page.at
<1>1. page.at \in Epoch /\ at \in Epoch
  BY DEF Page, Typed, Reuses
<1>2. /\ child' = [child EXCEPT ![r][u] = "done"] /\ pc' = pc
      /\ oldest' = [oldest EXCEPT ![r] = Older(@, Older(page.at, at))]
      /\ extracts' = IF page.ok /\ ~ reuse /\ Writes(r) THEN [extracts EXCEPT ![u] = page.at] ELSE extracts
  BY DEF Extract, Become
<1>3. ~ Reads(r) => at = page.at
  BY DEF Reuses
<1> HIDE DEF at, reuse
<1>4. oldest[r] \in Epoch /\ Older(page.at, at) \in Epoch /\ Older(oldest[r], Older(page.at, at)) \in Epoch
  BY <1>1, OlderType DEF Typed
<1>5. oldest' \in [Request -> Epoch] /\ oldest'[r] = Older(oldest[r], Older(page.at, at))
  BY <1>2, <1>4 DEF Typed
<1>6. extracts' \in [Url -> Epoch \union {Absent}]
  BY <1>1, <1>2 DEF Typed
<1>7. child' \in [Request -> [Url -> ChildPhase]]
  BY <1>2 DEF Typed, ChildPhase
<1>8. ASSUME ~ Reads(r), NEW m \in Epoch, oldest[r] >= m, page.at >= m PROVE oldest'[r] >= m
  BY <1>1, <1>3, <1>4, <1>5, <1>8, OlderBound
<1>9. \A s \in Request \ {r} : child'[s] = child[s] /\ oldest'[s] = oldest[s]
  BY <1>2 DEF Typed
<1> QED
  BY <1>2, <1>5, <1>6, <1>7, <1>8, <1>9

(***************************************************************************)
(* The initial states and the steps.                                       *)
(***************************************************************************)

LEMMA InitHolds == ASSUME Init PROVE IInv
<1>1. 0 \in Epoch
  BY BoundAssumption DEF Epoch
<1>2. Typed
  BY <1>1 DEF Init, Typed, Phase
<1>3. Untainted
  BY CallAssumption DEF Init, Untainted
<1>4. CachedIsRecorded
  BY DEF Init, CachedIsRecorded
<1> QED
  BY <1>2, <1>3, <1>4 DEF IInv

\* A task of r moves to another of its phases.
LEMMA ChildMoves ==
    ASSUME IInv, NEW r \in Request, NEW u \in Url, NEW phase \in {"page", "permit", "fetch"},
           pc[r] \in TaskPhase, phase = "page" => Coalesces(r), Become(r, u, phase),
           UNCHANGED <<pc, call, born, oldest, summary, rows, searches, pages, extracts, summaries, epoch>>
    PROVE  IInv'
<1>1. child' = [child EXCEPT ![r][u] = phase]
  BY DEF Become
<1>2. /\ child' \in [Request -> [Url -> ChildPhase]]
      /\ \A s \in Request \ {r} : child'[s] = child[s]
      /\ \A v \in Url : child'[r][v] = IF v = u THEN phase ELSE child[r][v]
  BY <1>1 DEF IInv, Typed, ChildPhase
<1>3. Typed'
  <2>1. \A s \in Request : pc[s] \notin TaskPhase => \A v \in Url : child[s][v] = "none"
    BY DEF IInv, Typed, TaskPhase
  <2>2. ASSUME NEW s \in Request, pc[s] \notin TaskPhase
        PROVE  child'[s] = child[s]
    <3>1. s # r
      BY <2>2
    <3> QED
      BY <1>2, <3>1
  <2>3. \A s \in Request : pc'[s] \notin TaskPhase => \A v \in Url : child'[s][v] = "none"
    BY <2>1, <2>2
  <2> QED
    BY <1>2, <2>3 DEF IInv, Typed, ChildPhase, TaskPhase
<1>4. UntaintedAt(r)'
  BY <1>2, OneByOne DEF IInv, UntaintedAt, Coalesces
<1>5. Untainted'
  BY <1>2, <1>4, OthersStay DEF IInv, Others
<1> QED
  BY <1>3, <1>5 DEF IInv, CachedIsRecorded

\* A task of r ends with its page.
LEMMA ChildEnds ==
    ASSUME IInv, NEW r \in Request, NEW u \in Url, NEW page \in Page, pc[r] \in TaskPhase,
           ~ Reads(r) => page.at = epoch, Extract(r, u, page),
           pages' \in [Url -> Page \union {Absent}],
           UNCHANGED <<call, born, summary, rows, searches, summaries, epoch>>
    PROVE  IInv'
<1>1. /\ pc' = pc
      /\ child' \in [Request -> [Url -> ChildPhase]]
      /\ oldest' \in [Request -> Epoch]
      /\ extracts' \in [Url -> Epoch \union {Absent}]
      /\ child' = [child EXCEPT ![r][u] = "done"]
      /\ \A s \in Request \ {r} : child'[s] = child[s] /\ oldest'[s] = oldest[s]
      /\ ~ Reads(r) => \A m \in Epoch : oldest[r] >= m /\ page.at >= m => oldest'[r] >= m
  BY ExtractKeeps DEF IInv
<1>2. Typed'
  BY <1>1 DEF IInv, Typed, ChildPhase, TaskPhase
<1>3. UntaintedAt(r)'
  <2>1. \A v \in Url : child'[r][v] = IF v = u THEN "done" ELSE child[r][v]
    BY <1>1 DEF IInv, Typed
  <2>2. pc[r] \in Asking /\ call[r].policy \in {"bypass", "refresh"} => oldest'[r] >= born[r]
    <3> SUFFICES ASSUME pc[r] \in Asking, call[r].policy \in {"bypass", "refresh"} PROVE oldest'[r] >= born[r]
      OBVIOUS
    <3>1. ~ Reads(r)
      BY DEF Reads
    <3>2. UntaintedAt(r) /\ born[r] \in Epoch
      BY OneByOne DEF IInv, Typed
    <3>3. oldest[r] >= born[r] /\ born[r] <= epoch
      BY <3>2 DEF UntaintedAt, Asking
    <3>4. epoch >= born[r]
      BY <3>2, <3>3, EpochNat DEF IInv, Typed
    <3> QED
      BY <1>1, <3>1, <3>2, <3>3, <3>4
  <2>3. UntaintedAt(r)
    BY OneByOne DEF IInv
  <2> QED
    BY <1>1, <2>1, <2>2, <2>3 DEF UntaintedAt, Coalesces
<1>4. Untainted'
  BY <1>1, <1>3, OthersStay DEF IInv, Others
<1> QED
  BY <1>2, <1>4 DEF IInv, CachedIsRecorded

\* What a task that raises changes of its request.
LEMMA RaiseMoves ==
    ASSUME Typed, NEW r \in Request, NEW u \in Url, NEW page, pc[r] \in TaskPhase, Raise(r, u, page)
    PROVE  /\ pc' = [pc EXCEPT ![r] = "failed"]
           /\ child' = [child EXCEPT ![r][u] = "done"]
           /\ UNCHANGED <<oldest, extracts>>
BY DEF Raise, Become, Goto, Typed, TaskPhase

\* A task of r ends with an exception, and r with it unless it has failed before.
LEMMA ChildRaises ==
    ASSUME IInv, NEW r \in Request, NEW u \in Url, NEW page, pc[r] \in TaskPhase, Raise(r, u, page),
           pages' \in [Url -> Page \union {Absent}],
           UNCHANGED <<call, born, summary, rows, searches, summaries, epoch>>
    PROVE  IInv'
<1>1. /\ pc' = [pc EXCEPT ![r] = "failed"]
      /\ child' = [child EXCEPT ![r][u] = "done"]
      /\ UNCHANGED <<oldest, extracts>>
  BY RaiseMoves DEF IInv
<1>2. /\ child' \in [Request -> [Url -> ChildPhase]]
      /\ \A s \in Request \ {r} : child'[s] = child[s] /\ pc'[s] = pc[s]
      /\ \A v \in Url : child'[r][v] = IF v = u THEN "done" ELSE child[r][v]
      /\ pc'[r] = "failed" /\ pc' \in [Request -> Phase]
  BY <1>1 DEF IInv, Typed, ChildPhase, Phase
<1>3. Typed'
  <2>1. \A s \in Request : pc'[s] \notin TaskPhase => \A v \in Url : child'[s][v] = "none"
    <3>1. pc'[r] \in TaskPhase
      BY <1>2 DEF TaskPhase
    <3>2. \A s \in Request : pc[s] \notin TaskPhase => \A v \in Url : child[s][v] = "none"
      BY DEF IInv, Typed, TaskPhase
    <3> QED
      BY <1>2, <3>1, <3>2
  <2>2. UNCHANGED <<call, born, oldest, summary, rows, searches, extracts, summaries, epoch>>
    BY <1>1
  <2> QED
    BY <1>2, <2>1, <2>2 DEF IInv, Typed, ChildPhase, TaskPhase
<1>4. UntaintedAt(r)'
  <2>1. UntaintedAt(r)
    BY OneByOne DEF IInv
  <2> QED
    BY <1>2, <2>1 DEF UntaintedAt, Coalesces, Asking, TaskPhase
<1>5. Untainted'
  BY <1>1, <1>2, <1>4, OthersStay DEF IInv, Others
<1> QED
  BY <1>3, <1>5 DEF IInv, CachedIsRecorded

\* A task that has a page: its text comes, or it raises.
LEMMA ChildProcesses ==
    ASSUME IInv, NEW r \in Request, NEW u \in Url, NEW page \in Page, pc[r] \in TaskPhase,
           ~ Reads(r) => page.at = epoch, Process(r, u, page),
           pages' \in [Url -> Page \union {Absent}],
           UNCHANGED <<call, born, summary, rows, searches, summaries, epoch>>
    PROVE  IInv'
BY ChildEnds, ChildRaises DEF Process

\* A task that was made belongs to a request that hydrates or has failed.
LEMMA TaskHydrates ==
    ASSUME Typed, NEW r \in Request, NEW u \in Url, child[r][u] # "none"
    PROVE  pc[r] \in TaskPhase
BY DEF Typed, TaskPhase

LEMMA ForgetKeeps ==
    ASSUME IInv, NEW r \in Request, Forget(r)
    PROVE  IInv'
<1>1. 0 \in Epoch
  BY BoundAssumption DEF Epoch
<1>2. Typed'
  BY <1>1 DEF IInv, Typed, Forget, Goto, caches, Phase
<1>3. UntaintedAt(r)'
  BY EpochNat DEF IInv, Typed, Forget, Goto, UntaintedAt, Asking
<1>4. Others(r)
  BY DEF IInv, Typed, Forget, Goto, Others
<1>5. Untainted'
  BY <1>3, <1>4, OthersStay DEF IInv, Forget
<1> QED
  BY <1>2, <1>5 DEF IInv, CachedIsRecorded, Forget, caches

\* A step of r that leaves its tasks and the caches alone.
LEMMA Advances ==
    ASSUME IInv, NEW r \in Request, pc[r] \notin TaskPhase,
           NEW phase \in Phase \ {"idle", "hydrate"}, NEW old \in Epoch,
           NEW kind \in {"none", "model", "fallback"},
           call[r] # NoCall,
           pc' = [pc EXCEPT ![r] = phase], oldest' = [oldest EXCEPT ![r] = old],
           summary' = [summary EXCEPT ![r] = kind],
           phase \in {"queued", "sumqueued"} => Coalesces(r),
           phase \in Asking /\ call[r].policy \in {"bypass", "refresh"} => old >= born[r],
           UNCHANGED <<call, born, child, rows, searches, pages, extracts, epoch>>,
           summaries' \in [Subject -> Summary \union {Absent}]
    PROVE  IInv'
<1>1. Typed'
  BY DEF IInv, Typed, TaskPhase
<1>2. UntaintedAt(r)'
  <2>1. UntaintedAt(r)
    BY OneByOne DEF IInv
  <2>2. pc'[r] = phase /\ oldest'[r] = old
    BY DEF IInv, Typed
  <2> QED
    BY <2>1, <2>2 DEF UntaintedAt, Coalesces
<1>3. Others(r)
  BY DEF IInv, Typed, Others
<1>4. Untainted'
  BY <1>2, <1>3, OthersStay DEF IInv
<1> QED
  BY <1>1, <1>4 DEF IInv, CachedIsRecorded

LEMMA BeginKeeps ==
    ASSUME IInv, NEW r \in Request, NEW c \in Call, Begin(r, c)
    PROVE  IInv'
<1> DEFINE reads == c.policy \in {"use", "only-if-cached"}
           cached == searches[SearchKey(c)]
<1>1. c \in [query : Query, policy : Policy, summarize : BOOLEAN] /\ c # NoCall
  BY CallAssumption
<1>2. SearchKey(c) \in Key
  BY <1>1 DEF SearchKey, Key
<1>3. /\ call' = [call EXCEPT ![r] = c] /\ born' = [born EXCEPT ![r] = epoch]
      /\ UNCHANGED <<child, rows, searches, pages, extracts, summaries, epoch>>
      /\ pc[r] = "idle"
  BY DEF Begin, caches
<1>4. Others(r) /\ Typed' /\ UntaintedAt(r)'
  <2>1. CASE reads /\ cached # Absent
    <3>1. Serve(r, cached) /\ cached \in Reply
      BY <1>2, <2>1 DEF Begin, IInv, Typed
    <3>2. /\ pc' = [pc EXCEPT ![r] = "done"] /\ oldest' = [oldest EXCEPT ![r] = cached.oldest]
          /\ summary' = [summary EXCEPT ![r] = cached.summary]
          /\ cached.oldest \in Epoch /\ cached.summary \in {"none", "model", "fallback"}
      BY <3>1 DEF Serve, Goto, Reply
    <3> HIDE DEF cached
    <3>3. Typed'
      BY <1>1, <1>3, <3>2 DEF IInv, Typed, Phase
    <3>4. Others(r)
      BY <1>3, <3>2 DEF IInv, Typed, Others
    <3>5. UntaintedAt(r)'
      <4>1. pc'[r] = "done" /\ call'[r] = c /\ born'[r] = epoch /\ epoch' = epoch /\ epoch \in Nat
        BY <1>3, <3>2, EpochNat DEF IInv, Typed
      <4>2. \A u \in Url : child'[r][u] = "none"
        BY <1>3 DEF IInv, Typed
      <4>3. ~ (c.policy \in {"bypass", "refresh"})
        BY <2>1
      <4> QED
        BY <1>1, <4>1, <4>2, <4>3 DEF UntaintedAt
    <3> QED
      BY <3>3, <3>4, <3>5
  <2>2. CASE ~ (reads /\ cached # Absent)
    <3>1. UNCHANGED <<oldest, summary>>
      BY <2>2 DEF Begin
    <3>2. PICK phase \in {"missed", "queued", "collect"} :
              pc' = [pc EXCEPT ![r] = phase] /\ (phase = "queued" => c.policy = "use")
      BY <2>2 DEF Begin, Goto
    <3> HIDE DEF cached
    <3>3. Typed'
      BY <1>1, <1>3, <3>1, <3>2 DEF IInv, Typed, Phase
    <3>4. Others(r)
      BY <1>3, <3>1, <3>2 DEF IInv, Typed, Others
    <3>5. UntaintedAt(r)'
      BY <1>1, <1>3, <3>1, <3>2, EpochNat DEF IInv, Typed, UntaintedAt, Coalesces, Asking
    <3> QED
      BY <3>3, <3>4, <3>5
  <2> QED
    BY <2>1, <2>2
<1>5. Untainted'
  BY <1>3, <1>4, OthersStay DEF IInv
<1> QED
  BY <1>3, <1>4, <1>5 DEF IInv, CachedIsRecorded

\* What a request at work knows about itself.
LEMMA AtWork ==
    ASSUME IInv, NEW r \in Request, pc[r] # "idle"
    PROVE  /\ call[r] \in Call /\ call[r] # NoCall
           /\ SearchKey(call[r]) \in Key
           /\ Topic(call[r].query) \in Subject
           /\ call[r].policy \in Policy
           /\ UntaintedAt(r)
           /\ born[r] \in Epoch /\ oldest[r] \in Epoch /\ epoch \in Epoch
           /\ born[r] \in Nat /\ oldest[r] \in Nat /\ epoch \in Nat
<1>1. UntaintedAt(r)
  BY OneByOne DEF IInv
<1>2. call[r] \in Call /\ call[r] # NoCall
  BY <1>1 DEF IInv, Typed, UntaintedAt
<1>3. call[r] \in [query : Query, policy : Policy, summarize : BOOLEAN]
  BY <1>2, CallAssumption
<1>4. SearchKey(call[r]) \in Key /\ Topic(call[r].query) \in Subject /\ call[r].policy \in Policy
  BY <1>3 DEF SearchKey, Key, Subject
<1>5. born[r] \in Epoch /\ oldest[r] \in Epoch /\ epoch \in Epoch
  BY DEF IInv, Typed
<1> QED
  BY <1>1, <1>2, <1>4, <1>5, EpochNat

LEMMA SearchWakeKeeps ==
    ASSUME IInv, NEW r \in Request, SearchWake(r)
    PROVE  IInv'
<1>1. pc[r] = "queued" /\ UNCHANGED <<call, born, child, rows, searches, pages, extracts, summaries, epoch>>
  BY DEF SearchWake, local, caches
<1>2. /\ call[r] # NoCall /\ SearchKey(call[r]) \in Key /\ UntaintedAt(r)
      /\ oldest[r] \in Epoch
  BY <1>1, AtWork
<1>3. Coalesces(r)
  BY <1>1, <1>2 DEF UntaintedAt
<1>4. summaries' \in [Subject -> Summary \union {Absent}]
  BY <1>1 DEF IInv, Typed
<1> DEFINE cached == searches[SearchKey(call[r])]
<1>5. CASE cached # Absent /\ Serve(r, cached)
  <2>1. cached \in Reply
    BY <1>2, <1>5 DEF IInv, Typed
  <2>2. cached.oldest \in Epoch /\ cached.summary \in {"none", "model", "fallback"}
    BY <2>1 DEF Reply
  <2>3. /\ pc' = [pc EXCEPT ![r] = "done"] /\ oldest' = [oldest EXCEPT ![r] = cached.oldest]
        /\ summary' = [summary EXCEPT ![r] = cached.summary]
    BY <1>5 DEF Serve, Goto
  <2> HIDE DEF cached
  <2>4. "done" \in Phase \ {"idle", "hydrate"} /\ ~ (call[r].policy \in {"bypass", "refresh"})
    BY <1>3 DEF Phase, Coalesces
  <2> QED
    BY <1>1, <1>2, <1>4, <2>2, <2>3, <2>4, Advances DEF TaskPhase
<1>6. CASE Goto(r, "collect") /\ UNCHANGED <<oldest, summary>>
  <2>1. /\ pc' = [pc EXCEPT ![r] = "collect"] /\ oldest' = [oldest EXCEPT ![r] = oldest[r]]
        /\ summary' = [summary EXCEPT ![r] = summary[r]]
        /\ summary[r] \in {"none", "model", "fallback"}
    BY <1>6 DEF Goto, IInv, Typed
  <2>2. "collect" \in Phase \ {"idle", "hydrate"} /\ "collect" \notin Asking
    BY DEF Phase, Asking
  <2> QED
    BY <1>1, <1>2, <1>4, <2>1, <2>2, Advances DEF TaskPhase
<1> QED
  BY <1>5, <1>6 DEF SearchWake

LEMMA CollectedKeeps ==
    ASSUME IInv, NEW r \in Request, Collected(r)
    PROVE  IInv'
<1>1. /\ pc[r] = "collect" /\ UNCHANGED <<call, born, summary, rows, searches, pages, extracts, summaries, epoch>>
      /\ pc' = [pc EXCEPT ![r] = "hydrate"]
      /\ oldest' = [oldest EXCEPT ![r] = epoch]
      /\ child' = [child EXCEPT ![r] = [u \in Url |-> IF u \in Urls(call[r].query) THEN "start" ELSE "none"]]
  BY DEF Collected, Goto, local, caches
<1>2. call[r] # NoCall /\ UntaintedAt(r) /\ epoch \in Nat /\ born[r] \in Nat
  BY <1>1, AtWork
<1>3. child'[r] \in [Url -> {"start", "none"}] /\ child' \in [Request -> [Url -> ChildPhase]]
  BY <1>1 DEF IInv, Typed, ChildPhase
<1>4. Typed'
  BY <1>1, <1>3 DEF IInv, Typed, Phase, ChildPhase
<1>5. UntaintedAt(r)'
  BY <1>1, <1>2, <1>3 DEF IInv, Typed, UntaintedAt
<1>6. Others(r)
  BY <1>1 DEF IInv, Typed, Others
<1>7. Untainted'
  BY <1>1, <1>5, <1>6, OthersStay DEF IInv
<1> QED
  BY <1>1, <1>4, <1>7 DEF IInv, CachedIsRecorded

LEMMA FailsKeeps ==
    ASSUME IInv, NEW r \in Request, Fails(r)
    PROVE  IInv'
<1>1. /\ pc[r] \in {"collect", "record"}
      /\ UNCHANGED <<call, born, oldest, summary, rows, searches, pages, extracts, summaries, epoch>>
      /\ pc' = [pc EXCEPT ![r] = "failed"] /\ child' = child
  BY DEF Fails, Goto, local, caches
<1>2. call[r] # NoCall /\ UntaintedAt(r)
  BY <1>1, AtWork
<1>3. Typed'
  BY <1>1 DEF IInv, Typed, Phase
<1>4. UntaintedAt(r)'
  BY <1>1, <1>2 DEF IInv, Typed, UntaintedAt, Asking
<1>5. Others(r)
  BY <1>1 DEF IInv, Typed, Others
<1>6. Untainted'
  BY <1>1, <1>4, <1>5, OthersStay DEF IInv
<1> QED
  BY <1>1, <1>3, <1>6 DEF IInv, CachedIsRecorded

LEMMA ChildStartKeeps ==
    ASSUME IInv, NEW r \in Request, NEW u \in Url, ChildStart(r, u)
    PROVE  IInv'
<1>1. /\ child[r][u] = "start"
      /\ UNCHANGED <<call, born, summary, rows, searches, pages, summaries, epoch>>
  BY DEF ChildStart, local
<1>2. pc[r] \in TaskPhase
  BY <1>1, TaskHydrates DEF IInv
<1>3. CASE Reads(r) /\ pages[u] # Absent /\ Process(r, u, pages[u])
  <2>1. pages[u] \in Page /\ pages' \in [Url -> Page \union {Absent}]
    BY <1>1, <1>3 DEF IInv, Typed
  <2> QED
    BY <1>1, <1>2, <1>3, <2>1, ChildProcesses
<1>4. CASE /\ (Coalesces(r) /\ Become(r, u, "page")) \/ Become(r, u, "permit")
           /\ UNCHANGED <<pc, oldest, extracts>>
  <2>1. CASE Coalesces(r) /\ Become(r, u, "page")
    BY <1>1, <1>2, <1>4, <2>1, ChildMoves
  <2>2. CASE Become(r, u, "permit")
    BY <1>1, <1>2, <1>4, <2>2, ChildMoves
  <2> QED
    BY <1>4, <2>1, <2>2
<1> QED
  BY <1>3, <1>4 DEF ChildStart

LEMMA ChildWakeKeeps ==
    ASSUME IInv, NEW r \in Request, NEW u \in Url, ChildWake(r, u)
    PROVE  IInv'
<1>1. /\ child[r][u] = "page"
      /\ UNCHANGED <<call, born, summary, rows, searches, pages, summaries, epoch>>
  BY DEF ChildWake, local
<1>2. pc[r] \in TaskPhase
  BY <1>1, TaskHydrates DEF IInv
<1>3. Reads(r)
  <2>1. Coalesces(r)
    BY <1>1, OneByOne DEF IInv, UntaintedAt
  <2> QED
    BY <2>1 DEF Coalesces, Reads
<1>4. CASE pages[u] # Absent /\ Process(r, u, pages[u])
  <2>1. pages[u] \in Page /\ pages' \in [Url -> Page \union {Absent}]
    BY <1>1, <1>4 DEF IInv, Typed
  <2> QED
    BY <1>1, <1>2, <1>3, <1>4, <2>1, ChildProcesses
<1>5. CASE Become(r, u, "permit") /\ UNCHANGED <<pc, oldest, extracts>>
  BY <1>1, <1>2, <1>5, ChildMoves
<1> QED
  BY <1>4, <1>5 DEF ChildWake

LEMMA FetchStartKeeps ==
    ASSUME IInv, NEW r \in Request, NEW u \in Url, FetchStart(r, u)
    PROVE  IInv'
<1>1. pc[r] \in TaskPhase
  BY TaskHydrates DEF IInv, FetchStart
<1> QED
  BY <1>1, ChildMoves DEF FetchStart, local, caches

LEMMA FetchReturnsKeeps ==
    ASSUME IInv, NEW r \in Request, NEW u \in Url, FetchReturns(r, u)
    PROVE  IInv'
<1>1. PICK ok \in BOOLEAN :
          /\ pages' = IF Writes(r) THEN [pages EXCEPT ![u] = [at |-> epoch, ok |-> ok]] ELSE pages
          /\ Process(r, u, [at |-> epoch, ok |-> ok])
  BY BoundAssumption DEF FetchReturns
<1> DEFINE page == [at |-> epoch, ok |-> ok]
<1>2. page \in Page /\ page.at = epoch
  BY DEF IInv, Typed, Page
<1>3. Process(r, u, page) /\ pages' = IF Writes(r) THEN [pages EXCEPT ![u] = page] ELSE pages
  BY <1>1
<1> HIDE DEF page
<1>4. pages' \in [Url -> Page \union {Absent}]
  BY <1>2, <1>3 DEF IInv, Typed
<1>5. pc[r] \in TaskPhase /\ UNCHANGED <<call, born, summary, rows, searches, summaries, epoch>>
  BY TaskHydrates DEF IInv, FetchReturns, local
<1> QED
  BY <1>2, <1>3, <1>4, <1>5, ChildProcesses

\* The summary of the findings is one that was cached.
LEMMA UseSummaryKeeps ==
    ASSUME IInv, NEW r \in Request, NEW cached \in Summary, UseSummary(r, cached)
    PROVE  /\ pc' = [pc EXCEPT ![r] = "record"]
           /\ \E old \in Epoch, kind \in {"none", "model", "fallback"} :
                  /\ oldest' = [oldest EXCEPT ![r] = old]
                  /\ summary' = [summary EXCEPT ![r] = kind]
<1>1. cached.at \in Epoch /\ cached.kind \in {"none", "model", "fallback"}
  BY DEF Summary
<1>2. Older(oldest[r], cached.at) \in Epoch
  BY <1>1, OlderType DEF IInv, Typed
<1> QED
  BY <1>1, <1>2 DEF UseSummary, Goto

LEMMA HydratedKeeps ==
    ASSUME IInv, NEW r \in Request, Hydrated(r)
    PROVE  IInv'
<1> DEFINE q == Topic(call[r].query)
           hit == Reads(r) /\ summaries[q] # Absent
<1>1. /\ pc[r] = "hydrate" /\ child' = [child EXCEPT ![r] = [u \in Url |-> "none"]]
      /\ UNCHANGED <<call, born, rows, searches, pages, extracts, summaries, epoch>>
  BY DEF Hydrated, local, caches
<1>2. call[r] # NoCall /\ q \in Subject /\ UntaintedAt(r)
  BY <1>1, AtWork
<1>3. PICK phase \in {"record", "sumqueued", "summarize"}, old \in Epoch,
           kind \in {"none", "model", "fallback"} :
          /\ pc' = [pc EXCEPT ![r] = phase]
          /\ oldest' = [oldest EXCEPT ![r] = old]
          /\ summary' = [summary EXCEPT ![r] = kind]
          /\ phase = "sumqueued" => Coalesces(r)
          /\ Reads(r) \/ old = oldest[r]
  <2>1. CASE hit /\ UseSummary(r, summaries[q])
    <3>1. summaries[q] \in Summary
      BY <1>2, <2>1 DEF IInv, Typed
    <3> QED
      BY <2>1, <3>1, UseSummaryKeeps
  <2>2. CASE /\ \/ Goto(r, "record") \/ Goto(r, "summarize")
                \/ Coalesces(r) /\ Goto(r, "sumqueued")
             /\ UNCHANGED <<oldest, summary>>
    <3>1. oldest' = [oldest EXCEPT ![r] = oldest[r]] /\ summary' = [summary EXCEPT ![r] = summary[r]]
          /\ oldest[r] \in Epoch /\ summary[r] \in {"none", "model", "fallback"}
      BY <2>2 DEF IInv, Typed
    <3> QED
      BY <2>2, <3>1 DEF Goto
  <2> QED
    BY <2>1, <2>2 DEF Hydrated
<1>4. child'[r] = [u \in Url |-> "none"] /\ child' \in [Request -> [Url -> ChildPhase]]
  BY <1>1 DEF IInv, Typed, ChildPhase
<1>5. Typed'
  BY <1>1, <1>3, <1>4 DEF IInv, Typed, Phase, ChildPhase
<1>6. UntaintedAt(r)'
  <2>1. pc'[r] = phase /\ oldest'[r] = old
    BY <1>3 DEF IInv, Typed
  <2>2. call[r].policy \in {"bypass", "refresh"} => old >= born[r]
    BY <1>1, <1>2, <1>3 DEF UntaintedAt, Asking, Reads
  <2> QED
    BY <1>1, <1>2, <1>3, <1>4, <2>1, <2>2 DEF UntaintedAt, Coalesces
<1>7. Others(r)
  BY <1>1, <1>3 DEF IInv, Typed, Others
<1>8. Untainted'
  BY <1>1, <1>6, <1>7, OthersStay DEF IInv
<1> QED
  BY <1>1, <1>5, <1>8 DEF IInv, CachedIsRecorded

LEMMA SummaryWakeKeeps ==
    ASSUME IInv, NEW r \in Request, SummaryWake(r)
    PROVE  IInv'
<1> DEFINE q == Topic(call[r].query)
<1>1. /\ pc[r] = "sumqueued"
      /\ UNCHANGED <<call, born, child, rows, searches, pages, extracts, summaries, epoch>>
  BY DEF SummaryWake, local, caches
<1>2. call[r] # NoCall /\ q \in Subject /\ UntaintedAt(r)
  BY <1>1, AtWork
<1>3. ~ (call[r].policy \in {"bypass", "refresh"})
  BY <1>1, <1>2 DEF UntaintedAt, Coalesces
<1>4. PICK phase \in {"record", "summarize"}, old \in Epoch, kind \in {"none", "model", "fallback"} :
          /\ pc' = [pc EXCEPT ![r] = phase]
          /\ oldest' = [oldest EXCEPT ![r] = old]
          /\ summary' = [summary EXCEPT ![r] = kind]
  <2>1. CASE summaries[q] # Absent /\ UseSummary(r, summaries[q])
    <3>1. summaries[q] \in Summary
      BY <1>2, <2>1 DEF IInv, Typed
    <3> QED
      BY <2>1, <3>1, UseSummaryKeeps
  <2>2. CASE Goto(r, "summarize") /\ UNCHANGED <<oldest, summary>>
    <3>1. oldest' = [oldest EXCEPT ![r] = oldest[r]] /\ summary' = [summary EXCEPT ![r] = summary[r]]
          /\ oldest[r] \in Epoch /\ summary[r] \in {"none", "model", "fallback"}
      BY <2>2 DEF IInv, Typed
    <3> QED
      BY <2>2, <3>1 DEF Goto
  <2> QED
    BY <2>1, <2>2 DEF SummaryWake
<1>5. phase \in Phase \ {"idle", "hydrate"} /\ phase \notin {"queued", "sumqueued"}
  BY DEF Phase
<1>6. summaries' \in [Subject -> Summary \union {Absent}] /\ pc[r] \notin TaskPhase
  BY <1>1 DEF IInv, Typed, TaskPhase
<1> QED
  BY <1>1, <1>2, <1>3, <1>4, <1>5, <1>6, Advances

LEMMA SummarizedKeeps ==
    ASSUME IInv, NEW r \in Request, Summarized(r)
    PROVE  IInv'
<1>1. /\ pc[r] = "summarize" /\ pc' = [pc EXCEPT ![r] = "record"]
      /\ UNCHANGED <<call, born, child, oldest, rows, searches, pages, extracts, epoch>>
  BY DEF Summarized, Goto, local
<1>2. call[r] # NoCall /\ Topic(call[r].query) \in Subject /\ UntaintedAt(r) /\ oldest[r] \in Epoch
  BY <1>1, AtWork
<1>3. PICK kind \in {"model", "fallback"} :
          /\ summary' = [summary EXCEPT ![r] = kind]
          /\ summaries' = IF Writes(r) THEN [summaries EXCEPT ![Topic(call[r].query)] = [at |-> oldest[r], kind |-> kind]]
                          ELSE summaries
  BY DEF Summarized
<1>4. [at |-> oldest[r], kind |-> kind] \in Summary
  BY <1>2 DEF Summary
<1>5. summaries' \in [Subject -> Summary \union {Absent}]
  BY <1>2, <1>3, <1>4 DEF IInv, Typed
<1>6. /\ oldest' = [oldest EXCEPT ![r] = oldest[r]] /\ "record" \in Phase \ {"idle", "hydrate"}
      /\ pc[r] \notin TaskPhase
  BY <1>1 DEF IInv, Typed, Phase, TaskPhase
<1>7. call[r].policy \in {"bypass", "refresh"} => oldest[r] >= born[r]
  BY <1>1, <1>2 DEF UntaintedAt, Asking
<1> QED
  BY <1>1, <1>2, <1>3, <1>5, <1>6, <1>7, Advances

LEMMA RecordedKeeps ==
    ASSUME IInv, NEW r \in Request, Recorded(r)
    PROVE  IInv'
<1> DEFINE reply == [oldest |-> oldest[r], summary |-> summary[r], recorded |-> TRUE]
           k == SearchKey(call[r])
<1>1. /\ pc[r] = "record" /\ pc' = [pc EXCEPT ![r] = "done"] /\ rows' = [rows EXCEPT ![r] = 1]
      /\ UNCHANGED <<call, born, child, oldest, summary, pages, extracts, summaries, epoch>>
  BY DEF Recorded, Goto, local
<1>2. call[r] # NoCall /\ k \in Key /\ UntaintedAt(r) /\ oldest[r] \in Epoch
  BY <1>1, AtWork
<1>3. rows'[r] = 1
  BY <1>1 DEF IInv, Typed
<1>4. searches' = IF Writes(r) THEN [searches EXCEPT ![k] = reply] ELSE searches
  BY <1>3 DEF Recorded
<1>5. reply \in Reply /\ reply.recorded
  BY <1>2 DEF IInv, Typed, Reply
<1> HIDE DEF reply, k
<1>6. searches' \in [Key -> Reply \union {Absent}]
  BY <1>2, <1>4, <1>5 DEF IInv, Typed
<1>7. Typed'
  BY <1>1, <1>6 DEF IInv, Typed, Phase
<1>8. UntaintedAt(r)'
  BY <1>1, <1>2 DEF IInv, Typed, UntaintedAt, Asking, Coalesces
<1>9. Others(r)
  BY <1>1 DEF IInv, Typed, Others
<1>10. Untainted'
  BY <1>1, <1>8, <1>9, OthersStay DEF IInv
<1>11. CachedIsRecorded'
  BY <1>2, <1>4, <1>5 DEF IInv, Typed, CachedIsRecorded
<1> QED
  BY <1>7, <1>10, <1>11 DEF IInv

LEMMA StepHolds == ASSUME IInv, [Next]_vars PROVE IInv'
<1>1. CASE UNCHANGED vars
  BY <1>1 DEF vars, IInv, Typed, Untainted, CachedIsRecorded, Coalesces
<1>2. CASE \E r \in Request : \E c \in Call : Begin(r, c)
  BY <1>2, BeginKeeps
<1>3. CASE \E r \in Request : Moves(r)
  BY <1>3, CollectedKeeps, FailsKeeps, HydratedKeeps, SummarizedKeeps, RecordedKeeps, ChildStartKeeps,
      FetchReturnsKeeps DEF Moves
<1>4. CASE \E r \in Request : Acquires(r)
  BY <1>4, SearchWakeKeeps, SummaryWakeKeeps, ChildWakeKeeps, FetchStartKeeps DEF Acquires
<1>5. CASE \E r \in Request : Leave(r) \/ Cancel(r)
  BY <1>5, ForgetKeeps DEF Leave, Cancel
<1>6. CASE Expire
  <2>1. UNCHANGED <<pc, call, born, child, oldest, summary, rows, epoch>>
    BY <1>6 DEF Expire, local
  <2>2. /\ searches' \in [Key -> Reply \union {Absent}]
        /\ pages' \in [Url -> Page \union {Absent}]
        /\ extracts' \in [Url -> Epoch \union {Absent}]
        /\ summaries' \in [Subject -> Summary \union {Absent}]
        /\ \A k \in Key : searches'[k] \in {searches[k], Absent}
    BY <1>6 DEF IInv, Typed, Expire
  <2>3. Typed'
    BY <2>1, <2>2 DEF IInv, Typed
  <2>4. Untainted'
    BY <2>1 DEF IInv, Untainted, Coalesces
  <2> QED
    BY <2>2, <2>3, <2>4 DEF IInv, CachedIsRecorded
<1>7. CASE Tick
  <2>1. epoch' = epoch + 1 /\ epoch' \in Epoch /\ epoch \in Nat
    BY <1>7, BoundAssumption, EpochNat DEF Tick, IInv, Typed, Epoch
  <2>2. UNCHANGED <<pc, call, born, child, oldest, summary, rows, searches, pages, extracts, summaries>>
    BY <1>7 DEF Tick, local, caches
  <2>3. Typed'
    BY <2>1, <2>2 DEF IInv, Typed
  <2>4. \A r \in Request : born[r] \in Nat
    BY EpochNat DEF IInv, Typed
  <2>5. Untainted'
    BY <2>1, <2>2, <2>4 DEF IInv, Untainted, Coalesces
  <2> QED
    BY <2>2, <2>3, <2>5 DEF IInv, CachedIsRecorded
<1> QED
  BY <1>1, <1>2, <1>3, <1>4, <1>5, <1>6, <1>7 DEF Next

(***************************************************************************)
(* The results.                                                            *)
(***************************************************************************)

\* IInv holds in every reachable state.
THEOREM Inductive == Spec => []IInv
<1>1. Init => IInv
  BY InitHolds
<1>2. IInv /\ [Next]_vars => IInv'
  BY StepHolds
<1> QED
  BY <1>1, <1>2, PTL DEF Spec

\* Types, and a hydration task outlives the phase of its request that made it only when the
\* request failed.
THEOREM TypeCorrect == Spec => []TypeOK
<1>1. Init => forked \subseteq Coalesced
  BY DEF Init
<1>2. forked \subseteq Coalesced /\ [Next]_vars => (forked \subseteq Coalesced)'
  <2> SUFFICES ASSUME forked \subseteq Coalesced, [Next]_vars
               PROVE  forked' \subseteq Coalesced
    BY DEF Coalesced, Key, Subject
  <2>1. Fork => forked' \subseteq Coalesced
    BY DEF Fork
  <2>2. Next => Fork \/ forked' = forked
    BY DEF Next, Begin, Moves, Acquires, Leave, Cancel, Forget, Collected, Fails, Hydrated, Summarized,
        Recorded, ChildStart, FetchReturns, SearchWake, SummaryWake, ChildWake, FetchStart, Expire, Tick
  <2> QED
    BY <2>1, <2>2 DEF vars
<1>3. IInv /\ forked \subseteq Coalesced => TypeOK
  BY DEF IInv, TypeOK
<1> QED
  BY <1>1, <1>2, <1>3, Inductive, PTL DEF Spec

\* Whatever runs beside it, a bypass or refresh reply holds nothing older than the request.
THEOREM Freshness == Spec => []FreshReplies
<1>1. IInv => FreshReplies
  BY DEF IInv, Untainted, FreshReplies
<1> QED
  BY <1>1, Inductive, PTL

\* Every reply in the search cache has its row in the history.
THEOREM Recording == Spec => []CachedIsRecorded
<1>1. IInv => CachedIsRecorded
  BY DEF IInv
<1> QED
  BY <1>1, Inductive, PTL

\* A step of a request that bypasses the caches changes none of them.
THEOREM Bypassing == Spec => BypassLeavesNoTrace
<1> DEFINE Moved(r) == call[r] # NoCall /\ call[r].policy = "bypass" /\ <<pc[r], child[r]>>' # <<pc[r], child[r]>>
           NoTrace == \A r \in Request : Moved(r) => UNCHANGED caches
<1>1. ASSUME IInv, [Next]_vars PROVE [NoTrace]_vars
  <2> SUFFICES ASSUME Next, NEW r \in Request, call[r] # NoCall, call[r].policy = "bypass",
                      pc'[r] # pc[r] \/ child'[r] # child[r]
               PROVE  UNCHANGED caches
    BY <1>1
  <2>1. ~ Writes(r) /\ ~ Reads(r)
    BY DEF Writes, Reads
  <2>2. CASE \E s \in Request : \E c \in Call : Begin(s, c)
    BY <2>2 DEF Begin
  <2>3. ASSUME NEW s \in Request, Collected(s) \/ Fails(s) \/ Hydrated(s) \/ SearchWake(s)
                                      \/ SummaryWake(s) \/ Leave(s) \/ Cancel(s)
        PROVE  UNCHANGED caches
    BY <2>3 DEF Collected, Fails, Hydrated, SearchWake, SummaryWake, Leave, Cancel, Forget
  <2>4. ASSUME NEW s \in Request, Summarized(s) \/ Recorded(s)
        PROVE  UNCHANGED caches
    <3>1. child' = child /\ \E phase : pc' = [pc EXCEPT ![s] = phase]
      BY <2>4 DEF Summarized, Recorded, Goto
    <3>2. pc \in [Request -> Phase]
      BY <1>1 DEF IInv, Typed
    <3>3. s = r
      BY <3>1, <3>2
    <3> QED
      BY <2>1, <2>4, <3>3 DEF Summarized, Recorded, caches
  <2>5. ASSUME NEW s \in Request, NEW u \in Url, FetchStart(s, u)
        PROVE  UNCHANGED caches
    BY <2>5 DEF FetchStart
  <2>6. ASSUME NEW s \in Request, NEW u \in Url, ChildStart(s, u) \/ ChildWake(s, u) \/ FetchReturns(s, u)
        PROVE  UNCHANGED caches
    <3>1. \E phase, step : pc' = [pc EXCEPT ![s] = phase] /\ child' = [child EXCEPT ![s][u] = step]
      <4>1. pc' = pc => pc' = [pc EXCEPT ![s] = pc[s]]
        BY <1>1 DEF IInv, Typed
      <4> QED
        BY <2>6, <4>1 DEF ChildStart, ChildWake, FetchReturns, Become, Goto, Process, Extract, Raise
    <3>2. s = r
      <4>1. child \in [Request -> [Url -> ChildPhase]] /\ pc \in [Request -> Phase]
        BY <1>1 DEF IInv, Typed, ChildPhase
      <4> QED
        BY <3>1, <4>1
    <3>3. ASSUME NEW page, Process(r, u, page) PROVE UNCHANGED extracts
      BY <2>1, <3>3 DEF Process, Extract, Raise
    <3> QED
      BY <2>1, <2>6, <3>2, <3>3 DEF ChildStart, ChildWake, FetchReturns, caches
  <2>7. CASE Expire
    BY <2>7 DEF Expire
  <2>8. CASE Tick
    BY <2>8 DEF Tick
  <2> QED
    BY <2>2, <2>3, <2>4, <2>5, <2>6, <2>7, <2>8 DEF Next, Moves, Acquires
<1>2. Spec => [][NoTrace]_vars
  <2>1. IInv /\ [Next]_vars => [NoTrace]_vars
    BY <1>1
  <2> HIDE DEF NoTrace
  <2> QED
    BY <2>1, Inductive, PTL DEF Spec
<1> QED
  BY <1>2 DEF BypassLeavesNoTrace

(***************************************************************************)
(* Nobody waits in a circle.                                               *)
(***************************************************************************)

\* The step that sets up the tasks makes one for every result; no task is ever taken back.
LEMMA HydratingKeeps == ASSUME IInv, Hydrating, [Next]_vars PROVE Hydrating'
<1> DEFINE Whole(r) == \A u \in Urls(call[r].query) : child[r][u] # "none"
           Same(r) == pc'[r] = pc[r] /\ call'[r] = call[r] /\ child'[r] = child[r]
<1>1. ASSUME NEW r \in Request, Same(r), pc'[r] = "hydrate" PROVE Whole(r)'
  BY <1>1 DEF Hydrating
<1>2. ASSUME NEW r \in Request, NEW phase \in Phase \ {"hydrate"}, pc' = [pc EXCEPT ![r] = phase],
             \A s \in Request \ {r} : call'[s] = call[s] /\ child'[s] = child[s]
      PROVE  Hydrating'
  <2>1. pc'[r] # "hydrate" /\ \A s \in Request \ {r} : Same(s)
    BY <1>2 DEF IInv, Typed
  <2> QED
    BY <1>1, <2>1 DEF Hydrating
<1>3. ASSUME NEW r \in Request, NEW u \in Url, NEW phase \in ChildPhase \ {"none"},
             child' = [child EXCEPT ![r][u] = phase], UNCHANGED <<pc, call>>
      PROVE  Hydrating'
  <2>1. ASSUME NEW s \in Request, NEW v \in Url, child[s][v] # "none" PROVE child'[s][v] # "none"
    BY <1>3, <2>1 DEF IInv, Typed
  <2>2. ASSUME NEW s \in Request, pc[s] = "hydrate" PROVE Urls(call[s].query) \subseteq Url
    <3>1. call[s] \in Call
      BY <2>2, AtWork
    <3> QED
      BY <3>1, CallAssumption, UrlAssumption
  <2> QED
    BY <1>3, <2>1, <2>2 DEF Hydrating
<1>4. CASE UNCHANGED <<pc, call, child>>
  BY <1>4 DEF Hydrating
<1>5. ASSUME NEW r \in Request, NEW c \in Call, Begin(r, c) PROVE Hydrating'
  <2>1. PICK phase \in {"done", "missed", "queued", "collect"} : pc' = [pc EXCEPT ![r] = phase]
    BY <1>5 DEF Begin, Serve, Goto
  <2>2. \A s \in Request \ {r} : call'[s] = call[s] /\ child'[s] = child[s]
    BY <1>5 DEF Begin, IInv, Typed
  <2>3. phase \in Phase \ {"hydrate"}
    BY DEF Phase
  <2> QED
    BY <1>2, <2>1, <2>2, <2>3
<1>6. ASSUME NEW r \in Request, Collected(r) PROVE Hydrating'
  <2>1. /\ \A s \in Request \ {r} : Same(s)
        /\ call'[r] = call[r]
        /\ child'[r] = [u \in Url |-> IF u \in Urls(call[r].query) THEN "start" ELSE "none"]
    BY <1>6 DEF Collected, Goto, local, IInv, Typed
  <2>2. Urls(call[r].query) \subseteq Url
    <3>1. call[r] \in Call
      BY <1>6, AtWork DEF Collected
    <3> QED
      BY <3>1, CallAssumption, UrlAssumption
  <2>3. Whole(r)'
    BY <2>1, <2>2
  <2> QED
    BY <1>1, <2>1, <2>3 DEF Hydrating
<1>7. ASSUME NEW r \in Request,
             \/ Fails(r) \/ Hydrated(r) \/ Summarized(r) \/ Recorded(r) \/ SearchWake(r) \/ SummaryWake(r)
             \/ Leave(r) \/ Cancel(r)
      PROVE  Hydrating'
  <2>1. PICK phase \in {"failed", "record", "sumqueued", "summarize", "done", "collect", "idle"} :
            pc' = [pc EXCEPT ![r] = phase]
    BY <1>7 DEF Fails, Hydrated, Summarized, Recorded, SearchWake, SummaryWake, Leave, Cancel, Forget, UseSummary,
        Serve, Goto
  <2>2. \A s \in Request \ {r} : call'[s] = call[s] /\ child'[s] = child[s]
    BY <1>7 DEF Fails, Hydrated, Summarized, Recorded, SearchWake, SummaryWake, Leave, Cancel, Forget, local, IInv, Typed
  <2>3. phase \in Phase \ {"hydrate"}
    BY DEF Phase
  <2> QED
    BY <1>2, <2>1, <2>2, <2>3
<1>8. ASSUME NEW r \in Request, NEW u \in Url, ChildStart(r, u) \/ FetchReturns(r, u) \/ ChildWake(r, u) \/ FetchStart(r, u),
             pc' = pc
      PROVE  Hydrating'
  <2>1. PICK phase \in {"page", "permit", "fetch", "done"} : child' = [child EXCEPT ![r][u] = phase]
    BY <1>8 DEF ChildStart, FetchReturns, ChildWake, FetchStart, Process, Extract, Raise, Become
  <2>2. UNCHANGED <<pc, call>>
    BY <1>8 DEF ChildStart, FetchReturns, ChildWake, FetchStart, local
  <2>3. phase \in ChildPhase \ {"none"}
    BY DEF ChildPhase
  <2> QED
    BY <1>3, <2>1, <2>2, <2>3
<1>9. CASE Expire \/ Tick \/ UNCHANGED vars
  BY <1>4, <1>9 DEF Expire, Tick, local, vars
<1>10. ASSUME NEW r \in Request, NEW u \in Url, ChildStart(r, u) \/ FetchReturns(r, u) \/ ChildWake(r, u) \/ FetchStart(r, u),
              pc' # pc
       PROVE  Hydrating'
  <2>1. \E page : Raise(r, u, page)
    BY <1>10 DEF ChildStart, FetchReturns, ChildWake, FetchStart, Process, Extract
  <2>2. pc[r] \in TaskPhase
    BY <1>10, TaskHydrates DEF IInv, ChildStart, FetchReturns, ChildWake, FetchStart
  <2>3. pc' = [pc EXCEPT ![r] = "failed"] /\ child' = [child EXCEPT ![r][u] = "done"]
    BY <2>1, <2>2, RaiseMoves DEF IInv
  <2>4. \A s \in Request \ {r} : call'[s] = call[s] /\ child'[s] = child[s]
    BY <1>10, <2>3 DEF ChildStart, FetchReturns, ChildWake, FetchStart, local, IInv, Typed
  <2>5. "failed" \in Phase \ {"hydrate"}
    BY DEF Phase
  <2> QED
    BY <1>2, <2>3, <2>4, <2>5
<1> QED
  BY <1>5, <1>6, <1>7, <1>8, <1>9, <1>10 DEF Next, Moves, Acquires

\* Who is inside coalesce for a search, a page or a summary, and who holds the lock.
LEMMA AtSearch ==
    ASSUME NEW k
    PROVE  LET For == {r \in Request : call[r] # NoCall /\ Coalesces(r) /\ SearchKey(call[r]) = k}
           IN  /\ Inside(<<"search", k>>) = {r \in For : pc[r] = "queued" \/ SearchLoader(r)}
               /\ Holding(<<"search", k>>) = {r \in For : SearchLoader(r)}
BY DEF Inside, Holding, SearchLoader

LEMMA AtPage ==
    ASSUME NEW u \in Url
    PROVE  LET For == {r \in Request : call[r] # NoCall /\ Coalesces(r)}
           IN  /\ Inside(<<"page", u>>) = {r \in For : child[r][u] \in {"page", "permit", "fetch"}}
               /\ Holding(<<"page", u>>) = {r \in For : child[r][u] \in {"permit", "fetch"}}
BY DEF Inside, Holding

LEMMA AtSummary ==
    ASSUME NEW q
    PROVE  LET For == {r \in Request : call[r] # NoCall /\ Coalesces(r) /\ Topic(call[r].query) = q}
           IN  /\ Inside(<<"summary", q>>) = {r \in For : pc[r] \in {"sumqueued", "summarize"}}
               /\ Holding(<<"summary", q>>) = {r \in For : pc[r] = "summarize"}
BY DEF Inside, Holding

\* Going(n, r): at most n steps of Blocks lead from r to a search that needs nobody else.
Going1(r) == Ready(r) \/ \E s \in Request : Blocks(s, r) /\ Ready(s)
Going2(r) == Ready(r) \/ \E s \in Request : Blocks(s, r) /\ Going1(s)

\* A search with a task at the semaphore goes on, or one that fetches does.
LEMMA PermitGoes ==
    ASSUME IInv, NEW r \in Request, NEW u \in Url, child[r][u] = "permit"
    PROVE  Going1(r)
<1> SUFFICES ASSUME ~ (Cardinality(Fetching) < Concurrency) PROVE \E s \in Request : Blocks(s, r) /\ Ready(s)
  BY DEF Going1, Ready
<1>1. Fetching # {}
  BY FS_EmptySet, BoundAssumption
<1>2. PICK s \in Request, v \in Url : child[s][v] = "fetch"
  BY <1>1 DEF Fetching
<1> QED
  BY <1>2 DEF Blocks, Ready

\* One with a task at a page's lock: whoever fetches that page has a permit or waits for one.
LEMMA PageGoes ==
    ASSUME IInv, NEW r \in Request, NEW u \in Url, child[r][u] = "page"
    PROVE  Going2(r)
<1> DEFINE x == <<"page", u>>
<1>1. x \in Awaited(r)
  <2>1. pc[r] \in TaskPhase
    BY TaskHydrates DEF IInv
  <2>2. call[r] # NoCall /\ Coalesces(r)
    BY <2>1, AtWork DEF UntaintedAt, TaskPhase
  <2> QED
    BY <2>2, AtPage DEF Awaited, Coalesced
<1>2. CASE Holding(x) = {}
  BY <1>1, <1>2 DEF Going2, Ready
<1>3. ASSUME NEW s \in Holding(x) PROVE Going2(r)
  <2>1. s \in Request /\ child[s][u] \in {"permit", "fetch"}
    BY <1>3, AtPage
  <2>2. Blocks(s, r)
    BY <1>1, <1>3 DEF Blocks
  <2>3. CASE child[s][u] = "permit"
    BY <2>1, <2>2, <2>3, PermitGoes DEF Going2
  <2>4. CASE child[s][u] = "fetch"
    BY <2>1, <2>2, <2>4 DEF Going2, Going1, Ready
  <2> QED
    BY <2>1, <2>3, <2>4
<1> QED
  BY <1>2, <1>3

\* One past the search's lock.
LEMMA LoaderGoes ==
    ASSUME IInv, Hydrating, NEW r \in Request, pc[r] \in {"collect", "hydrate", "sumqueued", "summarize", "record"}
    PROVE  Going2(r)
<1>1. CASE pc[r] \in {"collect", "summarize", "record"}
  BY <1>1 DEF Going2, Ready
<1>2. CASE pc[r] = "hydrate"
  <2> SUFFICES ASSUME ~ Ready(r) PROVE Going2(r)
    BY DEF Going2
  <2>1. Urls(call[r].query) \subseteq Url
    <3>1. call[r] \in Call
      BY <1>2, AtWork
    <3> QED
      BY <3>1, CallAssumption, UrlAssumption
  <2>2. PICK u \in Urls(call[r].query) : child[r][u] # "done"
    BY <1>2 DEF Ready
  <2>3. u \in Url /\ child[r][u] \in {"page", "permit"}
    BY <1>2, <2>1, <2>2 DEF Hydrating, Ready, IInv, Typed
  <2>4. CASE child[r][u] = "page"
    BY <2>3, <2>4, PageGoes
  <2>5. CASE child[r][u] = "permit"
    <3>1. Going1(r)
      BY <2>3, <2>5, PermitGoes
    <3>2. \A s \in Request : Ready(s) => Going1(s)
      BY DEF Going1
    <3> QED
      BY <3>1, <3>2 DEF Going1, Going2
  <2> QED
    BY <2>3, <2>4, <2>5
<1>3. CASE pc[r] = "sumqueued"
  <2> DEFINE x == <<"summary", Topic(call[r].query)>>
  <2>1. call[r] # NoCall /\ Coalesces(r) /\ Topic(call[r].query) \in Subject
    BY <1>3, AtWork DEF UntaintedAt
  <2>2. x \in Awaited(r)
    BY <1>3, <2>1, AtSummary DEF Awaited, Coalesced
  <2>3. CASE Holding(x) = {}
    BY <2>2, <2>3 DEF Going2, Ready
  <2>4. ASSUME NEW s \in Holding(x) PROVE Going2(r)
    <3>1. s \in Request /\ Ready(s)
      BY <2>4, AtSummary DEF Ready
    <3>2. Blocks(s, r)
      BY <2>2, <2>4 DEF Blocks
    <3> QED
      BY <3>1, <3>2 DEF Going2, Going1
  <2> QED
    BY <2>3, <2>4
<1> QED
  BY <1>1, <1>2, <1>3

\* Searches, pages, summaries and the semaphore are always taken in an order in which nobody
\* ends up waiting for himself.
THEOREM NoCircle == Spec => []NobodyStranded
<1>1. Init => Hydrating
  BY DEF Init, Hydrating
<1>2. IInv /\ Hydrating /\ [Next]_vars => Hydrating'
  BY HydratingKeeps
<1>3. ASSUME IInv, Hydrating PROVE NobodyStranded
  <2> SUFFICES ASSUME NEW r \in Request, Working(r)
               PROVE  Ready(r) \/ \E s \in Request : Blocks(s, r) /\ Going2(s)
    BY DEF NobodyStranded, Going1, Going2
  <2>1. CASE pc[r] = "queued"
    <3> DEFINE x == <<"search", SearchKey(call[r])>>
    <3>1. call[r] # NoCall /\ Coalesces(r) /\ SearchKey(call[r]) \in Key
      BY <1>3, <2>1, AtWork DEF UntaintedAt
    <3>2. x \in Awaited(r)
      BY <2>1, <3>1, AtSearch DEF Awaited, Coalesced, SearchLoader
    <3>3. CASE Holding(x) = {}
      BY <3>2, <3>3 DEF Ready
    <3>4. ASSUME NEW s \in Holding(x) PROVE \E o \in Request : Blocks(o, r) /\ Going2(o)
      <4>1. s \in Request /\ SearchLoader(s)
        BY <3>4, AtSearch
      <4>2. Going2(s)
        BY <1>3, <4>1, LoaderGoes DEF SearchLoader
      <4> QED
        BY <3>2, <3>4, <4>1, <4>2 DEF Blocks
    <3> QED
      BY <3>3, <3>4
  <2>2. CASE pc[r] # "queued"
    <3>1. \A s \in Request : Going1(s) => Going2(s)
      <4>1. \A s \in Request : Ready(s) => Going1(s)
        BY DEF Going1
      <4> QED
        BY <4>1 DEF Going1, Going2
    <3>2. Going2(r)
      <4>1. CASE pc[r] \notin Ended \union {"idle"}
        BY <1>3, <2>2, <4>1, LoaderGoes DEF IInv, Typed, Phase, Ended
      <4>2. CASE \E u \in Url : Runs(r, u)
        <5>1. PICK u \in Url : child[r][u] \in {"start", "page", "permit", "fetch"}
          BY <4>2 DEF Runs
        <5>2. CASE child[r][u] \in {"start", "fetch"}
          BY <5>2 DEF Going2, Ready
        <5>3. CASE child[r][u] = "permit"
          BY <1>3, <3>1, <5>3, PermitGoes
        <5>4. CASE child[r][u] = "page"
          BY <1>3, <5>4, PageGoes
        <5> QED
          BY <5>1, <5>2, <5>3, <5>4
      <4> QED
        BY <4>1, <4>2 DEF Working
    <3> QED
      BY <3>1, <3>2 DEF Going2
  <2> QED
    BY <2>1, <2>2
<1> QED
  BY <1>1, <1>2, <1>3, Inductive, PTL DEF Spec

(***************************************************************************)
(* The searches keep the contract of coalesce.                             *)
(***************************************************************************)

\* Where r stands with one key, before and after a step.
SpotSearch(r, k) ==
    /\ r \in Inside(<<"search", k>>) <=> /\ call[r] # NoCall /\ Coalesces(r) /\ SearchKey(call[r]) = k
                                         /\ pc[r] \in {"queued", "collect", "hydrate", "sumqueued", "summarize", "record"}
    /\ r \in Holding(<<"search", k>>) <=> r \in Inside(<<"search", k>>) /\ pc[r] # "queued"
SpotPage(r, u) ==
    /\ r \in Inside(<<"page", u>>) <=> /\ call[r] # NoCall /\ Coalesces(r)
                                       /\ child[r][u] \in {"page", "permit", "fetch"}
    /\ r \in Holding(<<"page", u>>) <=> r \in Inside(<<"page", u>>) /\ child[r][u] # "page"
SpotSummary(r, q) ==
    /\ r \in Inside(<<"summary", q>>) <=> /\ call[r] # NoCall /\ Coalesces(r) /\ Topic(call[r].query) = q
                                          /\ pc[r] \in {"sumqueued", "summarize"}
    /\ r \in Holding(<<"summary", q>>) <=> r \in Inside(<<"summary", q>>) /\ pc[r] # "sumqueued"

LEMMA Spots ==
    ASSUME NEW r \in Request
    PROVE  /\ \A k \in Key : SpotSearch(r, k) /\ SpotSearch(r, k)'
           /\ \A u \in Url : SpotPage(r, u) /\ SpotPage(r, u)'
           /\ \A q \in Subject : SpotSummary(r, q) /\ SpotSummary(r, q)'
<1>1. ASSUME NEW k \in Key PROVE SpotSearch(r, k) /\ SpotSearch(r, k)'
  BY DEF SpotSearch, Inside, Holding, SearchLoader
<1>2. ASSUME NEW u \in Url PROVE SpotPage(r, u) /\ SpotPage(r, u)'
  BY DEF SpotPage, Inside, Holding
<1>3. ASSUME NEW q \in Subject PROVE SpotSummary(r, q) /\ SpotSummary(r, q)'
  BY DEF SpotSummary, Inside, Holding
<1> QED
  BY <1>1, <1>2, <1>3

\* What the contract lets r do with x.
Permitted(r, x) ==
    \/ (r \in Inside(x)' <=> r \in Inside(x)) /\ (r \in Holding(x)' <=> r \in Holding(x))
    \/ r \notin Inside(x) /\ r \in Inside(x)' \ Holding(x)' /\ Inside(x) # {}
    \/ r \notin Inside(x) /\ r \in Holding(x)' /\ (Inside(x) = {} \/ x \in forked)
    \/ r \in Inside(x) \ Holding(x) /\ r \in Holding(x)' /\ (Holding(x) = {} \/ x \in forked)
    \/ r \in Inside(x) /\ r \notin Inside(x)'

\* Two locks only while somebody is there.
ForkedIsBusy == \A x \in forked : Inside(x) # {}

\* A step about r that is permitted for every key is one of the contract.
LEMMA KeySteps ==
    ASSUME ForkedIsBusy, NEW r \in Request, Others(r), Fork,
           \A x \in Coalesced : Permitted(r, x)
    PROVE  Lock!Next /\ ForkedIsBusy'
<1>1. ASSUME NEW x, NEW s \in Request \ {r}
      PROVE  (s \in Inside(x)' <=> s \in Inside(x)) /\ (s \in Holding(x)' <=> s \in Holding(x))
  BY DEF Others, Inside, Holding, SearchLoader, Coalesces
<1>2. \A x : /\ Holding(x) \subseteq Inside(x) /\ Inside(x) \subseteq Request
             /\ Holding(x)' \subseteq Inside(x)' /\ Inside(x)' \subseteq Request
  BY DEF Holding, Inside
<1>3. ASSUME NEW x \in Coalesced
      PROVE  Lock!Stay(x) \/ Lock!Wait(r, x) \/ Lock!Enter(r, x) \/ Lock!Take(r, x) \/ Lock!Leave(r, x)
  <2>1. x \in forked' <=> Inside(x)' # {} /\ (x \in forked \/ ~ Inside(x) \subseteq Inside(x)')
    BY DEF Fork
  <2>2. x \in forked => Inside(x) # {}
    BY DEF ForkedIsBusy
  <2>3. CASE (r \in Inside(x)' <=> r \in Inside(x)) /\ (r \in Holding(x)' <=> r \in Holding(x))
    <3>1. Inside(x)' = Inside(x) /\ Holding(x)' = Holding(x)
      BY <1>1, <1>2, <2>3
    <3>2. Lock!Stay(x)
      BY <2>1, <2>2, <3>1 DEF Lock!Stay, Lock!SameLocks
    <3> QED
      BY <3>2
  <2>4. CASE r \notin Inside(x) /\ r \in Inside(x)' \ Holding(x)' /\ Inside(x) # {}
    <3>1. Inside(x)' = Inside(x) \union {r} /\ Holding(x)' = Holding(x)
      BY <1>1, <1>2, <2>4
    <3>2. Lock!Wait(r, x)
      BY <2>1, <2>4, <3>1 DEF Lock!Wait, Lock!MayWait, Lock!SameLocks
    <3> QED
      BY <3>2
  <2>5. CASE r \notin Inside(x) /\ r \in Holding(x)' /\ (Inside(x) = {} \/ x \in forked)
    <3>1. Inside(x)' = Inside(x) \union {r} /\ Holding(x)' = Holding(x) \union {r}
      BY <1>1, <1>2, <2>5
    <3>2. Lock!Enter(r, x)
      BY <2>1, <2>2, <2>5, <3>1 DEF Lock!Enter, Lock!MayEnter, Lock!SameLocks
    <3> QED
      BY <3>2
  <2>6. CASE r \in Inside(x) \ Holding(x) /\ r \in Holding(x)' /\ (Holding(x) = {} \/ x \in forked)
    <3>1. Inside(x)' = Inside(x) /\ Holding(x)' = Holding(x) \union {r}
      BY <1>1, <1>2, <2>6
    <3>2. Lock!Take(r, x)
      BY <2>1, <2>2, <2>6, <3>1 DEF Lock!Take, Lock!MayTake, Lock!SameLocks
    <3> QED
      BY <3>2
  <2>7. CASE r \in Inside(x) /\ r \notin Inside(x)'
    <3>1. Inside(x)' = Inside(x) \ {r} /\ Holding(x)' = Holding(x) \ {r}
      BY <1>1, <1>2, <2>7
    <3>2. x \notin forked' => Holding(x)' = {}
      BY <1>2, <2>1, <2>7
    <3>3. Lock!Leave(r, x)
      BY <2>1, <2>7, <3>1, <3>2 DEF Lock!Leave
    <3> QED
      BY <3>3
  <2> QED
    BY <2>3, <2>4, <2>5, <2>6, <2>7 DEF Permitted
<1>4. forked' \subseteq Coalesced /\ ForkedIsBusy'
  BY DEF Fork, ForkedIsBusy
<1> QED
  BY <1>2, <1>3, <1>4 DEF Lock!Next

\* A step that gives r another phase and leaves its tasks alone.
LEMMA PhaseSteps ==
    ASSUME IInv, NEW r \in Request, NEW phase, pc' = [pc EXCEPT ![r] = phase],
           call[r] # NoCall, call' = call, child' = child,
           NEW k, k = SearchKey(call[r]), NEW q, q = Topic(call[r].query),
           \/ pc[r] = "queued" /\ phase = "collect" /\ Lock!MayTake(<<"search", k>>)
           \/ pc[r] = "sumqueued" /\ phase = "summarize" /\ Lock!MayTake(<<"summary", q>>)
           \/ pc[r] \in {"sumqueued", "summarize"} /\ phase = "record"
           \/ phase \in Ended
    PROVE  \A x \in Coalesced : Permitted(r, x)
<1>1. pc'[r] = phase /\ (Coalesces(r)' <=> Coalesces(r))
  BY DEF IInv, Typed, Coalesces
<1>2. ASSUME NEW j \in Key PROVE Permitted(r, <<"search", j>>)
  <2>1. SpotSearch(r, j) /\ SpotSearch(r, j)'
    BY Spots
  <2>2. <<"search", j>> \in Coalesced
    BY DEF Coalesced
  <2> QED
    BY <1>1, <2>1, <2>2 DEF SpotSearch, Permitted, Ended, Lock!MayTake
<1>3. ASSUME NEW u \in Url PROVE Permitted(r, <<"page", u>>)
  <2>1. SpotPage(r, u) /\ SpotPage(r, u)'
    BY Spots
  <2> QED
    BY <1>1, <2>1 DEF SpotPage, Permitted
<1>4. ASSUME NEW s \in Subject PROVE Permitted(r, <<"summary", s>>)
  <2>1. SpotSummary(r, s) /\ SpotSummary(r, s)'
    BY Spots
  <2>2. <<"summary", s>> \in Coalesced
    BY DEF Coalesced
  <2> QED
    BY <1>1, <2>1, <2>2 DEF SpotSummary, Permitted, Ended, Lock!MayTake
<1> QED
  BY <1>2, <1>3, <1>4 DEF Coalesced

\* A step of one task of r.
LEMMA TaskSteps ==
    ASSUME IInv, NEW r \in Request, NEW u \in Url, NEW phase,
           child' = [child EXCEPT ![r][u] = phase], call' = call,
           pc' = pc \/ (pc' = [pc EXCEPT ![r] = "failed"] /\ phase = "done"),
           \/ child[r][u] = "start" /\ phase = "page" /\ Lock!MayWait(<<"page", u>>)
           \/ child[r][u] = "start" /\ phase = "permit" /\ (Coalesces(r) => Lock!MayEnter(<<"page", u>>))
           \/ child[r][u] = "page" /\ phase = "permit" /\ Lock!MayTake(<<"page", u>>)
           \/ child[r][u] = "permit" /\ phase = "fetch"
           \/ phase = "done"
    PROVE  \A x \in Coalesced : Permitted(r, x)
<1>1. /\ \A v \in Url : child'[r][v] = IF v = u THEN phase ELSE child[r][v]
      /\ Coalesces(r)' <=> Coalesces(r)
      /\ pc'[r] \in {pc[r], "failed"}
  BY DEF IInv, Typed, Coalesces
<1>2. ASSUME NEW j \in Key PROVE Permitted(r, <<"search", j>>)
  <2>1. SpotSearch(r, j) /\ SpotSearch(r, j)'
    BY Spots
  <2> QED
    BY <1>1, <2>1 DEF SpotSearch, Permitted
<1>3. ASSUME NEW v \in Url PROVE Permitted(r, <<"page", v>>)
  <2>1. SpotPage(r, v) /\ SpotPage(r, v)'
    BY Spots
  <2>2. <<"page", v>> \in Coalesced
    BY DEF Coalesced
  <2> QED
    BY <1>1, <2>1, <2>2 DEF SpotPage, Permitted, Lock!MayTake, Lock!MayWait, Lock!MayEnter
<1>4. ASSUME NEW s \in Subject PROVE Permitted(r, <<"summary", s>>)
  <2>1. SpotSummary(r, s) /\ SpotSummary(r, s)'
    BY Spots
  <2> QED
    BY <1>1, <2>1 DEF SpotSummary, Permitted
<1> QED
  BY <1>2, <1>3, <1>4 DEF Coalesced

LEMMA BeginPermitted ==
    ASSUME IInv, NEW r \in Request, NEW c \in Call, Begin(r, c)
    PROVE  Others(r) /\ \A x \in Coalesced : Permitted(r, x)
<1>1. /\ call' = [call EXCEPT ![r] = c] /\ born' = [born EXCEPT ![r] = epoch] /\ child' = child /\ pc[r] = "idle"
      /\ UNCHANGED <<rows, epoch>>
  BY DEF Begin
<1>2. PICK phase \in {"done", "missed", "queued", "collect"} :
          /\ pc' = [pc EXCEPT ![r] = phase]
          /\ phase = "queued" => c.policy = "use" /\ Lock!MayWait(<<"search", SearchKey(c)>>)
          /\ phase = "collect" /\ c.policy = "use" => Lock!MayEnter(<<"search", SearchKey(c)>>)
          /\ \A s \in Request \ {r} : oldest'[s] = oldest[s]
  BY DEF Begin, Serve, Goto, IInv, Typed
<1>3. Others(r)
  BY <1>1, <1>2 DEF Others, IInv, Typed
<1>4. /\ call[r] = NoCall /\ call'[r] = c /\ pc'[r] = phase /\ SearchKey(call'[r]) = SearchKey(c)
      /\ Coalesces(r)' <=> c.policy = "use"
      /\ \A u \in Url : child'[r][u] = "none"
  <2>1. call[r] = NoCall
    BY <1>1 DEF IInv, Untainted
  <2>2. call'[r] = c /\ pc'[r] = phase /\ (Coalesces(r)' <=> c.policy = "use")
    BY <1>1, <1>2 DEF IInv, Typed, Coalesces
  <2>3. \A u \in Url : child'[r][u] = "none"
    BY <1>1 DEF IInv, Typed
  <2> QED
    BY <2>1, <2>2, <2>3
<1>5. ASSUME NEW j \in Key PROVE Permitted(r, <<"search", j>>)
  <2>1. SpotSearch(r, j) /\ SpotSearch(r, j)'
    BY Spots
  <2>2. <<"search", j>> \in Coalesced
    BY DEF Coalesced
  <2> QED
    BY <1>2, <1>4, <2>1, <2>2 DEF SpotSearch, Permitted, Lock!MayWait, Lock!MayEnter
<1>6. ASSUME NEW u \in Url PROVE Permitted(r, <<"page", u>>)
  <2>1. SpotPage(r, u) /\ SpotPage(r, u)'
    BY Spots
  <2> QED
    BY <1>4, <2>1 DEF SpotPage, Permitted
<1>7. ASSUME NEW q \in Subject PROVE Permitted(r, <<"summary", q>>)
  <2>1. SpotSummary(r, q) /\ SpotSummary(r, q)'
    BY Spots
  <2> QED
    BY <1>2, <1>4, <2>1 DEF SpotSummary, Permitted
<1> QED
  BY <1>3, <1>5, <1>6, <1>7 DEF Coalesced

LEMMA CollectedPermitted ==
    ASSUME IInv, NEW r \in Request, Collected(r)
    PROVE  Others(r) /\ \A x \in Coalesced : Permitted(r, x)
<1>1. /\ pc[r] = "collect" /\ pc'[r] = "hydrate" /\ call' = call /\ (Coalesces(r)' <=> Coalesces(r))
      /\ \A u \in Url : child[r][u] = "none" /\ child'[r][u] \in {"start", "none"}
  BY DEF Collected, Goto, local, IInv, Typed, Coalesces
<1>2. Others(r)
  BY DEF Collected, Goto, local, Others, IInv, Typed
<1>3. ASSUME NEW j \in Key PROVE Permitted(r, <<"search", j>>)
  <2>1. SpotSearch(r, j) /\ SpotSearch(r, j)'
    BY Spots
  <2> QED
    BY <1>1, <2>1 DEF SpotSearch, Permitted
<1>4. ASSUME NEW u \in Url PROVE Permitted(r, <<"page", u>>)
  <2>1. SpotPage(r, u) /\ SpotPage(r, u)'
    BY Spots
  <2> QED
    BY <1>1, <2>1 DEF SpotPage, Permitted
<1>5. ASSUME NEW q \in Subject PROVE Permitted(r, <<"summary", q>>)
  <2>1. SpotSummary(r, q) /\ SpotSummary(r, q)'
    BY Spots
  <2> QED
    BY <1>1, <2>1 DEF SpotSummary, Permitted
<1> QED
  BY <1>2, <1>3, <1>4, <1>5 DEF Coalesced

LEMMA HydratedPermitted ==
    ASSUME IInv, NEW r \in Request, Hydrated(r)
    PROVE  Others(r) /\ \A x \in Coalesced : Permitted(r, x)
<1> DEFINE subject == Topic(call[r].query)
<1>1. /\ pc[r] = "hydrate" /\ child' = [child EXCEPT ![r] = [u \in Url |-> "none"]]
      /\ UNCHANGED <<call, born>>
  BY DEF Hydrated, local
<1>2. PICK phase \in {"record", "sumqueued", "summarize"} :
          /\ pc' = [pc EXCEPT ![r] = phase]
          /\ phase = "sumqueued" => Coalesces(r) /\ Lock!MayWait(<<"summary", subject>>)
          /\ phase = "summarize" => (Coalesces(r) => Lock!MayEnter(<<"summary", subject>>))
          /\ \A s \in Request \ {r} : oldest'[s] = oldest[s]
  BY DEF Hydrated, UseSummary, Goto, IInv, Typed
<1>3. Others(r)
  BY <1>1, <1>2 DEF Others, IInv, Typed
<1>4. /\ pc'[r] = phase /\ (Coalesces(r)' <=> Coalesces(r)) /\ call'[r] = call[r]
      /\ \A u \in Url : child'[r][u] = "none"
  BY <1>1, <1>2 DEF IInv, Typed, Coalesces
<1>5. ASSUME NEW j \in Key PROVE Permitted(r, <<"search", j>>)
  <2>1. SpotSearch(r, j) /\ SpotSearch(r, j)'
    BY Spots
  <2> QED
    BY <1>1, <1>4, <2>1 DEF SpotSearch, Permitted
<1>6. ASSUME NEW u \in Url PROVE Permitted(r, <<"page", u>>)
  <2>1. SpotPage(r, u) /\ SpotPage(r, u)'
    BY Spots
  <2> QED
    BY <1>4, <2>1 DEF SpotPage, Permitted
<1>7. ASSUME NEW q \in Subject PROVE Permitted(r, <<"summary", q>>)
  <2>1. SpotSummary(r, q) /\ SpotSummary(r, q)'
    BY Spots
  <2>2. <<"summary", q>> \in Coalesced
    BY DEF Coalesced
  <2> QED
    BY <1>1, <1>2, <1>4, <2>1, <2>2 DEF SpotSummary, Permitted, Lock!MayWait, Lock!MayEnter
<1> QED
  BY <1>3, <1>5, <1>6, <1>7 DEF Coalesced

\* A request that fails on its own has no tasks; one that is forgotten leaves all it was in.
LEMMA OverPermitted ==
    ASSUME IInv, NEW r \in Request, Fails(r) \/ Forget(r)
    PROVE  Others(r) /\ \A x \in Coalesced : Permitted(r, x)
<1>1. /\ pc'[r] \in {"failed", "idle"} /\ call'[r] \in {call[r], NoCall}
      /\ \A u \in Url : child'[r][u] = "none"
  BY DEF Fails, Forget, Goto, local, IInv, Typed
<1>2. Others(r)
  BY DEF Fails, Forget, Goto, local, Others, IInv, Typed
<1>3. ASSUME NEW x \in Coalesced PROVE r \notin Inside(x)'
  BY <1>1 DEF Inside, SearchLoader
<1>4. \A x : Holding(x) \subseteq Inside(x) /\ Holding(x)' \subseteq Inside(x)'
  BY DEF Holding
<1> QED
  BY <1>2, <1>3, <1>4 DEF Permitted

LEMMA MovesKeepContract ==
    ASSUME IInv, ForkedIsBusy, NEW r \in Request, Moves(r) \/ Acquires(r) \/ Leave(r) \/ Cancel(r)
    PROVE  Lock!Next /\ ForkedIsBusy'
<1>0. Fork
  BY DEF Moves, Acquires, Leave, Cancel, Forget, Collected, Fails, Hydrated, Summarized, Recorded, ChildStart,
      FetchReturns, SearchWake, SummaryWake, ChildWake, FetchStart
<1>1. CASE Collected(r) \/ Hydrated(r) \/ Fails(r) \/ Leave(r) \/ Cancel(r)
  BY <1>0, <1>1, CollectedPermitted, HydratedPermitted, OverPermitted, KeySteps DEF Leave, Cancel
<1>2. CASE Summarized(r) \/ Recorded(r) \/ SearchWake(r) \/ SummaryWake(r)
  <2>1. call[r] # NoCall /\ call' = call /\ child' = child /\ born' = born
    BY <1>2, AtWork DEF Summarized, Recorded, SearchWake, SummaryWake, local
  <2>2. PICK phase : /\ pc' = [pc EXCEPT ![r] = phase]
                     /\ \/ pc[r] = "queued" /\ phase = "collect" /\ Lock!MayTake(<<"search", SearchKey(call[r])>>)
                        \/ /\ pc[r] = "sumqueued" /\ phase = "summarize"
                           /\ Lock!MayTake(<<"summary", Topic(call[r].query)>>)
                        \/ pc[r] \in {"sumqueued", "summarize"} /\ phase = "record"
                        \/ phase \in Ended
    BY <1>2 DEF Summarized, Recorded, SearchWake, SummaryWake, Serve, UseSummary, Goto, Ended
  <2>3. \A s \in Request \ {r} : oldest'[s] = oldest[s]
    BY <1>2 DEF Summarized, Recorded, SearchWake, SummaryWake, Serve, UseSummary, IInv, Typed
  <2>4. Others(r)
    BY <2>1, <2>2, <2>3 DEF Others, IInv, Typed
  <2>5. \A x \in Coalesced : Permitted(r, x)
    BY <2>1, <2>2, PhaseSteps
  <2> QED
    BY <1>0, <2>4, <2>5, KeySteps
<1>3. ASSUME NEW u \in Url, ChildStart(r, u) \/ ChildWake(r, u) \/ FetchStart(r, u) \/ FetchReturns(r, u)
      PROVE  Lock!Next /\ ForkedIsBusy'
  <2>0. child[r][u] \in {"start", "page", "permit", "fetch"} /\ pc[r] \in TaskPhase
    BY <1>3, TaskHydrates DEF ChildStart, ChildWake, FetchStart, FetchReturns, IInv
  <2>1. UNCHANGED <<call, born>>
    BY <1>3 DEF ChildStart, ChildWake, FetchStart, FetchReturns, local
  <2>2. PICK phase :
            /\ child' = [child EXCEPT ![r][u] = phase]
            /\ pc' = pc \/ (pc' = [pc EXCEPT ![r] = "failed"] /\ phase = "done")
            /\ \/ child[r][u] = "start" /\ phase = "page" /\ Lock!MayWait(<<"page", u>>)
               \/ child[r][u] = "start" /\ phase = "permit" /\ (Coalesces(r) => Lock!MayEnter(<<"page", u>>))
               \/ child[r][u] = "page" /\ phase = "permit" /\ Lock!MayTake(<<"page", u>>)
               \/ child[r][u] = "permit" /\ phase = "fetch"
               \/ phase = "done"
    <3>1. ASSUME NEW page, Process(r, u, page)
          PROVE  /\ child' = [child EXCEPT ![r][u] = "done"]
                 /\ pc' = pc \/ pc' = [pc EXCEPT ![r] = "failed"]
      BY <2>0, <3>1, RaiseMoves DEF Process, Extract, Become, IInv
    <3>2. CASE \E page : Process(r, u, page)
      BY <3>1, <3>2
    <3>3. CASE /\ child[r][u] = "start" /\ pc' = pc
               /\ \/ Lock!MayWait(<<"page", u>>) /\ Become(r, u, "page")
                  \/ (Coalesces(r) => Lock!MayEnter(<<"page", u>>)) /\ Become(r, u, "permit")
      BY <3>3 DEF Become
    <3>4. CASE child[r][u] = "page" /\ pc' = pc /\ Lock!MayTake(<<"page", u>>) /\ Become(r, u, "permit")
      BY <3>4 DEF Become
    <3>5. CASE FetchStart(r, u)
      BY <3>5 DEF FetchStart, Become
    <3> QED
      BY <1>3, <3>2, <3>3, <3>4, <3>5 DEF ChildStart, ChildWake, FetchReturns
  <2>3. \A s \in Request \ {r} : oldest'[s] = oldest[s]
    BY <1>3 DEF ChildStart, ChildWake, FetchStart, FetchReturns, Process, Extract, Raise, IInv, Typed
  <2>4. Others(r)
    BY <2>1, <2>2, <2>3 DEF Others, IInv, Typed
  <2>5. \A x \in Coalesced : Permitted(r, x)
    BY <2>1, <2>2, TaskSteps
  <2> QED
    BY <1>0, <2>4, <2>5, KeySteps
<1> QED
  BY <1>1, <1>2, <1>3 DEF Moves, Acquires

LEMMA ContractStep == ASSUME IInv, ForkedIsBusy, [Next]_vars PROVE [Lock!Next]_(Lock!vars) /\ ForkedIsBusy'
<1>1. CASE \E r \in Request : \E c \in Call : Begin(r, c)
  <2>1. PICK r \in Request, c \in Call : Begin(r, c)
    BY <1>1
  <2>2. Fork
    BY <2>1 DEF Begin
  <2> QED
    BY <2>1, <2>2, BeginPermitted, KeySteps
<1>2. CASE \E r \in Request : Moves(r) \/ Acquires(r) \/ Leave(r) \/ Cancel(r)
  BY <1>2, MovesKeepContract
<1>3. CASE Expire \/ Tick \/ UNCHANGED vars
  <2>1. UNCHANGED <<pc, call, child, forked>>
    BY <1>3 DEF Expire, Tick, vars, local
  <2>2. \A x : Inside(x)' = Inside(x) /\ Holding(x)' = Holding(x)
    BY <2>1 DEF Inside, Holding, SearchLoader, Coalesces
  <2> QED
    BY <2>1, <2>2 DEF Lock!vars, ForkedIsBusy
<1> QED
  BY <1>1, <1>2, <1>3 DEF Next

\* Searches, pages and summaries are entered, waited for and left as the contract of coalesce
\* says, by any number of requests at once and wherever they fail or are cancelled.
THEOREM KeepsLocks == Spec => Lock!Spec
<1>1. Init => Lock!Init /\ ForkedIsBusy
  <2> SUFFICES ASSUME Init PROVE \A x : Inside(x) = {} /\ Holding(x) = {}
    BY DEF Lock!Init, ForkedIsBusy, Init
  <2> QED
    BY DEF Init, Inside, Holding
<1>2. IInv /\ ForkedIsBusy /\ [Next]_vars => [Lock!Next]_(Lock!vars) /\ ForkedIsBusy'
  BY ContractStep
<1> QED
  BY <1>1, <1>2, Inductive, PTL DEF Spec, Lock!Spec

\* A contract that is kept admits one caller at a time.
LEMMA ContractExcludes ==
    ASSUME Lock!Exclusive, [Lock!Next]_(Lock!vars)
    PROVE  Lock!Exclusive'
<1> SUFFICES ASSUME NEW x \in Coalesced, x \notin forked', NEW c \in Holding(x)', NEW d \in Holding(x)'
    PROVE  c = d
  BY DEF Lock!Exclusive
<1>0. x \notin forked => \A a, b \in Holding(x) : a = b
  BY DEF Lock!Exclusive
<1>1. CASE UNCHANGED Lock!vars
  <2>1. Holding(x)' = Holding(x) /\ forked' = forked
    BY <1>1 DEF Lock!vars
  <2> QED
    BY <1>0, <2>1
<1>2. CASE Lock!Stay(x) \/ \E a \in Request : Lock!Wait(a, x)
  <2>1. Holding(x)' = Holding(x) /\ x \notin forked
    BY <1>2 DEF Lock!Stay, Lock!Wait, Lock!SameLocks
  <2> QED
    BY <1>0, <2>1
<1>3. ASSUME NEW a \in Request, Lock!Enter(a, x) \/ Lock!Take(a, x) PROVE c = d
  <2>1. Holding(x) = {} /\ Holding(x)' = Holding(x) \union {a}
    BY <1>3 DEF Lock!Enter, Lock!Take, Lock!MayEnter, Lock!MayTake, Lock!SameLocks, Holding
  <2> QED
    BY <2>1
<1>4. ASSUME NEW a \in Request, Lock!Leave(a, x) PROVE c = d
  BY <1>4 DEF Lock!Leave
<1> QED
  BY <1>1, <1>2, <1>3, <1>4 DEF Lock!Next

\* Nothing is collected, fetched or summarized twice at the same time by searches that coalesce,
\* unless one of them failed or was cancelled and left others waiting.
THEOREM LoadsAlone == Spec => []Lock!Exclusive
<1>1. Init => Lock!Exclusive
  <2> SUFFICES ASSUME Init PROVE \A x : Holding(x) = {}
    BY DEF Lock!Exclusive
  <2> QED
    BY DEF Init, Inside, Holding
<1>2. Lock!Exclusive /\ [Lock!Next]_(Lock!vars) => Lock!Exclusive'
  BY ContractExcludes
<1> QED
  BY <1>1, <1>2, KeepsLocks, PTL DEF Spec, Lock!Spec

-----------------------------------------------------------------------------
\* Searches advance.

\* Where a search or its tasks may be after a step.
Closer(r) ==
    \/ Distance[pc'[r]] < Distance[pc[r]]
    \/ /\ pc'[r] = pc[r]
       /\ \A u \in Url : \/ child'[r][u] = child[r][u]
                         \/ TaskDistance[child'[r][u]] < TaskDistance[child[r][u]]

LEMMA StepNears ==
    ASSUME IInv, NEW r \in Request, Working(r), NEW s \in Request,
           Moves(s) \/ Acquires(s) \/ Leave(s) \/ Cancel(s) \/ \E c \in Call : Begin(s, c)
    PROVE  Closer(r)
<1>1. /\ pc \in [Request -> Phase]
      /\ child \in [Request -> [Url -> {"none", "start", "page", "permit", "fetch", "done"}]]
  BY DEF IInv, TypeOK, Typed
<1>2. ASSUME NEW phase, Goto(s, phase), s = r => Distance[phase] < Distance[pc[s]],
             \A q \in Request \ {s} : child'[q] = child[q]
      PROVE  Closer(r)
  BY <1>1, <1>2 DEF Goto, Closer
<1>3. ASSUME NEW u \in Url, NEW phase, Become(s, u, phase), TaskDistance[phase] < TaskDistance[child[s][u]],
             pc' = pc
      PROVE  Closer(r)
  BY <1>1, <1>3 DEF Become, Closer
<1>3a. ASSUME NEW u \in Url, NEW page, Process(s, u, page), child[s][u] \in {"start", "page", "fetch"}
      PROVE  Closer(r)
  <2>1. pc[s] \in TaskPhase
    BY <1>3a, TaskHydrates DEF IInv
  <2>2. Become(s, u, "done") /\ TaskDistance["done"] < TaskDistance[child[s][u]]
    BY <1>3a DEF Process, Extract, Raise, TaskDistance
  <2>3. CASE pc' = pc
    BY <1>3, <2>2, <2>3
  <2>4. CASE pc' # pc
    <3>1. Raise(s, u, page) /\ pc[s] # "failed" /\ pc' = [pc EXCEPT ![s] = "failed"]
          /\ child' = [child EXCEPT ![s][u] = "done"]
      BY <1>1, <1>3a, <2>1, <2>4, RaiseMoves DEF Process, Extract, IInv
    <3>2. pc[s] = "hydrate" /\ Goto(s, "failed")
      BY <2>1, <3>1 DEF Goto, TaskPhase
    <3>3. \A q \in Request \ {s} : child'[q] = child[q]
      BY <1>1, <3>1
    <3> QED
      BY <1>2, <3>2, <3>3 DEF Distance
  <2> QED
    BY <2>3, <2>4
<1>4. CASE Collected(s)
  BY <1>1, <1>2, <1>4 DEF Collected, Distance
<1>5. CASE Fails(s)
  BY <1>1, <1>2, <1>5 DEF Fails, Distance
<1>6. CASE Hydrated(s)
  <2>1. \A q \in Request \ {s} : child'[q] = child[q]
    BY <1>1, <1>6 DEF Hydrated
  <2>2. pc[s] = "hydrate" /\ \E phase \in {"record", "sumqueued", "summarize"} : Goto(s, phase)
    BY <1>6 DEF Hydrated, UseSummary
  <2> QED
    BY <1>2, <2>1, <2>2 DEF Distance
<1>7. CASE Summarized(s)
  BY <1>2, <1>7 DEF Summarized, Distance
<1>8. CASE Recorded(s)
  BY <1>2, <1>8 DEF Recorded, Distance
<1>9. ASSUME NEW u \in Url, ChildStart(s, u) PROVE Closer(r)
  <2>1. CASE \E page : Process(s, u, page)
    BY <1>9, <1>3a, <2>1 DEF ChildStart
  <2>2. CASE pc' = pc /\ \E phase \in {"page", "permit"} : Become(s, u, phase)
    BY <1>3, <1>9, <2>2 DEF ChildStart, TaskDistance
  <2> QED
    BY <1>9, <2>1, <2>2 DEF ChildStart
<1>10. ASSUME NEW u \in Url, FetchReturns(s, u) PROVE Closer(r)
  <2>1. child[s][u] = "fetch" /\ \E page : Process(s, u, page)
    BY <1>10 DEF FetchReturns
  <2> QED
    BY <1>3a, <2>1
<1>11. ASSUME NEW u \in Url, ChildWake(s, u) PROVE Closer(r)
  <2>1. CASE \E page : Process(s, u, page)
    BY <1>11, <1>3a, <2>1 DEF ChildWake
  <2>2. CASE pc' = pc /\ Become(s, u, "permit")
    BY <1>3, <1>11, <2>2 DEF ChildWake, TaskDistance
  <2> QED
    BY <1>11, <2>1, <2>2 DEF ChildWake
<1>12. ASSUME NEW u \in Url, FetchStart(s, u) PROVE Closer(r)
  BY <1>3, <1>12 DEF FetchStart, TaskDistance
<1>13. CASE SearchWake(s)
  <2>1. pc[s] = "queued" /\ child' = child /\ \E phase \in {"done", "collect"} : Goto(s, phase)
    BY <1>13 DEF SearchWake, Serve
  <2> QED
    BY <1>2, <2>1 DEF Distance
<1>14. CASE SummaryWake(s)
  <2>1. pc[s] = "sumqueued" /\ child' = child /\ \E phase \in {"record", "summarize"} : Goto(s, phase)
    BY <1>14 DEF SummaryWake, UseSummary
  <2> QED
    BY <1>2, <2>1 DEF Distance
<1>15. CASE Leave(s) \/ Cancel(s)
  <2>1. s = r => Distance["idle"] < Distance[pc[s]]
    <3>1. s = r => pc[s] \notin Ended \union {"idle"}
      BY <1>15 DEF Leave, Cancel
    <3> QED
      BY <1>1, <3>1 DEF Phase, Ended, Distance
  <2>2. Goto(s, "idle") /\ \A q \in Request \ {s} : child'[q] = child[q]
    BY <1>1, <1>15 DEF Leave, Cancel, Forget
  <2> QED
    BY <1>2, <2>1, <2>2
<1>16. ASSUME NEW c \in Call, Begin(s, c) PROVE Closer(r)
  <2>0. pc[r] # "idle"
    BY DEF Working, Runs, IInv, Typed
  <2>1. s # r /\ child' = child /\ \E phase : Goto(s, phase)
    BY <1>16, <2>0 DEF Begin, Serve
  <2> QED
    BY <1>2, <2>1
<1> QED
  BY <1>4, <1>5, <1>6, <1>7, <1>8, <1>9, <1>10, <1>11, <1>12, <1>13, <1>14, <1>15, <1>16 DEF Moves, Acquires

\* A search and the tasks it leaves behind take finitely many steps, whatever happens to others.
THEOREM Advancing == Spec => SearchesAdvance
<1>1. ASSUME IInv, [Next]_vars, NEW r \in Request, Working(r)
      PROVE  Closer(r)
  <2>1. CASE UNCHANGED vars \/ Expire \/ Tick
    BY <2>1 DEF vars, Expire, Tick, Closer
  <2> QED
    BY <1>1, <2>1, StepNears DEF Next
<1>2. IInv /\ [Next]_vars =>
          [\A r \in Request : Working(r) =>
              \/ Distance[pc'[r]] < Distance[pc[r]]
              \/ /\ pc'[r] = pc[r]
                 /\ \A u \in Url : \/ child'[r][u] = child[r][u]
                                  \/ TaskDistance[child'[r][u]] < TaskDistance[child[r][u]]]_vars
  BY <1>1 DEF Closer
<1> QED
  BY <1>2, Inductive, PTL DEF Spec, SearchesAdvance
=============================================================================
