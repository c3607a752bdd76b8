------------------------------ MODULE Research ------------------------------
(***************************************************************************)
(* ResearchService.execute: collect sources within a budget, make sure the *)
(* model is there, look for a cached answer, synthesize one, record it.    *)
(* Requests run at the same time as each other and as changes of the LLM   *)
(* switch (module Providers); the search is module Search.                 *)
(*                                                                         *)
(* A step runs from one await to the next.  SearXNG, the provider and the  *)
(* model may answer, fail or stay silent; deadlines are steps of their     *)
(* own.  The sources found stand for their URLs and text, the answer for   *)
(* how it came about.                                                      *)
(***************************************************************************)
EXTENDS Naturals

CONSTANTS
    Request,    \* research requests under way at the same time
    Sources,    \* what a search may find
    None

ASSUME SourcesAssumption == None \notin Sources

VARIABLES
    pc,        \* where each request is
    policy,    \* its cache policy
    found,     \* the sources of its search
    answer,    \* how its answer came about
    elapsed,   \* its budget is used up
    rows,      \* rows of search_history written by it
    answers,   \* namespace "research": the answer cached for some sources
    llm        \* the LLM switch

vars == <<pc, policy, found, answer, elapsed, rows, answers, llm>>

Policy == {"use", "bypass", "refresh", "only-if-cached"}

\* "review" is a source review, "model" an answer of the model, "degraded" the notes that stand
\* in for one when synthesis fails, "cached" a cached answer, "empty" a miss of only-if-cached.
Answer == {"none", "review", "model", "degraded", "cached", "empty"}
Waiting == {"search", "health", "models", "lookup", "synthesis", "record"}

\* Types, and nothing is recorded or sent before there is an answer.
TypeOK ==
    /\ pc \in [Request -> Waiting \union {"idle", "answered", "failed"}]
    /\ policy \in [Request -> Policy]
    /\ found \in [Request -> Sources \union {None}]
    /\ answer \in [Request -> Answer]
    /\ elapsed \in [Request -> BOOLEAN]
    /\ rows \in [Request -> {0, 1}]
    /\ answers \in [Sources -> Answer \ {"none"}]
    /\ llm \in BOOLEAN
    /\ \A r \in Request : pc[r] \in {"record", "answered"} => answer[r] # "none"

Init ==
    /\ pc = [r \in Request |-> "idle"]
    /\ policy = [r \in Request |-> "use"]
    /\ found = [r \in Request |-> None]
    /\ answer = [r \in Request |-> "none"]
    /\ elapsed = [r \in Request |-> FALSE]
    /\ rows = [r \in Request |-> 0]
    /\ answers = [s \in Sources |-> "empty"]
    /\ llm \in BOOLEAN

-----------------------------------------------------------------------------
Goto(r, phase) == pc' = [pc EXCEPT ![r] = phase]

\* A source review is made on the spot and only has to be recorded.
Review(r) ==
    /\ Goto(r, "record")
    /\ answer' = [answer EXCEPT ![r] = "review"]

Begin(r, p) ==
    /\ pc[r] = "idle"
    /\ Goto(r, "search")
    /\ policy' = [policy EXCEPT ![r] = p]
    /\ UNCHANGED <<found, answer, elapsed, rows, answers, llm>>

\* The search answers; the switch is read without yielding, and the readiness check begins.
SearchReturns(r) ==
    /\ pc[r] = "search"
    /\ \E s \in Sources : found' = [found EXCEPT ![r] = s]
    /\ \/ ~ llm /\ Review(r)
       \/ /\ llm /\ Goto(r, "health")
          /\ UNCHANGED answer
    /\ UNCHANGED <<policy, elapsed, rows, answers, llm>>

\* SearXNG fails: the caller gets an error.
SearchFails(r) ==
    /\ pc[r] = "search"
    /\ Goto(r, "failed")
    /\ UNCHANGED <<policy, found, answer, elapsed, rows, answers, llm>>

\* The search exceeds its budget and is cancelled: a review of no sources.
SearchTimesOut(r) ==
    /\ pc[r] = "search"
    /\ Review(r)
    /\ elapsed' = [elapsed EXCEPT ![r] = TRUE]
    /\ UNCHANGED <<policy, found, rows, answers, llm>>

\* timeout_ms passes after the search.
BudgetElapses(r) ==
    /\ pc[r] \in Waiting \ {"search"} /\ ~ elapsed[r]
    /\ elapsed' = [elapsed EXCEPT ![r] = TRUE]
    /\ UNCHANGED <<pc, policy, found, answer, rows, answers, llm>>

\* ensure_model_available: the health check of the provider, which catches every error, says
\* whether the model is there ...
HealthReturns(r) ==
    /\ pc[r] = "health"
    /\ \/ Goto(r, "models") /\ UNCHANGED answer
       \/ Review(r)
    /\ UNCHANGED <<policy, found, elapsed, rows, answers, llm>>

\* ... and then the models are listed once more.
ModelsReturn(r) ==
    /\ pc[r] = "models"
    /\ \/ Goto(r, "lookup") /\ UNCHANGED answer
       \/ Review(r)
    /\ UNCHANGED <<policy, found, elapsed, rows, answers, llm>>

\* This time an error of the connection is not caught.
ModelsFail(r) ==
    /\ pc[r] = "models"
    /\ Goto(r, "failed")
    /\ UNCHANGED <<policy, found, answer, elapsed, rows, answers, llm>>

\* Mutant: only the health check has a deadline.
HealthTimesOut(r) ==
    /\ pc[r] = "health"
    /\ Review(r)
    /\ UNCHANGED <<policy, found, elapsed, rows, answers, llm>>

\* Mutant: the deadline passes and no review is made.
ReadinessTimesOutBlank(r) ==
    /\ pc[r] \in {"health", "models"}
    /\ Goto(r, "record")
    /\ UNCHANGED <<policy, found, answer, elapsed, rows, answers, llm>>

\* Both have one deadline.
ReadinessTimesOut(r) ==
    /\ pc[r] \in {"health", "models"}
    /\ Review(r)
    /\ UNCHANGED <<policy, found, elapsed, rows, answers, llm>>

\* The cached answer for these sources, unless it carries an error; otherwise the model
\* is called.
Lookup(r) ==
    LET cached == answers[found[r]]
        hit == policy[r] \in {"use", "only-if-cached"} /\ cached # "empty" /\ cached # "degraded"
    IN  /\ pc[r] = "lookup"
        /\ \/ hit /\ Goto(r, "answered") /\ answer' = [answer EXCEPT ![r] = "cached"]
           \/ /\ ~ hit /\ policy[r] = "only-if-cached"
              /\ Goto(r, "answered") /\ answer' = [answer EXCEPT ![r] = "empty"]
           \/ /\ ~ hit /\ policy[r] # "only-if-cached"
              /\ Goto(r, "synthesis")
              /\ UNCHANGED answer
        /\ UNCHANGED <<policy, found, elapsed, rows, answers, llm>>

\* Mutant: what synthesis gives is cached.
StoreAnything(r, made) ==
    answers' = IF policy[r] \in {"use", "refresh"} THEN [answers EXCEPT ![found[r]] = made] ELSE answers

\* An answer with an error is not cached.
Store(r, made) ==
    answers' = IF policy[r] \in {"use", "refresh"} /\ made = "model"
               THEN [answers EXCEPT ![found[r]] = made] ELSE answers

\* synthesize_research never raises: its calls have deadlines, and when the last one fails the
\* notes so far are the answer.
Synthesized(r) ==
    /\ pc[r] = "synthesis"
    /\ \E made \in {"model", "degraded"} :
           /\ answer' = [answer EXCEPT ![r] = made]
           /\ Store(r, made)
    /\ Goto(r, "record")
    /\ UNCHANGED <<policy, found, elapsed, rows, llm>>

\* Mutant: the row of a review is left out.
RecordedAnswersOnly(r) ==
    /\ pc[r] = "record"
    /\ Goto(r, "answered")
    /\ rows' = IF answer[r] = "review" THEN rows ELSE [rows EXCEPT ![r] = 1]
    /\ UNCHANGED <<policy, found, answer, elapsed, answers, llm>>

\* The history thread is done and the reply is sent ...
Recorded(r) ==
    /\ pc[r] = "record"
    /\ Goto(r, "answered")
    /\ rows' = [rows EXCEPT ![r] = 1]
    /\ UNCHANGED <<policy, found, answer, elapsed, answers, llm>>

\* ... or the row cannot be written.
RecordFails(r) ==
    /\ pc[r] = "record"
    /\ Goto(r, "failed")
    /\ UNCHANGED <<policy, found, answer, elapsed, rows, answers, llm>>

Forget(r) ==
    /\ Goto(r, "idle")
    /\ policy' = [policy EXCEPT ![r] = "use"]
    /\ found' = [found EXCEPT ![r] = None]
    /\ answer' = [answer EXCEPT ![r] = "none"]
    /\ elapsed' = [elapsed EXCEPT ![r] = FALSE]
    /\ rows' = [rows EXCEPT ![r] = 0]
    /\ UNCHANGED <<answers, llm>>

\* The client has its reply, or goes away while it streams.
Leave(r) == pc[r] \in {"answered", "failed"} /\ Forget(r)
Cancel(r) == pc[r] \in Waiting /\ Forget(r)

-----------------------------------------------------------------------------
\* The world around.

Expire(s) ==
    /\ answers[s] # "empty"
    /\ answers' = [answers EXCEPT ![s] = "empty"]
    /\ UNCHANGED <<pc, policy, found, answer, elapsed, rows, llm>>

Switch ==
    /\ llm' = ~ llm
    /\ UNCHANGED <<pc, policy, found, answer, elapsed, rows, answers>>

\* What the deadlines of a request guarantee.
Proceed(r) ==
    \/ SearchTimesOut(r) \/ ReadinessTimesOut(r) \/ Lookup(r) \/ Synthesized(r)
    \/ Recorded(r) \/ RecordFails(r)

Next ==
    \/ \E r \in Request : \E p \in Policy : Begin(r, p)
    \/ \E r \in Request :
           \/ Proceed(r) \/ SearchReturns(r) \/ SearchFails(r) \/ BudgetElapses(r) \/ HealthReturns(r)
           \/ ModelsReturn(r) \/ ModelsFail(r) \/ Leave(r) \/ Cancel(r)
    \/ \E s \in Sources : Expire(s)
    \/ Switch

Spec == Init /\ [][Next]_vars

\* Nothing is assumed of SearXNG and the provider: their silence ends at the deadlines.
FairSpec == Spec /\ \A r \in Request : WF_vars(Proceed(r))

-----------------------------------------------------------------------------
\* Properties.

\* "Failed or fallback synthesis payloads are no longer written to the synthesis cache": what
\* is cached in namespace "research" is an answer of the model.
OnlyAnswersCached == \A s \in Sources : answers[s] \in {"empty", "model"}

\* A reply that was made for the request has its row in the history; a cached reply, and a miss
\* of only-if-cached, have none.
RepliesAreRecorded ==
    \A r \in Request :
        pc[r] = "answered" => (rows[r] = 1 <=> answer[r] \notin {"cached", "empty"})

\* Every request is answered or fails, however silent SearXNG and the provider are.
ResearchEnds == \A r \in Request : pc[r] \in Waiting ~> pc[r] \notin Waiting

\* "If ... the selected provider/model is unavailable, returns a valid ResearchResponse with
\* trace.mode="search-only-fallback" and source-review notes instead of failing the request."
ProviderNeverFails ==
    [][\A r \in Request : pc[r] \in {"health", "models"} => pc'[r] # "failed"]_vars

\* "Treats timeout_ms as the overall research budget and returns fallback source review on
\* deadline": no answer but a review is accepted after the deadline.
DeadlineIsOverall ==
    [][\A r \in Request :
          elapsed[r] /\ answer'[r] # answer[r] => answer'[r] \notin {"model", "degraded", "cached"}]_vars

\* The inductive invariant: a row comes with the reply, and what is recorded was made for it.
Recording ==
    \A r \in Request :
        /\ rows[r] = 1 => pc[r] = "answered"
        /\ pc[r] = "record" => answer[r] \in {"review", "model", "degraded"}
        /\ pc[r] \in {"health", "models", "lookup", "synthesis"} => found[r] # None

IInv == TypeOK /\ OnlyAnswersCached /\ RepliesAreRecorded /\ Recording

\* How far a request is from its reply.
Distance ==
    [search |-> 6, health |-> 5, models |-> 4, lookup |-> 3, synthesis |-> 2, record |-> 1,
     answered |-> 0, failed |-> 0, idle |-> 0]

\* Requests advance: each is brought closer to its reply by every step it takes, and once it has an
\* answer, no deadline and no late reply of a provider replaces it.
ResearchAdvances ==
    [][\A r \in Request : pc[r] \in Waiting =>
          /\ pc'[r] = pc[r] \/ Distance[pc'[r]] < Distance[pc[r]]
          /\ answer[r] # "none" /\ pc'[r] # "idle" => answer'[r] = answer[r]]_vars

\* There is no answer before there is something to record.
Undecided == \A r \in Request : pc[r] \notin {"record", "answered", "failed"} => answer[r] = "none"
=============================================================================
