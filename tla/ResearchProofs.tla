--------------------------- MODULE ResearchProofs ---------------------------
(***************************************************************************)
(* Proofs about research requests, for any set of requests and sources.    *)
(***************************************************************************)
EXTENDS Research, TLAPS

\* The invariant of one request.
Own(r) ==
    /\ pc[r] \in {"record", "answered"} => answer[r] # "none"
    /\ pc[r] = "answered" => (rows[r] = 1 <=> answer[r] \notin {"cached", "empty"})
    /\ rows[r] = 1 => pc[r] = "answered"
    /\ pc[r] = "record" => answer[r] \in {"review", "model", "degraded"}
    /\ pc[r] \in {"health", "models", "lookup", "synthesis"} => found[r] # None

Types ==
    /\ pc \in [Request -> Waiting \union {"idle", "answered", "failed"}]
    /\ policy \in [Request -> Policy]
    /\ found \in [Request -> Sources \union {None}]
    /\ answer \in [Request -> Answer]
    /\ elapsed \in [Request -> BOOLEAN]
    /\ rows \in [Request -> {0, 1}]
    /\ answers \in [Sources -> Answer \ {"none"}]
    /\ llm \in BOOLEAN

LEMMA Parts == IInv <=> Types /\ OnlyAnswersCached /\ \A r \in Request : Own(r)
BY DEF IInv, Types, TypeOK, RepliesAreRecorded, Recording, Own

\* A step that changes the record of r alone keeps what the others have.
LEMMA OthersStay ==
    ASSUME IInv, NEW r \in Request, Types', OnlyAnswersCached', Own(r)',
           \A s \in Request \ {r} : /\ pc'[s] = pc[s] /\ answer'[s] = answer[s]
                                    /\ rows'[s] = rows[s] /\ found'[s] = found[s]
    PROVE  IInv'
<1>1. \A s \in Request \ {r} : Own(s)'
  BY Parts DEF Own
<1>2. (\A s \in Request : Own(s))'
  BY <1>1
<1> QED
  BY <1>2 DEF IInv, Types, TypeOK, RepliesAreRecorded, Recording, Own

LEMMA InitHolds == ASSUME Init PROVE IInv
<1>1. TypeOK
  BY DEF Init, TypeOK, Policy, Answer
<1> QED
  BY <1>1 DEF Init, IInv, OnlyAnswersCached, RepliesAreRecorded, Recording

LEMMA StepHolds == ASSUME IInv, [Next]_vars PROVE IInv'
<1> USE DEF Goto, Review
<1>0. Types /\ OnlyAnswersCached /\ \A r \in Request : Own(r)
  BY Parts
<1>1. CASE UNCHANGED vars
  BY <1>1 DEF vars, IInv, TypeOK, OnlyAnswersCached, RepliesAreRecorded, Recording
<1>2. ASSUME NEW r \in Request, NEW p \in Policy, Begin(r, p) PROVE IInv'
  <2>1. Types'
    BY <1>0, <1>2 DEF Begin, Types, Waiting, Answer, Policy
  <2>2. Own(r)'
    BY <1>0, <1>2 DEF Begin, Types, Own, Waiting
  <2>3. \A s \in Request \ {r} : /\ pc'[s] = pc[s] /\ answer'[s] = answer[s]
                                   /\ rows'[s] = rows[s] /\ found'[s] = found[s]
    BY <1>0, <1>2 DEF Begin, Types
  <2>4. OnlyAnswersCached'
    BY <1>0, <1>2 DEF Begin, OnlyAnswersCached
  <2> QED
    BY <2>1, <2>2, <2>3, <2>4, OthersStay
<1>3. ASSUME NEW r \in Request, SearchReturns(r) PROVE IInv'
  <2>1. Types'
    BY <1>0, <1>3 DEF SearchReturns, Types, Waiting, Answer, Policy
  <2>2. Own(r)'
    BY <1>0, <1>3, SourcesAssumption DEF SearchReturns, Types, Own, Waiting
  <2>3. \A s \in Request \ {r} : /\ pc'[s] = pc[s] /\ answer'[s] = answer[s]
                                   /\ rows'[s] = rows[s] /\ found'[s] = found[s]
    BY <1>0, <1>3 DEF SearchReturns, Types
  <2>4. OnlyAnswersCached'
    BY <1>0, <1>3 DEF SearchReturns, OnlyAnswersCached
  <2> QED
    BY <2>1, <2>2, <2>3, <2>4, OthersStay
<1>4. ASSUME NEW r \in Request, SearchFails(r) PROVE IInv'
  <2>1. Types'
    BY <1>0, <1>4 DEF SearchFails, Types, Waiting, Answer, Policy
  <2>2. Own(r)'
    BY <1>0, <1>4 DEF SearchFails, Types, Own, Waiting
  <2>3. \A s \in Request \ {r} : /\ pc'[s] = pc[s] /\ answer'[s] = answer[s]
                                   /\ rows'[s] = rows[s] /\ found'[s] = found[s]
    BY <1>0, <1>4 DEF SearchFails, Types
  <2>4. OnlyAnswersCached'
    BY <1>0, <1>4 DEF SearchFails, OnlyAnswersCached
  <2> QED
    BY <2>1, <2>2, <2>3, <2>4, OthersStay
<1>5. ASSUME NEW r \in Request, SearchTimesOut(r) PROVE IInv'
  <2>1. Types'
    BY <1>0, <1>5 DEF SearchTimesOut, Types, Waiting, Answer, Policy
  <2>2. Own(r)'
    BY <1>0, <1>5 DEF SearchTimesOut, Types, Own, Waiting
  <2>3. \A s \in Request \ {r} : /\ pc'[s] = pc[s] /\ answer'[s] = answer[s]
                                   /\ rows'[s] = rows[s] /\ found'[s] = found[s]
    BY <1>0, <1>5 DEF SearchTimesOut, Types
  <2>4. OnlyAnswersCached'
    BY <1>0, <1>5 DEF SearchTimesOut, OnlyAnswersCached
  <2> QED
    BY <2>1, <2>2, <2>3, <2>4, OthersStay
<1>6. ASSUME NEW r \in Request, BudgetElapses(r) PROVE IInv'
  <2>1. Types'
    BY <1>0, <1>6 DEF BudgetElapses, Types, Waiting, Answer, Policy
  <2>2. Own(r)'
    BY <1>0, <1>6 DEF BudgetElapses, Types, Own, Waiting
  <2>3. \A s \in Request \ {r} : /\ pc'[s] = pc[s] /\ answer'[s] = answer[s]
                                   /\ rows'[s] = rows[s] /\ found'[s] = found[s]
    BY <1>0, <1>6 DEF BudgetElapses, Types
  <2>4. OnlyAnswersCached'
    BY <1>0, <1>6 DEF BudgetElapses, OnlyAnswersCached
  <2> QED
    BY <2>1, <2>2, <2>3, <2>4, OthersStay
<1>7. ASSUME NEW r \in Request, HealthReturns(r) PROVE IInv'
  <2>1. Types'
    BY <1>0, <1>7 DEF HealthReturns, Types, Waiting, Answer, Policy
  <2>2. Own(r)'
    BY <1>0, <1>7 DEF HealthReturns, Types, Own, Waiting
  <2>3. \A s \in Request \ {r} : /\ pc'[s] = pc[s] /\ answer'[s] = answer[s]
                                   /\ rows'[s] = rows[s] /\ found'[s] = found[s]
    BY <1>0, <1>7 DEF HealthReturns, Types
  <2>4. OnlyAnswersCached'
    BY <1>0, <1>7 DEF HealthReturns, OnlyAnswersCached
  <2> QED
    BY <2>1, <2>2, <2>3, <2>4, OthersStay
<1>8. ASSUME NEW r \in Request, ModelsReturn(r) PROVE IInv'
  <2>1. Types'
    BY <1>0, <1>8 DEF ModelsReturn, Types, Waiting, Answer, Policy
  <2>2. Own(r)'
    BY <1>0, <1>8 DEF ModelsReturn, Types, Own, Waiting
  <2>3. \A s \in Request \ {r} : /\ pc'[s] = pc[s] /\ answer'[s] = answer[s]
                                   /\ rows'[s] = rows[s] /\ found'[s] = found[s]
    BY <1>0, <1>8 DEF ModelsReturn, Types
  <2>4. OnlyAnswersCached'
    BY <1>0, <1>8 DEF ModelsReturn, OnlyAnswersCached
  <2> QED
    BY <2>1, <2>2, <2>3, <2>4, OthersStay
<1>9. ASSUME NEW r \in Request, ModelsFail(r) PROVE IInv'
  <2>1. Types'
    BY <1>0, <1>9 DEF ModelsFail, Types, Waiting, Answer, Policy
  <2>2. Own(r)'
    BY <1>0, <1>9 DEF ModelsFail, Types, Own, Waiting
  <2>3. \A s \in Request \ {r} : /\ pc'[s] = pc[s] /\ answer'[s] = answer[s]
                                   /\ rows'[s] = rows[s] /\ found'[s] = found[s]
    BY <1>0, <1>9 DEF ModelsFail, Types
  <2>4. OnlyAnswersCached'
    BY <1>0, <1>9 DEF ModelsFail, OnlyAnswersCached
  <2> QED
    BY <2>1, <2>2, <2>3, <2>4, OthersStay
<1>10. ASSUME NEW r \in Request, ReadinessTimesOut(r) PROVE IInv'
  <2>1. Types'
    BY <1>0, <1>10 DEF ReadinessTimesOut, Types, Waiting, Answer, Policy
  <2>2. Own(r)'
    BY <1>0, <1>10 DEF ReadinessTimesOut, Types, Own, Waiting
  <2>3. \A s \in Request \ {r} : /\ pc'[s] = pc[s] /\ answer'[s] = answer[s]
                                   /\ rows'[s] = rows[s] /\ found'[s] = found[s]
    BY <1>0, <1>10 DEF ReadinessTimesOut, Types
  <2>4. OnlyAnswersCached'
    BY <1>0, <1>10 DEF ReadinessTimesOut, OnlyAnswersCached
  <2> QED
    BY <2>1, <2>2, <2>3, <2>4, OthersStay
<1>11. ASSUME NEW r \in Request, Lookup(r) PROVE IInv'
  <2>1. Types'
    BY <1>0, <1>11 DEF Lookup, Types, Waiting, Answer, Policy
  <2>2. Own(r)'
    BY <1>0, <1>11 DEF Lookup, Types, Own, Waiting
  <2>3. \A s \in Request \ {r} : /\ pc'[s] = pc[s] /\ answer'[s] = answer[s]
                                   /\ rows'[s] = rows[s] /\ found'[s] = found[s]
    BY <1>0, <1>11 DEF Lookup, Types
  <2>4. OnlyAnswersCached'
    BY <1>0, <1>11 DEF Lookup, OnlyAnswersCached
  <2> QED
    BY <2>1, <2>2, <2>3, <2>4, OthersStay
<1>12. ASSUME NEW r \in Request, Synthesized(r) PROVE IInv'
  <2>1. Types'
    BY <1>0, <1>12 DEF Synthesized, Types, Waiting, Answer, Policy, Store
  <2>2. Own(r)'
    BY <1>0, <1>12 DEF Synthesized, Types, Own, Waiting
  <2>3. \A s \in Request \ {r} : /\ pc'[s] = pc[s] /\ answer'[s] = answer[s]
                                   /\ rows'[s] = rows[s] /\ found'[s] = found[s]
    BY <1>0, <1>12 DEF Synthesized, Types
  <2>4. OnlyAnswersCached'
    BY <1>0, <1>12 DEF Synthesized, OnlyAnswersCached, Store, Types
  <2> QED
    BY <2>1, <2>2, <2>3, <2>4, OthersStay
<1>13. ASSUME NEW r \in Request, Recorded(r) PROVE IInv'
  <2>1. Types'
    BY <1>0, <1>13 DEF Recorded, Types, Waiting, Answer, Policy
  <2>2. Own(r)'
    BY <1>0, <1>13 DEF Recorded, Types, Own, Waiting
  <2>3. \A s \in Request \ {r} : /\ pc'[s] = pc[s] /\ answer'[s] = answer[s]
                                   /\ rows'[s] = rows[s] /\ found'[s] = found[s]
    BY <1>0, <1>13 DEF Recorded, Types
  <2>4. OnlyAnswersCached'
    BY <1>0, <1>13 DEF Recorded, OnlyAnswersCached
  <2> QED
    BY <2>1, <2>2, <2>3, <2>4, OthersStay
<1>14. ASSUME NEW r \in Request, RecordFails(r) PROVE IInv'
  <2>1. Types'
    BY <1>0, <1>14 DEF RecordFails, Types, Waiting, Answer, Policy
  <2>2. Own(r)'
    BY <1>0, <1>14 DEF RecordFails, Types, Own, Waiting
  <2>3. \A s \in Request \ {r} : /\ pc'[s] = pc[s] /\ answer'[s] = answer[s]
                                   /\ rows'[s] = rows[s] /\ found'[s] = found[s]
    BY <1>0, <1>14 DEF RecordFails, Types
  <2>4. OnlyAnswersCached'
    BY <1>0, <1>14 DEF RecordFails, OnlyAnswersCached
  <2> QED
    BY <2>1, <2>2, <2>3, <2>4, OthersStay
<1>15. ASSUME NEW r \in Request, Forget(r) PROVE IInv'
  <2>1. Types'
    BY <1>0, <1>15 DEF Forget, Types, Waiting, Answer, Policy
  <2>2. Own(r)'
    BY <1>0, <1>15 DEF Forget, Types, Own, Waiting
  <2>3. \A s \in Request \ {r} : /\ pc'[s] = pc[s] /\ answer'[s] = answer[s]
                                   /\ rows'[s] = rows[s] /\ found'[s] = found[s]
    BY <1>0, <1>15 DEF Forget, Types
  <2>4. OnlyAnswersCached'
    BY <1>0, <1>15 DEF Forget, OnlyAnswersCached
  <2> QED
    BY <2>1, <2>2, <2>3, <2>4, OthersStay
<1>16. ASSUME NEW s \in Sources, Expire(s) PROVE IInv'
  <2>1. answers' \in [Sources -> Answer \ {"none"}] /\ OnlyAnswersCached'
    BY <1>0, <1>16 DEF Expire, Types, Answer, OnlyAnswersCached
  <2> QED
    BY <1>16, <2>1 DEF Expire, IInv, TypeOK, RepliesAreRecorded, Recording
<1>17. CASE Switch
  BY <1>17 DEF Switch, IInv, TypeOK, OnlyAnswersCached, RepliesAreRecorded, Recording
<1> QED
  BY <1>1, <1>2, <1>3, <1>4, <1>5, <1>6, <1>7, <1>8, <1>9, <1>10, <1>11, <1>12, <1>13, <1>14, <1>15, <1>16, <1>17
      DEF Next, Proceed, Leave, Cancel

(***************************************************************************)
(* The results.                                                            *)
(***************************************************************************)

\* IInv holds in every reachable state.
THEOREM Inductive == Spec => []IInv
<1>1. Init => IInv
  BY InitHolds
<1>2. IInv /\ [Next]_vars => IInv'
  BY StepHolds
<1> QED
  BY <1>1, <1>2, PTL DEF Spec

\* Types, and no reply is recorded or sent without an answer.
THEOREM TypeCorrect == Spec => []TypeOK
<1>1. IInv => TypeOK
  BY DEF IInv
<1> QED
  BY <1>1, Inductive, PTL

\* The cache of research answers never holds a fallback.
THEOREM CleanCache == Spec => []OnlyAnswersCached
<1>1. IInv => OnlyAnswersCached
  BY DEF IInv
<1> QED
  BY <1>1, Inductive, PTL

\* Every reply made for a request is in the history, and no other is.
THEOREM History == Spec => []RepliesAreRecorded
<1>1. IInv => RepliesAreRecorded
  BY DEF IInv
<1> QED
  BY <1>1, Inductive, PTL

(***************************************************************************)
(* Requests advance.                                                       *)
(***************************************************************************)

LEMMA StepAdvances ==
    ASSUME IInv, Undecided, [Next]_vars, NEW r \in Request
    PROVE  /\ pc[r] \in Waiting =>
                 /\ pc'[r] = pc[r] \/ Distance[pc'[r]] < Distance[pc[r]]
                 /\ answer[r] # "none" /\ pc'[r] # "idle" => answer'[r] = answer[r]
           /\ pc'[r] \notin {"record", "answered", "failed"} => answer'[r] = "none"
<1>0. pc \in [Request -> Waiting \union {"idle", "answered", "failed"}] /\ answer \in [Request -> Answer]
  BY DEF IInv, TypeOK
<1>1. pc[r] \notin {"record", "answered", "failed"} => answer[r] = "none"
  BY DEF Undecided
<1>2. CASE pc'[r] = pc[r] /\ answer'[r] = answer[r]
  BY <1>1, <1>2
<1>3. ASSUME NEW s \in Request, s # r,
             \/ \E p \in Policy : Begin(s, p)
             \/ Proceed(s) \/ SearchReturns(s) \/ SearchFails(s) \/ BudgetElapses(s) \/ HealthReturns(s)
             \/ ModelsReturn(s) \/ ModelsFail(s) \/ Leave(s) \/ Cancel(s)
      PROVE  pc'[r] = pc[r] /\ answer'[r] = answer[r]
  BY <1>0, <1>3 DEF Begin, Proceed, SearchTimesOut, ReadinessTimesOut, Lookup, Synthesized, Recorded,
                    RecordFails, SearchReturns, SearchFails, BudgetElapses, HealthReturns, ModelsReturn,
                    ModelsFail, Leave, Cancel, Forget, Goto, Review
<1>4. CASE SearchReturns(r) \/ SearchFails(r) \/ SearchTimesOut(r)
  BY <1>0, <1>1, <1>4 DEF SearchReturns, SearchFails, SearchTimesOut, Goto, Review, Waiting, Distance
<1>5. CASE HealthReturns(r) \/ ModelsReturn(r) \/ ModelsFail(r) \/ ReadinessTimesOut(r)
  BY <1>0, <1>1, <1>5 DEF HealthReturns, ModelsReturn, ModelsFail, ReadinessTimesOut, Goto, Review, Waiting, Distance
<1>6. CASE Lookup(r) \/ Synthesized(r)
  BY <1>0, <1>1, <1>6 DEF Lookup, Synthesized, Goto, Waiting, Distance
<1>7. CASE Recorded(r) \/ RecordFails(r)
  BY <1>0, <1>7 DEF Recorded, RecordFails, Goto, Waiting, Distance
<1>8. CASE Cancel(r) \/ Leave(r)
  BY <1>0, <1>8 DEF Cancel, Leave, Forget, Goto, Waiting, Distance
<1>9. CASE \E p \in Policy : Begin(r, p)
  BY <1>0, <1>1, <1>9 DEF Begin, Goto, Waiting
<1>10. BudgetElapses(r) => pc'[r] = pc[r] /\ answer'[r] = answer[r]
  BY DEF BudgetElapses
<1>11. (\E s \in Sources : Expire(s)) \/ Switch \/ UNCHANGED vars => pc'[r] = pc[r] /\ answer'[r] = answer[r]
  BY DEF Expire, Switch, vars
<1> QED
  BY <1>2, <1>3, <1>4, <1>5, <1>6, <1>7, <1>8, <1>9, <1>10, <1>11 DEF Next, Proceed

\* Nothing has an answer before it has something to record: Begin starts from what Forget or Init left.
LEMMA NothingDecided == Spec => []Undecided
<1>1. Init => Undecided
  BY DEF Init, Undecided
<1>2. IInv /\ Undecided /\ [Next]_vars => Undecided'
  BY StepAdvances DEF Undecided
<1> QED
  BY <1>1, <1>2, Inductive, PTL DEF Spec

\* Every step of a request brings it closer to its reply and an answer, once there, stands, however
\* deadlines, replies of the provider and cancellations are interleaved.
THEOREM Advancing == Spec => ResearchAdvances
<1>1. IInv /\ Undecided /\ [Next]_vars =>
          [\A r \in Request : pc[r] \in Waiting =>
              /\ pc'[r] = pc[r] \/ Distance[pc'[r]] < Distance[pc[r]]
              /\ answer[r] # "none" /\ pc'[r] # "idle" => answer'[r] = answer[r]]_vars
  BY StepAdvances
<1> QED
  BY <1>1, Inductive, NothingDecided, PTL DEF Spec, ResearchAdvances
=============================================================================
