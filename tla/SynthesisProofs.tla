--------------------------- MODULE SynthesisProofs ---------------------------
(***************************************************************************)
(* Proofs about synthesis, for any number of documents and any sizes of    *)
(* batches and budgets: its invariants, that it keeps its contract, and    *)
(* that its calls are finite.                                              *)
(***************************************************************************)
EXTENDS Synthesis, TLAPS

-----------------------------------------------------------------------------
\* Texts.

LEMMA FittedIsText == ASSUME NEW t \in Text, NEW f \in Fitted(t) PROVE f \in Text
BY DEF Fitted, Text

\* Truncation never loses anything without a mark.
LEMMA FittedKeeps ==
    ASSUME NEW t, NEW f \in Fitted(t), NEW d, d \subseteq t \/ Mark \in t
    PROVE  d \subseteq f \/ Mark \in f
BY DEF Fitted

LEMMA CompletionIsText == ASSUME NEW p, NEW c \in Completions(p) PROVE c \in Text
BY DEF Completions, Text

LEMMA NotesAreText ==
    ASSUME NEW d, d \in Text
    PROVE  Notes(d) \in Text /\ d \subseteq Notes(d)
BY DEF Notes, Text

LEMMA DocumentsAreText == ASSUME TypeOK, NEW d \in SUBSET (1 .. count) PROVE d \in Text
BY SizeAssumption DEF TypeOK, Text, Source

-----------------------------------------------------------------------------
\* Batches.

LEMMA SizeIsPositive == ChunkSize \in Nat \ {0}
BY SizeAssumption DEF ChunkSize

\* A batch continues where the one before it stopped and ends where the next one begins.
LEMMA ChunkContinues ==
    ASSUME TypeOK, next < count, handled = 1 .. next, NEW reached, reached = next + ChunkSize
    PROVE  /\ Chunk # {} /\ Chunk \subseteq 1 .. count /\ Chunk \intersect handled = {}
           /\ reached < count => reached \in 0 .. count /\ handled \union Chunk = 1 .. reached
           /\ reached >= count => handled \union Chunk = 1 .. count
<1>1. count \in Nat /\ next \in Nat /\ ChunkSize \in Nat /\ ChunkSize > 0
  BY SizeIsPositive, SizeAssumption DEF TypeOK
<1>2. next + 1 \in Chunk
  BY <1>1 DEF Chunk
<1>3. Chunk \subseteq 1 .. count /\ Chunk \intersect handled = {}
  BY <1>1 DEF Chunk
<1>4. ASSUME reached < count PROVE reached \in 0 .. count /\ handled \union Chunk = 1 .. reached
  BY <1>1, <1>4 DEF Chunk
<1>5. ASSUME reached >= count PROVE handled \union Chunk = 1 .. count
  BY <1>1, <1>5 DEF Chunk
<1> QED
  BY <1>2, <1>3, <1>4, <1>5

-----------------------------------------------------------------------------
\* The inductive invariant.

LEMMA InitHolds == ASSUME Init PROVE IInv
<1>1. {} \in Text
  BY DEF Text
<1>2. count \in 0 .. MaxDocuments /\ next \in 0 .. count /\ batches \in Nat
  BY SizeAssumption DEF Init
<1>3. TypeOK
  BY <1>1, <1>2 DEF Init, TypeOK
<1>4. NotesKept /\ Staging
  BY SizeAssumption DEF Init, NotesKept, Staging
<1> QED
  BY <1>3, <1>4 DEF IInv

\* What a batch that ends with a given synopsis does.
LEMMA AdvanceHolds ==
    ASSUME IInv, at = "batch", NEW synopsis \in Text, Advance(synopsis),
           failed' = failed \/ (failed' = failed \union Chunk /\ Chunk \subseteq synopsis)
    PROVE  IInv'
<1> DEFINE notes == staged \union synopsis
           reached == next + ChunkSize
<1>1. next < count /\ handled = 1 .. next /\ (failed \subseteq staged \/ Mark \in staged)
  BY DEF IInv, Staging
<1>2. TypeOK
  BY DEF IInv
<1>3. /\ count \in Nat /\ next \in Nat /\ reached \in Nat /\ batches \in Nat
      /\ Chunk \subseteq 1 .. count
      /\ reached < count => reached \in 0 .. count /\ handled \union Chunk = 1 .. reached
      /\ reached >= count => handled \union Chunk = 1 .. count
  BY <1>1, <1>2, ChunkContinues, SizeIsPositive, SizeAssumption DEF TypeOK
<1>4. notes \in Text /\ (failed' \subseteq notes \/ Mark \in notes)
  BY <1>1, <1>2 DEF TypeOK, Text
<1>5. /\ handled' = handled \union Chunk
      /\ next' = IF reached < count THEN reached ELSE count
      /\ batches' = batches + 1 /\ budget' = MaxChat
      /\ kind' = kind /\ count' = count /\ reply' = reply /\ answer' = answer /\ merged' = merged
  BY DEF Advance
<1>6. \/ /\ reached < count
         /\ at' = "batch" /\ staged' = notes /\ evidence' = evidence
      \/ /\ reached >= count
         /\ at' = "refine" /\ staged' = notes /\ evidence' \in Fitted(notes)
      \/ /\ reached >= count
         /\ at' = "consolidate" /\ staged' \in Fitted(notes) /\ evidence' = evidence
  BY DEF Advance
<1>7. staged' \in Text /\ evidence' \in Text
  BY <1>2, <1>4, <1>6, FittedIsText DEF TypeOK
<1>8. failed' \subseteq handled' /\ handled' \subseteq 1 .. count
  BY <1>2, <1>3, <1>5 DEF TypeOK
<1>9. reply = "none"
  BY <1>2 DEF TypeOK
<1>10. TypeOK'
  <2> HIDE DEF notes, reached
  <2>1. next' \in 0 .. count
    BY <1>3, <1>5
  <2>2. at' \in Calling /\ at' # "done"
    BY <1>6 DEF Calling
  <2> QED
    BY <2>1, <2>2, <1>2, <1>3, <1>5, <1>7, <1>8, <1>9 DEF TypeOK
<1>11. NotesKept'
  BY <1>5, <1>6, <1>9 DEF NotesKept
<1>12. /\ at' \in {"batch", "consolidate"} => failed' \subseteq staged' \/ Mark \in staged'
       /\ at' = "refine" => failed' \subseteq evidence' \/ Mark \in evidence'
  <2> HIDE DEF notes, reached
  <2>1. CASE at' = "batch"
    BY <2>1, <1>4, <1>6
  <2>2. CASE at' = "refine"
    <3>1. evidence' \in Fitted(notes)
      BY <2>2, <1>6
    <3> QED
      BY <3>1, <2>2, <1>4, FittedKeeps
  <2>3. CASE at' = "consolidate"
    <3>1. staged' \in Fitted(notes)
      BY <2>3, <1>6
    <3> QED
      BY <3>1, <2>3, <1>4, FittedKeeps
  <2> QED
    BY <2>1, <2>2, <2>3, <1>6
<1>13. /\ at' = "batch" => next' < count' /\ handled' = 1 .. next'
       /\ at' \in {"consolidate", "refine"} => handled' = 1 .. count'
  <2> HIDE DEF notes, reached
  <2> QED
    BY <1>3, <1>5, <1>6
<1>14. Staging'
  <2> HIDE DEF notes, reached
  <2> QED
    BY <1>6, <1>12, <1>13 DEF Staging
<1> QED
  BY <1>10, <1>11, <1>14 DEF IInv

\* A text that becomes the evidence brief.
LEMMA BriefHolds ==
    ASSUME IInv, at = "consolidate", NEW text \in Text, Brief(text),
           \/ merged' = TRUE
           \/ merged' = merged /\ (failed \subseteq text \/ Mark \in text)
    PROVE  IInv'
<1>1. /\ evidence' \in Fitted(text) /\ at' = "refine" /\ budget' = MaxChat
      /\ UNCHANGED <<kind, count, next, batches, staged, failed, reply, answer, handled>>
  BY DEF Brief
<1>2. evidence' \in Text
  BY <1>1, FittedIsText
<1>3. merged' \/ failed \subseteq evidence' \/ Mark \in evidence'
  BY <1>1, FittedKeeps
<1>4. TypeOK'
  BY <1>1, <1>2 DEF IInv, TypeOK, Calling
<1>5. NotesKept' /\ Staging'
  BY <1>1, <1>3 DEF IInv, TypeOK, NotesKept, Staging
<1> QED
  BY <1>4, <1>5 DEF IInv

LEMMA ReplyHolds ==
    ASSUME IInv, at \in Calling \union {"verify"}, NEW made \in {"model", "degraded"}, NEW text \in Text,
           Reply(made, text),
           made = "degraded" => merged \/ failed \subseteq text \/ Mark \in text
    PROVE  IInv'
<1>1. at' = "done" /\ reply' = made /\ answer' = text
  BY DEF Reply
<1>2. UNCHANGED <<kind, count, budget, material>>
  BY DEF Reply
<1>3. TypeOK'
  BY <1>1, <1>2 DEF IInv, TypeOK, material
<1>4. NotesKept' /\ Staging'
  BY <1>1, <1>2 DEF IInv, NotesKept, Staging, material
<1> QED
  BY <1>3, <1>4 DEF IInv

LEMMA ClearHolds == ASSUME Clear PROVE IInv'
<1>1. {} \in Text
  BY DEF Text
<1>2. count' \in 0 .. MaxDocuments /\ next' \in 0 .. count' /\ batches' \in Nat
  BY SizeAssumption DEF Clear
<1>3. TypeOK'
  BY <1>1, <1>2 DEF Clear, TypeOK
<1>4. NotesKept' /\ Staging'
  BY SizeAssumption DEF Clear, NotesKept, Staging
<1> QED
  BY <1>3, <1>4 DEF IInv

LEMMA StepHolds == ASSUME IInv, [Next]_vars PROVE IInv'
<1>0. TypeOK /\ NotesKept /\ Staging
  BY DEF IInv
<1>1. CASE UNCHANGED vars
  BY <1>0, <1>1 DEF IInv, vars, material, TypeOK, NotesKept, Staging, Chunk, ChunkSize, Compact
<1>2. ASSUME NEW k \in {"research", "summary", "title"}, NEW n \in 0 .. MaxDocuments, Begin(k, n)
      PROVE  IInv'
  <2>1. TypeOK'
    BY <1>0, <1>2, SizeAssumption DEF Begin, TypeOK, Staging, material, Calling
  <2>2. /\ at = "idle" /\ at' \in {"verify", "summary", "refine", "batch"} /\ count' = n
        /\ at' = "batch" => n # 0
        /\ at' # "batch" => n = 0
        /\ UNCHANGED <<reply, answer, material>>
    BY <1>2 DEF Begin
  <2>3. next = 0 /\ handled = {} /\ failed = {} /\ reply = "none"
    BY <1>0, <2>2 DEF Staging, TypeOK
  <2>4. NotesKept'
    BY <2>2, <2>3 DEF NotesKept, material
  <2>5. Staging'
    BY <2>2, <2>3, SizeAssumption DEF Staging, material
  <2> QED
    BY <2>1, <2>4, <2>5 DEF IInv
<1>3. ASSUME NEW k \in {"research", "summary", "title"}, NEW n \in 0 .. MaxDocuments, Refuse(k, n)
      PROVE  IInv'
  <2>1. Notes(1 .. n) \in Text
    BY SizeAssumption DEF Notes, Text, Source
  <2>2. TypeOK'
    BY <1>0, <1>3, <2>1, SizeAssumption DEF Refuse, TypeOK, Staging, material
  <2>3. NotesKept' /\ Staging'
    BY <1>0, <1>3 DEF Refuse, TypeOK, NotesKept, Staging, material
  <2> QED
    BY <2>2, <2>3 DEF IInv
<1>4. CASE Verified
  BY <1>0, <1>4 DEF IInv, Verified, TypeOK, NotesKept, Staging, material, Calling
<1>5. CASE NotVerified
  <2>1. {Words} \in Text /\ failed \subseteq {Words}
    BY <1>0, <1>5 DEF NotVerified, Staging, Text
  <2> QED
    BY <1>5, <2>1, ReplyHolds DEF NotVerified
<1>6. CASE Retry
  BY <1>0, <1>6 DEF IInv, Retry, TypeOK, NotesKept, Staging, material, Calling
<1>7. CASE BatchReviewed
  <2>1. PICK synopsis \in Completions(Notes(Chunk)) \ {{}} :
               \E cut \in Fitted(synopsis) : Advance(cut)
    BY <1>7 DEF BatchReviewed
  <2>2. PICK cut \in Fitted(synopsis) : Advance(cut)
    BY <2>1
  <2>3. cut \in Text
    BY CompletionIsText, FittedIsText
  <2>4. at = "batch" /\ failed' = failed
    BY <1>7 DEF BatchReviewed
  <2>5. failed' = failed \/ (failed' = failed \union Chunk /\ Chunk \subseteq cut)
    BY <2>4
  <2>6. Advance(cut)
    BY <2>2
  <2> HIDE DEF Advance
  <2> QED
    BY <2>3, <2>4, <2>5, <2>6, AdvanceHolds
<1>8. CASE BatchFails
  <2>1. Chunk \in SUBSET (1 .. count)
    BY DEF Chunk
  <2>2. Notes(Chunk) \in Text /\ Chunk \subseteq Notes(Chunk)
    BY <1>0, <2>1, DocumentsAreText, NotesAreText
  <2> QED
    BY <1>8, <2>2, AdvanceHolds DEF BatchFails
<1>9. CASE Consolidated
  <2>1. PICK text \in Completions(staged) \ {{}} : Brief(text)
    BY <1>9 DEF Consolidated
  <2>2. text \in Text
    BY CompletionIsText
  <2> QED
    BY <1>9, <2>1, <2>2, BriefHolds DEF Consolidated
<1>10. CASE ConsolidationFails
  <2>1. staged \in Text /\ (failed \subseteq staged \/ Mark \in staged)
    BY <1>0, <1>10 DEF ConsolidationFails, TypeOK, Staging
  <2> QED
    BY <1>10, <2>1, BriefHolds DEF ConsolidationFails
<1>11. CASE Refined
  BY <1>0, <1>11 DEF IInv, Refined, TypeOK, NotesKept, Staging, material, Calling
<1>12. CASE Answered
  <2>1. Reply("model", {Words})
    BY <1>12 DEF Answered
  <2>2. {Words} \in Text
    BY DEF Text
  <2> QED
    BY <1>12, <2>1, <2>2, ReplyHolds DEF Answered, Calling
<1>13. CASE FinalFails
  <2> DEFINE text == IF evidence # {} THEN Notes(evidence) ELSE Notes(1 .. count)
  <2>1. /\ Notes(evidence) \in Text /\ evidence \subseteq Notes(evidence)
        /\ Notes(1 .. count) \in Text /\ 1 .. count \subseteq Notes(1 .. count)
    BY <1>0, DocumentsAreText, NotesAreText DEF TypeOK
  <2>2. merged \/ failed \subseteq evidence \/ Mark \in evidence
    BY <1>0, <1>13 DEF FinalFails, Staging
  <2>3. failed \subseteq 1 .. count
    BY <1>0 DEF TypeOK
  <2>4. text \in Text /\ (merged \/ failed \subseteq text \/ Mark \in text)
    BY <2>1, <2>2, <2>3
  <2>5. Reply("degraded", text) /\ at \in Calling
    BY <1>13 DEF FinalFails, Calling
  <2> HIDE DEF text
  <2> QED
    BY <2>4, <2>5, ReplyHolds
<1>14. CASE SingleCallEnds
  <2>1. {Words} \in Text /\ failed \subseteq {Words}
    BY <1>0, <1>14 DEF SingleCallEnds, Staging, Text
  <2>2. at \in Calling /\ \E made \in {"model", "degraded"} : Reply(made, {Words})
    BY <1>14 DEF SingleCallEnds, Calling
  <2> QED
    BY <2>1, <2>2, ReplyHolds
<1>15. CASE Return \/ Cancel
  BY <1>15, ClearHolds DEF Return, Cancel
<1> QED
  BY <1>1, <1>2, <1>3, <1>4, <1>5, <1>6, <1>7, <1>8, <1>9, <1>10, <1>11, <1>12, <1>13, <1>14, <1>15
     DEF Next, Proceed

LEMMA Inductive == Spec => []IInv
BY InitHolds, StepHolds, PTL DEF Spec

\* Types, and a reply is there exactly when the call is done.
THEOREM TypeCorrect == Spec => []TypeOK
<1>1. IInv => TypeOK
  BY DEF IInv
<1> QED
  BY <1>1, Inductive, PTL

\* Every document is in exactly one batch before the answer is begun, for any number of documents
\* and any sizes of batches.
THEOREM ReviewedOnce == Spec => []EachReviewedOnce
<1>1. IInv => EachReviewedOnce
  BY ChunkContinues DEF IInv, Staging, EachReviewedOnce
<1> QED
  BY <1>1, Inductive, PTL

\* The notes of failed batches reach the evidence and a degraded answer.
THEOREM NotesReachAnswer == Spec => []NotesKept
<1>1. IInv => NotesKept
  BY DEF IInv
<1> QED
  BY <1>1, Inductive, PTL
-----------------------------------------------------------------------------
\* The contract.

\* The state of the contract, as the instance maps it.
State == CASE at = "idle" -> "idle" [] at = "done" -> reply [] OTHER -> "working"
Left == (1 .. count) \ handled

LEMMA ContractInit == ASSUME Init PROVE Contract!Init
BY DEF Init, Contract!Init

LEMMA Withdrawn == ASSUME IInv, Return \/ Cancel PROVE Contract!Next
<1>1. Clear /\ at # "idle"
  BY DEF Return, Cancel, Calling
<1>2. State # "idle" /\ State' = "idle" /\ (1 .. count)' = {} /\ Left' = {} /\ failed' = {}
      /\ merged' = FALSE /\ answer' = {}
  BY <1>1 DEF Clear, State, Left, IInv, TypeOK
<1>3. Contract!Withdraw
  BY <1>2 DEF Contract!Withdraw, State, Left
<1> QED
  BY <1>3 DEF Contract!Next

\* A batch is one review of the documents in it.
LEMMA AdvanceReviews ==
    ASSUME IInv, at = "batch", NEW synopsis, Advance(synopsis),
           failed' = failed \/ failed' = failed \union Chunk
    PROVE  Contract!Next
<1>1. TypeOK /\ next < count /\ handled = 1 .. next
  BY DEF IInv, Staging
<1>2. Chunk # {} /\ Chunk \subseteq 1 .. count /\ Chunk \intersect handled = {}
  BY <1>1, ChunkContinues
<1>3. handled' = handled \union Chunk /\ UNCHANGED <<count, reply, answer, merged>>
      /\ at' \in {"batch", "refine", "consolidate"}
  BY DEF Advance
<1>4. State = "working" /\ State' = State /\ Chunk \subseteq Left /\ Left' = Left \ Chunk
  BY <1>1, <1>2, <1>3 DEF State, Left
<1>5. Chunk \in SUBSET Source
  BY <1>1, <1>2, SizeAssumption DEF TypeOK, Source
<1>6. Contract!Review(Chunk)
  BY <1>2, <1>3, <1>4 DEF Contract!Review, State, Left
<1> QED
  BY <1>5, <1>6 DEF Contract!Next

\* A reply is one of the contract once every document was reviewed.
LEMMA ReplyKeeps ==
    ASSUME IInv, at \in Calling \union {"verify"}, handled = 1 .. count,
           NEW made \in {"model", "degraded"}, NEW text \in Text, Reply(made, text),
           made = "degraded" => merged \/ failed \subseteq text \/ Mark \in text
    PROVE  Contract!Next
<1>1. /\ at' = "done" /\ reply' = made /\ answer' = text
      /\ UNCHANGED <<count, handled, failed, merged>>
  BY DEF Reply, material
<1>2. State = "working" /\ Left = {} /\ State' = made
  BY <1>1 DEF State, Left, Calling
<1>3. answer' \in Contract!Text
  BY <1>1 DEF Contract!Text, Text
<1>4. CASE made = "model"
  <2>1. Contract!Answer
    BY <1>1, <1>2, <1>3, <1>4 DEF Contract!Answer, State, Left
  <2> QED
    BY <2>1 DEF Contract!Next
<1>5. CASE made = "degraded"
  <2>1. Contract!Degrade
    BY <1>1, <1>2, <1>3, <1>5 DEF Contract!Degrade, State, Left
  <2> QED
    BY <2>1 DEF Contract!Next
<1> QED
  BY <1>4, <1>5

\* Steps the contract does not see.
LEMMA Unseen ==
    ASSUME at \in Calling \union {"verify"}, at' \in Calling,
           UNCHANGED <<count, reply, answer, handled, failed, merged>>
    PROVE  UNCHANGED Contract!vars
BY DEF Contract!vars, Calling

LEMMA StepKeeps == ASSUME IInv, [Next]_vars PROVE [Contract!Next]_(Contract!vars)
<1>0. TypeOK /\ NotesKept /\ Staging
  BY DEF IInv
<1>1. CASE UNCHANGED vars
  BY <1>1 DEF vars, material, Contract!vars
<1>2. ASSUME NEW k \in {"research", "summary", "title"}, NEW n \in 0 .. MaxDocuments, Begin(k, n)
      PROVE  Contract!Next
  <2>1. /\ at = "idle" /\ at' \notin {"idle", "done"} /\ count' = n
        /\ UNCHANGED <<failed, handled, merged, answer>>
    BY <1>2 DEF Begin, material
  <2>2. handled = {}
    BY <1>0, <2>1 DEF Staging
  <2>3. Contract!Ask(1 .. n)
    BY <2>1, <2>2 DEF Contract!Ask
  <2>4. 1 .. n \in SUBSET Source
    BY SizeAssumption DEF Source
  <2> QED
    BY <2>3, <2>4 DEF Contract!Next
<1>3. ASSUME NEW k \in {"research", "summary", "title"}, NEW n \in 0 .. MaxDocuments, Refuse(k, n)
      PROVE  Contract!Next
  <2>1. /\ at = "idle" /\ at' = "done" /\ reply' = "degraded" /\ count' = n
        /\ answer' = Notes(1 .. n) /\ UNCHANGED <<failed, handled, merged>>
    BY <1>3 DEF Refuse, material
  <2>2. handled = {}
    BY <1>0, <2>1 DEF Staging
  <2>3. 1 .. n \in SUBSET Source
    BY SizeAssumption DEF Source
  <2>4. answer' \in Contract!Text /\ 1 .. n \subseteq answer'
    BY <2>1, <2>3 DEF Contract!Text, Notes
  <2>5. Contract!Refuse(1 .. n)
    BY <2>1, <2>2, <2>4 DEF Contract!Refuse
  <2> QED
    BY <2>3, <2>5 DEF Contract!Next
<1>4. CASE Verified \/ Retry \/ Refined
  <2>1. /\ at \in Calling \union {"verify"} /\ at' \in Calling
        /\ UNCHANGED <<count, reply, answer, handled, failed, merged>>
    BY <1>4 DEF Verified, Retry, Refined, material, Calling
  <2> QED
    BY <2>1, Unseen
<1>5. CASE NotVerified
  <2>1. {Words} \in Text /\ failed \subseteq {Words} /\ handled = 1 .. count
    BY <1>0, <1>5, SizeAssumption DEF NotVerified, Staging, Text
  <2> QED
    BY <1>5, <2>1, ReplyKeeps DEF NotVerified
<1>6. CASE BatchReviewed
  <2>1. PICK synopsis \in Completions(Notes(Chunk)) \ {{}} :
               \E cut \in Fitted(synopsis) : Advance(cut)
    BY <1>6 DEF BatchReviewed
  <2>2. PICK cut \in Fitted(synopsis) : Advance(cut)
    BY <2>1
  <2> QED
    BY <1>6, <2>2, AdvanceReviews DEF BatchReviewed
<1>7. CASE BatchFails
  BY <1>7, AdvanceReviews DEF BatchFails
<1>8. CASE Consolidated
  <2>1. PICK text \in Completions(staged) \ {{}} : Brief(text)
    BY <1>8 DEF Consolidated
  <2>2. /\ at = "consolidate" /\ at' = "refine" /\ merged' = TRUE
        /\ UNCHANGED <<count, reply, answer, handled, failed>>
    BY <1>8, <2>1 DEF Brief, Consolidated
  <2>3. handled = 1 .. count
    BY <1>0, <2>2 DEF Staging
  <2>4. Contract!Merge
    BY <2>2, <2>3 DEF Contract!Merge
  <2> QED
    BY <2>4 DEF Contract!Next
<1>9. CASE ConsolidationFails
  <2>1. /\ at \in Calling /\ at' \in Calling
        /\ UNCHANGED <<count, reply, answer, handled, failed, merged>>
    BY <1>9 DEF ConsolidationFails, Brief, Calling
  <2> QED
    BY <2>1, Unseen
<1>10. CASE Answered
  <2>1. Reply("model", {Words})
    BY <1>10 DEF Answered
  <2>2. {Words} \in Text
    BY DEF Text
  <2>3. handled = 1 .. count /\ at \in Calling
    BY <1>0, <1>10 DEF Answered, Staging, Calling
  <2> QED
    BY <2>1, <2>2, <2>3, ReplyKeeps
<1>11. CASE FinalFails
  <2> DEFINE text == IF evidence # {} THEN Notes(evidence) ELSE Notes(1 .. count)
  <2>1. /\ Notes(evidence) \in Text /\ evidence \subseteq Notes(evidence)
        /\ Notes(1 .. count) \in Text /\ 1 .. count \subseteq Notes(1 .. count)
    BY <1>0, DocumentsAreText, NotesAreText DEF TypeOK
  <2>2. (merged \/ failed \subseteq evidence \/ Mark \in evidence) /\ handled = 1 .. count
    BY <1>0, <1>11 DEF FinalFails, Staging
  <2>3. failed \subseteq 1 .. count
    BY <1>0 DEF TypeOK
  <2>4. text \in Text /\ (merged \/ failed \subseteq text \/ Mark \in text)
    BY <2>1, <2>2, <2>3
  <2>5. Reply("degraded", text) /\ at \in Calling
    BY <1>11 DEF FinalFails, Calling
  <2> HIDE DEF text
  <2> QED
    BY <2>2, <2>4, <2>5, ReplyKeeps
<1>12. CASE SingleCallEnds
  <2>0. {Words} \in Text
    BY DEF Text
  <2>3. at \in {"summary", "title"}
    BY <1>12 DEF SingleCallEnds
  <2>4. count = 0 /\ failed = {} /\ handled = {}
    BY <1>0, <2>3 DEF Staging
  <2>1. {Words} \in Text /\ failed \subseteq {Words} /\ handled = 1 .. count
    BY <2>0, <2>4
  <2>2. at \in Calling /\ \E made \in {"model", "degraded"} : Reply(made, {Words})
    BY <1>12 DEF SingleCallEnds, Calling
  <2> QED
    BY <2>1, <2>2, ReplyKeeps
<1>13. CASE Return \/ Cancel
  BY <1>13, Withdrawn
<1> QED
  BY <1>1, <1>2, <1>3, <1>4, <1>5, <1>6, <1>7, <1>8, <1>9, <1>10, <1>11, <1>12, <1>13
     DEF Next, Proceed

\* The service implements its contract for any number of documents and any sizes.
THEOREM Implements == Spec => KeepsContract
BY Inductive, ContractInit, StepKeeps, PTL DEF Spec, KeepsContract, Contract!Spec

-----------------------------------------------------------------------------
\* Every call is finite.

LEMMA StepCounts ==
    ASSUME IInv, [Next]_vars, Proceed
    PROVE  Ahead' < Ahead \/ (Ahead' = Ahead /\ budget' < budget)
<1>0. TypeOK /\ Staging
  BY DEF IInv
<1>1. CASE Retry
  <2>1. UNCHANGED <<at, count, next>> /\ budget' < budget
    BY <1>1 DEF Retry, material
  <2> QED
    BY <2>1 DEF Ahead
<1>2. ASSUME NEW synopsis, at = "batch", Advance(synopsis) PROVE Ahead' < Ahead
  <2>1. /\ count \in Nat /\ next \in Nat /\ next < count /\ ChunkSize \in Nat /\ ChunkSize > 0
        /\ count' = count
    BY <1>0, <1>2, SizeIsPositive, SizeAssumption DEF TypeOK, Staging, Advance
  <2>2. Ahead = count - next + 3
    BY <1>2 DEF Ahead
  <2>3. CASE next + ChunkSize < count
    <3>1. at' = "batch" /\ next' = next + ChunkSize
      BY <1>2, <2>1, <2>3 DEF Advance
    <3>2. Ahead' = count' - next' + 3
      BY <3>1 DEF Ahead
    <3> QED
      BY <2>1, <2>2, <3>1, <3>2
  <2>4. CASE ~ (next + ChunkSize < count)
    <3>1. at' \in {"refine", "consolidate"}
      BY <1>2, <2>1, <2>4 DEF Advance
    <3>2. Ahead' \in {2, 3}
      BY <3>1 DEF Ahead
    <3> QED
      BY <2>1, <2>2, <3>2
  <2> QED
    BY <2>3, <2>4
<1>3. CASE BatchReviewed \/ BatchFails
  BY <1>2, <1>3 DEF BatchReviewed, BatchFails
<1>4. CASE Consolidated \/ ConsolidationFails
  BY <1>4 DEF Consolidated, ConsolidationFails, Brief, Ahead
<1>5. CASE Refined \/ Verified
  BY <1>5 DEF Refined, Verified, Ahead
<1>6. CASE NotVerified \/ Answered \/ FinalFails \/ SingleCallEnds
  BY <1>6 DEF NotVerified, Answered, FinalFails, SingleCallEnds, Reply, Ahead
<1> QED
  BY <1>1, <1>3, <1>4, <1>5, <1>6 DEF Proceed

\* The number of documents to come and calls to make only goes down, and until it does the prompt
\* gets shorter with every repetition: there is no answer that is never there because of retries.
THEOREM Finite == Spec => EveryStepCounts
<1>1. IInv /\ [Next]_vars => [Proceed => Ahead' < Ahead \/ (Ahead' = Ahead /\ budget' < budget)]_vars
  BY StepCounts
<1>2. IInv => TypeOK
  BY DEF IInv
<1> QED
  BY <1>1, Inductive, PTL DEF Spec, EveryStepCounts
=============================================================================
