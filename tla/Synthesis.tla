------------------------------ MODULE Synthesis ------------------------------
(***************************************************************************)
(* SynthesizeService: what becomes of the documents of a research request  *)
(* on their way through the local model.  Documents are reviewed in        *)
(* batches, the synopses are consolidated, the question is refined and the *)
(* answer written, each by a call that may fail, come back blank, or find  *)
(* the prompt too long and be repeated with a shorter one.  Search         *)
(* summaries and session titles are single calls of the same kind.         *)
(*                                                                         *)
(* The service keeps no state between calls, so one call is modelled at a  *)
(* time; a step runs from one await to the next.  A text stands for the    *)
(* numbers of the documents it has something about, with Words if anything *)
(* else is in it and Mark if it says that it was truncated.  How long      *)
(* texts are is left open, so any may turn out to be too long.             *)
(***************************************************************************)
EXTENDS Integers

CONSTANTS
    MaxDocuments,      \* the most documents a request brings
    BatchSize,         \* RESEARCH_BATCH_SIZE
    CompactBatchSize,  \* COMPACT_RESEARCH_BATCH_SIZE
    Threshold,         \* LARGE_RESEARCH_DOCUMENT_THRESHOLD
    MaxChat,           \* MAX_CHAT_USER_CHARS
    RetryChars,        \* CONTEXT_RETRY_PROMPT_CHARS
    Words, Mark

ASSUME SizeAssumption ==
    /\ MaxDocuments \in Nat /\ Threshold \in Nat
    /\ BatchSize \in Nat \ {0} /\ CompactBatchSize \in Nat \ {0}
ASSUME BudgetAssumption == MaxChat \in Nat /\ RetryChars \subseteq Nat
ASSUME TextAssumption == Words \notin Int /\ Mark \notin Int /\ Words # Mark

VARIABLES
    at,         \* the await the call is at
    kind,       \* what it makes
    count,      \* how many documents it has
    next,       \* chunk_start: how many of them the batches that are done reach
    batches,    \* len(synopses)
    budget,     \* the prompt budget of the model call under way
    staged,     \* the synopses, joined
    failed,     \* the documents of failed_batches
    evidence,   \* evidence_brief
    reply,      \* whether the answer is one of the model
    answer,     \* its text
    handled,    \* history: the documents that were in a batch
    merged      \* history: the model consolidated the synopses

material == <<next, batches, staged, failed, evidence, handled, merged>>
vars == <<at, kind, count, budget, reply, answer, material>>

Source == 1 .. MaxDocuments
Text == SUBSET (Source \union {Words, Mark})
Calling == {"batch", "consolidate", "refine", "final", "summary", "title"}

\* Types, and a reply is there exactly when the call is done.
TypeOK ==
    /\ at \in Calling \union {"idle", "verify", "done"}
    /\ kind \in {"research", "summary", "title"}
    /\ count \in 0 .. MaxDocuments /\ next \in 0 .. count /\ batches \in Nat
    /\ budget \in RetryChars \union {MaxChat}
    /\ staged \in Text /\ evidence \in Text /\ answer \in Text
    /\ failed \subseteq handled /\ handled \subseteq 1 .. count
    /\ merged \in BOOLEAN
    /\ reply \in {"none", "model", "degraded"}
    /\ at = "done" <=> reply # "none"

Init ==
    /\ at = "idle" /\ kind = "research" /\ count = 0
    /\ next = 0 /\ batches = 0 /\ budget = MaxChat
    /\ staged = {} /\ failed = {} /\ evidence = {} /\ reply = "none" /\ answer = {}
    /\ handled = {} /\ merged = FALSE

-----------------------------------------------------------------------------
\* Texts.

\* _fit_prompt_text: a text that is too long loses some of what is in it and says so.
Fitted(text) == {text} \union (IF text = {} THEN {} ELSE {cut \union {Mark} : cut \in SUBSET text})

\* _extractive_batch_synopsis with the error that made it necessary.
Notes(documents) == documents \union {Words}

\* What the model makes of a prompt: nothing, or words about some of what it was shown.  A
\* prompt fitted to its budget shows less, about which the same can be said as about all of it.
Completions(prompt) ==
    {{}} \union {about \union {Words} : about \in SUBSET (prompt \intersect Source)}

Compact == count >= Threshold
ChunkSize == IF Compact THEN CompactBatchSize ELSE BatchSize

\* Mutant: the last batch is not clamped to the documents there are.
ChunkUnclamped == next + 1 .. next + ChunkSize

\* The documents of the batch that begins after the first next ones.
Chunk == {k \in 1 .. count : next < k /\ k <= next + ChunkSize}

-----------------------------------------------------------------------------
\* Calls of the service.

\* A research request with its documents, a search to summarize or a session to name.
Begin(k, n) ==
    /\ at = "idle"
    /\ k # "research" => n = 0
    /\ kind' = k /\ count' = n
    /\ at' = CASE k = "title" -> "verify"
               [] k = "summary" -> "summary"
               [] OTHER -> IF n = 0 THEN "refine" ELSE "batch"
    /\ UNCHANGED <<budget, reply, answer, material>>

\* No such provider or, for summaries and titles, no model wanted: a reply without one, made
\* of the citations, the snippets or the query.
Refuse(k, n) ==
    /\ at = "idle"
    /\ k # "research" => n = 0
    /\ kind' = k /\ count' = n
    /\ at' = "done" /\ reply' = "degraded" /\ answer' = Notes(1 .. n)
    /\ UNCHANGED <<budget, material>>

Reply(made, text) ==
    /\ at' = "done" /\ reply' = made /\ answer' = text
    /\ UNCHANGED <<kind, count, budget, material>>

\* ensure_model_available, before a session is named.
Verified ==
    /\ at = "verify" /\ at' = "title"
    /\ UNCHANGED <<kind, count, budget, reply, answer, material>>

NotVerified == at = "verify" /\ Reply("degraded", {Words})

\* Mutant: any other budget is tried.
RetryAnother ==
    /\ at \in Calling
    /\ \E chars \in RetryChars \ {budget} : budget' = chars
    /\ UNCHANGED <<at, kind, count, reply, answer, material>>

\* _chat: the prompt is too long for the model, and the next smaller budget is tried.
Retry ==
    /\ at \in Calling
    /\ \E chars \in RetryChars :
           /\ chars < budget
           /\ \A other \in RetryChars : other < budget => other <= chars
           /\ budget' = chars
    /\ UNCHANGED <<at, kind, count, reply, answer, material>>

\* The batch is done with the synopsis given; the next one, the consolidation or the
\* refinement of the question begins.
Advance(synopsis) ==
    LET notes == staged \union synopsis
        reached == next + ChunkSize
    IN  /\ handled' = handled \union Chunk
        /\ next' = IF reached < count THEN reached ELSE count
        /\ batches' = batches + 1
        /\ budget' = MaxChat
        /\ \/ /\ reached < count
              /\ at' = "batch" /\ staged' = notes
              /\ UNCHANGED evidence
           \/ /\ reached >= count /\ (batches = 0 \/ Compact)
              /\ at' = "refine" /\ staged' = notes
              /\ evidence' \in Fitted(notes)
           \/ /\ reached >= count /\ batches > 0 /\ ~ Compact
              /\ at' = "consolidate" /\ staged' \in Fitted(notes)
              /\ UNCHANGED evidence
        /\ UNCHANGED <<kind, count, reply, answer, merged>>

\* The model reviews the batch; its synopsis is cut to size.
BatchReviewed ==
    /\ at = "batch"
    /\ \E synopsis \in Completions(Notes(Chunk)) \ {{}} : \E cut \in Fitted(synopsis) : Advance(cut)
    /\ UNCHANGED failed

\* The call fails for good or comes back blank: notes stand in for the synopsis.
BatchFails ==
    /\ at = "batch"
    /\ failed' = failed \union Chunk
    /\ Advance(Notes(Chunk))

\* The evidence brief is there and the question is refined.
Brief(text) ==
    /\ evidence' \in Fitted(text)
    /\ at' = "refine" /\ budget' = MaxChat
    /\ UNCHANGED <<kind, count, next, batches, staged, failed, reply, answer, handled>>

Consolidated ==
    /\ at = "consolidate"
    /\ \E text \in Completions(staged) \ {{}} : Brief(text)
    /\ merged' = TRUE

ConsolidationFails ==
    /\ at = "consolidate"
    /\ Brief(staged)
    /\ UNCHANGED merged

\* The question is refined or, after an error or a blank answer, stays as it is.
Refined ==
    /\ at = "refine" /\ at' = "final" /\ budget' = MaxChat
    /\ UNCHANGED <<kind, count, reply, answer, material>>

\* The model writes the answer from the evidence brief and the list of sources; what it makes
\* of them is its own affair.
Answered == at = "final" /\ Reply("model", {Words})

\* Mutant: the evidence brief is not returned.
FinalFailsBare == at = "final" /\ Reply("degraded", {Words})

\* _partial_research_answer: the evidence brief or, when there is none, the citations.
FinalFails ==
    /\ at = "final"
    /\ Reply("degraded", IF evidence # {} THEN Notes(evidence) ELSE Notes(1 .. count))

\* A summary or a title is made by the model or replaced; a blank title is replaced by the query
\* and counts as one of the model.
SingleCallEnds ==
    /\ at \in {"summary", "title"}
    /\ Reply("model", {Words}) \/ Reply("degraded", {Words})

Clear ==
    /\ at' = "idle" /\ kind' = "research" /\ count' = 0
    /\ next' = 0 /\ batches' = 0 /\ budget' = MaxChat
    /\ staged' = {} /\ failed' = {} /\ evidence' = {} /\ reply' = "none" /\ answer' = {}
    /\ handled' = {} /\ merged' = FALSE

\* The caller takes its reply, or is cancelled while it waits for the model.
Return == at = "done" /\ Clear
Cancel == at \in Calling \union {"verify"} /\ Clear

\* What becomes of a call that is not cancelled.
Proceed ==
    \/ Verified \/ NotVerified \/ Retry
    \/ BatchReviewed \/ BatchFails \/ Consolidated \/ ConsolidationFails
    \/ Refined \/ Answered \/ FinalFails \/ SingleCallEnds

Next ==
    \/ \E k \in {"research", "summary", "title"} : \E n \in 0 .. MaxDocuments :
           Begin(k, n) \/ Refuse(k, n)
    \/ Proceed \/ Return \/ Cancel

Spec == Init /\ [][Next]_vars

\* Every call of the model has a timeout and then fails.
FairSpec == Spec /\ WF_vars(Proceed)

-----------------------------------------------------------------------------
\* Properties.

\* No document is left out and none is reviewed twice: a batch has only documents of which no
\* batch had any, and the answer is begun when every document was in one.
EachReviewedOnce ==
    /\ at = "batch" => Chunk # {} /\ Chunk \intersect handled = {}
    /\ at \in {"consolidate", "refine", "final"} => handled = 1 .. count

\* "Batch-level model failures no longer fail the entire research run", "consolidation failure
\* now falls back to the joined staged synopses": the notes about documents the model failed on
\* are in the evidence and in a degraded answer, unless those say that they were truncated or
\* the model consolidated them.
NotesKept ==
    \/ merged
    \/ /\ at = "final" => failed \subseteq evidence \/ Mark \in evidence
       /\ reply = "degraded" => failed \subseteq answer \/ Mark \in answer

\* However many calls fail or have to be repeated with shorter prompts, there is an answer,
\* unless the caller goes away.
SynthesisEnds == at \in Calling \union {"verify"} ~> at \in {"done", "idle"}

\* The service keeps its contract: grouping, retries, consolidation and truncation are its own
\* affair.
Contract ==
    INSTANCE SynthesisContract WITH
        Document <- Source,
        state <- CASE at = "idle" -> "idle" [] at = "done" -> reply [] OTHER -> "working",
        asked <- 1 .. count,
        left <- (1 .. count) \ handled,
        noted <- failed,
        told <- answer

KeepsContract == Contract!Spec

\* How much a call still has to do: documents to review, then a step for each of the calls of the
\* model after them.  Within one of these only the prompt gets shorter.
Ahead ==
    CASE at = "batch" -> count - next + 3
      [] at = "consolidate" -> 3
      [] at \in {"refine", "verify"} -> 2
      [] at \in {"final", "summary", "title"} -> 1
      [] OTHER -> 0

\* Whatever fails, is blank or is too long, a step of a call is one of finitely many.
EveryStepCounts == [][Proceed => Ahead' < Ahead \/ (Ahead' = Ahead /\ budget' < budget)]_vars

\* The inductive invariant: what the batches so far reached, and the notes up to the evidence.
Staging ==
    /\ at \in {"idle", "verify", "summary", "title"} => count = 0
    /\ at \in {"idle", "verify", "summary", "title"} => failed = {} /\ handled = {} /\ next = 0
    /\ at = "batch" => next < count /\ handled = 1 .. next
    /\ at \in {"consolidate", "refine", "final"} => handled = 1 .. count
    /\ at \in {"batch", "consolidate"} => failed \subseteq staged \/ Mark \in staged
    /\ at \in {"refine", "final"} => merged \/ failed \subseteq evidence \/ Mark \in evidence

IInv == TypeOK /\ NotesKept /\ Staging

=============================================================================
