-------------------------- MODULE SynthesisContract --------------------------
(***************************************************************************)
(* What SynthesizeService promises whoever asks for an answer: every       *)
(* document is reviewed, by the model or by notes that stand in for it,    *)
(* before there is an answer, and when the model cannot write one, the     *)
(* notes are not lost with it.  How the documents are grouped, which calls *)
(* are repeated and what is truncated on the way is left to the service.   *)
(***************************************************************************)
EXTENDS Integers

CONSTANTS
    Document,     \* what an answer can be about
    Words, Mark   \* other text; the remark that a text was truncated

VARIABLES
    state,    \* "idle", "working", or the kind of reply: "model" or "degraded"
    asked,    \* the documents of the request
    left,     \* those nobody has reviewed yet
    noted,    \* those the model failed to review
    merged,   \* the model made one text of all reviews
    told      \* what the reply says

vars == <<state, asked, left, noted, merged, told>>

Text == SUBSET (Document \union {Words, Mark})

Init ==
    /\ state = "idle" /\ asked = {} /\ left = {} /\ noted = {}
    /\ merged = FALSE /\ told = {}

Ask(documents) ==
    /\ state = "idle" /\ state' = "working"
    /\ asked' = documents /\ left' = documents
    /\ UNCHANGED <<noted, merged, told>>

\* There is no model to ask: the documents themselves are the reply.
Refuse(documents) ==
    /\ state = "idle" /\ state' = "degraded"
    /\ asked' = documents /\ left' = documents
    /\ told' \in Text /\ documents \subseteq told'
    /\ UNCHANGED <<noted, merged>>

\* Some documents are reviewed together, once, by the model or by notes.
Review(documents) ==
    /\ state = "working"
    /\ documents # {} /\ documents \subseteq left
    /\ left' = left \ documents
    /\ noted' \in {noted, noted \union documents}
    /\ UNCHANGED <<state, asked, merged, told>>

Merge ==
    /\ state = "working" /\ left = {}
    /\ merged' = TRUE
    /\ UNCHANGED <<state, asked, left, noted, told>>

Answer ==
    /\ state = "working" /\ left = {}
    /\ state' = "model" /\ told' \in Text
    /\ UNCHANGED <<asked, left, noted, merged>>

\* The notes are in the reply, unless it says that it is truncated or the model merged them.
Degrade ==
    /\ state = "working" /\ left = {}
    /\ state' = "degraded" /\ told' \in Text
    /\ merged \/ Mark \in told' \/ noted \subseteq told'
    /\ UNCHANGED <<asked, left, noted, merged>>

\* The reply is taken, or the caller goes away.
Withdraw ==
    /\ state # "idle"
    /\ state' = "idle" /\ asked' = {} /\ left' = {} /\ noted' = {}
    /\ merged' = FALSE /\ told' = {}

Next ==
    \/ \E documents \in SUBSET Document :
           Ask(documents) \/ Refuse(documents) \/ Review(documents)
    \/ Merge \/ Answer \/ Degrade \/ Withdraw

Spec == Init /\ [][Next]_vars

=============================================================================
