----------------------------- MODULE Collection -----------------------------
(***************************************************************************)
(* How one uncached search collects its results: SearchService plans how   *)
(* many results and pages to ask SearXNG for, asks page after page, drops  *)
(* duplicates, ranks what is left, cuts it to the target and reports the   *)
(* shortfall.                                                              *)
(*                                                                         *)
(* A result is reduced to what decides its fate: its signature (URL and    *)
(* title in lower case), its score and its position on its page.  A result *)
(* is named by its index in the list of collected results.  SearXNG is     *)
(* external: it ignores the requested page size when it likes and may      *)
(* repeat what an earlier page had.                                        *)
(***************************************************************************)
EXTENDS Integers, Sequences, FiniteSets

CONSTANTS
    Request,            \* the requests that arrive
    Page,               \* the pages SearXNG may answer with
    Signature,
    Unset,              \* target_result_count left out of a request
    MaxResultsPerPage,  \* settings.max_results_per_page, 50 unless configured
    MaxPages,           \* settings.max_pages, 5 unless configured
    PageSize            \* the literal 10 of _collection_plan

\* The environment may set the first two to any integer: config.py checks none of it.
ASSUME SettingsAssumption ==
    MaxResultsPerPage \in Int /\ MaxPages \in Int /\ PageSize \in Nat \ {0}
ASSUME RequestAssumption ==
    Request \subseteq [results_per_page : Nat \ {0}, max_pages : Nat \ {0},
                       target : (Nat \ {0}) \union {Unset}, dedupe : BOOLEAN]
ASSUME PageAssumption == Page \subseteq Seq([signature : Signature, score : Nat])
ASSUME UnsetAssumption == Unset \notin Nat

VARIABLES
    pc,         \* "collecting", "done" or "failed"
    request,
    results,    \* everything the pages brought, in order
    tried,      \* pages attempted
    answer,     \* the results returned, best first, by their index in results
    shortfall,
    full        \* history: every page so far brought as many new results as it was asked for

vars == <<pc, request, results, tried, answer, shortfall, full>>

AtLeast(bound, n) == IF n < bound THEN bound ELSE n
AtMost(bound, n) == IF n > bound THEN bound ELSE n

\* Mutant: ceil forgotten.
FloorDiv(a, b) == a \div b

CeilDiv(a, b) == (a + b - 1) \div b

-----------------------------------------------------------------------------
\* The plan.

ConfiguredCap == AtLeast(1, MaxResultsPerPage * MaxPages)

TargetCount(r) ==
    AtMost(ConfiguredCap,
        AtLeast(1, IF r.target = Unset THEN r.results_per_page * r.max_pages ELSE r.target))

\* searx_results_per_page
PerPage(r) ==
    AtLeast(1, AtMost(IF TargetCount(r) <= MaxResultsPerPage THEN PageSize ELSE MaxResultsPerPage,
                      TargetCount(r)))

\* One page more than needed when duplicates are dropped, if the settings allow it.
PageBudget(r) ==
    LET needed == AtLeast(CeilDiv(TargetCount(r), PerPage(r)), r.max_pages)
    IN  AtMost(MaxPages, IF r.dedupe /\ needed < MaxPages THEN needed + 1 ELSE needed)

-----------------------------------------------------------------------------
\* What is kept of the collected results.

\* dedupe keeps the first result with a signature.
FirstSeen(s) ==
    {i \in DOMAIN s : \A j \in 1 .. i - 1 : s[j].signature # s[i].signature}

Kept(r, s) == IF r.dedupe THEN FirstSeen(s) ELSE DOMAIN s

\* sorted(..., reverse=True) by score, then by earlier position on the page; the sort is
\* stable in reverse too.
Outranks(s, i, j) ==
    \/ s[i].score > s[j].score
    \/ s[i].score = s[j].score /\ s[i].position < s[j].position
    \/ s[i].score = s[j].score /\ s[i].position = s[j].position /\ i < j

Ranked(s, K) ==
    [n \in 1 .. Cardinality(K) |->
        CHOOSE i \in K : Cardinality({j \in K : Outranks(s, j, i)}) = n - 1]

Cut(s, n) == SubSeq(s, 1, AtMost(n, Len(s)))

\* Mutant: the list is cut before it is ranked.
BestOfFirst(r, s) == Ranked(s, {i \in Kept(r, s) : i <= TargetCount(r)})

Best(r, s) == Cut(Ranked(s, Kept(r, s)), TargetCount(r))

Collected(r, s) == Cardinality(Kept(r, s))

\* Mutant: duplicates count towards the target.
EnoughRaw(r, s) == Len(s) >= TargetCount(r)

Enough(r, s) == Collected(r, s) >= TargetCount(r)

-----------------------------------------------------------------------------
\* (What answer holds is BestReturned's business.)
TypeOK ==
    /\ pc \in {"collecting", "done", "failed"}
    /\ request \in Request
    /\ results \in Seq([signature : Signature, score : Nat, position : Nat])
    /\ tried \in 0 .. AtLeast(0, PageBudget(request))
    /\ shortfall \in Nat
    /\ full \in BOOLEAN

Init ==
    /\ pc = "collecting"
    /\ request \in Request
    /\ results = <<>>
    /\ tried = 0
    /\ answer = <<>>
    /\ shortfall = 0
    /\ full = TRUE

Positioned(page) ==
    [i \in DOMAIN page |->
        [signature |-> page[i].signature, score |-> page[i].score, position |-> i]]

Wanting == pc = "collecting" /\ tried < PageBudget(request) /\ ~ Enough(request, results)

\* Mutant: the loop runs one page too far.
AskPageBeyond(page) ==
    /\ pc = "collecting" /\ tried <= PageBudget(request) /\ ~ Enough(request, results)
    /\ tried' = tried + 1
    /\ results' = results \o Positioned(page)
    /\ full' = (full /\ Collected(request, results') >= Collected(request, results) + PerPage(request))
    /\ UNCHANGED <<pc, request, answer, shortfall>>

AskPage(page) ==
    /\ Wanting
    /\ tried' = tried + 1
    /\ results' = results \o Positioned(page)
    /\ full' = (full /\ Collected(request, results') >= Collected(request, results) + PerPage(request))
    /\ UNCHANGED <<pc, request, answer, shortfall>>

\* SearXNG fails or cannot be reached: UpstreamServiceError, and the pages it already
\* brought are lost with the call.
PageFails ==
    /\ Wanting
    /\ tried' = tried + 1
    /\ pc' = "failed"
    /\ results' = <<>>
    /\ UNCHANGED <<request, answer, shortfall, full>>

Finish ==
    /\ pc = "collecting" /\ ~ Wanting
    /\ pc' = "done"
    /\ answer' = Best(request, results)
    /\ shortfall' = AtLeast(0, TargetCount(request) - Collected(request, results))
    /\ UNCHANGED <<request, results, tried, full>>

Next == (\E page \in Page : AskPage(page)) \/ PageFails \/ Finish

Spec == Init /\ [][Next]_vars

-----------------------------------------------------------------------------
\* Properties.

\* The plan asks for enough: a search whose pages all bring as many new results as they
\* were asked for reaches its target.  It may fall short of one that the settings let a
\* single page hold, which is asked for in pages of ten nevertheless, and then only by what
\* MaxPages pages of ten cannot hold; with the shipped settings there is no such target.
FullPagesSuffice ==
    pc = "done" /\ full /\ MaxPages > 0 =>
        \/ shortfall = 0
        \/ /\ TargetCount(request) <= MaxResultsPerPage
           /\ shortfall <= TargetCount(request) - PageSize * MaxPages

\* A search that falls short has used up its pages: it never stops early because of
\* results it then drops as duplicates.
ShortfallIsHonest == pc = "done" /\ shortfall > 0 => tried = AtLeast(0, PageBudget(request))

\* The answer is as long as promised and ordered: whatever comes before outranks what comes
\* after, no result is there twice, and all of it outranks what was kept and then cut off.
BestReturned ==
    pc = "done" =>
        /\ Len(answer) = TargetCount(request) - shortfall
        /\ \A n \in DOMAIN answer : answer[n] \in Kept(request, results)
        /\ \A m, n \in DOMAIN answer : m < n => Outranks(results, answer[m], answer[n])
        /\ \A n \in DOMAIN answer : \A j \in Kept(request, results) :
               j \in {answer[m] : m \in DOMAIN answer} \/ Outranks(results, answer[n], j)

\* What keeps FullPagesSuffice true while pages come in.
FullPagesAddUp ==
    pc # "failed" /\ full => Collected(request, results) >= tried * PerPage(request)

IInv ==
    /\ TypeOK
    /\ FullPagesAddUp
    /\ pc = "done" => /\ tried >= PageBudget(request) \/ Enough(request, results)
                      /\ answer = Best(request, results)
                      /\ shortfall = AtLeast(0, TargetCount(request) - Collected(request, results))
=============================================================================
