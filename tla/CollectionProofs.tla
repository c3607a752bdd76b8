-------------------------- MODULE CollectionProofs --------------------------
(***************************************************************************)
(* Proofs about Collection: the arithmetic of the plan, and that the pages *)
(* it plans reach the target and are not given up early.                   *)
(***************************************************************************)
EXTENDS Collection, SequenceTheorems, FunctionTheorems, FiniteSetTheorems, TLAPS

-----------------------------------------------------------------------------
\* The plan.

\* ceil(a / b) * b is at least a.
LEMMA CeilCovers ==
    ASSUME NEW a \in Nat \ {0}, NEW b \in Nat \ {0}
    PROVE  CeilDiv(a, b) \in Nat \ {0} /\ CeilDiv(a, b) * b >= a
  <1> DEFINE q == (a + b - 1) \div b
             m == (a + b - 1) % b
  <1>1. q \in Int /\ m \in 0 .. b - 1 /\ a + b - 1 = b * q + m
    OBVIOUS
  <1>2. b * q >= a
    BY <1>1
  <1>3. q \in Nat \ {0}
    BY <1>1, <1>2
  <1> QED BY <1>1, <1>2, <1>3 DEF CeilDiv

\* Nothing is divided by less than b or cut below it: ceil(a / b) <= n when a <= n * b.
LEMMA CeilBounded ==
    ASSUME NEW a \in Nat \ {0}, NEW b \in Nat \ {0}, NEW n \in Nat, a <= n * b
    PROVE  CeilDiv(a, b) <= n
  <1> DEFINE q == (a + b - 1) \div b
             m == (a + b - 1) % b
  <1>1. q \in Int /\ m \in 0 .. b - 1 /\ a + b - 1 = b * q + m
    OBVIOUS
  <1>2. b * q < b * (n + 1)
    BY <1>1
  <1>3. q < n + 1
    BY <1>1, <1>2
  <1> QED BY <1>1, <1>3 DEF CeilDiv

\* More pages hold no less.
LEMMA ProductGrows ==
    ASSUME NEW a \in Nat, NEW b \in Nat, NEW k \in Nat, a <= b
    PROVE  a * k <= b * k /\ a * k \in Nat /\ b * k \in Nat
  OBVIOUS

LEMMA TargetType ==
    ASSUME NEW r \in Request
    PROVE  /\ TargetCount(r) \in Nat \ {0}
           /\ TargetCount(r) <= ConfiguredCap
           /\ ConfiguredCap \in Nat \ {0}
  <1>1. MaxResultsPerPage * MaxPages \in Int
    BY SettingsAssumption
  <1>2. ConfiguredCap \in Nat \ {0}
    BY <1>1 DEF ConfiguredCap, AtLeast
  <1>3. r.results_per_page \in Nat /\ r.max_pages \in Nat /\ r.target \in Nat \union {Unset}
    BY RequestAssumption
  <1>4. r.results_per_page * r.max_pages \in Nat
    BY <1>3
  <1> DEFINE asked == IF r.target = Unset THEN r.results_per_page * r.max_pages ELSE r.target
  <1>5. asked \in Nat
    BY <1>3, <1>4
  <1> HIDE DEF asked
  <1>6. TargetCount(r) = AtMost(ConfiguredCap, AtLeast(1, asked))
    BY DEF TargetCount, asked
  <1> QED BY <1>2, <1>5, <1>6 DEF AtMost, AtLeast

\* The page budget never exceeds the settings.  If these allow any page, the pages of the
\* budget hold the target, or the target is one that is asked for in pages of PageSize and
\* the budget is all there is.
LEMMA PlanCovers ==
    ASSUME NEW r \in Request
    PROVE  /\ PerPage(r) \in Nat \ {0}
           /\ PageBudget(r) \in Int
           /\ MaxPages > 0 =>
                  /\ PageBudget(r) \in 1 .. MaxPages
                  /\ \/ PageBudget(r) * PerPage(r) >= TargetCount(r)
                     \/ /\ TargetCount(r) <= MaxResultsPerPage
                        /\ PageBudget(r) * PerPage(r) = PageSize * MaxPages
  <1> DEFINE t == TargetCount(r)
             p == PerPage(r)
             c == CeilDiv(t, p)
  <1>1. t \in Nat \ {0} /\ t <= ConfiguredCap
    BY TargetType
  <1>2. p \in Nat \ {0} /\ p = IF t <= MaxResultsPerPage THEN AtMost(PageSize, t) ELSE AtLeast(1, MaxResultsPerPage)
    BY <1>1, SettingsAssumption DEF PerPage, AtMost, AtLeast
  <1> HIDE DEF t, p
  <1>3. c \in Nat \ {0} /\ c * p >= t
    BY <1>1, <1>2, CeilCovers
  <1>4. ASSUME MaxPages > 0 PROVE t <= MaxPages * p \/ (t <= MaxResultsPerPage /\ p = PageSize)
    <2>1. CASE t <= MaxResultsPerPage /\ t <= PageSize
      <3>1. p = t
        BY <1>1, <1>2, <2>1, SettingsAssumption DEF AtMost
      <3> QED BY <1>1, <1>4, <3>1, SettingsAssumption
    <2>2. CASE t <= MaxResultsPerPage /\ t > PageSize
      BY <1>1, <1>2, <2>2, SettingsAssumption DEF AtMost
    <2>3. CASE t > MaxResultsPerPage /\ MaxResultsPerPage <= 0
      <3>1. MaxResultsPerPage * MaxPages <= 0
        BY <1>4, <2>3, SettingsAssumption
      <3>2. t = 1
        BY <1>1, <3>1, SettingsAssumption DEF ConfiguredCap, AtLeast
      <3> QED BY <1>2, <1>4, <3>2, SettingsAssumption
    <2>4. CASE t > MaxResultsPerPage /\ MaxResultsPerPage > 0
      <3>1. p = MaxResultsPerPage
        <4>1. ~ (t <= MaxResultsPerPage)
          BY <1>1, <2>4, SettingsAssumption
        <4> QED BY <1>2, <2>4, <4>1, SettingsAssumption DEF AtLeast
      <3>2. MaxResultsPerPage * MaxPages \in Nat \ {0}
        BY <1>4, <2>4, SettingsAssumption
      <3>3. ConfiguredCap = MaxResultsPerPage * MaxPages
        BY <3>2 DEF ConfiguredCap, AtLeast
      <3> QED BY <1>1, <3>1, <3>3, SettingsAssumption
    <2> QED BY <1>1, <2>1, <2>2, <2>3, <2>4, SettingsAssumption
  <1>5. /\ PageBudget(r) \in Int
        /\ MaxPages > 0 => PageBudget(r) \in 1 .. MaxPages /\ (c <= PageBudget(r) \/ PageBudget(r) = MaxPages)
    <2>1. r.max_pages \in Nat \ {0}
      BY RequestAssumption
    <2> HIDE DEF c
    <2>2. PageBudget(r) = LET needed == AtLeast(c, r.max_pages)
                          IN  AtMost(MaxPages, IF r.dedupe /\ needed < MaxPages THEN needed + 1 ELSE needed)
      BY DEF PageBudget, c, t, p
    <2> QED BY <1>3, <2>1, <2>2, SettingsAssumption DEF AtLeast, AtMost
  <1>6. ASSUME MaxPages > 0
        PROVE  PageBudget(r) * p >= t \/ (t <= MaxResultsPerPage /\ PageBudget(r) * p = PageSize * MaxPages)
    <2> HIDE DEF c
    <2>0. PageBudget(r) \in Nat
      BY <1>5, <1>6, SettingsAssumption
    <2>1. CASE c <= PageBudget(r)
      <3>1. c * p <= PageBudget(r) * p /\ c * p \in Nat /\ PageBudget(r) * p \in Nat
        BY <1>2, <1>3, <2>0, <2>1, ProductGrows
      <3> QED BY <1>1, <1>3, <3>1
    <2>2. CASE PageBudget(r) = MaxPages
      <3>1. PageBudget(r) * p = MaxPages * p
        BY <2>2
      <3>2. CASE t <= MaxPages * p
        BY <1>1, <1>2, <3>1, <3>2, SettingsAssumption
      <3>3. CASE t <= MaxResultsPerPage /\ p = PageSize
        <4>1. MaxPages * p = PageSize * MaxPages
          BY <3>3, SettingsAssumption
        <4> QED BY <3>1, <3>3, <4>1
      <3> QED BY <1>4, <1>6, <3>2, <3>3
    <2> QED BY <1>5, <1>6, <2>1, <2>2
  <1> QED BY <1>2, <1>5, <1>6 DEF t, p

-----------------------------------------------------------------------------
\* What is collected.

LEMMA CollectedType ==
    ASSUME NEW T, NEW r, NEW s \in Seq(T)
    PROVE  Collected(r, s) \in Nat
  <1>1. IsFiniteSet(DOMAIN s)
    BY FS_Interval
  <1>2. Kept(r, s) \in SUBSET (DOMAIN s)
    BY DEF Kept, FirstSeen
  <1>3. IsFiniteSet(Kept(r, s))
    BY <1>1, <1>2, FS_Subset
  <1> QED BY <1>3, FS_CardinalityType DEF Collected

LEMMA PositionedType ==
    ASSUME NEW page \in Page
    PROVE  Positioned(page) \in Seq([signature : Signature, score : Nat, position : Nat])
  <1> DEFINE Found == [signature : Signature, score : Nat]
             Entry == [signature : Signature, score : Nat, position : Nat]
  <1>1. page \in Seq(Found)
    BY PageAssumption
  <1> HIDE DEF Found
  <1>2. DOMAIN page = 1 .. Len(page) /\ Len(page) \in Nat
    BY <1>1
  <1>3. \A i \in 1 .. Len(page) : page[i] \in Found
    BY <1>1
  <1>4. Positioned(page) \in [1 .. Len(page) -> Entry]
    BY <1>2, <1>3 DEF Positioned, Found
  <1> HIDE DEF Entry
  <1>5. Positioned(page) \in Seq(Entry)
    BY <1>2, <1>4
  <1> QED BY <1>5 DEF Entry

-----------------------------------------------------------------------------
\* The order of the answer.

Entries == [signature : Signature, score : Nat, position : Nat]

\* Outranks is a strict total order on the results collected.
LEMMA StrictOrder ==
    ASSUME NEW s \in Seq(Entries)
    PROVE  /\ \A i \in DOMAIN s : ~ Outranks(s, i, i)
           /\ \A i, j \in DOMAIN s : i # j => Outranks(s, i, j) \/ Outranks(s, j, i)
           /\ \A i, j, k \in DOMAIN s : Outranks(s, i, j) /\ Outranks(s, j, k) => Outranks(s, i, k)
  <1>1. ASSUME NEW i \in DOMAIN s PROVE i \in Nat /\ s[i].score \in Nat /\ s[i].position \in Nat
    <2>1. i \in Nat /\ s[i] \in Entries
      OBVIOUS
    <2> QED BY <2>1 DEF Entries
  <1> QED BY <1>1 DEF Outranks

\* The number of results kept that come before one of them.
Above(s, K, i) == {j \in K : Outranks(s, j, i)}

LEMMA AboveCounts ==
    ASSUME NEW s \in Seq(Entries), NEW K \in SUBSET (DOMAIN s), IsFiniteSet(K)
    PROVE  /\ \A i \in K : Cardinality(Above(s, K, i)) \in 0 .. Cardinality(K) - 1
           /\ \A i, j \in K : Outranks(s, i, j) =>
                  Cardinality(Above(s, K, i)) < Cardinality(Above(s, K, j))
  <1>1. ASSUME NEW A \in SUBSET K, NEW B \in SUBSET A, B # A
        PROVE  /\ Cardinality(A) \in Nat /\ Cardinality(B) \in Nat
               /\ Cardinality(B) < Cardinality(A)
    <2>1. IsFiniteSet(A)
      BY FS_Subset
    <2>2. IsFiniteSet(B) /\ Cardinality(B) <= Cardinality(A) /\ Cardinality(A) # Cardinality(B)
      BY <1>1, <2>1, FS_Subset
    <2> QED BY <2>1, <2>2, FS_CardinalityType
  <1>2. ASSUME NEW i \in K
        PROVE  Cardinality(Above(s, K, i)) \in 0 .. Cardinality(K) - 1
    <2>1. Above(s, K, i) \in SUBSET K /\ i \notin Above(s, K, i)
      BY StrictOrder DEF Above
    <2>2. Cardinality(Above(s, K, i)) \in Nat /\ Cardinality(K) \in Nat
          /\ Cardinality(Above(s, K, i)) < Cardinality(K)
      BY <1>1, <2>1
    <2> QED BY <2>2
  <1>3. ASSUME NEW i \in K, NEW j \in K, Outranks(s, i, j)
        PROVE  Cardinality(Above(s, K, i)) < Cardinality(Above(s, K, j))
    <2>1. Above(s, K, i) \subseteq Above(s, K, j)
      BY <1>3, StrictOrder DEF Above
    <2>2. i \in Above(s, K, j) /\ i \notin Above(s, K, i) /\ Above(s, K, j) \subseteq K
      BY <1>3, StrictOrder DEF Above
    <2> QED BY <1>1, <2>1, <2>2
  <1> QED BY <1>2, <1>3

\* Ranked(s, K) lists K, each of it once, in the order of Outranks.
LEMMA RankedLists ==
    ASSUME NEW s \in Seq(Entries), NEW K \in SUBSET (DOMAIN s), IsFiniteSet(K)
    PROVE  /\ Cardinality(K) \in Nat
           /\ Ranked(s, K) \in [1 .. Cardinality(K) -> K]
           /\ \A i \in K : \E n \in 1 .. Cardinality(K) : Ranked(s, K)[n] = i
           /\ \A m, n \in 1 .. Cardinality(K) :
                  m < n => Outranks(s, Ranked(s, K)[m], Ranked(s, K)[n])
  <1> DEFINE c == Cardinality(K)
             count(i) == Cardinality(Above(s, K, i))
             place == [i \in K |-> count(i)]
             R == Ranked(s, K)
  <1>1. c \in Nat
    BY FS_CardinalityType
  <1>2. \A i \in K : count(i) \in 0 .. c - 1
    BY AboveCounts
  <1>3. \A i, j \in K : Outranks(s, i, j) => count(i) < count(j)
    BY AboveCounts
  <1>4. R = [n \in 1 .. c |-> CHOOSE i \in K : count(i) = n - 1]
    BY DEF Ranked, Above
  <1>5. \A i, j \in K : count(i) = count(j) => i = j
    <2>1. \A i, j \in K : i # j => Outranks(s, i, j) \/ Outranks(s, j, i)
      BY StrictOrder
    <2> HIDE DEF count
    <2> QED BY <1>1, <1>2, <1>3, <2>1
  <1> HIDE DEF count, c
  <1>6. place \in Injection(K, 0 .. c - 1)
    <2>1. place \in [K -> 0 .. c - 1] /\ \A i, j \in K : place[i] = place[j] => i = j
      BY <1>2, <1>5
    <2> HIDE DEF place
    <2> QED BY <2>1, Fun_IsInj
  <1>7. place \in Surjection(K, 0 .. c - 1)
    <2>1. IsFiniteSet(0 .. c - 1) /\ Cardinality(0 .. c - 1) = c
      BY <1>1, FS_Interval
    <2> HIDE DEF place
    <2> QED BY <1>6, <2>1, FS_Injection DEF c
  <1>8. \A n \in 1 .. c : \E i \in K : count(i) = n - 1
    <2>1. \A m \in 0 .. c - 1 : \E i \in K : place[i] = m
      <3> HIDE DEF place
      <3> QED BY <1>7, Fun_SurjectionProperties
    <2> SUFFICES ASSUME NEW n \in 1 .. c PROVE \E i \in K : count(i) = n - 1
      OBVIOUS
    <2>2. n - 1 \in 0 .. c - 1
      BY <1>1
    <2> QED BY <2>1, <2>2
  <1>9. \A n \in 1 .. c : R[n] \in K /\ count(R[n]) = n - 1
    BY <1>4, <1>8
  <1>10. R \in [1 .. c -> K]
    BY <1>4, <1>9
  <1> HIDE DEF R
  <1>11. \A i \in K : \E n \in 1 .. c : R[n] = i
    <2> SUFFICES ASSUME NEW i \in K PROVE \E n \in 1 .. c : R[n] = i
      OBVIOUS
    <2>1. count(i) + 1 \in 1 .. c /\ (count(i) + 1) - 1 = count(i)
      BY <1>1, <1>2
    <2> QED BY <1>5, <1>9, <2>1
  <1>12. \A m, n \in 1 .. c : m < n => Outranks(s, R[m], R[n])
    <2> SUFFICES ASSUME NEW m \in 1 .. c, NEW n \in 1 .. c, m < n
                 PROVE  Outranks(s, R[m], R[n])
      OBVIOUS
    <2>1. R[m] \in K /\ R[n] \in K /\ count(R[m]) = m - 1 /\ count(R[n]) = n - 1
      BY <1>9
    <2>2. R[m] # R[n] /\ ~ (count(R[n]) < count(R[m]))
      BY <1>1, <2>1
    <2> QED BY <1>3, <2>1, <2>2, StrictOrder
  <1> QED BY <1>1, <1>10, <1>11, <1>12 DEF c, R

LEMMA Start == Init => IInv
  <1> SUFFICES ASSUME Init PROVE IInv
    OBVIOUS
  <1>1. PerPage(request) \in Nat /\ PageBudget(request) \in Int
    BY PlanCovers DEF Init
  <1>2. Collected(request, <<>>) \in Nat
    <2>1. <<>> \in Seq({})
      OBVIOUS
    <2> QED BY <2>1, CollectedType
  <1>3. TypeOK
    BY <1>1 DEF Init, TypeOK, AtLeast
  <1>4. FullPagesAddUp
    BY <1>1, <1>2 DEF Init, FullPagesAddUp
  <1> QED BY <1>3, <1>4 DEF IInv, Init

LEMMA Step == IInv /\ [Next]_vars => IInv'
  <1> SUFFICES ASSUME IInv, [Next]_vars PROVE IInv'
    OBVIOUS
  <1> DEFINE Entry == [signature : Signature, score : Nat, position : Nat]
  <1>a. PerPage(request) \in Nat \ {0} /\ PageBudget(request) \in Int
        /\ TargetCount(request) \in Nat
    BY PlanCovers, TargetType DEF IInv, TypeOK
  <1>b. Collected(request, results) \in Nat
    BY CollectedType DEF IInv, TypeOK
  <1>1. ASSUME NEW page \in Page, AskPage(page) PROVE IInv'
    <2>1. request' = request /\ results' \in Seq(Entry)
      BY <1>1, PositionedType, ConcatProperties DEF AskPage, IInv, TypeOK
    <2>2. Collected(request, results') \in Nat
      BY <2>1, CollectedType
    <2>3. tried \in Nat /\ tried' = tried + 1 /\ tried' <= PageBudget(request)
      BY <1>1, <1>a DEF AskPage, Wanting, IInv, TypeOK, AtLeast
    <2>4. TypeOK'
      BY <1>1, <1>a, <2>1, <2>3 DEF AskPage, IInv, TypeOK, AtLeast
    <2>5. FullPagesAddUp'
      <3>1. SUFFICES ASSUME full'
                     PROVE  Collected(request, results') >= (tried + 1) * PerPage(request)
        BY <2>1, <2>3 DEF FullPagesAddUp
      <3>2. Collected(request, results) >= tried * PerPage(request)
        BY <1>1, <3>1 DEF AskPage, Wanting, IInv, FullPagesAddUp
      <3>3. Collected(request, results') >= Collected(request, results) + PerPage(request)
        BY <1>1, <3>1 DEF AskPage
      <3>4. (tried + 1) * PerPage(request) = tried * PerPage(request) + PerPage(request)
        BY <1>a, <2>3
      <3> QED BY <1>a, <1>b, <2>2, <2>3, <3>2, <3>3, <3>4
    <2> QED BY <1>1, <2>4, <2>5 DEF AskPage, Wanting, IInv
  <1>2. CASE PageFails
    <2>1. TypeOK'
      BY <1>2, <1>a DEF PageFails, Wanting, IInv, TypeOK, AtLeast
    <2> QED BY <1>2, <2>1 DEF PageFails, IInv, FullPagesAddUp
  <1>3. CASE Finish
    <2>1. TypeOK'
      BY <1>3, <1>a, <1>b DEF Finish, IInv, TypeOK, AtLeast
    <2>2. FullPagesAddUp'
      BY <1>3 DEF Finish, IInv, FullPagesAddUp, Wanting
    <2>3. tried >= PageBudget(request) \/ Enough(request, results)
      BY <1>3, <1>a DEF Finish, Wanting, IInv, TypeOK, AtLeast
    <2> QED BY <1>3, <2>1, <2>2, <2>3 DEF Finish, IInv
  <1>4. CASE UNCHANGED vars
    BY <1>4 DEF vars, IInv, TypeOK, FullPagesAddUp
  <1> QED BY <1>1, <1>2, <1>3, <1>4 DEF Next

THEOREM Inductive == Spec => []IInv
  BY Start, Step, PTL DEF Spec

\* Every step of a search keeps its bookkeeping within its types, and no search attempts
\* more pages than its budget.
THEOREM TypeCorrect == Spec => []TypeOK
  <1>1. IInv => TypeOK
    BY DEF IInv
  <1> QED BY <1>1, Inductive, PTL

\* For every request and whatever the environment sets max_results_per_page and max_pages
\* to: a search whose pages come back full and new reaches its target, or misses one that
\* is asked for in pages of PageSize by no more than MaxPages of them cannot hold.
THEOREM TargetReached == Spec => []FullPagesSuffice
  <1>1. IInv => FullPagesSuffice
    <2> DEFINE t == TargetCount(request)
               held == PageBudget(request) * PerPage(request)
               n == Collected(request, results)
    <2> SUFFICES ASSUME IInv, pc = "done", full, MaxPages > 0
                 PROVE  shortfall = 0 \/ (t <= MaxResultsPerPage /\ shortfall <= t - PageSize * MaxPages)
      BY DEF FullPagesSuffice
    <2>0. /\ t \in Nat /\ PerPage(request) \in Nat \ {0} /\ PageBudget(request) \in 1 .. MaxPages
          /\ held >= t \/ (t <= MaxResultsPerPage /\ held = PageSize * MaxPages)
      BY PlanCovers, TargetType DEF IInv, TypeOK
    <2>1. /\ t \in Nat /\ PerPage(request) \in Nat \ {0} /\ PageBudget(request) \in Nat /\ held \in Nat
          /\ held >= t \/ (t <= MaxResultsPerPage /\ held = PageSize * MaxPages)
      BY <2>0, SettingsAssumption
    <2>2. n \in Nat
      BY CollectedType DEF IInv, TypeOK
    <2>3. shortfall = AtLeast(0, t - n) /\ (n >= t \/ n >= held)
      <3>1. CASE Enough(request, results)
        BY <3>1 DEF Enough, IInv
      <3>2. CASE tried >= PageBudget(request)
        <4>1. tried = PageBudget(request)
          BY <2>1, <3>2 DEF IInv, TypeOK, AtLeast
        <4> QED BY <4>1 DEF IInv, FullPagesAddUp
      <3> QED BY <3>1, <3>2 DEF IInv
    <2> HIDE DEF t, held, n
    <2>4. CASE n >= t
      BY <2>1, <2>2, <2>3, <2>4 DEF AtLeast
    <2>5. CASE n >= held /\ n < t
      <3>1. t <= MaxResultsPerPage /\ n >= PageSize * MaxPages
        BY <2>1, <2>2, <2>5
      <3>2. PageSize * MaxPages \in Int
        BY SettingsAssumption
      <3> QED BY <2>1, <2>2, <2>3, <2>5, <3>1, <3>2 DEF AtLeast
    <2> QED BY <2>1, <2>2, <2>3, <2>4, <2>5
  <1> QED BY <1>1, Inductive, PTL

\* A search that falls short has attempted every page of its budget.
THEOREM NeverEarly == Spec => []ShortfallIsHonest
  <1>1. IInv => ShortfallIsHonest
    <2> SUFFICES ASSUME IInv, pc = "done", shortfall > 0 PROVE tried = AtLeast(0, PageBudget(request))
      BY DEF ShortfallIsHonest
    <2>1. TargetCount(request) \in Nat /\ Collected(request, results) \in Nat /\ PageBudget(request) \in Int
      BY TargetType, CollectedType, PlanCovers DEF IInv, TypeOK
    <2>2. ~ Enough(request, results)
      BY <2>1 DEF IInv, Enough, AtLeast
    <2> QED BY <2>1, <2>2 DEF IInv, TypeOK, AtLeast
  <1> QED BY <1>1, Inductive, PTL

\* Every answer is the best that was kept, best first, for any pages, scores and ties.
THEOREM AnswersAreBest == Spec => []BestReturned
  <1> DEFINE K == Kept(request, results)
             R == Ranked(results, K)
             t == TargetCount(request)
             c == Cardinality(K)
  <1>1. IInv => BestReturned
    <2> SUFFICES ASSUME IInv, pc = "done" PROVE BestReturned
      BY DEF BestReturned
    <2>1. results \in Seq(Entries) /\ t \in Nat \ {0}
      BY TargetType DEF IInv, TypeOK, Entries
    <2>2. K \in SUBSET (DOMAIN results) /\ IsFiniteSet(K)
      <3>1. IsFiniteSet(DOMAIN results)
        BY <2>1, FS_Interval
      <3>2. K \in SUBSET (DOMAIN results)
        BY DEF Kept, FirstSeen
      <3> QED BY <3>1, <3>2, FS_Subset
    <2>3. /\ c \in Nat /\ R \in [1 .. c -> K]
          /\ \A i \in K : \E n \in 1 .. c : R[n] = i
          /\ \A m, n \in 1 .. c : m < n => Outranks(results, R[m], R[n])
      BY <2>1, <2>2, RankedLists
    <2>4. answer = Cut(R, t) /\ shortfall = AtLeast(0, t - c)
      BY DEF IInv, Best, Collected
    <2> HIDE DEF K, R, t, c
    <2> DEFINE n0 == AtMost(t, c)
    <2>5. n0 \in 0 .. c /\ n0 = t - shortfall
      BY <2>1, <2>3, <2>4 DEF AtMost, AtLeast
    <2>6. R \in Seq(K) /\ Len(R) = c
      BY <2>3
    <2>7. answer = SubSeq(R, 1, n0)
      BY <2>4, <2>6 DEF Cut
    <2> HIDE DEF n0
    <2>8. Len(answer) = n0 /\ DOMAIN answer = 1 .. n0 /\ \A n \in 1 .. n0 : answer[n] = R[n]
      BY <2>5, <2>6, <2>7, SubSeqProperties
    <2>9. \A n \in DOMAIN answer : answer[n] \in K
      BY <2>3, <2>5, <2>8
    <2>10. \A m, n \in DOMAIN answer : m < n => Outranks(results, answer[m], answer[n])
      BY <2>3, <2>5, <2>8
    <2>11. ASSUME NEW n \in DOMAIN answer, NEW j \in K,
                  j \notin {answer[m] : m \in DOMAIN answer}
           PROVE  Outranks(results, answer[n], j)
      <3>1. PICK m \in 1 .. c : R[m] = j
        BY <2>3
      <3>2. m \notin 1 .. n0
        BY <2>8, <2>11, <3>1
      <3>3. n \in 1 .. c /\ n < m /\ answer[n] = R[n]
        BY <2>3, <2>5, <2>8, <3>1, <3>2
      <3> QED BY <2>3, <3>1, <3>3
    <2> QED BY <2>5, <2>8, <2>9, <2>10, <2>11 DEF BestReturned, K, t
  <1> QED BY <1>1, Inductive, PTL

=============================================================================
