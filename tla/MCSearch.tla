------------------------------ MODULE MCSearch ------------------------------
EXTENDS Search, TLC

CONSTANTS both, shared, u1, u2

\* One query finds both URLs, the other one of them.
Finds(q) == IF q = both THEN {u1, u2} ELSE {u2}
About(q) == q

Ask(q, policy, summarize) == [query |-> q, policy |-> policy, summarize |-> summarize]

\* Every policy, with a summary, on the query with one URL.
Policies == {Ask(shared, p, TRUE) : p \in Policy}

\* Plain searches that contend for pages and permits.
Contending == {Ask(both, "use", FALSE), Ask(shared, "use", FALSE)}

Symmetry == Permutations(Request)
=============================================================================
