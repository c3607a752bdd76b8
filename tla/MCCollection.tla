---------------------------- MODULE MCCollection ----------------------------
EXTENDS Collection

Requests ==
    [results_per_page : {1, 3}, max_pages : {1, 3}, target : {Unset, 1, 2, 3, 5, 7, 8, 14, 22},
     dedupe : BOOLEAN]

\* Runs of consecutive signatures with two scores, possibly led by a repeated one whose score
\* differs from the first time.
Runs ==
    LET run(a, n) == [i \in 1 .. n |-> [signature |-> a + i, score |-> (a + i) % 2]]
    IN  {run(a, n) : a \in {0, 2, 7}, n \in {0, 1, 2, 7}}
        \union {<<[signature |-> b, score |-> (b + 1) % 2]>> \o run(a, n) :
                    a \in {0, 2, 4}, b \in {1, 7}, n \in {1, 2}}
=============================================================================
