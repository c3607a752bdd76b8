------------------------------ MODULE MCDesktop ------------------------------
EXTENDS Desktop, TLC

\* The standard setup; one that pulls, repairs nothing and starts nothing;
\* and one without Docker and images.
Choices == {
    [docker |-> TRUE, repair |-> TRUE, start |-> TRUE, source |-> "bundled"],
    [docker |-> TRUE, repair |-> FALSE, start |-> FALSE, source |-> "online"],
    [docker |-> FALSE, repair |-> FALSE, start |-> TRUE, source |-> "skip"]}

\* Media of this release, and media built for Docker Hub alone, whose
\* images have none of the names a compose .env gives them.
Archives == {{"release", "other"}, {"other"}}
=============================================================================
