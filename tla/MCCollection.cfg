SPECIFICATION Spec
CONSTANTS
    Signature = {1, 2, 3, 4, 5, 6, 7, 8, 9, 10, 11, 12, 13, 14}
    Request <- Requests
    Page <- Runs
    Unset = Unset
    MaxResultsPerPage = 7
    MaxPages = 3
    PageSize = 2
INVARIANTS TypeOK FullPagesSuffice ShortfallIsHonest BestReturned
CHECK_DEADLOCK FALSE
