\* One upload with a resend, a download and two deletes through two providers;
\* one of the deletes is for the row that a late insert can leave.
CONSTANTS
    u1 = u1
    u2 = u2
    g1 = g1
    d1 = d1
    d2 = d2
    q1 = q1
    q2 = q2
    Null = Null
    Uploads = {u1}
    Gets = {g1}
    Deletes = {d1, d2}
    FileIds = {1, 2}
    Target <- TwoFiles
    Providers = {q1, q2}
    ServedBy <- TwoProviders
    Retries = 1
SPECIFICATION FairSpec
INVARIANTS TypeOK RowsHaveBlobs FilledOncePerProvider
PROPERTIES NotServedAfterDelete EveryRequestEnds
CHECK_DEADLOCK FALSE
