\* Two uploads, each sent once more after a timeout, so that each may leave two
\* rows, and a delete and a download of the first file.
CONSTANTS
    u1 = u1
    u2 = u2
    g1 = g1
    d1 = d1
    d2 = d2
    q1 = q1
    q2 = q2
    Null = Null
    Uploads = {u1, u2}
    Gets = {g1}
    Deletes = {d1}
    FileIds = {1, 2, 3, 4}
    Target <- FirstFile
    Providers = {q1}
    ServedBy <- OneProvider
    Retries = 1
SPECIFICATION Spec
INVARIANT UploadsStay
CHECK_DEADLOCK FALSE
