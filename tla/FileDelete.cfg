\* One upload and one delete of its file.
CONSTANTS
    u1 = u1
    u2 = u2
    g1 = g1
    d1 = d1
    d2 = d2
    q1 = q1
    q2 = q2
    Null = Null
    Uploads = {u1}
    Gets = {}
    Deletes = {d1}
    FileIds = {1}
    Target <- FirstFile
    Providers = {q1}
    ServedBy <- OneProvider
    Retries = 0
SPECIFICATION Spec
INVARIANT DeletedMeansRowGone
CHECK_DEADLOCK FALSE
