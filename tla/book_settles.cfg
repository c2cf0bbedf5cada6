\* Fairness: every request ends, and the cache catches up when the writes stop.
CONSTANTS
    None = None
    Users = {u1}
    Contacts = {c1}
    Phones = {}
    Emails = {e1}
    Addresses = {a1}
    Tags = {}
    Fields = {}
    Values = {v1}
    Requests = {p1, p2}
    CacheHasReset = FALSE
    Ops = {"create", "findOne", "findDetail", "update", "remove", "addDetail", "updateDetail"}
SPECIFICATION FairSpec
PROPERTIES RequestsEnd EventuallyFresh
