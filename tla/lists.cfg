\* Searches of two users' contacts among creates, imports and deletions.
CONSTANTS
    None = None
    Users = {u1, u2}
    Contacts = {1, 2}
    Phones = {}
    Emails = {}
    Addresses = {}
    Tags = {}
    Fields = {f1}
    Values = {v1}
    Requests = {p1}
    CacheHasReset = TRUE
    Ops = {"create", "remove"}
    Listers = {l1}
    Queries <- Searches
    MaxLimit = 1
SPECIFICATION FairListSpec
INVARIANTS ListTypeOK ListsOwn WalkVisitsAll
PROPERTY ListsSettle
