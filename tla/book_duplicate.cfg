\* Two overlapping creates of a detail with the same value.
CONSTANTS
    None = None
    Users = {u1}
    Contacts = {c1}
    Phones = {}
    Emails = {e1, e2}
    Addresses = {}
    Tags = {}
    Fields = {}
    Values = {v1}
    Requests = {p1, p2}
    CacheHasReset = FALSE
    Ops = {"create", "addDetail"}
SPECIFICATION Spec
INVARIANT ValuesUnique
