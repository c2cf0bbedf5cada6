\* One request at a time: a PATCH after a DELETE.
CONSTANTS
    None = None
    Users = {u1}
    Contacts = {c1}
    Phones = {}
    Emails = {}
    Addresses = {}
    Tags = {}
    Fields = {f1}
    Values = {v1, v2}
    Requests = {p1}
    CacheHasReset = FALSE
    Ops = {"create", "update", "remove"}
SPECIFICATION Spec
PROPERTY DeletedStaysDeleted
