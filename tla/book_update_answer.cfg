\* One request at a time: what update answers.
CONSTANTS
    None = None
    Users = {u1}
    Contacts = {c1}
    Phones = {}
    Emails = {}
    Addresses = {}
    Tags = {}
    Fields = {f1}
    Values = {v1, v2}
    Requests = {p1}
    CacheHasReset = FALSE
    Ops = {"create", "findOne", "update"}
SPECIFICATION Spec
INVARIANT UpdateAnswersUpdated
