\* Two overlapping requests on two contacts and their details, any stale copy.
CONSTANTS
    None = None
    Users = {u1}
    Contacts = {c1, c2}
    Phones = {k1, k2}
    Emails = {}
    Addresses = {}
    Tags = {}
    Fields = {}
    Values = {v1}
    Requests = {p1, p2}
    CacheHasReset = FALSE
    Ops = {"create", "update", "remove", "addDetail", "removeDetail"}
SPECIFICATION Spec
SYMMETRY Symmetry
INVARIANT DetailsStayHome
PROPERTIES ImplementsContactBook GoneForGood LostForGood FreshSaveIsExact
