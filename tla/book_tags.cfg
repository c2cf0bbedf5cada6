\* Two overlapping requests: PATCHes of one contact among writes of two tags.
CONSTANTS
    None = None
    Users = {u1}
    Contacts = {c1}
    Phones = {}
    Emails = {}
    Addresses = {}
    Tags = {t1, t2}
    Fields = {}
    Values = {v1, v2}
    Requests = {p1, p2}
    CacheHasReset = TRUE
    Ops = {"create", "update", "addTag", "updateTag", "removeTag"}
SPECIFICATION Spec
SYMMETRY Symmetry
INVARIANT TypeOK
PROPERTY FreshSaveIsExact TagsStayGone
