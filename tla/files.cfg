\* Uploads, removals and downloads of two files by two users, two requests at a time.
SPECIFICATION Spec
CONSTANTS
    Users = {u1, u2}
    FileIds = {f1, f2}
    Requests = {p1, p2}
    Drivers = {"local", "s3"}
    Starts = {"image", "script"}
    MaxUnlinks = 2
    None = None
INVARIANTS
    FilesTypeOK
    StorageMatchesTable
    NothingMissing
