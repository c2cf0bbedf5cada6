\* Imports and exports of two users, among creates and deletions, of regular and odd files.
\* The bound on the ids stops the instance.
CONSTANTS
    None = None
    n1 = n1
    n2 = n2
    Users = {u1, u2}
    MaxId = 2
    Names = {n1, n2}
    Uploads <- Written
    Text = Text
    Values <- AllValues
    Depth <- Nesting
    Requests = {p1}
SPECIFICATION Spec
SYMMETRY Symmetry
INVARIANTS TransferTypeOK RowsCleaned
PROPERTIES SeparatorFound ImportOnlyAdds ReimportAddsNothing LostOnlyIfNamed
CHECK_DEADLOCK FALSE
