\* Two overlapping requests on one account, a confirmation and a reset code.
CONSTANTS
    None = None
    Undefined = Undefined
    Emails = {e1}
    Passwords = {w1, w2}
    Codes = {h1, h2}
    Requests = {p1, p2}
    Ops = {"register", "confirmEmail", "forgotPassword", "resetPassword", "login", "me", "updateMe", "update", "delete"}
SPECIFICATION Spec
SYMMETRY Symmetry
INVARIANTS AccountTypeOK PasswordsHashedOnce Confirmable
PROPERTIES AccountsEnd CodesEnd FreshAccountSave
