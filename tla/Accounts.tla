------------------------------- MODULE Accounts -------------------------------
(***************************************************************************)
(* AuthService, UsersService and ForgotService: an account from its        *)
(* registration to its deletion, with the codes mailed to confirm its      *)
(* address and to reset its password.  Requests are cut at their awaits.   *)
(*                                                                         *)
(* An account is known by its address: the unique index on email counts    *)
(* soft-deleted rows, so an address has one row for good.  A save writes   *)
(* every column of the entity a request has loaded, deletedAt = null       *)
(* included, over whatever the row holds by then.                          *)
(***************************************************************************)
EXTENDS Naturals

CONSTANTS
    Emails,     \* addresses
    Passwords,  \* what a user types
    Codes,      \* the random codes of confirmation and reset mails
    Requests,   \* the requests that may be under way at one time
    Ops,        \* the operations the clients use
    None,       \* null, and "no such thing"
    Undefined   \* a property a body does not have

AllOps == {"register", "confirmEmail", "forgotPassword", "resetPassword",
           "login", "me", "updateMe", "update", "delete"}

ASSUME OpsAssumption == Ops \subseteq AllOps

\* A password column or property: what was typed, and how often it was hashed.
Stored == [value : Passwords, rounds : Nat]

Plain(w) == [value |-> w, rounds |-> 0]
Hashed(w) == [value |-> w, rounds |-> 1]

\* A loaded user: previousPassword is what loadPreviousPassword keeps of the row.
Entity == [password : Stored \cup {None}, previousPassword : Stored \cup {None},
           active : BOOLEAN, hash : Codes \cup {None}]

Account == [state : {"absent", "live", "deleted"}, password : Stored \cup {None},
            active : BOOLEAN, hash : Codes \cup {None}]

Token == [state : {"absent", "live", "deleted"}, email : Emails \cup {None}]

ASSUME NoneAssumption ==
    None \notin Emails \cup Passwords \cup Codes \cup Stored \cup Entity

ASSUME UndefinedAssumption == Undefined \notin Passwords \cup {None}

VARIABLES
    account,    \* the users table
    token,      \* the forgot table, by the code of its row
    inbox,      \* the confirmation codes mailed to each address
    issued,     \* the codes drawn so far
    sessions,   \* the addresses that hold a JWT
    pc,         \* the await each request is at
    job,        \* the parameters of each request
    held        \* the user entity each request has loaded

tables == <<account, token>>
vars == <<account, token, inbox, issued, sessions, pc, job, held>>

Places == {"idle", "validate", "insert", "mail", "findHash", "findUser", "createToken",
           "mailToken", "findToken", "spend", "findLogin", "provider", "compare", "findMe",
           "load", "save", "reload", "reply"}

Job == [op : AllOps, email : Emails \cup {None}, code : Codes \cup {None},
        password : Passwords \cup {None, Undefined}, oldPassword : Passwords \cup {None},
        active : BOOLEAN]

ASSUME NoneIsNoJobAssumption == None \notin Job

NewJob(op) == [op |-> op, email |-> None, code |-> None, password |-> Undefined,
               oldPassword |-> None, active |-> FALSE]

\* The type invariant: rows, entities and requests have their shapes, and a request
\* about to save holds an entity, whose row is there.
AccountTypeOK ==
    /\ account \in [Emails -> Account]
    /\ token \in [Codes -> Token]
    /\ inbox \in [Emails -> SUBSET Codes]
    /\ issued \subseteq Codes
    /\ sessions \subseteq Emails
    /\ pc \in [Requests -> Places]
    /\ job \in [Requests -> Job \cup {None}]
    /\ held \in [Requests -> Entity \cup {None}]
    /\ \A p \in Requests :
          /\ job[p] = None <=> pc[p] = "idle"
          /\ pc[p] \in {"save", "provider", "compare"} =>
                held[p] # None /\ job[p].email \in Emails /\ account[job[p].email].state # "absent"

Init ==
    /\ account = [e \in Emails |-> [state |-> "absent", password |-> None,
                                    active |-> FALSE, hash |-> None]]
    /\ token = [h \in Codes |-> [state |-> "absent", email |-> None]]
    /\ inbox = [e \in Emails |-> {}]
    /\ issued = {}
    /\ sessions = {}
    /\ pc = [p \in Requests |-> "idle"]
    /\ job = [p \in Requests |-> None]
    /\ held = [p \in Requests |-> None]

-----------------------------------------------------------------------------
(* Finds and saves of users *)

Live(e) == account[e].state = "live"

Loaded(e) == [password |-> account[e].password, previousPassword |-> account[e].password,
              active |-> account[e].active, hash |-> account[e].hash]

\* Object.assign of a body's password: a body without one leaves the user's, and
\* @IsOptional lets a null through.
Assigned(user, password) ==
    CASE password = Undefined -> user
      [] password = None -> [user EXCEPT !.password = None]
      [] OTHER -> [user EXCEPT !.password = Plain(password)]

\* Mutant of SetPassword: every save hashes.
SetPasswordAlways(user) ==
    IF user.password # None THEN [user.password EXCEPT !.rounds = @ + 1] ELSE None

\* The hook before an insert or an update: a password other than the loaded one is
\* plain text, and is hashed.  A null is stored as it is.
SetPassword(user) ==
    IF user.previousPassword # user.password /\ user.password # None
      THEN [user.password EXCEPT !.rounds = @ + 1] ELSE user.password

\* Mutant of SaveUser: a save clears the code but never writes one back.
SaveUserKeepingHash(e, user) ==
    account' = [account EXCEPT ![e] =
        [state |-> "live", password |-> SetPassword(user),
         active |-> user.active, hash |-> IF user.hash = None THEN None ELSE @.hash]]

\* user.save() and repository.save(user).
SaveUser(e, user) ==
    account' = [account EXCEPT ![e] =
        [state |-> "live", password |-> SetPassword(user),
         active |-> user.active, hash |-> user.hash]]

-----------------------------------------------------------------------------
(* Control *)

Goto(p, place) == pc' = [pc EXCEPT ![p] = place]

Arrive(p, j, place) ==
    /\ pc[p] = "idle"
    /\ j.op \in Ops
    /\ job' = [job EXCEPT ![p] = j]
    /\ Goto(p, place)

\* Random codes do not repeat.  A request has its code from its arrival, so that it
\* never waits for one: the number of Codes bounds the requests that draw one.
Draw(h) == h \notin issued /\ issued' = issued \cup {h}

\* The answer is an error; what the request has stored stays.
Throw(p) ==
    /\ Goto(p, "idle")
    /\ job' = [job EXCEPT ![p] = None]
    /\ held' = [held EXCEPT ![p] = None]
    /\ UNCHANGED <<tables, inbox, issued, sessions>>

\* A call of the database, or the transport of a mail, fails.
Fails(p) ==
    /\ pc[p] \notin {"idle", "reply"}
    /\ Throw(p)

Reply(p) ==
    /\ pc[p] = "reply"
    /\ Goto(p, "idle")
    /\ job' = [job EXCEPT ![p] = None]
    /\ held' = [held EXCEPT ![p] = None]
    /\ UNCHANGED <<tables, inbox, issued, sessions>>

-----------------------------------------------------------------------------
(* register(dto), and POST /users: validate, insert, mail *)

Register(p, e, w, active, h) ==
    /\ Draw(h)
    /\ Arrive(p, [NewJob("register") EXCEPT !.email = e, !.password = w,
                                            !.active = active, !.code = h], "validate")
    /\ UNCHANGED <<tables, inbox, sessions, held>>

\* IsNotExist sees live rows only.
EmailFree(p) ==
    /\ pc[p] = "validate"
    /\ job[p].op = "register"
    /\ ~Live(job[p].email)
    /\ Goto(p, "insert")
    /\ UNCHANGED <<tables, inbox, issued, sessions, job, held>>

EmailTaken(p) ==
    /\ pc[p] = "validate"
    /\ job[p].op = "register"
    /\ Live(job[p].email)
    /\ Throw(p)

Insert(p) ==
    /\ pc[p] = "insert"
    /\ account[job[p].email].state = "absent"
    /\ account' = [account EXCEPT ![job[p].email] =
          [state |-> "live", password |-> Hashed(job[p].password),
           active |-> job[p].active, hash |-> job[p].code]]
    /\ Goto(p, "mail")
    /\ UNCHANGED <<token, inbox, issued, sessions, job, held>>

\* The unique index counts the deleted rows too.
InsertRefused(p) ==
    /\ pc[p] = "insert"
    /\ account[job[p].email].state # "absent"
    /\ Throw(p)

Mail(p) ==
    /\ pc[p] = "mail"
    /\ inbox' = [inbox EXCEPT ![job[p].email] = @ \cup {job[p].code}]
    /\ Goto(p, "reply")
    /\ UNCHANGED <<tables, issued, sessions, job, held>>

-----------------------------------------------------------------------------
(* confirmEmail(hash) *)

ConfirmEmail(p, h) ==
    /\ Arrive(p, [NewJob("confirmEmail") EXCEPT !.code = h], "findHash")
    /\ UNCHANGED <<tables, inbox, issued, sessions, held>>

HashFound(p, e) ==
    /\ pc[p] = "findHash"
    /\ Live(e)
    /\ account[e].hash = job[p].code
    /\ job' = [job EXCEPT ![p].email = e]
    /\ held' = [held EXCEPT ![p] = [Loaded(e) EXCEPT !.hash = None, !.active = TRUE]]
    /\ Goto(p, "save")
    /\ UNCHANGED <<tables, inbox, issued, sessions>>

HashNotFound(p) ==
    /\ pc[p] = "findHash"
    /\ \A e \in Emails : Live(e) => account[e].hash # job[p].code
    /\ Throw(p)

-----------------------------------------------------------------------------
(* forgotPassword(email): validate, find, create a token, mail *)

ForgotPassword(p, e, h) ==
    /\ Draw(h)
    /\ Arrive(p, [NewJob("forgotPassword") EXCEPT !.email = e, !.code = h], "validate")
    /\ UNCHANGED <<tables, inbox, sessions, held>>

\* IsExist.
EmailKnown(p) ==
    /\ pc[p] = "validate"
    /\ job[p].op = "forgotPassword"
    /\ Live(job[p].email)
    /\ Goto(p, "findUser")
    /\ UNCHANGED <<tables, inbox, issued, sessions, job, held>>

EmailUnknown(p) ==
    /\ pc[p] = "validate"
    /\ job[p].op = "forgotPassword"
    /\ ~Live(job[p].email)
    /\ Throw(p)

\* A user deleted since the validation gives a token without user.
FindUser(p) ==
    /\ pc[p] = "findUser"
    /\ held' = [held EXCEPT ![p] = IF Live(job[p].email) THEN Loaded(job[p].email) ELSE None]
    /\ Goto(p, "createToken")
    /\ UNCHANGED <<tables, inbox, issued, sessions, job>>

CreateToken(p) ==
    /\ pc[p] = "createToken"
    /\ token' = [token EXCEPT ![job[p].code] =
          [state |-> "live", email |-> IF held[p] = None THEN None ELSE job[p].email]]
    /\ held' = [held EXCEPT ![p] = None]
    /\ Goto(p, "mailToken")
    /\ UNCHANGED <<account, inbox, issued, sessions, job>>

MailToken(p) ==
    /\ pc[p] = "mailToken"
    /\ Goto(p, "reply")
    /\ UNCHANGED <<tables, inbox, issued, sessions, job, held>>

-----------------------------------------------------------------------------
(* resetPassword(hash, newPassword) *)

ResetPassword(p, h, w) ==
    /\ Arrive(p, [NewJob("resetPassword") EXCEPT !.code = h, !.password = w], "findToken")
    /\ UNCHANGED <<tables, inbox, issued, sessions, held>>

\* Mutants of TokenUser: the token's user is joined deleted or not; a token is found
\* deleted or not.
TokenUserWithDeleted(h, e) == token[h].state = "live" /\ token[h].email = e
TokenUserSpent(h, e) == token[h].state # "absent" /\ token[h].email = e /\ Live(e)

\* The eager join of the token's user, which leaves a deleted user out.
TokenUser(h, e) == token[h].state = "live" /\ token[h].email = e /\ Live(e)

TokenFound(p, e) ==
    /\ pc[p] = "findToken"
    /\ TokenUser(job[p].code, e)
    /\ job' = [job EXCEPT ![p].email = e]
    /\ held' = [held EXCEPT ![p] = [Loaded(e) EXCEPT !.password = Plain(job[p].password)]]
    /\ Goto(p, "save")
    /\ UNCHANGED <<tables, inbox, issued, sessions>>

\* No such token, or one whose user is null.
TokenNotFound(p) ==
    /\ pc[p] = "findToken"
    /\ \A e \in Emails : ~TokenUser(job[p].code, e)
    /\ Throw(p)

Spend(p) ==
    /\ pc[p] = "spend"
    /\ token' = [token EXCEPT ![job[p].code].state = "deleted"]
    /\ Goto(p, "reply")
    /\ UNCHANGED <<account, inbox, issued, sessions, job, held>>

-----------------------------------------------------------------------------
(* validateLogin(dto): the user, the provider, and its handler loginWithEmail *)

Login(p, e, w) ==
    /\ Arrive(p, [NewJob("login") EXCEPT !.email = e, !.password = w], "findLogin")
    /\ UNCHANGED <<tables, inbox, issued, sessions, held>>

Admitted(e) == Live(e) /\ account[e].active

LoginFound(p) ==
    /\ pc[p] = "findLogin"
    /\ Admitted(job[p].email)
    /\ held' = [held EXCEPT ![p] = Loaded(job[p].email)]
    /\ Goto(p, "provider")
    /\ UNCHANGED <<tables, inbox, issued, sessions, job>>

LoginRefused(p) ==
    /\ pc[p] = "findLogin"
    /\ ~Admitted(job[p].email)
    /\ Throw(p)

\* The provider of the body is the user's, is active, and is the one of emails.
ProviderValid(p) ==
    /\ pc[p] = "provider"
    /\ Goto(p, "compare")
    /\ UNCHANGED <<tables, inbox, issued, sessions, job, held>>

\* It is not, or the login is an administrator's and the user is none.
ProviderInvalid(p) ==
    /\ pc[p] = "provider"
    /\ Throw(p)

PasswordMatches(p) == held[p].password = Hashed(job[p].password)

LoggedIn(p) ==
    /\ pc[p] = "compare"
    /\ PasswordMatches(p)
    /\ sessions' = sessions \cup {job[p].email}
    /\ Goto(p, "reply")
    /\ UNCHANGED <<tables, inbox, issued, job, held>>

PasswordIncorrect(p) ==
    /\ pc[p] = "compare"
    /\ ~PasswordMatches(p)
    /\ Throw(p)

\* A JWT runs out; nothing else ends one.
JwtExpires(e) ==
    /\ e \in sessions
    /\ sessions' = sessions \ {e}
    /\ UNCHANGED <<tables, inbox, issued, pc, job, held>>

-----------------------------------------------------------------------------
(* GET, PATCH and DELETE /auth/me, which a JWT opens; GET, PATCH and      *)
(* DELETE /users/:id do the same for an administrator, without the old password *)

\* me(user), and the users' findOne: one find, whose answer is not kept.
Me(p, e) ==
    /\ e \in sessions
    /\ Arrive(p, [NewJob("me") EXCEPT !.email = e], "reload")
    /\ UNCHANGED <<tables, inbox, issued, sessions, held>>

Reloaded(p) ==
    /\ pc[p] = "reload"
    /\ Live(job[p].email)
    /\ Goto(p, "reply")
    /\ UNCHANGED <<tables, inbox, issued, sessions, job, held>>

\* Of an update too, when the account has been deleted since its save.
ReloadNotFound(p) ==
    /\ pc[p] = "reload"
    /\ ~Live(job[p].email)
    /\ Throw(p)

\* A new password without the old one next to it is refused at once.  A body without
\* a password, or with null for one, asks for no old password.
UpdateMe(p, e, w, old) ==
    /\ e \in sessions
    /\ w \in Passwords => old # None
    /\ Arrive(p, [NewJob("updateMe") EXCEPT !.email = e, !.password = w,
                                            !.oldPassword = old],
              IF w \in Passwords THEN "findMe" ELSE "load")
    /\ UNCHANGED <<tables, inbox, issued, sessions, held>>

UpdateUser(p, e, w) ==
    /\ Arrive(p, [NewJob("update") EXCEPT !.email = e, !.password = w], "load")
    /\ UNCHANGED <<tables, inbox, issued, sessions, held>>

MeFound(p) ==
    /\ pc[p] = "findMe"
    /\ Live(job[p].email)
    /\ account[job[p].email].password = Hashed(job[p].oldPassword)
    /\ Goto(p, "load")
    /\ UNCHANGED <<tables, inbox, issued, sessions, job, held>>

OldPasswordRefused(p) ==
    /\ pc[p] = "findMe"
    /\ Live(job[p].email) => account[job[p].email].password # Hashed(job[p].oldPassword)
    /\ Throw(p)

\* Mutant of LoadForUpdate: the result of the find is not checked.
LoadUnchecked(p) ==
    /\ pc[p] = "load"
    /\ held' = [held EXCEPT ![p] = Assigned(Loaded(job[p].email), job[p].password)]
    /\ Goto(p, "save")
    /\ UNCHANGED <<tables, inbox, issued, sessions, job>>

\* usersService.update: find, assign the body, ...
LoadForUpdate(p) ==
    /\ pc[p] = "load"
    /\ Live(job[p].email)
    /\ held' = [held EXCEPT ![p] = Assigned(Loaded(job[p].email), job[p].password)]
    /\ Goto(p, "save")
    /\ UNCHANGED <<tables, inbox, issued, sessions, job>>

UpdateNotFound(p) ==
    /\ pc[p] = "load"
    /\ ~Live(job[p].email)
    /\ Throw(p)

\* What a handler does after its save.
AfterSave(op) ==
    CASE op = "resetPassword" -> "spend"
      [] op = "updateMe" -> "reload"
      [] OTHER -> "reply"

\* ... and save, as confirmEmail and resetPassword do.
Save(p) ==
    /\ pc[p] = "save"
    /\ SaveUser(job[p].email, held[p])
    /\ held' = [held EXCEPT ![p] = None]
    /\ Goto(p, AfterSave(job[p].op))
    /\ UNCHANGED <<token, inbox, issued, sessions, job>>

Delete(p, e) ==
    /\ Arrive(p, [NewJob("delete") EXCEPT !.email = e], "reply")
    /\ account' = [account EXCEPT ![e].state = IF @ = "live" THEN "deleted" ELSE @]
    /\ UNCHANGED <<token, inbox, issued, sessions, held>>

-----------------------------------------------------------------------------

Arrival(p) ==
    \/ \E e \in Emails :
          \/ \E h \in Codes : ForgotPassword(p, e, h)
          \/ Delete(p, e)
          \/ Me(p, e)
          \/ \E w \in {None, Undefined} : UpdateUser(p, e, w) \/ UpdateMe(p, e, w, None)
          \/ \E w \in Passwords :
                \/ Login(p, e, w)
                \/ UpdateUser(p, e, w)
                \/ \E old \in Passwords : UpdateMe(p, e, w, old)
                \/ \E active \in BOOLEAN, h \in Codes : Register(p, e, w, active, h)
    \/ \E h \in Codes :
          \/ ConfirmEmail(p, h)
          \/ \E w \in Passwords : ResetPassword(p, h, w)

Step(p) ==
    \/ EmailFree(p) \/ EmailTaken(p) \/ Insert(p) \/ InsertRefused(p)
    \/ Mail(p) \/ Fails(p)
    \/ \E e \in Emails : HashFound(p, e) \/ TokenFound(p, e)
    \/ HashNotFound(p) \/ TokenNotFound(p) \/ Spend(p)
    \/ EmailKnown(p) \/ EmailUnknown(p) \/ FindUser(p) \/ CreateToken(p) \/ MailToken(p)
    \/ LoginFound(p) \/ LoginRefused(p) \/ ProviderValid(p) \/ ProviderInvalid(p)
    \/ LoggedIn(p) \/ PasswordIncorrect(p)
    \/ MeFound(p) \/ OldPasswordRefused(p)
    \/ LoadForUpdate(p) \/ UpdateNotFound(p) \/ Save(p)
    \/ Reloaded(p) \/ ReloadNotFound(p)
    \/ Reply(p)

Next ==
    \/ \E p \in Requests : Arrival(p) \/ Step(p)
    \/ \E e \in Emails : JwtExpires(e)

Spec == Init /\ [][Next]_vars

-----------------------------------------------------------------------------
(* Properties *)

\* Every password in the table is hashed exactly once, whatever loads and saves of
\* the account overlap: no save stores what was typed, none hashes a hash.  An account
\* has no password only where an update wrote the null of its body.
PasswordsHashedOnce ==
    \A e \in Emails :
        account[e].state # "absent" /\ account[e].password # None =>
            account[e].password.rounds = 1

\* An account that is not active can be made so: it holds the one code its mail
\* carries, also after the save of a copy from before a confirmation.
Confirmable ==
    \A e \in Emails : account[e].state # "absent" /\ ~account[e].active =>
        /\ account[e].hash # None
        /\ inbox[e] \subseteq {account[e].hash}

\* No request holds a copy of the account.
NoCopy(e) == \A p \in Requests : held[p] # None => job[p].email # e

AccountLife(e) ==
    CASE account[e].state = "absent" -> "free"
      [] account[e].state = "live" -> "live"
      [] account[e].state = "deleted" -> IF NoCopy(e) THEN "gone" ELSE "deleted"

Addresses == INSTANCE SoftDeletion WITH
    Things <- Emails, life <- [e \in Emails |-> AccountLife(e)]

\* A deleted account with no copy left in a request stays deleted: neither the codes
\* mailed before nor a new registration of the address bring it back.
AccountsEnd == Addresses!LifeSpec

\* No request that has found the code is still to save its password.
NoReset(h) ==
    \A p \in Requests :
        pc[p] \in {"save", "spend"} => job[p].op # "resetPassword" \/ job[p].code # h

CodeLife(h) ==
    CASE token[h].state = "absent" -> "free"
      [] token[h].state = "live" -> "live"
      [] token[h].state = "deleted" -> IF NoReset(h) THEN "gone" ELSE "deleted"

ResetCodes == INSTANCE SoftDeletion WITH
    Things <- Codes, life <- [h \in Codes |-> CodeLife(h)]

\* Two resets that overlap can both use a code.  Once it is spent and the requests
\* that had found it are done, no reset uses it again.
CodesEnd == ResetCodes!LifeSpec

\* The request's copy is what the row holds, but for what the request changes.
SavesFresh(p) ==
    LET row == account[job[p].email] IN
    /\ row.state = "live"
    /\ held[p].previousPassword = row.password
    /\ job[p].op # "confirmEmail" => held[p].active = row.active /\ held[p].hash = row.hash

OwnChangeOnly(p) ==
    account' = [account EXCEPT ![job[p].email] =
        [state |-> "live",
         password |-> CASE job[p].password = Undefined -> @.password
                        [] job[p].password = None -> None
                        [] OTHER -> Hashed(job[p].password),
         active |-> @.active \/ job[p].op = "confirmEmail",
         hash |-> IF job[p].op = "confirmEmail" THEN None ELSE @.hash]]

\* Confirmations, resets and updates all write the whole row.  One that overlaps no
\* other write of the row, and does not fail, changes what it was asked for, and
\* nothing else.
FreshAccountSave ==
    [][\A p \in Requests :
          pc[p] = "save" /\ pc'[p] # "save" /\ ~Fails(p) /\ SavesFresh(p)
          => OwnChangeOnly(p)]_vars

=============================================================================
