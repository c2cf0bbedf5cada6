--------------------------- MODULE Accounts_proofs ---------------------------
(***************************************************************************)
(* Proofs about Accounts: types, what is in the password columns, that an  *)
(* account can always be confirmed, what a save changes, and that deleted  *)
(* accounts and spent codes do not come back.                              *)
(***************************************************************************)
EXTENDS Accounts, TLAPS

-----------------------------------------------------------------------------
(* The inductive invariant *)

\* The parameters that a request at an await has.
JobFits(place, j) ==
    /\ j \in Job
    /\ place = "validate" => j.op \in {"register", "forgotPassword"}
    /\ place \in {"insert", "mail"} => j.op = "register"
    /\ place = "findHash" => j.op = "confirmEmail"
    /\ place \in {"findUser", "createToken", "mailToken"} => j.op = "forgotPassword"
    /\ place \in {"findToken", "spend"} => j.op = "resetPassword"
    /\ place \in {"findLogin", "provider", "compare"} => j.op = "login"
    /\ place = "findMe" => j.op = "updateMe" /\ j.oldPassword \in Passwords
    /\ place = "load" => j.op \in {"updateMe", "update"}
    /\ place = "save" => j.op \in {"confirmEmail", "resetPassword", "updateMe", "update"}
    /\ place = "reload" => j.op \in {"me", "updateMe"}
    /\ j.op \in {"register", "forgotPassword", "confirmEmail", "resetPassword"} =>
          j.code \in Codes
    /\ j.op \in {"register", "resetPassword", "login"} => j.password \in Passwords
    /\ j.op = "confirmEmail" => j.password = Undefined
    /\ j.op \notin {"confirmEmail", "resetPassword"} \/ place = "save" => j.email \in Emails

\* A password that is not null is hashed once.
HashedOnce(password) == password = None \/ (password \in Stored /\ password.rounds = 1)

\* The password of an entity after a body is assigned to it, and after its save.
AfterAssign(word, loaded) ==
    CASE word = Undefined -> loaded [] word = None -> None [] OTHER -> Plain(word)

AfterSetPassword(word, loaded) ==
    CASE word = Undefined -> loaded [] word = None -> None [] OTHER -> Hashed(word)

\* The entity a request holds was hashed once when it was loaded, and is about to be
\* saved with what the request asked for.
EntityFits(place, j, user) ==
    /\ user \in Entity
    /\ place \in {"createToken", "save", "provider", "compare", "reply"}
    /\ j.email \in Emails
    /\ HashedOnce(user.previousPassword)
    /\ place = "save" =>
          /\ user.password = AfterAssign(j.password, user.previousPassword)
          /\ j.op = "confirmEmail" => user.active /\ user.hash = None

RequestFits(place, j, user) ==
    /\ place \in Places
    /\ place = "idle" <=> j = None
    /\ place # "idle" => JobFits(place, j)
    /\ user # None => EntityFits(place, j, user)
    /\ place \in {"save", "provider", "compare"} => user # None

RequestsFit == \A p \in Requests : RequestFits(pc[p], job[p], held[p])

RowsFit ==
    /\ account \in [Emails -> Account]
    /\ token \in [Codes -> Token]
    /\ inbox \in [Emails -> SUBSET Codes]
    /\ issued \subseteq Codes
    /\ sessions \subseteq Emails
    /\ \A e \in Emails : account[e].state # "absent" => HashedOnce(account[e].password)

Mailing(p, e) == pc[p] = "mail" /\ job[p].email = e

\* A row or an entity that is not active has the code of every mail sent, or about
\* to be sent, to its address.
CanConfirm(e, active, hash) ==
    ~active =>
        /\ hash # None
        /\ inbox[e] \subseteq {hash}
        /\ \A p \in Requests : Mailing(p, e) => job[p].code = hash

RowsConfirmable ==
    \A e \in Emails :
        IF account[e].state = "absent"
          THEN inbox[e] = {} /\ \A p \in Requests :
                  ~Mailing(p, e) /\ (held[p] # None => job[p].email # e)
          ELSE CanConfirm(e, account[e].active, account[e].hash)

\* A copy from before a confirmation can be confirmed as well.
CopiesConfirmable ==
    \A p \in Requests : held[p] # None =>
        CanConfirm(job[p].email, held[p].active, held[p].hash)

\* Request p is to create the token of code h.
Creating(p, h) ==
    /\ pc[p] \in {"validate", "findUser", "createToken"}
    /\ job[p].op = "forgotPassword" /\ job[p].code = h

\* Request p has found code h, and is to save the password or to delete the token.
Resetting(p, h) ==
    pc[p] \in {"save", "spend"} /\ job[p].op = "resetPassword" /\ job[p].code = h

\* A code becomes a token once.
TokensOnce ==
    \A h \in Codes :
        /\ token[h].state # "absent" => h \in issued
        /\ \A p \in Requests :
              /\ Creating(p, h) =>
                    /\ h \in issued /\ token[h].state = "absent"
                    /\ \A q \in Requests : Creating(q, h) => q = p
              /\ Resetting(p, h) => token[h].state # "absent"

Shapes ==
    /\ pc \in [Requests -> Places]
    /\ job \in [Requests -> Job \cup {None}]
    /\ held \in [Requests -> Entity \cup {None}]
    /\ RowsFit
    /\ RequestsFit

AccountsInv ==
    /\ Shapes
    /\ RowsConfirmable
    /\ CopiesConfirmable
    /\ TokensOnce

-----------------------------------------------------------------------------
(* Shapes *)

LEMMA InitShapes == Init => Shapes
<1> SUFFICES ASSUME Init
             PROVE  Shapes
  OBVIOUS
<1>1. RowsFit
  BY DEF Init, RowsFit, Account, Token
<1>2. RequestsFit
  BY DEF Init, RequestsFit, RequestFits, Places
<1> QED
  BY <1>1, <1>2 DEF Init, Shapes, Places

\* The requests but p have not moved.
OthersStay(p) ==
    \A q \in Requests \ {p} : pc'[q] = pc[q] /\ job'[q] = job[q] /\ held'[q] = held[q]

\* A step of request p has only to leave the tables and p well-formed.
LEMMA StepShapes ==
    ASSUME Shapes, RowsFit', NEW p \in Requests, NEW place, NEW j, NEW user,
           pc' = [pc EXCEPT ![p] = place],
           job' = [job EXCEPT ![p] = j],
           held' = [held EXCEPT ![p] = user],
           RequestFits(place, j, user)
    PROVE  /\ Shapes' /\ OthersStay(p)
           /\ pc'[p] = place /\ job'[p] = j /\ held'[p] = user
<1>1. /\ place \in Places
      /\ j \in Job \cup {None}
      /\ user \in Entity \cup {None}
  BY DEF RequestFits, JobFits, EntityFits
<1>2. OthersStay(p) /\ pc'[p] = place /\ job'[p] = j /\ held'[p] = user
  BY DEF Shapes, OthersStay
<1>3. RequestsFit'
  <2> SUFFICES ASSUME NEW q \in Requests
               PROVE  RequestFits(pc'[q], job'[q], held'[q])
    BY DEF RequestsFit
  <2>1. CASE q = p
    BY <1>2, <2>1
  <2>2. CASE q # p
    BY <1>2, <2>2 DEF Shapes, RequestsFit, OthersStay
  <2> QED
    BY <2>1, <2>2
<1> QED
  BY <1>1, <1>2, <1>3 DEF Shapes

\* Nothing of the tables changes but the sessions.
LEMMA RowsRest ==
    ASSUME RowsFit, UNCHANGED <<tables, inbox, issued>>, sessions' \subseteq Emails
    PROVE  RowsFit'
BY DEF RowsFit, tables

\* A request under way has a job that fits its await.
LEMMA JobUnderWay ==
    ASSUME Shapes, NEW p \in Requests, pc[p] # "idle"
    PROVE  JobFits(pc[p], job[p]) /\ job[p] # None /\ pc[p] \in Places
BY DEF Shapes, RequestsFit, RequestFits

LEMMA HeldFits ==
    ASSUME Shapes, NEW p \in Requests, held[p] # None
    PROVE  EntityFits(pc[p], job[p], held[p])
BY DEF Shapes, RequestsFit, RequestFits

LEMMA ThrowShapes ==
    ASSUME Shapes, NEW p \in Requests, pc[p] # "idle", Throw(p)
    PROVE  /\ Shapes' /\ OthersStay(p)
           /\ pc'[p] = "idle" /\ job'[p] = None /\ held'[p] = None
<1>1. RowsFit'
  BY RowsRest DEF Shapes, RowsFit, Throw, tables
<1>2. RequestFits("idle", None, None)
  BY DEF RequestFits, Places
<1> QED
  BY <1>1, <1>2, StepShapes DEF Throw, Goto

LEMMA ReplyShapes ==
    ASSUME Shapes, NEW p \in Requests, Reply(p)
    PROVE  /\ Shapes' /\ OthersStay(p)
           /\ pc'[p] = "idle" /\ job'[p] = None /\ held'[p] = None
<1>1. RowsFit'
  BY RowsRest DEF Shapes, RowsFit, Reply, tables
<1>2. RequestFits("idle", None, None)
  BY DEF RequestFits, Places
<1> QED
  BY <1>1, <1>2, StepShapes DEF Reply, Goto

\* The steps that only move on.
Moves1(p) ==
    \/ EmailFree(p) \/ EmailKnown(p) \/ MailToken(p) \/ ProviderValid(p)
    \/ LoggedIn(p) \/ MeFound(p) \/ Reloaded(p)

LEMMA MoveShapes ==
    ASSUME Shapes, NEW p \in Requests, Moves1(p)
    PROVE  /\ Shapes' /\ OthersStay(p)
           /\ pc[p] # "idle" /\ job'[p] = job[p] /\ held'[p] = held[p]
           /\ pc'[p] \in {"insert", "findUser", "compare", "load", "reply"}
           /\ UNCHANGED <<account, token, inbox, issued>>
<1>1. PICK place \in {"insert", "findUser", "compare", "load", "reply"} :
         /\ pc[p] # "idle"
         /\ place = "insert" => job[p].op = "register"
         /\ place = "findUser" => pc[p] = "validate" /\ job[p].op = "forgotPassword"
         /\ place = "compare" => pc[p] = "provider"
         /\ place = "load" => pc[p] = "findMe"
         /\ pc[p] \notin {"save", "createToken", "reply"}
         /\ pc[p] = "provider" => place = "compare"
         /\ pc[p] = "compare" => place = "reply"
         /\ Goto(p, place)
         /\ UNCHANGED <<account, token, inbox, issued, job, held>>
  BY DEF Moves1, EmailFree, EmailKnown, MailToken, ProviderValid, LoggedIn, MeFound,
         Reloaded, tables
<1>2. JobFits(pc[p], job[p]) /\ job[p] # None /\ pc[p] \in Places
  BY <1>1, JobUnderWay
<1>3. sessions' \subseteq Emails
  <2>1. UNCHANGED sessions \/ (pc[p] = "compare" /\ sessions' = sessions \cup {job[p].email})
    BY DEF Moves1, EmailFree, EmailKnown, MailToken, ProviderValid, LoggedIn, MeFound,
           Reloaded
  <2> QED
    BY <1>2, <2>1 DEF JobFits, Shapes, RowsFit
<1>4. RowsFit'
  BY <1>1, <1>3, RowsRest DEF Shapes, tables
<1>5. RequestFits(place, job[p], held[p])
  <2>1. JobFits(place, job[p])
    BY <1>1, <1>2 DEF JobFits
  <2>2. held[p] # None => EntityFits(place, job[p], held[p])
    BY <1>1, HeldFits DEF EntityFits
  <2>3. place = "compare" => held[p] # None
    BY <1>1 DEF Shapes, RequestsFit, RequestFits
  <2> QED
    BY <1>1, <1>2, <2>1, <2>2, <2>3 DEF RequestFits, Places
<1>6. job' = [job EXCEPT ![p] = job[p]] /\ held' = [held EXCEPT ![p] = held[p]]
  BY <1>1 DEF Shapes
<1> QED
  BY <1>1, <1>4, <1>5, <1>6, StepShapes DEF Goto

\* What a find returns.
LEMMA LoadedFits ==
    ASSUME Shapes, NEW e \in Emails, Live(e)
    PROVE  /\ Loaded(e) \in Entity
           /\ HashedOnce(Loaded(e).previousPassword)
           /\ Loaded(e).password = Loaded(e).previousPassword
           /\ Loaded(e).active = account[e].active
           /\ Loaded(e).hash = account[e].hash
BY DEF Shapes, RowsFit, Live, Loaded, Entity, Account

\* What a load of p for address e leaves behind.
LoadsOf(p, e) ==
    /\ Shapes' /\ OthersStay(p)
    /\ pc[p] # "idle" /\ Live(e)
    /\ pc'[p] \in {"save", "createToken", "provider"}
    /\ job'[p].email = e /\ job'[p].op = job[p].op /\ job'[p].code = job[p].code
    /\ held'[p] # None
    /\ held'[p].active \/
          (held'[p].active = account[e].active /\ held'[p].hash = account[e].hash)
    /\ UNCHANGED <<account, token, inbox, issued>>

\* The steps that load a user.
LEMMA LoadShapes ==
    ASSUME Shapes, NEW p \in Requests, NEW e \in Emails,
           NEW place \in {"save", "createToken", "provider"}, NEW j, NEW user,
           pc[p] # "idle", Live(e),
           Goto(p, place), job' = [job EXCEPT ![p] = j], held' = [held EXCEPT ![p] = user],
           JobFits(place, j), j.email = e, j.op = job[p].op, j.code = job[p].code,
           EntityFits(place, j, user),
           user.active \/ (user.active = account[e].active /\ user.hash = account[e].hash),
           UNCHANGED <<tables, inbox, issued, sessions>>
    PROVE  LoadsOf(p, e)
<1>1. RowsFit'
  BY RowsRest DEF Shapes, RowsFit, tables
<1>2. user # None /\ j # None
  BY NoneAssumption, NoneIsNoJobAssumption DEF JobFits, EntityFits
<1>3. RequestFits(place, j, user)
  BY <1>2 DEF RequestFits, Places
<1>4. /\ Shapes' /\ OthersStay(p)
      /\ pc'[p] = place /\ job'[p] = j /\ held'[p] = user
  <2>1. pc' = [pc EXCEPT ![p] = place]
    BY DEF Goto
  <2> QED
    BY ONLY Shapes, <1>1, <1>3, <2>1, job' = [job EXCEPT ![p] = j],
       held' = [held EXCEPT ![p] = user], p \in Requests, StepShapes
<1> QED
  BY <1>2, <1>4 DEF LoadsOf, tables

\* A step that leaves the jobs alone.
LEMMA SameJob ==
    ASSUME Shapes, NEW p \in Requests, UNCHANGED job
    PROVE  job' = [job EXCEPT ![p] = job[p]]
BY DEF Shapes

LEMMA HashFoundLoads ==
    ASSUME Shapes, NEW p \in Requests, NEW e \in Emails, HashFound(p, e)
    PROVE  LoadsOf(p, e)
<1> DEFINE j == [job[p] EXCEPT !.email = e]
           user == [Loaded(e) EXCEPT !.hash = None, !.active = TRUE]
<1>1. pc[p] = "findHash" /\ Live(e) /\ JobFits("findHash", job[p])
  BY JobUnderWay DEF HashFound
<1>2. /\ user \in Entity /\ user.active /\ user.hash = None
      /\ HashedOnce(user.previousPassword) /\ user.password = user.previousPassword
  BY <1>1, LoadedFits DEF Entity
<1>3. j \in Job /\ j.op = "confirmEmail" /\ j.email = e /\ j.password = Undefined /\ j.code \in Codes
  BY <1>1 DEF JobFits, Job
<1>4. JobFits("save", j) /\ j.op = job[p].op /\ j.code = job[p].code
  BY <1>1, <1>3 DEF JobFits, Job
<1>5. EntityFits("save", j, user)
  BY <1>2, <1>3, UndefinedAssumption DEF EntityFits, AfterAssign
<1>6. /\ job' = [job EXCEPT ![p] = j] /\ held' = [held EXCEPT ![p] = user]
      /\ Goto(p, "save") /\ UNCHANGED <<tables, inbox, issued, sessions>>
  BY DEF HashFound
<1> HIDE DEF j, user
<1> QED
  BY <1>1, <1>2, <1>3, <1>4, <1>5, <1>6, LoadShapes

LEMMA TokenFoundLoads ==
    ASSUME Shapes, NEW p \in Requests, NEW e \in Emails, TokenFound(p, e)
    PROVE  LoadsOf(p, e)
<1> DEFINE j == [job[p] EXCEPT !.email = e]
           user == [Loaded(e) EXCEPT !.password = Plain(job[p].password)]
<1>1. /\ pc[p] = "findToken" /\ Live(e) /\ JobFits("findToken", job[p])
      /\ job[p].password \in Passwords
  BY JobUnderWay DEF TokenFound, TokenUser, JobFits
<1>2. Plain(job[p].password) \in Stored
  BY <1>1 DEF Plain, Stored
<1>3. /\ user \in Entity /\ user.active = account[e].active /\ user.hash = account[e].hash
      /\ HashedOnce(user.previousPassword) /\ user.password = Plain(job[p].password)
  BY <1>1, <1>2, LoadedFits DEF Entity
<1>4. /\ j \in Job /\ j.op = "resetPassword" /\ j.email = e
      /\ j.password = job[p].password /\ j.code \in Codes
  BY <1>1 DEF JobFits, Job
<1>5. JobFits("save", j) /\ j.op = job[p].op /\ j.code = job[p].code
  BY <1>1, <1>4 DEF JobFits, Job
<1>6. EntityFits("save", j, user)
  BY <1>1, <1>3, <1>4, NoneAssumption, UndefinedAssumption DEF EntityFits, AfterAssign
<1>7. /\ job' = [job EXCEPT ![p] = j] /\ held' = [held EXCEPT ![p] = user]
      /\ Goto(p, "save") /\ UNCHANGED <<tables, inbox, issued, sessions>>
  BY DEF TokenFound
<1> HIDE DEF j, user
<1> QED
  BY <1>1, <1>3, <1>4, <1>5, <1>6, <1>7, LoadShapes

LEMMA LoadForUpdateLoads ==
    ASSUME Shapes, NEW p \in Requests, LoadForUpdate(p)
    PROVE  LoadsOf(p, job[p].email)
<1> DEFINE e == job[p].email
           user == Assigned(Loaded(e), job[p].password)
<1>1. /\ pc[p] = "load" /\ Live(e) /\ JobFits("load", job[p]) /\ e \in Emails
      /\ job[p].password \in Passwords \cup {None, Undefined}
  BY JobUnderWay DEF LoadForUpdate, JobFits, Job
<1>2. /\ Loaded(e) \in Entity /\ HashedOnce(Loaded(e).previousPassword)
      /\ Loaded(e).password = Loaded(e).previousPassword
      /\ Loaded(e).active = account[e].active /\ Loaded(e).hash = account[e].hash
  BY <1>1, LoadedFits
<1>3. /\ user \in Entity /\ user.active = account[e].active /\ user.hash = account[e].hash
      /\ HashedOnce(user.previousPassword)
      /\ user.password = AfterAssign(job[p].password, user.previousPassword)
  <2>1. CASE job[p].password = Undefined
    BY <1>2, <2>1, UndefinedAssumption DEF Assigned, AfterAssign
  <2>2. CASE job[p].password = None
    BY <1>2, <2>2, UndefinedAssumption DEF Assigned, AfterAssign, Entity
  <2>3. CASE job[p].password \in Passwords
    <3>1. job[p].password # Undefined /\ job[p].password # None
      BY <2>3, UndefinedAssumption, NoneAssumption
    <3>2. Plain(job[p].password) \in Stored
      BY <2>3 DEF Plain, Stored
    <3>3. user = [Loaded(e) EXCEPT !.password = Plain(job[p].password)]
      BY <3>1 DEF Assigned
    <3> QED
      BY <1>2, <3>1, <3>2, <3>3 DEF AfterAssign, Entity
  <2> QED
    BY <1>1, <2>1, <2>2, <2>3
<1>4. JobFits("save", job[p])
  BY <1>1 DEF JobFits
<1>5. EntityFits("save", job[p], user)
  BY <1>1, <1>3 DEF EntityFits, JobFits
<1>6. /\ held' = [held EXCEPT ![p] = user] /\ job' = [job EXCEPT ![p] = job[p]]
      /\ Goto(p, "save") /\ UNCHANGED <<tables, inbox, issued, sessions>>
  BY SameJob DEF LoadForUpdate
<1> HIDE DEF user
<1> QED
  BY <1>1, <1>3, <1>4, <1>5, <1>6, LoadShapes

LEMMA LoginFoundLoads ==
    ASSUME Shapes, NEW p \in Requests, LoginFound(p)
    PROVE  LoadsOf(p, job[p].email)
<1> DEFINE e == job[p].email
<1>1. pc[p] = "findLogin" /\ Live(e) /\ JobFits("findLogin", job[p]) /\ e \in Emails
  BY JobUnderWay DEF LoginFound, Admitted, JobFits
<1>2. JobFits("provider", job[p])
  BY <1>1 DEF JobFits
<1>3. EntityFits("provider", job[p], Loaded(e))
  BY <1>1, LoadedFits DEF EntityFits
<1>4. /\ held' = [held EXCEPT ![p] = Loaded(e)] /\ job' = [job EXCEPT ![p] = job[p]]
      /\ Goto(p, "provider") /\ UNCHANGED <<tables, inbox, issued, sessions>>
  BY SameJob DEF LoginFound
<1> QED
  BY <1>1, <1>2, <1>3, <1>4, LoadedFits, LoadShapes

\* A token can be for nobody.
LEMMA FindUserLoads ==
    ASSUME Shapes, NEW p \in Requests, FindUser(p)
    PROVE  \/ LoadsOf(p, job[p].email)
           \/ /\ Shapes' /\ OthersStay(p)
              /\ job'[p] = job[p] /\ held'[p] = None /\ pc'[p] = "createToken"
              /\ UNCHANGED <<account, token, inbox, issued>>
<1> DEFINE e == job[p].email
<1>1. pc[p] = "findUser" /\ JobFits("findUser", job[p]) /\ e \in Emails
  BY JobUnderWay DEF FindUser, JobFits
<1>2. JobFits("createToken", job[p])
  BY <1>1 DEF JobFits
<1>3. CASE Live(e)
  <2>1. EntityFits("createToken", job[p], Loaded(e))
    BY <1>1, <1>3, LoadedFits DEF EntityFits
  <2>2. /\ held' = [held EXCEPT ![p] = Loaded(e)] /\ job' = [job EXCEPT ![p] = job[p]]
        /\ Goto(p, "createToken") /\ UNCHANGED <<tables, inbox, issued, sessions>>
    BY <1>3, SameJob DEF FindUser
  <2> QED
    BY <1>1, <1>2, <1>3, <2>1, <2>2, LoadedFits, LoadShapes
<1>4. CASE ~Live(e)
  <2>1. RowsFit'
    BY RowsRest DEF Shapes, RowsFit, FindUser, tables
  <2>2. RequestFits("createToken", job[p], None)
    BY <1>1, <1>2, JobUnderWay DEF RequestFits, Places
  <2>3. job' = [job EXCEPT ![p] = job[p]]
    BY DEF Shapes, FindUser
  <2>4. held' = [held EXCEPT ![p] = None]
    BY <1>4 DEF FindUser
  <2> QED
    BY <2>1, <2>2, <2>3, <2>4, StepShapes DEF FindUser, Goto, tables
<1> QED
  BY <1>3, <1>4

\* The statements of p, which let go of its entity or leave it.
Statement(p) == Insert(p) \/ Mail(p) \/ CreateToken(p) \/ Spend(p) \/ Save(p)

\* A save stores a password that is hashed once.
LEMMA SetPasswordFits ==
    ASSUME NEW place, NEW j, NEW user, EntityFits(place, j, user), place = "save",
           j.password \in Passwords \cup {None, Undefined}
    PROVE  /\ HashedOnce(SetPassword(user))
           /\ SetPassword(user) = AfterSetPassword(j.password, user.previousPassword)
<1>1. /\ HashedOnce(user.previousPassword)
      /\ user.password = AfterAssign(j.password, user.previousPassword)
  BY DEF EntityFits
<1>2. CASE j.password = Undefined
  BY <1>1, <1>2, UndefinedAssumption DEF SetPassword, AfterAssign, AfterSetPassword
<1>3. CASE j.password = None
  BY <1>1, <1>3, UndefinedAssumption DEF SetPassword, AfterAssign, AfterSetPassword, HashedOnce
<1>4. CASE j.password \in Passwords
  <2>1. j.password # Undefined /\ j.password # None
    BY <1>4, UndefinedAssumption, NoneAssumption
  <2>2. /\ user.password = Plain(j.password)
        /\ AfterSetPassword(j.password, user.previousPassword) = Hashed(j.password)
    BY <1>1, <2>1 DEF AfterAssign, AfterSetPassword
  <2>3. Plain(j.password) \in Stored /\ Hashed(j.password) \in Stored
    BY <1>4 DEF Plain, Hashed, Stored
  <2>4. user.password # user.previousPassword /\ user.password # None
    BY <1>1, <2>2, <2>3, NoneAssumption DEF HashedOnce, Plain
  <2>5. SetPassword(user) = Hashed(j.password)
    BY <2>2, <2>4 DEF SetPassword, Plain, Hashed
  <2> QED
    BY <2>2, <2>3, <2>5 DEF HashedOnce, Hashed
<1> QED
  BY <1>2, <1>3, <1>4

LEMMA SaveRows ==
    ASSUME Shapes, NEW p \in Requests, Save(p)
    PROVE  /\ RowsFit'
           /\ job[p].email \in Emails
           /\ account' = [account EXCEPT ![job[p].email] =
                 [state |-> "live", password |-> SetPassword(held[p]),
                  active |-> held[p].active, hash |-> held[p].hash]]
           /\ SetPassword(held[p]) =
                 AfterSetPassword(job[p].password, held[p].previousPassword)
<1>1. /\ pc[p] = "save" /\ held[p] # None /\ JobFits("save", job[p])
      /\ EntityFits("save", job[p], held[p])
  BY JobUnderWay, HeldFits DEF Save, Shapes, RequestsFit, RequestFits
<1>2. /\ job[p].email \in Emails /\ job[p].password \in Passwords \cup {None, Undefined}
      /\ held[p].active \in BOOLEAN /\ held[p].hash \in Codes \cup {None}
  BY <1>1 DEF JobFits, EntityFits, Job, Entity
<1>3. /\ HashedOnce(SetPassword(held[p]))
      /\ SetPassword(held[p]) = AfterSetPassword(job[p].password, held[p].previousPassword)
  BY <1>1, <1>2, SetPasswordFits
<1>4. account' = [account EXCEPT ![job[p].email] =
                 [state |-> "live", password |-> SetPassword(held[p]),
                  active |-> held[p].active, hash |-> held[p].hash]]
  BY DEF Save, SaveUser
<1>5. UNCHANGED <<token, inbox, issued, sessions>>
  BY DEF Save
<1>6. RowsFit'
  BY <1>2, <1>3, <1>4, <1>5 DEF Shapes, RowsFit, Account, HashedOnce
<1> QED
  BY <1>2, <1>3, <1>4, <1>6

LEMMA StatementRows ==
    ASSUME Shapes, NEW p \in Requests, Statement(p)
    PROVE  RowsFit'
<1>1. CASE Insert(p)
  <2>1. /\ job[p].email \in Emails /\ job[p].password \in Passwords
        /\ job[p].active \in BOOLEAN /\ job[p].code \in Codes
    BY <1>1, JobUnderWay DEF Insert, JobFits, Job
  <2>2. Hashed(job[p].password) \in Stored /\ HashedOnce(Hashed(job[p].password))
    BY <2>1 DEF Hashed, Stored, HashedOnce
  <2> QED
    BY <1>1, <2>1, <2>2 DEF Insert, Shapes, RowsFit, Account
<1>2. CASE Mail(p)
  <2>1. job[p].email \in Emails /\ job[p].code \in Codes
    BY <1>2, JobUnderWay DEF Mail, JobFits
  <2> QED
    BY <1>2, <2>1 DEF Mail, Shapes, RowsFit, tables
<1>3. CASE CreateToken(p)
  <2>1. job[p].email \in Emails /\ job[p].code \in Codes
    BY <1>3, JobUnderWay DEF CreateToken, JobFits
  <2> QED
    BY <1>3, <2>1 DEF CreateToken, Shapes, RowsFit, Token
<1>4. CASE Spend(p)
  <2>1. job[p].code \in Codes
    BY <1>4, JobUnderWay DEF Spend, JobFits
  <2> QED
    BY <1>4, <2>1 DEF Spend, Shapes, RowsFit, Token
<1>5. CASE Save(p)
  BY <1>5, SaveRows
<1> QED
  BY <1>1, <1>2, <1>3, <1>4, <1>5 DEF Statement

LEMMA StatementShapes ==
    ASSUME Shapes, NEW p \in Requests, Statement(p)
    PROVE  /\ Shapes' /\ OthersStay(p)
           /\ pc[p] # "idle" /\ job'[p] = job[p] /\ held'[p] = None
           /\ pc'[p] \in {"mail", "mailToken", "spend", "reload", "reply"}
           /\ pc'[p] = "mail" => Insert(p)
           /\ pc'[p] = "spend" => pc[p] = "save" /\ job[p].op = "resetPassword"
<1>1. PICK place \in {"mail", "mailToken", "spend", "reload", "reply"} :
         /\ pc[p] # "idle"
         /\ Goto(p, place)
         /\ place = "mail" => Insert(p)
         /\ place = "spend" => pc[p] = "save" /\ job[p].op = "resetPassword"
         /\ JobFits(place, job[p])
  <2>1. CASE Insert(p)
    BY <2>1, JobUnderWay DEF Insert, JobFits
  <2>2. CASE Mail(p) \/ Spend(p)
    BY <2>2, JobUnderWay DEF Mail, Spend, JobFits
  <2>3. CASE CreateToken(p)
    BY <2>3, JobUnderWay DEF CreateToken, JobFits
  <2>4. CASE Save(p)
    <3>1. JobFits("save", job[p]) /\ pc[p] = "save" /\ Goto(p, AfterSave(job[p].op))
      BY <2>4, JobUnderWay DEF Save
    <3>2. JobFits(AfterSave(job[p].op), job[p])
      BY <3>1 DEF JobFits, AfterSave
    <3>3. /\ AfterSave(job[p].op) \in {"spend", "reload", "reply"}
          /\ AfterSave(job[p].op) = "spend" => job[p].op = "resetPassword"
      BY <3>1 DEF JobFits, AfterSave
    <3> QED
      BY <3>1, <3>2, <3>3
  <2> QED
    BY <2>1, <2>2, <2>3, <2>4 DEF Statement
<1>2. job' = [job EXCEPT ![p] = job[p]] /\ held' = [held EXCEPT ![p] = None]
  <2>1. UNCHANGED job
    BY DEF Statement, Insert, Mail, CreateToken, Spend, Save
  <2>2. held' = [held EXCEPT ![p] = None]
    <3>1. CASE Save(p) \/ CreateToken(p)
      BY <3>1 DEF Save, CreateToken
    <3>2. CASE Insert(p) \/ Mail(p) \/ Spend(p)
      <4>1. held[p] = None
        BY <3>2, HeldFits DEF EntityFits, Insert, Mail, Spend
      <4> QED
        BY <3>2, <4>1 DEF Insert, Mail, Spend, Shapes
    <3> QED
      BY <3>1, <3>2 DEF Statement
  <2> QED
    BY <2>1, <2>2, SameJob
<1>3. RequestFits(place, job[p], None)
  BY <1>1, JobUnderWay DEF RequestFits, Places
<1>4. pc' = [pc EXCEPT ![p] = place]
  BY <1>1 DEF Goto
<1>5. /\ Shapes' /\ OthersStay(p)
      /\ pc'[p] = place /\ job'[p] = job[p] /\ held'[p] = None
  BY <1>2, <1>3, <1>4, StatementRows, StepShapes
<1> QED
  BY <1>1, <1>5

LEMMA NewJobType ==
    ASSUME NEW op \in AllOps
    PROVE  NewJob(op) \in Job /\ NewJob(op).op = op
BY DEF NewJob, Job

\* What an arrival of p leaves behind; it may draw a code, or delete an account.
ArrivalOf(p) ==
    /\ Shapes' /\ OthersStay(p)
    /\ pc[p] = "idle"
    /\ pc'[p] \in {"validate", "findHash", "findToken", "findLogin", "reload", "findMe",
                   "load", "reply"}
    /\ held'[p] = None
    /\ UNCHANGED <<token, inbox>> /\ issued \subseteq issued'
    /\ \A e \in Emails :
          \/ account'[e] = account[e]
          \/ /\ Live(e) /\ account'[e].state = "deleted"
             /\ account'[e].active = account[e].active /\ account'[e].hash = account[e].hash
    /\ pc'[p] = "validate" /\ job'[p].op = "forgotPassword" =>
          job'[p].code \notin issued /\ job'[p].code \in issued'

LEMMA ArriveShapes ==
    ASSUME Shapes, NEW p \in Requests, NEW j,
           NEW place \in {"validate", "findHash", "findToken", "findLogin", "reload",
                          "findMe", "load", "reply"},
           Arrive(p, j, place), UNCHANGED held, RowsFit', JobFits(place, j)
    PROVE  /\ Shapes' /\ OthersStay(p) /\ pc[p] = "idle"
           /\ pc'[p] = place /\ job'[p] = j /\ held'[p] = None
<1>1. held[p] = None /\ pc[p] = "idle"
  BY DEF Shapes, RequestsFit, RequestFits, EntityFits, Arrive
<1>2. held' = [held EXCEPT ![p] = None]
  BY <1>1 DEF Shapes
<1>3. RequestFits(place, j, None)
  BY NoneIsNoJobAssumption DEF RequestFits, JobFits, Places
<1>4. pc' = [pc EXCEPT ![p] = place] /\ job' = [job EXCEPT ![p] = j]
  BY DEF Arrive, Goto
<1> QED
  BY <1>1, <1>2, <1>3, <1>4, StepShapes

\* The arrivals that draw a code.
LEMMA DrawingArrivals ==
    ASSUME Shapes, NEW p \in Requests, NEW e \in Emails, NEW h \in Codes,
           \/ ForgotPassword(p, e, h)
           \/ \E w \in Passwords, active \in BOOLEAN : Register(p, e, w, active, h)
    PROVE  ArrivalOf(p)
<1>1. PICK j :
         /\ JobFits("validate", j) /\ j.code = h
         /\ Arrive(p, j, "validate")
         /\ Draw(h) /\ UNCHANGED <<tables, inbox, sessions, held>>
  <2>1. CASE ForgotPassword(p, e, h)
    <3> DEFINE j == [NewJob("forgotPassword") EXCEPT !.email = e, !.code = h]
    <3>1. j \in Job /\ j.op = "forgotPassword" /\ j.email = e /\ j.code = h
      BY NewJobType DEF NewJob, Job, AllOps
    <3>2. JobFits("validate", j)
      BY <3>1 DEF JobFits
    <3> QED
      BY <2>1, <3>1, <3>2 DEF ForgotPassword
  <2>2. ASSUME NEW w \in Passwords, NEW active \in BOOLEAN, Register(p, e, w, active, h)
        PROVE  \E j : /\ JobFits("validate", j) /\ j.code = h
                      /\ Arrive(p, j, "validate")
                      /\ Draw(h) /\ UNCHANGED <<tables, inbox, sessions, held>>
    <3> DEFINE j == [NewJob("register") EXCEPT !.email = e, !.password = w,
                                               !.active = active, !.code = h]
    <3>1. /\ j \in Job /\ j.op = "register" /\ j.email = e /\ j.code = h
          /\ j.password = w
      BY NewJobType DEF NewJob, Job, AllOps
    <3>2. JobFits("validate", j)
      BY <3>1 DEF JobFits
    <3> QED
      BY <2>2, <3>1, <3>2 DEF Register
  <2> QED
    BY <2>1, <2>2
<1>2. RowsFit'
  BY <1>1 DEF Shapes, RowsFit, tables, Draw
<1>3. /\ Shapes' /\ OthersStay(p) /\ pc[p] = "idle"
      /\ pc'[p] = "validate" /\ job'[p] = j /\ held'[p] = None
  BY <1>1, <1>2, ArriveShapes
<1> QED
  BY <1>1, <1>3 DEF ArrivalOf, tables, Draw

\* Those that draw none, and delete nothing.
LEMMA PlainArrivals ==
    ASSUME Shapes, NEW p \in Requests,
           \/ \E e \in Emails :
                 \/ Me(p, e)
                 \/ \E w \in Passwords \cup {None, Undefined} :
                       \/ UpdateUser(p, e, w)
                       \/ \E old \in Passwords \cup {None} : UpdateMe(p, e, w, old)
                 \/ \E w \in Passwords : Login(p, e, w)
           \/ \E h \in Codes :
                 \/ ConfirmEmail(p, h)
                 \/ \E w \in Passwords : ResetPassword(p, h, w)
    PROVE  ArrivalOf(p)
<1> DEFINE Arrives(j, place) ==
              /\ place \in {"findHash", "findToken", "findLogin", "reload", "findMe", "load"}
              /\ JobFits(place, j)
              /\ Arrive(p, j, place)
              /\ UNCHANGED <<tables, inbox, issued, sessions, held>>
<1>1. PICK j, place : Arrives(j, place)
  <2>1. ASSUME NEW e \in Emails, Me(p, e)
        PROVE  \E j, place : Arrives(j, place)
    <3> DEFINE j == [NewJob("me") EXCEPT !.email = e]
    <3>1. j \in Job /\ j.op = "me" /\ j.email = e
      BY NewJobType DEF NewJob, Job, AllOps
    <3>2. JobFits("reload", j)
      BY <3>1 DEF JobFits
    <3> QED
      BY <2>1, <3>2 DEF Me
  <2>2. ASSUME NEW e \in Emails, NEW w \in Passwords \cup {None, Undefined},
               UpdateUser(p, e, w)
        PROVE  \E j, place : Arrives(j, place)
    <3> DEFINE j == [NewJob("update") EXCEPT !.email = e, !.password = w]
    <3>1. j \in Job /\ j.op = "update" /\ j.email = e
      BY NewJobType DEF NewJob, Job, AllOps
    <3>2. JobFits("load", j)
      BY <3>1 DEF JobFits
    <3> QED
      BY <2>2, <3>2 DEF UpdateUser
  <2>3. ASSUME NEW e \in Emails, NEW w \in Passwords \cup {None, Undefined},
               NEW old \in Passwords \cup {None}, UpdateMe(p, e, w, old)
        PROVE  \E j, place : Arrives(j, place)
    <3> DEFINE j == [NewJob("updateMe") EXCEPT !.email = e, !.password = w,
                                               !.oldPassword = old]
               place == IF w \in Passwords THEN "findMe" ELSE "load"
    <3>1. j \in Job /\ j.op = "updateMe" /\ j.email = e /\ j.oldPassword = old
      BY NewJobType DEF NewJob, Job, AllOps
    <3>2. w \in Passwords => old \in Passwords
      BY <2>3 DEF UpdateMe
    <3>3. JobFits(place, j)
      BY <3>1, <3>2 DEF JobFits
    <3>4. Arrive(p, j, place) /\ UNCHANGED <<tables, inbox, issued, sessions, held>>
      BY <2>3 DEF UpdateMe
    <3> HIDE DEF j
    <3> QED
      BY <3>3, <3>4
  <2>4. ASSUME NEW h \in Codes, ConfirmEmail(p, h)
        PROVE  \E j, place : Arrives(j, place)
    <3> DEFINE j == [NewJob("confirmEmail") EXCEPT !.code = h]
    <3>1. j \in Job /\ j.op = "confirmEmail" /\ j.code = h /\ j.password = Undefined
      BY NewJobType DEF NewJob, Job, AllOps
    <3>2. JobFits("findHash", j)
      BY <3>1 DEF JobFits
    <3> QED
      BY <2>4, <3>2 DEF ConfirmEmail
  <2>5. ASSUME NEW e \in Emails, NEW w \in Passwords, Login(p, e, w)
        PROVE  \E j, place : Arrives(j, place)
    <3> DEFINE j == [NewJob("login") EXCEPT !.email = e, !.password = w]
    <3>1. j \in Job /\ j.op = "login" /\ j.email = e /\ j.password = w
      BY <2>5, NewJobType DEF NewJob, Job, AllOps
    <3>2. JobFits("findLogin", j)
      BY <2>5, <3>1 DEF JobFits
    <3> QED
      BY <2>5, <3>2 DEF Login
  <2>6. ASSUME NEW h \in Codes, NEW w \in Passwords, ResetPassword(p, h, w)
        PROVE  \E j, place : Arrives(j, place)
    <3> DEFINE j == [NewJob("resetPassword") EXCEPT !.code = h, !.password = w]
    <3>1. j \in Job /\ j.op = "resetPassword" /\ j.code = h /\ j.password = w
      BY <2>6, NewJobType DEF NewJob, Job, AllOps
    <3>2. JobFits("findToken", j)
      BY <2>6, <3>1 DEF JobFits
    <3> QED
      BY <2>6, <3>2 DEF ResetPassword
  <2> QED
    BY <2>1, <2>2, <2>3, <2>4, <2>5, <2>6
<1>2. RowsFit'
  BY <1>1 DEF Shapes, RowsFit, tables
<1>3. /\ Shapes' /\ OthersStay(p) /\ pc[p] = "idle"
      /\ pc'[p] = place /\ job'[p] = j /\ held'[p] = None
  BY <1>1, <1>2, ArriveShapes
<1> QED
  BY <1>1, <1>3 DEF ArrivalOf, tables

LEMMA DeleteArrives ==
    ASSUME Shapes, NEW p \in Requests, NEW e \in Emails, Delete(p, e)
    PROVE  ArrivalOf(p)
<1> DEFINE j == [NewJob("delete") EXCEPT !.email = e]
<1>1. j \in Job /\ j.op = "delete" /\ j.email = e
  BY NewJobType DEF NewJob, Job, AllOps
<1>2. JobFits("reply", j) /\ Arrive(p, j, "reply")
  BY <1>1 DEF JobFits, Delete
<1>3. account' = [account EXCEPT ![e] = [account[e] EXCEPT !.state =
                     IF account[e].state = "live" THEN "deleted" ELSE account[e].state]]
  BY DEF Delete
<1>4. /\ account[e] \in Account /\ account'[e] \in Account
      /\ \A d \in Emails \ {e} : account'[d] = account[d]
      /\ account'[e].password = account[e].password
      /\ account'[e].state = "absent" <=> account[e].state = "absent"
      /\ \/ account'[e] = account[e]
         \/ /\ Live(e) /\ account'[e].state = "deleted"
            /\ account'[e].active = account[e].active /\ account'[e].hash = account[e].hash
  BY <1>3 DEF Shapes, RowsFit, Account, Live
<1>5. UNCHANGED <<token, inbox, issued, sessions, held>>
  BY DEF Delete
<1>6. RowsFit'
  <2>1. account' \in [Emails -> Account]
    BY <1>3, <1>4 DEF Shapes, RowsFit
  <2> QED
    BY <1>4, <1>5, <2>1 DEF Shapes, RowsFit
<1>7. /\ Shapes' /\ OthersStay(p) /\ pc[p] = "idle"
      /\ pc'[p] = "reply" /\ job'[p] = j /\ held'[p] = None
  BY <1>2, <1>5, <1>6, ArriveShapes
<1> QED
  BY <1>4, <1>5, <1>7 DEF ArrivalOf

LEMMA ArrivalShapes ==
    ASSUME Shapes, NEW p \in Requests, Arrival(p)
    PROVE  ArrivalOf(p)
<1>1. ASSUME NEW e \in Emails,
             \/ \E h \in Codes : ForgotPassword(p, e, h)
             \/ \E w \in Passwords, active \in BOOLEAN, h \in Codes :
                   Register(p, e, w, active, h)
      PROVE  ArrivalOf(p)
  BY <1>1, DrawingArrivals
<1>2. ASSUME NEW e \in Emails, Delete(p, e)
      PROVE  ArrivalOf(p)
  BY <1>2, DeleteArrives
<1> QED
  BY <1>1, <1>2, PlainArrivals DEF Arrival

-----------------------------------------------------------------------------
(* What a step of a request may do to rows, copies and codes *)

\* Rows are left alone, deleted, inserted or saved.
RowsMove(p) ==
    \/ Insert(p)
    \/ Save(p)
    \/ \A e \in Emails :
          \/ account'[e] = account[e]
          \/ /\ Live(e) /\ account'[e].state = "deleted"
             /\ account'[e].active = account[e].active /\ account'[e].hash = account[e].hash

\* A copy comes from a find of a live row, and finds change nothing.
CopiesMove(p) ==
    held'[p] # None =>
        \/ held'[p] = held[p] /\ job'[p] = job[p]
        \/ \E e \in Emails : LoadsOf(p, e)

\* A code is drawn before it becomes a token, and found before it is used.
CodesMove(p) ==
    /\ issued \subseteq issued'
    /\ UNCHANGED token \/ CreateToken(p) \/ Spend(p)
    /\ \A h \in Codes :
          /\ Creating(p, h)' => Creating(p, h) \/ (h \notin issued /\ h \in issued')
          /\ Resetting(p, h)' => Resetting(p, h) \/ token[h].state = "live"

Moved(p) ==
    /\ Shapes' /\ OthersStay(p)
    /\ pc'[p] = "mail" => Insert(p)
    /\ UNCHANGED inbox \/ Mail(p)
    /\ RowsMove(p) /\ CopiesMove(p) /\ CodesMove(p)

LEMMA ArrivalMoves ==
    ASSUME Shapes, NEW p \in Requests, Arrival(p)
    PROVE  Moved(p)
<1>1. ArrivalOf(p)
  BY ArrivalShapes
<1> QED
  BY <1>1 DEF ArrivalOf, Moved, RowsMove, CopiesMove, CodesMove, Creating, Resetting

\* The steps by what they do.
LEMMA StepCases ==
    ASSUME NEW p \in Requests, Step(p)
    PROVE  \/ pc[p] # "idle" /\ Throw(p)
           \/ Reply(p) \/ Moves1(p) \/ Statement(p)
           \/ LoadForUpdate(p) \/ LoginFound(p) \/ FindUser(p)
           \/ \E e \in Emails : HashFound(p, e) \/ TokenFound(p, e)
<1>1. \/ EmailTaken(p) \/ InsertRefused(p) \/ HashNotFound(p) \/ TokenNotFound(p)
      \/ EmailUnknown(p) \/ LoginRefused(p) \/ ProviderInvalid(p) \/ PasswordIncorrect(p)
      \/ OldPasswordRefused(p) \/ UpdateNotFound(p) \/ ReloadNotFound(p) \/ Fails(p)
      => pc[p] # "idle" /\ Throw(p)
  BY DEF EmailTaken, InsertRefused, HashNotFound, TokenNotFound, EmailUnknown, LoginRefused,
         ProviderInvalid, PasswordIncorrect, OldPasswordRefused, UpdateNotFound,
         ReloadNotFound, Fails
<1> QED
  BY <1>1 DEF Step, Moves1, Statement

LEMMA LoadMoves ==
    ASSUME Shapes, NEW p \in Requests, NEW e \in Emails, LoadsOf(p, e),
           \/ LoadForUpdate(p) \/ LoginFound(p) \/ FindUser(p)
           \/ HashFound(p, e) \/ TokenFound(p, e)
    PROVE  Moved(p)
<1>1. JobFits(pc[p], job[p])
  BY JobUnderWay DEF LoadsOf
<1>2. /\ pc'[p] = "createToken" => pc[p] = "findUser"
      /\ pc'[p] = "save" /\ job'[p].op = "resetPassword" => TokenFound(p, e)
  <2>1. /\ FindUser(p) => pc[p] = "findUser" /\ pc'[p] = "createToken"
        /\ LoginFound(p) => pc[p] = "findLogin" /\ pc'[p] = "provider"
        /\ LoadForUpdate(p) => pc[p] = "load" /\ pc'[p] = "save"
        /\ HashFound(p, e) => pc[p] = "findHash" /\ pc'[p] = "save"
        /\ TokenFound(p, e) => pc[p] = "findToken" /\ pc'[p] = "save"
    BY DEF FindUser, LoginFound, LoadForUpdate, HashFound, TokenFound, Goto, Shapes
  <2> QED
    BY <1>1, <2>1 DEF JobFits, LoadsOf
<1>3. \A h \in Codes : Creating(p, h)' => Creating(p, h)
  BY <1>2 DEF Creating, LoadsOf
<1>4. \A h \in Codes : Resetting(p, h)' => token[h].state = "live"
  BY <1>2 DEF Resetting, LoadsOf, TokenFound, TokenUser
<1>5. pc'[p] # "mail" /\ UNCHANGED <<account, token, inbox, issued>>
  BY DEF LoadsOf
<1>6. CopiesMove(p) /\ Shapes' /\ OthersStay(p)
  BY DEF CopiesMove, LoadsOf
<1> QED
  BY <1>3, <1>4, <1>5, <1>6 DEF Moved, RowsMove, CodesMove

LEMMA StepMoves ==
    ASSUME Shapes, NEW p \in Requests, Step(p)
    PROVE  Moved(p)
<1>1. CASE pc[p] # "idle" /\ Throw(p)
  BY <1>1, ThrowShapes
  DEF Throw, tables, Moved, RowsMove, CopiesMove, CodesMove, Creating, Resetting
<1>2. CASE Reply(p)
  BY <1>2, ReplyShapes
  DEF Reply, tables, Moved, RowsMove, CopiesMove, CodesMove, Creating, Resetting
<1>3. CASE Moves1(p)
  <2>1. pc'[p] = "findUser" => pc[p] = "validate"
    BY <1>3 DEF Moves1, EmailFree, EmailKnown, MailToken, ProviderValid, LoggedIn, MeFound,
         Reloaded, Goto, Shapes
  <2>2. \A h \in Codes : (Creating(p, h)' => Creating(p, h)) /\ ~Resetting(p, h)'
    BY <1>3, <2>1, MoveShapes DEF Creating, Resetting
  <2> QED
    BY <1>3, <2>2, MoveShapes DEF Moved, RowsMove, CopiesMove, CodesMove
<1>4. CASE Statement(p)
  <2>1. \A h \in Codes : ~Creating(p, h)' /\ (Resetting(p, h)' => Resetting(p, h))
    BY <1>4, StatementShapes DEF Creating, Resetting
  <2>2. /\ RowsMove(p) /\ issued' = issued
        /\ UNCHANGED inbox \/ Mail(p)
        /\ UNCHANGED token \/ CreateToken(p) \/ Spend(p)
    BY <1>4 DEF Statement, RowsMove, Insert, Mail, CreateToken, Spend, Save, tables
  <2> QED
    BY <1>4, <2>1, <2>2, StatementShapes DEF Moved, CopiesMove, CodesMove
<1>5. CASE LoadForUpdate(p) \/ LoginFound(p)
  <2>1. job[p].email \in Emails
    BY <1>5, JobUnderWay DEF JobFits, LoadForUpdate, LoginFound
  <2> QED
    BY <1>5, <2>1, LoadForUpdateLoads, LoginFoundLoads, LoadMoves
<1>6. CASE FindUser(p)
  <2>1. job[p].email \in Emails /\ job[p].op = "forgotPassword"
    BY <1>6, JobUnderWay DEF JobFits, FindUser
  <2>2. CASE LoadsOf(p, job[p].email)
    BY <1>6, <2>1, <2>2, LoadMoves
  <2>3. CASE /\ Shapes' /\ OthersStay(p)
             /\ job'[p] = job[p] /\ held'[p] = None /\ pc'[p] = "createToken"
             /\ UNCHANGED <<account, token, inbox, issued>>
    <3>1. \A h \in Codes : (Creating(p, h)' => Creating(p, h)) /\ ~Resetting(p, h)'
      BY <1>6, <2>3 DEF Creating, Resetting, FindUser
    <3> QED
      BY <2>3, <3>1 DEF Moved, RowsMove, CopiesMove, CodesMove
  <2> QED
    BY <1>6, <2>2, <2>3, FindUserLoads
<1>7. ASSUME NEW e \in Emails, HashFound(p, e) \/ TokenFound(p, e)
      PROVE  Moved(p)
  BY <1>7, HashFoundLoads, TokenFoundLoads, LoadMoves
<1> QED
  BY <1>1, <1>2, <1>3, <1>4, <1>5, <1>6, <1>7, StepCases

-----------------------------------------------------------------------------
(* The invariant *)

LEMMA InitAccounts == Init => AccountsInv
<1> SUFFICES ASSUME Init
             PROVE  AccountsInv
  OBVIOUS
<1>1. RowsConfirmable /\ CopiesConfirmable
  BY DEF Init, RowsConfirmable, CopiesConfirmable, Mailing
<1>2. TokensOnce
  BY DEF Init, TokensOnce, Creating, Resetting
<1> QED
  BY <1>1, <1>2, InitShapes DEF AccountsInv

\* No request mails, and none holds a copy, but those that did before.
LEMMA ConfirmableAfterQuietStep ==
    ASSUME AccountsInv, NEW p \in Requests, Moved(p), UNCHANGED inbox, ~Insert(p), ~Save(p)
    PROVE  RowsConfirmable' /\ CopiesConfirmable'
<1>1. \A q \in Requests, e \in Emails :
         Mailing(q, e)' => Mailing(q, e) /\ job'[q].code = job[q].code
  BY DEF Mailing, Moved, OthersStay
<1>2. \A e \in Emails : /\ account'[e].state = "absent" <=> account[e].state = "absent"
                        /\ account'[e].active = account[e].active
                        /\ account'[e].hash = account[e].hash
  BY DEF Moved, RowsMove, Live
<1>3. \A e \in Emails, active \in BOOLEAN, hash \in Codes \cup {None} :
         CanConfirm(e, active, hash) => CanConfirm(e, active, hash)'
  BY <1>1 DEF CanConfirm
<1>4. \A q \in Requests, e \in Emails :
         held'[q] # None /\ job'[q].email = e =>
            \/ held[q] # None /\ job[q].email = e /\ held'[q] = held[q]
            \/ /\ Live(e)
               /\ held'[q].active \/ (held'[q].active = account[e].active
                                       /\ held'[q].hash = account[e].hash)
  <2> SUFFICES ASSUME NEW q \in Requests, held'[q] # None
               PROVE  \/ held[q] # None /\ job[q].email = job'[q].email /\ held'[q] = held[q]
                      \/ /\ Live(job'[q].email)
                         /\ held'[q].active \/
                               (held'[q].active = account[job'[q].email].active
                                /\ held'[q].hash = account[job'[q].email].hash)
    OBVIOUS
  <2>1. CASE q # p
    BY <2>1 DEF Moved, OthersStay
  <2>2. CASE q = p
    BY <2>2 DEF Moved, CopiesMove, LoadsOf
  <2> QED
    BY <2>1, <2>2
<1>5. \A e \in Emails : /\ account[e].active \in BOOLEAN /\ account[e].hash \in Codes \cup {None}
  BY DEF AccountsInv, Shapes, RowsFit, Account
<1>6. \A q \in Requests : held'[q] # None =>
         /\ held'[q].active \in BOOLEAN /\ held'[q].hash \in Codes \cup {None}
         /\ job'[q].email \in Emails
  BY DEF Moved, Shapes, RequestsFit, RequestFits, EntityFits, Entity
<1>7. RowsConfirmable'
  <2> SUFFICES ASSUME NEW e \in Emails
               PROVE  RowsConfirmable!(e)'
    BY DEF RowsConfirmable
  <2>1. CASE account[e].state = "absent"
    <3>1. \A q \in Requests : ~Mailing(q, e)' /\ (held'[q] # None => job'[q].email # e)
      BY <1>1, <1>4, <2>1 DEF AccountsInv, RowsConfirmable, Live
    <3> QED
      BY <1>2, <2>1, <3>1 DEF AccountsInv, RowsConfirmable
  <2>2. CASE account[e].state # "absent"
    BY <1>2, <1>3, <1>5, <2>2 DEF AccountsInv, RowsConfirmable
  <2> QED
    BY <2>1, <2>2
<1>8. CopiesConfirmable'
  <2> SUFFICES ASSUME NEW q \in Requests, (held[q] # None)'
               PROVE  CanConfirm(job[q].email, held[q].active, held[q].hash)'
    BY DEF CopiesConfirmable
  <2>1. PICK e \in Emails, active \in BOOLEAN, hash \in Codes \cup {None} :
           job'[q].email = e /\ held'[q].active = active /\ held'[q].hash = hash
    BY <1>6
  <2> SUFFICES CanConfirm(e, active, hash)'
    BY <2>1 DEF CanConfirm, Mailing
  <2>2. CASE held[q] # None /\ job[q].email = e /\ held'[q] = held[q]
    <3>1. CanConfirm(e, active, hash)
      BY <2>1, <2>2 DEF AccountsInv, CopiesConfirmable
    <3> QED
      BY <1>3, <3>1
  <2>3. CASE Live(e) /\ active = account[e].active /\ hash = account[e].hash
    <3>1. CanConfirm(e, active, hash)
      BY <2>3 DEF AccountsInv, RowsConfirmable, Live
    <3> QED
      BY <1>3, <3>1
  <2>4. CASE active
    BY <2>4 DEF CanConfirm
  <2> QED
    BY <1>4, <2>1, <2>2, <2>3, <2>4
<1> QED
  BY <1>7, <1>8

\* A registration mails the code it has put into the new row.
LEMMA ConfirmableAfterInsert ==
    ASSUME AccountsInv, NEW p \in Requests, Insert(p)
    PROVE  RowsConfirmable' /\ CopiesConfirmable'
<1> DEFINE d == job[p].email
<1>1. /\ OthersStay(p) /\ job'[p] = job[p] /\ held'[p] = None /\ pc[p] # "mail"
      /\ pc'[p] = "mail"
  BY StatementShapes DEF Statement, AccountsInv, Insert, Goto, Shapes
<1>2. /\ d \in Emails /\ job[p].code \in Codes
  BY JobUnderWay DEF JobFits, Insert, AccountsInv
<1>3. /\ account[d].state = "absent"
      /\ account'[d].state = "live" /\ account'[d].hash = job[p].code
      /\ \A e \in Emails \ {d} : account'[e] = account[e]
      /\ UNCHANGED inbox
  BY <1>2 DEF Insert, AccountsInv, Shapes, RowsFit
<1>4. /\ inbox[d] = {} /\ \A q \in Requests : ~Mailing(q, d) /\ (held[q] # None => job[q].email # d)
  BY <1>2, <1>3 DEF AccountsInv, RowsConfirmable
<1>5. \A q \in Requests, e \in Emails : Mailing(q, e)' => (q = p /\ e = d) \/ Mailing(q, e)
  BY <1>1 DEF Mailing, OthersStay
<1>6. \A q \in Requests : /\ job'[q] = job[q]
                          /\ held'[q] # None => held'[q] = held[q] /\ job[q].email # d
  BY <1>1, <1>4 DEF OthersStay
<1>7. RowsConfirmable'
  <2> SUFFICES ASSUME NEW e \in Emails
               PROVE  RowsConfirmable!(e)'
    BY DEF RowsConfirmable
  <2>1. CASE e = d
    <3>1. \A q \in Requests : Mailing(q, e)' => job'[q].code = job[p].code
      BY <1>2, <1>4, <1>5, <1>6, <2>1
    <3>2. job[p].code # None
      BY <1>2, NoneAssumption
    <3> QED
      BY <1>2, <1>3, <1>4, <2>1, <3>1, <3>2 DEF CanConfirm
  <2>2. CASE e # d /\ account[e].state = "absent"
    BY <1>3, <1>5, <1>6, <2>2 DEF AccountsInv, RowsConfirmable
  <2>3. CASE e # d /\ account[e].state # "absent"
    <3>1. CanConfirm(e, account[e].active, account[e].hash)
      BY <2>3 DEF AccountsInv, RowsConfirmable
    <3> QED
      BY <1>3, <1>5, <1>6, <2>3, <3>1 DEF CanConfirm
  <2> QED
    BY <2>1, <2>2, <2>3
<1>8. CopiesConfirmable'
  <2> SUFFICES ASSUME NEW q \in Requests, (held[q] # None)'
               PROVE  CanConfirm(job[q].email, held[q].active, held[q].hash)'
    BY DEF CopiesConfirmable
  <2>1. CanConfirm(job[q].email, held[q].active, held[q].hash) /\ held[q] # None
    BY <1>6 DEF AccountsInv, CopiesConfirmable
  <2>2. job[q].email # d /\ job[q].email \in Emails
    BY <1>6, <2>1, HeldFits DEF AccountsInv, EntityFits
  <2> QED
    BY <1>3, <1>5, <1>6, <2>1, <2>2 DEF CanConfirm
<1> QED
  BY <1>7, <1>8

\* A mail carries the code of the row it is for.
LEMMA ConfirmableAfterMail ==
    ASSUME AccountsInv, NEW p \in Requests, Mail(p)
    PROVE  RowsConfirmable' /\ CopiesConfirmable'
<1> DEFINE d == job[p].email
<1>1. OthersStay(p) /\ job'[p] = job[p] /\ held'[p] = None /\ pc'[p] # "mail"
  BY StatementShapes DEF Statement, AccountsInv, Mail, Goto, Shapes
<1>2. Mailing(p, d) /\ d \in Emails
  BY JobUnderWay DEF JobFits, Mail, AccountsInv, Mailing
<1>3. /\ UNCHANGED account
      /\ inbox'[d] = inbox[d] \cup {job[p].code}
      /\ \A e \in Emails \ {d} : inbox'[e] = inbox[e]
  BY <1>2 DEF Mail, tables, AccountsInv, Shapes, RowsFit
<1>4. /\ \A q \in Requests, e \in Emails : Mailing(q, e)' => Mailing(q, e)
      /\ \A q \in Requests : /\ job'[q] = job[q]
                             /\ held'[q] # None => held'[q] = held[q]
  BY <1>1 DEF Mailing, OthersStay
<1>5. account[d].state # "absent"
  BY <1>2 DEF AccountsInv, RowsConfirmable
<1>6. RowsConfirmable'
  <2> SUFFICES ASSUME NEW e \in Emails
               PROVE  RowsConfirmable!(e)'
    BY DEF RowsConfirmable
  <2>1. CASE account[e].state = "absent"
    BY <1>3, <1>4, <1>5, <2>1 DEF AccountsInv, RowsConfirmable
  <2>2. CASE account[e].state # "absent"
    <3>1. CanConfirm(e, account[e].active, account[e].hash)
      BY <2>2 DEF AccountsInv, RowsConfirmable
    <3> QED
      BY <1>2, <1>3, <1>4, <2>2, <3>1 DEF CanConfirm
  <2> QED
    BY <2>1, <2>2
<1>7. CopiesConfirmable'
  <2> SUFFICES ASSUME NEW q \in Requests, (held[q] # None)'
               PROVE  CanConfirm(job[q].email, held[q].active, held[q].hash)'
    BY DEF CopiesConfirmable
  <2>1. CanConfirm(job[q].email, held[q].active, held[q].hash) /\ held[q] # None
    BY <1>4 DEF AccountsInv, CopiesConfirmable
  <2>2. job[q].email \in Emails
    BY <2>1, HeldFits DEF AccountsInv, EntityFits
  <2> QED
    BY <1>2, <1>3, <1>4, <2>1, <2>2 DEF CanConfirm
<1> QED
  BY <1>6, <1>7

\* A save writes back what its copy could be confirmed with.
LEMMA ConfirmableAfterSave ==
    ASSUME AccountsInv, NEW p \in Requests, Save(p)
    PROVE  RowsConfirmable' /\ CopiesConfirmable'
<1> DEFINE d == job[p].email
<1>1. OthersStay(p) /\ job'[p] = job[p] /\ held'[p] = None /\ pc'[p] # "mail"
  BY StatementShapes DEF Statement, AccountsInv, Save, Insert
<1>2. held[p] # None /\ d \in Emails
  BY SaveRows DEF AccountsInv, Save, Shapes, RequestsFit, RequestFits
<1>3. /\ account'[d].state = "live"
      /\ account'[d].active = held[p].active /\ account'[d].hash = held[p].hash
      /\ \A e \in Emails \ {d} : account'[e] = account[e]
      /\ UNCHANGED inbox
  <2>1. account' = [account EXCEPT ![d] =
           [state |-> "live", password |-> SetPassword(held[p]),
            active |-> held[p].active, hash |-> held[p].hash]]
    BY SaveRows DEF AccountsInv
  <2>2. account \in [Emails -> Account] /\ UNCHANGED inbox
    BY DEF Save, AccountsInv, Shapes, RowsFit
  <2> QED
    BY <1>2, <2>1, <2>2
<1>4. /\ \A q \in Requests, e \in Emails : Mailing(q, e)' => Mailing(q, e)
      /\ \A q \in Requests : /\ job'[q] = job[q]
                             /\ held'[q] # None => held'[q] = held[q]
  BY <1>1 DEF Mailing, OthersStay
<1>5. RowsConfirmable'
  <2> SUFFICES ASSUME NEW e \in Emails
               PROVE  RowsConfirmable!(e)'
    BY DEF RowsConfirmable
  <2>1. CASE e = d
    <3>1. CanConfirm(d, held[p].active, held[p].hash)
      BY <1>2 DEF AccountsInv, CopiesConfirmable
    <3> QED
      BY <1>2, <1>3, <1>4, <2>1, <3>1 DEF CanConfirm
  <2>2. CASE e # d /\ account[e].state = "absent"
    BY <1>3, <1>4, <2>2 DEF AccountsInv, RowsConfirmable
  <2>3. CASE e # d /\ account[e].state # "absent"
    <3>1. CanConfirm(e, account[e].active, account[e].hash)
      BY <2>3 DEF AccountsInv, RowsConfirmable
    <3> QED
      BY <1>3, <1>4, <2>3, <3>1 DEF CanConfirm
  <2> QED
    BY <2>1, <2>2, <2>3
<1>6. CopiesConfirmable'
  <2> SUFFICES ASSUME NEW q \in Requests, (held[q] # None)'
               PROVE  CanConfirm(job[q].email, held[q].active, held[q].hash)'
    BY DEF CopiesConfirmable
  <2>1. CanConfirm(job[q].email, held[q].active, held[q].hash) /\ held[q] # None
    BY <1>4 DEF AccountsInv, CopiesConfirmable
  <2>2. job[q].email \in Emails
    BY <2>1, HeldFits DEF AccountsInv, EntityFits
  <2> QED
    BY <1>3, <1>4, <2>1, <2>2 DEF CanConfirm
<1> QED
  BY <1>5, <1>6

\* Codes become tokens, and tokens are spent, but no two requests create one.
LEMMA TokensOnceKept ==
    ASSUME AccountsInv, NEW p \in Requests, Moved(p)
    PROVE  TokensOnce'
<1>1. \A q \in Requests \ {p}, h \in Codes : /\ Creating(q, h)' <=> Creating(q, h)
                                             /\ Resetting(q, h)' <=> Resetting(q, h)
  BY DEF Moved, OthersStay, Creating, Resetting
<1>2. \A h \in Codes :
         \/ token'[h].state = token[h].state
         \/ Creating(p, h) /\ ~Creating(p, h)' /\ token'[h].state # "absent"
         \/ token[h].state # "absent" /\ token'[h].state # "absent"
  <2>1. CASE CreateToken(p)
    <3>1. job[p].code \in Codes /\ job[p].op = "forgotPassword" /\ pc[p] = "createToken"
      BY <2>1, JobUnderWay DEF AccountsInv, CreateToken, JobFits
    <3>2. /\ token'[job[p].code].state = "live"
          /\ \A h \in Codes \ {job[p].code} : token'[h] = token[h]
          /\ pc'[p] = "mailToken"
      BY <2>1, <3>1 DEF CreateToken, AccountsInv, Shapes, RowsFit, Goto
    <3> QED
      BY <3>1, <3>2 DEF Creating
  <2>2. CASE Spend(p)
    <3>1. job[p].code \in Codes /\ Resetting(p, job[p].code)
      BY <2>2, JobUnderWay DEF AccountsInv, Spend, JobFits, Resetting
    <3>2. /\ token'[job[p].code].state = "deleted"
          /\ \A h \in Codes \ {job[p].code} : token'[h] = token[h]
      BY <2>2, <3>1 DEF Spend, AccountsInv, Shapes, RowsFit, Token
    <3> QED
      BY <3>1, <3>2 DEF AccountsInv, TokensOnce
  <2> QED
    BY <2>1, <2>2 DEF Moved, CodesMove
<1>3. \A h \in Codes : /\ Creating(p, h)' => Creating(p, h) \/ (h \notin issued /\ h \in issued')
                       /\ Resetting(p, h)' => Resetting(p, h) \/ token[h].state = "live"
  BY DEF Moved, CodesMove
<1>4. issued \subseteq issued'
  BY DEF Moved, CodesMove
<1> SUFFICES ASSUME NEW h \in Codes
             PROVE  TokensOnce!(h)'
  BY DEF TokensOnce
<1>5. TokensOnce!(h)
  BY DEF AccountsInv, TokensOnce
<1>6. (token[h].state # "absent" => h \in issued)'
  BY <1>2, <1>4, <1>5
<1>7. ASSUME NEW q \in Requests, Creating(q, h)'
      PROVE  (/\ h \in issued /\ token[h].state = "absent"
              /\ \A r \in Requests : Creating(r, h) => r = q)'
  <2>1. CASE Creating(q, h)
    BY <1>1, <1>2, <1>3, <1>4, <1>5, <1>7, <2>1
  <2>2. CASE ~Creating(q, h)
    BY <1>1, <1>2, <1>3, <1>4, <1>5, <1>7, <2>2
  <2> QED
    BY <2>1, <2>2
<1>8. ASSUME NEW q \in Requests, Resetting(q, h)'
      PROVE  (token[h].state # "absent")'
  BY <1>1, <1>2, <1>3, <1>5, <1>8
<1> QED
  BY <1>6, <1>7, <1>8

LEMMA NextAccounts == AccountsInv /\ [Next]_vars => AccountsInv'
<1> SUFFICES ASSUME AccountsInv, [Next]_vars
             PROVE  AccountsInv'
  OBVIOUS
<1>1. ASSUME NEW p \in Requests, Arrival(p) \/ Step(p)
      PROVE  AccountsInv'
  <2>1. Moved(p)
    BY <1>1, ArrivalMoves, StepMoves DEF AccountsInv
  <2>2. RowsConfirmable' /\ CopiesConfirmable'
    <3>1. CASE Insert(p) \/ Mail(p) \/ Save(p)
      BY <3>1, ConfirmableAfterInsert, ConfirmableAfterMail, ConfirmableAfterSave
    <3>2. CASE ~(Insert(p) \/ Mail(p) \/ Save(p))
      <4>1. UNCHANGED inbox
        BY <2>1, <3>2 DEF Moved
      <4> QED
        BY <2>1, <3>2, <4>1, ConfirmableAfterQuietStep
    <3> QED
      BY <3>1, <3>2
  <2> QED
    BY <2>1, <2>2, TokensOnceKept DEF Moved, AccountsInv
<1>2. ASSUME UNCHANGED <<tables, inbox, issued, pc, job, held>>, sessions' \subseteq Emails
      PROVE  AccountsInv'
  <2>1. Shapes'
    BY <1>2, RowsRest DEF AccountsInv, Shapes, RequestsFit, tables
  <2> QED
    BY <1>2, <2>1 DEF AccountsInv, RowsConfirmable, CopiesConfirmable, CanConfirm, Mailing,
        TokensOnce, Creating, Resetting, tables
<1>3. ASSUME NEW e \in Emails, JwtExpires(e)
      PROVE  AccountsInv'
  BY <1>2, <1>3 DEF JwtExpires, AccountsInv, Shapes, RowsFit
<1>4. CASE UNCHANGED vars
  BY <1>2, <1>4 DEF vars, tables, AccountsInv, Shapes, RowsFit
<1> QED
  BY <1>1, <1>3, <1>4 DEF Next

LEMMA AccountsInvariant == Spec => []AccountsInv
BY InitAccounts, NextAccounts, PTL DEF Spec

\* Rows, entities and requests keep their shapes; a request about to save holds the
\* entity it loaded, and knows whose it is: its row is never taken away.
THEOREM AccountsTypeCorrect == Spec => []AccountTypeOK
<1>1. AccountsInv => AccountTypeOK
  <2> SUFFICES ASSUME AccountsInv
               PROVE  AccountTypeOK
    OBVIOUS
  <2>1. \A p \in Requests :
           /\ job[p] = None <=> pc[p] = "idle"
           /\ pc[p] \in {"save", "provider", "compare"} =>
                 held[p] # None /\ job[p].email \in Emails
    BY DEF AccountsInv, Shapes, RequestsFit, RequestFits, EntityFits
  <2>2. \A p \in Requests :
           held[p] # None => account[job[p].email].state # "absent"
    BY DEF AccountsInv, Shapes, RequestsFit, RequestFits, EntityFits, RowsConfirmable
  <2> QED
    BY <2>1, <2>2 DEF AccountTypeOK, AccountsInv, Shapes, RowsFit
<1> QED
  BY <1>1, AccountsInvariant, PTL

\* With any number of requests that load and save one account, the password its row
\* holds, unless an update has made it null, has been hashed exactly once.
THEOREM EveryPasswordIsHashedOnce == Spec => []PasswordsHashedOnce
<1>1. AccountsInv => PasswordsHashedOnce
  BY DEF AccountsInv, Shapes, RowsFit, PasswordsHashedOnce, HashedOnce
<1> QED
  BY <1>1, AccountsInvariant, PTL

\* An account that is not active holds the one code that every confirmation mail to
\* its address carries, whatever was saved over it.
THEOREM EveryAccountIsConfirmable == Spec => []Confirmable
<1>1. AccountsInv => Confirmable
  BY DEF AccountsInv, RowsConfirmable, CanConfirm, Confirmable
<1> QED
  BY <1>1, AccountsInvariant, PTL

-----------------------------------------------------------------------------
(* What a save changes *)

\* A step that is not of p leaves p where it is.
LEMMA ActorMoves ==
    ASSUME AccountsInv, Next, NEW p \in Requests, pc'[p] # pc[p]
    PROVE  Arrival(p) \/ Step(p)
<1>1. ASSUME NEW q \in Requests, Arrival(q) \/ Step(q), q # p
      PROVE  FALSE
  <2>1. Moved(q)
    BY <1>1, ArrivalMoves, StepMoves DEF AccountsInv
  <2> QED
    BY <1>1, <2>1 DEF Moved, OthersStay
<1> QED
  BY <1>1 DEF Next, JwtExpires

LEMMA OnlySaveSaves ==
    ASSUME AccountsInv, Next, NEW p \in Requests, pc[p] = "save", pc'[p] # "save", ~Fails(p)
    PROVE  Save(p)
<1>1. ~Arrival(p)
  BY ArrivalShapes DEF AccountsInv, ArrivalOf
<1>2. Step(p)
  BY <1>1, ActorMoves
<1>3. ~Throw(p)
  BY DEF Fails
<1> QED
  BY <1>2, <1>3, StepCases
  DEF Reply, Moves1, EmailFree, EmailKnown, MailToken, ProviderValid, LoggedIn, MeFound,
      Reloaded, Statement, Insert, Mail, CreateToken, Spend, LoadForUpdate, LoginFound,
      FindUser, HashFound, TokenFound

LEMMA FreshSaveIsOwn ==
    ASSUME AccountsInv, NEW p \in Requests, Save(p), SavesFresh(p)
    PROVE  OwnChangeOnly(p)
<1> DEFINE d == job[p].email
           new == [state |-> "live",
                   password |-> AfterSetPassword(job[p].password, account[d].password),
                   active |-> account[d].active \/ job[p].op = "confirmEmail",
                   hash |-> IF job[p].op = "confirmEmail" THEN None ELSE account[d].hash]
<1>1. /\ d \in Emails
      /\ account' = [account EXCEPT ![d] =
            [state |-> "live", password |-> SetPassword(held[p]),
             active |-> held[p].active, hash |-> held[p].hash]]
      /\ SetPassword(held[p]) =
            AfterSetPassword(job[p].password, held[p].previousPassword)
  BY SaveRows DEF AccountsInv
<1>2. EntityFits("save", job[p], held[p])
  BY HeldFits DEF AccountsInv, Save, Shapes, RequestsFit, RequestFits
<1>3. held[p].active \in BOOLEAN /\ account[d].active \in BOOLEAN
  BY <1>1, <1>2 DEF EntityFits, Entity, AccountsInv, Shapes, RowsFit, Account
<1>4. SetPassword(held[p]) = new.password
  BY <1>1 DEF SavesFresh
<1>5. held[p].active = new.active
  <2>1. CASE job[p].op = "confirmEmail"
    BY <1>2, <1>3, <2>1 DEF EntityFits
  <2>2. CASE job[p].op # "confirmEmail"
    BY <1>3, <2>2 DEF SavesFresh
  <2> QED
    BY <2>1, <2>2
<1>6. held[p].hash = new.hash
  BY <1>2 DEF EntityFits, SavesFresh
<1>7. account' = [account EXCEPT ![d] = new]
  BY <1>1, <1>4, <1>5, <1>6
<1> QED
  BY <1>7 DEF OwnChangeOnly, AfterSetPassword

\* Of any number of confirmations, resets and updates, one whose copy is still what
\* the row holds changes what it was asked for, and nothing else.
THEOREM FreshSavesChangeTheirOwn == Spec => FreshAccountSave
<1> DEFINE Fresh == \A p \in Requests :
              pc[p] = "save" /\ pc'[p] # "save" /\ ~Fails(p) /\ SavesFresh(p)
              => OwnChangeOnly(p)
<1>1. AccountsInv /\ [Next]_vars => [Fresh]_vars
  BY OnlySaveSaves, FreshSaveIsOwn
<1>2. Spec => [][Fresh]_vars
  BY <1>1, AccountsInvariant, PTL DEF Spec
<1> QED
  BY <1>2 DEF FreshAccountSave

-----------------------------------------------------------------------------
(* Accounts and codes keep to SoftDeletion *)

\* A step of a request, or one that touches neither tables nor requests.
LEMMA NextMoves ==
    ASSUME AccountsInv, [Next]_vars
    PROVE  \/ \E p \in Requests : Moved(p)
           \/ UNCHANGED <<account, token, issued, pc, job, held>>
BY ArrivalMoves, StepMoves DEF AccountsInv, Next, JwtExpires, vars, tables

\* What a step may do to the row of an address, and to the copies of it.
LifeMoves(e) ==
    /\ account[e].state = "absent" => account'[e].state \in {"absent", "live"}
    /\ account[e].state = "live" => account'[e].state \in {"live", "deleted"}
    /\ account[e].state = "deleted" => \/ account'[e].state = "deleted"
                                       \/ account'[e].state = "live" /\ ~NoCopy(e)
    /\ account[e].state = "deleted" /\ NoCopy(e) => NoCopy(e)'

LEMMA RowAndCopies ==
    ASSUME AccountsInv, [Next]_vars, NEW e \in Emails
    PROVE  LifeMoves(e)
<1>1. ASSUME NEW p \in Requests, Moved(p)
      PROVE  LifeMoves(e)
  <2>1. CASE Insert(p)
    <3>1. job[p].email \in Emails
      BY <2>1, JobUnderWay DEF AccountsInv, Insert, JobFits
    <3>2. account'[e] = account[e] \/ (account[e].state = "absent" /\ account'[e].state = "live")
      BY <2>1, <3>1 DEF Insert, AccountsInv, Shapes, RowsFit
    <3>3. NoCopy(e) => NoCopy(e)'
      BY <2>1 DEF Insert, NoCopy
    <3> QED
      BY <3>2, <3>3 DEF LifeMoves, AccountsInv, Shapes, RowsFit, Account
  <2>2. CASE Save(p)
    <3>1. job[p].email \in Emails /\ held[p] # None
      BY <2>2, SaveRows DEF AccountsInv, Save, Shapes, RequestsFit, RequestFits
    <3>2. \/ account'[e] = account[e]
          \/ e = job[p].email /\ account'[e].state = "live"
      BY <2>2, <3>1 DEF Save, SaveUser, AccountsInv, Shapes, RowsFit
    <3>3. e = job[p].email => ~NoCopy(e) /\ account[e].state # "absent"
      BY <3>1 DEF NoCopy, AccountsInv, RowsConfirmable
    <3>4. NoCopy(e) => NoCopy(e)'
      BY <2>2 DEF Save, NoCopy, AccountsInv, Shapes
    <3> QED
      BY <3>2, <3>3, <3>4 DEF LifeMoves, AccountsInv, Shapes, RowsFit, Account
  <2>3. CASE ~Insert(p) /\ ~Save(p)
    <3>1. \/ account'[e] = account[e]
          \/ Live(e) /\ account'[e].state = "deleted"
      BY <1>1, <2>3 DEF Moved, RowsMove
    <3>2. ASSUME NoCopy(e), account[e].state = "deleted"
          PROVE  NoCopy(e)'
      <4> SUFFICES ASSUME NEW q \in Requests, held'[q] # None
                   PROVE  job'[q].email # e
        BY DEF NoCopy
      <4>1. CASE q = p
        BY <1>1, <3>2, <4>1 DEF Moved, CopiesMove, LoadsOf, NoCopy, Live
      <4>2. CASE q # p
        BY <1>1, <3>2, <4>2 DEF Moved, OthersStay, NoCopy
      <4> QED
        BY <4>1, <4>2
    <3> QED
      BY <3>1, <3>2 DEF LifeMoves, Live, AccountsInv, Shapes, RowsFit, Account
  <2> QED
    BY <2>1, <2>2, <2>3
<1>2. CASE UNCHANGED <<account, token, issued, pc, job, held>>
  BY <1>2 DEF LifeMoves, NoCopy, AccountsInv, Shapes, RowsFit, Account
<1> QED
  BY <1>1, <1>2, NextMoves

LEMMA LifeOfAccount ==
    ASSUME AccountsInv, [Next]_vars, NEW e \in Emails
    PROVE  AccountLife(e)' = AccountLife(e) \/ <<AccountLife(e), AccountLife(e)'>> \in Addresses!Moves
<1>1. LifeMoves(e)
  BY RowAndCopies
<1>2. /\ account[e].state \in {"absent", "live", "deleted"}
      /\ account'[e].state \in {"absent", "live", "deleted"}
  BY NextAccounts DEF AccountsInv, Shapes, RowsFit, Account
<1>3. AccountLife(e)' = CASE account'[e].state = "absent" -> "free"
                          [] account'[e].state = "live" -> "live"
                          [] account'[e].state = "deleted" ->
                                IF NoCopy(e)' THEN "gone" ELSE "deleted"
  BY DEF AccountLife
<1>4. CASE account[e].state = "absent"
  BY <1>1, <1>2, <1>3, <1>4 DEF LifeMoves, AccountLife, Addresses!Moves
<1>5. CASE account[e].state = "live"
  BY <1>1, <1>2, <1>3, <1>5 DEF LifeMoves, AccountLife, Addresses!Moves
<1>6. CASE account[e].state = "deleted"
  BY <1>1, <1>2, <1>3, <1>6 DEF LifeMoves, AccountLife, Addresses!Moves
<1> QED
  BY <1>2, <1>4, <1>5, <1>6

\* However requests that hold copies of an account overlap its deletion: once it is
\* deleted and the last of them is done, neither a save nor a registration brings it
\* back.  The accounts implement SoftDeletion.
THEOREM AccountsImplementSoftDeletion == Spec => AccountsEnd
<1> DEFINE life == [e \in Emails |-> AccountLife(e)]
<1>1. Init => Addresses!LifeInit
  BY DEF Init, AccountLife, Addresses!LifeInit
<1>2. AccountsInv /\ [Next]_vars => [Addresses!LifeNext]_life
  <2> SUFFICES ASSUME AccountsInv, [Next]_vars
               PROVE  Addresses!LifeNext
    OBVIOUS
  <2>1. life' = [e \in Emails |-> AccountLife(e)']
    OBVIOUS
  <2>2. ASSUME NEW e \in Emails
        PROVE  Addresses!LifeStep(e)
    BY LifeOfAccount DEF Addresses!LifeStep
  <2> QED
    BY <2>1, <2>2 DEF Addresses!LifeNext
<1> QED
  BY <1>1, <1>2, AccountsInvariant, PTL DEF Spec, AccountsEnd, Addresses!LifeSpec

\* What a step may do to the token of a code, and to the resets that have found it.
TokenMoves(h) ==
    /\ token[h].state = "absent" => token'[h].state \in {"absent", "live"}
    /\ token[h].state = "live" => token'[h].state \in {"live", "deleted"}
    /\ token[h].state = "deleted" => token'[h].state = "deleted"
    /\ token[h].state = "deleted" /\ NoReset(h) => NoReset(h)'

LEMMA LifeOfCode ==
    ASSUME AccountsInv, [Next]_vars, NEW h \in Codes
    PROVE  CodeLife(h)' = CodeLife(h) \/ <<CodeLife(h), CodeLife(h)'>> \in ResetCodes!Moves
<1>1. /\ token[h].state \in {"absent", "live", "deleted"}
      /\ token'[h].state \in {"absent", "live", "deleted"}
  BY NextAccounts DEF AccountsInv, Shapes, RowsFit, Token
<1>2. /\ NoReset(h) <=> \A q \in Requests : ~Resetting(q, h)
      /\ NoReset(h)' <=> \A q \in Requests : ~Resetting(q, h)'
  BY DEF NoReset, Resetting
<1>3. TokenMoves(h)
  <2>1. ASSUME NEW p \in Requests, Moved(p)
        PROVE  TokenMoves(h)
    <3>1. token[h].state = "deleted" /\ NoReset(h) => NoReset(h)'
      BY <1>2, <2>1 DEF Moved, CodesMove, OthersStay, Resetting
    <3>2. CASE UNCHANGED token
      BY <1>1, <3>1, <3>2 DEF TokenMoves
    <3>3. CASE CreateToken(p)
      <4>1. job[p].code \in Codes /\ Creating(p, job[p].code)
        BY <3>3, JobUnderWay DEF AccountsInv, CreateToken, JobFits, Creating
      <4>2. token'[h] = token[h] \/ (token[h].state = "absent" /\ token'[h].state = "live")
        BY <3>3, <4>1 DEF CreateToken, AccountsInv, Shapes, RowsFit, TokensOnce
      <4> QED
        BY <1>1, <3>1, <4>2 DEF TokenMoves
    <3>4. CASE Spend(p)
      <4>1. job[p].code \in Codes /\ Resetting(p, job[p].code)
        BY <3>4, JobUnderWay DEF AccountsInv, Spend, JobFits, Resetting
      <4>2. token'[h] = token[h] \/ (token[h].state # "absent" /\ token'[h].state = "deleted")
        BY <3>4, <4>1 DEF Spend, AccountsInv, Shapes, RowsFit, TokensOnce, Token
      <4> QED
        BY <1>1, <3>1, <4>2 DEF TokenMoves
    <3> QED
      BY <2>1, <3>2, <3>3, <3>4 DEF Moved, CodesMove
  <2>2. CASE UNCHANGED <<account, token, issued, pc, job, held>>
    BY <1>1, <2>2 DEF TokenMoves, NoReset
  <2> QED
    BY <2>1, <2>2, NextMoves
<1>4. CodeLife(h)' = CASE token'[h].state = "absent" -> "free"
                       [] token'[h].state = "live" -> "live"
                       [] token'[h].state = "deleted" ->
                             IF NoReset(h)' THEN "gone" ELSE "deleted"
  BY DEF CodeLife
<1>5. CASE token[h].state = "absent"
  BY <1>1, <1>3, <1>4, <1>5 DEF TokenMoves, CodeLife, ResetCodes!Moves
<1>6. CASE token[h].state = "live"
  BY <1>1, <1>3, <1>4, <1>6 DEF TokenMoves, CodeLife, ResetCodes!Moves
<1>7. CASE token[h].state = "deleted"
  BY <1>1, <1>3, <1>4, <1>7 DEF TokenMoves, CodeLife, ResetCodes!Moves
<1> QED
  BY <1>1, <1>5, <1>6, <1>7

\* However many resets found a code before one of them spent it: after the last of
\* them is done no reset uses it again.  The codes implement SoftDeletion.
THEOREM CodesImplementSoftDeletion == Spec => CodesEnd
<1> DEFINE life == [h \in Codes |-> CodeLife(h)]
<1>1. Init => ResetCodes!LifeInit
  BY DEF Init, CodeLife, ResetCodes!LifeInit
<1>2. AccountsInv /\ [Next]_vars => [ResetCodes!LifeNext]_life
  <2> SUFFICES ASSUME AccountsInv, [Next]_vars
               PROVE  ResetCodes!LifeNext
    OBVIOUS
  <2>1. life' = [h \in Codes |-> CodeLife(h)']
    OBVIOUS
  <2>2. ASSUME NEW h \in Codes
        PROVE  ResetCodes!LifeStep(h)
    BY LifeOfCode DEF ResetCodes!LifeStep
  <2> QED
    BY <2>1, <2>2 DEF ResetCodes!LifeNext
<1> QED
  BY <1>1, <1>2, AccountsInvariant, PTL DEF Spec, CodesEnd, ResetCodes!LifeSpec

==============================================================================
