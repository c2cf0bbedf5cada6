--------------------------- MODULE ContactBook_proofs ---------------------------
(***************************************************************************)
(* Proof that the contact routes, with their cache and their overlapping   *)
(* requests, implement ContactBook.                                        *)
(***************************************************************************)
EXTENDS AddressBook_proofs

\* A request about to soft-delete a contact, or to attach a detail to it, holds the
\* copy its findOne answered.
ContactFound == \A p \in Requests : pc[p] \in {"erase", "attach"} => held[p] # None

\* Every copy is one of a contact that was inserted.
CopiesHaveRows == \A c \in Contacts : CopiesOf(c) # {} => contact[c].state # "absent"

\* A request about to soft-delete a detail has found its row.
DetailFoundFirst ==
    \A p \in Requests : pc[p] = "drop" => detail[job[p].detail].state # "absent"

\* What the refinement needs of a state, next to the type invariant and the details'
\* homes.
BookInv ==
    /\ TypeOK
    /\ DetailsStayHome
    /\ ContactFound
    /\ CopiesHaveRows
    /\ DetailFoundFirst

-----------------------------------------------------------------------------
(* The invariant *)

\* The steps that reach the awaits of a soft deletion and of an attachment.
LEMMA ReachedAwaits ==
    ASSUME TypeOK, NEW p \in Requests, Step(p), pc'[p] \in {"erase", "attach", "drop"}
    PROVE  \/ CacheHit(p)
           \/ Fill(p)
           \/ DetailFound(p)
           \/ TagFound(p)
<1>0. pc \in [Requests -> Places]
  BY DEF TypeOK
<1>1. ASSUME NEW place, Goto(p, place)
      PROVE  pc'[p] = place
  BY <1>0, <1>1 DEF Goto
<1>2. ~Throw(p)
  BY <1>1 DEF Throw
<1>3. ContactStep(p) => CacheHit(p) \/ Fill(p)
  BY <1>1, <1>2
  DEF ContactStep, CacheMiss, Load, NotFound, Invalidate, TagsFound,
      TagMissing, AvatarRefused, Save, SaveRefused, Erase, Reply
<1>4. DetailStep(p) => DetailFound(p)
  BY <1>1, <1>2
  DEF DetailStep, Validated, Duplicated, PhoneInvalid, Attach, DetailNotFound, Write, Drop
<1>5. TagStep(p) => TagFound(p)
  BY <1>1, <1>2 DEF TagStep, TagNotFound, Rename, RenameRefused, DropTag
<1> QED
  BY <1>2, <1>3, <1>4, <1>5 DEF Step, Fails

LEMMA ContactFoundStep ==
    TypeOK /\ ContactFound /\ [Next]_vars => ContactFound'
<1> SUFFICES ASSUME TypeOK, ContactFound, [Next]_vars,
                    NEW p \in Requests, pc'[p] \in {"erase", "attach"}
             PROVE  held'[p] # None
  BY DEF ContactFound
<1>1. CASE pc'[p] = pc[p] /\ held'[p] = held[p]
  BY <1>1 DEF ContactFound
<1>2. CASE CacheHit(p)
  BY <1>2 DEF CacheHit, TypeOK
<1>3. CASE Fill(p)
  BY <1>3 DEF Fill, TypeOK, RequestTypeOK
<1>4. CASE DetailFound(p)
  <2>1. job[p].op \in DetailOps \ {"addDetail"} /\ job[p].then \in {"reply", Resume(job[p].op)}
    BY <1>4, AtDetailAwait, JobUnderWay DEF DetailFound
  <2>2. pc'[p] = job[p].then
    BY <1>4 DEF DetailFound, Goto, TypeOK
  <2> QED
    BY <2>1, <2>2 DEF Resume, DetailOps
<1>5. CASE TagFound(p)
  <2>1. job[p].op \in {"updateTag", "removeTag"} /\ job[p].then \in {"reply", Resume(job[p].op)}
    BY <1>5, AtTagAwait, JobUnderWay DEF TagFound
  <2>2. pc'[p] = job[p].then
    BY <1>5 DEF TagFound, Goto, TypeOK
  <2> QED
    BY <2>1, <2>2 DEF Resume
<1> QED
  BY <1>1, <1>2, <1>3, <1>4, <1>5, OwnSteps, ReachedAwaits

\* A row, once inserted, is never taken back to nothing.
LEMMA RowsStay ==
    ASSUME TypeOK, [Next]_vars
    PROVE  /\ \A c \in Contacts : contact[c].state # "absent" => contact'[c].state # "absent"
           /\ \A k \in Details : detail[k].state # "absent" => detail'[k].state # "absent"
<1>1. \A c \in Contacts : contact[c].state # "absent" => contact'[c].state # "absent"
  BY OneRowMoves DEF RowInserted, RowRewritten
<1>2. \A k \in Details : detail[k].state # "absent" => detail'[k].state # "absent"
  BY MovesAfterNext DEF DetailMoves
<1> QED
  BY <1>1, <1>2

LEMMA DetailFoundFirstStep ==
    TypeOK /\ DetailFoundFirst /\ [Next]_vars => DetailFoundFirst'
<1> SUFFICES ASSUME TypeOK, DetailFoundFirst, [Next]_vars,
                    NEW p \in Requests, pc'[p] = "drop"
             PROVE  detail'[job'[p].detail].state # "absent"
  BY DEF DetailFoundFirst
<1>1. CASE pc'[p] = pc[p] /\ job'[p] = job[p]
  <2>1. job[p].detail \in Details /\ detail[job[p].detail].state # "absent"
    BY <1>1, AtDetailAwait DEF DetailFoundFirst
  <2> QED
    BY <1>1, <2>1, RowsStay
<1>2. CASE DetailFound(p)
  BY <1>2 DEF DetailFound, DetailVisible, tables
<1>3. CASE CacheHit(p) \/ Fill(p)
  <2>1. job[p].op \in ContactOps /\ job[p].then \in {"reply", Resume(job[p].op)}
    BY <1>3, AtContactAwait, JobUnderWay DEF CacheHit, Fill
  <2>2. pc'[p] = job[p].then
    BY <1>3 DEF CacheHit, Fill, Goto, TypeOK
  <2> QED
    BY <2>1, <2>2 DEF Resume, ContactOps
<1>4. CASE TagFound(p)
  <2>1. job[p].op \in {"updateTag", "removeTag"} /\ job[p].then \in {"reply", Resume(job[p].op)}
    BY <1>4, AtTagAwait, JobUnderWay DEF TagFound
  <2>2. pc'[p] = job[p].then
    BY <1>4 DEF TagFound, Goto, TypeOK
  <2> QED
    BY <2>1, <2>2 DEF Resume
<1> QED
  BY <1>1, <1>2, <1>3, <1>4, OwnSteps, ReachedAwaits

LEMMA CopiesHaveRowsStep ==
    TypeOK /\ CopiesHaveRows /\ [Next]_vars => CopiesHaveRows'
<1> SUFFICES ASSUME TypeOK, CopiesHaveRows, [Next]_vars,
                    NEW c \in Contacts, NEW s \in CopiesOf(c)'
             PROVE  contact'[c].state # "absent"
  BY DEF CopiesHaveRows
<1>1. contact[c].state # "absent"
  BY CopiesAfterNext DEF CopiesComeFromLoads, CopiesHaveRows
<1> QED
  BY <1>1, RowsStay

LEMMA BookInvInit == Init => BookInv
<1> SUFFICES ASSUME Init
             PROVE  BookInv
  OBVIOUS
<1>1. \A c \in Contacts : CopiesOf(c) = {}
  BY DEF Init, CopiesOf
<1>2. \A p \in Requests : pc[p] = "idle"
  BY DEF Init
<1> QED
  BY <1>1, <1>2, InitType
  DEF BookInv, DetailsStayHome, ContactFound, CopiesHaveRows, DetailFoundFirst

LEMMA BookInvStep == BookInv /\ [Next]_vars => BookInv'
BY NextType, DetailsStayHomeStep, ContactFoundStep, CopiesHaveRowsStep, DetailFoundFirstStep
DEF BookInv

LEMMA BookInvariant == Spec => []BookInv
BY BookInvInit, BookInvStep, PTL DEF Spec

-----------------------------------------------------------------------------
(* The lives and the owners of the contacts *)

LEMMA LifeAndOwner ==
    ASSUME BookInv, [Next]_vars, NEW c \in Contacts
    PROVE  /\ LifeOf(c)' = LifeOf(c) \/ <<LifeOf(c), LifeOf(c)'>> \in Book!Moves
           /\ IF LifeOf(c) = "free" /\ LifeOf(c)' = "live"
                THEN contact'[c].owner \in Users
                ELSE contact'[c].owner = contact[c].owner
<1> DEFINE old == contact[c]
           new == contact'[c]
<1>1. old.state \in States /\ new.state \in States
  BY NextType DEF BookInv, TypeOK, TablesTypeOK, ContactRow
<1>2. LifeOf(c)' = CASE new.state = "absent" -> "free"
                     [] new.state = "live" -> "live"
                     [] new.state = "deleted" -> IF Gone(c)' THEN "gone" ELSE "deleted"
  BY DEF LifeOf
<1>3. Gone(c) => Gone(c)' /\ new.state = "deleted"
  BY GoneStays DEF BookInv, Gone
<1>4. \/ new = old
      \/ old.state = "absent" /\ new.state = "live" /\ new.owner \in Users
      \/ old.state # "absent" /\ new.state # "absent" /\ new.owner = old.owner
  <2>1. CASE RowInserted(c)
    BY <2>1 DEF RowInserted
  <2>2. CASE RowRewritten(c)
    <3>1. PICK p \in Requests : job[p].contact = c /\ (Save(p) \/ Erase(p))
      BY <2>2 DEF RowRewritten
    <3>2. pc[p] \in {"save", "erase"} /\ job[p] # None
      BY <3>1, AtContactAwait DEF BookInv, Save, Erase
    <3>3. held[p] # None
      BY <3>2 DEF BookInv, ContactFound, TypeOK, RequestTypeOK
    <3>4. held[p] \in CopiesOf(c)
      BY <3>1, <3>2, <3>3 DEF CopiesOf
    <3> QED
      BY <2>2, <3>4 DEF BookInv, CopiesHaveRows, RowRewritten
  <2> QED
    BY <2>1, <2>2, OneRowMoves DEF BookInv
<1> HIDE DEF old, new
<1>5. CASE old.state = "absent"
  BY <1>1, <1>2, <1>3, <1>4, <1>5 DEF LifeOf, Book!Moves, States, Gone, old, new
<1>6. CASE old.state = "live"
  BY <1>1, <1>2, <1>3, <1>4, <1>6 DEF LifeOf, Book!Moves, States, Gone, old, new
<1>7. CASE old.state = "deleted"
  BY <1>1, <1>2, <1>3, <1>4, <1>7 DEF LifeOf, Book!Moves, States, Gone, old, new
<1> QED
  BY <1>1, <1>5, <1>6, <1>7 DEF States

-----------------------------------------------------------------------------
(* The homes of the details *)

LEMMA HomesAre ==
    ASSUME TypeOK, NEW k \in Details, NEW c
    PROVE  c \in HomesOf(k) <=>
              /\ c \in Contacts
              /\ \/ detail[k].state = "live" /\ detail[k].contact = c
                 \/ \E s \in CopiesOf(c) : k \in DOMAIN s.details
<1>1. ASSUME c \in Contacts, NEW p \in Requests, held[p] # None, job[p].contact = c
      PROVE  held[p] \in CopiesOf(c)
  <2>1. job[p] # None
    BY <1>1 DEF TypeOK, RequestTypeOK
  <2> QED
    BY <1>1, <2>1 DEF CopiesOf
<1>2. ASSUME c \in Contacts, NEW s \in CopiesOf(c)
      PROVE  \/ cache[c] # None /\ s = cache[c]
             \/ \E p \in Requests : held[p] # None /\ job[p].contact = c /\ s = held[p]
  BY <1>2 DEF CopiesOf
<1>3. c \in Contacts /\ cache[c] # None => cache[c] \in CopiesOf(c)
  BY DEF CopiesOf
<1> QED
  BY <1>1, <1>2, <1>3 DEF HomesOf

LEMMA OneHome ==
    ASSUME BookInv, NEW k \in Details, NEW c \in HomesOf(k), NEW d \in HomesOf(k)
    PROVE  c = d
<1>1. \A e \in HomesOf(k) :
         /\ e \in Contacts
         /\ \/ detail[k].state = "live" /\ detail[k].contact = e
            \/ \E s \in CopiesOf(e) : k \in DOMAIN s.details
  BY HomesAre DEF BookInv
<1>2. \A e \in Contacts : e # None
  BY NoneAssumption
<1> QED
  BY <1>1, <1>2 DEF BookInv, DetailsStayHome

\* A detail's row comes by an attachment to a contact that is not gone.
LEMMA DetailInserted ==
    ASSUME BookInv, [Next]_vars, NEW k \in Details,
           detail[k].state = "absent", detail'[k].state # "absent"
    PROVE  \E c \in Contacts : /\ detail'[k].state = "live"
                               /\ detail'[k].contact = c
                               /\ LifeOf(c) \in {"live", "deleted"}
<1>0. TypeOK /\ detail \in [Details -> DetailRow]
  BY DEF BookInv, TypeOK, TablesTypeOK
<1>1. ~UNCHANGED detail
  OBVIOUS
<1>2. ASSUME NEW p \in Requests
      PROVE  ~Save(p)
  <2> SUFFICES ASSUME Save(p)
               PROVE  FALSE
    OBVIOUS
  <2> DEFINE c == job[p].contact
             s == Merge(held[p], job[p].patch, job[p].tags)
  <2>1. /\ c \in Contacts
        /\ held[p] \in CopiesOf(c)
        /\ detail'[k] = SavedDetail(c, s, k)
        /\ s.details = held[p].details
    BY <1>0, SavedCopy DEF SaveContact
  <2>2. k \notin DOMAIN s.details
    BY <2>1 DEF BookInv, DetailsStayHome
  <2>3. k \notin DetailsOf(c)
    BY DEF DetailsOf
  <2> QED
    BY <2>1, <2>2, <2>3 DEF SavedDetail
<1>3. ASSUME NEW p \in Requests
      PROVE  ~Write(p) /\ ~Drop(p) /\ ~Erase(p)
  BY <1>0, AtDetailAwait
  DEF Write, Drop, Erase, WriteDetail, SoftDeleteDetail, SoftDeleteContact, BookInv,
      DetailFoundFirst, DetailRow
<1>4. ASSUME NEW p \in Requests, NEW u \in Users, NEW c \in Contacts, NEW patch \in Patch
      PROVE  ~Create(p, u, c, patch)
  BY <1>1 DEF Create, InsertContact
<1>5. PICK p \in Requests : Attach(p)
  BY <1>1, <1>2, <1>3, <1>4, StepsOnRows
<1> DEFINE c == job[p].contact
<1>6. c \in Contacts /\ job[p] # None /\ held[p] # None
  BY <1>0, <1>5, AtContactAwait DEF Attach, BookInv, ContactFound
<1>7. detail'[k].state = "live" /\ detail'[k].contact = c
  BY <1>0, <1>5 DEF Attach, InsertDetail
<1>8. CopiesOf(c) # {}
  BY <1>6 DEF CopiesOf
<1>9. contact[c].state \in {"live", "deleted"} /\ ~Gone(c)
  BY <1>0, <1>6, <1>8
  DEF BookInv, CopiesHaveRows, Gone, TypeOK, TablesTypeOK, ContactRow, States
<1> QED
  BY <1>6, <1>7, <1>9 DEF LifeOf

\* Where a detail is at home after a step, it was before or has just been inserted.
LEMMA HomesAfterNext ==
    ASSUME BookInv, [Next]_vars, NEW k \in Details, NEW c \in HomesOf(k)'
    PROVE  \/ c \in HomesOf(k)
           \/ /\ detail[k].state = "absent"
              /\ LifeOf(c) \in {"live", "deleted"}
<1>1. TypeOK /\ TypeOK'
  BY NextType DEF BookInv
<1>2. /\ c \in Contacts
      /\ \/ detail'[k].state = "live" /\ detail'[k].contact = c
         \/ \E s \in CopiesOf(c)' : k \in DOMAIN s.details
  <2>1. ASSUME NEW p \in Requests, held'[p] # None, job'[p].contact = c
        PROVE  held'[p] \in CopiesOf(c)'
    <3>1. job'[p] # None
      BY <1>1, <2>1 DEF TypeOK, RequestTypeOK
    <3> QED
      BY <2>1, <3>1 DEF CopiesOf
  <2>2. cache'[c] # None => cache'[c] \in CopiesOf(c)'
    BY DEF CopiesOf
  <2> QED
    BY <2>1, <2>2 DEF HomesOf
<1>3. ASSUME NEW s \in CopiesOf(c)', k \in DOMAIN s.details
      PROVE  c \in HomesOf(k)
  <2>1. s \in CopiesOf(c) \/ s = LoadContact(c)
    BY <1>1, <1>2, CopiesAfterNext DEF CopiesComeFromLoads
  <2>2. s = LoadContact(c) => detail[k].state = "live" /\ detail[k].contact = c
    BY <1>3 DEF LoadContact, DetailsOf
  <2> QED
    BY <1>1, <1>2, <1>3, <2>1, <2>2, HomesAre
<1>4. CASE detail'[k].state = "live" /\ detail'[k].contact = c
  <2>1. CASE detail[k].state = "absent"
    BY <1>4, <2>1, DetailInserted
  <2>2. CASE detail[k].state # "absent"
    <3>1. \/ detail[k].state = "live" /\ detail[k].contact = c
          \/ \E s \in CopiesOf(c) : k \in DOMAIN s.details
      BY <1>1, <1>2, <1>4, <2>2, MovesAfterNext, NoneAssumption DEF DetailMoves
    <3> QED
      BY <1>1, <1>2, <3>1, HomesAre
  <2> QED
    BY <2>1, <2>2
<1> QED
  BY <1>2, <1>3, <1>4

LEMMA HomeMoves ==
    ASSUME BookInv, [Next]_vars, NEW k \in Details
    PROVE  \/ HomeOf(k)' = HomeOf(k)
           \/ HomeOf(k) \in Contacts /\ HomeOf(k)' = "lost"
           \/ /\ HomeOf(k) = None
              /\ HomeOf(k)' \in Contacts
              /\ LifeOf(HomeOf(k)') \in {"live", "deleted"}
<1>1. TypeOK /\ TypeOK' /\ DetailsStayHome
  BY NextType DEF BookInv
<1>2. HomeOf(k)' = CASE HomesOf(k)' # {} -> CHOOSE c \in HomesOf(k)' : TRUE
                     [] HomesOf(k)' = {} -> IF detail'[k].state = "absent" THEN None ELSE "lost"
  BY DEF HomeOf
<1>3. HomesOf(k) # {} => detail[k].state # "absent"
  <2>1. ASSUME NEW c \in HomesOf(k)
        PROVE  detail[k].state # "absent"
    <3>1. \/ detail[k].state = "live"
          \/ \E s \in CopiesOf(c) : k \in DOMAIN s.details
      BY <1>1, <2>1, HomesAre
    <3>2. c \in Contacts
      BY <1>1, <2>1, HomesAre
    <3> QED
      BY <1>1, <3>1, <3>2 DEF DetailsStayHome
  <2> QED
    BY <2>1
<1>4. HomesOf(k) \in SUBSET Contacts /\ HomesOf(k)' \in SUBSET Contacts
  BY DEF HomesOf
<1>5. CASE HomesOf(k)' # {}
  <2>1. PICK c \in HomesOf(k)' : c = HomeOf(k)'
    BY <1>2, <1>5
  <2>2. CASE c \in HomesOf(k)
    <3>1. HomeOf(k) \in HomesOf(k)
      BY <2>2 DEF HomeOf
    <3> QED
      BY <2>1, <2>2, <3>1, OneHome
  <2>3. CASE detail[k].state = "absent" /\ LifeOf(c) \in {"live", "deleted"}
    BY <1>3, <1>4, <2>1, <2>3 DEF HomeOf
  <2> QED
    BY <2>1, <2>2, <2>3, HomesAfterNext
<1>6. CASE HomesOf(k)' = {}
  <2>1. CASE detail[k].state = "absent"
    <3>1. detail'[k].state = "absent"
      <4> SUFFICES ASSUME detail'[k].state # "absent"
                   PROVE  FALSE
        OBVIOUS
      <4>1. PICK c \in Contacts : detail'[k].state = "live" /\ detail'[k].contact = c
        BY <2>1, DetailInserted
      <4> QED
        BY <1>6, <4>1 DEF HomesOf
    <3> QED
      BY <1>2, <1>3, <1>6, <2>1, <3>1 DEF HomeOf
  <2>2. CASE detail[k].state # "absent"
    <3>1. detail'[k].state # "absent"
      BY <1>1, <2>2, RowsStay
    <3>2. HomeOf(k) = "lost" \/ HomeOf(k) \in Contacts
      BY <1>4, <2>2 DEF HomeOf
    <3> QED
      BY <1>2, <1>6, <3>1, <3>2
  <2> QED
    BY <2>1, <2>2
<1> QED
  BY <1>5, <1>6

-----------------------------------------------------------------------------
(* The refinement *)

LEMMA RoutesInit == Init => Book!BookInit
<1> SUFFICES ASSUME Init
             PROVE  Book!BookInit
  OBVIOUS
<1>1. \A c \in Contacts : LifeOf(c) = "free" /\ contact[c].owner = None
  BY DEF Init, TablesInit, LifeOf
<1>2. \A k \in Details : HomeOf(k) = None
  BY DEF Init, TablesInit, HomeOf, HomesOf
<1> QED
  BY <1>1, <1>2 DEF Book!BookInit, Book!LifeInit

\* Every step moves each contact and each detail as ContactBook says, or not at all.
LEMMA RoutesStep == BookInv /\ [Next]_vars => Book!BookNext
<1> DEFINE life == [c \in Contacts |-> LifeOf(c)]
           owner == [c \in Contacts |-> contact[c].owner]
           home == [k \in Details |-> HomeOf(k)]
<1> SUFFICES ASSUME BookInv, [Next]_vars
             PROVE  Book!BookNext
  OBVIOUS
<1>1. /\ life' = [c \in Contacts |-> LifeOf(c)']
      /\ owner' = [c \in Contacts |-> contact'[c].owner]
      /\ home' = [k \in Details |-> HomeOf(k)']
  OBVIOUS
<1>2. ASSUME NEW c \in Contacts
      PROVE  Book!LifeStep(c) /\ Book!OwnerStep(c)
  BY LifeAndOwner DEF Book!LifeStep, Book!OwnerStep
<1>3. ASSUME NEW k \in Details
      PROVE  Book!HomeStep(k)
  BY HomeMoves DEF Book!HomeStep
<1> QED
  BY <1>1, <1>2, <1>3 DEF Book!BookNext, Book!LifeNext

\* Whatever is cached and whatever requests overlap: a contact keeps its owner and
\* once gone does not come back, and a detail never changes contacts, nor is given to
\* a contact that is gone, nor restored once lost.
THEOREM RoutesImplementContactBook == Spec => ImplementsContactBook
BY RoutesInit, RoutesStep, BookInvariant, PTL DEF Spec, ImplementsContactBook, Book!BookSpec

==============================================================================
