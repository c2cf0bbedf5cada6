-------------------------- MODULE AddressBook_proofs --------------------------
(***************************************************************************)
(* Proofs about AddressBook: what the statements of ContactTables          *)
(* preserve, the type invariant, and what keeps details with their         *)
(* contact.                                                                *)
(***************************************************************************)
EXTENDS AddressBook, Integers, TLAPS

-----------------------------------------------------------------------------
(* The tables: the shapes of the rows, and of the entities loaded, merged and   *)
(* saved.                                                                       *)

\* A function on a subset of D is a partial function on D, and conversely.
LEMMA PartialFunctionIntro ==
    ASSUME NEW D, NEW R, NEW S \in SUBSET D, NEW f \in [S -> R]
    PROVE  f \in PartialFunctions(D, R)
BY DEF PartialFunctions

LEMMA PartialFunctionElim ==
    ASSUME NEW D, NEW R, NEW f \in PartialFunctions(D, R)
    PROVE  DOMAIN f \in SUBSET D /\ f \in [DOMAIN f -> R]
BY DEF PartialFunctions

\* The entity a find returns has the shape of a snapshot.
LEMMA LoadContactType ==
    ASSUME TablesTypeOK, NEW c \in Contacts
    PROVE  LoadContact(c) \in Snapshot
<1>1. contact[c].fields \in [Fields -> Values \cup {None}]
  BY DEF TablesTypeOK, ContactRow
<1>2. [k \in DetailsOf(c) |-> detail[k].value] \in PartialFunctions(Details, Values \cup {None})
  <2>1. DetailsOf(c) \in SUBSET Details
    BY DEF DetailsOf
  <2>2. \A k \in DetailsOf(c) : detail[k].value \in Values \cup {None}
    BY <2>1 DEF TablesTypeOK, DetailRow
  <2> QED
    BY <2>1, <2>2, PartialFunctionIntro
<1>3. [t \in TagsOf(c) |-> tag[t].name] \in PartialFunctions(Tags, Values \cup {None})
  <2>1. TagsOf(c) \in SUBSET Tags
    BY DEF TagsOf, TablesTypeOK, ContactRow
  <2>2. \A t \in TagsOf(c) : tag[t].name \in Values \cup {None}
    BY <2>1 DEF TablesTypeOK, TagRow
  <2> QED
    BY <2>1, <2>2, PartialFunctionIntro
<1> QED
  BY <1>1, <1>2, <1>3 DEF LoadContact, Snapshot

\* Merging a body into an entity gives an entity, with the entity's details.
LEMMA MergeType ==
    ASSUME NEW s \in Snapshot, NEW patch \in Patch,
           NEW newTags \in PartialFunctions(Tags, Values \cup {None})
    PROVE  /\ Merge(s, patch, newTags) \in Snapshot
           /\ Merge(s, patch, newTags).details = s.details
<1> DEFINE fields == [f \in Fields |-> IF f \in DOMAIN patch THEN patch[f] ELSE s.fields[f]]
           tags == [t \in DOMAIN s.tags \cup DOMAIN newTags |->
                      IF t \in DOMAIN newTags THEN newTags[t] ELSE s.tags[t]]
<1>1. fields \in [Fields -> Values \cup {None}]
  <2>1. \A f \in DOMAIN patch : patch[f] \in Values
    BY PartialFunctionElim DEF Patch
  <2> QED
    BY <2>1 DEF Snapshot
<1>2. tags \in PartialFunctions(Tags, Values \cup {None})
  <2>1. s.tags \in PartialFunctions(Tags, Values \cup {None})
    BY DEF Snapshot
  <2>2. DOMAIN s.tags \cup DOMAIN newTags \in SUBSET Tags
    BY <2>1, PartialFunctionElim
  <2>3. \A t \in DOMAIN s.tags : s.tags[t] \in Values \cup {None}
    BY <2>1, PartialFunctionElim
  <2>4. \A t \in DOMAIN newTags : newTags[t] \in Values \cup {None}
    BY PartialFunctionElim
  <2>5. tags \in [DOMAIN s.tags \cup DOMAIN newTags -> Values \cup {None}]
    BY <2>3, <2>4
  <2> QED
    BY <2>2, <2>5, PartialFunctionIntro
<1>3. Merge(s, patch, newTags) = [fields |-> fields, details |-> s.details, tags |-> tags]
  BY DEF Merge
<1> HIDE DEF fields, tags
<1> QED
  BY <1>1, <1>2, <1>3 DEF Snapshot

\* Saving an entity leaves well-formed rows.
LEMMA SaveContactType ==
    ASSUME TablesTypeOK, NEW c \in Contacts, NEW s \in Snapshot, SaveContact(c, s)
    PROVE  TablesTypeOK'
<1>1. s.tags \in PartialFunctions(Tags, Values \cup {None})
      /\ s.details \in PartialFunctions(Details, Values \cup {None})
  BY DEF Snapshot
<1>2. /\ DOMAIN s.tags \in SUBSET Tags
      /\ \A t \in DOMAIN s.tags : s.tags[t] \in Values \cup {None}
      /\ \A k \in DOMAIN s.details : s.details[k] \in Values \cup {None}
  BY <1>1, PartialFunctionElim
<1>3. contact' \in [Contacts -> ContactRow]
  BY <1>2 DEF SaveContact, TablesTypeOK, ContactRow, States, Snapshot
<1>4. detail' \in [Details -> DetailRow]
  <2>1. \A k \in Details : SavedDetail(c, s, k) \in DetailRow
    BY <1>2 DEF SavedDetail, TablesTypeOK, DetailRow, States
  <2> QED
    BY <2>1 DEF SaveContact
<1>5. tag' \in [Tags -> TagRow]
  <2>1. \A t \in Tags : SavedTags(s)[t] \in TagRow
    BY <1>2 DEF SavedTags, TablesTypeOK, TagRow, States
  <2> QED
    BY <2>1 DEF SaveContact, SavedTags
<1> QED
  BY <1>3, <1>4, <1>5 DEF TablesTypeOK

\* The other statements leave well-formed rows.
LEMMA ContactStatementsType ==
    ASSUME TablesTypeOK, NEW c \in Contacts, NEW u \in Users, NEW patch \in Patch,
           InsertContact(c, u, patch) \/ SoftDeleteContact(c)
    PROVE  TablesTypeOK'
<1>1. \A f \in DOMAIN patch : patch[f] \in Values
  BY PartialFunctionElim DEF Patch
<1>2. CASE InsertContact(c, u, patch)
  BY <1>1, <1>2 DEF InsertContact, TablesTypeOK, ContactRow, States
<1>3. CASE SoftDeleteContact(c)
  BY <1>3 DEF SoftDeleteContact, TablesTypeOK, ContactRow, States
<1> QED
  BY <1>2, <1>3

LEMMA DetailStatementsType ==
    ASSUME TablesTypeOK, NEW k \in Details
    PROVE  /\ \A c \in Contacts, v \in Values \cup {None} :
                 InsertDetail(k, c, v) => TablesTypeOK'
           /\ \A v \in Values \cup {None} : WriteDetail(k, v) => TablesTypeOK'
           /\ SoftDeleteDetail(k) => TablesTypeOK'
BY DEF InsertDetail, WriteDetail, SoftDeleteDetail, TablesTypeOK, DetailRow, States

LEMMA TagStatementsType ==
    ASSUME TablesTypeOK, NEW t \in Tags
    PROVE  /\ \A u \in Users, name \in Values \cup {None} :
                 InsertTag(t, u, name) => TablesTypeOK'
           /\ \A name \in Values \cup {None} : RenameTag(t, name) => TablesTypeOK'
           /\ SoftDeleteTag(t) => TablesTypeOK'
BY DEF InsertTag, RenameTag, SoftDeleteTag, TablesTypeOK, TagRow, States

-----------------------------------------------------------------------------
(* The type invariant *)

\* What the type invariant says of one request.
RequestShape(place, j, h) ==
    /\ place \in Places
    /\ j \in Job \cup {None}
    /\ h \in Snapshot \cup {None}
    /\ RequestTypeOK(place, j, h)

\* A step of request p that leaves the cache well-formed, and the tables, has only
\* to leave p well-formed.
LEMMA StepOfRequest ==
    ASSUME TypeOK, TablesTypeOK', cache' \in [Contacts -> Snapshot \cup {None}],
           NEW p \in Requests, NEW place, NEW j, NEW h,
           pc' = [pc EXCEPT ![p] = place],
           job' = [job EXCEPT ![p] = j],
           held' = [held EXCEPT ![p] = h],
           RequestShape(place, j, h)
    PROVE  TypeOK'
<1>1. \A q \in Requests : RequestTypeOK(pc[q], job[q], held[q])'
  <2> SUFFICES ASSUME NEW q \in Requests
               PROVE  RequestTypeOK(pc'[q], job'[q], held'[q])
    OBVIOUS
  <2>1. CASE q = p
    BY <2>1 DEF TypeOK, RequestShape
  <2>2. CASE q # p
    <3>1. pc'[q] = pc[q] /\ job'[q] = job[q] /\ held'[q] = held[q]
      BY <2>2 DEF TypeOK
    <3> QED
      BY <3>1 DEF TypeOK
  <2> QED
    BY <2>1, <2>2
<1>2. /\ pc' \in [Requests -> Places]
      /\ job' \in [Requests -> Job \cup {None}]
      /\ held' \in [Requests -> Snapshot \cup {None}]
  BY DEF TypeOK, RequestShape
<1> QED
  BY <1>1, <1>2 DEF TypeOK

\* The parameters of a request that is under way are a job.
LEMMA JobUnderWay ==
    ASSUME TypeOK, NEW p \in Requests, pc[p] # "idle"
    PROVE  /\ job[p] \in Job
           /\ job[p] # None
           /\ pc[p] \in Way(job[p].op)
           /\ job[p].then \in {"reply", Resume(job[p].op)}
           /\ job[p].op \in ContactOps => job[p].contact \in Contacts
           /\ job[p].op \in DetailOps => job[p].detail \in Details
           /\ job[p].op \in {"updateTag", "removeTag"} => job[p].tag \in Tags
BY DEF TypeOK, RequestTypeOK

\* The awaits of findOne and of update.
LEMMA AtContactAwait ==
    ASSUME TypeOK, NEW p \in Requests,
           pc[p] \in {"lookup", "load", "fill", "tags", "save", "erase", "attach"}
    PROVE  /\ job[p] \in Job
           /\ job[p] # None
           /\ job[p].op \in ContactOps
           /\ job[p].contact \in Contacts
           /\ pc[p] \in {"fill", "tags", "save"} => held[p] \in Snapshot
           /\ pc[p] \in {"tags", "save"} => job[p].op = "update"
           /\ pc[p] = "erase" => job[p].op = "remove"
           /\ pc[p] = "attach" => job[p].op = "addDetail"
<1>1. /\ job[p] \in Job
      /\ job[p] # None
      /\ pc[p] \in Way(job[p].op)
      /\ job[p].op \in ContactOps => job[p].contact \in Contacts
  BY JobUnderWay
<1>2. job[p].op \in AllOps
  BY <1>1 DEF Job
<1>3. /\ job[p].op \in ContactOps
      /\ pc[p] \in {"tags", "save"} => job[p].op = "update"
      /\ pc[p] = "erase" => job[p].op = "remove"
      /\ pc[p] = "attach" => job[p].op = "addDetail"
  BY <1>1, <1>2 DEF Way, Resume, ContactOps, AllOps, DetailOps
<1>4. pc[p] \in {"fill", "tags", "save"} => held[p] \in Snapshot
  BY DEF TypeOK, RequestTypeOK
<1> QED
  BY <1>1, <1>3, <1>4

LEMMA AtDetailAwait ==
    ASSUME TypeOK, NEW p \in Requests, pc[p] \in {"validate", "find", "write", "drop"}
    PROVE  /\ job[p] \in Job
           /\ job[p] # None
           /\ job[p].op \in DetailOps
           /\ job[p].detail \in Details
           /\ pc[p] \in {"find", "write", "drop"} => job[p].op # "addDetail"
           /\ pc[p] = "validate" => job[p].op \in {"addDetail", "updateDetail"}
           /\ pc[p] = "write" => job[p].op = "updateDetail"
<1>1. /\ job[p] \in Job
      /\ job[p] # None
      /\ pc[p] \in Way(job[p].op)
      /\ job[p].op \in DetailOps => job[p].detail \in Details
  BY JobUnderWay
<1>2. job[p].op \in AllOps
  BY <1>1 DEF Job
<1>3. /\ job[p].op \in DetailOps
      /\ pc[p] \in {"find", "write", "drop"} => job[p].op # "addDetail"
      /\ pc[p] = "validate" => job[p].op \in {"addDetail", "updateDetail"}
      /\ pc[p] = "write" => job[p].op = "updateDetail"
  BY <1>1, <1>2 DEF Way, Resume, ContactOps, AllOps, DetailOps
<1> QED
  BY <1>1, <1>3

LEMMA AtTagAwait ==
    ASSUME TypeOK, NEW p \in Requests, pc[p] \in {"findTag", "rename", "dropTag"}
    PROVE  /\ job[p] \in Job
           /\ job[p] # None
           /\ job[p].op \in {"updateTag", "removeTag"}
           /\ job[p].tag \in Tags
           /\ pc[p] = "rename" => job[p].op = "updateTag"
<1>1. /\ job[p] \in Job
      /\ job[p] # None
      /\ pc[p] \in Way(job[p].op)
      /\ job[p].op \in {"updateTag", "removeTag"} => job[p].tag \in Tags
  BY JobUnderWay
<1>2. job[p].op \in AllOps
  BY <1>1 DEF Job
<1>3. /\ job[p].op \in {"updateTag", "removeTag"}
      /\ pc[p] = "rename" => job[p].op = "updateTag"
  BY <1>1, <1>2 DEF Way, Resume, ContactOps, AllOps, DetailOps
<1> QED
  BY <1>1, <1>3

\* A move that keeps the parameters of p.
LEMMA MoveType ==
    ASSUME TypeOK, TablesTypeOK', cache' \in [Contacts -> Snapshot \cup {None}],
           NEW p \in Requests, NEW place \in Places, NEW h \in Snapshot \cup {None},
           pc[p] # "idle", place # "idle",
           Goto(p, place), UNCHANGED job, held' = [held EXCEPT ![p] = h],
           place \in Way(job[p].op),
           place \in {"fill", "tags", "save"} => h # None
    PROVE  TypeOK'
<1>1. RequestShape(place, job[p], h)
  BY JobUnderWay DEF RequestShape, RequestTypeOK
<1>2. job' = [job EXCEPT ![p] = job[p]]
  BY DEF TypeOK
<1> QED
  BY <1>1, <1>2, StepOfRequest DEF Goto

\* ... and what it holds.
LEMMA GotoType ==
    ASSUME TypeOK, TablesTypeOK', cache' \in [Contacts -> Snapshot \cup {None}],
           NEW p \in Requests, NEW place \in Places,
           pc[p] # "idle", place # "idle",
           Goto(p, place), UNCHANGED <<job, held>>,
           place \in Way(job[p].op),
           place \in {"fill", "tags", "save"} => held[p] # None
    PROVE  TypeOK'
<1>1. held[p] \in Snapshot \cup {None} /\ held' = [held EXCEPT ![p] = held[p]]
  BY DEF TypeOK
<1> QED
  BY <1>1, MoveType

LEMMA ThrowType ==
    ASSUME TypeOK, NEW p \in Requests, pc[p] # "idle", Throw(p)
    PROVE  TypeOK'
<1>1. /\ TablesTypeOK'
      /\ cache' \in [Contacts -> Snapshot \cup {None}]
  BY DEF Throw, TypeOK, tables, TablesTypeOK
<1>2. "reply" \in Places /\ "reply" \in Way(job[p].op)
  BY DEF Places, Way
<1> QED
  BY <1>1, <1>2, MoveType DEF Throw

\* The parameters of a new request.
LEMMA NewJobType ==
    ASSUME NEW op \in AllOps, NEW u \in Users
    PROVE  /\ NewJob(op, u) \in Job
           /\ Resume(op) \in Places
<1>1. [f \in {} |-> None] \in Patch
  <2>1. [f \in {} |-> None] \in [{} -> Values]
    OBVIOUS
  <2> QED
    BY <2>1, PartialFunctionIntro DEF Patch
<1>2. [t \in {} |-> None] \in PartialFunctions(Tags, Values \cup {None})
  <2>1. [t \in {} |-> None] \in [{} -> Values \cup {None}]
    OBVIOUS
  <2> QED
    BY <2>1, PartialFunctionIntro
<1>3. Resume(op) \in Places
  BY DEF Resume, Places
<1> QED
  BY <1>1, <1>2, <1>3 DEF NewJob, Job

\* The arrival of a request.
LEMMA ArriveType ==
    ASSUME TypeOK, TablesTypeOK', UNCHANGED <<cache, held>>,
           NEW p \in Requests, NEW j \in Job, NEW place \in Places,
           Arrive(p, j, place),
           place \notin {"idle", "fill", "tags", "save"},
           place \in Way(j.op),
           j.then = Resume(j.op),
           j.op \in ContactOps => j.contact \in Contacts,
           j.op \in DetailOps => j.detail \in Details,
           j.op \in {"updateTag", "removeTag"} => j.tag \in Tags
    PROVE  TypeOK'
<1>1. held[p] \in Snapshot \cup {None} /\ held' = [held EXCEPT ![p] = held[p]]
  BY DEF TypeOK
<1>2. j # None
  BY NoneIsNoJobAssumption
<1>3. RequestShape(place, j, held[p])
  BY <1>1, <1>2 DEF RequestShape, RequestTypeOK
<1>4. cache' \in [Contacts -> Snapshot \cup {None}]
  BY DEF TypeOK
<1> QED
  BY <1>1, <1>3, <1>4, StepOfRequest DEF Arrive, Goto

-----------------------------------------------------------------------------
(* The type invariant, group of actions by group of actions *)

LEMMA InitType == Init => TypeOK
<1> SUFFICES ASSUME Init
             PROVE  TypeOK
  OBVIOUS
<1>1. TablesTypeOK
  BY DEF Init, TablesInit, TablesTypeOK, ContactRow, DetailRow, TagRow, States
<1>2. \A p \in Requests : RequestTypeOK(pc[p], job[p], held[p])
  BY DEF Init, RequestTypeOK
<1> QED
  BY <1>1, <1>2 DEF Init, TypeOK, Places

\* findOne.
LEMMA FindOneStepsType ==
    ASSUME TypeOK, NEW p \in Requests,
           CacheHit(p) \/ CacheMiss(p) \/ Load(p) \/ NotFound(p) \/ Fill(p)
    PROVE  TypeOK'
<1> DEFINE c == job[p].contact
<1>1. pc[p] \in {"lookup", "load", "fill"}
  BY DEF CacheHit, CacheMiss, Load, NotFound, Fill
<1>2. /\ job[p] \in Job
      /\ job[p].op \in ContactOps
      /\ c \in Contacts
      /\ pc[p] = "fill" => held[p] \in Snapshot
  BY <1>1, AtContactAwait
<1>3. /\ job[p].then \in {"reply", Resume(job[p].op)}
      /\ job[p].then \in Places
  BY <1>1, <1>2, JobUnderWay DEF Job
<1>4. /\ job[p].then \in Way(job[p].op)
      /\ job[p].then # "idle"
      /\ {"load", "fill"} \subseteq Way(job[p].op)
  BY <1>2, <1>3 DEF Way, Resume, ContactOps
<1>5. TablesTypeOK'
  BY DEF TypeOK, CacheHit, CacheMiss, Load, NotFound, Fill, Throw, tables, TablesTypeOK
<1>6. None \notin Snapshot
  BY NoneIsNoEntityAssumption
<1>7. CASE CacheHit(p)
  <2>1. cache[c] \in Snapshot /\ cache' \in [Contacts -> Snapshot \cup {None}]
    BY <1>2, <1>7 DEF CacheHit, TypeOK
  <2> QED
    BY <1>1, <1>3, <1>4, <1>5, <1>6, <1>7, <2>1, MoveType DEF CacheHit
<1>8. CASE CacheMiss(p)
  BY <1>1, <1>4, <1>5, <1>8, GotoType DEF CacheMiss, TypeOK, Places
<1>9. CASE Load(p)
  <2>1. LoadContact(c) \in Snapshot
    BY <1>2, LoadContactType DEF TypeOK
  <2> QED
    BY <1>1, <1>4, <1>5, <1>6, <1>9, <2>1, MoveType DEF Load, TypeOK, Places
<1>10. CASE NotFound(p)
  BY <1>1, <1>10, ThrowType DEF NotFound
<1>11. CASE Fill(p)
  <2>1. held[p] \in Snapshot /\ cache' \in [Contacts -> Snapshot \cup {None}]
    BY <1>2, <1>11 DEF Fill, TypeOK
  <2> QED
    BY <1>1, <1>3, <1>4, <1>5, <1>6, <1>11, <2>1, GotoType DEF Fill
<1> QED
  BY <1>7, <1>8, <1>9, <1>10, <1>11

\* update, after its findOne.
LEMMA UpdateStepsType ==
    ASSUME TypeOK, NEW p \in Requests,
           TagsFound(p) \/ TagMissing(p) \/ AvatarRefused(p) \/ Save(p) \/ SaveRefused(p)
    PROVE  TypeOK'
<1> DEFINE c == job[p].contact
<1>1. pc[p] \in {"tags", "save"}
  BY DEF TagsFound, TagMissing, AvatarRefused, Save, SaveRefused
<1>2. /\ job[p] \in Job
      /\ job[p] # None
      /\ job[p].op = "update"
      /\ c \in Contacts
      /\ held[p] \in Snapshot
  BY <1>1, AtContactAwait
<1>3. job[p].then \in {"reply", "tags"}
  BY <1>1, <1>2, JobUnderWay DEF Resume
<1>4. job[p].tags \in PartialFunctions(Tags, Values \cup {None}) /\ job[p].patch \in Patch
  BY <1>2 DEF Job
<1>5. cache' = cache
  BY DEF TagsFound, TagMissing, AvatarRefused, Save, SaveRefused, Throw
<1>6. CASE TagsFound(p)
  <2> DEFINE fetched == [t \in DOMAIN job[p].tags |-> tag[t].name]
             j == [job[p] EXCEPT !.tags = fetched]
  <2>1. fetched \in PartialFunctions(Tags, Values \cup {None})
    <3>1. DOMAIN job[p].tags \in SUBSET Tags
      BY <1>4, PartialFunctionElim
    <3>2. \A t \in DOMAIN job[p].tags : tag[t].name \in Values \cup {None}
      BY <3>1 DEF TypeOK, TablesTypeOK, TagRow
    <3>3. fetched \in [DOMAIN job[p].tags -> Values \cup {None}]
      BY <3>2
    <3> QED
      BY <3>1, <3>3, PartialFunctionIntro
  <2> HIDE DEF fetched
  <2>2. j \in Job /\ j.op = "update" /\ j.then = job[p].then /\ j.contact = c
    BY <1>2, <2>1 DEF Job
  <2>3. j # None
    BY <2>2, NoneIsNoJobAssumption
  <2>4. held[p] \in Snapshot \cup {None} /\ held[p] # None
    BY <1>2, NoneIsNoEntityAssumption
  <2>5. RequestShape("save", j, held[p])
    BY <1>2, <1>3, <2>2, <2>3, <2>4
    DEF RequestShape, RequestTypeOK, Places, Way, Resume, ContactOps, DetailOps
  <2>6. TablesTypeOK' /\ cache' \in [Contacts -> Snapshot \cup {None}]
    BY <1>5, <1>6 DEF TypeOK, TagsFound, tables, TablesTypeOK
  <2>7. /\ pc' = [pc EXCEPT ![p] = "save"]
        /\ job' = [job EXCEPT ![p] = j]
        /\ held' = [held EXCEPT ![p] = held[p]]
    BY <1>6 DEF TagsFound, Goto, TypeOK, fetched
  <2> QED
    BY <2>5, <2>6, <2>7, StepOfRequest
<1>7. CASE TagMissing(p) \/ AvatarRefused(p) \/ SaveRefused(p)
  BY <1>1, <1>7, ThrowType DEF TagMissing, AvatarRefused, SaveRefused
<1>8. CASE Save(p)
  <2> DEFINE j == [job[p] EXCEPT !.then = "reply"]
  <2>1. TablesTypeOK'
    BY <1>2, <1>4, <1>8, MergeType, SaveContactType DEF Save, TypeOK
  <2>2. j \in Job /\ j.op = "update" /\ j.then = "reply" /\ j.contact = c
    BY <1>2 DEF Job, Places
  <2>3. j # None
    BY <2>2, NoneIsNoJobAssumption
  <2>4. RequestShape("lookup", j, None)
    BY <1>2, <2>2, <2>3
    DEF RequestShape, RequestTypeOK, Places, Way, Resume, ContactOps, DetailOps
  <2>5. /\ pc' = [pc EXCEPT ![p] = "lookup"]
        /\ job' = [job EXCEPT ![p] = j]
        /\ held' = [held EXCEPT ![p] = None]
        /\ cache' \in [Contacts -> Snapshot \cup {None}]
    BY <1>5, <1>8 DEF Save, Goto, TypeOK
  <2> QED
    BY <2>1, <2>4, <2>5, StepOfRequest
<1> QED
  BY <1>6, <1>7, <1>8

\* The other steps of ContactsService.
LEMMA OtherContactStepsType ==
    ASSUME TypeOK, NEW p \in Requests, Invalidate(p) \/ Erase(p) \/ Reply(p)
    PROVE  TypeOK'
<1>1. "reply" \in Places /\ "reply" \in Way(job[p].op)
  BY DEF Places, Way
<1>2. CASE Invalidate(p)
  <2>1. TablesTypeOK' /\ cache' \in [Contacts -> Snapshot \cup {None}]
    BY <1>2 DEF TypeOK, Invalidate, tables, TablesTypeOK
  <2> QED
    BY <1>1, <1>2, <2>1, GotoType DEF Invalidate
<1>3. CASE Erase(p)
  <2>1. job[p].contact \in Contacts /\ job[p].user \in Users /\ job[p].patch \in Patch
    BY <1>3, AtContactAwait DEF Erase, Job
  <2>2. TablesTypeOK' /\ cache' \in [Contacts -> Snapshot \cup {None}]
    BY <1>3, <2>1, ContactStatementsType DEF TypeOK, Erase
  <2> QED
    BY <1>1, <1>3, <2>2, GotoType DEF Erase
<1>4. CASE Reply(p)
  <2>1. TablesTypeOK' /\ cache' \in [Contacts -> Snapshot \cup {None}]
    BY <1>4 DEF TypeOK, Reply, tables, TablesTypeOK
  <2>2. RequestShape("idle", None, None)
    BY DEF RequestShape, RequestTypeOK, Places
  <2> QED
    BY <1>4, <2>1, <2>2, StepOfRequest DEF Reply, Goto
<1> QED
  BY <1>2, <1>3, <1>4

\* The arrivals at ContactsService.
LEMMA ContactArrivalType ==
    ASSUME TypeOK, NEW p \in Requests, ContactArrival(p)
    PROVE  TypeOK'
<1>1. PICK u \in Users, c \in Contacts, patch \in Patch, newTags \in SUBSET Tags :
         \/ FindOne(p, u, c) \/ Remove(p, u, c)
         \/ Create(p, u, c, patch) \/ Update(p, u, c, patch, newTags)
  <2>1. \E patch \in Patch : TRUE
    BY NewJobType DEF Job, NewJob, AllOps, ContactArrival
  <2> QED
    BY <2>1 DEF ContactArrival
<1>2. {"findOne", "remove", "create", "update"} \subseteq AllOps
      /\ {"lookup", "invalidate"} \subseteq Places
  BY DEF AllOps, Places
<1>3. CASE FindOne(p, u, c)
  <2> DEFINE j == [NewJob("findOne", u) EXCEPT !.contact = c]
  <2>1. /\ j \in Job /\ j.op = "findOne" /\ j.then = Resume(j.op)
        /\ j.contact \in Contacts
    BY <1>2, NewJobType DEF NewJob, Job
  <2>2. TablesTypeOK' /\ "lookup" \in Way(j.op)
    BY <1>3, <2>1 DEF FindOne, TypeOK, tables, TablesTypeOK, Way, ContactOps
  <2> QED
    BY <1>2, <1>3, <2>1, <2>2, ArriveType DEF FindOne, ContactOps, DetailOps
<1>4. CASE Remove(p, u, c)
  <2> DEFINE j == [NewJob("remove", u) EXCEPT !.contact = c]
  <2>1. /\ j \in Job /\ j.op = "remove" /\ j.then = Resume(j.op)
        /\ j.contact \in Contacts
    BY <1>2, NewJobType DEF NewJob, Job
  <2>2. TablesTypeOK' /\ "lookup" \in Way(j.op)
    BY <1>4, <2>1 DEF Remove, TypeOK, tables, TablesTypeOK, Way, ContactOps
  <2> QED
    BY <1>2, <1>4, <2>1, <2>2, ArriveType DEF Remove, ContactOps, DetailOps
<1>5. CASE Create(p, u, c, patch)
  <2> DEFINE j == NewJob("create", u)
  <2>1. j \in Job /\ j.op = "create" /\ j.then = Resume(j.op)
    BY <1>2, NewJobType DEF NewJob
  <2>2. TablesTypeOK' /\ "invalidate" \in Way(j.op)
    BY <1>5, <2>1, ContactStatementsType DEF Create, TypeOK, Way
  <2> QED
    BY <1>2, <1>5, <2>1, <2>2, ArriveType DEF Create, ContactOps, DetailOps
<1>6. CASE Update(p, u, c, patch, newTags)
  <2> DEFINE ids == [t \in newTags |-> None]
             j == [NewJob("update", u) EXCEPT !.contact = c, !.patch = patch, !.tags = ids]
  <2>1. ids \in PartialFunctions(Tags, Values \cup {None})
    <3>1. ids \in [newTags -> Values \cup {None}]
      OBVIOUS
    <3> QED
      BY <3>1, PartialFunctionIntro
  <2> HIDE DEF ids
  <2>2. /\ j \in Job /\ j.op = "update" /\ j.then = Resume(j.op)
        /\ j.contact \in Contacts
    BY <1>2, <2>1, NewJobType DEF NewJob, Job
  <2>3. TablesTypeOK' /\ "lookup" \in Way(j.op)
    BY <1>6, <2>2 DEF Update, TypeOK, tables, TablesTypeOK, Way, ContactOps
  <2>4. Arrive(p, j, "lookup") /\ UNCHANGED <<cache, held>>
    BY <1>6 DEF Update, ids
  <2> QED
    BY <1>2, <2>2, <2>3, <2>4, ArriveType DEF ContactOps, DetailOps
<1> QED
  BY <1>1, <1>3, <1>4, <1>5, <1>6

\* The steps of the detail services.
LEMMA DetailStepsType ==
    ASSUME TypeOK, NEW p \in Requests, DetailStep(p)
    PROVE  TypeOK'
<1>1. CASE Duplicated(p) \/ PhoneInvalid(p) \/ DetailNotFound(p)
  BY <1>1, ThrowType DEF Duplicated, PhoneInvalid, DetailNotFound
<1>2. CASE Validated(p)
  <2>1. job[p].op \in {"addDetail", "updateDetail"}
    BY <1>2, AtDetailAwait DEF Validated
  <2>2. TablesTypeOK' /\ cache' \in [Contacts -> Snapshot \cup {None}]
    BY <1>2 DEF TypeOK, Validated, tables, TablesTypeOK
  <2>3. /\ {"lookup", "find"} \subseteq Places
        /\ job[p].op = "addDetail" => "lookup" \in Way(job[p].op)
        /\ job[p].op = "updateDetail" => "find" \in Way(job[p].op)
    BY DEF Places, Way, ContactOps, DetailOps
  <2>4. pc[p] = "validate" /\ UNCHANGED <<job, held>>
    BY <1>2 DEF Validated
  <2>5. CASE job[p].op = "addDetail"
    <3>1. Goto(p, "lookup")
      BY <1>2, <2>5 DEF Validated
    <3> QED
      BY <2>2, <2>3, <2>4, <2>5, <3>1, GotoType
  <2>6. CASE job[p].op = "updateDetail"
    <3>1. Goto(p, "find")
      BY <1>2, <2>6 DEF Validated
    <3> QED
      BY <2>2, <2>3, <2>4, <2>6, <3>1, GotoType
  <2> QED
    BY <2>1, <2>5, <2>6
<1>3. CASE Attach(p)
  <2>1. /\ job[p] \in Job
        /\ job[p].op = "addDetail"
        /\ job[p].contact \in Contacts
        /\ job[p].value \in Values \cup {None}
    BY <1>3, AtContactAwait DEF Attach, Job
  <2>2. job[p].detail \in Details
    BY <1>3, <2>1, JobUnderWay DEF Attach, DetailOps
  <2>3. TablesTypeOK' /\ cache' \in [Contacts -> Snapshot \cup {None}]
    BY <1>3, <2>1, <2>2, DetailStatementsType DEF TypeOK, Attach
  <2>4. "reply" \in Places /\ "reply" \in Way(job[p].op)
    BY DEF Places, Way
  <2> QED
    BY <1>3, <2>3, <2>4, MoveType DEF Attach
<1>4. CASE DetailFound(p)
  <2>1. /\ job[p].then \in {"reply", Resume(job[p].op)}
        /\ job[p].op \in DetailOps \ {"addDetail"}
        /\ job[p].then \in Places
    BY <1>4, AtDetailAwait, JobUnderWay DEF DetailFound, Job
  <2>2. /\ job[p].then \in Way(job[p].op)
        /\ job[p].then \notin {"idle", "fill", "tags", "save"}
    BY <2>1 DEF Way, Resume, DetailOps
  <2>3. TablesTypeOK' /\ cache' \in [Contacts -> Snapshot \cup {None}]
    BY <1>4 DEF TypeOK, DetailFound, tables, TablesTypeOK
  <2> QED
    BY <1>4, <2>1, <2>2, <2>3, GotoType DEF DetailFound
<1>5. CASE Write(p)
  <2> DEFINE j == [job[p] EXCEPT !.then = "reply"]
  <2>1. /\ job[p] \in Job
        /\ job[p].op = "updateDetail"
        /\ job[p].detail \in Details
        /\ job[p].value \in Values \cup {None}
        /\ pc[p] # "idle"
    BY <1>5, AtDetailAwait DEF Write, Job
  <2>2. TablesTypeOK' /\ cache' \in [Contacts -> Snapshot \cup {None}]
    BY <1>5, <2>1, DetailStatementsType DEF Write, TypeOK
  <2>3. /\ j \in Job /\ j.op = "updateDetail" /\ j.then = "reply"
        /\ j.detail = job[p].detail /\ j.contact = job[p].contact
    BY <2>1 DEF Job, Places
  <2>4. j # None
    BY <2>3, NoneIsNoJobAssumption
  <2>5. held[p] \in Snapshot \cup {None} /\ held' = [held EXCEPT ![p] = held[p]]
    BY <1>5 DEF TypeOK, Write
  <2>6. RequestShape("find", j, held[p])
    BY <2>1, <2>3, <2>4, <2>5
    DEF RequestShape, RequestTypeOK, Places, Way, Resume, ContactOps, DetailOps
  <2> QED
    BY <1>5, <2>2, <2>5, <2>6, StepOfRequest DEF Write, Goto
<1>6. CASE Drop(p)
  <2>1. job[p].detail \in Details
    BY <1>6, AtDetailAwait DEF Drop
  <2>2. TablesTypeOK' /\ cache' \in [Contacts -> Snapshot \cup {None}]
    BY <1>6, <2>1, DetailStatementsType DEF Drop, TypeOK
  <2>3. "reply" \in Places /\ "reply" \in Way(job[p].op)
    BY DEF Places, Way
  <2> QED
    BY <1>6, <2>2, <2>3, GotoType DEF Drop
<1> QED
  BY <1>1, <1>2, <1>3, <1>4, <1>5, <1>6 DEF DetailStep

\* The arrivals at the detail services.
LEMMA DetailArrivalType ==
    ASSUME TypeOK, NEW p \in Requests, DetailArrival(p)
    PROVE  TypeOK'
<1>1. PICK u \in Users, k \in Details :
         \/ FindDetail(p, u, k) \/ RemoveDetail(p, u, k)
         \/ \E v \in Values : UpdateDetail(p, u, k, v)
         \/ \E v \in Values, c \in Contacts, place \in {"validate", "lookup"} :
               AddDetail(p, u, k, c, v, place)
  BY DEF DetailArrival, PhonesCreate, EmailsCreate, AddressesCreate
<1>2. DetailOps \subseteq AllOps /\ {"lookup", "find", "validate"} \subseteq Places
  BY DEF AllOps, Places, DetailOps
<1>3. UNCHANGED tables => TablesTypeOK'
  BY DEF TypeOK, tables, TablesTypeOK
<1>4. CASE FindDetail(p, u, k)
  <2> DEFINE j == [NewJob("findDetail", u) EXCEPT !.detail = k]
  <2>1. /\ j \in Job /\ j.op = "findDetail" /\ j.then = Resume(j.op)
        /\ j.detail \in Details
    BY <1>2, NewJobType DEF NewJob, Job, DetailOps
  <2>2. TablesTypeOK' /\ "find" \in Way(j.op)
    BY <1>3, <1>4, <2>1 DEF FindDetail, Way, DetailOps
  <2> QED
    BY <1>2, <1>4, <2>1, <2>2, ArriveType DEF FindDetail, ContactOps, DetailOps
<1>5. CASE RemoveDetail(p, u, k)
  <2> DEFINE j == [NewJob("removeDetail", u) EXCEPT !.detail = k]
  <2>1. /\ j \in Job /\ j.op = "removeDetail" /\ j.then = Resume(j.op)
        /\ j.detail \in Details
    BY <1>2, NewJobType DEF NewJob, Job, DetailOps
  <2>2. TablesTypeOK' /\ "find" \in Way(j.op)
    BY <1>3, <1>5, <2>1 DEF RemoveDetail, Way, DetailOps
  <2> QED
    BY <1>2, <1>5, <2>1, <2>2, ArriveType DEF RemoveDetail, ContactOps, DetailOps
<1>6. ASSUME NEW v \in Values, UpdateDetail(p, u, k, v)
      PROVE  TypeOK'
  <2> DEFINE place == IF k \in Addresses THEN "find" ELSE "validate"
  <2> DEFINE j == [NewJob("updateDetail", u) EXCEPT !.detail = k, !.value = v]
  <2>1. /\ j \in Job /\ j.op = "updateDetail" /\ j.then = Resume(j.op)
        /\ j.detail \in Details
    BY <1>2, NewJobType DEF NewJob, Job, DetailOps
  <2>2. TablesTypeOK' /\ place \in Way(j.op) /\ place \in Places
    BY <1>2, <1>3, <1>6, <2>1 DEF UpdateDetail, Way, DetailOps
  <2> QED
    BY <1>2, <1>6, <2>1, <2>2, ArriveType DEF UpdateDetail, ContactOps, DetailOps
<1>7. ASSUME NEW v \in Values, NEW c \in Contacts, NEW place \in {"validate", "lookup"},
             AddDetail(p, u, k, c, v, place)
      PROVE  TypeOK'
  <2> DEFINE j == [NewJob("addDetail", u) EXCEPT !.contact = c, !.detail = k, !.value = v]
  <2>1. /\ j \in Job /\ j.op = "addDetail" /\ j.then = Resume(j.op)
        /\ j.contact \in Contacts /\ j.detail \in Details
    BY <1>2, NewJobType DEF NewJob, Job, DetailOps
  <2>2. TablesTypeOK' /\ place \in Way(j.op)
    BY <1>3, <1>7, <2>1 DEF AddDetail, Way, ContactOps
  <2> QED
    BY <1>2, <1>7, <2>1, <2>2, ArriveType DEF AddDetail, ContactOps, DetailOps
<1> QED
  BY <1>1, <1>4, <1>5, <1>6, <1>7

\* TagsService.
LEMMA TagArrivalType ==
    ASSUME TypeOK, NEW p \in Requests, TagArrival(p)
    PROVE  TypeOK'
<1>1. PICK u \in Users, t \in Tags :
         \/ TagsRemove(p, u, t)
         \/ \E name \in Values : TagsCreate(p, u, t, name) \/ TagsUpdate(p, u, t, name)
  BY DEF TagArrival
<1>2. {"addTag", "updateTag", "removeTag"} \subseteq AllOps
      /\ {"reply", "findTag"} \subseteq Places
  BY DEF AllOps, Places
<1>3. UNCHANGED tables => TablesTypeOK'
  BY DEF TypeOK, tables, TablesTypeOK
<1>4. CASE TagsRemove(p, u, t)
  <2> DEFINE j == [NewJob("removeTag", u) EXCEPT !.tag = t]
  <2>1. /\ j \in Job /\ j.op = "removeTag" /\ j.then = Resume(j.op)
        /\ j.tag \in Tags
    BY <1>2, NewJobType DEF NewJob, Job
  <2>2. TablesTypeOK' /\ "findTag" \in Way(j.op)
    BY <1>3, <1>4, <2>1 DEF TagsRemove, Way
  <2> QED
    BY <1>2, <1>4, <2>1, <2>2, ArriveType DEF TagsRemove, ContactOps, DetailOps
<1>5. ASSUME NEW name \in Values, TagsUpdate(p, u, t, name)
      PROVE  TypeOK'
  <2> DEFINE j == [NewJob("updateTag", u) EXCEPT !.tag = t, !.value = name]
  <2>1. /\ j \in Job /\ j.op = "updateTag" /\ j.then = Resume(j.op)
        /\ j.tag \in Tags
    BY <1>2, NewJobType DEF NewJob, Job
  <2>2. TablesTypeOK' /\ "findTag" \in Way(j.op)
    BY <1>3, <1>5, <2>1 DEF TagsUpdate, Way
  <2> QED
    BY <1>2, <1>5, <2>1, <2>2, ArriveType DEF TagsUpdate, ContactOps, DetailOps
<1>6. ASSUME NEW name \in Values, TagsCreate(p, u, t, name)
      PROVE  TypeOK'
  <2> DEFINE j == NewJob("addTag", u)
  <2>1. j \in Job /\ j.op = "addTag" /\ j.then = Resume(j.op)
    BY <1>2, NewJobType DEF NewJob
  <2>2. TablesTypeOK' /\ "reply" \in Way(j.op)
    BY <1>6, TagStatementsType DEF TagsCreate, TypeOK, Way
  <2> QED
    BY <1>2, <1>6, <2>1, <2>2, ArriveType DEF TagsCreate, ContactOps, DetailOps
<1> QED
  BY <1>1, <1>4, <1>5, <1>6

LEMMA TagStepsType ==
    ASSUME TypeOK, NEW p \in Requests, TagStep(p)
    PROVE  TypeOK'
<1>1. pc[p] \in {"findTag", "rename", "dropTag"}
  BY DEF TagStep, TagFound, TagNotFound, Rename, RenameRefused, DropTag
<1>2. /\ job[p] \in Job
      /\ job[p].op \in {"updateTag", "removeTag"}
      /\ job[p].tag \in Tags
      /\ job[p].value \in Values \cup {None}
      /\ pc[p] = "rename" => job[p].op = "updateTag"
  BY <1>1, AtTagAwait DEF Job
<1>3. CASE TagNotFound(p) \/ RenameRefused(p)
  BY <1>3, ThrowType DEF TagNotFound, RenameRefused
<1>4. CASE TagFound(p)
  <2>1. /\ job[p].then \in {"reply", Resume(job[p].op)}
        /\ job[p].then \in Places
    BY <1>1, <1>2, JobUnderWay DEF Job
  <2>2. /\ job[p].then \in Way(job[p].op)
        /\ job[p].then \notin {"idle", "fill", "tags", "save"}
    BY <1>2, <2>1 DEF Way, Resume
  <2>3. TablesTypeOK' /\ cache' \in [Contacts -> Snapshot \cup {None}]
    BY <1>4 DEF TypeOK, TagFound, tables, TablesTypeOK
  <2> QED
    BY <1>4, <2>1, <2>2, <2>3, GotoType DEF TagFound
<1>5. CASE Rename(p)
  <2> DEFINE j == [job[p] EXCEPT !.then = "reply"]
  <2>1. TablesTypeOK' /\ cache' \in [Contacts -> Snapshot \cup {None}]
    BY <1>2, <1>5, TagStatementsType DEF Rename, TypeOK
  <2>2. /\ j \in Job /\ j.op = "updateTag" /\ j.then = "reply" /\ j.tag = job[p].tag
    BY <1>2, <1>5 DEF Job, Places, Rename
  <2>3. j # None
    BY <2>2, NoneIsNoJobAssumption
  <2>4. held[p] \in Snapshot \cup {None} /\ held' = [held EXCEPT ![p] = held[p]]
    BY <1>5 DEF TypeOK, Rename
  <2>5. RequestShape("findTag", j, held[p])
    BY <1>2, <2>2, <2>3, <2>4
    DEF RequestShape, RequestTypeOK, Places, Way, Resume, ContactOps, DetailOps
  <2> QED
    BY <1>5, <2>1, <2>4, <2>5, StepOfRequest DEF Rename, Goto
<1>6. CASE DropTag(p)
  <2>1. TablesTypeOK' /\ cache' \in [Contacts -> Snapshot \cup {None}]
    BY <1>2, <1>6, TagStatementsType DEF DropTag, TypeOK
  <2>2. "reply" \in Places /\ "reply" \in Way(job[p].op)
    BY DEF Places, Way
  <2> QED
    BY <1>6, <2>1, <2>2, GotoType DEF DropTag
<1> QED
  BY <1>3, <1>4, <1>5, <1>6 DEF TagStep

LEMMA ExpireType ==
    ASSUME TypeOK, NEW c \in Contacts, Expire(c)
    PROVE  TypeOK'
BY DEF Expire, TypeOK, tables, TablesTypeOK

\* No step breaks the type invariant.
LEMMA NextType == TypeOK /\ [Next]_vars => TypeOK'
<1> SUFFICES ASSUME TypeOK, [Next]_vars
             PROVE  TypeOK'
  OBVIOUS
<1>1. ASSUME NEW p \in Requests, Arrival(p)
      PROVE  TypeOK'
  BY <1>1, ContactArrivalType, DetailArrivalType, TagArrivalType DEF Arrival
<1>2. ASSUME NEW p \in Requests, Step(p)
      PROVE  TypeOK'
  BY <1>2, FindOneStepsType, UpdateStepsType, OtherContactStepsType, DetailStepsType,
     TagStepsType, ThrowType DEF Step, ContactStep, Fails
<1>3. ASSUME NEW c \in Contacts, Expire(c)
      PROVE  TypeOK'
  BY <1>3, ExpireType
<1>4. CASE UNCHANGED vars
  BY <1>4 DEF vars, TypeOK, TablesTypeOK
<1> QED
  BY <1>1, <1>2, <1>3, <1>4 DEF Next

\* In every reachable state the rows, the cache entries and the requests have
\* their shapes, and a request at an await has what the code after it reads.
THEOREM TypeCorrect == Spec => []TypeOK
BY InitType, NextType, PTL DEF Spec

-----------------------------------------------------------------------------
(* The steps of one request *)

\* Another request's step, or a timer's, leaves request p where it is.
LEMMA OwnSteps ==
    ASSUME TypeOK, [Next]_vars, NEW p \in Requests
    PROVE  \/ pc'[p] = pc[p] /\ job'[p] = job[p] /\ held'[p] = held[p]
           \/ /\ Arrival(p)
              /\ pc[p] = "idle"
              /\ pc'[p] \in {"lookup", "invalidate", "validate", "find", "findTag", "reply"}
           \/ Step(p)
<1> DEFINE Kept == pc'[p] = pc[p] /\ job'[p] = job[p] /\ held'[p] = held[p]
           First == {"lookup", "invalidate", "validate", "find", "findTag", "reply"}
<1>0. /\ pc \in [Requests -> Places]
      /\ job \in [Requests -> Job \cup {None}]
      /\ held \in [Requests -> Snapshot \cup {None}]
  BY DEF TypeOK
<1>1. ASSUME NEW q \in Requests, Arrival(q)
      PROVE  Kept \/ (Arrival(p) /\ pc[p] = "idle" /\ pc'[p] \in First)
  <2> DEFINE Arrives == /\ held' = held
                        /\ q # p => pc'[p] = pc[p] /\ job'[p] = job[p]
                        /\ q = p => pc[p] = "idle" /\ pc'[p] \in First
  <2>1. \A j : \A place \in First : Arrive(q, j, place) /\ held' = held => Arrives
    BY <1>0 DEF Arrive, Goto
  <2> HIDE DEF Arrives
  <2>2. {"lookup", "invalidate", "validate", "find", "findTag", "reply"} = First
    OBVIOUS
  <2> HIDE DEF First
  <2>3. ContactArrival(q) => Arrives
    <3>1. \A u, c : FindOne(q, u, c) \/ Remove(q, u, c) => Arrives
      BY <2>1, <2>2 DEF FindOne, Remove
    <3>2. \A u, c, patch : Create(q, u, c, patch) => Arrives
      BY <2>1, <2>2 DEF Create
    <3>3. \A u, c, patch, newTags : Update(q, u, c, patch, newTags) => Arrives
      BY <2>1, <2>2 DEF Update
    <3> QED
      BY <3>1, <3>2, <3>3 DEF ContactArrival
  <2>4. DetailArrival(q) => Arrives
    <3>1. \A u, k : FindDetail(q, u, k) \/ RemoveDetail(q, u, k) => Arrives
      BY <2>1, <2>2 DEF FindDetail, RemoveDetail
    <3>2. \A u, k, v : UpdateDetail(q, u, k, v) => Arrives
      BY <2>1, <2>2 DEF UpdateDetail
    <3>3. \A u, k, c, v : \A place \in First : AddDetail(q, u, k, c, v, place) => Arrives
      BY <2>1 DEF AddDetail
    <3> QED
      BY <2>2, <3>1, <3>2, <3>3 DEF DetailArrival, PhonesCreate, EmailsCreate, AddressesCreate
  <2>5. TagArrival(q) => Arrives
    BY <2>1, <2>2 DEF TagArrival, TagsRemove, TagsCreate, TagsUpdate
  <2>6. Arrives
    BY <1>1, <2>3, <2>4, <2>5 DEF Arrival
  <2>7. CASE q = p
    BY <1>1, <2>6, <2>7 DEF Arrives
  <2>8. CASE q # p
    BY <2>6, <2>8 DEF Arrives
  <2> QED
    BY <2>7, <2>8
<1>2. ASSUME NEW q \in Requests, Step(q), q # p
      PROVE  Kept
  <2>1. ASSUME NEW place, Goto(q, place)
        PROVE  pc'[p] = pc[p]
    BY <1>0, <1>2, <2>1 DEF Goto
  <2>2. Throw(q) => Kept
    BY <1>0, <1>2, <2>1 DEF Throw
  <2>3. ContactStep(q) => Kept
    BY <1>0, <1>2, <2>1, <2>2
    DEF ContactStep, CacheHit, CacheMiss, Load, NotFound, Fill, Invalidate, TagsFound,
        TagMissing, AvatarRefused, Save, SaveRefused, Erase, Reply
  <2>4. DetailStep(q) => Kept
    BY <1>0, <1>2, <2>1, <2>2
    DEF DetailStep, Validated, Duplicated, PhoneInvalid, Attach, DetailFound,
        DetailNotFound, Write, Drop
  <2>5. TagStep(q) => Kept
    BY <1>0, <1>2, <2>1, <2>2
    DEF TagStep, TagFound, TagNotFound, Rename, RenameRefused, DropTag
  <2> QED
    BY <1>2, <2>2, <2>3, <2>4, <2>5 DEF Step, Fails
<1>3. ASSUME NEW c \in Contacts, Expire(c)
      PROVE  Kept
  BY <1>3 DEF Expire
<1>4. UNCHANGED vars => Kept
  BY DEF vars
<1> QED
  BY <1>1, <1>2, <1>3, <1>4 DEF Next

LEMMA StepsAreUnderWay ==
    ASSUME NEW p \in Requests, Step(p)
    PROVE  pc[p] # "idle"
BY DEF Step, ContactStep, DetailStep, TagStep,
       CacheHit, CacheMiss, Load, NotFound, Fill, Invalidate, TagsFound, TagMissing,
       AvatarRefused, Save, SaveRefused, Erase, Reply, Validated, Duplicated,
       PhoneInvalid, Attach, DetailFound, DetailNotFound, Write, Drop,
       TagFound, TagNotFound, Rename, RenameRefused, DropTag, Fails

-----------------------------------------------------------------------------
(***************************************************************************)
(* Copies.  A step makes no copy of a contact but by loading it, and       *)
(* brings a row back only out of a copy; with these two facts the          *)
(* properties about details and deleted contacts need no case per action.  *)
(***************************************************************************)

\* After a step every copy of contact c is one from before or the live row itself.
CopiesComeFromLoads ==
    \A c \in Contacts : \A s \in CopiesOf(c)' :
        \/ s \in CopiesOf(c)
        \/ contact[c].state = "live" /\ s = LoadContact(c) /\ UNCHANGED tables

\* What a step of request p may do to copies.
LEMMA CopiesAfterRequest ==
    ASSUME NEW p \in Requests,
           \A q \in Requests \ {p} : job'[q] = job[q] /\ held'[q] = held[q],
           \A c \in Contacts :
              \/ cache'[c] \in {cache[c], None}
              \/ job[p] # None /\ job[p].contact = c /\ cache'[c] = held[p],
           held'[p] # None =>
              /\ job[p] # None
              /\ job'[p].contact = job[p].contact
              /\ \/ held'[p] = held[p]
                 \/ held'[p] = cache[job[p].contact]
                 \/ /\ contact[job[p].contact].state = "live"
                    /\ held'[p] = LoadContact(job[p].contact)
                    /\ UNCHANGED tables
    PROVE  CopiesComeFromLoads
<1> SUFFICES ASSUME NEW c \in Contacts, NEW s \in CopiesOf(c)'
             PROVE  \/ s \in CopiesOf(c)
                    \/ contact[c].state = "live" /\ s = LoadContact(c) /\ UNCHANGED tables
  BY DEF CopiesComeFromLoads
<1>1. s # None
  BY DEF CopiesOf
<1>2. CASE s = cache'[c]
  <2>1. CASE s = cache[c]
    BY <1>1, <2>1 DEF CopiesOf
  <2>2. CASE job[p] # None /\ job[p].contact = c /\ s = held[p]
    BY <1>1, <2>2 DEF CopiesOf
  <2> QED
    BY <1>1, <1>2, <2>1, <2>2
<1>3. ASSUME NEW q \in Requests, job'[q] # None, job'[q].contact = c, s = held'[q]
      PROVE  \/ s \in CopiesOf(c)
             \/ contact[c].state = "live" /\ s = LoadContact(c) /\ UNCHANGED tables
  <2>1. CASE q # p
    <3>1. job[q] # None /\ job[q].contact = c /\ s = held[q]
      BY <1>3, <2>1
    <3> QED
      BY <1>1, <3>1 DEF CopiesOf
  <2>2. CASE q = p
    <3>1. job[p] # None /\ job[p].contact = c
      BY <1>1, <1>3, <2>2
    <3>2. CASE s = held[p]
      BY <1>1, <3>1, <3>2 DEF CopiesOf
    <3>3. CASE s = cache[c]
      BY <1>1, <3>3 DEF CopiesOf
    <3> QED
      BY <1>1, <1>3, <2>2, <3>1, <3>2, <3>3
  <2> QED
    BY <2>1, <2>2
<1> QED
  BY <1>2, <1>3 DEF CopiesOf

LEMMA CopiesAfterArrival ==
    ASSUME TypeOK, NEW p \in Requests, Arrival(p)
    PROVE  CopiesComeFromLoads
<1> DEFINE Fresh == /\ pc[p] = "idle"
                    /\ \A q \in Requests \ {p} : job'[q] = job[q]
                    /\ UNCHANGED <<cache, held>>
<1>1. \A j, place : Arrive(p, j, place) /\ UNCHANGED <<cache, held>> => Fresh
  BY DEF Arrive, TypeOK
<1> HIDE DEF Fresh
<1>2. ContactArrival(p) => Fresh
  <2>1. \A u, c : FindOne(p, u, c) \/ Remove(p, u, c) => Fresh
    BY <1>1 DEF FindOne, Remove
  <2>2. \A u, c, patch : Create(p, u, c, patch) => Fresh
    BY <1>1 DEF Create
  <2>3. \A u, c, patch, newTags : Update(p, u, c, patch, newTags) => Fresh
    BY <1>1 DEF Update
  <2> QED
    BY <2>1, <2>2, <2>3 DEF ContactArrival
<1>3. DetailArrival(p) => Fresh
  <2>1. \A u, k : FindDetail(p, u, k) \/ RemoveDetail(p, u, k) => Fresh
    BY <1>1 DEF FindDetail, RemoveDetail
  <2>2. \A u, k, v : UpdateDetail(p, u, k, v) => Fresh
    BY <1>1 DEF UpdateDetail
  <2>3. \A u, k, c, v, place : AddDetail(p, u, k, c, v, place) => Fresh
    BY <1>1 DEF AddDetail
  <2> QED
    BY <2>1, <2>2, <2>3 DEF DetailArrival, PhonesCreate, EmailsCreate, AddressesCreate
<1>4. TagArrival(p) => Fresh
  BY <1>1 DEF TagArrival, TagsRemove, TagsCreate, TagsUpdate
<1>5. Fresh
  BY <1>2, <1>3, <1>4 DEF Arrival
<1>6. held'[p] = None
  BY <1>5 DEF Fresh, TypeOK, RequestTypeOK
<1> QED
  BY <1>5, <1>6, CopiesAfterRequest DEF Fresh

LEMMA CopiesAfterStep ==
    ASSUME TypeOK, NEW p \in Requests, Step(p)
    PROVE  CopiesComeFromLoads
<1>0. pc[p] # "idle"
  BY StepsAreUnderWay
<1>1. job[p] # None /\ job[p] \in Job
  BY <1>0, JobUnderWay
<1>2. job \in [Requests -> Job \cup {None}] /\ held \in [Requests -> Snapshot \cup {None}]
      /\ cache \in [Contacts -> Snapshot \cup {None}]
  BY DEF TypeOK
<1>3. CASE CacheHit(p) \/ Load(p) \/ CacheMiss(p)
  <2>1. CASE CacheHit(p) \/ CacheMiss(p)
    BY <1>1, <1>2, <2>1, CopiesAfterRequest DEF CacheHit, CacheMiss
  <2>2. CASE Load(p)
    BY <1>1, <1>2, <2>2, CopiesAfterRequest DEF Load, ContactVisible
  <2> QED
    BY <1>3, <2>1, <2>2
<1>4. CASE Fill(p)
  <2>1. \A c \in Contacts : cache'[c] = cache[c] \/ (job[p].contact = c /\ cache'[c] = held[p])
    BY <1>2, <1>4 DEF Fill
  <2> QED
    BY <1>1, <1>4, <2>1, CopiesAfterRequest DEF Fill
<1>5. CASE Invalidate(p)
  BY <1>1, <1>2, <1>5, CopiesAfterRequest DEF Invalidate
<1>6. CASE \/ NotFound(p) \/ TagMissing(p) \/ AvatarRefused(p) \/ SaveRefused(p)
           \/ Duplicated(p) \/ PhoneInvalid(p) \/ DetailNotFound(p)
           \/ TagNotFound(p) \/ RenameRefused(p) \/ Fails(p)
  <2>1. Throw(p)
    BY <1>6 DEF NotFound, TagMissing, AvatarRefused, SaveRefused, Duplicated,
                PhoneInvalid, DetailNotFound, TagNotFound, RenameRefused, Fails
  <2> QED
    BY <1>2, <2>1, CopiesAfterRequest DEF Throw
<1>7. CASE TagsFound(p)
  <2>1. job'[p].contact = job[p].contact
    BY <1>1, <1>2, <1>7 DEF TagsFound, Job
  <2> QED
    BY <1>1, <1>2, <1>7, <2>1, CopiesAfterRequest DEF TagsFound
<1>8. CASE Save(p)
  BY <1>2, <1>8, CopiesAfterRequest DEF Save
<1>9. CASE Write(p) \/ Rename(p)
  <2>1. /\ \A q \in Requests \ {p} : job'[q] = job[q]
        /\ job'[p].contact = job[p].contact
        /\ UNCHANGED <<cache, held>>
    BY <1>1, <1>2, <1>9 DEF Write, Rename, Job
  <2> QED
    BY <1>1, <2>1, CopiesAfterRequest
<1>10. CASE Reply(p) \/ Attach(p)
  BY <1>2, <1>10, CopiesAfterRequest DEF Reply, Attach
<1>11. CASE Erase(p) \/ Validated(p) \/ DetailFound(p) \/ Drop(p) \/ TagFound(p) \/ DropTag(p)
  <2>1. UNCHANGED <<cache, job, held>>
    BY <1>11 DEF Erase, Validated, DetailFound, Drop, TagFound, DropTag
  <2> QED
    BY <1>1, <2>1, CopiesAfterRequest
<1> QED
  BY <1>3, <1>4, <1>5, <1>6, <1>7, <1>8, <1>9, <1>10, <1>11
  DEF Step, ContactStep, DetailStep, TagStep

LEMMA CopiesAfterNext == TypeOK /\ [Next]_vars => CopiesComeFromLoads
<1> SUFFICES ASSUME TypeOK, [Next]_vars
             PROVE  CopiesComeFromLoads
  OBVIOUS
<1>1. ASSUME NEW p \in Requests, Arrival(p) \/ Step(p)
      PROVE  CopiesComeFromLoads
  BY <1>1, CopiesAfterArrival, CopiesAfterStep
<1>2. ASSUME NEW c \in Contacts, Expire(c)
      PROVE  CopiesComeFromLoads
  <2>1. \A d \in Contacts : cache'[d] \in {cache[d], None}
    BY <1>2 DEF Expire, TypeOK
  <2>2. job' = job /\ held' = held
    BY <1>2 DEF Expire
  <2>3. \A d \in Contacts : CopiesOf(d)' \subseteq CopiesOf(d)
    BY <2>1, <2>2 DEF CopiesOf
  <2> QED
    BY <2>3 DEF CopiesComeFromLoads
<1>3. CASE UNCHANGED vars
  BY <1>3 DEF CopiesComeFromLoads, CopiesOf, vars
<1> QED
  BY <1>1, <1>2, <1>3 DEF Next

\* A step either leaves the state and the contact of a detail alone, or inserts
\* the row, or deletes it, or writes it back from a copy of the contact it then
\* hangs on, or cuts it off its contact.
DetailMoves(k) ==
    \/ detail'[k].state = detail[k].state /\ detail'[k].contact = detail[k].contact
    \/ detail[k].state = "absent" /\ detail'[k].state = "live"
    \/ detail'[k].state = "deleted" /\ detail'[k].contact = detail[k].contact
    \/ /\ detail'[k].state = "live"
       /\ \E c \in Contacts : \E s \in CopiesOf(c) :
             k \in DOMAIN s.details /\ detail'[k].contact = c
    \/ detail'[k].state = detail[k].state /\ detail'[k].contact = None

\* A step leaves the state of a contact alone, or inserts the row, or deletes it,
\* or saves a copy of it.
ContactMoves(c) ==
    \/ contact'[c].state = contact[c].state
    \/ contact[c].state = "absent"
    \/ contact'[c].state = "deleted"
    \/ CopiesOf(c) # {}

\* The copy a save is made from.
LEMMA SavedCopy ==
    ASSUME TypeOK, NEW p \in Requests, Save(p)
    PROVE  /\ job[p].contact \in Contacts
           /\ held[p] \in CopiesOf(job[p].contact)
           /\ SaveContact(job[p].contact, Merge(held[p], job[p].patch, job[p].tags))
           /\ Merge(held[p], job[p].patch, job[p].tags).details = held[p].details
<1>1. /\ job[p] # None
      /\ job[p].contact \in Contacts
      /\ held[p] \in Snapshot
  BY AtContactAwait DEF Save
<1>2. held[p] # None
  BY <1>1, NoneIsNoEntityAssumption
<1>3. held[p] \in CopiesOf(job[p].contact)
  BY <1>1, <1>2 DEF CopiesOf
<1> QED
  BY <1>1, <1>3 DEF Save, Merge

LEMMA MovesAfterSave ==
    ASSUME TypeOK, NEW p \in Requests, Save(p)
    PROVE  /\ \A k \in Details : DetailMoves(k)
           /\ \A c \in Contacts : ContactMoves(c)
<1> DEFINE c == job[p].contact
           s == Merge(held[p], job[p].patch, job[p].tags)
<1>1. /\ c \in Contacts
      /\ held[p] \in CopiesOf(c)
      /\ SaveContact(c, s)
      /\ s.details = held[p].details
  BY SavedCopy
<1> HIDE DEF s, c
<1>2. ASSUME NEW k \in Details
      PROVE  DetailMoves(k)
  <2>1. detail'[k] = SavedDetail(c, s, k)
    BY <1>1 DEF SaveContact
  <2>2. detail[k] \in DetailRow
    BY DEF TypeOK, TablesTypeOK
  <2>3. CASE k \in DOMAIN s.details
    BY <1>1, <2>1, <2>3 DEF SavedDetail, DetailMoves
  <2>4. CASE k \notin DOMAIN s.details
    BY <2>1, <2>2, <2>4 DEF SavedDetail, DetailMoves, DetailRow
  <2> QED
    BY <2>3, <2>4
<1>3. ASSUME NEW d \in Contacts
      PROVE  ContactMoves(d)
  <2>1. CASE d = c
    BY <1>1, <2>1 DEF ContactMoves
  <2>2. CASE d # c
    BY <1>1, <2>2 DEF SaveContact, ContactMoves, TypeOK, TablesTypeOK
  <2> QED
    BY <2>1, <2>2
<1> QED
  BY <1>2, <1>3

\* The steps that touch the rows of contacts and details.
LEMMA StepsOnRows ==
    ASSUME [Next]_vars
    PROVE  \/ UNCHANGED <<contact, detail>>
           \/ \E p \in Requests, u \in Users, c \in Contacts, patch \in Patch :
                 Create(p, u, c, patch)
           \/ \E p \in Requests : Save(p) \/ Erase(p) \/ Attach(p) \/ Write(p) \/ Drop(p)
<1>1. ASSUME NEW p \in Requests, ContactArrival(p)
      PROVE  \/ UNCHANGED <<contact, detail>>
             \/ \E u \in Users, c \in Contacts, patch \in Patch : Create(p, u, c, patch)
  BY <1>1 DEF ContactArrival, FindOne, Remove, Update, tables
<1>2. ASSUME NEW p \in Requests, DetailArrival(p) \/ TagArrival(p)
      PROVE  UNCHANGED <<contact, detail>>
  <2>1. CASE DetailArrival(p)
    <3>1. ASSUME NEW u \in Users, NEW k \in Details, FindDetail(p, u, k) \/ RemoveDetail(p, u, k)
          PROVE  UNCHANGED <<contact, detail>>
      BY <3>1 DEF FindDetail, RemoveDetail, tables
    <3>2. ASSUME NEW u \in Users, NEW k \in Details, NEW v \in Values,
                 UpdateDetail(p, u, k, v)
          PROVE  UNCHANGED <<contact, detail>>
      BY <3>2 DEF UpdateDetail, tables
    <3>3. ASSUME NEW u \in Users, NEW k \in Details, NEW c \in Contacts, NEW v \in Values,
                 \/ PhonesCreate(p, u, k, c, v)
                 \/ EmailsCreate(p, u, k, c, v)
                 \/ AddressesCreate(p, u, k, c, v)
          PROVE  UNCHANGED <<contact, detail>>
      BY <3>3 DEF PhonesCreate, EmailsCreate, AddressesCreate, AddDetail, tables
    <3> QED
      BY <2>1, <3>1, <3>2, <3>3 DEF DetailArrival
  <2>2. CASE TagArrival(p)
    BY <2>2 DEF TagArrival, TagsRemove, TagsCreate, TagsUpdate, InsertTag, tables
  <2> QED
    BY <1>2, <2>1, <2>2
<1>3. ASSUME NEW p \in Requests, Step(p)
      PROVE  UNCHANGED <<contact, detail>> \/ Save(p) \/ Erase(p) \/ Attach(p) \/ Write(p) \/ Drop(p)
  BY <1>3 DEF Step, ContactStep, DetailStep, TagStep,
         CacheHit, CacheMiss, Load, NotFound, Fill, Invalidate, TagsFound, TagMissing,
         AvatarRefused, SaveRefused, Reply, Validated, Duplicated, PhoneInvalid,
         DetailFound, DetailNotFound, TagFound, TagNotFound, Rename, RenameRefused,
         DropTag, Fails, Throw, RenameTag, SoftDeleteTag, tables
<1>4. ASSUME NEW c \in Contacts, Expire(c)
      PROVE  UNCHANGED <<contact, detail>>
  BY <1>4 DEF Expire, tables
<1>5. UNCHANGED vars => UNCHANGED <<contact, detail>>
  BY DEF vars
<1> QED
  BY <1>1, <1>2, <1>3, <1>4, <1>5 DEF Next, Arrival

LEMMA MovesAfterNext ==
    ASSUME TypeOK, [Next]_vars
    PROVE  /\ \A k \in Details : DetailMoves(k)
           /\ \A c \in Contacts : ContactMoves(c)
<1>1. CASE UNCHANGED <<contact, detail>>
  BY <1>1 DEF DetailMoves, ContactMoves
<1>2. ASSUME NEW p \in Requests, NEW u \in Users, NEW c \in Contacts, NEW patch \in Patch,
             Create(p, u, c, patch)
      PROVE  /\ \A k \in Details : DetailMoves(k)
             /\ \A d \in Contacts : ContactMoves(d)
  BY <1>2 DEF Create, InsertContact, DetailMoves, ContactMoves, TypeOK, TablesTypeOK
<1>3. ASSUME NEW p \in Requests, Erase(p)
      PROVE  /\ \A k \in Details : DetailMoves(k)
             /\ \A d \in Contacts : ContactMoves(d)
  <2>1. job[p].contact \in Contacts
    BY <1>3, AtContactAwait DEF Erase
  <2> QED
    BY <1>3, <2>1
    DEF Erase, SoftDeleteContact, DetailMoves, ContactMoves, TypeOK, TablesTypeOK, ContactRow
<1>4. ASSUME NEW p \in Requests, Attach(p) \/ Write(p) \/ Drop(p)
      PROVE  /\ \A k \in Details : DetailMoves(k)
             /\ \A d \in Contacts : ContactMoves(d)
  <2>1. \A k \in Details : detail[k] \in DetailRow
    BY DEF TypeOK, TablesTypeOK
  <2>2. \A d \in Contacts : ContactMoves(d)
    BY <1>4 DEF Attach, Write, Drop, InsertDetail, WriteDetail, SoftDeleteDetail, ContactMoves
  <2>3. CASE Attach(p)
    BY <2>1, <2>2, <2>3 DEF Attach, InsertDetail, DetailMoves, TypeOK, TablesTypeOK, DetailRow
  <2>4. CASE Write(p)
    BY <2>1, <2>2, <2>4 DEF Write, WriteDetail, DetailMoves, TypeOK, TablesTypeOK, DetailRow
  <2>5. CASE Drop(p)
    BY <2>1, <2>2, <2>5 DEF Drop, SoftDeleteDetail, DetailMoves, TypeOK, TablesTypeOK, DetailRow
  <2> QED
    BY <1>4, <2>3, <2>4, <2>5
<1> QED
  BY <1>1, <1>2, <1>3, <1>4, StepsOnRows, MovesAfterSave

\* The row of contact c is inserted, for a user, ...
RowInserted(c) ==
    contact[c].state = "absent" /\ contact'[c].state = "live" /\ contact'[c].owner \in Users

\* ... or is saved or soft-deleted by a request on it, which leaves its owner alone.
RowRewritten(c) ==
    /\ contact'[c].owner = contact[c].owner
    /\ contact'[c].state # "absent"
    /\ \E p \in Requests :
          /\ job[p].contact = c
          /\ \/ Save(p)
             \/ Erase(p) /\ contact'[c].state = "deleted"

\* A step changes one row of the contact table at most.
LEMMA OneRowMoves ==
    ASSUME TypeOK, [Next]_vars
    PROVE  \/ UNCHANGED contact
           \/ \E c \in Contacts : /\ \A d \in Contacts \ {c} : contact'[d] = contact[d]
                                  /\ RowInserted(c) \/ RowRewritten(c)
<1> DEFINE Moved(c) == /\ \A d \in Contacts \ {c} : contact'[d] = contact[d]
                       /\ RowInserted(c) \/ RowRewritten(c)
<1>0. contact \in [Contacts -> ContactRow]
  BY DEF TypeOK, TablesTypeOK
<1>1. ASSUME NEW p \in Requests, NEW u \in Users, NEW c \in Contacts, NEW patch \in Patch,
             Create(p, u, c, patch)
      PROVE  Moved(c)
  BY <1>0, <1>1 DEF Create, InsertContact, RowInserted
<1>2. ASSUME NEW p \in Requests, Save(p)
      PROVE  job[p].contact \in Contacts /\ Moved(job[p].contact)
  <2>1. /\ job[p].contact \in Contacts
        /\ SaveContact(job[p].contact, Merge(held[p], job[p].patch, job[p].tags))
    BY <1>2, SavedCopy
  <2> QED
    BY <1>0, <1>2, <2>1 DEF SaveContact, RowRewritten
<1>3. ASSUME NEW p \in Requests, Erase(p)
      PROVE  job[p].contact \in Contacts /\ Moved(job[p].contact)
  <2>1. job[p].contact \in Contacts
    BY <1>3, AtContactAwait DEF Erase
  <2> QED
    BY <1>0, <1>3, <2>1 DEF Erase, SoftDeleteContact, RowRewritten, ContactRow
<1>4. ASSUME NEW p \in Requests, Attach(p) \/ Write(p) \/ Drop(p)
      PROVE  UNCHANGED contact
  BY <1>4 DEF Attach, Write, Drop, InsertDetail, WriteDetail, SoftDeleteDetail
<1> HIDE DEF Moved
<1>5. UNCHANGED contact \/ \E c \in Contacts : Moved(c)
  BY <1>1, <1>2, <1>3, <1>4, StepsOnRows
<1> QED
  BY <1>5 DEF Moved

-----------------------------------------------------------------------------
(* Details stay with their contact *)

LEMMA DetailsStayHomeStep ==
    TypeOK /\ DetailsStayHome /\ [Next]_vars => DetailsStayHome'
<1> SUFFICES ASSUME TypeOK, DetailsStayHome, [Next]_vars,
                    NEW c \in Contacts, NEW s \in CopiesOf(c)', NEW k \in DOMAIN s.details
             PROVE  /\ detail'[k].state # "absent"
                    /\ detail'[k].contact \in {c, None}
                    /\ \A d \in Contacts \ {c} : \A t \in CopiesOf(d)' : k \notin DOMAIN t.details
  BY DEF DetailsStayHome
<1>1. \A d \in Contacts : None # d
  BY NoneAssumption
<1>2. \A d \in Contacts : \A t \in CopiesOf(d)' :
         \/ t \in CopiesOf(d)
         \/ t = LoadContact(d) /\ UNCHANGED detail
  BY CopiesAfterNext DEF CopiesComeFromLoads, tables
<1>3. \A d \in Contacts : \A n \in DOMAIN LoadContact(d).details :
         n \in Details /\ detail[n].state = "live" /\ detail[n].contact = d
  BY DEF LoadContact, DetailsOf
<1>4. CASE s \in CopiesOf(c)
  <2>1. /\ detail[k].state # "absent"
        /\ detail[k].contact \in {c, None}
        /\ \A d \in Contacts \ {c} : \A t \in CopiesOf(d) : k \notin DOMAIN t.details
    BY <1>4 DEF DetailsStayHome
  <2>2. \A d \in Contacts \ {c} : \A t \in CopiesOf(d)' : k \notin DOMAIN t.details
    BY <1>1, <1>2, <1>3, <2>1
  <2>3. k \in Details
    <3>1. s \in Snapshot
      BY <1>4 DEF CopiesOf, TypeOK
    <3> QED
      BY <3>1, PartialFunctionElim DEF Snapshot
  <2>4. DetailMoves(k)
    BY <2>3, MovesAfterNext
  <2> QED
    BY <1>4, <2>1, <2>2, <2>4 DEF DetailMoves
<1>5. CASE s = LoadContact(c) /\ UNCHANGED detail
  <2>1. detail[k].state = "live" /\ detail[k].contact = c
    BY <1>3, <1>5
  <2>2. \A d \in Contacts \ {c} : \A t \in CopiesOf(d) : k \notin DOMAIN t.details
    BY <1>1, <2>1 DEF DetailsStayHome
  <2>3. \A d \in Contacts \ {c} : k \notin DOMAIN LoadContact(d).details
    BY <1>3, <2>1
  <2> QED
    BY <1>2, <1>5, <2>1, <2>2, <2>3
<1> QED
  BY <1>2, <1>4, <1>5

\* In every reachable state the copies of different contacts list different
\* details, and a detail some copy lists hangs on that contact or on none.
THEOREM DetailsAtHome == Spec => []DetailsStayHome
<1>1. Init => DetailsStayHome
  BY DEF Init, DetailsStayHome, CopiesOf
<1>2. TypeOK /\ DetailsStayHome /\ [Next]_vars => DetailsStayHome'
  BY DetailsStayHomeStep
<1> QED
  BY <1>1, <1>2, TypeCorrect, PTL DEF Spec

-----------------------------------------------------------------------------
(* What no copy lists cannot come back *)

LEMMA GoneStays ==
    ASSUME TypeOK, [Next]_vars, NEW c \in Contacts, Gone(c)
    PROVE  Gone(c)'
<1>1. CopiesOf(c)' = {}
  BY CopiesAfterNext DEF CopiesComeFromLoads, Gone
<1>2. contact'[c].state = "deleted"
  BY MovesAfterNext DEF ContactMoves, Gone
<1> QED
  BY <1>1, <1>2 DEF Gone

\* A deleted contact of which no copy is left stays deleted, without copies.
THEOREM DeletedForGood == Spec => GoneForGood
<1>1. TypeOK /\ [Next]_vars => [\A c \in Contacts : Gone(c) => Gone(c)']_vars
  BY GoneStays
<1> QED
  BY <1>1, TypeCorrect, PTL DEF Spec, GoneForGood

LEMMA LostStays ==
    ASSUME TypeOK, [Next]_vars, NEW k \in Details, Lost(k)
    PROVE  Lost(k)'
<1>1. \A c \in Contacts : \A s \in CopiesOf(c)' : k \notin DOMAIN s.details
  <2> SUFFICES ASSUME NEW c \in Contacts, NEW s \in CopiesOf(c)', k \in DOMAIN s.details
               PROVE  FALSE
    OBVIOUS
  <2>1. s = LoadContact(c)
    BY CopiesAfterNext DEF CopiesComeFromLoads, Lost
  <2>2. detail[k].state = "live" /\ detail[k].contact = c
    BY <2>1 DEF LoadContact, DetailsOf
  <2> QED
    BY <2>2, NoneAssumption DEF Lost
<1>2. DetailMoves(k)
  BY MovesAfterNext
<1> QED
  BY <1>1, <1>2 DEF Lost, DetailMoves

\* A detail that was removed or cut off, and that no copy lists, stays so.
THEOREM DetailLostForGood == Spec => LostForGood
<1>1. TypeOK /\ [Next]_vars => [\A k \in Details : Lost(k) => Lost(k)']_vars
  BY LostStays
<1> QED
  BY <1>1, TypeCorrect, PTL DEF Spec, LostForGood

\* A step leaves the state of a tag alone, or inserts the row, or deletes it, or is
\* the save of a request that holds the tag or has fetched it.
TagMoves(t) ==
    \/ tag'[t].state = tag[t].state
    \/ tag[t].state = "absent"
    \/ tag'[t].state = "deleted"
    \/ \E p \in Requests : /\ Save(p)
                           /\ t \in DOMAIN held[p].tags \cup DOMAIN job[p].tags

\* The steps that touch the rows of tags.
LEMMA StepsOnTags ==
    ASSUME [Next]_vars
    PROVE  \/ UNCHANGED tag
           \/ \E t \in Tags, u \in Users, name \in Values : InsertTag(t, u, name)
           \/ \E p \in Requests : Save(p) \/ Rename(p) \/ DropTag(p)
<1> DEFINE Inserts == \E t \in Tags, u \in Users, name \in Values : InsertTag(t, u, name)
<1>1. ASSUME NEW p \in Requests, ContactArrival(p)
      PROVE  UNCHANGED tag
  BY <1>1 DEF ContactArrival, FindOne, Remove, Update, Create, InsertContact, tables
<1>2. ASSUME NEW p \in Requests, DetailArrival(p)
      PROVE  UNCHANGED tag
  <2>1. \A u, k : FindDetail(p, u, k) \/ RemoveDetail(p, u, k) => UNCHANGED tag
    BY DEF FindDetail, RemoveDetail, tables
  <2>2. \A u, k, v : UpdateDetail(p, u, k, v) => UNCHANGED tag
    BY DEF UpdateDetail, tables
  <2>3. \A u, k, c, v, place : AddDetail(p, u, k, c, v, place) => UNCHANGED tag
    BY DEF AddDetail, tables
  <2> QED
    BY <1>2, <2>1, <2>2, <2>3 DEF DetailArrival, PhonesCreate, EmailsCreate, AddressesCreate
<1>3. ASSUME NEW p \in Requests, TagArrival(p)
      PROVE  UNCHANGED tag \/ Inserts
  <2>1. \A u, t : TagsRemove(p, u, t) => UNCHANGED tag
    BY DEF TagsRemove, tables
  <2>2. \A u, t, name : TagsUpdate(p, u, t, name) => UNCHANGED tag
    BY DEF TagsUpdate, tables
  <2>3. \A u, t, name : TagsCreate(p, u, t, name) => InsertTag(t, u, name)
    BY DEF TagsCreate
  <2> QED
    BY <1>3, <2>1, <2>2, <2>3 DEF TagArrival
<1> HIDE DEF Inserts
<1>4. ASSUME NEW p \in Requests, Step(p)
      PROVE  UNCHANGED tag \/ Save(p) \/ Rename(p) \/ DropTag(p)
  BY <1>4 DEF Step, ContactStep, DetailStep, TagStep,
         CacheHit, CacheMiss, Load, NotFound, Fill, Invalidate, TagsFound, TagMissing,
         AvatarRefused, SaveRefused, Erase, Reply, Validated, Duplicated, PhoneInvalid,
         Attach, DetailFound, DetailNotFound, Write, Drop, TagFound, TagNotFound,
         RenameRefused, Fails, Throw, SoftDeleteContact, InsertDetail, WriteDetail,
         SoftDeleteDetail, tables
<1>5. ASSUME NEW c \in Contacts, Expire(c)
      PROVE  UNCHANGED tag
  BY <1>5 DEF Expire, tables
<1>6. UNCHANGED vars => UNCHANGED tag
  BY DEF vars
<1>7. UNCHANGED tag \/ Inserts \/ \E p \in Requests : Save(p) \/ Rename(p) \/ DropTag(p)
  BY <1>1, <1>2, <1>3, <1>4, <1>5, <1>6 DEF Next, Arrival
<1> QED
  BY <1>7 DEF Inserts

LEMMA TagMovesAfterNext ==
    ASSUME TypeOK, [Next]_vars, NEW t \in Tags
    PROVE  TagMoves(t)
<1>0. tag \in [Tags -> TagRow]
  BY DEF TypeOK, TablesTypeOK
<1>1. ASSUME NEW n \in Tags, NEW u \in Users, NEW name \in Values, InsertTag(n, u, name)
      PROVE  TagMoves(t)
  BY <1>0, <1>1 DEF InsertTag, TagMoves
<1>2. ASSUME NEW p \in Requests, Rename(p) \/ DropTag(p)
      PROVE  TagMoves(t)
  BY <1>0, <1>2 DEF Rename, DropTag, RenameTag, SoftDeleteTag, TagMoves, TagRow
<1>3. ASSUME NEW p \in Requests, Save(p)
      PROVE  TagMoves(t)
  <2> DEFINE s == Merge(held[p], job[p].patch, job[p].tags)
  <2>1. tag' = SavedTags(s) /\ DOMAIN s.tags = DOMAIN held[p].tags \cup DOMAIN job[p].tags
    BY <1>3 DEF Save, SaveContact, Merge
  <2> HIDE DEF s
  <2>2. CASE t \in DOMAIN s.tags
    BY <1>3, <2>1, <2>2 DEF TagMoves
  <2>3. CASE t \notin DOMAIN s.tags
    BY <2>1, <2>3 DEF TagMoves, SavedTags
  <2> QED
    BY <2>2, <2>3
<1> QED
  BY <1>1, <1>2, <1>3, StepsOnTags DEF TagMoves

\* A request comes to "save" with the tags it has just found live.
LEMMA OnlyTagsFoundSaves ==
    ASSUME TypeOK, [Next]_vars, NEW p \in Requests, pc'[p] = "save",
           NEW t \in DOMAIN job'[p].tags, tag[t].state # "live"
    PROVE  pc[p] = "save" /\ t \in DOMAIN job[p].tags
<1>1. CASE pc'[p] = pc[p] /\ job'[p] = job[p]
  BY <1>1
<1>2. CASE Step(p)
  <2>0. /\ pc \in [Requests -> Places]
        /\ job \in [Requests -> Job \cup {None}]
    BY DEF TypeOK
  <2>1. job[p] \in Job /\ job[p] # None /\ job[p].then # "save"
    <3>1. job[p] \in Job /\ job[p] # None
      BY <1>2, StepsAreUnderWay, JobUnderWay
    <3> QED
      BY <3>1 DEF TypeOK, RequestTypeOK, Resume
  <2>2. ~Throw(p)
    BY <2>0 DEF Throw, Goto
  <2>3. TagsFound(p)
    BY <1>2, <2>0, <2>1, <2>2
    DEF Step, ContactStep, DetailStep, TagStep, Goto,
        CacheHit, CacheMiss, Load, NotFound, Fill, Invalidate, TagMissing,
        AvatarRefused, Save, SaveRefused, Erase, Reply, Validated, Duplicated,
        PhoneInvalid, Attach, DetailFound, DetailNotFound, Write, Drop,
        TagFound, TagNotFound, Rename, RenameRefused, DropTag, Fails
  <2>4. DOMAIN job'[p].tags = DOMAIN job[p].tags
    BY <2>0, <2>1, <2>3 DEF TagsFound, Job
  <2> QED
    BY <2>3, <2>4 DEF TagsFound, TagVisible
<1> QED
  BY <1>1, <1>2, OwnSteps

LEMMA TagGoneStays ==
    ASSUME TypeOK, [Next]_vars, NEW t \in Tags, TagGone(t)
    PROVE  TagGone(t)'
<1>1. \A c \in Contacts : \A s \in CopiesOf(c)' : t \notin DOMAIN s.tags
  <2> SUFFICES ASSUME NEW c \in Contacts, NEW s \in CopiesOf(c)', t \in DOMAIN s.tags
               PROVE  FALSE
    OBVIOUS
  <2>1. s = LoadContact(c)
    BY CopiesAfterNext DEF CopiesComeFromLoads, TagGone
  <2> QED
    BY <2>1 DEF LoadContact, TagsOf, TagGone
<1>2. \A p \in Requests : pc'[p] = "save" => t \notin DOMAIN job'[p].tags
  BY OnlyTagsFoundSaves DEF TagGone
<1>3. ASSUME NEW p \in Requests, Save(p)
      PROVE  t \notin DOMAIN held[p].tags \cup DOMAIN job[p].tags
  BY <1>3, SavedCopy DEF Save, TagGone
<1>4. tag'[t].state = "deleted"
  BY <1>3, TagMovesAfterNext DEF TagMoves, TagGone
<1> QED
  BY <1>1, <1>2, <1>4 DEF TagGone

\* A deleted tag that is in no copy, and that no request has still to save, stays so.
THEOREM TagsDeletedForGood == Spec => TagsStayGone
<1>1. TypeOK /\ [Next]_vars => [\A t \in Tags : TagGone(t) => TagGone(t)']_vars
  BY TagGoneStays
<1> QED
  BY <1>1, TypeCorrect, PTL DEF Spec, TagsStayGone

-----------------------------------------------------------------------------
(* A save of a fresh copy *)

\* A request leaves "save" for "lookup" by saving.
LEMMA OnlySaveSaves ==
    ASSUME TypeOK, Next, NEW p \in Requests, pc[p] = "save", pc'[p] = "lookup"
    PROVE  Save(p)
<1>1. pc \in [Requests -> Places]
  BY DEF TypeOK
<1>2. Step(p)
  BY OwnSteps
<1>3. ~Throw(p)
  BY <1>1 DEF Throw, Goto
<1> QED
  BY <1>2, <1>3
  DEF Step, ContactStep, DetailStep, TagStep,
      CacheHit, CacheMiss, Load, NotFound, Fill, Invalidate, TagsFound, TagMissing,
      AvatarRefused, SaveRefused, Erase, Reply, Validated, Duplicated,
      PhoneInvalid, Attach, DetailFound, DetailNotFound, Write, Drop,
      TagFound, TagNotFound, Rename, RenameRefused, DropTag, Fails

\* What a save of a fresh copy of contact c leaves in the three tables.
LEMMA FreshSaveEffect ==
    ASSUME TypeOK, NEW c \in Contacts, NEW patch \in Patch,
           NEW newTags \in PartialFunctions(Tags, Values \cup {None}),
           contact[c].state = "live",
           \A t \in DOMAIN newTags : tag[t].state = "live" /\ newTags[t] = tag[t].name,
           SaveContact(c, Merge(LoadContact(c), patch, newTags))
    PROVE  /\ contact' = [contact EXCEPT
                            ![c].fields = [f \in Fields |->
                                IF f \in DOMAIN patch THEN patch[f] ELSE @[f]],
                            ![c].tags = TagsOf(c) \cup DOMAIN newTags]
           /\ UNCHANGED <<detail, tag>>
<1> DEFINE s == Merge(LoadContact(c), patch, newTags)
<1>1. /\ s.fields = [f \in Fields |-> IF f \in DOMAIN patch THEN patch[f] ELSE contact[c].fields[f]]
      /\ s.details = [k \in DetailsOf(c) |-> detail[k].value]
      /\ DOMAIN s.tags = TagsOf(c) \cup DOMAIN newTags
      /\ \A t \in DOMAIN s.tags : s.tags[t] = tag[t].name /\ tag[t].state = "live"
  BY DEF Merge, LoadContact, TagsOf
<1>2. SaveContact(c, s)
  OBVIOUS
<1> HIDE DEF s
<1>3. /\ contact \in [Contacts -> ContactRow]
      /\ detail \in [Details -> DetailRow]
      /\ tag \in [Tags -> TagRow]
  BY DEF TypeOK, TablesTypeOK
<1>4. tag' = tag
  <2>1. ASSUME NEW t \in Tags
        PROVE  SavedTags(s)[t] = tag[t]
    <3>1. tag[t] = [tag[t] EXCEPT !.state = tag[t].state, !.name = tag[t].name]
      BY <1>3 DEF TagRow
    <3>2. CASE t \in DOMAIN s.tags
      BY <1>1, <1>3, <3>1, <3>2 DEF SavedTags, TagRow
    <3>3. CASE t \notin DOMAIN s.tags
      BY <3>3 DEF SavedTags
    <3> QED
      BY <3>2, <3>3
  <2> QED
    BY <1>2, <1>3, <2>1 DEF SaveContact, SavedTags
<1>5. detail' = detail
  <2>1. \A k \in Details : SavedDetail(c, s, k) = detail[k]
    <3> SUFFICES ASSUME NEW k \in Details
                 PROVE  SavedDetail(c, s, k) = detail[k]
      OBVIOUS
    <3>1. detail[k] \in DetailRow
      BY <1>3
    <3>2. CASE k \in DetailsOf(c)
      BY <1>1, <3>1, <3>2 DEF SavedDetail, DetailRow, DetailsOf
    <3>3. CASE k \notin DetailsOf(c)
      BY <1>1, <3>3 DEF SavedDetail
    <3> QED
      BY <3>2, <3>3
  <2> QED
    BY <1>2, <1>3, <2>1 DEF SaveContact
<1>6. contact' = [contact EXCEPT ![c] =
         [state |-> "live", owner |-> contact[c].owner,
          fields |-> s.fields, tags |-> DOMAIN s.tags]]
  BY <1>2 DEF SaveContact
<1>7. contact[c] \in ContactRow
  BY <1>3
<1> QED
  BY <1>1, <1>3, <1>4, <1>5, <1>6, <1>7 DEF ContactRow

LEMMA FreshSaveStep ==
    ASSUME TypeOK, Next, NEW p \in Requests,
           pc[p] = "save", pc'[p] = "lookup", SavesFresh(p)
    PROVE  OwnChangeOnly(p)
<1>1. Save(p)
  BY OnlySaveSaves
<1>2. job[p].contact \in Contacts
      /\ job[p].patch \in Patch
      /\ job[p].tags \in PartialFunctions(Tags, Values \cup {None})
  BY AtContactAwait DEF Job
<1>3. SaveContact(job[p].contact, Merge(LoadContact(job[p].contact), job[p].patch, job[p].tags))
  BY <1>1 DEF Save, SavesFresh
<1> QED
  BY <1>2, <1>3, FreshSaveEffect DEF SavesFresh, OwnChangeOnly

\* A PATCH that saves the copy a find would load at that moment changes its own
\* columns and tags and nothing else, for any contents of the three tables.
THEOREM FreshSaves == Spec => FreshSaveIsExact
<1>1. TypeOK /\ [Next]_vars =>
         [\A p \in Requests :
            pc[p] = "save" /\ pc'[p] = "lookup" /\ SavesFresh(p) => OwnChangeOnly(p)]_vars
  BY FreshSaveStep
<1> QED
  BY <1>1, TypeCorrect, PTL DEF Spec, FreshSaveIsExact

-----------------------------------------------------------------------------
(***************************************************************************)
(* Requests end.  The prover knows nothing of ENABLED, so the fairness     *)
(* here says what the weak fairness of the runs says where a step is       *)
(* possible at every await: the event loop resumes the request.            *)
(***************************************************************************)

\* The awaits before the answer, and the answer, for a handler whose findOne is done.
AwaitsAfter(place) ==
    CASE place = "tags" -> 6
      [] place = "save" -> 5
      [] place \in {"write", "rename"} -> 3
      [] place \in {"erase", "attach", "drop", "dropTag", "invalidate"} -> 2
      [] place = "reply" -> 1

\* The same at any await of the request j, where no exception cuts its way short.
AwaitsLeft(place, j) ==
    CASE place = "idle" -> 0
      [] place = "validate" -> 6
      [] place = "lookup" -> AwaitsAfter(j.then) + 3
      [] place = "load" -> AwaitsAfter(j.then) + 2
      [] place \in {"fill", "find", "findTag"} -> AwaitsAfter(j.then) + 1
      [] OTHER -> AwaitsAfter(place)

Left(p) == AwaitsLeft(pc[p], job[p])

LEMMA ThenAwaits ==
    ASSUME TypeOK, NEW p \in Requests, pc[p] # "idle"
    PROVE  /\ job[p].op \in AllOps
           /\ job[p].then \in {"reply", "tags", "erase", "attach", "write", "drop",
                              "rename", "dropTag"}
           /\ job[p].op = "addDetail" => job[p].then \in {"reply", "attach"}
           /\ job[p].op = "updateDetail" => job[p].then \in {"reply", "write"}
           /\ AwaitsAfter(job[p].then) \in 1 .. 6
<1>1. job[p].op \in AllOps /\ job[p].then \in {"reply", Resume(job[p].op)}
  BY JobUnderWay DEF Job
<1> QED
  BY <1>1 DEF AllOps, Resume, AwaitsAfter

\* No request has more than nine awaits left.
LEMMA AwaitsBounded ==
    ASSUME TypeOK, NEW p \in Requests
    PROVE  /\ AwaitsLeft(pc[p], job[p]) \in 0 .. 9
           /\ pc[p] = "idle" <=> AwaitsLeft(pc[p], job[p]) = 0
<1>1. pc[p] \in Places
  BY DEF TypeOK
<1>2. CASE pc[p] = "idle"
  BY <1>2 DEF AwaitsLeft
<1>3. CASE pc[p] # "idle"
  BY <1>1, <1>3, ThenAwaits DEF AwaitsLeft, AwaitsAfter, Places
<1> QED
  BY <1>2, <1>3

LEMMA StepsDraw ==
    ASSUME TypeOK, NEW p \in Requests, Step(p)
    PROVE  AwaitsLeft(pc'[p], job'[p]) < AwaitsLeft(pc[p], job[p])
<1> DEFINE then == job[p].then
           after == AwaitsAfter(then)
<1>1. pc[p] # "idle"
  BY StepsAreUnderWay
<1>2. /\ then \in {"reply", "tags", "erase", "attach", "write", "drop", "rename", "dropTag"}
      /\ job[p].op = "addDetail" => then \in {"reply", "attach"}
      /\ job[p].op = "updateDetail" => then \in {"reply", "write"}
      /\ after \in 1 .. 6
  BY <1>1, ThenAwaits
<1>3. \A place : Goto(p, place) => pc'[p] = place
  BY DEF Goto, TypeOK
<1>4. pc[p] \in Places /\ job[p] \in Job /\ job \in [Requests -> Job \cup {None}]
  BY <1>1, JobUnderWay DEF TypeOK
<1>5. AwaitsLeft(then, job[p]) = after
  BY <1>2 DEF AwaitsLeft
<1>6. ASSUME pc[p] # "reply", Throw(p)
      PROVE  AwaitsLeft(pc'[p], job'[p]) < AwaitsLeft(pc[p], job[p])
  <2>1. pc'[p] = "reply"
    BY <1>3, <1>6 DEF Throw
  <2> QED
    BY <1>1, <1>2, <1>4, <1>6, <2>1 DEF AwaitsLeft, AwaitsAfter, Places
<1>7. CASE CacheHit(p) \/ Fill(p) \/ DetailFound(p) \/ TagFound(p)
  <2>1. pc'[p] = then /\ job'[p] = job[p]
    BY <1>3, <1>7 DEF CacheHit, Fill, DetailFound, TagFound
  <2>2. pc[p] \in {"lookup", "fill", "find", "findTag"}
    BY <1>7 DEF CacheHit, Fill, DetailFound, TagFound
  <2>3. AwaitsLeft(pc[p], job[p]) > after
    BY <1>2, <2>2 DEF AwaitsLeft
  <2> QED
    BY <1>2, <1>5, <2>1, <2>3
<1>8. CASE CacheMiss(p) \/ Load(p)
  <2>1. /\ job'[p] = job[p]
        /\ \/ pc[p] = "lookup" /\ pc'[p] = "load"
           \/ pc[p] = "load" /\ pc'[p] = "fill"
    BY <1>3, <1>8 DEF CacheMiss, Load
  <2> QED
    BY <1>2, <2>1 DEF AwaitsLeft
<1>9. CASE Validated(p)
  <2>1. /\ pc[p] = "validate" /\ job'[p] = job[p]
        /\ \/ job[p].op = "addDetail" /\ pc'[p] = "lookup"
           \/ job[p].op = "updateDetail" /\ pc'[p] = "find"
    BY <1>3, <1>9, AtDetailAwait DEF Validated
  <2> QED
    BY <1>2, <2>1 DEF AwaitsLeft, AwaitsAfter
<1>10. CASE Save(p) \/ Write(p) \/ Rename(p)
  <2>1. /\ job'[p].then = "reply"
        /\ \/ pc[p] = "save" /\ pc'[p] = "lookup"
           \/ pc[p] = "write" /\ pc'[p] = "find"
           \/ pc[p] = "rename" /\ pc'[p] = "findTag"
    BY <1>3, <1>4, <1>10 DEF Save, Write, Rename, Job
  <2> QED
    BY <2>1 DEF AwaitsLeft, AwaitsAfter
<1>11. CASE TagsFound(p)
  <2>1. pc[p] = "tags" /\ pc'[p] = "save"
    BY <1>3, <1>11 DEF TagsFound
  <2> QED
    BY <2>1 DEF AwaitsLeft, AwaitsAfter
<1>12. CASE Invalidate(p) \/ Erase(p) \/ Attach(p) \/ Drop(p) \/ DropTag(p)
  <2>1. /\ pc[p] \in {"invalidate", "erase", "attach", "drop", "dropTag"}
        /\ pc'[p] = "reply"
    BY <1>3, <1>12 DEF Invalidate, Erase, Attach, Drop, DropTag
  <2> QED
    BY <2>1 DEF AwaitsLeft, AwaitsAfter
<1>13. CASE Reply(p)
  <2>1. pc[p] = "reply" /\ pc'[p] = "idle"
    BY <1>3, <1>13 DEF Reply
  <2> QED
    BY <2>1 DEF AwaitsLeft, AwaitsAfter
<1>14. CASE \/ NotFound(p) \/ TagMissing(p) \/ AvatarRefused(p) \/ SaveRefused(p)
           \/ Duplicated(p) \/ PhoneInvalid(p) \/ DetailNotFound(p)
           \/ TagNotFound(p) \/ RenameRefused(p) \/ Fails(p)
  <2>1. Throw(p) /\ pc[p] # "reply"
    BY <1>14 DEF NotFound, TagMissing, AvatarRefused, SaveRefused, Duplicated,
                PhoneInvalid, DetailNotFound, TagNotFound, RenameRefused, Fails
  <2> QED
    BY <1>6, <2>1
<1> QED
  BY <1>7, <1>8, <1>9, <1>10, <1>11, <1>12, <1>13, <1>14
  DEF Step, ContactStep, DetailStep, TagStep

LEMMA LeftType == TypeOK => \A p \in Requests :
                               /\ Left(p) \in 0 .. 9
                               /\ pc[p] = "idle" <=> Left(p) = 0
BY AwaitsBounded DEF Left

LEMMA LeftAfterNext == TypeOK /\ [Next]_vars => \A p \in Requests : Left(p)' \in 0 .. 9
<1>1. (TypeOK => \A p \in Requests : /\ Left(p) \in 0 .. 9
                                     /\ pc[p] = "idle" <=> Left(p) = 0)'
  BY LeftType, PTL
<1> QED
  BY <1>1, NextType

\* The others leave request p where it is; its own steps leave it fewer awaits.
RequestsDraw == \A p \in Requests :
    pc[p] # "idle" =>
       \/ pc'[p] = pc[p] /\ job'[p] = job[p] /\ held'[p] = held[p]
       \/ Left(p)' < Left(p)

LEMMA NextDraws == TypeOK /\ [Next]_vars => RequestsDraw
BY OwnSteps, StepsDraw DEF RequestsDraw, Left

\* Whatever the others do, a request never goes round: it ends after nine awaits and an
\* answer at most.
THEOREM RequestsDoNotGoRound == Spec => [][RequestsDraw]_vars
BY NextDraws, TypeCorrect, PTL DEF Spec

\* The event loop resumes request p: it takes steps as long as it is under way.
Resumed(p) == []<>(pc[p] = "idle") \/ []<><<Step(p)>>_vars

LEMMA OneAwaitFewer ==
    ASSUME NEW p \in Requests, NEW n \in Nat, NEW m \in Nat, n = m + 1
    PROVE  Spec /\ Resumed(p) => (Left(p) <= n ~> Left(p) <= m)
<1> DEFINE More == Left(p) <= n
           Fewer == Left(p) <= m
           Idle == pc[p] = "idle"
<1>1. ASSUME TypeOK, [Next]_vars
      PROVE  Left(p) \in 0 .. 9 /\ Left(p)' \in 0 .. 9
  BY <1>1, LeftType, LeftAfterNext
<1>2. ASSUME TypeOK, [Next]_vars, More, ~Idle
      PROVE  More'
  <2>1. Left(p)' = Left(p) \/ Left(p)' < Left(p)
    BY <1>2, NextDraws DEF RequestsDraw, Left
  <2> QED
    BY <1>1, <1>2, <2>1
<1>3. ASSUME TypeOK, Step(p), More
      PROVE  Fewer'
  <2>1. Left(p)' < Left(p)
    BY <1>3, StepsDraw DEF Left
  <2>2. Next
    BY <1>3 DEF Next
  <2> QED
    BY <1>1, <1>3, <2>1, <2>2
<1>4. TypeOK /\ Idle => Fewer
  BY LeftType
<1> HIDE DEF More, Fewer, Idle
<1>5. /\ TypeOK /\ [Next]_vars /\ More /\ ~Idle => More'
      /\ TypeOK /\ <<Step(p)>>_vars /\ More => Fewer'
  BY <1>2, <1>3
<1>6. Spec /\ ([]<>Idle \/ []<><<Step(p)>>_vars) => (More ~> Fewer)
  BY <1>4, <1>5, TypeCorrect, PTL DEF Spec
<1> QED
  BY <1>6, PTL DEF Resumed, More, Fewer, Idle

LEMMA OneRequestEnds ==
    ASSUME NEW p \in Requests
    PROVE  Spec /\ Resumed(p) => (pc[p] # "idle" ~> pc[p] = "idle")
<1> DEFINE Falls(n, m) == Spec /\ Resumed(p) => (Left(p) <= n ~> Left(p) <= m)
<1>1. \A n, m \in Nat : n = m + 1 => Falls(n, m)
  BY OneAwaitFewer
<1> HIDE DEF Falls
<1>2. /\ Falls(9, 8) /\ Falls(8, 7) /\ Falls(7, 6) /\ Falls(6, 5) /\ Falls(5, 4)
      /\ Falls(4, 3) /\ Falls(3, 2) /\ Falls(2, 1) /\ Falls(1, 0)
  BY <1>1
<1>3. TypeOK => Left(p) <= 9 /\ (Left(p) <= 0 => pc[p] = "idle")
  BY LeftType
<1> QED
  BY <1>2, <1>3, TypeCorrect, PTL DEF Falls

\* If the event loop resumes every request, every request is answered, however many
\* overlap and whatever they find in the tables and in the cache.
THEOREM RequestsAreAnswered ==
    Spec /\ (\A p \in Requests : Resumed(p)) => RequestsEnd
BY OneRequestEnds DEF RequestsEnd

-----------------------------------------------------------------------------
(* Copies of tables at rest *)

\* The copy s is what a find of contact c would load now.
Current(c, s) == contact[c].state = "live" /\ s = LoadContact(c)

Stale(c) == {s \in CopiesOf(c) : ~Current(c, s)}

LEMMA RestKeepsCurrent ==
    ASSUME UNCHANGED tables
    PROVE  \A c, s : Current(c, s)' <=> Current(c, s)
BY DEF Current, tables, LoadContact, DetailsOf, TagsOf

LEMMA StaleStays ==
    ASSUME TypeOK, [Next]_vars, UNCHANGED tables, NEW c \in Contacts
    PROVE  Stale(c)' \subseteq Stale(c)
BY CopiesAfterNext, RestKeepsCurrent DEF Stale, CopiesComeFromLoads, Current

\* While the tables rest, whatever is read, filled and expired, no copy becomes stale,
\* in the cache or in a request's hands.
THEOREM RestMakesNothingStale ==
    Spec => [][UNCHANGED tables => \A c \in Contacts : Stale(c)' \subseteq Stale(c)]_vars
<1>1. TypeOK /\ [Next]_vars =>
         [UNCHANGED tables => \A c \in Contacts : Stale(c)' \subseteq Stale(c)]_vars
  BY StaleStays
<1> QED
  BY <1>1, TypeCorrect, PTL DEF Spec

\* Requests that only read, and that came to read, leave the tables alone.
LEMMA ReadingRests ==
    ASSUME TypeOK, [Next]_vars, Reading, Reading'
    PROVE  UNCHANGED tables
<1>0. job \in [Requests -> Job \cup {None}]
  BY DEF TypeOK
<1>1. ASSUME NEW p \in Requests, Arrival(p)
      PROVE  UNCHANGED tables
  <2>1. ASSUME NEW u, NEW op \in {"create", "addTag"}, NEW place \in {"invalidate", "reply"},
               Arrive(p, NewJob(op, u), place)
        PROVE  FALSE
    <3>1. job'[p].op = op /\ pc'[p] = place
      BY <1>0, <2>1 DEF Arrive, Goto, NewJob, TypeOK
    <3>2. job'[p] # None
      BY <3>1, NextType DEF TypeOK, RequestTypeOK
    <3> QED
      BY <3>1, <3>2 DEF Reading
  <2>2. ContactArrival(p) => UNCHANGED tables
    BY <2>1 DEF ContactArrival, FindOne, Remove, Create, Update
  <2>3. DetailArrival(p) => UNCHANGED tables
    BY DEF DetailArrival, FindDetail, RemoveDetail, UpdateDetail, AddDetail,
           PhonesCreate, EmailsCreate, AddressesCreate
  <2>4. TagArrival(p) => UNCHANGED tables
    BY <2>1 DEF TagArrival, TagsRemove, TagsCreate, TagsUpdate
  <2> QED
    BY <1>1, <2>2, <2>3, <2>4 DEF Arrival
<1>2. ASSUME NEW p \in Requests, Step(p)
      PROVE  UNCHANGED tables
  <2>1. pc[p] # "idle"
    BY <1>2, StepsAreUnderWay
  <2>2. job[p].op \in {"findOne", "findDetail"}
    BY <2>1, JobUnderWay DEF Reading
  <2>3. pc[p] \notin {"save", "erase", "attach", "write", "drop", "rename", "dropTag"}
    BY <2>2, AtContactAwait, AtDetailAwait, AtTagAwait, JobUnderWay DEF Way, Resume
  <2> QED
    BY <1>2, <2>3
    DEF Step, ContactStep, DetailStep, TagStep,
        CacheHit, CacheMiss, Load, NotFound, Fill, Invalidate, TagsFound, TagMissing,
        AvatarRefused, Save, SaveRefused, Erase, Reply, Validated, Duplicated,
        PhoneInvalid, Attach, DetailFound, DetailNotFound, Write, Drop,
        TagFound, TagNotFound, Rename, RenameRefused, DropTag, Fails, Throw
<1>3. ASSUME NEW c \in Contacts, Expire(c)
      PROVE  UNCHANGED tables
  BY <1>3 DEF Expire
<1>4. UNCHANGED vars => UNCHANGED tables
  BY DEF vars, tables
<1> QED
  BY <1>1, <1>2, <1>3, <1>4 DEF Next

\* What request p is about to store is what a find would load now.
FillsCurrent(p) == pc[p] = "fill" => Current(job[p].contact, held[p])

LEMMA OnlyLoadFills ==
    ASSUME TypeOK, NEW p \in Requests, Step(p), pc'[p] = "fill"
    PROVE  Load(p)
<1>0. pc \in [Requests -> Places]
  BY DEF TypeOK
<1>1. \A place : Goto(p, place) => place = "fill"
  BY <1>0 DEF Goto
<1>2. job[p].then # "fill"
  BY StepsAreUnderWay, ThenAwaits
<1>3. ~Throw(p)
  BY <1>1 DEF Throw
<1>4. ~Reply(p)
  BY <1>1 DEF Reply
<1> QED
  BY <1>1, <1>2, <1>3, <1>4
  DEF Step, ContactStep, DetailStep, TagStep,
      CacheHit, CacheMiss, NotFound, Fill, Invalidate, TagsFound, TagMissing,
      AvatarRefused, Save, SaveRefused, Erase, Validated, Duplicated,
      PhoneInvalid, Attach, DetailFound, DetailNotFound, Write, Drop,
      TagFound, TagNotFound, Rename, RenameRefused, DropTag, Fails

LEMMA FillsStayCurrent ==
    ASSUME TypeOK, [Next]_vars, Reading, Reading', NEW p \in Requests, FillsCurrent(p)
    PROVE  FillsCurrent(p)'
<1> SUFFICES ASSUME pc'[p] = "fill"
             PROVE  Current(job[p].contact, held[p])'
  BY DEF FillsCurrent
<1>1. \A c, s : Current(c, s)' <=> Current(c, s)
  BY ReadingRests, RestKeepsCurrent
<1>2. CASE pc'[p] = pc[p] /\ job'[p] = job[p] /\ held'[p] = held[p]
  <2>1. Current(job[p].contact, held[p])
    BY <1>2 DEF FillsCurrent
  <2> QED
    BY <1>1, <1>2, <2>1 DEF Current
<1>3. CASE Load(p)
  <2>1. /\ held'[p] = LoadContact(job[p].contact)
        /\ contact[job[p].contact].state = "live"
        /\ job'[p] = job[p]
    BY <1>3 DEF Load, ContactVisible, TypeOK
  <2>2. Current(job[p].contact, LoadContact(job[p].contact))
    BY <2>1 DEF Current
  <2> QED
    BY <1>1, <2>1, <2>2 DEF Current
<1> QED
  BY <1>2, <1>3, OwnSteps, OnlyLoadFills

\* The entry of contact c is what a find would load now.
EntryCurrent(c) == cache[c] # None => Current(c, cache[c])

LEMMA EntriesStayCurrent ==
    ASSUME TypeOK, [Next]_vars, Reading, Reading', \A p \in Requests : FillsCurrent(p),
           NEW c \in Contacts, EntryCurrent(c)
    PROVE  EntryCurrent(c)'
<1>1. \A d, s : Current(d, s)' <=> Current(d, s)
  BY ReadingRests, RestKeepsCurrent
<1>2. cache'[c] = cache[c] \/ cache'[c] = None \/ Current(c, cache'[c])
  <2>0. cache \in [Contacts -> Snapshot \cup {None}]
    BY DEF TypeOK
  <2>1. ASSUME NEW p \in Requests, Arrival(p)
        PROVE  cache' = cache
    BY <2>1 DEF Arrival, ContactArrival, DetailArrival, TagArrival, FindOne, Remove, Create,
                Update, FindDetail, RemoveDetail, UpdateDetail, PhonesCreate, EmailsCreate,
                AddressesCreate, AddDetail, TagsRemove, TagsCreate, TagsUpdate
  <2>2. ASSUME NEW p \in Requests, Step(p)
        PROVE  \/ cache'[c] \in {cache[c], None}
               \/ Fill(p) /\ job[p].contact = c /\ cache'[c] = held[p]
    BY <2>0, <2>2
    DEF Step, ContactStep, DetailStep, TagStep,
        CacheHit, CacheMiss, Load, NotFound, Fill, Invalidate, TagsFound, TagMissing,
        AvatarRefused, Save, SaveRefused, Erase, Reply, Validated, Duplicated,
        PhoneInvalid, Attach, DetailFound, DetailNotFound, Write, Drop,
        TagFound, TagNotFound, Rename, RenameRefused, DropTag, Fails, Throw
  <2>3. ASSUME NEW p \in Requests, Fill(p)
        PROVE  Current(job[p].contact, held[p])
    BY <2>3 DEF Fill, FillsCurrent
  <2>4. ASSUME NEW d \in Contacts, Expire(d)
        PROVE  cache'[c] \in {cache[c], None}
    BY <2>0, <2>4 DEF Expire
  <2> QED
    BY <2>1, <2>2, <2>3, <2>4 DEF Next, vars
<1> QED
  BY <1>1, <1>2 DEF EntryCurrent, Current

\* When the writes stop, a request that is resumed comes to store current contacts only.
THEOREM FillsCatchUp ==
    \A p \in Requests : Spec /\ Resumed(p) /\ <>[]Reading => <>[]FillsCurrent(p)
<1>1. ASSUME NEW p \in Requests
      PROVE  Spec /\ Resumed(p) /\ <>[]Reading => <>[]FillsCurrent(p)
  <2> DEFINE Idle == pc[p] = "idle"
             Fills == FillsCurrent(p)
  <2>1. Idle => Fills
    BY DEF FillsCurrent
  <2>2. TypeOK /\ [Next]_vars /\ Reading /\ Reading' /\ Fills => Fills'
    BY FillsStayCurrent
  <2>3. Spec /\ Resumed(p) => (pc[p] # "idle" ~> Idle)
    BY OneRequestEnds
  <2>4. pc[p] # "idle" \/ Idle
    OBVIOUS
  <2> HIDE DEF Idle, Fills
  <2>5. Spec /\ Resumed(p) => []<>Idle
    BY <2>3, <2>4, PTL
  <2>6. Spec /\ Resumed(p) /\ <>[]Reading => <>[]Fills
    BY <2>1, <2>2, <2>5, TypeCorrect, PTL DEF Spec
  <2> QED
    BY <2>6 DEF Fills
<1> QED
  BY <1>1

\* The timer of contact c's entry fires.
Expires(c) == []<>(cache[c] = None) \/ []<><<Expire(c)>>_vars

\* ... and then the entry of every contact whose timer fires catches up with the tables.
THEOREM EntriesCatchUp ==
    \A c \in Contacts :
        Spec /\ Expires(c) /\ <>[]Reading /\ <>[](\A p \in Requests : FillsCurrent(p))
        => <>[]EntryCurrent(c)
<1>1. ASSUME NEW c \in Contacts
      PROVE  Spec /\ Expires(c) /\ <>[]Reading /\ <>[](\A p \in Requests : FillsCurrent(p))
             => <>[]EntryCurrent(c)
  <2> DEFINE Fills == \A p \in Requests : FillsCurrent(p)
  <2>1. cache[c] = None => EntryCurrent(c)
    BY DEF EntryCurrent
  <2>2. TypeOK /\ Expire(c) => EntryCurrent(c)'
    BY DEF TypeOK, Expire, EntryCurrent
  <2>3. TypeOK /\ [Next]_vars /\ Reading /\ Reading' /\ Fills /\ EntryCurrent(c) => EntryCurrent(c)'
    BY EntriesStayCurrent
  <2> HIDE DEF Fills
  <2>4. Spec /\ Expires(c) /\ <>[]Reading /\ <>[]Fills => <>[]EntryCurrent(c)
    BY <2>1, <2>2, <2>3, TypeCorrect, PTL DEF Spec, Expires
  <2> QED
    BY <2>4 DEF Fills
<1> QED
  BY <1>1

=============================================================================
