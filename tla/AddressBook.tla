----------------------------- MODULE AddressBook -----------------------------
(***************************************************************************)
(* The contact routes as a whole: ContactsService together with            *)
(* PhonesService, EmailsService, AddressesService and TagsService, which   *)
(* write the tables ContactsService caches and consult its findOne, cache  *)
(* included, before they attach a detail to a contact.                     *)
(***************************************************************************)
EXTENDS ContactService

KindOf(k) == CHOOSE kind \in {Phones, Emails, Addresses} : k \in kind

\* Ids the auto-increment columns have still to give, one per row.
FreshDetail(k) ==
    /\ detail[k].state = "absent"
    /\ \A q \in Requests : job[q] # None => job[q].detail # k

-----------------------------------------------------------------------------
(* IsUniqueToContact, run by the validation pipe before the handler *)

\* The repository's findOne with the value and, in the body of a create only,
\* the contact.
Duplicates(j) ==
    {k \in KindOf(j.detail) :
        /\ detail[k].state = "live"
        /\ detail[k].value = j.value
        /\ j.op = "addDetail" => /\ detail[k].contact = j.contact
                                 /\ contact[j.contact].state = "live"}

Validated(p) ==
    /\ pc[p] = "validate"
    /\ Duplicates(job[p]) = {}
    /\ Goto(p, IF job[p].op = "addDetail" THEN "lookup" ELSE "find")
    /\ UNCHANGED <<tables, cache, job, held>>

Duplicated(p) ==
    /\ pc[p] = "validate"
    /\ Duplicates(job[p]) # {}
    /\ Throw(p)

-----------------------------------------------------------------------------
(* create(user, dto) of the three detail services *)

AddDetail(p, u, k, c, v, place) ==
    /\ FreshDetail(k)
    /\ Arrive(p, [NewJob("addDetail", u) EXCEPT
                    !.contact = c, !.detail = k, !.value = v], place)
    /\ UNCHANGED <<tables, cache, held>>

PhonesCreate(p, u, k, c, v) == k \in Phones /\ AddDetail(p, u, k, c, v, "validate")
EmailsCreate(p, u, k, c, v) == k \in Emails /\ AddDetail(p, u, k, c, v, "validate")
AddressesCreate(p, u, k, c, v) == k \in Addresses /\ AddDetail(p, u, k, c, v, "lookup")

\* validatePhone: the number is no number of the user's country.
PhoneInvalid(p) ==
    /\ pc[p] = "lookup"
    /\ job[p].op = "addDetail"
    /\ job[p].detail \in Phones
    /\ Throw(p)

\* Mutant of Attach: the contact is not looked for before.
AttachUnchecked(p) ==
    /\ pc[p] \in {"lookup", "attach"}
    /\ job[p].op = "addDetail"
    /\ InsertDetail(job[p].detail, job[p].contact, job[p].value)
    /\ held' = [held EXCEPT ![p] = None]
    /\ Goto(p, "reply")
    /\ UNCHANGED <<cache, job>>

Attach(p) ==
    /\ pc[p] = "attach"
    /\ InsertDetail(job[p].detail, job[p].contact, job[p].value)
    /\ held' = [held EXCEPT ![p] = None]
    /\ Goto(p, "reply")
    /\ UNCHANGED <<cache, job>>

-----------------------------------------------------------------------------
(* findOne, update and remove of the three detail services *)

FindDetail(p, u, k) ==
    /\ Arrive(p, [NewJob("findDetail", u) EXCEPT !.detail = k], "find")
    /\ UNCHANGED <<tables, cache, held>>

\* Phones and emails await the validation of the body first, addresses the row.
UpdateDetail(p, u, k, v) ==
    /\ Arrive(p, [NewJob("updateDetail", u) EXCEPT !.detail = k, !.value = v],
              IF k \in Addresses THEN "find" ELSE "validate")
    /\ UNCHANGED <<tables, cache, held>>

RemoveDetail(p, u, k) ==
    /\ Arrive(p, [NewJob("removeDetail", u) EXCEPT !.detail = k], "find")
    /\ UNCHANGED <<tables, cache, held>>

DetailFound(p) ==
    /\ pc[p] = "find"
    /\ DetailVisible(job[p].user, job[p].detail)
    /\ Goto(p, job[p].then)
    /\ UNCHANGED <<tables, cache, job, held>>

DetailNotFound(p) ==
    /\ pc[p] = "find"
    /\ ~DetailVisible(job[p].user, job[p].detail)
    /\ Throw(p)

Write(p) ==
    /\ pc[p] = "write"
    /\ WriteDetail(job[p].detail, job[p].value)
    /\ job' = [job EXCEPT ![p].then = "reply"]
    /\ Goto(p, "find")
    /\ UNCHANGED <<cache, held>>

Drop(p) ==
    /\ pc[p] = "drop"
    /\ SoftDeleteDetail(job[p].detail)
    /\ Goto(p, "reply")
    /\ UNCHANGED <<cache, job, held>>

-----------------------------------------------------------------------------
(* TagsService *)

\* An insert the unique index refuses changes nothing: it is no step.
TagsCreate(p, u, t, name) ==
    /\ Arrive(p, NewJob("addTag", u), "reply")
    /\ InsertTag(t, u, name)
    /\ UNCHANGED <<cache, held>>

TagsUpdate(p, u, t, name) ==
    /\ Arrive(p, [NewJob("updateTag", u) EXCEPT
                    !.tag = t, !.value = name], "findTag")
    /\ UNCHANGED <<tables, cache, held>>

TagsRemove(p, u, t) ==
    /\ Arrive(p, [NewJob("removeTag", u) EXCEPT !.tag = t], "findTag")
    /\ UNCHANGED <<tables, cache, held>>

TagFound(p) ==
    /\ pc[p] = "findTag"
    /\ TagVisible(job[p].user, job[p].tag)
    /\ Goto(p, job[p].then)
    /\ UNCHANGED <<tables, cache, job, held>>

TagNotFound(p) ==
    /\ pc[p] = "findTag"
    /\ ~TagVisible(job[p].user, job[p].tag)
    /\ Throw(p)

Rename(p) ==
    /\ pc[p] = "rename"
    /\ RenameTag(job[p].tag, job[p].value)
    /\ job' = [job EXCEPT ![p].then = "reply"]
    /\ Goto(p, "findTag")
    /\ UNCHANGED <<cache, held>>

RenameRefused(p) ==
    /\ pc[p] = "rename"
    /\ ~TagNamesUnique([tag EXCEPT ![job[p].tag].name = job[p].value])
    /\ Throw(p)

DropTag(p) ==
    /\ pc[p] = "dropTag"
    /\ SoftDeleteTag(job[p].tag)
    /\ Goto(p, "reply")
    /\ UNCHANGED <<cache, job, held>>

-----------------------------------------------------------------------------

DetailArrival(p) ==
    \E u \in Users, k \in Details :
        \/ FindDetail(p, u, k)
        \/ RemoveDetail(p, u, k)
        \/ \E v \in Values :
              \/ UpdateDetail(p, u, k, v)
              \/ \E c \in Contacts : \/ PhonesCreate(p, u, k, c, v)
                                     \/ EmailsCreate(p, u, k, c, v)
                                     \/ AddressesCreate(p, u, k, c, v)

TagArrival(p) ==
    \E u \in Users, t \in Tags :
        \/ TagsRemove(p, u, t)
        \/ \E name \in Values : TagsCreate(p, u, t, name) \/ TagsUpdate(p, u, t, name)

DetailStep(p) ==
    \/ Validated(p) \/ Duplicated(p) \/ PhoneInvalid(p) \/ Attach(p)
    \/ DetailFound(p) \/ DetailNotFound(p) \/ Write(p) \/ Drop(p)

TagStep(p) ==
    \/ TagFound(p) \/ TagNotFound(p)
    \/ Rename(p) \/ RenameRefused(p) \/ DropTag(p)

Arrival(p) == ContactArrival(p) \/ DetailArrival(p) \/ TagArrival(p)
Step(p) == ContactStep(p) \/ DetailStep(p) \/ TagStep(p) \/ Fails(p)

Next ==
    \/ \E p \in Requests : Arrival(p) \/ Step(p)
    \/ \E c \in Contacts : Expire(c)

Spec == Init /\ [][Next]_vars

\* The event loop resumes every await whose database or cache call has ended,
\* and the cache's timers fire.
FairSpec == /\ Spec
            /\ \A p \in Requests : WF_vars(Step(p))
            /\ \A c \in Contacts : WF_vars(Expire(c))

-----------------------------------------------------------------------------
(* Properties *)

\* The copies of contact c outside the database: its cache entry and what the
\* requests on it hold in memory.
CopiesOf(c) ==
    ({cache[c]} \cup {held[p] : p \in {q \in Requests : job[q] # None /\ job[q].contact = c}})
        \ {None}

\* A detail belongs to one contact: while any copy of a contact, however stale,
\* lists the detail, no copy of another contact lists it and the row itself hangs
\* on that contact or on none.  A save writes a copy back with all its details, so
\* this is what keeps saves of two contacts from taking each other's details.
DetailsStayHome ==
    \A c \in Contacts : \A s \in CopiesOf(c) : \A k \in DOMAIN s.details :
        /\ detail[k].state # "absent"
        /\ detail[k].contact \in {c, None}
        /\ \A d \in Contacts \ {c} : \A t \in CopiesOf(d) : k \notin DOMAIN t.details

Gone(c) == contact[c].state = "deleted" /\ CopiesOf(c) = {}

\* remove leaves the cache entry behind and a save of a copy undeletes the row, but
\* once the last copy of a deleted contact is gone nothing brings the contact back.
GoneForGood == [][\A c \in Contacts : Gone(c) => Gone(c)']_vars

Lost(k) ==
    /\ detail[k].state # "absent"
    /\ detail[k].state = "deleted" \/ detail[k].contact = None
    /\ \A c \in Contacts : \A s \in CopiesOf(c) : k \notin DOMAIN s.details

\* The same for a detail that was removed, or cut off by the save of a copy that
\* did not list it: when no copy lists it, no sequence of requests restores it.
LostForGood == [][\A k \in Details : Lost(k) => Lost(k)']_vars

TagGone(t) ==
    /\ tag[t].state = "deleted"
    /\ \A c \in Contacts : \A s \in CopiesOf(c) : t \notin DOMAIN s.tags
    /\ \A p \in Requests : pc[p] = "save" => t \notin DOMAIN job[p].tags

\* And for a tag, which the cascade of a save writes back to its own table: once it
\* is deleted, in no copy of a contact and fetched by no PATCH that has still to
\* save, it stays deleted, whatever contacts it is still joined to.
TagsStayGone == [][\A t \in Tags : TagGone(t) => TagGone(t)']_vars

\* What ContactBook calls the life of a contact and the home of a detail.
LifeOf(c) ==
    CASE contact[c].state = "absent" -> "free"
      [] contact[c].state = "live" -> "live"
      [] contact[c].state = "deleted" -> IF Gone(c) THEN "gone" ELSE "deleted"

HomesOf(k) ==
    {c \in Contacts :
        \/ detail[k].state = "live" /\ detail[k].contact = c
        \/ cache[c] # None /\ k \in DOMAIN cache[c].details
        \/ \E p \in Requests : /\ held[p] # None
                               /\ job[p].contact = c
                               /\ k \in DOMAIN held[p].details}

HomeOf(k) ==
    LET homes == HomesOf(k) IN
    CASE homes # {} -> CHOOSE c \in homes : TRUE
      [] homes = {} -> IF detail[k].state = "absent" THEN None ELSE "lost"

Book == INSTANCE ContactBook WITH
            Things <- Contacts,
            life <- [c \in Contacts |-> LifeOf(c)],
            owner <- [c \in Contacts |-> contact[c].owner],
            home <- [k \in Details |-> HomeOf(k)]

\* The routes, with their cache and their overlapping requests, are a ContactBook:
\* no owner changes, no detail changes hands or is given to a contact that is gone.
ImplementsContactBook == Book!BookSpec

\* The copies a save is about to write are those a find would load now.
SavesFresh(p) ==
    /\ contact[job[p].contact].state = "live"
    /\ held[p] = LoadContact(job[p].contact)
    /\ \A t \in DOMAIN job[p].tags : tag[t].state = "live" /\ job[p].tags[t] = tag[t].name

\* The step changes the columns and tags request p asked for, and nothing else.
OwnChangeOnly(p) ==
    LET c == job[p].contact IN
    /\ contact' = [contact EXCEPT
                     ![c].fields = [f \in Fields |->
                        IF f \in DOMAIN job[p].patch THEN job[p].patch[f] ELSE @[f]],
                     ![c].tags = TagsOf(c) \cup DOMAIN job[p].tags]
    /\ UNCHANGED <<detail, tag>>

\* update saves the whole entity with its cascades; from a fresh copy that amounts
\* to the request's own change: its columns, its tags, no detail, no tag's row.
FreshSaveIsExact ==
    [][\A p \in Requests :
          pc[p] = "save" /\ pc'[p] = "lookup" /\ SavesFresh(p) => OwnChangeOnly(p)]_vars

\* Every request is answered.
RequestsEnd == \A p \in Requests : pc[p] # "idle" ~> pc[p] = "idle"

Reading == \A p \in Requests : job[p] # None => job[p].op \in {"findOne", "findDetail"}

CacheFresh ==
    \A c \in Contacts :
        cache[c] # None => contact[c].state = "live" /\ cache[c] = LoadContact(c)

\* No write reaches the cache, and fills race with writes, but when the writes
\* stop the stale entries run out and none is stored again.
EventuallyFresh == <>[]Reading => <>[]CacheFresh

-----------------------------------------------------------------------------
(* What the documentation says of the routes, and the code does not do *)

\* update: "@returns The updated contact if found".
UpdateAnswersUpdated ==
    \A p \in Requests :
        /\ pc[p] = "reply"
        /\ held[p] # None
        /\ job[p].op = "update"
        => \A f \in DOMAIN job[p].patch : held[p].fields[f] = job[p].patch[f]

\* POST of an email: "should not create a new email for contact if the email already
\* exists on the contact".
ValuesUnique ==
    \A k1, k2 \in Phones \cup Emails :
        /\ k1 # k2
        /\ KindOf(k1) = KindOf(k2)
        /\ detail[k1].state = "live"
        /\ detail[k2].state = "live"
        /\ detail[k1].contact = detail[k2].contact
        /\ detail[k1].contact # None
        => detail[k1].value # detail[k2].value

\* DELETE: "Permanently deletes a contact and all associated data."
DeletedStaysDeleted ==
    [][\A c \in Contacts : contact[c].state = "deleted" => contact'[c].state = "deleted"]_vars

=============================================================================
