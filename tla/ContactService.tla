---------------------------- MODULE ContactService ----------------------------
(***************************************************************************)
(* ContactsService and the per-contact entries of its cache: create,       *)
(* findOne, update and remove, cut at their awaits, so that any number of  *)
(* requests interleave as the event loop lets them.                        *)
(*                                                                         *)
(* findOne is a subroutine of most handlers: a request whose pc is         *)
(* "lookup", "load" or "fill" is inside it, and job[p].then says where it  *)
(* goes with the contact.  "return this.findOne(...)" at the end of update *)
(* is a tail call: then becomes "reply".                                   *)
(***************************************************************************)
EXTENDS ContactTables

CONSTANTS
    Requests,       \* the requests that may be under way at one time
    Ops,            \* the operations the clients use
    CacheHasReset   \* whether the cache manager has the method reset

AllOps == {"create", "findOne", "update", "remove",
           "addDetail", "findDetail", "updateDetail", "removeDetail",
           "addTag", "updateTag", "removeTag"}

ASSUME OpsAssumption == Ops \subseteq AllOps

ASSUME ResetAssumption == CacheHasReset \in BOOLEAN

ASSUME NoneIsNoEntityAssumption == None \notin Snapshot

VARIABLES
    cache,  \* the entries contact:${id}: what findOne stored, or None
    pc,     \* the await each request is at, "idle" when it is not under way
    job,    \* the parameters of each request
    held    \* the contact each request holds in memory, its answer at "reply"

vars == <<contact, detail, tag, cache, pc, job, held>>

Places == {"idle", "lookup", "load", "fill", "tags", "save", "erase",
           "invalidate", "validate", "attach", "find", "write", "drop",
           "findTag", "rename", "dropTag", "reply"}

ContactOps == {"findOne", "update", "remove", "addDetail"}
DetailOps == {"addDetail", "findDetail", "updateDetail", "removeDetail"}

\* What a handler does with the row its findOne has found.
Resume(op) ==
    CASE op = "update" -> "tags"
      [] op = "remove" -> "erase"
      [] op = "addDetail" -> "attach"
      [] op = "updateDetail" -> "write"
      [] op = "removeDetail" -> "drop"
      [] op = "updateTag" -> "rename"
      [] op = "removeTag" -> "dropTag"
      [] OTHER -> "reply"

Job == [op : AllOps, user : Users, contact : Contacts \cup {None},
        detail : Details \cup {None}, tag : Tags \cup {None}, patch : Patch,
        tags : PartialFunctions(Tags, Values \cup {None}),
        value : Values \cup {None},
        then : Places]

ASSUME NoneIsNoJobAssumption == None \notin Job

\* A request of which each operation sets the part it uses.
NewJob(op, u) ==
    [op |-> op, user |-> u, contact |-> None, detail |-> None, tag |-> None,
     patch |-> [f \in {} |-> None], tags |-> [t \in {} |-> None],
     value |-> None, then |-> Resume(op)]

\* The awaits an operation can be at.
Way(op) ==
    {"reply", Resume(op)}
    \cup (IF op \in ContactOps THEN {"lookup", "load", "fill"} ELSE {})
    \cup (IF op = "create" THEN {"invalidate"} ELSE {})
    \cup (IF op = "update" THEN {"save"} ELSE {})
    \cup (IF op \in {"addDetail", "updateDetail"} THEN {"validate"} ELSE {})
    \cup (IF op \in DetailOps \ {"addDetail"} THEN {"find"} ELSE {})
    \cup (IF op \in {"updateTag", "removeTag"} THEN {"findTag"} ELSE {})

\* What a request at place has: its parameters, and a contact where it needs one.
RequestTypeOK(place, j, h) ==
    /\ j = None <=> place = "idle"
    /\ place = "idle" => h = None
    /\ place \in {"fill", "tags", "save"} => h # None
    /\ j # None => /\ place \in Way(j.op)
                   /\ j.then \in {"reply", Resume(j.op)}
                   /\ j.op \in ContactOps => j.contact \in Contacts
                   /\ j.op \in DetailOps => j.detail \in Details
                   /\ j.op \in {"updateTag", "removeTag"} => j.tag \in Tags

\* The type invariant: every table row, cache entry and request in memory has its
\* shape, and a request at an await has what the code after the await reads.
TypeOK ==
    /\ TablesTypeOK
    /\ cache \in [Contacts -> Snapshot \cup {None}]
    /\ pc \in [Requests -> Places]
    /\ job \in [Requests -> Job \cup {None}]
    /\ held \in [Requests -> Snapshot \cup {None}]
    /\ \A p \in Requests : RequestTypeOK(pc[p], job[p], held[p])

Init ==
    /\ TablesInit
    /\ cache = [c \in Contacts |-> None]
    /\ pc = [p \in Requests |-> "idle"]
    /\ job = [p \in Requests |-> None]
    /\ held = [p \in Requests |-> None]

-----------------------------------------------------------------------------
(* Control *)

Goto(p, place) == pc' = [pc EXCEPT ![p] = place]

\* A request with the parameters j arrives, its first await at place.
Arrive(p, j, place) ==
    /\ pc[p] = "idle"
    /\ j.op \in Ops
    /\ job' = [job EXCEPT ![p] = j]
    /\ Goto(p, place)

\* The answer is sent, or the exception filter's.
Reply(p) ==
    /\ pc[p] = "reply"
    /\ Goto(p, "idle")
    /\ job' = [job EXCEPT ![p] = None]
    /\ held' = [held EXCEPT ![p] = None]
    /\ UNCHANGED <<tables, cache>>

\* An exception: the request answers without a contact.
Throw(p) ==
    /\ Goto(p, "reply")
    /\ held' = [held EXCEPT ![p] = None]
    /\ UNCHANGED <<tables, cache, job>>

\* A call of the database or the cache fails, at any await: what the request has
\* written stays, and nothing is tried again.  reset swallows its failures.
Fails(p) ==
    /\ pc[p] \notin {"idle", "invalidate", "reply"}
    /\ Throw(p)

-----------------------------------------------------------------------------
(* findOne(user, id), its key without the user *)

\* Mutant of CacheHit: a hit stores the entry again, so that its time restarts.
CacheHitExtends(p) ==
    /\ pc[p] = "lookup"
    /\ cache[job[p].contact] # None
    /\ held' = [held EXCEPT ![p] = cache[job[p].contact]]
    /\ Goto(p, "fill")
    /\ UNCHANGED <<tables, cache, job>>

CacheHit(p) ==
    /\ pc[p] = "lookup"
    /\ cache[job[p].contact] # None
    /\ held' = [held EXCEPT ![p] = cache[job[p].contact]]
    /\ Goto(p, job[p].then)
    /\ UNCHANGED <<tables, cache, job>>

CacheMiss(p) ==
    /\ pc[p] = "lookup"
    /\ cache[job[p].contact] = None
    /\ Goto(p, "load")
    /\ UNCHANGED <<tables, cache, job, held>>

Load(p) ==
    /\ pc[p] = "load"
    /\ ContactVisible(job[p].user, job[p].contact)
    /\ held' = [held EXCEPT ![p] = LoadContact(job[p].contact)]
    /\ Goto(p, "fill")
    /\ UNCHANGED <<tables, cache, job>>

NotFound(p) ==
    /\ pc[p] = "load"
    /\ ~ContactVisible(job[p].user, job[p].contact)
    /\ Throw(p)

Fill(p) ==
    /\ pc[p] = "fill"
    /\ cache' = [cache EXCEPT ![job[p].contact] = held[p]]
    /\ Goto(p, job[p].then)
    /\ UNCHANGED <<tables, job, held>>

FindOne(p, u, c) ==
    /\ Arrive(p, [NewJob("findOne", u) EXCEPT !.contact = c], "lookup")
    /\ UNCHANGED <<tables, cache, held>>

-----------------------------------------------------------------------------
(* create(user, dto): one insert, then the invalidation of the cache *)

Create(p, u, c, patch) ==
    /\ Arrive(p, NewJob("create", u), "invalidate")
    /\ InsertContact(c, u, patch)
    /\ UNCHANGED <<cache, held>>

\* CacheService.reset, which does nothing when the manager has no such method.
Invalidate(p) ==
    /\ pc[p] = "invalidate"
    /\ cache' = IF CacheHasReset THEN [c \in Contacts |-> None] ELSE cache
    /\ Goto(p, "reply")
    /\ UNCHANGED <<tables, job, held>>

-----------------------------------------------------------------------------
(* update(user, id, dto) *)

Update(p, u, c, patch, newTags) ==
    /\ Arrive(p, [NewJob("update", u) EXCEPT
                    !.contact = c, !.patch = patch,
                    !.tags = [t \in newTags |-> None]], "lookup")
    /\ UNCHANGED <<tables, cache, held>>

\* The tags of the body, fetched together; none to fetch is the same step.
TagsFound(p) ==
    /\ pc[p] = "tags"
    /\ \A t \in DOMAIN job[p].tags : TagVisible(job[p].user, t)
    /\ job' = [job EXCEPT ![p].tags = [t \in DOMAIN job[p].tags |-> tag[t].name]]
    /\ Goto(p, "save")
    /\ UNCHANGED <<tables, cache, held>>

TagMissing(p) ==
    /\ pc[p] = "tags"
    /\ \E t \in DOMAIN job[p].tags : ~TagVisible(job[p].user, t)
    /\ Throw(p)

\* A body whose avatar replaces another one: removeFile looks the old file up by
\* its path where an id is asked for, finds none and throws.
AvatarRefused(p) ==
    /\ pc[p] = "save"
    /\ Throw(p)

\* Mutant of Save: the answer is looked for by way of update itself.
SaveAgain(p) ==
    /\ pc[p] = "save"
    /\ SaveContact(job[p].contact, Merge(held[p], job[p].patch, job[p].tags))
    /\ held' = [held EXCEPT ![p] = None]
    /\ Goto(p, "lookup")
    /\ UNCHANGED <<cache, job>>

Save(p) ==
    /\ pc[p] = "save"
    /\ SaveContact(job[p].contact, Merge(held[p], job[p].patch, job[p].tags))
    /\ held' = [held EXCEPT ![p] = None]
    /\ job' = [job EXCEPT ![p].then = "reply"]
    /\ Goto(p, "lookup")
    /\ UNCHANGED cache

\* The unique index on tag names refuses the cascaded names.
SaveRefused(p) ==
    /\ pc[p] = "save"
    /\ ~TagNamesUnique(SavedTags(Merge(held[p], job[p].patch, job[p].tags)))
    /\ Throw(p)

-----------------------------------------------------------------------------
(* remove(user, id): the cached entry and the details stay *)

Remove(p, u, c) ==
    /\ Arrive(p, [NewJob("remove", u) EXCEPT !.contact = c], "lookup")
    /\ UNCHANGED <<tables, cache, held>>

Erase(p) ==
    /\ pc[p] = "erase"
    /\ SoftDeleteContact(job[p].contact)
    /\ Goto(p, "reply")
    /\ UNCHANGED <<cache, job, held>>

-----------------------------------------------------------------------------
(* The time to live of an entry runs out. *)

Expire(c) ==
    /\ cache[c] # None
    /\ cache' = [cache EXCEPT ![c] = None]
    /\ UNCHANGED <<tables, pc, job, held>>

-----------------------------------------------------------------------------

ContactArrival(p) ==
    \E u \in Users, c \in Contacts :
        \/ FindOne(p, u, c)
        \/ Remove(p, u, c)
        \/ \E patch \in Patch :
              \/ Create(p, u, c, patch)
              \/ \E newTags \in SUBSET Tags : Update(p, u, c, patch, newTags)

ContactStep(p) ==
    \/ CacheHit(p) \/ CacheMiss(p) \/ Load(p) \/ NotFound(p) \/ Fill(p)
    \/ Invalidate(p)
    \/ TagsFound(p) \/ TagMissing(p)
    \/ AvatarRefused(p) \/ Save(p) \/ SaveRefused(p)
    \/ Erase(p)
    \/ Reply(p)

=============================================================================
