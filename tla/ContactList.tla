------------------------------ MODULE ContactList ------------------------------
(***************************************************************************)
(* GET /contacts: findAllWithPagination with its cache of pages, composed  *)
(* with the contact routes whose writes it lists, and POST                 *)
(* /contacts/import.  A page is counted, found and stored in three awaits; *)
(* the pages share the cache manager with the contacts, so a reset takes   *)
(* both away.                                                              *)
(***************************************************************************)
EXTENDS AddressBook, Integers, FiniteSets

CONSTANTS
    Listers,    \* the list requests that may be under way at one time
    Queries,    \* the query strings the clients send
    MaxLimit    \* the cap on the page size

SearchTypes == {"contact", "address", "email", "phone_number", "tag"}

Query == [page : Int, limit : Int, search : Values \cup {None},
          type : SearchTypes \cup {None}]

\* Ids are numbers, in whose order the pages come.
ASSUME IdsAssumption == Contacts \subseteq Nat

ASSUME QueriesAssumption == Queries \subseteq Query

ASSUME MaxLimitAssumption == MaxLimit \in Nat \ {0}

Smaller(a, b) == IF a < b THEN a ELSE b

\* Mutant of KeyOf: the key of one user's list is that of every other's.
KeyWithoutUser(u, q) ==
    [user |-> CHOOSE v \in Users : TRUE, page |-> q.page,
     limit |-> Smaller(q.limit, MaxLimit), search |-> q.search, type |-> q.type]

\* The controller's cap, then generateContactsCacheKey.
KeyOf(u, q) ==
    [user |-> u, page |-> q.page,
     limit |-> Smaller(q.limit, MaxLimit), search |-> q.search, type |-> q.type]

Keys == {KeyOf(u, q) : u \in Users, q \in Queries}

\* A page: the rows by id, and the metadata; pages is None where it is undefined.
Page == [data : PartialFunctions(Contacts, [Fields -> Values \cup {None}]),
         total : Nat, pages : Nat \cup {None}, next : BOOLEAN]

ASSUME NoneIsNoPageAssumption == None \notin Page \cup (Users \X Queries)

VARIABLES
    lists,  \* the cached pages
    lpc,    \* the await each list request is at
    ask,    \* the user and the query of each list request
    answer  \* the page each list request holds

listers == <<lists, lpc, ask, answer>>
allVars == <<contact, detail, tag, cache, pc, job, held, lists, lpc, ask, answer>>

ListPlaces == {"idle", "lookup", "count", "find", "store", "reply"}

\* The type invariant: a list request at an await has the user and the query, and a
\* page with the count in it from the count on.
ListTypeOK ==
    /\ lists \in [Keys -> Page \cup {None}]
    /\ lpc \in [Listers -> ListPlaces]
    /\ ask \in [Listers -> (Users \X Queries) \cup {None}]
    /\ answer \in [Listers -> Page \cup {None}]
    /\ \A l \in Listers :
          /\ ask[l] = None <=> lpc[l] = "idle"
          /\ lpc[l] \in {"find", "store", "reply"} => answer[l] # None

ListInit ==
    /\ Init
    /\ lists = [key \in Keys |-> None]
    /\ lpc = [l \in Listers |-> "idle"]
    /\ ask = [l \in Listers |-> None]
    /\ answer = [l \in Listers |-> None]

-----------------------------------------------------------------------------
(* The where clause and the page arithmetic *)

\* Whether search is in what a search of the type looks at.
FoundIn(c, type, search) ==
    CASE type = "contact" -> \E f \in Fields : contact[c].fields[f] = search
      [] type = "phone_number" -> \E k \in DetailsOf(c) \cap Phones : detail[k].value = search
      [] type = "email" -> \E k \in DetailsOf(c) \cap Emails : detail[k].value = search
      [] type = "address" -> \E k \in DetailsOf(c) \cap Addresses : detail[k].value = search
      [] type = "tag" -> \E t \in TagsOf(c) : tag[t].name = search

\* An empty search lists everything, whatever the type.
Matching(u, search, type) ==
    {c \in Contacts :
        /\ ContactVisible(u, c)
        /\ search # None =>
              \E t \in IF type = None THEN SearchTypes ELSE {type} : FoundIn(c, t, search)}

Matches(key) == Matching(key.user, key.search, key.type)

Skip(page, limit) == (page - 1) * limit

\* Mutant of Slice: pages counted from 0.
SliceFromZero(ids, page, limit) ==
    {c \in ids : Cardinality({d \in ids : d < c}) \in page * limit .. page * limit + limit - 1}

\* skip and take, in the order of the ids.
Slice(ids, page, limit) ==
    {c \in ids :
        Cardinality({d \in ids : d < c}) \in Skip(page, limit) .. Skip(page, limit) + limit - 1}

CeilDiv(n, d) == (n + d - 1) \div d

Rows(ids) == [c \in ids |-> contact[c].fields]

NoRows(total) == [data |-> Rows({}), total |-> total, pages |-> None, next |-> FALSE]

\* infinityPagination over the rows found, with a count made earlier.
Paginated(rows, total, page, limit) ==
    [data |-> rows, total |-> total, pages |-> CeilDiv(total, limit),
     next |-> CeilDiv(total, limit) > page]

NoSuchPage(key) == key.page <= 0 \/ key.limit <= 0

PastTheEnd(total, page, limit) == total = 0 \/ Skip(page, limit) >= total

\* What an undisturbed request for key answers.
PageNow(key) ==
    LET ids == Matches(key) IN
    CASE NoSuchPage(key) -> NoRows(0)
      [] ~NoSuchPage(key) /\ PastTheEnd(Cardinality(ids), key.page, key.limit) ->
            NoRows(Cardinality(ids))
      [] OTHER -> Paginated(Rows(Slice(ids, key.page, key.limit)), Cardinality(ids),
                            key.page, key.limit)

-----------------------------------------------------------------------------
(* findAllWithPagination(options, search, type, user) *)

KeyFor(l) == KeyOf(ask[l][1], ask[l][2])

ListGoto(l, place) == lpc' = [lpc EXCEPT ![l] = place]

FindAll(l, u, q) ==
    /\ lpc[l] = "idle"
    /\ ask' = [ask EXCEPT ![l] = <<u, q>>]
    /\ ListGoto(l, "lookup")
    /\ UNCHANGED <<lists, answer, vars>>

\* Mutant of ListHit: a hit stores the page again, so that its time restarts.
ListHitExtends(l) ==
    /\ lpc[l] = "lookup"
    /\ lists[KeyFor(l)] # None
    /\ answer' = [answer EXCEPT ![l] = lists[KeyFor(l)]]
    /\ ListGoto(l, "store")
    /\ UNCHANGED <<lists, ask, vars>>

ListHit(l) ==
    /\ lpc[l] = "lookup"
    /\ lists[KeyFor(l)] # None
    /\ answer' = [answer EXCEPT ![l] = lists[KeyFor(l)]]
    /\ ListGoto(l, "reply")
    /\ UNCHANGED <<lists, ask, vars>>

ListMiss(l) ==
    /\ lpc[l] = "lookup"
    /\ lists[KeyFor(l)] = None
    /\ IF NoSuchPage(KeyFor(l))
         THEN answer' = [answer EXCEPT ![l] = NoRows(0)] /\ ListGoto(l, "store")
         ELSE ListGoto(l, "count") /\ UNCHANGED answer
    /\ UNCHANGED <<lists, ask, vars>>

\* Mutant of Count: the total is not kept for the metadata.
CountForgotten(l) ==
    /\ lpc[l] = "count"
    /\ ListGoto(l, "find")
    /\ UNCHANGED <<lists, ask, answer, vars>>

Count(l) ==
    LET key == KeyFor(l)
        total == Cardinality(Matches(key)) IN
    /\ lpc[l] = "count"
    /\ answer' = [answer EXCEPT ![l] = NoRows(total)]
    /\ ListGoto(l, IF PastTheEnd(total, key.page, key.limit) THEN "store" ELSE "find")
    /\ UNCHANGED <<lists, ask, vars>>

Find(l) ==
    LET key == KeyFor(l) IN
    /\ lpc[l] = "find"
    /\ answer' = [answer EXCEPT ![l] =
          Paginated(Rows(Slice(Matches(key), key.page, key.limit)), @.total,
                    key.page, key.limit)]
    /\ ListGoto(l, "store")
    /\ UNCHANGED <<lists, ask, vars>>

StorePage(l) ==
    /\ lpc[l] = "store"
    /\ lists' = [lists EXCEPT ![KeyFor(l)] = answer[l]]
    /\ ListGoto(l, "reply")
    /\ UNCHANGED <<ask, answer, vars>>

ListReply(l) ==
    /\ lpc[l] = "reply"
    /\ ListGoto(l, "idle")
    /\ ask' = [ask EXCEPT ![l] = None]
    /\ answer' = [answer EXCEPT ![l] = None]
    /\ UNCHANGED <<lists, vars>>

\* A call of the database or the cache fails.
ListFails(l) ==
    /\ lpc[l] \notin {"idle", "reply"}
    /\ ListGoto(l, "idle")
    /\ ask' = [ask EXCEPT ![l] = None]
    /\ answer' = [answer EXCEPT ![l] = None]
    /\ UNCHANGED <<lists, vars>>

ExpirePage(key) ==
    /\ lists[key] # None
    /\ lists' = [lists EXCEPT ![key] = None]
    /\ UNCHANGED <<lpc, ask, answer, vars>>

-----------------------------------------------------------------------------
(* importContacts(user, file): the last row parsed is inserted; no cache is told *)

Import(u, c, row) ==
    /\ InsertContact(c, u, row)
    /\ UNCHANGED <<cache, pc, job, held, listers>>

-----------------------------------------------------------------------------

\* A step of a contact route; the reset empties the whole cache.
BookStep(p) ==
    /\ Arrival(p) \/ Step(p)
    /\ lists' = IF pc[p] = "invalidate" /\ CacheHasReset
                  THEN [key \in Keys |-> None] ELSE lists
    /\ UNCHANGED <<lpc, ask, answer>>

ListStep(l) ==
    \/ ListHit(l) \/ ListMiss(l) \/ Count(l) \/ Find(l) \/ StorePage(l) \/ ListReply(l)
    \/ ListFails(l)

ListNext ==
    \/ \E p \in Requests : BookStep(p)
    \/ \E c \in Contacts : Expire(c) /\ UNCHANGED listers
    \/ \E l \in Listers : ListStep(l)
    \/ \E l \in Listers, u \in Users, q \in Queries : FindAll(l, u, q)
    \/ \E key \in Keys : ExpirePage(key)
    \/ \E u \in Users, c \in Contacts, row \in Patch : Import(u, c, row)

ListSpec == ListInit /\ [][ListNext]_allVars

\* As in AddressBook: awaits are answered and timers fire.
FairListSpec ==
    /\ ListSpec
    /\ \A p \in Requests : WF_allVars(Step(p) /\ BookStep(p))
    /\ \A l \in Listers : WF_allVars(ListStep(l))
    /\ \A key \in Keys : WF_allVars(ExpirePage(key))

-----------------------------------------------------------------------------
(* Properties *)

\* However stale its page, a list request answers the caller's own contacts: the
\* pages of a user are cached apart and a contact never changes hands.
ListsOwn ==
    \A l \in Listers :
        lpc[l] = "reply" => \A c \in DOMAIN answer[l].data : contact[c].owner = ask[l][1]

\* Following hasNextPage from page 1, on a table that rests, visits every contact
\* of the user once.
WalkVisitsAll ==
    \A u \in Users, limit \in 1 .. Cardinality(Contacts) + 1 :
        LET Nth(k) == PageNow([user |-> u, page |-> k, limit |-> limit,
                               search |-> None, type |-> None])
            Pages == 1 .. Cardinality(Contacts) + 1
        IN  /\ \A c \in Matching(u, None, None) :
                  Cardinality({k \in Pages : c \in DOMAIN Nth(k).data}) = 1
            /\ \A k \in Pages : Nth(k).next <=> DOMAIN Nth(k + 1).data # {}

ListsFresh == \A key \in Keys : lists[key] # None => lists[key] = PageNow(key)

\* No write but a create tells the cache, and a page can be counted, found and
\* stored around a write; but once the tables rest, the pages catch up with them.
ListsSettle == <>[][FALSE]_tables => <>[]ListsFresh

=============================================================================
