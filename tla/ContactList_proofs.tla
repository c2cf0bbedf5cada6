--------------------------- MODULE ContactList_proofs ---------------------------
(***************************************************************************)
(* Proofs about ContactList: the type invariant, and that every list is of *)
(* the caller's own contacts.                                              *)
(***************************************************************************)
EXTENDS ContactList, ContactBook_proofs, FiniteSetTheorems, NaturalsInduction

Inserted == {c \in Contacts : contact[c].state # "absent"}

\* The contacts of a page have rows, which belong to u.
OwnedBy(u, page) == \A c \in DOMAIN page.data : c \in Inserted /\ contact[c].owner = u

\* A list request that reads the table asks for a page there can be.
PageAsked == \A l \in Listers : lpc[l] \in {"count", "find"} => ~NoSuchPage(KeyFor(l))

\* Between requests no page is held.
NothingHeld == \A l \in Listers : lpc[l] = "idle" => answer[l] = None

\* The pages, cached and held, are of the user they are cached and held for.
PagesOwn ==
    /\ \A key \in Keys : lists[key] # None => OwnedBy(key.user, lists[key])
    /\ \A l \in Listers : lpc[l] # "idle" /\ answer[l] # None => OwnedBy(ask[l][1], answer[l])

ListInv ==
    /\ TypeOK
    /\ ListTypeOK
    /\ IsFiniteSet(Inserted)
    /\ PageAsked
    /\ NothingHeld
    /\ PagesOwn

-----------------------------------------------------------------------------
(* Steps *)

LEMMA ListStepsKeepBook ==
    ASSUME NEW l \in Listers, ListStep(l) \/ \E u \in Users, q \in Queries : FindAll(l, u, q)
    PROVE  UNCHANGED vars
BY DEF ListStep, ListHit, ListMiss, Count, Find, StorePage, ListReply, ListFails, FindAll

\* On the tables and the contact routes, a step is one of theirs or an import.
LEMMA BookOrImport ==
    ASSUME [ListNext]_allVars
    PROVE  \/ [Next]_vars
           \/ /\ \E u \in Users, c \in Contacts, row \in Patch : InsertContact(c, u, row)
              /\ UNCHANGED <<cache, pc, job, held, listers>>
<1>1. ASSUME NEW p \in Requests, BookStep(p)
      PROVE  Next
  BY <1>1 DEF BookStep, Next
<1>2. ASSUME NEW c \in Contacts, Expire(c)
      PROVE  Next
  BY <1>2 DEF Next
<1>3. ASSUME NEW key \in Keys, ExpirePage(key)
      PROVE  UNCHANGED vars
  BY <1>3 DEF ExpirePage
<1>4. UNCHANGED allVars => UNCHANGED vars
  BY DEF allVars, vars
<1> QED
  BY <1>1, <1>2, <1>3, <1>4, ListStepsKeepBook DEF ListNext, Import

LEMMA BookTypeStep == TypeOK /\ [ListNext]_allVars => TypeOK'
<1> SUFFICES ASSUME TypeOK, [ListNext]_allVars
             PROVE  TypeOK'
  OBVIOUS
<1>1. ASSUME NEW u \in Users, NEW c \in Contacts, NEW row \in Patch, InsertContact(c, u, row),
             UNCHANGED <<cache, pc, job, held>>
      PROVE  TypeOK'
  <2>1. TablesTypeOK'
    BY <1>1, ContactStatementsType DEF TypeOK
  <2> QED
    BY <1>1, <2>1 DEF TypeOK
<1> QED
  BY <1>1, BookOrImport, NextType

\* A step inserts one row at most, and takes no row from its owner.
LEMMA RowsAfterNext ==
    ASSUME TypeOK, [ListNext]_allVars
    PROVE  /\ \A c \in Inserted : c \in Inserted' /\ contact'[c].owner = contact[c].owner
           /\ \E c : Inserted' \in SUBSET (Inserted \cup {c})
<1>0. contact \in [Contacts -> ContactRow]
  BY DEF TypeOK, TablesTypeOK
<1>1. CASE UNCHANGED contact
  BY <1>1 DEF Inserted
<1>2. ASSUME NEW c \in Contacts, \A d \in Contacts \ {c} : contact'[d] = contact[d],
             RowInserted(c) \/ RowRewritten(c)
      PROVE  /\ \A d \in Inserted : d \in Inserted' /\ contact'[d].owner = contact[d].owner
             /\ Inserted' \in SUBSET (Inserted \cup {c})
  <2>1. \A d \in Inserted : d \in Inserted' /\ contact'[d].owner = contact[d].owner
    BY <1>2 DEF Inserted, RowInserted, RowRewritten
  <2>2. Inserted' \in SUBSET (Inserted \cup {c})
    BY <1>2 DEF Inserted
  <2> QED
    BY <2>1, <2>2
<1>3. ASSUME NEW u \in Users, NEW c \in Contacts, NEW row \in Patch, InsertContact(c, u, row)
      PROVE  /\ \A d \in Contacts \ {c} : contact'[d] = contact[d]
             /\ RowInserted(c)
  BY <1>0, <1>3 DEF InsertContact, RowInserted
<1> QED
  BY <1>1, <1>2, <1>3, BookOrImport, OneRowMoves

\* The variables of the lists after a step.
LEMMA ListMoves ==
    ASSUME [ListNext]_allVars
    PROVE  \/ \E l \in Listers : ListStep(l)
           \/ \E l \in Listers, u \in Users, q \in Queries : FindAll(l, u, q)
           \/ /\ UNCHANGED <<lpc, ask, answer>>
              /\ \/ lists' = [key \in Keys |-> None]
                 \/ lists' = lists
                 \/ \E key \in Keys : lists' = [lists EXCEPT ![key] = None]
<1> DEFINE Kept == /\ UNCHANGED <<lpc, ask, answer>>
                   /\ \/ lists' = [key \in Keys |-> None]
                      \/ lists' = lists
                      \/ \E key \in Keys : lists' = [lists EXCEPT ![key] = None]
<1>1. ASSUME NEW p \in Requests, BookStep(p)
      PROVE  Kept
  BY <1>1 DEF BookStep
<1>2. ASSUME NEW key \in Keys, ExpirePage(key)
      PROVE  Kept
  BY <1>2 DEF ExpirePage
<1>3. UNCHANGED listers => Kept
  BY DEF listers
<1>4. UNCHANGED allVars => Kept
  BY DEF allVars
<1> HIDE DEF Kept
<1>5. \/ \E l \in Listers : ListStep(l)
      \/ \E l \in Listers, u \in Users, q \in Queries : FindAll(l, u, q)
      \/ Kept
  BY <1>1, <1>2, <1>3, <1>4 DEF ListNext, Import
<1> QED
  BY <1>5 DEF Kept

-----------------------------------------------------------------------------
(* Pages *)

LEMMA KeyType ==
    ASSUME NEW u \in Users, NEW q \in Queries
    PROVE  /\ KeyOf(u, q) \in Keys
           /\ KeyOf(u, q).user = u
           /\ KeyOf(u, q).page \in Int
           /\ KeyOf(u, q).limit \in Int
BY QueriesAssumption, MaxLimitAssumption DEF Keys, KeyOf, Query, Smaller

LEMMA KeyForType ==
    ASSUME ListTypeOK, NEW l \in Listers, lpc[l] # "idle"
    PROVE  /\ KeyFor(l) \in Keys
           /\ KeyFor(l).user = ask[l][1]
           /\ KeyFor(l).page \in Int
           /\ KeyFor(l).limit \in Int
<1>1. ask[l] \in Users \X Queries
  BY DEF ListTypeOK
<1>2. ask[l][1] \in Users /\ ask[l][2] \in Queries
  BY <1>1
<1> QED
  BY <1>2, KeyType DEF KeyFor

\* The contacts a query finds have rows, which belong to its user, and are counted.
LEMMA MatchesAreOwned ==
    ASSUME IsFiniteSet(Inserted), NEW key
    PROVE  /\ \A c \in Matches(key) : c \in Inserted /\ contact[c].owner = key.user
           /\ Cardinality(Matches(key)) \in Nat
<1>1. \A c \in Matches(key) : c \in Inserted /\ contact[c].owner = key.user
  BY DEF Matches, Matching, ContactVisible, Inserted
<1>2. IsFiniteSet(Matches(key))
  BY <1>1, FS_Subset
<1> QED
  BY <1>1, <1>2, FS_CardinalityType

LEMMA RowsType ==
    ASSUME TypeOK, NEW ids \in SUBSET Contacts
    PROVE  /\ Rows(ids) \in PartialFunctions(Contacts, [Fields -> Values \cup {None}])
           /\ DOMAIN Rows(ids) = ids
<1>1. Rows(ids) \in [ids -> [Fields -> Values \cup {None}]]
  BY DEF Rows, TypeOK, TablesTypeOK, ContactRow
<1> QED
  BY <1>1, PartialFunctionIntro

LEMMA NoRowsType ==
    ASSUME TypeOK, NEW total \in Nat
    PROVE  /\ NoRows(total) \in Page
           /\ NoRows(total).data = Rows({})
           /\ DOMAIN Rows({}) = {}
BY RowsType DEF NoRows, Page

LEMMA CeilDivType ==
    ASSUME NEW n \in Nat, NEW d \in Nat \ {0}
    PROVE  CeilDiv(n, d) \in Nat
BY DEF CeilDiv

LEMMA PaginatedType ==
    ASSUME TypeOK, NEW ids \in SUBSET Contacts, NEW total \in Nat,
           NEW page \in Int, NEW limit \in Nat \ {0}
    PROVE  /\ Paginated(Rows(ids), total, page, limit) \in Page
           /\ DOMAIN Paginated(Rows(ids), total, page, limit).data = ids
<1>1. CeilDiv(total, limit) \in Nat
  BY CeilDivType
<1>2. (CeilDiv(total, limit) > page) \in BOOLEAN
  BY <1>1
<1> HIDE DEF CeilDiv
<1> QED
  BY <1>1, <1>2, RowsType DEF Paginated, Page

-----------------------------------------------------------------------------
(* The invariant *)

\* What the invariant says of one list request.
ListShape(place, k, a) ==
    /\ place \in ListPlaces
    /\ k \in (Users \X Queries) \cup {None}
    /\ a \in Page \cup {None}
    /\ k = None <=> place = "idle"
    /\ place \in {"find", "store", "reply"} => a # None
    /\ place \in {"count", "find"} => ~NoSuchPage(KeyOf(k[1], k[2]))
    /\ place = "idle" => a = None
    /\ place # "idle" /\ a # None => OwnedBy(k[1], a)

\* What is owned stays owned.
LEMMA OwnedStays ==
    ASSUME TypeOK, [ListNext]_allVars, NEW u, NEW page, OwnedBy(u, page)
    PROVE  \A c \in DOMAIN page.data : c \in Inserted' /\ contact'[c].owner = u
BY RowsAfterNext DEF OwnedBy

\* A step that stores no page but one a request holds, and leaves the request l
\* well-formed, preserves the invariant.
LEMMA StepOfLister ==
    ASSUME ListInv, [ListNext]_allVars, NEW l \in Listers, NEW place, NEW k, NEW a,
           lpc' = [lpc EXCEPT ![l] = place],
           ask' = [ask EXCEPT ![l] = k],
           answer' = [answer EXCEPT ![l] = a],
           \/ lists' = lists
           \/ /\ lpc[l] = "store"
              /\ lists' = [lists EXCEPT ![KeyFor(l)] = answer[l]],
           ListShape(place, k, a)
    PROVE  ListTypeOK' /\ PageAsked' /\ NothingHeld' /\ PagesOwn'
<1>0. /\ lists \in [Keys -> Page \cup {None}]
      /\ lpc \in [Listers -> ListPlaces]
      /\ ask \in [Listers -> (Users \X Queries) \cup {None}]
      /\ answer \in [Listers -> Page \cup {None}]
  BY DEF ListInv, ListTypeOK
<1>1. /\ lpc' \in [Listers -> ListPlaces]
      /\ ask' \in [Listers -> (Users \X Queries) \cup {None}]
      /\ answer' \in [Listers -> Page \cup {None}]
  BY <1>0 DEF ListShape
<1>2. lpc'[l] = place /\ ask'[l] = k /\ answer'[l] = a
  BY <1>0
<1>3. \A m \in Listers \ {l} : lpc'[m] = lpc[m] /\ ask'[m] = ask[m] /\ answer'[m] = answer[m]
  BY <1>0
<1>4. lists' \in [Keys -> Page \cup {None}]
  BY <1>0
<1>5. ASSUME NEW m \in Listers
      PROVE  /\ ask'[m] = None <=> lpc'[m] = "idle"
             /\ lpc'[m] \in {"find", "store", "reply"} => answer'[m] # None
             /\ lpc'[m] \in {"count", "find"} => ~NoSuchPage(KeyOf(ask'[m][1], ask'[m][2]))
             /\ lpc'[m] = "idle" => answer'[m] = None
             /\ lpc'[m] # "idle" /\ answer'[m] # None => OwnedBy(ask'[m][1], answer'[m])
  <2>1. CASE m = l
    BY <1>2, <2>1 DEF ListShape
  <2>2. CASE m # l
    BY <1>3, <2>2 DEF ListInv, ListTypeOK, PageAsked, NothingHeld, PagesOwn, KeyFor
  <2> QED
    BY <2>1, <2>2
<1>6. ASSUME NEW key \in Keys, lists'[key] # None
      PROVE  OwnedBy(key.user, lists'[key])
  <2>1. CASE lists'[key] = lists[key]
    BY <1>6, <2>1 DEF ListInv, PagesOwn
  <2>2. CASE lpc[l] = "store" /\ key = KeyFor(l) /\ lists'[key] = answer[l]
    <3>1. key.user = ask[l][1]
      BY <2>2, KeyForType DEF ListInv
    <3> QED
      BY <1>6, <2>2, <3>1 DEF ListInv, PagesOwn
  <2> QED
    BY <1>0, <2>1, <2>2
<1>7. PagesOwn'
  <2>1. ASSUME NEW key \in Keys, lists'[key] # None
        PROVE  \A c \in DOMAIN lists'[key].data : c \in Inserted' /\ contact'[c].owner = key.user
    BY <1>6, <2>1, OwnedStays DEF ListInv
  <2>2. ASSUME NEW m \in Listers, lpc'[m] # "idle", answer'[m] # None
        PROVE  \A c \in DOMAIN answer'[m].data : c \in Inserted' /\ contact'[c].owner = ask'[m][1]
    BY <1>5, <2>2, OwnedStays DEF ListInv
  <2> QED
    BY <2>1, <2>2 DEF PagesOwn, OwnedBy
<1> QED
  BY <1>1, <1>4, <1>5, <1>7 DEF ListTypeOK, PageAsked, NothingHeld, KeyFor

\* The steps of a list request.
LEMMA ListStepKeeps ==
    ASSUME ListInv, [ListNext]_allVars, NEW l \in Listers, ListStep(l)
    PROVE  ListTypeOK' /\ PageAsked' /\ NothingHeld' /\ PagesOwn'
<1> DEFINE key == KeyFor(l)
<1>0. /\ lpc \in [Listers -> ListPlaces]
      /\ ask \in [Listers -> (Users \X Queries) \cup {None}]
      /\ answer \in [Listers -> Page \cup {None}]
      /\ lists \in [Keys -> Page \cup {None}]
      /\ TypeOK
      /\ IsFiniteSet(Inserted)
  BY DEF ListInv, ListTypeOK
<1>1. lpc[l] # "idle"
  BY DEF ListStep, ListHit, ListMiss, Count, Find, StorePage, ListReply, ListFails
<1>2. /\ key \in Keys /\ key.page \in Int /\ key.limit \in Int
      /\ key.user = ask[l][1]
      /\ ask[l] \in Users \X Queries
      /\ ask[l] # None
      /\ lpc[l] \in {"count", "find"} => ~NoSuchPage(key)
  BY <1>1, KeyForType DEF ListInv, ListTypeOK, PageAsked
<1>3. /\ answer[l] # None => OwnedBy(ask[l][1], answer[l])
      /\ lists[key] # None => OwnedBy(ask[l][1], lists[key])
  BY <1>1, <1>2 DEF ListInv, PagesOwn
<1>4. ask = [ask EXCEPT ![l] = ask[l]] /\ answer = [answer EXCEPT ![l] = answer[l]]
  BY <1>0
<1>5. None \notin Page
  BY NoneIsNoPageAssumption
<1>6. ASSUME NEW total \in Nat
      PROVE  NoRows(total) \in Page /\ OwnedBy(ask[l][1], NoRows(total))
  BY <1>0, NoRowsType DEF OwnedBy
<1>7. Cardinality(Matches(key)) \in Nat
      /\ \A c \in Matches(key) : c \in Inserted /\ contact[c].owner = key.user
  BY <1>0, MatchesAreOwned
<1> HIDE DEF key
<1>8. CASE ListHit(l)
  <2>1. ListShape("reply", ask[l], lists[key])
    BY <1>0, <1>2, <1>3, <1>8 DEF ListShape, ListPlaces, ListHit, key
  <2> QED
    BY <1>4, <1>8, <2>1, StepOfLister DEF ListHit, ListGoto, key
<1>9. CASE ListMiss(l)
  <2>1. CASE NoSuchPage(key)
    <3>1. ListShape("store", ask[l], NoRows(0))
      BY <1>2, <1>5, <1>6 DEF ListShape, ListPlaces
    <3> QED
      BY <1>4, <1>9, <2>1, <3>1, StepOfLister DEF ListMiss, ListGoto, key
  <2>2. CASE ~NoSuchPage(key)
    <3>1. ListShape("count", ask[l], answer[l])
      BY <1>0, <1>2, <1>3, <2>2 DEF ListShape, ListPlaces, key, KeyFor
    <3> QED
      BY <1>4, <1>9, <2>2, <3>1, StepOfLister DEF ListMiss, ListGoto, key
  <2> QED
    BY <2>1, <2>2
<1>10. CASE Count(l)
  <2> DEFINE total == Cardinality(Matches(key))
             place == IF PastTheEnd(total, key.page, key.limit) THEN "store" ELSE "find"
  <2>1. total \in Nat /\ place \in {"store", "find"}
    BY <1>7
  <2>2. /\ answer' = [answer EXCEPT ![l] = NoRows(total)]
        /\ lpc' = [lpc EXCEPT ![l] = place]
        /\ lists' = lists /\ ask' = ask
        /\ lpc[l] = "count"
    BY <1>10 DEF Count, ListGoto, key
  <2> HIDE DEF total, place
  <2>3. ListShape(place, ask[l], NoRows(total))
    BY <1>2, <1>5, <1>6, <2>1, <2>2 DEF ListShape, ListPlaces, key, KeyFor
  <2> QED
    BY <1>4, <2>2, <2>3, StepOfLister
<1>11. CASE Find(l)
  <2> DEFINE ids == Slice(Matches(key), key.page, key.limit)
             total == answer[l].total
             page == key.page
             limit == key.limit
             a == Paginated(Rows(ids), total, page, limit)
  <2>1. ids \in SUBSET Contacts /\ \A c \in ids : c \in Inserted /\ contact[c].owner = key.user
    BY <1>7 DEF Slice, Inserted
  <2>2. /\ answer' = [answer EXCEPT ![l] = a]
        /\ lpc' = [lpc EXCEPT ![l] = "store"]
        /\ lists' = lists /\ ask' = ask
        /\ lpc[l] = "find"
    BY <1>11 DEF Find, ListGoto, key
  <2>3. total \in Nat
    <3>1. answer[l] \in Page
      BY <1>0, <2>2 DEF ListInv, ListTypeOK
    <3> QED
      BY <3>1 DEF Page
  <2>4. page \in Int /\ limit \in Nat \ {0}
    BY <1>2, <2>2 DEF NoSuchPage
  <2>5. ids \in SUBSET Contacts
    BY <2>1
  <2> HIDE DEF ids, total, page, limit
  <2>6. a \in Page /\ DOMAIN a.data = ids
    BY <1>0, <2>3, <2>4, <2>5, PaginatedType
  <2> HIDE DEF a
  <2>7. ListShape("store", ask[l], a)
    BY <1>2, <1>5, <2>1, <2>6 DEF ListShape, ListPlaces, OwnedBy
  <2> QED
    BY <1>4, <2>2, <2>7, StepOfLister
<1>12. CASE StorePage(l)
  <2>1. ListShape("reply", ask[l], answer[l])
    BY <1>0, <1>2, <1>3, <1>12 DEF ListShape, ListPlaces, StorePage, ListInv, ListTypeOK
  <2> QED
    BY <1>4, <1>12, <2>1, StepOfLister DEF StorePage, ListGoto
<1>13. CASE ListReply(l) \/ ListFails(l)
  <2>1. ListShape("idle", None, None)
    BY DEF ListShape, ListPlaces
  <2> QED
    BY <1>13, <2>1, StepOfLister DEF ListReply, ListFails, ListGoto
<1> QED
  BY <1>8, <1>9, <1>10, <1>11, <1>12, <1>13 DEF ListStep

\* The arrival of a list request, ...
LEMMA FindAllKeeps ==
    ASSUME ListInv, [ListNext]_allVars, NEW l \in Listers, NEW u \in Users, NEW q \in Queries,
           FindAll(l, u, q)
    PROVE  ListTypeOK' /\ PageAsked' /\ NothingHeld' /\ PagesOwn'
<1>1. answer[l] = None /\ answer = [answer EXCEPT ![l] = None]
  BY DEF ListInv, NothingHeld, ListTypeOK, FindAll
<1>2. <<u, q>> \in Users \X Queries /\ <<u, q>> # None
  BY NoneIsNoPageAssumption
<1>3. ListShape("lookup", <<u, q>>, None)
  BY <1>2 DEF ListShape, ListPlaces
<1> QED
  BY <1>1, <1>3, StepOfLister DEF FindAll, ListGoto

\* ... and what the contact routes and the timers do to the lists.
LEMMA OthersKeep ==
    ASSUME ListInv, [ListNext]_allVars, UNCHANGED <<lpc, ask, answer>>,
           \/ lists' = [key \in Keys |-> None]
           \/ lists' = lists
           \/ \E key \in Keys : lists' = [lists EXCEPT ![key] = None]
    PROVE  ListTypeOK' /\ PageAsked' /\ NothingHeld' /\ PagesOwn'
<1>1. /\ lists' \in [Keys -> Page \cup {None}]
      /\ \A key \in Keys : lists'[key] \in {lists[key], None}
  BY DEF ListInv, ListTypeOK
<1>2. ASSUME NEW key \in Keys, lists'[key] # None
      PROVE  \A c \in DOMAIN lists'[key].data : c \in Inserted' /\ contact'[c].owner = key.user
  <2>1. lists'[key] = lists[key] /\ OwnedBy(key.user, lists[key])
    BY <1>1, <1>2 DEF ListInv, PagesOwn
  <2> QED
    BY <2>1, OwnedStays DEF ListInv
<1>3. ASSUME NEW m \in Listers, lpc[m] # "idle", answer[m] # None
      PROVE  \A c \in DOMAIN answer[m].data : c \in Inserted' /\ contact'[c].owner = ask[m][1]
  <2>1. OwnedBy(ask[m][1], answer[m])
    BY <1>3 DEF ListInv, PagesOwn
  <2> QED
    BY <2>1, OwnedStays DEF ListInv
<1>4. PagesOwn'
  BY <1>2, <1>3 DEF PagesOwn, OwnedBy
<1> QED
  BY <1>1, <1>4 DEF ListInv, ListTypeOK, PageAsked, NothingHeld, KeyFor

LEMMA ListInvStep == ListInv /\ [ListNext]_allVars => ListInv'
<1> SUFFICES ASSUME ListInv, [ListNext]_allVars
             PROVE  ListInv'
  OBVIOUS
<1>1. TypeOK'
  BY BookTypeStep DEF ListInv
<1>2. IsFiniteSet(Inserted)'
  <2>1. PICK c : Inserted' \in SUBSET (Inserted \cup {c})
    BY RowsAfterNext DEF ListInv
  <2>2. IsFiniteSet(Inserted \cup {c})
    BY FS_AddElement DEF ListInv
  <2>3. IsFiniteSet(Inserted')
    BY <2>1, <2>2, FS_Subset
  <2> QED
    BY <2>3
<1>3. ListTypeOK' /\ PageAsked' /\ NothingHeld' /\ PagesOwn'
  BY ListMoves, ListStepKeeps, FindAllKeeps, OthersKeep
<1> QED
  BY <1>1, <1>2, <1>3 DEF ListInv

LEMMA ListInvariant == ListSpec => []ListInv
<1>1. ListInit => ListInv
  <2> SUFFICES ASSUME ListInit
               PROVE  ListInv
    OBVIOUS
  <2>1. TypeOK
    BY InitType DEF ListInit
  <2>2. Inserted = {}
    BY DEF ListInit, Init, TablesInit, Inserted
  <2>3. IsFiniteSet(Inserted)
    BY <2>2, FS_EmptySet
  <2> QED
    BY <2>1, <2>3
    DEF ListInit, ListInv, ListTypeOK, PageAsked, NothingHeld, PagesOwn, ListPlaces
<1> QED
  BY <1>1, ListInvStep, PTL DEF ListSpec

-----------------------------------------------------------------------------

\* The composition keeps the shapes of the contact routes, imports included.
THEOREM BookStaysTyped == ListSpec => []TypeOK
<1>1. ListInv => TypeOK
  BY DEF ListInv
<1> QED
  BY <1>1, ListInvariant, PTL

\* Cached pages, list requests and what they hold have their shapes; the counts are
\* numbers though the ids are not bounded, for finitely many rows are ever there.
THEOREM ListsTypeCorrect == ListSpec => []ListTypeOK
<1>1. ListInv => ListTypeOK
  BY DEF ListInv
<1> QED
  BY <1>1, ListInvariant, PTL

\* However stale a page, and whatever is searched, cached, imported or deleted
\* meanwhile, a list request answers contacts of its own user.
THEOREM ListsAreOwn == ListSpec => []ListsOwn
<1>1. ListInv => ListsOwn
  BY DEF ListInv, ListTypeOK, PagesOwn, ListsOwn, OwnedBy
<1> QED
  BY <1>1, ListInvariant, PTL

-----------------------------------------------------------------------------
(* Imports next to the contact routes *)

\* An import makes a free contact live; no copy is one of it, and nothing else moves.
LEMMA ImportEffect ==
    ASSUME BookInv, NEW u \in Users, NEW c \in Contacts, NEW row \in Patch,
           InsertContact(c, u, row), UNCHANGED <<cache, pc, job, held>>
    PROVE  /\ contact[c].state = "absent" /\ CopiesOf(c) = {}
           /\ contact'[c].state = "live" /\ contact'[c].owner = u
           /\ \A d \in Contacts \ {c} : contact'[d] = contact[d]
           /\ \A d \in Contacts : CopiesOf(d)' = CopiesOf(d)
           /\ UNCHANGED <<detail, tag>>
<1>1. contact \in [Contacts -> ContactRow]
  BY DEF BookInv, TypeOK, TablesTypeOK
<1>2. contact[c].state = "absent" /\ UNCHANGED <<detail, tag>>
  BY DEF InsertContact
<1>3. CopiesOf(c) = {}
  BY <1>2 DEF BookInv, CopiesHaveRows
<1>4. /\ contact'[c].state = "live" /\ contact'[c].owner = u
      /\ \A d \in Contacts \ {c} : contact'[d] = contact[d]
  BY <1>1 DEF InsertContact
<1>5. \A d \in Contacts : CopiesOf(d)' = CopiesOf(d)
  BY DEF CopiesOf
<1> QED
  BY <1>2, <1>3, <1>4, <1>5

LEMMA BookInvListStep == BookInv /\ [ListNext]_allVars => BookInv'
<1> SUFFICES ASSUME BookInv, [ListNext]_allVars
             PROVE  BookInv'
  OBVIOUS
<1>1. ASSUME NEW u \in Users, NEW c \in Contacts, NEW row \in Patch,
             InsertContact(c, u, row), UNCHANGED <<cache, pc, job, held>>
      PROVE  BookInv'
  <2>1. /\ \A d \in Contacts : CopiesOf(d)' = CopiesOf(d)
        /\ contact'[c].state = "live"
        /\ \A d \in Contacts \ {c} : contact'[d] = contact[d]
        /\ detail' = detail
    BY <1>1, ImportEffect
  <2>2. TypeOK'
    BY BookTypeStep DEF BookInv
  <2>3. DetailsStayHome'
    BY <2>1 DEF BookInv, DetailsStayHome
  <2>4. CopiesHaveRows'
    BY <2>1 DEF BookInv, CopiesHaveRows
  <2>5. ContactFound' /\ DetailFoundFirst'
    BY <1>1, <2>1 DEF BookInv, ContactFound, DetailFoundFirst
  <2> QED
    BY <2>2, <2>3, <2>4, <2>5 DEF BookInv
<1> QED
  BY <1>1, BookOrImport, BookInvStep

LEMMA BookInvWithLists == ListSpec => []BookInv
BY BookInvInit, BookInvListStep, PTL DEF ListSpec, ListInit

\* To ContactBook an import is an insert.
LEMMA ImportMoves ==
    ASSUME BookInv, NEW u \in Users, NEW c \in Contacts, NEW row \in Patch,
           InsertContact(c, u, row), UNCHANGED <<cache, pc, job, held>>
    PROVE  Book!BookNext
<1> DEFINE life == [d \in Contacts |-> LifeOf(d)]
           owner == [d \in Contacts |-> contact[d].owner]
           home == [k \in Details |-> HomeOf(k)]
<1>1. /\ life' = [d \in Contacts |-> LifeOf(d)']
      /\ owner' = [d \in Contacts |-> contact'[d].owner]
      /\ home' = [k \in Details |-> HomeOf(k)']
  OBVIOUS
<1>2. /\ contact[c].state = "absent"
      /\ contact'[c].state = "live" /\ contact'[c].owner = u
      /\ \A d \in Contacts \ {c} : contact'[d] = contact[d]
      /\ \A d \in Contacts : CopiesOf(d)' = CopiesOf(d)
      /\ detail' = detail
  BY ImportEffect
<1>3. \A k \in Details : HomeOf(k)' = HomeOf(k)
  BY <1>2 DEF HomeOf, HomesOf
<1>4. LifeOf(c) = "free" /\ LifeOf(c)' = "live"
  BY <1>2 DEF LifeOf
<1>5. \A d \in Contacts \ {c} : LifeOf(d)' = LifeOf(d)
  BY <1>2 DEF LifeOf, Gone
<1>6. ASSUME NEW d \in Contacts
      PROVE  Book!LifeStep(d) /\ Book!OwnerStep(d)
  BY <1>2, <1>4, <1>5 DEF Book!LifeStep, Book!OwnerStep, Book!Moves
<1>7. ASSUME NEW k \in Details
      PROVE  Book!HomeStep(k)
  BY <1>3 DEF Book!HomeStep
<1> QED
  BY <1>1, <1>6, <1>7 DEF Book!BookNext, Book!LifeNext

\* With lists, their cached pages and imports beside them, the contact routes remain a
\* ContactBook: an import inserts contacts, and changes no owner, no life that began
\* and no detail.
THEOREM ListsImplementContactBook == ListSpec => ImplementsContactBook
<1>1. BookInv /\ [ListNext]_allVars => Book!BookNext
  BY BookOrImport, ImportMoves, RoutesStep
<1> QED
  BY <1>1, RoutesInit, BookInvWithLists, PTL
  DEF ListSpec, ListInit, ImplementsContactBook, Book!BookSpec

\* No list and no import gives a detail to a second contact.
THEOREM DetailsAtHomeWithLists == ListSpec => []DetailsStayHome
<1>1. BookInv => DetailsStayHome
  BY DEF BookInv
<1> QED
  BY <1>1, BookInvWithLists, PTL

\* Nor does one bring back a contact that is gone: an import only inserts.
THEOREM DeletedForGoodWithLists == ListSpec => GoneForGood
<1>1. ASSUME BookInv, [ListNext]_allVars, NEW d \in Contacts, Gone(d)
      PROVE  Gone(d)'
  <2>1. ASSUME NEW u \in Users, NEW c \in Contacts, NEW row \in Patch,
               InsertContact(c, u, row), UNCHANGED <<cache, pc, job, held>>
        PROVE  Gone(d)'
    BY <1>1, <2>1, ImportEffect DEF Gone
  <2> QED
    BY <1>1, <2>1, BookOrImport, GoneStays DEF BookInv
<1>2. BookInv /\ [ListNext]_allVars => [\A c \in Contacts : Gone(c) => Gone(c)']_vars
  BY <1>1
<1> QED
  BY <1>2, BookInvWithLists, PTL DEF ListSpec, GoneForGood

\* Nor a detail that is lost.
THEOREM DetailLostForGoodWithLists == ListSpec => LostForGood
<1>1. ASSUME BookInv, [ListNext]_allVars, NEW k \in Details, Lost(k)
      PROVE  Lost(k)'
  <2>1. ASSUME NEW u \in Users, NEW c \in Contacts, NEW row \in Patch,
               InsertContact(c, u, row), UNCHANGED <<cache, pc, job, held>>
        PROVE  Lost(k)'
    BY <1>1, <2>1, ImportEffect DEF Lost
  <2> QED
    BY <1>1, <2>1, BookOrImport, LostStays DEF BookInv
<1>2. BookInv /\ [ListNext]_allVars => [\A k \in Details : Lost(k) => Lost(k)']_vars
  BY <1>1
<1> QED
  BY <1>2, BookInvWithLists, PTL DEF ListSpec, LostForGood

\* Nor a tag that is gone.
THEOREM TagsDeletedForGoodWithLists == ListSpec => TagsStayGone
<1>1. ASSUME BookInv, [ListNext]_allVars, NEW t \in Tags, TagGone(t)
      PROVE  TagGone(t)'
  <2>1. ASSUME NEW u \in Users, NEW c \in Contacts, NEW row \in Patch,
               InsertContact(c, u, row), UNCHANGED <<cache, pc, job, held>>
        PROVE  TagGone(t)'
    BY <1>1, <2>1, ImportEffect DEF TagGone
  <2> QED
    BY <1>1, <2>1, BookOrImport, TagGoneStays DEF BookInv
<1>2. BookInv /\ [ListNext]_allVars => [\A t \in Tags : TagGone(t) => TagGone(t)']_vars
  BY <1>1
<1> QED
  BY <1>2, BookInvWithLists, PTL DEF ListSpec, TagsStayGone

\* Nor does a save of a fresh copy touch more than its own columns and tags.
THEOREM FreshSavesWithLists == ListSpec => FreshSaveIsExact
<1>1. ASSUME BookInv, [ListNext]_allVars, vars' # vars, NEW p \in Requests,
             pc[p] = "save", pc'[p] = "lookup", SavesFresh(p)
      PROVE  OwnChangeOnly(p)
  <2>1. pc' # pc
    BY <1>1
  <2> QED
    BY <1>1, <2>1, BookOrImport, FreshSaveStep DEF BookInv, vars
<1>2. BookInv /\ [ListNext]_allVars =>
         [\A p \in Requests :
            pc[p] = "save" /\ pc'[p] = "lookup" /\ SavesFresh(p) => OwnChangeOnly(p)]_vars
  BY <1>1
<1> QED
  BY <1>2, BookInvWithLists, PTL DEF ListSpec, FreshSaveIsExact

-----------------------------------------------------------------------------
(* Pages of a table at rest *)

\* A set of numbers that is not empty has a least one.
LEMMA LeastNumber ==
    ASSUME NEW T \in SUBSET Nat, T # {}
    PROVE  \E x \in T : \A y \in T : x <= y
<1>1. PICK x \in T : \A y \in T : <<y, x>> \notin OpToRel(<, Nat)
  BY NatLessThanWellFounded, WFMin
<1>2. \A y \in T : ~(y < x)
  BY <1>1 DEF OpToRel
<1> QED
  BY <1>2

LEMMA MultiplesGrow ==
    ASSUME NEW a \in Nat, NEW b \in Nat, NEW n \in Nat, a <= b
    PROVE  a * n <= b * n
OBVIOUS

LEMMA Quotient ==
    ASSUME NEW x \in Nat, NEW n \in Nat \ {0}
    PROVE  /\ x \div n \in Nat
           /\ (x \div n) * n <= x
           /\ x < (x \div n + 1) * n
OBVIOUS

\* n \div d rounded up exceeds k where k times d does not reach n.
LEMMA CeilDivExceeds ==
    ASSUME NEW x \in Nat, NEW n \in Nat \ {0}, NEW k \in Nat
    PROVE  CeilDiv(x, n) > k <=> x > k * n
<1> DEFINE y == x + n - 1
           q == y \div n
<1>1. y \in Nat
  OBVIOUS
<1> HIDE DEF y
<1>2. q \in Nat /\ q * n <= y /\ y < (q + 1) * n
  BY <1>1, Quotient
<1> HIDE DEF q
<1>3. q > k => y >= k * n + n
  <2>1. q >= k + 1 => (k + 1) * n <= q * n
    BY <1>2, MultiplesGrow
  <2>2. (k + 1) * n = k * n + n
    OBVIOUS
  <2>3. q * n \in Nat /\ k * n \in Nat
    BY <1>2
  <2> QED
    BY <1>1, <1>2, <2>1, <2>2, <2>3
<1>4. q <= k => y < k * n + n
  <2>1. q + 1 <= k + 1 => (q + 1) * n <= (k + 1) * n
    BY <1>2, MultiplesGrow
  <2>2. (k + 1) * n = k * n + n
    OBVIOUS
  <2>3. (q + 1) * n \in Nat /\ k * n \in Nat
    BY <1>2
  <2> QED
    BY <1>1, <1>2, <2>1, <2>2, <2>3
<1>5. y >= k * n + n <=> x > k * n
  <2>1. k * n \in Nat
    OBVIOUS
  <2> QED
    BY <2>1 DEF y
<1>6. q > k <=> y >= k * n + n
  BY <1>1, <1>2, <1>3, <1>4
<1> QED
  BY <1>5, <1>6 DEF CeilDiv, q, y
\* The place of a contact among ids, from 0.
Rank(ids, c) == Cardinality({d \in ids : d < c})

LEMMA RankType ==
    ASSUME NEW ids \in SUBSET Nat, IsFiniteSet(ids), NEW c \in ids
    PROVE  Rank(ids, c) \in Nat /\ Rank(ids, c) < Cardinality(ids)
<1> DEFINE below == {d \in ids : d < c}
<1>1. below \in SUBSET ids /\ c \notin below
  OBVIOUS
<1>2. Cardinality(below) <= Cardinality(ids) /\ Cardinality(below) # Cardinality(ids)
      /\ IsFiniteSet(below)
  BY <1>1, FS_Subset
<1>3. Cardinality(below) \in Nat /\ Cardinality(ids) \in Nat
  BY <1>2, FS_CardinalityType
<1> QED
  BY <1>2, <1>3 DEF Rank

\* No place is left empty: by the least rank that nothing has.
LEMMA EveryRank ==
    ASSUME NEW ids \in SUBSET Nat, IsFiniteSet(ids), NEW r \in Nat, r < Cardinality(ids)
    PROVE  \E c \in ids : Rank(ids, c) = r
<1> DEFINE Free == {i \in Nat : i < Cardinality(ids) /\ \A c \in ids : Rank(ids, c) # i}
<1>1. SUFFICES ASSUME Free # {}
               PROVE  FALSE
  OBVIOUS
<1>2. PICK i \in Free : \A j \in Free : i <= j
  BY <1>1, LeastNumber
<1>3. Cardinality(ids) \in Nat
  BY FS_CardinalityType
<1>4. CASE i = 0
  <2>1. ids # {}
    BY <1>2, <1>4, FS_EmptySet
  <2>2. PICK c \in ids : \A d \in ids : c <= d
    BY <2>1, LeastNumber
  <2>3. {d \in ids : d < c} = {}
    <3>1. \A d \in ids : ~(d < c)
      BY <2>2
    <3> QED
      BY <3>1
  <2>4. Rank(ids, c) = 0
    BY <2>3, FS_EmptySet DEF Rank
  <2> QED
    BY <1>2, <1>4, <2>4
<1>5. CASE i # 0
  <2>1. i - 1 \in Nat /\ i - 1 < Cardinality(ids) /\ i - 1 \notin Free
    BY <1>2, <1>3, <1>5
  <2>2. PICK c \in ids : Rank(ids, c) = i - 1
    BY <2>1
  <2> DEFINE upTo == {d \in ids : d < c} \cup {c}
             above == {d \in ids : d > c}
  <2>3. IsFiniteSet(upTo) /\ Cardinality(upTo) = i
    <3>1. IsFiniteSet({d \in ids : d < c}) /\ c \notin {d \in ids : d < c}
      BY FS_Subset
    <3>2. Cardinality(upTo) = Cardinality({d \in ids : d < c}) + 1 /\ IsFiniteSet(upTo)
      BY <3>1, FS_AddElement
    <3> QED
      BY <1>2, <2>2, <3>2 DEF Rank
  <2>4. above # {}
    <3>1. \A d \in ids : d < c \/ d = c \/ d > c
      OBVIOUS
    <3>2. above = {} => upTo = ids
      BY <3>1
    <3> QED
      BY <1>2, <1>3, <2>3, <3>2
  <2>5. PICK e \in above : \A d \in above : e <= d
    <3>1. above \in SUBSET Nat
      OBVIOUS
    <3> QED
      BY <2>4, <3>1, LeastNumber
  <2>6. {d \in ids : d < e} = upTo
    <3>1. e \in ids /\ c < e
      BY <2>5
    <3>2. \A d \in ids : d < e => d < c \/ d = c
      BY <2>5
    <3>3. \A d \in ids : d < c => d < e
      BY <3>1
    <3> QED
      BY <3>1, <3>2, <3>3
  <2> QED
    BY <1>2, <2>3, <2>5, <2>6 DEF Rank
<1> QED
  BY <1>4, <1>5

\* A contact's rank lies in one page.
LEMMA OnePage ==
    ASSUME NEW r \in Nat, NEW limit \in Nat \ {0}
    PROVE  \E page \in 1 .. r + 1 :
              \A k \in Nat \ {0} : r \in Skip(k, limit) .. Skip(k, limit) + limit - 1 <=> k = page
<1> DEFINE page == r \div limit + 1
<1>1. /\ r \div limit \in Nat
      /\ (r \div limit) * limit <= r
      /\ r < page * limit
  BY Quotient
<1>2. page \in Nat \ {0} /\ page - 1 \in Nat /\ (page - 1) * limit <= r
  BY <1>1
<1> HIDE DEF page
<1>3. page - 1 <= (page - 1) * limit
  <2>1. (page - 1) * 1 <= (page - 1) * limit
    BY <1>2
  <2> QED
    BY <1>2, <2>1
<1>4. page \in 1 .. r + 1
  <2>1. (page - 1) * limit \in Nat
    BY <1>2
  <2> QED
    BY <1>2, <1>3, <2>1
<1>5. ASSUME NEW k \in Nat \ {0}
      PROVE  r \in Skip(k, limit) .. Skip(k, limit) + limit - 1 <=> k = page
  <2>1. /\ (k - 1) * limit \in Nat /\ k * limit \in Nat
        /\ (page - 1) * limit \in Nat /\ page * limit \in Nat
        /\ k * limit = (k - 1) * limit + limit
        /\ page * limit = (page - 1) * limit + limit
    BY <1>2
  <2>2. k < page => k * limit <= (page - 1) * limit
    BY <1>2, MultiplesGrow
  <2>3. page < k => page * limit <= (k - 1) * limit
    BY <1>2, MultiplesGrow
  <2>4. r \in Skip(k, limit) .. Skip(k, limit) + limit - 1
          <=> (k - 1) * limit <= r /\ r < k * limit
    BY <2>1 DEF Skip
  <2> QED
    BY <1>1, <1>2, <2>1, <2>2, <2>3, <2>4
<1> QED
  BY <1>4, <1>5

\* The page of a query, and whether it says that another one follows.
LEMMA PageOf ==
    ASSUME NEW key, NEW ids \in SUBSET Nat, IsFiniteSet(ids), Matches(key) = ids,
           key.page \in Nat \ {0}, key.limit \in Nat \ {0}
    PROVE  /\ DOMAIN PageNow(key).data = Slice(ids, key.page, key.limit)
           /\ PageNow(key).next <=> Cardinality(ids) > key.page * key.limit
<1> DEFINE n == Cardinality(ids)
           k == key.page
           limit == key.limit
           skipped == Skip(k, limit)
<1>1. n \in Nat /\ k \in Nat \ {0} /\ limit \in Nat \ {0}
  BY FS_CardinalityType
<1>2. ~NoSuchPage(key)
  BY <1>1 DEF NoSuchPage
<1>3. skipped \in Nat /\ k * limit \in Nat /\ k * limit = skipped + limit
  BY <1>1 DEF Skip
<1>4. \A c \in ids : Rank(ids, c) \in Nat /\ Rank(ids, c) < n
  BY RankType
<1>5. Slice(ids, k, limit) = {c \in ids : Rank(ids, c) \in skipped .. skipped + limit - 1}
  BY DEF Slice, Rank
<1>6. CASE PastTheEnd(n, k, limit)
  <2>1. PageNow(key) = NoRows(n)
    BY <1>2, <1>6 DEF PageNow
  <2>2. DOMAIN PageNow(key).data = {} /\ PageNow(key).next = FALSE
    BY <2>1 DEF NoRows, Rows
  <2>3. n = 0 \/ skipped >= n
    BY <1>6 DEF PastTheEnd
  <2> HIDE DEF n, k, limit, skipped
  <2>4. ~(n > k * limit)
    BY <1>1, <1>3, <2>3
  <2>5. Slice(ids, k, limit) = {}
    <3>1. \A c \in ids : Rank(ids, c) \notin skipped .. skipped + limit - 1
      BY <1>1, <1>3, <1>4, <2>3
    <3> QED
      BY <1>5, <3>1
  <2> QED
    BY <2>2, <2>4, <2>5 DEF n, k, limit
<1>7. CASE ~PastTheEnd(n, k, limit)
  <2>1. PageNow(key) = Paginated(Rows(Slice(ids, k, limit)), n, k, limit)
    BY <1>2, <1>7 DEF PageNow
  <2>2. /\ DOMAIN PageNow(key).data = Slice(ids, k, limit)
        /\ PageNow(key).next = (CeilDiv(n, limit) > k)
    BY <2>1 DEF Paginated, Rows
  <2>3. CeilDiv(n, limit) > k <=> n > k * limit
    BY <1>1, CeilDivExceeds
  <2> QED
    BY <2>2, <2>3
<1> QED
  BY <1>6, <1>7

\* The pages of any number of contacts, of any size and with any gaps in the ids:
\* each contact is on one of them, and each page says truly whether one follows.
THEOREM WalksVisitAll ==
    ASSUME IsFiniteSet(Contacts)
    PROVE  ListSpec => []WalkVisitsAll
<1>1. ASSUME NEW u \in Users, NEW limit \in 1 .. Cardinality(Contacts) + 1
      PROVE  WalkVisitsAll!(u, limit)
  <2> DEFINE Key(k) == [user |-> u, page |-> k, limit |-> limit, search |-> None, type |-> None]
             ids == Matching(u, None, None)
             Pages == 1 .. Cardinality(Contacts) + 1
             n == Cardinality(ids)
  <2>1. /\ ids \in SUBSET Nat
        /\ IsFiniteSet(ids)
        /\ n \in Nat /\ Cardinality(Contacts) \in Nat
        /\ n <= Cardinality(Contacts)
        /\ limit \in Nat \ {0}
    <3>1. ids \in SUBSET Contacts
      BY DEF Matching
    <3>2. IsFiniteSet(ids) /\ n <= Cardinality(Contacts)
      BY <3>1, FS_Subset
    <3>3. n \in Nat /\ Cardinality(Contacts) \in Nat
      BY <3>2, FS_CardinalityType
    <3>4. limit \in Nat \ {0}
      BY <3>3
    <3> HIDE DEF ids
    <3>5. ids \in SUBSET Nat
      BY <3>1, IdsAssumption
    <3> QED
      BY <3>2, <3>3, <3>4, <3>5
  <2>2. ASSUME NEW k \in Nat \ {0}
        PROVE  /\ DOMAIN PageNow(Key(k)).data = Slice(ids, k, limit)
               /\ PageNow(Key(k)).next <=> n > k * limit
    <3>1. Matches(Key(k)) = ids
      BY DEF Matches
    <3>2. Key(k).page = k /\ Key(k).limit = limit
      OBVIOUS
    <3> HIDE DEF Key, ids
    <3> QED
      BY <2>1, <3>1, <3>2, PageOf
  <2>3. ASSUME NEW k \in Nat \ {0}
        PROVE  Slice(ids, k, limit) = {c \in ids : Rank(ids, c) \in Skip(k, limit) .. Skip(k, limit) + limit - 1}
    BY DEF Slice, Rank
  <2> HIDE DEF Key, ids, n
  <2>4. ASSUME NEW c \in ids
        PROVE  Cardinality({k \in Pages : c \in DOMAIN PageNow(Key(k)).data}) = 1
    <3>1. Rank(ids, c) \in Nat /\ Rank(ids, c) < n
      BY <2>1, RankType DEF n
    <3>2. PICK page \in 1 .. Rank(ids, c) + 1 :
             \A k \in Nat \ {0} :
                Rank(ids, c) \in Skip(k, limit) .. Skip(k, limit) + limit - 1 <=> k = page
      BY <2>1, <3>1, OnePage
    <3>3. page \in Pages /\ Pages \in SUBSET (Nat \ {0})
      BY <2>1, <3>1, <3>2
    <3>4. \A k \in Pages : c \in DOMAIN PageNow(Key(k)).data <=> k = page
      BY <2>2, <2>3, <3>2, <3>3
    <3>5. {k \in Pages : c \in DOMAIN PageNow(Key(k)).data} = {page}
      BY <3>3, <3>4
    <3> QED
      BY <3>5, FS_Singleton
  <2>5. ASSUME NEW k \in Pages
        PROVE  PageNow(Key(k)).next <=> DOMAIN PageNow(Key(k + 1)).data # {}
    <3>1. k \in Nat \ {0} /\ k + 1 \in Nat \ {0}
      BY <2>1
    <3>2. /\ PageNow(Key(k)).next <=> n > k * limit
          /\ DOMAIN PageNow(Key(k + 1)).data
                = {c \in ids : Rank(ids, c) \in Skip(k + 1, limit) .. Skip(k + 1, limit) + limit - 1}
      BY <2>2, <2>3, <3>1
    <3>3. Skip(k + 1, limit) = k * limit /\ k * limit \in Nat
      BY <2>1, <3>1 DEF Skip
    <3>4. \A c \in ids : Rank(ids, c) \in Nat /\ Rank(ids, c) < n
      BY <2>1, RankType DEF n
    <3>5. CASE n > k * limit
      <4>1. PICK c \in ids : Rank(ids, c) = k * limit
        BY <2>1, <3>3, <3>5, EveryRank DEF n
      <4>2. Rank(ids, c) \in Skip(k + 1, limit) .. Skip(k + 1, limit) + limit - 1
        BY <2>1, <3>3, <4>1
      <4> QED
        BY <3>2, <3>5, <4>2
    <3>6. CASE ~(n > k * limit)
      <4>1. \A c \in ids : Rank(ids, c) \notin Skip(k + 1, limit) .. Skip(k + 1, limit) + limit - 1
        BY <2>1, <3>3, <3>4, <3>6
      <4> QED
        BY <3>2, <3>6, <4>1
    <3> QED
      BY <3>5, <3>6
  <2> QED
    BY <2>4, <2>5 DEF Key, ids
<1>2. WalkVisitsAll
  BY <1>1 DEF WalkVisitsAll
<1> QED
  BY <1>2, PTL

-----------------------------------------------------------------------------
(***************************************************************************)
(* Lists of tables at rest.  As with the contact routes, fairness says     *)
(* that the event loop resumes the requests and that the timers fire.      *)
(***************************************************************************)

\* The awaits of a list request before its answer, and the answer.
ListLeft(l) ==
    CASE lpc[l] = "idle" -> 0
      [] lpc[l] = "reply" -> 1
      [] lpc[l] = "store" -> 2
      [] lpc[l] = "find" -> 3
      [] lpc[l] = "count" -> 4
      [] lpc[l] = "lookup" -> 5

LEMMA ListLeftType ==
    ASSUME ListInv, NEW l \in Listers
    PROVE  /\ ListTypeOK
           /\ ListLeft(l) \in 0 .. 5
           /\ lpc[l] = "idle" <=> ListLeft(l) = 0
<1>1. ListTypeOK
  BY DEF ListInv
<1>2. lpc[l] \in ListPlaces
  BY <1>1 DEF ListTypeOK
<1> QED
  BY <1>1, <1>2 DEF ListPlaces, ListLeft

LEMMA ListStepsDraw ==
    ASSUME ListTypeOK, NEW l \in Listers, ListStep(l)
    PROVE  ListLeft(l)' \in 0 .. 5 /\ ListLeft(l)' < ListLeft(l)
<1>1. \A place : ListGoto(l, place) => lpc'[l] = place
  BY DEF ListGoto, ListTypeOK
<1>2. lpc[l] \in ListPlaces
  BY DEF ListTypeOK
<1>3. \/ lpc[l] \in {"lookup", "count", "find", "store"} /\ lpc'[l] = "idle"
      \/ lpc[l] = "lookup" /\ lpc'[l] \in {"reply", "store", "count"}
      \/ lpc[l] = "count" /\ lpc'[l] \in {"find", "store"}
      \/ lpc[l] = "find" /\ lpc'[l] = "store"
      \/ lpc[l] = "store" /\ lpc'[l] = "reply"
      \/ lpc[l] = "reply" /\ lpc'[l] = "idle"
  BY <1>1, <1>2
  DEF ListStep, ListHit, ListMiss, Count, Find, StorePage, ListReply, ListFails, ListPlaces
<1> QED
  BY <1>3 DEF ListLeft

\* The others leave list request l alone.
LEMMA OwnListSteps ==
    ASSUME ListTypeOK, [ListNext]_allVars, NEW l \in Listers
    PROVE  \/ lpc'[l] = lpc[l] /\ ask'[l] = ask[l] /\ answer'[l] = answer[l]
           \/ lpc[l] = "idle" /\ lpc'[l] = "lookup"
           \/ ListStep(l)
<1> DEFINE Kept == lpc'[l] = lpc[l] /\ ask'[l] = ask[l] /\ answer'[l] = answer[l]
<1>0. /\ lpc \in [Listers -> ListPlaces]
      /\ ask \in [Listers -> (Users \X Queries) \cup {None}]
      /\ answer \in [Listers -> Page \cup {None}]
  BY DEF ListTypeOK
<1>1. ASSUME NEW m \in Listers, ListStep(m), m # l
      PROVE  Kept
  <2>1. \A place : ListGoto(m, place) => lpc'[l] = lpc[l]
    BY <1>0, <1>1 DEF ListGoto
  <2> QED
    BY <1>0, <1>1, <2>1
    DEF ListStep, ListHit, ListMiss, Count, Find, StorePage, ListReply, ListFails
<1>2. ASSUME NEW m \in Listers, NEW u \in Users, NEW q \in Queries, FindAll(m, u, q)
      PROVE  Kept \/ (lpc[l] = "idle" /\ lpc'[l] = "lookup")
  BY <1>0, <1>2 DEF FindAll, ListGoto
<1> QED
  BY <1>1, <1>2, ListMoves

LEMMA OneListAwaitFewer ==
    ASSUME NEW l \in Listers, NEW n \in Nat, NEW m \in Nat, n = m + 1
    PROVE  ListSpec /\ ([]<>(lpc[l] = "idle") \/ []<><<ListStep(l)>>_allVars)
           => (ListLeft(l) <= n ~> ListLeft(l) <= m)
<1> DEFINE More == ListLeft(l) <= n
           Fewer == ListLeft(l) <= m
           Idle == lpc[l] = "idle"
<1>1. ASSUME ListInv, [ListNext]_allVars, More, ~Idle
      PROVE  More'
  <2>1. ListTypeOK /\ ListLeft(l) \in 0 .. 5
    BY <1>1, ListLeftType
  <2>2. CASE lpc'[l] = lpc[l]
    BY <1>1, <2>2 DEF ListLeft
  <2>3. CASE ListStep(l)
    BY <1>1, <2>1, <2>3, ListStepsDraw
  <2> QED
    BY <1>1, <2>1, <2>2, <2>3, OwnListSteps
<1>2. ASSUME ListInv, ListStep(l), More
      PROVE  Fewer'
  <2>1. ListTypeOK /\ ListLeft(l) \in 0 .. 5
    BY <1>2, ListLeftType
  <2> QED
    BY <1>2, <2>1, ListStepsDraw
<1>3. ListInv /\ Idle => Fewer
  BY ListLeftType
<1> HIDE DEF More, Fewer, Idle
<1>4. /\ ListInv /\ [ListNext]_allVars /\ More /\ ~Idle => More'
      /\ ListInv /\ <<ListStep(l)>>_allVars /\ More => Fewer'
  BY <1>1, <1>2
<1>5. ListSpec /\ ([]<>Idle \/ []<><<ListStep(l)>>_allVars) => (More ~> Fewer)
  BY <1>3, <1>4, ListInvariant, PTL DEF ListSpec
<1> QED
  BY <1>5, PTL DEF More, Fewer, Idle

\* The event loop resumes list request l.
ListResumed(l) == []<>(lpc[l] = "idle") \/ []<><<ListStep(l)>>_allVars

\* Every list request that is resumed ends.
THEOREM ListRequestsEnd ==
    \A l \in Listers : ListSpec /\ ListResumed(l) => (lpc[l] # "idle" ~> lpc[l] = "idle")
<1>1. ASSUME NEW l \in Listers
      PROVE  ListSpec /\ ListResumed(l) => (lpc[l] # "idle" ~> lpc[l] = "idle")
  <2> DEFINE Falls(n, m) ==
               ListSpec /\ ListResumed(l) => (ListLeft(l) <= n ~> ListLeft(l) <= m)
  <2>1. \A n, m \in Nat : n = m + 1 => Falls(n, m)
    BY OneListAwaitFewer DEF ListResumed
  <2> HIDE DEF Falls
  <2>2. Falls(5, 4) /\ Falls(4, 3) /\ Falls(3, 2) /\ Falls(2, 1) /\ Falls(1, 0)
    BY <2>1
  <2>3. ListInv => ListLeft(l) <= 5 /\ (ListLeft(l) <= 0 => lpc[l] = "idle")
    BY ListLeftType
  <2> QED
    BY <2>2, <2>3, ListInvariant, PTL DEF Falls
<1> QED
  BY <1>1

\* What list request l has found so far, it would find again.
PageCurrent(l) ==
    LET key == KeyFor(l)
        total == Cardinality(Matches(key)) IN
    /\ lpc[l] = "find" => /\ answer[l] = NoRows(total)
                          /\ ~PastTheEnd(total, key.page, key.limit)
    /\ lpc[l] = "store" => answer[l] = PageNow(key)

LEMMA RestKeepsPages ==
    ASSUME UNCHANGED tables
    PROVE  \A key : Matches(key)' = Matches(key) /\ PageNow(key)' = PageNow(key)
<1>1. contact' = contact /\ detail' = detail /\ tag' = tag
  BY DEF tables
<1>2. \A key : Matches(key)' = Matches(key)
  BY <1>1 DEF Matches, Matching, ContactVisible, FoundIn, DetailsOf, TagsOf
<1>3. \A ids : Rows(ids)' = Rows(ids)
  BY <1>1 DEF Rows
<1>4. \A total : NoRows(total)' = NoRows(total)
  BY <1>3 DEF NoRows
<1> QED
  BY <1>2, <1>3, <1>4 DEF PageNow

LEMMA PagesStayCurrent ==
    ASSUME ListInv, [ListNext]_allVars, UNCHANGED tables, NEW l \in Listers, PageCurrent(l)
    PROVE  PageCurrent(l)'
<1> DEFINE key == KeyFor(l)
           ids == Matches(key)
           total == Cardinality(ids)
<1>0. /\ ListTypeOK
      /\ lpc[l] \in {"count", "find"} => ~NoSuchPage(key)
      /\ \A place : ListGoto(l, place) => lpc'[l] = place
  BY DEF ListInv, ListTypeOK, PageAsked, ListGoto
<1>1. \A k : Matches(k)' = Matches(k) /\ PageNow(k)' = PageNow(k)
  BY RestKeepsPages
<1>2. \A n : NoRows(n)' = NoRows(n)
  BY DEF tables, NoRows, Rows
<1>3. CASE lpc'[l] = lpc[l] /\ ask'[l] = ask[l] /\ answer'[l] = answer[l]
  <2>1. key' = key
    BY <1>3 DEF KeyFor
  <2> QED
    BY <1>1, <1>2, <1>3, <2>1 DEF PageCurrent
<1>4. CASE lpc'[l] \notin {"find", "store"}
  BY <1>4 DEF PageCurrent
<1>5. CASE ListMiss(l) /\ NoSuchPage(key)
  <2>1. /\ key' = key /\ lpc'[l] = "store"
        /\ answer'[l] = NoRows(0)
    BY <1>0, <1>5 DEF ListMiss, KeyFor, ListTypeOK
  <2>2. PageNow(key) = NoRows(0)
    BY <1>5 DEF PageNow
  <2> QED
    BY <1>1, <2>1, <2>2 DEF PageCurrent
<1>6. CASE Count(l)
  <2>1. /\ key' = key /\ answer'[l] = NoRows(total)
        /\ lpc'[l] = IF PastTheEnd(total, key.page, key.limit) THEN "store" ELSE "find"
    BY <1>0, <1>6 DEF Count, KeyFor, ListTypeOK
  <2>2. PastTheEnd(total, key.page, key.limit) => PageNow(key) = NoRows(total)
    BY <1>0, <1>6 DEF Count, PageNow
  <2> QED
    BY <1>1, <1>2, <2>1, <2>2 DEF PageCurrent
<1>7. CASE Find(l)
  <2>1. /\ key' = key /\ lpc'[l] = "store"
        /\ answer'[l] = Paginated(Rows(Slice(ids, key.page, key.limit)), answer[l].total,
                                  key.page, key.limit)
    BY <1>0, <1>7 DEF Find, KeyFor, ListTypeOK
  <2>2. /\ answer[l].total = total
        /\ ~PastTheEnd(total, key.page, key.limit) /\ ~NoSuchPage(key)
    BY <1>0, <1>7 DEF Find, PageCurrent, NoRows
  <2>3. PageNow(key) = Paginated(Rows(Slice(ids, key.page, key.limit)), total,
                                 key.page, key.limit)
    BY <2>2 DEF PageNow
  <2> QED
    BY <1>1, <2>1, <2>2, <2>3 DEF PageCurrent
<1>8. ListStep(l) => \/ lpc'[l] \notin {"find", "store"}
                     \/ ListMiss(l) /\ NoSuchPage(key)
                     \/ Count(l) \/ Find(l)
  BY <1>0 DEF ListStep, ListHit, ListMiss, StorePage, ListReply, ListFails
<1> QED
  BY <1>0, <1>3, <1>4, <1>5, <1>6, <1>7, <1>8, OwnListSteps

\* The cached page of a key is what an undisturbed request would answer.
EntryIsNow(key) == lists[key] # None => lists[key] = PageNow(key)

LEMMA ListEntriesStayCurrent ==
    ASSUME ListInv, [ListNext]_allVars, UNCHANGED tables,
           \A l \in Listers : PageCurrent(l), NEW key \in Keys, EntryIsNow(key)
    PROVE  EntryIsNow(key)'
<1>1. PageNow(key)' = PageNow(key)
  BY RestKeepsPages
<1>2. lists \in [Keys -> Page \cup {None}]
  BY DEF ListInv, ListTypeOK
<1>3. lists'[key] \in {lists[key], None, PageNow(key)}
  <2>1. ASSUME NEW l \in Listers, ListStep(l)
        PROVE  lists'[key] = lists[key] \/ lists'[key] = PageNow(key)
    <3>1. CASE StorePage(l)
      <4>1. answer[l] = PageNow(KeyFor(l))
        BY <3>1 DEF StorePage, PageCurrent
      <4> QED
        BY <1>2, <3>1, <4>1 DEF StorePage
    <3> QED
      BY <2>1, <3>1 DEF ListStep, ListHit, ListMiss, Count, Find, ListReply, ListFails
  <2>2. ASSUME NEW l \in Listers, NEW u \in Users, NEW q \in Queries, FindAll(l, u, q)
        PROVE  lists'[key] = lists[key]
    BY <2>2 DEF FindAll
  <2> QED
    BY <1>2, <2>1, <2>2, ListMoves
<1> QED
  BY <1>1, <1>3 DEF EntryIsNow

\* When the tables rest, a list request that is resumed comes to store current pages
\* only, though it counts, finds and stores in three awaits.
THEOREM PagesCatchUp ==
    \A l \in Listers :
        ListSpec /\ ListResumed(l) /\ <>[][FALSE]_tables => <>[]PageCurrent(l)
<1>1. ASSUME NEW l \in Listers
      PROVE  ListSpec /\ ListResumed(l) /\ <>[][FALSE]_tables => <>[]PageCurrent(l)
  <2> DEFINE Idle == lpc[l] = "idle"
             Pages == PageCurrent(l)
  <2>1. Idle => Pages
    BY DEF PageCurrent
  <2>2. ListInv /\ [ListNext]_allVars /\ [FALSE]_tables /\ Pages => Pages'
    BY PagesStayCurrent
  <2>3. ListSpec /\ ListResumed(l) => (lpc[l] # "idle" ~> Idle)
    BY ListRequestsEnd
  <2>4. lpc[l] # "idle" \/ Idle
    OBVIOUS
  <2> HIDE DEF Idle, Pages
  <2>5. ListSpec /\ ListResumed(l) => []<>Idle
    BY <2>3, <2>4, PTL
  <2>6. ListSpec /\ ListResumed(l) /\ <>[][FALSE]_tables => <>[]Pages
    BY <2>1, <2>2, <2>5, ListInvariant, PTL DEF ListSpec
  <2> QED
    BY <2>6 DEF Pages
<1> QED
  BY <1>1

\* The timer of the cached page of key fires.
PageExpires(key) == []<>(lists[key] = None) \/ []<><<ExpirePage(key)>>_allVars

\* ... and then the cached page of every key whose timer fires catches up too.
THEOREM ListEntriesCatchUp ==
    \A key \in Keys :
        ListSpec /\ PageExpires(key) /\ <>[][FALSE]_tables
        /\ <>[](\A l \in Listers : PageCurrent(l)) => <>[]EntryIsNow(key)
<1>1. ASSUME NEW key \in Keys
      PROVE  ListSpec /\ PageExpires(key) /\ <>[][FALSE]_tables
             /\ <>[](\A l \in Listers : PageCurrent(l)) => <>[]EntryIsNow(key)
  <2> DEFINE Pages == \A l \in Listers : PageCurrent(l)
             Now == EntryIsNow(key)
  <2>1. lists[key] = None => Now
    BY DEF EntryIsNow
  <2>2. ListInv /\ ExpirePage(key) => Now'
    BY DEF ListInv, ListTypeOK, ExpirePage, EntryIsNow
  <2>3. ListInv /\ [ListNext]_allVars /\ [FALSE]_tables /\ Pages /\ Now => Now'
    BY ListEntriesStayCurrent
  <2> HIDE DEF Pages, Now
  <2>4. ListSpec /\ PageExpires(key) /\ <>[][FALSE]_tables /\ <>[]Pages => <>[]Now
    BY <2>1, <2>2, <2>3, ListInvariant, PTL DEF ListSpec, PageExpires
  <2> QED
    BY <2>4 DEF Pages, Now
<1> QED
  BY <1>1

=============================================================================
