----------------------------- MODULE Files_proofs -----------------------------
(***************************************************************************)
(* Proofs about Files: the type invariant, and that storage and table      *)
(* agree on every file no upload or removal was cut short on.              *)
(***************************************************************************)
EXTENDS Files, TLAPS

\* Request p is about file f.
On(p, f) == pc[p] # "idle" /\ File(p) = f

Uploading(p, f) == pc[p] \in {"store", "insert"} /\ File(p) = f

Deleting(f) == \E p \in Requests : pc[p] = "delete" /\ File(p) = f

\* A file on its way in has no row yet, and nobody else brings it in.
UploadsAlone ==
    \A p \in Requests, f \in FileIds : Uploading(p, f) =>
        /\ row[f].state = "absent"
        /\ pc[p] = "insert" <=> f \in stored
        /\ \A q \in Requests : Uploading(q, f) => q = p

\* A removal that has found the row has a row.
RemovalsHaveRows ==
    \A p \in Requests : pc[p] \in {"take", "delete"} => row[File(p)].state # "absent"

\* StorageMatchesTable, with the files that requests are busy with.
StorageFollowsTable ==
    \A f \in FileIds \ cut :
        /\ row[f].state = "absent" /\ f \in stored =>
              \E p \in Requests : pc[p] = "insert" /\ File(p) = f
        /\ row[f].state = "live" => (f \in stored /\ unlinks[f] = 0) \/ Deleting(f)
        /\ driver = "local" /\ (row[f].state = "deleted" \/ Deleting(f)) =>
              f \notin stored \/ unlinks[f] > 0

\* NothingMissing, with what leads up to an unlink or an open.
AloneUnlessMet ==
    \A f \in FileIds \ met :
        /\ unlinks[f] <= 1
        /\ \A p, q \in Requests : On(p, f) /\ On(q, f) => p = q
        /\ \A p \in Requests : On(p, f) /\ pc[p] \notin {"delete", "reply"} => unlinks[f] = 0
        /\ f \notin cut =>
              /\ unlinks[f] > 0 => f \in stored
              /\ \A p \in Requests : On(p, f) =>
                    /\ pc[p] = "take" => row[f].state = "live"
                    /\ pc[p] = "open" => Found(f)

FilesInv ==
    /\ FilesTypeOK
    /\ UploadsAlone
    /\ RemovalsHaveRows
    /\ StorageFollowsTable
    /\ AloneUnlessMet

-----------------------------------------------------------------------------
(* Types *)

\* A request under way has a user and a file.
LEMMA JobUnderWay ==
    ASSUME FilesTypeOK, NEW p \in Requests, pc[p] # "idle"
    PROVE  job[p] \in [user : Users, file : FileIds] /\ File(p) \in FileIds
BY DEF FilesTypeOK, File

LEMMA InitFiles == Init => FilesInv
<1> SUFFICES ASSUME Init
             PROVE  FilesInv
  OBVIOUS
<1>1. FilesTypeOK
  BY FilesAssumption DEF Init, FilesTypeOK, Row, Places
<1>2. UploadsAlone /\ RemovalsHaveRows
  BY DEF Init, UploadsAlone, RemovalsHaveRows, Uploading
<1>3. StorageFollowsTable /\ AloneUnlessMet
  BY DEF Init, StorageFollowsTable, AloneUnlessMet, Deleting, On
<1> QED
  BY <1>1, <1>2, <1>3 DEF FilesInv

\* Upload, Remove and Download.
LEMMA ArriveType ==
    ASSUME FilesTypeOK, NEW p \in Requests, NEW u \in Users, NEW f \in FileIds,
           NEW place \in {"store", "find", "look"}, Arrive(p, u, f, place)
    PROVE  FilesTypeOK'
BY NoneAssumption DEF FilesTypeOK, Arrive, Goto, Places

\* A step of p within its request that leaves storage and table alone.
LEMMA MoveType ==
    ASSUME FilesTypeOK, NEW p \in Requests, NEW place \in Places \ {"idle"}, pc[p] # "idle",
           Goto(p, place), cut' \subseteq FileIds,
           UNCHANGED <<driver, start, row, stored, unlinks, job, met>>
    PROVE  FilesTypeOK'
BY DEF FilesTypeOK, Goto

LEMMA FailsType ==
    ASSUME FilesTypeOK, NEW p \in Requests, Fails(p)
    PROVE  FilesTypeOK'
<1>1. pc[p] # "idle" /\ File(p) \in FileIds
  BY JobUnderWay DEF Fails
<1> QED
  BY <1>1, MoveType DEF Fails, FilesTypeOK, Places

LEMMA RestartType ==
    ASSUME FilesTypeOK, Restart
    PROVE  FilesTypeOK'
BY DEF FilesTypeOK, Restart, Places

\* The steps that change the table, the storage or the unlinks.
LEMMA StatementsType ==
    ASSUME FilesTypeOK, RemovalsHaveRows, NEW p \in Requests,
           Store(p) \/ Insert(p) \/ TakeLocal(p) \/ SoftDelete(p)
    PROVE  FilesTypeOK'
<1> DEFINE f == File(p)
<1>1. pc[p] # "idle" /\ job[p].user \in Users /\ f \in FileIds
  BY JobUnderWay DEF Store, Insert, TakeLocal, SoftDelete
<1>2. CASE Store(p)
  BY <1>1, <1>2 DEF FilesTypeOK, Store, Goto, Places
<1>3. CASE Insert(p)
  BY <1>1, <1>3, NoneAssumption DEF FilesTypeOK, Insert, Goto, Places, Row
<1>4. CASE TakeLocal(p)
  BY <1>1, <1>4 DEF FilesTypeOK, TakeLocal, Goto, Places, RemovalsHaveRows
<1>5. CASE SoftDelete(p)
  BY <1>1, <1>5 DEF FilesTypeOK, SoftDelete, Goto, Places, Row, RemovalsHaveRows
<1> QED
  BY <1>2, <1>3, <1>4, <1>5

LEMMA UnlinkedType ==
    ASSUME FilesTypeOK, NEW f \in FileIds, Unlinked(f)
    PROVE  FilesTypeOK'
BY DEF FilesTypeOK, Unlinked

-----------------------------------------------------------------------------
(* The steps that leave storage and table alone *)

LEMMA ArriveKeeps ==
    ASSUME FilesInv, NEW p \in Requests, NEW u \in Users, NEW f \in FileIds,
           NEW place \in {"store", "find", "look"}, Arrive(p, u, f, place),
           place = "store" => row[f].state = "absent" /\ f \notin stored /\ ~Busy(f)
    PROVE  FilesInv'
<1>1. FilesTypeOK /\ FilesTypeOK'
  BY ArriveType DEF FilesInv
<1>2. /\ pc[p] = "idle" /\ pc'[p] = place /\ File(p)' = f
      /\ \A q \in Requests \ {p} : pc'[q] = pc[q] /\ File(q)' = File(q)
      /\ UNCHANGED <<driver, start, row, stored, unlinks, cut>>
  BY <1>1 DEF Arrive, Goto, FilesTypeOK, File
<1>3. \A q \in Requests, g \in FileIds :
         /\ pc'[q] \in {"insert", "take", "delete", "open", "reply"} => q # p
         /\ On(q, g)' => (q # p /\ On(q, g)) \/ (q = p /\ g = f)
  BY <1>2 DEF On
<1>4. UploadsAlone'
  BY <1>2 DEF FilesInv, UploadsAlone, Uploading, Busy
<1>5. RemovalsHaveRows'
  BY <1>2, <1>3 DEF FilesInv, RemovalsHaveRows
<1>6. StorageFollowsTable'
  BY <1>2, <1>3 DEF FilesInv, StorageFollowsTable, Deleting
<1>7. AloneUnlessMet'
  <2> SUFFICES ASSUME NEW g \in FileIds \ met'
               PROVE  AloneUnlessMet!(g)'
    BY DEF AloneUnlessMet
  <2>1. CASE g = f
    <3>1. ~Busy(f) /\ g \notin met
      BY <2>1 DEF Arrive
    <3>2. \A q \in Requests : On(q, f)' => q = p
      BY <1>2, <3>1 DEF On, Busy
    <3>3. unlinks[f] = 0
      BY <1>1, <3>1 DEF Busy, FilesTypeOK
    <3> QED
      BY <1>2, <2>1, <3>2, <3>3
  <2>2. CASE g # f
    <3>1. g \notin met
      BY DEF Arrive
    <3> QED
      BY <1>2, <1>3, <2>2, <3>1 DEF FilesInv, AloneUnlessMet, Found
  <2> QED
    BY <2>1, <2>2
<1> QED
  BY <1>1, <1>4, <1>5, <1>6, <1>7 DEF FilesInv

\* Find, TakeS3, Look, Open, Fails and Reply.
LEMMA MoveKeeps ==
    ASSUME FilesInv, FilesTypeOK', NEW p \in Requests,
           pc[p] # "idle", pc'[p] \in {"take", "delete", "open", "reply", "idle"},
           \A q \in Requests \ {p} : pc'[q] = pc[q] /\ File(q)' = File(q),
           pc'[p] # "idle" => File(p)' = File(p),
           pc'[p] = "take" => pc[p] = "find" /\ row[File(p)].state = "live",
           pc'[p] = "delete" => pc[p] = "take" /\ driver = "s3",
           pc'[p] = "open" => pc[p] = "look" /\ Found(File(p)),
           pc[p] \in {"insert", "delete"} => File(p) \in cut',
           cut \subseteq cut',
           UNCHANGED <<driver, start, row, stored, unlinks, met>>
    PROVE  FilesInv'
<1>1. FilesTypeOK /\ File(p) \in FileIds
  BY JobUnderWay DEF FilesInv
<1>2. \A q \in Requests, g \in FileIds :
         /\ On(q, g)' => On(q, g)
         /\ Uploading(q, g)' => Uploading(q, g) /\ pc'[q] = pc[q]
         /\ pc'[q] = "delete" => File(q)' = File(q)
  BY DEF On, Uploading
<1>3. \A g \in FileIds : Deleting(g)' => Deleting(g) \/ (pc'[p] = "delete" /\ g = File(p))
  BY DEF Deleting
<1>4. \A g \in FileIds \ cut' : Deleting(g) => Deleting(g)'
  BY DEF Deleting
<1>5. UploadsAlone'
  BY <1>2 DEF FilesInv, UploadsAlone
<1>6. RemovalsHaveRows'
  BY DEF FilesInv, RemovalsHaveRows
<1>7. StorageFollowsTable'
  <2>1. \A g \in FileIds \ cut' : (\E q \in Requests : pc[q] = "insert" /\ File(q) = g)
           => \E q \in Requests : (pc[q] = "insert" /\ File(q) = g)'
    OBVIOUS
  <2>2. pc'[p] = "delete" => driver = "s3"
    OBVIOUS
  <2> QED
    BY <1>3, <1>4, <2>1, <2>2 DEF FilesInv, StorageFollowsTable
<1>8. AloneUnlessMet'
  BY <1>2 DEF FilesInv, AloneUnlessMet, Found, On
<1> QED
  BY <1>5, <1>6, <1>7, <1>8 DEF FilesInv

\* Requests at an end, in a reply, a refusal or a failure, move alike.
LEMMA MovesKeep ==
    ASSUME FilesInv, NEW p \in Requests,
           Find(p) \/ TakeS3(p) \/ Look(p) \/ Open(p) \/ Fails(p)
    PROVE  FilesInv'
<1>1. FilesTypeOK /\ pc[p] # "idle" /\ pc'[p] \in {"take", "delete", "open", "reply"}
  BY DEF FilesInv, FilesTypeOK, Find, TakeS3, Look, Open, Fails, Goto
<1>2. FilesTypeOK'
  BY <1>1, MoveType, FailsType DEF Find, TakeS3, Look, Open, Places, FilesTypeOK
<1>3. /\ \A q \in Requests \ {p} : pc'[q] = pc[q]
      /\ UNCHANGED <<driver, start, row, stored, unlinks, job, met>>
  BY <1>1 DEF FilesTypeOK, Find, TakeS3, Look, Open, Fails, Goto
<1>4. \A q \in Requests : File(q)' = File(q)
  BY <1>3 DEF File
<1>5. /\ pc'[p] = "take" => pc[p] = "find" /\ row[File(p)].state = "live"
      /\ pc'[p] = "delete" => pc[p] = "take" /\ driver = "s3"
      /\ pc'[p] = "open" => pc[p] = "look" /\ Found(File(p))
      /\ pc[p] \in {"insert", "delete"} => File(p) \in cut'
      /\ cut \subseteq cut'
  BY <1>1 DEF FilesTypeOK, Find, TakeS3, Look, Open, Fails, Goto, HalfWay
<1> QED
  BY <1>1, <1>2, <1>3, <1>4, <1>5, MoveKeeps

LEMMA ReplyKeeps ==
    ASSUME FilesInv, NEW p \in Requests, Reply(p)
    PROVE  FilesInv'
<1>1. FilesTypeOK /\ FilesTypeOK'
  BY DEF FilesInv, FilesTypeOK, Reply, Goto, Places
<1>2. /\ pc[p] = "reply" /\ pc'[p] = "idle"
      /\ \A q \in Requests \ {p} : pc'[q] = pc[q] /\ File(q)' = File(q)
      /\ UNCHANGED <<driver, start, row, stored, unlinks, cut, met>>
  BY <1>1 DEF Reply, Goto, FilesTypeOK, File
<1> QED
  BY <1>1, <1>2, MoveKeeps

-----------------------------------------------------------------------------
(* The steps that change the storage, the table or the unlinks *)

\* Only one request moves, with its file, and nobody joins or leaves a file.
OnlyMoves(p) ==
    /\ FilesTypeOK /\ FilesTypeOK'
    /\ pc[p] # "idle" /\ pc'[p] # "idle" /\ File(p) \in FileIds
    /\ \A q \in Requests \ {p} : pc'[q] = pc[q]
    /\ \A q \in Requests : File(q)' = File(q)
    /\ UNCHANGED <<driver, start, cut, met>>

LEMMA StatementsMove ==
    ASSUME FilesInv, NEW p \in Requests,
           Store(p) \/ Insert(p) \/ TakeLocal(p) \/ SoftDelete(p)
    PROVE  OnlyMoves(p)
<1>1. FilesTypeOK /\ FilesTypeOK' /\ pc[p] # "idle"
  BY StatementsType DEF FilesInv, Store, Insert, TakeLocal, SoftDelete
<1> QED
  BY <1>1, JobUnderWay
  DEF OnlyMoves, Store, Insert, TakeLocal, SoftDelete, Goto, FilesTypeOK, File

LEMMA StoreKeeps ==
    ASSUME FilesInv, NEW p \in Requests, Store(p)
    PROVE  FilesInv'
<1> DEFINE f == File(p)
<1>1. OnlyMoves(p)
  BY StatementsMove
<1>2. /\ pc[p] = "store" /\ pc'[p] = "insert" /\ stored' = stored \cup {f}
      /\ UNCHANGED <<row, unlinks>>
  BY <1>1 DEF Store, Goto, OnlyMoves, FilesTypeOK
<1>3. row[f].state = "absent" /\ f \in FileIds
  BY <1>1, <1>2 DEF FilesInv, UploadsAlone, Uploading, OnlyMoves
<1>4. UploadsAlone'
  BY <1>1, <1>2 DEF FilesInv, UploadsAlone, Uploading, OnlyMoves
<1>5. RemovalsHaveRows'
  BY <1>1, <1>2 DEF FilesInv, RemovalsHaveRows, OnlyMoves
<1>6. StorageFollowsTable'
  <2>1. \A g \in FileIds : Deleting(g)' <=> Deleting(g)
    BY <1>1, <1>2 DEF Deleting, OnlyMoves
  <2>2. ~Deleting(f)
    BY <1>3 DEF FilesInv, RemovalsHaveRows, Deleting
  <2>3. \A g \in FileIds : (\E q \in Requests : pc[q] = "insert" /\ File(q) = g)
           => \E q \in Requests : (pc[q] = "insert" /\ File(q) = g)'
    BY <1>1, <1>2 DEF OnlyMoves
  <2> QED
    BY <1>1, <1>2, <1>3, <2>1, <2>2, <2>3 DEF FilesInv, StorageFollowsTable, OnlyMoves
<1>7. AloneUnlessMet'
  BY <1>1, <1>2 DEF FilesInv, AloneUnlessMet, Found, On, OnlyMoves
<1> QED
  BY <1>1, <1>4, <1>5, <1>6, <1>7 DEF FilesInv, OnlyMoves

LEMMA InsertKeeps ==
    ASSUME FilesInv, NEW p \in Requests, Insert(p)
    PROVE  FilesInv'
<1> DEFINE f == File(p)
<1>1. OnlyMoves(p)
  BY StatementsMove
<1>2. /\ pc[p] = "insert" /\ pc'[p] = "reply"
      /\ row'[f].state = "live"
      /\ \A g \in FileIds \ {f} : row'[g] = row[g]
      /\ UNCHANGED <<stored, unlinks>>
  BY <1>1 DEF Insert, Goto, OnlyMoves, FilesTypeOK
<1>3. row[f].state = "absent" /\ f \in FileIds /\ f \in stored /\ unlinks[f] = 0
  BY <1>1, <1>2 DEF FilesInv, UploadsAlone, Uploading, OnlyMoves, FilesTypeOK
<1>4. UploadsAlone'
  BY <1>1, <1>2 DEF FilesInv, UploadsAlone, Uploading, OnlyMoves
<1>5. RemovalsHaveRows'
  BY <1>1, <1>2 DEF FilesInv, RemovalsHaveRows, OnlyMoves, FilesTypeOK, File
<1>6. StorageFollowsTable'
  <2>1. \A g \in FileIds : Deleting(g)' <=> Deleting(g)
    BY <1>1, <1>2 DEF Deleting, OnlyMoves
  <2>2. ~Deleting(f)
    BY <1>3 DEF FilesInv, RemovalsHaveRows, Deleting
  <2>3. \A g \in FileIds \ {f} : (\E q \in Requests : pc[q] = "insert" /\ File(q) = g)
           => \E q \in Requests : (pc[q] = "insert" /\ File(q) = g)'
    BY <1>1, <1>2 DEF OnlyMoves
  <2> QED
    BY <1>1, <1>2, <1>3, <2>1, <2>2, <2>3 DEF FilesInv, StorageFollowsTable, OnlyMoves
<1>7. AloneUnlessMet'
  <2>1. \A q \in Requests, g \in FileIds : On(q, g)' <=> On(q, g)
    BY <1>1 DEF On, OnlyMoves
  <2>2. \A q \in Requests : pc'[q] # pc[q] => pc'[q] = "reply"
    BY <1>1, <1>2 DEF OnlyMoves
  <2> QED
    BY <1>1, <1>2, <2>1, <2>2 DEF FilesInv, AloneUnlessMet, Found, OnlyMoves
<1> QED
  BY <1>1, <1>4, <1>5, <1>6, <1>7 DEF FilesInv, OnlyMoves

LEMMA TakeLocalKeeps ==
    ASSUME FilesInv, NEW p \in Requests, TakeLocal(p)
    PROVE  FilesInv'
<1> DEFINE f == File(p)
<1>1. OnlyMoves(p)
  BY StatementsMove
<1>2. /\ pc[p] = "take" /\ pc'[p] = "delete"
      /\ unlinks'[f] = unlinks[f] + 1 /\ unlinks[f] \in Nat
      /\ \A g \in FileIds \ {f} : unlinks'[g] = unlinks[g]
      /\ UNCHANGED <<row, stored>>
  BY <1>1 DEF TakeLocal, Goto, OnlyMoves, FilesTypeOK
<1>3. UploadsAlone'
  BY <1>1, <1>2 DEF FilesInv, UploadsAlone, Uploading, OnlyMoves
<1>4. RemovalsHaveRows'
  BY <1>1, <1>2 DEF FilesInv, RemovalsHaveRows, OnlyMoves
<1>5. StorageFollowsTable'
  <2>1. \A g \in FileIds : Deleting(g)' <=> Deleting(g) \/ g = f
    BY <1>1, <1>2 DEF Deleting, OnlyMoves
  <2>2. \A g \in FileIds : (\E q \in Requests : pc[q] = "insert" /\ File(q) = g)
           => \E q \in Requests : (pc[q] = "insert" /\ File(q) = g)'
    BY <1>1, <1>2 DEF OnlyMoves
  <2> QED
    BY <1>1, <1>2, <2>1, <2>2 DEF FilesInv, StorageFollowsTable, OnlyMoves
<1>6. AloneUnlessMet'
  <2> SUFFICES ASSUME NEW g \in FileIds \ met
               PROVE  AloneUnlessMet!(g)'
    BY <1>1 DEF AloneUnlessMet, OnlyMoves
  <2>1. \A q \in Requests : On(q, g)' <=> On(q, g)
    BY <1>1 DEF On, OnlyMoves
  <2>2. CASE g = f
    <3>1. \A q \in Requests : On(q, f) => q = p
      BY <1>1, <1>2, <2>2 DEF FilesInv, AloneUnlessMet, On, OnlyMoves
    <3>2. unlinks[f] = 0
      BY <1>1, <1>2, <2>2 DEF FilesInv, AloneUnlessMet, On, OnlyMoves
    <3>3. f \notin cut => f \in stored
      <4>1. f \notin cut => row[f].state = "live"
        BY <1>1, <1>2, <2>2 DEF FilesInv, AloneUnlessMet, On, OnlyMoves
      <4>2. ~Deleting(f)
        BY <1>2, <3>1 DEF Deleting, On
      <4> QED
        BY <2>2, <4>1, <4>2 DEF FilesInv, StorageFollowsTable
    <3> QED
      BY <1>1, <1>2, <2>1, <2>2, <3>1, <3>2, <3>3 DEF OnlyMoves
  <2>3. CASE g # f
    <3>1. \A q \in Requests : On(q, g) => pc'[q] = pc[q]
      BY <1>1, <2>3 DEF On, OnlyMoves
    <3> QED
      BY <1>1, <1>2, <2>1, <2>3, <3>1 DEF FilesInv, AloneUnlessMet, Found, OnlyMoves
  <2> QED
    BY <2>2, <2>3
<1> QED
  BY <1>1, <1>3, <1>4, <1>5, <1>6 DEF FilesInv, OnlyMoves

LEMMA SoftDeleteKeeps ==
    ASSUME FilesInv, NEW p \in Requests, SoftDelete(p)
    PROVE  FilesInv'
<1> DEFINE f == File(p)
<1>1. OnlyMoves(p)
  BY StatementsMove
<1>2. /\ pc[p] = "delete" /\ pc'[p] = "reply"
      /\ row'[f].state = "deleted"
      /\ \A g \in FileIds \ {f} : row'[g] = row[g]
      /\ UNCHANGED <<stored, unlinks>>
  BY <1>1 DEF SoftDelete, Goto, OnlyMoves, FilesTypeOK, Row
<1>3. row[f].state # "absent" /\ f \in FileIds
  BY <1>1, <1>2 DEF FilesInv, RemovalsHaveRows, OnlyMoves
<1>4. UploadsAlone'
  BY <1>1, <1>2, <1>3 DEF FilesInv, UploadsAlone, Uploading, OnlyMoves
<1>5. RemovalsHaveRows'
  BY <1>1, <1>2 DEF FilesInv, RemovalsHaveRows, OnlyMoves, FilesTypeOK, File
<1>6. StorageFollowsTable'
  <2>1. \A g \in FileIds : g # f => (Deleting(g)' <=> Deleting(g))
    BY <1>1, <1>2 DEF Deleting, OnlyMoves
  <2>2. Deleting(f)
    BY <1>2 DEF Deleting
  <2>3. \A g \in FileIds : (\E q \in Requests : pc[q] = "insert" /\ File(q) = g)
           => \E q \in Requests : (pc[q] = "insert" /\ File(q) = g)'
    BY <1>1, <1>2 DEF OnlyMoves
  <2> QED
    BY <1>1, <1>2, <1>3, <2>1, <2>2, <2>3 DEF FilesInv, StorageFollowsTable, OnlyMoves
<1>7. AloneUnlessMet'
  <2> SUFFICES ASSUME NEW g \in FileIds \ met
               PROVE  AloneUnlessMet!(g)'
    BY <1>1 DEF AloneUnlessMet, OnlyMoves
  <2>1. \A q \in Requests : On(q, g)' <=> On(q, g)
    BY <1>1 DEF On, OnlyMoves
  <2>2. g = f => \A q \in Requests : On(q, f) => q = p
    BY <1>1, <1>2 DEF FilesInv, AloneUnlessMet, On, OnlyMoves
  <2>3. \A q \in Requests : q # p => pc'[q] = pc[q]
    BY <1>1 DEF OnlyMoves
  <2>4. UNCHANGED <<start, cut>>
    BY <1>1 DEF OnlyMoves
  <2> QED
    BY <1>2, <2>1, <2>2, <2>3, <2>4 DEF FilesInv, AloneUnlessMet, Found
<1> QED
  BY <1>1, <1>4, <1>5, <1>6, <1>7 DEF FilesInv, OnlyMoves

LEMMA UnlinkedKeeps ==
    ASSUME FilesInv, NEW f \in FileIds, Unlinked(f)
    PROVE  FilesInv'
<1>1. FilesTypeOK /\ FilesTypeOK'
  BY UnlinkedType DEF FilesInv
<1>2. /\ unlinks[f] > 0 /\ unlinks'[f] = unlinks[f] - 1 /\ unlinks[f] \in Nat
      /\ \A g \in FileIds \ {f} : unlinks'[g] = unlinks[g]
      /\ f \in stored /\ stored' = stored \ {f}
      /\ UNCHANGED <<driver, start, row, pc, job, cut, met>>
  BY <1>1 DEF Unlinked, Found, FilesTypeOK
<1>3. row[f].state # "absent" /\ driver = "local"
  BY <1>1, <1>2 DEF FilesTypeOK
<1>4. \A q \in Requests, g \in FileIds :
         /\ On(q, g)' <=> On(q, g)
         /\ Uploading(q, g)' <=> Uploading(q, g)
         /\ Deleting(g)' <=> Deleting(g)
         /\ File(q)' = File(q)
  BY <1>2 DEF On, Uploading, Deleting, File
<1>5. UploadsAlone'
  BY <1>2, <1>3, <1>4 DEF FilesInv, UploadsAlone
<1>6. RemovalsHaveRows'
  BY <1>2, <1>4 DEF FilesInv, RemovalsHaveRows
<1>7. StorageFollowsTable'
  <2>1. \A g \in FileIds : (\E q \in Requests : pc[q] = "insert" /\ File(q) = g)
           => \E q \in Requests : (pc[q] = "insert" /\ File(q) = g)'
    BY <1>2, <1>4
  <2>2. \A g \in FileIds : Deleting(g)' <=> Deleting(g)
    BY <1>2 DEF Deleting, File
  <2> QED
    BY <1>2, <1>3, <2>1, <2>2 DEF FilesInv, StorageFollowsTable
<1>8. AloneUnlessMet'
  BY <1>2, <1>4 DEF FilesInv, AloneUnlessMet, Found
<1> QED
  BY <1>1, <1>5, <1>6, <1>7, <1>8 DEF FilesInv

\* UnlinkFails and OpenFails are restarts too.
LEMMA RestartKeeps ==
    ASSUME FilesInv, Restart
    PROVE  FilesInv'
<1>1. FilesTypeOK /\ FilesTypeOK'
  BY RestartType DEF FilesInv
<1>2. /\ \A q \in Requests : pc'[q] = "idle"
      /\ \A g \in FileIds : unlinks'[g] = 0
      /\ UNCHANGED <<driver, start, row, stored, met>>
  BY DEF Restart
<1>3. \A g \in FileIds \ cut' :
         /\ g \notin cut /\ unlinks[g] = 0 /\ ~Deleting(g)
         /\ ~\E q \in Requests : pc[q] = "insert" /\ File(q) = g
  BY <1>1 DEF Restart, HalfWay, FilesTypeOK, Deleting
<1>4. UploadsAlone' /\ RemovalsHaveRows'
  BY <1>2 DEF UploadsAlone, RemovalsHaveRows, Uploading
<1>5. StorageFollowsTable'
  <2>1. \A g \in FileIds : ~Deleting(g)'
    BY <1>2 DEF Deleting
  <2> QED
    BY <1>2, <1>3, <2>1 DEF FilesInv, StorageFollowsTable
<1>6. AloneUnlessMet'
  BY <1>2 DEF AloneUnlessMet, Found, On
<1> QED
  BY <1>1, <1>4, <1>5, <1>6 DEF FilesInv

-----------------------------------------------------------------------------

LEMMA NextFiles == FilesInv /\ [Next]_vars => FilesInv'
<1> SUFFICES ASSUME FilesInv, [Next]_vars
             PROVE  FilesInv'
  OBVIOUS
<1>1. ASSUME NEW p \in Requests, NEW u \in Users, NEW f \in FileIds,
             Upload(p, u, f) \/ Remove(p, u, f) \/ Download(p, u, f)
      PROVE  FilesInv'
  BY <1>1, ArriveKeeps DEF Upload, Remove, Download
<1>2. ASSUME NEW p \in Requests,
             Find(p) \/ TakeS3(p) \/ Look(p) \/ Open(p) \/ Fails(p) \/ Reply(p)
      PROVE  FilesInv'
  BY <1>2, MovesKeep, ReplyKeeps
<1>3. ASSUME NEW p \in Requests, Store(p) \/ Insert(p) \/ TakeLocal(p) \/ SoftDelete(p)
      PROVE  FilesInv'
  BY <1>3, StoreKeeps, InsertKeeps, TakeLocalKeeps, SoftDeleteKeeps
<1>4. ASSUME NEW f \in FileIds, Unlinked(f)
      PROVE  FilesInv'
  BY <1>4, UnlinkedKeeps
<1>5. ASSUME \/ Restart
             \/ \E p \in Requests : OpenFails(p)
             \/ \E f \in FileIds : UnlinkFails(f)
      PROVE  FilesInv'
  BY <1>5, RestartKeeps DEF OpenFails, UnlinkFails
<1>6. CASE UNCHANGED vars
  BY <1>6 DEF vars, system, FilesInv, FilesTypeOK, UploadsAlone, Uploading, RemovalsHaveRows,
      StorageFollowsTable, Deleting, AloneUnlessMet, Found, On, File
<1> QED
  BY <1>1, <1>2, <1>3, <1>4, <1>5, <1>6 DEF Next

LEMMA FilesInvariant == Spec => []FilesInv
BY InitFiles, NextFiles, PTL DEF Spec

\* Rows, requests and unlinks keep their shapes.
THEOREM FilesTypeCorrect == Spec => []FilesTypeOK
<1>1. FilesInv => FilesTypeOK
  BY DEF FilesInv
<1> QED
  BY <1>1, FilesInvariant, PTL

\* In every reachable state, after any failures and restarts and with any number of
\* users, files and requests, a file on which no upload or removal stopped half-way
\* is, once nothing is busy with it, in the storage and the table or in neither.
THEOREM StorageAndTableAgree == Spec => []StorageMatchesTable
<1>1. FilesInv => StorageMatchesTable
  <2> SUFFICES ASSUME FilesInv, NEW f \in FileIds, f \notin cut, ~Busy(f)
               PROVE  StorageMatchesTable!(f)
    BY DEF StorageMatchesTable
  <2>1. ~Deleting(f) /\ ~\E p \in Requests : pc[p] = "insert" /\ File(p) = f
    BY DEF Deleting, Busy
  <2>2. unlinks[f] = 0
    BY DEF Busy, FilesInv, FilesTypeOK
  <2> QED
    BY <2>1, <2>2 DEF FilesInv, StorageFollowsTable
<1> QED
  BY <1>1, FilesInvariant, PTL

\* Started as in the image, the process never ends by its own storage but for a file
\* two requests met on, or one stopped half-way on: what is to be unlinked is found;
\* and however it is started, what is to be opened is.
THEOREM NothingIsMissing == Spec => []NothingMissing
<1>1. FilesInv => NothingMissing
  BY DEF FilesInv, NothingMissing, AloneUnlessMet, Found, On
<1> QED
  BY <1>1, FilesInvariant, PTL

=============================================================================
