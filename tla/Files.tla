--------------------------------- MODULE Files ---------------------------------
(***************************************************************************)
(* FilesService and FileStorageService: an upload puts a file in the       *)
(* storage and then a row in the table, a removal takes the file and then  *)
(* soft-deletes the row, and either may stop half-way.  In local storage   *)
(* the file is unlinked, and opened for a download, by callbacks no        *)
(* request waits for, whose failure nobody catches: it ends the process.   *)
(* Uploads go to ./files, removals and downloads look in the files of the  *)
(* build's directory: how the server is started decides if these are one.  *)
(* A restart finds the storage and the table again; requests are lost.     *)
(***************************************************************************)
EXTENDS Naturals

CONSTANTS
    Users,
    FileIds,    \* ids of rows, each with the one stored file it names
    Requests,   \* the requests that may be under way at one time
    Drivers,    \* the storage drivers configured, of "local" and "s3"
    Starts,     \* how the server is started, see AllStarts
    MaxUnlinks, \* bound on the unlinks of one file under way at one time
    None

\* By startup.sh of the image, in the directory of the build; or by one of the start
\* scripts, in the directory above it.
AllStarts == {"image", "script"}

ASSUME FilesAssumption ==
    Drivers \subseteq {"local", "s3"} /\ Starts \subseteq AllStarts /\ MaxUnlinks \in Nat

ASSUME NoneAssumption == None \notin Users \cup [user : Users, file : FileIds]

VARIABLES
    driver,     \* file.driver, read from the environment at the start
    start,      \* how this server is started, each time
    row,        \* the file table
    stored,     \* the files in the storage
    unlinks,    \* how many calls of fs.unlink are under way for each file
    pc,         \* the await each request is at
    job,        \* the user and the file of each request
    cut,        \* files on which an upload or a removal stopped half-way
    met         \* files on which two requests overlapped

system == <<driver, start, row, stored, unlinks, pc, job>>
vars == <<system, cut, met>>

Row == [state : {"absent", "live", "deleted"}, owner : Users \cup {None}]

Places == {"idle", "store", "insert", "find", "take", "delete", "look", "open", "reply"}

File(p) == job[p].file

\* Removals and downloads find the file where they look for it.
Found(f) == f \in stored /\ start = "image"

Busy(f) == unlinks[f] > 0 \/ \E p \in Requests : pc[p] # "idle" /\ File(p) = f

\* The type invariant: a row has an owner, and an unlink under way is one in local
\* storage, of a file that has or had a row.
FilesTypeOK ==
    /\ driver \in Drivers
    /\ start \in Starts
    /\ row \in [FileIds -> Row]
    /\ stored \subseteq FileIds
    /\ unlinks \in [FileIds -> Nat]
    /\ pc \in [Requests -> Places]
    /\ job \in [Requests -> [user : Users, file : FileIds] \cup {None}]
    /\ cut \subseteq FileIds
    /\ met \subseteq FileIds
    /\ \A p \in Requests : job[p] = None <=> pc[p] = "idle"
    /\ \A f \in FileIds :
          /\ row[f].owner = None <=> row[f].state = "absent"
          /\ unlinks[f] > 0 => driver = "local" /\ row[f].state # "absent"

Init ==
    /\ driver \in Drivers
    /\ start \in Starts
    /\ row = [f \in FileIds |-> [state |-> "absent", owner |-> None]]
    /\ stored = {}
    /\ unlinks = [f \in FileIds |-> 0]
    /\ pc = [p \in Requests |-> "idle"]
    /\ job = [p \in Requests |-> None]
    /\ cut = {}
    /\ met = {}

-----------------------------------------------------------------------------
(* Control *)

Goto(p, place) == pc' = [pc EXCEPT ![p] = place]

Arrive(p, u, f, place) ==
    /\ pc[p] = "idle"
    /\ job' = [job EXCEPT ![p] = [user |-> u, file |-> f]]
    /\ Goto(p, place)
    /\ met' = IF Busy(f) THEN met \cup {f} ELSE met
    /\ UNCHANGED <<driver, start, row, stored, unlinks, cut>>

Reply(p) ==
    /\ pc[p] = "reply"
    /\ Goto(p, "idle")
    /\ job' = [job EXCEPT ![p] = None]
    /\ UNCHANGED <<driver, start, row, stored, unlinks, cut, met>>

HalfWay(p) == pc[p] \in {"insert", "delete"}

\* Mutant of Fails: what multer could not store is inserted all the same.
FailsUnseen(p) ==
    /\ pc[p] \in {"store", "insert", "find", "take", "delete"}
    /\ pc[p] = "take" => driver = "s3"
    /\ cut' = IF HalfWay(p) THEN cut \cup {File(p)} ELSE cut
    /\ Goto(p, IF pc[p] = "store" THEN "insert" ELSE "reply")
    /\ UNCHANGED <<driver, start, row, stored, unlinks, job, met>>

\* The storage or the database fails the request.  Taking a file from local storage
\* does not wait, and so cannot fail.
Fails(p) ==
    /\ pc[p] \in {"store", "insert", "find", "take", "delete"}
    /\ pc[p] = "take" => driver = "s3"
    /\ cut' = IF HalfWay(p) THEN cut \cup {File(p)} ELSE cut
    /\ Goto(p, "reply")
    /\ UNCHANGED <<driver, start, row, stored, unlinks, job, met>>

\* The process stops, for whatever reason, and is started again.
Restart ==
    /\ pc' = [p \in Requests |-> "idle"]
    /\ job' = [p \in Requests |-> None]
    /\ unlinks' = [f \in FileIds |-> 0]
    /\ cut' = cut \cup {f \in FileIds :
                  unlinks[f] > 0 \/ \E p \in Requests : HalfWay(p) /\ File(p) = f}
    /\ UNCHANGED <<driver, start, row, stored, met>>

-----------------------------------------------------------------------------
(* uploadFile *)

\* The interceptor stores a file under a random name, and so a new one.
Upload(p, u, f) ==
    /\ row[f].state = "absent" /\ f \notin stored /\ ~Busy(f)
    /\ Arrive(p, u, f, "store")

Store(p) ==
    /\ pc[p] = "store"
    /\ stored' = stored \cup {File(p)}
    /\ Goto(p, "insert")
    /\ UNCHANGED <<driver, start, row, unlinks, job, cut, met>>

Insert(p) ==
    /\ pc[p] = "insert"
    /\ row' = [row EXCEPT ![File(p)] = [state |-> "live", owner |-> job[p].user]]
    /\ Goto(p, "reply")
    /\ UNCHANGED <<driver, start, stored, unlinks, job, cut, met>>

-----------------------------------------------------------------------------
(* removeFile *)

Remove(p, u, f) == Arrive(p, u, f, "find")

\* Mutant of Find: what is not found is removed as well.
FindAnything(p) ==
    /\ pc[p] = "find"
    /\ Goto(p, "take")
    /\ UNCHANGED <<driver, start, row, stored, unlinks, job, cut, met>>

\* Mutant of Find: the rows deleted are not left out.
FindWithDeleted(p) ==
    /\ pc[p] = "find"
    /\ Goto(p, IF row[File(p)].owner = job[p].user THEN "take" ELSE "reply")
    /\ UNCHANGED <<driver, start, row, stored, unlinks, job, cut, met>>

\* findOne: a live row of the user, or a refusal.
Find(p) ==
    /\ pc[p] = "find"
    /\ Goto(p, IF row[File(p)] = [state |-> "live", owner |-> job[p].user]
                 THEN "take" ELSE "reply")
    /\ UNCHANGED <<driver, start, row, stored, unlinks, job, cut, met>>

\* removeFromLocalStorage starts fs.unlink and returns at once.
TakeLocal(p) ==
    /\ pc[p] = "take" /\ driver = "local"
    /\ unlinks[File(p)] < MaxUnlinks
    /\ unlinks' = [unlinks EXCEPT ![File(p)] = @ + 1]
    /\ Goto(p, "delete")
    /\ UNCHANGED <<driver, start, row, stored, job, cut, met>>

\* removeFromS3Storage: what is left of the path is the key with a slash before it,
\* the key of no object; S3 answers a deletion of nothing as any other.
TakeS3(p) ==
    /\ pc[p] = "take" /\ driver = "s3"
    /\ Goto(p, "delete")
    /\ UNCHANGED <<driver, start, row, stored, unlinks, job, cut, met>>

SoftDelete(p) ==
    /\ pc[p] = "delete"
    /\ row' = [row EXCEPT ![File(p)].state = "deleted"]
    /\ Goto(p, "reply")
    /\ UNCHANGED <<driver, start, stored, unlinks, job, cut, met>>

Unlinked(f) ==
    /\ unlinks[f] > 0 /\ Found(f)
    /\ stored' = stored \ {f}
    /\ unlinks' = [unlinks EXCEPT ![f] = @ - 1]
    /\ UNCHANGED <<driver, start, row, pc, job, cut, met>>

\* The exception of the callback is nobody's to catch.
UnlinkFails(f) == unlinks[f] > 0 /\ ~Found(f) /\ Restart

-----------------------------------------------------------------------------
(* getFile, which knows the local storage only *)

Download(p, u, f) == Arrive(p, u, f, "look")

\* existsSync, and then createReadStream opens the file in its own time.
Look(p) ==
    /\ pc[p] = "look"
    /\ Goto(p, IF driver = "local" /\ Found(File(p)) THEN "open" ELSE "reply")
    /\ UNCHANGED <<driver, start, row, stored, unlinks, job, cut, met>>

Open(p) ==
    /\ pc[p] = "open" /\ Found(File(p))
    /\ Goto(p, "reply")
    /\ UNCHANGED <<driver, start, row, stored, unlinks, job, cut, met>>

\* The stream has no listener for its error.
OpenFails(p) == pc[p] = "open" /\ ~Found(File(p)) /\ Restart

-----------------------------------------------------------------------------

Next ==
    \/ \E p \in Requests, u \in Users, f \in FileIds :
          Upload(p, u, f) \/ Remove(p, u, f) \/ Download(p, u, f)
    \/ \E p \in Requests :
          \/ Store(p) \/ Insert(p)
          \/ Find(p) \/ TakeLocal(p) \/ TakeS3(p) \/ SoftDelete(p)
          \/ Look(p) \/ Open(p) \/ OpenFails(p)
          \/ Fails(p) \/ Reply(p)
    \/ \E f \in FileIds : Unlinked(f) \/ UnlinkFails(f)
    \/ Restart

Spec == Init /\ [][Next]_vars

-----------------------------------------------------------------------------
(* Properties *)

\* Unless an upload or a removal of it stopped half-way, a file that is left alone
\* has its row and its place in the storage, or neither; but a file removed stays in
\* S3, for which see TakeS3.
StorageMatchesTable ==
    \A f \in FileIds : f \notin cut /\ ~Busy(f) =>
        /\ row[f].state = "live" => f \in stored
        /\ row[f].state = "absent" => f \notin stored
        /\ driver = "local" /\ row[f].state = "deleted" => f \notin stored

\* Started as in the image, the process does not end by its own storage: unless two
\* requests on a file overlapped, or one stopped half-way, the file to unlink or to
\* open is there, and a second removal or download is refused.  Started by a script,
\* every unlink fails and ends the process, and no download gets as far as to open.
NothingMissing ==
    \A f \in FileIds : f \notin cut /\ f \notin met =>
        /\ unlinks[f] > 0 => f \in stored /\ (start = "image" => Found(f))
        /\ \A p \in Requests : pc[p] = "open" /\ File(p) = f => Found(f)

=============================================================================
