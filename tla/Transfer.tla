------------------------------ MODULE Transfer ------------------------------
(***************************************************************************)
(* Contacts in and out as CSV: exportContacts, and importContacts with the *)
(* helpers detectSeparator and processContactCleanup, among creates and    *)
(* deletions.  An export carries the ids, and an import keeps them: ids    *)
(* come from files as well as from the sequence of the table.              *)
(*                                                                         *)
(* A file is what a client uploads (its lines, as far as the separators    *)
(* matter) and what a CSV parser told its separator reads in it (rows).    *)
(***************************************************************************)
EXTENDS CellCleaning, Sequences, FiniteSets

CONSTANTS
    Users,          \* user ids
    MaxId,          \* bound on the ids of contacts
    Names,          \* first names
    Uploads,        \* the files users write themselves
    Requests,       \* the imports that may be under way at one time
    Text,           \* any other text
    None            \* no such thing

ASSUME MaxIdAssumption == MaxId \in Nat

Ids == 1 .. MaxId

-----------------------------------------------------------------------------
(* Files.  A row is <<"object", function on its columns>>, a cell is            *)
(* <<"text", t>> or <<"json", v>>.                                              *)

Separators == <<",", ";", "tab", "|">>

\* What a line is made of: separators, and other text.
Symbols == {"x", ",", ";", "tab", "|"}

IsRow(v) ==
    /\ v \in Values
    /\ v[1] = "object"
    /\ "id" \in DOMAIN v[2] => v[2].id \in {"text"} \X Ids
    /\ "firstName" \in DOMAIN v[2] => v[2].firstName \in {"text"} \X Names

IsFile(file) ==
    /\ file.separator \in {Separators[s] : s \in DOMAIN Separators}
    /\ file.lines \in Seq(Seq(Symbols))
    /\ Len(file.rows) \in Nat /\ DOMAIN file.rows = 1 .. Len(file.rows)
    /\ \A i \in DOMAIN file.rows : IsRow(file.rows[i])

ASSUME UploadsAssumption == \A file \in Uploads : IsFile(file)

\* One of the emails the find of an export joins.
Email == <<"object", [createdAt |-> <<"text", Text>>, email_address |-> <<"text", Text>>]>>

\* The parser of json2csv writes objects and lists as JSON.
ExportedRow(c, name) ==
    <<"object", [createdAt |-> <<"text", Text>>, id |-> <<"text", c>>,
                 firstName |-> <<"text", name>>,
                 emails |-> <<"json", <<"array", <<Email>> >> >>]>>

\* With another separator than its own a file has rows, but none of the columns.
RowUnseparated == <<"object", [other |-> <<"text", Text>>]>>

ASSUME RowsAssumption ==
    /\ \A c \in Ids, name \in Names : ExportedRow(c, name) \in Values
    /\ RowUnseparated \in Values

ASSUME NoneAssumption ==
    /\ None \notin Users \cup Names
    /\ None \notin Ids
    /\ None \notin {Separators[s] : s \in DOMAIN Separators}

-----------------------------------------------------------------------------
(* detectSeparator *)

\* trim() takes the tabs at both ends away; what is left of a blank line is nothing.
Trim(line) ==
    LET inner == {i \in DOMAIN line : line[i] # "tab"} IN
    IF inner = {} THEN <<>>
    ELSE SubSeq(line, CHOOSE i \in inner : \A j \in inner : i <= j,
                      CHOOSE i \in inner : \A j \in inner : i >= j)

\* Blank lines count towards the five, but the loop ends only at a line that is not.
Considered(lines) ==
    {n \in DOMAIN lines :
        /\ Trim(lines[n]) # <<>>
        /\ \A m \in 5 .. n - 1 : Trim(lines[m]) = <<>>}

Occurrences(lines, n, separator) ==
    {n} \X {i \in DOMAIN Trim(lines[n]) : Trim(lines[n])[i] = separator}

\* Mutant of Score: a line counts once, however often it has the separator.
ScoreByLine(lines, separator) ==
    Cardinality({n \in Considered(lines) : Occurrences(lines, n, separator) # {}})

Score(lines, separator) ==
    Cardinality(UNION {Occurrences(lines, n, separator) : n \in Considered(lines)})

\* The first of the best; None where it throws.
DetectSeparator(lines) ==
    LET score == [s \in DOMAIN Separators |-> Score(lines, Separators[s])]
        best == CHOOSE s \in DOMAIN score :
                    /\ \A r \in DOMAIN score : score[r] <= score[s]
                    /\ \A r \in DOMAIN score : r < s => score[r] < score[s]
    IN  IF Considered(lines) # {} /\ score[best] = 0 THEN None ELSE Separators[best]

-----------------------------------------------------------------------------

VARIABLES
    contact,    \* the contact table
    sequence,   \* the last id its sequence has given
    exported,   \* the file of the last export, which anybody may have got
    pc,         \* the await each import is at
    job,        \* its user, its file, whether that is an export; the separator found
    rows        \* the rows it has parsed

vars == <<contact, sequence, exported, pc, job, rows>>

\* named is not in the program: the row has its id from a file.
Row == [state : {"absent", "live", "deleted"}, owner : Users \cup {None},
        firstName : Names \cup {None}, named : BOOLEAN]

Job(u, file, isExport) ==
    [user |-> u, file |-> file, isExport |-> isExport, separator |-> None]

\* The type invariant: rows and requests have their shapes, and an import under way
\* has a user, a file and, before its insert, rows whose ids and names are some.
TransferTypeOK ==
    /\ contact \in [Ids -> Row]
    /\ sequence \in 0 .. MaxId
    /\ exported # None => IsFile(exported) /\ exported.rows # <<>>
    /\ pc \in [Requests -> {"idle", "detect", "parse", "insert"}]
    /\ \A p \in Requests :
          /\ pc[p] = "idle" => job[p] = None
          /\ pc[p] # "idle" => job[p].user \in Users /\ IsFile(job[p].file)
          /\ pc[p] # "insert" => rows[p] = <<>>
          /\ \A i \in DOMAIN rows[p] : IsRow(rows[p][i])
    /\ \A c \in Ids : contact[c].state # "absent" =>
          contact[c].owner # None /\ contact[c].firstName # None

Init ==
    /\ contact = [c \in Ids |-> [state |-> "absent", owner |-> None,
                                 firstName |-> None, named |-> FALSE]]
    /\ sequence = 0
    /\ exported = None
    /\ pc = [p \in Requests |-> "idle"]
    /\ job = [p \in Requests |-> None]
    /\ rows = [p \in Requests |-> <<>>]

-----------------------------------------------------------------------------
(* POST, DELETE and the sequence *)

\* INSERT of a row without an id: the sequence moves, also for an insert that fails.
InsertNext(u, firstName) ==
    LET c == sequence + 1 IN
    /\ c \in Ids
    /\ sequence' = c
    /\ contact' = IF contact[c].state # "absent" THEN contact
                  ELSE [contact EXCEPT ![c] = [state |-> "live", owner |-> u,
                                               firstName |-> firstName, named |-> FALSE]]

\* An id that a file has taken makes the insert fail, and the request.
Create(u, firstName) ==
    /\ InsertNext(u, firstName)
    /\ UNCHANGED <<exported, pc, job, rows>>

Remove(u, c) ==
    /\ contact[c].state = "live"
    /\ contact[c].owner = u
    /\ contact' = [contact EXCEPT ![c].state = "deleted"]
    /\ UNCHANGED <<sequence, exported, pc, job, rows>>

-----------------------------------------------------------------------------
(* exportContacts(owner, contactId) *)

\* The find has no order.  No contact to write is an exception of the parser, and no file.
ExportContacts(u, ids) ==
    LET matching == {c \in ids : contact[c].state = "live" /\ contact[c].owner = u} IN
    /\ matching # {}
    /\ \E found \in [1 .. Cardinality(matching) -> matching] :
          /\ \A m, n \in DOMAIN found : found[m] = found[n] => m = n
          /\ exported' =
                [separator |-> ",",
                 lines |-> [n \in 1 .. Cardinality(matching) + 1 |->
                               <<"x", ",", "x", ",", "x", ",", "x">>],
                 rows |-> [n \in DOMAIN found |-> ExportedRow(found[n], contact[found[n]].firstName)]]
    /\ UNCHANGED <<contact, sequence, pc, job, rows>>

-----------------------------------------------------------------------------
(* importContacts(user, file) *)

ImportContacts(p, u, file, isExport) ==
    /\ pc[p] = "idle"
    /\ job' = [job EXCEPT ![p] = Job(u, file, isExport)]
    /\ pc' = [pc EXCEPT ![p] = "detect"]
    /\ UNCHANGED <<contact, sequence, exported, rows>>

\* The import answers, with a success or with CSV_IMPORT_FAILED.
End(p) ==
    /\ pc' = [pc EXCEPT ![p] = "idle"]
    /\ job' = [job EXCEPT ![p] = None]
    /\ rows' = [rows EXCEPT ![p] = <<>>]

Detect(p) ==
    LET separator == DetectSeparator(job[p].file.lines) IN
    /\ pc[p] = "detect"
    /\ IF separator = None
         THEN End(p)
         ELSE /\ pc' = [pc EXCEPT ![p] = "parse"]
              /\ job' = [job EXCEPT ![p].separator = separator]
              /\ UNCHANGED rows
    /\ UNCHANGED <<contact, sequence, exported>>

ParsedRows(file, separator) ==
    IF separator = file.separator THEN file.rows
    ELSE [n \in DOMAIN file.rows |-> RowUnseparated]

Parse(p) ==
    LET parsed == ParsedRows(job[p].file, job[p].separator) IN
    /\ pc[p] = "parse"
    /\ pc' = [pc EXCEPT ![p] = "insert"]
    /\ rows' = [rows EXCEPT ![p] =
          [n \in DOMAIN parsed |-> ProcessContactCleanup(parsed[n])]]
    /\ UNCHANGED <<contact, sequence, exported, job>>

IdOf(row) == IF "id" \in DOMAIN row THEN row.id[2] ELSE None

\* Mutants of InsertRow: the row of a file replaces the one in the table; its id is
\* not looked at; an id is taken without the sequence; the owner is left to the file.
Upsert(u, row) ==
    IF IdOf(row) = None THEN InsertNext(u, row.firstName[2])
    ELSE /\ contact' = [contact EXCEPT ![IdOf(row)] =
                [state |-> "live", owner |-> u,
                 firstName |-> row.firstName[2], named |-> TRUE]]
         /\ UNCHANGED sequence
InsertAnew(u, row) == InsertNext(u, row.firstName[2])

InsertBesides(u, row) ==
    \E c \in Ids :
        /\ c = IF IdOf(row) = None THEN Cardinality({d \in Ids : contact[d].state # "absent"}) + 1
                                   ELSE IdOf(row)
        /\ contact' = IF contact[c].state # "absent" THEN contact
                      ELSE [contact EXCEPT ![c] =
                               [state |-> "live", owner |-> u, firstName |-> row.firstName[2],
                                named |-> IdOf(row) # None]]
        /\ UNCHANGED sequence

InsertOwnerless(u, row) ==
    /\ IdOf(row) # None
    /\ contact[IdOf(row)].state = "absent"
    /\ contact' = [contact EXCEPT ![IdOf(row)] =
          [state |-> "live", owner |-> None, firstName |-> row.firstName[2], named |-> TRUE]]
    /\ UNCHANGED sequence

\* orIgnore: an id that is taken, by whatever row, is no error and no insert.
InsertRow(u, row) ==
    \/ IdOf(row) = None /\ InsertNext(u, row.firstName[2])
    \/ /\ IdOf(row) # None
       /\ contact' = IF contact[IdOf(row)].state # "absent" THEN contact
                     ELSE [contact EXCEPT ![IdOf(row)] =
                              [state |-> "live", owner |-> u,
                               firstName |-> row.firstName[2], named |-> TRUE]]
       /\ UNCHANGED sequence

\* The column that must not be null refuses a row without a first name, but a row
\* without an id has drawn one by then.
RefuseRow(row) ==
    /\ sequence' = sequence + (IF IdOf(row) = None THEN 1 ELSE 0)
    /\ sequence' <= MaxId
    /\ UNCHANGED contact

HasName(p) == "firstName" \in DOMAIN rows[p][Len(rows[p])][2]

\* Of the rows the last is inserted.  None at all is refused.
Insert(p) ==
    LET last == rows[p][Len(rows[p])][2] IN
    /\ pc[p] = "insert"
    /\ \/ rows[p] = <<>> /\ UNCHANGED <<contact, sequence>>
       \/ rows[p] # <<>> /\ ~HasName(p) /\ RefuseRow(last)
       \/ rows[p] # <<>> /\ HasName(p) /\ InsertRow(job[p].user, last)
    /\ End(p)
    /\ UNCHANGED exported

-----------------------------------------------------------------------------

Next ==
    \/ \E u \in Users, name \in Names : Create(u, name)
    \/ \E u \in Users, c \in Ids : Remove(u, c) \/ ExportContacts(u, {c})
    \/ \E u \in Users : ExportContacts(u, Ids)
    \/ \E p \in Requests, u \in Users :
          \/ \E file \in Uploads : ImportContacts(p, u, file, FALSE)
          \/ exported # None /\ ImportContacts(p, u, exported, TRUE)
    \/ \E p \in Requests : Detect(p) \/ Parse(p) \/ Insert(p)

Spec == Init /\ [][Next]_vars

-----------------------------------------------------------------------------
(* Properties *)

\* What is about to be inserted has no timestamp at any depth, in the JSON of a cell
\* neither, and has been cleaned for good: cleaning it again changes nothing.
RowsCleaned ==
    \A p \in Requests : \A i \in DOMAIN rows[p] :
        /\ KeysWithin[rows[p][i]] \cap Timestamps = {}
        /\ ProcessContactCleanup(rows[p][i]) = rows[p][i]

\* The file has more of its own separator than of any other in every line.
Regular(file) ==
    /\ Considered(file.lines) # {}
    /\ \A n \in Considered(file.lines), s \in DOMAIN Separators :
          Separators[s] # file.separator =>
              Cardinality(Occurrences(file.lines, n, Separators[s]))
                < Cardinality(Occurrences(file.lines, n, file.separator))

\* detectSeparator finds the separator of every file that is not ambiguous, whatever
\* blank lines, empty cells and other separators are in it.
SeparatorFound ==
    [][\A p \in Requests : pc[p] = "detect" /\ pc'[p] # "detect" /\ Regular(job[p].file) =>
          pc'[p] = "parse" /\ job'[p].separator = job[p].file.separator]_vars

\* An import adds one contact at most, the last of the file, to the contacts of its
\* user, and writes no row that is there: not even one of which the file has the id.
ImportOnlyAdds ==
    [][\A p \in Requests : pc[p] = "insert" /\ pc'[p] = "idle" =>
          \/ UNCHANGED contact
          \/ \E c \in Ids, i \in {Len(rows[p])} :
                /\ contact[c].state = "absent"
                /\ contact' = [contact EXCEPT ![c] = contact'[c]]
                /\ contact'[c].owner = job[p].user
                /\ contact'[c].firstName = rows[p][i][2].firstName[2]]_vars

\* Whoever imports an export, at whatever time, adds nothing: its ids are taken, by
\* contacts that may be deleted or another user's.
ReimportAddsNothing ==
    [][\A p \in Requests :
          pc[p] = "insert" /\ pc'[p] = "idle" /\ job[p].isExport => UNCHANGED contact]_vars

\* An id the sequence gives is lost, and the create or the import with it, only where
\* a file has brought the id before the sequence came to it, or where the last row of
\* an import has no first name.
LostOnlyIfNamed ==
    [][sequence' # sequence /\ UNCHANGED contact =>
          \/ contact[sequence'].named
          \/ \E p \in Requests :
                pc[p] = "insert" /\ pc'[p] = "idle" /\ rows[p] # <<>> /\ ~HasName(p)]_vars

=============================================================================
