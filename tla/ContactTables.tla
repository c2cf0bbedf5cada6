---------------------------- MODULE ContactTables ----------------------------
(***************************************************************************)
(* The tables behind the contact routes, and the statements the services   *)
(* run on them through TypeORM's repositories.  One operator is one        *)
(* statement (or one transaction), so a step that uses it is one await of  *)
(* a handler.                                                              *)
(*                                                                         *)
(* Rows are soft-deleted: a deleted row stays, hidden from every find, and *)
(* a save of an entity that carries deletedAt = null brings it back.       *)
(***************************************************************************)

CONSTANTS
    Users,      \* user ids
    Contacts,   \* contact ids the auto-increment column can give out
    Phones,     \* phone ids,
    Emails,     \* email ids
    Addresses,  \* and address ids: three tables, three kinds of detail row
    Tags,       \* tag ids
    Fields,     \* the columns of a contact a PATCH can carry
    Values,     \* contents of a column, of a detail row, of a tag's name
    None        \* SQL NULL, and "no such thing"

Details == Phones \cup Emails \cup Addresses

ASSUME DetailKindsAssumption ==
    /\ Phones \cap Emails = {}
    /\ Phones \cap Addresses = {}
    /\ Emails \cap Addresses = {}

ASSUME NoneAssumption ==
    None \notin Users \cup Contacts \cup Details \cup Tags \cup Values

VARIABLES
    contact,    \* the contact table with its junction rows to the tags
    detail,     \* the phone, email and address tables
    tag         \* the tag table

tables == <<contact, detail, tag>>

-----------------------------------------------------------------------------

\* Functions on a subset of D: the keys of a JSON body or of a loaded relation.
PartialFunctions(D, R) == UNION {[S -> R] : S \in SUBSET D}

States == {"absent", "live", "deleted"}

ContactRow == [state : States, owner : Users \cup {None},
               fields : [Fields -> Values \cup {None}], tags : SUBSET Tags]

DetailRow == [state : States, contact : Contacts \cup {None},
              value : Values \cup {None}]

TagRow == [state : States, owner : Users \cup {None}, name : Values \cup {None}]

Patch == PartialFunctions(Fields, Values)

\* What a contact with its relations looks like once loaded: the entity findOne
\* returns, the cache copies and save writes back.  The owner is not loaded.
Snapshot == [fields  : [Fields -> Values \cup {None}],
             details : PartialFunctions(Details, Values \cup {None}),
             tags    : PartialFunctions(Tags, Values \cup {None})]

TablesTypeOK ==
    /\ contact \in [Contacts -> ContactRow]
    /\ detail \in [Details -> DetailRow]
    /\ tag \in [Tags -> TagRow]

TablesInit ==
    /\ contact = [c \in Contacts |-> [state |-> "absent", owner |-> None,
                                      fields |-> [f \in Fields |-> None], tags |-> {}]]
    /\ detail = [k \in Details |-> [state |-> "absent", contact |-> None, value |-> None]]
    /\ tag = [t \in Tags |-> [state |-> "absent", owner |-> None, name |-> None]]

-----------------------------------------------------------------------------
(* Queries *)

\* Mutant of ContactVisible: a find that includes soft-deleted rows.
ContactVisibleWithDeleted(u, c) == contact[c].state # "absent" /\ contact[c].owner = u

\* where: { id, owner: { id: user.id } }; finds skip soft-deleted rows.
ContactVisible(u, c) == contact[c].state = "live" /\ contact[c].owner = u

\* Mutants of DetailsOf: the join without its condition, and with deleted rows.
DetailsUnjoined(c) == {k \in Details : detail[k].state = "live"}
DetailsWithDeleted(c) == {k \in Details : detail[k].state # "absent" /\ detail[k].contact = c}

\* Mutant of TagsOf: the join with deleted tags.
TagsOfWithDeleted(c) == {t \in contact[c].tags : tag[t].state # "absent"}

\* The details and tags a find of contact c joins.
DetailsOf(c) == {k \in Details : detail[k].state = "live" /\ detail[k].contact = c}
TagsOf(c) == {t \in contact[c].tags : tag[t].state = "live"}

LoadContact(c) ==
    [fields  |-> contact[c].fields,
     details |-> [k \in DetailsOf(c) |-> detail[k].value],
     tags    |-> [t \in TagsOf(c) |-> tag[t].name]]

\* The detail joined with its contact, which must be live and the caller's.
DetailVisible(u, k) ==
    /\ detail[k].state = "live"
    /\ detail[k].contact # None
    /\ ContactVisible(u, detail[k].contact)

TagVisible(u, t) == tag[t].state = "live" /\ tag[t].owner = u

-----------------------------------------------------------------------------
(* Statements on contacts *)

InsertContact(c, u, patch) ==
    /\ contact[c].state = "absent"
    /\ contact' = [contact EXCEPT ![c] =
          [state |-> "live", owner |-> u, tags |-> {},
           fields |-> [f \in Fields |-> IF f \in DOMAIN patch THEN patch[f] ELSE None]]]
    /\ UNCHANGED <<detail, tag>>

\* Mutants of Merge: the tags of the body replace those of the entity; a tag is named
\* by its id, as in the body.
MergeReplaced(s, patch, newTags) ==
    [fields  |-> [f \in Fields |-> IF f \in DOMAIN patch THEN patch[f] ELSE s.fields[f]],
     details |-> s.details,
     tags    |-> newTags]
MergeBareIds(s, patch, newTags) ==
    [fields  |-> [f \in Fields |-> IF f \in DOMAIN patch THEN patch[f] ELSE s.fields[f]],
     details |-> s.details,
     tags    |-> [t \in DOMAIN s.tags \cup DOMAIN newTags |->
                    IF t \in DOMAIN newTags THEN t ELSE s.tags[t]]]

\* repository.merge: columns in the body win, and the tags of the body join
\* those of the entity, which merge never takes away.
Merge(s, patch, newTags) ==
    [fields  |-> [f \in Fields |-> IF f \in DOMAIN patch THEN patch[f] ELSE s.fields[f]],
     details |-> s.details,
     tags    |-> [t \in DOMAIN s.tags \cup DOMAIN newTags |->
                    IF t \in DOMAIN newTags THEN newTags[t] ELSE s.tags[t]]]

\* A detail row after the cascade of a save of contact c: in the entity's list it
\* is written back as it was loaded, attached and live; out of it, a live row of
\* the contact loses its contact.
SavedDetail(c, s, k) ==
    IF k \in DOMAIN s.details
      THEN [state |-> "live", contact |-> c, value |-> s.details[k]]
      ELSE IF k \in DetailsOf(c) THEN [detail[k] EXCEPT !.contact = None] ELSE detail[k]

SavedTags(s) ==
    [t \in Tags |-> IF t \in DOMAIN s.tags
                      THEN [tag[t] EXCEPT !.state = "live", !.name = s.tags[t]]
                      ELSE tag[t]]

\* @Unique(['owner', 'name']): the index also counts soft-deleted tags.
TagNamesUnique(table) ==
    \A t1, t2 \in Tags :
        /\ t1 # t2
        /\ table[t1].state # "absent"
        /\ table[t2].state # "absent"
        => <<table[t1].owner, table[t1].name>> # <<table[t2].owner, table[t2].name>>

\* repository.save of the entity s with the id of contact c: every column and
\* every cascaded relation, in one transaction that the tag index can refuse.
SaveContact(c, s) ==
    /\ TagNamesUnique(SavedTags(s))
    /\ contact' = [contact EXCEPT ![c] =
          [state |-> "live", owner |-> contact[c].owner,
           fields |-> s.fields, tags |-> DOMAIN s.tags]]
    /\ detail' = [k \in Details |-> SavedDetail(c, s, k)]
    /\ tag' = SavedTags(s)

SoftDeleteContact(c) ==
    /\ contact' = [contact EXCEPT ![c].state = "deleted"]
    /\ UNCHANGED <<detail, tag>>

-----------------------------------------------------------------------------
(* Statements on details *)

InsertDetail(k, c, v) ==
    /\ detail[k].state = "absent"
    /\ detail' = [detail EXCEPT ![k] = [state |-> "live", contact |-> c, value |-> v]]
    /\ UNCHANGED <<contact, tag>>

\* update(id, dto) and save({id, ...dto}) write the column whatever has become
\* of the row since it was found.
WriteDetail(k, v) ==
    /\ detail' = [detail EXCEPT ![k].value = v]
    /\ UNCHANGED <<contact, tag>>

SoftDeleteDetail(k) ==
    /\ detail' = [detail EXCEPT ![k].state = "deleted"]
    /\ UNCHANGED <<contact, tag>>

-----------------------------------------------------------------------------
(* Statements on tags *)

InsertTag(t, u, name) ==
    LET table == [tag EXCEPT ![t] = [state |-> "live", owner |-> u, name |-> name]] IN
    /\ tag[t].state = "absent"
    /\ TagNamesUnique(table)
    /\ tag' = table
    /\ UNCHANGED <<contact, detail>>

RenameTag(t, name) ==
    LET table == [tag EXCEPT ![t].name = name] IN
    /\ TagNamesUnique(table)
    /\ tag' = table
    /\ UNCHANGED <<contact, detail>>

SoftDeleteTag(t) ==
    /\ tag' = [tag EXCEPT ![t].state = "deleted"]
    /\ UNCHANGED <<contact, detail>>

=============================================================================
