# A TLA+ development of the contacts manager

The repository is a NestJS server: users keep contacts, with phone numbers,
emails, addresses and tags, in PostgreSQL behind TypeORM, and read them through
a cache. This directory holds TLA+ modules translated from `src/src`, TLC
configurations that model-check them on small instances, and proofs that TLAPS
checks. `PROJECT.json` maps each definition to the lines it stands for.

    tlc -config book_copies.cfg MCAddressBook
    tlapm AddressBook_proofs.tla

A comment before each definition, action and property says what it stands for.

## The system

The server is one Node process. A handler runs without interruption up to an
`await`, and between two awaits any other handler may run. So the unit of
interleaving is the stretch of code that ends in one database statement, one
cache call or one mail, and that is an action in every module. No handler takes
a lock or opens a transaction of its own, and only TypeORM's `save` is a
transaction, over the statements of one entity and its cascades.

| component | state | operations | interacts with | hard about it |
|---|---|---|---|---|
| contacts | contact table, junction to tags, cached `contact:${id}` | create, findOne, update, remove | cache, tags, files | whole-entity saves of copies that may be stale; entries that no write touches |
| details (phones, emails, addresses) | three tables | create, findOne, update, remove | contacts.findOne, hence its cache | check-then-act validation; rows rewritten by a contact's cascade |
| tags | tag table, unique per owner and name | create, update, remove, find | cascade of a contact's save | names written back from stale copies; the unique index refuses a save |
| lists | cached pages | findAllWithPagination | contacts, the same cache | count, find and store are separate; pages outlive writes |
| import and export | an upload and its parsed rows | exportContacts, importContacts, separator, parse, clean | contacts, the sequence of their ids | ids come from files as well; one row of many; a separator that is guessed |
| accounts | users, forgot codes | register, confirm, forgot, reset, login, update, delete | mail, validators | hashing decided from a loaded copy; whole-row saves; mail fails after the insert |
| files | file table and storage (disk or S3) | upload, remove, download | contacts (avatars) | two effects that can part; callbacks that can end the process |
| health | the key of the probes | check, ready, live | database, cache | concurrent probes share one key; checks that go on behind an answer |
| metrics | five bounded buffers, a timer | record, summaries | exception filter, monitoring routes | bound and retention meet in one trim |
| request pipeline | none | log, guard, handle, catch, monitoring routes | metrics | what fails is recorded once, and read by routes that can fail too |
| guards, interceptors, logger, reference tables, seeds | none, or constants | | | |

### What makes each correct

- **Contacts.** A save writes a whole entity, with its details and tags, from a
  copy. Correct means: what a fresh copy writes is the request's own change
  (`FreshSaveIsExact`); however stale the copies, two contacts never take each
  other's details (`DetailsStayHome`); deleted things come back only while a copy
  of them is left (`GoneForGood`, `LostForGood`, and for tags, which a save
  writes back too, `TagsStayGone`); requests end (`RequestsEnd`) and the cache
  becomes current (`EventuallyFresh`). In one sentence: the routes are a
  `ContactBook` (`ImplementsContactBook`).
- **Lists.** A user's page holds that user's contacts (`ListsOwn`), the pages of
  a table at rest partition it (`WalkVisitsAll`), pages catch up (`ListsSettle`).
- **Import and export.** The separator of a regular file is found
  (`SeparatorFound`), rows lose their timestamps at any depth (`RowsCleaned`), an
  import adds the last row of its file or nothing and writes no row that is there
  (`ImportOnlyAdds`), importing an export adds nothing (`ReimportAddsNothing`),
  and the sequence loses an id only to an id out of a file or to a row without a
  first name (`LostOnlyIfNamed`).
- **Accounts.** Passwords, where there is one, are hashed once
  (`PasswordsHashedOnce`), an inactive account can be confirmed (`Confirmable`),
  a deleted one stays deleted once no request holds a copy (`AccountsEnd`), a
  spent reset code stays spent once the resets that had found it are done
  (`CodesEnd`), and the save of a fresh copy changes what the request asked for
  (`FreshAccountSave`).
- **Files.** A file left alone has its row and its place in the storage, or
  neither (`StorageMatchesTable`), and on a server started as in the image what
  is to be unlinked or opened is there (`NothingMissing`): if it is not, the
  process ends.
- **Health.** A probe reports the cache as down only if a call failed, its entry
  ran out or another probe came between (`DownHasCause`), leaves its entry behind
  only if a call failed (`EntryCleared`), and ends (`ProbesEnd`).
- **Metrics.** A summary over a range within the retention counts what was
  recorded in the range, up to the bound (`SummariesComplete`), and what is kept
  is bounded in number and in time (`MonitoringTypeOK`, `SpanBounded`); the
  errors route reports the failed requests of the range it is asked for
  (`ErrorsReported`).

## The modules

    ContactTables              the tables and the statements on them
      ContactService           create, findOne, update, remove, cache entries
        AddressBook            + details, validator, tags: the system of the contact routes
          ContactList          + lists and their pages; MCContactList for its run
          MCAddressBook        symmetry sets for the runs
          AddressBook_proofs   theorems about the contact routes
            ContactBook_proofs   that they implement ContactBook
              ContactList_proofs   theorems about lists, and the above next to lists
    SoftDeletion               abstract: what a deleted row may still do
      ContactBook              abstract: contacts, their owners and details
    Accounts                   the life of an account; MCAccounts for its run
    CellCleaning               what the import's helpers make of a cell
      Transfer                 export and import; MCTransfer has the files of its run
    Files                      the file table and the storage
    Health                     the probes and the key they share
    Metrics                    the buffers of the metrics and their summaries
      Monitoring               + requests, filter, routes; MCMonitoring for its run

Accounts, Transfer, Files, Health and Monitoring have their theorems in a module
`<name>_proofs` each.

**ContactTables** has the rows and one operator per statement. A row is absent,
live or deleted (soft deletion); `Snapshot` is a contact with its relations as
loaded, which is also what the cache holds and what `save` writes. `SaveContact`
is TypeORM's `save` of an entity with `cascade`: rows listed in the entity are
written as listed, attached and live; live rows of the contact that the entity
does not list lose their contact; the tags' names are written back; the contact
itself is live afterwards, since the copy carries `deletedAt = null`. These
rules are TypeORM's, not this repository's, and are marked external. `Merge` is
`repository.merge`.

**ContactService** is `contacts.service.ts`. `findOne` is called by most
handlers, so it is written once: a request at `lookup`, `load` or `fill` is
inside it, and `job[p].then` is where it continues. `update` ends with
`return this.findOne(...)`, which is the second pass through it.

**AddressBook** adds the other four services. The detail services share their
shape, so `AddDetail` is parameterised by its first await, which `UpdateDetail` picks:
phones and emails start with the validator of the pipe, addresses do not.

`Fails` is a call of the database or the cache that fails, at any await: the
filter answers, and what the request has written stays. A restart of the process
is that for all requests at once, and an expiry of all entries. `reset` swallows
its failures, which leaves what a manager without `reset` leaves.

**SoftDeletion** and **ContactBook** are what the detailed modules implement.
A row is free, live, deleted with copies left, or gone; `AddressBook` maps a
contact to these by its state and `CopiesOf`, `Accounts` an account by the
entities requests hold (`AccountLife`), and a reset code by the resets that have
found it (`CodeLife`). In `ContactBook` a detail has one home for good: `HomeOf`
is the contact that any copy or the row itself gives it, and `"lost"` once none
does.

**ContactList** adds `GET /contacts`, and the insert of an import. `BookStep`
composes: a step of a contact route, during which `reset`, if the cache manager
has it, empties the pages along with the contacts.

**Accounts** is `auth.service.ts`, `users.service.ts` and `forgot.service.ts`.
An account is known by its address, because the unique index on `email` counts
deleted rows. A request that has loaded a user holds an `Entity` until it saves;
`SaveUser` writes all of it. `SetPassword` is the entity's `@BeforeUpdate` hook,
which hashes if there is a password and it differs from the loaded one. A body
may leave the password out (`Undefined`) or carry a null: `@IsOptional` lets the
null through, `update` asks for no old password, and `Object.assign` writes it
(`Assigned`), so that the account has no password until a reset or an
administrator's update gives it one.
`Throw` ends a request at once, with an error for its answer.

**Files** is `files.service.ts` and `file-storage.service.ts`, with both storage
drivers. A request fails at any await (`Fails`), and the process may stop at any
time (`Restart`). It ends by itself in two places, because nobody catches what
is thrown there: in the callback of `fs.unlink`, when the file is gone
(`UnlinkFails`), and in the stream of a download, when the file went between
`existsSync` and the opening (`OpenFails`). Two history variables say of which
files the properties can promise nothing: `cut`, where an upload or a removal
stopped half-way, and `met`, where two requests overlapped. Both exceptions are
needed. After a removal whose database call failed, the row is live and the file
gone: to remove it again ends the process, and so do two removals that find the
row at the same time. With S3, `TakeS3` leaves the object where it is: the
pattern at `file-storage.service.ts:113` leaves a slash before the key, although
line 108 says that the promise "resolves when the file is successfully removed".
Uploads to local storage go to `files` of the working directory
(`file-storage.service.ts:47`), and removals and downloads look three directories
above the compiled service (lines 84 to 91). `start` says how the server is
started: by `startup.sh` in the image these are one place, while by the scripts
of `package.json` (`docs/getting-started.md:149`) the second is `dist/files`. So
`Found` asks for both the file and the start: by a script every local removal ends
the process, and no download opens a file. `NothingMissing` states the two cases
apart, and `StorageMatchesTable` counts such a removal as stopped half-way.

**Transfer** is `exportContacts`, `importContacts` and the helpers in
`contact-cleaning-helper.ts`, on a contact table with its sequence. A file is its
lines, as far as separators matter, and the rows a parser finds in it; the parser
and the writer are external: told another separator than the file's own, the
parser finds rows without the columns, and the writer throws when there is
nothing to write (an empty export answers 500). The find of an export has no
order, so its rows come in any. What the helpers make of a row is
`ProcessContactCleanup` of CellCleaning, two recursive functions on `Values`.
That set is a parameter: whatever values files hold, with all that is in them and
all that the helpers make of them, each less deep than what it is in
(`ValuesAssumption`, `ClosedAssumption`); MCTransfer computes it for its files.
Only the last row of a file is inserted (`contacts.service.ts:379`), only its own
columns, and `orIgnore` turns an id that is taken into a success, so an exported
file that is imported again adds nothing, whoever imports it and whatever has
been deleted since. A file with one column is refused, since no separator occurs
in it. `named` marks the rows whose id came from a file: when the sequence
reaches such an id, a create fails, and an import without an id is dropped
silently. A row without a first name is refused, but one without an id either has
drawn the next of the sequence by then (`RefuseRow`). `LostOnlyIfNamed` says that
there is no third way to lose an id.

**Health** is `health.service.ts`. `store` is chosen at the start: the configured
store is in memory, where the three calls of `checkRedis` run in one turn; with
Redis they interleave with those of other probes. `Promise.allSettled` of `check`
waits for both checks; `Promise.all` of `readiness` answers at the first failure
while the other check goes on. `HealthModule` registers a cache of its own, so a
probe says nothing of the cache the application uses. All routes answer 200
whatever they find, although `health.controller.ts:14` and `:22` announce 503.
`liveness` answers from the process at once.

**Metrics** is `metrics.service.ts`. Its methods do not await, so each is a step;
the five buffers are alike, and `recorded` keeps beside each the log the program
does not have, for the summaries to be compared with. In this build only the
exception filter (`Catch`) and the timer (`Collect`) record anything.
**Monitoring** composes it with what uses it: a request passes the logging
middleware, is refused by a guard or handled, and answers or throws; `Catch` is
the filter, and the routes of the monitoring controller answer in the turn in
which they read. The timer fires once a tick, in any order with the requests of
the tick (`Pass` waits for it). The middleware is meant to record every request
("Record metrics using injected metrics service",
`request-logging.middleware.ts:80`), with the service in `req.app.locals`, where
nothing puts one: `/metrics/requests` counts nothing.

### Abstractions

- Contents are model values (`Values`, `Fields`, `Codes`); hashing counts its
  rounds; a cached object is a copy, as the cache serialises.
- `save` is one step: TypeORM's comparison with the stored row and its writes.
- The tags named in a PATCH are fetched in one step, a page's rows too.
- A request takes its detail id, or the code it will mail, when it arrives;
  ids and codes never repeat, and in the code they come a few awaits later.
- Whether a phone number is valid (`PhoneInvalid`), whether a PATCH replaces
  an avatar (`AvatarRefused`), whether a call or a mail fails (`Fails`) and
  when a cache entry expires (`Expire`) are free choices.
- Not all of a contact's joined relations are kept in the rows of a page.
- Deleting a user does not touch the contact tables in the code either, so
  Accounts and AddressBook are separate systems.

### External: what the installed packages do

`cache-manager` 7 has no `reset` (it is called `clear`), so `CacheHasReset` is
FALSE in the build; some runs set it to TRUE, so that the invalidation the
code intends is exercised as well. Times to live are milliseconds in that
version. Expiry is possible at any moment in the model, so no property depends
on it.

## The runs

| run | question | bounds | states |
|---|---|---|---|
| `book_copies` | do stale copies keep to their own contact, do deleted things stay deleted, is it a `ContactBook`? | 2 contacts, 2 phones, 2 requests | 803 k |
| `book_tags` | what does a PATCH change, next to PATCHes and writes of tags, do deleted tags stay deleted? type invariant | 1 contact, 2 tags, 2 values, 2 requests | 359 k |
| `book_settles` | do requests end, does the cache settle? | 1 contact, an email, an address, 2 requests, fair | 155 k |
| `lists` | pages of two users | 2 users, 2 contacts, 1 list request, page size 1, fair | 301 k |
| `accounts` | the life of an account and of its codes | 1 address, 2 passwords, 2 codes, 2 requests | 660 k |
| `transfer` | what does an import do to the table? | 2 users, 2 ids, 7 files and the last export, 1 import | 25 k |
| `metrics` | are the summaries what a complete log would give, and what the routes report? | bound 3, retention 2, clock and failures up to 5, the timer, 2 requests | 1.2 M |
| `health` | what can a probe report, and leave behind? | 2 probes, an entry of 2 ticks, clock up to 3, fair | 236 k |
| `files` | do table and storage agree, is the file there when it is needed? | 2 users, 2 files, 2 requests, 2 unlinks of a file at a time, 2 starts | 1.3 M |

Every set of a configuration is a bound: rows the tables can get, requests under
way at one time, values. Counters are bounded in four modules: `MaxTime` and
`MaxRecorded` end the instance of `Metrics` after the bound of the buffer and the
retention have both cut more than once; `MaxNow` lets an entry of `Health` run
out; `MaxId` ends the instance of `Transfer`, in which a file names an id the
sequence has still to give; `MaxUnlinks` delays a removal in `Files` while two
unlinks of its file are under way. `Ops` selects the operations the clients of a
run use. Why the bounds are enough: a conflict on a contact takes one request
that holds a copy and one that writes, and the cached copy comes on top of the
two requests' own; two contacts and two details are what it takes to confuse one
with another; two tags and two names make the index refuse. For the safety
properties the choice matters less than it might, since all of them are also
proved for all bounds; `FreshSaveIsExact` says of the columns of a contact what
only the proof covers (no fields in these runs). In `accounts` two codes allow
a registration and a mail with a reset code, which two resets can use at once, or
two registrations; an account with several reset codes is left to the proofs. In
`files` two requests are one more than a removal needs to find its file gone, and
two files show that a restart cuts both. In `transfer` one import is enough,
because imports meet in one statement only, and creates and deletions come
between its awaits; its files have empty cells at both ends, blank lines, foreign
separators, ids of their own, JSON with JSON in it, one column, no row and
nothing at all. Deadlock is checked in every run but `metrics` and `transfer`,
which stop at their bounds: there is always a request to make or an entry to
expire.

Three runs show the code doing something other than a comment, a document or a
test says. Each checks one property that states the words:

| run | the words | what the code does |
|---|---|---|
| `book_update_answer` | update returns "the updated contact" (`contacts.service.ts:217`) | answers the cached contact of before the update |
| `book_delete` | "Permanently deletes a contact" (`contacts.controller.ts:318`) | a later PATCH saves the cached copy and restores it |
| `book_duplicate` | no second email with the same value on a contact (`test/emails.e2e-spec.ts:140`) | two overlapping creates both succeed |

The first two need one request at a time, and no race. Departures that are in
the model without a run: "Invalidate contacts cache for this user"
(`contacts.service.ts:82`) does nothing on a manager without `reset`, so a list
of before a create is answered until it expires; an import of several rows
inserts one (the example answer at `contacts.controller.ts:233` counts 25); and
`findOne` is of a contact "belonging to the specified user"
(`contacts.service.ts:167`), and `CacheHit` answers a cached contact whoever
asks, since the query that looks at the owner comes after it.

### Fairness

Assumed where liveness is checked (`FairSpec` of `AddressBook` and of `Health`,
`FairListSpec`): weak fairness of the next step of each request, since an await
whose call has answered is resumed by the event loop and the calls do answer or
fail; and of the expiry of each cache entry, since a set gives it a time to
live. Clients owe nothing: no request need ever arrive. `RequestsEnd` and
`ProbesEnd` say that every path through the handlers answers, the failing ones
included. `EventuallyFresh` and `ListsSettle` then say what the time to live
buys: if the writes stop, staleness ends. They would fail if a hit renewed an
entry, which the mutants `CacheHitExtends` and `ListHitExtends` show.

## The proofs

Every invariant and action property that a run checks is also a theorem, and so
are the three refinements, of which that of `ContactBook` is proved twice: of the
contact routes alone, and with lists and imports next to them. They hold for any
finite or infinite sets of users, contacts, details, requests and so on, and for
any bounds, under the named assumptions of the modules only: kinds of detail are
disjoint, ids and times are numbers, limits are positive, `Ops` are operations,
uploads are files, the timer's figures are a kind of entry, starts are one of the
two, what is in a value is a value and less deep, and `None` and `Undefined` are
none of the other values. TLC evaluates the assumptions in every run. The one
hypothesis beyond them is that `Contacts` is finite, in `WalksVisitAll`: ids are
a bounded integer column, and of an infinite table there is no last page. Of
liveness, the part below is proved that needs no fairness in TLA+'s form.

A proof is the same three facts each time: the inductive invariant holds at the
start, a step keeps it (one lemma per action or group of actions), and it implies
the property. What the invariants need beyond the property, and why:

**AddressBook_proofs**

- `TypeCorrect`: `Spec => []TypeOK`. `TypeOK` is inductive because it also says
  what a request at an await has (`RequestTypeOK`): a request at `save` holds a
  contact, and `Way(op)` lists the awaits an operation can be at. Without these
  conjuncts, `Save` could not be shown to write a contact.
- `DetailsAtHome`: `Spec => []DetailsStayHome`. The invariant is inductive
  together with `TypeOK`. The argument is in two lemmas: `CopiesAfterNext`, that
  a step creates copies of a contact only from other copies of it or by loading
  it, so a new entry in a copy is a detail the table attaches to that contact;
  and `MovesAfterNext`, that the contact of a detail changes only by its insert,
  or by a save, to the contact saved when the saved copy lists the detail and to
  none when it does not. The two together keep copies and table agreed.
- `DeletedForGood` and `DetailLostForGood`, the action properties `GoneForGood`
  and `LostForGood`, from the same two lemmas: a save needs a copy, and a load
  needs a live row.
- `TagsDeletedForGood`, which is `TagsStayGone`: `TagMovesAfterNext` says that a
  tag is brought back only by a save of a request that holds it or has fetched it,
  and `OnlyTagsFoundSaves` that a fetched tag was live.
- `FreshSaves`, the action property `FreshSaveIsExact`: from `TypeOK` and
  `OnlySaveSaves`, that only `Save` takes a request from `save` to `lookup`.
- `RequestsDoNotGoRound`: each step of a request lowers `AwaitsLeft`, which is at
  most 9 and depends on the request alone, and no step of another touches it
  (`OwnSteps`). `RequestsAreAnswered`, which is `RequestsEnd`, follows by counting
  down.
- `RestMakesNothingStale`: while the tables rest, a copy that becomes stale would
  have to come from a load, which is current, or from a copy that was stale. Then
  `FillsCatchUp` says that a request under way when the writes stop stores what is
  current once it has been answered, since a later one loads current rows
  (`FillsStayCurrent`), and `EntriesCatchUp` the same of a cache entry once it has
  run out (`EntriesStayCurrent`).

**ContactBook_proofs** proves `RoutesImplementContactBook`, the refinement of
`ContactBook`. `BookInv` adds three facts to `TypeOK` and `DetailsStayHome`: a
request about to erase a contact or to attach a detail has found the contact
(`ContactFound`), a copy is of a contact that was inserted (`CopiesHaveRows`), and
a request about to drop a detail has found its row (`DetailFoundFirst`). Then
`OneRowMoves` says what a step does to the contact table, `LifeAndOwner` which
abstract step that is, and `HomeMoves` follows the home of a detail: it is given
at the insert, never changed, and lost for good.

**ContactList_proofs.** `ListInv` adds to the two type invariants that every page,
cached or held by a request, is of the user it is kept for (`PagesOwn`), that a
request counts and finds only pages there can be (`PageAsked`), and that the rows
inserted are finitely many, as long as the steps are. `ListsOwn` follows, since no
write changes the owner of a row. `WalksVisitAll` is arithmetic: ordered by id, each
match has a rank, no rank is left out (`EveryRank`), a rank lies on one page
(`OnePage`), and the count divided by the limit and rounded up is where the pages end
(`CeilDivExceeds`).

The properties of the contact routes are proved again for `ListSpec`, because an
import is not a step of `AddressBook`: `ImportEffect` says that it inserts one live
contact of its user and moves nothing else, so `BookInv` stays
(`BookInvWithLists`), and `ListsImplementContactBook` maps it to an insert. The
five theorems `DetailsAtHomeWithLists`, `DeletedForGoodWithLists`,
`DetailLostForGoodWithLists`, `TagsDeletedForGoodWithLists` and
`FreshSavesWithLists` follow as before.
`ListRequestsEnd`, `PagesCatchUp` and `ListEntriesCatchUp` are to lists what the
theorems about awaits and copies are to contacts: with the tables at rest, the
count and the rows a request holds are those of the table (`PagesStayCurrent`),
although the code reads them in two statements.

**Accounts_proofs.** `AccountsInv` has four parts. `Shapes` says of each await what
the request holds there, and of the entity about to be saved that its previous
password was hashed once and its new one is either that, what was typed, or null:
this makes the hook's comparison harmless however old the copy is, hence
`EveryPasswordIsHashedOnce`. `RowsConfirmable` and `CopiesConfirmable` say
`Confirmable` of the rows, and of the copies requests hold, together with the mails
about to be sent; a save of an old copy then puts back a state that can be
confirmed. `TokensOnce` says that a code is drawn once, and inserted once by the
request that drew it. The two refinements of `SoftDeletion` map an account and a
code to their lives: `AccountsImplementSoftDeletion`, since only an entity brings
back a row, and `CodesImplementSoftDeletion`, since only a reset that has found a
code keeps it. `FreshSavesChangeTheirOwn` is `FreshAccountSave`.

**Transfer_proofs.** `TransferInv` says that a taken id beyond the sequence was
named by a file (`TakenBySequence`), and that all ids in an export, and in whatever
import of one is under way, are taken (`IdsTaken`), which stays so as rows are
never taken out of the table (`RowsGrow`). What an import does to the table is one
lemma, `InsertEffect`, from which `ImportsOnlyAdd`, `ReimportsAddNothing` and
`LossesAreNamed` follow. `SeparatorsAreFound` is about every file, of any length:
in each line considered the own separator occurs more often, so the occurrences of
any other map into those of the own one, line by line, and leave one out
(`SmallerUnion`); hence its score is the only best one (`BestScore`).

`RowsAreCleaned` is about JSON of any depth. The induction theorems of the library
are not to be had here, so each induction is by contradiction, on a counterexample
that is the least deep of all (`Shallowest`). The same argument shows that the
recursive functions of CellCleaning are what their equations say
(`RecursionExists`, from which `ParseStringsIs`, `CleanObjectIs` and
`KeysWithinIs`; `OneLevel` has the equations form by form). Then:
cleaning leaves no timestamp (`CleanedHasNoTimestamps`), cleaning twice is cleaning
once (`CleanedTwice`), and what was parsed and cleaned has no string left to parse
(`ParsedTwice`); the three together are `CleanupIsFinal`.

**Files_proofs.** `FilesInv` adds to the type invariant that nobody else is at a
file while it is uploaded (`UploadsAlone`) and that a removal which has found a
row has one (`RemovalsHaveRows`), and it says of every moment of an upload or a
removal what `StorageMatchesTable` says of a file at rest (`StorageFollowsTable`) and
of what leads up to an unlink or an open what `NothingMissing` says of those
(`AloneUnlessMet`). Failures and restarts are steps like the others.

**Health_proofs.** `HealthInv`: as long as no other probe came between, the entry is
the one the probe has stored, or its time is over (`EntriesHold`); and in memory,
where the three calls are one turn, a probe is alone with the cache (`MemoryAlone`).
`ProbesAreDone`, which is `ProbesEnd`, counts down the steps a probe has `Left`, at
most 6: the calls that go on behind an answer are among them.

**Monitoring_proofs.** For each buffer, `BufferFits` says that it is the end of the
complete log, that what it lacks is beyond the bound or the retention, and that it
spans no more than the retention; `failed` is what was recorded as errors. The
lemmas follow one `Record` through its two cuts, `CappedFrom` by the bound and
`TrimmedFrom` by the retention. `SummariesAreComplete` counts: what a summary sees
of the buffer is, moved by what was dropped, what it would see of the log
(`MovedAreAsMany`).

**Liveness.** The runs assume weak fairness, and the provers do not know `ENABLED`.
The theorems assume instead what weak fairness comes to where a request can take a
step at every await: `Resumed(p)` (and `ListResumed`), that infinitely often it is
idle or takes a step, and for a cache entry `Expires` (and `PageExpires`), that
infinitely often it is empty or runs out. That every await does have a step, so
that fairness gives `Resumed`, is what the fair runs check. `EventuallyFresh` and
`ListsSettle` are proved per request, per contact and per key, not as they stand:
from "each entry is current from some time on" to "from some time on all are", for
finitely many, is an induction over temporal formulas, which is out of the
provers' reach too.

So only model-checked are: `EventuallyFresh` and `ListsSettle` as wholes, and
`RequestsEnd` and `ProbesEnd` from weak fairness itself.

## Not modelled, and the plan

Not modelled at all: interceptors, logging, mail templates, configuration, seeds
and migrations (no state of the program's own, or constants), the countries and
type tables (read only), `CacheInterceptor`, `QueryOptimizationService` and
`PerformanceService` (used by no module of the application), the list of users
(reads only), the file filter and the scripts of the repository. Guards and
validation are the free choice of a request that throws.

Five hazards have no property. `CacheHit` answers whoever asks, and nothing in
the model says otherwise; the key of a page is taken apart by `KeyOf` as it was
put together, where in the code a search term that contains `:type:` can have
the key of another query; the removal of a replaced avatar fails before it does
anything (`AvatarRefused`); removed files stay in S3 (`TakeS3`); and a reset that
fails between its save and the deletion of its code is answered as failed with the
password set and the code still good (`Fails`). Of three more a property covers
what must not happen, and not what the code does and nothing forbids: the second
of two overlapping PATCHes undoes the columns of the first, a saved copy gives a
renamed tag its old name back, and two resets that both find a code both work.

What could come next: the avatar's upload inside a PATCH, which would join
Contacts and Files; the other columns of a profile; and the interleaving of the
statements inside one `save` of TypeORM, if the isolation level of the database
were made a parameter.
