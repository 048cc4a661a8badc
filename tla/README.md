# Verification of the Fabric Operations Console

TLA+ models of the parts of the console's server (athena, `src/packages/athena`)
whose correctness depends on the order in which several processes, or several
consoles, read and write shared documents. TLC checks them on small instances;
TLAPS proves every safety property that a passing run checks for all values of the
constants.

`PROJECT.json` lists the components, runs, findings, hazards, theorems and, for
each definition, the lines of code it stands for.

## 1. The system

One console is a few identical node processes behind a load balancer, with one
CouchDB. CouchDB is the only state they share: the processes coordinate by
documents, by CouchDB's revision check (a write with an outdated `_rev` is answered
409), by a lock built on it (lochness), and by messages written to a database whose
`_changes` feed every process follows (pillow talk). Consoles of different
organizations talk to one another only to collect signatures, over HTTP. The
user interface (apollo), the library stitch, the fabric-deployer and the gRPC-web
proxy are separate programs.

| Component | State | Operations | Interacts with | What is hard | What must hold |
|---|---|---|---|---|---|
| lochness (`lochness.js`) | one document per lock: owner, stamp, lease, released | apply, release | CouchDB; patch_lib, ot_misc, app, migration_lib | check and write are two requests; clocks differ; owners die; release checks no owner | one task at work; a live lease is not taken; the lock comes free |
| users and roles (`permissions_lib.js`, `settings.js`) | `access_list` in the settings document; a copy in each process | add, register, edit, delete users; change, reset passwords; reload | CouchDB, pillow talk | every handler writes the whole list; requests are authorized by a copy; reloads overtake one another | no update lost; a manager remains; copies converge; requests end |
| signature collections (`signature_collection_lib.js`) | a document per channel update at each console | create, append, delete, resend, set visibility | other consoles over HTTP, CouchDB | a read, seconds of HTTP, then a write; requests lost, late, in different orders, twice | no signature lost; only trusted ones; consoles agree; requests end |
| console migration (`migration_lib.js`) | `migration_status` in the settings document; what each process polls | four steps under the lock, polled by every process | lochness, pillow talk, jupiter | each process reacts to the same result; marks are lost to conflicts | steps in order; an end that is true; the migration ends |
| sessions (`couchdb_session_store.js`) | a document per session; a cache per process | get, set, destroy, clear, delete all of a user | express, pillow talk | caches refilled behind a write; an older request saves last | nobody is logged out or shown an old session by a race; what is gone stays gone |
| change feed (`pillow_talk.js`) | last sequence in each process | connect, deliver, reconnect, broadcast | CouchDB, app.js | a process that does not know its last sequence reconnects at now | a live process sees every message |
| webhooks (`webhook_lib.js`, `template_lib.js`) | a document per transaction | start, edit, expire, finish | deployer, the client's url | answers race with expiry; the client is told before a write that may be repeated | progress is not taken back by mistake; the client is told the outcome, and told it last; a transaction ends |
| backups (`db_backup.js`) | one backup in a process's memory, a backup document | back up, restore | CouchDB | the database is in use meanwhile; conflicts in bulk writes | a backup is a snapshot, or says how far it goes; a restore gives no document up too early |
| document cache (`ot_cache_couch.js`) | a cache per process | read, write through, evict | CouchDB, all libs | a late read fills the cache after a write | a process does not go back to an older document |
| components and deployer client (`component_lib.js`, `deployer_lib.js`) | component documents; what the deployer has deployed | create, delete (forced, by tag, all, at the deployer only), import, edit | deployer, CouchDB | several requests, one of which fails or is handled late; names and ids that are asked for twice | a document for what is deployed; nothing left of a failure; nobody else's component deleted |
| upgrades, TLS renewal (`patch_lib.js`, `ot_misc.js`) | component documents | upgrade orderers in turn, renew | lochness, deployer | the work may outlive the lease | one process does it |
| lockout, notifications, metrics, keys, proxies, validation | counters, records | | | little | |

The hazards of this code, each at its line, are in `PROJECT.json`. A property is
named for each that is covered; the others have a note.

## 2. Modules

| Module | Models |
|---|---|
| `LockService` | what callers expect of a lock (abstract) |
| `Lochness` | `lochness.js`, and `ImplementsLockService`: it is a `LockService` |
| `AccessList` | the handlers of `permissions_lib.js` that write the access list, `repeatWriteSafe`, and the copies of the list in `settings.js` |
| `SignatureCollection` | create, append and delete of `signature_collection_lib.js` at several consoles |
| `CouchDocs` | one database with an update sequence: writes, `_changes`, revisions |
| `Backup`, `Restore` | `async_backup` and `async_restore` of `db_backup.js`, over `CouchDocs` |
| `BackupRestore` | both, with others who use the database, and the death of the process |
| `MigrationPlan` | what a migration promises (abstract) |
| `Migration` | `migration_lib.js` in several processes, and `ImplementsPlan`: it is a `MigrationPlan` |
| `PillowTalk` | the change feed: `pillow_talk.js` |
| `SessionStore` | `couchdb_session_store.js` with its caches, over `PillowTalk`, and those who use it |
| `Webhook` | `webhook_lib.js`, and the template builder that edits the document |
| `Components` | creation and deletion of components: `deployer_lib.js`, `component_lib.js`, and the deployer as the console sees it |
| `MC...` | the instances TLC checks: who is where, which requests are made |
| `..._proofs` | the theorems of a component and their proofs |

In all of them a step of a handler is what it does between two requests to CouchDB
or to another console: node runs a callback to its end, so only the answers of
requests interleave.

**Revisions.** Most models have no revision numbers. A handler's copy of a
document has the document's `_rev` until somebody else writes it: `current` is the
set of those whose copy still has it (`base` in `SignatureCollection`, which also
has documents without a `_rev`). A write lands only for such a copy and makes all
others outdated. This is exact, as CouchDB only ever compares `_rev` for equality.
`CouchDocs` and `SessionStore` do have them, because `_changes` and the comparison of
cached sessions with stored ones need them.

**Lochness.** A task is one caller of `apply`. Its step (`pc`) is the place in
`apply`, the caller's callback (`held`) or `release` it has reached. `CheckLockDoc`,
`CreateLockDoc`, `ApplyForLock`, `WriteLock` are the requests and the check of
`apply`; `ReadForRelease` and `WriteRelease` those of `release`. A failing request
leads to `idle`, also after a write that landed (a PUT that timed out is sent again
by `retry_req` and gets a 409). `Crash` is the death of the process or a caller that
never releases. Instead of the time of day, the document has its age and every
process an offset: what the code compares is `age` plus the difference of two
offsets. `LeaseCoversWork` is what callers have to choose for the lock to exclude:
nobody forces it, and work ends within the lease on the fastest clock.

**AccessList.** A request is authorized by the list in its process's memory
(`Receive`, the middleware), reads the settings document, edits the list it read or
refuses (`ReadDoc`), and writes it by `repeatWriteSafe` (`WriteDoc`; on a 409
`ReadAgain` reads the document for its `_rev` and puts the *old* list into it, as
`modify_doc_logic_sync` of each handler does). Then it reloads the settings, and is
answered by whichever reload of its process ends first (`settings.update` calls all
waiting callbacks). `Push` is the reload caused by the change feed, `Timer` the 90
minute one. An entry is a role and whether the user has a password of his own; the
salt, hash and dates are left out.

**SignatureCollection.** A call `<<r, c, n>>` is request `r` as console `c` handles it
when it is sent there for the `n`-th time: that of the user's own console, which
distributes it (`Distribute`, `Answer`, `Timeout`, `Collected`), or that of a console it
is sent to (`Receive`). `SendAgain` is `retry_req`: a sender that got no answer in time
sends the request again, and then both are handled, in any order or at once; only an
answer to the last one counts. Both kinds of call refuse or miss by the same checks and
end with `Write`, `Conflict` and `ReadAgain`, or `FindRev` and `Remove`. `Destinations`
and `Marked` are `build_destinations`: whom it asks, and that it writes the request's
signatures into the document it was given. A call that was never delivered stays `sent`,
one whose answer comes late goes on after the sender's timeout, and a refused one (400)
is repeated as a PUT which nobody waits for. A signature is a number that says when it
was made, so that an older one can be told from a newer one apart from the timestamp of
its entry.

**Backup, Restore.** A pass is `GetChanges`, a `GetDoc` for each changed document (a
`_bulk_get` is no snapshot, so each is read at a time of its own), `UpdateBackup` and
`CheckChanges`, which asks whether another pass is needed. `StartRestore`,
`PickBatch`, a `WriteDoc` for each document of a batch (`_bulk_docs` is no
transaction), `CopyRevs` for those answered with a conflict, `EndBatch`. The value of a
document is the sequence of the write that first brought it into the database, so
that versions differ and a restored one is recognized. A document whose read is answered
with an error, or not at all, is left out of the pass, which goes on as if it were
complete (`GetDoc`). `missed`, `failed`, `written` and `raced` are history variables the
properties use. The copy of the backup in the file
system is left out, except that writing it may fail.

**Migration.** A chain is one run of callbacks: a start request, or one tick of a
process's polling interval (25 s) with all that follows: read and write the settings
document, take and free the lock, post to the deployer, broadcast. A poll and the
check of its answer are one step, as a step that is done stays done. Messages arrive
one by one in each process; the model lets at most `MaxPending` wait, as a message
does not take 25 s. A process's `url` is its copy of the new console's address, which
the others learn only by reloading. Time stamps other than the first and the last
are only displayed, and left out. `late` is `calc_timeout`.

**SessionStore.** One session: sessions share nothing. Requests load it
(cache, else CouchDB), run their handler and save it (`set` reads the document again,
compares, writes). `Kinds` are the requests: `view`, `login`, `logout`, `edit` (a
manager changes the user's roles, which deletes his sessions), `sweep` (removal of
expired ones), `clear` and `clear_all`. `scheme` says whether the user's profile is
in `passport_profile`, which `set` guards, or `couchdb_profile`, which it does not. A
request's answers from CouchDB are steps of their own (`got`, `found`), so that a
flush of the cache may come between. `late` (history) names the processes
that the code lets keep an old entry after a flush.

**Webhook.** The builder makes the components one after the other and edits the document
after each; a client asks for the document (which may time it out) or edits it: the body
of the PUT (one of `Bodies`) may set the status, the step, the steps in all and a note,
as it is passed whole to `edit_webhook`; a sweeper is the interval of a process, which
lists expired documents, asks the deployer, and takes over what it answers (whole, too)
or times them out. All edits go through `edit_webhook` (`Begin`, `Read`, `Write` and
`Conflict` of `repeatWriteSafe`), which caps the step by the steps in all and sends the
client the document before it is written if it ends the transaction (`told`, `last`).
`touched` and `dropped` are history variables: someone else than the builder has set a
step; an outcome was sent whose write failed, was given up or died. The age of the
document is 0, 1 (past its `timeout_ms`) or 2 (another 15 seconds, as the interval
demands); a `timeout_ms` that a user sets is taken to pass like any other.

**Components.** A provision asks for the names `Nodes[p]`: one, or the nodes of an
ordering cluster. The deployer deploys all of them or none (`Deploy`), refuses
(`AlreadyExists`) or fails; the console hears of it (`Created`, `Refused`, `Broken`, an
error that names what was deployed, `Failed`, an error that does not, and `Lost`, no
answer or a timeout, so that `Deploy` may come later). Then it writes a document for
each name (`Record`, `Conflict`, `RecordFails`) and, if one could not be written,
deletes all it deployed (`CleanUp`) but keeps the documents that were. After an error
without a name the clean-up goes by the id of the request (`ById`), which for a cluster
is not that of its nodes (`CleanUpCluster`). After no answer it goes by the name of the
error that stands for the body, which is nobody's (`Lost`). A deletion reads the
document (`Load`), has the deployer delete what it is of (`AskDelete`), reads it again
(`Offboard`) and removes it (`Remove`); a DELETE that timed out is in `flying` until the
deployer handles it (`Land`). A deletion of `Offboards` may be for the document only and
begin with `Offboard`: `DELETE /components/:id`, its form by tag, and what the lists of
a deletion by tag or of all say was not deployed from here. Names and ids are not
computed: the console picks names that are free in a list which is old or may not have
been readable, and the user may give any, so any two requests may ask for the same one,
and a document gets any id that is free. What is deployed is recorded with the provision
that did it, which the deployer does not know; the properties need it, to tell a
component from a later one of the same name. The deployer knows a component by type and
name; the model has one name space for all types, so more requests are in each other's
way than in the code. `repeatDelete` reads the document's `_rev` and deletes that
revision; a conflict is one of the outcomes of `RemoveFails`, as it is not repeated
(section 5). Requests that are answered 429 had no effect and are sent again, so they
are left out, but not those that are answered 408: `createNewDoc` may then write a
document twice (`doubled`). A console that restarts is one that goes no further with a
request.

## 3. Runs

| Run | Shows |
|---|---|
| `lochness_faults` | Three tasks, two clocks that differ by a tick, leases exactly as long as the work on the fastest clock (3 = 2 + 1), faults and crashes: `MutualExclusion`, `ReleasesOwnLock`, `NoLiveLockTaken`, `ImplementsLockService`; the lock comes free (`LockComesFree`); and though each applicant stamps itself as the winner before it writes, one of those that apply for a free lock gets it once requests no longer fail (`SomeoneWins`) |
| `access` | Two managers demote one another, or one adds a user while the other demotes both, with conflicts, lost answers, restarts: `ManagerRemains`, `FirstWriteMerges`; requests are answered (`RequestsEnd`), and every process ends with the list of the document (`SettingsArrive`) |
| `access_last_manager` | *violation.* A manager who has just been demoted, but not yet in the memory of one process, deletes the last manager |
| `sig_collect` | Two consoles, two signers at different consoles, a creation and a deletion. One append may be sent twice, and one console does not have the certificates of the other's signer: `FirstWriteKeeps`, `SignaturesTrusted`, `SameSigners`, `RequestsEnd` |
| `sig_lost` | *violation.* A write repeated after a conflict drops the signature another request added |
| `backup_restore` | A database of two documents is backed up and restored while others write and delete, requests fail and the process dies: but for the documents that were left out when they were read (`missed`) what a backup holds is current up to its last sequence (`UpToLastSequence`), and a backup without a failed request is a snapshot (`EndsAsSnapshot`), and a batch of a restore gives no document up before its last try (`EveryDocRestored`) |
| `migration` | Two processes poll one migration, with a failed request or a restart: `ImplementsPlan` |
| `migration_ends` | The same without faults: `MigrationEnds` |
| `migration_twice` | *violation.* The work of one step is asked for twice |
| `sessions` | A login in one process, an older request of the session (or the removal of all sessions) in another, and something that ends the session, with a fault: `ProfileStays`, `CacheWasStored`, `FlushTellsOfLogin`, `GoneForGood` |
| `webhooks` | A template of two components, a client who asks or edits the status and the steps, a sweeper, a fault: `ProgressKept`, `ToldTheOutcome`, `OutcomeToldLast`, `Settles` |
| `components` | A peer and an ordering cluster with a node of the same name, two deletions of one document, one of them forced and either perhaps for the document only, and a deletion at the deployer only, with two faults: what is deployed has a document (`NoOrphans`), unless one that is for the document only, forced or overtaken took it, and stays until it is deleted for a reason (`KeptUntilDeleted`), a provision that fails with an answer leaves nothing deployed (`FailureCleaned`), a component has one document (`OneDocEach`), and what was deleted stays away (`DeletedForGood`), with the exceptions of section 5 |

The first attempts and the repeated ones are told apart in `FirstWriteMerges`,
`FirstWriteKeeps` and `SameSigners` because of what the violations show:
CouchDB's revision check protects a first attempt completely, and `repeatWriteSafe`
as it is used in these two places protects no other. `edit_webhook` uses it better: it
applies the edit to the document it has read again, so `ProgressKept` holds for
repeated attempts too.

**Bounds.** `MaxAge`: ages stop counting when every process sees every lease expired
(`MaxAgeAssumption`), so nothing can tell larger ones apart. `MaxHold` is not a bound of
the model but an assumption on callers. Three tasks are needed for one to enter while a
second is within its lease and a first releases late. `MaxAttempts` is 2 in most runs
and 5 in the code: 2 already has a first, a repeated and a last attempt. Two requests of
AccessList suffice for each pair of handlers to interfere; each is made once. A process
has one reload at a time that no handler waits for. Two consoles, of which one speaks
for two organizations, suffice for requests to cross; `MaxSends` is 2 in `sig_collect`
for the requests in `Resent`, enough for two handlers of one request to meet (3 in the
code; the second attempt after a 400 is not sent again in the model), and 1 in
`sig_lost`. `MaxPasses` and `MaxTries` are 3 (4 in the code), enough for a first, a
middle and a last one; `BatchSize` 2 lets both documents be in one batch, and a document
that a backup has twice in one batch or in two; others write until the sequence is
`MaxSeq` = 3, which leaves room for a write between two passes and for one during a
restore. A migration has one pending message per process (`MaxPending`), one fault, and
counts posts up to one more than the property needs (`MaxPosts`). In `sessions` a
document has at most `MaxRev` revisions written for a later `last_access` only (others
are not bounded), and there is one fault. In `webhooks` `Size` is 2, so that there is a
first and a last component, and `Bodies` has one edit, which has the document pending
again and sets a step beyond the steps in all. In `components` two ids of documents
suffice for a document of each node of the cluster and for a conflict with that of the
peer (with three nothing changes); `MaxAttempts` is 1 (3 in the code), which has a
repeated attempt and a last one; both deletions are in `Offboards`, so that each kind
meets each; two faults are needed for what no single one shows, as a write and its
clean-up that both fail. Each request is made once in these models, so that the runs end
(`CHECK_DEADLOCK FALSE` for this reason; the other runs check for deadlock).

The bounds of instances are not always innocent: with two consoles consoles also agree
after deletions, as the one that deletes is the one that creates. With three, TLC shows
a creation that is sent again and comes after the deletion at one of two other
consoles. So `SameSigners` speaks of requests that are no deletions. It and
`SignaturesTrusted` are proved for any number of consoles and requests, and any number
of times these are sent, as are all safety properties (section 4).

**Fairness.** In Lochness callbacks of live processes run and time passes; nobody
has to apply, and a crash may come at any time. `LockComesFree` asks no more than
that *some* process sees the lock free: for a process with a slow clock the stronger
property fails, as one with a fast clock may always take the lock first. In
AccessList handlers go on, the feed delivers, the timer fires; a reload that is
tried again and again does not fail for ever (strong fairness of `Install`), as
retries of a CouchDB that is up succeed at some time. Without the timer
`SettingsArrive` fails: the reload of a handler that read an older document may be
the last to end, and the feed does not deliver the newer one again. In SignatureCollection
only the console a user asked goes on, and only its timeouts are sure to happen: the
other consoles may be down for ever. In Migration callbacks run, intervals tick,
messages arrive, the deployer does the work it was asked for, and a poll is not
answered with errors for ever (strong fairness of `PollDone`); `MigrationEnds` speaks of
executions without failed requests and restarts, as a chain that fails (or dies) after
it has stopped the polling leaves a migration that nobody polls, and that ends only by
its time limit. In Webhook the builder
goes on unless it dies, intervals tick, time passes and the deployer ends what it
began. SessionStore, BackupRestore and Components have
safety properties only.

## 4. Theorems

Every safety property (invariant, action property or refinement) of a passing run is
the conclusion of a theorem. All are proved from the named assumptions on the constants
(`ConstantsAssumption` and so on), which say what the constants are. Where more is
assumed it is said here.

*Lochness.* `CheckInvariant` is the core: a copy that is still current belongs to a
task between its read and its write (`CopiesAreOfTheDoc`), and what `apply_for_lock`
saw when it checked the lease is still so (`ChecksStillGood`; leases only get older
while nobody writes). `TypeCorrect` and `LiveLockIsNotTaken` follow, whatever
the clocks, leases, faults and other callers do. `OwnerInvariant` adds that the
document of a task that owns the lock is the one it wrote (`OwnersWroteTheDoc`): a
task can only be overtaken by one that sees its lease expired, which under
`LeaseCoversWork` is after its release. From it follow `Exclusion`,
`ReleaseIsOfOwnLock` and `Implementation`. Mutual exclusion alone is not inductive:
it does not say that the document names the owner, without which a second task could
enter.

*AccessList.* `MergeInvariant`: a current copy of a first attempt is the document
with its request's users changed (a write of anybody else would have made it
outdated). `FirstWritesMerge` follows. `ManagersRemain` assumes `NoRemovals` (only
additions, edits and passwords): the list of a handler's copy always has a manager
(`CopiesHaveManagers`), as `edit_users` refuses to demote the last one in the list it
read, so whichever copy lands, repeated or not, the document has one. Deletions and
registrations break exactly this, see `access_last_manager`.

*SignatureCollection.* `TypeCorrect` carries that a handler past its read has a
document to write. `TrustedSignatures`: every copy at a console has only signatures
that console could validate, as documents do and as every request is validated where
it is handled, also as a PUT the second time. `MergeInvariant` and
`FirstWritesKeep`: a current copy of a first attempt is the document merged with its
request (after `Marked`), and a merge keeps every signer and makes no entry older
(`MergeKeeps`). `SignersAgree` (that is `SameSigners`) assumes `SignedAfterAsked`:
a signature has a later timestamp than the entry that asks for it. Consoles whose
clocks differ by more than the time a user takes to sign break that, and then the
console where he signs takes the signature (`copy2all` does not look at
timestamps) and the others drop it. `SameSigners` relates two consoles, which share no
state; it follows from `SignersTaken`, which speaks of one: who has signed in its
document is exactly who signed in the requests it has taken, as long as it deleted
nothing and repeated no write. For that to be inductive a copy without `_rev` must be
the document its request creates (`CopiesCreated`), entries without a signature must
stem from a creation (`EntriesAsked`, where `SignedAfterAsked` comes in), and a request
must not be begun a second time at the console that distributes it (`RootsFirst`).

*BackupRestore.* `BackupInv`: of every document but those a pass has still to look up
and those left out when they were read last (`missed`), the last entry read so far is
current unless the document was written after `upto` (`PassCovers`), which is what makes
the passes add up to `UpToLastSequence`; `BackupEndsAsSnapshot` is what remains of it
when the last `_changes` shows nothing new. `RestoreInv`: each document of the batch is
written; or is still to be sent, with a `_rev` that is current unless somebody wrote it
since (`Lands`); or was answered with a conflict, which in every try but the first is
somebody else's doing (`NoneForgotten`). With `ErrorsWereSent` and `NothingLeft` it is
inductive, and gives `BatchIsRestored`.

*Migration.* `IInv`: what was asked for had its earlier steps done
(`AskedInOrder`), a chain works on such a step and is past its check only on one that
is done (`ChainsInOrder`), and the end in the document is true (`EndIsTrue`).
`FollowsPlan` shows each step of `Migration` to be a step of `MigrationPlan` or a
stutter. Nothing in it depends on the lock: what keeps the order is that a step is only
ever begun by a chain that saw the one before done.

*SessionStore.* `CopiesStored`: what an answer on its way, a request or a cache has of
the session is a revision it had. `WritesKeepProfile`: what `set` is about to put does
not clear a passport profile. `LoginTold`: after a login a process with an old entry is
excused: the flush is still to come, an answer from before the login is on its way, or
it is `late`. With `CacheWasStored` and `IdleUndue` they are inductive. From these
follow the four properties; `GoneForGoodHolds` needs a case analysis of all steps
besides.

*Webhook.* `CopiesOfTheDoc` (a current copy is the edited document), `ToldFirst` (an
edit that ends the transaction was sent before it is written), `StepsOfTheBuilder` (the
document is not ahead of the builder while nobody else sets steps) and `LastTold` (what
was sent last is the document or what will replace it, unless someone who has sent an
outcome has still to write it or to repeat it) are inductive together, and give
`OutcomeTold`, `OutcomeIsLast` and `ProgressIsKept`. `OutcomeToldLast` is about the
order in which the posts to the client's url begin; nothing keeps them in this order on
their way.

*Components.* `IInv` says where each name is. What is deployed was deployed by a
provision whose POST is done (`Ours`, `Posts`), and a POST is handled once, so what is
gone does not come back: after a DELETE that worked `deployed[n] # p` for good. Likewise
a document, once written, loaded or removed (`Known`), is not written again (`Settled`:
its name is not `todo` any more), unless it is `doubled`. From these follow
`OneDocEach`; that a document which a deletion has loaded is where it was or nowhere,
and that the component of a deletion which heard "gone" is gone (`Progress`), hence
`DeletedForGood`, which is not about those for the document only (`RecordOnly`: they go
on without having loaded one); and that a name without an error in its writes has its
document or somebody removed it (`Recorded`). `NoOrphans` is what the two say together:
if it was removed and is still deployed, the deletion was for the document only, was
forced or had loaded another document. It is not inductive alone, as it says nothing of
provisions that are still writing. `Cleaned` counts what a clean-up has not come to,
failed at, or could not know, where the console had an answer, and is `FailureCleaned`
when the clean-up has ended. `Flights`: a DELETE that is still under way is of a request
that had and keeps a reason for it, which gives `KeptUntilDeleted`.

Not proved, only model-checked: the liveness properties `LockComesFree`,
`SomeoneWins`, `RequestsEnd` (two), `SettingsArrive`, `MigrationEnds` and `Settles`.
They rest on fairness and ENABLED, which the prover does not handle.

## 5. Findings

Shown by runs:

1. `permissions_lib.js:336`: the last manager can be deleted (`access_last_manager`).
2. `signature_collection_lib.js:507`: a repeated write drops signatures, though
   `docs/signature_collection_apis.md:486` says entries are merged (`sig_lost`).
3. `migration_lib.js:773`: a process frees the lock whoever has it, so a step is
   started twice (`migration_twice`).

Met while modelling, and not runs of their own:

- `lochness.js:166`: `release` does not look at the owner. A task whose work outlived
  its lease frees the next owner's lock. `patch_lib.js` asks for five minutes for work
  that may take five minutes for each orderer.
- `permissions_lib.js:276` and five other places: a write of the access list that is
  repeated after a conflict undoes what others wrote in between.
- `signature_collection_lib.js:895`: `copy2all` puts the request's signature into the
  entry before timestamps are compared, so the older of two signatures that arrives last
  replaces the newer one (`docs/signature_collection_apis.md:488` says it is ignored).
- `db_backup.js:828`: `copy_rev` stops at the first match, so of a document that is
  twice in a batch the first version is repeated (`docs/db_backup_apis.md:51` says the
  last one wins).
- `couchdb_session_store.js:531`: a session that was destroyed is made anew by a request
  that still has it. A logout whose delete conflicts is answered with success. With the
  `couchdb` scheme a request that is older than the login saves the session without the
  user. A flush that is skipped because a reload failed (`permissions_lib.js:286`)
  leaves old entries for two minutes.
- `webhook_lib.js:479`: the request that expires a document answers with the document
  from before, though the comment at line 195 says it is updated. A success can be
  overwritten by a time-out decided before it, an edit after an expiry sets the status
  back to pending, and the client may have been sent several outcomes, also ones that
  were never written: if the write of one fails or is given up, that may be the last one
  it hears of (`dropped` excuses it). A user's PUT sets `on_step` and `total_steps` too,
  backwards as well (`docs/webhook_apis.md:247`), after which the builder's own edit may
  set the step back, being capped by a smaller `total_steps`. The interval looks at 500
  documents at most.
- `component_lib.js:713`: two overlapping edits of a cluster's name may leave its nodes
  with different names, as conflicts of the bulk write are ignored
  (`docs/component_apis.md:276` says all nodes get the edit). `component_lib.js:1158`:
  the list of allowed urls is not written when the process's own memory already has it,
  though the document may differ; an edit that changes both a cluster's name and a url
  does not rebuild it at all (714). `component_lib.js:587`: an onboarding that is
  answered with 408 after it succeeded is sent again, gets a 409 and makes a second
  document with another id (`doubled` in `Components`).
- `deployer_lib.js:2029`: when the creation is not answered, `retry_req` puts the error
  in place of the body (`misc.js:961`). The clean-up copies it by JSON, so that
  `instanceof Error` (line 2039) is never true, and the copy has a name, "AxiosError" or
  "Error": what is deleted is a component of that name, and the id of the request, which
  the comment at 2038 means for this case ("OR is an error object, set null"), is not
  used. What the deployer created stays, without a document (`Lost`; `FailureCleaned`
  speaks of provisions that got an answer).
- `deployer_lib.js:2041`: a creation that is answered with an error that names nothing,
  other than 409, is cleaned up by the id of the request, also if the deployer did
  nothing, as it refused the request. If that id was already taken (the user may give
  one) this deletes a component that another request created, and leaves its document.
  `Means` in `KeptUntilDeleted` counts this as a reason, as the request did ask for that
  name. The comment at line 2025 speaks of undoing "a deployer component creation".
- `deployer_lib.js:486` says that the clean-up "prevents orphans". It does, except for
  what is deployed without the console getting an answer (see above), one whose clean-up
  fails (errors are ignored at line 2061), and the nodes of a cluster that the answer
  did not name. Nor are the documents removed that were written before one failed (line
  208): they stay without components. These are the exceptions of `FailureCleaned`.
- `deployer_lib.js:650`: two deletions of a document overlap and its id and the name of
  its component are used anew before the slower one goes on: it removes the new document
  and leaves the new component (`Abandoned` in `NoOrphans`), as `offboard_component`
  does not compare what it reads with what was deleted at the deployer.
- `component_apis.js:116`: `DELETE /components/:id` removes the document of a component
  that was deployed from here as readily as of an imported one, also by tag. The
  component stays deployed, without a document (`RecordOnly` in `Abandoned`). This is as
  documented (`docs/component_apis.md:298`, 586), and hence no divergence.
- `couchdb.js:389`: `repeatDelete` compares an error object with 409, so a deletion that
  meets a conflict is not repeated but fails.
- `db_backup.js:455`: a document that `_bulk_get` answers with an error, or a whole
  answer without `results` (446), is logged and left out; the pass counts as complete
  and `last_sequence` says so. Nothing in the backup records it, so the next pass does
  not read it again (`missed` excuses it in `UpToLastSequence` and `EndsAsSnapshot`).
- `signature_collection_lib.js:704`: after a 400 the callback of `eachOfLimit` is called
  at once and again when the second attempt ends. async throws then; in production
  app.js:1313 logs this and all goes on, elsewhere the process ends.
- `ot_cache_couch.js:133`: `repeatWriteSafe` called with a document has no id to cache
  it under.

## 6. What is not modelled

In the modelled components: the lock's history array; API keys; settings other than the
access list; resending, visibility, `orderers2sign`, lists of urls, chaincode fields,
`distribution_responses` and the authorization of requests in signature collections, and
CouchDB failures other than conflicts there. A create or append whose write fails ends
`hung`, because `format_sig_tx` throws on a missing document; `RequestsEnd` of
`SignatureCollection` counts it as ended and does not claim that the client is answered.
The nightly timer, the pruning and the file copies of backups, and the watchdog that
ends a restore with an error after 101 batches (`db_backup.js:658`; that of a backup,
line 431, is a `GetDocsFails`). What migrated data looks like, and the marks on migrated
components. Sessions of other browsers, and what is in a session besides the user; the
login of a user for whom there is no password hash at all (`authentication_lib.js:182`),
which is answered 401 without `couchdb_profile` being cleared. `tidy` of the change
feed. The clean-up after a failed template. Of components: edits, imports, the limit on
their number, the list of allowed urls, the caches and their eviction, what is in a
document besides the name of its component; consoles without a deployer. Of the
deployer: the resource of a whole cluster beside those of its nodes, creations that
deploy some nodes of a cluster, and everything but creation and deletion.

Components that are left out are listed in `PROJECT.json` with the reason. Most of the
repository's lines are the user interface, generated protobuf code, validation of
requests and Go or gRPC services with their own repositories; the share of lines the map
covers is small for this reason. Of the server, what is left has mostly no state that
several actors change.

## 7. What is left

In this order: edits of component documents and the list of allowed urls, whose
overlaps are among the findings, and the cache of documents each process keeps
(`component_lib.js`, `ot_cache_couch.js`); resending in `SignatureCollection` with the
`distribution_responses` it reads, and failing requests to CouchDB there; components
deployed in a row, of which one fails, and the clean-up that follows
(`template_lib.js`).
