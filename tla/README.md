# Verification of the document ingestion pipeline

The repository holds a Go worker that keeps a vector index (Qdrant) in step with
a watched folder, orchestrated by Temporal and recorded in a Postgres ledger, and
a small HTTP server that so far only answers `/health`. The core logic, and the
subject of these modules, is the pipeline in `src/backend/internal/ingest`.

## Inventory

| Component | State | Operations | What makes it correct |
|---|---|---|---|
| Sync: `SyncCatalogWorkflow`, `Activities.Reconcile` | the plan it is carrying out | list, read the ledger, diff, start children, one at a time | the ledger converges to the folder whatever else runs |
| Ingest: `IngestDocumentWorkflow`, ID `ingest:<doc>` | its stage, the entry it was started for, the text it read | fetch and extract, embed and upsert, delete stale chunks, record | at the end the row and the vectors agree; the document stays searchable during an edit |
| Purge: `PurgeDocumentWorkflow`, ID `purge:<doc>` | which of its two calls it is at | delete the points, delete the row | nothing of the document is left |
| `FolderSource` | none; the folder | `List` (names, then each file), `Fetch` | a listing may mix moments, later syncs make up for it |
| `QdrantClient` | the collection and its points | `EnsureCollection` (check, then create), `Upsert`, `DeleteStale`, `DeleteDocument`, `Search` (unused) | idempotent under retries |
| `Store` | table `ingested_files`, one row per document | `RecordIngestion`, `DeleteRecord`, `Versions` | one row per document |
| `ChunkText`, `Chunk.PointID` | none | cut a text into windows, name a chunk | no text lost, no redundant chunk, distinct names |
| `Extract` and the PDF, DOCX and EPUB readers | none | bytes to text, unsupported, or error | routing; reading order of an EPUB, its visible words and no others |
| `OllamaClient` | none | `Embed`, `Generate` (unused) | errors surface as failed attempts; the time it takes stays below the timeouts |
| Worker: `main`, `ensureSchedule` | the Schedule, the slots of its activities | migrate, connect, create the Schedule if missing, poll | any number of workers can start, restart and share the queue |
| Migrations | schema version | `migrate.Up`, four SQL files | applied once, keep one row per document |
| Configuration | none | `config.Load` | defaults, then file, then environment |
| HTTP server | the listener | `Run`, `corsMiddleware` | CORS policy, drain on shutdown |

Everything meets in three stores. The sync reads the folder and the ledger and
starts workflows; an ingest reads the folder, writes points and then the row; a
purge removes points and then the row. There is no lock: what keeps two workflows
apart is only that Temporal runs a workflow ID once at a time, and the ingest and
the purge of a document have different IDs.

What is hard here:

* The folder is read three times for one document (directory, `List`, `Fetch`),
  the ledger once, and a plan is carried out after both were read.
* Every activity has unlimited attempts, and an attempt that did its work can
  still be counted as failed, so each effect can happen more than once.
* Ingest and purge of a document can run at once.
* A change found while a workflow of the document runs is skipped and must be
  found again.
* Three calls must come in the order upsert, clean up, record, with two early
  exits that record only.
* All activities of all workers share one Ollama, and an attempt that has to wait
  for it too long is given up while it goes on.
* Workers run the migrations and create the Schedule without excluding each other.
* An EPUB is read through four nested formats, any of which may be sloppy.

`PROJECT.json` lists each hazard at its line, with the properties that cover it,
or why none does.

## Modules

| Module | Models |
|---|---|
| `QdrantStore` | operators on the set of points: `Upsert`, `DeleteStale`, `DeleteDocument`, the points of a document, their identity |
| `LedgerStore` | operators on the table: `RecordIngestion`, `DeleteRecord`, `Versions` |
| `Ingestion` | the pipeline: user, sync, ingest and purge workflows on the stores |
| `MCIngestion` | contents, versions and chunk counts for TLC |
| `IngestionProofs` | type correctness of `Ingestion` |
| `IngestionSafetyProofs` | the safety theorems of `Ingestion` |
| `LateRequests` | `Ingestion`, with requests carried out after their attempt timed out |
| `MCLate` | its instance for TLC |
| `LateRequestsProofs` | its type invariant and the theorem on stale vectors |
| `LateRowsProofs` | the theorems on rows without vectors and on emptied documents |
| `CatalogMirror` | abstract: a catalog that follows a folder |
| `MirrorHistory` | `Ingestion` with the history variables that map it to `CatalogMirror` |
| `MCMirror` | its instance for TLC |
| `MirrorProofs` | the refinement |
| `Chunking` | the loop of `ChunkText` |
| `ChunkingProofs` | its theorems |
| `Extraction` | operators: `Extract`, DOCX and EPUB |
| `DocumentText` | a file, its text, its chunks: `Extraction` and `Chunking` together |
| `MCDocumentText` | the files for TLC |
| `ExtractionProofs` | the theorems on the text of an EPUB |
| `WorkerStartup` | configuration, migrations and Schedule, by several workers |
| `EmbedWorkers` | `WorkerStartup`, and the started workers embedding documents in time |
| `MCWorkers` | its instances for TLC |
| `WorkerProofs` | the theorems of both |

### Ingestion: state and actions

One step is one call to a service, with the workflow bookkeeping around it.

| Variable | In the system |
|---|---|
| `source` | the watched folder: content of each file or `NoFile` |
| `points`, `collection` | the points of the Qdrant collection, and whether it exists |
| `ledger` | the rows of `ingested_files`; `NoRow` where there is none |
| `syncStage`, `dirents`, `toRead`, `listing` | a sync inside `List`: names found, names not yet read, entries so far |
| `planIngest`, `planPurge` (and `listing`) | the rest of the plan after `Reconcile` returned |
| `ingest[d]` | the workflow `ingest:<d>`: stage, `entry.Version`, content read |
| `purge[d]` | the workflow `purge:<d>`: the call its activity is at |
| `edits`, `faults` | counters for the bounds |
| `overlap` | history variable: documents whose ingest and purge ran at once |

| Action | Code |
|---|---|
| `ChangeFile` | the user writes or removes a file |
| `Tick`, `ReadListed`, `LoadLedger` | `Reconcile`: `os.ReadDir`, one `os.ReadFile` per step, `Versions` with the diff |
| `ReconcileFails` | an attempt of `Reconcile` is lost; the retry lists again |
| `StartIngest`, `StartPurge`, `SyncDone` | the two loops of `SyncCatalogWorkflow` with `startChild`, in sorted order, and its end |
| `FetchAndExtract` | the activity; its result picks the path of the workflow |
| `CheckCollection`, `CreateCollection`, `UpsertChunks`, `EmbedAttemptFails` | `EmbedAndUpsert`, request by request |
| `DeleteStaleChunks`, `RecordOutcome` | the activities of these names |
| `PurgeVectors`, `PurgeLedger`, `PurgeAttemptFails` | `PurgeDocument`, call by call |

After each effect the attempt is either acknowledged, and the workflow moves on,
or lost, and the activity starts over (`AcknowledgedOrLost`). An attempt lost
before any effect changes nothing and is a stuttering step. A file's content is
one of a few kinds: text of one chunk, text of two, blank, unsupported format,
corrupt. The version is an injective function of it, as sha256 is taken to be.
The text payload of a point is the content it was cut from, which is what tells
an edit between `List` and `Fetch` apart.

Temporal is external and modelled from how the code relies on it: workflow state
survives crashes, so a worker crash is a lost attempt; a workflow ID runs at most
once at a time; the Schedule does not start a sync while one runs (the default
overlap policy, which `ensureSchedule` leaves in place).

### LateRequests: state and actions

An activity of an ingest times out after 30 seconds without a heartbeat, and none
is sent during a request; `PurgeDocument` times out after a minute. The next
attempt then starts, while the request of the old one may still reach Qdrant or
Postgres. `late` holds such requests. A `GiveUp...` action ends an attempt with
its request under way and starts it over, as `LoseAttempt` does in `Ingestion`; a
`Land...` action carries the request out with the version and content it was made
with, at any later moment or never. `OnTimeStep` is a step of `Ingestion`, which
also marks the late requests of a document as strays when a workflow of it starts.
`strayed` is a history variable: the documents a stray has landed on.

### CatalogMirror and MirrorHistory

`CatalogMirror` is what a user of the index may rely on, without workflows. A file
goes through a sequence of states (`past`); the catalog shows for each document one
of them (`shown` is its position) and moves forward only. It may skip states and
be late. A moment in which a file cannot be read counts as one in which it is not
there, since `List` treats both alike. `disturbed` are the documents for which no
order is promised.

`MirrorHistory` adds to each step of `Ingestion` which past state it speaks of: the
listing that found it (`seenAt`), the workflows started from that listing
(`runAt`, `purgeAt`) and the row they write or delete (`shownAt`). `Mirror`
instantiates the abstract module with the ledger's versions for the catalog and
`overlap` for `disturbed`; `MirrorsTheFolder` is its specification.

### Chunking, Extraction and DocumentText

A text is its number of runes after `TrimSpace`, a chunk its index and window.
`Window` is one iteration of the loop with its break, `LoopEnds` the exit by the
condition, which only a blank text takes.

`Extraction` works on the tokens that the XML and HTML decoders return, since what
the code decides it decides on tokens. A rune is a word of the document, white
space, or `Raw` (code or markup). A path is the sequence of its components, where
"/" stands for an empty one, as a leading, a closing or a doubled slash makes; a
`full-path` or `idref` that is missing is a field that is missing, so that a present
but empty one is told apart. The two loops of the EPUB reader are functions of the
number of rounds: `DocRounds` gives the text and `skipDepth` after each token of a
content document (`ApplyToken` with `epubApplyTag`), `BookRounds` the text after
each element of the package file. `RootFiles`, `Manifest`, `InSpine`, `Resolve`
(`path.Join` of the package's directory and the href, cleaned component by component
by `Enter`) and `DocPath` lead from the container to the documents, and `Leads` says
which entries are not skipped. `ExtractEpubFiles` has the five error returns.
`Extract` is the routing. `DocumentText` starts the chunking from the text of any
file of `Files`. Its properties compare the text with what a reader of the book
sees, which `VisibleWords` and `ReadableWords` define without the extractor's state:
where an href leads is said by `PathMeant` and `Place`, by the depth each component
reaches (`Level`) and with the escapes decoded (`Unescape`), and which items count
by `TargetOf`. What the two sides share is which file is the package file (`OpfOf`,
the first rootfile with a path).

The HTML tokenizer is external. What matters of it is that the start tag of a raw
text element (`script`, `style`, `title`; all of them are `RawTextTags`) turns
everything up to its end tag into one text token, and that a self-closed tag of
that name does so too. `FilesAreTokenized` assumes of it only that markup is text
nowhere else: a text token that is `Raw` comes right after such a tag. Of the XML
decoder it assumes that the paths in attributes are paths. The files
for TLC are the legal ones in full (`LegalHtml`).

### WorkerStartup: state and actions

| Variable | In the system |
|---|---|
| `config` | what `config.Load` returns |
| `phase[w]` | how far `main` has come: "down", "migrate", "apply", "schedule", "create", "serving" |
| `seen[w]` | the version goose read |
| `version`, `schema`, `rows` | the version recorded last, the tables that are there, the ledger before its re-keying |
| `schedule` | whether the Schedule exists |
| `oldRows`, `faults` | history, and the counter for the bound |

`Launch`, `ReadVersion` and `ApplyMigration` are `main` up to `migrate.Up`, one
transaction per step; `DescribeSchedule` and `CreateSchedule` are the two calls of
`ensureSchedule`; `Crash` is the death of a process, or a call of it that fails
without effect. A process that ends with an error is launched again
(`restart: on-failure` in `docker/docker-compose.yml`).

goose is external: `UpContext` reads the version recorded last, applies the next
migration and records it in one transaction, and repeats. It takes no lock. What a
migration does is taken from its file: 1 does nothing, 2 fails if the table
exists, 3 deletes all but the newest rows of a path and fails if two are left, 4
fails once the columns are renamed.

### EmbedWorkers: state and actions

| Variable | In the system |
|---|---|
| `activity[d]`, `sinceBeat[d]` | Temporal: where the `EmbedAndUpsert` of a document is, and the time since its last heartbeat |
| `exec[s]` | the attempt in a slot of a worker: its document, chunks done, age, and whether it was given up |
| `ahead`, `progress` | Ollama's queue: for each slot those whose requests come before its own; the time spent on the first |
| `stalls` | counter for the bound |

`Poll` starts an attempt in a free slot below the cap. `EmbedChunk` is one round of
the loop with its heartbeat; the last one ends the activity. `EmbedFails` is an
error of `Embed`, `MissHeartbeat` the heartbeat timeout, `TimeOut` the
StartToClose timeout, `CrashWorker` a crash with the attempts it takes along.
`Tick` and `Stall` let time pass, once nothing is due at the moment. A busy slot has
one request at Ollama; `Asks` puts it behind all others, `Leave` takes requests out,
and the one with nobody ahead is `Served`.

Three things are simplified. The attempts of a crashed worker are found by their
missed heartbeats only; the StartToClose timeout could find some a little earlier.
The pause before a retry is left out, which only makes Ollama busier. The upsert
that follows the last chunk takes no time here: `Ingestion` and `LateRequests` say
what it may do to the stores.

## Runs

| Run | Checks | Bounds |
|---|---|---|
| `ingestion_safety` | types and the four safety properties below | two documents, contents of one chunk, two chunks and unsupported, 3 edits, 1 lost attempt or read, no collection at first |
| `ingestion_liveness` | `LedgerConverges`, `IndexConverges`, `IngestEnds`, `PurgeEnds`, `MirrorsTheFolder` | one document, contents of one chunk, two chunks and corrupt, 3 edits, 1 lost attempt or read, collection present |
| `late_requests` | types and the three properties of `LateRequests` below | one document, contents of one chunk, two chunks and unsupported, 3 edits, 2 lost attempts, any of them with a request under way |
| `document_text` | the three properties of windows, and three of EPUBs | windows of 5 runes overlapping by 2, lengths 0 to 40; every legal document of up to 4 HTML tokens; every package file of up to 4 elements over two documents; every href of up to 3 of seven components; every DOCX of up to 4 tokens |
| `workers` | types, three properties of migrations and startup, two of embedding | two workers, versions 0 and 2 with and without a tie, eight combinations of file and environment, one fault; three documents of 3, 1 and 1 chunks, cap 1, one tick per chunk, heartbeat timeout 3, StartToClose 5, one stall |
| `content_read_later` | `IngestedVersionIsTheContentRead`, violated | one document, two contents |
| `emptied_document` | `EditLeavesNoOldVectors`, violated | one document, text and blank |
| `purge_overlaps_ingest` | `PurgedMeansNoVectors`, violated | one document, one content |
| `purge_before_collection` | `PurgeEnds`, violated | one unsupported document, no collection |
| `late_upsert` | `RetriesAreSafe`, violated | one document, one late request |
| `embed_resume` | `DocumentsAreEmbedded`, violated | one worker, one document of 4 chunks, StartToClose 3, no fault |
| `schedule_exists` | `ExistingScheduleIsSuccess`, violated | two workers, one fault |

Safety of `Ingestion`:

* `IngestedRowHasNoStaleVectors`: once its run has ended, a row that says
  "ingested" has no vectors of another version, even after an overlap.
* `OnlyOverlapLosesVectors` and `OnlyOverlapOrphansVectors`: a row has all its
  vectors, and every vector has a row or a run that will write it, except for
  documents whose ingest and purge ran at once. They say exactly how far the
  missing exclusion between the two IDs reaches.
* `OnlyPurgeEmptiesADocument`: during an edit the document never disappears from
  the index.

With late requests (`LateRequests`): as long as no other workflow of the document
has started, a late request repeats what was done or is about to be done, and
nothing changes. So `OnlyStraysLeaveStaleVectors` (the first property above, up to
strays), `OnlyStraysOrOverlapBreakRows` (the next two, up to strays and overlaps)
and `OnlyPurgesAndStraysEmptyADocument` (the last one). What a stray itself may do is
exempt: a late upsert is the subject of `late_upsert`, and a late cleanup, which
removes the vectors of a newer version, falls under the exemption without a run of
its own.

`IndexConverges` asks of a document with text that Qdrant ends up with each chunk of
what the folder holds and none of another version. It leaves out two mishaps that
nothing repairs: an overlap of ingest and purge, and two contents mixed under one
version (`Mixed`), after an edit between `List` and `Fetch`. Without the second
exception it fails: listed as the long text, fetched as the short one, edited back.

`MirrorsTheFolder` is about the order of the rows: a plan can be stale, a run can
sit in a retry for days, a recorded row can be written again, and still a later
state of a file is never covered by an earlier one, except after an overlap.

Texts (`DocumentText`):

* `EpubWordsInReadingOrder`: the words of the text are the visible words of the
  readable documents of the spine, in its order, each as often as it is listed,
  with stray tags, repeated IDs, dead entries, and hrefs with ".", ".." and doubled
  slashes. It speaks of packages whose hrefs are plain (`PlainHrefs`): the code takes
  an href as it is written, so it finds no document behind one with a `%` escape or
  a leading slash, nor behind one that leaves the archive on its way, and skips such
  an entry without an error, where a reader would follow it.
* `OnlyRawTextLeaksMarkup`: code or tags reach the text only after a self-closed
  tag of a raw text element (`<script/>`, `<title/>`), or inside one that is not
  script or style (`<title>`). That they reach it after `<script/>` goes against
  "Content inside `<script>`/`<style>` is dropped entirely" (`extract_epub.go:195`).
* `BlocksSeparateWords`: words of different blocks or documents do not run
  together; two words with nothing between them have no block tag between them. The
  block tags are those of `blockBreakTags`; others, such as `td` and `blockquote`, do
  not break the line, although `extract_epub.go:230` speaks of any "block-level
  element".

Workers (`WorkerStartup`, `EmbedWorkers`):

* `RekeyKeepsTheNewest`, `ServingMeansMigrated`: whatever the race, migration 3
  keeps the newest row of each path, and no worker gets to the Schedule or serves
  before the tables are those of the last migration.
* `WorkersServeInTheEnd`: crashes, lost answers and the race for the Schedule keep
  no worker out, if the configuration can start one at all. Two things do, and the
  property names them. `Tied`: two rows of a path have one timestamp, and
  migration 3 fails on them on every launch. `Rewound`: the slower of two first
  workers records migration 1, which succeeds on any database, after the other
  has recorded a later one; every launch then applies migration 2 to a table that
  exists. That goes against "Idempotent" at `main.go:37`; the property holds only
  with the exception, and no run of its own shows it.
* `BeatsInTime`: with the cap, the time between two heartbeats of a running attempt
  is bounded by the cap times the number of workers times the time of a chunk,
  even with attempts around that were given up and still wait for Ollama. A cap of
  0 means none to the SDK, and no such bound holds then, so the property excludes
  it; the run has positive caps.
* `DocumentsAreEmbedded`: every document is embedded in the end, with the same two
  exceptions for the startup of the workers.

Why the bounds are enough: three edits allow create, change and change back, or
create, delete and create again, each between any two calls; two documents are
needed for the race on the collection and for a plan that is carried out in two
parts. One lost attempt suffices for every "done but repeated" step, and the two
chunk counts show a longer version replaced by a shorter one. No action depends
on more than one document except through the collection and the sync's order. The
theorems do away with the bounds for the safety properties. Unsupported
contents are in the safety runs; blank ones make the same calls, and both differ
from text only in the calls they skip.

Three components of an href lead down, up and aside, and each of ".", a doubled
slash and an escape can stand before, between and after names. Four HTML tokens hold
an element with a text, a stray end tag before and a word after it; four package
elements hold two items of one ID and two entries. Two workers make every race of
the startup; three documents are one more than the slots, so one waits, and three
chunks make an attempt heartbeat twice before its last chunk. StartToClose 5 leaves
the longest document room for every delay but the ones the bounds of faults and
stalls exhaust.

`CHECK_DEADLOCK FALSE` is set for `DocumentText` only, where a call returns.

### Fairness

`FairSpec` asks that a sync that can go on does, and starts again when it is idle
(the Schedule keeps firing), and that an ingest or purge whose next call can
succeed makes it in the end: attempts are unlimited, the lost ones bounded by
`MaxFaults`. The user owes nothing. A fetch of a missing or corrupt file never
succeeds, so `IngestEnds` excuses a run while its file is unreadable; nothing
else is excused. `FreshQdrant` is FALSE in the liveness run, and
`purge_before_collection` shows why it has to be. So the race of two first documents
on the missing collection is met by the safety run only, and that the loser's retry
gets on is not checked. `FairMirrorSpec` is the same on
the pipeline's variables; the history follows it.

`WorkFairness` asks that time goes on, that what is due is done (a poll, an answer,
a timeout), and that a worker that is down is launched again and goes on with its
startup, which `restart: on-failure` and Docker's dependencies give. Nothing asks
for crashes, failures or stalls, and `MaxFaults` and `MaxStalls` bound them.

### What the violated runs show

* A file edited between `List` and `Fetch` is recorded under the version listed.
  If the edit is undone the row matches the folder again and the wrong vectors
  stay.
* An edit to a blank or unsupported content keeps the vectors of the old version,
  since both early exits come before the cleanup.
* A purge can run between the calls of an ingest of the same document; its second
  call then removes the row the ingest wrote, and the vectors stay unseen.
* An upsert that timed out and lands after a newer version was recorded brings
  the old vectors back. The point IDs make a retry safe against itself, not
  against a later workflow.
* A document recorded without vectors and then deleted can never be purged while
  the collection does not exist.
* A document too long for one attempt is never embedded: the heartbeat's details
  are "resumable progress", but every attempt starts with the first chunk.
* An existing Schedule is treated as success only by Describe. After a race or a
  failed Describe, Create's error ends the worker. The restart makes up for it.

Three more disagreements show without a run. Migrations applied by two workers at
once can leave a database that no worker starts on (`Rewound` above), where
`main.go:37` calls them idempotent. A file missing from a listing for a
moment is purged by the same sync, where `source.go:55` leaves it to the next one;
`CatalogMirror` calls such a moment an outage. And `src/README.md:13` has the
migrations run "on backend startup", where only the worker runs them.

## Proofs

`IngestionProofs` proves `TypeCorrect`. `TypeOK` alone is not inductive: an
upsert writes the version and content of its run, so `RunShape` says that a
running ingest has them, and `PlanShape` that a planned document still has its
entry. The assumptions used are those of `Ingestion`: versions injective in
contents and distinct from `NoVersion`, chunk counts natural numbers.

`IngestionSafetyProofs` first classifies the steps (`StepCases`) and states what
each changes (`...Effect`), then proves four properties, each from a
strengthening that names what the order of the calls guarantees:

* `NoStaleVectors`: after the cleanup (stage "record") all vectors are of the
  run's version. Nothing is needed earlier, which is why the order matters.
* `NoOrphanVectors`: without an overlap the two workflows exclude each other
  and a purge reaches the ledger with no vectors left (`PurgeInv`).
* `NoLostVectors`: from the upsert to the record the run's chunks are all there
  (`RunHasAllVectors`), by the previous invariant nothing can remove them.
* `EditsNeverEmpty`: at the cleanup there is a vector of the run's version or
  none at all (`CleanupKeepsSome`).

`LateRequestsProofs` proves `LateTypeCorrect` and `OnlyStraysLeaveStale`. The
invariant `LateInv` says what makes a request harmless before it becomes a stray:
those of a document's ingests come from one run, the running one if one runs
(`OfOneRun`), and after that run they agree with the row and the vectors it left,
if no purge removed them (`OfTheRow`). A new run empties both statements, since it
makes strays of all of them. `LateNoStale` is the invariant of `NoStaleVectors` for
documents that no stray has hit. The steps of `Ingestion` are handled with the
lemmas of `IngestionSafetyProofs`.

`LateRowsProofs` proves the other two properties of `LateRequests`.
`OnlyStraysOrOverlapBreak` rests on `CalmInv`, which speaks of one document at a
time: its fresh requests (no strays) are all of ingests or all of purges; those of
an ingest agree with the row once the run has ended, and those of a purge find the
vectors gone before the row. So whatever lands repeats what was done, and the
conjuncts of `PurgeInv` and `RunHasAllVectors` survive it. One lemma per group of
steps shows that a document stays calm (`StartsCalm`, `RunStepsCalm`,
`PurgeStepsCalm`, `GiveUpCalm`, `LandCalm`); `CalmFrame` covers the other documents.
`OnlyPurgesAndStraysEmpty` uses `LateKeepsSome`: a cleanup, on time or late, finds
a vector of its version or none at all, since a late cleanup's run is past its
upsert for good.

`ChunkingProofs` proves the types and the three properties of `ChunkText` for every
chunk size, overlap below it, and length, from the loop invariant that the last
window is whole and ends inside the text until the break (`LoopInv`), with the
prefix before its end covered (`PrefixCovered`).

`MirrorProofs` proves `PipelineMirrorsTheFolder`, that `MirrorHistory` implements
`CatalogMirror`. `MirrorInv` says of each part of the pipeline that it speaks of a
past state and of which: a file's history ends with its present state (`PastInv`),
the entries listed are the states found (`ListingInv`), a run carries the version
of the state it was started for, a purge was started for one in which the file was
gone, and the row is what the last of them left (`WorkInv`). `OrderInv` is the
heart of it: without an overlap, what is about to be written is not older than
what is shown.
That ingest and purge exclude each other outside `overlap` is `OrphanInv` of the
safety proofs. `StepMirrors` then maps each step: an edit to `Edit`, a read that
fails to `Outage`, a row written or deleted to `Show`, an overlap to `Disturb`,
and every other step to none. A row written again by a retry shows the same state.

`WorkerProofs` proves `TheNewestRowsStay` and `NoneServesTooEarly` from
`MigrationInv`: what a worker read, and what is recorded, is at most what the tables
have, and until migration 3 chose from them the rows are all there. Since the tables
never go back, a worker that found the last version recorded stays right about them,
even after a slower one has recorded an old version (`StartKeepsServing`). The step
of migration 3 needs that a finite set of rows has one that none is newer than
(`NewestRowExists`, by a well-founded descent).

Its other two theorems are about time. `EmbedTypes` (invariant `TypeInv`) needs that
time only passes when nothing is due: no clock runs past its timeout, since at the
timeout the step that handles it is urgent. That there is always a request that is
served, as long as a slot is busy, is `FirstIsServed`: by `QueueInv`, `ahead` orders
the busy slots linearly, and a finite order has a first. That only one attempt of a
document counts (`OneAttemptCounts`) is what Temporal gives; the proofs use it, and it
is no property of the code. `TheCapBoundsTheWait`
proves `BeatsInTime`. `CapInv` says that only slots below the cap are ever busy, so
that by `QueueInv` nobody waits for more than `LongestRound`. `WaitInv` is the
potential that every step keeps: the time since an attempt's last heartbeat plus
the time until Ollama answers it, if Ollama got on all the time (`Turn`), is at most
one round, up to the progress on the first request and the ticks lost to stalls. A
request that leaves shortens the turn of everyone behind it by one chunk
(`TurnShrinksByOne`), which pays for the progress that is reset. The argument
holds for attempts that were given up as well, which is why they do no harm.
Assumed of the constants are positive times (`Times`), finitely many workers
(`WorkersAreFinite`), and that a concurrency that parses is an integer
(`ConcurrencyIsInt`).

`ExtractionProofs` proves the three properties of EPUBs for every package and every
content document. The loops of the extractor are recursive functions on
`0 .. Len(...)`. `LoopRuns` shows that such a function exists and takes the steps it
is defined by, `Climb` is the induction over its rounds (the descent on the natural
numbers as a well-founded set), and `DocLoop`, `BookLoop` and `WordsLoop` apply both to
the loops at hand.

* `BlocksDoNotRunTogether`: after each token, two neighbouring words in the text
  come from two text tokens with no block tag between them, and the last word has
  none after its token (`Separated`, `TokenSeparates`). Trimming brings no new
  neighbours together (`TrimKeepsNeighbours`), and the empty line after a chapter
  keeps its last word from the next chapter's first (`RoundFromChapters`).
* `ScriptsStayOut`: a `Raw` rune in the text was a text token read at `skipDepth` 0
  (`DocLeaks`). The tag before it opens a raw text element; were it a start tag of a
  script or style, `skipDepth` would be positive after it (`LeakFollowsRawTag`).
* `NoWordLostOrRepeated`: `skipDepth` is the largest surplus of opened over closed
  script and style elements of all stretches of tokens ending here
  (`IsLargestSurplus`, `DocDepth`), so a text token is dropped exactly if it is
  `Hidden`. `Words` distributes over the pieces the loops append (`WordsOfAppend`,
  `WordsOfConcat`), and loses nothing to `Trim` (`WordsOfTrim`). The cleaned path is
  the place that the depths of its components tell, for any path that stays inside
  the archive: after each component, `Resolve` holds the names that last entered each
  level (`EnterStands`, `ResolveIsPlace`). So the target of a spine entry, told by the
  last item of its ID, is where the manifest leads (`TargetIsDocPath`).

They rest on `FilesAreTokenized`, which says of an EPUB's entries that they are
sequences of tokens, that markup is text only after a raw text tag, and that paths
are sequences of components. `NoWordLostOrRepeated` has the hypothesis `PlainHrefs` of
its property, and nothing else is assumed of the package: hrefs of any length, a
spine that leads nowhere and IDs used twice are all covered.

The proofs cover every number of documents, edits, lost attempts, workers, slots,
tokens and chapters, and every invariant and every safety property of a step that a
passing run checks is the statement of one of the theorems. Only model-checked are
the liveness properties, which are out of the prover's reach: `LedgerConverges`,
`IndexConverges`, `IngestEnds`, `PurgeEnds`, `WorkersServeInTheEnd` and
`DocumentsAreEmbedded`; and, of course, the runs that find a violation.

## Not modelled

* Embedding vectors, their size, and search ranking; `Search` and `Generate` have
  no caller. With another embedding model the collection's vector size no longer
  fits (hazard at `qdrant.go:39`); the model is fixed in a process and in these
  modules.
* Sizes of payloads: a text above Temporal's limit (hazard at `workflow.go:48`).
* The digits of `itoa` and the hash of `PointID`: an injective identity.
* PDF, zip, XML and HTML decoders, MIME detection: libraries, modelled by what
  they return.
* The worker's shutdown on a signal (`main.go:92-96`): `w.Stop` waits for nothing
  here, and what it leaves behind looks like a crash, except that a clean exit is
  not restarted.
* The HTTP server: one stateless `/health` route behind library middleware. It
  shares no state with the pipeline, and its shutdown waits in the library.
* Observability, the API description and the build files set up libraries and
  tools.

## What is left

The modules cover every part of the repository that keeps state or decides
something, and the theorems every safety property. No property speaks of what the
DOCX and PDF readers return: a DOCX is one loop that keeps all character data, and
the PDF's text is the library's. The liveness properties could be brought closer to
proofs by proving their safety parts, such as that a workflow is never in a state
in which none of its calls can succeed.
