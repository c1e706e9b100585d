# Verification of mini-dms

This directory holds the formal models of the document service in `src/`: TLA+
modules, TLC configurations that check them on small instances, and proofs that
the TLA+ proof system checks for every instance. Module and action names follow
the functions they model; `PROJECT.json` lists the source lines of each.

## 1. The system

A Django REST API accepts documents, an object store keeps their bytes, and
Celery workers extract their text. PostgreSQL is the authority for everything;
Redis and Celery only carry messages.

| Part | State | Operations | Talks to |
| --- | --- | --- | --- |
| Document API (`documents/views.py`, `services.py`) | none of its own | upload, update, delete, reprocess, read, text, download | database (row locks), object store |
| Lists (`views.py`, `core/pagination.py`) | none; a client's place is a page number | documents, jobs and audit events, page by page | database, without a transaction |
| Audit log (`services.audit`) | one event per change | written in the transaction of the change | documents |
| Documents (`models.py`) | row: status, attempts, error, text, revision, idempotency key | created by upload, moved by workers, reset by reprocess, removed by delete | jobs of the same document |
| Job ledger (`jobs.py`, `models.py`) | row: kind, state, attempts, available_at, lease, run token, dispatched_at | claim, finish, recover | documents |
| Cleanup intents (`services.py`) | DELETE jobs committed before an upload writes its object, and when a document is deleted | cancel, expedite, run, re-arm | object store |
| Dispatcher (`dispatch_once`, `dispatch_jobs`) | its current batch | recover expired leases, stamp and publish due jobs | job rows, broker |
| Broker and Celery worker (external) | envelopes; ids of expired tasks | deliver, repeat, lose, expire, discard | `execute_job` |
| Object store (external) | objects by key | save, open, delete | |
| Text extraction (`ocr.py`) | none | bounded PDF and image extraction | PDFium, Tesseract |
| Request intake (`core/uploads.py`, `serializers.py`, `core/errors.py`) | bytes buffered so far | check the length, read the form, validate, answer | the framework's multipart parser |
| Accounts, health, logging, schema, scripts, deployment | none relevant | | |

What is hard here:

* **Concurrency.** Several workers, dispatchers and API requests act on the same
  rows. Nothing is locked while an object is read, text is extracted or an
  envelope is published, so every one of these works with stale data.
* **Failure.** A process dies between a commit and its next step; a commit is
  applied but reported as an error; an object-store call has an unknown effect;
  the broker loses or repeats envelopes.
* **Ordering and time.** A result arrives after its lease ran out; a cleanup
  comes due while its upload is still running; an envelope expires in a queue; a
  list changes under a client that pages through it.
* **Limits in layers.** One upload passes four limits, set by three components, and
  each reports in its own way.

What makes each part correct is stated as a property (section 4); the hazards
they answer are listed with their lines in `PROJECT.json`.

## 2. Modules

| Module | Models | Uses |
| --- | --- | --- |
| `Ledger` | job and document tables, object store, upload, delete, reprocess, workers, lease recovery, `retry_cleanup` | `DocumentStatus` (as its abstract specification) |
| `DocumentStatus` | what a client may see of one document: the status diagram of ARCHITECTURE.md with attempts and text | |
| `Dispatch` | `dispatch_once` step by step, the broker and Celery's expiry, composed with the ledger | EXTENDS `Ledger` |
| `DocumentApi` | clients with If-Match revisions, the worker's saves, readers of the text and the audit trail, with transactions in two steps | |
| `Extraction` | one attempt: the copy of the object, the pages, the limits, the engine, and what the except clauses make of a failure | |
| `Intake` | one upload from its header to its answer, through authentication, throttling and parser, continued by its extraction | EXTENDS `Extraction` |
| `Backlog` | many jobs and a dispatcher with limited batches that skip locked rows | |
| `Listing` | a client that pages through the jobs or documents | EXTENDS `Backlog` |
| `RowLocks` | which rows each transaction locks, in which order and mode | |
| `Timing` | one job with the clock counted: lease, time limits, back-off, dispatcher interval | |
| `LedgerProofs` | proofs about rows: types, attempts, run tokens | EXTENDS `Ledger` |
| `DocumentProofs` | proofs about documents, their keys and their objects, and of the refinement of `DocumentStatus` | EXTENDS `LedgerProofs` |
| `DispatchProofs` | that `Dispatch` implements `Ledger`, and what follows | EXTENDS `Dispatch`, `DocumentProofs` |
| `RowLocksProofs`, `TimingProofs` | freedom from deadlock; leases against limits | EXTEND their modules |
| `DocumentApiProofs`, `IntakeProofs` | every property of `DocumentApi`, and of `Intake` with `Extraction` | EXTEND their modules |
| `ListingProofs` | every property of `Backlog` and `Listing` | EXTENDS `Listing` |
| `MCLedger`, `MCDispatch`, `MCDocumentApi`, `MCExtraction`, `MCIntake`, `MCListing`, `MCRowLocks`, `MCTiming` | the constants of the TLC runs | |

`Ledger` is the centre. The others each open up one thing it takes as a single
step or leaves to chance: `Dispatch` how a job comes to a worker, `DocumentApi`
the inside of a document transaction, `Extraction` the inside of an attempt,
`RowLocks` the waiting between transactions, `Timing` when leases expire, `Intake` how
an upload comes to be one, `Backlog` the choice among many jobs, `Listing` what of all
this a client gets to see.

### Ledger

State: `job[j]` (a row of `documents_job`), `doc[d]` (a row of
`documents_document`), `objects` (the bucket), `worker[w]` (where a `run_job` call
stands, with the token it claimed under and the outcome it is about to report) and
`upload[d]` (where a `create_document` call stands).

* A job is named by the call that created it: `OcrJob(d, n)` for the n-th
  processing request of document `d`, `Intent(d)` for the intent of its upload,
  `Removal(d)` for its deletion. An upload request names its document and its
  object, because each request draws both ids fresh.
* `token` counts the `run_token` values drawn for a row. Each is a fresh uuid, so
  two equal counts are the same value. Text is stored as the pair of job and token
  it was computed under, which is all that tells one result from another.
* Time is abstract: `due` is `available_at <= now`, `lease` is none, live or
  expired. `TimePasses` and `LeaseExpires` may happen at any moment, so a lease may
  expire under a worker that is still running. This is weaker than what the
  configured limits (240 s lease, 180 s hard limit) give.
* One database transaction is one step, because each locks the rows it decides on
  before it reads them. Everything between transactions is a step of its own:
  object-store calls, the unlocked read in `run_job`, the raise of a `finish` that
  did or did not commit (`FinishRaises`), the ambiguous commit of an upload
  (`CommitRaises`), a dead process (`WorkerDies`, `ApiDies`).
* A claim is possible for any idle worker and any due job at any time. That covers
  every delivery the broker can make; `Dispatch` adds the broker itself.

`GraceHolds` is the documented assumption of ARCHITECTURE.md §4 that an upload ends
within the hour its intent waits. The runs assume it, and so do the
proofs of `LiveObject` and `OrphanOwed`, which do not hold without it. Everything else
that is proved of `Ledger` (section 6) holds with or without.

`ServiceStops` ends the calls of all workers at once, as when the worker service, which
runs two pool processes (`compose.yaml:130`), is stopped or restarted.

### Dispatch

`dispatcher[x]` walks through one `dispatch_once`: `ListExpired` (unlocked list),
`RecoverOne` per candidate (lock, `Recheck`, recover), `SelectDue` (select and
stamp in one transaction), `Publish` or `PublishFails` per job. `fresh` is the set
of jobs stamped less than 30 s ago; `finish` and `retry_cleanup` clear the stamp.
`skip_locked` skips nothing here, because no step of the model holds a row lock
between transactions. `envelopes` and `overdue` count the copies in the broker
before and after their expiry, `revoked` is Celery's in-memory set of task ids it
will not run. The broker's and Celery's actions are external: they are modelled
from the settings in `config/settings/base.py` and Celery 5.6, the pinned version.

### DocumentApi

One document. `row` is the committed row, `copy[a]` the model instance that the
transaction of `a` has loaded, `holder` whoever has it locked. `Arrive` and
`WorkerLoads` are `select_for_update`; `Decide` and `WorkerSaves` check, write the
whole row back and commit; `RollBack` is every other end of a transaction. A call is
sent once with an ETag somebody was shown and may arrive any number of times.
`AskText` and `GetText` are the two queries of the text endpoint, which defers the
column; each may find the database or Redis out of reach and is then answered 503
(`Unavailable`), whatever has become of the document. `given` is every revision that was
handed out, with the metadata shown beside it. `trail` is what the audit events add up
to: the status and revision told last, and whether every change of status started from
the status told before it. Metadata is a function from fields to values; a body is any
choice of fields with legal values. Of the row, only what the properties tell apart is
kept: the search text and its trigger are computed from it in the same save and are left
out. So is the download, which reads the row and opens the object: it answers 503 for
every failure of the store (`views.py:200-202`), so that its answer says nothing of the
document. That the object of a live document is there is `LiveObject` of `Ledger`.

### Extraction

`file` is drawn from what `validate_file` admits and what may have become of the
object since (`Starts`). `ReadChunk` and `EndOfObject` copy and verify; `OpenPdf`, `ReadLayer`,
`Render`, the engine's actions and `Append` are the page loop; `Conclude` joins and
checks. A text is its length. A text layer is counted with the white space around it
(`ocr.py:78`) and stripped afterwards (`:80`): `Padding` are the numbers of characters that
`strip()` takes off, and `space` keeps those of the page at which a text was refused.

A failure is an exception with its class. `Copying`, `EngineCall`, `InPdf`, `InImage` and
`RunJob` are the except clauses, in the order an exception passes them from where it was
raised (`Ends`); the last makes it a code and decides on `retry`. `fault` records what
really went wrong. PDFium, Pillow and Tesseract are free to fail wherever the code calls
them, the machine may fail where memory, disk or a process is asked for, and the soft time
limit strikes anywhere.

### Intake

A request is a record of what the layers can tell of it: its Content-Length, whether its
sender is known and within the rates, whether its form is sound, broken, a JSON value or of
a type without a parser, the size of its file and fields, the signature and the extension
of the file, whether the form has too many parts, whether body and key are legal.

| Gate | Actions | Code |
| --- | --- | --- |
| arrived | `CheckLength` | `RequestSizeMiddleware` |
| checked | `TurnAway`, `LetIn`, `Outage` | JWT authentication (reads the user), the two throttles (count in Redis) |
| parsing | `WrongType`, `NoObject`, `Malformed`, `ReceiveChunk`, `FileComplete`, `ReadFields`, `TooManyParts` | the parsers of DRF and Django (external), `BoundedUploadHandler`, `StrictInputMixin` |
| parsing, all read | `Unprocessable`, `Reject`, `Create` | the serializers, the key, the outcomes of `create_document` |
| answered | `Store` | the worker takes the document up |
| stored | `Extract` | `Extraction` |

`Breakdown` is an exception of the service's own before the form has been judged: no room for
the temporary file, no memory. Whatever is raised goes through `StatusOf`, which is
`exception_handler` (`Translated`) and the statuses of DRF and of `core/errors.py`
(`OwnStatus`). `trouble` is a history variable: it says that the answer was caused by a
failing dependency or machine (`Break`), so that `AnswerTrue` can tell these answers from
those the request deserves. How throttling counts is the framework's; that it may turn a
sender away, or fail with Redis, is modelled. Fields may come before or after the file.
`Store` hands an admitted document to `Extraction` with whatever the object store holds by
then; the run thereby checks that what `Extraction` assumes of a document is what intake
lets in.

### Backlog and Listing

Jobs are numbered by `created_at`; the due ones stand in a line by `available_at`, and
`ahead[j]` is the set of those before `j`. A job may join the line anywhere (`JoinsLine`):
`available_at` is drawn when the row is built, before its transaction commits, so a late
commit comes before jobs that are due already. Jobs come due by an upload, a deletion, the
end of a back-off, or `retry_cleanup` (`Rearm`). An iteration of `dispatch_once` is one
step: of the due jobs that are not stamped in the last `Rounds` iterations, and not `locked`
at that moment (by a claim that goes on to roll back, by another dispatcher, by
`retry_cleanup`), it takes a set of `Limit` that are ahead of all the others (`Oldest`).
There is no sequence to index: the order is all that counts, and sets can be reasoned about
for every number of jobs. Time is counted in iterations. `Stuck` jobs are never taken by a
worker, for instance because their id was revoked (section 5), so they come back into
batches again and again. `front` and `waited` are history: how many jobs were before a job
when its wait began or have joined before it since, counted up to `Full` (what the batches
of one interval have room for), and how many iterations it has waited. An iteration that
fails, or finds the job itself locked, begins the wait anew.

`Listing` adds one client: `Counted` and `Fetch` are the two queries of a page, `Ask`
follows the link to the next one. `walk` also keeps what the properties compare:
entries not seen although they were there all the time, repetitions, and how often
entries left or joined the list. The `Position` of an entry is the number of listed
entries that are not after it, and a page is the entries whose positions it covers.

### RowLocks

A transaction is the list of locks it asks for, taken from the order of statements
in the source; `held` is what it has. Conflicts are PostgreSQL's: `select_for_update`
and DELETE against everything, an UPDATE against writers, a foreign-key check only
against `update`. A transaction may end at any point. `Skip` is SKIP LOCKED.
`Dispatch(d, e)` stands for a batch of any size.

### Timing

`lease` and `wait` are what is left of `lease_until` and `available_at`, `age` how
long a task has run, `since` how long ago the job was claimed, `round` how long ago
the dispatcher ran. `Tick` advances all of them and is not possible while a task is
past its hard limit (by more than `Slack`) or the dispatcher is past its pause: that
is what the limits and a running dispatcher mean. Envelopes may arrive at any time.

Definitions whose comment begins with "Slip" are deviations of the definition that
follows them, of the kind a change could introduce. No specification uses them;
each serves to confirm that some property notices.

## 3. Runs

| Run | Instance | Question | Result |
| --- | --- | --- | --- |
| `one_document` | 1 document, 2 workers, 2 attempts of each kind, 2 processing requests, re-armed cleanups | Do rows and text stay consistent under crashes, expired leases, late results, failed uploads and deletion? Does the document follow its status diagram? | holds, 825 thousand states up to symmetry |
| `uploads` | 3 requests with one key, two of one payload, one of another | Is there one document, and is every losing object owed a cleanup? | holds, 1 905 states up to symmetry |
| `delivery` | 1 document, 1 worker, 1 dispatcher, batches of 1, re-armed cleanups, envelopes may expire | Do dispatcher and broker take only steps of the ledger? Is a live lease ever taken away? Does a cleanup ever remove a live object? | holds, 693 thousand states |
| `transport` | 1 dispatcher, 1 worker, 2 OCR attempts, batches of 2, no expiry | Do lost envelopes, broker errors and crashes only delay a job? | yes, 75 thousand states |
| `revoked` | as `delivery`, batches of 2 | "live database intents are republished": is a pending job always run? | **violated**, section 5 |
| `revisions` | 3 calls, 1 reader, 2 fields of 2 values | Is any write lost, repeated or made blindly, a revision ambiguous, a text taken back, or the audit trail wrong? | never, 1.36 million states up to symmetry |
| `gone_text` | 1 call, 1 reader | Is a reader of a deleted document told that it is absent? | **violated**, section 5 |
| `documents` | uploads of any shape, PDF and image, 0 to 4 bytes and pages, fields of 0, 2 or 3 bytes, pages of up to 8 characters with 0 or 3 of white space; limits 3 bytes, 2 for fields, 3 pages, 7 characters | Is every answer true of its request? Is what is admitted what extraction assumes, a result complete and within its limits, a refusal near the limit, a failure retried when it should be? | holds, 346 thousand states |
| `backlog` | 3 jobs, batches of 1, an interval of 3 iterations, one stuck job, pages of 1, lists of jobs, pending jobs and documents | Does a job starve? What may a client that pages through a list miss or see twice? | no; no more than what came and left, 243 thousand states |
| `last_page` | the PDFs of `documents`, without white space | Is a text that is refused too long? | **violated**, section 5 |
| `locks` | 3 sessions, 2 documents, 2 users | Do transactions ever wait in a circle, or for another document's? | never, 110 thousand states up to symmetry |
| `timing` | 2 processes, 3 attempts, lease 24, limit 18 + 3, pause 2, in units of ten seconds | Does a lease run out under a worker? How long may a job be running? | never; lease and pause, 336 thousand states up to symmetry |

Bounds. Two attempts are the least with a retry and a last attempt; two workers the
least for an old and a new attempt of one job; two requests with one payload and one
with another the least for a replay and a conflict. `uploads` has no workers: each
request has an object and jobs of its own, so what a worker does for one request is
what it does in `one_document`. `MaxCycles` (processing requests per document) and
`RearmBound` (tokens after which a cleanup is not re-armed any more) cut off users
and operators who would go on for ever; two requests let a late worker of the first
cycle meet the second, and `RearmBound = 3` allows two re-armings. `MaxCopies`
caps the envelopes of one job: one unexpired and one expired copy, with a worker
holding a third, already give every order of delivery to a job. `BatchLimit` 1
makes the order of jobs matter, 2 is more than ever is due at once with one
document. In `revisions` two calls are the least for a conflict and a third for something
between a call and its repetition; each may arrive again and again. In `documents` every
limit can be met, missed by one and passed; the slack of the request limit (2) is less than
the largest fields and the rest of the form (1) together, so that a good file can fail the
length check; the white space is more than the two characters of a separator. In `backlog`
three jobs with one stuck are the least in which a job waits behind one that comes back, and
an interval of three iterations the least in which it can wait behind two others; batches and pages
of one make every entry a boundary. Its configuration has a `VIEW`: a list shows states and
documents but neither order nor age, so while a client walks, states that differ in those
alone count as one, and waits are judged in the states where no client walks. Nothing a
client does changes what jobs do, so every behaviour of the jobs is among these.
Three sessions are the least for a circle that is not a pair. In `timing` attempts
end after three, as in the code, and time is counted as long as the job is not over.
CHECK_DEADLOCK is off because the systems rest when all work is done.

Fairness. Only `Dispatch` has liveness properties, under `DFairness`: clocks advance;
every run ends, because the hard time limit kills it; every upload ends, because its
storage and database calls have timeouts; the dispatcher loop runs, and its transactions
and broker calls succeed infinitely often (strong fairness, because crashes may
interrupt them); the 30 s pass, and an envelope that is in the queue again and again
is taken. Crashes, losses and broker errors are never bounded.

## 4. Properties

| Property | Says |
| --- | --- |
| `StatusMatchesJob` | at most one active OCR job per document; a live document shows that job's state and attempts; a waiting document has one |
| `ResultFromWinner` | text is present exactly when a live document succeeded, and it comes from the run that ended its job |
| `OneHolder` | of all workers on one job, at most one can pass the fence |
| `AttemptsBounded`, `FailsOnlyWhenSpent` | never more than `max_attempts`, and a transient failure is final only after all of them |
| `LiveObject` | no cleanup removes the object of an existing document |
| `OrphanOwed` | an object without a document has a scheduled, running or visibly failed cleanup |
| `OneDocumentPerKey` | racing uploads with one Idempotency-Key leave one document |
| `Lifecycle` | the ledger implements `DocumentStatus`: success is final, text is written once, deletion is final |
| `Spec` (of `Dispatch`) | dispatcher and broker implement the ledger |
| `LeaseHonoured` | no token is drawn for a job whose lease is live |
| `DocumentSettles`, `OrphanCleaned` | every document and every orphan is dealt with |
| `NoSilentOverwrite` | metadata changes only by a call whose sender had seen what it replaces |
| `SavesKeepOthers` | although saves write whole rows, no write undoes another |
| `AppliedOnce` | a repeated call has no second effect |
| `EtagsTrue` | a revision stands for one state of the metadata, in whichever answer it is given |
| `TextOfSuccess`, `TextStays` | who reads "succeeded" reads the text; text that was shown stays as long as the document |
| `TrailTells` | the audit events add up to the committed row, without a gap, and outlive it |
| `AnswerTrue` | only good uploads of welcome senders are admitted; 413 is true; 400 and 415 are the client's fault; 500 and 503 mean that something failed in the service, but for three kinds of uploads named there |
| `StartsAsAssumed` | what intake stores is what extraction is written for |
| `ResultComplete`, `Capped` | a result is the whole text of the uploaded bytes; nothing outgrows its limit |
| `RefusedNearLimit` | a text that is refused is too long, but for two characters and the white space around the page at which it is refused |
| `RetriedAsDue` | through all except clauses: failures of store and time are retried, and those of the machine unless the document is an image; wrong bytes, limits and the engine are final |
| `TakenInTurn` | with fewer than `Limit * Rounds` jobs before it, a job that is not itself locked is passed over only while these are taken, `Limit` at a time, stuck ones and late comers included |
| `MissedBounded`, `RepeatsBounded`, `LinkHolds` | what a client misses, sees twice or is refused while paging is accounted for by entries that left or joined |
| `NoDeadlock`, `WaitsStayLocal` | no circle of waiting; who holds a job waits only for that job's document or owner |
| `WorkersHold` | whoever works on a job holds its lease and token, alone |
| `ProcessingBounded` | no job is running for longer than its lease and one pause of the dispatcher |
| `IntentRedelivered`, `AbsentNotFailed`, `TextLimitTrue` | documented claims that the runs of section 5 refute |

`OneHolder` and `WorkersHold` are two lines of defence. The second says that with the
shipped limits there never is an old worker to fence off; the first, that the fence
holds even if there were.

## 5. Findings

**`revoked`.** Every publication of a job has the task id of the job (`jobs.py:218`) and expires
after five minutes. When a worker takes an envelope that is older, Celery does not
only skip it: it adds the task id to the revoked ids in the worker's memory and
discards every later envelope with that id, until the worker service is restarted.
If the worker service is stopped or saturated for more than five minutes while the
dispatcher publishes, the first old envelope it takes blocks the job: the
dispatcher republishes every 30 s and each envelope is discarded. ARCHITECTURE.md
§5 and docs/OPERATIONS.md ("Controlled resilience demonstration") say that
processing continues. Run `revoked` shows it does not; `transport` shows that
nothing but the expiry is to blame.

**`gone_text`.** The text endpoint loads the document without its text and then the
text alone (`views.py:187-189`). If a DELETE commits in between, the second query
raises `Document.DoesNotExist`, which `exception_handler` answers with 500, where the
README promises 404.

**`last_page`.** `total += len(text) + 2` (`ocr.py:102`) charges the separator for the
last page too. A PDF whose joined text has `MAX_OCR_CHARS` or one character less is
refused for good, though its text fits and the check on the joined text
(`ocr.py:136`) would pass it. `RefusedNearLimit` bounds the error to those two, for pages
without white space around their text.

Smaller observations, which no run of their own refutes:

* An `OSError` that the machine causes while an image is read, written to the workspace or
  handed to the engine (no room, no process to be had) meets the clause for damaged images
  and ends the job for good as `invalid_document` (`ocr.py:134`); with a PDF the same error
  is retried. ARCHITECTURE.md ("Failure policy") lists unexpected processing errors among
  those that are retried. `RetriedAsDue` states the policy as far as the code keeps it; the
  exception for images is in the property. A Tesseract that is killed is a permanent
  `ocr_engine_unavailable` (`ocr.py:59`), which the same policy covers as an engine
  failure.
* A page's text layer is counted before it is stripped (`ocr.py:78-80`): a PDF whose last
  page is padded with white space is refused though its text fits, while the padding of
  pages that were accepted is forgotten.
* `AnswerTrue` has three exceptions that are the client's fault and end as 500 (`Baffling`):
  a JSON body that is no object (`set(data)` of a number, `core/serializers.py:7`; a list or
  string of unknown names gets its 400), a form with too many parts (Django's
  `SuspiciousOperation` is not translated), and tags or metadata that have a lone surrogate
  or are nested too deep for the recursion.
* A 503 says nothing of the request: the throttle fails closed when Redis is out of reach and the
  database may be when the user is read, before anything of the upload is validated
  (`core/errors.py:44`, docs/OPERATIONS.md:44).
* A good file is refused with 413 if its form exceeds the slack of the length check.
* `TakenInTurn` needs its premise: `Limit * Rounds` older jobs that no worker ever
  takes fill every batch, and a job behind them is never published.

## 6. Proofs

The theorems on `Ledger`. For all sets of documents and workers, all keys and payloads, all limits, and with
or without the one-hour assumption:

| Theorem | States | Rests on |
| --- | --- | --- |
| `TypeCorrect` | `Spec => []TypeOK` | one lemma per group of actions, from the types of the row operators (`Claimed`, `Settled`, `Lost`, `Follow`) |
| `AttemptsCorrect`, `FailuresCorrect` | `Spec => []AttemptsBounded`, `Spec => []FailsOnlyWhenSpent` | `Spent`, their conjunction row by row, is inductive together with `TypeOK` |
| `StatusCorrect` | `Spec => []StatusMatchesJob` | `Known` |
| `ResultCorrect` | `Spec => []ResultFromWinner` | `Known`, `StatusMatchesJob` |
| `LeaseCorrect` | `Spec => []OneHolder` | `Known`, `Fresh`, `TokensDrawn` |
| `LifecycleCorrect` | `Spec => Lifecycle` | `Known`, `TokenBound`, and the theorems on attempts and status |
| `KeyCorrect` | `Spec => []OneDocumentPerKey` | inductive with `TypeOK`: `LifeGiven` says that only a document's birth gives it life, and it is born only where no live one has its key |
| `ObjectsKept`, `OrphansOwed` | `GraceHolds` gives `Spec => []LiveObject` and `Spec => []OrphanOwed` | `Guarded`, with `Known` and `Fresh` |

The argument has two stages. `StepHasForm` shows once, action by
action, that every step has one of seven forms, which say only what became of the
OCR rows and the documents: nothing (`Quiet`), a document deleted, created or
reprocessed (`Gone`, `Born`, `Again`), a job started, dropped because its document
is gone, or ended (`Started`, `Dropped`, `Ended`). Every later invariant is proved
over the forms, not over the actions. None of the properties is inductive alone:

* `Known` adds that an upload before its transaction has no document, that a
  document which does not exist yet has no OCR job and no run, and that only a run
  whose document was deleted ends with neither text nor failure. Without it a new
  document could meet an old job, and a success could come without text.
* `Fresh` adds that rows are created once; tokens then only grow (`RowsMove`), and
  `TokensDrawn` says that a worker's token is never above its row's and that two
  workers on one job have different ones. That is why comparing tokens in `finish`
  is enough.
* `TokenBound` says that an OCR row draws at most two tokens per attempt, one for
  the claim and one if the run is lost; it is what keeps results within the set the
  status diagram was given.

Objects are not in the seven forms, so `LiveObject` and `OrphanOwed` have forms of their
own: what a step may do to the row of a cleanup job (`CleanupMoved`), to an object
(`ObjectMoved`) and to a worker's call (`CallMoved`). Over these `Guarded` is inductive. It
follows an object from its upload to its removal: while the upload is under way the
intent waits and is not due (`Unarmed`, the only place where the hour is needed); the
intent of a document, living or deleted, is closed for good (`Disarmed`); a worker on a
cleanup has neither an upload nor a living document against it, and does not report
before the object is gone (`Attended`); and whatever is in the bucket without a living
document has a row that is open or visibly failed (`Owed`).

`DispatchImplementsLedger` (`DispatchProofs`): `DSpec => Spec`, for any number of
dispatchers and workers, batch limits and bounds on envelopes. `LedgerStep` shows it action
by action; the two that need an argument are `RecoverOne`, where the second look at the row
under its lock is what makes a stale candidate harmless, and `ServiceRestarts`, which is
`ServiceStops`. Proving it for every number of workers corrected the model: the
ledger used to let workers die one at a time only, and with two of them a restart of the
service was not a step of it, which the run with one worker could not show. As every step
of the ledger is known, all that is proved of the ledger holds of the
dispatching system as well (`DispatchedSafely`, `DispatchedObjects`).
`LeaseHonouredCorrect`, `DSpec => LeaseHonoured`, shows of every step that it draws a token
only for a pending row or one whose lease ran out (`TokensKept`).

`ListingProofs` proves every property of the run `backlog`, for every number of jobs, every
batch and page size and every interval:

* `TurnCorrect`, nobody starves. `WaitsPaid` counts what a job still waits for: the jobs
  ahead of it that have not been taken since it waits (`NotYet`). Every iteration that
  passes it over, though it is not locked, takes `Limit` of these, because a batch is full
  and all of it stands ahead of it, whichever other rows were locked; and none is eligible
  a second time before `Rounds` iterations are over, which is what `front < Limit * Rounds`
  leaves room for. A late comer adds one to both sides. So `waited * Limit` and what is left
  of the line never exceed the line it joined and those who came before it since.
* `MissedCorrect`, `RepeatsCorrect`, `LinkCorrect`. `Accounts` says at every moment of the
  walk what is owed: the entries not seen that have slipped onto pages already read
  (`Passed`) are at most those that left (at the end of the walk, those that joined between
  the two queries of the last page are added: `late`); the entries seen that have slipped
  onto pages to come (`Again`) are paid for by those that joined; and while nothing has
  left, a page that was announced is still there. The lemmas on `Rank` are the facts about
  positions behind it: one entry to each position, and one that leaves or joins moves
  the others by at most one.

`DeadlockFree` (`RowLocksProofs`): `Spec => []NoDeadlock`, for all sessions,
documents, users and owners. `PlansSorted` shows that every transaction asks for its
locks in the order job, document, user, cleanup job; `IInv` adds to the types that
what a transaction holds comes before what it still asks for (`Ordered`) and that
held locks are compatible (`Compatible`). The order alone would not do: a foreign-key
check and `select_for_update` on a user are one row, so the argument follows who may
wait for whom (`Asks`, `Counts`): along a chain of waits the place of what is asked
for goes up (`WaitsGoUp`), and there are five places.

`WorkersHoldCorrect`, `ProcessingCorrect` (`TimingProofs`): `Spec => []WorkersHold` and
`Spec => []ProcessingBounded`, for all limits with `Hard + Slack < Lease`, any pause,
back-off and number of processes. Neither is inductive: `Covered` says that what is
left of the lease and the age of the task that took it make up a whole lease, so a
task that is not yet killed has some of it left; `Counted` that a lease tells when
the job was claimed until it runs out, and that the dispatcher is due from then on.

`WaitsLocal` (`RowLocksProofs`) comes with the locking order: `Near` says that whoever has a job asks only
for that job, its document and its owner, and by `Compatible` nobody waits for a row
that he has for update.

`DocumentApiProofs` proves every property of the run `revisions`, for all sets of calls,
readers, fields and values. `StepHasForm` reduces a step to what it does with the row:
a transaction begins or ends without effect (`Begins`, `Abandons`), edits the row by one
revision (`Edits`), removes it (`Removes`), or moves its status (`Runs`); the rest do not
touch it. The invariant over these forms:

* `Locked`: a loaded copy is the committed row, and its transaction has the lock. This
  is what whole-row saves depend on, and what every other part rests on.
* `Informed`: an ETag tells the metadata of its revision, and none is ahead of the row.
  So a call whose revision is current has seen the current metadata (`EditsInformed`).
* `Spent`: a call that was applied is behind the row for ever, since the row only moves
  on; so it can be refused, never repeated (`NoSecondEffect`).
* `Reading`: a row has text exactly when it succeeded, and success stays while the row is
  there; so half an answer is never wrong (`TextFollowsStatus`) and a whole one is never
  taken back (`TextFinal`).

`EtagsAgree` and `TrailComplete` are conjuncts of the invariant themselves: from `Locked` and
`Informed` follows that an edit makes a revision nobody was given before.

`IntakeProofs` proves every property of the run `documents`, for all limits, chunks,
sizes and lengths. `Extracted` is inductive for `Extraction`: besides the properties it
says that from the copy on the bytes are verified (`Copied`), where a page loop may stand
(`Paged`), and that `total` is two ahead of the joined text as soon as there is a page
(`Counting`), which is why a refusal errs by two characters and the white space of one page,
and a page is never begun over the limit. For `RetriedAsDue` the clauses are evaluated for
every class of exception (`Verdicts`, `ClassesJudged`, `DecoderJudged`), and `Due` says which
verdict each fault may get; every failing action is then an instance of `FailStep`. `Waiting`,
`Buffered`, `Passed` and `Admitted` carry what each layer of intake has made sure of to the
next, down to the document that `Store` hands over; `Statuses` gives the status of every
exception that is raised.

The assumptions are those the modules declare: in `Ledger`, attempt limits and the
cycle bound are positive, `RearmBound` is a number and `NoJob` is not a job; in
`RowLocks`, every document has an owner; in `Timing`, `TimesAssumption` and
`LimitsAssumption`, which the settings satisfy with 180 s against 240 s as long as a
process is dead within a minute of its hard limit; in `DocumentApi`, that worker, calls
and nobody are different; in `Extraction` and `Intake`, that limits, sizes and
paddings are numbers and that a form is at least one byte longer than its fields and file;
in `Dispatch`, that its bounds are numbers; in `Backlog` and `Listing`, that there is a job, that batches, pages and
the interval are not empty, and that the lists are those of the API.

The types of `RowLocks`, `Timing` and `DocumentApi` are proved (`TypeCorrect` of each) and no run
repeats them.

Only model-checked: liveness, that is `DocumentSettles` and `OrphanCleaned` (and the
refutation of `IntentRedelivered`), because fairness is out of the prover's reach. Every
other property of a passing run has a theorem. The two refuted safety properties,
`AbsentNotFailed` and `TextLimitTrue`, have their counterexamples.

## 7. Plan

1. The visibility timeout of the broker and the intents' grace hour in `Timing`: today the
   hour is an assumption (`GraceHolds`), and what it takes for it to hold is not stated.
2. For liveness, the safety half of the argument: at every moment a document that is not
   settled has a job that is pending, running, or running with an expired lease, and some
   action of the system is possible for it.

Not modelled, and why: accounts (tokens are a library's, the service only configures
them); health, logging and schema (no state that the rest depends on); migrations (their
constraints are in `models.py`; the search trigger computes its column from the row in the
same statement); scripts and deployment (one-shot I/O); the download (it reads, and says 503
to every failure). Of what is modelled, left out are the search text, ranking and
tokenisation of a search (PostgreSQL's), how throttling counts (the framework's; that it turns
senders away and fails with Redis is in `Intake`), which single tag or metadata value is
legal (one attribute of a request), and in `Ledger`'s `StoreObject` the name that the storage
returns for the object and the second save of the intent with it (`services.py:82-84`): keys are
fresh random names, so the storage has no reason to choose another.
