# TLA+ models of the AI book translator

This directory specifies the backend of the book translator in TLA+, checks the
specifications with TLC on small instances, and proves the most important safety
properties with TLAPS for every size of instance. Sources are named relative to
`src/backend/app/` unless they begin with `frontend/`, `docs/` or `tests/`.

## The system

A PDF is uploaded, cut into chunks, translated chunk by chunk with a language
model, reviewed by people and exported as DOCX. One PostgreSQL database holds all
durable state, the job queue included. Any number of API processes, workers and
command-line invocations work on it at the same time.

| Component | State | Operations | Modelled in |
|---|---|---|---|
| Job queue and worker (`jobs/queue.py`, `worker.py`) | the `job` table; in each worker a detached copy of its job | enqueue, claim, heartbeat, complete, fail, reclaim_stale; the polling loop | `JobQueue`, `JobContract` |
| Books (`services/books.py`) | `book` rows, the upload directory | create_book, delete_book | `Uploads` (files), `BookLife` (rows and jobs) |
| Extraction service (`services/extraction.py`) | `book.status`, all chunk rows of a book | run_extraction | `BookLife`; `ChunkGraph` (what a checkpoint sees of it); `Ingest` (the file it opens) |
| PDF extractor (`pipeline/extractor.py`) | the results and errors of the pages so far | per page direct text, EasyOCR or vision model | `Extractor` |
| Chunker and format mapper (`pipeline/`) | accumulators of one loop | map_format, chunk_document | `Chunker` |
| Chunk graph and checkpoints (`agents/chunk_graph.py`, `agents/checkpoint.py`) | the graph state in memory, the checkpoint thread of the chunk | prepare, translate, verify, retry, terminology; run_chunk, forget_chunk | `ChunkGraph`, `ChunkContract` |
| Translation runs (`services/translation.py`) | chunk rows, `book.status`, `book.completed_chunks`, the tasks of a gather | select_chunk_ids, translate_one, _finish | `Translation` |
| LLM layer (`llm/`) | provider cache, `llm_call` rows | retry loop, structured output with JSON fallback, recording | `Provider` |
| Terminology and glossary (`services/terminology.py`, `services/glossary.py`) | flags, glossary terms | decide, upsert_term, delete_term, import_terms | `Terminology`; `ChunkGraph` (glossary version) |
| Review (`services/review.py`) | chunk rows, verification rows, `completed_chunks` | edit, approve, unapprove; accept or reject a suggestion | `Translation`; `Suggestions` |
| Progress stream (`services/progress.py`, `frontend/src/api/events.ts`) | last snapshot sent; the browser's subscription | snapshot, idle, keepalive; refetch, re-subscribe | `Progress` |
| Review screens (`frontend/src/pages/`) | query caches, the editor's text | fetch, poll, decide, edit | `Progress`, `Desk` (without the text box) |
| HTTP API and CLI (`api/routes.py`, `cli.py`) | none of their own | _enqueue_exclusive and status guards; runs outside the queue | in all of the above |
| Export, statistics, configuration, migrations, build | | | no (see the end) |

How they interact: API requests insert job rows; workers claim them and call the
handlers, which open a new short transaction for each read or write; the chunk
graph runs between two such transactions and writes its own checkpoints through
LangGraph; reviewers change chunk rows in transactions of their own at any moment.
There is no lock across transactions anywhere: every decision taken in one
transaction and acted on in a later one can be out of date.

What makes it hard:

- *interleaving*: a worker that is only slow is treated as dead (`queue.py:137`), so
  a job can have two workers; a reviewer works on the chunk that a task is
  translating (`translation.py:97` and `:136`); two requests count approvals at once
  (`review.py:140`);
- *crashes*: a worker can die between any two transactions, and between a commit and
  the deletion of the checkpoint (`translation.py:161-162`);
- *lagging checkpoints*: the checkpoint of a node is written while the next one runs;
- *check, then act*: a request looks for an active job and inserts one later
  (`routes.py:107`); an extraction checks the book's status minutes before it replaces
  its rows (`extraction.py:33` and `:67`);
- *partial failure*: `asyncio.gather` raises at the first exception and leaves the
  other tasks running (`translation.py:241`); an outcome that cannot be written is
  dropped by the worker loop (`worker.py:89`);
- *two stores*: a book is a row and a file, the file written before the row and unlinked
  before the row is deleted (`books.py:57` and `:147-156`);
- *rows locked in any order*: decisions on flags and imports of glossaries wait for each
  other's rows (`terminology.py:88`, `glossary.py:57`);
- *what is seen is not what is decided on*: a request names a suggestion by its position
  (`review.py:181`), an event only says that something has changed (`events.ts:22`);
- *retries*: of nodes, of chunks, of jobs and of LLM calls, each with its own counter;
- *boundaries*: the chunker resets three accumulators in three places.

`PROJECT.json` lists each of these at its line, with the properties that would
notice it going wrong.

What makes each component correct:

- queue: two workers never execute one job unless it was taken from a live one; a job
  is handed out a bounded number of times; an outcome stays; every job ends;
- graph: the text in the row renders the row's own source and carries the verdict on
  that draft; finished nodes are not paid for twice; every run ends;
- runs and review: no selected chunk is skipped; what a person approved or wrote while
  nobody translated the chunk is not overwritten; the book leaves `translating`; the
  count of approved chunks is right at rest;
- book: one active job at a time; an extraction replaces no translations, and a book
  that is `extracting` has somebody at it or a job that will be;
- chunker: every line once and in order, bounded sizes, headings first, page ranges in
  order;
- files: a book that nobody deletes has its PDF, and the last book takes it along, if the
  system lets it;
- extractor and LLM layer: the ledger accounts for every invocation, a page lost to a
  failed call is at least on record there, and calls and extractions end;
- terminology: a decision for the book leaves no flag pending, a sweep takes over no
  decision made before it, a request fails only by others' doing or by a death;
- desk: marks and text agree, a suggestion changes the text it was made for and is the
  one the reviewer sees, and the screen catches up.

## Modules

### JobQueue and JobContract

One row per job (`status`, `attempts`, `lockedBy`, `created`), and per worker whether
its process is alive (`up`), the job whose handler it runs (`handling`) and the
attempt number in its detached copy (`copy`), which is what `fail` compares with
`max_attempts`. Each operation of `queue.py` is one transaction and one action:
`Enqueue`, `Claim` (of the oldest runnable row, SKIP LOCKED making concurrent claims
take different rows), `Heartbeat`, `Complete`, `Fail`, `ReclaimStale`. `Complete`,
`Fail` and `Heartbeat` write the row by its id whoever holds it, as the code does.
`LoseOutcome` is the exception swallowed at `worker.py:89`; `Crash` and `Restart` are
process deaths; `DeleteRow` is the cascade of `delete_book`. `Hang` is a handler that waits
for a model which never answers (the client of Ollama has no timeout): its worker, in
`hung`, reports nothing and, since `job.heartbeat` is called on progress only, sends no
beats, so its job goes stale and is taken from it like a dead worker's. Clock comparisons are
sets: `stale` holds the jobs whose `locked_at` is before the cutoff, `delayed` those
with `run_after` in the future; `LockExpires` (nobody beats any more) and
`LockOverruns` (a live worker is silent for too long) move a job into `stale`.
`reclaims`, `requeued` and `stolen` are history for the properties.

`JobContract` is the abstract specification, one job at a time and without locks, beats,
cutoffs, order or copies: a job is handed to one worker, which reports once or not at all; it
is tried again below `max_attempts` and given up from there on, taken back only when nobody
has it, and an outcome is the end. A job that is taken from a live worker (`stolen`) is beyond
the contract from then on, and the only way there is that step. `ImplementsContract`
maps `life` to `status`, `handouts` to `attempts` and `hands` to the workers that run the job.
The contract serves twice: `BookLife_proofs` shows that the jobs of `BookLife` keep it too.

### ChunkGraph and ChunkContract

One chunk, one run of it at a time. `at` is the node or the step of `translate_one`,
`state` the graph state in memory, `saved` the latest checkpoint. A graph state
carries the source text, the version of the glossary, the attempt counter, which
attempt wrote the draft, which draft was judged, and the verdict. `Resume`, `Reuse`
and `Start` are the three outcomes of `run_chunk`. `Save` is LangGraph's background
write, so `saved` may trail behind `state`. `Begin` decides whether a checkpointer
could be opened. `Crash`, `Raise`, `Reextract` and `GlossaryChanges` can happen between
any two steps. `InCall` tells when
the run waits for a model. `ChunkContract` is the abstract specification: a row that is extracted,
failed, or given a text that is worth a reviewer's time. `ImplementsContract` says
that the detailed module implements it with the row as it is; the chunk graph, its
checkpoints and its crashes are hidden.

### Translation

The rows of one book under several invocations of `run_translation` and several review
requests. An invocation is called by a job or by the command line (`origin`), and one of a
job knows the number of its attempt from the worker's detached copy (`attempt`). A run
selects chunks in its first transaction (`StartJob`, which is the claim too, or `StartCli`);
a task reads its chunk (`Read`), spends the time of the graph with no transaction open, and
writes (`Persist`, `MarkFailed`); `_finish` is a read and a write (`FinishRead`,
`FinishWrite`), because the ORM writes only attributes that changed since they were loaded.

A run that raises (`Abort`: a task does, and at a worker the others go on as orphans of a
run that is over, at the command line they are cancelled; `Raise`: `_finish` does) gets to
`Break`, which is `fail` with both its branches: the job is queued again, or failed once the
attempt of the copy is the last one. `Crash`, `LoseOutcome` and `Overrun` leave the row
`running` or take it from a run at work, and `Reclaim` queues it again, whatever its
attempts. A run that nobody makes good is `broken` until the next one begins: one of the
command line, the last attempt of a job, one beside which an overrun worker may report the
job done.

A request is several steps, as its SELECTs and its commit are statements of READ COMMITTED.
`approve_chunk` and `unapprove_chunk` load the book at the start of the route (`Open`;
what they compare their count with at the end is that value), load the chunk (`Look`), flush
the row, which locks it, and count (`Flush`), and commit (`CommitReview`).
`edit_translation` loads the chunk (`OpenEdit`) and commits text and status by what it
loaded (`CommitEdit`). Human text and machine text are told apart, nothing else about them
is. `signedOff` and `keptEdits` are ghosts: approvals and edits given while no task held the
chunk, an edit also only if the chunk kept its status since it was loaded.

### Chunker

The loop of `chunk_document` over lines abstracted to what the two modules look for: the
patterns the text matches, bold and large type, whether it ends a sentence, its length.
The book is not fixed beforehand: every step takes any line, or turns the page. Both
accumulators are kept (`current` for the format map, `text` for the text) as positions
in the book, with the length of the joined text, separators included.

### BookLife

One book from its upload to its deletion. `status` is `book.status`, `chunks` what its
rows hold (nothing, untouched text, translations), `jobs` its rows of the job table and
`run` what each slot is doing, a slot being a worker or a process of the command line.
Every transaction on the book is an action: `Create` (book and extraction job at once),
`CheckActive` and `Insert` (the two statements of `_enqueue_exclusive`, in different
steps of different requests), `Claim`, `ReplaceChunks` (the last
transaction of `run_extraction`, minutes after the first), `Persist`, `Finish`,
`Complete`, `Fail`, `Delete`. The transaction a run begins with is two steps, since it
reads the status, checks it, and writes the new one at its commit: `ReadBook`, then
`OpenExtraction` or `OpenTranslation`, which mark the book whatever it has become
meanwhile, or write nothing if what was read is the mark itself (`Marks`). `UploadCli` and `StartCli` start runs that no job and no
check knows of. `Crash`, `ReclaimDead` and `ReclaimLive` are the faults. `Fail` is an
exception at any place of the handler, the refusal of the status check among them;
`raising` is where a run is that found no text. "review" stands for "done" too. Which job is
claimed and the locks are in `JobQueue`, the chunks of a translation run one by one in
`Translation`. Exports, which read only, and text that people type into a book before
it is translated are left out; the latter is not protected from a second extraction.

`raced`, `stolen`, `crossed` and `broken` are history: they name the doors through
which the properties can fail in the code. `OneActiveJob` holds until two requests are
between check and insert at once (no lock and no unique index keeps them apart), or a
job is reclaimed from a live worker whose late `fail()` re-queues it beside a newer one.
`TranslationsOutliveExtraction` holds until extractions overlap, one begins on a
failed book, whose failed translation may have left translated rows, or a run marks a book
that another had opened since the run read it (`crossed`): an extraction and a translation
that both read "extracted" both go on.
`ExtractionAttended` holds until a command line breaks off or a worker loses its job.

### Uploads, Provider, Extractor, Ingest

`Uploads` has the upload directory and the requests on it. A path is the name a PDF was
uploaded under (all books of the model hold one PDF: the digest is part of the file's name
and deletion counts by digest, so different digests never meet). `create_book` is
`FindFile`, or `MissFile`, `StoreFile` (the test for the file and its opening for writing
are two calls) and `FinishWrite`, then `CommitBook`, or `UploadFails` at any point, which
leaves what is on the disk; `delete_book` is `CountOthers`, `UnlinkFile`, `DropBook`, or
`DeletionFails`. An unlink may be refused: the error is logged, the file stays and the row
goes. `raced`, `left` and `crossed` name what can go wrong: an upload in the gap between
count and unlink, a file left by a failed upload or a refused unlink, two deletions at once.

`Provider` has the calls of several callers: `Begin` by kind of call and backend
(`get_provider` falls back to the fake one), `Request` for each try of `_invoke`, then
`Record`, `RecordFails`, or `Unreadable` for an answer of content blocks, whose
AttributeError is taken for a model without structured output. `ledger` is `llm_call`,
`lost` the invocations without a row and why. `Extractor` extends it: one document, page
by page, down the OCR ladder; the vision rung is a call of `Provider`.

`Ingest` composes the three: a worker extracts books of the shelf while they are
uploaded and deleted and while tasks make calls; a deletion takes the book's ledger
rows with it (`ForgetBook`; they stay in the sequence, marked `deleted`, so that the
properties can still tell a row that went with its book from one that was never written),
and a row of a deleted book cannot be written.

### Terminology

Flags and glossary rows as committed, and requests as transactions at READ COMMITTED.
The session does not flush by itself, so a request's writes reach the database at
`upsert_term`'s flush and at the commit, row after row (`WriteRow`), and each row stays
locked until the end. `Selected` is `upsert_term`'s look for the row, `Conflict` an
insert of a term that has a row by now or an update of one that is gone, `ReadSiblings`
the query of `decide` for the other flags. Tasks of a translation load the glossary
(`LoadGlossary`) and insert what they flagged minutes later (`InsertFlag`). Whether
a flush writes flags or terms first is fixed by the ORM's mapping and not by
the code, so both are considered (`flagFirst`). `Holder`, `Blocked`, `InCircle` and
`BreakDeadlock` are PostgreSQL's.

### Suggestions, Progress, Desk

`Suggestions` is one chunk's text (which writing it stems from and which replacements are
in it still), its verification rows with a mark per suggestion, and requests of
`decide_suggestion`, which read both and write both as a whole. A replacement is of the
first occurrence of the span in the text as it is, and that occurrence may lie in what an
earlier suggestion put in: `Touches` says between which suggestions this can be, and
`Replaced` gives the texts that may come of it, the earlier replacement being lost in some.
`LatestVerification` is the row with the highest attempt, not the newest one.

`Progress` is the generator (`CountRows`, `Snapshot`: separate queries), its events in
flight, the browser's hook and the two queries of the review page, whose answers may
overtake events. A job may end without its tasks (`strays`: those that `gather` left
running, or of a worker whose job was reclaimed), which write rows when no job is active;
`due` is the number of rows written by the time a job was last active, which is what the
screen owes. Invalidating a query restarts a fetch under way, but not the first one of the
chunks, which has nothing on the screen yet (`FirstAnswer`).

`Desk` composes them: a chunk that is done is a row for the counts and a text with its
verdict, the chunks query carries the verdict to the screen, and a decision on the screen is
looked up again by the server.

## Runs

| Run | Instance | Shows |
|---|---|---|
| `queue` | 2 jobs, 2 workers, max_attempts 2, 1 fault, 1 overrun, hanging handlers, fairness | types, `ExclusiveExecution`, `AttemptsWithinBudget`, `ImplementsContract`, `EveryJobSettles` |
| `queue_ceiling` | 1 job, 1 worker, max_attempts 3, 3 faults | a job that kills its worker is claimed a fourth time (finding) |
| `life` | 2 slots, 3 jobs of 2 attempts, 2 requests at once, 1 CLI translation, 1 fault | types, `OneActiveJob`, `ExtractionAttended`, `TranslationsOutliveExtraction` |
| `chunk` | 2 prose texts and a copied one, 1 retry, 1 glossary change, fairness | types, `ImplementsContract`, `PaidWorkNotRepeated`, `PromptsHoldTheGlossary`, `RunsEnd` |
| `book` | 2 chunks, 2 runs of 1 job or of the command line, max_attempts 1 or 2, 1 reviewer, 1 fault, 1 review, 4 payloads, fairness | types, `NothingSkipped`, `ApprovalsAtRestSurvive`, `EditsAtRestSurvive`, `BookSettles` |
| `book_approved` | 2 runs, no fault, 2 reviews | a text typed and approved while the chunk's first translation waits for the model is overwritten (finding) |
| `book_count` | 1 run, 2 reviewers, 2 reviews | overlapping requests leave `completed_chunks` wrong: an edit commits over an approval, or two approvals miss each other (finding) |
| `chunker` | 7 kinds of line, target 4, 5 lines, 2 pages | types, `EveryLineOnce`, `ChunksBounded`, `HeadingsStartChunks`, `PagesInOrder` |
| `chunker_verses` | the same | a verse after a line of prose goes to the model (finding) |
| `ingest` | 2 books, 2 names, 4 pages, 4 configurations, a worker and a task, 2 tries, 2 extractions, fairness | types, `FileKept`, `FilesCleaned`, `OneRowPerInvocation`, `SecondAskOnlyUnread`, `DroppedPagesAreOnRecord`, `WorkEnds` |
| `terms` | 3 requests, 2 terms, 2 flags of one term, fairness | types, `NoneLeftPending`, `DecisionsStand`, `FailsOnlyOnConflict`, `EveryRequestEnds` |
| `desk` | 2 reviewers, 3 suggestions (one without a span, one whose span may lie in another's replacement), 1 or 2 attempts, 2 texts; 2 jobs, 2 rows, 1 broken connection, fairness | `MarksMatchText`, `SuggestionsOfThisText`, `DecidesWhatIsShown`, `ScreenCatchesUp` |

The violation runs each check one sentence that a document, comment or test of the
repository says of the program; the finding in `PROJECT.json` quotes it and tells the
counterexample.

### Bounds, and why they are enough

- `JobQueue`: the interesting case is a job that is reclaimed from a slow worker and
  claimed by a second while both may still end it: two workers, one overrun, and as many
  handlers that hang as there are workers. A second job makes the order of claims and the choice of the wrong row
  possible. Faults and overruns are capped by `FaultBound` and `OverrunBound`; the proofs
  do not need them to be small, nor the workers to be two. The run checks liveness, so it
  is without symmetry.
- `BookLife`: two slots let two runs overlap, two requests let one insert behind the
  other's check, three jobs are the extraction and two translations, two attempts a
  failure that is repeated and one that is final. One fault is one death, one lost
  outcome or one stolen job; the proofs hold for any number of each.
- `ChunkGraph`: `MaxRetries` is the default of the code. Two prose texts are enough for a
  checkpoint of another text under the same thread, one copied text for passthrough.
  `GlossaryBound` caps a version number of which only the order matters.
- `Translation`: two chunks let a run fail on one and succeed on the other, and let two
  approvals miss each other. Two invocations are a run and its repetition beside
  the orphaned tasks of the first, or its job's reclaim beside it (`book`), or a run of a
  job beside one of the command line (`book_approved`). One fault with `max_attempts` 1 or 2
  is a fault on the last attempt or with another to come. `JobBound` caps the book's jobs,
  `ReviewBound` the requests: one in `book`, where it meets runs and faults, two where
  requests meet each other. `Spare` keeps back an invocation for repeating
  broken work, since the set of invocations is finite in the model and is not in the system;
  so runs of different requests meet in `book_approved` only, and in the proofs, which hold
  for any number of runs.
- `Chunker`: five lines over two pages with a target of 4 are enough for a chunk that is
  closed for each of the four reasons, with text before and after it, and a further
  chunk behind it. The proofs hold for every bound.
- `Ingest`: two books and two names are every race of an upload with a deletion, of
  two deletions, and of one PDF under two names. The document has each kind of page, a
  scan before and after the others; two runs are one that is cut short and its repetition;
  two tries are one that is repeated and the last. `MaxCalls` is one for the task, whose
  call may be two invocations. `focus` keeps three questions apart that share no
  state but the shelf: files with a provider that asks no model, pages with all
  configurations, and calls of a task during a deletion. Each has the deletion of the book.
- `Terminology`: two requests that conflict and a third that comes before, between or
  after them; two terms for imports in opposite orders, the smallest deadlock; a flag that
  was there and one a task is about to insert. `Die` happens at most once, before any
  other failure.
- `Desk`: `focus` again keeps the stream with its jobs (`screen`) from decisions on
  a screen that polls (`sight`) and decisions of several reviewers at once (`text`). Two
  texts and two attempts are the case in which `latest_verification` prefers the older text.
  Deciders are interchangeable, so the lowest idle one decides; several at once decide on
  suggestions with a span, and not again on a text on which they have overlapped before,
  of which the properties say nothing. How many attempts a verdict took is told apart
  where the screen's choice is in question (`sight`).

`CHECK_DEADLOCK FALSE` is set where the system comes to rest: all jobs ended and nothing
more enqueued (`JobQueue`), the book deleted (`BookLife`), all invocations used (`Translation`), the book read to its end
(`Chunker`), books deleted and calls used up (`Ingest`), requests over (`Terminology`), texts
and rows used up (`Desk`). `ChunkGraph` never rests and is checked for deadlock.

### Fairness, and why the code justifies it

- `JobQueue`: a live worker polls again (`run_worker` loops for ever and swallows
  exceptions), looks for stale locks every minute, and a handler that does not hang ends, since a call that is
  answered or times out has a bounded number of tries. Time passes: a backoff and a
  stale limit are over at some point. Nothing is assumed about restarts; `EveryJobSettles`
  assumes instead that from some moment on some worker is up and does not hang.
- *Calls of a model.* The clients of Claude and of OpenAI's protocol have a timeout, that of
  Ollama is built without one (`provider.py:396`), so no fairness makes a call end. Every
  liveness property that depends on it says so: `EveryJobSettles` by the worker that does
  not hang, `RunsEnd` and `BookSettles` by a premise (every call is left again), `WorkEnds`
  by excepting Ollama's requests.
- `ChunkGraph`: the run that is under way takes its next step that is not a call's.
  Raising and crashing are not fair, and neither is `Save`.
- `Translation`: a worker polls the queue and reclaims, a run that can take a step takes one,
  and a review request commits. `Persist` and `MarkFailed`, which wait for the model, are
  not among those steps.
- `Ingest`: a running extraction goes on, a call that has come back is recorded (or not),
  and a request to a model comes back or times out, but for Ollama's.
- `Terminology`: the server goes on with a request, and the database finds deadlocks.
  Arrivals and deaths are not fair.
- `Desk`: the generator ticks, the browser runs its handlers, its poll timers and
  its reconnection, requests are answered, and a job ends (which is `EveryJobSettles`).
  Decisions, edits and broken connections are not fair.

## Proofs

The `_proofs` modules hold the theorems, checked by TLAPS for every value of the
constants under the assumptions stated in each module: finite sets of jobs and of chunks,
`max_attempts` and concurrency positive, at least one book and one name, settings that are
configurations, sentinels different from real values. TLC evaluates those assumptions in
the runs. Every safety invariant and action property of a passing run is a theorem.

*JobQueue* (`TypeCorrect`, `Exclusion`, `OutcomesStay`, `RetryBudget`,
`ImplementsJobContract`). Exclusion is not
inductive: it needs that a worker that runs a job which was not stolen holds its lock
(`RunnerHoldsLock`), and that dead workers handle nothing. The budget is the subtle one:
with stolen jobs several workers fail the same row. It rests on every claim having an
attempt number of its own (`CopiesDiffer`, `CopyIsFresh`), so that each number below
`max_attempts` is re-queued by `fail` at most once (`RequeuedBelowMax`,
`RequeuedWereClaimed`), and on the attempts counted being at most the re-queues, the
reclaims and the first grant together (`ClaimsAreGranted`). The refinement rests on
Exclusion (a job not stolen is in one pair of hands) and on `CopyIsCurrent`: whoever runs a
job that was not stolen claimed its latest attempt, so that what `fail` decides on its copy
is what the row's own counter says. `LeavesJob` says that a step at one job is rest at
the others; `ReclaimStale`, which moves many at once, is matched job by job. `OutcomesStay`
is about outcomes in the queue's own terms.

*BookLife* (`TypeCorrect`, `Admission`, `TranslationsStay`, `AttendedAlways`,
`JobsKeepTheContract`). All rest
on `RunnersInv`: until a job is stolen, a run works for a row that is running or gone,
and no two runs for the same one, so that the outcome of a run never re-activates a job
(`EndActivatesNothing`). `Admission` adds that a request past its check stays right about
it while it is alone (`CheckedFree`). `TranslationsStay` needs that as long as no run has
crossed another, up to `extracted` nobody translates and nothing is translated
(`Untranslated`) and an extraction is alone (`Alone`). A run about to mark the book was
accepted on what it read (`MarkersAccepted`), so one that crosses nobody marks it as if
reading and writing were one step (`MarksAtOnce`). `AttendedAlways` strengthens its property by `JobComesRound`: when nobody
is extracting, the handler of the extraction job has not returned, so that its row is
not about to become `succeeded`. `JobsKeepTheContract` shows that the jobs of a book, as
long as none is stolen, implement `JobContract`, which `ImplementsJobContract` shows of
`JobQueue`: the simple queue inside `BookLife` (claims without locks, outcomes without
copies) keeps the same promises. It needs besides that a run knows the number of its
attempt (`AttemptIsCount`).

*ChunkGraph* (`TypeCorrect`, `Implements`, `PaidOnce`, `OldPromptsAreResumed`,
`RunIsShort`). The invariant `GraphInv` is
`TypeOK` and: states in memory and in checkpoints are ones the graph can be in at their
node (`MemoryConsistent`, `SavedConsistent`); a run works on the text it read
(`RunsItsText`); that text is still the row's unless the row was replaced (`InputIsRow`);
only finished states are persisted (`PersistsTheEnd`). From it every step maps to a step
or a stutter of `ChunkContract`. `OldPromptsAreResumed` needs besides that a state whose
glossary is older than its run's is the one the run resumed from a checkpoint, which still
carries that glossary. `RunIsShort` is the part of `RunsEnd` that needs no fairness: a
ranking of the node a run is at and of its attempts left (`StepsLeft`) that each step of the
run lowers and nothing else raises, so that a run is over after 7 + 3 (MaxRetries + 1) of
its steps at most.

*Translation* (`TypeCorrect`, `NoneSkipped`, `ApprovalsStay`, `EditsStay`,
`CountIsRightUndisturbed`, `BookIsAttended`). `Reported`:
once a task is through, its chunk is not `extracted`, and nothing makes it so again.
`ApprovalsGuarded`: an approval in `signedOff` is on a chunk whose status is approved and
that no task is translating, because `Read` turns back at approved chunks.
`EditsUnselected`: a kept edit is on a chunk whose status no selection matches and that
no task holds. `CountIsRightUndisturbed` says what the counterexample of run `book_count`
consists of: as long as no two requests are open at once, from the loading of the book or of
the chunk on, none beside a `_finish` (but for an edit), and nobody approves a chunk in
translation (`Undisturbed`), `completed_chunks` is the number of approved chunks, because
whoever is about to write it, or not to write it because it looks unchanged, has read and
counted what is still so (`Counted`).
`BookIsAttended` is the part of `BookSettles` that needs no fairness: a book is
`translating` only while a run works, or has read `translating` in its `_finish` and so will
write its verdict, or a job whose run is gone is queued or will be reclaimed (`Left`), or a
run is `broken`. It holds with overrun locks and any number of faults: a run beside which
another has the same job counts as broken when it raises or dies, since the other may report
the job done. It rests on `VerdictsSettle`: no verdict is `translating`.

*Ingest* (`IngestTypes`, `BooksKeepTheirFile`, `LastDeletionCleans`, `UploadsAlone`,
`LedgerAccountsForAll`, `ParseFailuresAreNotAskedAgain`, `DroppedPagesLeaveATrace`,
`LedgerIsAppendOnly`, `WorkIsShort`). The invariant `IngestInv` has a part for each of the three modules,
and lemmas say which steps leave which part alone.
Files (`UploadsInv`): whoever needs a file, an upload under way or a book nobody deletes,
finds it there (`NeededIsThere`), because while a deletion is about to unlink, everyone who
needs the same file is on record as having raced with it (`UnlinkingAlone`). Deletions that
have not crossed follow one another (`LoneDeletion`), so the books one has counted are still
there when it ends (`OthersRemain`), a deletion that counted nobody has unlinked
or been refused (`AloneUnlinks`), and a name that alone is used has a file only while somebody accounts for
it (`FileIsHeld`). `UploadsAlone` is the same of `UploadsSpec`.
Ledger (`LlmInv`, one conjunct per caller, lemma `OneCaller`): the invocations counted are
those with a row, those lost and the one under way (`LedgerInv`), and what a caller is
told agrees with what is on record of its last invocation (`AskInv`), which is why a second
asking follows only an answer that could not be read.
Pages (`PageInv`): while a page is under way no later one is done and the vision call is the
extractor's own (`PageUnderWay`, `VisionCall`), so what comes back is heard for the page that
asked. `LedgerGrows` makes the rows a dropped page points to stay: every step but the
deletion of the book only adds, and that one only marks.
`WorkIsShort` is the part of `WorkEnds` that needs no fairness: rankings of what a call
(`CallSteps`: requests left, the row, the second asking) and an extraction (`PageSteps`)
still have before them, which each of their steps lowers and nothing else raises. The first
needs that a request is out only while tries are left (`TriesRemain`).

*Terminology* (`TermsTypes`, `DecidedEverywhere`, `SweepsSpareDecisions`,
`ConflictsAreOverlaps`). Two requests on one term that are under way at once are both
on record as crossed, so one that is not crossed has the term for itself (`Apart`): the row
it found is still the one there (`FoundStands`), and a lock is held by a request that is
about the row's term (`LocksHeld`), so that it waits for nobody. A decision that commits takes
every flag with it that was there to see (`SweepComplete`), and none is pending
afterwards (`Decided`); a flag in a sweep that is decided by now was decided by a
crossing request (`SweptOverCrossed`).

*Desk* (`SuggestionTypesHold`, `MarksFollowText`, `SuggestionsKeepToTheirText`,
`ShownIsDecided`, `LastRowIsFetched`). A text that is not on record as crossed is the newest one (`NewestText`);
what a decision has read is of one piece (`Reading`), and its verdict is one
`latest_verification` may take for its text unless that text is on record
(`ReadingsFit`, `TextFits`). Whatever is replaced in the newest text is of one verdict, the
latest (`ReadingsLatest`, `TextLatest`), so a replacement can only be undone by a suggestion
of the same verdict whose span may lie in it (`Touches`). For the screen: there is one verdict per row written, and a
fetch that saw the last row saw the verdict that came with it (`ScreenInv`); decisions and
edits leave the choice among the verdicts as it is (lemma `SentStands`).
`LastRowIsFetched` is the part of `ScreenCatchesUp` that needs no fairness: when the page
stops showing a job it has the last row, or a fetch under way that brings it (`CaughtUp`),
unless it is on record as having missed the job, and it stays so: the last row written while
a job was active (`due`). It rests on `Listening`: `idle` is the last event of a stream, comes
only when there was no job, and from then on no row of a job is written that no fetch will
bring.

*Chunker* (`TypeCorrect`, `LinesOnce`, `SizesBounded`, `HeadingsFirst`, `PagesOrdered`).
`EveryLineOnce` and `TypeOK` together are inductive: the lemma `Closes` says what closing
a chunk does to the list of chunks, and both `Split` and `Finish` use it. The others need
that chunks hold only lines already read (`SeenLines`), that the chunk under construction
is within the bound or one line (`CurrentBounded`), that pages read do not go back
(`ReadInOrder`), and that no finished chunk is beyond the page where the current one
begins (`CurrentStart`).

Only model-checked: the liveness properties (`EveryJobSettles`, `RunsEnd`, `BookSettles`,
`WorkEnds`, `EveryRequestEnds`, `ScreenCatchesUp`), which need fairness and ENABLED and are
out of the prover's reach, but for the rankings of `RunIsShort` and `WorkIsShort`, the
wake-ups of `LastRowIsFetched` and the work in hand of `BookIsAttended`; and the findings, which are
counterexamples. `CompletedCountsApproved`, `ApprovedSurvives`, `RetryCeiling` and
`VersesPassThrough` do not hold.

## Exceptions that are a hazard's own harm

The code does not prevent everything the list of hazards names. Where it does not, the
property says so by an exception, kept as narrow as the model can make it, and what the run
and the theorem show is that nothing *else* leads there. The harm itself does happen:

| What happens | Where | Property and exception |
|---|---|---|
| two workers on a job whose live worker was silent too long | `queue.py:137` | `ExclusiveExecution`, `stolen` |
| a book left `translating` after its job's last attempt, or a broken run of the command line | `translation.py:215`, `queue.py:109-117` | `BookSettles`, `broken` |
| two jobs of one book from two requests at once | `routes.py:107` | `OneActiveJob`, `raced` |
| an upload extracted at the command line is extracted again by a worker | `cli.py:62` | `TranslationsOutliveExtraction` guards translations only |
| a book left `extracting` after its job's last attempt | `extraction.py:40` | `ExtractionAttended`, the failed job |
| translated rows replaced by an extraction that read the status before the translation's mark | `extraction.py:33`, `:67` | `TranslationsOutliveExtraction`, `crossed` |
| an upload that found the file just before a deletion unlinked it | `books.py:147` | `FileKept`, `raced` |
| a file of a second name, or one whose unlink was refused, outlives its books | `books.py:56`, `:151-154` | `FilesCleaned` |
| a torn file that every later upload keeps | `books.py:57` | `FileKept`, `left` |
| a flag that a running task inserts behind a decision | `terminology.py:79` | `NoneLeftPending`, `late`; `DecisionsStand`, `crossed` |
| score and suggestions of an older text, which took more attempts | `review.py:74` | `SuggestionsOfThisText` |
| rows that orphaned tasks write after `idle`, and a job enqueued before the page has seen the end of the last | `progress.py:88` | `ScreenCatchesUp`, `due` and `missed` |
| a page missing from the book and from its warnings | `extractor.py:225` | `DroppedPagesAreOnRecord` is about the ledger only |
| a decision undone by an overlapping one, or by a later suggestion whose span lies in its replacement | `review.py:191`, `:205` | `MarksMatchText`, `crossed` and `Touches` |
| an LLM call without a ledger row | `provider.py:182`, `:273-279` | `OneRowPerInvocation`, `lost` |

## Differences between code and documents that no run checks

They show in the models as the exceptions the properties name, where they are modelled:

- `chunk_graph.py:234` says of a finished checkpoint that it was "never persisted". When
  the process dies between the commit and `forget_chunk`, or the deletion fails, a persisted
  one is left, and re-translating the chunk takes its result without a new call
  (`Reuse` after `Persist` in `ChunkGraph`).
- `models/glossary_term.py:26-28` says a recorded term is in every subsequent prompt. A run
  that resumes goes on with the glossary of its checkpoint; `PromptsHoldTheGlossary` shows that
  nothing else does.
- `models/terminology_flag.py:26-28` says resolving a flag for the book "re-queues every
  already translated chunk". No code does; `decide` changes flags and glossary only.
- `frontend/src/api/events.ts:12` says the effect re-subscribes when a new job makes
  `active` true again. A job enqueued before the page has fetched the book after `idle`
  leaves it true all along, so nothing re-subscribes (`missed` in `Progress`).
- `llm/provider.py:10` says of the two entry points that they "record one ``llm_call`` row per
  invocation", and the repository's `README.md:55` "Every LLM call is on the ledger". An answer of content
  blocks raises an AttributeError past the record (`provider.py:182`, `:192`), a row that
  cannot be written is logged and dropped (`:273-279`), and a process may die in between.
  `OneRowPerInvocation` excepts the three (`lost`); it shows that nothing else loses a row.
- `llm/provider.py:9` says that both "apply timeouts"; the client of Ollama gets none
  (`:396-401`), see the fairness above.
- `services/books.py:52` says "Store the PDF once (sha256 de-dup)" and `models/book.py:39-40`
  that a file is re-uploaded without storing a second copy. The uploaded name is part of the file's name, so a PDF uploaded under two names is
  stored twice, and a refused unlink (`books.py:151-154`) leaves one that no book names
  (`FilesCleaned`).
- `cli.py:62` says the job that `upload` leaves queued becomes a no-op. A worker claims it
  and extracts again, replacing all rows, unless the book is being translated or translated
  by then (run `life` has that step: `Claim` and `ReadBook` after `UploadCli`).
- `services/extraction.py:30` says extraction is "only valid before translation". The status
  is read before it is written, so that an extraction and a translation of an extracted book
  both begin (`crossed` in `BookLife`).
- `frontend/src/api/events.ts:8` says every `progress` event refetches what is on screen. The
  first fetch of a query is not restarted, so an event that arrives while its answer is on the
  way brings nothing new (`missed` in `Progress`), and rows of orphaned tasks have no event
  once the stream is over (`strays`).
- `frontend/src/pages/ReviewPage.tsx:291` says the local text follows the server's when
  there are no local edits. `dirty` compares with the text that has just changed, so the
  effect never copies it (not modelled).

## Abstractions to keep in mind

- LangGraph and PostgreSQL are external: checkpoints are atomic, READ COMMITTED
  transactions see what was committed before each statement, and SKIP LOCKED works.
- `ChunkGraph` has one run of a chunk at a time. `Translation` shows that two can
  overlap (an orphaned task beside its retry, a CLI run beside a job); what two runs do to
  one checkpoint thread is not modelled.
- In `Translation` the graph is a step that ends in a text or an exception, and a chunk's
  text is `none`, `machine` or `human`.
- In `Terminology` the book stays: flags that a re-extraction or `delete_book` removes under
  a request, and requests refused by validation, are left out.
- Logging, prompts, prices, scores beyond low and high, error texts and timestamps are
  left out.

## Not modelled

- *Export*: one read of the rows and the rendering of a DOCX file; nothing is written back.
- *Statistics*: read-only aggregates over `llm_call`.
- *Screens*: rendering, navigation, and the text box of the editor, whose state is React's.
- *HTTP API*: export requests, reads, validation and serialization.
- *Configuration, sessions, logging, migrations, build files*: no state whose changes
  could go wrong, but for the defaults the models take as constants.
- The content of PDFs, prompts and model answers, prices and token counts.

## What could follow

- Two runs on one checkpoint thread: `ChunkGraph` with a second runner, for the orphaned
  task beside its repetition that `Translation` shows to exist.
- Exports and edits in `BookLife`, and the editor's text box in `Desk`.
