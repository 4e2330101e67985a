---------------------------- MODULE Translation ----------------------------
(***************************************************************************)
(* One extracted book between its translation runs and its reviewers:      *)
(* run_translation, translate_one and _finish (services/translation.py)    *)
(* beside edit, approve, unapprove and accepted suggestions                *)
(* (services/review.py).                                                   *)
(*                                                                         *)
(* A run selects chunks and starts one task for each; a task reads its     *)
(* chunk, spends a long time in the chunk graph (ChunkGraph.tla) with no   *)
(* transaction open, and writes the outcome.  Runs come from jobs, one     *)
(* active job a book (JobQueue.tla), and from the CLI, which asks no queue.*)
(* A review request is a SELECT and a later UPDATE and commit; what it read *)
(* in between is its own.                                                  *)
(***************************************************************************)
EXTENDS FiniteSets, Integers

CONSTANTS
    Chunk,         \* the chunks of the book
    Runner,        \* invocations of run_translation
    Reviewer,      \* concurrent review requests
    Payload,       \* what a run can be asked for
    Concurrency,   \* translation_concurrency
    MaxAttempts,   \* what Job.max_attempts can be
    NoPayload, NoRequest, NoView,
    JobBound,      \* bound: translation jobs of the book
    FaultBound,    \* bound: faults
    ReviewBound    \* bound: review requests

ASSUME ChunkAssumption == IsFiniteSet(Chunk) /\ Chunk # {}
ASSUME PayloadAssumption ==
    Payload \subseteq [only_failed : BOOLEAN, indexes : SUBSET Chunk, pages : SUBSET Chunk]
ASSUME BoundAssumption == {JobBound, FaultBound, ReviewBound} \subseteq Nat
ASSUME ConcurrencyAssumption == Concurrency \in Nat \ {0} /\ MaxAttempts \subseteq Nat \ {0}

VARIABLES
    status,     \* Chunk.status
    text,       \* whose words Chunk.translated_text holds: none, the machine's, a human's
    book,       \* Book.status and Book.completed_chunks
    jobs,       \* the book's translation jobs: payload, status, attempts
    phase,      \* where each invocation is
    origin,     \* the job that called it, or the CLI
    attempt,    \* attempts in the worker's detached copy of that job
    task,       \* the chunk tasks of each invocation
    view,       \* what the _finish of an invocation has read
    request,    \* edit, approve and unapprove requests before their commit
    faults, reviews,
    signedOff,  \* ghost: approved while no task held the chunk, not unapproved
    keptEdits   \* ghost: edited while no task held the chunk, not asked for again

rows == <<status, text, book>>
caller == <<origin, attempt>>
runs == <<phase, caller, task, view>>
ghosts == <<signedOff, keptEdits>>
vars == <<rows, jobs, runs, request, faults, reviews, ghosts>>

Status == {"extracted", "failed", "translated", "reviewed", "approved"}
Pending == {"extracted", "failed"}
BookStatus == {"extracted", "translating", "review", "done", "failed"}
Stage == {"none", "waiting", "calling", "reporting", "settled"}
Phase == {"new", "running", "finishing", "closing", "over", "broken"}
Count == 0 .. Cardinality(Chunk)

Cli == 0
Jobs == 1 .. JobBound
JobStatus == {"absent", "queued", "running", "succeeded", "failed"}
Row == [payload : Payload \union {NoPayload}, status : JobStatus, attempts : Nat, max : Nat]

Book == [status : BookStatus, completed : Count]
View == [loaded : Book, completed : Count, verdict : BookStatus]
Request == [chunk : Chunk, to : {"edited", "approved", "reviewed"},
            stage : {"opened", "looked", "flushed"}, loaded : Count, seen : Status \union {"unread"}, count : Count]

ASSUME SentinelAssumption ==
    NoView \notin View /\ NoRequest \notin Request /\ NoPayload \notin Payload

Approved == {c \in Chunk : status[c] = "approved"}
Failed == {c \in Chunk : status[c] = "failed"}

\* A task holds its chunk from its selection until it has written the outcome.
Holds(r, c) == task[r][c] \in {"waiting", "calling"}
Held(c) == \E r \in Runner : Holds(r, c)

\* The row lock of a request that has flushed its UPDATE.
Locked(c) ==
    \E u \in Reviewer :
        request[u] # NoRequest /\ request[u].chunk = c /\ request[u].stage = "flushed"

Active(r) == phase[r] \in {"running", "finishing", "closing"}
Runs(j) == {r \in Runner : Active(r) /\ origin[r] = j}
Calling(r) == {c \in Chunk : task[r][c] = "calling"}

Init ==
    /\ status = [c \in Chunk |-> "extracted"]
    /\ text = [c \in Chunk |-> "none"]
    /\ book = [status |-> "extracted", completed |-> 0]
    /\ jobs = [j \in Jobs |-> [payload |-> NoPayload, status |-> "absent",
                                attempts |-> 0, max |-> 0]]
    /\ phase = [r \in Runner |-> "new"]
    /\ origin = [r \in Runner |-> Cli] /\ attempt = [r \in Runner |-> 0]
    /\ task = [r \in Runner |-> [c \in Chunk |-> "none"]]
    /\ view = [r \in Runner |-> NoView]
    /\ request = [u \in Reviewer |-> NoRequest]
    /\ faults = 0 /\ reviews = 0
    /\ signedOff = {} /\ keptEdits = {}

-----------------------------------------------------------------------------
(* Runs *)

\* What somebody has yet to begin again: a queued job, or a running one whose run is
\* gone.
Waiting == {j \in Jobs : \/ jobs[j].status = "queued"
                         \/ jobs[j].status = "running" /\ Runs(j) = {}}

\* Not part of the code: new work is only begun while enough invocations are left
\* for all work to be repeated as often as faults may still ask for it.
Spare ==
    Cardinality({r \in Runner : phase[r] = "new"}) > FaultBound - faults + Cardinality(Waiting)

\* start_translation and retranslate_chunk, through _enqueue_exclusive.
Ask(j, p, m) ==
    /\ Spare
    /\ \A i \in Jobs : jobs[i].status \notin {"queued", "running"}
    /\ jobs[j].status = "absent"
    /\ jobs' = [jobs EXCEPT ![j] = [payload |-> p, status |-> "queued", attempts |-> 0, max |-> m]]
    /\ UNCHANGED <<rows, runs, request, faults, reviews, ghosts>>

\* select_chunk_ids
Selected(p) ==
    p.pages \intersect
        (IF p.indexes # {} THEN p.indexes
         ELSE IF p.only_failed THEN Failed
         ELSE {c \in Chunk : status[c] \in Pending})

\* The first transaction of _run_translation.  What an earlier run left undone is this
\* run's to make good.
Begin(r, p, from, n) ==
    /\ phase[r] = "new"
    /\ phase' = [q \in Runner |-> IF q = r THEN "running"
                                 ELSE IF phase[q] = "broken" THEN "over" ELSE phase[q]]
    /\ origin' = [origin EXCEPT ![r] = from] /\ attempt' = [attempt EXCEPT ![r] = n]
    /\ task' = [task EXCEPT ![r] = [c \in Chunk |-> IF c \in Selected(p) THEN "waiting"
                                                                         ELSE "none"]]
    /\ book' = [book EXCEPT !.status = "translating"]
    /\ keptEdits' = keptEdits \ p.indexes
    /\ UNCHANGED <<status, text, view, request, faults, reviews, signedOff>>

StartJobUncounted(r, j) ==
    /\ jobs[j].status = "queued"
    /\ jobs' = [jobs EXCEPT ![j].status = "running"]
    /\ Begin(r, jobs[j].payload, j, jobs[j].attempts)

\* claim counts the attempt, and process_one copies the row before it runs the job.
StartJob(r, j) ==
    /\ jobs[j].status = "queued"
    /\ jobs' = [jobs EXCEPT ![j].status = "running", ![j].attempts = @ + 1]
    /\ Begin(r, jobs[j].payload, j, jobs[j].attempts + 1)

StartCli(r, p) ==
    /\ Spare
    /\ Begin(r, p, Cli, 0)
    /\ UNCHANGED jobs

-----------------------------------------------------------------------------
(* Tasks *)

Moves(r, c, to) == task' = [task EXCEPT ![r][c] = to]

ReadUnguarded(r, c) ==
    /\ task[r][c] = "waiting" /\ Cardinality(Calling(r)) < Concurrency
    /\ Moves(r, c, "calling")
    /\ UNCHANGED <<rows, jobs, phase, caller, view, request, faults, reviews, ghosts>>

\* translate_one's first transaction, once the task is inside the semaphore:
\* approved work is left alone.
Read(r, c) ==
    /\ task[r][c] = "waiting" /\ Cardinality(Calling(r)) < Concurrency
    /\ Moves(r, c, IF status[c] = "approved" THEN "reporting" ELSE "calling")
    /\ UNCHANGED <<rows, jobs, phase, caller, view, request, faults, reviews, ghosts>>

\* The graph returned: translate_one's last transaction.
Persist(r, c) ==
    /\ task[r][c] = "calling" /\ ~Locked(c)
    /\ status' = [status EXCEPT ![c] = "reviewed"]
    /\ text' = [text EXCEPT ![c] = "machine"]
    /\ Moves(r, c, "reporting")
    /\ UNCHANGED <<book, jobs, phase, caller, view, request, faults, reviews, ghosts>>

FailUnmarked(r, c) ==
    /\ task[r][c] = "calling" /\ ~Locked(c)
    /\ Moves(r, c, "reporting")
    /\ UNCHANGED <<rows, jobs, phase, caller, view, request, faults, reviews, ghosts>>

\* The graph raised: translate_one's exception branch.
MarkFailed(r, c) ==
    /\ task[r][c] = "calling" /\ ~Locked(c)
    /\ status' = [status EXCEPT ![c] = "failed"]
    /\ Moves(r, c, "reporting")
    /\ UNCHANGED <<text, book, jobs, phase, caller, view, request, faults, reviews, ghosts>>

\* done += 1 and the heartbeat.
Report(r, c) ==
    /\ task[r][c] = "reporting"
    /\ Moves(r, c, IF phase[r] = "running" THEN "settled" ELSE "none")
    /\ UNCHANGED <<rows, jobs, phase, caller, view, request, faults, reviews, ghosts>>

-----------------------------------------------------------------------------
(* The end of a run *)

Verdict ==
    IF Approved = Chunk THEN "done"
    ELSE IF Failed = Chunk THEN "failed"
    ELSE "review"

FinishReadUnlessEmpty(r) ==
    /\ phase[r] = "running" /\ \A c \in Chunk : task[r][c] \in {"none", "settled"}
    /\ IF \E c \in Chunk : task[r][c] = "settled"
       THEN /\ view' = [view EXCEPT ![r] = [loaded |-> book, completed |-> Cardinality(Approved),
                                           verdict |-> Verdict]]
            /\ phase' = [phase EXCEPT ![r] = "finishing"]
       ELSE phase' = [phase EXCEPT ![r] = "closing"] /\ view' = view
    /\ UNCHANGED <<rows, jobs, caller, task, request, faults, reviews, ghosts>>

\* _finish, with or without tasks behind it, reads the book and the statuses ...
FinishRead(r) ==
    /\ phase[r] = "running" /\ \A c \in Chunk : task[r][c] \in {"none", "settled"}
    /\ view' = [view EXCEPT ![r] = [loaded |-> book, completed |-> Cardinality(Approved),
                                    verdict |-> Verdict]]
    /\ phase' = [phase EXCEPT ![r] = "finishing"]
    /\ UNCHANGED <<rows, jobs, caller, task, request, faults, reviews, ghosts>>

\* ... and commits: an attribute set to the value it was loaded with is not written.
FinishWrite(r) ==
    /\ phase[r] = "finishing"
    /\ LET v == view[r] IN
       book' = [status |-> IF v.verdict = v.loaded.status THEN book.status ELSE v.verdict,
                completed |-> IF v.completed = v.loaded.completed THEN book.completed
                                                                  ELSE v.completed]
    /\ phase' = [phase EXCEPT ![r] = "closing"]
    /\ view' = [view EXCEPT ![r] = NoView]
    /\ UNCHANGED <<status, text, jobs, caller, task, request, faults, reviews, ghosts>>

\* complete and fail write the row of the job whatever has become of it.
Record(r, s) == jobs' = IF origin[r] = Cli THEN jobs ELSE [jobs EXCEPT ![origin[r]].status = s]

\* run_translation returns and the worker completes the job.
Close(r) ==
    /\ phase[r] = "closing"
    /\ phase' = [phase EXCEPT ![r] = "over"]
    /\ task' = [task EXCEPT ![r] = [c \in Chunk |-> "none"]]
    /\ Record(r, "succeeded")
    /\ UNCHANGED <<rows, caller, view, request, faults, reviews, ghosts>>

-----------------------------------------------------------------------------
(* Faults *)

Fault == faults < FaultBound /\ faults' = faults + 1

\* No other run can report r's job done.
Alone(r) == Runs(origin[r]) = {r}

\* run_translation raises.  The CLI ends, and nobody repeats the run; the worker calls
\* fail, which goes by the attempts of its own copy.
Break(r) ==
    /\ view' = [view EXCEPT ![r] = NoView]
    /\ IF origin[r] = Cli
       THEN phase' = [phase EXCEPT ![r] = "broken"] /\ UNCHANGED jobs
       ELSE LET last == attempt[r] >= jobs[origin[r]].max IN
            /\ phase' = [phase EXCEPT ![r] = IF Alone(r) /\ ~last THEN "over" ELSE "broken"]
            /\ Record(r, IF last THEN "failed" ELSE "queued")

\* A transaction or a heartbeat of a task raises.  gather passes that on while the
\* other tasks run on as orphans; at the CLI they are cancelled.
Abort(r, c) ==
    /\ Fault
    /\ phase[r] = "running" /\ task[r][c] \in {"waiting", "calling", "reporting"}
    /\ task' = [task EXCEPT ![r] =
                    [d \in Chunk |-> IF origin[r] # Cli /\ d # c /\ @[d] # "settled"
                                     THEN @[d] ELSE "none"]]
    /\ Break(r)
    /\ UNCHANGED <<rows, caller, request, reviews, ghosts>>

\* _finish raises, or what run_translation does after it.
Raise(r) ==
    /\ Fault
    /\ Active(r) /\ \A c \in Chunk : task[r][c] \in {"none", "settled"}
    /\ task' = [task EXCEPT ![r] = [c \in Chunk |-> "none"]]
    /\ Break(r)
    /\ UNCHANGED <<rows, caller, request, reviews, ghosts>>

\* The process dies, its orphaned tasks with it; a job keeps the status it has.
Crash(r) ==
    /\ Fault
    /\ Active(r) \/ \E c \in Chunk : task[r][c] # "none"
    /\ phase' = [phase EXCEPT ![r] =
           IF ~Active(r) THEN @
           ELSE IF /\ origin[r] # Cli /\ Alone(r)
                   /\ jobs[origin[r]].status \in {"queued", "running"}
                THEN "over" ELSE "broken"]
    /\ task' = [task EXCEPT ![r] = [c \in Chunk |-> "none"]]
    /\ view' = [view EXCEPT ![r] = NoView]
    /\ UNCHANGED <<rows, jobs, caller, request, reviews, ghosts>>

\* complete raises: the worker's loop only logs it.
LoseOutcome(r) ==
    /\ Fault
    /\ phase[r] = "closing" /\ origin[r] # Cli
    /\ phase' = [phase EXCEPT ![r] = "over"]
    /\ task' = [task EXCEPT ![r] = [c \in Chunk |-> "none"]]
    /\ UNCHANGED <<rows, jobs, caller, view, request, reviews, ghosts>>

\* reclaim_stale, which does not ask for the attempts.
Requeue(j) ==
    /\ jobs[j].status = "running"
    /\ jobs' = [jobs EXCEPT ![j].status = "queued"]
    /\ UNCHANGED <<rows, runs, request, reviews, ghosts>>

Reclaim(j) == Runs(j) = {} /\ Requeue(j) /\ UNCHANGED faults

\* The lock goes stale under a run that is still at work.
Overrun(j) == Runs(j) # {} /\ Fault /\ Requeue(j)

-----------------------------------------------------------------------------
(* Review *)

\* A review request by a human, of which there are ReviewBound.
Review == reviews < ReviewBound /\ reviews' = reviews + 1

\* approve_chunk and unapprove_chunk load the book, for its completed_chunks ...
Open(u, c, to) ==
    /\ Review /\ request[u] = NoRequest
    /\ request' = [request EXCEPT ![u] =
           [chunk |-> c, to |-> to, stage |-> "opened", loaded |-> book.completed,
            seen |-> "unread", count |-> 0]]
    /\ UNCHANGED <<rows, jobs, runs, faults, ghosts>>

\* ... then the chunk, and end if there is nothing to approve or to take back ...
Look(u) ==
    /\ request[u] # NoRequest /\ request[u].stage = "opened"
    /\ LET q == request[u] IN
       request' = [request EXCEPT ![u] =
           IF \/ q.to = "approved" /\ text[q.chunk] # "none" /\ status[q.chunk] # "approved"
              \/ q.to = "reviewed" /\ status[q.chunk] = "approved"
           THEN [q EXCEPT !.stage = "looked"]
           ELSE NoRequest]
    /\ UNCHANGED <<rows, jobs, runs, faults, reviews, ghosts>>

\* ... flush the new status, which locks the row, and count: what has been committed
\* and this ...
Flush(u) ==
    /\ request[u] # NoRequest /\ request[u].stage = "looked" /\ request[u].to # "edited"
    /\ LET q == request[u] IN
       /\ ~Locked(q.chunk)
       /\ request' = [request EXCEPT ![u].stage = "flushed",
                                     ![u].count = Cardinality(IF q.to = "approved"
                                                              THEN Approved \union {q.chunk}
                                                              ELSE Approved \ {q.chunk})]
    /\ UNCHANGED <<rows, jobs, runs, faults, reviews, ghosts>>

\* ... and commit: a count equal to the one the book was loaded with is not written.
CommitReview(u) ==
    /\ request[u] # NoRequest /\ request[u].stage = "flushed"
    /\ LET q == request[u] IN
       /\ status' = [status EXCEPT ![q.chunk] = q.to]
       /\ book' = IF q.count = q.loaded THEN book ELSE [book EXCEPT !.completed = q.count]
       /\ signedOff' = IF q.to = "approved" /\ ~Held(q.chunk)
                       THEN signedOff \union {q.chunk} ELSE signedOff \ {q.chunk}
    /\ request' = [request EXCEPT ![u] = NoRequest]
    /\ UNCHANGED <<text, jobs, runs, faults, reviews, keptEdits>>

\* edit_translation loads the chunk ...
OpenEdit(u, c) ==
    /\ Review /\ request[u] = NoRequest
    /\ request' = [request EXCEPT ![u] =
           [chunk |-> c, to |-> "edited", stage |-> "looked", loaded |-> 0,
            seen |-> status[c], count |-> 0]]
    /\ UNCHANGED <<rows, jobs, runs, faults, ghosts>>

Edits(u) == request[u] # NoRequest /\ request[u].to = "edited"

\* The edit of a chunk that nothing changed or held since it was loaded is at rest.
Rested(c, seen) == IF ~Held(c) /\ status[c] = seen THEN keptEdits \union {c} ELSE keptEdits \ {c}

CommitEditKeepingStatus(u) ==
    /\ Edits(u) /\ ~Locked(request[u].chunk)
    /\ LET c == request[u].chunk IN
       /\ text' \in {[text EXCEPT ![c] = "human"], [text EXCEPT ![c] = "none"]}
       /\ keptEdits' = Rested(c, request[u].seen)
    /\ request' = [request EXCEPT ![u] = NoRequest]
    /\ UNCHANGED <<status, book, jobs, runs, faults, reviews, signedOff>>

\* ... and commits the text, also an empty one, and a status if the one it loaded was
\* of those that are replaced.
CommitEdit(u) ==
    /\ Edits(u) /\ ~Locked(request[u].chunk)
    /\ LET c == request[u].chunk  seen == request[u].seen IN
       /\ text' \in {[text EXCEPT ![c] = "human"], [text EXCEPT ![c] = "none"]}
       /\ status' = IF seen \in Pending THEN [status EXCEPT ![c] = "translated"] ELSE status
       /\ keptEdits' = Rested(c, seen)
       /\ signedOff' = IF seen \in Pending THEN signedOff \ {c} ELSE signedOff
    /\ request' = [request EXCEPT ![u] = NoRequest]
    /\ UNCHANGED <<book, jobs, runs, faults, reviews>>

\* decide_suggestion with "accept" puts a reviewer's words into the machine's text
\* (Suggestions.tla has its two steps).
AcceptSuggestion(c) ==
    /\ Review /\ ~Locked(c)
    /\ text[c] = "machine"
    /\ text' = [text EXCEPT ![c] = "human"]
    /\ UNCHANGED <<status, book, jobs, runs, request, faults, ghosts>>

-----------------------------------------------------------------------------
Next ==
    \/ \E j \in Jobs : (\E p \in Payload, m \in MaxAttempts : Ask(j, p, m)) \/ Reclaim(j) \/ Overrun(j)
    \/ \E r \in Runner : \/ \E j \in Jobs : StartJob(r, j)
                         \/ \E p \in Payload : StartCli(r, p)
                         \/ FinishRead(r) \/ FinishWrite(r) \/ Close(r)
                         \/ Raise(r) \/ Crash(r) \/ LoseOutcome(r)
    \/ \E r \in Runner, c \in Chunk :
           \/ Read(r, c) \/ Persist(r, c) \/ MarkFailed(r, c) \/ Report(r, c)
           \/ Abort(r, c)
    \/ \E c \in Chunk : AcceptSuggestion(c)
    \/ \E u \in Reviewer : \/ \E c \in Chunk : \/ \E to \in {"approved", "reviewed"} : Open(u, c, to)
                                               \/ OpenEdit(u, c)
                           \/ Look(u) \/ Flush(u) \/ CommitReview(u) \/ CommitEdit(u)

Spec == Init /\ [][Next]_vars

\* What a run does by itself.  Persist and MarkFailed are not here: they wait for the
\* model, and not every provider gives a call up.
RunStep(r) ==
    \/ \E c \in Chunk : Read(r, c) \/ Report(r, c)
    \/ FinishRead(r) \/ FinishWrite(r) \/ Close(r)

\* A worker polls the queue and reclaims, transactions end, some task of a run that
\* can go on does.
Fairness ==
    /\ WF_vars(\E r \in Runner, j \in Jobs : StartJob(r, j))
    /\ \A j \in Jobs : WF_vars(Reclaim(j))
    /\ \A r \in Runner : WF_vars(RunStep(r))
    /\ \A u \in Reviewer : WF_vars(Look(u) \/ Flush(u) \/ CommitReview(u) \/ CommitEdit(u))

FairSpec == Spec /\ Fairness

-----------------------------------------------------------------------------
(* Properties *)

\* Every variable has its type; a run knows the number of its attempt, which the row
\* of its job counts, and only a _finish has a view of the book.
TypeOK ==
    /\ status \in [Chunk -> Status]
    /\ text \in [Chunk -> {"none", "machine", "human"}]
    /\ book \in Book
    /\ jobs \in [Jobs -> Row]
    /\ \A j \in Jobs : /\ jobs[j].status = "absent" => jobs[j].attempts = 0
                       /\ jobs[j].status # "absent" => jobs[j].payload # NoPayload
    /\ phase \in [Runner -> Phase]
    /\ origin \in [Runner -> Jobs \union {Cli}] /\ attempt \in [Runner -> Nat]
    /\ \A r \in Runner : origin[r] # Cli => attempt[r] \in 1 .. jobs[origin[r]].attempts
    /\ task \in [Runner -> [Chunk -> Stage]]
    /\ view \in [Runner -> View \union {NoView}]
    /\ \A r \in Runner : view[r] # NoView <=> phase[r] = "finishing"
    /\ request \in [Reviewer -> Request \union {NoRequest}]
    /\ \A u \in Reviewer : Edits(u) => request[u].stage = "looked"
    /\ faults \in 0 .. FaultBound /\ reviews \in 0 .. ReviewBound
    /\ signedOff \subseteq Chunk /\ keptEdits \subseteq Chunk

\* A run that gets to its end has dealt with every chunk it selected: none is still
\* as extraction left it, whatever other runs and reviewers did meanwhile.
NothingSkipped ==
    \A r \in Runner, c \in Chunk : task[r][c] = "settled" => status[c] # "extracted"

\* An approval given while no task held the chunk is overwritten by no run, later,
\* orphaned or repeated: only unapprove takes it back.
ApprovalsAtRestSurvive ==
    [][\A r \in Runner, c \in Chunk :
           Persist(r, c) \/ MarkFailed(r, c) => c \notin signedOff]_vars

\* An edit made while no task held the chunk is overwritten by no run that was not
\* asked for this very chunk: pending and failed selections pass it by.
EditsAtRestSurvive ==
    [][\A r \in Runner, c \in Chunk :
           Persist(r, c) \/ MarkFailed(r, c) => c \notin keptEdits]_vars

\* A book does not stay "translating", if every call of the model is answered in the
\* end: also after a crash, an aborted gather, a lost outcome or a reclaimed job some
\* run gets to its _finish.  Three broken runs are only made good by the next run that
\* somebody asks for: one of the CLI, the last attempt of a job that fails, and one
\* beside which an overrun worker still has the job and may report it done.
BookSettles ==
    (\A r \in Runner, c \in Chunk : []<>(task[r][c] # "calling")) =>
        (book.status = "translating" ~>
             book.status # "translating" \/ \E r \in Runner : phase[r] = "broken")

\* "assert book.completed_chunks == 1" after one approval, "== 0" after it was taken
\* back (tests/test_jobs_and_services.py:166,170): with no run and no request under
\* way, completed_chunks is the number of approved chunks.
CompletedCountsApproved ==
    (\A r \in Runner : ~Active(r)) /\ (\A u \in Reviewer : request[u] = NoRequest)
        => book.completed = Cardinality(Approved)

\* "never overwrite human-approved work" (services/translation.py:97)
ApprovedSurvives ==
    [][\A r \in Runner, c \in Chunk :
           Persist(r, c) \/ MarkFailed(r, c) => status[c] # "approved"]_vars
=============================================================================
