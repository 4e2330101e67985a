------------------------------ MODULE BookLife ------------------------------
(***************************************************************************)
(* The life of one book, from its upload to its deletion: book.status as   *)
(* the requests (api/routes.py), the command line (cli.py), the extraction *)
(* (services/extraction.py) and the translation runs                       *)
(* (services/translation.py) move it, each acting in a later transaction   *)
(* on what an earlier one has read.                                        *)
(*                                                                         *)
(* The API admits one job per book at a time by looking for an active one  *)
(* and inserting afterwards; runs of the command line are not admitted by  *)
(* anybody, and a job may be run by two workers when its lock goes stale.  *)
(* Which job is claimed when is in JobQueue.tla, what a translation run    *)
(* does to each chunk in Translation.tla: here a run has two steps for the *)
(* transaction it begins with, which reads the book and then marks it, one *)
(* for each later one that changes the book or all of its rows, and one    *)
(* for its outcome.                                                        *)
(***************************************************************************)
EXTENDS Integers

CONSTANTS
    Run,          \* slots for handlers at work: workers and CLI processes
    JobBound,     \* bound: jobs the book is given, the extraction included
    MaxAttempts,  \* job.max_attempts
    CliBound,     \* bound: `translatebook translate` invocations
    RequestBound, \* bound: requests between check and insert at a time
    FaultBound    \* bound: crashes, lost outcomes and reclaims from live workers

ASSUME BoundAssumption ==
    /\ JobBound \in Nat \ {0} /\ MaxAttempts \in Nat \ {0}
    /\ CliBound \in Nat /\ RequestBound \in Nat /\ FaultBound \in Nat

VARIABLES
    status,    \* book.status; "absent" before create_book, "deleted" after delete_book
    chunks,    \* what the book's chunk rows hold
    jobs,      \* the book's rows of the job table, in the order of their INSERTs
    run,       \* what each slot is doing
    selected,  \* translation runs that have selected rows which still exist
    checked,   \* requests that have found no active job and are about to insert one
    cliRuns,   \* number of CLI translations so far
    faults,    \* number of faults so far
    raced,     \* history: a job was inserted while another request was past its check
    stolen,    \* history: a job was reclaimed from a run still at work
    crossed,   \* history: a run marked a book that had changed since the run read it,
               \* or an extraction began beside another or on a failed book
    broken     \* history: a run of the command line ended in an exception or died

book == <<status, chunks>>
bounds == <<cliRuns, faults>>
history == <<raced, stolen, crossed, broken>>
vars == <<book, jobs, run, selected, checked, bounds, history>>

Job == 1 .. JobBound
Cli == 0              \* in run[r].job: a run outside the queue

Rows == {"none", "untouched", "translated"}
\* "review" stands for "done" too: nothing here tells them apart.
BookStatus == {"uploaded", "extracting", "extracted", "translating", "review", "failed"}
JobRow == [attempts : Nat,
           status : {"absent", "queued", "running", "succeeded", "failed", "gone"}]
Place == {"idle", "opening", "marking", "extracting", "translating", "returning", "raising"}
RunState == [job : Job \union {Cli}, kind : {"extraction", "translation", "none"},
             attempt : Nat, at : Place, read : BookStatus \union {"unread"}]

NoRun == [job |-> Cli, kind |-> "none", attempt |-> 0, at |-> "idle", read |-> "unread"]
CliRun(kind) == [NoRun EXCEPT !.kind = kind, !.at = "opening"]
NoRow == [attempts |-> 0, status |-> "absent"]
Queued == [attempts |-> 0, status |-> "queued"]
Gone == [attempts |-> 0, status |-> "gone"]

\* create_book enqueues the extraction, requests enqueue translations.  An export,
\* which only reads the rows, is left out.
KindOf(j) == IF j = 1 THEN "extraction" ELSE "translation"

Exists == status \in BookStatus
Active == {j \in Job : jobs[j].status \in {"queued", "running"}}
Unused(j) == jobs[j].status = "absent" /\ \A i \in Job : i < j => jobs[i].status # "absent"
At(r, place) == run[r].at = place
Runs(r, j) == ~At(r, "idle") /\ run[r].job = j
Goes(r, place, read) == run' = [run EXCEPT ![r].at = place, ![r].read = read]
Moves(r, place) == Goes(r, place, "unread")
Ends(r) == run' = [run EXCEPT ![r] = NoRun]

Init ==
    /\ status = "absent" /\ chunks = "none"
    /\ jobs = [j \in Job |-> NoRow]
    /\ run = [r \in Run |-> NoRun]
    /\ selected = {}
    /\ checked = 0
    /\ cliRuns = 0 /\ faults = 0
    /\ raced = FALSE /\ stolen = FALSE /\ broken = FALSE
    /\ crossed = FALSE

-----------------------------------------------------------------------------
(* Requests *)

\* create_book: the book and its extraction job in one transaction.
Create ==
    /\ status = "absent"
    /\ status' = "uploaded"
    /\ jobs' = [jobs EXCEPT ![1] = Queued]
    /\ UNCHANGED <<chunks, selected, checked, bounds, history>>

Upload == Create /\ UNCHANGED run

\* `translatebook upload` does not wait for a worker: it extracts at once.
UploadCli(r) ==
    /\ Create
    /\ At(r, "idle")
    /\ run' = [run EXCEPT ![r] = CliRun("extraction")]

\* start_translation or retranslate_chunk passes its guard (the second asks for a
\* chunk only, so the first one's look at book.status keeps nothing out), and
\* _enqueue_exclusive finds no active job ...
CheckOnlyQueued ==
    /\ chunks # "none" /\ \A j \in Job : jobs[j].status # "queued"
    /\ checked < RequestBound /\ checked' = checked + 1
    /\ UNCHANGED <<book, jobs, run, selected, bounds, history>>

CheckActive ==
    /\ chunks # "none" /\ Active = {}
    /\ checked < RequestBound /\ checked' = checked + 1
    /\ UNCHANGED <<book, jobs, run, selected, bounds, history>>

\* ... and inserts one, which fails if the book is gone by then.
Insert ==
    /\ checked > 0 /\ checked' = checked - 1
    /\ IF Exists
       THEN \E j \in Job : Unused(j) /\ jobs' = [jobs EXCEPT ![j] = Queued]
       ELSE UNCHANGED jobs
    /\ raced' = (raced \/ checked > 1)
    /\ UNCHANGED <<book, run, selected, bounds, stolen, crossed, broken>>

\* delete_book and what goes with it (ON DELETE CASCADE).
Delete ==
    /\ Exists
    /\ status' = "deleted" /\ chunks' = "none" /\ selected' = {}
    /\ jobs' = [j \in Job |-> IF jobs[j].status = "absent" THEN jobs[j] ELSE Gone]
    /\ UNCHANGED <<run, checked, bounds, history>>

-----------------------------------------------------------------------------
(* The outcome of a run *)

\* claim and the detached copy.
Claim(r) ==
    /\ At(r, "idle")
    /\ \E j \in Job :
         /\ jobs[j].status = "queued"
         /\ jobs' = [jobs EXCEPT ![j].status = "running", ![j].attempts = @ + 1]
         /\ run' = [run EXCEPT ![r] = [job |-> j, kind |-> KindOf(j),
                                       attempt |-> jobs[j].attempts + 1, at |-> "opening",
                                       read |-> "unread"]]
    /\ UNCHANGED <<book, selected, checked, bounds, history>>

\* `translatebook translate`
StartCli(r) ==
    /\ Exists /\ At(r, "idle")
    /\ cliRuns < CliBound /\ cliRuns' = cliRuns + 1
    /\ run' = [run EXCEPT ![r] = CliRun("translation")]
    /\ UNCHANGED <<book, jobs, selected, checked, faults, history>>

RecordWithoutRow(r, s) ==
    LET j == run[r].job IN
    jobs' = IF j # Cli THEN [jobs EXCEPT ![j].status = s] ELSE jobs

\* The row of the run's job, if there is one still, gets status s.
Record(r, s) ==
    LET j == run[r].job IN
    jobs' = IF j # Cli /\ jobs[j].status # "gone"
            THEN [jobs EXCEPT ![j].status = s] ELSE jobs

\* The handler has returned: complete(), or the end of the command line.
Complete(r) ==
    /\ At(r, "returning")
    /\ Record(r, "succeeded")
    /\ Ends(r)
    /\ UNCHANGED <<book, selected, checked, bounds, history>>

\* The handler has raised: fail(), or a traceback at the command line.  Besides what the
\* guards below refuse, anything it does between two transactions may raise: a missing
\* or unreadable file, a provider that is not reachable, a lost connection.
Fail(r) ==
    /\ ~At(r, "idle")
    /\ Record(r, IF run[r].attempt >= MaxAttempts THEN "failed" ELSE "queued")
    /\ Ends(r)
    /\ selected' = selected \ {r}
    /\ broken' = (broken \/ run[r].job = Cli)
    /\ UNCHANGED <<book, checked, bounds, raced, stolen, crossed>>

\* The process dies, or the outcome of the job cannot be written.
Crash(r) ==
    /\ ~At(r, "idle")
    /\ faults < FaultBound /\ faults' = faults + 1
    /\ Ends(r)
    /\ selected' = selected \ {r}
    /\ broken' = (broken \/ run[r].job = Cli)
    /\ UNCHANGED <<book, jobs, checked, cliRuns, raced, stolen, crossed>>

\* reclaim_stale takes back the job of a run that is gone ...
ReclaimDead(j) ==
    /\ jobs[j].status = "running" /\ \A r \in Run : ~Runs(r, j)
    /\ jobs' = [jobs EXCEPT ![j].status = "queued"]
    /\ UNCHANGED <<book, run, selected, checked, bounds, history>>

\* ... or of one that has only been silent for too long.
ReclaimLive(j) ==
    /\ jobs[j].status = "running" /\ \E r \in Run : Runs(r, j)
    /\ faults < FaultBound /\ faults' = faults + 1
    /\ jobs' = [jobs EXCEPT ![j].status = "queued"]
    /\ stolen' = TRUE
    /\ UNCHANGED <<book, run, selected, checked, cliRuns, raced, crossed, broken>>

-----------------------------------------------------------------------------
(* The beginning of a run *)

ExtractableAlsoReview == {"uploaded", "extracting", "failed", "extracted", "review"}
Extractable == {"uploaded", "extracting", "failed", "extracted"}

\* A translation is refused before the extraction is through.
Accepted(kind) ==
    IF kind = "extraction" THEN Extractable ELSE BookStatus \ {"uploaded", "extracting"}

\* The first transaction of run_extraction or _run_translation reads the book, and the
\* run raises (Fail) or goes on ...
ReadBook(r) ==
    /\ At(r, "opening") /\ status \in Accepted(run[r].kind)
    /\ Goes(r, "marking", status)
    /\ UNCHANGED <<book, jobs, selected, checked, bounds, history>>

\* ... and marks it: the status is only written if the one that was read is another,
\* and then the row must still be there.
Marks(r, mark) ==
    /\ At(r, "marking") /\ Moves(r, mark)
    /\ IF run[r].read = mark THEN UNCHANGED status ELSE Exists /\ status' = mark
    /\ UNCHANGED <<chunks, jobs, checked, bounds, raced, stolen, broken>>

-----------------------------------------------------------------------------
(* run_extraction *)

\* The book is marked, by whomever it was opened meanwhile.
OpenExtraction(r) ==
    /\ run[r].kind = "extraction" /\ Marks(r, "extracting")
    /\ crossed' = (\/ crossed \/ status # run[r].read \/ status = "failed"
                   \/ \E q \in Run : At(q, "extracting"))
    /\ UNCHANGED selected

ReplaceKeepingStatus(r) ==
    /\ At(r, "extracting") /\ Exists
    /\ chunks' = "untouched"
    /\ Moves(r, "returning")
    /\ selected' = {}
    /\ UNCHANGED <<status, jobs, checked, bounds, history>>

\* The last transaction: all rows of the book are replaced, by none if no page
\* had text, and then the run raises.
ReplaceChunks(r) ==
    /\ At(r, "extracting") /\ Exists
    /\ \/ chunks' = "untouched" /\ status' = "extracted" /\ Moves(r, "returning")
       \/ chunks' = "none" /\ status' = "failed" /\ Moves(r, "raising")
    /\ selected' = {}
    /\ UNCHANGED <<jobs, checked, bounds, history>>

-----------------------------------------------------------------------------
(* run_translation *)

\* Rows are selected on the way, those that are there.
OpenTranslation(r) ==
    /\ run[r].kind = "translation" /\ Marks(r, "translating")
    /\ selected' = IF chunks = "none" THEN selected ELSE selected \union {r}
    /\ crossed' = (crossed \/ status # run[r].read)

\* A task persists a translation, if its row is still there.  The tasks that a run
\* leaves behind when it raises are in Translation.tla.
Persist(r) ==
    /\ At(r, "translating") /\ r \in selected /\ chunks # "translated"
    /\ chunks' = "translated"
    /\ UNCHANGED <<status, jobs, run, selected, checked, bounds, history>>

\* What _finish may find in the rows, which people approve and edit meanwhile:
\* without any row there are no failed ones.
Verdicts == IF chunks = "none" THEN {"review"} ELSE {"review", "failed"}

Finish(r) ==
    /\ At(r, "translating") /\ Exists
    /\ status' \in Verdicts
    /\ Moves(r, "returning")
    /\ selected' = selected \ {r}
    /\ UNCHANGED <<chunks, jobs, checked, bounds, history>>

-----------------------------------------------------------------------------
Next ==
    \/ Upload \/ CheckActive \/ Insert \/ Delete
    \/ \E j \in Job : ReclaimDead(j) \/ ReclaimLive(j)
    \/ \E r \in Run : \/ UploadCli(r) \/ StartCli(r) \/ Claim(r)
                      \/ ReadBook(r) \/ OpenExtraction(r) \/ ReplaceChunks(r)
                      \/ OpenTranslation(r) \/ Persist(r) \/ Finish(r)
                      \/ Complete(r) \/ Fail(r) \/ Crash(r)

Spec == Init /\ [][Next]_vars

-----------------------------------------------------------------------------
(* Properties *)

Typing ==
    /\ status \in BookStatus \union {"absent", "deleted"}
    /\ chunks \in Rows
    /\ jobs \in [Job -> JobRow]
    /\ run \in [Run -> RunState]
    /\ selected \subseteq Run
    /\ checked \in 0 .. RequestBound
    /\ cliRuns \in 0 .. CliBound /\ faults \in 0 .. FaultBound
    /\ {raced, stolen, crossed, broken} \subseteq BOOLEAN

\* Every variable has its type, the rows go with the book, and only a translation
\* run that is under way has rows to work on.
TypeOK ==
    /\ Typing
    /\ ~Exists => chunks = "none" /\ \A j \in Job : jobs[j].status \in {"absent", "gone"}
    /\ \A r \in selected : At(r, "translating") /\ chunks # "none"

\* "A ... job is already ... for this book" (routes.py:111): a book never has two
\* active jobs, through retries, crashes and runs of the command line, unless two
\* requests were between check and insert at once or a live worker lost its job:
\* then the fail() of the loser can re-queue a job next to a newer one.
OneActiveJob ==
    raced \/ stolen \/ \A i, j \in Active : i = j

\* "only valid before translation" (extraction.py:30): an extraction replaces rows that
\* hold translations, however its beginning and end lie around the runs of workers and
\* of the command line, only in three cases that nothing in the code prevents: two
\* extractions overlapped, one began on a failed book, or a run marked a book that
\* another had opened since the run read it.  Translations are those of a model: text
\* that a person types into an extracted book has no such protection and is left out.
TranslationsOutliveExtraction ==
    [][\A r \in Run :
           ReplaceChunks(r) => crossed \/ chunks # "translated"]_vars

\* A book that is "extracting" is never left to itself: some run is at it, or its
\* extraction job will come round again or has been given up, through crashes, lost
\* outcomes and attempts that raise half way.  It is only forgotten behind a command
\* line that broke off or a job that a live worker lost.
ExtractionAttended ==
    status = "extracting" =>
        \/ \E r \in Run : At(r, "extracting")
        \/ jobs[1].status \in {"queued", "running", "failed"}
        \/ broken \/ stolen
=============================================================================
