------------------------------ MODULE Progress ------------------------------
(***************************************************************************)
(* Live progress: the polling generator of services/progress.py behind     *)
(* GET /books/{id}/events, the hook of the browser that listens to it      *)
(* (frontend/src/api/events.ts) and the queries of the review page.        *)
(*                                                                         *)
(* An event tells the page to fetch again; what is on the screen is what   *)
(* the last fetches brought.  The page fetches the book, which says whether*)
(* a job is active, and the chunks, each in a request of its own.          *)
(***************************************************************************)
EXTENDS Naturals, Sequences

CONSTANTS
    MaxJobs,    \* BOUND on jobs
    MaxRows,    \* BOUND on rows written
    MaxBreaks   \* BOUND on broken connections

ASSUME BoundsAssumption == MaxJobs \in Nat /\ MaxRows \in Nat /\ MaxBreaks \in Nat

VARIABLES
    job,        \* the active job, 0 for none
    jobs,       \* jobs so far
    rows,       \* chunk rows written so far: the counts of the snapshot
    strays,     \* whether tasks are at work that no active job knows of
    stream,     \* the connection: the generator at its end and the events
                \* on their way
    page,       \* the browser: what is on the screen and what it listens to
    fetching,   \* the two queries: nothing, a request, or its answer
    breaks,     \* connections broken so far
    \* history
    due,        \* the rows written by the time a job was last active
    missed      \* the page stopped listening before the stream said idle, went
                \* on showing a job after it had, or let an answer stand that
                \* was under way when it heard that there is more

progressVars == <<job, jobs, rows, strays, stream, page, fetching, breaks, due, missed>>
server == <<job, jobs, rows, strays, due>>

Query == {"book", "chunks"}
Nothing == [at |-> "no", got |-> 0]
Asked == [at |-> "asked", got |-> 0]
NoSnapshot == [rows |-> MaxRows + 1, job |-> 0]
NoStream == [at |-> "none", rows |-> 0, last |-> NoSnapshot, events |-> <<>>]
NewStream == [NoStream EXCEPT !.at = "counts"]

\* The page has just been opened.
ProgressInit ==
    /\ job = 0 /\ jobs = 0 /\ rows = 0 /\ due = 0 /\ strays = FALSE
    /\ stream = NoStream
    /\ page = [job |-> 0, rows |-> 0, live |-> FALSE, loaded |-> FALSE]
    /\ fetching = [q \in Query |-> Asked]
    /\ breaks = 0
    /\ missed = FALSE

(***************************************************************************)
(* What makes the page fetch again                                         *)
(***************************************************************************)

(* The first answer of the chunks is on its way.                           *)
FirstAnswer == ~page.loaded /\ fetching["chunks"].at = "answered"

(* MUTANT: "chunks" is missing from the keys that are invalidated.         *)
RefreshBook == fetching' = [fetching EXCEPT !["book"] = Asked]

(* Invalidated queries are fetched again, a request under way is given up, *)
(* but for the first one of a query, which has nothing to show yet.        *)
Refresh == fetching' = [q \in Query |-> IF q = "chunks" /\ FirstAnswer THEN fetching[q] ELSE Asked]

(***************************************************************************)
(* Jobs: enqueued by this page, which then fetches again, or by others     *)
(***************************************************************************)

Enqueue(here) ==
    /\ job = 0 /\ jobs < MaxJobs
    /\ job' = jobs + 1 /\ jobs' = jobs + 1
    /\ IF here THEN Refresh ELSE UNCHANGED fetching
    /\ missed' = (missed \/ (page.job # 0 /\ stream.at \in {"none", "ended"}))
    /\ UNCHANGED <<rows, strays, stream, page, breaks, due>>

(* A task of a gather that has raised, or of a worker that has lost its    *)
(* job, writes its row whether or not a job is active.                     *)
RowWritten ==
    /\ job # 0 \/ strays
    /\ rows < MaxRows /\ rows' = rows + 1
    /\ due' = IF job # 0 THEN rows + 1 ELSE due
    /\ UNCHANGED <<job, jobs, strays, stream, page, fetching, breaks, missed>>

(* The job ends, perhaps without its tasks.                                *)
JobEnds ==
    /\ job # 0
    /\ job' = 0
    /\ strays' \in {strays, TRUE}
    /\ UNCHANGED <<jobs, rows, stream, page, fetching, breaks, due, missed>>

(***************************************************************************)
(* The generator: book_snapshot is several queries, each of which sees what*)
(* is committed by then                                                    *)
(***************************************************************************)

CountRows ==
    /\ stream.at = "counts"
    /\ stream' = [stream EXCEPT !.at = "job", !.rows = rows]
    /\ UNCHANGED <<server, page, fetching, breaks, missed>>

Snapshot ==
    LET snap == [rows |-> stream.rows, job |-> job] IN
    /\ stream.at = "job"
    /\ stream' = [stream EXCEPT !.at = IF job = 0 THEN "ended" ELSE "counts", !.last = snap,
                     !.events = @ \o (IF snap = stream.last THEN <<>> ELSE <<"progress">>)
                                  \o (IF job = 0 THEN <<"idle">> ELSE <<>>)]
    /\ UNCHANGED <<server, page, fetching, breaks, missed>>

(***************************************************************************)
(* The page                                                                *)
(***************************************************************************)

OnProgress ==
    /\ stream.events # <<>> /\ Head(stream.events) = "progress"
    /\ stream' = [stream EXCEPT !.events = Tail(@)]
    /\ page' = [page EXCEPT !.live = TRUE]
    /\ Refresh
    /\ UNCHANGED <<server, breaks, missed>>

OnIdle ==
    /\ stream.events # <<>> /\ Head(stream.events) = "idle"
    /\ stream' = NoStream
    /\ page' = [page EXCEPT !.live = FALSE]
    /\ Refresh
    /\ missed' = (missed \/ FirstAnswer)
    /\ UNCHANGED <<server, breaks>>

(* The connection breaks, or the generator's hour is over; the EventSource *)
(* connects again by itself.                                               *)
Break ==
    /\ stream.at # "none" /\ stream.at # "broken" /\ breaks < MaxBreaks
    /\ breaks' = breaks + 1
    /\ stream' = [NoStream EXCEPT !.at = "broken"]
    /\ page' = [page EXCEPT !.live = FALSE]
    /\ UNCHANGED <<server, fetching, missed>>

Reconnect ==
    /\ stream.at = "broken"
    /\ stream' = NewStream
    /\ UNCHANGED <<server, page, fetching, breaks, missed>>

(* While the book has a job and the stream is not heard of. *)
Poll(q) ==
    /\ page.job # 0 /\ ~page.live /\ fetching[q].at = "no"
    /\ fetching' = [fetching EXCEPT ![q] = Asked]
    /\ UNCHANGED <<server, stream, page, breaks, missed>>

Answer(q) ==
    /\ fetching[q].at = "asked"
    /\ fetching' = [fetching EXCEPT ![q] =
          [at |-> "answered", got |-> IF q = "book" THEN job ELSE rows]]
    /\ UNCHANGED <<server, stream, page, breaks, missed>>

ShowChunks ==
    /\ fetching["chunks"].at = "answered"
    /\ page' = [page EXCEPT !.rows = fetching["chunks"].got, !.loaded = TRUE]
    /\ fetching' = [fetching EXCEPT !["chunks"] = Nothing]
    /\ UNCHANGED <<server, stream, breaks, missed>>

(* The effect of the hook runs when the book gets a job or loses it: it    *)
(* opens a stream, or closes the one there is.                             *)
ShowBook ==
    LET now == fetching["book"].got IN
    /\ fetching["book"].at = "answered"
    /\ fetching' = [fetching EXCEPT !["book"] = Nothing]
    /\ page' = [page EXCEPT !.job = now, !.live = @ /\ now # 0]
    /\ stream' = IF page.job = 0 /\ now # 0 THEN NewStream
                 ELSE IF now = 0 THEN NoStream ELSE stream
    /\ missed' = (missed \/ (now = 0 /\ stream.at # "none"))
    /\ UNCHANGED <<server, breaks>>

StreamStep == CountRows \/ Snapshot
Listen == OnProgress \/ OnIdle

(***************************************************************************)
(* Properties                                                              *)
(***************************************************************************)

(* A page that has shown a job ends up with the rows written while it was  *)
(* active; what tasks write that have outlived their job, nothing announces*)
(* (services/progress.py:88).  But for three cases in which no fetch is    *)
(* made after the last row: the book's fetch ends the listening before idle*)
(* arrives (the answer overtakes it, or the job ends while the stream is   *)
(* broken), a next job hides the end of the one before from the hook, or   *)
(* the page is so new that its first answer is still on its way.           *)
ScreenCatchesUp ==
    page.job # 0 ~> job # 0 \/ page.rows >= due \/ missed
=============================================================================
