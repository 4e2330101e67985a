-------------------------- MODULE BookLife_proofs --------------------------
(***************************************************************************)
(* Proofs about BookLife for every number of jobs, attempts, requests, CLI *)
(* runs and faults and every set of slots.                                 *)
(***************************************************************************)
EXTENDS BookLife, TLAPS

-----------------------------------------------------------------------------
(* Type correctness *)

\* A run outside the command line works for a row that was inserted once.
RunsHaveRows ==
    \A r \in Run : run[r].job # Cli => jobs[run[r].job].status # "absent"

TypeInv == TypeOK /\ RunsHaveRows

JobStatus == {"absent", "queued", "running", "succeeded", "failed", "gone"}

\* What writing the outcome of a run does to the job table.
LEMMA Recorded ==
    ASSUME TypeInv, NEW r \in Run, NEW s \in {"queued", "succeeded", "failed"}, Record(r, s)
    PROVE  /\ jobs' \in [Job -> JobRow]
           /\ \A j \in Job : j # run[r].job => jobs'[j] = jobs[j]
           /\ \A j \in Job : jobs'[j].status = jobs[j].status \/
                             (j = run[r].job /\ jobs'[j].status = s /\ jobs[j].status # "gone")
           /\ \A j \in Job : j = run[r].job /\ jobs[j].status # "gone" => jobs'[j].status = s
  <1> USE DEF TypeInv, TypeOK, Typing, RunState, JobRow, Job, Cli
  <1>1. CASE run[r].job = Cli \/ jobs[run[r].job].status = "gone"
    BY <1>1 DEF Record
  <1>2. CASE run[r].job # Cli /\ jobs[run[r].job].status # "gone"
    <2>1. run[r].job \in Job
      BY <1>2
    <2>2. jobs' = [jobs EXCEPT ![run[r].job].status = s]
      BY <1>2 DEF Record
    <2> QED
      BY <2>1, <2>2, <1>2
  <1> QED
    BY <1>1, <1>2

LEMMA RecordedKeepsRows ==
    ASSUME TypeInv, NEW r \in Run, NEW s \in {"queued", "succeeded", "failed"}, Record(r, s)
    PROVE  /\ \A j \in Job : jobs[j].status # "absent" => jobs'[j].status # "absent"
           /\ ~Exists => \A j \in Job : jobs'[j].status \in {"absent", "gone"}
  <1>1. \A j \in Job : jobs[j].status # "absent" => jobs'[j].status # "absent"
    BY Recorded
  <1>2. ~Exists => \A j \in Job : jobs'[j].status \in {"absent", "gone"}
    BY Recorded DEF TypeInv, TypeOK, RunsHaveRows, Cli, Job
  <1> QED
    BY <1>1, <1>2

\* A run that goes on stays the run of its job.
LEMMA RunGoes ==
    ASSUME Typing, NEW r \in Run, NEW place \in Place, NEW read \in BookStatus \union {"unread"},
           Goes(r, place, read)
    PROVE  /\ run' \in [Run -> RunState]
           /\ \A q \in Run : /\ run'[q].job = run[q].job /\ run'[q].kind = run[q].kind
                             /\ run'[q].attempt = run[q].attempt
                             /\ q # r => run'[q] = run[q]
           /\ run'[r].at = place
  BY DEF Goes, Typing, RunState

LEMMA RunMoves ==
    ASSUME Typing, NEW r \in Run, NEW place \in Place, Moves(r, place)
    PROVE  /\ run' \in [Run -> RunState]
           /\ \A q \in Run : /\ run'[q].job = run[q].job /\ run'[q].kind = run[q].kind
                             /\ run'[q].attempt = run[q].attempt
                             /\ q # r => run'[q] = run[q]
           /\ run'[r].at = place
  BY RunGoes DEF Moves

\* A command line begins a run of its own.
LEMMA CliRunOpens ==
    ASSUME NEW kind
    PROVE  /\ CliRun(kind).job = Cli /\ CliRun(kind).at = "opening"
           /\ CliRun(kind).kind = kind
  BY DEF CliRun, NoRun

\* What the two actions with a case do, apart from their history.
LEMMA MarksDoes ==
    ASSUME NEW r \in Run, NEW mark, Marks(r, mark)
    PROVE  /\ status' = status \/ (Exists /\ status' = mark)
           /\ At(r, "marking") /\ Moves(r, mark)
           /\ UNCHANGED <<chunks, jobs, checked, cliRuns, faults, raced, stolen, broken>>
  BY DEF Marks, bounds

LEMMA InsertDoes ==
    ASSUME Insert
    PROVE  /\ jobs' = jobs \/ (Exists /\ \E j \in Job : Unused(j) /\ jobs' = [jobs EXCEPT ![j] = Queued])
           /\ checked > 0 /\ checked' = checked - 1
           /\ UNCHANGED <<status, chunks, run, selected, cliRuns, faults, stolen, crossed, broken>>
  BY DEF Insert, book, bounds

LEMMA InitTypeInv == Init => TypeInv
  <1> SUFFICES ASSUME Init PROVE TypeInv
    OBVIOUS
  <1> USE DEF Init
  <1>1. jobs \in [Job -> JobRow]
    BY DEF NoRow, JobRow
  <1>2. run \in [Run -> RunState]
    BY DEF NoRun, RunState, Place, Cli
  <1>3. checked \in 0 .. RequestBound /\ cliRuns \in 0 .. CliBound /\ faults \in 0 .. FaultBound
    BY BoundAssumption
  <1>4. Typing
    BY <1>1, <1>2, <1>3 DEF Typing, Rows
  <1>5. RunsHaveRows
    BY DEF RunsHaveRows, NoRun, Cli
  <1> QED
    BY <1>4, <1>5 DEF TypeInv, TypeOK, NoRow

LEMMA NextTypeInv == TypeInv /\ [Next]_vars => TypeInv'
  <1> SUFFICES ASSUME TypeInv, [Next]_vars
               PROVE  TypeInv'
    OBVIOUS
  <1> USE BoundAssumption DEF TypeInv, TypeOK, Typing, RunState, RunsHaveRows, book, bounds, history
  <1>1. ASSUME Create, run' = run \/ \E r \in Run : UploadCli(r) PROVE TypeInv'
    <2>1. 1 \in Job
      BY DEF Job
    <2>2. jobs' \in [Job -> JobRow]
      BY <1>1 DEF Create, Queued, JobRow
    <2>3. \A j \in Job : jobs[j].status # "absent" => jobs'[j].status # "absent"
      BY <1>1 DEF Create, Queued, JobRow
    <2>4. /\ run' \in [Run -> RunState]
          /\ \A r \in Run : run'[r] = run[r] \/ run'[r].job = Cli
          /\ \A r \in Run : run'[r] = run[r] \/ run[r].at = "idle"
      <3>1. CASE run' = run
        BY <3>1
      <3>2. ASSUME NEW r \in Run, UploadCli(r) PROVE <2>4!1 /\ <2>4!2 /\ <2>4!3
        BY <3>2 DEF UploadCli, CliRun, NoRun, RunState, Place, At, Cli
      <3> QED
        BY <1>1, <3>1, <3>2
    <2>5. \A r \in selected : At(r, "translating")'
      BY <2>4 DEF At
    <2> QED
      BY <1>1, <2>2, <2>3, <2>4, <2>5 DEF Create, Exists, BookStatus, Cli
  <1>2. CASE CheckActive
    BY <1>2 DEF CheckActive, Exists, At
  <1>3. CASE Insert
    <2>1. jobs' = jobs \/ (Exists /\ \E j \in Job : jobs' = [jobs EXCEPT ![j] = Queued])
      BY <1>3, InsertDoes
    <2>4. checked' \in 0 .. RequestBound
      <3>1. checked > 0 /\ checked' = checked - 1 /\ checked \in 0 .. RequestBound
        BY <1>3, InsertDoes
      <3> QED
        BY <3>1
    <2>3. /\ UNCHANGED <<status, chunks, run, selected, cliRuns, faults, stolen, crossed, broken>>
          /\ raced' \in BOOLEAN
      BY <1>3, Zenon DEF Insert
    <2>2. /\ jobs' \in [Job -> JobRow]
          /\ \A j \in Job : jobs[j].status # "absent" => jobs'[j].status # "absent"
      BY <2>1 DEF Queued, JobRow
    <2> QED
      BY <2>1, <2>2, <2>3, <2>4 DEF Exists, At, Cli
  <1>4. CASE Delete
    BY <1>4 DEF Delete, Gone, JobRow, Exists, BookStatus, Rows, At
  <1>5. ASSUME NEW r \in Run, Claim(r) PROVE TypeInv'
    <2>1. PICK j \in Job :
              /\ jobs[j].status = "queued"
              /\ jobs' = [jobs EXCEPT ![j].status = "running", ![j].attempts = @ + 1]
              /\ run' = [run EXCEPT ![r] = [job |-> j, kind |-> KindOf(j),
                                            attempt |-> jobs[j].attempts + 1, at |-> "opening",
                                            read |-> "unread"]]
      BY <1>5 DEF Claim
    <2>2. jobs' \in [Job -> JobRow]
      BY <2>1 DEF JobRow
    <2>3. \A i \in Job : jobs[i].status # "absent" => jobs'[i].status # "absent"
      BY <2>1
    <2>4. /\ run' \in [Run -> RunState]
          /\ \A q \in Run : run'[q] = run[q] \/ run'[q].job = j
          /\ \A q \in Run : run'[q] = run[q] \/ run[q].at = "idle"
      BY <2>1, <1>5 DEF Claim, KindOf, JobRow, RunState, Place, At
    <2>5. \A q \in selected : At(q, "translating")'
      BY <2>4 DEF At
    <2>6. Exists
      BY <2>1
    <2> QED
      BY <1>5, <2>1, <2>2, <2>3, <2>4, <2>5, <2>6 DEF Claim, Exists
  <1>6. ASSUME NEW r \in Run, StartCli(r) PROVE TypeInv'
    <2>1. /\ run' \in [Run -> RunState]
          /\ \A q \in Run : run'[q] = run[q] \/ run'[q].job = Cli
          /\ \A q \in Run : run'[q] = run[q] \/ run[q].at = "idle"
      BY <1>6 DEF StartCli, CliRun, NoRun, RunState, Place, At, Cli
    <2>2. \A q \in selected : At(q, "translating")'
      BY <1>6, <2>1 DEF At, StartCli
    <2>3. cliRuns' \in 0 .. CliBound
      BY <1>6 DEF StartCli
    <2>4. UNCHANGED <<status, chunks, jobs, selected, checked, faults, raced, stolen, crossed,
                      broken>>
      BY <1>6 DEF StartCli
    <2> QED
      BY <2>1, <2>2, <2>3, <2>4 DEF Exists
  <1>7. ASSUME NEW r \in Run, Complete(r) PROVE TypeInv'
    <2>1. Record(r, "succeeded") /\ run' = [run EXCEPT ![r] = NoRun]
      BY <1>7 DEF Complete, Ends
    <2>2. jobs' \in [Job -> JobRow]
      BY <2>1, Recorded
    <2>3. r \notin selected
      BY <1>7 DEF Complete, At
    <2> QED
      BY <1>7, <2>1, <2>2, <2>3, RecordedKeepsRows
      DEF Complete, NoRun, RunState, Exists, At, Cli, Place
  <1>8. ASSUME NEW r \in Run, Fail(r) PROVE TypeInv'
    <2>1. PICK s \in {"queued", "failed"} : Record(r, s)
      BY <1>8 DEF Fail
    <2>2. jobs' \in [Job -> JobRow]
      BY <2>1, Recorded
    <2>3. \A j \in Job : jobs[j].status # "absent" => jobs'[j].status # "absent"
      BY <2>1, RecordedKeepsRows
    <2>4. ~Exists => \A j \in Job : jobs'[j].status \in {"absent", "gone"}
      BY <2>1, RecordedKeepsRows
    <2>5. broken' \in BOOLEAN /\ run' = [run EXCEPT ![r] = NoRun]
      BY <1>8 DEF Fail, Ends
    <2> QED
      BY <1>8, <2>2, <2>3, <2>4, <2>5 DEF Fail, NoRun, RunState, Exists, At, Cli, Place
  <1>9. ASSUME NEW r \in Run, Crash(r) PROVE TypeInv'
    BY <1>9 DEF Crash, Ends, NoRun, RunState, Exists, At, Cli, Place
  <1>10. ASSUME NEW j \in Job, ReclaimDead(j) \/ ReclaimLive(j) PROVE TypeInv'
    <2>1. /\ jobs' \in [Job -> JobRow] /\ Exists
          /\ \A i \in Job : jobs[i].status # "absent" => jobs'[i].status # "absent"
      BY <1>10 DEF ReclaimDead, ReclaimLive, JobRow
    <2>2. faults' \in 0 .. FaultBound /\ stolen' \in BOOLEAN
      <3>1. CASE ReclaimDead(j)
        BY <3>1 DEF ReclaimDead
      <3>2. CASE ReclaimLive(j)
        BY <3>2 DEF ReclaimLive
      <3> QED
        BY <1>10, <3>1, <3>2
    <2>3. UNCHANGED <<status, chunks, run, selected, checked, cliRuns, raced, crossed, broken>>
      BY <1>10 DEF ReclaimDead, ReclaimLive
    <2>4. Typing'
      BY <2>1, <2>2, <2>3
    <2>5. RunsHaveRows'
      BY <2>1, <2>3 DEF Cli
    <2> QED
      BY <2>1, <2>3, <2>4, <2>5 DEF Exists, At
  <1>11. ASSUME NEW r \in Run, ReadBook(r) \/ OpenExtraction(r) PROVE TypeInv'
    <2>1. /\ status' = status \/ (Exists /\ status' = "extracting")
          /\ UNCHANGED <<chunks, jobs, selected, checked, cliRuns, faults, raced, stolen, broken>>
          /\ r \notin selected /\ crossed' \in BOOLEAN
      <3>1. CASE ReadBook(r)
        BY <3>1 DEF ReadBook, At
      <3>2. CASE OpenExtraction(r)
        <4>1. crossed' \in BOOLEAN
          BY <3>2, Zenon DEF OpenExtraction
        <4>2. Marks(r, "extracting") /\ selected' = selected
          BY <3>2 DEF OpenExtraction
        <4> QED
          BY <4>1, <4>2, MarksDoes DEF At
      <3> QED
        BY <1>11, <3>1, <3>2
    <2>2. /\ run' \in [Run -> RunState]
          /\ \A q \in Run : run'[q].job = run[q].job /\ (q # r => run'[q] = run[q])
      <3>1. CASE ReadBook(r)
        <4>1. status \in BookStatus
          BY <3>1 DEF ReadBook, Accepted, Extractable, BookStatus
        <4> QED
          BY <3>1, <4>1, RunGoes DEF ReadBook, Place
      <3>2. CASE OpenExtraction(r)
        BY <3>2, RunMoves DEF OpenExtraction, Marks, Place
      <3> QED
        BY <1>11, <3>1, <3>2
    <2> QED
      BY <2>1, <2>2 DEF Exists, BookStatus, At
  <1>12. ASSUME NEW r \in Run, ReplaceChunks(r) PROVE TypeInv'
    <2>1. /\ status' \in {"extracted", "failed"} /\ chunks' \in {"untouched", "none"}
          /\ UNCHANGED <<jobs, checked, bounds, history>> /\ selected' = {}
      BY <1>12 DEF ReplaceChunks
    <2>2. /\ run' \in [Run -> RunState]
          /\ \A q \in Run : run'[q].job = run[q].job
      BY <1>12, RunMoves DEF ReplaceChunks, Place
    <2> QED
      BY <2>1, <2>2 DEF Exists, BookStatus, Rows
  <1>13. ASSUME NEW r \in Run, OpenTranslation(r) PROVE TypeInv'
    <2>1. selected' = IF chunks = "none" THEN selected ELSE selected \union {r}
      BY <1>13 DEF OpenTranslation
    <2>6. /\ status' = status \/ (Exists /\ status' = "translating")
          /\ UNCHANGED <<chunks, jobs, checked, cliRuns, faults, raced, stolen, broken>>
      BY <1>13, MarksDoes DEF OpenTranslation
    <2>0. crossed' \in BOOLEAN
      BY <1>13, Zenon DEF OpenTranslation
    <2>2. /\ run' \in [Run -> RunState] /\ run'[r].at = "translating"
          /\ \A q \in Run : run'[q].job = run[q].job /\ (q # r => run'[q] = run[q])
      BY <1>13, RunMoves DEF OpenTranslation, Marks, Place
    <2>3. \A q \in selected' : At(q, "translating")' /\ chunks' # "none"
      BY <2>1, <2>2, <2>6 DEF At
    <2>4. ~Exists' => ~Exists
      BY <2>6 DEF Exists, BookStatus
    <2>5. /\ status' \in BookStatus \union {"absent", "deleted"} /\ selected' \subseteq Run
      BY <2>1, <2>6 DEF BookStatus
    <2> QED
      BY <2>0, <2>2, <2>3, <2>4, <2>5, <2>6
  <1>14. ASSUME NEW r \in Run, Persist(r) PROVE TypeInv'
    BY <1>14 DEF Persist, Exists, Rows, At
  <1>15. ASSUME NEW r \in Run, Finish(r) PROVE TypeInv'
    <2>1. /\ status' \in {"review", "failed"} /\ UNCHANGED <<chunks, jobs, checked, bounds, history>>
          /\ selected' = selected \ {r} /\ Exists
      BY <1>15 DEF Finish, Verdicts
    <2>2. /\ run' \in [Run -> RunState]
          /\ \A q \in Run : run'[q].job = run[q].job /\ (q # r => run'[q] = run[q])
      BY <1>15, RunMoves DEF Finish, Place
    <2> QED
      BY <2>1, <2>2 DEF Exists, BookStatus, At
  <1>16. CASE UNCHANGED vars
    BY <1>16 DEF vars, Exists, At
  <1> QED
    BY <1>1, <1>2, <1>3, <1>4, <1>5, <1>6, <1>7, <1>8, <1>9, <1>10, <1>11,
       <1>12, <1>13, <1>14, <1>15, <1>16 DEF Next, Upload, UploadCli

\* Every variable keeps its type, nothing is left of the jobs of a deleted book, and
\* only translation runs under way have rows to work on.
THEOREM TypeCorrect == Spec => []TypeOK
  <1>1. TypeInv => TypeOK
    BY DEF TypeInv
  <1> QED
    BY <1>1, InitTypeInv, NextTypeInv, PTL DEF Spec

-----------------------------------------------------------------------------
(* One active job *)

\* A book does not become absent.
LEMMA NextStatus == [Next]_vars /\ status' = "absent" => status = "absent"
  BY DEF Next, Upload, UploadCli, Create, CheckActive, Insert, Delete, ReclaimDead, ReclaimLive,
         StartCli, Claim, ReadBook, OpenExtraction, Marks, ReplaceChunks, OpenTranslation, Persist, Finish,
         Verdicts, Complete, Fail, Crash, vars, history, book

Working(r) == ~At(r, "idle") /\ run[r].job # Cli

\* Until a job is stolen, a run works for a running row, unless the row is gone, and
\* no two runs work for one job.
RunnerIsRunning ==
    stolen \/ \A r \in Run : Working(r) => jobs[run[r].job].status \in {"running", "gone"}
OneRunner ==
    stolen \/ \A q, r \in Run : Working(q) /\ Working(r) /\ run[q].job = run[r].job => q = r

\* Nothing happens before the upload.
NothingBefore ==
    status = "absent" => checked = 0 /\ \A j \in Job : jobs[j].status = "absent"

RunnersInv == TypeInv /\ RunnerIsRunning /\ OneRunner /\ NothingBefore

LEMMA InitRunnersInv == Init => RunnersInv
  BY InitTypeInv
  DEF Init, RunnersInv, RunnerIsRunning, OneRunner, NothingBefore, Working, NoRun, NoRow, At

LEMMA NextNothingBefore == TypeInv /\ NothingBefore /\ [Next]_vars => NothingBefore'
  <1> SUFFICES ASSUME TypeInv, NothingBefore, [Next]_vars, status' = "absent"
               PROVE  UNCHANGED <<checked, jobs>>
    BY NextStatus DEF NothingBefore
  <1> USE DEF NothingBefore, TypeInv, TypeOK, Typing, RunState
  <1>1. status = "absent" /\ ~Exists /\ chunks = "none"
    BY NextStatus DEF Exists, BookStatus
  <1>2. ASSUME NEW r \in Run, NEW s \in {"queued", "succeeded", "failed"}, Record(r, s)
        PROVE  UNCHANGED jobs
    BY <1>1, <1>2 DEF Record, RunsHaveRows
  <1>3. ASSUME NEW r \in Run, Complete(r) \/ Fail(r) PROVE UNCHANGED <<checked, jobs>>
    BY <1>1, <1>2, <1>3 DEF Complete, Fail
  <1>4. ASSUME NEW r \in Run,
               UploadCli(r) \/ StartCli(r) \/ Claim(r) \/ ReadBook(r) \/ OpenExtraction(r)
                 \/ ReplaceChunks(r) \/ OpenTranslation(r) \/ Persist(r) \/ Finish(r) \/ Crash(r)
        PROVE  UNCHANGED <<checked, jobs>>
    BY <1>1, <1>4
    DEF UploadCli, Create, StartCli, Claim, ReadBook, OpenExtraction, Marks, ReplaceChunks, OpenTranslation,
        Persist, Finish, Crash, bounds
  <1>5. ASSUME NEW j \in Job, ReclaimDead(j) \/ ReclaimLive(j) PROVE FALSE
    BY <1>1, <1>5 DEF ReclaimDead, ReclaimLive
  <1>6. CASE Upload \/ CheckActive \/ Insert \/ Delete \/ UNCHANGED vars
    BY <1>1, <1>6 DEF Upload, Create, CheckActive, Insert, Delete, vars
  <1> QED
    BY <1>3, <1>4, <1>5, <1>6 DEF Next

\* The end of a run touches no other run's job.
LEMMA EndKeepsRunners ==
    ASSUME RunnersInv, NEW r \in Run, ~At(r, "idle"), Ends(r), stolen' = stolen,
           jobs' = jobs \/ \E s \in {"queued", "succeeded", "failed"} : Record(r, s)
    PROVE  RunnerIsRunning' /\ OneRunner'
  <1> USE DEF RunnersInv
  <1>1. \A q \in Run : q # r => run'[q] = run[q]
    BY DEF Ends, TypeInv, TypeOK, Typing, RunState
  <1>2. run'[r] = NoRun
    BY DEF Ends, TypeInv, TypeOK, Typing, RunState
  <1>3. ~Working(r)' /\ \A q \in Run : q # r => (Working(q)' <=> Working(q))
    BY <1>1, <1>2 DEF Working, NoRun, At
  <1>4. OneRunner'
    BY <1>1, <1>3 DEF OneRunner
  <1>5. ASSUME ~stolen, NEW q \in Run, q # r, Working(q)
        PROVE  jobs'[run[q].job] = jobs[run[q].job]
    <2>1. run[q].job \in Job
      BY <1>5 DEF Working, TypeInv, TypeOK, Typing, RunState
    <2>2. CASE run[q].job # run[r].job
      BY <2>1, <2>2, Recorded
    <2>3. CASE run[q].job = run[r].job
      BY <1>5, <2>3 DEF OneRunner, Working
    <2> QED
      BY <2>2, <2>3
  <1>6. RunnerIsRunning'
    BY <1>1, <1>3, <1>5 DEF RunnerIsRunning
  <1> QED
    BY <1>4, <1>6

\* The steps that do nothing else to a run than take it on.
LEMMA RunGoesOn ==
    ASSUME NEW r \in Run,
           ReadBook(r) \/ OpenExtraction(r) \/ ReplaceChunks(r) \/ OpenTranslation(r) \/ Finish(r)
    PROVE  \E place \in Place \ {"idle"}, read \in BookStatus \union {"unread"} : Goes(r, place, read)
  <1>1. CASE ReadBook(r)
    <2>1. status \in BookStatus
      BY <1>1 DEF ReadBook, Accepted, Extractable, BookStatus
    <2> QED
      BY <1>1, <2>1 DEF ReadBook, Place
  <1>2. CASE OpenExtraction(r) \/ OpenTranslation(r)
    BY <1>2 DEF OpenExtraction, OpenTranslation, Marks, Moves, Place
  <1>3. CASE ReplaceChunks(r) \/ Finish(r)
    BY <1>3 DEF ReplaceChunks, Finish, Moves, Place
  <1> QED
    BY <1>1, <1>2, <1>3

\* A run that goes on works for the job it worked for.
LEMMA MoveKeepsRunners ==
    ASSUME RunnersInv, NEW r \in Run, ~At(r, "idle"), NEW place \in Place \ {"idle"},
           NEW read \in BookStatus \union {"unread"},
           Goes(r, place, read), UNCHANGED <<jobs, stolen>>
    PROVE  RunnerIsRunning' /\ OneRunner'
  <1>1. \A q \in Run : run'[q].job = run[q].job /\ (Working(q)' <=> Working(q))
    BY RunGoes DEF Working, At, RunnersInv, TypeInv, TypeOK
  <1> QED
    BY <1>1 DEF RunnersInv, RunnerIsRunning, OneRunner

LEMMA NextRunnersInv == RunnersInv /\ [Next]_vars => RunnersInv'
  <1> SUFFICES ASSUME RunnersInv, [Next]_vars
               PROVE  RunnerIsRunning' /\ OneRunner'
    BY NextTypeInv, NextNothingBefore DEF RunnersInv
  <1> USE DEF RunnersInv, TypeInv, TypeOK, Typing, RunState, bounds, history, book
  <1>a. \A r \in Run : Working(r) => run[r].job \in Job /\ jobs[run[r].job].status # "absent"
    BY DEF Working, RunsHaveRows
  <1>1. ASSUME Create, run' = run \/ \E r \in Run : UploadCli(r)
        PROVE  RunnerIsRunning' /\ OneRunner'
    <2>1. \A r \in Run : Working(r)' => Working(r) /\ run'[r] = run[r]
      BY <1>1 DEF UploadCli, CliRun, NoRun, Working, At
    <2>2. \A r \in Run : ~Working(r)
      BY <1>a, <1>1 DEF Create, NothingBefore
    <2> QED
      BY <2>1, <2>2 DEF RunnerIsRunning, OneRunner
  <1>2. CASE Insert
    BY <1>2, <1>a DEF Insert, Unused, RunnerIsRunning, OneRunner, Working, At
  <1>3. CASE Delete
    BY <1>3, <1>a DEF Delete, Gone, RunnerIsRunning, OneRunner, Working, At
  <1>4. ASSUME NEW r \in Run, Claim(r) PROVE RunnerIsRunning' /\ OneRunner'
    <2>1. PICK j \in Job :
              /\ jobs[j].status = "queued"
              /\ jobs' = [jobs EXCEPT ![j].status = "running", ![j].attempts = @ + 1]
              /\ run' = [run EXCEPT ![r] = [job |-> j, kind |-> KindOf(j),
                                            attempt |-> jobs[j].attempts + 1, at |-> "opening",
                                            read |-> "unread"]]
      BY <1>4 DEF Claim
    <2>2. ~stolen => \A q \in Run : Working(q) => run[q].job # j
      BY <2>1 DEF RunnerIsRunning
    <2>3. jobs'[j].status = "running" /\ \A i \in Job : i # j => jobs'[i] = jobs[i]
      BY <2>1 DEF JobRow
    <2>4. run'[r].job = j /\ \A q \in Run : q # r => run'[q] = run[q]
      BY <2>1
    <2> QED
      BY <1>4, <1>a, <2>2, <2>3, <2>4 DEF Claim, RunnerIsRunning, OneRunner, Working, At
  <1>5. ASSUME NEW r \in Run, StartCli(r) PROVE RunnerIsRunning' /\ OneRunner'
    <2>1. \A q \in Run : Working(q)' => Working(q) /\ run'[q] = run[q]
      BY <1>5 DEF StartCli, CliRun, NoRun, Working, At
    <2> QED
      BY <1>5, <2>1 DEF StartCli, RunnerIsRunning, OneRunner
  <1>6. ASSUME NEW r \in Run, Complete(r) \/ Fail(r) \/ Crash(r)
        PROVE  RunnerIsRunning' /\ OneRunner'
    BY <1>6, EndKeepsRunners DEF Complete, Fail, Crash, At
  <1>7. ASSUME NEW j \in Job, ReclaimDead(j) PROVE RunnerIsRunning' /\ OneRunner'
    <2>1. \A q \in Run : Working(q) => run[q].job # j
      BY <1>7 DEF ReclaimDead, Runs, Working
    <2> QED
      BY <1>7, <1>a, <2>1 DEF ReclaimDead, RunnerIsRunning, OneRunner, Working, At
  <1>8. ASSUME NEW j \in Job, ReclaimLive(j) PROVE RunnerIsRunning' /\ OneRunner'
    BY <1>8 DEF ReclaimLive, RunnerIsRunning, OneRunner
  <1>9. ASSUME NEW r \in Run,
               ReadBook(r) \/ OpenExtraction(r) \/ ReplaceChunks(r) \/ OpenTranslation(r) \/ Finish(r)
        PROVE  RunnerIsRunning' /\ OneRunner'
    <2>1. ~At(r, "idle") /\ UNCHANGED <<jobs, stolen>>
      BY <1>9 DEF ReadBook, OpenExtraction, Marks, ReplaceChunks, OpenTranslation, Finish, At
    <2> QED
      BY <1>9, <2>1, RunGoesOn, MoveKeepsRunners
  <1>13. CASE UNCHANGED <<jobs, run, stolen>>
    BY <1>13 DEF RunnerIsRunning, OneRunner, Working, At
  <1> QED
    BY <1>1, <1>2, <1>3, <1>4, <1>5, <1>6, <1>7, <1>8, <1>9, <1>13
    DEF Next, Upload, UploadCli, CheckActive, Persist, vars

\* The outcome of a run activates nothing: what it re-queues was running.
LEMMA EndActivatesNothing ==
    ASSUME RunnersInv, ~stolen, NEW r \in Run, ~At(r, "idle"),
           NEW s \in {"queued", "succeeded", "failed"}, Record(r, s)
    PROVE  Active' \subseteq Active
  <1>1. ASSUME NEW j \in Job, jobs'[j].status # jobs[j].status PROVE j \in Active
    <2>1. j = run[r].job /\ jobs[j].status # "gone"
      BY <1>1, Recorded DEF RunnersInv
    <2>2. Working(r)
      BY <2>1 DEF Working, Job, Cli
    <2> QED
      BY <2>1, <2>2 DEF RunnersInv, RunnerIsRunning, Active
  <1> QED
    BY <1>1 DEF Active

\* Only an upload and a request's insert make a job active, until one is stolen.
LEMMA ActiveShrinks ==
    ASSUME RunnersInv, [Next]_vars, ~stolen', ~Create, ~Insert
    PROVE  Active' \subseteq Active
  <1> USE DEF RunnersInv, TypeInv, TypeOK, Typing, RunState, history
  <1>1. ASSUME NEW r \in Run, Complete(r) \/ Fail(r) PROVE Active' \subseteq Active
    BY <1>1, EndActivatesNothing DEF Complete, Fail, At
  <1>2. ASSUME NEW r \in Run, Claim(r) PROVE Active' \subseteq Active
    BY <1>2 DEF Claim, Active, JobRow
  <1>3. ASSUME NEW j \in Job, ReclaimDead(j) \/ ReclaimLive(j) PROVE Active' \subseteq Active
    BY <1>3 DEF ReclaimDead, ReclaimLive, Active, JobRow
  <1>4. CASE Delete
    BY <1>4 DEF Delete, Active, Gone
  <1>5. CASE UNCHANGED jobs
    BY <1>5 DEF Active
  <1> QED
    BY <1>1, <1>2, <1>3, <1>4, <1>5
    DEF Next, Upload, UploadCli, StartCli, CheckActive, ReadBook, OpenExtraction, Marks, ReplaceChunks,
        OpenTranslation, Persist, Finish, Crash, vars

\* A request that has found no active job stays right about it until another gets in
\* between, and no other does unless both have looked already.
CheckedFree == raced \/ stolen \/ checked = 0 \/ Active = {}

AdmissionInv == RunnersInv /\ CheckedFree /\ OneActiveJob

LEMMA HistoryGrows ==
    [Next]_vars => (raced => raced') /\ (stolen => stolen')
  <1> SUFFICES ASSUME [Next]_vars PROVE (raced => raced') /\ (stolen => stolen')
    OBVIOUS
  <1>1. CASE Insert
    BY <1>1, Zenon DEF Insert
  <1>2. ASSUME NEW j \in Job, ReclaimLive(j) PROVE (raced => raced') /\ stolen'
    BY <1>2 DEF ReclaimLive
  <1>3. CASE ~Insert /\ ~ \E j \in Job : ReclaimLive(j)
    <2>1. UNCHANGED <<raced, stolen>>
      BY <1>3
      DEF Next, Upload, UploadCli, Create, CheckActive, Delete, ReclaimDead, StartCli, Claim,
          ReadBook, OpenExtraction, Marks, ReplaceChunks, OpenTranslation, Persist, Finish, Complete, Fail,
          Crash, vars, history
    <2> QED
      BY <2>1
  <1> QED
    BY <1>1, <1>2, <1>3

LEMMA NextAdmissionInv == AdmissionInv /\ [Next]_vars => AdmissionInv'
  <1> SUFFICES ASSUME AdmissionInv, [Next]_vars, ~raced', ~stolen'
               PROVE  /\ checked' = 0 \/ Active' = {}
                      /\ \A i, j \in Active' : i = j
    BY NextRunnersInv DEF AdmissionInv, CheckedFree, OneActiveJob
  <1> USE DEF AdmissionInv, CheckedFree, OneActiveJob
  <1>1. ~raced /\ ~stolen
    BY HistoryGrows
  <1>2. CASE Create
    <2>1. status = "absent" /\ checked' = 0
      BY <1>2 DEF Create, RunnersInv, NothingBefore
    <2>2. \A j \in Job : jobs'[j].status = "absent" \/ j = 1
      BY <1>2 DEF Create, RunnersInv, NothingBefore, TypeInv, TypeOK, Typing, RunState, Job
    <2> QED
      BY <2>1, <2>2 DEF Active
  <1>3. CASE Insert
    <2>1. checked = 1 /\ checked' = 0
      <3>1. ~(checked > 1)
        BY <1>3, Zenon DEF Insert
      <3>2. checked \in Nat /\ checked > 0 /\ checked' = checked - 1
        BY <1>3, BoundAssumption DEF Insert, RunnersInv, TypeInv, TypeOK, Typing, RunState
      <3> QED
        BY <3>1, <3>2
    <2>2. Active = {}
      BY <1>1, <2>1
    <2>3. \E k \in Job : \A j \in Job : j # k => jobs'[j] = jobs[j]
      <3>1. 1 \in Job /\ jobs \in [Job -> JobRow]
        BY BoundAssumption DEF RunnersInv, TypeInv, TypeOK, Typing, RunState, Job
      <3>2. CASE Exists
        BY <1>3, <3>1, <3>2 DEF Insert
      <3>3. CASE ~Exists
        BY <1>3, <3>1, <3>3 DEF Insert
      <3> QED
        BY <3>2, <3>3
    <2> QED
      BY <2>1, <2>2, <2>3 DEF Active
  <1>4. CASE ~Create /\ ~Insert
    <2>1. Active' \subseteq Active
      BY <1>4, ActiveShrinks
    <2>2. CASE CheckActive
      BY <2>1, <2>2 DEF CheckActive
    <2>3. CASE ~CheckActive
      <3>1. checked' = checked
        BY <1>4, <2>3
        DEF Next, Upload, UploadCli, Delete, ReclaimDead, ReclaimLive, StartCli, Claim,
            ReadBook, OpenExtraction, Marks, ReplaceChunks, OpenTranslation, Persist, Finish, Complete, Fail,
            Crash, vars
      <3> QED
        BY <1>1, <2>1, <3>1
    <2> QED
      BY <2>2, <2>3
  <1> QED
    BY <1>2, <1>3, <1>4

\* A book has at most one active job unless two requests were between check and
\* insert at once or a job was stolen from a live worker.
THEOREM Admission == Spec => []OneActiveJob
  <1>1. Init => AdmissionInv
    BY InitRunnersInv DEF Init, AdmissionInv, CheckedFree, OneActiveJob, Active, NoRow
  <1>2. AdmissionInv => OneActiveJob
    BY DEF AdmissionInv
  <1> QED
    BY <1>1, <1>2, NextAdmissionInv, PTL DEF Spec

-----------------------------------------------------------------------------
(* Translations and extractions *)

\* Until a run has crossed another: while the book is on its way to being extracted,
\* nobody translates it and nothing in it is translated.
Untranslated ==
    crossed \/ status \notin {"absent", "uploaded", "extracting", "extracted"} \/
        (chunks # "translated" /\ \A r \in Run : ~At(r, "translating"))

\* An extraction is the only one, and the book says so or is gone.
Alone ==
    crossed \/ \A r \in Run : At(r, "extracting") =>
        status \in {"extracting", "deleted"} /\ \A q \in Run : At(q, "extracting") => q = r

\* A run that is about to mark the book was not refused.
MarkersAccepted ==
    \A r \in Run : At(r, "marking") => run[r].read \in Accepted(run[r].kind)

LadderInv == TypeInv /\ MarkersAccepted /\ Untranslated /\ Alone

LEMMA CrossedStays == [Next]_vars /\ crossed => crossed'
  <1> SUFFICES ASSUME [Next]_vars, crossed PROVE crossed'
    OBVIOUS
  <1>1. ASSUME NEW r \in Run, OpenExtraction(r) PROVE crossed'
    BY <1>1, Zenon DEF OpenExtraction
  <1>2. ASSUME NEW r \in Run, OpenTranslation(r) PROVE crossed'
    BY <1>2, Zenon DEF OpenTranslation
  <1>3. CASE UNCHANGED crossed
    BY <1>3
  <1> QED
    BY <1>1, <1>2, <1>3
    DEF Next, Upload, UploadCli, Create, CheckActive, Insert, Delete, ReclaimDead, ReclaimLive,
        StartCli, Claim, ReadBook, ReplaceChunks, Persist, Finish, Complete, Fail,
        Crash, vars, history

\* Only reading the book leads to marking it.
LEMMA NextMarkersAccepted == TypeInv /\ MarkersAccepted /\ [Next]_vars => MarkersAccepted'
  <1> SUFFICES ASSUME TypeInv, MarkersAccepted, [Next]_vars PROVE MarkersAccepted'
    OBVIOUS
  <1> USE DEF MarkersAccepted, TypeInv, TypeOK, Typing, RunState, At
  <1>1. ASSUME NEW r \in Run, ReadBook(r) PROVE MarkersAccepted'
    BY <1>1 DEF ReadBook, Goes
  <1>2. ASSUME \A r \in Run : run'[r].at = "marking" => run'[r] = run[r]
        PROVE  MarkersAccepted'
    BY <1>2
  <1>3. ASSUME NEW r \in Run, UploadCli(r) \/ StartCli(r) \/ Claim(r) PROVE MarkersAccepted'
    <2>1. CASE Claim(r)
      BY <1>2, <2>1 DEF Claim
    <2>2. CASE UploadCli(r) \/ StartCli(r)
      BY <1>2, <2>2, CliRunOpens DEF UploadCli, StartCli
    <2> QED
      BY <1>3, <2>1, <2>2
  <1>4. ASSUME NEW r \in Run, Ends(r) PROVE MarkersAccepted'
    BY <1>2, <1>4 DEF Ends, NoRun
  <1>5. ASSUME NEW r \in Run, NEW place \in Place \ {"marking"}, Moves(r, place)
        PROVE  MarkersAccepted'
    BY <1>2, <1>5 DEF Moves, Goes
  <1>6. CASE UNCHANGED run
    BY <1>6
  <1>7. ASSUME NEW r \in Run,
               OpenExtraction(r) \/ OpenTranslation(r) \/ ReplaceChunks(r) \/ Finish(r)
        PROVE  MarkersAccepted'
    BY <1>5, <1>7 DEF OpenExtraction, OpenTranslation, Marks, ReplaceChunks, Finish, Place
  <1> QED
    BY <1>1, <1>3, <1>4, <1>6, <1>7
    DEF Next, Upload, Create, CheckActive, Insert, Delete, ReclaimDead, ReclaimLive,
        Persist, Complete, Fail, Crash, vars

\* A run that has crossed nobody marks the book as if it had read it just then.
LEMMA MarksAtOnce ==
    ASSUME TypeInv, MarkersAccepted, NEW r \in Run, NEW mark, Marks(r, mark),
           status = run[r].read
    PROVE  status \in Accepted(run[r].kind) /\ Exists /\ status' = mark
  <1>1. status \in Accepted(run[r].kind)
    BY DEF Marks, MarkersAccepted
  <1>2. status \in BookStatus
    BY <1>1 DEF Accepted, Extractable, BookStatus
  <1> QED
    BY <1>1, <1>2, Zenon DEF Marks, Exists

\* A step that leaves the book alone and lets no slot begin to extract or translate.
LEMMA RunsOnlyEnd ==
    ASSUME Untranslated, Alone, UNCHANGED <<status, chunks, crossed>>,
           \A r \in Run : run'[r].at \in {"extracting", "translating"} => run'[r].at = run[r].at
    PROVE  Untranslated' /\ Alone'
  BY DEF Untranslated, Alone, At

LEMMA NextLadderInv == LadderInv /\ [Next]_vars => LadderInv'
  <1> SUFFICES ASSUME LadderInv, [Next]_vars, ~crossed'
               PROVE  Untranslated' /\ Alone'
    BY NextTypeInv, NextMarkersAccepted DEF LadderInv, Untranslated, Alone
  <1> USE DEF LadderInv, TypeInv, TypeOK, Typing, RunState, history, book
  <1>0. ~crossed
    BY CrossedStays
  <1>1. ASSUME NEW r \in Run, OpenExtraction(r) PROVE Untranslated' /\ Alone'
    <2>1. /\ status = run[r].read /\ status # "failed" /\ \A q \in Run : ~At(q, "extracting")
          /\ Marks(r, "extracting") /\ run[r].kind = "extraction"
      BY <1>1, Zenon DEF OpenExtraction
    <2>2. status \in Extractable /\ status' = "extracting"
      BY <2>1, MarksAtOnce DEF Accepted
    <2>3. UNCHANGED chunks /\ run'[r].at = "extracting" /\ \A q \in Run : q # r => run'[q] = run[q]
      BY <2>1, RunMoves DEF Marks, Place
    <2>4. chunks # "translated" /\ \A q \in Run : ~At(q, "translating")
      BY <1>0, <2>1, <2>2 DEF Untranslated, Extractable
    <2> QED
      BY <2>1, <2>2, <2>3, <2>4 DEF Untranslated, Alone, At
  <1>2. ASSUME NEW r \in Run, ReplaceChunks(r) PROVE Untranslated' /\ Alone'
    <2>1. At(r, "extracting") /\ status = "extracting" /\ ~crossed
      BY <1>0, <1>2 DEF ReplaceChunks, Alone, Exists, BookStatus
    <2>2. \A q \in Run : ~At(q, "translating") /\ (q # r => ~At(q, "extracting"))
      BY <1>0, <2>1 DEF Untranslated, Alone
    <2>3. chunks' # "translated"
      BY <1>2 DEF ReplaceChunks
    <2>4. \A q \in Run : run'[q].at \notin {"extracting", "translating"}
      <3>1. /\ run'[r].at \in {"returning", "raising"}
            /\ \A q \in Run : q # r => run'[q] = run[q]
        BY <1>2, RunMoves DEF ReplaceChunks, Place
      <3> QED
        BY <2>2, <3>1 DEF At
    <2> QED
      BY <2>3, <2>4 DEF Untranslated, Alone, At
  <1>3. ASSUME NEW r \in Run, OpenTranslation(r) PROVE Untranslated' /\ Alone'
    <2>1. status = run[r].read /\ Marks(r, "translating") /\ run[r].kind = "translation"
      BY <1>3, Zenon DEF OpenTranslation
    <2>2. status \in BookStatus \ {"uploaded", "extracting"} /\ status' = "translating"
      BY <2>1, MarksAtOnce DEF Accepted
    <2>3. run'[r].at = "translating" /\ \A q \in Run : q # r => run'[q] = run[q]
      BY <2>1, RunMoves DEF Marks, Place
    <2>4. \A q \in Run : ~At(q, "extracting")
      BY <1>0, <2>2 DEF Alone, BookStatus
    <2> QED
      BY <2>2, <2>3, <2>4 DEF Untranslated, Alone, At
  <1>4. ASSUME NEW r \in Run, Persist(r) \/ Finish(r) PROVE Untranslated' /\ Alone'
    <2>1. At(r, "translating") /\ r \in Run
      BY <1>4 DEF Persist, Finish
    <2>2. status \notin {"absent", "uploaded", "extracting", "extracted"}
      BY <1>0, <2>1 DEF Untranslated
    <2>3. CASE Persist(r)
      BY <1>0, <2>2, <2>3 DEF Persist, Untranslated, Alone, At
    <2>4. CASE Finish(r)
      <3>1. \A q \in Run : ~At(q, "extracting")
        BY <1>0, <2>2, <2>4 DEF Finish, Alone, Exists, BookStatus
      <3>2. /\ status' \in {"review", "failed"} /\ run'[r].at = "returning"
            /\ \A q \in Run : q # r => run'[q] = run[q]
        BY <2>4, RunMoves DEF Finish, Verdicts, Place
      <3> QED
        BY <3>1, <3>2 DEF Untranslated, Alone, At
    <2> QED
      BY <1>4, <2>3, <2>4
  <1>5. CASE Delete
    BY <1>0, <1>5 DEF Delete, Untranslated, Alone, At
  <1>6. ASSUME Create, run' = run \/ \E r \in Run : UploadCli(r)
        PROVE  Untranslated' /\ Alone'
    <2>1. \A q \in Run : run'[q].at \in {"extracting", "translating"} => run'[q].at = run[q].at
      BY <1>6 DEF UploadCli, CliRun, NoRun
    <2>2. status = "absent" /\ status' = "uploaded" /\ UNCHANGED <<chunks, crossed>>
      BY <1>6 DEF Create
    <2> QED
      BY <1>0, <2>1, <2>2 DEF Untranslated, Alone, At
  <1>7. ASSUME NEW r \in Run, StartCli(r) \/ Claim(r) \/ Complete(r) \/ Fail(r) \/ Crash(r)
        PROVE  Untranslated' /\ Alone'
    <2>1. \A q \in Run : run'[q].at \in {"extracting", "translating"} => run'[q].at = run[q].at
      <3>1. CASE Claim(r)
        BY <3>1 DEF Claim
      <3>2. CASE StartCli(r)
        BY <3>2 DEF StartCli, CliRun, NoRun
      <3>3. CASE Ends(r)
        BY <3>3 DEF Ends, NoRun
      <3> QED
        BY <1>7, <3>1, <3>2, <3>3 DEF Complete, Fail, Crash
    <2> QED
      BY <1>7, <2>1, RunsOnlyEnd DEF StartCli, Claim, Complete, Fail, Crash
  <1>8. CASE UNCHANGED <<status, chunks, run, crossed>>
    BY <1>8, RunsOnlyEnd
  <1>9. ASSUME NEW r \in Run, ReadBook(r) PROVE Untranslated' /\ Alone'
    <2>1. status \in BookStatus
      BY <1>9 DEF ReadBook, Accepted, Extractable, BookStatus
    <2>2. run'[r].at = "marking" /\ \A q \in Run : q # r => run'[q] = run[q]
      BY <1>9, <2>1, RunGoes DEF ReadBook, Place
    <2>3. \A q \in Run : run'[q].at \in {"extracting", "translating"} => run'[q].at = run[q].at
      BY <2>2
    <2> QED
      BY <1>9, <2>3, RunsOnlyEnd DEF ReadBook
  <1> QED
    BY <1>1, <1>2, <1>3, <1>4, <1>5, <1>6, <1>7, <1>8, <1>9
    DEF Next, Upload, UploadCli, CheckActive, Insert, ReclaimDead, ReclaimLive, vars

\* No extraction replaces translated rows unless extractions overlapped, one began on a
\* failed book, or a run marked a book that had changed since the run read it.
THEOREM TranslationsStay == Spec => TranslationsOutliveExtraction
  <1>1. Init => LadderInv
    BY InitTypeInv DEF Init, LadderInv, MarkersAccepted, Untranslated, Alone, NoRun, At
  <1>2. LadderInv => [\A r \in Run : ReplaceChunks(r) => crossed \/ chunks # "translated"]_vars
    BY DEF LadderInv, Untranslated, Alone, ReplaceChunks, Exists, BookStatus
  <1> QED
    BY <1>1, <1>2, NextLadderInv, PTL DEF Spec, TranslationsOutliveExtraction

-----------------------------------------------------------------------------
(* Extractions are attended *)

\* A book has its extraction job from the upload on, and whoever extracts does so
\* for that job or at the command line.
BookHasJob ==
    Exists => jobs[1].status \in {"queued", "running", "succeeded", "failed"}
ExtractorsJob ==
    \A r \in Run : run[r].kind = "extraction" \/ At(r, "extracting") =>
        run[r].kind = "extraction" /\ run[r].job \in {1, Cli}

\* The strengthening: when nobody is extracting, the job that will do it again is not
\* one whose handler has returned and which is about to succeed.
JobComesRound ==
    /\ jobs[1].status \in {"queued", "running", "failed"}
    /\ \A r \in Run : Working(r) /\ run[r].job = 1 => ~At(r, "returning")
Attended ==
    status = "extracting" =>
        broken \/ stolen \/ (\E r \in Run : At(r, "extracting")) \/ JobComesRound

AttendedInv == RunnersInv /\ BookHasJob /\ ExtractorsJob /\ Attended

LEMMA NextBookHasJob == TypeInv /\ BookHasJob /\ [Next]_vars => BookHasJob'
  <1> SUFFICES ASSUME TypeInv, BookHasJob, [Next]_vars PROVE BookHasJob'
    OBVIOUS
  <1> USE DEF BookHasJob
  <1>0. 1 \in Job /\ jobs \in [Job -> JobRow] /\ run \in [Run -> RunState]
    BY BoundAssumption DEF TypeInv, TypeOK, Typing, RunState, Job
  <1>1. CASE Create
    BY <1>0, <1>1 DEF Create, Queued
  <1>2. CASE Delete
    BY <1>2 DEF Delete, Exists, BookStatus
  <1>3. ASSUME ~Create, ~Delete PROVE Exists' => Exists
    BY <1>3
    DEF Next, Upload, UploadCli, CheckActive, Insert, ReclaimDead, ReclaimLive, StartCli, Claim,
        ReadBook, OpenExtraction, Marks, Extractable, ReplaceChunks, OpenTranslation, Persist, Finish, Complete,
        Fail, Crash, vars, book, Exists, BookStatus
  <1>4. ASSUME NEW r \in Run, NEW s \in {"queued", "succeeded", "failed"}, Record(r, s), Exists
        PROVE  jobs'[1].status \in {"queued", "running", "succeeded", "failed"}
    BY <1>0, <1>4, Recorded
  <1>5. ASSUME NEW r \in Run, Exists, Complete(r) \/ Fail(r)
        PROVE  jobs'[1].status \in {"queued", "running", "succeeded", "failed"}
    BY <1>4, <1>5 DEF Complete, Fail
  <1>6. ASSUME Exists,
               \/ Insert
               \/ \E r \in Run : Claim(r)
               \/ \E j \in Job : ReclaimDead(j) \/ ReclaimLive(j)
        PROVE  jobs'[1].status \in {"queued", "running", "succeeded", "failed"}
    <2>1. CASE Insert
      BY <1>0, <1>6, <2>1 DEF Insert, Unused
    <2>2. ASSUME NEW r \in Run, Claim(r)
          PROVE  jobs'[1].status \in {"queued", "running", "succeeded", "failed"}
      <3>1. PICK j \in Job :
                jobs' = [jobs EXCEPT ![j].status = "running", ![j].attempts = @ + 1]
        BY <2>2 DEF Claim
      <3> QED
        BY <1>0, <1>6, <3>1 DEF JobRow
    <2>3. ASSUME NEW j \in Job, ReclaimDead(j) \/ ReclaimLive(j)
          PROVE  jobs'[1].status \in {"queued", "running", "succeeded", "failed"}
      BY <1>0, <1>6, <2>3 DEF ReclaimDead, ReclaimLive, JobRow
    <2> QED
      BY <1>6, <2>1, <2>2, <2>3
  <1>7. ASSUME Exists, UNCHANGED jobs
        PROVE  jobs'[1].status \in {"queued", "running", "succeeded", "failed"}
    BY <1>7
  <1> QED
    BY <1>1, <1>2, <1>3, <1>5, <1>6, <1>7
    DEF Next, Upload, UploadCli, CheckActive, StartCli, ReadBook, OpenExtraction, Marks, ReplaceChunks,
        OpenTranslation, Persist, Finish, Crash, vars

LEMMA NextExtractorsJob == TypeInv /\ ExtractorsJob /\ [Next]_vars => ExtractorsJob'
  <1> SUFFICES ASSUME TypeInv, ExtractorsJob, [Next]_vars PROVE ExtractorsJob'
    OBVIOUS
  <1> USE DEF ExtractorsJob, TypeInv, TypeOK, Typing, RunState, At
  <1>1. ASSUME NEW r \in Run, Claim(r) PROVE ExtractorsJob'
    BY <1>1 DEF Claim, KindOf
  <1>2. ASSUME NEW r \in Run, UploadCli(r) \/ StartCli(r) PROVE ExtractorsJob'
    <2>1. run'[r].job = Cli /\ run'[r].at = "opening"
      BY <1>2, CliRunOpens DEF UploadCli, StartCli
    <2>3. \A q \in Run : q # r => run'[q] = run[q]
      BY <1>2 DEF UploadCli, StartCli
    <2> QED
      BY <2>1, <2>3
  <1>3. ASSUME NEW r \in Run, Ends(r) PROVE ExtractorsJob'
    BY <1>3 DEF Ends, NoRun
  <1>4. ASSUME NEW r \in Run, OpenExtraction(r) PROVE ExtractorsJob'
    BY <1>4 DEF OpenExtraction, Marks, Moves, Goes
  <1>5. ASSUME NEW r \in Run, NEW place \in {"marking", "translating", "returning", "raising"},
               NEW read, Goes(r, place, read)
        PROVE  ExtractorsJob'
    BY <1>5 DEF Goes
  <1>6. CASE UNCHANGED run
    BY <1>6
  <1> QED
    BY <1>1, <1>2, <1>3, <1>4, <1>5, <1>6
    DEF Next, Upload, Create, CheckActive, Insert, Delete, ReclaimDead, ReclaimLive,
        ReadBook, ReplaceChunks, OpenTranslation, Marks, Moves, Persist, Finish, Complete, Fail,
        Crash, vars

LEMMA BrokenStays == [Next]_vars => (broken => broken') /\ (stolen => stolen')
  <1> SUFFICES ASSUME [Next]_vars, broken PROVE broken'
    BY HistoryGrows
  <1>1. ASSUME NEW r \in Run, Fail(r) PROVE broken'
    BY <1>1, Zenon DEF Fail
  <1>2. ASSUME NEW r \in Run, Crash(r) PROVE broken'
    BY <1>2, Zenon DEF Crash
  <1>3. CASE UNCHANGED broken
    BY <1>3
  <1> QED
    BY <1>1, <1>2, <1>3
    DEF Next, Upload, UploadCli, Create, CheckActive, Insert, Delete, ReclaimDead, ReclaimLive,
        StartCli, Claim, ReadBook, OpenExtraction, Marks, ReplaceChunks, OpenTranslation, Persist, Finish,
        Complete, vars, history

\* A run at an extraction that raises or dies leaves its job to come round, or it
\* was one of the command line.
LEMMA LeavesJob ==
    ASSUME AttendedInv, Exists, ~stolen', ~broken',
           NEW r \in Run, At(r, "extracting"), Fail(r) \/ Crash(r)
    PROVE  JobComesRound'
  <1> USE DEF AttendedInv, RunnersInv, TypeInv, TypeOK, Typing, RunState
  <1>1. run[r].job # Cli /\ ~stolen
    <2>1. run[r].job # Cli
      BY Zenon DEF Fail, Crash
    <2>2. ~stolen
      BY DEF Fail, Crash
    <2> QED
      BY <2>1, <2>2
  <1>2. run[r].job = 1 /\ Working(r) /\ 1 \in Job
    BY <1>1, BoundAssumption DEF ExtractorsJob, Working, At, Job
  <1>3. \A q \in Run : Working(q)' => q # r /\ Working(q) /\ run'[q] = run[q]
    <2>1. run' = [run EXCEPT ![r] = NoRun]
      BY DEF Fail, Crash, Ends
    <2> QED
      BY <2>1 DEF NoRun, Working, At
  <1>4. \A q \in Run : Working(q)' => run'[q].job # 1
    BY <1>1, <1>2, <1>3 DEF OneRunner
  <1>5. jobs[1].status = "running"
    BY <1>1, <1>2 DEF RunnerIsRunning, BookHasJob
  <1>6. jobs'[1].status \in {"queued", "running", "failed"}
    <2>1. CASE Crash(r)
      BY <1>5, <2>1 DEF Crash
    <2>2. CASE Fail(r)
      <3>1. PICK s \in {"queued", "failed"} : Record(r, s)
        BY <2>2 DEF Fail
      <3> QED
        BY <1>2, <1>5, <3>1, Recorded
    <2> QED
      BY <2>1, <2>2
  <1> QED
    BY <1>4, <1>6 DEF JobComesRound

\* Nobody comes to be returning from job 1 while its row stays open or given up.
LEMMA StaysRound ==
    ASSUME JobComesRound,
           jobs'[1].status \in {"queued", "running", "failed"},
           \A q \in Run : run'[q].at = "returning" => run'[q] = run[q]
    PROVE  JobComesRound'
  BY DEF JobComesRound, Working, At

\* A step of the others, while the job that will extract again is waiting or at work.
LEMMA RoundStep ==
    ASSUME AttendedInv, JobComesRound, [Next]_vars, status = "extracting",
           status' = "extracting", ~stolen',
           \A r \in Run : ~OpenExtraction(r)
    PROVE  JobComesRound'
  <1> USE DEF AttendedInv, RunnersInv, TypeInv, TypeOK, Typing, RunState
  <1>0. 1 \in Job /\ jobs[1].status \in {"queued", "running", "failed"}
    BY BoundAssumption DEF JobComesRound, Job
  <1>1. CASE Insert
    BY <1>0, <1>1, StaysRound DEF Insert, Unused
  <1>2. ASSUME NEW j \in Job, ReclaimDead(j) \/ ReclaimLive(j) PROVE JobComesRound'
    BY <1>0, <1>2, StaysRound DEF ReclaimDead, ReclaimLive, JobRow
  <1>3. ASSUME NEW r \in Run, StartCli(r) PROVE JobComesRound'
    BY <1>0, <1>3, StaysRound DEF StartCli, CliRun, NoRun
  <1>4. ASSUME NEW r \in Run, Claim(r) PROVE JobComesRound'
    BY <1>0, <1>4, StaysRound DEF Claim, JobRow
  <1>5. ASSUME NEW r \in Run, Fail(r) PROVE JobComesRound'
    <2>1. PICK s \in {"queued", "failed"} : Record(r, s)
      BY <1>5 DEF Fail
    <2>2. jobs'[1].status \in {"queued", "running", "failed"}
      BY <1>0, <2>1, Recorded
    <2> QED
      BY <1>5, <2>2, StaysRound DEF Fail, Ends, NoRun
  <1>6. ASSUME NEW r \in Run, Complete(r) PROVE JobComesRound'
    <2>1. run[r].job # 1
      BY <1>6 DEF Complete, JobComesRound, Working, At, Cli
    <2>2. jobs'[1] = jobs[1]
      BY <1>0, <1>6, <2>1, Recorded DEF Complete
    <2> QED
      BY <1>0, <1>6, <2>2, StaysRound DEF Complete, Ends, NoRun
  <1>7. ASSUME NEW r \in Run, Crash(r) PROVE JobComesRound'
    BY <1>0, <1>7, StaysRound DEF Crash, Ends, NoRun
  <1>8. ASSUME NEW r \in Run, OpenTranslation(r) PROVE JobComesRound'
    <2>1. UNCHANGED jobs /\ Moves(r, "translating")
      BY <1>8 DEF OpenTranslation, Marks
    <2>2. \A q \in Run : run'[q].at = "returning" => run'[q] = run[q]
      BY <2>1 DEF Moves, Goes
    <2> QED
      BY <1>0, <2>1, <2>2, StaysRound
  <1>9. ASSUME Create \/ Delete \/ \E r \in Run : ReplaceChunks(r) \/ Finish(r) PROVE FALSE
    BY <1>9 DEF Create, Delete, ReplaceChunks, Finish, Verdicts
  <1>10. CASE UNCHANGED <<jobs, run>>
    BY <1>0, <1>10, StaysRound
  <1>11. ASSUME NEW r \in Run, ReadBook(r) PROVE JobComesRound'
    <2>1. UNCHANGED jobs /\ \A q \in Run : run'[q].at = "returning" => run'[q] = run[q]
      BY <1>11 DEF ReadBook, Goes
    <2> QED
      BY <1>0, <2>1, StaysRound
  <1> QED
    BY <1>1, <1>2, <1>3, <1>4, <1>5, <1>6, <1>7, <1>8, <1>9, <1>10, <1>11
    DEF Next, Upload, UploadCli, CheckActive, Persist, vars

LEMMA NextAttended == AttendedInv /\ [Next]_vars => Attended'
  <1> SUFFICES ASSUME AttendedInv, [Next]_vars, status' = "extracting", ~broken', ~stolen'
               PROVE  (\E r \in Run : At(r, "extracting")') \/ JobComesRound'
    BY DEF Attended
  <1> USE DEF AttendedInv, RunnersInv, TypeInv, TypeOK, Typing, RunState
  <1>0. ~broken /\ ~stolen
    BY BrokenStays
  <1>1. ASSUME NEW r \in Run, OpenExtraction(r) PROVE \E q \in Run : At(q, "extracting")'
    BY <1>1 DEF OpenExtraction, Marks, Moves, Goes, At
  <1>2. CASE \A r \in Run : ~OpenExtraction(r)
    <2>1. status = "extracting" /\ Exists
      <3>1. status' = status
        BY <1>2
        DEF Next, Upload, UploadCli, Create, CheckActive, Insert, Delete, ReclaimDead,
            ReclaimLive, StartCli, Claim, ReadBook, ReplaceChunks, OpenTranslation, Marks, Persist,
            Finish, Verdicts, Complete, Fail, Crash, vars, book
      <3> QED
        BY <3>1 DEF Exists, BookStatus
    <2>2. CASE JobComesRound
      BY <1>2, <2>1, <2>2, RoundStep
    <2>3. ASSUME NEW r \in Run, At(r, "extracting"), run'[r] # run[r] PROVE JobComesRound'
      <3>1. Fail(r) \/ Crash(r)
        <4>1. CASE \E q \in Run : q # r /\ (Fail(q) \/ Crash(q) \/ Complete(q))
          BY <2>3, <4>1 DEF Fail, Crash, Complete, Ends
        <4>2. CASE \E q \in Run : StartCli(q) \/ Claim(q) \/ UploadCli(q)
          BY <2>3, <4>2 DEF StartCli, Claim, UploadCli, At
        <4>3. CASE \E q \in Run : OpenTranslation(q) \/ ReadBook(q)
          BY <2>1, <2>3, <4>3 DEF OpenTranslation, Marks, ReadBook, Moves, Goes, At
        <4>4. CASE \E q \in Run : ReplaceChunks(q) \/ Finish(q)
          BY <4>4 DEF ReplaceChunks, Finish, Verdicts
        <4> QED
          BY <1>2, <2>3, <4>1, <4>2, <4>3, <4>4
          DEF Next, Upload, CheckActive, Insert, Delete, ReclaimDead, ReclaimLive, Persist,
              Complete, vars, At
      <3> QED
        BY <2>1, <2>3, <3>1, LeavesJob
    <2> QED
      BY <1>0, <2>1, <2>2, <2>3 DEF Attended, At
  <1> QED
    BY <1>1, <1>2

\* A book being extracted has a run at it or its extraction job will come round or has
\* been given up, unless the command line broke off or a live worker lost its job.
THEOREM AttendedAlways == Spec => []ExtractionAttended
  <1>1. Init => AttendedInv
    BY InitRunnersInv
    DEF Init, AttendedInv, BookHasJob, ExtractorsJob, Attended, Exists, BookStatus, NoRun, At
  <1>2. AttendedInv /\ [Next]_vars => AttendedInv'
    BY NextRunnersInv, NextBookHasJob, NextExtractorsJob, NextAttended
    DEF AttendedInv, RunnersInv
  <1>3. AttendedInv => ExtractionAttended
    BY DEF AttendedInv, Attended, JobComesRound, ExtractionAttended
  <1> QED
    BY <1>1, <1>2, <1>3, PTL DEF Spec

-----------------------------------------------------------------------------
(* The jobs of a book keep JobContract *)

\* The slots that work for job j.
Slots(j) == {r \in Run : Runs(r, j)}

Life(j) == IF jobs[j].status = "gone" THEN "deleted" ELSE jobs[j].status

Lives == [j \in Job |-> Life(j)]
Handouts == [j \in Job |-> jobs[j].attempts]
Hands == [j \in Job |-> Slots(j)]

\* Beyond the first stolen job the contract says nothing: here none is.
Queue == INSTANCE JobContract
         WITH Worker <- Run, life <- Lives, handouts <- Handouts, hands <- Hands, stolen <- {}

\* A run knows how often its job has been handed out.
AttemptIsCount ==
    stolen \/ \A r \in Run : Working(r) /\ jobs[run[r].job].status = "running"
                  => run[r].attempt = jobs[run[r].job].attempts

NoRowNoAttempts ==
    \A j \in Job : jobs[j].status \in {"absent", "gone"} => jobs[j].attempts = 0

QueueInv == RunnersInv /\ AttemptIsCount /\ NoRowNoAttempts

LEMMA Mapped ==
    ASSUME NEW j \in Job
    PROVE  /\ Lives[j] = Life(j) /\ Lives'[j] = Life(j)'
           /\ Handouts[j] = jobs[j].attempts /\ Handouts'[j] = jobs'[j].attempts
           /\ Hands[j] = Slots(j) /\ Hands'[j] = Slots(j)'
  BY DEF Lives, Handouts, Hands

LEMMA Rests ==
    ASSUME TypeInv, NEW j \in Job, jobs'[j] = jobs[j], Slots(j)' = Slots(j)
    PROVE  Queue!Promised(j)
  <1>1. jobs[j].attempts \in Nat
    BY DEF TypeInv, TypeOK, Typing, RunState, JobRow
  <1>2. Life(j)' = Life(j)
    BY DEF Life
  <1> QED
    BY <1>1, <1>2, Mapped
    DEF Queue!Promised, Queue!Rest, Queue!Becomes, Queue!Counts, Queue!Passes

\* A run that goes on keeps its job, one that ends leaves it to nobody.
LEMMA SlotsMove ==
    ASSUME TypeInv, NEW r \in Run, ~At(r, "idle"), NEW place \in Place \ {"idle"},
           NEW read \in BookStatus \union {"unread"}, Goes(r, place, read)
    PROVE  \A j \in Job : Slots(j)' = Slots(j)
  <1>1. \A q \in Run : run'[q].job = run[q].job /\ (At(q, "idle")' <=> At(q, "idle"))
    BY RunGoes DEF At, TypeInv, TypeOK
  <1> QED
    BY <1>1 DEF Slots, Runs, At

LEMMA SlotsEnd ==
    ASSUME RunnersInv, ~stolen, NEW r \in Run, ~At(r, "idle"), Ends(r)
    PROVE  /\ \A j \in Job : j # run[r].job => Slots(j)' = Slots(j)
           /\ run[r].job \in Job => Slots(run[r].job) = {r}
           /\ \A j \in Job : j = run[r].job => Slots(j)' = {}
  <1> USE DEF RunnersInv
  <1>1. run'[r] = NoRun /\ \A q \in Run : q # r => run'[q] = run[q]
    BY DEF Ends, TypeInv, TypeOK, Typing, RunState
  <1>2. \A q \in Run, j \in Job : Runs(q, j)' <=> (q # r /\ Runs(q, j))
    BY <1>1 DEF Runs, At, NoRun
  <1>3. \A q \in Run, j \in Job : Runs(q, j) => Working(q) /\ run[q].job = j
    BY DEF Runs, Working, Job, Cli
  <1>4. \A q \in Run, j \in Job : Runs(q, j) /\ run[r].job = j => q = r
    BY <1>3 DEF OneRunner, Runs
  <1>5. ASSUME NEW j \in Job, j # run[r].job PROVE Slots(j)' = Slots(j)
    BY <1>2, <1>5 DEF Slots, Runs
  <1>6. run[r].job \in Job => Slots(run[r].job) = {r}
    BY <1>4 DEF Slots, Runs
  <1>7. ASSUME NEW j \in Job, j = run[r].job PROVE Slots(j)' = {}
    BY <1>2, <1>4, <1>7 DEF Slots
  <1> QED
    BY <1>5, <1>6, <1>7

\* The outcome of a run is the report of its job's only worker, unless the job is gone.
LEMMA OutcomePromised ==
    ASSUME QueueInv, ~stolen, NEW r \in Run, ~At(r, "idle"), Ends(r),
           NEW s \in {"queued", "succeeded", "failed"}, Record(r, s),
           s = "queued" => run[r].attempt < MaxAttempts,
           s = "failed" => run[r].attempt >= MaxAttempts
    PROVE  \A j \in Job : Queue!Promised(j)
  <1> SUFFICES ASSUME NEW j \in Job
               PROVE  Queue!Promised(j)
    OBVIOUS
  <1> USE DEF QueueInv, RunnersInv
  <1>1. CASE j # run[r].job
    BY <1>1, Recorded, SlotsEnd, Rests
  <1>2. CASE j = run[r].job
    <2>1. Slots(j) = {r} /\ Slots(j)' = {} /\ Working(r)
      BY <1>2, SlotsEnd DEF Working, Job, Cli
    <2>2. jobs[j] \in JobRow /\ jobs' \in [Job -> JobRow]
      BY Recorded DEF TypeInv, TypeOK, Typing, RunState
    <2>3. CASE jobs[j].status = "gone"
      <3>1. jobs' = jobs
        BY <1>2, <2>3 DEF Record
      <3>2. Life(j) = "deleted" /\ Life(j)' = "deleted"
        BY <2>3, <3>1 DEF Life
      <3>3. jobs'[j].attempts = jobs[j].attempts + 0
        BY <2>2, <3>1 DEF JobRow
      <3>4. Queue!Abandon(j)
        BY <2>1, <3>2, <3>3, Mapped
        DEF Queue!Abandon, Queue!Becomes, Queue!Counts, Queue!Passes
      <3> QED
        BY <3>4 DEF Queue!Promised
    <2>4. CASE jobs[j].status # "gone"
      <3>1. jobs[j].status = "running" /\ jobs[j].attempts = run[r].attempt
        BY <1>2, <2>1, <2>4 DEF RunnerIsRunning, AttemptIsCount
      <3>2. jobs' = [jobs EXCEPT ![j].status = s]
        BY <1>2, <2>4 DEF Record, Job, Cli
      <3>3. jobs'[j].status = s /\ jobs'[j].attempts = jobs[j].attempts
        BY <2>2, <3>2 DEF TypeInv, TypeOK, Typing, RunState, JobRow
      <3>4. Life(j) = "running" /\ Life(j)' = s
        BY <3>1, <3>3 DEF Life
      <3>5. jobs'[j].attempts = jobs[j].attempts + 0
        BY <2>2, <3>3 DEF JobRow
      <3>6. Queue!Report(j)
        BY <2>1, <3>1, <3>4, <3>5, Mapped
        DEF Queue!Report, Queue!Becomes, Queue!Counts, Queue!Passes
      <3> QED
        BY <3>6 DEF Queue!Promised
    <2> QED
      BY <2>3, <2>4
  <1> QED
    BY <1>1, <1>2

LEMMA CrashPromised ==
    ASSUME QueueInv, ~stolen, NEW r \in Run, Crash(r)
    PROVE  \A j \in Job : Queue!Promised(j)
  <1> SUFFICES ASSUME NEW j \in Job
               PROVE  Queue!Promised(j)
    OBVIOUS
  <1> USE DEF QueueInv, RunnersInv
  <1>1. ~At(r, "idle") /\ Ends(r) /\ jobs' = jobs
    BY DEF Crash
  <1>2. CASE j # run[r].job
    BY <1>1, <1>2, SlotsEnd, Rests
  <1>3. CASE j = run[r].job
    <2>1. Slots(j) = {r} /\ Slots(j)' = {} /\ Working(r)
      BY <1>1, <1>3, SlotsEnd DEF Working, Job, Cli
    <2>2. Life(j) \in {"running", "deleted"} /\ Life(j)' = Life(j)
      BY <1>1, <1>3, <2>1 DEF RunnerIsRunning, Life
    <2>3. jobs'[j].attempts = jobs[j].attempts + 0
      BY <1>1 DEF TypeInv, TypeOK, Typing, RunState, JobRow
    <2>4. Queue!Abandon(j)
      BY <2>1, <2>2, <2>3, Mapped
      DEF Queue!Abandon, Queue!Becomes, Queue!Counts, Queue!Passes
    <2> QED
      BY <2>4 DEF Queue!Promised
  <1> QED
    BY <1>2, <1>3

LEMMA ClaimPromised ==
    ASSUME QueueInv, ~stolen, NEW r \in Run, Claim(r)
    PROVE  \A i \in Job : Queue!Promised(i)
  <1> SUFFICES ASSUME NEW i \in Job
               PROVE  Queue!Promised(i)
    OBVIOUS
  <1> USE DEF QueueInv, RunnersInv
  <1>1. PICK j \in Job :
            /\ jobs[j].status = "queued"
            /\ jobs' = [jobs EXCEPT ![j].status = "running", ![j].attempts = @ + 1]
            /\ run' = [run EXCEPT ![r] = [job |-> j, kind |-> KindOf(j),
                                          attempt |-> jobs[j].attempts + 1, at |-> "opening",
                                            read |-> "unread"]]
    BY DEF Claim
  <1>2. /\ jobs'[j].status = "running" /\ jobs'[j].attempts = jobs[j].attempts + 1
        /\ \A k \in Job : k # j => jobs'[k] = jobs[k]
    BY <1>1 DEF TypeInv, TypeOK, Typing, RunState, JobRow
  <1>3. run'[r].job = j /\ run'[r].at = "opening" /\ \A q \in Run : q # r => run'[q] = run[q]
    BY <1>1 DEF TypeInv, TypeOK, Typing, RunState
  <1>4. \A q \in Run, k \in Job : Runs(q, k)' <=> (IF q = r THEN k = j ELSE Runs(q, k))
    BY <1>3 DEF Runs, At
  <1>5. \A k \in Job : ~Runs(r, k)
    BY DEF Claim, Runs
  <1>6. \A q \in Run : ~Runs(q, j)
    BY <1>1 DEF RunnerIsRunning, Working, Runs, Job, Cli
  <1>7. CASE i # j
    <2>1. Slots(i)' = Slots(i)
      BY <1>4, <1>5, <1>7 DEF Slots
    <2> QED
      BY <1>2, <1>7, <2>1, Rests
  <1>8. CASE i = j
    <2>1. Slots(j) = {} /\ Slots(j)' = {r}
      BY <1>4, <1>6 DEF Slots
    <2>2. Life(j) = "queued" /\ Life(j)' = "running"
      BY <1>1, <1>2 DEF Life
    <2>3. Queue!HandOut(j)
      BY <1>2, <2>1, <2>2, Mapped
      DEF Queue!HandOut, Queue!Becomes, Queue!Counts, Queue!Passes
    <2> QED
      BY <1>8, <2>3 DEF Queue!Promised
  <1> QED
    BY <1>7, <1>8

LEMMA InsertPromised ==
    ASSUME QueueInv, NEW i \in Job, jobs[i].status = "absent",
           jobs' = [jobs EXCEPT ![i] = Queued], NEW j \in Job, Slots(j)' = Slots(j)
    PROVE  Queue!Promised(j)
  <1> USE DEF QueueInv, RunnersInv
  <1>1. CASE j # i
    <2>1. jobs'[j] = jobs[j]
      BY <1>1 DEF TypeInv, TypeOK, Typing, RunState
    <2> QED
      BY <2>1, Rests
  <1>2. CASE j = i
    <2>1. jobs'[j] = Queued
      BY <1>2 DEF TypeInv, TypeOK, Typing, RunState
    <2>2. Life(j) = "absent" /\ Life(j)' = "queued"
      BY <1>2, <2>1 DEF Life, Queued
    <2>3. jobs[j].attempts = 0
      BY <1>2 DEF NoRowNoAttempts
    <2>4. jobs'[j].attempts = jobs[j].attempts + 0
      BY <2>1, <2>3 DEF Queued
    <2>5. Queue!Submit(j)
      BY <2>2, <2>4, Mapped
      DEF Queue!Submit, Queue!Becomes, Queue!Counts, Queue!Passes
    <2> QED
      BY <2>5 DEF Queue!Promised
  <1> QED
    BY <1>1, <1>2

LEMMA NextPromised ==
    ASSUME QueueInv, [Next]_vars, ~stolen, ~stolen'
    PROVE  \A j \in Job : Queue!Promised(j)
  <1> USE DEF QueueInv, RunnersInv
  <1>1. ASSUME Create, run' = run \/ \E r \in Run : UploadCli(r), NEW j \in Job
        PROVE  Queue!Promised(j)
    <2>1. 1 \in Job /\ jobs[1].status = "absent" /\ jobs' = [jobs EXCEPT ![1] = Queued]
      BY <1>1, BoundAssumption DEF Create, NothingBefore, Job
    <2>2. Slots(j)' = Slots(j)
      <3>1. \A q \in Run : Runs(q, j)' <=> Runs(q, j)
        <4>1. CASE run' = run
          BY <4>1 DEF Runs, At
        <4>2. ASSUME NEW r \in Run, UploadCli(r) PROVE \A q \in Run : Runs(q, j)' <=> Runs(q, j)
          BY <4>2 DEF UploadCli, CliRun, NoRun, Runs, At, Job, Cli, TypeInv, TypeOK, Typing, RunState
        <4> QED
          BY <1>1, <4>1, <4>2
      <3> QED
        BY <3>1 DEF Slots
    <2> QED
      BY <2>1, <2>2, InsertPromised
  <1>2. ASSUME Insert, NEW j \in Job PROVE Queue!Promised(j)
    <2>1. Slots(j)' = Slots(j)
      BY <1>2 DEF Insert, Slots, Runs, At
    <2>2. CASE jobs' = jobs
      BY <2>1, <2>2, Rests
    <2>3. ASSUME NEW i \in Job, Unused(i), jobs' = [jobs EXCEPT ![i] = Queued]
          PROVE  Queue!Promised(j)
      BY <2>1, <2>3, InsertPromised DEF Unused
    <2> QED
      BY <1>2, <2>2, <2>3 DEF Insert
  <1>3. ASSUME Delete, NEW j \in Job PROVE Queue!Promised(j)
    <2>1. Slots(j)' = Slots(j)
      BY <1>3 DEF Delete, Slots, Runs, At
    <2>2. jobs'[j] = IF jobs[j].status = "absent" THEN jobs[j] ELSE Gone
      BY <1>3 DEF Delete
    <2>3. CASE jobs'[j] = jobs[j]
      BY <2>1, <2>3, Rests
    <2>4. CASE jobs'[j] # jobs[j]
      <3>1. Life(j)' = "deleted" /\ jobs[j].status # "absent"
        BY <2>2, <2>4 DEF Life, Gone
      <3>2. CASE jobs[j].status = "gone"
        <4>1. jobs[j] = Gone
          BY <3>2 DEF NoRowNoAttempts, Gone, TypeInv, TypeOK, Typing, RunState, JobRow
        <4> QED
          BY <2>2, <2>4, <3>2, <4>1
      <3>3. CASE jobs[j].status # "gone"
        <4>1. Life(j) \notin {"absent", "deleted"}
          BY <3>1, <3>3 DEF Life, TypeInv, TypeOK, Typing, RunState, JobRow
        <4>2. Queue!Withdraw(j)
          BY <2>1, <3>1, <4>1, Mapped DEF Queue!Withdraw, Queue!Becomes, Queue!Passes
        <4> QED
          BY <4>2 DEF Queue!Promised
      <3> QED
        BY <3>2, <3>3
    <2> QED
      BY <2>3, <2>4
  <1>4. ASSUME NEW r \in Run, Claim(r) PROVE \A j \in Job : Queue!Promised(j)
    BY <1>4, ClaimPromised
  <1>5. ASSUME NEW r \in Run, Complete(r) PROVE \A j \in Job : Queue!Promised(j)
    BY <1>5, OutcomePromised DEF Complete, At
  <1>6. ASSUME NEW r \in Run, Fail(r) PROVE \A j \in Job : Queue!Promised(j)
    <2>1. run[r].attempt \in Nat
      BY DEF TypeInv, TypeOK, Typing, RunState
    <2>2. CASE run[r].attempt >= MaxAttempts
      BY <1>6, <2>2, OutcomePromised DEF Fail
    <2>3. CASE ~(run[r].attempt >= MaxAttempts)
      BY <1>6, <2>1, <2>3, BoundAssumption, OutcomePromised DEF Fail
    <2> QED
      BY <2>2, <2>3
  <1>7. ASSUME NEW r \in Run, Crash(r) PROVE \A j \in Job : Queue!Promised(j)
    BY <1>7, CrashPromised
  <1>8. ASSUME NEW i \in Job, ReclaimDead(i), NEW j \in Job PROVE Queue!Promised(j)
    <2>1. Slots(j)' = Slots(j)
      BY <1>8 DEF ReclaimDead, Slots, Runs, At
    <2>2. CASE j # i
      <3>1. jobs'[j] = jobs[j]
        BY <1>8, <2>2 DEF ReclaimDead, TypeInv, TypeOK, Typing, RunState
      <3> QED
        BY <2>1, <3>1, Rests
    <2>3. CASE j = i
      <3>1. Slots(j) = {} /\ Slots(j)' = {}
        BY <1>8, <2>1, <2>3 DEF ReclaimDead, Slots
      <3>2. jobs'[j].status = "queued" /\ jobs'[j].attempts = jobs[j].attempts + 0
            /\ jobs[j].status = "running"
        BY <1>8, <2>3 DEF ReclaimDead, TypeInv, TypeOK, Typing, RunState, JobRow
      <3>3. Life(j) = "running" /\ Life(j)' = "queued"
        BY <3>2 DEF Life
      <3>4. Queue!TakeBack(j)
        BY <3>1, <3>2, <3>3, Mapped
        DEF Queue!TakeBack, Queue!Becomes, Queue!Counts, Queue!Passes
      <3> QED
        BY <3>4 DEF Queue!Promised
    <2> QED
      BY <2>2, <2>3
  <1>9. ASSUME NEW j \in Job, ReclaimLive(j) PROVE FALSE
    BY <1>9 DEF ReclaimLive
  <1>10. ASSUME NEW r \in Run, NEW place \in Place \ {"idle"},
                NEW read \in BookStatus \union {"unread"}, ~At(r, "idle"), Goes(r, place, read),
                UNCHANGED jobs, NEW j \in Job
         PROVE  Queue!Promised(j)
    BY <1>10, SlotsMove, Rests
  <1>11. ASSUME NEW r \in Run,
                ReadBook(r) \/ OpenExtraction(r) \/ ReplaceChunks(r) \/ OpenTranslation(r) \/ Finish(r)
         PROVE  \A j \in Job : Queue!Promised(j)
    <2>1. ~At(r, "idle") /\ UNCHANGED jobs
      BY <1>11 DEF ReadBook, OpenExtraction, Marks, ReplaceChunks, OpenTranslation, Finish, At
    <2> QED
      BY <1>10, <1>11, <2>1, RunGoesOn
  <1>12. ASSUME NEW r \in Run, StartCli(r), NEW j \in Job PROVE Queue!Promised(j)
    <2>1. \A q \in Run : Runs(q, j)' <=> Runs(q, j)
      BY <1>12 DEF StartCli, CliRun, NoRun, Runs, At, Job, Cli, TypeInv, TypeOK, Typing, RunState
    <2> QED
      BY <1>12, <2>1, Rests DEF StartCli, Slots
  <1>13. ASSUME UNCHANGED <<jobs, run>>, NEW j \in Job PROVE Queue!Promised(j)
    BY <1>13, Rests DEF Slots, Runs, At
  <1> QED
    BY <1>1, <1>2, <1>3, <1>4, <1>5, <1>6, <1>7, <1>8, <1>9, <1>11, <1>12, <1>13
    DEF Next, Upload, UploadCli, CheckActive, Persist, vars

LEMMA NextNoRowNoAttempts == TypeInv /\ NoRowNoAttempts /\ [Next]_vars => NoRowNoAttempts'
  <1> SUFFICES ASSUME TypeInv, NoRowNoAttempts, [Next]_vars, NEW j \in Job,
                      jobs'[j].status \in {"absent", "gone"}
               PROVE  jobs'[j].attempts = 0
    BY DEF NoRowNoAttempts
  <1> USE DEF NoRowNoAttempts
  <1>0. jobs \in [Job -> JobRow]
    BY DEF TypeInv, TypeOK, Typing, RunState
  <1>1. ASSUME NEW i \in Job, jobs' = [jobs EXCEPT ![i] = Queued] PROVE jobs'[j].attempts = 0
    BY <1>0, <1>1 DEF Queued
  <1>2. CASE Delete
    BY <1>0, <1>2 DEF Delete, Gone
  <1>3. ASSUME NEW r \in Run, NEW s \in {"queued", "succeeded", "failed"}, Record(r, s)
        PROVE  jobs'[j].attempts = 0
    <2>1. jobs'[j].status = jobs[j].status /\ (j = run[r].job => jobs[j].status = "gone")
      BY <1>3, Recorded
    <2>2. jobs'[j] = jobs[j]
      BY <1>3, <2>1, Recorded DEF Record
    <2> QED
      BY <2>1, <2>2
  <1>4. ASSUME NEW r \in Run, Claim(r) PROVE jobs'[j].attempts = 0
    <2>1. PICK i \in Job : jobs' = [jobs EXCEPT ![i].status = "running", ![i].attempts = @ + 1]
      BY <1>4 DEF Claim
    <2> QED
      BY <1>0, <2>1 DEF JobRow
  <1>5. ASSUME NEW i \in Job, ReclaimDead(i) \/ ReclaimLive(i) PROVE jobs'[j].attempts = 0
    BY <1>0, <1>5 DEF ReclaimDead, ReclaimLive, JobRow
  <1>6. CASE UNCHANGED jobs
    BY <1>6
  <1>7. ASSUME NEW r \in Run, Complete(r) \/ Fail(r) PROVE jobs'[j].attempts = 0
    BY <1>3, <1>7 DEF Complete, Fail
  <1>8. CASE Create
    <2>1. 1 \in Job
      BY BoundAssumption DEF Job
    <2> QED
      BY <1>1, <1>8, <2>1 DEF Create
  <1>9. CASE Insert
    BY <1>1, <1>6, <1>9 DEF Insert
  <1>10. ASSUME NEW r \in Run,
                StartCli(r) \/ ReadBook(r) \/ OpenExtraction(r) \/ ReplaceChunks(r) \/ OpenTranslation(r)
                  \/ Persist(r) \/ Finish(r) \/ Crash(r)
         PROVE  UNCHANGED jobs
    BY <1>10 DEF StartCli, ReadBook, OpenExtraction, Marks, ReplaceChunks, OpenTranslation, Persist, Finish, Crash
  <1> QED
    BY <1>2, <1>4, <1>5, <1>6, <1>7, <1>8, <1>9, <1>10
    DEF Next, Upload, UploadCli, CheckActive, vars

\* The count in a run's copy stays right until its job is stolen: while a run has a
\* job, nobody else hands it out.
LEMMA NextAttemptIsCount == QueueInv /\ [Next]_vars => AttemptIsCount'
  <1> SUFFICES ASSUME QueueInv, [Next]_vars, ~stolen'
               PROVE  AttemptIsCount'
    BY DEF AttemptIsCount
  <1> USE DEF QueueInv, RunnersInv
  <1>0. ~stolen /\ \A q \in Run : Working(q) => run[q].job \in Job
    BY BrokenStays DEF Working, TypeInv, TypeOK, Typing, RunState
  <1>1. ASSUME \A q \in Run : Working(q)' /\ jobs'[run'[q].job].status = "running"
                   => Working(q) /\ run'[q].job = run[q].job /\ run'[q].attempt = run[q].attempt
                      /\ jobs'[run[q].job].attempts = jobs[run[q].job].attempts
                      /\ jobs[run[q].job].status = "running"
        PROVE  AttemptIsCount'
    BY <1>0, <1>1 DEF AttemptIsCount
  <1>2. ASSUME Create, run' = run \/ \E r \in Run : UploadCli(r) PROVE AttemptIsCount'
    <2>1. \A r \in Run : Working(r)' => Working(r)
      BY <1>2 DEF UploadCli, CliRun, NoRun, Working, At, TypeInv, TypeOK, Typing, RunState
    <2>2. \A r \in Run : ~Working(r)
      BY <1>0, <1>2 DEF Create, NothingBefore, TypeInv, RunsHaveRows, Working
    <2> QED
      BY <2>1, <2>2 DEF AttemptIsCount
  <1>3. CASE Insert
    <2>1. \A j \in Job : jobs'[j].status = "running" => jobs'[j] = jobs[j]
      BY <1>3 DEF Insert, Queued, TypeInv, TypeOK, Typing, RunState
    <2> QED
      BY <1>0, <1>1, <1>3, <2>1 DEF Insert, Working, At
  <1>4. CASE Delete
    <2>1. \A j \in Job : jobs'[j].status # "running"
      BY <1>4 DEF Delete, Gone
    <2> QED
      BY <1>0, <1>4, <2>1 DEF Delete, AttemptIsCount, Working, At
  <1>5. ASSUME NEW r \in Run, Claim(r) PROVE AttemptIsCount'
    <2>1. PICK j \in Job :
              /\ jobs[j].status = "queued"
              /\ jobs' = [jobs EXCEPT ![j].status = "running", ![j].attempts = @ + 1]
              /\ run' = [run EXCEPT ![r] = [job |-> j, kind |-> KindOf(j),
                                            attempt |-> jobs[j].attempts + 1, at |-> "opening",
                                            read |-> "unread"]]
      BY <1>5 DEF Claim
    <2>2. \A q \in Run : Working(q) => run[q].job # j
      BY <1>0, <2>1 DEF RunnerIsRunning
    <2>3. /\ jobs'[j].attempts = jobs[j].attempts + 1
          /\ \A k \in Job : k # j => jobs'[k] = jobs[k]
      BY <2>1 DEF TypeInv, TypeOK, Typing, RunState, JobRow
    <2>4. /\ run'[r].job = j /\ run'[r].attempt = jobs[j].attempts + 1
          /\ \A q \in Run : q # r => run'[q] = run[q]
      BY <2>1 DEF TypeInv, TypeOK, Typing, RunState
    <2>5. ASSUME NEW q \in Run, q # r, Working(q)', jobs'[run'[q].job].status = "running"
          PROVE  run'[q].attempt = jobs'[run'[q].job].attempts
      <3>1. Working(q) /\ run'[q] = run[q]
        BY <2>4, <2>5 DEF Working, At
      <3>2. jobs'[run[q].job] = jobs[run[q].job]
        BY <1>0, <2>2, <2>3, <3>1
      <3> QED
        BY <1>0, <2>5, <3>1, <3>2 DEF AttemptIsCount
    <2> QED
      BY <2>3, <2>4, <2>5 DEF AttemptIsCount
  <1>6. ASSUME NEW r \in Run, Ends(r),
               jobs' = jobs \/ \E s \in {"queued", "succeeded", "failed"} : Record(r, s)
        PROVE  AttemptIsCount'
    <2>1. \A j \in Job : jobs'[j].status = "running" => jobs'[j] = jobs[j]
      <3>1. CASE jobs' = jobs
        BY <3>1
      <3>2. ASSUME NEW s \in {"queued", "succeeded", "failed"}, Record(r, s),
                   NEW j \in Job, jobs'[j].status = "running"
            PROVE  jobs'[j] = jobs[j]
        BY <3>2, Recorded DEF Record
      <3> QED
        BY <1>6, <3>1, <3>2
    <2>2. run'[r] = NoRun /\ \A q \in Run : q # r => run'[q] = run[q]
      BY <1>6 DEF Ends, TypeInv, TypeOK, Typing, RunState
    <2>3. \A q \in Run : Working(q)' => Working(q) /\ run'[q] = run[q]
      BY <2>2 DEF Working, At, NoRun
    <2> QED
      BY <1>0, <1>1, <2>1, <2>3
  <1>7. ASSUME NEW r \in Run, StartCli(r) PROVE AttemptIsCount'
    <2>1. \A q \in Run : Working(q)' => Working(q) /\ run'[q] = run[q]
      BY <1>7 DEF StartCli, CliRun, NoRun, Working, At, TypeInv, TypeOK, Typing, RunState
    <2> QED
      BY <1>1, <1>7, <2>1 DEF StartCli
  <1>8. ASSUME NEW i \in Job, ReclaimDead(i) PROVE AttemptIsCount'
    <2>1. \A j \in Job : jobs'[j].status = "running" => jobs'[j] = jobs[j]
      BY <1>8 DEF ReclaimDead, TypeInv, TypeOK, Typing, RunState, JobRow
    <2> QED
      BY <1>0, <1>1, <1>8, <2>1 DEF ReclaimDead, Working, At
  <1>9. ASSUME NEW j \in Job, ReclaimLive(j) PROVE FALSE
    BY <1>9 DEF ReclaimLive
  <1>10. ASSUME NEW r \in Run, NEW place \in Place \ {"idle"},
                NEW read \in BookStatus \union {"unread"}, ~At(r, "idle"), Goes(r, place, read),
                UNCHANGED jobs
         PROVE  AttemptIsCount'
    <2>1. \A q \in Run : run'[q].job = run[q].job /\ run'[q].attempt = run[q].attempt
                          /\ (Working(q)' <=> Working(q))
      BY <1>10, RunGoes DEF Working, At, TypeInv, TypeOK
    <2> QED
      BY <1>1, <1>10, <2>1
  <1>11. ASSUME NEW r \in Run,
                ReadBook(r) \/ OpenExtraction(r) \/ ReplaceChunks(r) \/ OpenTranslation(r) \/ Finish(r)
         PROVE  AttemptIsCount'
    <2>1. ~At(r, "idle") /\ UNCHANGED jobs
      BY <1>11 DEF ReadBook, OpenExtraction, Marks, ReplaceChunks, OpenTranslation, Finish, At
    <2> QED
      BY <1>10, <1>11, <2>1, RunGoesOn
  <1>12. CASE UNCHANGED <<jobs, run>>
    BY <1>1, <1>12 DEF Working, At
  <1>13. ASSUME NEW r \in Run, Complete(r) \/ Fail(r) \/ Crash(r) PROVE AttemptIsCount'
    BY <1>6, <1>13 DEF Complete, Fail, Crash
  <1> QED
    BY <1>2, <1>3, <1>4, <1>5, <1>7, <1>8, <1>9, <1>11, <1>12, <1>13
    DEF Next, Upload, UploadCli, CheckActive, Persist, vars

LEMMA NextQueueInv == QueueInv /\ [Next]_vars => QueueInv'
  BY NextRunnersInv, NextNoRowNoAttempts, NextAttemptIsCount DEF QueueInv, RunnersInv

\* As long as no job is reclaimed from a run still at work, the jobs of a book keep
\* the contract of the queue: what BookLife assumes of claims, outcomes, crashes,
\* reclaims and the deletion of the book is what JobQueue is proved to promise.
THEOREM JobsKeepTheContract == Spec /\ []~stolen => Queue!Spec
  <1>1. Init => QueueInv
    BY InitRunnersInv DEF Init, QueueInv, AttemptIsCount, NoRowNoAttempts, NoRow, NoRun, Working, At
  <1>2. Init => Queue!Init
    BY DEF Init, Queue!Init, Lives, Life, Handouts, Hands, Slots, Runs, At, NoRun, NoRow
  <1>3. QueueInv /\ [Next]_vars /\ ~stolen /\ ~stolen' => [Queue!Next]_(Queue!vars)
    BY NextPromised DEF Queue!Next
  <1> QED
    BY <1>1, <1>2, <1>3, NextQueueInv, PTL DEF Spec, Queue!Spec
=============================================================================
