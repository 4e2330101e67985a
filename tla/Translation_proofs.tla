------------------------- MODULE Translation_proofs ------------------------
(***************************************************************************)
(* Proofs about Translation for every finite book, every set of runs,      *)
(* requests and payloads, and every number of faults.                      *)
(***************************************************************************)
EXTENDS Translation, FiniteSetTheorems, TLAPS

-----------------------------------------------------------------------------
(* Type correctness *)

LEMMA CountType ==
  ASSUME NEW S, S \subseteq Chunk
  PROVE  Cardinality(S) \in Count
  <1>1. IsFiniteSet(S) /\ Cardinality(S) <= Cardinality(Chunk)
    BY ChunkAssumption, FS_Subset
  <1>2. Cardinality(S) \in Nat /\ Cardinality(Chunk) \in Nat
    BY <1>1, ChunkAssumption, FS_CardinalityType
  <1> QED
    BY <1>1, <1>2 DEF Count

LEMMA InitType == Init => TypeOK
  <1>1. 0 \in Count
    BY ChunkAssumption, FS_CardinalityType DEF Count
  <1> QED
    <2> SUFFICES ASSUME Init
                 PROVE  TypeOK
      OBVIOUS
    <2>1. book \in Book
      BY <1>1 DEF Init, Book, BookStatus
    <2>2. /\ status \in [Chunk -> Status] /\ text \in [Chunk -> {"none", "machine", "human"}]
          /\ task \in [Runner -> [Chunk -> Stage]]
      BY DEF Init, Status, Stage
    <2>3. /\ view \in [Runner -> View \union {NoView}]
          /\ request \in [Reviewer -> Request \union {NoRequest}]
          /\ \A r \in Runner : view[r] # NoView <=> phase[r] = "finishing"
          /\ \A u \in Reviewer : ~Edits(u)
      BY DEF Init, Edits
    <2>4. /\ jobs \in [Jobs -> Row]
          /\ \A j \in Jobs : jobs[j].status = "absent" /\ jobs[j].attempts = 0
      BY DEF Init, Row, JobStatus
    <2>5. /\ phase \in [Runner -> Phase] /\ attempt \in [Runner -> Nat]
          /\ origin \in [Runner -> Jobs \union {Cli}] /\ \A r \in Runner : origin[r] = Cli
      BY DEF Init, Phase
    <2>6. faults \in 0 .. FaultBound /\ reviews \in 0 .. ReviewBound
      BY BoundAssumption DEF Init
    <2> QED
      BY <2>1, <2>2, <2>3, <2>4, <2>5, <2>6 DEF Init, TypeOK

\* What a step that touches only runs, jobs and requests has to keep.
JobsType ==
    /\ jobs \in [Jobs -> Row]
    /\ \A j \in Jobs : /\ jobs[j].status = "absent" => jobs[j].attempts = 0
                       /\ jobs[j].status # "absent" => jobs[j].payload # NoPayload
    /\ origin \in [Runner -> Jobs \union {Cli}] /\ attempt \in [Runner -> Nat]
    /\ \A r \in Runner : origin[r] # Cli => attempt[r] \in 1 .. jobs[origin[r]].attempts

RunsType ==
    /\ phase \in [Runner -> Phase]
    /\ task \in [Runner -> [Chunk -> Stage]]
    /\ view \in [Runner -> View \union {NoView}]
    /\ \A r \in Runner : view[r] # NoView <=> phase[r] = "finishing"

RequestsType ==
    /\ request \in [Reviewer -> Request \union {NoRequest}]
    /\ \A u \in Reviewer : Edits(u) => request[u].stage = "looked"
    /\ reviews \in 0 .. ReviewBound

RowsType ==
    /\ status \in [Chunk -> Status]
    /\ text \in [Chunk -> {"none", "machine", "human"}]
    /\ book \in Book
    /\ signedOff \subseteq Chunk /\ keptEdits \subseteq Chunk

LEMMA TypeParts ==
  TypeOK <=> JobsType /\ RunsType /\ RequestsType /\ RowsType /\ faults \in 0 .. FaultBound
  BY DEF TypeOK, JobsType, RunsType, RequestsType, RowsType

LEMMA PrimedParts ==
  JobsType' /\ RunsType' /\ RequestsType' /\ RowsType' /\ faults' \in 0 .. FaultBound => TypeOK'
  BY DEF TypeOK, JobsType, RunsType, RequestsType, RowsType

LEMMA RequestsStand ==
  ASSUME RequestsType, UNCHANGED <<request, reviews>>
  PROVE  RequestsType'
  BY DEF RequestsType, Edits

LEMMA JobsStand ==
  ASSUME JobsType, UNCHANGED <<jobs, caller>>
  PROVE  JobsType'
  BY DEF JobsType, caller

LEMMA RunsStand ==
  ASSUME RunsType, UNCHANGED <<phase, task, view>>
  PROVE  RunsType'
  BY DEF RunsType

\* A status of a job that has its payload can be any.
LEMMA StatusType ==
  ASSUME JobsType, NEW j \in Jobs, NEW s \in JobStatus \ {"absent"}, jobs[j].status # "absent",
         jobs' = [jobs EXCEPT ![j].status = s], UNCHANGED caller
  PROVE  JobsType'
  <1>1. jobs' \in [Jobs -> Row]
    BY DEF JobsType, Row
  <1>2. \A i \in Jobs : jobs'[i].payload = jobs[i].payload /\ jobs'[i].attempts = jobs[i].attempts
                        /\ (i # j => jobs'[i] = jobs[i])
    BY DEF JobsType, Row
  <1> QED
    BY <1>1, <1>2 DEF JobsType, caller

LEMMA RecordType ==
  ASSUME JobsType, NEW r \in Runner, NEW s \in JobStatus \ {"absent"}, Record(r, s), UNCHANGED caller
  PROVE  JobsType'
  <1>1. CASE origin[r] = Cli
    BY <1>1, JobsStand DEF Record
  <1>2. CASE origin[r] # Cli
    <2>1. origin[r] \in Jobs /\ attempt[r] \in 1 .. jobs[origin[r]].attempts
      BY <1>2 DEF JobsType
    <2>2. jobs[origin[r]].attempts # 0
      BY <2>1 DEF JobsType, Row
    <2>3. jobs[origin[r]].status # "absent"
      BY <2>1, <2>2 DEF JobsType
    <2> QED
      BY <1>2, <2>1, <2>3, StatusType DEF Record
  <1> QED
    BY <1>1, <1>2

LEMMA BeginType ==
  ASSUME TypeOK, NEW r \in Runner, NEW p, NEW from, NEW n, Begin(r, p, from, n)
  PROVE  /\ RunsType' /\ RequestsType' /\ RowsType' /\ faults' \in 0 .. FaultBound
         /\ \A q \in Runner \ {r} : origin'[q] = origin[q] /\ attempt'[q] = attempt[q]
         /\ origin'[r] = from /\ attempt'[r] = n
         /\ origin' = [origin EXCEPT ![r] = from] /\ attempt' = [attempt EXCEPT ![r] = n]
  <1> USE TypeParts, PrimedParts
  <1>1. RunsType'
    <2>1. phase' \in [Runner -> Phase]
      BY DEF Begin, RunsType, Phase
    <2>2. task' \in [Runner -> [Chunk -> Stage]]
      BY DEF Begin, RunsType, Stage
    <2>3. \A q \in Runner : phase'[q] = "finishing" <=> phase[q] = "finishing"
      BY DEF Begin, RunsType
    <2> QED
      BY <2>1, <2>2, <2>3 DEF Begin, RunsType
  <1>2. RequestsType'
    BY RequestsStand DEF Begin
  <1>3. RowsType'
    BY DEF Begin, RowsType, Book, BookStatus
  <1> QED
    BY <1>1, <1>2, <1>3 DEF Begin, JobsType

LEMMA MovesType ==
  ASSUME RunsType, NEW r \in Runner, NEW c \in Chunk, NEW to \in Stage, Moves(r, c, to),
         UNCHANGED <<phase, view>>
  PROVE  RunsType'
  BY DEF RunsType, Moves

\* A run that ends for whatever reason loses its view.
LEMMA EndType ==
  ASSUME RunsType, NEW r \in Runner, NEW ph \in Phase \ {"finishing"},
         phase' = [phase EXCEPT ![r] = ph], view' = [view EXCEPT ![r] = NoView],
         task' \in [Runner -> [Chunk -> Stage]]
  PROVE  RunsType'
  BY DEF RunsType

LEMMA BreakType ==
  ASSUME TypeOK, NEW r \in Runner, Fault, Break(r), task' \in [Runner -> [Chunk -> Stage]],
         UNCHANGED <<rows, caller, request, reviews, ghosts>>
  PROVE  TypeOK'
  <1> USE TypeParts, PrimedParts
  <1>1. JobsType'
    BY JobsStand, RecordType DEF Break, JobStatus
  <1>2. RunsType'
    BY EndType DEF Break, Phase
  <1>3. RequestsType'
    BY RequestsStand
  <1>4. faults' \in 0 .. FaultBound
    BY BoundAssumption DEF Fault
  <1> QED
    BY <1>1, <1>2, <1>3, <1>4 DEF rows, ghosts, RowsType

LEMMA NextType == TypeOK /\ [Next]_vars => TypeOK'
  <1> SUFFICES ASSUME TypeOK, [Next]_vars
               PROVE  TypeOK'
    OBVIOUS
  <1> USE TypeParts, PrimedParts
  <1>1. ASSUME NEW j \in Jobs, NEW p \in Payload, NEW m \in MaxAttempts, Ask(j, p, m)
        PROVE  TypeOK'
    <2> DEFINE new == [payload |-> p, status |-> "queued", attempts |-> 0, max |-> m]
    <2>1. new \in Row /\ p # NoPayload
      BY ConcurrencyAssumption, SentinelAssumption DEF Row, JobStatus
    <2>2. jobs' = [jobs EXCEPT ![j] = new] /\ UNCHANGED <<origin, attempt>>
      BY <1>1 DEF Ask, runs, caller
    <2>3. \A r \in Runner : origin[r] # j
      \* an absent job has not been claimed: its attempts are 0
      <3> SUFFICES ASSUME NEW r \in Runner, origin[r] = j PROVE FALSE
        OBVIOUS
      <3> QED
        BY <1>1 DEF Ask, JobsType, Jobs, Cli
    <2>4. JobsType'
      BY <2>1, <2>2, <2>3 DEF JobsType
    <2> QED
      BY <1>1, <2>4, RequestsStand, RunsStand DEF Ask, runs, rows, ghosts, RowsType
  <1>2. ASSUME NEW r \in Runner, NEW j \in Jobs, StartJob(r, j) PROVE TypeOK'
    <2>1. /\ RunsType' /\ RequestsType' /\ RowsType' /\ faults' \in 0 .. FaultBound
          /\ origin' = [origin EXCEPT ![r] = j]
          /\ attempt' = [attempt EXCEPT ![r] = jobs[j].attempts + 1]
      BY <1>2, BeginType DEF StartJob
    <2>2. /\ jobs' \in [Jobs -> Row] /\ jobs'[j].attempts = jobs[j].attempts + 1
          /\ jobs[j].payload # NoPayload /\ jobs'[j].payload = jobs[j].payload
          /\ jobs'[j].status = "running"
          /\ \A i \in Jobs \ {j} : jobs'[i] = jobs[i]
      BY <1>2 DEF StartJob, JobsType, Row, JobStatus
    <2>3. jobs[j].attempts \in Nat /\ j # Cli
      BY DEF JobsType, Row, Jobs, Cli
    <2>4. ASSUME NEW q \in Runner, origin'[q] # Cli
          PROVE  attempt'[q] \in 1 .. jobs'[origin'[q]].attempts
      <3>1. CASE q = r
        BY <2>1, <2>2, <2>3, <3>1 DEF JobsType
      <3>2. CASE q # r
        BY <2>1, <2>2, <2>3, <2>4, <3>2 DEF JobsType
      <3> QED
        BY <3>1, <3>2
    <2>5. origin' \in [Runner -> Jobs \union {Cli}] /\ attempt' \in [Runner -> Nat]
      BY <2>1, <2>3 DEF JobsType
    <2>6. JobsType'
      BY <2>2, <2>4, <2>5 DEF JobsType
    <2> QED
      BY <2>1, <2>6
  <1>3. ASSUME NEW r \in Runner, NEW p \in Payload, StartCli(r, p) PROVE TypeOK'
    <2>1. /\ RunsType' /\ RequestsType' /\ RowsType' /\ faults' \in 0 .. FaultBound
          /\ origin' = [origin EXCEPT ![r] = Cli] /\ attempt' = [attempt EXCEPT ![r] = 0]
          /\ jobs' = jobs
      BY <1>3, BeginType DEF StartCli
    <2>2. JobsType'
      BY <2>1 DEF JobsType
    <2> QED
      BY <2>1, <2>2
  <1>4. ASSUME NEW r \in Runner, FinishRead(r) PROVE TypeOK'
    <2> DEFINE v == [loaded |-> book, completed |-> Cardinality(Approved),
                     verdict |-> Verdict]
    <2>1. v \in View
      BY CountType DEF RowsType, View, Verdict, BookStatus, Approved
    <2>2. v # NoView
      BY <2>1, SentinelAssumption
    <2>3. RunsType'
      BY <1>4, <2>1, <2>2 DEF FinishRead, RunsType, Phase
    <2> QED
      BY <1>4, <2>3, JobsStand, RequestsStand DEF FinishRead, rows, ghosts, RowsType
  <1>5. ASSUME NEW r \in Runner, FinishWrite(r) PROVE TypeOK'
    <2>1. view[r] \in View
      BY <1>5 DEF FinishWrite, RunsType
    <2>2. book' \in Book
      BY <1>5, <2>1 DEF FinishWrite, RowsType, View, Book
    <2>3. RunsType'
      BY <1>5, EndType DEF FinishWrite, RunsType, Phase
    <2> QED
      BY <1>5, <2>2, <2>3, JobsStand, RequestsStand DEF FinishWrite, ghosts, RowsType
  <1>6. ASSUME NEW r \in Runner, Close(r) PROVE TypeOK'
    <2>1. RunsType'
      BY <1>6 DEF Close, RunsType, Stage, Phase
    <2>2. JobsType'
      BY <1>6, RecordType DEF Close, JobStatus
    <2> QED
      BY <1>6, <2>1, <2>2, RequestsStand DEF Close, rows, ghosts, RowsType
  <1>7. ASSUME NEW r \in Runner, Crash(r) PROVE TypeOK'
    <2>1. task' \in [Runner -> [Chunk -> Stage]]
      BY <1>7 DEF Crash, RunsType, Stage
    <2>2. PICK ph \in Phase \ {"finishing"} : phase' = [phase EXCEPT ![r] = ph]
      <3>1. CASE ~Active(r)
        BY <1>7, <3>1 DEF Crash, Active, RunsType
      <3>2. CASE Active(r)
        <4> DEFINE ph == IF /\ origin[r] # Cli /\ Alone(r)
                            /\ jobs[origin[r]].status \in {"queued", "running"}
                         THEN "over" ELSE "broken"
        <4>1. ph \in Phase \ {"finishing"}
          BY DEF Phase
        <4>2. phase' = [phase EXCEPT ![r] = ph]
          BY <1>7, <3>2 DEF Crash
        <4> QED
          BY <4>1, <4>2
      <3> QED
        BY <3>1, <3>2
    <2>3. RunsType'
      BY <1>7, <2>1, <2>2, EndType DEF Crash
    <2>4. faults' \in 0 .. FaultBound
      BY <1>7, BoundAssumption DEF Crash, Fault
    <2> QED
      BY <1>7, <2>3, <2>4, JobsStand, RequestsStand DEF Crash, rows, ghosts, RowsType
  <1>8. ASSUME NEW j \in Jobs, Reclaim(j) \/ Overrun(j) PROVE TypeOK'
    <2>1. Requeue(j) /\ faults' \in 0 .. FaultBound
      BY <1>8, BoundAssumption DEF Reclaim, Overrun, Fault
    <2>2. jobs[j].status # "absent"
      BY <2>1 DEF Requeue
    <2>3. JobsType'
      BY <2>1, <2>2, StatusType DEF Requeue, JobStatus, runs
    <2> QED
      BY <2>1, <2>3, RunsStand, RequestsStand DEF Requeue, runs, rows, ghosts, RowsType
  <1>9. ASSUME NEW r \in Runner, NEW c \in Chunk, Read(r, c) \/ Report(r, c) PROVE TypeOK'
    <2>1. RunsType'
      <3>1. PICK to \in Stage : Moves(r, c, to)
        BY <1>9 DEF Read, Report, Stage
      <3> QED
        BY <1>9, <3>1, MovesType DEF Read, Report
    <2> QED
      BY <1>9, <2>1, JobsStand, RequestsStand DEF Read, Report, rows, ghosts, RowsType
  <1>10. ASSUME NEW r \in Runner, NEW c \in Chunk, Persist(r, c) \/ MarkFailed(r, c) PROVE TypeOK'
    <2>1. RunsType'
      BY <1>10 DEF Persist, MarkFailed, Moves, RunsType, Stage
    <2>2. RowsType'
      BY <1>10 DEF Persist, MarkFailed, ghosts, RowsType, Status
    <2> QED
      BY <1>10, <2>1, <2>2, JobsStand, RequestsStand DEF Persist, MarkFailed
  <1>11. ASSUME NEW r \in Runner, LoseOutcome(r) PROVE TypeOK'
    <2>1. RunsType'
      BY <1>11 DEF LoseOutcome, RunsType, Stage, Phase
    <2>2. faults' \in 0 .. FaultBound
      BY <1>11, BoundAssumption DEF LoseOutcome, Fault
    <2> QED
      BY <1>11, <2>1, <2>2, JobsStand, RequestsStand DEF LoseOutcome, rows, ghosts, RowsType
  <1>12. ASSUME NEW r \in Runner, Raise(r) PROVE TypeOK'
    <2>1. task' \in [Runner -> [Chunk -> Stage]]
      BY <1>12 DEF Raise, RunsType, Stage
    <2> QED
      BY <1>12, <2>1, BreakType DEF Raise
  <1>13. ASSUME NEW r \in Runner, NEW c \in Chunk, Abort(r, c) PROVE TypeOK'
    <2>1. task' \in [Runner -> [Chunk -> Stage]]
      BY <1>13 DEF Abort, RunsType, Stage
    <2> QED
      BY <1>13, <2>1, BreakType DEF Abort
  <1>14. ASSUME NEW c \in Chunk, AcceptSuggestion(c) PROVE TypeOK'
    <2>1. RequestsType' /\ RowsType'
      BY <1>14, BoundAssumption DEF AcceptSuggestion, Review, RequestsType, RowsType, Edits, ghosts
    <2> QED
      BY <1>14, <2>1, JobsStand, RunsStand DEF AcceptSuggestion, runs
  <1>15. ASSUME NEW u \in Reviewer, NEW c \in Chunk,
                OpenEdit(u, c) \/ \E to \in {"approved", "reviewed"} : Open(u, c, to)
         PROVE  TypeOK'
    <2>1. PICK q \in Request : /\ request' = [request EXCEPT ![u] = q]
                               /\ q.to = "edited" => q.stage = "looked"
      <3>1. 0 \in Count /\ book.completed \in Count
        BY ChunkAssumption, FS_CardinalityType DEF Count, RowsType, Book
      <3>2. ASSUME OpenEdit(u, c)
            PROVE  \E q \in Request : /\ request' = [request EXCEPT ![u] = q]
                                      /\ q.to = "edited" => q.stage = "looked"
        <4> DEFINE q == [chunk |-> c, to |-> "edited", stage |-> "looked", loaded |-> 0,
                         seen |-> status[c], count |-> 0]
        <4>1. q \in Request
          BY <3>1 DEF Request, RowsType
        <4> QED
          BY <3>2, <4>1 DEF OpenEdit
      <3>3. ASSUME NEW to \in {"approved", "reviewed"}, Open(u, c, to)
            PROVE  \E q \in Request : /\ request' = [request EXCEPT ![u] = q]
                                      /\ q.to = "edited" => q.stage = "looked"
        <4> DEFINE q == [chunk |-> c, to |-> to, stage |-> "opened", loaded |-> book.completed,
                         seen |-> "unread", count |-> 0]
        <4>1. q \in Request /\ q.to # "edited"
          BY <3>1 DEF Request
        <4> QED
          BY <3>3, <4>1 DEF Open
      <3> QED
        BY <1>15, <3>2, <3>3
    <2>2. reviews' \in 0 .. ReviewBound
      BY <1>15, BoundAssumption DEF OpenEdit, Open, Review, RequestsType
    <2>3. RequestsType'
      BY <2>1, <2>2, SentinelAssumption DEF RequestsType, Edits
    <2> QED
      BY <1>15, <2>3, JobsStand, RunsStand DEF Open, OpenEdit, runs, rows, ghosts, RowsType
  <1>16. ASSUME NEW u \in Reviewer, Look(u) PROVE TypeOK'
    <2>1. request[u] \in Request
      BY <1>16 DEF Look, RequestsType
    <2>2. [request[u] EXCEPT !.stage = "looked"] \in Request
      BY <2>1 DEF Request
    <2>3. \/ request' = [request EXCEPT ![u] = NoRequest]
          \/ request' = [request EXCEPT ![u] = [request[u] EXCEPT !.stage = "looked"]]
      BY <1>16 DEF Look
    <2>4. RequestsType'
      BY <1>16, <2>1, <2>2, <2>3 DEF Look, RequestsType, Edits, Request
    <2> QED
      BY <1>16, <2>4, JobsStand, RunsStand DEF Look, runs, rows, ghosts, RowsType
  <1>17. ASSUME NEW u \in Reviewer, Flush(u) PROVE TypeOK'
    <2> DEFINE n == Cardinality(IF request[u].to = "approved" THEN Approved \union {request[u].chunk}
                                                              ELSE Approved \ {request[u].chunk})
               q == [request[u] EXCEPT !.stage = "flushed", !.count = n]
    <2>1. request[u] \in Request /\ request[u].to # "edited"
      BY <1>17 DEF Flush, RequestsType
    <2>2. n \in Count
      BY <2>1, CountType DEF Approved, Request
    <2>3. q \in Request /\ q.to # "edited"
      BY <2>1, <2>2 DEF Request
    <2>4. request' = [request EXCEPT ![u] = q]
      BY <1>17, <2>1 DEF Flush, RequestsType
    <2>5. RequestsType'
      BY <1>17, <2>3, <2>4 DEF Flush, RequestsType, Edits
    <2> QED
      BY <1>17, <2>5, JobsStand, RunsStand DEF Flush, runs, rows, ghosts, RowsType
  <1>18. ASSUME NEW u \in Reviewer, CommitReview(u) PROVE TypeOK'
    <2>1. request[u] \in Request /\ request[u].to # "edited"
      BY <1>18 DEF CommitReview, RequestsType, Edits
    <2>2. RowsType'
      BY <1>18, <2>1 DEF CommitReview, RowsType, Request, Book, Status
    <2>3. RequestsType'
      BY <1>18 DEF CommitReview, RequestsType, Edits
    <2> QED
      BY <1>18, <2>2, <2>3, JobsStand, RunsStand DEF CommitReview, runs
  <1>19. ASSUME NEW u \in Reviewer, CommitEdit(u) PROVE TypeOK'
    <2>1. request[u].chunk \in Chunk
      BY <1>19 DEF CommitEdit, Edits, RequestsType, Request
    <2>2. RowsType'
      BY <1>19, <2>1 DEF CommitEdit, RowsType, Rested, Status
    <2>3. RequestsType'
      BY <1>19 DEF CommitEdit, RequestsType, Edits
    <2> QED
      BY <1>19, <2>2, <2>3, JobsStand, RunsStand DEF CommitEdit, runs
  <1>20. CASE UNCHANGED vars
    BY <1>20, JobsStand, RunsStand, RequestsStand DEF vars, runs, rows, ghosts, RowsType
  <1> QED
    BY <1>1, <1>2, <1>3, <1>4, <1>5, <1>6, <1>7, <1>8, <1>9, <1>10, <1>11, <1>12, <1>13,
       <1>14, <1>15, <1>16, <1>17, <1>18, <1>19, <1>20
    DEF Next

\* Every variable has its type in every reachable state; in particular every
\* run of a job knows the number of its attempt, and completed_chunks counts chunks.
THEOREM TypeCorrect == Spec => []TypeOK
  BY InitType, NextType, PTL DEF Spec

-----------------------------------------------------------------------------
(* Every chunk that a task has dealt with is past extraction *)

\* Nothing turns a chunk back into an extracted one, and a task comes to its report
\* only by writing the outcome or by finding the chunk approved.
Reported ==
    \A r \in Runner, c \in Chunk :
        task[r][c] \in {"reporting", "settled"} => status[c] # "extracted"

\* A step leaves every chunk past extraction that was there.
LEMMA StatusAdvances ==
  ASSUME TypeOK, [Next]_vars, NEW c \in Chunk, status[c] # "extracted"
  PROVE  status'[c] # "extracted"
  <1>1. ASSUME NEW r \in Runner, NEW d \in Chunk, Persist(r, d) \/ MarkFailed(r, d)
        PROVE  status'[c] # "extracted"
    BY <1>1 DEF Persist, MarkFailed, TypeOK
  <1>2. ASSUME NEW u \in Reviewer, CommitEdit(u) PROVE status'[c] # "extracted"
    BY <1>2 DEF CommitEdit, TypeOK
  <1>3. ASSUME NEW u \in Reviewer, CommitReview(u) PROVE status'[c] # "extracted"
    <2>1. request[u].to \in {"approved", "reviewed"}
      BY <1>3 DEF CommitReview, TypeOK, Request, Edits
    <2> QED
      BY <1>3, <2>1 DEF CommitReview, TypeOK
  <1>4. CASE UNCHANGED status
    BY <1>4
  <1> QED
    BY <1>1, <1>2, <1>3, <1>4
    DEF Next, vars, rows, Ask, StartJob, StartCli, Begin, FinishRead, FinishWrite, Close, Crash,
        Raise, LoseOutcome, Reclaim, Overrun, Requeue, Read, Report, Abort, AcceptSuggestion,
        Open, OpenEdit, Look, Flush

LEMMA NextReported == TypeOK /\ Reported /\ [Next]_vars => Reported'
  <1> SUFFICES ASSUME TypeOK, Reported, [Next]_vars,
                      NEW q \in Runner, NEW d \in Chunk,
                      task'[q][d] \in {"reporting", "settled"}
               PROVE  status'[d] # "extracted"
    BY DEF Reported
  <1>1. CASE task[q][d] \in {"reporting", "settled"}
    BY <1>1, StatusAdvances DEF Reported
  <1>2. CASE task[q][d] \notin {"reporting", "settled"}
    <2>1. ASSUME NEW r \in Runner, NEW p, NEW from, NEW n, Begin(r, p, from, n)
          PROVE  FALSE
      BY <1>2, <2>1 DEF Begin, TypeOK
    <2>2. ASSUME NEW r \in Runner, Close(r) \/ Crash(r) \/ Raise(r) \/ LoseOutcome(r) PROVE FALSE
      BY <1>2, <2>2 DEF Close, Crash, Raise, LoseOutcome, TypeOK
    <2>3. ASSUME NEW r \in Runner, NEW c \in Chunk, Read(r, c) PROVE status'[d] # "extracted"
      BY <1>2, <2>3 DEF Read, Moves, TypeOK, rows
    <2>4. ASSUME NEW r \in Runner, NEW c \in Chunk, Persist(r, c) \/ MarkFailed(r, c)
          PROVE  status'[d] # "extracted"
      <3>1. r = q /\ c = d
        BY <1>2, <2>4 DEF Persist, MarkFailed, Moves, TypeOK
      <3> QED
        BY <2>4, <3>1 DEF Persist, MarkFailed, TypeOK
    <2>5. ASSUME NEW r \in Runner, NEW c \in Chunk, Report(r, c) PROVE status'[d] # "extracted"
      BY <1>2, <2>5 DEF Report, Moves, TypeOK, Reported
    <2>6. ASSUME NEW r \in Runner, NEW c \in Chunk, Abort(r, c) PROVE FALSE
      BY <1>2, <2>6 DEF Abort, TypeOK
    <2>7. CASE UNCHANGED task
      BY <1>2, <2>7
    <2> QED
      BY <2>1, <2>2, <2>3, <2>4, <2>5, <2>6, <2>7
      DEF Next, vars, runs, Ask, StartJob, StartCli, FinishRead, FinishWrite, Reclaim, Overrun,
          Requeue, CommitEdit, AcceptSuggestion, Open, OpenEdit, Look, Flush, CommitReview
  <1> QED
    BY <1>1, <1>2

\* A run that gets to its end has left none of its chunks as extraction did, however
\* many other runs, orphaned tasks and reviewers worked on the book meanwhile.
THEOREM NoneSkipped == Spec => []NothingSkipped
  <1>1. Init => Reported
    BY DEF Init, Reported
  <1>2. Reported => NothingSkipped
    BY DEF Reported, NothingSkipped
  <1> QED
    BY <1>1, <1>2, InitType, NextType, NextReported, PTL DEF Spec

-----------------------------------------------------------------------------
(* Human work at rest *)

\* An approval at rest is still there and no task is past translate_one's guard.
ApprovalsGuarded ==
    \A c \in signedOff :
        status[c] = "approved" /\ \A r \in Runner : task[r][c] # "calling"

\* An edit at rest is in no status that a run selects, and no task holds the chunk.
EditsUnselected ==
    \A c \in keptEdits : status[c] \notin Pending /\ ~Held(c)

LEMMA NextApprovals == TypeOK /\ ApprovalsGuarded /\ [Next]_vars => ApprovalsGuarded'
  <1> SUFFICES ASSUME TypeOK, ApprovalsGuarded, [Next]_vars,
                      NEW d \in signedOff'
               PROVE  status'[d] = "approved" /\ \A q \in Runner : task'[q][d] # "calling"
    BY DEF ApprovalsGuarded
  <1> DEFINE Goal == status'[d] = "approved" /\ \A q \in Runner : task'[q][d] # "calling"
  <1>1. ASSUME NEW u \in Reviewer, CommitReview(u) PROVE Goal
    <2>1. request[u] \in Request /\ request[u].to # "edited"
      BY <1>1 DEF CommitReview, TypeOK, Edits
    <2>2. CASE d = request[u].chunk
      BY <1>1, <2>1, <2>2 DEF CommitReview, Request, TypeOK, runs, Held, Holds
    <2>3. CASE d # request[u].chunk
      BY <1>1, <2>1, <2>3 DEF CommitReview, Request, TypeOK, runs, ApprovalsGuarded
    <2> QED
      BY <2>2, <2>3
  <1>2. ASSUME d \in signedOff
        PROVE  /\ d \in Chunk /\ status[d] = "approved"
               /\ \A q \in Runner : task[q][d] # "calling"
    BY <1>2 DEF TypeOK, ApprovalsGuarded
  <1>3. ASSUME NEW r \in Runner, NEW p, NEW from, NEW n, Begin(r, p, from, n)
        PROVE  Goal
    BY <1>2, <1>3 DEF Begin, TypeOK
  <1>4. ASSUME NEW r \in Runner, NEW c \in Chunk, Read(r, c) PROVE Goal
    BY <1>2, <1>4 DEF Read, Moves, TypeOK, rows, ghosts
  <1>5. ASSUME NEW r \in Runner, NEW c \in Chunk, Persist(r, c) \/ MarkFailed(r, c) PROVE Goal
    <2>1. d \in signedOff
      BY <1>5 DEF Persist, MarkFailed, ghosts
    <2>2. c # d
      BY <1>5, <2>1 DEF Persist, MarkFailed, ApprovalsGuarded
    <2> QED
      BY <1>2, <1>5, <2>1, <2>2 DEF Persist, MarkFailed, Moves, TypeOK
  <1>6. ASSUME NEW r \in Runner, NEW c \in Chunk, Report(r, c) \/ Abort(r, c) PROVE Goal
    BY <1>2, <1>6 DEF Report, Abort, Moves, TypeOK, rows, ghosts
  <1>7. ASSUME NEW r \in Runner, Close(r) \/ Crash(r) \/ Raise(r) \/ LoseOutcome(r) PROVE Goal
    BY <1>2, <1>7 DEF Close, Crash, Raise, LoseOutcome, TypeOK, rows, ghosts
  <1>8. ASSUME NEW u \in Reviewer, CommitEdit(u) PROVE Goal
    BY <1>2, <1>8 DEF CommitEdit, runs, TypeOK
  <1>9. CASE UNCHANGED <<status, task, signedOff>>
    BY <1>2, <1>9
  <1> QED
    BY <1>1, <1>3, <1>4, <1>5, <1>6, <1>7, <1>8, <1>9
    DEF Next, vars, runs, rows, ghosts, Ask, StartJob, StartCli, FinishRead, FinishWrite, Reclaim,
        Overrun, Requeue, AcceptSuggestion, Open, OpenEdit, Look, Flush

LEMMA NextEdits == TypeOK /\ EditsUnselected /\ [Next]_vars => EditsUnselected'
  <1> SUFFICES ASSUME TypeOK, EditsUnselected, [Next]_vars,
                      NEW d \in keptEdits'
               PROVE  /\ status'[d] \notin Pending
                      /\ \A q \in Runner : task'[q][d] \notin {"waiting", "calling"}
    BY DEF EditsUnselected, Held, Holds
  <1> DEFINE Goal == /\ status'[d] \notin Pending
                     /\ \A q \in Runner : task'[q][d] \notin {"waiting", "calling"}
  <1>1. ASSUME d \in keptEdits
        PROVE  /\ d \in Chunk /\ status[d] \notin Pending
               /\ \A r \in Runner : task[r][d] \notin {"waiting", "calling"}
    BY <1>1 DEF TypeOK, EditsUnselected, Held, Holds
  <1>2. ASSUME NEW u \in Reviewer, CommitEdit(u) PROVE Goal
    <2> DEFINE c == request[u].chunk
               seen == request[u].seen
    <2>1. c \in Chunk /\ task' = task /\ keptEdits' = Rested(c, seen)
      BY <1>2 DEF CommitEdit, Edits, TypeOK, Request, runs
    <2>2. CASE c = d
      <3>1. ~Held(c) /\ status[c] = seen
        BY <2>1, <2>2 DEF Rested
      <3>2. status'[d] \notin Pending
        BY <1>2, <2>1, <2>2, <3>1 DEF CommitEdit, TypeOK, Pending
      <3> QED
        BY <2>1, <2>2, <3>1, <3>2 DEF Held, Holds
    <2>3. CASE c # d
      <3>1. d \in keptEdits
        BY <2>1, <2>3 DEF Rested
      <3>2. status'[d] = status[d]
        BY <1>2, <2>1, <2>3, <3>1 DEF CommitEdit, TypeOK
      <3> QED
        BY <1>1, <2>1, <3>1, <3>2
    <2> QED
      BY <2>2, <2>3
  <1>3. ASSUME NEW r \in Runner, NEW p, NEW from, NEW n, Begin(r, p, from, n)
        PROVE  Goal
    <2>1. d \in keptEdits /\ d \notin p.indexes
      BY <1>3 DEF Begin
    <2>2. d \notin Selected(p)
      BY <1>1, <2>1 DEF Selected, Failed, Pending
    <2> QED
      BY <1>1, <1>3, <2>1, <2>2 DEF Begin, TypeOK
  <1>4. ASSUME NEW r \in Runner, NEW c \in Chunk,
               Read(r, c) \/ Persist(r, c) \/ MarkFailed(r, c)
        PROVE  Goal
    <2>1. d \in keptEdits
      BY <1>4 DEF Read, Persist, MarkFailed, ghosts
    <2>2. c # d
      BY <1>1, <1>4, <2>1 DEF Read, Persist, MarkFailed
    <2> QED
      BY <1>1, <1>4, <2>1, <2>2 DEF Read, Persist, MarkFailed, Moves, TypeOK, rows
  <1>5. ASSUME NEW r \in Runner, NEW c \in Chunk, Report(r, c) \/ Abort(r, c) PROVE Goal
    BY <1>1, <1>5 DEF Report, Abort, Moves, TypeOK, rows, ghosts
  <1>6. ASSUME NEW r \in Runner, Close(r) \/ Crash(r) \/ Raise(r) \/ LoseOutcome(r) PROVE Goal
    BY <1>1, <1>6 DEF Close, Crash, Raise, LoseOutcome, TypeOK, rows, ghosts
  <1>7. ASSUME NEW u \in Reviewer, CommitReview(u) PROVE Goal
    <2>1. request[u] \in Request /\ request[u].to # "edited"
      BY <1>7 DEF CommitReview, TypeOK, Edits
    <2> QED
      BY <1>1, <1>7, <2>1 DEF CommitReview, Request, TypeOK, runs, Pending
  <1>8. CASE UNCHANGED <<status, task, keptEdits>>
    BY <1>1, <1>8
  <1> QED
    BY <1>2, <1>3, <1>4, <1>5, <1>6, <1>7, <1>8
    DEF Next, vars, runs, rows, ghosts, Ask, StartJob, StartCli, FinishRead, FinishWrite, Reclaim,
        Overrun, Requeue, AcceptSuggestion, Open, OpenEdit, Look, Flush

\* No run overwrites an approval that was given while no task held the chunk: the
\* guard of translate_one is enough for those, and only for those.
THEOREM ApprovalsStay == Spec => ApprovalsAtRestSurvive
  <1>1. Init => ApprovalsGuarded
    BY DEF Init, ApprovalsGuarded
  <1>2. ApprovalsGuarded =>
          (\A r \in Runner, c \in Chunk :
               Persist(r, c) \/ MarkFailed(r, c) => c \notin signedOff)
    BY DEF ApprovalsGuarded, Persist, MarkFailed
  <1> QED
    BY <1>1, <1>2, InitType, NextType, NextApprovals, PTL DEF Spec, ApprovalsAtRestSurvive

\* No run overwrites an edit that was made while no task held the chunk, unless it is
\* asked for that chunk by its index.
THEOREM EditsStay == Spec => EditsAtRestSurvive
  <1>1. Init => EditsUnselected
    BY DEF Init, EditsUnselected
  <1>2. EditsUnselected =>
          (\A r \in Runner, c \in Chunk :
               Persist(r, c) \/ MarkFailed(r, c) => c \notin keptEdits)
    BY DEF EditsUnselected, Persist, MarkFailed, Held, Holds
  <1> QED
    BY <1>1, <1>2, InitType, NextType, NextEdits, PTL DEF Spec, EditsAtRestSurvive

-----------------------------------------------------------------------------
(* The count of approved chunks *)

\* No request overlaps another one, no _finish overlaps an approval or its withdrawal,
\* and nobody approves a chunk that a task is translating: what the code leaves to chance.
Undisturbed ==
    /\ \A u, w \in Reviewer : request[u] # NoRequest /\ request[w] # NoRequest => u = w
    /\ \A u \in Reviewer, r \in Runner :
           request[u] # NoRequest /\ phase[r] = "finishing" => Edits(u)
    /\ \A r \in Runner, c \in Chunk : task[r][c] = "calling" => status[c] # "approved"

\* The approved chunks once the request has committed.
After(q) == IF q.to = "approved" THEN Approved \union {q.chunk} ELSE Approved \ {q.chunk}

\* completed_chunks is right, and so is what whoever is about to write it has read; and
\* an edit that will write a status does not write over an approval.
Counted ==
    /\ book.completed = Cardinality(Approved)
    /\ \A u \in Reviewer : request[u] # NoRequest =>
           IF request[u].to = "edited"
           THEN request[u].seen \in Pending => request[u].chunk \notin Approved
           ELSE /\ request[u].loaded = book.completed
                /\ request[u].stage = "flushed" =>
                       request[u].count = Cardinality(After(request[u]))
    /\ \A r \in Runner : phase[r] = "finishing" => view[r].completed = Cardinality(Approved)

\* A step that leaves the statuses and the count alone, and begins no counting.
LEMMA CountStands ==
  ASSUME Counted, Approved' = Approved, book'.completed = book.completed,
         \A u \in Reviewer : request'[u] \in {request[u], NoRequest},
         \A r \in Runner : phase'[r] = "finishing" => phase[r] = "finishing" /\ view'[r] = view[r]
  PROVE  Counted'
  <1>1. \A u \in Reviewer : request'[u] = request[u] => After(request[u])' = After(request[u])
    BY DEF After
  <1>2. ASSUME NEW u \in Reviewer, request'[u] # NoRequest
        PROVE  IF request'[u].to = "edited"
               THEN request'[u].seen \in Pending => request'[u].chunk \notin Approved'
               ELSE /\ request'[u].loaded = book'.completed
                    /\ request'[u].stage = "flushed" =>
                           request'[u].count = Cardinality(After(request[u])')
    <2>1. request'[u] = request[u]
      BY <1>2
    <2> QED
      BY <1>1, <1>2, <2>1 DEF Counted
  <1> QED
    BY <1>2 DEF Counted

\* The same when one request goes on: what it holds then is as Counted has it.
LEMMA CountGoesOn ==
  ASSUME Counted, Approved' = Approved, book'.completed = book.completed,
         phase' = phase, view' = view, NEW u \in Reviewer, NEW q,
         \A w \in Reviewer : request'[w] = IF w = u THEN q ELSE request[w],
         q # NoRequest => IF q.to = "edited"
                          THEN q.seen \in Pending => q.chunk \notin Approved
                          ELSE /\ q.loaded = book.completed
                               /\ q.stage = "flushed" => q.count = Cardinality(After(q))
  PROVE  Counted'
  <1>1. ASSUME NEW w \in Reviewer, request'[w] # NoRequest
        PROVE  IF request'[w].to = "edited"
               THEN request'[w].seen \in Pending => request'[w].chunk \notin Approved'
               ELSE /\ request'[w].loaded = book'.completed
                    /\ request'[w].stage = "flushed" =>
                           request'[w].count = Cardinality(After(request[w])')
    <2>1. CASE w = u
      <3>1. request'[u] = q /\ After(request[u])' = After(q)
        BY DEF After
      <3> QED
        BY <1>1, <2>1, <3>1
    <2>2. CASE w # u
      <3>1. request'[w] = request[w] /\ After(request[w])' = After(request[w])
        BY <2>2 DEF After
      <3> QED
        BY <1>1, <3>1 DEF Counted
    <2> QED
      BY <2>1, <2>2
  <1> QED
    BY <1>1 DEF Counted

\* A run that breaks is finishing no more, and no other run notices.
LEMMA EndsRun ==
  ASSUME TypeOK, NEW r \in Runner, Break(r)
  PROVE  /\ phase'[r] \in {"broken", "over"}
         /\ \A q \in Runner \ {r} : phase'[q] = phase[q] /\ view'[q] = view[q]
         /\ \A q \in Runner : phase'[q] = "finishing" => phase[q] = "finishing" /\ view'[q] = view[q]
  <1>1. /\ view' = [view EXCEPT ![r] = NoView]
        /\ \/ phase' = [phase EXCEPT ![r] = "broken"]
           \/ phase' = [phase EXCEPT ![r] = "over"]
    BY DEF Break
  <1>2. phase \in [Runner -> Phase] /\ view \in [Runner -> View \union {NoView}]
    BY DEF TypeOK
  <1>3. phase'[r] \in {"broken", "over"}
    BY <1>1, <1>2
  <1>4. \A q \in Runner \ {r} : phase'[q] = phase[q] /\ view'[q] = view[q]
    BY <1>1, <1>2
  <1> QED
    BY <1>3, <1>4

LEMMA CrashEndsRun ==
  ASSUME TypeOK, NEW r \in Runner, Crash(r)
  PROVE  \A q \in Runner : phase'[q] = "finishing" => phase[q] = "finishing" /\ view'[q] = view[q]
  <1>1. phase'[r] # "finishing"
    BY DEF Crash, Active, TypeOK
  <1>2. \A q \in Runner \ {r} : phase'[q] = phase[q] /\ view'[q] = view[q]
    BY DEF Crash, TypeOK
  <1> QED
    BY <1>1, <1>2

LEMMA NextCounted == TypeOK /\ Counted /\ Undisturbed /\ [Next]_vars => Counted'
  <1> SUFFICES ASSUME TypeOK, Counted, Undisturbed, [Next]_vars
               PROVE  Counted'
    OBVIOUS
  <1> DEFINE Ongoing ==
               \A r \in Runner : phase'[r] = "finishing" => phase[r] = "finishing" /\ view'[r] = view[r]
  <1>0. book \in Book /\ \A u \in Reviewer : request[u] # NoRequest => request[u] \in Request
    BY DEF TypeOK
  <1>1. ASSUME NEW r \in Runner, NEW c \in Chunk, Persist(r, c) \/ MarkFailed(r, c)
        PROVE  Counted'
    <2>1. status[c] # "approved" /\ status'[c] # "approved"
          /\ \A d \in Chunk \ {c} : status'[d] = status[d]
      BY <1>1 DEF Persist, MarkFailed, Undisturbed, TypeOK
    <2>2. Approved' = Approved
      BY <2>1 DEF Approved
    <2> QED
      BY <1>1, <2>2, CountStands DEF Persist, MarkFailed
  <1>2. ASSUME NEW u \in Reviewer, CommitEdit(u) PROVE Counted'
    <2> DEFINE c == request[u].chunk
    <2>1. c \in Chunk /\ (request[u].seen \in Pending => status[c] # "approved")
      BY <1>0, <1>2 DEF CommitEdit, Edits, Counted, Approved, Request
    <2>2. \A d \in Chunk : status'[d] = "approved" <=> status[d] = "approved"
      BY <1>2, <2>1 DEF CommitEdit, TypeOK
    <2>3. Approved' = Approved
      BY <2>2 DEF Approved
    <2>4. \A w \in Reviewer : request'[w] \in {request[w], NoRequest}
      BY <1>2 DEF CommitEdit, TypeOK
    <2> QED
      BY <1>2, <2>3, <2>4, CountStands DEF CommitEdit, runs
  <1>3. ASSUME NEW r \in Runner, FinishRead(r) PROVE Counted'
    <2>1. /\ view'[r].completed = Cardinality(Approved)
          /\ \A q \in Runner \ {r} : view'[q] = view[q] /\ phase'[q] = phase[q]
      BY <1>3 DEF FinishRead, TypeOK
    <2>2. Approved' = Approved /\ book' = book /\ request' = request
      BY <1>3 DEF FinishRead, Approved, rows
    <2>3. \A u \in Reviewer : After(request[u])' = After(request[u])
      BY <2>2 DEF After
    <2> QED
      BY <2>1, <2>2, <2>3 DEF Counted
  <1>4. ASSUME NEW r \in Runner, FinishWrite(r) PROVE Counted'
    <2>1. view[r].completed = book.completed
      BY <1>4 DEF FinishWrite, Counted
    <2>2. book'.completed = book.completed
      BY <1>4, <2>1 DEF FinishWrite
    <2>3. Approved' = Approved /\ request' = request
      BY <1>4 DEF FinishWrite, Approved
    <2>4. Ongoing
      BY <1>4 DEF FinishWrite, TypeOK
    <2> QED
      BY <2>2, <2>3, <2>4, CountStands
  <1>5. ASSUME NEW u \in Reviewer, NEW c \in Chunk,
               OpenEdit(u, c) \/ \E to \in {"approved", "reviewed"} : Open(u, c, to)
        PROVE  Counted'
    <2>1. Approved' = Approved /\ book' = book /\ phase' = phase /\ view' = view
      BY <1>5 DEF Open, OpenEdit, Approved, runs, rows
    <2>2. CASE OpenEdit(u, c)
      <3> DEFINE q == [chunk |-> c, to |-> "edited", stage |-> "looked", loaded |-> 0,
                       seen |-> status[c], count |-> 0]
      <3>1. \A w \in Reviewer : request'[w] = IF w = u THEN q ELSE request[w]
        BY <2>2 DEF OpenEdit, TypeOK
      <3>2. q.to = "edited" /\ (q.seen \in Pending => q.chunk \notin Approved)
        BY DEF Approved, Pending
      <3> HIDE DEF q
      <3> QED
        BY <2>1, <3>1, <3>2, CountGoesOn
    <2>3. ASSUME NEW to \in {"approved", "reviewed"}, Open(u, c, to) PROVE Counted'
      <3> DEFINE q == [chunk |-> c, to |-> to, stage |-> "opened", loaded |-> book.completed,
                       seen |-> "unread", count |-> 0]
      <3>1. \A w \in Reviewer : request'[w] = IF w = u THEN q ELSE request[w]
        BY <2>3 DEF Open, TypeOK
      <3>2. q.to # "edited" /\ q.stage # "flushed" /\ q.loaded = book.completed
        OBVIOUS
      <3> HIDE DEF q
      <3> QED
        BY <2>1, <3>1, <3>2, CountGoesOn
    <2> QED
      BY <1>5, <2>2, <2>3
  <1>6. ASSUME NEW u \in Reviewer, Look(u) PROVE Counted'
    <2>1. Approved' = Approved /\ book' = book /\ phase' = phase /\ view' = view
      BY <1>6 DEF Look, Approved, runs, rows
    <2>2. CASE request'[u] = NoRequest
      <3>1. \A w \in Reviewer : request'[w] \in {request[w], NoRequest}
        BY <1>6, <2>2 DEF Look, TypeOK
      <3> QED
        BY <2>1, <3>1, CountStands
    <2>3. CASE request'[u] # NoRequest
      <3> DEFINE q == [request[u] EXCEPT !.stage = "looked"]
      <3>1. \A w \in Reviewer : request'[w] = IF w = u THEN q ELSE request[w]
        BY <1>6, <2>3 DEF Look, TypeOK
      <3>2. request[u].to # "edited"
        BY <1>6 DEF Look, TypeOK, Edits
      <3>3. q.to = request[u].to /\ q.stage # "flushed" /\ q.loaded = request[u].loaded
        BY <1>0, <1>6 DEF Look, Request
      <3>4. request[u].loaded = book.completed
        BY <1>6, <3>2 DEF Look, Counted
      <3> HIDE DEF q
      <3> QED
        BY <2>1, <3>1, <3>2, <3>3, <3>4, CountGoesOn
    <2> QED
      BY <2>2, <2>3
  <1>7. ASSUME NEW u \in Reviewer, Flush(u) PROVE Counted'
    <2> DEFINE n == Cardinality(IF request[u].to = "approved"
                                THEN Approved \union {request[u].chunk}
                                ELSE Approved \ {request[u].chunk})
               q == [request[u] EXCEPT !.stage = "flushed", !.count = n]
    <2>1. Approved' = Approved /\ book' = book /\ phase' = phase /\ view' = view
      BY <1>7 DEF Flush, Approved, runs, rows
    <2>2. \A w \in Reviewer : request'[w] = IF w = u THEN q ELSE request[w]
      BY <1>7 DEF Flush, TypeOK
    <2>3. n = Cardinality(After(request[u]))
      BY DEF After
    <2>4. q.to = request[u].to /\ q.chunk = request[u].chunk /\ q.loaded = request[u].loaded
          /\ q.count = n
      BY <1>0, <1>7 DEF Flush, Request
    <2>5. q.count = Cardinality(After(q))
      BY <2>3, <2>4 DEF After
    <2>6. request[u].to # "edited" /\ request[u].loaded = book.completed
      BY <1>7 DEF Flush, Counted
    <2> HIDE DEF n, q
    <2> QED
      BY <2>1, <2>2, <2>4, <2>5, <2>6, CountGoesOn
  <1>8. ASSUME NEW u \in Reviewer, CommitReview(u) PROVE Counted'
    <2>1. request[u] # NoRequest /\ request[u] \in Request /\ request[u].to # "edited"
      BY <1>0, <1>8 DEF CommitReview, TypeOK, Edits
    <2>2. \A c \in Chunk : status'[c] = IF c = request[u].chunk THEN request[u].to ELSE status[c]
      BY <1>8 DEF CommitReview, TypeOK
    <2>3. Approved' = After(request[u])
      BY <2>1, <2>2 DEF Approved, After, Request
    <2>4. request[u].loaded = book.completed /\ request[u].count = Cardinality(After(request[u]))
      BY <1>8, <2>1 DEF CommitReview, Counted
    <2>5. book'.completed = request[u].count
      BY <1>0, <1>8, <2>4 DEF CommitReview, Book
    <2>6. \A w \in Reviewer : request'[w] = NoRequest
      BY <1>8, <2>1 DEF CommitReview, Undisturbed, TypeOK
    <2>7. \A r \in Runner : phase'[r] # "finishing"
      BY <1>8, <2>1 DEF CommitReview, Undisturbed, runs, Edits
    <2> QED
      BY <2>3, <2>4, <2>5, <2>6, <2>7 DEF Counted
  <1>9. ASSUME NEW r \in Runner, NEW p, NEW from, NEW n, Begin(r, p, from, n)
        PROVE  Counted'
    <2>1. book'.completed = book.completed
      BY <1>9 DEF Begin, TypeOK, Book
    <2>2. Ongoing
      BY <1>9 DEF Begin, TypeOK
    <2> QED
      BY <1>9, <2>1, <2>2, CountStands DEF Begin, Approved
  <1>10. ASSUME NEW r \in Runner,
                Close(r) \/ Crash(r) \/ LoseOutcome(r) \/ Raise(r) \/ \E c \in Chunk : Abort(r, c)
         PROVE  Counted'
    <2>1. CASE Close(r) \/ Crash(r) \/ LoseOutcome(r)
      <3>1. Ongoing
        BY <2>1, CrashEndsRun DEF Close, LoseOutcome, TypeOK
      <3> QED
        BY <2>1, <3>1, CountStands DEF Close, Crash, LoseOutcome, Approved, rows
    <2>2. CASE Raise(r) \/ \E c \in Chunk : Abort(r, c)
      <3>1. Break(r) /\ UNCHANGED <<rows, request>>
        BY <2>2 DEF Raise, Abort
      <3>2. Ongoing
        BY <3>1, EndsRun
      <3> QED
        BY <3>1, <3>2, CountStands DEF Approved, rows
    <2> QED
      BY <1>10, <2>1, <2>2
  <1>11. CASE UNCHANGED <<status, book, phase, view, request>>
    BY <1>11, CountStands DEF Approved
  <1> QED
    BY <1>1, <1>2, <1>3, <1>4, <1>5, <1>6, <1>7, <1>8, <1>9, <1>10, <1>11
    DEF Next, vars, runs, rows, Ask, StartJob, StartCli, Reclaim, Overrun, Requeue, Read, Report,
        AcceptSuggestion

\* completed_chunks is the number of approved chunks, through runs, crashes and edits,
\* and whenever a request loaded the book, as long as no two requests overlap, no
\* approval overlaps a _finish, and nobody approves a chunk in translation: what breaks
\* CompletedCountsApproved is one of these.
THEOREM CountIsRightUndisturbed == Spec /\ []Undisturbed => []CompletedCountsApproved
  <1>1. Init => Counted
    <2> SUFFICES ASSUME Init PROVE Counted
      OBVIOUS
    <2>1. Approved = {}
      BY DEF Init, Approved
    <2> QED
      BY <2>1, FS_EmptySet DEF Init, Counted
  <1>2. Counted => CompletedCountsApproved
    BY DEF Counted, CompletedCountsApproved
  <1> QED
    BY <1>1, <1>2, InitType, NextType, NextCounted, PTL DEF Spec

-----------------------------------------------------------------------------
(* A book being translated is attended to *)

\* A run that has yet to write what came of the book: it works, or its _finish has
\* found the book "translating" and so will write any verdict.
Attends(r) ==
    \/ phase[r] = "running"
    \/ phase[r] = "finishing" /\ view[r].loaded.status = "translating"

\* A job that a worker will begin: it is queued, or will be when it is reclaimed.
Left(j) == jobs[j].status \in {"queued", "running"} /\ Runs(j) = {}

\* A book that is "translating" has a run that will write what came of it, or a job to
\* begin one, or is left behind by one of the broken runs that nobody makes good.
Attended ==
    book.status = "translating" =>
        \/ \E r \in Runner : Attends(r) \/ phase[r] = "broken"
        \/ \E j \in Jobs : Left(j)

\* No verdict is "translating".
VerdictsSettle == \A r \in Runner : phase[r] = "finishing" => view[r].verdict # "translating"

LEMMA NextVerdicts == TypeOK /\ VerdictsSettle /\ [Next]_vars => VerdictsSettle'
  <1> SUFFICES ASSUME TypeOK, VerdictsSettle, [Next]_vars,
                      NEW q \in Runner, phase'[q] = "finishing"
               PROVE  view'[q].verdict # "translating"
    BY DEF VerdictsSettle
  <1>1. ASSUME NEW r \in Runner, FinishRead(r) PROVE view'[q].verdict # "translating"
    BY <1>1 DEF FinishRead, TypeOK, VerdictsSettle, Verdict
  <1>2. CASE phase[q] = "finishing" /\ view'[q] = view[q]
    BY <1>2 DEF VerdictsSettle
  <1>3. ASSUME NEW r \in Runner, NEW p, NEW from, NEW n, Begin(r, p, from, n)
        PROVE  phase[q] = "finishing" /\ view'[q] = view[q]
    BY <1>3 DEF Begin, TypeOK
  <1>4. ASSUME NEW r \in Runner,
               \/ FinishWrite(r) \/ Close(r) \/ Crash(r) \/ LoseOutcome(r) \/ Raise(r)
               \/ \E c \in Chunk : Abort(r, c)
        PROVE  phase[q] = "finishing" /\ view'[q] = view[q]
    <2>1. CASE FinishWrite(r) \/ Close(r) \/ Crash(r) \/ LoseOutcome(r)
      BY <2>1, CrashEndsRun DEF FinishWrite, Close, LoseOutcome, TypeOK
    <2>2. CASE Raise(r) \/ \E c \in Chunk : Abort(r, c)
      <3>1. Break(r)
        BY <2>2 DEF Raise, Abort
      <3> QED
        BY <3>1, EndsRun
    <2> QED
      BY <1>4, <2>1, <2>2
  <1>5. CASE UNCHANGED <<phase, view>>
    BY <1>2, <1>5
  <1> QED
    BY <1>1, <1>2, <1>3, <1>4, <1>5
    DEF Next, vars, runs, Ask, StartJob, StartCli, Reclaim, Overrun, Requeue, Read, Persist,
        MarkFailed, Report, AcceptSuggestion, Open, OpenEdit, Look, Flush, CommitReview, CommitEdit

\* A step that begins no run and ends none, and leaves every job that is left left.
LEMMA AttendedStands ==
  ASSUME Attended, UNCHANGED <<phase, view, origin>>,
         book'.status = "translating" => book.status = "translating",
         \A j \in Jobs : jobs[j].status \in {"queued", "running"} =>
                             jobs'[j].status \in {"queued", "running"}
  PROVE  Attended'
  <1>1. \A r \in Runner : Attends(r)' <=> Attends(r)
    BY DEF Attends
  <1>2. \A j \in Jobs : Left(j) => Left(j)'
    BY DEF Left, Runs, Active
  <1> QED
    BY <1>1, <1>2 DEF Attended

\* A step of one run: it may end, and writes no job but its own.
LEMMA AttendedByOthers ==
  ASSUME TypeOK, Attended, NEW r \in Runner, origin' = origin,
         \A q \in Runner \ {r} : phase'[q] = phase[q] /\ view'[q] = view[q],
         Active(r)' => Active(r),
         phase[r] = "broken" => phase'[r] = "broken",
         book'.status = "translating" => book.status = "translating",
         \A j \in Jobs : jobs'[j].status # jobs[j].status => r \in Runs(j),
         book'.status = "translating" /\ Attends(r) =>
             \/ Attends(r)' \/ phase'[r] = "broken" \/ \E j \in Jobs : Left(j)'
  PROVE  Attended'
  <1>1. \A q \in Runner \ {r} : (Attends(q)' <=> Attends(q)) /\ (Active(q)' <=> Active(q))
    BY DEF Attends, Active
  <1>2. \A j \in Jobs : Left(j) => Left(j)'
    BY <1>1 DEF Left, Runs
  <1> QED
    BY <1>1, <1>2 DEF Attended

LEMMA NextAttended ==
  TypeOK /\ VerdictsSettle /\ Attended /\ [Next]_vars => Attended'
  <1> SUFFICES ASSUME TypeOK, VerdictsSettle, Attended, [Next]_vars
               PROVE  Attended'
    OBVIOUS
  <1>1. ASSUME NEW j \in Jobs, NEW p, NEW m, Ask(j, p, m) PROVE Attended'
    BY <1>1, AttendedStands DEF Ask, runs, caller, rows, TypeOK
  <1>2. ASSUME NEW r \in Runner, NEW p, NEW from, NEW n, Begin(r, p, from, n)
        PROVE  Attended'
    BY <1>2 DEF Begin, TypeOK, Attended, Attends
  <1>3. ASSUME NEW r \in Runner, FinishRead(r) PROVE Attended'
    <2>1. /\ phase[r] = "running" /\ phase'[r] = "finishing"
          /\ view'[r].loaded = book
          /\ \A q \in Runner \ {r} : phase'[q] = phase[q] /\ view'[q] = view[q]
          /\ UNCHANGED <<book, jobs, origin>>
      BY <1>3 DEF FinishRead, TypeOK, rows, caller
    <2> QED
      BY <2>1, AttendedByOthers DEF Attends, Active
  <1>4. ASSUME NEW r \in Runner, FinishWrite(r) PROVE Attended'
    <2>1. /\ phase[r] = "finishing" /\ phase'[r] = "closing"
          /\ \A q \in Runner \ {r} : phase'[q] = phase[q] /\ view'[q] = view[q]
          /\ UNCHANGED <<jobs, origin>>
      BY <1>4 DEF FinishWrite, TypeOK, caller
    <2>2. book'.status = IF view[r].verdict = view[r].loaded.status THEN book.status
                                                                   ELSE view[r].verdict
      BY <1>4 DEF FinishWrite
    <2>3. view[r].verdict # "translating"
      BY <2>1 DEF VerdictsSettle
    <2>4. book'.status = "translating" => book.status = "translating" /\ ~Attends(r)
      BY <2>1, <2>2, <2>3 DEF Attends
    <2> QED
      BY <2>1, <2>4, AttendedByOthers DEF Active
  <1>5. ASSUME NEW r \in Runner, Close(r) \/ LoseOutcome(r) PROVE Attended'
    <2>1. /\ phase[r] = "closing" /\ phase'[r] = "over"
          /\ \A q \in Runner \ {r} : phase'[q] = phase[q]
          /\ UNCHANGED <<book, origin, view>>
      BY <1>5 DEF Close, LoseOutcome, TypeOK, rows, caller
    <2>2. \A j \in Jobs : jobs'[j].status # jobs[j].status => origin[r] = j
      BY <1>5 DEF Close, LoseOutcome, Record, TypeOK, Row
    <2> QED
      BY <2>1, <2>2, AttendedByOthers DEF Attends, Active, Runs
  <1>6. ASSUME NEW r \in Runner, Raise(r) \/ \E c \in Chunk : Abort(r, c) PROVE Attended'
    <2>1. Active(r) /\ Break(r) /\ UNCHANGED <<book, origin>>
      BY <1>6 DEF Raise, Abort, Active, rows, caller
    <2>2. /\ phase'[r] \in {"broken", "over"}
          /\ \A q \in Runner \ {r} : phase'[q] = phase[q] /\ view'[q] = view[q]
      BY <2>1, EndsRun
    <2>3. \A j \in Jobs : jobs'[j].status # jobs[j].status => origin[r] = j
      BY <2>1 DEF Break, Record, TypeOK, Row
    <2>4. ASSUME phase'[r] # "broken" PROVE \E j \in Jobs : Left(j)'
      <3>1. origin[r] \in Jobs /\ Alone(r) /\ Record(r, "queued")
        BY <2>1, <2>4 DEF Break, TypeOK
      <3>2. jobs'[origin[r]].status = "queued"
        BY <2>1, <3>1 DEF Record, TypeOK, Row, Jobs, Cli
      <3>3. Runs(origin[r])' = {}
        BY <2>1, <2>2, <3>1 DEF Alone, Runs, Active
      <3> QED
        BY <2>1, <3>1, <3>2, <3>3 DEF Left
    <2> QED
      BY <2>1, <2>2, <2>3, <2>4, AttendedByOthers DEF Active, Runs
  <1>7. ASSUME NEW r \in Runner, Crash(r) PROVE Attended'
    <2>1. /\ UNCHANGED <<book, origin, jobs>>
          /\ \A q \in Runner \ {r} : phase'[q] = phase[q] /\ view'[q] = view[q]
          /\ Active(r) => phase'[r] \in {"broken", "over"}
          /\ ~Active(r) => phase'[r] = phase[r]
      BY <1>7 DEF Crash, TypeOK, rows, caller
    <2>2. ASSUME Active(r), phase'[r] # "broken" PROVE \E j \in Jobs : Left(j)'
      <3>1. /\ origin[r] \in Jobs /\ Alone(r)
            /\ jobs[origin[r]].status \in {"queued", "running"}
        BY <1>7, <2>2 DEF Crash, TypeOK
      <3>2. Runs(origin[r])' = {}
        BY <2>1, <2>2, <3>1 DEF Alone, Runs, Active
      <3> QED
        BY <2>1, <3>1, <3>2 DEF Left
    <2> QED
      BY <2>1, <2>2, AttendedByOthers DEF Active, Attends
  <1>8. ASSUME NEW j \in Jobs, Requeue(j) PROVE Attended'
    BY <1>8, AttendedStands DEF Requeue, runs, caller, rows, TypeOK, Row
  <1>9. ASSUME NEW u \in Reviewer, CommitReview(u) PROVE Attended'
    <2>1. book'.status = book.status
      BY <1>9 DEF CommitReview, TypeOK, Book
    <2> QED
      BY <1>9, <2>1, AttendedStands DEF CommitReview, runs, caller
  <1>10. CASE UNCHANGED <<book, jobs, phase, origin, view>>
    BY <1>10, AttendedStands
  <1> QED
    BY <1>1, <1>2, <1>3, <1>4, <1>5, <1>6, <1>7, <1>8, <1>9, <1>10
    DEF Next, vars, runs, rows, caller, StartJob, StartCli, Reclaim, Overrun, Read, Persist,
        MarkFailed, Report, AcceptSuggestion, Open, OpenEdit, Look, Flush, CommitEdit

\* A book is "translating" only while a run is under way that will still write its
\* verdict, or a job is left to begin one, or a run broke that nobody repeats: neither
\* a crash, a repeated or a reclaimed job, nor a verdict read before another run began
\* leaves a book "translating" otherwise.
THEOREM BookIsAttended == Spec => []Attended
  <1>1. Init => VerdictsSettle /\ Attended
    BY DEF Init, VerdictsSettle, Attended
  <1> QED
    BY <1>1, InitType, NextType, NextVerdicts, NextAttended, PTL DEF Spec
=============================================================================
