-------------------------------- MODULE Desk --------------------------------
(***************************************************************************)
(* The review desk: one chunk of a book (Suggestions) on the screen of a   *)
(* reviewer who follows the book's jobs (Progress).  A job persists texts  *)
(* with their verdicts, the chunks query carries the newest of them to the *)
(* screen, and a decision on the screen names a suggestion by its position *)
(* only: the server looks up the verdict it belongs to.                    *)
(***************************************************************************)
EXTENDS Suggestions, Progress

ASSUME DecidersAssumption == Deciders \subseteq Nat

VARIABLES
    focus,      \* BOUND: what a behaviour is about
    coming,     \* the verdict in the answer of the chunks query
    shown       \* the verdict on the screen, 0 for none

allVars == <<deskVars, progressVars, focus, coming, shown>>
sight == <<coming, shown>>

(* "screen": jobs and the stream, nobody decides.  In the others a long job*)
(* runs; "sight": a browser that has no EventSource polls the chunks, and  *)
(* its reviewer decides and edits; "text": other reviewers do, at once.    *)
DeskInit ==
    /\ SuggestionsInit
    /\ coming = 0 /\ shown = 0
    /\ \/ focus = "screen" /\ ProgressInit
       \/ /\ focus \in {"sight", "text"}
          /\ job = 1 /\ jobs = 1 /\ rows = 0 /\ due = 0 /\ strays = FALSE
          /\ stream = NoStream
          /\ page = [job |-> 1, rows |-> 0, live |-> FALSE, loaded |-> TRUE]
          /\ fetching = [q \in Query |-> Nothing]
          /\ breaks = 0 /\ missed = FALSE

(* A chunk of the job is done: its row, and what the counts will show.     *)
ChunkDone(attempt) ==
    /\ focus # "sight" => attempt = CHOOSE a \in Attempts : TRUE
    /\ RowWritten /\ Persist(attempt)
    /\ UNCHANGED <<focus, sight>>

OnScreen == focus = "screen" /\ UNCHANGED <<deskVars, focus, sight>>

(* MUTANT: the screen is sent the first verdict, the server looks for the  *)
(* newest.                                                                 *)
FirstSent == IF verdicts = <<>> THEN 0 ELSE 1

(* What serialize_chunk says of the verdict.                               *)
Sent == IF verdicts = <<>> THEN 0 ELSE LatestVerification

AnswerChunks ==
    /\ Answer("chunks")
    /\ coming' = Sent
    /\ UNCHANGED <<deskVars, focus, shown>>

Look ==
    /\ ShowChunks
    /\ shown' = coming
    /\ UNCHANGED <<deskVars, focus, coming>>

Deciding == {d \in Deciders : deciding[d].at # "idle"}

(* BOUND: deciders are interchangeable, the first one that is idle decides;*)
(* several decide on suggestions with a span only, and on no text that they*)
(* have overlapped on already.                                             *)
Decides(d) ==
    /\ \A e \in Deciders \ Deciding : d <= e
    /\ \E s \in Suggested, mark \in {"accepted", "rejected"} :
           /\ focus = "text" => s \notin Spanless /\ text.base \notin crossed
           /\ DecideSuggestion(d, s, mark)

Writes == EditTranslation \/ \E d \in Deciders : CommitSuggestion(d)

(* What is done on this page makes it fetch again.                         *)
InvalidateChunk == fetching' = [fetching EXCEPT !["chunks"] = Asked]

DoneHere ==
    /\ focus = "sight"
    /\ \/ Writes /\ InvalidateChunk
       \/ /\ shown # 0 /\ Deciding = {}
          /\ \E d \in Deciders : Decides(d)
          /\ fetching' = fetching
    /\ UNCHANGED <<server, stream, page, breaks, missed, focus, sight>>

DoneElsewhere ==
    /\ focus = "text"
    /\ Writes \/ \E d \in Deciders : Decides(d)
    /\ UNCHANGED <<progressVars, focus, sight>>

PollChunks ==
    /\ focus # "text"
    /\ Poll("chunks")
    /\ UNCHANGED <<deskVars, focus, sight>>

ScreenStep ==
    /\ \/ StreamStep \/ Listen \/ ShowBook \/ Break \/ Reconnect \/ JobEnds
       \/ Poll("book") \/ Answer("book")
       \/ \E here \in BOOLEAN : Enqueue(here)
    /\ OnScreen

DeskNext ==
    \/ \E a \in Attempts : ChunkDone(a)
    \/ PollChunks \/ AnswerChunks \/ Look
    \/ DoneHere \/ DoneElsewhere \/ ScreenStep

(* The server ticks and answers, the browser runs its handlers and timers  *)
(* and connects again; jobs end (EveryJobSettles of JobQueue).             *)
DeskFairness ==
    /\ WF_allVars(StreamStep /\ OnScreen) /\ WF_allVars(Listen /\ OnScreen)
    /\ WF_allVars(ShowBook /\ OnScreen) /\ WF_allVars(Reconnect /\ OnScreen)
    /\ WF_allVars(Poll("book") /\ OnScreen) /\ WF_allVars(Answer("book") /\ OnScreen)
    /\ WF_allVars(JobEnds /\ OnScreen)
    /\ WF_allVars(PollChunks) /\ WF_allVars(AnswerChunks) /\ WF_allVars(Look)

DeskSpec == DeskInit /\ [][DeskNext]_allVars /\ DeskFairness

(* A decision falls on the verdict the reviewer sees, once the screen has  *)
(* caught up with the rows: the request carries a position only, so the    *)
(* server's choice among the verdicts (decide_suggestion) must be the one  *)
(* the screen was sent (serialize_chunk), whatever was decided since.      *)
DecidesWhatIsShown ==
    page.rows = rows /\ shown # 0 => shown = LatestVerification
=============================================================================
