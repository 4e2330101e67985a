----------------------------- MODULE ChunkGraph -----------------------------
(***************************************************************************)
(* The per-chunk workflow (backend/app/agents/chunk_graph.py) with its     *)
(* checkpoint thread (agents/checkpoint.py), run and persisted by          *)
(* translate_one (services/translation.py).                                *)
(*                                                                         *)
(*   prepare -> translate -> verify -+-> terminology -> end                *)
(*                  ^                |                                     *)
(*                  +---- retry <----+                                     *)
(*                                                                         *)
(* One chunk, one run of it at a time.  A run can crash at any point, a    *)
(* node can raise, the next run may or may not have a checkpointer, the    *)
(* book can be re-extracted and its glossary can change between any two    *)
(* steps.  LangGraph writes the checkpoint of a finished node while the    *)
(* next node runs, so what is saved can lag behind what was done; a run    *)
(* that ends waits for its writes.                                         *)
(***************************************************************************)
EXTENDS Integers

CONSTANTS
    Source,          \* source texts a chunk can have
    Passthrough,     \* those of a content type that is copied, not translated
    MaxRetries,      \* cfg.max_translation_retries
    NoText,          \* translated_text IS NULL
    None,            \* no checkpoint, no run
    GlossaryBound    \* bound: how often the glossary changes

ASSUME PassthroughAssumption == Passthrough \subseteq Source
ASSUME MaxRetriesAssumption == MaxRetries \in Nat
ASSUME GlossaryAssumption == GlossaryBound \in Nat

VARIABLES
    row,        \* the chunk row: source text, status, translated text
    glossary,   \* version of the book's glossary
    saved,      \* the latest checkpoint of the chunk's thread
    at,         \* where the run is: a node, or a step of translate_one
    input,      \* what translate_one read: source text and glossary
    gone,       \* the row that translate_one read has been deleted since
    saver,      \* this run has a checkpointer
    state       \* the graph state in memory, while the graph runs and until Persist

run == <<at, input, gone, saver, state>>
vars == <<row, glossary, saved, run>>

Node == {"prepare", "translate", "verify", "retry", "terminology"}
Score == {"low", "high", "none"}

Input == [source : Source, glossary : 0 .. GlossaryBound]

\* draft is the attempt that wrote the translation (0: none, or the source copied),
\* judged the attempt whose draft the verdict is about, score "none" before it.
GraphState == [source : Source, glossary : 0 .. GlossaryBound, next : Node \union {"end"},
               attempts : 0 .. MaxRetries + 1, draft : 0 .. MaxRetries + 1,
               judged : 0 .. MaxRetries + 1, score : Score]

ASSUME SentinelAssumption == None \notin GraphState /\ None \notin Input

\* No attempt made yet.
Blank(source, terms, node) ==
    [source |-> source, glossary |-> terms, next |-> node,
     attempts |-> 0, draft |-> 0, judged |-> 0, score |-> "none"]

Copies(s) == s.source \in Passthrough

Init ==
    /\ \E s \in Source : row = [source |-> s, status |-> "extracted", text |-> NoText]
    /\ glossary = 0
    /\ saved = None
    /\ at = "idle" /\ input = None /\ state = None
    /\ gone = FALSE /\ saver = FALSE

-----------------------------------------------------------------------------
(* translate_one up to the graph *)

\* translate_one returns or dies: nothing of the run is left in memory.
EndRun ==
    /\ at' = "idle" /\ input' = None /\ state' = None
    /\ gone' = FALSE /\ saver' = FALSE

\* The first transaction.  The job opens its checkpointer, or goes without one
\* when it is unavailable.
Begin ==
    /\ at = "idle"
    /\ at' = "lookup"
    /\ input' = [source |-> row.source, glossary |-> glossary]
    /\ gone' = FALSE
    /\ saver' \in BOOLEAN
    /\ UNCHANGED <<row, glossary, saved, state>>

AnySource == saver /\ saved # None
SameSource == saver /\ saved # None /\ saved.source = input.source

Unfinished == SameSource /\ saved.next # "end"
FinishedBefore == SameSource /\ saved.next = "end" /\ saved.score # "none"

\* run_chunk finds an unfinished thread for this text: ainvoke(None) goes on at the
\* node that did not end, on the saved state.
Restarted ==
    /\ at = "lookup" /\ Unfinished
    /\ state' = [saved EXCEPT !.next = "prepare"]
    /\ at' = "prepare"
    /\ UNCHANGED <<row, glossary, saved, input, gone, saver>>

Resume ==
    /\ at = "lookup" /\ Unfinished
    /\ state' = saved
    /\ at' = saved.next
    /\ UNCHANGED <<row, glossary, saved, input, gone, saver>>

\* run_chunk finds a finished thread for this text and returns its values.
Reuse ==
    /\ at = "lookup" /\ FinishedBefore
    /\ state' = saved
    /\ at' = "persist"
    /\ UNCHANGED <<row, glossary, saved, input, gone, saver>>

\* MUTANT: the inputs do not overwrite the glossary the thread holds.
StartOnOldGlossary ==
    /\ at = "lookup" /\ ~Unfinished /\ ~FinishedBefore
    /\ state' = IF saver /\ saved # None
                THEN [saved EXCEPT !.source = input.source, !.next = "prepare"]
                ELSE Blank(input.source, input.glossary, "prepare")
    /\ at' = "prepare"
    /\ UNCHANGED <<row, glossary, saved, input, gone, saver>>

\* Otherwise the graph starts with the inputs written over whatever channels the
\* thread still holds.
Start ==
    /\ at = "lookup" /\ ~Unfinished /\ ~FinishedBefore
    /\ state' = IF saver /\ saved # None
                THEN [saved EXCEPT !.source = input.source, !.glossary = input.glossary,
                                   !.next = "prepare"]
                ELSE Blank(input.source, input.glossary, "prepare")
    /\ at' = "prepare"
    /\ UNCHANGED <<row, glossary, saved, input, gone, saver>>

-----------------------------------------------------------------------------
(* The nodes *)

\* The node ends with state s, and the graph moves to s.next.
Leave(node, s) ==
    /\ at = node
    /\ state' = s
    /\ at' = s.next
    /\ UNCHANGED <<row, glossary, saved, input, gone, saver>>

Prepared(s) == Blank(s.source, s.glossary, "translate")

TranslatedUncounted(s) == [s EXCEPT !.next = "verify", !.draft = 1]

Translated(s) ==
    IF Copies(s) THEN [s EXCEPT !.next = "verify"]
    ELSE [s EXCEPT !.next = "verify", !.attempts = @ + 1, !.draft = s.attempts + 1]

\* route_after_verify
WantsOneMoreRetry(s) == s.score = "low" /\ s.attempts <= MaxRetries + 1
WantsRetry(s) == s.score = "low" /\ s.attempts <= MaxRetries

Verified(s, score) ==
    LET v == [s EXCEPT !.judged = s.draft, !.score = score] IN
    [v EXCEPT !.next = IF WantsRetry(v) THEN "retry" ELSE "terminology"]

Prepare == Leave("prepare", Prepared(state))
Translate == Leave("translate", Translated(state))
Verify ==
    /\ at = "verify"
    /\ \E score \in (IF Copies(state) THEN {"high"} ELSE {"low", "high"}) :
        Leave("verify", Verified(state, score))
Retry == Leave("retry", [state EXCEPT !.next = "translate"])

\* The last node, whose own LLM failures are swallowed.  The run ends and waits
\* for its checkpoints.
Terminology ==
    LET s == [state EXCEPT !.next = "end"] IN
    /\ at = "terminology"
    /\ state' = s
    /\ at' = "persist"
    /\ saved' = IF saver THEN s ELSE saved
    /\ UNCHANGED <<row, glossary, input, gone, saver>>

\* A checkpoint write lands while the graph runs.
Save ==
    /\ at \in Node /\ saver
    /\ saved' = state
    /\ UNCHANGED <<row, glossary, run>>

\* The call of a node, the look-up or a checkpoint write raises.
Raise ==
    /\ at \in Node \union {"lookup"}
    /\ at' = "mark"
    /\ saved' \in (IF at \in Node /\ saver THEN {saved, state} ELSE {saved})
    /\ state' = None
    /\ UNCHANGED <<row, glossary, input, gone, saver>>

-----------------------------------------------------------------------------
(* translate_one after the graph *)

\* The exception branch: the chunk is failed, if the row is still there.
MarkFailed ==
    /\ at = "mark"
    /\ row' = IF gone THEN row ELSE [row EXCEPT !.status = "failed"]
    /\ EndRun
    /\ UNCHANGED <<glossary, saved>>

\* What the row takes over from the graph state.
Outcome == [source |-> state.source, draft |-> state.draft,
            judged |-> state.judged, score |-> state.score]

\* The second transaction: the row gets the text, its score and its status, if it
\* is still there.
Persist ==
    /\ at = "persist"
    /\ IF gone
       THEN EndRun /\ row' = row
       ELSE /\ row' = [row EXCEPT !.status = "terminology_reviewed", !.text = Outcome]
            /\ at' = "forget" /\ state' = None
            /\ UNCHANGED <<input, gone, saver>>
    /\ UNCHANGED <<glossary, saved>>

\* forget_chunk: nothing without a checkpointer, and best effort with one.
Forget ==
    /\ at = "forget"
    /\ saved' \in (IF saver THEN {None, saved} ELSE {saved})
    /\ EndRun
    /\ UNCHANGED <<row, glossary>>

-----------------------------------------------------------------------------
(* The surroundings *)

\* The worker dies, or an exception leaves translate_one (a commit fails).
Crash ==
    /\ at # "idle"
    /\ EndRun
    /\ UNCHANGED <<row, glossary, saved>>

\* run_extraction deletes the book's chunks and inserts new ones: the same index
\* and thread, another row.
Reextract ==
    /\ \E s \in Source : row' = [source |-> s, status |-> "extracted", text |-> NoText]
    /\ gone' = (at # "idle")
    /\ UNCHANGED <<glossary, saved, at, input, saver, state>>

GlossaryChanges ==
    /\ glossary < GlossaryBound
    /\ glossary' = glossary + 1
    /\ UNCHANGED <<row, saved, run>>

Graph == Prepare \/ Translate \/ Verify \/ Retry \/ Terminology

Next ==
    \/ Begin \/ Resume \/ Reuse \/ Start
    \/ Prepare \/ Translate \/ Verify \/ Retry \/ Terminology \/ Save \/ Raise
    \/ MarkFailed \/ Persist \/ Forget
    \/ Crash \/ Reextract \/ GlossaryChanges

Spec == Init /\ [][Next]_vars

\* The run waits for a model, at node n.
InCall(n) == at = n /\ ~Copies(state)
Calls == {"translate", "verify", "terminology"}

\* A run goes on where it does not wait for a model: every other await returns.
FairSpec ==
    /\ Spec
    /\ WF_vars(/\ \A n \in Calls : ~InCall(n)
               /\ Resume \/ Reuse \/ Start \/ Graph \/ MarkFailed \/ Persist \/ Forget)

-----------------------------------------------------------------------------
(* Properties *)

Contract == INSTANCE ChunkContract
            WITH Source <- Source, Passthrough <- Passthrough, MaxRetries <- MaxRetries,
                 NoText <- NoText, row <- row

Row == [source : Source, status : {"extracted", "terminology_reviewed", "failed"},
        text : Contract!Text \union {NoText}]

\* Every variable has its type; in particular no run makes more than MaxRetries + 1
\* attempts, and the node to run is the one the state says is next.
TypeOK ==
    /\ row \in Row
    /\ glossary \in 0 .. GlossaryBound
    /\ saved \in GraphState \union {None}
    /\ at \in Node \union {"idle", "lookup", "persist", "forget", "mark"}
    /\ input \in Input \union {None}
    /\ at = "idle" <=> input = None
    /\ gone \in BOOLEAN /\ saver \in BOOLEAN
    /\ state \in GraphState \union {None}
    /\ at \in Node => state.next = at
    /\ at \in Node \union {"persist"} <=> state # None

\* The chunk row sees only what ChunkContract allows: whatever crashes, resumes,
\* leftover checkpoints and re-extractions happen underneath, a persisted text
\* renders the row's own source, carries the verdict on that very draft, and is
\* below the threshold only if every retry was used.
ImplementsContract == Contract!Spec

\* "Finished nodes are not repeated" (test_kill_resume.py:6): no run calls
\* translate for an attempt whose draft a checkpoint of this text already holds.
\* A checkpoint that has yet to pass prepare may still carry the counters of an
\* earlier text.
PaidWorkNotRepeated ==
    [][Translate /\ ~Copies(state) /\ SameSource /\ saved.next # "prepare"
       => saved.attempts <= state.attempts]_vars

\* Every run of the chunk ends, however often verification scores it low, provided no
\* call lasts for ever.  Timeouts see to that, which the clients of all backends have
\* but Ollama's; a chunk that is copied makes no call and ends without this.
RunsEnd ==
    /\ (\A n \in Calls : []<>~InCall(n)) => (at # "idle" ~> at = "idle")
    /\ (at # "idle" /\ input.source \in Passthrough) ~> at = "idle"

\* "Once recorded, it is injected into every subsequent translation prompt"
\* (models/glossary_term.py:26-28): the only prompts without a term that was recorded
\* before their run began are those of a run that goes on from a checkpoint of this
\* very text; no left-over of another text or of a finished run brings an old glossary.
PromptsHoldTheGlossary ==
    [][Translate /\ ~Copies(state) /\ state.glossary < input.glossary
       => SameSource /\ saved.glossary = state.glossary]_vars
=============================================================================
