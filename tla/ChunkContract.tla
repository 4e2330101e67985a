--------------------------- MODULE ChunkContract ---------------------------
(***************************************************************************)
(* What the translation of one chunk promises to whoever reads the chunk   *)
(* row, with the graph, its checkpoints, its retries and its crashes left  *)
(* out: the row is extracted, fails or is given a text, and a text is only *)
(* ever one that is worth showing to a reviewer.                           *)
(***************************************************************************)
EXTENDS Integers

CONSTANTS
    Source,        \* source texts a chunk can have
    Passthrough,   \* those of a content type that is copied, not translated
    MaxRetries,    \* cfg.max_translation_retries
    NoText         \* translated_text IS NULL

VARIABLE row

Score == {"low", "high"}

\* A translation as it is persisted: which source it renders, the attempt that
\* wrote the draft, the attempt whose draft the verdict is about, the score.
Text == [source : Source, draft : 0 .. MaxRetries + 1, judged : 0 .. MaxRetries + 1,
         score : Score]

\* The text renders this source, the verdict is about this very draft, and a draft
\* that scored below the threshold is kept only after the last retry.
Worthy(text, source) ==
    /\ text.source = source
    /\ text.judged = text.draft
    /\ IF source \in Passthrough
       THEN text.draft = 0 /\ text.score = "high"
       ELSE /\ text.draft \in 1 .. MaxRetries + 1
            /\ text.score = "low" => text.draft = MaxRetries + 1

Fresh(source) == [source |-> source, status |-> "extracted", text |-> NoText]

Init == \E s \in Source : row = Fresh(s)

Extract == \E s \in Source : row' = Fresh(s)

Accept ==
    \E text \in Text :
        /\ Worthy(text, row.source)
        /\ row' = [row EXCEPT !.status = "terminology_reviewed", !.text = text]

\* A failed re-translation leaves the earlier text in place.
GiveUp == row' = [row EXCEPT !.status = "failed"]

Next == Extract \/ Accept \/ GiveUp

Spec == Init /\ [][Next]_row
=============================================================================
