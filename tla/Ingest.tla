------------------------------- MODULE Ingest -------------------------------
(***************************************************************************)
(* From the upload to the extracted pages: Uploads, Extractor and Provider *)
(* together.  A worker extracts the books of the shelf, the API and the    *)
(* command line upload and delete them meanwhile, and other tasks of the   *)
(* worker's siblings call the same LLM layer.  A book's deletion takes its *)
(* ledger rows with it, and a row of a deleted book cannot be written.     *)
(***************************************************************************)
EXTENDS Uploads, Extractor

VARIABLE focus  \* BOUND: what a behaviour is about

ingestVars == <<uploadVars, llmVars, ex, focus>>

ASSUME SameBooks == BookIds = Books
ASSUME NamesAssumption == Names # {}

(* "files": an empty shelf, uploads and deletions, and a provider that     *)
(* asks no model.  "pages", "calls": one book with its file is on the shelf*)
(* and may be deleted while it is extracted, or while tasks make calls.    *)
Shelved ==
    LET mine == CHOOSE b \in Books : TRUE
        name == CHOOSE n \in Names : TRUE
    IN /\ files = [n \in Names |-> IF n = name THEN "whole" ELSE "absent"]
       /\ up = [b \in Books |-> [at |-> IF b = mine THEN "book" ELSE "gone", name |-> name]]
       /\ del = [b \in Books |-> [at |-> IF b = mine THEN "no" ELSE "unlinked", others |-> TRUE]]
       /\ raced = {} /\ left = {} /\ crossed = FALSE

IngestInit ==
    /\ ProviderInit /\ ExtractorInit
    /\ \/ focus = "files" /\ Backend = "fake" /\ UploadsInit
       \/ focus \in {"pages", "calls"} /\ Shelved

Tasks == Callers \ {Ocr}

(* The extraction job of a book: what PyMuPDF makes of a torn file is its  *)
(* own affair, without the file it raises.  BOUND: one run in "files".     *)
Extract(b) ==
    /\ focus = "pages" \/ (focus = "files" /\ ex.runs = 0)
    /\ b \in Rows
    /\ \/ files[Path(b)] # "absent" /\ OpenDocument(b)
       \/ files[Path(b)] # "whole" /\ OpenFails(b)
    /\ UNCHANGED <<uploadVars, llmVars, focus>>

DeletesRow(b) == up[b].at = "book" /\ up'[b].at = "gone"

Shelf(b) ==
    /\ UploadStep(b)
    /\ focus = "files" \/ del'[b].at # "cut"
    /\ IF DeletesRow(b) THEN ForgetBook(b) ELSE UNCHANGED llmVars
    /\ UNCHANGED <<ex, focus>>

LlmStep(c) ==
    /\ \/ Request(c) \/ RecordFails(c) \/ Unreadable(c)
       \/ call[c].book \in Rows /\ Record(c)
    /\ UNCHANGED <<uploadVars, ex, focus>>

TaskCalls(c) ==
    /\ focus = "calls"
    /\ \/ /\ call[c].calls < MaxCalls
          /\ \E kind \in {"text", "structured"}, b \in Rows : Begin(c, kind, b)
       \/ Die(c)
    /\ UNCHANGED <<uploadVars, ex, focus>>

Worker ==
    /\ ExtractorStep \/ Abort
    /\ UNCHANGED <<uploadVars, focus>>

IngestNext ==
    \/ \E b \in Books : Shelf(b) \/ Extract(b)
    \/ \E c \in Callers : LlmStep(c)
    \/ \E c \in Tasks : TaskCalls(c)
    \/ Worker

(* A running worker goes on; requests come back or time out, but Ollama's. *)
IngestFairness ==
    /\ \A c \in Callers :
           /\ WF_ingestVars(LlmStep(c) /\ Pending(c) /\ call[c].at = "heard")
           /\ WF_ingestVars(LlmStep(c) /\ Backend # "ollama" /\ call[c].at = "asking")
    /\ WF_ingestVars(ExtractorStep /\ UNCHANGED <<uploadVars, focus>>)

IngestSpec == IngestInit /\ [][IngestNext]_ingestVars /\ IngestFairness

(***************************************************************************)
(* Properties                                                              *)
(***************************************************************************)

(* Types; a file is being written by the book that is writing it, and no   *)
(* document has more results than pages.                                   *)
TypeOK == UploadsTypeOK /\ ProviderTypeOK /\ ExtractorTypeOK

(* Extractions and calls end (ExtractionEnds, EveryCallEnds), whatever is  *)
(* retried, dropped, deleted or cut short, but for those that wait for     *)
(* Ollama, whose client has no timeout.                                    *)
WorkEnds == ExtractionEnds /\ EveryCallEnds
=============================================================================
