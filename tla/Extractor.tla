----------------------------- MODULE Extractor -----------------------------
(***************************************************************************)
(* PDFExtractor of pipeline/extractor.py: page after page, direct text     *)
(* first, then the OCR ladder of EasyOCR and the vision model, which is a  *)
(* call of Provider.  What a page holds is one of three things to this     *)
(* code: a text layer, an image only, or content that cannot be read.      *)
(***************************************************************************)
EXTENDS Provider

CONSTANTS
    Ocr,        \* the caller that extracts
    Pages,      \* the kinds of the document's pages
    MaxRuns     \* BOUND on extractions begun

ASSUME OcrAssumption == Ocr \in Callers
ASSUME PagesAssumption == Pages \in Seq({"text", "scan", "broken"})

VARIABLE ex     \* the extraction under way, or the last one

(* A page's result: which rung ended it, whether it has text, whether the  *)
(* errors list names it; for the vision rung also the invocation and what  *)
(* came back (history).                                                    *)
PageResult == [rung : {"layer", "easyocr", "vision", "skipped", "error"},
               text : BOOLEAN, error : BOOLEAN, nr : Nat, heard : Outcome]

Extraction == [at : {"idle", "page", "ocr", "vision", "asked", "done", "failed"},
               book : BookIds, runs : Nat, results : Seq(PageResult)]

ExtractorInit ==
    ex = [at |-> "idle", book |-> CHOOSE b \in BookIds : TRUE, runs |-> 0, results |-> <<>>]

Busy == ex.at \in {"page", "ocr", "vision", "asked"}
Page == Len(ex.results) + 1
MayExtract == ~Busy /\ ex.runs < MaxRuns

OpenDocument(b) ==
    /\ MayExtract
    /\ ex' = [at |-> "page", book |-> b, runs |-> ex.runs + 1, results |-> <<>>]

OpenFails(b) ==
    /\ MayExtract
    /\ ex' = [at |-> "failed", book |-> b, runs |-> ex.runs + 1, results |-> <<>>]

AddPage(rung, text, error, nr, heard) ==
    ex' = [ex EXCEPT !.at = "page",
              !.results = Append(@, [rung |-> rung, text |-> text, error |-> error,
                                     nr |-> nr, heard |-> heard])]

NoCallOf(rung, text, error) == AddPage(rung, text, error, 0, "none")

(* Direct text, or the exception that puts the page on the errors list.    *)
ReadPage ==
    /\ ex.at = "page" /\ Page <= Len(Pages)
    /\ \/ Pages[Page] = "text" /\ NoCallOf("layer", TRUE, FALSE)
       \/ Pages[Page] = "broken" /\ NoCallOf("error", FALSE, TRUE)
       \/ Pages[Page] = "scan" /\ ex' = [ex EXCEPT !.at = "ocr"]

(* EasyOCR finds lines, finds none it is sure of, or is not there or fails.*)
EasyOcr ==
    /\ ex.at = "ocr"
    /\ \/ \E sure \in BOOLEAN : NoCallOf("easyocr", sure, FALSE)
       \/ ex' = [ex EXCEPT !.at = "vision"]

(* Nobody can look at the page: a warning is logged, nothing is returned.  *)
SkipPage ==
    /\ ex.at = "vision" /\ ~SupportsVision
    /\ NoCallOf("skipped", FALSE, FALSE)

RenderFails ==
    /\ ex.at = "vision" /\ SupportsVision
    /\ NoCallOf("error", FALSE, TRUE)

AskVision ==
    /\ ex.at = "vision" /\ SupportsVision
    /\ Begin(Ocr, "vision", ex.book)
    /\ ex' = [ex EXCEPT !.at = "asked"]

(* A failed call is logged and returns no blocks: not an error of the page.*)
HearVision ==
    /\ ex.at = "asked" /\ call[Ocr].at = "done"
    /\ AddPage("vision", call[Ocr].result = "value", FALSE, call[Ocr].nr, call[Ocr].result)

FinishDocument ==
    /\ ex.at = "page" /\ Page > Len(Pages)
    /\ ex' = [ex EXCEPT !.at = "done"]

(* The worker dies, or the progress callback between two pages raises; the *)
(* job is run again from the first page.                                   *)
Abort ==
    /\ Busy
    /\ ex' = [ex EXCEPT !.at = "idle"]
    /\ IF call[Ocr].at \in {"asking", "heard"} THEN Die(Ocr) ELSE UNCHANGED llmVars

LocalStep ==
    /\ ReadPage \/ EasyOcr \/ SkipPage \/ RenderFails \/ HearVision \/ FinishDocument
    /\ UNCHANGED llmVars

ExtractorStep == LocalStep \/ AskVision

(***************************************************************************)
(* Properties                                                              *)
(***************************************************************************)

ExtractorTypeOK == ex \in Extraction /\ Len(ex.results) <= Len(Pages)

(* A page that loses its text to a failed vision call gets no error, so    *)
(* the job's warnings do not show it (extractor.py:225-227).  The ledger   *)
(* does: the call is on record as failed, unless the row itself was lost,  *)
(* or deleted with the book.                                               *)
DroppedPagesAreOnRecord ==
    \A i \in DOMAIN ex.results :
        LET r == ex.results[i] IN
        r.rung = "vision" /\ r.heard \notin {"value", "empty"} =>
            \/ Lost(Ocr, r.nr)
            \/ \E j \in RowsOf(Ocr, r.nr) : ledger[Ocr][j].status \in {"error", "deleted"}

(* An extraction ends, unless it waits for Ollama.                         *)
ExtractionEnds == Busy /\ Backend # "ollama" ~> ~Busy
=============================================================================
