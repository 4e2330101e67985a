------------------------------ MODULE Chunker ------------------------------
(***************************************************************************)
(* How the lines of a book become its chunks: the line classes of          *)
(* pipeline/format_mapper.py and the greedy loop of pipeline/chunker.py.   *)
(*                                                                         *)
(* The extractor hands over non-empty stripped lines page by page.  A line *)
(* is abstracted to what the two modules look for in it: the patterns its  *)
(* text matches, whether its font makes it a heading, whether it ends a    *)
(* sentence, and its length.  The loop keeps two accumulators, the lines   *)
(* of the chunk (for its format map and type) and the text of the chunk;   *)
(* both are kept here, as positions in the book.                           *)
(***************************************************************************)
EXTENDS Integers, Sequences, FiniteSets

CONSTANTS
    Line,          \* the lines a page can hold
    TargetChars,   \* chunk_target_chars
    Passthrough,   \* passthrough_content_types
    LineBound,     \* bound: lines of the book
    LastPage       \* bound: its last page, counted from 0

\* What the regular expressions find in a text.  Texts that match chapter or
\* section, or begin like a numbered item, do so for both modules alike.
Mark == {"chapter", "section", "rule", "star", "number", "verse", "hadith", "poetry"}

\* heavy: bold at 14 points or more; ends: the last character ends a sentence.
AnyLine == [marks : SUBSET Mark, heavy : BOOLEAN, ends : BOOLEAN, size : Nat \ {0}]

ASSUME LineAssumption == Line \subseteq AnyLine
ASSUME TargetAssumption == TargetChars \in Nat \ {0}
ASSUME BoundAssumption == LineBound \in Nat /\ LastPage \in Nat

VARIABLES
    read,       \* the lines the loop has taken, each with its page
    page,       \* the page the next line is on
    current,    \* current_chunk_lines
    text,       \* current_chunk_text: the lines it is put together from
    length,     \* len(current_chunk_text)
    pageStart,  \* current_page_start
    chunks,     \* the finished chunks
    done        \* chunk_document has returned

vars == <<read, page, current, text, length, pageStart, chunks, done>>

-----------------------------------------------------------------------------
(* format_mapper.py *)

IsHeading(l) == l.heavy \/ l.marks \intersect {"chapter", "section"} # {}

\* The classes in the order in which they are tried.  numbered_list is never
\* reached: every such line is taken for a footnote before.
Classes == <<"heading", "footnote", "quranic_verse", "hadith", "poetry", "prose">>

Shows(l, class) ==
    CASE class = "heading"       -> IsHeading(l)
      [] class = "footnote"      -> l.marks \intersect {"star", "number"} # {}
      [] class = "quranic_verse" -> "verse" \in l.marks
      [] class = "hadith"        -> "hadith" \in l.marks
      [] class = "poetry"        -> "poetry" \in l.marks
      [] class = "prose"         -> TRUE

ContentClass(l) ==
    Classes[CHOOSE i \in DOMAIN Classes :
                /\ Shows(l, Classes[i])
                /\ \A j \in 1 .. i - 1 : ~Shows(l, Classes[j])]

-----------------------------------------------------------------------------
(* chunker.py *)

Last(s) == s[Len(s)]

\* _infer_content_type: the most frequent class of the lines, of equals the one met
\* first.
Dominant(lines) ==
    LET class == [i \in DOMAIN lines |-> ContentClass(read[lines[i]].line)]
        Count(i) == Cardinality({j \in DOMAIN lines : class[j] = class[i]})
    IN class[CHOOSE i \in DOMAIN lines :
                 \A j \in DOMAIN lines : Count(j) < Count(i) \/ (Count(j) = Count(i) /\ i <= j)]

ParagraphBreak(l) ==
    text # <<>> /\ (read[Last(text)].line.ends \/ "number" \in l.marks)

SectionBreak(l) == l.marks \intersect {"chapter", "section", "rule"} # {}

Separator(l) == IF ParagraphBreak(l) THEN 2 ELSE 1

TentativeLength(l) == length + Separator(l) + l.size

FinalizesAtOverflowOfText(l) ==
    /\ text # <<>>
    /\ \/ length > 2 * TargetChars
       \/ IsHeading(l)
       \/ SectionBreak(l) /\ 2 * length > TargetChars
       \/ ParagraphBreak(l) /\ length >= TargetChars

FinalizesHeadingsLate(l) ==
    /\ text # <<>>
    /\ \/ TentativeLength(l) > 2 * TargetChars
       \/ SectionBreak(l) /\ 2 * length > TargetChars
       \/ ParagraphBreak(l) /\ length >= TargetChars

\* should_finalize, for a chunk that has text: min_chunk_chars is half the target,
\* max_chunk_chars twice the target.
Finalizes(l) ==
    /\ text # <<>>
    /\ \/ TentativeLength(l) > 2 * TargetChars
       \/ IsHeading(l)
       \/ SectionBreak(l) /\ 2 * length > TargetChars
       \/ ParagraphBreak(l) /\ length >= TargetChars

\* _finalize_chunk.  The content type follows from the lines: Dominant(lines).
Finalized(pageEnd) ==
    [lines |-> current, text |-> text, length |-> length, start |-> pageStart, end |-> pageEnd]

Init ==
    /\ read = <<>> /\ page = 0
    /\ current = <<>> /\ text = <<>> /\ length = 0 /\ pageStart = 0
    /\ chunks = <<>>
    /\ done = FALSE

TurnPage ==
    /\ ~done /\ page < LastPage
    /\ page' = page + 1
    /\ UNCHANGED <<read, current, text, length, pageStart, chunks, done>>

\* The loop takes line l, at position n of the book.
Takes(l, n) ==
    /\ ~done /\ n <= LineBound
    /\ n = Len(read) + 1
    /\ read' = Append(read, [line |-> l, page |-> page])
    /\ UNCHANGED <<page, done>>

Extend(l, n) ==
    /\ Takes(l, n)
    /\ ~Finalizes(l)
    /\ current' = Append(current, n)
    /\ text' = Append(text, n)
    /\ length' = IF text = <<>> THEN l.size ELSE TentativeLength(l)
    /\ pageStart' = IF text = <<>> THEN page ELSE pageStart
    /\ UNCHANGED chunks

SplitCarryingText(l, n) ==
    /\ Takes(l, n)
    /\ Finalizes(l)
    /\ chunks' = Append(chunks, Finalized(page))
    /\ current' = <<n>> /\ text' = Append(text, n) /\ length' = TentativeLength(l)
    /\ pageStart' = page

SplitKeepingPage(l, n) ==
    /\ Takes(l, n)
    /\ Finalizes(l)
    /\ chunks' = Append(chunks, Finalized(page))
    /\ current' = <<n>> /\ text' = <<n>> /\ length' = l.size
    /\ UNCHANGED pageStart

SplitLosingLine(l, n) ==
    /\ Takes(l, n)
    /\ Finalizes(l)
    /\ chunks' = Append(chunks, Finalized(page))
    /\ current' = <<>> /\ text' = <<>> /\ length' = 0
    /\ pageStart' = page

\* The line that ends a chunk opens the next, and its page is taken for both.
Split(l, n) ==
    /\ Takes(l, n)
    /\ Finalizes(l)
    /\ chunks' = Append(chunks, Finalized(page))
    /\ current' = <<n>> /\ text' = <<n>> /\ length' = l.size
    /\ pageStart' = page

\* The book has no more lines.
Finish ==
    /\ ~done /\ done' = TRUE
    /\ chunks' = IF text = <<>> THEN chunks
                 ELSE Append(chunks, Finalized(read[Len(read)].page))
    /\ UNCHANGED <<read, page, current, text, length, pageStart>>

Next ==
    \/ TurnPage
    \/ \E l \in Line, n \in 1 .. LineBound : Extend(l, n) \/ Split(l, n)
    \/ Finish

Spec == Init /\ [][Next]_vars

-----------------------------------------------------------------------------
(* Properties *)

Position == 1 .. LineBound
Page == 0 .. LastPage

Chunk == [lines : Seq(Position), text : Seq(Position), length : Nat, start : Page, end : Page]

\* Every variable has its type, and the text is empty exactly while no line has been
\* taken.
TypeOK ==
    /\ read \in Seq([line : Line, page : Page]) /\ Len(read) <= LineBound
    /\ page \in Page /\ pageStart \in Page
    /\ current \in Seq(Position) /\ text \in Seq(Position)
    /\ length \in Nat
    /\ chunks \in Seq(Chunk)
    /\ done \in BOOLEAN
    /\ text = <<>> <=> read = <<>>

\* s is the run of positions from..to.
IsRun(s, from, to) ==
    /\ Len(s) = to - from + 1
    /\ \A i \in 1 .. Len(s) : s[i] = from + i - 1

\* The last line of the k-th chunk.
End(k) == IF k = 0 THEN 0 ELSE Last(chunks[k].lines)

\* Every line of the book is in exactly one chunk, in order, and the format map of a
\* chunk is about the lines its text is made of ("never duplicates text across
\* chunks", tests/test_pipeline_foundation.py:99): what has been read is the chunks
\* and the one under construction, and nothing of it is left when the loop ends.
EveryLineOnce ==
    /\ \A k \in 1 .. Len(chunks) :
           LET c == chunks[k] IN
           c.lines # <<>> /\ c.text = c.lines /\ IsRun(c.lines, End(k - 1) + 1, End(k))
    /\ IF done THEN End(Len(chunks)) = Len(read)
               ELSE text = current /\ IsRun(text, End(Len(chunks)) + 1, Len(read))

\* No chunk outgrows twice the target, separators included, unless it is one line.
ChunksBounded ==
    \A k \in 1 .. Len(chunks) :
        chunks[k].length <= 2 * TargetChars \/ Len(chunks[k].lines) = 1

\* "a heading always starts a chunk" (README.md:32): no chunk, finished or under
\* construction, has a heading after its first line.
HeadingsStartChunks ==
    \A s \in {chunks[k].lines : k \in 1 .. Len(chunks)} \union {current} :
        \A i \in 2 .. Len(s) : ~IsHeading(read[s[i]].line)

\* select_chunk_ids picks chunks by page_start: it is the page of the chunk's first
\* line, the page ranges of successive chunks do not go back, and every line is
\* within the range of its chunk.
PagesInOrder ==
    \A k \in 1 .. Len(chunks) :
        LET c == chunks[k] IN
        /\ c.start = read[c.lines[1]].page
        /\ \A i \in 1 .. Len(c.lines) : read[c.lines[i]].page \in c.start .. c.end
        /\ k > 1 => chunks[k - 1].end <= c.start

\* "Quranic text is passed through untouched, never machine-translated"
\* (README.md:34): a line that the mapper finds to be a verse is in a chunk whose type
\* is copied.
VersesPassThrough ==
    \A k \in 1 .. Len(chunks) : \A i \in 1 .. Len(chunks[k].lines) :
        ContentClass(read[chunks[k].lines[i]].line) = "quranic_verse"
            => Dominant(chunks[k].lines) \in Passthrough
=============================================================================
