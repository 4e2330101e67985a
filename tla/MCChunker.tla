----------------------------- MODULE MCChunker -----------------------------
(* Model checking of Chunker with a target of 4 characters: chunks of more *)
(* than 8 are split, and of more than 2 at a section break.                *)
EXTENDS Chunker

Plain(ends, size) == [marks |-> {}, heavy |-> FALSE, ends |-> ends, size |-> size]
Marked(marks, size) == [marks |-> marks, heavy |-> FALSE, ends |-> FALSE, size |-> size]

\* Prose that leaves a chunk small, fills it to the target with the end of a
\* sentence, or overflows it alone, and one line of each kind that is treated in its
\* own way.
Lines ==
    {Plain(FALSE, 1), Plain(TRUE, 4), Plain(FALSE, 9), Marked({"verse"}, 2),
     Marked({"number"}, 2), Marked({"rule", "poetry"}, 3), Marked({"chapter"}, 1)}
=============================================================================
