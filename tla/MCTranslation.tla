--------------------------- MODULE MCTranslation ---------------------------
(* Model checking of Translation: a book of two chunks. *)
EXTENDS Translation

CONSTANTS c1, c2

\* All that is pending, a range of pages, what failed, and one chunk by its index.
Payloads ==
    { [only_failed |-> FALSE, indexes |-> {},   pages |-> {c1, c2}],
      [only_failed |-> FALSE, indexes |-> {},   pages |-> {c2}],
      [only_failed |-> TRUE,  indexes |-> {},   pages |-> {c1, c2}],
      [only_failed |-> FALSE, indexes |-> {c1}, pages |-> {c1, c2}] }
=============================================================================
