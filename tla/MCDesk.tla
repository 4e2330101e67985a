------------------------------- MODULE MCDesk -------------------------------
(* Model checking of Desk: two reviewers, and verdicts with two suggestions*)
(* that quote a span of the text, the second one a span that occurs in what*)
(* the first one puts in, and one suggestion that quotes none.             *)
EXTENDS Desk

CONSTANTS s1, s2, s3

MCTouches == {<<s2, s1>>}
=============================================================================
