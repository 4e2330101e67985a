------------------------- MODULE ChunkGraph_proofs -------------------------
(***************************************************************************)
(* Proofs about ChunkGraph for every set of source texts, every set of     *)
(* copied texts, every number of retries and of glossary changes: it is    *)
(* type correct, it implements ChunkContract, it repeats no paid work, its *)
(* prompts lack a term only in a run that was resumed, and every run of it *)
(* is short.                                                               *)
(***************************************************************************)
EXTENDS ChunkGraph, TLAPS

\* A graph state past prepare says what its own text has gone through: how the
\* draft relates to the attempts, and, once the loop is left, the verdict to the
\* draft.  Before prepare it may hold anything.
Consistent(s) ==
    /\ Copies(s) /\ s.next # "prepare" =>
           s.attempts = 0 /\ s.draft = 0 /\ s.judged = 0 /\ s.score # "low"
    /\ ~Copies(s) /\ s.next # "prepare" => s.draft = s.attempts
    /\ ~Copies(s) /\ s.next \in {"translate", "retry"} => s.attempts <= MaxRetries
    /\ ~Copies(s) /\ s.next \in {"verify", "retry", "terminology", "end"} => 1 <= s.attempts
    /\ s.next \in {"terminology", "end"} =>
           /\ s.judged = s.draft
           /\ s.score # "none"
           /\ s.score = "low" => s.attempts = MaxRetries + 1

MemoryConsistent == state # None => Consistent(state)
SavedConsistent == saved # None => Consistent(saved)
RunsItsText == state # None => state.source = input.source
InputIsRow == at # "idle" /\ ~gone => input.source = row.source
PersistsTheEnd == at = "persist" => state.next = "end"

GraphInv ==
    /\ TypeOK
    /\ MemoryConsistent
    /\ SavedConsistent
    /\ RunsItsText
    /\ InputIsRow
    /\ PersistsTheEnd

-----------------------------------------------------------------------------
(* What each node does to a state *)

LEMMA RetriesType == MaxRetries \in Nat /\ MaxRetries + 1 \in Nat
  BY MaxRetriesAssumption

LEMMA PreparedState ==
  ASSUME NEW s \in GraphState
  PROVE  /\ Prepared(s) \in GraphState /\ Prepared(s).next = "translate"
         /\ Prepared(s).source = s.source
         /\ Consistent(Prepared(s))
  <1> DEFINE p == Blank(s.source, s.glossary, "translate")
  <1>1. p \in GraphState
    BY RetriesType DEF Blank, GraphState, Node, Score
  <1>2. Consistent(p)
    BY RetriesType DEF Blank, Consistent
  <1> QED
    BY <1>1, <1>2 DEF Prepared, Blank

LEMMA TranslatedState ==
  ASSUME NEW s \in GraphState, Consistent(s), s.next = "translate"
  PROVE  /\ Translated(s) \in GraphState /\ Translated(s).next = "verify"
         /\ Translated(s).source = s.source
         /\ Translated(s).attempts >= s.attempts
         /\ Consistent(Translated(s))
  <1>1. CASE Copies(s)
    BY <1>1, RetriesType DEF Translated, GraphState, Node, Score, Consistent, Copies
  <1>2. CASE ~Copies(s)
    <2> DEFINE t == [source |-> s.source, glossary |-> s.glossary, next |-> "verify",
                     attempts |-> s.attempts + 1, draft |-> s.attempts + 1,
                     judged |-> s.judged, score |-> s.score]
    <2>1. Translated(s) = t
      BY <1>2 DEF Translated, GraphState
    <2>2. s.attempts \in 0 .. MaxRetries
      BY <1>2, RetriesType DEF GraphState, Consistent
    <2>3. t \in GraphState
      BY <2>2, RetriesType DEF GraphState, Node
    <2>4. Consistent(t)
      BY <1>2, <2>2, RetriesType DEF Consistent, Copies
    <2> QED
      BY <2>1, <2>2, <2>3, <2>4
  <1> QED
    BY <1>1, <1>2

LEMMA VerifiedState ==
  ASSUME NEW s \in GraphState, Consistent(s), s.next = "verify",
         NEW score \in {"low", "high"}, Copies(s) => score = "high"
  PROVE  /\ Verified(s, score) \in GraphState
         /\ Verified(s, score).next \in {"retry", "terminology"}
         /\ Verified(s, score).source = s.source
         /\ Verified(s, score).attempts = s.attempts
         /\ Consistent(Verified(s, score))
  <1> DEFINE v == [s EXCEPT !.judged = s.draft, !.score = score]
  <1>1. /\ v \in GraphState /\ v.attempts = s.attempts /\ v.draft = s.draft
        /\ v.judged = s.draft /\ v.score = score /\ v.source = s.source
    BY DEF GraphState, Score
  <1>2. Verified(s, score) = [v EXCEPT !.next = IF WantsRetry(v) THEN "retry" ELSE "terminology"]
    BY DEF Verified
  <1> HIDE DEF v
  <1>3. CASE WantsRetry(v)
    BY <1>1, <1>2, <1>3, RetriesType DEF WantsRetry, GraphState, Node, Consistent, Copies
  <1>4. CASE ~WantsRetry(v)
    BY <1>1, <1>2, <1>4, RetriesType DEF WantsRetry, GraphState, Node, Consistent, Copies
  <1> QED
    BY <1>3, <1>4

LEMMA RetriedState ==
  ASSUME NEW s \in GraphState, Consistent(s), s.next = "retry"
  PROVE  LET r == [s EXCEPT !.next = "translate"] IN
         /\ r \in GraphState /\ r.next = "translate" /\ r.source = s.source
         /\ r.attempts = s.attempts
         /\ Consistent(r)
  BY RetriesType DEF GraphState, Node, Consistent, Copies

LEMMA EndedState ==
  ASSUME NEW s \in GraphState, Consistent(s), s.next = "terminology"
  PROVE  LET e == [s EXCEPT !.next = "end"] IN
         /\ e \in GraphState /\ e.next = "end" /\ e.source = s.source
         /\ e.attempts = s.attempts
         /\ Consistent(e)
  BY RetriesType DEF GraphState, Node, Consistent, Copies

\* The state a run starts with: over a leftover thread, or from nothing.
LEMMA StartedState ==
  ASSUME GraphInv, Start
  PROVE  /\ state' \in GraphState /\ state'.next = "prepare"
         /\ state'.source = input.source
         /\ Consistent(state')
  <1>1. input \in Input
    BY DEF GraphInv, TypeOK, Start
  <1>2. CASE saver /\ saved # None
    <2> DEFINE t == [source |-> input.source, glossary |-> input.glossary, next |-> "prepare",
                     attempts |-> saved.attempts, draft |-> saved.draft,
                     judged |-> saved.judged, score |-> saved.score]
    <2>1. saved \in GraphState
      BY <1>2 DEF GraphInv, TypeOK
    <2>2. state' = t
      BY <1>2, <2>1 DEF Start, GraphState
    <2>3. t \in GraphState
      BY <1>1, <2>1 DEF GraphState, Input, Node
    <2>4. Consistent(t)
      BY DEF Consistent
    <2> QED
      BY <2>2, <2>3, <2>4
  <1>3. CASE ~(saver /\ saved # None)
    <2>1. state' = Blank(input.source, input.glossary, "prepare")
      BY <1>3 DEF Start
    <2>2. Blank(input.source, input.glossary, "prepare") \in GraphState
      BY <1>1, RetriesType DEF Blank, GraphState, Input, Node, Score
    <2> QED
      BY <2>1, <2>2 DEF Blank, Consistent
  <1> QED
    BY <1>2, <1>3

-----------------------------------------------------------------------------
(* The inductive invariant *)

LEMMA InitInv == Init => GraphInv
  <1> SUFFICES ASSUME Init
               PROVE  GraphInv
    OBVIOUS
  <1>1. TypeOK
    <2>1. PICK s \in Source :
            row = [source |-> s, status |-> "extracted", text |-> NoText]
      BY DEF Init
    <2>2. row \in Row
      BY <2>1 DEF Row
    <2>3. glossary \in 0 .. GlossaryBound
      BY GlossaryAssumption DEF Init
    <2>4. at = "idle" /\ at \notin Node /\ at # "persist"
      BY DEF Init, Node
    <2> QED
      BY <2>2, <2>3, <2>4 DEF Init, TypeOK
  <1> QED
    BY <1>1 DEF Init, GraphInv, MemoryConsistent, SavedConsistent, RunsItsText, InputIsRow,
        PersistsTheEnd

\* The run enters a node, or ends at persist, with a state that is consistent and
\* about the text the run has read.
LEMMA EnterKeepsInv ==
  ASSUME GraphInv, at # "idle",
         state' \in GraphState, Consistent(state'), state'.source = input.source,
         \/ at' = state'.next /\ at' \in Node
         \/ at' = "persist" /\ state'.next = "end",
         saved' = saved \/ saved' = state',
         UNCHANGED <<row, glossary, input, gone, saver>>
  PROVE  GraphInv'
  <1> USE DEF GraphInv
  <1>1. state' # None
    BY SentinelAssumption
  <1>2. TypeOK'
    BY <1>1 DEF TypeOK, Node
  <1>3. MemoryConsistent' /\ SavedConsistent'
    BY DEF MemoryConsistent, SavedConsistent, Consistent, Copies
  <1>4. RunsItsText' /\ InputIsRow' /\ PersistsTheEnd'
    BY DEF RunsItsText, InputIsRow, PersistsTheEnd, Node
  <1> QED
    BY <1>2, <1>3, <1>4

\* The run is over: only the row and the checkpoint have to be in order.
LEMMA EndRunKeepsInv ==
  ASSUME GraphInv, EndRun, UNCHANGED glossary,
         saved' \in {saved, None},
         row' \in Row
  PROVE  GraphInv'
  <1> USE DEF GraphInv
  <1>1. TypeOK'
    BY DEF TypeOK, EndRun, Node
  <1>2. SavedConsistent'
    BY DEF SavedConsistent, Consistent, Copies
  <1> QED
    BY <1>1, <1>2 DEF EndRun, MemoryConsistent, RunsItsText, InputIsRow, PersistsTheEnd

\* What is persisted is a text in the sense of the contract, and a worthy one.
LEMMA OutcomeIsWorthy ==
  ASSUME GraphInv, at = "persist"
  PROVE  Outcome \in Contract!Text /\ Contract!Worthy(Outcome, input.source)
  <1>1. state \in GraphState /\ state.source = input.source /\ state.next = "end"
        /\ Consistent(state)
    BY DEF GraphInv, TypeOK, RunsItsText, MemoryConsistent, PersistsTheEnd
  <1>2. /\ state.judged = state.draft /\ state.score \in {"low", "high"}
        /\ state.score = "low" => state.attempts = MaxRetries + 1
    BY <1>1 DEF Consistent, GraphState, Score
  <1>3. Outcome \in Contract!Text
    BY <1>1, <1>2 DEF Outcome, Contract!Text, Contract!Score, GraphState
  <1>4. CASE Copies(state)
    BY <1>1, <1>2, <1>3, <1>4 DEF Outcome, Contract!Worthy, Consistent, Copies
  <1>5. CASE ~Copies(state)
    <2>1. state.draft = state.attempts /\ state.draft \in 1 .. MaxRetries + 1
      BY <1>1, <1>5, RetriesType DEF Consistent, GraphState
    <2> QED
      BY <1>1, <1>2, <1>3, <1>5, <2>1 DEF Outcome, Contract!Worthy, Copies
  <1> QED
    BY <1>4, <1>5

LEMMA NextInv == GraphInv /\ [Next]_vars => GraphInv'
  <1> SUFFICES ASSUME GraphInv, [Next]_vars
               PROVE  GraphInv'
    OBVIOUS
  <1> USE DEF GraphInv
  <1>1. CASE Begin
    <2>1. input' \in Input
      BY <1>1 DEF Begin, TypeOK, Row, Input
    <2>2. state = None /\ input' # None
      BY <1>1, <2>1, SentinelAssumption DEF Begin, TypeOK, Node
    <2>3. TypeOK'
      BY <1>1, <2>1, <2>2 DEF Begin, TypeOK, Node
    <2>4. SavedConsistent'
      BY <1>1 DEF Begin, SavedConsistent, Consistent, Copies
    <2> QED
      BY <1>1, <2>2, <2>3, <2>4
      DEF Begin, MemoryConsistent, RunsItsText, InputIsRow, PersistsTheEnd
  <1>2. CASE Resume
    <2>1. saved \in GraphState /\ Consistent(saved) /\ saved.source = input.source
          /\ saved.next \in Node
      BY <1>2 DEF Resume, Unfinished, SameSource, TypeOK, SavedConsistent, GraphState
    <2>2. Consistent(state')
      BY <1>2, <2>1 DEF Resume, Consistent, Copies
    <2> QED
      BY <1>2, <2>1, <2>2, EnterKeepsInv DEF Resume
  <1>3. CASE Reuse
    <2>1. saved \in GraphState /\ Consistent(saved) /\ saved.source = input.source
          /\ saved.next = "end"
      BY <1>3 DEF Reuse, FinishedBefore, SameSource, TypeOK, SavedConsistent
    <2>2. Consistent(state')
      BY <1>3, <2>1 DEF Reuse, Consistent, Copies
    <2> QED
      BY <1>3, <2>1, <2>2, EnterKeepsInv DEF Reuse
  <1>4. CASE Start
    BY <1>4, StartedState, EnterKeepsInv DEF Start, Node
  <1>5. CASE Prepare
    <2>1. state \in GraphState /\ state.source = input.source
      BY <1>5 DEF Prepare, Leave, TypeOK, RunsItsText, Node
    <2>2. state' = Prepared(state) /\ at' = Prepared(state).next /\ at = "prepare"
      BY <1>5 DEF Prepare, Leave
    <2> QED
      BY <1>5, <2>1, <2>2, PreparedState, EnterKeepsInv DEF Prepare, Leave, Node
  <1>6. CASE Translate
    <2>1. state \in GraphState /\ state.source = input.source /\ Consistent(state)
          /\ state.next = "translate"
      BY <1>6 DEF Translate, Leave, TypeOK, RunsItsText, MemoryConsistent, Node
    <2>2. state' = Translated(state) /\ at' = Translated(state).next /\ at = "translate"
      BY <1>6 DEF Translate, Leave
    <2> QED
      BY <1>6, <2>1, <2>2, TranslatedState, EnterKeepsInv DEF Translate, Leave, Node
  <1>7. CASE Verify
    <2>1. state \in GraphState /\ state.source = input.source /\ Consistent(state)
          /\ state.next = "verify"
      BY <1>7 DEF Verify, TypeOK, RunsItsText, MemoryConsistent, Node
    <2>2. PICK score \in {"low", "high"} :
            (Copies(state) => score = "high") /\ Leave("verify", Verified(state, score))
      BY <1>7 DEF Verify
    <2> QED
      BY <2>1, <2>2, VerifiedState, EnterKeepsInv DEF Leave, Node
  <1>8. CASE Retry
    <2>1. state \in GraphState /\ state.source = input.source /\ Consistent(state)
          /\ state.next = "retry"
      BY <1>8 DEF Retry, Leave, TypeOK, RunsItsText, MemoryConsistent, Node
    <2> QED
      BY <1>8, <2>1, RetriedState, EnterKeepsInv DEF Retry, Leave, Node
  <1>9. CASE Terminology
    <2>1. state \in GraphState /\ state.source = input.source /\ Consistent(state)
          /\ state.next = "terminology"
      BY <1>9 DEF Terminology, TypeOK, RunsItsText, MemoryConsistent, Node
    <2> QED
      BY <1>9, <2>1, EndedState, EnterKeepsInv DEF Terminology, Node
  <1>10. CASE Save
    <2>1. state \in GraphState /\ Consistent(state)
      BY <1>10 DEF Save, TypeOK, MemoryConsistent
    <2>2. TypeOK'
      BY <1>10, <2>1 DEF Save, TypeOK, run
    <2>3. MemoryConsistent' /\ SavedConsistent'
      BY <1>10, <2>1 DEF Save, run, MemoryConsistent, SavedConsistent, Consistent, Copies
    <2> QED
      BY <1>10, <2>2, <2>3 DEF Save, run, RunsItsText, InputIsRow, PersistsTheEnd
  <1>11. CASE Raise
    <2>1. saved' \in {saved, state} /\ (saved' # saved => saved' \in GraphState /\ Consistent(state))
      BY <1>11 DEF Raise, TypeOK, MemoryConsistent
    <2>2. TypeOK'
      BY <1>11, <2>1 DEF Raise, TypeOK, Node
    <2>3. SavedConsistent'
      BY <2>1 DEF SavedConsistent, Consistent, Copies
    <2> QED
      BY <1>11, <2>2, <2>3
      DEF Raise, Node, MemoryConsistent, RunsItsText, InputIsRow, PersistsTheEnd
  <1>12. CASE MarkFailed
    <2>1. row' \in Row
      BY <1>12 DEF MarkFailed, TypeOK, Row
    <2> QED
      BY <1>12, <2>1, EndRunKeepsInv DEF MarkFailed
  <1>13. CASE Persist
    <2>1. Outcome \in Contract!Text
      BY <1>13, OutcomeIsWorthy DEF Persist
    <2>2. CASE gone
      BY <1>13, <2>2, EndRunKeepsInv DEF Persist, TypeOK
    <2>3. CASE ~gone
      <3>1. row' \in Row /\ row'.source = row.source
        BY <1>13, <2>1, <2>3 DEF Persist, TypeOK, Row
      <3>2. TypeOK'
        BY <1>13, <2>3, <3>1 DEF Persist, TypeOK, Node
      <3>3. SavedConsistent' /\ MemoryConsistent'
        BY <1>13, <2>3 DEF Persist, SavedConsistent, MemoryConsistent, Consistent, Copies
      <3> QED
        BY <1>13, <2>3, <3>1, <3>2, <3>3
        DEF Persist, RunsItsText, InputIsRow, PersistsTheEnd
    <2> QED
      BY <2>2, <2>3
  <1>14. CASE Forget
    BY <1>14, EndRunKeepsInv DEF Forget, TypeOK
  <1>15. CASE Crash
    BY <1>15, EndRunKeepsInv DEF Crash, TypeOK
  <1>16. CASE Reextract
    <2>1. row' \in Row
      BY <1>16 DEF Reextract, Row
    <2>2. TypeOK'
      BY <1>16, <2>1 DEF Reextract, TypeOK
    <2>3. SavedConsistent' /\ MemoryConsistent'
      BY <1>16 DEF Reextract, SavedConsistent, MemoryConsistent, Consistent, Copies
    <2> QED
      BY <1>16, <2>2, <2>3 DEF Reextract, RunsItsText, InputIsRow, PersistsTheEnd
  <1>17. CASE GlossaryChanges
    <2>1. TypeOK'
      BY <1>17, GlossaryAssumption DEF GlossaryChanges, TypeOK, run
    <2>2. SavedConsistent' /\ MemoryConsistent'
      BY <1>17 DEF GlossaryChanges, run, SavedConsistent, MemoryConsistent, Consistent, Copies
    <2> QED
      BY <1>17, <2>1, <2>2 DEF GlossaryChanges, run, RunsItsText, InputIsRow, PersistsTheEnd
  <1>18. CASE UNCHANGED vars
    <2>1. SavedConsistent' /\ MemoryConsistent'
      BY <1>18 DEF vars, run, SavedConsistent, MemoryConsistent, Consistent, Copies
    <2> QED
      BY <1>18, <2>1 DEF vars, run, TypeOK, RunsItsText, InputIsRow, PersistsTheEnd
  <1> QED
    BY <1>1, <1>2, <1>3, <1>4, <1>5, <1>6, <1>7, <1>8, <1>9, <1>10, <1>11, <1>12,
       <1>13, <1>14, <1>15, <1>16, <1>17, <1>18
    DEF Next

-----------------------------------------------------------------------------
(* Type correctness *)

\* Every variable of a chunk's run has its type in every reachable state: in
\* particular a run makes at most MaxRetries + 1 attempts (route_after_verify).
THEOREM TypeCorrect == Spec => []TypeOK
  <1>1. GraphInv => TypeOK
    BY DEF GraphInv
  <1> QED
    BY InitInv, NextInv, <1>1, PTL DEF Spec

-----------------------------------------------------------------------------
(* ChunkGraph implements ChunkContract *)

LEMMA InitRefines == Init => Contract!Init
  BY DEF Init, Contract!Init, Contract!Fresh

LEMMA NextRefines == GraphInv /\ [Next]_vars => [Contract!Next]_row
  <1> SUFFICES ASSUME GraphInv, [Next]_vars
               PROVE  Contract!Next \/ UNCHANGED row
    BY DEF Contract!Next
  <1>1. CASE Persist
    <2>1. CASE gone
      BY <1>1, <2>1 DEF Persist
    <2>2. CASE ~gone
      <3>1. Outcome \in Contract!Text /\ Contract!Worthy(Outcome, row.source)
        BY <1>1, <2>2, OutcomeIsWorthy DEF Persist, GraphInv, InputIsRow
      <3>2. row' = [row EXCEPT !.status = "terminology_reviewed", !.text = Outcome]
        BY <1>1, <2>2 DEF Persist
      <3>3. Contract!Accept
        BY <3>1, <3>2 DEF Contract!Accept
      <3> QED
        BY <3>3 DEF Contract!Next
    <2> QED
      BY <2>1, <2>2
  <1>2. CASE MarkFailed
    BY <1>2 DEF MarkFailed, Contract!Next, Contract!GiveUp
  <1>3. CASE Reextract
    BY <1>3 DEF Reextract, Contract!Next, Contract!Extract, Contract!Fresh
  <1>4. CASE UNCHANGED vars
    BY <1>4 DEF vars
  <1>5. CASE Begin \/ Resume \/ Reuse \/ Start \/ Save \/ Raise \/ Forget \/ Crash
             \/ GlossaryChanges \/ Terminology
    BY <1>5 DEF Begin, Resume, Reuse, Start, Save, Raise, Forget, Crash,
                GlossaryChanges, Terminology
  <1>6. CASE Prepare \/ Translate \/ Verify \/ Retry
    BY <1>6 DEF Prepare, Translate, Verify, Retry, Leave
  <1> QED
    BY <1>1, <1>2, <1>3, <1>4, <1>5, <1>6 DEF Next

\* Whatever crashes, resumes, leftover checkpoints and re-extractions happen under
\* it, translate_one writes only texts that ChunkContract accepts: of the row's own
\* source, with the verdict on that very draft, and below the threshold only after
\* the last retry.
THEOREM Implements == Spec => ImplementsContract
  BY InitInv, NextInv, InitRefines, NextRefines, PTL
  DEF Spec, ImplementsContract, Contract!Spec

-----------------------------------------------------------------------------
(* Paid work *)

\* While the graph runs, its checkpoint of this text never has an attempt more than
\* the run itself, unless the run has yet to pass prepare, and then the checkpoint
\* has not passed it either.
SavedBehind ==
    at \in Node /\ SameSource =>
        saved.next = "prepare" \/ (at # "prepare" /\ saved.attempts <= state.attempts)

LEMMA NextBehind == GraphInv /\ SavedBehind /\ [Next]_vars => SavedBehind'
  <1> SUFFICES ASSUME GraphInv, SavedBehind, [Next]_vars, at' \in Node, SameSource'
               PROVE  \/ saved'.next = "prepare"
                      \/ at' # "prepare" /\ saved'.attempts <= state'.attempts
    BY DEF SavedBehind
  <1> USE DEF GraphInv
  <1>1. CASE Resume
    <2>1. saved' = saved /\ state' = saved /\ at' = saved.next /\ saved \in GraphState
      BY <1>1 DEF Resume, Unfinished, SameSource, TypeOK
    <2>2. saved.attempts \in Int
      BY <2>1, RetriesType DEF GraphState
    <2> QED
      BY <2>1, <2>2
  <1>2. CASE Start
    <2>1. SameSource /\ saved \in GraphState /\ Consistent(saved)
      BY <1>2 DEF Start, SameSource, TypeOK, SavedConsistent
    <2>2. saved.next # "end"
      BY <1>2, <2>1 DEF Start, FinishedBefore, Consistent
    <2> QED
      BY <1>2, <2>1, <2>2 DEF Start, Unfinished
  <1>3. CASE Prepare
    BY <1>3 DEF Prepare, Leave, SavedBehind, SameSource, Node
  <1>4. CASE Translate
    <2>1. state \in GraphState /\ Consistent(state) /\ state.next = "translate"
      BY <1>4 DEF Translate, Leave, TypeOK, MemoryConsistent, Node
    <2>2. state'.attempts >= state.attempts /\ state'.next = "verify" /\ at' = "verify"
      BY <1>4, <2>1, TranslatedState DEF Translate, Leave
    <2>3. state.attempts \in Int /\ state'.attempts \in Int
      BY <1>4, <2>1, TranslatedState, RetriesType DEF Translate, Leave, GraphState
    <2>4. saved = saved' /\ saved \in GraphState /\ SameSource
      BY <1>4 DEF Translate, Leave, SameSource, TypeOK
    <2>5. saved.attempts \in Int
      BY <2>4, RetriesType DEF GraphState
    <2>6. saved.next = "prepare" \/ saved.attempts <= state.attempts
      BY <1>4, <2>4 DEF Translate, Leave, SavedBehind, Node
    <2> QED
      BY <2>2, <2>3, <2>4, <2>5, <2>6
  <1>5. CASE Verify
    <2>1. state \in GraphState /\ Consistent(state) /\ state.next = "verify" /\ at = "verify"
      BY <1>5 DEF Verify, TypeOK, MemoryConsistent, Node
    <2>2. state'.attempts = state.attempts /\ at' # "prepare"
      BY <1>5, <2>1, VerifiedState DEF Verify, Leave
    <2> QED
      BY <1>5, <2>1, <2>2 DEF Verify, Leave, SavedBehind, SameSource, Node
  <1>6. CASE Retry
    <2>1. state \in GraphState /\ Consistent(state) /\ state.next = "retry" /\ at = "retry"
      BY <1>6 DEF Retry, Leave, TypeOK, MemoryConsistent, Node
    <2>2. state'.attempts = state.attempts /\ at' = "translate"
      BY <1>6, <2>1, RetriedState DEF Retry, Leave
    <2> QED
      BY <1>6, <2>1, <2>2 DEF Retry, Leave, SavedBehind, SameSource, Node
  <1>7. CASE Save
    <2>1. saved' = state /\ state' = state /\ at' = at /\ state.next = at
          /\ state \in GraphState
      BY <1>7 DEF Save, run, TypeOK
    <2>2. state.attempts \in Int
      BY <2>1, RetriesType DEF GraphState
    <2> QED
      BY <2>1, <2>2
  <1>8. CASE Reextract
    BY <1>8 DEF Reextract, SavedBehind, SameSource
  <1>9. CASE GlossaryChanges \/ UNCHANGED vars
    BY <1>9 DEF GlossaryChanges, vars, run, SavedBehind, SameSource
  <1>10. CASE Begin \/ Reuse \/ Terminology \/ Raise
    BY <1>10 DEF Begin, Reuse, Terminology, Raise, Node
  <1>11. CASE MarkFailed \/ Persist \/ Forget \/ Crash
    BY <1>11 DEF MarkFailed, Persist, Forget, Crash, EndRun, Node
  <1> QED
    BY <1>1, <1>2, <1>3, <1>4, <1>5, <1>6, <1>7, <1>8, <1>9, <1>10, <1>11 DEF Next

\* Finished nodes are not repeated: translate_one never pays for a translation that
\* a checkpoint of the same text already holds.
THEOREM PaidOnce == Spec => PaidWorkNotRepeated
  <1>1. Init => SavedBehind
    BY DEF Init, SavedBehind, Node
  <1>2. SavedBehind =>
          (Translate /\ ~Copies(state) /\ SameSource /\ saved.next # "prepare"
           => saved.attempts <= state.attempts)
    BY DEF SavedBehind, Translate, Leave, Node
  <1> QED
    BY <1>1, <1>2, InitInv, NextInv, NextBehind, PTL DEF Spec, PaidWorkNotRepeated

-----------------------------------------------------------------------------
(* The glossary of prompts *)

\* While the graph runs on an older glossary than the one its run has loaded, the
\* checkpoint of this very text holds that older one.
OldGlossaryResumed ==
    at \in Node /\ state.glossary < input.glossary
        => SameSource /\ saved.glossary = state.glossary

LEMMA NextGlossary == GraphInv /\ OldGlossaryResumed /\ [Next]_vars => OldGlossaryResumed'
  <1> SUFFICES ASSUME GraphInv, OldGlossaryResumed, [Next]_vars,
                      at' \in Node, state'.glossary < input'.glossary
               PROVE  SameSource' /\ saved'.glossary = state'.glossary
    BY DEF OldGlossaryResumed
  <1> USE DEF GraphInv
  <1>1. CASE Resume
    BY <1>1 DEF Resume, Unfinished, SameSource
  <1>2. CASE Start
    <2>1. input \in Input /\ input' = input
      BY <1>2 DEF Start, TypeOK
    <2>2. state'.glossary = input.glossary
      <3>1. CASE saver /\ saved # None
        <4>1. saved \in GraphState
          BY <3>1 DEF TypeOK
        <4>2. state' = [saved EXCEPT !.source = input.source, !.glossary = input.glossary,
                                     !.next = "prepare"]
          BY <1>2, <3>1 DEF Start
        <4> QED
          BY <4>1, <4>2 DEF GraphState
      <3>2. CASE ~(saver /\ saved # None)
        BY <1>2, <3>2 DEF Start, Blank
      <3> QED
        BY <3>1, <3>2
    <2>3. input.glossary \in Int
      BY <2>1, GlossaryAssumption DEF Input
    <2> QED
      BY <2>1, <2>2, <2>3
  <1>3. CASE Prepare \/ Translate \/ Verify \/ Retry
    <2>1. at \in Node /\ state \in GraphState
      BY <1>3 DEF Prepare, Translate, Verify, Retry, Leave, TypeOK, Node
    <2>2. state'.glossary = state.glossary
      <3>1. CASE Prepare
        BY <3>1, <2>1 DEF Prepare, Leave, Prepared, Blank
      <3>2. CASE Translate
        BY <3>2, <2>1 DEF Translate, Leave, Translated, GraphState
      <3>3. CASE Verify
        <4>1. PICK score \in {"low", "high"} : state' = Verified(state, score)
          BY <3>3 DEF Verify, Leave
        <4> DEFINE v == [state EXCEPT !.judged = state.draft, !.score = score]
        <4>2. v \in GraphState /\ v.glossary = state.glossary
          BY <2>1 DEF GraphState, Score
        <4>3. state' = [v EXCEPT !.next = IF WantsRetry(v) THEN "retry" ELSE "terminology"]
          BY <4>1 DEF Verified
        <4> HIDE DEF v
        <4> QED
          BY <4>2, <4>3 DEF GraphState
      <3>4. CASE Retry
        BY <3>4, <2>1 DEF Retry, Leave, GraphState
      <3> QED
        BY <1>3, <3>1, <3>2, <3>3, <3>4
    <2>3. UNCHANGED <<input, saved, saver>>
      BY <1>3 DEF Prepare, Translate, Verify, Retry, Leave
    <2> QED
      BY <2>1, <2>2, <2>3 DEF OldGlossaryResumed, SameSource
  <1>4. CASE Save
    <2>1. saved' = state /\ saver' /\ state \in GraphState /\ state' = state /\ input' = input
      BY <1>4 DEF Save, run, TypeOK
    <2>2. state # None /\ state.source = input.source
      BY <2>1, SentinelAssumption DEF RunsItsText
    <2> QED
      BY <2>1, <2>2 DEF SameSource
  <1>5. CASE Reextract
    BY <1>5 DEF Reextract, OldGlossaryResumed, SameSource
  <1>6. CASE GlossaryChanges \/ UNCHANGED vars
    BY <1>6 DEF GlossaryChanges, vars, run, OldGlossaryResumed, SameSource
  <1>7. CASE Begin \/ Reuse \/ Terminology \/ Raise
    BY <1>7 DEF Begin, Reuse, Terminology, Raise, Node
  <1>8. CASE MarkFailed \/ Persist \/ Forget \/ Crash
    BY <1>8 DEF MarkFailed, Persist, Forget, Crash, EndRun, Node
  <1> QED
    BY <1>1, <1>2, <1>3, <1>4, <1>5, <1>6, <1>7, <1>8 DEF Next

\* A prompt lacks a term that was recorded before its run began only when the run
\* goes on from a checkpoint of its text that was written without the term: a
\* thread left by another text, or by a finished run, brings no old glossary.
THEOREM OldPromptsAreResumed == Spec => PromptsHoldTheGlossary
  <1>1. Init => OldGlossaryResumed
    BY DEF Init, OldGlossaryResumed, Node
  <1>2. OldGlossaryResumed =>
          (Translate /\ ~Copies(state) /\ state.glossary < input.glossary
           => SameSource /\ saved.glossary = state.glossary)
    BY DEF OldGlossaryResumed, Translate, Leave, Node
  <1> QED
    BY <1>1, <1>2, InitInv, NextInv, NextGlossary, PTL DEF Spec, PromptsHoldTheGlossary

-----------------------------------------------------------------------------
(* A run is short *)

\* A ranking of where a run is: the attempts it has left, three steps each
\* (translate, verify, retry), and the steps outside the loop.
AttemptsLeft(s) == MaxRetries + 1 - s.attempts

Rank(position, s) ==
    CASE position = "idle"        -> 0
      [] position = "mark"        -> 1
      [] position = "forget"      -> 1
      [] position = "persist"     -> 2
      [] position = "terminology" -> 3
      [] position = "verify"      -> 4 + 3 * AttemptsLeft(s)
      [] position = "translate"   -> 2 + 3 * AttemptsLeft(s) + (IF Copies(s) THEN 3 ELSE 0)
      [] position = "retry"       -> 3 + 3 * AttemptsLeft(s) + (IF Copies(s) THEN 3 ELSE 0)
      [] position = "prepare"     -> 6 + 3 * (MaxRetries + 1)
      [] position = "lookup"      -> 7 + 3 * (MaxRetries + 1)

StepsLeft == Rank(at, state)

\* What the run itself does, and what its worker's death does to it.
RunStep == Resume \/ Reuse \/ Start \/ Graph \/ Raise \/ MarkFailed \/ Persist \/ Forget \/ Crash

StepsBounded ==
    /\ StepsLeft \in 0 .. 7 + 3 * (MaxRetries + 1)
    /\ StepsLeft = 0 <=> at = "idle"

EachStepCounts == [][RunStep => StepsLeft' < StepsLeft]_vars

NothingSetsItBack == [][at # "idle" => StepsLeft' <= StepsLeft]_vars

LEMMA RankOfNode ==
  ASSUME NEW position \in Node, NEW s \in GraphState
  PROVE  /\ Rank(position, s) \in Int
         /\ 1 < Rank(position, s) /\ Rank(position, s) <= 6 + 3 * (MaxRetries + 1)
  <1>1. s.attempts \in 0 .. MaxRetries + 1
    BY DEF GraphState
  <1>2. CASE position = "prepare"
    BY <1>2, RetriesType DEF Rank
  <1>3. CASE position = "translate"
    BY <1>1, <1>3, RetriesType DEF Rank, AttemptsLeft
  <1>4. CASE position = "verify"
    BY <1>1, <1>4, RetriesType DEF Rank, AttemptsLeft
  <1>5. CASE position = "retry"
    BY <1>1, <1>5, RetriesType DEF Rank, AttemptsLeft
  <1>6. CASE position = "terminology"
    BY <1>6, RetriesType DEF Rank
  <1> QED
    BY <1>2, <1>3, <1>4, <1>5, <1>6 DEF Node

LEMMA RankOutside ==
  ASSUME NEW s
  PROVE  /\ Rank("idle", s) = 0 /\ Rank("mark", s) = 1 /\ Rank("forget", s) = 1
         /\ Rank("persist", s) = 2 /\ Rank("terminology", s) = 3
         /\ Rank("lookup", s) = 7 + 3 * (MaxRetries + 1)
         /\ Rank("prepare", s) = 6 + 3 * (MaxRetries + 1)
  BY DEF Rank

LEMMA CopiesAreNotRetried ==
  ASSUME NEW s \in GraphState, NEW score \in {"low", "high"}, Copies(s) => score = "high",
         Verified(s, score).next = "retry"
  PROVE  ~Copies(s)
  <1> DEFINE v == [s EXCEPT !.judged = s.draft, !.score = score]
  <1>1. v \in GraphState /\ v.score = score
    BY DEF GraphState, Score
  <1>2. Verified(s, score) = [v EXCEPT !.next = IF WantsRetry(v) THEN "retry" ELSE "terminology"]
    BY DEF Verified
  <1> HIDE DEF v
  <1>3. WantsRetry(v)
    BY <1>1, <1>2 DEF GraphState
  <1> QED
    BY <1>1, <1>3 DEF WantsRetry

LEMMA WithinBounds == GraphInv => StepsBounded
  <1> SUFFICES ASSUME GraphInv
               PROVE  StepsBounded
    OBVIOUS
  <1>1. at \in Node \union {"idle", "lookup", "persist", "forget", "mark"}
    BY DEF GraphInv, TypeOK
  <1>2. CASE at \in Node
    <2>1. state \in GraphState /\ at # "idle"
      BY <1>2 DEF GraphInv, TypeOK, Node
    <2> QED
      BY <1>2, <2>1, RankOfNode, RetriesType DEF StepsBounded, StepsLeft
  <1>3. CASE at \notin Node
    BY <1>1, <1>3, RankOutside, RetriesType DEF StepsBounded, StepsLeft
  <1> QED
    BY <1>2, <1>3

\* Every step of the run brings it nearer to its end: translate uses up an attempt,
\* and no other node leads back to translate without passing verify.
LEMMA RunStepCounts ==
  ASSUME GraphInv, RunStep
  PROVE  StepsLeft' < StepsLeft
  <1> USE DEF GraphInv
  <1> DEFINE B == MaxRetries + 1
  <1>0. StepsLeft \in Nat /\ (StepsLeft = 0 <=> at = "idle") /\ B \in Nat
    BY WithinBounds, RetriesType DEF StepsBounded
  <1>1. CASE Resume
    <2>1. saved \in GraphState /\ at = "lookup" /\ saved.next # "end"
      BY <1>1 DEF Resume, Unfinished, SameSource, TypeOK
    <2>2. saved.next \in Node
      BY <2>1 DEF GraphState
    <2>3. StepsLeft' = Rank(saved.next, saved)
      BY <1>1 DEF Resume, StepsLeft
    <2> QED
      BY <1>0, <2>1, <2>2, <2>3, RankOfNode, RankOutside DEF StepsLeft
  <1>2. CASE Reuse
    <2>1. at = "lookup" /\ at' = "persist"
      BY <1>2 DEF Reuse
    <2> QED
      BY <1>0, <2>1, RankOutside DEF StepsLeft
  <1>3. CASE Start
    <2>1. at = "lookup" /\ at' = "prepare"
      BY <1>3 DEF Start
    <2> QED
      BY <1>0, <2>1, RankOutside DEF StepsLeft
  <1>4. CASE Prepare
    <2>1. state \in GraphState /\ at = "prepare" /\ at' = "translate"
          /\ state' = Prepared(state) /\ Prepared(state).attempts = 0
      BY <1>4, PreparedState DEF Prepare, Leave, TypeOK, Node, Prepared, Blank
    <2>2. AttemptsLeft(Prepared(state)) = B
      BY <2>1, RetriesType DEF AttemptsLeft
    <2>3. Rank("translate", Prepared(state)) <= 5 + 3 * B
      BY <2>2, <1>0 DEF Rank
    <2> QED
      BY <1>0, <2>1, <2>3, RankOutside, RankOfNode, PreparedState DEF StepsLeft, Node
  <1>5. CASE Translate
    <2>1. state \in GraphState /\ Consistent(state) /\ state.next = "translate"
          /\ at = "translate" /\ at' = "verify" /\ state' = Translated(state)
      BY <1>5, TranslatedState DEF Translate, Leave, TypeOK, MemoryConsistent, Node
    <2>2. state.attempts \in 0 .. B
      BY <2>1 DEF GraphState
    <2>5. StepsLeft' = 4 + 3 * AttemptsLeft(Translated(state))
      BY <2>1 DEF StepsLeft, Rank
    <2>3. CASE Copies(state)
      <3>1. Translated(state).attempts = state.attempts
        BY <2>1, <2>3 DEF Translated, GraphState
      <3>2. AttemptsLeft(Translated(state)) = B - state.attempts
        BY <3>1, <2>2, <1>0, RetriesType DEF AttemptsLeft
      <3>3. StepsLeft = 2 + 3 * (B - state.attempts) + 3
        BY <2>1, <2>2, <2>3, <1>0, RetriesType DEF StepsLeft, Rank, AttemptsLeft
      <3>4. StepsLeft' = 4 + 3 * (B - state.attempts)
        BY <2>5, <3>2
      <3> QED
        BY <2>2, <3>3, <3>4, <1>0
    <2>4. CASE ~Copies(state)
      <3>1. Translated(state).attempts = state.attempts + 1
        BY <2>1, <2>4 DEF Translated, GraphState
      <3>2. AttemptsLeft(Translated(state)) = B - (state.attempts + 1)
        BY <3>1, <2>2, <1>0, RetriesType DEF AttemptsLeft
      <3>3. StepsLeft = 2 + 3 * (B - state.attempts) + 0
        BY <2>1, <2>2, <2>4, <1>0, RetriesType DEF StepsLeft, Rank, AttemptsLeft
      <3>4. StepsLeft' = 4 + 3 * (B - (state.attempts + 1))
        BY <2>5, <3>2
      <3> QED
        BY <2>2, <3>3, <3>4, <1>0
    <2> QED
      BY <2>3, <2>4
  <1>6. CASE Verify
    <2>1. state \in GraphState /\ Consistent(state) /\ state.next = "verify" /\ at = "verify"
      BY <1>6 DEF Verify, TypeOK, MemoryConsistent, Node
    <2>2. PICK score \in {"low", "high"} :
            (Copies(state) => score = "high") /\ Leave("verify", Verified(state, score))
      BY <1>6 DEF Verify
    <2> DEFINE v == Verified(state, score)
    <2>3. /\ state' = v /\ at' = v.next /\ v.next \in {"retry", "terminology"}
          /\ v.attempts = state.attempts /\ v.source = state.source
      BY <2>1, <2>2, VerifiedState DEF Leave
    <2>4. state.attempts \in 0 .. B
      BY <2>1 DEF GraphState
    <2>5. StepsLeft = 4 + 3 * (B - state.attempts)
      BY <2>1, <2>4, <1>0, RetriesType DEF StepsLeft, Rank, AttemptsLeft
    <2>6. CASE v.next = "terminology"
      BY <2>3, <2>4, <2>5, <2>6, <1>0, RankOutside DEF StepsLeft
    <2>7. CASE v.next = "retry"
      <3>1. ~Copies(state)
        BY <2>1, <2>2, <2>7, CopiesAreNotRetried
      <3>2. ~Copies(v) /\ AttemptsLeft(v) = B - state.attempts
        BY <3>1, <2>3, <2>4, <1>0, RetriesType DEF Copies, AttemptsLeft
      <3>3. StepsLeft' = 3 + 3 * (B - state.attempts)
        <4> HIDE DEF v
        <4>1. StepsLeft' = Rank("retry", v)
          BY <2>3, <2>7 DEF StepsLeft
        <4>2. Rank("retry", v) = 3 + 3 * (B - state.attempts) + 0
          BY <3>2 DEF Rank
        <4> QED
          BY <4>1, <4>2, <2>4, <1>0
      <3> QED
        BY <2>4, <2>5, <3>3, <1>0
    <2> QED
      BY <2>3, <2>6, <2>7
  <1>7. CASE Retry
    <2> DEFINE r == [state EXCEPT !.next = "translate"]
    <2>1. state \in GraphState /\ Consistent(state) /\ state.next = "retry" /\ at = "retry"
      BY <1>7 DEF Retry, Leave, TypeOK, MemoryConsistent, Node
    <2>2. r.attempts = state.attempts /\ r.source = state.source /\ r.next = "translate"
      BY <2>1 DEF GraphState
    <2>3. state' = r /\ at' = "translate"
      BY <1>7, <2>2 DEF Retry, Leave
    <2>4. (Copies(r) <=> Copies(state)) /\ AttemptsLeft(r) = AttemptsLeft(state)
      BY <2>2 DEF Copies, AttemptsLeft
    <2>5. AttemptsLeft(state) \in Int
      BY <2>1, <1>0, RetriesType DEF GraphState, AttemptsLeft
    <2> HIDE DEF r
    <2> QED
      BY <2>1, <2>3, <2>4, <2>5 DEF StepsLeft, Rank
  <1>8. CASE Terminology
    <2>1. at = "terminology" /\ at' = "persist"
      BY <1>8 DEF Terminology
    <2> QED
      BY <2>1, RankOutside DEF StepsLeft
  <1>9. CASE Raise
    <2>1. at \in Node \union {"lookup"} /\ at' = "mark" /\ (at \in Node => state \in GraphState)
      BY <1>9 DEF Raise, TypeOK
    <2>2. 1 < StepsLeft
      BY <2>1, <1>0, RankOfNode, RankOutside DEF StepsLeft
    <2> QED
      BY <2>1, <2>2, RankOutside DEF StepsLeft
  <1>10. CASE Persist /\ ~gone
    <2>1. at = "persist" /\ at' = "forget"
      BY <1>10 DEF Persist
    <2> QED
      BY <2>1, RankOutside DEF StepsLeft
  <1>11. CASE MarkFailed \/ (Persist /\ gone) \/ Forget \/ Crash
    <2>1. at # "idle" /\ at' = "idle"
      BY <1>11 DEF MarkFailed, Persist, Forget, Crash, EndRun
    <2> QED
      BY <2>1, <1>0, RankOutside DEF StepsLeft
  <1> QED
    BY <1>1, <1>2, <1>3, <1>4, <1>5, <1>6, <1>7, <1>8, <1>9, <1>10, <1>11
    DEF RunStep, Graph

LEMMA PrimedBounds == GraphInv' => StepsLeft' \in Nat
  <1>1. (GraphInv => StepsBounded)'
    BY WithinBounds, PTL
  <1> QED
    BY <1>1, RetriesType DEF StepsBounded

LEMMA OthersLeaveIt ==
  ASSUME GraphInv, [Next]_vars, at # "idle", ~RunStep
  PROVE  StepsLeft' = StepsLeft
  <1>1. ~Begin
    BY DEF Begin
  <1>2. CASE Save \/ GlossaryChanges
    BY <1>2 DEF Save, GlossaryChanges, run, StepsLeft
  <1>3. CASE Reextract
    BY <1>3 DEF Reextract, StepsLeft
  <1>4. CASE UNCHANGED vars
    BY <1>4 DEF vars, run, StepsLeft
  <1> QED
    BY <1>1, <1>2, <1>3, <1>4 DEF Next, RunStep, Graph

\* A run is over after at most 7 + 3 * (MaxRetries + 1) of its steps, whatever it
\* resumes from and however low its drafts score: each step lowers StepsLeft, which
\* is a natural number and nothing else raises while the run lasts.  With the
\* fairness of FairSpec this is what RunsEnd says.
THEOREM RunIsShort ==
    Spec => []StepsBounded /\ EachStepCounts /\ NothingSetsItBack
  <1>1. GraphInv /\ [Next]_vars => (RunStep => StepsLeft' < StepsLeft)
    BY RunStepCounts
  <1>2. GraphInv /\ [Next]_vars => (at # "idle" => StepsLeft' <= StepsLeft)
    <2> SUFFICES ASSUME GraphInv, [Next]_vars, at # "idle"
                 PROVE  StepsLeft' <= StepsLeft
      OBVIOUS
    <2>1. GraphInv'
      BY NextInv
    <2>2. StepsLeft \in Int
      BY WithinBounds, RetriesType DEF StepsBounded
    <2>3. CASE RunStep
      <3>1. StepsLeft' < StepsLeft /\ StepsLeft' \in Int
        BY <2>1, <2>3, RunStepCounts, PrimedBounds, RetriesType
      <3> QED
        BY <2>2, <3>1
    <2>4. CASE ~RunStep
      BY <2>2, <2>4, OthersLeaveIt
    <2> QED
      BY <2>3, <2>4
  <1>3. GraphInv => StepsBounded
    BY WithinBounds
  <1> QED
    BY <1>1, <1>2, <1>3, InitInv, NextInv, PTL DEF Spec, EachStepCounts, NothingSetsItBack
=============================================================================
