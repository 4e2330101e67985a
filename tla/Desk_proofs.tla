---------------------------- MODULE Desk_proofs ----------------------------
(***************************************************************************)
(* Proofs about Desk for every number of reviewers, suggestions, attempts, *)
(* texts and rows: marks and text agree, a suggestion changes the text it  *)
(* was made for, a decision falls on the verdict on the screen, and the    *)
(* page that stops listening has the last row or fetches it, but for the   *)
(* cases the properties name.                                              *)
(*                                                                         *)
(* Two facts carry the proofs.  A text that is not on record as crossed is *)
(* the newest one, and what a decision has read is either still so at its  *)
(* commit, or its text is on record.                                       *)
(***************************************************************************)
EXTENDS Desk, TLAPS

-----------------------------------------------------------------------------
(* The inductive invariant *)

TextNow == [base : 0..writings, with : SUBSET ((DOMAIN verdicts) \X Suggested)]

\* What a decision has read, and what it is about to write.
Reading(D) ==
    /\ D.verdict \in DOMAIN verdicts
    /\ D.read \in TextNow
    /\ D.was \in [Suggested -> Mark]
    /\ \E s \in Suggested, mark \in {"accepted", "rejected"} :
           /\ D.marks = [D.was EXCEPT ![s] = mark]
           /\ D.writes <=> mark = "accepted" /\ s \notin Spanless
           /\ D.writes => D.text \in Replaced(D.read, D.verdict, s)
           /\ ~D.writes => D.text = D.read

\* Each text has at most one verdict, and later verdicts are of later texts.
Verdicts ==
    /\ verdicts \in Seq(Verdict) /\ Len(verdicts) <= writings
    /\ \A i \in DOMAIN verdicts : verdicts[i].base <= writings
    /\ \A i, j \in DOMAIN verdicts : i < j => verdicts[i].base < verdicts[j].base

SuggestionTypes ==
    /\ writings \in 0..MaxTexts
    /\ crossed \subseteq 0..writings
    /\ Verdicts
    /\ text \in TextNow
    /\ DOMAIN deciding = Deciders
    /\ \A d \in Deciders :
           /\ deciding[d].at \in {"idle", "read"}
           /\ deciding[d].at = "read" => Reading(deciding[d])

IsLatest(i) ==
    \A j \in DOMAIN verdicts :
        \/ verdicts[j].attempt < verdicts[i].attempt
        \/ verdicts[j].attempt = verdicts[i].attempt /\ j <= i

HasLatest == verdicts # <<>> => \E i \in DOMAIN verdicts : IsLatest(i)

NewestText == text.base \notin crossed => text.base = writings

\* Verdict v is the one latest_verification may take for text b.
Fits(v, b) ==
    \/ verdicts[v].base = b
    \/ \A i \in DOMAIN verdicts : verdicts[i].base # b
    \/ \E i \in DOMAIN verdicts : verdicts[i].base = b /\ verdicts[i].attempt < verdicts[v].attempt

ReadingsFit ==
    \A d \in Deciders : deciding[d].at = "read" =>
        LET D == deciding[d] IN D.read.base \notin crossed => Fits(D.verdict, D.read.base)

TextFits == text.base \notin crossed => \A w \in text.with : Fits(w[1], text.base)

\* Who decides on the newest text decides on the verdict that is the latest still, and
\* so all that is replaced in a text is of one verdict.
ReadingsLatest ==
    \A d \in Deciders : deciding[d].at = "read" /\ deciding[d].read.base = writings =>
        IsLatest(deciding[d].verdict)

TextLatest == text.base \notin crossed => \A w \in text.with : IsLatest(w[1])

SuggestionsInv ==
    /\ SuggestionTypes /\ HasLatest /\ NewestText /\ ReadingsFit /\ TextFits
    /\ ReadingsLatest /\ TextLatest /\ MarksMatchText

\* A fetch that saw the last row saw the verdict that came with it.
ScreenInv ==
    /\ Len(verdicts) = rows /\ due \in 0..rows
    /\ DOMAIN page = {"job", "rows", "live", "loaded"} /\ page.rows \in 0..rows
    /\ DOMAIN fetching = Query
    /\ fetching["chunks"].at = "answered" =>
           /\ fetching["chunks"].got \in 0..rows
           /\ fetching["chunks"].got = rows => coming = Sent
    /\ page.rows = rows => shown = Sent

DeskInv == SuggestionsInv /\ ScreenInv

-----------------------------------------------------------------------------
(* The latest verdict *)

LEMMA VerdictFacts ==
  ASSUME Verdicts, NEW j \in DOMAIN verdicts
  PROVE  /\ DOMAIN verdicts = 1..Len(verdicts) /\ Len(verdicts) \in Nat /\ j \in Nat
         /\ verdicts[j] \in Verdict
         /\ verdicts[j].base \in Nat /\ verdicts[j].base <= writings
         /\ verdicts[j].attempt \in Nat /\ verdicts[j].marks \in [Suggested -> Mark]
  <1>1. verdicts \in Seq(Verdict)
    BY DEF Verdicts
  <1>2. DOMAIN verdicts = 1..Len(verdicts) /\ Len(verdicts) \in Nat /\ j \in Nat
    BY <1>1
  <1>3. verdicts[j] \in Verdict
    BY <1>1
  <1>4. verdicts[j].base \in Nat /\ verdicts[j].attempt \in Nat
    <2>1. verdicts[j].base \in 1..MaxTexts /\ verdicts[j].attempt \in Attempts
      BY <1>3 DEF Verdict
    <2>2. Attempts \subseteq Nat
      BY SuggestedAssumption DEF SuggestedAssumption
    <2>3. verdicts[j].base \in Nat
      BY <2>1, TextsAssumption DEF TextsAssumption
    <2> QED
      BY <2>1, <2>2, <2>3
  <1> QED
    BY <1>2, <1>3, <1>4 DEF Verdicts, Verdict

LEMMA LatestIsOne ==
  ASSUME Verdicts, NEW i \in DOMAIN verdicts, IsLatest(i)
  PROVE  LatestVerification = i
  <1>1. \A j \in DOMAIN verdicts : verdicts[j].attempt \in Nat /\ j \in Nat
    BY VerdictFacts
  <1>2. \A j \in DOMAIN verdicts : IsLatest(j) => j = i
    BY <1>1 DEF IsLatest
  <1> QED
    BY <1>2 DEF LatestVerification, IsLatest

LEMMA LatestFacts ==
  ASSUME Verdicts, HasLatest, verdicts # <<>>
  PROVE  LatestVerification \in DOMAIN verdicts /\ IsLatest(LatestVerification)
  BY LatestIsOne DEF HasLatest

\* A decision falls on a verdict that fits the text it reads.
LEMMA LatestFits ==
  ASSUME SuggestionTypes, HasLatest, NewestText, verdicts # <<>>, text.base \notin crossed
  PROVE  Fits(LatestVerification, text.base)
  <1> DEFINE v == LatestVerification
  <1>1. Verdicts /\ v \in DOMAIN verdicts /\ IsLatest(v)
    BY LatestFacts DEF SuggestionTypes
  <1>2. SUFFICES ASSUME NEW i \in DOMAIN verdicts, verdicts[i].base = text.base,
                        verdicts[v].base # text.base
                 PROVE  verdicts[i].attempt < verdicts[v].attempt
    BY DEF Fits
  <1>3. \A j \in DOMAIN verdicts : j \in Nat /\ verdicts[j].base \in Nat /\ verdicts[j].base <= writings
    BY <1>1, VerdictFacts
  <1>4. text.base = writings /\ writings \in Nat
    BY TextsAssumption DEF NewestText, SuggestionTypes, TextsAssumption
  <1>5. i # v /\ ~ i < v
    BY <1>1, <1>2, <1>3, <1>4 DEF Verdicts
  <1> HIDE DEF v
  <1> QED
    BY <1>1, <1>3, <1>5 DEF IsLatest

-----------------------------------------------------------------------------
(* Texts, verdicts and decisions *)

\* A replacement is in the text, and what it costs are replacements it touches.
LEMMA ReplacedFacts ==
  ASSUME NEW t \in TextNow, NEW v \in DOMAIN verdicts, NEW s \in Suggested,
         NEW x \in Replaced(t, v, s)
  PROVE  /\ x \in TextNow /\ x.base = t.base
         /\ <<v, s>> \in x.with
         /\ \A w \in x.with : w \in t.with \/ w = <<v, s>>
         /\ \A w \in t.with : w \in x.with \/ (w[1] = v => <<s, w[2]>> \in Touches)
  <1>1. PICK lost \in SUBSET {w \in t.with : w[1] = v => <<s, w[2]>> \in Touches} :
            x = [t EXCEPT !.with = (@ \ lost) \cup {<<v, s>>}]
    BY DEF Replaced
  <1>2. x.base = t.base /\ x.with = (t.with \ lost) \cup {<<v, s>>}
    BY <1>1 DEF TextNow
  <1>3. <<v, s>> \in (DOMAIN verdicts) \X Suggested
    OBVIOUS
  <1>4. x \in TextNow
    BY <1>1, <1>3 DEF TextNow
  <1> QED
    BY <1>2, <1>4

LEMMA InitSuggestions == SuggestionsInit => SuggestionsInv
  <1> SUFFICES ASSUME SuggestionsInit
               PROVE  SuggestionsInv
    OBVIOUS
  <1>1. verdicts = <<>> /\ verdicts \in Seq(Verdict) /\ Len(verdicts) = 0 /\ DOMAIN verdicts = {}
    BY DEF SuggestionsInit
  <1>2. text.base = 0 /\ text.with = {} /\ writings = 0 /\ crossed = {}
    BY DEF SuggestionsInit
  <1>3. \A d \in Deciders : deciding[d].at = "idle"
    BY DEF SuggestionsInit, NotDeciding
  <1>4. text \in TextNow
    BY <1>2 DEF SuggestionsInit, TextNow
  <1>5. SuggestionTypes
    BY <1>1, <1>2, <1>3, <1>4, TextsAssumption
       DEF SuggestionTypes, Verdicts, SuggestionsInit, TextsAssumption
  <1> QED
    BY <1>1, <1>2, <1>3, <1>5 DEF SuggestionsInv, HasLatest, NewestText, ReadingsFit, TextFits,
       ReadingsLatest, TextLatest, MarksMatchText

\* Readings and fits outlive what is written after them.
LEMMA StableFacts ==
  ASSUME SuggestionTypes,
         writings' \in Nat, writings <= writings',
         DOMAIN verdicts \subseteq DOMAIN verdicts',
         \A i \in DOMAIN verdicts : /\ verdicts'[i].base = verdicts[i].base
                                    /\ verdicts'[i].attempt = verdicts[i].attempt,
         \A i \in DOMAIN verdicts' \ DOMAIN verdicts : verdicts'[i].base > writings
  PROVE  /\ \A t \in TextNow : t \in TextNow'
         /\ \A D : Reading(D) => Reading(D)'
         /\ \A v \in DOMAIN verdicts, b \in 0..writings : Fits(v, b) => Fits(v, b)'
  <1>0. writings \in Nat
    BY TextsAssumption DEF SuggestionTypes, TextsAssumption
  <1>1. 0..writings \subseteq 0..(writings')
    BY <1>0
  <1>2. \A t \in TextNow : t \in TextNow'
    BY <1>1 DEF TextNow
  <1>3. \A D : Reading(D) => Reading(D)'
    BY <1>2 DEF Reading
  <1>4. ASSUME NEW v \in DOMAIN verdicts, NEW b \in 0..writings, Fits(v, b)
        PROVE  Fits(v, b)'
    <2>1. CASE verdicts[v].base = b
      BY <2>1 DEF Fits
    <2>2. CASE \A i \in DOMAIN verdicts : verdicts[i].base # b
      <3>1. \A i \in DOMAIN verdicts' : verdicts'[i].base # b
        BY <1>0, <2>2
      <3> QED
        BY <3>1 DEF Fits
    <2>3. CASE \E i \in DOMAIN verdicts :
                   verdicts[i].base = b /\ verdicts[i].attempt < verdicts[v].attempt
      BY <2>3 DEF Fits
    <2> QED
      BY <1>4, <2>1, <2>2, <2>3 DEF Fits
  <1> QED
    BY <1>2, <1>3, <1>4

\* What a new text finds.
LEMMA WrittenFacts ==
  ASSUME SuggestionTypes, Written
  PROVE  /\ writings \in Nat /\ writings' = writings + 1 /\ writings' \in 0..MaxTexts
         /\ text'.base = writings' /\ text'.with = {}
         /\ text' \in [base : 0..(writings'), with : {{}}]
         /\ deciding' = deciding /\ crossed' = crossed
         /\ text'.base \notin crossed
  <1>1. writings \in Nat /\ writings' = writings + 1 /\ writings' \in 0..MaxTexts
    BY TextsAssumption DEF SuggestionTypes, Written, TextsAssumption
  <1>2. text' = [base |-> writings + 1, with |-> {}]
    BY DEF Written
  <1>3. crossed \subseteq 0..writings
    BY DEF SuggestionTypes
  <1> QED
    BY <1>1, <1>2, <1>3 DEF Written

LEMMA PersistStep ==
  ASSUME SuggestionsInv, NEW a \in Attempts, Persist(a)
  PROVE  SuggestionsInv'
  <1> DEFINE new == [base |-> writings + 1, attempt |-> a,
                     marks |-> [s \in Suggested |-> "pending"]]
  <1> PICK n : n = Len(verdicts)
    OBVIOUS
  <1>0. SuggestionTypes /\ Verdicts /\ HasLatest /\ ReadingsFit /\ MarksMatchText
    BY DEF SuggestionsInv, SuggestionTypes
  <1>1. /\ writings \in Nat /\ writings' = writings + 1 /\ writings' \in 0..MaxTexts
        /\ text'.base = writings' /\ text'.with = {}
        /\ text' \in [base : 0..(writings'), with : {{}}]
        /\ deciding' = deciding /\ crossed' = crossed
        /\ text'.base \notin crossed
    BY <1>0, WrittenFacts DEF Persist
  <1>2. new \in Verdict /\ new.base = writings' /\ new.attempt = a /\ a \in Nat
        /\ \A s \in Suggested : new.marks[s] = "pending"
    BY <1>1, SuggestedAssumption DEF Verdict, Mark, SuggestedAssumption
  <1>3. verdicts' = Append(verdicts, new)
    BY DEF Persist
  <1> HIDE DEF new
  <1>4. verdicts \in Seq(Verdict) /\ n \in Nat /\ DOMAIN verdicts = 1..n /\ n <= writings
    BY <1>0 DEF Verdicts
  <1>5. /\ verdicts' \in Seq(Verdict) /\ Len(verdicts') = n + 1
        /\ DOMAIN verdicts' = (DOMAIN verdicts) \cup {n + 1} /\ n + 1 \notin DOMAIN verdicts
        /\ \A i \in DOMAIN verdicts : verdicts'[i] = verdicts[i]
        /\ verdicts'[n + 1] = new
    BY <1>2, <1>3, <1>4
  <1>6. \A i \in DOMAIN verdicts : /\ i \in Nat /\ i < n + 1
                                   /\ verdicts[i].base \in Nat /\ verdicts[i].base <= writings
                                   /\ verdicts[i].attempt \in Nat
    BY <1>0, <1>4, VerdictFacts
  <1>7. Verdicts'
    <2>1. \A i \in DOMAIN verdicts' : verdicts'[i].base <= writings'
      BY <1>1, <1>2, <1>5, <1>6
    <2>2. \A i, j \in DOMAIN verdicts' : i < j => verdicts'[i].base < verdicts'[j].base
      <3> SUFFICES ASSUME NEW i \in DOMAIN verdicts', NEW j \in DOMAIN verdicts', i < j
                   PROVE  verdicts'[i].base < verdicts'[j].base
        OBVIOUS
      <3>1. i \in DOMAIN verdicts
        BY <1>4, <1>5, <1>6
      <3>2. CASE j \in DOMAIN verdicts
        BY <1>0, <1>5, <3>1, <3>2 DEF Verdicts
      <3>3. CASE j = n + 1
        BY <1>1, <1>2, <1>5, <1>6, <3>1, <3>3
      <3> QED
        BY <1>5, <3>2, <3>3
    <2> QED
      BY <1>1, <1>4, <1>5, <2>1, <2>2 DEF Verdicts
  <1>8. /\ \A D : Reading(D) => Reading(D)'
        /\ \A v \in DOMAIN verdicts, b \in 0..writings : Fits(v, b) => Fits(v, b)'
    <2>1. \A i \in DOMAIN verdicts' \ DOMAIN verdicts : verdicts'[i].base > writings
      BY <1>1, <1>2, <1>5
    <2>2. writings <= writings'
      BY <1>1
    <2> QED
      BY <1>0, <1>1, <1>5, <2>1, <2>2, StableFacts
  <1>9. SuggestionTypes'
    <2>1. text' \in TextNow'
      BY <1>1 DEF TextNow
    <2>2. crossed' \subseteq 0..(writings')
      BY <1>0, <1>1 DEF SuggestionTypes
    <2> QED
      BY <1>0, <1>1, <1>7, <1>8, <2>1, <2>2 DEF SuggestionTypes
  <1>10. HasLatest'
    <2>1. CASE \A j \in DOMAIN verdicts : verdicts[j].attempt <= a
      <3>1. IsLatest(n + 1)'
        BY <1>2, <1>4, <1>5, <1>6, <2>1 DEF IsLatest
      <3> QED
        BY <1>5, <3>1 DEF HasLatest
    <2>2. CASE \E j \in DOMAIN verdicts : ~(verdicts[j].attempt <= a)
      <3>1. PICK j \in DOMAIN verdicts : ~(verdicts[j].attempt <= a)
        BY <2>2
      <3>2. verdicts # <<>>
        BY <1>4, <3>1
      <3>3. PICK i \in DOMAIN verdicts : IsLatest(i)
        BY <1>0, <3>2 DEF HasLatest
      <3>4. a < verdicts[i].attempt
        BY <1>2, <1>6, <3>1, <3>3 DEF IsLatest
      <3>5. IsLatest(i)'
        BY <1>2, <1>5, <3>3, <3>4 DEF IsLatest
      <3> QED
        BY <1>5, <3>5 DEF HasLatest
    <2> QED
      BY <2>1, <2>2
  <1>11. NewestText'
    BY <1>1 DEF NewestText
  <1>12. ReadingsFit'
    <2> SUFFICES ASSUME NEW d \in Deciders, deciding[d].at = "read",
                        deciding[d].read.base \notin crossed
                 PROVE  Fits(deciding[d].verdict, deciding[d].read.base)'
      BY <1>1 DEF ReadingsFit
    <2>1. deciding[d].verdict \in DOMAIN verdicts /\ deciding[d].read.base \in 0..writings
      BY <1>0 DEF SuggestionTypes, Reading, TextNow
    <2> QED
      BY <1>0, <1>1, <1>8, <2>1 DEF ReadingsFit
  <1>13. TextFits' /\ TextLatest' /\ ReadingsLatest'
    <2>1. \A d \in Deciders : deciding[d].at = "read" => deciding[d].read.base # writings'
      BY <1>0, <1>1 DEF SuggestionTypes, Reading, TextNow
    <2> QED
      BY <1>1, <2>1 DEF TextFits, TextLatest, ReadingsLatest
  <1>14. MarksMatchText'
    <2>1. \A i \in DOMAIN verdicts' : verdicts'[i].base = text'.base => i = n + 1
      BY <1>1, <1>5, <1>6
    <2> QED
      BY <1>1, <1>2, <1>5, <2>1 DEF MarksMatchText
  <1> QED
    BY <1>9, <1>10, <1>11, <1>12, <1>13, <1>14 DEF SuggestionsInv

LEMMA EditStep ==
  ASSUME SuggestionsInv, EditTranslation
  PROVE  SuggestionsInv'
  <1>0. SuggestionTypes /\ Verdicts /\ HasLatest /\ ReadingsFit
    BY DEF SuggestionsInv, SuggestionTypes
  <1>1. /\ writings \in Nat /\ writings' = writings + 1 /\ writings' \in 0..MaxTexts
        /\ text'.base = writings' /\ text'.with = {}
        /\ text' \in [base : 0..(writings'), with : {{}}]
        /\ deciding' = deciding /\ crossed' = crossed
        /\ text'.base \notin crossed
    BY <1>0, WrittenFacts DEF EditTranslation
  <1>2. verdicts' = verdicts
    BY DEF EditTranslation
  <1>3. \A i \in DOMAIN verdicts : verdicts[i].base \in Nat /\ verdicts[i].base <= writings
    BY <1>0, VerdictFacts
  <1>4. /\ \A D : Reading(D) => Reading(D)'
        /\ \A v \in DOMAIN verdicts, b \in 0..writings : Fits(v, b) => Fits(v, b)'
    <2>1. writings <= writings'
      BY <1>1
    <2> QED
      BY <1>0, <1>1, <1>2, <2>1, StableFacts
  <1>5. SuggestionTypes'
    <2>1. text' \in TextNow'
      BY <1>1 DEF TextNow
    <2>2. crossed' \subseteq 0..(writings')
      BY <1>0, <1>1 DEF SuggestionTypes
    <2>3. Verdicts'
      <3>1. Len(verdicts) \in Nat /\ Len(verdicts) <= writings'
        BY <1>0, <1>1 DEF Verdicts
      <3>2. \A i \in DOMAIN verdicts : verdicts[i].base <= writings'
        BY <1>1, <1>3
      <3> QED
        BY <1>0, <1>2, <3>1, <3>2 DEF Verdicts
    <2> QED
      BY <1>0, <1>1, <1>4, <2>1, <2>2, <2>3 DEF SuggestionTypes
  <1>6. HasLatest' /\ NewestText' /\ TextFits' /\ TextLatest' /\ ReadingsLatest'
    <2>1. \A d \in Deciders : deciding[d].at = "read" => deciding[d].read.base # writings'
      BY <1>0, <1>1 DEF SuggestionTypes, Reading, TextNow
    <2> QED
      BY <1>0, <1>1, <1>2, <2>1
      DEF HasLatest, IsLatest, NewestText, TextFits, TextLatest, ReadingsLatest
  <1>7. ReadingsFit'
    <2> SUFFICES ASSUME NEW d \in Deciders, deciding[d].at = "read",
                        deciding[d].read.base \notin crossed
                 PROVE  Fits(deciding[d].verdict, deciding[d].read.base)'
      BY <1>1 DEF ReadingsFit
    <2>1. deciding[d].verdict \in DOMAIN verdicts /\ deciding[d].read.base \in 0..writings
      BY <1>0 DEF SuggestionTypes, Reading, TextNow
    <2> QED
      BY <1>0, <1>1, <1>4, <2>1 DEF ReadingsFit
  <1>8. MarksMatchText'
    <2>1. \A i \in DOMAIN verdicts : verdicts[i].base # text'.base
      BY <1>1, <1>3
    <2> QED
      BY <1>1, <1>2, <2>1 DEF MarksMatchText
  <1> QED
    BY <1>5, <1>6, <1>7, <1>8 DEF SuggestionsInv

LEMMA DecideStep ==
  ASSUME SuggestionsInv, NEW d \in Deciders, NEW s \in Suggested, NEW mark \in {"accepted", "rejected"},
         DecideSuggestion(d, s, mark)
  PROVE  SuggestionsInv'
  <1> DEFINE v == LatestVerification
             replaces == mark = "accepted" /\ s \notin Spanless
             new(t) == [at |-> "read", verdict |-> v, read |-> text, was |-> verdicts[v].marks,
                        marks |-> [verdicts[v].marks EXCEPT ![s] = mark], writes |-> replaces,
                        text |-> t]
  <1>0. SuggestionTypes /\ Verdicts /\ HasLatest /\ NewestText /\ ReadingsFit /\ TextFits
        /\ ReadingsLatest /\ TextLatest /\ MarksMatchText
    BY DEF SuggestionsInv, SuggestionTypes
  <1> PICK t \in IF replaces THEN Replaced(text, v, s) ELSE {text} :
            deciding' = [deciding EXCEPT ![d] = new(t)]
    BY DEF DecideSuggestion
  <1>1. verdicts # <<>> /\ UNCHANGED <<text, verdicts, writings, crossed>>
    BY DEF DecideSuggestion
  <1>2. v \in DOMAIN verdicts
    BY <1>0, <1>1, LatestFacts
  <1>3. verdicts[v].marks \in [Suggested -> Mark]
    BY <1>0, <1>2, VerdictFacts
  <1> DEFINE D == new(t)
  <1>4. /\ D.at = "read" /\ D.verdict = v /\ D.read = text
        /\ D.was = verdicts[v].marks /\ D.marks = [D.was EXCEPT ![s] = mark]
        /\ D.writes <=> replaces
        /\ D.writes => D.text \in Replaced(text, v, s)
        /\ ~D.writes => D.text = text
    OBVIOUS
  <1>5. /\ text.base \notin crossed => Fits(v, text.base)
        /\ IsLatest(v)
    BY <1>0, <1>1, LatestFits, LatestFacts
  <1>7. /\ DOMAIN deciding' = Deciders /\ deciding'[d] = D
        /\ \A e \in Deciders \ {d} : deciding'[e] = deciding[e]
    BY <1>0, <1>1 DEF SuggestionTypes
  <1> HIDE DEF v, D
  <1>6. Reading(D)
    BY <1>0, <1>2, <1>3, <1>4 DEF Reading, SuggestionTypes
  <1>8. \A E : Reading(E)' <=> Reading(E)
    BY <1>1 DEF Reading, TextNow
  <1>9. SuggestionTypes'
    BY <1>0, <1>1, <1>4, <1>6, <1>7, <1>8 DEF SuggestionTypes, Verdicts, TextNow
  <1>10. \A w, b : Fits(w, b)' <=> Fits(w, b)
    BY <1>1 DEF Fits
  <1>11. HasLatest' /\ NewestText' /\ TextFits' /\ TextLatest' /\ MarksMatchText'
    BY <1>0, <1>1 DEF HasLatest, IsLatest, NewestText, TextFits, TextLatest, MarksMatchText, Fits
  <1>12. ReadingsFit' /\ ReadingsLatest'
    <2>1. \A w : IsLatest(w)' <=> IsLatest(w)
      BY <1>1 DEF IsLatest
    <2> QED
      BY <1>0, <1>1, <1>4, <1>5, <1>7, <1>10, <2>1 DEF ReadingsFit, ReadingsLatest
  <1> QED
    BY <1>9, <1>11, <1>12 DEF SuggestionsInv

LEMMA CommitStep ==
  ASSUME SuggestionsInv, NEW d \in Deciders, CommitSuggestion(d)
  PROVE  SuggestionsInv'
  <1> DEFINE D == deciding[d]
             v == D.verdict
             same == text = D.read /\ verdicts[v].marks = D.was
  <1>0. SuggestionTypes /\ Verdicts /\ HasLatest /\ NewestText /\ ReadingsFit /\ TextFits
        /\ ReadingsLatest /\ TextLatest /\ MarksMatchText
    BY DEF SuggestionsInv, SuggestionTypes
  <1>1. /\ D.at = "read" /\ text' = TextAfter(D) /\ UNCHANGED writings
        /\ deciding' = [deciding EXCEPT ![d] = NotDeciding]
        /\ crossed' = IF same THEN crossed
                      ELSE crossed \cup {text.base, D.read.base, verdicts[v].base}
    BY DEF CommitSuggestion
  <1>2. /\ v \in DOMAIN verdicts /\ D.read \in TextNow /\ D.was \in [Suggested -> Mark]
        /\ writings \in Nat /\ text \in TextNow
    BY <1>0, <1>1, TextsAssumption DEF SuggestionTypes, Reading, TextsAssumption
  <1>3. PICK s \in Suggested, mark \in {"accepted", "rejected"} :
            /\ D.marks = [D.was EXCEPT ![s] = mark]
            /\ D.writes <=> mark = "accepted" /\ s \notin Spanless
            /\ D.writes => D.text \in Replaced(D.read, v, s)
            /\ ~D.writes => D.text = D.read
    BY <1>0, <1>1 DEF SuggestionTypes, Reading
  <1>4. /\ D.marks \in [Suggested -> Mark] /\ D.marks[s] = mark
        /\ \A r \in Suggested \ {s} : D.marks[r] = D.was[r]
    BY <1>2, <1>3 DEF Mark
  <1>5. verdicts[v].marks \in [Suggested -> Mark] /\ verdicts \in Seq(Verdict)
    BY <1>0, <1>2, VerdictFacts DEF Verdicts
  <1>6. /\ MarksAfter(D) \in [Suggested -> Mark]
        /\ verdicts[v].marks = D.was => MarksAfter(D) = D.marks
    BY <1>4, <1>5 DEF MarksAfter
  <1>7. /\ verdicts' \in Seq(Verdict) /\ DOMAIN verdicts' = DOMAIN verdicts
        /\ Len(verdicts') = Len(verdicts)
        /\ \A i \in DOMAIN verdicts : /\ verdicts'[i].base = verdicts[i].base
                                      /\ verdicts'[i].attempt = verdicts[i].attempt
        /\ \A i \in DOMAIN verdicts \ {v} : verdicts'[i] = verdicts[i]
        /\ verdicts'[v].marks = MarksAfter(D)
    <2> DEFINE new == [verdicts[v] EXCEPT !.marks = MarksAfter(D)]
    <2>1. verdicts' = [verdicts EXCEPT ![v] = new]
      BY DEF CommitSuggestion
    <2>2. verdicts[v] \in Verdict
      BY <1>0, <1>2, VerdictFacts
    <2>3. /\ new \in Verdict /\ new.base = verdicts[v].base /\ new.attempt = verdicts[v].attempt
          /\ new.marks = MarksAfter(D)
      BY <1>6, <2>2 DEF Verdict
    <2> HIDE DEF new
    <2> QED
      BY <1>2, <1>5, <2>1, <2>3
  <1>8. /\ text'.base \in {text.base, D.read.base} /\ text' \in TextNow
        /\ text = D.read =>
               /\ text'.base = text.base
               /\ \A w \in text'.with : w \in text.with \/ (w = <<v, s>> /\ D.writes)
               /\ D.writes => <<v, s>> \in text'.with
               /\ \A w \in text.with :
                      \/ w \in text'.with
                      \/ D.writes /\ (w[1] = v => <<s, w[2]>> \in Touches)
    <2>1. CASE D.writes
      <3>1. text' \in Replaced(D.read, v, s)
        BY <1>1, <1>3, <2>1 DEF TextAfter
      <3>2. v \in DOMAIN verdicts /\ D.read \in TextNow
        BY <1>2
      <3> HIDE DEF v, D
      <3> QED
        BY <2>1, <3>1, <3>2, ReplacedFacts
    <2>2. CASE ~D.writes
      BY <1>1, <1>2, <2>2 DEF TextAfter
    <2> QED
      BY <2>1, <2>2
  <1>9. /\ crossed \subseteq crossed' /\ crossed' \subseteq 0..writings
        /\ ~same => text'.base \in crossed' /\ verdicts[v].base \in crossed'
    <2>1. text.base \in 0..writings /\ D.read.base \in 0..writings
      BY <1>2 DEF TextNow
    <2>2. verdicts[v].base \in 0..writings
      BY <1>0, <1>2, VerdictFacts
    <2> QED
      BY <1>0, <1>1, <1>8, <2>1, <2>2 DEF SuggestionTypes
  <1>10. same => crossed' = crossed
    BY <1>1
  <1>11. /\ DOMAIN deciding' = Deciders /\ deciding'[d].at = "idle"
         /\ \A e \in Deciders \ {d} : deciding'[e] = deciding[e]
    BY <1>0, <1>1 DEF SuggestionTypes, NotDeciding
  <1>12. /\ \A E : Reading(E) => Reading(E)'
         /\ \A w \in DOMAIN verdicts : \A b : Fits(w, b) => Fits(w, b)'
         /\ TextNow' = TextNow
    BY <1>1, <1>7 DEF Reading, TextNow, Fits
  <1> HIDE DEF v, D, same
  <1>13. SuggestionTypes'
    <2>1. Verdicts'
      BY <1>0, <1>1, <1>7 DEF Verdicts
    <2>2. \A e \in Deciders : /\ deciding'[e].at \in {"idle", "read"}
                              /\ deciding'[e].at = "read" => Reading(deciding[e])'
      <3> SUFFICES ASSUME NEW e \in Deciders, e # d
                   PROVE  /\ deciding'[e].at \in {"idle", "read"}
                          /\ deciding'[e].at = "read" => Reading(deciding[e])'
        BY <1>11
      <3> QED
        BY <1>0, <1>11, <1>12 DEF SuggestionTypes
    <2> QED
      BY <1>0, <1>1, <1>8, <1>9, <1>11, <1>12, <2>1, <2>2 DEF SuggestionTypes
  <1>20. \A w \in DOMAIN verdicts : IsLatest(w) => IsLatest(w)'
    BY <1>7 DEF IsLatest
  <1>21. text = D.read /\ text.base \notin crossed => IsLatest(v)
    BY <1>0, <1>1 DEF ReadingsLatest, NewestText, v, D
  <1>14. HasLatest'
    <2>1. verdicts # <<>>
      BY <1>2
    <2>2. PICK i \in DOMAIN verdicts : IsLatest(i)
      BY <1>0, <2>1 DEF HasLatest
    <2>3. IsLatest(i)'
      BY <1>7, <2>2 DEF IsLatest
    <2> QED
      BY <1>7, <2>3 DEF HasLatest
  <1>15. NewestText'
    BY <1>0, <1>1, <1>8, <1>9 DEF NewestText, same
  <1>16. ReadingsFit'
    <2> SUFFICES ASSUME NEW e \in Deciders, deciding'[e].at = "read",
                        deciding'[e].read.base \notin crossed'
                 PROVE  Fits(deciding[e].verdict, deciding[e].read.base)'
      BY DEF ReadingsFit
    <2>1. deciding'[e] = deciding[e] /\ deciding[e].at = "read"
          /\ deciding[e].read.base \notin crossed
      BY <1>9, <1>11
    <2>2. deciding[e].verdict \in DOMAIN verdicts
      BY <1>0, <2>1 DEF SuggestionTypes, Reading
    <2> QED
      BY <1>0, <1>12, <2>1, <2>2 DEF ReadingsFit
  <1>17. TextFits' /\ TextLatest'
    <2> SUFFICES ASSUME text'.base \notin crossed', NEW w \in text'.with
                 PROVE  Fits(w[1], text.base)' /\ IsLatest(w[1])'
      BY DEF TextFits, TextLatest
    <2>1. /\ text = D.read /\ crossed' = crossed /\ text'.base = text.base
          /\ w \in text.with \/ w = <<v, s>>
      BY <1>8, <1>9, <1>10 DEF same
    <2>2. w[1] \in DOMAIN verdicts
      BY <1>2, <2>1 DEF TextNow
    <2>3. Fits(w[1], text.base)
      <3>1. CASE w \in text.with
        BY <1>0, <2>1, <3>1 DEF TextFits
      <3>2. CASE w = <<v, s>>
        BY <1>0, <1>1, <2>1, <3>2 DEF ReadingsFit, v, D
      <3> QED
        BY <2>1, <3>1, <3>2
    <2>4. IsLatest(w[1])
      <3>1. CASE w \in text.with
        BY <1>0, <2>1, <3>1 DEF TextLatest
      <3>2. CASE w = <<v, s>>
        BY <1>21, <2>1, <3>2
      <3> QED
        BY <2>1, <3>1, <3>2
    <2> QED
      BY <1>12, <1>20, <2>1, <2>2, <2>3, <2>4
  <1>19. ReadingsLatest'
    BY <1>0, <1>1, <1>11, <1>20 DEF ReadingsLatest, SuggestionTypes, Reading
  <1>18. MarksMatchText'
    <2> SUFFICES ASSUME NEW i \in DOMAIN verdicts, verdicts'[i].base \notin crossed',
                        text'.base \notin crossed', NEW t \in Suggested
                 PROVE  /\ <<i, t>> \in text'.with => verdicts'[i].marks[t] # "pending"
                        /\ verdicts'[i].marks[t] = "accepted" /\ t \notin Spanless
                               /\ text'.base = verdicts'[i].base
                           => \/ <<i, t>> \in text'.with
                              \/ \E r \in Suggested : <<r, t>> \in Touches
                                                   /\ verdicts'[i].marks[r] # "pending"
      BY <1>7 DEF MarksMatchText
    <2>1. /\ text = D.read /\ verdicts[v].marks = D.was /\ crossed' = crossed
          /\ text'.base = text.base /\ verdicts'[v].marks = D.marks
      BY <1>6, <1>7, <1>8, <1>9, <1>10 DEF same
    <2>2. /\ <<i, t>> \in text.with => verdicts[i].marks[t] # "pending"
          /\ verdicts[i].marks[t] = "accepted" /\ t \notin Spanless
                 /\ text.base = verdicts[i].base
             => \/ <<i, t>> \in text.with
                \/ \E r \in Suggested : <<r, t>> \in Touches /\ verdicts[i].marks[r] # "pending"
      BY <1>0, <1>7, <2>1 DEF MarksMatchText
    <2>3. \A r \in Suggested : verdicts[i].marks[r] # "pending" => verdicts'[i].marks[r] # "pending"
      <3>1. mark # "pending"
        OBVIOUS
      <3> QED
        BY <1>4, <1>7, <2>1, <3>1
    <2>4. CASE i # v \/ t # s
      <3>1. verdicts'[i].marks[t] = verdicts[i].marks[t]
        BY <1>4, <1>7, <2>1, <2>4
      <3>2. <<i, t>> \in text'.with => <<i, t>> \in text.with
        BY <1>8, <2>1, <2>4
      <3>3. ASSUME <<i, t>> \in text.with, <<i, t>> \notin text'.with
            PROVE  \E r \in Suggested : <<r, t>> \in Touches /\ verdicts'[i].marks[r] # "pending"
        <4>1. D.writes /\ (i = v => <<s, t>> \in Touches)
          BY <1>8, <2>1, <3>3
        <4>2. IsLatest(i) /\ IsLatest(v)
          BY <1>0, <1>21, <2>1, <3>3 DEF TextLatest
        <4>3. i = v
          BY <1>0, <1>2, <4>2, LatestIsOne
        <4>4. verdicts'[i].marks[s] = mark /\ mark = "accepted"
          BY <1>3, <1>4, <2>1, <4>1, <4>3
        <4> QED
          BY <4>1, <4>3, <4>4
      <3> QED
        BY <1>7, <2>1, <2>2, <2>3, <3>1, <3>2, <3>3
    <2>5. CASE i = v /\ t = s
      <3>1. verdicts'[i].marks[t] = mark
        BY <1>4, <2>1, <2>5
      <3> QED
        BY <1>3, <1>8, <2>1, <2>5, <3>1
    <2> QED
      BY <2>4, <2>5
  <1> QED
    BY <1>13, <1>14, <1>15, <1>16, <1>17, <1>18, <1>19 DEF SuggestionsInv

\* Decisions and edits leave the choice among the verdicts as it is.
LEMMA SentStands ==
  ASSUME SuggestionsInv,
         \/ EditTranslation
         \/ \E d \in Deciders : CommitSuggestion(d)
         \/ \E d \in Deciders, s \in Suggested, mark \in {"accepted", "rejected"} :
                DecideSuggestion(d, s, mark)
  PROVE  Len(verdicts') = Len(verdicts) /\ Sent' = Sent
  <1>1. CASE verdicts' = verdicts
    BY <1>1 DEF Sent, LatestVerification
  <1>2. ASSUME NEW d \in Deciders, CommitSuggestion(d)
        PROVE  Len(verdicts') = Len(verdicts) /\ Sent' = Sent
    <2> DEFINE v == deciding[d].verdict
               new == [verdicts[v] EXCEPT !.marks = MarksAfter(deciding[d])]
    <2>0. Verdicts /\ HasLatest
      BY DEF SuggestionsInv, SuggestionTypes
    <2>1. v \in DOMAIN verdicts /\ verdicts' = [verdicts EXCEPT ![v] = new]
      BY <1>2 DEF SuggestionsInv, SuggestionTypes, Reading, CommitSuggestion
    <2>2. verdicts \in Seq(Verdict) /\ verdicts[v] \in Verdict
      BY <2>0, <2>1, VerdictFacts DEF Verdicts
    <2>3. new.attempt = verdicts[v].attempt
      BY <2>2 DEF Verdict
    <2> HIDE DEF new
    <2>4. /\ DOMAIN verdicts' = DOMAIN verdicts /\ Len(verdicts') = Len(verdicts)
          /\ verdicts' # <<>> /\ verdicts # <<>>
          /\ \A i \in DOMAIN verdicts : verdicts'[i].attempt = verdicts[i].attempt
      BY <2>1, <2>2, <2>3
    <2>5. PICK i \in DOMAIN verdicts : IsLatest(i)
      BY <2>0, <2>4 DEF HasLatest
    <2>6. \A j \in DOMAIN verdicts : verdicts[j].attempt \in Nat /\ j \in Nat
      BY <2>0, VerdictFacts
    <2>7. IsLatest(i)' /\ \A j \in DOMAIN verdicts' : IsLatest(j)' => j = i
      BY <2>4, <2>5, <2>6 DEF IsLatest
    <2>8. LatestVerification' = i
      BY <2>4, <2>7 DEF LatestVerification, IsLatest
    <2>9. LatestVerification = i
      BY <2>0, <2>5, LatestIsOne
    <2> QED
      BY <2>4, <2>8, <2>9 DEF Sent
  <1>3. EditTranslation \/ (\E d \in Deciders, s \in Suggested, mark \in {"accepted", "rejected"} :
            DecideSuggestion(d, s, mark)) => verdicts' = verdicts
    BY DEF EditTranslation, DecideSuggestion
  <1> QED
    BY <1>1, <1>2, <1>3

-----------------------------------------------------------------------------
(* The screen *)

LEMMA InitDesk == DeskInit => DeskInv
  <1> SUFFICES ASSUME DeskInit
               PROVE  DeskInv
    OBVIOUS
  <1>1. SuggestionsInit /\ coming = 0 /\ shown = 0
    BY DEF DeskInit
  <1>2. /\ rows = 0 /\ due = 0 /\ page.rows = 0
        /\ DOMAIN page = {"job", "rows", "live", "loaded"}
        /\ fetching = [q \in Query |-> Nothing] \/ fetching = [q \in Query |-> Asked]
    BY DEF DeskInit, ProgressInit
  <1>3. DOMAIN fetching = Query /\ fetching["chunks"].at # "answered"
    BY <1>2 DEF Query, Nothing, Asked
  <1>4. verdicts = <<>> /\ Len(verdicts) = 0
    BY <1>1 DEF SuggestionsInit
  <1>5. ScreenInv
    BY <1>1, <1>2, <1>3, <1>4 DEF ScreenInv, Sent
  <1> QED
    BY <1>1, <1>5, InitSuggestions DEF DeskInv

\* Whatever becomes of the chunks' fetch, a refresh brings no answer of its own.
LEMMA RefreshFacts ==
  ASSUME Refresh, DOMAIN fetching = Query
  PROVE  /\ DOMAIN fetching' = Query
         /\ ~FirstAnswer => fetching'["chunks"].at = "asked"
         /\ fetching'["chunks"] = fetching["chunks"] \/ fetching'["chunks"].at = "asked"
  BY DEF Refresh, Query, Asked

\* A step that neither writes rows nor shows any.
LEMMA QuietStep ==
  ASSUME ScreenInv, Len(verdicts') = Len(verdicts), Sent' = Sent,
         UNCHANGED <<rows, due, coming, shown>>,
         DOMAIN page' = DOMAIN page, page'.rows = page.rows,
         DOMAIN fetching' = Query,
         fetching'["chunks"] = fetching["chunks"] \/ fetching'["chunks"].at # "answered"
  PROVE  ScreenInv'
  BY DEF ScreenInv

\* What the stream and the fetches of the book do to the screen.
LEMMA ScreenStepQuiet ==
  ASSUME ScreenInv, ScreenStep
  PROVE  ScreenInv'
  <1>0. DOMAIN page = {"job", "rows", "live", "loaded"} /\ DOMAIN fetching = Query
    BY DEF ScreenInv
  <1>1. UNCHANGED <<verdicts, coming, shown>>
    BY DEF ScreenStep, OnScreen, deskVars, sight
  <1>2. Len(verdicts') = Len(verdicts) /\ Sent' = Sent
    BY <1>1 DEF Sent, LatestVerification
  <1> DEFINE Quiet == /\ UNCHANGED <<rows, due>>
                      /\ DOMAIN page' = DOMAIN page /\ page'.rows = page.rows
                      /\ DOMAIN fetching' = Query
                      /\ \/ fetching'["chunks"] = fetching["chunks"]
                         \/ fetching'["chunks"].at # "answered"
  <1>3. Quiet
    <2>1. CASE StreamStep
      BY <1>0, <2>1 DEF StreamStep, CountRows, Snapshot, server
    <2>2. CASE Listen
      <3>1. Refresh /\ UNCHANGED <<rows, due>>
            /\ \E b \in BOOLEAN : page' = [page EXCEPT !.live = b]
        BY <2>2 DEF Listen, OnProgress, OnIdle, server
      <3> QED
        BY <1>0, <3>1, RefreshFacts
    <2>3. CASE ShowBook
      <3>1. /\ fetching' = [fetching EXCEPT !["book"] = Nothing] /\ UNCHANGED <<rows, due>>
            /\ page' = [page EXCEPT !.job = fetching["book"].got,
                                    !.live = @ /\ fetching["book"].got # 0]
        BY <2>3 DEF ShowBook, server
      <3> QED
        BY <1>0, <3>1 DEF Query
    <2>4. CASE Break
      <3>1. UNCHANGED <<rows, due, fetching>> /\ page' = [page EXCEPT !.live = FALSE]
        BY <2>4 DEF Break, server
      <3> QED
        BY <1>0, <3>1
    <2>5. CASE Reconnect \/ JobEnds
      BY <1>0, <2>5 DEF Reconnect, JobEnds, server
    <2>6. CASE Poll("book") \/ Answer("book")
      <3>1. UNCHANGED <<rows, due, page>> /\ \E f : fetching' = [fetching EXCEPT !["book"] = f]
        BY <2>6 DEF Poll, Answer, server
      <3> QED
        BY <1>0, <3>1 DEF Query
    <2>7. CASE \E here \in BOOLEAN : Enqueue(here)
      <3>1. UNCHANGED <<rows, due, page>> /\ (Refresh \/ fetching' = fetching)
        BY <2>7 DEF Enqueue
      <3> QED
        BY <1>0, <3>1, RefreshFacts
    <2> QED
      BY <2>1, <2>2, <2>3, <2>4, <2>5, <2>6, <2>7 DEF ScreenStep
  <1> QED
    BY <1>1, <1>2, <1>3, QuietStep

LEMMA NextDesk ==
  ASSUME DeskInv, [DeskNext]_allVars
  PROVE  DeskInv'
  <1>0. SuggestionsInv /\ ScreenInv /\ Verdicts
    BY DEF DeskInv, SuggestionsInv, SuggestionTypes
  <1>1. ASSUME UNCHANGED deskVars
        PROVE  SuggestionsInv'
    <2>1. UNCHANGED <<text, verdicts, deciding, writings, crossed>>
      BY <1>1 DEF deskVars
    <2>2. /\ TextNow' = TextNow /\ Verdicts' = Verdicts
          /\ \A D : Reading(D)' <=> Reading(D)
          /\ \A v, b : Fits(v, b)' <=> Fits(v, b)
      BY <2>1 DEF TextNow, Verdicts, Reading, Fits
    <2>3. SuggestionTypes'
      BY <1>0, <2>1, <2>2 DEF SuggestionsInv, SuggestionTypes
    <2>4. HasLatest' /\ NewestText' /\ ReadingsLatest' /\ TextLatest' /\ MarksMatchText'
      BY <1>0, <2>1 DEF SuggestionsInv, HasLatest, IsLatest, NewestText, ReadingsLatest,
         TextLatest, MarksMatchText
    <2>5. ReadingsFit' /\ TextFits'
      BY <1>0, <2>1, <2>2 DEF SuggestionsInv, ReadingsFit, TextFits
    <2> QED
      BY <2>3, <2>4, <2>5 DEF SuggestionsInv
  <1>2. ASSUME \/ Writes
               \/ \E d \in Deciders : Decides(d)
        PROVE  SuggestionsInv' /\ Len(verdicts') = Len(verdicts) /\ Sent' = Sent
    BY <1>0, <1>2, EditStep, CommitStep, DecideStep, SentStands DEF Writes, Decides
  <1>3. ASSUME NEW a \in Attempts, ChunkDone(a)
        PROVE  DeskInv'
    <2>1. SuggestionsInv'
      BY <1>0, <1>3, PersistStep DEF ChunkDone
    <2>2. Len(verdicts') = Len(verdicts) + 1
      BY <1>0, <1>3 DEF ChunkDone, Persist, Verdicts
    <2>3. rows' = rows + 1 /\ due' \in {due, rows + 1} /\ UNCHANGED <<page, fetching, coming, shown>>
      BY <1>3 DEF ChunkDone, RowWritten, sight
    <2>4. Len(verdicts) \in Nat
      BY <1>0 DEF Verdicts
    <2>5. ScreenInv'
      BY <1>0, <2>2, <2>3, <2>4 DEF ScreenInv
    <2> QED
      BY <2>1, <2>5 DEF DeskInv
  <1>4. CASE PollChunks
    <2>1. UNCHANGED <<deskVars, rows, due, page, sight>> /\ fetching' = [fetching EXCEPT !["chunks"] = Asked]
      BY <1>4 DEF PollChunks, Poll, server
    <2>2. Len(verdicts') = Len(verdicts) /\ Sent' = Sent /\ UNCHANGED <<coming, shown>>
      BY <2>1 DEF deskVars, sight, Sent, LatestVerification
    <2>3. DOMAIN fetching' = Query /\ fetching'["chunks"].at # "answered"
      BY <1>0, <2>1 DEF ScreenInv, Query, Asked
    <2> QED
      BY <1>0, <1>1, <2>1, <2>2, <2>3, QuietStep DEF DeskInv
  <1>5. CASE AnswerChunks
    <2>1. /\ UNCHANGED <<deskVars, rows, due, page, shown>> /\ coming' = Sent
          /\ fetching' = [fetching EXCEPT !["chunks"] = [at |-> "answered", got |-> rows]]
      BY <1>5 DEF AnswerChunks, Answer, server
    <2>2. Len(verdicts') = Len(verdicts) /\ Sent' = Sent
      BY <2>1 DEF deskVars, Sent, LatestVerification
    <2>3. Len(verdicts) \in Nat
      BY <1>0 DEF Verdicts
    <2>4. ScreenInv'
      BY <1>0, <2>1, <2>2, <2>3 DEF ScreenInv, Query
    <2> QED
      BY <1>1, <2>1, <2>4 DEF DeskInv
  <1>6. CASE Look
    <2>1. /\ UNCHANGED <<deskVars, rows, due, coming>> /\ shown' = coming
          /\ fetching["chunks"].at = "answered"
          /\ fetching' = [fetching EXCEPT !["chunks"] = Nothing]
          /\ page' = [page EXCEPT !.rows = fetching["chunks"].got, !.loaded = TRUE]
      BY <1>6 DEF Look, ShowChunks, server
    <2>2. Len(verdicts') = Len(verdicts) /\ Sent' = Sent
      BY <2>1 DEF deskVars, Sent, LatestVerification
    <2>3. ScreenInv'
      BY <1>0, <2>1, <2>2 DEF ScreenInv, Query, Nothing
    <2> QED
      BY <1>1, <2>1, <2>3 DEF DeskInv
  <1>7. CASE DoneHere
    <2>1. /\ UNCHANGED <<rows, due, page, coming, shown>>
          /\ fetching' = [fetching EXCEPT !["chunks"] = Asked] \/ fetching' = fetching
          /\ Writes \/ \E d \in Deciders : Decides(d)
      BY <1>7 DEF DoneHere, InvalidateChunk, server, sight
    <2>2. /\ DOMAIN fetching' = Query
          /\ fetching'["chunks"] = fetching["chunks"] \/ fetching'["chunks"].at # "answered"
      BY <1>0, <2>1 DEF ScreenInv, Query, Asked
    <2> QED
      BY <1>0, <1>2, <2>1, <2>2, QuietStep DEF DeskInv
  <1>8. CASE DoneElsewhere
    <2>1. /\ UNCHANGED <<rows, due, page, fetching, coming, shown>>
          /\ Writes \/ \E d \in Deciders : Decides(d)
      BY <1>8 DEF DoneElsewhere, progressVars, sight
    <2>2. DOMAIN fetching' = Query
      BY <1>0, <2>1 DEF ScreenInv
    <2> QED
      BY <1>0, <1>2, <2>1, <2>2, QuietStep DEF DeskInv
  <1>9. CASE ScreenStep
    <2>1. UNCHANGED deskVars
      BY <1>9 DEF ScreenStep, OnScreen
    <2> QED
      BY <1>0, <1>1, <1>9, <2>1, ScreenStepQuiet DEF DeskInv
  <1>10. CASE UNCHANGED allVars
    <2>1. UNCHANGED <<deskVars, rows, due, page, fetching, coming, shown>>
      BY <1>10 DEF allVars, progressVars
    <2>2. Len(verdicts') = Len(verdicts) /\ Sent' = Sent
      BY <2>1 DEF deskVars, Sent, LatestVerification
    <2>3. DOMAIN fetching' = Query
      BY <1>0, <2>1 DEF ScreenInv
    <2> QED
      BY <1>0, <1>1, <2>1, <2>2, <2>3, QuietStep DEF DeskInv
  <1> QED
    BY <1>3, <1>4, <1>5, <1>6, <1>7, <1>8, <1>9, <1>10 DEF DeskNext

-----------------------------------------------------------------------------
(* What the invariant gives *)

\* Texts, verdicts and decisions under way keep their types, and a decision
\* is about a verdict that exists.
THEOREM SuggestionTypesHold == DeskSpec => []SuggestionsTypeOK
  <1>1. DeskInv => SuggestionsTypeOK
    <2> SUFFICES ASSUME SuggestionTypes
                 PROVE  SuggestionsTypeOK
      BY DEF DeskInv, SuggestionsInv
    <2>1. /\ writings \in 0..MaxTexts /\ writings \in Nat /\ MaxTexts \in Nat
          /\ 0..writings \subseteq 0..MaxTexts
      BY TextsAssumption DEF SuggestionTypes, TextsAssumption
    <2>2. verdicts \in Seq(Verdict) /\ DOMAIN verdicts \subseteq 1..MaxTexts
      BY <2>1 DEF SuggestionTypes, Verdicts
    <2>3. \A t \in TextNow : t \in Text
      BY <2>1, <2>2 DEF TextNow, Text
    <2>4. ASSUME NEW D, Reading(D)
          PROVE  D.verdict \in DOMAIN verdicts /\ D.text \in TextNow
      <3>1. PICK s \in Suggested :
                /\ D.writes => D.text \in Replaced(D.read, D.verdict, s)
                /\ ~D.writes => D.text = D.read
        BY <2>4 DEF Reading
      <3>2. D.verdict \in DOMAIN verdicts /\ D.read \in TextNow
        BY <2>4 DEF Reading
      <3> QED
        BY <3>1, <3>2, ReplacedFacts
    <2> QED
      BY <2>1, <2>2, <2>3, <2>4 DEF SuggestionTypes, SuggestionsTypeOK
  <1> QED
    BY InitDesk, NextDesk, <1>1, PTL DEF DeskSpec

\* decide_suggestion keeps marks and text in step, unless decisions overlap in time
\* or another suggestion was decided whose span is found in the replacement.
THEOREM MarksFollowText == DeskSpec => []MarksMatchText
  <1>1. DeskInv => MarksMatchText
    BY DEF DeskInv, SuggestionsInv
  <1> QED
    BY InitDesk, NextDesk, <1>1, PTL DEF DeskSpec

\* A suggestion that is accepted changes the text it was made for, but for
\* hand edits, a newest verdict of fewer attempts, and overlaps.
THEOREM SuggestionsKeepToTheirText == DeskSpec => []SuggestionsOfThisText
  <1>1. DeskInv => SuggestionsOfThisText
    BY DEF DeskInv, SuggestionsInv, TextFits, Fits, SuggestionsOfThisText
  <1> QED
    BY InitDesk, NextDesk, <1>1, PTL DEF DeskSpec

\* The verdict the server looks up for a decision is the one on the screen,
\* once the screen shows the last row.
THEOREM ShownIsDecided == DeskSpec => []DecidesWhatIsShown
  <1>1. DeskInv => DecidesWhatIsShown
    BY DEF DeskInv, ScreenInv, DecidesWhatIsShown, Sent
  <1> QED
    BY InitDesk, NextDesk, <1>1, PTL DEF DeskSpec

-----------------------------------------------------------------------------
(* No wake-up is lost: when the page stops listening it has the last row   *)

\* The rows written while a job was active are on the screen, or a fetch brings them.
CaughtUp ==
    \/ fetching["chunks"].at = "asked"
    \/ fetching["chunks"].at = "answered" /\ fetching["chunks"].got >= due
    \/ fetching["chunks"].at = "no" /\ page.rows >= due

\* When the page stops showing a job, which closes the stream (events.ts), no row of a
\* job is left that it will not show, but for the cases on record as missed.
ListensToTheEnd ==
    [][focus = "screen" /\ page.job # 0 /\ page'.job = 0 => missed' \/ (job = 0 /\ CaughtUp)']_allVars

\* And it stays caught up as long as there is no next job, whatever tasks write that
\* have outlived theirs.
CaughtUpLasts == [][job = 0 /\ CaughtUp => CaughtUp']_allVars

NoIdle(events) == \A i \in DOMAIN events : events[i] # "idle"

\* A page that listens shows a job; idle comes once, at the end of the stream, when
\* there was no job; and from then on no row of a job is written that no fetch will bring.
Listening ==
    /\ DOMAIN stream = {"at", "rows", "last", "events"}
    /\ stream.events \in Seq({"progress", "idle"})
    /\ stream.at # "ended" => NoIdle(stream.events)
    /\ stream.at # "none" => page.job # 0
    /\ stream.at = "ended" /\ ~missed => job = 0
    /\ page.job # 0 /\ stream.at = "none" /\ ~missed => job = 0 /\ CaughtUp

ListenInv == focus = "screen" => Listening

LEMMA NoStreamFacts ==
  /\ NoStream.at = "none" /\ DOMAIN NoStream = {"at", "rows", "last", "events"}
  /\ NoStream.events \in Seq({"progress", "idle"}) /\ NoIdle(NoStream.events)
  BY DEF NoStream, NoIdle

LEMMA NewStreamFacts ==
  /\ NewStream.at = "counts" /\ DOMAIN NewStream = {"at", "rows", "last", "events"}
  /\ NewStream.events \in Seq({"progress", "idle"}) /\ NoIdle(NewStream.events)
  BY NoStreamFacts DEF NewStream, NoStream

\* Steps that neither touch the stream nor what the page knows of jobs.
LEMMA FetchStep ==
  ASSUME Listening, job = 0 /\ CaughtUp => CaughtUp',
         UNCHANGED <<job, stream, missed>>, page'.job = page.job
  PROVE  Listening'
  BY DEF Listening

LEMMA StreamStepListens ==
  ASSUME Listening, StreamStep
  PROVE  Listening' /\ page'.job = page.job
  <1>1. CASE CountRows
    <2>1. /\ stream' = [stream EXCEPT !.at = "job", !.rows = rows] /\ stream.at = "counts"
          /\ UNCHANGED <<job, page, missed>>
      BY <1>1 DEF CountRows, server
    <2>2. stream'.at = "job" /\ stream'.events = stream.events /\ DOMAIN stream' = DOMAIN stream
      BY <2>1 DEF Listening
    <2> QED
      BY <2>1, <2>2 DEF Listening
  <1>2. CASE Snapshot
    <2> DEFINE said == IF [rows |-> stream.rows, job |-> job] = stream.last THEN <<>>
                       ELSE <<"progress">>
               last == IF job = 0 THEN <<"idle">> ELSE <<>>
    <2>1. /\ stream.at = "job" /\ UNCHANGED <<job, page, missed>>
          /\ stream' = [stream EXCEPT !.at = IF job = 0 THEN "ended" ELSE "counts",
                           !.last = [rows |-> stream.rows, job |-> job],
                           !.events = @ \o said \o last]
      BY <1>2 DEF Snapshot, server
    <2>2. /\ stream'.at = (IF job = 0 THEN "ended" ELSE "counts")
          /\ stream'.events = stream.events \o said \o last
          /\ DOMAIN stream' = DOMAIN stream
      BY <2>1 DEF Listening
    <2>3. said \in Seq({"progress", "idle"}) /\ NoIdle(said) /\ last \in Seq({"progress", "idle"})
      <3>1. <<>> \in Seq({"progress", "idle"}) /\ NoIdle(<<>>)
        BY DEF NoIdle
      <3>2. <<"progress">> \in Seq({"progress", "idle"}) /\ NoIdle(<<"progress">>)
        BY DEF NoIdle
      <3>3. <<"idle">> \in Seq({"progress", "idle"})
        OBVIOUS
      <3> QED
        BY <3>1, <3>2, <3>3
    <2> HIDE DEF said
    <2>4. stream'.events \in Seq({"progress", "idle"})
      BY <2>2, <2>3 DEF Listening
    <2>5. stream'.at # "ended" => NoIdle(stream'.events)
      <3> SUFFICES ASSUME stream'.at # "ended"
                   PROVE  NoIdle(stream'.events)
        OBVIOUS
      <3>1. last = <<>> /\ stream'.events = stream.events \o said
        BY <2>2, <2>3 DEF Listening
      <3>2. NoIdle(stream.events) /\ stream.events \in Seq({"progress", "idle"})
        BY <2>1 DEF Listening
      <3> QED
        BY <2>3, <3>1, <3>2 DEF NoIdle
    <2>6. page.job # 0
      BY <2>1 DEF Listening
    <2> QED
      BY <2>1, <2>2, <2>4, <2>5, <2>6 DEF Listening
  <1> QED
    BY <1>1, <1>2 DEF StreamStep

LEMMA ListenStep ==
  ASSUME Listening, ScreenInv, Listen
  PROVE  Listening' /\ page'.job = page.job
  <1>0. DOMAIN page = {"job", "rows", "live", "loaded"} /\ stream.events \in Seq({"progress", "idle"})
    BY DEF ScreenInv, Listening
  <1>1. /\ Refresh /\ UNCHANGED <<job, due>> /\ page'.job = page.job /\ page'.rows = page.rows
        /\ stream.events # <<>>
    BY <1>0 DEF Listen, OnProgress, OnIdle, server
  <1>2. (CaughtUp => CaughtUp') /\ (~FirstAnswer => CaughtUp')
    BY <1>1, RefreshFacts DEF CaughtUp, ScreenInv
  <1>3. CASE OnProgress
    <2>1. stream' = [stream EXCEPT !.events = Tail(@)]
      BY <1>3 DEF OnProgress
    <2>2. stream'.events = Tail(stream.events) /\ stream'.at = stream.at /\ DOMAIN stream' = DOMAIN stream
      BY <2>1 DEF Listening
    <2>3. stream'.events \in Seq({"progress", "idle"})
          /\ (NoIdle(stream.events) => NoIdle(stream'.events))
      BY <1>0, <1>1, <2>2 DEF NoIdle
    <2>4. UNCHANGED missed
      BY <1>3 DEF OnProgress
    <2> QED
      BY <1>1, <1>2, <2>2, <2>3, <2>4 DEF Listening
  <1>4. CASE OnIdle
    <2>1. stream' = NoStream /\ Head(stream.events) = "idle" /\ missed' = (missed \/ FirstAnswer)
      BY <1>4 DEF OnIdle
    <2>2. ~NoIdle(stream.events)
      BY <1>0, <1>1, <2>1 DEF NoIdle
    <2>3. ~missed => job = 0
      BY <2>2 DEF Listening
    <2> QED
      BY <1>1, <1>2, <2>1, <2>3, NoStreamFacts DEF Listening
  <1> QED
    BY <1>3, <1>4 DEF Listen

LEMMA RowsAreDue == ASSUME DeskInv PROVE rows >= due /\ rows \in Nat /\ due \in Nat
  <1>1. Len(verdicts) \in Nat
    BY DEF DeskInv, SuggestionsInv, SuggestionTypes, Verdicts
  <1> QED
    BY <1>1 DEF DeskInv, ScreenInv

\* The book's fetch ends the listening, or goes on with it, or begins it.
LEMMA ShowBookListens ==
  ASSUME Listening, ScreenInv, ShowBook
  PROVE  /\ Listening'
         /\ page.job # 0 /\ page'.job = 0 => missed' \/ (job = 0 /\ CaughtUp)'
  <1> DEFINE now == fetching["book"].got
  <1>1. /\ UNCHANGED <<job, due>> /\ page'.job = now /\ page'.rows = page.rows
        /\ fetching'["chunks"] = fetching["chunks"]
        /\ stream' = (IF page.job = 0 /\ now # 0 THEN NewStream
                      ELSE IF now = 0 THEN NoStream ELSE stream)
        /\ missed' = (missed \/ (now = 0 /\ stream.at # "none"))
    BY DEF ShowBook, ScreenInv, Query, server
  <1>2. CaughtUp' <=> CaughtUp
    BY <1>1 DEF CaughtUp
  <1> HIDE DEF now
  <1>3. CASE page.job = 0 /\ now # 0
    BY <1>1, <1>3, NewStreamFacts DEF Listening
  <1>4. CASE now = 0
    BY <1>1, <1>2, <1>4, NoStreamFacts DEF Listening
  <1>5. CASE page.job # 0 /\ now # 0
    BY <1>1, <1>2, <1>5 DEF Listening
  <1> QED
    BY <1>3, <1>4, <1>5

LEMMA ScreenStepListens ==
  ASSUME Listening, ScreenInv, ScreenStep
  PROVE  /\ Listening'
         /\ page.job # 0 /\ page'.job = 0 => missed' \/ (job = 0 /\ CaughtUp)'
  <1>0. DOMAIN page = {"job", "rows", "live", "loaded"} /\ DOMAIN fetching = Query
        /\ DOMAIN stream = {"at", "rows", "last", "events"}
    BY DEF ScreenInv, Listening
  <1>1. CASE Break
    <2>1. stream' = [NoStream EXCEPT !.at = "broken"] /\ page' = [page EXCEPT !.live = FALSE]
          /\ stream.at # "none" /\ UNCHANGED <<job, missed>>
      BY <1>1 DEF Break, server
    <2>2. /\ stream'.at = "broken" /\ stream'.events = NoStream.events
          /\ DOMAIN stream' = DOMAIN NoStream /\ page'.job = page.job
      BY <1>0, <2>1, NoStreamFacts
    <2> QED
      BY <2>1, <2>2, NoStreamFacts DEF Listening
  <1>2. CASE Reconnect
    BY <1>2, NewStreamFacts DEF Reconnect, Listening, server
  <1>3. CASE JobEnds
    BY <1>3, FetchStep DEF JobEnds, Listening, CaughtUp
  <1>4. CASE Poll("book") \/ Answer("book")
    <2>1. UNCHANGED <<job, due, stream, page, missed>>
          /\ \E f : fetching' = [fetching EXCEPT !["book"] = f]
      BY <1>4 DEF Poll, Answer, server
    <2>2. CaughtUp => CaughtUp'
      BY <1>0, <2>1 DEF CaughtUp, Query
    <2> QED
      BY <2>1, <2>2, FetchStep
  <1>5. ASSUME NEW here \in BOOLEAN, Enqueue(here)
        PROVE  Listening' /\ page'.job = page.job
    <2>1. /\ UNCHANGED <<stream, page>>
          /\ missed' = (missed \/ (page.job # 0 /\ stream.at \in {"none", "ended"}))
      BY <1>5 DEF Enqueue
    <2> QED
      BY <2>1 DEF Listening
  <1> QED
    BY <1>1, <1>2, <1>3, <1>4, <1>5, StreamStepListens, ListenStep, ShowBookListens
    DEF ScreenStep, Break, Reconnect, JobEnds, Poll, Answer, server

LEMMA NextListens ==
  ASSUME DeskInv, ListenInv, [DeskNext]_allVars
  PROVE  /\ ListenInv'
         /\ focus = "screen" /\ page.job # 0 /\ page'.job = 0 => missed' \/ (job = 0 /\ CaughtUp)'
  <1>0. ScreenInv /\ focus' = focus
    BY DEF DeskInv, DeskNext, allVars, ChunkDone, PollChunks, AnswerChunks, Look, DoneHere,
       DoneElsewhere, ScreenStep, OnScreen
  <1> SUFFICES ASSUME focus = "screen"
               PROVE  /\ Listening'
                      /\ page.job # 0 /\ page'.job = 0 => missed' \/ (job = 0 /\ CaughtUp)'
    BY <1>0 DEF ListenInv
  <1>1. Listening /\ DOMAIN page = {"job", "rows", "live", "loaded"} /\ DOMAIN fetching = Query
    BY <1>0 DEF ListenInv, ScreenInv
  <1>2. ASSUME NEW a \in Attempts, ChunkDone(a)
        PROVE  Listening' /\ page'.job = page.job
    <2>1. /\ UNCHANGED <<job, page, stream, fetching, missed>> /\ (job = 0 => due' = due)
      BY <1>2 DEF ChunkDone, RowWritten
    <2>2. job = 0 /\ CaughtUp => CaughtUp'
      BY <2>1 DEF CaughtUp
    <2> QED
      BY <1>1, <2>1, <2>2, FetchStep
  <1>3. CASE PollChunks \/ AnswerChunks
    <2>1. /\ UNCHANGED <<job, due, stream, page, missed>>
          /\ fetching'["chunks"].at = "asked" \/ (fetching'["chunks"].at = "answered"
                                                 /\ fetching'["chunks"].got = rows)
      BY <1>1, <1>3 DEF PollChunks, AnswerChunks, Poll, Answer, server, Query, Asked
    <2>2. rows >= due
      BY <1>0, RowsAreDue
    <2>3. CaughtUp'
      BY <2>1, <2>2 DEF CaughtUp
    <2> QED
      BY <1>1, <2>1, <2>3, FetchStep
  <1>4. CASE Look
    <2>1. /\ UNCHANGED <<job, due, stream, missed>> /\ page'.job = page.job
          /\ fetching["chunks"].at = "answered" /\ fetching'["chunks"].at = "no"
          /\ page'.rows = fetching["chunks"].got
      BY <1>1, <1>4 DEF Look, ShowChunks, server, Query, Nothing
    <2>2. CaughtUp => CaughtUp'
      BY <2>1 DEF CaughtUp
    <2> QED
      BY <1>1, <2>1, <2>2, FetchStep
  <1>5. CASE ScreenStep
    BY <1>0, <1>1, <1>5, ScreenStepListens
  <1>6. CASE UNCHANGED allVars
    BY <1>1, <1>6, FetchStep DEF allVars, progressVars, CaughtUp
  <1> QED
    BY <1>2, <1>3, <1>4, <1>5, <1>6 DEF DeskNext, DoneHere, DoneElsewhere

\* Without a job nothing more is due, and no fetch is given up but for another one.
LEMMA StaysCaughtUp ==
  ASSUME DeskInv, [DeskNext]_allVars, job = 0, CaughtUp
  PROVE  CaughtUp'
  <1>0. /\ DOMAIN page = {"job", "rows", "live", "loaded"} /\ DOMAIN fetching = Query
        /\ rows >= due
    BY RowsAreDue DEF DeskInv, ScreenInv
  <1>1. CASE PollChunks \/ AnswerChunks
    BY <1>0, <1>1 DEF PollChunks, AnswerChunks, Poll, Answer, server, Query, Asked, CaughtUp
  <1>2. CASE Look
    BY <1>0, <1>2 DEF Look, ShowChunks, server, Query, Nothing, CaughtUp
  <1>3. CASE DoneHere
    <2>1. UNCHANGED <<due, page>>
          /\ (fetching' = [fetching EXCEPT !["chunks"] = Asked] \/ fetching' = fetching)
      BY <1>3 DEF DoneHere, InvalidateChunk, server
    <2> QED
      BY <1>0, <2>1 DEF CaughtUp, Query, Asked
  <1>4. CASE ScreenStep
    <2> DEFINE Kept ==
          /\ due' = due /\ page'.rows = page.rows
          /\ (fetching'["chunks"] = fetching["chunks"] \/ fetching'["chunks"].at = "asked")
    <2>1. Kept
      <3>1. CASE StreamStep \/ Reconnect \/ JobEnds
        BY <3>1 DEF StreamStep, CountRows, Snapshot, Reconnect, JobEnds, server
      <3>2. CASE Break
        BY <1>0, <3>2 DEF Break, server
      <3>3. CASE Listen
        <4>1. Refresh /\ due' = due /\ page'.rows = page.rows
          BY <1>0, <3>3 DEF Listen, OnProgress, OnIdle, server
        <4> QED
          BY <1>0, <4>1, RefreshFacts
      <3>4. CASE ShowBook
        BY <1>0, <3>4 DEF ShowBook, server, Query
      <3>5. CASE Poll("book") \/ Answer("book")
        <4>1. UNCHANGED <<due, page>> /\ \E f : fetching' = [fetching EXCEPT !["book"] = f]
          BY <3>5 DEF Poll, Answer, server
        <4> QED
          BY <1>0, <4>1 DEF Query
      <3>6. ASSUME NEW here \in BOOLEAN, Enqueue(here)
            PROVE  Kept
        <4>1. (Refresh \/ fetching' = fetching) /\ UNCHANGED <<due, page>>
          BY <3>6 DEF Enqueue
        <4> QED
          BY <1>0, <4>1, RefreshFacts
      <3> QED
        BY <1>4, <3>1, <3>2, <3>3, <3>4, <3>5, <3>6 DEF ScreenStep
    <2> QED
      BY <2>1 DEF CaughtUp
  <1>5. CASE DoneElsewhere \/ UNCHANGED allVars
    BY <1>5 DEF DoneElsewhere, allVars, progressVars, CaughtUp
  <1>6. ASSUME NEW a \in Attempts, ChunkDone(a)
        PROVE  CaughtUp'
    BY <1>6 DEF ChunkDone, RowWritten, CaughtUp
  <1> QED
    BY <1>1, <1>2, <1>3, <1>4, <1>5, <1>6 DEF DeskNext

\* A page that has followed a job and stops listening has on the screen the rows that
\* were written while a job was active, or a fetch under way that brings them, but for
\* the cases on record as missed; and without a next job it stays so.
\* ScreenCatchesUp adds that the fetch ends.
THEOREM LastRowIsFetched == DeskSpec => ListensToTheEnd /\ CaughtUpLasts
  <1>1. DeskInit => ListenInv
    BY NoStreamFacts DEF DeskInit, ProgressInit, ListenInv, Listening
  <1> QED
    BY <1>1, InitDesk, NextDesk, NextListens, StaysCaughtUp, PTL
    DEF DeskSpec, ListensToTheEnd, CaughtUpLasts
=============================================================================
