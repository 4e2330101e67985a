---------------------------- MODULE Suggestions ----------------------------
(***************************************************************************)
(* One chunk on the review desk: its text, the verification rows of every  *)
(* text a translation has persisted, and reviewers who edit the text or    *)
(* decide suggestions (services/review.py).  A decision is a transaction   *)
(* that reads text and suggestions and writes both as a whole.             *)
(***************************************************************************)
EXTENDS Naturals, Sequences, FiniteSets

CONSTANTS
    Deciders,       \* requests that decide a suggestion
    Suggested,      \* the suggestions of a verdict
    Spanless,       \* those that quote nothing to replace
    Touches,        \* <<s, r>>: the span of s may first occur where r was applied
    Attempts,       \* how many translations a run may take for a text
    MaxTexts        \* BOUND on texts written

ASSUME SuggestedAssumption ==
    /\ Spanless \subseteq Suggested /\ Attempts \subseteq Nat \ {0}
    /\ Touches \subseteq (Suggested \ Spanless) \X (Suggested \ Spanless)
ASSUME TextsAssumption == MaxTexts \in Nat

VARIABLES
    text,       \* the text: which writing it stems from, and the suggestions
                \* whose replacement is in it still, as <<verdict, suggestion>>
    verdicts,   \* the verification rows, in the order they were created
    deciding,   \* for each decider, what its transaction has read
    \* history
    writings,   \* the number of texts written, by translations and by hand
    crossed     \* the writings a decision was committed over or back to

deskVars == <<text, verdicts, deciding, writings, crossed>>

Text == [base : 0..MaxTexts, with : SUBSET ((1..MaxTexts) \X Suggested)]
Mark == {"pending", "accepted", "rejected"}
Verdict == [base : 1..MaxTexts, attempt : Attempts, marks : [Suggested -> Mark]]
NotDeciding == [at |-> "idle"]

SuggestionsInit ==
    /\ text = [base |-> 0, with |-> {}]
    /\ verdicts = <<>>
    /\ deciding = [d \in Deciders |-> NotDeciding]
    /\ writings = 0
    /\ crossed = {}

Written == /\ writings < MaxTexts
           /\ writings' = writings + 1
           /\ text' = [base |-> writings + 1, with |-> {}]
           /\ UNCHANGED <<deciding, crossed>>

(* translate_one's result, with its verdict. *)
Persist(attempt) ==
    /\ Written
    /\ verdicts' = Append(verdicts, [base |-> writings + 1, attempt |-> attempt,
                                     marks |-> [s \in Suggested |-> "pending"]])

EditTranslation ==
    /\ text.base # 0
    /\ Written
    /\ UNCHANGED verdicts

(* MUTANT: the first verdict of the chunk, as the rows come.               *)
FirstVerification == 1

(* The row with the highest attempt, of equals the newest.                 *)
LatestVerification ==
    CHOOSE i \in DOMAIN verdicts : \A j \in DOMAIN verdicts :
        \/ verdicts[j].attempt < verdicts[i].attempt
        \/ verdicts[j].attempt = verdicts[i].attempt /\ j <= i

(* What may come of the text when the first occurrence of the span of s in *)
(* it, as it is by now, is replaced: that occurrence may lie in what was   *)
(* put in for another suggestion, which is then no longer there.           *)
Replaced(t, v, s) ==
    {[t EXCEPT !.with = (@ \ lost) \cup {<<v, s>>}] :
        lost \in SUBSET {w \in t.with : w[1] = v => <<s, w[2]>> \in Touches}}

(* decide_suggestion up to its commit, of a suggestion whose span is in the*)
(* text it has read or that has none: otherwise the request ends.          *)
DecideSuggestion(d, s, mark) ==
    /\ deciding[d].at = "idle" /\ verdicts # <<>>
    /\ LET v == LatestVerification
           replaces == mark = "accepted" /\ s \notin Spanless
       IN \E new \in IF replaces THEN Replaced(text, v, s) ELSE {text} :
             deciding' = [deciding EXCEPT ![d] =
                [at |-> "read", verdict |-> v, read |-> text, was |-> verdicts[v].marks,
                 marks |-> [verdicts[v].marks EXCEPT ![s] = mark], writes |-> replaces,
                 text |-> new]]
    /\ UNCHANGED <<text, verdicts, writings, crossed>>

(* MUTANT: the suggestions are written, the text is not.                   *)
TextBefore(D) == text

(* The columns that were set to something new are written, whatever they   *)
(* hold by now.                                                            *)
TextAfter(D) == IF D.writes THEN D.text ELSE text
MarksAfter(D) == IF D.marks = D.was THEN verdicts[D.verdict].marks ELSE D.marks

CommitSuggestion(d) ==
    LET D == deciding[d] IN
    /\ D.at = "read"
    /\ text' = TextAfter(D)
    /\ verdicts' = [verdicts EXCEPT ![D.verdict].marks = MarksAfter(D)]
    /\ deciding' = [deciding EXCEPT ![d] = NotDeciding]
    /\ crossed' = IF text = D.read /\ verdicts[D.verdict].marks = D.was THEN crossed
                  ELSE crossed \cup {text.base, D.read.base, verdicts[D.verdict].base}
    /\ UNCHANGED writings

SuggestionsNext ==
    \/ \E a \in Attempts : Persist(a)
    \/ EditTranslation
    \/ \E d \in Deciders : \/ CommitSuggestion(d)
                           \/ \E s \in Suggested, mark \in Mark \ {"pending"} :
                                  DecideSuggestion(d, s, mark)

(***************************************************************************)
(* Properties                                                              *)
(***************************************************************************)

SuggestionsTypeOK ==
    /\ text \in Text
    /\ verdicts \in Seq(Verdict)
    /\ \A d \in Deciders : deciding[d].at = "read" =>
           deciding[d].verdict \in DOMAIN verdicts /\ deciding[d].text \in Text
    /\ writings \in 0..MaxTexts
    /\ crossed \subseteq 0..MaxTexts

(* The marks tell what is in the text: a replacement in the text is marked *)
(* as decided, and what is marked as accepted is in the text the verdict   *)
(* is about, as long as decisions do not overlap, unless a suggestion whose*)
(* span occurs in the replacement was decided too: decide_suggestion takes *)
(* the first occurrence in the text as it is, and leaves the other's mark. *)
MarksMatchText ==
    \A v \in DOMAIN verdicts : verdicts[v].base \notin crossed /\ text.base \notin crossed =>
        \A s \in Suggested :
            /\ <<v, s>> \in text.with => verdicts[v].marks[s] # "pending"
            /\ verdicts[v].marks[s] = "accepted" /\ s \notin Spanless
                   /\ text.base = verdicts[v].base
               => \/ <<v, s>> \in text.with
                  \/ \E r \in Suggested : <<r, s>> \in Touches /\ verdicts[v].marks[r] # "pending"

(* A suggestion changes the text it was made for and no other, unless the  *)
(* text has been edited by hand, the newest verdict took fewer attempts    *)
(* than an older one (latest_verification goes by attempts), or requests   *)
(* have overlapped.                                                        *)
SuggestionsOfThisText ==
    text.base \notin crossed =>
        \A w \in text.with :
            LET v == verdicts[w[1]] IN
            \/ v.base = text.base
            \/ \A i \in DOMAIN verdicts : verdicts[i].base # text.base
            \/ \E i \in DOMAIN verdicts :
                   verdicts[i].base = text.base /\ verdicts[i].attempt < v.attempt
=============================================================================
