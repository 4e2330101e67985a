------------------------- MODULE Terminology_proofs -------------------------
(***************************************************************************)
(* Proofs about Terminology for every number of requests, flags and terms. *)
(* What the four theorems share is that two requests on one term which are *)
(* under way at once are both on record as crossed: a request that is not  *)
(* crossed has had the term for itself since it began.                     *)
(***************************************************************************)
EXTENDS Terminology, FiniteSetTheorems, TLAPS

-----------------------------------------------------------------------------
(* The inductive invariant *)

ActiveAt(at) == at \in {"select", "flush", "flushed", "commit"}

\* The term a row is about.
TermOfRow(x) == IF x \in Flags THEN TermOf[x] ELSE x

\* The terms of the rows a request may have written.
Held(req) ==
    {w.term : w \in req.wrote} \cup IF req.flag = 0 THEN {} ELSE {TermOf[req.flag]}

\* The terms a request has dealt with or is to deal with, but for its flag.
Touched(req) ==
    ToSet(req.terms) \cup {w.term : w \in req.wrote} \cup (ToSet(req.todo) \cap Terms)

\* What a request at some step carries.
Shape(req) ==
    /\ ~ActiveAt(req.at) => req = Idle(req.kind, req.at)
    /\ req.at = "select" => req.kind = "import" /\ req.terms # <<>>
    /\ req.at = "flush" =>
           /\ req.kind \in {"apply", "put", "import"}
           /\ req.todo # <<>> /\ req.terms # <<>>
           /\ req.kind # "import" => Len(req.terms) = 1
    /\ req.at = "flushed" => req.kind = "apply"
    /\ req.at \in {"select", "flush", "flushed"} => req.sweep = {}
    /\ ActiveAt(req.at) /\ req.kind = "apply" =>
           req.flag \in Flags /\ Touched(req) \subseteq {TermOf[req.flag]}
    /\ \A f \in ToSet(req.todo) \cap Flags :
           req.flag \in Flags /\ TermOf[f] = TermOf[req.flag]
    /\ \A f \in req.sweep : req.flag \in Flags /\ TermOf[f] = TermOf[req.flag]

Shapes == \A r \in Requests : Shape(reqs[r])

\* A locked row is about a term its holder deals with.
LocksHeld ==
    \A x \in Rows, r \in Requests :
        locks[x] = r => Active(r) /\ TermOfRow(x) \in Held(reqs[r])

\* A request that has not crossed another one shares no term with any.
Apart ==
    \A r \in Requests \ crossed : \A q \in Requests \ {r} :
        Active(r) /\ Active(q) => About(reqs[r]) \cap About(reqs[q]) = {}

\* ... and finds the rows of its terms as it has read them.
FoundStands ==
    \A r \in Requests \ crossed : Active(r) /\ reqs[r].kind # "remove" =>
        \A x \in ToSet(reqs[r].todo) \cap Terms : glossary[x].row = reqs[r].found

\* A translation was chosen by a request that is over, for a row that is there.
ChosenByDone ==
    \A t \in Terms : glossary[t].value # Nobody =>
        glossary[t].row # Nobody /\ reqs[glossary[t].value].at = "done"

\* No flag of a term that was decided for the book is pending or about to be.
Decided ==
    \A f \in Flags \ late : flags[f].at \in {"pending", "coming"} =>
        LET by == glossary[TermOf[f]].value IN by # Nobody => reqs[by].kind # "apply"

\* A decision for the book that commits takes every such flag with it.
SweepComplete ==
    \A r \in Requests : reqs[r].at = "commit" /\ reqs[r].kind = "apply" =>
        \A f \in Flags \ late :
            TermOf[f] = TermOf[reqs[r].flag] /\ f # reqs[r].flag /\ f \notin reqs[r].sweep =>
                flags[f].at \notin {"pending", "coming"}

\* A flag of a sweep that is decided by now was decided by a crossing request.
SweptOverCrossed ==
    \A r \in Requests : Active(r) =>
        \A f \in reqs[r].sweep : flags[f].at = "decided" =>
            flags[f].by \in crossed /\ r \in crossed

TermsInv ==
    /\ TypeOK /\ Shapes /\ LocksHeld
    /\ Apart /\ FoundStands /\ FailsOnlyOnConflict
    /\ ChosenByDone /\ Decided /\ SweepComplete
    /\ SweptOverCrossed /\ DecisionsStand

-----------------------------------------------------------------------------
(* Sequences *)

LEMMA ToSetOfOne ==
  ASSUME NEW a
  PROVE  ToSet(<<a>>) = {a}
  BY DEF ToSet

LEMMA ToSetOfTwo ==
  ASSUME NEW a, NEW b
  PROVE  ToSet(<<a, b>>) = {a, b}
  BY DEF ToSet

LEMMA ToSetOfNone == ToSet(<<>>) = {}
  BY DEF ToSet

LEMMA HeadTail ==
  ASSUME NEW S, NEW s \in Seq(S), s # <<>>
  PROVE  /\ Head(s) \in S /\ Head(s) \in ToSet(s)
         /\ Tail(s) \in Seq(S) /\ ToSet(Tail(s)) \subseteq ToSet(s)
         /\ Len(Tail(s)) = Len(s) - 1
         /\ Len(s) \in Nat \ {0}
  BY DEF ToSet

LEMMA NotEmpty ==
  ASSUME NEW S, NEW s \in Seq(S), Len(s) > 0
  PROVE  s # <<>>
  OBVIOUS

LEMMA ToSetType ==
  ASSUME NEW S, NEW s \in Seq(S)
  PROVE  ToSet(s) \subseteq S
  BY DEF ToSet

\* The orders in which a finite set's elements can be listed.
LEMMA Orders ==
  ASSUME NEW S, IsFiniteSet(S), NEW s \in SetToSeqs(S)
  PROVE  s \in Seq(S) /\ Len(s) = Cardinality(S)
  <1>1. Cardinality(S) \in Nat
    BY FS_CardinalityType
  <1>2. s \in [1..Cardinality(S) -> S]
    BY DEF SetToSeqs
  <1> QED
    BY <1>1, <1>2

-----------------------------------------------------------------------------
(* Requests *)

LEMMA IdleShape ==
  ASSUME NEW kind \in Kind, NEW at \in {"new", "done", "failed"}
  PROVE  /\ Idle(kind, at) \in Request /\ Shape(Idle(kind, at))
         /\ Idle(kind, at).at = at /\ Idle(kind, at).kind = kind
  <1>1. Idle(kind, at) \in Request
    BY DEF Idle, Request, Step, Somebody, Rows
  <1>2. Shape(Idle(kind, at))
    BY ToSetOfNone DEF Idle, Shape, ActiveAt
  <1> QED
    BY <1>1, <1>2 DEF Idle

LEMMA AboutFacts ==
  ASSUME NEW req
  PROVE  About(req) = Touched(req) \cup Held(req)
  BY DEF About, Touched, Held

\* upsert_term's lookup keeps a request within its terms.
LEMMA SelectedFacts ==
  ASSUME TypeOK, NEW req \in Request, req.terms # <<>>, req.sweep = {},
         req.kind \in {"apply", "put", "import"},
         req.kind # "import" => Len(req.terms) = 1,
         req.kind = "apply" => /\ req.flag \in Flags /\ req.wrote = {}
                               /\ ToSet(req.terms) \subseteq {TermOf[req.flag]}
  PROVE  /\ Selected(req) \in Request /\ Shape(Selected(req))
         /\ Selected(req).at = "flush" /\ Selected(req).kind = req.kind
         /\ Selected(req).sweep = {}
         /\ Held(Selected(req)) = Held(req)
         /\ About(Selected(req)) \subseteq ToSet(req.terms) \cup Held(req)
         /\ \A x \in ToSet(Selected(req).todo) \cap Terms :
                glossary[x].row = Selected(req).found
  <1> DEFINE t == Head(req.terms)
             new == Selected(req)
  <1>1. t \in Terms /\ t \in ToSet(req.terms) /\ req.terms \in Seq(Terms)
    BY HeadTail DEF Request
  <1>2. /\ new.at = "flush" /\ new.kind = req.kind /\ new.sweep = {} /\ new.wrote = req.wrote
        /\ new.flag = req.flag /\ new.terms = req.terms /\ new.found = glossary[t].row
        /\ new.todo = IF req.kind # "apply" THEN <<t>>
                      ELSE IF flagFirst THEN <<req.flag, t>> ELSE <<t, req.flag>>
    BY DEF Selected, Request
  <1>3. /\ new.todo \in Seq(Rows) /\ new.todo # <<>>
        /\ ToSet(new.todo) = IF req.kind = "apply" THEN {req.flag, t} ELSE {t}
    <2>1. CASE req.kind # "apply"
      BY <1>1, <1>2, <2>1, ToSetOfOne DEF Rows
    <2>2. CASE req.kind = "apply" /\ flagFirst
      BY <1>1, <1>2, <2>2, ToSetOfTwo DEF Rows
    <2>3. CASE req.kind = "apply" /\ ~flagFirst
      BY <1>1, <1>2, <2>3, ToSetOfTwo DEF Rows
    <2> QED
      BY <2>1, <2>2, <2>3
  <1>4. ToSet(new.todo) \cap Terms = {t} /\ ToSet(new.todo) \cap Flags \subseteq {req.flag}
    BY <1>1, <1>3, NamesAssumption DEF NamesAssumption
  <1>5. glossary[t].row \in Somebody
    BY <1>1 DEF TypeOK
  <1>6. new \in Request
    <2>1. new = [req EXCEPT !.at = "flush", !.found = glossary[t].row, !.todo = new.todo]
      BY <1>2 DEF Selected
    <2> QED
      BY <1>3, <1>5, <2>1 DEF Request, Step
  <1>7. Held(new) = Held(req)
    BY <1>2 DEF Held
  <1>8. Touched(new) \subseteq ToSet(req.terms) \cup Held(req)
    BY <1>1, <1>2, <1>4 DEF Touched, Held
  <1>9. req.kind = "apply" => Touched(new) \subseteq {TermOf[req.flag]}
    BY <1>1, <1>2, <1>4 DEF Touched
  <1>10. Shape(new)
    <2>1. \A f \in ToSet(new.todo) \cap Flags : new.flag \in Flags /\ TermOf[f] = TermOf[new.flag]
      BY <1>2, <1>4
    <2> QED
      BY <1>2, <1>3, <1>9, <2>1 DEF Shape, ActiveAt
  <1> QED
    BY <1>2, <1>4, <1>6, <1>7, <1>8, <1>10, AboutFacts

\* A row written leaves a request within its terms, and on its way.
LEMMA WrittenFacts ==
  ASSUME NEW req \in Request, Shape(req), req.at \in {"flush", "commit"}, req.todo # <<>>,
         NEW x, x = Head(req.todo)
  PROVE  /\ Written(req, x) \in Request /\ Shape(Written(req, x))
         /\ Written(req, x).at \in {"select", "flush", "flushed", "commit"}
         /\ Written(req, x).kind = req.kind /\ Written(req, x).found = req.found
         /\ Written(req, x).flag = req.flag /\ Written(req, x).sweep = req.sweep
         /\ Written(req, x).at = "commit" /\ req.at # "commit" => req.kind # "apply"
         /\ ToSet(Written(req, x).todo) \subseteq ToSet(req.todo)
         /\ Held(req) \subseteq Held(Written(req, x))
         /\ TermOfRow(x) \in Held(Written(req, x))
         /\ About(Written(req, x)) \subseteq About(req)
  <1> DEFINE new == Written(req, x)
             step == IF req.at = "commit" \/ Len(req.todo) > 1 THEN req.at
                     ELSE IF Len(req.terms) > 1 THEN "select"
                     ELSE IF req.kind = "apply" THEN "flushed" ELSE "commit"
             left == IF req.at = "flush" /\ Len(req.todo) = 1 THEN Tail(req.terms) ELSE req.terms
             wrote == IF x \in Terms THEN req.wrote \cup {[term |-> x, found |-> req.found]}
                      ELSE req.wrote
  <1>1. /\ req.todo \in Seq(Rows) /\ req.terms \in Seq(Terms)
        /\ x \in Rows /\ x \in ToSet(req.todo)
        /\ Tail(req.todo) \in Seq(Rows) /\ ToSet(Tail(req.todo)) \subseteq ToSet(req.todo)
        /\ Len(Tail(req.todo)) = Len(req.todo) - 1 /\ Len(req.todo) \in Nat \ {0}
    BY HeadTail DEF Request
  <1>2. /\ new.at = step /\ new.kind = req.kind /\ new.flag = req.flag /\ new.terms = left
        /\ new.found = req.found /\ new.wrote = wrote /\ new.todo = Tail(req.todo)
        /\ new.sweep = req.sweep
    BY DEF Written, Request
  <1>3. new = [req EXCEPT !.todo = Tail(req.todo), !.wrote = wrote, !.terms = left,
                          !.at = step]
    BY DEF Written
  <1>0. req.at = "flush" =>
            req.terms # <<>> /\ (req.kind # "import" => Len(req.terms) = 1)
    BY DEF Shape
  <1>4. left \in Seq(Terms) /\ ToSet(left) \subseteq ToSet(req.terms)
        /\ (step = "select" => left # <<>>) /\ (step = "flush" => left = req.terms)
    <2>1. CASE req.at = "flush" /\ Len(req.todo) = 1
      <3>1. req.terms # <<>>
        BY <1>0, <2>1
      <3>2. /\ Tail(req.terms) \in Seq(Terms) /\ ToSet(Tail(req.terms)) \subseteq ToSet(req.terms)
            /\ Len(Tail(req.terms)) = Len(req.terms) - 1 /\ Len(req.terms) \in Nat \ {0}
        BY <1>1, <3>1, HeadTail
      <3>3. left = Tail(req.terms) /\ step # "flush"
        BY <2>1
      <3>4. step = "select" => Len(Tail(req.terms)) > 0
        BY <2>1, <3>2
      <3>5. step = "select" => Tail(req.terms) # <<>>
        BY <3>2, <3>4, NotEmpty
      <3> QED
        BY <3>2, <3>3, <3>5
    <2>2. CASE req.at = "commit"
      BY <1>1, <2>2
    <2>3. CASE req.at = "flush" /\ Len(req.todo) # 1
      BY <1>1, <2>3
    <2> QED
      BY <2>1, <2>2, <2>3
  <1>5. wrote \in SUBSET [term : Terms, found : Somebody] /\ req.wrote \subseteq wrote
    BY DEF Request
  <1>6. step \in {"select", "flush", "flushed", "commit"}
    OBVIOUS
  <1>7. new \in Request
    BY <1>1, <1>3, <1>4, <1>5, <1>6 DEF Request, Step
  <1>8. step = "select" => req.kind = "import"
    <2> SUFFICES ASSUME step = "select"
                 PROVE  req.kind = "import"
      OBVIOUS
    <2>1. req.at = "flush" /\ Len(req.terms) > 1
      OBVIOUS
    <2>2. Len(req.terms) # 1
      BY <1>1, <2>1
    <2> QED
      BY <1>0, <2>1, <2>2
  <1>9. step = "flush" => req.at = "flush" /\ Tail(req.todo) # <<>>
    <2>1. step = "flush" => req.at = "flush" /\ Len(req.todo) > 1
      OBVIOUS
    <2>2. Len(req.todo) > 1 => Len(Tail(req.todo)) > 0
      BY <1>1
    <2>3. Len(req.todo) > 1 => Tail(req.todo) # <<>>
      BY <1>1, <2>2, NotEmpty
    <2> QED
      BY <2>1, <2>3
  <1>10. {w.term : w \in wrote} \subseteq {w.term : w \in req.wrote} \cup (ToSet(req.todo) \cap Terms)
    BY <1>1
  <1>11. Touched(new) \subseteq Touched(req)
    BY <1>1, <1>2, <1>4, <1>10 DEF Touched
  <1>12. Shape(new)
    <2>1. ActiveAt(new.at) /\ ActiveAt(req.at)
      BY <1>2, <1>6 DEF ActiveAt
    <2>2. new.at = "select" => new.kind = "import" /\ new.terms # <<>>
      BY <1>2, <1>4, <1>8
    <2>3. new.at = "flush" =>
              /\ new.kind \in {"apply", "put", "import"}
              /\ new.todo # <<>> /\ new.terms # <<>>
              /\ new.kind # "import" => Len(new.terms) = 1
      BY <1>2, <1>4, <1>9 DEF Shape
    <2>4. /\ new.at = "flushed" => new.kind = "apply"
          /\ new.at \in {"select", "flush", "flushed"} => new.sweep = {}
      <3>1. req.at = "flush" => req.sweep = {}
        BY DEF Shape
      <3> QED
        BY <1>2, <3>1
    <2>5. new.kind = "apply" => new.flag \in Flags /\ Touched(new) \subseteq {TermOf[new.flag]}
      BY <1>2, <1>11, <2>1 DEF Shape
    <2>6. \A f \in ToSet(new.todo) \cap Flags : new.flag \in Flags /\ TermOf[f] = TermOf[new.flag]
      BY <1>1, <1>2 DEF Shape
    <2>7. \A f \in new.sweep : new.flag \in Flags /\ TermOf[f] = TermOf[new.flag]
      BY <1>2 DEF Shape
    <2> QED
      BY <2>1, <2>2, <2>3, <2>4, <2>5, <2>6, <2>7 DEF Shape
  <1>13. Held(req) \subseteq Held(new)
    BY <1>2, <1>5 DEF Held
  <1>14. TermOfRow(x) \in Held(new)
    <2>1. CASE x \in Terms
      <3>1. x \notin Flags
        BY <2>1, NamesAssumption DEF NamesAssumption
      <3>2. [term |-> x, found |-> req.found] \in wrote
        BY <2>1
      <3> QED
        BY <1>2, <3>1, <3>2 DEF TermOfRow, Held
    <2>2. CASE x \in Flags
      <3>1. req.flag \in Flags /\ TermOf[x] = TermOf[req.flag]
        BY <1>1, <2>2 DEF Shape
      <3>2. req.flag # 0
        BY <3>1, FlagsAssumption DEF FlagsAssumption
      <3> QED
        BY <1>2, <2>2, <3>1, <3>2 DEF TermOfRow, Held
    <2> QED
      BY <1>1, <2>1, <2>2 DEF Rows
  <1>15. Held(new) \subseteq Touched(req) \cup Held(req)
    BY <1>2, <1>10 DEF Held, Touched
  <1>16. About(new) \subseteq About(req)
    BY <1>11, <1>15, AboutFacts
  <1> QED
    BY <1>1, <1>2, <1>6, <1>7, <1>12, <1>13, <1>14, <1>16

-----------------------------------------------------------------------------
(* The initial state, and the tasks *)

LEMMA InitTerms == Init => TermsInv
  <1> SUFFICES ASSUME Init
               PROVE  TermsInv
    OBVIOUS
  <1>1. \A r \in Requests : reqs[r] \in Request /\ Shape(reqs[r]) /\ reqs[r].at = "new"
    BY IdleShape DEF Init, Kind
  <1>2. \A f \in Flags : flags[f].by = Nobody /\ flags[f].at \in {"pending", "unread"}
    BY DEF Init
  <1>3. \A t \in Terms : glossary[t].row = Nobody /\ glossary[t].value = Nobody
    BY DEF Init
  <1>4. \A x \in Rows : locks[x] = Nobody
    BY DEF Init
  <1>5. Nobody \notin Requests
    BY NamesAssumption DEF NamesAssumption, Nobody
  <1>6. \A r \in Requests : ~Active(r)
    BY <1>1 DEF Active
  <1>7. TypeOK
    <2>1. flags \in [Flags -> [at : {"unread", "coming", "dropped", "pending", "decided"},
                               by : Somebody]]
      BY DEF Init, Somebody
    <2>2. glossary \in [Terms -> [row : Somebody, value : Somebody]]
      BY DEF Init, Somebody
    <2>3. locks \in [Rows -> Somebody]
      BY DEF Init, Somebody
    <2>4. reqs \in [Requests -> Request]
      BY <1>1 DEF Init
    <2>5. late \subseteq Flags /\ crossed \subseteq Requests /\ flagFirst \in BOOLEAN
      BY DEF Init
    <2> QED
      BY <1>4, <1>5, <2>1, <2>2, <2>3, <2>4, <2>5 DEF TypeOK
  <1>8. Shapes
    BY <1>1 DEF Shapes
  <1>9. LocksHeld
    BY <1>4, <1>5 DEF LocksHeld
  <1>10. Apart /\ FoundStands /\ SweptOverCrossed
    BY <1>6 DEF Apart, FoundStands, SweptOverCrossed
  <1>11. FailsOnlyOnConflict /\ SweepComplete
    BY <1>1 DEF FailsOnlyOnConflict, SweepComplete
  <1>12. ChosenByDone /\ Decided
    BY <1>3, FlagsAssumption DEF ChosenByDone, Decided, FlagsAssumption
  <1>13. DecisionsStand
    BY DEF Init, DecisionsStand
  <1> QED
    BY <1>7, <1>8, <1>9, <1>10, <1>11, <1>12, <1>13 DEF TermsInv

LEMMA FlagAbout ==
  ASSUME TypeOK, NEW r \in Requests, reqs[r].flag \in Flags
  PROVE  TermOf[reqs[r].flag] \in Held(reqs[r]) /\ TermOf[reqs[r].flag] \in About(reqs[r])
  BY FlagsAssumption, AboutFacts DEF FlagsAssumption, Held

\* A task changes its own flag only, and never to a decided one.
LEMMA TaskStep ==
  ASSUME TermsInv, NEW f \in Flags, LoadGlossary(f) \/ InsertFlag(f)
  PROVE  TermsInv'
  <1>0. /\ TypeOK /\ Shapes /\ LocksHeld /\ Apart /\ FoundStands /\ FailsOnlyOnConflict
        /\ ChosenByDone /\ Decided /\ SweepComplete /\ SweptOverCrossed /\ DecisionsStand
    BY DEF TermsInv
  <1>1. UNCHANGED <<glossary, locks, reqs, flagFirst, crossed, swept>>
    BY DEF LoadGlossary, InsertFlag, history
  <1>2. \E at \in {"coming", "dropped", "pending"} : flags' = [flags EXCEPT ![f].at = at]
    BY DEF LoadGlossary, InsertFlag
  <1>3. /\ flags' \in [Flags -> [at : {"unread", "coming", "dropped", "pending", "decided"},
                                 by : Somebody]]
        /\ \A g \in Flags \ {f} : flags'[g] = flags[g]
        /\ flags'[f].at # "decided"
    BY <1>0, <1>2 DEF TypeOK
  <1>4. late \subseteq late' /\ late' \subseteq Flags
    BY <1>0 DEF LoadGlossary, InsertFlag, history, TypeOK
  <1>5. \A r \in Requests : Active(r)' <=> Active(r)
    BY <1>1 DEF Active
  <1>6. TypeOK'
    BY <1>0, <1>1, <1>3, <1>4, <1>5 DEF TypeOK
  <1>7. Shapes' /\ LocksHeld' /\ Apart' /\ FoundStands' /\ FailsOnlyOnConflict'
        /\ ChosenByDone' /\ DecisionsStand'
    BY <1>0, <1>1, <1>5 DEF Shapes, LocksHeld, Apart, FoundStands, FailsOnlyOnConflict,
       ChosenByDone, DecisionsStand
  <1>8. TermOf[f] \in Terms
    BY FlagsAssumption DEF FlagsAssumption
  <1>9. Decided'
    <2> SUFFICES ASSUME NEW g \in Flags, g \notin late', flags'[g].at \in {"pending", "coming"},
                        glossary[TermOf[g]].value # Nobody
                 PROVE  reqs[glossary[TermOf[g]].value].kind # "apply"
      BY <1>1 DEF Decided
    <2>1. CASE g # f
      BY <1>0, <1>3, <1>4, <2>1 DEF Decided
    <2>2. CASE g = f /\ LoadGlossary(f)
      <3>1. glossary[TermOf[f]].row = Nobody
        BY <1>0, <2>2 DEF LoadGlossary, TypeOK
      <3> QED
        BY <1>0, <1>8, <2>2, <3>1 DEF ChosenByDone
    <2>3. CASE g = f /\ InsertFlag(f)
      BY <1>0, <1>4, <2>3 DEF InsertFlag, Decided
    <2> QED
      BY <2>1, <2>2, <2>3
  <1>10. SweepComplete'
    <2> SUFFICES ASSUME NEW r \in Requests, reqs[r].at = "commit", reqs[r].kind = "apply",
                        NEW g \in Flags, g \notin late', TermOf[g] = TermOf[reqs[r].flag],
                        g # reqs[r].flag, g \notin reqs[r].sweep,
                        flags'[g].at \in {"pending", "coming"}
                 PROVE  FALSE
      BY <1>1 DEF SweepComplete
    <2>1. flags[g].at \notin {"pending", "coming"}
      BY <1>0, <1>4 DEF SweepComplete
    <2>2. g = f /\ LoadGlossary(f)
      BY <1>3, <2>1 DEF InsertFlag
    <2>3. TermOf[f] \in About(reqs[r])
      <3>1. reqs[r].flag \in Flags
        BY <1>0 DEF Shapes, Shape, ActiveAt
      <3> QED
        BY <1>0, <2>2, <3>1, FlagAbout
    <2> QED
      BY <2>2, <2>3 DEF LoadGlossary
  <1>11. SweptOverCrossed'
    <2> SUFFICES ASSUME NEW r \in Requests, Active(r), NEW g \in reqs[r].sweep,
                        flags'[g].at = "decided"
                 PROVE  flags'[g].by \in crossed /\ r \in crossed
      BY <1>1, <1>5 DEF SweptOverCrossed
    <2>1. g \in Flags
      BY <1>0 DEF TypeOK, Request
    <2>2. g # f
      BY <1>3
    <2> QED
      BY <1>0, <1>3, <2>1, <2>2 DEF SweptOverCrossed
  <1> QED
    BY <1>6, <1>7, <1>9, <1>10, <1>11 DEF TermsInv

-----------------------------------------------------------------------------
(* A request that begins *)

LEMMA StartStep ==
  ASSUME TermsInv, NEW r \in Requests, NEW req \in Request, Starts(r, req),
         ActiveAt(req.at), Shape(req), req.sweep = {},
         req.at = "commit" => req.kind # "apply",
         req.kind # "remove" => \A x \in ToSet(req.todo) \cap Terms : glossary[x].row = req.found
  PROVE  TermsInv'
  <1>0. /\ TypeOK /\ Shapes /\ LocksHeld /\ Apart /\ FoundStands /\ FailsOnlyOnConflict
        /\ ChosenByDone /\ Decided /\ SweepComplete /\ SweptOverCrossed /\ DecisionsStand
    BY DEF TermsInv
  <1>1. reqs[r].at = "new" /\ UNCHANGED <<flags, glossary, locks, flagFirst, late, swept>>
    BY DEF Starts
  <1>2. /\ reqs' \in [Requests -> Request] /\ reqs'[r] = req
        /\ \A q \in Requests \ {r} : reqs'[q] = reqs[q]
    BY <1>0 DEF Starts, TypeOK
  <1>3. ~Active(r) /\ Active(r)' /\ \A q \in Requests \ {r} : Active(q)' <=> Active(q)
    BY <1>1, <1>2 DEF Active, ActiveAt
  <1> DEFINE others == {q \in Requests \ {r} : Active(q) /\ About(reqs[q]) \cap About(req) # {}}
  <1>4. crossed' = IF others = {} THEN crossed ELSE crossed \cup others \cup {r}
    BY DEF Starts
  <1>5. crossed \subseteq crossed' /\ crossed' \subseteq Requests
    BY <1>0, <1>4 DEF TypeOK
  <1>6. \A x \in Rows : locks[x] # r
    BY <1>0, <1>3 DEF TypeOK
  <1>7. TypeOK'
    BY <1>0, <1>1, <1>2, <1>3, <1>5 DEF TypeOK
  <1>8. Shapes'
    BY <1>0, <1>2 DEF Shapes
  <1>9. LocksHeld'
    <2> SUFFICES ASSUME NEW x \in Rows, NEW q \in Requests, locks[x] = q
                 PROVE  Active(q)' /\ TermOfRow(x) \in Held(reqs'[q])
      BY <1>1 DEF LocksHeld
    <2>1. q # r
      BY <1>6
    <2> QED
      BY <1>0, <1>2, <1>3, <2>1 DEF LocksHeld
  <1>10. Apart'
    <2> SUFFICES ASSUME NEW p \in Requests, p \notin crossed', NEW q \in Requests \ {p},
                        Active(p)', Active(q)'
                 PROVE  About(reqs'[p]) \cap About(reqs'[q]) = {}
      BY DEF Apart
    <2>1. CASE p = r
      BY <1>2, <1>3, <1>4, <2>1
    <2>2. CASE q = r
      <3>1. p \notin others
        BY <1>4
      <3> QED
        BY <1>2, <1>3, <2>2, <3>1
    <2>3. CASE p # r /\ q # r
      BY <1>0, <1>2, <1>3, <1>5, <2>3 DEF Apart
    <2> QED
      BY <2>1, <2>2, <2>3
  <1>11. FoundStands'
    <2> SUFFICES ASSUME NEW p \in Requests, p \notin crossed', Active(p)',
                        reqs'[p].kind # "remove",
                        NEW x \in ToSet(reqs'[p].todo) \cap Terms
                 PROVE  glossary[x].row = reqs'[p].found
      BY <1>1 DEF FoundStands
    <2>1. CASE p = r
      BY <1>2, <2>1
    <2>2. CASE p # r
      BY <1>0, <1>2, <1>3, <1>5, <2>2 DEF FoundStands
    <2> QED
      BY <2>1, <2>2
  <1>12. FailsOnlyOnConflict'
    BY <1>0, <1>2, <1>5 DEF FailsOnlyOnConflict, ActiveAt
  <1>13. ChosenByDone' /\ Decided'
    <2>1. \A t \in Terms : glossary[t].value # Nobody =>
              glossary[t].value \in Requests \ {r}
      BY <1>0, <1>1 DEF ChosenByDone, TypeOK, Somebody
    <2>2. \A f \in Flags : TermOf[f] \in Terms
      BY FlagsAssumption DEF FlagsAssumption
    <2>3. ChosenByDone'
      BY <1>0, <1>1, <1>2, <2>1 DEF ChosenByDone
    <2>4. Decided'
      BY <1>0, <1>1, <1>2, <2>1, <2>2 DEF Decided
    <2> QED
      BY <2>3, <2>4
  <1>14. SweepComplete'
    BY <1>0, <1>1, <1>2 DEF SweepComplete
  <1>15. SweptOverCrossed'
    <2> SUFFICES ASSUME NEW p \in Requests, Active(p)', NEW g \in reqs'[p].sweep,
                        flags[g].at = "decided"
                 PROVE  flags[g].by \in crossed' /\ p \in crossed'
      BY <1>1 DEF SweptOverCrossed
    <2>1. p # r
      BY <1>2
    <2> QED
      BY <1>0, <1>2, <1>3, <1>5, <2>1 DEF SweptOverCrossed
  <1>16. DecisionsStand'
    BY <1>0, <1>1, <1>5 DEF DecisionsStand
  <1> QED
    BY <1>7, <1>8, <1>9, <1>10, <1>11, <1>12, <1>13, <1>14, <1>15, <1>16 DEF TermsInv

LEMMA FilesOfTerms ==
  ASSUME NEW file \in SetToSeqs(Terms)
  PROVE  file \in Seq(Terms) /\ file # <<>>
  <1>1. Cardinality(Terms) \in Nat /\ Cardinality(Terms) # 0
    BY FlagsAssumption, FS_CardinalityType, FS_EmptySet DEF FlagsAssumption
  <1>2. file \in Seq(Terms) /\ Len(file) = Cardinality(Terms)
    BY FlagsAssumption, Orders DEF FlagsAssumption
  <1> QED
    BY <1>1, <1>2

LEMMA ArrivesStep ==
  ASSUME TermsInv, NEW r \in Requests, Arrives(r)
  PROVE  TermsInv'
  <1> DEFINE old == reqs[r]
  <1>0. TypeOK /\ Shapes
    BY DEF TermsInv
  <1>1. old.at = "new"
    BY DEF Arrives, Decide, Put, Import, RemoveTerm, Starts
  <1>2. /\ old = Idle(old.kind, "new") /\ old.kind \in Kind /\ old \in Request
    <2>1. old \in Request /\ Shape(old)
      BY <1>0 DEF TypeOK, Shapes
    <2>2. old = Idle(old.kind, "new")
      BY <1>1, <2>1 DEF Shape, ActiveAt
    <2> QED
      BY <2>1, <2>2 DEF Request
  <1>3. /\ old.flag = 0 /\ old.terms = <<>> /\ old.wrote = {} /\ old.todo = <<>>
        /\ old.sweep = {}
    BY <1>2 DEF Idle
  <1>4. ASSUME NEW f \in Flags, Decide(r, f)
        PROVE  TermsInv'
    <2> DEFINE apply == [old EXCEPT !.kind = "apply", !.flag = f, !.terms = <<TermOf[f]>>]
               mark == [old EXCEPT !.at = "commit", !.kind = "mark", !.flag = f, !.todo = <<f>>]
    <2>0. TermOf[f] \in Terms
      BY FlagsAssumption DEF FlagsAssumption
    <2>1. CASE Starts(r, Selected(apply))
      <3>1. <<TermOf[f]>> \in Seq(Terms) /\ ToSet(<<TermOf[f]>>) = {TermOf[f]}
            /\ <<TermOf[f]>> # <<>> /\ Len(<<TermOf[f]>>) = 1
        BY <2>0, ToSetOfOne
      <3>2. apply \in Request
        BY <1>2, <3>1 DEF Request, Kind
      <3>3. /\ apply.kind = "apply" /\ apply.flag = f /\ apply.terms = <<TermOf[f]>>
            /\ apply.todo = <<>> /\ apply.sweep = {} /\ apply.wrote = {}
        BY <1>2, <1>3 DEF Request
      <3>4. /\ Selected(apply) \in Request /\ Shape(Selected(apply))
            /\ Selected(apply).at = "flush" /\ Selected(apply).sweep = {}
            /\ \A x \in ToSet(Selected(apply).todo) \cap Terms :
                   glossary[x].row = Selected(apply).found
        <4> HIDE DEF apply
        <4> QED
          BY <1>0, <3>1, <3>2, <3>3, SelectedFacts
      <3> HIDE DEF apply
      <3> QED
        BY <2>1, <3>4, StartStep DEF ActiveAt
    <2>2. CASE Starts(r, mark)
      <3>1. <<f>> \in Seq(Rows) /\ ToSet(<<f>>) = {f}
        BY ToSetOfOne DEF Rows
      <3>2. mark \in Request
        BY <1>2, <3>1 DEF Request, Kind, Step
      <3>3. /\ mark.at = "commit" /\ mark.kind = "mark" /\ mark.flag = f /\ mark.todo = <<f>>
            /\ mark.sweep = {}
        BY <1>2, <1>3 DEF Request
      <3>4. f \notin Terms
        BY NamesAssumption DEF NamesAssumption
      <3> HIDE DEF mark
      <3>5. Shape(mark)
        BY <3>1, <3>3 DEF Shape, ActiveAt
      <3>6. \A x \in ToSet(mark.todo) \cap Terms : glossary[x].row = mark.found
        BY <3>1, <3>3, <3>4
      <3> QED
        BY <2>2, <3>2, <3>3, <3>5, <3>6, StartStep DEF ActiveAt
    <2> QED
      BY <1>4, <2>1, <2>2 DEF Decide
  <1>5. ASSUME NEW kind \in {"put", "import"}, NEW file \in Seq(Terms), file # <<>>,
               kind = "put" => Len(file) = 1,
               Starts(r, Selected([old EXCEPT !.kind = kind, !.terms = file]))
        PROVE  TermsInv'
    <2> DEFINE put == [old EXCEPT !.kind = kind, !.terms = file]
    <2>1. put \in Request
      BY <1>2 DEF Request, Kind
    <2>2. /\ put.kind = kind /\ put.terms = file /\ put.todo = <<>> /\ put.sweep = {}
      BY <1>2, <1>3 DEF Request
    <2>3. Starts(r, Selected(put))
      BY <1>5
    <2> HIDE DEF put
    <2>4. /\ Selected(put) \in Request /\ Shape(Selected(put))
          /\ Selected(put).at = "flush" /\ Selected(put).sweep = {}
          /\ \A x \in ToSet(Selected(put).todo) \cap Terms :
                 glossary[x].row = Selected(put).found
      BY <1>0, <1>5, <2>1, <2>2, SelectedFacts
    <2> QED
      BY <2>3, <2>4, StartStep DEF ActiveAt
  <1>6. ASSUME NEW t \in Terms, Put(r, t)
        PROVE  TermsInv'
    <2>1. <<t>> \in Seq(Terms) /\ <<t>> # <<>> /\ Len(<<t>>) = 1
      OBVIOUS
    <2> QED
      BY <1>5, <1>6, <2>1 DEF Put
  <1>7. ASSUME NEW file \in SetToSeqs(Terms), Import(r, file)
        PROVE  TermsInv'
    BY <1>5, <1>7, FilesOfTerms DEF Import
  <1>8. ASSUME NEW t \in Terms, RemoveTerm(r, t)
        PROVE  TermsInv'
    <2> DEFINE remove == [old EXCEPT !.at = "commit", !.kind = "remove", !.todo = <<t>>,
                                     !.found = glossary[t].row]
    <2>1. <<t>> \in Seq(Rows) /\ ToSet(<<t>>) = {t} /\ glossary[t].row \in Somebody
      BY <1>0, ToSetOfOne DEF Rows, TypeOK
    <2>2. remove \in Request
      BY <1>2, <2>1 DEF Request, Kind, Step
    <2>3. /\ remove.at = "commit" /\ remove.kind = "remove" /\ remove.todo = <<t>>
          /\ remove.sweep = {}
      BY <1>2, <1>3 DEF Request
    <2>4. t \notin Flags
      BY NamesAssumption DEF NamesAssumption
    <2>5. Starts(r, remove)
      BY <1>8 DEF RemoveTerm
    <2> HIDE DEF remove
    <2>6. Shape(remove)
      BY <2>1, <2>3, <2>4 DEF Shape, ActiveAt
    <2> QED
      BY <2>2, <2>3, <2>5, <2>6, StartStep DEF ActiveAt
  <1> QED
    BY <1>4, <1>6, <1>7, <1>8 DEF Arrives

-----------------------------------------------------------------------------
(* A request that goes on *)

LEMMA AdvanceStep ==
  ASSUME TermsInv, NEW r \in Requests, Active(r),
         NEW req \in Request, reqs' = [reqs EXCEPT ![r] = req],
         ActiveAt(req.at), Shape(req), req.kind = reqs[r].kind,
         Held(reqs[r]) \subseteq Held(req), About(req) \subseteq About(reqs[r]),
         locks' \in [Rows -> Somebody],
         \A x \in Rows : locks'[x] = locks[x] \/ (locks'[x] = r /\ TermOfRow(x) \in Held(req)),
         late \subseteq late', late' \subseteq Flags,
         UNCHANGED <<flags, glossary, flagFirst, crossed, swept>>,
         \/ \A x \in ToSet(req.todo) \cap Terms : glossary[x].row = req.found
         \/ req.found = reqs[r].found /\ ToSet(req.todo) \subseteq ToSet(reqs[r].todo),
         \A f \in req.sweep : f \in reqs[r].sweep \/ flags[f].at # "decided",
         req.at = "commit" /\ req.kind = "apply" =>
             \/ reqs[r].at = "commit" /\ req.sweep = reqs[r].sweep /\ req.flag = reqs[r].flag
             \/ \A f \in Flags \ late' :
                    TermOf[f] = TermOf[req.flag] /\ f # req.flag /\ f \notin req.sweep =>
                        flags[f].at \notin {"pending", "coming"}
  PROVE  TermsInv'
  <1>0. /\ TypeOK /\ Shapes /\ LocksHeld /\ Apart /\ FoundStands /\ FailsOnlyOnConflict
        /\ ChosenByDone /\ Decided /\ SweepComplete /\ SweptOverCrossed /\ DecisionsStand
    BY DEF TermsInv
  <1>1. /\ reqs' \in [Requests -> Request] /\ reqs'[r] = req
        /\ \A q \in Requests \ {r} : reqs'[q] = reqs[q]
    BY <1>0 DEF TypeOK
  <1>2. \A q \in Requests : Active(q)' <=> Active(q)
    BY <1>1 DEF Active, ActiveAt
  <1>3. \A q \in Requests : /\ Held(reqs[q]) \subseteq Held(reqs'[q])
                            /\ About(reqs'[q]) \subseteq About(reqs[q])
                            /\ reqs'[q].kind = reqs[q].kind
    BY <1>1
  <1>4. TypeOK'
    <2>1. \A q \in Requests : ~Active(q) => \A x \in Rows : locks'[x] # q
      BY <1>0 DEF TypeOK
    <2> QED
      BY <1>0, <1>1, <1>2, <2>1 DEF TypeOK
  <1>5. Shapes'
    BY <1>0, <1>1 DEF Shapes
  <1>6. LocksHeld'
    <2> SUFFICES ASSUME NEW x \in Rows, NEW q \in Requests, locks'[x] = q
                 PROVE  Active(q)' /\ TermOfRow(x) \in Held(reqs'[q])
      BY DEF LocksHeld
    <2>1. CASE locks[x] = q
      BY <1>0, <1>2, <1>3, <2>1 DEF LocksHeld
    <2>2. CASE q = r /\ TermOfRow(x) \in Held(req)
      BY <1>1, <1>2, <2>2
    <2> QED
      BY <2>1, <2>2
  <1>7. Apart'
    <2> SUFFICES ASSUME NEW p \in Requests, p \notin crossed, NEW q \in Requests \ {p},
                        Active(p), Active(q)
                 PROVE  About(reqs'[p]) \cap About(reqs'[q]) = {}
      BY <1>2 DEF Apart
    <2>1. About(reqs[p]) \cap About(reqs[q]) = {}
      BY <1>0 DEF Apart
    <2> QED
      BY <1>3, <2>1
  <1>8. FoundStands'
    <2> SUFFICES ASSUME NEW p \in Requests, p \notin crossed, Active(p),
                        reqs[p].kind # "remove",
                        NEW x \in ToSet(reqs'[p].todo) \cap Terms
                 PROVE  glossary[x].row = reqs'[p].found
      BY <1>2, <1>3 DEF FoundStands
    <2>1. CASE p = r
      BY <1>0, <1>1, <2>1 DEF FoundStands
    <2>2. CASE p # r
      BY <1>0, <1>1, <2>2 DEF FoundStands
    <2> QED
      BY <2>1, <2>2
  <1>9. FailsOnlyOnConflict'
    BY <1>0, <1>1 DEF FailsOnlyOnConflict, ActiveAt
  <1>10. ChosenByDone' /\ Decided'
    <2>1. \A t \in Terms : glossary[t].value # Nobody =>
              glossary[t].value \in Requests \ {r}
      BY <1>0 DEF ChosenByDone, TypeOK, Somebody, Active
    <2>2. \A f \in Flags : TermOf[f] \in Terms
      BY FlagsAssumption DEF FlagsAssumption
    <2>3. ChosenByDone'
      BY <1>0, <1>1, <2>1 DEF ChosenByDone
    <2>4. Decided'
      BY <1>0, <1>1, <2>1, <2>2 DEF Decided
    <2> QED
      BY <2>3, <2>4
  <1>11. SweepComplete'
    <2> SUFFICES ASSUME NEW p \in Requests, reqs'[p].at = "commit", reqs'[p].kind = "apply",
                        NEW f \in Flags, f \notin late', TermOf[f] = TermOf[reqs'[p].flag],
                        f # reqs'[p].flag, f \notin reqs'[p].sweep
                 PROVE  flags[f].at \notin {"pending", "coming"}
      BY DEF SweepComplete
    <2>1. CASE p = r /\ reqs[r].at = "commit" /\ req.sweep = reqs[r].sweep
               /\ req.flag = reqs[r].flag
      BY <1>0, <1>1, <2>1 DEF SweepComplete
    <2>2. CASE p = r /\ ~(reqs[r].at = "commit" /\ req.sweep = reqs[r].sweep
                          /\ req.flag = reqs[r].flag)
      BY <1>1, <2>2
    <2>3. CASE p # r
      BY <1>0, <1>1, <2>3 DEF SweepComplete
    <2> QED
      BY <2>1, <2>2, <2>3
  <1>12. SweptOverCrossed'
    <2> SUFFICES ASSUME NEW p \in Requests, Active(p), NEW f \in reqs'[p].sweep,
                        flags[f].at = "decided"
                 PROVE  flags[f].by \in crossed /\ p \in crossed
      BY <1>2 DEF SweptOverCrossed
    <2>1. f \in reqs[p].sweep
      BY <1>1
    <2> QED
      BY <1>0, <2>1 DEF SweptOverCrossed
  <1>13. DecisionsStand'
    BY <1>0 DEF DecisionsStand
  <1> QED
    BY <1>4, <1>5, <1>6, <1>7, <1>8, <1>9, <1>10, <1>11, <1>12, <1>13 DEF TermsInv

LEMMA SelectNextStep ==
  ASSUME TermsInv, NEW r \in Requests, SelectNext(r)
  PROVE  TermsInv'
  <1> DEFINE old == reqs[r]
             new == Selected(old)
  <1>1. TypeOK /\ old \in Request /\ Shape(old) /\ old.at = "select"
    BY DEF TermsInv, TypeOK, Shapes, SelectNext
  <1>2. old.kind = "import" /\ old.terms # <<>> /\ old.sweep = {}
    BY <1>1 DEF Shape
  <1>3. /\ new \in Request /\ Shape(new) /\ new.at = "flush" /\ new.kind = old.kind
        /\ new.sweep = {} /\ Held(new) = Held(old)
        /\ About(new) \subseteq ToSet(old.terms) \cup Held(old)
        /\ \A x \in ToSet(new.todo) \cap Terms : glossary[x].row = new.found
    BY <1>1, <1>2, SelectedFacts
  <1>4. About(new) \subseteq About(old)
    BY <1>3, AboutFacts DEF Touched
  <1>5. Active(r) /\ ActiveAt(new.at)
    BY <1>1, <1>3 DEF Active, ActiveAt
  <1>6. /\ reqs' = [reqs EXCEPT ![r] = new]
        /\ UNCHANGED <<flags, glossary, locks, flagFirst, late, crossed, swept>>
    BY DEF SelectNext, history
  <1>7. locks' \in [Rows -> Somebody] /\ late' \subseteq Flags
    BY <1>1, <1>6 DEF TypeOK
  <1> HIDE DEF new
  <1> QED
    BY <1>3, <1>4, <1>5, <1>6, <1>7, AdvanceStep

LEMMA ReadSiblingsStep ==
  ASSUME TermsInv, NEW r \in Requests, ReadSiblings(r)
  PROVE  TermsInv'
  <1> DEFINE old == reqs[r]
             S == Siblings(r)
  <1>1. TypeOK /\ old \in Request /\ Shape(old) /\ old.at = "flushed"
    BY DEF TermsInv, TypeOK, Shapes, ReadSiblings
  <1>2. PICK rows \in ByKey(S) : reqs' = [reqs EXCEPT ![r] = Sweeping(old, S, rows)]
    BY DEF ReadSiblings
  <1> DEFINE new == Sweeping(old, S, rows)
  <1>3. old.kind = "apply" /\ old.flag \in Flags /\ Touched(old) \subseteq {TermOf[old.flag]}
    BY <1>1 DEF Shape, ActiveAt
  <1>4. S \subseteq Flags /\ IsFiniteSet(S)
    BY FlagsAssumption, FS_Subset DEF FlagsAssumption, Siblings
  <1>5. rows \in Seq(S)
    BY <1>4, Orders DEF ByKey
  <1>6. rows \in Seq(Rows) /\ ToSet(rows) \subseteq S
    BY <1>4, <1>5, ToSetType DEF Rows
  <1>7. ToSet(rows) \cap Terms = {}
    BY <1>4, <1>6, NamesAssumption DEF NamesAssumption
  <1>8. new \in Request
    BY <1>1, <1>4, <1>6 DEF Sweeping, Request, Step
  <1>9. /\ new.at = "commit" /\ new.kind = old.kind /\ new.flag = old.flag
        /\ new.terms = old.terms /\ new.wrote = old.wrote /\ new.todo = rows /\ new.sweep = S
    BY <1>1 DEF Sweeping, Request
  <1>10. Held(new) = Held(old)
    BY <1>9 DEF Held
  <1>11. Touched(new) \subseteq Touched(old)
    BY <1>7, <1>9 DEF Touched
  <1>12. About(new) \subseteq About(old)
    BY <1>10, <1>11, AboutFacts
  <1>13. \A f \in S : TermOf[f] = TermOf[old.flag] /\ flags[f].at # "decided"
    BY DEF Siblings
  <1>14. Shape(new)
    BY <1>3, <1>6, <1>9, <1>11, <1>13 DEF Shape, ActiveAt
  <1>15. Active(r) /\ ActiveAt(new.at)
    BY <1>1, <1>9 DEF Active, ActiveAt
  <1>16. /\ late' = late \cup {f \in Flags : flags[f].at = "coming" /\ TermOf[f] = TermOf[old.flag]}
         /\ UNCHANGED <<flags, glossary, locks, flagFirst, crossed, swept>>
    BY DEF ReadSiblings
  <1>17. locks' \in [Rows -> Somebody] /\ late \subseteq late' /\ late' \subseteq Flags
    BY <1>1, <1>16 DEF TypeOK
  <1>18. \A f \in Flags \ late' :
             TermOf[f] = TermOf[new.flag] /\ f # new.flag /\ f \notin new.sweep =>
                 flags[f].at \notin {"pending", "coming"}
    BY <1>9, <1>16 DEF Siblings
  <1>19. \A x \in ToSet(new.todo) \cap Terms : glossary[x].row = new.found
    BY <1>7, <1>9
  <1>20. reqs' = [reqs EXCEPT ![r] = new]
    BY <1>2
  <1>21. Held(old) \subseteq Held(new)
    BY <1>10
  <1>22. \A f \in new.sweep : flags[f].at # "decided"
    BY <1>9, <1>13
  <1>23. new.kind = old.kind
    BY <1>9
  <1> HIDE DEF new, S
  <1> QED
    BY <1>8, <1>12, <1>14, <1>15, <1>16, <1>17, <1>18, <1>19, <1>20, <1>21, <1>22, <1>23,
       AdvanceStep

-----------------------------------------------------------------------------
(* A request that ends *)

\* After its end a request holds nothing; what is committed is a case of its own.
LEMMA EndStep ==
  ASSUME TypeOK, LocksHeld, Shapes, NEW r \in Requests, NEW at \in {"done", "failed"},
         reqs' = [reqs EXCEPT ![r] = Idle(reqs[r].kind, at)], locks' = Released(r)
  PROVE  /\ reqs' \in [Requests -> Request] /\ Shapes'
         /\ reqs'[r].at = at /\ ~Active(r)' /\ \A q \in Requests \ {r} : reqs'[q] = reqs[q]
         /\ \A q \in Requests : Active(q)' => Active(q) /\ q # r
         /\ \A q \in Requests : reqs'[q].kind = reqs[q].kind
         /\ locks' \in [Rows -> Somebody] /\ LocksHeld'
         /\ \A q \in Requests : ~Active(q)' => \A x \in Rows : locks'[x] # q
  <1>1. reqs[r].kind \in Kind
    BY DEF TypeOK, Request
  <1>2. /\ Idle(reqs[r].kind, at) \in Request /\ Shape(Idle(reqs[r].kind, at))
        /\ Idle(reqs[r].kind, at).at = at /\ Idle(reqs[r].kind, at).kind = reqs[r].kind
    BY <1>1, IdleShape
  <1>3. /\ reqs' \in [Requests -> Request] /\ reqs'[r] = Idle(reqs[r].kind, at)
        /\ \A q \in Requests \ {r} : reqs'[q] = reqs[q]
    BY <1>2 DEF TypeOK
  <1>4. Shapes'
    BY <1>2, <1>3 DEF Shapes
  <1>5. /\ ~Active(r)' /\ \A q \in Requests \ {r} : Active(q)' <=> Active(q)
    BY <1>2, <1>3 DEF Active
  <1>6. Nobody \notin Requests
    BY NamesAssumption DEF NamesAssumption, Nobody
  <1>7. /\ locks' \in [Rows -> Somebody]
        /\ \A x \in Rows : locks'[x] \in Requests => locks'[x] = locks[x] /\ locks[x] # r
    BY <1>6 DEF Released, TypeOK, Somebody
  <1>8. LocksHeld'
    BY <1>3, <1>5, <1>7 DEF LocksHeld
  <1>9. \A q \in Requests : ~Active(q)' => \A x \in Rows : locks'[x] # q
    BY <1>5, <1>7 DEF TypeOK
  <1> QED
    BY <1>2, <1>3, <1>4, <1>5, <1>7, <1>8, <1>9

LEMMA FailStep ==
  ASSUME TermsInv, NEW r \in Requests, Active(r), Fails(r), r \in crossed',
         crossed \subseteq crossed', crossed' \subseteq Requests,
         UNCHANGED <<flags, glossary, flagFirst, late, swept>>
  PROVE  TermsInv'
  <1>0. /\ TypeOK /\ Shapes /\ LocksHeld /\ Apart /\ FoundStands /\ FailsOnlyOnConflict
        /\ ChosenByDone /\ Decided /\ SweepComplete /\ SweptOverCrossed /\ DecisionsStand
    BY DEF TermsInv
  <1>1. /\ reqs' \in [Requests -> Request] /\ Shapes'
        /\ reqs'[r].at = "failed" /\ ~Active(r)'
        /\ \A q \in Requests \ {r} : reqs'[q] = reqs[q]
        /\ \A q \in Requests : Active(q)' => Active(q) /\ q # r
        /\ \A q \in Requests : reqs'[q].kind = reqs[q].kind
        /\ locks' \in [Rows -> Somebody] /\ LocksHeld'
        /\ \A q \in Requests : ~Active(q)' => \A x \in Rows : locks'[x] # q
    BY <1>0, EndStep DEF Fails
  <1>2. TypeOK'
    BY <1>0, <1>1 DEF TypeOK
  <1>3. Apart'
    BY <1>0, <1>1 DEF Apart
  <1>4. FoundStands'
    BY <1>0, <1>1 DEF FoundStands
  <1>5. FailsOnlyOnConflict'
    BY <1>0, <1>1 DEF FailsOnlyOnConflict
  <1>6. ChosenByDone' /\ Decided'
    <2>1. \A t \in Terms : glossary[t].value # Nobody =>
              glossary[t].value \in Requests \ {r}
      BY <1>0 DEF ChosenByDone, TypeOK, Somebody, Active
    <2>2. \A f \in Flags : TermOf[f] \in Terms
      BY FlagsAssumption DEF FlagsAssumption
    <2>3. ChosenByDone'
      BY <1>0, <1>1, <2>1 DEF ChosenByDone
    <2>4. Decided'
      BY <1>0, <1>1, <2>1, <2>2 DEF Decided
    <2> QED
      BY <2>3, <2>4
  <1>7. SweepComplete'
    BY <1>0, <1>1 DEF SweepComplete
  <1>8. SweptOverCrossed'
    BY <1>0, <1>1 DEF SweptOverCrossed
  <1>9. DecisionsStand'
    BY <1>0 DEF DecisionsStand
  <1> QED
    BY <1>1, <1>2, <1>3, <1>4, <1>5, <1>6, <1>7, <1>8, <1>9 DEF TermsInv

\* Who has to wait for a row shares its term with the holder.
LEMMA BlockedCrossed ==
  ASSUME TermsInv, NEW r \in Requests, Blocked(r)
  PROVE  r \in crossed /\ Active(r)
  <1> DEFINE x == Head(reqs[r].todo)
  <1>0. TypeOK /\ Shapes /\ LocksHeld /\ Apart
    BY DEF TermsInv
  <1>1. /\ reqs[r].at \in {"flush", "commit"} /\ reqs[r].todo # <<>>
        /\ locks[x] # Nobody /\ locks[x] # r
    BY DEF Blocked, Wants, Holder
  <1>2. reqs[r] \in Request /\ Shape(reqs[r])
    BY <1>0 DEF TypeOK, Shapes
  <1>3. x \in Rows /\ x \in ToSet(reqs[r].todo)
    BY <1>1, <1>2, HeadTail DEF Request
  <1>4. TermOfRow(x) \in About(reqs[r])
    <2>1. CASE x \in Flags
      <3>1. reqs[r].flag \in Flags /\ TermOf[x] = TermOf[reqs[r].flag]
        BY <1>2, <1>3, <2>1 DEF Shape
      <3> QED
        BY <1>0, <2>1, <3>1, FlagAbout DEF TermOfRow
    <2>2. CASE x \notin Flags
      BY <1>3, <2>2, AboutFacts DEF TermOfRow, Touched, Rows
    <2> QED
      BY <2>1, <2>2
  <1>5. locks[x] \in Requests
    BY <1>0, <1>1, <1>3 DEF TypeOK, Somebody
  <1>6. Active(locks[x]) /\ TermOfRow(x) \in About(reqs[locks[x]])
    BY <1>0, <1>3, <1>5, AboutFacts DEF LocksHeld
  <1>7. Active(r)
    BY <1>1 DEF Active
  <1> QED
    BY <1>0, <1>1, <1>4, <1>5, <1>6, <1>7 DEF Apart

LEMMA WriteRowStep ==
  ASSUME TermsInv, NEW r \in Requests, WriteRow(r)
  PROVE  TermsInv'
  <1> DEFINE old == reqs[r]
             x == Head(old.todo)
             new == Written(old, x)
  <1>0. TypeOK /\ FoundStands
    BY DEF TermsInv
  <1>1. /\ old \in Request /\ Shape(old)
        /\ old.at \in {"flush", "commit"} /\ old.todo # <<>>
        /\ UNCHANGED <<flags, glossary, flagFirst, late, crossed, swept>>
    BY DEF TermsInv, TypeOK, Shapes, WriteRow, Wants, history
  <1>2. Active(r)
    BY <1>1 DEF Active
  <1>3. x \in Rows /\ x \in ToSet(old.todo)
    BY <1>1, HeadTail DEF Request
  <1>4. CASE Conflict(r)
    <2>1. r \in crossed
      BY <1>0, <1>2, <1>3, <1>4 DEF Conflict, FoundStands
    <2>2. Fails(r)
      BY <1>4 DEF WriteRow
    <2>3. crossed \subseteq Requests
      BY <1>0 DEF TypeOK
    <2> QED
      BY <1>1, <1>2, <2>1, <2>2, <2>3, FailStep
  <1>5. CASE ~Conflict(r)
    <2>1. locks' = [locks EXCEPT ![x] = r] /\ reqs' = [reqs EXCEPT ![r] = new]
      BY <1>5 DEF WriteRow
    <2>2. /\ new \in Request /\ Shape(new)
          /\ new.at \in {"select", "flush", "flushed", "commit"}
          /\ new.kind = old.kind /\ new.found = old.found
          /\ new.flag = old.flag /\ new.sweep = old.sweep
          /\ new.at = "commit" /\ old.at # "commit" => old.kind # "apply"
          /\ ToSet(new.todo) \subseteq ToSet(old.todo)
          /\ Held(old) \subseteq Held(new)
          /\ TermOfRow(x) \in Held(new)
          /\ About(new) \subseteq About(old)
      BY <1>1, WrittenFacts
    <2>3. ActiveAt(new.at)
      BY <2>2 DEF ActiveAt
    <2>4. /\ locks' \in [Rows -> Somebody]
          /\ \A y \in Rows : locks'[y] = locks[y] \/ (locks'[y] = r /\ TermOfRow(y) \in Held(new))
      BY <1>0, <1>3, <2>1, <2>2 DEF TypeOK, Somebody
    <2>5. late \subseteq late' /\ late' \subseteq Flags
      BY <1>0, <1>1 DEF TypeOK
    <2> HIDE DEF new
    <2> QED
      BY <1>1, <1>2, <2>1, <2>2, <2>3, <2>4, <2>5, AdvanceStep
  <1> QED
    BY <1>4, <1>5

LEMMA CommitStep ==
  ASSUME TermsInv, NEW r \in Requests, Commit(r)
  PROVE  TermsInv'
  <1> DEFINE old == reqs[r]
             mine == {w.term : w \in old.wrote}
  <1>0. /\ TypeOK /\ Shapes /\ LocksHeld /\ Apart /\ FoundStands /\ FailsOnlyOnConflict
        /\ ChosenByDone /\ Decided /\ SweepComplete /\ SweptOverCrossed /\ DecisionsStand
    BY DEF TermsInv
  <1>1. /\ old.at = "commit" /\ old \in Request /\ Shape(old)
        /\ UNCHANGED <<flagFirst, late, crossed>>
    BY <1>0 DEF Commit, TypeOK, Shapes
  <1>2. Active(r) /\ ActiveAt(old.at)
    BY <1>1 DEF Active, ActiveAt
  <1>3. Nobody \notin Requests
    BY NamesAssumption DEF NamesAssumption, Nobody
  <1>4. /\ reqs' \in [Requests -> Request] /\ Shapes'
        /\ reqs'[r].at = "done" /\ ~Active(r)'
        /\ \A q \in Requests \ {r} : reqs'[q] = reqs[q]
        /\ \A q \in Requests : Active(q)' => Active(q) /\ q # r
        /\ \A q \in Requests : reqs'[q].kind = reqs[q].kind
        /\ locks' \in [Rows -> Somebody] /\ LocksHeld'
        /\ \A q \in Requests : ~Active(q)' => \A x \in Rows : locks'[x] # q
    BY <1>0, EndStep DEF Commit
  <1>5. /\ flags' = FlagsBy(r)
        /\ \A f \in Flags : IF f \in old.sweep \/ f = old.flag
                            THEN flags'[f].at = "decided" /\ flags'[f].by = r
                            ELSE flags'[f] = flags[f]
    BY DEF Commit, FlagsBy
  <1>6. flags' \in [Flags -> [at : {"unread", "coming", "dropped", "pending", "decided"},
                              by : Somebody]]
    BY <1>0, <1>5 DEF FlagsBy, TypeOK, Somebody
  <1>7. \A t \in Terms :
            \/ glossary'[t] = glossary[t] /\ (t \in mine => old.kind = "remove")
            \/ /\ t \in mine /\ old.kind # "remove" /\ glossary'[t].value = r
               /\ glossary'[t].row # Nobody
            \/ t \in mine /\ glossary'[t].value = Nobody /\ glossary'[t].row = Nobody
    BY <1>0, <1>3 DEF Commit, GlossaryBy, TypeOK
  <1>8. glossary' \in [Terms -> [row : Somebody, value : Somebody]]
    BY <1>0 DEF Commit, GlossaryBy, TypeOK, Somebody
  <1>9. TypeOK'
    BY <1>0, <1>1, <1>4, <1>6, <1>8 DEF TypeOK
  <1>10. mine \subseteq About(old)
    BY AboutFacts DEF Held
  <1>11. Apart'
    BY <1>0, <1>1, <1>4 DEF Apart
  <1>12. FoundStands'
    <2> SUFFICES ASSUME NEW p \in Requests, p \notin crossed, Active(p)',
                        reqs'[p].kind # "remove",
                        NEW x \in ToSet(reqs'[p].todo) \cap Terms
                 PROVE  glossary'[x].row = reqs'[p].found
      BY <1>1 DEF FoundStands
    <2>1. p # r /\ Active(p) /\ reqs'[p] = reqs[p]
      BY <1>4
    <2>2. x \in About(reqs[p])
      BY <2>1, AboutFacts DEF Touched
    <2>3. x \notin mine
      BY <1>0, <1>2, <1>10, <2>1, <2>2 DEF Apart
    <2>4. glossary'[x] = glossary[x]
      BY <1>7, <2>3
    <2> QED
      BY <1>0, <2>1, <2>4 DEF FoundStands
  <1>13. FailsOnlyOnConflict'
    BY <1>0, <1>1, <1>4 DEF FailsOnlyOnConflict
  <1>14. \A t \in Terms : glossary[t].value # Nobody => glossary[t].value \in Requests \ {r}
    BY <1>0, <1>1 DEF ChosenByDone, TypeOK, Somebody
  <1>15. ChosenByDone'
    <2> SUFFICES ASSUME NEW t \in Terms, glossary'[t].value # Nobody
                 PROVE  glossary'[t].row # Nobody /\ reqs'[glossary'[t].value].at = "done"
      BY DEF ChosenByDone
    <2>1. CASE glossary'[t] = glossary[t]
      BY <1>0, <1>4, <1>14, <2>1 DEF ChosenByDone
    <2>2. CASE glossary'[t].value = r /\ glossary'[t].row # Nobody
      BY <1>4, <2>2
    <2> QED
      BY <1>7, <2>1, <2>2
  <1>16. Decided'
    <2> SUFFICES ASSUME NEW f \in Flags, f \notin late, flags'[f].at \in {"pending", "coming"},
                        glossary'[TermOf[f]].value # Nobody
                 PROVE  reqs'[glossary'[TermOf[f]].value].kind # "apply"
      BY <1>1 DEF Decided
    <2>1. TermOf[f] \in Terms
      BY FlagsAssumption DEF FlagsAssumption
    <2>2. f \notin old.sweep /\ f # old.flag /\ flags'[f] = flags[f]
      BY <1>5
    <2>3. CASE glossary'[TermOf[f]] = glossary[TermOf[f]]
      BY <1>0, <1>4, <1>14, <2>1, <2>2, <2>3 DEF Decided
    <2>4. CASE TermOf[f] \in mine /\ glossary'[TermOf[f]].value = r
      <3>1. SUFFICES ASSUME old.kind = "apply"
                     PROVE  FALSE
        BY <1>4, <2>4
      <3>2. TermOf[f] = TermOf[old.flag]
        BY <1>1, <1>2, <2>4, <3>1 DEF Shape, Touched
      <3> QED
        BY <1>0, <1>1, <2>2, <3>1, <3>2 DEF SweepComplete
    <2> QED
      BY <1>7, <2>1, <2>3, <2>4
  <1>17. SweepComplete'
    <2> SUFFICES ASSUME NEW p \in Requests, reqs'[p].at = "commit", reqs'[p].kind = "apply",
                        NEW f \in Flags, f \notin late, TermOf[f] = TermOf[reqs'[p].flag],
                        f # reqs'[p].flag, f \notin reqs'[p].sweep
                 PROVE  flags'[f].at \notin {"pending", "coming"}
      BY <1>1 DEF SweepComplete
    <2>1. p # r /\ reqs'[p] = reqs[p]
      BY <1>4
    <2>2. flags[f].at \notin {"pending", "coming"}
      BY <1>0, <2>1 DEF SweepComplete
    <2> QED
      BY <1>5, <2>2
  <1>18. SweptOverCrossed'
    <2> SUFFICES ASSUME NEW p \in Requests, Active(p)', NEW f \in reqs'[p].sweep,
                        flags'[f].at = "decided"
                 PROVE  flags'[f].by \in crossed /\ p \in crossed
      BY <1>1 DEF SweptOverCrossed
    <2>1. p # r /\ Active(p) /\ reqs'[p] = reqs[p] /\ f \in Flags
      BY <1>0, <1>4 DEF TypeOK, Request
    <2>2. CASE flags'[f] = flags[f]
      BY <1>0, <2>1, <2>2 DEF SweptOverCrossed
    <2>3. CASE flags'[f].by = r /\ (f \in old.sweep \/ f = old.flag)
      <3>1. reqs[p].flag \in Flags /\ TermOf[f] = TermOf[reqs[p].flag]
        BY <1>0, <2>1 DEF Shapes, Shape
      <3>2. old.flag \in Flags /\ TermOf[f] = TermOf[old.flag]
        BY <1>1, <2>1, <2>3 DEF Shape
      <3>3. TermOf[f] \in About(reqs[p]) /\ TermOf[f] \in About(old)
        BY <1>0, <3>1, <3>2, FlagAbout
      <3> QED
        BY <1>0, <1>2, <2>1, <2>3, <3>3 DEF Apart
    <2> QED
      BY <1>5, <2>1, <2>2, <2>3
  <1>19. DecisionsStand'
    <2> SUFFICES ASSUME NEW s \in swept'
                 PROVE  s.of \in crossed /\ s.by \in crossed
      BY <1>1 DEF DecisionsStand
    <2>1. CASE s \in swept
      BY <1>0, <2>1 DEF DecisionsStand
    <2>2. CASE \E f \in old.sweep : flags[f].at = "decided" /\ s = [of |-> flags[f].by, by |-> r]
      BY <1>0, <1>2, <2>2 DEF SweptOverCrossed
    <2> QED
      BY <2>1, <2>2 DEF Commit
  <1> QED
    BY <1>4, <1>9, <1>11, <1>12, <1>13, <1>15, <1>16, <1>17, <1>18, <1>19 DEF TermsInv

-----------------------------------------------------------------------------
(* The invariant, and what it gives *)

LEMMA NextTerms ==
  ASSUME TermsInv, [Next]_vars
  PROVE  TermsInv'
  <1>1. ASSUME NEW f \in Flags, LoadGlossary(f) \/ InsertFlag(f)
        PROVE  TermsInv'
    BY <1>1, TaskStep
  <1>2. ASSUME NEW r \in Requests, Progress(r)
        PROVE  TermsInv'
    BY <1>2, SelectNextStep, WriteRowStep, ReadSiblingsStep, CommitStep DEF Progress
  <1>3. ASSUME NEW r \in Requests, Die(r)
        PROVE  TermsInv'
    <2>1. crossed \subseteq Requests
      BY DEF TermsInv, TypeOK
    <2> QED
      BY <1>3, <2>1, FailStep DEF Die
  <1>4. ASSUME NEW r \in Requests, BreakDeadlock(r)
        PROVE  TermsInv'
    <2>1. r \in crossed /\ Active(r)
      BY <1>4, BlockedCrossed DEF BreakDeadlock, InCircle
    <2>2. crossed \subseteq Requests
      BY DEF TermsInv, TypeOK
    <2> QED
      BY <1>4, <2>1, <2>2, FailStep DEF BreakDeadlock, history
  <1>5. CASE UNCHANGED vars
    BY <1>5 DEF vars, TermsInv, TypeOK, Shapes, LocksHeld, Apart, FoundStands,
       FailsOnlyOnConflict, ChosenByDone, Decided, SweepComplete, SweptOverCrossed,
       DecisionsStand, Active
  <1> QED
    BY <1>1, <1>2, <1>3, <1>4, <1>5, ArrivesStep DEF Next

\* Flags, glossary and requests keep their types, and a request that is over
\* has given its row locks back.
THEOREM TermsTypes == Spec => []TypeOK
  <1>1. TermsInv => TypeOK
    BY DEF TermsInv
  <1> QED
    BY InitTerms, NextTerms, <1>1, PTL DEF Spec

\* Once decide has set a translation for the book, no flag of the term is left
\* pending, but for those a running translation had yet to insert then.
THEOREM DecidedEverywhere == Spec => []NoneLeftPending
  <1>1. TermsInv => NoneLeftPending
    BY DEF TermsInv, Decided, NoneLeftPending
  <1> QED
    BY InitTerms, NextTerms, <1>1, PTL DEF Spec

\* decide's sweep overwrites another decision only when the two requests were
\* under way at once.
THEOREM SweepsSpareDecisions == Spec => []DecisionsStand
  <1>1. TermsInv => DecisionsStand
    BY DEF TermsInv
  <1> QED
    BY InitTerms, NextTerms, <1>1, PTL DEF Spec

\* A request on flags or glossary fails (unique constraint, vanished row,
\* deadlock) only when another one on its term was under way.
THEOREM ConflictsAreOverlaps == Spec => []FailsOnlyOnConflict
  <1>1. TermsInv => FailsOnlyOnConflict
    BY DEF TermsInv
  <1> QED
    BY InitTerms, NextTerms, <1>1, PTL DEF Spec
=============================================================================
