---------------------------- MODULE Terminology ----------------------------
(***************************************************************************)
(* Terminology flags and the glossary of one book: services/terminology.py *)
(* and services/glossary.py behind the routes of the API, while tasks of a *)
(* translation flag terms.                                                 *)
(*                                                                         *)
(* A request is one transaction at READ COMMITTED.  The session does not   *)
(* flush on its own (autoflush=False), so what a request writes reaches    *)
(* the database at upsert_term's flush and at the commit, row after row,   *)
(* and every row written stays locked until the transaction ends.          *)
(* Translations are named by the request that chose them.                  *)
(***************************************************************************)
EXTENDS Integers, Sequences, FiniteSets, SequencesExt

CONSTANTS
    Requests,   \* the requests, numbered in the order they arrive
    Flags,      \* the flags ever inserted, numbered by primary key
    Present,    \* those of chunks translated before
    Terms,
    TermOf      \* the term each flag is about

ASSUME FlagsAssumption ==
    /\ IsFiniteSet(Flags) /\ Flags \subseteq Nat \ {0} /\ Present \subseteq Flags
    /\ IsFiniteSet(Terms) /\ Terms # {} /\ TermOf \in [Flags -> Terms]
ASSUME NamesAssumption == Requests \subseteq Nat \ {0} /\ Terms \cap Flags = {}

VARIABLES
    flags,      \* the committed rows; one that a task is to insert has none
    glossary,   \* the committed row of each term: which insert made it, and
                \* which request chose its translation
    locks,      \* the transaction that has written a row and is not over
    reqs,       \* the requests
    flagFirst,  \* whether a flush writes flags before terms: fixed by the
                \* mapping of the classes, not by the code
    \* history
    late,       \* flags whose task had read the glossary before a decision on
                \* their term was committed, and that were not there to sweep
    crossed,    \* requests whose life overlapped another's on the same term
    swept       \* whose decisions have been taken over by whose sweep

vars == <<flags, glossary, locks, reqs, flagFirst, late, crossed, swept>>
history == <<late, crossed, swept>>

Nobody == 0
Kind == {"apply", "mark", "put", "import", "remove"}
Step == {"new", "select", "flush", "flushed", "commit", "done", "failed"}
Rows == Flags \cup Terms

Somebody == Requests \cup {Nobody}
Request == [at : Step, kind : Kind, flag : Flags \cup {0}, terms : Seq(Terms), found : Somebody,
            wrote : SUBSET [term : Terms, found : Somebody], todo : Seq(Rows), sweep : SUBSET Flags]

Idle(kind, at) == [at |-> at, kind |-> kind, flag |-> 0, terms |-> <<>>,
                   found |-> Nobody, wrote |-> {}, todo |-> <<>>, sweep |-> {}]

Init ==
    /\ flags = [f \in Flags |-> [at |-> IF f \in Present THEN "pending" ELSE "unread",
                             by |-> Nobody]]
    /\ glossary = [t \in Terms |-> [row |-> Nobody, value |-> Nobody]]
    /\ locks = [x \in Rows |-> Nobody]
    /\ reqs = [r \in Requests |-> Idle("mark", "new")]
    /\ flagFirst \in BOOLEAN
    /\ late = {} /\ crossed = {} /\ swept = {}

Active(r) == reqs[r].at \in {"select", "flush", "flushed", "commit"}

(* The terms a request is about, what it has dealt with included. *)
About(req) ==
    ToSet(req.terms) \cup {w.term : w \in req.wrote} \cup (ToSet(req.todo) \cap Terms)
        \cup IF req.flag = 0 THEN {} ELSE {TermOf[req.flag]}

(***************************************************************************)
(* The tasks: a flag whose term is in the glossary the task has loaded is  *)
(* dropped, any other is inserted when the chunk is done.                  *)
(***************************************************************************)

LoadGlossary(f) ==
    /\ flags[f].at = "unread"
    /\ flags' = [flags EXCEPT ![f].at =
                    IF glossary[TermOf[f]].row = Nobody THEN "coming" ELSE "dropped"]
    /\ late' = IF \E r \in Requests : reqs[r].at = "commit" /\ reqs[r].kind = "apply"
                                     /\ TermOf[f] \in About(reqs[r])
               THEN late \cup {f} ELSE late
    /\ UNCHANGED <<glossary, locks, reqs, flagFirst, crossed, swept>>

InsertFlag(f) ==
    /\ flags[f].at = "coming"
    /\ flags' = [flags EXCEPT ![f].at = "pending"]
    /\ UNCHANGED <<glossary, locks, reqs, flagFirst, history>>

(***************************************************************************)
(* Requests                                                                *)
(***************************************************************************)

Inserted == {f \in Flags : flags[f].at \in {"pending", "decided"}}

Starts(r, req) ==
    /\ reqs[r].at = "new" /\ \A q \in Requests : q < r => reqs[q].at # "new"
    /\ reqs' = [reqs EXCEPT ![r] = req]
    /\ LET others == {q \in Requests \ {r} : Active(q) /\ About(reqs[q]) \cap About(req) # {}}
       IN crossed' = IF others = {} THEN crossed ELSE crossed \cup others \cup {r}
    /\ UNCHANGED <<flags, glossary, locks, flagFirst, late, swept>>

(* upsert_term looks for the row of the next term; its flush will write it,*)
(* and with it the flag decide has changed.                                *)
Selected(req) ==
    LET t == Head(req.terms) IN
    [req EXCEPT !.at = "flush", !.found = glossary[t].row,
        !.todo = IF req.kind # "apply" THEN <<t>>
                 ELSE IF flagFirst THEN <<req.flag, t>> ELSE <<t, req.flag>>]

(* decide reads its flag; with apply_to_book it goes on to upsert_term.  A *)
(* rejection, or a decision for this flag alone, writes the flag only.     *)
Decide(r, f) ==
    /\ f \in Inserted
    /\ \/ Starts(r, Selected([reqs[r] EXCEPT !.kind = "apply", !.flag = f,
                                             !.terms = <<TermOf[f]>>]))
       \/ Starts(r, [reqs[r] EXCEPT !.at = "commit", !.kind = "mark", !.flag = f,
                        !.todo = <<f>>])

(* upsert_glossary, and import_glossary with its terms in the file's order.*)
Put(r, t) == Starts(r, Selected([reqs[r] EXCEPT !.kind = "put", !.terms = <<t>>]))

Import(r, file) == Starts(r, Selected([reqs[r] EXCEPT !.kind = "import", !.terms = file]))

(* delete_term of a row the client has seen. *)
RemoveTerm(r, t) ==
    /\ glossary[t].row # Nobody
    /\ Starts(r, [reqs[r] EXCEPT !.at = "commit", !.kind = "remove", !.todo = <<t>>,
                     !.found = glossary[t].row])

SelectNext(r) ==
    /\ reqs[r].at = "select"
    /\ reqs' = [reqs EXCEPT ![r] = Selected(@)]
    /\ UNCHANGED <<flags, glossary, locks, flagFirst, history>>

(* MUTANT: the rows of terms stay locked.                                  *)
ReleasedFlags(r) == [x \in Rows |-> IF locks[x] = r /\ x \in Flags THEN Nobody ELSE locks[x]]

Released(r) == [x \in Rows |-> IF locks[x] = r THEN Nobody ELSE locks[x]]

(* MUTANT: a request that fails is not rolled back.                        *)
FailsKeepingLocks(r) ==
    /\ reqs' = [reqs EXCEPT ![r] = Idle(@.kind, "failed")]
    /\ locks' = locks

Fails(r) ==
    /\ reqs' = [reqs EXCEPT ![r] = Idle(@.kind, "failed")]
    /\ locks' = Released(r)

(* The next row to write, and who is in the way. *)
Wants(r) == reqs[r].at \in {"flush", "commit"} /\ reqs[r].todo # <<>>
Holder(r) == locks[Head(reqs[r].todo)]
Blocked(r) == Wants(r) /\ Holder(r) \notin {Nobody, r}

(* MUTANT: upsert_term does not look before it inserts.                    *)
ConflictOfInserts(r) ==
    LET x == Head(reqs[r].todo) IN
    x \in Terms /\ reqs[r].kind # "remove" /\ glossary[x].row # Nobody

(* An insert fails when the term has a row by now (the unique constraint), *)
(* an update when the row it found is gone (StaleDataError).  A DELETE of a*)
(* row that is gone deletes nothing.                                       *)
Conflict(r) ==
    LET x == Head(reqs[r].todo) IN
    x \in Terms /\ reqs[r].kind # "remove" /\ glossary[x].row # reqs[r].found

(* With its last row the flush is over: import_terms takes the next term,  *)
(* the others are left with the commit, decide with its siblings before it.*)
Written(req, x) ==
    [req EXCEPT !.todo = Tail(@),
        !.wrote = IF x \in Terms THEN @ \cup {[term |-> x, found |-> req.found]} ELSE @,
        !.terms = IF req.at = "flush" /\ Len(req.todo) = 1 THEN Tail(@) ELSE @,
        !.at = IF @ = "commit" \/ Len(req.todo) > 1 THEN @
               ELSE IF Len(req.terms) > 1 THEN "select"
               ELSE IF req.kind = "apply" THEN "flushed" ELSE "commit"]

WriteRow(r) ==
    LET x == Head(reqs[r].todo) IN
    /\ Wants(r) /\ ~Blocked(r)
    /\ IF Conflict(r) THEN Fails(r)
       ELSE /\ locks' = [locks EXCEPT ![x] = r]
            /\ reqs' = [reqs EXCEPT ![r] = Written(@, x)]
    /\ UNCHANGED <<flags, glossary, flagFirst, history>>

(* MUTANT: flags already decided are taken for siblings as well.           *)
AllSiblings(r) ==
    {f \in Inserted : TermOf[f] = TermOf[reqs[r].flag] /\ f # reqs[r].flag}

(* MUTANT: siblings are looked for in the chunk of the flag only.          *)
NoSiblings(r) == {}

Siblings(r) ==
    {f \in Flags : flags[f].at = "pending" /\ TermOf[f] = TermOf[reqs[r].flag] /\ f # reqs[r].flag}

(* The commit updates the siblings by primary key.                         *)
ByKey(S) == {rows \in SetToSeqs(S) : \A i, j \in DOMAIN rows : i < j => rows[i] < rows[j]}
Sweeping(req, S, rows) == [req EXCEPT !.at = "commit", !.sweep = S, !.todo = rows]

(* Siblings as committed by now. *)
ReadSiblings(r) ==
    /\ reqs[r].at = "flushed"
    /\ \E rows \in ByKey(Siblings(r)) : reqs' = [reqs EXCEPT ![r] = Sweeping(@, Siblings(r), rows)]
    /\ late' = late \cup {f \in Flags : flags[f].at = "coming" /\ TermOf[f] = TermOf[reqs[r].flag]}
    /\ UNCHANGED <<flags, glossary, locks, flagFirst, crossed, swept>>

(* The flags and terms as r leaves them. *)
FlagsBy(r) ==
    [f \in Flags |->
        IF f \in reqs[r].sweep \/ f = reqs[r].flag THEN [at |-> "decided", by |-> r] ELSE flags[f]]

GlossaryBy(r) ==
    [t \in Terms |->
        IF t \notin {w.term : w \in reqs[r].wrote} THEN glossary[t]
        ELSE IF reqs[r].kind # "remove"
             THEN [row |-> IF glossary[t].row = Nobody THEN r ELSE glossary[t].row, value |-> r]
        ELSE IF glossary[t].row = reqs[r].found THEN [row |-> Nobody, value |-> Nobody]
        ELSE glossary[t]]

Commit(r) ==
    /\ reqs[r].at = "commit" /\ reqs[r].todo = <<>>
    /\ flags' = FlagsBy(r)
    /\ glossary' = GlossaryBy(r)
    /\ locks' = Released(r)
    /\ reqs' = [reqs EXCEPT ![r] = Idle(@.kind, "done")]
    /\ swept' = swept \cup {[of |-> flags[f].by, by |-> r] :
                               f \in {g \in reqs[r].sweep : flags[g].at = "decided"}}
    /\ UNCHANGED <<flagFirst, late, crossed>>

(* The server dies, or the connection breaks: the transaction is undone.   *)
(* BOUND: not after another failure.                                       *)
Die(r) ==
    /\ Active(r) /\ \A q \in Requests : reqs[q].at # "failed"
    /\ Fails(r)
    /\ crossed' = crossed \cup {r}
    /\ UNCHANGED <<flags, glossary, flagFirst, late, swept>>

(* PostgreSQL ends one transaction of a circle of waiting ones.            *)
InCircle(r) ==
    /\ Blocked(r)
    /\ \E S \in SUBSET {q \in Requests : Blocked(q)} : r \in S /\ {Holder(q) : q \in S} = S

BreakDeadlock(r) ==
    /\ InCircle(r)
    /\ Fails(r)
    /\ UNCHANGED <<flags, glossary, flagFirst, history>>

Arrives(r) ==
    \/ \E f \in Flags : Decide(r, f)
    \/ \E t \in Terms : Put(r, t) \/ RemoveTerm(r, t)
    \/ \E file \in SetToSeqs(Terms) : Import(r, file)

Progress(r) == SelectNext(r) \/ WriteRow(r) \/ ReadSiblings(r) \/ Commit(r)

Next ==
    \/ \E f \in Flags : LoadGlossary(f) \/ InsertFlag(f)
    \/ \E r \in Requests : Arrives(r) \/ Progress(r) \/ Die(r) \/ BreakDeadlock(r)

(* The server goes on with a request, and the database finds deadlocks.    *)
Fairness == \A r \in Requests : WF_vars(Progress(r) \/ BreakDeadlock(r))

Spec == Init /\ [][Next]_vars /\ Fairness

(***************************************************************************)
(* Properties                                                              *)
(***************************************************************************)

TypeOK ==
    /\ flags \in [Flags -> [at : {"unread", "coming", "dropped", "pending", "decided"},
                            by : Somebody]]
    /\ glossary \in [Terms -> [row : Somebody, value : Somebody]]
    /\ locks \in [Rows -> Somebody]
    /\ reqs \in [Requests -> Request]
    /\ \A r \in Requests : ~Active(r) => \A x \in Rows : locks[x] # r
    /\ late \subseteq Flags /\ crossed \subseteq Requests /\ flagFirst \in BOOLEAN

(* "The same term flagged elsewhere in the book is now decided too": once  *)
(* the glossary has a translation from decide, no flag of that term is left*)
(* pending, but for those a running translation has yet to insert then.    *)
NoneLeftPending ==
    \A f \in Flags \ late :
        LET by == glossary[TermOf[f]].value IN
        flags[f].at = "pending" /\ by # Nobody => reqs[by].kind # "apply"

(* A sweep takes over a flag somebody has decided only when the two        *)
(* requests were under way at once: it reads the pending flags, and writes *)
(* them later whatever they have become.                                   *)
DecisionsStand ==
    \A s \in swept : s.of \in crossed /\ s.by \in crossed

(* A request fails only when another one on its term was under way, or the *)
(* process died, never for what was there before it began: unique          *)
(* constraints, vanished rows and deadlocks are all matters of two         *)
(* requests at once.                                                       *)
FailsOnlyOnConflict ==
    \A r \in Requests : reqs[r].at = "failed" => r \in crossed

(* Every request ends, though requests wait for each other's rows in any   *)
(* order: a circle of waiting ones is broken, everything else moves on.    *)
EveryRequestEnds == \A r \in Requests : Active(r) ~> ~Active(r)
=============================================================================
