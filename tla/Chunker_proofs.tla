--------------------------- MODULE Chunker_proofs ---------------------------
(***************************************************************************)
(* Proofs about Chunker for every set of lines, every target length and    *)
(* books of any length: no line is lost or repeated, chunks are bounded,   *)
(* headings open chunks, and page ranges are in order.                     *)
(***************************************************************************)
EXTENDS Chunker, TLAPS

LEMMA AppendFacts ==
  ASSUME NEW S, NEW s \in Seq(S), NEW e \in S
  PROVE  /\ Append(s, e) \in Seq(S)
         /\ Append(s, e) # <<>>
         /\ Len(s) \in Nat
         /\ Len(Append(s, e)) = Len(s) + 1
         /\ \A i \in 1 .. Len(s) : Append(s, e)[i] = s[i]
         /\ Append(s, e)[Len(s) + 1] = e
  OBVIOUS

LEMMA EmptyFacts ==
  ASSUME NEW S
  PROVE  <<>> \in Seq(S) /\ Len(<<>>) = 0
  OBVIOUS

LEMMA NonEmptyFacts ==
  ASSUME NEW S, NEW s \in Seq(S), s # <<>>
  PROVE  /\ Len(s) \in Nat \ {0}
         /\ Len(s) \in 1 .. Len(s)
         /\ s[Len(s)] \in S
  OBVIOUS

LEMMA ElementFacts ==
  ASSUME NEW S, NEW s \in Seq(S), NEW i \in 1 .. Len(s)
  PROVE  s[i] \in S
  OBVIOUS

LEMMA SingleFacts ==
  ASSUME NEW S, NEW e \in S
  PROVE  <<e>> \in Seq(S) /\ Len(<<e>>) = 1 /\ <<e>>[1] = e /\ <<e>> # <<>>
  OBVIOUS

-----------------------------------------------------------------------------
(* Types *)

LEMMA InitType == Init => TypeOK
  <1> SUFFICES ASSUME Init
               PROVE  TypeOK
    OBVIOUS
  <1>1. read \in Seq([line : Line, page : Page]) /\ Len(read) <= LineBound
    BY BoundAssumption, EmptyFacts DEF Init
  <1>2. current \in Seq(Position) /\ text \in Seq(Position) /\ chunks \in Seq(Chunk)
    BY EmptyFacts DEF Init
  <1>3. page \in Page /\ pageStart \in Page /\ length \in Nat
    BY BoundAssumption DEF Init, Page
  <1>4. done \in BOOLEAN /\ (text = <<>> <=> read = <<>>)
    BY DEF Init
  <1> QED
    BY <1>1, <1>2, <1>3, <1>4 DEF TypeOK

LEMMA LengthType ==
  ASSUME TypeOK, NEW l \in Line
  PROVE  l.size \in Nat /\ TentativeLength(l) \in Nat
  BY LineAssumption DEF TypeOK, AnyLine, TentativeLength, Separator

LEMMA TakesType ==
  ASSUME TypeOK, NEW l \in Line, NEW n \in Position, Takes(l, n)
  PROVE  /\ read' \in Seq([line : Line, page : Page]) /\ Len(read') <= LineBound
         /\ read' # <<>>
         /\ page' \in Page /\ done' \in BOOLEAN
  <1>1. [line |-> l, page |-> page] \in [line : Line, page : Page]
    BY DEF TypeOK
  <1> QED
    BY <1>1, AppendFacts DEF TypeOK, Takes

LEMMA LastPageType ==
  ASSUME TypeOK, text # <<>>
  PROVE  /\ Len(read) \in 1 .. Len(read)
         /\ read[Len(read)].page \in Page
  <1>1. read[Len(read)] \in [line : Line, page : Page] /\ Len(read) \in 1 .. Len(read)
    BY NonEmptyFacts DEF TypeOK
  <1> QED
    BY <1>1

LEMMA TypeStep == TypeOK /\ [Next]_vars => TypeOK'
  <1> SUFFICES ASSUME TypeOK, [Next]_vars
               PROVE  TypeOK'
    OBVIOUS
  <1>1. CASE TurnPage
    BY <1>1, BoundAssumption DEF TypeOK, TurnPage, Page
  <1>2. ASSUME NEW l \in Line, NEW n \in 1 .. LineBound, Extend(l, n)
        PROVE  TypeOK'
    <2> n \in Position
      BY DEF Position
    <2>1. current' \in Seq(Position) /\ text' \in Seq(Position) /\ text' # <<>>
      BY <1>2, AppendFacts DEF TypeOK, Extend
    <2>2. length' \in Nat
      BY <1>2, LengthType DEF Extend
    <2>3. pageStart' \in Page /\ chunks' \in Seq(Chunk)
      BY <1>2 DEF TypeOK, Extend
    <2> QED
      BY <1>2, <2>1, <2>2, <2>3, TakesType DEF TypeOK, Extend
  <1>3. ASSUME NEW l \in Line, NEW n \in 1 .. LineBound, Split(l, n)
        PROVE  TypeOK'
    <2> n \in Position
      BY DEF Position
    <2>1. current' \in Seq(Position) /\ text' \in Seq(Position) /\ text' # <<>>
      BY <1>3, SingleFacts DEF Split
    <2>2. length' \in Nat
      BY <1>3, LengthType DEF Split
    <2>3. Finalized(page) \in Chunk
      BY DEF TypeOK, Finalized, Chunk
    <2>4. pageStart' \in Page /\ chunks' \in Seq(Chunk)
      BY <1>3, <2>3, AppendFacts DEF TypeOK, Split
    <2> QED
      BY <1>3, <2>1, <2>2, <2>4, TakesType DEF TypeOK, Split
  <1>4. CASE Finish
    <2>1. CASE text = <<>>
      BY <1>4, <2>1 DEF TypeOK, Finish
    <2>2. CASE text # <<>>
      <3>1. read[Len(read)].page \in Page
        BY <2>2, LastPageType
      <3>2. Finalized(read[Len(read)].page) \in Chunk
        BY <3>1 DEF TypeOK, Finalized, Chunk
      <3>3. chunks' \in Seq(Chunk)
        BY <1>4, <2>2, <3>2, AppendFacts DEF TypeOK, Finish
      <3> QED
        BY <1>4, <3>3 DEF TypeOK, Finish
    <2> QED
      BY <2>1, <2>2
  <1>5. CASE UNCHANGED vars
    BY <1>5 DEF TypeOK, vars
  <1> QED
    BY <1>1, <1>2, <1>3, <1>4, <1>5 DEF Next

\* Every variable keeps its type, and the chunk under construction has text once a
\* line was read, for every set of lines and every bound.
THEOREM TypeCorrect == Spec => []TypeOK
  BY InitType, TypeStep, PTL DEF Spec

-----------------------------------------------------------------------------
(* The strengthenings: with the properties and TypeOK they are inductive *)

\* The chunks, and the lines under construction, hold lines that have been read.
SeenLines ==
    /\ \A k \in 1 .. Len(chunks) : \A i \in 1 .. Len(chunks[k].lines) :
           chunks[k].lines[i] \in 1 .. Len(read)
    /\ \A i \in 1 .. Len(current) : current[i] \in 1 .. Len(read)

\* The chunk under construction is within the bound, or one line.
CurrentBounded ==
    ~done /\ text # <<>> => length <= 2 * TargetChars \/ Len(text) = 1

\* Pages do not go back, and the chunk under construction begins on the page of its
\* first line, which no finished chunk is beyond.
ReadInOrder ==
    /\ \A i \in 1 .. Len(read) : read[i].page <= page
    /\ \A j \in 1 .. Len(read) : \A i \in 1 .. j : read[i].page <= read[j].page

CurrentStart ==
    ~done => /\ text # <<>> => pageStart = read[current[1]].page
             /\ chunks # <<>> => text # <<>> /\ chunks[Len(chunks)].end <= pageStart

-----------------------------------------------------------------------------
(* Runs of positions *)

LEMMA RunExtends ==
  ASSUME NEW s \in Seq(Position), NEW from \in Int, NEW n \in Position, IsRun(s, from, n - 1)
  PROVE  IsRun(Append(s, n), from, n)
  <1>1. Len(Append(s, n)) = n - from + 1 /\ Len(s) = n - from /\ Len(s) \in Nat
    BY AppendFacts, BoundAssumption DEF IsRun, Position
  <1>2. \A i \in 1 .. Len(Append(s, n)) : Append(s, n)[i] = from + i - 1
    <2> SUFFICES ASSUME NEW i \in 1 .. Len(Append(s, n))
                 PROVE  Append(s, n)[i] = from + i - 1
      OBVIOUS
    <2>1. CASE i \in 1 .. Len(s)
      BY <2>1, AppendFacts DEF IsRun
    <2>2. CASE i = Len(s) + 1
      <3>1. Append(s, n)[i] = n
        BY <2>2, AppendFacts
      <3> QED
        BY <3>1, <2>2, <1>1, BoundAssumption DEF Position
    <2> QED
      BY <2>1, <2>2, <1>1, AppendFacts
  <1> QED
    BY <1>1, <1>2 DEF IsRun

LEMMA RunSingle ==
  ASSUME NEW n \in Position
  PROVE  IsRun(<<n>>, n, n)
  BY BoundAssumption DEF IsRun, Position

LEMMA RunEnds ==
  ASSUME NEW s \in Seq(Position), NEW from \in Int, NEW to \in Int,
         IsRun(s, from, to), s # <<>>
  PROVE  /\ Last(s) = to /\ s[1] = from
         /\ from <= to
  <1>1. Len(s) \in Nat \ {0}
    BY NonEmptyFacts
  <1> QED
    BY <1>1 DEF IsRun, Last

-----------------------------------------------------------------------------
(* Every line once *)

\* The part of EveryLineOnce about the k-th chunk.
ChunkRuns(k) ==
    /\ chunks[k].lines # <<>> /\ chunks[k].text = chunks[k].lines
    /\ IsRun(chunks[k].lines, End(k - 1) + 1, End(k))

LEMMA EndType ==
  ASSUME TypeOK, EveryLineOnce, NEW k \in 0 .. Len(chunks)
  PROVE  End(k) \in Nat
  <1>1. CASE k = 0
    BY <1>1 DEF End
  <1>2. CASE k # 0
    <2>1. k \in 1 .. Len(chunks)
      BY <1>2
    <2>2. chunks[k] \in Chunk
      BY <2>1, ElementFacts DEF TypeOK
    <2>3. chunks[k].lines \in Seq(Position) /\ chunks[k].lines # <<>>
      BY <2>1, <2>2 DEF Chunk, EveryLineOnce
    <2>4. Last(chunks[k].lines) \in Position
      BY <2>3, NonEmptyFacts DEF Last
    <2> QED
      BY <2>4, <1>2 DEF End, Position
  <1> QED
    BY <1>1, <1>2

\* What a step that finalizes the chunk under construction makes of the chunks.
LEMMA Closes ==
  ASSUME TypeOK, EveryLineOnce, ~done, text # <<>>,
         NEW e \in Page, chunks' = Append(chunks, Finalized(e))
  PROVE  /\ Finalized(e) \in Chunk
         /\ Len(chunks) \in Nat /\ Len(chunks') = Len(chunks) + 1
         /\ \A k \in 1 .. Len(chunks) : chunks'[k] = chunks[k]
         /\ chunks'[Len(chunks) + 1] = Finalized(e)
         /\ \A k \in 0 .. Len(chunks) : End(k)' = End(k)
         /\ \A k \in {Len(chunks) + 1} : End(k)' = Len(read)
         /\ Last(current) = Len(read)
  <1>1. Finalized(e) \in Chunk
    BY DEF TypeOK, Finalized, Chunk
  <1>2. /\ Len(chunks) \in Nat /\ Len(chunks') = Len(chunks) + 1
        /\ \A k \in 1 .. Len(chunks) : chunks'[k] = chunks[k]
        /\ chunks'[Len(chunks) + 1] = Finalized(e)
    BY <1>1, AppendFacts DEF TypeOK
  <1>3. \A k \in 0 .. Len(chunks) : End(k)' = End(k)
    BY <1>2 DEF End
  <1>4. Last(current) = Len(read)
    <2>1. current \in Seq(Position) /\ current # <<>>
      BY DEF TypeOK, EveryLineOnce
    <2>2. IsRun(current, End(Len(chunks)) + 1, Len(read))
      BY DEF EveryLineOnce
    <2>3. End(Len(chunks)) + 1 \in Int /\ Len(read) \in Int
      BY <1>2, EndType DEF TypeOK
    <2> QED
      BY <2>1, <2>2, <2>3, RunEnds
  <1>5. ASSUME NEW k \in {Len(chunks) + 1}
        PROVE  End(k)' = Len(read)
    <2>1. k # 0 /\ chunks'[k] = Finalized(e)
      BY <1>2
    <2> QED
      BY <2>1, <1>4 DEF End, Finalized
  <1> QED
    BY <1>1, <1>2, <1>3, <1>4, <1>5

\* The chunks are runs of lines after it as they were before.
LEMMA ClosesRuns ==
  ASSUME TypeOK, EveryLineOnce, ~done, text # <<>>,
         NEW e \in Page, chunks' = Append(chunks, Finalized(e)),
         NEW k \in 1 .. Len(chunks')
  PROVE  ChunkRuns(k)'
  <1>1. CASE k \in 1 .. Len(chunks)
    <2>1. ChunkRuns(k)
      BY <1>1 DEF EveryLineOnce, ChunkRuns
    <2>2. chunks'[k] = chunks[k] /\ End(k)' = End(k) /\ End(k - 1)' = End(k - 1)
      BY <1>1, Closes
    <2> QED
      BY <2>1, <2>2 DEF ChunkRuns
  <1>2. CASE k = Len(chunks) + 1
    <2>1. chunks'[k] = Finalized(e) /\ End(k)' = Len(read)
      BY <1>2, Closes
    <2>2. End(k - 1)' = End(Len(chunks))
      <3>1. Len(chunks) \in 0 .. Len(chunks) /\ k - 1 = Len(chunks)
        BY <1>2, Closes
      <3> QED
        BY <3>1, Closes
    <2>3. current # <<>> /\ text = current /\ IsRun(current, End(Len(chunks)) + 1, Len(read))
      BY DEF EveryLineOnce
    <2> QED
      BY <2>1, <2>2, <2>3 DEF ChunkRuns, Finalized
  <1> QED
    BY <1>1, <1>2, Closes

LEMMA OnceStep == TypeOK /\ TypeOK' /\ EveryLineOnce /\ [Next]_vars => EveryLineOnce'
  <1> SUFFICES ASSUME TypeOK, TypeOK', EveryLineOnce, [Next]_vars
               PROVE  EveryLineOnce'
    OBVIOUS
  <1>0. ASSUME UNCHANGED <<read, current, text, chunks, done>>
        PROVE  EveryLineOnce'
    BY <1>0 DEF EveryLineOnce, End
  <1>1. CASE TurnPage
    BY <1>0, <1>1 DEF TurnPage
  <1>2. ASSUME NEW l \in Line, NEW n \in Position, Extend(l, n)
        PROVE  EveryLineOnce'
    <2>1. /\ \A k \in 1 .. Len(chunks') : ChunkRuns(k)'
          /\ End(Len(chunks))' = End(Len(chunks))
      BY <1>2 DEF Extend, EveryLineOnce, ChunkRuns, End
    <2>2. ~done /\ ~done' /\ text' = current'
      BY <1>2 DEF Extend, Takes, EveryLineOnce
    <2>3. Len(read) = n - 1 /\ Len(read') = n
      BY <1>2, AppendFacts DEF Extend, Takes, Position, TypeOK
    <2>4. IsRun(text', End(Len(chunks)) + 1, n)
      <3>1. Len(chunks) \in 0 .. Len(chunks)
        BY DEF TypeOK
      <3>2. End(Len(chunks)) + 1 \in Int
        BY <3>1, EndType
      <3>3. IsRun(text, End(Len(chunks)) + 1, n - 1)
        BY <2>2, <2>3 DEF EveryLineOnce
      <3> QED
        BY <1>2, <3>2, <3>3, RunExtends DEF Extend, TypeOK
    <2> QED
      BY <2>1, <2>2, <2>3, <2>4 DEF EveryLineOnce, ChunkRuns
  <1>3. ASSUME NEW l \in Line, NEW n \in Position, Split(l, n)
        PROVE  EveryLineOnce'
    <2>1. ~done /\ ~done' /\ text # <<>> /\ page \in Page
          /\ chunks' = Append(chunks, Finalized(page))
      BY <1>3 DEF Split, Takes, Finalizes, TypeOK
    <2>2. \A k \in 1 .. Len(chunks') : ChunkRuns(k)'
      BY <2>1, ClosesRuns
    <2>3. End(Len(chunks))' = Len(read)
      <3>1. Len(chunks') \in {Len(chunks) + 1}
        BY <2>1, Closes
      <3>2. \A k \in {Len(chunks) + 1} : End(k)' = Len(read)
        BY <2>1, Closes
      <3> QED
        BY <3>1, <3>2 DEF End
    <2>4. Len(read) = n - 1 /\ Len(read') = n
      BY <1>3, AppendFacts DEF Split, Takes, Position, TypeOK
    <2>5. text' = current' /\ IsRun(text', Len(read) + 1, Len(read'))
      BY <1>3, <2>4, RunSingle, BoundAssumption DEF Split, Position
    <2> QED
      BY <2>1, <2>2, <2>3, <2>5 DEF EveryLineOnce, ChunkRuns
  <1>4. CASE Finish
    <2>1. CASE text = <<>>
      <3>1. IsRun(text, End(Len(chunks)) + 1, Len(read)) /\ Len(text) = 0
        BY <1>4, <2>1, EmptyFacts DEF Finish, EveryLineOnce
      <3>2. Len(chunks) \in 0 .. Len(chunks) /\ Len(read) \in Nat
        BY DEF TypeOK
      <3>3. End(Len(chunks)) = Len(read)
        BY <3>1, <3>2, EndType DEF IsRun
      <3> QED
        BY <1>4, <2>1, <3>3 DEF Finish, EveryLineOnce, End
    <2>2. CASE text # <<>>
      <3>1. read[Len(read)].page \in Page
        BY <2>2, LastPageType
      <3>2. ~done /\ done' /\ chunks' = Append(chunks, Finalized(read[Len(read)].page))
        BY <1>4, <2>2 DEF Finish
      <3>3. \A k \in 1 .. Len(chunks') : ChunkRuns(k)'
        BY <2>2, <3>1, <3>2, ClosesRuns
      <3>4. End(Len(chunks))' = Len(read)
        <4>1. Len(chunks') \in {Len(chunks) + 1}
          BY <2>2, <3>1, <3>2, Closes
        <4>2. \A k \in {Len(chunks) + 1} : End(k)' = Len(read)
          BY <2>2, <3>1, <3>2, Closes
        <4> QED
          BY <4>1, <4>2 DEF End
      <3> QED
        BY <1>4, <3>2, <3>3, <3>4 DEF Finish, EveryLineOnce, ChunkRuns
    <2> QED
      BY <2>1, <2>2
  <1>5. CASE UNCHANGED vars
    BY <1>0, <1>5 DEF vars
  <1> QED
    BY <1>1, <1>2, <1>3, <1>4, <1>5 DEF Next, Position

LEMMA InitOnce == Init => EveryLineOnce
  BY EmptyFacts DEF Init, EveryLineOnce, IsRun, End

\* Every line of the book is in exactly one chunk, in order, and the format map of
\* each chunk is about its own text, for every book.
THEOREM LinesOnce == Spec => []EveryLineOnce
  BY InitType, TypeStep, InitOnce, OnceStep, PTL DEF Spec

-----------------------------------------------------------------------------
(* Sizes *)

LEMMA BoundedStep ==
  /\ TypeOK /\ EveryLineOnce /\ CurrentBounded /\ ChunksBounded /\ [Next]_vars
  => CurrentBounded' /\ ChunksBounded'
  <1> SUFFICES ASSUME TypeOK, EveryLineOnce, CurrentBounded, ChunksBounded, [Next]_vars
               PROVE  CurrentBounded' /\ ChunksBounded'
    OBVIOUS
  <1>0. ASSUME UNCHANGED <<text, length, chunks, done>>
        PROVE  CurrentBounded' /\ ChunksBounded'
    BY <1>0 DEF CurrentBounded, ChunksBounded
  <1>a. ASSUME ~done, text # <<>>, NEW e \in Page, chunks' = Append(chunks, Finalized(e))
        PROVE  ChunksBounded'
    <2>1. length <= 2 * TargetChars \/ Len(current) = 1
      BY <1>a DEF CurrentBounded, EveryLineOnce
    <2>2. /\ Len(chunks) \in Nat /\ Len(chunks') = Len(chunks) + 1
          /\ \A k \in 1 .. Len(chunks) : chunks'[k] = chunks[k]
          /\ chunks'[Len(chunks) + 1] = Finalized(e)
      BY <1>a, Closes
    <2> QED
      BY <2>1, <2>2 DEF ChunksBounded, Finalized
  <1>1. CASE TurnPage
    BY <1>0, <1>1 DEF TurnPage
  <1>2. ASSUME NEW l \in Line, NEW n \in Position, Extend(l, n)
        PROVE  CurrentBounded' /\ ChunksBounded'
    <2>1. CASE text = <<>>
      <3>1. Len(text') = 1
        BY <1>2, <2>1, AppendFacts, EmptyFacts DEF Extend, TypeOK
      <3> QED
        BY <1>2, <3>1 DEF Extend, CurrentBounded, ChunksBounded
    <2>2. CASE text # <<>>
      <3>1. TentativeLength(l) <= 2 * TargetChars
        BY <1>2, <2>2, LengthType, TargetAssumption DEF Extend, Finalizes
      <3> QED
        BY <1>2, <2>2, <3>1 DEF Extend, CurrentBounded, ChunksBounded
    <2> QED
      BY <2>1, <2>2
  <1>3. ASSUME NEW l \in Line, NEW n \in Position, Split(l, n)
        PROVE  CurrentBounded' /\ ChunksBounded'
    <2>1. ~done /\ text # <<>> /\ page \in Page /\ chunks' = Append(chunks, Finalized(page))
      BY <1>3 DEF Split, Takes, Finalizes, TypeOK
    <2>2. Len(text') = 1
      BY <1>3, SingleFacts DEF Split
    <2> QED
      BY <2>1, <2>2, <1>a DEF CurrentBounded
  <1>4. CASE Finish
    <2>1. CASE text = <<>>
      BY <1>4, <2>1 DEF Finish, CurrentBounded, ChunksBounded
    <2>2. CASE text # <<>>
      BY <1>4, <2>2, <1>a, LastPageType DEF Finish, CurrentBounded
    <2> QED
      BY <2>1, <2>2
  <1>5. CASE UNCHANGED vars
    BY <1>0, <1>5 DEF vars
  <1> QED
    BY <1>1, <1>2, <1>3, <1>4, <1>5 DEF Next, Position

LEMMA InitBounded == Init => CurrentBounded /\ ChunksBounded
  BY EmptyFacts DEF Init, CurrentBounded, ChunksBounded

\* No chunk of more than one line outgrows twice the target, whatever the target and
\* the lines.
THEOREM SizesBounded == Spec => []ChunksBounded
  BY InitType, TypeStep, InitOnce, OnceStep, InitBounded, BoundedStep, PTL DEF Spec

-----------------------------------------------------------------------------
(* Headings *)

HeadingFirst(s) == \A i \in 2 .. Len(s) : ~IsHeading(read[s[i]].line)

LEMMA HeadingsAre ==
  HeadingsStartChunks <=> /\ \A k \in 1 .. Len(chunks) : HeadingFirst(chunks[k].lines)
                          /\ HeadingFirst(current)
  BY DEF HeadingsStartChunks, HeadingFirst

LEMMA TakesKeeps ==
  ASSUME TypeOK, NEW l \in Line, NEW n \in Position, Takes(l, n)
  PROVE  /\ \A i \in 1 .. Len(read) : read'[i] = read[i]
         /\ read'[n] = [line |-> l, page |-> page]
         /\ Len(read) = n - 1 /\ Len(read') = n
  <1>1. [line |-> l, page |-> page] \in [line : Line, page : Page]
    BY DEF TypeOK
  <1>2. /\ \A i \in 1 .. Len(read) : read'[i] = read[i]
        /\ read'[Len(read) + 1] = [line |-> l, page |-> page]
        /\ Len(read) \in Nat /\ Len(read') = Len(read) + 1
    BY <1>1, AppendFacts DEF TypeOK, Takes
  <1>3. n = Len(read) + 1
    BY DEF Takes
  <1> QED
    BY <1>2, <1>3

LEMMA SeenStep == TypeOK /\ EveryLineOnce /\ SeenLines /\ [Next]_vars => SeenLines'
  <1> SUFFICES ASSUME TypeOK, EveryLineOnce, SeenLines, [Next]_vars
               PROVE  SeenLines'
    OBVIOUS
  <1>0. ASSUME UNCHANGED <<read, current, chunks>>
        PROVE  SeenLines'
    BY <1>0 DEF SeenLines
  <1>1. CASE TurnPage
    BY <1>0, <1>1 DEF TurnPage
  <1>2. ASSUME NEW l \in Line, NEW n \in Position, Extend(l, n)
        PROVE  SeenLines'
    <2>1. /\ Len(read') = Len(read) + 1 /\ n = Len(read') /\ Len(read) \in Nat
      <3>1. Takes(l, n)
        BY <1>2 DEF Extend
      <3>2. Len(read) = n - 1 /\ Len(read') = n
        BY <3>1, TakesKeeps
      <3> QED
        BY <3>2, BoundAssumption DEF Position
    <2>2. \A i \in 1 .. Len(current') : current'[i] \in 1 .. Len(read')
      <3>1. /\ Len(current) \in Nat /\ Len(current') = Len(current) + 1
            /\ \A i \in 1 .. Len(current) : current'[i] = current[i]
            /\ current'[Len(current) + 1] = n
        BY <1>2, AppendFacts DEF Extend, TypeOK
      <3> QED
        BY <2>1, <3>1 DEF SeenLines
    <2>3. \A k \in 1 .. Len(chunks') : \A i \in 1 .. Len(chunks'[k].lines) :
             chunks'[k].lines[i] \in 1 .. Len(read')
      BY <1>2, <2>1 DEF Extend, SeenLines
    <2> QED
      BY <2>2, <2>3 DEF SeenLines
  <1>a. ASSUME ~done, text # <<>>, NEW e \in Page, chunks' = Append(chunks, Finalized(e)),
               Len(read') = Len(read) \/ Len(read') = Len(read) + 1
        PROVE  \A k \in 1 .. Len(chunks') : \A i \in 1 .. Len(chunks'[k].lines) :
                   chunks'[k].lines[i] \in 1 .. Len(read')
    <2>1. /\ Len(chunks) \in Nat /\ Len(chunks') = Len(chunks) + 1
          /\ \A k \in 1 .. Len(chunks) : chunks'[k] = chunks[k]
          /\ chunks'[Len(chunks) + 1] = Finalized(e)
      BY <1>a, Closes
    <2>2. Len(read) \in Nat /\ \A i \in 1 .. Len(read) : i \in 1 .. Len(read')
      BY <1>a DEF TypeOK
    <2>3. \A k \in 1 .. Len(chunks) : \A i \in 1 .. Len(chunks[k].lines) :
             chunks[k].lines[i] \in 1 .. Len(read')
      BY <2>2 DEF SeenLines
    <2>4. \A i \in 1 .. Len(Finalized(e).lines) : Finalized(e).lines[i] \in 1 .. Len(read')
      BY <2>2 DEF SeenLines, Finalized
    <2> QED
      BY <2>1, <2>3, <2>4
  <1>3. ASSUME NEW l \in Line, NEW n \in Position, Split(l, n)
        PROVE  SeenLines'
    <2>1. ~done /\ text # <<>> /\ page \in Page /\ chunks' = Append(chunks, Finalized(page))
      BY <1>3 DEF Split, Takes, Finalizes, TypeOK
    <2>2. Len(read') = Len(read) + 1 /\ n = Len(read') /\ n \in 1 .. n
      <3>1. Takes(l, n)
        BY <1>3 DEF Split
      <3>2. Len(read) = n - 1 /\ Len(read') = n
        BY <3>1, TakesKeeps
      <3> QED
        BY <3>2, BoundAssumption DEF Position
    <2>3. \A i \in 1 .. Len(current') : current'[i] \in 1 .. Len(read')
      BY <1>3, <2>2, SingleFacts DEF Split
    <2> QED
      BY <2>1, <2>2, <2>3, <1>a DEF SeenLines
  <1>4. CASE Finish
    <2>1. CASE text = <<>>
      BY <1>0, <1>4, <2>1 DEF Finish
    <2>2. CASE text # <<>>
      BY <1>4, <2>2, <1>a, LastPageType DEF Finish, SeenLines
    <2> QED
      BY <2>1, <2>2
  <1>5. CASE UNCHANGED vars
    BY <1>0, <1>5 DEF vars
  <1> QED
    BY <1>1, <1>2, <1>3, <1>4, <1>5 DEF Next, Position

LEMMA HeadingsStep ==
  TypeOK /\ EveryLineOnce /\ SeenLines /\ HeadingsStartChunks /\ [Next]_vars
  => HeadingsStartChunks'
  <1> SUFFICES ASSUME TypeOK, EveryLineOnce, SeenLines, HeadingsStartChunks, [Next]_vars
               PROVE  HeadingsStartChunks'
    OBVIOUS
  <1>h. HeadingFirst(current) /\ \A k \in 1 .. Len(chunks) : HeadingFirst(chunks[k].lines)
    BY HeadingsAre
  <1>0. ASSUME UNCHANGED <<read, current, chunks>>
        PROVE  HeadingsStartChunks'
    BY <1>0 DEF HeadingsStartChunks
  <1>a. ASSUME NEW l \in Line, NEW n \in Position, Takes(l, n), NEW s,
               \A i \in 1 .. Len(s) : s[i] \in 1 .. Len(read), HeadingFirst(s), s \in Seq(Position)
        PROVE  \A i \in 2 .. Len(s) : ~IsHeading(read'[s[i]].line)
    <2>1. \A i \in 2 .. Len(s) : i \in 1 .. Len(s)
      BY <1>a
    <2>2. \A i \in 1 .. Len(read) : read'[i] = read[i]
      BY <1>a, TakesKeeps
    <2> QED
      BY <1>a, <2>1, <2>2 DEF HeadingFirst
  <1>t. \A k \in 1 .. Len(chunks) : chunks[k].lines \in Seq(Position)
    <2>1. \A k \in 1 .. Len(chunks) : chunks[k] \in Chunk
      BY ElementFacts DEF TypeOK
    <2> QED
      BY <2>1 DEF Chunk
  <1>1. CASE TurnPage
    BY <1>0, <1>1 DEF TurnPage
  <1>2. ASSUME NEW l \in Line, NEW n \in Position, Extend(l, n)
        PROVE  HeadingsStartChunks'
    <2>1. \A k \in 1 .. Len(chunks') : HeadingFirst(chunks[k].lines)'
      <3>1. Takes(l, n) /\ chunks' = chunks
        BY <1>2 DEF Extend
      <3> QED
        BY <3>1, <1>a, <1>h, <1>t DEF SeenLines, HeadingFirst
    <2>2. HeadingFirst(current)'
      <3>1. /\ Len(current) \in Nat /\ Len(current') = Len(current) + 1
            /\ \A i \in 1 .. Len(current) : current'[i] = current[i]
            /\ current'[Len(current) + 1] = n
        BY <1>2, AppendFacts DEF Extend, TypeOK
      <3>2. \A i \in 2 .. Len(current) : ~IsHeading(read'[current[i]].line)
        BY <1>2, <1>a, <1>h DEF Extend, SeenLines, TypeOK
      <3>3. read'[n].line = l
        <4>1. Takes(l, n)
          BY <1>2 DEF Extend
        <4>2. read'[n] = [line |-> l, page |-> page]
          BY <4>1, TakesKeeps
        <4> QED
          BY <4>2
      <3>4. Len(current) + 1 \in 2 .. Len(current') => ~IsHeading(l)
        <4>1. ASSUME Len(current) # 0
              PROVE  text # <<>>
          BY <1>2, <4>1, EmptyFacts DEF Extend, Takes, EveryLineOnce
        <4> QED
          BY <1>2, <3>1, <4>1 DEF Extend, Finalizes
      <3> QED
        BY <3>1, <3>2, <3>3, <3>4 DEF HeadingFirst
    <2> QED
      BY <2>1, <2>2 DEF HeadingsStartChunks, HeadingFirst
  <1>3. ASSUME NEW l \in Line, NEW n \in Position, Split(l, n)
        PROVE  HeadingsStartChunks'
    <2>1. ~done /\ text # <<>> /\ page \in Page /\ chunks' = Append(chunks, Finalized(page))
          /\ Takes(l, n)
      BY <1>3 DEF Split, Takes, Finalizes, TypeOK
    <2>2. /\ Len(chunks) \in Nat /\ Len(chunks') = Len(chunks) + 1
          /\ \A k \in 1 .. Len(chunks) : chunks'[k] = chunks[k]
          /\ chunks'[Len(chunks) + 1].lines = current
      BY <2>1, Closes DEF Finalized
    <2>3. \A k \in 1 .. Len(chunks) : HeadingFirst(chunks[k].lines)'
      BY <2>1, <2>2, <1>a, <1>h, <1>t DEF SeenLines, HeadingFirst
    <2>4. \A i \in 2 .. Len(current) : ~IsHeading(read'[current[i]].line)
      BY <2>1, <1>a, <1>h DEF SeenLines, TypeOK
    <2>5. HeadingFirst(current)'
      BY <1>3, SingleFacts DEF Split, HeadingFirst
    <2>6. \A k \in 1 .. Len(chunks') : HeadingFirst(chunks[k].lines)'
      BY <2>2, <2>3, <2>4 DEF HeadingFirst
    <2> QED
      BY <2>5, <2>6 DEF HeadingsStartChunks, HeadingFirst
  <1>4. CASE Finish
    <2>1. CASE text = <<>>
      BY <1>0, <1>4, <2>1 DEF Finish
    <2>2. CASE text # <<>>
      <3>1. /\ Len(chunks) \in Nat /\ Len(chunks') = Len(chunks) + 1
            /\ \A k \in 1 .. Len(chunks) : chunks'[k] = chunks[k]
            /\ chunks'[Len(chunks) + 1].lines = current
        BY <1>4, <2>2, Closes, LastPageType DEF Finish, Finalized
      <3>2. read' = read /\ current' = current
        BY <1>4 DEF Finish
      <3>3. HeadingFirst(current)' /\ \A k \in 1 .. Len(chunks') : HeadingFirst(chunks[k].lines)'
        BY <3>1, <3>2, <1>h DEF HeadingFirst
      <3> QED
        BY <3>3 DEF HeadingsStartChunks, HeadingFirst
    <2> QED
      BY <2>1, <2>2
  <1>5. CASE UNCHANGED vars
    BY <1>0, <1>5 DEF vars
  <1> QED
    BY <1>1, <1>2, <1>3, <1>4, <1>5 DEF Next, Position

LEMMA InitHeadings == Init => SeenLines /\ HeadingsStartChunks
  BY EmptyFacts DEF Init, SeenLines, HeadingsStartChunks

\* No chunk has a heading after its first line, whatever a page holds.
THEOREM HeadingsFirst == Spec => []HeadingsStartChunks
  BY InitType, TypeStep, InitOnce, OnceStep, InitHeadings, SeenStep, HeadingsStep, PTL DEF Spec

-----------------------------------------------------------------------------
(* Pages *)

LEMMA PageType ==
  ASSUME TypeOK, NEW i \in 1 .. Len(read)
  PROVE  read[i].page \in Nat
  <1>1. read[i] \in [line : Line, page : Page]
    BY ElementFacts DEF TypeOK
  <1> QED
    BY <1>1, BoundAssumption DEF Page

LEMMA ReadStep == TypeOK /\ ReadInOrder /\ [Next]_vars => ReadInOrder'
  <1> SUFFICES ASSUME TypeOK, ReadInOrder, [Next]_vars
               PROVE  ReadInOrder'
    OBVIOUS
  <1>p. page \in Nat
    BY BoundAssumption DEF TypeOK, Page
  <1>1. CASE TurnPage
    <2>1. \A i \in 1 .. Len(read) : read[i].page <= page + 1
      BY <1>p, PageType DEF ReadInOrder
    <2> QED
      BY <1>1, <2>1 DEF TurnPage, ReadInOrder
  <1>2. ASSUME NEW l \in Line, NEW n \in Position, Takes(l, n)
        PROVE  ReadInOrder'
    <2>1. /\ \A i \in 1 .. Len(read) : read'[i] = read[i]
          /\ read'[n].page = page
          /\ Len(read) = n - 1 /\ Len(read') = n
      <3>1. read'[n] = [line |-> l, page |-> page]
        BY <1>2, TakesKeeps
      <3> QED
        BY <1>2, <3>1, TakesKeeps
    <2>2. n \in Nat /\ page' = page
      BY <1>2, BoundAssumption DEF Position, Takes
    <2>3. \A i \in 1 .. Len(read') : read'[i].page <= page
      BY <2>1, <2>2, <1>p DEF ReadInOrder
    <2>4. \A j \in 1 .. Len(read') : \A i \in 1 .. j : read'[i].page <= read'[j].page
      <3> SUFFICES ASSUME NEW j \in 1 .. Len(read'), NEW i \in 1 .. j
                   PROVE  read'[i].page <= read'[j].page
        OBVIOUS
      <3>1. CASE j = n
        BY <3>1, <2>1, <2>2, <2>3
      <3>2. CASE j # n
        BY <3>2, <2>1, <2>2 DEF ReadInOrder
      <3> QED
        BY <3>1, <3>2
    <2> QED
      BY <2>2, <2>3, <2>4 DEF ReadInOrder
  <1>3. CASE Finish
    BY <1>3 DEF Finish, ReadInOrder
  <1>4. CASE UNCHANGED vars
    BY <1>4 DEF vars, ReadInOrder
  <1> QED
    BY <1>1, <1>2, <1>3, <1>4 DEF Next, Extend, Split, Position

\* The lines under construction are on pages from its first line's to the last read.
LEMMA CurrentPages ==
  ASSUME TypeOK, EveryLineOnce, SeenLines, ReadInOrder, CurrentStart, ~done, text # <<>>,
         NEW e \in Page, \A i \in 1 .. Len(read) : read[i].page <= e
  PROVE  /\ 1 \in 1 .. Len(current) /\ pageStart = read[current[1]].page
         /\ \A i \in 1 .. Len(current) : read[current[i]].page \in pageStart .. e
  <1>1. current \in Seq(Position) /\ current # <<>>
    BY DEF TypeOK, EveryLineOnce
  <1>2. Len(current) \in Nat \ {0}
    BY <1>1, NonEmptyFacts
  <1>3. pageStart = read[current[1]].page /\ pageStart \in Nat /\ e \in Nat
    BY BoundAssumption DEF CurrentStart, TypeOK, Page
  <1>4. Len(chunks) \in 0 .. Len(chunks)
    BY DEF TypeOK
  <1>5. End(Len(chunks)) \in Nat
    BY <1>4, EndType
  <1>6. ASSUME NEW i \in 1 .. Len(current)
        PROVE  read[current[i]].page \in pageStart .. e
    <2>1. current[i] \in 1 .. Len(read)
      BY DEF SeenLines
    <2>2. current[1] = End(Len(chunks)) + 1 /\ current[i] = End(Len(chunks)) + i
      BY <1>2, <1>5 DEF EveryLineOnce, IsRun
    <2>3. current[1] \in 1 .. current[i]
      BY <2>1, <2>2, <1>5
    <2>4. read[current[1]].page <= read[current[i]].page
      BY <2>1, <2>3 DEF ReadInOrder
    <2>5. read[current[i]].page \in Nat
      BY <2>1, PageType
    <2> QED
      BY <1>3, <2>1, <2>4, <2>5
  <1> QED
    BY <1>2, <1>3, <1>6

\* A chunk that ends on the page of the last line, or later, keeps the pages in order.
LEMMA CloseInOrder ==
  ASSUME TypeOK, EveryLineOnce, SeenLines, ReadInOrder, CurrentStart, PagesInOrder,
         ~done, text # <<>>,
         NEW e \in Page, \A i \in 1 .. Len(read) : read[i].page <= e,
         chunks' = Append(chunks, Finalized(e)),
         \A i \in 1 .. Len(read) : read'[i] = read[i]
  PROVE  PagesInOrder'
  <1>1. /\ Len(chunks) \in Nat /\ Len(chunks') = Len(chunks) + 1
        /\ \A k \in 1 .. Len(chunks) : chunks'[k] = chunks[k]
        /\ chunks'[Len(chunks) + 1] = Finalized(e)
    BY Closes
  <1>2. ASSUME NEW k \in 1 .. Len(chunks)
        PROVE  /\ chunks'[k].start = read'[chunks'[k].lines[1]].page
               /\ \A i \in 1 .. Len(chunks'[k].lines) :
                      read'[chunks'[k].lines[i]].page \in chunks'[k].start .. chunks'[k].end
               /\ k > 1 => chunks'[k - 1].end <= chunks'[k].start
    <2>1. chunks'[k] = chunks[k] /\ (k > 1 => chunks'[k - 1] = chunks[k - 1])
      BY <1>1
    <2>2. chunks[k].lines \in Seq(Position) /\ chunks[k].lines # <<>>
      <3>1. chunks[k] \in Chunk
        BY ElementFacts DEF TypeOK
      <3> QED
        BY <3>1 DEF Chunk, EveryLineOnce
    <2>3. 1 \in 1 .. Len(chunks[k].lines)
      BY <2>2, NonEmptyFacts
    <2>4. \A i \in 1 .. Len(chunks[k].lines) : read'[chunks[k].lines[i]] = read[chunks[k].lines[i]]
      BY DEF SeenLines
    <2>5. /\ chunks[k].start = read[chunks[k].lines[1]].page
          /\ \A i \in 1 .. Len(chunks[k].lines) :
                 read[chunks[k].lines[i]].page \in chunks[k].start .. chunks[k].end
          /\ k > 1 => chunks[k - 1].end <= chunks[k].start
      BY DEF PagesInOrder
    <2> QED
      BY <2>1, <2>3, <2>4, <2>5
  <1>3. LET k == Len(chunks) + 1 IN
        /\ chunks'[k].start = read'[chunks'[k].lines[1]].page
        /\ \A i \in 1 .. Len(chunks'[k].lines) :
               read'[chunks'[k].lines[i]].page \in chunks'[k].start .. chunks'[k].end
        /\ k > 1 => chunks'[k - 1].end <= chunks'[k].start
    <2>1. \A i \in 1 .. Len(current) : read'[current[i]] = read[current[i]]
      BY DEF SeenLines
    <2>2. Len(chunks) + 1 > 1 => chunks[Len(chunks)].end <= pageStart
      BY <1>1, EmptyFacts DEF CurrentStart
    <2>3. /\ 1 \in 1 .. Len(current) /\ pageStart = read[current[1]].page
          /\ \A i \in 1 .. Len(current) : read[current[i]].page \in pageStart .. e
      BY CurrentPages
    <2> QED
      BY <1>1, <2>1, <2>2, <2>3 DEF Finalized
  <1> QED
    BY <1>1, <1>2, <1>3 DEF PagesInOrder

LEMMA PagesStep ==
  /\ TypeOK /\ EveryLineOnce /\ SeenLines /\ ReadInOrder /\ CurrentStart /\ PagesInOrder
  /\ [Next]_vars
  => CurrentStart' /\ PagesInOrder'
  <1> SUFFICES ASSUME TypeOK, EveryLineOnce, SeenLines, ReadInOrder, CurrentStart, PagesInOrder,
                      [Next]_vars
               PROVE  CurrentStart' /\ PagesInOrder'
    OBVIOUS
  <1>0. ASSUME UNCHANGED <<read, current, text, pageStart, chunks, done>>
        PROVE  CurrentStart' /\ PagesInOrder'
    BY <1>0 DEF CurrentStart, PagesInOrder
  <1>p. page \in Page /\ page \in Nat
    BY BoundAssumption DEF TypeOK, Page
  <1>1. CASE TurnPage
    BY <1>0, <1>1 DEF TurnPage
  <1>2. ASSUME NEW l \in Line, NEW n \in Position, Extend(l, n)
        PROVE  CurrentStart' /\ PagesInOrder'
    <2>1. /\ Takes(l, n) /\ ~done /\ chunks' = chunks
          /\ current' = Append(current, n) /\ text' = Append(text, n) /\ text = current
      BY <1>2 DEF Extend, Takes, EveryLineOnce
    <2>2. /\ \A i \in 1 .. Len(read) : read'[i] = read[i]
          /\ read'[n] = [line |-> l, page |-> page]
      BY <2>1, TakesKeeps
    <2>3. text' # <<>>
      BY <2>1, AppendFacts DEF TypeOK
    <2>4. pageStart' = read'[current'[1]].page /\ (chunks' # <<>> => chunks'[Len(chunks')].end <= pageStart')
      <3>1. CASE text = <<>>
        <4>1. current'[1] = n /\ pageStart' = page
          BY <1>2, <2>1, <3>1 DEF Extend
        <4>2. chunks = <<>>
          BY <2>1, <3>1 DEF CurrentStart
        <4> QED
          BY <2>1, <2>2, <4>1, <4>2
      <3>2. CASE text # <<>>
        <4>1. 1 \in 1 .. Len(current)
          BY <2>1, <3>2, NonEmptyFacts DEF TypeOK
        <4>2. current'[1] = current[1] /\ current[1] \in 1 .. Len(read)
          BY <2>1, <4>1, AppendFacts DEF TypeOK, SeenLines
        <4>3. pageStart' = pageStart
          BY <1>2, <3>2 DEF Extend
        <4> QED
          BY <2>1, <2>2, <3>2, <4>2, <4>3 DEF CurrentStart
      <3> QED
        BY <3>1, <3>2
    <2>5. PagesInOrder'
      <3> SUFFICES ASSUME NEW k \in 1 .. Len(chunks)
                   PROVE  /\ chunks[k].start = read'[chunks[k].lines[1]].page
                          /\ \A i \in 1 .. Len(chunks[k].lines) :
                                 read'[chunks[k].lines[i]].page \in chunks[k].start .. chunks[k].end
                          /\ k > 1 => chunks[k - 1].end <= chunks[k].start
        BY <2>1 DEF PagesInOrder
      <3>1. chunks[k] \in Chunk
        BY ElementFacts DEF TypeOK
      <3>2. chunks[k].lines \in Seq(Position) /\ chunks[k].lines # <<>>
        BY <3>1 DEF Chunk, EveryLineOnce
      <3>3. 1 \in 1 .. Len(chunks[k].lines)
        BY <3>2, NonEmptyFacts
      <3>4. \A i \in 1 .. Len(chunks[k].lines) : read'[chunks[k].lines[i]] = read[chunks[k].lines[i]]
        BY <2>2 DEF SeenLines
      <3> QED
        BY <3>3, <3>4 DEF PagesInOrder
    <2> QED
      BY <2>3, <2>4, <2>5 DEF CurrentStart
  <1>3. ASSUME NEW l \in Line, NEW n \in Position, Split(l, n)
        PROVE  CurrentStart' /\ PagesInOrder'
    <2>1. /\ Takes(l, n) /\ ~done /\ text # <<>> /\ chunks' = Append(chunks, Finalized(page))
          /\ current' = <<n>> /\ text' = <<n>> /\ pageStart' = page
      BY <1>3 DEF Split, Takes, Finalizes
    <2>2. /\ \A i \in 1 .. Len(read) : read'[i] = read[i]
          /\ read'[n] = [line |-> l, page |-> page]
      BY <2>1, TakesKeeps
    <2>3. PagesInOrder'
      BY <2>1, <2>2, <1>p, CloseInOrder DEF ReadInOrder
    <2>4. chunks'[Len(chunks')].end = page
      BY <2>1, <1>p, Closes DEF Finalized
    <2>5. current'[1] = n /\ text' # <<>>
      BY <2>1, SingleFacts
    <2> QED
      BY <2>1, <2>2, <2>3, <2>4, <2>5, <1>p DEF CurrentStart
  <1>4. CASE Finish
    <2>1. CASE text = <<>>
      BY <1>4, <2>1 DEF Finish, CurrentStart, PagesInOrder
    <2>2. CASE text # <<>>
      <3>1. Len(read) \in 1 .. Len(read) /\ read[Len(read)].page \in Page
        BY <2>2, LastPageType
      <3>2. \A i \in 1 .. Len(read) : read[i].page <= read[Len(read)].page
        BY <3>1 DEF ReadInOrder
      <3>3. ~done /\ done' /\ read' = read
            /\ chunks' = Append(chunks, Finalized(read[Len(read)].page))
        BY <1>4, <2>2 DEF Finish
      <3>4. PagesInOrder'
        BY <2>2, <3>1, <3>2, <3>3, CloseInOrder
      <3> QED
        BY <3>3, <3>4 DEF CurrentStart
    <2> QED
      BY <2>1, <2>2
  <1>5. CASE UNCHANGED vars
    BY <1>0, <1>5 DEF vars
  <1> QED
    BY <1>1, <1>2, <1>3, <1>4, <1>5 DEF Next, Position

LEMMA InitPages == Init => ReadInOrder /\ CurrentStart /\ PagesInOrder
  BY EmptyFacts DEF Init, ReadInOrder, CurrentStart, PagesInOrder

\* The start of a chunk is the page of its first line, its lines are within its pages,
\* and page ranges do not go back, so a page range selects the chunks that begin in it.
THEOREM PagesOrdered == Spec => []PagesInOrder
  BY InitType, TypeStep, InitOnce, OnceStep, InitHeadings, SeenStep,
     InitPages, ReadStep, PagesStep, PTL DEF Spec
=============================================================================
