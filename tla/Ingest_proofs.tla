--------------------------- MODULE Ingest_proofs ---------------------------
(***************************************************************************)
(* Proofs about Ingest and its parts for every number of books, names,     *)
(* callers, pages and calls and every configuration: files and rows        *)
(* (Uploads), the ledger of model calls (Provider), the pages (Extractor). *)
(* Each part has an invariant of its own; no step of another part disturbs *)
(* it, but for a deletion, which takes the ledger rows of its book.        *)
(***************************************************************************)
EXTENDS Ingest, FiniteSetTheorems, SequenceTheorems, TLAPS

(* Uploads: who needs a file, and who accounts for it *)

\* Who still needs the file: uploads under way, and books nobody deletes.
Needs(b) == up[b].at \in {"writing", "stored"} \/ (up[b].at = "book" /\ del[b].at = "no")

\* Who accounts for the file: a row, or an upload under way.
Holds(b) == up[b].at \in {"writing", "stored", "book"}

\* Only a book can be deleted.
DeletedWasBook == \A b \in Books : del[b].at # "no" => up[b].at \in {"book", "gone"}

\* A file that is needed is there.
NeededIsThere == \A b \in Books \ raced : Needs(b) => files[Path(b)] # "absent"

\* While a deletion is about to unlink, whoever needs its file has raced with it.
UnlinkingAlone ==
    \A b, c \in Books :
        /\ up[c].at = "book" /\ del[c].at = "counted" /\ ~del[c].others
        /\ b # c /\ Path(b) = Path(c) /\ Needs(b)
        => b \in raced

\* A torn file stems from an upload that failed, and is still there.
TornIsLeft == \A n \in Names : files[n] = "torn" => n \in left

\* Deletions that have not crossed follow one another.
InDeletion(b) == up[b].at = "book" /\ del[b].at \in {"counted", "unlinked"}
LoneDeletion == ~crossed => \A b, c \in Books : InDeletion(b) /\ InDeletion(c) => b = c

\* The books a deletion has counted are still there when it ends.
OthersRemain ==
    ~crossed =>
        \A b \in Books : InDeletion(b) /\ del[b].others =>
            \E c \in Books \ {b} : up[c].at = "book"

\* A deletion that was alone has unlinked the file, unless the unlink was refused
\* or someone else has come to need it.
AloneUnlinks ==
    ~crossed =>
        \A b \in Books :
            up[b].at = "book" /\ del[b].at = "unlinked" /\ ~del[b].others =>
                \/ files[Path(b)] = "absent"
                \/ Path(b) \in left
                \/ \E c \in Books \ {b} : Holds(c) /\ Path(c) = Path(b)

\* A name that alone is used has a file only while someone accounts for it.
OnlyName(n) == \A b \in Books : Path(b) # n => up[b].at = "new"
FileIsHeld ==
    ~crossed =>
        \A n \in Names \ left :
            files[n] # "absent" /\ OnlyName(n) => \E b \in Books : Holds(b) /\ Path(b) = n

KeptInv == NeededIsThere /\ UnlinkingAlone /\ TornIsLeft
CleanInv == LoneDeletion /\ OthersRemain /\ AloneUnlinks /\ FileIsHeld
UploadsInv == UploadsTypeOK /\ DeletedWasBook /\ KeptInv /\ CleanInv

-----------------------------------------------------------------------------
(* Uploads: types *)

LEMMA NotAFileState ==
  ASSUME NEW b \in Books
  PROVE  b # "absent" /\ b # "whole" /\ b # "torn"
  BY UploadAssumption DEF UploadAssumption

LEMMA PathType ==
  ASSUME UploadsTypeOK, NEW b \in Books
  PROVE  Path(b) \in Names
  BY DEF UploadsTypeOK, Upload, Path

\* Moved changes where one upload is, and nothing else of it.
LEMMA MovedFacts ==
  ASSUME UploadsTypeOK, NEW b \in Books,
         NEW at \in {"new", "tested", "writing", "stored", "book", "failed", "gone"},
         Moved(b, at)
  PROVE  /\ up' \in [Books -> Upload]
         /\ up'[b].at = at
         /\ \A c \in Books : Path(c)' = Path(c)
         /\ \A c \in Books \ {b} : up'[c].at = up[c].at
  BY DEF UploadsTypeOK, Moved, Upload, Path

\* The same for the deletions.
LEMMA DeletionFacts ==
  ASSUME UploadsTypeOK, NEW b \in Books,
         NEW at \in {"no", "counted", "unlinked", "cut"}, del' = [del EXCEPT ![b].at = at]
  PROVE  /\ del' \in [Books -> Deletion]
         /\ del'[b].at = at
         /\ del'[b].others = del[b].others
         /\ \A c \in Books \ {b} : del'[c] = del[c]
  BY DEF UploadsTypeOK, Deletion

LEMMA UploadsInitInv == UploadsInit => UploadsInv
  <1> SUFFICES ASSUME UploadsInit
               PROVE  UploadsInv
    OBVIOUS
  <1>1. /\ files \in [Names -> FileState]
        /\ \A n \in Names : files[n] = "absent"
    BY DEF UploadsInit, FileState
  <1>2. /\ up \in [Books -> Upload]
        /\ \A b \in Books : up[b].at = "new"
    BY DEF UploadsInit, Upload
  <1>3. /\ del \in [Books -> Deletion]
        /\ \A b \in Books : del[b].at = "no"
    BY DEF UploadsInit, Deletion
  <1>4. \A n \in Names : files[n] \notin Books
    BY <1>1, NotAFileState
  <1>5. UploadsTypeOK
    BY <1>1, <1>2, <1>3, <1>4 DEF UploadsInit, UploadsTypeOK
  <1>6. DeletedWasBook
    BY <1>3 DEF DeletedWasBook
  <1>7. KeptInv
    BY <1>1, <1>2 DEF KeptInv, NeededIsThere, UnlinkingAlone, TornIsLeft, Needs
  <1>8. CleanInv
    BY <1>1, <1>2 DEF CleanInv, LoneDeletion, OthersRemain, AloneUnlinks, FileIsHeld,
                      InDeletion
  <1> QED
    BY <1>5, <1>6, <1>7, <1>8 DEF UploadsInv

-----------------------------------------------------------------------------
(* Uploads: uploading *)

\* A test that finds no file changes nothing but where its request is.
LEMMA MissStep ==
  ASSUME UploadsInv, NEW x \in Books, MissFile(x)
  PROVE  UploadsInv'
  <1>0. UploadsTypeOK /\ DeletedWasBook /\ KeptInv /\ CleanInv
    BY DEF UploadsInv
  <1>1. /\ up[x].at = "new" /\ up' \in [Books -> Upload] /\ up'[x].at = "tested"
        /\ \A c \in Books : Path(c)' = Path(c)
        /\ \A c \in Books \ {x} : up'[c].at = up[c].at
    BY <1>0, MovedFacts DEF MissFile
  <1>2. files[Path(x)] = "absent" /\ UNCHANGED <<files, del, raced, left, crossed>>
    BY DEF MissFile
  <1>3. \A c \in Books : /\ Needs(c)' <=> Needs(c)
                         /\ Holds(c)' <=> Holds(c)
                         /\ InDeletion(c)' <=> InDeletion(c)
    <2>1. \A c \in Books \ {x} : /\ Needs(c)' <=> Needs(c)
                                 /\ Holds(c)' <=> Holds(c)
                                 /\ InDeletion(c)' <=> InDeletion(c)
      BY <1>1, <1>2 DEF Needs, Holds, InDeletion
    <2>2. ~Needs(x) /\ ~Needs(x)' /\ ~Holds(x) /\ ~Holds(x)' /\ ~InDeletion(x) /\ ~InDeletion(x)'
      BY <1>1, <1>2 DEF Needs, Holds, InDeletion
    <2> QED
      BY <2>1, <2>2
  <1>4. UploadsTypeOK'
    <2>1. \A m \in Names : files[m] # x
      BY <1>0, <1>1 DEF UploadsTypeOK
    <2> QED
      BY <1>0, <1>1, <1>2, <2>1 DEF UploadsTypeOK, Path
  <1>5. DeletedWasBook'
    BY <1>0, <1>1, <1>2 DEF DeletedWasBook
  <1>6. KeptInv'
    BY <1>0, <1>1, <1>2, <1>3 DEF KeptInv, NeededIsThere, UnlinkingAlone, TornIsLeft
  <1>7. LoneDeletion' /\ OthersRemain' /\ AloneUnlinks'
    <2>1. \A c \in Books : up'[c].at = "book" <=> up[c].at = "book"
      BY <1>1
    <2> QED
      BY <1>0, <1>1, <1>2, <1>3, <2>1 DEF CleanInv, LoneDeletion, OthersRemain, AloneUnlinks
  <1>8. FileIsHeld'
    <2> SUFFICES ASSUME ~crossed, NEW m \in Names \ left, files[m] # "absent", OnlyName(m)'
                 PROVE  FALSE
      BY <1>2 DEF FileIsHeld
    <2> QED
      BY <1>1, <1>2 DEF OnlyName
  <1> QED
    BY <1>4, <1>5, <1>6, <1>7, <1>8 DEF UploadsInv, CleanInv

LEMMA StoreStep ==
  ASSUME UploadsInv, NEW x \in Books, FindFile(x) \/ StoreFile(x)
  PROVE  UploadsInv'
  <1> DEFINE n == Path(x)
  <1>0. UploadsTypeOK /\ DeletedWasBook /\ KeptInv /\ CleanInv
    BY DEF UploadsInv
  <1>1. n \in Names
    BY <1>0, PathType
  <1>2. /\ up[x].at \in {"new", "tested"}
        /\ up' \in [Books -> Upload]
        /\ up'[x].at \in {"writing", "stored"}
        /\ \A c \in Books : Path(c)' = Path(c)
        /\ \A c \in Books \ {x} : up'[c].at = up[c].at
    <2>1. CASE StoreFile(x)
      BY <1>0, <2>1, MovedFacts DEF StoreFile
    <2>2. CASE FindFile(x)
      BY <1>0, <2>2, MovedFacts DEF FindFile
    <2> QED
      BY <2>1, <2>2
  <1>3. /\ files' \in [Names -> FileState]
        /\ \A m \in Names \ {n} : files'[m] = files[m]
        /\ \/ files'[n] = x /\ up'[x].at = "writing"
           \/ files[n] # "absent" /\ files'[n] = files[n]
    <2>1. CASE StoreFile(x)
      BY <1>0, <1>1, <2>1, MovedFacts DEF StoreFile, UploadsTypeOK, FileState
    <2>2. CASE FindFile(x)
      BY <1>0, <2>2 DEF FindFile, UploadsTypeOK
    <2> QED
      BY <2>1, <2>2
  <1>4. /\ del' = del /\ left' = left /\ crossed' = crossed
        /\ raced \subseteq raced' /\ raced' \subseteq Books
        /\ Unlinking(n) # {} => x \in raced'
    BY <1>0 DEF StoreFile, FindFile, RacesWith, UploadsTypeOK
  <1>5. del[x].at = "no"
    BY <1>0, <1>2 DEF DeletedWasBook
  <1>6. \A m \in Names : files'[m] = "absent" <=> files[m] = "absent" /\ m # n
    BY <1>3, <1>1, NotAFileState
  <1>7. UploadsTypeOK'
    <2>1. \A m \in Names : files'[m] \in Books =>
              up'[files'[m]].at = "writing" /\ up'[files'[m]].name = m
      <3> SUFFICES ASSUME NEW m \in Names, files'[m] \in Books
                   PROVE  up'[files'[m]].at = "writing" /\ up'[files'[m]].name = m
        OBVIOUS
      <3>1. CASE files'[m] = files[m]
        BY <1>0, <1>2, <3>1 DEF UploadsTypeOK, Path
      <3>2. CASE m = n /\ files'[n] = x /\ up'[x].at = "writing"
        BY <1>2, <3>2 DEF Path
      <3> QED
        BY <1>3, <3>1, <3>2
    <2> QED
      BY <1>0, <1>2, <1>3, <1>4, <2>1 DEF UploadsTypeOK, Path
  <1>8. DeletedWasBook'
    BY <1>0, <1>2, <1>4, <1>5 DEF DeletedWasBook
  <1>9. NeededIsThere'
    BY <1>0, <1>1, <1>2, <1>4, <1>6, PathType DEF KeptInv, NeededIsThere, Needs
  <1>10. UnlinkingAlone'
    <2> SUFFICES ASSUME NEW b \in Books, NEW c \in Books, up'[c].at = "book",
                        del[c].at = "counted", ~del[c].others,
                        b # c, Path(b) = Path(c), Needs(b)'
                 PROVE  b \in raced'
      BY <1>2, <1>4 DEF UnlinkingAlone
    <2>1. c # x /\ up[c].at = "book"
      BY <1>2
    <2>2. CASE b = x
      BY <1>4, <2>1, <2>2 DEF Unlinking, Rows
    <2>3. CASE b # x
      BY <1>0, <1>2, <1>4, <2>1, <2>3 DEF KeptInv, UnlinkingAlone, Needs
    <2> QED
      BY <2>2, <2>3
  <1>11. TornIsLeft'
    BY <1>0, <1>1, <1>3, <1>4, NotAFileState DEF KeptInv, TornIsLeft
  <1>12. LoneDeletion'
    BY <1>0, <1>2, <1>4 DEF CleanInv, LoneDeletion, InDeletion
  <1>13. OthersRemain'
    BY <1>0, <1>2, <1>4 DEF CleanInv, OthersRemain, InDeletion
  <1>14. AloneUnlinks'
    <2> SUFFICES ASSUME ~crossed, NEW b \in Books, up'[b].at = "book",
                        del[b].at = "unlinked", ~del[b].others
                 PROVE  \/ files'[Path(b)] = "absent"
                        \/ Path(b) \in left
                        \/ \E c \in Books \ {b} : Holds(c)' /\ Path(c) = Path(b)
      BY <1>2, <1>4 DEF AloneUnlinks
    <2>1. b # x /\ up[b].at = "book" /\ Path(b) \in Names
      BY <1>0, <1>2, PathType
    <2>2. CASE Path(b) = n
      BY <1>2, <2>1, <2>2 DEF Holds
    <2>3. CASE Path(b) # n
      <3>1. \A c \in Books : Holds(c) => Holds(c)'
        BY <1>2 DEF Holds
      <3> QED
        BY <1>0, <1>6, <2>1, <2>3, <3>1 DEF CleanInv, AloneUnlinks
    <2> QED
      BY <2>2, <2>3
  <1>15. FileIsHeld'
    <2> SUFFICES ASSUME ~crossed, NEW m \in Names \ left, files'[m] # "absent", OnlyName(m)'
                 PROVE  \E b \in Books : Holds(b)' /\ Path(b) = m
      BY <1>2, <1>4 DEF FileIsHeld
    <2>1. n = m
      BY <1>2 DEF OnlyName
    <2> QED
      BY <1>2, <2>1 DEF Holds
  <1> QED
    BY <1>7, <1>8, <1>9, <1>10, <1>11, <1>12, <1>13, <1>14, <1>15
       DEF UploadsInv, KeptInv, CleanInv

\* A step that neither starts nor ends an upload or a deletion's count, and
\* leaves every file that was there: the write that ends, the row that is
\* committed.
LEMMA HoldingStep ==
  ASSUME UploadsInv, NEW x \in Books,
         up' \in [Books -> Upload], files' \in [Names -> FileState],
         \A c \in Books : Path(c)' = Path(c),
         \A c \in Books \ {x} : up'[c].at = up[c].at,
         up[x].at \in {"writing", "stored"}, del[x].at = "no", up'[x].at \in {"stored", "book"},
         \A m \in Names : files'[m] \in Books => files'[m] = files[m] /\ files[m] # x,
         \A m \in Names : files'[m] = "absent" <=> files[m] = "absent",
         \A m \in Names : files'[m] = "torn" => files[m] = "torn",
         UNCHANGED <<del, raced, left, crossed>>
  PROVE  UploadsInv'
  <1>0. UploadsTypeOK /\ DeletedWasBook /\ KeptInv /\ CleanInv
    BY DEF UploadsInv
  <1>1. \A c \in Books : Path(c) \in Names
    BY <1>0, PathType
  <1>2. \A c \in Books : (Needs(c)' <=> Needs(c)) /\ (Holds(c)' <=> Holds(c))
    <2>1. \A c \in Books \ {x} : (Needs(c)' <=> Needs(c)) /\ (Holds(c)' <=> Holds(c))
      BY DEF Needs, Holds
    <2>2. Needs(x) /\ Needs(x)' /\ Holds(x) /\ Holds(x)'
      BY DEF Needs, Holds
    <2> QED
      BY <2>1, <2>2
  <1>3. \A c \in Books : InDeletion(c)' <=> InDeletion(c)
    BY DEF InDeletion
  <1>4. UploadsTypeOK'
    BY <1>0 DEF UploadsTypeOK, Path
  <1>5. DeletedWasBook'
    BY <1>0 DEF DeletedWasBook
  <1>6. NeededIsThere'
    BY <1>0, <1>1, <1>2 DEF KeptInv, NeededIsThere
  <1>7. UnlinkingAlone'
    BY <1>0, <1>2 DEF KeptInv, UnlinkingAlone
  <1>8. TornIsLeft'
    BY <1>0 DEF KeptInv, TornIsLeft
  <1>9. LoneDeletion'
    BY <1>0, <1>3 DEF CleanInv, LoneDeletion
  <1>10. OthersRemain'
    <2>1. \A c \in Books : up[c].at = "book" => up'[c].at = "book"
      OBVIOUS
    <2> QED
      BY <1>0, <1>3, <2>1 DEF CleanInv, OthersRemain
  <1>11. AloneUnlinks'
    BY <1>0, <1>1, <1>2 DEF CleanInv, AloneUnlinks
  <1>12. FileIsHeld'
    <2>1. \A m \in Names : OnlyName(m)' => OnlyName(m)
      BY DEF OnlyName
    <2> QED
      BY <1>0, <1>2, <2>1 DEF CleanInv, FileIsHeld
  <1> QED
    BY <1>4, <1>5, <1>6, <1>7, <1>8, <1>9, <1>10, <1>11, <1>12
       DEF UploadsInv, KeptInv, CleanInv

LEMMA FinishStep ==
  ASSUME UploadsInv, NEW x \in Books, FinishWrite(x)
  PROVE  UploadsInv'
  <1>0. UploadsTypeOK /\ DeletedWasBook
    BY DEF UploadsInv
  <1>1. /\ up[x].at = "writing" /\ up' \in [Books -> Upload] /\ up'[x].at = "stored"
        /\ \A c \in Books : Path(c)' = Path(c)
        /\ \A c \in Books \ {x} : up'[c].at = up[c].at
    BY <1>0, MovedFacts DEF FinishWrite
  <1>2. del[x].at = "no"
    BY <1>0, <1>1 DEF DeletedWasBook
  <1>3. /\ files' \in [Names -> FileState]
        /\ \A m \in Names : IF files[m] = x THEN files'[m] = "whole" ELSE files'[m] = files[m]
    <2>1. \A m \in Names : files[m] = x => m = Path(x)
      BY <1>0 DEF UploadsTypeOK
    <2>2. Path(x) \in Names
      BY <1>0, PathType
    <2>3. CASE files[Path(x)] = x
      BY <1>0, <2>1, <2>2, <2>3 DEF FinishWrite, UploadsTypeOK, FileState
    <2>4. CASE files[Path(x)] # x
      BY <1>0, <2>1, <2>2, <2>4 DEF FinishWrite, UploadsTypeOK
    <2> QED
      BY <2>3, <2>4
  <1>4. \A m \in Names : files'[m] \in Books => files'[m] = files[m] /\ files[m] # x
    BY <1>3, NotAFileState
  <1>5. \A m \in Names : /\ files'[m] = "absent" <=> files[m] = "absent"
                         /\ files'[m] = "torn" => files[m] = "torn"
    BY <1>3, NotAFileState
  <1>6. UNCHANGED <<del, raced, left, crossed>>
    BY DEF FinishWrite
  <1> QED
    BY <1>1, <1>2, <1>3, <1>4, <1>5, <1>6, HoldingStep

LEMMA CommitStep ==
  ASSUME UploadsInv, NEW x \in Books, CommitBook(x)
  PROVE  UploadsInv'
  <1>0. UploadsTypeOK /\ DeletedWasBook
    BY DEF UploadsInv
  <1>1. /\ up[x].at = "stored" /\ up' \in [Books -> Upload] /\ up'[x].at = "book"
        /\ \A c \in Books : Path(c)' = Path(c)
        /\ \A c \in Books \ {x} : up'[c].at = up[c].at
    BY <1>0, MovedFacts DEF CommitBook
  <1>2. del[x].at = "no"
    BY <1>0, <1>1 DEF DeletedWasBook
  <1>3. UNCHANGED <<files, del, raced, left, crossed>>
    BY DEF CommitBook
  <1>4. \A m \in Names : files[m] # x
    BY <1>0, <1>1 DEF UploadsTypeOK
  <1>5. files' \in [Names -> FileState]
    BY <1>0, <1>3 DEF UploadsTypeOK
  <1> QED
    BY <1>1, <1>2, <1>3, <1>4, <1>5, HoldingStep

LEMMA FailStep ==
  ASSUME UploadsInv, NEW x \in Books, UploadFails(x)
  PROVE  UploadsInv'
  <1>0. UploadsTypeOK /\ DeletedWasBook /\ KeptInv /\ CleanInv
    BY DEF UploadsInv
  <1>1. /\ up[x].at \in {"writing", "stored"} /\ up' \in [Books -> Upload]
        /\ up'[x].at = "failed"
        /\ \A c \in Books : Path(c)' = Path(c)
        /\ \A c \in Books \ {x} : up'[c].at = up[c].at
    BY <1>0, MovedFacts DEF UploadFails, Uploading
  <1>2. \A c \in Books : Path(c) \in Names
    BY <1>0, PathType
  <1>3. /\ files' \in [Names -> FileState]
        /\ \A m \in Names : IF files[m] = x THEN files'[m] = "torn" ELSE files'[m] = files[m]
        /\ \A m \in Names : files[m] = x => m = Path(x)
    <2>1. \A m \in Names : files[m] = x => m = Path(x)
      BY <1>0 DEF UploadsTypeOK
    <2>2. CASE files[Path(x)] = x
      BY <1>0, <1>2, <2>1, <2>2 DEF UploadFails, UploadsTypeOK, FileState
    <2>3. CASE files[Path(x)] # x
      BY <1>0, <1>2, <2>1, <2>3 DEF UploadFails, UploadsTypeOK
    <2> QED
      BY <2>1, <2>2, <2>3
  <1>4. left' = left \cup {Path(x)} /\ UNCHANGED <<del, raced, crossed>>
    BY DEF UploadFails
  <1>5. del[x].at = "no"
    BY <1>0, <1>1 DEF DeletedWasBook
  <1>6. \A m \in Names : files'[m] = "absent" <=> files[m] = "absent"
    BY <1>3, NotAFileState
  <1>7. /\ \A c \in Books \ {x} : (Needs(c)' <=> Needs(c)) /\ (Holds(c)' <=> Holds(c))
        /\ ~Needs(x)'
    BY <1>1, <1>4 DEF Needs, Holds
  <1>8. \A c \in Books : InDeletion(c)' <=> InDeletion(c)
    BY <1>1, <1>4 DEF InDeletion
  <1>9. UploadsTypeOK'
    <2>1. \A m \in Names : files'[m] \in Books => files'[m] = files[m] /\ files[m] # x
      BY <1>3, NotAFileState
    <2> QED
      BY <1>0, <1>1, <1>2, <1>3, <1>4, <2>1 DEF UploadsTypeOK, Path
  <1>10. DeletedWasBook'
    BY <1>0, <1>1, <1>4, <1>5 DEF DeletedWasBook
  <1>11. NeededIsThere'
    BY <1>0, <1>1, <1>2, <1>4, <1>6, <1>7 DEF KeptInv, NeededIsThere
  <1>12. UnlinkingAlone'
    BY <1>0, <1>1, <1>4, <1>7 DEF KeptInv, UnlinkingAlone
  <1>13. TornIsLeft'
    BY <1>0, <1>3, <1>4 DEF KeptInv, TornIsLeft
  <1>14. LoneDeletion'
    BY <1>0, <1>4, <1>8 DEF CleanInv, LoneDeletion
  <1>15. OthersRemain'
    <2>1. \A c \in Books : up[c].at = "book" => up'[c].at = "book"
      BY <1>1
    <2> QED
      BY <1>0, <1>4, <1>8, <2>1 DEF CleanInv, OthersRemain
  <1>16. AloneUnlinks'
    <2> SUFFICES ASSUME ~crossed, NEW b \in Books, up[b].at = "book",
                        del[b].at = "unlinked", ~del[b].others, Path(b) # Path(x)
                 PROVE  \/ files'[Path(b)] = "absent"
                        \/ Path(b) \in left
                        \/ \E c \in Books \ {b} : Holds(c)' /\ Path(c) = Path(b)
      BY <1>1, <1>4 DEF AloneUnlinks
    <2>1. \/ files[Path(b)] = "absent"
          \/ Path(b) \in left
          \/ \E c \in Books \ {b} : Holds(c) /\ Path(c) = Path(b)
      BY <1>0 DEF CleanInv, AloneUnlinks
    <2> QED
      BY <1>2, <1>6, <1>7, <2>1
  <1>17. FileIsHeld'
    <2> SUFFICES ASSUME ~crossed, NEW m \in Names, m \notin left', OnlyName(m)'
                 PROVE  FALSE
      BY <1>4 DEF FileIsHeld
    <2> QED
      BY <1>1, <1>4 DEF OnlyName
  <1> QED
    BY <1>9, <1>10, <1>11, <1>12, <1>13, <1>14, <1>15, <1>16, <1>17
       DEF UploadsInv, KeptInv, CleanInv

-----------------------------------------------------------------------------
(* Uploads: deleting *)

LEMMA CountStep ==
  ASSUME UploadsInv, NEW x \in Books, CountOthers(x)
  PROVE  UploadsInv'
  <1>0. UploadsTypeOK /\ DeletedWasBook /\ KeptInv /\ CleanInv
    BY DEF UploadsInv
  <1>1. /\ up[x].at = "book" /\ del[x].at \in {"no", "cut"}
        /\ UNCHANGED <<files, up, left>>
        /\ raced \subseteq raced' /\ raced' \subseteq Books
        /\ crossed' = (crossed \/ Deleting # {})
    BY <1>0 DEF CountOthers, UploadsTypeOK, Uploading
  <1>2. /\ del' \in [Books -> Deletion]
        /\ del'[x].at = "counted" /\ del'[x].others = (Rows \ {x} # {})
        /\ \A c \in Books \ {x} : del'[c] = del[c]
    BY <1>0 DEF CountOthers, UploadsTypeOK, Deletion
  <1>3. \A c \in Books : Path(c)' = Path(c)
    BY <1>1 DEF Path
  <1>4. \A c \in Books : /\ Needs(c)' => Needs(c) /\ c # x
                         /\ Holds(c)' <=> Holds(c)
    BY <1>1, <1>2 DEF Needs, Holds
  <1>5. ~crossed' => ~crossed /\ \A c \in Books : ~InDeletion(c)
    BY <1>1 DEF Deleting, Rows, InDeletion
  <1>6. \A c \in Books : InDeletion(c)' <=> InDeletion(c) \/ c = x
    BY <1>1, <1>2 DEF InDeletion
  <1>7. UploadsTypeOK'
    <2>1. crossed' \in BOOLEAN
      BY <1>1
    <2> QED
      BY <1>0, <1>1, <1>2, <2>1 DEF UploadsTypeOK, Path
  <1>8. DeletedWasBook'
    BY <1>0, <1>1, <1>2 DEF DeletedWasBook
  <1>9. NeededIsThere'
    BY <1>0, <1>1, <1>3, <1>4 DEF KeptInv, NeededIsThere
  <1>10. UnlinkingAlone'
    <2> SUFFICES ASSUME NEW b \in Books, NEW c \in Books, up[c].at = "book",
                        del'[c].at = "counted", ~del'[c].others,
                        b # c, Path(b) = Path(c), Needs(b)'
                 PROVE  b \in raced'
      BY <1>1, <1>3 DEF UnlinkingAlone
    <2>1. CASE c = x
      <3>1. Rows \ {x} = {}
        BY <1>2, <2>1
      <3>2. up[b].at # "book"
        BY <2>1, <3>1 DEF Rows
      <3>3. b \in Uploading
        BY <1>1, <3>2 DEF Needs, Uploading
      <3> QED
        BY <2>1, <3>1, <3>3 DEF CountOthers
    <2>2. CASE c # x
      BY <1>0, <1>1, <1>2, <1>4, <2>2 DEF KeptInv, UnlinkingAlone
    <2> QED
      BY <2>1, <2>2
  <1>11. TornIsLeft'
    BY <1>0, <1>1 DEF KeptInv, TornIsLeft
  <1>12. LoneDeletion'
    BY <1>5, <1>6 DEF LoneDeletion
  <1>13. OthersRemain'
    BY <1>1, <1>2, <1>5, <1>6 DEF OthersRemain, Rows
  <1>14. AloneUnlinks'
    <2> SUFFICES ASSUME ~crossed', NEW b \in Books, up[b].at = "book",
                        del'[b].at = "unlinked", ~del'[b].others
                 PROVE  FALSE
      BY <1>1 DEF AloneUnlinks
    <2>1. b # x /\ del[b].at = "unlinked"
      BY <1>2
    <2> QED
      BY <1>5, <2>1 DEF InDeletion
  <1>15. FileIsHeld'
    <2>1. \A m \in Names : OnlyName(m)' <=> OnlyName(m)
      BY <1>1, <1>3 DEF OnlyName
    <2> QED
      BY <1>0, <1>1, <1>3, <1>4, <1>5, <2>1 DEF CleanInv, FileIsHeld
  <1> QED
    BY <1>7, <1>8, <1>9, <1>10, <1>11, <1>12, <1>13, <1>14, <1>15
       DEF UploadsInv, KeptInv, CleanInv

LEMMA UnlinkStep ==
  ASSUME UploadsInv, NEW x \in Books, UnlinkFile(x)
  PROVE  UploadsInv'
  <1>0. UploadsTypeOK /\ DeletedWasBook /\ KeptInv /\ CleanInv
    BY DEF UploadsInv
  <1>1. /\ up[x].at = "book" /\ del[x].at = "counted"
        /\ UNCHANGED <<up, raced, crossed>>
    BY DEF UnlinkFile
  <1>2. /\ del' \in [Books -> Deletion]
        /\ del'[x].at = "unlinked" /\ del'[x].others = del[x].others
        /\ \A c \in Books \ {x} : del'[c] = del[c]
    BY <1>0, DeletionFacts DEF UnlinkFile
  <1>3. \A c \in Books : Path(c)' = Path(c) /\ Path(c) \in Names
    BY <1>0, <1>1, PathType DEF Path
  <1>4. /\ files' \in [Names -> FileState]
        /\ \A m \in Names : files'[m] = files[m] \/ (~del[x].others /\ m = Path(x) /\ files'[m] = "absent")
        /\ \A m \in Names : files'[m] = files[m] => (m \in left => m \in left' \/ files'[m] = "absent")
        /\ \A m \in Names : m \in left' => m \in left \/ m = Path(x)
        /\ \A m \in Names \ {Path(x)} : m \in left => m \in left'
        /\ ~del[x].others => files'[Path(x)] = "absent" \/ Path(x) \in left'
        /\ left' \subseteq Names
    <2>1. CASE del[x].others
      BY <1>0, <2>1 DEF UnlinkFile, UploadsTypeOK
    <2>2. CASE ~del[x].others /\ files' = [files EXCEPT ![Path(x)] = "absent"] /\ left' = left \ {Path(x)}
      BY <1>0, <1>3, <2>2 DEF UploadsTypeOK, FileState
    <2>3. CASE ~del[x].others /\ files' = files /\ left' = left \cup {Path(x)}
      BY <1>0, <1>3, <2>3 DEF UploadsTypeOK
    <2> QED
      BY <2>1, <2>2, <2>3 DEF UnlinkFile
  <1>5. \A c \in Books : /\ Needs(c)' <=> Needs(c)
                         /\ Holds(c)' <=> Holds(c)
                         /\ InDeletion(c)' <=> InDeletion(c)
    BY <1>1, <1>2 DEF Needs, Holds, InDeletion
  <1>6. UploadsTypeOK'
    <2>1. \A m \in Names : files'[m] \in Books => files'[m] = files[m]
      BY <1>4, NotAFileState
    <2> QED
      BY <1>0, <1>1, <1>2, <1>4, <2>1 DEF UploadsTypeOK, Path
  <1>7. DeletedWasBook'
    BY <1>0, <1>1, <1>2 DEF DeletedWasBook
  <1>8. NeededIsThere'
    <2> SUFFICES ASSUME NEW b \in Books \ raced, Needs(b)
                 PROVE  files'[Path(b)] # "absent"
      BY <1>1, <1>3, <1>5 DEF NeededIsThere
    <2>1. files[Path(b)] # "absent"
      BY <1>0 DEF KeptInv, NeededIsThere
    <2>2. b # x
      BY <1>1 DEF Needs
    <2>3. ~(~del[x].others /\ Path(b) = Path(x))
      BY <1>0, <1>1, <2>2 DEF KeptInv, UnlinkingAlone
    <2> QED
      BY <1>3, <1>4, <2>1, <2>3
  <1>9. UnlinkingAlone'
    BY <1>0, <1>1, <1>2, <1>3, <1>5 DEF KeptInv, UnlinkingAlone
  <1>10. TornIsLeft'
    BY <1>0, <1>1, <1>4 DEF KeptInv, TornIsLeft
  <1>11. LoneDeletion'
    BY <1>0, <1>1, <1>5 DEF CleanInv, LoneDeletion
  <1>12. OthersRemain'
    BY <1>0, <1>1, <1>2, <1>5 DEF CleanInv, OthersRemain
  <1>13. AloneUnlinks'
    <2> SUFFICES ASSUME ~crossed, NEW b \in Books, up[b].at = "book",
                        del'[b].at = "unlinked", ~del[b].others
                 PROVE  files'[Path(b)] = "absent" \/ Path(b) \in left'
      BY <1>1, <1>2, <1>3 DEF AloneUnlinks
    <2>1. b = x
      BY <1>0, <1>1, <1>2 DEF CleanInv, LoneDeletion, InDeletion
    <2> QED
      BY <1>3, <1>4, <2>1
  <1>14. FileIsHeld'
    <2>1. \A m \in Names : OnlyName(m)' <=> OnlyName(m)
      BY <1>1, <1>3 DEF OnlyName
    <2> QED
      BY <1>0, <1>1, <1>3, <1>4, <1>5, <2>1 DEF CleanInv, FileIsHeld
  <1> QED
    BY <1>6, <1>7, <1>8, <1>9, <1>10, <1>11, <1>12, <1>13, <1>14
       DEF UploadsInv, KeptInv, CleanInv

LEMMA DropStep ==
  ASSUME UploadsInv, NEW x \in Books, DropBook(x)
  PROVE  UploadsInv'
  <1>0. UploadsTypeOK /\ DeletedWasBook /\ KeptInv /\ CleanInv
    BY DEF UploadsInv
  <1>1. /\ up[x].at = "book" /\ del[x].at = "unlinked"
        /\ up' \in [Books -> Upload] /\ up'[x].at = "gone"
        /\ \A c \in Books : Path(c)' = Path(c)
        /\ \A c \in Books \ {x} : up'[c].at = up[c].at
    BY <1>0, MovedFacts DEF DropBook
  <1>2. UNCHANGED <<files, del, raced, left, crossed>>
    BY DEF DropBook
  <1>3. \A c \in Books : Path(c) \in Names
    BY <1>0, PathType
  <1>4. \A c \in Books : /\ Needs(c)' <=> Needs(c)
                         /\ Holds(c)' <=> Holds(c) /\ c # x
                         /\ InDeletion(c)' <=> InDeletion(c) /\ c # x
    <2>1. ~Needs(x) /\ ~Needs(x)' /\ ~Holds(x)' /\ ~InDeletion(x)'
      BY <1>1, <1>2 DEF Needs, Holds, InDeletion
    <2>2. \A c \in Books \ {x} : /\ Needs(c)' <=> Needs(c)
                                 /\ Holds(c)' <=> Holds(c)
                                 /\ InDeletion(c)' <=> InDeletion(c)
      BY <1>1, <1>2 DEF Needs, Holds, InDeletion
    <2> QED
      BY <2>1, <2>2
  <1>5. InDeletion(x)
    BY <1>1 DEF InDeletion
  <1>6. ~crossed => \A c \in Books : ~InDeletion(c)'
    BY <1>0, <1>4, <1>5 DEF CleanInv, LoneDeletion
  <1>7. UploadsTypeOK'
    <2>1. \A m \in Names : files[m] # x
      BY <1>0, <1>1 DEF UploadsTypeOK
    <2> QED
      BY <1>0, <1>1, <1>2, <2>1 DEF UploadsTypeOK, Path
  <1>8. DeletedWasBook'
    BY <1>0, <1>1, <1>2 DEF DeletedWasBook
  <1>9. NeededIsThere'
    BY <1>0, <1>1, <1>2, <1>4 DEF KeptInv, NeededIsThere
  <1>10. UnlinkingAlone'
    BY <1>0, <1>1, <1>2, <1>4 DEF KeptInv, UnlinkingAlone
  <1>11. TornIsLeft'
    BY <1>0, <1>2 DEF KeptInv, TornIsLeft
  <1>12. LoneDeletion'
    BY <1>2, <1>6 DEF LoneDeletion
  <1>13. OthersRemain'
    BY <1>2, <1>6 DEF OthersRemain
  <1>14. AloneUnlinks'
    BY <1>2, <1>6 DEF AloneUnlinks, InDeletion
  <1>15. FileIsHeld'
    <2> SUFFICES ASSUME ~crossed, NEW m \in Names \ left, files[m] # "absent", OnlyName(m)'
                 PROVE  \E c \in Books : Holds(c)' /\ Path(c) = m
      BY <1>1, <1>2 DEF FileIsHeld
    <2>1. Path(x) = m
      BY <1>1 DEF OnlyName
    <2>2. CASE del[x].others
      <3>1. PICK c \in Books \ {x} : up[c].at = "book"
        BY <1>0, <1>5, <2>2 DEF CleanInv, OthersRemain
      <3>2. Path(c) = m
        BY <1>1, <3>1 DEF OnlyName
      <3>3. Holds(c)'
        BY <1>1, <3>1 DEF Holds
      <3> QED
        BY <3>2, <3>3
    <2>3. CASE ~del[x].others
      <3>1. PICK c \in Books \ {x} : Holds(c) /\ Path(c) = m
        BY <1>0, <1>1, <2>1, <2>3 DEF CleanInv, AloneUnlinks
      <3> QED
        BY <1>4, <3>1
    <2> QED
      BY <2>2, <2>3
  <1> QED
    BY <1>7, <1>8, <1>9, <1>10, <1>11, <1>12, <1>13, <1>14, <1>15
       DEF UploadsInv, KeptInv, CleanInv

LEMMA CutStep ==
  ASSUME UploadsInv, NEW x \in Books, DeletionFails(x)
  PROVE  UploadsInv'
  <1>0. UploadsTypeOK /\ DeletedWasBook /\ KeptInv /\ CleanInv
    BY DEF UploadsInv
  <1>1. /\ up[x].at = "book" /\ del[x].at \in {"counted", "unlinked"}
        /\ UNCHANGED <<files, up, raced, left, crossed>>
    BY DEF DeletionFails, Deleting, Rows
  <1>2. /\ del' \in [Books -> Deletion]
        /\ del'[x].at = "cut"
        /\ \A c \in Books \ {x} : del'[c] = del[c]
    BY <1>0, DeletionFacts DEF DeletionFails
  <1>3. \A c \in Books : Path(c)' = Path(c) /\ Path(c) \in Names
    BY <1>0, <1>1, PathType DEF Path
  <1>4. \A c \in Books : /\ Needs(c)' <=> Needs(c)
                         /\ Holds(c)' <=> Holds(c)
                         /\ InDeletion(c)' <=> InDeletion(c) /\ c # x
    BY <1>1, <1>2 DEF Needs, Holds, InDeletion
  <1>5. UploadsTypeOK'
    BY <1>0, <1>1, <1>2 DEF UploadsTypeOK, Path
  <1>6. DeletedWasBook'
    BY <1>0, <1>1, <1>2 DEF DeletedWasBook
  <1>7. NeededIsThere'
    BY <1>0, <1>1, <1>3, <1>4 DEF KeptInv, NeededIsThere
  <1>8. UnlinkingAlone'
    BY <1>0, <1>1, <1>2, <1>3, <1>4 DEF KeptInv, UnlinkingAlone
  <1>9. TornIsLeft'
    BY <1>0, <1>1 DEF KeptInv, TornIsLeft
  <1>10. LoneDeletion'
    BY <1>0, <1>1, <1>4 DEF CleanInv, LoneDeletion
  <1>11. OthersRemain'
    BY <1>0, <1>1, <1>2, <1>4 DEF CleanInv, OthersRemain
  <1>12. AloneUnlinks'
    BY <1>0, <1>1, <1>2, <1>3, <1>4 DEF CleanInv, AloneUnlinks
  <1>13. FileIsHeld'
    <2>1. \A m \in Names : OnlyName(m)' <=> OnlyName(m)
      BY <1>1, <1>3 DEF OnlyName
    <2> QED
      BY <1>0, <1>1, <1>3, <1>4, <2>1 DEF CleanInv, FileIsHeld
  <1> QED
    BY <1>5, <1>6, <1>7, <1>8, <1>9, <1>10, <1>11, <1>12, <1>13
       DEF UploadsInv, KeptInv, CleanInv

-----------------------------------------------------------------------------
(* Uploads: the invariant, and what it gives *)

LEMMA UploadsNextInv ==
  ASSUME UploadsInv, [UploadsNext]_uploadVars
  PROVE  UploadsInv'
  <1>1. ASSUME NEW x \in Books, UploadStep(x)
        PROVE  UploadsInv'
    BY <1>1, MissStep, StoreStep, FinishStep, CommitStep, FailStep, CountStep, UnlinkStep, DropStep,
       CutStep DEF UploadStep
  <1>2. CASE UNCHANGED uploadVars
    BY <1>2 DEF uploadVars, UploadsInv, UploadsTypeOK, DeletedWasBook, KeptInv, CleanInv,
       NeededIsThere, UnlinkingAlone, TornIsLeft, LoneDeletion, OthersRemain, AloneUnlinks,
       FileIsHeld, OnlyName, InDeletion, Needs, Holds, Path
  <1> QED
    BY <1>1, <1>2 DEF UploadsNext

LEMMA UploadsInvGives ==
  ASSUME UploadsInv
  PROVE  FileKept /\ FilesCleaned
  <1>1. FileKept
    <2> SUFFICES ASSUME NEW b \in Rows \ raced, del[b].at = "no"
                 PROVE  /\ files[Path(b)] # "absent"
                        /\ files[Path(b)] = "torn" => Path(b) \in left
      BY DEF FileKept
    <2>1. b \in Books \ raced /\ Needs(b)
      BY DEF Rows, Needs
    <2>2. Path(b) \in Names
      BY <2>1, PathType DEF UploadsInv
    <2> QED
      BY <2>1, <2>2 DEF UploadsInv, KeptInv, NeededIsThere, TornIsLeft
  <1>2. FilesCleaned
    <2> SUFFICES ASSUME NEW n \in Names \ left, files[n] # "absent",
                        ~ \E b \in Rows \cup Uploading : Path(b) = n,
                        ~crossed, ~ \E b \in Books : Path(b) # n /\ up[b].at # "new"
                 PROVE  FALSE
      BY DEF FilesCleaned
    <2>1. OnlyName(n)
      BY DEF OnlyName
    <2>2. PICK b \in Books : Holds(b) /\ Path(b) = n
      BY <2>1 DEF UploadsInv, CleanInv, FileIsHeld
    <2> QED
      BY <2>2 DEF Holds, Rows, Uploading
  <1> QED
    BY <1>1, <1>2

\* The shelf an extraction starts with: one book with its file.
LEMMA ShelvedInv ==
  ASSUME Shelved
  PROVE  UploadsInv
  <1> DEFINE mine == CHOOSE b \in Books : TRUE
             name == CHOOSE n \in Names : TRUE
  <1>1. mine \in Books /\ name \in Names
    BY BookIdsAssumption, SameBooks, NamesAssumption
  <1>2. /\ files = [n \in Names |-> IF n = name THEN "whole" ELSE "absent"]
        /\ up = [b \in Books |-> [at |-> IF b = mine THEN "book" ELSE "gone", name |-> name]]
        /\ del = [b \in Books |-> [at |-> IF b = mine THEN "no" ELSE "unlinked", others |-> TRUE]]
        /\ raced = {} /\ left = {} /\ crossed = FALSE
    BY DEF Shelved
  <1> HIDE DEF mine, name
  <1>3. /\ files \in [Names -> FileState]
        /\ \A n \in Names : files[n] = (IF n = name THEN "whole" ELSE "absent")
    BY <1>2 DEF FileState
  <1>4. /\ up \in [Books -> Upload]
        /\ \A b \in Books : /\ up[b].at = (IF b = mine THEN "book" ELSE "gone")
                            /\ Path(b) = name
    BY <1>1, <1>2 DEF Upload, Path
  <1>5. /\ del \in [Books -> Deletion]
        /\ \A b \in Books : /\ del[b].at = (IF b = mine THEN "no" ELSE "unlinked")
                            /\ del[b].others
    BY <1>2 DEF Deletion
  <1>6. \A n \in Names : files[n] \notin Books
    BY <1>3, NotAFileState
  <1>7. UploadsTypeOK
    BY <1>2, <1>3, <1>4, <1>5, <1>6 DEF UploadsTypeOK
  <1>8. DeletedWasBook
    BY <1>4, <1>5 DEF DeletedWasBook
  <1>9. KeptInv
    BY <1>1, <1>3, <1>4, <1>5 DEF KeptInv, NeededIsThere, UnlinkingAlone, TornIsLeft, Needs
  <1>10. \A b \in Books : ~InDeletion(b)
    BY <1>4, <1>5 DEF InDeletion
  <1>11. CleanInv
    <2>1. LoneDeletion /\ OthersRemain
      BY <1>10 DEF LoneDeletion, OthersRemain
    <2>2. AloneUnlinks
      BY <1>5 DEF AloneUnlinks
    <2>3. FileIsHeld
      BY <1>1, <1>3, <1>4 DEF FileIsHeld, Holds
    <2> QED
      BY <2>1, <2>2, <2>3 DEF CleanInv
  <1> QED
    BY <1>7, <1>8, <1>9, <1>11 DEF UploadsInv

-----------------------------------------------------------------------------
(* Provider: what the books of the callers promise *)

\* Every invocation that is over has its row, or a reason why it has none.
Accounted(c, n) ==
    IF n = call[c].nr /\ Pending(c) THEN RowsOf(c, n) = {} /\ ~Lost(c, n)
    ELSE \/ Lost(c, n) /\ RowsOf(c, n) = {}
         \/ ~Lost(c, n) /\ \E i \in DOMAIN ledger[c] : RowsOf(c, n) = {i}

\* Nothing is recorded before it is asked.
LedgerInv(c) ==
    /\ Pending(c) => call[c].nr >= 1
    /\ \A i \in DOMAIN ledger[c] : ledger[c][i].nr \in 1..call[c].nr
    /\ \A l \in lost[c] : l.nr \in 1..call[c].nr
    /\ \A n \in 1..call[c].nr : Accounted(c, n)

\* A model bound to the schema is asked first; the second invocation of a
\* call follows an answer of blocks.
AskInv(c) ==
    /\ Pending(c) /\ call[c].mode = "schema" => call[c].nr = call[c].first
    /\ call[c].first < call[c].nr =>
           /\ call[c].nr = call[c].first + 1
           /\ [nr |-> call[c].first, why |-> "blocks"] \in lost[c]

CallerInv(c) == LedgerInv(c) /\ AskInv(c)
LlmInv == ProviderTypeOK /\ \A c \in Callers : CallerInv(c)

-----------------------------------------------------------------------------
(* Provider: types *)

LEMMA AskedFacts ==
  ASSUME NEW k \in Call, NEW mode \in {"plain", "schema", "json"}
  PROVE  /\ Asked(k, mode) \in Call
         /\ Asked(k, mode).at = "asking" /\ Asked(k, mode).mode = mode
         /\ Asked(k, mode).nr = k.nr + 1 /\ Asked(k, mode).first = k.first
         /\ Asked(k, mode).answer = "none"
  <1>1. k.nr + 1 \in Nat /\ 0 \in Nat
    BY DEF Call
  <1>2. Asked(k, mode) \in Call
    BY <1>1, Zenon DEF Call, Asked
  <1> QED
    BY <1>2 DEF Call, Asked

LEMMA OpenedFacts ==
  ASSUME NEW k \in Call, NEW b \in BookIds
  PROVE  /\ Opened(k, b) \in Call
         /\ Opened(k, b).first = k.nr + 1 /\ Opened(k, b).nr = k.nr
         /\ Opened(k, b).at = k.at /\ Opened(k, b).mode = k.mode
  <1>1. k.nr + 1 \in Nat /\ k.calls + 1 \in Nat /\ "none" \in Outcome
    BY DEF Call, Outcome
  <1>2. Opened(k, b) \in Call
    BY <1>1, Zenon DEF Call, Opened
  <1> QED
    BY <1>2 DEF Call, Opened

\* What a request can bring, in any mode.
Heardable == Failure \cup {"value", "empty", "json", "prose", "blocks"}

LEMMA HeardFacts ==
  ASSUME NEW k \in Call, NEW a \in Heardable
  PROVE  /\ Heard(k, a) \in Call
         /\ Heard(k, a).at = "heard" /\ Heard(k, a).nr = k.nr
         /\ Heard(k, a).first = k.first /\ Heard(k, a).mode = k.mode
         /\ Heard(k, a).answer = a
  <1>1. a \in Failure \cup {"none", "value", "empty", "json", "prose", "blocks"}
    BY DEF Heardable
  <1>2. Heard(k, a) \in Call
    BY <1>1, Zenon DEF Call, Heard
  <1> QED
    BY <1>2 DEF Call, Heard

LEMMA TriedFacts ==
  ASSUME NEW k \in Call, NEW a \in Heardable
  PROVE  /\ Tried(k, a) \in Call
         /\ Tried(k, a).at \in {"asking", "heard"} /\ Tried(k, a).nr = k.nr
         /\ Tried(k, a).first = k.first /\ Tried(k, a).mode = k.mode
         /\ Tried(k, a).answer = a
  <1> DEFINE at == IF Retryable(a) /\ ~LastTry(k) THEN "asking" ELSE "heard"
             h == Heard(k, a)
  <1>1. h \in Call /\ h.answer = a /\ h.nr = k.nr /\ h.first = k.first /\ h.mode = k.mode
    BY HeardFacts
  <1>2. at \in {"asking", "heard"}
    OBVIOUS
  <1>3. Tried(k, a) = [h EXCEPT !.tries = @ + 1, !.at = at]
    BY DEF Tried
  <1> HIDE DEF at, h
  <1>4. h.tries + 1 \in Nat /\ at \in {"idle", "asking", "heard", "done"}
    BY <1>1, <1>2 DEF Call
  <1>5. Tried(k, a) \in Call
    BY <1>1, <1>3, <1>4, Zenon DEF Call
  <1> QED
    BY <1>1, <1>2, <1>3, <1>5 DEF Call

LEMMA EndedFacts ==
  ASSUME NEW k \in Call,
         NEW r \in Outcome
  PROVE  /\ Ended(k, r) \in Call
         /\ Ended(k, r).at = "done" /\ Ended(k, r).nr = k.nr
         /\ Ended(k, r).first = k.first /\ Ended(k, r).mode = k.mode
         /\ Ended(k, r).result = r
  <1>1. Ended(k, r) \in Call
    BY Zenon DEF Call, Ended
  <1> QED
    BY <1>1 DEF Call, Ended

LEMMA AnswersAreHeardable ==
  ASSUME NEW mode \in {"plain", "schema", "json"}, NEW a \in Answers(mode)
  PROVE  /\ a \in Heardable /\ a # "none"
         /\ mode = "plain" => a \in {"value", "empty"} \cup Failure
  BY DEF Answers, Heardable, Failure

LEMMA ResultType ==
  ASSUME NEW a
  PROVE  /\ Result(a) \in Outcome
         /\ Status(a) \in {"ok", "error", "parse_error"}
  BY DEF Result, Status, Outcome

-----------------------------------------------------------------------------
(* Provider: the books of one caller *)

\* What one caller has asked and recorded does not depend on the others.
LEMMA Elsewhere ==
  ASSUME NEW c \in Callers, CallerInv(c),
         UNCHANGED <<call[c], ledger[c], lost[c]>>
  PROVE  CallerInv(c)'
  BY DEF CallerInv, LedgerInv, AskInv, Accounted, Pending, RowsOf, Lost

\* A call is opened, with its first invocation or without.
LEMMA Opening ==
  ASSUME NEW c \in Callers, CallerInv(c), call[c].nr \in Nat, ~Pending(c),
         call'[c].nr = IF Pending(c)' THEN call[c].nr + 1 ELSE call[c].nr,
         call'[c].first = call[c].nr + 1,
         UNCHANGED <<ledger[c], lost[c]>>
  PROVE  CallerInv(c)'
  <1>1. \A n : (RowsOf(c, n)' = RowsOf(c, n)) /\ (Lost(c, n)' <=> Lost(c, n))
    BY DEF RowsOf, Lost
  <1>2. LedgerInv(c)'
    <2>1. ASSUME NEW n \in 1..call'[c].nr
          PROVE  Accounted(c, n)'
      <3>1. CASE n = call'[c].nr /\ Pending(c)'
        <4>1. RowsOf(c, n) = {} /\ ~Lost(c, n)
          BY <3>1 DEF CallerInv, LedgerInv, RowsOf, Lost
        <4> QED
          BY <1>1, <3>1, <4>1 DEF Accounted
      <3>2. CASE ~(n = call'[c].nr /\ Pending(c)')
        <4>1. n \in 1..call[c].nr
          BY <3>2
        <4>2. \/ Lost(c, n) /\ RowsOf(c, n) = {}
              \/ ~Lost(c, n) /\ \E i \in DOMAIN ledger[c] : RowsOf(c, n) = {i}
          BY <4>1 DEF CallerInv, LedgerInv, Accounted
        <4> QED
          BY <1>1, <3>2, <4>2 DEF Accounted
      <3> QED
        BY <3>1, <3>2
    <2> QED
      BY <2>1 DEF CallerInv, LedgerInv
  <1>3. AskInv(c)'
    BY DEF AskInv
  <1> QED
    BY <1>2, <1>3 DEF CallerInv

\* A request that does not end its invocation, or ends it unrecorded as yet.
LEMMA GoingOn ==
  ASSUME NEW c \in Callers, CallerInv(c), Pending(c), Pending(c)',
         call'[c].nr = call[c].nr, call'[c].first = call[c].first,
         call'[c].mode = call[c].mode,
         UNCHANGED <<ledger[c], lost[c]>>
  PROVE  CallerInv(c)'
  BY DEF CallerInv, LedgerInv, AskInv, Accounted, RowsOf, Lost

\* An invocation ends with a row.
LEMMA EndingWithRow ==
  ASSUME NEW c \in Callers, CallerInv(c), call[c].nr \in Nat, Pending(c), ~Pending(c)',
         ledger[c] \in Seq(LedgerRow), NEW row \in LedgerRow, row.nr = call[c].nr,
         ledger'[c] = Append(ledger[c], row), lost'[c] = lost[c],
         call'[c].nr = call[c].nr, call'[c].first = call[c].first
  PROVE  CallerInv(c)'
  <1> DEFINE nr == call[c].nr
             last == Len(ledger[c]) + 1
  <1>1. /\ DOMAIN ledger'[c] = DOMAIN ledger[c] \cup {last} /\ last \notin DOMAIN ledger[c]
        /\ \A i \in DOMAIN ledger[c] : ledger'[c][i] = ledger[c][i]
        /\ ledger'[c][last] = row
    OBVIOUS
  <1>2. \A n : RowsOf(c, n)' = IF n = nr THEN RowsOf(c, n) \cup {last} ELSE RowsOf(c, n)
    BY <1>1 DEF RowsOf
  <1>3. \A n : Lost(c, n)' <=> Lost(c, n)
    BY DEF Lost
  <1>4. nr \in 1..nr /\ RowsOf(c, nr) = {} /\ ~Lost(c, nr)
    BY DEF CallerInv, LedgerInv, Accounted
  <1>5. \A n \in 1..nr : Accounted(c, n)'
    <2> SUFFICES ASSUME NEW n \in 1..nr
                 PROVE  \/ Lost(c, n)' /\ RowsOf(c, n)' = {}
                        \/ ~Lost(c, n)' /\ \E i \in DOMAIN ledger'[c] : RowsOf(c, n)' = {i}
      BY DEF Accounted
    <2>1. CASE n = nr
      BY <1>1, <1>2, <1>3, <1>4, <2>1
    <2>2. CASE n # nr
      <3>1. \/ Lost(c, n) /\ RowsOf(c, n) = {}
            \/ ~Lost(c, n) /\ \E i \in DOMAIN ledger[c] : RowsOf(c, n) = {i}
        BY <2>2 DEF CallerInv, LedgerInv, Accounted
      <3> QED
        BY <1>1, <1>2, <1>3, <2>2, <3>1
    <2> QED
      BY <2>1, <2>2
  <1>6. LedgerInv(c)'
    BY <1>1, <1>4, <1>5 DEF CallerInv, LedgerInv
  <1>7. AskInv(c)'
    BY DEF CallerInv, AskInv
  <1> QED
    BY <1>6, <1>7 DEF CallerInv

\* An invocation ends without a row; the call ends, or asks again in JSON mode.
LEMMA EndingWithoutRow ==
  ASSUME NEW c \in Callers, CallerInv(c), call[c].nr \in Nat, call[c].first \in Nat,
         Pending(c), NEW why, lost'[c] = lost[c] \cup {[nr |-> call[c].nr, why |-> why]},
         ledger'[c] = ledger[c], call'[c].first = call[c].first,
         \/ ~Pending(c)' /\ call'[c].nr = call[c].nr
         \/ /\ Pending(c)' /\ call'[c].nr = call[c].nr + 1 /\ call'[c].mode = "json"
            /\ call[c].mode = "schema" /\ why = "blocks"
  PROVE  CallerInv(c)'
  <1> DEFINE nr == call[c].nr
  <1>1. \A n : RowsOf(c, n)' = RowsOf(c, n)
    BY DEF RowsOf
  <1>2. \A n : Lost(c, n)' <=> Lost(c, n) \/ n = nr
    <2>1. ASSUME NEW n, Lost(c, n)'
          PROVE  Lost(c, n) \/ n = nr
      <3>1. PICK l \in lost'[c] : l.nr = n
        BY <2>1 DEF Lost
      <3>2. CASE l = [nr |-> call[c].nr, why |-> why]
        BY <3>1, <3>2
      <3>3. CASE l \in lost[c]
        BY <3>1, <3>3 DEF Lost
      <3> QED
        BY <3>1, <3>2, <3>3
    <2>2. ASSUME NEW n, Lost(c, n) \/ n = nr
          PROVE  Lost(c, n)'
      <3>1. CASE Lost(c, n)
        BY <3>1 DEF Lost
      <3>2. CASE n = nr
        <4>1. [nr |-> call[c].nr, why |-> why].nr = nr
          OBVIOUS
        <4> QED
          BY <3>2, <4>1 DEF Lost
      <3> QED
        BY <2>2, <3>1, <3>2
    <2> QED
      BY <2>1, <2>2
  <1>3. nr \in 1..nr /\ RowsOf(c, nr) = {}
    BY DEF CallerInv, LedgerInv, Accounted
  <1>4. ASSUME NEW n \in 1..call'[c].nr
        PROVE  Accounted(c, n)'
    <2>1. CASE n = nr
      <3>1. ~(n = call'[c].nr /\ Pending(c)')
        BY <2>1
      <3> QED
        BY <1>1, <1>2, <1>3, <2>1, <3>1 DEF Accounted
    <2>2. CASE n \in 1..nr /\ n # nr
      <3>1. \/ Lost(c, n) /\ RowsOf(c, n) = {}
            \/ ~Lost(c, n) /\ \E i \in DOMAIN ledger[c] : RowsOf(c, n) = {i}
        BY <2>2 DEF CallerInv, LedgerInv, Accounted
      <3>2. ~(n = call'[c].nr /\ Pending(c)')
        BY <2>2
      <3> QED
        BY <1>1, <1>2, <2>2, <3>1, <3>2 DEF Accounted
    <2>3. CASE n = nr + 1
      <3>1. Pending(c)' /\ call'[c].nr = n
        BY <2>3
      <3>2. RowsOf(c, n) = {} /\ ~Lost(c, n)
        BY <2>3 DEF CallerInv, LedgerInv, RowsOf, Lost
      <3> QED
        BY <1>1, <1>2, <2>3, <3>1, <3>2 DEF Accounted
    <2> QED
      BY <1>3, <2>1, <2>2, <2>3
  <1>5. LedgerInv(c)'
    <2>1. \A l \in lost'[c] : l.nr \in 1..call'[c].nr
      BY <1>3 DEF CallerInv, LedgerInv
    <2>2. \A i \in DOMAIN ledger'[c] : ledger'[c][i].nr \in 1..call'[c].nr
      BY DEF CallerInv, LedgerInv
    <2>3. call'[c].nr >= 1
      BY <1>3
    <2> QED
      BY <1>4, <2>1, <2>2, <2>3 DEF LedgerInv
  <1>6. AskInv(c)'
    BY DEF CallerInv, AskInv
  <1> QED
    BY <1>5, <1>6 DEF CallerInv

\* Deletion leaves every row in its place.
LEMMA Forgetting ==
  ASSUME NEW c \in Callers, CallerInv(c), ledger[c] \in Seq(LedgerRow), NEW b,
         ledger'[c] = [i \in DOMAIN ledger[c] |->
                          IF ledger[c][i].book = b THEN [ledger[c][i] EXCEPT !.status = "deleted"]
                          ELSE ledger[c][i]],
         call'[c] = call[c], lost'[c] = lost[c]
  PROVE  CallerInv(c)' /\ ledger'[c] \in Seq(LedgerRow)
  <1>1. /\ DOMAIN ledger'[c] = DOMAIN ledger[c]
        /\ \A i \in DOMAIN ledger[c] :
               ledger'[c][i].nr = ledger[c][i].nr /\ ledger'[c][i] \in LedgerRow
    <2>1. ASSUME NEW row \in LedgerRow
          PROVE  /\ [row EXCEPT !.status = "deleted"] \in LedgerRow
                 /\ [row EXCEPT !.status = "deleted"].nr = row.nr
      BY DEF LedgerRow
    <2>2. \A i \in DOMAIN ledger[c] : ledger[c][i] \in LedgerRow
      OBVIOUS
    <2> QED
      BY <2>1, <2>2
  <1>2. \A n : (RowsOf(c, n)' = RowsOf(c, n)) /\ (Lost(c, n)' <=> Lost(c, n))
    BY <1>1 DEF RowsOf, Lost
  <1>3. Pending(c)' <=> Pending(c)
    BY DEF Pending
  <1>4. \A n \in 1..call[c].nr : Accounted(c, n)'
    BY <1>1, <1>2, <1>3 DEF CallerInv, LedgerInv, Accounted
  <1>5. LedgerInv(c)'
    BY <1>1, <1>3, <1>4 DEF CallerInv, LedgerInv
  <1>6. AskInv(c)'
    BY <1>3 DEF CallerInv, AskInv
  <1>7. ledger'[c] \in Seq(LedgerRow)
    <2>1. DOMAIN ledger[c] = 1..Len(ledger[c]) /\ Len(ledger[c]) \in Nat
      OBVIOUS
    <2>2. ledger'[c] \in [1..Len(ledger[c]) -> LedgerRow]
      BY <1>1, <2>1
    <2> QED
      BY <2>1, <2>2, SeqDef
  <1> QED
    BY <1>5, <1>6, <1>7 DEF CallerInv

-----------------------------------------------------------------------------
(* Provider: the steps *)

\* Rows stay where they are and what is known as lost stays known; a row
\* changes only in that it is deleted.
LedgerGrows ==
    \A c \in Callers :
        /\ lost[c] \subseteq lost'[c]
        /\ \A i \in DOMAIN ledger[c] :
               /\ i \in DOMAIN ledger'[c]
               /\ ledger'[c][i].nr = ledger[c][i].nr
               /\ ledger'[c][i].status \in {ledger[c][i].status, "deleted"}

LEMMA CallerTypes ==
  ASSUME ProviderTypeOK, NEW c \in Callers
  PROVE  /\ call[c] \in Call /\ call[c].nr \in Nat /\ call[c].first \in Nat
         /\ call[c].mode \in {"plain", "schema", "json"}
         /\ ledger[c] \in Seq(LedgerRow)
         /\ lost[c] \in SUBSET [nr : Nat, why : {"write", "blocks", "death"}]
  BY DEF ProviderTypeOK, Call

\* A step of one caller that leaves the books of the others alone.
LEMMA OneCaller ==
  ASSUME LlmInv, NEW c \in Callers, CallerInv(c)', settings' = settings,
         NEW k \in Call, call' = [call EXCEPT ![c] = k],
         ledger' \in [Callers -> Seq(LedgerRow)],
         lost' \in [Callers -> SUBSET [nr : Nat, why : {"write", "blocks", "death"}]],
         \A d \in Callers \ {c} : ledger'[d] = ledger[d] /\ lost'[d] = lost[d]
  PROVE  LlmInv'
  <1>1. ProviderTypeOK'
    BY DEF LlmInv, ProviderTypeOK
  <1>2. ASSUME NEW d \in Callers \ {c}
        PROVE  CallerInv(d)'
    <2>1. UNCHANGED <<call[d], ledger[d], lost[d]>>
      BY <1>2 DEF LlmInv, ProviderTypeOK
    <2> QED
      BY <2>1, Elsewhere DEF LlmInv
  <1> QED
    BY <1>1, <1>2 DEF LlmInv

LEMMA RequestStep ==
  ASSUME LlmInv, NEW c \in Callers, Request(c)
  PROVE  LlmInv' /\ LedgerGrows
  <1>1. /\ call[c].at = "asking" /\ UNCHANGED <<settings, ledger, lost>>
        /\ ProviderTypeOK /\ CallerInv(c)
    BY DEF Request, LlmInv
  <1>2. PICK a \in Answers(call[c].mode) : call' = [call EXCEPT ![c] = Tried(call[c], a)]
    BY <1>1 DEF Request, ProviderTypeOK
  <1> DEFINE k == Tried(call[c], a)
  <1>3. /\ k \in Call /\ k.at \in {"asking", "heard"} /\ k.nr = call[c].nr
        /\ k.first = call[c].first /\ k.mode = call[c].mode
    BY <1>1, CallerTypes, AnswersAreHeardable, TriedFacts
  <1> HIDE DEF k
  <1>4. call'[c] = k
    BY <1>1, <1>2 DEF ProviderTypeOK, k
  <1>5. CallerInv(c)'
    BY <1>1, <1>3, <1>4, GoingOn DEF Pending
  <1>6. call' = [call EXCEPT ![c] = k]
    BY <1>2 DEF k
  <1>7. LlmInv'
    BY <1>1, <1>3, <1>5, <1>6, OneCaller DEF ProviderTypeOK
  <1> QED
    BY <1>1, <1>7 DEF LedgerGrows

LEMMA SettledFacts ==
  ASSUME ProviderTypeOK, NEW c \in Callers, Settled(c)
  PROVE  \E k \in Call :
             /\ call' = [call EXCEPT ![c] = k]
             /\ k = call'[c]
             /\ k.at = "done" /\ k.nr = call[c].nr /\ k.first = call[c].first
             /\ k.result = Result(call[c].answer)
  <1> DEFINE k == Ended(call[c], Result(call[c].answer))
  <1>1. /\ k \in Call /\ k.at = "done" /\ k.nr = call[c].nr /\ k.first = call[c].first
        /\ k.result = Result(call[c].answer)
    BY CallerTypes, ResultType, EndedFacts
  <1>2. call' = [call EXCEPT ![c] = k]
    BY DEF Settled, ProviderTypeOK
  <1> HIDE DEF k
  <1>3. k = call'[c]
    BY <1>2 DEF ProviderTypeOK
  <1> QED
    BY <1>1, <1>2, <1>3

LEMMA RecordStep ==
  ASSUME LlmInv, NEW c \in Callers, Record(c)
  PROVE  LlmInv' /\ LedgerGrows
  <1> DEFINE row == Row(call[c])
  <1>1. /\ Recording(c) /\ Settled(c) /\ UNCHANGED <<settings, lost>>
        /\ ledger' = [ledger EXCEPT ![c] = Append(ledger[c], row)]
        /\ ProviderTypeOK /\ CallerInv(c)
    BY DEF Record, LlmInv, ProviderTypeOK
  <1>2. row \in LedgerRow /\ row.nr = call[c].nr
    BY <1>1, CallerTypes, ResultType DEF Row, LedgerRow, Call
  <1> HIDE DEF row
  <1>3. PICK k \in Call :
             /\ call' = [call EXCEPT ![c] = k]
             /\ k = call'[c]
             /\ k.at = "done" /\ k.nr = call[c].nr /\ k.first = call[c].first
    BY <1>1, SettledFacts
  <1>4. ledger[c] \in Seq(LedgerRow) /\ ledger'[c] = Append(ledger[c], row)
    BY <1>1 DEF ProviderTypeOK
  <1>5. Append(ledger[c], row) \in Seq(LedgerRow)
    BY <1>2, <1>4
  <1>6. ledger' \in [Callers -> Seq(LedgerRow)]
    BY <1>1, <1>5 DEF ProviderTypeOK
  <1>7. Pending(c) /\ ~Pending(c)'
    BY <1>1, <1>3 DEF Recording, Pending
  <1>8. CallerInv(c)'
    BY <1>1, <1>2, <1>3, <1>4, <1>7, CallerTypes, EndingWithRow
  <1>9. LlmInv'
    BY <1>1, <1>3, <1>6, <1>8, OneCaller DEF ProviderTypeOK
  <1>10. LedgerGrows
    <2>1. \A i \in DOMAIN ledger[c] : i \in DOMAIN ledger'[c] /\ ledger'[c][i] = ledger[c][i]
      BY <1>4
    <2>2. \A d \in Callers \ {c} : ledger'[d] = ledger[d]
      BY <1>1 DEF ProviderTypeOK
    <2> QED
      BY <1>1, <2>1, <2>2 DEF LedgerGrows
  <1> QED
    BY <1>9, <1>10

\* What LoseRow does to the books.
LEMMA LoseRowFacts ==
  ASSUME ProviderTypeOK, NEW c \in Callers, NEW why \in {"write", "blocks", "death"},
         LoseRow(c, why), ledger' = ledger
  PROVE  /\ lost'[c] = lost[c] \cup {[nr |-> call[c].nr, why |-> why]}
         /\ lost' \in [Callers -> SUBSET [nr : Nat, why : {"write", "blocks", "death"}]]
         /\ \A d \in Callers \ {c} : lost'[d] = lost[d]
         /\ LedgerGrows
  <1>1. lost' = [lost EXCEPT ![c] = lost[c] \cup {[nr |-> call[c].nr, why |-> why]}]
    BY DEF LoseRow, ProviderTypeOK
  <1>2. [nr |-> call[c].nr, why |-> why] \in [nr : Nat, why : {"write", "blocks", "death"}]
    BY CallerTypes
  <1>3. lost[c] \cup {[nr |-> call[c].nr, why |-> why]}
            \in SUBSET [nr : Nat, why : {"write", "blocks", "death"}]
    BY <1>2, CallerTypes
  <1>4. /\ lost'[c] = lost[c] \cup {[nr |-> call[c].nr, why |-> why]}
        /\ lost' \in [Callers -> SUBSET [nr : Nat, why : {"write", "blocks", "death"}]]
        /\ \A d \in Callers \ {c} : lost'[d] = lost[d]
    BY <1>1, <1>3 DEF ProviderTypeOK
  <1> QED
    BY <1>4 DEF LedgerGrows

LEMMA RecordFailsStep ==
  ASSUME LlmInv, NEW c \in Callers, RecordFails(c)
  PROVE  LlmInv' /\ LedgerGrows
  <1>1. /\ Recording(c) /\ Settled(c) /\ UNCHANGED <<settings, ledger>>
        /\ LoseRow(c, "write") /\ ProviderTypeOK /\ CallerInv(c)
    BY DEF RecordFails, LlmInv
  <1>2. /\ lost'[c] = lost[c] \cup {[nr |-> call[c].nr, why |-> "write"]}
        /\ lost' \in [Callers -> SUBSET [nr : Nat, why : {"write", "blocks", "death"}]]
        /\ \A d \in Callers \ {c} : lost'[d] = lost[d]
        /\ LedgerGrows
    BY <1>1, LoseRowFacts
  <1>3. PICK k \in Call :
             /\ call' = [call EXCEPT ![c] = k]
             /\ k = call'[c]
             /\ k.at = "done" /\ k.nr = call[c].nr /\ k.first = call[c].first
    BY <1>1, SettledFacts
  <1>4. Pending(c) /\ ~Pending(c)'
    BY <1>1, <1>3 DEF Recording, Pending
  <1>5. CallerInv(c)'
    BY <1>1, <1>2, <1>3, <1>4, CallerTypes, EndingWithoutRow
  <1>6. LlmInv'
    BY <1>1, <1>2, <1>3, <1>5, OneCaller DEF ProviderTypeOK
  <1> QED
    BY <1>2, <1>6

LEMMA UnreadableStep ==
  ASSUME LlmInv, NEW c \in Callers, Unreadable(c)
  PROVE  LlmInv' /\ LedgerGrows
  <1>1. /\ call[c].at = "heard" /\ UNCHANGED <<settings, ledger>>
        /\ LoseRow(c, "blocks") /\ ProviderTypeOK /\ CallerInv(c)
    BY DEF Unreadable, LlmInv
  <1>2. /\ lost'[c] = lost[c] \cup {[nr |-> call[c].nr, why |-> "blocks"]}
        /\ lost' \in [Callers -> SUBSET [nr : Nat, why : {"write", "blocks", "death"}]]
        /\ \A d \in Callers \ {c} : lost'[d] = lost[d]
        /\ LedgerGrows
    BY <1>1, LoseRowFacts
  <1> DEFINE k == IF call[c].mode = "schema" THEN Asked(call[c], "json")
                  ELSE Ended(call[c], "AttributeError")
  <1>3. /\ k \in Call /\ k.first = call[c].first
        /\ \/ k.at = "done" /\ k.nr = call[c].nr
           \/ /\ k.at = "asking" /\ k.nr = call[c].nr + 1 /\ k.mode = "json"
              /\ call[c].mode = "schema"
    <2>1. CASE call[c].mode = "schema"
      BY <1>1, <2>1, CallerTypes, AskedFacts
    <2>2. CASE call[c].mode # "schema"
      BY <1>1, <2>2, CallerTypes, EndedFacts DEF Outcome
    <2> QED
      BY <2>1, <2>2
  <1>4. call' = [call EXCEPT ![c] = k]
    BY <1>1 DEF Unreadable, ProviderTypeOK
  <1> HIDE DEF k
  <1>5. call'[c] = k
    BY <1>1, <1>4 DEF ProviderTypeOK
  <1>6. CallerInv(c)'
    <2>1. Pending(c) /\ (Pending(c)' <=> k.at = "asking" \/ k.at = "heard")
      BY <1>1, <1>5 DEF Pending
    <2>2. call[c].nr \in Nat /\ call[c].first \in Nat
      BY <1>1, CallerTypes
    <2> QED
      BY <1>1, <1>2, <1>3, <1>5, <2>1, <2>2, EndingWithoutRow
  <1>7. LlmInv'
    BY <1>1, <1>2, <1>3, <1>4, <1>6, OneCaller DEF ProviderTypeOK
  <1> QED
    BY <1>2, <1>7

LEMMA DieStep ==
  ASSUME LlmInv, NEW c \in Callers, Die(c)
  PROVE  LlmInv' /\ LedgerGrows
  <1>1. /\ Pending(c) /\ UNCHANGED <<settings, ledger>>
        /\ LoseRow(c, "death") /\ ProviderTypeOK /\ CallerInv(c)
    BY DEF Die, LlmInv, Pending
  <1>2. /\ lost'[c] = lost[c] \cup {[nr |-> call[c].nr, why |-> "death"]}
        /\ lost' \in [Callers -> SUBSET [nr : Nat, why : {"write", "blocks", "death"}]]
        /\ \A d \in Callers \ {c} : lost'[d] = lost[d]
        /\ LedgerGrows
    BY <1>1, LoseRowFacts
  <1> DEFINE k == [call[c] EXCEPT !.at = "idle"]
  <1>3. k \in Call /\ k.at = "idle" /\ k.nr = call[c].nr /\ k.first = call[c].first
    BY <1>1, CallerTypes DEF Call
  <1>4. call' = [call EXCEPT ![c] = k]
    BY <1>1 DEF Die, ProviderTypeOK
  <1> HIDE DEF k
  <1>5. call'[c] = k
    BY <1>1, <1>4 DEF ProviderTypeOK
  <1>6. ~Pending(c)'
    BY <1>3, <1>5 DEF Pending
  <1>7. CallerInv(c)'
    BY <1>1, <1>2, <1>3, <1>5, <1>6, CallerTypes, EndingWithoutRow
  <1>8. LlmInv'
    BY <1>1, <1>2, <1>3, <1>4, <1>7, OneCaller DEF ProviderTypeOK
  <1> QED
    BY <1>2, <1>8

LEMMA BeginFacts ==
  ASSUME ProviderTypeOK, NEW c \in Callers, NEW kind \in Kind, NEW b \in BookIds,
         Begin(c, kind, b)
  PROVE  \E k \in Call :
             /\ call' = [call EXCEPT ![c] = k]
             /\ k = call'[c]
             /\ k.first = call[c].nr + 1
             /\ \/ k.at \in {"asking", "heard"} /\ k.nr = call[c].nr + 1
                \/ k.at = "done" /\ k.nr = call[c].nr /\ kind = "structured"
             /\ kind # "structured" =>
                    \/ k.at = "asking" /\ k.mode = "plain"
                    \/ k.at = "heard" /\ k.answer \in {"value", "empty"}
  <1> DEFINE o == Opened(call[c], b)
  <1>1. /\ o \in Call /\ o.first = call[c].nr + 1 /\ o.nr = call[c].nr
    BY CallerTypes, OpenedFacts
  <1>2. /\ \/ /\ Backend = "fake"
              /\ call' = [call EXCEPT ![c] = Heard(Asked(o, "plain"), FakeAnswer(kind))]
           \/ /\ Backend # "fake" /\ kind \in {"text", "vision"}
              /\ call' = [call EXCEPT ![c] = Asked(o, "plain")]
           \/ /\ Backend # "fake" /\ kind = "structured" /\ BuildsChatModel
              /\ \E mode \in {"schema", "json"} : call' = [call EXCEPT ![c] = Asked(o, mode)]
           \/ /\ Backend # "fake" /\ kind = "structured" /\ ~BuildsChatModel
              /\ call' = [call EXCEPT ![c] = Ended(o, "LLMConfigError")]
    BY DEF Begin
  <1> HIDE DEF o
  <1>3. \A k \in Call : call' = [call EXCEPT ![c] = k] => k = call'[c]
    BY DEF ProviderTypeOK
  <1>4. CASE call' = [call EXCEPT ![c] = Heard(Asked(o, "plain"), FakeAnswer(kind))]
    <2> DEFINE q == Asked(o, "plain")
               k == Heard(q, FakeAnswer(kind))
    <2>1. q \in Call /\ q.nr = call[c].nr + 1 /\ q.first = call[c].nr + 1
      BY <1>1, AskedFacts
    <2>2. FakeAnswer(kind) \in {"value", "empty"} /\ FakeAnswer(kind) \in Heardable
      BY DEF FakeAnswer, Heardable
    <2>3. /\ k \in Call /\ k.at = "heard" /\ k.nr = call[c].nr + 1
          /\ k.first = call[c].nr + 1 /\ k.answer \in {"value", "empty"}
      BY <2>1, <2>2, HeardFacts
    <2>4. call' = [call EXCEPT ![c] = k]
      BY <1>4
    <2> HIDE DEF k
    <2>5. k = call'[c]
      BY <1>3, <2>3, <2>4
    <2> QED
      BY <2>3, <2>4, <2>5
  <1>5. CASE \E mode \in {"plain", "schema", "json"} :
                 /\ call' = [call EXCEPT ![c] = Asked(o, mode)]
                 /\ kind = "structured" \/ mode = "plain"
    <2>1. PICK mode \in {"plain", "schema", "json"} :
                   /\ call' = [call EXCEPT ![c] = Asked(o, mode)]
                   /\ kind = "structured" \/ mode = "plain"
      BY <1>5
    <2> DEFINE k == Asked(o, mode)
    <2>2. /\ k \in Call /\ k.at = "asking" /\ k.nr = call[c].nr + 1
          /\ k.first = call[c].nr + 1 /\ k.mode = mode
      BY <1>1, AskedFacts
    <2>3. call' = [call EXCEPT ![c] = k]
      BY <2>1
    <2> HIDE DEF k
    <2>4. k = call'[c]
      BY <1>3, <2>2, <2>3
    <2> QED
      BY <2>1, <2>2, <2>3, <2>4
  <1>6. CASE kind = "structured" /\ call' = [call EXCEPT ![c] = Ended(o, "LLMConfigError")]
    <2> DEFINE k == Ended(o, "LLMConfigError")
    <2>1. /\ k \in Call /\ k.at = "done" /\ k.nr = call[c].nr
          /\ k.first = call[c].nr + 1
      BY <1>1, EndedFacts DEF Outcome
    <2>2. call' = [call EXCEPT ![c] = k]
      BY <1>6
    <2> HIDE DEF k
    <2>3. k = call'[c]
      BY <1>3, <2>1, <2>2
    <2> QED
      BY <1>6, <2>1, <2>2, <2>3
  <1> QED
    BY <1>2, <1>4, <1>5, <1>6

LEMMA BeginStep ==
  ASSUME LlmInv, NEW c \in Callers, NEW kind \in Kind, NEW b \in BookIds, Begin(c, kind, b)
  PROVE  LlmInv' /\ LedgerGrows
  <1>1. /\ ~Pending(c) /\ UNCHANGED <<settings, ledger, lost>>
        /\ ProviderTypeOK /\ CallerInv(c)
    BY DEF Begin, LlmInv, Pending
  <1>2. PICK k \in Call :
             /\ call' = [call EXCEPT ![c] = k]
             /\ k = call'[c]
             /\ k.first = call[c].nr + 1
             /\ \/ k.at \in {"asking", "heard"} /\ k.nr = call[c].nr + 1
                \/ k.at = "done" /\ k.nr = call[c].nr
    BY <1>1, BeginFacts
  <1>3. Pending(c)' <=> k.at \in {"asking", "heard"}
    BY <1>2 DEF Pending
  <1>4. CallerInv(c)'
    BY <1>1, <1>2, <1>3, CallerTypes, Opening
  <1>5. LlmInv'
    BY <1>1, <1>2, <1>4, OneCaller DEF ProviderTypeOK
  <1> QED
    BY <1>1, <1>5 DEF LedgerGrows

LEMMA ForgetStep ==
  ASSUME LlmInv, NEW b, ForgetBook(b)
  PROVE  LlmInv' /\ LedgerGrows
  <1>1. ProviderTypeOK /\ UNCHANGED <<settings, call, lost>>
    BY DEF ForgetBook, LlmInv
  <1>2. ASSUME NEW c \in Callers
        PROVE  /\ CallerInv(c)' /\ ledger'[c] \in Seq(LedgerRow)
               /\ DOMAIN ledger'[c] = DOMAIN ledger[c]
               /\ \A i \in DOMAIN ledger[c] :
                      /\ ledger'[c][i].nr = ledger[c][i].nr
                      /\ ledger'[c][i].status \in {ledger[c][i].status, "deleted"}
    <2>1. ledger'[c] = [i \in DOMAIN ledger[c] |->
                          IF ledger[c][i].book = b THEN [ledger[c][i] EXCEPT !.status = "deleted"]
                          ELSE ledger[c][i]]
      BY DEF ForgetBook
    <2>2. ledger[c] \in Seq(LedgerRow)
      BY <1>1, CallerTypes
    <2>3. CallerInv(c)' /\ ledger'[c] \in Seq(LedgerRow)
      BY <1>1, <2>1, <2>2, Forgetting DEF LlmInv
    <2>4. ASSUME NEW row \in LedgerRow
          PROVE  /\ [row EXCEPT !.status = "deleted"].nr = row.nr
                 /\ [row EXCEPT !.status = "deleted"].status = "deleted"
      BY DEF LedgerRow
    <2>5. \A i \in DOMAIN ledger[c] : ledger[c][i] \in LedgerRow
      BY <2>2
    <2> QED
      BY <2>1, <2>3, <2>4, <2>5
  <1>3. ledger' \in [Callers -> Seq(LedgerRow)]
    BY <1>2 DEF ForgetBook
  <1>4. ProviderTypeOK'
    BY <1>1, <1>3 DEF ProviderTypeOK
  <1> QED
    BY <1>1, <1>2, <1>4 DEF LlmInv, LedgerGrows

LEMMA LlmUnchanged ==
  ASSUME LlmInv, UNCHANGED llmVars
  PROVE  LlmInv' /\ LedgerGrows
  <1>1. UNCHANGED <<settings, call, ledger, lost>>
    BY DEF llmVars
  <1>2. \A c \in Callers : CallerInv(c)'
    BY <1>1, Elsewhere DEF LlmInv
  <1>3. ProviderTypeOK'
    BY <1>1 DEF LlmInv, ProviderTypeOK
  <1> QED
    BY <1>1, <1>2, <1>3 DEF LlmInv, LedgerGrows

LEMMA LlmInit ==
  ASSUME ProviderInit
  PROVE  LlmInv
  <1>1. NoCall \in Call
    <2>1. (CHOOSE b \in BookIds : TRUE) \in BookIds
      BY BookIdsAssumption
    <2> QED
      BY <2>1 DEF NoCall, Call, Outcome
  <1>2. \A c \in Callers : call[c] = NoCall /\ ledger[c] = <<>> /\ lost[c] = {}
    BY DEF ProviderInit
  <1>3. ProviderTypeOK
    BY <1>1, SettingsAssumption DEF ProviderInit, ProviderTypeOK
  <1>4. \A c \in Callers : call[c].nr = 0 /\ call[c].first = 0 /\ ~Pending(c)
    <2>1. NoCall.nr = 0 /\ NoCall.first = 0 /\ NoCall.at = "idle"
      BY DEF NoCall
    <2> QED
      BY <1>2, <2>1 DEF Pending
  <1>5. \A c \in Callers : CallerInv(c)
    BY <1>2, <1>4 DEF CallerInv, LedgerInv, AskInv
  <1> QED
    BY <1>3, <1>5 DEF LlmInv

LEMMA LlmInvGives ==
  ASSUME LlmInv
  PROVE  OneRowPerInvocation /\ SecondAskOnlyUnread
  <1>1. SecondAskOnlyUnread
    BY DEF LlmInv, CallerInv, AskInv, SecondAskOnlyUnread
  <1>2. ASSUME NEW c \in Callers, NEW n \in 1..call[c].nr
        PROVE  Cardinality(RowsOf(c, n)) =
                   (IF Lost(c, n) \/ (n = call[c].nr /\ Pending(c)) THEN 0 ELSE 1)
    <2>1. Accounted(c, n)
      BY DEF LlmInv, CallerInv, LedgerInv
    <2>2. CASE Lost(c, n) \/ (n = call[c].nr /\ Pending(c))
      BY <2>1, <2>2, FS_EmptySet DEF Accounted
    <2>3. CASE ~(Lost(c, n) \/ (n = call[c].nr /\ Pending(c)))
      <3>1. PICK i \in DOMAIN ledger[c] : RowsOf(c, n) = {i}
        BY <2>1, <2>3 DEF Accounted
      <3> QED
        BY <2>3, <3>1, FS_Singleton
    <2> QED
      BY <2>2, <2>3
  <1> QED
    BY <1>1, <1>2 DEF OneRowPerInvocation

-----------------------------------------------------------------------------
(* Extractor *)

\* An invocation of the extraction is on record as failed.
OnRecord(n) ==
    \/ Lost(Ocr, n)
    \/ \E j \in RowsOf(Ocr, n) : ledger[Ocr][j].status \in {"error", "deleted"}

\* A page under way is one of the document's.
PageUnderWay == ex.at \in {"ocr", "vision", "asked"} => Len(ex.results) < Len(Pages)

\* What the vision call of the page under way can have come to.
VisionCall ==
    ex.at = "asked" =>
        /\ call[Ocr].at = "asking" => call[Ocr].mode = "plain"
        /\ call[Ocr].at = "heard" => call[Ocr].answer \in {"value", "empty"} \cup Failure
        /\ call[Ocr].at = "done" =>
               call[Ocr].result \in {"value", "empty"} \/ OnRecord(call[Ocr].nr)

PageInv == ExtractorTypeOK /\ PageUnderWay /\ VisionCall /\ DroppedPagesAreOnRecord

\* What is on record stays on record.
LEMMA StaysOnRecord ==
  ASSUME LedgerGrows, NEW n, OnRecord(n)
  PROVE  OnRecord(n)'
  <1>1. CASE Lost(Ocr, n)
    BY <1>1, OcrAssumption DEF LedgerGrows, Lost, OnRecord
  <1>2. CASE \E j \in RowsOf(Ocr, n) : ledger[Ocr][j].status \in {"error", "deleted"}
    BY <1>2, OcrAssumption DEF LedgerGrows, RowsOf, OnRecord
  <1> QED
    BY <1>1, <1>2 DEF OnRecord

LEMMA DroppedStays ==
  ASSUME LedgerGrows, DroppedPagesAreOnRecord, ex'.results = ex.results
  PROVE  DroppedPagesAreOnRecord'
  <1> SUFFICES ASSUME NEW i \in DOMAIN ex.results, ex.results[i].rung = "vision",
                      ex.results[i].heard \notin {"value", "empty"}
               PROVE  OnRecord(ex.results[i].nr)'
    BY DEF DroppedPagesAreOnRecord, OnRecord
  <1> QED
    BY StaysOnRecord DEF DroppedPagesAreOnRecord, OnRecord

\* The extraction does not move and its caller's call is not touched.
LEMMA ExtractionRests ==
  ASSUME PageInv, LedgerGrows, ex' = ex, call'[Ocr] = call[Ocr]
  PROVE  PageInv'
  <1>1. ExtractorTypeOK' /\ PageUnderWay'
    BY DEF PageInv, ExtractorTypeOK, PageUnderWay
  <1>2. VisionCall'
    BY StaysOnRecord DEF PageInv, VisionCall
  <1>3. DroppedPagesAreOnRecord'
    BY DroppedStays DEF PageInv
  <1> QED
    BY <1>1, <1>2, <1>3 DEF PageInv

\* A step that leaves the page under way without a result.
LEMMA PageMoves ==
  ASSUME PageInv, LedgerGrows, NEW at \in {"idle", "page", "ocr", "vision", "done"},
         ex' = [ex EXCEPT !.at = at],
         at \in {"ocr", "vision"} => Len(ex.results) < Len(Pages)
  PROVE  PageInv'
  <1>1. ex \in Extraction /\ Len(ex.results) <= Len(Pages)
    BY DEF PageInv, ExtractorTypeOK
  <1>2. ex' \in Extraction /\ ex'.at = at /\ ex'.results = ex.results
    BY <1>1 DEF Extraction
  <1>3. ExtractorTypeOK' /\ PageUnderWay' /\ VisionCall'
    BY <1>1, <1>2 DEF ExtractorTypeOK, PageUnderWay, VisionCall
  <1>4. DroppedPagesAreOnRecord'
    BY <1>2, DroppedStays DEF PageInv
  <1> QED
    BY <1>3, <1>4 DEF PageInv

\* A page gets its result.
LEMMA PageAdded ==
  ASSUME PageInv, LedgerGrows, Len(ex.results) < Len(Pages),
         NEW rung \in {"layer", "easyocr", "vision", "skipped", "error"},
         NEW text \in BOOLEAN, NEW error \in BOOLEAN, NEW nr \in Nat, NEW heard \in Outcome,
         AddPage(rung, text, error, nr, heard),
         rung = "vision" => heard \in {"value", "empty"} \/ OnRecord(nr)
  PROVE  PageInv'
  <1> DEFINE p == [rung |-> rung, text |-> text, error |-> error, nr |-> nr, heard |-> heard]
             results == Append(ex.results, p)
  <1>1. p \in PageResult
    BY DEF PageResult
  <1>2. ex \in Extraction /\ ex.results \in Seq(PageResult) /\ Len(Pages) \in Nat
    BY PagesAssumption DEF PageInv, ExtractorTypeOK, Extraction
  <1>3. p.rung = rung /\ p.nr = nr /\ p.heard = heard
    OBVIOUS
  <1>4. ex' = [ex EXCEPT !.at = "page", !.results = results]
    BY <1>2 DEF AddPage, Extraction
  <1> HIDE DEF p
  <1>5. /\ results \in Seq(PageResult) /\ Len(results) = Len(ex.results) + 1
        /\ \A i \in DOMAIN results : i = Len(ex.results) + 1 \/ i \in DOMAIN ex.results
        /\ \A i \in DOMAIN ex.results : results[i] = ex.results[i]
        /\ results[Len(ex.results) + 1] = p
    BY <1>1, <1>2
  <1> HIDE DEF results
  <1>6. ex' \in Extraction
    BY <1>2, <1>4, <1>5, Zenon DEF Extraction
  <1>7. ex'.at = "page" /\ ex'.results = results
    BY <1>2, <1>4 DEF Extraction
  <1>8. ExtractorTypeOK' /\ PageUnderWay' /\ VisionCall'
    BY <1>2, <1>5, <1>6, <1>7 DEF ExtractorTypeOK, PageUnderWay, VisionCall
  <1>9. DroppedPagesAreOnRecord'
    <2> SUFFICES ASSUME NEW i \in DOMAIN results, NEW n, n = results[i].nr,
                        results[i].rung = "vision",
                        results[i].heard \notin {"value", "empty"}
                 PROVE  OnRecord(n)'
      BY <1>7 DEF DroppedPagesAreOnRecord, OnRecord
    <2>1. OnRecord(n)
      <3>1. CASE i \in DOMAIN ex.results
        BY <1>5, <3>1 DEF PageInv, DroppedPagesAreOnRecord, OnRecord
      <3>2. CASE i = Len(ex.results) + 1
        BY <1>3, <1>5, <3>2
      <3> QED
        BY <1>5, <3>1, <3>2
    <2> QED
      BY <2>1, StaysOnRecord
  <1> QED
    BY <1>8, <1>9 DEF PageInv

LEMMA PageAddedUnasked ==
  ASSUME PageInv, LedgerGrows, Len(ex.results) < Len(Pages),
         NEW rung \in {"layer", "easyocr", "skipped", "error"},
         NEW text \in BOOLEAN, NEW error \in BOOLEAN, NoCallOf(rung, text, error)
  PROVE  PageInv'
  <1>1. 0 \in Nat /\ "none" \in Outcome
    BY DEF Outcome
  <1>2. AddPage(rung, text, error, 0, "none")
    BY DEF NoCallOf
  <1>3. rung \in {"layer", "easyocr", "vision", "skipped", "error"} /\ rung # "vision"
    OBVIOUS
  <1> QED
    BY <1>1, <1>2, <1>3, PageAdded

LEMMA LocalPageStep ==
  ASSUME LlmInv, PageInv, LocalStep
  PROVE  PageInv'
  <1>1. LedgerGrows
    BY LlmUnchanged DEF LocalStep
  <1>2. Len(ex.results) \in Nat /\ Len(Pages) \in Nat
    BY PagesAssumption DEF PageInv, ExtractorTypeOK, Extraction
  <1>3. CASE ReadPage
    <2>1. Len(ex.results) < Len(Pages)
      BY <1>2, <1>3 DEF ReadPage, Page
    <2>2. CASE NoCallOf("layer", TRUE, FALSE)
      BY <1>1, <2>1, <2>2, PageAddedUnasked
    <2>3. CASE NoCallOf("error", FALSE, TRUE)
      BY <1>1, <2>1, <2>3, PageAddedUnasked
    <2>4. CASE ex' = [ex EXCEPT !.at = "ocr"]
      BY <1>1, <2>1, <2>4, PageMoves
    <2> QED
      BY <1>3, <2>2, <2>3, <2>4 DEF ReadPage
  <1>4. CASE EasyOcr
    <2>1. Len(ex.results) < Len(Pages)
      BY <1>4 DEF EasyOcr, PageInv, PageUnderWay
    <2>2. CASE \E sure \in BOOLEAN : NoCallOf("easyocr", sure, FALSE)
      BY <1>1, <2>1, <2>2, PageAddedUnasked
    <2>3. CASE ex' = [ex EXCEPT !.at = "vision"]
      BY <1>1, <2>1, <2>3, PageMoves
    <2> QED
      BY <1>4, <2>2, <2>3 DEF EasyOcr
  <1>5. CASE SkipPage
    <2>1. Len(ex.results) < Len(Pages)
      BY <1>5 DEF SkipPage, PageInv, PageUnderWay
    <2> QED
      BY <1>1, <1>5, <2>1, PageAddedUnasked DEF SkipPage
  <1>6. CASE RenderFails
    <2>1. Len(ex.results) < Len(Pages)
      BY <1>6 DEF RenderFails, PageInv, PageUnderWay
    <2> QED
      BY <1>1, <1>6, <2>1, PageAddedUnasked DEF RenderFails
  <1>7. CASE HearVision
    <2>1. Len(ex.results) < Len(Pages)
      BY <1>7 DEF HearVision, PageInv, PageUnderWay
    <2>2. call[Ocr].nr \in Nat /\ call[Ocr].result \in Outcome
      BY OcrAssumption DEF LlmInv, ProviderTypeOK, Call
    <2>3. call[Ocr].result \in {"value", "empty"} \/ OnRecord(call[Ocr].nr)
      BY <1>7 DEF HearVision, PageInv, VisionCall
    <2>4. (call[Ocr].result = "value") \in BOOLEAN
      OBVIOUS
    <2> QED
      BY <1>1, <1>7, <2>1, <2>2, <2>3, <2>4, PageAdded DEF HearVision
  <1>8. CASE FinishDocument
    BY <1>1, <1>8, PageMoves DEF FinishDocument
  <1> QED
    BY <1>3, <1>4, <1>5, <1>6, <1>7, <1>8 DEF LocalStep

LEMMA AskVisionStep ==
  ASSUME LlmInv, PageInv, AskVision
  PROVE  LlmInv' /\ LedgerGrows /\ PageInv'
  <1>1. ex.book \in BookIds /\ ex \in Extraction
    BY DEF PageInv, ExtractorTypeOK, Extraction
  <1>2. LlmInv' /\ LedgerGrows
    BY <1>1, OcrAssumption, BeginStep DEF AskVision, Kind
  <1>3. PICK k \in Call :
             /\ k = call'[Ocr]
             /\ \/ k.at = "asking" /\ k.mode = "plain"
                \/ k.at = "heard" /\ k.answer \in {"value", "empty"}
    BY <1>1, OcrAssumption, BeginFacts DEF AskVision, Kind, LlmInv
  <1>4. ex' \in Extraction /\ ex'.at = "asked" /\ ex'.results = ex.results
    BY <1>1 DEF AskVision, Extraction
  <1>5. ExtractorTypeOK' /\ PageUnderWay'
    BY <1>4 DEF AskVision, PageInv, ExtractorTypeOK, PageUnderWay
  <1>6. VisionCall'
    BY <1>3 DEF VisionCall
  <1>7. DroppedPagesAreOnRecord'
    BY <1>2, <1>4, DroppedStays DEF PageInv
  <1> QED
    BY <1>2, <1>5, <1>6, <1>7 DEF PageInv

LEMMA AbortStep ==
  ASSUME LlmInv, PageInv, Abort
  PROVE  LlmInv' /\ LedgerGrows /\ PageInv'
  <1>1. LlmInv' /\ LedgerGrows
    BY OcrAssumption, DieStep, LlmUnchanged DEF Abort
  <1> QED
    BY <1>1, PageMoves DEF Abort

-----------------------------------------------------------------------------
(* Ingest *)

\* A step of one caller of the LLM layer, seen from the extraction.
LEMMA LlmPageStep ==
  ASSUME LlmInv, PageInv, NEW c \in Callers, LlmStep(c)
  PROVE  LlmInv' /\ LedgerGrows /\ PageInv'
  <1>1. LlmInv' /\ LedgerGrows
    BY RequestStep, RecordFailsStep, UnreadableStep, RecordStep DEF LlmStep
  <1>2. ex' = ex /\ ProviderTypeOK
    BY DEF LlmStep, LlmInv
  <1>3. CASE c # Ocr
    <2>1. call'[Ocr] = call[Ocr]
      BY <1>2, <1>3, OcrAssumption
         DEF LlmStep, Request, RecordFails, Unreadable, Record, Settled, ProviderTypeOK
    <2> QED
      BY <1>1, <1>2, <2>1, ExtractionRests
  <1>4. CASE c = Ocr /\ ex.at = "asked"
    <2>1. VisionCall'
      <3>1. CASE Request(Ocr)
        <4>1. call[Ocr].at = "asking" /\ call[Ocr].mode = "plain"
          BY <1>4, <3>1 DEF Request, PageInv, VisionCall
        <4>2. PICK a \in Answers("plain") : call' = [call EXCEPT ![Ocr] = Tried(call[Ocr], a)]
          BY <1>2, <3>1, <4>1, OcrAssumption DEF Request, ProviderTypeOK
        <4>3. call'[Ocr] = Tried(call[Ocr], a)
          BY <1>2, <4>2, OcrAssumption DEF ProviderTypeOK
        <4>4. /\ call'[Ocr].at \in {"asking", "heard"} /\ call'[Ocr].mode = "plain"
              /\ call'[Ocr].answer = a
          BY <1>2, <4>1, <4>3, OcrAssumption, CallerTypes, AnswersAreHeardable, TriedFacts
        <4>5. a \in {"value", "empty"} \cup Failure
          BY AnswersAreHeardable
        <4> QED
          BY <4>4, <4>5 DEF VisionCall
      <3>2. CASE Unreadable(Ocr)
        BY <1>4, <3>2 DEF Unreadable, PageInv, VisionCall, Failure
      <3>3. CASE Record(Ocr) \/ RecordFails(Ocr)
        <4>1. Settled(Ocr) /\ call[Ocr].at = "heard"
          BY <3>3 DEF Record, RecordFails, Recording
        <4>2. /\ call'[Ocr].at = "done" /\ call'[Ocr].nr = call[Ocr].nr
              /\ call'[Ocr].result = Result(call[Ocr].answer)
          BY <1>2, <4>1, OcrAssumption, SettledFacts
        <4>3. CASE call[Ocr].answer \in {"value", "empty"}
          <5>1. call'[Ocr].result \in {"value", "empty"}
            BY <4>2, <4>3 DEF Result, Failure
          <5> QED
            BY <4>2, <5>1 DEF VisionCall
        <4>4. CASE call[Ocr].answer \in Failure
          <5> DEFINE nr == call[Ocr].nr
          <5>1. nr = call'[Ocr].nr
            BY <4>2
          <5>2. CASE RecordFails(Ocr)
            <6>1. [nr |-> call[Ocr].nr, why |-> "write"] \in lost'[Ocr]
              BY <1>2, <5>2, OcrAssumption DEF RecordFails, LoseRow, ProviderTypeOK
            <6>2. Lost(Ocr, call[Ocr].nr)'
              BY <4>2, <6>1 DEF Lost
            <6>3. OnRecord(call[Ocr].nr)'
              BY <6>2 DEF OnRecord
            <6> QED
              BY <4>2, <6>3 DEF VisionCall
          <5>3. CASE Record(Ocr)
            <6> DEFINE row == Row(call[Ocr])
                       last == Len(ledger[Ocr]) + 1
            <6>1. row.nr = call[Ocr].nr /\ row.status = "error"
              BY <4>4 DEF Row, Status, Failure
            <6>2. ledger'[Ocr] = Append(ledger[Ocr], row) /\ ledger[Ocr] \in Seq(LedgerRow)
              BY <1>2, <5>3, OcrAssumption DEF Record, ProviderTypeOK
            <6> HIDE DEF row
            <6>3. last \in DOMAIN ledger'[Ocr] /\ ledger'[Ocr][last] = row
              BY <6>2
            <6> HIDE DEF last
            <6>4. last \in RowsOf(Ocr, call[Ocr].nr)'
              BY <4>2, <6>1, <6>3 DEF RowsOf
            <6>5. OnRecord(call[Ocr].nr)'
              BY <6>1, <6>3, <6>4 DEF OnRecord
            <6> QED
              BY <4>2, <6>5 DEF VisionCall
          <5> QED
            BY <3>3, <5>2, <5>3
        <4> QED
          BY <1>4, <4>1, <4>3, <4>4 DEF PageInv, VisionCall
      <3> QED
        BY <1>4, <3>1, <3>2, <3>3 DEF LlmStep
    <2>2. ExtractorTypeOK' /\ PageUnderWay'
      BY <1>2 DEF PageInv, ExtractorTypeOK, PageUnderWay
    <2>3. DroppedPagesAreOnRecord'
      BY <1>1, <1>2, DroppedStays DEF PageInv
    <2> QED
      BY <1>1, <2>1, <2>2, <2>3 DEF PageInv
  <1>5. CASE ex.at # "asked"
    <2>1. ExtractorTypeOK' /\ PageUnderWay' /\ VisionCall'
      BY <1>2, <1>5 DEF PageInv, ExtractorTypeOK, PageUnderWay, VisionCall
    <2>2. DroppedPagesAreOnRecord'
      BY <1>1, <1>2, DroppedStays DEF PageInv
    <2> QED
      BY <1>1, <2>1, <2>2 DEF PageInv
  <1> QED
    BY <1>3, <1>4, <1>5

LEMMA ExtractStep ==
  ASSUME LlmInv, PageInv, NEW b \in Books, Extract(b)
  PROVE  LlmInv' /\ LedgerGrows /\ PageInv'
  <1>1. LlmInv' /\ LedgerGrows
    BY LlmUnchanged DEF Extract
  <1>2. PICK at \in {"page", "failed"} :
            ex' = [at |-> at, book |-> b, runs |-> ex.runs + 1, results |-> <<>>]
    BY DEF Extract, OpenDocument, OpenFails
  <1>3. ex' \in Extraction /\ ex'.at \in {"page", "failed"} /\ ex'.results = <<>>
    BY <1>2, SameBooks DEF PageInv, ExtractorTypeOK, Extraction
  <1>4. Len(Pages) \in Nat
    BY PagesAssumption
  <1>5. ExtractorTypeOK' /\ PageUnderWay' /\ VisionCall'
    BY <1>3, <1>4 DEF ExtractorTypeOK, PageUnderWay, VisionCall
  <1>6. DroppedPagesAreOnRecord'
    BY <1>3 DEF DroppedPagesAreOnRecord
  <1> QED
    BY <1>1, <1>5, <1>6 DEF PageInv

IngestInv == UploadsInv /\ LlmInv /\ PageInv

LEMMA IngestInitInv == IngestInit => IngestInv
  <1> SUFFICES ASSUME IngestInit
               PROVE  IngestInv
    OBVIOUS
  <1>1. UploadsInv
    BY UploadsInitInv, ShelvedInv DEF IngestInit
  <1>2. LlmInv
    BY LlmInit DEF IngestInit
  <1>3. PageInv
    <2>1. ex = [at |-> "idle", book |-> CHOOSE b \in BookIds : TRUE, runs |-> 0,
                results |-> <<>>]
      BY DEF IngestInit, ExtractorInit
    <2>2. (CHOOSE b \in BookIds : TRUE) \in BookIds
      BY BookIdsAssumption
    <2>3. ex \in Extraction /\ ex.at = "idle" /\ ex.results = <<>>
      BY <2>1, <2>2 DEF Extraction
    <2>4. Len(Pages) \in Nat
      BY PagesAssumption
    <2> QED
      BY <2>3, <2>4 DEF PageInv, ExtractorTypeOK, PageUnderWay, VisionCall,
                        DroppedPagesAreOnRecord
  <1> QED
    BY <1>1, <1>2, <1>3 DEF IngestInv

LEMMA IngestNextInv ==
  ASSUME IngestInv, [IngestNext]_ingestVars
  PROVE  IngestInv' /\ LedgerGrows
  <1>0. UploadsInv /\ LlmInv /\ PageInv
    BY DEF IngestInv
  <1>1. UploadsInv'
    <2>1. [UploadsNext]_uploadVars
      BY DEF IngestNext, ingestVars, Shelf, Extract, LlmStep, TaskCalls, Worker, UploadsNext
    <2> QED
      BY <1>0, <2>1, UploadsNextInv
  <1>2. LlmInv' /\ LedgerGrows /\ PageInv'
    <2>1. ASSUME NEW b \in Books, Shelf(b)
          PROVE  LlmInv' /\ LedgerGrows /\ PageInv'
      <3>1. LlmInv' /\ LedgerGrows
        BY <1>0, <2>1, ForgetStep, LlmUnchanged DEF Shelf
      <3>2. call' = call /\ ex' = ex
        BY <2>1 DEF Shelf, ForgetBook, llmVars
      <3> QED
        BY <1>0, <3>1, <3>2, ExtractionRests
    <2>2. ASSUME NEW b \in Books, Extract(b)
          PROVE  LlmInv' /\ LedgerGrows /\ PageInv'
      BY <1>0, <2>2, ExtractStep
    <2>3. ASSUME NEW c \in Callers, LlmStep(c)
          PROVE  LlmInv' /\ LedgerGrows /\ PageInv'
      BY <1>0, <2>3, LlmPageStep
    <2>4. ASSUME NEW c \in Tasks, TaskCalls(c)
          PROVE  LlmInv' /\ LedgerGrows /\ PageInv'
      <3>1. c \in Callers /\ c # Ocr
        BY <2>4 DEF Tasks
      <3>2. Rows \subseteq BookIds /\ {"text", "structured"} \subseteq Kind
        BY SameBooks DEF Rows, Kind
      <3>3. LlmInv' /\ LedgerGrows
        BY <1>0, <2>4, <3>1, <3>2, BeginStep, DieStep DEF TaskCalls
      <3>4. call'[Ocr] = call[Ocr] /\ ex' = ex
        BY <1>0, <2>4, <3>1, OcrAssumption
           DEF TaskCalls, Begin, Die, LlmInv, ProviderTypeOK
      <3> QED
        BY <1>0, <3>3, <3>4, ExtractionRests
    <2>5. CASE Worker
      <3>1. CASE LocalStep
        BY <1>0, <3>1, LocalPageStep, LlmUnchanged DEF LocalStep
      <3>2. CASE AskVision
        BY <1>0, <3>2, AskVisionStep
      <3>3. CASE Abort
        BY <1>0, <3>3, AbortStep
      <3> QED
        BY <2>5, <3>1, <3>2, <3>3 DEF Worker, ExtractorStep
    <2>6. CASE UNCHANGED ingestVars
      <3>1. UNCHANGED llmVars /\ call' = call /\ ex' = ex
        BY <2>6 DEF ingestVars, llmVars
      <3> QED
        BY <1>0, <3>1, LlmUnchanged, ExtractionRests
    <2> QED
      BY <2>1, <2>2, <2>3, <2>4, <2>5, <2>6 DEF IngestNext
  <1> QED
    BY <1>1, <1>2 DEF IngestInv

LEMMA IngestInvariant == IngestSpec => []IngestInv
  BY IngestInitInv, IngestNextInv, PTL DEF IngestSpec

-----------------------------------------------------------------------------
(* Theorems *)

\* Whatever uploads, deletions, extractions and calls interleave, with their
\* failures, deaths and retries, everything keeps its type; a file is being
\* written only by the upload that holds its name, and an extraction has no
\* more results than the document has pages.
THEOREM IngestTypes == IngestSpec => []TypeOK
  <1>1. IngestInv => TypeOK
    BY DEF IngestInv, UploadsInv, LlmInv, PageInv, TypeOK
  <1> QED
    BY IngestInvariant, <1>1, PTL

\* A book nobody deletes keeps its PDF, unless its upload overlapped the gap
\* of delete_book between the count and the unlink.
THEOREM BooksKeepTheirFile == IngestSpec => []FileKept
  <1>1. IngestInv => FileKept
    BY UploadsInvGives DEF IngestInv
  <1> QED
    BY IngestInvariant, <1>1, PTL

\* The last book of a PDF takes the file with it, unless an upload of it
\* failed, two deletions crossed, or it was stored under two names.
THEOREM LastDeletionCleans == IngestSpec => []FilesCleaned
  <1>1. IngestInv => FilesCleaned
    BY UploadsInvGives DEF IngestInv
  <1> QED
    BY IngestInvariant, <1>1, PTL

\* The same of the upload directory alone, whatever else the program does.
THEOREM UploadsAlone == UploadsSpec => [](UploadsTypeOK /\ FileKept /\ FilesCleaned)
  <1>1. UploadsInv => UploadsTypeOK /\ FileKept /\ FilesCleaned
    BY UploadsInvGives DEF UploadsInv
  <1> QED
    BY UploadsInitInv, UploadsNextInv, <1>1, PTL DEF UploadsSpec

\* The ledger has one row of every invocation that is over, never two, or a
\* known reason why it has none: for any number of callers and calls, any
\* retry budget and every provider configuration.
THEOREM LedgerAccountsForAll == IngestSpec => []OneRowPerInvocation
  <1>1. IngestInv => OneRowPerInvocation
    BY LlmInvGives DEF IngestInv
  <1> QED
    BY IngestInvariant, <1>1, PTL

\* A call pays the model a second time only after an answer of blocks.
THEOREM ParseFailuresAreNotAskedAgain == IngestSpec => []SecondAskOnlyUnread
  <1>1. IngestInv => SecondAskOnlyUnread
    BY LlmInvGives DEF IngestInv
  <1> QED
    BY IngestInvariant, <1>1, PTL

\* A page whose text was lost to a failed vision call has its failure in the
\* ledger, unless that row could not be written or went with the book.
THEOREM DroppedPagesLeaveATrace == IngestSpec => []DroppedPagesAreOnRecord
  <1>1. IngestInv => DroppedPagesAreOnRecord
    BY DEF IngestInv, PageInv
  <1> QED
    BY IngestInvariant, <1>1, PTL

\* The ledger is append-only: no step of the LLM layer, of an extraction or
\* of a request rewrites a row or takes back a loss, except that the rows of
\* a deleted book are deleted.
THEOREM LedgerIsAppendOnly == IngestSpec => [][LedgerGrows]_ingestVars
  <1>1. IngestInv /\ [IngestNext]_ingestVars => [LedgerGrows]_ingestVars
    BY IngestNextInv
  <1> QED
    BY IngestInvariant, <1>1, PTL DEF IngestSpec

-----------------------------------------------------------------------------
(* Calls and extractions are short *)

\* The requests of one invocation: also the last is made when no retry is configured.
Tries == IF MaxRetries = 0 THEN 1 ELSE MaxRetries

\* A ranking of what a call still has before it: its requests, its row, and once more
\* both when a model bound to the schema may yet answer in blocks.
CallSteps(k) ==
    CASE k.at = "asking" -> 1 + (Tries - k.tries) + (IF k.mode = "schema" THEN Tries + 1 ELSE 0)
      [] k.at = "heard" ->
             1 + (IF k.mode = "schema" /\ k.answer = "blocks" THEN Tries + 1 ELSE 0)
      [] OTHER -> 0

CallStep(c) == Request(c) \/ Record(c) \/ RecordFails(c) \/ Unreadable(c) \/ Die(c)

\* What an extraction still has before it: four steps a page, and the end.
PageSteps ==
    LET pages == Len(Pages) - Len(ex.results) IN
    CASE ex.at = "page" -> 4 * pages + 1
      [] ex.at = "ocr" -> 4 * pages
      [] ex.at = "vision" -> 4 * pages - 1
      [] ex.at = "asked" -> 4 * pages - 2
      [] OTHER -> 0

TriesRemain == \A c \in Callers : call[c].at = "asking" => call[c].tries < Tries

RanksBounded ==
    /\ \A c \in Callers : /\ CallSteps(call[c]) \in 0 .. 2 * Tries + 2
                          /\ CallSteps(call[c]) = 0 <=> ~Pending(c)
    /\ PageSteps \in 0 .. 4 * Len(Pages) + 1
    /\ PageSteps = 0 <=> ~Busy

StepsCount ==
    /\ \A c \in Callers : CallStep(c) => CallSteps(call'[c]) < CallSteps(call[c])
    /\ ExtractorStep \/ Abort => PageSteps' < PageSteps

NothingSetBack ==
    /\ \A c \in Callers : Pending(c) => CallSteps(call'[c]) <= CallSteps(call[c])
    /\ Busy => PageSteps' <= PageSteps

LEMMA TriesType == Tries \in Nat /\ Tries >= 1 /\ (MaxRetries # 0 => Tries = MaxRetries)
  BY RetriesAssumption DEF Tries

LEMMA CallRank ==
  ASSUME NEW k \in Call, k.at = "asking" => k.tries < Tries
  PROVE  /\ CallSteps(k) \in 0 .. 2 * Tries + 2
         /\ CallSteps(k) = 0 <=> k.at \notin {"asking", "heard"}
         /\ k.at = "asking" => CallSteps(k) >= 2 + (IF k.mode = "schema" THEN Tries + 1 ELSE 0)
  <1>1. k.tries \in Nat
    BY DEF Call
  <1>2. CASE k.at = "asking"
    BY <1>1, <1>2, TriesType DEF CallSteps
  <1>3. CASE k.at = "heard"
    BY <1>3, TriesType DEF CallSteps
  <1>4. CASE k.at \notin {"asking", "heard"}
    BY <1>4, TriesType DEF CallSteps
  <1> QED
    BY <1>2, <1>3, <1>4

\* A request that is tried again is one less to make, and the last one is not.
LEMMA TriedRank ==
  ASSUME NEW k \in Call, NEW a \in Heardable, k.at = "asking", k.tries < Tries,
         NEW t, t = Tried(k, a)
  PROVE  /\ t.at = "asking" => t.tries < Tries
         /\ CallSteps(t) < CallSteps(k)
  <1> DEFINE h == Heard(k, a)
             at == IF Retryable(a) /\ ~LastTry(k) THEN "asking" ELSE "heard"
  <1>1. h \in Call /\ h.tries = k.tries
    BY HeardFacts DEF Heard, Call
  <1>2. t = [h EXCEPT !.tries = @ + 1, !.at = at]
    BY DEF Tried
  <1> HIDE DEF h, at
  <1>3. t.tries = k.tries + 1 /\ t.at = at
    BY <1>1, <1>2 DEF Call
  <1>4. t \in Call /\ t.mode = k.mode
    BY TriedFacts
  <1>5. k.tries \in Nat
    BY DEF Call
  <1>6. CASE Retryable(a) /\ ~LastTry(k)
    <2>1. t.at = "asking" /\ t.tries < Tries
      BY <1>3, <1>5, <1>6, TriesType, RetriesAssumption DEF LastTry, at
    <2>2. CASE k.mode = "schema"
      BY <1>3, <1>4, <1>5, <2>1, <2>2, TriesType DEF CallSteps
    <2>3. CASE k.mode # "schema"
      BY <1>3, <1>4, <1>5, <2>1, <2>3, TriesType DEF CallSteps
    <2> QED
      BY <2>1, <2>2, <2>3
  <1>7. CASE ~(Retryable(a) /\ ~LastTry(k))
    <2>1. t.at = "heard"
      BY <1>3, <1>7 DEF at
    <2>2. CASE k.mode = "schema"
      BY <1>4, <2>1, <2>2, CallRank, TriesType DEF CallSteps
    <2>3. CASE k.mode # "schema"
      BY <1>4, <2>1, <2>3, CallRank, TriesType DEF CallSteps
    <2> QED
      BY <2>1, <2>2, <2>3
  <1> QED
    BY <1>6, <1>7

\* Every step of a call brings it nearer to its end, and is one of no other call.
LEMMA CallStepCounts ==
  ASSUME LlmInv, TriesRemain, NEW c \in Callers, CallStep(c)
  PROVE  /\ call'[c].at = "asking" => call'[c].tries < Tries
         /\ CallSteps(call'[c]) < CallSteps(call[c])
         /\ \A d \in Callers \ {c} : call'[d] = call[d]
  <1>0. /\ call \in [Callers -> Call] /\ call[c] \in Call
        /\ call[c].at = "asking" => call[c].tries < Tries
        /\ call[c].at \in {"asking", "heard"} => CallSteps(call[c]) > 0
    BY CallRank, TriesType DEF LlmInv, ProviderTypeOK, TriesRemain
  <1>1. CASE Request(c)
    <2>1. PICK a \in Answers(call[c].mode) : call' = [call EXCEPT ![c] = Tried(call[c], a)]
      BY <1>0, <1>1 DEF Request
    <2>2. a \in Heardable /\ call[c].at = "asking"
      BY <1>0, <1>1, AnswersAreHeardable DEF Request, Call
    <2>3. call'[c] = Tried(call[c], a)
      BY <1>0, <2>1
    <2> QED
      BY <1>0, <2>1, <2>2, <2>3, TriedRank
  <1>2. CASE Record(c) \/ RecordFails(c)
    <2>1. call' = [call EXCEPT ![c] = Ended(call[c], Result(call[c].answer))]
          /\ call[c].at = "heard"
      BY <1>0, <1>2 DEF Record, RecordFails, Recording, Settled
    <2>2. call'[c].at = "done"
      BY <1>0, <2>1, ResultType, EndedFacts
    <2> QED
      BY <1>0, <2>1, <2>2 DEF CallSteps
  <1>3. CASE Unreadable(c)
    <2>1. call[c].at = "heard" /\ call[c].answer = "blocks"
      BY <1>3 DEF Unreadable
    <2>2. CASE call[c].mode = "schema"
      <3> DEFINE k == Asked(call[c], "json")
      <3>1. call' = [call EXCEPT ![c] = k]
        BY <1>0, <1>3, <2>2 DEF Unreadable
      <3>2. k.at = "asking" /\ k.mode = "json" /\ k.tries = 0
        BY <1>0 DEF Asked, Call
      <3> HIDE DEF k
      <3>3. call'[c] = k
        BY <1>0, <3>1
      <3>4. CallSteps(k) = 1 + Tries
        BY <3>2, TriesType DEF CallSteps
      <3>5. CallSteps(call[c]) = 1 + (Tries + 1)
        BY <2>1, <2>2, TriesType DEF CallSteps
      <3> QED
        BY <1>0, <3>1, <3>2, <3>3, <3>4, <3>5, TriesType
    <2>3. CASE call[c].mode # "schema"
      <3>1. call' = [call EXCEPT ![c] = Ended(call[c], "AttributeError")]
        BY <1>0, <1>3, <2>3 DEF Unreadable
      <3>2. call'[c].at = "done"
        BY <1>0, <3>1, EndedFacts DEF Outcome
      <3> QED
        BY <1>0, <2>1, <3>1, <3>2 DEF CallSteps
    <2> QED
      BY <2>2, <2>3
  <1>4. CASE Die(c)
    <2>1. call'[c].at = "idle" /\ call[c].at \in {"asking", "heard"}
          /\ \A d \in Callers \ {c} : call'[d] = call[d]
      BY <1>0, <1>4 DEF Die, Call
    <2> QED
      BY <1>0, <2>1 DEF CallSteps
  <1> QED
    BY <1>1, <1>2, <1>3, <1>4 DEF CallStep

\* A new call has all its tries.
LEMMA BeginTries ==
  ASSUME LlmInv, NEW c \in Callers, NEW kind \in Kind, NEW b \in BookIds, Begin(c, kind, b)
  PROVE  /\ ~Pending(c)
         /\ call'[c].at = "asking" => call'[c].tries < Tries
         /\ \A d \in Callers \ {c} : call'[d] = call[d]
  <1>1. call \in [Callers -> Call] /\ call[c] \in Call
    BY DEF LlmInv, ProviderTypeOK
  <1> DEFINE o == Opened(call[c], b)
  <1>2. o \in Call
    BY <1>1, OpenedFacts
  <1> HIDE DEF o
  <1>3. \/ \E mode \in {"plain", "schema", "json"} : call' = [call EXCEPT ![c] = Asked(o, mode)]
        \/ call' = [call EXCEPT ![c] = Heard(Asked(o, "plain"), FakeAnswer(kind))]
        \/ call' = [call EXCEPT ![c] = Ended(o, "LLMConfigError")]
    BY DEF Begin, o
  <1>4. \A mode \in {"plain", "schema", "json"} : Asked(o, mode).tries = 0 /\ Asked(o, mode) \in Call
    <2> SUFFICES ASSUME NEW mode \in {"plain", "schema", "json"}
                 PROVE  Asked(o, mode).tries = 0 /\ Asked(o, mode) \in Call
      OBVIOUS
    <2>1. Asked(o, mode) \in Call
      BY <1>2, AskedFacts
    <2>2. Asked(o, mode).tries = 0
      BY <1>2 DEF Asked, Call
    <2> QED
      BY <2>1, <2>2
  <1>5. FakeAnswer(kind) \in Heardable
    BY DEF FakeAnswer, Heardable
  <1>6. Heard(Asked(o, "plain"), FakeAnswer(kind)).at = "heard"
    BY <1>4, <1>5, HeardFacts
  <1>7. Ended(o, "LLMConfigError").at = "done"
    BY <1>2, EndedFacts DEF Outcome
  <1>8. call'[c].at = "asking" => call'[c].tries < Tries
    BY <1>1, <1>3, <1>4, <1>6, <1>7, TriesType
  <1>9. ~Pending(c) /\ \A d \in Callers \ {c} : call'[d] = call[d]
    BY <1>1, <1>3 DEF Begin, Pending
  <1> QED
    BY <1>8, <1>9

\* A call moves only by its own steps, and is begun only when none is under way.
LEMMA CallsMove ==
  ASSUME IngestInv, TriesRemain, [IngestNext]_ingestVars, NEW c \in Callers
  PROVE  \/ call'[c] = call[c]
         \/ CallStep(c)
         \/ ~Pending(c) /\ (call'[c].at = "asking" => call'[c].tries < Tries)
  <1> USE DEF IngestInv
  <1>1. ASSUME NEW d \in Callers, CallStep(d)
        PROVE  call'[c] = call[c] \/ CallStep(c)
    BY <1>1, CallStepCounts
  <1>2. ASSUME NEW d \in Callers, NEW kind \in Kind, NEW b \in BookIds, Begin(d, kind, b)
        PROVE  \/ call'[c] = call[c]
               \/ ~Pending(c) /\ (call'[c].at = "asking" => call'[c].tries < Tries)
    BY <1>2, BeginTries
  <1>3. ASSUME NEW b \in Books, Shelf(b) \/ Extract(b)
        PROVE  call' = call
    BY <1>3 DEF Shelf, Extract, ForgetBook, llmVars
  <1>4. ASSUME NEW d \in Callers, LlmStep(d)
        PROVE  CallStep(d)
    BY <1>4 DEF LlmStep, CallStep
  <1>5. ASSUME NEW d \in Tasks, TaskCalls(d)
        PROVE  \/ CallStep(d)
               \/ \E kind \in Kind, b \in BookIds : Begin(d, kind, b)
    <2>1. Rows \subseteq BookIds /\ {"text", "structured"} \subseteq Kind
      BY SameBooks DEF Rows, Kind
    <2> QED
      BY <1>5, <2>1 DEF TaskCalls, CallStep
  <1>6. CASE Worker
    <2>1. CASE LocalStep
      BY <2>1 DEF LocalStep, llmVars
    <2>2. CASE AskVision
      <3>1. ex.book \in BookIds /\ "vision" \in Kind
        BY DEF PageInv, ExtractorTypeOK, Extraction, Kind
      <3> QED
        BY <1>2, <2>2, <3>1, OcrAssumption DEF AskVision
    <2>3. CASE Abort
      BY <1>1, <2>3, OcrAssumption DEF Abort, CallStep, llmVars
    <2> QED
      BY <1>6, <2>1, <2>2, <2>3 DEF Worker, ExtractorStep
  <1>7. CASE UNCHANGED ingestVars
    BY <1>7 DEF ingestVars, llmVars
  <1> QED
    BY <1>1, <1>2, <1>3, <1>4, <1>5, <1>6, <1>7 DEF IngestNext, Tasks

LEMMA TriesRemainInit == IngestInit => TriesRemain
  BY DEF IngestInit, ProviderInit, NoCall, TriesRemain

LEMMA TriesRemainNext == IngestInv /\ TriesRemain /\ [IngestNext]_ingestVars => TriesRemain'
  <1> SUFFICES ASSUME IngestInv, TriesRemain, [IngestNext]_ingestVars, NEW c \in Callers,
                      call'[c].at = "asking"
               PROVE  call'[c].tries < Tries
    BY DEF TriesRemain, Tries
  <1>1. CASE CallStep(c)
    BY <1>1, CallStepCounts DEF IngestInv
  <1>2. CASE call'[c] = call[c]
    BY <1>2 DEF TriesRemain
  <1> QED
    BY <1>1, <1>2, CallsMove

LEMMA PagesLeft ==
  ASSUME PageInv
  PROVE  /\ Len(Pages) \in Nat /\ Len(ex.results) \in Nat /\ Len(ex.results) <= Len(Pages)
         /\ ex.at \in {"ocr", "vision", "asked"} => Len(ex.results) < Len(Pages)
         /\ ex \in Extraction
  BY PagesAssumption DEF PageInv, ExtractorTypeOK, PageUnderWay, Extraction

LEMMA WithinRanks == IngestInv /\ TriesRemain => RanksBounded
  <1> SUFFICES ASSUME IngestInv, TriesRemain
               PROVE  RanksBounded
    OBVIOUS
  <1>1. ASSUME NEW c \in Callers
        PROVE  /\ CallSteps(call[c]) \in 0 .. 2 * Tries + 2
               /\ CallSteps(call[c]) = 0 <=> ~Pending(c)
    BY CallRank DEF IngestInv, LlmInv, ProviderTypeOK, TriesRemain, Pending
  <1>2. PageSteps \in 0 .. 4 * Len(Pages) + 1 /\ (PageSteps = 0 <=> ~Busy)
    <2>1. PageInv
      BY DEF IngestInv
    <2>2. CASE Busy
      BY <2>1, <2>2, PagesLeft DEF PageSteps, Busy
    <2>3. CASE ~Busy
      BY <2>1, <2>3, PagesLeft DEF PageSteps, Busy
    <2> QED
      BY <2>2, <2>3
  <1> QED
    BY <1>1, <1>2 DEF RanksBounded

\* Every step of an extraction brings it nearer to its end: each rung of the ladder
\* is tried once for a page, and every page gets a result.
LEMMA PageStepCounts ==
  ASSUME PageInv, ExtractorStep \/ Abort
  PROVE  PageSteps' < PageSteps
  <1>0. /\ Len(Pages) \in Nat /\ Len(ex.results) \in Nat /\ Len(ex.results) <= Len(Pages)
        /\ ex.at \in {"ocr", "vision", "asked"} => Len(ex.results) < Len(Pages)
        /\ ex \in Extraction
    BY PagesLeft
  <1>1. ASSUME ex' = [ex EXCEPT !.at = "ocr"], ex.at = "page", Page <= Len(Pages)
        PROVE  PageSteps' < PageSteps
    BY <1>0, <1>1 DEF Extraction, PageSteps, Page
  <1>2. ASSUME ex' = [ex EXCEPT !.at = "vision"], ex.at = "ocr"
        PROVE  PageSteps' < PageSteps
    BY <1>0, <1>2 DEF Extraction, PageSteps
  <1>3. ASSUME ex' = [ex EXCEPT !.at = "asked"], ex.at = "vision"
        PROVE  PageSteps' < PageSteps
    BY <1>0, <1>3 DEF Extraction, PageSteps
  <1>4. ASSUME NEW at \in {"idle", "done"}, ex' = [ex EXCEPT !.at = at], Busy
        PROVE  PageSteps' < PageSteps
    BY <1>0, <1>4 DEF Extraction, PageSteps, Busy
  <1>5. ASSUME NEW rung, NEW text, NEW error, NEW nr, NEW heard,
               AddPage(rung, text, error, nr, heard), Busy, Len(ex.results) < Len(Pages)
        PROVE  PageSteps' < PageSteps
    <2>1. ex'.at = "page" /\ Len(ex'.results) = Len(ex.results) + 1
      BY <1>0, <1>5 DEF AddPage, Extraction
    <2>2. PageSteps' = 4 * (Len(Pages) - (Len(ex.results) + 1)) + 1
      BY <2>1 DEF PageSteps
    <2>3. PageSteps >= 4 * (Len(Pages) - Len(ex.results)) - 2
      BY <1>0, <1>5 DEF PageSteps, Busy
    <2> QED
      BY <1>0, <1>5, <2>2, <2>3 DEF PageSteps, Busy
  <1>6. CASE ReadPage
    <2>1. Len(ex.results) < Len(Pages) /\ Busy /\ ex.at = "page"
      BY <1>0, <1>6 DEF ReadPage, Page, Busy
    <2> QED
      BY <1>1, <1>5, <1>6, <2>1 DEF ReadPage, NoCallOf
  <1>7. CASE EasyOcr
    BY <1>0, <1>2, <1>5, <1>7 DEF EasyOcr, NoCallOf, Busy
  <1>8. CASE SkipPage \/ RenderFails \/ HearVision
    BY <1>0, <1>5, <1>8 DEF SkipPage, RenderFails, HearVision, NoCallOf, Busy
  <1>9. CASE FinishDocument
    BY <1>4, <1>9 DEF FinishDocument, Busy
  <1>10. CASE AskVision
    BY <1>3, <1>10 DEF AskVision
  <1>11. CASE Abort
    BY <1>4, <1>11 DEF Abort
  <1> QED
    BY <1>6, <1>7, <1>8, <1>9, <1>10, <1>11 DEF ExtractorStep, LocalStep

\* A call is over after at most 2 * Tries + 2 of its steps, whatever is retried or
\* asked again, and an extraction after four steps a page and one, whatever its pages
\* hold and its calls come to: each step of either lowers its ranking, a natural
\* number that nothing else raises meanwhile.  With the fairness
\* of IngestFairness this is what WorkEnds says.
THEOREM WorkIsShort ==
    IngestSpec => []RanksBounded /\ [][StepsCount /\ NothingSetBack]_ingestVars
  <1>1. IngestInv /\ TriesRemain => StepsCount
    BY CallStepCounts, PageStepCounts DEF StepsCount, IngestInv
  <1>2. IngestInv /\ TriesRemain /\ IngestInv' /\ TriesRemain' /\ [IngestNext]_ingestVars
            => NothingSetBack
    <2> SUFFICES ASSUME IngestInv, TriesRemain, IngestInv', TriesRemain', [IngestNext]_ingestVars
                 PROVE  NothingSetBack
      OBVIOUS
    <2>1. ASSUME NEW c \in Callers, Pending(c)
          PROVE  CallSteps(call'[c]) <= CallSteps(call[c])
      <3>1. CallSteps(call[c]) \in Int
        BY WithinRanks, TriesType DEF RanksBounded
      <3>2. call'[c] \in Call /\ (call'[c].at = "asking" => call'[c].tries < Tries)
        BY DEF IngestInv, LlmInv, ProviderTypeOK, TriesRemain, Tries
      <3>3. CallSteps(call'[c]) \in Int
        BY <3>2, CallRank, TriesType
      <3>4. call'[c] = call[c] \/ CallStep(c)
        BY <2>1, CallsMove
      <3> QED
        BY <3>1, <3>3, <3>4, CallStepCounts DEF IngestInv
    <2>2. ASSUME Busy
          PROVE  PageSteps' <= PageSteps
      <3>1. PageSteps \in Int
        BY WithinRanks, PagesLeft DEF RanksBounded, IngestInv
      <3>2. CASE ex' = ex
        BY <3>1, <3>2 DEF PageSteps
      <3>3. CASE ExtractorStep \/ Abort
        <4>1. (IngestInv /\ TriesRemain => RanksBounded)'
          BY WithinRanks, PTL
        <4>2. PageSteps' \in Int
          BY <4>1, PagesLeft DEF RanksBounded, IngestInv
        <4> QED
          BY <3>1, <3>3, <4>2, PageStepCounts DEF IngestInv
      <3>4. ex' = ex \/ ExtractorStep \/ Abort
        BY <2>2 DEF IngestNext, ingestVars, Shelf, Extract, OpenDocument, OpenFails, MayExtract,
           LlmStep, TaskCalls, Worker
      <3> QED
        BY <3>2, <3>3, <3>4
    <2> QED
      BY <2>1, <2>2 DEF NothingSetBack
  <1> QED
    BY <1>1, <1>2, WithinRanks, TriesRemainInit, TriesRemainNext, IngestInvariant, PTL
    DEF IngestSpec
=============================================================================
