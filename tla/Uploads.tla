------------------------------ MODULE Uploads ------------------------------
(***************************************************************************)
(* The upload directory beside the book table: create_book and delete_book *)
(* of services/books.py.  A row and its file are written by different      *)
(* stores, so every request is a sequence of steps that other requests     *)
(* (of the API or of the command line) and deaths of the process           *)
(* interleave with.                                                        *)
(*                                                                         *)
(* All books of the model hold the same PDF: the digest is part of a       *)
(* file's name and deletion counts by digest, so books of different        *)
(* digests never meet.  A path is then the name the PDF was uploaded under.*)
(***************************************************************************)
EXTENDS Naturals, FiniteSets

CONSTANTS
    Books,      \* the books ever uploaded, one upload request each
    Names       \* the names the PDF is uploaded under

VARIABLES
    files,      \* what is at each path: nothing, the PDF, a torn PDF, or the
                \* book whose request is still writing it
    up,         \* for each book, where its upload is, and under which name
    del,        \* for each book, where the request that deletes it is
    \* history
    raced,      \* uploads under way while a deletion was about to unlink
    left,       \* names at which a file was left: by an upload that failed after
                \* it was stored, or by an unlink that was refused
    crossed     \* two deletions have been under way at once

uploadVars == <<files, up, del, raced, left, crossed>>

UploadAssumption == Books \cap {"absent", "whole", "torn"} = {}
ASSUME UploadAssumption

FileState == {"absent", "whole", "torn"} \cup Books
Upload == [at : {"new", "tested", "writing", "stored", "book", "failed", "gone"}, name : Names]
Deletion == [at : {"no", "counted", "unlinked", "cut"}, others : BOOLEAN]

UploadsInit ==
    /\ files = [n \in Names |-> "absent"]
    /\ up \in [Books -> [at : {"new"}, name : Names]]
    /\ del = [b \in Books |-> [at |-> "no", others |-> FALSE]]
    /\ raced = {}
    /\ left = {}
    /\ crossed = FALSE

Path(b) == up[b].name

(* The rows another transaction can see. *)
Rows == {b \in Books : up[b].at = "book"}

(* Between the file's being found or created and the commit of the row.    *)
Uploading == {b \in Books : up[b].at \in {"writing", "stored"}}

(* Deletions that have counted no other book and will unlink the file at n. *)
Unlinking(n) ==
    {b \in Rows : del[b].at = "counted" /\ ~del[b].others /\ Path(b) = n}

Deleting == {b \in Rows : del[b].at \in {"counted", "unlinked"}}

Moved(b, at) == up' = [up EXCEPT ![b].at = at]

(***************************************************************************)
(* Uploading                                                               *)
(***************************************************************************)

RacesWith(b) == raced' = IF Unlinking(Path(b)) = {} THEN raced ELSE raced \cup {b}

(* The test for the file: it is there and kept, whatever is in it.         *)
FindFile(b) ==
    /\ up[b].at = "new" /\ files[Path(b)] # "absent"
    /\ Moved(b, "stored")
    /\ RacesWith(b)
    /\ UNCHANGED <<files, del, left, crossed>>

(* Or it is not there, which need not be so for long.  A request that fails*)
(* here leaves nothing behind: it is one that takes no further step.       *)
MissFile(b) ==
    /\ up[b].at = "new" /\ files[Path(b)] = "absent"
    /\ Moved(b, "tested")
    /\ UNCHANGED <<files, del, raced, left, crossed>>

(* The file is created, or emptied if it has come into being meanwhile.    *)
StoreFile(b) ==
    /\ up[b].at = "tested"
    /\ files' = [files EXCEPT ![Path(b)] = b]
    /\ Moved(b, "writing")
    /\ RacesWith(b)
    /\ UNCHANGED <<del, left, crossed>>

(* MUTANT: the row is committed while the file is still being written.     *)
FinishWriteEarly(b) ==
    /\ up[b].at = "writing"
    /\ Moved(b, "stored")
    /\ UNCHANGED <<files, del, raced, left, crossed>>

(* The last byte is written; an unlinked file has no path any more, and one*)
(* that a twin has emptied is whole when the twin is through.              *)
FinishWrite(b) ==
    LET n == Path(b) IN
    /\ up[b].at = "writing"
    /\ Moved(b, "stored")
    /\ files' = IF files[n] = b THEN [files EXCEPT ![n] = "whole"] ELSE files
    /\ UNCHANGED <<del, raced, left, crossed>>

(* The row and its extraction job are committed together. *)
CommitBook(b) ==
    /\ up[b].at = "stored"
    /\ Moved(b, "book")
    /\ UNCHANGED <<files, del, raced, left, crossed>>

(* The process dies, or the transaction fails; what is on the disk stays. *)
UploadFails(b) ==
    LET n == Path(b) IN
    /\ b \in Uploading
    /\ Moved(b, "failed")
    /\ files' = IF files[n] = b THEN [files EXCEPT ![n] = "torn"] ELSE files
    /\ left' = left \cup {n}
    /\ UNCHANGED <<del, raced, crossed>>

(***************************************************************************)
(* Deleting                                                                *)
(***************************************************************************)

(* MUTANT: other books of the digest are not looked for.                   *)
CountNobody(b) ==
    /\ up[b].at = "book" /\ del[b].at \in {"no", "cut"}
    /\ del' = [del EXCEPT ![b] = [at |-> "counted", others |-> FALSE]]
    /\ UNCHANGED <<files, up, raced, left, crossed>>

(* MUTANT: the book that is deleted counts itself.                         *)
CountAll(b) ==
    /\ up[b].at = "book" /\ del[b].at \in {"no", "cut"}
    /\ del' = [del EXCEPT ![b] = [at |-> "counted", others |-> Rows # {}]]
    /\ UNCHANGED <<files, up, raced, left, crossed>>

CountOthers(b) ==
    /\ up[b].at = "book" /\ del[b].at \in {"no", "cut"}
    /\ del' = [del EXCEPT ![b] = [at |-> "counted", others |-> Rows \ {b} # {}]]
    /\ raced' = IF Rows \ {b} # {} THEN raced
                ELSE raced \cup {c \in Uploading : Path(c) = Path(b)}
    /\ crossed' = (crossed \/ Deleting # {})
    /\ UNCHANGED <<files, up, left>>

(* An unlink that the system refuses is logged, and the row goes all the   *)
(* same.                                                                   *)
UnlinkFile(b) ==
    LET n == Path(b) IN
    /\ up[b].at = "book" /\ del[b].at = "counted"
    /\ \/ del[b].others /\ UNCHANGED <<files, left>>
       \/ /\ ~del[b].others
          /\ files' = [files EXCEPT ![n] = "absent"]
          /\ left' = left \ {n}
       \/ /\ ~del[b].others /\ files[n] # "absent"
          /\ files' = files
          /\ left' = left \cup {n}
    /\ del' = [del EXCEPT ![b].at = "unlinked"]
    /\ UNCHANGED <<up, raced, crossed>>

DropBook(b) ==
    /\ up[b].at = "book" /\ del[b].at = "unlinked"
    /\ Moved(b, "gone")
    /\ UNCHANGED <<files, del, raced, left, crossed>>

(* The process dies, or the transaction fails, after the count. *)
DeletionFails(b) ==
    /\ b \in Deleting
    /\ del' = [del EXCEPT ![b].at = "cut"]
    /\ UNCHANGED <<files, up, raced, left, crossed>>

UploadStep(b) ==
    \/ FindFile(b) \/ MissFile(b) \/ StoreFile(b) \/ FinishWrite(b)
    \/ CommitBook(b) \/ UploadFails(b)
    \/ CountOthers(b) \/ UnlinkFile(b) \/ DropBook(b) \/ DeletionFails(b)

UploadsNext == \E b \in Books : UploadStep(b)

UploadsSpec == UploadsInit /\ [][UploadsNext]_uploadVars

(***************************************************************************)
(* Properties                                                              *)
(***************************************************************************)

(* Types, and a file is being written by the book that is writing it. *)
UploadsTypeOK ==
    /\ files \in [Names -> FileState]
    /\ up \in [Books -> Upload]
    /\ del \in [Books -> Deletion]
    /\ raced \subseteq Books /\ left \subseteq Names /\ crossed \in BOOLEAN
    /\ \A n \in Names : files[n] \in Books =>
           up[files[n]].at = "writing" /\ Path(files[n]) = n

(* A book that nobody deletes has its file, unless its upload overlapped a *)
(* deletion between the count and the unlink (create_book, delete_book):   *)
(* no other order of requests, failures and restarts takes a file away.    *)
(* The file is the whole PDF, or is being written by a twin, unless an     *)
(* upload of that name died writing it: create_book finds that torn file in*)
(* place and keeps it.                                                     *)
FileKept ==
    \A b \in Rows \ raced :
        del[b].at = "no" =>
            /\ files[Path(b)] # "absent"
            /\ files[Path(b)] = "torn" => Path(b) \in left

(* A file that no book and no upload under that name needs is there only   *)
(* when an upload of it failed or the system refused to unlink it, when    *)
(* deletions have overlapped (each counted the other's book), or when the  *)
(* PDF was also uploaded under another name: delete_book compares digests, *)
(* not paths, and create_book, which is to store a PDF once (books.py:52), *)
(* stores one for each name.                                               *)
FilesCleaned ==
    \A n \in Names \ left :
        /\ files[n] # "absent"
        /\ ~ \E b \in Rows \cup Uploading : Path(b) = n
        => crossed \/ \E b \in Books : Path(b) # n /\ up[b].at # "new"
=============================================================================
