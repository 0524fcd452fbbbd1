------------------------------ MODULE SmallParts ------------------------------
(***************************************************************************)
(* Three small parts side by side: LockAsync, FileCache and UploadFiles.   *)
(* They have nothing to do with one another; what is asked of them is      *)
(* stated here once, for the run that checks it and for the proofs.        *)
(***************************************************************************)
EXTENDS LockAsync

CONSTANTS
    Requests,           \* the requests of the cache file, and the uploads
    MaxInterruptions,   \* MaxFailures of FileCache
    FileName, HalfDay, MaxTime, MaxFailures     \* of UploadFiles

VARIABLES
    cacheStage, file, opened, cacheFailures,
    time, stage, logs, backups, backupOf, savedAt, sheet, documents, archive, holder, answer, overlapped, failures

\* Nobody and Leaked are no requests, Nobody is no file name, and the clock in
\* the name of a backup has a period.
ASSUME PartsAssumption ==
    /\ IsFiniteSet(Calls)
    /\ "nobody" \notin Requests /\ "leaked" \notin Requests
    /\ \A r \in Requests : FileName[r] # "nobody"
    /\ HalfDay \in Nat \ {0}
    /\ MaxTime \in Nat /\ MaxFailures \in Nat /\ MaxInterruptions \in Nat

Cache == INSTANCE FileCache WITH
    stage <- cacheStage, failures <- cacheFailures, MaxFailures <- MaxInterruptions

Upload == INSTANCE UploadFiles

cacheVars == <<cacheStage, file, opened, cacheFailures>>
uploadVars == <<time, stage, logs, backups, backupOf, savedAt, sheet, documents, archive, holder, answer, overlapped, failures>>

\* Every variable of the three parts keeps its type.
TypesOK == TypeOK /\ Cache!TypeOK /\ Upload!TypeOK

\* What a request of the cache streams is whole, and only an interruption leaves
\* a part of a file behind (SaveAsync and LoadAsync: see FileCache).
OnlyInterruptionsBreakTheFile == Cache!OnlyInterruptionsBreakTheFile

\* Only overlapping requests mix up the archives, and only files of one name
\* their contents (ZipService.Compress and OnPost: see UploadFiles).
ArchivesAreOwn == Upload!ArchivesAreOwn

\* A row of the uploaded documents leads to its file, or to one of the same
\* name and clock (FileBackupService.Save: see UploadFiles).
DocumentsLeadToTheirFiles == Upload!DocumentsLeadToTheirFiles
=============================================================================
