----------------------------- MODULE UploadFiles -----------------------------
(***************************************************************************)
(* The files of one upload in RazorPages/UploadClientAuthLDAP: the log,    *)
(* the backup of the uploaded file (into which the statuses are written),  *)
(* its row among the uploaded documents, and the archive of log and backup *)
(* that the page returns.  The log is named by the client's file name (and *)
(* the date), the backup by that name and a twelve-hour clock, the archive *)
(* always the same.                                                        *)
(*                                                                         *)
(* What is uploaded itself is PaymentUpload; here it is one step that may  *)
(* fail.  Files are shared as on Windows: a file open for writing is not   *)
(* deleted, created again or opened by another.  A clock tick is a second  *)
(* or any multiple of it; HalfDay ticks are twelve hours.                  *)
(***************************************************************************)
EXTENDS Naturals, FiniteSets

CONSTANTS
    Requests,       \* the posts of UploadExcelFilePage and UploadDbfFile
    FileName,       \* [Requests -> names]: FileUpload.FileName
    HalfDay,        \* the period of the clock in the name of a backup
    MaxTime,        \* bound on the clock, within one day
    MaxFailures     \* bound on the calls that throw for a reason outside of this module

VARIABLES
    time,           \* DateTime.Now
    stage,          \* where a request stands
    logs,           \* the log files: the request that writes or wrote it, by file name
    backups,        \* the backups, by name
    backupOf,       \* the name of the backup of a request
    savedAt,        \* history: the time of it
    sheet,          \* the workbook a request has read from its backup
    documents,      \* the rows of UploadedDocuments
    archive,        \* absupload.zip: what is in it, and whether it is complete
    holder,         \* who has absupload.zip open: a request, Leaked or Nobody
    answer,         \* what a request returned to its client
    overlapped,     \* history: another archive was made before a request had opened its own
    failures        \* calls that threw so far

vars == <<time, stage, logs, backups, backupOf, savedAt, sheet, documents, archive, holder, answer, overlapped, failures>>

Nobody == "nobody"
Leaked == "leaked"

Names == {FileName[r] : r \in Requests}
BackupNames == Names \X (0 .. HalfDay - 1)

\* A sheet is the upload it came from and the requests that wrote statuses into it.
Sheets == [upload : Requests, statuses : SUBSET Requests]
NoSheet == [upload |-> Nobody, statuses |-> {}]
NoName == <<Nobody, 0>>
NoArchive == [by |-> Nobody, sheet |-> NoSheet, log |-> Nobody]
Archives == [by : Requests, sheet : Sheets \cup {NoSheet}, log : Requests \cup {Nobody}] \cup {NoArchive}

Stages == {"idle", "logging", "saving", "reading", "heading", "writing", "compressing",
           "archiving", "filling", "opening", "answering", "done", "failed"}

\* The requests that have their log open, from CreateLogger to the end of Parse.
Logging == {r \in Requests : stage[r] \in {"logging", "saving", "reading", "heading", "writing"}}

\* The requests that have their backup open in FileBackupService.Save.
Saving == {r \in Requests : stage[r] = "saving"}

TypeOK ==
    /\ time \in 0 .. MaxTime
    /\ stage \in [Requests -> Stages]
    /\ logs \in [Names -> Requests \cup {Nobody}]
    /\ backups \in [BackupNames -> Sheets \cup {NoSheet}]
    /\ backupOf \in [Requests -> BackupNames \cup {NoName}]
    /\ sheet \in [Requests -> Sheets \cup {NoSheet}]
    /\ savedAt \in [Requests -> 0 .. MaxTime]
    /\ documents \subseteq [upload : Requests, backup : BackupNames]
    /\ archive \in Archives
    /\ holder \in Requests \cup {Leaked, Nobody}
    /\ answer \in [Requests -> Archives]
    /\ overlapped \in SUBSET Requests
    /\ failures \in 0 .. MaxFailures

Init ==
    /\ time = 0
    /\ stage = [r \in Requests |-> "idle"]
    /\ logs = [n \in Names |-> Nobody]
    /\ backups = [b \in BackupNames |-> NoSheet]
    /\ backupOf = [r \in Requests |-> NoName]
    /\ savedAt = [r \in Requests |-> 0]
    /\ sheet = [r \in Requests |-> NoSheet]
    /\ documents = {}
    /\ archive = NoArchive
    /\ holder = Nobody
    /\ answer = [r \in Requests |-> NoArchive]
    /\ overlapped = {}
    /\ failures = 0

To(r, s) == stage' = [stage EXCEPT ![r] = s]

\* A step of r that cannot open its file ends the request with an error.
Refused(r) == To(r, "failed")

Tick ==
    /\ time < MaxTime
    /\ time' = time + 1
    /\ UNCHANGED <<stage, logs, backups, backupOf, savedAt, sheet, documents, archive, holder, answer, overlapped, failures>>

-----------------------------------------------------------------------------
(* Parse *)

\* LogService: the log of the same name is deleted, unless another request still
\* writes it.
CreateLogger(r) ==
    /\ stage[r] = "idle"
    /\ IF \E q \in Logging : FileName[q] = FileName[r]
       THEN Refused(r) /\ UNCHANGED logs
       ELSE To(r, "logging") /\ logs' = [logs EXCEPT ![FileName[r]] = r]
    /\ UNCHANGED <<time, backups, backupOf, savedAt, sheet, documents, archive, holder, answer, overlapped, failures>>

\* Mutant of Stamp: the name of the backup has no time.
NoStamp(t) == 0

\* yyyy_MM_dd_hh_mm_ss
Stamp(t) == t % HalfDay

\* FileBackupService.Save: FileMode.Create, over a backup of the same name.
CreateBackup(r) ==
    LET name == <<FileName[r], Stamp(time)>> IN
    /\ stage[r] = "logging"
    /\ IF \E q \in Saving : backupOf[q] = name
       THEN Refused(r) /\ UNCHANGED <<backups, backupOf, savedAt>>
       ELSE /\ backups' = [backups EXCEPT ![name] = [upload |-> r, statuses |-> {}]]
            /\ backupOf' = [backupOf EXCEPT ![r] = name]
            /\ savedAt' = [savedAt EXCEPT ![r] = time]
            /\ To(r, "saving")
    /\ UNCHANGED <<time, logs, sheet, documents, archive, holder, answer, overlapped, failures>>

\* FileBackupService.Save: the row; the stream is closed at the end.
SaveDocument(r) ==
    /\ stage[r] = "saving"
    /\ documents' = documents \cup {[upload |-> r, backup |-> backupOf[r]]}
    /\ To(r, "reading")
    /\ UNCHANGED <<time, logs, backups, backupOf, savedAt, sheet, archive, holder, answer, overlapped, failures>>

\* new XLWorkbook(resPath), DbfFileService.  The columns of the statuses may be
\* missing from a workbook.
ReadBackup(r) ==
    /\ stage[r] = "reading"
    /\ IF \E q \in Saving : backupOf[q] = backupOf[r]
       THEN Refused(r) /\ UNCHANGED sheet
       ELSE /\ \E next \in {"heading", "writing"} : To(r, next)
            /\ sheet' = [sheet EXCEPT ![r] = backups[backupOf[r]]]
    /\ UNCHANGED <<time, logs, backups, backupOf, savedAt, documents, archive, holder, answer, overlapped, failures>>

\* ExcelFileService: then they are added and the workbook is written back;
\* SendPaymentOrders follows.
SaveHeadings(r) ==
    /\ stage[r] = "heading"
    /\ IF \E q \in Saving : backupOf[q] = backupOf[r]
       THEN Refused(r) /\ UNCHANGED backups
       ELSE To(r, "writing") /\ backups' = [backups EXCEPT ![backupOf[r]] = sheet[r]]
    /\ UNCHANGED <<time, logs, backupOf, savedAt, sheet, documents, archive, holder, answer, overlapped, failures>>

\* The statuses are written over the backup; the logger is disposed of.
WriteStatuses(r) ==
    /\ stage[r] = "writing"
    /\ IF \E q \in Saving : backupOf[q] = backupOf[r]
       THEN Refused(r) /\ UNCHANGED backups
       ELSE /\ backups' = [backups EXCEPT ![backupOf[r]] = [sheet[r] EXCEPT !.statuses = @ \cup {r}]]
            /\ To(r, "compressing")
    /\ UNCHANGED <<time, logs, backupOf, savedAt, sheet, documents, archive, holder, answer, overlapped, failures>>

-----------------------------------------------------------------------------
(* ZipService.Compress and the page *)

\* Delete fails while anybody has the archive open.
DeleteArchive(r) ==
    /\ stage[r] = "compressing"
    /\ IF archive # NoArchive /\ holder # Nobody
       THEN Refused(r) /\ UNCHANGED archive
       ELSE To(r, "archiving") /\ archive' = NoArchive
    /\ UNCHANGED <<time, logs, backups, backupOf, savedAt, sheet, documents, holder, answer, overlapped, failures>>

\* Mutant of CreateArchive: an archive that is there again is taken as it is.
ReuseArchive(r) ==
    /\ stage[r] = "archiving"
    /\ IF archive # NoArchive
       THEN To(r, "opening") /\ UNCHANGED <<archive, holder, overlapped>>
       ELSE /\ archive' = [NoArchive EXCEPT !.by = r]
            /\ holder' = r
            /\ overlapped' = overlapped \cup {q \in Requests \ {r} : stage[q] \in {"filling", "opening"}}
            /\ To(r, "filling")
    /\ UNCHANGED <<time, logs, backups, backupOf, savedAt, sheet, documents, answer, failures>>

\* ZipFile.Open(Create) fails if there is an archive again.
CreateArchive(r) ==
    /\ stage[r] = "archiving"
    /\ IF archive # NoArchive
       THEN Refused(r) /\ UNCHANGED <<archive, holder, overlapped>>
       ELSE /\ archive' = [NoArchive EXCEPT !.by = r]
            /\ holder' = r
            /\ overlapped' = overlapped \cup {q \in Requests \ {r} : stage[q] \in {"filling", "opening"}}
            /\ To(r, "filling")
    /\ UNCHANGED <<time, logs, backups, backupOf, savedAt, sheet, documents, answer, failures>>

\* The two entries are read and the archive is closed; an entry that another
\* request has open throws, and leaves the archive open.
FillArchive(r) ==
    /\ stage[r] = "filling"
    /\ IF \/ \E q \in Saving : backupOf[q] = backupOf[r]
          \/ \E q \in Logging : FileName[q] = FileName[r]
       THEN Refused(r) /\ holder' = Leaked /\ UNCHANGED archive
       ELSE /\ archive' = [by |-> r, sheet |-> backups[backupOf[r]], log |-> logs[FileName[r]]]
            /\ holder' = Nobody
            /\ To(r, "opening")
    /\ UNCHANGED <<time, logs, backups, backupOf, savedAt, sheet, documents, answer, overlapped, failures>>

\* The garbage collector closes the archive that was left open.
Finalize ==
    /\ holder = Leaked
    /\ holder' = Nobody
    /\ UNCHANGED <<time, stage, logs, backups, backupOf, savedAt, sheet, documents, archive, answer, overlapped, failures>>

\* new FileStream(archive, FileMode.Open): to read and write, shared with readers.
OpenArchive(r) ==
    /\ stage[r] = "opening"
    /\ IF archive = NoArchive \/ holder # Nobody
       THEN Refused(r) /\ UNCHANGED <<holder, answer>>
       ELSE /\ holder' = r
            /\ answer' = [answer EXCEPT ![r] = archive]
            /\ To(r, "answering")
    /\ UNCHANGED <<time, logs, backups, backupOf, savedAt, sheet, documents, archive, overlapped, failures>>

\* FileStreamResult streams the archive and closes it.
Answer(r) ==
    /\ stage[r] = "answering"
    /\ holder' = Nobody
    /\ To(r, "done")
    /\ UNCHANGED <<time, logs, backups, backupOf, savedAt, sheet, documents, archive, answer, overlapped, failures>>

\* An exception of the database, of the upload or of a disk: the page catches
\* it, and everything but a half-written archive is closed on the way.
Throws(r) ==
    /\ stage[r] \notin {"idle", "done", "failed"}
    /\ failures < MaxFailures
    /\ failures' = failures + 1
    /\ holder' = CASE stage[r] = "filling" -> Leaked
                   [] stage[r] = "answering" -> Nobody
                   [] OTHER -> holder
    /\ To(r, "failed")
    /\ UNCHANGED <<time, logs, backups, backupOf, savedAt, sheet, documents, archive, answer, overlapped>>

-----------------------------------------------------------------------------
RequestStep(r) ==
    \/ CreateLogger(r) \/ CreateBackup(r) \/ SaveDocument(r) \/ ReadBackup(r) \/ SaveHeadings(r)
    \/ WriteStatuses(r)
    \/ DeleteArchive(r) \/ CreateArchive(r) \/ FillArchive(r) \/ OpenArchive(r) \/ Answer(r)
    \/ Throws(r)

Next ==
    \/ Tick
    \/ \E r \in Requests : RequestStep(r)
    \/ Finalize

Spec == Init /\ [][Next]_vars

-----------------------------------------------------------------------------
(* Properties *)

\* The archive a client receives is that of its own request unless another
\* request made one before this one had opened it; it is complete unless that
\* other request failed; and what one request put into an archive is its own log
\* and its own file with its own statuses, unless another request uploads a file
\* of that name (the fixed names in OnPost, LogService and FileBackupService).
ArchivesAreOwn ==
    \A r \in Requests : stage[r] = "done" =>
        LET g == answer[r].by IN
        /\ g # r => r \in overlapped
        /\ \/ answer[r].sheet = [upload |-> g, statuses |-> {g}] /\ answer[r].log = g
           \/ answer[r].sheet = NoSheet /\ g # r /\ stage[g] = "failed"
           \/ answer[r].sheet # NoSheet /\ \E q \in Requests \ {g} : FileName[q] = FileName[g]

\* A row of the uploaded documents leads to a file, and to the one uploaded with
\* it, unless a file of the same name was uploaded at the same second or a
\* whole number of half days apart (the clock in FileBackupService.Save).
DocumentsLeadToTheirFiles ==
    \A d \in documents :
        LET found == backups[d.backup].upload IN
        found # d.upload =>
            /\ FileName[found] = FileName[d.upload]
            /\ savedAt[found] % HalfDay = savedAt[d.upload] % HalfDay
=============================================================================
