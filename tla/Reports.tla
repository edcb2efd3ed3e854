------------------------------ MODULE Reports ------------------------------
(***************************************************************************)
(* The reporting plugin: the table of reports, the files under             *)
(* /tmp/reports and the requests of ReportingController between them.      *)
(*                                                                         *)
(* A report is a row first and a file later: generateReport inserts the    *)
(* row, renders the file, reads it back and completes the row, and awaits  *)
(* in between.  A PDF is written by a stream of its own, whose end is not  *)
(* what generateReport waits for.                                          *)
(***************************************************************************)
EXTENDS Server

CONSTANTS ReportIds  \* primary keys, each drawn once (a bound on reports)

VARIABLES
  report,   \* the table
  file,     \* what is on disk under the name of a report
  streams,  \* reports whose write stream is open
  work,     \* where each request is
  issued    \* the primary keys the table has given out

repVars == <<report, file, streams, work, issued>>

ReportType == {"PDF", "EXCEL"}
ReportStatus == {"PENDING", "GENERATING", "COMPLETED", "FAILED", "DELETED"}
Contents == {"part", "whole"}

ASSUME NothingIsNoContent == Nothing \notin Contents

GenerateReportDto == [reportType: ReportType]

(* hash stands for fileHash and fileSize: what they were computed from.    *)
Report ==
  [type: ReportType, status: ReportStatus, filePath: BOOLEAN, hash: Contents \cup {Nothing}]

Work ==
  {Idle}
    \cup [op: {"create"}, type: ReportType]
    \cup [op: {"pdf", "readFile", "excel"}, id: ReportIds]
    \cup [op: {"complete"}, id: ReportIds, content: Contents]
    \cup [op: {"remove"}, id: ReportIds]

RepTypeOK ==
  /\ report \in [ReportIds -> Report \cup {Nothing}]
  /\ file \in [ReportIds -> Contents \cup {Nothing}]
  /\ streams \in SUBSET ReportIds
  /\ work \in [Requests -> Work]
  /\ issued \in SUBSET ReportIds

RepInit ==
  /\ report = [i \in ReportIds |-> Nothing]
  /\ file = [i \in ReportIds |-> Nothing]
  /\ streams = {} /\ issued = {}
  /\ work = [r \in Requests |-> Idle]

Reports == {i \in ReportIds : report[i] # Nothing}
Continue(r, step) == work' = [work EXCEPT ![r] = step]
Answer(r) == Continue(r, Idle)

-----------------------------------------------------------------------------
GenerateReport(r, dto) ==
  /\ work[r] = Idle
  /\ Continue(r, [op |-> "create", type |-> dto.reportType])
  /\ UNCHANGED <<report, file, streams, issued>>

(* The first flush.  Up to the next await a PDF opens its stream.          *)
FlushReport(r, i) ==
  /\ work[r].op = "create"
  /\ i \notin issued
  /\ issued' = issued \cup {i}
  /\ report' = [report EXCEPT ![i] =
       [type |-> work[r].type, status |-> "GENERATING", filePath |-> FALSE, hash |-> Nothing]]
  /\ IF work[r].type = "PDF"
       THEN Continue(r, [op |-> "pdf", id |-> i]) /\ streams' = streams \cup {i}
       ELSE Continue(r, [op |-> "excel", id |-> i]) /\ UNCHANGED streams
  /\ UNCHANGED file

(* The stream opens the file, writes, and closes it when all is written.   *)
StreamWrites(i) ==
  /\ i \in streams
  /\ \/ /\ file[i] = Nothing
        /\ file' = [file EXCEPT ![i] = "part"]
        /\ UNCHANGED streams
     \/ /\ file[i] = "part"
        /\ file' = [file EXCEPT ![i] = "whole"]
        /\ streams' = streams \ {i}
  /\ UNCHANGED <<report, work, issued>>

(* generatePdfBuffer resolves when the document has handed everything to   *)
(* the stream ('end') or the stream has finished, whichever is first.      *)
PdfEnds(r) ==
  /\ work[r].op = "pdf"
  /\ Continue(r, [op |-> "readFile", id |-> work[r].id])
  /\ UNCHANGED <<report, file, streams, issued>>

(* The disk refuses: what is waiting for the stream fails, what no longer  *)
(* waits does not notice.                                                  *)
StreamFails(i) ==
  /\ i \in streams
  /\ streams' = streams \ {i}
  /\ \/ \E r \in Requests : work[r] = [op |-> "pdf", id |-> i] /\ Answer(r)
     \/ /\ \A r \in Requests : work[r] # [op |-> "pdf", id |-> i]
        /\ UNCHANGED work
  /\ UNCHANGED <<report, file, issued>>

(* What is read is what the stream has written so far. *)
ReadFile(r) ==
  /\ work[r].op = "readFile"
  /\ LET i == work[r].id IN
       IF file[i] = Nothing
         THEN Answer(r)
         ELSE Continue(r, [op |-> "complete", id |-> i, content |-> file[i]])
  /\ UNCHANGED <<report, file, streams, issued>>

SaveFileUnawaited(r) ==
  /\ work[r].op = "excel"
  /\ Continue(r, [op |-> "complete", id |-> work[r].id, content |-> "whole"])
  /\ file' \in {file, [file EXCEPT ![work[r].id] = "part"], [file EXCEPT ![work[r].id] = "whole"]}
  /\ UNCHANGED <<report, streams, issued>>

(* A workbook is made in memory and written before the row is completed;   *)
(* a failed write may leave part of it.                                    *)
SaveFile(r) ==
  /\ work[r].op = "excel"
  /\ LET i == work[r].id IN
       \/ /\ file' = [file EXCEPT ![i] = "whole"]
          /\ Continue(r, [op |-> "complete", id |-> i, content |-> "whole"])
       \/ /\ file' \in {file, [file EXCEPT ![i] = "part"]}
          /\ Answer(r)
  /\ UNCHANGED <<report, streams, issued>>

(* The second flush updates the row if it is still there. *)
FlushCompleted(r) ==
  /\ work[r].op = "complete"
  /\ LET i == work[r].id IN
       report' = IF i \in Reports
                   THEN [report EXCEPT
                          ![i].status = "COMPLETED",
                          ![i].filePath = TRUE,
                          ![i].hash = work[r].content]
                   ELSE report
  /\ Answer(r)
  /\ UNCHANGED <<file, streams, issued>>

(* The catch of generateReport leaves the row as it is. *)
FlushThrows(r) ==
  /\ work[r].op \in {"create", "complete", "remove"}
  /\ Answer(r)
  /\ UNCHANGED <<report, file, streams, issued>>

-----------------------------------------------------------------------------
GetReportById(i) == i \in Reports

DeleteReport(r, i) ==
  /\ work[r] = Idle
  /\ GetReportById(i)
  /\ Continue(r, [op |-> "remove", id |-> i])
  /\ UNCHANGED <<report, file, streams, issued>>

(* The row goes, the file stays. *)
FlushRemoved(r) ==
  /\ work[r].op = "remove"
  /\ report' = [report EXCEPT ![work[r].id] = Nothing]
  /\ Answer(r)
  /\ UNCHANGED <<file, streams, issued>>

(* What downloadReport streams, Nothing when it answers 404. *)
DownloadReport(i) ==
  IF GetReportById(i) /\ report[i].filePath THEN file[i] ELSE Nothing

(* The process ends and starts again: requests and streams are gone, the   *)
(* database and the files are what they were.                              *)
Restart ==
  /\ \E r \in Requests : work[r] # Idle
  /\ work' = [r \in Requests |-> Idle]
  /\ streams' = {}
  /\ UNCHANGED <<report, file, issued>>

ReportingController(r) ==
  \/ \E dto \in GenerateReportDto : GenerateReport(r, dto)
  \/ \E i \in ReportIds : DeleteReport(r, i)

Generates(r) ==
  PdfEnds(r) \/ ReadFile(r) \/ SaveFile(r) \/ FlushCompleted(r)

RepNext ==
  \/ \E r \in Requests :
       \/ ReportingController(r) \/ Generates(r)
       \/ FlushRemoved(r) \/ FlushThrows(r)
       \/ \E i \in ReportIds : FlushReport(r, i)
  \/ \E i \in ReportIds : StreamWrites(i) \/ StreamFails(i)
  \/ Restart

RepSpec == RepInit /\ [][RepNext]_repVars

-----------------------------------------------------------------------------
(* A row says COMPLETED only when there is a file to download; and a       *)
(* workbook is whole and is what the hash was computed from, whatever else *)
(* was generated, deleted, refused or restarted in between.                *)
CompletedIsThere ==
  \A i \in Reports : report[i].status = "COMPLETED" =>
    /\ DownloadReport(i) # Nothing
    /\ report[i].type = "EXCEL" => DownloadReport(i) = "whole" /\ report[i].hash = "whole"
=============================================================================
