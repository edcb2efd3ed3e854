--------------------------- MODULE ServicesProofs ---------------------------
(***************************************************************************)
(* Proofs about the services that share no state: the reports of the       *)
(* reporting plugin (Reports), the mail queue and its monitor (Mail), the  *)
(* inside of an MCP server (McpServer), the client of its API (ApiClient), *)
(* what the telemetry keeps (Telemetry) and the conflict check of the      *)
(* plugin loader (Conflicts).  Each part has its own specification and its *)
(* own inductive invariant.                                                *)
(***************************************************************************)
EXTENDS Reports, Mail, McpServer, ApiClient, Telemetry, Conflicts, SequenceTheorems, Lemmas

-----------------------------------------------------------------------------
(* Reports.  A request that generates works for a report of its own.       *)
Generating(r, i) == work[r].op \in {"pdf", "readFile", "excel", "complete"} /\ work[r].id = i

(* The stream writes a PDF, a workbook is saved in one piece; the content  *)
(* a request is about to note is on disk.                                  *)
OfItsType(i) ==
  report[i].type = "EXCEL" =>
    /\ i \notin streams
    /\ \A r \in Requests : Generating(r, i) =>
         /\ work[r].op \in {"excel", "complete"}
         /\ work[r].op = "complete" => work[r].content = "whole" /\ file[i] = "whole"

IsThere(i) ==
  report[i].status = "COMPLETED" =>
    /\ report[i].filePath /\ file[i] # Nothing
    /\ report[i].type = "EXCEL" => file[i] = "whole" /\ report[i].hash = "whole"
    /\ \A r \in Requests : ~Generating(r, i)

RepInv ==
  /\ RepTypeOK
  /\ streams \subseteq issued /\ Reports \subseteq issued
  /\ \A r \in Requests, i \in ReportIds : Generating(r, i) =>
       /\ i \in issued
       /\ \A s \in Requests : Generating(s, i) => s = r
       /\ work[r].op = "complete" => file[i] # Nothing
       /\ work[r].op = "excel" /\ report[i] # Nothing => report[i].type = "EXCEL"
  /\ \A i \in Reports : OfItsType(i) /\ IsThere(i)

LEMMA RepInitInv == RepInit => RepInv
BY DEF RepInit, RepInv, RepTypeOK, Reports, Generating, Work, Idle

(* What a request holds at each of its steps.                              *)
LEMMA WorkShape ==
  ASSUME RepInv, NEW r \in Requests
  PROVE  /\ work[r].op = "create" => work[r].type \in ReportType
         /\ work[r].op \in {"pdf", "readFile", "excel", "complete", "remove"} =>
              work[r].id \in ReportIds
         /\ work[r].op = "complete" => work[r].content \in Contents
BY DEF RepInv, RepTypeOK, Work, Idle

(* A request that gives up, or that turns to something that generates      *)
(* nothing.                                                                *)
LEMMA TurnsAway ==
  ASSUME RepInv, NEW r \in Requests, NEW step \in Work,
         step.op \in {"idle", "create", "remove"}, Continue(r, step),
         UNCHANGED <<report, file, issued>>, streams' \subseteq streams
  PROVE  RepInv'
<1>1. work' \in [Requests -> Work] /\ work'[r] = step
      /\ \A s \in Requests \ {r} : work'[s] = work[s]
  BY DEF Continue, RepInv, RepTypeOK
<1>2. \A s \in Requests, i \in ReportIds :
        Generating(s, i)' => Generating(s, i) /\ work'[s] = work[s]
  BY <1>1 DEF Generating
<1>3. Reports' = Reports
  BY DEF Reports
<1>4. \A i \in Reports : OfItsType(i)' /\ IsThere(i)'
  BY <1>2 DEF RepInv, OfItsType, IsThere, Reports
<1>5. \A s \in Requests, i \in ReportIds : Generating(s, i)' =>
       /\ i \in issued'
       /\ \A q \in Requests : Generating(q, i)' => q = s
       /\ work'[s].op = "complete" => file'[i] # Nothing
       /\ work'[s].op = "excel" /\ report'[i] # Nothing => report'[i].type = "EXCEL"
  BY <1>2 DEF RepInv
<1> QED
  BY <1>1, <1>3, <1>4, <1>5 DEF RepInv, RepTypeOK

LEMMA FlushReportInv ==
  ASSUME RepInv, NEW r \in Requests, NEW i \in ReportIds, FlushReport(r, i)
  PROVE  RepInv'
<1> DEFINE row == [type |-> work[r].type, status |-> "GENERATING", filePath |-> FALSE, hash |-> Nothing]
           op == IF work[r].type = "PDF" THEN "pdf" ELSE "excel"
           step == [op |-> op, id |-> i]
<1>1. /\ work[r].op = "create" /\ i \notin issued /\ issued' = issued \cup {i}
      /\ report' = [report EXCEPT ![i] = row] /\ UNCHANGED file
      /\ work' = [work EXCEPT ![r] = step]
      /\ streams' = IF work[r].type = "PDF" THEN streams \cup {i} ELSE streams
  BY DEF FlushReport, Continue
<1>2. row \in Report /\ step \in Work /\ row.type = work[r].type /\ row.status = "GENERATING"
      /\ step.op = op /\ step.id = i
  BY <1>1, WorkShape DEF Report, Work, ReportStatus
<1>3. work[r].type \in ReportType
  BY <1>1, WorkShape
<1> HIDE DEF row, step
<1>4. RepTypeOK'
  BY <1>1, <1>2 DEF RepInv, RepTypeOK
<1>5. \A s \in Requests : ~Generating(s, i)
  BY <1>1 DEF RepInv
<1>6. work'[r] = step /\ \A s \in Requests \ {r} : work'[s] = work[s]
  BY <1>1 DEF RepInv, RepTypeOK
<1>7. \A s \in Requests, j \in ReportIds :
        Generating(s, j)' <=> IF s = r THEN j = i ELSE Generating(s, j)
  BY <1>2, <1>6 DEF Generating
<1>8. report'[i] = row /\ \A j \in ReportIds \ {i} : report'[j] = report[j]
  BY <1>1 DEF RepInv, RepTypeOK
<1>9. \A s \in Requests, j \in ReportIds : Generating(s, j)' =>
       /\ j \in issued'
       /\ \A q \in Requests : Generating(q, j)' => q = s
       /\ work'[s].op = "complete" => file'[j] # Nothing
       /\ work'[s].op = "excel" /\ report'[j] # Nothing => report'[j].type = "EXCEL"
  <2> TAKE s \in Requests, j \in ReportIds
  <2>1. CASE s = r
    BY <1>1, <1>2, <1>3, <1>5, <1>6, <1>7, <1>8, <2>1 DEF ReportType
  <2>2. CASE s # r
    BY <1>1, <1>5, <1>6, <1>7, <1>8, <2>2 DEF RepInv
  <2> QED
    BY <2>1, <2>2
<1>10. \A j \in Reports' : OfItsType(j)' /\ IsThere(j)'
  <2> TAKE j \in Reports'
  <2>1. CASE j = i
    <3>1. IsThere(j)'
      BY <1>2, <1>8, <2>1 DEF IsThere
    <3>2. OfItsType(j)'
      BY <1>1, <1>2, <1>5, <1>6, <1>7, <1>8, <2>1 DEF OfItsType, RepInv
    <3> QED
      BY <3>1, <3>2
  <2>2. CASE j # i
    <3>1. j \in Reports /\ report'[j] = report[j] /\ file'[j] = file[j] /\ (j \in streams' <=> j \in streams)
      BY <1>1, <1>8, <2>2 DEF Reports
    <3>2. \A s \in Requests : Generating(s, j)' => Generating(s, j) /\ work'[s] = work[s]
      BY <1>6, <1>7, <2>2, <3>1 DEF Reports
    <3> QED
      BY <3>1, <3>2 DEF RepInv, OfItsType, IsThere
  <2> QED
    BY <2>1, <2>2
<1>11. streams' \subseteq issued' /\ Reports' \subseteq issued'
  BY <1>1, <1>8 DEF RepInv, Reports
<1> QED
  BY <1>4, <1>9, <1>10, <1>11 DEF RepInv

(* A request that goes on to the next step of the report it works for.     *)
LEMMA GoesOn ==
  ASSUME RepInv, NEW r \in Requests, NEW i \in ReportIds, Generating(r, i),
         NEW step \in Work, step.op \in {"readFile", "complete"}, step.id = i,
         Continue(r, step), UNCHANGED <<report, streams, issued>>,
         file' \in [ReportIds -> Contents \cup {Nothing}],
         \A j \in ReportIds \ {i} : file'[j] = file[j],
         step.op = "complete" => file'[i] # Nothing,
         \/ work[r].op \in {"pdf", "readFile"} /\ file' = file
         \/ step.op = "complete" /\ step.content = "whole" /\ file'[i] = "whole"
  PROVE  RepInv'
<1>1. work' \in [Requests -> Work] /\ work'[r] = step
      /\ \A s \in Requests \ {r} : work'[s] = work[s]
  BY DEF Continue, RepInv, RepTypeOK
<1>2. \A s \in Requests, j \in ReportIds : Generating(s, j)' <=> Generating(s, j)
  BY <1>1 DEF Generating
<1>3. \A s \in Requests : Generating(s, i) => s = r
  BY DEF RepInv
<1>4. i \in issued
  BY DEF RepInv
<1>5. \A s \in Requests, j \in ReportIds : Generating(s, j)' =>
       /\ j \in issued'
       /\ \A q \in Requests : Generating(q, j)' => q = s
       /\ work'[s].op = "complete" => file'[j] # Nothing
       /\ work'[s].op = "excel" /\ report'[j] # Nothing => report'[j].type = "EXCEL"
  <2> TAKE s \in Requests, j \in ReportIds
  <2>1. CASE s = r
    BY <1>1, <1>2, <1>3, <1>4, <2>1 DEF Generating
  <2>2. CASE s # r
    BY <1>1, <1>2, <1>3, <2>2 DEF RepInv
  <2> QED
    BY <2>1, <2>2
<1>6. \A j \in Reports' : OfItsType(j)' /\ IsThere(j)'
  <2> TAKE j \in Reports'
  <2>1. j \in Reports /\ OfItsType(j) /\ IsThere(j)
    BY DEF Reports, RepInv
  <2>2. CASE j = i
    <3>1. IsThere(j)'
      BY <2>1, <2>2 DEF IsThere
    <3>2. OfItsType(j)'
      BY <1>1, <1>2, <1>3, <2>1, <2>2 DEF OfItsType
    <3> QED
      BY <3>1, <3>2
  <2>3. CASE j # i
    <3>1. j \in ReportIds /\ file'[j] = file[j]
      BY <2>1, <2>3 DEF Reports
    <3>2. \A s \in Requests : Generating(s, j) => s # r
      BY <2>3, <3>1 DEF Generating
    <3>3. IsThere(j)'
      BY <1>2, <2>1, <3>1 DEF IsThere
    <3>4. OfItsType(j)'
      BY <1>1, <1>2, <2>1, <3>1, <3>2 DEF OfItsType
    <3> QED
      BY <3>3, <3>4
  <2> QED
    BY <2>2, <2>3
<1> QED
  BY <1>1, <1>5, <1>6 DEF RepInv, RepTypeOK, Reports

LEMMA PdfEndsInv ==
  ASSUME RepInv, NEW r \in Requests, PdfEnds(r)
  PROVE  RepInv'
<1> DEFINE i == work[r].id
           step == [op |-> "readFile", id |-> i]
<1>1. work[r].op = "pdf" /\ Continue(r, step) /\ UNCHANGED <<report, file, streams, issued>>
  BY DEF PdfEnds
<1>2. i \in ReportIds /\ Generating(r, i)
  BY <1>1, WorkShape DEF Generating
<1>3. step \in Work /\ step.op = "readFile" /\ step.id = i
  BY <1>2 DEF Work
<1>4. file' \in [ReportIds -> Contents \cup {Nothing}]
  BY <1>1 DEF RepInv, RepTypeOK
<1> HIDE DEF i, step
<1> QED
  BY <1>1, <1>2, <1>3, <1>4, GoesOn

LEMMA ReadFileInv ==
  ASSUME RepInv, NEW r \in Requests, ReadFile(r)
  PROVE  RepInv'
<1> DEFINE i == work[r].id
           step == [op |-> "complete", id |-> i, content |-> file[i]]
<1>1. work[r].op = "readFile" /\ UNCHANGED <<report, file, streams, issued>>
      /\ IF file[i] = Nothing THEN Answer(r) ELSE Continue(r, step)
  BY DEF ReadFile
<1>2. i \in ReportIds /\ Generating(r, i)
  BY <1>1, WorkShape DEF Generating
<1>3. CASE file[i] = Nothing
  <2>1. Idle \in Work /\ Idle.op = "idle"
    BY DEF Work, Idle
  <2> QED
    BY <1>1, <1>3, <2>1, TurnsAway DEF Answer
<1>4. CASE file[i] # Nothing
  <2>1. file[i] \in Contents
    BY <1>2, <1>4 DEF RepInv, RepTypeOK
  <2>2. step \in Work /\ step.op = "complete" /\ step.id = i
    BY <1>2, <2>1 DEF Work
  <2>3. file' \in [ReportIds -> Contents \cup {Nothing}] /\ Continue(r, step)
    BY <1>1, <1>4 DEF RepInv, RepTypeOK
  <2> HIDE DEF i, step
  <2> QED
    BY <1>1, <1>2, <1>4, <2>2, <2>3, GoesOn
<1> QED
  BY <1>3, <1>4

LEMMA SaveFileInv ==
  ASSUME RepInv, NEW r \in Requests, SaveFile(r)
  PROVE  RepInv'
<1> DEFINE i == work[r].id
           step == [op |-> "complete", id |-> i, content |-> "whole"]
<1>1. work[r].op = "excel" /\ UNCHANGED <<report, streams, issued>>
  BY DEF SaveFile
<1>2. i \in ReportIds /\ Generating(r, i)
  BY <1>1, WorkShape DEF Generating
<1>3. CASE file' = [file EXCEPT ![i] = "whole"] /\ Continue(r, step)
  <2>1. step \in Work /\ step.op = "complete" /\ step.id = i /\ step.content = "whole"
    BY <1>2 DEF Work, Contents
  <2>2. /\ file' \in [ReportIds -> Contents \cup {Nothing}] /\ file'[i] = "whole"
        /\ \A j \in ReportIds \ {i} : file'[j] = file[j]
    BY <1>2, <1>3 DEF RepInv, RepTypeOK, Contents
  <2>3. "whole" # Nothing
    BY NothingIsNoContent DEF Contents
  <2> HIDE DEF i, step
  <2> QED
    BY <1>1, <1>2, <1>3, <2>1, <2>2, <2>3, GoesOn
<1>4. CASE file' \in {file, [file EXCEPT ![i] = "part"]} /\ Answer(r)
  <2> HIDE DEF i
  <2>1. work' \in [Requests -> Work] /\ work'[r] = Idle
        /\ \A s \in Requests \ {r} : work'[s] = work[s]
    BY <1>4 DEF Answer, Continue, RepInv, RepTypeOK, Work, Idle
  <2>2. /\ file' \in [ReportIds -> Contents \cup {Nothing}]
        /\ \A j \in ReportIds \ {i} : file'[j] = file[j]
    BY <1>4 DEF RepInv, RepTypeOK, Contents
  <2>3. \A s \in Requests, j \in ReportIds :
          Generating(s, j)' => Generating(s, j) /\ work'[s] = work[s] /\ j # i
    BY <1>2, <2>1 DEF Generating, Idle, RepInv
  <2>4. \A j \in Reports : OfItsType(j)' /\ IsThere(j)'
    BY <1>1, <1>2, <2>2, <2>3 DEF RepInv, OfItsType, IsThere, Reports
  <2>5. \A s \in Requests, j \in ReportIds : Generating(s, j)' =>
         /\ j \in issued'
         /\ \A q \in Requests : Generating(q, j)' => q = s
         /\ work'[s].op = "complete" => file'[j] # Nothing
         /\ work'[s].op = "excel" /\ report'[j] # Nothing => report'[j].type = "EXCEL"
    BY <1>1, <2>2, <2>3 DEF RepInv
  <2> QED
    BY <1>1, <2>1, <2>2, <2>4, <2>5 DEF RepInv, RepTypeOK, Reports
<1> QED
  BY <1>3, <1>4 DEF SaveFile

(* The stream of a report that is there is a PDF's.                        *)
LEMMA StreamWritesInv ==
  ASSUME RepInv, NEW i \in ReportIds, StreamWrites(i)
  PROVE  RepInv'
<1>1. /\ i \in streams /\ streams' \subseteq streams /\ UNCHANGED <<report, work, issued>>
      /\ file' \in [ReportIds -> Contents \cup {Nothing}] /\ file'[i] # Nothing
      /\ \A j \in ReportIds \ {i} : file'[j] = file[j]
  BY NothingIsNoContent DEF StreamWrites, RepInv, RepTypeOK, Contents
<1>2. \A s \in Requests, j \in ReportIds : Generating(s, j)' <=> Generating(s, j)
  BY <1>1 DEF Generating
<1>3. \A j \in Reports : OfItsType(j)' /\ IsThere(j)'
  <2> TAKE j \in Reports
  <2>1. j \in ReportIds /\ OfItsType(j) /\ IsThere(j)
    BY DEF Reports, RepInv
  <2>2. CASE j = i
    BY <1>1, <1>2, <2>1, <2>2 DEF OfItsType, IsThere
  <2>3. CASE j # i
    BY <1>1, <1>2, <2>1, <2>3 DEF OfItsType, IsThere
  <2> QED
    BY <2>2, <2>3
<1>4. \A s \in Requests, j \in ReportIds : Generating(s, j)' =>
       /\ j \in issued'
       /\ \A q \in Requests : Generating(q, j)' => q = s
       /\ work'[s].op = "complete" => file'[j] # Nothing
       /\ work'[s].op = "excel" /\ report'[j] # Nothing => report'[j].type = "EXCEL"
  BY <1>1, <1>2 DEF RepInv
<1> QED
  BY <1>1, <1>3, <1>4 DEF RepInv, RepTypeOK, Reports

LEMMA IdleIsWork == Idle \in Work /\ Idle.op = "idle"
BY DEF Work, Idle

LEMMA StreamFailsInv ==
  ASSUME RepInv, NEW i \in ReportIds, StreamFails(i)
  PROVE  RepInv'
<1>1. streams' \subseteq streams /\ UNCHANGED <<report, file, issued>>
  BY DEF StreamFails
<1>2. ASSUME NEW r \in Requests, Answer(r)
      PROVE  RepInv'
  BY <1>1, <1>2, IdleIsWork, TurnsAway DEF Answer
<1>3. CASE UNCHANGED work
  BY <1>1, <1>3 DEF RepInv, RepTypeOK, Reports, Generating, OfItsType, IsThere
<1> QED
  BY <1>2, <1>3 DEF StreamFails

LEMMA FlushCompletedInv ==
  ASSUME RepInv, NEW r \in Requests, FlushCompleted(r)
  PROVE  RepInv'
<1> DEFINE i == work[r].id
           row == [report[i] EXCEPT !.status = "COMPLETED", !.filePath = TRUE,
                                    !.hash = work[r].content]
<1>1. /\ work[r].op = "complete" /\ UNCHANGED <<file, streams, issued>>
      /\ work' = [work EXCEPT ![r] = Idle]
      /\ report' = IF i \in Reports THEN [report EXCEPT ![i] = row] ELSE report
  BY DEF FlushCompleted, Answer, Continue
<1>2. i \in ReportIds /\ Generating(r, i) /\ work[r].content \in Contents
  BY <1>1, WorkShape DEF Generating
<1>3. CASE i \notin Reports
  <2>1. Answer(r) /\ UNCHANGED <<report, file, streams, issued>>
    BY <1>1, <1>3 DEF FlushCompleted
  <2> QED
    BY <2>1, IdleIsWork, TurnsAway DEF Answer
<1>4. CASE i \in Reports
  <2>1. report[i] \in Report
    BY <1>2, <1>4 DEF RepInv, RepTypeOK, Reports
  <2>2. /\ row \in Report /\ row.type = report[i].type /\ row.status = "COMPLETED"
        /\ row.filePath = TRUE /\ row.hash = work[r].content
    BY <1>2, <2>1 DEF Report, ReportStatus
  <2> HIDE DEF row, i
  <2>3. /\ report' \in [ReportIds -> Report \cup {Nothing}] /\ report'[i] = row
        /\ \A j \in ReportIds \ {i} : report'[j] = report[j]
    BY <1>1, <1>2, <1>4, <2>2 DEF RepInv, RepTypeOK
  <2>4. work' \in [Requests -> Work] /\ work'[r] = Idle
        /\ \A s \in Requests \ {r} : work'[s] = work[s]
    BY <1>1, IdleIsWork DEF RepInv, RepTypeOK
  <2>5. \A s \in Requests, j \in ReportIds :
          Generating(s, j)' => Generating(s, j) /\ work'[s] = work[s] /\ j # i
    BY <1>2, <2>4 DEF Generating, Idle, RepInv
  <2>6. Reports' \subseteq Reports
    BY <1>4, <2>3 DEF Reports
  <2>7. file[i] # Nothing
        /\ (report[i].type = "EXCEL" => file[i] = "whole" /\ work[r].content = "whole")
    BY <1>1, <1>2, <1>4 DEF RepInv, OfItsType
  <2>8. \A j \in Reports' : OfItsType(j)' /\ IsThere(j)'
    <3> TAKE j \in Reports'
    <3>1. j \in Reports /\ j \in ReportIds /\ OfItsType(j) /\ IsThere(j)
      BY <2>6 DEF Reports, RepInv
    <3>2. CASE j = i
      <4>1. IsThere(j)'
        BY <1>1, <2>2, <2>3, <2>5, <2>7, <3>1, <3>2 DEF IsThere
      <4>2. OfItsType(j)'
        BY <1>1, <2>2, <2>3, <2>5, <3>1, <3>2 DEF OfItsType
      <4> QED
        BY <4>1, <4>2
    <3>3. CASE j # i
      BY <1>1, <2>3, <2>5, <3>1, <3>3 DEF OfItsType, IsThere
    <3> QED
      BY <3>2, <3>3
  <2>9. \A s \in Requests, j \in ReportIds : Generating(s, j)' =>
         /\ j \in issued'
         /\ \A q \in Requests : Generating(q, j)' => q = s
         /\ work'[s].op = "complete" => file'[j] # Nothing
         /\ work'[s].op = "excel" /\ report'[j] # Nothing => report'[j].type = "EXCEL"
    BY <1>1, <2>3, <2>5 DEF RepInv
  <2> QED
    BY <1>1, <2>3, <2>4, <2>6, <2>8, <2>9 DEF RepInv, RepTypeOK
<1> QED
  BY <1>3, <1>4

LEMMA FlushRemovedInv ==
  ASSUME RepInv, NEW r \in Requests, FlushRemoved(r)
  PROVE  RepInv'
<1> DEFINE i == work[r].id
<1>1. /\ work[r].op = "remove" /\ UNCHANGED <<file, streams, issued>>
      /\ work' = [work EXCEPT ![r] = Idle] /\ report' = [report EXCEPT ![i] = Nothing]
  BY DEF FlushRemoved, Answer, Continue
<1>2. work' \in [Requests -> Work] /\ work'[r] = Idle
      /\ \A s \in Requests \ {r} : work'[s] = work[s]
  BY <1>1, IdleIsWork DEF RepInv, RepTypeOK
<1>3. \A s \in Requests, j \in ReportIds :
        Generating(s, j)' => Generating(s, j) /\ work'[s] = work[s]
  BY <1>2 DEF Generating, Idle
<1> HIDE DEF i
<1>4. /\ report' \in [ReportIds -> Report \cup {Nothing}]
      /\ \A j \in ReportIds : report'[j] \in {Nothing, report[j]}
  BY <1>1 DEF RepInv, RepTypeOK
<1>5. \A j \in Reports' : j \in Reports /\ report'[j] = report[j]
  BY <1>4 DEF Reports
<1>6. \A j \in Reports' : OfItsType(j)' /\ IsThere(j)'
  <2> TAKE j \in Reports'
  <2>1. j \in ReportIds /\ report'[j] = report[j] /\ OfItsType(j) /\ IsThere(j)
    BY <1>5 DEF Reports, RepInv
  <2> QED
    BY <1>1, <1>3, <2>1 DEF OfItsType, IsThere
<1>7. \A s \in Requests, j \in ReportIds : Generating(s, j)' =>
       /\ j \in issued'
       /\ \A q \in Requests : Generating(q, j)' => q = s
       /\ work'[s].op = "complete" => file'[j] # Nothing
       /\ work'[s].op = "excel" /\ report'[j] # Nothing => report'[j].type = "EXCEL"
  BY <1>1, <1>3, <1>4 DEF RepInv
<1> QED
  BY <1>1, <1>2, <1>4, <1>5, <1>6, <1>7 DEF RepInv, RepTypeOK

LEMMA RepRestartInv ==
  ASSUME RepInv, Restart
  PROVE  RepInv'
<1>1. \A s \in Requests, j \in ReportIds : ~Generating(s, j)'
  BY DEF Restart, Generating, Idle
<1> QED
  BY <1>1, IdleIsWork DEF Restart, RepInv, RepTypeOK, Reports, OfItsType, IsThere

LEMMA RepStep ==
  ASSUME RepInv, [RepNext]_repVars
  PROVE  RepInv'
<1>1. ASSUME NEW r \in Requests, NEW dto \in GenerateReportDto, GenerateReport(r, dto)
      PROVE  RepInv'
  <2> DEFINE step == [op |-> "create", type |-> dto.reportType]
  <2>1. Continue(r, step) /\ UNCHANGED <<report, file, streams, issued>>
    BY <1>1 DEF GenerateReport
  <2>2. step \in Work /\ step.op = "create"
    BY DEF Work, GenerateReportDto
  <2> HIDE DEF step
  <2> QED
    BY <2>1, <2>2, TurnsAway
<1>2. ASSUME NEW r \in Requests, NEW i \in ReportIds, DeleteReport(r, i)
      PROVE  RepInv'
  <2> DEFINE step == [op |-> "remove", id |-> i]
  <2>1. Continue(r, step) /\ UNCHANGED <<report, file, streams, issued>>
    BY <1>2 DEF DeleteReport
  <2>2. step \in Work /\ step.op = "remove"
    BY DEF Work
  <2> HIDE DEF step
  <2> QED
    BY <2>1, <2>2, TurnsAway
<1>3. ASSUME NEW r \in Requests, FlushThrows(r)
      PROVE  RepInv'
  BY <1>3, IdleIsWork, TurnsAway DEF FlushThrows, Answer
<1>4. CASE UNCHANGED repVars
  BY <1>4 DEF repVars, RepInv, RepTypeOK, Reports, Generating, OfItsType, IsThere
<1> QED
  BY <1>1, <1>2, <1>3, <1>4, PdfEndsInv, ReadFileInv, SaveFileInv, FlushCompletedInv,
     FlushRemovedInv, FlushReportInv, StreamWritesInv, StreamFailsInv, RepRestartInv
  DEF RepNext, ReportingController, Generates

(* CompletedIsThere, for any number of requests and reports: a COMPLETED   *)
(* row has a file to download, and a workbook is whole and is what was     *)
(* hashed, whatever was refused, deleted or restarted in between.          *)
THEOREM CompletedReportsAreThere == RepSpec => []CompletedIsThere
<1>1. RepInv => CompletedIsThere
  BY DEF RepInv, IsThere, CompletedIsThere, DownloadReport, GetReportById, Reports
<1> QED
  BY RepInitInv, RepStep, <1>1, PTL DEF RepSpec

-----------------------------------------------------------------------------
(* Mail.  What a mail has behind it: a mail that is not waiting for the    *)
(* queue's note has gone out at most once for every answer that was lost   *)
(* and every worker that died.                                             *)
TriesLeft(m) == job[m] \notin {"completed", "failed"} => tries[m] < Attempts
GoneOut(m) ==
  IF job[m] \in {"accepted", "completed"}
    THEN sent[m] > 0 /\ sent[m] <= lost[m] + stalls[m] + 1
    ELSE sent[m] <= lost[m] + stalls[m]
HasAlerts(c) == check[c].op = "alert" => check[c].alerts # <<>>

QueueTypeOK ==
  /\ configured \in BOOLEAN
  /\ job \in [Mails -> JobState]
  /\ tries \in [Mails -> 0 .. Attempts]
  /\ stalls \in [Mails -> Nat] /\ sent \in [Mails -> Nat] /\ lost \in [Mails -> Nat]
  /\ crashes \in 0 .. MaxCrashes

MonitorTypeOK ==
  /\ minute \in Nat /\ check \in [Checks -> Check]
  /\ lastFailedCount \in Nat /\ lastFailedAlertTime \in Nat

QueueInv == QueueTypeOK /\ \A m \in Mails : TriesLeft(m) /\ GoneOut(m)
MonitorInv ==
  MonitorTypeOK /\ \A c \in Checks : HasAlerts(c)

LEMMA QueueInitInv == MailInit => QueueInv
BY LimitsAreNat DEF MailInit, QueueInv, QueueTypeOK, JobState, TriesLeft, GoneOut

(* A step of the queue moves one job.                                      *)
LEMMA OneJobMoves ==
  ASSUME QueueInv, NEW m \in Mails, NEW state \in JobState, Move(m, state),
         UNCHANGED <<configured, stalls, crashes>>,
         tries' \in [Mails -> 0 .. Attempts],
         sent' \in [Mails -> Nat], lost' \in [Mails -> Nat],
         \A n \in Mails \ {m} :
           tries'[n] = tries[n] /\ sent'[n] = sent[n] /\ lost'[n] = lost[n],
         state \notin {"completed", "failed"} => tries'[m] < Attempts,
         IF state \in {"accepted", "completed"}
           THEN sent'[m] > 0 /\ sent'[m] <= lost'[m] + stalls[m] + 1
           ELSE sent'[m] <= lost'[m] + stalls[m]
  PROVE  QueueInv'
<1>1. job' \in [Mails -> JobState] /\ job'[m] = state
      /\ \A n \in Mails \ {m} : job'[n] = job[n]
  BY DEF Move, QueueInv, QueueTypeOK
<1>2. ASSUME NEW n \in Mails
      PROVE  TriesLeft(n)' /\ GoneOut(n)'
  <2>1. CASE n = m
    BY <1>1, <2>1 DEF TriesLeft, GoneOut
  <2>2. CASE n # m
    BY <1>1, <2>2 DEF QueueInv, TriesLeft, GoneOut
  <2> QED
    BY <2>1, <2>2
<1> QED
  BY <1>1, <1>2 DEF QueueInv, QueueTypeOK

LEMMA QueueStep ==
  ASSUME QueueInv, [MailNext]_mailVars
  PROVE  QueueInv'
<1> USE DEF JobState
<1>1. ASSUME NEW m \in Mails, AddMail(m) \/ TakeJob(m) \/ BackoffEnds(m)
      PROVE  QueueInv'
  <2>1. PICK state \in {"waiting", "active"} : Move(m, state)
    BY <1>1 DEF AddMail, TakeJob, BackoffEnds
  <2>2. UNCHANGED <<configured, tries, stalls, sent, lost, crashes>>
    BY <1>1 DEF AddMail, TakeJob, BackoffEnds
  <2>3. job[m] \in {"absent", "waiting", "delayed"}
    BY <1>1 DEF AddMail, TakeJob, BackoffEnds
  <2>4. /\ tries[m] < Attempts /\ sent[m] <= lost[m] + stalls[m]
        /\ tries \in [Mails -> 0 .. Attempts]
        /\ sent \in [Mails -> Nat] /\ lost \in [Mails -> Nat]
    BY <2>3 DEF QueueInv, QueueTypeOK, TriesLeft, GoneOut
  <2> QED
    BY <2>1, <2>2, <2>4, OneJobMoves
<1>2. ASSUME NEW m \in Mails, SendAccepted(m)
      PROVE  QueueInv'
  <2>1. /\ Move(m, "accepted") /\ UNCHANGED <<configured, tries, stalls, lost, crashes>>
        /\ job[m] = "active" /\ sent' = [sent EXCEPT ![m] = @ + 1]
    BY <1>2 DEF SendAccepted
  <2>2. /\ tries[m] < Attempts /\ sent[m] <= lost[m] + stalls[m]
        /\ sent[m] \in Nat /\ stalls[m] \in Nat /\ lost[m] \in Nat
        /\ tries \in [Mails -> 0 .. Attempts]
        /\ sent \in [Mails -> Nat] /\ lost \in [Mails -> Nat]
    BY <2>1 DEF QueueInv, QueueTypeOK, TriesLeft, GoneOut
  <2>3. sent' \in [Mails -> Nat] /\ sent'[m] = sent[m] + 1
        /\ \A n \in Mails \ {m} : sent'[n] = sent[n]
    BY <2>1, <2>2
  <2> QED
    BY <2>1, <2>2, <2>3, OneJobMoves
<1>3. ASSUME NEW m \in Mails, Complete(m)
      PROVE  QueueInv'
  <2>1. /\ Move(m, "completed") /\ UNCHANGED <<configured, tries, stalls, sent, lost, crashes>>
        /\ job[m] = "accepted"
    BY <1>3 DEF Complete
  <2>2. /\ sent[m] > 0 /\ sent[m] <= lost[m] + stalls[m] + 1
        /\ tries \in [Mails -> 0 .. Attempts]
        /\ sent \in [Mails -> Nat] /\ lost \in [Mails -> Nat]
    BY <2>1 DEF QueueInv, QueueTypeOK, GoneOut
  <2> QED
    BY <2>1, <2>2, OneJobMoves
<1>4. ASSUME NEW m \in Mails, ProcessJobThrows(m)
      PROVE  QueueInv'
  <2> DEFINE state == IF tries[m] + 1 < Attempts THEN "delayed" ELSE "failed"
  <2>1. /\ Move(m, state) /\ UNCHANGED <<configured, stalls, sent, crashes>>
        /\ job[m] \in {"active", "accepted"} /\ tries' = [tries EXCEPT ![m] = @ + 1]
        /\ lost' = IF job[m] = "accepted" THEN [lost EXCEPT ![m] = @ + 1] ELSE lost
    BY <1>4 DEF ProcessJobThrows, Active, In
  <2>2. /\ tries[m] < Attempts /\ tries[m] \in 0 .. Attempts
        /\ sent[m] \in Nat /\ stalls[m] \in Nat /\ lost[m] \in Nat
        /\ tries \in [Mails -> 0 .. Attempts]
        /\ sent \in [Mails -> Nat] /\ lost \in [Mails -> Nat]
    BY <2>1 DEF QueueInv, QueueTypeOK, TriesLeft
  <2>3. /\ tries' \in [Mails -> 0 .. Attempts] /\ tries'[m] = tries[m] + 1
        /\ \A n \in Mails \ {m} : tries'[n] = tries[n]
    BY <2>1, <2>2, LimitsAreNat
  <2>4. lost' \in [Mails -> Nat] /\ \A n \in Mails \ {m} : lost'[n] = lost[n]
    BY <2>1, <2>2
  <2>5. sent[m] <= lost'[m] + stalls[m]
    <3>1. CASE job[m] = "accepted"
      <4>1. lost'[m] = lost[m] + 1 /\ sent[m] <= lost[m] + stalls[m] + 1
        BY <2>1, <2>2, <3>1 DEF QueueInv, GoneOut
      <4> QED
        BY <2>2, <4>1
    <3>2. CASE job[m] = "active"
      BY <2>1, <3>2 DEF QueueInv, GoneOut
    <3> QED
      BY <2>1, <3>1, <3>2
  <2> QED
    BY <2>1, <2>2, <2>3, <2>4, <2>5, OneJobMoves
<1>5. CASE Crash
  <2>1. ASSUME NEW m \in Mails, m \in Active
        PROVE  /\ job[m] \in {"active", "accepted"} /\ job'[m] \in {"waiting", "failed"}
               /\ stalls'[m] = stalls[m] + 1
    BY <1>5, <2>1 DEF Crash, Active, In
  <2>2. ASSUME NEW m \in Mails, m \notin Active
        PROVE  job'[m] = job[m] /\ stalls'[m] = stalls[m]
    BY <1>5, <2>2 DEF Crash
  <2>3. stalls' \in [Mails -> Nat] /\ job' \in [Mails -> JobState]
    BY <1>5 DEF Crash, QueueInv, QueueTypeOK
  <2>4. crashes' \in 0 .. MaxCrashes /\ UNCHANGED <<configured, tries, sent, lost>>
    BY <1>5, LimitsAreNat DEF Crash, QueueInv, QueueTypeOK
  <2>5. ASSUME NEW m \in Mails
        PROVE  TriesLeft(m)' /\ GoneOut(m)'
    <3>1. CASE m \in Active
      BY <2>1, <2>4, <3>1 DEF QueueInv, QueueTypeOK, TriesLeft, GoneOut
    <3>2. CASE m \notin Active
      BY <2>2, <2>4, <3>2 DEF QueueInv, TriesLeft, GoneOut
    <3> QED
      BY <3>1, <3>2
  <2> QED
    BY <2>3, <2>4, <2>5 DEF QueueInv, QueueTypeOK
<1>6. CASE UNCHANGED queueVars
  BY <1>6 DEF queueVars, QueueInv, QueueTypeOK, TriesLeft, GoneOut
<1>7. CASE \E c \in Checks : MonitorQueue(c) \/ GetMonitorStats(c) \/ MonitorSteps(c)
  BY <1>6, <1>7
  DEF MonitorQueue, GetMonitorStats, MonitorSteps, GetHealthStatus, StatsFail, SendAlert
<1> QED
  BY <1>1, <1>2, <1>3, <1>4, <1>5, <1>6, <1>7 DEF MailNext, Send, mailVars

(* CompletedWasSent, for any number of mails, attempts and deaths of the   *)
(* process: a completed job's mail has gone out, and goes out once more    *)
(* than its answers were lost and its workers died at most.                *)
THEOREM CompletedMailsWereSent == MailSpec => []CompletedWasSent
<1>1. QueueInv => CompletedWasSent
  BY DEF QueueInv, QueueTypeOK, GoneOut, CompletedWasSent
<1> QED
  BY QueueInitInv, QueueStep, <1>1, PTL DEF MailSpec

LEMMA MonitorInitInv == MailInit => MonitorInv
BY LimitsAreNat DEF MailInit, MonitorInv, MonitorTypeOK, HasAlerts, Check, Free

LEMMA CountIsNat ==
  ASSUME IsFiniteSet(Mails), NEW states
  PROVE  Cardinality(In(states)) \in Nat
BY FS_Subset, FS_CardinalityType DEF In

LEMMA StatsTyped ==
  ASSUME IsFiniteSet(Mails)
  PROVE  GetStats \in Stats
BY CountIsNat DEF GetStats, Stats

LEMMA AlertsTyped ==
  ASSUME NEW s \in Stats
  PROVE  AlertsOf(s) \in Seq(Alert)
<1> DEFINE one(alert, when) == IF when THEN <<alert>> ELSE <<>>
<1>1. ASSUME NEW alert \in Alert, NEW when
      PROVE  one(alert, when) \in Seq(Alert)
  OBVIOUS
<1>2. ASSUME NEW p \in Seq(Alert), NEW q \in Seq(Alert)
      PROVE  p \o q \in Seq(Alert)
  OBVIOUS
<1>3. AlertsOf(s) = one("backlog", s.waiting > WaitingMax)
                      \o one("failures", s.failed > FailedMax)
                      \o one("rate", FailedRateAbove10(s)) \o one("growth", Grows(s))
  BY Zenon DEF AlertsOf
<1>4. {"backlog", "failures", "rate", "growth"} \subseteq Alert
  BY DEF Alert
<1> HIDE DEF one
<1>5. one("backlog", s.waiting > WaitingMax) \o one("failures", s.failed > FailedMax)
        \in Seq(Alert)
  BY <1>1, <1>2, <1>4
<1>6. one("backlog", s.waiting > WaitingMax) \o one("failures", s.failed > FailedMax)
        \o one("rate", FailedRateAbove10(s)) \in Seq(Alert)
  BY <1>1, <1>2, <1>4, <1>5
<1> QED
  BY <1>1, <1>2, <1>3, <1>4, <1>6

(* A check of the monitor takes one step.                                  *)
LEMMA OneCheckMoves ==
  ASSUME MonitorInv, NEW c \in Checks, NEW step \in Check,
         check' = [check EXCEPT ![c] = step], step.op = "alert" => step.alerts # <<>>,
         minute' \in Nat, lastFailedCount' \in Nat, lastFailedAlertTime' \in Nat
  PROVE  MonitorInv'
BY DEF MonitorInv, MonitorTypeOK, HasAlerts

LEMMA MonitorStep ==
  ASSUME IsFiniteSet(Mails), MonitorInv, [MailNext]_mailVars
  PROVE  MonitorInv'
<1>1. ASSUME NEW c \in Checks, MonitorQueue(c) \/ GetMonitorStats(c)
      PROVE  MonitorInv'
  <2> DEFINE step(mails) == [op |-> "evaluate", stats |-> GetStats, mails |-> mails]
  <2>1. PICK mails \in BOOLEAN : check' = [check EXCEPT ![c] = step(mails)]
    BY <1>1 DEF MonitorQueue, GetMonitorStats
  <2>2. step(mails) \in Check /\ step(mails).op = "evaluate"
    BY StatsTyped DEF Check
  <2>3. minute' \in Nat /\ UNCHANGED <<lastFailedCount, lastFailedAlertTime>>
    BY <1>1 DEF MonitorQueue, GetMonitorStats, MonitorInv, MonitorTypeOK
  <2> HIDE DEF step
  <2> QED
    BY <2>1, <2>2, <2>3, OneCheckMoves DEF MonitorInv, MonitorTypeOK
<1>2. ASSUME NEW c \in Checks, GetHealthStatus(c)
      PROVE  MonitorInv'
  <2> DEFINE s == check[c].stats
             step == IF check[c].mails /\ AlertsOf(s) # <<>>
                       THEN [op |-> "alert", alerts |-> AlertsOf(s), failed |-> s.failed]
                       ELSE Free
  <2>1. check[c] \in Check /\ check[c].op = "evaluate"
    BY <1>2 DEF GetHealthStatus, MonitorInv, MonitorTypeOK
  <2>2. s \in Stats
    BY <2>1 DEF Check
  <2>3. AlertsOf(s) \in Seq(Alert) /\ s.failed \in Nat
    BY <2>2, AlertsTyped DEF Stats
  <2>4. step \in Check /\ (step.op = "alert" => step.alerts # <<>>)
    BY <2>3 DEF Check, Free
  <2>5. check' = [check EXCEPT ![c] = step] /\ UNCHANGED minute
    BY <1>2 DEF GetHealthStatus
  <2>6. lastFailedCount' \in Nat
    BY <1>2, <2>3 DEF GetHealthStatus, MonitorInv, MonitorTypeOK
  <2>7. lastFailedAlertTime' \in Nat
    BY <1>2 DEF GetHealthStatus, MonitorInv, MonitorTypeOK
  <2> HIDE DEF step
  <2> QED
    BY <2>4, <2>5, <2>6, <2>7, OneCheckMoves DEF MonitorInv, MonitorTypeOK
<1>3. ASSUME NEW c \in Checks, SendAlert(c)
      PROVE  MonitorInv'
  <2> DEFINE rest == Tail(check[c].alerts)
             step == IF rest # <<>> THEN [check[c] EXCEPT !.alerts = rest] ELSE Free
  <2>1. check[c] \in Check /\ check[c].op = "alert" /\ check[c].alerts # <<>>
    BY <1>3 DEF SendAlert, MonitorInv, MonitorTypeOK, HasAlerts
  <2>2. check[c] \in [op : {"alert"}, alerts : Seq(Alert), failed : Nat]
    BY <2>1 DEF Check
  <2>3. rest \in Seq(Alert) /\ check[c].failed \in Nat
    BY <2>1, <2>2
  <2>4. step \in Check /\ (step.op = "alert" => step.alerts # <<>>)
    BY <2>2, <2>3 DEF Check, Free
  <2>5. check' = [check EXCEPT ![c] = step]
        /\ UNCHANGED <<minute, lastFailedAlertTime>>
    BY <1>3 DEF SendAlert
  <2>6. lastFailedCount' \in Nat
    BY <1>3, <2>3 DEF SendAlert, MonitorInv, MonitorTypeOK
  <2> HIDE DEF step
  <2> QED
    BY <2>4, <2>5, <2>6, OneCheckMoves DEF MonitorInv, MonitorTypeOK
<1>4. CASE Crash \/ \E c \in Checks : StatsFail(c)
  BY <1>4 DEF Crash, StatsFail, MonitorInv, MonitorTypeOK, HasAlerts, Check, Free
<1>5. CASE UNCHANGED monitorVars
  BY <1>5 DEF monitorVars, MonitorInv, MonitorTypeOK, HasAlerts
<1>6. CASE \E m \in Mails :
             AddMail(m) \/ TakeJob(m) \/ Send(m) \/ Complete(m) \/ BackoffEnds(m)
  BY <1>5, <1>6
  DEF AddMail, TakeJob, Send, SendAccepted, ProcessJobThrows, Complete, BackoffEnds
<1> QED
  BY <1>1, <1>2, <1>3, <1>4, <1>5, <1>6 DEF MailNext, MonitorSteps, mailVars

(* The type invariant of the queue and its monitor.                        *)
THEOREM MailTypeCorrect ==
  ASSUME IsFiniteSet(Mails)
  PROVE  MailSpec => []MailTypeOK
<1>1. QueueInv /\ MonitorInv => MailTypeOK
  BY DEF QueueInv, QueueTypeOK, MonitorInv, MonitorTypeOK, MailTypeOK
<1> QED
  BY QueueInitInv, QueueStep, MonitorInitInv, MonitorStep, <1>1, PTL DEF MailSpec

-----------------------------------------------------------------------------
(* McpServer.  The registry, whatever list was registered and wherever the *)
(* registration of it threw.                                               *)
Registry == [ToolNames -> Tool \cup {Blank}]
Registering == [tools: Registry, threw: BOOLEAN]

LEMMA RegisterToolTyped ==
  ASSUME linked \in BOOLEAN, NEW done \in Registering, NEW t \in Tool
  PROVE  RegisterTool(done, t) \in Registering
<1>1. CASE done.threw \/ t.name = Blank
  BY <1>1 DEF RegisterTool, Registering
<1>2. CASE ~done.threw /\ t.name # Blank
  <2>1. t.name \in ToolNames
    BY <1>2 DEF Tool
  <2>2. [done.tools EXCEPT ![t.name] = t] \in Registry
    BY <2>1 DEF Registering, Registry
  <2> QED
    BY <1>2, <2>2 DEF RegisterTool, Registering
<1> QED
  BY <1>1, <1>2

LEMMA GreatestOfTwo == Max({1}) = 1 /\ Max({2}) = 2 /\ Max({1, 2}) = 2
<1>1. Max({1}) = 1
  BY DEF Max
<1>2. Max({2}) = 2
  BY DEF Max
<1>3. 2 \in {1, 2} /\ \A y \in {1, 2} : 2 >= y
  OBVIOUS
<1>4. Max({1, 2}) \in {1, 2} /\ \A y \in {1, 2} : Max({1, 2}) >= y
  BY <1>3 DEF Max
<1> QED
  BY <1>1, <1>2, <1>4

(* registerTools takes its tools one after the other.  The fold is a       *)
(* recursive function; that there is one (g) has to be shown first.        *)
LEMMA RegisterToolsTyped ==
  ASSUME linked \in BOOLEAN, NEW base \in Registering, NEW list \in SeqOf(Tool, 2)
  PROVE  FoldLeft(RegisterTool, base, list) \in Registering
<1> DEFINE S == DOMAIN list
           Is(f) == f = [s \in SUBSET S |->
                          IF s = {} THEN base
                          ELSE RegisterTool(f[s \ {Max(s)}], list[Max(s)])]
           iter == CHOOSE f : Is(f)
           first == RegisterTool(base, list[1])
           second == RegisterTool(base, list[2])
           g == [s \in SUBSET S |->
                  IF s = {} THEN base ELSE IF s = {1} THEN first
                  ELSE IF s = {2} THEN second ELSE RegisterTool(first, list[2])]
<1>1. FoldLeft(RegisterTool, base, list) = iter[S]
  BY Zenon DEF FoldLeft, MapThenFoldSet
<1>2. PICK m \in 0 .. 2 : list \in [1 .. m -> Tool]
  BY DEF SeqOf
<1>3. S \in {{}, {1}, {1, 2}} /\ \A i \in S : list[i] \in Tool
  BY <1>2
<1>4. \A s \in SUBSET S : s \in {{}, {1}, {2}, {1, 2}}
  BY <1>3
<1>5. Is(g)
  <2>1. ASSUME NEW s \in SUBSET S
        PROVE  g[s] = IF s = {} THEN base ELSE RegisterTool(g[s \ {Max(s)}], list[Max(s)])
    <3> HIDE DEF first, second
    <3>1. CASE s = {}
      BY <3>1
    <3>2. CASE s = {1}
      <4>1. s \ {Max(s)} = {} /\ Max(s) = 1
        BY <3>2, GreatestOfTwo
      <4> QED
        BY <3>2, <4>1 DEF first
    <3>3. CASE s = {2}
      <4>1. s \ {Max(s)} = {} /\ Max(s) = 2
        BY <3>3, GreatestOfTwo
      <4> QED
        BY <3>3, <4>1 DEF second
    <3>4. CASE s = {1, 2}
      <4>1. s \ {Max(s)} = {1} /\ Max(s) = 2 /\ {1} \in SUBSET S
        BY <3>4, GreatestOfTwo
      <4> QED
        BY <3>4, <4>1
    <3> QED
      BY <1>4, <3>1, <3>2, <3>3, <3>4
  <2>2. g = [s \in SUBSET S |-> g[s]]
    BY Zenon
  <2> HIDE DEF g
  <2> QED
    BY <2>1, <2>2
<1>6. Is(iter)
  BY <1>5, Zenon
<1>7. \A s \in SUBSET S :
        iter[s] = IF s = {} THEN base ELSE RegisterTool(iter[s \ {Max(s)}], list[Max(s)])
  BY <1>6, Zenon
<1> HIDE DEF iter
<1>8. iter[{}] = base
  BY <1>7
<1>9. 1 \in S => iter[{1}] = first
  <2> SUFFICES ASSUME 1 \in S PROVE iter[{1}] = first
    OBVIOUS
  <2>1. {1} \in SUBSET S /\ {1} # {} /\ {1} \ {1} = {}
    OBVIOUS
  <2> QED
    BY <1>7, <1>8, <2>1, GreatestOfTwo
<1>10. S = {1, 2} => iter[S] = RegisterTool(first, list[2])
  <2> SUFFICES ASSUME S = {1, 2} PROVE iter[{1, 2}] = RegisterTool(first, list[2])
    OBVIOUS
  <2>1. {1, 2} \in SUBSET S /\ {1, 2} # {} /\ {1, 2} \ {2} = {1}
    OBVIOUS
  <2> HIDE DEF first
  <2> QED
    BY <1>7, <1>9, <2>1, GreatestOfTwo
<1>11. 1 \in S => first \in Registering
  BY <1>3, RegisterToolTyped
<1> HIDE DEF S, first
<1>12. S = {1, 2} => RegisterTool(first, list[2]) \in Registering
  BY <1>3, <1>11, RegisterToolTyped
<1> QED
  BY <1>1, <1>3, <1>8, <1>9, <1>10, <1>11, <1>12

LifeTypeOK ==
  /\ {authEnabled, isStarted, linked, attached, isLoggingIn, overlapped} \subseteq BOOLEAN
  /\ sessionId \in SessionIds \cup {Blank}
  /\ liveSessions \subseteq SessionIds /\ made \in SessionIds
  /\ actor \in [Actors -> Place]

(* While no two starts overlap, the one in flight looks for the session of *)
(* the server, and makes a new one only when there is none.                *)
OneStart ==
  /\ \A a, b \in Starting : a = b
  /\ liveSessions \subseteq {sessionId}
  /\ \A a \in Actors : At(a, "find") => actor[a].id = sessionId
  /\ \A a \in Actors : At(a, "create") => liveSessions = {}

ServerInv ==
  /\ LifeTypeOK /\ tools \in Registry
  /\ ~overlapped => OneStart

LEMMA ServerInitInv == ServerInit => ServerInv
<1> SUFFICES ASSUME ServerInit PROVE ServerInv
  OBVIOUS
<1>1. 0 \in SessionIds
  BY ServerAssumption DEF SessionIds
<1>2. /\ sessionId \in SessionIds \cup {Blank} /\ liveSessions \subseteq SessionIds
      /\ liveSessions \subseteq {sessionId}
  BY <1>1 DEF ServerInit
<1>3. actor \in [Actors -> Place] /\ \A a \in Actors : actor[a].op = "idle"
  BY DEF ServerInit, Place
<1>4. LifeTypeOK
  BY <1>1, <1>2, <1>3 DEF ServerInit, LifeTypeOK
<1>5. OneStart
  BY <1>2, <1>3 DEF OneStart, Starting, At
<1>6. tools \in Registry
  BY DEF ServerInit, Registry
<1> QED
  BY <1>4, <1>5, <1>6 DEF ServerInv

LEMMA PlaceShape ==
  ASSUME ServerInv, NEW a \in Actors
  PROVE  At(a, "find") \/ At(a, "create") => actor[a].id \in SessionIds
BY DEF ServerInv, LifeTypeOK, Place, At

(* A call goes on; sessions are left alone.                                *)
LEMMA ActorMoves ==
  ASSUME ServerInv, NEW a \in Actors, NEW place \in Place, Move2(a, place),
         UNCHANGED <<authEnabled, sessionId, tools, overlapped>>,
         {isStarted', linked', attached', isLoggingIn'} \subseteq BOOLEAN,
         made' \in SessionIds, liveSessions' \subseteq liveSessions,
         place.op \in {"connect", "login", "find", "create"} => a \in Starting,
         place.op = "find" => place.id = sessionId,
         place.op = "create" /\ ~overlapped => liveSessions' = {}
  PROVE  ServerInv'
<1>1. actor' \in [Actors -> Place] /\ actor'[a] = place
      /\ \A b \in Actors \ {a} : actor'[b] = actor[b]
  BY DEF Move2, ServerInv, LifeTypeOK
<1>2. Starting' \subseteq Starting
  BY <1>1 DEF Starting
<1>3. ~overlapped' => OneStart'
  BY <1>1, <1>2 DEF ServerInv, OneStart, At
<1>4. LifeTypeOK'
  BY <1>1 DEF ServerInv, LifeTypeOK
<1> QED
  BY <1>3, <1>4 DEF ServerInv

LEMMA ThenSessionMoves ==
  ASSUME ServerInv, NEW a \in Actors, ThenSession(a)
  PROVE  \E place \in Place :
           /\ Move2(a, place) /\ place.op \in {"idle", "find"}
           /\ place.op = "find" => place.id = sessionId
<1>1. CASE sessionId = Blank
  <2>1. Move2(a, [op |-> "idle"]) /\ [op |-> "idle"] \in Place
    BY <1>1 DEF ThenSession, Done, Place
  <2> QED
    BY <2>1
<1>2. CASE sessionId # Blank
  <2> DEFINE place == [op |-> "find", id |-> sessionId]
  <2>1. Move2(a, place)
    BY <1>2 DEF ThenSession
  <2>2. place \in Place /\ place.op = "find" /\ place.id = sessionId
    BY <1>2 DEF ServerInv, LifeTypeOK, Place
  <2> QED
    BY <2>1, <2>2
<1> QED
  BY <1>1, <1>2

LEMMA StartServerInv ==
  ASSUME ServerInv, NEW a \in Actors, StartServer(a)
  PROVE  ServerInv'
<1> DEFINE place == [op |-> "connect"]
<1>1. /\ linked' = TRUE /\ Move2(a, place) /\ overlapped' = (overlapped \/ Starting # {})
      /\ UNCHANGED <<authEnabled, isStarted, attached, sessionId, liveSessions, made,
                     isLoggingIn, tools>>
  BY DEF StartServer
<1>2. place \in Place /\ place.op = "connect"
  BY DEF Place
<1> HIDE DEF place
<1>3. actor' \in [Actors -> Place] /\ actor'[a] = place
      /\ \A b \in Actors \ {a} : actor'[b] = actor[b]
  BY <1>1, <1>2 DEF Move2, ServerInv, LifeTypeOK
<1>4. ~overlapped' => OneStart'
  <2> SUFFICES ASSUME ~overlapped' PROVE OneStart'
    OBVIOUS
  <2>1. Starting = {} /\ OneStart
    BY <1>1 DEF ServerInv
  <2>2. Starting' \subseteq {a}
    BY <1>3, <2>1 DEF Starting
  <2> QED
    BY <1>1, <1>2, <1>3, <2>1, <2>2 DEF OneStart, At
<1>5. LifeTypeOK'
  BY <1>1, <1>3 DEF ServerInv, LifeTypeOK
<1> QED
  BY <1>1, <1>4, <1>5 DEF ServerInv

(* A step of start that goes on with the session.                          *)
LEMMA ConnectsInv ==
  ASSUME ServerInv, NEW a \in Actors, TransportConnects(a) \/ InitializeAuth(a)
  PROVE  ServerInv'
<1>1. a \in Starting
  BY DEF TransportConnects, InitializeAuth, At, Starting
<1>2. /\ UNCHANGED <<authEnabled, sessionId, tools, overlapped, liveSessions, made>>
      /\ {isStarted', linked', attached', isLoggingIn'} \subseteq BOOLEAN
  BY DEF TransportConnects, InitializeAuth, ServerInv, LifeTypeOK
<1>3. made' \in SessionIds /\ liveSessions' \subseteq liveSessions
  BY <1>2 DEF ServerInv, LifeTypeOK
<1>4. PICK place \in Place :
        /\ Move2(a, place) /\ place.op \in {"idle", "find", "login"}
        /\ place.op = "find" => place.id = sessionId
  <2>1. CASE ThenSession(a)
    BY <2>1, ThenSessionMoves
  <2>2. CASE Move2(a, [op |-> "login"])
    <3>1. [op |-> "login"] \in Place
      BY DEF Place
    <3> QED
      BY <2>2, <3>1
  <2> QED
    BY <2>1, <2>2 DEF TransportConnects, InitializeAuth
<1> QED
  BY <1>1, <1>2, <1>3, <1>4, ActorMoves

LEMMA InitializeSessionInv ==
  ASSUME ServerInv, NEW a \in Actors, InitializeSession(a)
  PROVE  ServerInv'
<1>1. /\ At(a, "find") /\ a \in Starting /\ actor[a].id \in SessionIds
      /\ UNCHANGED <<authEnabled, isStarted, linked, attached, sessionId, liveSessions,
                     isLoggingIn, overlapped, tools>>
  BY PlaceShape DEF InitializeSession, At, Starting
<1>2. {isStarted', linked', attached', isLoggingIn'} \subseteq BOOLEAN
  BY <1>1 DEF ServerInv, LifeTypeOK
<1>3. CASE Done(a) /\ UNCHANGED made
  <2>1. [op |-> "idle"] \in Place
    BY DEF Place
  <2>2. made' \in SessionIds
    BY <1>3 DEF ServerInv, LifeTypeOK
  <2> QED
    BY <1>1, <1>2, <1>3, <2>1, <2>2, ActorMoves DEF Done
<1>4. CASE ~(actor[a].id \in liveSessions)
  <2> DEFINE place == [op |-> "create", id |-> made']
  <2>1. made < MaxSessions /\ made' = made + 1 /\ Move2(a, place)
    BY <1>4 DEF InitializeSession
  <2>2. made' \in SessionIds
    BY <2>1, ServerAssumption DEF ServerInv, LifeTypeOK, SessionIds
  <2>3. place \in Place /\ place.op = "create"
    BY <2>2 DEF Place
  <2>4. ~overlapped => liveSessions' = {}
    BY <1>1, <1>4 DEF ServerInv, OneStart
  <2> HIDE DEF place
  <2> QED
    BY <1>1, <1>2, <2>1, <2>2, <2>3, <2>4, ActorMoves
<1> QED
  BY <1>3, <1>4 DEF InitializeSession

LEMMA SessionCreatedInv ==
  ASSUME ServerInv, NEW a \in Actors, SessionCreated(a)
  PROVE  ServerInv'
<1> DEFINE place == [op |-> "idle"]
<1>1. /\ At(a, "create") /\ a \in Starting /\ actor[a].id \in SessionIds /\ Move2(a, place)
      /\ liveSessions' = liveSessions \cup {actor[a].id} /\ sessionId' = actor[a].id
      /\ UNCHANGED <<authEnabled, isStarted, linked, attached, made, isLoggingIn, overlapped,
                     tools>>
  BY PlaceShape DEF SessionCreated, At, Starting, Done
<1>2. place \in Place /\ place.op = "idle"
  BY DEF Place
<1> HIDE DEF place
<1>3. actor' \in [Actors -> Place] /\ actor'[a] = place
      /\ \A b \in Actors \ {a} : actor'[b] = actor[b]
  BY <1>1, <1>2 DEF Move2, ServerInv, LifeTypeOK
<1>4. ~overlapped' => OneStart'
  <2> SUFFICES ASSUME ~overlapped' PROVE OneStart'
    OBVIOUS
  <2>1. OneStart /\ liveSessions = {}
    BY <1>1 DEF ServerInv, OneStart
  <2>2. \A b \in Actors : ~At(b, "find")' /\ ~At(b, "create")'
    BY <1>1, <1>2, <1>3, <2>1 DEF OneStart, At, Starting
  <2>3. Starting' \subseteq Starting
    BY <1>2, <1>3 DEF Starting
  <2> QED
    BY <1>1, <2>1, <2>2, <2>3 DEF OneStart
<1>5. LifeTypeOK'
  BY <1>1, <1>3 DEF ServerInv, LifeTypeOK
<1> QED
  BY <1>1, <1>4, <1>5 DEF ServerInv

LEMMA InvokeToolInv ==
  ASSUME ServerInv, NEW a \in Actors, NEW n \in ToolNames, NEW args \in Args,
         InvokeTool(a, n, args)
  PROVE  ServerInv'
<1> DEFINE place == [op |-> "execute", tool |-> tools[n], args |-> args]
<1>1. /\ tools[n] # Blank /\ Move2(a, place)
      /\ UNCHANGED <<authEnabled, isStarted, linked, attached, sessionId, liveSessions, made,
                     isLoggingIn, overlapped, tools>>
  BY DEF InvokeTool
<1>2. tools[n] \in Tool
  BY <1>1 DEF ServerInv, Registry
<1>3. place \in Place /\ place.op = "execute"
  BY <1>2 DEF Place
<1>4. /\ {isStarted', linked', attached', isLoggingIn'} \subseteq BOOLEAN
      /\ made' \in SessionIds /\ liveSessions' \subseteq liveSessions
  BY <1>1 DEF ServerInv, LifeTypeOK
<1> HIDE DEF place
<1> QED
  BY <1>1, <1>2, <1>3, <1>4, ActorMoves

(* The registry changes, the calls in flight do not.                       *)
LEMMA RegistryInv ==
  ASSUME ServerInv, tools' \in Registry, UNCHANGED lifeVars
  PROVE  ServerInv'
BY DEF lifeVars, ServerInv, LifeTypeOK, OneStart, Starting, At

LEMMA ServerStep ==
  ASSUME ServerInv, [ServerNext]_serverVars
  PROVE  ServerInv'
<1>1. ASSUME NEW a \in Actors,
             \/ TransportFails(a) \/ SessionFails(a) \/ StopServer(a) \/ ServerStopped(a)
             \/ ExecuteSettles(a)
      PROVE  ServerInv'
  <2>1. PICK place \in {[op |-> "idle"], [op |-> "close"]} : Move2(a, place)
    BY <1>1 DEF TransportFails, SessionFails, StopServer, ServerStopped, ExecuteSettles, Done
  <2>2. place \in Place /\ place.op \in {"idle", "close"}
    BY DEF Place
  <2>3. UNCHANGED <<authEnabled, sessionId, tools, overlapped, made, liveSessions>>
    BY <1>1 DEF TransportFails, SessionFails, StopServer, ServerStopped, ExecuteSettles
  <2>4. {isStarted', linked', attached', isLoggingIn'} \subseteq BOOLEAN
    BY <1>1
    DEF TransportFails, SessionFails, StopServer, ServerStopped, ExecuteSettles, ServerInv,
        LifeTypeOK
  <2>5. made' \in SessionIds /\ liveSessions' \subseteq liveSessions
    BY <2>3 DEF ServerInv, LifeTypeOK
  <2> QED
    BY <2>1, <2>2, <2>3, <2>4, <2>5, ActorMoves
<1>2. ASSUME NEW s \in SessionIds, SessionExpires(s)
      PROVE  ServerInv'
  BY <1>2
  DEF SessionExpires, ServerInv, LifeTypeOK, OneStart, Starting, At
<1>3. ASSUME NEW list \in SeqOf(Tool, 2), RegisterTools(list)
      PROVE  ServerInv'
  <2> DEFINE base == [tools |-> tools, threw |-> FALSE]
             done == FoldLeft(RegisterTool, base, list)
  <2>1. base \in Registering /\ linked \in BOOLEAN
    BY DEF ServerInv, LifeTypeOK, Registering
  <2>2. tools' = done.tools /\ UNCHANGED lifeVars
    BY <1>3 DEF RegisterTools
  <2> HIDE DEF base
  <2>3. done \in Registering
    BY <2>1, RegisterToolsTyped
  <2> HIDE DEF done
  <2> QED
    BY <2>2, <2>3, RegistryInv DEF Registering
<1>4. ASSUME NEW n \in ToolNames, UnregisterTool(n)
      PROVE  ServerInv'
  <2>1. tools' \in Registry /\ UNCHANGED lifeVars
    BY <1>4 DEF UnregisterTool, ServerInv, Registry
  <2> QED
    BY <2>1, RegistryInv
<1>5. CASE ClearTools
  <2>1. tools' \in Registry /\ UNCHANGED lifeVars
    BY <1>5 DEF ClearTools, Registry
  <2> QED
    BY <2>1, RegistryInv
<1>6. CASE UNCHANGED serverVars
  <2>1. tools' \in Registry /\ UNCHANGED lifeVars
    BY <1>6 DEF serverVars, ServerInv, Registry
  <2> QED
    BY <2>1, RegistryInv
<1> QED
  BY <1>1, <1>2, <1>3, <1>4, <1>5, <1>6, StartServerInv, ConnectsInv, InitializeSessionInv,
     SessionCreatedInv, InvokeToolInv
  DEF ServerNext

(* OneSession, for any number of calls, sessions and tools: as long as no  *)
(* start begins while another is in flight, one session of the server is   *)
(* alive at most.                                                          *)
THEOREM OneSessionAlive == ServerSpec => []OneSession
<1>1. ServerInv => OneSession
  <2> SUFFICES ASSUME ServerInv, ~overlapped PROVE Cardinality(liveSessions) <= 1
    BY DEF OneSession
  <2>1. liveSessions = {} \/ liveSessions = {sessionId}
    BY DEF ServerInv, OneStart
  <2>2. Cardinality({}) = 0 /\ Cardinality({sessionId}) = 1
    BY FS_EmptySet, FS_Singleton
  <2> QED
    BY <2>1, <2>2
<1> QED
  BY ServerInitInv, ServerStep, <1>1, PTL DEF ServerSpec

(* TransportsAgree: the HTTP and the WebSocket transport answer every      *)
(* request that can be read alike, and only an attached server with a      *)
(* result.                                                                 *)
THEOREM BothTransportsAgree == ServerSpec => []TransportsAgree
<1>1. TransportsAgree
  BY DEF TransportsAgree, Request, HandleJsonRpcRequest, OnMessage, HandleRequest, HttpMethod,
         WsMethod, ListTools, CallTool, Initialize, Reply
<1> QED
  BY <1>1, PTL

(* The type invariants of the reports and of the server.                   *)
THEOREM ReportsTypeCorrect == RepSpec => []RepTypeOK
<1>1. RepInv => RepTypeOK
  BY DEF RepInv
<1> QED
  BY RepInitInv, RepStep, <1>1, PTL DEF RepSpec

THEOREM ServerTypeCorrect == ServerSpec => []ServerTypeOK
<1>1. ServerInv => ServerTypeOK
  BY DEF ServerInv, LifeTypeOK, Registry, ServerTypeOK
<1> QED
  BY ServerInitInv, ServerStep, <1>1, PTL DEF ServerSpec


-----------------------------------------------------------------------------
(* ApiClient.  No login ever brings a token, and the flag is up while one  *)
(* is on the wire, so there is one at most.                                *)
LoggingIn(c) == client[c].op \in {"login", "testLogin"}

ClientInv ==
  /\ ClientTypeOK
  /\ \A c \in Clients : LoggingIn(c) => loginBusy
  /\ \A c, d \in Clients : LoggingIn(c) /\ LoggingIn(d) => c = d

(* The response of axios has the body under data, so login finds nothing.  *)
LEMMA LoginKeepsNothing ==
  ASSUME NEW c \in Clients, LoginEnds(c), token = NoToken
  PROVE  token' = NoToken
<1>1. "token" \notin DOMAIN AxiosResponse(LoginBody)
  BY DEF AxiosResponse
<1>2. ~Kept(AxiosResponse(LoginBody))
  BY <1>1 DEF Kept, Field
<1>3. QED
  BY <1>2 DEF LoginEnds

(* Where a call that turns to another place leaves the invariant.          *)
LEMMA TurnKeeps ==
  ASSUME ClientInv, NEW c \in Clients, NEW place \in ClientPlace, Turn(c, place),
         token' = token, refreshBusy' = refreshBusy, autoLogin' = autoLogin,
         hasCredentials' = hasCredentials, verdict' \in [Clients -> {"none", "success", "failure"}],
         loginBusy' \in BOOLEAN,
         \/ place.op \in {"login", "testLogin"} /\ ~loginBusy /\ loginBusy'
         \/ place.op \notin {"login", "testLogin"} /\ (LoggingIn(c) \/ loginBusy' = loginBusy)
  PROVE  ClientInv'
<1>1. client' \in [Clients -> ClientPlace]
      /\ \A d \in Clients : client'[d] = IF d = c THEN place ELSE client[d]
  BY DEF ClientInv, ClientTypeOK, Turn
<1>2. ClientTypeOK'
  BY <1>1 DEF ClientInv, ClientTypeOK
<1>3. \A d \in Clients : LoggingIn(d) => loginBusy
  BY DEF ClientInv
<1>4. \A d, e \in Clients : LoggingIn(d) /\ LoggingIn(e) => d = e
  BY DEF ClientInv
<1>5. CASE place.op \in {"login", "testLogin"} /\ ~loginBusy /\ loginBusy'
  <2>1. \A d \in Clients : LoggingIn(d)' => d = c
    BY <1>1, <1>3, <1>5 DEF LoggingIn
  <2>2. QED
    BY <1>2, <1>5, <2>1 DEF ClientInv
<1>6. CASE place.op \notin {"login", "testLogin"} /\ (LoggingIn(c) \/ loginBusy' = loginBusy)
  <2>1. \A d \in Clients : LoggingIn(d)' => d # c /\ LoggingIn(d)
    BY <1>1, <1>6 DEF LoggingIn
  <2>2. \A d \in Clients : LoggingIn(d)' => loginBusy'
    BY <1>3, <1>4, <1>6, <2>1
  <2>3. QED
    BY <1>2, <1>4, <2>1, <2>2 DEF ClientInv
<1>7. QED
  BY <1>5, <1>6

LEMMA ClientNextInv == ClientInv /\ [ClientNext]_clientVars => ClientInv'
<1> SUFFICES ASSUME ClientInv, [ClientNext]_clientVars PROVE ClientInv'
  OBVIOUS
<1>0. token = NoToken /\ loginBusy \in BOOLEAN /\ client \in [Clients -> ClientPlace]
      /\ verdict \in [Clients -> {"none", "success", "failure"}]
  BY DEF ClientInv, ClientTypeOK
<1>1. CASE UNCHANGED clientVars
  BY <1>1 DEF clientVars, ClientInv, ClientTypeOK, LoggingIn
<1>2. ASSUME NEW c \in Clients, NEW a \in BOOLEAN, SendRequest(c, a) PROVE ClientInv'
  <2>1. Bearer(a) = NoToken
    BY <1>0 DEF Bearer
  <2> DEFINE place == [op |-> "request", authPath |-> a, bearer |-> Bearer(a)]
  <2>2. place \in ClientPlace /\ place.op = "request"
    BY <2>1 DEF ClientPlace
  <2>3. QED
    BY <1>0, <1>2, <2>2, TurnKeeps DEF SendRequest, Config
<1>3. ASSUME NEW c \in Clients, NEW status \in {200, 401, 500}, RequestSettles(c, status)
      PROVE  ClientInv'
  <2>1. ~RefreshAnswers
    BY <1>0 DEF RefreshAnswers
  <2>2. Turn(c, [op |-> "idle"])
    BY <1>3, <2>1 DEF RequestSettles, Ends
  <2>3. [op |-> "idle"] \in ClientPlace
    BY DEF ClientPlace
  <2>4. QED
    BY <1>0, <1>3, <2>2, <2>3, TurnKeeps DEF RequestSettles, Config
<1>4. ASSUME NEW c \in Clients, ClientLogin(c) PROVE ClientInv'
  <2>1. [op |-> "login"] \in ClientPlace
    BY DEF ClientPlace
  <2>2. QED
    BY <1>0, <1>4, <2>1, TurnKeeps DEF ClientLogin, Config
<1>5. ASSUME NEW c \in Clients, ClientLoginSettles(c) \/ TestLoginSettles(c) PROVE ClientInv'
  <2>1. token' = NoToken
    BY <1>0, <1>5, LoginKeepsNothing DEF ClientLoginSettles, TestLoginSettles
  <2>2. Turn(c, [op |-> "idle"]) /\ loginBusy' = FALSE /\ LoggingIn(c)
    BY <1>5 DEF ClientLoginSettles, TestLoginSettles, Conclude, Ends, LoginEnds, Has, LoggingIn
  <2>3. verdict' \in [Clients -> {"none", "success", "failure"}]
    BY <1>0, <1>5 DEF ClientLoginSettles, TestLoginSettles, Conclude
  <2>4. [op |-> "idle"] \in ClientPlace
    BY DEF ClientPlace
  <2>5. refreshBusy' = refreshBusy /\ autoLogin' = autoLogin /\ hasCredentials' = hasCredentials
    BY <1>5 DEF ClientLoginSettles, TestLoginSettles, Config
  <2>6. QED
    BY <1>0, <2>1, <2>2, <2>3, <2>4, <2>5, TurnKeeps
<1>6. ASSUME NEW c \in Clients, ClientLogout(c) PROVE ClientInv'
  BY <1>0, <1>6 DEF ClientLogout, Config, ClientInv, ClientTypeOK, LoggingIn
<1>7. ASSUME NEW c \in Clients, TestConnection(c) PROVE ClientInv'
  <2>1. [op |-> "test", tried |-> 1] \in ClientPlace
    BY DEF ClientPlace, HealthEndpoints
  <2>2. QED
    BY <1>0, <1>7, <2>1, TurnKeeps DEF TestConnection, Config
<1>8. ASSUME NEW c \in Clients, HealthFails(c) PROVE ClientInv'
  <2>1. CASE client[c].tried < HealthEndpoints
    <3>1. client[c] \in [op: {"test"}, tried: 1 .. HealthEndpoints]
      BY <1>0, <1>8 DEF HealthFails, Has, ClientPlace
    <3> DEFINE place == [client[c] EXCEPT !.tried = @ + 1]
    <3>2. place \in [op: {"test"}, tried: 1 .. HealthEndpoints] /\ place.op = "test"
      BY <2>1, <3>1 DEF HealthEndpoints
    <3>3. place \in ClientPlace
      BY <3>2 DEF ClientPlace
    <3>4. Turn(c, place) /\ verdict' = verdict
      BY <1>8, <2>1 DEF HealthFails
    <3> HIDE DEF place
    <3>5. QED
      BY <1>0, <1>8, <3>2, <3>3, <3>4, TurnKeeps DEF HealthFails, Config
  <2>2. CASE ~(client[c].tried < HealthEndpoints)
    <3>1. [op |-> "idle"] \in ClientPlace
      BY DEF ClientPlace
    <3>2. Conclude(c, "failure")
      BY <1>8, <2>2 DEF HealthFails
    <3>3. QED
      BY <1>0, <1>8, <3>1, <3>2, TurnKeeps DEF HealthFails, Conclude, Ends, Config
  <2>3. QED
    BY <2>1, <2>2
<1>9. ASSUME NEW c \in Clients, HealthAnswers(c) PROVE ClientInv'
  <2>1. [op |-> "idle"] \in ClientPlace /\ [op |-> "testLogin"] \in ClientPlace
    BY DEF ClientPlace
  <2>2. CASE autoLogin /\ ~IsAuthenticated /\ ~loginBusy /\ hasCredentials
    BY <1>0, <1>9, <2>1, <2>2, TurnKeeps DEF HealthAnswers, Config
  <2>3. CASE ~(autoLogin /\ ~IsAuthenticated /\ ~loginBusy /\ hasCredentials)
    <3>1. Ends(c) /\ loginBusy' = loginBusy
          /\ verdict' \in [Clients -> {"none", "success", "failure"}]
      BY <1>0, <1>9, <2>3 DEF HealthAnswers, Conclude
    <3>2. QED
      BY <1>0, <1>9, <2>1, <3>1, TurnKeeps DEF HealthAnswers, Ends, Config
  <2>4. QED
    BY <2>2, <2>3
<1>10. QED
  BY <1>1, <1>2, <1>3, <1>4, <1>5, <1>6, <1>7, <1>8, <1>9 DEF ClientNext

LEMMA OneOnTheWire ==
  ASSUME ClientInv PROVE Cardinality({d \in Clients : client[d].op \in {"login", "testLogin"}}) <= 1
<1> DEFINE S == {d \in Clients : LoggingIn(d)}
<1>1. S = {d \in Clients : client[d].op \in {"login", "testLogin"}}
  BY DEF LoggingIn
<1>2. ASSUME NEW c \in S PROVE Cardinality(S) = 1
  <2>1. \A d \in S : d = c
    BY <1>2 DEF ClientInv
  <2>2. S = {c}
    BY <1>2, <2>1
  <2>3. QED
    BY <2>2, FS_Singleton
<1>3. S = {} \/ Cardinality(S) = 1
  BY <1>2
<1> HIDE DEF S
<1>4. Cardinality(S) \in {0, 1}
  BY <1>3, FS_EmptySet
<1>5. Cardinality(S) <= 1
  BY <1>4
<1>6. QED
  BY <1>1, <1>5

(* A test of the connection that answers in this step.                     *)
LEMMA SuccessIsTrue ==
  ASSUME ClientInv, [ClientNext]_clientVars, NEW c \in Clients,
         verdict'[c] = "success", verdict[c] # "success", autoLogin
  PROVE  token' # NoToken \/ loginBusy'
<1>0. verdict \in [Clients -> {"none", "success", "failure"}]
  BY DEF ClientInv, ClientTypeOK
<1>1. PICK d \in Clients : HealthFails(d) \/ HealthAnswers(d) \/ TestLoginSettles(d)
  BY DEF ClientNext, clientVars, SendRequest, RequestSettles, ClientLogin, ClientLoginSettles,
         ClientLogout, TestConnection
<1>2. CASE HealthFails(d)
  BY <1>0, <1>2 DEF HealthFails, Conclude
<1>3. CASE HealthAnswers(d)
  <2>1. CASE autoLogin /\ ~IsAuthenticated /\ ~loginBusy
    BY <1>0, <1>3, <2>1 DEF HealthAnswers, Conclude
  <2>2. CASE IsAuthenticated \/ loginBusy
    BY <1>3, <2>2 DEF HealthAnswers, IsAuthenticated
  <2>3. QED
    BY <2>1, <2>2
<1>4. CASE TestLoginSettles(d)
  BY <1>0, <1>4 DEF TestLoginSettles, Conclude
<1>5. QED
  BY <1>1, <1>2, <1>3, <1>4

LEMMA ClientInitInv == ClientInit => ClientInv
<1> DEFINE idle == [op |-> "idle"]
<1>1. idle \in ClientPlace /\ idle.op = "idle"
  BY DEF ClientPlace
<1> HIDE DEF idle
<1>2. ClientInit => client = [c \in Clients |-> idle]
  BY DEF ClientInit, idle
<1>3. QED
  BY <1>1, <1>2 DEF ClientInit, ClientInv, ClientTypeOK, LoggingIn

(* The client and the calls in flight keep their types (api-client.ts).    *)
THEOREM ClientTypeCorrect == ClientSpec => []ClientTypeOK
<1>1. ClientInv => ClientTypeOK
  BY DEF ClientInv
<1> QED
  BY <1>1, ClientInitInv, ClientNextInv, PTL DEF ClientSpec

(* For any number of calls in flight, a connection test that has to log in *)
(* claims success only when the client holds a token or a login is in      *)
(* flight, and no two logins are on the wire (api-client.ts, testConnection*)
(* and login).                                                             *)
THEOREM TestsTellTheTruth == ClientSpec => TestTellsTheTruth
<1> DEFINE Truth ==
      \A c \in Clients :
        /\ verdict'[c] = "success" /\ verdict[c] # "success" /\ autoLogin
             => token' # NoToken \/ loginBusy'
        /\ Cardinality({d \in Clients : client'[d].op \in {"login", "testLogin"}}) <= 1
<1>2. ClientInv => Cardinality({d \in Clients : client[d].op \in {"login", "testLogin"}}) <= 1
  BY OneOnTheWire
<1>3. (ClientInv => Cardinality({d \in Clients : client[d].op \in {"login", "testLogin"}}) <= 1)'
  BY <1>2, PTL
<1>4. ClientInv /\ [ClientNext]_clientVars => [Truth]_clientVars
  BY <1>3, ClientNextInv, SuccessIsTrue
<1>5. QED
  BY <1>4, ClientInitInv, ClientNextInv, PTL DEF ClientSpec, TestTellsTheTruth


-----------------------------------------------------------------------------
(* Telemetry.  What is kept of a sequence that grows at its end.           *)
LEMMA LastOfIs ==
  ASSUME NEW S, NEW s \in Seq(S), NEW n \in Nat \ {0}
  PROVE  /\ LastOf(s, n) \in Seq(S)
         /\ Len(LastOf(s, n)) = IF Len(s) <= n THEN Len(s) ELSE n
         /\ \A i \in 1 .. Len(LastOf(s, n)) :
              LastOf(s, n)[i] = s[IF Len(s) <= n THEN i ELSE Len(s) - n + i]
<1> DEFINE first == IF Len(s) <= n THEN 1 ELSE Len(s) - n + 1
<1>1. Len(s) \in Nat
  BY LenProperties
<1>2. Max({1, Len(s) - n + 1}) = first
  BY <1>1 DEF Max
<1>3. first \in Int /\ Len(s) \in Int /\ \A i \in first .. Len(s) : s[i] \in S
  BY <1>1, ElementOfSeq
<1>4. LastOf(s, n) = SubSeq(s, first, Len(s))
  BY <1>2 DEF LastOf
<1>5. /\ LastOf(s, n) \in Seq(S)
      /\ Len(LastOf(s, n)) = IF first <= Len(s) THEN Len(s) - first + 1 ELSE 0
      /\ \A i \in 1 .. Len(s) - first + 1 : LastOf(s, n)[i] = s[first + i - 1]
  <2> HIDE DEF first
  <2> QED
    BY <1>3, <1>4, SubSeqProperties
<1>6. CASE Len(s) <= n
  BY <1>1, <1>5, <1>6
<1>7. CASE Len(s) > n
  <2>1. LastOf(s, n) \in Seq(S) /\ Len(LastOf(s, n)) = n
    BY <1>1, <1>5, <1>7
  <2>2. ASSUME NEW i \in 1 .. n PROVE LastOf(s, n)[i] = s[Len(s) - n + i]
    <3>1. i \in 1 .. Len(s) - first + 1 /\ first + i - 1 = Len(s) - n + i
      BY <1>1, <1>7
    <3>2. QED
      BY <1>5, <3>1
  <2>3. QED
    BY <1>1, <1>7, <2>1, <2>2
<1>8. QED
  BY <1>1, <1>6, <1>7

LEMMA AppendIs ==
  ASSUME NEW S, NEW s \in Seq(S), NEW x \in S
  PROVE  /\ Append(s, x) \in Seq(S) /\ Len(Append(s, x)) = Len(s) + 1 /\ Append(s, x) # <<>>
         /\ \A i \in 1 .. Len(s) + 1 : Append(s, x)[i] = IF i <= Len(s) THEN s[i] ELSE x
<1>1. /\ Append(s, x) \in Seq(S) /\ Len(Append(s, x)) = Len(s) + 1
      /\ \A i \in 1 .. Len(s) + 1 : Append(s, x)[i] = IF i <= Len(s) THEN s[i] ELSE x
  OBVIOUS
<1>2. Len(s) \in Nat /\ Len(<<>>) = 0
  BY LenProperties, EmptySeq
<1>3. QED
  BY <1>1, <1>2

LEMMA LastOfAppend ==
  ASSUME NEW S, NEW s \in Seq(S), NEW x \in S, NEW n \in Nat \ {0}
  PROVE  LastOf(Append(s, x), n) =
           IF Len(Append(LastOf(s, n), x)) > n
             THEN Tail(Append(LastOf(s, n), x))
             ELSE Append(LastOf(s, n), x)
<1> DEFINE last == LastOf(s, n)
           t == Append(s, x)
           grown == LastOf(t, n)
           all == Append(last, x)
<1>0. Len(s) \in Nat
  BY LenProperties
<1>1. /\ last \in Seq(S) /\ Len(last) = IF Len(s) <= n THEN Len(s) ELSE n
      /\ \A i \in 1 .. Len(last) : last[i] = s[IF Len(s) <= n THEN i ELSE Len(s) - n + i]
  BY LastOfIs
<1>2. /\ t \in Seq(S) /\ Len(t) = Len(s) + 1
      /\ \A i \in 1 .. Len(s) + 1 : t[i] = IF i <= Len(s) THEN s[i] ELSE x
  OBVIOUS
<1> HIDE DEF t, last
<1>3. /\ grown \in Seq(S) /\ Len(grown) = IF Len(t) <= n THEN Len(t) ELSE n
      /\ \A i \in 1 .. Len(grown) : grown[i] = t[IF Len(t) <= n THEN i ELSE Len(t) - n + i]
  BY <1>2, LastOfIs
<1>4. /\ all \in Seq(S) /\ all # <<>> /\ Len(all) = Len(last) + 1
      /\ \A i \in 1 .. Len(last) + 1 : all[i] = IF i <= Len(last) THEN last[i] ELSE x
  BY <1>1, AppendIs
<1> HIDE DEF grown, all
<1>6. CASE Len(s) < n
  <2>1. Len(last) = Len(s) /\ Len(all) = Len(s) + 1 /\ Len(grown) = Len(s) + 1 /\ Len(t) <= n
    BY <1>0, <1>1, <1>2, <1>3, <1>4, <1>6
  <2>2. ASSUME NEW i \in 1 .. Len(s) + 1 PROVE grown[i] = all[i]
    <3>1. grown[i] = t[i]
      BY <1>3, <2>1
    <3>2. all[i] = IF i <= Len(s) THEN last[i] ELSE x
      BY <1>4, <2>1
    <3>3. i <= Len(s) => last[i] = s[i]
      BY <1>0, <1>1, <1>6, <2>1
    <3>4. QED
      BY <1>2, <3>1, <3>2, <3>3
  <2>3. grown = all
    BY <1>3, <1>4, <2>1, <2>2, SeqEqual
  <2>4. ~(Len(all) > n)
    BY <1>0, <1>2, <2>1
  <2>5. QED
    BY <2>3, <2>4 DEF all, grown, t, last
<1>7. CASE Len(s) >= n
  <2>0. Len(last) = n /\ Len(grown) = n /\ ~(Len(t) <= n)
    BY <1>0, <1>1, <1>2, <1>3, <1>7
  <2>1. /\ Tail(all) \in Seq(S) /\ Len(Tail(all)) = n
        /\ \A i \in 1 .. n : Tail(all)[i] = all[i + 1]
    BY <1>4, <2>0, HeadTailProperties
  <2>3. ASSUME NEW i \in 1 .. n PROVE grown[i] = Tail(all)[i]
    <3>1. grown[i] = t[Len(s) + 1 - n + i]
      <4>1. grown[i] = t[Len(t) - n + i]
        BY <1>3, <2>0
      <4>2. QED
        BY <1>2, <4>1
    <3>2. t[Len(s) + 1 - n + i] = IF i < n THEN s[Len(s) + 1 - n + i] ELSE x
      <4>1. Len(s) + 1 - n + i \in 1 .. Len(s) + 1 /\ (Len(s) + 1 - n + i <= Len(s) <=> i < n)
        BY <1>0, <1>7
      <4>2. QED
        BY <1>2, <4>1
    <3>3. Tail(all)[i] = IF i < n THEN last[i + 1] ELSE x
      <4>1. Tail(all)[i] = all[i + 1]
        BY <2>1
      <4>2. i + 1 \in 1 .. Len(last) + 1 /\ (i + 1 <= Len(last) <=> i < n)
        BY <2>0
      <4>3. QED
        BY <1>4, <4>1, <4>2
    <3>4. i < n => last[i + 1] = s[Len(s) + 1 - n + i]
      <4>1. CASE Len(s) = n
        <5>1. i < n => i + 1 \in 1 .. Len(last) /\ Len(s) + 1 - n + i = i + 1
          BY <2>0, <4>1
        <5>2. QED
          BY <1>1, <4>1, <5>1
      <4>2. CASE Len(s) > n
        <5>1. i < n => i + 1 \in 1 .. Len(last) /\ Len(s) + 1 - n + i = Len(s) - n + (i + 1)
          BY <1>0, <2>0
        <5>2. ~(Len(s) <= n)
          BY <1>0, <4>2
        <5>3. QED
          BY <1>1, <5>1, <5>2
      <4>3. QED
        BY <1>0, <1>7, <4>1, <4>2
    <3>5. QED
      BY <3>1, <3>2, <3>3, <3>4
  <2>4. grown = Tail(all)
    BY <1>3, <2>0, <2>1, <2>3, SeqEqual
  <2>5. Len(all) > n
    BY <1>4, <2>0
  <2>6. QED
    BY <2>4, <2>5 DEF all, grown, t, last
<1>8. QED
  BY <1>0, <1>6, <1>7

LEMMA ReverseIs ==
  ASSUME NEW S, NEW s \in Seq(S)
  PROVE  /\ Reverse(s) \in Seq(S) /\ Len(Reverse(s)) = Len(s)
         /\ \A i \in 1 .. Len(s) : Reverse(s)[i] = s[Len(s) - i + 1]
<1>1. Len(s) \in Nat /\ \A i \in 1 .. Len(s) : s[i] \in S
  BY LenProperties, ElementOfSeq
<1>2. \A i \in 1 .. Len(s) : Len(s) - i + 1 \in 1 .. Len(s)
  BY <1>1
<1>3. Reverse(s) \in [1 .. Len(s) -> S]
  BY <1>1, <1>2 DEF Reverse
<1>4. Reverse(s) \in Seq(S)
  BY <1>1, <1>3, SeqDef
<1>5. Len(Reverse(s)) = Len(s)
  BY <1>1, <1>3, <1>4, LenProperties
<1>6. QED
  BY <1>4, <1>5 DEF Reverse

LEMMA ReverseAppend ==
  ASSUME NEW S, NEW s \in Seq(S), NEW x \in S
  PROVE  Reverse(Append(s, x)) = <<x>> \o Reverse(s)
<1> DEFINE t == Append(s, x)
           u == Reverse(s)
<1>1. /\ t \in Seq(S) /\ Len(t) = Len(s) + 1
      /\ \A i \in 1 .. Len(s) + 1 : t[i] = IF i <= Len(s) THEN s[i] ELSE x
  OBVIOUS
<1>2. /\ u \in Seq(S) /\ Len(u) = Len(s) /\ \A i \in 1 .. Len(s) : u[i] = s[Len(s) - i + 1]
  BY ReverseIs
<1> HIDE DEF t, u
<1>3. /\ Reverse(t) \in Seq(S) /\ Len(Reverse(t)) = Len(t)
      /\ \A i \in 1 .. Len(t) : Reverse(t)[i] = t[Len(t) - i + 1]
  BY <1>1, ReverseIs
<1>4. Len(s) \in Nat /\ <<x>> \in Seq(S) /\ Len(<<x>>) = 1 /\ <<x>>[1] = x
  BY LenProperties
<1>5. /\ <<x>> \o u \in Seq(S) /\ Len(<<x>> \o u) = 1 + Len(s)
      /\ \A i \in 1 .. 1 + Len(s) : (<<x>> \o u)[i] = IF i <= 1 THEN x ELSE u[i - 1]
  <2>1. \A i \in 1 .. 1 + Len(s) : i <= 1 => i = 1
    BY <1>4
  <2>2. QED
    BY <1>2, <1>4, <2>1, ConcatProperties
<1>6. ASSUME NEW i \in 1 .. 1 + Len(s) PROVE Reverse(t)[i] = (<<x>> \o u)[i]
  <2>1. Reverse(t)[i] = t[Len(s) + 1 - i + 1]
    BY <1>1, <1>3, <1>4
  <2>2. CASE i = 1
    BY <1>1, <1>4, <1>5, <2>1, <2>2
  <2>3. CASE i # 1
    <3>1. i - 1 \in 1 .. Len(s) /\ Len(s) + 1 - i + 1 \in 1 .. Len(s)
          /\ Len(s) - (i - 1) + 1 = Len(s) + 1 - i + 1
      BY <1>4, <2>3
    <3>2. (<<x>> \o u)[i] = s[Len(s) - (i - 1) + 1]
      <4>1. ~ (i <= 1)
        BY <1>4, <2>3
      <4>2. (<<x>> \o u)[i] = u[i - 1]
        BY <1>5, <4>1
      <4>3. u[i - 1] = s[Len(s) - (i - 1) + 1]
        BY <1>2, <3>1
      <4> QED
        BY <4>2, <4>3
    <3>3. t[Len(s) + 1 - i + 1] = s[Len(s) + 1 - i + 1]
      BY <1>1, <1>4, <3>1
    <3>4. QED
      BY <2>1, <3>1, <3>2, <3>3
  <2>4. QED
    BY <2>2, <2>3
<1>7. Reverse(t) = <<x>> \o u
  <2>1. Len(Reverse(t)) = 1 + Len(s)
    BY <1>1, <1>3, <1>4
  <2>2. QED
    BY <1>3, <1>5, <1>6, <2>1, SeqEqual
<1>8. QED
  BY <1>7 DEF t, u

LEMMA ReverseTail ==
  ASSUME NEW S, NEW s \in Seq(S), s # <<>>
  PROVE  Front(Reverse(s)) = Reverse(Tail(s))
<1> DEFINE u == Reverse(s)
           t == Tail(s)
<1>1. Len(s) \in Nat \ {0}
  BY EmptySeq
<1>2. /\ u \in Seq(S) /\ Len(u) = Len(s) /\ \A i \in 1 .. Len(s) : u[i] = s[Len(s) - i + 1]
  BY ReverseIs
<1>3. /\ t \in Seq(S) /\ Len(t) = Len(s) - 1 /\ \A i \in 1 .. Len(s) - 1 : t[i] = s[i + 1]
  BY HeadTailProperties
<1> HIDE DEF u, t
<1>4. /\ Reverse(t) \in Seq(S) /\ Len(Reverse(t)) = Len(s) - 1
      /\ \A i \in 1 .. Len(s) - 1 : Reverse(t)[i] = t[Len(s) - 1 - i + 1]
  BY <1>3, ReverseIs
<1>5. /\ Front(u) \in Seq(S) /\ Len(Front(u)) = Len(s) - 1
      /\ \A i \in 1 .. Len(s) - 1 : Front(u)[i] = u[i]
  <2> DEFINE m == Len(s) - 1
  <2>1. Front(u) = SubSeq(u, 1, m)
    BY <1>2 DEF Front
  <2>2. m \in Nat /\ \A i \in 1 .. m : u[i] \in S
    BY <1>1, <1>2, ElementOfSeq
  <2> HIDE DEF m
  <2>3. /\ SubSeq(u, 1, m) \in Seq(S)
        /\ Len(SubSeq(u, 1, m)) = IF 1 <= m THEN m - 1 + 1 ELSE 0
        /\ \A i \in 1 .. m - 1 + 1 : SubSeq(u, 1, m)[i] = u[1 + i - 1]
    BY <2>2, SubSeqProperties
  <2>4. /\ Front(u) \in Seq(S) /\ Len(Front(u)) = m /\ \A i \in 1 .. m : Front(u)[i] = u[i]
    BY <2>1, <2>2, <2>3
  <2>5. QED
    BY <2>4 DEF m
<1>6. ASSUME NEW i \in 1 .. Len(s) - 1 PROVE Front(u)[i] = Reverse(t)[i]
  <2>1. Front(u)[i] = s[Len(s) - i + 1]
    BY <1>1, <1>2, <1>5
  <2>2. Reverse(t)[i] = t[Len(s) - i]
    BY <1>1, <1>4
  <2>3. t[Len(s) - i] = s[Len(s) - i + 1]
    BY <1>1, <1>3
  <2>4. QED
    BY <2>1, <2>2, <2>3
<1>7. Front(u) = Reverse(t)
  BY <1>4, <1>5, <1>6, SeqEqual
<1>8. QED
  BY <1>7 DEF u, t

LEMMA OfNothing ==
  ASSUME NEW n \in Nat \ {0} PROVE LastOf(<<>>, n) = <<>> /\ Reverse(<<>>) = <<>>
<1>1. PICK e \in Seq({n}) : e = <<>> /\ Len(e) = 0
  BY EmptySeq
<1>2. LastOf(e, n) \in Seq({n}) /\ Len(LastOf(e, n)) = 0
  <2>1. Len(e) <= n
    BY <1>1
  <2>2. e \in Seq({n})
    BY <1>1
  <2>3. LastOf(e, n) \in Seq({n}) /\ Len(LastOf(e, n)) = IF Len(e) <= n THEN Len(e) ELSE n
    BY <2>2, LastOfIs
  <2>4. QED
    BY <1>1, <2>1, <2>3
<1>3. Reverse(e) \in Seq({n}) /\ Len(Reverse(e)) = 0
  BY <1>1, ReverseIs
<1>4. LastOf(e, n) = <<>> /\ Reverse(e) = <<>>
  BY <1>2, <1>3, EmptySeq
<1>5. QED
  BY <1>1, <1>4

(* The histories are sequences, and the services hold the end of them.     *)
TelInv == TelTypeOK /\ NewestKept

LEMMA TelNextInv == TelInv /\ [TelNext]_telVars => TelInv'
<1> SUFFICES ASSUME TelInv, [TelNext]_telVars PROVE TelInv'
  OBVIOUS
<1>0. /\ MaxErrors \in Nat \ {0} /\ MaxMetrics \in Nat \ {0} /\ MaxRecords \in Nat
      /\ errors \in Seq(Routes) /\ metrics \in [Routes -> Seq(Metric)]
      /\ records \in [errors: Seq(Routes), metrics: [Routes -> Seq(Metric)], total: 0 .. MaxRecords]
      /\ errors = Reverse(LastOf(records.errors, MaxErrors))
      /\ \A r \in Routes : metrics[r] = LastOf(records.metrics[r], MaxMetrics)
  BY LimitsArePositive DEF TelInv, TelTypeOK, NewestKept, TrackedError
<1> DEFINE total == records.total + 1
<1>1. records.total < MaxRecords => total \in 0 .. MaxRecords
  BY <1>0
<1> HIDE DEF total
<1>2. LastOf(<<>>, MaxErrors) = <<>> /\ LastOf(<<>>, MaxMetrics) = <<>> /\ Reverse(<<>>) = <<>>
  BY <1>0, OfNothing
<1>4. CASE UNCHANGED telVars
  BY <1>4 DEF telVars, TelInv, TelTypeOK, NewestKept
<1>5. ASSUME NEW path \in Routes, TrackError(path) PROVE TelInv'
  <2> DEFINE last == LastOf(records.errors, MaxErrors)
             grown == Append(last, path)
  <2>1. last \in Seq(Routes)
    BY <1>0, LastOfIs
  <2>2. grown \in Seq(Routes) /\ grown # <<>>
        /\ LastOf(Append(records.errors, path), MaxErrors)
             = IF Len(grown) > MaxErrors THEN Tail(grown) ELSE grown
    <3>1. records.errors \in Seq(Routes) /\ MaxErrors \in Nat \ {0}
      BY <1>0
    <3>2. LastOf(Append(records.errors, path), MaxErrors)
            = IF Len(grown) > MaxErrors THEN Tail(grown) ELSE grown
      BY <3>1, LastOfAppend
    <3>3. grown \in Seq(Routes) /\ grown # <<>>
      BY <2>1, AppendIs
    <3>4. QED
      BY <3>2, <3>3
  <2>3. <<path>> \o errors = Reverse(grown)
    <3>1. errors = Reverse(last)
      BY <1>0
    <3>2. Reverse(grown) = <<path>> \o Reverse(last)
      BY <2>1, ReverseAppend
    <3>3. QED
      BY <3>1, <3>2
  <2>4. Reverse(grown) \in Seq(Routes) /\ Len(Reverse(grown)) = Len(grown)
    BY <2>2, ReverseIs
  <2>5. Front(Reverse(grown)) = Reverse(Tail(grown))
    BY <2>2, ReverseTail
  <2>6. errors' = IF Len(grown) > MaxErrors THEN Reverse(Tail(grown)) ELSE Reverse(grown)
    BY <1>5, <2>3, <2>4, <2>5 DEF TrackError
  <2>7. errors' = Reverse(LastOf(Append(records.errors, path), MaxErrors))
    BY <2>2, <2>6
  <2>8. Append(records.errors, path) \in Seq(Routes)
    BY <1>0
  <2>9. errors' \in Seq(Routes)
    <3>1. LastOf(Append(records.errors, path), MaxErrors) \in Seq(Routes)
      BY <1>0, <2>8, LastOfIs
    <3>2. QED
      BY <2>7, <3>1, ReverseIs
  <2>10. records' = [records EXCEPT !.errors = Append(records.errors, path), !.total = total]
         /\ metrics' = metrics /\ records.total < MaxRecords
    BY <1>5 DEF TrackError, Record, total
  <2>11. QED
    BY <1>0, <1>1, <2>7, <2>8, <2>9, <2>10 DEF TelInv, TelTypeOK, NewestKept, TrackedError
<1>6. CASE ClearErrors
  <2>1. errors' = <<>> /\ metrics' = metrics /\ records' = [records EXCEPT !.errors = <<>>]
    BY <1>6 DEF ClearErrors
  <2>2. records'.errors = <<>> /\ records'.metrics = records.metrics
        /\ records' \in [errors: Seq(Routes), metrics: [Routes -> Seq(Metric)], total: 0 .. MaxRecords]
    <3>1. PICK none \in Seq(Routes) : none = <<>>
      BY EmptySeq
    <3>2. records' = [records EXCEPT !.errors = none]
      BY <2>1, <3>1
    <3>3. QED
      BY <1>0, <3>1, <3>2
  <2>3. errors' = Reverse(LastOf(records'.errors, MaxErrors))
    BY <1>2, <2>1, <2>2
  <2>4. errors' \in Seq(Routes)
    BY <2>1
  <2>5. QED
    BY <1>0, <2>1, <2>2, <2>3, <2>4 DEF TelInv, TelTypeOK, NewestKept, TrackedError
<1>7. ASSUME NEW r \in Routes, NEW m \in Metric, RecordMetric(r, m) PROVE TelInv'
  <2> DEFINE history == Append(records.metrics[r], m)
             grown == Append(LastOf(records.metrics[r], MaxMetrics), m)
             kept == LastOf(history, MaxMetrics)
  <2>1. records.metrics[r] \in Seq(Metric)
    BY <1>0
  <2>2. history \in Seq(Metric)
    BY <1>0, <2>1
  <2>3. kept = IF Len(grown) > MaxMetrics THEN Tail(grown) ELSE grown
    BY <1>0, <2>1, LastOfAppend
  <2>4. metrics' = [metrics EXCEPT ![r] = kept]
    BY <1>0, <1>7, <2>3 DEF RecordMetric
  <2>5. kept \in Seq(Metric)
    BY <1>0, <2>2, LastOfIs
  <2> DEFINE all == [records.metrics EXCEPT ![r] = history]
  <2>6. records' = [records EXCEPT !.metrics = all, !.total = total]
        /\ errors' = errors /\ records.total < MaxRecords
    BY <1>7 DEF RecordMetric, Record, total
  <2> HIDE DEF history
  <2>7. all \in [Routes -> Seq(Metric)] /\ all[r] = history
        /\ \A q \in Routes \ {r} : all[q] = records.metrics[q]
    BY <1>0, <2>2
  <2> HIDE DEF kept, all
  <2>8. records' \in [errors: Seq(Routes), metrics: [Routes -> Seq(Metric)], total: 0 .. MaxRecords]
        /\ records'.errors = records.errors /\ records'.metrics = all
    BY <1>0, <1>1, <2>6, <2>7
  <2>9. \A q \in Routes : metrics'[q] = LastOf(all[q], MaxMetrics)
    BY <1>0, <2>4, <2>7 DEF kept
  <2>10. metrics' \in [Routes -> Seq(Metric)]
    BY <1>0, <2>4, <2>5
  <2>11. QED
    BY <1>0, <2>6, <2>8, <2>9, <2>10 DEF TelInv, TelTypeOK, NewestKept, TrackedError
<1>8. ASSUME NEW r \in Routes, ClearMetrics(r) PROVE TelInv'
  <2> DEFINE all == [records.metrics EXCEPT ![r] = <<>>]
  <2>1. metrics' = [metrics EXCEPT ![r] = <<>>] /\ errors' = errors
        /\ records' = [records EXCEPT !.metrics = all]
    BY <1>8 DEF ClearMetrics
  <2>2. all \in [Routes -> Seq(Metric)] /\ all[r] = <<>>
        /\ \A q \in Routes \ {r} : all[q] = records.metrics[q]
    BY <1>0
  <2> HIDE DEF all
  <2>3. records'.metrics = all /\ records'.errors = records.errors
        /\ records' \in [errors: Seq(Routes), metrics: [Routes -> Seq(Metric)], total: 0 .. MaxRecords]
    BY <1>0, <2>1, <2>2
  <2>4. metrics' \in [Routes -> Seq(Metric)]
    BY <1>0, <2>1
  <2>5. \A q \in Routes : metrics'[q] = LastOf(all[q], MaxMetrics)
    BY <1>0, <1>2, <2>1, <2>2
  <2>6. QED
    BY <1>0, <2>1, <2>3, <2>4, <2>5 DEF TelInv, TelTypeOK, NewestKept, TrackedError
<1>9. CASE ClearAllMetrics
  <2> DEFINE none == [r \in Routes |-> <<>>]
  <2>1. none \in [Routes -> Seq(Metric)] /\ \A r \in Routes : none[r] = <<>>
    OBVIOUS
  <2>2. metrics' = none /\ errors' = errors /\ records' = [records EXCEPT !.metrics = none]
    BY <1>9 DEF ClearAllMetrics
  <2> HIDE DEF none
  <2>3. QED
    BY <1>0, <1>2, <2>1, <2>2 DEF TelInv, TelTypeOK, NewestKept, TrackedError
<1>10. QED
  BY <1>4, <1>5, <1>6, <1>7, <1>8, <1>9 DEF TelNext

LEMMA TelInitInv == TelInit => TelInv
<1> SUFFICES ASSUME TelInit PROVE TelInv
  OBVIOUS
<1>1. <<>> \in Seq(Routes) /\ <<>> \in Seq(Metric) /\ Len(<<>>) = 0
  OBVIOUS
<1>3. \A n \in Nat \ {0} : LastOf(<<>>, n) = <<>>
  BY OfNothing
<1>5. Reverse(<<>>) = <<>>
  BY OfNothing, LimitsArePositive
<1>6. MaxErrors \in Nat \ {0} /\ MaxMetrics \in Nat \ {0} /\ 0 \in 0 .. MaxRecords
  BY LimitsArePositive
<1>7. QED
  BY <1>1, <1>3, <1>5, <1>6 DEF TelInit, TelInv, TelTypeOK, NewestKept, TrackedError

(* What is recorded and what is kept of it keep their types, for any       *)
(* limits (error-tracking.service.ts, metrics.service.ts).                 *)
THEOREM TelemetryTypeCorrect == TelSpec => []TelTypeOK
<1>1. TelInv => TelTypeOK
  BY DEF TelInv
<1> QED
  BY <1>1, TelInitInv, TelNextInv, PTL DEF TelSpec

(* However much is recorded and however often it is cleared, the errors    *)
(* and the metrics of each route that are kept are the newest ones, in     *)
(* their order and without a gap, for any limits                           *)
(* (error-tracking.service.ts, trackError; metrics.service.ts,             *)
(* recordMetric).                                                          *)
THEOREM TheNewestAreKept == TelSpec => []NewestKept
<1>2. TelInv => NewestKept
  BY DEF TelInv
<1>3. QED
  BY <1>2, TelInitInv, TelNextInv, PTL DEF TelSpec

-----------------------------------------------------------------------------
(* What telemetry says of what it keeps.                                   *)

Where(s, A) == {i \in 1 .. Len(s) : s[i] \in A}

LEMMA WhereIs ==
  ASSUME NEW S, NEW s \in Seq(S), NEW A
  PROVE  IsFiniteSet(Where(s, A)) /\ Cardinality(Where(s, A)) \in Nat
<1>1. Len(s) \in Nat
  BY LenProperties
<1>2. IsFiniteSet(1 .. Len(s))
  BY <1>1, FS_Interval
<1>3. Where(s, A) \in SUBSET (1 .. Len(s))
  BY DEF Where
<1> QED
  BY <1>2, <1>3, FS_Subset, FS_CardinalityType

KeptOf(s, A, g) ==
  [n \in 0 .. Len(s) |->
    IF n = 0 THEN <<>> ELSE IF s[n] \in A THEN Append(g[n - 1], s[n]) ELSE g[n - 1]]

LEMMA FilterRecursion ==
  ASSUME NEW s, NEW A
  PROVE  Filter(s, A) = (CHOOSE g : g = KeptOf(s, A, g))[Len(s)]
BY Zenon DEF Filter, KeptOf

(* A filter keeps elements of the sequence that are in A, and all of them. *)
LEMMA FilterIs ==
  ASSUME NEW S, NEW s \in Seq(S), NEW A
  PROVE  Filter(s, A) \in Seq(S) /\ Len(Filter(s, A)) = Cardinality(Where(s, A))
<1> DEFINE N == Len(s)
           step == [n \in 1 .. N |->
                      [t \in Seq(S) |-> IF s[n] \in A THEN Append(t, s[n]) ELSE t]]
           kept == CHOOSE g : g = KeptOf(s, A, g)
           first(n) == {i \in 1 .. n : s[i] \in A}
<1>1. N \in Nat /\ \A i \in 1 .. N : s[i] \in S
  BY LenProperties, ElementOfSeq
<1>2. step \in [1 .. N -> [Seq(S) -> Seq(S)]]
  <2>1. ASSUME NEW n \in 1 .. N, NEW t \in Seq(S)
        PROVE  (IF s[n] \in A THEN Append(t, s[n]) ELSE t) \in Seq(S)
    BY <1>1
  <2> QED
    BY <2>1
<1>3. <<>> \in Seq(S)
  OBVIOUS
<1>4. \A n \in 1 .. N, t \in Seq(S) : step[n][t] = IF s[n] \in A THEN Append(t, s[n]) ELSE t
  OBVIOUS
<1> HIDE DEF N, step
<1>5. PICK g : Iterates(g, N, Seq(S), <<>>, step)
  BY <1>1, <1>2, <1>3, RecursionExists
<1>55. g \in [0 .. N -> Seq(S)] /\ g[0] = <<>> /\ \A n \in 1 .. N : g[n] = step[n][g[n - 1]]
  BY <1>5 DEF Iterates
<1>6. g = KeptOf(s, A, g)
  <2>1. ASSUME NEW n \in 0 .. N
        PROVE  g[n] = IF n = 0 THEN <<>> ELSE IF s[n] \in A THEN Append(g[n - 1], s[n]) ELSE g[n - 1]
    <3>1. CASE n = 0
      BY <1>55, <3>1
    <3>2. CASE n # 0
      <4>1. n \in 1 .. N /\ n - 1 \in 0 .. N
        BY <1>1, <3>2
      <4>2. g[n] = step[n][g[n - 1]] /\ g[n - 1] \in Seq(S)
        BY <1>55, <4>1
      <4> QED
        BY <1>4, <3>2, <4>1, <4>2
    <3> QED
      BY <3>1, <3>2
  <2>2. g = [n \in 0 .. N |-> g[n]]
    BY <1>55
  <2>3. KeptOf(s, A, g) = [n \in 0 .. N |-> g[n]]
    BY <2>1, SMT DEF KeptOf, N
  <2> QED
    BY <2>2, <2>3
<1>7. kept = KeptOf(s, A, kept)
  BY <1>6
<1>8. Filter(s, A) = kept[N]
  BY FilterRecursion DEF N
<1> HIDE DEF kept
<1>9. /\ kept[0] = <<>>
      /\ \A n \in 1 .. N : kept[n] = IF s[n] \in A THEN Append(kept[n - 1], s[n]) ELSE kept[n - 1]
  <2>1. \A n \in 0 .. N :
          kept[n] = IF n = 0 THEN <<>> ELSE IF s[n] \in A THEN Append(kept[n - 1], s[n]) ELSE kept[n - 1]
    BY <1>7, Zenon DEF KeptOf, N
  <2>2. 0 \in 0 .. N /\ \A n \in 1 .. N : n \in 0 .. N /\ n # 0
    BY <1>1
  <2> QED
    BY <2>1, <2>2
<1> DEFINE T == {n \in Nat : n <= N => /\ kept[n] \in Seq(S)
                                       /\ IsFiniteSet(first(n))
                                       /\ Len(kept[n]) = Cardinality(first(n))}
<1>10. 0 \in T
  <2>1. first(0) = {}
    OBVIOUS
  <2>2. IsFiniteSet(first(0)) /\ Cardinality(first(0)) = 0
    BY <2>1, FS_EmptySet
  <2>3. kept[0] \in Seq(S) /\ Len(kept[0]) = 0
    BY <1>9, <1>3, EmptySeq
  <2> HIDE DEF first
  <2> QED
    BY <2>2, <2>3
<1>11. ASSUME NEW n \in Nat, n \in T PROVE n + 1 \in T
  <2> SUFFICES ASSUME n + 1 <= N
               PROVE  /\ kept[n + 1] \in Seq(S)
                      /\ IsFiniteSet(first(n + 1))
                      /\ Len(kept[n + 1]) = Cardinality(first(n + 1))
    OBVIOUS
  <2>1. /\ kept[n] \in Seq(S)
        /\ IsFiniteSet(first(n))
        /\ Len(kept[n]) = Cardinality(first(n))
    BY <1>1, <1>11
  <2>2. n + 1 \in 1 .. N /\ (n + 1) - 1 = n
    BY <1>1
  <2>3. kept[n + 1] = IF s[n + 1] \in A THEN Append(kept[n], s[n + 1]) ELSE kept[n]
    BY <1>9, <2>2
  <2>4. CASE s[n + 1] \in A
    <3>1. first(n + 1) = first(n) \cup {n + 1} /\ n + 1 \notin first(n)
      BY <2>4
    <3>2. s[n + 1] \in S
      BY <1>1, <2>2
    <3> HIDE DEF first
    <3>3. IsFiniteSet(first(n + 1)) /\ Cardinality(first(n + 1)) = Cardinality(first(n)) + 1
      BY <2>1, <3>1, FS_AddElement
    <3>4. kept[n + 1] \in Seq(S) /\ Len(kept[n + 1]) = Len(kept[n]) + 1
      BY <2>1, <2>3, <2>4, <3>2, AppendProperties
    <3> QED
      BY <2>1, <3>3, <3>4
  <2>5. CASE s[n + 1] \notin A
    <3>1. first(n + 1) = first(n)
      BY <2>5
    <3> HIDE DEF first
    <3> QED
      BY <2>1, <2>3, <2>5, <3>1
  <2> QED
    BY <2>4, <2>5
<1>12. N \in T
  <2> HIDE DEF T
  <2> QED
    BY <1>1, <1>10, <1>11, NatSetInduction
<1>13. first(N) = Where(s, A)
  BY DEF Where, N
<1>14. kept[N] \in Seq(S) /\ Len(kept[N]) = Cardinality(first(N))
  BY <1>1, <1>12
<1> HIDE DEF first
<1> QED
  BY <1>8, <1>13, <1>14

LEMMA CountOfConcat ==
  ASSUME NEW S, NEW s \in Seq(S), NEW t \in Seq(S), NEW A
  PROVE  s \o t \in Seq(S)
         /\ Cardinality(Where(s \o t, A)) = Cardinality(Where(s, A)) + Cardinality(Where(t, A))
<1> DEFINE I == Where(s, A)
           J == Where(t, A)
           n == Len(s)
           f == [j \in J |-> n + j]
           K == {n + j : j \in J}
<1>1. n \in Nat /\ Len(t) \in Nat
  BY LenProperties
<1>2. /\ s \o t \in Seq(S) /\ Len(s \o t) = n + Len(t)
      /\ \A i \in 1 .. n + Len(t) : (s \o t)[i] = IF i <= n THEN s[i] ELSE t[i - n]
  BY ConcatProperties
<1>3. Where(s \o t, A) = I \cup K
  <2>1. ASSUME NEW i \in Where(s \o t, A) PROVE i \in I \cup K
    <3>1. i \in 1 .. n + Len(t) /\ (s \o t)[i] \in A
      BY <1>2 DEF Where
    <3>2. CASE i <= n
      BY <1>1, <1>2, <3>1, <3>2 DEF Where
    <3>3. CASE i > n
      <4>1. i - n \in 1 .. Len(t) /\ t[i - n] \in A /\ n + (i - n) = i
        BY <1>1, <1>2, <3>1, <3>3
      <4>2. i - n \in J
        BY <4>1 DEF Where
      <4> QED
        BY <4>1, <4>2
    <3> QED
      BY <1>1, <3>1, <3>2, <3>3
  <2>2. ASSUME NEW i \in I PROVE i \in Where(s \o t, A)
    BY <1>1, <1>2 DEF Where
  <2>3. ASSUME NEW j \in J PROVE n + j \in Where(s \o t, A)
    BY <1>1, <1>2 DEF Where
  <2> QED
    BY <2>1, <2>2, <2>3
<1>4. I \cap K = {}
  BY <1>1 DEF Where
<1>5. /\ IsFiniteSet(I) /\ Cardinality(I) \in Nat
      /\ IsFiniteSet(J) /\ Cardinality(J) \in Nat
  BY WhereIs
<1>6. f \in Bijection(J, K)
  <2>1. \A j \in J : j \in Int
    BY <1>1 DEF Where
  <2> HIDE DEF J, n
  <2> QED
    BY <1>1, <2>1 DEF Bijection, Injection, IsInjective, Surjection, n
<1> HIDE DEF I, J, K, f, n
<1>7. IsFiniteSet(K) /\ Cardinality(K) = Cardinality(J)
  BY <1>5, <1>6, FS_Bijection DEF ExistsBijection
<1>8. Cardinality(I \cup K) = Cardinality(I) + Cardinality(K) - Cardinality(I \cap K)
  BY <1>5, <1>7, FS_Union
<1>9. Cardinality(I \cap K) = 0
  BY <1>4, FS_EmptySet
<1> QED
  BY <1>2, <1>3, <1>5, <1>7, <1>8, <1>9 DEF I, J

MetricKeys == {r \in Routes : metrics[r] # <<>>}

UptoOf(order, g) == [n \in 0 .. Len(order) |-> IF n = 0 THEN <<>> ELSE g[n - 1] \o metrics[order[n]]]

LEMMA AllRecursion ==
  AllMetrics = LET order == SetToSeq(MetricKeys)
               IN (CHOOSE g : g = UptoOf(order, g))[Len(order)]
BY Zenon DEF AllMetrics, UptoOf, MetricKeys

LEMMA Shifted ==
  ASSUME NEW r, NEW I, IsFiniteSet(I)
  PROVE  IsFiniteSet({<<r, i>> : i \in I}) /\ Cardinality({<<r, i>> : i \in I}) = Cardinality(I)
<1> DEFINE K == {<<r, i>> : i \in I}
           f == [i \in I |-> <<r, i>>]
<1>1. f \in Bijection(I, K)
  BY DEF Bijection, Injection, IsInjective, Surjection
<1> HIDE DEF f, K
<1> QED
  BY <1>1, FS_Bijection DEF ExistsBijection, K

(* The list of all metrics has those of each route as often as the route.  *)
LEMMA AllAre ==
  ASSUME metrics \in [Routes -> Seq(Metric)], IsFiniteSet(MetricKeys), NEW A
  PROVE  /\ AllMetrics \in Seq(Metric)
         /\ Cardinality(Where(AllMetrics, A))
              = Cardinality(UNION {{<<r, i>> : i \in Where(metrics[r], A)} : r \in Routes})
<1> DEFINE K == Cardinality(MetricKeys)
           order == SetToSeq(MetricKeys)
           part(n) == metrics[order[n]]
           of(r) == {<<r, i>> : i \in Where(metrics[r], A)}
           pairs(n) == UNION {of(order[k]) : k \in 1 .. n}
           upto == CHOOSE g : g = UptoOf(order, g)
<1>1. K \in Nat /\ order \in [1 .. K -> MetricKeys] /\ IsInjective(order)
  <2>1. K \in Nat /\ ExistsBijection(1 .. K, MetricKeys)
    BY FS_CardinalityType
  <2>2. \E f \in [1 .. K -> MetricKeys] : IsInjective(f)
    BY <2>1 DEF ExistsBijection, Bijection, Injection
  <2> QED
    BY <2>1, <2>2, Zenon DEF SetToSeq
<1>2. \A r \in MetricKeys : \E n \in 1 .. K : order[n] = r
  BY <1>1, Enumerates
<1>3. Len(order) = K
  BY <1>1
<1>4. AllMetrics = upto[K]
  BY <1>3, AllRecursion, Zenon
<1> HIDE DEF order, K, upto
<1>5. \A n \in 1 .. K : order[n] \in Routes /\ part(n) \in Seq(Metric)
  BY <1>1 DEF MetricKeys
<1>6. upto = UptoOf(order, upto)
  <2> DEFINE step == [n \in 1 .. K |-> [t \in Seq(Metric) |-> t \o part(n)]]
  <2>1. step \in [1 .. K -> [Seq(Metric) -> Seq(Metric)]]
    <3>1. ASSUME NEW n \in 1 .. K, NEW t \in Seq(Metric) PROVE t \o part(n) \in Seq(Metric)
      BY <1>5, ConcatProperties
    <3> HIDE DEF part
    <3> QED
      BY <3>1
  <2>2. \A n \in 1 .. K, t \in Seq(Metric) : step[n][t] = t \o part(n)
    OBVIOUS
  <2>3. <<>> \in Seq(Metric)
    OBVIOUS
  <2> HIDE DEF step
  <2>4. PICK g : Iterates(g, K, Seq(Metric), <<>>, step)
    BY <1>1, <2>1, <2>3, RecursionExists
  <2>5. g \in [0 .. K -> Seq(Metric)] /\ g[0] = <<>> /\ \A n \in 1 .. K : g[n] = step[n][g[n - 1]]
    BY <2>4 DEF Iterates
  <2>6. g = UptoOf(order, g)
    <3>1. ASSUME NEW n \in 0 .. K PROVE g[n] = IF n = 0 THEN <<>> ELSE g[n - 1] \o part(n)
      <4>1. CASE n = 0
        BY <2>5, <4>1
      <4>2. CASE n # 0
        <5>1. n \in 1 .. K /\ n - 1 \in 0 .. K
          BY <1>1, <4>2
        <5>2. g[n] = step[n][g[n - 1]] /\ g[n - 1] \in Seq(Metric)
          BY <2>5, <5>1
        <5> HIDE DEF part
        <5> QED
          BY <2>2, <4>2, <5>1, <5>2
      <4> QED
        BY <4>1, <4>2
    <3>2. g = [n \in 0 .. K |-> g[n]]
      BY <2>5
    <3>3. UptoOf(order, g) = [n \in 0 .. K |-> g[n]]
      BY <1>3, <3>1, SMT DEF UptoOf
    <3> QED
      BY <3>2, <3>3
  <2> QED
    BY <2>6, Zenon DEF upto
<1>7. upto[0] = <<>> /\ \A n \in 1 .. K : upto[n] = upto[n - 1] \o part(n)
  <2>1. \A n \in 0 .. K : upto[n] = IF n = 0 THEN <<>> ELSE upto[n - 1] \o part(n)
    BY <1>3, <1>6, Zenon DEF UptoOf
  <2>2. 0 \in 0 .. K /\ \A n \in 1 .. K : n \in 0 .. K /\ n # 0
    BY <1>1
  <2> HIDE DEF part
  <2> QED
    BY <2>1, <2>2
<1>8. \A n \in 1 .. K : IsFiniteSet(of(order[n])) /\ Cardinality(of(order[n])) = Cardinality(Where(part(n), A))
  BY <1>5, WhereIs, Shifted
<1>9. \A m, n \in 1 .. K : m # n => of(order[m]) \cap of(order[n]) = {}
  BY <1>1 DEF IsInjective
<1>10. UNION {of(r) : r \in Routes} = pairs(K)
  <2>1. ASSUME NEW r \in Routes, of(r) # {} PROVE \E n \in 1 .. K : order[n] = r
    <3>1. PICK i : i \in Where(metrics[r], A)
      BY <2>1
    <3>2. metrics[r] # <<>>
      BY <3>1 DEF Where
    <3> QED
      BY <1>2, <3>2 DEF MetricKeys
  <2> HIDE DEF of
  <2> QED
    BY <1>5, <2>1
<1> DEFINE T == {n \in Nat : n <= K => /\ upto[n] \in Seq(Metric)
                                       /\ IsFiniteSet(pairs(n))
                                       /\ Cardinality(Where(upto[n], A)) = Cardinality(pairs(n))}
<1>11. 0 \in T
  <2>1. pairs(0) = {}
    OBVIOUS
  <2>2. upto[0] \in Seq(Metric) /\ Where(upto[0], A) = {}
    BY <1>7 DEF Where
  <2> HIDE DEF pairs
  <2> QED
    BY <2>1, <2>2, FS_EmptySet
<1>12. ASSUME NEW n \in Nat, n \in T PROVE n + 1 \in T
  <2> SUFFICES ASSUME n + 1 <= K
               PROVE  /\ upto[n + 1] \in Seq(Metric)
                      /\ IsFiniteSet(pairs(n + 1))
                      /\ Cardinality(Where(upto[n + 1], A)) = Cardinality(pairs(n + 1))
    OBVIOUS
  <2>1. /\ upto[n] \in Seq(Metric)
        /\ IsFiniteSet(pairs(n))
        /\ Cardinality(Where(upto[n], A)) = Cardinality(pairs(n))
    BY <1>1, <1>12
  <2>2. n + 1 \in 1 .. K /\ (n + 1) - 1 = n
    BY <1>1
  <2> DEFINE new == of(order[n + 1])
             s == upto[n]
             t == part(n + 1)
  <2>3. t \in Seq(Metric) /\ upto[n + 1] = s \o t
    BY <1>5, <1>7, <2>2
  <2>4. pairs(n + 1) = pairs(n) \cup new
    <3>1. \A k : k \in 1 .. n + 1 <=> k \in 1 .. n \/ k = n + 1
      OBVIOUS
    <3> HIDE DEF of
    <3> QED
      BY <3>1
  <2>5. pairs(n) \cap new = {}
    <3>1. \A k \in 1 .. n : k \in 1 .. K /\ k # n + 1
      BY <1>1, <2>2
    <3>2. \A k \in 1 .. n : of(order[k]) \cap new = {}
      BY <1>9, <2>2, <3>1
    <3> HIDE DEF of, new
    <3> QED
      BY <3>2
  <2>6. IsFiniteSet(new) /\ Cardinality(new) = Cardinality(Where(t, A))
    BY <1>8, <2>2
  <2>7. s \in Seq(Metric)
    BY <2>1
  <2>8. Cardinality(pairs(n)) = Cardinality(Where(s, A))
    BY <2>1
  <2> DEFINE old == pairs(n)
  <2>9. IsFiniteSet(old) /\ pairs(n + 1) = old \cup new /\ old \cap new = {} /\ Cardinality(old) = Cardinality(Where(s, A))
    BY <2>1, <2>4, <2>5, <2>8
  <2> HIDE DEF pairs, new, s, t, old
  <2>10. IsFiniteSet(old \cup new) /\ Cardinality(old \cup new) = Cardinality(old) + Cardinality(new) - Cardinality(old \cap new)
    BY <2>6, <2>9, FS_Union
  <2>11. Cardinality(old \cap new) = 0 /\ Cardinality(old) \in Nat /\ Cardinality(new) \in Nat
    BY <2>6, <2>9, FS_EmptySet, FS_CardinalityType
  <2>12. s \o t \in Seq(Metric) /\ Cardinality(Where(s \o t, A)) = Cardinality(Where(s, A)) + Cardinality(Where(t, A))
    BY <2>3, <2>7, CountOfConcat
  <2>13. upto[n + 1] \in Seq(Metric) /\ Cardinality(Where(upto[n + 1], A)) = Cardinality(Where(s, A)) + Cardinality(Where(t, A))
    BY <2>3, <2>12
  <2>14. IsFiniteSet(pairs(n + 1))
    BY <2>9, <2>10
  <2>15. Cardinality(old \cup new) = Cardinality(Where(s, A)) + Cardinality(Where(t, A))
    BY <2>6, <2>9, <2>10, <2>11
  <2>16. Cardinality(pairs(n + 1)) = Cardinality(Where(s, A)) + Cardinality(Where(t, A))
    BY <2>9, <2>15
  <2> QED
    BY <2>13, <2>14, <2>16
<1>13. K \in T
  <2> HIDE DEF T
  <2> QED
    BY <1>1, <1>11, <1>12, NatSetInduction
<1>14. upto[K] \in Seq(Metric) /\ Cardinality(Where(upto[K], A)) = Cardinality(pairs(K))
  BY <1>1, <1>13
<1> HIDE DEF pairs
<1> QED
  BY <1>4, <1>10, <1>14 DEF of

(* The statistics count every error of a path.                             *)
LEMMA PathsAddUp ==
  ASSUME TelTypeOK, NEW p \in DOMAIN ErrorStatistics.byPath
  PROVE  ErrorStatistics.byPath[p] = Cardinality({i \in DOMAIN errors : errors[i] = p})
<1>1. errors \in Seq(Routes)
  BY DEF TelTypeOK, TrackedError
<1>2. ErrorStatistics.byPath[p] = Len(Filter(errors, {p}))
  BY DEF ErrorStatistics, GetErrorsByPath
<1>3. Len(Filter(errors, {p})) = Cardinality(Where(errors, {p}))
  BY <1>1, FilterIs
<1>4. Where(errors, {p}) = {i \in DOMAIN errors : errors[i] = p}
  BY <1>1, LenProperties DEF Where
<1> QED
  BY <1>2, <1>3, <1>4

(* The least duration of a route is not above the greatest.                *)
LEMMA SummaryIsItsOwn ==
  ASSUME TelTypeOK, NEW r \in Routes, CutTo[r] = r, metrics[r] # <<>>
  PROVE  /\ r \in DOMAIN AllPerformanceSummaries
         /\ AllPerformanceSummaries[r].total = Len(metrics[r])
         /\ AllPerformanceSummaries[r].min <= AllPerformanceSummaries[r].max
<1> DEFINE s == metrics[r]
           durations == [i \in DOMAIN s |-> s[i].duration]
           D == Range(durations)
<1>1. s \in Seq(Metric) /\ s # <<>>
  BY DEF TelTypeOK
<1>2. Len(s) \in Nat /\ DOMAIN s = 1 .. Len(s) /\ \A i \in 1 .. Len(s) : s[i] \in Metric
  <2> HIDE DEF s
  <2> QED
    BY <1>1, LenProperties, ElementOfSeq
<1>3. Len(s) # 0
  <2> HIDE DEF s
  <2> QED
    BY <1>1, EmptySeq, LenProperties
<1>4. DOMAIN durations = 1 .. Len(s) /\ \A i \in 1 .. Len(s) : durations[i] = s[i].duration /\ durations[i] \in Nat
  <2> HIDE DEF s
  <2> QED
    BY <1>2, MeasuresAreNumbers DEF Metric
<1> DEFINE summary == AllPerformanceSummaries[r]
<1>5. /\ r \in DOMAIN AllPerformanceSummaries
      /\ summary = PerformanceSummary(r)
  BY <1>1 DEF AllPerformanceSummaries
<1>6. summary.total = Len(s) /\ summary.max = Max(D) /\ summary.min = Min(D)
  <2>1. \E a, b : PerformanceSummary(r) =
          [total |-> Len(s), sum |-> a, max |-> Max(D), min |-> Min(D), failed |-> b]
    BY Zenon DEF PerformanceSummary
  <2> HIDE DEF s, D, summary
  <2> QED
    BY <1>5, <2>1
<1> HIDE DEF summary, s, durations
<1>7. D \in SUBSET Nat /\ D # {}
  <2>1. 1 \in 1 .. Len(s)
    BY <1>2, <1>3
  <2> QED
    BY <1>4, <2>1 DEF Range
<1>8. IsFiniteSet(D)
  <2>1. IsFiniteSet(1 .. Len(s))
    BY <1>2, FS_Interval
  <2>2. durations \in Surjection(1 .. Len(s), D)
    <3>1. durations = [i \in 1 .. Len(s) |-> durations[i]]
      BY <1>4 DEF durations
    <3>2. \A i \in 1 .. Len(s) : durations[i] \in D
      BY <1>4 DEF Range
    <3>3. \A d \in D : \E i \in 1 .. Len(s) : durations[i] = d
      BY <1>4 DEF Range
    <3> HIDE DEF D
    <3> QED
      BY <3>1, <3>2, <3>3 DEF Surjection
  <2> HIDE DEF D
  <2> QED
    BY <2>1, <2>2, FS_Surjection
<1> HIDE DEF D
<1>9. \E x \in D : \A y \in D : x <= y
  BY <1>7, NatLeast
<1>10. \E x \in D : \A y \in D : y <= x
  BY <1>7, <1>8, FiniteMost
<1>11. Min(D) \in D /\ \A y \in D : Min(D) <= y
  BY <1>9, Zenon DEF Min
<1>12. \E x \in D : \A y \in D : x >= y
  BY <1>10
<1>13. Max(D) \in D
  BY <1>12, Zenon DEF Max
<1> QED
  BY <1>5, <1>6, <1>11, <1>13 DEF summary, s

(* A list of metrics can be put in the order of the slowest first.         *)
LEMMA SlowestFirstIs ==
  ASSUME NEW s \in Seq(Metric)
  PROVE  /\ SlowestFirst(s) \in [1 .. Len(s) -> 1 .. Len(s)]
         /\ \A m, n \in 1 .. Len(s) :
              m < n => s[SlowestFirst(s)[m]].duration >= s[SlowestFirst(s)[n]].duration
<1> DEFINE N == Len(s)
           P == 1 .. N
           R == {pair \in P \X P : \/ s[pair[1]].duration > s[pair[2]].duration
                                   \/ s[pair[1]].duration = s[pair[2]].duration /\ pair[1] < pair[2]}
<1>1. N \in Nat /\ DOMAIN s = P /\ \A i \in P : s[i].duration \in Nat
  <2>1. N \in Nat /\ DOMAIN s = P /\ \A i \in P : s[i] \in Metric
    BY LenProperties, ElementOfSeq
  <2> QED
    BY <2>1, MeasuresAreNumbers DEF Metric
<1>2. \A i, j \in P : <<i, j>> \in R <=> \/ s[i].duration > s[j].duration
                                         \/ s[i].duration = s[j].duration /\ i < j
  OBVIOUS
<1>3. \A i \in P : i \in Int
  BY <1>1
<1>4. IsFiniteSet(P) /\ Cardinality(P) = N
  BY <1>1, FS_Interval
<1> HIDE DEF P, R, N
<1>5. StrictOrder(R, P)
  BY <1>1, <1>2, <1>3 DEF StrictOrder
<1>6. PICK c : InTheOrder(c, P, R)
  BY <1>4, <1>5, OrderedExists
<1>7. c \in [P -> P] /\ \A m, n \in P : m < n => <<c[m], c[n]>> \in R
  BY <1>4, <1>6 DEF InTheOrder, P
<1>8. c \in [DOMAIN s -> DOMAIN s] /\ \A m, n \in DOMAIN s :
        m < n => \/ s[c[m]].duration > s[c[n]].duration
                 \/ s[c[m]].duration = s[c[n]].duration /\ c[m] < c[n]
  <2>1. \A m, n \in P : c[m] \in P /\ c[n] \in P
    BY <1>7
  <2> QED
    BY <1>1, <1>2, <1>7, <2>1
<1> DEFINE at == SlowestFirst(s)
<1>9. at \in [DOMAIN s -> DOMAIN s] /\ \A m, n \in DOMAIN s :
        m < n => \/ s[at[m]].duration > s[at[n]].duration
                 \/ s[at[m]].duration = s[at[n]].duration /\ at[m] < at[n]
  BY <1>8, Zenon DEF SlowestFirst
<1> HIDE DEF at
<1>10. \A m, n \in P : m < n => s[at[m]].duration >= s[at[n]].duration
  <2> SUFFICES ASSUME NEW m \in P, NEW n \in P, m < n
               PROVE  s[at[m]].duration >= s[at[n]].duration
    OBVIOUS
  <2>1. PICK p \in P, q \in P : p = at[m] /\ q = at[n]
    BY <1>1, <1>9
  <2>2. s[p].duration > s[q].duration \/ s[p].duration = s[q].duration
    BY <1>1, <1>9, <2>1
  <2>3. s[p].duration \in Nat /\ s[q].duration \in Nat
    BY <1>1
  <2> QED
    BY <2>1, <2>2, <2>3
<1> QED
  BY <1>1, <1>9, <1>10 DEF at, P, N

LEMMA SlowInOrder ==
  ASSUME TelTypeOK, IsFiniteSet(MetricKeys), NEW threshold,
         NEW i \in 1 .. Len(SlowRequests(threshold)) - 1
  PROVE  SlowRequests(threshold)[i].duration >= SlowRequests(threshold)[i + 1].duration
<1> DEFINE A == {m \in Metric : m.duration > threshold}
           slow == Filter(AllMetrics, A)
           at == SlowestFirst(slow)
<1>1. slow \in Seq(Metric)
  <2> HIDE DEF A
  <2>1. AllMetrics \in Seq(Metric)
    BY AllAre DEF TelTypeOK
  <2> QED
    BY <2>1, FilterIs
<1>2. SlowRequests(threshold) = [n \in DOMAIN slow |-> slow[at[n]]]
  BY Zenon DEF SlowRequests
<1> HIDE DEF slow, at
<1>3. Len(slow) \in Nat /\ DOMAIN slow = 1 .. Len(slow)
  BY <1>1, LenProperties
<1>4. Len(SlowRequests(threshold)) = Len(slow)
  BY <1>2, <1>3
<1>5. i \in 1 .. Len(slow) /\ i + 1 \in 1 .. Len(slow) /\ i < i + 1
  BY <1>3, <1>4
<1>6. slow[at[i]].duration >= slow[at[i + 1]].duration
  BY <1>1, <1>5, SlowestFirstIs DEF at
<1> QED
  BY <1>2, <1>3, <1>5, <1>6

(* A request is among the failed ones as often as its route has it.        *)
LEMMA FailedOnce ==
  ASSUME TelTypeOK, IsFiniteSet(MetricKeys)
  PROVE  Len(ErrorRequests)
           = Cardinality(UNION {{<<r, i>> : i \in {j \in DOMAIN metrics[r] : Failed(metrics[r][j])}} :
                                  r \in Routes})
<1> DEFINE A == {m \in Metric : Failed(m)}
<1>1. metrics \in [Routes -> Seq(Metric)]
  BY DEF TelTypeOK
<1>2. \A r \in Routes : Where(metrics[r], A) = {j \in DOMAIN metrics[r] : Failed(metrics[r][j])}
  <2> SUFFICES ASSUME NEW r \in Routes
               PROVE  Where(metrics[r], A) = {j \in DOMAIN metrics[r] : Failed(metrics[r][j])}
    OBVIOUS
  <2>1. metrics[r] \in Seq(Metric)
    BY <1>1
  <2>2. DOMAIN metrics[r] = 1 .. Len(metrics[r]) /\ \A j \in 1 .. Len(metrics[r]) : metrics[r][j] \in Metric
    BY <2>1, LenProperties, ElementOfSeq
  <2> QED
    BY <2>2 DEF Where
<1>3. ErrorRequests = Filter(AllMetrics, A)
  BY DEF ErrorRequests
<1> HIDE DEF A
<1>4. /\ AllMetrics \in Seq(Metric)
      /\ Cardinality(Where(AllMetrics, A))
           = Cardinality(UNION {{<<r, i>> : i \in Where(metrics[r], A)} : r \in Routes})
  BY <1>1, AllAre
<1>5. Len(ErrorRequests) = Cardinality(Where(AllMetrics, A))
  BY <1>3, <1>4, FilterIs
<1> DEFINE B(r) == {j \in DOMAIN metrics[r] : Failed(metrics[r][j])}
<1>6. \A r \in Routes : Where(metrics[r], A) = B(r)
  BY <1>2
<1>7. {{<<r, i>> : i \in Where(metrics[r], A)} : r \in Routes} = {{<<r, i>> : i \in B(r)} : r \in Routes}
  <2> HIDE DEF B
  <2> QED
    BY <1>6
<1> QED
  BY <1>4, <1>5, <1>7

(* The map never holds more than finitely many routes.                     *)
KeysInv == TelInv /\ IsFiniteSet(MetricKeys)

LEMMA KeysInitInv == TelInit => KeysInv
<1> SUFFICES ASSUME TelInit PROVE KeysInv
  OBVIOUS
<1>1. MetricKeys = {}
  BY DEF TelInit, MetricKeys
<1> QED
  BY <1>1, TelInitInv, FS_EmptySet DEF KeysInv

LEMMA KeysNextInv == KeysInv /\ [TelNext]_telVars => KeysInv'
<1> SUFFICES ASSUME KeysInv, [TelNext]_telVars PROVE KeysInv'
  OBVIOUS
<1> DEFINE next == {r \in Routes : metrics'[r] # <<>>}
<1>1. TelInv' /\ metrics \in [Routes -> Seq(Metric)]
  BY TelNextInv DEF KeysInv, TelInv, TelTypeOK
<1>2. \E r : next \in SUBSET (MetricKeys \cup {r})
  <2>1. ASSUME metrics' = metrics PROVE next = MetricKeys
    BY <2>1 DEF MetricKeys
  <2>2. CASE UNCHANGED telVars
    BY <2>1, <2>2 DEF telVars
  <2>3. ASSUME NEW path, TrackError(path) PROVE next = MetricKeys
    BY <2>1, <2>3 DEF TrackError
  <2>4. CASE ClearErrors
    BY <2>1, <2>4 DEF ClearErrors
  <2>5. ASSUME NEW r \in Routes, NEW m, RecordMetric(r, m) PROVE next \in SUBSET (MetricKeys \cup {r})
    BY <1>1, <2>5 DEF RecordMetric, MetricKeys
  <2>6. ASSUME NEW r \in Routes, ClearMetrics(r) PROVE next \in SUBSET (MetricKeys \cup {r})
    BY <1>1, <2>6 DEF ClearMetrics, MetricKeys
  <2>7. CASE ClearAllMetrics
    <3>1. next = {}
      BY <2>7 DEF ClearAllMetrics
    <3> QED
      BY <3>1
  <2> HIDE DEF next
  <2> QED
    BY <2>2, <2>3, <2>4, <2>5, <2>6, <2>7 DEF TelNext
<1>3. IsFiniteSet(next)
  BY <1>2, FS_AddElement, FS_Subset DEF KeysInv
<1> QED
  BY <1>1, <1>3 DEF KeysInv, MetricKeys

(* What is kept is the newest of what was recorded, and what is said of it *)
(* agrees: the errors by path, the summaries, the failed requests and the  *)
(* order of the slow ones, for any routes, limits, status codes and        *)
(* durations (error-tracking.service.ts, metrics.service.ts).              *)
THEOREM WhatIsKeptAgrees == TelSpec => []KeptIsTheNewest
<1>1. ASSUME KeysInv PROVE KeptIsTheNewest
  <2>1. TelTypeOK /\ NewestKept /\ IsFiniteSet(MetricKeys)
    BY <1>1 DEF KeysInv, TelInv
  <2>2. \A p \in DOMAIN ErrorStatistics.byPath :
          ErrorStatistics.byPath[p] = Cardinality({i \in DOMAIN errors : errors[i] = p})
    BY <2>1, PathsAddUp
  <2>3. \A r \in Routes :
          CutTo[r] = r /\ metrics[r] # <<>> =>
            /\ r \in DOMAIN AllPerformanceSummaries
            /\ AllPerformanceSummaries[r].total = Len(metrics[r])
            /\ AllPerformanceSummaries[r].min <= AllPerformanceSummaries[r].max
    BY <2>1, SummaryIsItsOwn
  <2>4. Len(ErrorRequests)
          = Cardinality(UNION {{<<r, i>> : i \in {j \in DOMAIN metrics[r] : Failed(metrics[r][j])}} :
                                 r \in Routes})
    BY <2>1, FailedOnce
  <2>5. \A i \in 1 .. Len(SlowRequests(1)) - 1 :
          SlowRequests(1)[i].duration >= SlowRequests(1)[i + 1].duration
    BY <2>1, SlowInOrder
  <2> QED
    BY <2>1, <2>2, <2>3, <2>4, <2>5, Zenon DEF KeptIsTheNewest
<1> QED
  BY <1>1, KeysInitInv, KeysNextInv, PTL DEF TelSpec

-----------------------------------------------------------------------------
(* The conflict check: what a plugin leads to in one dependency.           *)
Direct(p) == Range(catalogue[p]) \cap GetAll
ClosedUnder(A) == \A q \in A : Direct(q) \subseteq A

ConInv == IsFiniteSet(GetAll) /\ \A p \in GetAll : catalogue[p] \in Seq(Names)

LEMMA DependenciesAreNames ==
  ASSUME NEW s \in Dependencies
  PROVE  s \in Seq(Names)
<1>1. PICK m \in 0 .. 2 : s \in [1 .. m -> Names]
  BY DEF Dependencies, SeqOf
<1> QED
  BY <1>1

LEMMA ConInitInv == ConInit => ConInv
BY FS_EmptySet DEF ConInit, ConInv, GetAll

LEMMA ConNextInv == ConInv /\ [ConNext]_catalogue => ConInv'
<1> SUFFICES ASSUME ConInv, [ConNext]_catalogue PROVE ConInv'
  OBVIOUS
<1>1. CASE UNCHANGED catalogue
  BY <1>1 DEF ConInv, GetAll
<1>2. ASSUME NEW p \in Names \ Strangers, NEW deps \in Dependencies, RegisterPlugin(p, deps)
      PROVE  ConInv'
  <2>1. DOMAIN catalogue' = DOMAIN catalogue \cup {p}
    BY <1>2 DEF RegisterPlugin, GetAll
  <2>2. IsFiniteSet(DOMAIN catalogue')
    BY <2>1, FS_AddElement DEF ConInv, GetAll
  <2>3. \A q \in DOMAIN catalogue' : catalogue'[q] \in Seq(Names)
    BY <1>2, <2>1, DependenciesAreNames DEF ConInv, GetAll, RegisterPlugin
  <2> QED
    BY <2>2, <2>3 DEF ConInv, GetAll
<1>3. ASSUME NEW p \in Names, UnregisterPlugin(p) PROVE ConInv'
  <2>1. DOMAIN catalogue' = DOMAIN catalogue \ {p}
    BY <1>3 DEF UnregisterPlugin, GetAll
  <2>2. IsFiniteSet(DOMAIN catalogue')
    BY <2>1, FS_Subset DEF ConInv, GetAll
  <2>3. \A q \in DOMAIN catalogue' : catalogue'[q] \in Seq(Names)
    BY <1>3, <2>1 DEF ConInv, GetAll, UnregisterPlugin
  <2> QED
    BY <2>2, <2>3 DEF ConInv, GetAll
<1> QED
  BY <1>1, <1>2, <1>3 DEF ConNext

-----------------------------------------------------------------------------
(* LeadsTo is the least closed set with the direct dependencies.           *)
IsReached(p, N, reached) ==
  /\ reached \in [0 .. N -> SUBSET GetAll]
  /\ reached[0] = Direct(p)
  /\ \A n \in 1 .. N : reached[n] = reached[n - 1] \cup UNION {Direct(q) : q \in reached[n - 1]}

ReachedOf(p, N, reached) ==
  [n \in 0 .. N |->
     IF n = 0 THEN Range(catalogue[p]) \cap GetAll
     ELSE reached[n - 1] \cup UNION {Range(catalogue[q]) \cap GetAll : q \in reached[n - 1]}]

LEMMA LeadsToIs ==
  ASSUME NEW p
  PROVE  LeadsTo(p) = (CHOOSE reached : reached = ReachedOf(p, Cardinality(GetAll), reached))[Cardinality(GetAll)]
BY Zenon DEF LeadsTo, ReachedOf

LEMMA ReachedExists ==
  ASSUME NEW p, NEW N \in Nat
  PROVE  \E reached : reached = ReachedOf(p, N, reached)
<1> DEFINE V == SUBSET GetAll
           more(A) == A \cup UNION {Direct(q) : q \in A}
           step == [n \in 1 .. N |-> [A \in V |-> more(A)]]
<1>1. Direct(p) \in V /\ \A A \in V : more(A) \in V
  BY DEF Direct
<1> HIDE DEF more
<1>2. step \in [1 .. N -> [V -> V]]
  BY <1>1
<1>3. \E reached : Iterates(reached, N, V, Direct(p), step)
  <2> HIDE DEF V, step
  <2> QED
    BY <1>1, <1>2, RecursionExists
<1>4. PICK reached : Iterates(reached, N, V, Direct(p), step)
  BY <1>3
<1>5. /\ reached \in [0 .. N -> V] /\ reached[0] = Direct(p)
      /\ \A n \in 1 .. N : reached[n] = step[n][reached[n - 1]]
  BY <1>4 DEF Iterates
<1>6. ASSUME NEW n \in 1 .. N PROVE reached[n] = more(reached[n - 1])
  <2>1. n - 1 \in 0 .. N
    OBVIOUS
  <2>2. reached[n - 1] \in V
    BY <1>5, <2>1
  <2> QED
    BY <1>5, <2>2
<1>7. \A n \in 0 .. N : n # 0 => n \in 1 .. N
  OBVIOUS
<1>8. \A n \in 0 .. N : reached[n] = IF n = 0 THEN Direct(p) ELSE more(reached[n - 1])
  BY <1>5, <1>6, <1>7
<1>9. reached = [n \in 0 .. N |-> IF n = 0 THEN Direct(p) ELSE more(reached[n - 1])]
  <2> HIDE DEF V, step
  <2> QED
  BY <1>5, <1>8
<1>10. reached = ReachedOf(p, N, reached)
  BY <1>9, Zenon DEF ReachedOf, Direct, more
<1> QED
  BY <1>10

LEMMA ReachedIs ==
  ASSUME NEW p, NEW N \in Nat, NEW reached, reached = ReachedOf(p, N, reached)
  PROVE  IsReached(p, N, reached)
<1>1. DOMAIN reached = 0 .. N /\ 0 \in 0 .. N
  <2>1. DOMAIN reached = 0 .. N
    BY Zenon DEF ReachedOf
  <2> QED
    BY <2>1
<1>2. reached[0] = Direct(p)
  BY <1>1, Zenon DEF ReachedOf, Direct
<1>3. ASSUME NEW n \in 1 .. N
      PROVE  reached[n] = reached[n - 1] \cup UNION {Direct(q) : q \in reached[n - 1]}
  <2>1. n \in 0 .. N /\ n # 0
    OBVIOUS
  <2> QED
    BY <2>1, Zenon DEF ReachedOf, Direct
<1>4. ASSUME NEW n \in 0 .. N PROVE reached[n] \subseteq GetAll
  <2> DEFINE T == {k \in Nat : k <= N => reached[k] \subseteq GetAll}
  <2>1. 0 \in T
    BY <1>2 DEF Direct
  <2>2. ASSUME NEW k \in Nat, k \in T PROVE k + 1 \in T
    <3> SUFFICES ASSUME k + 1 <= N PROVE reached[k + 1] \subseteq GetAll
      OBVIOUS
    <3>1. reached[k + 1] = reached[k] \cup UNION {Direct(q) : q \in reached[k]}
      BY <1>3
    <3>2. reached[k] \subseteq GetAll
      BY <2>2
    <3> QED
      BY <3>1, <3>2 DEF Direct
  <2>3. n \in T
    <3> HIDE DEF T
    <3> QED
      BY <2>1, <2>2, NatSetInduction
  <2> QED
    BY <2>3
<1>5. reached \in [0 .. N -> SUBSET GetAll]
  <2>1. reached = [n \in 0 .. N |-> reached[n]]
    BY <1>1, Zenon DEF ReachedOf
  <2> QED
    BY <1>4, <2>1
<1> QED
  BY <1>2, <1>3, <1>5 DEF IsReached

LEMMA LeadsToReaches ==
  ASSUME IsFiniteSet(GetAll), NEW p
  PROVE  /\ LeadsTo(p) \in SUBSET GetAll
         /\ Direct(p) \subseteq LeadsTo(p)
         /\ ClosedUnder(LeadsTo(p))
         /\ \A A : Direct(p) \subseteq A /\ ClosedUnder(A) => LeadsTo(p) \subseteq A
<1> DEFINE N == Cardinality(GetAll)
<1>1. N \in Nat
  BY FS_CardinalityType
<1> HIDE DEF N
<1>2. PICK reached : reached = ReachedOf(p, N, reached) /\ LeadsTo(p) = reached[N]
  <2>1. \E reached : reached = ReachedOf(p, N, reached)
    BY <1>1, ReachedExists
  <2>2. LeadsTo(p) = (CHOOSE reached : reached = ReachedOf(p, N, reached))[N]
    BY LeadsToIs DEF N
  <2> QED
    BY <2>1, <2>2
<1>3. /\ reached \in [0 .. N -> SUBSET GetAll]
      /\ reached[0] = Direct(p)
      /\ \A n \in 1 .. N : reached[n] = reached[n - 1] \cup UNION {Direct(q) : q \in reached[n - 1]}
  <2>1. IsReached(p, N, reached)
    BY <1>1, <1>2, ReachedIs
  <2> QED
    BY <2>1 DEF IsReached
<1>4. \A n \in 0 .. N : reached[n] \in SUBSET GetAll
  BY <1>3
<1>5. \A n \in 0 .. N : IsFiniteSet(reached[n]) /\ Cardinality(reached[n]) \in Nat /\ Cardinality(reached[n]) <= N
  BY <1>4, FS_Subset, FS_CardinalityType DEF N
<1>6. \A n \in Nat : n + 1 <= N => reached[n + 1] = reached[n] \cup UNION {Direct(q) : q \in reached[n]}
  <2> SUFFICES ASSUME NEW n \in Nat, n + 1 <= N
               PROVE  reached[n + 1] = reached[n] \cup UNION {Direct(q) : q \in reached[n]}
    OBVIOUS
  <2>1. n + 1 \in 1 .. N /\ (n + 1) - 1 = n
    BY <1>1
  <2> QED
    BY <1>3, <2>1
<1>7. N \in 0 .. N /\ 0 \in 0 .. N /\ \A n \in Nat : n <= N => n \in 0 .. N
  BY <1>1
<1>8. ClosedUnder(reached[N])
  <2> DEFINE T == {n \in Nat : n <= N => \/ ClosedUnder(reached[n])
                                          \/ Cardinality(reached[n]) > n}
  <2>1. 0 \in T
    <3>1. CASE reached[0] = {}
      BY <3>1 DEF ClosedUnder
    <3>2. CASE reached[0] # {}
      <4>1. Cardinality(reached[0]) # 0 /\ Cardinality(reached[0]) \in Nat
        BY <1>5, <1>7, <3>2, FS_EmptySet
      <4> QED
        BY <4>1
    <3> QED
      BY <3>1, <3>2
  <2>2. ASSUME NEW n \in Nat, n \in T PROVE n + 1 \in T
    <3> SUFFICES ASSUME n + 1 <= N PROVE ClosedUnder(reached[n + 1]) \/ Cardinality(reached[n + 1]) > n + 1
      OBVIOUS
    <3>0. n \in 0 .. N /\ n + 1 \in 0 .. N
      BY <1>1
    <3>1. reached[n + 1] = reached[n] \cup UNION {Direct(q) : q \in reached[n]}
      BY <1>6
    <3>2. CASE ClosedUnder(reached[n])
      <4>1. reached[n + 1] = reached[n]
        BY <3>1, <3>2 DEF ClosedUnder
      <4> QED
        BY <3>2, <4>1
    <3>3. CASE ~ ClosedUnder(reached[n])
      <4>1. Cardinality(reached[n]) > n
        BY <1>1, <2>2, <3>3
      <4>2. reached[n] \subseteq reached[n + 1] /\ reached[n] # reached[n + 1]
        BY <3>1, <3>3 DEF ClosedUnder
      <4>3. IsFiniteSet(reached[n + 1]) /\ Cardinality(reached[n]) \in Nat /\ Cardinality(reached[n + 1]) \in Nat
        BY <1>5, <3>0
      <4>4. Cardinality(reached[n]) < Cardinality(reached[n + 1])
        BY <4>2, <4>3, FS_Subset
      <4> QED
        BY <4>1, <4>3, <4>4
    <3> QED
      BY <3>2, <3>3
  <2>3. N \in T
    <3> HIDE DEF T
    <3> QED
      BY <1>1, <2>1, <2>2, NatSetInduction
  <2>4. Cardinality(reached[N]) <= N /\ Cardinality(reached[N]) \in Nat
    BY <1>5, <1>7
  <2> QED
    BY <1>1, <2>3, <2>4
<1>9. Direct(p) \subseteq reached[N]
  <2> DEFINE T == {n \in Nat : n <= N => Direct(p) \subseteq reached[n]}
  <2>1. 0 \in T
    BY <1>3
  <2>2. ASSUME NEW n \in Nat, n \in T PROVE n + 1 \in T
    <3> SUFFICES ASSUME n + 1 <= N PROVE Direct(p) \subseteq reached[n + 1]
      OBVIOUS
    <3> QED
      BY <1>1, <1>6, <2>2
  <2>3. N \in T
    <3> HIDE DEF T
    <3> QED
      BY <1>1, <2>1, <2>2, NatSetInduction
  <2> QED
    BY <1>1, <2>3
<1>10. ASSUME NEW A, Direct(p) \subseteq A, ClosedUnder(A) PROVE reached[N] \subseteq A
  <2> DEFINE T == {n \in Nat : n <= N => reached[n] \subseteq A}
  <2>1. 0 \in T
    BY <1>3, <1>10
  <2>2. ASSUME NEW n \in Nat, n \in T PROVE n + 1 \in T
    <3> SUFFICES ASSUME n + 1 <= N PROVE reached[n + 1] \subseteq A
      OBVIOUS
    <3>1. reached[n] \subseteq A
      BY <1>1, <2>2
    <3> QED
      BY <1>6, <1>10, <3>1 DEF ClosedUnder
  <2>3. N \in T
    <3> HIDE DEF T
    <3> QED
      BY <1>1, <2>1, <2>2, NatSetInduction
  <2> QED
    BY <1>1, <2>3
<1>11. LeadsTo(p) = reached[N] /\ reached[N] \in SUBSET GetAll
  BY <1>2, <1>4, <1>7
<1> HIDE DEF ClosedUnder
<1> QED
  BY <1>8, <1>9, <1>10, <1>11

LEMMA LeadsToGoesOn ==
  ASSUME IsFiniteSet(GetAll), NEW p, NEW q \in LeadsTo(p)
  PROVE  LeadsTo(q) \subseteq LeadsTo(p)
<1>1. Direct(q) \subseteq LeadsTo(p)
  BY LeadsToReaches DEF ClosedUnder
<1>2. ClosedUnder(LeadsTo(p))
  BY LeadsToReaches
<1> QED
  BY <1>1, <1>2, LeadsToReaches

-----------------------------------------------------------------------------
(* The search: what it answers, and for the dependencies of a plugin.      *)
Result == [found : BOOLEAN, visited : SUBSET GetAll]
Searches == [GetAll -> [SUBSET GetAll -> Result]]

AfterOf(p, visited, search, after) ==
  [n \in 0 .. Len(catalogue[p]) |->
     IF n = 0 THEN [found |-> FALSE, visited |-> visited]
     ELSE IF after[n - 1].found \/ catalogue[p][n] \notin GetAll THEN after[n - 1]
     ELSE search[catalogue[p][n]][after[n - 1].visited]]

InTurn(p, visited, search, after) ==
  /\ after \in [0 .. Len(catalogue[p]) -> Result]
  /\ after[0] = [found |-> FALSE, visited |-> visited]
  /\ \A n \in 1 .. Len(catalogue[p]) :
       after[n] = IF after[n - 1].found \/ catalogue[p][n] \notin GetAll THEN after[n - 1]
                  ELSE search[catalogue[p][n]][after[n - 1].visited]

LEMMA EachDependencyIs ==
  ASSUME NEW p, NEW visited, NEW search
  PROVE  EachDependency(p, visited, search) =
           (CHOOSE after : after = AfterOf(p, visited, search, after))[Len(catalogue[p])]
BY Zenon DEF EachDependency, AfterOf

LEMMA AfterExists ==
  ASSUME ConInv, NEW p \in GetAll, NEW visited \in SUBSET GetAll, NEW search \in Searches
  PROVE  \E after : after = AfterOf(p, visited, search, after)
<1> DEFINE N == Len(catalogue[p])
           b == [found |-> FALSE, visited |-> visited]
           then(n, r) == IF r.found \/ catalogue[p][n] \notin GetAll THEN r
                         ELSE search[catalogue[p][n]][r.visited]
           step == [n \in 1 .. N |-> [r \in Result |-> then(n, r)]]
<1>1. N \in Nat /\ b \in Result
  BY DEF ConInv, Result
<1>2. \A n \in 1 .. N, r \in Result : then(n, r) \in Result
  BY DEF Searches, Result
<1> HIDE DEF N, b, then
<1>3. step \in [1 .. N -> [Result -> Result]]
  BY <1>2
<1>4. \E after : Iterates(after, N, Result, b, step)
  <2> HIDE DEF step
  <2> QED
    BY <1>1, <1>3, RecursionExists
<1>5. PICK after : Iterates(after, N, Result, b, step)
  BY <1>4
<1>6. /\ after \in [0 .. N -> Result] /\ after[0] = b
      /\ \A n \in 1 .. N : after[n] = step[n][after[n - 1]]
  BY <1>5 DEF Iterates
<1>7. ASSUME NEW n \in 1 .. N PROVE after[n] = then(n, after[n - 1])
  <2>1. n - 1 \in 0 .. N
    BY <1>1
  <2>2. after[n - 1] \in Result
    BY <1>6, <2>1
  <2> QED
    BY <1>6, <2>2
<1>8. \A n \in 0 .. N : n # 0 => n \in 1 .. N
  BY <1>1
<1>9. \A n \in 0 .. N : after[n] = IF n = 0 THEN b ELSE then(n, after[n - 1])
  BY <1>6, <1>7, <1>8
<1>10. after = [n \in 0 .. N |-> IF n = 0 THEN b ELSE then(n, after[n - 1])]
  <2> HIDE DEF step
  <2> QED
    BY <1>6, <1>9
<1>11. after = AfterOf(p, visited, search, after)
  BY <1>10, Zenon DEF AfterOf, N, b, then
<1> QED
  BY <1>11

LEMMA AfterIs ==
  ASSUME ConInv, NEW p \in GetAll, NEW visited \in SUBSET GetAll, NEW search \in Searches,
         NEW after, after = AfterOf(p, visited, search, after)
  PROVE  InTurn(p, visited, search, after)
<1> DEFINE N == Len(catalogue[p])
<1>1. N \in Nat
  BY DEF ConInv
<1>2. DOMAIN after = 0 .. N /\ after = [n \in 0 .. N |-> after[n]]
  BY Zenon DEF AfterOf
<1>3. after[0] = [found |-> FALSE, visited |-> visited]
  <2>1. 0 \in 0 .. N
    BY <1>1
  <2> QED
    BY <2>1, Zenon DEF AfterOf
<1>4. ASSUME NEW n \in 1 .. N
      PROVE  after[n] = IF after[n - 1].found \/ catalogue[p][n] \notin GetAll THEN after[n - 1]
                        ELSE search[catalogue[p][n]][after[n - 1].visited]
  <2>1. n \in 0 .. N /\ n # 0
    BY <1>1
  <2> QED
    BY <2>1, Zenon DEF AfterOf
<1> HIDE DEF N
<1>5. ASSUME NEW n \in 0 .. N PROVE after[n] \in Result
  <2> DEFINE T == {k \in Nat : k <= N => after[k] \in Result}
  <2>1. 0 \in T
    <3>1. [found |-> FALSE, visited |-> visited] \in Result
      BY DEF Result
    <3> QED
      BY <1>3, <3>1
  <2>2. ASSUME NEW k \in Nat, k \in T PROVE k + 1 \in T
    <3> SUFFICES ASSUME k + 1 <= N PROVE after[k + 1] \in Result
      OBVIOUS
    <3>1. k + 1 \in 1 .. N /\ (k + 1) - 1 = k
      BY <1>1
    <3>2. after[k] \in Result
      BY <1>1, <2>2
    <3>3. after[k + 1] = IF after[k].found \/ catalogue[p][k + 1] \notin GetAll THEN after[k]
                         ELSE search[catalogue[p][k + 1]][after[k].visited]
      BY <1>4, <3>1
    <3>4. after[k].visited \in SUBSET GetAll
      BY <3>2 DEF Result
    <3>5. catalogue[p][k + 1] \in GetAll => search[catalogue[p][k + 1]][after[k].visited] \in Result
      BY <3>4 DEF Searches
    <3> QED
      BY <3>2, <3>3, <3>5
  <2>3. n \in T
    <3> HIDE DEF T
    <3> QED
      BY <2>1, <2>2, <1>1, NatSetInduction
  <2> QED
    BY <1>1, <2>3
<1>6. after \in [0 .. N -> Result]
  BY <1>2, <1>5
<1> QED
  BY <1>3, <1>4, <1>6 DEF InTurn, N

LEMMA DependenciesInTurn ==
  ASSUME ConInv, NEW p \in GetAll, NEW visited \in SUBSET GetAll, NEW search \in Searches
  PROVE  \E after : /\ InTurn(p, visited, search, after)
                    /\ EachDependency(p, visited, search) = after[Len(catalogue[p])]
<1>1. \E after : after = AfterOf(p, visited, search, after)
  BY AfterExists
<1>2. EachDependency(p, visited, search) =
        (CHOOSE after : after = AfterOf(p, visited, search, after))[Len(catalogue[p])]
  BY EachDependencyIs
<1>3. PICK after : /\ after = AfterOf(p, visited, search, after)
                   /\ EachDependency(p, visited, search) = after[Len(catalogue[p])]
  BY <1>1, <1>2
<1>4. InTurn(p, visited, search, after)
  BY <1>3, AfterIs
<1> QED
  BY <1>3, <1>4

LEMMA EachDependencyType ==
  ASSUME ConInv, NEW p \in GetAll, NEW visited \in SUBSET GetAll, NEW search \in Searches
  PROVE  EachDependency(p, visited, search) \in Result
<1>1. PICK after : /\ InTurn(p, visited, search, after)
                   /\ EachDependency(p, visited, search) = after[Len(catalogue[p])]
  BY DependenciesInTurn
<1>2. Len(catalogue[p]) \in 0 .. Len(catalogue[p])
  BY DEF ConInv
<1> QED
  BY <1>1, <1>2 DEF InTurn

-----------------------------------------------------------------------------
(* The recursion of the search, on the names that are not on the stack.    *)
Visit(on, q, seen, search) ==
  IF q \in on THEN [found |-> TRUE, visited |-> seen]
  ELSE IF q \in seen THEN [found |-> FALSE, visited |-> seen]
  ELSE EachDependency(q, seen \cup {q}, search)

VisitsOf(from) ==
  [on \in SUBSET GetAll |-> [q \in GetAll |-> [seen \in SUBSET GetAll |->
     Visit(on, q, seen, from[on \cup {q}])]]]

LEMMA SearchIs ==
  ASSUME NEW p, NEW stack, NEW visited
  PROVE  Search(p, stack, visited) = (CHOOSE from : from = VisitsOf(from))[stack][p][visited]
BY Zenon DEF Search, VisitsOf, Visit

LEMMA VisitType ==
  ASSUME ConInv, NEW on \in SUBSET GetAll, NEW q \in GetAll, NEW seen \in SUBSET GetAll, NEW search,
         q \notin on => search \in Searches
  PROVE  Visit(on, q, seen, search) \in Result
<1>1. CASE q \in on \/ q \in seen
  BY <1>1 DEF Visit, Result
<1>2. CASE q \notin on /\ q \notin seen
  <2>1. seen \cup {q} \in SUBSET GetAll /\ search \in Searches
    BY <1>2
  <2> QED
    BY <1>2, <2>1, EachDependencyType DEF Visit
<1> QED
  BY <1>1, <1>2

LEMMA VisitsExist ==
  ASSUME ConInv
  PROVE  \E from : from = VisitsOf(from)
<1> DEFINE G == GetAll
           V == [SUBSET G -> Searches]
           K == Cardinality(G)
           N == K + 2
           step == [n \in 1 .. N |-> [h \in V |-> VisitsOf(h)]]
<1>1. IsFiniteSet(G) /\ K \in Nat /\ N \in Nat
  BY FS_CardinalityType DEF ConInv
<1>2. ASSUME NEW h \in V PROVE VisitsOf(h) \in V
  <2>1. ASSUME NEW on \in SUBSET G, NEW q \in G, NEW seen \in SUBSET G
        PROVE  Visit(on, q, seen, h[on \cup {q}]) \in Result
    <3>1. h[on \cup {q}] \in Searches
      OBVIOUS
    <3> QED
      BY <3>1, VisitType
  <2> QED
    BY <2>1 DEF VisitsOf, Searches
<1>3. step \in [1 .. N -> [V -> V]]
  <2> HIDE DEF V, N
  <2> QED
    BY <1>2
<1>4. PICK b : b \in V
  <2>1. [q \in GetAll |-> [seen \in SUBSET GetAll |-> [found |-> FALSE, visited |-> seen]]] \in Searches
    BY DEF Searches, Result
  <2>2. [on \in SUBSET G |-> [q \in GetAll |-> [seen \in SUBSET GetAll |-> [found |-> FALSE, visited |-> seen]]]] \in V
    BY <2>1
  <2> QED
    BY <2>2
<1>5. PICK g : Iterates(g, N, V, b, step)
  <2> HIDE DEF V, N, step
  <2> QED
    BY <1>1, <1>3, <1>4, RecursionExists
<1>6. /\ g \in [0 .. N -> V]
      /\ \A n \in 1 .. N : g[n] = VisitsOf(g[n - 1])
  <2>1. g \in [0 .. N -> V] /\ \A n \in 1 .. N : g[n] = step[n][g[n - 1]]
    BY <1>5 DEF Iterates
  <2>2. \A n \in 1 .. N : n - 1 \in 0 .. N
    BY <1>1
  <2> HIDE DEF V, N
  <2> QED
    BY <2>1, <2>2
<1>7. ASSUME NEW n \in Nat, n + 2 <= N, NEW on \in SUBSET G,
             \A q \in G \ on : g[n + 1][on \cup {q}] = g[n][on \cup {q}]
      PROVE  g[n + 2][on] = g[n + 1][on]
  <2>1. n + 2 \in 1 .. N /\ n + 1 \in 1 .. N /\ (n + 2) - 1 = n + 1 /\ (n + 1) - 1 = n
    BY <1>1, <1>7
  <2>2. g[n + 2] = VisitsOf(g[n + 1]) /\ g[n + 1] = VisitsOf(g[n])
    BY <1>6, <2>1
  <2>3. ASSUME NEW q \in G, NEW seen
        PROVE  Visit(on, q, seen, g[n + 1][on \cup {q}]) = Visit(on, q, seen, g[n][on \cup {q}])
    <3>1. CASE q \in on
      BY <3>1 DEF Visit
    <3>2. CASE q \notin on
      BY <1>7, <3>2
    <3> QED
      BY <3>1, <3>2
  <2>4. VisitsOf(g[n + 1])[on] = VisitsOf(g[n])[on]
    BY <2>3 DEF VisitsOf
  <2> QED
    BY <2>2, <2>4
<1> DEFINE Settled(n, on) == Cardinality(G \ on) < n => g[n + 1][on] = g[n][on]
           T == {n \in Nat : n + 1 <= N => \A on \in SUBSET G : Settled(n, on)}
<1>8. 0 \in T
  <2>1. \A on \in SUBSET G : Cardinality(G \ on) \in Nat
    BY <1>1, FS_Subset, FS_CardinalityType
  <2> QED
    BY <2>1
<1>9. ASSUME NEW n \in Nat, n \in T PROVE n + 1 \in T
  <2>0. (n + 1) + 1 = n + 2
    OBVIOUS
  <2> SUFFICES ASSUME n + 2 <= N, NEW on \in SUBSET G, Cardinality(G \ on) < n + 1
               PROVE  g[n + 2][on] = g[n + 1][on]
    <3>1. (n + 2 <= N => \A on \in SUBSET G : Settled(n + 1, on)) => n + 1 \in T
      BY <2>0
    <3> QED
      BY <2>0, <3>1
  <2>1. ASSUME NEW q \in G \ on PROVE g[n + 1][on \cup {q}] = g[n][on \cup {q}]
    <3>1. IsFiniteSet(G \ on) /\ Cardinality(G \ on) \in Nat
      BY <1>1, FS_Subset, FS_CardinalityType
    <3>2. Cardinality((G \ on) \ {q}) = Cardinality(G \ on) - 1
      BY <3>1, FS_RemoveElement
    <3>3. G \ (on \cup {q}) = (G \ on) \ {q} /\ on \cup {q} \in SUBSET G
      OBVIOUS
    <3>4. Cardinality(G \ (on \cup {q})) < n
      BY <3>1, <3>2, <3>3
    <3>5. n + 1 <= N
      BY <1>1
    <3>6. Settled(n, on \cup {q})
      BY <1>9, <3>3, <3>5
    <3> QED
      BY <3>4, <3>6
  <2> QED
    BY <1>7, <2>1
<1>10. K + 1 \in T
  <2> HIDE DEF T
  <2> QED
    BY <1>1, <1>8, <1>9, NatSetInduction
<1>11. ASSUME NEW on \in SUBSET G PROVE g[K + 2][on] = g[K + 1][on]
  <2>1. Cardinality(G \ on) <= K /\ Cardinality(G \ on) \in Nat
    BY <1>1, FS_Subset, FS_CardinalityType
  <2>2. Settled(K + 1, on)
    BY <1>1, <1>10
  <2> QED
    BY <1>1, <2>1, <2>2
<1>12. g[K + 1] \in V /\ g[K + 2] \in V /\ g[K + 2] = VisitsOf(g[K + 1])
  <2>1. K + 1 \in 0 .. N /\ K + 2 \in 1 .. N /\ K + 2 \in 0 .. N /\ (K + 2) - 1 = K + 1
    BY <1>1
  <2> HIDE DEF V, N, K
  <2> QED
    BY <1>6, <2>1
<1>13. g[K + 2] = g[K + 1]
  BY <1>11, <1>12
<1> QED
  BY <1>12, <1>13

-----------------------------------------------------------------------------
(* What was visited and is off the stack again is closed and on no cycle.  *)
Black(A) == ClosedUnder(A) /\ \A q \in A : q \notin LeadsTo(q)
RunsIntoCycle(p) == \E q \in {p} \cup LeadsTo(p) : q \in LeadsTo(q)

(* A search may begin at q when what is on the stack leads to it.          *)
MayBegin(on, q, seen) == on \subseteq seen /\ Black(seen \ on) /\ \A s \in on : q \in LeadsTo(s)

Answers(on, q, seen, r) ==
  /\ r.found => RunsIntoCycle(q)
  /\ ~ r.found => q \in r.visited \ on /\ seen \subseteq r.visited /\ Black(r.visited \ on)

Searched(on, search) ==
  \A q \in GetAll, seen \in SUBSET GetAll :
    MayBegin(on, q, seen) => Answers(on, q, seen, search[q][seen])

LEMMA BlackLeadsNowhere ==
  ASSUME IsFiniteSet(GetAll), NEW A, Black(A), NEW q \in A
  PROVE  ~ RunsIntoCycle(q)
<1>1. Direct(q) \subseteq A /\ ClosedUnder(A)
  BY DEF Black, ClosedUnder
<1>2. LeadsTo(q) \subseteq A
  BY <1>1, LeadsToReaches
<1> QED
  BY <1>2 DEF Black, RunsIntoCycle

(* A plugin whose dependencies are black becomes black.                    *)
LEMMA BlackGrows ==
  ASSUME IsFiniteSet(GetAll), NEW A, Black(A), NEW q, q \notin A, Direct(q) \subseteq A
  PROVE  Black(A \cup {q})
<1>1. LeadsTo(q) \subseteq A
  BY LeadsToReaches DEF Black
<1> QED
  BY <1>1 DEF Black, ClosedUnder

LEMMA OneDependency ==
  ASSUME IsFiniteSet(GetAll), NEW q, NEW d \in Direct(q), RunsIntoCycle(d)
  PROVE  RunsIntoCycle(q)
<1>1. d \in LeadsTo(q)
  BY LeadsToReaches
<1>2. LeadsTo(d) \subseteq LeadsTo(q)
  BY <1>1, LeadsToGoesOn
<1> QED
  BY <1>1, <1>2 DEF RunsIntoCycle

(* The dependencies of q, one after the other, with q on the stack.        *)
LEMMA EachDependencyAnswers ==
  ASSUME ConInv, NEW on \in SUBSET GetAll, NEW q \in GetAll, q \notin on,
         NEW seen \in SUBSET GetAll, q \notin seen, MayBegin(on, q, seen),
         NEW search \in Searches, Searched(on \cup {q}, search)
  PROVE  Answers(on, q, seen, EachDependency(q, seen \cup {q}, search))
<1> DEFINE deps == catalogue[q]
           N == Len(deps)
           stack == on \cup {q}
<1>1. /\ N \in Nat /\ IsFiniteSet(GetAll) /\ seen \cup {q} \in SUBSET GetAll
      /\ \A n \in 1 .. N : deps[n] \in Range(deps)
      /\ \A d \in Range(deps) : \E n \in 1 .. N : deps[n] = d
  BY DEF ConInv, Range
<1>2. PICK after : /\ InTurn(q, seen \cup {q}, search, after)
                   /\ EachDependency(q, seen \cup {q}, search) = after[N]
  BY <1>1, DependenciesInTurn
<1>3. /\ after \in [0 .. N -> Result]
      /\ after[0] = [found |-> FALSE, visited |-> seen \cup {q}]
      /\ \A n \in 1 .. N : after[n] = IF after[n - 1].found \/ deps[n] \notin GetAll THEN after[n - 1]
                                      ELSE search[deps[n]][after[n - 1].visited]
  BY <1>2 DEF InTurn
<1> DEFINE Fine(n) ==
             LET r == after[n] IN
               /\ r.found => RunsIntoCycle(q)
               /\ ~ r.found => /\ seen \cup {q} \subseteq r.visited
                               /\ Black(r.visited \ stack)
                               /\ \A k \in 1 .. n : deps[k] \in GetAll => deps[k] \in r.visited \ stack
           T == {n \in Nat : n <= N => Fine(n)}
<1>4. 0 \in T
  <2>1. (seen \cup {q}) \ stack = seen \ on
    BY DEF MayBegin
  <2>2. Black((seen \cup {q}) \ stack)
    BY <2>1 DEF MayBegin
  <2>3. after[0].found = FALSE /\ after[0].visited = seen \cup {q}
    BY <1>3
  <2>4. Fine(0)
    BY <2>2, <2>3
  <2> HIDE DEF Fine
  <2> QED
    BY <2>4
<1>5. ASSUME NEW n \in Nat, n \in T PROVE n + 1 \in T
  <2> SUFFICES ASSUME n + 1 <= N PROVE Fine(n + 1)
    OBVIOUS
  <2>1. n + 1 \in 1 .. N /\ (n + 1) - 1 = n /\ n \in 0 .. N
    BY <1>1
  <2>2. Fine(n)
    BY <1>1, <1>5
  <2> DEFINE d == deps[n + 1]
             r == after[n]
  <2>3. after[n + 1] = IF r.found \/ d \notin GetAll THEN r ELSE search[d][r.visited]
    BY <1>3, <2>1
  <2>4. \A k \in 1 .. n + 1 : k = n + 1 \/ k \in 1 .. n
    OBVIOUS
  <2>5. CASE r.found
    BY <2>2, <2>3, <2>5
  <2>6. CASE ~ r.found /\ d \notin GetAll
    <3>1. after[n + 1] = r
      BY <2>3, <2>6
    <3>2. \A k \in 1 .. n + 1 : deps[k] \in GetAll => deps[k] \in r.visited \ stack
      BY <2>2, <2>4, <2>6
    <3> QED
      BY <2>2, <2>6, <3>1, <3>2
  <2>7. CASE ~ r.found /\ d \in GetAll
    <3>1. after[n + 1] = search[d][r.visited] /\ r.visited \in SUBSET GetAll
      <4>1. r \in Result
        BY <1>3, <2>1
      <4> QED
        BY <2>3, <2>7, <4>1 DEF Result
    <3>2. d \in Direct(q)
      BY <1>1, <2>1, <2>7 DEF Direct
    <3>3. \A s \in stack : d \in LeadsTo(s)
      <4>1. d \in LeadsTo(q)
        BY <1>1, <3>2, LeadsToReaches
      <4>2. ASSUME NEW s \in on PROVE d \in LeadsTo(s)
        <5>1. LeadsTo(q) \subseteq LeadsTo(s)
          BY <1>1, LeadsToGoesOn DEF MayBegin
        <5> QED
          BY <4>1, <5>1
      <4> QED
        BY <4>1, <4>2
    <3>4. MayBegin(stack, d, r.visited)
      BY <2>2, <2>7, <3>3 DEF MayBegin
    <3>5. Answers(stack, d, r.visited, after[n + 1])
      BY <2>7, <3>1, <3>4 DEF Searched
    <3>6. after[n + 1].found => RunsIntoCycle(q)
      BY <1>1, <3>2, <3>5, OneDependency DEF Answers
    <3>7. ~ after[n + 1].found => /\ r.visited \subseteq after[n + 1].visited
                                  /\ d \in after[n + 1].visited \ stack
                                  /\ Black(after[n + 1].visited \ stack)
      BY <3>5 DEF Answers
    <3> QED
      BY <2>2, <2>4, <2>7, <3>6, <3>7
  <2> QED
    BY <2>5, <2>6, <2>7
<1>6. N \in T
  <2> HIDE DEF T
  <2> QED
    BY <1>1, <1>4, <1>5, NatSetInduction
<1>7. Fine(N)
  <2>1. N <= N => Fine(N)
    <3> HIDE DEF Fine
    <3> QED
      BY <1>6
  <2>2. N <= N
    BY <1>1
  <2> QED
    BY <2>1, <2>2
<1> DEFINE r == after[N]
           A == r.visited \ stack
<1>8. ASSUME ~ r.found PROVE q \in r.visited \ on /\ seen \subseteq r.visited /\ Black(r.visited \ on)
  <2>1. seen \cup {q} \subseteq r.visited /\ Black(A)
        /\ \A k \in 1 .. N : deps[k] \in GetAll => deps[k] \in A
    BY <1>7, <1>8
  <2>2. Direct(q) \subseteq A
    BY <1>1, <2>1 DEF Direct
  <2>3. Black(A \cup {q})
    BY <1>1, <2>1, <2>2, BlackGrows
  <2>4. r.visited \ on = A \cup {q}
    BY <2>1
  <2> QED
    BY <2>1, <2>3, <2>4
<1> QED
  BY <1>2, <1>7, <1>8 DEF Answers

LEMMA VisitAnswers ==
  ASSUME ConInv, NEW on \in SUBSET GetAll, NEW q \in GetAll, NEW seen \in SUBSET GetAll,
         MayBegin(on, q, seen), NEW search,
         q \notin on => search \in Searches /\ Searched(on \cup {q}, search)
  PROVE  Answers(on, q, seen, Visit(on, q, seen, search))
<1>1. CASE q \in on
  BY <1>1 DEF MayBegin, Answers, Visit, RunsIntoCycle
<1>2. CASE q \notin on /\ q \in seen
  BY <1>2 DEF MayBegin, Answers, Visit
<1>3. CASE q \notin on /\ q \notin seen
  <2>1. Answers(on, q, seen, EachDependency(q, seen \cup {q}, search))
    BY <1>3, EachDependencyAnswers
  <2> QED
    BY <1>3, <2>1 DEF Visit
<1> QED
  BY <1>1, <1>2, <1>3

LEMMA VisitsAnswer ==
  ASSUME ConInv, NEW from, from = VisitsOf(from)
  PROVE  \A on \in SUBSET GetAll : from[on] \in Searches /\ Searched(on, from[on])
<1> DEFINE G == GetAll
           T == {s \in SUBSET G : from[G \ s] \in Searches /\ Searched(G \ s, from[G \ s])}
<1>1. ASSUME NEW s \in SUBSET G, \A x \in s : s \ {x} \in T PROVE s \in T
  <2> DEFINE on == G \ s
  <2>1. on \in SUBSET G
    OBVIOUS
  <2>2. ASSUME NEW q \in G, q \notin on
        PROVE  from[on \cup {q}] \in Searches /\ Searched(on \cup {q}, from[on \cup {q}])
    <3>1. q \in s /\ G \ (s \ {q}) = on \cup {q}
      BY <2>2
    <3> QED
      BY <1>1, <3>1
  <2>3. from[on] = [q \in G |-> [seen \in SUBSET G |-> Visit(on, q, seen, from[on \cup {q}])]]
    BY <2>1, Zenon DEF VisitsOf
  <2> HIDE DEF on
  <2>4. from[on] \in Searches
    <3>1. ASSUME NEW q \in G, NEW seen \in SUBSET G
          PROVE  Visit(on, q, seen, from[on \cup {q}]) \in Result
      BY <2>1, <2>2, VisitType
    <3> QED
      BY <2>3, <3>1 DEF Searches
  <2>5. Searched(on, from[on])
    <3>1. ASSUME NEW q \in G, NEW seen \in SUBSET G, MayBegin(on, q, seen)
          PROVE  Answers(on, q, seen, Visit(on, q, seen, from[on \cup {q}]))
      BY <2>1, <2>2, <3>1, VisitAnswers
    <3>2. \A q \in G, seen \in SUBSET G : from[on][q][seen] = Visit(on, q, seen, from[on \cup {q}])
      BY <2>3
    <3> QED
      BY <3>1, <3>2 DEF Searched
  <2> QED
    BY <2>4, <2>5 DEF on
<1>2. SUBSET G \subseteq T
  <2> HIDE DEF T
  <2> QED
    BY <1>1, SubsetInduction DEF ConInv
<1> SUFFICES ASSUME NEW on \in SUBSET G PROVE from[on] \in Searches /\ Searched(on, from[on])
  OBVIOUS
<1>3. G \ (G \ on) = on /\ G \ on \in SUBSET G
  OBVIOUS
<1> QED
  BY <1>2, <1>3

(* From a plugin with nothing on the stack and nothing visited, the search *)
(* finds a cycle exactly when the plugin leads into one.                   *)
LEMMA SearchIsExact ==
  ASSUME ConInv, NEW p \in GetAll
  PROVE  Search(p, {}, {}).found <=> RunsIntoCycle(p)
<1>1. PICK from : from = VisitsOf(from) /\ Search(p, {}, {}) = from[{}][p][{}]
  <2>1. \E from : from = VisitsOf(from)
    BY VisitsExist
  <2>2. Search(p, {}, {}) = (CHOOSE from : from = VisitsOf(from))[{}][p][{}]
    BY SearchIs
  <2> QED
    BY <2>1, <2>2
<1> DEFINE r == from[{}][p][{}]
<1>2. from[{}] \in Searches /\ Searched({}, from[{}])
  BY <1>1, VisitsAnswer
<1>3. MayBegin({}, p, {})
  BY DEF MayBegin, Black, ClosedUnder
<1>4. Answers({}, p, {}, r) /\ r.found \in BOOLEAN
  BY <1>2, <1>3 DEF Searched, Searches, Result
<1>5. ASSUME ~ r.found PROVE ~ RunsIntoCycle(p)
  <2>1. p \in r.visited \ {} /\ Black(r.visited \ {})
    BY <1>4, <1>5 DEF Answers
  <2> QED
    BY <2>1, BlackLeadsNowhere DEF ConInv
<1> QED
  BY <1>1, <1>4, <1>5 DEF Answers

LEMMA NothingToLeadTo ==
  ASSUME ConInv, NEW p \in GetAll, catalogue[p] = <<>>
  PROVE  ~ RunsIntoCycle(p)
<1>1. Direct(p) = {}
  BY DEF Direct, Range
<1>2. LeadsTo(p) = {}
  BY <1>1, LeadsToReaches DEF ClosedUnder, ConInv
<1> QED
  BY <1>2 DEF RunsIntoCycle

(* checkConflicts reports exactly what is missing and what leads into a    *)
(* cycle, for any catalogue of plugins.                                    *)
THEOREM ConflictsAreExact == ConSpec => []ConflictsExact
<1>1. ConInv => ConflictsExact
  <2> SUFFICES ASSUME ConInv PROVE ConflictsExact
    OBVIOUS
  <2>1. ASSUME NEW p \in GetAll, NEW d \in Names
        PROVE  d \in Range(catalogue[p]) \ GetAll
                 <=> \E e \in CheckConflicts : e.plugin = p /\ ~ e.circular /\ d \in e.conflicts
    <3>1. ASSUME NEW e \in CheckConflicts, ~ e.circular
          PROVE  e.plugin \in GetAll /\ e.conflicts = MissingOf(e.plugin)
      BY <3>1 DEF CheckConflicts
    <3>2. ASSUME MissingOf(p) # {}
          PROVE  \E e \in CheckConflicts : e.plugin = p /\ ~ e.circular /\ e.conflicts = MissingOf(p)
      <4>1. [plugin |-> p, conflicts |-> MissingOf(p), circular |-> FALSE] \in CheckConflicts
        BY <3>2 DEF CheckConflicts
      <4> QED
        BY <4>1
    <3>3. d \in MissingOf(p) <=> d \in Range(catalogue[p]) \ GetAll
      BY DEF MissingOf
    <3> QED
      BY <3>1, <3>2, <3>3
  <2>2. ASSUME NEW p \in GetAll
        PROVE  RunsIntoCycle(p) <=> \E e \in CheckConflicts : e.plugin = p /\ e.circular
    <3>1. ASSUME NEW e \in CheckConflicts, e.circular PROVE Search(e.plugin, {}, {}).found
      BY <3>1 DEF CheckConflicts
    <3>2. ASSUME RunsIntoCycle(p)
          PROVE  \E e \in CheckConflicts : e.plugin = p /\ e.circular
      <4>1. catalogue[p] # <<>> /\ Search(p, {}, {}).found
        BY <3>2, NothingToLeadTo, SearchIsExact
      <4>2. [plugin |-> p, conflicts |-> {p}, circular |-> TRUE] \in CheckConflicts
        BY <4>1 DEF CheckConflicts
      <4> QED
        BY <4>2
    <3> QED
      BY <3>1, <3>2, SearchIsExact
  <2> QED
    BY <2>1, <2>2 DEF ConflictsExact, RunsIntoCycle
<1> QED
  BY <1>1, ConInitInv, ConNextInv, PTL DEF ConSpec
=============================================================================
