-------------------------------- MODULE Mail --------------------------------
(***************************************************************************)
(* The mail queue: MailQueueService puts mails on a queue in Redis,        *)
(* MailQueueProcessor sends them with MailService, and                     *)
(* MailQueueMonitorService looks at the counts once a minute and mails     *)
(* alerts.  The queue itself is BullMQ: a job is taken, completed or       *)
(* retried by it, and a job whose worker has died is taken again.          *)
(*                                                                         *)
(* A check of the monitor awaits the counts and then every alert it sends; *)
(* the timer does not wait for it, so checks overlap.                      *)
(***************************************************************************)
EXTENDS Naturals, Sequences, FiniteSets

CONSTANTS
  Mails,
  Checks,       \* bound: checks of the monitor in flight
  Attempts,     \* attempts of a job (3 in MailQueueService.add)
  Concurrency,  \* jobs the worker runs at once (5)
  Growth,       \* failures from one check to the next that raise an alert (10)
  FailedMax,    \* failures that raise an alert (100)
  WaitingMax,   \* waiting mails that raise an alert (1000)
  Cooldown,     \* minutes between two alerts of growth (5)
  Horizon,      \* bound: minutes
  MaxCrashes    \* bound: deaths of the process

ASSUME LimitsAreNat ==
  /\ Attempts \in Nat \ {0} /\ Concurrency \in Nat \ {0}
  /\ {Growth, FailedMax, WaitingMax, Cooldown, Horizon, MaxCrashes} \subseteq Nat

VARIABLES
  configured,  \* SMTP_* are set: MailService has a transporter
  job,         \* the state of each mail's job in Redis
  tries,       \* attempts a job has used up
  stalls,      \* how often a job has been taken from a dead worker
  sent,        \* history variable: how often SMTP has accepted a mail
  lost,        \* history variable: how often sendMail rejected all the same
  crashes,
  minute,      \* the clock
  check,       \* where each check of the monitor is
  lastFailedCount,
  lastFailedAlertTime

queueVars == <<configured, job, tries, stalls, sent, lost, crashes>>
monitorVars == <<minute, check, lastFailedCount, lastFailedAlertTime>>
mailVars == <<queueVars, monitorVars>>

JobState == {"absent", "waiting", "active", "accepted", "delayed", "completed", "failed"}
Alert == {"backlog", "failures", "rate", "growth"}
Stats == [waiting: Nat, completed: Nat, failed: Nat]

Check ==
  [op: {"idle"}]
    \cup [op: {"evaluate"}, stats: Stats, mails: BOOLEAN]
    \cup [op: {"alert"}, alerts: Seq(Alert), failed: Nat]

Free == [op |-> "idle"]

MailTypeOK ==
  /\ configured \in BOOLEAN
  /\ job \in [Mails -> JobState]
  /\ tries \in [Mails -> 0 .. Attempts]
  /\ stalls \in [Mails -> Nat]
  /\ sent \in [Mails -> Nat] /\ lost \in [Mails -> Nat]
  /\ crashes \in 0 .. MaxCrashes
  /\ minute \in Nat
  /\ check \in [Checks -> Check]
  /\ lastFailedCount \in Nat /\ lastFailedAlertTime \in Nat

(* The clock starts long after the epoch, where lastFailedAlertTime is.    *)
MailInit ==
  /\ configured \in BOOLEAN
  /\ job = [m \in Mails |-> "absent"]
  /\ tries = [m \in Mails |-> 0]
  /\ stalls = [m \in Mails |-> 0]
  /\ sent = [m \in Mails |-> 0] /\ lost = [m \in Mails |-> 0]
  /\ crashes = 0
  /\ minute = Cooldown + 1
  /\ check = [c \in Checks |-> Free]
  /\ lastFailedCount = 0 /\ lastFailedAlertTime = 0

In(states) == {m \in Mails : job[m] \in states}
Active == In({"active", "accepted"})
Move(m, state) == job' = [job EXCEPT ![m] = state]

-----------------------------------------------------------------------------
(* MailQueueService.add *)
AddMail(m) ==
  /\ job[m] = "absent"
  /\ Move(m, "waiting")
  /\ UNCHANGED <<configured, tries, stalls, sent, lost, crashes, monitorVars>>

(* The worker takes a job. *)
TakeJob(m) ==
  /\ job[m] = "waiting"
  /\ Cardinality(Active) < Concurrency
  /\ Move(m, "active")
  /\ UNCHANGED <<configured, tries, stalls, sent, lost, crashes, monitorVars>>

(* SMTP takes the mail; whether sendMail learns of it is another matter. *)
SendAccepted(m) ==
  /\ job[m] = "active"
  /\ configured
  /\ Move(m, "accepted")
  /\ sent' = [sent EXCEPT ![m] = @ + 1]
  /\ UNCHANGED <<configured, tries, stalls, lost, crashes, monitorVars>>

(* processJob resolves when send does. *)
Complete(m) ==
  /\ job[m] = "accepted"
  /\ Move(m, "completed")
  /\ UNCHANGED <<configured, tries, stalls, sent, lost, crashes, monitorVars>>

ProcessJobSwallows(m) ==
  /\ m \in Active
  /\ Move(m, "completed")
  /\ UNCHANGED <<configured, tries, stalls, sent, lost, crashes, monitorVars>>

ProcessJobUncounted(m) ==
  /\ m \in Active
  /\ Move(m, "delayed")
  /\ UNCHANGED <<configured, tries, stalls, sent, lost, crashes, monitorVars>>

(* processJob throws on what send throws: there is no transporter, SMTP    *)
(* refuses, or its answer is lost or late when it has taken the mail.  The *)
(* queue tries again later or gives up.                                    *)
ProcessJobThrows(m) ==
  /\ m \in Active
  /\ lost' = IF job[m] = "accepted" THEN [lost EXCEPT ![m] = @ + 1] ELSE lost
  /\ tries' = [tries EXCEPT ![m] = @ + 1]
  /\ Move(m, IF tries[m] + 1 < Attempts THEN "delayed" ELSE "failed")
  /\ UNCHANGED <<configured, stalls, sent, crashes, monitorVars>>

BackoffEnds(m) ==
  /\ job[m] = "delayed"
  /\ Move(m, "waiting")
  /\ UNCHANGED <<configured, tries, stalls, sent, lost, crashes, monitorVars>>

(* The process dies: the jobs it was sending have stalled.  The next       *)
(* worker takes a job a second time, and gives it up the time after.       *)
Crash ==
  /\ crashes < MaxCrashes
  /\ crashes' = crashes + 1
  /\ job' = [m \in Mails |->
       IF m \notin Active THEN job[m]
       ELSE IF stalls[m] = 0 THEN "waiting" ELSE "failed"]
  /\ stalls' = [m \in Mails |-> IF m \in Active THEN stalls[m] + 1 ELSE stalls[m]]
  /\ check' = [c \in Checks |-> Free]
  /\ lastFailedCount' = 0 /\ lastFailedAlertTime' = 0
  /\ UNCHANGED <<configured, tries, sent, lost, minute>>

-----------------------------------------------------------------------------
GetStats ==
  [waiting |-> Cardinality(In({"waiting"})),
   completed |-> Cardinality(In({"completed"})),
   failed |-> Cardinality(In({"failed"}))]

(* A minute passes and monitorQueue asks for the counts. *)
MonitorQueue(c) ==
  /\ minute < Horizon
  /\ check[c] = Free
  /\ minute' = minute + 1
  /\ check' = [check EXCEPT ![c] = [op |-> "evaluate", stats |-> GetStats, mails |-> TRUE]]
  /\ UNCHANGED <<queueVars, lastFailedCount, lastFailedAlertTime>>

(* getMonitorStats goes through getHealthStatus too, and mails nothing.    *)
GetMonitorStats(c) ==
  /\ check[c] = Free
  /\ check' = [check EXCEPT ![c] = [op |-> "evaluate", stats |-> GetStats, mails |-> FALSE]]
  /\ UNCHANGED <<queueVars, minute, lastFailedCount, lastFailedAlertTime>>

FailedRateAbove10(s) == s.failed * 10 > s.completed + s.failed
Grows(s) == s.failed > lastFailedCount + Growth /\ minute - lastFailedAlertTime > Cooldown

AlertsOf(s) ==
  (IF s.waiting > WaitingMax THEN <<"backlog">> ELSE <<>>)
    \o (IF s.failed > FailedMax THEN <<"failures">> ELSE <<>>)
    \o (IF FailedRateAbove10(s) THEN <<"rate">> ELSE <<>>)
    \o (IF Grows(s) THEN <<"growth">> ELSE <<>>)

(* What getHealthStatus does once it has the counts; without an alert      *)
(* monitorQueue ends in the same step.                                     *)
GetHealthStatus(c) ==
  /\ check[c].op = "evaluate"
  /\ LET s == check[c].stats IN
       /\ lastFailedAlertTime' = IF Grows(s) THEN minute ELSE lastFailedAlertTime
       /\ IF check[c].mails /\ AlertsOf(s) # <<>>
            THEN /\ check' = [check EXCEPT ![c] =
                      [op |-> "alert", alerts |-> AlertsOf(s), failed |-> s.failed]]
                 /\ UNCHANGED lastFailedCount
            ELSE /\ check' = [check EXCEPT ![c] = Free]
                 /\ lastFailedCount' = IF check[c].mails THEN s.failed ELSE lastFailedCount
  /\ UNCHANGED <<queueVars, minute>>

(* The counts cannot be read: monitorQueue swallows it and keeps no count. *)
StatsFail(c) ==
  /\ check[c].op = "evaluate"
  /\ check' = [check EXCEPT ![c] = Free]
  /\ UNCHANGED <<queueVars, minute, lastFailedCount, lastFailedAlertTime>>

SendAlertUntilSent(c) ==
  /\ check[c].op = "alert"
  /\ configured
  /\ LET rest == Tail(check[c].alerts) IN
       IF rest # <<>>
         THEN /\ check' = [check EXCEPT ![c].alerts = rest]
              /\ UNCHANGED lastFailedCount
         ELSE /\ check' = [check EXCEPT ![c] = Free]
              /\ lastFailedCount' = check[c].failed
  /\ UNCHANGED <<queueVars, minute, lastFailedAlertTime>>

(* sendAlert swallows what send throws.  After the last one the count of   *)
(* this check is kept, however old it is by now.                           *)
SendAlert(c) ==
  /\ check[c].op = "alert"
  /\ LET rest == Tail(check[c].alerts) IN
       IF rest # <<>>
         THEN /\ check' = [check EXCEPT ![c].alerts = rest]
              /\ UNCHANGED lastFailedCount
         ELSE /\ check' = [check EXCEPT ![c] = Free]
              /\ lastFailedCount' = check[c].failed
  /\ UNCHANGED <<queueVars, minute, lastFailedAlertTime>>

-----------------------------------------------------------------------------
Send(m) == SendAccepted(m) \/ ProcessJobThrows(m)
MonitorSteps(c) == GetHealthStatus(c) \/ StatsFail(c) \/ SendAlert(c)

MailNext ==
  \/ \E m \in Mails : AddMail(m) \/ TakeJob(m) \/ Send(m) \/ Complete(m) \/ BackoffEnds(m)
  \/ Crash
  \/ \E c \in Checks :
       MonitorQueue(c) \/ GetMonitorStats(c) \/ MonitorSteps(c)

(* The worker goes on as long as the process lives, sendMail times out, a  *)
(* delayed job comes back, and a check of the monitor goes on.             *)
MailFairness ==
  /\ \A m \in Mails :
       /\ SF_mailVars(TakeJob(m))
       /\ WF_mailVars(Send(m)) /\ WF_mailVars(Complete(m)) /\ WF_mailVars(BackoffEnds(m))
  /\ \A c \in Checks : WF_mailVars(MonitorSteps(c))

MailSpec == MailInit /\ [][MailNext]_mailVars /\ MailFairness

-----------------------------------------------------------------------------
(* A mail whose job is completed has gone out.  And a mail goes out again  *)
(* only where nobody can know that it has: once more for every answer of   *)
(* SMTP that was lost and for every death of the process that was sending  *)
(* it, and never because the queue ran a job twice.                        *)
CompletedWasSent ==
  \A m \in Mails :
    /\ job[m] = "completed" => sent[m] > 0
    /\ sent[m] <= 1 + lost[m] + stalls[m]

(* A mail that is added ends sent or given up: retries, a full worker, an  *)
(* SMTP server that refuses everything or a crash do not keep it for ever. *)
MailSettles ==
  \A m \in Mails : job[m] = "waiting" ~> job[m] \in {"completed", "failed"}

(* Every check of the monitor ends and so keeps its count, however many    *)
(* alerts it has to mail and though SMTP refuses every one of them.        *)
ChecksEnd ==
  \A c \in Checks : check[c].op # "idle" ~> check[c].op = "idle"
=============================================================================
