----------------------------- MODULE JobDelivery -----------------------------
(***************************************************************************)
(* How a serial job travels from the qmaster to an execution daemon and    *)
(* how its reports travel back: delivery with its resend timer, the        *)
(* periodic job reports and the acknowledgements they are answered with,   *)
(* deletion with its resent signal, rescheduling with the reschedule       *)
(* unknown list, and crash and restart of an execution daemon.             *)
(*                                                                         *)
(* Qmaster threads take LOCK_GLOBAL for a whole request, so each handler   *)
(* is one step; a report message, which holds any number of job reports,   *)
(* is read one job report at a time with the lock held (rep # None).  An   *)
(* execution daemon is one loop: it handles one message and starts what    *)
(* the message brought.  Several acknowledgements in one message are       *)
(* handled one at a time before anything else (acking).                    *)
(*                                                                         *)
(* Each pair of qmaster and daemon has a connection in either direction.   *)
(* A connection keeps the order of its messages except that job deliveries *)
(* and signals overtake acknowledgements (execd_job_exec.c tells of it);   *)
(* what a broken connection held is lost.                                  *)
(***************************************************************************)
EXTENDS Integers, Sequences, FiniteSets, SequencesExt, RescheduleUnknown

CONSTANTS Jobs, Hosts, None,
          Slots,       \* slots of the queue instance of each host
          MaxRuns,     \* bound: dispatches of one job
          MaxToExecd,  \* bound: messages under way to one daemon
          MaxToMaster, \* bound: reports under way from one daemon
          Faults,      \* kinds of trouble that may happen, see FaultKinds
          MaxFaults    \* bound: how often trouble happens

\* crash: a daemon dies; crash_starting: it dies between accepting a job and
\* spooling that it was started; start_fails: the daemon cannot start a job;
\* rerun: a job ends in a way that asks for another run; lose: a connection
\* breaks; unheard: the qmaster hears nothing from a daemon that is alive;
\* manual: a user reschedules a job.  These two may happen any number of times:
\* partial: a daemon sends reports between two full ones; late: a daemon sends a
\* report although a message from or to it is under way or its last report is
\* being read, so that the answer took longer than the interval of its reports.
FaultKinds == {"crash", "crash_starting", "start_fails", "rerun", "lose",
               "unheard", "manual", "partial", "late"}

ASSUME SlotsAssumption == Slots \in Nat \ {0}
ASSUME BoundsAssumption == {MaxRuns, MaxToExecd, MaxToMaster, MaxFaults} \subseteq Nat
ASSUME FaultsAssumption == Faults \subseteq FaultKinds
ASSUME NoneAssumption == None \notin Hosts
ASSUME JobsAssumption == IsFiniteSet(Jobs)

VARIABLES
  \* qmaster
  task,      \* of each job: JAT_status, JAT_state, granted host, timers
  unknown,   \* hosts whose queue instance is in unknown state
  ruTimer,   \* hosts with a TYPE_RESCHEDULE_UNKNOWN_EVENT
  ru,        \* EH_reschedule_unknown_list of each host, per job
  used,      \* slots debited on each host
  acct,      \* accounting records written for each job
  rep,       \* report message that is being read
  \* execution daemons
  up,        \* daemons that run
  copy,      \* job list and spool directory of each daemon
  jr,        \* jr_list of each daemon, per job in list order
  acking,    \* rest of the acknowledgement message that is being handled
  procs,     \* shepherds that live on each host, they outlive the daemon
  \* connections
  toExecd, toMaster,
  faults     \* how much trouble may still happen

qmVars == <<task, unknown, ruTimer, ru, used, acct, rep>>
execdVars == <<up, copy, jr, acking, procs>>
netVars == <<toExecd, toMaster>>
vars == <<qmVars, execdVars, netVars, faults>>

-----------------------------------------------------------------------------
\* "gone": the job is buried; the other values are those of JAT_status.
Statuses == {"JIDLE", "JTRANSFERING", "JRUNNING", "JFINISHED", "gone"}
Busy == {"JTRANSFERING", "JRUNNING"}

\* run counts the dispatches of the job: it names the instance of the job that
\* the qmaster believes in.  Messages carry it for the properties only.
NewTask == [status |-> "JIDLE", deleted |-> FALSE, deferred |-> FALSE,
            host |-> None, run |-> 0, resend |-> FALSE, signal |-> FALSE]

Runs == 0 .. MaxRuns
\* A daemon starts an instance again when it restarts between two steps.
Pids == 0 .. 1 + MaxFaults

\* A job report; run 0 is the report of a job that the daemon does not know.
\* how: whether sge_job_exit takes it for a failure that asks for a rerun.
JobReports == [state : {"JRUNNING", "JEXITING"}, run : Runs,
               how : {"ended", "rerun"}, flush : BOOLEAN]

\* A job in the list of a daemon: its instance, the shepherd in the pid file of
\* the active directory (0: none), and whether the spool file says JIDLE.
Copies == [run : Runs, pid : Pids, idle : BOOLEAN]

Shepherds == [run : Runs, pid : Pids, dying : BOOLEAN]

Acks == [type : {"ACK_JOB_EXIT", "ACK_SIGNAL_JOB"}, job : Jobs]

ToExecd == [kind : {"TAG_JOB_EXECUTION"}, job : Jobs, run : Runs]
             \cup [kind : {"TAG_SIGJOB"}, job : Jobs]
             \cup [kind : {"TAG_ACK_REQUEST"}, acks : Seq(Acks)]
ToMaster == [kind : {"TAG_REPORT_REQUEST"}, load : BOOLEAN,
             jrs : [Jobs -> Seq(JobReports)]]
              \cup [kind : {"ACK_SIGJOB"}, job : Jobs]

\* The report message that is read, and the acknowledgements packed so far.
ReportBeingRead ==
  [host : Hosts, jrs : [Jobs -> Seq(JobReports)], acks : Seq(Acks)]

ASSUME NothingAssumption == None \notin Copies /\ None \notin ReportBeingRead

Init ==
  /\ task = [j \in Jobs |-> NewTask]
  /\ unknown = {} /\ ruTimer = {}
  /\ ru = [h \in Hosts |-> [j \in Jobs |-> <<>>]]
  /\ used = [h \in Hosts |-> 0]
  /\ acct = [j \in Jobs |-> <<>>]
  /\ rep = None
  /\ up = Hosts
  /\ copy = [h \in Hosts |-> [j \in Jobs |-> None]]
  /\ jr = [h \in Hosts |-> [j \in Jobs |-> <<>>]]
  /\ acking = [h \in Hosts |-> <<>>]
  /\ procs = [h \in Hosts |-> [j \in Jobs |-> {}]]
  /\ toExecd = [h \in Hosts |-> <<>>]
  /\ toMaster = [h \in Hosts |-> <<>>]
  /\ faults = MaxFaults

Trouble(kind) ==
  /\ kind \in Faults /\ faults > 0
  /\ faults' = faults - 1

-----------------------------------------------------------------------------
(* Sending from the qmaster                                                 *)

RoomToExecd(h) == Len(toExecd[h]) < MaxToExecd

\* The message is accepted by the communication library: it is under way, or
\* lost with the daemon that died.
Sent(h, msg) ==
  /\ RoomToExecd(h)
  /\ toExecd' = IF h \in up THEN [toExecd EXCEPT ![h] = Append(@, msg)]
                            ELSE toExecd

\* gdi2_send_message_pb fails, or the daemon was not heard of for too long.
SendFails(h) ==
  /\ h \notin up
  /\ UNCHANGED toExecd

Delivery(j, run) == [kind |-> "TAG_JOB_EXECUTION", job |-> j, run |-> run]
Signal(j) == [kind |-> "TAG_SIGJOB", job |-> j]

SignalAck(j) == [kind |-> "ACK_SIGJOB", job |-> j]

\* Bound: a resend timer is slower than the connection, so a message is sent
\* again only after the one before, and the answer to it, was handled or lost.
Resent(h, msg, answer) ==
  /\ \A i \in DOMAIN toExecd[h] : toExecd[h][i] # msg
  /\ \A i \in DOMAIN toMaster[h] : toMaster[h][i] # answer
  /\ Sent(h, msg)

-----------------------------------------------------------------------------
(* Dispatching a job                                                        *)

\* Mutant: an order to start a job on a host with an entry is accepted.
MayStart_IgnoresList(j, h) ==
  task[j].status = "JIDLE" /\ used[h] < Slots

\* Mutant: the free slots of the queue are not checked.
MayStart_Overbooks(j, h) == task[j].status = "JIDLE" /\ ru[h][j] = <<>>

\* ORT_start_job accepts an order of the scheduler: the task is pending, the
\* queue has a free slot, and the host has no entry of the job in its list.
MayStart(j, h) ==
  task[j].status = "JIDLE" /\ used[h] < Slots /\ ru[h][j] = <<>>

\* COMMIT_ST_SENT and trigger_job_resend.
Dispatch(j, h) ==
  /\ rep = None
  /\ MayStart(j, h)
  /\ task[j].run < MaxRuns
  /\ Sent(h, Delivery(j, task[j].run + 1))
  /\ task' = [task EXCEPT ![j] =
       [@ EXCEPT !.status = "JTRANSFERING", !.host = h,
                 !.run = task[j].run + 1, !.deferred = FALSE, !.resend = TRUE]]
  /\ used' = [used EXCEPT ![h] = @ + 1]
  /\ UNCHANGED <<unknown, ruTimer, ru, acct, rep, execdVars, toMaster, faults>>

\* sge_give_job fails: COMMIT_ST_DELIVERY_FAILED and sge_mark_unheard.
DispatchFails(j, h) ==
  /\ rep = None
  /\ MayStart(j, h)
  /\ SendFails(h)
  /\ task' = [task EXCEPT ![j].deferred = FALSE]
  /\ unknown' = unknown \cup {h}
  /\ UNCHANGED <<ruTimer, ru, used, acct, rep, execdVars, toMaster, faults>>

\* Mutant: the timer fires once.
Rearmed_Never(t) == FALSE /\ t.resend

\* The handler arms the timer again before it sends.
Rearmed(t) == t.status = "JTRANSFERING"

\* sge_job_resend_event_handler: the timer is armed again as long as the task
\* is in transfer; nothing is sent to a queue in unknown state.
JobResend(j) ==
  LET t == task[j] IN
  /\ rep = None
  /\ t.resend
  /\ task' = [task EXCEPT ![j].resend = Rearmed(t)]
  /\ \/ /\ t.status # "JTRANSFERING" \/ t.host \in unknown
        /\ UNCHANGED <<toExecd, unknown>>
     \/ /\ t.status = "JTRANSFERING" /\ t.host \notin unknown
        /\ Resent(t.host, Delivery(j, t.run), None)
        /\ UNCHANGED unknown
     \/ /\ t.status = "JTRANSFERING" /\ t.host \notin unknown
        /\ SendFails(t.host)
        /\ unknown' = unknown \cup {t.host}
  /\ UNCHANGED <<ruTimer, ru, used, acct, rep, execdVars, toMaster, faults>>

-----------------------------------------------------------------------------
(* sge_job_exit: what becomes of tasks that ran                             *)

\* cancel_job_resend, and sge_clear_granted_resources drops the granted host.
Leave(t, status) ==
  [t EXCEPT !.status = status, !.host = None, !.resend = FALSE]

\* Mutant: slots are given back on the host that reports.
Credited_Reporter(js) == IF rep = None THEN used
  ELSE [used EXCEPT ![rep.host] = @ - Cardinality(js)]

\* sge_clear_granted_resources gives the slots back.
Credited(js) ==
  [h \in Hosts |-> used[h] - Cardinality({j \in js : task[j].host = h})]

\* reporting_create_acct_record; a record is the instance that was accounted.
Accounted(js) ==
  [j \in Jobs |-> IF j \in js THEN Append(acct[j], task[j].run) ELSE acct[j]]

\* COMMIT_ST_FINISHED_FAILED_EE: remove_from_reschedule_unknown_lists.
Finish(j) ==
  /\ task' = [task EXCEPT ![j] = Leave(@, "JFINISHED")]
  /\ ru' = [h \in Hosts |-> [ru[h] EXCEPT ![j] = <<>>]]

\* COMMIT_ST_RESCHEDULED: the task is pending again, JDEFERRED_REQ is kept, and
\* its host gets an entry.
RescheduleAfterExit(j) ==
  /\ task' = [task EXCEPT ![j] = Leave(@, "JIDLE")]
  /\ ru' = [ru EXCEPT ![task[j].host][j] = AddEntry(@, "SKIP_JR")]

\* Mutant: a deleted job that fails is run again.
IsOver_Reruns(t, how) == how # "rerun"

\* A deleted job is never run again.
IsOver(t, how) == t.deleted \/ how # "rerun"

JobExit(j, r) ==
  /\ IF IsOver(task[j], r.how) THEN Finish(j) ELSE RescheduleAfterExit(j)
  /\ used' = Credited({j})
  /\ acct' = Accounted({j})

-----------------------------------------------------------------------------
(* Reading a report message: sge_c_report and process_job_report            *)

NoReports == [j \in Jobs |-> <<>>]

\* The message is taken from the connection, the entries of the list age, and
\* a load report makes the host known again.
BeginReport(h) ==
  /\ rep = None
  /\ toMaster[h] # <<>>
  /\ LET msg == Head(toMaster[h]) IN
       /\ msg.kind = "TAG_REPORT_REQUEST"
       /\ rep' = [host |-> h, jrs |-> msg.jrs, acks |-> <<>>]
       /\ unknown' = IF msg.load THEN unknown \ {h} ELSE unknown
  /\ toMaster' = [toMaster EXCEPT ![h] = Tail(@)]
  /\ ru' = [ru EXCEPT ![h] = [j \in Jobs |-> Age(@[j])]]
  /\ UNCHANGED <<task, ruTimer, used, acct, execdVars, toExecd, faults>>

\* pack_ack
Answer(j, types) ==
  rep' = [rep EXCEPT !.jrs[j] = Tail(@),
                     !.acks = @ \o [i \in DOMAIN types |->
                                      [type |-> types[i], job |-> j]]]

\* The reports about a job that was taken away from the host.
SkippedReport(j) ==
  LET r == Head(rep.jrs[j])
      verdict == Verdict(ru[rep.host][j], r.state = "JEXITING")
  IN
  /\ verdict # "process"
  /\ Answer(j, CASE verdict = "kill"     -> <<"ACK_SIGNAL_JOB">>
                 [] verdict = "ack_exit" -> <<"ACK_JOB_EXIT">>
                 [] OTHER                -> <<>>)
  /\ ru' = [ru EXCEPT ![rep.host][j] = Heard(@)]
  /\ task' = IF verdict = "ack_exit" /\ task[j].status # "gone"
             THEN [task EXCEPT ![j].deferred = FALSE] ELSE task
  /\ UNCHANGED <<used, acct>>

\* Mutant: the report of a job in transfer leaves the resend timer behind.
Arrived_KeepsTimer(t) ==
  IF t.status = "JTRANSFERING" THEN [t EXCEPT !.status = "JRUNNING"] ELSE t

\* COMMIT_ST_ARRIVED and cancel_job_resend.
Arrived(t) ==
  IF t.status = "JTRANSFERING"
  THEN [t EXCEPT !.status = "JRUNNING", !.resend = FALSE]
  ELSE t

\* Mutant: a deleted job is not killed when it reports.
MustKill_TrustsSignal(t) == t.status = "gone"

\* Mutant: a job the qmaster does not know is left running.
MustKill_OnlyKnown(t) == t.status \in Busy /\ t.deleted

\* An unknown job is killed, and so is a deleted one whose signal was lost.
MustKill(t) == t.status = "gone" \/ (t.status \in Busy /\ t.deleted)

RunningReport(j) ==
  LET r == Head(rep.jrs[j])  t == task[j] IN
  /\ Verdict(ru[rep.host][j], FALSE) = "process"
  /\ r.state = "JRUNNING"
  /\ Answer(j, IF MustKill(t) THEN <<"ACK_SIGNAL_JOB">> ELSE <<>>)
  /\ task' = [task EXCEPT ![j] = Arrived(@)]
  /\ UNCHANGED <<ru, used, acct>>

\* Mutant: the status of the task is not looked at.
ExpectsExit_Always(t) == t.status # "gone"

\* process_job_report calls sge_job_exit only for a granted task.
ExpectsExit(t) == t.status \in Busy

\* An exit is acknowledged whether or not it was expected; nothing compares the
\* host of the report with the host of the task.
ExitReport(j) ==
  LET r == Head(rep.jrs[j]) IN
  /\ Verdict(ru[rep.host][j], TRUE) = "process"
  /\ r.state = "JEXITING"
  /\ Answer(j, <<"ACK_JOB_EXIT">>)
  /\ \/ /\ ExpectsExit(task[j])
        /\ JobExit(j, r)
     \/ /\ ~ExpectsExit(task[j])
        /\ UNCHANGED <<task, ru, used, acct>>

ProcessJobReport(j) ==
  /\ rep # None
  /\ rep.jrs[j] # <<>>
  /\ SkippedReport(j) \/ RunningReport(j) \/ ExitReport(j)
  /\ UNCHANGED <<unknown, ruTimer, execdVars, netVars, faults>>

\* All reports are read: settled entries are dropped and what was packed is
\* sent in one TAG_ACK_REQUEST.
EndReport ==
  /\ rep # None
  /\ rep.jrs = NoReports
  /\ rep' = None
  /\ ru' = [ru EXCEPT ![rep.host] = [j \in Jobs |-> DropSettled(@[j])]]
  /\ \/ /\ rep.acks # <<>>
        /\ Sent(rep.host, [kind |-> "TAG_ACK_REQUEST", acks |-> rep.acks])
     \/ /\ rep.acks = <<>>
        /\ UNCHANGED toExecd
  /\ UNCHANGED <<task, unknown, ruTimer, used, acct, execdVars, toMaster, faults>>

-----------------------------------------------------------------------------
(* Rescheduling jobs of a host                                              *)

\* Mutant: a job that is registered for deletion is rescheduled.
Reschedulable_Deleted(j, h) ==
  task[j].status \in Busy /\ task[j].host = h /\ ru[h][j] = <<>>

\* Jobs of host h that reschedule_job takes: not registered for deletion, and
\* not in the list of the host already.
Reschedulable(j, h) ==
  /\ task[j].status \in Busy /\ task[j].host = h
  /\ ~task[j].deleted
  /\ ru[h][j] = <<>>

\* reschedule_job adds an entry and then runs sge_job_exit for a pseudo report
\* with SSTATE_AGAIN, whose COMMIT_ST_USER_RESCHEDULED adds a second one.
RescheduledEntries == AddEntry(AddEntry(<<>>, "SKIP_JR_REMOVE"), "SKIP_JR")

RescheduleJobs(js, h, manual) ==
  /\ task' = [j \in Jobs |-> IF j \in js
                THEN [Leave(task[j], "JIDLE") EXCEPT !.deferred = manual]
                ELSE task[j]]
  /\ ru' = [ru EXCEPT ![h] = [j \in Jobs |-> IF j \in js
                THEN RescheduledEntries ELSE @[j]]]
  /\ used' = Credited(js)
  /\ acct' = Accounted(js)

\* reschedule_unknown_event: nothing happens if the host is known again.
RescheduleUnknownHost(h) ==
  /\ rep = None
  /\ h \in ruTimer
  /\ ruTimer' = ruTimer \ {h}
  /\ \/ /\ h \in unknown
        /\ RescheduleJobs({j \in Jobs : Reschedulable(j, h)}, h, FALSE)
     \/ /\ h \notin unknown
        /\ UNCHANGED <<task, ru, used, acct>>
  /\ UNCHANGED <<unknown, rep, execdVars, netVars, faults>>

\* qmod -rj
RescheduleManually(j) ==
  /\ rep = None
  /\ Trouble("manual")
  /\ \E h \in Hosts :
       /\ Reschedulable(j, h)
       /\ RescheduleJobs({j}, h, TRUE)
  /\ UNCHANGED <<unknown, ruTimer, rep, execdVars, netVars>>

\* sge_load_value_cleanup_handler finds that a host was not heard of.
HostUnheard(h) ==
  /\ rep = None
  /\ h \notin unknown
  /\ \/ h \notin up /\ UNCHANGED faults
     \/ h \in up /\ Trouble("unheard")
  /\ unknown' = unknown \cup {h}
  /\ ruTimer' = ruTimer \cup {h}
  /\ UNCHANGED <<task, ru, used, acct, rep, execdVars, netVars>>

-----------------------------------------------------------------------------
(* Deleting a job                                                           *)

\* sge_signal_queue for the SIGKILL of one job: a host in unknown state gets it
\* later by the timer; if the message cannot be sent no timer is armed.
SignalTask(j) ==
  LET h == task[j].host IN
  \/ /\ h \in unknown
     /\ UNCHANGED toExecd
     /\ task' = [task EXCEPT ![j] = [@ EXCEPT !.deleted = TRUE, !.signal = TRUE]]
  \/ /\ h \notin unknown
     /\ Resent(h, Signal(j), SignalAck(j))
     /\ task' = [task EXCEPT ![j] = [@ EXCEPT !.deleted = TRUE, !.signal = TRUE]]
  \/ /\ h \notin unknown
     /\ SendFails(h)
     /\ task' = [task EXCEPT ![j] = [@ EXCEPT !.deleted = TRUE, !.signal = FALSE]]

\* qdel: a pending job is removed at once, a granted one is signaled and marked
\* as deleted (get_rid_of_job_due_to_qdel, job_mark_job_as_deleted).
Delete(j) ==
  /\ rep = None
  /\ \/ /\ task[j].status = "JIDLE" /\ task[j].run = 0
        /\ task' = [task EXCEPT ![j].status = "gone"]
        /\ UNCHANGED <<ru, toExecd>>
     \/ /\ task[j].status = "JIDLE" /\ task[j].run > 0
        /\ Finish(j)
        /\ UNCHANGED toExecd
     \/ /\ task[j].status \in Busy /\ ~task[j].deleted
        /\ SignalTask(j)
        /\ UNCHANGED ru
  /\ UNCHANGED <<unknown, ruTimer, used, acct, rep, execdVars, toMaster, faults>>

\* resend_signal_event: a task without granted queue is left alone.
SignalResend(j) ==
  /\ rep = None
  /\ task[j].signal
  /\ \/ /\ task[j].host # None
        /\ SignalTask(j)
     \/ /\ task[j].host = None
        /\ task' = [task EXCEPT ![j].signal = FALSE]
        /\ UNCHANGED toExecd
  /\ UNCHANGED <<unknown, ruTimer, ru, used, acct, rep, execdVars, toMaster, faults>>

\* sge_c_job_ack for ACK_SIGJOB.
ReceiveSignalAck(h) ==
  /\ rep = None
  /\ toMaster[h] # <<>>
  /\ LET msg == Head(toMaster[h]) IN
       /\ msg.kind = "ACK_SIGJOB"
       /\ task' = IF task[msg.job].status = "gone" THEN task
                  ELSE [task EXCEPT ![msg.job].signal = FALSE]
  /\ toMaster' = [toMaster EXCEPT ![h] = Tail(@)]
  /\ UNCHANGED <<unknown, ruTimer, ru, used, acct, rep, execdVars, toExecd, faults>>

\* The scheduler has debited the usage: COMMIT_ST_DEBITED_EE.
Debited(j) ==
  /\ rep = None
  /\ task[j].status = "JFINISHED"
  /\ task' = [task EXCEPT ![j].status = "gone"]
  /\ UNCHANGED <<unknown, ruTimer, ru, used, acct, rep, execdVars, netVars, faults>>

-----------------------------------------------------------------------------
(* The execution daemon: messages from the qmaster                          *)

\* Acknowledgements are handled in the order they were sent; a delivery or a
\* signal may arrive before acknowledgements sent earlier.
Receivable(h, i) ==
  \/ i = 1
  \/ /\ toExecd[h][i].kind # "TAG_ACK_REQUEST"
     /\ \A k \in 1 .. i - 1 : toExecd[h][k].kind = "TAG_ACK_REQUEST"

Receive(h, i, kind) ==
  /\ h \in up /\ acking[h] = <<>>
  /\ Receivable(h, i)
  /\ toExecd[h][i].kind = kind
  /\ toExecd' = [toExecd EXCEPT ![h] = RemoveAt(@, i)]

Written(run) ==
  [state |-> "JRUNNING", run |-> run, how |-> "ended", flush |-> TRUE]
Exiting(run, how, flush) ==
  [state |-> "JEXITING", run |-> run, how |-> how, flush |-> flush]

\* get_job_report finds the first report of the job, a new one is appended.
SetFirst(reports, r) == IF reports = <<>> THEN <<r>> ELSE [reports EXCEPT ![1] = r]

Alive(run, pid) == [run |-> run, pid |-> pid, dying |-> FALSE]

\* Mutant: handle_job does not look for the job in the job list.
Accepts_Always(h, j) == h \in Hosts

\* handle_job ignores a job that is in the job list: "Sometimes the rescheduled
\* job ... arrives earlier than the ack".
Accepts(h, j) == copy[h][j] = None

\* TAG_JOB_EXECUTION: do_job_exec accepts the job and the same pass of the loop
\* starts it (sge_start_jobs).  The job may not get as far as the job list, its
\* shepherd may fail to start, and the daemon may die before the spool file
\* says that the job was started, with or without a shepherd.
ReceiveJob(h, i) ==
  /\ Receive(h, i, "TAG_JOB_EXECUTION")
  /\ LET j == toExecd[h][i].job
         run == toExecd[h][i].run
         Store(c) == copy' = [copy EXCEPT ![h][j] = c]
         Fork == procs' = [procs EXCEPT ![h][j] = @ \cup {Alive(run, 1)}]
         Dies == /\ up' = up \ {h}
                 /\ jr' = [jr EXCEPT ![h] = NoReports]
     IN
     \/ /\ ~Accepts(h, j)
        /\ UNCHANGED <<up, copy, jr, procs, faults>>
     \/ /\ Accepts(h, j)
        /\ Store([run |-> run, pid |-> 1, idle |-> FALSE])
        /\ Fork
        /\ jr' = [jr EXCEPT ![h][j] = Append(@, Written(run))]
        /\ UNCHANGED <<up, faults>>
     \/ /\ Accepts(h, j)
        /\ Trouble("start_fails")
        /\ jr' = [jr EXCEPT ![h][j] = SetFirst(@, Exiting(run, "rerun", FALSE))]
        /\ UNCHANGED <<up, copy, procs>>
     \/ /\ Accepts(h, j)
        /\ Trouble("start_fails")
        /\ Store([run |-> run, pid |-> 0, idle |-> TRUE])
        /\ jr' = [jr EXCEPT ![h][j] =
                    SetFirst(Append(@, Written(run)), Exiting(run, "rerun", TRUE))]
        /\ UNCHANGED <<up, procs>>
     \/ /\ Accepts(h, j)
        /\ Trouble("crash_starting")
        /\ Dies
        /\ \/ /\ Store([run |-> run, pid |-> 0, idle |-> TRUE])
              /\ UNCHANGED procs
           \/ /\ Store([run |-> run, pid |-> 1, idle |-> TRUE])
              /\ Fork
  /\ UNCHANGED <<acking, qmVars, toMaster>>

\* signal_job with SIGKILL.  A job the daemon does not know leaves a report with
\* ESSTATE_UNKNOWN_JOB, which waits for the next full report message.
Kill(h, j) ==
  LET c == copy[h][j] IN
  \/ /\ c # None
     /\ procs' = [procs EXCEPT ![h][j] =
          {IF p.run = c.run /\ p.pid = c.pid THEN [p EXCEPT !.dying = TRUE] ELSE p :
             p \in @}]
     /\ UNCHANGED <<copy, jr>>
  \/ /\ c = None
     /\ jr' = [jr EXCEPT ![h][j] = <<Exiting(0, "ended", FALSE)>>]
     /\ UNCHANGED <<copy, procs>>

\* TAG_SIGJOB: do_signal_queue answers first.
ReceiveSignal(h, i) ==
  /\ Receive(h, i, "TAG_SIGJOB")
  /\ Kill(h, toExecd[h][i].job)
  /\ toMaster' = [toMaster EXCEPT ![h] = Append(@, SignalAck(toExecd[h][i].job))]
  /\ UNCHANGED <<up, acking, qmVars, faults>>

\* TAG_ACK_REQUEST: do_ack
ReceiveAcks(h, i) ==
  /\ Receive(h, i, "TAG_ACK_REQUEST")
  /\ acking' = [acking EXCEPT ![h] = toExecd[h][i].acks]
  /\ UNCHANGED <<up, copy, jr, procs, qmVars, toMaster, faults>>

\* remove_acked_job_exit, if there is a report of the job: the first report
\* goes, and the job with it; without the job every report of it goes.  It is
\* not asked which instance was acknowledged, and no process is signaled.
RemoveAckedJobExit(h, j) ==
  IF jr[h][j] = <<>> THEN UNCHANGED <<copy, jr>> ELSE
  /\ copy' = [copy EXCEPT ![h][j] = None]
  /\ jr' = [jr EXCEPT ![h][j] = IF copy[h][j] = None THEN <<>> ELSE Tail(@)]

HandleAck(h) ==
  /\ h \in up
  /\ acking[h] # <<>>
  /\ LET ack == Head(acking[h]) IN
     \/ /\ ack.type = "ACK_JOB_EXIT"
        /\ RemoveAckedJobExit(h, ack.job)
        /\ UNCHANGED procs
     \/ /\ ack.type = "ACK_SIGNAL_JOB"
        /\ Kill(h, ack.job)
  /\ acking' = [acking EXCEPT ![h] = Tail(@)]
  /\ UNCHANGED <<up, qmVars, netVars, faults>>

-----------------------------------------------------------------------------
(* The execution daemon: jobs that end, reports, crash and restart          *)

ShepherdEnds(h, j, p) ==
  /\ p \in procs[h][j]
  /\ procs' = [procs EXCEPT ![h][j] = @ \ {p}]
  /\ UNCHANGED <<up, copy, jr, acking, qmVars, netVars, faults>>

Lives(h, j, c) == \E p \in procs[h][j] : p.run = c.run /\ p.pid = c.pid

\* sge_reap_children_execd, and clean_up_old_jobs for shepherds that an earlier
\* daemon started: the report of a job whose shepherd ended becomes JEXITING.
Reap(h, j) ==
  LET c == copy[h][j] IN
  /\ h \in up /\ acking[h] = <<>>
  /\ c # None
  /\ c.pid > 0 /\ ~Lives(h, j, c)
  /\ jr[h][j] # <<>> /\ Head(jr[h][j]).state = "JRUNNING"
  /\ \/ /\ jr' = [jr EXCEPT ![h][j][1] = Exiting(c.run, "ended", TRUE)]
        /\ UNCHANGED faults
     \/ /\ Trouble("rerun")
        /\ jr' = [jr EXCEPT ![h][j][1] = Exiting(c.run, "rerun", TRUE)]
  /\ UNCHANGED <<up, copy, acking, procs, qmVars, netVars>>

Unflushed(reports) == [i \in DOMAIN reports |-> [reports[i] EXCEPT !.flush = FALSE]]

\* Nothing is under way from or to the daemon and the qmaster reads none of its
\* reports.
Settled(h) ==
  toExecd[h] = <<>> /\ toMaster[h] = <<>> /\ ~(rep # None /\ rep.host = h)

\* execd_add_job_report: whether a job report goes into the message when which
\* job reports are due ("all", "flushed" or "none").
Included(r, which) == which = "all" \/ (which = "flushed" /\ r.flush)

\* sge_send_all_reports: one message with what is due.
SendMessage(h, load, which) ==
  LET Due(j) == {i \in DOMAIN jr[h][j] : Included(jr[h][j][i], which)} IN
  /\ h \in up /\ acking[h] = <<>>
  /\ "late" \in Faults \/ Settled(h)
  /\ Len(toMaster[h]) < MaxToMaster
  /\ toMaster' = [toMaster EXCEPT ![h] = Append(@,
       [kind |-> "TAG_REPORT_REQUEST", load |-> load,
        jrs |-> [j \in Jobs |-> Unflushed(Chosen(jr[h][j], Due(j)))]])]
  /\ jr' = [jr EXCEPT ![h] = [j \in Jobs |-> [i \in DOMAIN @[j] |->
       IF i \in Due(j) THEN [@[j][i] EXCEPT !.flush = FALSE] ELSE @[j][i]]]]

\* The intervals of the load report and of the job report have passed.
SendFullReport(h) ==
  /\ SendMessage(h, TRUE, "all")
  /\ UNCHANGED <<up, copy, acking, procs, qmVars, toExecd, faults>>

\* A message between two intervals: the job reports that are marked to be
\* flushed, a load report alone, or both.
SendPartialReport(h) ==
  /\ "partial" \in Faults
  /\ \/ /\ \E j \in Jobs : \E i \in DOMAIN jr[h][j] : jr[h][j][i].flush
        /\ \E load \in BOOLEAN : SendMessage(h, load, "flushed")
     \/ SendMessage(h, TRUE, "none")
  /\ UNCHANGED <<up, copy, acking, procs, qmVars, toExecd, faults>>

\* The daemon dies; shepherds, spool and active directories stay.
Crash(h) ==
  /\ h \in up
  /\ Trouble("crash")
  /\ up' = up \ {h}
  /\ jr' = [jr EXCEPT ![h] = NoReports]
  /\ acking' = [acking EXCEPT ![h] = <<>>]
  /\ toExecd' = [toExecd EXCEPT ![h] = <<>>]
  /\ UNCHANGED <<copy, procs, qmVars, toMaster>>

\* starting_up: job_initialize_job makes a report for every spooled job and
\* examine_job_task_from_file looks at the active directory.
Found(h, j) ==
  LET c == copy[h][j] IN
  CASE c = None         -> <<>>
    [] c # None /\ c.pid = 0 -> <<Exiting(c.run, "rerun", FALSE)>>
    [] c # None /\ c.pid > 0 /\ Lives(h, j, c) ->
         <<[Written(c.run) EXCEPT !.flush = FALSE]>>
    [] OTHER            -> <<Exiting(c.run, "ended", TRUE)>>

\* jobs_to_start is set when the daemon starts, so a job whose spool file says
\* JIDLE is started, whatever was found in its active directory.
Restart(h) ==
  LET IsIdle(j) == copy[h][j] # None /\ copy[h][j].idle IN
  /\ h \notin up
  /\ up' = up \cup {h}
  /\ jr' = [jr EXCEPT ![h] = [j \in Jobs |-> Found(h, j)]]
  /\ copy' = [copy EXCEPT ![h] = [j \in Jobs |->
       IF IsIdle(j) THEN [@[j] EXCEPT !.pid = copy[h][j].pid + 1, !.idle = FALSE]
                    ELSE @[j]]]
  /\ procs' = [procs EXCEPT ![h] = [j \in Jobs |->
       IF IsIdle(j) THEN @[j] \cup {Alive(copy[h][j].run, copy[h][j].pid + 1)}
                    ELSE @[j]]]
  /\ UNCHANGED <<acking, qmVars, netVars, faults>>

LoseConnection(h) ==
  /\ Trouble("lose")
  /\ toExecd' = [toExecd EXCEPT ![h] = <<>>]
  /\ toMaster' = [toMaster EXCEPT ![h] = <<>>]
  /\ UNCHANGED <<qmVars, execdVars>>

-----------------------------------------------------------------------------
QmasterStep ==
  \/ EndReport
  \/ \E j \in Jobs :
       \/ JobResend(j) \/ ProcessJobReport(j) \/ RescheduleManually(j)
       \/ Delete(j) \/ SignalResend(j) \/ Debited(j)
       \/ \E h \in Hosts : Dispatch(j, h) \/ DispatchFails(j, h)
  \/ \E h \in Hosts :
       \/ BeginReport(h) \/ ReceiveSignalAck(h)
       \/ RescheduleUnknownHost(h) \/ HostUnheard(h)

ExecdStep(h) ==
  \/ \E i \in DOMAIN toExecd[h] :
       ReceiveJob(h, i) \/ ReceiveSignal(h, i) \/ ReceiveAcks(h, i)
  \/ HandleAck(h)
  \/ \E j \in Jobs :
       \/ Reap(h, j)
       \/ \E p \in procs[h][j] : ShepherdEnds(h, j, p)
  \/ SendFullReport(h) \/ SendPartialReport(h)
  \/ Crash(h) \/ Restart(h) \/ LoseConnection(h)

Next == QmasterStep \/ \E h \in Hosts : ExecdStep(h)

Spec == Init /\ [][Next]_vars

-----------------------------------------------------------------------------
(* Safety                                                                   *)

Tasks == [status : Statuses, deleted : BOOLEAN, deferred : BOOLEAN,
          host : Hosts \cup {None}, run : Runs, resend : BOOLEAN,
          signal : BOOLEAN]

\* The values each variable may take: a queue instance never has more slots
\* debited than it has, nor fewer than none.
TypeOK ==
  /\ task \in [Jobs -> Tasks]
  /\ unknown \subseteq Hosts /\ ruTimer \subseteq Hosts
  /\ ru \in [Hosts -> [Jobs -> Seq(RUStates)]]
  /\ used \in [Hosts -> 0 .. Slots]
  /\ acct \in [Jobs -> Seq(Runs)]
  /\ rep = None \/ rep \in ReportBeingRead
  /\ up \subseteq Hosts
  /\ copy \in [Hosts -> [Jobs -> Copies \cup {None}]]
  /\ jr \in [Hosts -> [Jobs -> Seq(JobReports)]]
  /\ acking \in [Hosts -> Seq(Acks)]
  /\ procs \in [Hosts -> [Jobs -> SUBSET Shepherds]]
  /\ toExecd \in [Hosts -> Seq(ToExecd)]
  /\ toMaster \in [Hosts -> Seq(ToMaster)]
  /\ faults \in 0 .. MaxFaults

\* The slots debited on a host are those of the tasks that the qmaster has
\* there: each dispatch debits once and each way out of a queue (exit report,
\* rescheduling by timer, by a user or after an exit) credits once and at the
\* host where the task was.
SlotsMatch ==
  \A h \in Hosts :
    used[h] = Cardinality({j \in Jobs : task[j].status \in Busy /\ task[j].host = h})

\* A task has a resend timer exactly while it is in transfer: a delivery that
\* was lost is repeated, and no task that arrived, ended or was taken back is
\* delivered once more.
TransferHasTimer ==
  \A j \in Jobs : task[j].resend <=> task[j].status = "JTRANSFERING"

\* Every instance of a job is accounted for at most once, however often its
\* exit is reported and whoever takes the task from its queue.
AccountedOnce ==
  \A j \in Jobs : \A a, b \in DOMAIN acct[j] :
    acct[j][a] = acct[j][b] => a = b

\* A job that is registered for deletion does not become pending again,
\* whatever is reported of it and whatever happens to its host.
DeletedStaysDeleted ==
  [][\A j \in Jobs : task[j].deleted => task'[j].status # "JIDLE"]_vars

Phase(status) ==
  CASE status = "JIDLE" -> "pending" [] status = "JTRANSFERING" -> "sent"
    [] status = "JRUNNING" -> "running" [] OTHER -> "over"

Life == INSTANCE TaskLife WITH
  phase   <- [j \in Jobs |-> Phase(task[j].status)],
  place   <- [j \in Jobs |-> task[j].host],
  deleted <- {j \in Jobs : task[j].deleted},
  grants  <- [j \in Jobs |-> task[j].run],
  records <- acct

\* Every handler changes the tasks, the slots and the accounting in a way that
\* TaskLife allows: all ways out of a queue (exit report, rescheduling by timer,
\* by a user or after an exit) free the slot, account and cancel in one step.
ImplementsTaskLife == Life!Spec

Living(h, j) == {p \in procs[h][j] : ~p.dying}

\* Every process of a job that is not being killed belongs to a job of the
\* daemon's list, so the daemon can report and kill it: an acknowledged exit
\* never removes an instance that still runs (remove_acked_job_exit).
NoOrphan ==
  \A h \in Hosts, j \in Jobs : \A p \in Living(h, j) :
    /\ copy[h][j] # None
    /\ copy[h][j].run = p.run /\ copy[h][j].pid = p.pid

\* A job is dispatched only to a host where no process of an earlier instance
\* is left, "until it is sure that this job/task is not running on that host
\* anymore" (add_to_reschedule_unknown_list).
NotBackToBusyHost ==
  [][\A j \in Jobs, h \in Hosts :
       task'[j].run # task[j].run /\ task'[j].host = h => procs[h][j] = {}]_vars

StaleReport(j) ==
  /\ rep # None /\ rep.jrs[j] # <<>>
  /\ Head(rep.jrs[j]).run \notin {0, task[j].run}

\* A report of an instance that was taken away does not change the status of
\* the job, which may be pending, on another host or on the same host again
\* (skip_restarted_job: "now we have to ignore all reports from host X").
OldReportsIgnored ==
  [][\A j \in Jobs : StaleReport(j) => task'[j].status = task[j].status]_vars

-----------------------------------------------------------------------------
(* Liveness                                                                 *)

\* LOCK_GLOBAL is a FIFO lock (FifoLock: every thread that waits is served), so
\* a handler whose timer or message is there gets its turn although the others
\* keep coming: strong fairness.  The loop of a daemon gets round to reaping
\* children and to its next full report between any messages.  Nobody has to
\* dispatch, delete or end a job, except one that was killed, and trouble never
\* has to happen.
Fairness ==
  /\ WF_vars(EndReport)
  /\ \A j \in Jobs :
       /\ WF_vars(ProcessJobReport(j))
       /\ SF_vars(JobResend(j)) /\ SF_vars(SignalResend(j)) /\ SF_vars(Debited(j))
  /\ \A h \in Hosts :
       /\ SF_vars(BeginReport(h)) /\ SF_vars(ReceiveSignalAck(h))
       /\ SF_vars(RescheduleUnknownHost(h))
       /\ WF_vars(\E i \in DOMAIN toExecd[h] :
                    ReceiveJob(h, i) \/ ReceiveSignal(h, i) \/ ReceiveAcks(h, i))
       /\ WF_vars(HandleAck(h))
       /\ \A j \in Jobs :
            /\ SF_vars(Reap(h, j))
            /\ WF_vars(\E p \in procs[h][j] : p.dying /\ ShepherdEnds(h, j, p))
       /\ SF_vars(SendFullReport(h))
       /\ WF_vars(Restart(h))

FairSpec == Spec /\ Fairness

\* A job in transfer gets out of it: its delivery is repeated until it is
\* reported, through lost messages, crashes and hosts in unknown state.
TransferEnds ==
  \A j \in Jobs :
    task[j].status = "JTRANSFERING" ~> task[j].status # "JTRANSFERING"

\* A job that is registered for deletion is finished in the end, also when the
\* signal was lost or could not be sent: its reports are answered with another
\* kill.
DeletedEnds ==
  \A j \in Jobs : task[j].deleted ~> task[j].status \in {"JFINISHED", "gone"}

\* A host does not keep an entry of a job for ever, so the job may run there
\* again.
EntriesSettle ==
  \A j \in Jobs, h \in Hosts : ru[h][j] # <<>> ~> ru[h][j] = <<>>

\* "3. execd signals shepherd and reaps job after job exit; 4. execd informs
\* master of job exits and job is deleted from master lists"
\* (get_rid_of_job_due_to_qdel): nothing of a buried job stays on any host.
NothingLeft ==
  \A j \in Jobs, h \in Hosts :
    task[j].status = "gone" ~> procs[h][j] = {} /\ copy[h][j] = None
=============================================================================
