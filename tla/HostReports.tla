----------------------------- MODULE HostReports -----------------------------
(***************************************************************************)
(* The load reports of an execution daemon: numbered messages that tell    *)
(* the qmaster only what it does not know yet (daemons/execd/load_avg.c,   *)
(* sge_report_execd.c, dispatcher.c; daemons/qmaster/sge_c_report.c,       *)
(* sge_host_qmaster.c).                                                    *)
(*                                                                         *)
(* One host and one load value that is not static.  Report messages and    *)
(* the registration of the daemon wait in the task queue of the qmaster;   *)
(* several workers take them out in order, but one may get LOCK_GLOBAL     *)
(* before another that took its message earlier.  A job report without a   *)
(* load report is a report that says nothing.                              *)
(***************************************************************************)
EXTENDS Naturals, Sequences

CONSTANTS
  Values,        \* values of the load value
  Gone,          \* there is no such load value
  Stale,         \* there is one, but the qmaster does not know it
  None,          \* no list or report
  Wrap,          \* 10000: report numbers are smaller
  OldWithin,     \* 9000: how far back a report number is taken for an old one
  High, Low,     \* 9990 and 10: above and below, the numbers have wrapped
  Races,         \* what may happen, of
                 \* "overtaken": a worker handles a report before an earlier one,
                 \* "first": also before the first one of a daemon,
                 \* "wrap": also if the numbers have wrapped in between,
                 \* "register": a worker handles a registration before a report
                 \*   that came before it,
                 \* "restart": a daemon is started while reports of the previous
                 \*   one wait,
                 \* "quick": the load value vanishes before its last report has
                 \*   been acknowledged, or appears again before it has been
                 \*   acknowledged that it vanished
  MaxMessages,   \* bound: messages on their way in one direction
  MaxFaults      \* bound: restarts, lost connections, silent hosts and overtaken
                 \* reports

ASSUME ValuesAssumption ==
  /\ Gone \notin Values /\ Stale \notin Values \union {Gone}
  /\ None \notin Values \union {Gone, Stale}
  /\ Values \intersect {"nothing", "deleted", "void"} = {}
  /\ None \notin [seqno : Nat, item : Values \union {"nothing", "deleted", "void"}]
ASSUME WindowAssumption ==
  Wrap \in Nat \ {0} /\ OldWithin \in 0 .. Wrap - 1 /\ High \in Nat /\ Low \in Nat
ASSUME RacesAssumption ==
  Races \subseteq {"overtaken", "first", "wrap", "register", "restart", "quick"}
ASSUME BoundsAssumption == MaxMessages \in Nat \ {0} /\ MaxFaults \in Nat

VARIABLES
  value,      \* what the daemon measures
  seqno,      \* sge_execd_report_seqno
  known,      \* lr_list: what the qmaster is taken to know; None: no list yet
  last,       \* last_lr: number and value of the last report, or None
  sendAll,    \* send_all
  contact,    \* the daemon is registered, or waits for the answer, or has lost
              \* the qmaster
  toMaster,   \* messages to the qmaster, with those in its task queue
  toExecd,    \* messages to the daemon
  host,       \* the element of the host: EH_report_seqno, EH_lt_heard_from # 0
              \* and the load value in EH_load_list
  faults      \* how many faults there have been

daemonVars == <<seqno, known, last, sendAll>>
vars == <<value, daemonVars, contact, toMaster, toExecd, host, faults>>

Fault == faults < MaxFaults /\ faults' = faults + 1

Report(n, full, item, first) ==
  [kind |-> "report", seqno |-> n, full |-> full, item |-> item, first |-> first,
   overtaken |-> FALSE]
Registration == [kind |-> "register"]

\* A daemon that starts registers first (main of the execd).
Init ==
  /\ value \in Values \union {Gone}
  /\ seqno = 0 /\ known = None /\ last = None /\ sendAll = TRUE
  /\ contact = "registering"
  /\ toMaster = <<Registration>> /\ toExecd = <<>>
  /\ host = [seqno |-> 0, heard |-> FALSE, stored |-> Gone]
  /\ faults = 0

-----------------------------------------------------------------------------
\* The load value changes, appears or vanishes.
Measure ==
  /\ value' \in (Values \union {Gone}) \ {value}
  /\ value' = Gone => known = value \/ "quick" \in Races
  /\ value = Gone => known \in {None, Gone} \/ "quick" \in Races
  /\ UNCHANGED <<daemonVars, contact, toMaster, toExecd, host, faults>>

\* The qmaster is taken to know the value.
Unchanged == ~sendAll /\ known = value

\* What the report says of the value: nothing, or the value, or that it is gone.
\* Of a value that is not known any more, that is said without a value ("void").
Item ==
  IF value # Gone THEN IF Unchanged THEN "nothing" ELSE value
  ELSE IF known \in {None, Gone} THEN "nothing"
  ELSE IF known = Stale THEN "void" ELSE "deleted"

\* lr_list after the report has been built: the first report is taken for
\* known, afterwards only what is acknowledged is.
KnownNow ==
  IF known = None THEN value
  ELSE IF value # Gone /\ known # Gone /\ ~Unchanged THEN Stale ELSE known

\* Mutant: the number 10000 is used.
Succ_WrapsLate(n) == IF n = Wrap THEN 0 ELSE n + 1

Succ(n) == IF n + 1 = Wrap THEN 0 ELSE n + 1

\* execd_add_load_report and sge_send_all_reports: the report is built and
\* sent, and the number counted up.
SendReport ==
  /\ contact = "registered"
  /\ Len(toMaster) < MaxMessages
  /\ toMaster' = Append(toMaster, Report(seqno, sendAll, Item, known = None))
  /\ known' = KnownNow
  /\ last' = IF known = None THEN None ELSE [seqno |-> seqno, item |-> Item]
  /\ sendAll' = FALSE
  /\ seqno' = Succ(seqno)
  /\ UNCHANGED <<value, contact, toExecd, host, faults>>

\* Mutant: an acknowledgement counts for whatever was sent last.
Acknowledges_Any(n) == last # None

\* The acknowledgement is that of the last report.
Acknowledges(n) == last # None /\ last.seqno = n

\* do_ack and execd_merge_load_report, or a request for a full report.
ReceiveAtExecd ==
  /\ toExecd # <<>>
  /\ toExecd' = Tail(toExecd)
  /\ LET m == Head(toExecd)
     IN  \/ /\ m.kind = "ack" /\ Acknowledges(m.seqno)
            /\ known' = CASE last.item = "nothing" -> known
                          [] last.item \in {"deleted", "void"} -> Gone
                          [] OTHER -> last.item
            /\ last' = None
            /\ UNCHANGED <<seqno, sendAll>>
         \/ /\ m.kind = "ack" /\ ~Acknowledges(m.seqno)
            /\ UNCHANGED daemonVars
         \/ /\ m.kind = "full"
            /\ sendAll' = TRUE
            /\ UNCHANGED <<seqno, known, last>>
  /\ UNCHANGED <<value, contact, toMaster, host, faults>>

-----------------------------------------------------------------------------
\* Mutant: the numbers never wrap.
Old_NoWrap(this, newest) == this < newest

\* sge_c_report: the report is an old one.
Old(this, newest) ==
  /\ this < newest
  /\ newest - this <= OldWithin
  /\ ~(newest > High /\ this < Low)

\* The message a worker gets to next: the first one, or the second one, if that
\* may overtake the first.  Bound: a report is overtaken once.
SecondOvertakes ==
  /\ Len(toMaster) > 1
  /\ toMaster[1].kind = "report" /\ ~toMaster[1].overtaken
  /\ \/ /\ toMaster[2].kind = "report"
        /\ "overtaken" \in Races
        /\ toMaster[1].first => "first" \in Races
        /\ toMaster[2].seqno < toMaster[1].seqno => "wrap" \in Races
     \/ /\ toMaster[2].kind = "register"
        /\ "register" \in Races

Takable == {i \in DOMAIN toMaster : i = 1 \/ (i = 2 /\ SecondOvertakes)}

\* The queue without its i-th message, which has overtaken those before it.
Without(i) ==
  IF i = 1 THEN Tail(toMaster)
  ELSE <<[toMaster[1] EXCEPT !.overtaken = TRUE]>> \o SubSeq(toMaster, 3, Len(toMaster))

\* Mutant: a report turns an unknown host into a known one even if it is not a
\* full one.
NeedsFull_Never(r) == FALSE

\* The values of an unknown host have been trashed: only a full report helps.
NeedsFull(r) == ~host.heard /\ ~r.full

\* A worker handles a report (sge_c_report, sge_update_load_values).  What comes
\* without a value is skipped, even if it says that the load value is gone.
HandleReport(i) ==
  LET r == toMaster[i]
  IN  /\ r.kind = "report"
      /\ toMaster' = Without(i)
      /\ \/ /\ Old(r.seqno, host.seqno)
            /\ UNCHANGED <<host, toExecd>>
         \/ /\ ~Old(r.seqno, host.seqno) /\ NeedsFull(r)
            /\ host' = [host EXCEPT !.seqno = r.seqno]
            /\ toExecd' = Append(toExecd, [kind |-> "full"])
         \/ /\ ~Old(r.seqno, host.seqno) /\ ~NeedsFull(r)
            /\ host' = [seqno |-> r.seqno, heard |-> TRUE,
                        stored |-> CASE r.item \in {"nothing", "void"} -> host.stored
                                     [] r.item = "deleted" -> Gone
                                     [] OTHER -> r.item]
            /\ toExecd' = Append(toExecd, [kind |-> "ack", seqno |-> r.seqno])
      /\ UNCHANGED <<value, daemonVars, contact>>

\* A worker handles a registration (sge_execd_startedup); the daemon waits for
\* the answer to its last one.  After a reconnect, and after it has started, it
\* sends a full report.
HandleRegistration(i) ==
  /\ toMaster[i].kind = "register"
  /\ toMaster' = Without(i)
  /\ host' = [host EXCEPT !.seqno = 0]
  /\ IF contact = "registering" /\ \A k \in DOMAIN toMaster' : toMaster'[k].kind # "register"
     THEN contact' = "registered" /\ sendAll' = TRUE
     ELSE UNCHANGED <<contact, sendAll>>
  /\ UNCHANGED <<value, seqno, known, last, toExecd>>

\* A worker takes the next message, as long as its answer has room.
Work ==
  /\ Len(toExecd) < MaxMessages
  /\ \E i \in Takable :
       /\ HandleReport(i) \/ HandleRegistration(i)
       /\ IF i = 1 THEN UNCHANGED faults ELSE Fault

-----------------------------------------------------------------------------
\* The host becomes unknown: its daemon has not been heard of for some time, or
\* a job could not be sent (sge_load_value_cleanup_handler, sge_mark_unheard).
Unheard ==
  /\ Fault
  /\ host.heard
  /\ host' = [host EXCEPT !.heard = FALSE, !.stored = Gone]
  /\ UNCHANGED <<value, daemonVars, contact, toMaster, toExecd>>

\* The connection breaks: what is on it is lost, except for the messages that
\* have reached the task queue.  A registration under way has failed.
LoseConnection ==
  /\ Fault
  /\ contact # "lost"
  /\ contact' = "lost"
  /\ \E n \in 0 .. Len(toMaster) : toMaster' = SubSeq(toMaster, 1, n)
  /\ toExecd' = <<>>
  /\ UNCHANGED <<value, daemonVars, host>>

\* sge_execd_process_messages: the daemon registers again.
Reconnect ==
  /\ contact = "lost"
  /\ Len(toMaster) < MaxMessages
  /\ contact' = "registering"
  /\ toMaster' = Append(toMaster, Registration)
  /\ UNCHANGED <<value, daemonVars, toExecd, host, faults>>

\* The daemon is killed and started again; the first report of the new one
\* still finds the load value.
Restart ==
  /\ Fault
  /\ Len(toMaster) < MaxMessages
  /\ "restart" \in Races \/ \A i \in DOMAIN toMaster : toMaster[i].kind # "report"
  /\ seqno' = 0 /\ known' = None /\ last' = None /\ sendAll' = TRUE
  /\ value' \in Values
  /\ contact' = "registering"
  /\ toMaster' = Append(toMaster, Registration)
  /\ toExecd' = <<>>
  /\ UNCHANGED host

Next ==
  \/ Measure \/ SendReport \/ ReceiveAtExecd
  \/ Work
  \/ Unheard \/ LoseConnection \/ Reconnect \/ Restart

Spec == Init /\ [][Next]_vars

\* The daemon reports at intervals and reads its messages, the workers run.
Fairness ==
  WF_vars(SendReport) /\ WF_vars(ReceiveAtExecd) /\ WF_vars(Work) /\ WF_vars(Reconnect)

FairSpec == Spec /\ Fairness

-----------------------------------------------------------------------------
Numbers == 0 .. Wrap - 1
Items == Values \union {"nothing", "deleted", "void"}
Reports ==
  [kind : {"report"}, seqno : Numbers, full : BOOLEAN, item : Items, first : BOOLEAN,
   overtaken : BOOLEAN]

\* The variables have their types; numbers of reports stay below 10000
\* (sge_send_all_reports).
TypeOK ==
  /\ value \in Values \union {Gone}
  /\ seqno \in Numbers
  /\ known \in Values \union {Gone, Stale, None}
  /\ last \in [seqno : Numbers, item : Items] \union {None}
  /\ sendAll \in BOOLEAN
  /\ contact \in {"registering", "registered", "lost"}
  /\ toMaster \in Seq(Reports \union {Registration})
  /\ host \in [seqno : Numbers, heard : BOOLEAN, stored : Values \union {Gone}]
  /\ faults \in 0 .. MaxFaults

\* A report is ignored exactly when a later one has been handled before
\* ("prevent old reports being proceeded", sge_c_report).
IgnoresExactlyTheOld ==
  \A i \in Takable :
    toMaster[i].kind = "report" =>
      (Old(toMaster[i].seqno, host.seqno) <=> toMaster[i].overtaken)

\* What the daemon takes for known and does not report any more is what the
\* qmaster stores, when the host is known and nothing is on its way.
KnownIsStored ==
  /\ contact = "registered" /\ toMaster = <<>> /\ toExecd = <<>>
  /\ known \in Values \union {Gone} /\ ~sendAll /\ host.heard
  => host.stored = known

\* Once the load value does not change any more, the qmaster gets to know it,
\* whatever was lost before.
LoadArrives == \A v \in Values \union {Gone} : <>[](value = v) => <>[](host.stored = v)
=============================================================================
