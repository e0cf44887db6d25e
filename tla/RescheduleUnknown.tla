-------------------------- MODULE RescheduleUnknown --------------------------
(***************************************************************************)
(* The reschedule_unknown_list of an execution host: what the qmaster      *)
(* remembers of the jobs it took away from the host while they may still   *)
(* run there (daemons/qmaster/reschedule.c).                               *)
(*                                                                         *)
(* An entry has one of three states.  Every report message of the host     *)
(* moves the entries on, and the job reports in the message set the first  *)
(* entry of their job back:                                                *)
(*    SKIP_JR           a report came, or the entry is new                 *)
(*    SKIP_JR_SEND_ACK  one message further                                *)
(*    SKIP_JR_REMOVE    two messages further: kill if it reports now,      *)
(*                      forget it if it does not                           *)
(* The entries of different jobs never affect each other, so the list of a *)
(* host is kept here as one sequence of states per job.                    *)
(***************************************************************************)
EXTENDS Integers, Sequences, FiniteSets

RUStates == {"SKIP_JR", "SKIP_JR_SEND_ACK", "SKIP_JR_REMOVE"}

\* What skip_restarted_job tells process_job_report to do with a job report.
Verdicts == {"process", "ignore", "kill", "ack_exit"}

\* add_to_reschedule_unknown_list: always appended, also beside an entry that
\* the job has already.
AddEntry(entries, state) == Append(entries, state)

\* Mutant: the second message after a report does not age the entry.
Aged_StopsEarly(state) == IF state = "SKIP_JR" THEN "SKIP_JR_SEND_ACK" ELSE state

\* One entry when a new report message of the host arrives.
Aged(state) ==
  CASE state = "SKIP_JR"          -> "SKIP_JR_SEND_ACK"
    [] state = "SKIP_JR_SEND_ACK" -> "SKIP_JR_REMOVE"
    [] OTHER                      -> state

\* update_reschedule_unknown_list, before the reports of a message are read.
Age(entries) == [i \in DOMAIN entries |-> Aged(entries[i])]

\* The elements of a sequence at the given positions, in their order: SelectSeq,
\* told by positions so that it can be reasoned about.
Chosen(seq, positions) ==
  LET Rank(i) == Cardinality({k \in positions : k <= i}) IN
  [n \in 1 .. Cardinality(positions) |->
     seq[CHOOSE i \in positions : Rank(i) = n]]

\* delete_from_reschedule_unknown_list keeps what is not SKIP_JR_REMOVE.
IsKept(state) == state # "SKIP_JR_REMOVE"

\* delete_from_reschedule_unknown_list, after the reports of a message.
DropSettled(entries) ==
  Chosen(entries, {i \in DOMAIN entries : IsKept(entries[i])})

\* Mutant: every report of a rescheduled job is processed.
Verdict_NeverSkips(entries, exiting) == "process"

\* skip_restarted_job looks at the first entry of the job only.
Verdict(entries, exiting) ==
  IF entries = <<>>                         THEN "process"
  ELSE IF Head(entries) = "SKIP_JR_REMOVE"  THEN "kill"
  ELSE IF exiting                           THEN "ack_exit"
  ELSE "ignore"

\* The list after skip_restarted_job: a job that is to be killed is heard of.
Heard(entries) ==
  IF entries # <<>> /\ Head(entries) = "SKIP_JR_REMOVE"
  THEN [entries EXCEPT ![1] = "SKIP_JR"]
  ELSE entries
=============================================================================
