------------------------------- MODULE Alarms -------------------------------
(***************************************************************************)
(* What the timed events of the qmaster promise to the code that uses      *)
(* them (te_add_event and te_delete_one_time_event in                      *)
(* daemons/qmaster/sge_qmaster_timed_event.c): an alarm that is set goes   *)
(* off once, not before its time has passed, and not any more after it has *)
(* been cancelled; an alarm whose handler has been started cannot be       *)
(* cancelled.  There is no thread, no clock and no list here.              *)
(***************************************************************************)
EXTENDS Integers

CONSTANTS Events,      \* the alarms
          Recurring,   \* those that are set again whenever they went off
          Interval,    \* seconds between two of them
          Selections,  \* sets of alarms one call can cancel
          Delays,      \* seconds for which an alarm can be set
          Nothing      \* no alarm

VARIABLES
  pending,   \* alarms that are set
  due,       \* seconds that still have to pass before an alarm may go off
  running    \* the alarm whose handler runs, or Nothing

vars == <<pending, due, running>>

Init ==
  /\ pending = Recurring
  /\ due = [e \in Events |-> IF e \in Recurring THEN Interval[e] ELSE 0]
  /\ running = Nothing

\* e is set to go off in d seconds, or, if the clock is being put back at that
\* time, at any time.
SetAlarm(e, d) ==
  /\ pending' = pending \union {e}
  /\ \/ due' = [due EXCEPT ![e] = d]
     \/ due' = [due EXCEPT ![e] = 0]

Set(e, d) == e \notin pending /\ SetAlarm(e, d) /\ UNCHANGED running

\* Pending alarms are cancelled, except recurring ones.
Cancel(S) ==
  LET cancelled == (S \intersect pending) \ Recurring
  IN  /\ pending' = pending \ cancelled
      /\ due' = [e \in Events |-> IF e \in cancelled THEN 0 ELSE due[e]]
      /\ UNCHANGED running

\* An alarm goes off: it is pending, and its time has come.
Begin(e) ==
  /\ running = Nothing
  /\ e \in pending /\ due[e] = 0
  /\ pending' = pending \ {e}
  /\ running' = e
  /\ UNCHANGED due

\* Its handler returns.
End ==
  /\ running # Nothing
  /\ running' = Nothing
  /\ \/ running \notin Recurring /\ UNCHANGED <<pending, due>>
     \/ running \in Recurring /\ SetAlarm(running, Interval[running])

\* A second passes.
Pass ==
  /\ due' = [e \in Events |-> IF due[e] > 0 THEN due[e] - 1 ELSE 0]
  /\ UNCHANGED <<pending, running>>

Next ==
  \/ \E e \in Events \ Recurring, d \in Delays : Set(e, d)
  \/ \E S \in Selections : Cancel(S)
  \/ \E e \in Events : Begin(e)
  \/ End
  \/ Pass

Spec == Init /\ [][Next]_vars
=============================================================================
