----------------------------- MODULE TimedEvents -----------------------------
(***************************************************************************)
(* The timed events of the qmaster: the list of events, the timer thread   *)
(* that waits for the first of them and calls its handler, and the threads *)
(* that add and delete events (daemons/qmaster/sge_qmaster_timed_event.c   *)
(* and sge_thread_timer.c).                                                *)
(*                                                                         *)
(* Event_Control.mutex protects everything, so a step is the code between  *)
(* two points where a thread gives it up.  The handler runs without it.    *)
(*                                                                         *)
(* All times are relative to the clock: `when[e]` is TE_when minus         *)
(* time(NULL).  They shrink by one when a second passes and grow when the  *)
(* clock is set back.  The list is kept as the set of its members with     *)
(* their times: it is sorted by TE_when, so its first element is one with  *)
(* the least time.  The periodic events are added before the thread is     *)
(* created and are never deleted, so te_wait_empty never waits.            *)
(***************************************************************************)
EXTENDS Integers, FiniteSets

CONSTANTS
  Events,       \* the events; two with the same keys are two members
  Recurring,    \* those of mode RECURRING_EVENT
  Interval,     \* their intervals in seconds
  Selections,   \* sets of one time events with the same type (and keys)
  Nothing,      \* no event
  Delays,       \* when - time(NULL) of one time events as they are added
  Steps,        \* by how many seconds the clock may be set back
  MaxLate,      \* bound: seconds by which the timer thread is late at most
  Horizon,      \* bound: times this long past are all the same
  MaxSetBacks   \* bound: how often the clock is set back

ASSUME RecurringAssumption == Recurring \subseteq Events /\ Recurring # {}
ASSUME IntervalAssumption == Interval \in [Recurring -> Nat \ {0}]
ASSUME SelectionsAssumption == Selections \subseteq SUBSET Events
ASSUME NothingAssumption == Nothing \notin Events
ASSUME DelaysAssumption == Delays \subseteq Nat
ASSUME StepsAssumption == Steps \subseteq Nat \ {0}
ASSUME BoundsAssumption ==
  MaxLate \in Nat /\ Horizon \in Nat /\ MaxLate < Horizon /\ MaxSetBacks \in Nat

VARIABLES
  listed,     \* members of Event_Control.list
  when,       \* their TE_when
  next,       \* Event_Control.next
  delete,     \* Event_Control.delete
  last,       \* Event_Control.last
  pc,         \* where the timer thread is
  te,         \* the event it waits for or delivers (te and le)
  teWhen,     \* te->when, a copy
  shutdown,   \* sge_thread_has_shutdown_started()
  cancelled,  \* sge_timer_terminate has cancelled the thread
  setBacks,   \* how often the clock has been set back
  due         \* history: the seconds that really have to pass before an event
              \* may be delivered

clockVars == <<when, next, last, teWhen, setBacks, due>>
vars == <<listed, delete, pc, te, shutdown, cancelled, clockVars>>

\* top: about to lock the mutex and look at the list; waiting: blocked in
\* te_wait_next; woken: signaled there or woken spuriously; timedout: the wait
\* ended by ETIMEDOUT; handler: runs the handler; held: behind it, before the
\* cancelation point; ended.
Places == {"top", "waiting", "woken", "timedout", "handler", "held", "ended"}
InWait == {"waiting", "woken", "timedout"}

\* A second later, a time t lies this many seconds ahead.
Later(t) == IF t - 1 < -Horizon THEN -Horizon ELSE t - 1

OneTime == Events \ Recurring

Init ==
  /\ listed = Recurring
  /\ when = [e \in Events |-> IF e \in Recurring THEN Interval[e] ELSE 0]
  /\ next \in {Interval[e] : e \in Recurring}
  /\ \A e \in Recurring : next <= Interval[e]
  /\ delete = FALSE /\ last = -Horizon
  /\ pc = "top" /\ te = Nothing /\ teWhen = 0
  /\ shutdown = FALSE /\ cancelled = FALSE /\ setBacks = 0
  /\ due = when

-----------------------------------------------------------------------------
\* Mutant: next is lowered only when nothing is waited for.
Earlier_WhenIdle(w) == pc \notin InWait

\* Mutant: any new event becomes the next one.
Earlier_Always(w) == TRUE

\* The new event comes before the one that is waited for.
Earlier(w) == w < next

\* te_add_event.  The thread is signaled when the new event is the next one.
\* Nothing is promised about the time of an event that is added while the clock
\* is behind the time at which the thread looked at it last.
AddEvent(e, w) ==
  /\ listed' = listed \union {e}
  /\ when' = [when EXCEPT ![e] = w]
  /\ next' = IF Earlier(w) THEN w ELSE next
  /\ due' = [due EXCEPT ![e] = IF last > 0 THEN 0 ELSE w]

Signaled(b) == IF b /\ pc = "waiting" THEN "woken" ELSE pc

\* A thread adds a one time event.
Add(e, w) ==
  /\ ~cancelled
  /\ e \notin listed
  /\ AddEvent(e, w)
  /\ pc' = Signaled(Earlier(w))
  /\ UNCHANGED <<delete, last, te, teWhen, shutdown, cancelled, setBacks>>

\* Mutant: the thread is not told that an event has been deleted.
Flagged_Never(S) == delete

\* Event_Control.delete after the members of S have been deleted.
Flagged(S) == delete \/ S # {}

\* Mutant: recurring events with the same keys are deleted, too.
Deletable_AnyMode(S) == (S \union Recurring) \intersect listed

\* The members a call removes: one time events only.
Deletable(S) == (S \intersect listed) \ Recurring

\* te_delete_one_time_event, te_delete_all_one_time_events.
Delete(S) ==
  /\ ~cancelled
  /\ listed' = listed \ Deletable(S)
  /\ when' = [e \in Events |-> IF e \in Deletable(S) THEN 0 ELSE when[e]]
  /\ due' = [e \in Events |-> IF e \in Deletable(S) THEN 0 ELSE due[e]]
  /\ delete' = Flagged(Deletable(S))
  /\ pc' = Signaled(Deletable(S) # {})
  /\ UNCHANGED <<next, last, te, teWhen, shutdown, cancelled, setBacks>>

-----------------------------------------------------------------------------
\* lDechainElem(list, le), and the mutex is unlocked.
Dechain(e) == listed' = listed \ {e} /\ pc' = "handler" /\ te' = e

Firsts(w) == {e \in listed : \A f \in listed : w[e] <= w[f]}

\* te_check_time: the clock is behind the last look at it, so all times are
\* moved back by the difference.
Adjusted(e) == IF e \in listed /\ last > 0 THEN when[e] - last ELSE when[e]

\* The thread locks the mutex and looks at the first event.  If that is due,
\* it is taken off the list, otherwise the thread waits for it.
Examine ==
  /\ pc = "top"
  /\ when' = [e \in Events |-> Adjusted(e)]
  /\ last' = 0
  /\ \E e \in Firsts(when') :
       \/ /\ when'[e] > 0
          /\ next' = when'[e] /\ teWhen' = when'[e] /\ te' = e
          /\ delete' = FALSE
          /\ pc' = "waiting"
          /\ UNCHANGED listed
       \/ /\ when'[e] <= 0
          /\ next' = 0 /\ teWhen' = when'[e]
          /\ Dechain(e)
          /\ UNCHANGED delete
  /\ UNCHANGED <<shutdown, cancelled, setBacks, due>>

\* pthread_cond_timedwait ends because the time of the event has come ...
TimesOut ==
  /\ pc = "waiting" /\ teWhen <= 0
  /\ pc' = "timedout"
  /\ UNCHANGED <<listed, delete, te, shutdown, cancelled, clockVars>>

\* ... or without a reason, ...
SpuriousWakeup ==
  /\ pc = "waiting"
  /\ pc' = "woken"
  /\ UNCHANGED <<listed, delete, te, shutdown, cancelled, clockVars>>

\* ... and the loop goes on as long as next has not changed.
WaitAgain ==
  /\ pc = "woken" /\ next = teWhen
  /\ pc' = IF teWhen <= 0 THEN "timedout" ELSE "waiting"
  /\ UNCHANGED <<listed, delete, te, shutdown, cancelled, clockVars>>

\* The loop has ended: if an earlier event came in or any event was deleted,
\* the list is looked at again, otherwise the event is taken off it.
LeaveWait ==
  /\ \/ pc = "timedout"
     \/ pc = "woken" /\ next # teWhen
  /\ \/ /\ next < teWhen \/ delete
        /\ pc' = "top"
        /\ UNCHANGED <<listed, te>>
     \/ /\ ~(next < teWhen \/ delete)
        /\ Dechain(te)
  /\ UNCHANGED <<delete, shutdown, cancelled, clockVars>>

\* Mutant: a recurring event is added again with the time it had.
Again_OldTime(e) == teWhen

\* The time of a recurring event counts from the end of its handler.
Again(e) == Interval[e]

\* te_scan_table_and_deliver: the handler returns; a recurring event is added
\* again, and nobody but the thread itself could be waiting.
HandlerReturns ==
  /\ pc = "handler"
  /\ pc' = "held"
  /\ \/ /\ te \in Recurring
        /\ AddEvent(te, Again(te))
     \/ /\ te \notin Recurring
        /\ UNCHANGED <<listed, when, next, due>>
  /\ te' = Nothing /\ teWhen' = 0
  /\ UNCHANGED <<delete, last, shutdown, cancelled, setBacks>>

\* The cancelation point, and the loop that waits for the cancelation once the
\* shutdown has begun.
PassHold ==
  /\ pc = "held"
  /\ \/ cancelled /\ pc' = "ended"
     \/ ~cancelled /\ ~shutdown /\ pc' = "top"
  /\ UNCHANGED <<listed, delete, te, shutdown, cancelled, clockVars>>

-----------------------------------------------------------------------------
\* sge_thread_notify_all_waiting, called by the signal thread.
StartShutdown ==
  /\ ~shutdown
  /\ shutdown' = TRUE
  /\ UNCHANGED <<listed, delete, pc, te, cancelled, clockVars>>

\* sge_timer_terminate, after scheduler, listener and workers have ended.
Terminate ==
  /\ shutdown /\ ~cancelled
  /\ cancelled' = TRUE
  /\ UNCHANGED <<listed, delete, pc, te, shutdown, clockVars>>

\* The qmaster goes on to shut down its other threads.
Ended == pc = "ended" /\ UNCHANGED vars

\* A second passes.
Tick ==
  /\ pc # "ended"
  /\ \A e \in listed : when[e] > -MaxLate
  /\ pc \in InWait => teWhen > -MaxLate
  /\ when' = [e \in Events |-> IF e \in listed THEN when[e] - 1 ELSE when[e]]
  /\ next' = Later(next)
  /\ last' = Later(last)
  /\ teWhen' = IF pc \in InWait THEN teWhen - 1 ELSE teWhen
  /\ due' = [e \in Events |-> IF due[e] > 0 THEN due[e] - 1 ELSE 0]
  /\ UNCHANGED <<listed, delete, pc, te, shutdown, cancelled, setBacks>>

\* The clock is set back by d seconds.
SetBack(d) ==
  /\ pc # "ended" /\ setBacks < MaxSetBacks
  /\ setBacks' = setBacks + 1
  /\ when' = [e \in Events |-> IF e \in listed THEN when[e] + d ELSE when[e]]
  /\ next' = next + d
  /\ last' = last + d
  /\ teWhen' = IF pc \in InWait THEN teWhen + d ELSE teWhen
  /\ UNCHANGED <<listed, delete, pc, te, shutdown, cancelled, due>>

TimerThread ==
  Examine \/ TimesOut \/ WaitAgain \/ LeaveWait \/ HandlerReturns \/ PassHold

Next ==
  \/ \E e \in OneTime, w \in Delays : Add(e, w)
  \/ \E S \in Selections : Delete(S)
  \/ TimerThread
  \/ Ended
  \/ SpuriousWakeup
  \/ StartShutdown
  \/ Terminate
  \/ Tick
  \/ \E d \in Steps : SetBack(d)

Spec == Init /\ [][Next]_vars

\* The thread runs when it can, its handlers return, and time goes on.
Fairness == WF_vars(TimerThread) /\ WF_vars(Tick)
FairSpec == Spec /\ Fairness

-----------------------------------------------------------------------------
\* The types, and: while the thread waits, next is the time of the event it
\* waits for or an earlier one (te_wait_next).
TypeOK ==
  /\ listed \subseteq Events
  /\ when \in [Events -> Int] /\ due \in [Events -> Nat]
  /\ next \in Int /\ last \in Int /\ teWhen \in Int
  /\ delete \in BOOLEAN /\ shutdown \in BOOLEAN /\ cancelled \in BOOLEAN
  /\ pc \in Places
  /\ te \in Events \union {Nothing}
  /\ setBacks \in 0 .. MaxSetBacks
  /\ pc \in InWait => te # Nothing /\ next <= teWhen

\* The thread never sleeps past the time of an event: no event in the list is
\* earlier than the one it waits for (the signals of te_add_event, and the
\* deadline of te_wait_next), and there always is an event to wait for.
NeverOversleeps ==
  /\ pc = "waiting" => \A e \in listed : teWhen <= when[e]
  /\ pc = "top" => listed # {}

\* Alarms with the members of the list as the pending ones.  This says that an
\* event is delivered once, never after it was deleted (the copy the thread
\* waits with may have gone from the list meanwhile) and, also when the clock
\* is set back, never before its time has really passed - unless it was
\* added after the clock had been set back and before the thread noticed.
Alarm == INSTANCE Alarms WITH pending <- listed,
                              running <- IF pc = "handler" THEN te ELSE Nothing
ImplementsAlarms == Alarm!Spec

\* Every event in the list is delivered or deleted, whatever is added and
\* deleted besides (sge_timer_main), as long as there is no shutdown.
EventsAreDelivered ==
  \A e \in OneTime : e \in listed ~> (e \notin listed \/ shutdown)

\* A thread that is cancelled ends.  It looks for the cancelation behind a
\* handler only, and it is the periodic events that bring it there
\* (sge_timer_terminate joins the thread).
ThreadEnds == cancelled ~> pc = "ended"
=============================================================================
