-------------------------- MODULE TimedEventsProofs --------------------------
(***************************************************************************)
(* TimedEvents never sleeps past an event and implements Alarms, for any   *)
(* events, intervals and delays and any number of times the clock is set   *)
(* back.                                                                   *)
(***************************************************************************)
EXTENDS TimedEvents, TLAPS

\* What has passed on the clock since the thread looked at it, if it has been
\* set back behind that: the amount by which te_check_time moves all times.
Behind == IF last > 0 THEN last ELSE 0

\* A recurring event is in the list unless its handler runs.
RecurringStays == \A r \in Recurring : r \in listed \/ (pc = "handler" /\ te = r)

\* The copy the thread waits with is that of an element of the list, unless
\* something has been deleted, and next is a bound of the times in the list.
CopyOK ==
  /\ pc \in InWait /\ ~delete => te \in listed /\ teWhen = when[te]
  /\ pc \in InWait => \A e \in listed : next <= when[e]
  /\ pc = "waiting" => next = teWhen
  /\ pc = "handler" => te \in Events

\* What still has to pass before an event may be delivered is no more than its
\* time on the clock says, once that has been adjusted.
DueOK ==
  /\ \A e \in listed : due[e] = 0 \/ due[e] <= when[e] - Behind
  /\ pc = "timedout" /\ ~delete => due[te] = 0

\* The inductive invariant.
IInv == TypeOK /\ RecurringStays /\ CopyOK /\ DueOK

AlarmStep == [Alarm!Next]_(Alarm!vars)

USE RecurringAssumption, IntervalAssumption, SelectionsAssumption,
    NothingAssumption, DelaysAssumption, StepsAssumption, BoundsAssumption

\* Initially (te_init, sge_timer_start_periodic_tasks).
LEMMA InitOK == Init => IInv /\ Alarm!Init
<1> SUFFICES ASSUME Init PROVE IInv /\ Alarm!Init
  OBVIOUS
<1>1. TypeOK
  <2>1. \A e \in Recurring : Interval[e] \in Nat
    OBVIOUS
  <2>2. when \in [Events -> Nat] /\ due \in [Events -> Nat]
    BY <2>1 DEF Init
  <2>3. when \in [Events -> Int]
    BY <2>2
  <2>4. delete \in BOOLEAN /\ shutdown \in BOOLEAN /\ cancelled \in BOOLEAN
    BY DEF Init
  <2>5. next \in Int /\ last \in Int /\ setBacks \in 0 .. MaxSetBacks
    BY <2>1 DEF Init
  <2> QED BY <2>2, <2>3, <2>4, <2>5 DEF Init, TypeOK, Places, InWait
<1>2. RecurringStays
  BY DEF Init, RecurringStays
<1>3. CopyOK /\ DueOK
  BY DEF Init, CopyOK, DueOK, InWait, Behind
<1>4. Alarm!Init
  BY DEF Init, Alarm!Init
<1> QED BY <1>1, <1>2, <1>3, <1>4 DEF IInv

\* te_add_event by another thread: the thread is signaled if the event is
\* earlier than the one it waits for.
LEMMA AddStep ==
  ASSUME IInv, NEW e \in OneTime, NEW w \in Delays, Add(e, w)
  PROVE  IInv' /\ AlarmStep
<1> e \in Events /\ w \in Nat /\ e \notin Recurring
  BY DEF OneTime
<1> USE DEF IInv
<1>1. TypeOK'
  BY DEF Add, AddEvent, Earlier, Signaled, TypeOK, Places, InWait
<1>2. RecurringStays'
  BY DEF Add, AddEvent, Signaled, RecurringStays, TypeOK
<1>3. CopyOK'
  BY DEF Add, AddEvent, Earlier, Signaled, CopyOK, TypeOK, InWait
<1>4. DueOK'
  BY DEF Add, AddEvent, Signaled, DueOK, CopyOK, TypeOK, Behind, InWait
<1>5. Alarm!Set(e, w)
  BY DEF Add, AddEvent, Signaled, Alarm!Set, Alarm!SetAlarm, TypeOK
<1> QED BY <1>1, <1>2, <1>3, <1>4, <1>5 DEF AlarmStep, Alarm!Next, OneTime

\* te_delete_one_time_event: the flag tells the thread that its copy is stale.
LEMMA DeleteStep ==
  ASSUME IInv, NEW S \in Selections, Delete(S)
  PROVE  IInv' /\ AlarmStep
<1> USE DEF IInv
<1> Deletable(S) \subseteq listed /\ Deletable(S) \intersect Recurring = {}
  BY DEF Deletable
<1>1. TypeOK'
  BY DEF Delete, Flagged, Signaled, TypeOK, Places, InWait
<1>2. RecurringStays'
  BY DEF Delete, Signaled, RecurringStays, TypeOK
<1>3. CopyOK'
  BY DEF Delete, Flagged, Signaled, CopyOK, TypeOK, InWait
<1>4. DueOK'
  BY DEF Delete, Flagged, Signaled, DueOK, CopyOK, TypeOK, Behind, InWait
<1>5. Alarm!Cancel(S)
  BY DEF Delete, Deletable, Signaled, Alarm!Cancel, TypeOK
<1> QED BY <1>1, <1>2, <1>3, <1>4, <1>5 DEF AlarmStep, Alarm!Next

\* The thread looks at the list: an event is due on the adjusted clock only if
\* its time has really passed.
LEMMA ExamineStep ==
  ASSUME IInv, Examine
  PROVE  IInv' /\ AlarmStep
<1> USE DEF IInv
<1>1. /\ pc = "top" /\ last' = 0
      /\ when' = [f \in Events |-> Adjusted(f)]
      /\ UNCHANGED <<shutdown, cancelled, setBacks, due>>
  BY DEF Examine
<1>2. /\ when' \in [Events -> Int]
      /\ \A f \in listed : when'[f] = when[f] - Behind
  BY <1>1 DEF Adjusted, Behind, TypeOK
<1>3. PICK e \in Firsts(when') :
        \/ /\ when'[e] > 0
           /\ next' = when'[e] /\ teWhen' = when'[e] /\ te' = e
           /\ delete' = FALSE
           /\ pc' = "waiting"
           /\ UNCHANGED listed
        \/ /\ when'[e] <= 0
           /\ next' = 0 /\ teWhen' = when'[e]
           /\ Dechain(e)
           /\ UNCHANGED delete
  BY DEF Examine
<1>4. e \in listed /\ e \in Events /\ \A f \in listed : when'[e] <= when'[f]
  BY DEF Firsts, TypeOK
<1>5. CASE when'[e] > 0
  <2>1. /\ next' = when'[e] /\ teWhen' = when'[e] /\ te' = e
        /\ delete' = FALSE /\ pc' = "waiting" /\ UNCHANGED listed
    BY <1>2, <1>3, <1>4, <1>5
  <2>2. TypeOK'
    <3>1. when'[e] \in Int /\ e # Nothing /\ teWhen' \in Int /\ next' <= teWhen'
      BY <1>2, <1>4, <2>1
    <3>2. delete' \in BOOLEAN /\ shutdown' \in BOOLEAN /\ cancelled' \in BOOLEAN
      BY <1>1, <2>1 DEF TypeOK
    <3>3. pc' \in Places /\ te' \in Events /\ te' # Nothing
      BY <1>4, <2>1, <3>1 DEF Places
    <3>4. last' \in Int /\ next' \in Int
      BY <1>1, <2>1, <3>1
    <3> QED BY <1>1, <1>2, <2>1, <3>1, <3>2, <3>3, <3>4 DEF TypeOK
  <2>3. RecurringStays'
    BY <1>1, <2>1 DEF RecurringStays
  <2>4. CopyOK'
    BY <1>2, <1>4, <2>1 DEF CopyOK, TypeOK, InWait
  <2>5. DueOK'
    BY <1>1, <1>2, <2>1 DEF DueOK, TypeOK, Behind
  <2>6. UNCHANGED Alarm!vars
    BY <1>1, <2>1 DEF Alarm!vars
  <2> QED BY <2>2, <2>3, <2>4, <2>5, <2>6 DEF AlarmStep
<1>6. CASE ~(when'[e] > 0)
  <2>1. /\ when'[e] <= 0 /\ next' = 0 /\ teWhen' = when'[e]
        /\ listed' = listed \ {e} /\ pc' = "handler" /\ te' = e
        /\ UNCHANGED delete
    BY <1>2, <1>3, <1>4, <1>6 DEF Dechain
  <2>2. TypeOK'
    BY <1>1, <1>2, <1>4, <2>1 DEF TypeOK, Places, InWait
  <2>3. RecurringStays'
    BY <1>1, <2>1 DEF RecurringStays
  <2>4. CopyOK'
    BY <1>4, <2>1 DEF CopyOK, InWait
  <2>5. DueOK'
    BY <1>1, <1>2, <2>1 DEF DueOK, TypeOK, Behind
  <2>6. due[e] = 0
    BY <1>2, <1>4, <2>1 DEF DueOK, TypeOK, Behind
  <2>7. Alarm!Begin(e)
    BY <1>1, <1>4, <2>1, <2>6 DEF Alarm!Begin
  <2> QED BY <1>4, <2>2, <2>3, <2>4, <2>5, <2>7 DEF AlarmStep, Alarm!Next
<1> QED BY <1>5, <1>6

\* The ways out of pthread_cond_timedwait.
LEMMA WaitStep ==
  ASSUME IInv, TimesOut \/ SpuriousWakeup \/ WaitAgain
  PROVE  IInv' /\ AlarmStep
<1> USE DEF IInv
<1>1. /\ pc \in InWait /\ pc' \in InWait
      /\ pc' = "waiting" => next = teWhen
      /\ pc' = "timedout" => teWhen <= 0
      /\ UNCHANGED <<listed, delete, te, shutdown, cancelled, clockVars>>
  BY DEF TimesOut, SpuriousWakeup, WaitAgain, InWait
<1>2. UNCHANGED <<listed, delete, te, shutdown, cancelled, when, next, last,
                  teWhen, setBacks, due>>
  BY <1>1 DEF clockVars
<1>3. TypeOK'
  BY <1>1, <1>2 DEF TypeOK, Places, InWait
<1>4. RecurringStays'
  BY <1>1, <1>2 DEF RecurringStays, InWait
<1>5. CopyOK'
  BY <1>1, <1>2 DEF CopyOK, InWait
<1>6. DueOK'
  BY <1>1, <1>2 DEF DueOK, CopyOK, TypeOK, Behind, InWait
<1>7. UNCHANGED Alarm!vars
  BY <1>1, <1>2 DEF Alarm!vars, InWait
<1> QED BY <1>3, <1>4, <1>5, <1>6, <1>7 DEF AlarmStep

\* Behind te_wait_next: the event is taken off the list only if the wait timed
\* out and nothing happened to the list meanwhile.
LEMMA LeaveWaitStep ==
  ASSUME IInv, LeaveWait
  PROVE  IInv' /\ AlarmStep
<1> USE DEF IInv
<1>1. /\ pc \in {"timedout", "woken"}
      /\ pc = "woken" => next # teWhen
      /\ UNCHANGED <<delete, shutdown, cancelled, when, next, last, teWhen,
                     setBacks, due>>
  BY DEF LeaveWait, clockVars
<1>2. CASE next < teWhen \/ delete
  <2>1. pc' = "top" /\ UNCHANGED <<listed, te>>
    BY <1>2 DEF LeaveWait
  <2>2. IInv'
    BY <1>1, <2>1 DEF TypeOK, RecurringStays, CopyOK, DueOK, Behind, Places, InWait
  <2>3. UNCHANGED Alarm!vars
    BY <1>1, <2>1 DEF Alarm!vars
  <2> QED BY <2>2, <2>3 DEF AlarmStep
<1>3. CASE ~(next < teWhen \/ delete)
  <2>1. listed' = listed \ {te} /\ pc' = "handler" /\ te' = te
    BY <1>3 DEF LeaveWait, Dechain
  <2>2. next <= teWhen /\ next \in Int /\ teWhen \in Int
    BY <1>1 DEF TypeOK, InWait
  <2>3. pc = "timedout" /\ ~delete
    BY <1>1, <1>3, <2>2
  <2>4. te \in listed /\ te \in Events /\ due[te] = 0
    BY <2>3 DEF CopyOK, DueOK, TypeOK, InWait
  <2>5. IInv'
    BY <1>1, <2>1, <2>4 DEF TypeOK, RecurringStays, CopyOK, DueOK, Behind, Places, InWait
  <2>6. Alarm!Begin(te)
    BY <1>1, <2>1, <2>3, <2>4 DEF Alarm!Begin
  <2> QED BY <2>4, <2>5, <2>6 DEF AlarmStep, Alarm!Next
<1> QED BY <1>2, <1>3

\* te_scan_table_and_deliver after the handler.
LEMMA HandlerStep ==
  ASSUME IInv, HandlerReturns
  PROVE  IInv' /\ AlarmStep
<1> USE DEF IInv
<1>1. /\ pc = "handler" /\ pc' = "held" /\ te' = Nothing /\ teWhen' = 0
      /\ UNCHANGED <<delete, last, shutdown, cancelled, setBacks>>
  BY DEF HandlerReturns
<1>2. te \in Events /\ te # Nothing
  BY <1>1 DEF CopyOK
<1>3. CASE te \in Recurring
  <2>1. AddEvent(te, Interval[te]) /\ Interval[te] \in Nat
    BY <1>3 DEF HandlerReturns, Again
  <2>2. TypeOK'
    BY <1>1, <1>2, <2>1 DEF AddEvent, Earlier, TypeOK, Places, InWait
  <2>3. RecurringStays'
    BY <1>1, <2>1 DEF AddEvent, RecurringStays
  <2>4. CopyOK'
    BY <1>1 DEF CopyOK, InWait
  <2>5. DueOK'
    BY <1>1, <1>2, <2>1 DEF AddEvent, DueOK, TypeOK, Behind
  <2>6. Alarm!End
    BY <1>1, <1>2, <1>3, <2>1 DEF AddEvent, Alarm!End, Alarm!SetAlarm
  <2> QED BY <2>2, <2>3, <2>4, <2>5, <2>6 DEF AlarmStep, Alarm!Next
<1>4. CASE te \notin Recurring
  <2>1. UNCHANGED <<listed, when, next, due>>
    BY <1>4 DEF HandlerReturns
  <2>2. IInv'
    BY <1>1, <1>4, <2>1 DEF TypeOK, RecurringStays, CopyOK, DueOK, Behind, Places, InWait
  <2>3. Alarm!End
    BY <1>1, <1>2, <1>4, <2>1 DEF Alarm!End
  <2> QED BY <2>2, <2>3 DEF AlarmStep, Alarm!Next
<1> QED BY <1>3, <1>4

\* The steps of the shutdown.
LEMMA HoldStep ==
  ASSUME IInv, PassHold \/ StartShutdown \/ Terminate \/ Ended
  PROVE  IInv' /\ AlarmStep
<1> USE DEF IInv
<1>1. /\ UNCHANGED <<listed, delete, te, when, next, last, teWhen, setBacks, due>>
      /\ shutdown' \in BOOLEAN /\ cancelled' \in BOOLEAN
      /\ pc' = pc \/ (pc = "held" /\ pc' \in {"top", "ended"})
  BY DEF PassHold, StartShutdown, Terminate, Ended, vars, clockVars, TypeOK
<1>2. TypeOK' /\ RecurringStays'
  BY <1>1 DEF TypeOK, RecurringStays, Places, InWait
<1>3. CopyOK' /\ DueOK'
  BY <1>1 DEF CopyOK, DueOK, Behind, InWait
<1>4. UNCHANGED Alarm!vars
  BY <1>1 DEF Alarm!vars
<1> QED BY <1>2, <1>3, <1>4 DEF AlarmStep

\* A second passes, for the clock and in truth.
LEMMA TickStep ==
  ASSUME IInv, Tick
  PROVE  IInv' /\ AlarmStep
<1> USE DEF IInv
<1>1. /\ \A e \in listed : when[e] > -MaxLate
      /\ pc \in InWait => teWhen > -MaxLate
      /\ when' = [e \in Events |-> IF e \in listed THEN when[e] - 1 ELSE when[e]]
      /\ next' = Later(next) /\ last' = Later(last)
      /\ teWhen' = IF pc \in InWait THEN teWhen - 1 ELSE teWhen
      /\ due' = [e \in Events |-> IF due[e] > 0 THEN due[e] - 1 ELSE 0]
      /\ UNCHANGED <<listed, delete, pc, te, shutdown, cancelled, setBacks>>
  BY DEF Tick
<1>2. next \in Int /\ last \in Int /\ teWhen \in Int /\ listed \subseteq Events
  BY DEF TypeOK
<1>3. /\ next' \in Int /\ last' \in Int
      /\ next - 1 <= next'
      /\ next' = next - 1 \/ next' = -Horizon
      /\ last' = last - 1 \/ (last <= 0 /\ last' <= 0)
  BY <1>1, <1>2 DEF Later
<1>4. /\ when' \in [Events -> Int] /\ due' \in [Events -> Nat]
      /\ \A e \in listed : when[e] \in Int /\ when'[e] = when[e] - 1
      /\ \A e \in Events : due[e] \in Nat
                           /\ (due'[e] = due[e] - 1 \/ (due[e] = 0 /\ due'[e] = 0))
  BY <1>1, <1>2 DEF TypeOK
<1>5. pc \in InWait => next' <= teWhen' /\ (next = teWhen => next' = teWhen')
  <2> SUFFICES ASSUME pc \in InWait
               PROVE  next' <= teWhen' /\ (next = teWhen => next' = teWhen')
    OBVIOUS
  <2>1. next <= teWhen /\ teWhen > -MaxLate /\ teWhen' = teWhen - 1
    BY <1>1 DEF TypeOK
  <2>2. CASE next' = next - 1
    BY <1>2, <2>1, <2>2
  <2>3. CASE next' = -Horizon
    BY <1>2, <1>3, <2>1, <2>3
  <2> QED BY <1>3, <2>2, <2>3
<1>6. TypeOK'
  <2>1. teWhen' \in Int
    BY <1>1, <1>2
  <2> QED BY <1>1, <1>3, <1>4, <1>5, <2>1 DEF TypeOK
<1>7. RecurringStays'
  BY <1>1 DEF RecurringStays
<1>8. CopyOK'
  <2>1. pc \in InWait => \A e \in listed : next' <= when'[e]
    <3> SUFFICES ASSUME pc \in InWait, NEW e \in listed PROVE next' <= when'[e]
      OBVIOUS
    <3>1. next <= when[e] /\ when[e] > -MaxLate /\ when'[e] = when[e] - 1
          /\ when[e] \in Int
      BY <1>1, <1>4 DEF CopyOK
    <3> QED BY <1>2, <1>3, <3>1
  <2>2. pc \in InWait /\ ~delete => te \in listed /\ teWhen' = when'[te]
    BY <1>1, <1>4 DEF CopyOK
  <2>3. pc = "waiting" => next' = teWhen'
    BY <1>5 DEF CopyOK, InWait
  <2> QED BY <1>1, <2>1, <2>2, <2>3 DEF CopyOK
<1>9. DueOK'
  <2>1. ASSUME NEW e \in listed PROVE due'[e] = 0 \/ due'[e] <= when'[e] - Behind'
    <3>1. due[e] = 0 \/ due[e] <= when[e] - Behind
      BY DEF DueOK
    <3>2. Behind' = Behind - 1 \/ (Behind = 0 /\ Behind' = 0)
      BY <1>2, <1>3 DEF Behind
    <3>3. Behind \in Int
      BY <1>2 DEF Behind
    <3> QED BY <1>2, <1>4, <3>1, <3>2, <3>3
  <2>2. pc = "timedout" /\ ~delete => due'[te] = 0
    <3> SUFFICES ASSUME pc = "timedout", ~delete PROVE due'[te] = 0
      OBVIOUS
    <3>1. te \in Events /\ due[te] = 0
      BY <1>2 DEF CopyOK, DueOK, InWait
    <3> QED BY <1>4, <3>1
  <2> QED BY <1>1, <2>1, <2>2 DEF DueOK
<1>10. Alarm!Pass
  BY <1>1 DEF Alarm!Pass
<1> QED BY <1>6, <1>7, <1>8, <1>9, <1>10 DEF AlarmStep, Alarm!Next

\* The clock is set back, and the times in the list lie further ahead.
LEMMA SetBackStep ==
  ASSUME IInv, NEW d \in Steps, SetBack(d)
  PROVE  IInv' /\ AlarmStep
<1> USE DEF IInv
<1>1. d \in Nat /\ d > 0
  OBVIOUS
<1>2. /\ setBacks < MaxSetBacks /\ setBacks' = setBacks + 1
      /\ when' = [e \in Events |-> IF e \in listed THEN when[e] + d ELSE when[e]]
      /\ next' = next + d /\ last' = last + d
      /\ teWhen' = IF pc \in InWait THEN teWhen + d ELSE teWhen
      /\ UNCHANGED <<listed, delete, pc, te, shutdown, cancelled, due>>
  BY DEF SetBack
<1>3. next \in Int /\ last \in Int /\ teWhen \in Int /\ listed \subseteq Events
  BY DEF TypeOK
<1>4. /\ when' \in [Events -> Int]
      /\ \A e \in listed : when[e] \in Int /\ when'[e] = when[e] + d
      /\ \A e \in Events : due[e] \in Nat
  BY <1>1, <1>2, <1>3 DEF TypeOK
<1>5. TypeOK'
  <2>1. setBacks' \in 0 .. MaxSetBacks
    BY <1>2 DEF TypeOK
  <2>2. next' \in Int /\ last' \in Int /\ teWhen' \in Int
        /\ (pc \in InWait => next' <= teWhen')
    BY <1>1, <1>2, <1>3 DEF TypeOK
  <2> QED BY <1>2, <1>4, <2>1, <2>2 DEF TypeOK
<1>6. RecurringStays'
  BY <1>2 DEF RecurringStays
<1>7. CopyOK'
  BY <1>1, <1>2, <1>3, <1>4 DEF CopyOK, InWait
<1>8. DueOK'
  <2>1. ASSUME NEW e \in listed PROVE due'[e] = 0 \/ due'[e] <= when'[e] - Behind'
    <3>1. due[e] = 0 \/ due[e] <= when[e] - Behind
      BY DEF DueOK
    <3>2. Behind' \in Int /\ Behind \in Int /\ Behind' <= Behind + d
      BY <1>1, <1>2, <1>3 DEF Behind
    <3> QED BY <1>1, <1>2, <1>3, <1>4, <3>1, <3>2
  <2> QED BY <1>2, <2>1 DEF DueOK
<1>9. UNCHANGED Alarm!vars
  BY <1>2 DEF Alarm!vars
<1> QED BY <1>5, <1>6, <1>7, <1>8, <1>9 DEF AlarmStep

\* Every step of the specification.
LEMMA EveryStep == IInv /\ [Next]_vars => IInv' /\ AlarmStep
<1> SUFFICES ASSUME IInv, [Next]_vars PROVE IInv' /\ AlarmStep
  OBVIOUS
<1>1. CASE \E e \in OneTime, w \in Delays : Add(e, w)
  BY <1>1, AddStep
<1>2. CASE \E S \in Selections : Delete(S)
  BY <1>2, DeleteStep
<1>3. CASE TimerThread
  BY <1>3, ExamineStep, WaitStep, LeaveWaitStep, HandlerStep, HoldStep DEF TimerThread
<1>4. CASE SpuriousWakeup
  BY <1>4, WaitStep
<1>5. CASE StartShutdown \/ Terminate \/ Ended
  BY <1>5, HoldStep
<1>6. CASE Tick
  BY <1>6, TickStep
<1>7. CASE \E d \in Steps : SetBack(d)
  BY <1>7, SetBackStep
<1>8. CASE UNCHANGED vars
  <2>1. IInv'
    BY <1>8 DEF vars, clockVars, IInv, TypeOK, RecurringStays, CopyOK, DueOK, Behind
  <2>2. UNCHANGED Alarm!vars
    BY <1>8 DEF vars, clockVars, Alarm!vars
  <2> QED BY <2>1, <2>2 DEF AlarmStep
<1> QED BY <1>1, <1>2, <1>3, <1>4, <1>5, <1>6, <1>7, <1>8 DEF Next

\* The types, and that next is never behind the event the thread waits for.
THEOREM TypeCorrect == Spec => []TypeOK
<1>1. Init => IInv
  BY InitOK
<1>2. IInv /\ [Next]_vars => IInv'
  BY EveryStep
<1>3. IInv => TypeOK
  BY DEF IInv
<1> QED BY <1>1, <1>2, <1>3, PTL DEF Spec

\* The timer thread never sleeps past the time of an event in the list
\* (te_add_event, te_wait_next), and never finds the list empty.
THEOREM NoOversleeping == Spec => []NeverOversleeps
<1>1. Init => IInv
  BY InitOK
<1>2. IInv /\ [Next]_vars => IInv'
  BY EveryStep
<1>3. IInv => NeverOversleeps
  <2> SUFFICES ASSUME IInv PROVE NeverOversleeps
    OBVIOUS
  <2>1. pc = "waiting" => \A e \in listed : teWhen <= when[e]
    BY DEF IInv, CopyOK, InWait
  <2>2. pc = "top" => listed # {}
    BY DEF IInv, RecurringStays
  <2> QED BY <2>1, <2>2 DEF NeverOversleeps
<1> QED BY <1>1, <1>2, <1>3, PTL DEF Spec

\* Every behaviour of the timer thread and its callers is one of Alarms: an
\* event is delivered once, not after it has been deleted and not before its
\* time has really passed.
THEOREM TimedEventsImplementAlarms == Spec => ImplementsAlarms
<1>1. Init => IInv /\ Alarm!Init
  BY InitOK
<1>2. IInv /\ [Next]_vars => IInv' /\ AlarmStep
  BY EveryStep
<1> QED BY <1>1, <1>2, PTL DEF Spec, ImplementsAlarms, Alarm!Spec, AlarmStep
=============================================================================
