--------------------------- MODULE ResourceSchedule ---------------------------
(***************************************************************************)
(* Resource reservation in one run of the scheduler: the utilization of    *)
(* each resource over time is kept as a diagram, from which the scheduler  *)
(* takes when a job can be started (libs/sched/sge_resource_utilization.c, *)
(* sge_qeti.c, sge_select_queue.c, daemons/qmaster/sge_sched_thread.c).    *)
(*                                                                         *)
(* Slots of queues and of one parallel environment, and consumables of the *)
(* cluster of which a job needs one per slot.  Reservation is enabled:     *)
(* max_reservation > 0 and no job has the duration 0.                      *)
(*                                                                         *)
(* What is filtered and summed is told by positions and by functions of    *)
(* them, in the order of the loops of the code, so that it can be reasoned *)
(* about.                                                                  *)
(***************************************************************************)
EXTENDS Naturals, Sequences, FiniteSetsExt, SequencesExt

CONSTANTS
  Queues,        \* queue instances
  Globals,       \* consumables of the cluster, in the order they are looked at
  PE,            \* the parallel environment
  Total,         \* Total[r]: amount of each resource
  Requests,      \* categories of jobs: [parallel, slots, duration, needs]
  Starts,        \* when running jobs may have been started, up to Now
  Calendars,     \* calendars: sequences of at most two states [full, till], the
                 \* last one with till = 0: for ever
  Now,           \* time of this scheduler run
  Interval,      \* schedule_interval
  CalendarEnd,   \* LONG32_MAX, DISPATCH_TIME_QUEUE_END
  Infinity,      \* U_LONG32_MAX
  MaxReserve,    \* max_reservation
  NoSeek,        \* no start time of a parallel job is being sought
  Overlaps,      \* jobs may still run when the calendar closes their queue
  MaxRunning,    \* bound: jobs that run already
  MaxPending     \* bound: pending jobs

Resources == Queues \union ToSet(Globals) \union {PE}

ASSUME ResourcesAssumption ==
  /\ Globals \in Seq(ToSet(Globals))
  /\ PE \notin Queues \union ToSet(Globals) /\ Queues \intersect ToSet(Globals) = {}
  /\ \A r \in Resources : Total[r] \in Nat \ {0}
ASSUME RequestsAssumption ==
  \A req \in Requests :
    /\ req.needs \subseteq ToSet(Globals)
    /\ req.slots \in Nat \ {0} /\ (req.parallel \/ req.slots = 1)
    /\ req.duration \in 1 .. Infinity
ASSUME TimesAssumption ==
  /\ Now \in Nat \ {0} /\ Starts \subseteq 1 .. Now /\ Interval \in Nat \ {0}
  /\ Now + Interval < CalendarEnd /\ CalendarEnd < Infinity
  /\ CalendarEnd \in Nat /\ Infinity \in Nat

ASSUME CalendarsAssumption ==
  \A calendar \in Calendars :
    /\ calendar \in Seq([full : BOOLEAN, till : Nat]) /\ Len(calendar) <= 2
    /\ Len(calendar) > 0 => calendar[Len(calendar)].till = 0
    /\ Len(calendar) = 2 => Now < calendar[1].till /\ calendar[1].till < CalendarEnd

ASSUME OverlapsAssumption == Overlaps \in BOOLEAN

VARIABLES
  diagram,     \* RUE_utilized of each resource: steps [time, amount]
  planned,     \* what has been entered: how, start, end and the amounts
  closed,      \* the closed times of the queues that have been entered
  phase,       \* "running", then "dispatch"
  reserved,    \* nreservation
  rejected,    \* categories that are not started any more in this run
  noReserve,   \* categories that get no reservation any more
  offered,     \* queue_list: the queues that are looked at without reservation
  seek,        \* search for the start of a parallel job: request, time that is
               \* tried next, QETI_queue_end_next of the diagrams, and best start
  dispatched,  \* number of jobs dispatched
  last         \* what became of the last job

vars == <<diagram, planned, closed, phase, reserved, rejected, noReserve, offered,
          seek, dispatched, last>>

-----------------------------------------------------------------------------
(* Utilization diagrams.                                                     *)

EndTime(start, duration) ==
  IF start + duration < Infinity THEN start + duration ELSE Infinity

\* The first step that is not before the given time.
First(d, t) == Min({i \in DOMAIN d : d[i].time >= t} \union {Len(d) + 1})
Before(d, t) == SubSeq(d, 1, First(d, t) - 1)
From(d, t) == SubSeq(d, First(d, t), Len(d))
StepsAt(d, t) == From(d, t) # <<>> /\ Head(From(d, t)).time = t
LastAmount(d) == IF d = <<>> THEN 0 ELSE Last(d).amount

\* The utilization at one time.
At(d, t) ==
  IF StepsAt(d, t) THEN Head(From(d, t)).amount ELSE LastAmount(Before(d, t))

\* Steps that change nothing are removed.
Normalize(d) ==
  LET kept[i \in 0 .. Len(d)] ==
        IF i = 0 THEN <<>>
        ELSE IF d[i].amount = LastAmount(SubSeq(d, 1, i - 1)) THEN kept[i-1]
        ELSE Append(kept[i-1], d[i])
  IN  kept[Len(d)]

\* MUTANT of UtilizationAdd: the steps in between are not raised.
UtilizationAdd_NotBetween(d, start, end, amount) ==
  LET first == [time |-> start, amount |-> At(d, start) + amount]
      rest == IF StepsAt(d, start) THEN Tail(From(d, start)) ELSE From(d, start)
      after == From(rest, end)
      down == IF StepsAt(rest, end) THEN <<>>
              ELSE <<[time |-> end, amount |-> LastAmount(Before(d, end))]>>
  IN  Normalize(Before(d, start) \o <<first>> \o Before(rest, end) \o down \o after)

\* A step at the start, if there is none, all steps before the end raised, and
\* a step at the end.
UtilizationAdd(d, start, end, amount) ==
  LET first == [time |-> start, amount |-> At(d, start) + amount]
      rest == IF StepsAt(d, start) THEN Tail(From(d, start)) ELSE From(d, start)
      inside == [i \in 1 .. Len(Before(rest, end)) |->
                   [time |-> rest[i].time, amount |-> rest[i].amount + amount]]
      raised == <<first>> \o inside
      down == IF StepsAt(rest, end) THEN <<>>
              ELSE <<[time |-> end, amount |-> LastAmount(raised) - amount]>>
  IN  Normalize(Before(d, start) \o raised \o down \o From(rest, end))

\* MUTANT of QueueEnd: also jobs that never end are taken to end.
QueueEnd_AllEnd(d) == LastAmount(d)

\* The utilization when all jobs that end have ended.
QueueEnd(d) ==
  IF d # <<>> /\ Last(d).time = Infinity THEN LastAmount(Front(d)) ELSE LastAmount(d)

\* MUTANT of UtilizationMax: only the utilization at the start counts.
UtilizationMax_AtStart(d, start, duration) ==
  IF start = Infinity THEN QueueEnd(d) ELSE At(d, start)

UtilizationMax(d, start, duration) ==
  LET inside == {i \in DOMAIN d : /\ start < d[i].time
                                  /\ d[i].time < EndTime(start, duration)}
  IN  IF start = Infinity THEN QueueEnd(d)
      ELSE Max({At(d, start)} \union {d[i].amount : i \in inside})

\* The last time at which the utilization falls to the given amount, or now.
UtilizationBelow(d, amount) ==
  LET falls == {i \in 2 .. Len(d) : d[i].amount <= amount /\ d[i-1].amount > amount}
  IN  IF falls = {} THEN Now ELSE d[Max(falls)].time

\* A calendar closes a queue.
SetUtilization(d, from, till, amount) ==
  LET rest == From(d, from)
      hit == StepsAt(d, from)
      set == IF hit THEN [rest EXCEPT ![1].amount = amount] ELSE rest
      past == IF Before(set, till) # <<>> THEN LastAmount(Before(set, till))
                                          ELSE Head(set).amount
      beyond == From(set, till)
  IN  Before(d, from)
      \o (IF hit THEN <<>> ELSE <<[time |-> from, amount |-> amount]>>)
      \o (IF beyond = <<>> THEN <<[time |-> till, amount |-> 0]>>
          ELSE IF StepsAt(set, till) THEN <<>>
          ELSE <<[time |-> till, amount |-> past]>>)
      \o beyond

Till(state) == IF state.till = 0 THEN CalendarEnd ELSE state.till

Since(calendar, i) == IF i = 1 THEN Now ELSE calendar[i-1].till

\* The closed times of a queue are entered one after the other.
ClosedTimes(calendar) ==
  {[from |-> Since(calendar, i), till |-> Till(calendar[i])] :
     i \in {k \in DOMAIN calendar : calendar[k].full}}

AddCalendar(q, calendar) ==
  LET added[i \in 0 .. Len(calendar)] ==
        IF i = 0 THEN diagram[q]
        ELSE IF ~calendar[i].full THEN added[i-1]
        ELSE SetUtilization(added[i-1], Since(calendar, i), Till(calendar[i]), Total[q])
  IN  added[Len(calendar)]

-----------------------------------------------------------------------------
(* What a job asks for, and what the diagrams say.                           *)

\* What a job takes of each resource, with its slots in each queue.
Demand(req, slotsIn) ==
  [r \in Resources |-> IF r \in Queues THEN slotsIn[r]
                       ELSE IF r \in req.needs \/ (r = PE /\ req.parallel)
                            THEN req.slots ELSE 0]

Left(r, used) == IF used < Total[r] THEN Total[r] - used ELSE 0
FreeFrom(start, duration) ==
  [r \in Resources |-> Left(r, UtilizationMax(diagram[r], start, duration))]

FreeAtEnd == [r \in Resources |-> Left(r, QueueEnd(diagram[r]))]
SlotsIn(free) == MapThenSumSet(LAMBDA q : free[q], Queues)

\* How the slots may be spread over the queues.
Allocations(req, start) ==
  LET free == FreeFrom(start, req.duration)
  IN  {a \in [Queues -> 0 .. req.slots] :
         SlotsIn(a) = req.slots /\ \A q \in Queues : a[q] <= free[q]}

\* "ok", "later" (DISPATCH_NOT_AT_TIME) or "never" (DISPATCH_NEVER_CAT).
SerialVerdict(req) ==
  LET free == FreeFrom(Now, req.duration)
      verdict(r) == IF free[r] > 0 THEN "ok"
                    ELSE IF FreeAtEnd[r] > 0 THEN "later" ELSE "never"
      lacking == {i \in DOMAIN Globals :
                    Globals[i] \in req.needs /\ verdict(Globals[i]) # "ok"}
      ofQueues == {verdict(q) : q \in Queues}
  IN  IF lacking # {} THEN verdict(Globals[Min(lacking)])
      ELSE IF "ok" \in ofQueues THEN "ok"
      ELSE IF "later" \in ofQueues THEN "later" ELSE "never"

Levels == <<"pe", "global", "queues">>
Enough(level, req, free) ==
  CASE level = "pe"     -> free[PE] >= req.slots
    [] level = "global" -> \A g \in req.needs : free[g] >= req.slots
    [] level = "queues" -> SlotsIn(free) >= req.slots

\* The first level that lacks decides.
ParallelVerdict(req, start, reserving) ==
  LET free == FreeFrom(start, req.duration)
      lacking == {i \in DOMAIN Levels : ~Enough(Levels[i], req, free)}
      level == Levels[Min(lacking)]
  IN  IF lacking = {} THEN "ok"
      ELSE IF Enough(level, req, FreeAtEnd) /\ (reserving => level # "queues")
           THEN "later" ELSE "never"

Verdict(req) ==
  IF req.parallel THEN ParallelVerdict(req, Now, FALSE) ELSE SerialVerdict(req)

\* When a serial job can start in a queue: when the last of its resources has
\* fallen far enough.
SerialStart(req, q) ==
  Max({UtilizationBelow(diagram[r], Total[r] - 1) : r \in {q} \union req.needs})

-----------------------------------------------------------------------------
Init ==
  /\ diagram = [r \in Resources |-> <<>>] /\ planned = <<>> /\ closed = {}
  /\ phase = "running" /\ reserved = 0 /\ rejected = {} /\ noReserve = {}
  /\ offered = {} /\ seek = NoSeek /\ dispatched = 0 /\ last = "none"

\* add_job_utilization
Enter(how, req, start, end, slotsIn) ==
  LET demand == Demand(req, slotsIn)
  IN  /\ diagram' = [r \in Resources |->
                       IF demand[r] = 0 THEN diagram[r]
                       ELSE UtilizationAdd(diagram[r], start, end, demand[r])]
      /\ planned' = Append(planned, [how |-> how, start |-> start, end |-> end,
                                     demand |-> demand])

\* A running job is entered.  If it should have ended, it is taken to end with
\* the next scheduler run.
RunningEnd(start, duration) ==
  IF EndTime(start, duration) <= Now THEN Now + Interval ELSE EndTime(start, duration)

AddRunning(req, start, slotsIn) ==
  /\ phase = "running" /\ Len(planned) < MaxRunning
  /\ slotsIn \in Allocations(req, Now)
  /\ Verdict(req) = "ok"      \* the jobs that run now fit in
  /\ Enter("running", req, start, RunningEnd(start, req.duration), slotsIn)
  /\ UNCHANGED <<closed, phase, reserved, rejected, noReserve, offered, seek, dispatched,
                 last>>

SumOf(amounts) ==
  LET sum[i \in 0 .. Len(amounts)] == IF i = 0 THEN 0 ELSE sum[i-1] + amounts[i]
  IN  sum[Len(amounts)]

\* Queues with a free slot: jobs and the calendar say how many are used now.
WithSlots(plan, closedTimes) ==
  {q \in Queues :
     /\ ~ \E c \in closedTimes : c.queue = q /\ c.from = Now
     /\ Total[q] > SumOf([i \in DOMAIN plan |-> IF plan[i].how = "reserved" THEN 0
                                                ELSE plan[i].demand[q]])}

\* Then the calendars of the queues.
AddCalendars(calendarOf) ==
  /\ phase = "running"
  /\ \/ Overlaps
     \/ \A b \in ToSet(planned), q \in Queues :
          b.demand[q] > 0 => \A c \in ClosedTimes(calendarOf[q]) : b.end <= c.from
  /\ phase' = "dispatch"
  /\ diagram' = [r \in Resources |-> IF r \in Queues THEN AddCalendar(r, calendarOf[r])
                                                     ELSE diagram[r]]
  /\ closed' = UNION {{[queue |-> q, from |-> c.from, till |-> c.till] :
                         c \in ClosedTimes(calendarOf[q])} : q \in Queues}
  /\ offered' = WithSlots(planned, closed')
  /\ UNCHANGED <<planned, reserved, rejected, noReserve, seek, dispatched, last>>

-----------------------------------------------------------------------------
\* A job of the category is dispatched; it may have been submitted with -R y.
\* After the first job the run ends when no queue is left.
Idle ==
  /\ phase = "dispatch" /\ seek = NoSeek /\ dispatched < MaxPending
  /\ dispatched = 0 \/ offered # {}
MayStart(req) == req \notin rejected
MayReserve(req, wants) == wants /\ reserved < MaxReserve /\ req \notin noReserve

Decide(outcome, req, mayReserve) ==
  /\ dispatched' = dispatched + 1
  /\ last' = [outcome |-> outcome, req |-> req, mayReserve |-> mayReserve]
  /\ reserved' = IF outcome = "reserved" THEN reserved + 1 ELSE reserved
  /\ rejected' = IF outcome = "started" THEN rejected ELSE rejected \union {req}
  /\ noReserve' = IF outcome = "never" /\ mayReserve THEN noReserve \union {req}
                                                      ELSE noReserve
  /\ offered' = IF outcome # "never" THEN WithSlots(planned', closed)
                ELSE IF mayReserve THEN Queues ELSE offered

Start(req, wants, slotsIn) ==
  /\ Idle /\ MayStart(req) /\ Verdict(req) = "ok"
  /\ slotsIn \in Allocations(req, Now)
  /\ Enter("started", req, Now, EndTime(Now, req.duration), slotsIn)
  /\ Decide("started", req, MayReserve(req, wants))
  /\ UNCHANGED <<closed, phase, seek>>

Reserves(req, wants) ==
  Idle /\ MayReserve(req, wants) /\ (MayStart(req) => Verdict(req) = "later")

\* A queue in which the job can start first; none is taken for U_LONG32_MAX.
ReserveSerial(req, wants, q) ==
  LET start == SerialStart(req, q)
  IN  /\ ~req.parallel /\ Reserves(req, wants)
      /\ start < Infinity /\ \A other \in Queues : start <= SerialStart(req, other)
      /\ Enter("reserved", req, start, EndTime(start, req.duration),
               [x \in Queues |-> IF x = q THEN 1 ELSE 0])
      /\ Decide("reserved", req, TRUE)
      /\ UNCHANGED <<closed, phase, seek>>

Never(req, wants) ==
  /\ Idle
  /\ \/ ~MayStart(req) /\ ~MayReserve(req, wants)
     \/ MayStart(req) /\ Verdict(req) = "never"
     \/ MayStart(req) /\ Verdict(req) = "later" /\ ~MayReserve(req, wants)
     \/ /\ ~req.parallel /\ Reserves(req, wants)
        /\ \A q \in Queues : SerialStart(req, q) = Infinity
  /\ UNCHANGED <<diagram, planned, closed, phase, seek>>
  /\ Decide("never", req, MayReserve(req, wants))

\* The start of a parallel job is sought backwards, from step to step of the
\* diagrams of its slots and of what it requests.
LookedAt(req) == Queues \union {PE} \union req.needs
StepsBefore(req, t) == [r \in LookedAt(req) |-> Len(Before(diagram[r], t))]
LatestStep(next) ==
  Max({0} \union {diagram[r][next[r]].time : r \in {x \in DOMAIN next : next[x] > 0}})

SeekFirst(req, wants) ==
  LET t == LatestStep([r \in LookedAt(req) |-> Len(diagram[r])])
  IN  /\ req.parallel /\ Reserves(req, wants)
      /\ seek' = [req |-> req, time |-> IF t = 0 THEN Now ELSE t,
                  next |-> StepsBefore(req, t), best |-> 0]
      /\ UNCHANGED <<diagram, planned, closed, phase, reserved, rejected, noReserve,
                     offered, dispatched, last>>

Sought == ParallelVerdict(seek.req, seek.time, TRUE)

SeekEarlier ==
  /\ seek # NoSeek /\ Sought = "ok" /\ LatestStep(seek.next) # 0
  /\ seek' = [seek EXCEPT !.best = seek.time, !.time = LatestStep(seek.next),
                          !.next = StepsBefore(seek.req, LatestStep(seek.next))]
  /\ UNCHANGED <<diagram, planned, closed, phase, reserved, rejected, noReserve,
                 offered, dispatched, last>>

SeekReserve(slotsIn) ==
  /\ seek # NoSeek /\ (Sought = "ok" => LatestStep(seek.next) = 0)
  /\ LET best == IF Sought = "ok" THEN seek.time ELSE seek.best
     IN  /\ best # 0 /\ slotsIn \in Allocations(seek.req, best)
         /\ Enter("reserved", seek.req, best, EndTime(best, seek.req.duration), slotsIn)
  /\ Decide("reserved", seek.req, TRUE)
  /\ seek' = NoSeek
  /\ UNCHANGED <<closed, phase>>

\* Without any start the job still counts as one with a reservation if the
\* verdict is "later".
SeekNothing ==
  /\ seek # NoSeek /\ Sought # "ok" /\ seek.best = 0
  /\ UNCHANGED <<diagram, planned, closed, phase>>
  /\ Decide(IF Sought = "later" THEN "reserved" ELSE "never", seek.req, TRUE)
  /\ seek' = NoSeek

Next ==
  \/ \E req \in Requests, start \in Starts : \E a \in [Queues -> 0 .. req.slots] :
       AddRunning(req, start, a)
  \/ \E calendarOf \in [Queues -> Calendars] : AddCalendars(calendarOf)
  \/ \E req \in Requests, wants \in BOOLEAN :
       \/ \E a \in [Queues -> 0 .. req.slots] : Start(req, wants, a)
       \/ \E q \in Queues : ReserveSerial(req, wants, q)
       \/ Never(req, wants)
       \/ SeekFirst(req, wants)
  \/ SeekEarlier
  \/ seek # NoSeek /\ \E a \in [Queues -> 0 .. seek.req.slots] : SeekReserve(a)
  \/ SeekNothing

Spec == Init /\ [][Next]_vars

-----------------------------------------------------------------------------
Closed(r, t) == \E c \in closed : c.queue = r /\ c.from <= t /\ t < c.till
Planned(r, t) ==
  SumOf([i \in DOMAIN planned |-> IF planned[i].start <= t /\ t < planned[i].end
                                  THEN planned[i].demand[r] ELSE 0])
Taken(r, t) == IF Closed(r, t) THEN Total[r] ELSE Planned(r, t)

\* Now, and when something begins or ends later.
Times ==
  {t \in UNION ({{Now}} \union {{b.start, b.end} : b \in ToSet(planned)}
                         \union {{c.from, c.till} : c \in closed}) :
     Now <= t /\ t < Infinity}

\* A diagram tells at any time how much is taken: all of a queue that is closed,
\* otherwise what has been entered for that time (utilization_add,
\* set_utilization).
DiagramTellsWhatIsTaken ==
  \A r \in Resources, t \in Times : At(diagram[r], t) = Taken(r, t)

\* At no time more is given to running, started and reserved jobs together than
\* there is: a job that is started does not delay one with a reservation.  And
\* no job is started or reserved for a time that reaches into one in which its
\* queue is closed (select_assign_debit, add_calendar_to_schedule).
NotOverbooked ==
  \A r \in Resources, t \in Times :
    IF Closed(r, t)
    THEN \A b \in ToSet(planned) :
           b.how # "running" /\ b.start <= t /\ t < b.end => b.demand[r] = 0
    ELSE Planned(r, t) <= Total[r]

\* What is free of each resource for the whole time of a job.
FreeForAll(req, start) ==
  [r \in Resources |->
     Left(r, Max({Taken(r, t) : t \in {start} \union
               {x \in Times : start <= x /\ x < EndTime(start, req.duration)}}))]
Fits(req, start) ==
  LET free == FreeForAll(req, start)
  IN  /\ \A g \in req.needs : free[g] >= req.slots
      /\ SlotsIn(free) >= req.slots /\ (req.parallel => free[PE] >= req.slots)

\* From this time on the job can start: a serial one whenever it likes in the
\* same queue.
FitsFrom(req, start) ==
  LET later == {t \in Times : start <= t}
  IN  IF req.parallel THEN \A t \in later : Fits(req, t)
      ELSE \E q \in Queues : \A t \in later, r \in {q} \union req.needs :
             Taken(r, t) < Total[r]

\* A job that is to get a reservation gets it for the earliest time, not before
\* now, from which on the resources are sufficient, and gets none only if they
\* never are (ri_time_by_slots, parallel_reservation_max_time_slots,
\* DISPATCH_NEVER_CAT).
ReservedForTheEarliestTime ==
  [][dispatched' > dispatched /\ last'.mayReserve /\ last'.outcome # "started" =>
       LET fitting == {t \in Times : FitsFrom(last'.req, t)}
           start == Last(planned').start
       IN  IF last'.outcome = "never" THEN fitting = {}
           ELSE /\ planned' # planned
                /\ start \in fitting /\ \A t \in fitting : start <= t]_vars
=============================================================================
