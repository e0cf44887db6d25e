-------------------------- MODULE JobDeliveryProofs --------------------------
(***************************************************************************)
(* Proofs about JobDelivery for any number of jobs, hosts, slots, runs and *)
(* messages and for any trouble.  What the qmaster promises follows from   *)
(* what its handlers do to the tasks, the slots and the accounting, so     *)
(* CoreInv says nothing of messages and daemons: whatever a report, an     *)
(* acknowledgement or a list of the daemon holds, the steps are allowed.   *)
(* The second part shows that lists, messages and processes keep their     *)
(* types.  The third is about what the daemons do as long as nothing       *)
(* disturbs the exchange: an instance is not lost and runs once.           *)
(***************************************************************************)
EXTENDS JobDelivery, FiniteSetTheorems, TLAPS

AtHost(h) == {j \in Jobs : task[j].status \in Busy /\ task[j].host = h}

CoreType ==
  /\ task \in [Jobs -> Tasks]
  /\ used \in [Hosts -> Int]
  /\ acct \in [Jobs -> Seq(Runs)]

\* A task has a granted host exactly while it is in transfer or running.
PlacedIffBusy == \A j \in Jobs : task[j].host # None <=> task[j].status \in Busy

\* What DeletedStaysDeleted needs of the state before the step.
DeletedIsNotIdle == \A j \in Jobs : task[j].deleted => task[j].status # "JIDLE"

CoreInv ==
  /\ CoreType
  /\ PlacedIffBusy
  /\ DeletedIsNotIdle
  /\ TransferHasTimer
  /\ SlotsMatch

Core == <<task, used, acct>>

\* A step of TaskLife or none.
LifeStep == [Life!Next]_(Life!vars)

-----------------------------------------------------------------------------
(* Counting tasks and slots                                                 *)

\* The tasks of a host are finitely many.
LEMMA AtHostFinite ==
  ASSUME NEW h
  PROVE  IsFiniteSet(AtHost(h)) /\ Cardinality(AtHost(h)) \in Nat
<1>1. AtHost(h) \subseteq Jobs
  BY DEF AtHost
<1> QED
  BY <1>1, JobsAssumption, FS_Subset, FS_CardinalityType

\* The tasks that TaskLife has at a host are those of AtHost.
LEMMA LifeAtHost ==
  ASSUME NEW h
  PROVE  /\ Life!GrantedAt(h) = AtHost(h)
         /\ Life!Granted = {j \in Jobs : task[j].status \in Busy}
BY DEF Life!GrantedAt, Life!Granted, AtHost, Busy, Phase

\* TaskLife counts as JobDelivery does.
LEMMA LifeCounts ==
  /\ Life!IsFiniteSet(Jobs)
  /\ \A S : Life!Cardinality(S) = Cardinality(S)
<1>1. Life!IsFiniteSet(Jobs) <=> IsFiniteSet(Jobs)
  BY DEF Life!IsFiniteSet, IsFiniteSet
<1>2. ASSUME NEW S PROVE Life!Cardinality(S) = Cardinality(S)
  BY DEF Life!Cardinality, Cardinality
<1> QED
  BY <1>1, <1>2, JobsAssumption

\* Crediting the slots of granted tasks that leave their hosts.
LEMMA CreditSlots ==
  ASSUME CoreType, SlotsMatch,
         NEW js \in SUBSET Jobs,
         \A j \in js : task[j].status \in Busy,
         used' = Credited(js),
         \A h \in Hosts : AtHost(h)' = AtHost(h) \ js
  PROVE  used' \in [Hosts -> Int] /\ SlotsMatch'
<1>1. ASSUME NEW h \in Hosts
      PROVE  used'[h] \in Int /\ used'[h] = Cardinality(AtHost(h)')
  <2> DEFINE out == {j \in js : task[j].host = h}
  <2>1. out = AtHost(h) \cap js
    BY DEF AtHost
  <2>2. used'[h] = used[h] - Cardinality(out)
    BY DEF Credited
  <2>3. used[h] = Cardinality(AtHost(h))
    BY DEF SlotsMatch, AtHost
  <2> HIDE DEF out
  <2>4. /\ IsFiniteSet(AtHost(h)) /\ Cardinality(AtHost(h)) \in Nat
        /\ IsFiniteSet(out) /\ Cardinality(out) \in Nat
    BY <2>1, AtHostFinite, FS_Subset, FS_CardinalityType
  <2>5. Cardinality(AtHost(h)') = Cardinality(AtHost(h)) - Cardinality(out)
    BY <2>1, <2>4, FS_Difference
  <2> QED
    BY <2>2, <2>3, <2>4, <2>5
<1>2. used' \in [Hosts -> Int]
  BY <1>1 DEF Credited
<1>3. SlotsMatch'
  BY <1>1 DEF SlotsMatch, AtHost
<1> QED
  BY <1>2, <1>3

\* Tasks that stay where they are keep their slots.
LEMMA KeepSlots ==
  ASSUME SlotsMatch, used' = used,
         \A h \in Hosts : AtHost(h)' = AtHost(h)
  PROVE  SlotsMatch'
BY DEF SlotsMatch, AtHost

-----------------------------------------------------------------------------
(* Steps that leave grants alone                                            *)

\* Steps of daemons and connections, and those of the qmaster that touch no task.
LEMMA ElsewhereStep ==
  ASSUME CoreInv, UNCHANGED Core
  PROVE  CoreInv' /\ LifeStep
<1>1. CoreInv'
  BY DEF Core, CoreInv, CoreType, PlacedIffBusy, DeletedIsNotIdle,
         TransferHasTimer, SlotsMatch
<1>2. LifeStep
  BY DEF Core, LifeStep, Life!vars
<1> QED
  BY <1>1, <1>2

\* Steps that change no more than timers and JDEFERRED_REQ.
LEMMA TimerStep ==
  ASSUME CoreInv, task' \in [Jobs -> Tasks], UNCHANGED <<used, acct>>,
         \A j \in Jobs : /\ task'[j].status = task[j].status
                         /\ task'[j].host = task[j].host
                         /\ task'[j].run = task[j].run
                         /\ task'[j].deleted = task[j].deleted
                         /\ task'[j].resend = task[j].resend
  PROVE  CoreInv' /\ LifeStep
<1>1. CoreType' /\ PlacedIffBusy' /\ DeletedIsNotIdle' /\ TransferHasTimer'
  BY DEF CoreInv, CoreType, PlacedIffBusy, DeletedIsNotIdle, TransferHasTimer
<1>2. \A h \in Hosts : AtHost(h)' = AtHost(h)
  BY DEF AtHost
<1>3. SlotsMatch'
  BY <1>2, KeepSlots DEF CoreInv
<1>4. LifeStep
  BY DEF LifeStep, Life!vars
<1> QED
  BY <1>1, <1>3, <1>4 DEF CoreInv

\* DispatchFails: COMMIT_ST_DELIVERY_FAILED leaves the task pending.
LEMMA DispatchFailsStep ==
  ASSUME CoreInv, NEW j \in Jobs, NEW h \in Hosts, DispatchFails(j, h)
  PROVE  CoreInv' /\ LifeStep
<1>1. task \in [Jobs -> Tasks]
  BY DEF CoreInv, CoreType
<1>2. task' = [task EXCEPT ![j].deferred = FALSE] /\ UNCHANGED <<used, acct>>
  BY DEF DispatchFails
<1>3. task' \in [Jobs -> Tasks]
  BY <1>1, <1>2 DEF Tasks
<1> QED
  BY <1>1, <1>2, <1>3, TimerStep DEF Tasks

\* JobResend: the timer is armed again exactly for a task in transfer.
LEMMA JobResendStep ==
  ASSUME CoreInv, NEW j \in Jobs, JobResend(j)
  PROVE  CoreInv' /\ LifeStep
<1>1. task \in [Jobs -> Tasks] /\ task[j].resend /\ TransferHasTimer
  BY DEF CoreInv, CoreType, JobResend
<1>2. task[j].resend = TRUE /\ Rearmed(task[j]) = TRUE
  BY <1>1 DEF TransferHasTimer, Rearmed, Tasks
<1>3. task' = task
  BY <1>1, <1>2 DEF JobResend, Tasks
<1>4. UNCHANGED Core
  BY <1>3 DEF JobResend, Core
<1> QED
  BY <1>4, ElsewhereStep

\* ReceiveSignalAck takes the signal timer from a task that exists.
LEMMA ReceiveSignalAckStep ==
  ASSUME CoreInv, NEW h \in Hosts, ReceiveSignalAck(h)
  PROVE  CoreInv' /\ LifeStep
<1>1. task \in [Jobs -> Tasks]
  BY DEF CoreInv, CoreType
<1>2. UNCHANGED <<used, acct>>
  BY DEF ReceiveSignalAck
<1>3. PICK k : task' = task \/ task' = [task EXCEPT ![k].signal = FALSE]
  BY DEF ReceiveSignalAck
<1>4. task' \in [Jobs -> Tasks]
  BY <1>1, <1>3 DEF Tasks
<1> QED
  BY <1>1, <1>2, <1>3, <1>4, TimerStep DEF Tasks

\* SkippedReport: a task may be allowed to be dispatched again.
LEMMA SkippedReportStep ==
  ASSUME CoreInv, NEW j \in Jobs, SkippedReport(j)
  PROVE  CoreInv' /\ LifeStep
<1>1. task \in [Jobs -> Tasks]
  BY DEF CoreInv, CoreType
<1>2. UNCHANGED <<used, acct>>
  BY DEF SkippedReport
<1>3. task' = task \/ task' = [task EXCEPT ![j].deferred = FALSE]
  BY DEF SkippedReport
<1>4. task' \in [Jobs -> Tasks]
  BY <1>1, <1>3 DEF Tasks
<1> QED
  BY <1>1, <1>2, <1>3, <1>4, TimerStep DEF Tasks

-----------------------------------------------------------------------------
(* Dispatch and arrival                                                     *)

\* Dispatch grants the task a slot that is free, which by SlotsMatch is one
\* that no task has.
LEMMA DispatchStep ==
  ASSUME CoreInv, NEW j \in Jobs, NEW h \in Hosts, Dispatch(j, h)
  PROVE  CoreInv' /\ LifeStep
<1> DEFINE new == [task[j] EXCEPT !.status = "JTRANSFERING", !.host = h,
                                  !.run = task[j].run + 1, !.deferred = FALSE,
                                  !.resend = TRUE]
<1>1. /\ task \in [Jobs -> Tasks] /\ used \in [Hosts -> Int]
      /\ task[j].status = "JIDLE" /\ used[h] < Slots
      /\ task[j].run \in Nat /\ task[j].run < MaxRuns
  BY BoundsAssumption DEF CoreInv, CoreType, Dispatch, MayStart, Tasks, Runs
<1>2. /\ task' = [task EXCEPT ![j] = new]
      /\ used' = [used EXCEPT ![h] = @ + 1] /\ acct' = acct
  BY DEF Dispatch
<1>3. task[j].run + 1 \in Runs
  BY <1>1, BoundsAssumption DEF Runs
<1>4. new \in Tasks
  BY <1>1, <1>3 DEF Tasks, Statuses
<1>5. /\ new.status = "JTRANSFERING" /\ new.host = h /\ new.resend = TRUE
      /\ new.run = task[j].run + 1 /\ new.deleted = task[j].deleted
  BY <1>1 DEF Tasks
<1>6. task'[j] = new /\ \A k \in Jobs \ {j} : task'[k] = task[k]
  BY <1>1, <1>2
<1> HIDE DEF new
<1>7. ~task[j].deleted /\ task[j].host = None
  BY <1>1 DEF CoreInv, DeletedIsNotIdle, PlacedIffBusy, Busy
<1>8. task' \in [Jobs -> Tasks]
  BY <1>1, <1>2, <1>4
<1>9. CoreType'
  BY <1>1, <1>2, <1>8 DEF CoreInv, CoreType
<1>10. PlacedIffBusy'
  BY <1>5, <1>6, NoneAssumption DEF CoreInv, PlacedIffBusy, Busy
<1>11. DeletedIsNotIdle'
  BY <1>5, <1>6 DEF CoreInv, DeletedIsNotIdle
<1>12. TransferHasTimer'
  BY <1>5, <1>6 DEF CoreInv, TransferHasTimer
<1>13. AtHost(h)' = AtHost(h) \cup {j} /\ j \notin AtHost(h)
  BY <1>1, <1>5, <1>6 DEF AtHost, Busy
<1>14. \A g \in Hosts \ {h} : AtHost(g)' = AtHost(g)
  BY <1>1, <1>5, <1>6 DEF AtHost, Busy
<1>15. used[h] = Cardinality(AtHost(h))
  BY DEF CoreInv, SlotsMatch, AtHost
<1>16. SlotsMatch'
  <2>1. Cardinality(AtHost(h)') = Cardinality(AtHost(h)) + 1
    BY <1>13, AtHostFinite, FS_AddElement
  <2>2. used'[h] = Cardinality(AtHost(h)')
    BY <1>1, <1>2, <1>15, <2>1
  <2>3. \A g \in Hosts \ {h} : used'[g] = Cardinality(AtHost(g)')
    <3>1. \A g \in Hosts : used[g] = Cardinality(AtHost(g))
      BY DEF CoreInv, SlotsMatch, AtHost
    <3> QED
      BY <1>1, <1>2, <1>14, <3>1
  <2>4. \A g \in Hosts : used'[g] = Cardinality(AtHost(g)')
    BY <2>2, <2>3
  <2> QED
    BY <2>4 DEF SlotsMatch, AtHost
<1>17. Life!Grant(j, h)
  <2>1. Life!Cardinality(Life!GrantedAt(h)) < Slots
    BY <1>1, <1>15, LifeAtHost, LifeCounts
  <2>2. Phase(task[j].status) = "pending" /\ Phase(task'[j].status) = "sent"
    BY <1>1, <1>5, <1>6 DEF Phase
  <2> QED
    BY <1>1, <1>2, <1>5, <1>6, <2>1, <2>2 DEF Life!Grant
<1> QED
  BY <1>9, <1>10, <1>11, <1>12, <1>16, <1>17 DEF CoreInv, LifeStep, Life!Next

\* A running report makes a task in transfer arrive.
LEMMA RunningReportStep ==
  ASSUME CoreInv, NEW j \in Jobs, RunningReport(j)
  PROVE  CoreInv' /\ LifeStep
<1>1. task \in [Jobs -> Tasks] /\ UNCHANGED <<used, acct>>
  BY DEF CoreInv, CoreType, RunningReport
<1>2. task' = [task EXCEPT ![j] = Arrived(@)]
  BY DEF RunningReport
<1>3. CASE task[j].status = "JTRANSFERING"
  <2>1. /\ task'[j] = [task[j] EXCEPT !.status = "JRUNNING", !.resend = FALSE]
        /\ \A k \in Jobs \ {j} : task'[k] = task[k]
    BY <1>1, <1>2, <1>3 DEF Arrived
  <2>2. /\ task'[j].status = "JRUNNING" /\ task'[j].resend = FALSE
        /\ task'[j].host = task[j].host /\ task'[j].run = task[j].run
        /\ task'[j].deleted = task[j].deleted /\ task'[j] \in Tasks
    BY <1>1, <2>1 DEF Tasks, Statuses
  <2>3. CoreType'
    BY <1>1, <1>2, <2>1, <2>2 DEF CoreInv, CoreType
  <2>a. \A k \in Jobs : /\ task'[k].status \in Busy <=> task[k].status \in Busy
                        /\ task'[k].host = task[k].host
    BY <1>3, <2>1, <2>2 DEF Busy
  <2>4. /\ PlacedIffBusy'
        /\ DeletedIsNotIdle'
        /\ TransferHasTimer'
    <3>1. PlacedIffBusy'
      BY <2>a DEF CoreInv, PlacedIffBusy
    <3>2. DeletedIsNotIdle'
      BY <2>1, <2>2 DEF CoreInv, DeletedIsNotIdle
    <3>3. TransferHasTimer'
      <4>1. ~task'[j].resend /\ task'[j].status # "JTRANSFERING"
        BY <2>2
      <4>2. \A k \in Jobs \ {j} :
              task'[k].resend <=> task'[k].status = "JTRANSFERING"
        BY <2>1 DEF CoreInv, TransferHasTimer
      <4> QED
        BY <4>1, <4>2, Zenon DEF TransferHasTimer
    <3> QED
      BY <3>1, <3>2, <3>3
  <2>5. \A h \in Hosts : AtHost(h)' = AtHost(h)
    BY <2>a DEF AtHost
  <2>6. SlotsMatch'
    BY <1>1, <2>5, KeepSlots DEF CoreInv
  <2>7. Life!Arrive(j)
    <3>1. Phase(task[j].status) = "sent" /\ Phase(task'[j].status) = "running"
      BY <1>3, <2>2 DEF Phase
    <3> QED
      BY <1>1, <2>1, <2>2, <3>1 DEF Life!Arrive
  <2> QED
    BY <2>3, <2>4, <2>6, <2>7 DEF CoreInv, LifeStep, Life!Next
<1>4. CASE task[j].status # "JTRANSFERING"
  <2>1. UNCHANGED Core
    BY <1>1, <1>2, <1>4 DEF Arrived, Core
  <2> QED
    BY <2>1, ElsewhereStep
<1> QED
  BY <1>3, <1>4

-----------------------------------------------------------------------------
(* The ways out of a queue                                                  *)

\* Granted tasks leave their hosts: exit, rescheduling after an exit, by timer
\* and by a user.  None of those that become pending is deleted.
LEMMA LeaveStep ==
  ASSUME CoreInv,
         NEW js \in SUBSET Jobs, NEW to \in {"JIDLE", "JFINISHED"},
         \A j \in js : task[j].status \in Busy,
         to = "JIDLE" => \A j \in js : ~task[j].deleted,
         to = "JFINISHED" => \E j \in Jobs : js = {j},
         task' \in [Jobs -> Tasks],
         \A j \in js : /\ task'[j].status = to /\ task'[j].host = None
                       /\ task'[j].resend = FALSE
                       /\ task'[j].deleted = task[j].deleted
                       /\ task'[j].run = task[j].run,
         \A j \in Jobs \ js : task'[j] = task[j],
         used' = Credited(js), acct' = Accounted(js)
  PROVE  CoreInv' /\ LifeStep
<1>0. CoreType /\ task \in [Jobs -> Tasks]
  BY DEF CoreInv, CoreType
<1>1. \A h \in Hosts : AtHost(h)' = AtHost(h) \ js
  BY DEF AtHost, Busy
<1>2. used' \in [Hosts -> Int] /\ SlotsMatch'
  BY <1>0, <1>1, CreditSlots DEF CoreInv
<1>3. acct' \in [Jobs -> Seq(Runs)]
  BY <1>0 DEF CoreType, Accounted, Tasks
<1>4. PlacedIffBusy'
  BY DEF CoreInv, PlacedIffBusy, Busy
<1>5. DeletedIsNotIdle'
  BY DEF CoreInv, DeletedIsNotIdle
<1>6. TransferHasTimer'
  <2>1. \A k \in js : ~task'[k].resend /\ task'[k].status # "JTRANSFERING"
    OBVIOUS
  <2>2. \A k \in Jobs \ js :
          task'[k].resend <=> task'[k].status = "JTRANSFERING"
    BY DEF CoreInv, TransferHasTimer
  <2> QED
    BY <2>1, <2>2, Zenon DEF TransferHasTimer
<1>7. ASSUME to = "JIDLE" PROVE Life!TakeBack(js)
  <2>1. js \subseteq Life!Granted
    BY LifeAtHost
  <2>2. \A j \in js : Phase(task'[j].status) = "pending"
    BY <1>7 DEF Phase
  <2>3. js \cap {j \in Jobs : task[j].deleted} = {}
    BY <1>7
  <2>4. Life!Release(js, "pending")
    BY <2>1, <2>2 DEF Life!Release, Accounted
  <2> QED
    BY <2>3, <2>4 DEF Life!TakeBack
<1>8. ASSUME to = "JFINISHED" PROVE \E j \in Jobs : Life!End(j)
  <2>1. js \subseteq Life!Granted
    BY LifeAtHost
  <2>2. \A j \in js : Phase(task'[j].status) = "over"
    BY <1>8 DEF Phase
  <2>3. Life!Release(js, "over")
    BY <2>1, <2>2 DEF Life!Release, Accounted
  <2> QED
    BY <1>8, <2>3 DEF Life!End
<1>9. LifeStep
  BY <1>7, <1>8 DEF LifeStep, Life!Next
<1> QED
  BY <1>2, <1>3, <1>4, <1>5, <1>6, <1>9 DEF CoreInv, CoreType

\* What Leave does to a task.
LEMMA LeaveFields ==
  ASSUME NEW t \in Tasks, NEW status \in Statuses
  PROVE  /\ Leave(t, status) \in Tasks
         /\ Leave(t, status).status = status /\ Leave(t, status).host = None
         /\ Leave(t, status).resend = FALSE
         /\ Leave(t, status).deleted = t.deleted
         /\ Leave(t, status).run = t.run
BY DEF Leave, Tasks

\* sge_job_exit of a granted task.
LEMMA JobExitStep ==
  ASSUME CoreInv, NEW j \in Jobs, NEW r, task[j].status \in Busy, JobExit(j, r)
  PROVE  CoreInv' /\ LifeStep
<1>1. /\ task \in [Jobs -> Tasks] /\ task[j] \in Tasks
      /\ used' = Credited({j}) /\ acct' = Accounted({j})
  BY DEF CoreInv, CoreType, JobExit
<1>2. CASE IsOver(task[j], r.how)
  <2>1. task' = [task EXCEPT ![j] = Leave(@, "JFINISHED")]
    BY <1>2 DEF JobExit, Finish
  <2>2. "JFINISHED" \in Statuses
    BY DEF Statuses
  <2>3. task' \in [Jobs -> Tasks]
    BY <1>1, <2>1, <2>2, LeaveFields
  <2> DEFINE left == Leave(task[j], "JFINISHED")
  <2>4. task'[j] = left /\ \A k \in Jobs \ {j} : task'[k] = task[k]
    BY <1>1, <2>1
  <2>5. /\ left.status = "JFINISHED" /\ left.host = None /\ left.resend = FALSE
        /\ left.deleted = task[j].deleted /\ left.run = task[j].run
    BY <1>1, <2>2, LeaveFields
  <2> HIDE DEF left
  <2>7. /\ {j} \in SUBSET Jobs /\ \A k \in {j} : task[k].status \in Busy
        /\ \A k \in {j} : /\ task'[k].status = "JFINISHED" /\ task'[k].host = None
                          /\ task'[k].resend = FALSE
                          /\ task'[k].deleted = task[k].deleted
                          /\ task'[k].run = task[k].run
    BY <2>4, <2>5
  <2> QED
    BY <1>1, <2>3, <2>4, <2>7, LeaveStep
<1>3. CASE ~IsOver(task[j], r.how)
  <2>1. task' = [task EXCEPT ![j] = Leave(@, "JIDLE")]
    BY <1>3 DEF JobExit, RescheduleAfterExit
  <2>2. "JIDLE" \in Statuses
    BY DEF Statuses
  <2>3. task' \in [Jobs -> Tasks]
    BY <1>1, <2>1, <2>2, LeaveFields
  <2> DEFINE left == Leave(task[j], "JIDLE")
  <2>4. task'[j] = left /\ \A k \in Jobs \ {j} : task'[k] = task[k]
    BY <1>1, <2>1
  <2>5. /\ left.status = "JIDLE" /\ left.host = None /\ left.resend = FALSE
        /\ left.deleted = task[j].deleted /\ left.run = task[j].run
    BY <1>1, <2>2, LeaveFields
  <2> HIDE DEF left
  <2>6. ~task[j].deleted
    BY <1>3 DEF IsOver
  <2>7. /\ {j} \in SUBSET Jobs /\ \A k \in {j} : task[k].status \in Busy
        /\ \A k \in {j} : /\ task'[k].status = "JIDLE" /\ task'[k].host = None
                          /\ task'[k].resend = FALSE
                          /\ task'[k].deleted = task[k].deleted
                          /\ task'[k].run = task[k].run
    BY <2>4, <2>5
  <2>8. \A k \in {j} : ~task[k].deleted
    BY <2>6
  <2> QED
    BY <1>1, <2>3, <2>4, <2>7, <2>8, LeaveStep
<1> QED
  BY <1>2, <1>3

\* Rescheduling by timer and by a user.
LEMMA RescheduleJobsStep ==
  ASSUME CoreInv, NEW h \in Hosts, NEW js \in SUBSET Jobs,
         NEW manual \in BOOLEAN,
         \A j \in js : Reschedulable(j, h), RescheduleJobs(js, h, manual)
  PROVE  CoreInv' /\ LifeStep
<1>1. /\ task \in [Jobs -> Tasks]
      /\ used' = Credited(js) /\ acct' = Accounted(js)
  BY DEF CoreInv, CoreType, RescheduleJobs
<1>2. \A j \in js : task[j].status \in Busy /\ ~task[j].deleted
  BY DEF Reschedulable
<1>3. ASSUME NEW j \in js
      PROVE  /\ task'[j] \in Tasks
             /\ task'[j].status = "JIDLE" /\ task'[j].host = None
             /\ task'[j].resend = FALSE /\ task'[j].deleted = task[j].deleted
             /\ task'[j].run = task[j].run
  <2>1. task'[j] = [Leave(task[j], "JIDLE") EXCEPT !.deferred = manual]
    BY DEF RescheduleJobs
  <2>2. "JIDLE" \in Statuses /\ task[j] \in Tasks
    BY <1>1 DEF Statuses
  <2>3. /\ Leave(task[j], "JIDLE") \in Tasks
        /\ Leave(task[j], "JIDLE").status = "JIDLE"
        /\ Leave(task[j], "JIDLE").host = None
        /\ Leave(task[j], "JIDLE").resend = FALSE
        /\ Leave(task[j], "JIDLE").deleted = task[j].deleted
        /\ Leave(task[j], "JIDLE").run = task[j].run
    BY <2>2, LeaveFields
  <2> QED
    BY <2>1, <2>3 DEF Tasks
<1>4. \A j \in Jobs \ js : task'[j] = task[j]
  BY DEF RescheduleJobs
<1>5. task' \in [Jobs -> Tasks]
  BY <1>1, <1>3, <1>4 DEF RescheduleJobs
<1> QED
  BY <1>1, <1>2, <1>3, <1>4, <1>5, LeaveStep

-----------------------------------------------------------------------------
(* Deletion                                                                 *)

\* A granted task is registered for deletion, or was before.
LEMMA SignalTaskStep ==
  ASSUME CoreInv, NEW j \in Jobs, task[j].status \in Busy,
         SignalTask(j), UNCHANGED <<used, acct>>
  PROVE  CoreInv' /\ LifeStep
<1>1. task \in [Jobs -> Tasks]
  BY DEF CoreInv, CoreType
<1>2. PICK armed \in BOOLEAN :
        task' = [task EXCEPT ![j] = [@ EXCEPT !.deleted = TRUE, !.signal = armed]]
  BY DEF SignalTask
<1>3. /\ task'[j] = [task[j] EXCEPT !.deleted = TRUE, !.signal = armed]
      /\ \A k \in Jobs \ {j} : task'[k] = task[k]
  BY <1>1, <1>2
<1>4. /\ task'[j] \in Tasks /\ task'[j].deleted = TRUE
      /\ task'[j].status = task[j].status /\ task'[j].host = task[j].host
      /\ task'[j].run = task[j].run /\ task'[j].resend = task[j].resend
  BY <1>1, <1>3 DEF Tasks
<1>5. \A k \in Jobs : /\ task'[k].status = task[k].status
                      /\ task'[k].host = task[k].host
                      /\ task'[k].run = task[k].run
                      /\ task'[k].resend = task[k].resend
  BY <1>3, <1>4
<1>6. task' \in [Jobs -> Tasks]
  BY <1>1, <1>2, <1>3, <1>4
<1>7. CoreType' /\ PlacedIffBusy' /\ TransferHasTimer'
  BY <1>5, <1>6 DEF CoreInv, CoreType, PlacedIffBusy, TransferHasTimer
<1>8. DeletedIsNotIdle'
  BY <1>3, <1>4 DEF CoreInv, DeletedIsNotIdle, Busy
<1>9. SlotsMatch'
  <2>1. \A h \in Hosts : AtHost(h)' = AtHost(h)
    BY <1>5 DEF AtHost
  <2> QED
    BY <2>1, KeepSlots DEF CoreInv
<1>10. Life!Register(j)
  <2>1. j \in Life!Granted
    BY LifeAtHost
  <2>2. {k \in Jobs : task'[k].deleted} = {k \in Jobs : task[k].deleted} \cup {j}
    BY <1>3, <1>4
  <2> QED
    BY <1>5, <2>1, <2>2 DEF Life!Register
<1> QED
  BY <1>7, <1>8, <1>9, <1>10 DEF CoreInv, LifeStep, Life!Next

\* A task that is not granted is removed: a pending one by its deletion, a
\* finished one when its usage was debited.
LEMMA RemoveStep ==
  ASSUME CoreInv, NEW j \in Jobs, task[j].status \notin Busy,
         task' \in [Jobs -> Tasks], UNCHANGED <<used, acct>>,
         \A k \in Jobs \ {j} : task'[k] = task[k],
         task'[j].status \in {"JFINISHED", "gone"},
         task'[j].host = task[j].host, task'[j].resend = task[j].resend,
         task'[j].run = task[j].run, task'[j].deleted = task[j].deleted
  PROVE  CoreInv' /\ LifeStep
<1>1. CoreType' /\ PlacedIffBusy' /\ DeletedIsNotIdle'
  BY DEF CoreInv, CoreType, PlacedIffBusy, DeletedIsNotIdle, Busy
<1>2. TransferHasTimer'
  BY DEF CoreInv, TransferHasTimer, Busy
<1>3. SlotsMatch'
  <2>1. \A h \in Hosts : AtHost(h)' = AtHost(h)
    BY DEF AtHost, Busy
  <2> QED
    BY <2>1, KeepSlots DEF CoreInv
<1>4. Phase(task'[j].status) = "over" /\ Phase(task[j].status) \in {"pending", "over"}
  BY DEF Phase, Busy
<1>5. CASE Phase(task[j].status) = "pending"
  <2>1. Life!Cancel(j)
    BY <1>4, <1>5 DEF Life!Cancel
  <2> QED
    BY <1>1, <1>2, <1>3, <2>1 DEF CoreInv, LifeStep, Life!Next
<1>6. CASE Phase(task[j].status) = "over"
  <2>1. UNCHANGED Life!vars
    BY <1>4, <1>6 DEF Life!vars
  <2> QED
    BY <1>1, <1>2, <1>3, <2>1 DEF CoreInv, LifeStep
<1> QED
  BY <1>4, <1>5, <1>6

\* qdel
LEMMA DeleteStep ==
  ASSUME CoreInv, NEW j \in Jobs, Delete(j)
  PROVE  CoreInv' /\ LifeStep
<1>1. task \in [Jobs -> Tasks] /\ task[j] \in Tasks /\ UNCHANGED <<used, acct>>
  BY DEF CoreInv, CoreType, Delete
<1>2. CASE task[j].status = "JIDLE" /\ task' = [task EXCEPT ![j].status = "gone"]
  <2>1. task' \in [Jobs -> Tasks]
    BY <1>1, <1>2 DEF Tasks, Statuses
  <2>2. /\ \A k \in Jobs \ {j} : task'[k] = task[k]
        /\ task'[j].status = "gone" /\ task'[j].host = task[j].host
        /\ task'[j].resend = task[j].resend /\ task'[j].run = task[j].run
        /\ task'[j].deleted = task[j].deleted
    BY <1>1, <1>2 DEF Tasks
  <2> QED
    BY <1>1, <1>2, <2>1, <2>2, RemoveStep DEF Busy
<1>3. CASE task[j].status = "JIDLE" /\ Finish(j)
  <2> DEFINE left == Leave(task[j], "JFINISHED")
  <2>1. task' = [task EXCEPT ![j] = left]
    BY <1>3 DEF Finish
  <2>2. "JFINISHED" \in Statuses
    BY DEF Statuses
  <2>3. /\ left \in Tasks /\ left.status = "JFINISHED" /\ left.host = None
        /\ left.resend = FALSE /\ left.deleted = task[j].deleted
        /\ left.run = task[j].run
    BY <1>1, <2>2, LeaveFields
  <2> HIDE DEF left
  <2>4. task'[j] = left /\ \A k \in Jobs \ {j} : task'[k] = task[k]
    BY <1>1, <2>1
  <2>5. task' \in [Jobs -> Tasks]
    BY <1>1, <2>1, <2>3
  <2>6. task[j].host = None
    BY <1>3 DEF CoreInv, PlacedIffBusy, Busy
  <2>7. task[j].resend = FALSE
    BY <1>1, <1>3 DEF CoreInv, TransferHasTimer, Tasks
  <2> QED
    BY <1>1, <1>3, <2>3, <2>4, <2>5, <2>6, <2>7, RemoveStep DEF Busy
<1>4. CASE task[j].status \in Busy /\ SignalTask(j)
  BY <1>1, <1>4, SignalTaskStep
<1> QED
  BY <1>2, <1>3, <1>4 DEF Delete

\* The signal timer: only a task that has a host is signaled again.
LEMMA SignalResendStep ==
  ASSUME CoreInv, NEW j \in Jobs, SignalResend(j)
  PROVE  CoreInv' /\ LifeStep
<1>1. task \in [Jobs -> Tasks] /\ UNCHANGED <<used, acct>>
  BY DEF CoreInv, CoreType, SignalResend
<1>2. CASE task[j].host # None /\ SignalTask(j)
  <2>1. task[j].status \in Busy
    BY <1>2 DEF CoreInv, PlacedIffBusy
  <2> QED
    BY <1>1, <1>2, <2>1, SignalTaskStep
<1>3. CASE task' = [task EXCEPT ![j].signal = FALSE]
  <2>1. task' \in [Jobs -> Tasks]
    BY <1>1, <1>3 DEF Tasks
  <2> QED
    BY <1>1, <1>3, <2>1, TimerStep DEF Tasks
<1> QED
  BY <1>2, <1>3 DEF SignalResend

\* The usage of a finished job was debited.
LEMMA DebitedStep ==
  ASSUME CoreInv, NEW j \in Jobs, Debited(j)
  PROVE  CoreInv' /\ LifeStep
<1>1. /\ task \in [Jobs -> Tasks] /\ UNCHANGED <<used, acct>>
      /\ task[j].status = "JFINISHED"
      /\ task' = [task EXCEPT ![j].status = "gone"]
  BY DEF CoreInv, CoreType, Debited
<1>2. task' \in [Jobs -> Tasks]
  BY <1>1 DEF Tasks, Statuses
<1>3. /\ \A k \in Jobs \ {j} : task'[k] = task[k]
      /\ task'[j].status = "gone" /\ task'[j].host = task[j].host
      /\ task'[j].resend = task[j].resend /\ task'[j].run = task[j].run
      /\ task'[j].deleted = task[j].deleted
  BY <1>1 DEF Tasks
<1> QED
  BY <1>1, <1>2, <1>3, RemoveStep DEF Busy

-----------------------------------------------------------------------------
(* All steps                                                                *)

\* Reading one job report.
LEMMA ProcessJobReportStep ==
  ASSUME CoreInv, NEW j \in Jobs, ProcessJobReport(j)
  PROVE  CoreInv' /\ LifeStep
<1>1. CASE SkippedReport(j)
  BY <1>1, SkippedReportStep
<1>2. CASE RunningReport(j)
  BY <1>2, RunningReportStep
<1>3. CASE ExitReport(j)
  <2>1. CASE ExpectsExit(task[j]) /\ JobExit(j, Head(rep.jrs[j]))
    BY <2>1, JobExitStep DEF ExpectsExit
  <2>2. CASE UNCHANGED <<task, ru, used, acct>>
    BY <2>2, ElsewhereStep DEF Core
  <2> QED
    BY <1>3, <2>1, <2>2 DEF ExitReport
<1> QED
  BY <1>1, <1>2, <1>3 DEF ProcessJobReport

\* qmod -rj and the timer of an unknown host.
LEMMA RescheduleStep ==
  ASSUME CoreInv,
         \/ \E j \in Jobs : RescheduleManually(j)
         \/ \E h \in Hosts : RescheduleUnknownHost(h)
  PROVE  CoreInv' /\ LifeStep
<1>1. ASSUME NEW j \in Jobs, NEW h \in Hosts,
             Reschedulable(j, h), RescheduleJobs({j}, h, TRUE)
      PROVE  CoreInv' /\ LifeStep
  <2>1. {j} \in SUBSET Jobs /\ \A k \in {j} : Reschedulable(k, h)
    BY <1>1
  <2> QED
    BY <1>1, <2>1, RescheduleJobsStep
<1>2. ASSUME NEW h \in Hosts,
             RescheduleJobs({j \in Jobs : Reschedulable(j, h)}, h, FALSE)
      PROVE  CoreInv' /\ LifeStep
  <2> DEFINE js == {j \in Jobs : Reschedulable(j, h)}
  <2>1. js \in SUBSET Jobs /\ \A j \in js : Reschedulable(j, h)
    OBVIOUS
  <2>2. RescheduleJobs(js, h, FALSE)
    BY <1>2
  <2> HIDE DEF js
  <2> QED
    BY <2>1, <2>2, RescheduleJobsStep
<1>3. ASSUME UNCHANGED <<task, ru, used, acct>>
      PROVE  CoreInv' /\ LifeStep
  BY <1>3, ElsewhereStep DEF Core
<1> QED
  BY <1>1, <1>2, <1>3 DEF RescheduleManually, RescheduleUnknownHost

\* No step of a daemon or of a connection touches tasks, slots or accounting.
LEMMA ExecdLeavesCore ==
  ASSUME NEW h \in Hosts, ExecdStep(h)
  PROVE  UNCHANGED Core
<1>1. UNCHANGED qmVars
  BY DEF ExecdStep, ReceiveJob, ReceiveSignal, ReceiveAcks, HandleAck, Reap,
         ShepherdEnds, SendFullReport, SendPartialReport, Crash, Restart,
         LoseConnection
<1> QED
  BY <1>1 DEF qmVars, Core

\* Every step preserves CoreInv and is a step of TaskLife or none.
LEMMA CoreStep ==
  ASSUME CoreInv, [Next]_vars
  PROVE  CoreInv' /\ LifeStep
<1>1. ASSUME NEW j \in Jobs,
             \/ JobResend(j) \/ ProcessJobReport(j) \/ Delete(j)
             \/ SignalResend(j) \/ Debited(j)
      PROVE  CoreInv' /\ LifeStep
  BY <1>1, JobResendStep, ProcessJobReportStep, DeleteStep, SignalResendStep,
     DebitedStep
<1>2. ASSUME NEW j \in Jobs, NEW h \in Hosts,
             Dispatch(j, h) \/ DispatchFails(j, h)
      PROVE  CoreInv' /\ LifeStep
  BY <1>2, DispatchStep, DispatchFailsStep
<1>3. ASSUME NEW j \in Jobs, RescheduleManually(j)
      PROVE  CoreInv' /\ LifeStep
  BY <1>3, RescheduleStep
<1>4. ASSUME NEW h \in Hosts, RescheduleUnknownHost(h)
      PROVE  CoreInv' /\ LifeStep
  BY <1>4, RescheduleStep
<1>5. ASSUME NEW h \in Hosts, ReceiveSignalAck(h)
      PROVE  CoreInv' /\ LifeStep
  BY <1>5, ReceiveSignalAckStep
<1>6. ASSUME NEW h \in Hosts, BeginReport(h) \/ HostUnheard(h) \/ ExecdStep(h)
      PROVE  CoreInv' /\ LifeStep
  <2>1. UNCHANGED Core
    BY <1>6, ExecdLeavesCore DEF BeginReport, HostUnheard, Core
  <2> QED
    BY <2>1, ElsewhereStep
<1>7. CASE EndReport \/ UNCHANGED vars
  <2>1. UNCHANGED Core
    BY <1>7 DEF EndReport, vars, qmVars, Core
  <2> QED
    BY <2>1, ElsewhereStep
<1> QED
  BY <1>1, <1>2, <1>3, <1>4, <1>5, <1>6, <1>7 DEF Next, QmasterStep

\* Initially no task is granted and every slot is free.
LEMMA CoreInit ==
  ASSUME Init
  PROVE  CoreInv /\ Life!Init
<1>1. CoreType
  BY BoundsAssumption DEF Init, CoreType, NewTask, Tasks, Statuses, Runs
<1>2. PlacedIffBusy /\ DeletedIsNotIdle /\ TransferHasTimer
  BY DEF Init, NewTask, PlacedIffBusy, DeletedIsNotIdle, TransferHasTimer, Busy
<1>3. SlotsMatch
  <2>1. \A h \in Hosts : AtHost(h) = {}
    BY DEF Init, NewTask, AtHost, Busy
  <2>2. \A h \in Hosts : used[h] = Cardinality(AtHost(h))
    BY <2>1, FS_EmptySet DEF Init
  <2> QED
    BY <2>2 DEF SlotsMatch, AtHost
<1>4. Life!Init
  BY DEF Init, NewTask, Life!Init, Phase
<1> QED
  BY <1>1, <1>2, <1>3, <1>4 DEF CoreInv

-----------------------------------------------------------------------------
(* Theorems                                                                 *)

\* CoreInv is an inductive invariant of JobDelivery.
THEOREM CoreIsInvariant == Spec => []CoreInv
<1>1. Init => CoreInv
  BY CoreInit
<1>2. CoreInv /\ [Next]_vars => CoreInv'
  BY CoreStep
<1> QED
  BY <1>1, <1>2, PTL DEF Spec

\* The slots debited on a host are always those of the tasks that the qmaster
\* has there (ORT_start_job debits, sge_clear_granted_resources credits).
THEOREM SlotsAlwaysMatch == Spec => []SlotsMatch
<1>1. CoreInv => SlotsMatch
  BY DEF CoreInv
<1> QED
  BY <1>1, CoreIsInvariant, PTL

\* A task has a resend timer exactly while it is in transfer
\* (trigger_job_resend, cancel_job_resend).
THEOREM TimerWhileInTransfer == Spec => []TransferHasTimer
<1>1. CoreInv => TransferHasTimer
  BY DEF CoreInv
<1> QED
  BY <1>1, CoreIsInvariant, PTL

\* A job that is registered for deletion never becomes pending again
\* (sge_job_exit, reschedule_job).
THEOREM DeletedForGood == Spec => DeletedStaysDeleted
<1>1. CoreInv /\ [Next]_vars
        => [\A j \in Jobs : task[j].deleted => task'[j].status # "JIDLE"]_vars
  <2> SUFFICES ASSUME CoreInv, [Next]_vars, NEW j \in Jobs, task[j].deleted
               PROVE  task'[j].status # "JIDLE"
    OBVIOUS
  <2>1. CoreInv' /\ LifeStep
    BY CoreStep
  <2>2. task'[j].deleted
    <3>1. j \in {k \in Jobs : task[k].deleted}
      OBVIOUS
    <3>2. {k \in Jobs : task[k].deleted} \subseteq {k \in Jobs : task'[k].deleted}
      BY <2>1 DEF LifeStep, Life!Next, Life!vars, Life!Arrive, Life!Cancel,
                  Life!Register, Life!End, Life!Grant, Life!TakeBack, Life!Release
    <3> QED
      BY <3>1, <3>2
  <2> QED
    BY <2>1, <2>2 DEF CoreInv, DeletedIsNotIdle
<1> QED
  BY <1>1, CoreIsInvariant, PTL DEF Spec, DeletedStaysDeleted

\* The handlers of the qmaster implement TaskLife.
THEOREM DeliveryImplementsTaskLife == Spec => ImplementsTaskLife
<1>1. Init => Life!Init
  BY CoreInit
<1>2. CoreInv /\ [Next]_vars => [Life!Next]_(Life!vars)
  BY CoreStep DEF LifeStep
<1> QED
  BY <1>1, <1>2, CoreIsInvariant, PTL DEF Spec, ImplementsTaskLife, Life!Spec

\* What TaskLife promises holds of the qmaster's tasks.
LEMMA DeliveryKeepsLifeInv == Spec => []Life!LifeInv
<1>1. Life!Spec => []Life!LifeInv
  BY Life!LifeIsSafe, LifeCounts, SlotsAssumption
<1> QED
  BY <1>1, DeliveryImplementsTaskLife, PTL DEF ImplementsTaskLife

\* An instance of a job is accounted for at most once: what TaskLife promises
\* of its records (reporting_create_acct_record).
THEOREM InstancesAccountedOnce == Spec => []AccountedOnce
<1>1. Life!LifeInv => AccountedOnce
  BY DEF Life!LifeInv, Life!RecordedOnce, AccountedOnce
<1> QED
  BY <1>1, DeliveryKeepsLifeInv, PTL

\* No queue instance has more slots debited than it has, nor fewer than none.
THEOREM NeverOverbooked == Spec => [](\A h \in Hosts : used[h] \in 0 .. Slots)
<1>1. CoreInv /\ Life!LifeInv => \A h \in Hosts : used[h] \in 0 .. Slots
  <2> SUFFICES ASSUME CoreInv, Life!LifeInv, NEW h \in Hosts
               PROVE  used[h] \in 0 .. Slots
    OBVIOUS
  <2>1. used[h] = Cardinality(AtHost(h)) /\ Cardinality(AtHost(h)) \in Nat
    BY AtHostFinite DEF CoreInv, SlotsMatch, AtHost
  <2>2. Cardinality(AtHost(h)) <= Slots
    BY LifeAtHost, LifeCounts DEF Life!LifeInv, Life!NotOverbooked
  <2> QED
    BY <2>1, <2>2, SlotsAssumption
<1> QED
  BY <1>1, CoreIsInvariant, DeliveryKeepsLifeInv, PTL

-----------------------------------------------------------------------------
(* What is kept of a list                                                   *)

\* A set of natural numbers that is not empty has a least element.
LEMMA LeastExists ==
  ASSUME NEW T \in SUBSET Nat, T # {}
  PROVE  \E n \in T : \A k \in T : n <= k
<1> DEFINE R == {ss \in Nat \X Nat : ss[1] < ss[2]}
<1>1. IsWellFoundedOn(R, Nat)
  BY NatLessThanWellFounded DEF OpToRel
<1>2. PICK n \in T : \A k \in T : ~ (<<k, n>> \in R)
  <2> HIDE DEF R
  <2> QED
    BY <1>1, WFMin
<1>3. ASSUME NEW k \in T PROVE n <= k
  <2>1. <<k, n>> \in Nat \X Nat /\ ~(<<k, n>> \in R)
    BY <1>2
  <2>2. ~(k < n)
    BY <2>1
  <2> QED
    BY <2>2
<1> QED
  BY <1>3

\* Every rank up to the number of positions is that of a position.
LEMMA RankExists ==
  ASSUME NEW m \in Nat, NEW P \in SUBSET (1 .. m),
         NEW n \in 1 .. Cardinality(P)
  PROVE  \E i \in P : Cardinality({k \in P : k <= i}) = n
<1> DEFINE Below(i) == {k \in P : k <= i}
           Enough == {i \in 0 .. m : n <= Cardinality(Below(i))}
<1>0. P \subseteq 1 .. m /\ \A k \in P : k \in Int /\ 1 <= k /\ k <= m
  OBVIOUS
<1>1. ASSUME NEW i \in Int
      PROVE  IsFiniteSet(Below(i)) /\ Cardinality(Below(i)) \in Nat
  <2>1. IsFiniteSet(1 .. m)
    BY FS_Interval
  <2>2. Below(i) \subseteq 1 .. m
    BY <1>0
  <2> QED
    BY <2>1, <2>2, FS_Subset, FS_CardinalityType
<1>2. Below(m) = P
  BY <1>0
<1>3. m \in Enough
  BY <1>1, <1>2
<1>4. PICK i \in Enough : \A k \in Enough : i <= k
  <2>1. Enough \in SUBSET Nat /\ Enough # {}
    BY <1>3
  <2> HIDE DEF Enough
  <2> QED
    BY <2>1, LeastExists
<1>5. i \in 0 .. m /\ n <= Cardinality(Below(i))
  BY <1>4
<1>6. i # 0
  <2>0. \A k \in P : ~(k <= 0)
    BY <1>0
  <2>1. Below(0) = {}
    BY <2>0
  <2> HIDE DEF Below
  <2> QED
    BY <1>5, <2>1, FS_EmptySet
<1>7. i - 1 \in 0 .. m /\ i - 1 \notin Enough
  <2> HIDE DEF Below
  <2> QED
    BY <1>4, <1>5, <1>6
<1>8. Cardinality(Below(i - 1)) < n
  <2>1. i - 1 \in Int /\ Cardinality(Below(i - 1)) \in Nat
    <3>1. i - 1 \in Int
      BY <1>7
    <3> QED
      BY <1>1, <3>1
  <2> HIDE DEF Below
  <2> QED
    BY <1>7, <2>1
<1>9. i \in P
  <2> SUFFICES ASSUME i \notin P PROVE FALSE
    OBVIOUS
  <2>1. ASSUME NEW k \in P PROVE k <= i <=> k <= i - 1
    BY <1>0, <1>5
  <2>2. Below(i) = Below(i - 1)
    BY <2>1
  <2>3. Cardinality(Below(i)) \in Nat
    BY <1>1, <1>5
  <2> HIDE DEF Below
  <2> QED
    BY <1>5, <1>8, <2>2, <2>3
<1>10. Below(i) = Below(i - 1) \cup {i} /\ i \notin Below(i - 1)
  <2>1. ASSUME NEW k \in P PROVE k <= i <=> k <= i - 1 \/ k = i
    BY <1>0, <1>5
  <2>2. ~(i <= i - 1) /\ i <= i
    BY <1>5
  <2> QED
    BY <1>9, <2>1, <2>2
<1>11. Cardinality(Below(i)) = n
  <2>1. /\ IsFiniteSet(Below(i - 1)) /\ Cardinality(Below(i - 1)) \in Nat
        /\ Cardinality(Below(i)) \in Nat
    <3>1. i \in Int /\ i - 1 \in Int
      BY <1>5
    <3> QED
      BY <1>1, <3>1
  <2> HIDE DEF Below
  <2>2. Cardinality(Below(i)) = Cardinality(Below(i - 1)) + 1
    BY <1>10, <2>1, FS_AddElement
  <2> QED
    BY <1>5, <1>8, <2>1, <2>2
<1> QED
  BY <1>9, <1>11

\* What is chosen of a sequence are elements of it, and nothing is chosen only
\* without positions.
LEMMA ChosenType ==
  ASSUME NEW S, NEW s \in Seq(S), NEW P \in SUBSET DOMAIN s
  PROVE  /\ Chosen(s, P) \in Seq(S)
         /\ \A n \in DOMAIN Chosen(s, P) : \E i \in P : Chosen(s, P)[n] = s[i]
         /\ Chosen(s, P) = <<>> <=> P = {}
<1> DEFINE At(n) == CHOOSE i \in P : Cardinality({k \in P : k <= i}) = n
<1>1. Len(s) \in Nat /\ P \subseteq 1 .. Len(s)
  OBVIOUS
<1>2. IsFiniteSet(P) /\ Cardinality(P) \in Nat
  <2>1. IsFiniteSet(1 .. Len(s))
    BY <1>1, FS_Interval
  <2> QED
    BY <1>1, <2>1, FS_Subset, FS_CardinalityType
<1>3. \A n \in 1 .. Cardinality(P) : At(n) \in P
  BY <1>1, RankExists
<1>4. Chosen(s, P) = [n \in 1 .. Cardinality(P) |-> s[At(n)]]
  BY DEF Chosen
<1> HIDE DEF At
<1>5. \A n \in 1 .. Cardinality(P) : s[At(n)] \in S
  BY <1>3
<1>6. Chosen(s, P) \in [1 .. Cardinality(P) -> S]
  BY <1>4, <1>5
<1>7. Chosen(s, P) \in Seq(S) /\ Len(Chosen(s, P)) = Cardinality(P)
  BY <1>2, <1>6
<1>8. Chosen(s, P) = <<>> <=> Cardinality(P) = 0
  BY <1>2, <1>7
<1> QED
  BY <1>2, <1>3, <1>4, <1>7, <1>8, FS_EmptySet

-----------------------------------------------------------------------------
(* Lists, messages and processes                                            *)

ListsOK ==
  /\ unknown \subseteq Hosts /\ ruTimer \subseteq Hosts
  /\ ru \in [Hosts -> [Jobs -> Seq(RUStates)]]
  /\ rep = None \/ rep \in ReportBeingRead

DaemonsOK ==
  /\ up \subseteq Hosts
  /\ copy \in [Hosts -> [Jobs -> Copies \cup {None}]]
  /\ jr \in [Hosts -> [Jobs -> Seq(JobReports)]]
  /\ acking \in [Hosts -> Seq(Acks)]
  /\ procs \in [Hosts -> [Jobs -> SUBSET Shepherds]]

MessagesOK ==
  /\ toExecd \in [Hosts -> Seq(ToExecd)]
  /\ toMaster \in [Hosts -> Seq(ToMaster)]

\* A job that a daemon will start once more was started once at most, and it
\* took a fault that it was not spooled as started.
FaultsOK ==
  /\ faults \in 0 .. MaxFaults
  /\ \A h \in Hosts, j \in Jobs :
       copy[h][j] # None /\ copy[h][j].idle =>
         copy[h][j].pid \in {0, 1} /\ faults < MaxFaults

TypeInv == ListsOK /\ DaemonsOK /\ MessagesOK /\ FaultsOK

Lists == <<unknown, ruTimer, ru, rep>>

\* Initially everything is empty.
LEMMA TypeInit ==
  ASSUME Init
  PROVE  TypeInv
BY BoundsAssumption
   DEF Init, TypeInv, ListsOK, DaemonsOK, MessagesOK, FaultsOK, RUStates

\* What the qmaster and the daemons send.
LEMMA MessageTypes ==
  /\ \A j \in Jobs, run \in Runs : Delivery(j, run) \in ToExecd
  /\ \A j \in Jobs : Signal(j) \in ToExecd /\ SignalAck(j) \in ToMaster
  /\ \A acks \in Seq(Acks) : [kind |-> "TAG_ACK_REQUEST", acks |-> acks] \in ToExecd
BY DEF Delivery, Signal, SignalAck, ToExecd, ToMaster

\* What the qmaster sends is appended or lost.
LEMMA SentType ==
  ASSUME MessagesOK, NEW h \in Hosts, NEW msg \in ToExecd, Sent(h, msg)
  PROVE  toExecd' \in [Hosts -> Seq(ToExecd)]
BY DEF MessagesOK, Sent

\* The job reports a daemon makes.
LEMMA ReportTypes ==
  ASSUME NEW run \in Runs
  PROVE  /\ Written(run) \in JobReports
         /\ \A how \in {"ended", "rerun"}, flush \in BOOLEAN :
              Exiting(run, how, flush) \in JobReports
BY DEF Written, Exiting, JobReports

\* The report of a job that the daemon does not know has run 0.
LEMMA RunZero == 0 \in Runs
BY BoundsAssumption DEF Runs

\* Removing one message from a connection.
LEMMA RemoveAtType ==
  ASSUME NEW S, NEW s \in Seq(S), NEW i \in DOMAIN s
  PROVE  RemoveAt(s, i) \in Seq(S)
BY DEF RemoveAt

\* get_job_report finds the first report of the job or makes one.
LEMMA FirstType ==
  ASSUME NEW reports \in Seq(JobReports), NEW r \in JobReports
  PROVE  SetFirst(reports, r) \in Seq(JobReports)
BY DEF SetFirst

-----------------------------------------------------------------------------
(* The steps of the qmaster keep the types                                  *)

\* A task gets a run within the bound, and its delivery.
LEMMA DispatchType ==
  ASSUME CoreInv, TypeInv, NEW j \in Jobs, NEW h \in Hosts, Dispatch(j, h)
  PROVE  TypeInv'
<1>1. task[j].run + 1 \in Runs
  BY BoundsAssumption DEF CoreInv, CoreType, Tasks, Runs, Dispatch
<1>2. toExecd' \in [Hosts -> Seq(ToExecd)]
  BY <1>1, MessageTypes, SentType DEF Dispatch, TypeInv
<1> QED
  BY <1>2 DEF Dispatch, execdVars, TypeInv, ListsOK, DaemonsOK, MessagesOK, FaultsOK

\* Nothing is sent to a daemon that cannot be reached.
LEMMA DispatchFailsType ==
  ASSUME TypeInv, NEW j \in Jobs, NEW h \in Hosts, DispatchFails(j, h)
  PROVE  TypeInv'
BY DEF DispatchFails, SendFails, execdVars, TypeInv, ListsOK, DaemonsOK,
       MessagesOK, FaultsOK

\* A delivery is repeated.
LEMMA JobResendType ==
  ASSUME CoreInv, TypeInv, NEW j \in Jobs, JobResend(j)
  PROVE  TypeInv'
<1>1. task[j].run \in Runs /\ task[j].host \in Hosts \cup {None}
  BY DEF CoreInv, CoreType, Tasks
<1>2. task[j].status = "JTRANSFERING" => task[j].host \in Hosts
  BY <1>1 DEF CoreInv, PlacedIffBusy, Busy
<1>3. toExecd' \in [Hosts -> Seq(ToExecd)] /\ unknown' \subseteq Hosts
  BY <1>1, <1>2, MessageTypes, SentType
  DEF JobResend, Resent, SendFails, TypeInv, MessagesOK, ListsOK
<1> QED
  BY <1>3 DEF JobResend, execdVars, TypeInv, ListsOK, DaemonsOK, MessagesOK, FaultsOK

\* The entries of the host age, and what waited is read.
LEMMA BeginReportType ==
  ASSUME TypeInv, NEW h \in Hosts, BeginReport(h)
  PROVE  TypeInv'
<1> DEFINE msg == Head(toMaster[h])
<1>1. msg \in ToMaster /\ Tail(toMaster[h]) \in Seq(ToMaster)
  BY DEF BeginReport, TypeInv, MessagesOK
<1>2. msg.jrs \in [Jobs -> Seq(JobReports)]
  BY <1>1 DEF BeginReport, ToMaster
<1>3. rep' \in ReportBeingRead
  BY <1>2 DEF BeginReport, ReportBeingRead
<1>4. \A entries \in Seq(RUStates) : Age(entries) \in Seq(RUStates)
  BY DEF Age, Aged, RUStates
<1>5. ru' \in [Hosts -> [Jobs -> Seq(RUStates)]]
  BY <1>4 DEF BeginReport, TypeInv, ListsOK
<1>6. unknown' \subseteq Hosts /\ toMaster' \in [Hosts -> Seq(ToMaster)]
  BY <1>1 DEF BeginReport, TypeInv, ListsOK, MessagesOK
<1> QED
  BY <1>3, <1>5, <1>6
  DEF BeginReport, execdVars, TypeInv, ListsOK, DaemonsOK, MessagesOK, FaultsOK

\* Answering a job report.
LEMMA AnswerType ==
  ASSUME rep \in ReportBeingRead, NEW j \in Jobs, rep.jrs[j] # <<>>,
         NEW types \in Seq({"ACK_JOB_EXIT", "ACK_SIGNAL_JOB"}), Answer(j, types)
  PROVE  rep' \in ReportBeingRead
<1>1. rep.jrs \in [Jobs -> Seq(JobReports)] /\ rep.acks \in Seq(Acks)
  BY DEF ReportBeingRead
<1>2. Tail(rep.jrs[j]) \in Seq(JobReports)
  BY <1>1
<1>3. [rep.jrs EXCEPT ![j] = Tail(@)] \in [Jobs -> Seq(JobReports)]
  BY <1>1, <1>2
<1>4. [i \in DOMAIN types |-> [type |-> types[i], job |-> j]] \in Seq(Acks)
  <2>1. \A i \in 1 .. Len(types) : types[i] \in {"ACK_JOB_EXIT", "ACK_SIGNAL_JOB"}
    OBVIOUS
  <2>2. \A i \in 1 .. Len(types) : [type |-> types[i], job |-> j] \in Acks
    BY <2>1 DEF Acks
  <2>3. DOMAIN types = 1 .. Len(types) /\ Len(types) \in Nat
    OBVIOUS
  <2> QED
    BY <2>2, <2>3
<1>5. rep.acks \o [i \in DOMAIN types |-> [type |-> types[i], job |-> j]] \in Seq(Acks)
  BY <1>1, <1>4
<1> QED
  BY <1>3, <1>5 DEF Answer, ReportBeingRead

\* What the qmaster makes of the entries of a job are entries.
LEMMA EntriesType ==
  ASSUME ListsOK, NEW h \in Hosts, NEW j \in Jobs
  PROVE  /\ ru[h][j] \in Seq(RUStates) /\ Heard(ru[h][j]) \in Seq(RUStates)
         /\ AddEntry(ru[h][j], "SKIP_JR") \in Seq(RUStates)
         /\ RescheduledEntries \in Seq(RUStates)
<1>1. ru[h][j] \in Seq(RUStates)
  BY DEF ListsOK
<1>2. "SKIP_JR" \in RUStates /\ "SKIP_JR_REMOVE" \in RUStates
  BY DEF RUStates
<1>3. Heard(ru[h][j]) \in Seq(RUStates)
  BY <1>1, <1>2 DEF Heard
<1>4. \A entries \in Seq(RUStates), state \in RUStates :
        AddEntry(entries, state) \in Seq(RUStates)
  BY DEF AddEntry
<1>5. RescheduledEntries \in Seq(RUStates)
  <2>1. <<>> \in Seq(RUStates)
    OBVIOUS
  <2>2. AddEntry(<<>>, "SKIP_JR_REMOVE") \in Seq(RUStates)
    BY <1>2, <1>4, <2>1
  <2> QED
    BY <1>2, <1>4, <2>2 DEF RescheduledEntries
<1> QED
  BY <1>1, <1>2, <1>3, <1>4, <1>5

\* Whatever sge_job_exit does to the entries of a job.
LEMMA JobExitEntriesType ==
  ASSUME CoreInv, ListsOK, NEW j \in Jobs, NEW r, JobExit(j, r), task[j].status \in Busy
  PROVE  ru' \in [Hosts -> [Jobs -> Seq(RUStates)]]
<1>1. task[j].host \in Hosts
  BY DEF CoreInv, CoreType, Tasks, PlacedIffBusy
<1>2. CASE Finish(j)
  BY <1>2 DEF Finish, ListsOK
<1>3. CASE RescheduleAfterExit(j)
  BY <1>1, <1>3, EntriesType DEF RescheduleAfterExit, ListsOK
<1> QED
  BY <1>2, <1>3 DEF JobExit

\* Reading one job report.
LEMMA ProcessJobReportType ==
  ASSUME CoreInv, TypeInv, NEW j \in Jobs, ProcessJobReport(j)
  PROVE  TypeInv'
<1>1. rep \in ReportBeingRead /\ rep.jrs[j] # <<>> /\ rep.host \in Hosts
  BY DEF ProcessJobReport, TypeInv, ListsOK, ReportBeingRead
<1> DEFINE Types == {"ACK_JOB_EXIT", "ACK_SIGNAL_JOB"}
<1>2. /\ <<"ACK_SIGNAL_JOB">> \in Seq(Types) /\ <<"ACK_JOB_EXIT">> \in Seq(Types)
      /\ <<>> \in Seq(Types)
  OBVIOUS
<1>3. rep' \in ReportBeingRead /\ ru' \in [Hosts -> [Jobs -> Seq(RUStates)]]
  <2>1. CASE SkippedReport(j)
    <3>1. PICK types \in {<<"ACK_SIGNAL_JOB">>, <<"ACK_JOB_EXIT">>, <<>>} :
            Answer(j, types)
      BY <2>1 DEF SkippedReport
    <3>2. rep' \in ReportBeingRead
      BY <1>1, <1>2, <3>1, AnswerType
    <3>3. ru' \in [Hosts -> [Jobs -> Seq(RUStates)]]
      BY <1>1, <2>1, EntriesType DEF SkippedReport, TypeInv, ListsOK
    <3> QED
      BY <3>2, <3>3
  <2>2. CASE RunningReport(j)
    <3>1. PICK types \in {<<"ACK_SIGNAL_JOB">>, <<>>} : Answer(j, types)
      BY <2>2 DEF RunningReport
    <3>2. rep' \in ReportBeingRead
      BY <1>1, <1>2, <3>1, AnswerType
    <3> QED
      BY <2>2, <3>2 DEF RunningReport, TypeInv, ListsOK
  <2>3. CASE ExitReport(j)
    <3>1. rep' \in ReportBeingRead
      BY <1>1, <1>2, <2>3, AnswerType DEF ExitReport
    <3>2. ru' \in [Hosts -> [Jobs -> Seq(RUStates)]]
      BY <2>3, JobExitEntriesType DEF ExitReport, ExpectsExit, TypeInv, ListsOK
    <3> QED
      BY <3>1, <3>2
  <2> QED
    BY <2>1, <2>2, <2>3 DEF ProcessJobReport
<1> QED
  BY <1>3 DEF ProcessJobReport, execdVars, netVars, TypeInv, ListsOK, DaemonsOK,
              MessagesOK, FaultsOK

\* Settled entries are dropped and the acknowledgements are sent.
LEMMA EndReportType ==
  ASSUME TypeInv, EndReport
  PROVE  TypeInv'
<1>1. rep.host \in Hosts /\ rep.acks \in Seq(Acks)
  BY DEF EndReport, TypeInv, ListsOK, ReportBeingRead
<1>2. toExecd' \in [Hosts -> Seq(ToExecd)]
  BY <1>1, MessageTypes, SentType DEF EndReport, TypeInv, MessagesOK
<1>3. \A entries \in Seq(RUStates) : DropSettled(entries) \in Seq(RUStates)
  <2>1. ASSUME NEW entries \in Seq(RUStates)
        PROVE  DropSettled(entries) \in Seq(RUStates)
    <3> DEFINE P == {i \in DOMAIN entries : IsKept(entries[i])}
    <3>1. P \in SUBSET DOMAIN entries
      OBVIOUS
    <3> HIDE DEF P
    <3>2. Chosen(entries, P) \in Seq(RUStates)
      BY <3>1, ChosenType
    <3> QED
      BY <3>2 DEF DropSettled, P
  <2> QED
    BY <2>1
<1>4. ru' \in [Hosts -> [Jobs -> Seq(RUStates)]]
  BY <1>1, <1>3 DEF EndReport, TypeInv, ListsOK
<1> QED
  BY <1>2, <1>4 DEF EndReport, execdVars, TypeInv, ListsOK, DaemonsOK, MessagesOK,
                    FaultsOK

\* A rescheduled job gets two entries.
LEMMA RescheduleType ==
  ASSUME TypeInv, NEW h \in Hosts, NEW js, NEW manual,
         RescheduleJobs(js, h, manual)
  PROVE  ru' \in [Hosts -> [Jobs -> Seq(RUStates)]]
BY EntriesType DEF RescheduleJobs, TypeInv, ListsOK

\* The timer of an unknown host.
LEMMA RescheduleUnknownHostType ==
  ASSUME TypeInv, NEW h \in Hosts, RescheduleUnknownHost(h)
  PROVE  TypeInv'
<1>1. ru' \in [Hosts -> [Jobs -> Seq(RUStates)]]
  BY RescheduleType DEF RescheduleUnknownHost, TypeInv, ListsOK
<1> QED
  BY <1>1 DEF RescheduleUnknownHost, execdVars, netVars, TypeInv, ListsOK, DaemonsOK,
              MessagesOK, FaultsOK

\* Trouble takes one of the faults that are left.
LEMMA TroubleType ==
  ASSUME FaultsOK, NEW kind, Trouble(kind)
  PROVE  faults' \in 0 .. MaxFaults /\ faults' < MaxFaults /\ kind \in Faults
BY BoundsAssumption DEF FaultsOK, Trouble

\* qmod -rj
LEMMA RescheduleManuallyType ==
  ASSUME TypeInv, NEW j \in Jobs, RescheduleManually(j)
  PROVE  TypeInv'
<1>1. ru' \in [Hosts -> [Jobs -> Seq(RUStates)]]
  BY RescheduleType DEF RescheduleManually
<1>2. faults' \in 0 .. MaxFaults /\ faults' < MaxFaults
  BY TroubleType DEF RescheduleManually, TypeInv
<1> QED
  BY <1>1, <1>2 DEF RescheduleManually, execdVars, netVars, TypeInv, ListsOK,
                    DaemonsOK, MessagesOK, FaultsOK

\* A host becomes unknown.
LEMMA HostUnheardType ==
  ASSUME TypeInv, NEW h \in Hosts, HostUnheard(h)
  PROVE  TypeInv'
<1>1. faults' = faults \/ (faults' \in 0 .. MaxFaults /\ faults' < MaxFaults)
  <2>1. CASE UNCHANGED faults
    BY <2>1
  <2>2. CASE Trouble("unheard")
    BY <2>2, TroubleType DEF TypeInv
  <2> QED
    BY <2>1, <2>2 DEF HostUnheard
<1> QED
  BY <1>1 DEF HostUnheard, execdVars, netVars, TypeInv, ListsOK, DaemonsOK,
              MessagesOK, FaultsOK

\* A signal is sent, kept for later, or lost.
LEMMA SignalTaskType ==
  ASSUME CoreInv, TypeInv, NEW j \in Jobs, task[j].host # None, SignalTask(j)
  PROVE  toExecd' \in [Hosts -> Seq(ToExecd)]
<1>1. task[j].host \in Hosts
  BY DEF CoreInv, CoreType, Tasks
<1> QED
  BY <1>1, MessageTypes, SentType DEF SignalTask, Resent, SendFails, TypeInv, MessagesOK

\* qdel
LEMMA DeleteType ==
  ASSUME CoreInv, TypeInv, NEW j \in Jobs, Delete(j)
  PROVE  TypeInv'
<1>1. ru' \in [Hosts -> [Jobs -> Seq(RUStates)]]
  <2>1. ru \in [Hosts -> [Jobs -> Seq(RUStates)]]
    BY DEF TypeInv, ListsOK
  <2>2. CASE Finish(j)
    BY <2>1, <2>2 DEF Finish
  <2> QED
    BY <2>1, <2>2 DEF Delete
<1>2. toExecd' \in [Hosts -> Seq(ToExecd)]
  BY SignalTaskType DEF Delete, CoreInv, PlacedIffBusy, TypeInv, MessagesOK
<1> QED
  BY <1>1, <1>2 DEF Delete, execdVars, TypeInv, ListsOK, DaemonsOK, MessagesOK,
                    FaultsOK

\* The signal timer.
LEMMA SignalResendType ==
  ASSUME CoreInv, TypeInv, NEW j \in Jobs, SignalResend(j)
  PROVE  TypeInv'
<1>1. toExecd' \in [Hosts -> Seq(ToExecd)]
  BY SignalTaskType DEF SignalResend, TypeInv, MessagesOK
<1> QED
  BY <1>1 DEF SignalResend, execdVars, TypeInv, ListsOK, DaemonsOK, MessagesOK,
              FaultsOK

\* A daemon has answered a signal.
LEMMA ReceiveSignalAckType ==
  ASSUME TypeInv, NEW h \in Hosts, ReceiveSignalAck(h)
  PROVE  TypeInv'
BY DEF ReceiveSignalAck, execdVars, TypeInv, ListsOK, DaemonsOK, MessagesOK, FaultsOK

\* The usage of a finished job was debited.
LEMMA DebitedType ==
  ASSUME TypeInv, NEW j \in Jobs, Debited(j)
  PROVE  TypeInv'
BY DEF Debited, execdVars, netVars, TypeInv, ListsOK, DaemonsOK, MessagesOK, FaultsOK

-----------------------------------------------------------------------------
(* The steps of the daemons keep the types                                  *)

\* A message is taken from a connection.
LEMMA ReceiveType ==
  ASSUME TypeInv, NEW h \in Hosts, NEW i \in DOMAIN toExecd[h], NEW kind,
         Receive(h, i, kind)
  PROVE  /\ toExecd' \in [Hosts -> Seq(ToExecd)]
         /\ toExecd[h][i] \in ToExecd /\ toExecd[h][i].kind = kind
<1>1. toExecd[h] \in Seq(ToExecd)
  BY DEF TypeInv, MessagesOK
<1>2. RemoveAt(toExecd[h], i) \in Seq(ToExecd)
  BY <1>1, RemoveAtType
<1> QED
  BY <1>1, <1>2 DEF Receive, TypeInv, MessagesOK

\* A message that is a delivery has a job and a run.
LEMMA DeliveryFields ==
  ASSUME NEW msg \in ToExecd, msg.kind = "TAG_JOB_EXECUTION"
  PROVE  msg.job \in Jobs /\ msg.run \in Runs
BY DEF ToExecd

\* The three places where a job that is accepted leaves its traces.
LEMMA ReceiveJobFields ==
  ASSUME TypeInv, NEW h \in Hosts, NEW i \in DOMAIN toExecd[h], ReceiveJob(h, i)
  PROVE  /\ copy' \in [Hosts -> [Jobs -> Copies \cup {None}]]
         /\ procs' \in [Hosts -> [Jobs -> SUBSET Shepherds]]
         /\ jr' \in [Hosts -> [Jobs -> Seq(JobReports)]]
         /\ up' \subseteq Hosts
         /\ FaultsOK'
<1> DEFINE j == toExecd[h][i].job
           run == toExecd[h][i].run
<1>1. j \in Jobs /\ run \in Runs
  BY ReceiveType, DeliveryFields DEF ReceiveJob
<1> HIDE DEF j, run
<1>2. /\ \A idle \in BOOLEAN, pid \in {0, 1} :
           [run |-> run, pid |-> pid, idle |-> idle] \in Copies
      /\ Alive(run, 1) \in Shepherds
  BY <1>1, BoundsAssumption DEF Copies, Shepherds, Alive, Pids
<1>3. /\ copy \in [Hosts -> [Jobs -> Copies \cup {None}]]
      /\ procs \in [Hosts -> [Jobs -> SUBSET Shepherds]]
      /\ jr \in [Hosts -> [Jobs -> Seq(JobReports)]]
      /\ up \subseteq Hosts
      /\ FaultsOK
  BY DEF TypeInv, DaemonsOK
<1>4. /\ Written(run) \in JobReports
      /\ \A flush \in BOOLEAN : Exiting(run, "rerun", flush) \in JobReports
  BY <1>1, ReportTypes
<1>5. jr[h][j] \in Seq(JobReports)
  BY <1>1, <1>3
<1>6. Append(jr[h][j], Written(run)) \in Seq(JobReports)
  BY <1>4, <1>5
<1>7. /\ SetFirst(jr[h][j], Exiting(run, "rerun", FALSE)) \in Seq(JobReports)
      /\ SetFirst(Append(jr[h][j], Written(run)), Exiting(run, "rerun", TRUE))
           \in Seq(JobReports)
  BY <1>4, <1>5, <1>6, FirstType
<1> DEFINE Keeps == /\ copy' \in [Hosts -> [Jobs -> Copies \cup {None}]]
                    /\ procs' \in [Hosts -> [Jobs -> SUBSET Shepherds]]
                    /\ jr' \in [Hosts -> [Jobs -> Seq(JobReports)]]
                    /\ up' \subseteq Hosts
                    /\ FaultsOK'
<1>8. CASE UNCHANGED <<up, copy, jr, procs, faults>>
  BY <1>3, <1>8 DEF FaultsOK
<1>9. CASE /\ copy' = [copy EXCEPT ![h][j] =
                         [run |-> run, pid |-> 1, idle |-> FALSE]]
           /\ procs' = [procs EXCEPT ![h][j] = @ \cup {Alive(run, 1)}]
           /\ jr' = [jr EXCEPT ![h][j] = Append(@, Written(run))]
           /\ UNCHANGED <<up, faults>>
  <2>1. FaultsOK'
    BY <1>1, <1>3, <1>9 DEF FaultsOK
  <2>2. copy' \in [Hosts -> [Jobs -> Copies \cup {None}]]
    BY <1>1, <1>2, <1>3, <1>9
  <2>3. jr' \in [Hosts -> [Jobs -> Seq(JobReports)]]
    BY <1>1, <1>3, <1>6, <1>9
  <2>4. procs' \in [Hosts -> [Jobs -> SUBSET Shepherds]]
    BY <1>1, <1>2, <1>3, <1>9
  <2> QED
    BY <1>3, <1>9, <2>1, <2>2, <2>3, <2>4
<1>10. CASE /\ Trouble("start_fails")
            /\ jr' = [jr EXCEPT ![h][j] = SetFirst(@, Exiting(run, "rerun", FALSE))]
            /\ UNCHANGED <<up, copy, procs>>
  <2>1. FaultsOK'
    BY <1>3, <1>10, TroubleType DEF FaultsOK
  <2>2. jr' \in [Hosts -> [Jobs -> Seq(JobReports)]]
    BY <1>1, <1>3, <1>7, <1>10
  <2> QED
    BY <1>3, <1>10, <2>1, <2>2
<1>11. CASE /\ Trouble("start_fails")
            /\ copy' = [copy EXCEPT ![h][j] =
                          [run |-> run, pid |-> 0, idle |-> TRUE]]
            /\ jr' = [jr EXCEPT ![h][j] =
                 SetFirst(Append(@, Written(run)), Exiting(run, "rerun", TRUE))]
            /\ UNCHANGED <<up, procs>>
  <2>1. FaultsOK'
    BY <1>1, <1>3, <1>11, TroubleType DEF FaultsOK
  <2>2. copy' \in [Hosts -> [Jobs -> Copies \cup {None}]]
    BY <1>1, <1>2, <1>3, <1>11
  <2>3. jr' \in [Hosts -> [Jobs -> Seq(JobReports)]]
    BY <1>1, <1>3, <1>7, <1>11
  <2> QED
    BY <1>3, <1>11, <2>1, <2>2, <2>3
<1>12. CASE /\ Trouble("crash_starting")
            /\ up' = up \ {h}
            /\ jr' = [jr EXCEPT ![h] = NoReports]
            /\ \/ /\ copy' = [copy EXCEPT ![h][j] =
                                [run |-> run, pid |-> 0, idle |-> TRUE]]
                  /\ UNCHANGED procs
               \/ /\ copy' = [copy EXCEPT ![h][j] =
                                [run |-> run, pid |-> 1, idle |-> TRUE]]
                  /\ procs' = [procs EXCEPT ![h][j] = @ \cup {Alive(run, 1)}]
  <2>5. PICK pid \in {0, 1} :
          copy' = [copy EXCEPT ![h][j] = [run |-> run, pid |-> pid, idle |-> TRUE]]
    BY <1>12
  <2>6. procs' = procs \/ procs' = [procs EXCEPT ![h][j] = @ \cup {Alive(run, 1)}]
    BY <1>12
  <2>7. faults' \in 0 .. MaxFaults /\ faults' < MaxFaults
    BY <1>3, <1>12, TroubleType
  <2>1. FaultsOK'
    BY <1>1, <1>3, <2>5, <2>7 DEF FaultsOK
  <2>2. copy' \in [Hosts -> [Jobs -> Copies \cup {None}]]
    BY <1>1, <1>2, <1>3, <2>5
  <2>3. procs' \in [Hosts -> [Jobs -> SUBSET Shepherds]]
    <3>1. CASE procs' = procs
      BY <1>3, <3>1
    <3>2. CASE procs' = [procs EXCEPT ![h][j] = @ \cup {Alive(run, 1)}]
      BY <1>1, <1>2, <1>3, <3>2
    <3> QED
      BY <2>6, <3>1, <3>2
  <2>4. jr' \in [Hosts -> [Jobs -> Seq(JobReports)]]
    BY <1>3, <1>12 DEF NoReports
  <2> QED
    BY <1>3, <1>12, <2>1, <2>2, <2>3, <2>4
<1> QED
  BY <1>8, <1>9, <1>10, <1>11, <1>12 DEF ReceiveJob, j, run

\* A daemon accepts or ignores a job.
LEMMA ReceiveJobType ==
  ASSUME TypeInv, NEW h \in Hosts, NEW i \in DOMAIN toExecd[h], ReceiveJob(h, i)
  PROVE  TypeInv'
<1>1. toExecd' \in [Hosts -> Seq(ToExecd)]
  BY ReceiveType DEF ReceiveJob
<1>2. /\ copy' \in [Hosts -> [Jobs -> Copies \cup {None}]]
      /\ procs' \in [Hosts -> [Jobs -> SUBSET Shepherds]]
      /\ jr' \in [Hosts -> [Jobs -> Seq(JobReports)]]
      /\ up' \subseteq Hosts
      /\ FaultsOK'
  BY ReceiveJobFields
<1>3. UNCHANGED <<acking, qmVars, toMaster>>
  BY DEF ReceiveJob
<1> QED
  BY <1>1, <1>2, <1>3 DEF qmVars, TypeInv, ListsOK, DaemonsOK, MessagesOK

\* A job that is killed keeps its copy.
LEMMA KillType ==
  ASSUME DaemonsOK, NEW h \in Hosts, NEW j \in Jobs, Kill(h, j)
  PROVE  /\ copy' = copy
         /\ procs' \in [Hosts -> [Jobs -> SUBSET Shepherds]]
         /\ jr' \in [Hosts -> [Jobs -> Seq(JobReports)]]
<1>1. Exiting(0, "ended", FALSE) \in JobReports
  BY RunZero, ReportTypes
<1>2. procs[h][j] \subseteq Shepherds
  BY DEF DaemonsOK
<1>3. \A p \in procs[h][j] : [p EXCEPT !.dying = TRUE] \in Shepherds
  BY <1>2 DEF Shepherds
<1> DEFINE killed == {IF p.run = copy[h][j].run /\ p.pid = copy[h][j].pid
                       THEN [p EXCEPT !.dying = TRUE] ELSE p : p \in procs[h][j]}
<1>4. killed \subseteq Shepherds
  BY <1>2, <1>3
<1>5. CASE copy[h][j] # None
  <2>1. procs' = [procs EXCEPT ![h][j] = killed] /\ UNCHANGED <<copy, jr>>
    BY <1>5 DEF Kill
  <2> HIDE DEF killed
  <2> QED
    BY <1>4, <2>1 DEF DaemonsOK
<1>6. CASE copy[h][j] = None
  <2>1. \A r \in JobReports : <<r>> \in Seq(JobReports)
    OBVIOUS
  <2>2. /\ jr' = [jr EXCEPT ![h][j] = <<Exiting(0, "ended", FALSE)>>]
        /\ UNCHANGED <<copy, procs>>
    BY <1>6 DEF Kill
  <2> QED
    BY <1>1, <2>1, <2>2 DEF DaemonsOK
<1> QED
  BY <1>5, <1>6

\* A daemon kills a job and answers.
LEMMA ReceiveSignalType ==
  ASSUME TypeInv, NEW h \in Hosts, NEW i \in DOMAIN toExecd[h], ReceiveSignal(h, i)
  PROVE  TypeInv'
<1> DEFINE j == toExecd[h][i].job
<1>1. toExecd' \in [Hosts -> Seq(ToExecd)] /\ j \in Jobs
  BY ReceiveType DEF ReceiveSignal, ToExecd
<1>2. Kill(h, j) /\ toMaster' = [toMaster EXCEPT ![h] = Append(@, SignalAck(j))]
  BY DEF ReceiveSignal
<1>3. UNCHANGED <<up, acking, qmVars, faults>>
  BY DEF ReceiveSignal
<1> HIDE DEF j
<1>4. toMaster' \in [Hosts -> Seq(ToMaster)]
  BY <1>1, <1>2, MessageTypes DEF TypeInv, MessagesOK
<1>5. /\ copy' = copy
      /\ procs' \in [Hosts -> [Jobs -> SUBSET Shepherds]]
      /\ jr' \in [Hosts -> [Jobs -> Seq(JobReports)]]
  BY <1>1, <1>2, KillType DEF TypeInv
<1> QED
  BY <1>1, <1>3, <1>4, <1>5 DEF qmVars, TypeInv, ListsOK, DaemonsOK, MessagesOK, FaultsOK

\* A daemon takes a message with acknowledgements.
LEMMA ReceiveAcksType ==
  ASSUME TypeInv, NEW h \in Hosts, NEW i \in DOMAIN toExecd[h], ReceiveAcks(h, i)
  PROVE  TypeInv'
<1>1. toExecd' \in [Hosts -> Seq(ToExecd)] /\ toExecd[h][i].acks \in Seq(Acks)
  BY ReceiveType DEF ReceiveAcks, ToExecd
<1> QED
  BY <1>1 DEF ReceiveAcks, qmVars, TypeInv, ListsOK, DaemonsOK, MessagesOK, FaultsOK

\* An acknowledgement removes or kills a job.
LEMMA HandleAckType ==
  ASSUME TypeInv, NEW h \in Hosts, HandleAck(h)
  PROVE  TypeInv'
<1> DEFINE ack == Head(acking[h])
<1>1. ack \in Acks /\ Tail(acking[h]) \in Seq(Acks)
  BY DEF HandleAck, TypeInv, DaemonsOK
<1>2. ack.job \in Jobs
  BY <1>1 DEF Acks
<1>3. UNCHANGED <<up, qmVars, netVars, faults>>
  BY DEF HandleAck
<1>4. acking' \in [Hosts -> Seq(Acks)]
  BY <1>1 DEF HandleAck, TypeInv, DaemonsOK
<1>5. /\ copy' \in [Hosts -> [Jobs -> Copies \cup {None}]]
      /\ \A g \in Hosts, j \in Jobs : copy'[g][j] \in {None, copy[g][j]}
      /\ procs' \in [Hosts -> [Jobs -> SUBSET Shepherds]]
      /\ jr' \in [Hosts -> [Jobs -> Seq(JobReports)]]
  <2>1. CASE RemoveAckedJobExit(h, ack.job) /\ UNCHANGED procs
    <3>1. jr[h][ack.job] # <<>> => Tail(jr[h][ack.job]) \in Seq(JobReports)
      BY <1>2 DEF TypeInv, DaemonsOK
    <3>2. <<>> \in Seq(JobReports)
      OBVIOUS
    <3> HIDE DEF ack
    <3>3. CASE UNCHANGED <<copy, jr>>
      BY <2>1, <3>3 DEF TypeInv, DaemonsOK
    <3>4. CASE /\ jr[h][ack.job] # <<>>
               /\ copy' = [copy EXCEPT ![h][ack.job] = None]
               /\ jr' = [jr EXCEPT ![h][ack.job] =
                           IF copy[h][ack.job] = None THEN <<>> ELSE Tail(@)]
      BY <1>2, <2>1, <3>1, <3>2, <3>4 DEF TypeInv, DaemonsOK
    <3> QED
      BY <2>1, <3>3, <3>4 DEF RemoveAckedJobExit
  <2>2. CASE Kill(h, ack.job)
    BY <1>2, <2>2, KillType DEF TypeInv, DaemonsOK
  <2> QED
    BY <2>1, <2>2 DEF HandleAck
<1> QED
  BY <1>3, <1>4, <1>5
  DEF qmVars, netVars, TypeInv, ListsOK, DaemonsOK, MessagesOK, FaultsOK

\* A shepherd ends.
LEMMA ShepherdEndsType ==
  ASSUME TypeInv, NEW h \in Hosts, NEW j \in Jobs, NEW p, ShepherdEnds(h, j, p)
  PROVE  TypeInv'
BY DEF ShepherdEnds, qmVars, netVars, TypeInv, ListsOK, DaemonsOK, MessagesOK, FaultsOK

\* A daemon notices that a shepherd ended.
LEMMA ReapType ==
  ASSUME TypeInv, NEW h \in Hosts, NEW j \in Jobs, Reap(h, j)
  PROVE  TypeInv'
<1>1. copy[h][j].run \in Runs
  BY DEF Reap, TypeInv, DaemonsOK, Copies
<1>2. /\ jr[h][j] \in Seq(JobReports) /\ jr[h][j] # <<>>
      /\ \A how \in {"ended", "rerun"} :
           Exiting(copy[h][j].run, how, TRUE) \in JobReports
  <2>1. jr[h][j] \in Seq(JobReports) /\ jr[h][j] # <<>>
    BY DEF Reap, TypeInv, DaemonsOK
  <2> QED
    BY <1>1, <2>1, ReportTypes
<1>3. \A r \in JobReports : [jr[h][j] EXCEPT ![1] = r] \in Seq(JobReports)
  BY <1>2
<1>4. jr' \in [Hosts -> [Jobs -> Seq(JobReports)]]
  <2>1. PICK how \in {"ended", "rerun"} :
          jr' = [jr EXCEPT ![h][j][1] = Exiting(copy[h][j].run, how, TRUE)]
    BY DEF Reap
  <2>2. jr' = [jr EXCEPT ![h][j] =
                 [jr[h][j] EXCEPT ![1] = Exiting(copy[h][j].run, how, TRUE)]]
    BY <2>1
  <2> QED
    BY <1>2, <1>3, <2>2 DEF TypeInv, DaemonsOK
<1>5. FaultsOK'
  BY TroubleType DEF Reap, TypeInv, FaultsOK
<1> QED
  BY <1>4, <1>5 DEF Reap, qmVars, netVars, TypeInv, ListsOK, DaemonsOK, MessagesOK

\* Job reports in a message are job reports.
LEMMA UnflushedType ==
  ASSUME NEW reports \in Seq(JobReports)
  PROVE  Unflushed(reports) \in Seq(JobReports)
<1>1. \A r \in JobReports : [r EXCEPT !.flush = FALSE] \in JobReports
  BY DEF JobReports
<1> QED
  BY <1>1 DEF Unflushed

\* A report message, full or not.
LEMMA SendMessageType ==
  ASSUME TypeInv, NEW h \in Hosts, NEW load \in BOOLEAN, NEW which,
         SendMessage(h, load, which),
         UNCHANGED <<up, copy, acking, procs, qmVars, toExecd, faults>>
  PROVE  TypeInv'
<1> DEFINE Due(j) == {i \in DOMAIN jr[h][j] : Included(jr[h][j][i], which)}
           New(j) == [i \in DOMAIN jr[h][j] |->
                        IF i \in Due(j) THEN [jr[h][j][i] EXCEPT !.flush = FALSE]
                        ELSE jr[h][j][i]]
           Msg == [kind |-> "TAG_REPORT_REQUEST", load |-> load,
                   jrs |-> [j \in Jobs |-> Unflushed(Chosen(jr[h][j], Due(j)))]]
<1>1. ASSUME NEW j \in Jobs
      PROVE  /\ Unflushed(Chosen(jr[h][j], Due(j))) \in Seq(JobReports)
             /\ New(j) \in Seq(JobReports)
  <2>1. jr[h][j] \in Seq(JobReports) /\ Due(j) \in SUBSET DOMAIN jr[h][j]
    BY DEF TypeInv, DaemonsOK
  <2>2. Unflushed(Chosen(jr[h][j], Due(j))) \in Seq(JobReports)
    <3> HIDE DEF Due
    <3> QED
      BY <2>1, ChosenType, UnflushedType
  <2>3. \A i \in DOMAIN jr[h][j] :
          jr[h][j][i] \in JobReports /\ [jr[h][j][i] EXCEPT !.flush = FALSE] \in JobReports
    <3>1. \A r \in JobReports : [r EXCEPT !.flush = FALSE] \in JobReports
      BY DEF JobReports
    <3> QED
      BY <2>1, <3>1
  <2>4. New(j) \in Seq(JobReports)
    <3> HIDE DEF Due
    <3> QED
      BY <2>1, <2>3
  <2> QED
    BY <2>2, <2>4
<1>2. /\ toMaster' = [toMaster EXCEPT ![h] = Append(@, Msg)]
      /\ jr' = [jr EXCEPT ![h] = [j \in Jobs |-> New(j)]]
  BY DEF SendMessage, TypeInv, DaemonsOK
<1> HIDE DEF Due, New
<1>3. Msg \in ToMaster
  BY <1>1 DEF ToMaster
<1> HIDE DEF Msg
<1>4. toMaster' \in [Hosts -> Seq(ToMaster)]
  BY <1>2, <1>3 DEF TypeInv, MessagesOK
<1>5. jr' \in [Hosts -> [Jobs -> Seq(JobReports)]]
  BY <1>1, <1>2 DEF TypeInv, DaemonsOK
<1> QED
  BY <1>4, <1>5 DEF qmVars, TypeInv, ListsOK, DaemonsOK, MessagesOK, FaultsOK

\* A daemon dies.
LEMMA CrashType ==
  ASSUME TypeInv, NEW h \in Hosts, Crash(h)
  PROVE  TypeInv'
<1>1. FaultsOK'
  BY TroubleType DEF Crash, TypeInv, FaultsOK
<1>2. <<>> \in Seq(JobReports) /\ <<>> \in Seq(Acks) /\ <<>> \in Seq(ToExecd)
  OBVIOUS
<1> QED
  BY <1>1, <1>2 DEF Crash, NoReports, qmVars, TypeInv, ListsOK, DaemonsOK, MessagesOK

\* What a daemon finds of a job when it starts.
LEMMA FoundType ==
  ASSUME DaemonsOK, NEW h \in Hosts, NEW j \in Jobs
  PROVE  Found(h, j) \in Seq(JobReports)
<1>1. CASE copy[h][j] = None
  BY <1>1 DEF Found
<1>2. CASE copy[h][j] # None
  <2>1. copy[h][j].run \in Runs
    BY <1>2 DEF DaemonsOK, Copies
  <2>2. /\ [Written(copy[h][j].run) EXCEPT !.flush = FALSE] \in JobReports
        /\ Exiting(copy[h][j].run, "rerun", FALSE) \in JobReports
        /\ Exiting(copy[h][j].run, "ended", TRUE) \in JobReports
    BY <2>1, ReportTypes DEF JobReports
  <2> QED
    <3>1. \A r \in JobReports : <<r>> \in Seq(JobReports)
      OBVIOUS
    <3> QED
      BY <1>2, <2>2, <3>1 DEF Found
<1> QED
  BY <1>1, <1>2

\* A daemon starts again.
LEMMA RestartType ==
  ASSUME TypeInv, NEW h \in Hosts, Restart(h)
  PROVE  TypeInv'
<1> DEFINE IsIdle(j) == copy[h][j] # None /\ copy[h][j].idle
           NewCopy(j) == IF IsIdle(j)
                         THEN [copy[h][j] EXCEPT !.pid = @ + 1, !.idle = FALSE]
                         ELSE copy[h][j]
           NewProcs(j) == IF IsIdle(j)
             THEN procs[h][j] \cup {Alive(copy[h][j].run, copy[h][j].pid + 1)}
             ELSE procs[h][j]
<1>1. ASSUME NEW j \in Jobs
      PROVE  /\ NewCopy(j) \in Copies \cup {None}
             /\ NewCopy(j) # None => (NewCopy(j).idle => copy[h][j] # None /\ copy[h][j].idle
                                        /\ NewCopy(j).pid = copy[h][j].pid)
             /\ NewProcs(j) \subseteq Shepherds
  <2>1. procs[h][j] \subseteq Shepherds /\ copy[h][j] \in Copies \cup {None}
    BY DEF TypeInv, DaemonsOK
  <2>2. CASE ~IsIdle(j)
    BY <2>1, <2>2
  <2>3. CASE IsIdle(j)
    <3>1. copy[h][j] \in Copies
      BY <2>1, <2>3
    <3>2. copy[h][j].pid \in {0, 1} /\ MaxFaults >= 1 /\ MaxFaults \in Nat
      BY <2>3, BoundsAssumption DEF TypeInv, FaultsOK
    <3>3. copy[h][j].pid + 1 \in Pids
      BY <3>2 DEF Pids
    <3>4. NewCopy(j) \in Copies /\ ~NewCopy(j).idle
      BY <2>3, <3>1, <3>3 DEF Copies
    <3>5. Alive(copy[h][j].run, copy[h][j].pid + 1) \in Shepherds
      BY <3>1, <3>3 DEF Copies, Shepherds, Alive
    <3> QED
      BY <2>1, <2>3, <3>4, <3>5
  <2> QED
    BY <2>2, <2>3
<1>2. /\ up' = up \cup {h}
      /\ jr' = [jr EXCEPT ![h] = [j \in Jobs |-> Found(h, j)]]
      /\ copy' = [copy EXCEPT ![h] = [j \in Jobs |-> NewCopy(j)]]
      /\ procs' = [procs EXCEPT ![h] = [j \in Jobs |-> NewProcs(j)]]
      /\ UNCHANGED <<acking, qmVars, netVars, faults>>
  <2>1. /\ up' = up \cup {h}
        /\ jr' = [jr EXCEPT ![h] = [j \in Jobs |-> Found(h, j)]]
    BY DEF Restart
  <2>2. copy' = [copy EXCEPT ![h] = [j \in Jobs |-> NewCopy(j)]]
    BY DEF Restart
  <2>3. procs' = [procs EXCEPT ![h] = [j \in Jobs |-> NewProcs(j)]]
    BY DEF Restart
  <2>4. UNCHANGED <<acking, qmVars, netVars, faults>>
    BY DEF Restart
  <2> QED
    BY <2>1, <2>2, <2>3, <2>4
<1> HIDE DEF NewCopy, NewProcs, IsIdle
<1>3. copy' \in [Hosts -> [Jobs -> Copies \cup {None}]]
  BY <1>1, <1>2 DEF TypeInv, DaemonsOK
<1>4. procs' \in [Hosts -> [Jobs -> SUBSET Shepherds]]
  BY <1>1, <1>2 DEF TypeInv, DaemonsOK
<1>5. jr' \in [Hosts -> [Jobs -> Seq(JobReports)]]
  BY <1>2, FoundType DEF TypeInv, DaemonsOK
<1>6. FaultsOK'
  BY <1>1, <1>2 DEF TypeInv, DaemonsOK, FaultsOK
<1> QED
  BY <1>2, <1>3, <1>4, <1>5, <1>6
  DEF qmVars, netVars, TypeInv, ListsOK, DaemonsOK, MessagesOK

\* A connection breaks.
LEMMA LoseConnectionType ==
  ASSUME TypeInv, NEW h \in Hosts, LoseConnection(h)
  PROVE  TypeInv'
<1>1. FaultsOK'
  BY TroubleType DEF LoseConnection, execdVars, TypeInv, FaultsOK
<1>2. <<>> \in Seq(ToMaster) /\ <<>> \in Seq(ToExecd)
  OBVIOUS
<1> QED
  BY <1>1, <1>2 DEF LoseConnection, qmVars, execdVars, TypeInv, ListsOK, DaemonsOK,
                    MessagesOK

-----------------------------------------------------------------------------
(* The theorem                                                              *)

\* Every step keeps the types.
LEMMA TypeStep ==
  ASSUME CoreInv, TypeInv, [Next]_vars
  PROVE  TypeInv'
<1>1. CASE QmasterStep
  <2>1. CASE EndReport
    BY <2>1, EndReportType
  <2>2. ASSUME NEW j \in Jobs,
               \/ JobResend(j) \/ ProcessJobReport(j) \/ RescheduleManually(j)
               \/ Delete(j) \/ SignalResend(j) \/ Debited(j)
        PROVE  TypeInv'
    BY <2>2, JobResendType, ProcessJobReportType, RescheduleManuallyType, DeleteType,
       SignalResendType, DebitedType
  <2>3. ASSUME NEW j \in Jobs, NEW h \in Hosts, Dispatch(j, h) \/ DispatchFails(j, h)
        PROVE  TypeInv'
    BY <2>3, DispatchType, DispatchFailsType
  <2>4. ASSUME NEW h \in Hosts,
               \/ BeginReport(h) \/ ReceiveSignalAck(h)
               \/ RescheduleUnknownHost(h) \/ HostUnheard(h)
        PROVE  TypeInv'
    BY <2>4, BeginReportType, ReceiveSignalAckType, RescheduleUnknownHostType,
       HostUnheardType
  <2> QED
    BY <1>1, <2>1, <2>2, <2>3, <2>4 DEF QmasterStep
<1>2. ASSUME NEW h \in Hosts, ExecdStep(h)
      PROVE  TypeInv'
  <2>1. ASSUME NEW i \in DOMAIN toExecd[h],
               ReceiveJob(h, i) \/ ReceiveSignal(h, i) \/ ReceiveAcks(h, i)
        PROVE  TypeInv'
    BY <2>1, ReceiveJobType, ReceiveSignalType, ReceiveAcksType
  <2>2. ASSUME NEW j \in Jobs, Reap(h, j)
        PROVE  TypeInv'
    BY <2>2, ReapType
  <2>3. ASSUME NEW j \in Jobs, NEW p \in procs[h][j], ShepherdEnds(h, j, p)
        PROVE  TypeInv'
    BY <2>3, ShepherdEndsType
  <2>4. CASE SendFullReport(h)
    BY <2>4, SendMessageType DEF SendFullReport
  <2>5. CASE SendPartialReport(h)
    BY <2>5, SendMessageType DEF SendPartialReport
  <2>6. CASE HandleAck(h) \/ Crash(h) \/ Restart(h) \/ LoseConnection(h)
    BY <2>6, HandleAckType, CrashType, RestartType, LoseConnectionType
  <2> QED
    BY <1>2, <2>1, <2>2, <2>3, <2>4, <2>5, <2>6 DEF ExecdStep
<1>3. CASE UNCHANGED vars
  BY <1>3 DEF vars, qmVars, execdVars, netVars, TypeInv, ListsOK, DaemonsOK,
              MessagesOK, FaultsOK
<1> QED
  BY <1>1, <1>2, <1>3 DEF Next

\* TypeInv is inductive with CoreInv: what is sent again goes to a granted host.
LEMMA TypeIsInvariant == Spec => []TypeInv
<1>1. Init => TypeInv
  BY TypeInit
<1>2. CoreInv /\ TypeInv /\ [Next]_vars => TypeInv'
  BY TypeStep
<1> QED
  BY <1>1, <1>2, CoreIsInvariant, PTL DEF Spec

\* Every variable keeps its type, whatever daemons, connections and users do:
\* lists, messages, processes and the slots of a queue instance.
THEOREM DeliveryTypeCorrect == Spec => []TypeOK
<1>1. CoreInv /\ TypeInv /\ (\A h \in Hosts : used[h] \in 0 .. Slots) => TypeOK
  BY DEF CoreInv, CoreType, TypeInv, ListsOK, DaemonsOK, MessagesOK, FaultsOK, TypeOK
<1> QED
  BY <1>1, CoreIsInvariant, TypeIsInvariant, NeverOverbooked, PTL

-----------------------------------------------------------------------------
(***************************************************************************)
(* What JobDelivery promises about processes and instances as long as      *)
(* nothing disturbs the exchange between the daemons: no daemon dies, no   *)
(* connection breaks, a job that is accepted starts, and a daemon sends    *)
(* full reports, one at a time.  Hosts may still become unknown while      *)
(* their daemons live, users may reschedule jobs, and jobs may ask for     *)
(* another run.  With any other kind of trouble the promises do not hold.  *)
(*                                                                         *)
(* None of the messages names the instance it is about.  What makes them   *)
(* unambiguous is where a job can be: a job that is granted to a host, or  *)
(* has no entry in the list of a host, has left no trace there that speaks *)
(* of another instance (AtItsHost, NoEntryIsAbsent), and an entry is       *)
(* dropped only after a report that the job was missing from               *)
(* (LastEntryIsAbsent).                                                    *)
(***************************************************************************)

\* The trouble under which the theorems of this part hold.
Undisturbed == Faults \subseteq {"unheard", "manual", "rerun"}

InSeq(e, s) == \E i \in DOMAIN s : s[i] = e

-----------------------------------------------------------------------------
(* What is on its way                                                       *)

IsDelivery(m, j) == m.kind = "TAG_JOB_EXECUTION" /\ m.job = j
IsSignal(m, j) == m.kind = "TAG_SIGJOB" /\ m.job = j
IsAcks(m) == m.kind = "TAG_ACK_REQUEST"
IsReport(m) == m.kind = "TAG_REPORT_REQUEST"

AckTypes == {"ACK_JOB_EXIT", "ACK_SIGNAL_JOB"}
Ack(type, j) == [type |-> type, job |-> j]
ExitAck(j) == Ack("ACK_JOB_EXIT", j)

\* Messages to daemon h.
DeliveryWaits(h, j) == \E i \in DOMAIN toExecd[h] : IsDelivery(toExecd[h][i], j)
SignalWaits(h, j) == \E i \in DOMAIN toExecd[h] : IsSignal(toExecd[h][i], j)
AcksWait(h) == \E i \in DOMAIN toExecd[h] : IsAcks(toExecd[h][i])
AckWaits(h, a) ==
  \E i \in DOMAIN toExecd[h] : IsAcks(toExecd[h][i]) /\ InSeq(a, toExecd[h][i].acks)

OneAckMessage(h) == \A i, k \in DOMAIN toExecd[h] :
  IsAcks(toExecd[h][i]) /\ IsAcks(toExecd[h][k]) => i = k

DeliveryRun(h, j, run) == \A i \in DOMAIN toExecd[h] :
  IsDelivery(toExecd[h][i], j) => toExecd[h][i].run = run

\* A job is delivered before it is signaled.
DeliveredBeforeSignal(h, j) == \A i, k \in DOMAIN toExecd[h] :
  IsDelivery(toExecd[h][i], j) /\ IsSignal(toExecd[h][k], j) => i < k

\* A delivery is received before the exit is acknowledged.
DeliveredBeforeExit(h, j) == \A i, k \in DOMAIN toExecd[h] :
  /\ IsDelivery(toExecd[h][i], j)
  /\ IsAcks(toExecd[h][k]) /\ InSeq(ExitAck(j), toExecd[h][k].acks)
  => i < k

\* Messages from daemon h.
ReportWaits(h) == \E i \in DOMAIN toMaster[h] : IsReport(toMaster[h][i])
ReportIsFirst(h) == \A i \in DOMAIN toMaster[h] : IsReport(toMaster[h][i]) => i = 1
WaitsAbout(h, j, r) == \E i \in DOMAIN toMaster[h] :
  IsReport(toMaster[h][i]) /\ InSeq(r, toMaster[h][i].jrs[j])
WaitsWithout(h, j) == \E i \in DOMAIN toMaster[h] :
  IsReport(toMaster[h][i]) /\ toMaster[h][i].jrs[j] = <<>>

\* The report that is read, and the acknowledgements packed so far.
ReportIsRead(h) == rep # None /\ rep.host = h
ReadAbout(h, j, r) == ReportIsRead(h) /\ InSeq(r, rep.jrs[j])
ReadWithout(h, j) == ReportIsRead(h) /\ rep.jrs[j] = <<>>
Packed(h, a) == ReportIsRead(h) /\ InSeq(a, rep.acks)

\* The acknowledgements that the daemon handles.
Handled(h, a) == InSeq(a, acking[h])

\* Job report r about j, or acknowledgement a, is somewhere between the daemon's
\* list and the daemon's handler.
Reported(h, j, r) == WaitsAbout(h, j, r) \/ ReadAbout(h, j, r)
Acked(h, a) == Packed(h, a) \/ AckWaits(h, a) \/ Handled(h, a)

-----------------------------------------------------------------------------
(* The invariant                                                            *)

Ended(h, j) == jr[h][j] # <<>> /\ jr[h][j][1].state = "JEXITING"

\* A report, its acknowledgements and their handling follow each other.
OneExchange(h) ==
  /\ ReportIsFirst(h) /\ OneAckMessage(h)
  /\ ReportWaits(h) => ~ReportIsRead(h) /\ ~AcksWait(h) /\ acking[h] = <<>>
  /\ ReportIsRead(h) => ~AcksWait(h) /\ acking[h] = <<>>
  /\ AcksWait(h) => acking[h] = <<>>

CopyIsStarted(h, j) ==
  copy[h][j] # None => copy[h][j].pid = 1 /\ ~copy[h][j].idle

ProcsAreListed(h, j) == \A p \in procs[h][j] :
  copy[h][j] # None /\ copy[h][j].run = p.run /\ copy[h][j].pid = p.pid

\* Every copy has one report; a report without a copy is that of a job which
\* the daemon did not know.
OneReport(h, j) ==
  /\ \A i \in DOMAIN jr[h][j] : i = 1
  /\ copy[h][j] # None =>
       /\ jr[h][j] # <<>> /\ jr[h][j][1].run = copy[h][j].run
       /\ Ended(h, j) => procs[h][j] = {}
  /\ copy[h][j] = None /\ jr[h][j] # <<>> => Ended(h, j)

\* An exit that was reported stays true until it is acknowledged.
ExitsStand(h, j) ==
  /\ \A r \in JobReports : Reported(h, j, r) /\ r.state = "JEXITING" => Ended(h, j)
  /\ Acked(h, ExitAck(j)) => copy[h][j] = None \/ Ended(h, j)

\* No delivery of the job is left when its copy is removed.
NoDeliveryAfterExit(h, j) ==
  /\ DeliveredBeforeExit(h, j)
  /\ Handled(h, ExitAck(j)) => ~DeliveryWaits(h, j)

\* A job that is delivered and not yet known has no other trace at the host.
NewIsUnknown(h, j) ==
  copy[h][j] = None /\ DeliveryWaits(h, j) =>
    /\ jr[h][j] = <<>>
    /\ \A r \in JobReports : ~Reported(h, j, r)
    /\ \A t \in AckTypes : ~Acked(h, Ack(t, j))
    /\ DeliveredBeforeSignal(h, j)

\* At the host it is granted to, a job has traces of this instance only.
AtItsHost(h, j) == task[j].host = h =>
  /\ ru[h][j] = <<>>
  /\ ~Acked(h, ExitAck(j))
  /\ copy[h][j] = None => DeliveryWaits(h, j)
  /\ copy[h][j] # None => copy[h][j].run = task[j].run
  /\ DeliveryRun(h, j, task[j].run)
  /\ \A r \in JobReports : Reported(h, j, r) => r.run = task[j].run

Over(j) == task[j].status \in {"JFINISHED", "gone"}
Elsewhere(h, j) == ~Over(j) /\ task[j].host # h

Absent(h, j) ==
  /\ copy[h][j] = None /\ jr[h][j] = <<>>
  /\ ~DeliveryWaits(h, j) /\ ~SignalWaits(h, j)
  /\ \A t \in AckTypes : ~Acked(h, Ack(t, j))

\* A host without an entry of the job has no trace of it.
NoEntryIsAbsent(h, j) ==
  Elsewhere(h, j) /\ ru[h][j] = <<>> =>
    Absent(h, j) /\ \A r \in JobReports : ~Reported(h, j, r)

\* The entries would be dropped at the end of a report that waits, or of the
\* one that is read, if the job was not reported.
DropsNext(entries) == \A n \in DOMAIN entries : entries[n] # "SKIP_JR"
DropsNow(entries) == \A n \in DOMAIN entries : entries[n] = "SKIP_JR_REMOVE"

\* The last entries of a job are dropped only when it has left the host.
LastEntryIsAbsent(h, j) == Elsewhere(h, j) =>
  /\ WaitsWithout(h, j) /\ DropsNext(ru[h][j]) => Absent(h, j)
  /\ ReadWithout(h, j) /\ DropsNow(ru[h][j]) => Absent(h, j)

Orderly(h, j) ==
  /\ CopyIsStarted(h, j) /\ ProcsAreListed(h, j) /\ OneReport(h, j)
  /\ ExitsStand(h, j) /\ NoDeliveryAfterExit(h, j) /\ NewIsUnknown(h, j)
  /\ AtItsHost(h, j) /\ NoEntryIsAbsent(h, j) /\ LastEntryIsAbsent(h, j)

UndisturbedInv ==
  /\ up = Hosts
  /\ \A h \in Hosts : OneExchange(h)
  /\ \A h \in Hosts, j \in Jobs : Orderly(h, j)

-----------------------------------------------------------------------------
(* Messages that are sent and received                                      *)

\* What Append adds.
LEMMA AppendElements ==
  ASSUME NEW S, NEW s \in Seq(S), NEW x \in S
  PROVE  /\ DOMAIN Append(s, x) = DOMAIN s \cup {Len(s) + 1}
         /\ \A i \in DOMAIN s : i \in Int /\ i < Len(s) + 1 /\ Append(s, x)[i] = s[i]
         /\ Append(s, x)[Len(s) + 1] = x
OBVIOUS

\* What Tail leaves.
LEMMA TailElements ==
  ASSUME NEW S, NEW s \in Seq(S), s # <<>>
  PROVE  /\ 1 \in DOMAIN s /\ Head(s) = s[1]
         /\ \A i \in DOMAIN Tail(s) :
              /\ i \in Int /\ i + 1 # 1
              /\ i + 1 \in DOMAIN s /\ Tail(s)[i] = s[i + 1]
         /\ \A i \in DOMAIN s :
              i # 1 => i - 1 \in DOMAIN Tail(s) /\ Tail(s)[i - 1] = s[i]
OBVIOUS

\* A sequence without elements.
LEMMA NoElements ==
  ASSUME NEW S, NEW s \in Seq(S)
  PROVE  DOMAIN s = {} <=> s = <<>>
<1>1. s # <<>> => 1 \in DOMAIN s
  OBVIOUS
<1>2. DOMAIN << >> = {}
  OBVIOUS
<1> QED
  BY <1>1, <1>2

\* A sequence that has one element only.
LEMMA OneElement ==
  ASSUME NEW S, NEW s \in Seq(S), s # <<>>, \A i \in DOMAIN s : i = 1
  PROVE  Tail(s) = <<>>
<1>1. Len(s) \in Nat /\ DOMAIN s = 1 .. Len(s) /\ Len(s) # 0
  OBVIOUS
<1>2. Len(s) >= 2 => 2 \in DOMAIN s
  BY <1>1
<1>3. Len(s) = 1
  BY <1>1, <1>2
<1>4. Tail(s) \in Seq(S) /\ Len(Tail(s)) = 0
  BY <1>3
<1>5. DOMAIN Tail(s) = {}
  BY <1>4
<1> QED
  BY <1>4, <1>5, NoElements

\* The first element of a sequence is replaced.
LEMMA FirstChanged ==
  ASSUME NEW S, NEW s \in Seq(S), s # <<>>, NEW x
  PROVE  LET t == [s EXCEPT ![1] = x] IN
           DOMAIN t = DOMAIN s /\ 1 \in DOMAIN s /\ t # <<>> /\ t[1] = x
<1> DEFINE t == [s EXCEPT ![1] = x]
<1>1. 1 \in DOMAIN s
  OBVIOUS
<1>2. DOMAIN t = DOMAIN s /\ t[1] = x
  BY <1>1
<1> HIDE DEF t
<1>3. DOMAIN << >> = {}
  OBVIOUS
<1>4. DOMAIN t = DOMAIN s /\ 1 \in DOMAIN s /\ t # <<>> /\ t[1] = x
  BY <1>1, <1>2, <1>3
<1> QED
  BY <1>4 DEF t

\* Where the elements of a sequence are when one was removed.
Before(k, n) == IF k < n THEN k ELSE k + 1
After(i, n) == IF i < n THEN i ELSE i - 1

\* The elements of a sequence without its element n, and those it had before.
LEMMA RemoveElements ==
  ASSUME NEW S, NEW s \in Seq(S), NEW n \in DOMAIN s
  PROVE  /\ \A k \in DOMAIN RemoveAt(s, n) :
              /\ k \in Int
              /\ Before(k, n) \in DOMAIN s \ {n} /\ RemoveAt(s, n)[k] = s[Before(k, n)]
         /\ \A i \in DOMAIN s \ {n} :
              After(i, n) \in DOMAIN RemoveAt(s, n) /\ RemoveAt(s, n)[After(i, n)] = s[i]
<1> DEFINE A == SubSeq(s, 1, n - 1)
           B == SubSeq(s, n + 1, Len(s))
<1>1. n \in 1 .. Len(s) /\ Len(s) \in Nat
  OBVIOUS
<1>2. /\ A \in Seq(S) /\ Len(A) = n - 1
      /\ \A i \in 1 .. n - 1 : A[i] = s[i]
  BY <1>1
<1>3. /\ B \in Seq(S) /\ Len(B) = Len(s) - n
      /\ \A i \in 1 .. Len(s) - n : B[i] = s[n + i]
  BY <1>1
<1>4. RemoveAt(s, n) = A \o B
  BY DEF RemoveAt
<1> HIDE DEF A, B
<1>5. /\ DOMAIN (A \o B) = 1 .. Len(s) - 1
      /\ \A i \in 1 .. n - 1 : (A \o B)[i] = A[i]
      /\ \A i \in n .. Len(s) - 1 : (A \o B)[i] = B[i - n + 1]
  BY <1>1, <1>2, <1>3
<1>6. \A i \in n .. Len(s) - 1 : i - n + 1 \in 1 .. Len(s) - n /\ n + (i - n + 1) = i + 1
  BY <1>1
<1>7. \A i \in n .. Len(s) - 1 : (A \o B)[i] = s[i + 1]
  BY <1>3, <1>5, <1>6
<1>8. \A i \in 1 .. n - 1 : (A \o B)[i] = s[i]
  BY <1>2, <1>5
<1>9. DOMAIN s = 1 .. Len(s)
  OBVIOUS
<1>10. ASSUME NEW k \in 1 .. Len(s) - 1
       PROVE  (A \o B)[k] = s[Before(k, n)] /\ Before(k, n) \in (1 .. Len(s)) \ {n}
  <2>1. CASE k < n
    <3>1. k \in 1 .. n - 1
      BY <1>1, <2>1
    <3> QED
      <4>1. Before(k, n) = k
        BY <2>1 DEF Before
      <4>2. k \in (1 .. Len(s)) \ {n}
        BY <1>1, <2>1
      <4> QED
        BY <1>8, <3>1, <4>1, <4>2
  <2>2. CASE ~(k < n)
    <3>1. k \in n .. Len(s) - 1
      BY <1>1, <2>2
    <3> QED
      <4>1. Before(k, n) = k + 1
        BY <2>2 DEF Before
      <4>2. k + 1 \in (1 .. Len(s)) \ {n}
        BY <1>1, <2>2
      <4> QED
        BY <1>7, <3>1, <4>1, <4>2
  <2> QED
    BY <2>1, <2>2
<1>11. ASSUME NEW i \in (1 .. Len(s)) \ {n}
       PROVE  After(i, n) \in 1 .. Len(s) - 1 /\ Before(After(i, n), n) = i
  BY <1>1 DEF After, Before
<1>12. /\ DOMAIN RemoveAt(s, n) = 1 .. Len(s) - 1
       /\ \A k \in 1 .. Len(s) - 1 :
            /\ RemoveAt(s, n)[k] = s[Before(k, n)]
            /\ Before(k, n) \in (1 .. Len(s)) \ {n}
  BY <1>4, <1>5, <1>10
<1>13. \A k \in 1 .. Len(s) - 1 : k \in Int
  BY <1>1
<1>14. ASSUME NEW i \in DOMAIN s \ {n}
       PROVE  After(i, n) \in DOMAIN RemoveAt(s, n) /\ RemoveAt(s, n)[After(i, n)] = s[i]
  BY <1>9, <1>11, <1>12
<1> QED
  BY <1>9, <1>12, <1>13, <1>14

\* What is removed does not change the order of the others.
LEMMA BeforeIsMonotone ==
  ASSUME NEW k \in Int, NEW l \in Int, NEW n \in Int, Before(k, n) < Before(l, n)
  PROVE  k < l
BY DEF Before

\* Elements that were one are one.
LEMMA BeforeIsInjective ==
  ASSUME NEW k \in Int, NEW l \in Int, NEW n \in Int, Before(k, n) = Before(l, n)
  PROVE  k = l
BY DEF Before

\* A message to a daemon is appended.
LEMMA AppendToExecd ==
  ASSUME TypeInv, NEW h \in Hosts, NEW msg \in ToExecd,
         toExecd'[h] = Append(toExecd[h], msg)
  PROVE  /\ \A j : /\ DeliveryWaits(h, j)' <=> DeliveryWaits(h, j) \/ IsDelivery(msg, j)
                   /\ SignalWaits(h, j)' <=> SignalWaits(h, j) \/ IsSignal(msg, j)
         /\ \A a : AckWaits(h, a)' <=>
                     AckWaits(h, a) \/ (IsAcks(msg) /\ InSeq(a, msg.acks))
         /\ AcksWait(h)' <=> AcksWait(h) \/ IsAcks(msg)
<1>1. /\ DOMAIN toExecd'[h] = DOMAIN toExecd[h] \cup {Len(toExecd[h]) + 1}
      /\ \A i \in DOMAIN toExecd[h] : toExecd'[h][i] = toExecd[h][i]
      /\ toExecd'[h][Len(toExecd[h]) + 1] = msg
  BY AppendElements DEF TypeInv, MessagesOK
<1>2. ASSUME NEW j
      PROVE  /\ DeliveryWaits(h, j)' <=> DeliveryWaits(h, j) \/ IsDelivery(msg, j)
             /\ SignalWaits(h, j)' <=> SignalWaits(h, j) \/ IsSignal(msg, j)
  BY <1>1 DEF DeliveryWaits, SignalWaits
<1>3. ASSUME NEW a
      PROVE  AckWaits(h, a)' <=> AckWaits(h, a) \/ (IsAcks(msg) /\ InSeq(a, msg.acks))
  BY <1>1 DEF AckWaits
<1>4. AcksWait(h)' <=> AcksWait(h) \/ IsAcks(msg)
  BY <1>1 DEF AcksWait
<1> QED
  BY <1>2, <1>3, <1>4

\* What is appended comes last.
LEMMA AppendKeepsOrder ==
  ASSUME TypeInv, NEW h \in Hosts, NEW msg \in ToExecd,
         toExecd'[h] = Append(toExecd[h], msg)
  PROVE  /\ OneAckMessage(h) /\ (IsAcks(msg) => ~AcksWait(h)) => OneAckMessage(h)'
         /\ \A j, run : DeliveryRun(h, j, run) /\ (IsDelivery(msg, j) => msg.run = run)
                          => DeliveryRun(h, j, run)'
         /\ \A j : DeliveredBeforeSignal(h, j) /\ ~(IsDelivery(msg, j) /\ SignalWaits(h, j))
                     => DeliveredBeforeSignal(h, j)'
         /\ \A j : /\ DeliveredBeforeExit(h, j)
                   /\ ~(IsDelivery(msg, j) /\ AckWaits(h, ExitAck(j)))
                   => DeliveredBeforeExit(h, j)'
<1>1. /\ DOMAIN toExecd'[h] = DOMAIN toExecd[h] \cup {Len(toExecd[h]) + 1}
      /\ \A i \in DOMAIN toExecd[h] :
           i < Len(toExecd[h]) + 1 /\ toExecd'[h][i] = toExecd[h][i]
      /\ toExecd'[h][Len(toExecd[h]) + 1] = msg
  BY AppendElements DEF TypeInv, MessagesOK
<1>2. ASSUME OneAckMessage(h), IsAcks(msg) => ~AcksWait(h)
      PROVE  OneAckMessage(h)'
  BY <1>1, <1>2 DEF OneAckMessage, AcksWait
<1>3. ASSUME NEW j, NEW run, DeliveryRun(h, j, run), IsDelivery(msg, j) => msg.run = run
      PROVE  DeliveryRun(h, j, run)'
  BY <1>1, <1>3 DEF DeliveryRun
<1>4. ASSUME NEW j, DeliveredBeforeSignal(h, j), ~(IsDelivery(msg, j) /\ SignalWaits(h, j))
      PROVE  DeliveredBeforeSignal(h, j)'
  <2>1. ~(IsDelivery(msg, j) /\ IsSignal(msg, j))
    BY DEF IsDelivery, IsSignal
  <2> QED
    BY <1>1, <1>4, <2>1 DEF DeliveredBeforeSignal, SignalWaits
<1>5. ASSUME NEW j, DeliveredBeforeExit(h, j),
             ~(IsDelivery(msg, j) /\ AckWaits(h, ExitAck(j)))
      PROVE  DeliveredBeforeExit(h, j)'
  <2>1. ~(IsDelivery(msg, j) /\ IsAcks(msg))
    BY DEF IsDelivery, IsAcks
  <2> QED
    BY <1>1, <1>5, <2>1 DEF DeliveredBeforeExit, AckWaits
<1> QED
  BY <1>2, <1>3, <1>4, <1>5

\* A daemon receives message n.
LEMMA RemoveFromExecd ==
  ASSUME TypeInv, NEW h \in Hosts, NEW n \in DOMAIN toExecd[h],
         toExecd'[h] = RemoveAt(toExecd[h], n)
  PROVE  /\ \A j : /\ DeliveryWaits(h, j)' => DeliveryWaits(h, j)
                   /\ DeliveryWaits(h, j) /\ ~IsDelivery(toExecd[h][n], j)
                        => DeliveryWaits(h, j)'
                   /\ SignalWaits(h, j)' => SignalWaits(h, j)
         /\ \A a : AckWaits(h, a)' => AckWaits(h, a)
         /\ AcksWait(h)' => AcksWait(h)
         /\ OneAckMessage(h) => OneAckMessage(h)' /\ (IsAcks(toExecd[h][n]) => ~AcksWait(h)')
         /\ \A j, run : DeliveryRun(h, j, run) => DeliveryRun(h, j, run)'
         /\ \A j : DeliveredBeforeSignal(h, j) => DeliveredBeforeSignal(h, j)'
         /\ \A j : DeliveredBeforeExit(h, j) => DeliveredBeforeExit(h, j)'
<1>1. /\ n \in Int
      /\ \A k \in DOMAIN toExecd'[h] :
           /\ k \in Int
           /\ Before(k, n) \in DOMAIN toExecd[h] \ {n}
           /\ toExecd'[h][k] = toExecd[h][Before(k, n)]
      /\ \A i \in DOMAIN toExecd[h] \ {n} :
           After(i, n) \in DOMAIN toExecd'[h] /\ toExecd'[h][After(i, n)] = toExecd[h][i]
  <2>1. toExecd[h] \in Seq(ToExecd)
    BY DEF TypeInv, MessagesOK
  <2> QED
    BY <2>1, RemoveElements
<1>2. ASSUME NEW j
      PROVE  /\ DeliveryWaits(h, j)' => DeliveryWaits(h, j)
             /\ DeliveryWaits(h, j) /\ ~IsDelivery(toExecd[h][n], j)
                  => DeliveryWaits(h, j)'
             /\ SignalWaits(h, j)' => SignalWaits(h, j)
  BY <1>1 DEF DeliveryWaits, SignalWaits
<1>3. ASSUME NEW a
      PROVE  AckWaits(h, a)' => AckWaits(h, a)
  BY <1>1 DEF AckWaits
<1>4. AcksWait(h)' => AcksWait(h)
  BY <1>1 DEF AcksWait
<1>5. ASSUME OneAckMessage(h)
      PROVE  OneAckMessage(h)' /\ (IsAcks(toExecd[h][n]) => ~AcksWait(h)')
  <2>1. OneAckMessage(h)'
    BY <1>1, <1>5, BeforeIsInjective DEF OneAckMessage
  <2>2. IsAcks(toExecd[h][n]) => ~AcksWait(h)'
    BY <1>1, <1>5 DEF OneAckMessage, AcksWait
  <2> QED
    BY <2>1, <2>2
<1>6. ASSUME NEW j, NEW run, DeliveryRun(h, j, run)
      PROVE  DeliveryRun(h, j, run)'
  BY <1>1, <1>6 DEF DeliveryRun
<1>7. ASSUME NEW j, DeliveredBeforeSignal(h, j)
      PROVE  DeliveredBeforeSignal(h, j)'
  BY <1>1, <1>7, BeforeIsMonotone DEF DeliveredBeforeSignal
<1>8. ASSUME NEW j, DeliveredBeforeExit(h, j)
      PROVE  DeliveredBeforeExit(h, j)'
  BY <1>1, <1>8, BeforeIsMonotone DEF DeliveredBeforeExit
<1> QED
  BY <1>2, <1>3, <1>4, <1>5, <1>6, <1>7, <1>8

\* A connection to a daemon that is not used.
LEMMA SameToExecd ==
  ASSUME NEW h \in Hosts, toExecd'[h] = toExecd[h]
  PROVE  /\ \A j : /\ DeliveryWaits(h, j)' <=> DeliveryWaits(h, j)
                   /\ SignalWaits(h, j)' <=> SignalWaits(h, j)
                   /\ DeliveredBeforeSignal(h, j)' <=> DeliveredBeforeSignal(h, j)
                   /\ DeliveredBeforeExit(h, j)' <=> DeliveredBeforeExit(h, j)
         /\ \A a : AckWaits(h, a)' <=> AckWaits(h, a)
         /\ \A j, run : DeliveryRun(h, j, run)' <=> DeliveryRun(h, j, run)
         /\ AcksWait(h)' <=> AcksWait(h)
         /\ OneAckMessage(h)' <=> OneAckMessage(h)
BY DEF DeliveryWaits, SignalWaits, DeliveredBeforeSignal, DeliveredBeforeExit, AckWaits,
       DeliveryRun, AcksWait, OneAckMessage

\* A connection from a daemon that is not used.
LEMMA SameToMaster ==
  ASSUME NEW h \in Hosts, toMaster'[h] = toMaster[h]
  PROVE  /\ ReportWaits(h)' <=> ReportWaits(h)
         /\ ReportIsFirst(h)' <=> ReportIsFirst(h)
         /\ \A j, r : WaitsAbout(h, j, r)' <=> WaitsAbout(h, j, r)
         /\ \A j : WaitsWithout(h, j)' <=> WaitsWithout(h, j)
BY DEF ReportWaits, ReportIsFirst, WaitsAbout, WaitsWithout

\* What is read is the same, or of another daemon.
LEMMA SameRead ==
  ASSUME NEW h \in Hosts,
         rep' = rep \/ (~ReportIsRead(h) /\ ~ReportIsRead(h)')
  PROVE  /\ ReportIsRead(h)' <=> ReportIsRead(h)
         /\ \A j, r : ReadAbout(h, j, r)' <=> ReadAbout(h, j, r)
         /\ \A j : ReadWithout(h, j)' <=> ReadWithout(h, j)
         /\ \A a : Packed(h, a)' <=> Packed(h, a)
<1>1. CASE rep' = rep
  BY <1>1 DEF ReportIsRead, ReadAbout, ReadWithout, Packed
<1>2. CASE ~ReportIsRead(h) /\ ~ReportIsRead(h)'
  BY <1>2 DEF ReadAbout, ReadWithout, Packed
<1> QED
  BY <1>1, <1>2

\* The acknowledgements that the daemon handles are the same.
LEMMA SameHandled ==
  ASSUME NEW h \in Hosts, acking'[h] = acking[h]
  PROVE  \A a : Handled(h, a)' <=> Handled(h, a)
BY DEF Handled

\* The answer of a daemon to a signal.
LEMMA AppendToMaster ==
  ASSUME TypeInv, NEW h \in Hosts, NEW msg \in ToMaster, ~IsReport(msg),
         toMaster'[h] = Append(toMaster[h], msg)
  PROVE  /\ ReportWaits(h)' <=> ReportWaits(h)
         /\ ReportIsFirst(h) => ReportIsFirst(h)'
         /\ \A j, r : WaitsAbout(h, j, r)' <=> WaitsAbout(h, j, r)
         /\ \A j : WaitsWithout(h, j)' <=> WaitsWithout(h, j)
<1>1. /\ DOMAIN toMaster'[h] = DOMAIN toMaster[h] \cup {Len(toMaster[h]) + 1}
      /\ \A i \in DOMAIN toMaster[h] : toMaster'[h][i] = toMaster[h][i]
      /\ toMaster'[h][Len(toMaster[h]) + 1] = msg
  BY AppendElements DEF TypeInv, MessagesOK
<1>2. ReportWaits(h)' <=> ReportWaits(h)
  BY <1>1 DEF ReportWaits
<1>3. ReportIsFirst(h) => ReportIsFirst(h)'
  BY <1>1 DEF ReportIsFirst
<1>4. ASSUME NEW j, NEW r
      PROVE  WaitsAbout(h, j, r)' <=> WaitsAbout(h, j, r)
  BY <1>1 DEF WaitsAbout
<1>5. ASSUME NEW j
      PROVE  WaitsWithout(h, j)' <=> WaitsWithout(h, j)
  BY <1>1 DEF WaitsWithout
<1> QED
  BY <1>2, <1>3, <1>4, <1>5

\* The qmaster takes a message: no report is left behind it.
LEMMA TailOfToMaster ==
  ASSUME TypeInv, NEW h \in Hosts, ReportIsFirst(h), toMaster[h] # <<>>,
         toMaster'[h] = Tail(toMaster[h])
  PROVE  /\ ~ReportWaits(h)' /\ ReportIsFirst(h)'
         /\ \A j, r : ~WaitsAbout(h, j, r)'
         /\ \A j : ~WaitsWithout(h, j)'
         /\ IsReport(Head(toMaster[h])) <=> ReportWaits(h)
         /\ \A j, r : WaitsAbout(h, j, r) <=>
              IsReport(Head(toMaster[h])) /\ InSeq(r, Head(toMaster[h]).jrs[j])
         /\ \A j : WaitsWithout(h, j) <=>
              IsReport(Head(toMaster[h])) /\ Head(toMaster[h]).jrs[j] = <<>>
<1>1. /\ 1 \in DOMAIN toMaster[h] /\ Head(toMaster[h]) = toMaster[h][1]
      /\ \A i \in DOMAIN toMaster'[h] :
           /\ i + 1 # 1 /\ i + 1 \in DOMAIN toMaster[h]
           /\ toMaster'[h][i] = toMaster[h][i + 1]
  BY TailElements DEF TypeInv, MessagesOK
<1>2. \A i \in DOMAIN toMaster'[h] : ~IsReport(toMaster'[h][i])
  BY <1>1 DEF ReportIsFirst
<1>3. ~ReportWaits(h)' /\ ReportIsFirst(h)'
  BY <1>2 DEF ReportWaits, ReportIsFirst
<1>4. \A j, r : ~WaitsAbout(h, j, r)'
  BY <1>2 DEF WaitsAbout
<1>5. \A j : ~WaitsWithout(h, j)'
  BY <1>2 DEF WaitsWithout
<1>6. IsReport(Head(toMaster[h])) <=> ReportWaits(h)
  BY <1>1 DEF ReportWaits, ReportIsFirst
<1>7. \A j, r : WaitsAbout(h, j, r) <=>
        IsReport(Head(toMaster[h])) /\ InSeq(r, Head(toMaster[h]).jrs[j])
  BY <1>1 DEF WaitsAbout, ReportIsFirst
<1>8. \A j : WaitsWithout(h, j) <=>
        IsReport(Head(toMaster[h])) /\ Head(toMaster[h]).jrs[j] = <<>>
  BY <1>1 DEF WaitsWithout, ReportIsFirst
<1> QED
  BY <1>3, <1>4, <1>5, <1>6, <1>7, <1>8

-----------------------------------------------------------------------------
(* Pairs of a host and a job that a step does not disturb                   *)

SameTask(j) ==
  /\ task'[j].host = task[j].host /\ task'[j].run = task[j].run
  /\ Over(j)' <=> Over(j)

\* The host sees no change of the task, or the task leaves it alone.
TaskAgrees(h, j) ==
  \/ SameTask(j)
  \/ task'[j].host # h /\ (Elsewhere(h, j)' => Elsewhere(h, j))

SameDaemon(h, j) ==
  /\ copy'[h][j] = copy[h][j] /\ jr'[h][j] = jr[h][j]
  /\ \A p \in procs'[h][j] : \E q \in procs[h][j] : q.run = p.run /\ q.pid = p.pid

\* Nothing about the job is added to what is on its way, and no delivery lost
\* that the daemon would accept.
NothingNew(h, j) ==
  /\ DeliveryWaits(h, j)' => DeliveryWaits(h, j)
  /\ copy[h][j] = None /\ DeliveryWaits(h, j) => DeliveryWaits(h, j)'
  /\ SignalWaits(h, j)' => SignalWaits(h, j)
  /\ \A run : DeliveryRun(h, j, run) => DeliveryRun(h, j, run)'
  /\ DeliveredBeforeSignal(h, j) => DeliveredBeforeSignal(h, j)'
  /\ DeliveredBeforeExit(h, j) => DeliveredBeforeExit(h, j)'
  /\ \A t \in AckTypes : Acked(h, Ack(t, j))' => Acked(h, Ack(t, j))
  /\ Handled(h, ExitAck(j))' => Handled(h, ExitAck(j)) \/ ~DeliveryWaits(h, j)
  /\ \A r \in JobReports : Reported(h, j, r)' => Reported(h, j, r)

SameMissing(h, j) ==
  /\ WaitsWithout(h, j)' => WaitsWithout(h, j)
  /\ ReadWithout(h, j)' => ReadWithout(h, j)

\* The host keeps an entry of a job that is elsewhere and has left traces.
EntryStays(h, j) ==
  /\ ru'[h][j] = <<>> => Absent(h, j) /\ \A r \in JobReports : ~Reported(h, j, r)
  /\ WaitsWithout(h, j)' /\ DropsNext(ru'[h][j]) => Absent(h, j)
  /\ ReadWithout(h, j)' /\ DropsNow(ru'[h][j]) => Absent(h, j)

\* Nothing happens at the host, and if the job is elsewhere an entry stays.
LEMMA NothingHappens ==
  ASSUME NEW h \in Hosts, NEW j \in Jobs, Orderly(h, j),
         SameDaemon(h, j), NothingNew(h, j),
         task'[j].host = h => SameTask(j) /\ (ru[h][j] = <<>> => ru'[h][j] = <<>>),
         Elsewhere(h, j)' => EntryStays(h, j)
  PROVE  Orderly(h, j)'
<1>0. "ACK_JOB_EXIT" \in AckTypes /\ Ack("ACK_JOB_EXIT", j) = ExitAck(j)
  BY DEF AckTypes, ExitAck
<1>1. CopyIsStarted(h, j)' /\ ProcsAreListed(h, j)' /\ OneReport(h, j)'
  BY DEF Orderly, SameDaemon, CopyIsStarted, ProcsAreListed, OneReport, Ended
<1>2. Ended(h, j)' <=> Ended(h, j)
  BY DEF SameDaemon, Ended
<1>3. ExitsStand(h, j)'
  BY <1>0, <1>2 DEF Orderly, SameDaemon, NothingNew, ExitsStand
<1>4. NoDeliveryAfterExit(h, j)'
  BY DEF Orderly, NothingNew, NoDeliveryAfterExit
<1>5. NewIsUnknown(h, j)'
  BY DEF Orderly, SameDaemon, NothingNew, NewIsUnknown
<1>6. AtItsHost(h, j)'
  BY <1>0 DEF Orderly, SameDaemon, SameTask, NothingNew, AtItsHost
<1>7. Absent(h, j) => Absent(h, j)'
  BY DEF SameDaemon, NothingNew, Absent
<1>8. NoEntryIsAbsent(h, j)'
  BY <1>7 DEF EntryStays, NothingNew, NoEntryIsAbsent
<1>9. LastEntryIsAbsent(h, j)'
  BY <1>7 DEF EntryStays, LastEntryIsAbsent
<1> QED
  BY <1>1, <1>3, <1>4, <1>5, <1>6, <1>8, <1>9 DEF Orderly

\* The entries are the same.
LEMMA Undisturbing ==
  ASSUME NEW h \in Hosts, NEW j \in Jobs, Orderly(h, j),
         TaskAgrees(h, j), SameDaemon(h, j), NothingNew(h, j), SameMissing(h, j),
         ru'[h][j] = ru[h][j]
  PROVE  Orderly(h, j)'
<1>1. Elsewhere(h, j)' => Elsewhere(h, j)
  BY DEF TaskAgrees, SameTask, Elsewhere
<1>2. Elsewhere(h, j)' => EntryStays(h, j)
  BY <1>1 DEF Orderly, NoEntryIsAbsent, LastEntryIsAbsent, SameMissing, EntryStays
<1>3. task'[j].host = h => SameTask(j)
  BY DEF TaskAgrees
<1> QED
  BY <1>2, <1>3, NothingHappens

\* The job leaves the host for good, or for a while and with a new entry.
LEMMA Leaving ==
  ASSUME NEW h \in Hosts, NEW j \in Jobs, Orderly(h, j),
         SameDaemon(h, j), NothingNew(h, j), task'[j].host # h,
         Over(j)' \/ \E n \in DOMAIN ru'[h][j] : ru'[h][j][n] = "SKIP_JR"
  PROVE  Orderly(h, j)'
<1>1. Elsewhere(h, j)' => EntryStays(h, j)
  BY DEF Elsewhere, EntryStays, DropsNext, DropsNow
<1> QED
  BY <1>1, NothingHappens

\* Connections and reports of a daemon that a step leaves alone.
SameTraffic(h) ==
  /\ toExecd'[h] = toExecd[h] /\ toMaster'[h] = toMaster[h]
  /\ acking'[h] = acking[h]
  /\ rep' = rep \/ (~ReportIsRead(h) /\ ~ReportIsRead(h)')

\* Nothing is sent, received, read or handled: the exchange stays as it is.
LEMMA TrafficUndisturbed ==
  ASSUME NEW h \in Hosts, SameTraffic(h)
  PROVE  /\ \A j : NothingNew(h, j) /\ SameMissing(h, j)
         /\ OneExchange(h) => OneExchange(h)'
<1>1. /\ toExecd'[h] = toExecd[h] /\ toMaster'[h] = toMaster[h]
      /\ acking'[h] = acking[h]
      /\ rep' = rep \/ (~ReportIsRead(h) /\ ~ReportIsRead(h)')
  BY DEF SameTraffic
<1>2. ASSUME NEW j
      PROVE  NothingNew(h, j) /\ SameMissing(h, j)
  BY <1>1, SameToExecd, SameToMaster, SameRead, SameHandled
  DEF NothingNew, SameMissing, Acked, Reported
<1>3. OneExchange(h) => OneExchange(h)'
  BY <1>1, SameToExecd, SameToMaster, SameRead DEF OneExchange
<1> QED
  BY <1>2, <1>3

\* A step that leaves daemons, connections and entries alone.
LEMMA TaskStep ==
  ASSUME UndisturbedInv, UNCHANGED <<ru, rep, execdVars, netVars>>,
         \A h \in Hosts, j \in Jobs : TaskAgrees(h, j)
  PROVE  UndisturbedInv'
<1>1. \A h \in Hosts : SameTraffic(h)
  BY DEF SameTraffic, netVars, execdVars
<1>2. \A h \in Hosts, j \in Jobs : SameDaemon(h, j)
  BY DEF SameDaemon, execdVars
<1>3. \A h \in Hosts, j \in Jobs : Orderly(h, j)'
  BY <1>1, <1>2, TrafficUndisturbed, Undisturbing DEF UndisturbedInv
<1>4. \A h \in Hosts : OneExchange(h)'
  BY <1>1, TrafficUndisturbed DEF UndisturbedInv
<1> QED
  BY <1>3, <1>4 DEF UndisturbedInv, execdVars

\* A step that changes at most timers, marks and lists of hosts.
LEMMA QuietStep ==
  ASSUME UndisturbedInv, UNCHANGED <<ru, rep, execdVars, netVars>>,
         \A j \in Jobs : SameTask(j)
  PROVE  UndisturbedInv'
BY TaskStep DEF TaskAgrees

-----------------------------------------------------------------------------
(* The steps of the qmaster                                                 *)

\* Nobody dies and no connection breaks.
LEMMA NoTrouble ==
  ASSUME Undisturbed
  PROVE  /\ ~Trouble("crash") /\ ~Trouble("crash_starting") /\ ~Trouble("start_fails")
         /\ ~Trouble("lose") /\ "partial" \notin Faults /\ "late" \notin Faults
BY DEF Undisturbed, Trouble

\* A message that is sent arrives, and sending does not fail.
LEMMA SentArrives ==
  ASSUME UndisturbedInv, TypeInv, NEW h \in Hosts, NEW msg
  PROVE  /\ ~SendFails(h)
         /\ Sent(h, msg) => /\ toExecd'[h] = Append(toExecd[h], msg)
                            /\ \A g \in Hosts \ {h} : toExecd'[g] = toExecd[g]
BY DEF UndisturbedInv, TypeInv, MessagesOK, SendFails, Sent

\* What a delivery and a signal are about.
LEMMA MessageKinds ==
  ASSUME NEW j, NEW run, NEW k
  PROVE  /\ IsDelivery(Delivery(j, run), k) <=> k = j
         /\ Delivery(j, run).run = run
         /\ ~IsSignal(Delivery(j, run), k) /\ ~IsAcks(Delivery(j, run))
         /\ IsSignal(Signal(j), k) <=> k = j
         /\ ~IsDelivery(Signal(j), k) /\ ~IsAcks(Signal(j))
BY DEF IsDelivery, IsSignal, IsAcks, Delivery, Signal

\* A message about job j, which is no acknowledgement, is appended.
LEMMA SentPair ==
  ASSUME TypeInv, NEW h \in Hosts, NEW msg \in ToExecd, ~IsAcks(msg),
         toExecd'[h] = Append(toExecd[h], msg),
         UNCHANGED <<rep, execdVars, toMaster>>
  PROVE  /\ \A a : /\ AckWaits(h, a)' <=> AckWaits(h, a)
                   /\ Acked(h, a)' <=> Acked(h, a)
                   /\ Handled(h, a)' <=> Handled(h, a)
         /\ \A k, r : Reported(h, k, r)' <=> Reported(h, k, r)
         /\ \A k : /\ WaitsWithout(h, k)' <=> WaitsWithout(h, k)
                   /\ ReadWithout(h, k)' <=> ReadWithout(h, k)
<1>1. toMaster'[h] = toMaster[h] /\ acking'[h] = acking[h] /\ rep' = rep
  BY DEF execdVars
<1>2. \A a : AckWaits(h, a)' <=> AckWaits(h, a)
  BY AppendToExecd
<1>3. \A a : Packed(h, a)' <=> Packed(h, a)
  BY <1>1, SameRead
<1>4. \A a : Handled(h, a)' <=> Handled(h, a)
  BY <1>1, SameHandled
<1>5. \A k, r : /\ WaitsAbout(h, k, r)' <=> WaitsAbout(h, k, r)
                /\ ReadAbout(h, k, r)' <=> ReadAbout(h, k, r)
  BY <1>1, SameRead, SameToMaster
<1>6. \A k : /\ WaitsWithout(h, k)' <=> WaitsWithout(h, k)
             /\ ReadWithout(h, k)' <=> ReadWithout(h, k)
  BY <1>1, SameRead, SameToMaster
<1>7. \A a : Acked(h, a)' <=> Acked(h, a)
  BY <1>2, <1>3, <1>4 DEF Acked
<1>8. \A k, r : Reported(h, k, r)' <=> Reported(h, k, r)
  BY <1>5 DEF Reported
<1> QED
  BY <1>2, <1>4, <1>6, <1>7, <1>8

\* It disturbs no other job.
LEMMA SentUndisturbed ==
  ASSUME TypeInv, UndisturbedInv, NEW h \in Hosts, NEW j \in Jobs, NEW msg \in ToExecd,
         ~IsAcks(msg), \A k \in Jobs \ {j} : ~IsDelivery(msg, k) /\ ~IsSignal(msg, k),
         toExecd'[h] = Append(toExecd[h], msg),
         \A g \in Hosts \ {h} : toExecd'[g] = toExecd[g],
         UNCHANGED <<ru, rep, execdVars, toMaster>>,
         \A g \in Hosts, k \in Jobs : k # j \/ g # h => TaskAgrees(g, k),
         Orderly(h, j)'
  PROVE  UndisturbedInv'
<1>1. \A g \in Hosts \ {h} : SameTraffic(g)
  BY DEF SameTraffic, execdVars
<1>2. \A g \in Hosts, k \in Jobs : SameDaemon(g, k) /\ ru'[g][k] = ru[g][k]
  BY DEF SameDaemon, execdVars
<1>3. OneExchange(h)'
  <2>1. OneExchange(h)
    BY DEF UndisturbedInv
  <2>2. toMaster'[h] = toMaster[h] /\ acking'[h] = acking[h] /\ rep' = rep
    BY DEF execdVars
  <2> QED
    BY <2>1, <2>2, AppendToExecd, AppendKeepsOrder, SameToMaster, SameRead DEF OneExchange
<1>4. ASSUME NEW k \in Jobs \ {j}
      PROVE  NothingNew(h, k) /\ SameMissing(h, k)
  <2>1. ~IsDelivery(msg, k) /\ ~IsSignal(msg, k)
    BY <1>4
  <2>2. /\ DeliveryWaits(h, k)' <=> DeliveryWaits(h, k)
        /\ SignalWaits(h, k)' => SignalWaits(h, k)
    BY <2>1, AppendToExecd
  <2>3. /\ \A run : DeliveryRun(h, k, run) => DeliveryRun(h, k, run)'
        /\ DeliveredBeforeSignal(h, k) => DeliveredBeforeSignal(h, k)'
        /\ DeliveredBeforeExit(h, k) => DeliveredBeforeExit(h, k)'
    BY <2>1, AppendKeepsOrder
  <2> QED
    BY <2>2, <2>3, SentPair DEF NothingNew, SameMissing
<1>5. ASSUME NEW g \in Hosts, NEW k \in Jobs, k # j \/ g # h
      PROVE  Orderly(g, k)'
  <2>1. NothingNew(g, k) /\ SameMissing(g, k)
    BY <1>1, <1>4, <1>5, TrafficUndisturbed
  <2>2. TaskAgrees(g, k)
    BY <1>5
  <2> QED
    BY <1>2, <2>1, <2>2, Undisturbing DEF UndisturbedInv
<1>6. \A g \in Hosts : OneExchange(g)'
  BY <1>1, <1>3, TrafficUndisturbed DEF UndisturbedInv
<1>7. \A g \in Hosts, k \in Jobs : Orderly(g, k)'
  BY <1>5
<1> QED
  BY <1>6, <1>7 DEF UndisturbedInv, execdVars

\* What a step keeps that leaves the daemon alone.
LEMMA SameDaemonKeeps ==
  ASSUME NEW h \in Hosts, NEW j \in Jobs, Orderly(h, j), SameDaemon(h, j)
  PROVE  /\ CopyIsStarted(h, j)' /\ ProcsAreListed(h, j)' /\ OneReport(h, j)'
         /\ Ended(h, j)' <=> Ended(h, j)
BY DEF Orderly, SameDaemon, CopyIsStarted, ProcsAreListed, OneReport, Ended

\* Dispatch: the host has no entry of the job, so it has no trace of it.
LEMMA DispatchUndisturbed ==
  ASSUME CoreInv, TypeInv, UndisturbedInv, NEW j \in Jobs, NEW h \in Hosts,
         Dispatch(j, h)
  PROVE  UndisturbedInv'
<1>1. PICK run \in Runs : run = task[j].run + 1
  BY BoundsAssumption DEF CoreInv, CoreType, Tasks, Runs, Dispatch
<1>2. PICK msg \in ToExecd : msg = Delivery(j, run)
  BY MessageTypes
<1>3. /\ task \in [Jobs -> Tasks] /\ task[j].status = "JIDLE" /\ ru[h][j] = <<>>
  BY DEF CoreInv, CoreType, Dispatch, MayStart
<1>4. task[j].host = None /\ None # h /\ ~Over(j)
  BY <1>3, NoneAssumption DEF CoreInv, PlacedIffBusy, Busy, Over
<1>5. /\ task'[j].host = h /\ task'[j].run = run /\ task'[j].status = "JTRANSFERING"
      /\ \A k \in Jobs \ {j} : task'[k] = task[k]
  BY <1>1, <1>3 DEF Dispatch, Tasks
<1>6. Absent(h, j) /\ \A r \in JobReports : ~Reported(h, j, r)
  BY <1>3, <1>4 DEF UndisturbedInv, Orderly, NoEntryIsAbsent, Elsewhere
<1>7. /\ toExecd'[h] = Append(toExecd[h], msg)
      /\ \A g \in Hosts \ {h} : toExecd'[g] = toExecd[g]
  BY <1>1, <1>2, SentArrives DEF Dispatch
<1>8. UNCHANGED <<ru, rep, execdVars, toMaster>>
  BY DEF Dispatch
<1>9. /\ \A k \in Jobs : IsDelivery(msg, k) <=> k = j
      /\ \A k \in Jobs : ~IsSignal(msg, k)
      /\ ~IsAcks(msg) /\ msg.run = run
  BY <1>2, MessageKinds
<1>10. ASSUME NEW g \in Hosts, NEW k \in Jobs, k # j \/ g # h
       PROVE  TaskAgrees(g, k)
  <2>1. CASE k # j
    BY <1>5, <2>1 DEF TaskAgrees, SameTask, Over
  <2>2. CASE k = j
    <3>1. g # h
      BY <1>10, <2>2
    <3>2. task'[j].host # g
      BY <1>5, <3>1
    <3>3. Elsewhere(g, j)
      BY <1>3, <1>4, NoneAssumption DEF Elsewhere
    <3> QED
      BY <2>2, <3>2, <3>3 DEF TaskAgrees
  <2> QED
    BY <2>1, <2>2
<1>11. Orderly(h, j)'
  <2>1. DeliveryWaits(h, j)' /\ ~SignalWaits(h, j)
    BY <1>6, <1>7, <1>9, AppendToExecd DEF Absent
  <2>2. /\ \A r : Reported(h, j, r)' <=> Reported(h, j, r)
        /\ \A a : /\ Acked(h, a)' <=> Acked(h, a)
                  /\ Handled(h, a)' <=> Handled(h, a)
    BY <1>7, <1>8, <1>9, SentPair
  <2>3. ~Acked(h, ExitAck(j)) /\ \A t \in AckTypes : ~Acked(h, Ack(t, j))
    BY <1>6 DEF Absent, ExitAck, AckTypes
  <2>4. ~AckWaits(h, ExitAck(j)) /\ ~Handled(h, ExitAck(j))
    BY <2>3 DEF Acked
  <2>5. ~DeliveryWaits(h, j) /\ copy'[h][j] = None /\ jr'[h][j] = <<>>
    BY <1>6, <1>8 DEF Absent, execdVars
  <2>6. DeliveredBeforeSignal(h, j)' /\ DeliveredBeforeExit(h, j)'
    <3>1. DeliveredBeforeSignal(h, j) /\ DeliveredBeforeExit(h, j)
      BY <2>5 DEF DeliveredBeforeSignal, DeliveredBeforeExit, DeliveryWaits
    <3> QED
      BY <1>7, <2>1, <2>4, <3>1, AppendKeepsOrder
  <2>7. DeliveryRun(h, j, run)'
    <3>1. DeliveryRun(h, j, run)
      BY <2>5 DEF DeliveryRun, DeliveryWaits
    <3> QED
      BY <1>7, <1>9, <3>1, AppendKeepsOrder
  <2>8. CopyIsStarted(h, j)' /\ ProcsAreListed(h, j)' /\ OneReport(h, j)'
    BY <1>8, SameDaemonKeeps DEF UndisturbedInv, SameDaemon, execdVars
  <2>9. ExitsStand(h, j)' /\ NoDeliveryAfterExit(h, j)' /\ NewIsUnknown(h, j)'
    BY <1>6, <2>2, <2>3, <2>4, <2>5, <2>6 DEF ExitsStand, NoDeliveryAfterExit, NewIsUnknown
  <2>10. AtItsHost(h, j)'
    <3>1. DeliveryRun(h, j, task[j].run)'
      BY <1>5, <2>7 DEF DeliveryRun
    <3>2. ru'[h][j] = <<>>
      BY <1>3, <1>8
    <3> QED
      BY <1>6, <2>1, <2>2, <2>3, <2>5, <3>1, <3>2 DEF AtItsHost
  <2>11. NoEntryIsAbsent(h, j)' /\ LastEntryIsAbsent(h, j)'
    BY <1>5 DEF NoEntryIsAbsent, LastEntryIsAbsent, Elsewhere
  <2> QED
    BY <2>8, <2>9, <2>10, <2>11 DEF Orderly
<1> QED
  BY <1>7, <1>8, <1>9, <1>10, <1>11, SentUndisturbed

\* The same task is delivered again, which its host has accepted already.
LEMMA ResendUndisturbed ==
  ASSUME TypeInv, UndisturbedInv, NEW j \in Jobs, NEW h \in Hosts, task[j].host = h,
         task[j].run \in Runs, task' = task,
         UNCHANGED <<ru, rep, execdVars, toMaster>>,
         Resent(h, Delivery(j, task[j].run), None)
  PROVE  UndisturbedInv'
<1>1. PICK run \in Runs : run = task[j].run /\ run = task'[j].run
  OBVIOUS
<1>2. PICK msg \in ToExecd : msg = Delivery(j, run)
  BY MessageTypes
<1>3. /\ toExecd'[h] = Append(toExecd[h], msg)
      /\ \A g \in Hosts \ {h} : toExecd'[g] = toExecd[g]
      /\ \A i \in DOMAIN toExecd[h] : toExecd[h][i] # msg
  BY <1>1, <1>2, SentArrives DEF Resent
<1>4. /\ \A k \in Jobs : IsDelivery(msg, k) <=> k = j
      /\ \A k \in Jobs : ~IsSignal(msg, k)
      /\ ~IsAcks(msg) /\ msg.run = run
  BY <1>2, MessageKinds
<1>5. Orderly(h, j)
  BY DEF UndisturbedInv
<1>6. /\ DeliveryRun(h, j, run) /\ ~Acked(h, ExitAck(j))
      /\ copy[h][j] = None => DeliveryWaits(h, j)
  BY <1>1, <1>5 DEF Orderly, AtItsHost
<1>7. copy[h][j] # None
  <2> SUFFICES ASSUME copy[h][j] = None PROVE FALSE
    OBVIOUS
  <2>1. PICK i \in DOMAIN toExecd[h] : IsDelivery(toExecd[h][i], j)
    BY <1>6 DEF DeliveryWaits
  <2>2. toExecd[h][i] \in ToExecd
    BY <2>1 DEF TypeInv, MessagesOK
  <2>3. toExecd[h][i].run = run
    BY <1>6, <2>1 DEF DeliveryRun
  <2>4. toExecd[h][i] = msg
    BY <1>2, <2>1, <2>2, <2>3 DEF IsDelivery, ToExecd, Delivery
  <2> QED
    BY <1>3, <2>4
<1>8. DeliveryWaits(h, j)'
  BY <1>3, <1>4, AppendToExecd
<1>9. /\ \A r : Reported(h, j, r)' <=> Reported(h, j, r)
      /\ \A a : /\ Acked(h, a)' <=> Acked(h, a)
                /\ Handled(h, a)' <=> Handled(h, a)
  BY <1>3, <1>4, SentPair
<1>10. ~AckWaits(h, ExitAck(j)) /\ ~Handled(h, ExitAck(j))
  BY <1>6 DEF Acked
<1>11. DeliveredBeforeExit(h, j)' /\ DeliveryRun(h, j, run)'
  BY <1>3, <1>4, <1>5, <1>6, <1>10, AppendKeepsOrder DEF Orderly, NoDeliveryAfterExit
<1>12. SameDaemon(h, j) /\ copy'[h][j] # None /\ ru'[h][j] = ru[h][j]
  BY <1>7 DEF SameDaemon, execdVars
<1>13. Orderly(h, j)'
  <2>1. /\ CopyIsStarted(h, j)' /\ ProcsAreListed(h, j)' /\ OneReport(h, j)'
        /\ Ended(h, j)' <=> Ended(h, j)
    BY <1>5, <1>12, SameDaemonKeeps
  <2>2. ExitsStand(h, j)'
    BY <1>5, <1>6, <1>9, <1>12, <2>1 DEF Orderly, ExitsStand
  <2>3. NoDeliveryAfterExit(h, j)' /\ NewIsUnknown(h, j)'
    BY <1>9, <1>10, <1>11, <1>12 DEF NoDeliveryAfterExit, NewIsUnknown
  <2>4. DeliveryRun(h, j, task[j].run)'
    BY <1>1, <1>11 DEF DeliveryRun
  <2>5. AtItsHost(h, j)'
    BY <1>5, <1>9, <1>12, <2>4 DEF Orderly, SameDaemon, AtItsHost
  <2>6. NoEntryIsAbsent(h, j)' /\ LastEntryIsAbsent(h, j)'
    BY DEF NoEntryIsAbsent, LastEntryIsAbsent, Elsewhere
  <2> QED
    BY <2>1, <2>2, <2>3, <2>5, <2>6 DEF Orderly
<1>14. \A g \in Hosts, k \in Jobs : TaskAgrees(g, k)
  BY DEF TaskAgrees, SameTask, Over
<1> QED
  BY <1>3, <1>4, <1>13, <1>14, SentUndisturbed

\* JobResend
LEMMA JobResendUndisturbed ==
  ASSUME CoreInv, TypeInv, UndisturbedInv, NEW j \in Jobs, JobResend(j)
  PROVE  UndisturbedInv'
<1>1. task \in [Jobs -> Tasks] /\ task[j].resend = TRUE /\ TransferHasTimer
  BY DEF CoreInv, CoreType, JobResend, Tasks
<1>2. task' = task /\ task[j].status = "JTRANSFERING"
  BY <1>1 DEF JobResend, Rearmed, TransferHasTimer, Tasks
<1>3. PICK h \in Hosts : h = task[j].host
  BY <1>1, <1>2 DEF CoreInv, PlacedIffBusy, Busy, Tasks
<1>4. task[j].run \in Runs
  BY <1>1 DEF Tasks
<1>5. UNCHANGED <<ru, rep, execdVars, toMaster>> /\ \A k \in Jobs : SameTask(k)
  BY <1>2 DEF JobResend, SameTask, Over
<1>6. CASE UNCHANGED toExecd
  BY <1>5, <1>6, QuietStep DEF netVars
<1>7. CASE Resent(h, Delivery(j, task[j].run), None)
  BY <1>2, <1>3, <1>4, <1>5, <1>7, ResendUndisturbed
<1> QED
  BY <1>2, <1>3, <1>6, <1>7, SentArrives DEF JobResend

\* The qmaster can always reach the daemon.
LEMMA DispatchFailsUndisturbed ==
  ASSUME TypeInv, UndisturbedInv, NEW j \in Jobs, NEW h \in Hosts, DispatchFails(j, h)
  PROVE  UndisturbedInv'
BY SentArrives DEF DispatchFails

\* A job is signaled at its host, where it was delivered before.
LEMMA SignalUndisturbed ==
  ASSUME TypeInv, UndisturbedInv, NEW j \in Jobs, NEW h \in Hosts, task[j].host = h,
         \A k \in Jobs : SameTask(k), UNCHANGED <<ru, rep, execdVars, toMaster>>,
         Resent(h, Signal(j), SignalAck(j))
  PROVE  UndisturbedInv'
<1>1. PICK msg \in ToExecd : msg = Signal(j)
  BY MessageTypes
<1>2. /\ toExecd'[h] = Append(toExecd[h], msg)
      /\ \A g \in Hosts \ {h} : toExecd'[g] = toExecd[g]
  BY <1>1, SentArrives DEF Resent
<1>3. /\ \A k \in Jobs : ~IsDelivery(msg, k)
      /\ \A k \in Jobs : IsSignal(msg, k) <=> k = j
      /\ ~IsAcks(msg)
  BY <1>1, MessageKinds
<1>4. Orderly(h, j)
  BY DEF UndisturbedInv
<1>5. DeliveryWaits(h, j)' <=> DeliveryWaits(h, j)
  BY <1>2, <1>3, AppendToExecd
<1>6. /\ \A r : Reported(h, j, r)' <=> Reported(h, j, r)
      /\ \A a : /\ Acked(h, a)' <=> Acked(h, a)
                /\ Handled(h, a)' <=> Handled(h, a)
  BY <1>2, <1>3, SentPair
<1>7. /\ DeliveredBeforeSignal(h, j) => DeliveredBeforeSignal(h, j)'
      /\ DeliveredBeforeExit(h, j) => DeliveredBeforeExit(h, j)'
      /\ \A run : DeliveryRun(h, j, run) => DeliveryRun(h, j, run)'
  BY <1>2, <1>3, AppendKeepsOrder
<1>8. SameDaemon(h, j) /\ ru'[h][j] = ru[h][j]
  BY DEF SameDaemon, execdVars
<1>9. task'[j].host = h /\ task'[j].run = task[j].run
  BY DEF SameTask
<1>10. Orderly(h, j)'
  <2>1. /\ CopyIsStarted(h, j)' /\ ProcsAreListed(h, j)' /\ OneReport(h, j)'
        /\ Ended(h, j)' <=> Ended(h, j)
    BY <1>4, <1>8, SameDaemonKeeps
  <2>2. ExitsStand(h, j)'
    BY <1>4, <1>6, <1>8, <2>1 DEF Orderly, SameDaemon, ExitsStand
  <2>3. NoDeliveryAfterExit(h, j)' /\ NewIsUnknown(h, j)'
    BY <1>4, <1>5, <1>6, <1>7, <1>8
    DEF Orderly, SameDaemon, NoDeliveryAfterExit, NewIsUnknown
  <2>4. AtItsHost(h, j)'
    BY <1>4, <1>5, <1>6, <1>7, <1>8, <1>9 DEF Orderly, SameDaemon, AtItsHost
  <2>5. NoEntryIsAbsent(h, j)' /\ LastEntryIsAbsent(h, j)'
    BY <1>9 DEF NoEntryIsAbsent, LastEntryIsAbsent, Elsewhere
  <2> QED
    BY <2>1, <2>2, <2>3, <2>4, <2>5 DEF Orderly
<1>11. \A g \in Hosts, k \in Jobs : TaskAgrees(g, k)
  BY DEF TaskAgrees
<1> QED
  BY <1>2, <1>3, <1>10, <1>11, SentUndisturbed

\* A signal is sent, or kept for later.
LEMMA SignalTaskUndisturbed ==
  ASSUME CoreInv, TypeInv, UndisturbedInv, NEW j \in Jobs, task[j].host # None,
         SignalTask(j), UNCHANGED <<ru, rep, execdVars, toMaster>>
  PROVE  UndisturbedInv'
<1>1. task \in [Jobs -> Tasks]
  BY DEF CoreInv, CoreType
<1>2. PICK h \in Hosts : h = task[j].host
  BY <1>1 DEF Tasks
<1>3. \A k \in Jobs : SameTask(k)
  <2>1. /\ task'[j].host = task[j].host /\ task'[j].run = task[j].run
        /\ task'[j].status = task[j].status
        /\ \A k \in Jobs \ {j} : task'[k] = task[k]
    BY <1>1 DEF SignalTask, Tasks
  <2> QED
    BY <2>1 DEF SameTask, Over
<1>4. CASE UNCHANGED toExecd
  BY <1>3, <1>4, QuietStep DEF netVars
<1>5. CASE Resent(h, Signal(j), SignalAck(j))
  BY <1>2, <1>3, <1>5, SignalUndisturbed
<1> QED
  BY <1>2, <1>4, <1>5 DEF SignalTask, SendFails

\* A task that ends, or leaves the lists without ever having run.
LEMMA OverUndisturbed ==
  ASSUME UndisturbedInv, UNCHANGED <<rep, execdVars, netVars>>, NEW j \in Jobs,
         \A h \in Hosts : task'[j].host # h, Over(j)',
         \A k \in Jobs \ {j} : SameTask(k),
         \A h \in Hosts, k \in Jobs \ {j} : ru'[h][k] = ru[h][k]
  PROVE  UndisturbedInv'
<1>1. \A h \in Hosts : SameTraffic(h)
  BY DEF SameTraffic, netVars, execdVars
<1>2. \A h \in Hosts, k \in Jobs : SameDaemon(h, k)
  BY DEF SameDaemon, execdVars
<1>3. ASSUME NEW h \in Hosts
      PROVE  Orderly(h, j)'
  BY <1>1, <1>2, TrafficUndisturbed, Leaving DEF UndisturbedInv
<1>4. ASSUME NEW h \in Hosts, NEW k \in Jobs \ {j}
      PROVE  Orderly(h, k)'
  BY <1>1, <1>2, TrafficUndisturbed, Undisturbing DEF UndisturbedInv, TaskAgrees
<1>5. \A h \in Hosts : OneExchange(h)'
  BY <1>1, TrafficUndisturbed DEF UndisturbedInv
<1>6. \A h \in Hosts, k \in Jobs : Orderly(h, k)'
  BY <1>3, <1>4
<1> QED
  BY <1>5, <1>6 DEF UndisturbedInv, execdVars

\* What sge_job_exit, deletion and rescheduling do to a task that leaves.
LEMMA FinishedIsOver ==
  ASSUME CoreInv, TypeInv, NEW j \in Jobs, Finish(j)
  PROVE  /\ \A h \in Hosts : task'[j].host # h
         /\ Over(j)'
         /\ \A k \in Jobs \ {j} : SameTask(k)
         /\ \A h \in Hosts, k \in Jobs \ {j} : ru'[h][k] = ru[h][k]
<1>1. task \in [Jobs -> Tasks] /\ ru \in [Hosts -> [Jobs -> Seq(RUStates)]]
  BY DEF CoreInv, CoreType, TypeInv, ListsOK
<1>2. /\ task'[j] = Leave(task[j], "JFINISHED")
      /\ \A k \in Jobs \ {j} : task'[k] = task[k]
      /\ ru' = [h \in Hosts |-> [ru[h] EXCEPT ![j] = <<>>]]
  BY <1>1 DEF Finish
<1>3. task'[j].host = None /\ task'[j].status = "JFINISHED"
  <2>1. task[j] \in Tasks /\ "JFINISHED" \in Statuses
    BY <1>1 DEF Statuses
  <2>2. /\ Leave(task[j], "JFINISHED").host = None
        /\ Leave(task[j], "JFINISHED").status = "JFINISHED"
    BY <2>1, LeaveFields
  <2> QED
    BY <1>2, <2>2
<1> QED
  BY <1>1, <1>2, <1>3, NoneAssumption DEF SameTask, Over

\* qdel
LEMMA DeleteUndisturbed ==
  ASSUME CoreInv, TypeInv, UndisturbedInv, NEW j \in Jobs, Delete(j)
  PROVE  UndisturbedInv'
<1>1. task \in [Jobs -> Tasks]
  BY DEF CoreInv, CoreType
<1>2. UNCHANGED <<rep, execdVars, toMaster>>
  BY DEF Delete
<1>3. CASE /\ task[j].status = "JIDLE" /\ task' = [task EXCEPT ![j].status = "gone"]
           /\ UNCHANGED <<ru, toExecd>>
  <2>1. task[j].host = None
    BY <1>1, <1>3 DEF CoreInv, PlacedIffBusy, Busy
  <2>2. task'[j].host = None /\ task'[j].status = "gone"
    BY <1>1, <1>3, <2>1 DEF Tasks
  <2>3. Over(j)' /\ \A h \in Hosts : task'[j].host # h
    BY <2>2, NoneAssumption DEF Over
  <2>4. \A k \in Jobs \ {j} : SameTask(k)
    BY <1>1, <1>3 DEF SameTask, Over
  <2> QED
    BY <1>2, <1>3, <2>3, <2>4, OverUndisturbed DEF netVars
<1>4. CASE Finish(j) /\ UNCHANGED toExecd
  BY <1>2, <1>4, FinishedIsOver, OverUndisturbed DEF netVars
<1>5. CASE task[j].status \in Busy /\ SignalTask(j) /\ UNCHANGED ru
  <2>1. task[j].host # None
    BY <1>5 DEF CoreInv, PlacedIffBusy
  <2> QED
    BY <1>2, <1>5, <2>1, SignalTaskUndisturbed
<1> QED
  BY <1>3, <1>4, <1>5 DEF Delete

\* The signal timer.
LEMMA SignalResendUndisturbed ==
  ASSUME CoreInv, TypeInv, UndisturbedInv, NEW j \in Jobs, SignalResend(j)
  PROVE  UndisturbedInv'
<1>1. task \in [Jobs -> Tasks]
  BY DEF CoreInv, CoreType
<1>2. UNCHANGED <<ru, rep, execdVars, toMaster>>
  BY DEF SignalResend
<1>3. CASE task[j].host # None /\ SignalTask(j)
  BY <1>2, <1>3, SignalTaskUndisturbed
<1>4. CASE task' = [task EXCEPT ![j].signal = FALSE] /\ UNCHANGED toExecd
  <2>1. \A k \in Jobs : SameTask(k)
    BY <1>1, <1>4 DEF SameTask, Over, Tasks
  <2> QED
    BY <1>2, <1>4, <2>1, QuietStep DEF netVars
<1> QED
  BY <1>3, <1>4 DEF SignalResend

\* The usage of a finished job was debited.
LEMMA DebitedUndisturbed ==
  ASSUME CoreInv, UndisturbedInv, NEW j \in Jobs, Debited(j)
  PROVE  UndisturbedInv'
<1>1. task \in [Jobs -> Tasks]
  BY DEF CoreInv, CoreType
<1>2. \A k \in Jobs : SameTask(k)
  BY <1>1 DEF Debited, SameTask, Over, Tasks
<1> QED
  BY <1>2, QuietStep DEF Debited

\* A host becomes unknown.
LEMMA HostUnheardUndisturbed ==
  ASSUME UndisturbedInv, NEW h \in Hosts, HostUnheard(h)
  PROVE  UndisturbedInv'
<1>1. \A k \in Jobs : SameTask(k)
  BY DEF HostUnheard, SameTask, Over
<1> QED
  BY <1>1, QuietStep DEF HostUnheard

\* Jobs are rescheduled: their host keeps two new entries of each.
LEMMA RescheduleUndisturbed ==
  ASSUME CoreInv, TypeInv, UndisturbedInv, NEW h \in Hosts, NEW js \in SUBSET Jobs,
         NEW manual, \A j \in js : Reschedulable(j, h), RescheduleJobs(js, h, manual),
         UNCHANGED <<rep, execdVars, netVars>>
  PROVE  UndisturbedInv'
<1>1. task \in [Jobs -> Tasks] /\ ru \in [Hosts -> [Jobs -> Seq(RUStates)]]
  BY DEF CoreInv, CoreType, TypeInv, ListsOK
<1>2. /\ task' = [j \in Jobs |-> IF j \in js
                    THEN [Leave(task[j], "JIDLE") EXCEPT !.deferred = manual]
                    ELSE task[j]]
      /\ ru' = [ru EXCEPT ![h] = [j \in Jobs |-> IF j \in js
                    THEN RescheduledEntries ELSE ru[h][j]]]
  BY DEF RescheduleJobs
<1>3. \A g \in Hosts : SameTraffic(g)
  BY DEF SameTraffic, netVars, execdVars
<1>4. \A g \in Hosts, j \in Jobs : SameDaemon(g, j)
  BY DEF SameDaemon, execdVars
<1>5. ASSUME NEW g \in Hosts, NEW j \in Jobs, j \notin js
      PROVE  Orderly(g, j)'
  <2>1. TaskAgrees(g, j) /\ ru'[g][j] = ru[g][j]
    BY <1>1, <1>2, <1>5 DEF TaskAgrees, SameTask, Over
  <2> QED
    BY <1>3, <1>4, <2>1, TrafficUndisturbed, Undisturbing DEF UndisturbedInv
<1>6. ASSUME NEW g \in Hosts, NEW j \in js
      PROVE  Orderly(g, j)'
  <2>1. task'[j].host = None /\ task'[j].host # g
    <3>1. Leave(task[j], "JIDLE") \in Tasks /\ Leave(task[j], "JIDLE").host = None
      BY <1>1, LeaveFields DEF Statuses
    <3>2. task'[j] = [Leave(task[j], "JIDLE") EXCEPT !.deferred = manual]
      BY <1>2
    <3> QED
      BY <3>1, <3>2, NoneAssumption DEF Tasks
  <2>2. task[j].status \in Busy /\ task[j].host = h
    BY DEF Reschedulable
  <2>3. CASE g = h
    <3>1. ru'[g][j] = RescheduledEntries
      BY <1>1, <1>2, <2>3
    <3>2. 2 \in DOMAIN RescheduledEntries /\ RescheduledEntries[2] = "SKIP_JR"
      BY DEF RescheduledEntries, AddEntry
    <3> QED
      BY <1>3, <1>4, <2>1, <3>1, <3>2, TrafficUndisturbed, Leaving DEF UndisturbedInv
  <2>4. CASE g # h
    <3>1. ru'[g][j] = ru[g][j]
      BY <1>1, <1>2, <2>4
    <3>2. TaskAgrees(g, j)
      BY <2>1, <2>2, <2>4 DEF TaskAgrees, Elsewhere, Over, Busy
    <3> QED
      BY <1>3, <1>4, <3>1, <3>2, TrafficUndisturbed, Undisturbing DEF UndisturbedInv
  <2> QED
    BY <2>3, <2>4
<1>7. \A g \in Hosts : OneExchange(g)'
  BY <1>3, TrafficUndisturbed DEF UndisturbedInv
<1>8. \A g \in Hosts, j \in Jobs : Orderly(g, j)'
  BY <1>5, <1>6
<1> QED
  BY <1>7, <1>8 DEF UndisturbedInv, execdVars

\* The timer of an unknown host.
LEMMA RescheduleUnknownHostUndisturbed ==
  ASSUME CoreInv, TypeInv, UndisturbedInv, NEW h \in Hosts, RescheduleUnknownHost(h)
  PROVE  UndisturbedInv'
<1>1. UNCHANGED <<rep, execdVars, netVars>>
  BY DEF RescheduleUnknownHost
<1>2. CASE RescheduleJobs({j \in Jobs : Reschedulable(j, h)}, h, FALSE)
  <2>1. PICK js \in SUBSET Jobs : js = {j \in Jobs : Reschedulable(j, h)}
    OBVIOUS
  <2>2. \A j \in js : Reschedulable(j, h)
    BY <2>1
  <2>3. RescheduleJobs(js, h, FALSE)
    BY <1>2, <2>1
  <2> QED
    BY <1>1, <2>2, <2>3, RescheduleUndisturbed
<1>3. CASE UNCHANGED <<task, ru>>
  <2>1. \A k \in Jobs : SameTask(k)
    BY <1>3 DEF SameTask, Over
  <2> QED
    BY <1>1, <1>3, <2>1, QuietStep
<1> QED
  BY <1>2, <1>3 DEF RescheduleUnknownHost

\* qmod -rj
LEMMA RescheduleManuallyUndisturbed ==
  ASSUME CoreInv, TypeInv, UndisturbedInv, NEW j \in Jobs, RescheduleManually(j)
  PROVE  UndisturbedInv'
<1>1. UNCHANGED <<rep, execdVars, netVars>>
  BY DEF RescheduleManually
<1>2. PICK h \in Hosts : Reschedulable(j, h) /\ RescheduleJobs({j}, h, TRUE)
  BY DEF RescheduleManually
<1>3. PICK js \in SUBSET Jobs : js = {j}
  OBVIOUS
<1>4. (\A k \in js : Reschedulable(k, h)) /\ RescheduleJobs(js, h, TRUE)
  BY <1>2, <1>3
<1> QED
  BY <1>1, <1>4, RescheduleUndisturbed

-----------------------------------------------------------------------------
(* Reading a report                                                         *)

\* A step that leaves the way to the daemon alone.
LEMMA SameDownstream ==
  ASSUME NEW h \in Hosts, NEW j \in Jobs,
         toExecd'[h] = toExecd[h], acking'[h] = acking[h],
         \A t \in AckTypes : Packed(h, Ack(t, j))' => Packed(h, Ack(t, j)),
         \A r \in JobReports : Reported(h, j, r)' => Reported(h, j, r)
  PROVE  NothingNew(h, j)
<1>1. \A t \in AckTypes : Acked(h, Ack(t, j))' => Acked(h, Ack(t, j))
  BY SameToExecd, SameHandled DEF Acked
<1> QED
  BY <1>1, SameToExecd, SameHandled DEF NothingNew

\* The answer to a signal is taken.
LEMMA ReceiveSignalAckUndisturbed ==
  ASSUME CoreInv, TypeInv, UndisturbedInv, NEW h \in Hosts, ReceiveSignalAck(h)
  PROVE  UndisturbedInv'
<1>1. /\ UNCHANGED <<ru, rep, execdVars, toExecd>> /\ toMaster[h] # <<>>
      /\ toMaster' = [toMaster EXCEPT ![h] = Tail(@)]
      /\ ~IsReport(Head(toMaster[h]))
  BY DEF ReceiveSignalAck, IsReport
<1>2. toMaster'[h] = Tail(toMaster[h]) /\ \A g \in Hosts \ {h} : toMaster'[g] = toMaster[g]
  BY <1>1 DEF TypeInv, MessagesOK
<1>3. \A k \in Jobs : SameTask(k)
  <2>1. task \in [Jobs -> Tasks]
    BY DEF CoreInv, CoreType
  <2> QED
    BY <2>1 DEF ReceiveSignalAck, SameTask, Over, Tasks
<1>4. \A g \in Hosts \ {h} : SameTraffic(g)
  BY <1>1, <1>2 DEF SameTraffic, execdVars
<1>5. OneExchange(h)
  BY DEF UndisturbedInv
<1>6. /\ ~ReportWaits(h)' /\ ReportIsFirst(h)'
      /\ \A k, r : ~WaitsAbout(h, k, r)'
      /\ \A k : ~WaitsWithout(h, k)'
  BY <1>1, <1>2, <1>5, TailOfToMaster DEF OneExchange
<1>7. toExecd'[h] = toExecd[h] /\ acking'[h] = acking[h] /\ rep' = rep
  BY <1>1 DEF execdVars
<1>8. OneExchange(h)'
  BY <1>5, <1>6, <1>7, SameToExecd, SameRead DEF OneExchange
<1>9. ASSUME NEW k \in Jobs
      PROVE  NothingNew(h, k) /\ SameMissing(h, k)
  BY <1>6, <1>7, SameRead, SameDownstream DEF Reported, SameMissing
<1>10. ASSUME NEW g \in Hosts, NEW k \in Jobs
       PROVE  Orderly(g, k)'
  <2>1. NothingNew(g, k) /\ SameMissing(g, k)
    BY <1>4, <1>9, TrafficUndisturbed
  <2>2. SameDaemon(g, k) /\ ru'[g][k] = ru[g][k] /\ TaskAgrees(g, k)
    BY <1>1, <1>3 DEF SameDaemon, TaskAgrees, execdVars
  <2> QED
    BY <2>1, <2>2, Undisturbing DEF UndisturbedInv
<1>11. \A g \in Hosts : OneExchange(g)'
  BY <1>4, <1>8, TrafficUndisturbed DEF UndisturbedInv
<1> QED
  BY <1>1, <1>10, <1>11 DEF UndisturbedInv, execdVars

\* The entries age.  One that waits for its last report is not yet settled.
LEMMA AgedEntries ==
  ASSUME NEW e \in Seq(RUStates)
  PROVE  /\ Age(e) = <<>> <=> e = <<>>
         /\ DropsNow(Age(e)) => DropsNext(e)
<1>1. DOMAIN Age(e) = DOMAIN e /\ \A n \in DOMAIN e : Age(e)[n] = Aged(e[n])
  BY DEF Age
<1>2. Age(e) = <<>> <=> e = <<>>
  BY DEF Age
<1>3. DropsNow(Age(e)) => DropsNext(e)
  BY <1>1 DEF DropsNow, DropsNext, Aged
<1> QED
  BY <1>2, <1>3

\* A report is taken to be read: it was the only one.
LEMMA BeginReportUndisturbed ==
  ASSUME CoreInv, TypeInv, UndisturbedInv, NEW h \in Hosts, BeginReport(h)
  PROVE  UndisturbedInv'
<1> DEFINE msg == Head(toMaster[h])
<1>1. /\ UNCHANGED <<task, execdVars, toExecd>> /\ rep = None /\ toMaster[h] # <<>>
      /\ toMaster' = [toMaster EXCEPT ![h] = Tail(@)]
      /\ IsReport(msg) /\ rep' = [host |-> h, jrs |-> msg.jrs, acks |-> <<>>]
      /\ ru' = [ru EXCEPT ![h] = [j \in Jobs |-> Age(ru[h][j])]]
  BY DEF BeginReport, IsReport
<1>2. toMaster'[h] = Tail(toMaster[h]) /\ \A g \in Hosts \ {h} : toMaster'[g] = toMaster[g]
  BY <1>1 DEF TypeInv, MessagesOK
<1>3. OneExchange(h)
  BY DEF UndisturbedInv
<1>4. /\ ~ReportWaits(h)' /\ ReportIsFirst(h)' /\ ReportWaits(h)
      /\ \A k, r : /\ ~WaitsAbout(h, k, r)'
                   /\ WaitsAbout(h, k, r) <=> InSeq(r, msg.jrs[k])
      /\ \A k : /\ ~WaitsWithout(h, k)'
                /\ WaitsWithout(h, k) <=> msg.jrs[k] = <<>>
  BY <1>1, <1>2, <1>3, TailOfToMaster DEF OneExchange
<1>5. /\ rep' # None /\ rep'.host = h /\ rep'.jrs = msg.jrs /\ rep'.acks = <<>>
  <2>1. /\ rep' = [host |-> h, jrs |-> msg.jrs, acks |-> <<>>]
        /\ rep' \in ReportBeingRead \/ rep' = None
    BY <1>1, BeginReportType DEF TypeInv, ListsOK
  <2>2. msg \in ToMaster
    BY <1>1 DEF TypeInv, MessagesOK
  <2>3. msg.jrs \in [Jobs -> Seq(JobReports)]
    BY <1>1, <2>2 DEF IsReport, ToMaster
  <2>4. rep' \in ReportBeingRead
    BY <2>1, <2>3 DEF ReportBeingRead
  <2> QED
    BY <2>1, <2>4, NothingAssumption
<1> HIDE DEF msg
<1>6. /\ ReportIsRead(h)'
      /\ \A k, r : ReadAbout(h, k, r)' <=> WaitsAbout(h, k, r)
      /\ \A k : ReadWithout(h, k)' <=> WaitsWithout(h, k)
      /\ \A a : ~Packed(h, a)'
  BY <1>4, <1>5 DEF ReportIsRead, ReadAbout, ReadWithout, Packed, InSeq
<1>7. \A g \in Hosts \ {h} : SameTraffic(g)
  <2>1. \A g \in Hosts \ {h} : ~ReportIsRead(g) /\ ~ReportIsRead(g)'
    BY <1>1, <1>5 DEF ReportIsRead
  <2> QED
    BY <1>1, <1>2, <2>1 DEF SameTraffic, execdVars
<1>8. toExecd'[h] = toExecd[h] /\ acking'[h] = acking[h]
  BY <1>1 DEF execdVars
<1>9. OneExchange(h)'
  BY <1>3, <1>4, <1>8, SameToExecd DEF OneExchange
<1>10. \A g \in Hosts, k \in Jobs : SameDaemon(g, k) /\ SameTask(k)
  BY <1>1 DEF SameDaemon, SameTask, Over, execdVars
<1>11. ASSUME NEW k \in Jobs
       PROVE  Orderly(h, k)'
  <2>1. NothingNew(h, k)
    BY <1>4, <1>6, <1>8, SameDownstream DEF Reported
  <2>2. /\ ru[h][k] \in Seq(RUStates) /\ ru'[h][k] = Age(ru[h][k])
    BY <1>1 DEF TypeInv, ListsOK
  <2>3. /\ ru'[h][k] = <<>> <=> ru[h][k] = <<>>
        /\ DropsNow(ru'[h][k]) => DropsNext(ru[h][k])
    BY <2>2, AgedEntries
  <2>4. Orderly(h, k)
    BY DEF UndisturbedInv
  <2>5. Elsewhere(h, k)' => Elsewhere(h, k)
    BY <1>10 DEF SameTask, Elsewhere
  <2>6. Elsewhere(h, k)' => EntryStays(h, k)
    BY <1>4, <1>6, <2>3, <2>4, <2>5
    DEF Orderly, NoEntryIsAbsent, LastEntryIsAbsent, EntryStays
  <2> QED
    BY <1>10, <2>1, <2>3, <2>4, <2>6, NothingHappens
<1>12. ASSUME NEW g \in Hosts \ {h}, NEW k \in Jobs
       PROVE  Orderly(g, k)'
  <2>1. NothingNew(g, k) /\ SameMissing(g, k)
    BY <1>7, TrafficUndisturbed
  <2>2. ru'[g][k] = ru[g][k] /\ TaskAgrees(g, k)
    BY <1>1, <1>10 DEF TaskAgrees, TypeInv, ListsOK
  <2> QED
    BY <1>10, <2>1, <2>2, Undisturbing DEF UndisturbedInv
<1>13. \A g \in Hosts : OneExchange(g)'
  BY <1>7, <1>9, TrafficUndisturbed DEF UndisturbedInv
<1>14. \A g \in Hosts, k \in Jobs : Orderly(g, k)'
  BY <1>11, <1>12
<1> QED
  BY <1>1, <1>13, <1>14 DEF UndisturbedInv, execdVars

\* Entries are dropped that are settled.
LEMMA DroppedEntries ==
  ASSUME NEW e \in Seq(RUStates)
  PROVE  DropSettled(e) = <<>> <=> DropsNow(e)
<1> DEFINE P == {n \in DOMAIN e : IsKept(e[n])}
<1>1. P \subseteq DOMAIN e
  OBVIOUS
<1>2. Chosen(e, P) = <<>> <=> P = {}
  BY <1>1, ChosenType
<1> QED
  BY <1>2 DEF DropSettled, DropsNow, IsKept

\* A report has been read: what was packed is sent.
LEMMA EndReportUndisturbed ==
  ASSUME CoreInv, TypeInv, UndisturbedInv, EndReport
  PROVE  UndisturbedInv'
<1>1. /\ UNCHANGED <<task, execdVars, toMaster>> /\ rep # None /\ rep' = None
      /\ rep.jrs = NoReports
      /\ rep.host \in Hosts /\ rep.acks \in Seq(Acks)
  BY DEF EndReport, TypeInv, ListsOK, ReportBeingRead
<1>2. PICK h \in Hosts : h = rep.host
  BY <1>1
<1>3. PICK acks \in Seq(Acks) : acks = rep.acks
  BY <1>1
<1>4. ru' = [ru EXCEPT ![h] = [j \in Jobs |-> DropSettled(ru[h][j])]]
  BY <1>2 DEF EndReport
<1>5. /\ ReportIsRead(h) /\ ~ReportIsRead(h)'
      /\ \A g \in Hosts \ {h} : ~ReportIsRead(g) /\ ~ReportIsRead(g)'
  BY <1>1, <1>2 DEF ReportIsRead
<1>6. OneExchange(h)
  BY DEF UndisturbedInv
<1>7. ~ReportWaits(h) /\ ~AcksWait(h) /\ acking[h] = <<>>
  BY <1>5, <1>6 DEF OneExchange
<1>8. toMaster'[h] = toMaster[h] /\ acking'[h] = acking[h]
  BY <1>1 DEF execdVars
<1>9. /\ \A k, r : ~WaitsAbout(h, k, r)' /\ ~ReadAbout(h, k, r)'
      /\ \A k : ~WaitsWithout(h, k)' /\ ~ReadWithout(h, k)'
      /\ \A a : Packed(h, a) <=> InSeq(a, acks)
      /\ \A a : ~Packed(h, a)'
      /\ \A k \in Jobs : ReadWithout(h, k)
      /\ ~ReportWaits(h)' /\ ReportIsFirst(h)'
  <2>1. ~ReportWaits(h)' /\ ReportIsFirst(h)'
    BY <1>6, <1>7, <1>8, SameToMaster DEF OneExchange
  <2>2. \A k, r : ~WaitsAbout(h, k, r)'
    BY <2>1 DEF ReportWaits, WaitsAbout
  <2>3. \A k : ~WaitsWithout(h, k)'
    BY <2>1 DEF ReportWaits, WaitsWithout
  <2>4. /\ \A k, r : ~ReadAbout(h, k, r)'
        /\ \A k : ~ReadWithout(h, k)'
        /\ \A a : ~Packed(h, a)'
    BY <1>5 DEF ReadAbout, ReadWithout, Packed
  <2>5. \A a : Packed(h, a) <=> InSeq(a, acks)
    BY <1>3, <1>5 DEF Packed
  <2>6. \A k \in Jobs : ReadWithout(h, k)
    BY <1>1, <1>5 DEF ReadWithout, NoReports
  <2> QED
    BY <2>1, <2>2, <2>3, <2>4, <2>5, <2>6
<1>10. /\ \A g \in Hosts \ {h} : toExecd'[g] = toExecd[g]
       /\ OneAckMessage(h)'
       /\ \A a : AckWaits(h, a)' => AckWaits(h, a) \/ InSeq(a, acks)
       /\ \A k : /\ DeliveryWaits(h, k)' <=> DeliveryWaits(h, k)
                 /\ SignalWaits(h, k)' => SignalWaits(h, k)
                 /\ DeliveredBeforeSignal(h, k) => DeliveredBeforeSignal(h, k)'
                 /\ DeliveredBeforeExit(h, k) => DeliveredBeforeExit(h, k)'
       /\ \A k, run : DeliveryRun(h, k, run) => DeliveryRun(h, k, run)'
  <2>1. CASE UNCHANGED toExecd
    <3>1. toExecd'[h] = toExecd[h]
      BY <2>1
    <3> QED
      BY <1>6, <2>1, <3>1, SameToExecd DEF OneExchange
  <2>2. CASE Sent(h, [kind |-> "TAG_ACK_REQUEST", acks |-> acks])
    <3>1. PICK msg \in ToExecd : msg = [kind |-> "TAG_ACK_REQUEST", acks |-> acks]
      BY MessageTypes
    <3>2. /\ toExecd'[h] = Append(toExecd[h], msg)
          /\ \A g \in Hosts \ {h} : toExecd'[g] = toExecd[g]
      BY <2>2, <3>1, SentArrives
    <3>3. /\ IsAcks(msg) /\ msg.acks = acks
          /\ \A k : ~IsDelivery(msg, k) /\ ~IsSignal(msg, k)
      BY <3>1 DEF IsAcks, IsDelivery, IsSignal
    <3>4. /\ \A k : /\ DeliveryWaits(h, k)' <=> DeliveryWaits(h, k)
                    /\ SignalWaits(h, k)' => SignalWaits(h, k)
          /\ \A a : AckWaits(h, a)' => AckWaits(h, a) \/ InSeq(a, acks)
      BY <3>2, <3>3, AppendToExecd
    <3>5. /\ OneAckMessage(h)'
          /\ \A k : /\ DeliveredBeforeSignal(h, k) => DeliveredBeforeSignal(h, k)'
                    /\ DeliveredBeforeExit(h, k) => DeliveredBeforeExit(h, k)'
          /\ \A k, run : DeliveryRun(h, k, run) => DeliveryRun(h, k, run)'
      BY <1>6, <1>7, <3>2, <3>3, AppendKeepsOrder DEF OneExchange
    <3> QED
      BY <3>2, <3>4, <3>5
  <2> QED
    BY <1>2, <1>3, <2>1, <2>2 DEF EndReport
<1>11. \A g \in Hosts \ {h} : SameTraffic(g)
  BY <1>1, <1>5, <1>10 DEF SameTraffic, execdVars
<1>12. OneExchange(h)'
  BY <1>5, <1>7, <1>8, <1>9, <1>10 DEF OneExchange
<1>13. \A g \in Hosts, k \in Jobs : SameDaemon(g, k) /\ SameTask(k)
  BY <1>1 DEF SameDaemon, SameTask, Over, execdVars
<1>14. ASSUME NEW k \in Jobs
       PROVE  Orderly(h, k)'
  <2>1. /\ \A r : ~Reported(h, k, r)'
        /\ \A a : Acked(h, a)' => Acked(h, a)
        /\ \A a : Handled(h, a)' => Handled(h, a)
    BY <1>8, <1>9, <1>10, SameHandled DEF Reported, Acked
  <2>2. NothingNew(h, k)
    BY <1>10, <2>1 DEF NothingNew
  <2>3. ru[h][k] \in Seq(RUStates) /\ ru'[h][k] = DropSettled(ru[h][k])
    BY <1>4 DEF TypeInv, ListsOK
  <2>4. ru'[h][k] = <<>> <=> DropsNow(ru[h][k])
    BY <2>3, DroppedEntries
  <2>5. ru[h][k] = <<>> => ru'[h][k] = <<>>
    BY <2>4 DEF DropsNow
  <2>6. Orderly(h, k)
    BY DEF UndisturbedInv
  <2>7. \A r : ~Reported(h, k, r)
    <3>1. \A r : ~WaitsAbout(h, k, r)
      BY <1>7 DEF ReportWaits, WaitsAbout
    <3>2. \A r : ~ReadAbout(h, k, r)
      BY <1>9 DEF ReadWithout, ReadAbout, InSeq
    <3> QED
      BY <3>1, <3>2 DEF Reported
  <2>8. Elsewhere(h, k)' => Elsewhere(h, k)
    BY <1>13 DEF SameTask, Elsewhere
  <2>9. Elsewhere(h, k)' => EntryStays(h, k)
    BY <1>9, <2>4, <2>6, <2>7, <2>8 DEF Orderly, LastEntryIsAbsent, EntryStays
  <2> QED
    BY <1>13, <2>2, <2>5, <2>6, <2>9, NothingHappens
<1>15. ASSUME NEW g \in Hosts \ {h}, NEW k \in Jobs
       PROVE  Orderly(g, k)'
  <2>1. NothingNew(g, k) /\ SameMissing(g, k)
    BY <1>11, TrafficUndisturbed
  <2>2. ru'[g][k] = ru[g][k] /\ TaskAgrees(g, k)
    BY <1>4, <1>13 DEF TaskAgrees, TypeInv, ListsOK
  <2> QED
    BY <1>13, <2>1, <2>2, Undisturbing DEF UndisturbedInv
<1>16. \A g \in Hosts : OneExchange(g)'
  BY <1>11, <1>12, TrafficUndisturbed DEF UndisturbedInv
<1>17. \A g \in Hosts, k \in Jobs : Orderly(g, k)'
  BY <1>14, <1>15
<1> QED
  BY <1>1, <1>16, <1>17 DEF UndisturbedInv, execdVars

\* Concatenation adds no other elements.
LEMMA ConcatElements ==
  ASSUME NEW S, NEW s \in Seq(S), NEW t \in Seq(S), NEW e, InSeq(e, s \o t)
  PROVE  InSeq(e, s) \/ InSeq(e, t)
<1>1. PICK i \in DOMAIN (s \o t) : (s \o t)[i] = e
  BY DEF InSeq
<1>2. CASE i <= Len(s)
  BY <1>1, <1>2 DEF InSeq
<1>3. CASE i > Len(s)
  <2>1. i - Len(s) \in DOMAIN t /\ (s \o t)[i] = t[i - Len(s)]
    BY <1>1, <1>3
  <2> QED
    BY <1>1, <2>1 DEF InSeq
<1> QED
  BY <1>1, <1>2, <1>3

\* One job report is answered: what the others see.
LEMMA AnswerElements ==
  ASSUME TypeInv, NEW h \in Hosts, NEW j \in Jobs, ReportIsRead(h), rep.jrs[j] # <<>>,
         NEW types \in Seq(AckTypes), Answer(j, types)
  PROVE  /\ ReportIsRead(h)'
         /\ \A g \in Hosts \ {h} : ~ReportIsRead(g) /\ ~ReportIsRead(g)'
         /\ \A k \in Jobs : \A r : ReadAbout(h, k, r)' => ReadAbout(h, k, r)
         /\ \A k \in Jobs \ {j} : ReadWithout(h, k)' => ReadWithout(h, k)
         /\ \A a : Packed(h, a)' =>
              Packed(h, a) \/ \E i \in DOMAIN types : a = Ack(types[i], j)
<1>1. rep # None /\ rep.host = h /\ rep \in ReportBeingRead
  BY DEF ReportIsRead, TypeInv, ListsOK
<1>2. rep' \in ReportBeingRead
  BY <1>1, AnswerType DEF AckTypes
<1>3. rep' # None
  BY <1>2, NothingAssumption
<1> DEFINE packed == [i \in DOMAIN types |-> [type |-> types[i], job |-> j]]
<1>4. /\ rep'.host = h
      /\ rep'.jrs = [rep.jrs EXCEPT ![j] = Tail(rep.jrs[j])]
      /\ rep'.acks = rep.acks \o packed
  BY <1>1 DEF Answer, ReportBeingRead
<1>5. /\ rep.jrs \in [Jobs -> Seq(JobReports)] /\ rep.acks \in Seq(Acks)
  BY <1>1 DEF ReportBeingRead
<1>6. packed \in Seq(Acks)
  <2>1. \A i \in 1 .. Len(types) : types[i] \in {"ACK_JOB_EXIT", "ACK_SIGNAL_JOB"}
    BY DEF AckTypes
  <2>2. \A i \in 1 .. Len(types) : [type |-> types[i], job |-> j] \in Acks
    BY <2>1 DEF Acks
  <2> QED
    BY <2>2
<1>7. \A i \in DOMAIN packed : i \in DOMAIN types /\ packed[i] = Ack(types[i], j)
  BY DEF Ack
<1> HIDE DEF packed
<1>8. ASSUME NEW k \in Jobs, NEW r, InSeq(r, rep'.jrs[k])
      PROVE  InSeq(r, rep.jrs[k])
  <2>1. CASE k = j
    <3>1. rep'.jrs[k] = Tail(rep.jrs[k])
      BY <1>4, <1>5, <2>1
    <3>2. rep.jrs[k] \in Seq(JobReports) /\ rep.jrs[k] # <<>>
      BY <1>5, <2>1
    <3> QED
      BY <1>8, <3>1, <3>2, TailElements DEF InSeq
  <2>2. CASE k # j
    BY <1>4, <1>5, <1>8, <2>2
  <2> QED
    BY <2>1, <2>2
<1>9. \A k \in Jobs \ {j} : rep'.jrs[k] = rep.jrs[k]
  BY <1>4, <1>5
<1>10. ASSUME NEW a, InSeq(a, rep'.acks)
       PROVE  InSeq(a, rep.acks) \/ \E i \in DOMAIN types : a = Ack(types[i], j)
  <2>1. InSeq(a, rep.acks) \/ InSeq(a, packed)
    BY <1>4, <1>5, <1>6, <1>10, ConcatElements
  <2> QED
    BY <1>7, <2>1 DEF InSeq
<1>11. /\ ReportIsRead(h) /\ ReportIsRead(h)'
       /\ \A g \in Hosts \ {h} : ~ReportIsRead(g) /\ ~ReportIsRead(g)'
  BY <1>1, <1>3, <1>4 DEF ReportIsRead
<1>12. \A k \in Jobs : \A r : ReadAbout(h, k, r)' => ReadAbout(h, k, r)
  BY <1>8, <1>11 DEF ReadAbout
<1>13. \A k \in Jobs \ {j} : ReadWithout(h, k)' => ReadWithout(h, k)
  BY <1>9, <1>11 DEF ReadWithout
<1>14. \A a : Packed(h, a)' =>
                Packed(h, a) \/ \E i \in DOMAIN types : a = Ack(types[i], j)
  BY <1>10, <1>11 DEF Packed
<1> QED
  BY <1>11, <1>12, <1>13, <1>14

\* One job report is read.  What becomes of its own job is left to the callers.
LEMMA ReadingUndisturbed ==
  ASSUME TypeInv, UndisturbedInv, NEW h \in Hosts, NEW j \in Jobs,
         ReportIsRead(h), rep.jrs[j] # <<>>,
         NEW types \in Seq(AckTypes), Answer(j, types), UNCHANGED <<execdVars, netVars>>,
         \A g \in Hosts, k \in Jobs : k # j \/ g # h =>
           \/ TaskAgrees(g, k) /\ ru'[g][k] = ru[g][k]
           \/ task'[k].host # g /\ Over(k)',
         Orderly(h, j)'
  PROVE  UndisturbedInv'
<1>1. /\ ReportIsRead(h)'
      /\ \A g \in Hosts \ {h} : ~ReportIsRead(g) /\ ~ReportIsRead(g)'
      /\ \A k \in Jobs : \A r : ReadAbout(h, k, r)' => ReadAbout(h, k, r)
      /\ \A k \in Jobs \ {j} : ReadWithout(h, k)' => ReadWithout(h, k)
      /\ \A a : Packed(h, a)' =>
           Packed(h, a) \/ \E i \in DOMAIN types : a = Ack(types[i], j)
  BY AnswerElements
<1>2. \A g \in Hosts \ {h} : SameTraffic(g)
  BY <1>1 DEF SameTraffic, netVars, execdVars
<1>3. toExecd'[h] = toExecd[h] /\ toMaster'[h] = toMaster[h] /\ acking'[h] = acking[h]
  BY DEF netVars, execdVars
<1>4. OneExchange(h)'
  <2>1. OneExchange(h)
    BY DEF UndisturbedInv
  <2> QED
    BY <1>1, <1>3, <2>1, SameToExecd, SameToMaster DEF OneExchange
<1>5. ASSUME NEW k \in Jobs \ {j}
      PROVE  NothingNew(h, k) /\ SameMissing(h, k)
  <2>1. \A r \in JobReports : Reported(h, k, r)' => Reported(h, k, r)
    BY <1>1, <1>3, SameToMaster DEF Reported
  <2>2. \A t \in AckTypes : Packed(h, Ack(t, k))' => Packed(h, Ack(t, k))
    BY <1>1 DEF Ack
  <2>3. SameMissing(h, k)
    BY <1>1, <1>3, SameToMaster DEF SameMissing
  <2> QED
    BY <1>3, <2>1, <2>2, <2>3, SameDownstream
<1>6. ASSUME NEW g \in Hosts, NEW k \in Jobs, k # j \/ g # h
      PROVE  Orderly(g, k)'
  <2>1. NothingNew(g, k) /\ SameMissing(g, k)
    BY <1>2, <1>5, <1>6, TrafficUndisturbed
  <2>2. SameDaemon(g, k)
    BY DEF SameDaemon, execdVars
  <2>3. Orderly(g, k)
    BY DEF UndisturbedInv
  <2>4. CASE TaskAgrees(g, k) /\ ru'[g][k] = ru[g][k]
    BY <2>1, <2>2, <2>3, <2>4, Undisturbing
  <2>5. CASE task'[k].host # g /\ Over(k)'
    BY <2>1, <2>2, <2>3, <2>5, Leaving
  <2> QED
    BY <1>6, <2>4, <2>5
<1>7. \A g \in Hosts : OneExchange(g)'
  BY <1>2, <1>4, TrafficUndisturbed DEF UndisturbedInv
<1>8. \A g \in Hosts, k \in Jobs : Orderly(g, k)'
  BY <1>6
<1> QED
  BY <1>7, <1>8 DEF UndisturbedInv, execdVars

\* The job whose report is read: an exit is acknowledged only if it was reported,
\* and not to the host that has the task.
LEMMA ReadingPair ==
  ASSUME TypeInv, UndisturbedInv, NEW h \in Hosts, NEW j \in Jobs,
         ReportIsRead(h), rep.jrs[j] # <<>>,
         NEW types \in Seq(AckTypes), Answer(j, types), UNCHANGED <<execdVars, netVars>>,
         \A i \in DOMAIN types :
           types[i] = "ACK_JOB_EXIT" => Head(rep.jrs[j]).state = "JEXITING",
         \/ /\ SameTask(j) /\ ru'[h][j] = ru[h][j] /\ ~Elsewhere(h, j)
            /\ task[j].host = h => \A i \in DOMAIN types : types[i] # "ACK_JOB_EXIT"
         \/ /\ task'[j].host # h
            /\ Over(j)' \/ \E n \in DOMAIN ru'[h][j] : ru'[h][j][n] = "SKIP_JR"
         \/ /\ task'[j].host # h
            /\ ru'[h][j] # <<>> /\ ~DropsNow(ru'[h][j])
  PROVE  Orderly(h, j)'
<1>1. /\ \A r : ReadAbout(h, j, r)' => ReadAbout(h, j, r)
      /\ \A a : Packed(h, a)' =>
           Packed(h, a) \/ \E i \in DOMAIN types : a = Ack(types[i], j)
      /\ ReportIsRead(h)'
  BY AnswerElements
<1>2. toExecd'[h] = toExecd[h] /\ toMaster'[h] = toMaster[h] /\ acking'[h] = acking[h]
  BY DEF netVars, execdVars
<1>3. PICK r \in JobReports : r = Head(rep.jrs[j]) /\ ReadAbout(h, j, r)
  <2>1. rep.jrs[j] \in Seq(JobReports)
    BY DEF ReportIsRead, TypeInv, ListsOK, ReportBeingRead
  <2>2. 1 \in DOMAIN rep.jrs[j] /\ Head(rep.jrs[j]) = rep.jrs[j][1]
    BY <2>1
  <2> QED
    BY <2>1, <2>2 DEF ReadAbout, InSeq
<1>4. Orderly(h, j)
  BY DEF UndisturbedInv
<1>5. ~(copy[h][j] = None /\ DeliveryWaits(h, j))
  BY <1>3, <1>4 DEF Orderly, NewIsUnknown, Reported
<1>6. \A q \in JobReports : Reported(h, j, q)' => Reported(h, j, q)
  BY <1>1, <1>2, SameToMaster DEF Reported
<1>7. \A a : AckWaits(h, a)' <=> AckWaits(h, a)
  BY <1>2, SameToExecd
<1>8. \A a : Handled(h, a)' <=> Handled(h, a)
  BY <1>2, SameHandled
<1>9. Acked(h, ExitAck(j))' =>
        Acked(h, ExitAck(j)) \/ \E i \in DOMAIN types : types[i] = "ACK_JOB_EXIT"
  BY <1>1, <1>7, <1>8 DEF Acked, ExitAck, Ack
<1>10. SameDaemon(h, j)
  BY DEF SameDaemon, execdVars
<1>11. /\ CopyIsStarted(h, j)' /\ ProcsAreListed(h, j)' /\ OneReport(h, j)'
       /\ Ended(h, j)' <=> Ended(h, j)
  BY <1>4, <1>10, SameDaemonKeeps
<1>12. copy'[h][j] = copy[h][j]
  BY <1>10 DEF SameDaemon
<1>13. (\E i \in DOMAIN types : types[i] = "ACK_JOB_EXIT") => Ended(h, j)
  BY <1>3, <1>4 DEF Orderly, ExitsStand, Reported
<1>14. ExitsStand(h, j)'
  BY <1>4, <1>6, <1>9, <1>11, <1>12, <1>13 DEF Orderly, ExitsStand
<1>15. /\ DeliveryWaits(h, j)' <=> DeliveryWaits(h, j)
       /\ DeliveredBeforeExit(h, j) => DeliveredBeforeExit(h, j)'
       /\ \A run : DeliveryRun(h, j, run) => DeliveryRun(h, j, run)'
  BY <1>2, SameToExecd
<1>16. NoDeliveryAfterExit(h, j)'
  BY <1>4, <1>8, <1>15 DEF Orderly, NoDeliveryAfterExit
<1>17. NewIsUnknown(h, j)'
  BY <1>5, <1>12, <1>15 DEF NewIsUnknown
<1>18. ~WaitsWithout(h, j)'
  <2>1. ~ReportWaits(h)
    BY DEF UndisturbedInv, OneExchange
  <2>2. ~WaitsWithout(h, j)
    BY <2>1 DEF WaitsWithout, ReportWaits
  <2> QED
    BY <1>2, <2>2, SameToMaster
<1>19. CASE /\ SameTask(j) /\ ru'[h][j] = ru[h][j] /\ ~Elsewhere(h, j)
            /\ task[j].host = h => \A i \in DOMAIN types : types[i] # "ACK_JOB_EXIT"
  <2>1. AtItsHost(h, j)'
    BY <1>4, <1>6, <1>9, <1>12, <1>15, <1>19 DEF Orderly, AtItsHost, SameTask
  <2>2. ~Elsewhere(h, j)'
    BY <1>19 DEF SameTask, Elsewhere
  <2>3. NoEntryIsAbsent(h, j)' /\ LastEntryIsAbsent(h, j)'
    BY <2>2 DEF NoEntryIsAbsent, LastEntryIsAbsent
  <2> QED
    BY <1>11, <1>14, <1>16, <1>17, <2>1, <2>3 DEF Orderly
<1>20. CASE /\ task'[j].host # h
            /\ Over(j)' \/ (ru'[h][j] # <<>> /\ ~DropsNow(ru'[h][j]))
  <2>1. AtItsHost(h, j)'
    BY <1>20 DEF AtItsHost
  <2>2. NoEntryIsAbsent(h, j)' /\ LastEntryIsAbsent(h, j)'
    BY <1>18, <1>20 DEF NoEntryIsAbsent, LastEntryIsAbsent, Elsewhere
  <2> QED
    BY <1>11, <1>14, <1>16, <1>17, <2>1, <2>2 DEF Orderly
<1>21. ASSUME NEW n \in DOMAIN ru'[h][j], ru'[h][j][n] = "SKIP_JR"
       PROVE  ru'[h][j] # <<>> /\ ~DropsNow(ru'[h][j])
  BY <1>21 DEF DropsNow
<1> QED
  BY <1>19, <1>20, <1>21

\* What a job report can be answered with.
LEMMA AnswerTypes ==
  /\ <<"ACK_SIGNAL_JOB">> \in Seq(AckTypes) /\ <<"ACK_JOB_EXIT">> \in Seq(AckTypes)
  /\ <<>> \in Seq(AckTypes)
BY DEF AckTypes

\* A report about a job that was taken away keeps the entry.
LEMMA HeardEntries ==
  ASSUME NEW e \in Seq(RUStates), e # <<>>
  PROVE  Heard(e) # <<>> /\ ~DropsNow(Heard(e))
<1>1. 1 \in DOMAIN e /\ Head(e) = e[1]
  OBVIOUS
<1>2. CASE Head(e) = "SKIP_JR_REMOVE"
  <2>1. Heard(e) = [e EXCEPT ![1] = "SKIP_JR"]
    BY <1>2 DEF Heard
  <2>2. 1 \in DOMAIN Heard(e) /\ Heard(e)[1] = "SKIP_JR"
    BY <1>1, <2>1
  <2> QED
    BY <2>2 DEF DropsNow
<1>3. CASE Head(e) # "SKIP_JR_REMOVE"
  <2>1. Heard(e) = e
    BY <1>3 DEF Heard
  <2> QED
    BY <1>1, <1>3, <2>1 DEF DropsNow
<1> QED
  BY <1>2, <1>3

\* The report about a job that was taken away: its entry is kept.
LEMMA SkippedReportUndisturbed ==
  ASSUME CoreInv, TypeInv, UndisturbedInv, NEW h \in Hosts, NEW j \in Jobs,
         ReportIsRead(h), rep.jrs[j] # <<>>, SkippedReport(j),
         UNCHANGED <<execdVars, netVars>>
  PROVE  UndisturbedInv'
<1>1. rep.host = h
  BY DEF ReportIsRead
<1> DEFINE r == Head(rep.jrs[j])
           verdict == Verdict(ru[h][j], r.state = "JEXITING")
<1>2. verdict # "process" /\ ru[h][j] # <<>>
  BY <1>1 DEF SkippedReport, Verdict
<1>3. PICK types \in Seq(AckTypes) :
        /\ types = CASE verdict = "kill"     -> <<"ACK_SIGNAL_JOB">>
                     [] verdict = "ack_exit" -> <<"ACK_JOB_EXIT">>
                     [] OTHER                -> <<>>
  BY AnswerTypes
<1>4. Answer(j, types)
  BY <1>1, <1>3 DEF SkippedReport
<1>5. \A i \in DOMAIN types : types[i] = "ACK_JOB_EXIT" => r.state = "JEXITING"
  <2>1. ASSUME NEW i \in DOMAIN types, types[i] = "ACK_JOB_EXIT"
        PROVE  verdict = "ack_exit"
    BY <1>3, <2>1
  <2>2. verdict = "ack_exit" => r.state = "JEXITING"
    BY DEF Verdict
  <2> QED
    BY <2>1, <2>2
<1>6. ru \in [Hosts -> [Jobs -> Seq(RUStates)]] /\ task \in [Jobs -> Tasks]
  BY DEF CoreInv, CoreType, TypeInv, ListsOK
<1>7. /\ ru' = [ru EXCEPT ![h][j] = Heard(ru[h][j])]
  BY <1>1 DEF SkippedReport
<1>8. \A k \in Jobs : SameTask(k)
  BY <1>6 DEF SkippedReport, SameTask, Over, Tasks
<1>9. task'[j].host # h
  <2>1. task[j].host # h
    BY <1>2 DEF UndisturbedInv, Orderly, AtItsHost
  <2> QED
    BY <1>8, <2>1 DEF SameTask
<1>10. ru'[h][j] # <<>> /\ ~DropsNow(ru'[h][j])
  <2>1. ru'[h][j] = Heard(ru[h][j])
    BY <1>6, <1>7
  <2> QED
    BY <1>2, <1>6, <2>1, HeardEntries
<1> HIDE DEF r, verdict
<1>11. Orderly(h, j)'
  BY <1>4, <1>5, <1>9, <1>10, ReadingPair DEF r
<1>12. \A g \in Hosts, k \in Jobs : k # j \/ g # h =>
         TaskAgrees(g, k) /\ ru'[g][k] = ru[g][k]
  BY <1>6, <1>7, <1>8 DEF TaskAgrees
<1> QED
  BY <1>4, <1>11, <1>12, ReadingUndisturbed

\* A job that is not skipped is reported by the host that has it, or is over.
LEMMA ReporterHasTask ==
  ASSUME UndisturbedInv, TypeInv, NEW h \in Hosts, NEW j \in Jobs,
         ReportIsRead(h), rep.jrs[j] # <<>>, ru[h][j] = <<>>
  PROVE  ~Elsewhere(h, j)
<1>1. PICK r \in JobReports : Reported(h, j, r)
  <2>1. rep.jrs[j] \in Seq(JobReports)
    BY DEF ReportIsRead, TypeInv, ListsOK, ReportBeingRead
  <2>2. 1 \in DOMAIN rep.jrs[j] /\ rep.jrs[j][1] \in JobReports
    BY <2>1
  <2> QED
    BY <2>2 DEF Reported, ReadAbout, InSeq
<1> QED
  BY <1>1 DEF UndisturbedInv, Orderly, NoEntryIsAbsent

\* The report that a job runs: at most a kill is packed.
LEMMA RunningReportUndisturbed ==
  ASSUME CoreInv, TypeInv, UndisturbedInv, NEW h \in Hosts, NEW j \in Jobs,
         ReportIsRead(h), rep.jrs[j] # <<>>, RunningReport(j),
         UNCHANGED <<execdVars, netVars>>
  PROVE  UndisturbedInv'
<1>1. rep.host = h
  BY DEF ReportIsRead
<1>2. ru[h][j] = <<>>
  BY <1>1 DEF RunningReport, Verdict
<1>3. PICK types \in Seq(AckTypes) :
        types = IF MustKill(task[j]) THEN <<"ACK_SIGNAL_JOB">> ELSE <<>>
  BY AnswerTypes
<1>4. Answer(j, types) /\ UNCHANGED ru
  BY <1>3 DEF RunningReport
<1>5. \A i \in DOMAIN types : types[i] # "ACK_JOB_EXIT"
  BY <1>3
<1>6. \A k \in Jobs : SameTask(k)
  <2>1. task \in [Jobs -> Tasks] /\ task' = [task EXCEPT ![j] = Arrived(task[j])]
    BY DEF CoreInv, CoreType, RunningReport
  <2>2. /\ Arrived(task[j]).host = task[j].host /\ Arrived(task[j]).run = task[j].run
        /\ Arrived(task[j]).status \in {"JFINISHED", "gone"}
             <=> task[j].status \in {"JFINISHED", "gone"}
    BY <2>1 DEF Arrived, Tasks
  <2> QED
    BY <2>1, <2>2 DEF SameTask, Over
<1>7. ~Elsewhere(h, j)
  BY <1>2, ReporterHasTask
<1>8. Orderly(h, j)'
  BY <1>4, <1>5, <1>6, <1>7, ReadingPair
<1>9. \A g \in Hosts, k \in Jobs : TaskAgrees(g, k) /\ ru'[g][k] = ru[g][k]
  BY <1>4, <1>6 DEF TaskAgrees
<1> QED
  BY <1>4, <1>8, <1>9, ReadingUndisturbed

\* sge_job_exit: the host of the report is the one of the task.
LEMMA ExitReportUndisturbed ==
  ASSUME CoreInv, TypeInv, UndisturbedInv, NEW h \in Hosts, NEW j \in Jobs,
         ReportIsRead(h), rep.jrs[j] # <<>>, ExitReport(j),
         UNCHANGED <<execdVars, netVars>>
  PROVE  UndisturbedInv'
<1>1. rep.host = h
  BY DEF ReportIsRead
<1> DEFINE r == Head(rep.jrs[j])
<1>2. ru[h][j] = <<>> /\ r.state = "JEXITING"
  BY <1>1 DEF ExitReport, Verdict
<1>3. PICK types \in Seq(AckTypes) : types = <<"ACK_JOB_EXIT">>
  BY AnswerTypes
<1>4. Answer(j, types)
  BY <1>3 DEF ExitReport
<1>5. ~Elsewhere(h, j)
  BY <1>2, ReporterHasTask
<1>6. ru \in [Hosts -> [Jobs -> Seq(RUStates)]] /\ task \in [Jobs -> Tasks]
  BY DEF CoreInv, CoreType, TypeInv, ListsOK
<1> HIDE DEF r
<1>7. CASE task[j].status \in Busy /\ Finish(j)
  <2>1. /\ \A g \in Hosts : task'[j].host # g
        /\ Over(j)'
        /\ \A k \in Jobs \ {j} : SameTask(k)
        /\ \A g \in Hosts, k \in Jobs \ {j} : ru'[g][k] = ru[g][k]
    BY <1>7, FinishedIsOver
  <2>2. Orderly(h, j)'
    BY <1>2, <1>4, <2>1, ReadingPair DEF r
  <2>3. \A g \in Hosts, k \in Jobs : k # j \/ g # h =>
          \/ TaskAgrees(g, k) /\ ru'[g][k] = ru[g][k]
          \/ task'[k].host # g /\ Over(k)'
    BY <2>1 DEF TaskAgrees
  <2> QED
    BY <1>4, <2>2, <2>3, ReadingUndisturbed
<1>8. CASE task[j].status \in Busy /\ RescheduleAfterExit(j)
  <2>1. ~Over(j) /\ task[j].host = h
    BY <1>5, <1>8 DEF Elsewhere, Over, Busy
  <2>2. /\ task' = [task EXCEPT ![j] = Leave(task[j], "JIDLE")]
        /\ ru' = [ru EXCEPT ![h][j] = AddEntry(ru[h][j], "SKIP_JR")]
    BY <1>8, <2>1 DEF RescheduleAfterExit
  <2>3. task'[j].host = None
    <3>1. Leave(task[j], "JIDLE").host = None
      BY <1>6, LeaveFields DEF Statuses
    <3> QED
      BY <1>6, <2>2, <3>1
  <2>4. \A g \in Hosts : task'[j].host # g
    BY <2>3, NoneAssumption
  <2>5. \E n \in DOMAIN ru'[h][j] : ru'[h][j][n] = "SKIP_JR"
    <3>1. ru'[h][j] = <<"SKIP_JR">>
      BY <1>2, <1>6, <2>2 DEF AddEntry
    <3>2. 1 \in DOMAIN ru'[h][j] /\ ru'[h][j][1] = "SKIP_JR"
      BY <3>1
    <3> QED
      BY <3>2
  <2>6. Orderly(h, j)'
    BY <1>2, <1>4, <2>4, <2>5, ReadingPair DEF r
  <2>7. ASSUME NEW g \in Hosts, NEW k \in Jobs, k # j \/ g # h
        PROVE  TaskAgrees(g, k) /\ ru'[g][k] = ru[g][k]
    <3>1. ru'[g][k] = ru[g][k]
      BY <1>6, <2>2, <2>7
    <3>2. CASE k # j
      BY <1>6, <2>2, <3>1, <3>2 DEF TaskAgrees, SameTask, Over
    <3>3. CASE k = j
      BY <2>1, <2>4, <2>7, <3>1, <3>3 DEF TaskAgrees, Elsewhere
    <3> QED
      BY <3>2, <3>3
  <2> QED
    BY <1>4, <2>6, <2>7, ReadingUndisturbed
<1>9. CASE task[j].status \notin Busy /\ UNCHANGED <<task, ru>>
  <2>1. \A k \in Jobs : SameTask(k)
    BY <1>9 DEF SameTask, Over
  <2>2. task[j].host # h
    BY <1>9, NoneAssumption DEF CoreInv, PlacedIffBusy
  <2>3. Orderly(h, j)'
    BY <1>2, <1>4, <1>5, <1>9, <2>1, <2>2, ReadingPair DEF r
  <2>4. \A g \in Hosts, k \in Jobs : TaskAgrees(g, k) /\ ru'[g][k] = ru[g][k]
    BY <1>9, <2>1 DEF TaskAgrees
  <2> QED
    BY <1>4, <2>3, <2>4, ReadingUndisturbed
<1> QED
  BY <1>7, <1>8, <1>9 DEF ExitReport, ExpectsExit, JobExit

\* ProcessJobReport
LEMMA ProcessJobReportUndisturbed ==
  ASSUME CoreInv, TypeInv, UndisturbedInv, NEW j \in Jobs, ProcessJobReport(j)
  PROVE  UndisturbedInv'
<1>1. rep # None /\ rep.jrs[j] # <<>> /\ UNCHANGED <<execdVars, netVars>>
  BY DEF ProcessJobReport
<1>2. PICK h \in Hosts : ReportIsRead(h)
  BY <1>1 DEF ReportIsRead, TypeInv, ListsOK, ReportBeingRead
<1> QED
  BY <1>1, <1>2, SkippedReportUndisturbed, RunningReportUndisturbed, ExitReportUndisturbed
  DEF ProcessJobReport

-----------------------------------------------------------------------------
(* The steps of the daemons                                                 *)

\* A message is received: what the daemon and the others see.
LEMMA ReceivedElements ==
  ASSUME TypeInv, UndisturbedInv, NEW h \in Hosts, NEW n \in DOMAIN toExecd[h],
         NEW kind, Receive(h, n, kind)
  PROVE  /\ toExecd[h][n] \in ToExecd /\ toExecd[h][n].kind = kind
         /\ acking[h] = <<>> /\ \A a : ~Handled(h, a)
         /\ toExecd'[h] = RemoveAt(toExecd[h], n)
         /\ \A g \in Hosts \ {h} : toExecd'[g] = toExecd[g]
         /\ OneAckMessage(h)' /\ (AcksWait(h)' => AcksWait(h))
         /\ kind = "TAG_ACK_REQUEST" => ~AcksWait(h)'
<1>1. toExecd \in [Hosts -> Seq(ToExecd)]
  BY DEF TypeInv, MessagesOK
<1>2. /\ toExecd[h][n] \in ToExecd /\ toExecd[h][n].kind = kind
      /\ acking[h] = <<>>
      /\ toExecd'[h] = RemoveAt(toExecd[h], n)
      /\ \A g \in Hosts \ {h} : toExecd'[g] = toExecd[g]
  BY <1>1 DEF Receive
<1>3. \A a : ~Handled(h, a)
  BY <1>2 DEF Handled, InSeq
<1>4. OneAckMessage(h)
  BY DEF UndisturbedInv, OneExchange
<1>5. OneAckMessage(h)' /\ (AcksWait(h)' => AcksWait(h))
  BY <1>2, <1>4, RemoveFromExecd
<1>6. kind = "TAG_ACK_REQUEST" => ~AcksWait(h)'
  BY <1>2, <1>4, RemoveFromExecd DEF IsAcks
<1> QED
  BY <1>2, <1>3, <1>5, <1>6

\* The others do not notice a step of a daemon, and its own jobs are in order.
LEMMA DaemonStep ==
  ASSUME UndisturbedInv, NEW h \in Hosts, UNCHANGED <<ru, rep, up>>,
         \A j \in Jobs : SameTask(j),
         \A g \in Hosts \ {h} : SameTraffic(g) /\ \A j \in Jobs : SameDaemon(g, j),
         OneExchange(h)', \A j \in Jobs : Orderly(h, j)'
  PROVE  UndisturbedInv'
<1>1. \A g \in Hosts \ {h}, j \in Jobs : Orderly(g, j)'
  BY TrafficUndisturbed, Undisturbing DEF UndisturbedInv, TaskAgrees
<1>2. \A g \in Hosts : OneExchange(g)'
  BY TrafficUndisturbed DEF UndisturbedInv
<1>3. \A g \in Hosts, j \in Jobs : Orderly(g, j)'
  BY <1>1
<1> QED
  BY <1>2, <1>3 DEF UndisturbedInv

\* Acknowledgements are received: a delivery of their jobs was received before.
LEMMA ReceiveAcksUndisturbed ==
  ASSUME TypeInv, UndisturbedInv, NEW h \in Hosts, NEW n \in DOMAIN toExecd[h],
         ReceiveAcks(h, n)
  PROVE  UndisturbedInv'
<1> DEFINE msg == toExecd[h][n]
<1>1. Receive(h, n, "TAG_ACK_REQUEST")
  BY DEF ReceiveAcks
<1>2. /\ msg \in ToExecd /\ IsAcks(msg)
      /\ acking[h] = <<>> /\ \A a : ~Handled(h, a)
      /\ toExecd'[h] = RemoveAt(toExecd[h], n)
      /\ \A g \in Hosts \ {h} : toExecd'[g] = toExecd[g]
      /\ OneAckMessage(h)' /\ ~AcksWait(h)'
  BY <1>1, ReceivedElements DEF IsAcks
<1>3. n = 1
  BY <1>1 DEF Receive, Receivable
<1>4. /\ UNCHANGED <<task, ru, rep, up, copy, jr, procs, toMaster>>
      /\ acking'[h] = msg.acks
      /\ \A g \in Hosts \ {h} : acking'[g] = acking[g]
  BY DEF ReceiveAcks, qmVars, TypeInv, DaemonsOK
<1>5. AcksWait(h)
  BY <1>2 DEF AcksWait
<1>6. OneExchange(h)
  BY DEF UndisturbedInv
<1>7. /\ ~ReportWaits(h) /\ ~ReportIsRead(h) /\ OneAckMessage(h)
  BY <1>5, <1>6 DEF OneExchange
<1> HIDE DEF msg
<1>8. toMaster'[h] = toMaster[h] /\ rep' = rep
  BY <1>4
<1>9. OneExchange(h)'
  BY <1>2, <1>6, <1>7, <1>8, SameToMaster, SameRead DEF OneExchange
<1>10. \A k \in Jobs : SameTask(k) /\ \A g \in Hosts : SameDaemon(g, k)
  BY <1>4 DEF SameTask, SameDaemon, Over
<1>11. \A g \in Hosts \ {h} : SameTraffic(g)
  BY <1>2, <1>4 DEF SameTraffic
<1>12. ASSUME NEW k \in Jobs
       PROVE  Orderly(h, k)'
  <2>1. ~IsDelivery(msg, k)
    BY <1>2 DEF IsDelivery, IsAcks
  <2>2. /\ DeliveryWaits(h, k)' <=> DeliveryWaits(h, k)
        /\ SignalWaits(h, k)' => SignalWaits(h, k)
        /\ \A run : DeliveryRun(h, k, run) => DeliveryRun(h, k, run)'
        /\ DeliveredBeforeSignal(h, k) => DeliveredBeforeSignal(h, k)'
        /\ DeliveredBeforeExit(h, k) => DeliveredBeforeExit(h, k)'
        /\ \A a : AckWaits(h, a)' => AckWaits(h, a)
    BY <1>2, <2>1, RemoveFromExecd DEF msg
  <2>3. \A a : Handled(h, a)' => AckWaits(h, a)
    BY <1>2, <1>4 DEF Handled, AckWaits, msg
  <2>4. \A a : Packed(h, a)' => Packed(h, a)
    BY <1>8, SameRead
  <2>5. \A a : Acked(h, a)' => Acked(h, a)
    BY <2>2, <2>3, <2>4 DEF Acked
  <2>6. Orderly(h, k)
    BY DEF UndisturbedInv
  <2>7. Handled(h, ExitAck(k))' => ~DeliveryWaits(h, k)
    <3> SUFFICES ASSUME Handled(h, ExitAck(k))', DeliveryWaits(h, k)
                 PROVE  FALSE
      OBVIOUS
    <3>1. InSeq(ExitAck(k), toExecd[h][1].acks) /\ IsAcks(toExecd[h][1])
      BY <1>2, <1>3, <1>4 DEF Handled, msg
    <3>2. PICK i \in DOMAIN toExecd[h] : IsDelivery(toExecd[h][i], k)
      BY DEF DeliveryWaits
    <3>3. i < 1
      BY <1>3, <2>6, <3>1, <3>2 DEF Orderly, NoDeliveryAfterExit, DeliveredBeforeExit
    <3>4. toExecd[h] \in Seq(ToExecd)
      BY DEF TypeInv, MessagesOK
    <3> QED
      BY <3>2, <3>3, <3>4
  <2>8. \A r : Reported(h, k, r)' => Reported(h, k, r)
    BY <1>8, SameToMaster, SameRead DEF Reported
  <2>9. NothingNew(h, k)
    BY <2>2, <2>5, <2>7, <2>8 DEF NothingNew
  <2>10. SameMissing(h, k)
    BY <1>8, SameToMaster, SameRead DEF SameMissing
  <2> QED
    BY <1>4, <1>10, <2>6, <2>9, <2>10, Undisturbing DEF TaskAgrees
<1> QED
  BY <1>4, <1>9, <1>10, <1>11, <1>12, DaemonStep

\* A job is killed.  Unless the daemon knows it, some trace was left at the host.
LEMMA KilledPair ==
  ASSUME TypeInv, NEW h \in Hosts, NEW j \in Jobs, Orderly(h, j), Kill(h, j),
         copy[h][j] = None => ~DeliveryWaits(h, j) /\ ~Absent(h, j),
         SameTask(j), ru'[h][j] = ru[h][j], NothingNew(h, j), SameMissing(h, j)
  PROVE  Orderly(h, j)'
<1>1. /\ copy \in [Hosts -> [Jobs -> Copies \cup {None}]]
      /\ jr \in [Hosts -> [Jobs -> Seq(JobReports)]]
      /\ procs \in [Hosts -> [Jobs -> SUBSET Shepherds]]
  BY DEF TypeInv, DaemonsOK
<1>2. CASE copy[h][j] # None
  <2>1. copy' = copy /\ jr' = jr
    BY <1>2 DEF Kill
  <2>2. \A p \in procs'[h][j] : \E q \in procs[h][j] : q.run = p.run /\ q.pid = p.pid
    <3>1. procs'[h][j] =
            {IF p.run = copy[h][j].run /\ p.pid = copy[h][j].pid
             THEN [p EXCEPT !.dying = TRUE] ELSE p : p \in procs[h][j]}
      BY <1>1, <1>2 DEF Kill
    <3>2. \A q \in procs[h][j] : [q EXCEPT !.dying = TRUE].run = q.run
                                   /\ [q EXCEPT !.dying = TRUE].pid = q.pid
      BY <1>1 DEF Shepherds
    <3> QED
      BY <3>1, <3>2
  <2>3. SameDaemon(h, j)
    BY <2>1, <2>2 DEF SameDaemon
  <2> QED
    BY <2>3, Undisturbing DEF TaskAgrees
<1>3. CASE copy[h][j] = None
  <2>1. /\ copy' = copy /\ procs' = procs
        /\ jr'[h][j] = <<Exiting(0, "ended", FALSE)>>
    BY <1>1, <1>3 DEF Kill
  <2>2. /\ DOMAIN jr'[h][j] = {1} /\ jr'[h][j] # <<>>
        /\ Ended(h, j)'
    BY <2>1 DEF Ended, Exiting
  <2>3. ~DeliveryWaits(h, j)' /\ copy'[h][j] = None
    BY <1>3, <2>1 DEF NothingNew
  <2>4. CopyIsStarted(h, j)' /\ ProcsAreListed(h, j)' /\ OneReport(h, j)'
    BY <1>3, <2>1, <2>2 DEF Orderly, CopyIsStarted, ProcsAreListed, OneReport
  <2>5. ExitsStand(h, j)'
    BY <2>2 DEF ExitsStand
  <2>6. NoDeliveryAfterExit(h, j)' /\ NewIsUnknown(h, j)'
    BY <2>3 DEF Orderly, NothingNew, NoDeliveryAfterExit, NewIsUnknown
  <2>7. AtItsHost(h, j)'
    BY <1>3 DEF Orderly, AtItsHost, SameTask
  <2>8. NoEntryIsAbsent(h, j)' /\ LastEntryIsAbsent(h, j)'
    <3>1. Elsewhere(h, j)' => Elsewhere(h, j)
      BY DEF SameTask, Elsewhere
    <3> QED
      BY <1>3, <3>1 DEF Orderly, NoEntryIsAbsent, LastEntryIsAbsent, SameMissing
  <2> QED
    BY <2>4, <2>5, <2>6, <2>7, <2>8 DEF Orderly
<1> QED
  BY <1>2, <1>3

\* A message about job j, which is no acknowledgement, was received: what the
\* other jobs of the daemon see.
LEMMA ReceivedAboutAnother ==
  ASSUME TypeInv, UndisturbedInv, NEW h \in Hosts, NEW n \in DOMAIN toExecd[h],
         ~IsAcks(toExecd[h][n]), toExecd'[h] = RemoveAt(toExecd[h], n),
         acking'[h] = acking[h], rep' = rep,
         \A k, r : WaitsAbout(h, k, r)' <=> WaitsAbout(h, k, r),
         \A k : WaitsWithout(h, k)' <=> WaitsWithout(h, k)
  PROVE  \A k \in Jobs :
           (copy[h][k] = None => ~IsDelivery(toExecd[h][n], k)) =>
             NothingNew(h, k) /\ SameMissing(h, k)
<1> SUFFICES ASSUME NEW k \in Jobs, copy[h][k] = None => ~IsDelivery(toExecd[h][n], k)
             PROVE  NothingNew(h, k) /\ SameMissing(h, k)
  OBVIOUS
<1>1. /\ DeliveryWaits(h, k)' => DeliveryWaits(h, k)
      /\ copy[h][k] = None /\ DeliveryWaits(h, k) => DeliveryWaits(h, k)'
      /\ SignalWaits(h, k)' => SignalWaits(h, k)
      /\ \A run : DeliveryRun(h, k, run) => DeliveryRun(h, k, run)'
      /\ DeliveredBeforeSignal(h, k) => DeliveredBeforeSignal(h, k)'
      /\ DeliveredBeforeExit(h, k) => DeliveredBeforeExit(h, k)'
      /\ \A a : AckWaits(h, a)' => AckWaits(h, a)
  BY RemoveFromExecd
<1>2. /\ \A a : Packed(h, a)' <=> Packed(h, a)
      /\ \A a : Handled(h, a)' <=> Handled(h, a)
      /\ \A r : ReadAbout(h, k, r)' <=> ReadAbout(h, k, r)
      /\ ReadWithout(h, k)' <=> ReadWithout(h, k)
  BY SameRead, SameHandled
<1>3. \A a : Acked(h, a)' => Acked(h, a)
  BY <1>1, <1>2 DEF Acked
<1>4. \A r : Reported(h, k, r)' => Reported(h, k, r)
  BY <1>2 DEF Reported
<1> QED
  BY <1>1, <1>2, <1>3, <1>4 DEF NothingNew, SameMissing

\* Kill touches no other job.
LEMMA KillsOne ==
  ASSUME TypeInv, NEW h \in Hosts, NEW j \in Jobs, Kill(h, j)
  PROVE  \A g \in Hosts, k \in Jobs : g # h \/ k # j => SameDaemon(g, k)
<1>1. /\ copy \in [Hosts -> [Jobs -> Copies \cup {None}]]
      /\ jr \in [Hosts -> [Jobs -> Seq(JobReports)]]
      /\ procs \in [Hosts -> [Jobs -> SUBSET Shepherds]]
  BY DEF TypeInv, DaemonsOK
<1> SUFFICES ASSUME NEW g \in Hosts, NEW k \in Jobs, g # h \/ k # j
             PROVE  SameDaemon(g, k)
  OBVIOUS
<1>2. CASE copy[h][j] # None
  <2>1. copy' = copy /\ jr' = jr /\ \E S : procs' = [procs EXCEPT ![h][j] = S]
    BY <1>2 DEF Kill
  <2>2. procs'[g][k] = procs[g][k]
    BY <1>1, <2>1
  <2> QED
    BY <2>1, <2>2 DEF SameDaemon
<1>3. CASE copy[h][j] = None
  <2>1. /\ copy' = copy /\ procs' = procs
        /\ jr' = [jr EXCEPT ![h][j] = <<Exiting(0, "ended", FALSE)>>]
    BY <1>3 DEF Kill
  <2>2. jr'[g][k] = jr[g][k]
    BY <1>1, <2>1
  <2> QED
    BY <2>1, <2>2 DEF SameDaemon
<1> QED
  BY <1>2, <1>3

\* A signal is received: after the delivery of its job.
LEMMA ReceiveSignalUndisturbed ==
  ASSUME TypeInv, UndisturbedInv, NEW h \in Hosts, NEW n \in DOMAIN toExecd[h],
         ReceiveSignal(h, n)
  PROVE  UndisturbedInv'
<1>1. Receive(h, n, "TAG_SIGJOB")
  BY DEF ReceiveSignal
<1>2. /\ toExecd[h][n] \in ToExecd /\ toExecd[h][n].kind = "TAG_SIGJOB"
      /\ acking[h] = <<>>
      /\ toExecd'[h] = RemoveAt(toExecd[h], n)
      /\ \A g \in Hosts \ {h} : toExecd'[g] = toExecd[g]
      /\ OneAckMessage(h)' /\ (AcksWait(h)' => AcksWait(h))
  BY <1>1, ReceivedElements
<1>3. PICK j \in Jobs : j = toExecd[h][n].job
  BY <1>2 DEF ToExecd
<1>4. /\ IsSignal(toExecd[h][n], j) /\ ~IsAcks(toExecd[h][n])
      /\ \A k : ~IsDelivery(toExecd[h][n], k)
  BY <1>2, <1>3 DEF IsSignal, IsAcks, IsDelivery
<1>5. Kill(h, j)
  BY <1>3 DEF ReceiveSignal
<1>6. /\ UNCHANGED <<task, ru, rep, up, acking>>
      /\ toMaster' = [toMaster EXCEPT ![h] = Append(@, SignalAck(j))]
  BY <1>3 DEF ReceiveSignal, qmVars
<1>7. /\ toMaster'[h] = Append(toMaster[h], SignalAck(j))
      /\ \A g \in Hosts \ {h} : toMaster'[g] = toMaster[g]
  BY <1>6 DEF TypeInv, MessagesOK
<1>8. SignalAck(j) \in ToMaster /\ ~IsReport(SignalAck(j))
  BY MessageTypes DEF SignalAck, IsReport
<1>9. /\ ReportWaits(h)' <=> ReportWaits(h)
      /\ ReportIsFirst(h) => ReportIsFirst(h)'
      /\ \A k, r : WaitsAbout(h, k, r)' <=> WaitsAbout(h, k, r)
      /\ \A k : WaitsWithout(h, k)' <=> WaitsWithout(h, k)
  BY <1>7, <1>8, AppendToMaster
<1>10. acking'[h] = acking[h] /\ rep' = rep
  BY <1>6
<1>11. OneExchange(h)'
  <2>1. OneExchange(h)
    BY DEF UndisturbedInv
  <2> QED
    BY <1>2, <1>9, <1>10, <2>1, SameRead DEF OneExchange
<1>12. \A k \in Jobs : NothingNew(h, k) /\ SameMissing(h, k)
  BY <1>2, <1>4, <1>9, <1>10, ReceivedAboutAnother
<1>13. \A k \in Jobs : SameTask(k)
  BY <1>6 DEF SameTask, Over
<1>14. \A g \in Hosts, k \in Jobs : g # h \/ k # j => SameDaemon(g, k)
  BY <1>5, KillsOne
<1>15. \A g \in Hosts \ {h} : SameTraffic(g)
  BY <1>2, <1>6, <1>7 DEF SameTraffic
<1>16. Orderly(h, j)
  BY DEF UndisturbedInv
<1>17. Orderly(h, j)'
  <2>1. ASSUME copy[h][j] = None
        PROVE  ~DeliveryWaits(h, j) /\ ~Absent(h, j)
    <3>1. SignalWaits(h, j)
      BY <1>4 DEF SignalWaits
    <3>2. ~DeliveryWaits(h, j)
      <4> SUFFICES ASSUME DeliveryWaits(h, j) PROVE FALSE
        OBVIOUS
      <4>1. PICK i \in DOMAIN toExecd[h] : IsDelivery(toExecd[h][i], j)
        BY DEF DeliveryWaits
      <4>2. i < n
        BY <1>4, <1>16, <2>1, <4>1 DEF Orderly, NewIsUnknown, DeliveredBeforeSignal
      <4>3. toExecd[h] \in Seq(ToExecd)
        BY DEF TypeInv, MessagesOK
      <4>4. i \in 1 .. n - 1 /\ n # 1
        BY <4>1, <4>2, <4>3
      <4>5. toExecd[h][i].kind = "TAG_ACK_REQUEST"
        BY <1>1, <4>4 DEF Receive, Receivable
      <4> QED
        BY <4>1, <4>5 DEF IsDelivery
    <3> QED
      BY <3>1, <3>2 DEF Absent
  <2>2. ru'[h][j] = ru[h][j]
    BY <1>6
  <2> QED
    BY <1>5, <1>12, <1>13, <1>16, <2>1, <2>2, KilledPair
<1>18. ASSUME NEW k \in Jobs \ {j}
       PROVE  Orderly(h, k)'
  <2>1. SameDaemon(h, k) /\ TaskAgrees(h, k) /\ ru'[h][k] = ru[h][k]
    BY <1>6, <1>13, <1>14 DEF TaskAgrees
  <2> QED
    BY <1>12, <2>1, Undisturbing DEF UndisturbedInv
<1>19. \A k \in Jobs : Orderly(h, k)'
  BY <1>17, <1>18
<1> QED
  BY <1>6, <1>11, <1>13, <1>14, <1>15, <1>19, DaemonStep

\* A delivery is received: an unknown job has no other trace, a known one stays.
LEMMA ReceiveJobUndisturbed ==
  ASSUME Undisturbed, TypeInv, UndisturbedInv, NEW h \in Hosts,
         NEW n \in DOMAIN toExecd[h], ReceiveJob(h, n)
  PROVE  UndisturbedInv'
<1>1. Receive(h, n, "TAG_JOB_EXECUTION")
  BY DEF ReceiveJob
<1>2. /\ toExecd[h][n] \in ToExecd /\ toExecd[h][n].kind = "TAG_JOB_EXECUTION"
      /\ acking[h] = <<>> /\ \A a : ~Handled(h, a)
      /\ toExecd'[h] = RemoveAt(toExecd[h], n)
      /\ \A g \in Hosts \ {h} : toExecd'[g] = toExecd[g]
      /\ OneAckMessage(h)' /\ (AcksWait(h)' => AcksWait(h))
  BY <1>1, ReceivedElements
<1>3. PICK j \in Jobs : j = toExecd[h][n].job
  BY <1>2 DEF ToExecd
<1>4. PICK run \in Runs : run = toExecd[h][n].run
  BY <1>2 DEF ToExecd
<1>5. /\ IsDelivery(toExecd[h][n], j) /\ ~IsAcks(toExecd[h][n])
      /\ \A k : IsDelivery(toExecd[h][n], k) => k = j
  BY <1>2, <1>3 DEF IsAcks, IsDelivery
<1>6. UNCHANGED <<task, ru, rep, acking, toMaster>>
  BY DEF ReceiveJob, qmVars
<1>7. toMaster'[h] = toMaster[h] /\ acking'[h] = acking[h] /\ rep' = rep
  BY <1>6
<1>8. /\ \A k, r : WaitsAbout(h, k, r)' <=> WaitsAbout(h, k, r)
      /\ \A k : WaitsWithout(h, k)' <=> WaitsWithout(h, k)
  BY <1>7, SameToMaster
<1>9. OneExchange(h)'
  <2>1. OneExchange(h)
    BY DEF UndisturbedInv
  <2> QED
    BY <1>2, <1>7, <2>1, SameToMaster, SameRead DEF OneExchange
<1>10. \A k \in Jobs : (copy[h][k] = None => k # j) =>
         NothingNew(h, k) /\ SameMissing(h, k)
  BY <1>2, <1>5, <1>7, <1>8, ReceivedAboutAnother
<1>11. \A k \in Jobs : SameTask(k)
  BY <1>6 DEF SameTask, Over
<1>12. \A g \in Hosts \ {h} : SameTraffic(g)
  BY <1>2, <1>6 DEF SameTraffic
<1>13. /\ copy \in [Hosts -> [Jobs -> Copies \cup {None}]]
       /\ jr \in [Hosts -> [Jobs -> Seq(JobReports)]]
       /\ procs \in [Hosts -> [Jobs -> SUBSET Shepherds]]
  BY DEF TypeInv, DaemonsOK
<1>14. Orderly(h, j)
  BY DEF UndisturbedInv
<1>15. CASE copy[h][j] # None /\ UNCHANGED <<up, copy, jr, procs>>
  <2>1. \A g \in Hosts, k \in Jobs : SameDaemon(g, k)
    BY <1>15 DEF SameDaemon
  <2>2. ASSUME NEW k \in Jobs
        PROVE  Orderly(h, k)'
    <3>1. NothingNew(h, k) /\ SameMissing(h, k)
      BY <1>10, <1>15
    <3>2. TaskAgrees(h, k) /\ ru'[h][k] = ru[h][k]
      BY <1>6, <1>11 DEF TaskAgrees
    <3> QED
      BY <2>1, <3>1, <3>2, Undisturbing DEF UndisturbedInv
  <2> QED
    BY <1>6, <1>9, <1>11, <1>12, <1>15, <2>1, <2>2, DaemonStep
<1>16. CASE /\ copy[h][j] = None /\ UNCHANGED up
            /\ copy' = [copy EXCEPT ![h][j] = [run |-> run, pid |-> 1, idle |-> FALSE]]
            /\ procs' = [procs EXCEPT ![h][j] = procs[h][j] \cup {Alive(run, 1)}]
            /\ jr' = [jr EXCEPT ![h][j] = Append(jr[h][j], Written(run))]
  <2>1. /\ copy'[h][j] = [run |-> run, pid |-> 1, idle |-> FALSE]
        /\ procs'[h][j] = procs[h][j] \cup {Alive(run, 1)}
        /\ jr'[h][j] = Append(jr[h][j], Written(run))
    BY <1>13, <1>16
  <2>2. \A g \in Hosts, k \in Jobs : g # h \/ k # j => SameDaemon(g, k)
    BY <1>13, <1>16 DEF SameDaemon
  <2>3. DeliveryWaits(h, j)
    BY <1>5 DEF DeliveryWaits
  <2>4. /\ jr[h][j] = <<>>
        /\ \A r \in JobReports : ~Reported(h, j, r)
        /\ ~Acked(h, ExitAck(j))
    BY <1>14, <1>16, <2>3 DEF Orderly, NewIsUnknown, AckTypes, ExitAck
  <2>5. procs[h][j] = {}
    BY <1>14, <1>16 DEF Orderly, ProcsAreListed
  <2>6. \A r \in JobReports : ~Reported(h, j, r)'
    BY <1>7, <1>8, <2>4, SameRead DEF Reported
  <2>7. /\ \A r : DeliveryRun(h, j, r) => DeliveryRun(h, j, r)'
        /\ DeliveredBeforeExit(h, j) => DeliveredBeforeExit(h, j)'
        /\ \A a : AckWaits(h, a)' => AckWaits(h, a)
    BY <1>2, RemoveFromExecd
  <2>8. \A a : ~Handled(h, a)'
    BY <1>2, <1>7, SameHandled
  <2>9. ~Acked(h, ExitAck(j))'
    BY <1>7, <2>4, <2>7, <2>8, SameRead DEF Acked
  <2>10. copy'[h][j] # None /\ copy'[h][j].run = run
    <3>1. [run |-> run, pid |-> 1, idle |-> FALSE] \in Copies
      BY BoundsAssumption DEF Copies, Pids
    <3>2. copy'[h][j] \in Copies /\ copy'[h][j].run = run
      BY <2>1, <3>1
    <3> QED
      BY <3>2, NothingAssumption
  <2>11. jr'[h][j] = <<Written(run)>>
    BY <2>1, <2>4
  <2>12. CopyIsStarted(h, j)' /\ ProcsAreListed(h, j)'
    BY <2>1, <2>5, <2>10 DEF CopyIsStarted, ProcsAreListed, Alive
  <2>13. OneReport(h, j)'
    BY <2>10, <2>11 DEF OneReport, Ended, Written
  <2>14. ExitsStand(h, j)' /\ NoDeliveryAfterExit(h, j)' /\ NewIsUnknown(h, j)'
    BY <1>14, <2>6, <2>7, <2>8, <2>9, <2>10
    DEF Orderly, ExitsStand, NoDeliveryAfterExit, NewIsUnknown
  <2>15. AtItsHost(h, j)'
    <3> SUFFICES ASSUME task[j].host = h
                 PROVE  /\ ru'[h][j] = <<>> /\ run = task[j].run
                        /\ DeliveryRun(h, j, task[j].run)'
      BY <1>6, <2>6, <2>9, <2>10 DEF AtItsHost
    <3>1. ru[h][j] = <<>> /\ DeliveryRun(h, j, task[j].run)
      BY <1>14 DEF Orderly, AtItsHost
    <3>2. run = task[j].run
      BY <1>4, <1>5, <3>1 DEF DeliveryRun
    <3>3. DeliveryRun(h, j, run)'
      BY <2>7, <3>1, <3>2
    <3>4. task'[j].run = run
      BY <1>6, <3>2
    <3>5. DeliveryRun(h, j, task[j].run)'
      BY <3>3, <3>4 DEF DeliveryRun
    <3> QED
      BY <1>6, <3>1, <3>2, <3>5
  <2>16. ~Absent(h, j) /\ (Elsewhere(h, j)' => Elsewhere(h, j))
    BY <1>11, <2>3 DEF Absent, SameTask, Elsewhere
  <2>17. NoEntryIsAbsent(h, j)' /\ LastEntryIsAbsent(h, j)'
    <3>1. ReadWithout(h, j)' <=> ReadWithout(h, j)
      BY <1>7, SameRead
    <3>2. ru'[h][j] = ru[h][j]
      BY <1>6
    <3> QED
      BY <1>8, <1>14, <2>16, <3>1, <3>2 DEF Orderly, NoEntryIsAbsent, LastEntryIsAbsent
  <2>18. Orderly(h, j)'
    BY <2>12, <2>13, <2>14, <2>15, <2>17 DEF Orderly
  <2>19. ASSUME NEW k \in Jobs \ {j}
         PROVE  Orderly(h, k)'
    <3>1. NothingNew(h, k) /\ SameMissing(h, k)
      BY <1>10
    <3>2. TaskAgrees(h, k) /\ ru'[h][k] = ru[h][k] /\ SameDaemon(h, k)
      BY <1>6, <1>11, <2>2 DEF TaskAgrees
    <3> QED
      BY <3>1, <3>2, Undisturbing DEF UndisturbedInv
  <2>20. \A k \in Jobs : Orderly(h, k)'
    BY <2>18, <2>19
  <2> QED
    BY <1>6, <1>9, <1>11, <1>12, <1>16, <2>2, <2>20, DaemonStep
<1> QED
  BY <1>3, <1>4, <1>15, <1>16, NoTrouble DEF ReceiveJob, Accepts

\* While a daemon handles acknowledgements nothing else is on its way.
LEMMA NothingElseWhileAcking ==
  ASSUME UndisturbedInv, NEW h \in Hosts, acking[h] # <<>>
  PROVE  /\ ~ReportWaits(h) /\ ~ReportIsRead(h) /\ ~AcksWait(h)
         /\ \A k, r : ~Reported(h, k, r)
         /\ \A k : ~WaitsWithout(h, k) /\ ~ReadWithout(h, k)
<1>1. ~ReportWaits(h) /\ ~ReportIsRead(h) /\ ~AcksWait(h)
  BY DEF UndisturbedInv, OneExchange
<1>2. \A k, r : ~WaitsAbout(h, k, r) /\ ~ReadAbout(h, k, r)
  BY <1>1 DEF ReportWaits, WaitsAbout, ReadAbout
<1>3. \A k : ~WaitsWithout(h, k) /\ ~ReadWithout(h, k)
  BY <1>1 DEF ReportWaits, WaitsWithout, ReadWithout
<1> QED
  BY <1>1, <1>2, <1>3 DEF Reported

\* An acknowledgement is handled: an exit that is acknowledged has happened, and
\* what is killed was reported.
LEMMA HandleAckUndisturbed ==
  ASSUME TypeInv, UndisturbedInv, NEW h \in Hosts, HandleAck(h)
  PROVE  UndisturbedInv'
<1>1. acking[h] \in Seq(Acks) /\ acking[h] # <<>> /\ acking \in [Hosts -> Seq(Acks)]
  BY DEF HandleAck, TypeInv, DaemonsOK
<1>2. /\ 1 \in DOMAIN acking[h] /\ Head(acking[h]) = acking[h][1]
      /\ acking[h][1] \in Acks
      /\ \A i \in DOMAIN Tail(acking[h]) :
           i + 1 \in DOMAIN acking[h] /\ Tail(acking[h])[i] = acking[h][i + 1]
  <2>1. 1 \in DOMAIN acking[h] /\ acking[h][1] \in Acks
    BY <1>1
  <2> QED
    BY <1>1, <2>1, TailElements
<1>3. PICK j \in Jobs : j = acking[h][1].job
  BY <1>2 DEF Acks
<1>4. PICK type \in AckTypes : acking[h][1] = Ack(type, j)
  BY <1>2, <1>3 DEF Acks, AckTypes, Ack
<1>5. Handled(h, Ack(type, j)) /\ Acked(h, Ack(type, j))
  BY <1>2, <1>4 DEF Handled, InSeq, Acked
<1>6. /\ acking'[h] = Tail(acking[h])
      /\ \A g \in Hosts \ {h} : acking'[g] = acking[g]
      /\ UNCHANGED <<task, ru, rep, up, toExecd, toMaster>>
  BY <1>1 DEF HandleAck, qmVars, netVars
<1>7. \A a : Handled(h, a)' => Handled(h, a)
  BY <1>2, <1>6 DEF Handled, InSeq
<1>8. toExecd'[h] = toExecd[h] /\ toMaster'[h] = toMaster[h] /\ rep' = rep
  BY <1>6
<1>9. OneExchange(h)'
  <2>1. OneExchange(h)
    BY DEF UndisturbedInv
  <2>2. ~ReportWaits(h)' /\ ~ReportIsRead(h)' /\ ~AcksWait(h)'
    BY <1>1, <1>8, NothingElseWhileAcking, SameToExecd, SameToMaster, SameRead
  <2> QED
    BY <1>8, <2>1, <2>2, SameToExecd, SameToMaster DEF OneExchange
<1>10. \A k \in Jobs : NothingNew(h, k) /\ SameMissing(h, k)
  <2> SUFFICES ASSUME NEW k \in Jobs PROVE NothingNew(h, k) /\ SameMissing(h, k)
    OBVIOUS
  <2>1. \A a : Acked(h, a)' => Acked(h, a)
    BY <1>7, <1>8, SameToExecd, SameRead DEF Acked
  <2>2. \A r : Reported(h, k, r)' => Reported(h, k, r)
    BY <1>8, SameToMaster, SameRead DEF Reported
  <2>3. SameMissing(h, k)
    BY <1>8, SameToMaster, SameRead DEF SameMissing
  <2> QED
    BY <1>7, <1>8, <2>1, <2>2, <2>3, SameToExecd DEF NothingNew
<1>11. \A k \in Jobs : SameTask(k)
  BY <1>6 DEF SameTask, Over
<1>12. \A g \in Hosts \ {h} : SameTraffic(g)
  BY <1>6 DEF SameTraffic
<1>13. Orderly(h, j)
  BY DEF UndisturbedInv
<1>14. /\ copy \in [Hosts -> [Jobs -> Copies \cup {None}]]
       /\ jr \in [Hosts -> [Jobs -> Seq(JobReports)]]
  BY DEF TypeInv, DaemonsOK
<1>15. ASSUME \A g \in Hosts, k \in Jobs : g # h \/ k # j => SameDaemon(g, k),
              Orderly(h, j)'
       PROVE  UndisturbedInv'
  <2>1. ASSUME NEW k \in Jobs \ {j}
        PROVE  Orderly(h, k)'
    <3>1. SameDaemon(h, k) /\ TaskAgrees(h, k) /\ ru'[h][k] = ru[h][k]
      BY <1>6, <1>11, <1>15 DEF TaskAgrees
    <3> QED
      BY <1>10, <3>1, Undisturbing DEF UndisturbedInv
  <2>2. \A k \in Jobs : Orderly(h, k)'
    BY <1>15, <2>1
  <2> QED
    BY <1>6, <1>9, <1>11, <1>12, <1>15, <2>2, DaemonStep
<1>16. CASE Kill(h, j)
  <2>1. ASSUME copy[h][j] = None
        PROVE  ~DeliveryWaits(h, j) /\ ~Absent(h, j)
    BY <1>5, <1>13, <2>1 DEF Orderly, NewIsUnknown, Absent
  <2>2. ru'[h][j] = ru[h][j]
    BY <1>6
  <2>3. Orderly(h, j)'
    BY <1>10, <1>11, <1>13, <1>16, <2>1, <2>2, KilledPair
  <2>4. \A g \in Hosts, k \in Jobs : g # h \/ k # j => SameDaemon(g, k)
    BY <1>16, KillsOne
  <2> QED
    BY <1>15, <2>3, <2>4
<1>17. CASE RemoveAckedJobExit(h, j) /\ procs' = procs /\ type = "ACK_JOB_EXIT"
  <2>1. CASE jr[h][j] = <<>>
    <3>1. \A g \in Hosts, k \in Jobs : SameDaemon(g, k)
      BY <1>17, <2>1 DEF RemoveAckedJobExit, SameDaemon
    <3>2. TaskAgrees(h, j) /\ ru'[h][j] = ru[h][j]
      BY <1>6, <1>11 DEF TaskAgrees
    <3>3. Orderly(h, j)'
      BY <1>10, <1>13, <3>1, <3>2, Undisturbing
    <3> QED
      BY <1>15, <3>1, <3>3
  <2>2. CASE jr[h][j] # <<>>
    <3>1. /\ copy' = [copy EXCEPT ![h][j] = None]
          /\ jr' = [jr EXCEPT ![h][j] =
                      IF copy[h][j] = None THEN <<>> ELSE Tail(jr[h][j])]
      BY <1>17, <2>2 DEF RemoveAckedJobExit
    <3>2. \A g \in Hosts, k \in Jobs : g # h \/ k # j => SameDaemon(g, k)
      BY <1>14, <1>17, <3>1 DEF SameDaemon
    <3>3. Handled(h, ExitAck(j)) /\ Acked(h, ExitAck(j))
      BY <1>5, <1>17 DEF ExitAck
    <3>4. copy'[h][j] = None /\ jr'[h][j] = <<>> /\ procs'[h][j] = procs[h][j]
      <4>1. \A i \in DOMAIN jr[h][j] : i = 1
        BY <1>13 DEF Orderly, OneReport
      <4>2. jr[h][j] \in Seq(JobReports)
        BY <1>14
      <4>3. Tail(jr[h][j]) = <<>>
        BY <2>2, <4>1, <4>2, OneElement
      <4> QED
        BY <1>14, <1>17, <3>1, <4>3
    <3>5. procs[h][j] = {}
      <4>1. copy[h][j] = None \/ Ended(h, j)
        BY <1>13, <3>3 DEF Orderly, ExitsStand
      <4> QED
        BY <1>13, <4>1 DEF Orderly, OneReport, ProcsAreListed
    <3>6. ~DeliveryWaits(h, j)'
      BY <1>8, <1>13, <3>3, SameToExecd DEF Orderly, NoDeliveryAfterExit
    <3>7. \A r : ~Reported(h, j, r)'
      BY <1>1, <1>8, NothingElseWhileAcking, SameToMaster, SameRead DEF Reported
    <3>8. CopyIsStarted(h, j)' /\ ProcsAreListed(h, j)' /\ OneReport(h, j)'
      BY <3>4, <3>5 DEF CopyIsStarted, ProcsAreListed, OneReport
    <3>9. ExitsStand(h, j)' /\ NewIsUnknown(h, j)'
      BY <3>4, <3>6, <3>7 DEF ExitsStand, NewIsUnknown
    <3>10. NoDeliveryAfterExit(h, j)'
      BY <1>10, <1>13, <3>6 DEF Orderly, NothingNew, NoDeliveryAfterExit
    <3>11. AtItsHost(h, j)'
      BY <1>11, <1>13, <3>3 DEF Orderly, AtItsHost, SameTask
    <3>12. NoEntryIsAbsent(h, j)' /\ LastEntryIsAbsent(h, j)'
      <4>1. ~Absent(h, j)
        BY <3>3 DEF Absent, AckTypes, ExitAck
      <4>2. (Elsewhere(h, j)' => Elsewhere(h, j)) /\ ru'[h][j] = ru[h][j]
        BY <1>6, <1>11 DEF SameTask, Elsewhere
      <4>3. SameMissing(h, j)
        BY <1>10
      <4> QED
        BY <1>13, <4>1, <4>2, <4>3
        DEF Orderly, NoEntryIsAbsent, LastEntryIsAbsent, SameMissing
    <3>13. Orderly(h, j)'
      BY <3>8, <3>9, <3>10, <3>11, <3>12 DEF Orderly
    <3> QED
      BY <1>15, <3>2, <3>13
  <2> QED
    BY <2>1, <2>2
<1> QED
  BY <1>2, <1>3, <1>4, <1>16, <1>17 DEF HandleAck, Ack

\* A step of a daemon that leaves its messages alone.
LEMMA InternalStep ==
  ASSUME UndisturbedInv, NEW h \in Hosts, NEW j \in Jobs,
         UNCHANGED <<up, acking, qmVars, netVars>>,
         \A g \in Hosts, k \in Jobs : g # h \/ k # j => SameDaemon(g, k),
         NothingNew(h, j) /\ SameMissing(h, j) => Orderly(h, j)'
  PROVE  UndisturbedInv'
<1>1. \A g \in Hosts : SameTraffic(g)
  BY DEF SameTraffic, qmVars, netVars
<1>2. \A k \in Jobs : SameTask(k)
  BY DEF SameTask, Over, qmVars
<1>3. Orderly(h, j)'
  BY <1>1, TrafficUndisturbed
<1>4. ASSUME NEW k \in Jobs \ {j}
      PROVE  Orderly(h, k)'
  <2>1. TaskAgrees(h, k) /\ ru'[h][k] = ru[h][k]
    BY <1>2 DEF TaskAgrees, qmVars
  <2> QED
    BY <1>1, <2>1, TrafficUndisturbed, Undisturbing DEF UndisturbedInv
<1>5. OneExchange(h)'
  BY <1>1, TrafficUndisturbed DEF UndisturbedInv
<1>6. \A k \in Jobs : Orderly(h, k)'
  BY <1>3, <1>4
<1>7. UNCHANGED <<ru, rep, up>>
  BY DEF qmVars
<1>8. \A g \in Hosts \ {h} : SameTraffic(g) /\ \A k \in Jobs : SameDaemon(g, k)
  BY <1>1
<1> QED
  BY <1>2, <1>5, <1>6, <1>7, <1>8, DaemonStep

\* A shepherd ends.
LEMMA ShepherdEndsUndisturbed ==
  ASSUME TypeInv, UndisturbedInv, NEW h \in Hosts, NEW j \in Jobs, NEW p,
         ShepherdEnds(h, j, p)
  PROVE  UndisturbedInv'
<1>1. procs \in [Hosts -> [Jobs -> SUBSET Shepherds]]
  BY DEF TypeInv, DaemonsOK
<1>2. /\ UNCHANGED <<up, copy, jr, acking, qmVars, netVars>>
      /\ procs' = [procs EXCEPT ![h][j] = procs[h][j] \ {p}]
  BY DEF ShepherdEnds
<1>3. \A g \in Hosts, k \in Jobs : procs'[g][k] \subseteq procs[g][k]
  BY <1>1, <1>2
<1>4. \A g \in Hosts, k \in Jobs : SameDaemon(g, k)
  BY <1>2, <1>3 DEF SameDaemon
<1>5. NothingNew(h, j) /\ SameMissing(h, j) => Orderly(h, j)'
  <2>1. TaskAgrees(h, j) /\ ru'[h][j] = ru[h][j]
    BY <1>2 DEF TaskAgrees, SameTask, Over, qmVars
  <2> QED
    BY <1>4, <2>1, Undisturbing DEF UndisturbedInv
<1> QED
  BY <1>2, <1>4, <1>5, InternalStep

\* The report of a job says that it ended.
LEMMA ReapUndisturbed ==
  ASSUME TypeInv, UndisturbedInv, NEW h \in Hosts, NEW j \in Jobs, Reap(h, j)
  PROVE  UndisturbedInv'
<1>1. jr \in [Hosts -> [Jobs -> Seq(JobReports)]]
  BY DEF TypeInv, DaemonsOK
<1>2. /\ UNCHANGED <<up, copy, acking, procs, qmVars, netVars>>
      /\ copy[h][j] # None /\ jr[h][j] # <<>> /\ ~Lives(h, j, copy[h][j])
  BY DEF Reap
<1>3. PICK how : jr' = [jr EXCEPT ![h][j][1] = Exiting(copy[h][j].run, how, TRUE)]
  BY DEF Reap
<1>4. /\ \A g \in Hosts, k \in Jobs : g # h \/ k # j => jr'[g][k] = jr[g][k]
      /\ jr'[h][j] = [jr[h][j] EXCEPT ![1] = Exiting(copy[h][j].run, how, TRUE)]
  BY <1>1, <1>3
<1>5. \A g \in Hosts, k \in Jobs : g # h \/ k # j => SameDaemon(g, k)
  BY <1>2, <1>4 DEF SameDaemon
<1>6. Orderly(h, j)
  BY DEF UndisturbedInv
<1>7. procs[h][j] = {}
  BY <1>2, <1>6 DEF Orderly, ProcsAreListed, Lives
<1>8. /\ DOMAIN jr'[h][j] = DOMAIN jr[h][j] /\ 1 \in DOMAIN jr[h][j]
      /\ jr'[h][j] # <<>>
      /\ jr'[h][j][1] = Exiting(copy[h][j].run, how, TRUE)
  <2>1. jr[h][j] \in Seq(JobReports)
    BY <1>1
  <2>2. LET t == [jr[h][j] EXCEPT ![1] = Exiting(copy[h][j].run, how, TRUE)] IN
          /\ DOMAIN t = DOMAIN jr[h][j] /\ 1 \in DOMAIN jr[h][j]
          /\ t # <<>> /\ t[1] = Exiting(copy[h][j].run, how, TRUE)
    BY <1>2, <2>1, FirstChanged
  <2> QED
    BY <1>4, <2>2
<1>9. Ended(h, j)' /\ jr'[h][j][1].run = copy[h][j].run
  BY <1>8 DEF Ended, Exiting
<1>10. ASSUME NothingNew(h, j), SameMissing(h, j)
       PROVE  Orderly(h, j)'
  <2>1. CopyIsStarted(h, j)' /\ ProcsAreListed(h, j)'
    BY <1>2, <1>6 DEF Orderly, CopyIsStarted, ProcsAreListed
  <2>2. OneReport(h, j)'
    BY <1>2, <1>6, <1>7, <1>8, <1>9 DEF Orderly, OneReport
  <2>3. ExitsStand(h, j)' /\ NewIsUnknown(h, j)'
    BY <1>2, <1>9 DEF ExitsStand, NewIsUnknown
  <2>4. NoDeliveryAfterExit(h, j)'
    BY <1>6, <1>10 DEF Orderly, NothingNew, NoDeliveryAfterExit
  <2>5. AtItsHost(h, j)'
    <3>1. ru'[h][j] = ru[h][j] /\ task' = task
      BY <1>2 DEF qmVars
    <3>2. ~Acked(h, ExitAck(j)) => ~Acked(h, ExitAck(j))'
      BY <1>10 DEF NothingNew, AckTypes, ExitAck
    <3> QED
      BY <1>2, <1>6, <1>10, <3>1, <3>2 DEF Orderly, NothingNew, AtItsHost
  <2>6. ~Absent(h, j)
    BY <1>2 DEF Absent
  <2>7. NoEntryIsAbsent(h, j)' /\ LastEntryIsAbsent(h, j)'
    <3>1. ru'[h][j] = ru[h][j] /\ (Elsewhere(h, j)' => Elsewhere(h, j))
      BY <1>2 DEF qmVars, Elsewhere, Over
    <3> QED
      BY <1>6, <1>10, <2>6, <3>1
      DEF Orderly, NoEntryIsAbsent, LastEntryIsAbsent, SameMissing
  <2> QED
    BY <2>1, <2>2, <2>3, <2>4, <2>5, <2>7 DEF Orderly
<1> QED
  BY <1>2, <1>5, <1>10, InternalStep

\* A full report is sent when everything that was under way has settled.  It
\* says what the list of the daemon says of each job.
LEMMA SendFullReportUndisturbed ==
  ASSUME Undisturbed, TypeInv, UndisturbedInv, NEW h \in Hosts, SendFullReport(h)
  PROVE  UndisturbedInv'
<1> DEFINE Unmarked(r) == [r EXCEPT !.flush = FALSE]
           Reports(j) == Unflushed(Chosen(jr[h][j], DOMAIN jr[h][j]))
           Msg == [kind |-> "TAG_REPORT_REQUEST", load |-> TRUE,
                   jrs |-> [j \in Jobs |-> Reports(j)]]
<1>1. /\ jr \in [Hosts -> [Jobs -> Seq(JobReports)]]
      /\ toMaster \in [Hosts -> Seq(ToMaster)]
  BY DEF TypeInv, DaemonsOK, MessagesOK
<1>2. /\ acking[h] = <<>> /\ toExecd[h] = <<>> /\ toMaster[h] = <<>>
      /\ ~ReportIsRead(h)
  BY NoTrouble DEF SendFullReport, SendMessage, Settled, ReportIsRead
<1>3. UNCHANGED <<up, copy, acking, procs, qmVars, toExecd>>
  BY DEF SendFullReport
<1>4. \A j \in Jobs :
        {i \in DOMAIN jr[h][j] : Included(jr[h][j][i], "all")} = DOMAIN jr[h][j]
  BY DEF Included
<1>5. /\ toMaster' = [toMaster EXCEPT ![h] = Append(@, Msg)]
      /\ jr' = [jr EXCEPT ![h] = [j \in Jobs |->
                  [i \in DOMAIN jr[h][j] |-> Unmarked(jr[h][j][i])]]]
  BY <1>1, <1>4 DEF SendFullReport, SendMessage
<1>6. \A g \in Hosts \ {h} : toMaster'[g] = toMaster[g] /\ jr'[g] = jr[g]
  BY <1>1, <1>5
<1>7. ASSUME NEW j \in Jobs
      PROVE  /\ DOMAIN jr'[h][j] = DOMAIN jr[h][j]
             /\ jr'[h][j] = <<>> <=> jr[h][j] = <<>>
             /\ \A i \in DOMAIN jr[h][j] : /\ jr'[h][j][i].state = jr[h][j][i].state
                                           /\ jr'[h][j][i].run = jr[h][j][i].run
  <2>1. jr[h][j] \in Seq(JobReports)
    BY <1>1
  <2>2. jr'[h][j] = [i \in DOMAIN jr[h][j] |-> Unmarked(jr[h][j][i])]
    BY <1>1, <1>5
  <2>3. \A r \in JobReports : Unmarked(r).state = r.state /\ Unmarked(r).run = r.run
    BY DEF JobReports
  <2>4. \A i \in DOMAIN jr[h][j] : jr[h][j][i] \in JobReports
    BY <2>1
  <2> HIDE DEF Unmarked
  <2>5. DOMAIN jr'[h][j] = DOMAIN jr[h][j]
    BY <2>2
  <2>6. jr'[h][j] = <<>> <=> jr[h][j] = <<>>
    BY <2>1, <2>2
  <2> QED
    BY <2>2, <2>3, <2>4, <2>5, <2>6
<1>8. ASSUME NEW j \in Jobs
      PROVE  /\ Reports(j) = <<>> <=> jr[h][j] = <<>>
             /\ \A r : InSeq(r, Reports(j)) =>
                  \E i \in DOMAIN jr[h][j] : /\ r.state = jr[h][j][i].state
                                             /\ r.run = jr[h][j][i].run
  <2> DEFINE chosen == Chosen(jr[h][j], DOMAIN jr[h][j])
  <2>1. jr[h][j] \in Seq(JobReports)
    BY <1>1
  <2>2. /\ chosen \in Seq(JobReports)
        /\ \A n \in DOMAIN chosen : \E i \in DOMAIN jr[h][j] : chosen[n] = jr[h][j][i]
        /\ chosen = <<>> <=> DOMAIN jr[h][j] = {}
    BY <2>1, ChosenType
  <2>3. DOMAIN jr[h][j] = {} <=> jr[h][j] = <<>>
    BY <2>1, NoElements
  <2> HIDE DEF chosen
  <2>4. Reports(j) = [n \in DOMAIN chosen |-> Unmarked(chosen[n])]
    BY DEF chosen, Unflushed
  <2>5. \A r \in JobReports : Unmarked(r).state = r.state /\ Unmarked(r).run = r.run
    BY DEF JobReports
  <2>6. \A n \in DOMAIN chosen : chosen[n] \in JobReports
    BY <2>2
  <2> HIDE DEF Unmarked, Reports
  <2>7. Reports(j) = <<>> <=> chosen = <<>>
    BY <2>2, <2>4
  <2>8. ASSUME NEW r, InSeq(r, Reports(j))
        PROVE  \E i \in DOMAIN jr[h][j] : /\ r.state = jr[h][j][i].state
                                          /\ r.run = jr[h][j][i].run
    BY <2>2, <2>4, <2>5, <2>6, <2>8 DEF InSeq
  <2> QED
    BY <2>2, <2>3, <2>7, <2>8
<1> HIDE DEF Unmarked, Reports
<1>9. IsReport(Msg) /\ \A j \in Jobs : Msg.jrs[j] = Reports(j)
  BY DEF IsReport
<1> HIDE DEF Msg
<1>10. DOMAIN toMaster'[h] = {1} /\ toMaster'[h][1] = Msg
  <2>1. toMaster'[h] = Append(<<>>, Msg)
    BY <1>1, <1>2, <1>5
  <2>2. <<>> \in Seq({Msg}) /\ Len(<<>>) = 0 /\ DOMAIN <<>> = {}
    OBVIOUS
  <2>3. /\ DOMAIN Append(<<>>, Msg) = DOMAIN <<>> \cup {Len(<<>>) + 1}
        /\ Append(<<>>, Msg)[Len(<<>>) + 1] = Msg
    BY <2>2, AppendElements
  <2>4. DOMAIN Append(<<>>, Msg) = {1} /\ Append(<<>>, Msg)[1] = Msg
    BY <2>2, <2>3
  <2> QED
    BY <2>1, <2>4
<1>11. ReportIsFirst(h)' /\ OneAckMessage(h)' /\ ~AcksWait(h)' /\ ~ReportIsRead(h)'
  BY <1>2, <1>3, <1>10
  DEF ReportIsFirst, OneAckMessage, AcksWait, ReportIsRead, qmVars
<1>12. OneExchange(h)'
  BY <1>2, <1>3, <1>11 DEF OneExchange
<1>13. \A a : ~Acked(h, a) /\ ~Acked(h, a)'
  BY <1>2, <1>3, <1>11
  DEF Acked, Packed, AckWaits, AcksWait, Handled, InSeq
<1>14. ASSUME NEW j \in Jobs
       PROVE  /\ ~DeliveryWaits(h, j) /\ ~DeliveryWaits(h, j)'
              /\ ~SignalWaits(h, j) /\ ~SignalWaits(h, j)'
              /\ DeliveredBeforeExit(h, j)' /\ \A run : DeliveryRun(h, j, run)'
  BY <1>2, <1>3 DEF DeliveryWaits, SignalWaits, DeliveredBeforeExit, DeliveryRun
<1>15. ASSUME NEW j \in Jobs, NEW r, Reported(h, j, r)'
       PROVE  /\ jr[h][j] # <<>>
              /\ r.state = jr[h][j][1].state /\ r.run = jr[h][j][1].run
  <2>1. InSeq(r, Reports(j))
    BY <1>9, <1>10, <1>11, <1>15 DEF Reported, WaitsAbout, ReadAbout
  <2>2. PICK i \in DOMAIN jr[h][j] : /\ r.state = jr[h][j][i].state
                                     /\ r.run = jr[h][j][i].run
    BY <1>8, <2>1
  <2>3. i = 1
    BY DEF UndisturbedInv, Orderly, OneReport
  <2> QED
    BY <1>1, <2>2, <2>3
<1>16. ASSUME NEW j \in Jobs, WaitsWithout(h, j)' \/ ReadWithout(h, j)'
       PROVE  jr[h][j] = <<>>
  BY <1>8, <1>9, <1>10, <1>11, <1>16 DEF WaitsWithout, ReadWithout
<1>17. ASSUME NEW j \in Jobs
       PROVE  Orderly(h, j)'
  <2>1. Orderly(h, j)
    BY DEF UndisturbedInv
  <2>2. jr[h][j] # <<>> => 1 \in DOMAIN jr[h][j]
    BY <1>1
  <2>3. Ended(h, j)' <=> Ended(h, j)
    BY <1>7, <2>2 DEF Ended
  <2>4. CopyIsStarted(h, j)' /\ ProcsAreListed(h, j)'
    BY <1>3, <2>1 DEF Orderly, CopyIsStarted, ProcsAreListed
  <2>5. OneReport(h, j)'
    BY <1>3, <1>7, <2>1, <2>2, <2>3 DEF Orderly, OneReport
  <2>6. ExitsStand(h, j)'
    BY <1>13, <1>15, <2>3 DEF ExitsStand, Ended
  <2>7. NoDeliveryAfterExit(h, j)' /\ NewIsUnknown(h, j)'
    BY <1>14 DEF NoDeliveryAfterExit, NewIsUnknown
  <2>8. ru'[h][j] = ru[h][j] /\ task' = task
    BY <1>3 DEF qmVars
  <2>9. AtItsHost(h, j)'
    <3>1. ASSUME task[j].host = h
          PROVE  copy[h][j] # None /\ copy[h][j].run = task[j].run /\ ru[h][j] = <<>>
      BY <1>14, <2>1, <3>1 DEF Orderly, AtItsHost
    <3>2. ASSUME task[j].host = h, NEW r, Reported(h, j, r)'
          PROVE  r.run = task[j].run
      BY <1>15, <2>1, <3>1, <3>2 DEF Orderly, OneReport
    <3> QED
      BY <1>3, <1>13, <1>14, <2>8, <3>1, <3>2 DEF AtItsHost
  <2>10. Elsewhere(h, j)' <=> Elsewhere(h, j)
    BY <2>8 DEF Elsewhere, Over
  <2>11. Absent(h, j) => Absent(h, j)' /\ \A r : ~Reported(h, j, r)'
    BY <1>3, <1>7, <1>13, <1>14, <1>15 DEF Absent
  <2>12. NoEntryIsAbsent(h, j)'
    BY <2>1, <2>8, <2>10, <2>11 DEF Orderly, NoEntryIsAbsent
  <2>13. jr[h][j] = <<>> => Absent(h, j)
    BY <1>13, <1>14, <2>1 DEF Orderly, OneReport, Absent
  <2>14. LastEntryIsAbsent(h, j)'
    BY <1>16, <2>11, <2>13 DEF LastEntryIsAbsent
  <2> QED
    BY <2>4, <2>5, <2>6, <2>7, <2>9, <2>12, <2>14 DEF Orderly
<1>18. \A g \in Hosts \ {h} : SameTraffic(g) /\ \A j \in Jobs : SameDaemon(g, j)
  BY <1>3, <1>6 DEF SameTraffic, SameDaemon, qmVars
<1>19. \A j \in Jobs : SameTask(j)
  BY <1>3 DEF SameTask, Over, qmVars
<1>20. UNCHANGED <<ru, rep, up>>
  BY <1>3 DEF qmVars
<1> QED
  BY <1>12, <1>17, <1>18, <1>19, <1>20, DaemonStep

-----------------------------------------------------------------------------
(* The invariant                                                            *)

\* Initially nothing is on its way and no host has a trace of any job.
LEMMA UndisturbedInit ==
  ASSUME Init
  PROVE  UndisturbedInv
<1>1. ASSUME NEW h \in Hosts
      PROVE  /\ ~ReportIsRead(h) /\ acking[h] = <<>>
             /\ toExecd[h] = <<>> /\ toMaster[h] = <<>>
  BY DEF Init, ReportIsRead
<1>2. ASSUME NEW h \in Hosts
      PROVE  OneExchange(h) /\ ~AcksWait(h) /\ \A a : ~Acked(h, a)
  BY <1>1 DEF OneExchange, ReportIsFirst, OneAckMessage, ReportWaits, AcksWait,
              Acked, Packed, AckWaits, Handled, InSeq
<1>3. ASSUME NEW h \in Hosts, NEW j \in Jobs
      PROVE  /\ ~DeliveryWaits(h, j) /\ ~SignalWaits(h, j)
             /\ DeliveredBeforeExit(h, j) /\ ~Handled(h, ExitAck(j))
             /\ ~WaitsWithout(h, j) /\ ~ReadWithout(h, j)
             /\ \A r : ~Reported(h, j, r)
  BY <1>1 DEF DeliveryWaits, SignalWaits, DeliveredBeforeExit, Handled, InSeq,
              WaitsWithout, ReadWithout, Reported, WaitsAbout, ReadAbout
<1>4. ASSUME NEW h \in Hosts, NEW j \in Jobs
      PROVE  Orderly(h, j)
  <2>1. /\ copy[h][j] = None /\ jr[h][j] = <<>> /\ procs[h][j] = {}
        /\ task[j].host = None
    BY DEF Init, NewTask
  <2>2. CopyIsStarted(h, j) /\ ProcsAreListed(h, j) /\ OneReport(h, j)
    BY <2>1 DEF CopyIsStarted, ProcsAreListed, OneReport
  <2>3. ExitsStand(h, j) /\ NoDeliveryAfterExit(h, j) /\ NewIsUnknown(h, j)
    BY <1>2, <1>3 DEF ExitsStand, NoDeliveryAfterExit, NewIsUnknown
  <2>4. AtItsHost(h, j)
    BY <2>1, NoneAssumption DEF AtItsHost
  <2>5. NoEntryIsAbsent(h, j) /\ LastEntryIsAbsent(h, j)
    BY <1>2, <1>3, <2>1 DEF NoEntryIsAbsent, LastEntryIsAbsent, Absent
  <2> QED
    BY <2>2, <2>3, <2>4, <2>5 DEF Orderly
<1>5. up = Hosts
  BY DEF Init
<1> QED
  BY <1>2, <1>4, <1>5 DEF UndisturbedInv

\* Every step keeps the exchange in order.
LEMMA UndisturbedStep ==
  ASSUME Undisturbed, CoreInv, TypeInv, UndisturbedInv, [Next]_vars
  PROVE  UndisturbedInv'
<1>1. CASE QmasterStep
  <2>1. CASE EndReport
    BY <2>1, EndReportUndisturbed
  <2>2. ASSUME NEW j \in Jobs, JobResend(j) \/ ProcessJobReport(j) \/ RescheduleManually(j)
        PROVE  UndisturbedInv'
    BY <2>2, JobResendUndisturbed, ProcessJobReportUndisturbed,
       RescheduleManuallyUndisturbed
  <2>3. ASSUME NEW j \in Jobs, Delete(j) \/ SignalResend(j) \/ Debited(j)
        PROVE  UndisturbedInv'
    BY <2>3, DeleteUndisturbed, SignalResendUndisturbed, DebitedUndisturbed
  <2>4. ASSUME NEW j \in Jobs, NEW h \in Hosts, Dispatch(j, h) \/ DispatchFails(j, h)
        PROVE  UndisturbedInv'
    BY <2>4, DispatchUndisturbed, DispatchFailsUndisturbed
  <2>5. ASSUME NEW h \in Hosts,
               \/ BeginReport(h) \/ ReceiveSignalAck(h)
               \/ RescheduleUnknownHost(h) \/ HostUnheard(h)
        PROVE  UndisturbedInv'
    BY <2>5, BeginReportUndisturbed, ReceiveSignalAckUndisturbed,
       RescheduleUnknownHostUndisturbed, HostUnheardUndisturbed
  <2> QED
    BY <1>1, <2>1, <2>2, <2>3, <2>4, <2>5 DEF QmasterStep
<1>2. ASSUME NEW h \in Hosts, ExecdStep(h)
      PROVE  UndisturbedInv'
  <2>1. ASSUME NEW i \in DOMAIN toExecd[h],
               ReceiveJob(h, i) \/ ReceiveSignal(h, i) \/ ReceiveAcks(h, i)
        PROVE  UndisturbedInv'
    BY <2>1, ReceiveJobUndisturbed, ReceiveSignalUndisturbed, ReceiveAcksUndisturbed
  <2>2. CASE HandleAck(h)
    BY <2>2, HandleAckUndisturbed
  <2>3. ASSUME NEW j \in Jobs, Reap(h, j)
        PROVE  UndisturbedInv'
    BY <2>3, ReapUndisturbed
  <2>4. ASSUME NEW j \in Jobs, NEW p \in procs[h][j], ShepherdEnds(h, j, p)
        PROVE  UndisturbedInv'
    BY <2>4, ShepherdEndsUndisturbed
  <2>5. CASE SendFullReport(h)
    BY <2>5, SendFullReportUndisturbed
  <2>6. ~SendPartialReport(h) /\ ~Crash(h) /\ ~LoseConnection(h)
    BY NoTrouble DEF SendPartialReport, Crash, LoseConnection
  <2>7. ~Restart(h)
    BY DEF Restart, UndisturbedInv
  <2> QED
    BY <1>2, <2>1, <2>2, <2>3, <2>4, <2>5, <2>6, <2>7 DEF ExecdStep
<1>3. CASE UNCHANGED vars
  <2>1. UNCHANGED <<ru, rep, execdVars, netVars, task>>
    BY <1>3 DEF vars, qmVars
  <2> QED
    BY <2>1, QuietStep DEF SameTask, Over
<1> QED
  BY <1>1, <1>2, <1>3 DEF Next

\* As long as nothing disturbs the exchange, it is in order.
LEMMA UndisturbedIsInvariant ==
  ASSUME Undisturbed
  PROVE  Spec => []UndisturbedInv
<1>1. Init => UndisturbedInv
  BY UndisturbedInit
<1>2. CoreInv /\ TypeInv /\ UndisturbedInv /\ [Next]_vars => UndisturbedInv'
  BY UndisturbedStep
<1> QED
  BY <1>1, <1>2, CoreIsInvariant, TypeIsInvariant, PTL DEF Spec

-----------------------------------------------------------------------------
(* Theorems                                                                 *)

\* As long as nothing disturbs the exchange, every process that is not being
\* killed belongs to a job in the list of its daemon: remove_acked_job_exit,
\* which does not ask which instance was acknowledged, removes none that runs,
\* and skip_restarted_job has every instance killed before it is forgotten.
THEOREM UndisturbedLeavesNoOrphan ==
  ASSUME Undisturbed
  PROVE  Spec => []NoOrphan
<1>1. UndisturbedInv => NoOrphan
  BY DEF UndisturbedInv, Orderly, ProcsAreListed, NoOrphan, Living
<1> QED
  BY <1>1, UndisturbedIsInvariant, PTL

\* No step but a dispatch changes the instance of a job.
LEMMA OnlyDispatchChangesRun ==
  ASSUME CoreInv, [Next]_vars, NEW j \in Jobs, task'[j].run # task[j].run
  PROVE  \E h \in Hosts : Dispatch(j, h)
<1> DEFINE SameRun == task'[j].run = task[j].run
<1>1. task \in [Jobs -> Tasks]
  BY DEF CoreInv, CoreType
<1>2. \A k \in Jobs, status \in Statuses :
        /\ Leave(task[k], status).run = task[k].run
        /\ Leave(task[k], status) \in Tasks
  BY <1>1, LeaveFields
<1>3. ASSUME NEW k \in Jobs,
             JobResend(k) \/ Debited(k) \/ SignalResend(k) \/ Delete(k)
      PROVE  SameRun
  <2>1. CASE JobResend(k) \/ Debited(k)
    BY <1>1, <2>1 DEF JobResend, Debited, Tasks
  <2>2. CASE SignalTask(k)
    <3>1. PICK signal \in BOOLEAN :
            task' = [task EXCEPT ![k] =
                       [task[k] EXCEPT !.deleted = TRUE, !.signal = signal]]
      BY <2>2 DEF SignalTask
    <3>2. [task[k] EXCEPT !.deleted = TRUE, !.signal = signal].run = task[k].run
      BY <1>1 DEF Tasks
    <3> QED
      BY <1>1, <3>1, <3>2
  <2>3. CASE Finish(k)
    BY <1>1, <1>2, <2>3 DEF Finish, Statuses
  <2>4. CASE SignalResend(k)
    BY <1>1, <2>2, <2>4 DEF SignalResend, Tasks
  <2>5. CASE Delete(k)
    BY <1>1, <2>2, <2>3, <2>5 DEF Delete, Tasks
  <2> QED
    BY <1>3, <2>1, <2>4, <2>5
<1>4. ASSUME NEW k \in Jobs, ProcessJobReport(k)
      PROVE  SameRun
  <2>1. CASE SkippedReport(k)
    BY <1>1, <2>1 DEF SkippedReport, Tasks
  <2>2. CASE RunningReport(k)
    <3>1. Arrived(task[k]).run = task[k].run
      BY <1>1 DEF Arrived, Tasks
    <3> QED
      BY <1>1, <2>2, <3>1 DEF RunningReport
  <2>3. CASE ExitReport(k)
    BY <1>1, <1>2, <2>3 DEF ExitReport, JobExit, Finish, RescheduleAfterExit, Statuses
  <2> QED
    BY <1>4, <2>1, <2>2, <2>3 DEF ProcessJobReport
<1>5. ASSUME NEW js, NEW h, NEW manual, RescheduleJobs(js, h, manual)
      PROVE  SameRun
  <2>1. Leave(task[j], "JIDLE") \in Tasks /\ Leave(task[j], "JIDLE").run = task[j].run
    BY <1>2 DEF Statuses
  <2>2. [Leave(task[j], "JIDLE") EXCEPT !.deferred = manual].run = task[j].run
    BY <2>1 DEF Tasks
  <2> QED
    BY <1>5, <2>2 DEF RescheduleJobs
<1>6. ASSUME NEW k \in Jobs, RescheduleManually(k)
      PROVE  SameRun
  BY <1>5, <1>6 DEF RescheduleManually
<1>7. ASSUME NEW h \in Hosts, RescheduleUnknownHost(h)
      PROVE  SameRun
  BY <1>5, <1>7 DEF RescheduleUnknownHost
<1>8. ASSUME NEW k \in Jobs, NEW h \in Hosts, DispatchFails(k, h)
      PROVE  SameRun
  BY <1>1, <1>8 DEF DispatchFails, Tasks
<1>9. ASSUME NEW k \in Jobs, NEW h \in Hosts, Dispatch(k, h), k # j
      PROVE  SameRun
  BY <1>1, <1>9 DEF Dispatch
<1>10. ASSUME NEW h \in Hosts, ReceiveSignalAck(h)
       PROVE  SameRun
  <2>1. task' = task \/ \E k : task' = [task EXCEPT ![k].signal = FALSE]
    BY <1>10 DEF ReceiveSignalAck
  <2> QED
    BY <1>1, <2>1 DEF Tasks
<1>11. ASSUME NEW h \in Hosts, BeginReport(h) \/ HostUnheard(h) \/ ExecdStep(h)
       PROVE  SameRun
  BY <1>11, ExecdLeavesCore DEF BeginReport, HostUnheard, Core
<1>12. CASE EndReport \/ UNCHANGED vars
  BY <1>12 DEF EndReport, vars, qmVars
<1> QED
  BY <1>3, <1>4, <1>6, <1>7, <1>8, <1>9, <1>10, <1>11, <1>12 DEF Next, QmasterStep

\* As long as nothing disturbs the exchange, a job is dispatched only to a host
\* where no process of an earlier instance is left: ORT_start_job refuses a host
\* with an entry in the reschedule unknown list, and the last entry is deleted
\* only when the job has left the host (update_reschedule_unknown_list,
\* delete_from_reschedule_unknown_list).
THEOREM UndisturbedDispatchToIdleHost ==
  ASSUME Undisturbed
  PROVE  Spec => NotBackToBusyHost
<1>1. CoreInv /\ UndisturbedInv /\ [Next]_vars =>
        [\A j \in Jobs, h \in Hosts :
           task'[j].run # task[j].run /\ task'[j].host = h => procs[h][j] = {}]_vars
  <2> SUFFICES ASSUME CoreInv, UndisturbedInv, [Next]_vars,
                      NEW j \in Jobs, NEW h \in Hosts,
                      task'[j].run # task[j].run, task'[j].host = h
               PROVE  procs[h][j] = {}
    OBVIOUS
  <2>1. PICK g \in Hosts : Dispatch(j, g)
    BY OnlyDispatchChangesRun
  <2>2. task \in [Jobs -> Tasks]
    BY DEF CoreInv, CoreType
  <2>3. g = h
    BY <2>1, <2>2 DEF Dispatch, Tasks
  <2>4. task[j].status = "JIDLE" /\ ru[h][j] = <<>>
    BY <2>1, <2>3 DEF Dispatch, MayStart
  <2>5. task[j].host # h
    BY <2>4, NoneAssumption DEF CoreInv, PlacedIffBusy, Busy
  <2>6. Elsewhere(h, j)
    BY <2>4, <2>5 DEF Elsewhere, Over
  <2>7. copy[h][j] = None
    BY <2>4, <2>6 DEF UndisturbedInv, Orderly, NoEntryIsAbsent, Absent
  <2> QED
    BY <2>7 DEF UndisturbedInv, Orderly, ProcsAreListed
<1> QED
  BY <1>1, CoreIsInvariant, UndisturbedIsInvariant, PTL DEF Spec, NotBackToBusyHost

\* The report that is read of a job that is on its host, or of an old instance.
LEMMA StaleReporter ==
  ASSUME TypeInv, UndisturbedInv, NEW j \in Jobs, StaleReport(j),
         ru[rep.host][j] = <<>>
  PROVE  Over(j)
<1>1. PICK h \in Hosts : h = rep.host /\ ReportIsRead(h) /\ rep.jrs[j] # <<>>
  BY DEF StaleReport, TypeInv, ListsOK, ReportBeingRead, ReportIsRead
<1>2. ~Elsewhere(h, j)
  BY <1>1, ReporterHasTask
<1>3. PICK r \in JobReports : r = Head(rep.jrs[j]) /\ Reported(h, j, r)
  <2>1. rep.jrs[j] \in Seq(JobReports)
    BY <1>1 DEF ReportIsRead, TypeInv, ListsOK, ReportBeingRead
  <2>2. 1 \in DOMAIN rep.jrs[j] /\ rep.jrs[j][1] \in JobReports /\ Head(rep.jrs[j]) = rep.jrs[j][1]
    BY <1>1, <2>1
  <2> QED
    BY <1>1, <2>2 DEF Reported, ReadAbout, InSeq
<1>4. task[j].host # h
  BY <1>3 DEF StaleReport, UndisturbedInv, Orderly, AtItsHost
<1> QED
  BY <1>2, <1>4 DEF Elsewhere

\* As long as nothing disturbs the exchange, the report of an instance that was
\* taken away does not change the status of the job (skip_restarted_job,
\* process_job_report): an exit that is counted is that of the instance the
\* qmaster believes in, although nothing in the message says so.
THEOREM UndisturbedIgnoresOldReports ==
  ASSUME Undisturbed
  PROVE  Spec => OldReportsIgnored
<1>1. CoreInv /\ TypeInv /\ UndisturbedInv /\ [Next]_vars =>
        [\A j \in Jobs : StaleReport(j) => task'[j].status = task[j].status]_vars
  <2> SUFFICES ASSUME CoreInv, TypeInv, UndisturbedInv, [Next]_vars,
                      NEW j \in Jobs, StaleReport(j)
               PROVE  task'[j].status = task[j].status
    OBVIOUS
  <2>1. task \in [Jobs -> Tasks]
    BY DEF CoreInv, CoreType
  <2>2. rep # None
    BY DEF StaleReport
  <2>3. ASSUME NEW k \in Jobs \ {j}, ProcessJobReport(k)
        PROVE  task'[j] = task[j]
    <3>1. CASE SkippedReport(k) \/ RunningReport(k)
      BY <2>1, <3>1 DEF SkippedReport, RunningReport
    <3>2. CASE ExitReport(k)
      BY <2>1, <3>2 DEF ExitReport, JobExit, Finish, RescheduleAfterExit
    <3> QED
      BY <2>3, <3>1, <3>2 DEF ProcessJobReport
  <2>4. CASE SkippedReport(j)
    BY <2>1, <2>4 DEF SkippedReport, Tasks
  <2>5. CASE RunningReport(j)
    <3>1. Over(j)
      BY <2>5, StaleReporter DEF RunningReport, Verdict
    <3>2. Arrived(task[j]) = task[j]
      BY <3>1 DEF Arrived, Over
    <3> QED
      BY <2>1, <2>5, <3>2 DEF RunningReport
  <2>6. CASE ExitReport(j)
    <3>1. Over(j)
      BY <2>6, StaleReporter DEF ExitReport, Verdict
    <3>2. ~ExpectsExit(task[j])
      BY <3>1 DEF ExpectsExit, Over, Busy
    <3> QED
      BY <2>6, <3>2 DEF ExitReport
  <2>7. CASE ProcessJobReport(j)
    BY <2>4, <2>5, <2>6, <2>7 DEF ProcessJobReport
  <2>8. CASE QmasterStep
    BY <2>2, <2>3, <2>7, <2>8
    DEF QmasterStep, EndReport, JobResend, RescheduleManually, Delete, SignalResend,
        Debited, Dispatch, DispatchFails, BeginReport, ReceiveSignalAck,
        RescheduleUnknownHost, HostUnheard
  <2>9. ASSUME NEW h \in Hosts, ExecdStep(h)
        PROVE  task' = task
    BY <2>9, ExecdLeavesCore DEF Core
  <2>10. CASE UNCHANGED vars
    BY <2>10 DEF vars, qmVars
  <2> QED
    BY <2>8, <2>9, <2>10 DEF Next
<1> QED
  BY <1>1, CoreIsInvariant, TypeIsInvariant, UndisturbedIsInvariant, PTL
  DEF Spec, OldReportsIgnored
================================================================================
