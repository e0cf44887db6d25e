------------------------------ MODULE TaskLife ------------------------------
(***************************************************************************)
(* What the qmaster promises about the tasks of a cluster, whatever        *)
(* happens to messages and execution daemons: a task is pending, granted   *)
(* to a host or over; a host never has more tasks than slots; each grant   *)
(* that ends leaves one accounting record; and a task that is registered   *)
(* for deletion is not granted again.                                      *)
(*                                                                         *)
(* JobDelivery is shown to implement this specification.                   *)
(***************************************************************************)
EXTENDS Integers, Sequences, FiniteSets, FiniteSetTheorems, TLAPS

CONSTANTS Jobs, Hosts, None, Slots

VARIABLES phase,    \* of each task: pending, sent, running or over
          place,    \* the host it is granted to
          deleted,  \* tasks that are registered for deletion
          grants,   \* how often it was granted
          records   \* the grants that were accounted, in order

vars == <<phase, place, deleted, grants, records>>

Phases == {"pending", "sent", "running", "over"}

Granted == {j \in Jobs : phase[j] \in {"sent", "running"}}
GrantedAt(h) == {j \in Granted : place[j] = h}

Init ==
  /\ phase = [j \in Jobs |-> "pending"]
  /\ place = [j \in Jobs |-> None]
  /\ deleted = {}
  /\ grants = [j \in Jobs |-> 0]
  /\ records = [j \in Jobs |-> <<>>]

\* The task is sent to a host with a free slot.
Grant(j, h) ==
  /\ phase[j] = "pending" /\ Cardinality(GrantedAt(h)) < Slots
  /\ phase' = [phase EXCEPT ![j] = "sent"]
  /\ place' = [place EXCEPT ![j] = h]
  /\ grants' = [grants EXCEPT ![j] = @ + 1]
  /\ UNCHANGED <<deleted, records>>

\* The host has reported the task.
Arrive(j) ==
  /\ phase[j] = "sent"
  /\ phase' = [phase EXCEPT ![j] = "running"]
  /\ UNCHANGED <<place, deleted, grants, records>>

\* Tasks stop to be granted, and there is one record of each grant.
Release(js, to) ==
  /\ js \subseteq Granted
  /\ phase' = [j \in Jobs |-> IF j \in js THEN to ELSE phase[j]]
  /\ place' = [j \in Jobs |-> IF j \in js THEN None ELSE place[j]]
  /\ records' = [j \in Jobs |-> IF j \in js THEN Append(records[j], grants[j])
                                            ELSE records[j]]
  /\ UNCHANGED <<deleted, grants>>

\* Tasks that are not registered for deletion may become pending again.
TakeBack(js) == js \cap deleted = {} /\ Release(js, "pending")

End(j) == Release({j}, "over")

\* A pending task is removed.
Cancel(j) ==
  /\ phase[j] = "pending"
  /\ phase' = [phase EXCEPT ![j] = "over"]
  /\ UNCHANGED <<place, deleted, grants, records>>

Register(j) ==
  /\ j \in Granted
  /\ deleted' = deleted \cup {j}
  /\ UNCHANGED <<phase, place, grants, records>>

Next ==
  \/ \E j \in Jobs : Arrive(j) \/ Cancel(j) \/ Register(j) \/ End(j)
  \/ \E j \in Jobs, h \in Hosts : Grant(j, h)
  \/ \E js \in SUBSET Jobs : TakeBack(js)

Spec == Init /\ [][Next]_vars

-----------------------------------------------------------------------------
LifeType ==
  /\ phase \in [Jobs -> Phases]
  /\ place \in [Jobs -> Hosts \cup {None}]
  /\ deleted \subseteq Jobs
  /\ grants \in [Jobs -> Nat]
  /\ records \in [Jobs -> Seq(Nat)]

NotOverbooked == \A h \in Hosts : Cardinality(GrantedAt(h)) <= Slots

RecordedOnce ==
  \A j \in Jobs : \A a, b \in DOMAIN records[j] :
    records[j][a] = records[j][b] => a = b

\* Records are of grants that have ended: what makes RecordedOnce inductive.
RecordsArePast ==
  \A j \in Jobs : \A a \in DOMAIN records[j] :
    /\ records[j][a] <= grants[j]
    /\ j \in Granted => records[j][a] < grants[j]

DeletedNotPending == \A j \in deleted : phase[j] # "pending"

LifeInv ==
  LifeType /\ NotOverbooked /\ RecordsArePast /\ RecordedOnce /\ DeletedNotPending

-----------------------------------------------------------------------------
\* The tasks of a host are finitely many, so they can be counted.
LEMMA CountableTasks ==
  ASSUME IsFiniteSet(Jobs), NEW h
  PROVE  IsFiniteSet(GrantedAt(h)) /\ Cardinality(GrantedAt(h)) \in Nat
<1>1. GrantedAt(h) \subseteq Jobs
  BY DEF GrantedAt, Granted
<1> QED
  BY <1>1, FS_Subset, FS_CardinalityType

\* Initially no task is granted, recorded or deleted.
LEMMA LifeInit ==
  ASSUME Slots \in Nat, Init
  PROVE  LifeInv
<1>1. LifeType
  BY DEF Init, LifeType, Phases
<1>2. NotOverbooked
  <2>1. \A h \in Hosts : GrantedAt(h) = {}
    BY DEF Init, GrantedAt, Granted
  <2> QED
    BY <2>1, FS_EmptySet DEF NotOverbooked
<1>3. RecordsArePast /\ RecordedOnce /\ DeletedNotPending
  BY DEF Init, RecordsArePast, RecordedOnce, DeletedNotPending
<1> QED
  BY <1>1, <1>2, <1>3 DEF LifeInv

\* A step that grants nothing leaves no host with more tasks than before.
LEMMA FewerTasks ==
  ASSUME IsFiniteSet(Jobs), Slots \in Nat, NotOverbooked,
         \A h \in Hosts : GrantedAt(h)' \subseteq GrantedAt(h)
  PROVE  NotOverbooked'
<1> SUFFICES ASSUME NEW h \in Hosts
             PROVE  Cardinality(GrantedAt(h)') <= Slots
  BY DEF NotOverbooked
<1>1. IsFiniteSet(GrantedAt(h)) /\ Cardinality(GrantedAt(h)) \in Nat
  BY CountableTasks
<1>2. /\ Cardinality(GrantedAt(h)') <= Cardinality(GrantedAt(h))
      /\ IsFiniteSet(GrantedAt(h)')
  BY <1>1, FS_Subset
<1>3. Cardinality(GrantedAt(h)') \in Nat
  BY <1>2, FS_CardinalityType
<1>4. Cardinality(GrantedAt(h)) <= Slots
  BY DEF NotOverbooked
<1> QED
  BY <1>1, <1>2, <1>3, <1>4

\* Granting a task preserves the invariant: the free slot is what keeps the host
\* from being overbooked, the new number of the grant what keeps records apart.
LEMMA GrantStep ==
  ASSUME IsFiniteSet(Jobs), Slots \in Nat, LifeInv,
         NEW j \in Jobs, NEW h \in Hosts, Grant(j, h)
  PROVE  LifeInv'
<1>0. LifeType
  BY DEF LifeInv
<1>a. grants'[j] = grants[j] + 1 /\ grants[j] \in Nat
  BY <1>0 DEF Grant, LifeType
<1>b. grants' \in [Jobs -> Nat]
  BY <1>0 DEF Grant, LifeType
<1>1. LifeType'
  BY <1>0, <1>b DEF Grant, LifeType, Phases
<1>2. NotOverbooked'
  <2> SUFFICES ASSUME NEW g \in Hosts
               PROVE  Cardinality(GrantedAt(g)') <= Slots
    BY DEF NotOverbooked
  <2>1. CASE g = h
    <3>1. j \notin GrantedAt(h)
      BY DEF Grant, GrantedAt, Granted
    <3>2. GrantedAt(h)' = GrantedAt(h) \cup {j}
      BY <1>0 DEF Grant, GrantedAt, Granted, LifeType
    <3>3. IsFiniteSet(GrantedAt(h)) /\ Cardinality(GrantedAt(h)) \in Nat
      BY CountableTasks
    <3>4. Cardinality(GrantedAt(h)') = Cardinality(GrantedAt(h)) + 1
      BY <3>1, <3>2, <3>3, FS_AddElement
    <3>5. Cardinality(GrantedAt(h)) < Slots
      BY DEF Grant
    <3> QED
      BY <2>1, <3>3, <3>4, <3>5
  <2>2. CASE g # h
    <3>1. GrantedAt(g)' = GrantedAt(g)
      BY <1>0, <2>2 DEF Grant, GrantedAt, Granted, LifeType
    <3> QED
      BY <3>1 DEF LifeInv, NotOverbooked
  <2> QED
    BY <2>1, <2>2
<1>3. RecordsArePast'
  <2> SUFFICES ASSUME NEW k \in Jobs, NEW a \in DOMAIN records[k]
               PROVE  /\ records[k][a] <= grants'[k]
                      /\ k \in Granted' => records[k][a] < grants'[k]
    BY DEF RecordsArePast, Grant
  <2>1. records[k][a] \in Nat /\ grants[k] \in Nat
    BY <1>0 DEF LifeType
  <2>2. /\ records[k][a] <= grants[k]
        /\ k \in Granted => records[k][a] < grants[k]
    BY DEF LifeInv, RecordsArePast
  <2>3. CASE k = j
    BY <1>a, <2>1, <2>2, <2>3
  <2>4. CASE k # j
    <3>1. grants'[k] = grants[k] /\ (k \in Granted' => k \in Granted)
      BY <1>0, <2>4 DEF Grant, Granted, LifeType
    <3> QED
      BY <2>2, <3>1
  <2> QED
    BY <2>3, <2>4
<1>4. RecordedOnce' /\ DeletedNotPending'
  BY <1>0 DEF LifeInv, LifeType, RecordedOnce, DeletedNotPending, Grant
<1> QED
  BY <1>1, <1>2, <1>3, <1>4 DEF LifeInv

\* Releasing granted tasks preserves the invariant: the record that is added is
\* of the current grant, which no earlier record is of.
LEMMA ReleaseStep ==
  ASSUME IsFiniteSet(Jobs), Slots \in Nat, LifeInv,
         NEW js \in SUBSET Jobs, NEW to \in {"pending", "over"},
         Release(js, to), to = "pending" => js \cap deleted = {}
  PROVE  LifeInv'
<1>0. LifeType
  BY DEF LifeInv
<1>a. \A k \in Jobs \ js : records'[k] = records[k]
  BY DEF Release
<1>b. \A k \in js : records'[k] = Append(records[k], grants[k])
  BY DEF Release
<1>c. grants' = grants /\ deleted' = deleted /\ js \subseteq Granted
  BY DEF Release
<1>d. Granted' = Granted \ js
  BY DEF Release, Granted
<1>e. \A k \in Jobs : records[k] \in Seq(Nat) /\ grants[k] \in Nat
  BY <1>0 DEF LifeType
<1>1. LifeType'
  <2>1. records' \in [Jobs -> Seq(Nat)]
    BY <1>e DEF Release
  <2>2. /\ phase' \in [Jobs -> Phases]
        /\ place' \in [Jobs -> Hosts \cup {None}]
    BY <1>0 DEF Release, LifeType, Phases
  <2> QED
    BY <1>0, <1>c, <2>1, <2>2 DEF LifeType
<1>2. NotOverbooked'
  <2>1. \A h \in Hosts : GrantedAt(h)' \subseteq GrantedAt(h)
    BY <1>d DEF Release, GrantedAt, Granted
  <2> QED
    BY <2>1, FewerTasks DEF LifeInv
<1>3. RecordsArePast'
  <2> SUFFICES ASSUME NEW k \in Jobs, NEW a \in DOMAIN records'[k]
               PROVE  /\ records'[k][a] <= grants[k]
                      /\ k \in Granted' => records'[k][a] < grants[k]
    BY <1>c DEF RecordsArePast
  <2>1. CASE k \in js
    <3>1. k \notin Granted'
      BY <1>d, <2>1
    <3>2. CASE a \in DOMAIN records[k]
      <4>1. records'[k][a] = records[k][a]
        BY <1>b, <1>e, <2>1, <3>2
      <4>2. records[k][a] <= grants[k]
        BY <3>2 DEF LifeInv, RecordsArePast
      <4> QED
        BY <3>1, <4>1, <4>2
    <3>3. CASE a \notin DOMAIN records[k]
      <4>1. records'[k][a] = grants[k]
        BY <1>b, <1>e, <2>1, <3>3
      <4> QED
        BY <1>e, <3>1, <4>1
    <3> QED
      BY <3>2, <3>3
  <2>2. CASE k \notin js
    BY <1>a, <1>d, <2>2 DEF LifeInv, RecordsArePast
  <2> QED
    BY <2>1, <2>2
<1>4. RecordedOnce'
  <2> SUFFICES ASSUME NEW k \in Jobs,
                      NEW a \in DOMAIN records'[k], NEW b \in DOMAIN records'[k],
                      records'[k][a] = records'[k][b]
               PROVE  a = b
    BY DEF RecordedOnce
  <2>1. CASE k \in js
    <3>1. k \in Granted
      BY <1>c, <2>1
    <3>2. \A c \in DOMAIN records[k] :
            /\ records[k][c] \in Nat /\ records[k][c] < grants[k]
            /\ records'[k][c] = records[k][c]
      <4> SUFFICES ASSUME NEW c \in DOMAIN records[k]
                   PROVE  /\ records[k][c] \in Nat /\ records[k][c] < grants[k]
                          /\ records'[k][c] = records[k][c]
        OBVIOUS
      <4>1. records[k][c] \in Nat
        BY <1>e
      <4>2. records[k][c] < grants[k]
        BY <3>1 DEF LifeInv, RecordsArePast
      <4>3. records'[k][c] = records[k][c]
        <5>1. records[k] \in Seq(Nat) /\ grants[k] \in Nat
          BY <1>e
        <5>2. records'[k] = Append(records[k], grants[k])
          BY <1>b, <2>1
        <5>3. c \in 1 .. Len(records[k])
          BY <5>1
        <5> QED
          BY <5>1, <5>2, <5>3
      <4> QED
        BY <4>1, <4>2, <4>3
    <3>3. \A c \in DOMAIN records'[k] \ DOMAIN records[k] :
            c = Len(records[k]) + 1 /\ records'[k][c] = grants[k]
      BY <1>b, <1>e, <2>1
    <3>4. \A c, d \in DOMAIN records[k] : records[k][c] = records[k][d] => c = d
      BY DEF LifeInv, RecordedOnce
    <3>5. grants[k] \in Nat
      BY <1>e
    <3>6. CASE a \in DOMAIN records[k] /\ b \in DOMAIN records[k]
      BY <3>2, <3>4, <3>6
    <3>7. CASE a \notin DOMAIN records[k] /\ b \notin DOMAIN records[k]
      BY <3>3, <3>7
    <3>8. CASE a \in DOMAIN records[k] /\ b \notin DOMAIN records[k]
      BY <3>2, <3>3, <3>5, <3>8
    <3>9. CASE a \notin DOMAIN records[k] /\ b \in DOMAIN records[k]
      BY <3>2, <3>3, <3>5, <3>9
    <3> QED
      BY <3>6, <3>7, <3>8, <3>9
  <2>2. CASE k \notin js
    BY <1>a, <2>2 DEF LifeInv, RecordedOnce
  <2> QED
    BY <2>1, <2>2
<1>5. DeletedNotPending'
  BY <1>0, <1>c DEF Release, LifeInv, LifeType, DeletedNotPending
<1> QED
  BY <1>1, <1>2, <1>3, <1>4, <1>5 DEF LifeInv

\* The other steps grant nothing and record nothing.
LEMMA QuietStep ==
  ASSUME IsFiniteSet(Jobs), Slots \in Nat, LifeInv,
         NEW j \in Jobs, Arrive(j) \/ Cancel(j) \/ Register(j)
  PROVE  LifeInv'
<1>0. LifeType
  BY DEF LifeInv
<1>1. LifeType'
  BY <1>0 DEF Arrive, Cancel, Register, Granted, LifeType, Phases
<1>2. Granted' \subseteq Granted /\ UNCHANGED <<place, grants, records>>
  BY <1>0 DEF Arrive, Cancel, Register, Granted, LifeType
<1>3. NotOverbooked'
  <2>1. \A h \in Hosts : GrantedAt(h)' \subseteq GrantedAt(h)
    BY <1>2 DEF GrantedAt
  <2> QED
    BY <2>1, FewerTasks DEF LifeInv
<1>4. RecordsArePast' /\ RecordedOnce'
  BY <1>2 DEF LifeInv, RecordsArePast, RecordedOnce
<1>5. DeletedNotPending'
  BY <1>0 DEF LifeInv, LifeType, DeletedNotPending, Arrive, Cancel, Register, Granted
<1> QED
  BY <1>1, <1>3, <1>4, <1>5 DEF LifeInv

\* Whatever the number of jobs, hosts and slots: no host has more tasks than
\* slots, no grant is recorded twice and no deleted task is pending.
THEOREM LifeIsSafe ==
  ASSUME IsFiniteSet(Jobs), Slots \in Nat
  PROVE  Spec => []LifeInv
<1>1. Init => LifeInv
  BY LifeInit
<1>2. LifeInv /\ [Next]_vars => LifeInv'
  <2> SUFFICES ASSUME LifeInv, [Next]_vars
               PROVE  LifeInv'
    OBVIOUS
  <2>1. ASSUME NEW j \in Jobs, Arrive(j) \/ Cancel(j) \/ Register(j)
        PROVE  LifeInv'
    BY <2>1, QuietStep
  <2>2. ASSUME NEW j \in Jobs, End(j)
        PROVE  LifeInv'
    BY <2>2, ReleaseStep DEF End
  <2>3. ASSUME NEW j \in Jobs, NEW h \in Hosts, Grant(j, h)
        PROVE  LifeInv'
    BY <2>3, GrantStep
  <2>4. ASSUME NEW js \in SUBSET Jobs, TakeBack(js)
        PROVE  LifeInv'
    BY <2>4, ReleaseStep DEF TakeBack
  <2>5. CASE UNCHANGED vars
    BY <2>5 DEF vars, LifeInv, LifeType, NotOverbooked, GrantedAt, Granted,
                RecordsArePast, RecordedOnce, DeletedNotPending
  <2> QED
    BY <2>1, <2>2, <2>3, <2>4, <2>5 DEF Next
<1> QED
  BY <1>1, <1>2, PTL DEF Spec
=============================================================================
