--------------------------- MODULE FifoLockProofs ---------------------------
(***************************************************************************)
(* FifoLock for every set of threads and every length of the ring.         *)
(*                                                                         *)
(* The counters of the code say nothing by themselves: IInv ties each one  *)
(* to the set of threads it counts, and the ring to the threads blocked in *)
(* it (RingOK: the slots between head and tail hold exactly the queued     *)
(* threads, one each).  SignalOK says that only the head of the ring is    *)
(* ever signaled, and WakeOK that a non-empty ring has somebody who will   *)
(* wake it.  From these follow exclusion, the absence of lost wakeups and  *)
(* the service in order of arrival.  Then comes what the ring owes to the  *)
(* threads outside it, which holds up to two threads per slot, and last    *)
(* that the lock implements QueuedLock.                                    *)
(***************************************************************************)
EXTENDS FifoLock, FiniteSetTheorems, TLAPS

L == FIFO_LOCK_QUEUE_LENGTH

QueuedReaders == {t \in Threads : pc[t] = "queued" /\ mode[t]}
QueuedWriters == {t \in Threads : pc[t] = "queued" /\ ~mode[t]}
WaitingOutside == {t \in Threads : pc[t] \in {"outside", "woken"}}

\* Threads in the ring.
Count == reader_waiting + writer_waiting

CountersOK ==
  /\ reader_active = Cardinality(Readers)
  /\ writer_active = Cardinality(Writers)
  /\ reader_waiting = Cardinality(QueuedReaders)
  /\ writer_waiting = Cardinality(QueuedWriters)
  /\ waiting = Cardinality(WaitingOutside)

RingOK ==
  /\ Count <= L
  /\ tail = IF head + Count >= L THEN head + Count - L ELSE head + Count
  /\ \A t \in Queued : /\ Dist(index[t]) < Count
                       /\ array[index[t]].is_reader = mode[t]
  /\ \A t, u \in Queued : index[t] = index[u] => t = u
  /\ \A i \in Slots : Dist(i) < Count => \E t \in Queued : index[t] = i
  /\ \A i \in Slots : Dist(i) >= Count => array[i] = EmptySlot

SignalOK ==
  /\ \A i \in Slots : array[i].is_signaled <=> (signaled = 1 /\ i = head)
  /\ signaled = 1 => /\ writer_active = 0
                     /\ array[head].is_reader \/ reader_active = 0

ExclusionOK ==
  writer_active = 0 \/ (writer_active = 1 /\ reader_active = 0)

WakeOK ==
  Count > 0 => \/ writer_active > 0
               \/ signaled = 1
               \/ reader_active > 0 /\ ~array[head].is_reader

IInv == TypeOK /\ CountersOK /\ RingOK /\ SignalOK /\ ExclusionOK /\ WakeOK

-----------------------------------------------------------------------------
\* Sets of threads are finite, so they can be counted.
LEMMA CountThreads ==
  ASSUME NEW S \in SUBSET Threads
  PROVE  /\ Cardinality(S) \in Nat
         /\ Cardinality(S) = 0 <=> S = {}
         /\ \A t \in Threads \ S : Cardinality(S \cup {t}) = Cardinality(S) + 1
         /\ \A t \in S : Cardinality(S \ {t}) = Cardinality(S) - 1
<1>1. IsFiniteSet(S)
  BY FS_Subset, ThreadsAssumption
<1> QED
  BY <1>1, FS_CardinalityType, FS_EmptySet, FS_AddElement, FS_RemoveElement

THEOREM Initially == Init => IInv
<1> SUFFICES ASSUME Init PROVE IInv
  OBVIOUS
<1> USE LengthAssumption DEF Init
<1>1. TypeOK
  BY DEF TypeOK, Slots, EmptySlot, Places
<1>2. CountersOK
  <2>1. /\ Readers = {} /\ Writers = {} /\ QueuedReaders = {}
        /\ QueuedWriters = {} /\ WaitingOutside = {}
    BY DEF Readers, Writers, QueuedReaders, QueuedWriters, WaitingOutside
  <2> QED
    BY <2>1, FS_EmptySet DEF CountersOK
<1>3. RingOK
  BY DEF RingOK, Count, Queued, Dist, L, Slots
<1>4. SignalOK
  BY DEF SignalOK, EmptySlot, Slots
<1>5. ExclusionOK /\ WakeOK
  BY DEF ExclusionOK, WakeOK, Count
<1> QED
  BY <1>1, <1>2, <1>3, <1>4, <1>5 DEF IInv

-----------------------------------------------------------------------------
\* A thread that moves to or stays at lock->cond changes nothing else.
LEMMA MoveOutside ==
  ASSUME IInv, NEW t \in Threads, NEW p \in {"outside", "woken"},
         pc[t] \in {"idle", "outside", "woken"},
         pc' = [pc EXCEPT ![t] = p],
         waiting' = waiting + One(pc[t] = "idle"),
         mode' \in [Threads -> BOOLEAN],
         \A u \in Threads \ {t} : mode'[u] = mode[u],
         UNCHANGED <<array, head, tail, reader_active, writer_active,
                     reader_waiting, writer_waiting, signaled, index>>
  PROVE  IInv'
<1> USE DEF IInv
<1>1. TypeOK'
  <2>1. waiting' \in Nat
    BY DEF TypeOK, One
  <2>2. pc' \in [Threads -> Places]
    BY DEF TypeOK, Places
  <2> QED
    BY <2>1, <2>2 DEF TypeOK
<1>2. /\ Readers' = Readers /\ Writers' = Writers
      /\ QueuedReaders' = QueuedReaders /\ QueuedWriters' = QueuedWriters
      /\ Queued' = Queued
  BY DEF TypeOK, Readers, Writers, QueuedReaders, QueuedWriters, Queued
<1>3. waiting' = Cardinality(WaitingOutside')
  <2>1. WaitingOutside \in SUBSET Threads
    BY DEF WaitingOutside
  <2>2. CASE pc[t] = "idle"
    <3>1. WaitingOutside' = WaitingOutside \cup {t} /\ t \notin WaitingOutside
      BY <2>2 DEF TypeOK, WaitingOutside
    <3> QED
      BY <2>1, <2>2, <3>1, CountThreads DEF CountersOK, One
  <2>3. CASE pc[t] # "idle"
    <3>1. WaitingOutside' = WaitingOutside
      BY <2>3 DEF TypeOK, WaitingOutside
    <3> QED
      BY <2>1, <2>3, <3>1, CountThreads DEF CountersOK, One
  <2> QED
    BY <2>2, <2>3
<1>4. CountersOK'
  BY <1>2, <1>3 DEF CountersOK
<1>5. RingOK'
  BY <1>2 DEF RingOK, Count, Queued, Dist, TypeOK
<1>6. SignalOK' /\ ExclusionOK' /\ WakeOK'
  BY DEF SignalOK, ExclusionOK, WakeOK, Count
<1> QED
  BY <1>1, <1>4, <1>5, <1>6

-----------------------------------------------------------------------------
\* What IInv says about the threads in the ring and in the lock.
LEMMA QueuedMeansCount ==
  ASSUME IInv
  PROVE  /\ \A t \in Queued : Count > 0
         /\ \A t \in Queued : ~mode[t] => writer_waiting > 0
         /\ \A t \in Queued : mode[t] => reader_waiting > 0
         /\ Count > 0 => \E t \in Queued : index[t] = head
<1> USE DEF IInv
<1>1. QueuedReaders \in SUBSET Threads /\ QueuedWriters \in SUBSET Threads
  BY DEF QueuedReaders, QueuedWriters
<1>2. \A t \in Queued : ~mode[t] => writer_waiting > 0
  BY <1>1, CountThreads DEF CountersOK, QueuedWriters, Queued
<1>3. \A t \in Queued : mode[t] => reader_waiting > 0
  BY <1>1, CountThreads DEF CountersOK, QueuedReaders, Queued
<1>4. \A t \in Queued : Count > 0
  BY <1>2, <1>3 DEF Count, TypeOK
<1>5. Dist(head) = 0
  BY LengthAssumption DEF TypeOK, Slots, Dist
<1>6. Count > 0 => \E t \in Queued : index[t] = head
  BY <1>5 DEF RingOK, TypeOK
<1> QED
  BY <1>2, <1>3, <1>4, <1>6

\* Nobody takes the lock on arrival while the ring holds a thread.
LEMMA DirectMeansEmptyRing ==
  ASSUME IInv, NEW r \in BOOLEAN, ~MustQueue(r)
  PROVE  Count = 0
<1> USE DEF IInv
<1>1. SUFFICES ASSUME Count > 0 PROVE FALSE
  BY DEF TypeOK, Count
<1>2. writer_active = 0 /\ signaled = 0
  BY DEF MustQueue, TypeOK
<1>3. reader_active > 0 /\ ~array[head].is_reader
  BY <1>1, <1>2 DEF WakeOK
<1>4. r /\ writer_waiting = 0
  BY <1>3 DEF MustQueue, TypeOK
<1>5. PICK t \in Queued : index[t] = head
  BY <1>1, QueuedMeansCount
<1>6. ~mode[t]
  BY <1>3, <1>5 DEF RingOK, TypeOK, Queued
<1> QED
  BY <1>4, <1>5, <1>6, QueuedMeansCount

-----------------------------------------------------------------------------
\* A thread gives up its place outside and enters: it takes the lock at once
\* or appends itself to the ring.
LEMMA EnterPreserves ==
  ASSUME IInv, NEW t \in Threads, NEW r \in BOOLEAN,
         pc[t] \in {"idle", "woken"},
         ~Full, Enter(t, r),
         waiting' = waiting - One(pc[t] = "woken"),
         mode' \in [Threads -> BOOLEAN], mode'[t] = r,
         \A u \in Threads \ {t} : mode'[u] = mode[u],
         UNCHANGED <<head, signaled>>
  PROVE  IInv'
<1> USE DEF IInv
<1>0. Count < L /\ L \in Nat \ {0} /\ Count \in Nat
  BY LengthAssumption DEF Full, RingOK, Count, L, TypeOK
<1>1. waiting' = Cardinality(WaitingOutside') /\ waiting' \in Nat
  <2>1. WaitingOutside \in SUBSET Threads
    BY DEF WaitingOutside
  <2>2. CASE pc[t] = "woken"
    <3>1. WaitingOutside' = WaitingOutside \ {t} /\ t \in WaitingOutside
      BY <2>2 DEF TypeOK, WaitingOutside, Enter
    <3>2. WaitingOutside' \in SUBSET Threads
      BY DEF WaitingOutside
    <3> QED
      BY <2>1, <2>2, <3>1, <3>2, CountThreads DEF CountersOK, One
  <2>3. CASE pc[t] # "woken"
    <3>1. WaitingOutside' = WaitingOutside
      BY <2>3 DEF TypeOK, WaitingOutside, Enter
    <3> QED
      BY <2>1, <2>3, <3>1, CountThreads DEF CountersOK, One
  <2> QED
    BY <2>2, <2>3
<1>2. CASE ~MustQueue(r)
  <2>1. /\ Take(r)
        /\ pc' = [pc EXCEPT ![t] = "holds"]
        /\ UNCHANGED <<array, tail, reader_waiting, writer_waiting, index>>
    BY <1>2 DEF Enter
  <2>2. Count = 0
    BY <1>2, DirectMeansEmptyRing
  <2>3. TypeOK'
    <3>1. pc' \in [Threads -> Places]
      BY <2>1 DEF TypeOK, Places
    <3>2. reader_active' \in Nat /\ writer_active' \in Nat
      BY <2>1 DEF Take, One, TypeOK
    <3> QED
      BY <2>1, <3>1, <3>2, <1>1 DEF TypeOK
  <2>4. CountersOK'
    <3>1. /\ QueuedReaders' = QueuedReaders /\ QueuedWriters' = QueuedWriters
          /\ Readers \in SUBSET Threads /\ Writers \in SUBSET Threads
          /\ t \notin Readers /\ t \notin Writers
      BY <2>1 DEF QueuedReaders, QueuedWriters, Readers, Writers, TypeOK
    <3>2. CASE r
      <4>1. Readers' = Readers \cup {t} /\ Writers' = Writers
        BY <2>1, <3>2 DEF Readers, Writers, TypeOK
      <4> QED
        BY <1>1, <2>1, <3>1, <3>2, <4>1, CountThreads
           DEF CountersOK, Take, One, TypeOK
    <3>3. CASE ~r
      <4>1. Writers' = Writers \cup {t} /\ Readers' = Readers
        BY <2>1, <3>3 DEF Readers, Writers, TypeOK
      <4> QED
        BY <1>1, <2>1, <3>1, <3>3, <4>1, CountThreads
           DEF CountersOK, Take, One, TypeOK
    <3> QED
      BY <3>2, <3>3
  <2>5. Queued' = Queued
    BY <2>1 DEF Queued, TypeOK
  <2>6. RingOK'
    <3>1. \A u \in Queued : mode'[u] = mode[u]
      BY DEF Queued
    <3> QED
      BY <2>1, <2>5, <3>1 DEF RingOK, Count, Dist, TypeOK
  <2>7. SignalOK' /\ ExclusionOK'
    BY <1>2, <2>1 DEF SignalOK, ExclusionOK, MustQueue, Take, One, TypeOK
  <2>8. WakeOK'
    BY <2>1, <2>2 DEF WakeOK, Count
  <2> QED
    BY <2>3, <2>4, <2>6, <2>7, <2>8
<1>3. CASE MustQueue(r)
  <2>1. /\ index' = [index EXCEPT ![t] = tail]
        /\ array' = [array EXCEPT ![tail] = [is_reader |-> r,
                                             is_signaled |-> FALSE]]
        /\ tail' = Succ(tail)
        /\ reader_waiting' = reader_waiting + One(r)
        /\ writer_waiting' = writer_waiting + One(~r)
        /\ pc' = [pc EXCEPT ![t] = "queued"]
        /\ UNCHANGED <<reader_active, writer_active>>
    BY <1>3 DEF Enter
  <2>2. Count' = Count + 1 /\ reader_waiting' \in Nat /\ writer_waiting' \in Nat
    BY <2>1 DEF Count, One, TypeOK
  <2>2a. Count' \in Nat /\ Count' <= L
    BY <1>0, <2>2
  <2>3. TypeOK'
    <3>1. pc' \in [Threads -> Places]
      BY <2>1 DEF TypeOK, Places
    <3>2. tail' \in Slots
      BY <2>1, LengthAssumption DEF Succ, Slots, TypeOK
    <3>3. index' \in [Threads -> Slots]
      BY <2>1 DEF TypeOK
    <3>4. array' \in [Slots -> [is_reader : BOOLEAN, is_signaled : BOOLEAN]]
      BY <2>1 DEF TypeOK
    <3> QED
      BY <2>1, <2>2, <3>1, <3>2, <3>3, <3>4, <1>1 DEF TypeOK
  <2>4. CountersOK'
    <3>1. /\ Readers' = Readers /\ Writers' = Writers
          /\ QueuedReaders \in SUBSET Threads /\ QueuedWriters \in SUBSET Threads
          /\ t \notin QueuedReaders /\ t \notin QueuedWriters
      BY <2>1 DEF QueuedReaders, QueuedWriters, Readers, Writers, TypeOK
    <3>2. CASE r
      <4>1. /\ QueuedReaders' = QueuedReaders \cup {t}
            /\ QueuedWriters' = QueuedWriters
        BY <2>1, <3>2 DEF QueuedReaders, QueuedWriters, TypeOK
      <4> QED
        BY <1>1, <2>1, <3>1, <3>2, <4>1, CountThreads
           DEF CountersOK, One, TypeOK
    <3>3. CASE ~r
      <4>1. /\ QueuedWriters' = QueuedWriters \cup {t}
            /\ QueuedReaders' = QueuedReaders
        BY <2>1, <3>3 DEF QueuedReaders, QueuedWriters, TypeOK
      <4> QED
        BY <1>1, <2>1, <3>1, <3>3, <4>1, CountThreads
           DEF CountersOK, One, TypeOK
    <3> QED
      BY <3>2, <3>3
  <2>5. Queued' = Queued \cup {t} /\ t \notin Queued
    BY <2>1 DEF Queued, TypeOK
  <2>6. Dist(tail) = Count
    BY <1>0, LengthAssumption DEF RingOK, Dist, TypeOK, Slots, L, Count
  <2>7. \A i \in Slots : Dist(i)' = Dist(i) /\ Dist(i) \in Nat
    BY LengthAssumption DEF Dist, TypeOK, Slots
  <2>8. \A i \in Slots : Dist(i) = Count => i = tail
    BY <2>6, LengthAssumption DEF Dist, TypeOK, Slots, Count
  <2>9. RingOK'
    <3>1. (Count <= L)'
      BY <2>2a DEF L
    <3>2. (tail = IF head + Count >= L THEN head + Count - L ELSE head + Count)'
      <4>1. /\ head \in Nat /\ head < L /\ head' = head
            /\ tail' = IF tail + 1 = L THEN 0 ELSE tail + 1
        BY <2>1, LengthAssumption DEF Succ, L, TypeOK, Slots
      <4>2. tail = IF head + Count >= L THEN head + Count - L ELSE head + Count
        BY DEF RingOK
      <4>3. tail' = IF head + Count' >= L THEN head + Count' - L
                                          ELSE head + Count'
        BY <1>0, <2>2, <4>1, <4>2
      <4> QED
        BY <4>1, <4>3 DEF L
    <3>3. ASSUME NEW u \in Queued'
          PROVE  Dist(index[u])' < Count' /\ array'[index'[u]].is_reader = mode'[u]
      <4>1. CASE u = t
        BY <2>1, <2>2, <2>6, <2>7, <4>1 DEF TypeOK, Count
      <4>2. CASE u # t
        <5>1. u \in Queued /\ index'[u] = index[u] /\ mode'[u] = mode[u]
          BY <2>1, <2>5, <4>2 DEF TypeOK, Queued
        <5>2. index[u] # tail
          BY <5>1, <2>6 DEF RingOK, TypeOK, Count
        <5>3. index[u] \in Slots /\ Dist(index[u]) < Count
          BY <5>1 DEF RingOK, TypeOK, Queued
        <5>4. Dist(index[u])' < Count'
          BY <1>0, <2>2, <2>7, <5>1, <5>3 DEF Dist
        <5>5. array'[index'[u]] = array[index[u]]
          BY <2>1, <5>1, <5>2, <5>3 DEF TypeOK
        <5> QED
          BY <5>1, <5>4, <5>5 DEF RingOK
      <4> QED
        BY <4>1, <4>2
    <3>4. ASSUME NEW u \in Queued', NEW v \in Queued', index'[u] = index'[v]
          PROVE  u = v
      <4>1. \A w \in Queued : index'[w] = index[w] /\ index[w] # tail
        BY <2>1, <2>5, <2>6 DEF RingOK, TypeOK, Count, Queued
      <4>2. index'[t] = tail
        BY <2>1 DEF TypeOK
      <4> QED
        BY <3>4, <4>1, <4>2, <2>5 DEF RingOK
    <3>5. ASSUME NEW i \in Slots, Dist(i)' < Count'
          PROVE  \E u \in Queued' : index'[u] = i
      <4>1. CASE i = tail
        BY <4>1, <2>1, <2>5 DEF TypeOK
      <4>2. CASE i # tail
        <5>1. Dist(i) < Count
          BY <4>2, <3>5, <2>2, <2>7, <2>8, <1>0
        <5>2. PICK u \in Queued : index[u] = i
          BY <5>1 DEF RingOK
        <5>3. index'[u] = i
          BY <5>2, <2>1, <2>5 DEF TypeOK, Queued
        <5> QED
          BY <5>3, <2>5
      <4> QED
        BY <4>1, <4>2
    <3>6. ASSUME NEW i \in Slots, Dist(i)' >= Count'
          PROVE  array'[i] = EmptySlot
      <4>1. Dist(i) >= Count /\ i # tail
        BY <3>6, <2>2, <2>6, <2>7, <1>0
      <4> QED
        BY <4>1, <2>1 DEF RingOK, TypeOK
    <3> QED
      BY <3>1, <3>2, <3>3, <3>4, <3>5, <3>6 DEF RingOK
  <2>10. tail = head => Count = 0
    BY <2>6, LengthAssumption DEF Dist, TypeOK, Slots, Count
  <2>11. array[tail] = EmptySlot
    BY <2>6 DEF RingOK, TypeOK, Count
  <2>12. SignalOK'
    BY <2>1, <2>10, <2>11 DEF SignalOK, EmptySlot, TypeOK
  <2>13. ExclusionOK'
    BY <2>1 DEF ExclusionOK
  <2>14. WakeOK'
    <3>1. CASE tail = head
      <4>1. array'[head'].is_reader = r
        BY <2>1, <3>1 DEF TypeOK
      <4>2. reader_waiting = 0 /\ writer_waiting = 0
        BY <3>1, <2>10 DEF Count, TypeOK
      <4> QED
        BY <1>3, <2>1, <4>1, <4>2 DEF WakeOK, MustQueue, TypeOK
    <3>2. CASE tail # head
      <4>1. Count > 0
        BY <3>2, <1>0, LengthAssumption DEF RingOK, Count, TypeOK, Slots, L
      <4>2. array'[head'] = array[head]
        BY <2>1, <3>2 DEF TypeOK
      <4> QED
        BY <2>1, <4>1, <4>2 DEF WakeOK
    <3> QED
      BY <3>1, <3>2
  <2> QED
    BY <2>3, <2>4, <2>9, <2>12, <2>13, <2>14
<1> QED
  BY <1>2, <1>3

-----------------------------------------------------------------------------
\* The signaled thread leaves the ring with the lock.
LEMMA ReturnFromQueuePreserves ==
  ASSUME IInv, NEW t \in Threads, ReturnFromQueue(t)
  PROVE  IInv'
<1> USE DEF IInv
<1>1. /\ t \in Queued /\ index[t] = head /\ signaled = 1 /\ writer_active = 0
      /\ array[head].is_reader = mode[t] /\ mode[t] \in BOOLEAN
      /\ mode[t] \/ reader_active = 0
  BY DEF ReturnFromQueue, Queued, SignalOK, RingOK, TypeOK
<1>2. /\ Count > 0 /\ Count \in Nat /\ L \in Nat \ {0} /\ Count <= L
      /\ ~mode[t] => writer_waiting > 0
      /\ mode[t] => reader_waiting > 0
  BY <1>1, QueuedMeansCount, LengthAssumption DEF Count, TypeOK, L, RingOK
<1>3. /\ reader_waiting' = reader_waiting - One(mode[t])
      /\ writer_waiting' = writer_waiting - One(~mode[t])
      /\ head' = Succ(head)
      /\ signaled' = One(ChainReaders)
      /\ Take(mode[t])
      /\ TakeAndSignalOutside(t)
      /\ UNCHANGED <<tail, waiting, mode>>
      /\ index' = [index EXCEPT ![t] = 0]
  BY <1>1 DEF ReturnFromQueue, One
<1>4. ChainReaders \in BOOLEAN
  BY DEF ChainReaders
<1>5. /\ reader_waiting' \in Nat /\ writer_waiting' \in Nat
      /\ Count' = Count - 1 /\ Count' \in Nat
      /\ reader_active' \in Nat /\ writer_active' \in Nat
  BY <1>1, <1>2, <1>3 DEF One, Count, Take, TypeOK
<1>6. head' \in Slots /\ head \in Slots
  BY <1>3, LengthAssumption DEF Succ, Slots, TypeOK
<1>7. PICK P \in SUBSET Threads :
        /\ P \subseteq Outside
        /\ \A u \in Threads : pc'[u] = IF u = t THEN "holds"
                                       ELSE IF u \in P THEN "woken" ELSE pc[u]
        /\ pc' \in [Threads -> Places]
  <2>1. CASE waiting > 0 /\ Outside # {}
    <3>1. PICK u \in Outside : pc' = [pc EXCEPT ![t] = "holds", ![u] = "woken"]
      BY <1>3, <2>1 DEF TakeAndSignalOutside
    <3>2. u # t /\ u \in Threads
      BY <1>1, <3>1 DEF Outside, Queued
    <3>3. /\ \A v \in Threads : pc'[v] = IF v = t THEN "holds"
                                     ELSE IF v \in {u} THEN "woken" ELSE pc[v]
          /\ pc' \in [Threads -> Places]
      BY <3>1, <3>2 DEF TypeOK, Places
    <3> USE <3>2
    <3> WITNESS {u} \in SUBSET Threads
    <3> QED
      BY <3>1, <3>3
  <2>2. CASE ~(waiting > 0 /\ Outside # {})
    <3>1. pc' = [pc EXCEPT ![t] = "holds"]
      BY <1>3, <2>2 DEF TakeAndSignalOutside
    <3>2. /\ \A v \in Threads : pc'[v] = IF v = t THEN "holds"
                                     ELSE IF v \in {} THEN "woken" ELSE pc[v]
          /\ pc' \in [Threads -> Places]
      BY <3>1 DEF TypeOK, Places
    <3> WITNESS {} \in SUBSET Threads
    <3> QED
      BY <3>2
  <2> QED
    BY <2>1, <2>2
<1>8. /\ WaitingOutside' = WaitingOutside
      /\ Queued' = Queued \ {t}
  BY <1>1, <1>7 DEF WaitingOutside, Queued, Outside
<1>9. /\ array' \in [Slots -> [is_reader : BOOLEAN, is_signaled : BOOLEAN]]
      /\ array'[head] = EmptySlot
      /\ \A i \in Slots \ {head} :
           /\ array'[i].is_reader = array[i].is_reader
           /\ array'[i].is_signaled <=> (i = head' /\ ChainReaders)
  <2>1. array' = [[array EXCEPT ![head'].is_signaled =
                                   IF ChainReaders THEN TRUE ELSE @]
                         EXCEPT ![head] = EmptySlot]
    BY <1>3 DEF ReturnFromQueue
  <2>2. EmptySlot \in [is_reader : BOOLEAN, is_signaled : BOOLEAN]
    BY DEF EmptySlot
  <2>3. \A i \in Slots \ {head} : ~array[i].is_signaled
    BY DEF SignalOK
  <2>4. CASE ChainReaders
    <3>1. array' = [[array EXCEPT ![head'].is_signaled = TRUE]
                           EXCEPT ![head] = EmptySlot]
      BY <2>1, <2>4
    <3> QED
      BY <1>6, <2>2, <2>3, <2>4, <3>1 DEF TypeOK
  <2>5. CASE ~ChainReaders
    <3>1. array' = [array EXCEPT ![head] = EmptySlot]
      BY <2>1, <2>5, <1>6 DEF TypeOK
    <3> QED
      BY <1>6, <2>2, <2>3, <2>5, <3>1 DEF TypeOK
  <2> QED
    BY <2>4, <2>5
<1>10. TypeOK'
  <2>2. signaled' \in {0, 1}
    BY <1>3 DEF One
  <2>3. index' \in [Threads -> Slots]
    BY <1>3, LengthAssumption DEF TypeOK, Slots
  <2> QED
    BY <2>2, <2>3, <1>3, <1>5, <1>6, <1>7, <1>9 DEF TypeOK
<1>11. CountersOK'
  <2>1. /\ Readers \in SUBSET Threads /\ Writers \in SUBSET Threads
        /\ QueuedReaders \in SUBSET Threads /\ QueuedWriters \in SUBSET Threads
        /\ t \notin Readers /\ t \notin Writers
    BY <1>1 DEF Readers, Writers, QueuedReaders, QueuedWriters, Queued
  <2>2. CASE mode[t]
    <3>1. /\ Readers' = Readers \cup {t} /\ Writers' = Writers
          /\ QueuedReaders' = QueuedReaders \ {t} /\ t \in QueuedReaders
          /\ QueuedWriters' = QueuedWriters
      BY <1>1, <1>3, <1>7, <2>2
         DEF Readers, Writers, QueuedReaders, QueuedWriters, Queued, Outside
    <3> QED
      BY <1>3, <1>8, <2>1, <2>2, <3>1, CountThreads
         DEF CountersOK, Take, One, TypeOK
  <2>3. CASE ~mode[t]
    <3>1. /\ Writers' = Writers \cup {t} /\ Readers' = Readers
          /\ QueuedWriters' = QueuedWriters \ {t} /\ t \in QueuedWriters
          /\ QueuedReaders' = QueuedReaders
      BY <1>1, <1>3, <1>7, <2>3
         DEF Readers, Writers, QueuedReaders, QueuedWriters, Queued, Outside
    <3> QED
      BY <1>3, <1>8, <2>1, <2>3, <3>1, CountThreads
         DEF CountersOK, Take, One, TypeOK
  <2> QED
    BY <1>1, <2>2, <2>3
<1>12. \A i \in Slots : /\ Dist(i) \in Nat /\ Dist(i) < L
                        /\ i # head => Dist(i)' = Dist(i) - 1 /\ Dist(i) > 0
                        /\ i = head => Dist(i)' = L - 1 /\ Dist(i) = 0
  BY <1>3, <1>6, LengthAssumption DEF Dist, Succ, Slots, L
<1>13. \A u \in Queued' : /\ u \in Queued /\ index'[u] = index[u]
                          /\ index[u] # head /\ index[u] \in Slots
                          /\ mode'[u] = mode[u]
  BY <1>1, <1>3, <1>8 DEF RingOK, TypeOK, Queued
<1>14. RingOK'
  <2>1. (Count <= L)'
    BY <1>2, <1>5 DEF L
  <2>2. (tail = IF head + Count >= L THEN head + Count - L ELSE head + Count)'
    <3>1. /\ head \in Nat /\ head < L
          /\ head' = IF head + 1 = L THEN 0 ELSE head + 1
          /\ tail' = IF head + Count >= L THEN head + Count - L ELSE head + Count
      BY <1>3, <1>6, LengthAssumption DEF Succ, L, Slots, RingOK
    <3>2. tail' = IF head' + Count' >= L THEN head' + Count' - L
                                         ELSE head' + Count'
      BY <1>2, <1>5, <3>1
    <3> QED
      BY <3>2 DEF L
  <2>3. ASSUME NEW u \in Queued'
        PROVE  Dist(index[u])' < Count' /\ array'[index'[u]].is_reader = mode'[u]
    <3>1. Dist(index[u]) < Count /\ array[index[u]].is_reader = mode[u]
      BY <1>13, <2>3 DEF RingOK
    <3>2. Dist(index[u])' < Count'
      BY <1>2, <1>5, <1>12, <1>13, <2>3, <3>1 DEF Dist
    <3>3. array'[index'[u]].is_reader = mode'[u]
      BY <1>9, <1>13, <3>1
    <3> QED
      BY <3>2, <3>3
  <2>4. \A u, v \in Queued' : index'[u] = index'[v] => u = v
    BY <1>13 DEF RingOK
  <2>5. ASSUME NEW i \in Slots, Dist(i)' < Count'
        PROVE  \E u \in Queued' : index'[u] = i
    <3>1. i # head /\ Dist(i) < Count
      BY <1>2, <1>5, <1>12, <2>5
    <3>2. PICK u \in Queued : index[u] = i
      BY <3>1 DEF RingOK
    <3>3. u \in Queued'
      BY <1>1, <1>8, <3>1, <3>2
    <3> QED
      BY <1>13, <3>2, <3>3
  <2>6. ASSUME NEW i \in Slots, Dist(i)' >= Count'
        PROVE  array'[i] = EmptySlot
    <3>1. CASE i = head
      BY <1>9, <3>1
    <3>2. CASE i # head
      <4>1. array[i] = EmptySlot
        BY <1>2, <1>5, <1>12, <2>6, <3>2 DEF RingOK
      <4>2. ~(i = head' /\ ChainReaders)
        BY <1>3, <4>1 DEF ChainReaders, EmptySlot
      <4>3. array'[i].is_reader = FALSE /\ array'[i].is_signaled = FALSE
        BY <1>9, <3>2, <4>1, <4>2 DEF EmptySlot
      <4>4. array'[i] \in [is_reader : BOOLEAN, is_signaled : BOOLEAN]
        BY <1>9
      <4> QED
        BY <4>3, <4>4 DEF EmptySlot
    <3> QED
      BY <3>1, <3>2
  <2> QED
    BY <2>1, <2>2, <2>3, <2>4, <2>5, <2>6 DEF RingOK, Slots
<1>15. ChainReaders => mode[t] /\ head' # head /\ array'[head'].is_reader
  <2>1. SUFFICES ASSUME ChainReaders
                 PROVE  mode[t] /\ head' # head /\ array'[head'].is_reader
    OBVIOUS
  <2>2. mode[t] /\ reader_waiting' > 0 /\ array[head'].is_reader
    BY <1>1, <1>3, <2>1 DEF ChainReaders
  <2>3. Count > 1
    <3>1. reader_waiting' > 0
      BY <2>2
    <3>2. \A m, n \in Nat : m > 0 => m + n > 0
      OBVIOUS
    <3>3. Count' > 0
      BY <1>5, <3>1, <3>2 DEF Count
    <3> QED
      BY <1>2, <1>5, <3>3
  <2>4. head' # head
    BY <1>2, <1>3, <1>6, <2>3 DEF Succ, L, Slots
  <2>5. array'[head'].is_reader = array[head'].is_reader
    BY <1>6, <1>9, <2>4
  <2> QED
    BY <2>2, <2>4, <2>5
<1>16. SignalOK'
  <2>1. \A i \in Slots : array'[i].is_signaled <=> (signaled' = 1 /\ i = head')
    <3>1. signaled' = 1 <=> ChainReaders
      BY <1>3 DEF One
    <3>2. array'[head].is_signaled = FALSE
      BY <1>9 DEF EmptySlot
    <3>3. ChainReaders => head' # head
      BY <1>15
    <3>4. TAKE i \in Slots
    <3>5. CASE i = head
      BY <3>1, <3>2, <3>3, <3>5
    <3>6. CASE i # head
      BY <1>9, <3>1, <3>6
    <3> QED
      BY <3>5, <3>6
  <2>2. signaled' = 1 => ChainReaders
    BY <1>3 DEF One
  <2>3. signaled' = 1 => writer_active' = 0 /\ array'[head'].is_reader
    BY <1>1, <1>3, <1>15, <2>2 DEF Take, One, TypeOK
  <2> QED
    BY <2>1, <2>3 DEF SignalOK
<1>17. ExclusionOK'
  BY <1>1, <1>3 DEF ExclusionOK, Take, One, TypeOK
<1>18. WakeOK'
  <2>1. SUFFICES ASSUME Count' > 0, writer_active' = 0, signaled' # 1
                 PROVE  reader_active' > 0 /\ ~array'[head'].is_reader
    BY <1>5 DEF WakeOK
  <2>2. mode[t] /\ reader_active' > 0
    BY <1>1, <1>3, <2>1 DEF Take, One, TypeOK
  <2>3. ~ChainReaders
    BY <1>3, <2>1 DEF One
  <2>4. PICK u \in Queued' : index'[u] = head'
    <3>1. head' \in Nat /\ head' \in Slots
      BY <1>6, LengthAssumption DEF Slots
    <3>2. ASSUME NEW i \in Slots, i = head'
          PROVE  Dist(i)' = 0
      <4>1. i \in Nat
        BY <3>1, <3>2
      <4>2. \A m \in Nat : m >= m /\ m - m = 0
        OBVIOUS
      <4>3. i >= head' /\ i - head' = 0
        BY <3>2, <4>1, <4>2, Zenon
      <4> QED
        BY <4>3 DEF Dist
    <3>3. Count' > 0
      BY <2>1
    <3> QED
      BY <1>14, <3>1, <3>2, <3>3 DEF RingOK
  <2>5. array'[head'].is_reader = mode'[u]
    BY <1>14, <2>4 DEF RingOK
  <2>6. mode'[u] => reader_waiting' > 0
    <3>1. QueuedReaders' \in SUBSET Threads
      BY DEF QueuedReaders
    <3>2. mode'[u] => u \in QueuedReaders'
      BY <2>4 DEF QueuedReaders, Queued
    <3>3. reader_waiting' = Cardinality(QueuedReaders')
      BY <1>11 DEF CountersOK
    <3> QED
      BY <3>1, <3>2, <3>3, CountThreads
  <2>7. head' # head
    BY <1>13, <2>4
  <2>8. array[head'].is_reader = array'[head'].is_reader
    BY <1>6, <1>9, <2>7
  <2>9. mode'[u] \in BOOLEAN
    BY <1>10, <2>4 DEF TypeOK, Queued
  <2> QED
    BY <1>1, <1>3, <2>2, <2>3, <2>5, <2>6, <2>8, <2>9 DEF ChainReaders
<1> QED
  BY <1>10, <1>11, <1>14, <1>16, <1>17, <1>18

-----------------------------------------------------------------------------
\* A holder releases the lock, and may wake the head of the ring.
LEMMA UnlockPreserves ==
  ASSUME IInv, NEW t \in Threads, Unlock(t)
  PROVE  IInv'
<1> USE DEF IInv
<1>1. /\ pc[t] = "holds" /\ mode[t] \in BOOLEAN
      /\ pc' = [pc EXCEPT ![t] = "idle"]
      /\ reader_active' = reader_active - One(mode[t])
      /\ writer_active' = writer_active - One(~mode[t])
      /\ mode' = [mode EXCEPT ![t] = FALSE]
      /\ UNCHANGED <<head, tail, reader_waiting, writer_waiting, waiting, index>>
  BY DEF Unlock, TypeOK
<1>2. /\ Readers \in SUBSET Threads /\ Writers \in SUBSET Threads
      /\ Readers' \in SUBSET Threads /\ Writers' \in SUBSET Threads
      /\ QueuedReaders' = QueuedReaders /\ QueuedWriters' = QueuedWriters
      /\ WaitingOutside' = WaitingOutside /\ Queued' = Queued
      /\ \A u \in Queued : mode'[u] = mode[u]
  BY <1>1 DEF Readers, Writers, QueuedReaders, QueuedWriters, WaitingOutside,
              Queued, TypeOK
<1>3. /\ reader_active' = Cardinality(Readers') /\ reader_active' \in Nat
      /\ writer_active' = Cardinality(Writers') /\ writer_active' \in Nat
  <2>1. CASE mode[t]
    <3>1. Readers' = Readers \ {t} /\ t \in Readers /\ Writers' = Writers
      BY <1>1, <2>1 DEF Readers, Writers, TypeOK
    <3> QED
      BY <1>1, <1>2, <2>1, <3>1, CountThreads DEF CountersOK, One
  <2>2. CASE ~mode[t]
    <3>1. Writers' = Writers \ {t} /\ t \in Writers /\ Readers' = Readers
      BY <1>1, <2>2 DEF Readers, Writers, TypeOK
    <3> QED
      BY <1>1, <1>2, <2>2, <3>1, CountThreads DEF CountersOK, One
  <2> QED
    BY <1>1, <2>1, <2>2
<1>4. CountersOK'
  BY <1>1, <1>2, <1>3 DEF CountersOK
<1>5. reader_active' <= reader_active /\ writer_active' <= writer_active
  BY <1>1 DEF One, TypeOK
<1>6. head \in Slots /\ Count \in Nat /\ Count' = Count
  BY <1>1 DEF TypeOK, Count
<1>7. CASE WakeHead
  <2>1. /\ array' = [array EXCEPT ![head].is_signaled = TRUE]
        /\ signaled' = signaled + 1
        /\ reader_active' + writer_active' + signaled = 0
        /\ reader_waiting + writer_waiting > 0
    BY <1>7 DEF Unlock, WakeHead
  <2>2. signaled = 0 /\ reader_active' = 0 /\ writer_active' = 0 /\ signaled' = 1
    BY <1>3, <2>1 DEF TypeOK
  <2>3. TypeOK'
    <3>1. pc' \in [Threads -> Places]
      BY <1>1 DEF TypeOK, Places
    <3>2. array' \in [Slots -> [is_reader : BOOLEAN, is_signaled : BOOLEAN]]
      BY <2>1 DEF TypeOK
    <3>3. mode' \in [Threads -> BOOLEAN]
      BY <1>1 DEF TypeOK
    <3> QED
      BY <1>1, <1>3, <2>2, <3>1, <3>2, <3>3 DEF TypeOK
  <2>4. \A i \in Slots : /\ array'[i].is_reader = array[i].is_reader
                         /\ i # head => array'[i] = array[i]
                         /\ array'[i].is_signaled <=> i = head
    BY <1>6, <2>1, <2>2 DEF TypeOK, SignalOK
  <2>5. RingOK'
    <3>1. \A i \in Slots : Dist(i)' = Dist(i)
      BY <1>1 DEF Dist
    <3>2. Dist(head) < Count
      BY <1>6, <2>1, LengthAssumption DEF Dist, Slots, Count
    <3>3. \A u \in Queued' : /\ Dist(index[u])' < Count'
                             /\ array'[index'[u]].is_reader = mode'[u]
      <4>1. TAKE u \in Queued'
      <4>2. /\ u \in Queued /\ index'[u] = index[u] /\ index[u] \in Slots
            /\ mode'[u] = mode[u]
        BY <1>1, <1>2 DEF TypeOK, Queued
      <4>3. Dist(index[u])' = Dist(index[u])
        BY <1>1 DEF Dist
      <4> QED
        BY <1>6, <2>4, <4>2, <4>3 DEF RingOK
    <3>4. \A i \in Slots : Dist(i)' >= Count' => array'[i] = EmptySlot
      <4>1. TAKE i \in Slots
      <4>2. CASE i = head
        <5>1. ~(Dist(head) >= Count)
          BY <1>6, <3>2, LengthAssumption DEF Dist, Slots
        <5> QED
          BY <1>6, <3>1, <4>2, <5>1
      <4>3. CASE i # head
        BY <1>6, <2>4, <3>1, <4>3 DEF RingOK
      <4> QED
        BY <4>2, <4>3
    <3> QED
      BY <1>1, <1>2, <1>6, <3>1, <3>3, <3>4 DEF RingOK, Count
  <2>6. SignalOK'
    BY <1>1, <2>2, <2>4 DEF SignalOK
  <2>7. ExclusionOK' /\ WakeOK'
    BY <2>2 DEF ExclusionOK, WakeOK
  <2> QED
    BY <1>4, <2>3, <2>5, <2>6, <2>7
<1>8. CASE ~WakeHead
  <2>1. array' = array /\ signaled' = signaled
    BY <1>8 DEF Unlock
  <2>2. TypeOK'
    <3>1. pc' \in [Threads -> Places]
      BY <1>1 DEF TypeOK, Places
    <3>2. mode' \in [Threads -> BOOLEAN]
      BY <1>1 DEF TypeOK
    <3> QED
      BY <1>1, <1>3, <2>1, <3>1, <3>2 DEF TypeOK
  <2>3. RingOK'
    BY <1>1, <1>2, <2>1 DEF RingOK, Count, Dist
  <2>4. SignalOK' /\ ExclusionOK'
    BY <1>1, <1>3, <1>5, <2>1 DEF SignalOK, ExclusionOK, TypeOK
  <2>5. WakeOK'
    <3>1. SUFFICES ASSUME Count > 0, writer_active' = 0, signaled = 0
                   PROVE  reader_active' > 0 /\ ~array[head].is_reader
      BY <1>1, <1>3, <1>6, <2>1 DEF WakeOK, TypeOK
    <3>2. reader_active' > 0
      BY <1>3, <1>8, <3>1 DEF WakeHead, Count
    <3>3. writer_active = 0
      BY <1>3, <1>5, <3>2 DEF ExclusionOK, TypeOK
    <3> QED
      BY <3>1, <3>2, <3>3 DEF WakeOK
  <2> QED
    BY <1>4, <2>2, <2>3, <2>4, <2>5
<1> QED
  BY <1>7, <1>8

-----------------------------------------------------------------------------
\* Every step of the lock keeps the inductive invariant.
LEMMA Inductive == IInv /\ [Next]_vars => IInv'
<1> SUFFICES ASSUME IInv, [Next]_vars PROVE IInv'
  OBVIOUS
<1>1. ASSUME NEW t \in Threads, NEW r \in BOOLEAN, Lock(t, r) PROVE IInv'
  <2>1. /\ pc[t] = "idle" /\ mode' = [mode EXCEPT ![t] = r]
        /\ UNCHANGED <<head, signaled>>
    BY <1>1 DEF Lock
  <2>2. /\ mode' \in [Threads -> BOOLEAN] /\ mode'[t] = r
        /\ \A u \in Threads \ {t} : mode'[u] = mode[u]
    BY <2>1 DEF IInv, TypeOK
  <2>3. CASE Full
    <3>1. /\ waiting' = waiting + One(pc[t] = "idle")
          /\ pc' = [pc EXCEPT ![t] = "outside"]
          /\ UNCHANGED <<array, tail, reader_active, writer_active,
                         reader_waiting, writer_waiting, index>>
      BY <1>1, <2>1, <2>3 DEF Lock, One
    <3> QED
      BY <2>1, <2>2, <3>1, MoveOutside
  <2>4. CASE ~Full
    <3>1. Enter(t, r) /\ waiting' = waiting - One(pc[t] = "woken")
      BY <1>1, <2>1, <2>4 DEF Lock, One, IInv, TypeOK
    <3> QED
      BY <2>1, <2>2, <2>4, <3>1, EnterPreserves
  <2> QED
    BY <2>3, <2>4
<1>2. ASSUME NEW t \in Threads, ReturnFromOutside(t) PROVE IInv'
  <2>1. /\ pc[t] = "woken" /\ mode' = mode /\ mode[t] \in BOOLEAN
        /\ UNCHANGED <<head, signaled>> /\ mode' \in [Threads -> BOOLEAN]
    BY <1>2 DEF ReturnFromOutside, IInv, TypeOK
  <2>2. CASE Full
    <3>1. /\ waiting' = waiting + One(pc[t] = "idle")
          /\ pc' = [pc EXCEPT ![t] = "outside"]
          /\ UNCHANGED <<array, tail, reader_active, writer_active,
                         reader_waiting, writer_waiting, index>>
      BY <1>2, <2>1, <2>2 DEF ReturnFromOutside, One, IInv, TypeOK
    <3> QED
      BY <2>1, <3>1, MoveOutside
  <2>3. CASE ~Full
    <3>1. Enter(t, mode[t]) /\ waiting' = waiting - One(pc[t] = "woken")
      BY <1>2, <2>1, <2>3 DEF ReturnFromOutside, One
    <3> QED
      BY <2>1, <2>3, <3>1, EnterPreserves
  <2> QED
    BY <2>2, <2>3
<1>3. ASSUME NEW t \in Threads, SpuriousWakeup(t) PROVE IInv'
  <2>1. /\ pc[t] = "outside" /\ pc' = [pc EXCEPT ![t] = "woken"]
        /\ UNCHANGED <<lockVars, mode, index>>
    BY <1>3 DEF SpuriousWakeup
  <2>2. waiting' = waiting + One(pc[t] = "idle") /\ mode' \in [Threads -> BOOLEAN]
    BY <2>1 DEF One, lockVars, IInv, TypeOK
  <2> QED
    BY <2>1, <2>2, MoveOutside DEF lockVars
<1>4. ASSUME UNCHANGED vars PROVE IInv'
  <2> USE <1>4 DEF vars, lockVars
  <2>1. TypeOK'
    BY DEF IInv, TypeOK
  <2>2. CountersOK'
    BY DEF IInv, CountersOK, Readers, Writers, QueuedReaders, QueuedWriters,
           WaitingOutside
  <2>3. RingOK'
    BY DEF IInv, RingOK, Count, Queued, Dist
  <2>4. SignalOK' /\ ExclusionOK' /\ WakeOK'
    BY DEF IInv, SignalOK, ExclusionOK, WakeOK, Count
  <2> QED
    BY <2>1, <2>2, <2>3, <2>4 DEF IInv
<1> QED
  BY <1>1, <1>2, <1>3, <1>4, ReturnFromQueuePreserves, UnlockPreserves DEF Next

THEOREM Invariance == Spec => []IInv
<1> QED
  BY Initially, Inductive, PTL DEF Spec

-----------------------------------------------------------------------------
\* The counters stay natural numbers and the indices stay in the ring: no
\* sge_fifo_ulock underflows reader_active or writer_active, and signaled is
\* never above one.
THEOREM TypeCorrect == Spec => []TypeOK
<1>1. IInv => TypeOK
  BY DEF IInv
<1> QED
  BY <1>1, Invariance, PTL

\* Two threads hold the lock together only if both are readers.
THEOREM Exclusion == Spec => []MutualExclusion
<1>1. IInv => MutualExclusion
  <2>1. SUFFICES ASSUME IInv, NEW t \in Writers
                 PROVE  Readers = {} /\ Writers = {t}
    BY DEF MutualExclusion
  <2>2. Readers \in SUBSET Threads /\ Writers \in SUBSET Threads
    BY DEF Readers, Writers
  <2>3. Cardinality(Writers) # 0
    BY <2>1, <2>2, CountThreads
  <2>4. Cardinality(Writers) = 1 /\ Cardinality(Readers) = 0
    BY <2>1, <2>3 DEF IInv, CountersOK, ExclusionOK
  <2>5. Writers \ {t} \in SUBSET Threads /\ Cardinality(Writers \ {t}) = 0
    BY <2>1, <2>2, <2>4, CountThreads
  <2>6. Readers = {} /\ Writers \ {t} = {}
    BY <2>2, <2>4, <2>5, CountThreads
  <2> QED
    BY <2>1, <2>6
<1> QED
  BY <1>1, Invariance, PTL

\* While a thread is queued, somebody holds the lock or the thread at the head
\* has been signaled.
THEOREM NoLostWakeup == Spec => []NoLostWakeupInRing
<1>1. IInv => NoLostWakeupInRing
  <2>1. SUFFICES ASSUME IInv, Queued # {}, Readers \cup Writers = {}
                 PROVE  \E t \in Queued : array[index[t]].is_signaled
    BY DEF NoLostWakeupInRing
  <2>2. Count > 0
    BY <2>1, QueuedMeansCount
  <2>3. reader_active = 0 /\ writer_active = 0
    <3>1. Readers = {} /\ Writers = {}
      BY <2>1
    <3> QED
      BY <2>1, <3>1, FS_EmptySet DEF IInv, CountersOK
  <2>4. signaled = 1
    BY <2>1, <2>2, <2>3 DEF IInv, WakeOK
  <2>5. PICK t \in Queued : index[t] = head
    BY <2>1, <2>2, QueuedMeansCount
  <2> QED
    BY <2>1, <2>4, <2>5 DEF IInv, SignalOK, TypeOK
<1> QED
  BY <1>1, Invariance, PTL

\* The lock is granted in the order in which threads entered the ring, and an
\* arriving thread never overtakes the ring.
THEOREM ServedInOrder == Spec => FirstComeFirstServed
<1> DEFINE InOrder ==
      \A t, u \in Threads :
         /\ pc[t] = "queued" /\ pc'[t] = "queued"
         /\ pc[u] # "holds" /\ pc'[u] = "holds"
         => pc[u] = "queued" /\ Dist(index[u]) < Dist(index[t])
<1>1. ASSUME IInv, Next PROVE InOrder
  <2> SUFFICES ASSUME NEW t \in Threads, NEW u \in Threads,
                      pc[t] = "queued", pc'[t] = "queued",
                      pc[u] # "holds", pc'[u] = "holds"
               PROVE  pc[u] = "queued" /\ Dist(index[u]) < Dist(index[t])
    OBVIOUS
  <2>1. t \in Queued /\ Count > 0
    BY <1>1, QueuedMeansCount DEF Queued
  <2>2. PICK w \in Threads :
          \/ \E r \in BOOLEAN : Lock(w, r)
          \/ ReturnFromOutside(w) \/ SpuriousWakeup(w)
          \/ ReturnFromQueue(w) \/ Unlock(w)
    BY <1>1 DEF Next
  <2>3. ASSUME NEW v \in Threads, NEW r \in BOOLEAN, Enter(v, r) PROVE FALSE
    <3>1. MustQueue(r)
      BY <1>1, <2>1, DirectMeansEmptyRing DEF Count
    <3>2. pc' = [pc EXCEPT ![v] = "queued"]
      BY <2>3, <3>1 DEF Enter
    <3> QED
      BY <1>1, <3>2 DEF IInv, TypeOK
  <2>4. CASE \E r \in BOOLEAN : Lock(w, r)
    <3>1. PICK r \in BOOLEAN : Lock(w, r)
      BY <2>4
    <3>2. pc' = [pc EXCEPT ![w] = "outside"]
      BY <2>3, <3>1 DEF Lock
    <3> QED
      BY <1>1, <3>2 DEF IInv, TypeOK
  <2>5. CASE ReturnFromOutside(w)
    <3>1. mode[w] \in BOOLEAN
      BY <1>1 DEF IInv, TypeOK
    <3>2. pc' = [pc EXCEPT ![w] = "outside"]
      BY <2>3, <2>5, <3>1 DEF ReturnFromOutside
    <3> QED
      BY <1>1, <3>2 DEF IInv, TypeOK
  <2>6. CASE SpuriousWakeup(w) \/ Unlock(w)
    BY <1>1, <2>6 DEF SpuriousWakeup, Unlock, IInv, TypeOK
  <2>7. CASE ReturnFromQueue(w)
    <3>1. pc[w] = "queued" /\ array[index[w]].is_signaled /\ pc'[w] = "holds"
      BY <1>1, <2>7 DEF ReturnFromQueue, TakeAndSignalOutside, Outside, IInv, TypeOK
    <3>2. index[w] = head
      BY <1>1, <3>1 DEF IInv, SignalOK, TypeOK
    <3>3. u = w
      BY <1>1, <2>7 DEF ReturnFromQueue, TakeAndSignalOutside, Outside, IInv, TypeOK
    <3>4. t # w
      BY <3>1
    <3>5. index[t] # head /\ index[t] \in Slots
      BY <1>1, <2>1, <3>1, <3>2, <3>4 DEF IInv, RingOK, TypeOK, Queued
    <3>6. Dist(index[t]) > 0 /\ Dist(index[u]) = 0
      BY <1>1, <3>2, <3>3, <3>5, LengthAssumption DEF Dist, IInv, TypeOK, Slots
    <3> QED
      BY <3>1, <3>3, <3>6
  <2> QED
    BY <2>2, <2>4, <2>5, <2>6, <2>7
<1>2. IInv /\ [Next]_vars => [InOrder]_vars
  BY <1>1
<1>3. FirstComeFirstServed <=> [][InOrder]_vars
  BY DEF FirstComeFirstServed
<1> QED
  BY <1>2, <1>3, Invariance, PTL DEF Spec

-----------------------------------------------------------------------------
(* A thread outside a full ring.  Each thread that leaves the ring signals one *)
(* thread outside, so none is forgotten if there are never more of them than   *)
(* in the ring.                                                               *)

\* At most twice as many threads as slots use the lock.
RingIsLarge == Cardinality(Threads) <= 2 * FIFO_LOCK_QUEUE_LENGTH

OutsideOK == Cardinality(Outside) <= Count

\* Two sets of threads that are apart are no larger than all together.
LEMMA ApartFit ==
  ASSUME NEW A \in SUBSET Threads, NEW B \in SUBSET Threads, A \cap B = {}
  PROVE  /\ Cardinality(A) \in Nat /\ Cardinality(B) \in Nat /\ Cardinality(Threads) \in Nat
         /\ Cardinality(A \cup B) = Cardinality(A) + Cardinality(B)
         /\ Cardinality(A) + Cardinality(B) <= Cardinality(Threads)
<1>1. IsFiniteSet(A) /\ IsFiniteSet(B)
  BY FS_Subset, ThreadsAssumption
<1>2. Cardinality(A) \in Nat /\ Cardinality(B) \in Nat /\ Cardinality(Threads) \in Nat
  BY CountThreads
<1>3. Cardinality(A \cup B) = Cardinality(A) + Cardinality(B) - Cardinality(A \cap B)
  BY <1>1, FS_Union
<1>4. Cardinality(A \cap B) = 0
  BY FS_EmptySet
<1>5. Cardinality(A \cup B) = Cardinality(A) + Cardinality(B)
  BY <1>2, <1>3, <1>4
<1>6. Cardinality(A \cup B) <= Cardinality(Threads)
  BY FS_Subset, ThreadsAssumption
<1> QED BY <1>2, <1>5, <1>6

\* The counters of the ring count the queued threads.
LEMMA CountIsQueued ==
  ASSUME IInv
  PROVE  Count = Cardinality(Queued) /\ Count \in Nat /\ Cardinality(Outside) \in Nat
<1>1. /\ QueuedReaders \in SUBSET Threads /\ QueuedWriters \in SUBSET Threads
      /\ Outside \in SUBSET Threads
      /\ QueuedReaders \cup QueuedWriters = Queued /\ QueuedReaders \cap QueuedWriters = {}
  BY DEF QueuedReaders, QueuedWriters, Queued, Outside
<1>2. Count = Cardinality(QueuedReaders) + Cardinality(QueuedWriters)
  BY DEF IInv, CountersOK, Count
<1>3. /\ Cardinality(Queued) = Cardinality(QueuedReaders) + Cardinality(QueuedWriters)
      /\ Cardinality(QueuedReaders) \in Nat /\ Cardinality(QueuedWriters) \in Nat
  BY <1>1, ApartFit
<1>4. Cardinality(Outside) \in Nat
  BY <1>1, CountThreads
<1> QED BY <1>2, <1>3, <1>4

\* A thread goes outside, or back, because the ring is full.
LEMMA FullRingIsEnough ==
  ASSUME RingIsLarge, IInv, Full, NEW t \in Threads, pc[t] \in {"idle", "woken"},
         pc' = [pc EXCEPT ![t] = "outside"], UNCHANGED <<reader_waiting, writer_waiting>>
  PROVE  OutsideOK'
<1>1. /\ Queued \in SUBSET Threads /\ Outside' \in SUBSET Threads
      /\ Outside' \cap Queued = {}
  BY DEF IInv, TypeOK, Queued, Outside
<1>2. /\ Cardinality(Outside') \in Nat /\ Cardinality(Queued) \in Nat
      /\ Cardinality(Threads) \in Nat
      /\ Cardinality(Outside') + Cardinality(Queued) <= Cardinality(Threads)
  BY <1>1, ApartFit
<1>3. Count' = Count /\ Count = Cardinality(Queued) /\ Count = FIFO_LOCK_QUEUE_LENGTH
  BY CountIsQueued DEF Full, Count
<1>4. Cardinality(Outside') <= Count'
  BY <1>2, <1>3, LengthAssumption DEF RingIsLarge
<1> QED BY <1>4 DEF OutsideOK

\* A thread enters the ring or takes the lock: nobody goes outside.
LEMMA EnteringIsNotOutside ==
  ASSUME IInv, OutsideOK, NEW t \in Threads, NEW r \in BOOLEAN,
         pc[t] \in {"idle", "woken"}, Enter(t, r)
  PROVE  OutsideOK'
<1>1. \E p \in {"holds", "queued"} : pc' = [pc EXCEPT ![t] = p]
  BY DEF Enter
<1>2. Outside' = Outside
  BY <1>1 DEF IInv, TypeOK, Outside
<1>3. Count' \in Nat /\ Count' >= Count
  BY DEF Enter, IInv, TypeOK, Count, One
<1>4. Count \in Nat /\ Cardinality(Outside) \in Nat
  BY CountIsQueued
<1> QED BY <1>2, <1>3, <1>4 DEF OutsideOK

\* A thread leaves the ring, and one thread returns from outside.
LEMMA LeavingSignalsOne ==
  ASSUME IInv, OutsideOK, NEW t \in Threads, ReturnFromQueue(t)
  PROVE  OutsideOK'
<1>1. /\ pc[t] = "queued" /\ mode[t] \in BOOLEAN /\ TakeAndSignalOutside(t)
      /\ reader_waiting' = reader_waiting - One(mode[t])
      /\ writer_waiting' = writer_waiting - One(~mode[t])
  BY DEF ReturnFromQueue, IInv, TypeOK
<1>2. Count' = Count - 1
  BY <1>1 DEF Count, One, IInv, TypeOK
<1>3. Count > 0 /\ Count \in Nat /\ Cardinality(Outside) \in Nat
  BY <1>1, QueuedMeansCount, CountIsQueued DEF Queued
<1>4. Outside \in SUBSET Threads /\ t \notin Outside
  BY <1>1 DEF Outside
<1>5. CASE Outside = {}
  <2>1. pc' = [pc EXCEPT ![t] = "holds"]
    BY <1>1, <1>5 DEF TakeAndSignalOutside
  <2>2. Outside' = {}
    BY <1>5, <2>1 DEF Outside, IInv, TypeOK
  <2> QED BY <1>2, <1>3, <2>2, FS_EmptySet DEF OutsideOK
<1>6. CASE Outside # {}
  <2>1. waiting > 0
    <3>1. WaitingOutside \in SUBSET Threads /\ WaitingOutside # {}
      BY <1>6 DEF WaitingOutside, Outside
    <3> QED BY <3>1, CountThreads DEF IInv, CountersOK
  <2>2. PICK u \in Outside : pc' = [pc EXCEPT ![t] = "holds", ![u] = "woken"]
    <3>1. ~(waiting = 0 \/ Outside = {})
      BY <1>6, <2>1
    <3> QED BY <1>1, <3>1 DEF TakeAndSignalOutside
  <2>3. Outside' = Outside \ {u}
    BY <1>4, <2>2 DEF Outside, IInv, TypeOK
  <2>4. Cardinality(Outside') = Cardinality(Outside) - 1
    BY <1>4, <2>2, <2>3, CountThreads
  <2> QED BY <1>2, <1>3, <2>4 DEF OutsideOK
<1> QED BY <1>5, <1>6

\* Outside a ring with at least half as many slots as there are threads, a thread
\* waits only while others are queued, hold the lock or are about to look at the
\* ring again: then "till there is space in the queue" (sge_fifo_lock) is true.
\* The ring has 64 slots, so it is for a process of up to 128 threads.
THEOREM NobodyIsForgotten ==
  ASSUME RingIsLarge
  PROVE  Spec => []WaitsOutsideOnlyForSpace
<1>1. Init => OutsideOK
  <2> SUFFICES ASSUME Init PROVE OutsideOK
    OBVIOUS
  <2>1. Outside = {}
    BY DEF Init, Outside
  <2> QED BY <2>1, FS_EmptySet DEF Init, OutsideOK, Count
<1>2. IInv /\ OutsideOK /\ [Next]_vars => OutsideOK'
  <2> SUFFICES ASSUME IInv, OutsideOK, [Next]_vars PROVE OutsideOK'
    OBVIOUS
  <2>2. ASSUME NEW t \in Threads, NEW r \in BOOLEAN, Lock(t, r) PROVE OutsideOK'
    <3>1. CASE Full
      BY <2>2, <3>1, FullRingIsEnough DEF Lock
    <3>2. CASE ~Full
      BY <2>2, <3>2, EnteringIsNotOutside DEF Lock
    <3> QED BY <3>1, <3>2
  <2>3. ASSUME NEW t \in Threads, ReturnFromOutside(t) PROVE OutsideOK'
    <3>1. CASE Full
      BY <2>3, <3>1, FullRingIsEnough DEF ReturnFromOutside
    <3>2. CASE ~Full
      <4>1. mode[t] \in BOOLEAN
        BY DEF IInv, TypeOK
      <4> QED BY <2>3, <3>2, <4>1, EnteringIsNotOutside DEF ReturnFromOutside
    <3> QED BY <3>1, <3>2
  <2>4. ASSUME NEW t \in Threads, SpuriousWakeup(t) PROVE OutsideOK'
    <3>1. pc[t] = "outside" /\ pc' = [pc EXCEPT ![t] = "woken"]
          /\ UNCHANGED <<reader_waiting, writer_waiting>>
      BY <2>4 DEF SpuriousWakeup, lockVars
    <3>2. Outside' = Outside \ {t} /\ t \in Outside /\ Outside \in SUBSET Threads
      BY <3>1 DEF Outside, IInv, TypeOK
    <3>3. Cardinality(Outside') = Cardinality(Outside) - 1
      BY <3>2, CountThreads
    <3>4. Count' = Count
      BY <3>1 DEF Count
    <3> QED BY <3>3, <3>4, CountIsQueued DEF OutsideOK
  <2>5. ASSUME NEW t \in Threads, Unlock(t) PROVE OutsideOK'
    <3>1. pc' = [pc EXCEPT ![t] = "idle"] /\ pc[t] = "holds"
          /\ UNCHANGED <<reader_waiting, writer_waiting>>
      BY <2>5 DEF Unlock
    <3>2. Outside' = Outside
      BY <3>1 DEF Outside, IInv, TypeOK
    <3> QED BY <3>1, <3>2 DEF OutsideOK, Count
  <2>6. CASE UNCHANGED vars
    BY <2>6 DEF OutsideOK, Outside, Count, vars, lockVars
  <2> QED BY <2>2, <2>3, <2>4, <2>5, <2>6, LeavingSignalsOne DEF Next
<1>3. IInv /\ OutsideOK => WaitsOutsideOnlyForSpace
  <2> SUFFICES ASSUME IInv, OutsideOK, Outside # {}
               PROVE  \E t \in Threads : pc[t] \in {"queued", "holds", "woken"}
    BY DEF WaitsOutsideOnlyForSpace
  <2>1. Cardinality(Outside) # 0
    <3>1. Outside \in SUBSET Threads
      BY DEF Outside
    <3> QED BY <3>1, CountThreads
  <2>2. Count > 0
    BY <2>1, CountIsQueued DEF OutsideOK
  <2>3. \E t \in Queued : TRUE
    BY <2>2, QueuedMeansCount
  <2> QED BY <2>3 DEF Queued
<1> QED BY <1>1, <1>2, <1>3, Invariance, PTL DEF Spec

-----------------------------------------------------------------------------
(* The queue.  The place of a thread is the distance of its slot from the head *)
(* of the ring.                                                                *)

\* Distances in the ring.
LEMMA Distances ==
  ASSUME IInv
  PROVE  /\ \A i \in Slots : Dist(i) \in 0 .. L - 1
         /\ \A i \in Slots : Dist(i) = 0 <=> i = head
         /\ Count < L => tail \in Slots /\ Dist(tail) = Count
<1>1. /\ head \in Nat /\ 0 <= head /\ head <= L - 1 /\ L \in Nat \ {0} /\ Count \in Nat
      /\ Count <= L
      /\ tail = IF head + Count >= L THEN head + Count - L ELSE head + Count
  BY LengthAssumption DEF IInv, TypeOK, RingOK, Count, L, Slots
<1>2. \A i : i \in Slots <=> i \in 0 .. L - 1
  BY DEF Slots, L
<1>3. \A i : Dist(i) = IF i >= head THEN i - head ELSE i - head + L
  BY DEF Dist, L
<1>4. \A i \in Slots : Dist(i) \in 0 .. L - 1
  BY <1>1, <1>2, <1>3
<1>5. \A i \in Slots : Dist(i) = 0 <=> i = head
  BY <1>1, <1>2, <1>3
<1>6. Count < L => tail \in Slots /\ Dist(tail) = Count
  BY <1>1, <1>2, <1>3
<1> QED
  BY <1>4, <1>5, <1>6

\* What QueuedLock has in its variables.
LEMMA QueueIs ==
  ASSUME IInv
  PROVE  /\ Queue!Waiting = Queued
         /\ Queue!Cardinality(Queue!Waiting) = Count
         /\ \A r \in BOOLEAN : Queue!FreeFor(r) <=>
              Writers = {} /\ (r \/ Readers = {})
<1>1. \A t \in Threads : pc[t] = "queued" => Dist(index[t]) \in Nat
  BY Distances DEF IInv, TypeOK
<1>2. Queue!Waiting = Queued
  BY <1>1 DEF Queue!Waiting, Queued
<1>3. \A S : Queue!Cardinality(S) = Cardinality(S)
  BY DEF Queue!Cardinality, Cardinality
<1>4. Cardinality(Queued) = Count
  BY CountIsQueued
<1>5. \A r \in BOOLEAN : Queue!FreeFor(r) <=> Writers = {} /\ (r \/ Readers = {})
  BY DEF Queue!FreeFor, Writers, Readers
<1> QED
  BY <1>2, <1>3, <1>4, <1>5

\* do_wait_in_queue is set for a thread exactly if somebody waits or the lock is not
\* free for it.
LEMMA WaitsIfItHasTo ==
  ASSUME IInv, NEW r \in BOOLEAN
  PROVE  Queue!AtOnce(r) <=> ~MustQueue(r)
<1>1. /\ reader_active \in Nat /\ writer_active \in Nat /\ signaled \in {0, 1}
      /\ reader_waiting \in Nat /\ writer_waiting \in Nat
  BY DEF IInv, TypeOK
<1>2. /\ reader_active = 0 <=> Readers = {}
      /\ writer_active = 0 <=> Writers = {}
  BY CountThreads DEF IInv, CountersOK, Readers, Writers
<1>3. Queued = {} <=> Count = 0
  BY QueuedMeansCount, <1>1 DEF Count
<1>4. CASE MustQueue(r)
  <2>1. SUFFICES ASSUME Queued = {}, Writers = {}, r \/ Readers = {}
                 PROVE  FALSE
    BY <1>4, QueueIs DEF Queue!AtOnce
  <2>2. Count = 0 /\ writer_waiting = 0 /\ writer_active = 0
    BY <1>1, <1>2, <1>3, <2>1 DEF Count
  <2>3. signaled = 0
    <3> SUFFICES ASSUME signaled = 1 PROVE FALSE
      BY <1>1
    <3>1. head \in Slots /\ array[head].is_signaled
      BY DEF IInv, SignalOK, TypeOK
    <3>2. array[head] = EmptySlot
      BY <2>2, <3>1, Distances DEF IInv, RingOK
    <3> QED
      BY <3>1, <3>2 DEF EmptySlot
  <2> QED
    BY <1>1, <1>2, <1>4, <2>1, <2>2, <2>3 DEF MustQueue
<1>5. CASE ~MustQueue(r)
  <2>1. Count = 0
    BY <1>5, DirectMeansEmptyRing
  <2>2. Writers = {} /\ (r \/ Readers = {})
    BY <1>1, <1>2, <1>5 DEF MustQueue
  <2> QED
    BY <1>3, <1>5, <2>1, <2>2, QueueIs DEF Queue!AtOnce
<1> QED
  BY <1>4, <1>5

\* A thread that enters takes the lock or joins the queue.
LEMMA EnterAsks ==
  ASSUME IInv, NEW t \in Threads, NEW r \in BOOLEAN,
         pc[t] \in {"idle", "woken"}, ~Full, Enter(t, r), head' = head,
         mode' \in [Threads -> BOOLEAN], mode'[t] = r,
         \A u \in Threads \ {t} : mode'[u] = mode[u]
  PROVE  Queue!Take(t, r) \/ Queue!Join(t, r)
<1>1. pc \in [Threads -> Places] /\ index \in [Threads -> Slots]
  BY DEF IInv, TypeOK
<1>2. Count < L
  <2>1. Count <= L /\ Count \in Nat /\ L \in Nat
    BY LengthAssumption DEF IInv, TypeOK, RingOK, Count, L
  <2>2. Count # L
    BY DEF Full, Count, L
  <2> QED
    BY <2>1, <2>2
<1>3. /\ pc'[t] \in {"queued", "holds"}
      /\ pc' = [pc EXCEPT ![t] = pc'[t]]
      /\ pc'[t] = "holds" => ~MustQueue(r) /\ index' = index
      /\ pc'[t] = "queued" => MustQueue(r) /\ index' = [index EXCEPT ![t] = tail]
  BY <1>1 DEF Enter
<1>4. Queue!Asks(t, r)
  <2>1. {u \in Threads : pc'[u] \in {"queued", "holds"} /\ mode'[u]}
          = IF r THEN {u \in Threads : pc[u] \in {"queued", "holds"} /\ mode[u]} \union {t}
                 ELSE {u \in Threads : pc[u] \in {"queued", "holds"} /\ mode[u]}
    BY <1>1, <1>3
  <2> QED
    BY <2>1 DEF Queue!Asks
<1>5. CASE pc'[t] = "holds"
  <2>1. {u \in Threads : pc'[u] = "holds"} = {u \in Threads : pc[u] = "holds"} \union {t}
    BY <1>1, <1>3, <1>5
  <2>2. \A u \in Threads : (pc'[u] = "queued" <=> pc[u] = "queued") /\ index'[u] = index[u]
    BY <1>1, <1>3, <1>5
  <2>3. [u \in Threads |-> IF pc[u] = "queued" THEN Dist(index[u]) + 1 ELSE 0]'
          = [u \in Threads |-> IF pc[u] = "queued" THEN Dist(index[u]) + 1 ELSE 0]
    BY <2>2 DEF Dist
  <2>4. Queue!AtOnce(r)
    BY <1>3, <1>5, WaitsIfItHasTo
  <2> QED
    BY <1>4, <2>1, <2>3, <2>4 DEF Queue!Take
<1>6. CASE pc'[t] = "queued"
  <2>1. {u \in Threads : pc'[u] = "holds"} = {u \in Threads : pc[u] = "holds"}
    BY <1>1, <1>3, <1>6
  <2>2. /\ \A u \in Threads \ {t} : (pc'[u] = "queued" <=> pc[u] = "queued")
                                    /\ index'[u] = index[u]
        /\ index'[t] = tail
    BY <1>1, <1>3, <1>6
  <2>3. Dist(tail) = Count
    BY <1>2, Distances
  <2>4. [u \in Threads |-> IF pc[u] = "queued" THEN Dist(index[u]) + 1 ELSE 0]'
          = [[u \in Threads |-> IF pc[u] = "queued" THEN Dist(index[u]) + 1 ELSE 0]
               EXCEPT ![t] = Count + 1]
    BY <1>6, <2>2, <2>3 DEF Dist
  <2>5. ~Queue!AtOnce(r)
    BY <1>3, <1>6, WaitsIfItHasTo
  <2> QED
    BY <1>4, <2>1, <2>4, <2>5, QueueIs DEF Queue!Join
<1> QED
  BY <1>3, <1>5, <1>6

\* The thread that returns from the ring is the first of the queue.
LEMMA ReturnGets ==
  ASSUME IInv, NEW t \in Threads, ReturnFromQueue(t)
  PROVE  Queue!Get(t)
<1>1. /\ pc \in [Threads -> Places] /\ index \in [Threads -> Slots]
      /\ mode \in [Threads -> BOOLEAN] /\ head \in Slots
  BY DEF IInv, TypeOK
<1>2. /\ pc[t] = "queued" /\ index[t] = head /\ signaled = 1 /\ writer_active = 0
      /\ mode[t] \/ reader_active = 0
      /\ head' = Succ(head) /\ mode' = mode /\ index' = [index EXCEPT ![t] = 0]
  BY DEF ReturnFromQueue, Queued, IInv, SignalOK, RingOK, TypeOK
<1>3. /\ pc'[t] = "holds"
      /\ \A u \in Threads \ {t} : \/ pc'[u] = pc[u]
                                  \/ pc[u] = "outside" /\ pc'[u] = "woken"
  BY <1>1, <1>2 DEF ReturnFromQueue, TakeAndSignalOutside, Outside
<1>4. Queue!FreeFor(mode[t])
  <2>1. Writers = {} /\ (mode[t] \/ Readers = {})
    BY <1>2, CountThreads DEF IInv, CountersOK, Readers, Writers
  <2> QED
    BY <1>1, <2>1, QueueIs
<1>5. Dist(index[t]) = 0
  BY <1>1, <1>2, Distances
<1>6. t \in {u \in Threads : pc[u] \in {"queued", "holds"} /\ mode[u]} <=> mode[t]
  BY <1>2
<1>7. /\ {u \in Threads : pc'[u] = "holds"} = {u \in Threads : pc[u] = "holds"} \union {t}
      /\ {u \in Threads : pc'[u] \in {"queued", "holds"} /\ mode'[u]}
           = {u \in Threads : pc[u] \in {"queued", "holds"} /\ mode[u]}
  BY <1>2, <1>3
<1>8. ASSUME NEW u \in Threads \ {t}, pc[u] = "queued"
      PROVE  /\ pc'[u] = "queued" /\ index'[u] = index[u]
             /\ Dist(index[u]) \in Nat \ {0} /\ Dist(index[u])' = Dist(index[u]) - 1
  <2>1. pc'[u] = "queued" /\ index'[u] = index[u] /\ index[u] \in Slots
    BY <1>1, <1>2, <1>3, <1>8
  <2>2. index[u] # head
    BY <1>2, <1>8 DEF IInv, RingOK, Queued
  <2>3. Dist(index[u]) \in Nat \ {0}
    BY <2>1, <2>2, Distances
  <2>4. ASSUME NEW i \in Slots \ {head}
        PROVE  (IF i >= head' THEN i - head' ELSE i - head' + FIFO_LOCK_QUEUE_LENGTH)
                 = Dist(i) - 1
    BY <1>1, <1>2, LengthAssumption DEF Dist, Succ, Slots
  <2>5. index'[u] \in Slots \ {head} /\ index'[u] = index[u]
    BY <2>1, <2>2
  <2>6. (IF index'[u] >= head' THEN index'[u] - head'
         ELSE index'[u] - head' + FIFO_LOCK_QUEUE_LENGTH) = Dist(index'[u]) - 1
    BY <2>4, <2>5
  <2>7. Dist(index[u])' = Dist(index[u]) - 1
    BY <2>5, <2>6 DEF Dist
  <2> QED
    BY <2>1, <2>3, <2>7
<1>9. [u \in Threads |-> IF pc[u] = "queued" THEN Dist(index[u]) + 1 ELSE 0]'
        = [u \in Threads |-> IF pc[u] = "queued" /\ u # t THEN Dist(index[u]) ELSE 0]
  <2>1. ASSUME NEW u \in Threads
        PROVE  (IF pc[u] = "queued" THEN Dist(index[u]) + 1 ELSE 0)'
                 = IF pc[u] = "queued" /\ u # t THEN Dist(index[u]) ELSE 0
    <3>1. CASE u = t
      BY <1>3, <3>1
    <3>2. CASE u # t /\ pc[u] = "queued"
      BY <1>8, <3>2
    <3>3. CASE u # t /\ pc[u] # "queued"
      BY <1>3, <3>3
    <3> QED
      BY <3>1, <3>2, <3>3
  <2> QED
    BY <2>1
<1>a. [u \in Threads |-> IF pc[u] = "queued" /\ u # t THEN Dist(index[u]) ELSE 0]
        = [u \in Threads |->
             IF [v \in Threads |-> IF pc[v] = "queued" THEN Dist(index[v]) + 1 ELSE 0][u] > 0
             THEN [v \in Threads |-> IF pc[v] = "queued" THEN Dist(index[v]) + 1 ELSE 0][u] - 1
             ELSE 0]
  <2>1. \A u \in Threads : pc[u] = "queued" => Dist(index[u]) \in Nat
    BY <1>1, Distances
  <2>2. pc[t] = "queued" /\ Dist(index[t]) = 0
    BY <1>2, <1>5
  <2> QED
    BY <2>1, <2>2
<1>b. [u \in Threads |-> IF pc[u] = "queued" THEN Dist(index[u]) + 1 ELSE 0][t] = 1
  BY <1>2, <1>5
<1>c. Queue!FreeFor(t \in {u \in Threads : pc[u] \in {"queued", "holds"} /\ mode[u]})
  <2>1. (t \in {u \in Threads : pc[u] \in {"queued", "holds"} /\ mode[u]}) = mode[t]
    BY <1>1, <1>6
  <2> QED
    BY <1>4, <2>1
<1> QED
  BY <1>7, <1>9, <1>a, <1>b, <1>c DEF Queue!Get

\* The lock is one with a single queue: nobody waits without need, and the order in
\* which threads entered the ring is the order in which they get it (sge_fifo_lock,
\* sge_fifo_ulock).
THEOREM LockIsQueued == Spec => ImplementsQueuedLock
<1>1. Init => Queue!Init
  BY DEF Init, Queue!Init
<1>2. IInv /\ [Next]_vars => [Queue!Next]_(Queue!vars)
  <2> SUFFICES ASSUME IInv, [Next]_vars
               PROVE  [Queue!Next]_(Queue!vars)
    OBVIOUS
  <2>0. /\ pc \in [Threads -> Places] /\ index \in [Threads -> Slots]
        /\ mode \in [Threads -> BOOLEAN]
    BY DEF IInv, TypeOK
  <2>a. ASSUME NEW t \in Threads, pc[t] \notin {"queued", "holds"},
               pc' = [pc EXCEPT ![t] = pc'[t]], pc'[t] \notin {"queued", "holds"},
               \A u \in Threads \ {t} : mode'[u] = mode[u],
               UNCHANGED <<head, index>>
        PROVE  UNCHANGED Queue!vars
    <3>1. \A u \in Threads : /\ pc'[u] = "queued" <=> pc[u] = "queued"
                             /\ pc'[u] = "holds" <=> pc[u] = "holds"
                             /\ u # t => mode'[u] = mode[u]
      BY <2>0, <2>a
    <3>2. /\ {u \in Threads : pc'[u] = "holds"} = {u \in Threads : pc[u] = "holds"}
          /\ {u \in Threads : pc'[u] \in {"queued", "holds"} /\ mode'[u]}
               = {u \in Threads : pc[u] \in {"queued", "holds"} /\ mode[u]}
      BY <2>a, <3>1
    <3>3. [u \in Threads |-> IF pc[u] = "queued" THEN Dist(index[u]) + 1 ELSE 0]'
            = [u \in Threads |-> IF pc[u] = "queued" THEN Dist(index[u]) + 1 ELSE 0]
      BY <2>a, <3>1 DEF Dist
    <3> QED
      BY <3>2, <3>3 DEF Queue!vars
  <2>1. ASSUME NEW t \in Threads, NEW r \in BOOLEAN, Lock(t, r)
        PROVE  Queue!Next \/ UNCHANGED Queue!vars
    <3>1. CASE Full
      <4>1. /\ pc[t] = "idle" /\ pc' = [pc EXCEPT ![t] = "outside"]
            /\ UNCHANGED <<head, index>> /\ mode' = [mode EXCEPT ![t] = r]
        BY <2>1, <3>1 DEF Lock
      <4> QED
        BY <2>0, <2>a, <4>1
    <3>2. CASE ~Full
      <4>1. /\ pc[t] = "idle" /\ Enter(t, r) /\ head' = head
            /\ mode' = [mode EXCEPT ![t] = r]
        BY <2>1, <3>2 DEF Lock
      <4>2. Queue!Take(t, r) \/ Queue!Join(t, r)
        BY <2>0, <3>2, <4>1, EnterAsks
      <4> QED
        BY <4>2 DEF Queue!Next
    <3> QED
      BY <3>1, <3>2
  <2>2. ASSUME NEW t \in Threads, ReturnFromOutside(t)
        PROVE  Queue!Next \/ UNCHANGED Queue!vars
    <3>1. CASE Full
      <4>1. /\ pc[t] = "woken" /\ pc' = [pc EXCEPT ![t] = "outside"]
            /\ UNCHANGED <<head, index, mode>>
        BY <2>2, <3>1 DEF ReturnFromOutside
      <4> QED
        BY <2>0, <2>a, <4>1
    <3>2. CASE ~Full
      <4>1. pc[t] = "woken" /\ Enter(t, mode[t]) /\ head' = head /\ mode' = mode
        BY <2>2, <3>2 DEF ReturnFromOutside
      <4>2. PICK r \in BOOLEAN : r = mode[t]
        BY <2>0
      <4>3. Enter(t, r) /\ mode' \in [Threads -> BOOLEAN] /\ mode'[t] = r
        BY <2>0, <4>1, <4>2
      <4>4. Queue!Take(t, r) \/ Queue!Join(t, r)
        BY <3>2, <4>1, <4>3, EnterAsks
      <4> QED
        BY <4>2, <4>4 DEF Queue!Next
    <3> QED
      BY <3>1, <3>2
  <2>3. ASSUME NEW t \in Threads, SpuriousWakeup(t)
        PROVE  UNCHANGED Queue!vars
    <3>1. /\ pc[t] = "outside" /\ pc' = [pc EXCEPT ![t] = "woken"]
          /\ UNCHANGED <<head, index, mode>>
      BY <2>3 DEF SpuriousWakeup, lockVars
    <3> QED
      BY <2>0, <2>a, <3>1
  <2>4. ASSUME NEW t \in Threads, ReturnFromQueue(t)
        PROVE  Queue!Next
    BY <2>4, ReturnGets DEF Queue!Next
  <2>5. ASSUME NEW t \in Threads, Unlock(t)
        PROVE  Queue!Next
    <3>1. /\ pc[t] = "holds" /\ pc' = [pc EXCEPT ![t] = "idle"]
          /\ UNCHANGED <<head, index>> /\ mode' = [mode EXCEPT ![t] = FALSE]
      BY <2>5 DEF Unlock
    <3>2. \A u \in Threads : /\ pc'[u] = "queued" <=> pc[u] = "queued"
                             /\ pc'[u] = "holds" <=> pc[u] = "holds" /\ u # t
                             /\ u # t => mode'[u] = mode[u]
      BY <2>0, <3>1
    <3>3. /\ {u \in Threads : pc'[u] = "holds"} = {u \in Threads : pc[u] = "holds"} \ {t}
          /\ {u \in Threads : pc'[u] \in {"queued", "holds"} /\ mode'[u]}
               = {u \in Threads : pc[u] \in {"queued", "holds"} /\ mode[u]} \ {t}
          /\ t \in {u \in Threads : pc[u] = "holds"}
      BY <3>1, <3>2
    <3>4. [u \in Threads |-> IF pc[u] = "queued" THEN Dist(index[u]) + 1 ELSE 0]'
            = [u \in Threads |-> IF pc[u] = "queued" THEN Dist(index[u]) + 1 ELSE 0]
      BY <3>1, <3>2 DEF Dist
    <3>5. Queue!Release(t)
      BY <3>3, <3>4 DEF Queue!Release
    <3> QED
      BY <3>5 DEF Queue!Next
  <2>6. CASE UNCHANGED vars
    <3>1. UNCHANGED <<pc, index, mode, head>>
      BY <2>6 DEF vars, lockVars
    <3> QED
      BY <3>1 DEF Queue!vars, Dist
  <2> QED
    BY <2>1, <2>2, <2>3, <2>4, <2>5, <2>6 DEF Next
<1> QED
  BY <1>1, <1>2, Invariance, PTL DEF Spec, ImplementsQueuedLock, Queue!Spec
=============================================================================
