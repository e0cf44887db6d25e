------------------------------ MODULE FifoLock ------------------------------
(***************************************************************************)
(* The read/write lock of libs/uti/sge_lock_fifo.c, the lock behind        *)
(* SGE_LOCK(LOCK_GLOBAL, ...) that every qmaster thread takes.             *)
(*                                                                         *)
(* lock->mutex protects the whole structure and is released only inside    *)
(* pthread_cond_wait, so a step of the model is one stretch of code        *)
(* between two points where a thread gives the mutex up: the call of       *)
(* sge_fifo_lock up to its first wait or its return, the stretch after     *)
(* each of its two waits, and the whole of sge_fifo_ulock.                 *)
(*                                                                         *)
(* Waiting threads queue in a ring of FIFO_LOCK_QUEUE_LENGTH slots, each   *)
(* with a condition variable of its own; a thread that finds the ring full *)
(* waits outside it on lock->cond.                                         *)
(***************************************************************************)
EXTENDS Integers, FiniteSets

CONSTANTS Threads,                 \* the threads of the process
          FIFO_LOCK_QUEUE_LENGTH   \* slots of the ring (64 in the code)

ASSUME ThreadsAssumption == IsFiniteSet(Threads)
ASSUME LengthAssumption == FIFO_LOCK_QUEUE_LENGTH \in Nat \ {0}

VARIABLES
  array,            \* lock->array: is_reader and is_signaled of every slot
  head, tail,       \* first occupied slot, first free slot
  reader_active,    \* threads that hold the lock for reading
  writer_active,    \* threads that hold the lock for writing
  reader_waiting,   \* readers blocked in the ring
  writer_waiting,   \* writers blocked in the ring
  waiting,          \* threads in pthread_cond_wait(&lock->cond)
  signaled,         \* threads signaled in the ring that have not run yet
  pc,               \* where each thread is
  mode,             \* is_reader argument of each thread's call, while it lasts
  index             \* local variable index of each thread, while it is queued

lockVars == <<array, head, tail, reader_active, writer_active,
              reader_waiting, writer_waiting, waiting, signaled>>
vars == <<lockVars, pc, mode, index>>

Slots == 0 .. FIFO_LOCK_QUEUE_LENGTH - 1
EmptySlot == [is_reader |-> FALSE, is_signaled |-> FALSE]

\* The places of a thread: not using the lock; blocked on lock->cond; signaled
\* there (or woken spuriously) and competing for the mutex; blocked in the
\* ring; holding the lock.
Places == {"idle", "outside", "woken", "queued", "holds"}

\* Advancing head or tail: the index after the last one is 0.
Succ(i) == IF i + 1 = FIFO_LOCK_QUEUE_LENGTH THEN 0 ELSE i + 1

Full == reader_waiting + writer_waiting = FIFO_LOCK_QUEUE_LENGTH

One(b) == IF b THEN 1 ELSE 0

Init ==
  /\ array = [i \in Slots |-> EmptySlot]
  /\ head = 0 /\ tail = 0
  /\ reader_active = 0 /\ writer_active = 0
  /\ reader_waiting = 0 /\ writer_waiting = 0
  /\ waiting = 0 /\ signaled = 0
  /\ pc = [t \in Threads |-> "idle"]
  /\ mode = [t \in Threads |-> FALSE]
  /\ index = [t \in Threads |-> 0]

-----------------------------------------------------------------------------
\* Mutant: a writer looks at the holders of the lock only, not at a thread that
\* has been signaled and has not run yet.
MustQueue_IgnoresSignaled(is_reader) ==
  IF is_reader THEN writer_active + writer_waiting + signaled > 0
               ELSE writer_active + reader_active > 0

\* Mutant: a reader joins active readers although a writer is queued.
MustQueue_PrefersReaders(is_reader) ==
  writer_active + signaled + (IF is_reader THEN 0 ELSE reader_active) > 0

\* Mutant: a reader queues behind active readers, as a writer does.
MustQueue_LikeAWriter(is_reader) == writer_active + reader_active + signaled > 0

\* do_wait_in_queue: a reader waits behind writers, a writer behind everyone
\* who holds the lock, and both behind a thread that is waking up.
MustQueue(is_reader) ==
  IF is_reader THEN writer_active + writer_waiting + signaled > 0
               ELSE writer_active + reader_active + signaled > 0

\* reader_active++ or writer_active++ at the end of sge_fifo_lock.
Take(is_reader) ==
  /\ reader_active' = reader_active + One(is_reader)
  /\ writer_active' = writer_active + One(~is_reader)

\* The ring is not full: take the lock at once, or append the thread.
Enter(t, is_reader) ==
  \/ /\ ~MustQueue(is_reader)
     /\ Take(is_reader)
     /\ pc' = [pc EXCEPT ![t] = "holds"]
     /\ UNCHANGED <<array, tail, reader_waiting, writer_waiting, index>>
  \/ /\ MustQueue(is_reader)
     /\ index' = [index EXCEPT ![t] = tail]
     /\ array' = [array EXCEPT ![tail] = [is_reader |-> is_reader,
                                          is_signaled |-> FALSE]]
     /\ tail' = Succ(tail)
     /\ reader_waiting' = reader_waiting + One(is_reader)
     /\ writer_waiting' = writer_waiting + One(~is_reader)
     /\ pc' = [pc EXCEPT ![t] = "queued"]
     /\ UNCHANGED <<reader_active, writer_active>>

\* sge_fifo_lock is called.
Lock(t, is_reader) ==
  /\ pc[t] = "idle"
  /\ mode' = [mode EXCEPT ![t] = is_reader]
  /\ \/ /\ Full
        /\ waiting' = waiting + 1
        /\ pc' = [pc EXCEPT ![t] = "outside"]
        /\ UNCHANGED <<array, tail, reader_active, writer_active,
                       reader_waiting, writer_waiting, index>>
     \/ /\ ~Full
        /\ Enter(t, is_reader)
        /\ UNCHANGED waiting
  /\ UNCHANGED <<head, signaled>>

\* A thread returns from pthread_cond_wait(&lock->cond) with the mutex, and
\* the do loop looks at the ring again.
ReturnFromOutside(t) ==
  /\ pc[t] = "woken"
  /\ \/ /\ Full
        /\ pc' = [pc EXCEPT ![t] = "outside"]
        /\ UNCHANGED <<array, tail, reader_active, writer_active,
                       reader_waiting, writer_waiting, waiting, index>>
     \/ /\ ~Full
        /\ waiting' = waiting - 1
        /\ Enter(t, mode[t])
  /\ UNCHANGED <<head, signaled, mode>>

\* pthread_cond_wait may return without a signal.
SpuriousWakeup(t) ==
  /\ pc[t] = "outside"
  /\ pc' = [pc EXCEPT ![t] = "woken"]
  /\ UNCHANGED <<lockVars, mode, index>>

Outside == {t \in Threads : pc[t] = "outside"}

\* Mutant: a thread that leaves the ring does not signal lock->cond.
TakeAndSignalOutside_NoSignal(t) == pc' = [pc EXCEPT ![t] = "holds"]

\* t takes the lock, and if lock->waiting > 0 pthread_cond_signal(&lock->cond)
\* moves one of the threads blocked there, if any is, to the mutex.
TakeAndSignalOutside(t) ==
  \/ /\ waiting > 0 /\ Outside # {}
     /\ \E u \in Outside : pc' = [pc EXCEPT ![t] = "holds", ![u] = "woken"]
  \/ /\ waiting = 0 \/ Outside = {}
     /\ pc' = [pc EXCEPT ![t] = "holds"]

\* After its own departure, the head of the ring is to be woken as well: both
\* the leaving thread and the next one are readers.
ChainReaders ==
  /\ array[head].is_reader
  /\ reader_waiting' > 0
  /\ array[Succ(head)].is_reader

\* A thread returns from pthread_cond_wait in the ring and finds its slot
\* signaled: it frees the head slot, wakes a following reader, signals the
\* threads outside, and has the lock.  (With is_signaled false it decrements
\* and increments its waiting counter and waits again: nothing changes.)
ReturnFromQueue(t) ==
  /\ pc[t] = "queued"
  /\ array[index[t]].is_signaled
  /\ reader_waiting' = reader_waiting - One(mode[t])
  /\ writer_waiting' = writer_waiting - One(~mode[t])
  /\ head' = Succ(head)
  /\ signaled' = signaled - 1 + One(ChainReaders)
  /\ array' = [[array EXCEPT ![Succ(head)].is_signaled =
                           IF ChainReaders THEN TRUE ELSE @]
                      EXCEPT ![head] = EmptySlot]
  /\ Take(mode[t])
  /\ TakeAndSignalOutside(t)
  /\ index' = [index EXCEPT ![t] = 0]
  /\ UNCHANGED <<tail, waiting, mode>>

\* Mutant: sge_fifo_ulock only looks for waiting readers.
WakeHead_ReadersOnly ==
  reader_active' + writer_active' + signaled = 0 /\ reader_waiting > 0

\* The lock is free after this release, nobody is waking up, somebody waits.
WakeHead ==
  /\ reader_active' + writer_active' + signaled = 0
  /\ reader_waiting + writer_waiting > 0

\* sge_fifo_ulock: the last holder wakes the head of the ring.
Unlock(t) ==
  /\ pc[t] = "holds"
  /\ pc' = [pc EXCEPT ![t] = "idle"]
  /\ reader_active' = reader_active - One(mode[t])
  /\ writer_active' = writer_active - One(~mode[t])
  /\ IF WakeHead
     THEN /\ array' = [array EXCEPT ![head].is_signaled = TRUE]
          /\ signaled' = signaled + 1
     ELSE UNCHANGED <<array, signaled>>
  /\ mode' = [mode EXCEPT ![t] = FALSE]
  /\ UNCHANGED <<head, tail, reader_waiting, writer_waiting, waiting, index>>

Next ==
  \E t \in Threads :
    \/ \E is_reader \in BOOLEAN : Lock(t, is_reader)
    \/ ReturnFromOutside(t)
    \/ SpuriousWakeup(t)
    \/ ReturnFromQueue(t)
    \/ Unlock(t)

Spec == Init /\ [][Next]_vars

\* A runnable thread gets the mutex, and whoever holds the lock releases it
\* (the qmaster threads bracket each request with SGE_LOCK and SGE_UNLOCK).
\* Nothing forces a thread to ask for the lock, and no spurious wakeup ever
\* has to happen.
Fairness ==
  \A t \in Threads :
    /\ WF_vars(ReturnFromOutside(t))
    /\ WF_vars(ReturnFromQueue(t))
    /\ WF_vars(Unlock(t))

FairSpec == Spec /\ Fairness

-----------------------------------------------------------------------------
Readers == {t \in Threads : pc[t] = "holds" /\ mode[t]}
Writers == {t \in Threads : pc[t] = "holds" /\ ~mode[t]}
Queued  == {t \in Threads : pc[t] = "queued"}

\* Position of a slot in the ring, counted from the head.
Dist(i) == IF i >= head THEN i - head ELSE i - head + FIFO_LOCK_QUEUE_LENGTH

\* The state of the lock structure and of the threads have their types: no
\* counter ever becomes negative, no index leaves the ring.
TypeOK ==
  /\ array \in [Slots -> [is_reader : BOOLEAN, is_signaled : BOOLEAN]]
  /\ head \in Slots /\ tail \in Slots
  /\ reader_active \in Nat /\ writer_active \in Nat
  /\ reader_waiting \in Nat /\ writer_waiting \in Nat
  /\ waiting \in Nat /\ signaled \in {0, 1}
  /\ pc \in [Threads -> Places]
  /\ mode \in [Threads -> BOOLEAN]
  /\ index \in [Threads -> Slots]

\* Readers exclude writers and a writer excludes everyone: what the callers of
\* sge_fifo_lock rely on when they touch the master lists.
MutualExclusion ==
  \A t \in Writers : Readers = {} /\ Writers = {t}

\* The ring never loses a wakeup: while threads are queued, somebody holds the
\* lock (and will run sge_fifo_ulock) or one of them has been signaled.
NoLostWakeupInRing ==
  Queued # {} =>
    \/ Readers \cup Writers # {}
    \/ \E t \in Queued : array[index[t]].is_signaled

\* While a thread stays queued, nobody gets the lock but threads queued before
\* it: a thread that arrives never takes the lock past the ring, not even a
\* reader past waiting readers.
FirstComeFirstServed ==
  [][\A t, u \in Threads :
       /\ pc[t] = "queued" /\ pc'[t] = "queued"
       /\ pc[u] # "holds" /\ pc'[u] = "holds"
       => pc[u] = "queued" /\ Dist(index[u]) < Dist(index[t])]_vars

\* QueuedLock with the threads in the ring as the queue.  A thread outside the
\* ring has not asked yet.  This says that a thread waits only if it has to, that
\* the lock is passed on in the order of the ring and to one writer or several
\* readers at a time, whatever the signals and counters do (sge_fifo_lock,
\* sge_fifo_ulock).
Queue == INSTANCE QueuedLock WITH
  place   <- [t \in Threads |-> IF pc[t] = "queued" THEN Dist(index[t]) + 1 ELSE 0],
  holders <- {t \in Threads : pc[t] = "holds"},
  reads   <- {t \in Threads : pc[t] \in {"queued", "holds"} /\ mode[t]}
ImplementsQueuedLock == Queue!Spec

\* A queued thread gets the lock, whatever the others do.
QueuedGetsLock ==
  \A t \in Threads : pc[t] = "queued" ~> pc[t] = "holds"

\* A thread that found the ring full waits "till there is space in the queue":
\* it is never left waiting when nobody is queued, holds the lock or is about
\* to return from its wait, for then nobody will ever signal it.
WaitsOutsideOnlyForSpace ==
  Outside # {} => \E t \in Threads : pc[t] \in {"queued", "holds", "woken"}
=============================================================================
