----------------------------- MODULE QueuedLock -----------------------------
(***************************************************************************)
(* What the read/write lock of the qmaster promises to its callers         *)
(* (sge_fifo_lock and sge_fifo_ulock in libs/uti/sge_lock_fifo.c): a       *)
(* thread that finds the lock free for it and nobody waiting has it at     *)
(* once; everybody else waits in one queue for readers and writers and     *)
(* gets the lock as the first of it, as soon as the lock is free for it.   *)
(* There are no counters, no ring and no signals here.                     *)
(***************************************************************************)
EXTENDS Naturals, FiniteSets

CONSTANT Threads

VARIABLES
  place,     \* place of each thread in the queue, 0 if it does not wait
  holders,   \* threads that have the lock
  reads      \* threads that wait or have the lock to read

vars == <<place, holders, reads>>

Init == place = [t \in Threads |-> 0] /\ holders = {} /\ reads = {}

Waiting == {t \in Threads : place[t] > 0}

\* Readers share the lock.
FreeFor(is_reader) ==
  \/ holders = {}
  \/ is_reader /\ holders \subseteq reads

Asks(t, is_reader) ==
  /\ t \notin holders /\ place[t] = 0
  /\ reads' = IF is_reader THEN reads \union {t} ELSE reads

AtOnce(is_reader) == Waiting = {} /\ FreeFor(is_reader)

\* A thread that asks for the lock has it at once ...
Take(t, is_reader) ==
  /\ Asks(t, is_reader) /\ AtOnce(is_reader)
  /\ holders' = holders \union {t}
  /\ UNCHANGED place

\* ... or becomes the last of the queue.
Join(t, is_reader) ==
  /\ Asks(t, is_reader) /\ ~AtOnce(is_reader)
  /\ place' = [place EXCEPT ![t] = Cardinality(Waiting) + 1]
  /\ UNCHANGED holders

\* The first of the queue gets the lock.
Get(t) ==
  /\ place[t] = 1 /\ FreeFor(t \in reads)
  /\ holders' = holders \union {t}
  /\ place' = [u \in Threads |-> IF place[u] > 0 THEN place[u] - 1 ELSE 0]
  /\ UNCHANGED reads

Release(t) ==
  /\ t \in holders
  /\ holders' = holders \ {t} /\ reads' = reads \ {t}
  /\ UNCHANGED place

Next ==
  \E t \in Threads :
    \/ \E is_reader \in BOOLEAN : Take(t, is_reader) \/ Join(t, is_reader)
    \/ Get(t)
    \/ Release(t)

Spec == Init /\ [][Next]_vars
=============================================================================
