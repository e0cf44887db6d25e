------------------------------- MODULE Failover -------------------------------
(***************************************************************************)
(* How a shadow daemon replaces a qmaster that has died: the heartbeat of  *)
(* the qmaster, the lock file, the act_qmaster file, the protocol the      *)
(* shadow daemons run on them, and the start and the end of a qmaster      *)
(* (daemons/shadowd/shadowd.c, daemons/common/lock.c and                   *)
(* qmaster_heartbeat.c, daemons/qmaster/sge_qmaster_heartbeat.c,           *)
(* sge_qmaster_main.c and setup_qmaster.c).                                *)
(*                                                                         *)
(* The three files are all that the daemons share, so a step is one access *)
(* to one of them, or one question to a qmaster.  A number in the          *)
(* heartbeat file only counts as changed or not for a shadow daemon:       *)
(* recent[s] are the qmasters that beat since s looked, it never sees the  *)
(* same number after a whole round of the counter.                         *)
(*                                                                         *)
(* Time.  A qmaster beats every 30 seconds, a shadow daemon looks for a    *)
(* change every 240.  So each qmaster that is neither hung nor slow has    *)
(* beaten between two looks, unless it reads its spool directory; and      *)
(* qmasters that run side by side beat in turn.                            *)
(***************************************************************************)
EXTENDS Naturals

CONSTANTS
  Hosts,        \* hosts a qmaster can run on
  Shadows,      \* those with a shadow daemon, as in the shadow_masters file
  First,        \* the host of the first qmaster
  None,         \* no host
  Wrap,         \* the greatest heartbeat: 99999
  CheckEvery,   \* beats between two looks at the act_qmaster file: 20
  Kinds,        \* the kinds of trouble that may happen
  MaxTroubles   \* bound: how often something goes wrong

ASSUME HostsAssumption ==
  Shadows \subseteq Hosts /\ First \in Hosts /\ None \notin Hosts
ASSUME BeatAssumption ==
  Wrap \in Nat \ {0} /\ CheckEvery \in Nat \ {0} /\ MaxTroubles \in Nat

VARIABLES
  act,        \* the act_qmaster file
  lock,       \* the lock file exists
  beat,       \* the number in the heartbeat file
  pc,         \* where the qmaster of a host is
  name,       \* the host in act_qmaster as the starting qmaster has read it
  hung,       \* qmasters that do nothing and do not answer for a while
  slow,       \* qmasters whose timer thread is busy for a while
  waits,      \* <<h, g>>: g beats before h does so again
  shadow,     \* where a shadow daemon is
  old,        \* oldqmaster of a shadow daemon
  recent,     \* qmasters that beat since the shadow daemon looked
  stopped,    \* the qmaster was shut down on purpose
  happened,   \* the kinds of trouble that happened
  troubles    \* how often something went wrong

files == <<act, lock, beat>>
qmasters == <<pc, name, waits>>
shadows == <<shadow, old>>
trouble == <<hung, slow, happened, troubles>>
vars == <<files, qmasters, shadows, recent, stopped, trouble>>

\* begin: the process exists; named: act_qmaster is read; enrolled: the port is
\* open; beat, unlock, write: about to do this; setup: reads the spool
\* directory; running; stopping: the threads have ended.
Starting == {"begin", "named", "enrolled", "beat", "unlock"}
Answering == {"enrolled", "beat", "unlock", "write", "setup", "running", "stopping"}
Serving == {"setup", "running", "stopping"}
Places == {"off", "write"} \union Starting \union Serving

\* Places of a shadow daemon: idle; check, read, lock: in check_if_valid_shadow
\* and before qmaster_lock; the others with the lock file it has made.
Holding == {"latest", "compare", "ask", "release"}
ShadowPlaces == {"idle", "check", "read", "lock"} \union Holding

Init ==
  /\ act = First /\ lock = FALSE /\ beat = 1
  /\ pc = [h \in Hosts |-> IF h = First THEN "running" ELSE "off"]
  /\ name = [h \in Hosts |-> None]
  /\ hung = {} /\ slow = {} /\ waits = {}
  /\ shadow = [s \in Shadows |-> "idle"]
  /\ old = [s \in Shadows |-> None]
  /\ recent = [s \in Shadows |-> {First}]
  /\ stopped = FALSE /\ happened = {} /\ troubles = 0

\* Something of this kind goes wrong.  It may leave a lock file behind that
\* nobody is going to remove.
Trouble(kind, leavesLock) ==
  /\ kind \in Kinds /\ troubles < MaxTroubles
  /\ troubles' = troubles + 1
  /\ happened' = happened \union {kind}
                   \union (IF leavesLock THEN {"lock left"} ELSE {})

Healthy(h) == h \notin hung
Alive(h) == pc[h] \in Answering /\ Healthy(h)
Running == {h \in Hosts : pc[h] = "running"}

\* h does not wait any more, and nobody waits for it.
Gone(h) == {w \in waits : w[1] # h /\ w[2] # h}

\* h is the last to beat from now on.
Last(h) == Gone(h) \union {<<h, g>> : g \in Running \ {h}}

-----------------------------------------------------------------------------
\* Mutant: the counter wraps one number later.
NextBeat_WrapsLate == IF beat >= Wrap + 1 THEN 1 ELSE beat + 1

\* inc_qmaster_heartbeat.
NextBeat == IF beat >= Wrap THEN 1 ELSE beat + 1

\* h increments the heartbeat.
Increment(h) ==
  /\ beat' = NextBeat
  /\ recent' = [s \in Shadows |-> recent[s] \union {h}]

\* The act_qmaster file is looked at with every 20th heartbeat.
Replaced(h) == beat' % CheckEvery = 0 /\ act # h

\* increment_heartbeat: a qmaster that has been replaced ends with exit state
\* 100 and does not touch the lock.
Beat(h) ==
  /\ pc[h] = "running" /\ Healthy(h) /\ h \notin slow
  /\ \A g \in Running : Healthy(g) /\ g \notin slow => <<h, g>> \notin waits
  /\ Increment(h)
  /\ IF Replaced(h)
     THEN pc' = [pc EXCEPT ![h] = "off"] /\ waits' = Gone(h)
     ELSE UNCHANGED pc /\ waits' = Last(h)
  /\ UNCHANGED <<act, lock, name, shadows, stopped, trouble>>

\* qconf -km: the threads of the qmaster end.
Shutdown(h) ==
  /\ pc[h] = "running" /\ Healthy(h) /\ act = h
  /\ "shutdown" \in Kinds
  /\ pc' = [pc EXCEPT ![h] = "stopping"]
  /\ waits' = Gone(h)
  /\ UNCHANGED <<files, name, shadows, recent, stopped, trouble>>

\* Mutant: the lock file is left to the shadow daemons.
LockedAtEnd_Not(l) == l

\* The lock file after qmaster_lock, with or without success.
LockedAtEnd(l) == TRUE

\* qmaster_lock_and_shutdown: the lock file keeps the shadow daemons from
\* replacing this qmaster.  If one of them is checking at this moment, it may
\* hold the lock file and remove it later.
EndShutdown(h) ==
  /\ pc[h] = "stopping" /\ Healthy(h)
  /\ lock' = LockedAtEnd(lock)
  /\ pc' = [pc EXCEPT ![h] = "off"]
  /\ stopped' = TRUE
  /\ slow' = slow \ {h}
  /\ IF \E s \in Shadows : shadow[s] # "idle"
     THEN happened' = happened \union {"race"} ELSE UNCHANGED happened
  /\ UNCHANGED <<act, beat, name, waits, shadows, recent, hung, troubles>>

-----------------------------------------------------------------------------
\* The start of a qmaster.  prepare_enroll reads the act_qmaster file first ...
ReadAct(h) ==
  /\ pc[h] = "begin" /\ Healthy(h)
  /\ name' = [name EXCEPT ![h] = act]
  /\ pc' = [pc EXCEPT ![h] = "named"]
  /\ UNCHANGED <<files, waits, shadows, recent, stopped, trouble>>

\* ... then it opens the port ...
Enroll(h) ==
  /\ pc[h] = "named" /\ Healthy(h)
  /\ pc' = [pc EXCEPT ![h] = "enrolled"]
  /\ UNCHANGED <<files, name, waits, shadows, recent, stopped, trouble>>

\* is_alive
OtherAlive(g) == Alive(g)

\* ... and asks the qmaster named in the file.  If that is another one and it
\* answers, this one exits.  It does not know of the lock file.
AskOther(h) ==
  /\ pc[h] = "enrolled" /\ Healthy(h)
  /\ IF name[h] # h /\ OtherAlive(name[h])
     THEN /\ pc' = [pc EXCEPT ![h] = "off"]
          /\ happened' = happened \union {"lock left"}
     ELSE pc' = [pc EXCEPT ![h] = "beat"] /\ UNCHANGED happened
  /\ name' = [name EXCEPT ![h] = None]
  /\ UNCHANGED <<files, waits, shadows, recent, stopped, hung, slow, troubles>>

\* The startup heartbeat.
FirstBeat(h) ==
  /\ pc[h] = "beat" /\ Healthy(h)
  /\ Increment(h)
  /\ pc' = [pc EXCEPT ![h] = "unlock"]
  /\ UNCHANGED <<act, lock, name, waits, shadows, stopped, trouble>>

\* sge_setup_qmaster removes the lock file ...
Unlock(h) ==
  /\ pc[h] = "unlock" /\ Healthy(h)
  /\ lock' = FALSE
  /\ pc' = [pc EXCEPT ![h] = "write"]
  /\ UNCHANGED <<act, beat, name, waits, shadows, recent, stopped, trouble>>

\* ... and writes the act_qmaster file ...
WriteAct(h) ==
  /\ pc[h] = "write" /\ Healthy(h)
  /\ act' = h
  /\ pc' = [pc EXCEPT ![h] = "setup"]
  /\ UNCHANGED <<lock, beat, name, waits, shadows, recent, stopped, trouble>>

\* ... before it reads the spool directory and starts the timer thread.
Run(h) ==
  /\ pc[h] = "setup" /\ Healthy(h)
  /\ pc' = [pc EXCEPT ![h] = "running"]
  /\ waits' = Last(h)
  /\ UNCHANGED <<files, name, shadows, recent, stopped, trouble>>

-----------------------------------------------------------------------------
\* A shadow daemon looks at the heartbeat at the end of an interval.
Look(s) ==
  /\ shadow[s] = "idle"
  /\ \A h \in Hosts :
       pc[h] \in {"unlock", "write", "running", "stopping"} /\ Healthy(h) /\ h \notin slow
         => h \in recent[s]
  /\ shadow' = IF recent[s] = {} THEN [shadow EXCEPT ![s] = "check"] ELSE shadow
  /\ recent' = [recent EXCEPT ![s] = {}]
  /\ UNCHANGED <<files, qmasters, old, stopped, trouble>>

\* check_if_valid_shadow: the lock file ...
CheckLock(s) ==
  /\ shadow[s] = "check"
  /\ shadow' = [shadow EXCEPT ![s] = IF lock THEN "idle" ELSE "read"]
  /\ UNCHANGED <<files, qmasters, old, recent, stopped, trouble>>

\* Mutant: strcmp is taken for equality.
IsCandidate_Inverted(s, q) == s = q

\* The old qmaster was not on the host of the shadow daemon.
IsCandidate(s, q) == s # q

\* ... and the act_qmaster file.
ReadOld(s) ==
  /\ shadow[s] = "read"
  /\ IF IsCandidate(s, act)
     THEN shadow' = [shadow EXCEPT ![s] = "lock"] /\ old' = [old EXCEPT ![s] = act]
     ELSE shadow' = [shadow EXCEPT ![s] = "idle"] /\ UNCHANGED old
  /\ UNCHANGED <<files, qmasters, recent, stopped, trouble>>

\* Mutant: the lock file is opened without O_EXCL.
MayLock_NotExclusive(l) == TRUE

\* qmaster_lock creates the file, unless it exists.
MayLock(l) == ~l

TakeLock(s) ==
  /\ shadow[s] = "lock"
  /\ \/ /\ MayLock(lock)
        /\ lock' = TRUE
        /\ shadow' = [shadow EXCEPT ![s] = "latest"]
        /\ UNCHANGED old
     \/ /\ ~MayLock(lock)
        /\ shadow' = [shadow EXCEPT ![s] = "idle"]
        /\ old' = [old EXCEPT ![s] = None]
        /\ UNCHANGED lock
  /\ UNCHANGED <<act, beat, qmasters, recent, stopped, trouble>>

\* Mutant: the heartbeat is not looked at again.
SameHeartbeat_Any(s) == TRUE

\* latest_heartbeat == heartbeat
SameHeartbeat(s) == recent[s] = {}

\* With the lock file, it looks at the heartbeat again, ...
ReadLatest(s) ==
  /\ shadow[s] = "latest"
  /\ shadow' = [shadow EXCEPT ![s] = IF SameHeartbeat(s) THEN "compare" ELSE "release"]
  /\ UNCHANGED <<files, qmasters, old, recent, stopped, trouble>>

\* ... at the act_qmaster file, ...
CompareNames(s) ==
  /\ shadow[s] = "compare"
  /\ shadow' = [shadow EXCEPT ![s] = IF act = old[s] THEN "ask" ELSE "release"]
  /\ UNCHANGED <<files, qmasters, old, recent, stopped, trouble>>

\* ... and asks the old qmaster.  If that does not answer, it starts a qmaster,
\* which is going to remove the lock file.  A qmaster that is still there
\* keeps the port, and the new one gives up.
AskOld(s) ==
  /\ shadow[s] = "ask"
  /\ \/ /\ Alive(old[s])
        /\ shadow' = [shadow EXCEPT ![s] = "release"]
        /\ UNCHANGED <<old, pc, happened>>
     \/ /\ ~Alive(old[s])
        /\ shadow' = [shadow EXCEPT ![s] = "idle"]
        /\ old' = [old EXCEPT ![s] = None]
        /\ IF pc[s] = "off"
           THEN pc' = [pc EXCEPT ![s] = "begin"] /\ UNCHANGED happened
           ELSE UNCHANGED pc /\ happened' = happened \union {"lock left"}
  /\ UNCHANGED <<files, name, waits, recent, stopped, hung, slow, troubles>>

\* qmaster_unlock
Release(s) ==
  /\ shadow[s] = "release"
  /\ lock' = FALSE
  /\ shadow' = [shadow EXCEPT ![s] = "idle"]
  /\ old' = [old EXCEPT ![s] = None]
  /\ UNCHANGED <<act, beat, qmasters, recent, stopped, trouble>>

-----------------------------------------------------------------------------
\* A qmaster dies.
Crash(h) ==
  /\ pc[h] # "off"
  /\ Trouble("crash", pc[h] \in Starting)
  /\ pc' = [pc EXCEPT ![h] = "off"]
  /\ name' = [name EXCEPT ![h] = None]
  /\ waits' = Gone(h)
  /\ hung' = hung \ {h} /\ slow' = slow \ {h}
  /\ UNCHANGED <<files, shadows, recent, stopped>>

\* It hangs, or its machine does, ...
Hang(h) ==
  /\ pc[h] \in Serving /\ Healthy(h)
  /\ Trouble("hang", FALSE)
  /\ hung' = hung \union {h}
  /\ UNCHANGED <<files, qmasters, shadows, recent, stopped, slow>>

\* ... or its timer thread waits for a long time, ...
Slow(h) ==
  /\ pc[h] = "running" /\ h \notin slow
  /\ Trouble("slow", FALSE)
  /\ slow' = slow \union {h}
  /\ UNCHANGED <<files, qmasters, shadows, recent, stopped, hung>>

\* ... and goes on.
GoesOn(h) ==
  /\ h \in hung \union slow
  /\ hung' = hung \ {h} /\ slow' = slow \ {h}
  /\ UNCHANGED <<files, qmasters, shadows, recent, stopped, happened, troubles>>

\* An administrator starts a qmaster.
StartByHand(h) ==
  /\ pc[h] = "off"
  /\ Trouble("manual", FALSE)
  /\ pc' = [pc EXCEPT ![h] = "begin"]
  /\ stopped' = FALSE
  /\ UNCHANGED <<files, name, waits, shadows, recent, hung, slow>>

\* A shadow daemon dies and is started again: it reads the heartbeat anew.
ShadowDies(s) ==
  /\ shadow[s] # "idle"
  /\ Trouble("shadow", shadow[s] \in Holding)
  /\ shadow' = [shadow EXCEPT ![s] = "idle"]
  /\ old' = [old EXCEPT ![s] = None]
  /\ recent' = [recent EXCEPT ![s] = {}]
  /\ UNCHANGED <<files, qmasters, stopped, hung, slow>>

-----------------------------------------------------------------------------
Qmaster(h) ==
  \/ Beat(h) \/ EndShutdown(h)
  \/ ReadAct(h) \/ Enroll(h) \/ AskOther(h) \/ FirstBeat(h) \/ Unlock(h)
  \/ WriteAct(h) \/ Run(h)

ShadowDaemon(s) ==
  \/ Look(s) \/ CheckLock(s) \/ ReadOld(s) \/ TakeLock(s)
  \/ ReadLatest(s) \/ CompareNames(s) \/ AskOld(s) \/ Release(s)

Next ==
  \/ \E h \in Hosts :
       \/ Qmaster(h)
       \/ Shutdown(h)
       \/ Crash(h) \/ Hang(h) \/ Slow(h) \/ GoesOn(h) \/ StartByHand(h)
  \/ \E s \in Shadows : ShadowDaemon(s) \/ ShadowDies(s)

Spec == Init /\ [][Next]_vars

\* The daemons run when they can, and what hangs goes on some day.
Fairness ==
  /\ \A h \in Hosts : WF_vars(Qmaster(h)) /\ WF_vars(GoesOn(h))
  /\ \A s \in Shadows : WF_vars(ShadowDaemon(s))

FairSpec == Spec /\ Fairness

-----------------------------------------------------------------------------
TypeOK ==
  /\ act \in Hosts /\ lock \in BOOLEAN /\ beat \in 1 .. Wrap
  /\ pc \in [Hosts -> Places]
  /\ name \in [Hosts -> Hosts \union {None}]
  /\ hung \subseteq Hosts /\ slow \subseteq Hosts
  /\ waits \subseteq Hosts \X Hosts
  /\ shadow \in [Shadows -> ShadowPlaces]
  /\ old \in [Shadows -> Hosts \union {None}]
  /\ recent \in [Shadows -> SUBSET Hosts]
  /\ stopped \in BOOLEAN
  /\ troubles \in 0 .. MaxTroubles

\* The lock file is exclusive, from the shadow daemon that creates it to the
\* qmaster that removes it (qmaster_lock, qmaster_unlock), unless somebody
\* starts a qmaster by hand.
LockIsExclusive ==
  "manual" \notin happened =>
    /\ \A s, t \in Shadows : shadow[s] \in Holding /\ shadow[t] \in Holding => s = t
    /\ \A g, h \in Hosts : pc[g] \in Starting /\ pc[h] \in Starting => g = h
    /\ \A s \in Shadows, h \in Hosts : ~(shadow[s] \in Holding /\ pc[h] \in Starting)
    /\ (\E s \in Shadows : shadow[s] \in Holding) => lock
    /\ (\E h \in Hosts : pc[h] \in Starting) => lock

\* "they run a protocol which ensures that only one of them will start-up a new
\* master daemon" (sge_shadowd.8): as long as no qmaster hangs and none is
\* started by hand there is one at most.
AtMostOneMaster ==
  happened \intersect {"hang", "manual"} = {} =>
    \A g, h \in Hosts : pc[g] \in Serving /\ pc[h] \in Serving => g = h

\* A qmaster that was shut down on purpose is not replaced, unless a shadow
\* daemon was checking it meanwhile (qmaster_lock_and_shutdown).
ShutdownIsFinal ==
  [][stopped /\ stopped' /\ happened \intersect {"hang", "race", "manual"} = {}
       => \A h \in Hosts : pc[h] = "off" => pc'[h] = "off"]_vars

\* A qmaster that has died is replaced, unless a lock file is left behind by
\* one that could not start, or by a shadow daemon that died.
MasterComesBack ==
  []<>(\/ \E h \in Hosts : pc[h] = "running"
       \/ stopped
       \/ lock /\ "lock left" \in happened)

\* A qmaster that has been replaced notices it (increment_heartbeat).
ReplacedStops ==
  \A h \in Hosts :
    pc[h] = "running" /\ act # h ~> pc[h] # "running" \/ act = h
=============================================================================
