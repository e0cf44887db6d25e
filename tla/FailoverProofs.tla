---------------------------- MODULE FailoverProofs ----------------------------
(***************************************************************************)
(* What the files of the shadow daemons guarantee, for any number of hosts *)
(* and shadow daemons and any number of troubles: the lock file is         *)
(* exclusive, and as long as no qmaster hangs and none is started by hand, *)
(* there is one qmaster at most, and one that was shut down on purpose     *)
(* stays down.                                                             *)
(***************************************************************************)
EXTENDS Failover, TLAPS

\* No qmaster has hung, none was started by hand.
Calm == happened \intersect {"hang", "manual"} = {}

\* There is one process at most, and the act_qmaster file names it once it
\* serves.
OneProcess ==
  /\ hung = {}
  /\ \A g, h \in Hosts : pc[g] # "off" /\ pc[h] # "off" => g = h
  /\ \A h \in Hosts : pc[h] \in Serving => act = h

\* A shadow daemon that is checking while the name in the act_qmaster file is
\* about to change has looked at the heartbeat before the startup heartbeat of
\* the new qmaster.
Noticed ==
  /\ \A h \in slow : pc[h] \in {"running", "stopping"}
  /\ \A h \in Hosts, s \in Shadows :
       pc[h] \in {"unlock", "write"} /\ shadow[s] # "idle" => h \in recent[s]

\* So once it has seen the heartbeat unchanged, nothing is starting, and the
\* name it compares stays the one in the file.
Compared ==
  /\ \A s \in Shadows, h \in Hosts :
       shadow[s] \in {"compare", "ask"} => pc[h] \notin Starting \union {"write"}
  /\ \A s \in Shadows : shadow[s] = "ask" => old[s] = act

\* After a shutdown on purpose nothing is under way.
Quiet ==
  stopped /\ happened \intersect {"hang", "race", "manual"} = {} =>
    /\ lock
    /\ \A h \in Hosts : pc[h] = "off"
    /\ \A s \in Shadows : shadow[s] \in {"idle", "check"}

Inv ==
  /\ TypeOK /\ LockIsExclusive
  /\ Calm => OneProcess /\ Noticed /\ Compared
  /\ Quiet

-----------------------------------------------------------------------------
\* What a trouble changes: it is counted, and its kind is kept.
LEMMA TroubleCounted ==
  ASSUME TypeOK, NEW kind, NEW leaves, Trouble(kind, leaves)
  PROVE  /\ troubles' \in 0 .. MaxTroubles
         /\ kind \in happened' /\ happened \subseteq happened'
<1>1. troubles' \in 0 .. MaxTroubles
  <2>1. troubles < MaxTroubles /\ troubles' = troubles + 1
    BY Zenon DEF Trouble
  <2> QED BY <2>1, BeatAssumption DEF TypeOK
<1>2. kind \in happened' /\ happened \subseteq happened'
  BY Zenon DEF Trouble
<1> QED BY <1>1, <1>2

\* Every step preserves the types.
LEMMA TypePreserved ==
  ASSUME TypeOK, [Next]_vars
  PROVE  TypeOK'
<1> USE HostsAssumption, BeatAssumption
       DEF files, qmasters, shadows, trouble,
           TypeOK,
           Places, Starting, Serving, ShadowPlaces, Holding, NextBeat, Gone, Last, Running
<1>1. CASE UNCHANGED vars
  BY <1>1 DEF vars
<1>2. ASSUME NEW h \in Hosts,
             Beat(h) \/ EndShutdown(h) \/ ReadAct(h) \/ Enroll(h) \/ AskOther(h) \/ FirstBeat(h) \/ Unlock(h)
               \/ WriteAct(h) \/ Run(h) \/ Shutdown(h) \/ Crash(h) \/ Hang(h) \/ Slow(h) \/ GoesOn(h) \/ StartByHand(h)
      PROVE  TypeOK'
  <2>1. CASE Beat(h)
    BY <2>1 DEF Beat, Increment, Replaced
  <2>2. CASE EndShutdown(h)
    BY <2>2 DEF EndShutdown, LockedAtEnd
  <2>3. CASE ReadAct(h)
    BY <2>3 DEF ReadAct
  <2>4. CASE Enroll(h)
    BY <2>4 DEF Enroll
  <2>5. CASE AskOther(h)
    BY <2>5 DEF AskOther
  <2>6. CASE FirstBeat(h)
    BY <2>6 DEF FirstBeat, Increment
  <2>7. CASE Unlock(h)
    BY <2>7 DEF Unlock
  <2>8. CASE WriteAct(h)
    BY <2>8 DEF WriteAct
  <2>9. CASE Run(h)
    BY <2>9 DEF Run
  <2>10. CASE Shutdown(h)
    BY <2>10 DEF Shutdown
  <2>11. CASE Crash(h)
    BY <2>11, TroubleCounted DEF Crash
  <2>12. CASE Hang(h)
    BY <2>12, TroubleCounted DEF Hang
  <2>13. CASE Slow(h)
    BY <2>13, TroubleCounted DEF Slow
  <2>14. CASE GoesOn(h)
    BY <2>14 DEF GoesOn
  <2>15. CASE StartByHand(h)
    BY <2>15, TroubleCounted DEF StartByHand
  <2> QED
    BY <1>2, <2>1, <2>2, <2>3, <2>4, <2>5, <2>6, <2>7, <2>8, <2>9, <2>10, <2>11, <2>12, <2>13, <2>14, <2>15
<1>3. ASSUME NEW s \in Shadows,
             Look(s) \/ CheckLock(s) \/ ReadOld(s) \/ TakeLock(s) \/ ReadLatest(s)
               \/ CompareNames(s) \/ AskOld(s) \/ Release(s) \/ ShadowDies(s)
      PROVE  TypeOK'
  <2>1. CASE Look(s)
    BY <2>1 DEF Look
  <2>2. CASE CheckLock(s)
    BY <2>2 DEF CheckLock
  <2>3. CASE ReadOld(s)
    BY <2>3 DEF ReadOld, IsCandidate
  <2>4. CASE TakeLock(s)
    BY <2>4 DEF TakeLock, MayLock
  <2>5. CASE ReadLatest(s)
    BY <2>5 DEF ReadLatest, SameHeartbeat
  <2>6. CASE CompareNames(s)
    BY <2>6 DEF CompareNames
  <2>7. CASE AskOld(s)
    BY <2>7 DEF AskOld
  <2>8. CASE Release(s)
    BY <2>8 DEF Release
  <2>9. CASE ShadowDies(s)
    BY <2>9, TroubleCounted DEF ShadowDies
  <2> QED
    BY <1>3, <2>1, <2>2, <2>3, <2>4, <2>5, <2>6, <2>7, <2>8, <2>9
<1> QED
  BY <1>1, <1>2, <1>3 DEF Next, Qmaster, ShadowDaemon

\* The lock file stays exclusive: only TakeLock makes a holder, and AskOld hands
\* it over to a qmaster.
LEMMA LockPreserved ==
  ASSUME TypeOK, LockIsExclusive, [Next]_vars
  PROVE  LockIsExclusive'
<1> USE HostsAssumption, BeatAssumption
       DEF files, qmasters, shadows, trouble,
           TypeOK, LockIsExclusive,
           Places, Starting, Serving, ShadowPlaces, Holding
<1>1. CASE UNCHANGED vars
  BY <1>1 DEF vars
<1>2. ASSUME NEW h \in Hosts,
             Beat(h) \/ EndShutdown(h) \/ ReadAct(h) \/ Enroll(h) \/ AskOther(h) \/ FirstBeat(h) \/ Unlock(h)
               \/ WriteAct(h) \/ Run(h) \/ Shutdown(h) \/ Crash(h) \/ Hang(h) \/ Slow(h) \/ GoesOn(h) \/ StartByHand(h)
      PROVE  LockIsExclusive'
  <2>1. CASE Beat(h)
    BY <2>1 DEF Beat, Increment, Replaced
  <2>2. CASE EndShutdown(h)
    BY <2>2 DEF EndShutdown, LockedAtEnd
  <2>3. CASE ReadAct(h)
    BY <2>3 DEF ReadAct
  <2>4. CASE Enroll(h)
    BY <2>4 DEF Enroll
  <2>5. CASE AskOther(h)
    BY <2>5 DEF AskOther
  <2>6. CASE FirstBeat(h)
    BY <2>6 DEF FirstBeat, Increment
  <2>7. CASE Unlock(h)
    BY <2>7 DEF Unlock
  <2>8. CASE WriteAct(h)
    BY <2>8 DEF WriteAct
  <2>9. CASE Run(h)
    BY <2>9 DEF Run
  <2>10. CASE Shutdown(h)
    BY <2>10 DEF Shutdown
  <2>11. CASE Crash(h)
    BY <2>11, TroubleCounted DEF Crash
  <2>12. CASE Hang(h)
    BY <2>12, TroubleCounted DEF Hang
  <2>13. CASE Slow(h)
    BY <2>13, TroubleCounted DEF Slow
  <2>14. CASE GoesOn(h)
    BY <2>14 DEF GoesOn
  <2>15. CASE StartByHand(h)
    BY <2>15, TroubleCounted DEF StartByHand
  <2> QED
    BY <1>2, <2>1, <2>2, <2>3, <2>4, <2>5, <2>6, <2>7, <2>8, <2>9, <2>10, <2>11, <2>12, <2>13, <2>14, <2>15
<1>3. ASSUME NEW s \in Shadows,
             Look(s) \/ CheckLock(s) \/ ReadOld(s) \/ TakeLock(s) \/ ReadLatest(s)
               \/ CompareNames(s) \/ AskOld(s) \/ Release(s) \/ ShadowDies(s)
      PROVE  LockIsExclusive'
  <2>1. CASE Look(s)
    BY <2>1 DEF Look
  <2>2. CASE CheckLock(s)
    BY <2>2 DEF CheckLock
  <2>3. CASE ReadOld(s)
    BY <2>3 DEF ReadOld, IsCandidate
  <2>4. CASE TakeLock(s)
    BY <2>4 DEF TakeLock, MayLock
  <2>5. CASE ReadLatest(s)
    BY <2>5 DEF ReadLatest, SameHeartbeat
  <2>6. CASE CompareNames(s)
    BY <2>6 DEF CompareNames
  <2>7. CASE AskOld(s)
    <3>1. happened \subseteq happened'
      BY <2>7 DEF AskOld
    <3>2. CASE Alive(old[s])
      BY <2>7, <3>1, <3>2 DEF AskOld
    <3>3. CASE ~Alive(old[s])
      <4>1. CASE pc[s] = "off"
        BY <2>7, <3>3, <4>1 DEF AskOld
      <4>2. CASE pc[s] # "off"
        BY <2>7, <3>3, <4>2 DEF AskOld
      <4> QED BY <4>1, <4>2
    <3> QED BY <3>2, <3>3
  <2>8. CASE Release(s)
    BY <2>8 DEF Release
  <2>9. CASE ShadowDies(s)
    BY <2>9, TroubleCounted DEF ShadowDies
  <2> QED
    BY <1>3, <2>1, <2>2, <2>3, <2>4, <2>5, <2>6, <2>7, <2>8, <2>9
<1> QED
  BY <1>1, <1>2, <1>3 DEF Next, Qmaster, ShadowDaemon

\* As long as nothing hangs and nobody starts a qmaster by hand, a shadow daemon
\* only starts one when there is none.
LEMMA CalmPreserved ==
  ASSUME TypeOK, LockIsExclusive, Calm => OneProcess /\ Noticed /\ Compared, [Next]_vars, Calm'
  PROVE  OneProcess' /\ Noticed' /\ Compared'
<1> USE HostsAssumption, BeatAssumption
       DEF files, qmasters, shadows, trouble,
           Calm, OneProcess, Noticed, Compared, TypeOK, LockIsExclusive,
           Places, Starting, Serving, ShadowPlaces, Holding, Answering
<1>1. CASE UNCHANGED vars
  BY <1>1 DEF vars
<1>2. ASSUME NEW h \in Hosts,
             Beat(h) \/ EndShutdown(h) \/ ReadAct(h) \/ Enroll(h) \/ AskOther(h) \/ FirstBeat(h) \/ Unlock(h)
               \/ WriteAct(h) \/ Run(h) \/ Shutdown(h) \/ Crash(h) \/ Hang(h) \/ Slow(h) \/ GoesOn(h) \/ StartByHand(h)
      PROVE  OneProcess' /\ Noticed' /\ Compared'
  <2>1. CASE Beat(h)
    BY <2>1 DEF Beat, Increment, Replaced
  <2>2. CASE EndShutdown(h)
    BY <2>2 DEF EndShutdown, LockedAtEnd
  <2>3. CASE ReadAct(h)
    BY <2>3 DEF ReadAct
  <2>4. CASE Enroll(h)
    BY <2>4 DEF Enroll
  <2>5. CASE AskOther(h)
    <3>1. hung' = hung /\ slow' = slow
      BY <2>5 DEF AskOther
    <3>2. Calm
      <4>1. happened' = happened \union {"lock left"} \/ happened' = happened
        BY <2>5, Zenon DEF AskOther
      <4> QED BY <4>1
    <3>3. /\ pc[h] = "enrolled" /\ \A g \in Hosts \ {h} : pc'[g] = pc[g]
          /\ pc'[h] \in {"off", "beat"}
      <4>1. pc[h] = "enrolled"
        BY <2>5 DEF AskOther
      <4>2. pc' = [pc EXCEPT ![h] = "off"] \/ pc' = [pc EXCEPT ![h] = "beat"]
        BY <2>5, Zenon DEF AskOther
      <4> QED BY <4>1, <4>2
    <3>4. act' = act /\ shadow' = shadow /\ old' = old /\ recent' = recent
      BY <2>5 DEF AskOther
    <3> QED BY <3>1, <3>2, <3>3, <3>4
  <2>6. CASE FirstBeat(h)
    BY <2>6 DEF FirstBeat, Increment
  <2>7. CASE Unlock(h)
    BY <2>7 DEF Unlock
  <2>8. CASE WriteAct(h)
    BY <2>8 DEF WriteAct
  <2>9. CASE Run(h)
    BY <2>9 DEF Run
  <2>10. CASE Shutdown(h)
    BY <2>10 DEF Shutdown
  <2>11. CASE Crash(h)
    BY <2>11, TroubleCounted DEF Crash
  <2>12. CASE Hang(h)
    BY <2>12, TroubleCounted DEF Hang
  <2>13. CASE Slow(h)
    BY <2>13, TroubleCounted DEF Slow
  <2>14. CASE GoesOn(h)
    BY <2>14 DEF GoesOn
  <2>15. CASE StartByHand(h)
    BY <2>15, TroubleCounted DEF StartByHand
  <2> QED
    BY <1>2, <2>1, <2>2, <2>3, <2>4, <2>5, <2>6, <2>7, <2>8, <2>9, <2>10, <2>11, <2>12, <2>13, <2>14, <2>15
<1>3. ASSUME NEW s \in Shadows,
             Look(s) \/ CheckLock(s) \/ ReadOld(s) \/ TakeLock(s) \/ ReadLatest(s)
               \/ CompareNames(s) \/ AskOld(s) \/ Release(s) \/ ShadowDies(s)
      PROVE  OneProcess' /\ Noticed' /\ Compared'
  <2>1. CASE Look(s)
    <3>1. Calm /\ UNCHANGED <<hung, slow, pc, act, old>>
      BY <2>1 DEF Look
    <3>2. OneProcess'
      BY <3>1
    <3>3. /\ shadow[s] = "idle" /\ shadow'[s] \in {"idle", "check"}
          /\ shadow'[s] # "idle" => recent[s] = {}
          /\ \A t \in Shadows \ {s} : shadow'[t] = shadow[t] /\ recent'[t] = recent[t]
      BY <2>1 DEF Look
    <3>4. ASSUME NEW g \in Hosts, pc[g] \in {"unlock", "write"}
          PROVE  g \in recent[s]
      BY <2>1, <3>1, <3>4 DEF Look, Healthy
    <3>5. Noticed'
      BY <3>1, <3>3, <3>4
    <3>6. Compared'
      BY <3>1, <3>3
    <3> QED BY <3>2, <3>5, <3>6
  <2>2. CASE CheckLock(s)
    BY <2>2 DEF CheckLock
  <2>3. CASE ReadOld(s)
    BY <2>3 DEF ReadOld, IsCandidate
  <2>4. CASE TakeLock(s)
    BY <2>4 DEF TakeLock, MayLock
  <2>5. CASE ReadLatest(s)
    <3>1. Calm /\ UNCHANGED <<hung, slow, pc, act, old, recent>>
      BY <2>5 DEF ReadLatest
    <3>2. OneProcess' /\ Noticed'
      BY <2>5, <3>1 DEF ReadLatest
    <3>3. ASSUME NEW g \in Hosts, shadow'[s] = "compare"
          PROVE  pc[g] \notin Starting \union {"write"}
      <4>1. recent[s] = {} /\ shadow[s] = "latest"
        BY <2>5, <3>3 DEF ReadLatest, SameHeartbeat
      <4>2. pc[g] \notin {"unlock", "write"}
        BY <3>1, <4>1
      <4>3. pc[g] \notin Starting
        BY <3>1, <4>1
      <4> QED BY <4>2, <4>3
    <3>4. /\ shadow'[s] \in {"compare", "release"}
          /\ \A t \in Shadows \ {s} : shadow'[t] = shadow[t]
      BY <2>5 DEF ReadLatest, SameHeartbeat
    <3>5. Compared'
      BY <3>1, <3>3, <3>4
    <3> QED BY <3>2, <3>5
  <2>6. CASE CompareNames(s)
    BY <2>6 DEF CompareNames
  <2>7. CASE AskOld(s)
    <3>1. shadow[s] = "ask" /\ UNCHANGED <<hung, slow, act, recent>>
      BY <2>7 DEF AskOld
    <3>2. Calm
      <4>1. happened' = happened \union {"lock left"} \/ happened' = happened
        BY <2>7, Zenon DEF AskOld
      <4> QED BY <4>1
    <3>3. CASE Alive(old[s])
      BY <2>7, <3>1, <3>2, <3>3 DEF AskOld
    <3>4. CASE ~Alive(old[s])
      <4>1. old[s] = act
        BY <3>1, <3>2
      <4>2. \A g \in Hosts : pc[g] = "off"
        <5>1. ASSUME NEW g \in Hosts, pc[g] \in Serving
              PROVE  FALSE
          BY <3>2, <3>4, <4>1, <5>1 DEF Alive, Healthy
        <5>2. \A g \in Hosts : pc[g] \notin Starting \union {"write"}
          BY <3>1, <3>2
        <5> QED BY <5>1, <5>2
      <4>3. /\ shadow'[s] = "idle" /\ \A t \in Shadows \ {s} : shadow'[t] = shadow[t] /\ old'[t] = old[t]
            /\ pc'[s] = "begin" /\ \A g \in Hosts \ {s} : pc'[g] = "off"
        <5>1. /\ shadow' = [shadow EXCEPT ![s] = "idle"] /\ old' = [old EXCEPT ![s] = None]
              /\ pc' = [pc EXCEPT ![s] = "begin"]
          BY <2>7, <3>4, <4>2 DEF AskOld
        <5> QED BY <4>2, <5>1
      <4>4. \A t \in Shadows \ {s} : shadow[t] \notin Holding
        BY <3>1, <3>2
      <4>5. OneProcess'
        BY <3>1, <3>2, <4>3
      <4>6. Noticed'
        BY <3>1, <3>2, <4>2, <4>3
      <4>7. Compared'
        BY <4>3, <4>4
      <4> QED BY <4>5, <4>6, <4>7
    <3> QED BY <3>3, <3>4
  <2>8. CASE Release(s)
    BY <2>8 DEF Release
  <2>9. CASE ShadowDies(s)
    BY <2>9, TroubleCounted DEF ShadowDies
  <2> QED
    BY <1>3, <2>1, <2>2, <2>3, <2>4, <2>5, <2>6, <2>7, <2>8, <2>9
<1> QED
  BY <1>1, <1>2, <1>3 DEF Next, Qmaster, ShadowDaemon

\* After a shutdown on purpose nothing is started.
LEMMA QuietPreserved ==
  ASSUME TypeOK, Calm => OneProcess, Quiet, [Next]_vars
  PROVE  Quiet'
<1> USE HostsAssumption, BeatAssumption
       DEF files, qmasters, shadows, trouble,
           Quiet, Calm, OneProcess, TypeOK,
           Places, Starting, Serving, ShadowPlaces, Holding
<1>1. CASE UNCHANGED vars
  BY <1>1 DEF vars
<1>2. ASSUME NEW h \in Hosts,
             Beat(h) \/ EndShutdown(h) \/ ReadAct(h) \/ Enroll(h) \/ AskOther(h) \/ FirstBeat(h) \/ Unlock(h)
               \/ WriteAct(h) \/ Run(h) \/ Shutdown(h) \/ Crash(h) \/ Hang(h) \/ Slow(h) \/ GoesOn(h) \/ StartByHand(h)
      PROVE  Quiet'
  <2>1. CASE Beat(h)
    BY <2>1 DEF Beat, Increment, Replaced
  <2>2. CASE EndShutdown(h)
    BY <2>2 DEF EndShutdown, LockedAtEnd
  <2>3. CASE ReadAct(h)
    BY <2>3 DEF ReadAct
  <2>4. CASE Enroll(h)
    BY <2>4 DEF Enroll
  <2>5. CASE AskOther(h)
    BY <2>5 DEF AskOther
  <2>6. CASE FirstBeat(h)
    BY <2>6 DEF FirstBeat, Increment
  <2>7. CASE Unlock(h)
    BY <2>7 DEF Unlock
  <2>8. CASE WriteAct(h)
    BY <2>8 DEF WriteAct
  <2>9. CASE Run(h)
    BY <2>9 DEF Run
  <2>10. CASE Shutdown(h)
    BY <2>10 DEF Shutdown
  <2>11. CASE Crash(h)
    BY <2>11, TroubleCounted DEF Crash
  <2>12. CASE Hang(h)
    BY <2>12, TroubleCounted DEF Hang
  <2>13. CASE Slow(h)
    BY <2>13, TroubleCounted DEF Slow
  <2>14. CASE GoesOn(h)
    BY <2>14 DEF GoesOn
  <2>15. CASE StartByHand(h)
    BY <2>15, TroubleCounted DEF StartByHand
  <2> QED
    BY <1>2, <2>1, <2>2, <2>3, <2>4, <2>5, <2>6, <2>7, <2>8, <2>9, <2>10, <2>11, <2>12, <2>13, <2>14, <2>15
<1>3. ASSUME NEW s \in Shadows,
             Look(s) \/ CheckLock(s) \/ ReadOld(s) \/ TakeLock(s) \/ ReadLatest(s)
               \/ CompareNames(s) \/ AskOld(s) \/ Release(s) \/ ShadowDies(s)
      PROVE  Quiet'
  <2>1. CASE Look(s)
    BY <2>1 DEF Look
  <2>2. CASE CheckLock(s)
    BY <2>2 DEF CheckLock
  <2>3. CASE ReadOld(s)
    BY <2>3 DEF ReadOld, IsCandidate
  <2>4. CASE TakeLock(s)
    BY <2>4 DEF TakeLock, MayLock
  <2>5. CASE ReadLatest(s)
    BY <2>5 DEF ReadLatest, SameHeartbeat
  <2>6. CASE CompareNames(s)
    BY <2>6 DEF CompareNames
  <2>7. CASE AskOld(s)
    <3>1. shadow[s] = "ask" /\ stopped' = stopped
      BY <2>7 DEF AskOld
    <3>2. happened' = happened \union {"lock left"} \/ happened' = happened
      BY <2>7, Zenon DEF AskOld
    <3> QED BY <3>1, <3>2
  <2>8. CASE Release(s)
    BY <2>8 DEF Release
  <2>9. CASE ShadowDies(s)
    BY <2>9, TroubleCounted DEF ShadowDies
  <2> QED
    BY <1>3, <2>1, <2>2, <2>3, <2>4, <2>5, <2>6, <2>7, <2>8, <2>9
<1> QED
  BY <1>1, <1>2, <1>3 DEF Next, Qmaster, ShadowDaemon

\* The invariant holds initially ...
LEMMA InitInv ==
  ASSUME Init PROVE Inv
<1> USE HostsAssumption, BeatAssumption DEF Init
<1>1. TypeOK
  <2>1. act \in Hosts /\ beat \in 1 .. Wrap /\ troubles \in 0 .. MaxTroubles
    OBVIOUS
  <2>2. pc \in [Hosts -> Places] /\ name \in [Hosts -> Hosts \union {None}]
    BY DEF Places, Starting, Serving
  <2>3. /\ shadow \in [Shadows -> ShadowPlaces] /\ old \in [Shadows -> Hosts \union {None}]
        /\ recent \in [Shadows -> SUBSET Hosts]
    BY DEF ShadowPlaces
  <2>4. hung \subseteq Hosts /\ slow \subseteq Hosts /\ waits \subseteq Hosts \X Hosts 
    OBVIOUS
  <2>5. lock \in BOOLEAN /\ stopped \in BOOLEAN
    BY Zenon
  <2> QED BY <2>1, <2>2, <2>3, <2>4, <2>5 DEF TypeOK
<1>2. LockIsExclusive
  BY DEF LockIsExclusive, Starting, Holding
<1>3. OneProcess /\ Noticed /\ Compared
  BY DEF OneProcess, Noticed, Compared, Serving, Starting
<1>4. Quiet
  BY DEF Quiet
<1> QED BY <1>1, <1>2, <1>3, <1>4 DEF Inv

\* ... and every step preserves it.
LEMMA StepInv ==
  ASSUME Inv, [Next]_vars PROVE Inv'
<1>1. TypeOK'
  BY TypePreserved DEF Inv
<1>2. LockIsExclusive'
  BY LockPreserved DEF Inv
<1>3. Calm' => OneProcess' /\ Noticed' /\ Compared'
  BY CalmPreserved DEF Inv
<1>4. Quiet'
  BY QuietPreserved DEF Inv
<1> QED BY <1>1, <1>2, <1>3, <1>4 DEF Inv

THEOREM Invariance == Spec => []Inv
<1> QED BY InitInv, StepInv, PTL DEF Spec

\* The files, the numbers and the places keep their types.
THEOREM TypeCorrect == Spec => []TypeOK
<1>1. Inv => TypeOK
  BY DEF Inv
<1> QED BY <1>1, Invariance, PTL

\* From the shadow daemon that creates it to the qmaster that removes it, the
\* lock file has one owner (qmaster_lock, qmaster_unlock).
THEOREM LockExclusive == Spec => []LockIsExclusive
<1>1. Inv => LockIsExclusive
  BY DEF Inv
<1> QED BY <1>1, Invariance, PTL

\* The shadow daemons never make two masters of one cluster, whatever dies at
\* whatever moment, as long as no qmaster hangs and none is started by hand.
THEOREM OneMaster == Spec => []AtMostOneMaster
<1>1. Inv => AtMostOneMaster
  BY DEF Inv, Calm, OneProcess, AtMostOneMaster, Serving
<1> QED BY <1>1, Invariance, PTL

\* A qmaster that was shut down on purpose is not replaced
\* (qmaster_lock_and_shutdown).
THEOREM StaysDown == Spec => ShutdownIsFinal
<1> DEFINE Down == stopped /\ stopped' /\ happened \intersect {"hang", "race", "manual"} = {}
                     => \A h \in Hosts : pc[h] = "off" => pc'[h] = "off"
<1>1. ASSUME Inv, [Next]_vars PROVE Down
  <2> SUFFICES ASSUME stopped, stopped', happened \intersect {"hang", "race", "manual"} = {}
               PROVE  \A h \in Hosts : pc[h] = "off" => pc'[h] = "off"
    OBVIOUS
  <2>1. /\ \A h \in Hosts : pc[h] = "off"
        /\ \A s \in Shadows : shadow[s] \in {"idle", "check"}
    BY <1>1 DEF Inv, Quiet
  <2>2. CASE UNCHANGED vars
    BY <2>2 DEF vars, qmasters
  <2>3. ASSUME NEW h \in Hosts, Qmaster(h) \/ Shutdown(h) \/ Crash(h) \/ Hang(h) \/ Slow(h)
        PROVE  FALSE
    BY <2>1, <2>3 DEF Qmaster, Beat, EndShutdown, ReadAct, Enroll, AskOther, FirstBeat, Unlock,
       WriteAct, Run, Shutdown, Crash, Hang, Slow, Serving
  <2>4. ASSUME NEW h \in Hosts, GoesOn(h)
        PROVE  pc' = pc
    BY <2>4 DEF GoesOn, qmasters
  <2>5. ASSUME NEW h \in Hosts, StartByHand(h)
        PROVE  FALSE
    BY <2>5 DEF StartByHand
  <2>6. ASSUME NEW s \in Shadows, ShadowDaemon(s) \/ ShadowDies(s)
        PROVE  pc' = pc
    BY <2>1, <2>6 DEF ShadowDaemon, Look, CheckLock, ReadOld, TakeLock, ReadLatest,
       CompareNames, AskOld, Release, ShadowDies, qmasters
  <2> QED BY <1>1, <2>1, <2>2, <2>3, <2>4, <2>5, <2>6 DEF Next
<1>2. Inv /\ [Next]_vars => [Down]_vars
  BY <1>1
<1> QED BY <1>2, Invariance, PTL DEF Spec, ShutdownIsFinal

=============================================================================
