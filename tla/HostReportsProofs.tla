-------------------------- MODULE HostReportsProofs --------------------------
(***************************************************************************)
(* What holds of the load reports for every number of report numbers and   *)
(* every window, with 10000 and 9000 in the code.                          *)
(***************************************************************************)
EXTENDS HostReports, SequenceTheorems, TLAPS

USE DEF Numbers

\* A report that is fewer than Wrap - OldWithin (1000) numbers ahead of the
\* newest one is handled, also if the numbers have wrapped in between: fewer
\* than 1000 lost reports never make the qmaster deaf.
THEOREM NewerIsHandled ==
  ASSUME NEW newest \in Numbers, NEW k \in 1 .. Wrap - 1, k < Wrap - OldWithin
  PROVE  ~Old(IF newest + k < Wrap THEN newest + k ELSE newest + k - Wrap, newest)
BY WindowAssumption DEF Old

\* A report at most OldWithin (9000) numbers behind the newest one is ignored,
\* unless the numbers have wrapped in between or seem to.
THEOREM OlderIsIgnored ==
  ASSUME NEW newest \in Numbers, NEW k \in 1 .. OldWithin, k <= newest,
         newest <= High \/ newest - k >= Low
  PROVE  Old(newest - k, newest)
BY WindowAssumption DEF Old

-----------------------------------------------------------------------------
\* The number that follows a report number is one.
LEMMA SuccIsNumber == ASSUME NEW n \in Numbers PROVE Succ(n) \in Numbers
BY WindowAssumption DEF Succ

Messages == Reports \union {Registration}

\* What waits after a worker has taken a message.
LEMMA WithoutIsQueue ==
  ASSUME toMaster \in Seq(Messages), NEW i \in Takable
  PROVE  Without(i) \in Seq(Messages)
<1>1. CASE i = 1
  <2>1. toMaster # <<>>
    BY <1>1 DEF Takable
  <2> QED BY <1>1, <2>1 DEF Without
<1>2. CASE i # 1
  <2>1. Len(toMaster) > 1 /\ toMaster[1].kind = "report"
    BY <1>2 DEF Takable, SecondOvertakes
  <2>2. toMaster[1] \in Messages
    BY <2>1
  <2>3. toMaster[1] \in Reports
    BY <2>1, <2>2 DEF Messages, Registration
  <2>4. [toMaster[1] EXCEPT !.overtaken = TRUE] \in Messages
    BY <2>3 DEF Messages, Reports
  <2>5. SubSeq(toMaster, 3, Len(toMaster)) \in Seq(Messages)
    BY <2>1, SubSeqProperties
  <2>6. <<[toMaster[1] EXCEPT !.overtaken = TRUE]>> \in Seq(Messages)
    BY <2>4
  <2> QED BY <1>2, <2>5, <2>6, ConcatProperties DEF Without
<1> QED BY <1>1, <1>2
-----------------------------------------------------------------------------
\* What a report says is a value, or that there is nothing to say, or that the
\* value is gone; and what is known after it is a value, or stale, or gone.
LEMMA ReportIsTyped ==
  ASSUME TypeOK
  PROVE  /\ Item \in Items
         /\ KnownNow \in Values \union {Gone, Stale, None}
         /\ Report(seqno, sendAll, Item, known = None) \in Reports
<1>1. Item \in Items
  BY DEF TypeOK, Item, Items
<1>2. KnownNow \in Values \union {Gone, Stale, None}
  BY DEF TypeOK, KnownNow
<1>3. (known = None) \in BOOLEAN
  OBVIOUS
<1>4. Report(seqno, sendAll, Item, known = None) \in Reports
  BY <1>1, <1>3 DEF TypeOK, Report, Reports
<1> QED BY <1>1, <1>2, <1>4

LEMMA InitIsTyped == Init => TypeOK
<1> SUFFICES ASSUME Init PROVE TypeOK
  OBVIOUS
<1>1. <<Registration>> \in Seq(Messages)
  BY DEF Messages
<1> QED BY <1>1, WindowAssumption, BoundsAssumption DEF Init, TypeOK, Messages

LEMMA SendReportIsTyped == TypeOK /\ SendReport => TypeOK'
<1> SUFFICES ASSUME TypeOK, SendReport PROVE TypeOK'
  OBVIOUS
<1>1. seqno' \in Numbers
  BY SuccIsNumber DEF TypeOK, SendReport
<1>2. toMaster' \in Seq(Messages)
  BY ReportIsTyped DEF TypeOK, SendReport, Messages
<1>3. known' \in Values \union {Gone, Stale, None}
  BY ReportIsTyped DEF SendReport
<1>4. last' \in [seqno : Numbers, item : Items] \union {None}
  BY ReportIsTyped DEF SendReport, TypeOK
<1> QED BY <1>1, <1>2, <1>3, <1>4 DEF TypeOK, SendReport, Messages

LEMMA ReceiveIsTyped == TypeOK /\ ReceiveAtExecd => TypeOK'
<1> SUFFICES ASSUME TypeOK, ReceiveAtExecd PROVE TypeOK'
  OBVIOUS
<1>1. known' \in Values \union {Gone, Stale, None}
  <2>1. CASE Head(toExecd).kind = "ack" /\ Acknowledges(Head(toExecd).seqno)
    <3>1. last.item \in Items
      BY <2>1 DEF Acknowledges, TypeOK
    <3> QED BY <2>1, <3>1 DEF ReceiveAtExecd, TypeOK, Items
  <2>2. CASE ~(Head(toExecd).kind = "ack" /\ Acknowledges(Head(toExecd).seqno))
    BY <2>2 DEF ReceiveAtExecd, TypeOK, daemonVars
  <2> QED BY <2>1, <2>2
<1>2. /\ last' \in [seqno : Numbers, item : Items] \union {None}
      /\ seqno' \in Numbers /\ sendAll' \in BOOLEAN
  BY DEF ReceiveAtExecd, TypeOK, daemonVars
<1> QED BY <1>1, <1>2 DEF TypeOK, ReceiveAtExecd

LEMMA WorkIsTyped == TypeOK /\ Work => TypeOK'
<1> SUFFICES ASSUME TypeOK, Work PROVE TypeOK'
  OBVIOUS
<1>1. faults' \in 0 .. MaxFaults
  BY BoundsAssumption DEF Work, Fault, TypeOK
<1>2. PICK i \in Takable : HandleReport(i) \/ HandleRegistration(i)
  BY DEF Work
<1>3. toMaster' \in Seq(Messages)
  BY <1>2, WithoutIsQueue DEF TypeOK, HandleReport, HandleRegistration, Messages
<1>4. CASE HandleReport(i)
  <2>1. i \in DOMAIN toMaster /\ toMaster[i] \in Messages
    BY <1>2 DEF Takable, TypeOK, Messages
  <2>2. toMaster[i] \in Reports
    BY <1>4, <2>1 DEF HandleReport, Messages, Registration
  <2>3. toMaster[i].seqno \in Numbers /\ toMaster[i].item \in Items
    BY <2>2 DEF Reports
  <2>4. host' \in [seqno : Numbers, heard : BOOLEAN, stored : Values \union {Gone}]
    <3> DEFINE r == toMaster[i]
               told == CASE r.item \in {"nothing", "void"} -> host.stored
                         [] r.item = "deleted" -> Gone
                         [] OTHER -> r.item
    <3>1. told \in Values \union {Gone}
      BY <2>3 DEF TypeOK, Items
    <3>2. \/ host' = host
          \/ host' = [host EXCEPT !.seqno = r.seqno]
          \/ host' = [seqno |-> r.seqno, heard |-> TRUE, stored |-> told]
      BY <1>4 DEF HandleReport
    <3>3. r.seqno \in Numbers
      BY <2>3
    <3>4. host \in [seqno : Numbers, heard : BOOLEAN, stored : Values \union {Gone}]
      BY DEF TypeOK
    <3> HIDE DEF told, r
    <3>5. CASE host' = [host EXCEPT !.seqno = r.seqno]
      BY <3>3, <3>4, <3>5
    <3>6. CASE host' = [seqno |-> r.seqno, heard |-> TRUE, stored |-> told]
      BY <3>1, <3>3, <3>6
    <3> QED BY <3>2, <3>4, <3>5, <3>6
  <2> QED BY <1>1, <1>3, <1>4, <2>4 DEF HandleReport, TypeOK, Messages, daemonVars
<1>5. CASE HandleRegistration(i)
  <2>1. host' \in [seqno : Numbers, heard : BOOLEAN, stored : Values \union {Gone}]
    BY <1>5, WindowAssumption DEF HandleRegistration, TypeOK
  <2>2. contact' \in {"registering", "registered", "lost"} /\ sendAll' \in BOOLEAN
    BY <1>5 DEF HandleRegistration, TypeOK
  <2> QED BY <1>1, <1>3, <1>5, <2>1, <2>2 DEF HandleRegistration, TypeOK, Messages
<1> QED BY <1>2, <1>4, <1>5

LEMMA FaultsAreTyped ==
  TypeOK /\ (Unheard \/ LoseConnection \/ Reconnect \/ Restart) => TypeOK'
<1> SUFFICES ASSUME TypeOK, Unheard \/ LoseConnection \/ Reconnect \/ Restart PROVE TypeOK'
  OBVIOUS
<1>1. Append(toMaster, Registration) \in Seq(Messages)
  BY DEF TypeOK, Messages
<1>2. CASE Unheard
  <2>1. host' \in [seqno : Numbers, heard : BOOLEAN, stored : Values \union {Gone}]
    BY <1>2 DEF Unheard, TypeOK
  <2> QED BY <1>2, <2>1, BoundsAssumption DEF Unheard, Fault, TypeOK, daemonVars
<1>3. CASE LoseConnection
  <2>1. PICK n \in 0 .. Len(toMaster) : toMaster' = SubSeq(toMaster, 1, n)
    BY <1>3 DEF LoseConnection
  <2>2. toMaster' \in Seq(Messages)
    BY <2>1, SubSeqProperties DEF TypeOK, Messages
  <2> QED BY <1>3, <2>2, BoundsAssumption DEF LoseConnection, Fault, TypeOK, daemonVars, Messages
<1>4. CASE Reconnect
  BY <1>1, <1>4 DEF Reconnect, TypeOK, daemonVars, Messages
<1>5. CASE Restart
  BY <1>1, <1>5, WindowAssumption, BoundsAssumption
  DEF Restart, Fault, TypeOK, daemonVars, Messages
<1> QED BY <1>2, <1>3, <1>4, <1>5

\* The numbers of reports stay below 10000 wherever they are kept, and the
\* other variables have their types, for every size of the window, set of load
\* values and races (sge_send_all_reports, sge_c_report).
THEOREM TypeCorrect == Spec => []TypeOK
<1>1. TypeOK /\ [Next]_vars => TypeOK'
  <2> SUFFICES ASSUME TypeOK, [Next]_vars PROVE TypeOK'
    OBVIOUS
  <2>1. CASE Measure
    BY <2>1 DEF Measure, TypeOK, daemonVars
  <2>2. CASE UNCHANGED vars
    BY <2>2 DEF vars, daemonVars, TypeOK
  <2> QED
    BY <2>1, <2>2, SendReportIsTyped, ReceiveIsTyped, WorkIsTyped, FaultsAreTyped DEF Next
<1> QED BY <1>1, InitIsTyped, PTL DEF Spec

-----------------------------------------------------------------------------
(* The order of the reports.  Between two registrations the reports of a    *)
(* daemon wait in the order of their numbers, except for the first one,     *)
(* which the one behind it may have overtaken.  What follows is said of a   *)
(* queue q, the number the qmaster has (newest) and the number that the     *)
(* next report will get (next).                                             *)

IsReport(q, i) == i \in DOMAIN q /\ q[i].kind = "report"

\* The number that the qmaster has, or will have, when r is not waiting any more.
Handled(r, newest) == IF r.overtaken THEN newest ELSE r.seqno

\* After a registration any number may come.
Follows(n, newest) == newest = 0 \/ n = Succ(newest)

\* Nothing waits behind a registration but registrations; the daemon is registered
\* when none of them is left.
RegistrationsAreLast(q, registered) ==
  /\ \A i \in DOMAIN q : q[i].kind = "register" =>
       \A j \in DOMAIN q : i <= j => q[j].kind = "register"
  /\ registered => \A i \in DOMAIN q : q[i].kind = "report"

\* Only the first report can be overtaken, by the one behind it.
OvertakenIsFirst(q, newest) ==
  \A i \in DOMAIN q :
    IsReport(q, i) /\ q[i].overtaken => i = 1 /\ newest = q[i].seqno + 1

\* The numbers follow each other, those to come follow those that wait.
NumbersFollow(q, newest, next, registered) ==
  /\ \A i \in DOMAIN q :
       IsReport(q, i) /\ IsReport(q, i + 1) =>
         q[i + 1].seqno = Succ(Handled(q[i], newest))
  /\ IsReport(q, 1) /\ ~q[1].overtaken => Follows(q[1].seqno, newest)
  /\ registered => IF Len(q) = 0 THEN Follows(next, newest)
                   ELSE next = Succ(Handled(q[Len(q)], newest))

InOrder(q, newest, next, registered) ==
  /\ RegistrationsAreLast(q, registered)
  /\ OvertakenIsFirst(q, newest)
  /\ NumbersFollow(q, newest, next, registered)

OrderInv == TypeOK /\ InOrder(toMaster, host.seqno, seqno, contact = "registered")

\* Reports can overtake each other, but not a registration, and not when the
\* numbers wrap; no daemon is started while reports of the previous one wait.
OrderlyRaces == Races \intersect {"wrap", "register", "restart"} = {}

\* The window lets the next two numbers through when they wrap, and the previous
\* one is never taken for a wrap.
WindowIsUsable == OldWithin \in 1 .. Wrap - 3 /\ Low <= High

\* A message is a registration or a report with its fields.
LEMMA MessageIs ==
  ASSUME NEW q \in Seq(Messages), NEW i \in DOMAIN q
  PROVE  /\ q[i] \in Messages
         /\ q[i].kind \in {"report", "register"}
         /\ q[i].kind = "report" =>
              /\ q[i] \in Reports
              /\ q[i].seqno \in Numbers /\ q[i].overtaken \in BOOLEAN
<1>1. q[i] \in Messages
  BY LenProperties, ElementOfSeq
<1> QED BY <1>1 DEF Messages, Reports, Registration

\* Numbers of reports that are taken.
LEMMA NextIsHandled ==
  ASSUME WindowIsUsable, NEW h \in Numbers, NEW n \in Numbers, Follows(n, h)
  PROVE  ~Old(n, h) /\ ~(n + 1 < Wrap /\ Old(n + 1, h))
<1>1. CASE h = 0
  BY <1>1 DEF Old
<1>2. CASE n = h + 1
  BY <1>2 DEF Old
<1>3. CASE n = 0 /\ h + 1 = Wrap
  BY <1>3, WindowAssumption DEF Old, WindowIsUsable
<1> QED BY <1>1, <1>2, <1>3 DEF Follows, Succ

\* A report that was overtaken is ignored.
LEMMA PreviousIsOld ==
  ASSUME WindowIsUsable, NEW h \in Numbers, NEW n \in Numbers, h = n + 1
  PROVE  Old(n, h)
BY WindowAssumption DEF Old, WindowIsUsable

\* What OrderInv says of the queue.
LEMMA QueueIs ==
  ASSUME OrderInv
  PROVE  /\ toMaster \in Seq(Messages)
         /\ Len(toMaster) \in Nat /\ DOMAIN toMaster = 1 .. Len(toMaster)
         /\ host.seqno \in Numbers /\ seqno \in Numbers
         /\ RegistrationsAreLast(toMaster, contact = "registered")
         /\ OvertakenIsFirst(toMaster, host.seqno)
         /\ NumbersFollow(toMaster, host.seqno, seqno, contact = "registered")
<1>1. TypeOK /\ InOrder(toMaster, host.seqno, seqno, contact = "registered")
  BY DEF OrderInv
<1>2. toMaster \in Seq(Messages) /\ host.seqno \in Numbers /\ seqno \in Numbers
  BY <1>1 DEF TypeOK, Messages
<1>3. Len(toMaster) \in Nat /\ DOMAIN toMaster = 1 .. Len(toMaster)
  BY <1>2, LenProperties
<1> QED BY <1>1, <1>2, <1>3 DEF InOrder

\* The second report, when a worker may take it first.
LEMMA SecondIs ==
  ASSUME WindowIsUsable, OrderlyRaces, OrderInv, NEW i \in Takable, i # 1
  PROVE  /\ i = 2 /\ IsReport(toMaster, 1) /\ IsReport(toMaster, 2)
         /\ ~toMaster[1].overtaken /\ ~toMaster[2].overtaken
         /\ toMaster[2].seqno = toMaster[1].seqno + 1
         /\ Follows(toMaster[1].seqno, host.seqno)
<1>1. /\ i = 2 /\ SecondOvertakes /\ 1 \in DOMAIN toMaster /\ 2 \in DOMAIN toMaster
      /\ toMaster[1].kind = "report" /\ ~toMaster[1].overtaken
  BY QueueIs DEF Takable, SecondOvertakes
<1>2. /\ toMaster[2].kind = "report" /\ ~(toMaster[2].seqno < toMaster[1].seqno)
  BY <1>1 DEF SecondOvertakes, OrderlyRaces
<1>3. IsReport(toMaster, 1) /\ IsReport(toMaster, 2) /\ IsReport(toMaster, 1 + 1)
  BY <1>1, <1>2 DEF IsReport
<1>4. toMaster[1].seqno \in Numbers /\ toMaster[2].seqno \in Numbers
      /\ toMaster[2].overtaken \in BOOLEAN
  BY <1>1, <1>2, QueueIs, MessageIs
<1>5. ~toMaster[2].overtaken
  BY <1>1, <1>3, QueueIs DEF OvertakenIsFirst
<1>6. toMaster[2].seqno = Succ(toMaster[1].seqno)
  <2>1. toMaster[1 + 1].seqno = Succ(Handled(toMaster[1], host.seqno))
    BY <1>1, <1>3, QueueIs DEF NumbersFollow
  <2> QED BY <1>1, <2>1 DEF Handled
<1>7. toMaster[2].seqno = toMaster[1].seqno + 1
  BY <1>2, <1>4, <1>6, WindowAssumption DEF Succ, WindowIsUsable
<1>8. Follows(toMaster[1].seqno, host.seqno)
  BY <1>1, <1>3, QueueIs DEF NumbersFollow
<1> QED BY <1>1, <1>3, <1>5, <1>7, <1>8

\* sge_c_report drops what was overtaken, and nothing else.
LEMMA IgnoresOvertaken ==
  ASSUME WindowIsUsable, OrderlyRaces, OrderInv
  PROVE  IgnoresExactlyTheOld
<1> SUFFICES ASSUME NEW i \in Takable, toMaster[i].kind = "report"
             PROVE  Old(toMaster[i].seqno, host.seqno) <=> toMaster[i].overtaken
  BY DEF IgnoresExactlyTheOld
<1>1. i \in DOMAIN toMaster /\ IsReport(toMaster, i)
  BY DEF Takable, IsReport
<1>2. /\ toMaster[i].seqno \in Numbers /\ toMaster[i].overtaken \in BOOLEAN
      /\ host.seqno \in Numbers
  BY <1>1, QueueIs, MessageIs
<1>3. CASE i = 1 /\ ~toMaster[1].overtaken
  <2>1. Follows(toMaster[1].seqno, host.seqno)
    BY <1>1, <1>3, QueueIs DEF NumbersFollow
  <2> QED BY <1>2, <1>3, <2>1, NextIsHandled
<1>4. CASE i = 1 /\ toMaster[1].overtaken
  <2>1. host.seqno = toMaster[1].seqno + 1
    BY <1>1, <1>4, QueueIs DEF OvertakenIsFirst
  <2> QED BY <1>2, <1>4, <2>1, PreviousIsOld
<1>5. CASE i # 1
  <2>1. /\ i = 2 /\ ~toMaster[2].overtaken /\ IsReport(toMaster, 1)
        /\ toMaster[2].seqno = toMaster[1].seqno + 1
        /\ Follows(toMaster[1].seqno, host.seqno)
    BY <1>5, SecondIs
  <2>2. toMaster[1].seqno \in Numbers
    BY <2>1, QueueIs, MessageIs DEF IsReport
  <2>3. toMaster[1].seqno + 1 < Wrap
    BY <1>2, <2>1, <2>2, WindowAssumption
  <2>4. ~Old(toMaster[1].seqno + 1, host.seqno)
    BY <1>2, <2>1, <2>2, <2>3, NextIsHandled
  <2> QED BY <2>1, <2>4
<1> QED BY <1>2, <1>3, <1>4, <1>5

-----------------------------------------------------------------------------
\* A registration joins the queue; its daemon may be a new one, whatever number
\* it begins with.
LEMMA RegistrationJoins ==
  ASSUME NEW q \in Seq(Messages), NEW newest, NEW next, NEW registered,
         InOrder(q, newest, next, registered),
         NEW p, p = Append(q, Registration), NEW after
  PROVE  InOrder(p, newest, after, FALSE)
<1> DEFINE n == Len(q)
<1>1. /\ n \in Nat /\ DOMAIN q = 1 .. n /\ DOMAIN p = 1 .. n + 1
      /\ \A i \in DOMAIN q : p[i] = q[i]
      /\ p[n + 1] = Registration
  <2>1. Registration \in Messages
    BY DEF Messages
  <2>2. /\ Len(p) = n + 1 /\ p[n + 1] = Registration
        /\ \A i \in 1 .. n : p[i] = q[i]
        /\ p \in Seq(Messages)
    BY <2>1, AppendProperties
  <2> QED BY <2>1, <2>2, LenProperties
<1>2. \A i \in DOMAIN p :
        \/ i \in DOMAIN q /\ i <= n /\ p[i] = q[i]
        \/ i = n + 1 /\ p[i].kind = "register"
  BY <1>1 DEF Registration
<1>3. \A i : IsReport(p, i) => IsReport(q, i) /\ p[i] = q[i]
  BY <1>2 DEF IsReport
<1> HIDE DEF n
<1>4. RegistrationsAreLast(p, FALSE)
  <2> SUFFICES ASSUME NEW i \in DOMAIN p, p[i].kind = "register",
                      NEW j \in DOMAIN p, i <= j
               PROVE  p[j].kind = "register"
    BY DEF RegistrationsAreLast
  <2>1. CASE j \in DOMAIN q /\ j <= n /\ p[j] = q[j]
    <3>1. i \in DOMAIN q /\ p[i] = q[i]
      BY <1>1, <1>2, <2>1
    <3> QED BY <2>1, <3>1 DEF InOrder, RegistrationsAreLast
  <2> QED BY <1>2, <2>1
<1>5. OvertakenIsFirst(p, newest)
  BY <1>2, <1>3 DEF InOrder, OvertakenIsFirst, IsReport
<1>6. NumbersFollow(p, newest, after, FALSE)
  <2>1. ASSUME NEW i \in DOMAIN p, IsReport(p, i), IsReport(p, i + 1)
        PROVE  p[i + 1].seqno = Succ(Handled(p[i], newest))
    <3>1. /\ IsReport(q, i) /\ IsReport(q, i + 1) /\ i \in DOMAIN q
          /\ p[i] = q[i] /\ p[i + 1] = q[i + 1]
      BY <1>3, <2>1 DEF IsReport
    <3> QED BY <3>1 DEF InOrder, NumbersFollow
  <2>2. IsReport(p, 1) /\ ~p[1].overtaken => Follows(p[1].seqno, newest)
    BY <1>3 DEF InOrder, NumbersFollow
  <2> QED BY <2>1, <2>2 DEF NumbersFollow
<1> QED BY <1>4, <1>5, <1>6 DEF InOrder

\* The connection is lost with some of the messages at the end.
LEMMA QueueIsCut ==
  ASSUME NEW q \in Seq(Messages), NEW newest, NEW next, NEW registered,
         InOrder(q, newest, next, registered),
         NEW n \in 0 .. Len(q), NEW p, p = SubSeq(q, 1, n)
  PROVE  InOrder(p, newest, next, FALSE)
<1>1. DOMAIN p \subseteq DOMAIN q /\ \A i \in DOMAIN p : p[i] = q[i]
  <2>1. /\ Len(q) \in Nat /\ DOMAIN q = 1 .. Len(q)
        /\ \A i \in 1 .. n : q[i] \in Messages
    BY LenProperties, MessageIs
  <2>2. /\ p \in Seq(Messages)
        /\ Len(p) = IF 1 <= n THEN n - 1 + 1 ELSE 0
        /\ \A i \in 1 .. n - 1 + 1 : p[i] = q[1 + i - 1]
    BY <2>1, SubSeqProperties
  <2>3. DOMAIN p = 1 .. n
    BY <2>1, <2>2, LenProperties
  <2> QED BY <2>1, <2>2, <2>3
<1>2. \A i : IsReport(p, i) => IsReport(q, i) /\ p[i] = q[i]
  BY <1>1 DEF IsReport
<1>3. RegistrationsAreLast(p, FALSE)
  BY <1>1 DEF InOrder, RegistrationsAreLast
<1>4. OvertakenIsFirst(p, newest)
  BY <1>1, <1>2 DEF InOrder, OvertakenIsFirst
<1>5. NumbersFollow(p, newest, next, FALSE)
  BY <1>1, <1>2 DEF InOrder, NumbersFollow, Handled, Follows
<1> QED BY <1>3, <1>4, <1>5 DEF InOrder

\* The next report waits behind the others.
LEMMA ReportJoins ==
  ASSUME NEW q \in Seq(Messages), NEW newest, NEW next, InOrder(q, newest, next, TRUE),
         NEW new \in Messages, new.kind = "report", new.seqno = next, ~new.overtaken,
         NEW p, p = Append(q, new)
  PROVE  InOrder(p, newest, Succ(next), TRUE)
<1> DEFINE n == Len(q)
<1>1. /\ n \in Nat /\ DOMAIN q = 1 .. n /\ DOMAIN p = 1 .. n + 1
      /\ \A i \in DOMAIN q : p[i] = q[i]
      /\ p[n + 1] = new /\ Len(p) = n + 1
  <2>1. /\ Len(p) = n + 1 /\ p[n + 1] = new
        /\ \A i \in 1 .. n : p[i] = q[i]
        /\ p \in Seq(Messages)
    BY AppendProperties
  <2> QED BY <2>1, LenProperties
<1>2. \A i \in DOMAIN p :
        \/ i \in DOMAIN q /\ i <= n /\ p[i] = q[i]
        \/ i = n + 1 /\ p[i] = new
  BY <1>1
<1>3. \A i \in DOMAIN p : p[i].kind = "report"
  BY <1>2 DEF InOrder, RegistrationsAreLast
<1>4. RegistrationsAreLast(p, TRUE)
  BY <1>3 DEF RegistrationsAreLast
<1>5. OvertakenIsFirst(p, newest)
  BY <1>2 DEF InOrder, OvertakenIsFirst, IsReport
<1>6. NumbersFollow(p, newest, Succ(next), TRUE)
  <2>1. ASSUME NEW i \in DOMAIN p, IsReport(p, i), IsReport(p, i + 1)
        PROVE  p[i + 1].seqno = Succ(Handled(p[i], newest))
    <3>1. i \in DOMAIN q /\ p[i] = q[i] /\ IsReport(q, i) /\ i + 1 \in DOMAIN p
      BY <1>1, <1>2, <1>3, <2>1 DEF IsReport
    <3>2. CASE i + 1 \in DOMAIN q
      <4>1. IsReport(q, i + 1) /\ p[i + 1] = q[i + 1]
        BY <1>1, <2>1, <3>2 DEF IsReport
      <4> QED BY <3>1, <4>1 DEF InOrder, NumbersFollow
    <3>3. CASE i + 1 \notin DOMAIN q
      <4>1. i = n /\ n # 0
        BY <1>1, <3>1, <3>3
      <4>2. p[i + 1] = new
        BY <1>1, <4>1
      <4>3. next = Succ(Handled(q[n], newest))
        BY <4>1 DEF InOrder, NumbersFollow
      <4> QED BY <3>1, <4>1, <4>2, <4>3
    <3> QED BY <3>2, <3>3
  <2>2. IsReport(p, 1) /\ ~p[1].overtaken => Follows(p[1].seqno, newest)
    <3>1. CASE n = 0
      <4>1. Follows(next, newest)
        BY <3>1 DEF InOrder, NumbersFollow
      <4> QED BY <1>1, <3>1, <4>1
    <3>2. CASE n # 0
      <4>1. p[1] = q[1] /\ 1 \in DOMAIN q
        BY <1>1, <3>2
      <4> QED BY <4>1 DEF InOrder, NumbersFollow, IsReport
    <3> QED BY <3>1, <3>2
  <2>3. Len(p) # 0 /\ Succ(next) = Succ(Handled(p[Len(p)], newest))
    BY <1>1 DEF Handled
  <2> QED BY <2>1, <2>2, <2>3 DEF NumbersFollow
<1> QED BY <1>4, <1>5, <1>6 DEF InOrder

-----------------------------------------------------------------------------
\* What waits behind the first message.
IsRest(p, q) ==
  /\ Len(q) \in Nat \ {0} /\ DOMAIN q = 1 .. Len(q)
  /\ Len(p) = Len(q) - 1 /\ DOMAIN p = 1 .. Len(q) - 1
  /\ \A j \in DOMAIN p : j + 1 \in DOMAIN q /\ p[j] = q[j + 1]

\* What waits when the second message has been taken, and not the first one.
IsOvertakenRest(p, q) ==
  /\ Len(q) \in Nat \ {0, 1} /\ DOMAIN q = 1 .. Len(q)
  /\ Len(p) = Len(q) - 1 /\ DOMAIN p = 1 .. Len(q) - 1
  /\ p[1] = [q[1] EXCEPT !.overtaken = TRUE]
  /\ \A j \in DOMAIN p : j # 1 => j + 1 \in DOMAIN q /\ p[j] = q[j + 1]

LEMMA WithoutIs ==
  ASSUME toMaster \in Seq(Messages), NEW i \in Takable
  PROVE  IF i = 1 THEN IsRest(Without(i), toMaster)
         ELSE i = 2 /\ IsOvertakenRest(Without(i), toMaster)
<1> DEFINE n == Len(toMaster)
           q == Without(i)
<1>1. n \in Nat /\ DOMAIN toMaster = 1 .. n
  BY LenProperties
<1>2. q \in Seq(Messages) /\ Len(q) \in Nat /\ DOMAIN q = 1 .. Len(q)
  BY WithoutIsQueue, LenProperties
<1>3. CASE i = 1
  <2>1. toMaster # <<>> /\ q = Tail(toMaster) /\ n # 0
    BY <1>1, <1>3, EmptySeq DEF Takable, Without
  <2> HIDE DEF q
  <2>2. Len(q) = n - 1 /\ \A j \in 1 .. Len(q) : q[j] = toMaster[j + 1]
    BY <2>1, HeadTailProperties
  <2> HIDE DEF n
  <2>3. DOMAIN q = 1 .. n - 1
    BY <1>2, <2>2
  <2>4. \A j \in DOMAIN q : j + 1 \in DOMAIN toMaster /\ q[j] = toMaster[j + 1]
    BY <1>1, <2>2, <2>3
  <2>5. n \in Nat \ {0}
    BY <1>1, <2>1
  <2>6. IsRest(q, toMaster)
    BY <1>1, <2>2, <2>3, <2>4, <2>5 DEF IsRest, n
  <2> QED BY <1>3, <2>6 DEF q
<1>4. CASE i # 1
  <2>1. i = 2 /\ n > 1
    BY <1>4 DEF Takable, SecondOvertakes
  <2> DEFINE x == [toMaster[1] EXCEPT !.overtaken = TRUE]
             h == <<x>>
             s == SubSeq(toMaster, 3, n)
  <2>2. q = h \o s
    BY <1>4 DEF Without
  <2> HIDE DEF q
  <2>3. /\ s \in Seq(Messages) /\ Len(s) = n - 2
        /\ \A j \in 1 .. n - 2 : s[j] = toMaster[j + 2]
    <3>1. \A j \in 3 .. n : toMaster[j] \in Messages
      BY <1>1, ElementOfSeq
    <3>2. Len(s) = IF 3 <= n THEN n - 3 + 1 ELSE 0
      BY <1>1, <3>1, SubSeqProperties
    <3>3. /\ s \in Seq(Messages)
          /\ \A j \in 1 .. n - 3 + 1 : s[j] = toMaster[3 + j - 1]
      BY <1>1, <3>1, SubSeqProperties
    <3> HIDE DEF s, n
    <3> QED BY <1>1, <2>1, <3>2, <3>3
  <2> HIDE DEF s, x
  <2>4. h \in Seq({x}) /\ Len(h) = 1 /\ h[1] = x
    OBVIOUS
  <2> HIDE DEF h, n
  <2>5. h \in Seq(Messages \union {x}) /\ s \in Seq(Messages \union {x})
    BY <2>3, <2>4
  <2>6. /\ Len(q) = Len(h) + Len(s)
        /\ \A j \in 1 .. Len(h) + Len(s) : q[j] = IF j <= Len(h) THEN h[j] ELSE s[j - Len(h)]
    BY <2>2, <2>5, ConcatProperties
  <2>7. Len(h) + Len(s) = n - 1
    BY <1>1, <2>3, <2>4
  <2>8. Len(q) = n - 1 /\ DOMAIN q = 1 .. n - 1
    BY <1>2, <2>6, <2>7
  <2>9. q[1] = x
    BY <1>1, <2>1, <2>4, <2>6, <2>7
  <2>10. \A j \in DOMAIN q : j # 1 => j + 1 \in DOMAIN toMaster /\ q[j] = toMaster[j + 1]
    <3> SUFFICES ASSUME NEW j \in DOMAIN q, j # 1
                 PROVE  j + 1 \in DOMAIN toMaster /\ q[j] = toMaster[j + 1]
      OBVIOUS
    <3>1. j \in 1 .. n - 1 /\ j - 1 \in 1 .. n - 2
      BY <1>1, <2>8
    <3>2. q[j] = s[j - 1]
      BY <2>4, <2>6, <2>7, <3>1
    <3>3. s[j - 1] = toMaster[(j - 1) + 2]
      BY <2>3, <3>1
    <3>4. (j - 1) + 2 = j + 1 /\ j + 1 \in DOMAIN toMaster
      BY <1>1, <3>1
    <3> QED BY <3>2, <3>3, <3>4
  <2>11. n \in Nat \ {0, 1}
    BY <1>1, <2>1
  <2>12. IsOvertakenRest(q, toMaster)
    BY <1>1, <2>8, <2>9, <2>10, <2>11 DEF IsOvertakenRest, n, x
  <2> QED BY <1>4, <2>1, <2>12 DEF q
<1> QED BY <1>3, <1>4

\* The first report has been taken.
LEMMA FirstIsTaken ==
  ASSUME NEW q, NEW p, IsRest(p, q), IsReport(q, 1),
         NEW newest, NEW next, NEW registered, InOrder(q, newest, next, registered)
  PROVE  InOrder(p, Handled(q[1], newest), next, registered)
<1> DEFINE now == Handled(q[1], newest)
           n == Len(q)
<1>1. /\ n \in Nat \ {0} /\ DOMAIN q = 1 .. n /\ Len(p) = n - 1 /\ DOMAIN p = 1 .. n - 1
      /\ \A j \in DOMAIN p : j + 1 \in DOMAIN q /\ p[j] = q[j + 1]
  BY DEF IsRest
<1>2. \A j \in DOMAIN p : IsReport(p, j) => IsReport(q, j + 1) /\ ~p[j].overtaken
  BY <1>1 DEF IsReport, InOrder, OvertakenIsFirst
<1>3. \A j \in DOMAIN p : IsReport(p, j) /\ IsReport(q, j) =>
        p[j].seqno = Succ(Handled(q[j], newest))
  BY <1>1, <1>2 DEF InOrder, NumbersFollow
<1> HIDE DEF now, n
<1>4. RegistrationsAreLast(p, registered)
  <2>1. RegistrationsAreLast(q, registered)
    BY DEF InOrder
  <2>2. ASSUME NEW i \in DOMAIN p, p[i].kind = "register", NEW j \in DOMAIN p, i <= j
        PROVE  p[j].kind = "register"
    <3>1. i + 1 <= j + 1
      BY <1>1, <2>2
    <3> QED BY <1>1, <2>1, <2>2, <3>1 DEF RegistrationsAreLast
  <2>3. registered => \A i \in DOMAIN p : p[i].kind = "report"
    BY <1>1, <2>1 DEF RegistrationsAreLast
  <2> QED BY <2>2, <2>3 DEF RegistrationsAreLast
<1>5. OvertakenIsFirst(p, now)
  BY <1>2 DEF OvertakenIsFirst
<1>6. NumbersFollow(p, now, next, registered)
  <2>1. ASSUME NEW i \in DOMAIN p, IsReport(p, i), IsReport(p, i + 1)
        PROVE  p[i + 1].seqno = Succ(Handled(p[i], now))
    <3>1. /\ i + 1 \in DOMAIN p /\ IsReport(q, i + 1) /\ ~p[i].overtaken
          /\ p[i] = q[i + 1]
      BY <1>1, <1>2, <2>1 DEF IsReport
    <3>2. p[i + 1].seqno = Succ(Handled(q[i + 1], newest))
      BY <1>3, <2>1, <3>1
    <3> QED BY <3>1, <3>2 DEF Handled
  <2>2. IsReport(p, 1) /\ ~p[1].overtaken => Follows(p[1].seqno, now)
    <3>1. IsReport(p, 1) => p[1].seqno = Succ(now)
      BY <1>3 DEF IsReport, now
    <3> QED BY <3>1 DEF Follows
  <2>3. ASSUME registered
        PROVE  IF Len(p) = 0 THEN Follows(next, now)
               ELSE next = Succ(Handled(p[Len(p)], now))
    <3>1. next = Succ(Handled(q[n], newest))
      BY <1>1, <2>3 DEF InOrder, NumbersFollow, n
    <3>2. CASE n = 1
      BY <1>1, <3>1, <3>2 DEF Follows, now
    <3>3. CASE n # 1
      <4>1. Len(p) # 0 /\ Len(p) \in DOMAIN p /\ p[Len(p)] = q[n]
        <5>1. n - 1 \in 1 .. n - 1 /\ n - 1 # 0 /\ (n - 1) + 1 = n
          BY <1>1, <3>3
        <5> QED BY <1>1, <5>1
      <4>2. IsReport(p, Len(p))
        BY <1>4, <2>3, <4>1 DEF RegistrationsAreLast, IsReport
      <4>3. ~p[Len(p)].overtaken
        BY <1>2, <4>1, <4>2
      <4> QED BY <3>1, <4>1, <4>3 DEF Handled
    <3> QED BY <3>2, <3>3
  <2> QED BY <2>1, <2>2, <2>3 DEF NumbersFollow
<1> QED BY <1>4, <1>5, <1>6 DEF InOrder, now

\* The second report has been taken before the first one.
LEMMA SecondIsTaken ==
  ASSUME NEW q, NEW p, IsOvertakenRest(p, q), q[1] \in Reports,
         IsReport(q, 1), IsReport(q, 2), ~q[1].overtaken, ~q[2].overtaken,
         q[2].seqno = q[1].seqno + 1,
         NEW newest, NEW next, NEW registered, InOrder(q, newest, next, registered)
  PROVE  InOrder(p, q[2].seqno, next, registered)
<1> DEFINE now == q[2].seqno
           n == Len(q)
<1>1. /\ n \in Nat \ {0, 1} /\ DOMAIN q = 1 .. n /\ Len(p) = n - 1 /\ DOMAIN p = 1 .. n - 1
      /\ p[1] = [q[1] EXCEPT !.overtaken = TRUE]
      /\ \A j \in DOMAIN p : j # 1 => j + 1 \in DOMAIN q /\ p[j] = q[j + 1]
  BY DEF IsOvertakenRest
<1>2. p[1].kind = "report" /\ p[1].overtaken /\ p[1].seqno = q[1].seqno
  BY <1>1 DEF IsReport, Reports
<1>3. \A j \in DOMAIN p : IsReport(p, j) => IsReport(q, j + 1) /\ (j # 1 => ~p[j].overtaken)
  <2> SUFFICES ASSUME NEW j \in DOMAIN p, IsReport(p, j)
               PROVE  IsReport(q, j + 1) /\ (j # 1 => ~p[j].overtaken)
    OBVIOUS
  <2>1. CASE j = 1
    BY <2>1
  <2>2. CASE j # 1
    <3>1. j + 1 \in DOMAIN q /\ p[j] = q[j + 1] /\ j + 1 # 1
      BY <1>1, <2>2
    <3> QED BY <3>1 DEF IsReport, InOrder, OvertakenIsFirst
  <2> QED BY <2>1, <2>2
<1>4. \A j \in DOMAIN p : j # 1 /\ IsReport(p, j) /\ IsReport(q, j) =>
        p[j].seqno = Succ(Handled(q[j], newest))
  <2> SUFFICES ASSUME NEW j \in DOMAIN p, j # 1, IsReport(p, j), IsReport(q, j)
               PROVE  p[j].seqno = Succ(Handled(q[j], newest))
    OBVIOUS
  <2>1. IsReport(q, j + 1) /\ p[j] = q[j + 1] /\ j \in DOMAIN q
    BY <1>1, <1>3 DEF IsReport
  <2> QED BY <2>1 DEF InOrder, NumbersFollow
<1> HIDE DEF now, n
<1>5. RegistrationsAreLast(p, registered)
  <2>1. RegistrationsAreLast(q, registered)
    BY DEF InOrder
  <2>2. ASSUME NEW i \in DOMAIN p, p[i].kind = "register", NEW j \in DOMAIN p, i <= j
        PROVE  p[j].kind = "register"
    <3>1. i # 1
      BY <1>2, <2>2
    <3>2. i \in 1 .. n - 1 /\ j \in 1 .. n - 1
      BY <1>1
    <3>3. j # 1 /\ i + 1 <= j + 1
      BY <1>1, <2>2, <3>1, <3>2
    <3>4. /\ i + 1 \in DOMAIN q /\ p[i] = q[i + 1]
          /\ j + 1 \in DOMAIN q /\ p[j] = q[j + 1]
      BY <1>1, <3>1, <3>3
    <3> QED BY <2>1, <2>2, <3>3, <3>4 DEF RegistrationsAreLast
  <2>3. ASSUME registered, NEW i \in DOMAIN p
        PROVE  p[i].kind = "report"
    <3>1. i # 1 => i + 1 \in DOMAIN q /\ p[i] = q[i + 1]
      BY <1>1
    <3> QED BY <1>2, <2>1, <2>3, <3>1 DEF RegistrationsAreLast
  <2> QED BY <2>2, <2>3 DEF RegistrationsAreLast
<1>6. OvertakenIsFirst(p, now)
  <2>1. now = p[1].seqno + 1
    BY <1>2 DEF now
  <2> QED BY <1>3, <2>1 DEF OvertakenIsFirst
<1>7. NumbersFollow(p, now, next, registered)
  <2>1. ASSUME NEW i \in DOMAIN p, IsReport(p, i), IsReport(p, i + 1)
        PROVE  p[i + 1].seqno = Succ(Handled(p[i], now))
    <3>1. i + 1 \in DOMAIN p /\ IsReport(q, i + 1) /\ i + 1 # 1
      BY <1>1, <1>3, <2>1 DEF IsReport
    <3>2. p[i + 1].seqno = Succ(Handled(q[i + 1], newest))
      BY <1>4, <2>1, <3>1
    <3>3. CASE i = 1
      <4>1. Handled(q[1 + 1], newest) = now
        BY DEF Handled, now
      <4> QED BY <1>2, <3>2, <3>3, <4>1 DEF Handled
    <3>4. CASE i # 1
      <4>1. p[i] = q[i + 1] /\ ~p[i].overtaken
        BY <1>1, <1>3, <2>1, <3>4
      <4> QED BY <3>2, <4>1 DEF Handled
    <3> QED BY <3>3, <3>4
  <2>2. ASSUME registered
        PROVE  Len(p) # 0 /\ next = Succ(Handled(p[Len(p)], now))
    <3>1. next = Succ(Handled(q[n], newest))
      BY <1>1, <2>2 DEF InOrder, NumbersFollow, n
    <3>2. n - 1 \in 1 .. n - 1 /\ n - 1 # 0 /\ (n - 1) + 1 = n
      BY <1>1
    <3>3. CASE n = 2
      <4>1. Len(p) = 1
        BY <1>1, <3>3
      <4> QED BY <1>2, <3>1, <3>3, <4>1 DEF Handled, now
    <3>4. CASE n # 2
      <4>1. n - 1 # 1
        BY <1>1, <3>4
      <4>2. Len(p) \in DOMAIN p /\ p[Len(p)] = q[n] /\ Len(p) # 1
        BY <1>1, <3>2, <4>1
      <4>3. IsReport(p, Len(p))
        BY <1>5, <2>2, <4>2 DEF RegistrationsAreLast, IsReport
      <4>4. ~p[Len(p)].overtaken
        BY <1>3, <4>2, <4>3
      <4>5. Len(p) # 0
        BY <1>1, <3>2
      <4>6. Handled(p[Len(p)], now) = Handled(q[n], newest)
        BY <4>2, <4>4 DEF Handled
      <4> QED BY <3>1, <4>5, <4>6
    <3> QED BY <3>3, <3>4
  <2> QED BY <1>2, <2>1, <2>2 DEF NumbersFollow
<1> QED BY <1>5, <1>6, <1>7 DEF InOrder, now

\* A registration has been handled: no report waits, and any number may come.
LEMMA RegistrationIsTaken ==
  ASSUME NEW q, NEW p, IsRest(p, q), q[1].kind = "register",
         NEW newest, NEW next, NEW registered, InOrder(q, newest, next, registered),
         NEW answered, answered => \A k \in DOMAIN p : p[k].kind # "register"
  PROVE  ~registered /\ InOrder(p, 0, next, answered)
<1>1. /\ 1 \in DOMAIN q /\ DOMAIN p = 1 .. Len(q) - 1 /\ Len(p) = Len(q) - 1
      /\ Len(q) \in Nat \ {0} /\ DOMAIN q = 1 .. Len(q)
      /\ \A j \in DOMAIN p : j + 1 \in DOMAIN q /\ p[j] = q[j + 1]
  BY DEF IsRest
<1>2. ~registered
  BY <1>1 DEF InOrder, RegistrationsAreLast
<1>3. \A j \in DOMAIN p : p[j].kind = "register"
  <2> TAKE j \in DOMAIN p
  <2>1. j + 1 \in DOMAIN q /\ p[j] = q[j + 1] /\ 1 <= j + 1
    BY <1>1
  <2> QED BY <1>1, <2>1 DEF InOrder, RegistrationsAreLast
<1>4. answered => DOMAIN p = {} /\ Len(p) = 0
  <2>1. answered => DOMAIN p = {}
    BY <1>3
  <2>2. DOMAIN p = {} => Len(p) = 0
    <3>1. Len(q) - 1 # 0 => 1 \in 1 .. Len(q) - 1
      BY <1>1
    <3> QED BY <1>1, <3>1
  <2> QED BY <2>1, <2>2
<1>5. RegistrationsAreLast(p, answered) /\ OvertakenIsFirst(p, 0)
  BY <1>3, <1>4 DEF RegistrationsAreLast, OvertakenIsFirst, IsReport
<1>6. NumbersFollow(p, 0, next, answered)
  BY <1>3, <1>4 DEF NumbersFollow, IsReport, Follows
<1> QED BY <1>2, <1>5, <1>6 DEF InOrder
-----------------------------------------------------------------------------
LEMMA InitIsInOrder == Init => OrderInv
<1> SUFFICES ASSUME Init PROVE OrderInv
  OBVIOUS
<1>1. /\ TypeOK /\ contact = "registering" /\ Len(toMaster) = 1 /\ DOMAIN toMaster = {1}
      /\ toMaster[1].kind = "register"
  BY InitIsTyped DEF Init, Registration
<1>2. InOrder(toMaster, host.seqno, seqno, contact = "registered")
  BY <1>1 DEF InOrder, RegistrationsAreLast, OvertakenIsFirst, NumbersFollow, IsReport
<1> QED BY <1>1, <1>2 DEF OrderInv

\* A worker handles a report: an overtaken one changes nothing, another one brings
\* its number.
LEMMA HandlingAReportKeepsTheOrder ==
  ASSUME WindowIsUsable, OrderlyRaces, OrderInv, NEW i \in Takable, HandleReport(i)
  PROVE  InOrder(toMaster', host'.seqno, seqno', contact' = "registered")
<1>1. /\ toMaster \in Seq(Messages) /\ host.seqno \in Numbers
      /\ InOrder(toMaster, host.seqno, seqno, contact = "registered")
  BY QueueIs DEF OrderInv
<1>2. /\ i \in DOMAIN toMaster /\ toMaster[i].kind = "report" /\ toMaster' = Without(i)
      /\ seqno' = seqno /\ contact' = contact
  BY DEF HandleReport, Takable, daemonVars
<1>3. Old(toMaster[i].seqno, host.seqno) <=> toMaster[i].overtaken
  BY <1>2, IgnoresOvertaken DEF IgnoresExactlyTheOld
<1>4. host'.seqno = IF toMaster[i].overtaken THEN host.seqno ELSE toMaster[i].seqno
  <2>1. CASE toMaster[i].overtaken
    BY <1>3, <2>1 DEF HandleReport
  <2>2. CASE ~toMaster[i].overtaken
    <3>1. \/ host' = [host EXCEPT !.seqno = toMaster[i].seqno]
          \/ host'.seqno = toMaster[i].seqno
      BY <1>3, <2>2 DEF HandleReport
    <3>2. host \in [seqno : Numbers, heard : BOOLEAN, stored : Values \union {Gone}]
      BY DEF OrderInv, TypeOK
    <3> QED BY <2>2, <3>1, <3>2
  <2> QED BY <2>1, <2>2
<1>5. CASE i = 1
  <2>1. IsRest(toMaster', toMaster) /\ IsReport(toMaster, 1)
    BY <1>1, <1>2, <1>5, WithoutIs DEF IsReport
  <2>2. InOrder(toMaster', Handled(toMaster[1], host.seqno), seqno, contact = "registered")
    BY <1>1, <2>1, FirstIsTaken
  <2> QED BY <1>2, <1>4, <1>5, <2>2 DEF Handled
<1>6. CASE i # 1
  <2>1. /\ i = 2 /\ IsOvertakenRest(toMaster', toMaster)
        /\ IsReport(toMaster, 1) /\ IsReport(toMaster, 2)
        /\ ~toMaster[1].overtaken /\ ~toMaster[2].overtaken
        /\ toMaster[2].seqno = toMaster[1].seqno + 1
    BY <1>1, <1>2, <1>6, WithoutIs, SecondIs
  <2>2. toMaster[1] \in Reports
    BY <1>1, <2>1, MessageIs DEF IsReport
  <2>3. InOrder(toMaster', toMaster[2].seqno, seqno, contact = "registered")
    BY <1>1, <2>1, <2>2, SecondIsTaken
  <2> QED BY <1>2, <1>4, <2>1, <2>3
<1> QED BY <1>5, <1>6

\* A worker handles a registration: only others wait behind it.
LEMMA HandlingARegistrationKeepsTheOrder ==
  ASSUME WindowIsUsable, OrderlyRaces, OrderInv, NEW i \in Takable, HandleRegistration(i)
  PROVE  InOrder(toMaster', host'.seqno, seqno', contact' = "registered")
<1> DEFINE free == \A k \in DOMAIN toMaster' : toMaster'[k].kind # "register"
<1>1. /\ toMaster \in Seq(Messages)
      /\ InOrder(toMaster, host.seqno, seqno, contact = "registered")
  BY QueueIs DEF OrderInv
<1>2. i = 1
  <2>1. toMaster[i].kind # "report"
    BY DEF HandleRegistration
  <2> QED BY <2>1, SecondIs DEF IsReport
<1>3. /\ toMaster[1].kind = "register" /\ IsRest(toMaster', toMaster)
  BY <1>1, <1>2, WithoutIs DEF HandleRegistration
<1>4. host' = [host EXCEPT !.seqno = 0] /\ seqno' = seqno
  BY DEF HandleRegistration
<1>5. host'.seqno = 0
  BY <1>4 DEF OrderInv, TypeOK
<1>6. contact # "registered"
  BY <1>1, <1>3 DEF IsRest, InOrder, RegistrationsAreLast
<1>7. contact' = "registered" => free
  BY <1>6 DEF HandleRegistration
<1> DEFINE answered == contact' = "registered"
<1>8. answered => free
  BY <1>7
<1> HIDE DEF answered
<1>9. InOrder(toMaster', 0, seqno, answered)
  BY <1>1, <1>3, <1>8, RegistrationIsTaken
<1> QED BY <1>4, <1>5, <1>9 DEF answered

LEMMA WorkKeepsTheOrder ==
  ASSUME WindowIsUsable, OrderlyRaces, OrderInv, Work
  PROVE  OrderInv'
<1>1. TypeOK'
  BY WorkIsTyped DEF OrderInv
<1>2. InOrder(toMaster', host'.seqno, seqno', contact' = "registered")
  BY HandlingAReportKeepsTheOrder, HandlingARegistrationKeepsTheOrder DEF Work
<1> QED BY <1>1, <1>2 DEF OrderInv

\* The daemon sends its next report.
LEMMA SendReportKeepsTheOrder ==
  ASSUME OrderInv, SendReport
  PROVE  OrderInv'
<1> DEFINE new == Report(seqno, sendAll, Item, known = None)
<1>1. TypeOK /\ TypeOK'
  BY SendReportIsTyped DEF OrderInv
<1>2. /\ contact = "registered" /\ contact' = contact /\ host' = host
      /\ toMaster' = Append(toMaster, new) /\ seqno' = Succ(seqno)
  BY DEF SendReport
<1>3. new \in Messages /\ new.kind = "report" /\ new.seqno = seqno /\ ~new.overtaken
  BY <1>1, ReportIsTyped DEF Messages, Report
<1> HIDE DEF new
<1>4. toMaster \in Seq(Messages) /\ InOrder(toMaster, host.seqno, seqno, TRUE)
  BY <1>2, QueueIs DEF OrderInv
<1>5. InOrder(toMaster', host.seqno, Succ(seqno), TRUE)
  BY <1>2, <1>3, <1>4, ReportJoins
<1> QED BY <1>1, <1>2, <1>5 DEF OrderInv

\* The daemon registers again, or a new one registers, or the connection is lost.
LEMMA RegistrationsKeepTheOrder ==
  ASSUME OrderInv, Reconnect \/ Restart \/ LoseConnection
  PROVE  OrderInv'
<1>1. TypeOK'
  BY FaultsAreTyped DEF OrderInv
<1>2. /\ toMaster \in Seq(Messages) /\ host' = host
      /\ InOrder(toMaster, host.seqno, seqno, contact = "registered")
  BY QueueIs DEF OrderInv, Reconnect, Restart, LoseConnection
<1>3. CASE Reconnect \/ Restart
  <2>1. contact' = "registering" /\ toMaster' = Append(toMaster, Registration)
    BY <1>3 DEF Reconnect, Restart
  <2>2. InOrder(toMaster', host.seqno, seqno', FALSE)
    BY <1>2, <2>1, RegistrationJoins
  <2> QED BY <1>1, <1>2, <2>1, <2>2 DEF OrderInv
<1>4. CASE LoseConnection
  <2>1. /\ contact' = "lost" /\ seqno' = seqno
        /\ \E n \in 0 .. Len(toMaster) : toMaster' = SubSeq(toMaster, 1, n)
    BY <1>4 DEF LoseConnection, daemonVars
  <2>2. InOrder(toMaster', host.seqno, seqno, FALSE)
    BY <1>2, <2>1, QueueIsCut
  <2> QED BY <1>1, <1>2, <2>1, <2>2 DEF OrderInv
<1> QED BY <1>3, <1>4

\* What has nothing to do with the order.
LEMMA OthersKeepTheOrder ==
  ASSUME OrderInv, Measure \/ ReceiveAtExecd \/ Unheard \/ UNCHANGED vars
  PROVE  OrderInv'
<1>1. TypeOK'
  BY ReceiveIsTyped, FaultsAreTyped DEF OrderInv, Measure, vars, daemonVars, TypeOK
<1>2. /\ toMaster' = toMaster /\ seqno' = seqno /\ contact' = contact
      /\ host' = host \/ host' = [host EXCEPT !.heard = FALSE, !.stored = Gone]
  BY DEF Measure, ReceiveAtExecd, Unheard, vars, daemonVars
<1>3. host'.seqno = host.seqno
  BY <1>2 DEF OrderInv, TypeOK
<1> QED BY <1>1, <1>2, <1>3 DEF OrderInv

\* A report is ignored exactly when a later one has been handled before, for
\* every window that lets two numbers through when they wrap, for every length of
\* the queue and number of faults: whatever overtakes what, connections break and
\* daemons start again between the reports, as long as no report is overtaken
\* over a wrap of the numbers or by a registration, and no daemon is started while
\* reports of the previous one wait (sge_c_report).  The inductive invariant says
\* in which order the numbers wait and what the qmaster has seen of them.
THEOREM OnlyOvertakenReportsAreIgnored ==
  ASSUME OrderlyRaces, WindowIsUsable
  PROVE  Spec => []IgnoresExactlyTheOld
<1>1. OrderInv /\ [Next]_vars => OrderInv'
  BY WorkKeepsTheOrder, SendReportKeepsTheOrder, RegistrationsKeepTheOrder,
     OthersKeepTheOrder DEF Next
<1>2. OrderInv => IgnoresExactlyTheOld
  BY IgnoresOvertaken
<1> QED BY <1>1, <1>2, InitIsInOrder, PTL DEF Spec
-----------------------------------------------------------------------------
(* What the daemon takes for known is stored.  Only "overtaken" of the      *)
(* races is allowed here, as in the run.                                    *)

Answers == [kind : {"ack"}, seqno : Numbers] \union [kind : {"full"}]

\* How many reports ago the number n was given, if fewer than Wrap.
Age(n, next) == IF n < next THEN next - n ELSE next + Wrap - n

\* A report that will be handled when its turn comes, not ignored.
IsFresh(q, i) == IsReport(q, i) /\ ~q[i].overtaken

FreshOnes(q) == IF IsReport(q, 1) /\ q[1].overtaken THEN Len(q) - 1 ELSE Len(q)

IsAck(a, k) == k \in DOMAIN a /\ a[k].kind = "ack"

Bounded ==
  /\ Len(toMaster) <= MaxMessages
  /\ toExecd \in Seq(Answers) /\ Len(toExecd) <= MaxMessages

\* Reports that wait are recent; if none was lost, their places tell how recent.
ReportAges(q, next, registered) ==
  \A i \in DOMAIN q : IsReport(q, i) =>
    /\ Age(q[i].seqno, next) <= MaxMessages + 1
    /\ registered =>
         Age(q[i].seqno, next) = Len(q) - i + (IF q[i].overtaken THEN 2 ELSE 1)

\* Acknowledgements are not much older: an answer stands for two reports at most.
AnswerAges(a, q, next, registered) ==
  \A k \in DOMAIN a : IsAck(a, k) =>
    Age(a[k].seqno, next) <=
      IF registered THEN 2 * (Len(a) - k) + FreshOnes(q) + 1 + MaxMessages
      ELSE MaxMessages + 1

LastIsNewest == last # None => seqno = Succ(last.seqno)

\* n is the number of the last report, which was not acknowledged yet.
IsLast(n) == last # None /\ last.seqno = n

\* The last report says something new, and was not acknowledged yet.
Unsettled == last # None /\ last.item # "nothing"

Settled == known \in Values \union {Gone} /\ ~Unsettled

\* A daemon that has not reported yet begins anew.
NothingReported ==
  known = None =>
    /\ last = None /\ sendAll /\ toExecd = <<>>
    /\ \A i \in DOMAIN toMaster : ~IsReport(toMaster, i)
    /\ value = Gone => host.stored = Gone

UnheardIsEmpty == ~host.heard => host.stored = Gone

\* What the last report says is not known, and what can be measured since.
LastSays ==
  /\ known = Stale => value # Gone /\ last # None /\ last.item \in Values
  /\ last # None =>
       /\ last.item = "nothing" => known \in Values \union {Gone}
       /\ last.item \in Values => known \in {Stale, Gone} /\ value # Gone
       /\ last.item = "deleted" => known \in Values /\ value = Gone
       /\ last.item # "void"

LastWaits ==
  \A i \in DOMAIN toMaster :
    IsFresh(toMaster, i) /\ IsLast(toMaster[i].seqno) => toMaster[i].item = last.item

\* When what was said has been acknowledged, the reports that wait say nothing,
\* except for the first one of a daemon, which counts as known at once.
FreshSay ==
  Settled =>
    \A i \in DOMAIN toMaster : IsFresh(toMaster, i) =>
      \/ toMaster[i].item = "nothing" /\ (toMaster[i].full => known = Gone)
      \/ /\ toMaster[i].item = known /\ known \in Values
         /\ toMaster[i].first /\ toMaster[i].full

GoneIsStored == Settled /\ known = Gone => host.stored = Gone

\* The qmaster has asked for a full report.
Asked == \E k \in DOMAIN toExecd : toExecd[k].kind = "full"

ValueIsStored ==
  /\ Settled /\ known \in Values
  /\ contact = "registered" /\ ~sendAll /\ host.heard /\ ~Asked
  /\ \A i \in DOMAIN toMaster : IsFresh(toMaster, i) => toMaster[i].item # known
  => host.stored = known

\* The last report was acknowledged: it was handled after all that wait.
AckedIsStored ==
  \A k \in DOMAIN toExecd :
    IsAck(toExecd, k) /\ IsLast(toExecd[k].seqno) /\ Unsettled =>
      /\ \A i \in DOMAIN toMaster : ~IsFresh(toMaster, i)
      /\ last.item \in Values => host.stored = last.item \/ ~host.heard
      /\ last.item = "deleted" => host.stored = Gone

\* The last report is on its way, or its acknowledgement is, or it is sent again.
LastIsAnswered ==
  Unsettled /\ contact = "registered" /\ ~sendAll /\ ~Asked =>
    \/ \E i \in DOMAIN toMaster : IsFresh(toMaster, i) /\ IsLast(toMaster[i].seqno)
    \/ \E k \in DOMAIN toExecd : IsAck(toExecd, k) /\ IsLast(toExecd[k].seqno)

\* The conjuncts about the messages, and those about what they mean.
AgesInv ==
  /\ Bounded /\ LastIsNewest
  /\ ReportAges(toMaster, seqno, contact = "registered")
  /\ AnswerAges(toExecd, toMaster, seqno, contact = "registered")

MeaningInv ==
  /\ NothingReported /\ UnheardIsEmpty /\ LastSays /\ LastWaits /\ FreshSay
  /\ GoneIsStored /\ ValueIsStored /\ AckedIsStored /\ LastIsAnswered

StoreInv == OrderInv /\ AgesInv /\ MeaningInv

\* The races of the run.
CalmRaces == Races \subseteq {"overtaken"}

\* A number is not given again while messages with it are on their way.
WrapIsFar == 4 * MaxMessages <= Wrap

-----------------------------------------------------------------------------
(* Ages and places of messages                                              *)

LEMMA AgeIs ==
  ASSUME NEW n \in Numbers, NEW next \in Numbers
  PROVE  Age(n, next) \in 1 .. Wrap /\ (n = next => Age(n, next) = Wrap)
BY WindowAssumption DEF Age

LEMMA AgeGrows ==
  ASSUME NEW n \in Numbers, NEW next \in Numbers, Age(n, next) < Wrap
  PROVE  Age(n, Succ(next)) = Age(n, next) + 1 /\ n # next
BY WindowAssumption DEF Age, Succ

LEMMA NewestAge ==
  ASSUME NEW n \in Numbers
  PROVE  Age(n, Succ(n)) = 1
BY WindowAssumption DEF Age, Succ

\* p is q with x behind it.
IsLonger(p, q, x) ==
  /\ Len(q) \in Nat /\ DOMAIN q = 1 .. Len(q)
  /\ Len(p) = Len(q) + 1 /\ DOMAIN p = 1 .. Len(q) + 1
  /\ p[Len(q) + 1] = x
  /\ \A i \in DOMAIN q : i \in DOMAIN p /\ p[i] = q[i]

LEMMA AppendIsLonger ==
  ASSUME NEW S, NEW q \in Seq(S), NEW x \in S
  PROVE  IsLonger(Append(q, x), q, x) /\ Append(q, x) \in Seq(S)
<1> DEFINE p == Append(q, x)
           n == Len(q)
<1>1. /\ Len(p) = n + 1 /\ p[n + 1] = x /\ p \in Seq(S)
      /\ \A i \in 1 .. n : p[i] = q[i]
  BY AppendProperties
<1>2. n \in Nat /\ DOMAIN q = 1 .. n /\ DOMAIN p = 1 .. Len(p)
  BY <1>1, LenProperties
<1> HIDE DEF p
<1>3. DOMAIN p = 1 .. n + 1
  BY <1>1, <1>2
<1> HIDE DEF n
<1>4. \A i \in DOMAIN q : i \in DOMAIN p /\ p[i] = q[i]
  BY <1>1, <1>2, <1>3
<1>5. IsLonger(p, q, x)
  BY <1>1, <1>2, <1>3, <1>4 DEF IsLonger, n
<1> QED BY <1>1, <1>5 DEF p

LEMMA TailIsRest ==
  ASSUME NEW S, NEW q \in Seq(S), q # <<>>
  PROVE  /\ IsRest(Tail(q), q) /\ Tail(q) \in Seq(S) /\ Len(Tail(q)) \in Nat
         /\ 1 \in DOMAIN q /\ Head(q) = q[1]
<1> DEFINE p == Tail(q)
           n == Len(q)
<1>1. /\ n \in Nat /\ DOMAIN q = 1 .. n /\ n # 0 /\ Head(q) = q[1]
      /\ p \in Seq(S) /\ Len(p) = n - 1 /\ \A j \in 1 .. Len(p) : p[j] = q[j + 1]
  BY LenProperties, EmptySeq, HeadTailProperties
<1>2. DOMAIN p = 1 .. Len(p) /\ Len(p) \in Nat
  BY <1>1, LenProperties
<1> HIDE DEF p
<1>3. \A j \in DOMAIN p : j + 1 \in DOMAIN q /\ p[j] = q[j + 1]
  BY <1>1, <1>2
<1>4. 1 \in DOMAIN q /\ n \in Nat \ {0}
  BY <1>1
<1>5. IsRest(p, q)
  BY <1>1, <1>2, <1>3, <1>4 DEF IsRest
<1> QED BY <1>1, <1>2, <1>4, <1>5 DEF p

\* What waits when the message at place i has been taken, and the fresh reports in it.
Leaves(p, q, i) ==
  IF i = 1 THEN IsRest(p, q) ELSE i = 2 /\ IsOvertakenRest(p, q) /\ q[1] \in Reports

LEMMA FreshIsLeft ==
  ASSUME NEW p, NEW q, NEW i, Leaves(p, q, i)
  PROVE  /\ \A j \in DOMAIN p : IsFresh(p, j) =>
              j + 1 \in DOMAIN q /\ IsFresh(q, j + 1) /\ j + 1 > i /\ p[j] = q[j + 1]
         /\ \A j \in DOMAIN q : IsFresh(q, j) /\ j > i =>
              j - 1 \in DOMAIN p /\ IsFresh(p, j - 1) /\ p[j - 1] = q[j]
<1> DEFINE n == Len(q)
<1>1. n \in Nat /\ DOMAIN q = 1 .. n /\ DOMAIN p = 1 .. n - 1 /\ i \in {1, 2}
  BY DEF Leaves, IsRest, IsOvertakenRest
<1>2. \A j \in DOMAIN p : j + 1 > i => j + 1 \in DOMAIN q /\ p[j] = q[j + 1]
  <2> SUFFICES ASSUME NEW j \in DOMAIN p, j + 1 > i
               PROVE  j + 1 \in DOMAIN q /\ p[j] = q[j + 1]
    OBVIOUS
  <2>1. CASE i = 1
    BY <2>1 DEF Leaves, IsRest
  <2>2. CASE i # 1
    <3>1. i = 2 /\ j # 1
      BY <1>1, <2>2
    <3> QED BY <2>2, <3>1 DEF Leaves, IsOvertakenRest
  <2> QED BY <2>1, <2>2
<1>3. \A j \in DOMAIN p : IsFresh(p, j) => j + 1 > i
  <2> SUFFICES ASSUME NEW j \in DOMAIN p, IsFresh(p, j) PROVE j + 1 > i
    OBVIOUS
  <2>1. CASE i = 1
    BY <1>1, <2>1
  <2>2. CASE i # 1
    <3>1. i = 2 /\ p[1].overtaken
      BY <2>2 DEF Leaves, IsOvertakenRest, Reports
    <3>2. j # 1
      BY <3>1 DEF IsFresh
    <3> QED BY <1>1, <3>1, <3>2
  <2> QED BY <2>1, <2>2
<1> HIDE DEF n
<1>4. ASSUME NEW j \in DOMAIN p, IsFresh(p, j)
      PROVE  j + 1 \in DOMAIN q /\ IsFresh(q, j + 1) /\ j + 1 > i /\ p[j] = q[j + 1]
  <2>1. j + 1 > i /\ j + 1 \in DOMAIN q /\ p[j] = q[j + 1]
    BY <1>2, <1>3, <1>4
  <2> QED BY <1>4, <2>1 DEF IsFresh, IsReport
<1>5. ASSUME NEW j \in DOMAIN q, IsFresh(q, j), j > i
      PROVE  j - 1 \in DOMAIN p /\ IsFresh(p, j - 1) /\ p[j - 1] = q[j]
  <2>1. j - 1 \in DOMAIN p /\ (j - 1) + 1 = j /\ (j - 1) + 1 > i
    BY <1>1, <1>5
  <2>2. p[j - 1] = q[j]
    BY <1>2, <2>1
  <2> QED BY <1>5, <2>1, <2>2 DEF IsFresh, IsReport
<1> QED BY <1>4, <1>5

-----------------------------------------------------------------------------
(* Ages when messages come and go                                           *)

LEMMA FreshOnesIs ==
  ASSUME NEW q, Len(q) \in Nat, DOMAIN q = 1 .. Len(q)
  PROVE  FreshOnes(q) \in 0 .. Len(q)
<1>1. IsReport(q, 1) => Len(q) # 0
  BY DEF IsReport
<1> QED BY <1>1 DEF FreshOnes

LEMMA FreshOnesAfter ==
  ASSUME NEW p, NEW q, NEW i, Leaves(p, q, i), IsReport(q, i),
         NEW newest, OvertakenIsFirst(q, newest), i = 2 => IsFresh(q, 1)
  PROVE  /\ FreshOnes(q) \in Nat /\ FreshOnes(p) \in Nat
         /\ FreshOnes(p) = IF q[i].overtaken THEN FreshOnes(q) ELSE FreshOnes(q) - i
<1> DEFINE n == Len(q)
<1>1. /\ n \in Nat \ {0} /\ DOMAIN q = 1 .. n /\ DOMAIN p = 1 .. n - 1 /\ Len(p) = n - 1
      /\ i \in {1, 2} /\ (i = 2 => n # 1)
  BY DEF Leaves, IsRest, IsOvertakenRest
<1>2. FreshOnes(q) \in 0 .. n
  BY <1>1, FreshOnesIs
<1>3. CASE i = 1
  <2>1. ~(IsReport(p, 1) /\ p[1].overtaken)
    <3> SUFFICES ASSUME IsReport(p, 1), p[1].overtaken PROVE FALSE
      OBVIOUS
    <3>1. 1 + 1 \in DOMAIN q /\ p[1] = q[1 + 1]
      BY <1>3 DEF Leaves, IsRest, IsReport
    <3>2. IsReport(q, 2) /\ q[2].overtaken /\ 2 \in DOMAIN q
      BY <3>1 DEF IsReport
    <3> QED BY <3>2 DEF OvertakenIsFirst
  <2>2. FreshOnes(p) = n - 1
    BY <1>1, <2>1 DEF FreshOnes
  <2>3. FreshOnes(q) = IF q[1].overtaken THEN n - 1 ELSE n
    BY <1>3 DEF FreshOnes
  <2> HIDE DEF n
  <2> QED BY <1>1, <1>2, <1>3, <2>2, <2>3
<1>4. CASE i = 2
  <2>1. ~q[1].overtaken
    BY <1>4 DEF IsFresh
  <2>2. ~q[2].overtaken
    <3>1. 2 \in DOMAIN q
      BY <1>4 DEF IsReport
    <3> QED BY <1>4, <3>1 DEF OvertakenIsFirst
  <2>3. IsReport(p, 1) /\ p[1].overtaken
    <3>1. IsReport(q, 1) /\ p[1] = [q[1] EXCEPT !.overtaken = TRUE] /\ q[1] \in Reports
      BY <1>4 DEF Leaves, IsOvertakenRest, IsFresh
    <3>2. 1 \in DOMAIN p
      BY <1>1, <1>4
    <3> QED BY <3>1, <3>2 DEF IsReport, Reports
  <2>4. FreshOnes(p) = (n - 1) - 1
    BY <1>1, <2>3 DEF FreshOnes
  <2>5. FreshOnes(q) = n
    BY <2>1 DEF FreshOnes
  <2> HIDE DEF n
  <2> QED BY <1>1, <1>4, <2>2, <2>4, <2>5
<1> QED BY <1>1, <1>3, <1>4

LEMMA ReportAgesAfter ==
  ASSUME NEW p, NEW q, NEW i, Leaves(p, q, i), i = 2 => IsFresh(q, 1),
         NEW next, NEW registered, ReportAges(q, next, registered)
  PROVE  ReportAges(p, next, registered)
<1> DEFINE n == Len(q)
<1>1. /\ n \in Nat \ {0} /\ DOMAIN q = 1 .. n /\ DOMAIN p = 1 .. n - 1 /\ Len(p) = n - 1
      /\ i \in {1, 2}
  BY DEF Leaves, IsRest, IsOvertakenRest
<1> SUFFICES ASSUME NEW j \in DOMAIN p, IsReport(p, j)
             PROVE  /\ Age(p[j].seqno, next) <= MaxMessages + 1
                    /\ registered => Age(p[j].seqno, next)
                                       = (n - 1) - j + (IF p[j].overtaken THEN 2 ELSE 1)
  BY <1>1 DEF ReportAges
<1>2. CASE i = 2 /\ j = 1
  <2>1. /\ p[1] = [q[1] EXCEPT !.overtaken = TRUE] /\ q[1] \in Reports
        /\ IsReport(q, 1) /\ ~q[1].overtaken /\ 1 \in DOMAIN q
    BY <1>2 DEF Leaves, IsOvertakenRest, IsFresh, IsReport
  <2>2. p[1].seqno = q[1].seqno /\ p[1].overtaken
    BY <2>1 DEF Reports
  <2>3. /\ Age(q[1].seqno, next) <= MaxMessages + 1
        /\ registered => Age(q[1].seqno, next) = n - 1 + 1
    BY <2>1 DEF ReportAges
  <2> HIDE DEF n
  <2>4. n - 1 + 1 = (n - 1) - 1 + 2
    BY <1>1
  <2> QED BY <1>2, <2>2, <2>3, <2>4
<1>3. CASE ~(i = 2 /\ j = 1)
  <2>1. j + 1 \in DOMAIN q /\ p[j] = q[j + 1]
    BY <1>1, <1>3 DEF Leaves, IsRest, IsOvertakenRest
  <2>2. IsReport(q, j + 1)
    BY <2>1 DEF IsReport
  <2>3. /\ Age(p[j].seqno, next) <= MaxMessages + 1
        /\ registered => Age(p[j].seqno, next)
                           = n - (j + 1) + (IF p[j].overtaken THEN 2 ELSE 1)
    BY <2>1, <2>2 DEF ReportAges
  <2> HIDE DEF n
  <2>4. n - (j + 1) = (n - 1) - j
    BY <1>1
  <2> QED BY <2>3, <2>4
<1> QED BY <1>2, <1>3

\* An answer to the report at place i is sent.
LEMMA AnswerAgesAfter ==
  ASSUME NEW p, NEW q, NEW i, Leaves(p, q, i), IsFresh(q, i),
         NEW newest, OvertakenIsFirst(q, newest), i = 2 => IsFresh(q, 1),
         NEW next \in Numbers, q[i].seqno \in Numbers, NEW registered,
         ReportAges(q, next, registered),
         NEW a \in Seq(Answers), AnswerAges(a, q, next, registered),
         NEW x, x.kind = "ack" => x.seqno = q[i].seqno,
         NEW b, IsLonger(b, a, x)
  PROVE  AnswerAges(b, p, next, registered)
<1> DEFINE f == FreshOnes(q)
           g == FreshOnes(p)
           l == Len(a)
<1>1. i \in {1, 2} /\ IsReport(q, i) /\ i \in DOMAIN q /\ ~q[i].overtaken
  BY DEF Leaves, IsFresh, IsReport
<1>2. f \in Nat /\ g \in Nat /\ g = f - i /\ MaxMessages \in Nat \ {0}
  BY <1>1, FreshOnesAfter, BoundsAssumption
<1>3. /\ l \in Nat /\ DOMAIN a = 1 .. l /\ Len(b) = l + 1 /\ DOMAIN b = 1 .. l + 1
      /\ b[l + 1] = x /\ \A k \in DOMAIN a : b[k] = a[k]
  BY DEF IsLonger
<1> SUFFICES ASSUME NEW k \in DOMAIN b, IsAck(b, k)
             PROVE  Age(b[k].seqno, next) <=
                      IF registered THEN 2 * ((l + 1) - k) + g + 1 + MaxMessages
                      ELSE MaxMessages + 1
  BY <1>3 DEF AnswerAges
<1>4. CASE k \in DOMAIN a
  <2>1. b[k] = a[k] /\ IsAck(a, k) /\ k \in 1 .. l
    BY <1>3, <1>4 DEF IsAck
  <2>2. Age(b[k].seqno, next) <=
          IF registered THEN 2 * (l - k) + f + 1 + MaxMessages ELSE MaxMessages + 1
    BY <1>4, <2>1 DEF AnswerAges
  <2>3. a[k] \in Answers
    BY <1>3, <1>4, ElementOfSeq
  <2>4. a[k].seqno \in Numbers
    BY <2>1, <2>3 DEF Answers, IsAck
  <2>5. Age(b[k].seqno, next) \in Nat
    <3>1. Age(a[k].seqno, next) \in 1 .. Wrap
      BY <2>4, AgeIs
    <3>2. Age(a[k].seqno, next) \in Nat
      BY <3>1
    <3> QED BY <2>1, <3>2
  <2> HIDE DEF f, g, l
  <2> DEFINE y == Age(b[k].seqno, next)
  <2>6. 2 * (l - k) + f + 1 + MaxMessages <= 2 * ((l + 1) - k) + g + 1 + MaxMessages
    <3>1. k \in Int /\ l \in Int /\ f \in Int /\ MaxMessages \in Int
      BY <1>2, <1>3, <2>1
    <3>2. g = f - 1 \/ g = f - 2
      BY <1>1, <1>2
    <3> QED BY <3>1, <3>2
  <2>7. y \in Nat /\ y <= IF registered THEN 2 * (l - k) + f + 1 + MaxMessages ELSE MaxMessages + 1
    BY <2>2, <2>5
  <2> HIDE DEF y
  <2>8. y <= IF registered THEN 2 * ((l + 1) - k) + g + 1 + MaxMessages ELSE MaxMessages + 1
    <3>1. CASE registered
      <4>1. y <= 2 * (l - k) + f + 1 + MaxMessages
        BY <2>7, <3>1
      <4> DEFINE A == 2 * (l - k) + f + 1 + MaxMessages
                 B == 2 * ((l + 1) - k) + g + 1 + MaxMessages
      <4>2. k \in Int /\ l \in Int /\ f \in Int /\ g \in Int /\ MaxMessages \in Int
        BY <1>2, <1>3, <2>1
      <4>3. A \in Int /\ B \in Int
        BY <4>2
      <4>4. y <= A /\ A <= B /\ y \in Int
        BY <2>6, <2>7, <4>1
      <4> HIDE DEF A, B
      <4>5. A \in Int /\ B \in Int /\ y \in Int /\ y <= A /\ A <= B
        BY <4>3, <4>4
      <4>6. y <= B
        BY <4>5
      <4>7. y <= 2 * ((l + 1) - k) + g + 1 + MaxMessages
        BY <4>6 DEF B
      <4> QED BY <3>1, <4>7
    <3>2. CASE ~registered
      BY <2>7, <3>2
    <3> QED BY <3>1, <3>2
  <2> QED BY <2>8 DEF y
<1>5. CASE k \notin DOMAIN a
  <2>1. k = l + 1 /\ b[k] = x /\ x.kind = "ack"
    BY <1>3, <1>5 DEF IsAck
  <2> DEFINE y == Age(q[i].seqno, next)
  <2>2. /\ y <= MaxMessages + 1
        /\ registered => y = Len(q) - i + 1
    BY <1>1 DEF ReportAges
  <2>3. Len(q) \in Nat /\ y \in Nat /\ f \in 0 .. Len(q)
    <3>1. Len(q) \in Nat /\ DOMAIN q = 1 .. Len(q)
      BY DEF Leaves, IsRest, IsOvertakenRest
    <3>2. y \in 1 .. Wrap
      BY AgeIs
    <3>3. y \in Nat
      BY <3>2
    <3>4. f \in 0 .. Len(q)
      BY <3>1, FreshOnesIs
    <3> QED BY <3>1, <3>3, <3>4
  <2>4. f >= Len(q) - 1
    BY <2>3 DEF FreshOnes
  <2>5. b[k].seqno = q[i].seqno
    BY <2>1
  <2> HIDE DEF f, g, l, y
  <2>6. registered => y <= 2 * ((l + 1) - k) + g + 1 + MaxMessages
    BY <1>1, <1>2, <1>3, <2>1, <2>2, <2>3, <2>4
  <2> QED BY <2>2, <2>5, <2>6 DEF y
<1> QED BY <1>4, <1>5

\* The daemon counts on: all get older, and no message has the number it gives.
LEMMA AgesGrow ==
  ASSUME WrapIsFar, NEW q \in Seq(Messages), Len(q) < MaxMessages,
         NEW a \in Seq(Answers), Len(a) <= MaxMessages,
         NEW next \in Numbers, ReportAges(q, next, TRUE), AnswerAges(a, q, next, TRUE),
         NEW new, new.kind = "report", new.seqno = next, ~new.overtaken,
         NEW p, IsLonger(p, q, new)
  PROVE  /\ ReportAges(p, Succ(next), TRUE) /\ AnswerAges(a, p, Succ(next), TRUE)
         /\ \A i \in DOMAIN q : IsReport(q, i) => q[i].seqno # next
         /\ \A k \in DOMAIN a : IsAck(a, k) => a[k].seqno # next
<1> DEFINE n == Len(q)
           l == Len(a)
           f == FreshOnes(q)
           g == FreshOnes(p)
<1>1. /\ n \in Nat /\ DOMAIN q = 1 .. n /\ Len(p) = n + 1 /\ DOMAIN p = 1 .. n + 1
      /\ p[n + 1] = new /\ \A i \in DOMAIN q : p[i] = q[i]
      /\ l \in Nat /\ DOMAIN a = 1 .. l
  BY LenProperties DEF IsLonger
<1>2. MaxMessages \in Nat \ {0} /\ Wrap \in Nat /\ 4 * MaxMessages <= Wrap
  BY BoundsAssumption, WindowAssumption DEF WrapIsFar
<1>3. f \in 0 .. n /\ g = f + 1
  <2>1. f \in 0 .. n
    BY <1>1, FreshOnesIs
  <2>2. CASE n = 0
    <3>1. f = 0
      BY <2>1, <2>2
    <3>2. p[1] = new
      BY <1>1, <2>2
    <3>3. g = 1
      BY <1>1, <2>2, <3>2 DEF FreshOnes
    <3> QED BY <2>1, <3>1, <3>3
  <2>3. CASE n # 0
    <3>1. p[1] = q[1] /\ 1 \in DOMAIN p /\ 1 \in DOMAIN q
      BY <1>1, <2>3
    <3>2. IsReport(p, 1) <=> IsReport(q, 1)
      BY <3>1 DEF IsReport
    <3>3. f = (IF IsReport(q, 1) /\ q[1].overtaken THEN n - 1 ELSE n)
          /\ g = (IF IsReport(q, 1) /\ q[1].overtaken THEN (n + 1) - 1 ELSE n + 1)
      BY <1>1, <3>1, <3>2 DEF FreshOnes
    <3> HIDE DEF n, f, g
    <3> QED BY <1>1, <2>1, <3>3
  <2> QED BY <2>2, <2>3
<1>4. ASSUME NEW i \in DOMAIN q, IsReport(q, i)
      PROVE  /\ q[i].seqno # next
             /\ Age(q[i].seqno, Succ(next)) <= MaxMessages + 1
             /\ Age(q[i].seqno, Succ(next)) = (n + 1) - i + (IF q[i].overtaken THEN 2 ELSE 1)
  <2> DEFINE y == Age(q[i].seqno, next)
             o == IF q[i].overtaken THEN 2 ELSE 1
  <2>1. q[i].seqno \in Numbers
    BY <1>4, MessageIs DEF IsReport
  <2>2. y <= MaxMessages + 1 /\ y = n - i + o
    BY <1>4 DEF ReportAges
  <2>3. y \in Nat /\ o \in {1, 2} /\ i \in 1 .. n
    BY <1>1, <2>1, AgeIs, WindowAssumption
  <2>4. y < Wrap
    <3> HIDE DEF y, o, n
    <3> QED BY <1>2, <2>2, <2>3
  <2>5. Age(q[i].seqno, Succ(next)) = y + 1 /\ q[i].seqno # next
    BY <2>1, <2>4, AgeGrows
  <2>6. y + 1 = (n + 1) - i + o /\ y + 1 <= MaxMessages + 1
    <3>1. n < MaxMessages
      OBVIOUS
    <3> HIDE DEF y, o, n
    <3> QED BY <1>1, <1>2, <2>2, <2>3, <3>1
  <2> QED BY <2>5, <2>6
<1>5. ReportAges(p, Succ(next), TRUE)
  <2> SUFFICES ASSUME NEW i \in DOMAIN p, IsReport(p, i)
               PROVE  /\ Age(p[i].seqno, Succ(next)) <= MaxMessages + 1
                      /\ Age(p[i].seqno, Succ(next))
                           = (n + 1) - i + (IF p[i].overtaken THEN 2 ELSE 1)
    BY <1>1 DEF ReportAges
  <2>1. CASE i \in DOMAIN q
    <3>1. p[i] = q[i] /\ IsReport(q, i)
      BY <1>1, <2>1 DEF IsReport
    <3> QED BY <1>4, <2>1, <3>1
  <2>2. CASE i \notin DOMAIN q
    <3>1. i = n + 1 /\ p[i] = new
      BY <1>1, <2>2
    <3>2. Age(next, Succ(next)) = 1
      BY NewestAge
    <3> HIDE DEF n
    <3> QED BY <1>1, <1>2, <3>1, <3>2
  <2> QED BY <2>1, <2>2
<1>6. ASSUME NEW k \in DOMAIN a, IsAck(a, k)
      PROVE  /\ a[k].seqno # next
             /\ Age(a[k].seqno, Succ(next)) <= 2 * (l - k) + g + 1 + MaxMessages
  <2> DEFINE y == Age(a[k].seqno, next)
  <2>1. a[k] \in Answers
    BY <1>1, ElementOfSeq
  <2>2. a[k].seqno \in Numbers
    BY <1>6, <2>1 DEF Answers, IsAck
  <2>3. y <= 2 * (l - k) + f + 1 + MaxMessages
    BY <1>6 DEF AnswerAges
  <2>4. y \in Nat /\ k \in 1 .. l
    BY <1>1, <2>2, AgeIs, WindowAssumption
  <2>5. n < MaxMessages /\ l <= MaxMessages
    OBVIOUS
  <2>6. y < Wrap
    <3> HIDE DEF y, n, l, f, g
    <3> QED BY <1>1, <1>2, <1>3, <2>3, <2>4, <2>5
  <2>7. Age(a[k].seqno, Succ(next)) = y + 1 /\ a[k].seqno # next
    BY <2>2, <2>6, AgeGrows
  <2>8. y + 1 <= 2 * (l - k) + g + 1 + MaxMessages
    <3> HIDE DEF y, n, l, f, g
    <3> QED BY <1>1, <1>2, <1>3, <2>3, <2>4
  <2> QED BY <2>7, <2>8
<1>7. AnswerAges(a, p, Succ(next), TRUE)
  BY <1>6 DEF AnswerAges
<1> QED BY <1>4, <1>5, <1>6, <1>7

-----------------------------------------------------------------------------
(* What a step means for what is stored                                     *)

Setting == CalmRaces /\ WindowIsUsable /\ WrapIsFar

LEMMA SettingIsOrderly == Setting => OrderlyRaces
BY DEF Setting, CalmRaces, OrderlyRaces

LEMMA StoreIs ==
  ASSUME StoreInv
  PROVE  /\ toMaster \in Seq(Messages) /\ Len(toMaster) \in Nat
         /\ DOMAIN toMaster = 1 .. Len(toMaster)
         /\ toExecd \in Seq(Answers) /\ Len(toExecd) \in Nat
         /\ DOMAIN toExecd = 1 .. Len(toExecd)
         /\ seqno \in Numbers /\ host.seqno \in Numbers
         /\ host \in [seqno : Numbers, heard : BOOLEAN, stored : Values \union {Gone}]
         /\ OvertakenIsFirst(toMaster, host.seqno)
         /\ RegistrationsAreLast(toMaster, contact = "registered")
         /\ ReportAges(toMaster, seqno, contact = "registered")
         /\ AnswerAges(toExecd, toMaster, seqno, contact = "registered")
<1>1. OrderInv /\ AgesInv
  BY DEF StoreInv
<1>2. toExecd \in Seq(Answers)
  BY <1>1 DEF AgesInv, Bounded
<1>3. Len(toExecd) \in Nat /\ DOMAIN toExecd = 1 .. Len(toExecd)
  BY <1>2, LenProperties
<1>4. host \in [seqno : Numbers, heard : BOOLEAN, stored : Values \union {Gone}]
  BY <1>1 DEF OrderInv, TypeOK
<1> QED BY <1>1, <1>2, <1>3, <1>4, QueueIs DEF AgesInv

\* No report waits behind the last one.
LEMMA LastIsBehind ==
  ASSUME Setting, StoreInv, NEW i \in DOMAIN toMaster, IsFresh(toMaster, i),
         IsLast(toMaster[i].seqno)
  PROVE  \A j \in DOMAIN toMaster : IsReport(toMaster, j) => j <= i
<1>1. /\ DOMAIN toMaster = 1 .. Len(toMaster) /\ Len(toMaster) \in Nat
      /\ toMaster \in Seq(Messages) /\ seqno \in Numbers
      /\ RegistrationsAreLast(toMaster, contact = "registered")
      /\ ReportAges(toMaster, seqno, contact = "registered")
  BY StoreIs
<1>2. ~IsReport(toMaster, i + 1)
  <2> SUFFICES ASSUME IsReport(toMaster, i + 1) PROVE FALSE
    OBVIOUS
  <2>1. IsReport(toMaster, i) /\ ~toMaster[i].overtaken /\ i + 1 \in DOMAIN toMaster
    BY DEF IsFresh, IsReport
  <2>2. toMaster[i + 1].seqno = Succ(toMaster[i].seqno)
    BY <2>1, QueueIs DEF StoreInv, NumbersFollow, Handled
  <2>3. seqno = Succ(toMaster[i].seqno)
    BY DEF StoreInv, AgesInv, LastIsNewest, IsLast
  <2>4. Age(seqno, seqno) = Wrap
    BY <1>1, AgeIs
  <2>5. Age(seqno, seqno) <= MaxMessages + 1
    BY <1>1, <2>1, <2>2, <2>3 DEF ReportAges
  <2> QED BY <2>4, <2>5, WindowAssumption, BoundsAssumption DEF Setting, WrapIsFar
<1> SUFFICES ASSUME NEW j \in DOMAIN toMaster, IsReport(toMaster, j), ~(j <= i)
             PROVE  FALSE
  OBVIOUS
<1>3. i + 1 \in DOMAIN toMaster /\ i + 1 <= j
  BY <1>1
<1>4. toMaster[i + 1].kind = "register"
  BY <1>1, <1>2, <1>3, MessageIs DEF IsReport
<1>5. toMaster[j].kind = "register"
  BY <1>1, <1>3, <1>4 DEF RegistrationsAreLast
<1> QED BY <1>5 DEF IsReport

\* A worker takes the report at place i.
LEMMA TakingIs ==
  ASSUME Setting, StoreInv, NEW i \in Takable, HandleReport(i)
  PROVE  /\ Leaves(toMaster', toMaster, i)
         /\ i \in DOMAIN toMaster /\ IsReport(toMaster, i) /\ toMaster[i] \in Reports
         /\ Old(toMaster[i].seqno, host.seqno) <=> toMaster[i].overtaken
         /\ i \in {1, 2}
         /\ i = 2 => /\ IsFresh(toMaster, 1) /\ IsFresh(toMaster, 2) /\ ~toMaster[1].first
                     /\ 1 \in DOMAIN toMaster
         /\ Len(toMaster') = Len(toMaster) - 1
<1>1. OrderlyRaces /\ WindowIsUsable /\ OrderInv
  BY SettingIsOrderly DEF Setting, StoreInv
<1>2. toMaster \in Seq(Messages) /\ toMaster' = Without(i) /\ toMaster[i].kind = "report"
  BY StoreIs DEF HandleReport
<1>3. i \in DOMAIN toMaster /\ IsReport(toMaster, i)
  BY <1>2 DEF Takable, IsReport
<1>4. toMaster[i] \in Reports
  BY <1>2, <1>3, MessageIs
<1>5. Old(toMaster[i].seqno, host.seqno) <=> toMaster[i].overtaken
  BY <1>1, <1>2, IgnoresOvertaken DEF IgnoresExactlyTheOld
<1>6. i # 1 => /\ i = 2 /\ IsFresh(toMaster, 1) /\ IsFresh(toMaster, 2)
               /\ 1 \in DOMAIN toMaster
  BY <1>1, SecondIs DEF IsFresh, IsReport
<1>7. i # 1 => ~toMaster[1].first
  <2> SUFFICES ASSUME i # 1 PROVE ~toMaster[1].first
    OBVIOUS
  <2>1. SecondOvertakes /\ toMaster[2].kind = "report"
    BY <1>6 DEF Takable, IsFresh, IsReport
  <2> QED BY <2>1 DEF SecondOvertakes, Setting, CalmRaces
<1>8. IF i = 1 THEN IsRest(toMaster', toMaster)
      ELSE i = 2 /\ IsOvertakenRest(toMaster', toMaster)
  BY <1>2, WithoutIs
<1>9. i = 2 => toMaster[1] \in Reports
  BY <1>2, <1>6, MessageIs DEF IsFresh, IsReport
<1>10. Leaves(toMaster', toMaster, i)
  BY <1>8, <1>9 DEF Leaves
<1>11. Len(toMaster') = Len(toMaster) - 1
  BY <1>8 DEF IsRest, IsOvertakenRest
<1> QED BY <1>3, <1>4, <1>5, <1>6, <1>7, <1>10, <1>11

\* An overtaken report is ignored.
LEMMA HandleOldKeepsStored ==
  ASSUME Setting, StoreInv, NEW i \in Takable, HandleReport(i), toMaster[i].overtaken
  PROVE  AgesInv' /\ MeaningInv'
<1>1. /\ Leaves(toMaster', toMaster, i) /\ IsReport(toMaster, i) /\ i \in DOMAIN toMaster
      /\ Old(toMaster[i].seqno, host.seqno) /\ Len(toMaster') = Len(toMaster) - 1
  BY TakingIs
<1>2. UNCHANGED <<host, toExecd, value, seqno, known, last, sendAll, contact>>
  BY <1>1 DEF HandleReport, daemonVars
<1>3. i = 1
  BY <1>1, StoreIs DEF OvertakenIsFirst
<1>4. /\ \A j \in DOMAIN toMaster' : IsFresh(toMaster', j) =>
           j + 1 \in DOMAIN toMaster /\ IsFresh(toMaster, j + 1)
             /\ toMaster'[j] = toMaster[j + 1]
      /\ \A j \in DOMAIN toMaster : IsFresh(toMaster, j) =>
           j - 1 \in DOMAIN toMaster' /\ IsFresh(toMaster', j - 1)
             /\ toMaster'[j - 1] = toMaster[j]
  <2>1. \A j \in DOMAIN toMaster : IsFresh(toMaster, j) => j > 1
    <3> SUFFICES ASSUME NEW j \in DOMAIN toMaster, IsFresh(toMaster, j) PROVE j > 1
      OBVIOUS
    <3>1. j # 1
      BY <1>3 DEF IsFresh
    <3> QED BY <3>1, StoreIs
  <2> QED BY <1>1, <1>3, <2>1, FreshIsLeft
<1>5. AgesInv'
  <2>1. ReportAges(toMaster', seqno, contact = "registered")
    BY <1>1, <1>3, StoreIs, ReportAgesAfter
  <2>2. FreshOnes(toMaster') = FreshOnes(toMaster)
    BY <1>1, <1>3, StoreIs, FreshOnesAfter
  <2>3. AnswerAges(toExecd, toMaster', seqno, contact = "registered")
    BY <2>2, StoreIs DEF AnswerAges
  <2>4. Bounded'
    <3>1. Len(toMaster) <= MaxMessages
      BY DEF StoreInv, AgesInv, Bounded
    <3>2. Len(toMaster) - 1 <= MaxMessages
      BY <3>1, StoreIs, BoundsAssumption
    <3> QED BY <1>1, <1>2, <3>2 DEF StoreInv, AgesInv, Bounded
  <2>5. LastIsNewest'
    BY <1>2 DEF StoreInv, AgesInv, LastIsNewest
  <2> QED BY <1>2, <2>1, <2>3, <2>4, <2>5 DEF AgesInv
<1>6. MeaningInv
  BY DEF StoreInv
<1>7. NothingReported' /\ UnheardIsEmpty' /\ LastSays' /\ GoneIsStored'
  <2>1. known # None
    BY <1>1, <1>6 DEF MeaningInv, NothingReported
  <2> QED
    BY <1>2, <1>6, <2>1
    DEF MeaningInv, NothingReported, UnheardIsEmpty, LastSays, GoneIsStored, Settled, Unsettled
<1>8. LastWaits' /\ FreshSay'
  BY <1>2, <1>4, <1>6 DEF MeaningInv, LastWaits, FreshSay, IsLast, Settled, Unsettled
<1>9. ValueIsStored'
  BY <1>2, <1>4, <1>6 DEF MeaningInv, ValueIsStored, Asked, Settled, Unsettled
<1>10. AckedIsStored'
  BY <1>2, <1>4, <1>6 DEF MeaningInv, AckedIsStored, IsLast, IsAck, Unsettled
<1>11. LastIsAnswered'
  BY <1>2, <1>4, <1>6 DEF MeaningInv, LastIsAnswered, Asked, IsLast, IsAck, Unsettled
<1> QED BY <1>5, <1>7, <1>8, <1>9, <1>10, <1>11 DEF MeaningInv

-----------------------------------------------------------------------------
\* A report that was not overtaken is answered.
LEMMA FreshIsAnswered ==
  ASSUME Setting, StoreInv, NEW i \in Takable, HandleReport(i), ~toMaster[i].overtaken
  PROVE  /\ IsFresh(toMaster, i) /\ i \in DOMAIN toMaster /\ toMaster[i] \in Reports
         /\ Leaves(toMaster', toMaster, i) /\ ~Old(toMaster[i].seqno, host.seqno)
         /\ UNCHANGED <<value, seqno, known, last, sendAll, contact>>
         /\ known # None
         /\ IF NeedsFull(toMaster[i])
            THEN /\ host' = [host EXCEPT !.seqno = toMaster[i].seqno]
                 /\ IsLonger(toExecd', toExecd, [kind |-> "full"])
            ELSE IsLonger(toExecd', toExecd, [kind |-> "ack", seqno |-> toMaster[i].seqno])
         /\ toExecd' \in Seq(Answers)
<1>1. /\ Leaves(toMaster', toMaster, i) /\ IsReport(toMaster, i) /\ i \in DOMAIN toMaster
      /\ toMaster[i] \in Reports /\ ~Old(toMaster[i].seqno, host.seqno)
  BY TakingIs
<1>2. UNCHANGED <<value, seqno, known, last, sendAll, contact>>
  BY DEF HandleReport, daemonVars
<1>3. known # None
  BY <1>1 DEF StoreInv, MeaningInv, NothingReported
<1>4. toExecd \in Seq(Answers)
  BY StoreIs
<1>5. CASE NeedsFull(toMaster[i])
  <2>1. /\ host' = [host EXCEPT !.seqno = toMaster[i].seqno]
        /\ toExecd' = Append(toExecd, [kind |-> "full"])
    BY <1>1, <1>5 DEF HandleReport
  <2>2. [kind |-> "full"] \in Answers
    BY DEF Answers
  <2>3. IsLonger(toExecd', toExecd, [kind |-> "full"]) /\ toExecd' \in Seq(Answers)
    BY <1>4, <2>1, <2>2, AppendIsLonger
  <2> QED BY <1>1, <1>2, <1>3, <1>5, <2>1, <2>3 DEF IsFresh
<1>6. CASE ~NeedsFull(toMaster[i])
  <2> DEFINE x == [kind |-> "ack", seqno |-> toMaster[i].seqno]
  <2>1. toExecd' = Append(toExecd, x)
    BY <1>1, <1>6 DEF HandleReport
  <2>2. toMaster[i].seqno \in Numbers
    BY <1>1 DEF Reports
  <2>3. x \in Answers
    BY <2>2 DEF Answers
  <2> HIDE DEF x
  <2>4. IsLonger(toExecd', toExecd, x) /\ toExecd' \in Seq(Answers)
    BY <1>4, <2>1, <2>3, AppendIsLonger
  <2> QED BY <1>1, <1>2, <1>3, <1>6, <2>4 DEF IsFresh, x
<1> QED BY <1>5, <1>6

LEMMA FreshKeepsTheAges ==
  ASSUME Setting, StoreInv, NEW i \in Takable, HandleReport(i), ~toMaster[i].overtaken,
         Len(toExecd) < MaxMessages
  PROVE  AgesInv'
<1>1. /\ IsFresh(toMaster, i) /\ i \in DOMAIN toMaster /\ toMaster[i] \in Reports
      /\ Leaves(toMaster', toMaster, i) /\ (i = 2 => IsFresh(toMaster, 1))
      /\ UNCHANGED <<seqno, last, contact>> /\ Len(toMaster') = Len(toMaster) - 1
      /\ toExecd' \in Seq(Answers)
  BY FreshIsAnswered, TakingIs
<1>2. PICK x : IsLonger(toExecd', toExecd, x) /\ (x.kind = "ack" => x.seqno = toMaster[i].seqno)
  <2>1. CASE NeedsFull(toMaster[i])
    <3> DEFINE x == [kind |-> "full"]
    <3>1. x.kind # "ack"
      OBVIOUS
    <3>2. IsLonger(toExecd', toExecd, x)
      BY <2>1, FreshIsAnswered
    <3> HIDE DEF x
    <3> QED BY <3>1, <3>2
  <2>2. CASE ~NeedsFull(toMaster[i])
    <3> DEFINE x == [kind |-> "ack", seqno |-> toMaster[i].seqno]
    <3>1. x.seqno = toMaster[i].seqno
      OBVIOUS
    <3>2. IsLonger(toExecd', toExecd, x)
      BY <2>2, FreshIsAnswered
    <3> HIDE DEF x
    <3> QED BY <3>1, <3>2
  <2> QED BY <2>1, <2>2
<1>3. ReportAges(toMaster', seqno, contact = "registered")
  BY <1>1, StoreIs, ReportAgesAfter
<1>4. AnswerAges(toExecd', toMaster', seqno, contact = "registered")
  <2>1. toMaster[i].seqno \in Numbers
    BY <1>1 DEF Reports
  <2>2. /\ OvertakenIsFirst(toMaster, host.seqno) /\ seqno \in Numbers
        /\ ReportAges(toMaster, seqno, contact = "registered")
        /\ toExecd \in Seq(Answers)
        /\ AnswerAges(toExecd, toMaster, seqno, contact = "registered")
    BY StoreIs
  <2> DEFINE registered == contact = "registered"
             newest == host.seqno
  <2> HIDE DEF registered, newest
  <2>3. /\ ReportAges(toMaster, seqno, registered) /\ OvertakenIsFirst(toMaster, newest)
        /\ AnswerAges(toExecd, toMaster, seqno, registered)
    BY <2>2 DEF registered, newest
  <2>4. AnswerAges(toExecd', toMaster', seqno, registered)
    BY <1>1, <1>2, <2>1, <2>2, <2>3, AnswerAgesAfter
  <2> QED BY <2>4 DEF registered
<1>5. Bounded'
  <2>1. Len(toExecd') <= MaxMessages
    BY <1>2, StoreIs, BoundsAssumption DEF IsLonger
  <2>2. Len(toMaster) <= MaxMessages
    BY DEF StoreInv, AgesInv, Bounded
  <2>3. Len(toMaster) - 1 <= MaxMessages
    BY <2>2, StoreIs, BoundsAssumption
  <2> QED BY <1>1, <2>1, <2>3 DEF Bounded
<1>6. LastIsNewest'
  BY <1>1 DEF StoreInv, AgesInv, LastIsNewest
<1> QED BY <1>1, <1>3, <1>4, <1>5, <1>6 DEF AgesInv

\* A report that waits was not acknowledged, if it is the last one of all.
LEMMA FreshIsNotAcked ==
  ASSUME StoreInv, NEW i \in DOMAIN toMaster, IsFresh(toMaster, i),
         NEW k \in DOMAIN toExecd, IsAck(toExecd, k), IsLast(toExecd[k].seqno)
  PROVE  ~Unsettled
BY DEF StoreInv, MeaningInv, AckedIsStored

\* The host is unknown and the report is not a full one: it asks for that.
LEMMA AskingKeepsTheMeaning ==
  ASSUME Setting, StoreInv, NEW i \in Takable, HandleReport(i), ~toMaster[i].overtaken,
         NeedsFull(toMaster[i])
  PROVE  MeaningInv'
<1>1. /\ IsFresh(toMaster, i) /\ i \in DOMAIN toMaster /\ Leaves(toMaster', toMaster, i)
      /\ UNCHANGED <<value, seqno, known, last, sendAll, contact>> /\ known # None
      /\ host' = [host EXCEPT !.seqno = toMaster[i].seqno]
      /\ IsLonger(toExecd', toExecd, [kind |-> "full"])
  BY FreshIsAnswered
<1>2. host'.heard = host.heard /\ host'.stored = host.stored /\ ~host.heard
  BY <1>1, StoreIs DEF NeedsFull
<1>3. \A j \in DOMAIN toMaster' : IsFresh(toMaster', j) =>
        j + 1 \in DOMAIN toMaster /\ IsFresh(toMaster, j + 1) /\ toMaster'[j] = toMaster[j + 1]
  BY <1>1, FreshIsLeft
<1>4. Asked'
  BY <1>1 DEF Asked, IsLonger
<1>5. MeaningInv
  BY DEF StoreInv
<1>6. NothingReported' /\ UnheardIsEmpty' /\ LastSays' /\ GoneIsStored'
  BY <1>1, <1>2, <1>5
  DEF MeaningInv, NothingReported, UnheardIsEmpty, LastSays, GoneIsStored, Settled, Unsettled
<1>7. LastWaits' /\ FreshSay'
  BY <1>1, <1>3, <1>5 DEF MeaningInv, LastWaits, FreshSay, IsLast, Settled, Unsettled
<1>8. ValueIsStored' /\ LastIsAnswered'
  BY <1>2, <1>4 DEF ValueIsStored, LastIsAnswered
<1>9. AckedIsStored'
  <2> SUFFICES ASSUME NEW k \in DOMAIN toExecd', IsAck(toExecd', k),
                      IsLast(toExecd[k].seqno)', Unsettled'
               PROVE  FALSE
    BY DEF AckedIsStored
  <2>1. k \in DOMAIN toExecd /\ toExecd'[k] = toExecd[k]
    BY <1>1 DEF IsLonger, IsAck
  <2>2. IsAck(toExecd, k) /\ IsLast(toExecd[k].seqno) /\ Unsettled
    BY <1>1, <2>1 DEF IsAck, IsLast, Unsettled
  <2> QED BY <1>1, <2>1, <2>2, FreshIsNotAcked
<1> QED BY <1>6, <1>7, <1>8, <1>9 DEF MeaningInv

\* The report is taken, and acknowledged.
LEMMA TakingKeepsTheMeaning ==
  ASSUME Setting, StoreInv, NEW i \in Takable, HandleReport(i), ~toMaster[i].overtaken,
         ~NeedsFull(toMaster[i])
  PROVE  MeaningInv'
<1> DEFINE r == toMaster[i]
           x == [kind |-> "ack", seqno |-> r.seqno]
<1>1. /\ IsFresh(toMaster, i) /\ i \in DOMAIN toMaster /\ Leaves(toMaster', toMaster, i)
      /\ UNCHANGED <<value, seqno, known, last, sendAll, contact>> /\ known # None
      /\ IsLonger(toExecd', toExecd, x) /\ r \in Reports
      /\ ~Old(r.seqno, host.seqno)
  BY FreshIsAnswered
<1>2. i \in {1, 2} /\ (i = 2 => ~toMaster[1].first)
  BY TakingIs
<1>3. MeaningInv /\ DOMAIN toMaster = 1 .. Len(toMaster) /\ Len(toMaster) \in Nat
  BY StoreIs DEF StoreInv
<1>4. /\ host'.heard /\ (host.heard \/ r.full)
      /\ r.item = "nothing" => host'.stored = host.stored
      /\ r.item = "deleted" => host'.stored = Gone
      /\ r.item \in Values => host'.stored = r.item
  <2>1. host' = [seqno |-> r.seqno, heard |-> TRUE,
                 stored |-> CASE r.item \in {"nothing", "void"} -> host.stored
                              [] r.item = "deleted" -> Gone
                              [] OTHER -> r.item]
    BY <1>1 DEF HandleReport
  <2>2. host'.heard /\ host'.stored = CASE r.item \in {"nothing", "void"} -> host.stored
                                        [] r.item = "deleted" -> Gone
                                        [] OTHER -> r.item
    BY <2>1
  <2>3. host.heard \/ r.full
    BY DEF NeedsFull
  <2>4. r.item \in Values => r.item \notin {"nothing", "void", "deleted"}
    BY ValuesAssumption
  <2> HIDE DEF r
  <2> QED BY <2>2, <2>3, <2>4
<1> HIDE DEF r
<1>5. /\ \A j \in DOMAIN toMaster' : IsFresh(toMaster', j) =>
           j + 1 \in DOMAIN toMaster /\ IsFresh(toMaster, j + 1) /\ j + 1 > i
             /\ toMaster'[j] = toMaster[j + 1]
      /\ \A j \in DOMAIN toMaster : IsFresh(toMaster, j) /\ j > i =>
           j - 1 \in DOMAIN toMaster' /\ IsFresh(toMaster', j - 1)
             /\ toMaster'[j - 1] = toMaster[j]
  BY <1>1, FreshIsLeft
<1>6. x.kind = "ack" /\ x.seqno = r.seqno
  OBVIOUS
<1> HIDE DEF x
<1>7. /\ Len(toExecd) \in Nat /\ DOMAIN toExecd' = 1 .. Len(toExecd) + 1
      /\ toExecd'[Len(toExecd) + 1] = x
      /\ \A k \in DOMAIN toExecd : k \in DOMAIN toExecd' /\ toExecd'[k] = toExecd[k]
      /\ \A k \in DOMAIN toExecd' : k \in DOMAIN toExecd \/ k = Len(toExecd) + 1
  BY <1>1 DEF IsLonger
<1>8. Settled => \/ r.item = "nothing" /\ (r.full => known = Gone)
                 \/ r.item = known /\ known \in Values
  BY <1>1, <1>3 DEF MeaningInv, FreshSay, r
<1>9. NothingReported' /\ UnheardIsEmpty' /\ LastSays'
  BY <1>1, <1>3, <1>4 DEF MeaningInv, NothingReported, UnheardIsEmpty, LastSays
<1>10. GoneIsStored'
  <2> SUFFICES ASSUME Settled, known = Gone PROVE host'.stored = Gone
    BY <1>1 DEF GoneIsStored, Settled, Unsettled
  <2>1. r.item = "nothing" /\ host.stored = Gone
    BY <1>3, <1>8, ValuesAssumption DEF MeaningInv, GoneIsStored
  <2> QED BY <1>4, <2>1
<1>11. LastWaits' /\ FreshSay'
  BY <1>1, <1>3, <1>5 DEF MeaningInv, LastWaits, FreshSay, IsLast, Settled, Unsettled
<1>12. ValueIsStored'
  <2> SUFFICES ASSUME Settled, known \in Values, contact = "registered", ~sendAll, ~Asked',
                      \A j \in DOMAIN toMaster' : IsFresh(toMaster', j) =>
                                                    toMaster'[j].item # known
               PROVE  host'.stored = known
    BY <1>1 DEF ValueIsStored, Settled, Unsettled
  <2>1. CASE r.item = known
    BY <1>4, <2>1
  <2>2. CASE r.item # known
    <3>1. r.item = "nothing" /\ ~r.full
      BY <1>8, <2>2, ValuesAssumption
    <3>2. host.heard /\ host'.stored = host.stored
      BY <1>4, <3>1
    <3>3. ~Asked
      BY <1>7 DEF Asked
    <3>4. ASSUME NEW j \in DOMAIN toMaster, IsFresh(toMaster, j)
          PROVE  toMaster[j].item # known
      <4>1. CASE j > i
        <5>1. j - 1 \in DOMAIN toMaster' /\ IsFresh(toMaster', j - 1)
              /\ toMaster'[j - 1] = toMaster[j]
          BY <1>5, <3>4, <4>1
        <5> QED BY <5>1
      <4>2. CASE j = i
        BY <2>2, <4>2 DEF r
      <4>3. CASE j < i
        <5>1. i = 2 /\ j = 1
          BY <1>2, <1>3, <4>3
        <5>2. toMaster[j].item = "nothing"
          BY <1>2, <1>3, <3>4, <5>1 DEF MeaningInv, FreshSay
        <5> QED BY <5>2, ValuesAssumption
      <4> QED BY <1>2, <1>3, <4>1, <4>2, <4>3
    <3> QED BY <1>3, <3>2, <3>3, <3>4 DEF MeaningInv, ValueIsStored
  <2> QED BY <2>1, <2>2
<1>13. AckedIsStored'
  <2> SUFFICES ASSUME NEW k \in DOMAIN toExecd', IsAck(toExecd', k),
                      last # None, last.seqno = toExecd'[k].seqno, Unsettled
               PROVE  /\ \A j \in DOMAIN toMaster' : ~IsFresh(toMaster', j)
                      /\ last.item \in Values => host'.stored = last.item
                      /\ last.item = "deleted" => host'.stored = Gone
    BY <1>1 DEF AckedIsStored, IsLast, Unsettled
  <2>1. k \notin DOMAIN toExecd
    <3> SUFFICES ASSUME k \in DOMAIN toExecd PROVE FALSE
      OBVIOUS
    <3>1. toExecd'[k] = toExecd[k]
      BY <1>7
    <3>2. IsAck(toExecd, k) /\ IsLast(toExecd[k].seqno)
      BY <3>1 DEF IsAck, IsLast
    <3> QED BY <1>1, <3>2, FreshIsNotAcked
  <2>2. IsLast(r.seqno)
    BY <1>6, <1>7, <2>1 DEF IsLast
  <2>3. \A j \in DOMAIN toMaster : IsReport(toMaster, j) => j <= i
    BY <1>1, <2>2, LastIsBehind DEF r
  <2>4. ASSUME NEW j \in DOMAIN toMaster', IsFresh(toMaster', j) PROVE FALSE
    <3>1. j + 1 \in DOMAIN toMaster /\ IsFresh(toMaster, j + 1) /\ j + 1 > i
      BY <1>5, <2>4
    <3>2. j + 1 <= i
      BY <2>3, <3>1 DEF IsFresh
    <3>3. j + 1 \in Nat /\ i \in Nat
      BY <1>2, <1>3, <3>1
    <3> QED BY <3>1, <3>2, <3>3
  <2>5. r.item = last.item
    BY <1>1, <1>3, <2>2 DEF MeaningInv, LastWaits, r
  <2> QED BY <1>4, <2>4, <2>5
<1>14. LastIsAnswered'
  <2> SUFFICES ASSUME Unsettled, contact = "registered", ~sendAll, ~Asked'
               PROVE  \/ \E j \in DOMAIN toMaster' :
                           IsFresh(toMaster', j) /\ IsLast(toMaster'[j].seqno)
                      \/ \E k \in DOMAIN toExecd' :
                           IsAck(toExecd', k) /\ IsLast(toExecd'[k].seqno)
    BY <1>1 DEF LastIsAnswered, IsLast, Unsettled
  <2>1. ~Asked
    BY <1>7 DEF Asked
  <2>2. CASE \E k \in DOMAIN toExecd : IsAck(toExecd, k) /\ IsLast(toExecd[k].seqno)
    <3>1. PICK k \in DOMAIN toExecd : IsAck(toExecd, k) /\ IsLast(toExecd[k].seqno)
      BY <2>2
    <3>2. k \in DOMAIN toExecd' /\ toExecd'[k] = toExecd[k]
      BY <1>7
    <3>3. IsAck(toExecd', k)
      BY <3>1, <3>2 DEF IsAck
    <3> QED BY <3>1, <3>2, <3>3
  <2>3. CASE \E j \in DOMAIN toMaster : IsFresh(toMaster, j) /\ IsLast(toMaster[j].seqno)
    <3>1. PICK j \in DOMAIN toMaster : IsFresh(toMaster, j) /\ IsLast(toMaster[j].seqno)
      BY <2>3
    <3>2. i <= j
      BY <1>1, <3>1, LastIsBehind DEF IsFresh
    <3>3. CASE j = i
      <4> DEFINE k == Len(toExecd) + 1
      <4>1. k \in DOMAIN toExecd' /\ toExecd'[k] = x
        BY <1>7
      <4>2. IsAck(toExecd', k) /\ IsLast(toExecd'[k].seqno)
        BY <1>6, <3>1, <3>3, <4>1 DEF IsAck, r
      <4> HIDE DEF k
      <4> QED BY <4>1, <4>2
    <3>4. CASE j # i
      <4>1. j > i
        BY <1>2, <1>3, <3>2, <3>4
      <4>2. j - 1 \in DOMAIN toMaster' /\ IsFresh(toMaster', j - 1)
            /\ toMaster'[j - 1] = toMaster[j]
        BY <1>5, <3>1, <4>1
      <4> QED BY <3>1, <4>2
    <3> QED BY <3>3, <3>4
  <2> QED BY <1>3, <2>1, <2>2, <2>3 DEF MeaningInv, LastIsAnswered
<1> QED BY <1>9, <1>10, <1>11, <1>12, <1>13, <1>14 DEF MeaningInv

LEMMA ReportKeepsStored ==
  ASSUME Setting, StoreInv, NEW i \in Takable, HandleReport(i), Len(toExecd) < MaxMessages
  PROVE  AgesInv' /\ MeaningInv'
<1>1. CASE toMaster[i].overtaken
  BY <1>1, HandleOldKeepsStored
<1>2. CASE ~toMaster[i].overtaken
  BY <1>2, FreshKeepsTheAges, AskingKeepsTheMeaning, TakingKeepsTheMeaning
<1> QED BY <1>1, <1>2

\* A registration is handled: only others wait behind it, and a full report follows.
LEMMA RegistrationKeepsStored ==
  ASSUME Setting, StoreInv, NEW i \in Takable, HandleRegistration(i)
  PROVE  AgesInv' /\ MeaningInv'
<1>1. /\ toMaster \in Seq(Messages) /\ DOMAIN toMaster = 1 .. Len(toMaster)
      /\ Len(toMaster) \in Nat /\ toExecd \in Seq(Answers)
      /\ Len(toExecd) \in Nat /\ DOMAIN toExecd = 1 .. Len(toExecd) /\ seqno \in Numbers
      /\ RegistrationsAreLast(toMaster, contact = "registered")
      /\ AnswerAges(toExecd, toMaster, seqno, contact = "registered")
      /\ host \in [seqno : Numbers, heard : BOOLEAN, stored : Values \union {Gone}]
  BY StoreIs
<1>2. i = 1
  <2>1. OrderlyRaces /\ WindowIsUsable /\ OrderInv
    BY SettingIsOrderly DEF Setting, StoreInv
  <2>2. toMaster[i].kind # "report"
    BY DEF HandleRegistration
  <2> QED BY <2>1, <2>2, SecondIs DEF IsReport
<1>3. toMaster[1].kind = "register" /\ IsRest(toMaster', toMaster)
  BY <1>1, <1>2, WithoutIs DEF HandleRegistration
<1>4. /\ 1 \in DOMAIN toMaster /\ DOMAIN toMaster' = 1 .. Len(toMaster) - 1
      /\ Len(toMaster') = Len(toMaster) - 1 /\ Len(toMaster) \in Nat \ {0}
      /\ \A j \in DOMAIN toMaster' : j + 1 \in DOMAIN toMaster /\ toMaster'[j] = toMaster[j + 1]
  BY <1>3 DEF IsRest
<1>5. \A j \in DOMAIN toMaster : toMaster[j].kind = "register"
  BY <1>1, <1>3, <1>4 DEF RegistrationsAreLast
<1>6. \A j \in DOMAIN toMaster' : toMaster'[j].kind = "register"
  BY <1>4, <1>5
<1>7. contact # "registered"
  BY <1>1, <1>3, <1>4 DEF RegistrationsAreLast
<1>8. /\ UNCHANGED <<value, seqno, known, last, toExecd>>
      /\ host'.heard = host.heard /\ host'.stored = host.stored
      /\ contact' = "registered" => sendAll'
      /\ sendAll => sendAll'
  BY <1>1, <1>7 DEF HandleRegistration
<1>9. AgesInv /\ MeaningInv
  BY DEF StoreInv
<1>10. AgesInv'
  <2>1. Bounded'
    <3>1. Len(toMaster) <= MaxMessages
      BY <1>9 DEF AgesInv, Bounded
    <3>2. Len(toMaster) - 1 <= MaxMessages
      BY <1>1, <3>1, BoundsAssumption
    <3> QED BY <1>4, <1>8, <1>9, <3>2 DEF AgesInv, Bounded
  <2>2. LastIsNewest'
    BY <1>8, <1>9 DEF AgesInv, LastIsNewest
  <2>3. ReportAges(toMaster', seqno', contact' = "registered")
    BY <1>6 DEF ReportAges, IsReport
  <2> DEFINE registered == contact' = "registered"
  <2>4. AnswerAges(toExecd, toMaster', seqno, registered)
    <3> HIDE DEF registered
    <3> SUFFICES ASSUME NEW k \in DOMAIN toExecd, IsAck(toExecd, k)
                 PROVE  Age(toExecd[k].seqno, seqno) <=
                          IF registered
                          THEN 2 * (Len(toExecd) - k) + FreshOnes(toMaster') + 1 + MaxMessages
                          ELSE MaxMessages + 1
      BY DEF AnswerAges
    <3>1. Age(toExecd[k].seqno, seqno) <= MaxMessages + 1
      BY <1>1, <1>7 DEF AnswerAges
    <3>2. FreshOnes(toMaster') \in Nat
      BY <1>4, FreshOnesIs
    <3>3. toExecd[k].seqno \in Numbers
      <4>1. toExecd[k] \in Answers
        BY <1>1, ElementOfSeq
      <4> QED BY <4>1 DEF Answers, IsAck
    <3> DEFINE y == Age(toExecd[k].seqno, seqno)
               l == Len(toExecd)
               g == FreshOnes(toMaster')
    <3>4. y \in 1 .. Wrap
      BY <1>1, <3>3, AgeIs
    <3>5. y \in Nat /\ l \in Nat /\ k \in 1 .. l /\ g \in Nat /\ y <= MaxMessages + 1
          /\ MaxMessages \in Nat
      BY <1>1, <3>1, <3>2, <3>4, BoundsAssumption
    <3> HIDE DEF y, l, g
    <3>6. y <= 2 * (l - k) + g + 1 + MaxMessages
      BY <3>5
    <3> QED BY <3>5, <3>6 DEF y, l, g
  <2> QED BY <1>8, <2>1, <2>2, <2>3, <2>4 DEF AgesInv
<1>11. NothingReported'
  BY <1>6, <1>8, <1>9 DEF MeaningInv, NothingReported, IsReport
<1>12. UnheardIsEmpty' /\ LastSays' /\ GoneIsStored'
  BY <1>8, <1>9
  DEF MeaningInv, UnheardIsEmpty, LastSays, GoneIsStored, Settled, Unsettled
<1>13. \A j \in DOMAIN toMaster' : ~IsFresh(toMaster', j)
  BY <1>6 DEF IsFresh, IsReport
<1>14. LastWaits' /\ FreshSay'
  BY <1>13 DEF LastWaits, FreshSay
<1>15. ValueIsStored' /\ LastIsAnswered'
  BY <1>8 DEF ValueIsStored, LastIsAnswered
<1>16. AckedIsStored'
  BY <1>8, <1>9, <1>13 DEF MeaningInv, AckedIsStored, IsAck, IsLast, Unsettled
<1> QED BY <1>10, <1>11, <1>12, <1>14, <1>15, <1>16 DEF MeaningInv

LEMMA WorkKeepsStored ==
  ASSUME Setting, StoreInv, Work
  PROVE  StoreInv'
<1>1. OrderInv'
  BY SettingIsOrderly, WorkKeepsTheOrder DEF Setting, StoreInv
<1>2. AgesInv' /\ MeaningInv'
  BY ReportKeepsStored, RegistrationKeepsStored DEF Work
<1> QED BY <1>1, <1>2 DEF StoreInv

-----------------------------------------------------------------------------
\* What a report says that is not the first one.
LEMMA ReportSays ==
  ASSUME StoreInv, known # None
  PROVE  \/ /\ Item = "nothing" /\ KnownNow = known
            /\ Settled /\ (sendAll => known = Gone)
         \/ Item \in Values /\ KnownNow \in {Stale, Gone} /\ value # Gone
         \/ Item = "deleted" /\ KnownNow = known /\ known \in Values /\ value = Gone
<1>1. /\ value \in Values \union {Gone}
      /\ known \in Values \union {Gone, Stale}
      /\ sendAll \in BOOLEAN
      /\ last # None => last.item \in Items
  BY DEF StoreInv, OrderInv, TypeOK
<1>2. LastSays
  BY DEF StoreInv, MeaningInv
<1>3. CASE value # Gone /\ Unchanged
  <2>1. Item = "nothing" /\ KnownNow = known /\ ~sendAll /\ known = value /\ known \in Values
    BY <1>1, <1>3 DEF Item, KnownNow, Unchanged
  <2>2. Settled
    BY <1>1, <1>2, <1>3, <2>1, ValuesAssumption DEF Settled, Unsettled, LastSays, Items
  <2> QED BY <2>1, <2>2
<1>4. CASE value # Gone /\ ~Unchanged
  BY <1>1, <1>4 DEF Item, KnownNow
<1>5. CASE value = Gone
  <2>1. known # Stale
    BY <1>2, <1>5 DEF LastSays
  <2>2. KnownNow = known
    BY <1>5 DEF KnownNow
  <2>3. CASE known = Gone
    <3>1. Item = "nothing"
      BY <1>5, <2>3 DEF Item
    <3>2. Settled
      BY <1>1, <1>2, <1>5, <2>3, ValuesAssumption DEF Settled, Unsettled, LastSays, Items
    <3> QED BY <2>2, <2>3, <3>1, <3>2
  <2>4. CASE known # Gone
    <3>1. Item = "deleted"
      BY <1>5, <2>1, <2>4 DEF Item
    <3> QED BY <1>1, <1>5, <2>1, <2>2, <2>4, <3>1
  <2> QED BY <2>3, <2>4
<1> QED BY <1>3, <1>4, <1>5

\* The report joins the queue, with a number that no message has.
LEMMA SendIs ==
  ASSUME Setting, StoreInv, SendReport
  PROVE  /\ contact = "registered" /\ UNCHANGED <<value, contact, toExecd, host>>
         /\ known' = KnownNow /\ ~sendAll'
         /\ last' = IF known = None THEN None ELSE [seqno |-> seqno, item |-> Item]
         /\ IsLonger(toMaster', toMaster, Report(seqno, sendAll, Item, known = None))
         /\ \A i \in DOMAIN toMaster : IsReport(toMaster, i) => toMaster[i].seqno # seqno
         /\ \A k \in DOMAIN toExecd : IsAck(toExecd, k) => toExecd[k].seqno # seqno
         /\ AgesInv'
<1> DEFINE new == Report(seqno, sendAll, Item, known = None)
<1>1. /\ contact = "registered" /\ UNCHANGED <<value, contact, toExecd, host>>
      /\ known' = KnownNow /\ sendAll' = FALSE /\ seqno' = Succ(seqno)
      /\ last' = IF known = None THEN None ELSE [seqno |-> seqno, item |-> Item]
      /\ toMaster' = Append(toMaster, new) /\ Len(toMaster) < MaxMessages
  BY DEF SendReport
<1>2. new \in Messages /\ new.kind = "report" /\ new.seqno = seqno /\ ~new.overtaken
  BY ReportIsTyped DEF StoreInv, OrderInv, Messages, Report
<1>3. /\ toMaster \in Seq(Messages) /\ toExecd \in Seq(Answers) /\ seqno \in Numbers
      /\ ReportAges(toMaster, seqno, TRUE) /\ AnswerAges(toExecd, toMaster, seqno, TRUE)
      /\ Len(toMaster) \in Nat
  BY <1>1, StoreIs
<1>4. Len(toExecd) <= MaxMessages /\ WrapIsFar
  BY DEF StoreInv, AgesInv, Bounded, Setting
<1> HIDE DEF new
<1>5. IsLonger(toMaster', toMaster, new)
  BY <1>1, <1>2, <1>3, AppendIsLonger
<1>6. /\ ReportAges(toMaster', Succ(seqno), TRUE)
      /\ AnswerAges(toExecd, toMaster', Succ(seqno), TRUE)
      /\ \A i \in DOMAIN toMaster : IsReport(toMaster, i) => toMaster[i].seqno # seqno
      /\ \A k \in DOMAIN toExecd : IsAck(toExecd, k) => toExecd[k].seqno # seqno
  BY <1>1, <1>2, <1>3, <1>4, <1>5, AgesGrow
<1>7. Bounded'
  <2>1. Len(toMaster') <= MaxMessages
    BY <1>1, <1>3, <1>5, BoundsAssumption DEF IsLonger
  <2> QED BY <1>1, <1>3, <1>4, <2>1 DEF Bounded
<1>8. LastIsNewest'
  <2>1. CASE known = None
    BY <1>1, <2>1 DEF LastIsNewest
  <2>2. CASE known # None
    <3>1. last'.seqno = seqno
      BY <1>1, <2>2
    <3> QED BY <1>1, <3>1 DEF LastIsNewest
  <2> QED BY <2>1, <2>2
<1>9. AgesInv'
  BY <1>1, <1>6, <1>7, <1>8 DEF AgesInv
<1> QED BY <1>1, <1>5, <1>6, <1>9 DEF new

\* The first report of a daemon.
LEMMA FirstKeepsStored ==
  ASSUME Setting, StoreInv, SendReport, known = None
  PROVE  MeaningInv'
<1> DEFINE new == Report(seqno, sendAll, Item, known = None)
<1>1. /\ contact = "registered" /\ UNCHANGED <<value, contact, toExecd, host>>
      /\ known' = KnownNow /\ last' = None
      /\ IsLonger(toMaster', toMaster, new)
  BY SendIs
<1>2. /\ sendAll /\ \A j \in DOMAIN toMaster : ~IsReport(toMaster, j)
      /\ value = Gone => host.stored = Gone
      /\ value \in Values \union {Gone}
  BY DEF StoreInv, OrderInv, TypeOK, MeaningInv, NothingReported
<1>3. /\ new.full /\ new.first /\ new.kind = "report" /\ ~new.overtaken
      /\ new.item = IF value # Gone THEN value ELSE "nothing"
      /\ known' = value
  BY <1>1, <1>2 DEF Report, Item, Unchanged, KnownNow
<1> HIDE DEF new
<1>4. \E j \in DOMAIN toMaster' : IsFresh(toMaster', j) /\ toMaster'[j] = new
  BY <1>1, <1>3 DEF IsLonger, IsFresh, IsReport
<1>5. \A j \in DOMAIN toMaster' : IsFresh(toMaster', j) => toMaster'[j] = new
  <2> SUFFICES ASSUME NEW j \in DOMAIN toMaster', IsFresh(toMaster', j)
               PROVE  toMaster'[j] = new
    OBVIOUS
  <2>1. j \notin DOMAIN toMaster
    BY <1>1, <1>2 DEF IsLonger, IsFresh, IsReport
  <2>2. j = Len(toMaster) + 1
    BY <1>1, <2>1 DEF IsLonger
  <2> QED BY <1>1, <2>2 DEF IsLonger
<1>6. NothingReported' /\ LastSays'
  BY <1>1, <1>2, <1>3, ValuesAssumption DEF NothingReported, LastSays
<1>7. UnheardIsEmpty' /\ GoneIsStored'
  BY <1>1, <1>2, <1>3 DEF StoreInv, MeaningInv, UnheardIsEmpty, GoneIsStored
<1>8. LastWaits' /\ AckedIsStored' /\ LastIsAnswered'
  BY <1>1 DEF LastWaits, AckedIsStored, LastIsAnswered, IsLast, Unsettled
<1>9. FreshSay'
  BY <1>2, <1>3, <1>5, ValuesAssumption DEF FreshSay
<1>10. ValueIsStored'
  <2>1. known' \in Values => new.item = known'
    BY <1>3, ValuesAssumption
  <2> QED BY <1>4, <2>1 DEF ValueIsStored
<1> QED BY <1>6, <1>7, <1>8, <1>9, <1>10 DEF MeaningInv

\* Any other report.
LEMMA NextKeepsStored ==
  ASSUME Setting, StoreInv, SendReport, known # None
  PROVE  MeaningInv'
<1> DEFINE new == Report(seqno, sendAll, Item, known = None)
<1>1. /\ contact = "registered" /\ UNCHANGED <<value, contact, toExecd, host>>
      /\ known' = KnownNow /\ ~sendAll'
      /\ last' = [seqno |-> seqno, item |-> Item]
      /\ IsLonger(toMaster', toMaster, new)
      /\ \A i \in DOMAIN toMaster : IsReport(toMaster, i) => toMaster[i].seqno # seqno
      /\ \A k \in DOMAIN toExecd : IsAck(toExecd, k) => toExecd[k].seqno # seqno
  BY SendIs
<1>2. last' # None /\ last'.seqno = seqno /\ last'.item = Item
  <2>1. seqno \in Nat /\ Item \in Values \union {"nothing", "deleted", "void"}
    BY ReportIsTyped, StoreIs DEF StoreInv, OrderInv, Items
  <2>2. [seqno |-> seqno, item |-> Item]
          \in [seqno : Nat, item : Values \union {"nothing", "deleted", "void"}]
    BY <2>1
  <2>3. last' # None
    BY <1>1, <2>2, ValuesAssumption
  <2> QED BY <1>1, <2>3
<1>3. /\ new.kind = "report" /\ ~new.overtaken /\ new.seqno = seqno
      /\ new.item = Item /\ new.full = sendAll
  BY DEF Report
<1> HIDE DEF new
<1>4. /\ toMaster'[Len(toMaster) + 1] = new /\ Len(toMaster) + 1 \in DOMAIN toMaster'
      /\ \A j \in DOMAIN toMaster : j \in DOMAIN toMaster' /\ toMaster'[j] = toMaster[j]
      /\ \A j \in DOMAIN toMaster' : j \in DOMAIN toMaster \/ j = Len(toMaster) + 1
  BY <1>1 DEF IsLonger
<1>5. /\ \A j \in DOMAIN toMaster : IsFresh(toMaster, j) => IsFresh(toMaster', j)
      /\ \A j \in DOMAIN toMaster' : IsFresh(toMaster', j) =>
           \/ toMaster'[j] = new
           \/ j \in DOMAIN toMaster /\ IsFresh(toMaster, j) /\ toMaster'[j] = toMaster[j]
      /\ IsFresh(toMaster', Len(toMaster) + 1)
  BY <1>3, <1>4 DEF IsFresh, IsReport
<1>6. /\ value \in Values \union {Gone} /\ known \in Values \union {Gone, Stale}
      /\ MeaningInv
  BY DEF StoreInv, OrderInv, TypeOK
<1>7. UnheardIsEmpty'
  BY <1>1, <1>6 DEF MeaningInv, UnheardIsEmpty
<1>8. LastWaits'
  <2> SUFFICES ASSUME NEW j \in DOMAIN toMaster', IsFresh(toMaster', j),
                      toMaster'[j].seqno = seqno
               PROVE  toMaster'[j].item = Item
    BY <1>2 DEF LastWaits, IsLast
  <2>1. toMaster'[j] = new
    BY <1>1, <1>5 DEF IsFresh
  <2> QED BY <1>3, <2>1
<1>9. AckedIsStored'
  BY <1>1, <1>2 DEF AckedIsStored, IsLast, IsAck
<1>10. LastIsAnswered'
  <2> DEFINE l == Len(toMaster) + 1
  <2>1. l \in DOMAIN toMaster' /\ IsFresh(toMaster', l) /\ toMaster'[l].seqno = seqno
    BY <1>3, <1>4, <1>5
  <2> HIDE DEF l
  <2> QED BY <1>2, <2>1 DEF LastIsAnswered, IsLast
<1>11. CASE Item = "nothing" /\ KnownNow = known /\ Settled /\ (sendAll => known = Gone)
  <2>1. known' = known /\ Settled'
    BY <1>1, <1>2, <1>11 DEF Settled, Unsettled
  <2>2. LastSays' /\ NothingReported'
    BY <1>1, <1>2, <1>11, <2>1, ValuesAssumption
    DEF LastSays, Settled, NothingReported
  <2>3. GoneIsStored'
    BY <1>1, <1>6, <1>11, <2>1 DEF MeaningInv, GoneIsStored
  <2>4. FreshSay'
    <3> SUFFICES ASSUME NEW j \in DOMAIN toMaster', IsFresh(toMaster', j)
                 PROVE  \/ toMaster'[j].item = "nothing" /\ (toMaster'[j].full => known = Gone)
                        \/ /\ toMaster'[j].item = known /\ known \in Values
                           /\ toMaster'[j].first /\ toMaster'[j].full
      BY <2>1 DEF FreshSay
    <3>1. CASE toMaster'[j] = new
      BY <1>3, <1>11, <3>1
    <3>2. CASE j \in DOMAIN toMaster /\ IsFresh(toMaster, j) /\ toMaster'[j] = toMaster[j]
      BY <1>6, <1>11, <3>2 DEF MeaningInv, FreshSay
    <3> QED BY <1>5, <3>1, <3>2
  <2>5. ValueIsStored'
    <3> SUFFICES ASSUME known \in Values, host.heard, ~Asked,
                        \A j \in DOMAIN toMaster' : IsFresh(toMaster', j) =>
                                                      toMaster'[j].item # known
                 PROVE  host.stored = known
      BY <1>1, <2>1 DEF ValueIsStored, Asked
    <3>1. ~sendAll
      BY <1>11, ValuesAssumption
    <3>2. \A j \in DOMAIN toMaster : IsFresh(toMaster, j) => toMaster[j].item # known
      BY <1>4, <1>5
    <3> QED BY <1>1, <1>6, <1>11, <3>1, <3>2 DEF MeaningInv, ValueIsStored
  <2> QED BY <1>7, <1>8, <1>9, <1>10, <2>2, <2>3, <2>4, <2>5 DEF MeaningInv
<1>12. CASE ~(Item = "nothing" /\ KnownNow = known /\ Settled /\ (sendAll => known = Gone))
  <2>1. \/ Item \in Values /\ KnownNow \in {Stale, Gone} /\ value # Gone
        \/ Item = "deleted" /\ KnownNow = known /\ known \in Values /\ value = Gone
    BY <1>12, ReportSays
  <2>2. Unsettled' /\ known' # None
    <3>1. Item # "nothing" /\ KnownNow # None
      BY <1>6, <2>1, ValuesAssumption
    <3> QED BY <1>1, <1>2, <3>1 DEF Unsettled
  <2>3. LastSays'
    <3>1. value' = value
      BY <1>1
    <3>2. CASE Item \in Values /\ KnownNow \in {Stale, Gone} /\ value # Gone
      BY <1>1, <1>2, <3>1, <3>2, ValuesAssumption DEF LastSays
    <3>3. CASE Item = "deleted" /\ KnownNow = known /\ known \in Values /\ value = Gone
      BY <1>1, <1>2, <3>1, <3>3, ValuesAssumption DEF LastSays
    <3> QED BY <2>1, <3>2, <3>3
  <2>4. NothingReported'
    BY <2>2 DEF NothingReported
  <2>5. GoneIsStored' /\ FreshSay' /\ ValueIsStored'
    BY <2>2 DEF GoneIsStored, FreshSay, ValueIsStored, Settled
  <2> QED BY <1>7, <1>8, <1>9, <1>10, <2>3, <2>4, <2>5 DEF MeaningInv
<1> QED BY <1>11, <1>12

LEMMA SendReportKeepsStored ==
  ASSUME Setting, StoreInv, SendReport
  PROVE  StoreInv'
<1>1. OrderInv'
  BY SendReportKeepsTheOrder DEF StoreInv
<1>2. AgesInv' /\ MeaningInv'
  BY SendIs, FirstKeepsStored, NextKeepsStored
<1> QED BY <1>1, <1>2 DEF StoreInv

-----------------------------------------------------------------------------
\* The daemon reads an answer.
LEMMA AnswerIsRead ==
  ASSUME StoreInv, ReceiveAtExecd
  PROVE  /\ IsRest(toExecd', toExecd) /\ Head(toExecd) = toExecd[1] /\ 1 \in DOMAIN toExecd
         /\ UNCHANGED <<value, seqno, contact, toMaster, host>> /\ known # None
         /\ AgesInv'
<1>1. /\ toExecd \in Seq(Answers) /\ Len(toExecd) \in Nat
      /\ AnswerAges(toExecd, toMaster, seqno, contact = "registered")
  BY StoreIs
<1>2. /\ toExecd # <<>> /\ toExecd' = Tail(toExecd)
      /\ UNCHANGED <<value, seqno, contact, toMaster, host>>
      /\ last' = last \/ last' = None
  BY DEF ReceiveAtExecd, daemonVars
<1>3. /\ IsRest(toExecd', toExecd) /\ toExecd' \in Seq(Answers) /\ Len(toExecd') \in Nat
      /\ 1 \in DOMAIN toExecd /\ Head(toExecd) = toExecd[1]
  BY <1>1, <1>2, TailIsRest
<1>4. /\ Len(toExecd') = Len(toExecd) - 1
      /\ DOMAIN toExecd = 1 .. Len(toExecd)
      /\ \A k \in DOMAIN toExecd' : k + 1 \in DOMAIN toExecd /\ toExecd'[k] = toExecd[k + 1]
  BY <1>3 DEF IsRest
<1>5. known # None
  BY <1>2 DEF StoreInv, MeaningInv, NothingReported
<1>6. Bounded'
  <2>1. Len(toExecd) <= MaxMessages /\ Len(toMaster) <= MaxMessages
    BY DEF StoreInv, AgesInv, Bounded
  <2>2. Len(toExecd) - 1 <= MaxMessages
    BY <1>1, <2>1, BoundsAssumption
  <2> QED BY <1>2, <1>3, <1>4, <2>1, <2>2 DEF Bounded
<1>7. LastIsNewest'
  BY <1>2 DEF StoreInv, AgesInv, LastIsNewest
<1> DEFINE registered == contact = "registered"
<1>8. AnswerAges(toExecd, toMaster, seqno, registered)
  BY <1>1
<1> HIDE DEF registered
<1>9. AnswerAges(toExecd', toMaster, seqno, registered)
  <2> SUFFICES ASSUME NEW k \in DOMAIN toExecd', IsAck(toExecd', k)
               PROVE  Age(toExecd'[k].seqno, seqno) <=
                        IF registered
                        THEN 2 * (Len(toExecd') - k) + FreshOnes(toMaster) + 1 + MaxMessages
                        ELSE MaxMessages + 1
    BY DEF AnswerAges
  <2>1. k + 1 \in DOMAIN toExecd /\ toExecd'[k] = toExecd[k + 1] /\ k + 1 \in 1 .. Len(toExecd)
    BY <1>4
  <2>2. IsAck(toExecd, k + 1)
    BY <2>1 DEF IsAck
  <2>3. Age(toExecd[k + 1].seqno, seqno) <=
          IF registered
          THEN 2 * (Len(toExecd) - (k + 1)) + FreshOnes(toMaster) + 1 + MaxMessages
          ELSE MaxMessages + 1
    BY <1>8, <2>1, <2>2 DEF AnswerAges
  <2>4. Len(toExecd) - (k + 1) = Len(toExecd') - k
    <3>1. k \in Int
      BY <1>3 DEF IsRest
    <3> QED BY <1>1, <1>4, <3>1
  <2> QED BY <2>1, <2>3, <2>4
<1>10. AgesInv'
  BY <1>2, <1>6, <1>7, <1>9 DEF StoreInv, AgesInv, registered
<1> QED BY <1>2, <1>3, <1>5, <1>10

\* The answer acknowledges the last report.
LEMMA AckKeepsStored ==
  ASSUME StoreInv, ReceiveAtExecd,
         Head(toExecd).kind = "ack", Acknowledges(Head(toExecd).seqno)
  PROVE  MeaningInv'
<1>1. /\ IsRest(toExecd', toExecd) /\ toExecd[1].kind = "ack" /\ IsLast(toExecd[1].seqno)
      /\ 1 \in DOMAIN toExecd
      /\ UNCHANGED <<value, contact, toMaster, host>> /\ known # None
  BY AnswerIsRead DEF Acknowledges, IsLast
<1>2. /\ last # None /\ last' = None /\ sendAll' = sendAll
      /\ known' = CASE last.item = "nothing" -> known
                    [] last.item \in {"deleted", "void"} -> Gone
                    [] OTHER -> last.item
  BY DEF ReceiveAtExecd, Acknowledges
<1>3. MeaningInv /\ last.item \in Items
  BY <1>2 DEF StoreInv, OrderInv, TypeOK
<1>4. ~Unsettled'
  BY <1>2 DEF Unsettled
<1>5. LastWaits' /\ AckedIsStored' /\ LastIsAnswered' /\ UnheardIsEmpty'
  BY <1>1, <1>2, <1>3, <1>4
  DEF MeaningInv, LastWaits, AckedIsStored, LastIsAnswered, UnheardIsEmpty, IsLast
<1>6. CASE last.item = "nothing"
  <2>1. known' = known /\ known \in Values \union {Gone} /\ Settled
    BY <1>2, <1>3, <1>6 DEF MeaningInv, LastSays, Settled, Unsettled
  <2>2. Settled'
    BY <1>4, <2>1 DEF Settled
  <2>3. NothingReported' /\ LastSays' /\ FreshSay' /\ GoneIsStored'
    BY <1>1, <1>2, <1>3, <2>1, <2>2, ValuesAssumption
    DEF MeaningInv, NothingReported, LastSays, FreshSay, GoneIsStored
  <2>4. Asked => Asked'
    <3> SUFFICES ASSUME NEW k \in DOMAIN toExecd, toExecd[k].kind = "full" PROVE Asked'
      BY DEF Asked
    <3>1. k # 1
      BY <1>1
    <3>2. k - 1 \in DOMAIN toExecd' /\ toExecd'[k - 1] = toExecd[(k - 1) + 1]
          /\ (k - 1) + 1 = k
      BY <1>1, <3>1 DEF IsRest
    <3> QED BY <3>2 DEF Asked
  <2>5. ValueIsStored'
    BY <1>1, <1>2, <1>3, <2>1, <2>4 DEF MeaningInv, ValueIsStored
  <2> QED BY <1>5, <2>3, <2>5 DEF MeaningInv
<1>7. CASE last.item # "nothing"
  <2>1. last.item # "void"
    BY <1>2, <1>3 DEF MeaningInv, LastSays
  <2>2. Unsettled /\ IsAck(toExecd, 1)
    BY <1>1, <1>2, <1>7 DEF Unsettled, IsAck
  <2>3. /\ \A i \in DOMAIN toMaster : ~IsFresh(toMaster, i)
        /\ last.item \in Values => host.stored = last.item \/ ~host.heard
        /\ last.item = "deleted" => host.stored = Gone
    BY <1>1, <1>3, <2>2 DEF MeaningInv, AckedIsStored
  <2>4. \/ last.item \in Values /\ known' = last.item
        \/ last.item = "deleted" /\ known' = Gone
    BY <1>2, <1>3, <1>7, <2>1, ValuesAssumption DEF Items
  <2>5. NothingReported' /\ LastSays' /\ FreshSay'
    BY <1>1, <1>2, <2>3, <2>4, ValuesAssumption DEF NothingReported, LastSays, FreshSay
  <2>6. GoneIsStored' /\ ValueIsStored'
    BY <1>1, <2>3, <2>4, ValuesAssumption DEF GoneIsStored, ValueIsStored
  <2> QED BY <1>5, <2>5, <2>6 DEF MeaningInv
<1> QED BY <1>6, <1>7

\* The answer asks for a full report, or acknowledges an earlier one.
LEMMA OtherAnswersKeepStored ==
  ASSUME StoreInv, ReceiveAtExecd,
         ~(Head(toExecd).kind = "ack" /\ Acknowledges(Head(toExecd).seqno))
  PROVE  MeaningInv'
<1>1. /\ IsRest(toExecd', toExecd) /\ Head(toExecd) = toExecd[1]
      /\ UNCHANGED <<value, contact, toMaster, host>> /\ known # None
  BY AnswerIsRead
<1>2. /\ UNCHANGED <<known, last>>
      /\ \/ sendAll'
         \/ sendAll' = sendAll /\ toExecd[1].kind = "ack" /\ ~IsLast(toExecd[1].seqno)
  BY <1>1 DEF ReceiveAtExecd, daemonVars, Acknowledges, IsLast
<1>3. MeaningInv
  BY DEF StoreInv
<1>4. \A k \in DOMAIN toExecd' : k + 1 \in DOMAIN toExecd /\ toExecd'[k] = toExecd[k + 1]
  BY <1>1 DEF IsRest
<1>5. \A k \in DOMAIN toExecd : k # 1 => k - 1 \in DOMAIN toExecd' /\ toExecd'[k - 1] = toExecd[k]
  <2> SUFFICES ASSUME NEW k \in DOMAIN toExecd, k # 1
               PROVE  k - 1 \in DOMAIN toExecd' /\ toExecd'[k - 1] = toExecd[k]
    OBVIOUS
  <2>1. k - 1 \in DOMAIN toExecd' /\ (k - 1) + 1 = k
    BY <1>1 DEF IsRest
  <2> QED BY <1>4, <2>1
<1>6. NothingReported' /\ UnheardIsEmpty' /\ LastSays' /\ LastWaits' /\ FreshSay' /\ GoneIsStored'
  BY <1>1, <1>2, <1>3
  DEF MeaningInv, NothingReported, UnheardIsEmpty, LastSays, LastWaits, FreshSay,
      GoneIsStored, IsLast, Settled, Unsettled
<1>7. AckedIsStored'
  <2> SUFFICES ASSUME NEW k \in DOMAIN toExecd', IsAck(toExecd', k),
                      last # None, last.seqno = toExecd'[k].seqno, Unsettled
               PROVE  /\ \A j \in DOMAIN toMaster : ~IsFresh(toMaster, j)
                      /\ last.item \in Values => host.stored = last.item \/ ~host.heard
                      /\ last.item = "deleted" => host.stored = Gone
    BY <1>1, <1>2 DEF AckedIsStored, IsLast, Unsettled
  <2>1. k + 1 \in DOMAIN toExecd /\ IsAck(toExecd, k + 1) /\ IsLast(toExecd[k + 1].seqno)
    BY <1>4 DEF IsAck, IsLast
  <2> QED BY <1>3, <2>1 DEF MeaningInv, AckedIsStored
<1>8. CASE sendAll'
  BY <1>3, <1>6, <1>7, <1>8 DEF MeaningInv, ValueIsStored, LastIsAnswered
<1>9. CASE sendAll' = sendAll /\ toExecd[1].kind = "ack" /\ ~IsLast(toExecd[1].seqno)
  <2>1. Asked => Asked'
    <3> SUFFICES ASSUME NEW k \in DOMAIN toExecd, toExecd[k].kind = "full" PROVE Asked'
      BY DEF Asked
    <3>1. k # 1
      BY <1>9
    <3> QED BY <1>5, <3>1 DEF Asked
  <2>2. ValueIsStored'
    BY <1>1, <1>2, <1>3, <1>9, <2>1 DEF MeaningInv, ValueIsStored, Settled, Unsettled
  <2>3. LastIsAnswered'
    <3> SUFFICES ASSUME Unsettled, contact = "registered", ~sendAll, ~Asked
                 PROVE  \/ \E i \in DOMAIN toMaster :
                             IsFresh(toMaster, i) /\ IsLast(toMaster[i].seqno)
                        \/ \E k \in DOMAIN toExecd' :
                             IsAck(toExecd', k) /\ IsLast(toExecd'[k].seqno)
      BY <1>1, <1>2, <1>9, <2>1 DEF LastIsAnswered, IsLast, Unsettled
    <3>1. CASE \E k \in DOMAIN toExecd : IsAck(toExecd, k) /\ IsLast(toExecd[k].seqno)
      <4>1. PICK k \in DOMAIN toExecd : IsAck(toExecd, k) /\ IsLast(toExecd[k].seqno)
        BY <3>1
      <4>2. k # 1
        BY <1>9, <4>1
      <4>3. k - 1 \in DOMAIN toExecd' /\ toExecd'[k - 1] = toExecd[k]
        BY <1>5, <4>2
      <4>4. IsAck(toExecd', k - 1) /\ IsLast(toExecd'[k - 1].seqno)
        BY <4>1, <4>3 DEF IsAck
      <4> QED BY <4>3, <4>4
    <3> QED BY <1>3, <3>1 DEF MeaningInv, LastIsAnswered
  <2> QED BY <1>6, <1>7, <2>2, <2>3 DEF MeaningInv
<1> QED BY <1>2, <1>8, <1>9

LEMMA ReceiveKeepsStored ==
  ASSUME StoreInv, ReceiveAtExecd
  PROVE  StoreInv'
<1>1. OrderInv'
  BY OthersKeepTheOrder DEF StoreInv
<1>2. AgesInv' /\ MeaningInv'
  BY AnswerIsRead, AckKeepsStored, OtherAnswersKeepStored
<1> QED BY <1>1, <1>2 DEF StoreInv

-----------------------------------------------------------------------------
\* The value changes, appears or vanishes; not quickly, so not before the last
\* report of it has been acknowledged.
LEMMA MeasureKeepsStored ==
  ASSUME Setting, StoreInv, Measure
  PROVE  StoreInv'
<1>1. OrderInv' /\ AgesInv /\ MeaningInv
  BY OthersKeepTheOrder DEF StoreInv
<1>2. /\ UNCHANGED <<seqno, known, last, sendAll, contact, toMaster, toExecd, host>>
      /\ value' \in Values \union {Gone}
      /\ value' = Gone => known = value /\ value # Gone
      /\ value = Gone => known \in {None, Gone}
  BY DEF Measure, daemonVars, Setting, CalmRaces
<1>3. AgesInv'
  BY <1>1, <1>2 DEF AgesInv, Bounded, LastIsNewest
<1>4. value \in Values \union {Gone}
  BY DEF StoreInv, OrderInv, TypeOK
<1>5. NothingReported'
  BY <1>1, <1>2, <1>4, ValuesAssumption DEF MeaningInv, NothingReported
<1>6. LastSays'
  <2>1. known = Stale => value' # Gone
    BY <1>2, <1>4, ValuesAssumption
  <2>2. last # None /\ last.item \in Values => value' # Gone
    BY <1>1, <1>2, <1>4, ValuesAssumption DEF MeaningInv, LastSays
  <2>3. last # None /\ last.item = "deleted" => value' = Gone
    BY <1>1, <1>2, ValuesAssumption DEF MeaningInv, LastSays
  <2> QED BY <1>1, <1>2, <2>1, <2>2, <2>3 DEF MeaningInv, LastSays
<1>7. /\ UnheardIsEmpty' /\ LastWaits' /\ FreshSay' /\ GoneIsStored'
      /\ ValueIsStored' /\ AckedIsStored' /\ LastIsAnswered'
  BY <1>1, <1>2
  DEF MeaningInv, UnheardIsEmpty, LastWaits, FreshSay, GoneIsStored, ValueIsStored,
      AckedIsStored, LastIsAnswered, Asked, IsLast, Settled, Unsettled
<1> QED BY <1>1, <1>3, <1>5, <1>6, <1>7 DEF StoreInv, MeaningInv

\* The values of an unknown host are trashed.
LEMMA UnheardKeepsStored ==
  ASSUME StoreInv, Unheard
  PROVE  StoreInv'
<1>1. OrderInv' /\ AgesInv /\ MeaningInv
  BY OthersKeepTheOrder DEF StoreInv
<1>2. UNCHANGED <<value, seqno, known, last, sendAll, contact, toMaster, toExecd>>
  BY DEF Unheard, daemonVars
<1>3. ~host'.heard /\ host'.stored = Gone
  <2>1. host' = [host EXCEPT !.heard = FALSE, !.stored = Gone]
    BY DEF Unheard
  <2>2. host \in [seqno : Numbers, heard : BOOLEAN, stored : Values \union {Gone}]
    BY StoreIs
  <2> QED BY <2>1, <2>2
<1>4. AgesInv'
  BY <1>1, <1>2 DEF AgesInv, Bounded, LastIsNewest
<1>5. /\ NothingReported' /\ UnheardIsEmpty' /\ LastSays' /\ LastWaits' /\ FreshSay'
      /\ GoneIsStored' /\ ValueIsStored' /\ LastIsAnswered'
  BY <1>1, <1>2, <1>3
  DEF MeaningInv, NothingReported, UnheardIsEmpty, LastSays, LastWaits, FreshSay,
      GoneIsStored, ValueIsStored, LastIsAnswered, Asked, IsLast, Settled, Unsettled
<1>6. AckedIsStored'
  BY <1>1, <1>2, <1>3 DEF MeaningInv, AckedIsStored, IsLast, Unsettled
<1> QED BY <1>1, <1>4, <1>5, <1>6 DEF StoreInv, MeaningInv

\* The connection breaks: some of the reports are left, and no answer.
LEMMA LossKeepsStored ==
  ASSUME StoreInv, LoseConnection
  PROVE  StoreInv'
<1>1. OrderInv' /\ AgesInv /\ MeaningInv
  BY RegistrationsKeepTheOrder DEF StoreInv
<1>2. /\ UNCHANGED <<value, seqno, known, last, sendAll, host>> /\ toExecd' = <<>>
      /\ contact' = "lost"
  BY DEF LoseConnection, daemonVars
<1>3. /\ \A i \in DOMAIN toMaster' : i \in DOMAIN toMaster /\ toMaster'[i] = toMaster[i]
      /\ Len(toMaster') <= MaxMessages
  <2>1. PICK n \in 0 .. Len(toMaster) : toMaster' = SubSeq(toMaster, 1, n)
    BY DEF LoseConnection
  <2>2. /\ toMaster \in Seq(Messages) /\ Len(toMaster) \in Nat
        /\ DOMAIN toMaster = 1 .. Len(toMaster)
        /\ \A i \in 1 .. n : toMaster[i] \in Messages
    BY StoreIs, MessageIs
  <2>3. /\ toMaster' \in Seq(Messages)
        /\ Len(toMaster') = IF 1 <= n THEN n - 1 + 1 ELSE 0
        /\ \A i \in 1 .. n - 1 + 1 : toMaster'[i] = toMaster[1 + i - 1]
    BY <2>1, <2>2, SubSeqProperties
  <2>4. DOMAIN toMaster' = 1 .. n /\ Len(toMaster') = n
    BY <2>2, <2>3, LenProperties
  <2>5. \A i \in 1 .. n : i \in DOMAIN toMaster /\ toMaster'[i] = toMaster[i]
    BY <2>2, <2>3
  <2>6. Len(toMaster) <= MaxMessages
    BY <1>1 DEF AgesInv, Bounded
  <2>7. n <= MaxMessages
    BY <2>2, <2>6, BoundsAssumption
  <2> QED BY <2>4, <2>5, <2>7
<1>4. DOMAIN toExecd' = {} /\ toExecd' \in Seq(Answers) /\ Len(toExecd') = 0
  BY <1>2
<1>5. AgesInv'
  <2>1. ReportAges(toMaster', seqno, FALSE)
    BY <1>1, <1>3 DEF AgesInv, ReportAges, IsReport
  <2>2. AnswerAges(toExecd', toMaster', seqno, FALSE)
    BY <1>4 DEF AnswerAges
  <2>3. Bounded'
    BY <1>3, <1>4, BoundsAssumption DEF Bounded
  <2>4. LastIsNewest'
    BY <1>1, <1>2 DEF AgesInv, LastIsNewest
  <2> QED BY <1>2, <2>1, <2>2, <2>3, <2>4 DEF AgesInv
<1>6. \A i \in DOMAIN toMaster' : IsFresh(toMaster', i) =>
        i \in DOMAIN toMaster /\ IsFresh(toMaster, i) /\ toMaster'[i] = toMaster[i]
  BY <1>3 DEF IsFresh, IsReport
<1>7. NothingReported' /\ UnheardIsEmpty' /\ LastSays' /\ GoneIsStored'
  BY <1>1, <1>2, <1>3
  DEF MeaningInv, NothingReported, UnheardIsEmpty, LastSays, GoneIsStored, IsReport,
      Settled, Unsettled
<1>8. LastWaits' /\ FreshSay'
  BY <1>1, <1>2, <1>6 DEF MeaningInv, LastWaits, FreshSay, IsLast, Settled, Unsettled
<1>9. ValueIsStored' /\ LastIsAnswered' /\ AckedIsStored'
  BY <1>2, <1>4 DEF ValueIsStored, LastIsAnswered, AckedIsStored
<1> QED BY <1>1, <1>5, <1>7, <1>8, <1>9 DEF StoreInv, MeaningInv

\* A registration joins the queue.
LEMMA RegistrationIsLonger ==
  ASSUME StoreInv, toMaster' = Append(toMaster, Registration), Len(toMaster) < MaxMessages
  PROVE  /\ Len(toMaster') <= MaxMessages
         /\ \A i \in DOMAIN toMaster' : IsReport(toMaster', i) =>
              IsReport(toMaster, i) /\ toMaster'[i] = toMaster[i]
<1>1. toMaster \in Seq(Messages) /\ Len(toMaster) \in Nat /\ Registration \in Messages
  BY StoreIs DEF Messages
<1>2. IsLonger(toMaster', toMaster, Registration)
  BY <1>1, AppendIsLonger
<1>3. Len(toMaster') <= MaxMessages
  BY <1>1, <1>2, BoundsAssumption DEF IsLonger
<1>4. Registration.kind # "report"
  BY DEF Registration
<1>5. \A i \in DOMAIN toMaster' : IsReport(toMaster', i) =>
        IsReport(toMaster, i) /\ toMaster'[i] = toMaster[i]
  BY <1>2, <1>4 DEF IsLonger, IsReport
<1> QED BY <1>3, <1>5

LEMMA ReconnectKeepsStored ==
  ASSUME StoreInv, Reconnect
  PROVE  StoreInv'
<1>1. OrderInv' /\ AgesInv /\ MeaningInv
  BY RegistrationsKeepTheOrder DEF StoreInv
<1>2. /\ UNCHANGED <<value, seqno, known, last, sendAll, toExecd, host>>
      /\ contact = "lost" /\ contact' = "registering"
  BY DEF Reconnect, daemonVars
<1>3. /\ Len(toMaster') <= MaxMessages
      /\ \A i \in DOMAIN toMaster' : IsReport(toMaster', i) =>
           IsReport(toMaster, i) /\ toMaster'[i] = toMaster[i]
  BY RegistrationIsLonger DEF Reconnect
<1>4. AgesInv'
  <2>1. ReportAges(toMaster', seqno, FALSE)
    BY <1>1, <1>3 DEF AgesInv, ReportAges, IsReport
  <2>2. AnswerAges(toExecd, toMaster', seqno, FALSE)
    BY <1>1, <1>2 DEF AgesInv, AnswerAges
  <2>3. Bounded' /\ LastIsNewest'
    BY <1>1, <1>2, <1>3 DEF AgesInv, Bounded, LastIsNewest
  <2> QED BY <1>2, <2>1, <2>2, <2>3 DEF AgesInv
<1>5. \A i \in DOMAIN toMaster' : IsFresh(toMaster', i) =>
        i \in DOMAIN toMaster /\ IsFresh(toMaster, i) /\ toMaster'[i] = toMaster[i]
  BY <1>3 DEF IsFresh, IsReport
<1>6. NothingReported' /\ UnheardIsEmpty' /\ LastSays' /\ GoneIsStored'
  BY <1>1, <1>2, <1>3
  DEF MeaningInv, NothingReported, UnheardIsEmpty, LastSays, GoneIsStored, IsReport,
      Settled, Unsettled
<1>7. LastWaits' /\ FreshSay'
  BY <1>1, <1>2, <1>5 DEF MeaningInv, LastWaits, FreshSay, IsLast, Settled, Unsettled
<1>8. ValueIsStored' /\ LastIsAnswered'
  BY <1>2 DEF ValueIsStored, LastIsAnswered
<1>9. AckedIsStored'
  BY <1>1, <1>2, <1>5 DEF MeaningInv, AckedIsStored, IsLast, Unsettled
<1> QED BY <1>1, <1>4, <1>6, <1>7, <1>8, <1>9 DEF StoreInv, MeaningInv

\* A new daemon begins anew when the reports of the previous one have been handled.
LEMMA RestartKeepsStored ==
  ASSUME Setting, StoreInv, Restart
  PROVE  StoreInv'
<1>1. OrderInv' /\ MeaningInv
  BY RegistrationsKeepTheOrder DEF StoreInv
<1>2. /\ known' = None /\ last' = None /\ sendAll' /\ value' \in Values
      /\ contact' = "registering" /\ toExecd' = <<>> /\ UNCHANGED host
      /\ \A i \in DOMAIN toMaster : ~IsReport(toMaster, i)
  BY DEF Restart, Setting, CalmRaces, IsReport
<1>3. /\ Len(toMaster') <= MaxMessages
      /\ \A i \in DOMAIN toMaster' : ~IsReport(toMaster', i)
  <2>1. toMaster' = Append(toMaster, Registration) /\ Len(toMaster) < MaxMessages
    BY DEF Restart
  <2> QED BY <1>2, <2>1, RegistrationIsLonger DEF IsReport
<1>4. DOMAIN toExecd' = {} /\ toExecd' \in Seq(Answers) /\ Len(toExecd') = 0
  BY <1>2
<1>5. AgesInv'
  BY <1>2, <1>3, <1>4, BoundsAssumption
  DEF AgesInv, Bounded, LastIsNewest, ReportAges, AnswerAges
<1>6. ~Settled' /\ ~Unsettled'
  BY <1>2, ValuesAssumption DEF Settled, Unsettled
<1>7. NothingReported' /\ UnheardIsEmpty' /\ LastSays'
  BY <1>1, <1>2, <1>3, ValuesAssumption
  DEF MeaningInv, NothingReported, UnheardIsEmpty, LastSays
<1>8. LastWaits' /\ FreshSay' /\ GoneIsStored' /\ ValueIsStored' /\ AckedIsStored'
      /\ LastIsAnswered'
  BY <1>2, <1>3, <1>4, <1>6
  DEF LastWaits, FreshSay, GoneIsStored, ValueIsStored, AckedIsStored, LastIsAnswered, IsFresh
<1> QED BY <1>1, <1>5, <1>7, <1>8 DEF StoreInv, MeaningInv

-----------------------------------------------------------------------------
LEMMA InitIsStored == Init => StoreInv
<1> SUFFICES ASSUME Init PROVE StoreInv
  OBVIOUS
<1>1. OrderInv
  BY InitIsInOrder
<1>2. /\ known = None /\ last = None /\ sendAll /\ contact = "registering" /\ toExecd = <<>>
      /\ toMaster = <<Registration>> /\ host.stored = Gone
  BY DEF Init
<1>3. DOMAIN toMaster = {1} /\ Len(toMaster) = 1 /\ toMaster[1].kind # "report"
  BY <1>2 DEF Registration
<1>4. \A i \in DOMAIN toMaster : ~IsReport(toMaster, i)
  BY <1>3 DEF IsReport
<1>5. DOMAIN toExecd = {} /\ toExecd \in Seq(Answers) /\ Len(toExecd) = 0
  BY <1>2
<1>6. AgesInv
  BY <1>2, <1>3, <1>4, <1>5, BoundsAssumption
  DEF AgesInv, Bounded, LastIsNewest, ReportAges, AnswerAges
<1>7. ~Settled /\ ~Unsettled
  BY <1>2, ValuesAssumption DEF Settled, Unsettled
<1>8. MeaningInv
  BY <1>2, <1>4, <1>5, <1>7, ValuesAssumption
  DEF MeaningInv, NothingReported, UnheardIsEmpty, LastSays, LastWaits, FreshSay,
      GoneIsStored, ValueIsStored, AckedIsStored, LastIsAnswered, IsFresh
<1> QED BY <1>1, <1>6, <1>8 DEF StoreInv

LEMMA StoredIsKnown ==
  ASSUME StoreInv
  PROVE  KnownIsStored
<1> SUFFICES ASSUME contact = "registered", toMaster = <<>>, toExecd = <<>>,
                    known \in Values \union {Gone}, ~sendAll, host.heard
             PROVE  host.stored = known
  BY DEF KnownIsStored
<1>1. DOMAIN toMaster = {} /\ DOMAIN toExecd = {}
  OBVIOUS
<1>2. ~Asked /\ MeaningInv
  BY <1>1 DEF StoreInv, Asked
<1>3. Settled
  BY <1>1, <1>2 DEF MeaningInv, LastIsAnswered, Settled
<1> QED BY <1>1, <1>2, <1>3 DEF MeaningInv, GoneIsStored, ValueIsStored

\* What the daemon takes for known, and does not report any more, is what the
\* qmaster stores, for every set of values, window and length of the queues: when
\* nothing is on its way to or from a known host, then no report that is overtaken
\* or ignored, no broken connection and no restart has left the qmaster with
\* another value (execd_merge_load_report, sge_update_load_values).  The numbers
\* must go round slowly enough, that no number is given again while a message
\* with it is on its way.
THEOREM KnownIsWhatIsStored ==
  ASSUME CalmRaces, WindowIsUsable, WrapIsFar
  PROVE  Spec => []KnownIsStored
<1>1. Setting
  BY DEF Setting
<1>2. StoreInv /\ [Next]_vars => StoreInv'
  <2> SUFFICES ASSUME StoreInv, [Next]_vars PROVE StoreInv'
    OBVIOUS
  <2>1. CASE UNCHANGED vars
    <3>1. OrderInv' /\ AgesInv /\ MeaningInv
      BY <2>1, OthersKeepTheOrder DEF StoreInv
    <3>2. UNCHANGED <<value, seqno, known, last, sendAll, contact, toMaster, toExecd, host>>
      BY <2>1 DEF vars, daemonVars
    <3>3. AgesInv'
      BY <3>1, <3>2 DEF AgesInv, Bounded, LastIsNewest
    <3>4. MeaningInv'
      BY <3>1, <3>2
      DEF MeaningInv, NothingReported, UnheardIsEmpty, LastSays, LastWaits, FreshSay,
          GoneIsStored, ValueIsStored, AckedIsStored, LastIsAnswered, Asked, IsLast,
          Settled, Unsettled
    <3> QED BY <3>1, <3>3, <3>4 DEF StoreInv
  <2> QED
    BY <1>1, <2>1, MeasureKeepsStored, SendReportKeepsStored, ReceiveKeepsStored,
       WorkKeepsStored, UnheardKeepsStored, LossKeepsStored, ReconnectKeepsStored,
       RestartKeepsStored DEF Next
<1>3. StoreInv => KnownIsStored
  BY StoredIsKnown
<1> QED BY <1>2, <1>3, InitIsStored, PTL DEF Spec
=============================================================================
