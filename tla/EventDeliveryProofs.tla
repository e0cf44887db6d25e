------------------------- MODULE EventDeliveryProofs -------------------------
(***************************************************************************)
(* Proofs about EventDelivery for any number of changes, troubles and ids: *)
(* the mirror of a client is a state the list had and moves forward, and   *)
(* no event is freed that the client has not seen.  As in the runs, no     *)
(* event of an old registration reaches the client as the first one of a   *)
(* new registration (StaleLists = FALSE).                                  *)
(***************************************************************************)
EXTENDS EventDelivery, SequenceTheorems, WellFoundedInduction, TLAPS

ChangeRequests == [kind : {"change"}, v : Nat]
ListRequests == [kind : {"list"}, id : Nat, v : Nat]
AckRequests == [kind : {"ack"}, id : Nat, number : Nat]
Requests == ChangeRequests \union ListRequests \union AckRequests
Positive == Nat \ {0}
Events == [number : Positive, kind : {"list", "change", "timeout"}, v : Nat]
Entries ==
  [id : 1 .. MaxIds, blocked : BOOLEAN, next : Positive, events : Seq(Events), busy : BOOLEAN]
Clients ==
  [registering : BOOLEAN, needRegister : BOOLEAN, id : Nat, nextEvent : Positive]

Types ==
  /\ master \in Nat
  /\ requests \in Seq(Requests)
  /\ entry \in Entries \union {None}
  /\ freeIds \in SUBSET (1 .. MaxIds)
  /\ queued \in Nat
  /\ toClient \in Seq(Seq(Events))
  /\ client \in Clients

\* Changes wait in the order in which they were made, all that were made after a
\* change or a list that waits wait behind it.
QueueInOrder ==
  \A i \in DOMAIN requests :
    requests[i].kind \in {"change", "list"} =>
      /\ requests[i].v <= master
      /\ \A j \in DOMAIN requests :
           i < j /\ requests[j].kind = "change" => requests[i].v < requests[j].v
      /\ \A v \in requests[i].v + 1 .. master :
           \E j \in DOMAIN requests :
             i < j /\ requests[j].kind = "change" /\ requests[j].v = v

\* A list waits for one registration, whose id is in use.
IdsInUse ==
  /\ entry # None => entry.id \notin freeIds
  /\ \A i \in DOMAIN requests :
       requests[i].kind = "list" =>
         /\ requests[i].id \notin freeIds
         /\ \A j \in DOMAIN requests :
              requests[j].kind = "list" /\ requests[j].id = requests[i].id => i = j

Numbered(events) == \A i \in DOMAIN events : events[i].number = events[1].number + i - 1

\* What event says in a registration that began with the first base changes.
IsEvent(ev, base, top) ==
  \/ ev.kind = "list" /\ ev.number = 1 /\ ev.v = base
  \/ ev.kind = "change" /\ ev.number > 1 /\ ev.v = base + ev.number - 1 /\ ev.v <= top
  \/ ev.kind = "timeout" /\ ev.number > 1

IsMessage(events, base, top) ==
  /\ events # <<>> /\ Numbered(events)
  /\ \A i \in DOMAIN events :
       IsEvent(events[i], base, top) /\ (events[i].kind = "timeout" => i = Len(events))

\* No event before the first one of this message was seen.
IsLate(events) == events # <<>> /\ events[1].number > 1

\* The client is blocked until it gets the list as it was when it registered.
BlockedEntry(base) ==
  /\ entry.next = 1 /\ entry.events = <<>>
  /\ \E i \in DOMAIN requests :
       requests[i].kind = "list" /\ requests[i].id = entry.id /\ requests[i].v = base

\* Afterwards its events follow the list without a gap, and the changes that wait
\* follow the events.
OpenEntry(base) ==
  /\ entry.next > 1 /\ base + entry.next <= master + 2
  /\ Numbered(entry.events)
  /\ entry.events # <<>> => entry.events[1].number + Len(entry.events) = entry.next
  /\ \A i \in DOMAIN entry.events :
       IsEvent(entry.events[i], base, master) /\ entry.events[i].kind # "timeout"
  /\ \A i \in DOMAIN requests :
       /\ requests[i].kind = "change" => requests[i].v > base + entry.next - 2
       /\ requests[i].kind = "list" => requests[i].id # entry.id
  /\ \A v \in base + entry.next - 1 .. master :
       \E i \in DOMAIN requests : requests[i].kind = "change" /\ requests[i].v = v

\* The mirror of a registered client shows what its events up to nextEvent say,
\* and the messages it gets are of its registration, or the first one is dropped.
Mirrors(base) ==
  /\ client.nextEvent = 1 => mirror \subseteq 1 .. base
  /\ client.nextEvent > 1 => /\ base + client.nextEvent <= master + 2
                             /\ mirror = 1 .. base + client.nextEvent - 2
  /\ \/ \A i \in DOMAIN toClient : IsMessage(toClient[i], base, master)
     \/ client.nextEvent = 1 /\ toClient # <<>> /\ IsLate(toClient[1])

\* A registered client and its entry.
Waits ==
  /\ client.nextEvent = 1
  /\ toClient # <<>> => IsLate(toClient[1])
  /\ \A i, j \in DOMAIN requests :
       /\ i < j
       /\ requests[i].kind = "list" /\ requests[i].id = entry.id
       /\ requests[j].kind = "ack"
       => requests[j].id # entry.id

Keeps ==
  /\ entry.events = <<>> => entry.next <= client.nextEvent
  /\ entry.events # <<>> => entry.events[1].number <= client.nextEvent
  /\ \A i \in DOMAIN requests :
       requests[i].kind = "ack" /\ requests[i].id = entry.id =>
         requests[i].number < client.nextEvent

RegisteredInv(base) ==
  /\ queued = 0 /\ ~client.registering
  /\ Mirrors(base)
  /\ entry # None => /\ entry.id = client.id
                     /\ entry.blocked => Waits
                     /\ ~entry.blocked => Keeps

UnregisteredInv ==
  /\ client.registering => client.nextEvent = 1
  /\ \A i \in DOMAIN toClient : IsLate(toClient[i])

MirrorInv == \E v \in 0 .. master : mirror = 1 .. v

BaseInv(base) ==
  /\ entry # None => /\ entry.blocked => BlockedEntry(base)
                     /\ ~entry.blocked => OpenEntry(base)
  /\ ~client.needRegister => RegisteredInv(base)

IInv ==
  /\ Types /\ QueueInOrder /\ IdsInUse /\ MirrorInv
  /\ client.needRegister => UnregisteredInv
  /\ \E base \in 0 .. master : BaseInv(base)

-----------------------------------------------------------------------------
(* Least and greatest numbers, and sequences                                *)

\* A set of natural numbers that is not empty has a least element.
LEMMA LeastExists ==
  ASSUME NEW S \in SUBSET Nat, S # {}
  PROVE  \E i \in S : \A j \in S : i <= j
<1> DEFINE Less == {ss \in Nat \X Nat : ss[1] < ss[2]}
<1>1. IsWellFoundedOn(Less, Nat)
  BY NatLessThanWellFounded DEF OpToRel
<1> HIDE DEF Less
<1>2. PICK i \in S : \A j \in S : ~ (<<j, i>> \in Less)
  BY <1>1, WFMin
<1>3. ASSUME NEW j \in S PROVE i <= j
  <2>1. ~(j < i)
    BY <1>2 DEF Less
  <2> QED BY <2>1
<1> QED BY <1>3

LEMMA LowestIsLeast ==
  ASSUME NEW S \in SUBSET Nat, S # {}
  PROVE  Lowest(S) \in S
BY LeastExists DEF Lowest

\* The greatest index of an event is the one that leaves the least distance.
LEMMA GreatestExists ==
  ASSUME NEW n \in Nat, NEW S \in SUBSET (1 .. n), S # {}
  PROVE  Max(S) \in S /\ \A j \in S : Max(S) >= j
<1> DEFINE D == {n - i : i \in S}
<1>1. D \in SUBSET Nat /\ D # {}
  <2>1. \A i \in S : n - i \in Nat
    OBVIOUS
  <2>2. PICK i \in S : TRUE
    OBVIOUS
  <2>3. n - i \in D
    OBVIOUS
  <2> QED BY <2>1, <2>3
<1>2. PICK d \in D : \A e \in D : d <= e
  BY <1>1, LeastExists
<1>3. PICK i \in S : d = n - i
  OBVIOUS
<1>4. \A j \in S : i >= j
  <2> TAKE j \in S
  <2>1. d <= n - j
    BY <1>2
  <2> QED BY <1>3, <2>1
<1> QED BY <1>4 DEF Max

LEMMA MinIsLeast ==
  ASSUME NEW S \in SUBSET Nat, S # {}
  PROVE  Min(S) \in S /\ \A j \in S : Min(S) <= j
BY LeastExists DEF Min

\* A sequence without its head.
LEMMA TailIs ==
  ASSUME NEW S, NEW s \in Seq(S), s # <<>>
  PROVE  /\ Head(s) = s[1] /\ s[1] \in S /\ 1 \in DOMAIN s
         /\ Tail(s) \in Seq(S)
         /\ \A i \in DOMAIN s : i = 1 \/ (i - 1 \in DOMAIN Tail(s) /\ Tail(s)[i - 1] = s[i])
         /\ \A i \in DOMAIN Tail(s) : i + 1 \in DOMAIN s /\ Tail(s)[i] = s[i + 1]
<1>1. Len(s) \in Nat \ {0} /\ DOMAIN s = 1 .. Len(s)
  BY EmptySeq, LenProperties
<1>2. Tail(s) \in Seq(S) /\ Len(Tail(s)) = Len(s) - 1
  BY HeadTailProperties
<1>3. DOMAIN Tail(s) = 1 .. Len(s) - 1
  BY <1>2, LenProperties
<1>4. \A i \in 1 .. Len(s) - 1 : Tail(s)[i] = s[i + 1]
  BY <1>2, HeadTailProperties
<1>5. Head(s) = s[1] /\ s[1] \in S
  BY <1>1, ElementOfSeq
<1> QED BY <1>1, <1>2, <1>3, <1>4, <1>5

\* A sequence with one more element.
LEMMA AppendIs ==
  ASSUME NEW S, NEW s \in Seq(S), NEW e \in S
  PROVE  /\ Append(s, e) \in Seq(S) /\ Append(s, e) # <<>>
         /\ Len(s) \in Nat /\ Len(Append(s, e)) = Len(s) + 1
         /\ DOMAIN s = 1 .. Len(s) /\ DOMAIN Append(s, e) = 1 .. Len(s) + 1
         /\ \A i \in DOMAIN s : Append(s, e)[i] = s[i]
         /\ Append(s, e)[Len(s) + 1] = e
<1>1. /\ Append(s, e) \in Seq(S) /\ Append(s, e) # <<>>
      /\ Len(Append(s, e)) = Len(s) + 1
      /\ \A i \in 1 .. Len(s) : Append(s, e)[i] = s[i]
      /\ Append(s, e)[Len(s) + 1] = e
  BY AppendProperties
<1>2. Len(s) \in Nat /\ DOMAIN s = 1 .. Len(s)
  BY LenProperties
<1>3. DOMAIN Append(s, e) = 1 .. Len(Append(s, e))
  BY <1>1, LenProperties
<1> QED BY <1>1, <1>2, <1>3

-----------------------------------------------------------------------------
(* Messages                                                                 *)

\* What is left of numbered events: those from number n on.
IsRest(s, events, n) ==
  /\ s \in Seq(Events) /\ Numbered(s)
  /\ s = <<>> => events = <<>> \/ events[1].number + Len(events) <= n
  /\ s # <<>> =>
       /\ events # <<>>
       /\ s[1].number + Len(s) = events[1].number + Len(events)
       /\ s[1].number + Len(s) > n
       /\ s[1].number = IF events[1].number <= n THEN n ELSE events[1].number
       /\ \A i \in DOMAIN s :
            /\ i + Len(events) - Len(s) \in DOMAIN events
            /\ s[i] = events[i + Len(events) - Len(s)]

LEMMA SinceIs ==
  ASSUME NEW events \in Seq(Events), Numbered(events), NEW n \in Positive
  PROVE  IsRest(Since(events, n), events, n)
<1> SUFFICES ASSUME NEW s, s = Since(events, n)
             PROVE  IsRest(s, events, n)
  OBVIOUS
<1> USE DEF IsRest
<1> DEFINE left == {i \in DOMAIN events : events[i].number >= n}
<1>1. Len(events) \in Nat /\ DOMAIN events = 1 .. Len(events)
  BY LenProperties
<1>2. \A i \in DOMAIN events : events[i] \in Events /\ events[i].number \in Nat \ {0}
  <2> TAKE i \in DOMAIN events
  <2>1. events[i] \in Events
    BY <1>1, ElementOfSeq
  <2> QED BY <2>1 DEF Events, Positive
<1>3. CASE left = {}
  <2>1. s = <<>>
    BY <1>3 DEF Since
  <2>2. events = <<>> \/ events[1].number + Len(events) <= n
    <3> SUFFICES ASSUME events # <<>> PROVE events[1].number + Len(events) <= n
      OBVIOUS
    <3>1. Len(events) \in DOMAIN events /\ 1 \in DOMAIN events
      BY <1>1, EmptySeq
    <3>2. events[Len(events)].number = events[1].number + Len(events) - 1
      BY <3>1 DEF Numbered
    <3>3. events[Len(events)].number < n
      BY <1>2, <1>3, <3>1 DEF Positive
    <3> QED BY <1>1, <1>2, <3>1, <3>2, <3>3 DEF Positive
  <2> QED BY <2>1, <2>2, EmptySeq DEF Numbered
<1>4. CASE left # {}
  <2> DEFINE m == Min(left)
  <2>1. left \in SUBSET Nat
    BY <1>1
  <2>2. m \in left /\ \A i \in left : m <= i
    BY <1>4, <2>1, MinIsLeast
  <2>3. s = SubSeq(events, m, Len(events))
    BY <1>4 DEF Since
  <2> HIDE DEF m
  <2>4. m \in 1 .. Len(events) /\ events[m].number >= n
    BY <1>1, <2>2
  <2>5. /\ s \in Seq(Events) /\ Len(s) = Len(events) - m + 1
        /\ \A i \in 1 .. Len(events) - m + 1 : s[i] = events[m + i - 1]
    <3>1. \A i \in m .. Len(events) : events[i] \in Events
      BY <1>1, <1>2, <2>4
    <3>2. m \in Int /\ Len(events) \in Int /\ m <= Len(events)
      BY <1>1, <2>4
    <3> QED BY <2>3, <3>1, <3>2, SubSeqProperties
  <2>6. DOMAIN s = 1 .. Len(events) - m + 1
    BY <2>5, LenProperties
  <2>7. \A i \in DOMAIN s : /\ m + i - 1 \in DOMAIN events
                            /\ i + Len(events) - Len(s) = m + i - 1
                            /\ s[i] = events[m + i - 1]
    <3> TAKE i \in DOMAIN s
    <3>1. i \in 1 .. Len(events) - m + 1
      BY <2>6
    <3>2. Len(s) = Len(events) - m + 1 /\ s[i] = events[m + i - 1]
      BY <2>5, <3>1
    <3>3. i + Len(events) - Len(s) = m + i - 1 /\ m + i - 1 \in 1 .. Len(events)
      BY <1>1, <2>4, <3>1, <3>2
    <3> QED BY <1>1, <3>2, <3>3
  <2>8. \A i \in DOMAIN events : events[i].number = events[1].number + i - 1
    BY DEF Numbered
  <2>9. 1 \in DOMAIN s /\ 1 \in DOMAIN events /\ s # <<>>
    BY <1>1, <2>4, <2>5, <2>6, EmptySeq
  <2>10. s[1].number = events[1].number + m - 1
    BY <1>1, <2>4, <2>7, <2>8, <2>9
  <2>11. Numbered(s)
    <3> SUFFICES ASSUME NEW i \in DOMAIN s PROVE s[i].number = s[1].number + i - 1
      BY DEF Numbered
    <3>1. s[i].number = events[1].number + (m + i - 1) - 1
      BY <2>7, <2>8
    <3>2. events[1].number \in Nat /\ i \in Nat /\ m \in Nat
      BY <1>2, <2>4, <2>6, <2>9
    <3> DEFINE e == events[1].number
    <3>3. s[i].number = e + (m + i - 1) - 1 /\ s[1].number = e + m - 1 /\ e \in Nat
      BY <2>10, <3>1, <3>2
    <3> HIDE DEF e
    <3> QED BY <3>2, <3>3
  <2>12. s[1].number = IF events[1].number <= n THEN n ELSE events[1].number
    <3>1. CASE m = 1
      BY <1>2, <2>4, <2>9, <2>10, <3>1 DEF Positive
    <3>2. CASE m # 1
      <4>1. m - 1 \in DOMAIN events /\ m - 1 \notin left
        BY <1>1, <2>2, <2>4, <3>2
      <4>2. events[m - 1].number < n
        BY <1>2, <4>1 DEF Positive
      <4>3. events[m - 1].number = events[1].number + m - 2
        <5>1. events[m - 1].number = events[1].number + (m - 1) - 1
          BY <2>8, <4>1
        <5> QED BY <1>2, <2>4, <2>9, <5>1 DEF Positive
      <4>4. events[m].number = events[1].number + m - 1
        BY <1>1, <2>4, <2>8
      <4> QED BY <1>2, <2>4, <2>9, <2>10, <3>2, <4>2, <4>3, <4>4 DEF Positive
    <3> QED BY <3>1, <3>2
  <2>13. s[1].number + Len(s) = events[1].number + Len(events)
    <3>1. events[1].number \in Nat /\ Len(s) = Len(events) - m + 1
      BY <1>2, <2>5, <2>9
    <3> QED BY <1>1, <2>4, <2>10, <3>1
  <2>14. s[1].number + Len(s) > n
    <3>1. events[1].number \in Nat /\ Len(s) = Len(events) - m + 1
      BY <1>2, <2>5, <2>9
    <3>2. s[1].number >= n /\ s[1].number \in Nat
      BY <2>9, <2>10, <2>12, <2>4, <3>1 DEF Positive
    <3> QED BY <1>1, <2>4, <3>1, <3>2 DEF Positive
  <2>15. events # <<>>
    BY <1>1, <2>4, EmptySeq
  <2> QED BY <2>5, <2>7, <2>9, <2>11, <2>12, <2>13, <2>14, <2>15
<1> QED BY <1>3, <1>4

\* Numbered events and the one that is due.
IsGrown(s, events, new) ==
  /\ s \in Seq(Events) /\ s # <<>> /\ Numbered(s)
  /\ s[1].number + Len(s) = new.number + 1
  /\ s[1].number = IF events = <<>> THEN new.number ELSE events[1].number
  /\ \A i \in DOMAIN s : \/ i \in DOMAIN events /\ s[i] = events[i] /\ i # Len(s)
                         \/ i = Len(s) /\ s[i] = new

LEMMA MessageGrows ==
  ASSUME NEW events \in Seq(Events), Numbered(events), NEW new \in Events,
         events # <<>> => events[1].number + Len(events) = new.number
  PROVE  IsGrown(Append(events, new), events, new)
<1> SUFFICES ASSUME NEW s, s = Append(events, new)
             PROVE  IsGrown(s, events, new)
  OBVIOUS
<1> USE DEF IsGrown
<1>1. /\ s \in Seq(Events) /\ s # <<>>
      /\ Len(events) \in Nat /\ Len(s) = Len(events) + 1
      /\ DOMAIN events = 1 .. Len(events)
      /\ DOMAIN s = 1 .. Len(events) + 1
      /\ \A i \in DOMAIN events : s[i] = events[i]
      /\ s[Len(events) + 1] = new
  BY AppendIs
<1>2. new.number \in Nat
  BY DEF Events, Positive
<1>3. CASE events = <<>>
  <2>1. Len(events) = 0
    BY <1>3
  <2>2. DOMAIN s = {1} /\ s[1] = new /\ Len(s) = 1
    BY <1>1, <2>1
  <2> QED BY <1>1, <1>2, <1>3, <2>2 DEF Numbered
<1>4. CASE events # <<>>
  <2>1. Len(events) > 0 /\ 1 \in DOMAIN events /\ events[1] \in Events
    BY <1>1, <1>4, EmptySeq, ElementOfSeq
  <2>2. events[1].number \in Nat /\ s[1] = events[1]
    BY <1>1, <2>1 DEF Events, Positive
  <2>3. \A i \in DOMAIN events : s[i].number = s[1].number + i - 1
    BY <1>1, <2>2 DEF Numbered
  <2>4. s[Len(events) + 1].number = s[1].number + (Len(events) + 1) - 1
    BY <1>1, <1>4, <2>2
  <2>5. \A i \in DOMAIN s : \/ i \in DOMAIN events /\ s[i] = events[i] /\ i # Len(s)
                            \/ i = Len(s) /\ s[i] = new
    BY <1>1
  <2>6. Numbered(s)
    BY <1>1, <2>3, <2>4, <2>5 DEF Numbered
  <2>7. s[1].number + Len(s) = new.number + 1
    BY <1>1, <1>2, <1>4, <2>2
  <2> QED BY <1>1, <1>4, <2>2, <2>5, <2>6, <2>7
<1> QED BY <1>3, <1>4

\* The mirror after a message that goes on where the mirror ended, or that begins
\* with the list, is the list as it was when the last event was made.
LEMMA AppliedIs ==
  ASSUME NEW base \in Nat, NEW top \in Nat, base <= top,
         NEW events \in Seq(Events), IsMessage(events, base, top),
         NEW shown,
         events[1].number > 1 => /\ base + events[1].number <= top + 2
                                 /\ shown = 1 .. base + events[1].number - 2,
         NEW last,
         last = base + events[1].number + Len(events)
                - (IF events[Len(events)].kind = "timeout" THEN 3 ELSE 2)
  PROVE  last \in 0 .. top /\ Applied(events, shown) = 1 .. last
<1> DEFINE n == Len(events)
           f == events[1].number
           c == IF events[n].kind = "timeout" THEN n - 1 ELSE n
           changes == {k \in DOMAIN events : k >= 1 /\ events[k].kind = "change"}
           lists == {i \in DOMAIN events : events[i].kind = "list"}
           added == {events[i].v : i \in changes}
<1>1. n \in Nat \ {0} /\ DOMAIN events = 1 .. n
  BY LenProperties, EmptySeq DEF IsMessage
<1>2. \A i \in 1 .. n : events[i] \in Events
  BY <1>1, ElementOfSeq
<1>3. f \in Nat \ {0}
  BY <1>1, <1>2 DEF Events, Positive
<1>4. ASSUME NEW i \in 1 .. n
      PROVE  /\ events[i].number = f + i - 1
             /\ IsEvent(events[i], base, top)
             /\ events[i].kind = "timeout" => i = n
  BY <1>1 DEF IsMessage, Numbered
<1> HIDE DEF n, f
<1>5. ASSUME NEW i \in 1 .. n
      PROVE  /\ events[i].kind = "list" => i = 1 /\ f = 1 /\ events[i].v = base
             /\ events[i].kind = "timeout" => i = n /\ f + i > 2
             /\ events[i].kind = "change" => /\ events[i].v = base + f + i - 2
                                             /\ events[i].v <= top /\ f + i > 2
             /\ events[i].kind \in {"list", "change", "timeout"}
  <2>1. CASE events[i].kind = "list"
    <3>1. f + i - 1 = 1 /\ events[i].v = base
      BY <1>4, <2>1 DEF IsEvent
    <3> QED BY <1>3, <2>1, <3>1
  <2>2. CASE events[i].kind = "change"
    <3>1. f + i - 1 > 1 /\ events[i].v = base + (f + i - 1) - 1 /\ events[i].v <= top
      BY <1>4, <2>2 DEF IsEvent
    <3> QED BY <1>3, <2>2, <3>1
  <2>3. CASE events[i].kind = "timeout"
    <3>1. f + i - 1 > 1 /\ i = n
      BY <1>4, <2>3 DEF IsEvent
    <3> QED BY <1>3, <2>3, <3>1
  <2>4. events[i].kind \in {"list", "change", "timeout"}
    BY <1>4 DEF IsEvent
  <2> QED BY <2>1, <2>2, <2>3, <2>4
<1>6. c \in 0 .. n /\ f + c > 1 /\ last = base + f + c - 2
  <2>1. last = base + f + n - (IF events[n].kind = "timeout" THEN 3 ELSE 2)
    BY DEF f, n
  <2>2. events[n].kind = "timeout" => f + n > 2
    BY <1>1, <1>5
  <2> QED BY <1>1, <1>3, <2>1, <2>2
<1>7. \A i \in 1 .. n : (f = 1 /\ i = 1) \/ i > c \/ events[i].kind = "change"
  <2> TAKE i \in 1 .. n
  <2>1. CASE events[i].kind = "timeout"
    <3>1. i = n
      BY <1>5, <2>1
    <3> QED BY <1>1, <2>1, <3>1
  <2> QED BY <1>5, <2>1
<1>8. \A i \in changes : i \in 1 .. c /\ f + i > 2 /\ events[i].v = base + f + i - 2
  <2> TAKE i \in changes
  <2>1. i \in 1 .. n /\ events[i].kind = "change"
    BY <1>1
  <2>2. i <= c
    BY <1>1, <2>1
  <2> QED BY <1>5, <1>6, <2>1, <2>2
<1> HIDE DEF c
<1>9. last <= top
  <2>1. CASE c = 0
    BY <1>3, <1>6, <2>1 DEF f
  <2>2. CASE c > 0
    <3>1. c \in 1 .. n
      BY <1>1, <1>6, <2>2
    <3>2. CASE f = 1 /\ c = 1
      BY <1>6, <3>2
    <3>3. CASE ~(f = 1 /\ c = 1)
      <4>1. events[c].kind = "change"
        BY <1>6, <1>7, <3>1, <3>3
      <4> QED BY <1>5, <1>6, <3>1, <4>1
    <3> QED BY <3>2, <3>3
  <2> QED BY <1>6, <2>1, <2>2
<1>10. last \in 0 .. top
  BY <1>3, <1>6, <1>9
<1> DEFINE low == IF f = 1 THEN base + 1 ELSE base + f - 1
<1>11. added = low .. last
  <2>1. \A x \in added : x \in low .. last
    <3> TAKE x \in added
    <3>1. PICK i \in changes : x = events[i].v
      OBVIOUS
    <3>2. i \in 1 .. c /\ f + i > 2 /\ x = base + f + i - 2
      BY <1>8, <3>1
    <3> HIDE DEF changes, added
    <3>3. f \in Nat \ {0} /\ base \in Nat /\ c \in Nat /\ last = base + f + c - 2
      BY <1>3, <1>6
    <3> HIDE DEF f
    <3>4. x <= last /\ x \in Int /\ last \in Int
      BY <3>2, <3>3
    <3>5. low \in Int /\ low <= x
      BY <3>2, <3>3
    <3> QED BY <3>4, <3>5
  <2>2. \A x \in low .. last : x \in added
    <3> TAKE x \in low .. last
    <3> DEFINE i == x - base - f + 2
    <3>1. i \in 1 .. c /\ ~(f = 1 /\ i = 1) /\ x = base + f + i - 2
      BY <1>3, <1>6
    <3> HIDE DEF i
    <3>2. i \in 1 .. n
      BY <1>1, <1>6, <3>1
    <3>3. events[i].kind = "change"
      BY <1>6, <1>7, <3>1, <3>2
    <3>4. events[i].v = base + f + i - 2
      BY <1>5, <3>2, <3>3
    <3>5. i \in changes /\ events[i].v = x
      BY <1>1, <3>1, <3>2, <3>3, <3>4
    <3> QED BY <3>5
  <2> QED BY <2>1, <2>2
<1>12. CASE f = 1
  <2>1. events[1].kind = "list"
    BY <1>1, <1>5, <1>12
  <2>2. lists = {1}
    BY <1>1, <1>5, <2>1
  <2>3. Max(lists) = 1
    BY <1>1, <2>2, GreatestExists
  <2>4. events[1].v = base
    BY <1>1, <1>5, <2>1
  <2>5. Applied(events, shown) = (1 .. base) \union added
    BY <2>2, <2>3, <2>4 DEF Applied
  <2>6. last >= base
    BY <1>6, <1>12, <1>3
  <2> HIDE DEF added, lists
  <2>7. added = base + 1 .. last
    BY <1>11, <1>12
  <2>8. (1 .. base) \union (base + 1 .. last) = 1 .. last
    BY <1>3, <1>10, <2>6
  <2> QED BY <1>10, <2>5, <2>7, <2>8
<1>13. CASE f # 1
  <2>1. lists = {}
    BY <1>1, <1>5, <1>13
  <2>2. shown = 1 .. base + f - 2
    BY <1>3, <1>13 DEF f
  <2>3. Applied(events, shown) = shown \union added
    BY <2>1 DEF Applied
  <2>4. last >= base + f - 2
    BY <1>3, <1>6
  <2> HIDE DEF added
  <2>5. Applied(events, shown) = (1 .. base + f - 2) \union (base + f - 1 .. last)
    BY <1>11, <1>13, <2>2, <2>3
  <2>6. (1 .. base + f - 2) \union (base + f - 1 .. last) = 1 .. last
    BY <1>3, <1>10, <1>13, <2>4
  <2> QED BY <1>10, <2>5, <2>6
<1> QED BY <1>10, <1>12, <1>13

-----------------------------------------------------------------------------
(* Requests                                                                 *)

\* What a request is about.
LEMMA RequestIs ==
  ASSUME Types, NEW i \in DOMAIN requests
  PROVE  /\ requests[i] \in Requests
         /\ requests[i].kind \in {"change", "list"} => requests[i].v \in Nat
         /\ requests[i].kind \in {"list", "ack"} => requests[i].id \in Nat
         /\ requests[i].kind = "ack" => requests[i].number \in Nat
<1>1. requests[i] \in Requests
  BY LenProperties, ElementOfSeq DEF Types
<1> QED BY <1>1 DEF Requests, ChangeRequests, ListRequests, AckRequests

\* A message stays one of its registration when the list goes on.
LEMMA MessageStays ==
  ASSUME NEW base \in Nat, NEW top \in Nat, NEW more \in Nat, top <= more,
         NEW events \in Seq(Events)
  PROVE  /\ \A i \in DOMAIN events :
              IsEvent(events[i], base, top) => IsEvent(events[i], base, more)
         /\ IsMessage(events, base, top) => IsMessage(events, base, more)
<1>1. ASSUME NEW i \in DOMAIN events, IsEvent(events[i], base, top)
      PROVE  IsEvent(events[i], base, more)
  <2>1. events[i] \in Events
    BY LenProperties, ElementOfSeq
  <2>2. events[i].v \in Nat
    BY <2>1 DEF Events
  <2> QED BY <1>1, <2>2 DEF IsEvent
<1> QED BY <1>1 DEF IsMessage

\* A new acknowledgement changes nothing about the requests that wait before it.
LEMMA AnswerKeeps ==
  ASSUME Types, QueueInOrder, IdsInUse,
         NEW ack \in AckRequests,
         requests' = requests \/ requests' = Append(requests, ack),
         UNCHANGED <<master, entry, freeIds>>
  PROVE  /\ requests' \in Seq(Requests) /\ QueueInOrder' /\ IdsInUse'
         /\ \A base \in Nat : /\ BlockedEntry(base) => BlockedEntry(base)'
                              /\ OpenEntry(base) => OpenEntry(base)'
<1>1. CASE requests' = requests
  BY <1>1 DEF Types, QueueInOrder, IdsInUse, BlockedEntry, OpenEntry
<1>2. CASE requests' = Append(requests, ack)
  <2>1. ack \in Requests /\ ack.kind = "ack"
    BY DEF Requests, AckRequests
  <2>2. /\ requests' \in Seq(Requests)
        /\ Len(requests) \in Nat
        /\ DOMAIN requests = 1 .. Len(requests)
        /\ DOMAIN requests' = 1 .. Len(requests) + 1
        /\ \A i \in DOMAIN requests : requests'[i] = requests[i]
        /\ requests'[Len(requests) + 1] = ack
    BY <1>2, <2>1, AppendIs DEF Types
  <2>3. \A i \in DOMAIN requests' :
          requests'[i].kind # "ack" => i \in DOMAIN requests /\ requests'[i] = requests[i]
    BY <2>1, <2>2
  <2>4. DOMAIN requests \subseteq DOMAIN requests'
    BY <2>2
  <2>5. QueueInOrder'
    <3> SUFFICES ASSUME NEW i \in DOMAIN requests', requests'[i].kind \in {"change", "list"}
                 PROVE  /\ requests'[i].v <= master
                        /\ \A j \in DOMAIN requests' :
                             i < j /\ requests'[j].kind = "change" =>
                               requests'[i].v < requests'[j].v
                        /\ \A v \in requests'[i].v + 1 .. master :
                             \E j \in DOMAIN requests' :
                               i < j /\ requests'[j].kind = "change" /\ requests'[j].v = v
      BY DEF QueueInOrder
    <3>1. i \in DOMAIN requests /\ requests'[i] = requests[i]
      BY <2>3
    <3> QED BY <2>2, <2>3, <2>4, <3>1 DEF QueueInOrder
  <2>6. IdsInUse'
    BY <2>3 DEF IdsInUse
  <2>7. ASSUME NEW base \in Nat, BlockedEntry(base)
        PROVE  BlockedEntry(base)'
    BY <2>2, <2>4, <2>7 DEF BlockedEntry
  <2>8. ASSUME NEW base \in Nat, OpenEntry(base)
        PROVE  OpenEntry(base)'
    <3>1. \A i \in DOMAIN requests' :
            /\ requests'[i].kind = "change" => requests'[i].v > base + entry.next - 2
            /\ requests'[i].kind = "list" => requests'[i].id # entry.id
      BY <2>3, <2>8 DEF OpenEntry
    <3>2. \A v \in base + entry.next - 1 .. master :
            \E i \in DOMAIN requests' : requests'[i].kind = "change" /\ requests'[i].v = v
      BY <2>2, <2>4, <2>8 DEF OpenEntry
    <3> QED BY <2>8, <3>1, <3>2 DEF OpenEntry
  <2> QED BY <2>2, <2>5, <2>6, <2>7, <2>8
<1> QED BY <1>1, <1>2

-----------------------------------------------------------------------------
(* The steps                                                                *)

\* A step that changes neither the list nor the mirror.
ListStays == UNCHANGED <<master, mirror>>

\* The list goes on: the change waits behind everything else.
LEMMA ChangeStep ==
  ASSUME IInv, Change
  PROVE  IInv' /\ List!Change
<1> USE DEF IInv
<1>1. PICK base \in 0 .. master : BaseInv(base)
  OBVIOUS
<1> DEFINE new == [kind |-> "change", v |-> master + 1]
<1>2. /\ master \in Nat /\ master' = master + 1 /\ requests' = Append(requests, new)
      /\ UNCHANGED <<entry, freeIds, queued, toClient, client, mirror>>
  BY DEF Change, Types
<1>3. /\ requests' \in Seq(Requests)
      /\ Len(requests) \in Nat
      /\ DOMAIN requests = 1 .. Len(requests)
      /\ DOMAIN requests' = 1 .. Len(requests) + 1
      /\ \A i \in DOMAIN requests : requests'[i] = requests[i]
      /\ requests'[Len(requests) + 1] = new
  <2>1. new \in Requests
    BY <1>2 DEF Requests, ChangeRequests
  <2> QED BY <1>2, <2>1, AppendIs DEF Types
<1> DEFINE last == Len(requests) + 1
<1>4. \A i \in DOMAIN requests' :
        \/ i = last /\ requests'[i] = new
        \/ i \in DOMAIN requests /\ i < last /\ requests'[i] = requests[i]
  BY <1>3
<1>5. last \in DOMAIN requests' /\ \A i \in DOMAIN requests : i < last /\ i \in DOMAIN requests'
  BY <1>3
<1> HIDE DEF last
<1>6. Types'
  BY <1>2, <1>3 DEF Types
<1>7. QueueInOrder'
  <2> SUFFICES ASSUME NEW i \in DOMAIN requests', requests'[i].kind \in {"change", "list"}
               PROVE  /\ requests'[i].v <= master'
                      /\ \A j \in DOMAIN requests' :
                           i < j /\ requests'[j].kind = "change" =>
                             requests'[i].v < requests'[j].v
                      /\ \A v \in requests'[i].v + 1 .. master' :
                           \E j \in DOMAIN requests' :
                             i < j /\ requests'[j].kind = "change" /\ requests'[j].v = v
    BY DEF QueueInOrder
  <2>1. CASE i = last
    <3>1. requests'[i].v = master + 1
      BY <1>3, <1>4, <2>1
    <3>2. \A j \in DOMAIN requests' : ~(i < j)
      BY <1>3, <2>1 DEF last
    <3> QED BY <1>2, <3>1, <3>2
  <2>2. CASE i \in DOMAIN requests
    <3>1. requests'[i] = requests[i] /\ requests[i].v \in Nat /\ requests[i].v <= master
      BY <1>3, <2>2, RequestIs DEF QueueInOrder
    <3>2. ASSUME NEW j \in DOMAIN requests', i < j, requests'[j].kind = "change"
          PROVE  requests'[i].v < requests'[j].v
      <4>1. CASE j \in DOMAIN requests
        BY <1>3, <2>2, <3>1, <3>2, <4>1 DEF QueueInOrder
      <4>2. CASE requests'[j] = new
        BY <1>2, <3>1, <4>2
      <4> QED BY <1>4, <4>1, <4>2
    <3>3. ASSUME NEW v \in requests'[i].v + 1 .. master'
          PROVE  \E j \in DOMAIN requests' :
                   i < j /\ requests'[j].kind = "change" /\ requests'[j].v = v
      <4>1. CASE v = master + 1
        BY <1>3, <1>5, <2>2, <4>1 DEF last
      <4>2. CASE v # master + 1
        <5>1. v \in requests[i].v + 1 .. master
          BY <1>2, <3>1, <3>3, <4>2
        <5>2. PICK j \in DOMAIN requests :
                i < j /\ requests[j].kind = "change" /\ requests[j].v = v
          BY <2>2, <3>1, <5>1 DEF QueueInOrder
        <5> QED BY <1>3, <1>5, <5>2
      <4> QED BY <4>1, <4>2
    <3> QED BY <1>2, <3>1, <3>2, <3>3
  <2> QED BY <1>4, <2>1, <2>2
<1>8. IdsInUse'
  <2>1. \A i \in DOMAIN requests' :
          requests'[i].kind = "list" => i \in DOMAIN requests /\ requests'[i] = requests[i]
    BY <1>4
  <2> QED BY <1>2, <2>1 DEF IdsInUse
<1>9. MirrorInv'
  BY <1>2 DEF MirrorInv
<1>10. client'.needRegister => UnregisteredInv'
  BY <1>2 DEF UnregisteredInv, IsLate
<1>11. BlockedEntry(base) => BlockedEntry(base)'
  BY <1>2, <1>3, <1>5 DEF BlockedEntry
<1>12. ASSUME OpenEntry(base), entry \in Entries
       PROVE  OpenEntry(base)'
  <2>1. entry.next \in Nat /\ entry.events \in Seq(Events)
    BY <1>12 DEF Entries, Positive
  <2>2. base + entry.next <= master' + 2
    BY <1>2, <1>12, <2>1 DEF OpenEntry
  <2>3. \A i \in DOMAIN entry.events : IsEvent(entry.events[i], base, master')
    BY <1>2, <1>12, <2>1, MessageStays DEF OpenEntry
  <2>4. \A i \in DOMAIN requests' :
          /\ requests'[i].kind = "change" => requests'[i].v > base + entry.next - 2
          /\ requests'[i].kind = "list" => requests'[i].id # entry.id
    <3>1. master + 1 > base + entry.next - 2
      BY <1>2, <1>12, <2>1 DEF OpenEntry
    <3> QED BY <1>4, <1>12, <3>1 DEF OpenEntry
  <2>5. ASSUME NEW v \in base + entry.next - 1 .. master'
        PROVE  \E i \in DOMAIN requests' : requests'[i].kind = "change" /\ requests'[i].v = v
    <3>1. CASE v = master + 1
      BY <1>3, <1>5, <3>1 DEF last
    <3>2. CASE v # master + 1
      <4>1. v \in base + entry.next - 1 .. master
        BY <1>2, <2>1, <2>5, <3>2
      <4> QED BY <1>3, <1>5, <1>12, <4>1 DEF OpenEntry
    <3> QED BY <3>1, <3>2
  <2> QED BY <1>2, <1>12, <2>2, <2>3, <2>4, <2>5 DEF OpenEntry
<1>13. ASSUME ~client.needRegister, RegisteredInv(base)
       PROVE  RegisteredInv(base)'
  <2>1. Mirrors(base)'
    <3>1. client.nextEvent \in Nat
      BY DEF Types, Clients, Positive
    <3>2. \A i \in DOMAIN toClient :
            IsMessage(toClient[i], base, master) => IsMessage(toClient[i], base, master')
      <4> TAKE i \in DOMAIN toClient
      <4>1. toClient[i] \in Seq(Events)
        BY LenProperties, ElementOfSeq DEF Types
      <4>2. master' \in Nat /\ master <= master'
        BY <1>2
      <4> QED BY <1>2, <4>1, <4>2, MessageStays
    <3> QED BY <1>2, <1>13, <3>1, <3>2 DEF RegisteredInv, Mirrors, IsLate
  <2>2. Waits => Waits'
    BY <1>2, <1>4 DEF Waits, IsLate
  <2>3. Keeps => Keeps'
    BY <1>2, <1>4 DEF Keeps
  <2> QED BY <1>2, <1>13, <2>1, <2>2, <2>3 DEF RegisteredInv
<1>14. BaseInv(base)'
  BY <1>1, <1>2, <1>11, <1>12, <1>13 DEF BaseInv, Types
<1>15. List!Change
  BY DEF Change, List!Change
<1> QED BY <1>2, <1>6, <1>7, <1>8, <1>9, <1>10, <1>14, <1>15

\* A registration begins with the list as it is now: it waits behind everything
\* else for an id that nothing that waits has.
LEMMA RegisterStep ==
  ASSUME IInv, Register
  PROVE  IInv' /\ ListStays
<1> USE DEF IInv
<1> DEFINE id == Lowest(freeIds)
           new == [kind |-> "list", id |-> id, v |-> master]
           answered == client.registering /\ connected /\ queued = 1
<1>1. /\ queued \in Nat \ {0} /\ queued' = queued - 1
      /\ freeIds' = freeIds \ {id} /\ entry' = NewEntry(id)
      /\ requests' = Append(requests, new)
      /\ client' = IF answered
                   THEN [client EXCEPT !.registering = FALSE, !.needRegister = FALSE, !.id = id]
                   ELSE client
      /\ UNCHANGED <<master, toClient, connected, mirror>>
  BY DEF Register, Types
<1>2. client.needRegister /\ UnregisteredInv
  <2>1. PICK base \in 0 .. master : BaseInv(base)
    OBVIOUS
  <2>2. queued # 0
    BY <1>1
  <2> QED BY <2>1, <2>2 DEF BaseInv, RegisteredInv, Types, Clients
<1>3. id \in freeIds /\ id \in 1 .. MaxIds /\ id \in Nat /\ master \in Nat
  <2>1. freeIds # {} /\ freeIds \subseteq 1 .. MaxIds /\ freeIds \in SUBSET Nat
    BY BoundsAssumption DEF Register, Types
  <2>2. id \in freeIds
    BY <2>1, LowestIsLeast
  <2> QED BY <2>1, <2>2 DEF Types
<1> HIDE DEF id
<1>4. /\ requests' \in Seq(Requests)
      /\ Len(requests) \in Nat
      /\ DOMAIN requests = 1 .. Len(requests)
      /\ DOMAIN requests' = 1 .. Len(requests) + 1
      /\ \A i \in DOMAIN requests : requests'[i] = requests[i]
      /\ requests'[Len(requests) + 1] = new
  <2>1. new \in Requests
    BY <1>3 DEF Requests, ListRequests
  <2> QED BY <1>1, <2>1, AppendIs DEF Types
<1> DEFINE last == Len(requests) + 1
<1>5. \A i \in DOMAIN requests' :
        \/ i = last /\ requests'[i] = new
        \/ i \in DOMAIN requests /\ i < last /\ requests'[i] = requests[i]
  BY <1>4
<1>6. /\ last \in DOMAIN requests' /\ requests'[last] = new
      /\ \A i \in DOMAIN requests' : ~(last < i)
      /\ \A i \in DOMAIN requests : i < last /\ i \in DOMAIN requests'
  BY <1>4
<1> HIDE DEF last
<1>7. client' \in Clients /\ entry' \in Entries /\ entry'.id = id /\ entry'.blocked
      /\ entry'.next = 1 /\ entry'.events = <<>>
  <2>1. client' \in Clients
    BY <1>1, <1>3 DEF Types, Clients
  <2>2. <<>> \in Seq(Events)
    BY EmptySeq
  <2> QED BY <1>1, <1>3, <2>1, <2>2 DEF Entries, NewEntry, Positive
<1>8. Types'
  <2>1. queued' \in Nat
    BY <1>1
  <2> QED BY <1>1, <1>4, <1>7, <2>1 DEF Types
<1>9. QueueInOrder'
  <2> SUFFICES ASSUME NEW i \in DOMAIN requests', requests'[i].kind \in {"change", "list"}
               PROVE  /\ requests'[i].v <= master
                      /\ \A j \in DOMAIN requests' :
                           i < j /\ requests'[j].kind = "change" =>
                             requests'[i].v < requests'[j].v
                      /\ \A v \in requests'[i].v + 1 .. master :
                           \E j \in DOMAIN requests' :
                             i < j /\ requests'[j].kind = "change" /\ requests'[j].v = v
    BY <1>1 DEF QueueInOrder
  <2>1. CASE i = last
    <3>1. requests'[i].v = master
      BY <1>6, <2>1
    <3> QED BY <1>3, <1>6, <2>1, <3>1
  <2>2. CASE i \in DOMAIN requests
    <3>1. requests'[i] = requests[i] /\ requests[i].v <= master
      BY <1>4, <2>2 DEF QueueInOrder
    <3>2. \A j \in DOMAIN requests' :
            requests'[j].kind = "change" => j \in DOMAIN requests /\ requests'[j] = requests[j]
      BY <1>5
    <3>3. \A j \in DOMAIN requests : requests'[j] = requests[j] /\ j \in DOMAIN requests'
      BY <1>4, <1>6
    <3> QED BY <2>2, <3>1, <3>2, <3>3 DEF QueueInOrder
  <2> QED BY <1>5, <2>1, <2>2
<1>10. \A i \in DOMAIN requests' :
         requests'[i].kind = "list" =>
           /\ requests'[i].id \notin freeIds'
           /\ requests'[i].id = id => i = last
           /\ i # last => i \in DOMAIN requests /\ requests'[i] = requests[i]
  BY <1>1, <1>3, <1>5, <1>6 DEF IdsInUse
<1>11. IdsInUse'
  <2> SUFFICES ASSUME NEW i \in DOMAIN requests', NEW j \in DOMAIN requests',
                      requests'[i].kind = "list", requests'[j].kind = "list",
                      requests'[j].id = requests'[i].id
               PROVE  i = j
    BY <1>1, <1>7, <1>10 DEF IdsInUse
  <2>1. CASE i = last \/ j = last
    BY <1>6, <1>10, <2>1
  <2>2. CASE i # last /\ j # last
    BY <1>10, <2>2 DEF IdsInUse
  <2> QED BY <2>1, <2>2
<1>12. MirrorInv'
  BY <1>1 DEF MirrorInv
<1>13. client'.needRegister => UnregisteredInv'
  <2>1. client'.needRegister => client' = client
    BY <1>1 DEF Types, Clients
  <2> QED BY <1>1, <1>2, <2>1 DEF UnregisteredInv, IsLate
<1>14. BlockedEntry(master)'
  BY <1>1, <1>6, <1>7 DEF BlockedEntry
<1>15. ASSUME ~client'.needRegister
       PROVE  RegisteredInv(master)'
  <2>1. /\ queued = 1 /\ client.registering /\ ~client'.registering
        /\ client'.id = id /\ client'.nextEvent = client.nextEvent
    BY <1>1, <1>2, <1>15 DEF Types, Clients
  <2>2. client'.nextEvent = 1
    BY <1>2, <2>1 DEF UnregisteredInv
  <2>3. \A i \in DOMAIN toClient : IsLate(toClient[i])
    BY <1>2 DEF UnregisteredInv
  <2>4. toClient # <<>> => 1 \in DOMAIN toClient
    BY TailIs DEF Types
  <2>5. mirror \subseteq 1 .. master
    BY <1>3 DEF MirrorInv
  <2>6. Mirrors(master)'
    <3>1. toClient = <<>> => DOMAIN toClient = {}
      BY EmptySeq
    <3> QED BY <1>1, <2>2, <2>3, <2>4, <2>5, <3>1 DEF Mirrors, IsLate
  <2>7. Waits'
    <3>1. \A i, j \in DOMAIN requests' :
            ~(i < j /\ requests'[i].kind = "list" /\ requests'[i].id = entry'.id)
      BY <1>6, <1>7, <1>10
    <3> QED BY <1>1, <2>2, <2>3, <2>4, <3>1 DEF Waits, IsLate
  <2> QED BY <1>1, <1>7, <2>1, <2>6, <2>7 DEF RegisteredInv
<1>16. BaseInv(master)' /\ master' \in 0 .. master'
  BY <1>1, <1>3, <1>7, <1>14, <1>15 DEF BaseInv
<1>17. \E base \in 0 .. master' : BaseInv(base)'
  BY <1>1, <1>16
<1> QED BY <1>1, <1>8, <1>9, <1>11, <1>12, <1>13, <1>17 DEF ListStays

\* What waits behind the first request goes on waiting.
LEMMA TailKeeps ==
  ASSUME Types, QueueInOrder, IdsInUse, requests # <<>>, requests' = Tail(requests),
         UNCHANGED <<master, freeIds>>,
         entry' # None => entry # None /\ entry'.id = entry.id
  PROVE  /\ requests' \in Seq(Requests) /\ QueueInOrder' /\ IdsInUse'
         /\ 1 \in DOMAIN requests /\ Head(requests) = requests[1]
         /\ \A i \in DOMAIN requests :
              i = 1 \/ (1 < i /\ i - 1 \in DOMAIN requests' /\ requests'[i - 1] = requests[i])
         /\ \A i \in DOMAIN requests' :
              1 < i + 1 /\ i + 1 \in DOMAIN requests /\ requests'[i] = requests[i + 1]
<1>1. /\ requests' \in Seq(Requests)
      /\ 1 \in DOMAIN requests /\ Head(requests) = requests[1]
      /\ \A i \in DOMAIN requests :
           i = 1 \/ (i - 1 \in DOMAIN requests' /\ requests'[i - 1] = requests[i])
      /\ \A i \in DOMAIN requests' : i + 1 \in DOMAIN requests /\ requests'[i] = requests[i + 1]
  BY TailIs DEF Types
<1>2. /\ \A i \in DOMAIN requests : i \in Nat \ {0}
      /\ \A i \in DOMAIN requests' : i \in Nat \ {0}
  BY <1>1, LenProperties DEF Types
<1>3. QueueInOrder'
  <2> SUFFICES ASSUME NEW i \in DOMAIN requests', requests'[i].kind \in {"change", "list"}
               PROVE  /\ requests'[i].v <= master
                      /\ \A j \in DOMAIN requests' :
                           i < j /\ requests'[j].kind = "change" =>
                             requests'[i].v < requests'[j].v
                      /\ \A v \in requests'[i].v + 1 .. master :
                           \E j \in DOMAIN requests' :
                             i < j /\ requests'[j].kind = "change" /\ requests'[j].v = v
    BY DEF QueueInOrder
  <2>1. i + 1 \in DOMAIN requests /\ requests'[i] = requests[i + 1]
    BY <1>1
  <2>2. ASSUME NEW j \in DOMAIN requests', i < j, requests'[j].kind = "change"
        PROVE  requests'[i].v < requests'[j].v
    <3>1. i + 1 < j + 1 /\ j + 1 \in DOMAIN requests /\ requests'[j] = requests[j + 1]
      BY <1>1, <1>2, <2>2
    <3> QED BY <2>1, <2>2, <3>1 DEF QueueInOrder
  <2>3. ASSUME NEW v \in requests'[i].v + 1 .. master
        PROVE  \E j \in DOMAIN requests' :
                 i < j /\ requests'[j].kind = "change" /\ requests'[j].v = v
    <3>1. PICK j \in DOMAIN requests :
            i + 1 < j /\ requests[j].kind = "change" /\ requests[j].v = v
      BY <2>1, <2>3 DEF QueueInOrder
    <3>2. j # 1 /\ i < j - 1
      BY <1>2, <3>1
    <3> QED BY <1>1, <3>1, <3>2
  <2> QED BY <2>1, <2>2, <2>3 DEF QueueInOrder
<1>4. IdsInUse'
  <2> SUFFICES ASSUME NEW i \in DOMAIN requests', requests'[i].kind = "list"
               PROVE  /\ requests'[i].id \notin freeIds
                      /\ \A j \in DOMAIN requests' :
                           requests'[j].kind = "list" /\ requests'[j].id = requests'[i].id
                             => i = j
    BY DEF IdsInUse
  <2>1. i + 1 \in DOMAIN requests /\ requests'[i] = requests[i + 1]
    BY <1>1
  <2>2. ASSUME NEW j \in DOMAIN requests',
               requests'[j].kind = "list", requests'[j].id = requests'[i].id
        PROVE  i = j
    <3>1. j + 1 \in DOMAIN requests /\ requests'[j] = requests[j + 1]
      BY <1>1
    <3>2. i + 1 = j + 1
      BY <2>1, <2>2, <3>1 DEF IdsInUse
    <3> QED BY <1>2, <3>2
  <2> QED BY <2>1, <2>2 DEF IdsInUse
<1>5. \A i \in DOMAIN requests : i = 1 \/ 1 < i
  BY <1>2
<1>6. \A i \in DOMAIN requests' : 1 < i + 1
  BY <1>2
<1> QED BY <1>1, <1>3, <1>4, <1>5, <1>6

\* A blocked entry waits for its list, which is not the first request; one that is
\* not blocked has no list to wait for.
LEMMA EntryOfRequest ==
  ASSUME IInv, requests # <<>>, requests' = Tail(requests),
         UNCHANGED <<master, entry, freeIds>>, NEW base \in Nat
  PROVE  /\ BlockedEntry(base) /\ ~(requests[1].kind = "list" /\ requests[1].id = entry.id)
              => BlockedEntry(base)'
         /\ OpenEntry(base) /\ requests[1].kind # "change" => OpenEntry(base)'
<1> USE DEF IInv
<1>1. /\ \A i \in DOMAIN requests :
           i = 1 \/ (i - 1 \in DOMAIN requests' /\ requests'[i - 1] = requests[i])
      /\ \A i \in DOMAIN requests' : i + 1 \in DOMAIN requests /\ requests'[i] = requests[i + 1]
  BY TailIs DEF Types
<1>2. BlockedEntry(base) /\ ~(requests[1].kind = "list" /\ requests[1].id = entry.id)
        => BlockedEntry(base)'
  BY <1>1 DEF BlockedEntry
<1>3. ASSUME OpenEntry(base), requests[1].kind # "change"
      PROVE  OpenEntry(base)'
  <2>1. \A i \in DOMAIN requests' :
          /\ requests'[i].kind = "change" => requests'[i].v > base + entry.next - 2
          /\ requests'[i].kind = "list" => requests'[i].id # entry.id
    BY <1>1, <1>3 DEF OpenEntry
  <2>2. \A v \in base + entry.next - 1 .. master :
          \E i \in DOMAIN requests' : requests'[i].kind = "change" /\ requests'[i].v = v
    BY <1>1, <1>3 DEF OpenEntry
  <2> QED BY <1>3, <2>1, <2>2 DEF OpenEntry
<1> QED BY <1>2, <1>3

\* What the entry is after a request.
Processed(base) ==
  /\ entry' \in Entries \union {None}
  /\ entry' # None =>
       /\ entry # None /\ entry'.id = entry.id
       /\ entry'.blocked => BlockedEntry(base)' /\ (~client.needRegister => Waits')
       /\ ~entry'.blocked => OpenEntry(base)' /\ (~client.needRegister => Keeps')

\* Nothing happens to the entry.
LEMMA UntouchedByRequest ==
  ASSUME IInv, NEW base \in 0 .. master, BaseInv(base),
         requests # <<>>, requests' = Tail(requests),
         UNCHANGED <<master, entry, freeIds, toClient, client>>,
         entry # None =>
           /\ ~(requests[1].kind = "list" /\ requests[1].id = entry.id)
           /\ ~entry.blocked => requests[1].kind # "change"
  PROVE  Processed(base)
<1> USE DEF IInv
<1>1. base \in Nat
  BY DEF Types
<1>2. \A i \in DOMAIN requests' : i \in Nat /\ i + 1 \in DOMAIN requests
                                  /\ requests'[i] = requests[i + 1]
  BY TailIs, LenProperties DEF Types
<1>3. \A i, j \in DOMAIN requests' : i < j => i + 1 < j + 1
  BY <1>2
<1>4. Waits => Waits'
  <2> SUFFICES ASSUME Waits, NEW i \in DOMAIN requests', NEW j \in DOMAIN requests', i < j,
                      requests'[i].kind = "list", requests'[i].id = entry.id,
                      requests'[j].kind = "ack"
               PROVE  requests'[j].id # entry.id
    BY DEF Waits, IsLate
  <2>1. /\ i + 1 < j + 1 /\ i + 1 \in DOMAIN requests /\ j + 1 \in DOMAIN requests
        /\ requests'[i] = requests[i + 1] /\ requests'[j] = requests[j + 1]
    BY <1>2, <1>3
  <2> QED BY <2>1 DEF Waits
<1>5. Keeps => Keeps'
  BY <1>2 DEF Keeps
<1>6. entry # None => /\ entry.blocked => BlockedEntry(base)'
                      /\ ~entry.blocked => OpenEntry(base)'
  BY <1>1, EntryOfRequest DEF BaseInv
<1> QED BY <1>4, <1>5, <1>6 DEF Processed, BaseInv, RegisteredInv, Types

\* A change becomes the next event, as the one that is due.
LEMMA ChangeProcessed ==
  ASSUME IInv, ProcessRequest, NEW base \in 0 .. master, BaseInv(base),
         requests[1].kind = "change"
  PROVE  Processed(base)
<1> USE DEF IInv
<1> DEFINE r == requests[1]
<1>1. /\ requests # <<>> /\ requests' = Tail(requests)
      /\ UNCHANGED <<master, freeIds, queued, toClient, client, mirror>>
      /\ 1 \in DOMAIN requests /\ Head(requests) = r
  BY TailIs DEF ProcessRequest, Types
<1>2. entry' = IF entry # None /\ ~entry.blocked THEN WithEvent(entry, "change", r.v) ELSE entry
  BY <1>1 DEF ProcessRequest
<1>3. base \in Nat /\ master \in Nat /\ r.v \in Nat
  BY <1>1, RequestIs DEF Types
<1>4. CASE entry = None \/ entry.blocked
  BY <1>1, <1>2, <1>4, UntouchedByRequest
<1>5. CASE entry # None /\ ~entry.blocked
  <2> DEFINE e == entry
             new == Event(e.next, "change", r.v)
  <2>1. /\ entry \in Entries /\ entry.next \in Nat \ {0} /\ entry.events \in Seq(Events)
        /\ OpenEntry(base) /\ entry.next > 1
    BY <1>5 DEF Types, Entries, Positive, BaseInv, OpenEntry
  <2>2. r.v = base + entry.next - 1
    <3>1. r.v > base + entry.next - 2 /\ r.v <= master
      <4>1. r.v <= master
        BY <1>1 DEF QueueInOrder
      <4>2. r.v > base + entry.next - 2
        BY <1>1, <2>1 DEF OpenEntry
      <4> QED BY <4>1, <4>2
    <3>2. base + entry.next - 1 \in base + entry.next - 1 .. master
      <4> DEFINE n == entry.next
                 x == r.v
      <4>1. n \in Nat /\ x \in Nat /\ x > base + n - 2 /\ x <= master
        BY <1>3, <2>1, <3>1
      <4> HIDE DEF n, x
      <4>2. base + n - 1 \in base + n - 1 .. master
        BY <1>3, <4>1
      <4> QED BY <4>2 DEF n
    <3>3. PICK i \in DOMAIN requests :
            requests[i].kind = "change" /\ requests[i].v = base + entry.next - 1
      BY <2>1, <3>2 DEF OpenEntry
    <3>4. i = 1 \/ 1 < i
      BY LenProperties DEF Types
    <3>5. ~(r.v < requests[i].v)
      <4> DEFINE x == r.v
                 y == requests[i].v
                 n == entry.next
      <4>1. x \in Nat /\ master \in Nat /\ n \in Nat /\ base \in Nat
            /\ x > base + n - 2 /\ y = base + n - 1
        BY <1>3, <2>1, <3>1, <3>3
      <4> HIDE DEF x, y, n
      <4>2. ~(x < y)
        BY <4>1
      <4> QED BY <4>2 DEF x, y
    <3> QED BY <1>1, <3>3, <3>4, <3>5 DEF QueueInOrder
  <2>3. new \in Events /\ new.number = entry.next /\ new.kind = "change" /\ new.v = r.v
    BY <1>3, <2>1 DEF Event, Events, Positive
  <2> DEFINE s == Append(e.events, new)
  <2>4. /\ s \in Seq(Events) /\ s # <<>> /\ Numbered(s)
        /\ s[1].number + Len(s) = entry.next + 1
        /\ s[1].number = IF e.events = <<>> THEN entry.next ELSE e.events[1].number
        /\ \A i \in DOMAIN s : \/ i \in DOMAIN e.events /\ s[i] = e.events[i]
                               \/ s[i] = new
    <3>1. /\ e.events \in Seq(Events) /\ Numbered(e.events) /\ new \in Events
          /\ e.events # <<>> => e.events[1].number + Len(e.events) = new.number
      BY <2>1, <2>3 DEF OpenEntry
    <3>2. IsGrown(s, e.events, new)
      BY <3>1, MessageGrows
    <3> HIDE DEF new, s
    <3> QED BY <2>3, <3>2 DEF IsGrown
  <2>5. entry' = [entry EXCEPT !.events = s, !.next = entry.next + 1]
    BY <1>2, <1>5 DEF WithEvent
  <2> HIDE DEF s
  <2>6. /\ entry' \in Entries /\ entry'.id = entry.id /\ entry'.next = entry.next + 1
        /\ ~entry'.blocked /\ entry'.events = s
    <3>1. s \in Seq(Events) /\ entry.next + 1 \in Nat \ {0}
      BY <2>1, <2>4
    <3> QED BY <1>5, <2>1, <2>5, <3>1 DEF Entries, Positive
  <2>7. \A i \in DOMAIN s : IsEvent(s[i], base, master) /\ s[i].kind # "timeout"
    <3>1. IsEvent(new, base, master)
      BY <1>1, <2>1, <2>2, <2>3 DEF IsEvent, QueueInOrder
    <3> HIDE DEF new
    <3> QED BY <2>1, <2>3, <2>4, <3>1 DEF OpenEntry
  <2>8. \A i \in DOMAIN requests' :
           /\ requests'[i].kind = "change" => requests'[i].v > base + entry'.next - 2
           /\ requests'[i].kind = "list" => requests'[i].id # entry'.id
    <3> TAKE i \in DOMAIN requests'
    <3>1. 1 < i + 1 /\ i + 1 \in DOMAIN requests /\ requests'[i] = requests[i + 1]
      BY <1>1, <2>6, TailKeeps, <1>5
    <3>2. requests'[i].kind = "change" => requests'[i].v \in Nat /\ r.v < requests'[i].v
      BY <1>1, <3>1, RequestIs DEF QueueInOrder
    <3> QED BY <1>3, <2>1, <2>2, <2>6, <3>1, <3>2 DEF OpenEntry
  <2>9. \A v \in base + entry'.next - 1 .. master :
           \E i \in DOMAIN requests' : requests'[i].kind = "change" /\ requests'[i].v = v
    <3> TAKE v \in base + entry'.next - 1 .. master
    <3>1. v \in base + entry.next - 1 .. master /\ v # r.v
      BY <1>3, <2>1, <2>2, <2>6
    <3>2. PICK i \in DOMAIN requests : requests[i].kind = "change" /\ requests[i].v = v
      BY <2>1, <3>1 DEF OpenEntry
    <3>3. i - 1 \in DOMAIN requests' /\ requests'[i - 1] = requests[i]
      BY <1>1, <1>5, <2>6, <3>1, <3>2, TailKeeps
    <3> QED BY <3>2, <3>3
  <2>10. OpenEntry(base)'
    <3>1. entry'.next > 1 /\ base + entry'.next <= master + 2
      <4>1. r.v <= master
        BY <1>1 DEF QueueInOrder
      <4> QED BY <1>3, <2>1, <2>2, <2>6, <4>1
    <3> QED BY <1>1, <2>4, <2>6, <2>7, <2>8, <2>9, <3>1 DEF OpenEntry
  <2>11. ASSUME ~client.needRegister PROVE Keeps'
    <3>1. Keeps /\ client.nextEvent \in Nat
      BY <1>5, <2>11 DEF BaseInv, RegisteredInv, Types, Clients, Positive
    <3>2. s # <<>> /\ s[1].number <= client.nextEvent
      BY <2>4, <3>1 DEF Keeps
    <3>3. \A i \in DOMAIN requests' : \E j \in DOMAIN requests : requests'[i] = requests[j]
      BY <1>1, <1>5, <2>6, TailKeeps
    <3> QED BY <1>1, <2>6, <3>1, <3>2, <3>3 DEF Keeps
  <2> QED BY <1>5, <2>6, <2>10, <2>11 DEF Processed
<1> QED BY <1>4, <1>5

\* The list is the first event of the registration it was copied for.
LEMMA ListProcessed ==
  ASSUME IInv, ProcessRequest, NEW base \in 0 .. master, BaseInv(base),
         requests[1].kind = "list"
  PROVE  Processed(base)
<1> USE DEF IInv
<1> DEFINE r == requests[1]
<1>1. /\ requests # <<>> /\ requests' = Tail(requests)
      /\ UNCHANGED <<master, freeIds, queued, toClient, client, mirror>>
      /\ 1 \in DOMAIN requests /\ Head(requests) = r
  BY TailIs DEF ProcessRequest, Types
<1>2. entry' = IF IsFor(r)
               THEN [WithEvent(entry, "list", r.v) EXCEPT !.blocked = FALSE] ELSE entry
  BY <1>1 DEF ProcessRequest
<1>3. base \in Nat /\ master \in Nat /\ r.v \in Nat
  BY <1>1, RequestIs DEF Types
<1>4. CASE ~IsFor(r)
  BY <1>1, <1>2, <1>4, UntouchedByRequest DEF IsFor
<1>5. CASE IsFor(r)
  <2> DEFINE new == Event(1, "list", base)
  <2>1. entry # None /\ entry \in Entries /\ entry.id = r.id /\ entry.blocked
        /\ BlockedEntry(base) /\ entry.next = 1 /\ entry.events = <<>>
    BY <1>1, <1>5 DEF IsFor, Types, Entries, BaseInv, OpenEntry, BlockedEntry
  <2>2. r.v = base
    <3>1. PICK i \in DOMAIN requests :
            requests[i].kind = "list" /\ requests[i].id = entry.id /\ requests[i].v = base
      BY <2>1 DEF BlockedEntry
    <3>2. i = 1
      BY <1>1, <2>1, <3>1 DEF IdsInUse
    <3> QED BY <3>1, <3>2
  <2>3. new \in Events /\ new.number = 1 /\ new.kind = "list" /\ new.v = base
    BY <1>3 DEF Event, Events, Positive
  <2>4. Append(<<>>, new) = <<new>>
    OBVIOUS
  <2>5. /\ <<new>> \in Seq(Events) /\ <<new>> # <<>> /\ Len(<<new>>) = 1
        /\ DOMAIN <<new>> = {1} /\ <<new>>[1] = new
    BY <2>3
  <2>6. /\ entry' \in Entries /\ entry'.id = entry.id /\ entry'.next = 2
        /\ ~entry'.blocked /\ entry'.events = <<new>>
    <3>1. entry' = [[entry EXCEPT !.events = <<new>>, !.next = 2] EXCEPT !.blocked = FALSE]
      BY <1>2, <1>5, <2>1, <2>2, <2>4 DEF WithEvent
    <3> DEFINE s == <<new>>
    <3>2. s \in Seq(Events)
      BY <2>5
    <3> DEFINE e == [entry EXCEPT !.events = s, !.next = 2]
    <3>3. entry' = [e EXCEPT !.blocked = FALSE]
      BY <3>1
    <3> HIDE DEF s
    <3>4. e \in Entries /\ e.id = entry.id /\ e.next = 2 /\ e.events = s
      <4>1. entry \in Entries /\ 2 \in Positive
        BY <2>1 DEF Positive
      <4> QED BY <3>2, <4>1 DEF Entries
    <3> HIDE DEF e
    <3>5. /\ entry' \in Entries /\ entry'.id = entry.id /\ entry'.next = 2
          /\ ~entry'.blocked /\ entry'.events = s
      BY <3>3, <3>4 DEF Entries
    <3> QED BY <3>5 DEF s
  <2> HIDE DEF new
  <2>7. \A i \in DOMAIN requests' :
          \E j \in DOMAIN requests : 1 < j /\ requests'[i] = requests[j]
    BY <1>1, <2>1, <2>6, TailKeeps
  <2>8. \A i \in DOMAIN requests' :
          /\ requests'[i].kind = "change" => requests'[i].v > base + entry'.next - 2
          /\ requests'[i].kind = "list" => requests'[i].id # entry'.id
    <3> TAKE i \in DOMAIN requests'
    <3>1. PICK j \in DOMAIN requests : 1 < j /\ requests'[i] = requests[j]
      BY <2>7
    <3>2. requests[j].kind = "change" => requests[j].v \in Nat /\ base < requests[j].v
      BY <1>1, <2>2, <3>1, RequestIs DEF QueueInOrder
    <3>3. requests[j].kind = "list" => requests[j].id # entry.id
      BY <1>1, <2>1, <3>1 DEF IdsInUse
    <3> QED BY <1>3, <2>6, <3>1, <3>2, <3>3
  <2>9. \A v \in base + entry'.next - 1 .. master :
          \E i \in DOMAIN requests' : requests'[i].kind = "change" /\ requests'[i].v = v
    <3> TAKE v \in base + entry'.next - 1 .. master
    <3>1. v \in r.v + 1 .. master
      BY <1>3, <2>2, <2>6
    <3>2. PICK i \in DOMAIN requests : 1 < i /\ requests[i].kind = "change" /\ requests[i].v = v
      BY <1>1, <3>1 DEF QueueInOrder
    <3>3. i # 1
      BY <3>2
    <3>4. i - 1 \in DOMAIN requests' /\ requests'[i - 1] = requests[i]
      BY <1>1, <2>1, <2>6, <3>3, TailKeeps
    <3> QED BY <3>2, <3>4
  <2>10. OpenEntry(base)'
    <3>1. Numbered(entry'.events) /\ entry'.events[1].number + Len(entry'.events) = entry'.next
      BY <2>3, <2>5, <2>6 DEF Numbered
    <3>2. \A i \in DOMAIN entry'.events :
            IsEvent(entry'.events[i], base, master') /\ entry'.events[i].kind # "timeout"
      BY <2>3, <2>5, <2>6 DEF IsEvent
    <3>3. entry'.next > 1 /\ base + entry'.next <= master + 2
      BY <1>3, <2>6
    <3> QED BY <1>1, <2>6, <2>8, <2>9, <3>1, <3>2, <3>3 DEF OpenEntry
  <2>11. ASSUME ~client.needRegister PROVE Keeps'
    <3>1. Waits /\ client.nextEvent \in Nat \ {0}
      BY <2>1, <2>11 DEF BaseInv, RegisteredInv, Types, Clients, Positive
    <3>2. \A i \in DOMAIN requests' :
            requests'[i].kind = "ack" => requests'[i].id # entry.id
      BY <1>1, <1>5, <2>1, <2>7, <3>1 DEF Waits
    <3>3. entry'.events # <<>> /\ entry'.events[1].number <= client.nextEvent
      BY <2>3, <2>5, <2>6, <3>1
    <3> QED BY <1>1, <2>6, <3>2, <3>3 DEF Keeps
  <2> QED BY <2>1, <2>6, <2>10, <2>11 DEF Processed
<1> QED BY <1>4, <1>5

\* An acknowledgement frees events, but none that the client waits for.
LEMMA AckProcessed ==
  ASSUME IInv, ProcessRequest, NEW base \in 0 .. master, BaseInv(base),
         requests[1].kind = "ack"
  PROVE  Processed(base)
<1> USE DEF IInv, IsRest
<1> DEFINE r == requests[1]
           left == Purged(entry.events, r.number)
<1>1. /\ requests # <<>> /\ requests' = Tail(requests)
      /\ UNCHANGED <<master, freeIds, queued, toClient, client, mirror>>
      /\ 1 \in DOMAIN requests /\ Head(requests) = r
  BY TailIs DEF ProcessRequest, Types
<1>2. entry' = IF IsFor(r) THEN [entry EXCEPT !.events = left, !.busy = FALSE] ELSE entry
  BY <1>1 DEF ProcessRequest
<1>3. base \in Nat /\ master \in Nat /\ r.number \in Nat /\ r.number + 1 \in Positive
  BY <1>1, RequestIs DEF Types, Positive
<1>4. CASE ~IsFor(r)
  BY <1>1, <1>2, <1>4, UntouchedByRequest
<1>5. CASE IsFor(r)
  <2>1. entry # None /\ entry \in Entries /\ entry.id = r.id /\ entry.events \in Seq(Events)
        /\ entry.next \in Nat \ {0} /\ entry.blocked \in BOOLEAN
    BY <1>5 DEF IsFor, Types, Entries, Positive
  <2>2. Numbered(entry.events)
    BY <2>1, EmptySeq DEF BaseInv, BlockedEntry, OpenEntry, Numbered
  <2>3. left = Since(entry.events, r.number + 1)
    BY DEF Purged
  <2> HIDE DEF left
  <2>4. IsRest(left, entry.events, r.number + 1)
    BY <1>3, <2>1, <2>2, <2>3, SinceIs
  <2>5. /\ entry' \in Entries /\ entry'.id = entry.id /\ entry'.next = entry.next
        /\ entry'.blocked = entry.blocked /\ entry'.events = left
    BY <1>2, <1>5, <2>1, <2>4 DEF Entries
  <2>6. \A i \in DOMAIN requests' :
          /\ 1 < i + 1 /\ i + 1 \in DOMAIN requests /\ requests'[i] = requests[i + 1]
          /\ i \in Nat
    <3>1. requests' \in Seq(Requests)
      BY <1>1, <2>1, <2>5, TailKeeps
    <3> QED BY <1>1, <2>1, <2>5, <3>1, TailKeeps, LenProperties
  <2>7. \A i \in DOMAIN requests :
          i = 1 \/ (i - 1 \in DOMAIN requests' /\ requests'[i - 1] = requests[i])
    BY <1>1, <2>1, <2>5, TailKeeps
  <2>8. CASE entry.blocked
    <3>1. BlockedEntry(base) /\ left = <<>>
      BY <2>1, <2>4, <2>8 DEF BaseInv, BlockedEntry
    <3>2. BlockedEntry(base)'
      BY <2>5, <2>7, <3>1 DEF BlockedEntry
    <3>3. ASSUME ~client.needRegister PROVE Waits'
      <4>1. Waits
        BY <2>1, <2>8, <3>3 DEF BaseInv, RegisteredInv
      <4> SUFFICES ASSUME NEW i \in DOMAIN requests', NEW j \in DOMAIN requests', i < j,
                          requests'[i].kind = "list", requests'[i].id = entry.id,
                          requests'[j].kind = "ack"
                   PROVE  requests'[j].id # entry.id
        BY <1>1, <2>5, <4>1 DEF Waits, IsLate
      <4>2. /\ i + 1 < j + 1 /\ i + 1 \in DOMAIN requests /\ j + 1 \in DOMAIN requests
            /\ requests'[i] = requests[i + 1] /\ requests'[j] = requests[j + 1]
        BY <2>6
      <4> QED BY <4>1, <4>2 DEF Waits
    <3> QED BY <2>1, <2>5, <2>8, <3>2, <3>3 DEF Processed
  <2>9. CASE ~entry.blocked
    <3>1. OpenEntry(base)
      BY <2>1, <2>9 DEF BaseInv
    <3>2. left # <<>> => left[1].number + Len(left) = entry.next
      BY <2>4, <3>1 DEF OpenEntry
    <3>3. \A i \in DOMAIN left : IsEvent(left[i], base, master) /\ left[i].kind # "timeout"
      <4> TAKE i \in DOMAIN left
      <4>1. left # <<>>
        BY EmptySeq
      <4>2. PICK j \in DOMAIN entry.events : left[i] = entry.events[j]
        BY <2>4, <4>1
      <4> QED BY <3>1, <4>2 DEF OpenEntry
    <3>4. \A i \in DOMAIN requests' :
            /\ requests'[i].kind = "change" => requests'[i].v > base + entry.next - 2
            /\ requests'[i].kind = "list" => requests'[i].id # entry.id
      BY <2>6, <3>1 DEF OpenEntry
    <3>5. \A v \in base + entry.next - 1 .. master :
            \E i \in DOMAIN requests' : requests'[i].kind = "change" /\ requests'[i].v = v
      <4> TAKE v \in base + entry.next - 1 .. master
      <4>1. PICK i \in DOMAIN requests : requests[i].kind = "change" /\ requests[i].v = v
        BY <3>1 DEF OpenEntry
      <4>2. i # 1
        BY <4>1
      <4> QED BY <2>7, <4>1, <4>2
    <3>6. OpenEntry(base)'
      BY <1>1, <2>4, <2>5, <3>1, <3>2, <3>3, <3>4, <3>5 DEF OpenEntry
    <3>7. ASSUME ~client.needRegister PROVE Keeps'
      <4>1. Keeps /\ client.nextEvent \in Nat /\ entry.id = client.id
        BY <2>1, <2>9, <3>7 DEF BaseInv, RegisteredInv, Types, Clients, Positive
      <4>2. r.number < client.nextEvent
        BY <1>1, <2>1, <4>1 DEF Keeps
      <4>3. left = <<>> => entry.next <= client.nextEvent
        <5> SUFFICES ASSUME left = <<>>, entry.events # <<>>
                     PROVE  entry.next <= client.nextEvent
          BY <4>1 DEF Keeps
        <5>1. entry.next <= r.number + 1
          BY <2>4, <3>1 DEF OpenEntry
        <5> QED BY <1>3, <2>1, <4>1, <4>2, <5>1
      <4>4. left # <<>> => left[1].number <= client.nextEvent
        BY <1>3, <2>4, <4>1, <4>2 DEF Keeps
      <4> QED BY <1>1, <2>5, <2>6, <4>1, <4>3, <4>4 DEF Keeps
    <3> QED BY <2>1, <2>5, <2>9, <3>6, <3>7 DEF Processed
  <2> QED BY <2>1, <2>8, <2>9
<1> QED BY <1>4, <1>5

LEMMA ProcessRequestStep ==
  ASSUME IInv, ProcessRequest
  PROVE  IInv' /\ ListStays
<1> USE DEF IInv
<1>1. PICK base \in 0 .. master : BaseInv(base)
  OBVIOUS
<1>2. /\ requests # <<>> /\ requests' = Tail(requests) /\ 1 \in DOMAIN requests
      /\ UNCHANGED <<master, freeIds, queued, toClient, client, mirror>>
  BY TailIs DEF ProcessRequest, Types
<1>3. Processed(base)
  <2>1. requests[1].kind \in {"change", "list", "ack"}
    BY <1>2, RequestIs DEF Requests, ChangeRequests, ListRequests, AckRequests
  <2> QED BY <1>1, <2>1, ChangeProcessed, ListProcessed, AckProcessed
<1>4. requests' \in Seq(Requests) /\ QueueInOrder' /\ IdsInUse'
  BY <1>2, <1>3, TailKeeps DEF Processed
<1>5. Types' /\ MirrorInv' /\ (client'.needRegister => UnregisteredInv')
  BY <1>2, <1>3, <1>4 DEF Processed, Types, MirrorInv, UnregisteredInv, IsLate
<1>6. BaseInv(base)'
  <2>1. Mirrors(base) => Mirrors(base)'
    BY <1>2 DEF Mirrors, IsLate
  <2> QED BY <1>1, <1>2, <1>3, <2>1 DEF Processed, BaseInv, RegisteredInv
<1> QED BY <1>2, <1>4, <1>5, <1>6 DEF ListStays

\* A message of this registration reaches the connection.
LEMMA DeliverKeeps ==
  ASSUME Types, StaleLists = FALSE, client.needRegister => UnregisteredInv,
         NEW base \in 0 .. master,
         NEW events \in Seq(Events), IsMessage(events, base, master),
         Deliver(events), UNCHANGED <<master, client, mirror>>
  PROVE  /\ toClient' \in Seq(Seq(Events))
         /\ client.needRegister => UnregisteredInv'
         /\ Mirrors(base) => Mirrors(base)'
         /\ toClient # <<>> => toClient'[1] = toClient[1]
<1>1. /\ toClient' \in Seq(Seq(Events)) /\ toClient' # <<>>
      /\ \A i \in DOMAIN toClient : toClient'[i] = toClient[i]
      /\ \A i \in DOMAIN toClient' : i \in DOMAIN toClient \/ toClient'[i] = events
  <2>1. /\ toClient' \in Seq(Seq(Events)) /\ toClient' # <<>>
        /\ Len(toClient) \in Nat
        /\ DOMAIN toClient = 1 .. Len(toClient)
        /\ DOMAIN toClient' = 1 .. Len(toClient) + 1
        /\ \A i \in DOMAIN toClient : toClient'[i] = toClient[i]
        /\ toClient'[Len(toClient) + 1] = events
    BY AppendIs DEF Deliver, Types
  <2> QED BY <2>1
<1>2. toClient # <<>> => 1 \in DOMAIN toClient
  BY TailIs DEF Types
<1>3. client.needRegister => UnregisteredInv'
  <2> SUFFICES ASSUME client.needRegister PROVE UnregisteredInv'
    OBVIOUS
  <2>1. events # <<>> /\ Head(events) = events[1] /\ events[1] \in Events
    BY TailIs DEF IsMessage
  <2>2. events[1].number \in Nat \ {0} /\ events[1].number # 1
    BY <2>1 DEF Deliver, Events, Positive
  <2>3. IsLate(events)
    BY <2>1, <2>2 DEF IsLate
  <2> QED BY <1>1, <2>3 DEF UnregisteredInv, IsLate
<1>4. Mirrors(base) => Mirrors(base)'
  <2>1. (\A i \in DOMAIN toClient : IsMessage(toClient[i], base, master))
          => \A i \in DOMAIN toClient' : IsMessage(toClient'[i], base, master)
    BY <1>1
  <2>2. toClient # <<>> /\ IsLate(toClient[1]) => toClient' # <<>> /\ IsLate(toClient'[1])
    BY <1>1, <1>2
  <2> QED BY <2>1, <2>2 DEF Mirrors, IsLate
<1> QED BY <1>1, <1>2, <1>3, <1>4

\* The events that are sent are those of the entry.
LEMMA SendEventsStep ==
  ASSUME StaleLists = FALSE, IInv, SendEvents
  PROVE  IInv' /\ ListStays
<1> USE DEF IInv
<1>1. PICK base \in 0 .. master : BaseInv(base)
  OBVIOUS
<1>2. /\ entry # None /\ entry.events # <<>> /\ Deliver(entry.events)
      /\ entry' = [entry EXCEPT !.busy = TRUE]
      /\ UNCHANGED <<master, requests, freeIds, queued, client, mirror>>
  BY DEF SendEvents
<1>3. entry \in Entries /\ entry.events \in Seq(Events) /\ ~entry.blocked /\ OpenEntry(base)
  BY <1>1, <1>2 DEF Types, Entries, BaseInv, BlockedEntry
<1>4. /\ entry' \in Entries /\ entry'.id = entry.id /\ entry'.blocked = entry.blocked
      /\ entry'.next = entry.next /\ entry'.events = entry.events
  BY <1>2, <1>3 DEF Entries
<1>5. IsMessage(entry.events, base, master)
  BY <1>2, <1>3 DEF OpenEntry, IsMessage
<1>6. /\ toClient' \in Seq(Seq(Events))
      /\ client.needRegister => UnregisteredInv'
      /\ Mirrors(base) => Mirrors(base)'
  BY <1>2, <1>3, <1>5, DeliverKeeps
<1>7. Types' /\ QueueInOrder' /\ IdsInUse' /\ MirrorInv'
  BY <1>2, <1>3, <1>4, <1>6 DEF Types, QueueInOrder, IdsInUse, MirrorInv
<1>8. OpenEntry(base)'
  BY <1>2, <1>3, <1>4 DEF OpenEntry
<1>9. ASSUME ~client.needRegister PROVE RegisteredInv(base)'
  <2>1. RegisteredInv(base) /\ Keeps
    BY <1>1, <1>2, <1>3, <1>9 DEF BaseInv, RegisteredInv
  <2>2. Keeps'
    BY <1>2, <1>4, <2>1 DEF Keeps
  <2> QED BY <1>2, <1>3, <1>4, <1>6, <2>1, <2>2 DEF RegisteredInv
<1>10. BaseInv(base)'
  BY <1>2, <1>3, <1>4, <1>8, <1>9 DEF BaseInv
<1> QED BY <1>2, <1>6, <1>7, <1>10 DEF ListStays

\* The entry goes, with its remaining events.
LEMMA AckTimeoutStep ==
  ASSUME StaleLists = FALSE, IInv, AckTimeout
  PROVE  IInv' /\ ListStays
<1> USE DEF IInv
<1>1. PICK base \in 0 .. master : BaseInv(base)
  OBVIOUS
<1>2. /\ entry # None /\ ~entry.blocked
      /\ UNCHANGED toClient \/ Deliver(WithEvent(entry, "timeout", 0).events)
      /\ entry' = None /\ freeIds' = freeIds \union {entry.id}
      /\ UNCHANGED <<master, requests, queued, client, mirror>>
  BY DEF AckTimeout
<1>3. entry \in Entries /\ entry.events \in Seq(Events) /\ OpenEntry(base)
      /\ entry.next \in Nat \ {0} /\ entry.id \in 1 .. MaxIds
  BY <1>1, <1>2 DEF Types, Entries, BaseInv, Positive
<1> DEFINE new == Event(entry.next, "timeout", 0)
           s == Append(entry.events, new)
<1>4. s = WithEvent(entry, "timeout", 0).events
  BY <1>3 DEF WithEvent, Entries
<1>5. s \in Seq(Events) /\ IsMessage(s, base, master)
  <2>1. new \in Events /\ new.number = entry.next /\ new.kind = "timeout"
    BY <1>3 DEF Event, Events, Positive
  <2>2. /\ Numbered(entry.events)
        /\ entry.events # <<>> => entry.events[1].number + Len(entry.events) = new.number
    BY <1>3, <2>1 DEF OpenEntry
  <2>3. IsGrown(s, entry.events, new)
    BY <1>3, <2>1, <2>2, MessageGrows
  <2> HIDE DEF new, s
  <2>4. IsEvent(new, base, master)
    BY <1>3, <2>1 DEF IsEvent, OpenEntry
  <2> QED BY <1>3, <2>1, <2>3, <2>4 DEF IsMessage, IsGrown, OpenEntry
<1> HIDE DEF s
<1>6. /\ toClient' \in Seq(Seq(Events))
      /\ client.needRegister => UnregisteredInv'
      /\ Mirrors(base) => Mirrors(base)'
  <2>1. CASE UNCHANGED toClient
    BY <1>2, <2>1 DEF Types, UnregisteredInv, Mirrors, IsLate
  <2>2. CASE Deliver(s)
    BY <1>2, <1>5, <2>2, DeliverKeeps
  <2> QED BY <1>2, <1>4, <2>1, <2>2
<1>7. Types' /\ QueueInOrder' /\ MirrorInv'
  <2>1. freeIds' \in SUBSET (1 .. MaxIds)
    BY <1>2, <1>3 DEF Types
  <2> QED BY <1>2, <1>6, <2>1 DEF Types, QueueInOrder, MirrorInv
<1>8. IdsInUse'
  BY <1>2, <1>3 DEF IdsInUse, OpenEntry
<1>9. BaseInv(base)'
  BY <1>1, <1>2, <1>6 DEF BaseInv, RegisteredInv
<1> QED BY <1>2, <1>6, <1>7, <1>8, <1>9 DEF ListStays

\* A client that is not registered has nothing of a registration to keep.
LEMMA UnregisteredKeeps ==
  ASSUME IInv, UNCHANGED <<master, freeIds, entry>>,
         NEW ack \in AckRequests,
         requests' = requests \/ requests' = Append(requests, ack),
         client' \in Clients, client'.needRegister, queued' \in Nat,
         client'.registering => client'.nextEvent = 1,
         toClient' = <<>> \/ (client.needRegister /\ UNCHANGED toClient),
         MirrorInv'
  PROVE  IInv'
<1> USE DEF IInv
<1>1. PICK base \in 0 .. master : BaseInv(base)
  OBVIOUS
<1>2. /\ requests' \in Seq(Requests) /\ QueueInOrder' /\ IdsInUse'
      /\ BlockedEntry(base) => BlockedEntry(base)'
      /\ OpenEntry(base) => OpenEntry(base)'
  <2>1. base \in Nat
    BY DEF Types
  <2> HIDE DEF IInv
  <2> QED BY <2>1, AnswerKeeps DEF IInv
<1>3. <<>> \in Seq(Seq(Events)) /\ DOMAIN <<>> = {}
  BY EmptySeq
<1>4. Types'
  BY <1>2, <1>3 DEF Types
<1>5. UnregisteredInv'
  BY <1>3 DEF UnregisteredInv, IsLate
<1>6. BaseInv(base)'
  BY <1>1, <1>2 DEF BaseInv
<1> QED BY <1>1, <1>2, <1>4, <1>5, <1>6

\* There is some acknowledgement.
LEMMA AcksExist ==
  ASSUME NEW id \in Nat, NEW number \in Nat
  PROVE  [kind |-> "ack", id |-> id, number |-> number] \in AckRequests
BY DEF AckRequests

LEMMA SendRegisterStep ==
  ASSUME IInv, SendRegister
  PROVE  IInv' /\ ListStays
<1>1. /\ client.needRegister /\ UNCHANGED <<master, requests, entry, freeIds, toClient, mirror>>
      /\ client' = [client EXCEPT !.registering = TRUE, !.nextEvent = 1]
      /\ queued' = queued + 1
  BY DEF SendRegister
<1>2. /\ client' \in Clients /\ client'.needRegister /\ client'.nextEvent = 1
      /\ queued' \in Nat /\ MirrorInv'
  <2>1. client \in Clients /\ queued \in Nat /\ 1 \in Positive
    BY DEF IInv, Types, Positive
  <2>2. client' \in Clients /\ client'.needRegister /\ client'.nextEvent = 1
    BY <1>1, <2>1 DEF Clients
  <2>3. MirrorInv'
    BY <1>1 DEF IInv, MirrorInv
  <2> QED BY <1>1, <2>1, <2>2, <2>3
<1>3. [kind |-> "ack", id |-> 0, number |-> 0] \in AckRequests
  BY AcksExist
<1>4. IInv'
  BY <1>1, <1>2, <1>3, UnregisteredKeeps
<1> QED BY <1>1, <1>4 DEF ListStays

\* The client gives up its registration.
LEMMA MarkedClient ==
  ASSUME Types, Mark4registration
  PROVE  client' \in Clients /\ client'.needRegister /\ ~client'.registering /\ toClient' = <<>>
BY DEF Types, Mark4registration, Clients

LEMMA GiveUpStep ==
  ASSUME IInv, GiveUp
  PROVE  IInv' /\ ListStays
<1>1. /\ Mark4registration /\ UNCHANGED <<master, requests, entry, freeIds, mirror>>
      /\ queued' \in Nat
  BY DEF GiveUp, IInv, Types
<1>2. client' \in Clients /\ client'.needRegister /\ ~client'.registering /\ toClient' = <<>>
  BY <1>1, MarkedClient DEF IInv
<1>3. [kind |-> "ack", id |-> 0, number |-> 0] \in AckRequests
  BY AcksExist
<1>4. MirrorInv'
  BY <1>1 DEF IInv, MirrorInv
<1>5. IInv'
  BY <1>1, <1>2, <1>3, <1>4, UnregisteredKeeps
<1> QED BY <1>1, <1>5 DEF ListStays

LEMMA TimeoutStep ==
  ASSUME IInv, Timeout
  PROVE  IInv' /\ ListStays
<1>1. /\ Mark4registration /\ UNCHANGED <<master, requests, entry, freeIds, queued, mirror>>
  BY DEF Timeout
<1>2. client' \in Clients /\ client'.needRegister /\ ~client'.registering /\ toClient' = <<>>
  BY <1>1, MarkedClient DEF IInv
<1>3. [kind |-> "ack", id |-> 0, number |-> 0] \in AckRequests
  BY AcksExist
<1>4. MirrorInv' /\ queued' \in Nat
  BY <1>1 DEF IInv, MirrorInv, Types
<1>5. IInv'
  BY <1>1, <1>2, <1>3, <1>4, UnregisteredKeeps
<1> QED BY <1>1, <1>5 DEF ListStays

\* What the client acknowledges.
LEMMA AcknowledgeIs ==
  ASSUME Types, NEW n \in Positive, Acknowledge(n) \/ UNCHANGED requests
  PROVE  \E ack \in AckRequests :
           /\ ack.id = client.id /\ ack.number = n - 1
           /\ requests' = requests \/ requests' = Append(requests, ack)
<1>1. n - 1 \in Nat /\ client.id \in Nat
  BY DEF Positive, Types, Clients
<1>2. [kind |-> "ack", id |-> client.id, number |-> n - 1] \in AckRequests
  BY <1>1, AcksExist
<1> QED BY <1>2 DEF Acknowledge

\* The message is dropped.
LEMMA ReceiveWrongStep ==
  ASSUME IInv, ReceiveWrong
  PROVE  IInv' /\ ListStays
<1>1. /\ Mark4registration /\ UNCHANGED <<master, entry, freeIds, queued, mirror>>
      /\ Acknowledge(client.nextEvent) \/ UNCHANGED requests
  BY DEF ReceiveWrong
<1>2. client' \in Clients /\ client'.needRegister /\ ~client'.registering /\ toClient' = <<>>
  BY <1>1, MarkedClient DEF IInv
<1>3. client.nextEvent \in Positive
  BY DEF IInv, Types, Clients
<1>4. PICK ack \in AckRequests : requests' = requests \/ requests' = Append(requests, ack)
  BY <1>1, <1>3, AcknowledgeIs DEF IInv
<1>5. MirrorInv' /\ queued' \in Nat
  BY <1>1 DEF IInv, MirrorInv, Types
<1>6. IInv'
  BY <1>1, <1>2, <1>4, <1>5, UnregisteredKeeps
<1> QED BY <1>1, <1>6 DEF ListStays

\* What is on the connection is gone.
LEMMA LoseConnectionStep ==
  ASSUME IInv, LoseConnection
  PROVE  IInv' /\ ListStays
<1> USE DEF IInv
<1>1. PICK base \in 0 .. master : BaseInv(base)
  OBVIOUS
<1>2. /\ toClient' = <<>>
      /\ UNCHANGED <<master, requests, entry, freeIds, queued, client, mirror>>
  BY DEF LoseConnection
<1>3. <<>> \in Seq(Seq(Events)) /\ DOMAIN <<>> = {}
  BY EmptySeq
<1>4. Types' /\ QueueInOrder' /\ IdsInUse' /\ MirrorInv'
  <2>1. Types'
    BY <1>2, <1>3 DEF Types
  <2>2. QueueInOrder'
    BY <1>2 DEF QueueInOrder
  <2> QED BY <1>2, <2>1, <2>2 DEF IdsInUse, MirrorInv
<1>5. client'.needRegister => UnregisteredInv'
  BY <1>2, <1>3 DEF UnregisteredInv
<1>6. entry # None => /\ BlockedEntry(base) => BlockedEntry(base)'
                      /\ OpenEntry(base) => OpenEntry(base)'
  BY <1>2 DEF BlockedEntry, OpenEntry
<1>7. ASSUME ~client.needRegister PROVE RegisteredInv(base)'
  <2>1. RegisteredInv(base)
    BY <1>1, <1>7 DEF BaseInv
  <2>2. Mirrors(base)'
    BY <1>2, <1>3, <2>1 DEF RegisteredInv, Mirrors
  <2>3. (Waits => Waits') /\ (Keeps => Keeps')
    BY <1>2 DEF Waits, Keeps
  <2> QED BY <1>2, <2>1, <2>2, <2>3 DEF RegisteredInv
<1>8. BaseInv(base)'
  BY <1>1, <1>2, <1>6, <1>7 DEF BaseInv
<1> QED BY <1>2, <1>4, <1>5, <1>8 DEF ListStays

\* What a registered client makes of a message with the right numbers: its events
\* go on where the mirror ended, and its entry is not blocked.
LEMMA MessageTaken ==
  ASSUME IInv, NEW base \in 0 .. master, BaseInv(base),
         ~client.needRegister, toClient # <<>>, RightNumbers(Head(toClient)),
         NEW s, s = Fresh(Head(toClient))
  PROVE  /\ s \in Seq(Events)
         /\ s # <<>> => /\ IsMessage(s, base, master) /\ s[1].number = client.nextEvent
                        /\ client.nextEvent > 1 =>
                             /\ base + s[1].number <= master + 2
                             /\ mirror = 1 .. base + s[1].number - 2
         /\ \A i \in DOMAIN toClient : IsMessage(toClient[i], base, master)
         /\ entry # None => ~entry.blocked
<1> USE DEF IInv
<1> DEFINE m == Head(toClient)
           n == client.nextEvent
<1>1. m = toClient[1] /\ m \in Seq(Events) /\ 1 \in DOMAIN toClient
  BY TailIs DEF Types
<1>2. n \in Positive /\ n \in Nat \ {0}
  BY DEF Types, Clients, Positive
<1>3. RegisteredInv(base) /\ Mirrors(base)
  BY DEF BaseInv, RegisteredInv
<1>4. n = 1 => ~IsLate(m)
  <2> SUFFICES ASSUME n = 1, IsLate(m) PROVE FALSE
    OBVIOUS
  <2>1. m # <<>> /\ Head(m) = m[1] /\ m[1] \in Events /\ m[1].number > 1
    BY <1>1, TailIs DEF IsLate
  <2>2. m[1].number <= n /\ m[1].number \in Nat
    BY <2>1 DEF RightNumbers, Events, Positive
  <2> QED BY <2>1, <2>2
<1>5. \A i \in DOMAIN toClient : IsMessage(toClient[i], base, master)
  BY <1>1, <1>3, <1>4 DEF Mirrors
<1>6. entry # None => ~entry.blocked
  BY <1>1, <1>3, <1>4 DEF RegisteredInv, Waits
<1>7. IsMessage(m, base, master) /\ m # <<>> /\ Numbered(m)
  BY <1>1, <1>5 DEF IsMessage
<1>8. Head(m) = m[1] /\ m[1] \in Events /\ m[1].number <= n
  BY <1>1, <1>7, TailIs DEF RightNumbers
<1> HIDE DEF m, n
<1>9. IsRest(s, m, n)
  <2>1. s = Since(m, n)
    BY DEF Fresh, m, n
  <2> QED BY <1>1, <1>2, <1>7, <2>1, SinceIs
<1>10. ASSUME s # <<>>
       PROVE  IsMessage(s, base, master) /\ s[1].number = n
  <2>1. s \in Seq(Events) /\ Numbered(s) /\ s[1].number = n
    BY <1>8, <1>9, <1>10 DEF IsRest
  <2>2. Len(s) \in Nat /\ DOMAIN s = 1 .. Len(s) /\ Len(m) \in Nat /\ DOMAIN m = 1 .. Len(m)
    BY <1>1, <2>1, LenProperties
  <2>3. ASSUME NEW i \in DOMAIN s
        PROVE  IsEvent(s[i], base, master) /\ (s[i].kind = "timeout" => i = Len(s))
    <3> DEFINE k == i + Len(m) - Len(s)
    <3>1. k \in DOMAIN m /\ s[i] = m[k]
      BY <1>9, <1>10 DEF IsRest
    <3>2. i \in Nat /\ (k = Len(m) => i = Len(s))
      BY <2>2
    <3> HIDE DEF k
    <3> QED BY <1>7, <3>1, <3>2 DEF IsMessage
  <2> QED BY <1>10, <2>1, <2>3 DEF IsMessage
<1>11. n > 1 => base + n <= master + 2 /\ mirror = 1 .. base + n - 2
  BY <1>3 DEF Mirrors, n
<1>12. s \in Seq(Events)
  BY <1>9 DEF IsRest
<1> QED BY <1>5, <1>6, <1>10, <1>11, <1>12 DEF n

\* The mirror stays, or it becomes the list as it was when the last event was made.
LEMMA MirrorGoesOn ==
  ASSUME IInv, NEW base \in 0 .. master, BaseInv(base),
         ~client.needRegister, toClient # <<>>, RightNumbers(Head(toClient)),
         NEW s, s = Fresh(Head(toClient)),
         mirror' = Applied(s, mirror), UNCHANGED master
  PROVE  /\ MirrorInv'
         /\ ListStays \/ List!Next
         /\ s = <<>> => mirror' = mirror
         /\ s # <<>> /\ s[Len(s)].kind # "timeout" =>
              /\ base + (client.nextEvent + Len(s)) <= master + 2
              /\ mirror' = 1 .. base + (client.nextEvent + Len(s)) - 2
<1> USE DEF IInv
<1> DEFINE n == client.nextEvent
<1>1. base \in Nat /\ master \in Nat /\ base <= master /\ n \in Nat \ {0}
  BY DEF Types, Clients, Positive
<1>2. /\ s \in Seq(Events)
      /\ s # <<>> => /\ IsMessage(s, base, master) /\ s[1].number = n
                     /\ n > 1 => /\ base + s[1].number <= master + 2
                                 /\ mirror = 1 .. base + s[1].number - 2
  BY MessageTaken
<1>3. CASE s = <<>>
  <2>1. DOMAIN s = {}
    BY <1>3
  <2>2. mirror' = mirror
    BY <2>1 DEF Applied
  <2> QED BY <1>3, <2>2 DEF MirrorInv, ListStays
<1>4. CASE s # <<>>
  <2> DEFINE last == base + s[1].number + Len(s)
                     - (IF s[Len(s)].kind = "timeout" THEN 3 ELSE 2)
  <2>1. Len(s) \in Nat \ {0} /\ 1 \in DOMAIN s /\ DOMAIN s = 1 .. Len(s)
    BY <1>2, <1>4, LenProperties, EmptySeq
  <2>2. last \in 0 .. master /\ mirror' = 1 .. last
    <3>1. /\ IsMessage(s, base, master)
          /\ s[1].number > 1 => /\ base + s[1].number <= master + 2
                                /\ mirror = 1 .. base + s[1].number - 2
      BY <1>2, <1>4
    <3>2. ASSUME NEW l,
                 l = base + s[1].number + Len(s)
                     - (IF s[Len(s)].kind = "timeout" THEN 3 ELSE 2)
          PROVE  l \in 0 .. master /\ Applied(s, mirror) = 1 .. l
      <4>1. base \in Nat /\ master \in Nat /\ base <= master /\ s \in Seq(Events)
        BY <1>1, <1>2
      <4> HIDE DEF last, n
      <4> QED BY <3>1, <3>2, <4>1, AppliedIs
    <3>3. last \in 0 .. master /\ Applied(s, mirror) = 1 .. last
      BY <3>2
    <3> QED BY <3>3
  <2>3. last = base + n + Len(s) - (IF s[Len(s)].kind = "timeout" THEN 3 ELSE 2)
    BY <1>2, <1>4
  <2> HIDE DEF last
  <2>4. mirror \subseteq 1 .. last
    <3>1. CASE n > 1
      <4>1. mirror = 1 .. base + n - 2
        BY <1>2, <1>4, <3>1
      <4> DEFINE l == Len(s)
                 more == IF s[Len(s)].kind = "timeout" THEN 3 ELSE 2
      <4>2. l \in Nat \ {0} /\ more \in {2, 3} /\ last = base + n + l - more
        BY <2>1, <2>3
      <4> HIDE DEF l, more, n
      <4>3. last >= base + n - 2
        BY <1>1, <4>2
      <4> QED BY <1>1, <2>2, <4>1, <4>3 DEF n
    <3>2. CASE n = 1
      <4>1. mirror \subseteq 1 .. base
        BY <3>2 DEF BaseInv, RegisteredInv, Mirrors
      <4>2. s[1].kind # "timeout"
        BY <1>2, <1>4, <2>1, <3>2 DEF IsMessage, IsEvent
      <4>3. last >= base
        BY <1>1, <2>1, <2>3, <3>2, <4>2
      <4> QED BY <1>1, <2>2, <4>1, <4>3
    <3> QED BY <1>1, <3>1, <3>2
  <2>5. List!Update(last) /\ last \in 0 .. master
    BY <2>2, <2>4 DEF List!Update
  <2>6. List!Next
    BY <2>5 DEF List!Next
  <2>7. MirrorInv'
    BY <2>2 DEF MirrorInv
  <2>8. s[Len(s)].kind # "timeout" => last = base + (n + Len(s)) - 2
    BY <1>1, <2>1, <2>3
  <2>9. base + (n + Len(s)) - 2 \in 0 .. master => base + (n + Len(s)) <= master + 2
    BY <1>1, <2>1
  <2> QED BY <1>4, <2>2, <2>6, <2>7, <2>8, <2>9
<1> QED BY <1>3, <1>4

\* The client takes a message.
LEMMA ReceiveStep ==
  ASSUME IInv, Receive
  PROVE  IInv' /\ (ListStays \/ List!Next)
<1> USE DEF IInv
<1> DEFINE s == Fresh(Head(toClient))
           n == client.nextEvent
<1>1. PICK base \in 0 .. master : BaseInv(base)
  OBVIOUS
<1>2. /\ ~client.needRegister /\ toClient # <<>> /\ RightNumbers(Head(toClient))
      /\ mirror' = Applied(s, mirror)
      /\ ~ \E i \in DOMAIN s : s[i].kind = "timeout"
      /\ client' = [client EXCEPT !.nextEvent = n + Len(s)]
      /\ toClient' = Tail(toClient)
      /\ Acknowledge(client'.nextEvent) \/ UNCHANGED requests
      /\ UNCHANGED <<master, entry, freeIds, queued>>
  BY DEF Receive, Expected
<1>3. /\ base \in Nat /\ master \in Nat /\ n \in Nat \ {0}
      /\ RegisteredInv(base)
  BY <1>1, <1>2 DEF Types, Clients, Positive, BaseInv
<1>4. /\ s \in Seq(Events)
      /\ s # <<>> => /\ IsMessage(s, base, master) /\ s[1].number = n
      /\ \A i \in DOMAIN toClient : IsMessage(toClient[i], base, master)
      /\ entry # None => ~entry.blocked
  BY <1>1, <1>2, MessageTaken
<1>5. /\ MirrorInv'
      /\ ListStays \/ List!Next
      /\ s = <<>> => mirror' = mirror
      /\ s # <<>> /\ s[Len(s)].kind # "timeout" =>
           /\ base + (n + Len(s)) <= master + 2
           /\ mirror' = 1 .. base + (n + Len(s)) - 2
  BY <1>1, <1>2, MirrorGoesOn
<1>6. /\ Len(s) \in Nat /\ DOMAIN s = 1 .. Len(s)
      /\ s = <<>> => Len(s) = 0
      /\ s # <<>> => Len(s) > 0
  BY <1>4, LenProperties, EmptySeq
<1>7. s # <<>> => s[Len(s)].kind # "timeout"
  BY <1>2, <1>6
<1> HIDE DEF s
<1>8. /\ client' \in Clients /\ client'.nextEvent = n + Len(s) /\ client'.id = client.id
      /\ ~client'.needRegister /\ ~client'.registering
      /\ client'.nextEvent \in Positive /\ client'.nextEvent >= n
  <2>1. n + Len(s) \in Positive /\ n + Len(s) >= n
    BY <1>3, <1>6 DEF Positive
  <2> QED BY <1>2, <1>3, <2>1 DEF Types, Clients, RegisteredInv
<1>9. PICK ack \in AckRequests :
        /\ ack.id = client.id /\ ack.number = client'.nextEvent - 1
        /\ requests' = requests \/ requests' = Append(requests, ack)
  <2>1. PICK k \in Positive : k = client'.nextEvent
    BY <1>8
  <2>2. Acknowledge(k) \/ UNCHANGED requests
    BY <1>2, <2>1
  <2>3. \E ack \in AckRequests :
          /\ ack.id = client.id /\ ack.number = k - 1
          /\ requests' = requests \/ requests' = Append(requests, ack)
    BY <2>2, AcknowledgeIs
  <2> QED BY <2>1, <2>3
<1>10. /\ requests' \in Seq(Requests) /\ QueueInOrder' /\ IdsInUse'
       /\ BlockedEntry(base) => BlockedEntry(base)'
       /\ OpenEntry(base) => OpenEntry(base)'
  <2> HIDE DEF IInv
  <2> QED BY <1>2, <1>3, <1>9, AnswerKeeps DEF IInv
<1>11. /\ toClient' \in Seq(Seq(Events))
       /\ \A i \in DOMAIN toClient' : IsMessage(toClient'[i], base, master)
  <2>1. /\ toClient' \in Seq(Seq(Events))
        /\ \A i \in DOMAIN toClient' : i + 1 \in DOMAIN toClient /\ toClient'[i] = toClient[i + 1]
    BY <1>2, TailIs DEF Types
  <2> QED BY <1>4, <2>1
<1>12. Types'
  BY <1>2, <1>8, <1>10, <1>11 DEF Types
<1>13. Mirrors(base)'
  <2>1. CASE s = <<>>
    <3>1. client'.nextEvent = n /\ mirror' = mirror
      BY <1>3, <1>5, <1>6, <1>8, <2>1
    <3> QED BY <1>2, <1>3, <1>11, <3>1 DEF RegisteredInv, Mirrors
  <2>2. CASE s # <<>>
    <3>1. client'.nextEvent > 1
      BY <1>3, <1>6, <1>8, <2>2
    <3>2. /\ base + client'.nextEvent <= master + 2
          /\ mirror' = 1 .. base + client'.nextEvent - 2
      <4>1. client'.nextEvent = n + Len(s)
        BY <1>8
      <4>2. /\ base + (n + Len(s)) <= master + 2
            /\ mirror' = 1 .. base + (n + Len(s)) - 2
        BY <1>5, <1>7, <2>2
      <4> QED BY <4>1, <4>2
    <3> QED BY <1>2, <1>8, <1>11, <3>1, <3>2 DEF Mirrors
  <2> QED BY <2>1, <2>2
<1>14. ASSUME entry # None PROVE Keeps' /\ entry.id = client.id
  <2>1. Keeps /\ entry.id = client.id /\ entry \in Entries
    BY <1>3, <1>4, <1>14 DEF RegisteredInv, Types
  <2>2. /\ entry.next \in Nat
        /\ entry.events # <<>> => entry.events[1].number \in Nat
    <3>1. entry.events \in Seq(Events) /\ entry.next \in Nat
      BY <2>1 DEF Entries, Positive
    <3>2. entry.events # <<>> => entry.events[1] \in Events
      BY <3>1, TailIs
    <3> QED BY <3>1, <3>2 DEF Events, Positive
  <2>3. \A i \in DOMAIN requests' :
          requests'[i].kind = "ack" /\ requests'[i].id = entry.id =>
            requests'[i].number < client'.nextEvent
    <3> SUFFICES ASSUME NEW i \in DOMAIN requests',
                        requests'[i].kind = "ack", requests'[i].id = entry.id
                 PROVE  requests'[i].number < client'.nextEvent
      OBVIOUS
    <3>1. (i \in DOMAIN requests /\ requests'[i] = requests[i]) \/ requests'[i] = ack
      <4>1. CASE requests' = requests
        BY <4>1
      <4>2. CASE requests' = Append(requests, ack)
        <5>1. ack \in Requests
          BY DEF Requests
        <5> QED BY <4>2, <5>1, AppendIs DEF Types
      <4> QED BY <1>9, <4>1, <4>2
    <3>2. CASE i \in DOMAIN requests /\ requests'[i] = requests[i]
      <4>1. requests[i].number < n /\ requests[i].number \in Nat
        BY <2>1, <3>2, RequestIs DEF Keeps
      <4> QED BY <1>3, <1>6, <1>8, <3>2, <4>1
    <3>3. CASE requests'[i] = ack
      BY <1>8, <1>9, <3>3 DEF Positive
    <3> QED BY <3>1, <3>2, <3>3
  <2>4. /\ entry.events = <<>> => entry.next <= client'.nextEvent
        /\ entry.events # <<>> => entry.events[1].number <= client'.nextEvent
    BY <1>3, <1>6, <1>8, <2>1, <2>2 DEF Keeps
  <2> QED BY <1>2, <2>1, <2>3, <2>4 DEF Keeps
<1>15. RegisteredInv(base)'
  BY <1>2, <1>3, <1>4, <1>8, <1>13, <1>14 DEF RegisteredInv
<1>16. BaseInv(base)'
  BY <1>1, <1>2, <1>8, <1>10, <1>15 DEF BaseInv
<1> QED BY <1>1, <1>2, <1>5, <1>8, <1>10, <1>12, <1>16

\* The client takes what it missed and registers again.
LEMMA ReceiveTimeoutStep ==
  ASSUME IInv, ReceiveTimeout
  PROVE  IInv' /\ (ListStays \/ List!Next)
<1> DEFINE s == Fresh(Head(toClient))
           n == client.nextEvent
<1>1. PICK base \in 0 .. master : BaseInv(base)
  BY DEF IInv
<1>2. /\ ~client.needRegister /\ toClient # <<>> /\ RightNumbers(Head(toClient))
      /\ mirror' = Applied(s, mirror) /\ Mark4registration
      /\ Acknowledge(n + Len(s)) \/ UNCHANGED requests
      /\ UNCHANGED <<master, entry, freeIds, queued>>
  BY DEF ReceiveTimeout
<1>3. s \in Seq(Events)
  BY <1>1, <1>2, MessageTaken
<1>4. MirrorInv' /\ (ListStays \/ List!Next)
  BY <1>1, <1>2, MirrorGoesOn
<1> HIDE DEF s
<1>5. client' \in Clients /\ client'.needRegister /\ ~client'.registering /\ toClient' = <<>>
  BY <1>2, MarkedClient DEF IInv
<1>6. n + Len(s) \in Positive
  <2>1. n \in Nat \ {0} /\ Len(s) \in Nat
    BY <1>3, LenProperties DEF IInv, Types, Clients, Positive
  <2> QED BY <2>1 DEF Positive
<1>7. PICK ack \in AckRequests : requests' = requests \/ requests' = Append(requests, ack)
  BY <1>2, <1>6, AcknowledgeIs DEF IInv
<1>8. queued' \in Nat
  BY <1>2 DEF IInv, Types
<1>9. IInv'
  BY <1>2, <1>4, <1>5, <1>7, <1>8, UnregisteredKeeps
<1> QED BY <1>4, <1>9

-----------------------------------------------------------------------------
(* The theorems                                                             *)

\* At the start there is no registration.
LEMMA Starts == Init => IInv /\ List!Init
<1> SUFFICES ASSUME Init PROVE IInv /\ List!Init
  OBVIOUS
<1>1. \A S : <<>> \in Seq(S) /\ DOMAIN <<>> = {}
  BY EmptySeq
<1>2. Types
  BY <1>1, BoundsAssumption DEF Init, Types, Clients, Positive
<1>3. QueueInOrder /\ IdsInUse
  BY <1>1 DEF Init, QueueInOrder, IdsInUse
<1>4. MirrorInv
  <2>1. 1 .. 0 = {}
    OBVIOUS
  <2> QED BY <2>1 DEF Init, MirrorInv
<1>5. UnregisteredInv
  BY <1>1 DEF Init, UnregisteredInv
<1>6. 0 \in 0 .. master /\ BaseInv(0)
  BY DEF Init, BaseInv
<1>7. List!Init
  BY DEF Init, List!Init
<1> QED BY <1>2, <1>3, <1>4, <1>5, <1>6, <1>7 DEF IInv

LEMMA Stutters ==
  ASSUME IInv, UNCHANGED vars
  PROVE  IInv' /\ ListStays
<1> USE DEF vars
<1>1. Types' /\ QueueInOrder' /\ IdsInUse' /\ MirrorInv'
  BY DEF IInv, Types, QueueInOrder, IdsInUse, MirrorInv
<1>2. client'.needRegister => UnregisteredInv'
  BY DEF IInv, UnregisteredInv, IsLate
<1>3. \E base \in 0 .. master' : BaseInv(base)'
  BY DEF IInv, BaseInv, BlockedEntry, OpenEntry, RegisteredInv, Mirrors, Waits, Keeps, IsLate
<1> QED BY <1>1, <1>2, <1>3 DEF IInv, ListStays

\* One step: the invariant is kept, the mirror stays or moves to a later state
\* of the list.
LEMMA Steps ==
  ASSUME StaleLists = FALSE, IInv, [Next]_vars
  PROVE  IInv' /\ [List!Next]_(List!vars)
<1>1. CASE Change
  BY <1>1, ChangeStep DEF List!Next
<1>2. ListStays => [List!Next]_(List!vars)
  BY DEF ListStays, List!vars
<1>3. CASE Register
  BY <1>2, <1>3, RegisterStep
<1>4. CASE ProcessRequest
  BY <1>2, <1>4, ProcessRequestStep
<1>5. CASE SendEvents
  BY <1>2, <1>5, SendEventsStep
<1>6. CASE AckTimeout
  BY <1>2, <1>6, AckTimeoutStep
<1>7. CASE SendRegister
  BY <1>2, <1>7, SendRegisterStep
<1>8. CASE GiveUp
  BY <1>2, <1>8, GiveUpStep
<1>9. CASE Receive
  BY <1>2, <1>9, ReceiveStep
<1>10. CASE ReceiveTimeout
  BY <1>2, <1>10, ReceiveTimeoutStep
<1>11. CASE ReceiveWrong
  BY <1>2, <1>11, ReceiveWrongStep
<1>12. CASE Timeout
  BY <1>2, <1>12, TimeoutStep
<1>13. CASE LoseConnection
  BY <1>2, <1>13, LoseConnectionStep
<1>14. CASE UNCHANGED vars
  BY <1>2, <1>14, Stutters
<1> QED BY <1>1, <1>3, <1>4, <1>5, <1>6, <1>7, <1>8, <1>9, <1>10, <1>11, <1>12, <1>13,
           <1>14 DEF Next

\* The events that the client has not seen lie between the first one that is kept
\* and the next one.
LEMMA NothingIsMissing == IInv => UnseenEventsAreKept
<1> SUFFICES ASSUME IInv, entry # None, ~client.needRegister, entry.id = client.id,
                    NEW n \in client.nextEvent .. entry.next - 1
             PROVE  \E i \in DOMAIN entry.events : entry.events[i].number = n
  BY DEF UnseenEventsAreKept
<1>1. PICK base \in 0 .. master : BaseInv(base)
  BY DEF IInv
<1>2. /\ entry \in Entries /\ entry.next \in Nat /\ entry.events \in Seq(Events)
      /\ client.nextEvent \in Nat /\ entry.blocked \in BOOLEAN
  BY DEF IInv, Types, Entries, Clients, Positive
<1>3. ~entry.blocked
  <2> SUFFICES ASSUME entry.blocked PROVE FALSE
    BY <1>2
  <2>1. entry.next = 1 /\ client.nextEvent = 1
    BY <1>1 DEF BaseInv, BlockedEntry, RegisteredInv, Waits
  <2> QED BY <2>1
<1>4. OpenEntry(base) /\ Keeps
  BY <1>1, <1>3 DEF BaseInv, RegisteredInv
<1>5. entry.events # <<>>
  BY <1>2, <1>4 DEF Keeps
<1>6. /\ Len(entry.events) \in Nat /\ DOMAIN entry.events = 1 .. Len(entry.events)
      /\ entry.events[1].number \in Nat
  <2>1. entry.events[1] \in Events
    BY <1>2, <1>5, TailIs
  <2> QED BY <1>2, <2>1, LenProperties DEF Events, Positive
<1>7. \E i \in DOMAIN entry.events : n = entry.events[1].number + i - 1
  <2> DEFINE f == entry.events[1].number
             l == Len(entry.events)
  <2>1. /\ entry.events[1].number <= client.nextEvent
        /\ entry.events[1].number + Len(entry.events) = entry.next
    BY <1>4, <1>5 DEF Keeps, OpenEntry
  <2>2. f \in Nat /\ l \in Nat /\ n \in Int /\ f <= n /\ n < f + l
    BY <1>2, <1>6, <2>1
  <2>3. DOMAIN entry.events = 1 .. l
    BY <1>6
  <2> HIDE DEF f, l
  <2>4. n - f + 1 \in 1 .. l /\ n = f + (n - f + 1) - 1
    BY <2>2
  <2> QED BY <2>3, <2>4 DEF f
<1> QED BY <1>4, <1>7 DEF OpenEntry, Numbered

\* The invariant holds in every state.
THEOREM RegistrationsKeepTheirEvents ==
  ASSUME StaleLists = FALSE
  PROVE  Spec => []IInv
<1>1. Init => IInv
  BY Starts
<1>2. IInv /\ [Next]_vars => IInv'
  BY Steps
<1> QED BY <1>1, <1>2, PTL DEF Spec

\* Every event that a registered client has not mirrored can be sent again:
\* acknowledgements free only what this registration has seen (purge_event_list).
THEOREM UnseenEventsStay ==
  ASSUME StaleLists = FALSE
  PROVE  Spec => []UnseenEventsAreKept
<1>1. Spec => []IInv
  BY RegistrationsKeepTheirEvents
<1>2. IInv => UnseenEventsAreKept
  BY NothingIsMissing
<1> QED BY <1>1, <1>2, PTL

\* The mirror is always a state the list had and never goes back, whatever happens
\* to the messages, the acknowledgements and the registration.
THEOREM MirrorsTheList ==
  ASSUME StaleLists = FALSE
  PROVE  Spec => ImplementsMirroredList
<1>1. Spec => []IInv
  BY RegistrationsKeepTheirEvents
<1>2. Init => List!Init
  BY Starts
<1>3. IInv /\ [Next]_vars => [List!Next]_(List!vars)
  BY Steps
<1> QED BY <1>1, <1>2, <1>3, PTL DEF Spec, ImplementsMirroredList, List!Spec
=============================================================================
