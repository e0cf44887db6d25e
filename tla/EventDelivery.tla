---------------------------- MODULE EventDelivery ----------------------------
(***************************************************************************)
(* How a list of the qmaster reaches the mirror of an event client: the    *)
(* requests the workers leave for the event master, the event master       *)
(* thread that turns them into numbered events and sends them, the         *)
(* acknowledgements, and the registration of the client                    *)
(* (libs/evm/sge_event_master.c, libs/evc/sge_event_client.c and           *)
(* libs/mir/sge_mirror.c).                                                 *)
(*                                                                         *)
(* One client with a dynamic id has subscribed one list.  The n-th change  *)
(* of the list is the number n: the list is sent as the number of its last *)
(* change, a mirror is the set of changes it shows.  The list changes and  *)
(* is copied for a registration under LOCK_GLOBAL, and the requests of     *)
(* such a step are appended to the common queue before it is given up.     *)
(* The event master takes the queue in batches; where a batch ends depends *)
(* on nothing but when requests arrive, so it may send after each of them. *)
(* Acknowledgements are read in the order in which they are sent and only  *)
(* have an effect when the event master gets to them.  Empty messages,     *)
(* which are sent when there is nothing to tell, are left out.             *)
(***************************************************************************)
EXTENDS Naturals, Sequences, FiniteSetsExt

CONSTANTS
  MaxChanges,    \* bound: how often the list changes
  MaxTroubles,   \* bound: how often something goes wrong
  MaxIds,        \* dynamic ids: more than there can be registrations
  None,          \* no registered client
  StaleLists     \* the event master may send the first events of an old
                 \* registration while the client is registering again

ASSUME BoundsAssumption ==
  MaxChanges \in Nat /\ MaxTroubles \in Nat /\ MaxIds \in Nat \ {0}
ASSUME StaleListsAssumption == StaleLists \in BOOLEAN

VARIABLES
  master,      \* how often the list has changed
  requests,    \* Event_Master_Control.requests
  entry,       \* the element in Event_Control.clients, or None
  freeIds,     \* Event_Master_Control.client_ids
  queued,      \* registrations that wait for a worker
  toClient,    \* messages with events on their way
  connected,   \* the client's connection to the qmaster
  client,      \* the client's side of the registration (sge_evc_t)
  mirror,      \* what the client has mirrored
  troubles     \* how often something went wrong

vars == <<master, requests, entry, freeIds, queued, toClient, connected,
          client, mirror, troubles>>

\* Registrations get the lowest free id (allocate_new_dynamic_id).
Lowest(S) == CHOOSE i \in S : \A j \in S : i <= j

Event(number, kind, v) == [number |-> number, kind |-> kind, v |-> v]

Init ==
  /\ master = 0 /\ requests = <<>> /\ entry = None /\ freeIds = 1 .. MaxIds
  /\ queued = 0 /\ toClient = <<>> /\ connected = FALSE
  /\ client = [registering |-> FALSE, needRegister |-> TRUE, id |-> 0,
               nextEvent |-> 1]
  /\ mirror = {} /\ troubles = 0

\* Something goes wrong, unless it has an excuse.
Trouble(excuse) ==
  IF excuse THEN UNCHANGED troubles
  ELSE troubles < MaxTroubles /\ troubles' = troubles + 1

-----------------------------------------------------------------------------
\* A worker changes the list and issues the event for all clients
\* (sge_add_event, or the commit of the worker's transaction).
Change ==
  /\ master < MaxChanges
  /\ master' = master + 1
  /\ requests' = Append(requests, [kind |-> "change", v |-> master'])
  /\ UNCHANGED <<entry, freeIds, queued, toClient, connected, client, mirror,
                 troubles>>

\* Mutant: the changes after the registration are not held back.
NewEntry_Unblocked(id) ==
  [id |-> id, blocked |-> FALSE, next |-> 1, events |-> <<>>, busy |-> FALSE]

\* A client that has just been added: its events are blocked until it has got
\* the list (total_update, blockEvents).
NewEntry(id) ==
  [id |-> id, blocked |-> TRUE, next |-> 1, events |-> <<>>, busy |-> FALSE]

\* A worker registers the client (sge_add_event_client).  An entry with the
\* same address is removed first; as it is removed with the id of the request,
\* which is 0, its dynamic id is not given back.  The answer reaches the client
\* if it still waits for this registration.
Register ==
  /\ queued > 0
  /\ queued' = queued - 1
  /\ freeIds # {}
  /\ LET id == Lowest(freeIds)
     IN  /\ freeIds' = freeIds \ {id}
         /\ entry' = NewEntry(id)
         /\ requests' = Append(requests, [kind |-> "list", id |-> id, v |-> master])
         /\ client' = IF client.registering /\ connected /\ queued = 1
                      THEN [client EXCEPT !.registering = FALSE,
                                          !.needRegister = FALSE, !.id = id]
                      ELSE client
  /\ UNCHANGED <<master, toClient, connected, mirror, troubles>>

-----------------------------------------------------------------------------
\* add_list_event_direct: the event gets the next number.
WithEvent(e, kind, v) ==
  [e EXCEPT !.events = Append(@, Event(e.next, kind, v)), !.next = e.next + 1]

\* The events without those at the front that have a lower number.
Since(events, n) ==
  LET left == {i \in DOMAIN events : events[i].number >= n}
  IN  IF left = {} THEN <<>> ELSE SubSeq(events, Min(left), Len(events))

\* Mutant: an acknowledgement frees all events.
Purged_All(events, n) == <<>>

\* purge_event_list: the acknowledged events go, up to the first one that is not.
Purged(events, n) == Since(events, n + 1)

\* get_event_client.
IsFor(r) == entry # None /\ entry.id = r.id

\* The event master processes a request: an event for all clients goes to
\* those who have subscribed it and are not blocked, the list goes to its
\* client and unblocks it, an acknowledgement frees events and ends the time
\* in which the client is busy.
ProcessRequest ==
  /\ requests # <<>>
  /\ requests' = Tail(requests)
  /\ LET r == Head(requests)
     IN  entry' =
           CASE r.kind = "change" ->
                  IF entry # None /\ ~entry.blocked
                  THEN WithEvent(entry, "change", r.v) ELSE entry
             [] r.kind = "list" ->
                  IF IsFor(r)
                  THEN [WithEvent(entry, "list", r.v) EXCEPT !.blocked = FALSE]
                  ELSE entry
             [] r.kind = "ack" ->
                  IF IsFor(r)
                  THEN [entry EXCEPT !.events = Purged(entry.events, r.number),
                                     !.busy = FALSE]
                  ELSE entry
  /\ UNCHANGED <<master, freeIds, queued, toClient, connected, client, mirror,
                 troubles>>

\* A message reaches the client's connection.  If the client is about to
\* register again, this entry belongs to its old registration.
Deliver(events) ==
  /\ connected
  /\ client.needRegister => StaleLists \/ Head(events).number # 1
  /\ toClient' = Append(toClient, events)

\* sge_event_master_send_events.  The events stay until they are acknowledged;
\* while there is no connection they are kept for another try.
SendEvents ==
  /\ entry # None /\ ~entry.busy /\ entry.events # <<>>
  /\ Deliver(entry.events)
  /\ entry' = [entry EXCEPT !.busy = TRUE]
  /\ UNCHANGED <<master, requests, freeIds, queued, connected, client, mirror,
                 troubles>>

\* The events that were sent are not acknowledged, and nothing is on its way
\* that could change this.
Overdue ==
  /\ entry # None /\ entry.busy /\ toClient = <<>>
  /\ ~ \E i \in DOMAIN requests : requests[i].kind = "ack"

\* The client has not acknowledged anything for a long time: it gets the
\* remaining events together with ACK_TIMEOUT, also if it is busy, and its
\* entry is removed.
AckTimeout ==
  /\ entry # None /\ ~entry.blocked
  /\ Trouble(Overdue \/ ~connected)
  /\ \/ ~connected /\ UNCHANGED toClient
     \/ Deliver(WithEvent(entry, "timeout", 0).events)
  /\ entry' = None
  /\ freeIds' = freeIds \union {entry.id}
  /\ UNCHANGED <<master, requests, queued, connected, client, mirror>>

-----------------------------------------------------------------------------
\* The client sends a registration (ec2_get, ec2_register), which opens the
\* connection again.
SendRegister ==
  /\ client.needRegister /\ ~client.registering
  /\ client' = [client EXCEPT !.registering = TRUE, !.nextEvent = 1]
  /\ connected' = TRUE
  /\ queued' = queued + 1
  /\ UNCHANGED <<master, requests, entry, freeIds, toClient, mirror, troubles>>

\* ec2_mark4registration: the connection is closed, which drops what is on it.
Mark4registration ==
  /\ client' = [client EXCEPT !.registering = FALSE, !.needRegister = TRUE]
  /\ connected' = FALSE
  /\ toClient' = <<>>

\* The answer to the registration does not come.  The request may be lost, or
\* a worker gets to it later.
GiveUp ==
  /\ client.registering
  /\ Trouble(~connected)
  /\ Mark4registration
  /\ queued' = queued \/ (queued > 0 /\ queued' = queued - 1)
  /\ UNCHANGED <<master, requests, entry, freeIds, mirror>>

\* Leading events with numbers lower than expected get trashed.
Fresh(events) == Since(events, client.nextEvent)

\* ck_event_number: no event is missing.
RightNumbers(events) ==
  /\ Head(events).number <= client.nextEvent
  /\ \A i \in DOMAIN Fresh(events) :
       Fresh(events)[i].number = client.nextEvent + i - 1

\* sge_mirror_process_event_list: the list replaces the mirror, the changes after
\* it are added.
Applied(events, shown) ==
  LET lists == {i \in DOMAIN events : events[i].kind = "list"}
      added(first) == {events[i].v : i \in {k \in DOMAIN events :
                                              k >= first /\ events[k].kind = "change"}}
  IN  IF lists = {} THEN shown \union added(1)
      ELSE (1 .. events[Max(lists)].v) \union added(Max(lists))

\* The acknowledgement of everything below n gets to the event master.
Acknowledge(n) ==
  requests' = Append(requests, [kind |-> "ack", id |-> client.id, number |-> n - 1])

Expected(events) == client.nextEvent + Len(Fresh(events))

\* ec2_get and sge_mirror_process_events: the client takes a message, mirrors
\* the events it has not seen yet and acknowledges them.
Receive ==
  /\ ~client.needRegister /\ toClient # <<>>
  /\ RightNumbers(Head(toClient))
  /\ ~ \E i \in DOMAIN Fresh(Head(toClient)) : Fresh(Head(toClient))[i].kind = "timeout"
  /\ mirror' = Applied(Fresh(Head(toClient)), mirror)
  /\ client' = [client EXCEPT !.nextEvent = Expected(Head(toClient))]
  /\ toClient' = Tail(toClient)
  /\ \/ Acknowledge(client'.nextEvent) /\ Trouble(TRUE)
     \/ UNCHANGED requests /\ Trouble(FALSE)
  /\ UNCHANGED <<master, entry, freeIds, queued, connected>>

\* The last event is ACK_TIMEOUT: the events before it count, and the client
\* registers again.
ReceiveTimeout ==
  /\ ~client.needRegister /\ toClient # <<>>
  /\ RightNumbers(Head(toClient))
  /\ \E i \in DOMAIN Fresh(Head(toClient)) : Fresh(Head(toClient))[i].kind = "timeout"
  /\ mirror' = Applied(Fresh(Head(toClient)), mirror)
  /\ Mark4registration
  /\ \/ Acknowledge(client.nextEvent + Len(Fresh(Head(toClient))))
     \/ UNCHANGED requests
  /\ UNCHANGED <<master, entry, freeIds, queued, troubles>>

\* The numbers are wrong: the message is dropped and the client registers
\* again.  It acknowledges once more what it had before.
ReceiveWrong ==
  /\ ~client.needRegister /\ toClient # <<>>
  /\ ~RightNumbers(Head(toClient))
  /\ Mark4registration
  /\ Acknowledge(client.nextEvent) \/ UNCHANGED requests
  /\ UNCHANGED <<master, entry, freeIds, queued, mirror, troubles>>

\* Nothing came for a long time, or the connection is broken.
Timeout ==
  /\ ~client.needRegister /\ toClient = <<>>
  /\ Trouble(~connected \/ entry = None \/ entry.id # client.id)
  /\ Mark4registration
  /\ UNCHANGED <<master, requests, entry, freeIds, queued, mirror>>

\* The network loses the connection and what is on it.
LoseConnection ==
  /\ connected
  /\ Trouble(FALSE)
  /\ connected' = FALSE
  /\ toClient' = <<>>
  /\ UNCHANGED <<master, requests, entry, freeIds, queued, client, mirror>>

-----------------------------------------------------------------------------
Next ==
  \/ Change \/ Register
  \/ ProcessRequest \/ SendEvents \/ AckTimeout
  \/ SendRegister \/ GiveUp
  \/ Receive \/ ReceiveTimeout \/ ReceiveWrong \/ Timeout
  \/ LoseConnection

Spec == Init /\ [][Next]_vars

\* The threads of the qmaster and the client run when they can; a time out
\* ends when nothing else can happen.
Fairness ==
  /\ WF_vars(Register)
  /\ WF_vars(ProcessRequest) /\ WF_vars(SendEvents)
  /\ WF_vars(AckTimeout /\ Overdue)
  /\ WF_vars(SendRegister)
  /\ WF_vars(GiveUp /\ ~connected)
  /\ WF_vars(Receive) /\ WF_vars(ReceiveTimeout) /\ WF_vars(ReceiveWrong)
  /\ WF_vars(Timeout /\ troubles' = troubles)

FairSpec == Spec /\ Fairness

\* The mirror shows a state the list really had, and never an earlier one than
\* before: no change is lost, whatever happens to the messages, the
\* acknowledgements and the registration.
List == INSTANCE MirroredList
ImplementsMirroredList == List!Spec

\* Every event that the registered client has not mirrored yet is still in its
\* entry and can be sent again (purge_event_list removes acknowledged events
\* of this registration only).
UnseenEventsAreKept ==
  entry # None /\ ~client.needRegister /\ entry.id = client.id =>
    \A n \in client.nextEvent .. entry.next - 1 :
      \E i \in DOMAIN entry.events : entry.events[i].number = n

\* Every change reaches the mirror once the network lets it.
ChangesArrive == \A v \in 1 .. MaxChanges : v <= master ~> v \in mirror
=============================================================================
