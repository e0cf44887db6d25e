-------------------------- MODULE MCResourceSchedule --------------------------
(* ResourceSchedule with one consumable beside the slots, a license.          *)
EXTENDS ResourceSchedule

CONSTANTS license

MCGlobals == <<license>>
MCTotal == [r \in Resources |-> IF r \in Queues THEN 3 ELSE 2]

Serial(duration, needs) ==
  [parallel |-> FALSE, slots |-> 1, duration |-> duration, needs |-> needs]
Parallel(slots, duration, needs) ==
  [parallel |-> TRUE, slots |-> slots, duration |-> duration, needs |-> needs]
MCRequests ==
  {Serial(4, {}), Serial(Infinity, {license}), Parallel(2, 2, {license}),
   Parallel(1, Infinity, {})}

\* Always open, closed now and open later, open now and closed later, closed, and
\* closed for two reasons one after the other.
State(full, till) == [full |-> full, till |-> till]
MCCalendars ==
  {<<>>, <<State(TRUE, 5), State(FALSE, 0)>>, <<State(FALSE, 8), State(TRUE, 0)>>,
   <<State(TRUE, 0)>>, <<State(TRUE, 8), State(TRUE, 0)>>}
=============================================================================
