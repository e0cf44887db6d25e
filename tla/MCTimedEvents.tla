---------------------------- MODULE MCTimedEvents ----------------------------
(* TimedEvents with one periodic event and two one time events, which are    *)
(* deleted one by one (te_delete_one_time_event) or together                 *)
(* (te_delete_all_one_time_events).                                          *)
EXTENDS TimedEvents

CONSTANTS periodic, resend, limit

MCRecurring == {periodic}
MCInterval == [e \in MCRecurring |-> 2]
MCSelections == {{resend}, {resend, limit}}
=============================================================================
