---------------------------- MODULE MirroredList ----------------------------
(***************************************************************************)
(* What the event master and the event client interface promise to a       *)
(* program that mirrors a list of the qmaster: the mirror is a state the   *)
(* list really had, and it only moves forward.  (Eventmirror in            *)
(* libs/mir/sge_mirror.c.)  Neither events nor messages appear here.       *)
(***************************************************************************)
EXTENDS Naturals

CONSTANT MaxChanges   \* bound: how often the list changes

VARIABLES
  master,   \* how many changes the list has seen
  mirror    \* the changes the mirror shows

vars == <<master, mirror>>

Init == master = 0 /\ mirror = {}

Change ==
  /\ master < MaxChanges
  /\ master' = master + 1
  /\ UNCHANGED mirror

\* The mirror catches up with the state after the first v changes.
Update(v) ==
  /\ mirror \subseteq 1 .. v
  /\ mirror' = 1 .. v
  /\ UNCHANGED master

Next == Change \/ \E v \in 0 .. master : Update(v)

Spec == Init /\ [][Next]_vars
=============================================================================
