--------------------------- MODULE MCJobDelivery ---------------------------
(* JobDelivery on a few interchangeable jobs and hosts.  The symmetry is    *)
(* used only for runs without liveness properties.                          *)
EXTENDS JobDelivery

Symmetry == Permutations(Hosts) \cup Permutations(Jobs)

\* What is kept of a list is what SelectSeq keeps of it.
ASSUME ChosenSelects ==
  \A n \in 0 .. 4 : \A entries \in [1 .. n -> RUStates] :
    DropSettled(entries) = SelectSeq(entries, IsKept)
=============================================================================
