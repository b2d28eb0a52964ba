---------------------------- MODULE MCDurableRun ----------------------------
(***************************************************************************)
(* Model values for the runs over DurableRun: two transactional steps in   *)
(* segments of their own and a concurrent index build, which is always a   *)
(* plan of its own.                                                        *)
(***************************************************************************)
EXTENDS DurableRun, TLC

MCStep == 1..4
MCSegmentOf == [s \in MCStep |-> IF s <= 2 THEN 1 ELSE s]
MCAuto == {4}
MCPlans == {{1, 2, 3}, {4}}
MCSymmetry == Permutations(Session) \cup Permutations(Run)
=============================================================================
