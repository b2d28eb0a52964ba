----------------------------- MODULE RunPromise -----------------------------
(***************************************************************************)
(* What one durable plan run promises its operator, whatever crashes,      *)
(* whoever drifts the database and however often apply and recover are     *)
(* called (docs/adr/0005-durable-transition-execution.md):                 *)
(*                                                                         *)
(*   - its steps land in plan order, one whole segment at a time, and      *)
(*     none lands twice;                                                   *)
(*   - it is begun at most once: what has begun is never pristine again;   *)
(*   - a run recovery has classified is closed: nothing lands any more,    *)
(*     so what recovery reported stays true of the run.                    *)
(*                                                                         *)
(* DurableRun implements this specification for each of its runs.          *)
(***************************************************************************)
EXTENDS Naturals

CONSTANTS Step, SegmentOf

VARIABLES planned, landed, phase

runVars == <<planned, landed, phase>>

SegmentSteps(segment) == {s \in planned : SegmentOf[s] = segment}

\* Every planned step of the segments before this one has landed.
Reached(segment) ==
    {s \in planned : SegmentOf[s] < segment} \subseteq landed

Init ==
    /\ planned = {}
    /\ landed = {}
    /\ phase = "unplanned"

Plan ==
    /\ phase = "unplanned"
    /\ planned' \in (SUBSET Step) \ {{}}
    /\ phase' = "pristine"
    /\ UNCHANGED landed

\* A step-attempt event is recorded; a run begins once.
Begin ==
    /\ phase = "pristine"
    /\ phase' = "begun"
    /\ UNCHANGED <<planned, landed>>

Land ==
    /\ phase \in {"pristine", "begun"}
    /\ \E s \in planned :
          /\ Reached(SegmentOf[s])
          /\ SegmentSteps(SegmentOf[s]) \cap landed = {}
          /\ landed' = landed \cup SegmentSteps(SegmentOf[s])
    /\ phase' = "begun"
    /\ UNCHANGED planned

Close ==
    /\ phase = "begun"
    /\ phase' = "closed"
    /\ UNCHANGED <<planned, landed>>

Next == Plan \/ Begin \/ Land \/ Close

Spec == Init /\ [][Next]_runVars
=============================================================================
