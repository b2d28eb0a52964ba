---------------------------- MODULE LedgerAddress ----------------------------
(***************************************************************************)
(* What the ledger promises of one address, without events, chains, locks  *)
(* or catalogues: a stable state, at most one open claim, and for every    *)
(* kind of claim the stable states it can end in                           *)
(* (packages/core/src/transition/lifecycle-interpreter.ts, the table       *)
(* LEDGER_LIFECYCLE_GRAMMAR and what its edges establish).                 *)
(*                                                                         *)
(* A transaction may open a claim and end it at once; nobody then sees it  *)
(* open.                                                                   *)
(***************************************************************************)
EXTENDS LedgerLifecycle

VARIABLE frame

(* The stable states a claim of this kind can leave behind: the one it     *)
(* found, when nothing happened, and those its effect establishes.         *)
Outcomes(kind, before) ==
    {before} \cup
    CASE kind \in {"intent", "adopt-intent"} -> {"managed"}
      [] kind = "retire-intent"              -> {"absent"}
      [] kind = "readdress-intent"           ->
            IF before = "managed" THEN {"unknown"} ELSE {"managed"}

PhaseOrder == [claimed |-> 0, executing |-> 1, indeterminate |-> 2]

Init == frame = RootFrame

Open ==
    /\ ~IsOpen(frame)
    /\ frame'.stable = frame.stable
    /\ frame'.claim.kind \in ClaimKind
    /\ frame.stable \in OpensFrom[frame'.claim.kind]
    /\ frame'.claim.before = frame.stable
    /\ frame'.claim.phase = "claimed"

(* A phase never goes back, and nothing but the phase changes.             *)
Progress ==
    /\ IsOpen(frame)
    /\ frame'.stable = frame.stable
    /\ \E p \in Phase :
          /\ PhaseOrder[frame.claim.phase] <= PhaseOrder[p]
          /\ frame'.claim = [frame.claim EXCEPT !.phase = p]

Close ==
    /\ IsOpen(frame)
    /\ frame'.claim = NoClaim
    /\ frame'.stable \in Outcomes(frame.claim.kind, frame.claim.before)

OpenAndClose ==
    /\ ~IsOpen(frame)
    /\ frame'.claim = NoClaim
    /\ \E kind \in ClaimKind :
          /\ frame.stable \in OpensFrom[kind]
          /\ frame'.stable \in Outcomes(kind, frame.stable)

Release ==
    /\ frame = Frame("managed", NoClaim)
    /\ frame' = RootFrame

Next == Open \/ Progress \/ Close \/ OpenAndClose \/ Release

Spec == Init /\ [][Next]_frame
=============================================================================
