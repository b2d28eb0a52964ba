--------------------------- MODULE LedgerLifecycle ---------------------------
(***************************************************************************)
(* The lifecycle grammar of one address of the managed-state ledger:       *)
(* packages/core/src/transition/lifecycle-interpreter.ts (the interpreter  *)
(* of one edge) and packages/core/src/transition/outcome-protocol.ts (the  *)
(* recovery classifier).  Everything here is a pure operator; the state    *)
(* machines that append events are in the modules that extend this one.    *)
(*                                                                         *)
(* A frame is what a chain projects to: a stable state and at most one     *)
(* open claim.  An event carries its kind, the claim it opens (id), the    *)
(* re-address pair it belongs to and whether it has a read-back payload.   *)
(***************************************************************************)
EXTENDS Naturals

StableState == {"unknown", "managed", "absent"}

Phase == {"claimed", "executing", "indeterminate"}

ClaimKind == {"intent", "retire-intent", "readdress-intent", "adopt-intent"}

(* The closed set of fourteen event kinds.                                 *)
EventKind == ClaimKind \cup
    {"adopt", "refused", "executing", "observed", "absent", "indeterminate",
     "resolved", "readdressed-to", "readdressed-from", "released"}

(* LEDGER_LIFECYCLE_GRAMMAR, one column per claim kind.                    *)
OpensFrom ==
    [kind \in ClaimKind |->
        CASE kind = "retire-intent" -> {"managed"}
          [] kind = "adopt-intent"  -> {"unknown"}
          [] OTHER                  -> StableState]

ResolvesThrough ==
    [kind \in ClaimKind |->
        CASE kind = "intent" ->
                {"refused", "executing", "observed", "indeterminate", "resolved"}
          [] kind = "retire-intent" ->
                {"refused", "executing", "absent", "indeterminate", "resolved"}
          [] kind = "readdress-intent" ->
                {"refused", "indeterminate", "readdressed-to", "readdressed-from"}
          [] kind = "adopt-intent" -> {"refused", "adopt"}]

(* The identity "none" stands for an absent optional field.                *)
None == "none"

(* No claim is open.                                                       *)
NoClaim == [kind |-> None, id |-> None, pair |-> None, before |-> None,
            phase |-> None]

Frame(stable, claim) == [stable |-> stable, claim |-> claim]

RootFrame == Frame("unknown", NoClaim)

IsOpen(frame) == frame.claim # NoClaim

Event(kind, id, pair, observed) ==
    [kind |-> kind, id |-> id, pair |-> pair, observed |-> observed]

(* opensClaim: the event is a claim, its kind opens from this stable state *)
(* and a re-address claim names its pair.                                  *)
OpensClaim(stable, e) ==
    /\ e.kind \in ClaimKind
    /\ stable \in OpensFrom[e.kind]
    /\ e.kind = "readdress-intent" => e.pair # None

OpenedFrame(stable, e) ==
    Frame(stable, [kind |-> e.kind, id |-> e.id, pair |-> e.pair,
                   before |-> stable, phase |-> "claimed"])

(* The phase and payload conditions of interpretLedgerLifecycle's switch.  *)
ResolvingEdge(claim, e) ==
    /\ e.kind \in ResolvesThrough[claim.kind]
    /\ e.kind \in {"refused", "observed", "absent", "indeterminate"}
         => claim.phase # "indeterminate"
    /\ e.kind = "executing" => claim.phase = "claimed"
    /\ e.kind = "resolved"  => claim.phase = "indeterminate"
    /\ e.kind \in {"observed", "adopt", "readdressed-from"} => e.observed
    /\ e.kind = "readdressed-to"   => claim.before = "managed"
    /\ e.kind = "readdressed-from" => claim.before # "managed"
    /\ e.kind \in {"readdressed-to", "readdressed-from"} => e.pair = claim.pair

(* resolveStableState: what "resolved" establishes, from the claim's own   *)
(* column.                                                                 *)
ResolvedStable(claim, e) ==
    CASE e.observed            -> "managed"
      [] claim.kind = "intent" -> claim.before
      [] OTHER                 -> "absent"

ResolvedFrame(frame, e) ==
    CASE e.kind = "refused" -> Frame(frame.stable, NoClaim)
      [] e.kind \in {"executing", "indeterminate"} ->
            Frame(frame.stable, [frame.claim EXCEPT !.phase = e.kind])
      [] e.kind \in {"observed", "adopt", "readdressed-from"} ->
            Frame("managed", NoClaim)
      [] e.kind = "absent"         -> Frame("absent", NoClaim)
      [] e.kind = "resolved"       ->
            Frame(ResolvedStable(frame.claim, e), NoClaim)
      [] e.kind = "readdressed-to" -> Frame("unknown", NoClaim)

(* interpretLedgerLifecycle, split in whether the edge is legal and the    *)
(* frame it leads to.                                                      *)
LegalEdge(frame, e) ==
    IF IsOpen(frame) THEN ResolvingEdge(frame.claim, e)
    ELSE IF e.kind = "released" THEN frame.stable = "managed"
    ELSE OpensClaim(frame.stable, e)

InterpretEdge(frame, e) ==
    IF IsOpen(frame) THEN ResolvedFrame(frame, e)
    ELSE IF e.kind = "released" THEN Frame("unknown", NoClaim)
    ELSE OpenedFrame(frame.stable, e)

-----------------------------------------------------------------------------
(* classifyOutcomeRecovery.  present: the catalogue read found an object;  *)
(* effect: what the operation's own read-back says, "none" when it has     *)
(* none; accepted: the claim-bound external-ddl-exclusion is accepted;     *)
(* evidence: the admission envelope of the claim was found and matches.    *)
(* The answer is the event kind recovery appends, or "pending"/"blocked"   *)
(* when it appends nothing.                                                *)

Effect == {None, "applied", "no-effect", "unverifiable"}

ClassifyIndeterminate(claim, present, effect, evidence) ==
    IF ~evidence \/ effect # "applied" THEN "blocked"
    ELSE IF claim.kind = "retire-intent" THEN "resolved"
    ELSE IF claim.kind = "intent" /\ (present \/ claim.before # "managed")
         THEN "resolved"
    ELSE "blocked"

ClassifyExecutingIntent(claim, present, effect, accepted) ==
    IF ~present \/ effect = "no-effect" THEN "refused"
    ELSE IF effect = "unverifiable" THEN "pending"
    ELSE IF claim.before = "managed" /\ effect # "applied" THEN "pending"
    ELSE IF claim.before # "managed" /\ ~accepted THEN "indeterminate"
    ELSE "observed"

ClassifyRecovery(claim, present, effect, accepted, evidence) ==
    CASE claim.phase = "indeterminate" ->
            ClassifyIndeterminate(claim, present, effect, evidence)
      [] claim.phase = "claimed" -> "refused"
      [] claim.phase = "executing" /\ claim.kind = "intent" ->
            ClassifyExecutingIntent(claim, present, effect, accepted)
      [] claim.phase = "executing" /\ claim.kind = "retire-intent" ->
            IF present THEN "pending" ELSE "absent"
      [] OTHER -> "pending"

Appends(answer) == answer \notin {"pending", "blocked"}
=============================================================================
