------------------------ MODULE OutcomeProtocolProofs ------------------------
(***************************************************************************)
(* Proofs about OutcomeProtocol, for any number of addresses, runs,        *)
(* identities and faults: type correctness, the exclusion its two locks    *)
(* give, that reservations mirror claims, that no chain becomes malformed, *)
(* that an executor keeps its claim, that a refused claim had no effect,   *)
(* that a concurrent creation takes effect under its own claim and that an *)
(* observed creation made the object the ledger records.  All but the      *)
(* first two follow from one inductive invariant, IInv, the last with      *)
(* MadeInv beside it.                                                      *)
(***************************************************************************)
EXTENDS OutcomeProtocol, TLAPS

-----------------------------------------------------------------------------
(* Facts about one edge of a chain.                                        *)

(* A frame of the right type is open exactly when its claim names a run.   *)
LEMMA OpenFrame ==
    ASSUME NEW f \in FrameType
    PROVE  /\ IsOpen(f) <=> f.claim.id # None
           /\ IsOpen(f) <=> f.claim.id \in Run
           /\ IsOpen(f) => f.claim \in ClaimRecord
           /\ ~IsOpen(f) => f.claim = NoClaim
BY ConstantsAssumption
   DEF FrameType, ClaimRecord, IsOpen, NoClaim

(* An admitted claim event opens the claim and keeps the stable state.     *)
LEMMA OpeningEdge ==
    ASSUME NEW f \in FrameType, ~IsOpen(f),
           NEW k \in ClaimKind, NEW r \in Run,
           LegalEdge(f, Event(k, r, None, FALSE))
    PROVE  /\ f.stable \in StableState
           /\ Project(f, Event(k, r, None, FALSE)) =
                Frame(f.stable, [kind |-> k, id |-> r, pair |-> None,
                                 before |-> f.stable, phase |-> "claimed"])
BY DEF Project, LegalEdge, InterpretEdge, OpensClaim, OpenedFrame, Event,
       OpensFrom, ClaimKind, StableState

(* The two progress events keep the claim and move its phase.              *)
LEMMA ProgressEdge ==
    ASSUME NEW f \in FrameType, IsOpen(f),
           f.claim.kind \in {"intent", "retire-intent"},
           NEW k \in {"executing", "indeterminate"},
           k = "executing" => f.claim.phase = "claimed",
           f.claim.phase # "indeterminate"
    PROVE  Project(f, Event(k, None, None, FALSE)) =
             Frame(f.stable, [f.claim EXCEPT !.phase = k])
BY DEF Project, LegalEdge, InterpretEdge, ResolvingEdge, ResolvedFrame, Event,
       ResolvesThrough, ClaimKind

(* Every other legal event of an open claim closes it.                     *)
LEMMA ClosingEdge ==
    ASSUME NEW f \in FrameType, IsOpen(f), f.stable \in StableState,
           NEW k \in EventKind \ {"executing", "indeterminate"},
           NEW o \in BOOLEAN,
           LegalEdge(f, Event(k, None, None, o))
    PROVE  /\ Project(f, Event(k, None, None, o)).claim = NoClaim
           /\ Project(f, Event(k, None, None, o)).stable \in StableState
           /\ Project(f, Event(k, None, None, o)) \in FrameType
<1>1. f.claim \in ClaimRecord
  BY OpenFrame
<1>2. k \in {"refused", "observed", "absent", "resolved", "adopt",
             "readdressed-to", "readdressed-from"}
  BY <1>1 DEF LegalEdge, ResolvingEdge, ResolvesThrough, Event, EventKind,
              ClaimKind, ClaimRecord
<1>3. Project(f, Event(k, None, None, o)) = ResolvedFrame(f, Event(k, None, None, o))
  BY DEF Project, InterpretEdge
<1>4. \E s \in StableState : ResolvedFrame(f, Event(k, None, None, o)) = Frame(s, NoClaim)
  BY <1>1, <1>2 DEF ResolvedFrame, Event, ResolvedStable, StableState, ClaimRecord
<1> QED
  BY <1>3, <1>4 DEF Frame, FrameType

(* Whatever is appended, the projection of the chain stays a frame.        *)
LEMMA ProjectType ==
    ASSUME NEW f \in FrameType, NEW k \in EventKind, NEW id \in Run \cup {None},
           k \in ClaimKind => id \in Run, NEW o \in BOOLEAN
    PROVE  Project(f, Event(k, id, None, o)) \in FrameType
<1> DEFINE e == Event(k, id, None, o)
<1>1. CASE ~LegalEdge(f, e)
  BY <1>1 DEF Project, Malformed, Frame, FrameType
<1>2. CASE LegalEdge(f, e) /\ ~IsOpen(f) /\ k = "released"
  BY <1>2 DEF Project, InterpretEdge, Frame, FrameType, StableState, Event
<1>3. CASE LegalEdge(f, e) /\ ~IsOpen(f) /\ k # "released"
  <2>1. k \in ClaimKind /\ f.stable \in StableState
    BY <1>3 DEF LegalEdge, OpensClaim, Event, OpensFrom, ClaimKind, StableState
  <2> QED
    BY <1>3, <2>1 DEF Project, InterpretEdge, OpenedFrame, Frame, FrameType,
                      ClaimRecord, Event, Phase
<1>4. CASE LegalEdge(f, e) /\ IsOpen(f)
  <2>1. f.claim \in ClaimRecord
    BY <1>4, OpenFrame
  <2>2. k \in {"refused", "observed", "absent", "resolved", "adopt",
               "readdressed-to", "readdressed-from", "executing",
               "indeterminate"}
    BY <1>4, <2>1 DEF LegalEdge, ResolvingEdge, ResolvesThrough, Event,
                      ClaimKind, ClaimRecord
  <2>3. Project(f, e) = ResolvedFrame(f, e)
    BY <1>4 DEF Project, InterpretEdge
  <2>4. CASE k \in {"executing", "indeterminate"}
    <3>1. ResolvedFrame(f, e) = Frame(f.stable, [f.claim EXCEPT !.phase = k])
      BY <2>4 DEF ResolvedFrame, Event
    <3>2. [f.claim EXCEPT !.phase = k] \in ClaimRecord
      BY <2>1, <2>4 DEF ClaimRecord, Phase
    <3> QED
      BY <2>3, <3>1, <3>2 DEF Frame, FrameType
  <2>5. CASE k \notin {"executing", "indeterminate"}
    <3>1. \E s \in StableState \cup {"malformed"} :
             ResolvedFrame(f, e) = Frame(s, NoClaim)
      BY <2>1, <2>2, <2>5 DEF ResolvedFrame, Event, ResolvedStable,
                              StableState, ClaimRecord, FrameType
    <3> QED
      BY <2>3, <3>1 DEF Frame, FrameType
  <2> QED
    BY <2>4, <2>5
<1> QED
  BY <1>1, <1>2, <1>3, <1>4

-----------------------------------------------------------------------------
(* Type correctness.                                                       *)

(* The events the protocol appends: their kinds and where they may appear. *)
LEMMA ClaimKinds ==
    /\ \A o : ClaimKindOf(o) \in ClaimKind
    /\ ClaimKind \subseteq EventKind
    /\ {"executing", "indeterminate", "released", "refused", "observed",
        "absent", "adopt", "resolved"} \subseteq EventKind
BY DEF ClaimKindOf, ClaimKind, EventKind, OpKind

LEMMA AppendProgressType ==
    ASSUME TypeOK, NEW a \in Address, NEW k \in {"executing", "indeterminate"},
           NEW i \in Identity, AppendProgress(a, k, i)
    PROVE  /\ frame' \in [Address -> FrameType]
           /\ recorded' \in [Address -> Identity]
           /\ reservation' \in [Address -> Run \cup {None}]
<1>1. k \in EventKind /\ k \notin ClaimKind
  BY ClaimKinds DEF ClaimKind
<1>2. Project(frame[a], Event(k, None, None, FALSE)) \in FrameType
  BY <1>1, ProjectType DEF TypeOK
<1> QED
  BY <1>2 DEF AppendProgress, TypeOK

LEMMA AppendClaimType ==
    ASSUME TypeOK, NEW a \in Address, NEW r \in Run,
           AppendClaim(r, a)
    PROVE  /\ frame' \in [Address -> FrameType]
           /\ recorded' \in [Address -> Identity]
           /\ reservation' \in [Address -> Run \cup {None}]
<1>1. ClaimKindOf(op[r]) \in EventKind
  BY ClaimKinds
<1>2. Project(frame[a], ClaimEvent(r)) \in FrameType
  BY <1>1, ProjectType DEF TypeOK, ClaimEvent
<1>3. 0 \in Identity
  BY ConstantsAssumption DEF Identity
<1> QED
  BY <1>2, <1>3 DEF AppendClaim, TypeOK

LEMMA AppendResolutionType ==
    ASSUME TypeOK, NEW a \in Address, NEW r \in Run,
           NEW k \in EventKind \ ClaimKind, NEW i \in Identity,
           AppendResolution(r, a, k, i)
    PROVE  /\ frame' \in [Address -> FrameType]
           /\ recorded' \in [Address -> Identity]
           /\ reservation' \in [Address -> Run \cup {None}]
           /\ outcome' \in [Run -> EventKind \cup {None}]
<1>1. Project(frame[a], Event(k, None, None, i # 0)) \in FrameType
  BY ProjectType DEF TypeOK
<1> QED
  BY <1>1 DEF AppendResolution, TypeOK, ledgerVars

LEMMA AppendWholeType ==
    ASSUME TypeOK, NEW a \in Address, NEW r \in Run,
           NEW k \in EventKind \ ClaimKind, NEW i \in Identity,
           AppendWhole(r, a, k, i)
    PROVE  /\ frame' \in [Address -> FrameType]
           /\ recorded' \in [Address -> Identity]
           /\ reservation' \in [Address -> Run \cup {None}]
           /\ outcome' \in [Run -> EventKind \cup {None}]
<1>1. ClaimKindOf(op[r]) \in EventKind
  BY ClaimKinds
<1>2. Project(frame[a], ClaimEvent(r)) \in FrameType
  BY <1>1, ProjectType DEF TypeOK, ClaimEvent
<1>3. Project(Project(frame[a], ClaimEvent(r)), Event(k, None, None, i # 0))
        \in FrameType
  BY <1>2, ProjectType
<1> QED
  BY <1>3 DEF AppendWhole, TypeOK

(* What recovery appends is an event kind and no claim.                    *)
LEMMA RecoveryKind ==
    ASSUME NEW c, NEW p, NEW e, NEW x, NEW v,
           Appends(ClassifyRecovery(c, p, e, x, v))
    PROVE  ClassifyRecovery(c, p, e, x, v)
             \in {"refused", "observed", "absent", "indeterminate", "resolved"}
BY DEF Appends, ClassifyRecovery, ClassifyIndeterminate, ClassifyExecutingIntent

(* Where the small steps of a process leave it.                            *)
LEMMA PlaceTypes ==
    ASSUME TypeOK, NEW r \in Run
    PROVE  /\ Stop(r) => /\ pc' \in [Run -> BusyPc \cup {"idle", "stopped"}]
                         /\ runLock' \in [Run -> {"free", "apply", "reconcile"}]
           /\ \A place \in BusyPc : Goto(r, place) =>
                /\ pc' \in [Run -> BusyPc \cup {"idle", "stopped"}]
                /\ runLock' \in [Run -> {"free", "apply", "reconcile"}]
           /\ EndReconcile(r) =>
                /\ rpc' \in [Run -> {"idle", "selected"} \cup LockedRpc]
                /\ runLock' \in [Run -> {"free", "apply", "reconcile"}]
           /\ AcquireLedgerLock(r) => ledgerLock' \in Run \cup {None}
           /\ ReleaseLedgerLock(r) => ledgerLock' \in Run \cup {None}
BY DEF TypeOK, Stop, Goto, EndReconcile, AcquireLedgerLock, ReleaseLedgerLock

LEMMA TypeOKStep == TypeOK /\ [Next]_vars => TypeOK'
<1> SUFFICES ASSUME TypeOK, [Next]_vars PROVE TypeOK'
  OBVIOUS
<1> USE ConstantsAssumption
<1>0. 0 \in Identity /\ (minted < MaxIdentity => minted + 1 \in Identity)
  BY DEF Identity, TypeOK
<1>P. BusyPc = {"planned", "ready", "claimed", "refusing", "sending",
                "running", "ran", "opening", "marking", "refused", "recording"}
  BY DEF BusyPc, LockedPc
<1>1. ASSUME NEW r \in Run, Begin(r) PROVE TypeOK'
  BY <1>0, <1>1, <1>P DEF Begin, TypeOK, ledgerVars, catalogueVars, historyVars
<1>2. ASSUME NEW r \in Run, Precheck(r) PROVE TypeOK'
  <2>1. /\ pc' \in [Run -> BusyPc \cup {"idle", "stopped"}]
        /\ runLock' \in [Run -> {"free", "apply", "reconcile"}]
    BY <1>2, <1>P, PlaceTypes DEF Precheck
  <2> QED
    BY <1>2, <2>1 DEF Precheck, TypeOK, ledgerVars, catalogueVars, taskVars,
                      historyVars
<1>3. ASSUME NEW r \in Run, LockLedger(r) PROVE TypeOK'
  <2>1. /\ pc' \in [Run -> BusyPc \cup {"idle", "stopped"}]
        /\ runLock' \in [Run -> {"free", "apply", "reconcile"}]
        /\ ledgerLock' \in Run \cup {None}
    BY <1>3, <1>P, PlaceTypes DEF LockLedger
  <2> QED
    BY <1>3, <2>1 DEF LockLedger, TypeOK, ledgerVars, catalogueVars, taskVars,
                      historyVars
<1>4. ASSUME NEW r \in Run, LedgerBusy(r) PROVE TypeOK'
  <2>1. /\ pc' \in [Run -> BusyPc \cup {"idle", "stopped"}]
        /\ runLock' \in [Run -> {"free", "apply", "reconcile"}]
    BY <1>4, PlaceTypes DEF LedgerBusy
  <2> QED
    BY <1>4, <2>1 DEF LedgerBusy, TypeOK, ledgerVars, catalogueVars, taskVars,
                      historyVars
<1>5. ASSUME NEW r \in Run, OpenClaim(r) PROVE TypeOK'
  <2>1. /\ pc' \in [Run -> BusyPc \cup {"idle", "stopped"}]
        /\ runLock' \in [Run -> {"free", "apply", "reconcile"}]
        /\ ledgerLock' \in Run \cup {None}
    BY <1>5, <1>P, PlaceTypes DEF OpenClaim
  <2>2. /\ frame' \in [Address -> FrameType]
        /\ recorded' \in [Address -> Identity]
        /\ reservation' \in [Address -> Run \cup {None}]
    <3>1. target[r] \in Address
      BY DEF TypeOK
    <3> QED
      BY <1>5, <3>1, AppendClaimType DEF OpenClaim, TypeOK, ledgerVars
  <2> QED
    BY <1>5, <2>1, <2>2 DEF OpenClaim, TypeOK, catalogueVars, taskVars,
                            historyVars
<1>6. ASSUME NEW r \in Run, Mark(r) PROVE TypeOK'
  <2>1. /\ pc' \in [Run -> BusyPc \cup {"idle", "stopped"}]
        /\ runLock' \in [Run -> {"free", "apply", "reconcile"}]
        /\ ledgerLock' \in Run \cup {None}
    BY <1>6, <1>P, PlaceTypes DEF Mark
  <2>2. /\ frame' \in [Address -> FrameType]
        /\ recorded' \in [Address -> Identity]
        /\ reservation' \in [Address -> Run \cup {None}]
    <3>1. target[r] \in Address
      BY DEF TypeOK
    <3> QED
      BY <1>0, <1>6, <3>1, AppendProgressType DEF Mark, TypeOK, ledgerVars
  <2> QED
    BY <1>6, <2>1, <2>2 DEF Mark, TypeOK, catalogueVars, taskVars, historyVars
<1>7. ASSUME NEW r \in Run, Refuse(r) PROVE TypeOK'
  <2>1. /\ pc' \in [Run -> BusyPc \cup {"idle", "stopped"}]
        /\ runLock' \in [Run -> {"free", "apply", "reconcile"}]
        /\ ledgerLock' \in Run \cup {None}
    BY <1>7, PlaceTypes DEF Refuse
  <2>2. "refused" \in EventKind \ ClaimKind /\ target[r] \in Address
    BY ClaimKinds DEF ClaimKind, TypeOK
  <2> QED
    BY <1>0, <1>7, <2>1, <2>2, AppendResolutionType
       DEF Refuse, TypeOK, catalogueVars, taskVars
<1>8. ASSUME NEW r \in Run, Send(r) PROVE TypeOK'
  <2>1. /\ pc' \in [Run -> BusyPc \cup {"idle", "stopped"}]
        /\ runLock' \in [Run -> {"free", "apply", "reconcile"}]
    BY <1>8, <1>P, PlaceTypes DEF Send
  <2> QED
    BY <1>8, <2>1 DEF Send, TypeOK, ledgerVars, catalogueVars, taskVars,
                      historyVars
<1>9. ASSUME NEW r \in Run, Receive(r) PROVE TypeOK'
  <2>1. /\ pc' \in [Run -> BusyPc \cup {"idle", "stopped"}]
        /\ runLock' \in [Run -> {"free", "apply", "reconcile"}]
    BY <1>9, <1>P, PlaceTypes DEF Receive
  <2> QED
    BY <1>9, <2>1 DEF Receive, TypeOK, ledgerVars, catalogueVars, taskVars,
                      historyVars
<1>10. ASSUME NEW r \in Run, Record(r) PROVE TypeOK'
  <2>1. /\ pc' \in [Run -> BusyPc \cup {"idle", "stopped"}]
        /\ runLock' \in [Run -> {"free", "apply", "reconcile"}]
        /\ ledgerLock' \in Run \cup {None}
    BY <1>10, PlaceTypes DEF Record
  <2>2. /\ {"observed", "absent"} \subseteq EventKind \ ClaimKind
        /\ target[r] \in Address
        /\ live[target[r]] \in Identity
    BY ClaimKinds DEF ClaimKind, TypeOK
  <2>3. /\ frame' \in [Address -> FrameType]
        /\ recorded' \in [Address -> Identity]
        /\ reservation' \in [Address -> Run \cup {None}]
        /\ outcome' \in [Run -> EventKind \cup {None}]
    BY <1>0, <1>10, <2>2, AppendResolutionType, AppendProgressType
       DEF Record, TypeOK, ledgerVars
  <2> QED
    BY <1>10, <2>1, <2>3 DEF Record, TypeOK, catalogueVars, taskVars
<1>11. ASSUME NEW r \in Run, Transact(r) PROVE TypeOK'
  <2>1. /\ pc' \in [Run -> BusyPc \cup {"idle", "stopped"}]
        /\ runLock' \in [Run -> {"free", "apply", "reconcile"}]
        /\ ledgerLock' \in Run \cup {None}
    BY <1>11, PlaceTypes DEF Transact
  <2>2. /\ {"observed", "adopt", "refused"} \subseteq EventKind \ ClaimKind
        /\ target[r] \in Address
        /\ live[target[r]] \in Identity
    BY ClaimKinds DEF ClaimKind, TypeOK
  <2>3. /\ frame' \in [Address -> FrameType]
        /\ recorded' \in [Address -> Identity]
        /\ reservation' \in [Address -> Run \cup {None}]
        /\ outcome' \in [Run -> EventKind \cup {None}]
    BY <1>0, <1>11, <2>2, AppendWholeType
       DEF Transact, RolledBack, Effected, TypeOK, ledgerVars, historyVars
  <2>4. RolledBack(r) \/ UNCHANGED <<catalogueVars, effect, made>> \/ Effected(r)
    BY <1>11 DEF Transact
  <2>5. live' \in [Address -> Identity] /\ minted' \in Identity
    BY <1>0, <2>2, <2>4 DEF RolledBack, Effected, TypeOK, catalogueVars
  <2>6. made' \in [Run -> Identity]
    BY <1>0, <2>2, <2>4 DEF RolledBack, Effected, TypeOK, historyVars
  <2>7. effect' \in [Run -> BOOLEAN]
    <3>1. effect' = effect \/ effect' = [effect EXCEPT ![r] = TRUE]
      BY <2>4 DEF RolledBack, Effected, historyVars
    <3> QED
      BY <3>1 DEF TypeOK
  <2> QED
    BY <1>11, <2>1, <2>3, <2>5, <2>6, <2>7 DEF Transact, TypeOK, taskVars
<1>12. ASSUME NEW r \in Run, StatementEnds(r) PROVE TypeOK'
  <2>1. live' \in [Address -> Identity] /\ minted' \in Identity
    BY <1>0, <1>12 DEF StatementEnds, TypeOK, catalogueVars
  <2>2. made' \in [Run -> Identity]
    BY <1>0, <1>12 DEF StatementEnds, TypeOK, catalogueVars
  <2>3. effect' \in [Run -> BOOLEAN]
    <3>1. effect' = effect \/ effect' = [effect EXCEPT ![r] = TRUE]
      BY <1>12 DEF StatementEnds
    <3> QED
      BY <3>1 DEF TypeOK
  <2>4. stmt' \in [Run -> {"none", "running", "done", "failed"}]
    BY <1>12 DEF StatementEnds, TypeOK
  <2>5. runLock' \in [Run -> {"free", "apply", "reconcile"}]
    BY <1>12 DEF StatementEnds, TypeOK
  <2> QED
    BY <1>12, <2>1, <2>2, <2>3, <2>4, <2>5
       DEF StatementEnds, TypeOK, ledgerVars, taskVars
<1>13. ASSUME NEW r \in Run, ApplyFails(r) PROVE TypeOK'
  <2>1. /\ pc' \in [Run -> BusyPc \cup {"idle", "stopped"}]
        /\ runLock' \in [Run -> {"free", "apply", "reconcile"}]
        /\ ledgerLock' \in Run \cup {None}
    BY <1>13, PlaceTypes DEF ApplyFails
  <2> QED
    BY <1>13, <2>1 DEF ApplyFails, TypeOK, ledgerVars, catalogueVars, taskVars,
                       historyVars
<1>14. ASSUME NEW a \in Address, Release(a) PROVE TypeOK'
  <2>1. Project(frame[a], Event("released", None, None, FALSE)) \in FrameType
    BY ClaimKinds, ProjectType DEF TypeOK, ClaimKind
  <2> QED
    BY <1>0, <1>14, <2>1 DEF Release, TypeOK, catalogueVars, taskVars, historyVars
<1>15. ASSUME NEW r \in Run, ReconcileStart(r) PROVE TypeOK'
  BY <1>15 DEF ReconcileStart, TypeOK, ledgerVars, catalogueVars, taskVars,
               historyVars
<1>16. ASSUME NEW r \in Run, ReconcileLock(r) PROVE TypeOK'
  BY <1>16, PlaceTypes DEF ReconcileLock, TypeOK, ledgerVars, catalogueVars,
                           taskVars, historyVars, LockedRpc
<1>17. ASSUME NEW r \in Run, ReconcileBusy(r) PROVE TypeOK'
  BY <1>17, PlaceTypes DEF ReconcileBusy, TypeOK, ledgerVars, catalogueVars,
                           taskVars, historyVars
<1>18. ASSUME NEW r \in Run, ReconcileRead(r) PROVE TypeOK'
  <2>1. /\ rpc' \in [Run -> {"idle", "selected"} \cup LockedRpc]
        /\ runLock' \in [Run -> {"free", "apply", "reconcile"}]
        /\ ledgerLock' \in Run \cup {None}
        /\ seen' \in [Run -> Identity]
    BY <1>18, PlaceTypes DEF ReconcileRead, TypeOK, LockedRpc
  <2> QED
    BY <1>18, <2>1 DEF ReconcileRead, TypeOK, ledgerVars, catalogueVars,
                       taskVars, historyVars
<1>19. ASSUME NEW r \in Run, ReconcileAppend(r) PROVE TypeOK'
  <2>1. /\ rpc' \in [Run -> {"idle", "selected"} \cup LockedRpc]
        /\ runLock' \in [Run -> {"free", "apply", "reconcile"}]
        /\ ledgerLock' \in Run \cup {None}
    BY <1>19, PlaceTypes DEF ReconcileAppend
  <2>2. /\ target[r] \in Address
        /\ live[target[r]] \in Identity
    BY DEF TypeOK
  <2>3. Appends(Recovery(r)) =>
           Recovery(r) \in {"refused", "observed", "absent", "indeterminate",
                            "resolved"}
    BY RecoveryKind DEF Recovery
  <2>4. {"refused", "observed", "absent", "resolved"} \subseteq
           EventKind \ ClaimKind
    BY ClaimKinds DEF ClaimKind
  <2>5. /\ frame' \in [Address -> FrameType]
        /\ recorded' \in [Address -> Identity]
        /\ reservation' \in [Address -> Run \cup {None}]
        /\ outcome' \in [Run -> EventKind \cup {None}]
    BY <1>19, <2>2, <2>3, <2>4, AppendResolutionType, AppendProgressType
       DEF ReconcileAppend, TypeOK, ledgerVars
  <2> QED
    BY <1>19, <2>1, <2>5 DEF ReconcileAppend, TypeOK, catalogueVars, taskVars
<1>20. ASSUME NEW r \in Run, ReconcileFails(r) PROVE TypeOK'
  BY <1>20, PlaceTypes DEF ReconcileFails, TypeOK, ledgerVars, catalogueVars,
                           taskVars, historyVars
<1>21. ASSUME NEW a \in Address, ExternalCreate(a) PROVE TypeOK'
  BY <1>0, <1>21 DEF ExternalCreate, TypeOK, ledgerVars, taskVars, historyVars
<1>22. ASSUME NEW a \in Address, ExternalDrop(a) PROVE TypeOK'
  BY <1>0, <1>22 DEF ExternalDrop, TypeOK, ledgerVars, taskVars, historyVars
<1>23. CASE UNCHANGED vars
  BY <1>23 DEF vars, TypeOK, ledgerVars, catalogueVars, taskVars, historyVars
<1> QED
  BY <1>1, <1>2, <1>3, <1>4, <1>5, <1>6, <1>7, <1>8, <1>9, <1>10, <1>11, <1>12,
     <1>13, <1>14, <1>15, <1>16, <1>17, <1>18, <1>19, <1>20, <1>21, <1>22, <1>23
     DEF Next, ApplyStep, ReconcileStep

(* Every variable keeps its type in every behaviour of the protocol, for   *)
(* any set of addresses, runs and operations and any bound.                *)
THEOREM TypeCorrect == Spec => []TypeOK
<1>1. Init => TypeOK
  <2>1. 0 \in Identity /\ 0 \in 0 .. MaxFaults
    BY ConstantsAssumption DEF Identity
  <2>2. RootFrame \in FrameType
    BY DEF RootFrame, Frame, FrameType, StableState
  <2> QED
    BY <2>1, <2>2 DEF Init, TypeOK, BusyPc, LockedPc
<1> QED
  BY <1>1, TypeOKStep, PTL DEF Spec

-----------------------------------------------------------------------------
(* The two locks.                                                          *)

(* The run lock of r belongs to at most one of r's two processes, and to a *)
(* statement the server still runs on its session; whoever is inside a     *)
(* ledger transaction holds the ledger lock.                               *)
LockInv ==
    \A r \in Run :
        /\ pc[r] \in BusyPc => runLock[r] = "apply"
        /\ rpc[r] # "idle" => runLock[r] = "reconcile"
        /\ stmt[r] = "running" /\ op[r] \in OnRunLockSession
             => runLock[r] = "apply"
        /\ pc[r] \in LockedPc => ledgerLock = r
        /\ rpc[r] \in LockedRpc => ledgerLock = r
        /\ pc[r] = "idle" => stmt[r] = "none"

LEMMA LockInvStep == TypeOK /\ LockInv /\ [Next]_vars => LockInv'
<1> SUFFICES ASSUME TypeOK, LockInv, [Next]_vars PROVE LockInv'
  OBVIOUS
<1> USE DEF TypeOK, LockInv, BusyPc, LockedPc, LockedRpc, OnRunLockSession
<1>1. ASSUME NEW r \in Run, Begin(r) PROVE LockInv'
  BY <1>1 DEF Begin
<1>2. ASSUME NEW r \in Run, Precheck(r) PROVE LockInv'
  BY <1>2 DEF Precheck, Stop, Goto, taskVars
<1>3. ASSUME NEW r \in Run, LockLedger(r) PROVE LockInv'
  BY ConstantsAssumption, <1>3 DEF LockLedger, Goto, AcquireLedgerLock, taskVars
<1>4. ASSUME NEW r \in Run, LedgerBusy(r) PROVE LockInv'
  BY <1>4 DEF LedgerBusy, Stop, taskVars
<1>5. ASSUME NEW r \in Run, OpenClaim(r) PROVE LockInv'
  BY <1>5 DEF OpenClaim, Stop, Goto, ReleaseLedgerLock, taskVars
<1>6. ASSUME NEW r \in Run, Mark(r) PROVE LockInv'
  BY <1>6 DEF Mark, Goto, ReleaseLedgerLock, taskVars
<1>7. ASSUME NEW r \in Run, Refuse(r) PROVE LockInv'
  BY <1>7 DEF Refuse, Stop, ReleaseLedgerLock, taskVars
<1>8. ASSUME NEW r \in Run, Send(r) PROVE LockInv'
  BY <1>8 DEF Send, Stop, Goto, taskVars
<1>9. ASSUME NEW r \in Run, Receive(r) PROVE LockInv'
  BY <1>9 DEF Receive, Stop, Goto, taskVars
<1>10. ASSUME NEW r \in Run, Record(r) PROVE LockInv'
  BY <1>10 DEF Record, Stop, ReleaseLedgerLock, taskVars
<1>11. ASSUME NEW r \in Run, Transact(r) PROVE LockInv'
  BY <1>11 DEF Transact, Stop, ReleaseLedgerLock, taskVars
<1>12. ASSUME NEW r \in Run, StatementEnds(r) PROVE LockInv'
  <2>1. stmt'[r] # "running" /\ \A q \in Run : q # r => stmt'[q] = stmt[q]
    BY <1>12 DEF StatementEnds
  <2> QED
    BY <1>12, <2>1 DEF StatementEnds, taskVars
<1>13. ASSUME NEW r \in Run, ApplyFails(r) PROVE LockInv'
  BY <1>13 DEF ApplyFails, Stop, ReleaseLedgerLock, taskVars
<1>14. ASSUME NEW a \in Address, Release(a) PROVE LockInv'
  BY <1>14 DEF Release, taskVars
<1>15. ASSUME NEW r \in Run, ReconcileStart(r) PROVE LockInv'
  BY <1>15 DEF ReconcileStart, taskVars
<1>16. ASSUME NEW r \in Run, ReconcileLock(r) PROVE LockInv'
  BY ConstantsAssumption, <1>16 DEF ReconcileLock, AcquireLedgerLock, taskVars
<1>17. ASSUME NEW r \in Run, ReconcileBusy(r) PROVE LockInv'
  BY <1>17 DEF ReconcileBusy, EndReconcile, taskVars
<1>18. ASSUME NEW r \in Run, ReconcileRead(r) PROVE LockInv'
  BY <1>18 DEF ReconcileRead, EndReconcile, ReleaseLedgerLock, taskVars
<1>19. ASSUME NEW r \in Run, ReconcileAppend(r) PROVE LockInv'
  BY <1>19 DEF ReconcileAppend, EndReconcile, ReleaseLedgerLock, taskVars
<1>20. ASSUME NEW r \in Run, ReconcileFails(r) PROVE LockInv'
  BY <1>20 DEF ReconcileFails, EndReconcile, ReleaseLedgerLock, taskVars
<1>21. ASSUME NEW a \in Address, ExternalCreate(a) PROVE LockInv'
  BY <1>21 DEF ExternalCreate, taskVars
<1>22. ASSUME NEW a \in Address, ExternalDrop(a) PROVE LockInv'
  BY <1>22 DEF ExternalDrop, taskVars
<1>23. CASE UNCHANGED vars
  BY <1>23 DEF vars, taskVars
<1> QED
  BY <1>1, <1>2, <1>3, <1>4, <1>5, <1>6, <1>7, <1>8, <1>9, <1>10, <1>11, <1>12,
     <1>13, <1>14, <1>15, <1>16, <1>17, <1>18, <1>19, <1>20, <1>21, <1>22, <1>23
     DEF Next, ApplyStep, ReconcileStep

(* At no time do two processes act for one run, nor two processes inside   *)
(* one ledger, whoever crashed before.                                     *)
THEOREM LocksExclude == Spec => []LockInv
<1>1. Init => LockInv
  BY DEF Init, LockInv, BusyPc, LockedPc, LockedRpc
<1> QED
  BY <1>1, LockInvStep, TypeCorrect, PTL DEF Spec

-----------------------------------------------------------------------------
(* The claims.                                                             *)

(* A chain is never malformed, its reservation row is its claim, and a     *)
(* claim stands on the address its run works on.                           *)
ChainInv ==
    \A a \in Address :
        /\ frame[a].stable \in StableState
        /\ reservation[a] = frame[a].claim.id
        /\ IsOpen(frame[a]) => target[frame[a].claim.id] = a

(* Before its claim, a run has left no trace; it carries an operation once *)
(* it has begun.                                                           *)
BeforeClaim(r) ==
    /\ pc[r] \in {"idle", "planned", "ready", "opening"}
         => ~ClaimOpen(r) /\ stmt[r] = "none" /\ ~effect[r] /\ outcome[r] = None
    /\ pc[r] # "idle" => op[r] \in OpKind

(* The phase of the claim at each later place of the executor.             *)
DuringClaim(r) ==
    /\ pc[r] \in {"claimed", "marking", "refusing", "refused"}
         => ClaimOpen(r) /\ frame[target[r]].claim.phase = "claimed"
    /\ pc[r] \in {"sending", "running", "ran", "recording"}
         => ClaimOpen(r) /\ frame[target[r]].claim.phase = "executing"
    /\ pc[r] = "sending" => stmt[r] = "none"
    /\ pc[r] \in {"ran", "recording"} => stmt[r] = "done"

(* What an open claim says of its run.                                     *)
OpenClaimInv(r) ==
    ClaimOpen(r) =>
        /\ op[r] \in {"createConcurrently", "retire"}
        /\ frame[target[r]].claim.kind = ClaimKindOf(op[r])
        /\ outcome[r] = None
        /\ frame[target[r]].claim.phase = "claimed"
             => stmt[r] = "none" /\ ~effect[r]
        /\ op[r] = "createConcurrently" /\ effect[r] => live[target[r]] # 0

(* A reconciler acts on an open claim; the statement of a concurrent       *)
(* creation runs under its claim; a refused run did and will do nothing.   *)
AfterClaim(r) ==
    /\ rpc[r] # "idle" => ClaimOpen(r)
    /\ stmt[r] = "running" /\ op[r] = "createConcurrently" => ClaimOpen(r)
    /\ outcome[r] = "refused" => ~effect[r] /\ stmt[r] # "running"

RunInv == \A r \in Run :
    BeforeClaim(r) /\ DuringClaim(r) /\ OpenClaimInv(r) /\ AfterClaim(r)

IInv == TypeOK /\ LockInv /\ ChainInv /\ RunInv

(* Recovery never answers with an event the grammar forbids at that point, *)
(* for any claim, catalogue and evidence.                                  *)
LEMMA RecoveryAppendsLegalEdge ==
    ASSUME NEW c \in ClaimRecord, NEW p \in BOOLEAN, NEW e, NEW x \in BOOLEAN,
           NEW v \in BOOLEAN, Appends(ClassifyRecovery(c, p, e, x, v))
    PROVE  ResolvingEdge(c, Event(ClassifyRecovery(c, p, e, x, v), None, None, p))
<1>1. CASE c.phase = "indeterminate"
  BY <1>1 DEF Appends, ClassifyRecovery, ClassifyIndeterminate, ResolvingEdge,
              ResolvesThrough, Event, ClaimRecord, ClaimKind
<1>2. CASE c.phase = "claimed"
  BY <1>2 DEF Appends, ClassifyRecovery, ResolvingEdge, ResolvesThrough, Event,
              ClaimRecord, ClaimKind
<1>3. CASE c.phase = "executing"
  BY <1>3 DEF Appends, ClassifyRecovery, ClassifyExecutingIntent, ResolvingEdge,
              ResolvesThrough, Event, ClaimRecord, ClaimKind
<1> QED
  BY <1>1, <1>2, <1>3 DEF ClaimRecord, Phase

(* What each ledger write does to a well-formed ledger.                    *)
LEMMA ClaimWritten ==
    ASSUME TypeOK, ChainInv, NEW r \in Run, Admitted(r),
           AppendClaim(r, target[r]), target' = target
    PROVE  /\ ChainInv'
           /\ ~IsOpen(frame[target[r]])
           /\ \A b \in Address : b # target[r] => frame'[b] = frame[b]
           /\ frame'[target[r]].claim =
                [kind |-> ClaimKindOf(op[r]), id |-> r, pair |-> None,
                 before |-> frame[target[r]].stable, phase |-> "claimed"]
<1> DEFINE a == target[r]
<1>1. a \in Address /\ frame[a] \in FrameType /\ ~IsOpen(frame[a])
  BY DEF TypeOK, Admitted
<1>2. ClaimKindOf(op[r]) \in ClaimKind
  BY ClaimKinds
<1>3. /\ frame[a].stable \in StableState
      /\ Project(frame[a], ClaimEvent(r)) =
           Frame(frame[a].stable,
                 [kind |-> ClaimKindOf(op[r]), id |-> r, pair |-> None,
                  before |-> frame[a].stable, phase |-> "claimed"])
  BY <1>1, <1>2, OpeningEdge DEF Admitted, ClaimEvent
<1>4. /\ \A b \in Address : b # a => frame'[b] = frame[b] /\ reservation'[b] = reservation[b]
      /\ frame'[a] = Project(frame[a], ClaimEvent(r))
      /\ reservation'[a] = r
  BY <1>1 DEF AppendClaim, TypeOK
<1> QED
  BY <1>1, <1>3, <1>4 DEF ChainInv, Frame, IsOpen

LEMMA ProgressWritten ==
    ASSUME TypeOK, ChainInv, NEW a \in Address, IsOpen(frame[a]),
           frame[a].claim.kind \in {"intent", "retire-intent"},
           NEW k \in {"executing", "indeterminate"},
           k = "executing" => frame[a].claim.phase = "claimed",
           frame[a].claim.phase # "indeterminate",
           NEW i, AppendProgress(a, k, i), target' = target
    PROVE  /\ ChainInv'
           /\ \A b \in Address : b # a => frame'[b] = frame[b]
           /\ frame'[a].claim = [frame[a].claim EXCEPT !.phase = k]
<1>1. frame[a] \in FrameType /\ frame[a].claim \in ClaimRecord
  BY OpenFrame DEF TypeOK
<1>2. Project(frame[a], Event(k, None, None, FALSE)) =
        Frame(frame[a].stable, [frame[a].claim EXCEPT !.phase = k])
  BY <1>1, ProgressEdge
<1>3. /\ \A b \in Address : b # a => frame'[b] = frame[b]
      /\ frame'[a] = Frame(frame[a].stable, [frame[a].claim EXCEPT !.phase = k])
      /\ reservation' = reservation
  BY <1>2 DEF AppendProgress, TypeOK
<1>4. [frame[a].claim EXCEPT !.phase = k].id = frame[a].claim.id
  BY <1>1 DEF ClaimRecord
<1>5. /\ frame'[a].claim = [frame[a].claim EXCEPT !.phase = k]
      /\ frame'[a].claim.id = frame[a].claim.id
      /\ frame'[a].stable = frame[a].stable
  <2>1. /\ frame'[a].claim = [frame[a].claim EXCEPT !.phase = k]
        /\ frame'[a].stable = frame[a].stable
    <3> DEFINE c == [frame[a].claim EXCEPT !.phase = k]
    <3>1. frame'[a] = Frame(frame[a].stable, c)
      BY <1>3
    <3> HIDE DEF c
    <3>2. frame'[a].claim = c /\ frame'[a].stable = frame[a].stable
      BY <3>1 DEF Frame
    <3> QED
      BY <3>2 DEF c
  <2> QED
    BY <1>4, <2>1
<1>6. ASSUME NEW b \in Address
      PROVE  /\ frame'[b].stable \in StableState
             /\ reservation'[b] = frame'[b].claim.id
             /\ IsOpen(frame'[b]) => target'[frame'[b].claim.id] = b
  <2>1. CASE b = a
    BY <1>3, <1>5, <2>1 DEF ChainInv
  <2>2. CASE b # a
    BY <1>3, <2>2 DEF ChainInv
  <2> QED
    BY <2>1, <2>2
<1> QED
  BY <1>3, <1>5, <1>6 DEF ChainInv, IsOpen

LEMMA ResolutionWritten ==
    ASSUME TypeOK, ChainInv, NEW r \in Run, ClaimOpen(r),
           NEW k \in EventKind \ {"executing", "indeterminate"}, NEW i,
           ResolvingEdge(frame[target[r]].claim, Event(k, None, None, i # 0)),
           AppendResolution(r, target[r], k, i), target' = target
    PROVE  /\ ChainInv'
           /\ \A b \in Address : b # target[r] => frame'[b] = frame[b]
           /\ frame'[target[r]].claim = NoClaim
           /\ outcome' = [outcome EXCEPT ![r] = k]
<1> DEFINE a == target[r]
<1>1. a \in Address /\ frame[a] \in FrameType /\ IsOpen(frame[a])
  BY OpenFrame DEF TypeOK, ClaimOpen
<1>2. reservation[a] = r /\ frame[a].stable \in StableState
  BY <1>1 DEF ChainInv, ClaimOpen
<1>3. LegalEdge(frame[a], Event(k, None, None, i # 0))
  BY <1>1 DEF LegalEdge
<1>4. /\ Project(frame[a], Event(k, None, None, i # 0)).claim = NoClaim
      /\ Project(frame[a], Event(k, None, None, i # 0)).stable \in StableState
  BY <1>1, <1>2, <1>3, ClosingEdge
<1>5. /\ \A b \in Address : b # a => frame'[b] = frame[b] /\ reservation'[b] = reservation[b]
      /\ frame'[a] = Project(frame[a], Event(k, None, None, i # 0))
      /\ reservation'[a] = None
      /\ outcome' = [outcome EXCEPT ![r] = k]
  BY <1>1, <1>2 DEF AppendResolution, TypeOK
<1> QED
  BY <1>1, <1>4, <1>5 DEF ChainInv, IsOpen, NoClaim

LEMMA WholeWritten ==
    ASSUME TypeOK, ChainInv, NEW r \in Run, Admitted(r),
           op[r] \in SingleTransaction, NEW i \in Nat,
           NEW k \in {"refused", "observed", "adopt"},
           k = "observed" => i # 0 /\ op[r] # "adopt",
           k = "adopt" => i # 0 /\ op[r] = "adopt",
           AppendWhole(r, target[r], k, i), target' = target
    PROVE  /\ ChainInv'
           /\ ~IsOpen(frame[target[r]])
           /\ \A b \in Address : frame'[b].claim = frame[b].claim
           /\ outcome' = [outcome EXCEPT ![r] = k]
<1> DEFINE a == target[r]
           f == Project(frame[a], ClaimEvent(r))
           g == Project(f, Event(k, None, None, i # 0))
<1>1. a \in Address /\ frame[a] \in FrameType /\ ~IsOpen(frame[a])
  BY DEF TypeOK, Admitted
<1>2. ClaimKindOf(op[r]) \in ClaimKind /\ k \in EventKind \ {"executing", "indeterminate"}
  BY ClaimKinds
<1>3. /\ frame[a].stable \in StableState
      /\ f = Frame(frame[a].stable,
                   [kind |-> ClaimKindOf(op[r]), id |-> r, pair |-> None,
                    before |-> frame[a].stable, phase |-> "claimed"])
  BY <1>1, <1>2, OpeningEdge DEF Admitted, ClaimEvent
<1>4. f \in FrameType /\ IsOpen(f) /\ f.stable \in StableState
  BY ConstantsAssumption, <1>2, <1>3 DEF Frame, FrameType, ClaimRecord, Phase, IsOpen, NoClaim
<1>5. LegalEdge(f, Event(k, None, None, i # 0))
  <2>1. /\ f.claim.phase = "claimed"
        /\ op[r] = "adopt" => f.claim.kind = "adopt-intent"
        /\ op[r] # "adopt" => f.claim.kind = "intent"
    BY <1>3 DEF Frame, ClaimKindOf, SingleTransaction
  <2>2. ResolvingEdge(f.claim, Event(k, None, None, i # 0))
    <3> HIDE DEF f
    <3> QED
      BY <2>1 DEF ResolvingEdge, ResolvesThrough, Event, ClaimKind
  <2> QED
    BY <1>4, <2>2 DEF LegalEdge
<1>6. g.claim = NoClaim /\ g.stable \in StableState
  BY <1>2, <1>4, <1>5, ClosingEdge
<1>7. /\ \A b \in Address : b # a => frame'[b] = frame[b]
      /\ frame'[a] = g
      /\ reservation' = reservation
      /\ outcome' = [outcome EXCEPT ![r] = k]
  BY <1>1 DEF AppendWhole, TypeOK
<1>8. frame[a].claim = NoClaim
  BY <1>1, OpenFrame
<1> QED
  BY <1>1, <1>6, <1>7, <1>8 DEF ChainInv, IsOpen, NoClaim

(* A step that leaves the ledger as it is keeps the chains well formed.    *)
LEMMA ChainInvKept ==
    ASSUME ChainInv, UNCHANGED <<ledgerVars, target>> PROVE ChainInv'
BY DEF ChainInv, ledgerVars, IsOpen

(* A step of somebody else leaves the claims of the runs as they are, if   *)
(* it takes no index away that an open claim has created.                  *)
LEMMA RunInvKept ==
    ASSUME TypeOK, RunInv, UNCHANGED <<op, target, pc, stmt, rpc, effect, outcome>>,
           \A b \in Address : frame'[b].claim = frame[b].claim,
           \A q \in Run : ClaimOpen(q) /\ op[q] = "createConcurrently" /\ effect[q]
                           => live'[target[q]] # 0
    PROVE  RunInv'
<1>1. ASSUME NEW q \in Run
      PROVE  (BeforeClaim(q) /\ DuringClaim(q) /\ OpenClaimInv(q) /\ AfterClaim(q))'
  <2>1. frame'[target'[q]].claim = frame[target[q]].claim
    BY DEF TypeOK
  <2> QED
    BY <2>1 DEF RunInv, BeforeClaim, DuringClaim, OpenClaimInv, AfterClaim, ClaimOpen
<1> QED
  BY <1>1 DEF RunInv

(* A step that closes the claim of r, whose processes then have ended.     *)
LEMMA RunInvClosed ==
    ASSUME TypeOK, RunInv, NEW r \in Run, ClaimOpen(r),
           UNCHANGED <<op, target, stmt, effect, live>>,
           \A b \in Address : b # target[r] => frame'[b] = frame[b],
           frame'[target[r]].claim = NoClaim,
           \A q \in Run : q # r => /\ pc'[q] = pc[q]
                                   /\ rpc'[q] = rpc[q]
                                   /\ outcome'[q] = outcome[q],
           pc'[r] = "stopped", rpc'[r] = "idle",
           ~(stmt[r] = "running" /\ op[r] = "createConcurrently"),
           outcome'[r] = "refused" => ~effect[r] /\ stmt[r] # "running"
    PROVE  RunInv'
<1>1. r # None /\ op[r] \in OpKind
  BY ConstantsAssumption DEF RunInv, OpenClaimInv, OpKind
<1>2. ASSUME NEW q \in Run, q # r
      PROVE  /\ ~ClaimOpen(q)' <=> ~ClaimOpen(q)
             /\ ClaimOpen(q) => frame'[target[q]] = frame[target[q]]
  <2>1. CASE target[q] = target[r]
    BY <1>2, <2>1, ConstantsAssumption DEF ClaimOpen, NoClaim
  <2>2. CASE target[q] # target[r]
    BY <2>2 DEF ClaimOpen, TypeOK
  <2> QED
    BY <2>1, <2>2
<1>3. ~ClaimOpen(r)'
  BY ConstantsAssumption DEF ClaimOpen, NoClaim
<1>4. ASSUME NEW q \in Run
      PROVE  (BeforeClaim(q) /\ DuringClaim(q) /\ OpenClaimInv(q) /\ AfterClaim(q))'
  <2>1. CASE q = r
    BY <1>1, <1>3, <2>1 DEF BeforeClaim, DuringClaim, OpenClaimInv, AfterClaim
  <2>2. CASE q # r
    BY <1>2, <2>2 DEF RunInv, BeforeClaim, DuringClaim, OpenClaimInv, AfterClaim, ClaimOpen
  <2> QED
    BY <2>1, <2>2
<1> QED
  BY <1>4 DEF RunInv

(* A step that moves the phase of the claim of r.                          *)
LEMMA RunInvProgress ==
    ASSUME TypeOK, RunInv, NEW r \in Run, ClaimOpen(r),
           UNCHANGED <<op, target, stmt, effect, live, outcome>>,
           \A b \in Address : b # target[r] => frame'[b] = frame[b],
           NEW k \in {"executing", "indeterminate"},
           frame'[target[r]].claim = [frame[target[r]].claim EXCEPT !.phase = k],
           \A q \in Run : q # r => pc'[q] = pc[q] /\ rpc'[q] = rpc[q],
           \/ pc'[r] = "stopped"
           \/ pc'[r] = "sending" /\ stmt[r] = "none" /\ k = "executing"
    PROVE  RunInv'
<1>1. /\ frame[target[r]].claim \in ClaimRecord
      /\ op[r] \in OpKind
      /\ target[r] \in Address
  BY OpenFrame DEF RunInv, OpenClaimInv, OpKind, ClaimOpen, TypeOK
<1>2. /\ frame'[target[r]].claim.id = r
      /\ frame'[target[r]].claim.kind = frame[target[r]].claim.kind
      /\ frame'[target[r]].claim.phase = k
  BY <1>1 DEF ClaimRecord, ClaimOpen
<1>3. ASSUME NEW q \in Run, q # r
      PROVE  /\ ~ClaimOpen(q)' <=> ~ClaimOpen(q)
             /\ ClaimOpen(q) => frame'[target[q]] = frame[target[q]]
  <2>1. CASE target[q] = target[r]
    BY <1>2, <1>3, <2>1 DEF ClaimOpen
  <2>2. CASE target[q] # target[r]
    BY <2>2 DEF ClaimOpen, TypeOK
  <2> QED
    BY <2>1, <2>2
<1>4. ASSUME NEW q \in Run
      PROVE  (BeforeClaim(q) /\ DuringClaim(q) /\ OpenClaimInv(q) /\ AfterClaim(q))'
  <2>1. CASE q = r
    BY <1>1, <1>2, <2>1 DEF RunInv, BeforeClaim, DuringClaim, OpenClaimInv,
                            AfterClaim, ClaimOpen
  <2>2. CASE q # r
    BY <1>3, <2>2 DEF RunInv, BeforeClaim, DuringClaim, OpenClaimInv, AfterClaim, ClaimOpen
  <2> QED
    BY <2>1, <2>2
<1> QED
  BY <1>4 DEF RunInv

(* Every action preserves what is said of the chains and of the claims.    *)
LEMMA ClaimInvStep ==
    TypeOK /\ LockInv /\ ChainInv /\ RunInv /\ [Next]_vars => ChainInv' /\ RunInv'
<1> SUFFICES ASSUME TypeOK, LockInv, ChainInv, RunInv, [Next]_vars
             PROVE  ChainInv' /\ RunInv'
  OBVIOUS
<1> USE ConstantsAssumption
<1>A. \A r \in Run : target[r] \in Address
  BY DEF TypeOK
<1>T. /\ pc \in [Run -> BusyPc \cup {"idle", "stopped"}]
      /\ stmt \in [Run -> {"none", "running", "done", "failed"}]
      /\ rpc \in [Run -> {"idle", "selected"} \cup LockedRpc]
      /\ effect \in [Run -> BOOLEAN]
      /\ outcome \in [Run -> EventKind \cup {None}]
      /\ op \in [Run -> OpKind \cup {None}]
      /\ live \in [Address -> Identity]
      /\ frame \in [Address -> FrameType]
  BY DEF TypeOK
<1> USE DEF RunInv, BeforeClaim, DuringClaim, OpenClaimInv, AfterClaim, ClaimOpen
<1>1. ASSUME NEW r \in Run, Begin(r) PROVE ChainInv' /\ RunInv'
  <2>1. ChainInv'
    BY <1>1, ChainInvKept DEF Begin
  <2>2. RunInv'
    <3>1. op'[r] \in OpKind /\ \A q \in Run : q # r => op'[q] = op[q]
      BY <1>1, <1>T DEF Begin
    <3> QED
      BY <1>1, <1>T, <1>A, <3>1 DEF Begin, ledgerVars, catalogueVars, historyVars
  <2> QED
    BY <2>1, <2>2
<1>2. ASSUME NEW r \in Run, Precheck(r) PROVE ChainInv' /\ RunInv'
  <2>1. ChainInv'
    BY <1>2, ChainInvKept DEF Precheck, taskVars
  <2>2. RunInv'
    BY <1>2, <1>T, <1>A DEF Precheck, Stop, Goto, ledgerVars, catalogueVars,
                            taskVars, historyVars
  <2> QED
    BY <2>1, <2>2
<1>3. ASSUME NEW r \in Run, LockLedger(r) PROVE ChainInv' /\ RunInv'
  <2>1. ChainInv'
    BY <1>3, ChainInvKept DEF LockLedger, taskVars
  <2>2. RunInv'
    BY <1>3, <1>T, <1>A DEF LockLedger, Goto, ledgerVars, catalogueVars,
                            taskVars, historyVars
  <2> QED
    BY <2>1, <2>2
<1>4. ASSUME NEW r \in Run, LedgerBusy(r) PROVE ChainInv' /\ RunInv'
  <2>1. ChainInv'
    BY <1>4, ChainInvKept DEF LedgerBusy, taskVars
  <2>2. RunInv'
    BY <1>4, <1>T, <1>A DEF LedgerBusy, Stop, ledgerVars, catalogueVars,
                            taskVars, historyVars
  <2> QED
    BY <2>1, <2>2
<1>5. ASSUME NEW r \in Run, OpenClaim(r) PROVE ChainInv' /\ RunInv'
  <2>1. CASE Admitted(r)
    <3>1. AppendClaim(r, target[r]) /\ Goto(r, "claimed")
      BY <1>5, <2>1 DEF OpenClaim
    <3>2. target' = target
      BY <1>5 DEF OpenClaim, taskVars
    <3>3. /\ ChainInv'
          /\ ~IsOpen(frame[target[r]])
          /\ \A b \in Address : b # target[r] => frame'[b] = frame[b]
          /\ frame'[target[r]].claim =
               [kind |-> ClaimKindOf(op[r]), id |-> r, pair |-> None,
                before |-> frame[target[r]].stable, phase |-> "claimed"]
      BY <2>1, <3>1, <3>2, ClaimWritten
    <3>4. frame[target[r]].claim.id = None
      BY <3>3 DEF IsOpen, NoClaim
    <3>5. pc[r] = "opening" /\ op[r] \in {"createConcurrently", "retire"}
      BY <1>5 DEF OpenClaim, SingleTransaction, OpKind
    <3> QED
      BY <1>5, <1>T, <1>A, <3>1, <3>2, <3>3, <3>4, <3>5
         DEF OpenClaim, Goto, catalogueVars, taskVars, historyVars
  <2>2. CASE ~Admitted(r)
    <3>1. ChainInv'
      BY <1>5, <2>2, ChainInvKept DEF OpenClaim, taskVars
    <3>2. RunInv'
      BY <1>5, <2>2, <1>T, <1>A DEF OpenClaim, Stop, ledgerVars, catalogueVars,
                                    taskVars, historyVars
    <3> QED
      BY <3>1, <3>2
  <2> QED
    BY <2>1, <2>2
<1>6. ASSUME NEW r \in Run, Mark(r) PROVE ChainInv' /\ RunInv'
  <2> DEFINE occupied == op[r] \in RequiresVacancy /\ live[target[r]] # 0
  <2>1. /\ pc[r] = "marking" /\ ClaimOpen(r)
        /\ frame[target[r]].claim.phase = "claimed"
        /\ stmt[r] = "none"
        /\ target' = target
    BY <1>6 DEF Mark, taskVars
  <2>2. CASE occupied
    <3>1. ChainInv'
      BY <1>6, <2>2, ChainInvKept DEF Mark, taskVars
    <3>2. RunInv'
      BY <1>6, <2>2, <1>T, <1>A DEF Mark, Goto, ledgerVars, catalogueVars,
                                    taskVars, historyVars
    <3> QED
      BY <3>1, <3>2
  <2>3. CASE ~occupied
    <3>1. AppendProgress(target[r], "executing", 0) /\ Goto(r, "sending")
      BY <1>6, <2>3 DEF Mark
    <3>2. IsOpen(frame[target[r]]) /\ frame[target[r]].claim.kind \in {"intent", "retire-intent"}
      BY <2>1, <1>T, <1>A, OpenFrame DEF ClaimKindOf
    <3>3. /\ ChainInv'
          /\ \A b \in Address : b # target[r] => frame'[b] = frame[b]
          /\ frame'[target[r]].claim = [frame[target[r]].claim EXCEPT !.phase = "executing"]
      BY <1>A, <2>1, <3>1, <3>2, ProgressWritten
    <3>4. /\ UNCHANGED <<op, target, stmt, effect, live, outcome>>
          /\ \A q \in Run : q # r => pc'[q] = pc[q] /\ rpc'[q] = rpc[q]
          /\ pc'[r] = "sending" /\ stmt[r] = "none"
      BY <1>6, <1>T, <2>1, <3>1 DEF Mark, Goto, catalogueVars, taskVars, historyVars
    <3>5. RunInv'
      <4> HIDE DEF RunInv, ClaimOpen
      <4> QED
        BY <2>1, <3>3, <3>4, RunInvProgress
    <3> QED
      BY <3>3, <3>5
  <2> QED
    BY <2>2, <2>3
<1>7. ASSUME NEW r \in Run, Refuse(r) PROVE ChainInv' /\ RunInv'
  <2>1. /\ pc[r] = "refused" /\ ClaimOpen(r) /\ target' = target
        /\ frame[target[r]].claim.phase = "claimed"
        /\ frame[target[r]].claim.kind \in {"intent", "retire-intent"}
        /\ stmt[r] = "none" /\ ~effect[r]
    BY <1>7 DEF Refuse, taskVars, ClaimKindOf
  <2>2. rpc[r] = "idle"
    BY <2>1 DEF LockInv, BusyPc, LockedPc
  <2>3. /\ ResolvingEdge(frame[target[r]].claim, Event("refused", None, None, 0 # 0))
        /\ "refused" \in EventKind \ {"executing", "indeterminate"}
    BY <2>1, ClaimKinds DEF ResolvingEdge, ResolvesThrough, Event, ClaimKind
  <2>4. /\ ChainInv'
        /\ \A b \in Address : b # target[r] => frame'[b] = frame[b]
        /\ frame'[target[r]].claim = NoClaim
        /\ outcome' = [outcome EXCEPT ![r] = "refused"]
    BY <1>7, <2>1, <2>3, ResolutionWritten DEF Refuse
  <2>5. /\ UNCHANGED <<op, target, stmt, effect, live>>
        /\ \A q \in Run : q # r => /\ pc'[q] = pc[q]
                                   /\ rpc'[q] = rpc[q]
                                   /\ outcome'[q] = outcome[q]
        /\ pc'[r] = "stopped" /\ rpc'[r] = "idle"
    BY <1>7, <1>T, <2>2, <2>4 DEF Refuse, Stop, catalogueVars, taskVars
  <2>6. RunInv'
    <3> HIDE DEF RunInv, ClaimOpen
    <3> QED
      BY <2>1, <2>4, <2>5, RunInvClosed
  <2> QED
    BY <2>4, <2>6
<1>8. ASSUME NEW r \in Run, Send(r) PROVE ChainInv' /\ RunInv'
  <2>1. ChainInv'
    BY <1>8, ChainInvKept DEF Send, taskVars
  <2>2. /\ pc' = [pc EXCEPT ![r] = "running"]
        /\ stmt' = [stmt EXCEPT ![r] = "running"]
    BY <1>8 DEF Send, Goto
  <2>3. /\ pc[r] = "sending"
        /\ UNCHANGED <<op, target, rpc, effect, outcome, live, frame>>
    BY <1>8 DEF Send, ledgerVars, catalogueVars, taskVars, historyVars
  <2>4. RunInv'
    <3> SUFFICES ASSUME NEW q \in Run
                 PROVE  (BeforeClaim(q) /\ DuringClaim(q) /\ OpenClaimInv(q) /\ AfterClaim(q))'
      OBVIOUS
    <3>1. CASE q = r
      BY <1>T, <2>2, <2>3, <3>1 DEF None
    <3>2. CASE q # r
      BY <1>T, <2>2, <2>3, <3>2
    <3> QED
      BY <3>1, <3>2
  <2> QED
    BY <2>1, <2>4
<1>9. ASSUME NEW r \in Run, Receive(r) PROVE ChainInv' /\ RunInv'
  <2>1. ChainInv'
    BY <1>9, ChainInvKept DEF Receive, taskVars
  <2>2. \/ pc' = [pc EXCEPT ![r] = "ran"] /\ stmt[r] = "done"
        \/ pc' = [pc EXCEPT ![r] = "stopped"]
    BY <1>9 DEF Receive, Stop, Goto
  <2>3. /\ pc[r] = "running"
        /\ UNCHANGED <<op, target, stmt, rpc, effect, outcome, live, frame>>
    BY <1>9 DEF Receive, ledgerVars, catalogueVars, taskVars, historyVars
  <2>4. RunInv'
    <3> SUFFICES ASSUME NEW q \in Run
                 PROVE  (BeforeClaim(q) /\ DuringClaim(q) /\ OpenClaimInv(q) /\ AfterClaim(q))'
      OBVIOUS
    <3>1. CASE q = r
      BY <1>T, <2>2, <2>3, <3>1
    <3>2. CASE q # r
      BY <1>T, <2>2, <2>3, <3>2
    <3> QED
      BY <3>1, <3>2
  <2> QED
    BY <2>1, <2>4
<1>10. ASSUME NEW r \in Run, Record(r) PROVE ChainInv' /\ RunInv'
  <2> DEFINE a == target[r]
  <2>1. /\ pc[r] = "recording" /\ ClaimOpen(r) /\ target' = target
        /\ frame[a].claim.phase = "executing"
        /\ op[r] \in {"createConcurrently", "retire"}
        /\ frame[a].claim.kind = IF op[r] = "retire" THEN "retire-intent" ELSE "intent"
    BY <1>10 DEF Record, taskVars, ClaimKindOf
  <2>2. rpc[r] = "idle" /\ ~(stmt[r] = "running" /\ op[r] = "createConcurrently")
    BY <1>10, <2>1 DEF LockInv, BusyPc, LockedPc
  <2>3. /\ UNCHANGED <<op, target, stmt, effect, live>>
        /\ \A q \in Run : q # r => pc'[q] = pc[q] /\ rpc'[q] = rpc[q]
        /\ pc'[r] = "stopped" /\ rpc'[r] = "idle"
    BY <1>10, <1>T, <2>2 DEF Record, Stop, catalogueVars, taskVars
  <2>4. ASSUME NEW k \in {"observed", "absent"}, AppendResolution(r, a, k, IF k = "observed" THEN live[a] ELSE 0),
               k = "observed" => op[r] # "retire" /\ live[a] # 0,
               k = "absent" => op[r] = "retire"
        PROVE  ChainInv' /\ RunInv'
    <3> DEFINE i == IF k = "observed" THEN live[a] ELSE 0
    <3>1. /\ ResolvingEdge(frame[a].claim, Event(k, None, None, i # 0))
          /\ k \in EventKind \ {"executing", "indeterminate"}
      BY <2>1, <2>4, ClaimKinds DEF ResolvingEdge, ResolvesThrough, Event, ClaimKind
    <3>2. /\ ChainInv'
          /\ \A b \in Address : b # a => frame'[b] = frame[b]
          /\ frame'[a].claim = NoClaim
          /\ outcome' = [outcome EXCEPT ![r] = k]
      BY <2>1, <2>4, <3>1, ResolutionWritten
    <3>3. /\ outcome'[r] # "refused"
          /\ \A q \in Run : q # r => outcome'[q] = outcome[q]
      BY <1>T, <3>2
    <3>4. RunInv'
      <4> HIDE DEF RunInv, ClaimOpen
      <4> QED
        BY <2>1, <2>2, <2>3, <3>2, <3>3, RunInvClosed
    <3> QED
      BY <3>2, <3>4
  <2>5. ASSUME AppendProgress(a, "indeterminate", 0), outcome' = outcome
        PROVE  ChainInv' /\ RunInv'
    <3>1. IsOpen(frame[a]) /\ frame[a].claim.kind \in {"intent", "retire-intent"}
      BY <2>1, <1>T, <1>A, OpenFrame
    <3>2. /\ ChainInv'
          /\ \A b \in Address : b # a => frame'[b] = frame[b]
          /\ frame'[a].claim = [frame[a].claim EXCEPT !.phase = "indeterminate"]
      BY <1>A, <2>1, <2>5, <3>1, ProgressWritten
    <3>3. RunInv'
      <4> HIDE DEF RunInv, ClaimOpen
      <4> QED
        BY <2>1, <2>3, <2>5, <3>2, RunInvProgress
    <3> QED
      BY <3>2, <3>3
  <2>6. ASSUME UNCHANGED <<ledgerVars, outcome>> PROVE ChainInv' /\ RunInv'
    <3>1. ChainInv'
      BY <2>3, <2>6, ChainInvKept
    <3>2. /\ pc' = [pc EXCEPT ![r] = "stopped"]
          /\ UNCHANGED <<op, target, stmt, rpc, effect, outcome, live, frame>>
      BY <1>10, <2>3, <2>6 DEF Record, Stop, ledgerVars
    <3>3. RunInv'
      <4> SUFFICES ASSUME NEW q \in Run
                   PROVE  (BeforeClaim(q) /\ DuringClaim(q) /\ OpenClaimInv(q) /\ AfterClaim(q))'
        OBVIOUS
      <4>1. CASE q = r
        BY <1>T, <2>1, <3>2, <4>1
      <4>2. CASE q # r
        BY <1>T, <3>2, <4>2
      <4> QED
        BY <4>1, <4>2
    <3> QED
      BY <3>1, <3>3
  <2> QED
    BY <1>10, <2>4, <2>5, <2>6 DEF Record
<1>11. ASSUME NEW r \in Run, Transact(r) PROVE ChainInv' /\ RunInv'
  <2> DEFINE a == target[r]
  <2>1. /\ pc[r] = "opening" /\ op[r] \in SingleTransaction
        /\ ~ClaimOpen(r) /\ stmt[r] = "none" /\ ~effect[r] /\ outcome[r] = None
        /\ pc' = [pc EXCEPT ![r] = "stopped"]
        /\ UNCHANGED <<op, target, stmt, rpc>>
    BY <1>11 DEF Transact, Stop, taskVars
  <2>2. CASE RolledBack(r)
    <3>1. ChainInv'
      BY <2>1, <2>2, ChainInvKept DEF RolledBack
    <3>2. UNCHANGED <<effect, outcome, live, frame>>
      BY <2>2 DEF RolledBack, ledgerVars, catalogueVars, historyVars
    <3>3. RunInv'
      BY <1>T, <1>A, <2>1, <3>2
    <3> QED
      BY <3>1, <3>3
  <2>3. CASE ~RolledBack(r)
    <3>1. Admitted(r) /\ ~IsOpen(frame[a])
      BY <1>11, <2>3 DEF Transact, Admitted
    <3>2. \E k \in {"refused", "observed", "adopt"}, i \in Nat :
            /\ k = "observed" => i # 0 /\ op[r] # "adopt"
            /\ k = "adopt" => i # 0 /\ op[r] = "adopt"
            /\ AppendWhole(r, a, k, i)
            /\ k = "refused" => effect' = effect
      <4>1. CASE RefusedInTransaction(r)
        BY <1>11, <2>3, <4>1 DEF Transact
      <4>2. CASE ~RefusedInTransaction(r)
        <5>1. Effected(r) /\ live[a] \in Nat /\ minted \in Nat
          BY <1>11, <1>T, <1>A, <2>3, <4>2 DEF Transact, TypeOK, Identity
        <5>2. CASE op[r] = "create"
          <6>1. AppendWhole(r, a, "observed", minted + 1) /\ minted + 1 \in Nat
                /\ minted + 1 # 0
            BY <5>1, <5>2 DEF Effected
          <6> QED
            BY <5>2, <6>1
        <5>3. CASE op[r] = "modify"
          BY <5>1, <5>3 DEF Effected
        <5>4. CASE op[r] = "adopt"
          BY <5>1, <5>4, <4>2 DEF Effected, RefusedInTransaction
        <5> QED
          BY <2>1, <5>2, <5>3, <5>4 DEF SingleTransaction
      <4> QED
        BY <4>1, <4>2
    <3>3. PICK k \in {"refused", "observed", "adopt"}, i \in Nat :
            /\ k = "observed" => i # 0 /\ op[r] # "adopt"
            /\ k = "adopt" => i # 0 /\ op[r] = "adopt"
            /\ AppendWhole(r, a, k, i)
            /\ k = "refused" => effect' = effect
      BY <3>2
    <3>4. /\ ChainInv'
          /\ \A b \in Address : frame'[b].claim = frame[b].claim
          /\ outcome' = [outcome EXCEPT ![r] = k]
      <4> HIDE DEF RunInv, ClaimOpen, BeforeClaim, DuringClaim, OpenClaimInv, AfterClaim
      <4>1. target' = target /\ op[r] \in SingleTransaction
        BY <2>1
      <4>2. /\ k = "observed" => i # 0 /\ op[r] # "adopt"
            /\ k = "adopt" => i # 0 /\ op[r] = "adopt"
            /\ AppendWhole(r, target[r], k, i)
        BY <3>3
      <4>3. Admitted(r)
        BY <3>1
      <4> QED
        BY <4>1, <4>2, <4>3, WholeWritten
    <3>5. /\ \A b \in Address : live'[b] = live[b] \/ b = a
          /\ effect' = effect \/ effect' = [effect EXCEPT ![r] = TRUE]
      BY <1>11, <1>T, <1>A, <2>3 DEF Transact, Effected, catalogueVars
    <3>6. RunInv'
      <4> SUFFICES ASSUME NEW q \in Run
                   PROVE  (BeforeClaim(q) /\ DuringClaim(q) /\ OpenClaimInv(q) /\ AfterClaim(q))'
        OBVIOUS
      <4>1. frame'[target'[q]].claim = frame[target[q]].claim
        BY <1>A, <2>1, <3>4
      <4>2. CASE q = r
        BY <1>T, <2>1, <3>3, <3>4, <4>1, <4>2
      <4>3. CASE q # r
        <5>1. ClaimOpen(q) => target[q] # a
          BY <1>T, <1>A, <3>1, OpenFrame
        <5>2. /\ effect'[q] = effect[q] /\ outcome'[q] = outcome[q] /\ pc'[q] = pc[q]
              /\ ClaimOpen(q) => live'[target[q]] = live[target[q]]
          BY <1>T, <1>A, <2>1, <3>4, <3>5, <4>3, <5>1
        <5> QED
          BY <2>1, <4>1, <5>2
      <4> QED
        BY <4>2, <4>3
    <3> QED
      BY <3>4, <3>6
  <2> QED
    BY <2>2, <2>3
<1>12. ASSUME NEW r \in Run, StatementEnds(r) PROVE ChainInv' /\ RunInv'
  <2> DEFINE a == target[r]
  <2>1. ChainInv'
    BY <1>12, ChainInvKept DEF StatementEnds, taskVars
  <2>2. /\ stmt[r] = "running" /\ outcome[r] # "refused"
        /\ UNCHANGED <<op, target, pc, rpc, outcome, frame>>
        /\ stmt' = [stmt EXCEPT ![r] = "done"] \/ stmt' = [stmt EXCEPT ![r] = "failed"]
        /\ effect' = effect \/ effect' = [effect EXCEPT ![r] = TRUE]
    BY <1>12 DEF StatementEnds, ledgerVars, taskVars
  <2>3. /\ pc[r] \in {"running", "stopped"}
        /\ ClaimOpen(r) => frame[a].claim.phase # "claimed"
    BY <1>T, <2>2 DEF BusyPc, LockedPc
  <2>4. /\ \A b \in Address : b # a => live'[b] = live[b]
        /\ op[r] = "createConcurrently" /\ effect'[r] => live'[a] # 0 \/ effect[r]
        /\ op[r] # "retire" /\ live[a] # 0 => live'[a] # 0
        /\ op[r] = "retire" /\ live' # live => ClaimOpen(r) \/ ~Excluded(a)
    <3>1. minted + 1 # 0
      BY DEF TypeOK, Identity
    <3> QED
      BY <1>12, <1>T, <1>A, <3>1 DEF StatementEnds, catalogueVars
  <2>5. RunInv'
    <3> SUFFICES ASSUME NEW q \in Run
                 PROVE  (BeforeClaim(q) /\ DuringClaim(q) /\ OpenClaimInv(q) /\ AfterClaim(q))'
      OBVIOUS
    <3>1. ClaimOpen(q)' <=> ClaimOpen(q)
      BY <2>2
    <3>2. CASE q = r
      BY <1>T, <2>2, <2>3, <2>4, <3>2
    <3>3. CASE q # r
      <4>1. /\ stmt'[q] = stmt[q] /\ effect'[q] = effect[q]
        BY <1>T, <2>2, <3>3
      <4>2. ASSUME ClaimOpen(q), op[q] = "createConcurrently", effect[q]
            PROVE  live'[target[q]] # 0
        <5>1. Excluded(target[q]) /\ live[target[q]] # 0
          BY <4>2 DEF Excluded, ExclusionAccepted
        <5>2. ClaimOpen(r) => target[q] # a
          BY <4>2, <3>3
        <5> QED
          BY <1>A, <2>4, <5>1, <5>2
      <4> QED
        BY <2>2, <4>1, <4>2
    <3> QED
      BY <3>2, <3>3
  <2> QED
    BY <2>1, <2>5
<1>13. ASSUME NEW r \in Run, ApplyFails(r) PROVE ChainInv' /\ RunInv'
  <2>1. ChainInv'
    BY <1>13, ChainInvKept DEF ApplyFails, taskVars
  <2>2. /\ pc' = [pc EXCEPT ![r] = "stopped"]
        /\ pc[r] # "idle"
        /\ UNCHANGED <<op, target, stmt, rpc, effect, outcome, live, frame>>
    BY <1>13 DEF ApplyFails, Stop, ledgerVars, catalogueVars, taskVars,
                 historyVars, BusyPc, LockedPc
  <2>3. RunInv'
    <3> SUFFICES ASSUME NEW q \in Run
                 PROVE  (BeforeClaim(q) /\ DuringClaim(q) /\ OpenClaimInv(q) /\ AfterClaim(q))'
      OBVIOUS
    <3>1. CASE q = r
      BY <1>T, <2>2, <3>1
    <3>2. CASE q # r
      BY <1>T, <2>2, <3>2
    <3> QED
      BY <3>1, <3>2
  <2> QED
    BY <2>1, <2>3
<1>14. ASSUME NEW a \in Address, Release(a) PROVE ChainInv' /\ RunInv'
  <2>1. frame[a].claim = NoClaim /\ frame[a] \in FrameType
    BY <1>14, <1>T, OpenFrame DEF Release
  <2>2. Project(frame[a], Event("released", None, None, FALSE)) = Frame("unknown", NoClaim)
    BY <1>14 DEF Release, Project, LegalEdge, InterpretEdge, Event
  <2>3. /\ frame'[a] = Frame("unknown", NoClaim)
        /\ \A b \in Address : b # a => frame'[b] = frame[b]
        /\ target' = target /\ reservation' = reservation
    BY <1>14, <1>T, <2>2 DEF Release, taskVars
  <2>4. /\ frame'[a].claim = NoClaim
        /\ frame'[a].stable \in StableState
    BY <2>3 DEF Frame, StableState
  <2>5. ChainInv'
    BY <2>1, <2>3, <2>4 DEF ChainInv, IsOpen
  <2>6. \A b \in Address : frame'[b].claim = frame[b].claim
    BY <2>1, <2>3, <2>4
  <2>7. RunInv'
    BY <1>14, <2>6, RunInvKept DEF Release, catalogueVars, taskVars, historyVars
  <2> QED
    BY <2>5, <2>7
<1>15. ASSUME NEW r \in Run, ReconcileStart(r) PROVE ChainInv' /\ RunInv'
  <2>1. ChainInv'
    BY <1>15, ChainInvKept DEF ReconcileStart, taskVars
  <2>2. RunInv'
    BY <1>15, <1>T, <1>A DEF ReconcileStart, ledgerVars, catalogueVars,
                             taskVars, historyVars
  <2> QED
    BY <2>1, <2>2
<1>16. ASSUME NEW r \in Run, ReconcileLock(r) PROVE ChainInv' /\ RunInv'
  <2>1. ChainInv'
    BY <1>16, ChainInvKept DEF ReconcileLock, taskVars
  <2>2. RunInv'
    BY <1>16, <1>T, <1>A DEF ReconcileLock, ledgerVars, catalogueVars,
                             taskVars, historyVars
  <2> QED
    BY <2>1, <2>2
<1>17. ASSUME NEW r \in Run, ReconcileBusy(r) PROVE ChainInv' /\ RunInv'
  <2>1. ChainInv'
    BY <1>17, ChainInvKept DEF ReconcileBusy, taskVars
  <2>2. RunInv'
    BY <1>17, <1>T, <1>A DEF ReconcileBusy, EndReconcile, ledgerVars,
                             catalogueVars, taskVars, historyVars
  <2> QED
    BY <2>1, <2>2
<1>18. ASSUME NEW r \in Run, ReconcileRead(r) PROVE ChainInv' /\ RunInv'
  <2>1. ChainInv'
    BY <1>18, ChainInvKept DEF ReconcileRead, taskVars
  <2>2. RunInv'
    BY <1>18, <1>T, <1>A DEF ReconcileRead, EndReconcile, ledgerVars,
                             catalogueVars, taskVars, historyVars
  <2> QED
    BY <2>1, <2>2
<1>19. ASSUME NEW r \in Run, ReconcileAppend(r) PROVE ChainInv' /\ RunInv'
  <2> DEFINE a == target[r]
             k == Recovery(r)
  <2>1. /\ rpc[r] = "read" /\ ClaimOpen(r) /\ target' = target
        /\ frame[a].claim \in ClaimRecord /\ IsOpen(frame[a])
        /\ op[r] \in {"createConcurrently", "retire"}
        /\ frame[a].claim.kind = IF op[r] = "retire" THEN "retire-intent" ELSE "intent"
    BY <1>19, <1>T, <1>A, OpenFrame DEF ReconcileAppend, taskVars, ClaimKindOf
  <2>2. /\ pc[r] = "stopped"
        /\ ~(stmt[r] = "running" /\ op[r] = "createConcurrently")
    BY <1>T, <2>1 DEF LockInv, OnRunLockSession
  <2>3. /\ UNCHANGED <<op, target, pc, stmt, effect, live>>
        /\ rpc' = [rpc EXCEPT ![r] = "idle"]
    BY <1>19 DEF ReconcileAppend, EndReconcile, catalogueVars, taskVars
  <2>4. \/ UNCHANGED <<ledgerVars, outcome>>
        \/ /\ Appends(k) /\ k = "indeterminate"
           /\ AppendProgress(a, "indeterminate", live[a]) /\ outcome' = outcome
        \/ /\ Appends(k) /\ k # "indeterminate"
           /\ AppendResolution(r, a, k, live[a])
    BY <1>19 DEF ReconcileAppend
  <2>5. ASSUME Appends(k)
        PROVE  /\ ResolvingEdge(frame[a].claim, Event(k, None, None, live[a] # 0))
               /\ k \in {"refused", "observed", "absent", "indeterminate", "resolved"}
    <3>1. /\ (live[a] # 0) \in BOOLEAN
          /\ (op[r] \in ExclusionAccepted) \in BOOLEAN
          /\ (op[r] \in ExclusionAccepted \/ r \in VerifiedRun) \in BOOLEAN
      OBVIOUS
    <3> QED
      BY <2>1, <2>5, <3>1, RecoveryAppendsLegalEdge, RecoveryKind DEF Recovery
  <2>6. ASSUME Appends(k), k # "indeterminate", AppendResolution(r, a, k, live[a])
        PROVE  ChainInv' /\ RunInv'
    <3>1. k \in EventKind \ {"executing", "indeterminate"}
      BY <2>5, <2>6, ClaimKinds
    <3>2. /\ ChainInv'
          /\ \A b \in Address : b # a => frame'[b] = frame[b]
          /\ frame'[a].claim = NoClaim
          /\ outcome' = [outcome EXCEPT ![r] = k]
      BY <2>1, <2>5, <2>6, <3>1, ResolutionWritten
    <3>3. /\ outcome'[r] = k
          /\ \A q \in Run : q # r => /\ pc'[q] = pc[q]
                                     /\ rpc'[q] = rpc[q]
                                     /\ outcome'[q] = outcome[q]
          /\ pc'[r] = "stopped" /\ rpc'[r] = "idle"
      BY <1>T, <2>2, <2>3, <3>2
    <3>4. k = "refused" => ~effect[r] /\ stmt[r] # "running"
      <4> SUFFICES ASSUME k = "refused" PROVE ~effect[r] /\ stmt[r] # "running"
        OBVIOUS
      <4>1. CASE frame[a].claim.phase = "claimed"
        BY <2>1, <4>1
      <4>2. CASE frame[a].claim.phase # "claimed"
        <5>1. /\ op[r] = "createConcurrently"
              /\ live[a] = 0
          BY <2>1, <4>2 DEF Recovery, ReadBackEffect, ClassifyRecovery,
             ClassifyExecutingIntent, ClassifyIndeterminate
        <5> QED
          BY <2>1, <2>2, <5>1
      <4> QED
        BY <4>1, <4>2
    <3>5. RunInv'
      <4> HIDE DEF RunInv, ClaimOpen
      <4> QED
        BY <2>1, <2>2, <2>3, <3>2, <3>3, <3>4, RunInvClosed
    <3> QED
      BY <3>2, <3>5
  <2>7. ASSUME Appends(k), k = "indeterminate", outcome' = outcome,
               AppendProgress(a, "indeterminate", live[a])
        PROVE  ChainInv' /\ RunInv'
    <3>1. /\ frame[a].claim.phase # "indeterminate"
          /\ frame[a].claim.kind \in {"intent", "retire-intent"}
      BY <2>1, <2>5, <2>7 DEF ResolvingEdge, Event
    <3>2. /\ ChainInv'
          /\ \A b \in Address : b # a => frame'[b] = frame[b]
          /\ frame'[a].claim = [frame[a].claim EXCEPT !.phase = "indeterminate"]
      BY <1>A, <2>1, <2>7, <3>1, ProgressWritten
    <3>3. \A q \in Run : q # r => pc'[q] = pc[q] /\ rpc'[q] = rpc[q]
      BY <1>T, <2>3
    <3>4. RunInv'
      <4> HIDE DEF RunInv, ClaimOpen
      <4> QED
        BY <2>1, <2>2, <2>3, <2>7, <3>2, <3>3, RunInvProgress
    <3> QED
      BY <3>2, <3>4
  <2>8. ASSUME UNCHANGED <<ledgerVars, outcome>> PROVE ChainInv' /\ RunInv'
    <3>1. ChainInv'
      BY <2>3, <2>8, ChainInvKept
    <3>2. RunInv'
      <4> SUFFICES ASSUME NEW q \in Run
                   PROVE  (BeforeClaim(q) /\ DuringClaim(q) /\ OpenClaimInv(q) /\ AfterClaim(q))'
        OBVIOUS
      <4>1. frame' = frame /\ outcome' = outcome
        BY <2>8 DEF ledgerVars
      <4>2. rpc'[q] # "idle" => rpc[q] # "idle"
        BY <1>T, <2>3
      <4> QED
        BY <2>3, <4>1, <4>2
    <3> QED
      BY <3>1, <3>2
  <2> QED
    BY <2>4, <2>6, <2>7, <2>8
<1>20. ASSUME NEW r \in Run, ReconcileFails(r) PROVE ChainInv' /\ RunInv'
  <2>1. ChainInv'
    BY <1>20, ChainInvKept DEF ReconcileFails, taskVars
  <2>2. RunInv'
    BY <1>20, <1>T, <1>A DEF ReconcileFails, EndReconcile, ledgerVars,
                             catalogueVars, taskVars, historyVars
  <2> QED
    BY <2>1, <2>2
<1>21. ASSUME NEW a \in Address, ExternalCreate(a) PROVE ChainInv' /\ RunInv'
  <2>1. ChainInv'
    BY <1>21, ChainInvKept DEF ExternalCreate, taskVars
  <2>2. \A b \in Address : live[b] # 0 => live'[b] # 0
    BY <1>21, <1>T DEF ExternalCreate
  <2>3. RunInv'
    BY <1>21, <1>A, <2>2, RunInvKept DEF ExternalCreate, ledgerVars, taskVars, historyVars
  <2> QED
    BY <2>1, <2>3
<1>22. ASSUME NEW a \in Address, ExternalDrop(a) PROVE ChainInv' /\ RunInv'
  <2>1. ChainInv'
    BY <1>22, ChainInvKept DEF ExternalDrop, taskVars
  <2>2. \A q \in Run : ClaimOpen(q) /\ op[q] = "createConcurrently" /\ effect[q]
                        => live'[target[q]] # 0
    <3> SUFFICES ASSUME NEW q \in Run, ClaimOpen(q), op[q] = "createConcurrently",
                        effect[q]
                 PROVE  live'[target[q]] # 0
      OBVIOUS
    <3>1. Excluded(target[q])
      BY DEF Excluded, ExclusionAccepted
    <3>2. target[q] # a
      BY <1>22, <3>1 DEF ExternalDrop
    <3> QED
      BY <1>22, <1>T, <1>A, <3>2 DEF ExternalDrop
  <2>3. RunInv'
    BY <1>22, <2>2, RunInvKept DEF ExternalDrop, ledgerVars, taskVars, historyVars
  <2> QED
    BY <2>1, <2>3
<1>23. CASE UNCHANGED vars
  <2>1. ChainInv'
    BY <1>23, ChainInvKept DEF vars, taskVars
  <2>2. RunInv'
    BY <1>23 DEF vars, ledgerVars, catalogueVars, taskVars, historyVars
  <2> QED
    BY <2>1, <2>2
<1> QED
  BY <1>1, <1>2, <1>3, <1>4, <1>5, <1>6, <1>7, <1>8, <1>9, <1>10, <1>11, <1>12,
     <1>13, <1>14, <1>15, <1>16, <1>17, <1>18, <1>19, <1>20, <1>21, <1>22, <1>23
     DEF Next, ApplyStep, ReconcileStep

-----------------------------------------------------------------------------
(* The results.                                                            *)

LEMMA IInvInit == Init => IInv
<1> SUFFICES ASSUME Init PROVE IInv
  OBVIOUS
<1>1. 0 \in Identity /\ 0 \in 0 .. MaxFaults /\ RootFrame \in FrameType
  BY ConstantsAssumption DEF Identity, RootFrame, Frame, FrameType, StableState
<1>2. TypeOK
  BY <1>1 DEF Init, TypeOK, BusyPc, LockedPc
<1>3. LockInv
  BY DEF Init, LockInv, BusyPc, LockedPc, LockedRpc
<1>4. RootFrame.stable \in StableState /\ RootFrame.claim = NoClaim
  BY DEF RootFrame, Frame, StableState
<1>5. ChainInv
  BY <1>4 DEF Init, ChainInv, IsOpen, NoClaim
<1>6. RunInv
  BY <1>4, ConstantsAssumption
     DEF Init, TypeOK, RunInv, BeforeClaim, DuringClaim, OpenClaimInv,
         AfterClaim, ClaimOpen, NoClaim, None
<1> QED
  BY <1>2, <1>3, <1>5, <1>6 DEF IInv

(* The inductive invariant: the type, the two locks, the chains and what   *)
(* every place of a run says of its claim.                                 *)
THEOREM InductiveInvariant == Spec => []IInv
<1>1. IInv /\ [Next]_vars => IInv'
  BY TypeOKStep, LockInvStep, ClaimInvStep DEF IInv
<1> QED
  BY <1>1, IInvInit, PTL DEF Spec

(* In every behaviour the reservation row of an address names exactly the  *)
(* claim its chain has open.                                               *)
THEOREM ReservationsMirrorClaims == Spec => []ReservationMirrorsClaim
<1>1. IInv => ReservationMirrorsClaim
  BY DEF IInv, ChainInv, ReservationMirrorsClaim
<1> QED
  BY <1>1, InductiveInvariant, PTL

(* No interleaving of executors, reconcilers and crashes breaks a chain.   *)
THEOREM ChainsStayLegal == Spec => []ChainNeverMalformed
<1>1. IInv => ChainNeverMalformed
  BY DEF IInv, ChainInv, ChainNeverMalformed, Malformed, Frame, StableState
<1> QED
  BY <1>1, InductiveInvariant, PTL

(* Nobody takes a claim from an executor that is still alive.              *)
THEOREM ExecutorsKeepTheirClaims == Spec => []ExecutorKeepsItsClaim
<1>1. IInv => ExecutorKeepsItsClaim
  BY DEF IInv, RunInv, DuringClaim, ExecutorKeepsItsClaim
<1> QED
  BY <1>1, InductiveInvariant, PTL

(* `refused` is the truth: the run it closes changed nothing, and nothing  *)
(* of it is left on the server that could.                                 *)
THEOREM RefusedIsTrue == Spec => []RefusedMeansNoEffect
<1>1. IInv => RefusedMeansNoEffect
  BY DEF IInv, RunInv, AfterClaim, RefusedMeansNoEffect
<1> QED
  BY <1>1, InductiveInvariant, PTL

(* The DDL of a concurrent creation takes effect only while its own claim  *)
(* is open, even when the process that sent it is dead.                    *)
THEOREM EffectsUnderOwnClaim == Spec => EffectUnderOwnClaim
<1> DEFINE A == \A r \in Run :
         op[r] = "createConcurrently" /\ effect'[r] # effect[r] => ClaimOpen(r)
<1>1. IInv /\ [Next]_vars => [A]_vars
  <2> SUFFICES ASSUME IInv, Next PROVE A
    OBVIOUS
  <2> SUFFICES ASSUME NEW r \in Run, op[r] = "createConcurrently",
                      effect'[r] # effect[r]
               PROVE  ClaimOpen(r)
    OBVIOUS
  <2>1. effect \in [Run -> BOOLEAN]
    BY DEF IInv, TypeOK
  <2>2. ASSUME NEW q \in Run, Transact(q) PROVE ClaimOpen(r)
    <3>1. q # r
      BY <2>2 DEF Transact, SingleTransaction
    <3> QED
      BY <2>1, <2>2, <3>1 DEF Transact, RolledBack, Effected, historyVars
  <2>3. ASSUME NEW q \in Run, StatementEnds(q) PROVE ClaimOpen(r)
    <3>1. q = r
      BY <2>1, <2>3 DEF StatementEnds
    <3> QED
      BY <2>3, <3>1 DEF StatementEnds, IInv, RunInv, AfterClaim
  <2>4. (\E q \in Run : Transact(q) \/ StatementEnds(q)) \/ effect' = effect
    BY DEF Next, ApplyStep, ReconcileStep, Begin, Precheck, LockLedger,
           LedgerBusy, OpenClaim, Mark, Refuse, Send, Receive, Record,
           ApplyFails, Release, ReconcileStart, ReconcileLock, ReconcileBusy,
           ReconcileRead, ReconcileAppend, ReconcileFails, ExternalCreate,
           ExternalDrop, historyVars
  <2> QED
    BY <2>2, <2>3, <2>4
<1> QED
  BY <1>1, InductiveInvariant, PTL DEF Spec, EffectUnderOwnClaim

-----------------------------------------------------------------------------
(* A creation records its own object.                                      *)

(* The statement of a concurrent creation that has succeeded has created;  *)
(* and while the claim of the run is open, what it created is what stands  *)
(* at the address: the accepted exclusion keeps everybody else off it.     *)
MadeInv ==
    \A r \in Run : op[r] = "createConcurrently" =>
        /\ stmt[r] = "done" => effect[r]
        /\ ClaimOpen(r) /\ effect[r] => live[target[r]] = made[r]

(* An event that is no claim never puts another claim into a frame.        *)
LEMMA ProjectKeepsClaim ==
    ASSUME NEW f \in FrameType, NEW k \in EventKind \ ClaimKind, NEW o \in BOOLEAN
    PROVE  Project(f, Event(k, None, None, o)).claim.id \in {f.claim.id, None}
<1> DEFINE e == Event(k, None, None, o)
<1>1. CASE ~LegalEdge(f, e)
  BY <1>1 DEF Project, Malformed, Frame, NoClaim
<1>2. CASE LegalEdge(f, e) /\ ~IsOpen(f)
  BY <1>2 DEF Project, InterpretEdge, LegalEdge, OpensClaim, Event, Frame,
              NoClaim
<1>3. CASE LegalEdge(f, e) /\ IsOpen(f)
  <2>1. f.claim \in ClaimRecord
    BY <1>3, OpenFrame
  <2>2. k \in {"refused", "observed", "absent", "resolved", "adopt",
               "readdressed-to", "readdressed-from", "executing",
               "indeterminate"}
    BY <1>3, <2>1 DEF LegalEdge, ResolvingEdge, ResolvesThrough, Event,
                      ClaimKind, ClaimRecord
  <2>3. Project(f, e) = ResolvedFrame(f, e)
    BY <1>3 DEF Project, InterpretEdge
  <2>4. CASE k \in {"executing", "indeterminate"}
    <3>1. ResolvedFrame(f, e) = Frame(f.stable, [f.claim EXCEPT !.phase = k])
      BY <2>4 DEF ResolvedFrame, Event
    <3>2. [f.claim EXCEPT !.phase = k].id = f.claim.id
      BY <2>1 DEF ClaimRecord
    <3>3. \A c : Frame(f.stable, c).claim = c
      BY DEF Frame
    <3> QED
      BY <2>3, <3>1, <3>2, <3>3
  <2>5. CASE k \notin {"executing", "indeterminate"}
    <3>1. ResolvedFrame(f, e).claim = NoClaim
      BY <2>1, <2>2, <2>5 DEF ResolvedFrame, Event, Frame
    <3> QED
      BY <2>3, <3>1 DEF NoClaim
  <2> QED
    BY <2>4, <2>5
<1> QED
  BY <1>1, <1>2, <1>3

(* The claim event of a run puts the claim of that run into a frame.       *)
LEMMA ProjectOpensClaim ==
    ASSUME NEW f \in FrameType, ~IsOpen(f), NEW q \in Run,
           LegalEdge(f, ClaimEvent(q))
    PROVE  Project(f, ClaimEvent(q)).claim.id = q
<1>1. Project(f, ClaimEvent(q)) =
        Frame(f.stable, [kind |-> ClaimKindOf(op[q]), id |-> q, pair |-> None,
                         before |-> f.stable, phase |-> "claimed"])
  BY ClaimKinds, OpeningEdge DEF ClaimEvent
<1>2. \A c : Frame(f.stable, c).claim = c
  BY DEF Frame
<1> QED
  BY <1>1, <1>2

(* Only its own opening transaction opens the claim of a run.              *)
LEMMA OnlyItsOwnerOpensAClaim ==
    ASSUME IInv, IInv', Next, NEW r \in Run, ~ClaimOpen(r), ClaimOpen(r)'
    PROVE  OpenClaim(r)
<1> USE ConstantsAssumption
<1>0. /\ target \in [Run -> Address] /\ frame \in [Address -> FrameType]
      /\ target' = target /\ target[r] \in Address
  BY DEF IInv, TypeOK, Next, ApplyStep, ReconcileStep, Begin, Precheck,
         LockLedger, LedgerBusy, OpenClaim, Mark, Refuse, Send, Receive,
         Record, Transact, StatementEnds, ApplyFails, Release, ReconcileStart,
         ReconcileLock, ReconcileBusy, ReconcileRead, ReconcileAppend,
         ReconcileFails, ExternalCreate, ExternalDrop, taskVars
<1>1. /\ frame[target[r]].claim.id # r
      /\ frame'[target[r]].claim.id = r
      /\ r # None
  BY <1>0 DEF ClaimOpen
<1>E. {"executing", "indeterminate", "released", "refused", "observed",
       "absent", "resolved"} \subseteq EventKind \ ClaimKind
  BY ClaimKinds DEF ClaimKind
<1>2. ASSUME NEW a \in Address, NEW k \in EventKind \ ClaimKind, NEW o \in BOOLEAN,
             frame' = [frame EXCEPT ![a] = Project(@, Event(k, None, None, o))]
      PROVE  FALSE
  <2>1. Project(frame[a], Event(k, None, None, o)).claim.id
          \in {frame[a].claim.id, None}
    BY <1>0, <1>2, ProjectKeepsClaim
  <2> QED
    BY <1>0, <1>1, <1>2, <2>1
<1>3. ASSUME NEW a \in Address, NEW k \in {"executing", "indeterminate"}, NEW i,
             AppendProgress(a, k, i)
      PROVE  FALSE
  BY <1>3, <1>2, <1>E DEF AppendProgress
<1>4. ASSUME NEW a \in Address, NEW q \in Run, NEW i,
             NEW k \in {"refused", "observed", "absent", "resolved"},
             AppendResolution(q, a, k, i)
      PROVE  FALSE
  <2>1. CASE reservation[a] = q
    BY <1>4, <2>1, <1>2, <1>E DEF AppendResolution
  <2>2. CASE reservation[a] # q
    BY <1>1, <1>4, <2>2 DEF AppendResolution, ledgerVars
  <2> QED
    BY <2>1, <2>2
<1>5. ASSUME NEW q \in Run, OpenClaim(q), q # r PROVE FALSE
  <2>1. target[q] \in Address
    BY <1>0
  <2>2. Admitted(q) /\ AppendClaim(q, target[q])
    BY <1>1, <1>5 DEF OpenClaim, ledgerVars
  <2>3. ~IsOpen(frame[target[q]]) /\ LegalEdge(frame[target[q]], ClaimEvent(q))
    BY <2>2 DEF Admitted
  <2>4. Project(frame[target[q]], ClaimEvent(q)).claim.id = q
    BY <1>0, <2>1, <2>3, ProjectOpensClaim
  <2> QED
    BY <1>0, <1>1, <1>5, <2>1, <2>2, <2>4 DEF AppendClaim
<1>6. ASSUME NEW q \in Run, Transact(q) PROVE FALSE
  <2>1. CASE frame' = frame
    BY <1>1, <2>1
  <2>2. CASE \E k \in EventKind \ ClaimKind, i \in Identity :
                Admitted(q) /\ AppendWhole(q, target[q], k, i)
    <3>1. PICK k \in EventKind \ ClaimKind, i \in Identity :
             Admitted(q) /\ AppendWhole(q, target[q], k, i)
      BY <2>2
    <3> DEFINE a == target[q]
               f == Project(frame[a], ClaimEvent(q))
    <3>2. a \in Address /\ frame[a] \in FrameType
      BY <1>0
    <3>3. f \in FrameType /\ f.claim.id = q
      <4>1. /\ ~IsOpen(frame[a]) /\ LegalEdge(frame[a], ClaimEvent(q))
            /\ ClaimKindOf(op[q]) \in ClaimKind
            /\ ClaimKindOf(op[q]) \in EventKind
        BY <3>1, ClaimKinds DEF Admitted
      <4>2. f.claim.id = q
        BY <3>2, <4>1, ProjectOpensClaim
      <4>3. f \in FrameType
        BY <3>2, <4>1, ProjectType DEF ClaimEvent
      <4> QED
        BY <4>2, <4>3
    <3>4. Project(f, Event(k, None, None, i # 0)).claim.id \in {q, None}
      <4> HIDE DEF f
      <4> QED
        BY <3>3, ProjectKeepsClaim
    <3>5. frame' = [frame EXCEPT ![a] = Project(f, Event(k, None, None, i # 0))]
      BY <3>1 DEF AppendWhole
    <3>6. q = r
      <4> HIDE DEF f
      <4> QED
        BY <1>0, <1>1, <3>2, <3>4, <3>5
    <3>7. op'[r] \in SingleTransaction
      BY <1>6, <3>6 DEF Transact, taskVars
    <3>8. op'[r] \in {"createConcurrently", "retire"}
      BY DEF IInv, RunInv, OpenClaimInv
    <3> QED
      BY <3>7, <3>8 DEF SingleTransaction
  <2>3. /\ "refused" \in EventKind \ ClaimKind
        /\ "observed" \in EventKind \ ClaimKind
        /\ "adopt" \in EventKind \ ClaimKind
        /\ 0 \in Identity /\ live[target[q]] \in Identity
        /\ minted < MaxIdentity => minted + 1 \in Identity
    BY <1>0, ClaimKinds DEF ClaimKind, IInv, TypeOK, Identity
  <2> QED
    BY <1>6, <2>1, <2>2, <2>3
       DEF Transact, RolledBack, Effected, ledgerVars
<1>7. ASSUME NEW q \in Run, ReconcileAppend(q) PROVE FALSE
  <2>1. target[q] \in Address
    BY <1>0
  <2>2. Appends(Recovery(q)) =>
           Recovery(q) \in {"refused", "observed", "absent", "indeterminate",
                            "resolved"}
    BY RecoveryKind DEF Recovery
  <2> QED
    BY <1>1, <1>3, <1>4, <1>7, <2>1, <2>2 DEF ReconcileAppend, ledgerVars
<1>8. ASSUME NEW a \in Address, Release(a) PROVE FALSE
  BY <1>2, <1>8, <1>E DEF Release
<1>9. ASSUME NEW q \in Run, Mark(q) PROVE FALSE
  BY <1>0, <1>1, <1>3, <1>9 DEF Mark, ledgerVars
<1>10. ASSUME NEW q \in Run, Refuse(q) PROVE FALSE
  BY <1>0, <1>4, <1>10 DEF Refuse
<1>11. ASSUME NEW q \in Run, Record(q) PROVE FALSE
  BY <1>0, <1>1, <1>3, <1>4, <1>11 DEF Record, ledgerVars
<1>12. \/ \E q \in Run : \/ OpenClaim(q) \/ Mark(q) \/ Refuse(q) \/ Record(q)
                         \/ Transact(q) \/ ReconcileAppend(q)
       \/ \E a \in Address : Release(a)
       \/ frame' = frame
  BY DEF Next, ApplyStep, ReconcileStep, Begin, Precheck, LockLedger,
         LedgerBusy, Send, Receive, StatementEnds, ApplyFails, ReconcileStart,
         ReconcileLock, ReconcileBusy, ReconcileRead, ReconcileFails,
         ExternalCreate, ExternalDrop, ledgerVars
<1> QED
  BY <1>1, <1>5, <1>6, <1>7, <1>8, <1>9, <1>10, <1>11, <1>12

(* What a step does to the statement, the effect and the identity of a     *)
(* concurrent creation, and to the object it has made.                     *)
LEMMA MadeInvStep == IInv /\ IInv' /\ MadeInv /\ Next => MadeInv'
<1> SUFFICES ASSUME IInv, IInv', MadeInv, Next, NEW r \in Run,
                    op'[r] = "createConcurrently"
             PROVE  /\ stmt'[r] = "done" => effect'[r]
                    /\ ClaimOpen(r)' /\ effect'[r] => live'[target'[r]] = made'[r]
  BY DEF MadeInv
<1> USE ConstantsAssumption
<1>T. /\ op \in [Run -> OpKind \cup {None}]
      /\ target \in [Run -> Address]
      /\ stmt \in [Run -> {"none", "running", "done", "failed"}]
      /\ effect \in [Run -> BOOLEAN]
      /\ made \in [Run -> Identity]
      /\ live \in [Address -> Identity]
      /\ target[r] \in Address
      /\ RunInv
  BY DEF IInv, TypeOK
<1>A. target' = target
  BY DEF Next, ApplyStep, ReconcileStep, Begin, Precheck, LockLedger,
         LedgerBusy, OpenClaim, Mark, Refuse, Send, Receive, Record, Transact,
         StatementEnds, ApplyFails, Release, ReconcileStart, ReconcileLock,
         ReconcileBusy, ReconcileRead, ReconcileAppend, ReconcileFails,
         ExternalCreate, ExternalDrop, taskVars
<1>1. ASSUME Begin(r) PROVE ~ClaimOpen(r) /\ stmt'[r] # "done"
  BY <1>T, <1>1 DEF Begin, RunInv, BeforeClaim
<1>2. ~Begin(r) => op[r] = "createConcurrently"
  <2>1. (\E q \in Run : Begin(q)) \/ op' = op
    BY DEF Next, ApplyStep, ReconcileStep, Precheck, LockLedger, LedgerBusy,
           OpenClaim, Mark, Refuse, Send, Receive, Record, Transact,
           StatementEnds, ApplyFails, Release, ReconcileStart, ReconcileLock,
           ReconcileBusy, ReconcileRead, ReconcileAppend, ReconcileFails,
           ExternalCreate, ExternalDrop, taskVars
  <2>2. ASSUME NEW q \in Run, Begin(q), q # r PROVE op'[r] = op[r]
    BY <1>T, <2>2 DEF Begin
  <2> QED
    BY <2>1, <2>2
<1>3. (ClaimOpen(r) /\ effect[r]) =>
         live[target[r]] # 0 /\ (~Begin(r) => live[target[r]] = made[r])
  BY <1>1, <1>2, <1>T DEF MadeInv, RunInv, OpenClaimInv
<1>4. ASSUME NEW q \in Run, q # r, target[q] = target[r], ClaimOpen(r)
      PROVE  ~ClaimOpen(q)
  BY <1>4 DEF ClaimOpen
<1>5. ClaimOpen(r) /\ op[r] = "createConcurrently" => Excluded(target[r])
  BY DEF Excluded, ExclusionAccepted
<1>6. ASSUME NEW q \in Run, StatementEnds(q), q # r
      PROVE  /\ effect'[r] = effect[r] /\ stmt'[r] = stmt[r] /\ made'[r] = made[r]
             /\ ClaimOpen(r) /\ effect[r] => live'[target[r]] = live[target[r]]
  <2>1. effect'[r] = effect[r] /\ stmt'[r] = stmt[r] /\ made'[r] = made[r]
    BY <1>T, <1>6 DEF StatementEnds, catalogueVars
  <2>2. ASSUME ClaimOpen(r), effect[r], target[q] = target[r]
        PROVE  live' = live
    <3>1. ~ClaimOpen(q) /\ op[r] = "createConcurrently"
      BY <1>2, <1>1, <1>4, <1>6, <2>2
    <3>2. Excluded(target[q])
      BY <1>5, <2>2, <3>1
    <3>3. op[q] # "createConcurrently"
      BY <1>T, <1>6, <3>1 DEF StatementEnds, RunInv, AfterClaim
    <3> QED
      BY <1>6, <3>1, <3>2, <3>3 DEF StatementEnds, catalogueVars
  <2>3. ASSUME target[q] # target[r] PROVE live'[target[r]] = live[target[r]]
    BY <1>T, <1>6, <2>3 DEF StatementEnds, catalogueVars
  <2> QED
    BY <2>1, <2>2, <2>3
<1>7. ASSUME StatementEnds(r)
      PROVE  /\ stmt'[r] = "done" => effect'[r]
             /\ \/ effect'[r] /\ live'[target[r]] = made'[r]
                \/ effect' = effect /\ live' = live /\ made' = made
  <2>1. op[r] = "createConcurrently"
    BY <1>2, <1>7, <1>T DEF StatementEnds, Begin, RunInv, BeforeClaim
  <2> QED
    BY <1>T, <1>7, <2>1 DEF StatementEnds, catalogueVars
<1>8. ASSUME NEW q \in Run, Transact(q)
      PROVE  /\ effect'[r] = effect[r] /\ stmt'[r] = stmt[r] /\ made'[r] = made[r]
             /\ ClaimOpen(r) => live'[target[r]] = live[target[r]]
  <2>1. q # r
    BY <1>8 DEF Transact, SingleTransaction, taskVars
  <2>2. /\ effect'[r] = effect[r] /\ stmt'[r] = stmt[r] /\ made'[r] = made[r]
    BY <1>T, <1>8, <2>1 DEF Transact, RolledBack, Effected, historyVars
  <2>3. ASSUME ClaimOpen(r), target[q] = target[r] PROVE live' = live
    <3>1. IsOpen(frame[target[q]])
      BY <2>3 DEF ClaimOpen, IsOpen, NoClaim
    <3>2. ~Admitted(q)
      BY <3>1 DEF Admitted
    <3> QED
      BY <1>8, <3>2 DEF Transact, RolledBack, catalogueVars
  <2>4. ASSUME target[q] # target[r] PROVE live'[target[r]] = live[target[r]]
    BY <1>T, <1>8, <2>4 DEF Transact, RolledBack, Effected, catalogueVars
  <2> QED
    BY <2>2, <2>3, <2>4
<1>9. ASSUME NEW a \in Address, ExternalCreate(a) \/ ExternalDrop(a)
      PROVE  /\ UNCHANGED <<effect, stmt, made, op>>
             /\ ClaimOpen(r) /\ effect[r] => live'[target[r]] = live[target[r]]
  <2>1. UNCHANGED <<effect, stmt, made, op>>
    BY <1>9 DEF ExternalCreate, ExternalDrop, historyVars, taskVars
  <2>2. ASSUME ClaimOpen(r), effect[r] PROVE a # target[r]
    BY <1>3, <1>5, <1>9, <2>1, <2>2 DEF ExternalCreate, ExternalDrop
  <2> QED
    BY <1>T, <1>9, <2>1, <2>2 DEF ExternalCreate, ExternalDrop
<1>10. ASSUME NEW q \in Run, Send(q)
       PROVE  /\ UNCHANGED <<effect, made, live>>
              /\ stmt'[r] = "done" => stmt[r] = "done"
  BY <1>T, <1>10 DEF Send, historyVars, catalogueVars
<1>11. \/ \E q \in Run : StatementEnds(q) \/ Transact(q) \/ Send(q)
       \/ \E a \in Address : ExternalCreate(a) \/ ExternalDrop(a)
       \/ UNCHANGED <<effect, stmt, made, live>>
  BY DEF Next, ApplyStep, ReconcileStep, Begin, Precheck, LockLedger,
         LedgerBusy, OpenClaim, Mark, Refuse, Receive, Record, ApplyFails,
         Release, ReconcileStart, ReconcileLock, ReconcileBusy, ReconcileRead,
         ReconcileAppend, ReconcileFails, catalogueVars, historyVars
<1>12. stmt'[r] = "done" => effect'[r]
  <2>1. ~Begin(r) => (stmt[r] = "done" => effect[r])
    BY <1>2 DEF MadeInv
  <2> QED
    BY <1>1, <1>6, <1>7, <1>8, <1>9, <1>10, <1>11, <2>1
<1>13. ASSUME ClaimOpen(r)', effect'[r] PROVE live'[target[r]] = made'[r]
  <2>1. CASE ~ClaimOpen(r)
    <3>1. OpenClaim(r)
      BY <1>13, <2>1, OnlyItsOwnerOpensAClaim
    <3>2. pc[r] = "opening" /\ effect' = effect
      BY <3>1 DEF OpenClaim, historyVars
    <3>3. ~effect[r]
      BY <1>T, <3>2 DEF RunInv, BeforeClaim
    <3> QED
      BY <1>13, <3>2, <3>3
  <2>2. CASE ClaimOpen(r)
    <3>1. ~Begin(r)
      BY <1>1, <2>2
    <3> QED
      BY <1>3, <1>6, <1>7, <1>8, <1>9, <1>10, <1>11, <1>13, <2>2, <3>1
  <2> QED
    BY <2>1, <2>2
<1> QED
  BY <1>12, <1>13, <1>A

(* What recovery answers "observed" for, when it is asked for a concurrent *)
(* creation: the statement has succeeded and its object is there.          *)
LEMMA ObservedByRecovery ==
    ASSUME IInv, NEW r \in Run, ClaimOpen(r), op[r] = "createConcurrently",
           Recovery(r) = "observed"
    PROVE  stmt[r] = "done"
<1>1. /\ frame[target[r]].claim \in ClaimRecord
      /\ frame[target[r]].claim.kind = "intent"
  BY OpenFrame DEF IInv, TypeOK, RunInv, OpenClaimInv, ClaimOpen, ClaimKindOf
<1>2. frame[target[r]].claim.phase = "executing"
  BY <1>1 DEF Recovery, ClassifyRecovery, ClassifyIndeterminate, ClaimRecord,
              Phase
<1>3. /\ live[target[r]] # 0
      /\ ReadBackEffect(r) # "unverifiable"
  BY <1>1, <1>2 DEF Recovery, ClassifyRecovery, ClassifyExecutingIntent
<1> QED
  BY <1>3 DEF ReadBackEffect

(* An observed creation made, in this database, the object whose identity  *)
(* the ledger records and the next admission trusts: a concurrent one      *)
(* because the exclusion it runs under holds from its claim to its         *)
(* outcome, whoever writes the outcome, and a generated one because the    *)
(* object, the claim and the outcome are one transaction.                  *)
THEOREM CreationsRecordTheirOwnObject == Spec => CreationRecordsItsOwnObject
<1> DEFINE A == \A r \in Run :
         /\ op[r] \in RequiresVacancy
         /\ outcome[r] # "observed"
         /\ outcome'[r] = "observed"
         => /\ effect'[r]
            /\ recorded'[target[r]] = made'[r]
            /\ live'[target[r]] = made'[r]
<1>1. Init => MadeInv
  BY DEF Init, MadeInv, None
<1>2. IInv /\ IInv' /\ MadeInv /\ [Next]_vars => MadeInv'
  <2>1. UNCHANGED vars /\ MadeInv => MadeInv'
    BY DEF vars, MadeInv, ClaimOpen, ledgerVars, catalogueVars, taskVars,
           historyVars
  <2> QED
    BY <2>1, MadeInvStep
<1>3. IInv /\ MadeInv /\ [Next]_vars => [A]_vars
  <2> SUFFICES ASSUME IInv, MadeInv, Next PROVE A
    OBVIOUS
  <2> SUFFICES ASSUME NEW r \in Run, op[r] \in RequiresVacancy,
                      outcome[r] # "observed", outcome'[r] = "observed"
               PROVE  /\ effect'[r]
                      /\ recorded'[target[r]] = made'[r]
                      /\ live'[target[r]] = made'[r]
    OBVIOUS
  <2>T. /\ outcome \in [Run -> EventKind \cup {None}]
        /\ effect \in [Run -> BOOLEAN]
        /\ made \in [Run -> Identity]
        /\ live \in [Address -> Identity]
        /\ recorded \in [Address -> Identity]
        /\ target[r] \in Address
        /\ RunInv
    BY DEF IInv, TypeOK
  <2>1. ASSUME NEW q \in Run, Transact(q)
        PROVE  /\ effect'[r]
               /\ recorded'[target[r]] = made'[r]
               /\ live'[target[r]] = made'[r]
    <3>1. outcome' # outcome
      OBVIOUS
    <3>2. q = r
      BY <2>T, <2>1 DEF Transact, RolledBack, Effected, AppendWhole, historyVars
    <3>3. op[r] = "create" /\ Effected(r)
      <4>1. op[r] = "create"
        BY <2>1, <3>2 DEF Transact, SingleTransaction, RequiresVacancy
      <4>2. ~AppendWhole(r, target[r], "refused", 0)
        BY <2>T DEF AppendWhole
      <4> QED
        BY <2>1, <3>1, <3>2, <4>1, <4>2 DEF Transact, RolledBack, historyVars
    <3>4. /\ live' = [live EXCEPT ![target[r]] = minted + 1]
          /\ made' = [made EXCEPT ![r] = minted + 1]
          /\ effect' = [effect EXCEPT ![r] = TRUE]
          /\ AppendWhole(r, target[r], "observed", minted + 1)
      BY <3>3 DEF Effected
    <3>5. recorded' = [recorded EXCEPT ![target[r]] = minted + 1]
      BY <3>4 DEF AppendWhole
    <3> QED
      BY <2>T, <3>4, <3>5
  <2>2. ASSUME ClaimOpen(r), effect[r], UNCHANGED <<effect, made, live>>,
               op[r] = "createConcurrently", NEW k,
               AppendResolution(r, target[r], k, live[target[r]])
        PROVE  /\ effect'[r]
               /\ recorded'[target[r]] = made'[r]
               /\ live'[target[r]] = made'[r]
    <3>1. live[target[r]] = made[r]
      BY <2>2 DEF MadeInv
    <3>2. recorded' = [recorded EXCEPT ![target[r]] = live[target[r]]]
      BY <2>2 DEF AppendResolution
    <3> QED
      BY <2>T, <2>2, <3>1, <3>2
  <2>3. ASSUME NEW q \in Run, Record(q)
        PROVE  /\ effect'[r]
               /\ recorded'[target[r]] = made'[r]
               /\ live'[target[r]] = made'[r]
    <3>1. q = r
      BY <2>T, <2>3 DEF Record, AppendResolution, ledgerVars
    <3>2. /\ op[r] = "createConcurrently"
          /\ AppendResolution(r, target[r], "observed", live[target[r]])
          /\ UNCHANGED <<effect, made, live>>
      BY <2>3, <3>1 DEF Record, RequiresVacancy, catalogueVars
    <3>3. stmt[r] = "done" /\ ClaimOpen(r)
      BY <2>T, <2>3, <3>1 DEF Record, RunInv, DuringClaim
    <3>4. effect[r]
      BY <3>2, <3>3 DEF MadeInv
    <3> QED
      BY <2>2, <3>2, <3>3, <3>4
  <2>4. ASSUME NEW q \in Run, ReconcileAppend(q)
        PROVE  /\ effect'[r]
               /\ recorded'[target[r]] = made'[r]
               /\ live'[target[r]] = made'[r]
    <3>1. /\ q = r /\ Recovery(r) = "observed"
          /\ AppendResolution(r, target[r], "observed", live[target[r]])
          /\ UNCHANGED <<effect, made, live>>
          /\ rpc[r] = "read"
      <4>1. q = r
        BY <2>T, <2>4 DEF ReconcileAppend, AppendResolution
      <4>2. AppendResolution(r, target[r], Recovery(r), live[target[r]])
        BY <2>4, <4>1 DEF ReconcileAppend
      <4>3. Recovery(r) = "observed"
        BY <2>T, <4>2 DEF AppendResolution
      <4> QED
        BY <2>4, <4>1, <4>2, <4>3 DEF ReconcileAppend, catalogueVars
    <3>2. ClaimOpen(r)
      BY <2>T, <3>1 DEF RunInv, AfterClaim
    <3>3. op[r] = "createConcurrently"
      BY <2>T, <3>2 DEF RunInv, OpenClaimInv, RequiresVacancy
    <3>4. effect[r]
      BY <3>1, <3>2, <3>3, ObservedByRecovery DEF MadeInv
    <3> QED
      BY <2>2, <3>1, <3>2, <3>3, <3>4
  <2>5. ASSUME NEW q \in Run, Refuse(q) PROVE FALSE
    BY <2>T, <2>5 DEF Refuse, AppendResolution
  <2>6. \/ \E q \in Run : Transact(q) \/ Record(q) \/ ReconcileAppend(q) \/ Refuse(q)
        \/ outcome' = outcome
    BY DEF Next, ApplyStep, ReconcileStep, Begin, Precheck, LockLedger,
           LedgerBusy, OpenClaim, Mark, Send, Receive, StatementEnds,
           ApplyFails, Release, ReconcileStart, ReconcileLock, ReconcileBusy,
           ReconcileRead, ReconcileFails, ExternalCreate, ExternalDrop,
           historyVars
  <2> QED
    BY <2>1, <2>3, <2>4, <2>5, <2>6
<1> QED
  BY <1>1, <1>2, <1>3, InductiveInvariant, PTL
     DEF Spec, CreationRecordsItsOwnObject

-----------------------------------------------------------------------------
(* The refinement of LedgerAddress.  Every step changes the frame of an    *)
(* address by one event, by a claim together with the event that ends it,  *)
(* or not at all (FrameStep); no step leaves a malformed chain, so these   *)
(* events were legal (IInv); a legal event is a step of LedgerAddress,     *)
(* provided that the claim it meets was opened from the stable state the   *)
(* frame still has (ColumnInv).                                            *)

(* The events of a run: the one that opens its claim, and all others.      *)
OpeningEvents == [kind : ClaimKind, id : Run, pair : {None}, observed : {FALSE}]

FollowingEvents ==
    [kind : EventKind \ ClaimKind, id : {None}, pair : {None}, observed : BOOLEAN]

(* One step of a chain: an event, or a claim that is ended at once.        *)
OneEvent(f, g) == \E e \in OpeningEvents \cup FollowingEvents : g = Project(f, e)

WholeClaim(f, g) ==
    \E c \in OpeningEvents, e \in FollowingEvents :
        /\ e.kind \notin {"executing", "indeterminate"}
        /\ g = Project(Project(f, c), e)

(* An open claim remembers the stable state it was opened from, a state    *)
(* its kind opens from, and nothing has changed that state since.          *)
Column(f) ==
    IsOpen(f) => /\ f.claim.before = f.stable
                 /\ f.stable \in OpensFrom[f.claim.kind]

ColumnInv == \A a \in Address : Column(frame[a])

-----------------------------------------------------------------------------
(* Every step of the protocol is a step of the chains.                     *)

LEMMA ClaimEventOpens ==
    ASSUME NEW r \in Run PROVE ClaimEvent(r) \in OpeningEvents
BY ClaimKinds DEF OpeningEvents, ClaimEvent, Event

LEMMA FrameStep ==
    ASSUME TypeOK, [Next]_vars, NEW a \in Address
    PROVE  \/ frame'[a] = frame[a]
           \/ OneEvent(frame[a], frame'[a])
           \/ ~IsOpen(frame[a]) /\ WholeClaim(frame[a], frame'[a])
<1> DEFINE Goal == \/ frame'[a] = frame[a]
                   \/ OneEvent(frame[a], frame'[a])
                   \/ ~IsOpen(frame[a]) /\ WholeClaim(frame[a], frame'[a])
<1>1. ASSUME NEW b \in Address, NEW k \in EventKind \ ClaimKind, NEW o \in BOOLEAN,
             frame' = [frame EXCEPT ![b] = Project(@, Event(k, None, None, o))]
      PROVE  Goal
  <2>1. CASE b = a
    <3>1. Event(k, None, None, o) \in FollowingEvents
      BY DEF FollowingEvents, Event
    <3>2. frame'[a] = Project(frame[a], Event(k, None, None, o))
      BY <1>1, <2>1 DEF TypeOK
    <3> QED
      BY <3>1, <3>2 DEF OneEvent
  <2>2. CASE b # a
    BY <1>1, <2>2 DEF TypeOK
  <2> QED
    BY <2>1, <2>2
<1>2. ASSUME NEW b \in Address, NEW r \in Run,
             frame' = [frame EXCEPT ![b] = Project(@, ClaimEvent(r))]
      PROVE  Goal
  <2>1. CASE b = a
    <3>1. ClaimEvent(r) \in OpeningEvents
      BY ClaimEventOpens
    <3>2. frame'[a] = Project(frame[a], ClaimEvent(r))
      BY <1>2, <2>1 DEF TypeOK
    <3> QED
      BY <3>1, <3>2 DEF OneEvent
  <2>2. CASE b # a
    BY <1>2, <2>2 DEF TypeOK
  <2> QED
    BY <2>1, <2>2
<1>3. ASSUME NEW r \in Run, NEW k \in {"refused", "observed", "adopt"}, NEW i,
             Admitted(r), AppendWhole(r, target[r], k, i)
      PROVE  Goal
  <2>1. CASE target[r] = a
    <3>1. ClaimEvent(r) \in OpeningEvents
      BY ClaimEventOpens
    <3>2. /\ Event(k, None, None, i # 0) \in FollowingEvents
          /\ Event(k, None, None, i # 0).kind \notin {"executing", "indeterminate"}
      BY ClaimKinds DEF FollowingEvents, Event, ClaimKind
    <3>3. frame'[a] = Project(Project(frame[a], ClaimEvent(r)),
                              Event(k, None, None, i # 0))
      BY <1>3, <2>1 DEF AppendWhole, TypeOK
    <3>4. ~IsOpen(frame[a])
      BY <1>3, <2>1 DEF Admitted
    <3> QED
      BY <3>1, <3>2, <3>3, <3>4 DEF WholeClaim
  <2>2. CASE target[r] # a
    BY <1>3, <2>2 DEF AppendWhole, TypeOK
  <2> QED
    BY <2>1, <2>2
<1>4. \A r \in Run : target[r] \in Address
  BY DEF TypeOK
<1>5. {"executing", "indeterminate", "released", "refused", "observed",
       "absent", "adopt", "resolved"} \subseteq EventKind \ ClaimKind
  BY ClaimKinds DEF ClaimKind
<1>6. ASSUME NEW r \in Run, NEW k \in EventKind \ ClaimKind, NEW i,
             AppendResolution(r, target[r], k, i)
      PROVE  Goal
  BY <1>1, <1>4, <1>6 DEF AppendResolution, ledgerVars
<1>7. ASSUME NEW r \in Run, NEW k \in EventKind \ ClaimKind, NEW i,
             AppendProgress(target[r], k, i)
      PROVE  Goal
  BY <1>1, <1>4, <1>7 DEF AppendProgress
<1>8. ASSUME NEW r \in Run, OpenClaim(r) PROVE Goal
  BY <1>2, <1>4, <1>8 DEF OpenClaim, AppendClaim, ledgerVars
<1>9. ASSUME NEW r \in Run, Mark(r) PROVE Goal
  BY <1>5, <1>7, <1>9 DEF Mark, ledgerVars
<1>10. ASSUME NEW r \in Run, Refuse(r) PROVE Goal
  BY <1>5, <1>6, <1>10 DEF Refuse
<1>11. ASSUME NEW r \in Run, Record(r) PROVE Goal
  BY <1>5, <1>6, <1>7, <1>11 DEF Record, ledgerVars
<1>12. ASSUME NEW r \in Run, Transact(r) PROVE Goal
  <2>1. CASE RolledBack(r)
    BY <2>1 DEF RolledBack, ledgerVars
  <2>2. CASE Admitted(r) /\ AppendWhole(r, target[r], "refused", 0)
    BY <1>3, <1>5, <2>2
  <2>3. CASE Admitted(r) /\ Effected(r)
    BY <1>3, <1>5, <2>3 DEF Effected
  <2> QED
    BY <1>12, <2>1, <2>2, <2>3 DEF Transact
<1>13. ASSUME NEW r \in Run, ReconcileAppend(r) PROVE Goal
  <2>1. CASE UNCHANGED ledgerVars
    BY <2>1 DEF ledgerVars
  <2>2. CASE AppendProgress(target[r], "indeterminate", live[target[r]])
    BY <1>5, <1>7, <2>2
  <2>3. CASE /\ Appends(Recovery(r))
             /\ AppendResolution(r, target[r], Recovery(r), live[target[r]])
    BY <1>5, <1>6, <2>3, RecoveryKind DEF Recovery
  <2> QED
    BY <1>13, <2>1, <2>2, <2>3 DEF ReconcileAppend
<1>14. ASSUME NEW b \in Address, Release(b) PROVE Goal
  BY <1>1, <1>5, <1>14 DEF Release
<1>15. \/ frame' = frame
       \/ \E r \in Run : \/ OpenClaim(r) \/ Mark(r) \/ Refuse(r) \/ Record(r)
                         \/ Transact(r) \/ ReconcileAppend(r)
       \/ \E b \in Address : Release(b)
  BY DEF Next, ApplyStep, ReconcileStep, Begin, Precheck, LockLedger,
         LedgerBusy, Send, Receive, StatementEnds, ApplyFails, ReconcileStart,
         ReconcileLock, ReconcileBusy, ReconcileRead, ReconcileFails,
         ExternalCreate, ExternalDrop, vars, ledgerVars
<1> QED
  BY <1>8, <1>9, <1>10, <1>11, <1>12, <1>13, <1>14, <1>15

-----------------------------------------------------------------------------
(* Every legal event is a step of LedgerAddress.                           *)

(* No edge leaves a malformed chain.                                       *)
LEMMA MalformedStays == ASSUME NEW e PROVE Project(Malformed, e) = Malformed
<1>1. Malformed.stable = "malformed" /\ ~IsOpen(Malformed)
  BY DEF Malformed, Frame, IsOpen
<1>2. ~LegalEdge(Malformed, e)
  <2>1. "malformed" # "managed" /\ \A k \in ClaimKind : "malformed" \notin OpensFrom[k]
    BY DEF OpensFrom, StableState, ClaimKind
  <2> QED
    BY <1>1, <2>1 DEF LegalEdge, OpensClaim
<1> QED
  BY <1>2 DEF Project

(* A legal claim event opens its claim from a state its kind opens from.   *)
LEMMA LegalOpening ==
    ASSUME NEW f \in FrameType, NEW e \in OpeningEvents, Column(f),
           Project(f, e) # Malformed
    PROVE  /\ ~IsOpen(f)
           /\ f.stable \in OpensFrom[e.kind]
           /\ Project(f, e) =
                Frame(f.stable, [kind |-> e.kind, id |-> e.id, pair |-> None,
                                 before |-> f.stable, phase |-> "claimed"])
           /\ IsOpen(Project(f, e)) /\ Column(Project(f, e))
           /\ Project(f, e) \in FrameType
<1>1. /\ e.kind \in ClaimKind /\ e.id \in Run /\ e.pair = None
      /\ LegalEdge(f, e)
  BY DEF OpeningEvents, Project
<1>2. ~IsOpen(f)
  <2> SUFFICES ASSUME IsOpen(f) PROVE FALSE
    OBVIOUS
  <2>1. e.kind \in ResolvesThrough[f.claim.kind] /\ f.claim.kind \in ClaimKind
    BY <1>1, OpenFrame DEF LegalEdge, ResolvingEdge, ClaimRecord
  <2> QED
    BY <1>1, <2>1 DEF ResolvesThrough, ClaimKind
<1>3. f.stable \in OpensFrom[e.kind] /\ f.stable \in StableState
  BY <1>1, <1>2 DEF LegalEdge, OpensClaim, OpensFrom, ClaimKind, StableState
<1> DEFINE c == [kind |-> e.kind, id |-> e.id, pair |-> None,
                 before |-> f.stable, phase |-> "claimed"]
<1>4. Project(f, e) = Frame(f.stable, c)
  BY <1>1, <1>2 DEF Project, InterpretEdge, OpenedFrame, ClaimKind
<1>5. c \in ClaimRecord /\ c # NoClaim
  BY <1>1, <1>3, ConstantsAssumption DEF ClaimRecord, Phase, NoClaim
<1>6. /\ Project(f, e).stable = f.stable /\ Project(f, e).claim = c
      /\ Project(f, e) \in FrameType
  BY <1>3, <1>4, <1>5 DEF Frame, FrameType
<1> QED
  BY <1>2, <1>3, <1>4, <1>5, <1>6 DEF IsOpen, Column

(* A legal event of an open claim moves its phase forward or closes it in  *)
(* an outcome of its kind; without a claim only a release is legal.        *)
LEMMA LegalFollowing ==
    ASSUME NEW f \in FrameType, NEW e \in FollowingEvents, Column(f),
           Project(f, e) # Malformed, NEW a \in Address
    PROVE  \/ /\ IsOpen(f)
              /\ e.kind \in {"executing", "indeterminate"}
              /\ f.claim.phase = "indeterminate" => e.kind = "indeterminate"
              /\ Project(f, e) = Frame(f.stable, [f.claim EXCEPT !.phase = e.kind])
           \/ /\ IsOpen(f)
              /\ Project(f, e).claim = NoClaim
              /\ Project(f, e).stable
                   \in LedgerOf(a)!Outcomes(f.claim.kind, f.claim.before)
           \/ f = Frame("managed", NoClaim) /\ Project(f, e) = RootFrame
<1>1. /\ e.kind \in EventKind \ ClaimKind /\ e.pair = None /\ e.observed \in BOOLEAN
      /\ LegalEdge(f, e)
      /\ Project(f, e) = InterpretEdge(f, e)
  BY DEF FollowingEvents, Project
<1>2. CASE ~IsOpen(f)
  <2>1. e.kind = "released" /\ f.stable = "managed"
    BY <1>1, <1>2 DEF LegalEdge, OpensClaim
  <2>2. f = Frame("managed", NoClaim)
    BY <1>2, <2>1 DEF IsOpen, FrameType, Frame
  <2>3. Project(f, e) = RootFrame
    BY <1>1, <1>2, <2>1 DEF InterpretEdge, RootFrame
  <2> QED
    BY <2>2, <2>3
<1>3. CASE IsOpen(f)
  <2>1. f.claim \in ClaimRecord /\ ResolvingEdge(f.claim, e)
    BY <1>1, <1>3, OpenFrame DEF LegalEdge
  <2>2. Project(f, e) = ResolvedFrame(f, e)
    BY <1>1, <1>3 DEF InterpretEdge
  <2>3. CASE e.kind \in {"executing", "indeterminate"}
    <3>1. Project(f, e) = Frame(f.stable, [f.claim EXCEPT !.phase = e.kind])
      BY <2>2, <2>3 DEF ResolvedFrame
    <3>2. f.claim.phase # "indeterminate"
      BY <2>1, <2>3 DEF ResolvingEdge
    <3> QED
      BY <1>3, <2>3, <3>1, <3>2
  <2>4. CASE e.kind \notin {"executing", "indeterminate"}
    <3> DEFINE k == f.claim.kind
               s == f.stable
    <3>1. k \in ClaimKind /\ f.claim.before = s /\ s \in OpensFrom[k]
      BY <1>3, <2>1 DEF Column, ClaimRecord
    <3>2. \/ e.kind = "refused"
          \/ e.kind = "observed" /\ k = "intent"
          \/ e.kind = "absent" /\ k = "retire-intent"
          \/ e.kind = "resolved" /\ k \in {"intent", "retire-intent"}
          \/ e.kind = "adopt" /\ k = "adopt-intent"
          \/ e.kind = "readdressed-to" /\ k = "readdress-intent" /\ s = "managed"
          \/ e.kind = "readdressed-from" /\ k = "readdress-intent" /\ s # "managed"
      BY <2>1, <2>4, <3>1 DEF ResolvingEdge, ResolvesThrough, ClaimKind
    <3>3. \E t : /\ ResolvedFrame(f, e) = Frame(t, NoClaim)
                 /\ t \in LedgerOf(a)!Outcomes(k, s)
      <4>1. CASE e.kind = "refused"
        BY <4>1 DEF ResolvedFrame, LedgerOf!Outcomes
      <4>2. CASE e.kind \in {"observed", "absent", "adopt"}
        BY <3>2, <4>2 DEF ResolvedFrame, LedgerOf!Outcomes
      <4>3. CASE e.kind = "resolved"
        <5>1. k = "retire-intent" => s = "managed"
          BY <3>1 DEF OpensFrom, ClaimKind
        <5> QED
          BY <3>1, <3>2, <4>3, <5>1 DEF ResolvedFrame, ResolvedStable, LedgerOf!Outcomes
      <4>4. CASE e.kind \in {"readdressed-to", "readdressed-from"}
        BY <3>2, <4>4 DEF ResolvedFrame, LedgerOf!Outcomes
      <4> QED
        BY <3>2, <4>1, <4>2, <4>3, <4>4
    <3> QED
      BY <1>3, <2>2, <3>1, <3>3 DEF Frame
  <2> QED
    BY <2>3, <2>4
<1> QED
  BY <1>2, <1>3

-----------------------------------------------------------------------------
(* The chains keep their columns and take the steps of LedgerAddress.      *)

(* One legal event keeps the column and is a step of LedgerAddress.        *)
LEMMA EventImplements ==
    ASSUME NEW a \in Address, frame[a] \in FrameType, Column(frame[a]),
           OneEvent(frame[a], frame'[a]), frame'[a] # Malformed
    PROVE  Column(frame'[a]) /\ LedgerOf(a)!Next
<1> DEFINE f == frame[a]
           g == frame'[a]
<1>1. ASSUME NEW e \in OpeningEvents, g = Project(f, e)
      PROVE  Column(g) /\ LedgerOf(a)!Next
  <2>1. /\ ~IsOpen(f) /\ f.stable \in OpensFrom[e.kind] /\ Column(g)
        /\ g = Frame(f.stable, [kind |-> e.kind, id |-> e.id, pair |-> None,
                                before |-> f.stable, phase |-> "claimed"])
    BY <1>1, LegalOpening
  <2>2. /\ g.stable = f.stable /\ g.claim.kind = e.kind
        /\ g.claim.before = f.stable /\ g.claim.phase = "claimed"
    BY <2>1 DEF Frame
  <2>3. e.kind \in ClaimKind
    BY DEF OpeningEvents
  <2>4. LedgerOf(a)!Open
    BY <2>1, <2>2, <2>3
       DEF LedgerOf!Open, LedgerOf!IsOpen, LedgerOf!NoClaim, LedgerOf!None,
           LedgerOf!ClaimKind, LedgerOf!OpensFrom, LedgerOf!StableState,
           IsOpen, NoClaim, None, ClaimKind, OpensFrom, StableState
  <2> QED
    BY <2>1, <2>4 DEF LedgerOf!Next
<1>2. ASSUME NEW e \in FollowingEvents, g = Project(f, e)
      PROVE  Column(g) /\ LedgerOf(a)!Next
  <2>1. CASE /\ IsOpen(f)
             /\ e.kind \in {"executing", "indeterminate"}
             /\ f.claim.phase = "indeterminate" => e.kind = "indeterminate"
             /\ g = Frame(f.stable, [f.claim EXCEPT !.phase = e.kind])
    <3>1. f.claim \in ClaimRecord
      BY <2>1, OpenFrame
    <3> DEFINE c == [f.claim EXCEPT !.phase = e.kind]
    <3>2. g.stable = f.stable /\ g.claim = c
      <4> HIDE DEF c
      <4> QED
        BY <2>1 DEF Frame, c
    <3>3. c.before = f.claim.before /\ c.kind = f.claim.kind
      BY <3>1 DEF ClaimRecord
    <3>4. Column(g)
      BY <2>1, <3>2, <3>3 DEF Column
    <3>5. LedgerOf(a)!Progress
      <4>1. /\ e.kind \in Phase
            /\ LedgerOf(a)!PhaseOrder[f.claim.phase] <= LedgerOf(a)!PhaseOrder[e.kind]
        BY <2>1, <3>1 DEF LedgerOf!PhaseOrder, ClaimRecord, Phase
      <4> QED
        BY <2>1, <3>2, <4>1
           DEF LedgerOf!Progress, LedgerOf!IsOpen, LedgerOf!NoClaim,
               LedgerOf!None, LedgerOf!Phase, IsOpen, NoClaim, None, Phase
    <3> QED
      BY <3>4, <3>5 DEF LedgerOf!Next
  <2>2. CASE /\ IsOpen(f) /\ g.claim = NoClaim
             /\ g.stable \in LedgerOf(a)!Outcomes(f.claim.kind, f.claim.before)
    <3>1. LedgerOf(a)!Close
      BY <2>2 DEF LedgerOf!Close, LedgerOf!IsOpen, LedgerOf!NoClaim,
                  LedgerOf!None, IsOpen, NoClaim, None
    <3> QED
      BY <2>2, <3>1 DEF LedgerOf!Next, Column, IsOpen
  <2>3. CASE f = Frame("managed", NoClaim) /\ g = RootFrame
    <3>1. LedgerOf(a)!Release
      BY <2>3 DEF LedgerOf!Release, LedgerOf!Frame, LedgerOf!RootFrame,
                  LedgerOf!NoClaim, LedgerOf!None, Frame, RootFrame, NoClaim, None
    <3> QED
      BY <2>3, <3>1 DEF LedgerOf!Next, Column, IsOpen, RootFrame, Frame
  <2> QED
    BY <1>2, <2>1, <2>2, <2>3, LegalFollowing
<1> QED
  BY <1>1, <1>2 DEF OneEvent

(* So are a claim and the event that ends it in the same transaction.      *)
LEMMA WholeImplements ==
    ASSUME NEW a \in Address, frame[a] \in FrameType, ~IsOpen(frame[a]),
           WholeClaim(frame[a], frame'[a]), frame'[a] # Malformed
    PROVE  Column(frame'[a]) /\ LedgerOf(a)!Next
<1>1. PICK c \in OpeningEvents, e \in FollowingEvents :
          /\ e.kind \notin {"executing", "indeterminate"}
          /\ frame'[a] = Project(Project(frame[a], c), e)
  BY DEF WholeClaim
<1> DEFINE f == frame[a]
           h == Project(f, c)
           g == frame'[a]
<1>2. h # Malformed
  BY <1>1, MalformedStays
<1>3. /\ f.stable \in OpensFrom[c.kind]
      /\ h = Frame(f.stable, [kind |-> c.kind, id |-> c.id, pair |-> None,
                              before |-> f.stable, phase |-> "claimed"])
      /\ IsOpen(h) /\ Column(h) /\ h \in FrameType
  BY <1>2, LegalOpening DEF Column
<1>4. h.claim.kind = c.kind /\ h.claim.before = f.stable
  BY <1>3 DEF Frame
<1>5. g.stable \in LedgerOf(a)!Outcomes(c.kind, f.stable) /\ g.claim = NoClaim
  <2> HIDE DEF h
  <2>1. g = Project(h, e)
    BY <1>1 DEF h
  <2>2. /\ g.stable \in LedgerOf(a)!Outcomes(h.claim.kind, h.claim.before)
        /\ g.claim = NoClaim
    BY <1>1, <1>3, <2>1, LegalFollowing DEF Frame, IsOpen
  <2> QED
    BY <1>4, <2>2
<1>6. c.kind \in ClaimKind
  BY DEF OpeningEvents
<1>7. LedgerOf(a)!OpenAndClose
  BY <1>3, <1>5, <1>6
     DEF LedgerOf!OpenAndClose, LedgerOf!IsOpen, LedgerOf!NoClaim,
         LedgerOf!None, LedgerOf!ClaimKind, LedgerOf!OpensFrom,
         LedgerOf!StableState, IsOpen, NoClaim, None, ClaimKind, OpensFrom,
         StableState
<1> QED
  BY <1>5, <1>7 DEF LedgerOf!Next, Column, IsOpen

LEMMA ColumnInvStep ==
    ASSUME IInv, IInv', ColumnInv, [Next]_vars, NEW a \in Address
    PROVE  Column(frame'[a]) /\ [LedgerOf(a)!Next]_(frame[a])
<1>1. frame[a] \in FrameType /\ Column(frame[a]) /\ TypeOK
  BY DEF IInv, TypeOK, ColumnInv
<1>2. frame'[a] # Malformed
  BY DEF IInv, ChainInv, Malformed, Frame, StableState
<1>3. CASE frame'[a] = frame[a]
  BY <1>1, <1>3
<1>4. CASE OneEvent(frame[a], frame'[a])
  BY <1>1, <1>2, <1>4, EventImplements
<1>5. CASE ~IsOpen(frame[a]) /\ WholeClaim(frame[a], frame'[a])
  BY <1>1, <1>2, <1>5, WholeImplements
<1> QED
  BY <1>1, <1>3, <1>4, <1>5, FrameStep

(* The protocol implements the ledger address on every address.            *)
THEOREM LedgerImplemented == Spec => ImplementsLedger
<1> DEFINE Step == \A a \in Address : [LedgerOf(a)!Next]_(frame[a])
<1>1. Init => ColumnInv /\ \A a \in Address : LedgerOf(a)!Init
  BY DEF Init, ColumnInv, Column, IsOpen, RootFrame, Frame, LedgerOf!Init,
         LedgerOf!RootFrame, LedgerOf!Frame, LedgerOf!NoClaim, LedgerOf!None,
         NoClaim, None
<1>2. IInv /\ IInv' /\ ColumnInv /\ [Next]_vars => ColumnInv' /\ [Step]_frame
  <2> SUFFICES ASSUME IInv, IInv', ColumnInv, [Next]_vars
               PROVE  ColumnInv' /\ Step
    OBVIOUS
  <2> QED
    BY ColumnInvStep DEF ColumnInv
<1> QED
  BY <1>1, <1>2, InductiveInvariant, PTL DEF Spec, ImplementsLedger
=============================================================================
