--------------------------- MODULE OutcomeProtocol ---------------------------
(***************************************************************************)
(* The managed-state outcome protocol of the PostgreSQL adapter: how a run *)
(* opens a claim on an address, marks it executing, sends its DDL, records *)
(* what it read back, and how reconciliation later closes the claim of a   *)
(* run that stopped half way                                               *)
(* (packages/adapter-pgsql/src/transition/outcome-protocol.ts,             *)
(* generator-execution.ts, adoption.ts, release.ts, reconcile.ts and       *)
(* lessor.ts).                                                             *)
(*                                                                         *)
(* A run carries one operation on one address:                             *)
(*   create             generated creation, one transaction                *)
(*   modify             durable alteration, one transaction                *)
(*   adopt              declared adoption, one transaction                 *)
(*   createConcurrently CREATE UNIQUE INDEX CONCURRENTLY: claim, executing *)
(*                      marker and outcome are three transactions and the  *)
(*                      statement runs on the session of the run lock      *)
(*   retire             generated removal: the same three transactions,    *)
(*                      but the statement runs on a session of the pool    *)
(*                                                                         *)
(* All addresses share one ledger home, hence one ledger lock.  A step     *)
(* that takes the ledger lock and the step that commits are two actions,   *)
(* so that others run in between; the DDL of other sessions is not held    *)
(* up by that lock.  An object is its catalogue identity, a number; 0 is   *)
(* the absence of an object or of a recorded identity.  A claim is named   *)
(* after its run: every run opens at most one.                             *)
(*                                                                         *)
(* A definition marked "fault" is no part of the model: it is a variant of *)
(* the definition that follows it, with a bug one could write, and shows   *)
(* that the properties tell the two apart.                                 *)
(***************************************************************************)
EXTENDS LedgerLifecycle

CONSTANTS
    Address,            \* the ledger addresses
    Run,                \* the transition runs
    Ops,                \* the operations the runs may carry
    MaxIdentity,        \* bound: catalogue identities minted
    MaxFaults,          \* bound: processes that stop half way
    VerifiedRun         \* the runs whose reconciler has a read-back that
                        \* compares the object with the claim's declaration
                        \* (reconcile.ts passes none for the operations here)

OpKind == {"create", "modify", "adopt", "createConcurrently", "retire"}

ASSUME ConstantsAssumption ==
    /\ None \notin Run
    /\ Ops \subseteq OpKind
    /\ MaxIdentity \in Nat
    /\ MaxFaults \in Nat
    /\ VerifiedRun \subseteq Run

VARIABLES
    frame,        \* frame[a]: what the event chain of a projects to
    recorded,     \* recorded[a]: catalogue identity of the terminal event
    reservation,  \* reservation[a]: root claim of the reservation row of a
    live,         \* live[a]: identity of the object at a in the catalogue
    minted,       \* the last identity the catalogue gave out
    ledgerLock,   \* the run whose transaction holds the ledger lock
    runLock,      \* runLock[r]: which process holds r's advisory lock
    op, target, expected, \* the operation, address and planned identity of r
    pc,           \* where the apply process of r is
    stmt,         \* the statement of r on the server
    rpc,          \* where the reconcile process of r is
    seen,         \* seen[r]: the identity r's process last read back
    faults,       \* processes that have stopped half way
    effect,       \* history: r's DDL has changed the catalogue
    outcome,      \* history: the event that closed r's claim
    made          \* history: the identity r created or adopted

ledgerVars == <<frame, recorded, reservation>>
catalogueVars == <<live, minted>>
taskVars == <<op, target, expected>>
historyVars == <<effect, outcome, made>>
vars == <<ledgerVars, catalogueVars, ledgerLock, runLock, taskVars, pc, stmt,
          rpc, seen, faults, historyVars>>

Identity == 0 .. MaxIdentity

(* A chain that projectLedgerChain cannot project.  No edge leaves it.     *)
Malformed == Frame("malformed", NoClaim)

(* The three families of an operation's control flow.                      *)
SingleTransaction == {"create", "modify", "adopt"}
RequiresVacancy == {"create", "createConcurrently"}
ConcurrentOnPoolSession == {"modify"}                              \* fault
OnRunLockSession == {"modify", "createConcurrently"}

(* The operations whose plan carries the accepted assumption that no one   *)
(* else issues DDL on the address.                                         *)
ConcurrentWithoutExclusion == {"modify"}                           \* fault
ExclusionAccepted == {"modify", "createConcurrently"}

ClaimKindOf(o) ==
    CASE o = "retire" -> "retire-intent"
      [] o = "adopt"  -> "adopt-intent"
      [] OTHER        -> "intent"

(* Places of the apply process: those inside a ledger-locked transaction,  *)
(* and all places at which the process is alive.                           *)
LockedPc == {"opening", "marking", "refused", "recording"}
BusyPc == {"planned", "ready", "claimed", "refusing", "sending", "running",
           "ran"} \cup LockedPc
LockedRpc == {"locked", "read"}

ClaimOpen(r) == frame[target[r]].claim.id = r

(* The operator asserts that only run r issues DDL on a.                   *)
Excluded(a) ==
    \E r \in Run : /\ op[r] \in ExclusionAccepted
                   /\ target[r] = a
                   /\ pc[r] \in BusyPc \/ ClaimOpen(r)

Init ==
    /\ frame = [a \in Address |-> RootFrame]
    /\ recorded = [a \in Address |-> 0]
    /\ reservation = [a \in Address |-> None]
    /\ live = [a \in Address |-> 0]
    /\ minted = 0
    /\ ledgerLock = None
    /\ runLock = [r \in Run |-> "free"]
    /\ op = [r \in Run |-> None]
    /\ target \in [Run -> Address]
    /\ expected = [r \in Run |-> 0]
    /\ pc = [r \in Run |-> "idle"]
    /\ stmt = [r \in Run |-> "none"]
    /\ rpc = [r \in Run |-> "idle"]
    /\ seen = [r \in Run |-> 0]
    /\ faults = 0
    /\ effect = [r \in Run |-> FALSE]
    /\ outcome = [r \in Run |-> None]
    /\ made = [r \in Run |-> 0]

-----------------------------------------------------------------------------
(* Ledger writes.                                                          *)

ClaimEventWithoutId(r) == Event(ClaimKindOf(op[r]), None, None, FALSE) \* fault

ClaimEvent(r) == Event(ClaimKindOf(op[r]), r, None, FALSE)

(* The projection after one more event: malformed once an edge is illegal. *)
Project(f, e) == IF LegalEdge(f, e) THEN InterpretEdge(f, e) ELSE Malformed

(* appendPgLedgerProgress: an event that keeps the claim open.             *)
AppendProgress(a, kind, identity) ==
    /\ frame' = [frame EXCEPT ![a] = Project(@, Event(kind, None, None, FALSE))]
    /\ recorded' = [recorded EXCEPT ![a] = identity]
    /\ UNCHANGED reservation

(* appendPgLedgerClaim: the claim and its reservation in one statement.    *)
AppendClaim(r, a) ==
    /\ frame' = [frame EXCEPT ![a] = Project(@, ClaimEvent(r))]
    /\ recorded' = [recorded EXCEPT ![a] = 0]
    /\ reservation' = [reservation EXCEPT ![a] = r]

ResolutionKeepingReservation(r, a, kind, identity) ==               \* fault
    /\ frame' = [frame EXCEPT ![a] =
                    Project(@, Event(kind, None, None, identity # 0))]
    /\ recorded' = [recorded EXCEPT ![a] = identity]
    /\ outcome' = [outcome EXCEPT ![r] = kind]
    /\ UNCHANGED reservation

(* appendPgLedgerResolution: the closing event and the deletion of the     *)
(* reservation in one statement; a wrong row count rolls both back.        *)
AppendResolution(r, a, kind, identity) ==
    IF reservation[a] = r
    THEN /\ frame' = [frame EXCEPT ![a] =
                        Project(@, Event(kind, None, None, identity # 0))]
         /\ recorded' = [recorded EXCEPT ![a] = identity]
         /\ reservation' = [reservation EXCEPT ![a] = None]
         /\ outcome' = [outcome EXCEPT ![r] = kind]
    ELSE UNCHANGED <<ledgerVars, outcome>>

(* A claim and its closing event in one transaction: the reservation is    *)
(* inserted and deleted again.                                             *)
AppendWhole(r, a, kind, identity) ==
    /\ frame' = [frame EXCEPT ![a] =
                   Project(Project(@, ClaimEvent(r)),
                           Event(kind, None, None, identity # 0))]
    /\ recorded' = [recorded EXCEPT ![a] = identity]
    /\ outcome' = [outcome EXCEPT ![r] = kind]
    /\ UNCHANGED reservation

(* admitOutcomeClaim on the chain and the catalogue the transaction reads. *)
(* The reservation's primary key refuses a second claim on an address.     *)
Admitted(r) ==
    LET a == target[r] IN
    /\ LegalEdge(frame[a], ClaimEvent(r))
    /\ ~IsOpen(frame[a])
    /\ reservation[a] = None
    /\ frame[a].stable = "managed" /\ op[r] \notin RequiresVacancy
         => recorded[a] = live[a] /\ live[a] # 0

-----------------------------------------------------------------------------
(* The apply process.                                                      *)

AcquireLedgerLock(r) == ledgerLock = None /\ ledgerLock' = r

ReleaseLedgerLock(r) == ledgerLock' = IF ledgerLock = r THEN None ELSE ledgerLock

StopFreeingRunLock(r) ==                                            \* fault
    /\ pc' = [pc EXCEPT ![r] = "stopped"]
    /\ runLock' = [runLock EXCEPT ![r] = "free"]

(* The process ends and its connections close.  A statement the server     *)
(* still runs keeps its own session, and with it the run lock when it is   *)
(* the session that took the lock.                                         *)
Stop(r) ==
    /\ pc' = [pc EXCEPT ![r] = "stopped"]
    /\ runLock' = [runLock EXCEPT ![r] =
           IF stmt[r] = "running" /\ op[r] \in OnRunLockSession
           THEN @ ELSE "free"]

Goto(r, place) == pc' = [pc EXCEPT ![r] = place] /\ UNCHANGED runLock

(* withPgTransitionRunLock and the plan the run applies.  A planned        *)
(* adoption names the identity that was read when it was planned.          *)
Begin(r) ==
    /\ pc[r] = "idle"
    /\ runLock[r] = "free"
    /\ \E o \in Ops : op' = [op EXCEPT ![r] = o]
    /\ expected' = [expected EXCEPT ![r] = live[target[r]]]
    /\ pc' = [pc EXCEPT ![r] = "planned"]
    /\ runLock' = [runLock EXCEPT ![r] = "apply"]
    /\ UNCHANGED <<ledgerVars, catalogueVars, ledgerLock, target, stmt, rpc,
                   seen, faults, historyVars>>

(* What is decided before any lock: alreadyAppliedCreation skips a         *)
(* creation that is already managed, preflightPgDeclaredAdoption ends a    *)
(* refused or completed adoption.                                          *)
NothingToDo(r) ==
    LET a == target[r]
        managed == frame[a].stable = "managed"
    IN \/ op[r] = "create" /\ managed /\ live[a] # 0 /\ recorded[a] = live[a]
       \/ op[r] = "adopt" /\ (\/ managed
                              \/ frame[a] = Malformed
                              \/ live[a] = 0
                              \/ live[a] # expected[r])

Precheck(r) ==
    /\ pc[r] = "planned"
    /\ IF NothingToDo(r) THEN Stop(r) ELSE Goto(r, "ready")
    /\ UNCHANGED <<ledgerVars, catalogueVars, ledgerLock, taskVars, stmt, rpc,
                   seen, faults, historyVars>>

(* Every transaction begins with acquirePgLedgerLocks, which never waits.  *)
LockLedger(r) ==
    /\ \/ pc[r] = "ready" /\ Goto(r, "opening")
       \/ pc[r] = "claimed" /\ Goto(r, "marking")
       \/ pc[r] = "refusing" /\ Goto(r, "refused")
       \/ pc[r] = "ran" /\ Goto(r, "recording")
    /\ AcquireLedgerLock(r)
    /\ UNCHANGED <<ledgerVars, catalogueVars, taskVars, stmt, rpc, seen,
                   faults, historyVars>>

(* A busy lock ends the run where it is: an open claim stays open.         *)
LedgerBusy(r) ==
    /\ pc[r] \in {"ready", "claimed", "refusing", "ran"}
    /\ ledgerLock # None
    /\ Stop(r)
    /\ UNCHANGED <<ledgerVars, catalogueVars, ledgerLock, taskVars, stmt, rpc,
                   seen, faults, historyVars>>

(* openPgOutcomeClaimOnSession.                                            *)
OpenClaim(r) ==
    /\ pc[r] = "opening"
    /\ op[r] \notin SingleTransaction
    /\ IF Admitted(r)
       THEN AppendClaim(r, target[r]) /\ Goto(r, "claimed")
       ELSE UNCHANGED ledgerVars /\ Stop(r)
    /\ ReleaseLedgerLock(r)
    /\ UNCHANGED <<catalogueVars, taskVars, stmt, rpc, seen, faults,
                   historyVars>>

(* The executing transaction of runPgNonTransactionalOutcomeOnSession and  *)
(* runPgDestructiveOutcome: an occupied creation address rolls it back.    *)
Mark(r) ==
    /\ pc[r] = "marking"
    /\ IF op[r] \in RequiresVacancy /\ live[target[r]] # 0
       THEN UNCHANGED ledgerVars /\ Goto(r, "refusing")
       ELSE AppendProgress(target[r], "executing", 0) /\ Goto(r, "sending")
    /\ ReleaseLedgerLock(r)
    /\ UNCHANGED <<catalogueVars, taskVars, stmt, rpc, seen, faults,
                   historyVars>>

(* refuseClaim in a second transaction.                                    *)
Refuse(r) ==
    /\ pc[r] = "refused"
    /\ AppendResolution(r, target[r], "refused", 0)
    /\ Stop(r)
    /\ ReleaseLedgerLock(r)
    /\ UNCHANGED <<catalogueVars, taskVars, stmt, rpc, seen, faults, effect,
                   made>>

(* executePgManagedBundle: claimIsOpen, then the statement is on the wire. *)
Send(r) ==
    /\ pc[r] = "sending"
    /\ IF ClaimOpen(r)
       THEN stmt' = [stmt EXCEPT ![r] = "running"] /\ Goto(r, "running")
       ELSE UNCHANGED stmt /\ Stop(r)
    /\ UNCHANGED <<ledgerVars, catalogueVars, ledgerLock, taskVars, rpc, seen,
                   faults, historyVars>>

(* The acknowledgement of the statement, and readBackAndResolve's read of  *)
(* the catalogue, which precedes the ledger lock.                          *)
Receive(r) ==
    /\ pc[r] = "running"
    /\ \/ /\ stmt[r] = "done"
          /\ Goto(r, "ran")
          /\ seen' = [seen EXCEPT ![r] = live[target[r]]]
       \/ /\ stmt[r] = "failed"
          /\ Stop(r)
          /\ UNCHANGED seen
    /\ UNCHANGED <<ledgerVars, catalogueVars, ledgerLock, taskVars, stmt, rpc,
                   faults, historyVars>>

(* The terminal transaction.  observedResolutionMember reads the identity  *)
(* again and throws when it is absent; a removal that left its object      *)
(* behind becomes indeterminate.                                           *)
Record(r) ==
    LET a == target[r] IN
    /\ pc[r] = "recording"
    /\ \/ /\ op[r] = "createConcurrently"
          /\ IF live[a] # 0
             THEN AppendResolution(r, a, "observed", live[a])
             ELSE UNCHANGED <<ledgerVars, outcome>>
       \/ /\ op[r] = "retire"
          /\ seen[r] = 0
          /\ AppendResolution(r, a, "absent", 0)
       \/ /\ op[r] = "retire"
          /\ seen[r] # 0
          /\ AppendProgress(a, "indeterminate", 0)
          /\ UNCHANGED outcome
    /\ Stop(r)
    /\ ReleaseLedgerLock(r)
    /\ UNCHANGED <<catalogueVars, taskVars, stmt, rpc, seen, faults, effect,
                   made>>

(* runPgTransactionalOutcomeOnSession: claim, checks, DDL and outcome in   *)
(* one transaction.  Its four ends are: the claim is not admitted or the   *)
(* DDL fails (all is rolled back); a check made after the claim refuses it *)
(* (claim and refusal are committed); the DDL took effect (claim, DDL and  *)
(* outcome are committed).                                                 *)
RefusedInTransaction(r) ==
    LET a == target[r] IN
    \/ op[r] = "create" /\ live[a] # 0
    \/ op[r] = "adopt" /\ (live[a] = 0 \/ live[a] # expected[r])

RolledBack(r) ==
    /\ UNCHANGED <<ledgerVars, catalogueVars, historyVars>>

Effected(r) ==
    LET a == target[r] IN
    \/ /\ op[r] = "create"
       /\ minted < MaxIdentity
       /\ minted' = minted + 1
       /\ live' = [live EXCEPT ![a] = minted + 1]
       /\ made' = [made EXCEPT ![r] = minted + 1]
       /\ effect' = [effect EXCEPT ![r] = TRUE]
       /\ AppendWhole(r, a, "observed", minted + 1)
    \/ /\ op[r] = "modify"
       /\ live[a] # 0
       /\ effect' = [effect EXCEPT ![r] = TRUE]
       /\ AppendWhole(r, a, "observed", live[a])
       /\ UNCHANGED <<catalogueVars, made>>
    \/ /\ op[r] = "adopt"
       /\ made' = [made EXCEPT ![r] = live[a]]
       /\ AppendWhole(r, a, "adopt", live[a])
       /\ UNCHANGED <<catalogueVars, effect>>

Transact(r) ==
    /\ pc[r] = "opening"
    /\ op[r] \in SingleTransaction
    /\ \/ RolledBack(r)
       \/ /\ Admitted(r)
          /\ RefusedInTransaction(r)
          /\ AppendWhole(r, target[r], "refused", 0)
          /\ UNCHANGED <<catalogueVars, effect, made>>
       \/ /\ Admitted(r)
          /\ ~RefusedInTransaction(r)
          /\ Effected(r)
    /\ Stop(r)
    /\ ReleaseLedgerLock(r)
    /\ UNCHANGED <<taskVars, stmt, rpc, seen, faults>>

(* The server finishes a statement.  CREATE INDEX CONCURRENTLY may fail    *)
(* and leave an invalid index behind.  A removal drops whatever has the    *)
(* name by then.  The session of a dead client ends with its statement.    *)
StatementEnds(r) ==
    LET a == target[r] IN
    /\ stmt[r] = "running"
    /\ \/ /\ op[r] = "createConcurrently"
          /\ live[a] = 0
          /\ minted < MaxIdentity
          /\ minted' = minted + 1
          /\ live' = [live EXCEPT ![a] = minted + 1]
          /\ made' = [made EXCEPT ![r] = minted + 1]
          /\ effect' = [effect EXCEPT ![r] = TRUE]
          /\ \E end \in {"done", "failed"} : stmt' = [stmt EXCEPT ![r] = end]
       \/ /\ op[r] = "retire"
          /\ live[a] # 0
          /\ ClaimOpen(r) \/ ~Excluded(a)
          /\ live' = [live EXCEPT ![a] = 0]
          /\ effect' = [effect EXCEPT ![r] = TRUE]
          /\ stmt' = [stmt EXCEPT ![r] = "done"]
          /\ UNCHANGED <<minted, made>>
       \/ /\ stmt' = [stmt EXCEPT ![r] = "failed"]
          /\ UNCHANGED <<catalogueVars, made, effect>>
    /\ runLock' = [runLock EXCEPT ![r] =
           IF pc[r] = "stopped" /\ op[r] \in OnRunLockSession
           THEN "free" ELSE @]
    /\ UNCHANGED <<ledgerVars, ledgerLock, taskVars, pc, rpc, seen, faults,
                   outcome>>

(* The apply process dies, loses its connection or throws, at any place:   *)
(* an open transaction is rolled back.  A lost acknowledgement of a COMMIT *)
(* is this step right after the committing one.                            *)
ApplyFails(r) ==
    /\ pc[r] \in BusyPc
    /\ faults < MaxFaults
    /\ faults' = faults + 1
    /\ Stop(r)
    /\ ReleaseLedgerLock(r)
    /\ UNCHANGED <<ledgerVars, catalogueVars, taskVars, stmt, rpc, seen,
                   historyVars>>

(* releasePgManagedAddress: one ledger-locked transaction of its own.      *)
Release(a) ==
    /\ ledgerLock = None
    /\ ~IsOpen(frame[a])
    /\ frame[a].stable = "managed"
    /\ live[a] # 0
    /\ recorded[a] = live[a]
    /\ frame' = [frame EXCEPT ![a] =
                    Project(@, Event("released", None, None, FALSE))]
    /\ recorded' = [recorded EXCEPT ![a] = 0]
    /\ UNCHANGED <<reservation, catalogueVars, ledgerLock, runLock, taskVars,
                   pc, stmt, rpc, seen, faults, historyVars>>

-----------------------------------------------------------------------------
(* Reconciliation of one run: reconcilePgTransitionRun under the run lock, *)
(* recoverPgOutcomeClaimOnSession under the ledger lock.                   *)

EndKeepingRunLock(r) ==                                             \* fault
    rpc' = [rpc EXCEPT ![r] = "idle"] /\ UNCHANGED runLock

EndReconcile(r) ==
    /\ rpc' = [rpc EXCEPT ![r] = "idle"]
    /\ runLock' = [runLock EXCEPT ![r] = "free"]

ReconcileWithoutRunLock(r) ==                                       \* fault
    /\ rpc[r] = "idle"
    /\ reservation[target[r]] = r
    /\ ClaimOpen(r)
    /\ rpc' = [rpc EXCEPT ![r] = "selected"]
    /\ UNCHANGED <<ledgerVars, catalogueVars, ledgerLock, runLock, taskVars,
                   pc, stmt, seen, faults, historyVars>>

(* The reservations of the run select its open root claim.                 *)
ReconcileStart(r) ==
    /\ runLock[r] = "free"
    /\ reservation[target[r]] = r
    /\ ClaimOpen(r)
    /\ rpc' = [rpc EXCEPT ![r] = "selected"]
    /\ runLock' = [runLock EXCEPT ![r] = "reconcile"]
    /\ UNCHANGED <<ledgerVars, catalogueVars, ledgerLock, taskVars, pc, stmt,
                   seen, faults, historyVars>>

ReconcileLock(r) ==
    /\ rpc[r] = "selected"
    /\ AcquireLedgerLock(r)
    /\ rpc' = [rpc EXCEPT ![r] = "locked"]
    /\ UNCHANGED <<ledgerVars, catalogueVars, runLock, taskVars, pc, stmt,
                   seen, faults, historyVars>>

ReconcileBusy(r) ==
    /\ rpc[r] = "selected"
    /\ ledgerLock # None
    /\ EndReconcile(r)
    /\ UNCHANGED <<ledgerVars, catalogueVars, ledgerLock, taskVars, pc, stmt,
                   seen, faults, historyVars>>

(* What the operation's own read-back says, next to the plain presence of  *)
(* an object.  reconcile.ts never verifies the concurrent index it finds   *)
(* and has no read-back for a generated removal; an invalid index is       *)
(* unverifiable for everyone.                                              *)
ReadBackEffect(r) ==
    LET present == live[target[r]] # 0 IN
    CASE op[r] = "createConcurrently" /\ present ->
            IF r \in VerifiedRun /\ stmt[r] = "done"
            THEN "applied" ELSE "unverifiable"
      [] op[r] = "retire" /\ r \in VerifiedRun ->
            IF present THEN "no-effect" ELSE "applied"
      [] OTHER -> None

(* recoveryEvidenceForClaim finds the exclusion only in the plan of a      *)
(* durable run; a caller of its own may hand in the admission envelope.    *)
Recovery(r) ==
    ClassifyRecovery(frame[target[r]].claim, live[target[r]] # 0,
                     ReadBackEffect(r), op[r] \in ExclusionAccepted,
                     op[r] \in ExclusionAccepted \/ r \in VerifiedRun)

(* The catalogue is read and the claim classified; when nothing is to be   *)
(* appended the claim stays as it is.                                      *)
ReconcileRead(r) ==
    /\ rpc[r] = "locked"
    /\ IF Appends(Recovery(r))
       THEN /\ rpc' = [rpc EXCEPT ![r] = "read"]
            /\ seen' = [seen EXCEPT ![r] = live[target[r]]]
            /\ UNCHANGED <<runLock, ledgerLock>>
       ELSE /\ EndReconcile(r)
            /\ ReleaseLedgerLock(r)
            /\ UNCHANGED seen
    /\ UNCHANGED <<ledgerVars, catalogueVars, taskVars, pc, stmt, faults,
                   historyVars>>

(* The final catalogue read: a change since the evidence was read leaves   *)
(* the claim pending.  recoveryResolutionMember records the identity that  *)
(* was read, whatever the event.  A wrong row count, which recovery does   *)
(* not always roll back, cannot occur with one address to a claim (see     *)
(* ReservationMirrorsClaim); DestructiveGroup has the groups where it can. *)
ReconcileAppend(r) ==
    LET a == target[r] IN
    /\ rpc[r] = "read"
    /\ IF live[a] # seen[r] \/ ~Appends(Recovery(r))
       THEN UNCHANGED <<ledgerVars, outcome>>
       ELSE IF Recovery(r) = "indeterminate"
       THEN AppendProgress(a, "indeterminate", live[a]) /\ UNCHANGED outcome
       ELSE AppendResolution(r, a, Recovery(r), live[a])
    /\ EndReconcile(r)
    /\ ReleaseLedgerLock(r)
    /\ UNCHANGED <<catalogueVars, taskVars, pc, stmt, seen, faults, effect,
                   made>>

ReconcileFails(r) ==
    /\ rpc[r] # "idle"
    /\ faults < MaxFaults
    /\ faults' = faults + 1
    /\ EndReconcile(r)
    /\ ReleaseLedgerLock(r)
    /\ UNCHANGED <<ledgerVars, catalogueVars, taskVars, pc, stmt, seen,
                   historyVars>>

-----------------------------------------------------------------------------
(* Other users of the database.                                            *)

ExternalCreate(a) ==
    /\ live[a] = 0
    /\ ~Excluded(a)
    /\ minted < MaxIdentity
    /\ minted' = minted + 1
    /\ live' = [live EXCEPT ![a] = minted + 1]
    /\ UNCHANGED <<ledgerVars, ledgerLock, runLock, taskVars, pc, stmt, rpc,
                   seen, faults, historyVars>>

ExternalDrop(a) ==
    /\ live[a] # 0
    /\ ~Excluded(a)
    /\ live' = [live EXCEPT ![a] = 0]
    /\ UNCHANGED <<ledgerVars, minted, ledgerLock, runLock, taskVars, pc, stmt,
                   rpc, seen, faults, historyVars>>

ApplyStep(r) ==
    \/ Begin(r) \/ Precheck(r) \/ LockLedger(r) \/ LedgerBusy(r)
    \/ OpenClaim(r) \/ Mark(r) \/ Refuse(r) \/ Send(r) \/ Receive(r)
    \/ Record(r) \/ Transact(r) \/ StatementEnds(r) \/ ApplyFails(r)

ReconcileStep(r) ==
    \/ ReconcileStart(r) \/ ReconcileLock(r) \/ ReconcileBusy(r)
    \/ ReconcileRead(r) \/ ReconcileAppend(r) \/ ReconcileFails(r)

Next ==
    \/ \E r \in Run : ApplyStep(r) \/ ReconcileStep(r)
    \/ \E a \in Address : Release(a) \/ ExternalCreate(a) \/ ExternalDrop(a)

Spec == Init /\ [][Next]_vars

(* Processes and the server keep going, and an operator keeps reconciling. *)
(* The ledger lock is never waited for: a reconcile that finds it busy     *)
(* ends, so a retried one gets through only if it is not busy every time.  *)
(* That is an assumption on the operators, stated as strong fairness; a    *)
(* reconcile that always collides with another one makes no progress.      *)
Fairness ==
    \A r \in Run :
        /\ WF_vars(Precheck(r) \/ OpenClaim(r) \/ Mark(r) \/ Refuse(r)
                   \/ Send(r) \/ Receive(r) \/ Record(r) \/ Transact(r))
        /\ WF_vars(LockLedger(r) \/ LedgerBusy(r))
        /\ WF_vars(StatementEnds(r))
        /\ SF_vars(ledgerLock = None /\ ReconcileStart(r))
        /\ SF_vars(ReconcileLock(r))
        /\ WF_vars(ReconcileBusy(r))
        /\ WF_vars(ReconcileRead(r) \/ ReconcileAppend(r))

FairSpec == Spec /\ Fairness

-----------------------------------------------------------------------------
(* Properties.                                                             *)

ClaimRecord ==
    [kind : ClaimKind, id : Run, pair : {None}, before : StableState,
     phase : Phase]

FrameType ==
    [stable : StableState \cup {"malformed"}, claim : ClaimRecord \cup {NoClaim}]

(* Every variable has its type.                                            *)
TypeOK ==
    /\ frame \in [Address -> FrameType]
    /\ recorded \in [Address -> Identity]
    /\ reservation \in [Address -> Run \cup {None}]
    /\ live \in [Address -> Identity]
    /\ minted \in Identity
    /\ ledgerLock \in Run \cup {None}
    /\ runLock \in [Run -> {"free", "apply", "reconcile"}]
    /\ op \in [Run -> OpKind \cup {None}]
    /\ target \in [Run -> Address]
    /\ expected \in [Run -> Identity]
    /\ pc \in [Run -> BusyPc \cup {"idle", "stopped"}]
    /\ stmt \in [Run -> {"none", "running", "done", "failed"}]
    /\ rpc \in [Run -> {"idle", "selected"} \cup LockedRpc]
    /\ seen \in [Run -> Identity]
    /\ faults \in 0 .. MaxFaults
    /\ effect \in [Run -> BOOLEAN]
    /\ outcome \in [Run -> EventKind \cup {None}]
    /\ made \in [Run -> Identity]

(* A reservation row exists exactly while a claim is open on its address,  *)
(* and names that claim, whatever mixture of crashes, busy locks and       *)
(* reconciliations has happened ("a disagreement between the two is itself *)
(* a malformed state", docs/adr/0006).                                     *)
ReservationMirrorsClaim ==
    \A a \in Address : reservation[a] = frame[a].claim.id

(* No interleaving of executors and reconcilers appends an event the       *)
(* lifecycle grammar does not allow at that point, although the executing  *)
(* and the terminal append never check that their own claim is still the   *)
(* open one.                                                               *)
ChainNeverMalformed == \A a \in Address : frame[a] # Malformed

(* While an executor is between its claim and its outcome, nobody else has *)
(* closed its claim or moved it to another phase: the executing marker and *)
(* the outcome it appends land on its own claim.                           *)
ExecutorKeepsItsClaim ==
    \A r \in Run :
        /\ pc[r] \in {"claimed", "marking", "refusing", "refused"}
             => ClaimOpen(r) /\ frame[target[r]].claim.phase = "claimed"
        /\ pc[r] \in {"sending", "running", "ran", "recording"}
             => ClaimOpen(r) /\ frame[target[r]].claim.phase = "executing"

(* `refused` asserts that no effect occurred: a run whose claim was        *)
(* refused, by itself or by a reconciler, has changed nothing and has no   *)
(* statement left on the server that still could.                          *)
RefusedMeansNoEffect ==
    \A r \in Run : outcome[r] = "refused" => ~effect[r] /\ stmt[r] # "running"

(* A claim is closed only by what agrees with the catalogue its effect     *)
(* left: an observed creation created the identity the ledger records      *)
(* (never one that somebody else put there).                               *)
CreationRecordsItsOwnObject ==
    [][\A r \in Run :
         /\ op[r] \in RequiresVacancy
         /\ outcome[r] # "observed"
         /\ outcome'[r] = "observed"
         => /\ effect'[r]
            /\ recorded'[target[r]] = made'[r]
            /\ live'[target[r]] = made'[r]]_vars

(* DDL sent on the run-lock session takes effect only while its own claim  *)
(* is open: whoever closes the claim first waits for the statement.        *)
EffectUnderOwnClaim ==
    [][\A r \in Run :
         op[r] = "createConcurrently" /\ effect'[r] # effect[r] => ClaimOpen(r)]_vars

(* The claim of a stopped run is closed sooner or later once somebody      *)
(* keeps reconciling it: always when it stopped before its executing       *)
(* marker, and wherever it stopped when its read-back can verify the index *)
(* it created, unless the server left an invalid index behind.             *)
StoppedClaimsAreRecovered ==
    \A r \in Run :
        /\ (/\ pc[r] = "stopped"
            /\ ClaimOpen(r)
            /\ frame[target[r]].claim.phase = "claimed") ~> ~ClaimOpen(r)
        /\ (/\ r \in VerifiedRun
            /\ pc[r] = "stopped"
            /\ op[r] = "createConcurrently"
            /\ ClaimOpen(r)) ~> (~ClaimOpen(r) \/ (stmt[r] = "failed" /\ effect[r]))

(* Runs, crashes and recoveries together implement, on every address, the  *)
(* ledger address: claims open from the states their kind allows, their    *)
(* phases never go back, and each ends in an outcome of its kind.          *)
LedgerOf(a) == INSTANCE LedgerAddress WITH frame <- frame[a]

ImplementsLedger ==
    /\ \A a \in Address : LedgerOf(a)!Init
    /\ [][\A a \in Address : [LedgerOf(a)!Next]_(frame[a])]_frame

=============================================================================
