--------------------------- MODULE DestructiveGroup ---------------------------
(***************************************************************************)
(* A generated removal that takes other managed addresses with it: the     *)
(* root carries the DROP, every contained address of the closure a claim   *)
(* without SQL, and all of them one claim group                            *)
(* (packages/adapter-pgsql/src/transition/generator-execution.ts,          *)
(* outcome-protocol.ts, ledger.ts), and the recovery of such a group, one  *)
(* row of the reservation table after the other (reconcile.ts).            *)
(*                                                                         *)
(* OutcomeProtocol models the ledger lock and the reads around it; here a  *)
(* ledger-locked transaction is one action, and a busy lock is one of the  *)
(* faults that end a process or skip a row.  A claim is named after its    *)
(* run, on every address of the group; the root claim id a reservation row *)
(* carries is that name too.                                               *)
(*                                                                         *)
(* As in OutcomeProtocol, a definition marked "fault" is no part of the    *)
(* model: it is the next definition with a bug one could write.            *)
(***************************************************************************)
EXTENDS LedgerLifecycle

CONSTANTS
    Run,          \* the runs that remove the closure, one after a failed one
    Root,         \* the address that is dropped
    Members,      \* the contained addresses of the closure
    MaxIdentity,  \* bound: catalogue identities of one address
    MaxFaults     \* bound: processes that stop half way, rows skipped

ASSUME GroupAssumption ==
    /\ None \notin Run
    /\ Root \notin Members
    /\ MaxIdentity \in Nat \ {0}
    /\ MaxFaults \in Nat

Closure == {Root} \cup Members

VARIABLES
    frame,        \* frame[a]: what the event chain of a projects to
    recorded,     \* recorded[a]: catalogue identity of the terminal event
    reservation,  \* reservation[a]: root claim of the reservation row of a
    live,         \* live[a]: identity of the object at a, 0 for none
    minted,       \* minted[a]: the last identity given to an object at a
    runLock,      \* runLock[r]: which process holds r's advisory lock
    pc,           \* where the apply process of r is
    stmt,         \* the DROP of r on the server
    survivors,    \* survivors[r]: what r's read-back still found
    todo,         \* todo[r]: rows r's reconcile process has yet to recover
    faults,
    dropped,      \* history: dropped[r], the objects r's DROP has removed
    gone,         \* history: gone[r], addresses empty at some time under r
    outcome       \* history: outcome[r][a], the event that closed r's claim

ledgerVars == <<frame, recorded, reservation>>
catalogueVars == <<live, minted>>
historyVars == <<dropped, gone, outcome>>
vars == <<ledgerVars, catalogueVars, runLock, pc, stmt, survivors, todo,
          faults, historyVars>>

Malformed == Frame("malformed", NoClaim)

BusyPc == {"claimed", "sending", "running", "ran"}

ClaimOpen(r, a) == frame[a].claim.id = r

(* The addresses of the closure that are empty while r's claim stands.     *)
Witness ==
    gone' = [r \in Run |->
                gone[r] \cup {a \in Closure : frame'[a].claim.id = r /\ live'[a] = 0}]

Init ==
    /\ frame = [a \in Closure |-> Frame("managed", NoClaim)]
    /\ recorded = [a \in Closure |-> 1]
    /\ reservation = [a \in Closure |-> None]
    /\ live = [a \in Closure |-> 1]
    /\ minted = [a \in Closure |-> 1]
    /\ runLock = [r \in Run |-> "free"]
    /\ pc = [r \in Run |-> "idle"]
    /\ stmt = [r \in Run |-> "none"]
    /\ survivors = [r \in Run |-> {}]
    /\ todo = [r \in Run |-> {}]
    /\ faults = 0
    /\ dropped = [r \in Run |-> {}]
    /\ gone = [r \in Run |-> {}]
    /\ outcome = [r \in Run |-> [a \in Closure |-> None]]

-----------------------------------------------------------------------------
(* The apply process.                                                      *)

Project(f, e) == IF LegalEdge(f, e) THEN InterpretEdge(f, e) ELSE Malformed

ClaimEventWithoutId(r) == Event("retire-intent", None, None, FALSE) \* fault

ClaimEvent(r) == Event("retire-intent", r, None, FALSE)

Closing(kind) == Event(kind, None, None, FALSE)

(* admitOutcomeClaim for one claim of the group.                           *)
Admitted(r, a) ==
    /\ LegalEdge(frame[a], ClaimEvent(r))
    /\ ~IsOpen(frame[a])
    /\ reservation[a] = None
    /\ recorded[a] = live[a]
    /\ live[a] # 0

Stop(r) ==
    /\ pc' = [pc EXCEPT ![r] = "stopped"]
    /\ runLock' = [runLock EXCEPT ![r] = "free"]

Goto(r, place) == pc' = [pc EXCEPT ![r] = place] /\ UNCHANGED runLock

(* openPgOutcomeClaimGroup: all claims and all reservations, or none.      *)
OpenGroup(r) ==
    /\ pc[r] = "idle"
    /\ runLock[r] = "free"
    /\ IF \A a \in Closure : Admitted(r, a)
       THEN /\ frame' = [a \in Closure |-> Project(frame[a], ClaimEvent(r))]
            /\ recorded' = [a \in Closure |-> 0]
            /\ reservation' = [a \in Closure |-> r]
            /\ pc' = [pc EXCEPT ![r] = "claimed"]
            /\ runLock' = [runLock EXCEPT ![r] = "apply"]
       ELSE Stop(r) /\ UNCHANGED ledgerVars
    /\ UNCHANGED <<catalogueVars, stmt, survivors, todo, faults, dropped,
                   outcome>>
    /\ Witness

MarkNothing(r) ==                                                   \* fault
    /\ pc[r] = "claimed"
    /\ Goto(r, "sending")
    /\ UNCHANGED <<ledgerVars, catalogueVars, stmt, survivors, todo, faults,
                   historyVars>>

(* runPgDestructiveOutcome commits `executing` before the statement is     *)
(* sent, on the chain of the root.                                         *)
Mark(r) ==
    /\ pc[r] = "claimed"
    /\ frame' = [frame EXCEPT ![Root] = Project(@, Closing("executing"))]
    /\ recorded' = [recorded EXCEPT ![Root] = 0]
    /\ Goto(r, "sending")
    /\ UNCHANGED <<reservation, catalogueVars, stmt, survivors, todo, faults,
                   dropped, outcome>>
    /\ Witness

(* executePgManagedBundle: the root claim is still open.                   *)
Send(r) ==
    /\ pc[r] = "sending"
    /\ IF ClaimOpen(r, Root)
       THEN stmt' = [stmt EXCEPT ![r] = "running"] /\ Goto(r, "running")
       ELSE UNCHANGED stmt /\ Stop(r)
    /\ UNCHANGED <<ledgerVars, catalogueVars, survivors, todo, faults,
                   historyVars>>

ReadBackRootOnly(r) ==                                              \* fault
    /\ pc[r] = "running"
    /\ IF stmt[r] = "done"
       THEN /\ survivors' = [survivors EXCEPT ![r] = {a \in {Root} : live[a] # 0}]
            /\ Goto(r, "ran")
       ELSE stmt[r] = "failed" /\ Stop(r) /\ UNCHANGED survivors
    /\ UNCHANGED <<ledgerVars, catalogueVars, stmt, todo, faults, historyVars>>

(* readBackAndResolve reads every address of the closure, here at one      *)
(* moment; a failed statement leaves the group to recovery.                *)
ReadBack(r) ==
    /\ pc[r] = "running"
    /\ IF stmt[r] = "done"
       THEN /\ survivors' = [survivors EXCEPT ![r] = {a \in Closure : live[a] # 0}]
            /\ Goto(r, "ran")
       ELSE stmt[r] = "failed" /\ Stop(r) /\ UNCHANGED survivors
    /\ UNCHANGED <<ledgerVars, catalogueVars, stmt, todo, faults, historyVars>>

(* resolvePgOutcomeClaimGroup: with a survivor the whole group becomes     *)
(* indeterminate and keeps its reservations; otherwise every claim closes  *)
(* as `absent`, and the append of the root releases all reservations or    *)
(* rolls the group back.                                                   *)
Record(r) ==
    /\ pc[r] = "ran"
    /\ IF survivors[r] # {}
       THEN /\ frame' = [a \in Closure |-> Project(frame[a], Closing("indeterminate"))]
            /\ recorded' = [a \in Closure |-> 0]
            /\ UNCHANGED <<reservation, outcome>>
       ELSE IF \A a \in Closure : reservation[a] = r
       THEN /\ frame' = [a \in Closure |-> Project(frame[a], Closing("absent"))]
            /\ recorded' = [a \in Closure |-> 0]
            /\ reservation' = [a \in Closure |-> None]
            /\ outcome' = [outcome EXCEPT ![r] = [a \in Closure |-> "absent"]]
       ELSE UNCHANGED <<ledgerVars, outcome>>
    /\ Stop(r)
    /\ UNCHANGED <<catalogueVars, stmt, survivors, todo, faults, dropped>>
    /\ Witness

(* The process dies, finds the ledger lock busy or throws: its claims stay *)
(* open, its statement runs on.                                            *)
ApplyFails(r) ==
    /\ pc[r] \in BusyPc
    /\ faults < MaxFaults
    /\ faults' = faults + 1
    /\ Stop(r)
    /\ UNCHANGED <<ledgerVars, catalogueVars, stmt, survivors, todo,
                   historyVars>>

-----------------------------------------------------------------------------
(* The server and other users of the database.                             *)

(* The DROP takes the root and the objects it contains.  Another session   *)
(* may have detached a member from the root since the admission; that one  *)
(* survives.                                                               *)
StatementEnds(r) ==
    /\ stmt[r] = "running"
    /\ \/ /\ live[Root] # 0
          /\ \E kept \in SUBSET Members :
                /\ live' = [a \in Closure |-> IF a \in kept THEN live[a] ELSE 0]
                /\ dropped' = [dropped EXCEPT ![r] =
                                  {a \in Closure \ kept : live[a] # 0}]
          /\ stmt' = [stmt EXCEPT ![r] = "done"]
       \/ /\ stmt' = [stmt EXCEPT ![r] = "failed"]
          /\ UNCHANGED <<live, dropped>>
    /\ UNCHANGED <<ledgerVars, minted, runLock, pc, survivors, todo, faults,
                   outcome>>
    /\ Witness

ExternalCreate(a) ==
    /\ live[a] = 0
    /\ minted[a] < MaxIdentity
    /\ minted' = [minted EXCEPT ![a] = @ + 1]
    /\ live' = [live EXCEPT ![a] = minted[a] + 1]
    /\ UNCHANGED <<ledgerVars, runLock, pc, stmt, survivors, todo, faults,
                   historyVars>>

ExternalDrop(a) ==
    /\ live[a] # 0
    /\ live' = [live EXCEPT ![a] = 0]
    /\ UNCHANGED <<ledgerVars, minted, runLock, pc, stmt, survivors, todo,
                   faults, dropped, outcome>>
    /\ Witness

-----------------------------------------------------------------------------
(* Reconciliation.                                                         *)

Rows(r) == {a \in Closure : reservation[a] = r}

SelectWholeGroups(r) ==                                             \* fault
    /\ runLock[r] = "free"
    /\ Rows(r) # {}
    /\ \A a \in Rows(r) : ClaimOpen(r, a)
    /\ Root \in Rows(r)
    /\ todo' = [todo EXCEPT ![r] = Rows(r)]
    /\ runLock' = [runLock EXCEPT ![r] = "reconcile"]
    /\ UNCHANGED <<ledgerVars, catalogueVars, pc, stmt, survivors, faults,
                   historyVars>>

SelectWithoutRunLock(r) ==                                          \* fault
    /\ todo[r] = {}
    /\ Root \in Rows(r)
    /\ ClaimOpen(r, Root)
    /\ todo' = [todo EXCEPT ![r] = Rows(r)]
    /\ UNCHANGED <<ledgerVars, catalogueVars, runLock, pc, stmt, survivors,
                   faults, historyVars>>

(* reconcilePgTransitionRun groups the reservation rows of the run by root *)
(* claim and goes on only if exactly one row is that of the open root; any *)
(* other set of rows is "selection-unavailable" and nothing is done.       *)
Select(r) ==
    /\ runLock[r] = "free"
    /\ Root \in Rows(r)
    /\ ClaimOpen(r, Root)
    /\ todo' = [todo EXCEPT ![r] = Rows(r)]
    /\ runLock' = [runLock EXCEPT ![r] = "reconcile"]
    /\ UNCHANGED <<ledgerVars, catalogueVars, pc, stmt, survivors, faults,
                   historyVars>>

(* The row is done; the lock goes with the last one.                       *)
RowDone(r, a) ==
    /\ todo' = [todo EXCEPT ![r] = @ \ {a}]
    /\ runLock' = IF todo[r] = {a} THEN [runLock EXCEPT ![r] = "free"] ELSE runLock

(* A removal has no read-back of its own and no admission envelope here.   *)
Recovery(a) == ClassifyRecovery(frame[a].claim, live[a] # 0, None, FALSE, FALSE)

ReleaseGroup(r, a) ==                                               \* fault
    reservation' = [b \in Closure |-> IF a = Root THEN None ELSE reservation[b]]

(* Every row is recovered with the claim id of its own chain and a closure *)
(* of one row.  For the root that id is the one its reservation carries.   *)
(* For a member it is not: the deletion finds no row, the append throws,   *)
(* and appendPgOutcomeResolution, which finds the event it has just        *)
(* written, takes it for an earlier attempt of its own and commits.        *)
ReleaseRow(r, a) ==
    reservation' = IF a = Root THEN [reservation EXCEPT ![a] = None] ELSE reservation

RecoverRow(r, a) ==
    /\ a \in todo[r]
    /\ IF IsOpen(frame[a]) /\ Appends(Recovery(a))
       THEN /\ frame' = [frame EXCEPT ![a] =
                  Project(@, Event(Recovery(a), None, None, live[a] # 0))]
            /\ recorded' = [recorded EXCEPT ![a] = live[a]]
            /\ outcome' = [outcome EXCEPT ![r][a] = Recovery(a)]
            /\ ReleaseRow(r, a)
       ELSE UNCHANGED <<ledgerVars, outcome>>
    /\ RowDone(r, a)
    /\ UNCHANGED <<catalogueVars, pc, stmt, survivors, faults, dropped>>
    /\ Witness

(* A row whose ledger is busy or whose catalogue cannot be read is left,   *)
(* and the loop goes on.                                                   *)
SkipRow(r, a) ==
    /\ a \in todo[r]
    /\ faults < MaxFaults
    /\ faults' = faults + 1
    /\ RowDone(r, a)
    /\ UNCHANGED <<ledgerVars, catalogueVars, pc, stmt, survivors, historyVars>>

ReconcileFails(r) ==
    /\ todo[r] # {}
    /\ faults < MaxFaults
    /\ faults' = faults + 1
    /\ todo' = [todo EXCEPT ![r] = {}]
    /\ runLock' = [runLock EXCEPT ![r] = "free"]
    /\ UNCHANGED <<ledgerVars, catalogueVars, pc, stmt, survivors, historyVars>>

ApplyStep(r) ==
    \/ OpenGroup(r) \/ Mark(r) \/ Send(r) \/ ReadBack(r) \/ Record(r)
    \/ ApplyFails(r) \/ StatementEnds(r)

ReconcileStep(r) ==
    \/ Select(r) \/ ReconcileFails(r)
    \/ \E a \in Closure : RecoverRow(r, a) \/ SkipRow(r, a)

Next ==
    \/ \E r \in Run : ApplyStep(r) \/ ReconcileStep(r)
    \/ \E a \in Closure : ExternalCreate(a) \/ ExternalDrop(a)

Spec == Init /\ [][Next]_vars

(* Processes and the server keep going and an operator keeps reconciling.  *)
(* Nothing here waits for another process: weak fairness is enough.        *)
Fairness ==
    \A r \in Run :
        /\ WF_vars(Mark(r) \/ Send(r) \/ ReadBack(r) \/ Record(r))
        /\ WF_vars(StatementEnds(r))
        /\ WF_vars(Select(r))
        /\ WF_vars(\E a \in Closure : RecoverRow(r, a))

FairSpec == Spec /\ Fairness

-----------------------------------------------------------------------------
(* Properties.                                                             *)

ClaimRecord ==
    [kind : {"retire-intent"}, id : Run, pair : {None}, before : {"managed"},
     phase : Phase]

(* Every variable has its type.                                            *)
TypeOK ==
    /\ frame \in [Closure -> [stable : StableState, claim : ClaimRecord \cup {NoClaim}]
                             \cup {Malformed}]
    /\ recorded \in [Closure -> 0 .. MaxIdentity]
    /\ reservation \in [Closure -> Run \cup {None}]
    /\ live \in [Closure -> 0 .. MaxIdentity]
    /\ minted \in [Closure -> 1 .. MaxIdentity]
    /\ runLock \in [Run -> {"free", "apply", "reconcile"}]
    /\ pc \in [Run -> BusyPc \cup {"idle", "stopped"}]
    /\ stmt \in [Run -> {"none", "running", "done", "failed"}]
    /\ survivors \in [Run -> SUBSET Closure]
    /\ todo \in [Run -> SUBSET Closure]
    /\ faults \in 0 .. MaxFaults
    /\ dropped \in [Run -> SUBSET Closure]
    /\ gone \in [Run -> SUBSET Closure]
    /\ outcome \in [Run -> [Closure -> {None, "refused", "absent", "resolved"}]]

(* An open claim, of the root or of a member, is always backed by a        *)
(* reservation row of its own group, in whatever order the rows are        *)
(* recovered: no other run can claim the address under it.                 *)
OpenClaimIsReserved ==
    \A a \in Closure : IsOpen(frame[a]) => reservation[a] = frame[a].claim.id

(* A living executor still owns its whole group when it records the group: *)
(* no recovery has taken a member out of it, and none has moved a claim    *)
(* whose outcome the executor is about to append.                          *)
ExecutorKeepsItsGroup ==
    \A r \in Run, a \in Closure :
        pc[r] \in BusyPc =>
            /\ ClaimOpen(r, a)
            /\ reservation[a] = r
            /\ frame[a].claim.phase # "indeterminate"

(* A root claim is refused only if the DROP took nothing and never will.   *)
RefusedRootDroppedNothing ==
    \A r \in Run :
        outcome[r][Root] = "refused" => dropped[r] = {} /\ stmt[r] # "running"

(* `absent` is never recorded of an address whose object has been there    *)
(* all the time: a detached member that survives the DROP does not become  *)
(* absent with its root.                                                   *)
AbsentWasGone ==
    \A r \in Run, a \in Closure : outcome[r][a] = "absent" => a \in gone[r]

(* The root claim of a run that stopped before its executing marker is     *)
(* closed sooner or later, although a recovery of the group may stop after *)
(* any of its rows.                                                        *)
ClaimedRootIsRecovered ==
    \A r \in Run :
        (/\ pc[r] = "stopped"
         /\ ClaimOpen(r, Root)
         /\ frame[Root].claim.phase = "claimed") ~> ~ClaimOpen(r, Root)

(* On every address of the closure the group implements the ledger         *)
(* address, although root and members go through different phases and are  *)
(* closed by different processes.                                          *)
LedgerOf(a) == INSTANCE LedgerAddress WITH frame <- frame[a]

GroupImplementsLedger == [][\A a \in Closure : [LedgerOf(a)!Next]_(frame[a])]_frame

-----------------------------------------------------------------------------
(* What docs/adr/0006-managed-state-ledger.md says and the code does not   *)
(* do; refuted by a run of its own.                                        *)

(* A reservation row is "deleted in the same transaction as [the claim's]  *)
(* resolution".                                                            *)
ReservationEndsWithClaim ==
    \A a \in Closure : reservation[a] # None => IsOpen(frame[a])
=============================================================================
