----------------------------- MODULE DurableRun -----------------------------
(***************************************************************************)
(* Durable plan runs: `plan` records a proven plan, `apply` executes it    *)
(* and `recover` classifies it (docs/adr/0005).  The code is               *)
(* packages/core/src/transition/{applier,resume}.ts over                   *)
(* packages/adapter-pgsql/src/transition/{lifecycle,journal,lessor}.ts.    *)
(*                                                                         *)
(* A Session is one command-line process with the one PostgreSQL session   *)
(* it works on: applyPgTransitionRun and runRecover do everything - load,  *)
(* authorize, lock, execute, journal - on the session that holds the       *)
(* run's advisory lock.  The session outlives its process: a backend whose *)
(* client is gone still ends the statement or the COMMIT it was sent, and  *)
(* keeps its locks until then.                                             *)
(*                                                                         *)
(* Data is abstracted to what the fingerprints tell apart: each step       *)
(* changes one catalogue object of its own, which is in the state the plan *)
(* was proven from ("before"), in the state the step establishes           *)
(* ("after"), left unusable by a failed CREATE INDEX CONCURRENTLY          *)
(* ("invalid") or changed by somebody else ("other").                      *)
(*                                                                         *)
(* Definitions named as faults are not part of the model: each is a        *)
(* plausible bug in the definition that follows it.                        *)
(***************************************************************************)
EXTENDS Naturals, FiniteSets

CONSTANTS
    Session,      \* processes, each with the session it leased
    Run,          \* identifiers of durable runs
    Step,         \* the steps plans are made of, numbered in plan order
    SegmentOf,    \* the segment the composer puts a step in
    AutoCommit,   \* the steps that forbid a transaction block
    Plans,        \* the sets of steps an operator's declarations ask for
    MaxAttempt,   \* bound: admitted apply attempts
    MaxFault,     \* bound: lost sessions, failed writes, drifts
    MaxDrift      \* bound: changes made by somebody else among them

None == "none"

ASSUME SessionAssumption == None \notin Session
ASSUME StepAssumption == Step \subseteq Nat
ASSUME SegmentAssumption ==
    /\ SegmentOf \in [Step -> Nat]
    /\ \A s, t \in Step : s <= t => SegmentOf[s] <= SegmentOf[t]
\* composeOperations refuses a plan of several operations one of which
\* mutates its session, and the concurrent index build does: it is always a
\* plan of its own.
ASSUME PlansAssumption ==
    /\ Plans \subseteq (SUBSET Step) \ {{}}
    /\ \A P \in Plans : \A s \in P \cap AutoCommit : P = {s}
ASSUME BoundAssumption ==
    /\ MaxAttempt \in Nat
    /\ MaxFault \in Nat
    /\ MaxDrift \in Nat

ObjectState == {"before", "after", "invalid", "other"}
\* "not-applied" stands for guard-failed, guard-timeout and
\* operation-failed-not-applied.
Outcome == {"completed", "not-applied", "partially-applied", "unknown"}
Verdict == {None, "planned", "partially-applied", "outcome-unknown",
            "completed", "resume-required"}
Event == [step : Step, kind : {"intent", "completion", "observed"},
          outcome : Outcome \cup {None}, exec : 1..MaxAttempt]

VARIABLES
    object,       \* the committed catalogue
    plan,         \* the recorded plan of each run, {} before it is recorded
    journal,      \* the committed step events of each run
    authorized,   \* runs with a committed authorization record
    verdict,      \* what the operator was last told about each run
    runLock,      \* session advisory lock of each run
    objectLock,   \* relation or type lock a step holds until its COMMIT
    pc, run, exec, at,  \* process: position, run, execution id, current step
    done,         \* steps whose effect this process knows to be committed
    warned,       \* an observed event of a committed step was not written
    pending,      \* steps executed in the session's open transaction
    logged,       \* events written in the session's open transaction
    conn,         \* the session: closed, open, or orphaned by its client
    sent,         \* the statement or COMMIT of the session and how it ended
    attempts, faults, drifts,
    landed,       \* history: steps whose effect a run's session committed
    settled       \* history: begun runs recovery has classified

catalogueVars == <<object, objectLock>>
recordVars == <<plan, journal, authorized>>
processVars == <<pc, run, exec, at, done, warned>>
sessionVars == <<pending, logged, conn, sent>>
historyVars == <<landed, settled>>
vars == <<catalogueVars, recordVars, verdict, runLock, processVars,
          sessionVars, attempts, faults, drifts, historyVars>>

Init ==
    /\ object = [s \in Step |-> "before"]
    /\ plan = [r \in Run |-> {}]
    /\ journal = [r \in Run |-> {}]
    /\ authorized = {}
    /\ verdict = [r \in Run |-> None]
    /\ runLock = [r \in Run |-> None]
    /\ objectLock = [s \in Step |-> None]
    /\ pc = [p \in Session |-> "idle"]
    /\ run = [p \in Session |-> None]
    /\ exec = [p \in Session |-> 0]
    /\ at = [p \in Session |-> 0]
    /\ done = [p \in Session |-> {}]
    /\ warned = [p \in Session |-> FALSE]
    /\ pending = [p \in Session |-> {}]
    /\ logged = [p \in Session |-> {}]
    /\ conn = [p \in Session |-> "closed"]
    /\ sent = [p \in Session |-> None]
    /\ attempts = 0 /\ faults = 0 /\ drifts = 0
    /\ landed = [r \in Run |-> {}]
    /\ settled = {}

-----------------------------------------------------------------------------
(* Positions in a plan.                                                    *)

IsFirst(s, S) == s \in S /\ \A t \in S : s <= t
Later(p) == {s \in plan[run[p]] : s > at[p]}
SegmentSteps(p) == {s \in plan[run[p]] : SegmentOf[s] = SegmentOf[at[p]]}
RestOfSegment(p) == Later(p) \cap SegmentSteps(p)
Transactional(p) == at[p] \notin AutoCommit

EventWithoutOutcome(p, kind, outcome) ==  \* fault
    [step |-> at[p], kind |-> kind, exec |-> exec[p]]

EventOf(p, kind, outcome) ==
    [step |-> at[p], kind |-> kind, outcome |-> outcome, exec |-> exec[p]]

Unlocked(lock, p) ==
    [x \in DOMAIN lock |-> IF lock[x] = p THEN None ELSE lock[x]]

Inflight(p) == sent[p] \in {"statement", "commit"}

-----------------------------------------------------------------------------
(* How a process ends: it rolls back what it left open, tells the operator *)
(* its verdict, unlocks the run and gives the session back.                *)

LeaveKeepingRunLock(p, told) ==  \* fault
    /\ pc' = [pc EXCEPT ![p] = "idle"]
    /\ verdict' = [verdict EXCEPT ![run[p]] = told]
    /\ conn' = [conn EXCEPT ![p] = "closed"]
    /\ sent' = [sent EXCEPT ![p] = None]
    /\ pending' = [pending EXCEPT ![p] = {}]
    /\ logged' = [logged EXCEPT ![p] = {}]
    /\ objectLock' = Unlocked(objectLock, p)
    /\ run' = [run EXCEPT ![p] = None]
    /\ exec' = [exec EXCEPT ![p] = 0]
    /\ at' = [at EXCEPT ![p] = 0]
    /\ done' = [done EXCEPT ![p] = {}]
    /\ warned' = [warned EXCEPT ![p] = FALSE]
    /\ UNCHANGED runLock

Leave(p, told) ==
    /\ pc' = [pc EXCEPT ![p] = "idle"]
    /\ verdict' = [verdict EXCEPT ![run[p]] = told]
    /\ conn' = [conn EXCEPT ![p] = "closed"]
    /\ sent' = [sent EXCEPT ![p] = None]
    /\ pending' = [pending EXCEPT ![p] = {}]
    /\ logged' = [logged EXCEPT ![p] = {}]
    /\ runLock' = Unlocked(runLock, p)
    /\ objectLock' = Unlocked(objectLock, p)
    /\ run' = [run EXCEPT ![p] = None]
    /\ exec' = [exec EXCEPT ![p] = 0]
    /\ at' = [at EXCEPT ![p] = 0]
    /\ done' = [done EXCEPT ![p] = {}]
    /\ warned' = [warned EXCEPT ![p] = FALSE]

Stopped(p) == IF done[p] = {} THEN "planned" ELSE "partially-applied"

Move(p, from, to) ==
    /\ pc[p] = from
    /\ pc' = [pc EXCEPT ![p] = to]

WriteJournal(p, events) ==
    journal' = [journal EXCEPT ![run[p]] = @ \cup events]

\* The process rolled its transaction back, or never had one, and records
\* what it decided in a transaction of its own.  When that write fails it
\* still reports the outcome it decided.
StopWith(p, outcome, told) ==
    /\ \/ /\ WriteJournal(p, {EventOf(p, "observed", outcome)})
          /\ UNCHANGED faults
       \/ /\ faults < MaxFault
          /\ faults' = faults + 1
          /\ UNCHANGED journal
    /\ Leave(p, told)

-----------------------------------------------------------------------------
(* plan, apply: up to the intent of a step.                                *)

\* A plan is proven from the live catalogue and stored with its run.
PlanRun(r) ==
    /\ plan[r] = {}
    /\ \E P \in Plans :
          /\ \A s \in P : object[s] = "before"
          /\ plan' = [plan EXCEPT ![r] = P]
    /\ UNCHANGED <<catalogueVars, journal, authorized, verdict, runLock,
                   processVars, sessionVars, attempts, faults, drifts,
                   historyVars>>

TakeWithoutLock(p, r, position, execution) ==  \* fault
    /\ conn[p] = "closed"
    /\ pc' = [pc EXCEPT ![p] = position]
    /\ conn' = [conn EXCEPT ![p] = "open"]
    /\ verdict' = [verdict EXCEPT ![r] = None]
    /\ run' = [run EXCEPT ![p] = r]
    /\ exec' = [exec EXCEPT ![p] = execution]
    /\ \E s \in plan[r] : IsFirst(s, plan[r]) /\ at' = [at EXCEPT ![p] = s]
    /\ UNCHANGED runLock

Take(p, r, position, execution) ==
    /\ conn[p] = "closed" /\ runLock[r] = None
    /\ pc' = [pc EXCEPT ![p] = position]
    /\ conn' = [conn EXCEPT ![p] = "open"]
    /\ runLock' = [runLock EXCEPT ![r] = p]
    /\ verdict' = [verdict EXCEPT ![r] = None]
    /\ run' = [run EXCEPT ![p] = r]
    /\ exec' = [exec EXCEPT ![p] = execution]
    /\ \E s \in plan[r] : IsFirst(s, plan[r]) /\ at' = [at EXCEPT ![p] = s]

\* A busy run lock and prior step events end the command: nothing changes.
BeginApply(p, r) ==
    /\ attempts < MaxAttempt
    /\ journal[r] = {}
    /\ Take(p, r, "loaded", attempts + 1)
    /\ attempts' = attempts + 1
    /\ UNCHANGED <<catalogueVars, recordVars, done, warned, pending, logged,
                   sent, faults, drifts, historyVars>>

\* Admission of the session, then the authorization, committed before any
\* step; the insertion refuses a run that has step events.
Authorize(p) ==
    /\ Move(p, "loaded", "step")
    /\ journal[run[p]] = {}
    /\ authorized' = authorized \cup {run[p]}
    /\ UNCHANGED <<catalogueVars, plan, journal, verdict, runLock, run, exec,
                   at, done, warned, sessionVars, attempts, faults, drifts,
                   historyVars>>

Refuse(p) ==
    /\ pc[p] = "loaded"
    /\ Leave(p, "planned")
    /\ UNCHANGED <<object, recordVars, attempts, faults, drifts, historyVars>>

LockNothing(p) ==  \* fault
    /\ Move(p, "step", "locked")
    /\ UNCHANGED <<catalogueVars, recordVars, verdict, runLock, run, exec, at,
                   done, warned, sessionVars, attempts, faults, drifts,
                   historyVars>>

\* The lock a transactional step takes on its object; concurrent index
\* creation takes none.
LockStep(p) ==
    /\ Move(p, "step", "locked")
    /\ Transactional(p) => objectLock[at[p]] \in {None, p}
    /\ objectLock' = IF Transactional(p)
                     THEN [objectLock EXCEPT ![at[p]] = p] ELSE objectLock
    /\ UNCHANGED <<object, recordVars, verdict, runLock, run, exec, at, done,
                   warned, sessionVars, attempts, faults, drifts,
                   historyVars>>

\* lock_timeout, a context that moved, an expectedBefore mismatch: refused
\* before the intent, without an event.
RefuseStep(p) ==
    /\ \/ pc[p] = "step" /\ Transactional(p)
          /\ objectLock[at[p]] \notin {None, p}
       \/ pc[p] = "locked"
    /\ Leave(p, Stopped(p))
    /\ UNCHANGED <<object, recordVars, attempts, faults, drifts, historyVars>>

\* The fingerprints cannot be built: an observed unknown outcome.
Unreadable(p) ==
    /\ pc[p] = "locked"
    /\ StopWith(p, "unknown", "outcome-unknown")
    /\ UNCHANGED <<object, plan, authorized, attempts, drifts, historyVars>>

ProvenBefore(p) == object[at[p]] = "before"

Intend(p) ==
    /\ Move(p, "locked", "intent")
    /\ ProvenBefore(p)
    /\ LET intent == {EventOf(p, "intent", None)} IN
       IF Transactional(p)
       THEN /\ logged' = [logged EXCEPT ![p] = @ \cup intent]
            /\ UNCHANGED journal
       ELSE /\ WriteJournal(p, intent)
            /\ UNCHANGED logged
    /\ UNCHANGED <<catalogueVars, plan, authorized, verdict, runLock, run,
                   exec, at, done, warned, pending, conn, sent, attempts,
                   faults, drifts, historyVars>>

-----------------------------------------------------------------------------
(* apply: from the intent of a step to its completion.                     *)

\* A guard rejects the target, or the step times out on a lock before its
\* statement.
GuardFails(p) ==
    /\ pc[p] = "intent"
    /\ StopWith(p, "not-applied", Stopped(p))
    /\ UNCHANGED <<object, plan, authorized, attempts, drifts, historyVars>>

\* The managed outcome of a concurrent build is refused before it is sent:
\* the applier records it as a partial application.
ClaimRefused(p) ==
    /\ pc[p] = "intent" /\ ~ Transactional(p)
    /\ StopWith(p, "partially-applied", "partially-applied")
    /\ UNCHANGED <<object, plan, authorized, attempts, drifts, historyVars>>

Send(p) ==
    /\ Move(p, "intent", "running")
    /\ sent' = [sent EXCEPT ![p] = "statement"]
    /\ UNCHANGED <<catalogueVars, recordVars, verdict, runLock, run, exec, at,
                   done, warned, pending, logged, conn, attempts, faults,
                   drifts, historyVars>>

\* The server ends the statement.  In a transaction its effect is pending;
\* a concurrent build commits as it goes and may leave an invalid index.
StatementEnds(p) ==
    /\ sent[p] = "statement"
    /\ \/ /\ Transactional(p)
          /\ pending' = [pending EXCEPT ![p] = @ \cup {at[p]}]
          /\ sent' = [sent EXCEPT ![p] = "ok"]
          /\ UNCHANGED <<object, landed>>
       \/ /\ ~ Transactional(p) /\ object[at[p]] = "before"
          /\ object' = [object EXCEPT ![at[p]] = "after"]
          /\ landed' = [landed EXCEPT ![run[p]] = @ \cup {at[p]}]
          /\ sent' = [sent EXCEPT ![p] = "ok"]
          /\ UNCHANGED pending
       \/ /\ object' \in {object, [object EXCEPT ![at[p]] =
                    IF @ = "before" /\ ~ Transactional(p)
                    THEN "invalid" ELSE @]}
          /\ sent' = [sent EXCEPT ![p] = "failed"]
          /\ UNCHANGED <<pending, landed>>
    /\ UNCHANGED <<objectLock, recordVars, verdict, runLock, processVars,
                   logged, conn, attempts, faults, drifts, settled>>

\* An error rolls the transaction back.  After a concurrent build any answer
\* but a verified index leaves the claim open and compromises the session.
Receive(p) ==
    /\ pc[p] = "running" /\ ~ Inflight(p)
    /\ \/ /\ sent[p] = "ok"
          /\ Move(p, "running", "verify")
          /\ sent' = [sent EXCEPT ![p] = None]
          /\ UNCHANGED <<objectLock, journal, verdict, runLock, run, exec, at,
                         done, warned, pending, logged, conn, faults>>
       \/ /\ sent[p] = "failed" /\ Transactional(p)
          /\ StopWith(p, "not-applied", Stopped(p))
       \/ /\ ~ Transactional(p)
          /\ Leave(p, "outcome-unknown")
          /\ UNCHANGED <<journal, faults>>
    /\ UNCHANGED <<object, plan, authorized, attempts, drifts, historyVars>>

\* expectedAfter is compared with what the session sees: its own transaction
\* over the committed catalogue.
Established(p) == at[p] \in pending[p] \/ object[at[p]] = "after"

Verify(p) ==
    /\ Move(p, "verify", "complete")
    /\ Established(p)
    /\ UNCHANGED <<catalogueVars, recordVars, verdict, runLock, run, exec, at,
                   done, warned, sessionVars, attempts, faults, drifts,
                   historyVars>>

\* The observation fails or does not match.
VerifyFails(p) ==
    /\ pc[p] = "verify"
    /\ IF Transactional(p)
       THEN StopWith(p, "not-applied", Stopped(p))
       ELSE StopWith(p, "partially-applied", "partially-applied")
    /\ UNCHANGED <<object, plan, authorized, attempts, drifts, historyVars>>

\* The next step of the segment, or its end.
EndStep(p) ==
    \/ \E s \in RestOfSegment(p) :
          /\ IsFirst(s, RestOfSegment(p))
          /\ at' = [at EXCEPT ![p] = s]
          /\ pc' = [pc EXCEPT ![p] = "step"]
    \/ /\ RestOfSegment(p) = {}
       /\ pc' = [pc EXCEPT ![p] = IF Transactional(p) THEN "commit"
                                  ELSE "record"]
       /\ UNCHANGED at

CompleteOutsideTransaction(p) ==  \* fault
    /\ pc[p] = "complete"
    /\ WriteJournal(p, {EventOf(p, "completion", None)})
    /\ EndStep(p)
    /\ UNCHANGED <<catalogueVars, plan, authorized, verdict, runLock, run,
                   exec, done, warned, sessionVars, attempts, faults,
                   drifts, historyVars>>

\* The completion is part of the step's transaction, if it has one.
Complete(p) ==
    /\ pc[p] = "complete"
    /\ LET completion == {EventOf(p, "completion", None)} IN
       IF Transactional(p)
       THEN /\ logged' = [logged EXCEPT ![p] = @ \cup completion]
            /\ UNCHANGED journal
       ELSE /\ WriteJournal(p, completion)
            /\ UNCHANGED logged
    /\ EndStep(p)
    /\ UNCHANGED <<catalogueVars, plan, authorized, verdict, runLock, run,
                   exec, done, warned, pending, conn, sent, attempts, faults,
                   drifts, historyVars>>

\* The write of the completion fails.  No rollback takes a concurrent build
\* back, but the managed path never marks it as one, so the applier takes
\* the step for not applied either way.
CompleteFails(p) ==
    /\ pc[p] = "complete"
    /\ faults < MaxFault
    /\ \/ WriteJournal(p, {EventOf(p, "observed", "not-applied")})
       \/ UNCHANGED journal
    /\ faults' = faults + 1
    /\ Leave(p, Stopped(p))
    /\ UNCHANGED <<object, plan, authorized, attempts, drifts, historyVars>>

-----------------------------------------------------------------------------
(* apply: the end of a segment.                                            *)

Commit(p) ==
    /\ Move(p, "commit", "committing")
    /\ sent' = [sent EXCEPT ![p] = "commit"]
    /\ UNCHANGED <<catalogueVars, recordVars, verdict, runLock, run, exec, at,
                   done, warned, pending, logged, conn, attempts, faults,
                   drifts, historyVars>>

\* The server commits the segment's effects and events together, or none.
CommitEnds(p) ==
    /\ sent[p] = "commit"
    /\ \/ /\ object' = [s \in Step |-> IF s \in pending[p] THEN "after"
                                       ELSE object[s]]
          /\ landed' = [landed EXCEPT ![run[p]] = @ \cup pending[p]]
          /\ WriteJournal(p, logged[p])
          /\ sent' = [sent EXCEPT ![p] = "ok"]
       \/ /\ sent' = [sent EXCEPT ![p] = "failed"]
          /\ UNCHANGED <<object, landed, journal>>
    /\ pending' = [pending EXCEPT ![p] = {}]
    /\ logged' = [logged EXCEPT ![p] = {}]
    /\ objectLock' = Unlocked(objectLock, p)
    /\ UNCHANGED <<plan, authorized, verdict, runLock, processVars, conn,
                   attempts, faults, drifts, settled>>

\* A failed COMMIT is an uncertain one: no event, and the session is
\* compromised.
ReceiveCommit(p) ==
    /\ pc[p] = "committing" /\ ~ Inflight(p)
    /\ \/ /\ sent[p] = "ok"
          /\ pc' = [pc EXCEPT ![p] = "record"]
          /\ sent' = [sent EXCEPT ![p] = None]
          /\ UNCHANGED <<objectLock, verdict, runLock, run, exec, at, done,
                         warned, pending, logged, conn>>
       \/ /\ sent[p] = "failed"
          /\ Leave(p, "outcome-unknown")
    /\ UNCHANGED <<object, recordVars, attempts, faults, drifts, historyVars>>

\* The observed event of the next committed step.  A write that fails leaves
\* a warning; a warned run is never reported as completed.
RecordStep(p) ==
    /\ pc[p] = "record"
    /\ \E s \in SegmentSteps(p) \ done[p] :
          /\ IsFirst(s, SegmentSteps(p) \ done[p])
          /\ \/ /\ WriteJournal(p, {[EventOf(p, "observed", "completed")
                                     EXCEPT !.step = s]})
                /\ UNCHANGED <<warned, faults>>
             \/ /\ faults < MaxFault
                /\ faults' = faults + 1
                /\ warned' = [warned EXCEPT ![p] = TRUE]
                /\ UNCHANGED journal
          /\ done' = [done EXCEPT ![p] = @ \cup {s}]
    /\ UNCHANGED <<catalogueVars, plan, authorized, verdict, runLock, pc, run,
                   exec, at, sessionVars, attempts, drifts, historyVars>>

NextSegment(p) ==
    /\ Move(p, "record", "step")
    /\ SegmentSteps(p) \subseteq done[p]
    /\ \E s \in Later(p) : IsFirst(s, Later(p)) /\ at' = [at EXCEPT ![p] = s]
    /\ UNCHANGED <<catalogueVars, recordVars, verdict, runLock, run, exec,
                   done, warned, sessionVars, attempts, faults, drifts,
                   historyVars>>

Finish(p) ==
    /\ pc[p] = "record"
    /\ SegmentSteps(p) \subseteq done[p] /\ Later(p) = {}
    /\ Leave(p, IF warned[p] THEN "outcome-unknown" ELSE "completed")
    /\ UNCHANGED <<object, recordVars, attempts, faults, drifts, historyVars>>

-----------------------------------------------------------------------------
(* recover.                                                                *)

\* A run without events is pristine: recovery answers resume-required at
\* once and touches nothing.  A begun run needs its authorization.
BeginRecover(p, r) ==
    /\ journal[r] # {} /\ r \in authorized
    /\ \E e \in journal[r] : Take(p, r, "recover", e.exec)
    /\ UNCHANGED <<catalogueVars, recordVars, done, warned, pending, logged,
                   sent, attempts, faults, drifts, historyVars>>

EventsAt(p) == {e \in journal[run[p]] : e.step = at[p]}
ObservedAs(p, outcome) ==
    \E e \in EventsAt(p) : e.kind = "observed" /\ e.outcome = outcome
KnownComplete(p) ==
    ObservedAs(p, "completed") \/ \E e \in EventsAt(p) : e.kind = "completion"

Settle(p, told) ==
    /\ Leave(p, told)
    /\ settled' = settled \cup {run[p]}
    /\ UNCHANGED <<journal, faults>>

\* What recovery says of the run when it stops at this step.
Answer(p) ==
    IF EventsAt(p) = {} THEN "resume-required"
    ELSE IF ObservedAs(p, "not-applied") THEN Stopped(p)
    ELSE IF ObservedAs(p, "partially-applied") THEN "partially-applied"
    ELSE IF ObservedAs(p, "unknown") THEN "outcome-unknown"
    ELSE IF ~ KnownComplete(p) /\ object[at[p]] = "before"
         THEN "resume-required" ELSE "outcome-unknown"

\* The step is reported complete only while the catalogue still shows what
\* it established.
ShowsComplete(p) ==
    /\ EventsAt(p) # {}
    /\ \A outcome \in Outcome \ {"completed"} : ~ ObservedAs(p, outcome)
    /\ object[at[p]] = "after"

RecoverStep(p) ==
    /\ pc[p] = "recover"
    /\ \/ ~ ShowsComplete(p) /\ Settle(p, Answer(p))
       \/ /\ ShowsComplete(p)
          /\ WriteJournal(p, IF ObservedAs(p, "completed") THEN {}
                             ELSE {EventOf(p, "observed", "completed")})
          /\ UNCHANGED faults
          /\ \/ \E s \in Later(p) :
                   /\ IsFirst(s, Later(p))
                   /\ at' = [at EXCEPT ![p] = s]
                   /\ done' = [done EXCEPT ![p] = @ \cup {at[p]}]
                   /\ UNCHANGED <<objectLock, verdict, runLock, pc, run, exec,
                                  warned, sessionVars, settled>>
             \/ /\ Later(p) = {}
                /\ Leave(p, "completed")
                /\ settled' = settled \cup {run[p]}
    /\ UNCHANGED <<object, plan, authorized, attempts, drifts, landed>>

\* A read or a write of recovery fails: a blocked answer, nothing recorded.
RecoverFails(p) ==
    /\ pc[p] = "recover"
    /\ faults < MaxFault
    /\ faults' = faults + 1
    /\ Leave(p, None)
    /\ UNCHANGED <<object, recordVars, attempts, drifts, historyVars>>

-----------------------------------------------------------------------------
(* Crashes, and everybody else.                                            *)

LostIsPartial(p) == "partially-applied"  \* fault

\* The verdict of a process that survives its session.
LostVerdict(p) ==
    IF pc[p] = "loaded" THEN "planned"
    ELSE IF pc[p] \in {"step", "locked", "intent"}
         THEN IF pending[p] = {} THEN Stopped(p) ELSE "outcome-unknown"
    ELSE IF pc[p] = "verify" /\ ~ Transactional(p) THEN "partially-applied"
    ELSE IF pc[p] = "complete" /\ ~ Transactional(p) THEN Stopped(p)
    ELSE IF pc[p] = "record"
         THEN IF Later(p) = {} THEN "outcome-unknown" ELSE "partially-applied"
    ELSE IF pc[p] = "recover" THEN None
    ELSE "outcome-unknown"

LoseSessionUnlocking(p) ==  \* fault
    /\ conn[p] = "open"
    /\ faults < MaxFault
    /\ faults' = faults + 1
    /\ conn' = [conn EXCEPT ![p] = "orphan"]
    /\ pc' = [pc EXCEPT ![p] = "idle"]
    /\ verdict' = [verdict EXCEPT ![run[p]] = None]
    /\ runLock' = Unlocked(runLock, p)
    /\ done' = [done EXCEPT ![p] = {}]
    /\ warned' = [warned EXCEPT ![p] = FALSE]
    /\ UNCHANGED <<catalogueVars, recordVars, run, exec, at, pending, logged,
                   sent, attempts, drifts, historyVars>>

\* The process dies, or loses its session and says so.  The backend goes on
\* until it notices, with its locks.
LoseSession(p) ==
    /\ conn[p] = "open"
    /\ faults < MaxFault
    /\ faults' = faults + 1
    /\ conn' = [conn EXCEPT ![p] = "orphan"]
    /\ pc' = [pc EXCEPT ![p] = "idle"]
    /\ \E told \in {None, LostVerdict(p)} :
          verdict' = [verdict EXCEPT ![run[p]] = told]
    /\ done' = [done EXCEPT ![p] = {}]
    /\ warned' = [warned EXCEPT ![p] = FALSE]
    /\ UNCHANGED <<catalogueVars, recordVars, runLock, run, exec, at, pending,
                   logged, sent, attempts, drifts, historyVars>>

\* The backend ends what it was sent, then its session: rollback, unlock.
BackendEnds(p) ==
    /\ conn[p] = "orphan" /\ ~ Inflight(p)
    /\ Leave(p, verdict[run[p]])
    /\ UNCHANGED <<object, recordVars, attempts, faults, drifts, historyVars>>

\* Somebody else changes an object no transaction has locked.
Drift(s) ==
    /\ drifts < MaxDrift /\ faults < MaxFault
    /\ objectLock[s] = None
    /\ \E state \in {"before", "after", "other"} \ {object[s]} :
          object' = [object EXCEPT ![s] = state]
    /\ drifts' = drifts + 1
    /\ faults' = faults + 1
    /\ UNCHANGED <<objectLock, recordVars, verdict, runLock, processVars,
                   sessionVars, attempts, historyVars>>

-----------------------------------------------------------------------------
ApplyStep(p) ==
    \/ Authorize(p) \/ Refuse(p) \/ LockStep(p) \/ RefuseStep(p)
    \/ Unreadable(p) \/ Intend(p) \/ GuardFails(p) \/ ClaimRefused(p)
    \/ Send(p) \/ Receive(p) \/ Verify(p) \/ VerifyFails(p) \/ Complete(p)
    \/ CompleteFails(p) \/ Commit(p) \/ ReceiveCommit(p) \/ RecordStep(p)
    \/ NextSegment(p) \/ Finish(p)

ProcessStep(p) == ApplyStep(p) \/ RecoverStep(p) \/ RecoverFails(p)

ServerStep(p) == StatementEnds(p) \/ CommitEnds(p) \/ BackendEnds(p)

Next ==
    \/ \E r \in Run : PlanRun(r)
    \/ \E p \in Session, r \in Run : BeginApply(p, r) \/ BeginRecover(p, r)
    \/ \E p \in Session : ProcessStep(p) \/ ServerStep(p) \/ LoseSession(p)
    \/ \E s \in Step : Drift(s)

Spec == Init /\ [][Next]_vars

\* A living process goes on, the server ends what it was sent and notices
\* the end of a client, and operators repeat `recover` on every run until
\* they get the lock.
FairSpec ==
    /\ Spec
    /\ \A p \in Session : WF_vars(ProcessStep(p)) /\ WF_vars(ServerStep(p))
    /\ \A r \in Run : SF_vars(\E p \in Session : BeginRecover(p, r))

-----------------------------------------------------------------------------
Position == {"idle", "loaded", "step", "locked", "intent", "running",
             "verify", "complete", "commit", "committing", "record",
             "recover"}

\* Every variable has its type, and a process without a session has let go
\* of everything it held.
TypeOK ==
    /\ object \in [Step -> ObjectState]
    /\ plan \in [Run -> SUBSET Step]
    /\ journal \in [Run -> SUBSET Event]
    /\ authorized \subseteq Run
    /\ verdict \in [Run -> Verdict]
    /\ runLock \in [Run -> Session \cup {None}]
    /\ objectLock \in [Step -> Session \cup {None}]
    /\ pc \in [Session -> Position]
    /\ run \in [Session -> Run \cup {None}]
    /\ exec \in [Session -> 0..MaxAttempt]
    /\ at \in [Session -> Step \cup {0}]
    /\ done \in [Session -> SUBSET Step]
    /\ warned \in [Session -> BOOLEAN]
    /\ pending \in [Session -> SUBSET Step]
    /\ logged \in [Session -> SUBSET Event]
    /\ conn \in [Session -> {"closed", "open", "orphan"}]
    /\ sent \in [Session -> {None, "statement", "commit", "ok", "failed"}]
    /\ attempts \in 0..MaxAttempt /\ faults \in 0..MaxFault
    /\ drifts \in 0..MaxDrift
    /\ landed \in [Run -> SUBSET Step]
    /\ settled \subseteq Run

TransactionalRun(r) == plan[r] \cap AutoCommit = {}

\* docs/plans/481-admission-obligations.md:123: "A run that has DURABLY begun
\* can never be applied again nor re-authorized": the events of a run, those
\* recovery adds included, belong to one execution.
OneExecutionPerRun ==
    \A r \in Run : \A e, f \in journal[r] : e.exec = f.exec

\* The journal and the catalogue agree.  Whatever has taken effect is
\* announced in the journal of its run, even when the process died while the
\* server was still at it: recovery never takes a run with an effect for a
\* pristine one.  And what the journal says of a transactional step happened.
JournalTellsTheTruth ==
    \A r \in Run :
        /\ \A s \in landed[r] :
              \E e \in journal[r] : e.step = s /\ e.kind = "intent"
        /\ \A e \in journal[r] : e.step \notin AutoCommit =>
              /\ e.kind = "completion" \/ e.outcome = "completed"
                     => e.step \in landed[r]
              /\ e.outcome \in {"not-applied", "unknown"}
                     => e.step \notin landed[r]

\* The same for every step, concurrent index builds included, as
\* resume.ts:644 reads it: "journal reports a rolled-back operation failure;
\* no work from that segment was completed".
NotAppliedIsTrue ==
    \A r \in Run : \A e \in journal[r] :
        e.outcome = "not-applied" => e.step \notin landed[r]

\* What the operator is told is true, whoever tells it, a process that applies
\* or one that recovers.  "Planned": no step of the run has landed, and no
\* COMMIT of it is under way.  "Partially applied" or "resume required": some,
\* but not the whole of it.  "Completed": all its transactional steps have
\* landed and the journal says so of every step (ADR 0005: "reporting
\* completion would assert what was not written").
VerdictIsTrue ==
    \A r \in Run :
        /\ verdict[r] = "planned" /\ TransactionalRun(r) =>
             /\ landed[r] = {}
             /\ \A p \in Session : run[p] = r => sent[p] # "commit"
        /\ TransactionalRun(r) =>
             /\ verdict[r] = "partially-applied" => landed[r] # {}
             /\ verdict[r] \in {"partially-applied", "resume-required"}
                    => landed[r] # plan[r]
        /\ verdict[r] = "completed" =>
             /\ plan[r] \ AutoCommit \subseteq landed[r]
             /\ \A s \in plan[r] : \E e \in journal[r] :
                   e.step = s /\ e.outcome = "completed"

\* An effect lands on the state its plan was proven from, although other
\* runs and other people change the catalogue up to the lock.
EffectsStartFromTheProvenState ==
    [][\A r \in Run : \A s \in landed'[r] \ landed[r] :
          object[s] = "before"]_vars

PhaseOf(r) ==
    IF plan[r] = {} THEN "unplanned"
    ELSE IF r \in settled THEN "closed"
    ELSE IF journal[r] = {} THEN "pristine" ELSE "begun"

PromiseOf(r) ==
    INSTANCE RunPromise WITH planned <- plan[r], landed <- landed[r],
                             phase <- PhaseOf(r)

\* Every run keeps the promise of RunPromise: among others, once recovery has
\* classified it nothing of it lands any more, because the statement or
\* COMMIT of a dead client keeps the run lock that recovery needs.
KeepsPromise ==
    /\ \A r \in Run : PromiseOf(r)!Init
    /\ [][\A r \in Run : [PromiseOf(r)!Next]_(PromiseOf(r)!runVars)]_vars

\* A run that has begun is classified sooner or later, wherever its process
\* died and whatever its backend was doing.
BegunIsClassified ==
    \A r \in Run : journal[r] # {} ~> r \in settled
=============================================================================
