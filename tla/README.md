# TLA+ models of db-semantic-planner

db-semantic-planner (dbsp) compiles intent queries to SQL and applies schema
changes to PostgreSQL under a *managed-state ledger*. The compilers are
functions. Processes, crashes and other users of the database meet in five
places: the ledger protocol around one statement, the durable runs of a plan,
the re-address of a table, the start-up of replicas that bring a schema to their
model, and the transaction scopes of a database client. They are what these
modules model. The documentation they are compared with is `docs/adr/0005`
(durable runs), `docs/adr/0006-managed-state-ledger.md`, called "the ADR" below,
`docs/adr/0007` and `0008` (converge and application steps), and the guide to
converge.

## Inventory

| component | state it keeps | operations | what is hard |
|---|---|---|---|
| ledger lifecycle (`core/src/transition/lifecycle-interpreter.ts`) | none: the events of an address fold into a stable state and at most one open claim | interpret an edge, project a chain, find its terminal | which event may follow which, for four kinds of claim |
| claim admission and recovery classifier (`core/src/transition/outcome-protocol.ts`) | claim tokens in memory | admit a claim, classify an open claim from a catalogue read | taking the absence of evidence for evidence of absence |
| ledger storage (`adapter-pgsql/src/transition/ledger.ts`) | event rows, reservation rows, advisory lock of each ledger home | append claim, progress, resolution (single and group), release, take locks | two tables changed in one statement; retries; locks that are tried, never waited for |
| outcome protocol (`adapter-pgsql/src/transition/outcome-protocol.ts`) | the transaction and session of one operation | open a claim (one or a closure), mark executing, send, resolve, refuse, recover | three transactions around a statement, each of which can be the last |
| generated execution (`generator-execution.ts`), adoption, release | none of their own | run a reviewed plan step by step through the outcome protocol | a removal that takes other managed addresses with it |
| run lock (`lessor.ts`) | session advisory lock of a run | run under the lock, give it back | the session outlives the client while the server works |
| reconciliation (`reconcile.ts`) | none | select the open claims of a run, recover them row by row | stopping between rows |
| re-address (`readdress.ts`) | paired claims over two addresses per member of a closure | open, rename, read back, resolve the pairs | chains that must agree, a closure that changes before it is locked, locks of several homes |
| durable plans (`core/src/transition/applier.ts`, `resume.ts`, `adapter-pgsql/.../journal.ts`) | plans, authorizations and the journal of step events | plan, apply, recover | an answer lost between the catalogue and the journal |
| converge and application steps (`converge.ts`, `application-step.ts`) | the ledger, for `once` steps | read, plan and apply a declared schema at start-up of every replica | state read at plan time, used at apply time; several commits, each of which can be the last |
| client scopes (`pgsql-adapter.ts`) | stack of scopes, statement lock, savepoints, poison marks | transaction, nested transaction, scratch scope, pinned connection, stream | callbacks that do not wait, clean-up after errors |
| planner, NQL compiler, SQL compilers, DDL rendering | none | pure translation | no concurrency; size |
| CLI, REPL, GUI, MCP server, documentation site | user interface state | commands | I/O |

The components meet in the database: executors, any number of reconcilers and
sessions that know nothing of dbsp share the catalogue, the event and
reservation tables, the ledger lock (held for a transaction) and the run lock
(held for a session). Durable runs keep a journal of their own beside the
ledger and share only the catalogue and the lock discipline with it. Client
scopes are below all of this, on one connection of the pool.

What makes each part correct, and what the project says of it:

- **lifecycle, projection**: rows project to a frame exactly when they are one
  chain of legal edges (`ProjectsExactlyTheChains`).
- **ledger storage**: the constraints alone keep a chain a chain
  (`ChainImplementsLedger`); a claim is open exactly while its reservation row
  exists (`ReservationMirrorsClaim`, `OpenClaimIsReserved`).
- **outcome protocol**: nobody takes a claim from a living executor
  (`ExecutorKeepsItsClaim`, `ExecutorKeepsItsGroup`); no chain breaks (theorem
  `ChainsStayLegal`); what is recorded is true (`RefusedMeansNoEffect`,
  `RefusedRootDroppedNothing`, `CreationRecordsItsOwnObject`, `AbsentWasGone`);
  all of it together is the ledger address of `LedgerAddress`
  (`ImplementsLedger`, `GroupImplementsLedger`).
- **run lock**: reconciliation of a run waits for its executor and for the
  statement that runs on its session (`EffectUnderOwnClaim`, theorem
  `LocksExclude`).
- **reconciliation**: a claim that stopped before its marker is closed in the end
  (`StoppedClaimsAreRecovered`, `ClaimedRootIsRecovered`), with a verifying
  read-back also one that stopped later.
- **durable plans**: two processes never execute one run at once
  (`OneExecutionPerRun`); no effect from a state the plan was not proven from
  (`EffectsStartFromTheProvenState`) and none without the record of an intent; what
  the journal and the operator are told is true (`JournalTellsTheTruth`,
  `VerdictIsTrue`); a run that was begun is classified in the end
  (`BegunIsClassified`). What is promised of a whole run is `RunPromise`, and the
  detailed model implements it (`KeepsPromise`): once recovery has classified a run,
  for instance, nothing of it lands any more.
- **re-address**: the caller is told the truth (`ToldIsTrue`); the two ends of a
  move close together or not at all, the target with the identity the source had
  (`MovesAreWhole`); the chains of a table are
  steps of `LedgerAddress` (`TablesKeepTheLedger`); every move ends
  (`EveryMoveEnds`), although the homes are locked one by one.
- **converge and application steps**: a `once` step is committed once
  (`OnceIsOnce`); an answer says what is in the database (`AnswerIsTrue`); no call
  works over an open claim of somebody else (`NeverOverAClaim`); a managed object
  that was dropped and recreated is not taken over (`NothingIsTakenOver`); the
  schema gets to the model, or meets what an operator has to decide
  (`SchemaConverges`).
- **client scopes**: a scope lands as a whole or not at all (`AllOrNothing`); a
  client goes back to the pool clean or is destroyed (`CleanReturn`); no statement
  runs in a scope that is not its own (`NothingOutsideItsScope`); every scope
  settles (`EveryScopeSettles`).

## Modules

| module | models |
|---|---|
| `LedgerLifecycle` | the grammar, the edge interpreter and the recovery classifier, as operators |
| `LedgerAddress` | the abstract specification: what the ledger promises of one address |
| `ChainProjection` | from rows to a frame: the projection of a chain and its unique terminal, as operators |
| `LedgerChain` | writers that append to the rows of one address, under the constraints of the table only |
| `OutcomeProtocol` | one operation per run: five kinds of operation, both locks, crashes, reconciliation, other sessions |
| `LedgerChainProofs` | what `ProjectChain` makes of any finite set of rows, and that the writers of `LedgerChain` implement `LedgerAddress` |
| `OutcomeProtocolProofs` | the inductive invariant of `OutcomeProtocol`, the theorems that follow from it and its refinement of `LedgerAddress` |
| `DestructiveGroup` | a removal that claims a closure of addresses at once, and its recovery row by row |
| `ConvergeProofs` | two inductive invariants of `Converge`: who holds the ledger lock and what is on its way to the server; what has landed of a call and what it may take over; and the theorems that follow |
| `DestructiveGroupProofs` | the inductive invariant of `DestructiveGroup`, its theorems and its refinement of `LedgerAddress` |
| `RunPromise` | the abstract specification: what a durable run promises of its steps |
| `DurableRun` | plan, apply and recover of durable runs over journal, catalogue and locks, with processes and sessions that die apart |
| `DurableRunProofs` | the inductive invariant of `DurableRun`, its theorems and its refinement of `RunPromise` |
| `DurableVerdictProofs` | on top of it, what a process of `DurableRun` counts as done, and that what the operator is told is true |
| `Readdress` | the move of a table with its closure between ledger homes, under everybody else's changes |
| `ReaddressProofs` | the inductive invariant of `Readdress`, its theorems and its refinement of `LedgerAddress` |
| `Converge` | the start-up of replicas: creation of the ledger, reading, planning and applying a declared schema, application steps |
| `ClientScopes` | transactions, savepoints, pinned connections and streams on one client |
| `ClientScopesProofs` | the inductive invariant of `ClientScopes` and its theorems |
| `MC...` | instances for TLC |

`LedgerLifecycle` is extended by all ledger modules. `LedgerChain` justifies what
`OutcomeProtocol`, `DestructiveGroup` and `Readdress` take for granted: that the
chain of an address may be replaced by the frame it projects to, and an append by
one edge. All of these are shown to implement `LedgerAddress`, with `frame` mapped
to the frame of one address.

### How state and actions correspond to the code

`OutcomeProtocol`:

| in the model | in the code |
|---|---|
| `frame[a]` | what `projectLedgerChain` returns for the events of `a` |
| `recorded[a]` | `catalogueIdentity` of the terminal event, which `admitOutcomeClaim` compares with the catalogue |
| `reservation[a]` | the row of the reservation table, primary-keyed on the address |
| `live[a]`, `minted` | the object in the catalogue and the next oid |
| `ledgerLock` | the transaction-level advisory lock of a ledger home, tried and never waited for |
| `runLock[r]` | the session-level advisory lock of a run (`withPgTransitionRunLock`) |
| `pc[r]`, `rpc[r]` | where the apply process and the reconcile process of a run are |
| `stmt[r]` | the DDL of the run as the server sees it, which outlives its client |
| `Begin`, `Precheck` | taking the run lock; `alreadyAppliedCreation`, `preflightPgDeclaredAdoption` |
| `LockLedger` / `LedgerBusy`, then `OpenClaim`, `Mark`, `Refuse`, `Record` | the transactions of `openPgOutcomeClaimOnSession`, `runPgNonTransactionalOutcomeOnSession`, `runPgDestructiveOutcome`, `refuseClaim`, `resolvePgDestructiveOutcome` |
| `Transact` | `runPgTransactionalOutcomeOnSession` and `executePgDeclaredAdoption`: everything in one transaction |
| `Send`, `StatementEnds`, `Receive` | the statement on the wire, on the server, and its acknowledgement with the read-back |
| `ApplyFails`, `ReconcileFails` | a crash, a lost connection or an exception at any place |
| `ReconcileStart` ... `ReconcileAppend` | `reconcilePgTransitionRun` and `recoverPgOutcomeClaimOnSession` |
| `Release` | `releasePgManagedAddress` |
| `ExternalCreate`, `ExternalDrop` | other users of the database |

`DestructiveGroup` has the same variables for every address of a closure and makes
each ledger-locked transaction one action; what `OutcomeProtocol` shows of the
ledger lock is not repeated there. `todo[r]` holds the reservation rows a
reconciliation has read and not yet recovered, `survivors[r]` what the read-back
after the DROP still found.

`LedgerChain` has the rows themselves, and for each writer the row it is about to
insert. `frame` is kept beside `rows` and is always their projection.

`DurableRun`. A session is one command-line process and the PostgreSQL session it
works on:

| in the model | in the code |
|---|---|
| `object[s]` | the catalogue object of step s, by what its fingerprint tells apart |
| `plan`, `authorized`, `journal` | the tables of the journal: plans, authorization records, step events |
| `runLock`, `objectLock` | the run's advisory lock; the relation or type lock of a statement, held until COMMIT |
| `pc`, `run`, `exec`, `at`, `done`, `warned` | the position of `applyPgTransitionRun` / `applyLoadedPlan` and what it holds in memory |
| `pending`, `logged` | what the open transaction has done to the catalogue and the journal |
| `conn`, `sent` | the backend: a client that dies leaves its last statement or COMMIT running |
| `PlanRun` | `recordPlan` |
| `BeginApply`, `Authorize` | the load and lock of the run, the check of earlier events, the authorization record |
| `LockStep` / `RefuseStep`, `Intend`, `Send`, `StatementEnds`, `Receive`, `Verify`, `Complete` | one step of a segment: guards under the object's lock, intent, statement, post-condition, completion |
| `Commit`, `CommitEnds`, `ReceiveCommit`, `RecordStep`, `Finish` | the end of a segment and of the run, with what the operator is told |
| `BeginRecover`, `RecoverStep` | `recoverTransitionRun`: from journal and catalogue to a verdict |
| `LoseSession`, `BackendEnds`, `Drift` | a dead process, the end of its backend, somebody else's DDL |

`verdict[r]` is what the operator was last told. `landed` and `settled` are
history. `RunPromise` is the abstract specification: a run is planned, begun,
lands steps of its plan in order, one at most once, and is then told to have
completed, to have stopped or to be unknown.

`Readdress`. A place is an address of a table; it stands with one member, an index,
for its closure:

| in the model | in the code |
|---|---|
| `frame`, `recorded`, `ended` | chain, identity and pair of the terminal event of an address |
| `live` | the catalogue |
| `homeLock`, `tableLock` | advisory locks of ledger homes, taken in one order and tried; relation locks, waited for |
| `seen`, `witness` | the closure read before any lock; the identities verified under the locks |
| `Start`, `VerifyNoOp` | the read of the closure; the check of a step that is already done |
| `LockHome`, `Verify`, `Append`, `StatementEnds`, `ReadBack`, `CommitEnds`, `Receive` | the one transaction of `executePgPersistedTableReaddress` |
| `Fail`, `LoseSession` | an error before COMMIT; a connection lost at any place |
| `CreateTable`, `DropTable`, `RenameMember` | everybody else, who waits for relation locks and knows no ledger |
| `Adopt`, `Claim`, `Settle`, `Release` | other dbsp processes on the same addresses |

The claims and terminals of a move are invisible before its COMMIT: `CommitEnds`
applies them all at once.

`Converge`. A call of `convergePgPhysical` by one replica; an item is a declared
table or sequence, and the number of its columns its shape:

| in the model | in the code |
|---|---|
| `live`, `minted` | the catalogue |
| `record` | the identity in the terminal event of a managed address; `Unknown` is the stable state of that name |
| `ledger` | the ledger homes whose tables exist |
| `lock` | the advisory lock of each home; a call holds that of its schema on its session from `LockLedger` to its end |
| `claim` | the reservation of another run, and whether that run still holds its run lock |
| `recorded`, `ran` | the `once` steps in the ledger; how often their work was committed |
| `pc`, `seen`, `plan`, `at` | the position of a call, the comparison it plans from, and its plan: one entry for each transaction |
| `conn`, `flight`, `reply` | the session; the COMMIT on its way; the answer to it |
| `Start`, `ReadCurrency`, `InitializeHome` | the first lines of `convergePgPhysical` and `processScope` for `dbsp_meta` and the schema |
| `LockLedger` / `LedgerBusy`, `Admit` | `acquirePgLedgerSessionLock`, `refuseForLiveReservations` |
| `Compare`, `Decide`, `PlanSteps`, `Own` | `compareConvergeMaskedSchema` and the refusals that follow it, `planPgApplicationSteps`, `assertOwnedChange` |
| `RunStep`, `InspectAdoptions`, `Adopt`, `Create`, `Extend` | the transactions of `runPgApplicationSteps` and `executeGeneratorPlan`, up to COMMIT |
| `CommitEnds`, `Receive` | the server's COMMIT, which takes effect or not, and its answer |
| `Fails`, `LoseSession` | a failed statement; a lost connection or a dead process |
| `Somebody...`, `Writer...`, `ClaimEnds` | other users of the database; another dbsp run and its reconciliation |

`ClientScopes`. `queue` is the statement lock and the driver's own queue in one;
`marks`, `aborted` and `link` are the server's side of the connection:

| in the model | in the code |
|---|---|
| `scope[s]`, `stack` | the `Scope` records and the stack of a client, the innermost last |
| `Open` | `transaction()`, `withScratchScope()`, `withPinnedConnection()` |
| `Unaccounted` | a stream on a pinned adapter: it opens a transaction the pinned scope does not count (`streamWithClientTransaction`) |
| `Issue`, `Raw` | a statement asked of an adapter; a COMMIT in raw SQL |
| `Fetch` | a FETCH of a stream that fails, or that is refused because its scope is poisoned, closing or covered; it comes from behind the callback, too |
| `Refuse` | a statement refused at the head of the lock; a refused FETCH makes its stream recover |
| `ServeRecover`, `ServeClose` | `streamFailureRecovery` and the CLOSE of a stream that has failed |
| `Return`, `Throw`, `Abort` | the end of a callback; an abort signal |
| `Serve...` | a statement at the head of the lock, its effect, and what its caller does next |
| `Regroup` | a scope whose children have all settled goes on to its end |
| `Lose` | the connection is lost |

What the models leave out of the data: names, digests, declarations, statement
text and refusal causes. An identity is a number; a payload is whether it was
there (`observed`). What they leave out of the control is named under "Not
modelled".

## Runs

Runs that must pass:

| run | question | bounds |
|---|---|---|
| `ledger_chain` | what the table's constraints give without a lock; which sets of rows are accepted when no constraint has checked them | 2 writers, 4 events, one fault: a whole life of a claim and its successor, overtaken and retried at every place. Unchecked tables: 4 identifiers, at most 3 rows, 5 events (one not in the grammar): enough for a fork, a gap, a second root, a self-loop and a cycle of two beside a chain of one |
| `outcome` | safety, refinement and recovery of single operations | 1 address, 2 runs, 5 kinds of operation, 3 identities, 2 faults; the reconciliation of one run verifies its index, that of the other does not |
| `group` | safety, refinement and recovery of a group | 2 runs, a root with one member, 2 identities, 4 faults |
| `durable_safety` | safety of durable runs and the refinement of `RunPromise` | 2 sessions, 2 runs (a plan of three steps in a segment of two and one of one, and a plan of one concurrent index build), 2 attempts, 2 faults of which at most 1 is somebody else's DDL; symmetric sessions |
| `durable_recovery` | is a run that was begun classified in the end | the same plans, 1 fault, nobody else's DDL |
| `readdress` | safety, refinement and termination of a move | 2 runs, 3 places in 2 homes, 4 objects, 3 events of others |
| `converge` | safety of start-up, and does the schema get to the model | 2 replicas (the older creates a ledger in an empty schema only, the newer declares a column more and adopts what exists), 2 tables, a sequence, a `once` step and an assert, 1 fault, 1 thing done by others; the safety properties have also been run with 2 and 2 |
| `client_scopes` | safety and termination of scopes on a client, of callbacks that wait for their streams | 3 scopes, of which the outermost is a transaction or a pinned connection, 2 statements, 1 fault, streams that fail in their query, one refused stream cleaning up at a time |

Two runs on one address are the smallest number in which a stopped run meets its
recovery and a later operation; a third fault adds nothing that two do not already
break, because a process that is dead does not die again. Three steps are the
smallest plan in which a step is in the middle of a segment, at its end and in a
later segment. Three places in two homes let two moves want each other's home.
Three scopes are the smallest number with a middle one. Symmetry is used for safety
only. Deadlock is not checked: all these systems may come to rest, when everything
has ended and no fault is left.

Runs that must fail. Each refutes a sentence of the documentation; `PROJECT.json`
quotes the line.

| run | what is said | what happens |
|---|---|---|
| `leaked_reservation` | a reservation is deleted in the transaction that resolves its claim | recovering a member looks for the reservation under the wrong root claim, and a retry check hides the failure |
| `denied_index` | a failure recorded as `operation-failed-not-applied` is a rolled-back one; `apply` prints "operation failed before application" | a concurrent index is built, its completion event cannot be written, and the failure handler takes it for one inside a transaction |
| `dead_member` | a member without a chain receives its first source-side pair event | the interpreter resolves that event from a managed source only: nobody can project the chain any more |
| `stream_left` | a callback's work commits together or not at all, "even if you forget to `await`" | the callback leaves a stream behind; while the scope drains its next FETCH is refused, and the stream's recovery rolls the transaction back ahead of the COMMIT: `transaction()` resolves with nothing committed |

### Fairness

Weak fairness of a process's next step and of the server: programs run on, and
PostgreSQL finishes statements. Reconciliation and recovery are started by people
or by a scheduler; that somebody keeps starting them is assumed as fairness of
`ReconcileStart`, `Select` and `BeginRecover`. The ledger lock is tried and not
waited for, so a reconciliation that always comes while somebody else holds it
never gets on; strong fairness of `ReconcileStart` and `BeginRecover` (at moments
when the lock is free) and of `ReconcileLock` says that it does not always come at
the wrong moment. `Readdress` assumes fairness of the steps of a move that was
started and of the server, nothing of its start. `Converge` assumes that a replica
whose call has ended starts again (an orchestrator restarts it), and, with strong
fairness of its start and of `LockLedger`, that it does not always find the ledger
locked by another replica; and that a claim somebody left is closed in the end. `ClientScopes` assumes that the
server answers, that a scope whose children have settled goes on, and that a
callback ends: it returns or throws. Nothing is assumed of crashes, lost
connections, busy locks, other users or the start of new work.

## Proofs

TLAPS checks, for any number of addresses, runs, identities and faults:

| theorem | property |
|---|---|
| `TypeCorrect` | `TypeOK` of `OutcomeProtocol` |
| `LocksExclude` | `LockInv`: who may hold the two locks |
| `InductiveInvariant` | `IInv` |
| `ReservationsMirrorClaims` | `ReservationMirrorsClaim` |
| `ChainsStayLegal` | `ChainNeverMalformed`, which `ImplementsLedger` implies and no run repeats |
| `ExecutorsKeepTheirClaims` | `ExecutorKeepsItsClaim` |
| `RefusedIsTrue` | `RefusedMeansNoEffect` |
| `EffectsUnderOwnClaim` | `EffectUnderOwnClaim` |
| `CreationsRecordTheirOwnObject` | `CreationRecordsItsOwnObject` |
| `LedgerImplemented` | `ImplementsLedger` |
| `ProjectionIsExact` | any finite set of rows with identifiers projects to a frame exactly when it is one chain of legal edges |
| `FoundProjectExactly` | `ProjectsExactlyTheChains`, for any number of rows |
| `RowsAreOneChain` | the rows of `LedgerChain` are one chain of legal edges |
| `LedgerImplementedByRows` | `ChainImplementsLedger`, for any number of writers and faults |
| `GroupInductiveInvariant` | `IInv` of `DestructiveGroup` |
| `GroupTypeCorrect` | its `TypeOK` |
| `OpenClaimsAreReserved` | `OpenClaimIsReserved` |
| `ExecutorsKeepTheirGroups` | `ExecutorKeepsItsGroup` |
| `RefusedRootsDroppedNothing` | `RefusedRootDroppedNothing` |
| `AbsentIsTrue` | `AbsentWasGone` |
| `GroupLedgerImplemented` | `GroupImplementsLedger`, for closures of any size |
| `ConvergeInductiveInvariant` | `IInv` of `Converge` |
| `NeverOverAClaimHolds` | `NeverOverAClaim`, for any replicas, tables, sequences and steps |
| `OncesAreOnce` | `OnceIsOnce` |
| `WorkInductiveInvariant` | `IInv` and `WInv` of `Converge` |
| `ConvergeTypes` | its `TypeOK` |
| `AnswersOfConvergeAreTrue` | `AnswerIsTrue` |
| `ConvergeTakesNothingOver` | `NothingIsTakenOver` |
| `DurableInductiveInvariant` | `IInv` of `DurableRun` |
| `RunsHaveOneExecution` | `OneExecutionPerRun` |
| `JournalsTellTheTruth` | `JournalTellsTheTruth` |
| `EffectsAreProven` | `EffectsStartFromTheProvenState` |
| `RunsKeepTheirPromise` | `KeepsPromise`, for any plans, processes and faults |
| `ToldInductiveInvariant` | `IInv` and `VInv` of `DurableRun` |
| `VerdictsAreTrue` | `VerdictIsTrue` |
| `DurableRunTypes` | its `TypeOK` |
| `ReaddressInductiveInvariant` | `IInv` of `Readdress` |
| `ReaddressTypes` | its `TypeOK` |
| `ReaddressesExcludeEachOther` | `AdmittedRunsAreApart`: two moves past their locks share no place |
| `AnswersOfMovesAreTrue` | `ToldIsTrue` |
| `MovesAreWholeAlways` | `MovesAreWhole` |
| `TablesImplementLedger` | `TablesKeepTheLedger`, for any places, homes and moves |
| `SpecTypeOK` | `TypeOK` of `ClientScopes`, for every kind of stream and callback |
| `StatementsStayInTheirScope` | `NothingOutsideItsScope`, in every behaviour with `[]RecoversPoisoned`: streams only roll back a scope that is poisoned |
| `ClientsComeBackClean` | `CleanReturn`, under the same condition, where callbacks wait for their scratch work and their streams |
| `TransactionsAreAllOrNothing` | `AllOrNothing`, under the first of these conditions only |
| `AwaitedStreamsRecoverPoisoned` | `[]RecoversPoisoned`, where callbacks wait for their streams and these fail in their query |

The only assumptions are those named in the modules: `ConstantsAssumption` and
`GroupAssumption` (the type of the constants, and that no run is called "none"), and
for `Converge` `ItemAssumption` and `ReplicaAssumption` (items and steps are numbered
and finitely many, versions and digests are positive, no replica is called "none"),
for `LedgerChain` `ChainAssumption` (no event is called "none"), for `DurableRun`
`SessionAssumption`, `StepAssumption`, `SegmentAssumption` and
`PlansAssumption` (no session is called "none", steps are numbers and a later step is
never in an earlier segment, and a step that commits by itself is a plan of its own),
for `Readdress` `PlaceAssumption` and `CatalogueAssumption` (what a place, a home and
a move are), for `ClientScopes` `ScopeAssumption` (how a client may be taken and how a
stream may fail), and in each module that the bounds are numbers. Three theorems about
`ClientScopes` suppose `[]RecoversPoisoned` of the behaviour: a stream only rolls back a
scope that is poisoned. They ask nothing else of the streams and the callbacks, except
that `ClientsComeBackClean` has `AwaitsScratch` and `AwaitsStreams` as well. The code
does not see to the condition by itself. It holds when callbacks wait for their streams
and these fail in their queries only (`AwaitedStreamsRecoverPoisoned`, which is what the
run `client_scopes` checks a small instance of); it fails, and `AllOrNothing` with it,
for a stream that is left behind (`stream_left`). Other values of the constants give
the other ways in which it fails, and show that without `AwaitsScratch` or
`AwaitsStreams` also `CleanReturn` does (see "Met while modelling").

None of the properties is inductive. `IInv` of `OutcomeProtocol` joins four parts,
in an order in which each uses those before it:

- `TypeOK`.
- `LockInv`: a living apply process has its run lock, as has a reconcile process,
  so one run never has both; a statement on the run-lock session keeps the lock
  after its client is dead; whoever is inside a ledger transaction holds the ledger
  lock. The other parts need it to exclude a reconciler while an executor or its
  statement is at work.
- `ChainInv`: no chain is malformed, the reservation of an address is its claim,
  and a claim named r stands on the target of r.
- `RunInv`: for every place of a run, what its claim, statement and effect look
  like: before the claim nothing has happened; during it the claim is open in the
  phase of the place; an open claim has no outcome, and in phase `claimed` no
  statement and no effect; a concurrent creation that took effect still has its
  object, because others are excluded. The last is what makes recovery's "no object,
  hence refused" true.

Appends are dealt with once: four lemmas (`ClaimWritten`, `ProgressWritten`,
`ResolutionWritten`, `WholeWritten`) say what an append does to a well-formed
ledger, and `RecoveryAppendsLegalEdge` that the classifier never answers with an
event the grammar forbids. Each action then has one step.

`CreationRecordsItsOwnObject` needs `MadeInv` beside it: while the claim of a
concurrent creation that took effect is open, what stands at its address is what it
made. Others are kept off by the exclusion its plan has accepted, which counts from
its claim on, and `OnlyItsOwnerOpensAClaim` shows that nobody else can open the claim
of a run later. What recovery answers "observed" for has succeeded
(`ObservedByRecovery`), so it does not matter who writes the outcome.

The refinement rests on `IInv` and one more invariant, `ColumnInv`: an open claim
remembers the stable state its frame still has, and that state is one its kind
opens from. `FrameStep` shows that a step of the protocol adds one event to the
chain of an address, or a claim together with the event that ends it, or nothing;
`LegalOpening` and `LegalFollowing` that a legal event is a step of
`LedgerAddress`.

`LedgerChainProofs` is about the rows an address really has. A `Chain` is an order of
all rows in which each one follows the one before it, and the frames `Along` it come
one from the other by the edge interpreter. Three facts about any finite set of rows
relate this to the walk of `projectLedgerChain`: along a chain the walk is at the
n-th row after n steps, with the frame that belongs there (`ProjectionOfChain`); rows
that project to a frame are a chain, because a walk under distinct identifiers can
only go on to a new row (`ChainOfProjection`); and a set of rows has one order at most
(`OneOrder`). `ChainInv` of the writers then says that there are an order s and
frames g, all of them sound, such that s is a chain of the rows and every draft was
made against one of these frames, not necessarily the last. Since a row without
successor is the end of the chain (`NextAlong`), the constraints let a draft in only
if it was made against the frame that still is the last (`AppendGrows`), so that its
edge is legal there. Numbers are counted up with `Upward`, a lemma about sets, since
a theorem with an operator as parameter could not be cited.

`DestructiveGroupProofs` follows the same plan over a closure. Its `IInv` joins
`TypeOK`, `ChainInv` (no chain is malformed, and who holds a claim on which
address), `OpenClaimIsReserved`, `LockInv`, `RunInv` (what the claims of a group
look like at every place of its run, the members' phases included) and `GoneInv`
(an address recorded as absent had lost the object its claim was opened on). The
reservation of a member is weaker than in `OutcomeProtocol`: a reservation may stay
behind (see `leaked_reservation`), so only one direction is invariant. `FrameStep`
again gives the refinement, address by address.

The first part of `ConvergeProofs` needs no types of the catalogue. Its `IInv` says
of every call:

- `LockInv`: from its admission on it has the ledger lock, and no claim is open once
  it compares; and both hold for whatever work it has sent to the server until the
  server is done with it, the process that sent it being alive or not. A claim opens
  only while the lock is free, so neither can be disturbed.
- `FlightInv`: what can be on its way to the server at each place of a call. A call
  ends with something on its way only when its session is orphaned, and an orphaned
  session keeps its lock until the server has nothing left to do.
- `OnceInv`: from its planning on no recorded digest differs from the call's own, and
  a `once` step on its way is not recorded. Another replica cannot record it in
  between, because its COMMIT too would need the lock.

`OnceIsOnce` is inductive together with these. That a transaction carries a single
step is a fact about plans: `PlanOfPlans`, `EachIsPlan` and `GeneratedPart` show it of
the parts a plan is put together from, whatever order `InOrder` gives them.

The second part goes on from there to what a call answers. `WInv` joins `TypeOK`
and, of every call:

- `PlaceInv`: where it can be in its plan, and what it may have sent from there.
- `LandedInv`: all transactions before the current one have landed and none after
  it; the current one has exactly if its COMMIT did, whether the call has read the
  answer, is about to, or has died meanwhile.
- `ToldInv`: what the answer says of that.
- `WorkedInv`: what it has created in its open transaction is of the current one.
- `AdoptInv`: what its plan is still to adopt is unknown to the ledger. It stays so,
  because nothing is recorded without the ledger lock (`FlightInv`), and because a
  call records no item twice (`WellFormed`: the entries of a plan are apart, and its
  adoptions precede its creations, which is how `convergePgPhysical` puts them together).

That `InOrder` exists, and so a plan has every item once, is induction over data. It
is proved from the well-foundedness of the numbers, on the set of counterexamples
(`LeastNumber`, `Bounded`, `Nth`, `InKeyOrder`), which needs no operator as the
parameter of a theorem.

`ReaddressProofs`. A move reads its closure before any lock, and its locks come one
by one; what makes the answers true is what it holds when it appends. `IInv` says of
every run `LockInv` (from its verification to the end of its COMMIT it has all homes,
and once it is admitted the lock of the source table, also when its client has died
and the server is left with the COMMIT) and `VerifiedInv` (while it has them, what it
has verified stays so: the members of the table, their identities in the ledger, no
open claim on either side). `FrameInv` names the frames an address can have; only a
member can lose its chain (see `dead_member`), which is why the refinement speaks of
tables. A COMMIT then turns the chains of all members by one pair of events each
(`PairEdges`), and `EndedInv` ties the pair events to moves that were committed.

`IInv` of `DurableRun` says of every run what its journal says (`RunInv`: one
execution, effects announced, transactional steps reported as they are), and of every
process, or the session it left behind:

- `HoldInv`: as long as the session is not closed it has the lock of its run, and all
  that is written of the run, committed or not, is of its execution. So nothing else
  can write of the run, take it or settle it.
- `SentInv`: a statement or COMMIT on its way is that of the current step, and a
  COMMIT covers the whole segment.
- `WorkInv`: as long as a run is worked on, by a process or by a backend alone,
  recovery has not settled it, its journal reports no stop, the segments before the
  current one have landed and nothing of the current one has unless it commits by
  itself or its COMMIT has ended.
- `PendInv`: what is in the open transaction is of the current segment, its object is
  locked and still as the plan was proven from, and its intent is in the transaction.
- `InSegment` and `InStep`: how far the process is; among others that the lock is
  taken before the comparison and the intent written before the statement, which is
  what `PendInv` needs when the statement ends after its process has died.

A step of one session disturbs neither the others nor their runs (`OneSession`,
`Untouched`), so each action has one lemma about its own session. `StepOfRun` shows
that a step plans a run, lands its next segment whole, or leaves its effects alone
(`Continues`); the action property and the refinement follow from it, the latter with
`WrittenIsPlanned` (nothing is written of a run before it is planned).

`DurableVerdictProofs` adds `VInv`, about what a process tells: `DoneInv` (what it
counts as done are the segments before its own, or, in recovery, what the journal
says of the steps read so far), `CompletionInv` (the completions of its segment are in
its transaction), `HolderInv` (while a process works on a run nothing has been told of
it, and while a COMMIT it left behind is under way nothing definite), `LandedInv`
(what has landed is closed under earlier segments, and the journal has its
completions) and `ToldInv`: what was told is so. Every step that tells something has
a lemma that its words are `Truthful`; every other one leaves true what was told
before, which is where the lock that a dead process keeps through its backend is
needed.

`ClientScopesProofs` has an invariant in layers, because the first ones hold whatever
streams do. `CoreInv` joins:

- `TypeOK` and `ShapeInv`: the stack is one line of scopes from the root, each opened
  by the one before it; what lives is on it; a transaction on it has nothing but the
  pinned root around it; and what is so of a scope at each of its places, among others
  that one that ends normally has no open child.
- `JobInv`: a scope has one statement of its own on the queue at most, the one of its
  place, and what callbacks have asked of it or of a scope within it comes before
  that. This is what the shared lock is for.
- `MarkInv`: the levels on the server are of scopes there have been, in the order they
  were opened, the first one of the transaction on the stack; and there are none once
  that transaction is rolled back or waits for its children.

`LevelInv` adds that a scope that has opened has its level on the server, unless it is
spoiled: it or one around it is poisoned, or is closing with nothing left to run. A
statement that runs is admitted, so nothing around it is poisoned, and pending, so
its scope has its level. A stream that rolls back a scope nobody has poisoned takes the
level and leaves the scope in use, hence the hypothesis `RecoversPoisoned`. `StreamInv`
joins it with what makes it inductive where streams are waited for: poison is on all
that lives within a poisoned scope (`OpensCalm`: nothing is opened on a poisoned stack),
and a FETCH on its way is of the innermost scope. So a FETCH that is refused past the
lock was refused for a poison, of its scope or of one around it, which is on its scope
too (`RecoversStep`). What the callbacks may still ask for is in `MayJoin`: `Strays` is
the one case in which a recovery joins the queue with nothing poisoned.

`QuietInv` says that nothing is left to run of a scope that has been rolled back or
waits for its children, nor of those within it; `HomeInv` that a pinned connection
whose callback is done has no scratch work left. So the root is the last one to leave
(`LastOne`), and nothing a callback asked for is on the queue then (`ReturnsClean`).
Each action has a lemma that it keeps `CoreInv` (`Preserved`), what it does to the
levels, and what it does to queue and client (`Moves`); four lemmas, one for each of
`Wait`, `Proceed`, `Fail` and `Leave`, serve all of them.

`AllOrNothing` speaks of the scopes around the one a statement was issued in, which
`Line` collects by recursion. That `Line` exists at all, and is what its equation says,
is `LinesExist` and `LineIs`: a scope is within an earlier one, so there is no least
scope without its line (`FromTheRoot`, the well-founded order of the naturals in place
of an induction theorem). The scopes that live are in one line (`OpenInLine`), what is
around a live one lives (`OpenWithinOpen`), and a statement is within one transaction
at most (`OneTransactionAround`). On these rests `HoldInv`:

- `FamilyInv` and `ToldInv`: transactions are opened on the client or a pinned
  connection; a caller has its answer when its scope has ended, or its client is lost.
- `RanInv` and `SpentInv`: what has run belongs to scopes that have begun, and nothing
  is left to run within a savepoint that is being forgotten.
- `WorkInv`: what a level of the server holds was issued within every scope that is
  open up to that level and within no open scope above it; those of its scopes that
  have ended have resolved, and none of those that live has been rolled back.
- `FateInv`: what has run and is no longer held was issued within a scope that is over:
  rolled back, or failing, or a transaction that has ended.
- `PromiseInv`: `AllOrNothing`, statement by statement (`PromiseKept`).

A COMMIT makes durable all that the levels hold, which by `WorkInv` is work of that
transaction whose nested scopes have all resolved; and by `FateInv` what the levels do
not hold is of a scope that gave it up. `WorkInv` needs one thing more when a statement
runs: the levels of all scopes around it, not only that of its own. `NestInv` says that
a level has beneath it those of the scopes around it. A SAVEPOINT is sent outside of
the lock, so this depends on what was on the queue when it was: `EntryInv` says that a
SAVEPOINT on its way has only SAVEPOINTs and CLOSEs before it, none of which takes a
level away, and nests already. Here the proof uses the test for waiting statements in
`enterSavepointScope`.

What a step may do to the scopes (`Turns`, `Spends`, `Resolves`) and to what the server
holds (`Sinks`, `LetsGo`, `Drops`, `Commits`) is stated apart from the actions, and each
part of `HoldInv` follows from those (`FamilyNext` to `PromiseNext`); each action then
has a lemma that its step is of that kind.

Only model-checked: liveness, that is `StoppedClaimsAreRecovered`,
`ClaimedRootIsRecovered`, `BegunIsClassified`, `EveryMoveEnds`, `SchemaConverges` and
`EveryScopeSettles` (fairness and ENABLED are out of the prover's reach).

## Divergences without a run of their own

Met while modelling, by reading or in a run that has since been merged:

- A refusal by recovery records the identity it read, so the next removal is
  admitted against an object somebody else made (`recoveryResolutionMember`,
  against ADR 0006:239-241).
- Recovery of a removal whose marker is written and whose object is present answers
  "pending" for ever (against ADR 0006:142-144).
- Admission compares identities on managed addresses only, so a modification may
  touch an object that is neither created nor adopted (ADR 0006:26-27, 123).
- Members of a group are never marked executing, and recovery refuses them after the
  DROP has taken them (ADR 0006:141); once the root is resolved nothing selects the
  members any more (ADR 0006:167).
- Recovery of a re-address pair is written for pairs left half resolved; the one
  transaction of `executePgPersistedTableReaddress` never leaves one.
- The retry read of a group resolution happens in the transaction that the failed
  insert has aborted (against ADR 0006:168, 197-199).
- ADR 0005 calls concurrent index builds plannable but not applicable; they are
  applied. ADR 0006:125 names a source state of removals the interpreter has not.
- An error of a scratch scope inside a pinned connection is observed but not
  awaited: with SQLSTATE 25P01 the client goes back to the pool before the scope has
  settled. With `AwaitsScratch` FALSE, `CleanReturn` fails.
- A stream on a pinned connection opens its transaction without an observer
  (`streamWithClientTransaction` enters its scope with no `childObserver`), so the
  pinned scope neither counts nor waits for it. When the callback returns while it is
  open, the client goes back to the pool with the transaction and its scope on it. With
  `AwaitsStreams` FALSE and a pinned root, `CleanReturn` fails.
- The recovery of a stream poisons nothing. Besides what `stream_left` shows: with
  `MaxScope` 2 and `AwaitsStreams` FALSE, a FETCH refused because a nested transaction
  covers its scope rolls the outer transaction back under the nested one, which goes on
  in autocommit (`NothingOutsideItsScope` fails); with `Streams` {"rows"}, a stream
  whose rows cannot be mapped does so under its callback, streams waited for or not
  (`AllOrNothing` fails). `EveryScopeSettles` holds of all of them: three scopes,
  `AwaitsScratch` and `AwaitsStreams` FALSE, queries and rows that fail, one fault.
- The refused FETCH of a stream that is left behind may be on the queue when its
  transaction returns the client; it is refused there, as its scope is gone.
- A stream that fails inside a savepoint loses its cursor with ROLLBACK TO; its CLOSE
  then fails and aborts the outer transaction.

- Converge adopts under no lock of the table: between the last comparison of its
  shape and the COMMIT another session may alter it, and it is adopted all the same.
  The guide says "a table that changes while its adoption runs is refused".
- Converge checks that the table of a new column is managed while it plans, and the
  ALTER takes it by name: one that was replaced in between is altered (ADR 0007
  "Columns added to managed tables").
- A failed adoption ends in `execution-refused`, also when earlier adoptions of the
  call have been committed, where ADR 0007:94 and the guide say `partially-applied`.
  `AnswerIsTrue` therefore asks nothing of `execution-refused` but that what precedes
  it has landed.

## Not modelled

- Planning, compilation, user interfaces: functions and I/O.
- Validation of ledger tables, statement bundles and plans; creation of storage.
- The loss of the run-lock session by a process that lives on. A process frees the
  lock here only when it ends.
- Operations whose post-condition is only visible after COMMIT: the grammar of
  operations has them, no PostgreSQL operation is one.

Simplifications within what is modelled:

- `ReadBack` of a group reads all addresses at one moment; the code reads them one
  after the other. The rows a reconciliation selects and the claims of the group are
  read at one moment too.
- `DurableRun`: a step that commits by itself is always a segment of its own, which
  is how the composer writes plans.
- `Converge`: which of several refusals applies is not told apart. The relations that
  exist and the comparison are read at one moment. What a single declaration asks
  for with `adopt` is left to the option of the call. A replica whose orphaned session
  still lives does not start again. A call that finds its creation or adoption already
  done cannot happen under the lock and is left out. The claim of another run has no
  effect on the items. Only tables and sequences have records, not columns.
- `ClientScopes`: the statement lock and the driver's queue are one queue; the effect
  of a statement and what its caller does next are one step. A stray savepoint
  recovery or CLOSE may be on the queue after a client was returned: it is harmless,
  because it goes through the statement lock. In some error paths the code destroys a
  client the model returns. A FETCH that succeeds leaves no state, so a stream may have
  its next FETCH fail or be refused at any moment its scope has been called in, with
  `AwaitsStreams` only while the callback is there and the scope is not covered. A
  first statement of a stream that is refused at issue changes nothing and is left out.
  Advisory locks held by a session, timeouts, the probe for PREPARE and clients
  borrowed from the application are left out. A scratch scope as the outermost is in
  the model and the theorems, and in no run.

## Plan

What comes next, the most useful first:

1. The loss of the run-lock session by a process that lives on, and converge's check
   mode beside its apply mode.
