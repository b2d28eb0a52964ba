------------------------ MODULE DurableVerdictProofs ------------------------
(***************************************************************************)
(* Proofs about what DurableRun tells the operator: that it is true,       *)
(* whoever tells it, and that every variable has its type.  The inductive  *)
(* invariant of DurableRunProofs says what a session has locked and sent;  *)
(* the one of this module says what its process has counted as done and    *)
(* what therefore may be said of the run.                                  *)
(***************************************************************************)
EXTENDS DurableRunProofs

(* The steps of the plan in the segments before the current one.           *)
Lower(p) == {s \in plan[run[p]] : SegmentOf[s] < SegmentOf[at[p]]}

CompletedIn(E, s) == \E e \in E : e.step = s /\ e.outcome = "completed"
CompletionIn(E, s) == \E e \in E : e.step = s /\ e.kind = "completion"

(* What a process counts as done.                                          *)
DoneInv(p) ==
    /\ pc[p] = "idle" => done[p] = {} /\ warned[p] = FALSE
    /\ pc[p] \in {"loaded", "commit", "committing"} \cup Busy =>
          done[p] = Lower(p)
    /\ pc[p] = "record" => /\ Lower(p) \subseteq done[p]
                           /\ done[p] \subseteq Lower(p) \cup SegmentSteps(p)
    /\ pc[p] = "recover" => done[p] = {s \in plan[run[p]] : s < at[p]}
    /\ pc[p] # "idle" /\ (pc[p] = "recover" \/ ~warned[p]) =>
          \A s \in done[p] : CompletedIn(journal[run[p]], s)

(* The completions of its segment are in its transaction.                  *)
CompletionInv(p) ==
    /\ pc[p] \in Busy =>
          \A s \in pending[p] \ {at[p]} : CompletionIn(logged[p], s)
    /\ pc[p] = "commit" \/ sent[p] = "commit" =>
          \A s \in pending[p] : CompletionIn(logged[p], s)

(* While a process works on a run the operator has been told nothing, and  *)
(* nothing definite while a COMMIT it has left behind is under way.        *)
HolderInv(p) ==
    /\ conn[p] = "open" => verdict[run[p]] = None
    /\ conn[p] # "closed" =>
          /\ verdict[run[p]] # "completed"
          /\ sent[p] = "commit" =>
                verdict[run[p]] \in {None, "outcome-unknown"}

ClientInv(p) == DoneInv(p) /\ CompletionInv(p) /\ HolderInv(p)

(* What has landed of a run and what its journal says of it.               *)
LandedInv(r) ==
    /\ landed[r] \subseteq plan[r]
    /\ \A s \in landed[r], t \in plan[r] :
          SegmentOf[t] <= SegmentOf[s] => t \in landed[r]
    /\ \A e \in journal[r] :
          /\ e.outcome = "partially-applied" => e.step \in AutoCommit
          /\ e.outcome = None /\ e.step \notin AutoCommit =>
                CompletionIn(journal[r], e.step)

(* What may be said of a run when its journal is E.                        *)
Truthful(r, told, E) ==
    /\ TransactionalRun(r) =>
          /\ told = "planned" => landed[r] = {}
          /\ told = "partially-applied" => landed[r] # {}
          /\ told \in {"partially-applied", "resume-required"} =>
                landed[r] # plan[r]
    /\ told = "completed" =>
          /\ plan[r] \ AutoCommit \subseteq landed[r]
          /\ \A s \in plan[r] : CompletedIn(E, s)

(* What the operator was told of a run is so, whoever still works on it.   *)
ToldInv(r) ==
    /\ verdict[r] # None => plan[r] # {}
    /\ Truthful(r, verdict[r], journal[r])

ToldDomains ==
    DOMAIN verdict = Run /\ DOMAIN done = Session /\ DOMAIN warned = Session

VInv ==
    /\ ToldDomains
    /\ \A p \in Session : ClientInv(p)
    /\ \A r \in Run : LandedInv(r) /\ ToldInv(r)

-----------------------------------------------------------------------------
(* What the steps of one session leave alone.                              *)

SameProcess(q) ==
    Same(q) /\ done'[q] = done[q] /\ warned'[q] = warned[q]

SameRun(r) ==
    /\ plan'[r] = plan[r] /\ journal'[r] = journal[r]
    /\ landed'[r] = landed[r] /\ verdict'[r] = verdict[r]

Aside(p) ==
    /\ \A q \in Session \ {p} : SameProcess(q)
    /\ plan' = plan
    /\ \A r \in Run \ {run[p]} : SameRun(r)

LEMMA InitiallyTold == Init => VInv
<1> SUFFICES ASSUME Init PROVE VInv
  OBVIOUS
<1>1. ToldDomains
  BY DEF Init, ToldDomains
<1>2. ASSUME NEW p \in Session PROVE ClientInv(p)
  BY DEF Init, ClientInv, DoneInv, CompletionInv, HolderInv, Busy, None
<1>3. ASSUME NEW r \in Run PROVE LandedInv(r) /\ ToldInv(r)
  BY DEF Init, LandedInv, ToldInv, Truthful, None
<1> QED
  BY <1>1, <1>2, <1>3 DEF VInv

LEMMA SameClient ==
    ASSUME NEW q \in Session, ProcessInv(q), ClientInv(q), SameProcess(q),
           conn[q] # "closed" => SameRun(run[q])
    PROVE  ClientInv(q)'
<1>1. CASE conn[q] = "closed"
  <2>1. pc[q] = "idle" /\ sent[q] = None /\ pending[q] = {}
    BY <1>1 DEF ProcessInv, HoldInv
  <2> QED
    BY <1>1, <2>1 DEF ClientInv, DoneInv, CompletionInv, HolderInv, Busy,
        SameProcess, Same, None
<1>2. CASE conn[q] # "closed"
  <2>1. Lower(q)' = Lower(q) /\ SegmentSteps(q)' = SegmentSteps(q)
    BY <1>2 DEF Lower, SegmentSteps, SameProcess, Same, SameRun
  <2>2. DoneInv(q)'
    BY <1>2, <2>1 DEF ClientInv, DoneInv, CompletedIn, SameProcess, Same,
        SameRun
  <2>3. CompletionInv(q)'
    BY DEF ClientInv, CompletionInv, SameProcess, Same
  <2>4. HolderInv(q)'
    BY <1>2 DEF ClientInv, HolderInv, SameProcess, Same, SameRun
  <2> QED
    BY <2>2, <2>3, <2>4 DEF ClientInv
<1> QED
  BY <1>1, <1>2

LEMMA SameTold ==
    ASSUME NEW r \in Run, LandedInv(r), ToldInv(r), SameRun(r)
    PROVE  LandedInv(r)' /\ ToldInv(r)'
<1>1. LandedInv(r)'
  BY DEF LandedInv, CompletionIn, SameRun
<1>2. ToldInv(r)'
  BY DEF ToldInv, Truthful, TransactionalRun, CompletedIn, SameRun
<1> QED
  BY <1>1, <1>2

LEMMA OneClient ==
    ASSUME IInv, VInv, NEW p \in Session, conn[p] # "closed", Aside(p),
           ToldDomains', ClientInv(p)',
           \A r \in Run : r = run[p] => LandedInv(r)' /\ ToldInv(r)'
    PROVE  VInv'
<1>1. /\ run[p] \in Run /\ runLock[run[p]] = p
      /\ \A q \in Session : ProcessInv(q) /\ ClientInv(q)
  BY DEF IInv, ProcessInv, HoldInv, VInv
<1>2. ASSUME NEW q \in Session, q # p PROVE ClientInv(q)'
  <2>1. conn[q] # "closed" => run[q] \in Run \ {run[p]}
    BY <1>1, <1>2 DEF ProcessInv, HoldInv
  <2>2. SameProcess(q) /\ (conn[q] # "closed" => SameRun(run[q]))
    BY <1>2, <2>1 DEF Aside
  <2> QED
    BY <1>1, <2>2, SameClient
<1>3. ASSUME NEW r \in Run, r # run[p] PROVE LandedInv(r)' /\ ToldInv(r)'
  <2>1. LandedInv(r) /\ ToldInv(r) /\ SameRun(r)
    BY <1>3 DEF VInv, Aside
  <2> QED
    BY <2>1, SameTold
<1> QED
  BY <1>2, <1>3 DEF VInv

(* A process or a session ends and says what is so.                        *)
LEMMA LeavingTold ==
    ASSUME IInv, VInv, NEW p \in Session, conn[p] # "closed", NEW told,
           NEW E, Leave(p, told), Adds(p, E), landed' = landed, plan' = plan,
           \A e \in E :
              /\ e.outcome # None
              /\ e.outcome = "partially-applied" => e.step \in AutoCommit,
           Truthful(run[p], told, journal[run[p]] \cup E)
    PROVE  VInv'
<1>1. /\ DomainInv /\ run[p] \in Run /\ at[p] \in plan[run[p]]
      /\ ToldDomains /\ LandedInv(run[p])
  BY DEF IInv, ProcessInv, HoldInv, VInv
<1>2. /\ pc'[p] = "idle" /\ conn'[p] = "closed" /\ sent'[p] = None
      /\ done'[p] = {} /\ warned'[p] = FALSE /\ verdict'[run[p]] = told
      /\ ToldDomains'
  BY <1>1 DEF Leave, DomainInv, ToldDomains
<1>3. Aside(p)
  <2>1. \A q \in Session \ {p} : SameProcess(q)
    BY <1>1 DEF Leave, DomainInv, ToldDomains, Same, SameProcess
  <2>2. \A r \in Run \ {run[p]} : SameRun(r)
    BY <1>1 DEF Leave, Adds, ToldDomains, SameRun
  <2> QED
    BY <2>1, <2>2 DEF Aside
<1>4. ClientInv(p)'
  BY <1>2 DEF ClientInv, DoneInv, CompletionInv, HolderInv, Busy, None
<1>5. LandedInv(run[p]) /\ journal'[run[p]] = journal[run[p]] \cup E
  BY <1>1 DEF Adds
<1>6. \A r \in Run : r = run[p] => LandedInv(r)'
  BY <1>5 DEF LandedInv, CompletionIn
<1>7. \A r \in Run : r = run[p] => ToldInv(r)'
  BY <1>1, <1>2, <1>5 DEF ToldInv, Truthful, TransactionalRun, CompletedIn
<1> QED
  BY <1>2, <1>3, <1>4, <1>6, <1>7, OneClient

LEMMA LeavingQuietlyTold ==
    ASSUME IInv, VInv, NEW p \in Session, conn[p] # "closed", NEW told,
           Leave(p, told), UNCHANGED <<plan, journal, landed>>,
           Truthful(run[p], told, journal[run[p]])
    PROVE  VInv'
<1>1. Adds(p, {})
  BY DEF Adds, IInv, DomainInv
<1>2. Truthful(run[p], told, journal[run[p]] \cup {})
  BY DEF Truthful, CompletedIn
<1> QED
  BY <1>1, <1>2, LeavingTold

-----------------------------------------------------------------------------
(* A process that stops before its COMMIT: what it has done is what has    *)
(* landed, and its current step has not.                                   *)
LEMMA UncommittedLanded ==
    ASSUME IInv, VInv, NEW p \in Session, pc[p] \in Busy \cup {"loaded"},
           TransactionalRun(run[p])
    PROVE  /\ landed[run[p]] = done[p] /\ at[p] \notin landed[run[p]]
           /\ at[p] \in plan[run[p]] /\ Transactional(p)
<1>1. pc[p] # "idle" /\ pc[p] # "recover" /\ pc[p] # "commit"
  BY DEF Busy
<1>2. /\ ProcessInv(p) /\ run[p] \in Run /\ plan[run[p]] \subseteq Step
      /\ at[p] \in plan[run[p]]
  BY <1>1, Before
<1>3. Transactional(p)
  BY <1>2 DEF Transactional, TransactionalRun
<1>4. Working(p) /\ Unlanded(p)
  BY <1>1, <1>3 DEF Working, Unlanded, Busy
<1>5. /\ landed[run[p]] \subseteq plan[run[p]]
      /\ done[p] = Lower(p)
  BY <1>2 DEF VInv, LandedInv, ClientInv, DoneInv
<1>6. landed[run[p]] = Lower(p)
  <2>1. Lower(p) \subseteq landed[run[p]]
    BY <1>2, <1>4 DEF ProcessInv, WorkInv, Lower
  <2>2. ASSUME NEW s \in landed[run[p]] PROVE s \in Lower(p)
    <3>1. /\ SegmentOf[s] <= SegmentOf[at[p]]
          /\ SegmentOf[s] # SegmentOf[at[p]]
      BY <1>2, <1>4 DEF ProcessInv, WorkInv
    <3>2. SegmentOf[s] \in Nat /\ SegmentOf[at[p]] \in Nat
      BY <1>2, <1>5, Numbers
    <3> QED
      BY <1>5, <3>1, <3>2 DEF Lower
  <2> QED
    BY <2>1, <2>2
<1>7. at[p] \notin Lower(p)
  BY <1>2, Numbers DEF Lower
<1> QED
  BY <1>2, <1>3, <1>5, <1>6, <1>7

LEMMA StoppedIsTrue ==
    ASSUME IInv, VInv, NEW p \in Session, pc[p] \in Busy, NEW E
    PROVE  Truthful(run[p], Stopped(p), E)
<1>1. TransactionalRun(run[p]) =>
         /\ landed[run[p]] = done[p] /\ at[p] \notin landed[run[p]]
         /\ at[p] \in plan[run[p]]
  BY UncommittedLanded
<1>2. Stopped(p) = IF done[p] = {} THEN "planned" ELSE "partially-applied"
  BY DEF Stopped
<1> QED
  BY <1>1, <1>2 DEF Truthful

LEMMA LoadedIsTrue ==
    ASSUME IInv, VInv, NEW p \in Session, pc[p] = "loaded", NEW E
    PROVE  Truthful(run[p], "planned", E)
<1>1. /\ ProcessInv(p) /\ run[p] \in Run /\ plan[run[p]] \subseteq Step
      /\ at[p] \in plan[run[p]]
  BY Before
<1>2. TransactionalRun(run[p]) => landed[run[p]] = done[p]
  BY UncommittedLanded
<1>3. done[p] = Lower(p)
  BY DEF VInv, ClientInv, DoneInv
<1>4. \A s \in plan[run[p]] : at[p] <= s
  BY <1>1 DEF ProcessInv, InSegment, IsFirst
<1>5. Lower(p) = {}
  BY <1>1, <1>4, Numbers DEF Lower
<1> QED
  BY <1>2, <1>3, <1>5 DEF Truthful

LEMMA UncertainIsTrue ==
    ASSUME NEW r, NEW E
    PROVE  Truthful(r, None, E) /\ Truthful(r, "outcome-unknown", E)
BY DEF Truthful, None

(* Of a concurrent build nothing is promised to be atomic.                 *)
LEMMA BuildIsTrue ==
    ASSUME IInv, NEW p \in Session, pc[p] # "idle", ~Transactional(p),
           NEW told, told # "completed", NEW E
    PROVE  Truthful(run[p], told, E)
<1>1. at[p] \in plan[run[p]]
  BY Before
<1> QED
  BY <1>1 DEF Truthful, Transactional, TransactionalRun

LEMMA StoppingTold ==
    ASSUME IInv, VInv, NEW p \in Session, pc[p] \in Busy,
           NEW outcome, outcome # None,
           outcome = "partially-applied" => ~Transactional(p),
           NEW told, \A E : Truthful(run[p], told, E),
           \/ StopWith(p, outcome, told)
           \/ /\ \/ WriteJournal(p, {EventOf(p, "observed", outcome)})
                 \/ UNCHANGED journal
              /\ Leave(p, told),
           UNCHANGED <<plan, landed>>
    PROVE  VInv'
<1>1. DomainInv /\ conn[p] # "closed" /\ run[p] \in Run
  BY DEF IInv, ProcessInv, HoldInv, Busy
<1>2. Leave(p, told)
  BY DEF StopWith
<1>3. CASE UNCHANGED journal
  BY <1>1, <1>2, <1>3, LeavingQuietlyTold
<1>4. CASE WriteJournal(p, {EventOf(p, "observed", outcome)})
  <2> DEFINE E == {EventOf(p, "observed", outcome)}
  <2>1. Adds(p, E)
    BY <1>1, <1>4 DEF WriteJournal, Adds, DomainInv
  <2>2. \A e \in E :
           /\ e.outcome # None
           /\ e.outcome = "partially-applied" => e.step \in AutoCommit
    BY DEF EventOf, Transactional
  <2>3. Truthful(run[p], told, journal[run[p]] \cup E)
    OBVIOUS
  <2> HIDE DEF E
  <2> QED
    BY <1>1, <1>2, <2>1, <2>2, <2>3, LeavingTold
<1> QED
  BY <1>3, <1>4 DEF StopWith

LEMMA FailingTold ==
    ASSUME IInv, VInv, NEW p \in Session,
           \/ Unreadable(p) \/ GuardFails(p) \/ ClaimRefused(p)
           \/ VerifyFails(p) \/ CompleteFails(p)
    PROVE  VInv'
<1>1. /\ pc[p] \in Busy /\ pc[p] # "idle" /\ UNCHANGED <<plan, landed>>
  BY DEF Unreadable, GuardFails, ClaimRefused, VerifyFails, CompleteFails,
         Busy, historyVars
<1>2. \A E : /\ Truthful(run[p], Stopped(p), E)
             /\ Truthful(run[p], "outcome-unknown", E)
             /\ ~Transactional(p) => Truthful(run[p], "partially-applied", E)
  BY <1>1, StoppedIsTrue, UncertainIsTrue, BuildIsTrue
<1>3. CASE Unreadable(p)
  BY <1>1, <1>2, <1>3, StoppingTold DEF Unreadable, None
<1>4. CASE GuardFails(p)
  BY <1>1, <1>2, <1>4, StoppingTold DEF GuardFails, None
<1>5. CASE ClaimRefused(p)
  BY <1>1, <1>2, <1>5, StoppingTold DEF ClaimRefused, None
<1>6. CASE VerifyFails(p)
  BY <1>1, <1>2, <1>6, StoppingTold DEF VerifyFails, None
<1>7. CASE CompleteFails(p)
  BY <1>1, <1>2, <1>7, StoppingTold DEF CompleteFails, None
<1> QED
  BY <1>3, <1>4, <1>5, <1>6, <1>7

LEMMA RefusingTold ==
    ASSUME IInv, VInv, NEW p \in Session,
           Refuse(p) \/ RefuseStep(p) \/ RecoverFails(p) \/ BackendEnds(p)
    PROVE  VInv'
<1>1. conn[p] # "closed" /\ UNCHANGED <<plan, journal, landed>>
  BY DEF IInv, ProcessInv, HoldInv, Refuse, RefuseStep, RecoverFails,
         BackendEnds, recordVars, historyVars
<1>2. CASE Refuse(p)
  BY <1>1, <1>2, LoadedIsTrue, LeavingQuietlyTold DEF Refuse
<1>3. CASE RefuseStep(p)
  BY <1>1, <1>3, StoppedIsTrue, LeavingQuietlyTold DEF RefuseStep, Busy
<1>4. CASE RecoverFails(p)
  BY <1>1, <1>4, UncertainIsTrue, LeavingQuietlyTold DEF RecoverFails
<1>5. CASE BackendEnds(p)
  <2>1. run[p] \in Run
    BY <1>1 DEF IInv, ProcessInv, HoldInv
  <2>2. Truthful(run[p], verdict[run[p]], journal[run[p]])
    BY <2>1 DEF VInv, ToldInv
  <2> QED
    BY <1>1, <1>5, <2>2, LeavingQuietlyTold DEF BackendEnds
<1> QED
  BY <1>2, <1>3, <1>4, <1>5

LEMMA FinishingTold ==
    ASSUME IInv, VInv, NEW p \in Session, Finish(p)
    PROVE  VInv'
<1>1. /\ pc[p] = "record" /\ SegmentSteps(p) \subseteq done[p]
      /\ Later(p) = {} /\ UNCHANGED <<plan, journal, landed>>
      /\ Leave(p, IF warned[p] THEN "outcome-unknown" ELSE "completed")
  BY DEF Finish, recordVars, historyVars
<1>2. /\ ProcessInv(p) /\ conn[p] = "open" /\ run[p] \in Run
      /\ plan[run[p]] \subseteq Step /\ at[p] \in plan[run[p]]
  BY <1>1, Before
<1>3. plan[run[p]] \subseteq Lower(p) \cup SegmentSteps(p)
  <2>1. \A s \in plan[run[p]] : s <= at[p]
    BY <1>1, <1>2, Numbers DEF Later
  <2>2. \A s \in plan[run[p]] : SegmentOf[s] <= SegmentOf[at[p]]
    BY <1>2, <2>1, Numbers
  <2>3. \A s \in plan[run[p]] : SegmentOf[s] \in Nat
    BY <1>2, Numbers
  <2> QED
    BY <1>2, <2>2, <2>3 DEF Lower, SegmentSteps
<1>4. plan[run[p]] \ AutoCommit \subseteq landed[run[p]]
  <2>1. Lower(p) \subseteq landed[run[p]]
    BY <1>1, <1>2 DEF ProcessInv, WorkInv, Working, Lower
  <2>2. \A s \in SegmentSteps(p) \ AutoCommit : s \in landed[run[p]]
    BY <1>1, <1>2 DEF ProcessInv, InSegment
  <2> QED
    BY <1>3, <2>1, <2>2
<1>5. ~warned[p] => \A s \in plan[run[p]] : CompletedIn(journal[run[p]], s)
  <2>1. Lower(p) \subseteq done[p]
    BY <1>1 DEF VInv, ClientInv, DoneInv
  <2>2. ~warned[p] => \A s \in done[p] : CompletedIn(journal[run[p]], s)
    BY <1>1 DEF VInv, ClientInv, DoneInv
  <2> QED
    BY <1>1, <1>3, <2>1, <2>2
<1>6. Truthful(run[p], IF warned[p] THEN "outcome-unknown" ELSE "completed",
               journal[run[p]])
  BY <1>4, <1>5 DEF Truthful
<1> QED
  BY <1>1, <1>2, <1>6, LeavingQuietlyTold

-----------------------------------------------------------------------------
(* A process that goes on, and the server.                                 *)

LEMMA GoingOnTold ==
    ASSUME IInv, VInv, NEW p \in Session, conn[p] # "closed",
           \A q \in Session \ {p} : SameProcess(q), ToldDomains',
           UNCHANGED <<plan, journal, landed, verdict, run>>,
           ClientInv(p)'
    PROVE  VInv'
<1>1. Aside(p)
  BY DEF Aside, SameRun
<1>2. run[p] \in Run
  BY DEF IInv, ProcessInv, HoldInv
<1>3. \A r \in Run : r = run[p] => LandedInv(r)' /\ ToldInv(r)'
  BY <1>2, SameTold DEF VInv, SameRun
<1> QED
  BY <1>1, <1>3, OneClient

LEMMA MovingTold ==
    ASSUME IInv, VInv, NEW p \in Session,
           \/ Authorize(p) \/ LockStep(p) \/ Send(p) \/ Verify(p) \/ Commit(p)
    PROVE  VInv'
<1>1. /\ pc[p] \in {"loaded", "commit"} \cup Busy
      /\ \E place \in {"committing"} \cup Busy :
            pc' = [pc EXCEPT ![p] = place]
      /\ UNCHANGED <<plan, journal, landed, verdict, run, exec, at, done,
                     warned, pending, logged, conn>>
      /\ \/ UNCHANGED sent /\ pc[p] # "commit"
         \/ sent' = [sent EXCEPT ![p] = "statement"] /\ pc[p] # "commit"
         \/ /\ sent' = [sent EXCEPT ![p] = "commit"] /\ pc[p] = "commit"
            /\ pc' = [pc EXCEPT ![p] = "committing"]
  BY DEF Authorize, LockStep, Send, Verify, Commit, Move, Busy, recordVars,
         sessionVars, historyVars
<1>2. /\ DomainInv /\ ProcessInv(p) /\ conn[p] = "open" /\ ToldDomains
      /\ ClientInv(p)
  BY <1>1, Before DEF VInv, Busy
<1>3. /\ pc'[p] \in {"committing"} \cup Busy
      /\ pc[p] = "commit" => pc'[p] = "committing" /\ sent'[p] = "commit"
      /\ pc[p] # "commit" => sent'[p] # "commit"
      /\ \A q \in Session \ {p} : pc'[q] = pc[q] /\ sent'[q] = sent[q]
  <2>1. sent[p] = "commit" => pc[p] = "committing" \/ pc[p] = "idle"
    BY <1>2 DEF ProcessInv, SentInv
  <2>2. sent[p] # "commit"
    BY <1>1, <2>1 DEF Busy
  <2>3. p \in DOMAIN pc /\ p \in DOMAIN sent
    BY <1>2 DEF DomainInv
  <2>4. pc[p] = "commit" => pc'[p] = "committing" /\ sent'[p] = "commit"
    BY <1>1, <2>3
  <2>5. pc[p] # "commit" => sent'[p] # "commit"
    BY <1>1, <2>2, <2>3
  <2>6. /\ pc'[p] \in {"committing"} \cup Busy
        /\ \A q \in Session \ {p} : pc'[q] = pc[q]
    BY <1>1, <1>2, <2>3 DEF DomainInv
  <2>7. \A q \in Session \ {p} : sent'[q] = sent[q]
    BY <1>1, <1>2 DEF DomainInv
  <2> QED
    BY <2>4, <2>5, <2>6, <2>7
<1>4. \A q \in Session \ {p} : SameProcess(q)
  BY <1>1, <1>3 DEF SameProcess, Same
<1>5. DoneInv(p)'
  <2>1. done[p] = Lower(p)
    BY <1>1, <1>2 DEF ClientInv, DoneInv
  <2>2. pc[p] # "idle" /\ pc'[p] # "idle" /\ pc'[p] # "recover"
        /\ pc'[p] # "record"
    BY <1>1, <1>3 DEF Busy
  <2>3. ~warned[p] => \A s \in done[p] : CompletedIn(journal[run[p]], s)
    BY <1>2, <2>2 DEF ClientInv, DoneInv
  <2> QED
    BY <1>1, <2>1, <2>2, <2>3 DEF DoneInv, Lower, CompletedIn
<1>6. CompletionInv(p)'
  <2>1. CASE pc[p] = "commit"
    BY <1>1, <1>2, <1>3, <2>1 DEF ClientInv, CompletionInv, CompletionIn, Busy
  <2>2. CASE pc[p] \in Busy
    <3>1. /\ pc'[p] # "commit" /\ sent'[p] # "commit"
      BY <1>3, <2>2 DEF Busy
    <3>2. pending'[p] = pending[p] /\ logged'[p] = logged[p] /\ at'[p] = at[p]
      BY <1>1
    <3> QED
      BY <1>2, <2>2, <3>1, <3>2 DEF ClientInv, CompletionInv, CompletionIn
  <2>3. CASE pc[p] = "loaded"
    <3>1. pending'[p] = {}
      BY <1>1, <1>2, <2>3 DEF ProcessInv, InSegment
    <3> QED
      BY <3>1 DEF CompletionInv
  <2> QED
    BY <1>1, <2>1, <2>2, <2>3
<1>7. HolderInv(p)'
  BY <1>1, <1>2 DEF ClientInv, HolderInv
<1>8. ToldDomains'
  BY <1>1, <1>2 DEF ToldDomains
<1> QED
  BY <1>1, <1>2, <1>4, <1>5, <1>6, <1>7, <1>8, GoingOnTold DEF ClientInv

LEMMA ReceivingTold ==
    ASSUME IInv, VInv, NEW p \in Session, Receive(p)
    PROVE  VInv'
<1>1. /\ pc[p] = "running" /\ pc[p] \in Busy /\ ~Inflight(p)
      /\ UNCHANGED <<plan, landed>>
  BY DEF Receive, Busy, historyVars
<1>2. /\ DomainInv /\ ProcessInv(p) /\ conn[p] = "open" /\ ToldDomains
      /\ ClientInv(p)
  BY <1>1, Before DEF VInv
<1>3. CASE /\ sent[p] = "ok" /\ Move(p, "running", "verify")
           /\ sent' = [sent EXCEPT ![p] = None]
           /\ UNCHANGED <<journal, verdict, run, exec, at, done, warned,
                          pending, logged, conn>>
  <2>1. pc'[p] = "verify" /\ sent'[p] = None
    BY <1>2, <1>3 DEF Move, DomainInv
  <2>2. \A q \in Session \ {p} : SameProcess(q)
    BY <1>2, <1>3 DEF Move, DomainInv, SameProcess, Same
  <2>3. DoneInv(p)'
    BY <1>1, <1>2, <1>3, <2>1 DEF ClientInv, DoneInv, Lower, CompletedIn, Busy
  <2>4. CompletionInv(p)'
    BY <1>1, <1>2, <1>3, <2>1 DEF ClientInv, CompletionInv, CompletionIn,
       Busy, None
  <2>5. HolderInv(p)' /\ ToldDomains'
    BY <1>2, <1>3 DEF ClientInv, HolderInv, ToldDomains
  <2> QED
    BY <1>1, <1>2, <1>3, <2>2, <2>3, <2>4, <2>5, GoingOnTold DEF ClientInv
<1>4. CASE StopWith(p, "not-applied", Stopped(p))
  <2>1. \A E : Truthful(run[p], Stopped(p), E)
    BY <1>1, StoppedIsTrue
  <2> QED
    BY <1>1, <1>4, <2>1, StoppingTold DEF None
<1>5. CASE Leave(p, "outcome-unknown") /\ UNCHANGED journal
  BY <1>1, <1>2, <1>5, UncertainIsTrue, LeavingQuietlyTold
<1> QED
  BY <1>3, <1>4, <1>5 DEF Receive

LEMMA ReceivingCommitTold ==
    ASSUME IInv, VInv, NEW p \in Session, ReceiveCommit(p)
    PROVE  VInv'
<1>1. /\ pc[p] = "committing" /\ ~Inflight(p)
      /\ UNCHANGED <<plan, landed, journal>>
  BY DEF ReceiveCommit, historyVars, recordVars
<1>2. /\ DomainInv /\ ProcessInv(p) /\ conn[p] = "open" /\ ToldDomains
      /\ ClientInv(p)
  BY <1>1, Before DEF VInv
<1>3. CASE /\ pc' = [pc EXCEPT ![p] = "record"]
           /\ sent' = [sent EXCEPT ![p] = None]
           /\ UNCHANGED <<verdict, run, exec, at, done, warned, pending,
                          logged, conn>>
  <2>1. pc'[p] = "record" /\ sent'[p] = None
    BY <1>2, <1>3 DEF DomainInv
  <2>2. \A q \in Session \ {p} : SameProcess(q)
    BY <1>2, <1>3 DEF DomainInv, SameProcess, Same
  <2>3. DoneInv(p)'
    BY <1>1, <1>2, <1>3, <2>1 DEF ClientInv, DoneInv, Lower, SegmentSteps,
       CompletedIn, Busy
  <2>4. CompletionInv(p)'
    BY <2>1 DEF CompletionInv, Busy, None
  <2>5. HolderInv(p)' /\ ToldDomains'
    BY <1>2, <1>3 DEF ClientInv, HolderInv, ToldDomains
  <2> QED
    BY <1>1, <1>2, <1>3, <2>2, <2>3, <2>4, <2>5, GoingOnTold DEF ClientInv
<1>4. CASE Leave(p, "outcome-unknown")
  BY <1>1, <1>2, <1>4, UncertainIsTrue, LeavingQuietlyTold
<1> QED
  BY <1>3, <1>4 DEF ReceiveCommit

LEMMA NextSegmentTold ==
    ASSUME IInv, VInv, NEW p \in Session, NextSegment(p)
    PROVE  VInv'
<1>1. PICK s \in Later(p) : /\ IsFirst(s, Later(p))
                            /\ at' = [at EXCEPT ![p] = s]
  BY DEF NextSegment
<1>2. /\ pc[p] = "record" /\ pc' = [pc EXCEPT ![p] = "step"]
      /\ SegmentSteps(p) \subseteq done[p]
      /\ UNCHANGED <<plan, journal, landed, verdict, run, exec, done, warned,
                     pending, logged, conn, sent>>
  BY DEF NextSegment, Move, recordVars, sessionVars, historyVars
<1>3. /\ DomainInv /\ ProcessInv(p) /\ conn[p] = "open" /\ run[p] \in Run
      /\ plan[run[p]] \subseteq Step /\ at[p] \in plan[run[p]]
      /\ ToldDomains /\ ClientInv(p)
  BY <1>2, Before DEF VInv
<1>4. /\ pc'[p] = "step" /\ at'[p] = s
      /\ \A q \in Session \ {p} : SameProcess(q)
  BY <1>1, <1>2, <1>3 DEF DomainInv, SameProcess, Same
<1>5. done[p] = {t \in plan[run[p]] : SegmentOf[t] < SegmentOf[s]}
  <2>1. done[p] = Lower(p) \cup SegmentSteps(p)
    BY <1>2, <1>3 DEF ClientInv, DoneInv
  <2>2. \A t \in plan[run[p]] :
           /\ t \in Nat /\ SegmentOf[t] \in Nat
           /\ \A u \in plan[run[p]] : t <= u => SegmentOf[t] <= SegmentOf[u]
    BY <1>3, Numbers
  <2>3. s \in plan[run[p]] /\ at[p] < s
    BY <1>1, <1>3, <2>2 DEF Later
  <2>4. SegmentOf[at[p]] < SegmentOf[s]
    <3>1. s \notin SegmentSteps(p)
      BY <1>1, <1>2, <1>3 DEF ProcessInv, InSegment, RestOfSegment, Ending
    <3> QED
      BY <1>3, <2>2, <2>3, <3>1 DEF SegmentSteps
  <2>5. ASSUME NEW t \in done[p]
        PROVE  t \in plan[run[p]] /\ SegmentOf[t] < SegmentOf[s]
    <3>1. t \in plan[run[p]] /\ SegmentOf[t] <= SegmentOf[at[p]]
      BY <1>3, <2>1, <2>2 DEF Lower, SegmentSteps
    <3> QED
      BY <1>3, <2>2, <2>3, <2>4, <3>1
  <2>6. ASSUME NEW t \in plan[run[p]], SegmentOf[t] < SegmentOf[s]
        PROVE  t \in done[p]
    <3>1. t < s
      BY <2>2, <2>3, <2>6
    <3>2. t <= at[p]
      BY <1>1, <1>3, <2>2, <2>3, <3>1 DEF Later, IsFirst
    <3>3. SegmentOf[t] <= SegmentOf[at[p]]
      BY <1>3, <2>2, <3>2
    <3> QED
      BY <1>3, <2>1, <2>2, <3>3 DEF Lower, SegmentSteps
  <2> QED
    BY <2>5, <2>6
<1>6. DoneInv(p)'
  BY <1>2, <1>3, <1>4, <1>5 DEF ClientInv, DoneInv, Lower, CompletedIn, Busy
<1>7. CompletionInv(p)'
  BY <1>2, <1>3, <1>4 DEF ProcessInv, InSegment, CompletionInv
<1>8. HolderInv(p)' /\ ToldDomains'
  BY <1>2, <1>3 DEF ClientInv, HolderInv, ToldDomains
<1> QED
  BY <1>2, <1>3, <1>4, <1>6, <1>7, <1>8, GoingOnTold DEF ClientInv

LEMMA LosingTold ==
    ASSUME IInv, VInv, NEW p \in Session, LoseSession(p)
    PROVE  VInv'
<1>1. /\ conn[p] = "open" /\ conn' = [conn EXCEPT ![p] = "orphan"]
      /\ pc' = [pc EXCEPT ![p] = "idle"]
      /\ done' = [done EXCEPT ![p] = {}]
      /\ warned' = [warned EXCEPT ![p] = FALSE]
      /\ UNCHANGED <<plan, journal, landed, run, exec, at, pending, logged,
                     sent>>
  BY DEF LoseSession, recordVars, historyVars
<1>2. PICK told \in {None, LostVerdict(p)} :
         verdict' = [verdict EXCEPT ![run[p]] = told]
  BY DEF LoseSession
<1>3. /\ DomainInv /\ ProcessInv(p) /\ pc[p] # "idle" /\ run[p] \in Run
      /\ plan[run[p]] \subseteq Step /\ at[p] \in plan[run[p]]
      /\ ToldDomains /\ ClientInv(p)
  <2>1. pc[p] # "idle"
    BY <1>1 DEF IInv, ProcessInv, HoldInv
  <2> QED
    BY <2>1, Before DEF VInv
<1>4. /\ told # "completed"
      /\ sent[p] = "commit" => told \in {None, "outcome-unknown"}
  <2>1. sent[p] = "commit" => pc[p] = "committing"
    BY <1>3 DEF ProcessInv, SentInv
  <2>2. LostVerdict(p) # "completed"
    BY DEF LostVerdict, Stopped, None
  <2>3. pc[p] = "committing" => LostVerdict(p) = "outcome-unknown"
    BY DEF LostVerdict
  <2> QED
    BY <1>2, <2>1, <2>2, <2>3 DEF None
<1>5. Truthful(run[p], LostVerdict(p), journal[run[p]])
  <2> DEFINE E == journal[run[p]]
  <2>1. CASE pc[p] = "loaded"
    <3>1. Truthful(run[p], "planned", E)
      BY <2>1, LoadedIsTrue
    <3>2. LostVerdict(p) = "planned"
      BY <2>1 DEF LostVerdict
    <3> QED
      BY <3>1, <3>2
  <2>2. CASE pc[p] \in {"step", "locked", "intent"}
    <3>1. Truthful(run[p], Stopped(p), E)
      BY <2>2, StoppedIsTrue DEF Busy
    <3>2. Truthful(run[p], "outcome-unknown", E)
      BY UncertainIsTrue
    <3>3. LostVerdict(p) \in {Stopped(p), "outcome-unknown"}
      BY <2>2 DEF LostVerdict
    <3> QED
      BY <3>1, <3>2, <3>3
  <2>3. CASE pc[p] \in {"verify", "complete"} /\ ~Transactional(p)
    BY <1>3, <1>4, <2>3, BuildIsTrue DEF LostVerdict, Stopped
  <2>4. CASE pc[p] = "record" /\ Later(p) # {}
    <3>1. PICK s \in plan[run[p]] : at[p] < s
      BY <1>3, <2>4, Numbers DEF Later
    <3>2. SegmentOf[at[p]] < SegmentOf[s]
      <4>1. s \notin SegmentSteps(p)
        BY <1>3, <2>4, <3>1 DEF ProcessInv, InSegment, RestOfSegment, Later,
                               Ending
      <4>2. /\ SegmentOf[at[p]] <= SegmentOf[s]
            /\ SegmentOf[at[p]] \in Nat /\ SegmentOf[s] \in Nat
        BY <1>3, <3>1, Numbers
      <4> QED
        BY <3>1, <4>1, <4>2 DEF SegmentSteps
    <3>3. s \notin landed[run[p]]
      <4>1. \A t \in landed[run[p]] : SegmentOf[t] <= SegmentOf[at[p]]
        BY <1>3, <2>4 DEF ProcessInv, WorkInv, Working
      <4>2. SegmentOf[at[p]] \in Nat /\ SegmentOf[s] \in Nat
        BY <1>3, <3>1, Numbers
      <4> QED
        BY <3>2, <4>1, <4>2
    <3>4. TransactionalRun(run[p]) => at[p] \in landed[run[p]]
      BY <1>3, <2>4 DEF ProcessInv, InSegment, SegmentSteps,
                        TransactionalRun
    <3>5. Truthful(run[p], "partially-applied", E)
      BY <3>1, <3>3, <3>4 DEF Truthful
    <3>6. LostVerdict(p) = "partially-applied"
      BY <2>4 DEF LostVerdict
    <3> QED
      BY <3>5, <3>6
  <2>5. CASE LostVerdict(p) \in {None, "outcome-unknown"}
    BY <2>5, UncertainIsTrue
  <2> QED
    BY <2>1, <2>2, <2>3, <2>4, <2>5 DEF LostVerdict
<1>6. Truthful(run[p], told, journal[run[p]])
  BY <1>2, <1>5, UncertainIsTrue
<1>7. /\ pc'[p] = "idle" /\ conn'[p] = "orphan" /\ done'[p] = {}
      /\ warned'[p] = FALSE /\ verdict'[run[p]] = told /\ ToldDomains'
  BY <1>1, <1>2, <1>3 DEF DomainInv, ToldDomains
<1>8. Aside(p)
  BY <1>1, <1>2, <1>3 DEF DomainInv, ToldDomains, Aside, SameProcess, Same,
                          SameRun
<1>9. ClientInv(p)'
  <2>1. DoneInv(p)'
    BY <1>7 DEF DoneInv, Busy
  <2>2. CompletionInv(p)'
    BY <1>1, <1>3, <1>7 DEF ClientInv, CompletionInv, CompletionIn, Busy
  <2>3. HolderInv(p)'
    BY <1>1, <1>4, <1>7 DEF HolderInv
  <2> QED
    BY <2>1, <2>2, <2>3 DEF ClientInv
<1>10. \A r \in Run : r = run[p] => LandedInv(r)' /\ ToldInv(r)'
  <2>1. LandedInv(run[p])
    BY <1>3 DEF VInv
  <2>2. \A r \in Run : r = run[p] => LandedInv(r)'
    BY <1>1, <2>1 DEF LandedInv, CompletionIn
  <2>3. \A r \in Run : r = run[p] => ToldInv(r)'
    BY <1>1, <1>3, <1>6, <1>7
       DEF ToldInv, Truthful, TransactionalRun, CompletedIn
  <2> QED
    BY <2>2, <2>3
<1> QED
  BY <1>1, <1>7, <1>8, <1>9, <1>10, OneClient

(* A process that goes on and writes in the journal of its run.            *)
LEMMA NotingTold ==
    ASSUME IInv, VInv, NEW p \in Session, conn[p] = "open", NEW E,
           Adds(p, E), UNCHANGED <<plan, landed, verdict, run>>,
           \A q \in Session \ {p} : SameProcess(q), ToldDomains',
           \A e \in E : e.outcome \in {None, "partially-applied"} =>
                           e.step \in AutoCommit,
           ClientInv(p)'
    PROVE  VInv'
<1>1. run[p] \in Run /\ LandedInv(run[p]) /\ verdict[run[p]] = None
  BY DEF IInv, ProcessInv, HoldInv, VInv, ClientInv, HolderInv
<1>2. Aside(p)
  BY DEF Aside, SameRun, Adds
<1>3. \A r \in Run : r = run[p] => LandedInv(r)'
  BY <1>1 DEF LandedInv, CompletionIn, Adds
<1>4. \A r \in Run : r = run[p] => ToldInv(r)'
  BY <1>1 DEF ToldInv, Truthful, None
<1> QED
  BY <1>2, <1>3, <1>4, OneClient

LEMMA IntendingTold ==
    ASSUME IInv, VInv, NEW p \in Session, Intend(p)
    PROVE  VInv'
<1> DEFINE intent == EventOf(p, "intent", None)
<1>1. /\ pc[p] = "locked" /\ pc' = [pc EXCEPT ![p] = "intent"]
      /\ UNCHANGED <<plan, landed, verdict, run, exec, at, done, warned,
                     pending, conn, sent>>
      /\ \/ /\ logged' = [logged EXCEPT ![p] = @ \cup {intent}]
            /\ UNCHANGED journal
         \/ /\ ~Transactional(p) /\ WriteJournal(p, {intent})
            /\ UNCHANGED logged
  BY DEF Intend, Move, historyVars
<1>2. /\ DomainInv /\ conn[p] = "open" /\ run[p] \in Run /\ ProcessInv(p)
      /\ ToldDomains /\ ClientInv(p)
  BY <1>1, Before DEF VInv
<1>3. intent.outcome = None /\ intent.step = at[p]
  BY DEF EventOf
<1> HIDE DEF intent
<1>4. /\ pc'[p] = "intent" /\ logged[p] \subseteq logged'[p]
      /\ \A q \in Session \ {p} : SameProcess(q)
  BY <1>1, <1>2 DEF DomainInv, SameProcess, Same
<1>5. CompletionInv(p)'
  <2>1. /\ sent[p] # "commit"
        /\ \A s \in pending[p] \ {at[p]} : CompletionIn(logged[p], s)
    BY <1>1, <1>2 DEF ClientInv, CompletionInv, ProcessInv, SentInv, Busy
  <2> QED
    BY <1>1, <1>4, <2>1 DEF CompletionInv, CompletionIn
<1>6. HolderInv(p)' /\ ToldDomains'
  BY <1>1, <1>2 DEF ClientInv, HolderInv, ToldDomains
<1>7. journal[run[p]] \subseteq journal'[run[p]]
  BY <1>1, <1>2 DEF WriteJournal, DomainInv
<1>8. DoneInv(p)'
  BY <1>1, <1>2, <1>4, <1>7
     DEF ClientInv, DoneInv, Lower, CompletedIn, Busy
<1>9. CASE UNCHANGED journal
  BY <1>1, <1>2, <1>4, <1>5, <1>6, <1>8, <1>9, GoingOnTold DEF ClientInv
<1>10. CASE ~Transactional(p) /\ WriteJournal(p, {intent})
  <2>1. Adds(p, {intent})
    BY <1>2, <1>10 DEF WriteJournal, Adds, DomainInv
  <2>2. \A e \in {intent} : e.step \in AutoCommit
    BY <1>3, <1>10 DEF Transactional
  <2> QED
    BY <1>1, <1>2, <1>4, <1>5, <1>6, <1>8, <2>1, <2>2, NotingTold
       DEF ClientInv
<1> QED
  BY <1>1, <1>9, <1>10

LEMMA CompletingTold ==
    ASSUME IInv, VInv, NEW p \in Session, Complete(p)
    PROVE  VInv'
<1> DEFINE completion == EventOf(p, "completion", None)
<1>1. /\ pc[p] = "complete" /\ EndStep(p)
      /\ UNCHANGED <<plan, landed, verdict, run, exec, done, warned,
                     pending, conn, sent>>
      /\ \/ /\ Transactional(p) /\ UNCHANGED journal
            /\ logged' = [logged EXCEPT ![p] = @ \cup {completion}]
         \/ /\ ~Transactional(p) /\ WriteJournal(p, {completion})
            /\ UNCHANGED logged
  BY DEF Complete, historyVars
<1>2. /\ DomainInv /\ conn[p] = "open" /\ run[p] \in Run /\ ProcessInv(p)
      /\ ToldDomains /\ ClientInv(p) /\ at[p] \in plan[run[p]]
      /\ plan[run[p]] \subseteq Step
  BY <1>1, Before DEF VInv
<1>3. /\ completion.outcome = None /\ completion.step = at[p]
      /\ completion.kind = "completion"
  BY DEF EventOf
<1> HIDE DEF completion
<1>4. /\ pc'[p] \in {"step", "commit", "record"}
      /\ at'[p] \in plan[run[p]] /\ SegmentOf[at'[p]] = SegmentOf[at[p]]
      /\ pc'[p] \in {"commit", "record"} => at'[p] = at[p]
      /\ pc'[p] # "record" \/ ~Transactional(p)
      /\ \A q \in Session \ {p} : pc'[q] = pc[q] /\ at'[q] = at[q]
  BY <1>1, <1>2 DEF EndStep, RestOfSegment, Later, SegmentSteps, DomainInv
<1>5. \A q \in Session \ {p} : SameProcess(q)
  BY <1>1, <1>2, <1>4 DEF DomainInv, SameProcess, Same
<1>6. CompletionInv(p)'
  <2>1. /\ sent[p] # "commit"
        /\ \A s \in pending[p] \ {at[p]} : CompletionIn(logged[p], s)
    BY <1>1, <1>2 DEF ClientInv, CompletionInv, ProcessInv, SentInv, Busy
  <2>2. CASE Transactional(p)
    <3>1. logged'[p] = logged[p] \cup {completion}
      BY <1>1, <1>2, <2>2 DEF DomainInv
    <3>2. \A s \in pending[p] : CompletionIn(logged'[p], s)
      BY <1>3, <2>1, <3>1 DEF CompletionIn
    <3> QED
      BY <1>1, <2>1, <3>2 DEF CompletionInv, CompletionIn
  <2>3. CASE ~Transactional(p)
    <3>1. at[p] \notin pending[p] /\ logged'[p] = logged[p]
      BY <1>1, <1>2, <2>3 DEF ProcessInv, PendInv, Transactional
    <3>2. \A s \in pending[p] : CompletionIn(logged'[p], s)
      BY <2>1, <3>1
    <3> QED
      BY <1>1, <2>1, <3>2 DEF CompletionInv, CompletionIn
  <2> QED
    BY <2>2, <2>3
<1>7. HolderInv(p)' /\ ToldDomains'
  BY <1>1, <1>2 DEF ClientInv, HolderInv, ToldDomains
<1>8. DoneInv(p)'
  <2>1. /\ done[p] = Lower(p) /\ Lower(p)' = Lower(p)
        /\ ~warned[p] => \A s \in done[p] : CompletedIn(journal[run[p]], s)
    BY <1>1, <1>2, <1>4 DEF ClientInv, DoneInv, Lower, Busy
  <2>2. journal[run[p]] \subseteq journal'[run[p]]
    BY <1>1, <1>2 DEF WriteJournal, DomainInv
  <2> QED
    BY <1>1, <1>4, <2>1, <2>2 DEF DoneInv, CompletedIn
<1>9. CASE UNCHANGED journal
  BY <1>1, <1>2, <1>5, <1>6, <1>7, <1>8, <1>9, GoingOnTold DEF ClientInv
<1>10. CASE ~Transactional(p) /\ WriteJournal(p, {completion})
  <2>1. Adds(p, {completion})
    BY <1>2, <1>10 DEF WriteJournal, Adds, DomainInv
  <2>2. \A e \in {completion} : e.step \in AutoCommit
    BY <1>3, <1>10 DEF Transactional
  <2> QED
    BY <1>1, <1>2, <1>5, <1>6, <1>7, <1>8, <2>1, <2>2, NotingTold
       DEF ClientInv
<1> QED
  BY <1>1, <1>9, <1>10

LEMMA RecordingTold ==
    ASSUME IInv, VInv, NEW p \in Session, RecordStep(p)
    PROVE  VInv'
<1>1. PICK s \in SegmentSteps(p) \ done[p] :
         /\ \/ /\ WriteJournal(p, {[EventOf(p, "observed", "completed")
                                     EXCEPT !.step = s]})
               /\ UNCHANGED warned
            \/ /\ warned' = [warned EXCEPT ![p] = TRUE]
               /\ UNCHANGED journal
         /\ done' = [done EXCEPT ![p] = @ \cup {s}]
  BY DEF RecordStep
<1> DEFINE event == [EventOf(p, "observed", "completed") EXCEPT !.step = s]
<1>2. /\ pc[p] = "record"
      /\ UNCHANGED <<plan, landed, verdict, pc, run, exec, at, pending,
                     logged, conn, sent>>
  BY DEF RecordStep, sessionVars, historyVars
<1>3. /\ DomainInv /\ conn[p] = "open" /\ run[p] \in Run /\ ProcessInv(p)
      /\ ToldDomains /\ ClientInv(p)
  BY <1>2, Before DEF VInv
<1>4. event.outcome = "completed" /\ event.step = s
  BY DEF EventOf
<1> HIDE DEF event
<1>5. /\ done'[p] = done[p] \cup {s} /\ ToldDomains'
      /\ \A q \in Session \ {p} : SameProcess(q)
  BY <1>1, <1>2, <1>3 DEF ToldDomains, SameProcess, Same
<1>6. CompletionInv(p)' /\ HolderInv(p)'
  BY <1>2, <1>3 DEF ClientInv, CompletionInv, HolderInv, ProcessInv, SentInv,
     Busy
<1>7. /\ Lower(p)' = Lower(p) /\ SegmentSteps(p)' = SegmentSteps(p)
      /\ Lower(p) \subseteq done[p]
      /\ done[p] \subseteq Lower(p) \cup SegmentSteps(p)
      /\ ~warned[p] => \A t \in done[p] : CompletedIn(journal[run[p]], t)
  BY <1>2, <1>3 DEF ClientInv, DoneInv, Lower, SegmentSteps
<1>8. CASE /\ warned' = [warned EXCEPT ![p] = TRUE]
           /\ UNCHANGED journal
  <2>1. warned'[p] = TRUE
    BY <1>3, <1>8 DEF ToldDomains
  <2>2. DoneInv(p)'
    BY <1>2, <1>5, <1>7, <2>1 DEF DoneInv, Busy
  <2> QED
    BY <1>2, <1>3, <1>5, <1>6, <1>8, <2>2, GoingOnTold DEF ClientInv
<1>9. CASE WriteJournal(p, {event}) /\ UNCHANGED warned
  <2>1. Adds(p, {event})
    BY <1>3, <1>9 DEF WriteJournal, Adds, DomainInv
  <2>2. journal'[run[p]] = journal[run[p]] \cup {event}
    BY <2>1 DEF Adds
  <2>3. ~warned'[p] => \A t \in done'[p] : CompletedIn(journal'[run[p]], t)
    BY <1>4, <1>5, <1>7, <1>9, <2>2 DEF CompletedIn
  <2>4. DoneInv(p)'
    BY <1>2, <1>5, <1>7, <2>3 DEF DoneInv, CompletedIn, Busy
  <2>5. \A e \in {event} : e.outcome \notin {None, "partially-applied"}
    BY <1>4 DEF None
  <2> QED
    BY <1>2, <1>3, <1>5, <1>6, <2>1, <2>4, <2>5, NotingTold DEF ClientInv
<1> QED
  BY <1>1, <1>8, <1>9 DEF event

-----------------------------------------------------------------------------
(* The server.                                                             *)

LEMMA StatementEndingTold ==
    ASSUME IInv, VInv, NEW p \in Session, StatementEnds(p)
    PROVE  VInv'
<1>1. /\ sent[p] = "statement"
      /\ \/ /\ pending' = [pending EXCEPT ![p] = @ \cup {at[p]}]
            /\ UNCHANGED landed
         \/ UNCHANGED <<pending, landed>>
         \/ /\ ~Transactional(p) /\ UNCHANGED pending
            /\ landed' = [landed EXCEPT ![run[p]] = @ \cup {at[p]}]
      /\ sent' = [sent EXCEPT ![p] = "ok"]
            \/ sent' = [sent EXCEPT ![p] = "failed"]
      /\ UNCHANGED <<plan, journal, verdict, pc, run, exec, at, done, warned,
                     logged, conn>>
  BY DEF StatementEnds, recordVars, processVars
<1>2. /\ DomainInv /\ ProcessInv(p) /\ ToldDomains /\ ClientInv(p)
      /\ pc[p] \in {"running", "idle"} /\ conn[p] # "closed"
      /\ run[p] \in Run /\ at[p] \in plan[run[p]]
      /\ \A s \in plan[run[p]] \cap AutoCommit : plan[run[p]] = {s}
  BY <1>1, PlansOfSteps DEF IInv, VInv, ProcessInv, HoldInv, SentInv, None
<1>3. /\ sent'[p] # "commit" /\ pending'[p] \ {at[p]} \subseteq pending[p]
      /\ \A q \in Session \ {p} : SameProcess(q)
  <2>1. sent'[p] \in {"ok", "failed"}
    BY <1>1, <1>2 DEF DomainInv
  <2>2. pending'[p] \ {at[p]} \subseteq pending[p]
    BY <1>1, <1>2 DEF DomainInv
  <2>3. \A q \in Session \ {p} : SameProcess(q)
    BY <1>1, <1>2 DEF DomainInv, SameProcess, Same
  <2> QED
    BY <2>1, <2>2, <2>3
<1>4. DoneInv(p)'
  BY <1>1, <1>2 DEF ClientInv, DoneInv, Lower, CompletedIn, Busy
<1>5. CompletionInv(p)'
  BY <1>1, <1>2, <1>3 DEF ClientInv, CompletionInv, CompletionIn, Busy
<1>6. HolderInv(p)' /\ ToldDomains'
  BY <1>1, <1>2, <1>3 DEF ClientInv, HolderInv, ToldDomains
<1>7. CASE UNCHANGED landed
  BY <1>1, <1>2, <1>3, <1>4, <1>5, <1>6, <1>7, GoingOnTold DEF ClientInv
<1>8. CASE /\ ~Transactional(p)
           /\ landed' = [landed EXCEPT ![run[p]] = @ \cup {at[p]}]
  <2>1. /\ plan[run[p]] = {at[p]} /\ ~TransactionalRun(run[p])
    BY <1>2, <1>8 DEF Transactional, TransactionalRun
  <2>2. /\ landed'[run[p]] = landed[run[p]] \cup {at[p]}
        /\ \A r \in Run \ {run[p]} : landed'[r] = landed[r]
    BY <1>2, <1>8 DEF DomainInv
  <2>3. Aside(p)
    BY <1>1, <1>3, <2>2 DEF Aside, SameRun
  <2>4. verdict[run[p]] # "completed"
    BY <1>2 DEF ClientInv, HolderInv
  <2>5. LandedInv(run[p]) /\ ToldInv(run[p])
    BY <1>2 DEF VInv
  <2>6. \A r \in Run : r = run[p] => LandedInv(r)'
    BY <1>1, <2>1, <2>2, <2>5 DEF LandedInv, CompletionIn
  <2>7. \A r \in Run : r = run[p] => ToldInv(r)'
    BY <1>1, <2>1, <2>4, <2>5 DEF ToldInv, Truthful, TransactionalRun
  <2> QED
    BY <1>2, <1>4, <1>5, <1>6, <2>3, <2>6, <2>7, OneClient DEF ClientInv
<1> QED
  BY <1>1, <1>7, <1>8

LEMMA CommitEndingTold ==
    ASSUME IInv, VInv, NEW p \in Session, CommitEnds(p)
    PROVE  VInv'
<1>1. /\ sent[p] = "commit"
      /\ \/ /\ landed' = [landed EXCEPT ![run[p]] = @ \cup pending[p]]
            /\ WriteJournal(p, logged[p])
         \/ UNCHANGED <<landed, journal>>
      /\ sent' = [sent EXCEPT ![p] = "ok"]
            \/ sent' = [sent EXCEPT ![p] = "failed"]
      /\ pending' = [pending EXCEPT ![p] = {}]
      /\ logged' = [logged EXCEPT ![p] = {}]
      /\ UNCHANGED <<plan, verdict, pc, run, exec, at, done, warned, conn>>
  BY DEF CommitEnds, processVars
<1>2. /\ DomainInv /\ ProcessInv(p) /\ ToldDomains /\ ClientInv(p)
      /\ pc[p] \in {"committing", "idle"} /\ conn[p] # "closed"
      /\ run[p] \in Run /\ at[p] \in plan[run[p]] /\ Transactional(p)
      /\ plan[run[p]] \subseteq Step /\ SegmentSteps(p) \subseteq pending[p]
  BY <1>1, PlansOfSteps DEF IInv, VInv, ProcessInv, HoldInv, SentInv, None
<1>3. /\ sent'[p] # "commit" /\ pending'[p] = {}
      /\ \A q \in Session \ {p} : SameProcess(q)
  BY <1>1, <1>2 DEF DomainInv, SameProcess, Same
<1>4. journal[run[p]] \subseteq journal'[run[p]]
  BY <1>1, <1>2 DEF WriteJournal, DomainInv
<1>5. DoneInv(p)'
  BY <1>1, <1>2, <1>4 DEF ClientInv, DoneInv, Lower, CompletedIn, Busy
<1>6. CompletionInv(p)' /\ HolderInv(p)' /\ ToldDomains'
  BY <1>1, <1>2, <1>3 DEF ClientInv, CompletionInv, HolderInv, ToldDomains
<1>7. CASE UNCHANGED <<landed, journal>>
  BY <1>1, <1>2, <1>3, <1>5, <1>6, <1>7, GoingOnTold DEF ClientInv
<1>8. CASE /\ landed' = [landed EXCEPT ![run[p]] = @ \cup pending[p]]
           /\ WriteJournal(p, logged[p])
  <2>1. /\ landed'[run[p]] = landed[run[p]] \cup pending[p]
        /\ journal'[run[p]] = journal[run[p]] \cup logged[p]
        /\ \A r \in Run \ {run[p]} :
              landed'[r] = landed[r] /\ journal'[r] = journal[r]
    BY <1>2, <1>8 DEF DomainInv, WriteJournal
  <2>2. Aside(p)
    BY <1>1, <1>3, <2>1 DEF Aside, SameRun
  <2>3. pending[p] = SegmentSteps(p)
    BY <1>2 DEF ProcessInv, PendInv, SegmentSteps
  <2>4. \A t \in plan[run[p]] :
           SegmentOf[t] <= SegmentOf[at[p]] => t \in landed'[run[p]]
    <3>1. \A t \in plan[run[p]] :
             SegmentOf[t] < SegmentOf[at[p]] => t \in landed[run[p]]
      BY <1>1, <1>2 DEF ProcessInv, WorkInv, Working, Inflight
    <3>2. \A t \in plan[run[p]] : SegmentOf[t] \in Nat
      BY <1>2, Numbers
    <3> QED
      BY <1>2, <2>1, <2>3, <3>1, <3>2 DEF SegmentSteps
  <2>5. LandedInv(run[p]) /\ ToldInv(run[p])
    BY <1>2 DEF VInv
  <2>6. \A s \in landed'[run[p]], t \in plan[run[p]] :
           SegmentOf[t] <= SegmentOf[s] => t \in landed'[run[p]]
    BY <2>1, <2>3, <2>4, <2>5 DEF LandedInv, SegmentSteps
  <2>7. ASSUME NEW e \in logged[p]
        PROVE  e.outcome = None /\ CompletionIn(journal'[run[p]], e.step)
    <3>1. e.outcome = None /\ e.step \in SegmentSteps(p)
      BY <1>2 DEF ProcessInv, PendInv, SegmentSteps
    <3>2. CompletionIn(logged[p], e.step)
      BY <1>1, <1>2, <2>3, <3>1 DEF ClientInv, CompletionInv
    <3> QED
      BY <2>1, <3>1, <3>2 DEF CompletionIn
  <2>8. \A r \in Run : r = run[p] => LandedInv(r)'
    <3>1. landed'[run[p]] \subseteq plan[run[p]]
      BY <2>1, <2>3, <2>5 DEF LandedInv, SegmentSteps
    <3>2. \A e \in journal'[run[p]] :
             /\ e.outcome = "partially-applied" => e.step \in AutoCommit
             /\ e.outcome = None /\ e.step \notin AutoCommit =>
                   CompletionIn(journal'[run[p]], e.step)
      BY <2>1, <2>5, <2>7 DEF LandedInv, CompletionIn, None
    <3> QED
      BY <1>1, <2>6, <3>1, <3>2 DEF LandedInv, CompletionIn
  <2>9. verdict[run[p]] \in {None, "outcome-unknown"}
    BY <1>1, <1>2 DEF ClientInv, HolderInv
  <2>10. \A r \in Run : r = run[p] => ToldInv(r)'
    BY <1>1, <1>2, <2>9 DEF ToldInv, Truthful, None
  <2> QED
    BY <1>2, <1>5, <1>6, <2>2, <2>8, <2>10, OneClient DEF ClientInv
<1> QED
  BY <1>1, <1>7, <1>8

-----------------------------------------------------------------------------
(* Planning, taking a run up, and everybody else.                          *)

LEMMA PlanningTold ==
    ASSUME IInv, VInv, NEW r \in Run, PlanRun(r)
    PROVE  VInv'
<1>1. PICK P \in Plans : plan' = [plan EXCEPT ![r] = P]
  BY DEF PlanRun
<1>2. /\ plan[r] = {}
      /\ UNCHANGED <<journal, landed, verdict, pc, run, exec, at, done,
                     warned, pending, logged, conn, sent>>
  BY DEF PlanRun, processVars, sessionVars, historyVars
<1>3. /\ DomainInv /\ ToldDomains /\ ToldDomains'
      /\ \A q \in Run : LandedInv(q) /\ ToldInv(q)
      /\ \A q \in Run \ {r} : SameRun(q)
  BY <1>1, <1>2 DEF IInv, VInv, DomainInv, ToldDomains, SameRun
<1>4. ASSUME NEW q \in Session PROVE ClientInv(q)'
  <2>1. ProcessInv(q) /\ ClientInv(q) /\ SameProcess(q)
    BY <1>2 DEF IInv, VInv, SameProcess, Same
  <2>2. conn[q] # "closed" => SameRun(run[q])
    BY <1>2, <1>3, <2>1 DEF ProcessInv, HoldInv
  <2> QED
    BY <2>1, <2>2, SameClient
<1>5. LandedInv(r)' /\ ToldInv(r)'
  <2>1. landed[r] = {} /\ verdict[r] = None
    BY <1>2, <1>3 DEF LandedInv, ToldInv
  <2>2. LandedInv(r)'
    BY <1>2, <1>3, <2>1 DEF LandedInv, CompletionIn
  <2>3. ToldInv(r)'
    BY <1>2, <2>1 DEF ToldInv, Truthful, None
  <2> QED
    BY <2>2, <2>3
<1>6. ASSUME NEW q \in Run \ {r} PROVE LandedInv(q)' /\ ToldInv(q)'
  BY <1>3, <1>6, SameTold
<1> QED
  BY <1>3, <1>4, <1>5, <1>6 DEF VInv

LEMMA TakingTold ==
    ASSUME IInv, VInv, NEW p \in Session, NEW r \in Run,
           BeginApply(p, r) \/ BeginRecover(p, r)
    PROVE  VInv'
<1>1. PICK position \in {"loaded", "recover"} :
         \E execution : Take(p, r, position, execution)
  BY DEF BeginApply, BeginRecover
<1>2. UNCHANGED <<plan, journal, landed, done, warned, pending, logged, sent>>
  BY DEF BeginApply, BeginRecover, recordVars, historyVars
<1>3. /\ DomainInv /\ ToldDomains /\ ProcessInv(p) /\ ClientInv(p)
      /\ conn[p] = "closed" /\ runLock[r] = None /\ pc[p] = "idle"
      /\ sent[p] = None /\ pending[p] = {} /\ done[p] = {}
      /\ plan[r] \subseteq Step
  BY <1>1, PlansOfSteps
     DEF Take, IInv, VInv, ProcessInv, HoldInv, ClientInv, DoneInv
<1>4. PICK s \in plan[r] : IsFirst(s, plan[r]) /\ at' = [at EXCEPT ![p] = s]
  BY <1>1 DEF Take
<1>5. /\ pc'[p] = position /\ at'[p] = s /\ run'[p] = r /\ verdict'[r] = None
      /\ \A q \in Session \ {p} : SameProcess(q)
      /\ \A q \in Run \ {r} : SameRun(q)
      /\ ToldDomains'
  BY <1>1, <1>2, <1>3, <1>4
     DEF Take, DomainInv, ToldDomains, SameProcess, Same, SameRun
<1>6. ASSUME NEW q \in Session, q # p PROVE ClientInv(q)'
  <2>1. ProcessInv(q) /\ ClientInv(q) /\ SameProcess(q)
    BY <1>5, <1>6 DEF IInv, VInv
  <2>2. conn[q] # "closed" => run[q] \in Run \ {r}
    BY <1>3, <2>1, SessionAssumption DEF ProcessInv, HoldInv
  <2> QED
    BY <1>5, <2>1, <2>2, SameClient
<1>7. ClientInv(p)'
  <2>1. \A t \in plan[r] : s <= t /\ t \in Nat /\ s \in Nat
    BY <1>3, <1>4, Numbers DEF IsFirst
  <2>2. \A t \in plan[r] : ~(t < s) /\ ~(SegmentOf[t] < SegmentOf[s])
    <3>1. \A t \in plan[r] : /\ SegmentOf[s] <= SegmentOf[t]
                             /\ SegmentOf[s] \in Nat /\ SegmentOf[t] \in Nat
      BY <1>3, <1>4, <2>1, Numbers
    <3> QED
      BY <2>1, <3>1
  <2>3. Lower(p)' = {} /\ {t \in plan'[run'[p]] : t < at'[p]} = {}
    BY <1>2, <1>5, <2>2 DEF Lower
  <2>4. DoneInv(p)'
    BY <1>2, <1>3, <1>5, <2>3 DEF DoneInv, Busy
  <2>5. CompletionInv(p)'
    BY <1>2, <1>3 DEF CompletionInv
  <2>6. HolderInv(p)'
    BY <1>5 DEF HolderInv, None
  <2> QED
    BY <2>4, <2>5, <2>6 DEF ClientInv
<1>8. LandedInv(r)' /\ ToldInv(r)'
  <2>1. LandedInv(r)'
    BY <1>2 DEF VInv, LandedInv, CompletionIn
  <2>2. ToldInv(r)'
    BY <1>5 DEF ToldInv, Truthful, None
  <2> QED
    BY <2>1, <2>2
<1>9. ASSUME NEW q \in Run \ {r} PROVE LandedInv(q)' /\ ToldInv(q)'
  BY <1>5, <1>9, SameTold DEF VInv
<1> QED
  BY <1>5, <1>6, <1>7, <1>8, <1>9 DEF VInv

(* The invariant does not depend on the catalogue.                         *)
LEMMA NothingTold ==
    ASSUME IInv, VInv,
           UNCHANGED <<plan, journal, landed, verdict, pc, run, exec, at,
                       done, warned, pending, logged, conn, sent>>
    PROVE  VInv'
<1>1. ToldDomains'
  BY DEF VInv, ToldDomains
<1>2. ASSUME NEW q \in Session PROVE ClientInv(q)'
  BY SameClient DEF IInv, VInv, SameProcess, Same, SameRun
<1>3. ASSUME NEW r \in Run PROVE LandedInv(r)' /\ ToldInv(r)'
  BY SameTold DEF VInv, SameRun
<1> QED
  BY <1>1, <1>2, <1>3 DEF VInv

-----------------------------------------------------------------------------
(* Recovery.                                                               *)

(* Recovery reads in the journal which transactional steps have landed.    *)
LEMMA RecoveryReads ==
    ASSUME IInv, VInv, NEW p \in Session, pc[p] = "recover"
    PROVE  /\ done[p] \ AutoCommit \subseteq landed[run[p]]
           /\ done[p] = {s \in plan[run[p]] : s < at[p]}
           /\ \A s \in done[p] : CompletedIn(journal[run[p]], s)
           /\ at[p] \in plan[run[p]] /\ run[p] \in Run
           /\ plan[run[p]] \subseteq Step
           /\ RunInv(run[p]) /\ LandedInv(run[p])
<1>1. /\ run[p] \in Run /\ plan[run[p]] \subseteq Step
      /\ at[p] \in plan[run[p]]
  BY Before
<1>2. RunInv(run[p]) /\ LandedInv(run[p]) /\ ClientInv(p)
  BY <1>1 DEF IInv, VInv
<1>3. /\ done[p] = {s \in plan[run[p]] : s < at[p]}
      /\ \A s \in done[p] : CompletedIn(journal[run[p]], s)
  BY <1>2 DEF ClientInv, DoneInv
<1>4. done[p] \ AutoCommit \subseteq landed[run[p]]
  BY <1>2, <1>3 DEF RunInv, CompletedIn
<1> QED
  BY <1>1, <1>2, <1>3, <1>4

LEMMA AnswerIsTruthful ==
    ASSUME IInv, VInv, NEW p \in Session, pc[p] = "recover"
    PROVE  Truthful(run[p], Answer(p), journal[run[p]])
<1>1. /\ done[p] \ AutoCommit \subseteq landed[run[p]]
      /\ done[p] = {s \in plan[run[p]] : s < at[p]}
      /\ at[p] \in plan[run[p]] /\ plan[run[p]] \subseteq Step
      /\ RunInv(run[p]) /\ LandedInv(run[p])
  BY RecoveryReads
<1>2. Answer(p) # "completed"
  BY DEF Answer, Stopped
<1>3. SUFFICES ASSUME TransactionalRun(run[p])
               PROVE  Truthful(run[p], Answer(p), journal[run[p]])
  BY <1>2 DEF Truthful
<1>4. at[p] \notin AutoCommit /\ done[p] \subseteq landed[run[p]]
  BY <1>1, <1>3 DEF TransactionalRun
<1>5. ASSUME at[p] \notin landed[run[p]]
      PROVE  /\ Truthful(run[p], Stopped(p), journal[run[p]])
             /\ Truthful(run[p], "resume-required", journal[run[p]])
  <2>1. landed[run[p]] = done[p]
    <3>1. ASSUME NEW s \in landed[run[p]] PROVE s < at[p]
      <4>1. s \in Nat /\ at[p] \in Nat /\ s \in plan[run[p]]
        BY <1>1, Numbers DEF LandedInv
      <4>2. at[p] <= s => SegmentOf[at[p]] <= SegmentOf[s]
        BY <1>1, <4>1, Numbers
      <4>3. ~(at[p] <= s)
        BY <1>1, <1>5, <4>2 DEF LandedInv
      <4> QED
        BY <4>1, <4>3
    <3> QED
      BY <1>1, <1>4, <3>1 DEF LandedInv
  <2>2. landed[run[p]] # plan[run[p]]
    BY <1>1, <1>5
  <2> QED
    BY <2>1, <2>2 DEF Truthful, Stopped
<1>6. CASE EventsAt(p) = {}
  <2>1. at[p] \notin landed[run[p]]
    BY <1>1, <1>6 DEF RunInv, EventsAt
  <2>2. Answer(p) = "resume-required"
    BY <1>6 DEF Answer
  <2> QED
    BY <1>5, <2>1, <2>2
<1>7. CASE EventsAt(p) # {} /\ ObservedAs(p, "not-applied")
  <2>1. at[p] \notin landed[run[p]]
    BY <1>1, <1>4, <1>7 DEF RunInv, EventsAt, ObservedAs
  <2>2. Answer(p) = Stopped(p)
    BY <1>7 DEF Answer
  <2> QED
    BY <1>5, <2>1, <2>2
<1>8. ~ObservedAs(p, "partially-applied")
  BY <1>1, <1>4 DEF LandedInv, EventsAt, ObservedAs
<1>9. CASE /\ EventsAt(p) # {} /\ ~ObservedAs(p, "not-applied")
           /\ ObservedAs(p, "unknown")
  BY <1>8, <1>9, UncertainIsTrue DEF Answer
<1>10. CASE /\ EventsAt(p) # {} /\ ~ObservedAs(p, "not-applied")
            /\ ~ObservedAs(p, "unknown")
  <2>1. PICK e \in journal[run[p]] : e.step = at[p]
    BY <1>10 DEF EventsAt
  <2>2. /\ e.kind = "observed" \/ e.outcome = None
        /\ e.outcome \in Outcome \cup {None}
    BY <1>1 DEF RunInv
  <2>3. CASE e.outcome = None
    <3>1. CompletionIn(journal[run[p]], at[p])
      BY <1>1, <1>4, <2>1, <2>3 DEF LandedInv
    <3> QED
      BY <3>1, <1>8, <1>10, UncertainIsTrue
         DEF Answer, KnownComplete, CompletionIn, EventsAt
  <2>4. CASE e.outcome # None
    <3>1. ObservedAs(p, e.outcome)
      BY <2>1, <2>2, <2>4 DEF ObservedAs, EventsAt
    <3>2. ObservedAs(p, "completed")
      BY <1>8, <1>10, <2>2, <2>4, <3>1 DEF Outcome
    <3> QED
      BY <3>2, <1>8, <1>10, UncertainIsTrue DEF Answer, KnownComplete
  <2> QED
    BY <2>3, <2>4
<1> QED
  BY <1>6, <1>7, <1>9, <1>10

LEMMA RecoveringTold ==
    ASSUME IInv, VInv, NEW p \in Session, RecoverStep(p)
    PROVE  VInv'
<1>1. pc[p] = "recover" /\ UNCHANGED <<plan, landed>>
  BY DEF RecoverStep
<1>2. /\ done[p] \ AutoCommit \subseteq landed[run[p]]
      /\ done[p] = {s \in plan[run[p]] : s < at[p]}
      /\ \A s \in done[p] : CompletedIn(journal[run[p]], s)
      /\ at[p] \in plan[run[p]] /\ plan[run[p]] \subseteq Step
      /\ RunInv(run[p]) /\ LandedInv(run[p])
  BY <1>1, RecoveryReads
<1>3. /\ DomainInv /\ ProcessInv(p) /\ conn[p] = "open" /\ run[p] \in Run
      /\ ToldDomains /\ ClientInv(p)
  BY <1>1, Before DEF VInv
<1>4. CASE Settle(p, Answer(p))
  BY <1>1, <1>3, <1>4, AnswerIsTruthful, LeavingQuietlyTold DEF Settle
<1>5. CASE ShowsComplete(p)
  <2> DEFINE E == IF ObservedAs(p, "completed") THEN {}
                  ELSE {EventOf(p, "observed", "completed")}
  <2>1. WriteJournal(p, E)
    BY <1>5, RecoverStep(p) DEF RecoverStep
  <2>2. Adds(p, E)
    BY <1>3, <2>1 DEF WriteJournal, Adds, DomainInv
  <2>3. \A e \in E : e.outcome = "completed"
    BY DEF EventOf
  <2>4. CompletedIn(journal[run[p]] \cup E, at[p])
    <3>1. CASE ObservedAs(p, "completed")
      BY <3>1 DEF CompletedIn, ObservedAs, EventsAt
    <3>2. CASE ~ObservedAs(p, "completed")
      <4>1. EventOf(p, "observed", "completed") \in E
        BY <3>2
      <4> QED
        BY <4>1 DEF CompletedIn, EventOf
    <3> QED
      BY <3>1, <3>2
  <2>5. at[p] \notin AutoCommit => at[p] \in landed[run[p]]
    <3>1. PICK e \in journal[run[p]] : e.step = at[p]
      BY <1>5 DEF ShowsComplete, EventsAt
    <3>2. e.outcome \in {None, "completed"}
      BY <1>2, <1>5, <3>1
         DEF RunInv, ShowsComplete, ObservedAs, EventsAt, Outcome
    <3> QED
      BY <1>2, <3>1, <3>2 DEF RunInv
  <2> HIDE DEF E
  <2>6. journal'[run[p]] = journal[run[p]] \cup E
    BY <2>2 DEF Adds
  <2>7. CASE Leave(p, "completed") /\ Later(p) = {}
    <3>1. plan[run[p]] = done[p] \cup {at[p]}
      BY <1>2, <2>7, Numbers DEF Later
    <3>2. plan[run[p]] \ AutoCommit \subseteq landed[run[p]]
      BY <1>2, <2>5, <3>1
    <3>3. \A s \in plan[run[p]] : CompletedIn(journal[run[p]] \cup E, s)
      BY <1>2, <2>4, <3>1 DEF CompletedIn
    <3>4. Truthful(run[p], "completed", journal[run[p]] \cup E)
      BY <3>2, <3>3 DEF Truthful
    <3>5. \A e \in E : e.outcome # None /\ e.outcome # "partially-applied"
      BY <2>3 DEF None
    <3> QED
      BY <1>1, <1>3, <2>2, <2>7, <3>4, <3>5, LeavingTold
  <2>8. ASSUME NEW s \in Later(p), IsFirst(s, Later(p)),
               at' = [at EXCEPT ![p] = s],
               done' = [done EXCEPT ![p] = @ \cup {at[p]}],
               UNCHANGED <<verdict, pc, run, exec, warned, pending, logged,
                           conn, sent>>
        PROVE  VInv'
    <3>1. /\ at'[p] = s /\ done'[p] = done[p] \cup {at[p]} /\ ToldDomains'
          /\ \A q \in Session \ {p} : SameProcess(q)
      BY <1>3, <2>8 DEF DomainInv, ToldDomains, SameProcess, Same
    <3>2. done'[p] = {t \in plan[run[p]] : t < s}
      BY <1>2, <2>8, <3>1, Numbers DEF Later, IsFirst
    <3>3. \A t \in done'[p] : CompletedIn(journal'[run[p]], t)
      BY <1>2, <2>4, <2>6, <3>1 DEF CompletedIn
    <3>4. DoneInv(p)'
      BY <1>1, <2>8, <3>1, <3>2, <3>3 DEF DoneInv, Busy, CompletedIn
    <3>5. CompletionInv(p)'
      BY <1>1, <1>3, <2>8 DEF ProcessInv, HoldInv, CompletionInv
    <3>6. HolderInv(p)'
      BY <1>3, <2>8 DEF ClientInv, HolderInv
    <3>7. \A e \in E : e.outcome \notin {None, "partially-applied"}
      BY <2>3 DEF None
    <3> QED
      BY <1>1, <1>3, <2>2, <2>8, <3>1, <3>4, <3>5, <3>6, <3>7, NotingTold
         DEF ClientInv
  <2> QED
    BY <1>5, <2>7, <2>8, RecoverStep(p) DEF RecoverStep, sessionVars, Settle
<1> QED
  BY <1>4, <1>5 DEF RecoverStep

-----------------------------------------------------------------------------
(* Every step keeps it.                                                    *)

LEMMA PreservingTold ==
    ASSUME IInv, VInv, [Next]_vars
    PROVE  VInv'
<1>1. ASSUME NEW p \in Session, ProcessStep(p)
      PROVE  VInv'
  BY <1>1, MovingTold, RefusingTold, FinishingTold, FailingTold,
     IntendingTold, ReceivingTold, CompletingTold, ReceivingCommitTold,
     RecordingTold, NextSegmentTold, RecoveringTold
     DEF ProcessStep, ApplyStep
<1>2. ASSUME NEW p \in Session, ServerStep(p)
      PROVE  VInv'
  BY <1>2, StatementEndingTold, CommitEndingTold, RefusingTold
     DEF ServerStep
<1>3. ASSUME NEW s \in Step, Drift(s)
      PROVE  VInv'
  BY <1>3, NothingTold DEF Drift, recordVars, processVars, sessionVars,
                           historyVars
<1>4. CASE UNCHANGED vars
  BY <1>4, NothingTold DEF vars, recordVars, processVars, sessionVars,
                           historyVars
<1> QED
  BY <1>1, <1>2, <1>3, <1>4, PlanningTold, TakingTold, LosingTold DEF Next

(* In every reachable state a process has counted as done what has landed  *)
(* or is written in the journal, what lands is a prefix of the plan by     *)
(* segments, and the operator has been told what is so.                    *)
THEOREM ToldInductiveInvariant == Spec => [](IInv /\ VInv)
<1>1. Init => IInv /\ VInv
  BY Initially, InitiallyTold
<1>2. IInv /\ VInv /\ [Next]_vars => (IInv /\ VInv)'
  BY Preserving, PreservingTold
<1> QED
  BY <1>1, <1>2, PTL DEF Spec

(* What `apply` and `recover` tell the operator is true, whichever process *)
(* says it, however it ends and whatever its backend does after it:        *)
(* planned, partially applied, resume required and completed (applier.ts,  *)
(* resume.ts).                                                             *)
THEOREM VerdictsAreTrue == Spec => []VerdictIsTrue
<1>1. IInv /\ VInv => VerdictIsTrue
  <2> SUFFICES ASSUME IInv, VInv, NEW r \in Run
               PROVE  /\ Truthful(r, verdict[r], journal[r])
                      /\ verdict[r] = "planned" =>
                            \A p \in Session : run[p] = r => sent[p] # "commit"
    BY DEF VerdictIsTrue, Truthful, CompletedIn
  <2>1. Truthful(r, verdict[r], journal[r])
    BY DEF VInv, ToldInv
  <2>2. ASSUME NEW p \in Session, run[p] = r, sent[p] = "commit"
        PROVE  verdict[r] # "planned"
    <3>1. conn[p] # "closed"
      BY <2>2 DEF IInv, ProcessInv, HoldInv, None
    <3> QED
      BY <2>2, <3>1 DEF VInv, ClientInv, HolderInv, None
  <2> QED
    BY <2>1, <2>2
<1> QED
  BY <1>1, ToldInductiveInvariant, PTL

-----------------------------------------------------------------------------
(* Types.                                                                  *)

CatalogueTypes ==
    /\ object \in [Step -> ObjectState]
    /\ objectLock \in [Step -> Session \cup {None}]

RecordTypes ==
    /\ plan \in [Run -> SUBSET Step]
    /\ journal \in [Run -> SUBSET Event]
    /\ authorized \subseteq Run
    /\ verdict \in [Run -> Verdict]
    /\ runLock \in [Run -> Session \cup {None}]
    /\ landed \in [Run -> SUBSET Step]
    /\ settled \subseteq Run

ProcessTypes ==
    /\ pc \in [Session -> Position]
    /\ run \in [Session -> Run \cup {None}]
    /\ exec \in [Session -> 0..MaxAttempt]
    /\ at \in [Session -> Step \cup {0}]
    /\ done \in [Session -> SUBSET Step]
    /\ warned \in [Session -> BOOLEAN]

SessionTypes ==
    /\ pending \in [Session -> SUBSET Step]
    /\ logged \in [Session -> SUBSET Event]
    /\ conn \in [Session -> {"closed", "open", "orphan"}]
    /\ sent \in [Session -> {None, "statement", "commit", "ok", "failed"}]

Counts ==
    attempts \in 0..MaxAttempt /\ faults \in 0..MaxFault
        /\ drifts \in 0..MaxDrift

(* A process that works has an execution of its own.                       *)
Executing(p) == conn[p] # "closed" => exec[p] \in 1..MaxAttempt

TInv ==
    /\ CatalogueTypes /\ RecordTypes /\ ProcessTypes /\ SessionTypes /\ Counts
    /\ \A p \in Session : Executing(p)

LEMMA TypesTogether == TInv => TypeOK
BY DEF TInv, TypeOK, CatalogueTypes, RecordTypes, ProcessTypes, SessionTypes,
       Counts

LEMMA InitialTypes == Init => TInv
<1> SUFFICES ASSUME Init PROVE TInv
  OBVIOUS
<1>1. CatalogueTypes
  BY DEF Init, CatalogueTypes, ObjectState
<1>2. RecordTypes
  BY DEF Init, RecordTypes, Verdict
<1>3. ProcessTypes
  BY BoundAssumption DEF Init, ProcessTypes, Position
<1>4. SessionTypes
  BY DEF Init, SessionTypes
<1>5. Counts
  BY BoundAssumption DEF Init, Counts
<1>6. \A p \in Session : Executing(p)
  BY DEF Init, Executing
<1> QED
  BY <1>1, <1>2, <1>3, <1>4, <1>5, <1>6 DEF TInv

LEMMA Occupied ==
    ASSUME IInv, TInv, NEW p \in Session, conn[p] # "closed"
    PROVE  /\ run[p] \in Run /\ at[p] \in Step /\ exec[p] \in 1..MaxAttempt
           /\ plan[run[p]] \subseteq Step
<1>1. run[p] \in Run /\ at[p] \in plan[run[p]]
  BY DEF IInv, ProcessInv, HoldInv
<1>2. plan[run[p]] \subseteq Step
  BY <1>1, PlansOfSteps DEF IInv
<1> QED
  BY <1>1, <1>2 DEF TInv, Executing

LEMMA EventTypes ==
    ASSUME IInv, TInv, NEW p \in Session, conn[p] # "closed",
           NEW kind \in {"intent", "completion", "observed"},
           NEW outcome \in Outcome \cup {None}
    PROVE  EventOf(p, kind, outcome) \in Event
BY Occupied DEF EventOf, Event

LEMMA LeavingTypes ==
    ASSUME IInv, TInv, NEW p \in Session, conn[p] # "closed",
           NEW told \in Verdict, Leave(p, told),
           UNCHANGED <<object, plan, authorized, attempts, drifts, landed>>,
           \/ UNCHANGED journal
           \/ \E E \in SUBSET Event : WriteJournal(p, E),
           faults' = faults \/ (faults < MaxFault /\ faults' = faults + 1),
           settled' = settled \/ settled' = settled \cup {run[p]}
    PROVE  TInv'
<1>1. run[p] \in Run
  BY Occupied
<1>2. CatalogueTypes'
  BY DEF TInv, CatalogueTypes, Leave, Unlocked
<1>3. RecordTypes'
  <2>1. journal' \in [Run -> SUBSET Event]
    BY <1>1 DEF TInv, RecordTypes, WriteJournal
  <2>2. verdict' \in [Run -> Verdict]
    BY <1>1 DEF TInv, RecordTypes, Leave
  <2>3. runLock' \in [Run -> Session \cup {None}]
    BY DEF TInv, RecordTypes, Leave, Unlocked
  <2>4. settled' \subseteq Run
    BY <1>1 DEF TInv, RecordTypes
  <2> QED
    BY <2>1, <2>2, <2>3, <2>4 DEF TInv, RecordTypes
<1>4. ProcessTypes'
  <2>1. "idle" \in Position /\ 0 \in 0..MaxAttempt
    BY BoundAssumption DEF Position
  <2> QED
    BY <2>1 DEF TInv, ProcessTypes, Leave
<1>5. SessionTypes'
  BY DEF TInv, SessionTypes, Leave
<1>6. Counts'
  BY BoundAssumption DEF TInv, Counts
<1>7. \A q \in Session : Executing(q)'
  BY DEF TInv, Executing, ProcessTypes, SessionTypes, Leave
<1> QED
  BY <1>2, <1>3, <1>4, <1>5, <1>6, <1>7 DEF TInv

LEMMA StoppingTypes ==
    ASSUME IInv, TInv, NEW p \in Session, conn[p] # "closed",
           NEW outcome \in Outcome, NEW told \in Verdict,
           StopWith(p, outcome, told),
           UNCHANGED <<object, plan, authorized, attempts, drifts,
                       landed, settled>>
    PROVE  TInv'
<1>1. Leave(p, told)
  BY DEF StopWith
<1>2. {EventOf(p, "observed", outcome)} \in SUBSET Event
  BY EventTypes
<1>3. UNCHANGED journal \/ \E E \in SUBSET Event : WriteJournal(p, E)
  BY <1>2 DEF StopWith
<1>4. faults' = faults \/ (faults < MaxFault /\ faults' = faults + 1)
  BY DEF StopWith
<1> QED
  BY <1>1, <1>3, <1>4, LeavingTypes

LEMMA EndingTypes ==
    ASSUME IInv, TInv, NEW p \in Session,
           \/ Refuse(p) \/ RefuseStep(p) \/ Unreadable(p) \/ GuardFails(p)
           \/ ClaimRefused(p) \/ VerifyFails(p) \/ CompleteFails(p)
           \/ Finish(p) \/ RecoverFails(p) \/ BackendEnds(p)
    PROVE  TInv'
<1>1. conn[p] # "closed"
  BY DEF IInv, ProcessInv, HoldInv, Refuse, RefuseStep, Unreadable,
         GuardFails, ClaimRefused, VerifyFails, CompleteFails, Finish,
         RecoverFails, BackendEnds
<1>2. /\ Stopped(p) \in Verdict /\ "planned" \in Verdict /\ None \in Verdict
      /\ "outcome-unknown" \in Verdict /\ "completed" \in Verdict
      /\ "partially-applied" \in Verdict
  BY DEF Stopped, Verdict
<1>3. /\ "unknown" \in Outcome /\ "not-applied" \in Outcome
      /\ "partially-applied" \in Outcome
  BY DEF Outcome
<1>4. UNCHANGED <<object, plan, authorized, attempts, drifts, landed, settled>>
  BY DEF Refuse, RefuseStep, Unreadable, GuardFails, ClaimRefused,
         VerifyFails, CompleteFails, Finish, RecoverFails, BackendEnds,
         recordVars, historyVars
<1>5. CASE Refuse(p) \/ RefuseStep(p) \/ Finish(p) \/ RecoverFails(p)
              \/ BackendEnds(p)
  <2>1. UNCHANGED journal
    BY <1>5 DEF Refuse, RefuseStep, Finish, RecoverFails, BackendEnds,
                recordVars
  <2>2. faults' = faults \/ (faults < MaxFault /\ faults' = faults + 1)
    BY <1>5 DEF Refuse, RefuseStep, Finish, RecoverFails, BackendEnds
  <2>3. verdict[run[p]] \in Verdict
    BY <1>1, Occupied DEF TInv, RecordTypes
  <2>4. \E told \in Verdict : Leave(p, told)
    BY <1>2, <1>5, <2>3
       DEF Refuse, RefuseStep, Finish, RecoverFails, BackendEnds
  <2> QED
    BY <1>1, <1>4, <2>1, <2>2, <2>4, LeavingTypes
<1>6. CASE Unreadable(p) \/ GuardFails(p) \/ ClaimRefused(p) \/ VerifyFails(p)
  <2>1. \E outcome \in Outcome, told \in Verdict : StopWith(p, outcome, told)
    BY <1>2, <1>3, <1>6
       DEF Unreadable, GuardFails, ClaimRefused, VerifyFails
  <2> QED
    BY <1>1, <1>4, <2>1, StoppingTypes
<1>7. CASE CompleteFails(p)
  <2>1. {EventOf(p, "observed", "not-applied")} \in SUBSET Event
    BY <1>1, <1>3, EventTypes
  <2>2. UNCHANGED journal \/ \E E \in SUBSET Event : WriteJournal(p, E)
    BY <1>7, <2>1 DEF CompleteFails
  <2> QED
    BY <1>1, <1>2, <1>4, <1>7, <2>2, LeavingTypes DEF CompleteFails
<1> QED
  BY <1>5, <1>6, <1>7

(* A process that goes on: what it does not name stays as it is.           *)
LEMMA GoingOnTypes ==
    ASSUME IInv, TInv, NEW p \in Session, conn[p] # "closed",
           UNCHANGED <<plan, verdict, runLock, run, exec, conn,
                       attempts, drifts, settled>>,
           authorized' \subseteq Run,
           CatalogueTypes', journal' \in [Run -> SUBSET Event],
           landed' \in [Run -> SUBSET Step],
           pc' \in [Session -> Position], at' \in [Session -> Step \cup {0}],
           done' \in [Session -> SUBSET Step],
           warned' \in [Session -> BOOLEAN],
           SessionTypes',
           faults' = faults \/ (faults < MaxFault /\ faults' = faults + 1)
    PROVE  TInv'
<1>1. RecordTypes'
  BY DEF TInv, RecordTypes
<1>2. ProcessTypes'
  BY DEF TInv, ProcessTypes
<1>3. Counts'
  BY BoundAssumption DEF TInv, Counts
<1>4. \A q \in Session : Executing(q)'
  BY DEF TInv, Executing
<1> QED
  BY <1>1, <1>2, <1>3, <1>4 DEF TInv

LEMMA MovingTypes ==
    ASSUME IInv, TInv, NEW p \in Session,
           \/ Authorize(p) \/ LockStep(p) \/ Send(p) \/ Verify(p) \/ Commit(p)
    PROVE  TInv'
<1>1. /\ pc[p] # "idle"
      /\ \E place \in Position : pc' = [pc EXCEPT ![p] = place]
      /\ UNCHANGED <<plan, journal, landed, verdict, runLock, run, exec, at,
                     done, warned, pending, logged, conn, object, attempts,
                     drifts, settled, faults>>
      /\ \/ UNCHANGED sent
         \/ sent' = [sent EXCEPT ![p] = "statement"]
         \/ sent' = [sent EXCEPT ![p] = "commit"]
      /\ \/ UNCHANGED objectLock
         \/ objectLock' = [objectLock EXCEPT ![at[p]] = p]
      /\ authorized' = authorized \/ authorized' = authorized \cup {run[p]}
  BY DEF Authorize, LockStep, Send, Verify, Commit, Move, Position,
         catalogueVars, recordVars, sessionVars, historyVars
<1>2. conn[p] # "closed" /\ run[p] \in Run /\ at[p] \in Step
  BY <1>1, Before, Occupied
<1>3. pc' \in [Session -> Position]
  BY <1>1 DEF TInv, ProcessTypes
<1>4. CatalogueTypes'
  BY <1>1, <1>2 DEF TInv, CatalogueTypes
<1>5. SessionTypes'
  BY <1>1 DEF TInv, SessionTypes
<1>6. authorized' \subseteq Run
  BY <1>1, <1>2 DEF TInv, RecordTypes
<1> QED
  BY <1>1, <1>2, <1>3, <1>4, <1>5, <1>6, GoingOnTypes
     DEF TInv, RecordTypes, ProcessTypes

LEMMA NotingTypes ==
    ASSUME IInv, TInv, NEW p \in Session, Intend(p) \/ Complete(p)
    PROVE  TInv'
<1>1. /\ pc[p] # "idle"
      /\ UNCHANGED <<plan, authorized, landed, verdict, runLock, run, exec,
                     done, warned, pending, conn, sent, object, objectLock,
                     attempts, drifts, settled, faults>>
      /\ \/ Move(p, "locked", "intent") /\ UNCHANGED at
         \/ EndStep(p)
  BY DEF Intend, Complete, Move, catalogueVars, historyVars
<1>2. PICK kind \in {"intent", "completion"} :
         \/ /\ logged' = [logged EXCEPT ![p] = @ \cup {EventOf(p, kind, None)}]
            /\ UNCHANGED journal
         \/ /\ WriteJournal(p, {EventOf(p, kind, None)})
            /\ UNCHANGED logged
  BY DEF Intend, Complete
<1>3. conn[p] # "closed" /\ run[p] \in Run /\ plan[run[p]] \subseteq Step
  BY <1>1, Before
<1>4. EventOf(p, kind, None) \in Event
  BY <1>3, EventTypes
<1>5. pc' \in [Session -> Position]
  BY <1>1 DEF TInv, ProcessTypes, Move, EndStep, Position
<1>6. at' \in [Session -> Step \cup {0}]
  <2>1. RestOfSegment(p) \subseteq Step
    BY <1>3 DEF RestOfSegment, Later
  <2> QED
    BY <1>1, <2>1 DEF TInv, ProcessTypes, EndStep
<1>7. journal' \in [Run -> SUBSET Event]
  BY <1>2, <1>3, <1>4 DEF TInv, RecordTypes, WriteJournal
<1>8. SessionTypes'
  BY <1>1, <1>2, <1>4 DEF TInv, SessionTypes
<1>9. CatalogueTypes'
  BY <1>1 DEF TInv, CatalogueTypes
<1> QED
  BY <1>1, <1>3, <1>5, <1>6, <1>7, <1>8, <1>9, GoingOnTypes
     DEF TInv, RecordTypes, ProcessTypes

LEMMA ReceivingTypes ==
    ASSUME IInv, TInv, NEW p \in Session, Receive(p) \/ ReceiveCommit(p)
    PROVE  TInv'
<1>1. /\ pc[p] # "idle"
      /\ UNCHANGED <<object, plan, authorized, attempts, drifts, landed,
                     settled>>
  BY DEF Receive, ReceiveCommit, recordVars, historyVars
<1>2. conn[p] # "closed"
  BY <1>1, Before
<1>3. CASE /\ \E place \in Position : pc' = [pc EXCEPT ![p] = place]
           /\ sent' = [sent EXCEPT ![p] = None]
           /\ UNCHANGED <<objectLock, journal, verdict, runLock, run, exec,
                          at, done, warned, pending, logged, conn, faults>>
  <2>1. pc' \in [Session -> Position]
    BY <1>3 DEF TInv, ProcessTypes
  <2>2. SessionTypes' /\ CatalogueTypes'
    BY <1>1, <1>3 DEF TInv, SessionTypes, CatalogueTypes
  <2> QED
    BY <1>1, <1>2, <1>3, <2>1, <2>2, GoingOnTypes
       DEF TInv, RecordTypes, ProcessTypes
<1>4. CASE StopWith(p, "not-applied", Stopped(p))
  <2>1. "not-applied" \in Outcome /\ Stopped(p) \in Verdict
    BY DEF Outcome, Stopped, Verdict
  <2> QED
    BY <1>1, <1>2, <1>4, <2>1, StoppingTypes
<1>5. CASE Leave(p, "outcome-unknown") /\ UNCHANGED <<journal, faults>>
  <2>1. "outcome-unknown" \in Verdict
    BY DEF Verdict
  <2> QED
    BY <1>1, <1>2, <1>5, <2>1, LeavingTypes
<1>6. CASE Receive(p)
  BY <1>3, <1>4, <1>5, <1>6 DEF Receive, Move, Position
<1>7. CASE ReceiveCommit(p)
  BY <1>3, <1>5, <1>7 DEF ReceiveCommit, recordVars, Position
<1> QED
  BY <1>6, <1>7

LEMMA RecordingTypes ==
    ASSUME IInv, TInv, NEW p \in Session, RecordStep(p) \/ NextSegment(p)
    PROVE  TInv'
<1>1. /\ pc[p] # "idle"
      /\ UNCHANGED <<object, objectLock, plan, authorized, verdict, runLock,
                     run, exec, pending, logged, conn, sent, attempts, drifts,
                     landed, settled>>
  BY DEF RecordStep, NextSegment, Move, catalogueVars, recordVars,
         sessionVars, historyVars
<1>2. /\ conn[p] # "closed" /\ run[p] \in Run /\ plan[run[p]] \subseteq Step
  BY <1>1, Before
<1>3. CatalogueTypes' /\ SessionTypes'
  BY <1>1 DEF TInv, CatalogueTypes, SessionTypes
<1>4. CASE RecordStep(p)
  <2>1. PICK s \in SegmentSteps(p) :
           /\ \/ /\ WriteJournal(p, {[EventOf(p, "observed", "completed")
                                       EXCEPT !.step = s]})
                 /\ UNCHANGED <<warned, faults>>
              \/ /\ faults < MaxFault
                 /\ faults' = faults + 1
                 /\ warned' = [warned EXCEPT ![p] = TRUE]
                 /\ UNCHANGED journal
           /\ done' = [done EXCEPT ![p] = @ \cup {s}]
    BY <1>4 DEF RecordStep
  <2>2. s \in Step
    BY <1>2 DEF SegmentSteps
  <2>3. [EventOf(p, "observed", "completed") EXCEPT !.step = s] \in Event
    <3>1. "completed" \in Outcome \cup {None}
      BY DEF Outcome
    <3>2. EventOf(p, "observed", "completed") \in Event
      BY <1>2, <3>1, EventTypes
    <3> QED
      BY <2>2, <3>2 DEF Event
  <2>4. journal' \in [Run -> SUBSET Event]
    <3> DEFINE event == [EventOf(p, "observed", "completed")
                            EXCEPT !.step = s]
    <3> HIDE DEF event
    <3> QED
      BY <1>2, <2>1, <2>3 DEF TInv, RecordTypes, WriteJournal, event
  <2>5. /\ done' \in [Session -> SUBSET Step]
        /\ warned' \in [Session -> BOOLEAN]
    BY <2>1, <2>2 DEF TInv, ProcessTypes
  <2>6. UNCHANGED <<pc, at>>
    BY <1>4 DEF RecordStep
  <2> QED
    BY <1>1, <1>2, <1>3, <2>1, <2>4, <2>5, <2>6, GoingOnTypes
       DEF TInv, RecordTypes, ProcessTypes
<1>5. CASE NextSegment(p)
  <2>1. /\ pc' = [pc EXCEPT ![p] = "step"] /\ "step" \in Position
        /\ \E s \in Step : at' = [at EXCEPT ![p] = s]
        /\ UNCHANGED <<journal, done, warned, faults>>
    BY <1>2, <1>5 DEF NextSegment, Move, Later, Position, recordVars
  <2>2. pc' \in [Session -> Position] /\ at' \in [Session -> Step \cup {0}]
    BY <2>1 DEF TInv, ProcessTypes
  <2> QED
    BY <1>1, <1>2, <1>3, <2>1, <2>2, GoingOnTypes
       DEF TInv, RecordTypes, ProcessTypes
<1> QED
  BY <1>4, <1>5

LEMMA RecoveringTypes ==
    ASSUME IInv, TInv, NEW p \in Session, RecoverStep(p)
    PROVE  TInv'
<1>1. /\ pc[p] = "recover" /\ pc[p] # "idle"
      /\ UNCHANGED <<object, plan, authorized, attempts, drifts, landed>>
  BY DEF RecoverStep
<1>2. /\ conn[p] # "closed" /\ run[p] \in Run /\ at[p] \in Step
      /\ plan[run[p]] \subseteq Step
  BY <1>1, Before, Occupied
<1>3. CASE Settle(p, Answer(p))
  <2>1. Answer(p) \in Verdict
    BY DEF Answer, Stopped, Verdict
  <2> QED
    BY <1>1, <1>2, <1>3, <2>1, LeavingTypes DEF Settle
<1>4. ASSUME NEW E, E = IF ObservedAs(p, "completed") THEN {}
                        ELSE {EventOf(p, "observed", "completed")},
             WriteJournal(p, E)
      PROVE  E \in SUBSET Event /\ journal' \in [Run -> SUBSET Event]
  <2>1. E \in SUBSET Event
    <3>1. EventOf(p, "observed", "completed") \in Event
      BY <1>2, EventTypes DEF Outcome
    <3> QED
      BY <1>4, <3>1
  <2> QED
    BY <1>2, <1>4, <2>1 DEF TInv, RecordTypes, WriteJournal
<1>5. CASE /\ \E E \in SUBSET Event : WriteJournal(p, E)
           /\ Leave(p, "completed") /\ UNCHANGED faults
           /\ settled' = settled \cup {run[p]}
  <2>1. "completed" \in Verdict
    BY DEF Verdict
  <2> QED
    BY <1>1, <1>2, <1>5, <2>1, LeavingTypes
<1>6. CASE /\ journal' \in [Run -> SUBSET Event]
           /\ \E s \in Later(p) : at' = [at EXCEPT ![p] = s]
           /\ done' = [done EXCEPT ![p] = @ \cup {at[p]}]
           /\ UNCHANGED <<objectLock, verdict, runLock, pc, run, exec,
                          warned, pending, logged, conn, sent, settled,
                          faults>>
  <2>1. at' \in [Session -> Step \cup {0}]
    BY <1>2, <1>6 DEF TInv, ProcessTypes, Later
  <2>2. done' \in [Session -> SUBSET Step]
    BY <1>2, <1>6 DEF TInv, ProcessTypes
  <2>3. CatalogueTypes' /\ SessionTypes'
    BY <1>1, <1>6 DEF TInv, CatalogueTypes, SessionTypes
  <2> QED
    BY <1>1, <1>2, <1>6, <2>1, <2>2, <2>3, GoingOnTypes
       DEF TInv, RecordTypes, ProcessTypes
<1> QED
  BY <1>3, <1>4, <1>5, <1>6 DEF RecoverStep, sessionVars

LEMMA ServerTypes ==
    ASSUME IInv, TInv, NEW p \in Session, StatementEnds(p) \/ CommitEnds(p)
    PROVE  TInv'
<1>1. /\ sent[p] \in {"statement", "commit"}
      /\ UNCHANGED <<plan, authorized, verdict, runLock, pc, run, exec, at,
                     done, warned, conn, attempts, faults, drifts, settled>>
  BY DEF StatementEnds, CommitEnds, recordVars, processVars
<1>2. conn[p] # "closed" /\ run[p] \in Run /\ at[p] \in Step
  <2>1. conn[p] # "closed"
    BY <1>1 DEF IInv, ProcessInv, HoldInv, None
  <2> QED
    BY <2>1, Occupied
<1>3. CASE StatementEnds(p)
  <2>1. landed' \in [Run -> SUBSET Step]
    BY <1>2, <1>3 DEF StatementEnds, TInv, RecordTypes
  <2>2. UNCHANGED <<journal, objectLock, logged>>
    BY <1>3 DEF StatementEnds, recordVars
  <2>3. object' \in [Step -> ObjectState]
    <3>1. \/ UNCHANGED object
          \/ \E state \in ObjectState :
                object' = [object EXCEPT ![at[p]] = state]
      BY <1>2, <1>3 DEF StatementEnds, TInv, CatalogueTypes, ObjectState
    <3> QED
      BY <3>1 DEF TInv, CatalogueTypes
  <2>4. SessionTypes'
    <3>1. \/ sent' = [sent EXCEPT ![p] = "ok"]
          \/ sent' = [sent EXCEPT ![p] = "failed"]
      BY <1>3 DEF StatementEnds
    <3>2. pending' = [pending EXCEPT ![p] = @ \cup {at[p]}]
             \/ UNCHANGED pending
      BY <1>3 DEF StatementEnds
    <3> QED
      BY <1>1, <1>2, <2>2, <3>1, <3>2 DEF TInv, SessionTypes
  <2>5. CatalogueTypes'
    BY <2>2, <2>3 DEF TInv, CatalogueTypes
  <2> QED
    BY <1>1, <1>2, <2>1, <2>2, <2>4, <2>5, GoingOnTypes
       DEF TInv, RecordTypes, ProcessTypes
<1>4. CASE CommitEnds(p)
  <2>1. /\ pending[p] \subseteq Step /\ logged[p] \subseteq Event
    BY DEF TInv, SessionTypes
  <2>2. landed' \in [Run -> SUBSET Step]
    BY <1>2, <1>4, <2>1 DEF CommitEnds, TInv, RecordTypes
  <2>3. journal' \in [Run -> SUBSET Event]
    BY <1>2, <1>4, <2>1 DEF CommitEnds, TInv, RecordTypes, WriteJournal
  <2>4. object' \in [Step -> ObjectState]
    BY <1>4 DEF CommitEnds, TInv, CatalogueTypes, ObjectState
  <2>5. objectLock' \in [Step -> Session \cup {None}]
    BY <1>4 DEF CommitEnds, TInv, CatalogueTypes, Unlocked
  <2>6. SessionTypes'
    BY <1>1, <1>4 DEF CommitEnds, TInv, SessionTypes
  <2>7. CatalogueTypes'
    BY <2>4, <2>5 DEF CatalogueTypes
  <2> QED
    BY <1>1, <1>2, <2>2, <2>3, <2>6, <2>7, GoingOnTypes
       DEF TInv, RecordTypes, ProcessTypes
<1> QED
  BY <1>3, <1>4

LEMMA LosingTypes ==
    ASSUME IInv, TInv, NEW p \in Session, LoseSession(p)
    PROVE  TInv'
<1>1. /\ conn[p] = "open" /\ conn' = [conn EXCEPT ![p] = "orphan"]
      /\ pc' = [pc EXCEPT ![p] = "idle"]
      /\ done' = [done EXCEPT ![p] = {}]
      /\ warned' = [warned EXCEPT ![p] = FALSE]
      /\ faults < MaxFault /\ faults' = faults + 1
      /\ \E told \in {None, LostVerdict(p)} :
            verdict' = [verdict EXCEPT ![run[p]] = told]
      /\ UNCHANGED <<object, objectLock, plan, journal, authorized, landed,
                     settled, runLock, run, exec, at, pending, logged, sent,
                     attempts, drifts>>
  BY DEF LoseSession, catalogueVars, recordVars, historyVars
<1>2. run[p] \in Run
  BY <1>1, Occupied
<1>3. {None, LostVerdict(p)} \subseteq Verdict
  BY DEF LostVerdict, Stopped, Verdict
<1>4. CatalogueTypes' /\ SessionTypes'
  BY <1>1 DEF TInv, CatalogueTypes, SessionTypes
<1>5. RecordTypes'
  BY <1>1, <1>2, <1>3 DEF TInv, RecordTypes
<1>6. ProcessTypes'
  BY <1>1 DEF TInv, ProcessTypes, Position
<1>7. Counts'
  BY <1>1, BoundAssumption DEF TInv, Counts
<1>8. \A q \in Session : Executing(q)'
  BY <1>1 DEF TInv, SessionTypes, Executing
<1> QED
  BY <1>4, <1>5, <1>6, <1>7, <1>8 DEF TInv

LEMMA TakingTypes ==
    ASSUME IInv, TInv, NEW p \in Session, NEW r \in Run,
           BeginApply(p, r) \/ BeginRecover(p, r)
    PROVE  TInv'
<1>1. PICK position \in {"loaded", "recover"} :
         \E execution \in 1..MaxAttempt : Take(p, r, position, execution)
  <2>1. CASE BeginApply(p, r)
    <3>1. attempts + 1 \in 1..MaxAttempt
      BY <2>1, BoundAssumption DEF BeginApply, TInv, Counts
    <3> QED
      BY <2>1, <3>1 DEF BeginApply
  <2>2. CASE BeginRecover(p, r)
    <3>1. \A e \in journal[r] : e.exec \in 1..MaxAttempt
      BY DEF TInv, RecordTypes, Event
    <3> QED
      BY <2>2, <3>1 DEF BeginRecover
  <2> QED
    BY <2>1, <2>2
<1>2. PICK execution \in 1..MaxAttempt : Take(p, r, position, execution)
  BY <1>1
<1>3. /\ UNCHANGED <<object, objectLock, plan, journal, authorized, done,
                     warned, pending, logged, sent, faults, drifts, landed,
                     settled>>
      /\ \/ UNCHANGED attempts
         \/ attempts < MaxAttempt /\ attempts' = attempts + 1
  BY DEF BeginApply, BeginRecover, catalogueVars, recordVars, historyVars
<1>4. plan[r] \subseteq Step /\ execution \in 0..MaxAttempt
  BY BoundAssumption DEF TInv, RecordTypes
<1>5. CatalogueTypes'
  BY <1>3 DEF TInv, CatalogueTypes
<1>6. RecordTypes'
  BY <1>2, <1>3 DEF Take, TInv, RecordTypes, Verdict
<1>7. ProcessTypes'
  <2>1. position \in Position
    BY DEF Position
  <2>2. pc' \in [Session -> Position]
    BY <1>2, <2>1 DEF Take, TInv, ProcessTypes
  <2>3. at' \in [Session -> Step \cup {0}]
    BY <1>2, <1>4 DEF Take, TInv, ProcessTypes
  <2>4. /\ run' \in [Session -> Run \cup {None}]
        /\ exec' \in [Session -> 0..MaxAttempt]
    BY <1>2, <1>4 DEF Take, TInv, ProcessTypes
  <2> QED
    BY <1>3, <2>2, <2>3, <2>4 DEF TInv, ProcessTypes
<1>8. SessionTypes'
  BY <1>2, <1>3 DEF Take, TInv, SessionTypes
<1>9. Counts'
  BY <1>3, BoundAssumption DEF TInv, Counts
<1>10. \A q \in Session : Executing(q)'
  BY <1>2 DEF Take, TInv, ProcessTypes, SessionTypes, Executing
<1> QED
  BY <1>5, <1>6, <1>7, <1>8, <1>9, <1>10 DEF TInv

LEMMA PlanningTypes ==
    ASSUME IInv, TInv, NEW r \in Run, PlanRun(r)
    PROVE  TInv'
<1>1. /\ \E P \in SUBSET Step : plan' = [plan EXCEPT ![r] = P]
      /\ UNCHANGED <<object, objectLock, journal, authorized, verdict,
                     runLock, landed, settled, pc, run, exec, at, done,
                     warned, pending, logged, conn, sent, attempts, faults,
                     drifts>>
  BY PlansAssumption DEF PlanRun, catalogueVars, processVars, sessionVars,
                         historyVars
<1>2. plan' \in [Run -> SUBSET Step]
  BY <1>1 DEF TInv, RecordTypes
<1> QED
  BY <1>1, <1>2 DEF TInv, CatalogueTypes, RecordTypes, ProcessTypes,
                    SessionTypes, Counts, Executing

LEMMA DriftingTypes ==
    ASSUME IInv, TInv, NEW s \in Step, Drift(s)
    PROVE  TInv'
<1>1. /\ \E state \in ObjectState : object' = [object EXCEPT ![s] = state]
      /\ drifts < MaxDrift /\ drifts' = drifts + 1
      /\ faults < MaxFault /\ faults' = faults + 1
      /\ UNCHANGED <<objectLock, plan, journal, authorized, verdict,
                     runLock, landed, settled, pc, run, exec, at, done,
                     warned, pending, logged, conn, sent, attempts>>
  BY DEF Drift, ObjectState, recordVars, processVars, sessionVars,
         historyVars
<1>2. CatalogueTypes'
  BY <1>1 DEF TInv, CatalogueTypes
<1>3. Counts'
  BY <1>1, BoundAssumption DEF TInv, Counts
<1> QED
  BY <1>1, <1>2, <1>3 DEF TInv, RecordTypes, ProcessTypes, SessionTypes,
                          Executing

LEMMA PreservingTypes ==
    ASSUME IInv, TInv, [Next]_vars
    PROVE  TInv'
<1>1. ASSUME NEW p \in Session, ProcessStep(p)
      PROVE  TInv'
  BY <1>1, MovingTypes, EndingTypes, NotingTypes, ReceivingTypes,
     RecordingTypes, RecoveringTypes
     DEF ProcessStep, ApplyStep
<1>2. ASSUME NEW p \in Session, ServerStep(p)
      PROVE  TInv'
  BY <1>2, ServerTypes, EndingTypes DEF ServerStep
<1>3. CASE UNCHANGED vars
  BY <1>3 DEF TInv, CatalogueTypes, RecordTypes, ProcessTypes, SessionTypes,
              Counts, Executing, vars, catalogueVars, recordVars,
              processVars, sessionVars, historyVars
<1> QED
  BY <1>1, <1>2, <1>3, PlanningTypes, TakingTypes, LosingTypes,
     DriftingTypes DEF Next

(* Every variable has its type: what an operator is told is one of the     *)
(* verdicts of applier.ts and resume.ts, and every event of the journal    *)
(* names a step, an outcome and an execution (journal.ts).                 *)
THEOREM DurableRunTypes == Spec => []TypeOK
<1>1. Init => IInv /\ TInv
  BY Initially, InitialTypes
<1>2. IInv /\ TInv /\ [Next]_vars => (IInv /\ TInv)'
  BY Preserving, PreservingTypes
<1>3. IInv /\ TInv => TypeOK
  BY TypesTogether
<1> QED
  BY <1>1, <1>2, <1>3, PTL DEF Spec
=============================================================================
