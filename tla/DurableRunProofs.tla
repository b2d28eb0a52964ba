-------------------------- MODULE DurableRunProofs --------------------------
(***************************************************************************)
(* Proofs about DurableRun, for any number of processes, runs and steps,   *)
(* any plans and any faults: that a run is one execution, that the journal *)
(* tells the truth, that effects start from the proven state and that      *)
(* every run keeps its promise.  One inductive invariant says what a       *)
(* process and the session it works on have read, locked, sent and         *)
(* recorded at each place.                                                 *)
(***************************************************************************)
EXTENDS DurableRun, TLAPS

(* The places of a process that applies and has not sent its COMMIT.       *)
Busy == {"step", "locked", "intent", "running", "verify", "complete"}
Ending == {"commit", "committing", "record"}

(* A process that applies, or a statement or COMMIT one has left behind.   *)
Working(p) == pc[p] \notin {"idle", "recover"} \/ Inflight(p)

(* It has nothing of its segment in the catalogue yet.                     *)
Unlanded(p) ==
    \/ pc[p] \in {"loaded", "step", "locked", "intent"}
    \/ Transactional(p) /\ (pc[p] \in Busy \cup {"commit"} \/ Inflight(p))
    \/ sent[p] = "statement"

(* The intent of the current step is where the server will commit it, or   *)
(* has been committed.                                                     *)
Announced(p) ==
    \E e \in (IF Transactional(p) THEN logged[p] ELSE journal[run[p]]) :
        e.step = at[p] /\ e.kind = "intent"

(* The domains of the functions of the state, as far as they matter.       *)
DomainInv ==
    /\ DOMAIN pc = Session /\ DOMAIN run = Session /\ DOMAIN exec = Session
    /\ DOMAIN at = Session /\ DOMAIN conn = Session /\ DOMAIN sent = Session
    /\ DOMAIN pending = Session /\ DOMAIN logged = Session
    /\ DOMAIN runLock = Run /\ DOMAIN journal = Run /\ DOMAIN landed = Run
    /\ plan \in [Run -> Plans \cup {{}}]
    /\ DOMAIN object = Step /\ DOMAIN objectLock = Step

(* What the journal of a run says.                                         *)
RunInv(r) ==
    /\ \A e, f \in journal[r] : e.exec = f.exec
    /\ \A e \in journal[r] :
          /\ e.kind = "observed" \/ e.outcome = None
          /\ e.outcome \in Outcome \cup {None}
          /\ e.step \notin AutoCommit =>
                /\ e.outcome \in {None, "completed"} => e.step \in landed[r]
                /\ e.outcome \in {"not-applied", "unknown"}
                       => e.step \notin landed[r]
    /\ \A s \in landed[r] :
          s \in Step /\ \E e \in journal[r] : e.step = s /\ e.kind = "intent"
    /\ r \in settled => journal[r] # {}

(* A process, or the session it left, holds the lock of its run, and all   *)
(* that is written of the run is of its execution.                         *)
HoldInv(p) ==
    /\ pc[p] # "idle" <=> conn[p] = "open"
    /\ conn[p] = "closed" =>
          sent[p] = None /\ pending[p] = {} /\ logged[p] = {}
    /\ conn[p] # "closed" =>
          /\ run[p] \in Run /\ runLock[run[p]] = p
          /\ at[p] \in plan[run[p]]
          /\ \A e \in journal[run[p]] \cup logged[p] : e.exec = exec[p]
    /\ pc[p] = "recover" => /\ journal[run[p]] # {} /\ sent[p] = None
                            /\ pending[p] = {} /\ logged[p] = {}

(* What the session was sent.                                              *)
SentInv(p) ==
    /\ sent[p] = "statement" => pc[p] \in {"running", "idle"}
    /\ sent[p] = "commit" => /\ pc[p] \in {"committing", "idle"}
                             /\ Transactional(p)
                             /\ SegmentSteps(p) \subseteq pending[p]

(* As long as a run is worked on, it is unfinished business: neither       *)
(* classified nor stopped, and what precedes the segment is complete.      *)
WorkInv(p) ==
    /\ Working(p) =>
          /\ run[p] \notin settled
          /\ \A e \in journal[run[p]] : e.outcome \in {None, "completed"}
          /\ \A s \in plan[run[p]] :
                SegmentOf[s] < SegmentOf[at[p]] => s \in landed[run[p]]
          /\ \A s \in landed[run[p]] : SegmentOf[s] <= SegmentOf[at[p]]
    /\ Unlanded(p) =>
          \A s \in landed[run[p]] : SegmentOf[s] # SegmentOf[at[p]]

(* What is in the open transaction of the session.                         *)
PendInv(p) ==
    /\ \A s \in pending[p] :
          /\ s \in plan[run[p]] \ AutoCommit /\ SegmentOf[s] = SegmentOf[at[p]]
          /\ objectLock[s] = p /\ object[s] = "before"
          /\ \E e \in logged[p] : e.step = s /\ e.kind = "intent"
    /\ \A e \in logged[p] :
          /\ e.step \in plan[run[p]] \ AutoCommit
          /\ SegmentOf[e.step] = SegmentOf[at[p]]
          /\ e.outcome = None

(* How far the process is in its segment.                                  *)
InSegment(p) ==
    /\ pc[p] \in Busy =>
          \A t \in SegmentSteps(p) : t < at[p] => t \in pending[p]
    /\ pc[p] \in Ending => RestOfSegment(p) = {}
    /\ pc[p] = "commit" =>
          Transactional(p) /\ SegmentSteps(p) \subseteq pending[p]
    /\ (pc[p] = "record" \/ (pc[p] = "committing" /\ sent[p] = "ok")) =>
          /\ \A s \in SegmentSteps(p) \ AutoCommit : s \in landed[run[p]]
          /\ pending[p] = {} /\ logged[p] = {}
    /\ pc[p] = "loaded" =>
          /\ IsFirst(at[p], plan[run[p]])
          /\ pending[p] = {} /\ logged[p] = {}

(* How far it is in its step.                                              *)
InStep(p) ==
    /\ pc[p] \in {"locked", "intent", "running"} /\ Transactional(p) =>
          objectLock[at[p]] = p
    /\ (pc[p] = "intent" \/ sent[p] = "statement") =>
          /\ Announced(p)
          /\ Transactional(p) =>
                objectLock[at[p]] = p /\ object[at[p]] = "before"
    /\ (pc[p] \in {"verify", "complete"}
            \/ (pc[p] = "running" /\ sent[p] = "ok")) =>
          (Transactional(p) => at[p] \in pending[p])

ProcessInv(p) ==
    /\ HoldInv(p) /\ SentInv(p) /\ WorkInv(p) /\ PendInv(p)
    /\ InSegment(p) /\ InStep(p)

IInv ==
    /\ DomainInv
    /\ \A r \in Run : RunInv(r)
    /\ \A p \in Session : ProcessInv(p)

-----------------------------------------------------------------------------
(* What the steps of one session do to the others.                         *)

Same(q) ==
    /\ pc'[q] = pc[q] /\ run'[q] = run[q] /\ exec'[q] = exec[q]
    /\ at'[q] = at[q] /\ conn'[q] = conn[q] /\ sent'[q] = sent[q]
    /\ pending'[q] = pending[q] /\ logged'[q] = logged[q]

(* The session p leaves other sessions, other runs and the locks of others *)
(* alone.                                                                  *)
Alone(p) ==
    /\ \A q \in Session \ {p} : Same(q)
    /\ plan' = plan
    /\ \A r \in Run \ {run[p]} :
          /\ journal'[r] = journal[r] /\ landed'[r] = landed[r]
          /\ runLock[r] = p \/ runLock'[r] = runLock[r]
          /\ r \in settled' <=> r \in settled
    /\ \A s \in Step \ AutoCommit :
          \/ objectLock[s] \in {p, None}
          \/ objectLock'[s] = objectLock[s] /\ object'[s] = object[s]

(* Events that may be added to the journal of the run of p.                *)
Fits(p, E) ==
    \A e \in E :
        /\ e.exec = exec[p]
        /\ e.kind = "observed" \/ e.outcome = None
        /\ e.outcome \in Outcome \cup {None}
        /\ e.step \notin AutoCommit =>
              /\ e.outcome \in {None, "completed"}
                     => e.step \in landed[run[p]]
              /\ e.outcome \in {"not-applied", "unknown"}
                     => e.step \notin landed[run[p]]

Adds(p, E) ==
    /\ DOMAIN journal' = Run
    /\ journal'[run[p]] = journal[run[p]] \cup E
    /\ \A r \in Run \ {run[p]} : journal'[r] = journal[r]

LEMMA PlansOfSteps ==
    ASSUME DomainInv, NEW r \in Run
    PROVE  /\ plan[r] \subseteq Step
           /\ \A s \in plan[r] \cap AutoCommit : plan[r] = {s}
BY PlansAssumption DEF DomainInv

LEMMA Numbers ==
    /\ \A s \in Step : s \in Nat /\ SegmentOf[s] \in Nat
    /\ \A s, t \in Step : s <= t => SegmentOf[s] <= SegmentOf[t]
BY StepAssumption, SegmentAssumption

LEMMA Initially == Init => IInv
<1> SUFFICES ASSUME Init PROVE IInv
  OBVIOUS
<1>1. DomainInv /\ \A r \in Run : RunInv(r)
  BY DEF Init, DomainInv, RunInv
<1>2. ASSUME NEW p \in Session PROVE ProcessInv(p)
  BY DEF Init, ProcessInv, HoldInv, SentInv, WorkInv, PendInv, InSegment,
         InStep, Working, Unlanded, Inflight, Busy, Ending, None
<1> QED
  BY <1>1, <1>2 DEF IInv

LEMMA Untouched ==
    ASSUME NEW q \in Session, DomainInv, ProcessInv(q), Same(q),
           conn[q] # "closed" =>
              /\ runLock'[run[q]] = q /\ journal'[run[q]] = journal[run[q]]
              /\ landed'[run[q]] = landed[run[q]]
              /\ plan'[run[q]] = plan[run[q]]
              /\ run[q] \in settled' => run[q] \in settled,
           \A s \in Step \ AutoCommit :
              objectLock[s] = q => objectLock'[s] = q /\ object'[s] = object[s]
    PROVE  ProcessInv(q)'
<1>1. CASE conn[q] = "closed"
  <2>1. /\ pc[q] = "idle" /\ sent[q] = None
        /\ pending[q] = {} /\ logged[q] = {}
    BY <1>1 DEF ProcessInv, HoldInv
  <2> QED
    BY <1>1, <2>1 DEF ProcessInv, HoldInv, SentInv, WorkInv, PendInv,
        InSegment, InStep, Working, Unlanded, Inflight, Busy, Ending, None,
        Same
<1>2. CASE conn[q] # "closed"
  <2>1. /\ run[q] \in Run /\ plan[run[q]] \subseteq Step
        /\ at[q] \in plan[run[q]]
    BY <1>2, PlansOfSteps DEF ProcessInv, HoldInv
  <2>2. HoldInv(q)'
    BY <1>2 DEF ProcessInv, HoldInv, Same
  <2>3. /\ SegmentSteps(q)' = SegmentSteps(q)
        /\ RestOfSegment(q)' = RestOfSegment(q)
        /\ Transactional(q)' = Transactional(q)
        /\ Inflight(q)' = Inflight(q)
    BY <1>2 DEF SegmentSteps, RestOfSegment, Later, Transactional, Inflight,
                Same
  <2>4. SentInv(q)'
    BY <2>3 DEF ProcessInv, SentInv, Same
  <2>5. WorkInv(q)'
    BY <1>2, <2>3 DEF ProcessInv, WorkInv, Working, Unlanded, Same
  <2>6. PendInv(q)'
    <3>1. PendInv(q) /\ plan'[run[q]] = plan[run[q]] /\ Same(q)
      BY <1>2 DEF ProcessInv
    <3>2. ASSUME NEW s \in pending[q]
          PROVE  objectLock'[s] = q /\ object'[s] = "before"
      BY <2>1, <3>1 DEF PendInv
    <3> QED
      BY <3>1, <3>2 DEF PendInv, Same
  <2>7. InSegment(q)'
    BY <1>2, <2>3 DEF ProcessInv, InSegment, IsFirst, Same
  <2>8. InStep(q)'
    <3>1. InStep(q) /\ Same(q) /\ journal'[run[q]] = journal[run[q]]
      BY <1>2 DEF ProcessInv
    <3>2. Announced(q)' = Announced(q)
      BY <3>1 DEF Announced, Transactional, Same
    <3>3. Transactional(q) /\ objectLock[at[q]] = q =>
             objectLock'[at[q]] = q /\ object'[at[q]] = object[at[q]]
      BY <2>1 DEF Transactional
    <3> QED
      BY <2>3, <3>1, <3>2, <3>3 DEF InStep, Same
  <2> QED
    BY <2>2, <2>4, <2>5, <2>6, <2>7, <2>8 DEF ProcessInv
<1> QED
  BY <1>1, <1>2

LEMMA OneSession ==
    ASSUME IInv, NEW p \in Session, conn[p] # "closed", Alone(p),
           DomainInv', \A r \in Run : r = run[p] => RunInv(r)',
           ProcessInv(p)'
    PROVE  IInv'
<1>1. /\ DomainInv /\ run[p] \in Run /\ runLock[run[p]] = p
      /\ \A q \in Session : ProcessInv(q)
  BY DEF IInv, ProcessInv, HoldInv
<1>2. ASSUME NEW r \in Run PROVE RunInv(r)'
  <2>1. CASE r # run[p]
    <3>1. /\ journal'[r] = journal[r] /\ landed'[r] = landed[r]
          /\ r \in settled' <=> r \in settled
      BY <2>1 DEF Alone
    <3>2. RunInv(r)
      BY DEF IInv
    <3> QED
      BY <3>1, <3>2 DEF RunInv
  <2> QED
    BY <2>1
<1>3. ASSUME NEW q \in Session, q # p PROVE ProcessInv(q)'
  <2>1. conn[q] # "closed" => run[q] \in Run \ {run[p]} /\ runLock[run[q]] = q
    BY <1>1, <1>3 DEF ProcessInv, HoldInv
  <2>2. \A s \in Step \ AutoCommit :
           objectLock[s] = q => objectLock'[s] = q /\ object'[s] = object[s]
    BY <1>3, SessionAssumption DEF Alone
  <2>3. Same(q)
    BY <1>3 DEF Alone
  <2> QED
    BY <1>1, <1>3, <2>1, <2>2, <2>3, Untouched DEF Alone
<1> QED
  BY <1>2, <1>3 DEF IInv

LEMMA Writing ==
    ASSUME IInv, NEW p \in Session, conn[p] # "closed", NEW E,
           Adds(p, E), Fits(p, E), landed' = landed,
           run[p] \in settled' => \/ run[p] \in settled
                                  \/ journal[run[p]] # {}
    PROVE  \A r \in Run : r = run[p] => RunInv(r)'
<1>1. /\ run[p] \in Run /\ RunInv(run[p])
      /\ \A e \in journal[run[p]] : e.exec = exec[p]
  BY DEF IInv, ProcessInv, HoldInv
<1>2. \A e, f \in journal'[run[p]] : e.exec = f.exec
  BY <1>1 DEF Adds, Fits
<1> SUFFICES ASSUME NEW r \in Run, r = run[p] PROVE RunInv(r)'
  OBVIOUS
<1>3. \A e \in E :
         /\ e.kind = "observed" \/ e.outcome = None
         /\ e.outcome \in Outcome \cup {None}
         /\ e.step \notin AutoCommit =>
               /\ e.outcome \in {None, "completed"} => e.step \in landed[r]
               /\ e.outcome \in {"not-applied", "unknown"}
                      => e.step \notin landed[r]
  BY DEF Fits
<1>4. journal'[r] = journal[r] \cup E /\ landed'[r] = landed[r]
  BY DEF Adds
<1>5. RunInv(r)
  BY <1>1
<1>6. r \in settled' => journal'[r] # {}
  BY <1>4, <1>5 DEF RunInv
<1> QED
  BY <1>2, <1>3, <1>4, <1>5, <1>6 DEF RunInv

(* A process or a session ends.                                            *)
LEMMA Leaving ==
    ASSUME IInv, NEW p \in Session, conn[p] # "closed", NEW told, NEW E,
           Leave(p, told), Adds(p, E), Fits(p, E), landed' = landed,
           object' = object, plan' = plan,
           settled' = settled \/ (/\ settled' = settled \cup {run[p]}
                                  /\ journal[run[p]] # {})
    PROVE  IInv'
<1>1. DomainInv /\ run[p] \in Run /\ runLock[run[p]] = p
  BY DEF IInv, ProcessInv, HoldInv
<1>2. DomainInv'
  BY <1>1 DEF DomainInv, Leave, Unlocked, Adds
<1>3. \A r \in Run : r = run[p] => RunInv(r)'
  BY Writing
<1>4. Alone(p)
  <2>1. \A q \in Session \ {p} : Same(q)
    BY <1>1 DEF Leave, DomainInv, Same
  <2>2. \A r \in Run : runLock[r] = p \/ runLock'[r] = runLock[r]
    BY <1>1 DEF Leave, Unlocked, DomainInv
  <2>3. \A s \in Step : objectLock[s] = p \/ objectLock'[s] = objectLock[s]
    BY <1>1 DEF Leave, Unlocked, DomainInv
  <2> QED
    BY <2>1, <2>2, <2>3 DEF Alone, Adds
<1>5. ProcessInv(p)'
  <2>1. /\ pc'[p] = "idle" /\ sent'[p] = None /\ conn'[p] = "closed"
        /\ pending'[p] = {} /\ logged'[p] = {}
    BY <1>1 DEF Leave, DomainInv
  <2> QED
    BY <2>1 DEF ProcessInv, HoldInv, SentInv, WorkInv, PendInv,
        InSegment, InStep, Working, Unlanded, Inflight, Busy, Ending, None
<1> QED
  BY <1>1, <1>2, <1>3, <1>4, <1>5, OneSession

LEMMA LeavingQuietly ==
    ASSUME IInv, NEW p \in Session, conn[p] # "closed", NEW told,
           Leave(p, told),
           UNCHANGED <<object, plan, journal, landed, settled>>
    PROVE  IInv'
<1>1. DomainInv
  BY DEF IInv
<1>2. Adds(p, {}) /\ Fits(p, {})
  BY <1>1 DEF Adds, Fits, DomainInv
<1> QED
  BY <1>2, Leaving

(* A process records why it stops, if it can, and ends.                    *)
LEMMA Stopping ==
    ASSUME IInv, NEW p \in Session, pc[p] \in Busy,
           NEW outcome \in Outcome \ {"completed"}, NEW told,
           \/ StopWith(p, outcome, told)
           \/ /\ \/ WriteJournal(p, {EventOf(p, "observed", outcome)})
                 \/ UNCHANGED journal
              /\ Leave(p, told),
           UNCHANGED <<object, plan, landed, settled>>
    PROVE  IInv'
<1>1. /\ DomainInv /\ ProcessInv(p)
      /\ conn[p] # "closed" /\ run[p] \in Run
  BY DEF IInv, ProcessInv, HoldInv, Busy
<1>2. Leave(p, told)
  BY DEF StopWith
<1>3. CASE UNCHANGED journal
  BY <1>1, <1>2, <1>3, LeavingQuietly
<1>4. CASE WriteJournal(p, {EventOf(p, "observed", outcome)})
  <2> DEFINE E == {EventOf(p, "observed", outcome)}
  <2>1. Adds(p, E)
    BY <1>1, <1>4 DEF WriteJournal, Adds, DomainInv
  <2>2. Transactional(p) => at[p] \notin landed[run[p]]
    BY <1>1 DEF ProcessInv, WorkInv, Unlanded
  <2>3. Fits(p, E)
    BY <2>2 DEF Fits, EventOf, Transactional, Outcome, None
  <2> QED
    BY <1>1, <1>2, <2>1, <2>3, Leaving
<1> QED
  BY <1>3, <1>4 DEF StopWith

LEMMA Refusing ==
    ASSUME IInv, NEW p \in Session,
           \/ Refuse(p) \/ RefuseStep(p) \/ Finish(p) \/ RecoverFails(p)
           \/ BackendEnds(p)
    PROVE  IInv'
<1>1. conn[p] # "closed"
  BY DEF IInv, ProcessInv, HoldInv, Refuse, RefuseStep, Finish, RecoverFails,
         BackendEnds
<1>2. /\ \E told : Leave(p, told)
      /\ UNCHANGED <<object, plan, journal, landed, settled>>
  BY DEF Refuse, RefuseStep, Finish, RecoverFails, BackendEnds, recordVars,
         historyVars
<1> QED
  BY <1>1, <1>2, LeavingQuietly

LEMMA Failing ==
    ASSUME IInv, NEW p \in Session,
           \/ Unreadable(p) \/ GuardFails(p) \/ ClaimRefused(p)
           \/ VerifyFails(p) \/ CompleteFails(p)
    PROVE  IInv'
<1>1. pc[p] \in Busy /\ UNCHANGED <<object, plan, landed, settled>>
  BY DEF Unreadable, GuardFails, ClaimRefused, VerifyFails, CompleteFails,
         Busy, historyVars
<1>2. \E outcome \in Outcome \ {"completed"} : \E told :
         \/ StopWith(p, outcome, told)
         \/ /\ \/ WriteJournal(p, {EventOf(p, "observed", outcome)})
               \/ UNCHANGED journal
            /\ Leave(p, told)
  <2>1. /\ "unknown" \in Outcome \ {"completed"}
        /\ "not-applied" \in Outcome \ {"completed"}
        /\ "partially-applied" \in Outcome \ {"completed"}
    BY DEF Outcome
  <2>2. CASE Unreadable(p)
    BY <2>1, <2>2 DEF Unreadable
  <2>3. CASE GuardFails(p)
    BY <2>1, <2>3 DEF GuardFails
  <2>4. CASE ClaimRefused(p)
    BY <2>1, <2>4 DEF ClaimRefused
  <2>5. CASE VerifyFails(p)
    BY <2>1, <2>5 DEF VerifyFails
  <2>6. CASE CompleteFails(p)
    BY <2>1, <2>6 DEF CompleteFails
  <2> QED
    BY <2>2, <2>3, <2>4, <2>5, <2>6
<1> QED
  BY <1>1, <1>2, Stopping

-----------------------------------------------------------------------------
(* The steps of a process that goes on.                                    *)

(* Nothing but the place of p, its session and locks it takes change.      *)
Quiet(p) ==
    /\ UNCHANGED <<object, plan, journal, landed, settled, runLock, run, exec>>
    /\ \A q \in Session \ {p} : Same(q)
    /\ DOMAIN pc' = Session /\ DOMAIN at' = Session /\ DOMAIN conn' = Session
    /\ DOMAIN sent' = Session /\ DOMAIN pending' = Session
    /\ DOMAIN logged' = Session /\ DOMAIN objectLock' = Step
    /\ \A s \in Step : \/ objectLock'[s] = objectLock[s]
                       \/ objectLock[s] \in {None, p} /\ objectLock'[s] = p

LEMMA GoingOn ==
    ASSUME IInv, NEW p \in Session, conn[p] # "closed", Quiet(p),
           ProcessInv(p)'
    PROVE  IInv'
<1>1. DomainInv /\ \A r \in Run : RunInv(r)
  BY DEF IInv
<1>2. DomainInv'
  BY <1>1 DEF DomainInv, Quiet
<1>3. \A r \in Run : RunInv(r)'
  BY <1>1 DEF RunInv, Quiet
<1>4. Alone(p)
  BY DEF Alone, Quiet
<1> QED
  BY <1>2, <1>3, <1>4, OneSession

(* What holds of a process before it goes on.                              *)
LEMMA Before ==
    ASSUME IInv, NEW p \in Session, pc[p] # "idle"
    PROVE  /\ DomainInv /\ ProcessInv(p)
           /\ conn[p] = "open" /\ run[p] \in Run
           /\ plan[run[p]] \subseteq Step /\ at[p] \in plan[run[p]]
           /\ \A s \in plan[run[p]] \cap AutoCommit : plan[run[p]] = {s}
BY PlansOfSteps DEF IInv, ProcessInv, HoldInv

LEMMA Authorizing ==
    ASSUME IInv, NEW p \in Session, Authorize(p)
    PROVE  IInv'
<1>1. pc[p] = "loaded" /\ pc' = [pc EXCEPT ![p] = "step"]
  BY DEF Authorize, Move
<1>2. /\ DomainInv /\ ProcessInv(p) /\ conn[p] = "open" /\ run[p] \in Run
      /\ plan[run[p]] \subseteq Step /\ at[p] \in plan[run[p]]
  BY <1>1, Before
<1>3. /\ pc'[p] = "step" /\ at' = at /\ conn' = conn /\ sent' = sent
      /\ pending' = pending /\ logged' = logged /\ objectLock' = objectLock
      /\ Quiet(p)
  BY <1>1, <1>2 DEF Authorize, DomainInv, Quiet, Same, catalogueVars,
                    sessionVars, historyVars
<1>4. /\ SegmentSteps(p)' = SegmentSteps(p)
      /\ Transactional(p)' = Transactional(p) /\ Inflight(p)' = Inflight(p)
  BY <1>3 DEF SegmentSteps, Transactional, Inflight, Quiet
<1>5. HoldInv(p)'
  BY <1>1, <1>2, <1>3 DEF ProcessInv, HoldInv, Quiet
<1>6. SentInv(p)' /\ sent[p] \notin {"statement", "commit"}
  BY <1>1, <1>2, <1>3 DEF ProcessInv, SentInv
<1>7. WorkInv(p)'
  BY <1>1, <1>2, <1>3, <1>4
     DEF ProcessInv, WorkInv, Working, Unlanded, Quiet
<1>8. PendInv(p)'
  BY <1>1, <1>2, <1>3 DEF ProcessInv, PendInv, Quiet
<1>9. InSegment(p)'
  <2>1. IsFirst(at[p], plan[run[p]])
    BY <1>1, <1>2 DEF ProcessInv, InSegment
  <2>2. \A t \in SegmentSteps(p) : t \in Step /\ at[p] <= t
    BY <1>2, <2>1 DEF SegmentSteps, IsFirst
  <2>3. \A t \in SegmentSteps(p) : ~(t < at[p])
    BY <1>2, <2>2, Numbers
  <2> QED
    BY <1>3, <1>4, <2>3 DEF InSegment, Ending
<1>10. InStep(p)'
  BY <1>3, <1>6 DEF InStep
<1> QED
  BY <1>2, <1>3, <1>5, <1>6, <1>7, <1>8, <1>9, <1>10, GoingOn DEF ProcessInv

LEMMA Locking ==
    ASSUME IInv, NEW p \in Session, LockStep(p)
    PROVE  IInv'
<1>1. pc[p] = "step" /\ pc' = [pc EXCEPT ![p] = "locked"]
  BY DEF LockStep, Move
<1>2. /\ DomainInv /\ ProcessInv(p) /\ conn[p] = "open" /\ run[p] \in Run
      /\ plan[run[p]] \subseteq Step /\ at[p] \in plan[run[p]]
  BY <1>1, Before
<1>3. /\ pc'[p] = "locked" /\ at' = at /\ conn' = conn /\ sent' = sent
      /\ pending' = pending /\ logged' = logged
      /\ Transactional(p) => objectLock'[at[p]] = p
      /\ \A s \in Step : objectLock[s] = p => objectLock'[s] = p
      /\ Quiet(p)
  BY <1>1, <1>2 DEF LockStep, DomainInv, Quiet, Same, sessionVars, historyVars,
                    recordVars
<1>4. /\ SegmentSteps(p)' = SegmentSteps(p)
      /\ Transactional(p)' = Transactional(p) /\ Inflight(p)' = Inflight(p)
  BY <1>3 DEF SegmentSteps, Transactional, Inflight, Quiet
<1>5. HoldInv(p)'
  BY <1>1, <1>2, <1>3 DEF ProcessInv, HoldInv, Quiet
<1>6. SentInv(p)' /\ sent[p] \notin {"statement", "commit"}
  BY <1>1, <1>2, <1>3 DEF ProcessInv, SentInv
<1>7. WorkInv(p)'
  BY <1>1, <1>2, <1>3, <1>4
     DEF ProcessInv, WorkInv, Working, Unlanded, Busy, Quiet
<1>8. PendInv(p)'
  BY <1>1, <1>2, <1>3 DEF ProcessInv, PendInv, Quiet
<1>9. InSegment(p)'
  BY <1>1, <1>2, <1>3, <1>4 DEF ProcessInv, InSegment, Ending, Busy
<1>10. InStep(p)'
  BY <1>3, <1>4, <1>6 DEF InStep
<1> QED
  BY <1>2, <1>3, <1>5, <1>6, <1>7, <1>8, <1>9, <1>10, GoingOn DEF ProcessInv

LEMMA Sending ==
    ASSUME IInv, NEW p \in Session, Send(p)
    PROVE  IInv'
<1>1. pc[p] = "intent" /\ pc' = [pc EXCEPT ![p] = "running"]
  BY DEF Send, Move
<1>2. /\ DomainInv /\ ProcessInv(p) /\ conn[p] = "open" /\ run[p] \in Run
      /\ plan[run[p]] \subseteq Step /\ at[p] \in plan[run[p]]
  BY <1>1, Before
<1>3. /\ pc'[p] = "running" /\ at' = at /\ conn' = conn
      /\ sent'[p] = "statement"
      /\ pending' = pending /\ logged' = logged /\ objectLock' = objectLock
      /\ Quiet(p)
  BY <1>1, <1>2 DEF Send, DomainInv, Quiet, Same, catalogueVars,
                    historyVars, recordVars
<1>4. /\ SegmentSteps(p)' = SegmentSteps(p)
      /\ Transactional(p)' = Transactional(p)
      /\ Announced(p)' = Announced(p)
  BY <1>3 DEF SegmentSteps, Transactional, Announced, Quiet
<1>5. HoldInv(p)'
  BY <1>1, <1>2, <1>3 DEF ProcessInv, HoldInv, Quiet
<1>6. SentInv(p)'
  BY <1>3 DEF SentInv
<1>7. WorkInv(p)'
  BY <1>1, <1>2, <1>3, <1>4
     DEF ProcessInv, WorkInv, Working, Unlanded, Busy, Quiet
<1>8. PendInv(p)'
  BY <1>1, <1>2, <1>3 DEF ProcessInv, PendInv, Quiet
<1>9. InSegment(p)'
  BY <1>1, <1>2, <1>3, <1>4 DEF ProcessInv, InSegment, Ending, Busy
<1>10. InStep(p)'
  BY <1>1, <1>2, <1>3, <1>4 DEF ProcessInv, InStep, Quiet
<1> QED
  BY <1>2, <1>3, <1>5, <1>6, <1>7, <1>8, <1>9, <1>10, GoingOn DEF ProcessInv

LEMMA Verifying ==
    ASSUME IInv, NEW p \in Session, Verify(p)
    PROVE  IInv'
<1>1. pc[p] = "verify" /\ pc' = [pc EXCEPT ![p] = "complete"]
  BY DEF Verify, Move
<1>2. /\ DomainInv /\ ProcessInv(p) /\ conn[p] = "open" /\ run[p] \in Run
      /\ plan[run[p]] \subseteq Step /\ at[p] \in plan[run[p]]
  BY <1>1, Before
<1>3. /\ pc'[p] = "complete" /\ at' = at /\ conn' = conn /\ sent' = sent
      /\ pending' = pending /\ logged' = logged /\ objectLock' = objectLock
      /\ Quiet(p)
  BY <1>1, <1>2 DEF Verify, DomainInv, Quiet, Same, catalogueVars,
                    historyVars, recordVars, sessionVars
<1>4. /\ SegmentSteps(p)' = SegmentSteps(p)
      /\ Transactional(p)' = Transactional(p) /\ Inflight(p)' = Inflight(p)
  BY <1>3 DEF SegmentSteps, Transactional, Inflight, Quiet
<1>5. HoldInv(p)'
  BY <1>1, <1>2, <1>3 DEF ProcessInv, HoldInv, Quiet
<1>6. SentInv(p)' /\ sent[p] \notin {"statement", "commit"}
  BY <1>1, <1>2, <1>3 DEF ProcessInv, SentInv
<1>7. WorkInv(p)'
  BY <1>1, <1>2, <1>3, <1>4
     DEF ProcessInv, WorkInv, Working, Unlanded, Busy, Quiet
<1>8. PendInv(p)'
  BY <1>1, <1>2, <1>3 DEF ProcessInv, PendInv, Quiet
<1>9. InSegment(p)'
  BY <1>1, <1>2, <1>3, <1>4 DEF ProcessInv, InSegment, Ending, Busy
<1>10. InStep(p)'
  BY <1>1, <1>2, <1>3, <1>4, <1>6 DEF ProcessInv, InStep, Quiet
<1> QED
  BY <1>2, <1>3, <1>5, <1>6, <1>7, <1>8, <1>9, <1>10, GoingOn DEF ProcessInv

LEMMA Committing ==
    ASSUME IInv, NEW p \in Session, Commit(p)
    PROVE  IInv'
<1>1. pc[p] = "commit" /\ pc' = [pc EXCEPT ![p] = "committing"]
  BY DEF Commit, Move
<1>2. /\ DomainInv /\ ProcessInv(p) /\ conn[p] = "open" /\ run[p] \in Run
  BY <1>1, Before
<1>3. /\ pc'[p] = "committing" /\ at' = at /\ conn' = conn
      /\ sent'[p] = "commit"
      /\ pending' = pending /\ logged' = logged /\ objectLock' = objectLock
      /\ Quiet(p)
  BY <1>1, <1>2 DEF Commit, DomainInv, Quiet, Same, catalogueVars, historyVars,
                    recordVars
<1>4. /\ SegmentSteps(p)' = SegmentSteps(p)
      /\ RestOfSegment(p)' = RestOfSegment(p)
      /\ Transactional(p)' = Transactional(p)
  BY <1>3 DEF SegmentSteps, RestOfSegment, Later, Transactional, Quiet
<1>5. HoldInv(p)'
  BY <1>1, <1>2, <1>3 DEF ProcessInv, HoldInv, Quiet
<1>6. SentInv(p)'
  BY <1>1, <1>2, <1>3, <1>4 DEF ProcessInv, InSegment, SentInv
<1>7. WorkInv(p)'
  BY <1>1, <1>2, <1>3, <1>4 DEF ProcessInv, InSegment, WorkInv, Working,
                                Unlanded, Busy, Quiet
<1>8. PendInv(p)'
  BY <1>1, <1>2, <1>3 DEF ProcessInv, PendInv, Quiet
<1>9. InSegment(p)'
  BY <1>1, <1>2, <1>3, <1>4 DEF ProcessInv, InSegment, Ending, Busy
<1>10. InStep(p)'
  BY <1>3 DEF InStep
<1> QED
  BY <1>2, <1>3, <1>5, <1>6, <1>7, <1>8, <1>9, <1>10, GoingOn DEF ProcessInv

(* The answer to a statement and to a COMMIT.                              *)
LEMMA Receiving ==
    ASSUME IInv, NEW p \in Session, Receive(p)
    PROVE  IInv'
<1>1. pc[p] = "running" /\ ~Inflight(p)
  BY DEF Receive
<1>2. /\ DomainInv /\ ProcessInv(p) /\ conn[p] = "open" /\ run[p] \in Run
      /\ UNCHANGED <<object, plan, landed, settled>>
  BY <1>1, Before DEF Receive, historyVars
<1>3. CASE StopWith(p, "not-applied", Stopped(p))
  BY <1>1, <1>2, <1>3, Stopping DEF Busy, Outcome
<1>4. CASE Leave(p, "outcome-unknown") /\ UNCHANGED journal
  BY <1>2, <1>4, LeavingQuietly
<1>5. CASE /\ sent[p] = "ok" /\ Move(p, "running", "verify")
           /\ sent' = [sent EXCEPT ![p] = None]
           /\ UNCHANGED <<objectLock, journal, verdict, runLock, run, exec, at,
                          done, warned, pending, logged, conn, faults>>
  <2>3. /\ pc'[p] = "verify" /\ at' = at /\ conn' = conn /\ sent'[p] = None
        /\ pending' = pending /\ logged' = logged /\ objectLock' = objectLock
        /\ Quiet(p)
    BY <1>2, <1>5 DEF Move, DomainInv, Quiet, Same
  <2>4. /\ SegmentSteps(p)' = SegmentSteps(p)
        /\ Transactional(p)' = Transactional(p)
    BY <2>3 DEF SegmentSteps, Transactional, Quiet
  <2>5. HoldInv(p)'
    BY <1>1, <1>2, <2>3 DEF ProcessInv, HoldInv, Quiet
  <2>6. SentInv(p)'
    BY <2>3 DEF SentInv, None
  <2>7. WorkInv(p)'
    BY <1>1, <1>2, <2>3, <2>4 DEF ProcessInv, WorkInv, Working, Unlanded,
                                  Inflight, Busy, Quiet, None
  <2>8. PendInv(p)'
    BY <1>2, <2>3 DEF ProcessInv, PendInv, Quiet
  <2>9. InSegment(p)'
    BY <1>1, <1>2, <2>3, <2>4 DEF ProcessInv, InSegment, Ending, Busy
  <2>10. InStep(p)'
    BY <1>1, <1>2, <1>5, <2>3, <2>4 DEF ProcessInv, InStep, Quiet, None
  <2> QED
    BY <1>2, <2>3, <2>5, <2>6, <2>7, <2>8, <2>9, <2>10, GoingOn DEF ProcessInv
<1> QED
  BY <1>3, <1>4, <1>5 DEF Receive

LEMMA ReceivingCommit ==
    ASSUME IInv, NEW p \in Session, ReceiveCommit(p)
    PROVE  IInv'
<1>1. pc[p] = "committing" /\ ~Inflight(p)
  BY DEF ReceiveCommit
<1>2. /\ DomainInv /\ ProcessInv(p) /\ conn[p] = "open" /\ run[p] \in Run
      /\ UNCHANGED <<object, plan, journal, landed, settled>>
  BY <1>1, Before DEF ReceiveCommit, historyVars, recordVars
<1>4. CASE Leave(p, "outcome-unknown")
  BY <1>2, <1>4, LeavingQuietly
<1>5. CASE /\ sent[p] = "ok" /\ pc' = [pc EXCEPT ![p] = "record"]
           /\ sent' = [sent EXCEPT ![p] = None]
           /\ UNCHANGED <<objectLock, verdict, runLock, run, exec, at, done,
                          warned, pending, logged, conn>>
  <2>3. /\ pc'[p] = "record" /\ at' = at /\ conn' = conn /\ sent'[p] = None
        /\ pending' = pending /\ logged' = logged /\ objectLock' = objectLock
        /\ Quiet(p)
    BY <1>2, <1>5 DEF DomainInv, Quiet, Same
  <2>4. /\ SegmentSteps(p)' = SegmentSteps(p)
        /\ RestOfSegment(p)' = RestOfSegment(p)
        /\ Transactional(p)' = Transactional(p)
    BY <2>3 DEF SegmentSteps, RestOfSegment, Later, Transactional, Quiet
  <2>5. HoldInv(p)'
    BY <1>1, <1>2, <2>3 DEF ProcessInv, HoldInv, Quiet
  <2>6. SentInv(p)'
    BY <2>3 DEF SentInv, None
  <2>7. WorkInv(p)'
    BY <1>1, <1>2, <2>3, <2>4 DEF ProcessInv, WorkInv, Working, Unlanded,
                                  Inflight, Busy, Quiet, None
  <2>8. PendInv(p)'
    BY <1>2, <2>3 DEF ProcessInv, PendInv, Quiet
  <2>9. InSegment(p)'
    BY <1>1, <1>2, <1>5, <2>3, <2>4 DEF ProcessInv, InSegment, Ending, Busy,
                                        Quiet
  <2>10. InStep(p)'
    BY <2>3 DEF InStep, None
  <2> QED
    BY <1>2, <2>3, <2>5, <2>6, <2>7, <2>8, <2>9, <2>10, GoingOn DEF ProcessInv
<1> QED
  BY <1>4, <1>5 DEF ReceiveCommit

(* The next segment: its steps come after everything that has landed.      *)
LEMMA NextSegmenting ==
    ASSUME IInv, NEW p \in Session, NextSegment(p)
    PROVE  IInv'
<1>1. pc[p] = "record" /\ pc' = [pc EXCEPT ![p] = "step"]
  BY DEF NextSegment, Move
<1>2. /\ DomainInv /\ ProcessInv(p) /\ conn[p] = "open" /\ run[p] \in Run
      /\ plan[run[p]] \subseteq Step /\ at[p] \in plan[run[p]]
      /\ \A s \in plan[run[p]] \cap AutoCommit : plan[run[p]] = {s}
      /\ RunInv(run[p])
  BY <1>1, Before DEF IInv
<1>3. PICK next \in Later(p) : /\ IsFirst(next, Later(p))
                               /\ at' = [at EXCEPT ![p] = next]
  BY DEF NextSegment
<1>4. /\ pc'[p] = "step" /\ at'[p] = next /\ conn' = conn /\ sent' = sent
      /\ pending' = pending /\ logged' = logged /\ objectLock' = objectLock
      /\ Quiet(p)
  BY <1>1, <1>2, <1>3 DEF NextSegment, DomainInv, Quiet, Same, catalogueVars,
                          historyVars, recordVars, sessionVars
<1>5. /\ next \in plan[run[p]] /\ next > at[p] /\ next \in Step
      /\ at[p] \in Step
      /\ \A s \in plan[run[p]] : s > at[p] => next <= s
  BY <1>2, <1>3 DEF Later, IsFirst
<1>6. /\ pending[p] = {} /\ logged[p] = {} /\ RestOfSegment(p) = {}
      /\ \A s \in SegmentSteps(p) \ AutoCommit : s \in landed[run[p]]
      /\ sent[p] \notin {"statement", "commit"}
  BY <1>1, <1>2 DEF ProcessInv, InSegment, SentInv, Ending
<1>7. SegmentOf[at[p]] < SegmentOf[next]
  <2>1. SegmentOf[at[p]] <= SegmentOf[next]
    BY <1>5, Numbers
  <2>2. SegmentOf[at[p]] # SegmentOf[next]
    BY <1>5, <1>6 DEF RestOfSegment, Later, SegmentSteps
  <2> QED
    BY <1>5, <2>1, <2>2, Numbers
<1>8. \A s \in plan[run[p]] :
         SegmentOf[s] < SegmentOf[next] => s \in landed[run[p]]
  <2> SUFFICES ASSUME NEW s \in plan[run[p]], SegmentOf[s] < SegmentOf[next]
               PROVE  s \in landed[run[p]]
    OBVIOUS
  <2>1. s \in Step /\ s <= at[p]
    <3>1. s \in Step
      BY <1>2
    <3>2. ~(next <= s)
      BY <1>5, <3>1, Numbers
    <3> QED
      BY <1>5, <3>1, <3>2, Numbers
  <2>2. SegmentOf[s] <= SegmentOf[at[p]]
    BY <1>5, <2>1, Numbers
  <2>3. CASE SegmentOf[s] < SegmentOf[at[p]]
    BY <1>1, <1>2, <2>3 DEF ProcessInv, WorkInv, Working
  <2>4. CASE SegmentOf[s] = SegmentOf[at[p]]
    <3>1. s \in SegmentSteps(p)
      BY <2>4 DEF SegmentSteps
    <3>2. s \notin AutoCommit
      BY <1>2, <1>5, Numbers
    <3> QED
      BY <1>6, <3>1, <3>2
  <2> QED
    BY <1>5, <2>1, <2>2, <2>3, <2>4, Numbers
<1>9. \A s \in landed[run[p]] : SegmentOf[s] < SegmentOf[next]
  <2> SUFFICES ASSUME NEW s \in landed[run[p]]
               PROVE  SegmentOf[s] < SegmentOf[next]
    OBVIOUS
  <2>1. s \in Step
    BY <1>2 DEF RunInv
  <2>2. SegmentOf[s] <= SegmentOf[at[p]]
    BY <1>1, <1>2 DEF ProcessInv, WorkInv, Working
  <2> QED
    BY <1>5, <1>7, <2>1, <2>2, Numbers
<1>10. \A t \in plan[run[p]] : SegmentOf[t] = SegmentOf[next] => ~(t < next)
  <2> SUFFICES ASSUME NEW t \in plan[run[p]],
                      SegmentOf[t] = SegmentOf[next], t < next
               PROVE  FALSE
    OBVIOUS
  <2>1. t \in Step
    BY <1>2
  <2>2. t <= at[p]
    BY <1>5, <2>1, Numbers
  <2>3. SegmentOf[t] <= SegmentOf[at[p]]
    BY <1>5, <2>1, <2>2, Numbers
  <2> QED
    BY <1>5, <1>7, <2>1, <2>3, Numbers
<1>11. HoldInv(p)'
  BY <1>1, <1>2, <1>4, <1>5 DEF ProcessInv, HoldInv, Quiet
<1>12. SentInv(p)'
  BY <1>4, <1>6 DEF SentInv
<1>13. WorkInv(p)'
  <2>1. /\ run[p] \notin settled
        /\ \A e \in journal[run[p]] : e.outcome \in {None, "completed"}
    BY <1>1, <1>2 DEF ProcessInv, WorkInv, Working
  <2>2. \A s \in landed[run[p]] : /\ SegmentOf[s] <= SegmentOf[next]
                                  /\ SegmentOf[s] # SegmentOf[next]
    <3>1. \A s \in landed[run[p]] : s \in Step
      BY <1>2 DEF RunInv
    <3> QED
      BY <1>5, <1>9, <3>1, Numbers
  <2> QED
    BY <1>4, <1>8, <2>1, <2>2 DEF WorkInv, Quiet
<1>14. PendInv(p)'
  BY <1>4, <1>6 DEF PendInv
<1>15. InSegment(p)'
  BY <1>4, <1>10 DEF InSegment, Ending, SegmentSteps, Quiet
<1>16. InStep(p)'
  BY <1>4, <1>6 DEF InStep
<1> QED
  BY <1>2, <1>4, <1>11, <1>12, <1>13, <1>14, <1>15, <1>16, GoingOn
     DEF ProcessInv

LEMMA Losing ==
    ASSUME IInv, NEW p \in Session, LoseSession(p)
    PROVE  IInv'
<1>1. conn[p] = "open" /\ DomainInv /\ ProcessInv(p)
  BY DEF LoseSession, IInv
<1>2. /\ pc'[p] = "idle" /\ at' = at /\ conn'[p] = "orphan" /\ sent' = sent
      /\ pending' = pending /\ logged' = logged /\ objectLock' = objectLock
      /\ Quiet(p)
  BY <1>1 DEF LoseSession, DomainInv, Quiet, Same, catalogueVars, historyVars,
              recordVars
<1>3. /\ SegmentSteps(p)' = SegmentSteps(p)
      /\ Transactional(p)' = Transactional(p) /\ Inflight(p)' = Inflight(p)
      /\ Announced(p)' = Announced(p)
  BY <1>2 DEF SegmentSteps, Transactional, Inflight, Announced, Quiet
<1>4. HoldInv(p)'
  BY <1>1, <1>2 DEF ProcessInv, HoldInv, Quiet
<1>5. SentInv(p)'
  BY <1>1, <1>2, <1>3 DEF ProcessInv, SentInv
<1>6. WorkInv(p)'
  BY <1>1, <1>2, <1>3 DEF ProcessInv, WorkInv, Working, Unlanded, Busy, Quiet
<1>7. PendInv(p)'
  BY <1>1, <1>2 DEF ProcessInv, PendInv, Quiet
<1>8. InSegment(p)'
  BY <1>2 DEF InSegment, Busy, Ending
<1>9. InStep(p)'
  BY <1>1, <1>2, <1>3 DEF ProcessInv, InStep, Quiet
<1> QED
  BY <1>1, <1>2, <1>4, <1>5, <1>6, <1>7, <1>8, <1>9, GoingOn DEF ProcessInv

(* The same with events added to the journal of the run.                   *)
Noting(p, E) ==
    /\ Adds(p, E) /\ Fits(p, E)
    /\ UNCHANGED <<object, plan, landed, settled, runLock, run, exec,
                   objectLock, conn, sent, pending>>
    /\ \A q \in Session \ {p} : Same(q)
    /\ DOMAIN pc' = Session /\ DOMAIN at' = Session
    /\ DOMAIN logged' = Session

LEMMA GoingOnNoting ==
    ASSUME IInv, NEW p \in Session, conn[p] # "closed", NEW E, Noting(p, E),
           ProcessInv(p)'
    PROVE  IInv'
<1>1. DomainInv
  BY DEF IInv
<1>2. DomainInv'
  BY <1>1 DEF DomainInv, Noting, Adds
<1>3. \A r \in Run : r = run[p] => RunInv(r)'
  BY Writing DEF Noting
<1>4. Alone(p)
  BY DEF Alone, Noting, Adds
<1> QED
  BY <1>2, <1>3, <1>4, OneSession

LEMMA Intending ==
    ASSUME IInv, NEW p \in Session, Intend(p)
    PROVE  IInv'
<1> DEFINE intent == EventOf(p, "intent", None)
<1>1. pc[p] = "locked" /\ pc' = [pc EXCEPT ![p] = "intent"]
  BY DEF Intend, Move
<1>2. /\ DomainInv /\ ProcessInv(p) /\ conn[p] = "open" /\ run[p] \in Run
      /\ plan[run[p]] \subseteq Step /\ at[p] \in plan[run[p]]
      /\ object[at[p]] = "before"
  BY <1>1, Before DEF Intend, ProvenBefore
<1>3. /\ intent.step = at[p] /\ intent.kind = "intent"
      /\ intent.outcome = None /\ intent.exec = exec[p]
  BY DEF EventOf
<1> HIDE DEF intent
<1>4. /\ pc'[p] = "intent" /\ at' = at /\ conn' = conn /\ sent' = sent
      /\ pending' = pending /\ objectLock' = objectLock
      /\ UNCHANGED <<object, plan, landed, settled, runLock, run, exec>>
      /\ DOMAIN pc' = Session /\ \A q \in Session \ {p} : pc'[q] = pc[q]
  BY <1>1, <1>2 DEF Intend, DomainInv, catalogueVars, historyVars
<1>5. /\ SegmentSteps(p)' = SegmentSteps(p)
      /\ Transactional(p)' = Transactional(p) /\ Inflight(p)' = Inflight(p)
  BY <1>4 DEF SegmentSteps, Transactional, Inflight
<1>6. SentInv(p)' /\ sent[p] \notin {"statement", "commit"}
  BY <1>1, <1>2, <1>4 DEF ProcessInv, SentInv
<1>7. InSegment(p)'
  BY <1>1, <1>2, <1>4, <1>5 DEF ProcessInv, InSegment, Ending, Busy
<1>8. CASE Transactional(p)
  <2>1. /\ logged'[p] = logged[p] \cup {intent} /\ journal' = journal
        /\ Quiet(p)
    BY <1>2, <1>4, <1>8 DEF Intend, DomainInv, Quiet, Same, intent
  <2>2. HoldInv(p)'
    BY <1>1, <1>2, <1>3, <1>4, <2>1 DEF ProcessInv, HoldInv
  <2>3. WorkInv(p)'
    BY <1>1, <1>2, <1>4, <1>5, <2>1
       DEF ProcessInv, WorkInv, Working, Unlanded, Busy
  <2>4. PendInv(p)'
    BY <1>2, <1>3, <1>4, <1>8, <2>1
       DEF ProcessInv, PendInv, Transactional
  <2>5. Announced(p)'
    BY <1>3, <1>4, <1>5, <1>8, <2>1 DEF Announced, Transactional
  <2>6. InStep(p)'
    BY <1>1, <1>2, <1>4, <1>5, <2>5 DEF ProcessInv, InStep
  <2> QED
    BY <1>2, <1>6, <1>7, <2>1, <2>2, <2>3, <2>4, <2>6, GoingOn DEF ProcessInv
<1>9. CASE ~Transactional(p)
  <2>1. /\ journal' = [journal EXCEPT ![run[p]] = @ \cup {intent}]
        /\ logged' = logged
    BY <1>9 DEF Intend, WriteJournal, intent
  <2>2. Adds(p, {intent}) /\ Fits(p, {intent})
    BY <1>2, <1>3, <1>9, <2>1 DEF Adds, Fits, DomainInv, Transactional
  <2>3. Noting(p, {intent})
    BY <1>2, <1>4, <2>1, <2>2 DEF Noting, Same, DomainInv
  <2>4. HoldInv(p)'
    BY <1>1, <1>2, <1>3, <1>4, <2>1, <2>2 DEF ProcessInv, HoldInv, Adds
  <2>5. WorkInv(p)'
    BY <1>1, <1>2, <1>3, <1>4, <1>5, <2>2
       DEF ProcessInv, WorkInv, Working, Unlanded, Busy, Adds
  <2>6. PendInv(p)'
    BY <1>2, <1>4, <2>1 DEF ProcessInv, PendInv
  <2>7. Announced(p)'
    BY <1>3, <1>4, <1>5, <1>9, <2>2 DEF Announced, Adds
  <2>8. InStep(p)'
    BY <1>4, <1>5, <1>9, <2>7 DEF InStep
  <2> QED
    BY <1>2, <1>6, <1>7, <2>3, <2>4, <2>5, <2>6, <2>8, GoingOnNoting
       DEF ProcessInv
<1> QED
  BY <1>8, <1>9

(* The completion of a step, and the next one of the segment or its end.   *)
LEMMA Completing ==
    ASSUME IInv, NEW p \in Session, Complete(p)
    PROVE  IInv'
<1> DEFINE completion == EventOf(p, "completion", None)
<1>1. pc[p] = "complete"
  BY DEF Complete
<1>2. /\ DomainInv /\ ProcessInv(p) /\ conn[p] = "open" /\ run[p] \in Run
      /\ plan[run[p]] \subseteq Step /\ at[p] \in plan[run[p]]
      /\ \A s \in plan[run[p]] \cap AutoCommit : plan[run[p]] = {s}
  BY <1>1, Before
<1>3. /\ completion.step = at[p]
      /\ completion.outcome = None /\ completion.exec = exec[p]
  BY DEF EventOf
<1> HIDE DEF completion
<1>4. /\ conn' = conn /\ sent' = sent
      /\ pending' = pending /\ objectLock' = objectLock
      /\ UNCHANGED <<object, plan, landed, settled, runLock, run, exec>>
      /\ DOMAIN pc' = Session /\ DOMAIN at' = Session
      /\ \A q \in Session \ {p} : pc'[q] = pc[q] /\ at'[q] = at[q]
  BY <1>1, <1>2 DEF Complete, EndStep, DomainInv, catalogueVars, historyVars
<1>5. sent[p] \notin {"statement", "commit"}
  BY <1>1, <1>2 DEF ProcessInv, SentInv
<1>6. /\ run[p] \notin settled
      /\ \A e \in journal[run[p]] : e.outcome \in {None, "completed"}
      /\ \A s \in plan[run[p]] :
            SegmentOf[s] < SegmentOf[at[p]] => s \in landed[run[p]]
      /\ \A s \in landed[run[p]] : SegmentOf[s] <= SegmentOf[at[p]]
      /\ Transactional(p) =>
            \A s \in landed[run[p]] : SegmentOf[s] # SegmentOf[at[p]]
  BY <1>1, <1>2 DEF ProcessInv, WorkInv, Working, Unlanded, Busy
<1>7. CASE Transactional(p)
  <2>1. /\ logged'[p] = logged[p] \cup {completion} /\ journal' = journal
        /\ Quiet(p)
    BY <1>2, <1>4, <1>7 DEF Complete, DomainInv, Quiet, Same, completion
  <2>2. \A t \in SegmentSteps(p) : t <= at[p] => t \in pending[p]
    <3>1. /\ at[p] \in pending[p]
          /\ \A t \in SegmentSteps(p) : t < at[p] => t \in pending[p]
      BY <1>1, <1>2, <1>7 DEF ProcessInv, InSegment, InStep, Busy
    <3>2. \A t \in SegmentSteps(p) : t \in Nat /\ at[p] \in Nat
      BY <1>2, Numbers DEF SegmentSteps
    <3> QED
      BY <3>1, <3>2
  <2>3. PendInv(p) /\ at[p] \notin AutoCommit
    BY <1>2, <1>7 DEF ProcessInv, Transactional
  <2>4. CASE \E s \in RestOfSegment(p) :
                /\ IsFirst(s, RestOfSegment(p))
                /\ at' = [at EXCEPT ![p] = s]
                /\ pc' = [pc EXCEPT ![p] = "step"]
    <3>1. PICK s \in RestOfSegment(p) :
             /\ IsFirst(s, RestOfSegment(p))
             /\ at' = [at EXCEPT ![p] = s]
             /\ pc' = [pc EXCEPT ![p] = "step"]
      BY <2>4
    <3>2. /\ pc'[p] = "step" /\ at'[p] = s /\ s \in plan[run[p]]
          /\ SegmentOf[s] = SegmentOf[at[p]] /\ s > at[p]
      BY <1>2, <3>1 DEF RestOfSegment, Later, SegmentSteps, DomainInv
    <3>3. s \notin AutoCommit
      BY <1>2, <1>7, <3>2 DEF Transactional
    <3>4. /\ SegmentSteps(p)' = SegmentSteps(p)
          /\ Transactional(p)' = Transactional(p)
      BY <1>4, <1>7, <3>2, <3>3 DEF SegmentSteps, Transactional
    <3>5. \A t \in SegmentSteps(p) : t < s => t \in pending[p]
      <4> SUFFICES ASSUME NEW t \in SegmentSteps(p), t < s
                   PROVE  t \in pending[p]
        OBVIOUS
      <4>1. t \in Nat /\ at[p] \in Nat /\ s \in Nat /\ t \in plan[run[p]]
        BY <1>2, <3>2, Numbers DEF SegmentSteps
      <4>2. ~(t > at[p])
        BY <3>1, <4>1 DEF IsFirst, RestOfSegment, Later
      <4> QED
        BY <2>2, <4>1, <4>2
    <3>6. HoldInv(p)'
      BY <1>1, <1>2, <1>3, <1>4, <2>1, <3>2 DEF ProcessInv, HoldInv
    <3>7. SentInv(p)'
      BY <1>4, <1>5 DEF SentInv
    <3>8. WorkInv(p)'
      BY <1>4, <1>6, <1>7, <2>1, <3>2 DEF WorkInv
    <3>9. PendInv(p)'
      BY <1>2, <1>3, <1>4, <2>1, <2>3, <3>2 DEF PendInv
    <3>10. InSegment(p)'
      BY <1>4, <3>2, <3>4, <3>5 DEF InSegment, Ending
    <3>11. InStep(p)'
      BY <1>4, <1>5, <3>2 DEF InStep
    <3> QED
      BY <1>2, <2>1, <3>6, <3>7, <3>8, <3>9, <3>10, <3>11, GoingOn
         DEF ProcessInv
  <2>5. CASE /\ RestOfSegment(p) = {} /\ pc' = [pc EXCEPT ![p] = "commit"]
             /\ UNCHANGED at
    <3>1. pc'[p] = "commit" /\ at' = at
      BY <1>2, <2>5 DEF DomainInv
    <3>2. /\ SegmentSteps(p)' = SegmentSteps(p)
          /\ RestOfSegment(p)' = RestOfSegment(p)
          /\ Transactional(p)' = Transactional(p)
      BY <1>4, <3>1 DEF SegmentSteps, RestOfSegment, Later, Transactional
    <3>3. SegmentSteps(p) \subseteq pending[p]
      <4> SUFFICES ASSUME NEW t \in SegmentSteps(p) PROVE t \in pending[p]
        OBVIOUS
      <4>1. t \in Nat /\ at[p] \in Nat /\ t \in plan[run[p]]
        BY <1>2, Numbers DEF SegmentSteps
      <4>2. ~(t > at[p])
        BY <2>5, <4>1 DEF RestOfSegment, Later
      <4> QED
        BY <2>2, <4>1, <4>2
    <3>6. HoldInv(p)'
      BY <1>1, <1>2, <1>3, <1>4, <2>1, <3>1 DEF ProcessInv, HoldInv
    <3>7. SentInv(p)'
      BY <1>4, <1>5 DEF SentInv
    <3>8. WorkInv(p)'
      BY <1>4, <1>6, <1>7, <2>1, <3>1 DEF WorkInv
    <3>9. PendInv(p)'
      BY <1>2, <1>3, <1>4, <2>1, <2>3, <3>1 DEF PendInv
    <3>10. InSegment(p)'
      BY <1>4, <1>7, <2>5, <3>1, <3>2, <3>3 DEF InSegment, Ending, Busy
    <3>11. InStep(p)'
      BY <1>4, <1>5, <3>1 DEF InStep
    <3> QED
      BY <1>2, <2>1, <3>6, <3>7, <3>8, <3>9, <3>10, <3>11, GoingOn
         DEF ProcessInv
  <2> QED
    BY <1>7, <2>4, <2>5 DEF Complete, EndStep
<1>8. CASE ~Transactional(p)
  <2>1. plan[run[p]] = {at[p]}
    BY <1>2, <1>8 DEF Transactional
  <2>2. RestOfSegment(p) = {}
    <3>1. at[p] \in Nat
      BY <1>2, Numbers
    <3> QED
      BY <2>1, <3>1 DEF RestOfSegment, Later
  <2>3. /\ pc'[p] = "record" /\ at' = at /\ logged' = logged
        /\ journal' = [journal EXCEPT ![run[p]] = @ \cup {completion}]
    BY <1>2, <1>8, <2>2
       DEF Complete, EndStep, WriteJournal, DomainInv, completion
  <2>4. Adds(p, {completion}) /\ Fits(p, {completion})
    BY <1>2, <1>3, <1>8, <2>3 DEF Adds, Fits, DomainInv, Transactional
  <2>5. Noting(p, {completion})
    BY <1>2, <1>4, <2>3, <2>4 DEF Noting, Same, DomainInv
  <2>6. pending[p] = {} /\ logged[p] = {}
    BY <1>2, <1>8, <2>1 DEF ProcessInv, PendInv, Transactional
  <2>7. /\ SegmentSteps(p)' = SegmentSteps(p)
        /\ RestOfSegment(p)' = RestOfSegment(p)
        /\ Transactional(p)' = Transactional(p)
        /\ SegmentSteps(p) \subseteq AutoCommit
    BY <1>4, <1>8, <2>1, <2>3
       DEF SegmentSteps, RestOfSegment, Later, Transactional
  <2>8. HoldInv(p)'
    BY <1>1, <1>2, <1>3, <1>4, <2>3, <2>4 DEF ProcessInv, HoldInv, Adds
  <2>9. SentInv(p)'
    BY <1>4, <1>5 DEF SentInv
  <2>10. WorkInv(p)'
    BY <1>3, <1>4, <1>5, <1>6, <1>8, <2>3, <2>4, <2>7
       DEF WorkInv, Unlanded, Adds
  <2>11. PendInv(p)'
    BY <1>4, <2>3, <2>6 DEF PendInv
  <2>12. InSegment(p)'
    BY <1>4, <2>2, <2>3, <2>6, <2>7 DEF InSegment, Ending, Busy
  <2>13. InStep(p)'
    BY <1>4, <1>5, <2>3 DEF InStep
  <2> QED
    BY <1>2, <2>5, <2>8, <2>9, <2>10, <2>11, <2>12, <2>13, GoingOnNoting
       DEF ProcessInv
<1> QED
  BY <1>7, <1>8

(* The observed event of a committed step.                                 *)
LEMMA RecordingStep ==
    ASSUME IInv, NEW p \in Session, RecordStep(p)
    PROVE  IInv'
<1>1. pc[p] = "record"
  BY DEF RecordStep
<1>2. /\ DomainInv /\ ProcessInv(p) /\ conn[p] = "open" /\ run[p] \in Run
  BY <1>1, Before
<1>3. PICK s \in SegmentSteps(p) :
         \/ WriteJournal(p, {[EventOf(p, "observed", "completed")
                              EXCEPT !.step = s]})
         \/ UNCHANGED journal
  BY DEF RecordStep
<1> DEFINE observed == [EventOf(p, "observed", "completed") EXCEPT !.step = s]
<1>4. /\ observed.step = s /\ observed.kind = "observed"
      /\ observed.outcome = "completed" /\ observed.exec = exec[p]
  BY DEF EventOf
<1> HIDE DEF observed
<1>5. PICK E \in SUBSET {observed} : Adds(p, E)
  <2>1. CASE UNCHANGED journal
    <3>1. Adds(p, {})
      BY <1>2, <2>1 DEF Adds, DomainInv
    <3> QED
      BY <3>1
  <2>2. CASE WriteJournal(p, {observed})
    <3>1. Adds(p, {observed})
      BY <1>2, <2>2 DEF Adds, DomainInv, WriteJournal
    <3> QED
      BY <3>1
  <2> QED
    BY <1>3, <2>1, <2>2 DEF observed
<1>6. s \in AutoCommit \/ s \in landed[run[p]]
  BY <1>1, <1>2 DEF ProcessInv, InSegment
<1>7. Fits(p, E)
  BY <1>4, <1>5, <1>6 DEF Fits, Outcome
<1>8. /\ UNCHANGED <<object, plan, landed, settled, runLock, run, exec,
                     objectLock, conn, sent, pending, pc, at, logged>>
  BY DEF RecordStep, catalogueVars, sessionVars, historyVars
<1>9. Noting(p, E)
  BY <1>2, <1>5, <1>7, <1>8 DEF Noting, Same, DomainInv
<1>10. /\ SegmentSteps(p)' = SegmentSteps(p)
       /\ RestOfSegment(p)' = RestOfSegment(p)
       /\ Transactional(p)' = Transactional(p) /\ Inflight(p)' = Inflight(p)
  BY <1>8 DEF SegmentSteps, RestOfSegment, Later, Transactional, Inflight
<1>11. sent[p] \notin {"statement", "commit"}
  BY <1>1, <1>2 DEF ProcessInv, SentInv
<1>12. HoldInv(p)'
  BY <1>1, <1>2, <1>4, <1>5, <1>8 DEF ProcessInv, HoldInv, Adds
<1>13. SentInv(p)'
  BY <1>8, <1>11 DEF SentInv
<1>14. WorkInv(p)'
  BY <1>1, <1>2, <1>4, <1>5, <1>8, <1>10
     DEF ProcessInv, WorkInv, Working, Unlanded, Adds
<1>15. PendInv(p)'
  BY <1>2, <1>8 DEF ProcessInv, PendInv
<1>16. InSegment(p)'
  BY <1>1, <1>2, <1>8, <1>10 DEF ProcessInv, InSegment, Ending, Busy
<1>17. InStep(p)'
  BY <1>1, <1>8, <1>11 DEF InStep
<1> QED
  BY <1>2, <1>9, <1>12, <1>13, <1>14, <1>15, <1>16, <1>17, GoingOnNoting
     DEF ProcessInv

-----------------------------------------------------------------------------
(* The server.                                                             *)

LEMMA StatementEnding ==
    ASSUME IInv, NEW p \in Session, StatementEnds(p)
    PROVE  IInv'
<1>1. /\ sent[p] = "statement" /\ DomainInv /\ ProcessInv(p)
      /\ \A r \in Run : RunInv(r)
  BY DEF StatementEnds, IInv
<1>2. /\ conn[p] # "closed" /\ run[p] \in Run
      /\ pc[p] \in {"running", "idle"}
      /\ plan[run[p]] \subseteq Step /\ at[p] \in plan[run[p]]
      /\ \A s \in plan[run[p]] \cap AutoCommit : plan[run[p]] = {s}
  BY <1>1, PlansOfSteps DEF ProcessInv, HoldInv, SentInv, None
<1>3. /\ UNCHANGED <<plan, journal, settled, runLock, run, exec, at, pc, conn,
                     logged, objectLock>>
      /\ sent' \in {[sent EXCEPT ![p] = "ok"], [sent EXCEPT ![p] = "failed"]}
  BY DEF StatementEnds, recordVars, processVars
<1>4. /\ SegmentSteps(p)' = SegmentSteps(p)
      /\ Transactional(p)' = Transactional(p)
      /\ sent'[p] \in {"ok", "failed"} /\ ~Inflight(p)'
      /\ DOMAIN sent' = Session
      /\ \A q \in Session \ {p} : sent'[q] = sent[q]
  BY <1>1, <1>3 DEF SegmentSteps, Transactional, Inflight, DomainInv
<1>5. SentInv(p)'
  BY <1>4 DEF SentInv
<1>6. CASE /\ Transactional(p)
           /\ pending' = [pending EXCEPT ![p] = @ \cup {at[p]}]
           /\ sent' = [sent EXCEPT ![p] = "ok"]
           /\ UNCHANGED <<object, landed>>
  <2>1. pending'[p] = pending[p] \cup {at[p]} /\ Quiet(p)
    BY <1>1, <1>3, <1>4, <1>6 DEF Quiet, Same, DomainInv
  <2>2. HoldInv(p)'
    BY <1>1, <1>2, <1>3 DEF ProcessInv, HoldInv
  <2>3. WorkInv(p)'
    BY <1>1, <1>2, <1>3, <1>4, <1>6
       DEF ProcessInv, WorkInv, Working, Unlanded, Inflight, Busy
  <2>4. PendInv(p)'
    <3>1. /\ objectLock[at[p]] = p /\ object[at[p]] = "before"
          /\ \E e \in logged[p] : e.step = at[p] /\ e.kind = "intent"
          /\ at[p] \in plan[run[p]] \ AutoCommit
      BY <1>1, <1>2, <1>6 DEF ProcessInv, InStep, Announced, Transactional
    <3> QED
      BY <1>1, <1>3, <1>6, <2>1, <3>1 DEF ProcessInv, PendInv
  <2>5. InSegment(p)'
    BY <1>1, <1>2, <1>3, <1>4, <2>1 DEF ProcessInv, InSegment, Ending, Busy
  <2>6. InStep(p)'
    BY <1>1, <1>2, <1>3, <1>4, <1>6, <2>1 DEF ProcessInv, InStep
  <2> QED
    BY <1>2, <1>5, <2>1, <2>2, <2>3, <2>4, <2>5, <2>6, GoingOn DEF ProcessInv
<1>7. ASSUME ~Transactional(p), DOMAIN object' = Step, UNCHANGED pending,
             \A s \in Step \ AutoCommit : object'[s] = object[s],
             landed' \in {landed, [landed EXCEPT ![run[p]] = @ \cup {at[p]}]}
      PROVE  IInv'
  <2>1. at[p] \in AutoCommit /\ plan[run[p]] = {at[p]} /\ at[p] \in Step
    BY <1>2, <1>7 DEF Transactional
  <2>2. /\ DOMAIN landed' = Run
        /\ landed[run[p]] \subseteq landed'[run[p]]
        /\ landed'[run[p]] \subseteq landed[run[p]] \cup {at[p]}
        /\ \A r \in Run \ {run[p]} : landed'[r] = landed[r]
    BY <1>1, <1>2, <1>7 DEF DomainInv
  <2>3. DomainInv'
    BY <1>1, <1>3, <1>4, <1>7, <2>2 DEF DomainInv
  <2>4. Alone(p)
    BY <1>3, <1>4, <1>7, <2>2 DEF Alone, Same
  <2>5. \A r \in Run : r = run[p] => RunInv(r)'
    <3>1. \E e \in journal[run[p]] : e.step = at[p] /\ e.kind = "intent"
      BY <1>1, <1>7 DEF ProcessInv, InStep, Announced
    <3> SUFFICES ASSUME NEW r \in Run, r = run[p] PROVE RunInv(r)'
      OBVIOUS
    <3>2. RunInv(r)
      BY <1>1
    <3>3. /\ landed[r] \subseteq landed'[r]
          /\ \A s \in landed'[r] : s \in landed[r] \/ s = at[p]
      BY <2>2
    <3>4. \A s \in landed'[r] :
             /\ s \in Step
             /\ \E e \in journal[r] : e.step = s /\ e.kind = "intent"
      BY <2>1, <3>1, <3>2, <3>3 DEF RunInv
    <3>5. \A e \in journal[r] : e.step \notin AutoCommit =>
             (e.step \in landed'[r] <=> e.step \in landed[r])
      BY <2>1, <3>3
    <3> QED
      BY <1>3, <3>2, <3>4, <3>5 DEF RunInv
  <2>6. HoldInv(p)'
    BY <1>1, <1>2, <1>3, <1>7 DEF ProcessInv, HoldInv
  <2>7. WorkInv(p)'
    <3>1. ~Unlanded(p)'
      BY <1>2, <1>3, <1>4, <1>7 DEF Unlanded
    <3>2. Working(p) /\ SegmentOf[at[p]] \in Nat
      BY <1>1, <2>1, Numbers DEF Working, Inflight
    <3>3. /\ \A s \in landed'[run[p]] : SegmentOf[s] <= SegmentOf[at[p]]
          /\ \A s \in plan[run[p]] : SegmentOf[s] < SegmentOf[at[p]] =>
                s \in landed'[run[p]]
      BY <1>1, <2>2, <3>2 DEF ProcessInv, WorkInv
    <3> QED
      BY <1>1, <1>3, <3>1, <3>2, <3>3 DEF ProcessInv, WorkInv
  <2>8. PendInv(p)'
    <3>1. pending[p] = {}
      BY <1>1, <2>1 DEF ProcessInv, PendInv
    <3> QED
      BY <1>1, <1>3, <1>7, <3>1 DEF ProcessInv, PendInv
  <2>9. InSegment(p)'
    BY <1>1, <1>2, <1>3, <1>4, <1>7 DEF ProcessInv, InSegment, Ending, Busy
  <2>10. InStep(p)'
    BY <1>2, <1>3, <1>4, <1>7 DEF InStep
  <2> QED
    BY <1>2, <1>5, <2>3, <2>4, <2>5, <2>6, <2>7, <2>8, <2>9, <2>10, OneSession
       DEF ProcessInv
<1>8. CASE /\ ~Transactional(p)
           /\ object' = [object EXCEPT ![at[p]] = "after"]
           /\ landed' = [landed EXCEPT ![run[p]] = @ \cup {at[p]}]
           /\ UNCHANGED pending
  BY <1>1, <1>7, <1>8 DEF DomainInv, Transactional
<1>9. CASE /\ object' \in {object, [object EXCEPT ![at[p]] =
                    IF @ = "before" /\ ~ Transactional(p)
                    THEN "invalid" ELSE @]}
           /\ sent' = [sent EXCEPT ![p] = "failed"]
           /\ UNCHANGED <<pending, landed>>
  <2>1. CASE ~Transactional(p)
    BY <1>1, <1>7, <1>9, <2>1 DEF DomainInv, Transactional
  <2>2. CASE Transactional(p)
    <3>1. DOMAIN object' = Step /\ \A s \in Step : object'[s] = object[s]
      BY <1>1, <1>9, <2>2 DEF DomainInv
    <3>2. DomainInv'
      BY <1>1, <1>3, <1>4, <1>9, <3>1 DEF DomainInv
    <3>3. Alone(p) /\ sent'[p] = "failed"
      BY <1>1, <1>3, <1>4, <1>9, <3>1 DEF Alone, Same, DomainInv
    <3>4. \A r \in Run : r = run[p] => RunInv(r)'
      BY <1>1, <1>3, <1>9 DEF RunInv
    <3>5. HoldInv(p)'
      BY <1>1, <1>2, <1>3, <1>9 DEF ProcessInv, HoldInv
    <3>6. WorkInv(p)'
      BY <1>1, <1>2, <1>3, <1>4, <1>9
         DEF ProcessInv, WorkInv, Working, Unlanded, Inflight, Busy
    <3>7. PendInv(p)'
      <4>1. pending[p] \subseteq Step
        BY <1>1, <1>2 DEF ProcessInv, PendInv
      <4> QED
        BY <1>1, <1>3, <1>9, <3>1, <4>1 DEF ProcessInv, PendInv
    <3>8. InSegment(p)'
      BY <1>1, <1>2, <1>3, <1>4, <1>9 DEF ProcessInv, InSegment, Ending, Busy
    <3>9. InStep(p)'
      <4>1. /\ InStep(p) /\ Announced(p)' = Announced(p)
            /\ object'[at[p]] = object[at[p]]
        BY <1>1, <1>2, <1>3, <1>4, <3>1
           DEF ProcessInv, Announced, Transactional
      <4> QED
        BY <1>1, <1>2, <1>3, <1>4, <3>3, <4>1 DEF InStep
    <3> QED
      BY <1>2, <1>5, <3>2, <3>3, <3>4, <3>5, <3>6, <3>7, <3>8, <3>9,
         OneSession DEF ProcessInv
  <2> QED
    BY <2>1, <2>2
<1> QED
  BY <1>6, <1>8, <1>9 DEF StatementEnds

(* A COMMIT ends: all of the segment, with its events, or nothing of it.   *)
LEMMA CommitEnding ==
    ASSUME IInv, NEW p \in Session, CommitEnds(p)
    PROVE  IInv'
<1>1. /\ sent[p] = "commit" /\ DomainInv /\ ProcessInv(p)
      /\ \A r \in Run : RunInv(r)
  BY DEF CommitEnds, IInv
<1>2. /\ conn[p] # "closed" /\ run[p] \in Run
      /\ pc[p] \in {"committing", "idle"}
      /\ plan[run[p]] \subseteq Step /\ at[p] \in plan[run[p]]
      /\ SegmentSteps(p) \subseteq pending[p]
      /\ Working(p) /\ Unlanded(p)
  BY <1>1, PlansOfSteps
     DEF ProcessInv, HoldInv, SentInv, None, Working, Unlanded, Inflight
<1>3. /\ UNCHANGED <<plan, settled, runLock, run, exec, at, pc, conn>>
      /\ sent' \in {[sent EXCEPT ![p] = "ok"], [sent EXCEPT ![p] = "failed"]}
      /\ pending' = [pending EXCEPT ![p] = {}]
      /\ logged' = [logged EXCEPT ![p] = {}]
      /\ objectLock' = Unlocked(objectLock, p)
      /\ \/ /\ object' = [s \in Step |-> IF s \in pending[p] THEN "after"
                                         ELSE object[s]]
            /\ landed' = [landed EXCEPT ![run[p]] = @ \cup pending[p]]
            /\ WriteJournal(p, logged[p])
         \/ /\ sent' = [sent EXCEPT ![p] = "failed"]
            /\ UNCHANGED <<object, landed, journal>>
  BY DEF CommitEnds, processVars
<1>4. /\ SegmentSteps(p)' = SegmentSteps(p)
      /\ RestOfSegment(p)' = RestOfSegment(p)
      /\ Transactional(p)' = Transactional(p)
      /\ sent'[p] \in {"ok", "failed"} /\ ~Inflight(p)'
      /\ DOMAIN sent' = Session
      /\ \A q \in Session \ {p} : sent'[q] = sent[q]
      /\ pending'[p] = {} /\ logged'[p] = {}
  BY <1>1, <1>3 DEF SegmentSteps, RestOfSegment, Later, Transactional,
                    Inflight, DomainInv
<1>5. /\ run[p] \notin settled
      /\ \A e \in journal[run[p]] : e.outcome \in {None, "completed"}
      /\ \A s \in plan[run[p]] :
            SegmentOf[s] < SegmentOf[at[p]] => s \in landed[run[p]]
      /\ \A s \in landed[run[p]] : SegmentOf[s] <= SegmentOf[at[p]]
  BY <1>1, <1>2 DEF ProcessInv, WorkInv
<1>6. /\ PendInv(p) /\ RunInv(run[p])
      /\ \A e \in journal[run[p]] \cup logged[p] : e.exec = exec[p]
      /\ SegmentOf[at[p]] \in Nat
  BY <1>1, <1>2, Numbers DEF ProcessInv, HoldInv
<1>7. /\ DOMAIN landed' = Run /\ DOMAIN journal' = Run /\ DOMAIN object' = Step
      /\ \A r \in Run \ {run[p]} :
            landed'[r] = landed[r] /\ journal'[r] = journal[r]
      /\ \A s \in Step : s \notin pending[p] => object'[s] = object[s]
      /\ \/ /\ landed'[run[p]] = landed[run[p]] \cup pending[p]
            /\ journal'[run[p]] = journal[run[p]] \cup logged[p]
         \/ /\ sent'[p] = "failed"
            /\ landed' = landed /\ journal' = journal
  BY <1>1, <1>2, <1>3 DEF WriteJournal, DomainInv
<1>8. DomainInv'
  BY <1>1, <1>3, <1>4, <1>7 DEF DomainInv, Unlocked
<1>9. Alone(p)
  <2>1. \A s \in Step : objectLock[s] = p \/ objectLock'[s] = objectLock[s]
    BY <1>1, <1>3 DEF Unlocked, DomainInv
  <2>2. \A s \in Step : objectLock[s] = p \/ object'[s] = object[s]
    BY <1>6, <1>7 DEF PendInv
  <2>3. \A q \in Session \ {p} : Same(q)
    BY <1>1, <1>3, <1>4 DEF Same, DomainInv
  <2> QED
    BY <1>3, <1>7, <2>1, <2>2, <2>3 DEF Alone
<1>10. \A r \in Run : r = run[p] => RunInv(r)'
  <2> SUFFICES ASSUME NEW r \in Run, r = run[p] PROVE RunInv(r)'
    OBVIOUS
  <2>1. CASE landed' = landed /\ journal' = journal
    BY <1>3, <1>6, <2>1 DEF RunInv
  <2>2. CASE /\ landed'[r] = landed[r] \cup pending[p]
             /\ journal'[r] = journal[r] \cup logged[p]
    <3>1. \A e, f \in journal'[r] : e.exec = f.exec
      BY <1>6, <2>2
    <3>2. ASSUME NEW e \in journal'[r]
          PROVE  /\ e.kind = "observed" \/ e.outcome = None
                 /\ e.outcome \in Outcome \cup {None}
                 /\ e.step \notin AutoCommit =>
                       /\ e.outcome \in {None, "completed"}
                              => e.step \in landed'[r]
                       /\ e.outcome \in {"not-applied", "unknown"}
                              => e.step \notin landed'[r]
      <4>1. CASE e \in journal[r]
        BY <1>5, <1>6, <2>2, <4>1 DEF RunInv, None
      <4>2. CASE e \in logged[p]
        <5>1. e.outcome = None /\ e.step \in SegmentSteps(p)
          BY <1>6, <4>2 DEF PendInv, SegmentSteps
        <5> QED
          BY <1>2, <2>2, <5>1 DEF None
      <4> QED
        BY <2>2, <4>1, <4>2
    <3>3. ASSUME NEW s \in landed'[r]
          PROVE  /\ s \in Step
                 /\ \E e \in journal'[r] : e.step = s /\ e.kind = "intent"
      <4>1. CASE s \in landed[r]
        BY <1>6, <2>2, <4>1 DEF RunInv
      <4>2. CASE s \in pending[p]
        BY <1>2, <1>6, <2>2, <4>2 DEF PendInv
      <4> QED
        BY <2>2, <4>1, <4>2
    <3> QED
      BY <1>3, <1>5, <3>1, <3>2, <3>3 DEF RunInv
  <2> QED
    BY <1>7, <2>1, <2>2
<1>11. HoldInv(p)'
  BY <1>1, <1>2, <1>3, <1>4, <1>6, <1>7 DEF ProcessInv, HoldInv
<1>12. SentInv(p)'
  BY <1>4 DEF SentInv
<1>13. WorkInv(p)'
  <2>1. ~Unlanded(p)'
    BY <1>2, <1>3, <1>4 DEF Unlanded, Busy
  <2>2. \A e \in journal'[run[p]] : e.outcome \in {None, "completed"}
    BY <1>5, <1>6, <1>7 DEF PendInv
  <2>3. \A s \in landed'[run[p]] : SegmentOf[s] <= SegmentOf[at[p]]
    BY <1>5, <1>6, <1>7 DEF PendInv
  <2>4. \A s \in plan[run[p]] :
           SegmentOf[s] < SegmentOf[at[p]] => s \in landed'[run[p]]
    BY <1>5, <1>7
  <2> QED
    BY <1>3, <1>5, <2>1, <2>2, <2>3, <2>4 DEF WorkInv
<1>14. PendInv(p)'
  BY <1>4 DEF PendInv
<1>15. InSegment(p)'
  BY <1>1, <1>2, <1>3, <1>4, <1>7 DEF ProcessInv, InSegment, Ending, Busy
<1>16. InStep(p)'
  BY <1>2, <1>3, <1>4 DEF InStep
<1> QED
  BY <1>2, <1>8, <1>9, <1>10, <1>11, <1>12, <1>13, <1>14, <1>15, <1>16,
     OneSession DEF ProcessInv

-----------------------------------------------------------------------------
(* Runs are planned, taken and given back to nobody; others drift.         *)

LEMMA Planning ==
    ASSUME IInv, NEW r \in Run, PlanRun(r)
    PROVE  IInv'
<1>1. DomainInv /\ \A q \in Session : ProcessInv(q)
  BY DEF IInv
<1>2. PICK P \in Plans : plan' = [plan EXCEPT ![r] = P]
  BY DEF PlanRun
<1>3. /\ UNCHANGED <<object, objectLock, journal, landed, settled, runLock,
                     pc, run, exec, at, conn, sent, pending, logged>>
      /\ plan[r] = {}
  BY DEF PlanRun, catalogueVars, processVars, sessionVars, historyVars
<1>4. DomainInv'
  BY <1>1, <1>2, <1>3 DEF DomainInv
<1>5. ASSUME NEW q \in Run PROVE RunInv(q)'
  <2>1. RunInv(q)
    BY DEF IInv
  <2> QED
    BY <1>3, <2>1 DEF RunInv
<1>6. ASSUME NEW q \in Session PROVE ProcessInv(q)'
  <2>1. conn[q] # "closed" => run[q] \in Run \ {r} /\ runLock[run[q]] = q
    BY <1>1, <1>3 DEF ProcessInv, HoldInv
  <2>2. conn[q] # "closed" => plan'[run[q]] = plan[run[q]]
    BY <1>1, <1>2, <2>1 DEF DomainInv
  <2>3. Same(q)
    BY <1>3 DEF Same
  <2> QED
    BY <1>1, <1>3, <2>1, <2>2, <2>3, Untouched
<1> QED
  BY <1>4, <1>5, <1>6 DEF IInv

LEMMA Drifting ==
    ASSUME IInv, NEW s \in Step, Drift(s)
    PROVE  IInv'
<1>1. DomainInv /\ \A q \in Session : ProcessInv(q)
  BY DEF IInv
<1>2. /\ UNCHANGED <<plan, objectLock, journal, landed, settled, runLock,
                     pc, run, exec, at, conn, sent, pending, logged>>
      /\ objectLock[s] = None
      /\ \E state : object' = [object EXCEPT ![s] = state]
  BY DEF Drift, recordVars, processVars, sessionVars, historyVars
<1>3. DOMAIN object' = Step /\ \A t \in Step \ {s} : object'[t] = object[t]
  BY <1>1, <1>2 DEF DomainInv
<1>4. DomainInv'
  BY <1>1, <1>2, <1>3 DEF DomainInv
<1>5. ASSUME NEW r \in Run PROVE RunInv(r)'
  <2>1. RunInv(r)
    BY DEF IInv
  <2> QED
    BY <1>2, <2>1 DEF RunInv
<1>6. ASSUME NEW q \in Session PROVE ProcessInv(q)'
  <2>1. conn[q] # "closed" => run[q] \in Run /\ runLock[run[q]] = q
    BY <1>1 DEF ProcessInv, HoldInv
  <2>2. \A t \in Step : objectLock[t] = q => object'[t] = object[t]
    BY <1>2, <1>3, SessionAssumption
  <2>3. Same(q)
    BY <1>2 DEF Same
  <2> QED
    BY <1>1, <1>2, <2>1, <2>2, <2>3, Untouched
<1> QED
  BY <1>4, <1>5, <1>6 DEF IInv

(* A process takes a run nobody holds: to apply it, if nothing was ever    *)
(* written of it, to recover it otherwise.                                 *)
LEMMA Taking ==
    ASSUME IInv, NEW p \in Session, NEW r \in Run,
           NEW position \in {"loaded", "recover"}, NEW execution,
           Take(p, r, position, execution),
           UNCHANGED <<object, objectLock, plan, journal, pending, logged,
                       sent, landed, settled>>,
           position = "loaded" <=> journal[r] = {},
           \A e \in journal[r] : e.exec = execution
    PROVE  IInv'
<1>1. /\ DomainInv /\ \A q \in Session : ProcessInv(q)
      /\ RunInv(r) /\ conn[p] = "closed" /\ runLock[r] = None
  BY DEF IInv, Take
<1>2. PICK first \in plan[r] :
         IsFirst(first, plan[r]) /\ at' = [at EXCEPT ![p] = first]
  BY DEF Take
<1>3. /\ pc'[p] = position /\ conn'[p] = "open" /\ run'[p] = r
      /\ exec'[p] = execution /\ at'[p] = first /\ runLock'[r] = p
      /\ sent'[p] = None /\ pending'[p] = {} /\ logged'[p] = {}
      /\ \A q \in Session \ {p} : Same(q)
      /\ \A q \in Run \ {r} : runLock'[q] = runLock[q]
  BY <1>1, <1>2 DEF Take, DomainInv, Same, ProcessInv, HoldInv
<1>4. DomainInv'
  BY <1>1, <1>2 DEF Take, DomainInv
<1>5. ASSUME NEW q \in Run PROVE RunInv(q)'
  <2>1. RunInv(q)
    BY DEF IInv
  <2> QED
    BY <2>1 DEF RunInv
<1>6. ASSUME NEW q \in Session, q # p PROVE ProcessInv(q)'
  <2>1. conn[q] # "closed" => run[q] \in Run \ {r} /\ runLock[run[q]] = q
    BY <1>1, SessionAssumption DEF ProcessInv, HoldInv
  <2>2. Same(q)
    BY <1>3, <1>6
  <2> QED
    BY <1>1, <1>3, <2>1, <2>2, Untouched
<1>7. ProcessInv(p)'
  <2>1. HoldInv(p)'
    BY <1>3 DEF HoldInv
  <2>2. ~Inflight(p)' /\ SentInv(p)' /\ PendInv(p)'
    BY <1>3 DEF Inflight, SentInv, PendInv, None
  <2>3. plan[r] \subseteq Step
    BY <1>1, PlansOfSteps
  <2>4. WorkInv(p)'
    <3>1. CASE position = "recover"
      BY <1>3, <2>2, <3>1 DEF WorkInv, Working, Unlanded, Busy, Inflight
    <3>2. CASE position = "loaded"
      <4>1. journal[r] = {} /\ landed[r] = {} /\ r \notin settled
        BY <1>1, <3>2 DEF RunInv
      <4>2. \A s \in plan[r] : ~(SegmentOf[s] < SegmentOf[first])
        BY <1>2, <2>3, Numbers DEF IsFirst
      <4> QED
        BY <1>3, <4>1, <4>2 DEF WorkInv
    <3> QED
      BY <3>1, <3>2
  <2>5. InSegment(p)'
    BY <1>2, <1>3 DEF InSegment, Busy, Ending, IsFirst
  <2>6. InStep(p)'
    BY <1>3, <2>2 DEF InStep, Inflight
  <2> QED
    BY <2>1, <2>2, <2>4, <2>5, <2>6 DEF ProcessInv
<1> QED
  BY <1>4, <1>5, <1>6, <1>7 DEF IInv

LEMMA Beginning ==
    ASSUME IInv, NEW p \in Session, NEW r \in Run,
           BeginApply(p, r) \/ BeginRecover(p, r)
    PROVE  IInv'
<1>1. CASE BeginApply(p, r)
  BY <1>1, Taking
     DEF BeginApply, catalogueVars, recordVars, historyVars
<1>2. CASE BeginRecover(p, r)
  <2>1. PICK e \in journal[r] : Take(p, r, "recover", e.exec)
    BY <1>2 DEF BeginRecover
  <2>2. \A f \in journal[r] : f.exec = e.exec
    BY DEF IInv, RunInv
  <2>3. UNCHANGED <<object, objectLock, plan, journal, pending, logged, sent,
                    landed, settled>>
    BY <1>2 DEF BeginRecover, catalogueVars, recordVars, historyVars
  <2> QED
    BY <2>1, <2>2, <2>3, Taking
<1> QED
  BY <1>1, <1>2

(* What recovery adds to the journal is true: a transactional step it      *)
(* shows complete has landed.                                              *)
LEMMA Recovering ==
    ASSUME IInv, NEW p \in Session, RecoverStep(p)
    PROVE  IInv'
<1>1. pc[p] = "recover" /\ UNCHANGED <<object, plan, landed>>
  BY DEF RecoverStep
<1>2. /\ DomainInv /\ ProcessInv(p) /\ conn[p] = "open" /\ run[p] \in Run
      /\ at[p] \in plan[run[p]] /\ RunInv(run[p])
      /\ journal[run[p]] # {} /\ sent[p] = None
      /\ pending[p] = {} /\ logged[p] = {}
      /\ \A e \in journal[run[p]] : e.exec = exec[p]
  BY <1>1, Before DEF IInv, ProcessInv, HoldInv
<1>3. CASE \E told : Settle(p, told)
  <2>1. Adds(p, {}) /\ Fits(p, {})
    BY <1>2, <1>3 DEF Settle, Adds, Fits, DomainInv
  <2> QED
    BY <1>1, <1>2, <1>3, <2>1, Leaving DEF Settle
<1>4. CASE ShowsComplete(p)
  <2> DEFINE event == EventOf(p, "observed", "completed")
             E == IF ObservedAs(p, "completed") THEN {} ELSE {event}
  <2>1. at[p] \notin AutoCommit => at[p] \in landed[run[p]]
    <3>1. PICK e \in journal[run[p]] : e.step = at[p]
      BY <1>4 DEF ShowsComplete, EventsAt
    <3>2. \/ e.kind = "observed" /\ e.outcome \in Outcome
          \/ e.outcome = None
      BY <1>2 DEF RunInv
    <3>3. e.outcome \in {None, "completed"}
      BY <1>4, <3>1, <3>2 DEF ShowsComplete, ObservedAs, EventsAt
    <3> QED
      BY <1>2, <3>1, <3>3 DEF RunInv
  <2>2. Fits(p, E)
    BY <2>1 DEF Fits, EventOf, Outcome, None
  <2> HIDE DEF event
  <2>3. CASE WriteJournal(p, E) /\ (\E told : Leave(p, told))
                /\ settled' = settled \cup {run[p]}
    <3>1. Adds(p, E)
      BY <1>2, <2>3 DEF WriteJournal, Adds, DomainInv
    <3> HIDE DEF E
    <3> QED
      BY <1>1, <1>2, <2>2, <2>3, <3>1, Leaving
  <2>4. ASSUME WriteJournal(p, E), NEW s \in Later(p),
               at' = [at EXCEPT ![p] = s],
               UNCHANGED <<objectLock, runLock, pc, run, exec, sessionVars,
                           settled>>
        PROVE  IInv'
    <3>1. Adds(p, E)
      BY <1>2, <2>4 DEF WriteJournal, Adds, DomainInv
    <3> HIDE DEF E
    <3>2. Noting(p, E)
      BY <1>1, <1>2, <2>2, <2>4, <3>1
         DEF Noting, Same, DomainInv, sessionVars
    <3>3. /\ pc'[p] = "recover" /\ conn' = conn /\ run' = run /\ at'[p] = s
          /\ exec' = exec /\ runLock' = runLock /\ sent'[p] = None
          /\ pending'[p] = {} /\ logged'[p] = {} /\ s \in plan[run[p]]
          /\ journal'[run[p]] = journal[run[p]] \cup E
          /\ \A e \in E : e.exec = exec[p]
      BY <1>1, <1>2, <2>2, <2>4, <3>1
         DEF sessionVars, DomainInv, Later, Adds, Fits
    <3>4. HoldInv(p)'
      BY <1>1, <1>2, <3>3 DEF ProcessInv, HoldInv
    <3>5. ProcessInv(p)'
      BY <3>3, <3>4 DEF ProcessInv, SentInv, WorkInv, PendInv, InSegment,
                        InStep, Working, Unlanded, Inflight, Busy, Ending, None
    <3> QED
      BY <1>2, <3>2, <3>5, GoingOnNoting
  <2>5. CASE \E told : Settle(p, told)
    BY <1>3, <2>5
  <2>6. CASE /\ WriteJournal(p, E)
             /\ \/ \E s \in Later(p) :
                      /\ at' = [at EXCEPT ![p] = s]
                      /\ UNCHANGED <<objectLock, runLock, pc, run, exec,
                                     sessionVars, settled>>
                \/ /\ \E told : Leave(p, told)
                   /\ settled' = settled \cup {run[p]}
    BY <2>3, <2>4, <2>6
  <2> QED
    BY <2>5, <2>6 DEF RecoverStep, event
<1> QED
  BY <1>3, <1>4 DEF RecoverStep

-----------------------------------------------------------------------------
(* Every step keeps the invariant.                                         *)
LEMMA Preserving ==
    ASSUME IInv, [Next]_vars
    PROVE  IInv'
<1>1. ASSUME NEW p \in Session, ProcessStep(p)
      PROVE  IInv'
  BY <1>1, Authorizing, Refusing, Locking, Failing, Intending, Sending,
     Receiving, Verifying, Completing, Committing, ReceivingCommit,
     RecordingStep, NextSegmenting, Recovering
     DEF ProcessStep, ApplyStep
<1>2. ASSUME NEW p \in Session, ServerStep(p)
      PROVE  IInv'
  BY <1>2, StatementEnding, CommitEnding, Refusing DEF ServerStep
<1>3. CASE UNCHANGED vars
  <2>1. /\ DomainInv /\ \A r \in Run : RunInv(r)
        /\ \A p \in Session : ProcessInv(p)
    BY DEF IInv
  <2>2. UNCHANGED <<object, plan, journal, landed, settled, runLock, pc, run,
                    exec, at, conn, sent, pending, logged, objectLock>>
    BY <1>3 DEF vars, catalogueVars, recordVars, processVars, sessionVars,
                historyVars
  <2>3. DomainInv' /\ \A r \in Run : RunInv(r)'
    BY <2>1, <2>2 DEF DomainInv, RunInv
  <2>4. ASSUME NEW q \in Session PROVE ProcessInv(q)'
    <3>1. conn[q] # "closed" => runLock[run[q]] = q
      BY <2>1 DEF ProcessInv, HoldInv
    <3> QED
      BY <2>1, <2>2, <3>1, Untouched DEF Same
  <2> QED
    BY <2>3, <2>4 DEF IInv
<1> QED
  BY <1>1, <1>2, <1>3, Planning, Beginning, Losing, Drifting DEF Next

(* A run goes on without an effect: at most something is written of it, or *)
(* recovery classifies it after it has begun.                              *)
Continues(r) ==
    /\ plan'[r] = plan[r] /\ landed'[r] = landed[r]
    /\ journal[r] \subseteq journal'[r]
    /\ journal'[r] = journal[r] \/ plan[r] # {}
    /\ r \in settled => r \in settled'
    /\ r \in settled' => r \in settled \/ journal[r] # {}

(* A whole segment of a run takes effect, the next one in plan order, on   *)
(* the state the plan was proven from.                                     *)
Lands(r) ==
    \E s \in plan[r] :
        LET segment == {t \in plan[r] : SegmentOf[t] = SegmentOf[s]} IN
        /\ landed'[r] = landed[r] \cup segment
        /\ segment \cap landed[r] = {}
        /\ \A t \in plan[r] : SegmentOf[t] < SegmentOf[s] => t \in landed[r]
        /\ \A t \in segment : object[t] = "before"
        /\ plan'[r] = plan[r] /\ journal'[r] # {}
        /\ r \notin settled /\ r \notin settled'

LEMMA Continuing ==
    ASSUME IInv, NEW p \in Session, conn[p] # "closed", plan' = plan,
           landed' = landed,
           \/ UNCHANGED journal
           \/ \E E : WriteJournal(p, E),
           \/ settled' = settled
           \/ settled' = settled \cup {run[p]} /\ journal[run[p]] # {}
    PROVE  \A r \in Run : Continues(r)
<1>1. DomainInv /\ run[p] \in Run /\ plan[run[p]] # {}
  BY DEF IInv, ProcessInv, HoldInv
<1> QED
  BY <1>1 DEF Continues, WriteJournal, DomainInv

LEMMA LandingStatement ==
    ASSUME IInv, NEW p \in Session, StatementEnds(p)
    PROVE  \A r \in Run : Continues(r) \/ Lands(r)
<1>1. /\ sent[p] = "statement" /\ DomainInv /\ ProcessInv(p)
      /\ UNCHANGED <<plan, journal, settled>>
  BY DEF StatementEnds, IInv, recordVars
<1>2. /\ conn[p] # "closed" /\ run[p] \in Run /\ at[p] \in plan[run[p]]
      /\ \A s \in plan[run[p]] \cap AutoCommit : plan[run[p]] = {s}
  BY <1>1, PlansOfSteps DEF ProcessInv, HoldInv, SentInv, None
<1>3. CASE UNCHANGED landed
  BY <1>1, <1>2, <1>3, Continuing
<1>4. CASE /\ ~Transactional(p) /\ object[at[p]] = "before"
           /\ landed' = [landed EXCEPT ![run[p]] = @ \cup {at[p]}]
  <2>1. plan[run[p]] = {at[p]}
    BY <1>2, <1>4 DEF Transactional
  <2>2. journal[run[p]] # {}
    BY <1>1, <1>4 DEF ProcessInv, InStep, Announced
  <2>3. /\ run[p] \notin settled
        /\ \A t \in plan[run[p]] :
              SegmentOf[t] < SegmentOf[at[p]] => t \in landed[run[p]]
        /\ \A t \in landed[run[p]] : SegmentOf[t] # SegmentOf[at[p]]
    BY <1>1 DEF ProcessInv, WorkInv, Working, Unlanded, Inflight
  <2>4. /\ landed'[run[p]] = landed[run[p]] \cup {at[p]}
        /\ \A r \in Run \ {run[p]} : landed'[r] = landed[r]
    BY <1>1, <1>2, <1>4 DEF DomainInv
  <2>5. Lands(run[p])
    BY <1>1, <1>2, <1>4, <2>1, <2>2, <2>3, <2>4 DEF Lands
  <2>6. \A r \in Run \ {run[p]} : Continues(r)
    BY <1>1, <2>4 DEF Continues
  <2> QED
    BY <2>5, <2>6
<1> QED
  BY <1>3, <1>4 DEF StatementEnds

LEMMA LandingCommit ==
    ASSUME IInv, NEW p \in Session, CommitEnds(p)
    PROVE  \A r \in Run : Continues(r) \/ Lands(r)
<1>1. /\ sent[p] = "commit" /\ DomainInv /\ ProcessInv(p)
      /\ UNCHANGED <<plan, settled>>
  BY DEF CommitEnds, IInv
<1>2. /\ conn[p] # "closed" /\ run[p] \in Run /\ at[p] \in plan[run[p]]
      /\ Transactional(p) /\ SegmentSteps(p) \subseteq pending[p]
  BY <1>1 DEF ProcessInv, HoldInv, SentInv, None
<1>3. CASE UNCHANGED <<landed, journal>>
  BY <1>1, <1>2, <1>3, Continuing
<1>4. CASE /\ landed' = [landed EXCEPT ![run[p]] = @ \cup pending[p]]
           /\ WriteJournal(p, logged[p])
  <2>1. /\ pending[p] = SegmentSteps(p)
        /\ \A t \in pending[p] : object[t] = "before"
    BY <1>1, <1>2 DEF ProcessInv, PendInv, SegmentSteps
  <2>2. logged[p] # {}
    <3>1. at[p] \in pending[p]
      BY <1>2 DEF SegmentSteps
    <3> QED
      BY <1>1, <3>1 DEF ProcessInv, PendInv
  <2>3. /\ run[p] \notin settled
        /\ \A t \in plan[run[p]] :
              SegmentOf[t] < SegmentOf[at[p]] => t \in landed[run[p]]
        /\ \A t \in landed[run[p]] : SegmentOf[t] # SegmentOf[at[p]]
    BY <1>1, <1>2 DEF ProcessInv, WorkInv, Working, Unlanded, Inflight
  <2>4. /\ landed'[run[p]] = landed[run[p]] \cup pending[p]
        /\ journal'[run[p]] # {}
        /\ \A r \in Run \ {run[p]} :
              landed'[r] = landed[r] /\ journal'[r] = journal[r]
    BY <1>1, <1>2, <1>4, <2>2 DEF DomainInv, WriteJournal
  <2>5. Lands(run[p])
    BY <1>1, <1>2, <2>1, <2>3, <2>4 DEF Lands, SegmentSteps
  <2>6. \A r \in Run \ {run[p]} : Continues(r)
    BY <1>1, <2>4 DEF Continues
  <2> QED
    BY <2>5, <2>6
<1> QED
  BY <1>3, <1>4 DEF CommitEnds

(* The steps of a process land nothing themselves.                         *)
LEMMA ProcessContinues ==
    ASSUME IInv, NEW p \in Session, ProcessStep(p)
    PROVE  \A r \in Run : Continues(r)
<1>1. conn[p] # "closed"
  <2>1. pc[p] # "idle"
    BY DEF ProcessStep, ApplyStep, Authorize, Refuse, LockStep, RefuseStep,
           Unreadable, Intend, GuardFails, ClaimRefused, Send, Receive, Verify,
           VerifyFails, Complete, CompleteFails, Commit, ReceiveCommit,
           RecordStep, NextSegment, Finish, RecoverStep, RecoverFails, Move
  <2> QED
    BY <2>1, Before
<1>2. CASE ApplyStep(p)
  <2>1. UNCHANGED <<plan, landed, settled>>
    BY <1>2 DEF ApplyStep, Authorize, Refuse, LockStep, RefuseStep, Unreadable,
           Intend, GuardFails, ClaimRefused, Send, Receive, Verify,
           VerifyFails, Complete, CompleteFails, Commit, ReceiveCommit,
           RecordStep, NextSegment, Finish, recordVars, historyVars
  <2>2. UNCHANGED journal \/ \E E : WriteJournal(p, E)
    BY <1>2 DEF ApplyStep, Authorize, Refuse, LockStep, RefuseStep, Unreadable,
           Intend, GuardFails, ClaimRefused, Send, Receive, Verify,
           VerifyFails, Complete, CompleteFails, Commit, ReceiveCommit,
           RecordStep, NextSegment, Finish, recordVars, StopWith
  <2> QED
    BY <1>1, <2>1, <2>2, Continuing
<1>3. CASE RecoverStep(p)
  <2>1. UNCHANGED <<plan, landed>>
    BY <1>3 DEF RecoverStep
  <2>2. UNCHANGED journal \/ \E E : WriteJournal(p, E)
    BY <1>3 DEF RecoverStep, Settle
  <2>3. settled' = settled \/ settled' = settled \cup {run[p]}
    BY <1>3 DEF RecoverStep, Settle
  <2>4. journal[run[p]] # {}
    BY <1>3 DEF RecoverStep, IInv, ProcessInv, HoldInv
  <2> QED
    BY <1>1, <2>1, <2>2, <2>3, <2>4, Continuing
<1>4. CASE RecoverFails(p)
  <2>1. UNCHANGED <<plan, landed, settled, journal>>
    BY <1>4 DEF RecoverFails, recordVars, historyVars
  <2> QED
    BY <1>1, <2>1, Continuing
<1> QED
  BY <1>2, <1>3, <1>4 DEF ProcessStep

(* What a step does to a run.                                              *)
LEMMA StepOfRun ==
    ASSUME IInv, [Next]_vars, NEW r \in Run
    PROVE  Continues(r) \/ Lands(r) \/ PlanRun(r)
<1>1. ASSUME NEW q \in Run, PlanRun(q), q # r PROVE Continues(r)
  BY <1>1 DEF PlanRun, Continues, historyVars, IInv, DomainInv
<1>2. ASSUME UNCHANGED <<plan, journal, landed, settled>>
      PROVE  Continues(r)
  BY <1>2 DEF Continues
<1>3. ASSUME NEW p \in Session, NEW q \in Run,
             BeginApply(p, q) \/ BeginRecover(p, q)
      PROVE  Continues(r)
  BY <1>2, <1>3 DEF BeginApply, BeginRecover, recordVars, historyVars
<1>4. ASSUME NEW p \in Session, BackendEnds(p) \/ LoseSession(p)
      PROVE  Continues(r)
  BY <1>2, <1>4 DEF BackendEnds, LoseSession, recordVars, historyVars
<1>5. ASSUME NEW s \in Step, Drift(s) PROVE Continues(r)
  BY <1>2, <1>5 DEF Drift, recordVars, historyVars
<1>6. CASE UNCHANGED vars
  BY <1>2, <1>6 DEF vars, recordVars, historyVars
<1> QED
  BY <1>1, <1>3, <1>4, <1>5, <1>6, ProcessContinues, LandingStatement,
     LandingCommit DEF Next, ServerStep

-----------------------------------------------------------------------------
(* In every reachable state, whatever crashes, fails or drifts: the lock   *)
(* of a run is held by the one session that works on it or was left        *)
(* working on it, its journal is of one execution and tells the truth, and *)
(* what a session has pending is locked, proven and announced.             *)
THEOREM DurableInductiveInvariant == Spec => []IInv
<1>1. Init => IInv
  BY Initially
<1>2. IInv /\ [Next]_vars => IInv'
  BY Preserving
<1> QED
  BY <1>1, <1>2, PTL DEF Spec

(* A run that has begun is never begun again: all events of its journal    *)
(* are of one execution (executeLoadedPgRun in applier.ts, the journal's   *)
(* authorization and the run lock in lessor.ts).                           *)
THEOREM RunsHaveOneExecution == Spec => []OneExecutionPerRun
<1>1. IInv => OneExecutionPerRun
  BY DEF IInv, RunInv, OneExecutionPerRun
<1> QED
  BY <1>1, DurableInductiveInvariant, PTL

(* Every effect is announced in the journal, and every transactional step  *)
(* the journal reports as completed, not applied or unknown is what it     *)
(* says (the intent and completion of a step are written in its            *)
(* transaction, journal.ts; recovery adds what it verified, resume.ts).    *)
THEOREM JournalsTellTheTruth == Spec => []JournalTellsTheTruth
<1>1. ASSUME IInv PROVE JournalTellsTheTruth
  <2> SUFFICES ASSUME NEW r \in Run
               PROVE  /\ \A s \in landed[r] : \E e \in journal[r] :
                            e.step = s /\ e.kind = "intent"
                      /\ \A e \in journal[r] : e.step \notin AutoCommit =>
                            /\ e.kind = "completion" \/ e.outcome = "completed"
                                   => e.step \in landed[r]
                            /\ e.outcome \in {"not-applied", "unknown"}
                                   => e.step \notin landed[r]
    BY DEF JournalTellsTheTruth
  <2>1. RunInv(r)
    BY <1>1 DEF IInv
  <2> QED
    BY <2>1 DEF RunInv, None
<1> QED
  BY <1>1, DurableInductiveInvariant, PTL

(* A step takes effect only on the state its plan was proven from: the     *)
(* object is locked from before its fingerprint is compared until the      *)
(* COMMIT (applier.ts), or the build itself finds the name free.           *)
THEOREM EffectsAreProven == Spec => EffectsStartFromTheProvenState
<1>1. ASSUME IInv, [Next]_vars
      PROVE  \A r \in Run : \A s \in landed'[r] \ landed[r] :
                object[s] = "before"
  <2> SUFFICES ASSUME NEW r \in Run, NEW s \in landed'[r] \ landed[r]
               PROVE  object[s] = "before"
    OBVIOUS
  <2>1. Continues(r) \/ Lands(r) \/ PlanRun(r)
    BY <1>1, StepOfRun
  <2> QED
    BY <2>1 DEF Continues, Lands, PlanRun, historyVars
<1> QED
  BY <1>1, DurableInductiveInvariant, PTL
     DEF Spec, EffectsStartFromTheProvenState

(* Nothing is written of a run before it is planned.                       *)
WrittenIsPlanned == \A r \in Run : journal[r] # {} => plan[r] # {}

LEMMA WrittenRunsArePlanned == Spec => []WrittenIsPlanned
<1>1. Init => WrittenIsPlanned
  BY DEF Init, WrittenIsPlanned
<1>2. ASSUME IInv, WrittenIsPlanned, [Next]_vars
      PROVE  WrittenIsPlanned'
  <2> SUFFICES ASSUME NEW r \in Run, journal'[r] # {} PROVE plan'[r] # {}
    BY DEF WrittenIsPlanned
  <2>1. CASE Continues(r) \/ Lands(r)
    BY <1>2, <2>1 DEF Continues, Lands, WrittenIsPlanned
  <2>2. CASE PlanRun(r)
    BY <1>2, <2>2 DEF PlanRun, WrittenIsPlanned
  <2> QED
    BY <1>2, <2>1, <2>2, StepOfRun
<1> QED
  BY <1>1, <1>2, DurableInductiveInvariant, PTL DEF Spec

(* Each run, as its plan, its effects and its phase show it, is a run of   *)
(* RunPromise: begun once, whole segments in plan order, none twice, and   *)
(* nothing after recovery has classified it (applier.ts, resume.ts and     *)
(* lessor.ts; docs/adr/0005-durable-transition-execution.md).              *)
THEOREM RunsKeepTheirPromise == Spec => KeepsPromise
<1>1. ASSUME Init, NEW r \in Run PROVE PromiseOf(r)!Init
  BY <1>1 DEF Init, PromiseOf!Init, PhaseOf
<1>2. ASSUME IInv, WrittenIsPlanned, [Next]_vars, NEW r \in Run
      PROVE  [PromiseOf(r)!Next]_(PromiseOf(r)!runVars)
  <2>1. /\ DomainInv /\ plan[r] \subseteq Step
        /\ journal[r] # {} => plan[r] # {}
        /\ r \in settled => journal[r] # {}
    BY <1>2, PlansOfSteps DEF IInv, RunInv, WrittenIsPlanned
  <2>2. CASE Continues(r)
    <3>1. plan'[r] = plan[r] /\ landed'[r] = landed[r]
      BY <2>2 DEF Continues
    <3>2. \/ PhaseOf(r)' = PhaseOf(r)
          \/ PhaseOf(r) = "pristine" /\ PhaseOf(r)' = "begun"
          \/ PhaseOf(r) = "begun" /\ PhaseOf(r)' = "closed"
      BY <2>1, <2>2 DEF Continues, PhaseOf
    <3> QED
      BY <3>1, <3>2 DEF PromiseOf!Next, PromiseOf!Begin, PromiseOf!Close,
                        PromiseOf!runVars
  <2>3. CASE Lands(r)
    <3>1. PICK s \in plan[r] :
             LET segment == {t \in plan[r] : SegmentOf[t] = SegmentOf[s]} IN
             /\ landed'[r] = landed[r] \cup segment
             /\ segment \cap landed[r] = {}
             /\ \A t \in plan[r] :
                   SegmentOf[t] < SegmentOf[s] => t \in landed[r]
             /\ plan'[r] = plan[r] /\ journal'[r] # {}
             /\ r \notin settled /\ r \notin settled'
      BY <2>3 DEF Lands
    <3>2. PhaseOf(r) \in {"pristine", "begun"} /\ PhaseOf(r)' = "begun"
      BY <3>1 DEF PhaseOf
    <3>3. PromiseOf(r)!Land
      BY <3>1, <3>2 DEF PromiseOf!Land, PromiseOf!Reached,
                        PromiseOf!SegmentSteps
    <3> QED
      BY <3>3 DEF PromiseOf!Next
  <2>4. CASE PlanRun(r)
    <3>1. /\ plan[r] = {} /\ plan'[r] \in (SUBSET Step) \ {{}}
          /\ journal'[r] = journal[r] /\ landed'[r] = landed[r]
          /\ r \in settled' <=> r \in settled
      BY <2>1, <2>4, PlansAssumption DEF PlanRun, historyVars, DomainInv
    <3>2. PhaseOf(r) = "unplanned" /\ PhaseOf(r)' = "pristine"
      BY <2>1, <3>1 DEF PhaseOf
    <3>3. PromiseOf(r)!Plan
      BY <3>1, <3>2 DEF PromiseOf!Plan
    <3> QED
      BY <3>3 DEF PromiseOf!Next
  <2> QED
    BY <1>2, <2>2, <2>3, <2>4, StepOfRun
<1>3. Init => \A r \in Run : PromiseOf(r)!Init
  BY <1>1
<1>4. IInv /\ WrittenIsPlanned /\ [Next]_vars =>
         \A r \in Run : [PromiseOf(r)!Next]_(PromiseOf(r)!runVars)
  BY <1>2
<1> QED
  BY <1>3, <1>4, DurableInductiveInvariant, WrittenRunsArePlanned, PTL
     DEF Spec, KeepsPromise
=============================================================================
