--------------------------- MODULE ReaddressProofs ---------------------------
(***************************************************************************)
(* Proofs about Readdress, for any places, ledger homes, moves and         *)
(* catalogues and any number of runs, faults and steps of everybody else:  *)
(* that a move is whole, that what a run tells its caller is so and that   *)
(* the tables keep the ledger's lifecycle.  One inductive invariant says   *)
(* what a run has locked at each place and what therefore stays as it      *)
(* verified it until its COMMIT ends.                                      *)
(***************************************************************************)
EXTENDS Readdress, TLAPS

(* The frames an address can have.                                         *)
Removal(a) == [kind |-> "retire-intent", id |-> a, pair |-> None,
               before |-> "managed", phase |-> "claimed"]

ClosedFrames == {Frame(s, NoClaim) : s \in StableState}
OpenFrames == {Frame("managed", Removal(a)) : a \in Address}
Frames == ClosedFrames \cup OpenFrames \cup {Malformed}

(* Only members can lose their chain.                                      *)
FrameInv ==
    /\ frame \in [Address -> Frames]
    /\ \A p \in Place : frame[<<p, "table">>] # Malformed

(* A terminal event of a pair is of a move that was committed, on its side.*)
EndedInv ==
    \A a \in Address :
        /\ ended[a].side = "to" =>
              ended[a].pair \in landed /\ a[1] = Source(ended[a].pair)
        /\ ended[a].side = "from" =>
              ended[a].pair \in landed /\ a[1] = Target(ended[a].pair)

(* A process, or the backend it left, that has the lock of the table.      *)
Committing(r) == sent[r] = "commit"
Admitted(r) == pc[r] \in {"append", "ddl"} \/ Committing(r)

(* What is sent at each position, and what was told and has landed.        *)
PlaceInv(r) ==
    /\ pc[r] # "idle" <=> move[r] \in Moves
    /\ pc[r] \in {"idle", "noop", "locking", "verify", "append", "ended"}
           => sent[r] = None
    /\ pc[r] = "ddl" => sent[r] \in {"statement", "ok", "failed"}
    /\ pc[r] = "commit" => sent[r] \in {"commit", "ok", "failed"}
    /\ pc[r] = "locking" \/ pc[r] = "verify" \/ Admitted(r)
           => "table" \in seen[r]

AnswerInv(r) ==
    /\ pc[r] \notin {"gone", "ended"} => told[r] = None
    /\ Committing(r) => told[r] \in {None, "recovery-required"}
    /\ r \in landed => told[r] \in {None, "completed", "recovery-required"}
    /\ told[r] = "completed" => r \in landed
    /\ told[r] = "no-op" => \E q \in landed : move[q] = move[r]
    /\ r \in landed => /\ pc[r] \in {"commit", "gone", "ended"}
                       /\ ~Committing(r)
    /\ pc[r] = "commit" => (r \in landed <=> sent[r] = "ok")

(* The locks it holds.                                                     *)
LockInv(r) ==
    /\ pc[r] = "verify" \/ Admitted(r) =>
          \A h \in Homes(r) : homeLock[h] = r
    /\ Admitted(r) => tableLock[Source(r)] = r

(* What stays as it verified it, until its COMMIT ends.                    *)
VerifiedInv(r) ==
    /\ Admitted(r) =>
          /\ PartsAt(Source(r)) \subseteq seen[r]
          /\ frame[<<Source(r), "table">>].stable = "managed"
          /\ \A a \in SourcesOf(r) :
                /\ frame[a].stable \in {"unknown", "managed"}
                /\ frame[a].stable = "managed" =>
                      recorded[a] = witness[r][a[2]]
          /\ \A a \in TargetsOf(r) : frame[a].stable \in {"unknown", "absent"}
    /\ pc[r] = "ddl" \/ Committing(r) =>
          \A a \in SourcesOf(r) \cup TargetsOf(r) : ~IsOpen(frame[a])

RunInv(r) == PlaceInv(r) /\ AnswerInv(r) /\ LockInv(r) /\ VerifiedInv(r)

IInv == TypeOK /\ FrameInv /\ EndedInv /\ \A r \in Run : RunInv(r)

-----------------------------------------------------------------------------
(* Facts about the frames of an address.                                   *)

LEMMA ClosedFacts ==
    ASSUME NEW s
    PROVE  /\ Frame(s, NoClaim).stable = s
           /\ Frame(s, NoClaim).claim = NoClaim
           /\ Frame(s, NoClaim).claim.kind = None
           /\ ~IsOpen(Frame(s, NoClaim))
BY DEF Frame, NoClaim, IsOpen

LEMMA OpenFacts ==
    ASSUME NEW a
    PROVE  /\ Frame("managed", Removal(a)).stable = "managed"
           /\ Frame("managed", Removal(a)).claim = Removal(a)
           /\ Frame("managed", Removal(a)).claim.kind = "retire-intent"
           /\ IsOpen(Frame("managed", Removal(a)))
BY DEF Frame, NoClaim, IsOpen, Removal, None

LEMMA FrameFacts ==
    ASSUME NEW f \in Frames
    PROVE  /\ f.stable \in StableState \cup {"malformed"}
           /\ f.claim.kind \in {None, "retire-intent"}
           /\ ~IsOpen(f) /\ f # Malformed => f = Frame(f.stable, NoClaim)
           /\ IsOpen(f) => \E a \in Address : f = Frame("managed", Removal(a))
           /\ f # Malformed => f.stable \in StableState
           /\ f = Malformed => f.stable = "malformed"
<1>1. CASE f \in ClosedFrames
  BY <1>1, ClosedFacts DEF ClosedFrames, StableState, Malformed
<1>2. CASE f \in OpenFrames
  BY <1>2, OpenFacts, ClosedFacts DEF OpenFrames, StableState, Malformed
<1>3. CASE f = Malformed
  BY <1>3, ClosedFacts DEF Malformed
<1> QED
  BY <1>1, <1>2, <1>3 DEF Frames

(* A claim of a pair and its terminal, on each side of a move.             *)
LEMMA PairEdges ==
    ASSUME NEW r \in Run, NEW s \in StableState
    PROVE  /\ s = "managed" =>
                PairFrame(Frame(s, NoClaim), r, "to") = RootFrame
           /\ s # "managed" =>
                /\ PairFrame(Frame(s, NoClaim), r, "to") = Malformed
                /\ PairFrame(Frame(s, NoClaim), r, "from")
                      = Frame("managed", NoClaim)
<1> DEFINE claim == Event("readdress-intent", r, r, FALSE)
           c == [kind |-> "readdress-intent", id |-> r, pair |-> r,
                 before |-> s, phase |-> "claimed"]
           f == Frame(s, NoClaim)
           to == Event("readdressed-to", None, r, FALSE)
           from == Event("readdressed-from", None, r, TRUE)
<1>1. /\ r # None
      /\ OpensFrom["readdress-intent"] = StableState
  BY PlaceAssumption DEF OpensFrom, ClaimKind
<1>2. LegalEdge(f, claim)
  BY <1>1, ClosedFacts
     DEF LegalEdge, OpensClaim, Event, ClaimKind
<1>3. InterpretEdge(f, claim) = Frame(s, c)
  BY ClosedFacts DEF InterpretEdge, OpenedFrame, Event
<1>4. /\ IsOpen(Frame(s, c))
      /\ Frame(s, c).claim = c
  BY DEF IsOpen, Frame, NoClaim, None
<1>5. /\ LegalEdge(Frame(s, c), to) <=> s = "managed"
      /\ LegalEdge(Frame(s, c), from) <=> s # "managed"
  <2>1. "readdressed-to" \in ResolvesThrough["readdress-intent"]
    BY DEF ResolvesThrough, ClaimKind
  <2>2. "readdressed-from" \in ResolvesThrough["readdress-intent"]
    BY DEF ResolvesThrough, ClaimKind
  <2> QED
    BY <1>4, <2>1, <2>2 DEF LegalEdge, ResolvingEdge, Event
<1>6. InterpretEdge(Frame(s, c), to) = RootFrame
  BY <1>4 DEF InterpretEdge, ResolvedFrame, Event, RootFrame
<1>7. InterpretEdge(Frame(s, c), from) = Frame("managed", NoClaim)
  BY <1>4 DEF InterpretEdge, ResolvedFrame, Event
<1>8. /\ PairFrame(f, r, "to")
           = (IF LegalEdge(Frame(s, c), to)
              THEN InterpretEdge(Frame(s, c), to) ELSE Malformed)
      /\ PairFrame(f, r, "from")
           = (IF LegalEdge(Frame(s, c), from)
              THEN InterpretEdge(Frame(s, c), from) ELSE Malformed)
  BY <1>2, <1>3 DEF PairFrame
<1> QED
  BY <1>5, <1>6, <1>7, <1>8

(* The removals that everybody else opens and ends.                        *)
LEMMA RemovalEdges ==
    ASSUME NEW a
    PROVE  /\ InterpretEdge(Frame("managed", NoClaim),
                            Event("retire-intent", a, None, FALSE))
                = Frame("managed", Removal(a))
           /\ InterpretEdge(Frame("managed", Removal(a)),
                            Event("refused", None, None, FALSE))
                = Frame("managed", NoClaim)
           /\ InterpretEdge(Frame("managed", Removal(a)),
                            Event("absent", None, None, FALSE))
                = Frame("absent", NoClaim)
<1>1. InterpretEdge(Frame("managed", NoClaim),
                    Event("retire-intent", a, None, FALSE))
        = Frame("managed", Removal(a))
  BY ClosedFacts DEF InterpretEdge, OpenedFrame, Event, Removal
<1>2. InterpretEdge(Frame("managed", Removal(a)),
                    Event("refused", None, None, FALSE))
        = Frame("managed", NoClaim)
  BY OpenFacts DEF InterpretEdge, ResolvedFrame, Event
<1>3. InterpretEdge(Frame("managed", Removal(a)),
                    Event("absent", None, None, FALSE))
        = Frame("absent", NoClaim)
  BY OpenFacts DEF InterpretEdge, ResolvedFrame, Event
<1> QED
  BY <1>1, <1>2, <1>3

-----------------------------------------------------------------------------
(* Facts about the state.                                                  *)

LEMMA MoveFacts ==
    ASSUME NEW r \in Run, move[r] \in Moves
    PROVE  /\ Source(r) \in Place /\ Target(r) \in Place
           /\ Source(r) # Target(r)
           /\ move[r] = <<Source(r), Target(r)>>
           /\ HomeOf[Source(r)] \in Homes(r) /\ HomeOf[Target(r)] \in Homes(r)
           /\ Homes(r) \subseteq Home
           /\ Home \subseteq Nat
BY PlaceAssumption DEF Source, Target, Homes, Home

LEMMA AddressFacts ==
    ASSUME NEW a \in Address
    PROVE  /\ a = <<a[1], a[2]>> /\ a[1] \in Place /\ a[2] \in Part
           /\ \A r \in Run : /\ a \in SourcesOf(r) <=> /\ a[1] = Source(r)
                                                       /\ a[2] \in seen[r]
                             /\ a \in TargetsOf(r) <=> /\ a[1] = Target(r)
                                                       /\ a[2] \in seen[r]
BY DEF Address, SourcesOf, TargetsOf

LEMMA FrameInvImplies ==
    ASSUME FrameInv
    PROVE  \A a \in Address :
              /\ frame[a].stable \in StableState \cup {"malformed"}
              /\ frame[a].claim.kind \in {None, "retire-intent"}
BY FrameFacts DEF FrameInv

(* A run whose own state stays keeps what it has locked and verified, if   *)
(* nobody touches that.                                                    *)
Stays(r) ==
    /\ pc'[r] = pc[r] /\ move'[r] = move[r] /\ seen'[r] = seen[r]
    /\ witness'[r] = witness[r] /\ sent'[r] = sent[r] /\ told'[r] = told[r]
    /\ r \in landed' <=> r \in landed
    /\ \A h \in Home : homeLock[h] = r => homeLock'[h] = r
    /\ \A p \in Place : tableLock[p] = r => tableLock'[p] = r

LEMMA Unmoved ==
    ASSUME IInv, NEW r \in Run, Stays(r), landed \subseteq landed',
           \A q \in Run : move[q] \in Moves => move'[q] = move[q],
           Admitted(r) =>
              /\ \A q \in Part : live'[<<Source(r), q>>] # NoObject =>
                                     live[<<Source(r), q>>] # NoObject
              /\ \A a \in Address : a[1] \in {Source(r), Target(r)} =>
                    frame'[a] = frame[a] /\ recorded'[a] = recorded[a]
    PROVE  RunInv(r)'
<1> USE DEF Stays
<1>1. /\ PlaceInv(r) /\ AnswerInv(r) /\ LockInv(r) /\ VerifiedInv(r)
      /\ landed \subseteq Run
      /\ \A q \in landed : move[q] \in Moves
  BY DEF IInv, RunInv, TypeOK, PlaceInv, AnswerInv
<1>2. /\ Source(r)' = Source(r) /\ Target(r)' = Target(r)
      /\ SourcesOf(r)' = SourcesOf(r) /\ TargetsOf(r)' = TargetsOf(r)
      /\ Homes(r)' = Homes(r)
      /\ Admitted(r)' = Admitted(r) /\ Committing(r)' = Committing(r)
  BY DEF Source, Target, SourcesOf, TargetsOf, Homes, Admitted, Committing
<1>3. PlaceInv(r)'
  BY <1>1, <1>2 DEF PlaceInv
<1>4. AnswerInv(r)'
  <2>1. told[r] = "no-op" => \E q \in landed' : move'[q] = move'[r]
    BY <1>1 DEF AnswerInv
  <2> QED
    BY <1>1, <1>2, <2>1 DEF AnswerInv
<1>5. ASSUME pc[r] = "verify" \/ Admitted(r) PROVE LockInv(r)'
  <2>1. move[r] \in Moves
    BY <1>1, <1>5 DEF PlaceInv, Admitted, Committing, None
  <2> QED
    BY <1>1, <1>2, <2>1, MoveFacts DEF LockInv
<1>6. LockInv(r)'
  BY <1>2, <1>5 DEF LockInv
<1>7. ASSUME Admitted(r) PROVE VerifiedInv(r)'
  <2>1. move[r] \in Moves /\ "table" \in seen[r] /\ seen[r] \subseteq Part
    BY <1>1, <1>7 DEF PlaceInv, Admitted, Committing, None, IInv, TypeOK
  <2>2. /\ Source(r) \in Place /\ Target(r) \in Place
    BY <2>1, MoveFacts
  <2>3. \A a \in SourcesOf(r) \cup TargetsOf(r) :
           a \in Address /\ frame'[a] = frame[a] /\ recorded'[a] = recorded[a]
    BY <1>7, <2>1, <2>2 DEF Address, SourcesOf, TargetsOf
  <2>4. <<Source(r), "table">> \in SourcesOf(r)
    BY <2>1 DEF SourcesOf
  <2>5. PartsAt(Source(r))' \subseteq PartsAt(Source(r))
    BY <1>2, <1>7 DEF PartsAt
  <2> QED
    BY <1>1, <1>2, <1>7, <2>3, <2>4, <2>5 DEF VerifiedInv
<1>8. VerifiedInv(r)'
  BY <1>2, <1>7 DEF VerifiedInv, Admitted, Committing
<1> QED
  BY <1>3, <1>4, <1>6, <1>8 DEF RunInv

LEMMA MovesStay ==
    ASSUME IInv, landed' = landed, ended' = ended,
           \A q \in Run : move[q] \in Moves => move'[q] = move[q]
    PROVE  EndedInv'
<1>1. \A q \in landed : move'[q] = move[q]
  BY DEF IInv, RunInv, TypeOK, PlaceInv, AnswerInv
<1> QED
  BY <1>1 DEF IInv, EndedInv, Source, Target

(* What a run does to itself alone.                                        *)
LEMMA StepOfRun ==
    ASSUME IInv, TypeOK', NEW r \in Run,
           UNCHANGED <<ledgerVars, live, landed>>,
           \A q \in Run \ {r} : Stays(q),
           move[r] \in Moves => move'[r] = move[r],
           RunInv(r)'
    PROVE  IInv'
<1>1. \A q \in Run : move[q] \in Moves => move'[q] = move[q]
  BY DEF Stays
<1>2. \A q \in Run \ {r} : RunInv(q)'
  BY <1>1, Unmoved DEF ledgerVars
<1>3. EndedInv'
  BY <1>1, MovesStay DEF ledgerVars
<1>4. FrameInv'
  BY DEF IInv, FrameInv, ledgerVars
<1> QED
  BY <1>2, <1>3, <1>4 DEF IInv

LEMMA LocksGivenBack ==
    ASSUME NEW r \in Run, NEW lock, NEW new, new = Unlocked(lock, r)
    PROVE  /\ DOMAIN new = DOMAIN lock
           /\ \A x \in DOMAIN lock, q \in Run \ {r} :
                 lock[x] = q => new[x] = q
           /\ \A x \in DOMAIN lock : new[x] \in {lock[x], None}
BY DEF Unlocked

LEMMA Ending ==
    ASSUME IInv, NEW r \in Run, NEW answer, End(r, answer),
           UNCHANGED <<ledgerVars, live, landed>>, events' \in 0..MaxEvent,
           pc[r] # "idle",
           answer \in {None, "no-op", "refused", "completed", "failed",
                       "recovery-required"},
           answer = "completed" => r \in landed,
           answer = "no-op" => \E q \in landed : move[q] = move[r],
           r \in landed => answer \in {None, "completed", "recovery-required"}
    PROVE  IInv'
<1> USE DEF End
<1>1. TypeOK
  BY DEF IInv
<1>2. /\ homeLock' \in [Home -> Run \cup {None}]
      /\ \A q \in Run \ {r}, h \in Home : homeLock[h] = q => homeLock'[h] = q
  BY <1>1 DEF TypeOK, Unlocked
<1>3. /\ tableLock' \in [Place -> Run \cup {None}]
      /\ \A q \in Run \ {r}, p \in Place :
            tableLock[p] = q => tableLock'[p] = q
  BY <1>1 DEF TypeOK, Unlocked
<1>4. /\ pc' \in [Run -> {"idle", "noop", "locking", "verify", "append", "ddl",
                          "commit", "gone", "ended"}]
      /\ sent' \in [Run -> {None, "statement", "commit", "ok", "failed"}]
      /\ told' \in [Run -> {None, "no-op", "refused", "completed", "failed",
                            "recovery-required"}]
  BY <1>1 DEF TypeOK
<1>5. witness' \in [Run -> [Part -> Object \cup {NoObject}]]
  BY <1>1 DEF TypeOK, NoWitness
<1>6. TypeOK'
  BY <1>1, <1>2, <1>3, <1>4, <1>5 DEF TypeOK, ledgerVars
<1>7. \A q \in Run \ {r} : Stays(q)
  BY <1>1, <1>2, <1>3 DEF Stays, TypeOK
<1>8. /\ pc'[r] = "ended" /\ sent'[r] = None /\ told'[r] = answer
      /\ move' = move /\ landed' = landed
  BY <1>1 DEF TypeOK
<1>9. ~Admitted(r)' /\ ~Committing(r)' /\ None # "commit"
  BY <1>8 DEF Admitted, Committing, None
<1>10. RunInv(r)
  BY DEF IInv
<1>11. PlaceInv(r)'
  BY <1>8, <1>9, <1>10 DEF PlaceInv, RunInv
<1>12. AnswerInv(r)'
  BY <1>8, <1>9, <1>10 DEF AnswerInv
<1>13. LockInv(r)' /\ VerifiedInv(r)'
  BY <1>8, <1>9 DEF LockInv, VerifiedInv
<1>14. RunInv(r)'
  BY <1>11, <1>12, <1>13 DEF RunInv
<1> QED
  BY <1>6, <1>7, <1>8, <1>14, StepOfRun

-----------------------------------------------------------------------------
(* Each action of a run, and of the backend of its session.                *)

LEMMA Initially == Init => IInv
<1> SUFFICES ASSUME Init PROVE IInv
  OBVIOUS
<1> USE DEF Init
<1>1. RootFrame \in Frames /\ RootFrame # Malformed
  BY DEF RootFrame, Malformed, Frame, Frames, ClosedFrames, StableState
<1>2. FrameInv
  BY <1>1 DEF FrameInv, Address, Part
<1>3. EndedInv
  BY DEF EndedInv, NoPair, None
<1>4. TypeOK
  <2>1. live \in [Address -> Object \cup {NoObject}]
    BY CatalogueAssumption
  <2>2. NoPair \in [pair : Run \cup {None}, side : {None, "to", "from"}]
    BY DEF NoPair
  <2>3. \A r \in Run : witness[r] \in [Part -> Object \cup {NoObject}]
    BY DEF NoWitness
  <2> QED
    BY <1>2, <2>1, <2>2, <2>3, FrameInvImplies, BoundAssumption DEF TypeOK
<1>5. ASSUME NEW r \in Run PROVE RunInv(r)
  <2>1. /\ pc[r] = "idle" /\ sent[r] = None /\ told[r] = None
        /\ r \notin landed
    OBVIOUS
  <2>2. ~Admitted(r) /\ ~Committing(r) /\ None # "commit"
    BY <2>1 DEF Admitted, Committing, None
  <2>3. PlaceInv(r)
    <3>1. <<>> \notin Moves
      BY PlaceAssumption
    <3> QED
      BY <2>1, <2>2, <3>1 DEF PlaceInv
  <2>4. AnswerInv(r)
    BY <2>1, <2>2 DEF AnswerInv, None
  <2>5. LockInv(r) /\ VerifiedInv(r)
    BY <2>1, <2>2 DEF LockInv, VerifiedInv
  <2> QED
    BY <2>3, <2>4, <2>5 DEF RunInv
<1> QED
  BY <1>2, <1>3, <1>4, <1>5 DEF IInv

LEMMA Starting ==
    ASSUME IInv, NEW r \in Run, Start(r)
    PROVE  IInv'
<1> USE DEF Start
<1>1. TypeOK /\ RunInv(r)
  BY DEF IInv
<1>2. PICK m \in Moves :
         /\ move' = [move EXCEPT ![r] = m]
         /\ seen' = [seen EXCEPT ![r] = PartsAt(m[1])]
         /\ pc'[r] = "locking" => live[<<m[1], "table">>] # NoObject
    BY <1>1 DEF TypeOK
<1>3. /\ pc[r] = "idle" /\ sent[r] = None /\ told[r] = None
      /\ r \notin landed
  BY <1>1 DEF RunInv, PlaceInv, AnswerInv
<1>4. TypeOK'
  <2>1. PartsAt(m[1]) \subseteq Part
    BY DEF PartsAt
  <2>2. /\ seen' \in [Run -> SUBSET Part]
        /\ move' \in [Run -> Moves \cup {<<>>}]
    BY <1>1, <1>2, <2>1 DEF TypeOK
  <2>3. /\ pc' \in [Run -> {"idle", "noop", "locking", "verify", "append",
                            "ddl", "commit", "gone", "ended"}]
        /\ told' \in [Run -> {None, "no-op", "refused", "completed",
                              "failed", "recovery-required"}]
    BY <1>1 DEF TypeOK
  <2>4. UNCHANGED <<ledgerVars, live, lockVars, witness, sent, events, landed>>
    OBVIOUS
  <2> QED
    BY <1>1, <2>2, <2>3, <2>4 DEF TypeOK, ledgerVars, lockVars
<1>5. \A q \in Run \ {r} : Stays(q)
  BY <1>1, <1>2 DEF Stays, TypeOK, lockVars
<1>6. /\ pc'[r] \in {"locking", "noop", "ended"}
      /\ pc'[r] # "ended" => told'[r] = None
      /\ told'[r] \in {None, "refused"}
      /\ move'[r] = m /\ sent' = sent /\ landed' = landed
      /\ seen'[r] = PartsAt(m[1])
  BY <1>1, <1>2, <1>3 DEF TypeOK
<1>7. ~Admitted(r)' /\ ~Committing(r)' /\ None # "commit"
  BY <1>3, <1>6 DEF Admitted, Committing, None
<1>8. PlaceInv(r)'
  BY <1>2, <1>3, <1>6, <1>7 DEF PlaceInv, PartsAt, Part
<1>9. AnswerInv(r)'
  BY <1>3, <1>6, <1>7 DEF AnswerInv, None
<1>10. LockInv(r)' /\ VerifiedInv(r)'
  BY <1>6, <1>7 DEF LockInv, VerifiedInv
<1>11. RunInv(r)'
  BY <1>8, <1>9, <1>10 DEF RunInv
<1>12. move[r] \notin Moves
  BY <1>1, <1>3 DEF RunInv, PlaceInv
<1> QED
  BY <1>4, <1>5, <1>11, <1>12, StepOfRun

LEMMA MovedByAnother ==
    ASSUME IInv, NEW r \in Run, move[r] \in Moves, AlreadyMoved(r)
    PROVE  \E q \in landed : move[q] = move[r]
<1> DEFINE s == <<Source(r), "table">>
           t == <<Target(r), "table">>
<1>1. s \in Address /\ t \in Address
  BY MoveFacts DEF Address, Part
<1>2. /\ ended[s].side = "to" /\ ended[t].side = "from"
      /\ ended[s].pair = ended[t].pair
  BY DEF AlreadyMoved
<1>3. PICK q : q = ended[s].pair
  OBVIOUS
<1>4. q \in landed /\ Source(r) = Source(q) /\ Target(r) = Target(q)
  BY <1>1, <1>2, <1>3 DEF IInv, EndedInv
<1>5. q \in Run /\ move[q] \in Moves
  BY <1>4 DEF IInv, TypeOK, RunInv, PlaceInv, AnswerInv
<1> QED
  BY <1>4, <1>5, MoveFacts

LEMMA VerifyingNoOp ==
    ASSUME IInv, NEW r \in Run, VerifyNoOp(r)
    PROVE  IInv'
<1> USE DEF VerifyNoOp
<1>1. /\ pc[r] = "noop" /\ move[r] \in Moves /\ r \notin landed
      /\ events' \in 0..MaxEvent
  BY DEF IInv, RunInv, PlaceInv, AnswerInv, TypeOK
<1>2. PICK answer \in {"no-op", "refused"} :
         /\ End(r, answer)
         /\ answer = "no-op" => AlreadyMoved(r)
  OBVIOUS
<1>3. answer = "no-op" => \E q \in landed : move[q] = move[r]
  BY <1>1, <1>2, MovedByAnother
<1> QED
  BY <1>1, <1>2, <1>3, Ending

LEMMA Locking ==
    ASSUME IInv, NEW r \in Run, LockHome(r)
    PROVE  IInv'
<1> USE DEF LockHome
<1>1. /\ pc[r] = "locking" /\ move[r] \in Moves /\ r \notin landed
      /\ events' \in 0..MaxEvent /\ TypeOK /\ sent[r] = None /\ told[r] = None
      /\ "table" \in seen[r]
  BY DEF IInv, RunInv, PlaceInv, AnswerInv, TypeOK
<1>2. PICK h \in Homes(r) :
         /\ homeLock[h] # r
         /\ \A g \in Homes(r) : g < h => homeLock[g] = r
         /\ \/ /\ homeLock[h] = None
               /\ homeLock' = [homeLock EXCEPT ![h] = r]
               /\ pc' = [pc EXCEPT ![r] =
                     IF \A g \in Homes(r) : g <= h THEN "verify" ELSE @]
               /\ UNCHANGED <<tableLock, move, seen, witness, sent, told>>
            \/ End(r, "refused")
  OBVIOUS
<1>3. CASE End(r, "refused")
  BY <1>1, <1>3, Ending
<1>4. CASE /\ homeLock[h] = None
           /\ homeLock' = [homeLock EXCEPT ![h] = r]
           /\ pc' = [pc EXCEPT ![r] =
                 IF \A g \in Homes(r) : g <= h THEN "verify" ELSE @]
           /\ UNCHANGED <<tableLock, move, seen, witness, sent, told>>
  <2>1. h \in Home /\ Homes(r) \subseteq Nat /\ Homes(r) \subseteq Home
    BY <1>1, MoveFacts
  <2>2. TypeOK'
    BY <1>1, <1>4, <2>1 DEF TypeOK, ledgerVars
  <2>3. \A q \in Run \ {r} : Stays(q)
    BY <1>1, <1>4, <2>1, PlaceAssumption DEF Stays, TypeOK
  <2>4. pc'[r] \in {"verify", "locking"} /\ homeLock'[h] = r
    BY <1>1, <1>4, <2>1 DEF TypeOK
  <2>5. pc'[r] = "verify" => \A g \in Homes(r) : homeLock'[g] = r
    <3>1. ASSUME pc'[r] = "verify", NEW g \in Homes(r) PROVE homeLock'[g] = r
      <4>1. g \in Home /\ g \in Nat /\ h \in Nat /\ g <= h
        BY <1>1, <1>4, <2>1, <3>1 DEF TypeOK
      <4>2. g = h \/ homeLock[g] = r
        BY <1>2, <4>1
      <4> QED
        BY <1>1, <1>4, <2>1, <4>1, <4>2 DEF TypeOK
    <3> QED
      BY <3>1
  <2>6. ~Admitted(r)' /\ ~Committing(r)' /\ None # "commit"
    BY <1>1, <1>4, <2>4 DEF Admitted, Committing, None
  <2>7. PlaceInv(r)'
    BY <1>1, <1>4, <2>4, <2>6 DEF PlaceInv
  <2>8. AnswerInv(r)'
    BY <1>1, <1>4, <2>4, <2>6 DEF AnswerInv, None
  <2>9. LockInv(r)' /\ VerifiedInv(r)'
    BY <1>4, <2>4, <2>5, <2>6 DEF LockInv, VerifiedInv, Homes, Source, Target
  <2>10. RunInv(r)'
    BY <2>7, <2>8, <2>9 DEF RunInv
  <2> QED
    BY <1>4, <2>2, <2>3, <2>10, StepOfRun
<1> QED
  BY <1>2, <1>3, <1>4

LEMMA Verifying ==
    ASSUME IInv, NEW r \in Run, Verify(r)
    PROVE  IInv'
<1> USE DEF Verify
<1>1. /\ pc[r] = "verify" /\ move[r] \in Moves /\ r \notin landed
      /\ events' \in 0..MaxEvent /\ TypeOK /\ sent[r] = None /\ told[r] = None
      /\ "table" \in seen[r] /\ seen[r] \subseteq Part
      /\ \A h \in Homes(r) : homeLock[h] = r
  BY DEF IInv, RunInv, PlaceInv, AnswerInv, LockInv, TypeOK
<1>2. CASE End(r, "refused")
  BY <1>1, <1>2, Ending
<1>3. CASE /\ tableLock[Source(r)] = None /\ Admits(r)
           /\ pc' = [pc EXCEPT ![r] = "append"]
           /\ tableLock' = [tableLock EXCEPT ![Source(r)] = r]
           /\ witness' = [witness EXCEPT ![r] =
                 [q \in Part |-> live[<<Source(r), q>>]]]
           /\ UNCHANGED <<homeLock, move, seen, sent, told>>
  <2>1. /\ Source(r) \in Place
        /\ \A q \in Part : <<Source(r), q>> \in Address
    BY <1>1, MoveFacts DEF Address
  <2>2. TypeOK'
    <3>1. [q \in Part |-> live[<<Source(r), q>>]]
            \in [Part -> Object \cup {NoObject}]
      BY <1>1, <2>1 DEF TypeOK
    <3> QED
      BY <1>1, <1>3, <2>1, <3>1 DEF TypeOK, ledgerVars
  <2>3. \A q \in Run \ {r} : Stays(q)
    BY <1>1, <1>3, <2>1, PlaceAssumption DEF Stays, TypeOK
  <2>4. /\ pc'[r] = "append" /\ tableLock'[Source(r)] = r
        /\ \A q \in Part : witness'[r][q] = live[<<Source(r), q>>]
    BY <1>1, <1>3, <2>1 DEF TypeOK
  <2>5. ~Committing(r)' /\ None # "commit"
    BY <1>1, <1>3, <2>4 DEF Committing, None
  <2>6. PlaceInv(r)'
    BY <1>1, <1>3, <2>4, <2>5 DEF PlaceInv
  <2>7. AnswerInv(r)'
    BY <1>1, <1>3, <2>4, <2>5 DEF AnswerInv, None
  <2>8. LockInv(r)'
    BY <1>1, <1>3, <2>4 DEF LockInv, Homes, Source, Target
  <2>9. VerifiedInv(r)'
    <3>1. /\ SourcesOf(r)' = SourcesOf(r) /\ TargetsOf(r)' = TargetsOf(r)
          /\ Source(r)' = Source(r)
          /\ PartsAt(Source(r))' = PartsAt(Source(r))
      BY <1>3 DEF SourcesOf, TargetsOf, Source, Target, PartsAt
    <3>2. \A a \in SourcesOf(r) : witness'[r][a[2]] = live[a]
      BY <1>1, <2>4 DEF SourcesOf
    <3> QED
      BY <1>3, <2>4, <2>5, <3>1, <3>2 DEF VerifiedInv, Admits, ledgerVars
  <2>10. RunInv(r)'
    BY <2>6, <2>7, <2>8, <2>9 DEF RunInv
  <2> QED
    BY <1>3, <2>2, <2>3, <2>10, StepOfRun
<1> QED
  BY <1>2, <1>3

(* From one place to the next with everything verified and locked kept.    *)
LEMMA Advancing ==
    ASSUME IInv, TypeOK', NEW r \in Run,
           UNCHANGED <<ledgerVars, live, landed, homeLock, move, seen>>,
           \A q \in Run \ {r} : Stays(q),
           PlaceInv(r)', AnswerInv(r)',
           pc'[r] # "verify",
           Admitted(r)' =>
              /\ Admitted(r) /\ tableLock'[Source(r)] = r
              /\ \A q \in seen[r] : witness'[r][q] = witness[r][q],
           pc'[r] = "ddl" \/ Committing(r)' =>
              \A a \in SourcesOf(r) \cup TargetsOf(r) : ~IsOpen(frame[a])
    PROVE  IInv'
<1>1. /\ Source(r)' = Source(r) /\ Target(r)' = Target(r)
      /\ SourcesOf(r)' = SourcesOf(r) /\ TargetsOf(r)' = TargetsOf(r)
      /\ Homes(r)' = Homes(r)
      /\ PartsAt(Source(r))' = PartsAt(Source(r))
  BY DEF Source, Target, SourcesOf, TargetsOf, Homes, PartsAt
<1>2. LockInv(r)'
  BY <1>1 DEF IInv, RunInv, LockInv
<1>3. VerifiedInv(r)'
  <2>1. \A a \in SourcesOf(r) : a[2] \in seen[r]
    BY DEF SourcesOf
  <2> QED
    BY <1>1, <2>1 DEF IInv, RunInv, VerifiedInv, ledgerVars
<1> QED
  BY <1>2, <1>3, StepOfRun DEF RunInv

LEMMA Appending ==
    ASSUME IInv, NEW r \in Run, Append(r)
    PROVE  IInv'
<1> USE DEF Append
<1>1. /\ pc[r] = "append" /\ move[r] \in Moves /\ r \notin landed
      /\ events' \in 0..MaxEvent /\ TypeOK /\ told[r] = None
      /\ "table" \in seen[r] /\ RunInv(r) /\ Admitted(r)
  BY DEF IInv, RunInv, PlaceInv, AnswerInv, TypeOK, Admitted
<1>2. CASE End(r, "refused")
  BY <1>1, <1>2, Ending
<1>3. CASE /\ \A a \in SourcesOf(r) \cup TargetsOf(r) : ~IsOpen(frame[a])
           /\ pc' = [pc EXCEPT ![r] = "ddl"]
           /\ sent' = [sent EXCEPT ![r] = "statement"]
           /\ UNCHANGED <<lockVars, move, seen, witness, told>>
  <2>1. TypeOK'
    BY <1>1, <1>3 DEF TypeOK, ledgerVars, lockVars
  <2>2. \A q \in Run \ {r} : Stays(q)
    BY <1>1, <1>3 DEF Stays, TypeOK, lockVars
  <2>3. pc'[r] = "ddl" /\ sent'[r] = "statement"
    BY <1>1, <1>3 DEF TypeOK
  <2>4. PlaceInv(r)' /\ AnswerInv(r)'
    BY <1>1, <1>3, <2>3 DEF PlaceInv, AnswerInv, Committing, None
  <2>5. tableLock'[Source(r)] = r /\ witness' = witness
    BY <1>1, <1>3 DEF RunInv, LockInv, lockVars
  <2> QED
    BY <1>1, <1>3, <2>1, <2>2, <2>3, <2>4, <2>5, Advancing DEF lockVars
<1> QED
  BY <1>2, <1>3

LEMMA StatementEnding ==
    ASSUME IInv, NEW r \in Run, StatementEnds(r)
    PROVE  IInv'
<1> USE DEF StatementEnds
<1>1. /\ sent[r] = "statement" /\ pc[r] \in {"ddl", "gone"}
      /\ move[r] \in Moves /\ TypeOK /\ RunInv(r)
  BY DEF IInv, RunInv, PlaceInv, TypeOK, None
<1>2. Source(r) \in Place /\ Target(r) \in Place /\ Source(r) # Target(r)
  BY <1>1, MoveFacts
<1>3. TypeOK'
  BY <1>1, <1>2 DEF TypeOK, ledgerVars
<1>4. \A q \in Run \ {r} : Stays(q)
  BY <1>1, <1>2, PlaceAssumption DEF Stays, TypeOK
<1>5. sent'[r] \in {"ok", "failed"} /\ pc'[r] = pc[r]
  BY <1>1 DEF TypeOK
<1>6. PlaceInv(r)' /\ AnswerInv(r)'
  <2>1. ~Committing(r)' /\ ~Committing(r) /\ (Admitted(r)' => Admitted(r))
    BY <1>1, <1>5 DEF Committing, Admitted
  <2>2. PlaceInv(r)'
    BY <1>1, <1>5, <2>1 DEF RunInv, PlaceInv
  <2>3. AnswerInv(r)'
    BY <1>1, <1>5, <2>1 DEF RunInv, AnswerInv
  <2> QED
    BY <2>2, <2>3
<1>7. Admitted(r)' => Admitted(r) /\ tableLock'[Source(r)] = r
  <2>1. Admitted(r)' => Admitted(r)
    BY <1>5 DEF Admitted, Committing
  <2>2. tableLock[Source(r)] = r => tableLock'[Source(r)] = r
    BY <1>1, <1>2 DEF TypeOK
  <2> QED
    BY <1>1, <2>1, <2>2 DEF RunInv, LockInv
<1>8. pc'[r] = "ddl" \/ Committing(r)' =>
         \A a \in SourcesOf(r) \cup TargetsOf(r) : ~IsOpen(frame[a])
  BY <1>1, <1>5 DEF RunInv, VerifiedInv, Committing
<1> QED
  BY <1>1, <1>3, <1>4, <1>5, <1>6, <1>7, <1>8, Advancing

LEMMA ReadingBack ==
    ASSUME IInv, NEW r \in Run, ReadBack(r)
    PROVE  IInv'
<1> USE DEF ReadBack
<1>1. /\ pc[r] = "ddl" /\ move[r] \in Moves /\ r \notin landed
      /\ events' \in 0..MaxEvent /\ TypeOK /\ told[r] = None
      /\ "table" \in seen[r] /\ seen[r] \subseteq Part
      /\ RunInv(r) /\ Admitted(r)
  BY DEF IInv, RunInv, PlaceInv, AnswerInv, TypeOK, Admitted
<1>2. CASE End(r, "recovery-required")
  BY <1>1, <1>2, Ending
<1>3. CASE /\ ReadsBack(r)
           /\ pc' = [pc EXCEPT ![r] = "commit"]
           /\ sent' = [sent EXCEPT ![r] = "commit"]
           /\ witness' = [witness EXCEPT ![r] =
                 [q \in Part |-> live[<<Source(r), q>>]]]
           /\ UNCHANGED <<lockVars, move, seen, told>>
  <2>1. /\ Source(r) \in Place
        /\ \A q \in Part : <<Source(r), q>> \in Address
    BY <1>1, MoveFacts DEF Address
  <2>2. TypeOK'
    <3>1. [q \in Part |-> live[<<Source(r), q>>]]
            \in [Part -> Object \cup {NoObject}]
      BY <1>1, <2>1 DEF TypeOK
    <3> QED
      BY <1>1, <1>3, <3>1 DEF TypeOK, ledgerVars, lockVars
  <2>3. \A q \in Run \ {r} : Stays(q)
    BY <1>1, <1>3 DEF Stays, TypeOK, lockVars
  <2>4. pc'[r] = "commit" /\ sent'[r] = "commit"
    BY <1>1, <1>3 DEF TypeOK
  <2>5. PlaceInv(r)' /\ AnswerInv(r)'
    BY <1>1, <1>3, <2>4 DEF PlaceInv, AnswerInv, None
  <2>6. \A q \in seen[r] : witness'[r][q] = witness[r][q]
    BY <1>1, <1>3 DEF ReadsBack, TypeOK
  <2>7. tableLock'[Source(r)] = r
    BY <1>1, <1>3 DEF RunInv, LockInv, lockVars
  <2>8. \A a \in SourcesOf(r) \cup TargetsOf(r) : ~IsOpen(frame[a])
    BY <1>1 DEF RunInv, VerifiedInv
  <2> QED
    BY <1>1, <1>3, <2>2, <2>3, <2>4, <2>5, <2>6, <2>7, <2>8, Advancing
       DEF lockVars
<1> QED
  BY <1>2, <1>3

LEMMA Receiving ==
    ASSUME IInv, NEW r \in Run, Receive(r)
    PROVE  IInv'
<1>1. /\ pc[r] = "commit" /\ events' \in 0..MaxEvent
      /\ r \in landed <=> sent[r] = "ok"
  BY DEF Receive, IInv, RunInv, PlaceInv, AnswerInv, TypeOK
<1>2. PICK answer \in {"completed", "failed"} :
         End(r, answer) /\ (answer = "completed" <=> sent[r] = "ok")
  BY DEF Receive
<1>3. UNCHANGED <<ledgerVars, live, landed>>
  BY DEF Receive
<1> QED
  BY <1>1, <1>2, <1>3, Ending

LEMMA AnswersOfErrors ==
    ASSUME IInv, NEW r \in Run, pc[r] # "idle"
    PROVE  /\ AnswerAfterError(r) \in {"refused", "recovery-required"}
           /\ r \in landed \/ Committing(r) =>
                 AnswerAfterError(r) = "recovery-required"
BY DEF IInv, RunInv, PlaceInv, AnswerInv, AnswerAfterError, Committing, None

LEMMA Failing ==
    ASSUME IInv, NEW r \in Run, Fail(r)
    PROVE  IInv'
<1>1. /\ pc[r] # "idle" /\ events' \in 0..MaxEvent
      /\ UNCHANGED <<ledgerVars, live, landed>>
      /\ End(r, AnswerAfterError(r))
  BY BoundAssumption DEF Fail, IInv, TypeOK
<1> QED
  BY <1>1, AnswersOfErrors, Ending

LEMMA LosingSession ==
    ASSUME IInv, NEW r \in Run, LoseSession(r)
    PROVE  IInv'
<1> USE DEF LoseSession
<1>1. /\ pc[r] \notin {"idle", "ended", "gone"} /\ pc'[r] = "gone"
      /\ move[r] \in Moves /\ TypeOK /\ RunInv(r)
  BY DEF IInv, RunInv, PlaceInv, TypeOK
<1>2. PICK answer \in {None, AnswerAfterError(r)} :
         told' = [told EXCEPT ![r] = answer]
  OBVIOUS
<1>3. /\ answer \in {None, "refused", "recovery-required"}
      /\ told'[r] = answer
      /\ r \in landed \/ Committing(r) =>
            answer \in {None, "recovery-required"}
  BY <1>1, <1>2, AnswersOfErrors DEF TypeOK
<1>4. TypeOK'
  <2>1. events' \in 0..MaxEvent
    BY <1>1, BoundAssumption DEF TypeOK
  <2> QED
    BY <1>1, <1>2, <1>3, <2>1 DEF TypeOK, ledgerVars, lockVars
<1>5. \A q \in Run \ {r} : Stays(q)
  BY <1>1, <1>2 DEF Stays, TypeOK, lockVars
<1>6. Committing(r)' <=> Committing(r)
  BY DEF Committing
<1>7. Admitted(r)' => Admitted(r)
  BY <1>1, <1>6 DEF Admitted
<1>8. PlaceInv(r)'
  BY <1>1, <1>6, <1>7 DEF RunInv, PlaceInv
<1>9. AnswerInv(r)'
  BY <1>1, <1>3, <1>6 DEF RunInv, AnswerInv, None
<1>10. Admitted(r)' => tableLock'[Source(r)] = r
  BY <1>1, <1>7 DEF RunInv, LockInv, lockVars
<1>11. Committing(r)' =>
          \A a \in SourcesOf(r) \cup TargetsOf(r) : ~IsOpen(frame[a])
  BY <1>1, <1>6 DEF RunInv, VerifiedInv
<1> QED
  BY <1>1, <1>4, <1>5, <1>7, <1>8, <1>9, <1>10, <1>11, Advancing DEF lockVars

LEMMA BackendEnding ==
    ASSUME IInv, NEW r \in Run, BackendEnds(r)
    PROVE  IInv'
<1>1. /\ pc[r] = "gone" /\ events' \in 0..MaxEvent
      /\ UNCHANGED <<ledgerVars, live, landed>> /\ End(r, told[r])
  BY DEF BackendEnds, IInv, TypeOK
<1>2. /\ told[r] \in {None, "no-op", "refused", "completed", "failed",
                       "recovery-required"}
      /\ AnswerInv(r)
  BY DEF IInv, TypeOK, RunInv
<1> QED
  BY <1>1, <1>2, Ending DEF AnswerInv

-----------------------------------------------------------------------------
(* The COMMIT.                                                             *)

(* A committed move and what it wrote.                                     *)
Lands(r) ==
    /\ r \in Run /\ r \notin landed /\ Committing(r) /\ move[r] \in Moves
    /\ "table" \in seen[r] /\ seen[r] \subseteq Part
    /\ PartsAt(Source(r)) \subseteq seen[r]
    /\ \A a \in Address :
          /\ a \in SourcesOf(r) =>
                /\ frame'[a] = (IF frame[a].stable = "managed" THEN RootFrame
                                ELSE Malformed)
                /\ recorded'[a] = NoObject
                /\ ended'[a] = [pair |-> r, side |-> "to"]
          /\ a \in TargetsOf(r) =>
                /\ frame'[a] = Frame("managed", NoClaim)
                /\ recorded'[a] = witness[r][a[2]]
                /\ ended'[a] = [pair |-> r, side |-> "from"]
          /\ a \notin SourcesOf(r) \cup TargetsOf(r) =>
                /\ frame'[a] = frame[a]
                /\ recorded'[a] = recorded[a]
                /\ ended'[a] = ended[a]
    /\ landed' = landed \cup {r}

LEMMA Landing ==
    ASSUME IInv, NEW r \in Run, CommitEnds(r), landed' # landed
    PROVE  /\ Lands(r)
           /\ live' = [a \in Address |->
                 IF a[1] = Source(r) THEN NoObject
                 ELSE IF a[1] = Target(r) THEN live[<<Source(r), a[2]>>]
                 ELSE live[a]]
           /\ sent' = [sent EXCEPT ![r] = "ok"]
           /\ frame' \in [Address -> Frames]
           /\ DOMAIN recorded' = Address
           /\ DOMAIN ended' = Address
<1>1. /\ sent[r] = "commit" /\ Committing(r) /\ Admitted(r)
      /\ TypeOK /\ RunInv(r) /\ FrameInv
      /\ move[r] \in Moves /\ "table" \in seen[r] /\ r \notin landed
  BY DEF CommitEnds, Committing, Admitted, IInv, RunInv, PlaceInv, AnswerInv,
         None
<1>2. /\ frame' = [a \in Address |->
            IF SideOf(a, r) = None THEN frame[a]
            ELSE PairFrame(frame[a], r, SideOf(a, r))]
      /\ recorded' = [a \in Address |->
            IF SideOf(a, r) = None THEN recorded[a]
            ELSE PairIdentity(a, r, SideOf(a, r))]
      /\ ended' = [a \in Address |->
            IF SideOf(a, r) = None THEN ended[a]
            ELSE [pair |-> r, side |-> SideOf(a, r)]]
      /\ live' = [a \in Address |->
            IF a[1] = Source(r) THEN NoObject
            ELSE IF a[1] = Target(r) THEN live[<<Source(r), a[2]>>]
            ELSE live[a]]
      /\ landed' = landed \cup {r}
      /\ sent' = [sent EXCEPT ![r] = "ok"]
  BY DEF CommitEnds
<1>3. /\ Source(r) # Target(r)
      /\ \A a \in Address :
            /\ a \in SourcesOf(r) => a \notin TargetsOf(r)
  BY <1>1, MoveFacts, AddressFacts
<1>4. ASSUME NEW a \in Address
      PROVE  /\ a \in SourcesOf(r) => SideOf(a, r) = "to"
             /\ a \in TargetsOf(r) => SideOf(a, r) = "from"
             /\ a \notin SourcesOf(r) \cup TargetsOf(r) => SideOf(a, r) = None
             /\ None # "to" /\ None # "from"
  BY <1>3 DEF SideOf, None
<1>5. ASSUME NEW a \in Address, a \in SourcesOf(r)
      PROVE  /\ frame'[a] = (IF frame[a].stable = "managed" THEN RootFrame
                             ELSE Malformed)
             /\ recorded'[a] = NoObject
             /\ ended'[a] = [pair |-> r, side |-> "to"]
  <2>1. ~IsOpen(frame[a]) /\ frame[a].stable \in {"unknown", "managed"}
    BY <1>1, <1>5 DEF RunInv, VerifiedInv
  <2>2. /\ frame[a] = Frame(frame[a].stable, NoClaim)
        /\ frame[a].stable \in StableState
    BY <1>1, <2>1, FrameFacts DEF FrameInv, StableState
  <2>3. PairFrame(frame[a], r, "to")
          = (IF frame[a].stable = "managed" THEN RootFrame ELSE Malformed)
    BY <2>2, PairEdges
  <2> QED
    BY <1>2, <1>4, <1>5, <2>3 DEF PairIdentity
<1>6. ASSUME NEW a \in Address, a \in TargetsOf(r)
      PROVE  /\ frame'[a] = Frame("managed", NoClaim)
             /\ recorded'[a] = witness[r][a[2]]
             /\ ended'[a] = [pair |-> r, side |-> "from"]
  <2>1. ~IsOpen(frame[a]) /\ frame[a].stable \in {"unknown", "absent"}
    BY <1>1, <1>6 DEF RunInv, VerifiedInv
  <2>2. /\ frame[a] = Frame(frame[a].stable, NoClaim)
        /\ frame[a].stable \in StableState
    BY <1>1, <2>1, FrameFacts DEF FrameInv, StableState
  <2>3. PairFrame(frame[a], r, "from") = Frame("managed", NoClaim)
    BY <2>1, <2>2, PairEdges
  <2> QED
    BY <1>2, <1>4, <1>6, <2>3 DEF PairIdentity
<1>7. ASSUME NEW a \in Address, a \notin SourcesOf(r) \cup TargetsOf(r)
      PROVE  /\ frame'[a] = frame[a]
             /\ recorded'[a] = recorded[a]
             /\ ended'[a] = ended[a]
  BY <1>2, <1>4, <1>7
<1>8. PartsAt(Source(r)) \subseteq seen[r] /\ seen[r] \subseteq Part
  BY <1>1 DEF RunInv, VerifiedInv, TypeOK
<1>9. Lands(r)
  BY <1>1, <1>2, <1>5, <1>6, <1>7, <1>8 DEF Lands
<1>10. /\ RootFrame \in Frames /\ Frame("managed", NoClaim) \in Frames
       /\ Malformed \in Frames
  BY DEF RootFrame, Malformed, Frames, ClosedFrames, StableState
<1>11. \A a \in Address : frame'[a] \in Frames
  BY <1>1, <1>5, <1>6, <1>7, <1>10 DEF FrameInv
<1> QED
  BY <1>2, <1>9, <1>11

LEMMA CommitLocks ==
    ASSUME IInv, NEW r \in Run, CommitEnds(r)
    PROVE  /\ homeLock' \in [Home -> Run \cup {None}]
           /\ tableLock' \in [Place -> Run \cup {None}]
           /\ \A q \in Run \ {r} : Stays(q)
           /\ sent' \in [Run -> {None, "statement", "commit", "ok", "failed"}]
           /\ pc'[r] \in {"commit", "gone"} /\ sent'[r] \in {"ok", "failed"}
           /\ UNCHANGED <<pc, move, seen, witness, told, events>>
           /\ ~Admitted(r)' /\ ~Committing(r)'
           /\ Admitted(r) /\ Committing(r)
<1>1. /\ TypeOK /\ sent[r] = "commit" /\ pc[r] \in {"commit", "gone"}
      /\ Committing(r) /\ Admitted(r)
  BY DEF CommitEnds, IInv, RunInv, PlaceInv, TypeOK, None, Committing, Admitted
<1>2. /\ homeLock' = Unlocked(homeLock, r)
      /\ tableLock' = Unlocked(tableLock, r)
      /\ UNCHANGED <<pc, move, seen, witness, told, events>>
      /\ \E answer \in {"ok", "failed"} : sent' = [sent EXCEPT ![r] = answer]
      /\ landed' = landed \/ landed' = landed \cup {r}
  BY DEF CommitEnds
<1>3. /\ homeLock' \in [Home -> Run \cup {None}]
      /\ \A q \in Run \ {r}, h \in Home : homeLock[h] = q => homeLock'[h] = q
  BY <1>1, <1>2 DEF TypeOK, Unlocked
<1>4. /\ tableLock' \in [Place -> Run \cup {None}]
      /\ \A q \in Run \ {r}, p \in Place :
            tableLock[p] = q => tableLock'[p] = q
  BY <1>1, <1>2 DEF TypeOK, Unlocked
<1>5. \A q \in Run \ {r} : Stays(q)
  BY <1>1, <1>2, <1>3, <1>4 DEF Stays, TypeOK
<1>6. /\ sent' \in [Run -> {None, "statement", "commit", "ok", "failed"}]
      /\ pc'[r] \in {"commit", "gone"} /\ sent'[r] \in {"ok", "failed"}
  BY <1>1, <1>2 DEF TypeOK
<1>7. ~Admitted(r)' /\ ~Committing(r)'
  BY <1>6 DEF Admitted, Committing
<1> QED
  BY <1>1, <1>2, <1>3, <1>4, <1>5, <1>6, <1>7

LEMMA CommitAnswer ==
    ASSUME IInv, NEW r \in Run, CommitEnds(r)
    PROVE  RunInv(r)'
<1>1. /\ RunInv(r) /\ TypeOK /\ sent[r] = "commit"
  BY DEF CommitEnds, IInv
<1>2. \/ landed' = landed \cup {r} /\ sent'[r] = "ok"
      \/ landed' = landed /\ sent'[r] = "failed"
  BY <1>1 DEF CommitEnds, TypeOK
<1>3. /\ pc'[r] \in {"commit", "gone"} /\ sent'[r] \in {"ok", "failed"}
      /\ UNCHANGED <<pc, move, seen, witness, told, events>>
      /\ ~Admitted(r)' /\ ~Committing(r)'
      /\ Committing(r)
  BY CommitLocks
<1>4. PlaceInv(r)'
  BY <1>1, <1>3 DEF RunInv, PlaceInv
<1>5. AnswerInv(r)'
  <2>1. told[r] \in {None, "recovery-required"} /\ r \notin landed
    BY <1>1, <1>3 DEF RunInv, AnswerInv
  <2> QED
    BY <1>1, <1>2, <1>3, <2>1 DEF RunInv, AnswerInv, None
<1>6. LockInv(r)' /\ VerifiedInv(r)'
  BY <1>3 DEF LockInv, VerifiedInv
<1> QED
  BY <1>4, <1>5, <1>6 DEF RunInv

(* Two runs that are admitted have no place in common.                     *)
LEMMA Apart ==
    ASSUME IInv, NEW r \in Run, NEW q \in Run, r # q, Admitted(r), Admitted(q)
    PROVE  {Source(r), Target(r)} \cap {Source(q), Target(q)} = {}
<1>1. /\ move[r] \in Moves /\ move[q] \in Moves
      /\ \A h \in Homes(r) : homeLock[h] = r
      /\ \A h \in Homes(q) : homeLock[h] = q
  BY DEF IInv, RunInv, PlaceInv, LockInv, Admitted, Committing, None
<1> QED
  BY <1>1 DEF Homes

LEMMA CommitEnding ==
    ASSUME IInv, NEW r \in Run, CommitEnds(r)
    PROVE  IInv'
<1>1. /\ TypeOK /\ FrameInv /\ EndedInv /\ RunInv(r)'
  BY CommitAnswer DEF IInv
<1>2. CASE landed' = landed
  <2>1. UNCHANGED <<ledgerVars, live, landed>>
    <3>1. r \notin landed
      BY CommitLocks DEF IInv, RunInv, AnswerInv
    <3> QED
      BY <1>2, <3>1 DEF CommitEnds
  <2>2. TypeOK'
    BY <1>1, <2>1, CommitLocks DEF TypeOK, ledgerVars
  <2> QED
    BY <1>1, <2>1, <2>2, CommitLocks, StepOfRun
<1>3. CASE landed' # landed
  <2>1. /\ Lands(r)
        /\ live' = [a \in Address |->
              IF a[1] = Source(r) THEN NoObject
              ELSE IF a[1] = Target(r) THEN live[<<Source(r), a[2]>>]
              ELSE live[a]]
        /\ frame' \in [Address -> Frames]
        /\ DOMAIN recorded' = Address /\ DOMAIN ended' = Address
    BY <1>3, Landing
  <2>2. /\ Source(r) \in Place /\ Target(r) \in Place /\ Source(r) # Target(r)
        /\ landed' = landed \cup {r}
    BY <2>1, MoveFacts DEF Lands
  <2>3. FrameInv'
    <3>1. ASSUME NEW p \in Place PROVE frame'[<<p, "table">>] # Malformed
      <4>1. RootFrame # Malformed /\ Frame("managed", NoClaim) # Malformed
        BY DEF RootFrame, Frame, Malformed
      <4>2. <<p, "table">> \in Address
        BY DEF Address, Part
      <4>3. <<p, "table">> \in SourcesOf(r) =>
               frame[<<p, "table">>].stable = "managed"
        <5>1. <<p, "table">> \in SourcesOf(r) => p = Source(r)
          BY DEF SourcesOf
        <5> QED
          BY <5>1, CommitLocks DEF IInv, RunInv, VerifiedInv
      <4> QED
        BY <1>1, <2>1, <4>1, <4>2, <4>3 DEF FrameInv, Lands
    <3> QED
      BY <2>1, <3>1 DEF FrameInv
  <2>4. EndedInv'
    <3>1. \A q \in landed' : Source(q)' = Source(q) /\ Target(q)' = Target(q)
      BY CommitLocks DEF Source, Target
    <3>2. ASSUME NEW a \in Address
          PROVE  /\ ended'[a].side = "to" =>
                    /\ ended'[a].pair \in landed'
                    /\ a[1] = Source(ended'[a].pair)
                 /\ ended'[a].side = "from" =>
                    /\ ended'[a].pair \in landed'
                    /\ a[1] = Target(ended'[a].pair)
      <4>1. CASE a \in SourcesOf(r)
        BY <2>1, <2>2, <4>1, AddressFacts DEF Lands
      <4>2. CASE a \in TargetsOf(r)
        BY <2>1, <2>2, <4>2, AddressFacts DEF Lands
      <4>3. CASE a \notin SourcesOf(r) \cup TargetsOf(r)
        BY <1>1, <2>1, <2>2, <4>3 DEF Lands, EndedInv
      <4> QED
        BY <4>1, <4>2, <4>3
    <3> QED
      BY <3>1, <3>2 DEF EndedInv
  <2>5. TypeOK'
    <3>1. ASSUME NEW a \in Address
          PROVE  /\ recorded'[a] \in Object \cup {NoObject}
                 /\ ended'[a] \in [pair : Run \cup {None},
                                   side : {None, "to", "from"}]
                 /\ live'[a] \in Object \cup {NoObject}
      <4>1. a[2] \in Part /\ <<Source(r), a[2]>> \in Address
        BY <2>2 DEF Address
      <4>2. witness[r][a[2]] \in Object \cup {NoObject}
        BY <1>1, <4>1 DEF TypeOK
      <4>3. live'[a] \in Object \cup {NoObject}
        BY <1>1, <2>1, <4>1 DEF TypeOK
      <4>4. recorded'[a] \in Object \cup {NoObject}
        BY <1>1, <2>1, <4>2 DEF TypeOK, Lands
      <4>5. ended'[a] \in [pair : Run \cup {None},
                           side : {None, "to", "from"}]
        BY <1>1, <2>1 DEF TypeOK, Lands
      <4> QED
        BY <4>3, <4>4, <4>5
    <3>2. \A a \in Address :
             /\ frame'[a].stable \in StableState \cup {"malformed"}
             /\ frame'[a].claim.kind \in {None, "retire-intent"}
      BY <2>1, FrameFacts
    <3>3. landed' \subseteq Run
      BY <1>1, <2>2 DEF TypeOK
    <3>4. recorded' \in [Address -> Object \cup {NoObject}]
      <4>1. recorded' = [a \in Address |-> recorded'[a]]
        BY <1>3 DEF CommitEnds
      <4> QED
        BY <3>1, <4>1
    <3>5. ended' \in [Address -> [pair : Run \cup {None},
                                  side : {None, "to", "from"}]]
      <4>1. ended' = [a \in Address |-> ended'[a]]
        BY <1>3 DEF CommitEnds
      <4> QED
        BY <3>1, <4>1
    <3>6. live' \in [Address -> Object \cup {NoObject}]
      BY <2>1, <3>1
    <3> QED
      BY <1>1, <3>2, <3>3, <3>4, <3>5, <3>6, CommitLocks DEF TypeOK
  <2>6. ASSUME NEW q \in Run \ {r} PROVE RunInv(q)'
    <3>1. Admitted(q) =>
             {Source(r), Target(r)} \cap {Source(q), Target(q)} = {}
      BY CommitLocks, Apart
    <3>2. ASSUME Admitted(q)
          PROVE  /\ \A p \in Part : live'[<<Source(q), p>>] # NoObject =>
                                        live[<<Source(q), p>>] # NoObject
                 /\ \A a \in Address : a[1] \in {Source(q), Target(q)} =>
                       frame'[a] = frame[a] /\ recorded'[a] = recorded[a]
      <4>1. Source(q) \in Place
        <5>1. move[q] \in Moves
          BY <3>2 DEF IInv, RunInv, PlaceInv, Admitted, Committing, None
        <5> QED
          BY <5>1, MoveFacts
      <4>2. \A p \in Part : live'[<<Source(q), p>>] = live[<<Source(q), p>>]
        BY <2>1, <3>1, <3>2, <4>1 DEF Address
      <4>3. \A a \in Address : a[1] \in {Source(q), Target(q)} =>
               a \notin SourcesOf(r) \cup TargetsOf(r)
        BY <3>1, <3>2, AddressFacts
      <4> QED
        BY <2>1, <4>2, <4>3 DEF Lands
    <3> QED
      BY <2>2, <2>6, <3>2, CommitLocks, Unmoved
  <2> QED
    BY <1>1, <2>3, <2>4, <2>5, <2>6 DEF IInv
<1> QED
  BY <1>2, <1>3

-----------------------------------------------------------------------------
(* Everybody else.                                                         *)

LEMMA ByOthersFacts ==
    ASSUME IInv, ByOthers
    PROVE  /\ \A q \in Run : Stays(q)
           /\ landed' = landed /\ move' = move /\ events' \in 0..MaxEvent
           /\ UNCHANGED <<homeLock, tableLock, pc, seen, witness, sent, told>>
<1>1. /\ UNCHANGED <<homeLock, tableLock, pc, move, seen, witness, sent, told,
                     landed>>
      /\ events' = events + 1 /\ events < MaxEvent
  BY DEF ByOthers, lockVars, runVars
<1>2. events' \in 0..MaxEvent
  BY <1>1, BoundAssumption DEF IInv, TypeOK
<1> QED
  BY <1>1, <1>2 DEF Stays

LEMMA CatalogueChanging ==
    ASSUME IInv, ByOthers, UNCHANGED ledgerVars,
           live' \in [Address -> Object \cup {NoObject}],
           \A r \in Run : Admitted(r) =>
              \A q \in Part : live'[<<Source(r), q>>] # NoObject =>
                                  live[<<Source(r), q>>] # NoObject
    PROVE  IInv'
<1>1. TypeOK'
  BY ByOthersFacts DEF IInv, TypeOK, ledgerVars
<1>2. FrameInv' /\ EndedInv'
  BY ByOthersFacts, MovesStay DEF IInv, FrameInv, ledgerVars
<1>3. \A r \in Run : RunInv(r)'
  BY ByOthersFacts, Unmoved DEF ledgerVars
<1> QED
  BY <1>1, <1>2, <1>3 DEF IInv

LEMMA Creating ==
    ASSUME IInv, NEW p \in Place, CreateTable(p)
    PROVE  IInv'
<1>1. PICK x \in Object : live' = [live EXCEPT ![<<p, "table">>] = x]
  BY DEF CreateTable
<1>2. live' \in [Address -> Object \cup {NoObject}]
  BY <1>1 DEF IInv, TypeOK
<1>3. ASSUME NEW r \in Run, Admitted(r)
      PROVE  \A q \in Part : live'[<<Source(r), q>>] = live[<<Source(r), q>>]
  <2>1. Source(r) # p /\ Source(r) \in Place
    BY <1>3, MoveFacts, PlaceAssumption
       DEF CreateTable, IInv, RunInv, LockInv, PlaceInv, Admitted, Committing,
           None
  <2> QED
    BY <1>1, <2>1 DEF IInv, TypeOK, Address
<1> QED
  BY <1>2, <1>3, CatalogueChanging DEF CreateTable

LEMMA Dropping ==
    ASSUME IInv, NEW p \in Place, DropTable(p)
    PROVE  IInv'
<1>1. live' = [live EXCEPT ![<<p, "table">>] = NoObject,
                           ![<<p, "member">>] = NoObject]
  BY DEF DropTable
<1>2. live' \in [Address -> Object \cup {NoObject}]
  BY <1>1 DEF IInv, TypeOK
<1>3. \A a \in Address : live'[a] # NoObject => live[a] # NoObject
  BY <1>1 DEF IInv, TypeOK
<1>4. ASSUME NEW r \in Run, Admitted(r), NEW q \in Part
      PROVE  <<Source(r), q>> \in Address
  BY <1>4, MoveFacts
     DEF IInv, RunInv, PlaceInv, Admitted, Committing, None, Address
<1> QED
  BY <1>2, <1>3, <1>4, CatalogueChanging DEF DropTable

LEMMA Renaming ==
    ASSUME IInv, NEW p \in Place, RenameMember(p)
    PROVE  IInv'
<1>1. PICK x \in Object \cup {NoObject} :
         live' = [live EXCEPT ![<<p, "member">>] = x]
  BY DEF RenameMember
<1>2. live' \in [Address -> Object \cup {NoObject}]
  BY <1>1 DEF IInv, TypeOK
<1>3. ASSUME NEW r \in Run, Admitted(r), NEW q \in Part,
             live'[<<Source(r), q>>] # NoObject
      PROVE  live[<<Source(r), q>>] # NoObject
  <2>1. Source(r) \in Place /\ tableLock[Source(r)] = r
    BY <1>3, MoveFacts
       DEF IInv, RunInv, LockInv, PlaceInv, Admitted, Committing, None
  <2>2. CASE Source(r) = p /\ q = "member"
    BY <2>1, <2>2 DEF RenameMember, PartsAt
  <2>3. CASE ~(Source(r) = p /\ q = "member")
    BY <1>1, <1>3, <2>1, <2>3 DEF IInv, TypeOK, Address
  <2> QED
    BY <2>2, <2>3
<1> QED
  BY <1>2, <1>3, CatalogueChanging DEF RenameMember

LEMMA Writing ==
    ASSUME IInv, NEW a \in Address, NEW f, NEW identity, Write(a, f, identity),
           f \in Frames, f # Malformed, identity \in Object \cup {NoObject}
    PROVE  IInv'
<1>1. /\ homeLock[HomeOf[a[1]]] = None
      /\ frame' = [frame EXCEPT ![a] = f]
      /\ recorded' = [recorded EXCEPT ![a] = identity]
      /\ ended' = [ended EXCEPT ![a] = NoPair]
      /\ ByOthers /\ live' = live
      /\ TypeOK /\ FrameInv /\ EndedInv
  BY DEF Write, IInv
<1>2. FrameInv'
  BY <1>1 DEF FrameInv
<1>3. EndedInv'
  <2>1. \A q \in landed' : Source(q)' = Source(q) /\ Target(q)' = Target(q)
    BY <1>1, ByOthersFacts DEF Source, Target
  <2>2. \A b \in Address : ended'[b] = ended[b] \/ ended'[b].side = None
    BY <1>1 DEF TypeOK, NoPair
  <2> QED
    BY <1>1, <2>1, <2>2, ByOthersFacts DEF EndedInv, None
<1>4. TypeOK'
  <2>1. NoPair \in [pair : Run \cup {None}, side : {None, "to", "from"}]
    BY DEF NoPair
  <2>2. \A b \in Address :
           /\ frame'[b].stable \in StableState \cup {"malformed"}
           /\ frame'[b].claim.kind \in {None, "retire-intent"}
    BY <1>2, FrameFacts DEF FrameInv
  <2>3. /\ recorded' \in [Address -> Object \cup {NoObject}]
        /\ ended' \in [Address -> [pair : Run \cup {None},
                                   side : {None, "to", "from"}]]
    BY <1>1, <2>1 DEF TypeOK
  <2> QED
    BY <1>1, <2>2, <2>3, ByOthersFacts DEF TypeOK
<1>5. ASSUME NEW r \in Run PROVE RunInv(r)'
  <2>1. ASSUME Admitted(r), NEW b \in Address, b[1] \in {Source(r), Target(r)}
        PROVE  b # a
    <3>1. /\ move[r] \in Moves /\ \A h \in Homes(r) : homeLock[h] = r
      BY <2>1 DEF IInv, RunInv, PlaceInv, LockInv, Admitted, Committing, None
    <3> QED
      BY <1>1, <2>1, <3>1, PlaceAssumption DEF Homes
  <2>2. Admitted(r) =>
           \A b \in Address : b[1] \in {Source(r), Target(r)} =>
              frame'[b] = frame[b] /\ recorded'[b] = recorded[b]
    BY <1>1, <2>1 DEF TypeOK, FrameInv
  <2> QED
    BY <1>1, <2>2, ByOthersFacts, Unmoved
<1> QED
  BY <1>2, <1>3, <1>4, <1>5 DEF IInv

(* What a transaction of another writer makes of the address, and records. *)
LEMMA WritesOfOthers ==
    ASSUME IInv, NEW a \in Address
    PROVE  /\ Adopt(a) =>
                /\ frame[a] = Frame("unknown", NoClaim)
                /\ Write(a, Frame("managed", NoClaim), live[a])
           /\ Claim(a) =>
                /\ frame[a] = Frame("managed", NoClaim)
                /\ Write(a, Frame("managed", Removal(a)), recorded[a])
           /\ Settle(a) =>
                /\ \E b \in Address : frame[a] = Frame("managed", Removal(b))
                /\ \E s \in {"managed", "absent"},
                      x \in Object \cup {NoObject} :
                      Write(a, Frame(s, NoClaim), x)
           /\ Release(a) =>
                /\ frame[a] = Frame("managed", NoClaim)
                /\ Write(a, RootFrame, NoObject)
<1>1. Claim(a) => /\ frame[a] = Frame("managed", NoClaim)
                  /\ Write(a, Frame("managed", Removal(a)), recorded[a])
  BY RemovalEdges DEF Claim
<1>2. ASSUME Settle(a)
      PROVE  /\ \E b \in Address : frame[a] = Frame("managed", Removal(b))
             /\ \E s \in {"managed", "absent"}, x \in Object \cup {NoObject} :
                   Write(a, Frame(s, NoClaim), x)
  <2>1. PICK b \in Address : frame[a] = Frame("managed", Removal(b))
    BY <1>2, FrameFacts DEF Settle, IInv, FrameInv
  <2>2. PICK kind \in {"refused", "absent"} :
           Write(a, InterpretEdge(frame[a], Event(kind, None, None, FALSE)),
                 IF kind = "absent" THEN NoObject ELSE recorded[a])
    BY <1>2 DEF Settle
  <2>3. recorded[a] \in Object \cup {NoObject}
    BY DEF IInv, TypeOK
  <2>4. CASE kind = "refused"
    BY <2>1, <2>2, <2>3, <2>4, RemovalEdges
  <2>5. CASE kind = "absent"
    BY <2>1, <2>2, <2>5, RemovalEdges
  <2> QED
    BY <2>1, <2>4, <2>5
<1>3. Adopt(a) => /\ frame[a] = Frame("unknown", NoClaim)
                  /\ Write(a, Frame("managed", NoClaim), live[a])
  BY DEF Adopt
<1>4. Release(a) => /\ frame[a] = Frame("managed", NoClaim)
                    /\ Write(a, RootFrame, NoObject)
  BY DEF Release
<1> QED
  BY <1>1, <1>2, <1>3, <1>4

LEMMA LedgerChanging ==
    ASSUME IInv, NEW a \in Address,
           Adopt(a) \/ Claim(a) \/ Settle(a) \/ Release(a)
    PROVE  IInv'
<1>1. \A s \in StableState :
         Frame(s, NoClaim) \in Frames /\ Frame(s, NoClaim) # Malformed
  BY DEF Frames, ClosedFrames, Malformed, Frame, StableState
<1>2. /\ Frame("managed", Removal(a)) \in Frames
      /\ Frame("managed", Removal(a)) # Malformed
  BY OpenFacts, ClosedFacts DEF Frames, OpenFrames, Malformed
<1>3. /\ live[a] \in Object \cup {NoObject}
      /\ recorded[a] \in Object \cup {NoObject}
  BY DEF IInv, TypeOK
<1>4. RootFrame = Frame("unknown", NoClaim)
  BY DEF RootFrame
<1> QED
  BY <1>1, <1>2, <1>3, <1>4, WritesOfOthers, Writing DEF StableState

-----------------------------------------------------------------------------
LEMMA Preserving ==
    ASSUME IInv, [Next]_vars
    PROVE  IInv'
<1>1. CASE UNCHANGED vars
  <2> USE DEF vars, ledgerVars, lockVars, runVars
  <2>1. TypeOK' /\ FrameInv'
    BY <1>1 DEF IInv, TypeOK, FrameInv
  <2>2. EndedInv'
    BY <1>1, MovesStay
  <2>3. \A r \in Run : Stays(r)
    BY <1>1 DEF Stays
  <2>4. \A r \in Run : RunInv(r)'
    BY <1>1, <2>3, Unmoved
  <2> QED
    BY <2>1, <2>2, <2>4 DEF IInv
<1>2. ASSUME NEW r \in Run, RunStep(r) PROVE IInv'
  BY <1>2, VerifyingNoOp, Locking, Verifying, Appending, ReadingBack, Receiving
     DEF RunStep
<1>3. ASSUME NEW r \in Run, ServerStep(r) PROVE IInv'
  BY <1>3, StatementEnding, CommitEnding, BackendEnding DEF ServerStep
<1>4. ASSUME NEW r \in Run, Start(r) \/ Fail(r) \/ LoseSession(r) PROVE IInv'
  BY <1>4, Starting, Failing, LosingSession
<1>5. ASSUME NEW p \in Place, CreateTable(p) \/ DropTable(p) \/ RenameMember(p)
      PROVE  IInv'
  BY <1>5, Creating, Dropping, Renaming
<1> QED
  BY <1>1, <1>2, <1>3, <1>4, <1>5, LedgerChanging DEF Next

-----------------------------------------------------------------------------
(* What a step of anybody does to the ledger address of a table.           *)

TableStep(f, g) ==
    \/ g = f
    \/ /\ f = Frame("unknown", NoClaim) /\ g = Frame("managed", NoClaim)
    \/ /\ f = Frame("absent", NoClaim) /\ g = Frame("managed", NoClaim)
    \/ /\ f = Frame("managed", NoClaim) /\ g = RootFrame
    \/ /\ f = Frame("managed", NoClaim)
       /\ \E a \in Address : g = Frame("managed", Removal(a))
    \/ /\ \E a \in Address : f = Frame("managed", Removal(a))
       /\ \E s \in {"managed", "absent"} : g = Frame(s, NoClaim)

LEMMA OnlyCommitsLand ==
    ASSUME IInv, [Next]_vars, NEW r \in landed' \ landed
    PROVE  r \in Run /\ CommitEnds(r)
<1>1. CASE UNCHANGED vars
  BY <1>1 DEF vars
<1>2. ASSUME NEW q \in Run, RunStep(q) PROVE landed' = landed
  BY <1>2 DEF RunStep, VerifyNoOp, LockHome, Verify, Append, ReadBack, Receive
<1>3. ASSUME NEW q \in Run, ServerStep(q)
      PROVE  landed' = landed \/ (q = r /\ CommitEnds(r))
  BY <1>3 DEF ServerStep, StatementEnds, CommitEnds, BackendEnds
<1>4. ASSUME NEW q \in Run, Start(q) \/ Fail(q) \/ LoseSession(q)
      PROVE  landed' = landed
  BY <1>4 DEF Start, Fail, LoseSession
<1>5. ASSUME NEW p \in Place, CreateTable(p) \/ DropTable(p) \/ RenameMember(p)
      PROVE  landed' = landed
  BY <1>5 DEF CreateTable, DropTable, RenameMember, ByOthers
<1>6. ASSUME NEW a \in Address, Adopt(a) \/ Claim(a) \/ Settle(a) \/ Release(a)
      PROVE  landed' = landed
  BY <1>6 DEF Adopt, Claim, Settle, Release, Write, ByOthers
<1> QED
  BY <1>1, <1>2, <1>3, <1>4, <1>5, <1>6 DEF Next

LEMMA CommitOutcome ==
    ASSUME IInv, NEW r \in Run, CommitEnds(r), NEW p \in Place
    PROVE  TableStep(frame[<<p, "table">>], frame'[<<p, "table">>])
<1> DEFINE a == <<p, "table">>
<1>1. a \in Address
  BY DEF Address, Part
<1>2. CASE landed' = landed
  <2>1. r \notin landed
    BY CommitLocks DEF IInv, RunInv, AnswerInv
  <2> QED
    BY <1>2, <2>1 DEF CommitEnds, ledgerVars, TableStep
<1>3. CASE landed' # landed
  <2>1. Lands(r)
    BY <1>3, Landing
  <2>2. RunInv(r) /\ Admitted(r) /\ Committing(r) /\ FrameInv
    BY CommitLocks DEF IInv
  <2>3. \A b \in SourcesOf(r) \cup TargetsOf(r) : ~IsOpen(frame[b])
    BY <2>2 DEF RunInv, VerifiedInv
  <2>4. ~IsOpen(frame[a]) => frame[a] = Frame(frame[a].stable, NoClaim)
    BY <1>1, <2>2, FrameFacts DEF FrameInv
  <2>5. CASE a \in SourcesOf(r)
    <3>1. p = Source(r)
      BY <2>5 DEF SourcesOf
    <3>2. frame[a].stable = "managed"
      BY <2>2, <3>1 DEF RunInv, VerifiedInv
    <3> QED
      BY <1>1, <2>1, <2>3, <2>4, <2>5, <3>2 DEF Lands, TableStep
  <2>6. CASE a \in TargetsOf(r)
    <3>1. frame[a].stable \in {"unknown", "absent"}
      BY <2>2, <2>6 DEF RunInv, VerifiedInv
    <3> QED
      <4>1. frame'[a] = Frame("managed", NoClaim)
        <5>1. a \notin SourcesOf(r)
          BY <2>1, <2>6, MoveFacts DEF Lands, SourcesOf, TargetsOf
        <5> QED
          BY <1>1, <2>1, <2>6, <5>1 DEF Lands
      <4> QED
        BY <2>3, <2>4, <2>6, <3>1, <4>1 DEF TableStep
  <2>7. CASE a \notin SourcesOf(r) \cup TargetsOf(r)
    BY <1>1, <2>1, <2>7 DEF Lands, TableStep
  <2> QED
    BY <2>5, <2>6, <2>7
<1> QED
  BY <1>2, <1>3

LEMMA WriteOutcome ==
    ASSUME IInv, NEW a \in Address, NEW b \in Address,
           Adopt(b) \/ Claim(b) \/ Settle(b) \/ Release(b)
    PROVE  TableStep(frame[a], frame'[a])
<1>1. ASSUME NEW f, NEW x, Write(b, f, x)
      PROVE  frame'[b] = f /\ \A c \in Address : c # b => frame'[c] = frame[c]
  BY <1>1 DEF Write, IInv, FrameInv
<1>2. CASE a # b
  <2>1. \E f, x : Write(b, f, x)
    BY WritesOfOthers
  <2> QED
    BY <1>1, <1>2, <2>1 DEF TableStep
<1>3. CASE a = b
  BY <1>1, <1>3, WritesOfOthers DEF TableStep
<1> QED
  BY <1>2, <1>3

LEMMA StepOutcome ==
    ASSUME IInv, [Next]_vars, NEW p \in Place
    PROVE  TableStep(frame[<<p, "table">>], frame'[<<p, "table">>])
<1> DEFINE a == <<p, "table">>
<1>0. frame' = frame => TableStep(frame[a], frame'[a])
  BY DEF TableStep
<1> HIDE DEF a
<1>1. CASE UNCHANGED vars
  BY <1>0, <1>1 DEF vars, ledgerVars, a
<1>2. ASSUME NEW q \in Run, RunStep(q) PROVE frame' = frame
  BY <1>2 DEF RunStep, VerifyNoOp, LockHome, Verify, Append, ReadBack, Receive,
              ledgerVars
<1>3. ASSUME NEW q \in Run, ServerStep(q) PROVE TableStep(frame[a], frame'[a])
  BY <1>0, <1>3, CommitOutcome
     DEF ServerStep, StatementEnds, BackendEnds, ledgerVars, a
<1>4. ASSUME NEW q \in Run, Start(q) \/ Fail(q) \/ LoseSession(q)
      PROVE  frame' = frame
  BY <1>4 DEF Start, Fail, LoseSession, ledgerVars
<1>5. ASSUME NEW q \in Place, CreateTable(q) \/ DropTable(q) \/ RenameMember(q)
      PROVE  frame' = frame
  BY <1>5 DEF CreateTable, DropTable, RenameMember, ledgerVars
<1>6. ASSUME NEW b \in Address, Adopt(b) \/ Claim(b) \/ Settle(b) \/ Release(b)
      PROVE  TableStep(frame[a], frame'[a])
  BY <1>6, WriteOutcome DEF Address, Part, a
<1> QED
  BY <1>0, <1>1, <1>2, <1>3, <1>4, <1>5, <1>6 DEF Next, a

(* Such a step is one the ledger knows.                                    *)
LEMMA LedgerSteps ==
    ASSUME NEW a, TableStep(frame[a], frame'[a])
    PROVE  [LedgerOf(a)!Next]_(frame[a])
<1> USE DEF LedgerOf!IsOpen, LedgerOf!NoClaim, LedgerOf!None,
            LedgerOf!ClaimKind, LedgerOf!StableState, IsOpen, NoClaim, None
<1>1. /\ LedgerOf(a)!OpensFrom["retire-intent"] = {"managed"}
      /\ LedgerOf(a)!OpensFrom["readdress-intent"] = LedgerOf(a)!StableState
  BY DEF LedgerOf!OpensFrom
<1>2. /\ "managed" \in LedgerOf(a)!Outcomes("readdress-intent", "unknown")
      /\ "managed" \in LedgerOf(a)!Outcomes("readdress-intent", "absent")
      /\ "unknown" \in LedgerOf(a)!Outcomes("readdress-intent", "managed")
      /\ {"managed", "absent"}
            \subseteq LedgerOf(a)!Outcomes("retire-intent", "managed")
  BY DEF LedgerOf!Outcomes
<1>3. ASSUME NEW s \in StableState, NEW t \in StableState,
             frame[a] = Frame(s, NoClaim), frame'[a] = Frame(t, NoClaim),
             t \in LedgerOf(a)!Outcomes("readdress-intent", s)
      PROVE  LedgerOf(a)!OpenAndClose
  BY <1>1, <1>3 DEF LedgerOf!OpenAndClose, Frame, StableState
<1>4. ASSUME NEW b, frame[a] = Frame("managed", NoClaim),
             frame'[a] = Frame("managed", Removal(b))
      PROVE  LedgerOf(a)!Open
  BY <1>1, <1>4 DEF LedgerOf!Open, Frame, Removal
<1>5. ASSUME NEW b, NEW s \in {"managed", "absent"},
             frame[a] = Frame("managed", Removal(b)),
             frame'[a] = Frame(s, NoClaim)
      PROVE  LedgerOf(a)!Close
  BY <1>2, <1>5 DEF LedgerOf!Close, Frame, Removal
<1> QED
  BY <1>2, <1>3, <1>4, <1>5
     DEF TableStep, LedgerOf!Next, StableState, RootFrame

-----------------------------------------------------------------------------
(* In every reachable state, whatever fails, dies or is renamed, dropped   *)
(* and created meanwhile: a run that has verified its closure holds the    *)
(* locks of its ledger homes and of its table, and until its COMMIT ends   *)
(* the closure, its frames and its recorded identities are what it         *)
(* verified (readdress.ts, outcome-protocol.ts, ledger.ts).                *)
THEOREM ReaddressInductiveInvariant == Spec => []IInv
<1>1. Init => IInv
  BY Initially
<1>2. IInv /\ [Next]_vars => IInv'
  BY Preserving
<1> QED
  BY <1>1, <1>2, PTL DEF Spec

(* The state of a re-address stays in its types.                           *)
THEOREM ReaddressTypes == Spec => []TypeOK
<1>1. IInv => TypeOK
  BY DEF IInv
<1> QED
  BY <1>1, ReaddressInductiveInvariant, PTL

(* Two runs that are past their verification have no place in common: what *)
(* one moves the other neither moves nor moves onto (the paired locks of   *)
(* outcome-protocol.ts, in the order of ledger.ts).                        *)
AdmittedRunsAreApart ==
    \A r, q \in Run : r # q /\ Admitted(r) /\ Admitted(q) =>
        {Source(r), Target(r)} \cap {Source(q), Target(q)} = {}

THEOREM ReaddressesExcludeEachOther == Spec => []AdmittedRunsAreApart
<1>1. IInv => AdmittedRunsAreApart
  BY Apart DEF AdmittedRunsAreApart
<1> QED
  BY <1>1, ReaddressInductiveInvariant, PTL

(* What a run tells its caller of its move is so: after a refusal nothing  *)
(* has moved and nothing is under way, after a completion everything has,  *)
(* and a no-op names a move that has landed (the answers of                *)
(* executePgPersistedTableReaddress).                                      *)
THEOREM AnswersOfMovesAreTrue == Spec => []ToldIsTrue
<1>1. IInv => ToldIsTrue
  <2> SUFFICES ASSUME IInv, NEW r \in Run
               PROVE  /\ told[r] \in {"refused", "failed"} =>
                            r \notin landed /\ sent[r] # "commit"
                      /\ told[r] = "completed" => r \in landed
                      /\ told[r] = "no-op" =>
                            \E q \in landed : move[q] = move[r]
    BY DEF ToldIsTrue
  <2>1. AnswerInv(r)
    BY DEF IInv, RunInv
  <2> QED
    BY <2>1 DEF AnswerInv, Committing, None
<1> QED
  BY <1>1, ReaddressInductiveInvariant, PTL

(* A move closes the chains of the whole closure on both sides in one      *)
(* step, under one pair, and the target of a managed address records the   *)
(* identity its source had recorded (the COMMIT of                         *)
(* runPgPairedReaddressOperation).                                         *)
THEOREM MovesAreWholeAlways == Spec => MovesAreWhole
<1> DEFINE Whole(r) ==
          /\ \A q \in {part \in Part : live[<<Source(r), part>>] # NoObject} :
                /\ ended'[<<Source(r), q>>] = [pair |-> r, side |-> "to"]
                /\ ended'[<<Target(r), q>>] = [pair |-> r, side |-> "from"]
          /\ \A a \in SourcesOf(r) :
                frame[a].stable = "managed" =>
                    recorded'[<<Target(r), a[2]>>] = recorded[a]
<1>1. ASSUME IInv, [Next]_vars, NEW r \in landed' \ landed PROVE Whole(r)
  <2>1. r \in Run /\ Lands(r) /\ RunInv(r) /\ Admitted(r)
    BY <1>1, OnlyCommitsLand, Landing, CommitLocks DEF IInv
  <2>2. /\ Source(r) \in Place /\ Target(r) \in Place /\ Source(r) # Target(r)
        /\ seen[r] \subseteq Part /\ PartsAt(Source(r)) \subseteq seen[r]
    BY <2>1, MoveFacts DEF Lands
  <2>3. ASSUME NEW q \in seen[r]
        PROVE  /\ <<Source(r), q>> \in SourcesOf(r) \cap Address
               /\ <<Target(r), q>> \in TargetsOf(r) \cap Address
    BY <2>2 DEF SourcesOf, TargetsOf, Address
  <2>4. \A q \in PartsAt(Source(r)) :
           /\ ended'[<<Source(r), q>>] = [pair |-> r, side |-> "to"]
           /\ ended'[<<Target(r), q>>] = [pair |-> r, side |-> "from"]
    BY <2>1, <2>2, <2>3 DEF Lands
  <2>5. ASSUME NEW a \in SourcesOf(r), frame[a].stable = "managed"
        PROVE  recorded'[<<Target(r), a[2]>>] = recorded[a]
    <3>1. a[2] \in seen[r]
      BY DEF SourcesOf
    <3>2. recorded'[<<Target(r), a[2]>>] = witness[r][a[2]]
      BY <2>1, <2>3, <3>1 DEF Lands
    <3>3. recorded[a] = witness[r][a[2]]
      BY <2>1, <2>5 DEF RunInv, VerifiedInv
    <3> QED
      BY <3>2, <3>3
  <2> QED
    BY <2>4, <2>5 DEF PartsAt
<1>2. IInv /\ [Next]_vars => [\A r \in landed' \ landed : Whole(r)]_vars
  BY <1>1
<1> QED
  BY <1>2, ReaddressInductiveInvariant, PTL DEF Spec, MovesAreWhole

(* The address of a table, moved or not, claimed by others or not, goes    *)
(* through the lifecycle of the ledger and no other                        *)
(* (lifecycle-interpreter.ts, the paired terminals of outcome-protocol.ts).*)
THEOREM TablesImplementLedger == Spec => TablesKeepTheLedger
<1> DEFINE Step == \A p \in Place :
                      [LedgerOf(<<p, "table">>)!Next]_(frame[<<p, "table">>])
<1>1. Init => \A p \in Place : LedgerOf(<<p, "table">>)!Init
  BY DEF Init, Address, Part, LedgerOf!Init, LedgerOf!RootFrame,
         LedgerOf!Frame, LedgerOf!NoClaim, LedgerOf!None, RootFrame, Frame,
         NoClaim, None
<1>2. IInv /\ [Next]_vars => [Step]_frame
  BY StepOutcome, LedgerSteps
<1> QED
  BY <1>1, <1>2, ReaddressInductiveInvariant, PTL
     DEF Spec, TablesKeepTheLedger
=============================================================================
