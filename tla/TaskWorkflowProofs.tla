------------------------- MODULE TaskWorkflowProofs -------------------------
(***************************************************************************)
(* Proofs about TaskWorkflow for every set of digests and every bound: the *)
(* evidence behind an acceptance, and the hold on unknown outcomes.        *)
(***************************************************************************)
EXTENDS TaskWorkflow, TLAPS

\* A task whose evidence is coherent, or no task.
Sound(t) ==
    t # NoTask =>
      /\ t \in Task
      /\ t.accepted # NoDigest => Reviewed(t, t.accepted)
      /\ t.review # NoReview =>
           t.review.generation = t.generation /\ ChecksOn(t, t.review.snapshot)

\* The variables other than the two copies of the task.
RestOK ==
    /\ files \in Digests
    /\ phase \in BOOLEAN /\ held \in BOOLEAN /\ unsettled \in BOOLEAN
    /\ lastSeen \in Digests \union {NoDigest}
    /\ archived \in 0..ArchiveLimit
    /\ agent \in AgentStates
    /\ observer \in {"none", "running", "cancelled"}
    /\ rewake \in BOOLEAN
    /\ inspected \in BOOLEAN
    /\ pc \in Places
    /\ cmd \in Commands \union Outcomes
    /\ captured \in Digests \union {NoDigest}
    /\ verdict \in BOOLEAN
    /\ spent \in Nat
    /\ integrated \in BOOLEAN

\* What a handler that is in the middle of a verification or a review relies on.
InFlight ==
    /\ pc \in {"verifyCaptured", "verifying", "checking", "checked",
               "reviewCaptured", "reviewing", "reviewed", "accepting"}
         => captured \in Digests
    /\ pc \in {"verifying", "checking", "checked"}
         => local # NoTask /\ local.accepted = NoDigest /\ local.review = NoReview
    /\ pc \in {"reviewing", "reviewed"}
         => local # NoTask /\ local.accepted = NoDigest /\ ChecksOn(local, captured)

\* Unknown outcomes, at every place and not only between turns; and no
\* integration runs inside a turn.
Accounted ==
    /\ unsettled => \/ held
                    \/ pc \in {"working", "checking", "reviewing", "down"}
                    \/ pc = "background" /\ Delegation
    /\ pc \in Awaiting \union {"publishing"} => agent # "integrating"
    /\ pc = "accepting" => ~held /\ observer = "none"

IInv == RestOK /\ Sound(saved) /\ Sound(local) /\ InFlight /\ Accounted

-----------------------------------------------------------------------------
(* What the operations of workflow/state.rs preserve.                      *)

\* Task::new: a new task has no evidence to be incoherent.
LEMMA NewTaskSound == NewTask \in Task /\ Sound(NewTask)
  BY TaskAssumption DEF NewTask, Task, Sound

\* Task::invalidate drops the evidence and nothing else.
LEMMA InvalidateType ==
    ASSUME NEW t \in Task
    PROVE  /\ Invalidate(t) \in Task
           /\ Invalidate(t).accepted = t.accepted
           /\ Invalidate(t).review = NoReview
           /\ Invalidate(t).checks = <<>>
           /\ Invalidate(t).generation = t.generation
  <1> DEFINE c == IF t.checks = <<>> THEN t.checkHistory ELSE t.checkHistory + 1
             r == IF t.review = NoReview THEN t.reviewHistory
                                         ELSE t.reviewHistory + 1
  <1>1. c \in Nat /\ r \in Nat
    BY DEF Task
  <1>2. Invalidate(t) = [t EXCEPT !.checks = <<>>, !.checkHistory = c,
                                  !.review = NoReview, !.reviewHistory = r]
    BY DEF Invalidate
  <1>3. <<>> \in Seq(CheckReceipt)
    OBVIOUS
  <1> HIDE DEF c, r
  <1> QED BY <1>1, <1>2, <1>3 DEF Task

\* A task of this type is not Option::None.
LEMMA TaskIsSome == ASSUME NEW t \in Task PROVE t # NoTask
  BY TaskAssumption

\* Task::start_verification.
LEMMA StartVerificationSound ==
    ASSUME NEW t \in Task, MayVerify(t)
    PROVE  /\ StartVerification(t) \in Task /\ Sound(StartVerification(t))
           /\ StartVerification(t).accepted = NoDigest
           /\ StartVerification(t).review = NoReview
  <1> DEFINE i == Invalidate(t)
  <1>1. i \in Task /\ i.accepted = NoDigest /\ i.review = NoReview
    BY InvalidateType DEF MayVerify
  <1> HIDE DEF i
  <1>2. StartVerification(t) = [i EXCEPT !.generation = i.generation + 1]
    BY DEF StartVerification, i
  <1>3. i.generation + 1 \in Nat
    BY <1>1 DEF Task
  <1>4. /\ StartVerification(t) \in Task
        /\ StartVerification(t).accepted = NoDigest
        /\ StartVerification(t).review = NoReview
    BY <1>1, <1>2, <1>3 DEF Task
  <1> QED BY <1>4 DEF Sound

\* Task::start_work and its correction rounds.
LEMMA StartWorkSound ==
    ASSUME NEW t \in Task, t.accepted = NoDigest
    PROVE  /\ StartWork(t) \in Task /\ Sound(StartWork(t))
           /\ StartCorrection(t) \in Task /\ Sound(StartCorrection(t))
  <1> DEFINE i == Invalidate(t)
  <1>1. i \in Task /\ i.accepted = NoDigest /\ i.review = NoReview
    BY InvalidateType
  <1> HIDE DEF i
  <1>2. StartWork(t) = [i EXCEPT !.stopped = FALSE]
    BY DEF StartWork, i
  <1> DEFINE w == StartWork(t)
  <1>3. w \in Task /\ w.accepted = NoDigest /\ w.review = NoReview
    BY <1>1, <1>2 DEF Task
  <1> HIDE DEF w
  <1>4. StartCorrection(t) = [w EXCEPT !.corrections = w.corrections + 1]
    BY DEF StartCorrection, w
  <1>5. w.corrections + 1 \in Nat
    BY <1>3 DEF Task
  <1>6. /\ StartCorrection(t) \in Task
        /\ StartCorrection(t).accepted = NoDigest
        /\ StartCorrection(t).review = NoReview
    BY <1>3, <1>4, <1>5 DEF Task
  <1> QED BY <1>3, <1>6 DEF Sound, w

\* A correction refused for a full history has still been charged.
LEMMA ChargedSound ==
    ASSUME NEW t \in Task, Sound(t), t.accepted = NoDigest
    PROVE  /\ [t EXCEPT !.corrections = @ + 1] \in Task
           /\ Sound([t EXCEPT !.corrections = @ + 1])
  BY TaskIsSome DEF Task, Sound, ChecksOn

\* The end of work, a cancellation and a resume set the stopped flag only.
LEMMA StopSound ==
    ASSUME NEW t, Sound(t)
    PROVE  Sound(Stop(t)) /\ (t # NoTask => Stop(t) \in Task)
  <1>1. CASE t = NoTask
    BY <1>1 DEF Stop, Sound
  <1>2. CASE t # NoTask
    <2>1. t \in Task BY <1>2 DEF Sound
    <2>2. Stop(t) = [t EXCEPT !.stopped = TRUE] BY <1>2 DEF Stop
    <2> QED BY <1>2, <2>1, <2>2 DEF Sound, Task, Reviewed, Verified, ChecksOn
  <1> QED BY <1>1, <1>2

\* Task::start_review.
LEMMA StartReviewSound ==
    ASSUME NEW t \in Task, MayReview(t)
    PROVE  /\ StartReview(t) \in Task /\ Sound(StartReview(t))
           /\ StartReview(t).accepted = NoDigest
           /\ StartReview(t).review = NoReview
           /\ StartReview(t).checks = t.checks
  <1> DEFINE r == IF t.review = NoReview THEN t.reviewHistory
                                         ELSE t.reviewHistory + 1
  <1>1. r \in Nat
    BY DEF Task
  <1>2. StartReview(t) = [t EXCEPT !.review = NoReview, !.reviewHistory = r]
    BY DEF StartReview
  <1> HIDE DEF r
  <1>3. /\ StartReview(t) \in Task
        /\ StartReview(t).accepted = NoDigest
        /\ StartReview(t).review = NoReview
        /\ StartReview(t).checks = t.checks
    BY <1>1, <1>2 DEF MayReview, Task
  <1> QED BY <1>3 DEF Sound

\* Task::accept.
LEMMA AcceptSound ==
    ASSUME NEW t \in Task, Sound(t), NEW d \in Digests, MayAccept(t, d)
    PROVE  Accept(t, d) \in Task /\ Sound(Accept(t, d))
  BY TaskIsSome DEF Accept, MayAccept, Task, Sound, Reviewed, Verified, ChecksOn

\* Task::invalidate_for_integration.
LEMMA IntegrationSound ==
    ASSUME NEW t \in Task
    PROVE  /\ InvalidateForIntegration(t) \in Task
           /\ Sound(InvalidateForIntegration(t))
  <1> DEFINE i == Invalidate(t)
  <1>1. i \in Task /\ i.review = NoReview
    BY InvalidateType
  <1> HIDE DEF i
  <1>2. InvalidateForIntegration(t) = [i EXCEPT !.accepted = NoDigest]
    BY DEF InvalidateForIntegration, i
  <1> QED BY <1>1, <1>2 DEF Task, Sound

\* A check receipt is added while no review and no acceptance rests on the
\* checks.
LEMMA CheckSound ==
    ASSUME NEW t \in Task, t.accepted = NoDigest, t.review = NoReview,
           NEW c \in CheckReceipt
    PROVE  LET u == [t EXCEPT !.checks = Append(@, c)]
           IN  /\ u \in Task /\ Sound(u)
               /\ u.accepted = NoDigest /\ u.review = NoReview
  BY DEF Task, Sound

\* A review receipt names the digest and the verification of the checks.
LEMMA ReviewSound ==
    ASSUME NEW t \in Task, t.accepted = NoDigest, NEW d \in Digests,
           ChecksOn(t, d), NEW clear \in BOOLEAN
    PROVE  LET u == [t EXCEPT !.review = [snapshot |-> d, generation |-> t.generation,
                                         clear |-> clear]]
           IN  u \in Task /\ Sound(u)
  BY DEF Task, Sound, ReviewReceipt, ChecksOn

-----------------------------------------------------------------------------
(* The inductive invariant.                                                *)

\* Every behaviour starts without a task, a turn or unknown outcomes.
LEMMA Initially == Init => IInv
  <1> SUFFICES ASSUME Init PROVE IInv
    OBVIOUS
  <1>1. /\ phase \in BOOLEAN /\ held \in BOOLEAN /\ rewake \in BOOLEAN
        /\ unsettled \in BOOLEAN /\ ~unsettled
        /\ inspected \in BOOLEAN /\ verdict \in BOOLEAN /\ integrated \in BOOLEAN
    BY Zenon DEF Init
  <1> QED
    BY <1>1, WorkflowAssumption
       DEF Init, IInv, RestOK, Sound, InFlight, Accounted, AgentStates, Delegation, Places,
           Awaiting, Commands, Outcomes

\* Steps that change no task, or copy one: one per action.
LEMMA FrameSteps ==
    ASSUME IInv,
           \/ InspectResume \/ AbandonStop \/ Prepare \/ ToolBegins
           \/ ToolWrites \/ ToolSettles \/ ObserverStarts \/ ObserverWrites
           \/ QuiesceThenVerify \/ VerifyCapture \/ CheckBegins \/ CheckWrites
           \/ QuiesceThenReview \/ ReviewCapture \/ AcceptStop
           \/ AcceptCapture \/ CancelFromOutside \/ Crash \/ ExternalEdit
           \/ AgentMoves \/ IntegrationWrites \/ IntegrationEnds
           \/ \E c \in Commands : Submit(c)
           \/ \E u \in BOOLEAN : ObserverSettles(u)
           \/ \E b \in BOOLEAN : CheckFinishes(b)
           \/ \E b \in BOOLEAN : ReviewDecides(b) \/ TaskStop \/ Publish
           \/ Reconcile \/ Abandon \/ Fails \/ CancelInHandler
    PROVE  IInv'
  <1> USE DEF IInv, RestOK, InFlight, Accounted, AgentStates, Delegation, Places,
              Awaiting, Commands, Outcomes, recordVars, handler
  <1> USE TaskAssumption, WorkflowAssumption
  <1>1. CASE InspectResume
    BY <1>1 DEF InspectResume
  <1>2. CASE AbandonStop
    BY <1>2 DEF AbandonStop, Handles, StopObservers
  <1>3. CASE Prepare
    BY <1>3 DEF Prepare, Handles
  <1>4. CASE ToolBegins
    BY <1>4 DEF ToolBegins
  <1>5. CASE ToolWrites
    BY <1>5 DEF ToolWrites
  <1>6. CASE ToolSettles
    <2>1. unsettled' \in BOOLEAN /\ ~unsettled'
      BY <1>6, Zenon DEF ToolSettles
    <2> QED BY <1>6, <2>1 DEF ToolSettles
  <1>7. CASE ObserverStarts
    BY <1>7 DEF ObserverStarts
  <1>8. CASE ObserverWrites
    BY <1>8 DEF ObserverWrites
  <1>9. CASE QuiesceThenVerify
    BY <1>9 DEF QuiesceThenVerify, Handles
  <1>10. CASE VerifyCapture
    BY <1>10 DEF VerifyCapture
  <1>11. CASE CheckBegins
    BY <1>11 DEF CheckBegins
  <1>12. CASE CheckWrites
    BY <1>12 DEF CheckWrites
  <1>13. CASE QuiesceThenReview
    BY <1>13 DEF QuiesceThenReview, Handles
  <1>14. CASE ReviewCapture
    BY <1>14 DEF ReviewCapture
  <1>15. CASE AcceptStop
    BY <1>15 DEF AcceptStop, Handles, StopObservers
  <1>16. CASE AcceptCapture
    BY <1>16 DEF AcceptCapture
  <1>17. CASE CancelFromOutside
    <2>1. rewake' \in BOOLEAN
      BY <1>17, Zenon DEF CancelFromOutside, StopObservers
    <2> QED BY <1>17, <2>1 DEF CancelFromOutside, StopObservers
  <1>18. CASE Crash
    BY <1>18 DEF Crash, Sound
  <1>19. CASE ExternalEdit
    BY <1>19 DEF ExternalEdit
  <1>20. CASE AgentMoves
    BY <1>20 DEF AgentMoves
  <1>21. CASE IntegrationWrites
    BY <1>21 DEF IntegrationWrites
  <1>22. CASE IntegrationEnds
    <2>1. integrated' \in BOOLEAN /\ held' \in BOOLEAN
      BY <1>22, Zenon DEF IntegrationEnds
    <2> QED BY <1>22, <2>1 DEF IntegrationEnds
  <1>23. ASSUME NEW c \in Commands, Submit(c) PROVE IInv'
    BY <1>23 DEF Submit
  <1>24. ASSUME NEW u \in BOOLEAN, ObserverSettles(u) PROVE IInv'
    BY <1>24 DEF ObserverSettles
  <1>25. ASSUME NEW b \in BOOLEAN, CheckFinishes(b) PROVE IInv'
    <2>1. unsettled' \in BOOLEAN /\ ~unsettled' /\ verdict' \in BOOLEAN
      BY <1>25, Zenon DEF CheckFinishes
    <2> QED BY <1>25, <2>1 DEF CheckFinishes
  <1>26. ASSUME NEW b \in BOOLEAN, ReviewDecides(b) PROVE IInv'
    <2>1. unsettled' \in BOOLEAN /\ ~unsettled' /\ verdict' \in BOOLEAN
      BY <1>26, Zenon DEF ReviewDecides
    <2> QED BY <1>26, <2>1 DEF ReviewDecides
  <1>27. CASE TaskStop
    <2>1. phase' \in BOOLEAN /\ held' \in BOOLEAN /\ rewake' \in BOOLEAN
      BY <1>27, Zenon DEF TaskStop, Handles, Refuse, EndTurn, StopObservers
    <2> QED BY <1>27, <2>1 DEF TaskStop, Handles, Refuse, EndTurn, StopObservers
  <1>28. CASE Publish
    <2>1. rewake' \in BOOLEAN
      BY <1>28, Zenon DEF Publish, StopObservers
    <2> QED BY <1>28, <2>1 DEF Publish, StopObservers
  <1>29. CASE Reconcile
    BY <1>29 DEF Reconcile, Handles
  <1>30. CASE Abandon
    <2>1. phase' \in BOOLEAN /\ held' \in BOOLEAN /\ (unsettled' => held') /\ integrated' \in BOOLEAN
      BY <1>30, Zenon DEF Abandon, Complete, EndTurn
    <2> QED BY <1>30, <2>1 DEF Abandon, Complete, EndTurn, MayArchive, Sound
  <1>31. CASE Fails
    <2>1. phase' \in BOOLEAN /\ held' \in BOOLEAN /\ (unsettled' => held')
      BY <1>31, Zenon DEF Fails, Refuse, EndTurn
    <2> QED BY <1>31, <2>1 DEF Fails, Refuse, EndTurn
  <1>32. CASE CancelInHandler
    <2>1. phase' \in BOOLEAN /\ held' \in BOOLEAN /\ (unsettled' => held')
      BY <1>32, Zenon DEF CancelInHandler, EndTurn
    <2> QED BY <1>32, <2>1 DEF CancelInHandler, EndTurn
  <1> QED
    BY <1>1, <1>2, <1>3, <1>4, <1>5, <1>6, <1>7, <1>8, <1>9,
       <1>10, <1>11, <1>12, <1>13, <1>14, <1>15, <1>16, <1>17, <1>18,
       <1>19, <1>20, <1>21, <1>22, <1>23, <1>24, <1>25, <1>26, <1>27,
       <1>28, <1>29, <1>30, <1>31, <1>32

\* Steps of work on a task: its start, its corrections and its end.
LEMMA WorkSteps ==
    ASSUME IInv,
           \/ TaskCreate \/ BeginWork \/ RefuseWork \/ PostToolCorrection
           \/ Rewake
           \/ \E outcome \in {"complete", "failed", "cancelled"} : WorkEnds(outcome)
    PROVE  IInv'
  <1> USE DEF IInv, RestOK, InFlight, Accounted, AgentStates, Delegation, Places,
              Awaiting, Commands, Outcomes, recordVars, handler
  <1> USE TaskAssumption, WorkflowAssumption
  <1>0. Charged \in Nat
    BY DEF Charged
  <1>1. CASE TaskCreate
    <2>1. /\ phase' \in BOOLEAN /\ held' \in BOOLEAN /\ integrated' \in BOOLEAN
      BY <1>1, Zenon DEF TaskCreate, Refuse, EndTurn
    <2>2. Sound(saved)' /\ Sound(local)'
      BY <1>1, NewTaskSound DEF TaskCreate, Refuse, EndTurn
    <2>3. archived' \in 0..ArchiveLimit /\ spent' \in Nat
      BY <1>1 DEF TaskCreate, MayArchive
    <2> QED BY <1>1, <2>1, <2>2, <2>3 DEF TaskCreate, Refuse, EndTurn
  <1>2. CASE BeginWork
    <2>1. /\ phase' \in BOOLEAN /\ held' \in BOOLEAN
          /\ unsettled' => held' \/ pc' = "working"
      <3>1. CASE Refuse(Started)
        BY <3>1, Zenon DEF Refuse, EndTurn
      <3>2. CASE phase' = TRUE /\ pc' = "working" /\ UNCHANGED held
        BY <3>2, Zenon
      <3> QED BY <1>2, <3>1, <3>2 DEF BeginWork
    <2>2. Sound(Started)
      <3>1. CASE local = NoTask
        BY <3>1 DEF Started, Sound
      <3>2. CASE local # NoTask
        <4>1. local \in Task /\ local.accepted = NoDigest
          BY <1>2, <3>2 DEF BeginWork, MayStart, MayWork, MayCorrect, Sound
        <4> QED BY <3>2, <4>1, StartWorkSound DEF Started
      <3> QED BY <3>1, <3>2
    <2>3. spent' \in Nat
      BY <1>0, <1>2 DEF BeginWork
    <2>4. Sound(saved)' /\ Sound(local)'
      BY <1>2, <2>2 DEF BeginWork, Refuse, EndTurn
    <2> QED BY <1>2, <2>1, <2>3, <2>4 DEF BeginWork, Refuse, EndTurn
  <1>3. CASE RefuseWork
    <2> DEFINE charged == Correcting /\ local.accepted = NoDigest
                            /\ local.corrections < CorrectionLimit
               t == IF charged THEN [local EXCEPT !.corrections = @ + 1] ELSE local
    <2>1. local # NoTask
      BY <1>3 DEF RefuseWork, MayStart
    <2>2. local \in Task
      BY <2>1 DEF Sound
    <2>3. Sound(t)
      BY <2>2, ChargedSound
    <2>4. Refuse(t) /\ spent' \in Nat
      BY <1>0, <1>3 DEF RefuseWork
    <2> HIDE DEF t
    <2>5. phase' \in BOOLEAN /\ held' \in BOOLEAN /\ (unsettled' => held')
      BY <2>4, Zenon DEF Refuse, EndTurn
    <2>6. Sound(saved)' /\ Sound(local)'
      BY <2>3, <2>4 DEF Refuse, EndTurn
    <2> QED BY <1>3, <2>4, <2>5, <2>6 DEF RefuseWork, Refuse, EndTurn
  <1>4. CASE PostToolCorrection
    <2>1. saved \in Task /\ saved.accepted = NoDigest
      BY <1>4 DEF PostToolCorrection, MayCorrect, Sound
    <2>2. Sound(saved)'
      BY <1>4, <2>1, StartWorkSound DEF PostToolCorrection
    <2> QED BY <1>0, <1>4, <2>2 DEF PostToolCorrection
  <1>5. CASE Rewake
    <2>1. saved \in Task /\ saved.accepted = NoDigest
      BY <1>5 DEF Rewake, MayCorrect, Sound
    <2>2. Sound(saved)'
      BY <1>5, <2>1, StartWorkSound DEF Rewake
    <2>3. phase' \in BOOLEAN /\ rewake' \in BOOLEAN
      BY <1>5, Zenon DEF Rewake
    <2> QED BY <1>0, <1>5, <2>2, <2>3 DEF Rewake
  <1>6. ASSUME NEW outcome \in {"complete", "failed", "cancelled"}, WorkEnds(outcome)
        PROVE  IInv'
    <2>1. Sound(Stop(saved))
      BY StopSound
    <2>2. Sound(saved)' /\ Sound(local)'
      BY <1>6, <2>1 DEF WorkEnds, EndWork, EndTurn
    <2>3. phase' \in BOOLEAN /\ held' \in BOOLEAN /\ (unsettled' => held')
      BY <1>6, Zenon DEF WorkEnds, EndWork, EndTurn
    <2>4. cmd' \in Commands \union Outcomes
      BY <1>6 DEF WorkEnds, EndWork, EndTurn, TurnOutcome
    <2> QED BY <1>6, <2>2, <2>3, <2>4 DEF WorkEnds, EndWork, EndTurn
  <1> QED BY <1>1, <1>2, <1>3, <1>4, <1>5, <1>6

\* Steps that gather the evidence and accept it.
LEMMA EvidenceSteps ==
    ASSUME IInv,
           \/ VerifyBegin \/ CheckReceiptRetained
           \/ ReviewBegin \/ ReviewReceiptRetained
           \/ AcceptTask
    PROVE  IInv'
  <1> USE DEF IInv, RestOK, InFlight, Accounted, AgentStates, Delegation, Places,
              Awaiting, Commands, Outcomes, recordVars, handler
  <1> USE TaskAssumption, WorkflowAssumption
  <1>1. CASE VerifyBegin
    <2> DEFINE t == StartVerification(local)
    <2>1. Sound(t) /\ t # NoTask /\ t.accepted = NoDigest /\ t.review = NoReview
      BY <1>1, StartVerificationSound, TaskIsSome DEF VerifyBegin, Sound
    <2>2. \/ /\ ~held /\ local' = t /\ saved' = t /\ lastSeen' = captured
             /\ phase' = TRUE /\ pc' = "verifying"
             /\ UNCHANGED <<held, unsettled, cmd, captured>>
          \/ Refuse(t) /\ lastSeen' \in {lastSeen, captured}
      BY <1>1 DEF VerifyBegin
    <2> HIDE DEF t
    <2>3. Sound(saved)' /\ Sound(local)'
      BY <2>1, <2>2 DEF Refuse, EndTurn
    <2>4. phase' \in BOOLEAN /\ held' \in BOOLEAN /\ (unsettled' => held')
      <3>1. unsettled => held
        BY <1>1 DEF VerifyBegin
      <3>2. CASE Refuse(t)
        BY <3>2, Zenon DEF Refuse, EndTurn
      <3>3. CASE phase' = TRUE /\ UNCHANGED <<held, unsettled>>
        BY <3>1, <3>3, Zenon
      <3> QED BY <2>2, <3>2, <3>3
    <2> QED BY <1>1, <2>1, <2>2, <2>3, <2>4 DEF VerifyBegin, Refuse, EndTurn
  <1>2. CASE CheckReceiptRetained
    <2>1. PICK success \in BOOLEAN, stable \in BOOLEAN : RetainCheck(success, stable)
      BY <1>2 DEF CheckReceiptRetained
    <2> DEFINE t == WithCheck(success)
    <2>2. /\ pc = "checked" /\ local \in Task /\ local.accepted = NoDigest
          /\ local.review = NoReview /\ captured \in Digests
      BY <2>1 DEF RetainCheck, Sound
    <2>3. [snapshot |-> captured, success |-> success] \in CheckReceipt
      BY <2>2 DEF CheckReceipt
    <2>4. t \in Task /\ Sound(t) /\ t.accepted = NoDigest /\ t.review = NoReview
      BY <2>2, <2>3, CheckSound DEF WithCheck
    <2>5. /\ \/ /\ local' = t /\ saved' = t /\ pc' = "verifying"
                /\ UNCHANGED <<phase, held, unsettled, cmd, captured>>
             \/ /\ local' = t /\ saved' = t /\ pc' = "reviewQuiesce"
                /\ captured' = NoDigest
                /\ UNCHANGED <<phase, held, unsettled, cmd>>
             \/ EndTurn(t, "none")
          /\ UNCHANGED <<files, lastSeen, archived, agent, observer, rewake,
                         inspected, verdict, spent, integrated>>
      BY <2>1 DEF RetainCheck, Complete
    <2> HIDE DEF t
    <2>6. Sound(saved)' /\ Sound(local)' /\ local' # NoTask
      BY <2>4, <2>5, TaskIsSome DEF EndTurn
    <2>7. phase' \in BOOLEAN /\ held' \in BOOLEAN /\ (unsettled' => held')
      <3>1. unsettled => held
        BY <2>2
      <3>2. CASE EndTurn(t, "none")
        BY <3>2, Zenon DEF EndTurn
      <3>3. CASE UNCHANGED <<phase, held, unsettled>>
        BY <3>1, <3>3, Zenon
      <3> QED BY <2>5, <3>2, <3>3
    <2> QED BY <2>2, <2>4, <2>5, <2>6, <2>7 DEF EndTurn
  <1>3. CASE ReviewBegin
    <2> DEFINE t == StartReview(local)
    <2>1. t \in Task /\ Sound(t) /\ t.accepted = NoDigest
      BY <1>3, StartReviewSound DEF ReviewBegin, Sound
    <2>2. \/ /\ ChecksOn(t, captured) /\ ~held
             /\ local' = t /\ saved' = t
             /\ phase' = TRUE /\ unsettled' = TRUE
             /\ pc' = "reviewing"
             /\ UNCHANGED <<held, cmd, captured>>
          \/ Refuse(t)
      BY <1>3 DEF ReviewBegin
    <2> HIDE DEF t
    <2>3. Sound(saved)' /\ Sound(local)' /\ local' # NoTask
      BY <2>1, <2>2, TaskIsSome DEF Refuse, EndTurn
    <2>4. /\ phase' \in BOOLEAN /\ held' \in BOOLEAN /\ unsettled' \in BOOLEAN
          /\ unsettled' => held' \/ pc' = "reviewing"
      <3>1. CASE Refuse(t)
        BY <3>1, Zenon DEF Refuse, EndTurn
      <3>2. CASE /\ phase' = TRUE /\ unsettled' = TRUE /\ pc' = "reviewing"
                 /\ UNCHANGED held
        BY <3>2, Zenon
      <3> QED BY <2>2, <3>1, <3>2
    <2> QED BY <1>3, <2>1, <2>2, <2>3, <2>4 DEF ReviewBegin, Refuse, EndTurn
  <1>4. CASE ReviewReceiptRetained
    <2> DEFINE t == [local EXCEPT !.review =
                       [snapshot |-> captured, generation |-> local.generation,
                        clear |-> verdict]]
    <2>1. /\ pc = "reviewed" /\ local \in Task /\ local.accepted = NoDigest
          /\ captured \in Digests /\ ChecksOn(local, captured)
      BY <1>4 DEF ReviewReceiptRetained, Sound
    <2>2. Sound(t)
      BY <2>1, ReviewSound
    <2>3. EndTurn(t, "none")
      BY <1>4 DEF ReviewReceiptRetained, Complete
    <2> HIDE DEF t
    <2>4. Sound(saved)' /\ Sound(local)'
      BY <2>2, <2>3 DEF EndTurn
    <2>5. phase' \in BOOLEAN /\ held' \in BOOLEAN /\ (unsettled' => held')
      BY <2>3, Zenon DEF EndTurn
    <2> QED BY <1>4, <2>1, <2>3, <2>4, <2>5 DEF ReviewReceiptRetained, EndTurn
  <1>5. CASE AcceptTask
    <2> DEFINE t == Accept(local, captured)
    <2>1. Sound(t)
      BY <1>5, AcceptSound DEF AcceptTask, Sound
    <2>2. EndTurn(t, "none")
      BY <1>5 DEF AcceptTask, Complete
    <2> HIDE DEF t
    <2>3. Sound(saved)' /\ Sound(local)'
      BY <2>1, <2>2 DEF EndTurn
    <2>4. /\ phase' \in BOOLEAN /\ held' \in BOOLEAN /\ (unsettled' => held')
          /\ integrated' \in BOOLEAN
      BY <1>5, <2>2, Zenon DEF AcceptTask, EndTurn
    <2> QED BY <1>5, <2>2, <2>3, <2>4 DEF AcceptTask, EndTurn
  <1> QED BY <1>1, <1>2, <1>3, <1>4, <1>5

\* Steps that replace a copy of the task outside of a turn.
LEMMA OutsideSteps ==
    ASSUME IInv, CancelBackground \/ Resume \/ StartIntegration
    PROVE  IInv'
  <1> USE DEF IInv, RestOK, InFlight, Accounted, AgentStates, Delegation, Places,
              Awaiting, Commands, Outcomes, recordVars, handler
  <1> USE TaskAssumption, WorkflowAssumption
  <1>1. CASE CancelBackground
    <2>1. Sound(saved)' /\ Sound(local)'
      BY <1>1, StopSound DEF CancelBackground
    <2>2. phase' \in BOOLEAN /\ held' \in BOOLEAN
      BY <1>1, Zenon DEF CancelBackground
    <2>3. unsettled' => held'
      BY <1>1, Zenon DEF CancelBackground
    <2> QED BY <1>1, <2>1, <2>2, <2>3 DEF CancelBackground
  <1>2. CASE Resume
    <2>1. Sound(saved)' /\ Sound(local)'
      BY <1>2, StopSound DEF Resume
    <2>2. held' \in BOOLEAN /\ inspected' \in BOOLEAN /\ (unsettled' => held')
      BY <1>2, Zenon DEF Resume
    <2> QED BY <1>2, <2>1, <2>2 DEF Resume
  <1>3. CASE StartIntegration
    <2>1. Sound(saved)'
      BY <1>3, IntegrationSound DEF StartIntegration, Sound
    <2> QED BY <1>3, <2>1 DEF StartIntegration
  <1> QED BY <1>1, <1>2, <1>3

-----------------------------------------------------------------------------
(* The theorems.                                                           *)

\* Every step of the workflow keeps the inductive invariant, group by group.
LEMMA Inductive == IInv /\ [Next]_vars => IInv'
  <1> SUFFICES ASSUME IInv, [Next]_vars PROVE IInv'
    OBVIOUS
  <1>1. CASE Handler
    BY <1>1, FrameSteps, WorkSteps, EvidenceSteps, OutsideSteps DEF Handler
  <1>2. CASE Environment
    BY <1>2, FrameSteps, WorkSteps, OutsideSteps DEF Environment
  <1>3. CASE ObserverEnds
    BY <1>3, FrameSteps DEF ObserverEnds
  <1>4. CASE UNCHANGED vars
    BY <1>4 DEF vars, IInv, RestOK, Sound, InFlight, Accounted, Delegation
  <1> QED BY <1>1, <1>2, <1>3, <1>4 DEF Next

\* The inductive invariant holds in every state the workflow reaches.
LEMMA Invariance == Spec => []IInv
  BY Initially, Inductive, PTL DEF Spec

\* Type correctness of the workflow session and of the record it writes.
THEOREM TypeCorrect == Spec => []TypeOK
  <1>1. IInv => TypeOK
    BY DEF IInv, RestOK, Sound, TypeOK
  <1> QED BY <1>1, Invariance, PTL

\* Whatever is cancelled, crashes, fails or runs concurrently, an accepted task
\* carries passed checks and a clear review of exactly the accepted files, in
\* the durable record and in the session's copy.
THEOREM AcceptanceEvidenced == Spec => []AcceptedIsEvidenced
  <1>1. IInv => AcceptedIsEvidenced
    BY DEF IInv, Sound, AcceptedIsEvidenced
  <1> QED BY <1>1, Invariance, PTL

\* Checks and review of different verification runs are never combined.
THEOREM EvidenceCoherent == Spec => []ReviewMatchesChecks
  <1>1. IInv => ReviewMatchesChecks
    BY DEF IInv, Sound, ReviewMatchesChecks
  <1> QED BY <1>1, Invariance, PTL

\* No turn, cancellation or resume leaves an operation of unknown outcome
\* behind without a hold on the session.
THEOREM UnknownHeld == Spec => []UnknownOutcomeIsHeld
  <1>1. IInv => UnknownOutcomeIsHeld
    BY DEF IInv, Accounted, UnknownOutcomeIsHeld
  <1> QED BY <1>1, Invariance, PTL

\* Nothing can be changing the files at the step that accepts them.
THEOREM QuietAcceptance == Spec => AcceptanceIsQuiet
  <1>1. IInv /\ [Next]_vars =>
          [pc = "accepting" /\ local # local' /\ pc' = "publishing" =>
             ~held /\ ~unsettled /\ observer = "none" /\ agent # "integrating"]_vars
    BY DEF IInv, Accounted, Awaiting
  <1> QED BY <1>1, Invariance, PTL DEF Spec, AcceptanceIsQuiet

-----------------------------------------------------------------------------
(* The allowance of correction rounds, without agents.                     *)

\* Correction rounds a copy of the task counts.
Rounds(t) == IF t = NoTask THEN 0 ELSE t.corrections

\* Where the session's copy was taken from the record and not left behind since.
Reloaded == (Awaiting \ {"working"}) \union {"publishing"}

\* The record counts every round that was started, within the allowance, and a
\* handler that may save its own copy has the same count.
Counted ==
    /\ spent = Rounds(saved) /\ spent <= CorrectionLimit
    /\ pc \in Reloaded => Rounds(local) = Rounds(saved)
    /\ pc = "preparing" /\ Correcting => local # NoTask
AllowanceInv == ~Delegation => Counted

\* Only a correction and a new task change the count.
LEMMA RoundsOf ==
    ASSUME NEW t \in Task
    PROVE  /\ Rounds(t) = t.corrections /\ Rounds(t) \in Nat
           /\ Rounds(StartWork(t)) = Rounds(t)
           /\ Rounds(StartVerification(t)) = Rounds(t)
           /\ Rounds(StartReview(t)) = Rounds(t)
  <1> DEFINE i == Invalidate(t)
  <1>1. i \in Task /\ i.corrections = t.corrections
    BY InvalidateType DEF Invalidate, Task
  <1>2. Rounds(t) = t.corrections /\ Rounds(t) \in Nat
    BY TaskIsSome DEF Rounds, Task
  <1> HIDE DEF i
  <1>3. StartWork(t) = [i EXCEPT !.stopped = FALSE]
        /\ StartVerification(t) = [i EXCEPT !.generation = i.generation + 1]
    BY DEF StartWork, StartVerification, i
  <1>. i.generation + 1 \in Nat
    BY <1>1 DEF Task
  <1>4. /\ StartWork(t) \in Task /\ StartWork(t).corrections = i.corrections
        /\ StartVerification(t) \in Task
        /\ StartVerification(t).corrections = i.corrections
    BY <1>1, <1>3 DEF Task
  <1>5. StartReview(t) \in Task /\ StartReview(t).corrections = t.corrections
    <2> DEFINE r == IF t.review = NoReview THEN t.reviewHistory
                                           ELSE t.reviewHistory + 1
    <2>1. r \in Nat
      BY DEF Task
    <2>2. StartReview(t) = [t EXCEPT !.review = NoReview, !.reviewHistory = r]
      BY DEF StartReview
    <2> HIDE DEF r
    <2> QED BY <2>1, <2>2 DEF Task
  <1> QED BY <1>1, <1>2, <1>4, <1>5, TaskIsSome DEF Rounds

\* A correction adds one.
LEMMA RoundsOfCorrection ==
    ASSUME NEW t \in Task, t.accepted = NoDigest
    PROVE  /\ Rounds(StartCorrection(t)) = Rounds(t) + 1
           /\ Rounds([t EXCEPT !.corrections = @ + 1]) = Rounds(t) + 1
  <1> DEFINE w == StartWork(t)
  <1>1. w \in Task /\ StartCorrection(t) \in Task /\ Rounds(w) = Rounds(t)
    BY RoundsOf, StartWorkSound
  <1>2. w.corrections = Rounds(w)
    BY <1>1, RoundsOf
  <1> HIDE DEF w
  <1>3. StartCorrection(t) = [w EXCEPT !.corrections = w.corrections + 1]
    BY DEF StartCorrection, w
  <1>4. StartCorrection(t).corrections = w.corrections + 1
    BY <1>1, <1>3 DEF Task
  <1>5. [t EXCEPT !.corrections = @ + 1] \in Task
        /\ [t EXCEPT !.corrections = @ + 1].corrections = t.corrections + 1
    BY DEF Task
  <1> QED BY <1>1, <1>2, <1>4, <1>5, RoundsOf, TaskIsSome DEF Rounds

LEMMA RoundsOfStop ==
    ASSUME NEW t, Sound(t)
    PROVE  Rounds(Stop(t)) = Rounds(t) /\ Rounds(t) \in Nat
  <1>1. CASE t = NoTask
    BY <1>1 DEF Stop, Rounds
  <1>2. CASE t # NoTask
    <2>1. t \in Task BY <1>2 DEF Sound
    <2>2. [t EXCEPT !.stopped = TRUE] \in Task
          /\ [t EXCEPT !.stopped = TRUE].corrections = t.corrections
      BY <2>1 DEF Task
    <2> QED BY <1>2, <2>1, <2>2, RoundsOf, TaskIsSome DEF Stop, Rounds
  <1> QED BY <1>1, <1>2

\* A session has agents or has none, for good.
LEMMA SameKind == ASSUME [Next]_vars PROVE Delegation' <=> Delegation
  BY DEF Next, Handler, Environment, ObserverEnds, vars, Delegation, recordVars, handler,
         InspectResume, Publish, Reconcile, TaskStop, TaskCreate, AbandonStop, Abandon,
         Prepare, BeginWork, RefuseWork, WorkEnds, EndWork, QuiesceThenVerify, VerifyCapture,
         VerifyBegin, CheckBegins, CheckFinishes, CheckReceiptRetained, RetainCheck,
         QuiesceThenReview, ReviewCapture, ReviewBegin, ReviewDecides,
         ReviewReceiptRetained, AcceptStop, AcceptCapture, AcceptTask, Fails,
         CancelBackground, Submit, ToolBegins, ToolWrites, ToolSettles, PostToolCorrection,
         ObserverStarts, ObserverWrites, Rewake, CheckWrites, CancelInHandler,
         CancelFromOutside, Crash, Resume, ExternalEdit, AgentMoves, StartIntegration,
         IntegrationWrites, IntegrationEnds, ObserverSettles

\* Steps that leave the record's task and the count alone.
LEMMA QuietlyCounted ==
    ASSUME IInv, ~Delegation, Counted,
           \/ InspectResume \/ AbandonStop \/ Prepare \/ ToolBegins
           \/ ToolWrites \/ ToolSettles \/ ObserverStarts \/ ObserverWrites
           \/ QuiesceThenVerify \/ VerifyCapture \/ CheckBegins \/ CheckWrites
           \/ QuiesceThenReview \/ ReviewCapture \/ AcceptStop
           \/ AcceptCapture \/ CancelFromOutside \/ Crash \/ ExternalEdit
           \/ AgentMoves \/ IntegrationWrites \/ IntegrationEnds \/ StartIntegration
           \/ \E c \in Commands : Submit(c)
           \/ \E u \in BOOLEAN : ObserverSettles(u)
           \/ \E b \in BOOLEAN : CheckFinishes(b)
           \/ \E b \in BOOLEAN : ReviewDecides(b)
           \/ CancelBackground \/ Resume
    PROVE  Counted'
  <1>1. saved' = saved /\ spent' = spent
    BY DEF recordVars, handler, Delegation,
         InspectResume, AbandonStop, Prepare, ToolBegins, ToolWrites, ToolSettles,
         ObserverStarts, ObserverWrites, QuiesceThenVerify, VerifyCapture, CheckBegins,
         CheckWrites, QuiesceThenReview, ReviewCapture, AcceptStop, AcceptCapture,
         CancelFromOutside, Crash, ExternalEdit, AgentMoves, IntegrationWrites,
         IntegrationEnds, StartIntegration, Submit, ObserverSettles, CheckFinishes,
         ReviewDecides, CancelBackground, Resume
  <1>2. \/ pc' \notin Reloaded
        \/ pc' = "dispatch" /\ local' = saved
        \/ /\ pc \in Reloaded /\ local' = local
           /\ (pc' = "preparing" /\ cmd' = "correct" =>
                 (pc = "preparing" /\ cmd = "correct") \/ local # NoTask)
    BY DEF recordVars, handler, Delegation, Handles, Reloaded, Awaiting, Commands,
         InspectResume, AbandonStop, Prepare, ToolBegins, ToolWrites, ToolSettles,
         ObserverStarts, ObserverWrites, QuiesceThenVerify, VerifyCapture, CheckBegins,
         CheckWrites, QuiesceThenReview, ReviewCapture, AcceptStop, AcceptCapture,
         CancelFromOutside, Crash, ExternalEdit, AgentMoves, IntegrationWrites,
         IntegrationEnds, StartIntegration, Submit, ObserverSettles, CheckFinishes,
         ReviewDecides, CancelBackground, Resume
  <1>3. "preparing" \in Reloaded
    BY DEF Reloaded, Awaiting
  <1> QED BY <1>1, <1>2, <1>3 DEF Counted, Correcting, Rounds

\* Steps by which a handler saves its copy.
LEMMA CopyCounted ==
    ASSUME IInv, Counted,
           \/ Publish \/ Reconcile \/ TaskStop \/ Abandon \/ TaskCreate \/ Fails
           \/ CancelInHandler \/ VerifyBegin \/ CheckReceiptRetained \/ ReviewBegin
           \/ ReviewReceiptRetained \/ AcceptTask
    PROVE  Counted'
  <1> USE DEF Reloaded, Awaiting, Counted, Correcting, Complete, Refuse, EndTurn, Handles
  <1>1. CASE Publish
    BY <1>1 DEF Publish
  <1>2. CASE Reconcile
    BY <1>2 DEF Reconcile
  <1>3. CASE TaskStop
    BY <1>3 DEF TaskStop, recordVars
  <1>4. CASE Abandon
    BY <1>4, TaskAssumption DEF Abandon, Rounds
  <1>5. CASE TaskCreate
    <2>1. Rounds(NewTask) = 0 /\ NewTask # NoTask
      BY NewTaskSound, TaskIsSome DEF Rounds, NewTask
    <2> QED BY <1>5, <2>1, TaskAssumption DEF TaskCreate
  <1>6. CASE Fails
    BY <1>6 DEF Fails
  <1>7. CASE CancelInHandler
    BY <1>7 DEF CancelInHandler
  <1>8. CASE VerifyBegin
    <2>1. Rounds(StartVerification(local)) = Rounds(local) /\ pc = "verifyCaptured"
      BY <1>8, RoundsOf DEF VerifyBegin, IInv, Sound
    <2>2. saved' = StartVerification(local) /\ local' = StartVerification(local)
          /\ pc' # "preparing" /\ spent' = spent
      BY <1>8 DEF VerifyBegin
    <2> QED BY <2>1, <2>2
  <1>9. CASE CheckReceiptRetained
    <2> PICK success \in BOOLEAN, stable \in BOOLEAN : RetainCheck(success, stable)
      BY <1>9 DEF CheckReceiptRetained
    <2>1. local \in Task /\ pc = "checked" /\ captured \in Digests
      BY DEF RetainCheck, IInv, InFlight, Sound
    <2>2. Rounds(WithCheck(success)) = Rounds(local)
      <3>1. [snapshot |-> captured, success |-> success] \in CheckReceipt
        BY <2>1 DEF CheckReceipt
      <3> DEFINE checks == Append(local.checks,
                                  [snapshot |-> captured, success |-> success])
      <3>2. /\ checks \in Seq(CheckReceipt)
            /\ WithCheck(success) = [local EXCEPT !.checks = checks]
        BY <2>1, <3>1 DEF WithCheck, Task
      <3> HIDE DEF checks
      <3>3. WithCheck(success) \in Task
            /\ WithCheck(success).corrections = local.corrections
        BY <2>1, <3>2 DEF Task
      <3> QED BY <2>1, <3>3, RoundsOf, TaskIsSome DEF Rounds
    <2>3. saved' = WithCheck(success) /\ local' = WithCheck(success)
          /\ pc' # "preparing" /\ spent' = spent
      BY DEF RetainCheck
    <2> QED BY <2>1, <2>2, <2>3
  <1>10. CASE ReviewBegin
    <2>1. Rounds(StartReview(local)) = Rounds(local) /\ pc = "reviewCaptured"
      BY <1>10, RoundsOf DEF ReviewBegin, IInv, Sound
    <2>2. saved' = StartReview(local) /\ local' = StartReview(local)
          /\ pc' # "preparing" /\ spent' = spent
      BY <1>10 DEF ReviewBegin
    <2> QED BY <2>1, <2>2
  <1>11. CASE ReviewReceiptRetained
    <2> DEFINE t == [local EXCEPT !.review =
                       [snapshot |-> captured, generation |-> local.generation,
                        clear |-> verdict]]
    <2>1. local \in Task /\ pc = "reviewed"
      BY <1>11 DEF ReviewReceiptRetained, IInv, InFlight, Sound
    <2>2. t \in Task /\ t.corrections = local.corrections
      BY <1>11, <2>1 DEF ReviewReceiptRetained, IInv, RestOK, InFlight, Task, ReviewReceipt
    <2>3. Rounds(t) = Rounds(local)
      BY <2>1, <2>2, RoundsOf, TaskIsSome DEF Rounds
    <2>4. saved' = t /\ local' = t /\ pc' # "preparing" /\ spent' = spent
      BY <1>11 DEF ReviewReceiptRetained
    <2> QED BY <2>1, <2>3, <2>4
  <1>12. CASE AcceptTask
    <2> DEFINE t == Accept(local, captured)
    <2>1. local \in Task /\ pc = "accepting" /\ captured \in Digests
      BY <1>12 DEF AcceptTask, IInv, InFlight, Sound
    <2>2. t \in Task /\ t.corrections = local.corrections
      BY <2>1 DEF Accept, Task
    <2>3. Rounds(t) = Rounds(local)
      BY <2>1, <2>2, RoundsOf, TaskIsSome DEF Rounds
    <2>4. saved' = t /\ local' = t /\ pc' # "preparing" /\ spent' = spent
      BY <1>12 DEF AcceptTask
    <2> QED BY <2>1, <2>3, <2>4
  <1> QED BY <1>1, <1>2, <1>3, <1>4, <1>5, <1>6, <1>7, <1>8, <1>9, <1>10, <1>11, <1>12

\* Steps of work: each correction is counted when the record has it.
LEMMA WorkCounted ==
    ASSUME IInv, Counted,
           \/ BeginWork \/ RefuseWork \/ PostToolCorrection \/ Rewake
           \/ \E outcome \in {"complete", "failed", "cancelled"} : WorkEnds(outcome)
    PROVE  Counted'
  <1> USE DEF Reloaded, Awaiting, Counted, Correcting, Complete, Refuse, EndTurn
  <1> USE TaskAssumption
  <1>0. Charged = spent + 1
    BY DEF Charged, IInv, RestOK
  <1>1. CASE BeginWork
    <2>1. saved' = Started /\ local' = Started /\ pc' \in {"working", "publishing"}
          /\ spent' = IF cmd = "correct" THEN Charged ELSE spent
      BY <1>1 DEF BeginWork
    <2>2. Rounds(Started) = IF cmd = "correct" THEN Rounds(local) + 1 ELSE Rounds(local)
      BY <1>1, RoundsOf, RoundsOfCorrection
         DEF BeginWork, MayStart, MayCorrect, Started, IInv, Sound
    <2>3. cmd = "correct" => Rounds(local) < CorrectionLimit
      BY <1>1, RoundsOf DEF BeginWork, MayStart, MayCorrect, IInv, Sound
    <2> QED BY <1>0, <1>1, <2>1, <2>2, <2>3 DEF BeginWork, IInv, RestOK
  <1>2. CASE RefuseWork
    <2> DEFINE charged == Correcting /\ local.accepted = NoDigest
                            /\ local.corrections < CorrectionLimit
               t == IF charged THEN [local EXCEPT !.corrections = @ + 1] ELSE local
    <2>1. local \in Task /\ pc = "preparing"
      BY <1>2 DEF RefuseWork, MayStart, IInv, Sound
    <2>2. saved' = t /\ local' = t /\ pc' = "publishing"
          /\ spent' = IF charged THEN Charged ELSE spent
      BY <1>2 DEF RefuseWork
    <2>3. Rounds(t) = IF charged THEN Rounds(local) + 1 ELSE Rounds(local)
      BY <2>1, RoundsOfCorrection
    <2>4. charged => Rounds(local) < CorrectionLimit
      BY <2>1, RoundsOf
    <2> HIDE DEF t, charged
    <2> QED BY <1>0, <2>1, <2>2, <2>3, <2>4 DEF IInv, RestOK
  <1>3. ASSUME saved # NoTask, MayCorrect(saved)
        PROVE  /\ Rounds(StartCorrection(saved)) = Rounds(saved) + 1
               /\ Rounds(saved) < CorrectionLimit
    BY <1>3, RoundsOf, RoundsOfCorrection DEF MayCorrect, IInv, Sound
  <1>4. CASE PostToolCorrection
    BY <1>0, <1>3, <1>4 DEF PostToolCorrection, IInv, RestOK, handler
  <1>5. CASE Rewake
    BY <1>0, <1>3, <1>5 DEF Rewake, IInv, RestOK
  <1>6. ASSUME NEW outcome \in {"complete", "failed", "cancelled"}, WorkEnds(outcome)
        PROVE  Counted'
    <2>1. Rounds(Stop(saved)) = Rounds(saved)
      BY RoundsOfStop DEF IInv
    <2>2. /\ saved' \in {saved, Stop(saved)} /\ local' = Stop(saved)
          /\ spent' = spent /\ pc' # "preparing"
      BY <1>6 DEF WorkEnds, EndWork, recordVars
    <2> QED BY <2>1, <2>2
  <1> QED BY <1>1, <1>2, <1>4, <1>5, <1>6

LEMMA AllowanceSteps == IInv /\ AllowanceInv /\ [Next]_vars => AllowanceInv'
  <1> SUFFICES ASSUME IInv, [Next]_vars, ~Delegation, Counted PROVE Counted'
    BY SameKind DEF AllowanceInv
  <1>1. CASE Handler
    BY <1>1, QuietlyCounted, CopyCounted, WorkCounted DEF Handler
  <1>2. CASE Environment
    BY <1>2, QuietlyCounted, CopyCounted, WorkCounted DEF Environment
  <1>3. CASE ObserverEnds
    BY <1>3, QuietlyCounted DEF ObserverEnds
  <1>4. CASE UNCHANGED vars
    BY <1>4 DEF vars, Counted, Rounds, Correcting
  <1> QED BY <1>1, <1>2, <1>3, <1>4 DEF Next

\* Without agents, a task never has more correction rounds than its allowance, by
\* whatever way they are asked for.
THEOREM AllowanceKept == Spec => []CorrectionAllowance
  <1>1. Init => AllowanceInv
    BY TaskAssumption
       DEF Init, AllowanceInv, Counted, Rounds, Reloaded, Awaiting
  <1>2. AllowanceInv => CorrectionAllowance
    BY DEF AllowanceInv, Counted, CorrectionAllowance
  <1> QED BY <1>1, <1>2, AllowanceSteps, Invariance, PTL DEF Spec

===============================================================================
