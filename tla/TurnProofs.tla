----------------------------- MODULE TurnProofs -----------------------------
(***************************************************************************)
(* Proofs about what changes between and within turns, for every set of    *)
(* models, calls and adapters and every bound.                             *)
(*                                                                         *)
(* Transitions: what acts for the session acts on the recorded root, a     *)
(* handoff is carried once, and the two transitions install as             *)
(* Installation promises.  PostDelivery: work goes on only on delivered    *)
(* results, and a correction is paid for once.                             *)
(***************************************************************************)
EXTENDS Transitions, PostDelivery, TLAPS, SequenceTheorems, FiniteSetTheorems,
        WellFoundedInduction

-----------------------------------------------------------------------------
(* Transitions.                                                            *)

\* What the two ends of a transition are: occurrences of directories, numbered
\* by the operation that installs them, or two different models.
Shaped(o, i) ==
    IF o.kind = "workspace"
    THEN o.from \in Roots /\ o.from < i /\ o.to = i
    ELSE o.from \in Models /\ o.to \in Models /\ o.from # o.to

OpsShaped ==
    /\ \A i \in DOMAIN ops : Shaped(ops[i], i)
    /\ record.root <= Len(ops)
    /\ doing.at = "quiesce" => Len(ops) < MaxOps /\ doing.kind = "workspace"

\* The operation that the turn in progress owns, and the stage it has reached.
Acting == {"release", "pre", "effect", "observers", "closing", "post"}
StageAt(place) == CASE place \in {"release", "pre"} -> "prepared"
                    [] place = "post" -> "applied"
                    [] OTHER -> "teardown"
Owning ==
    /\ doing.at \in Acting =>
         /\ doing.op \in DOMAIN ops
         /\ Owned(Current) /\ ~Current.inspected
         /\ Current.kind = doing.kind
         /\ Current.stage = StageAt(doing.at)
    /\ doing.at = "release" => doing.kind = "workspace"
    /\ doing.at \in {"pre", "effect"} => doing.kind # "workspace"
    /\ doing.at = "effect" => doing.kind = "live"
    /\ doing.at = "closing" => doing.kind # "live"
    /\ doing.at \in {"quiesce", "release", "observers", "closing"}
         /\ doing.kind = "workspace" => manager.barrier = session.agents

\* A transition that was torn down, and by whom that is remembered: by the turn
\* that owns it, by the hold, or by the barrier against parent turns together
\* with an operation that holds the session when it is resumed.
TornAt(i) == ops[i].stage = "teardown" /\ ~ops[i].inspected
Remembered ==
    \A i \in DOMAIN ops : TornAt(i) =>
        \/ doing.at \in {"effect", "observers", "closing"} /\ doing.op = i
        \/ doing.at = "idle" /\ record.held
        \/ doing.at = "idle" /\ manager.barrier /\ NeedsReconciliation(ops[i])

\* Everything that acts for the session is at the recorded root.
Together ==
    /\ provider.root = record.root
    /\ manager.root = record.root
    /\ observer # NoRoot => observer = record.root

\* A handoff that was not bound to a model call was not carried by one.
Carried(o) ==
    /\ ~o.bound => o.reads = 0
    /\ o.delivery \in {"none", "pending", "superseded"} => ~o.bound
    /\ o.delivery = "delivered" => o.reads = 1
    /\ o.reads <= 1
Handoffs ==
    /\ \A i \in DOMAIN ops : Carried(ops[i])
    /\ doing.at = "work" /\ doing.op # 0 =>
         /\ doing.op \in DOMAIN ops
         /\ Current.delivery = "sent"
         /\ Current.bound => Current.reads = 1

IInv == TypeOK /\ OpsShaped /\ Owning /\ Remembered /\ Together /\ Handoffs

-----------------------------------------------------------------------------
(* What an update of the operations keeps.                                 *)

Same(o, p) ==       \* its ends, and what happened to it since
    /\ o.kind = p.kind /\ o.from = p.from /\ o.to = p.to
    /\ o.stage = p.stage /\ o.inspected = p.inspected
SameHandoff(o, p) ==
    o.bound = p.bound /\ o.delivery = p.delivery /\ o.reads = p.reads

\* A list of operations rewritten in place.
LEMMA Rewritten ==
    ASSUME NEW os \in Seq(Operation), NEW f \in [DOMAIN os -> Operation]
    PROVE  /\ f \in Seq(Operation) /\ Len(f) = Len(os)
           /\ DOMAIN f = DOMAIN os
  OBVIOUS

\* One operation replaced by another.
LEMMA Replaced ==
    ASSUME NEW os \in Seq(Operation), NEW k \in DOMAIN os, NEW o \in Operation
    PROVE  LET f == [os EXCEPT ![k] = o]
           IN  /\ f \in Seq(Operation) /\ Len(f) = Len(os)
               /\ DOMAIN f = DOMAIN os
               /\ \A i \in DOMAIN os : f[i] = IF i = k THEN o ELSE os[i]
  OBVIOUS

\* The end of a transition, with or without a hold.
Finished(os, k, h) == [os EXCEPT ![k].complete = TRUE, ![k].hold = h]

LEMMA FinishedOps ==
    ASSUME NEW os \in Seq(Operation), NEW k \in DOMAIN os, NEW h \in BOOLEAN
    PROVE  LET f == Finished(os, k, h)
           IN  /\ f \in Seq(Operation) /\ Len(f) = Len(os)
               /\ DOMAIN f = DOMAIN os
               /\ \A i \in DOMAIN os : Same(f[i], os[i]) /\ SameHandoff(f[i], os[i])
  <1> DEFINE o == [os[k] EXCEPT !.complete = TRUE, !.hold = h]
             f == Finished(os, k, h)
  <1>1. os[k] \in Operation
    OBVIOUS
  <1>2. o \in Operation /\ Same(o, os[k]) /\ SameHandoff(o, os[k])
    BY <1>1 DEF Operation, Same, SameHandoff
  <1>3. f = [os EXCEPT ![k] = o]
    BY DEF Finished
  <1> HIDE DEF o, f
  <1>4. /\ f \in Seq(Operation) /\ Len(f) = Len(os)
        /\ DOMAIN f = DOMAIN os
        /\ \A i \in DOMAIN os : f[i] = IF i = k THEN o ELSE os[i]
    BY <1>2, <1>3, Replaced
  <1>5. \A i \in DOMAIN os : Same(f[i], os[i]) /\ SameHandoff(f[i], os[i])
    BY <1>2, <1>4 DEF Same, SameHandoff
  <1> QED BY <1>4, <1>5 DEF f

-----------------------------------------------------------------------------
(* The steps.                                                              *)

LEMMA Initially == Init => IInv
  <1> SUFFICES ASSUME Init PROVE IInv
    OBVIOUS
  <1>1. TypeOK
    BY TransitionsAssumption
      DEF Init, TypeOK, Idle, Places, Kinds, Roots
  <1>2. OpsShaped /\ Owning /\ Remembered /\ Together /\ Handoffs
    BY TransitionsAssumption
      DEF Init, OpsShaped, Owning, Remembered, Together, Handoffs, Idle, Acting
  <1> QED BY <1>1, <1>2 DEF IInv

\* The end of a turn keeps the invariant when a teardown it leaves behind is
\* remembered: the hold is set, or a barred session still has to reconcile it.
LEMMA TurnEnds ==
    ASSUME IInv,
           ops' \in Seq(Operation), Len(ops') = Len(ops),
           DOMAIN ops' = DOMAIN ops,
           \A i \in DOMAIN ops : Same(ops'[i], ops[i]) /\ SameHandoff(ops'[i], ops[i]),
           record' \in [root : Roots, model : Models, held : BOOLEAN, phase : BOOLEAN],
           record'.root = record.root,
           manager' \in [root : Roots, barrier : BOOLEAN],
           manager'.root = manager.root,
           doing' = Idle, UNCHANGED <<provider, observer, admission, session>>,
           \A i \in DOMAIN ops : TornAt(i) =>
               record'.held \/ (manager'.barrier /\ NeedsReconciliation(ops'[i]))
    PROVE  IInv'
  <1>1. TypeOK'
    BY TransitionsAssumption DEF IInv, TypeOK, Idle, Places, Kinds, Roots
  <1>2. OpsShaped'
    BY DEF IInv, OpsShaped, Shaped, Same, Idle
  <1>3. Owning'
    BY DEF Owning, Acting, Idle
  <1>4. Remembered'
    BY DEF Remembered, TornAt, Same, Idle
  <1>5. Together'
    BY DEF IInv, Together
  <1>6. Handoffs'
    BY DEF IInv, Handoffs, Carried, SameHandoff, Idle
  <1> QED BY <1>1, <1>2, <1>3, <1>4, <1>5, <1>6 DEF IInv

RecordType == [root : Roots, model : Models, held : BOOLEAN, phase : BOOLEAN]

\* A hold is only ever raised at the end of a turn.
LEMMA RecordKept ==
    ASSUME record \in RecordType, NEW held \in BOOLEAN, NEW os, NEW r,
           r = [record EXCEPT !.held = @ \/ held]
    PROVE  /\ r \in RecordType /\ Settled(r, os) \in RecordType
           /\ r.root = record.root /\ Settled(r, os).root = record.root
           /\ held => r.held
           /\ held \/ Unresolved(os) => Settled(r, os).held
  <1>1. Unresolved(os) \in BOOLEAN
    BY DEF Unresolved
  <1> QED BY <1>1 DEF RecordType, Settled

\* Outside the quiescence, a turn that may have torn something down owns it.
LEMMA TornIsOwned ==
    ASSUME IInv, doing.at # "idle", NEW i \in DOMAIN ops, TornAt(i)
    PROVE  /\ doing.at \in {"effect", "observers", "closing"} /\ doing.op = i
           /\ Owned(ops[i]) /\ ops[i].stage = "teardown"
  BY DEF IInv, Remembered, Owning, Acting, TornAt, Owned,
       Current, StageAt

\* interrupt_workspace_change and interrupt_model_switch hold what was torn down.
LEMMA InterruptEnds ==
    ASSUME IInv, doing.at \in Acting, NEW unsure \in BOOLEAN, Interrupt(unsure),
           UNCHANGED <<provider, manager, observer, admission, session>>
    PROVE  IInv'
  <1> DEFINE held == IsUncertain(Current, unsure)
             r == [record EXCEPT !.held = @ \/ held]
  <1>1. doing.op \in DOMAIN ops /\ ops \in Seq(Operation) /\ held \in BOOLEAN
    BY DEF IInv, TypeOK, Owning, IsUncertain
  <1>2. ops' = Finished(ops, doing.op, TRUE) /\ doing' = Idle
    BY DEF Interrupt, EndTurn, Interrupted, Finished
  <1>3. record' = r \/ record' = Settled(r, ops')
    BY <1>2 DEF Interrupt, EndTurn
  <1>5. \A i \in DOMAIN ops : TornAt(i) => held
    <2>1. ASSUME NEW i \in DOMAIN ops, TornAt(i) PROVE held
      BY <2>1, TornIsOwned DEF Acting, IsUncertain, Current
    <2> QED BY <2>1
  <1>t. record \in RecordType
    BY DEF IInv, TypeOK, RecordType
  <1> HIDE DEF held
  <1>4. /\ record' \in RecordType
        /\ record'.root = record.root
        /\ held => record'.held
    BY <1>1, <1>3, <1>t, RecordKept
  <1> HIDE DEF r
  <1>6. /\ ops' \in Seq(Operation) /\ Len(ops') = Len(ops)
        /\ DOMAIN ops' = DOMAIN ops
        /\ \A i \in DOMAIN ops : Same(ops'[i], ops[i]) /\ SameHandoff(ops'[i], ops[i])
    BY <1>1, <1>2, FinishedOps
  <1>7. manager' \in [root : Roots, barrier : BOOLEAN] /\ manager'.root = manager.root
    BY DEF IInv, TypeOK
  <1> QED BY <1>2, <1>4, <1>5, <1>6, <1>7, TurnEnds DEF RecordType

\* The turn of a workspace change returns an error and leaves its operation as
\* it is; finish_phase then holds an operation that nobody has settled.
LEMMA AbandonEnds ==
    ASSUME IInv, doing.kind = "workspace", ~At("idle"), NEW held \in BOOLEAN,
           EndTurn([record EXCEPT !.held = @ \/ held], ops),
           manager' \in [root : Roots, barrier : BOOLEAN],
           manager'.root = manager.root,
           UNCHANGED <<provider, observer, admission, session>>
    PROVE  IInv'
  <1> DEFINE r == [record EXCEPT !.held = @ \/ held]
  <1>1. ops' = ops /\ doing' = Idle /\ record' = Settled(r, ops)
    BY DEF EndTurn
  <1>2. /\ record' \in RecordType
        /\ record'.root = record.root
        /\ Unresolved(ops) => record'.held
    BY <1>1, RecordKept DEF IInv, TypeOK, RecordType
  <1>3. \A i \in DOMAIN ops : TornAt(i) => Unresolved(ops)
    BY TornIsOwned DEF At, Owned, Unresolved, NeedsReconciliation
  <1>4. /\ ops' \in Seq(Operation) /\ Len(ops') = Len(ops) /\ DOMAIN ops' = DOMAIN ops
        /\ \A i \in DOMAIN ops : Same(ops'[i], ops[i]) /\ SameHandoff(ops'[i], ops[i])
    BY <1>1 DEF IInv, TypeOK, Same, SameHandoff
  <1> QED BY <1>1, <1>2, <1>3, <1>4, TurnEnds DEF RecordType

\* A transition that tore nothing down, or has installed what it tore down for,
\* is completed with or without a hold.
LEMMA CompletionEnds ==
    ASSUME IInv, doing.at \in {"pre", "post"}, NEW hold \in BOOLEAN, NEW held \in BOOLEAN,
           EndTurn([record EXCEPT !.held = @ \/ held], Finished(ops, doing.op, hold)),
           UNCHANGED <<provider, manager, observer, admission, session>>
    PROVE  IInv'
  <1> DEFINE r == [record EXCEPT !.held = @ \/ held]
  <1>1. doing.op \in DOMAIN ops /\ ops \in Seq(Operation) /\ record \in RecordType
    BY DEF IInv, TypeOK, Owning, Acting, RecordType
  <1>2. ops' = Finished(ops, doing.op, hold) /\ doing' = Idle
    BY DEF EndTurn
  <1>3. record' = r \/ record' = Settled(r, ops')
    BY DEF EndTurn
  <1>4. record' \in RecordType /\ record'.root = record.root
    BY <1>1, <1>3, RecordKept
  <1> HIDE DEF r
  <1>5. \A i \in DOMAIN ops : ~TornAt(i)
    BY TornIsOwned
  <1>6. /\ ops' \in Seq(Operation) /\ Len(ops') = Len(ops)
        /\ DOMAIN ops' = DOMAIN ops
        /\ \A i \in DOMAIN ops : Same(ops'[i], ops[i]) /\ SameHandoff(ops'[i], ops[i])
    BY <1>1, <1>2, FinishedOps
  <1>7. manager' \in [root : Roots, barrier : BOOLEAN] /\ manager'.root = manager.root
    BY DEF IInv, TypeOK
  <1> QED BY <1>2, <1>4, <1>5, <1>6, <1>7, TurnEnds DEF RecordType

\* The steps that end a transition.
LEMMA EndingSteps ==
    ASSUME IInv,
           \/ ObserversLinger \/ CloseFails \/ ApplyWorkspaceFails
           \/ QuiesceFails \/ AdmissionRefused \/ ReleaseWorkspaceRefused
           \/ EndWorkspace \/ SwitchRefused \/ SwitchCancelled
           \/ LiveEffectFails \/ EndSwitch \/ PostSwitchFails
    PROVE  IInv'
  <1>1. /\ record = [record EXCEPT !.held = @ \/ FALSE]
        /\ Held(record) = [record EXCEPT !.held = @ \/ TRUE]
    BY DEF IInv, TypeOK, Held
  <1>2. CASE ObserversLinger
    <2>1. CASE doing.kind = "workspace"
      <3>1. EndTurn([record EXCEPT !.held = @ \/ FALSE], ops) /\ ~At("idle")
        BY <1>1, <1>2, <2>1 DEF ObserversLinger, At
      <3>2. /\ manager' \in [root : Roots, barrier : BOOLEAN]
            /\ manager'.root = manager.root
            /\ UNCHANGED <<provider, observer, admission, session>>
        BY <1>2 DEF ObserversLinger, IInv, TypeOK
      <3> QED BY <2>1, <3>1, <3>2, AbandonEnds
    <2>2. CASE doing.kind # "workspace"
      BY <1>2, <2>2, InterruptEnds DEF ObserversLinger, At, Acting
    <2> QED BY <2>1, <2>2
  <1>3. CASE CloseFails
    BY <1>3, InterruptEnds DEF CloseFails, At, Acting
  <1>4. CASE ApplyWorkspaceFails
    BY <1>4, InterruptEnds DEF ApplyWorkspaceFails, At, Acting
  <1>5. CASE QuiesceFails
    <2>1. EndTurn([record EXCEPT !.held = @ \/ TRUE], ops)
      BY <1>1, <1>5 DEF QuiesceFails
    <2>2. /\ doing.kind = "workspace" /\ ~At("idle")
          /\ manager' \in [root : Roots, barrier : BOOLEAN]
          /\ manager'.root = manager.root
          /\ UNCHANGED <<provider, observer, admission, session>>
      BY <1>5 DEF QuiesceFails, At, Barred, IInv, TypeOK, OpsShaped
    <2> QED BY <2>1, <2>2, AbandonEnds
  <1>6. CASE AdmissionRefused
    <2>1. PICK lost \in BOOLEAN : EndTurn([record EXCEPT !.held = @ \/ lost], ops)
      BY <1>6 DEF AdmissionRefused
    <2>2. /\ doing.kind = "workspace" /\ ~At("idle")
          /\ manager' \in [root : Roots, barrier : BOOLEAN]
          /\ manager'.root = manager.root
          /\ UNCHANGED <<provider, observer, admission, session>>
      BY <1>6 DEF AdmissionRefused, At, Barred, IInv, TypeOK, OpsShaped
    <2> QED BY <2>1, <2>2, AbandonEnds
  <1>7. CASE ReleaseWorkspaceRefused
    <2>1. EndTurn([record EXCEPT !.held = @ \/ FALSE], ops)
      BY <1>1, <1>7 DEF ReleaseWorkspaceRefused
    <2>2. /\ doing.kind = "workspace" /\ ~At("idle")
          /\ manager' \in [root : Roots, barrier : BOOLEAN]
          /\ manager'.root = manager.root
          /\ UNCHANGED <<provider, observer, admission, session>>
      BY <1>7 DEF ReleaseWorkspaceRefused, At, IInv, TypeOK, Owning
    <2> QED BY <2>1, <2>2, AbandonEnds
  <1>8. CASE EndWorkspace
    <2>1. PICK hold \in BOOLEAN :
            EndTurn([record EXCEPT !.held = @ \/ hold], Finished(ops, doing.op, hold))
      BY <1>8 DEF EndWorkspace, Finished
    <2> QED BY <1>8, <2>1, CompletionEnds DEF EndWorkspace, At
  <1>9. CASE SwitchRefused
    <2>1. EndTurn([record EXCEPT !.held = @ \/ FALSE], Finished(ops, doing.op, TRUE))
      BY <1>1, <1>9 DEF SwitchRefused, Finished
    <2> QED BY <1>9, <2>1, CompletionEnds DEF SwitchRefused, At
  <1>10. CASE SwitchCancelled
    BY <1>10, InterruptEnds DEF SwitchCancelled, At, Acting
  <1>11. CASE LiveEffectFails
    BY <1>11, InterruptEnds DEF LiveEffectFails, At, Acting
  <1>12. CASE EndSwitch
    <2>1. doing.op \in DOMAIN ops /\ ops[doing.op] \in Operation
      BY <1>12 DEF EndSwitch, At, IInv, TypeOK, Owning, Acting
    <2> DEFINE hold == ops[doing.op].hold
    <2>2. hold \in BOOLEAN
      BY <2>1 DEF Operation
    <2>3. [ops EXCEPT ![doing.op].complete = TRUE] = Finished(ops, doing.op, hold)
      BY <2>1 DEF Finished, Operation, IInv, TypeOK
    <2> HIDE DEF hold
    <2>4. EndTurn([record EXCEPT !.held = @ \/ FALSE], Finished(ops, doing.op, hold))
      BY <1>1, <1>12, <2>3 DEF EndSwitch
    <2> QED BY <1>12, <2>2, <2>4, CompletionEnds DEF EndSwitch, At
  <1>13. CASE PostSwitchFails
    BY <1>13, InterruptEnds DEF PostSwitchFails, At, Acting
  <1> QED BY <1>2, <1>3, <1>4, <1>5, <1>6, <1>7, <1>8, <1>9, <1>10, <1>11,
             <1>12, <1>13

\* A dropped turn: a switch is interrupted by its owner's guard; a workspace
\* change is left as it is, behind the barrier that its session's agents raised.
LEMMA DropStep ==
    ASSUME IInv, DropTurn
    PROVE  IInv'
  <1> DEFINE owned == doing.kind # "workspace" /\ ~At("work")
             held == owned /\ IsUncertain(Current, FALSE)
             os == IF owned THEN Interrupted(ops, doing.op) ELSE ops
             r == [record EXCEPT !.held = @ \/ held]
  <1>1. /\ session.agents /\ doing.at \notin {"idle", "release"}
        /\ ops' = os /\ doing' = Idle
        /\ record' = r \/ record' = Settled(r, os)
        /\ UNCHANGED <<provider, manager, observer, admission, session>>
    BY DEF DropTurn, At
  <1>2. ops \in Seq(Operation) /\ record \in RecordType /\ held \in BOOLEAN
    BY DEF IInv, TypeOK, RecordType, IsUncertain
  <1>3. manager' \in [root : Roots, barrier : BOOLEAN] /\ manager'.root = manager.root
    BY <1>1 DEF IInv, TypeOK
  <1>4. CASE owned
    <2>1. doing.at \in Acting
      BY <1>1, <1>4 DEF IInv, TypeOK, OpsShaped, Places, Acting, At
    <2>2. doing.op \in DOMAIN ops /\ ops' = Finished(ops, doing.op, TRUE)
      BY <1>1, <1>4, <2>1 DEF IInv, Owning, Interrupted, Finished
    <2>3. \A i \in DOMAIN ops : TornAt(i) => held
      <3>1. ASSUME NEW i \in DOMAIN ops, TornAt(i) PROVE held
        BY <1>1, <1>4, <3>1, TornIsOwned DEF Current, IsUncertain
      <3> QED BY <3>1
    <2> HIDE DEF held, os
    <2>4. record' \in RecordType /\ record'.root = record.root /\ (held => record'.held)
      BY <1>1, <1>2, RecordKept
    <2> HIDE DEF r
    <2>5. /\ ops' \in Seq(Operation) /\ Len(ops') = Len(ops)
          /\ DOMAIN ops' = DOMAIN ops
          /\ \A i \in DOMAIN ops : Same(ops'[i], ops[i]) /\ SameHandoff(ops'[i], ops[i])
      BY <1>2, <2>2, FinishedOps
    <2> QED BY <1>1, <1>3, <2>3, <2>4, <2>5, TurnEnds DEF RecordType
  <1>5. CASE ~owned
    <2>1. ops' = ops
      BY <1>1, <1>5
    <2>2. \A i \in DOMAIN ops : TornAt(i) =>
            manager'.barrier /\ NeedsReconciliation(ops'[i])
      <3>1. ASSUME NEW i \in DOMAIN ops, TornAt(i)
            PROVE  manager.barrier /\ NeedsReconciliation(ops[i])
        <4>1. /\ doing.at \in {"effect", "observers", "closing"}
              /\ NeedsReconciliation(ops[i])
          BY <1>1, <3>1, TornIsOwned DEF Owned, NeedsReconciliation
        <4> QED BY <1>1, <1>5, <4>1 DEF IInv, Owning, At
      <3> QED BY <1>1, <2>1, <3>1
    <2> HIDE DEF held, os, owned
    <2>3. record' \in RecordType /\ record'.root = record.root
      BY <1>1, <1>2, RecordKept
    <2> HIDE DEF r
    <2>4. /\ ops' \in Seq(Operation) /\ Len(ops') = Len(ops) /\ DOMAIN ops' = DOMAIN ops
          /\ \A i \in DOMAIN ops : Same(ops'[i], ops[i]) /\ SameHandoff(ops'[i], ops[i])
      BY <1>2, <2>1 DEF Same, SameHandoff
    <2> QED BY <1>1, <1>3, <2>2, <2>3, <2>4, TurnEnds DEF RecordType
  <1> QED BY <1>4, <1>5

\* Steps that leave the operations as they are.
LEMMA ContinuingSteps ==
    ASSUME IInv,
           ObserversStopped
           \/ CancelClose
           \/ BeginWorkspace
           \/ LiveEffect
           \/ FirstDispatch
           \/ ObserverStarts
           \/ ObserverEnds
    PROVE  IInv'
  <1>1. CASE ObserversStopped
    <2>1. TypeOK'
      BY <1>1
        DEF IInv, TypeOK, Places, Kinds, Roots, ObserversStopped, At, Reach,
            Idle, LiveObserversStopped
    <2>2. OpsShaped'
      BY <1>1
        DEF IInv, TypeOK, OpsShaped, Shaped, ObserversStopped, At, Reach, Idle,
            LiveObserversStopped
    <2>3. Owning'
      BY <1>1
        DEF IInv, TypeOK, Owning, Acting, Current, StageAt, Owned,
            ObserversStopped, At, Reach, Idle, LiveObserversStopped
    <2>4. Remembered'
      BY <1>1
        DEF IInv, TypeOK, Remembered, TornAt, ObserversStopped, At, Reach,
            Idle, LiveObserversStopped
    <2>5. Together'
      BY <1>1
        DEF IInv, TypeOK, Together, ObserversStopped, At, Reach, Idle,
            LiveObserversStopped
    <2>6. Handoffs'
      BY <1>1
        DEF IInv, TypeOK, Handoffs, Current, ObserversStopped, At, Reach, Idle,
            LiveObserversStopped
    <2> QED BY <2>1, <2>2, <2>3, <2>4, <2>5, <2>6 DEF IInv
  <1>2. CASE CancelClose
    <2>1. TypeOK'
      BY <1>2
        DEF IInv, TypeOK, Places, Kinds, Roots, CancelClose, At, Reach, Idle
    <2>2. OpsShaped'
      BY <1>2 DEF IInv, TypeOK, OpsShaped, Shaped, CancelClose, At, Reach, Idle
    <2>3. Owning'
      BY <1>2
        DEF IInv, TypeOK, Owning, Acting, Current, StageAt, Owned, CancelClose,
            At, Reach, Idle
    <2>4. Remembered'
      BY <1>2
        DEF IInv, TypeOK, Remembered, TornAt, CancelClose, At, Reach, Idle
    <2>5. Together'
      BY <1>2 DEF IInv, TypeOK, Together, CancelClose, At, Reach, Idle
    <2>6. Handoffs'
      BY <1>2 DEF IInv, TypeOK, Handoffs, Current, CancelClose, At, Reach, Idle
    <2> QED BY <2>1, <2>2, <2>3, <2>4, <2>5, <2>6 DEF IInv
  <1>3. CASE BeginWorkspace
    <2>1. TypeOK'
      <3>1. doing' = [at |-> "quiesce", kind |-> "workspace", op |-> 0,
                      cancelled |-> FALSE]
        BY <1>3 DEF BeginWorkspace, Idle
      <3>2. manager' \in [root : Roots, barrier : BOOLEAN]
        BY <1>3 DEF BeginWorkspace, Barred, IInv, TypeOK
      <3>3. 0 \in 0..MaxOps
        BY TransitionsAssumption
      <3>4. doing' \in [at : Places, kind : Kinds, op : 0..MaxOps, cancelled : BOOLEAN]
        BY <3>1, <3>3 DEF Places, Kinds
      <3> QED BY <1>3, <3>2, <3>4 DEF IInv, TypeOK, BeginWorkspace
    <2>2. OpsShaped'
      BY <1>3
        DEF IInv, TypeOK, OpsShaped, Shaped, BeginWorkspace, At, Reach, Idle,
            ParentFree, Barred
    <2>3. Owning'
      BY <1>3
        DEF IInv, TypeOK, Owning, Acting, Current, StageAt, Owned,
            BeginWorkspace, At, Reach, Idle, ParentFree, Barred
    <2>4. Remembered'
      BY <1>3
        DEF IInv, TypeOK, Remembered, TornAt, BeginWorkspace, At, Reach, Idle,
            ParentFree, Barred
    <2>5. Together'
      BY <1>3
        DEF IInv, TypeOK, Together, BeginWorkspace, At, Reach, Idle,
            ParentFree, Barred
    <2>6. Handoffs'
      BY <1>3
        DEF IInv, TypeOK, Handoffs, Current, BeginWorkspace, At, Reach, Idle,
            ParentFree, Barred
    <2> QED BY <2>1, <2>2, <2>3, <2>4, <2>5, <2>6 DEF IInv
  <1>4. CASE LiveEffect
    <2>1. TypeOK'
      <3>1. Current.to \in Models
        BY <1>4
          DEF LiveEffect, At, IInv, Owning, OpsShaped, Shaped, Acting, Current
      <3> QED BY <1>4, <3>1 DEF IInv, TypeOK, LiveEffect, Reach, Places
    <2>2. OpsShaped'
      BY <1>4 DEF IInv, TypeOK, OpsShaped, Shaped, LiveEffect, At, Reach, Idle
    <2>3. Owning'
      BY <1>4
        DEF IInv, TypeOK, Owning, Acting, Current, StageAt, Owned, LiveEffect,
            At, Reach, Idle
    <2>4. Remembered'
      BY <1>4 DEF IInv, TypeOK, Remembered, TornAt, LiveEffect, At, Reach, Idle
    <2>5. Together'
      BY <1>4 DEF IInv, TypeOK, Together, LiveEffect, At, Reach, Idle
    <2>6. Handoffs'
      BY <1>4 DEF IInv, TypeOK, Handoffs, Current, LiveEffect, At, Reach, Idle
    <2> QED BY <2>1, <2>2, <2>3, <2>4, <2>5, <2>6 DEF IInv
  <1>5. CASE FirstDispatch
    <2>1. TypeOK'
      BY <1>5
        DEF IInv, TypeOK, Places, Kinds, Roots, FirstDispatch, At, Reach, Idle,
            ParentFree, Settled, Held, Unresolved
    <2>2. OpsShaped'
      BY <1>5
        DEF IInv, TypeOK, OpsShaped, Shaped, FirstDispatch, At, Reach, Idle,
            ParentFree, Settled, Held, Unresolved
    <2>3. Owning'
      BY <1>5
        DEF IInv, TypeOK, Owning, Acting, Current, StageAt, Owned,
            FirstDispatch, At, Reach, Idle, ParentFree, Settled, Held,
            Unresolved
    <2>4. Remembered'
      BY <1>5
        DEF IInv, TypeOK, Remembered, TornAt, FirstDispatch, At, Reach, Idle,
            ParentFree, Settled, Held, Unresolved
    <2>5. Together'
      BY <1>5
        DEF IInv, TypeOK, Together, FirstDispatch, At, Reach, Idle, ParentFree,
            Settled, Held, Unresolved
    <2>6. Handoffs'
      BY <1>5
        DEF IInv, TypeOK, Handoffs, Current, FirstDispatch, At, Reach, Idle,
            ParentFree, Settled, Held, Unresolved
    <2> QED BY <2>1, <2>2, <2>3, <2>4, <2>5, <2>6 DEF IInv
  <1>6. CASE ObserverStarts
    <2>1. TypeOK'
      BY <1>6
        DEF IInv, TypeOK, Places, Kinds, Roots, ObserverStarts, At, Reach, Idle
    <2>2. OpsShaped'
      BY <1>6
        DEF IInv, TypeOK, OpsShaped, Shaped, ObserverStarts, At, Reach, Idle
    <2>3. Owning'
      BY <1>6
        DEF IInv, TypeOK, Owning, Acting, Current, StageAt, Owned,
            ObserverStarts, At, Reach, Idle
    <2>4. Remembered'
      BY <1>6
        DEF IInv, TypeOK, Remembered, TornAt, ObserverStarts, At, Reach, Idle
    <2>5. Together'
      BY <1>6 DEF IInv, TypeOK, Together, ObserverStarts, At, Reach, Idle
    <2>6. Handoffs'
      BY <1>6
        DEF IInv, TypeOK, Handoffs, Current, ObserverStarts, At, Reach, Idle
    <2> QED BY <2>1, <2>2, <2>3, <2>4, <2>5, <2>6 DEF IInv
  <1>7. CASE ObserverEnds
    <2>1. TypeOK'
      BY <1>7
        DEF IInv, TypeOK, Places, Kinds, Roots, ObserverEnds, At, Reach, Idle
    <2>2. OpsShaped'
      BY <1>7
        DEF IInv, TypeOK, OpsShaped, Shaped, ObserverEnds, At, Reach, Idle
    <2>3. Owning'
      BY <1>7
        DEF IInv, TypeOK, Owning, Acting, Current, StageAt, Owned,
            ObserverEnds, At, Reach, Idle
    <2>4. Remembered'
      BY <1>7
        DEF IInv, TypeOK, Remembered, TornAt, ObserverEnds, At, Reach, Idle
    <2>5. Together'
      BY <1>7 DEF IInv, TypeOK, Together, ObserverEnds, At, Reach, Idle
    <2>6. Handoffs'
      BY <1>7
        DEF IInv, TypeOK, Handoffs, Current, ObserverEnds, At, Reach, Idle
    <2> QED BY <2>1, <2>2, <2>3, <2>4, <2>5, <2>6 DEF IInv
  <1> QED BY <1>1, <1>2, <1>3, <1>4, <1>5, <1>6, <1>7

\* A new operation: prepared, open, without a history.
LEMMA Appended ==
    ASSUME TypeOK, NEW o \in Operation, ops' = Append(ops, o), Len(ops) < MaxOps
    PROVE  /\ ops' \in Seq(Operation) /\ Len(ops') = Len(ops) + 1
           /\ Len(ops') <= MaxOps
           /\ Len(ops) + 1 \in DOMAIN ops' /\ Len(ops) + 1 \in 1..MaxOps
           /\ ops'[Len(ops) + 1] = o
           /\ \A i \in DOMAIN ops : i \in DOMAIN ops' /\ ops'[i] = ops[i]
           /\ \A i \in DOMAIN ops' : i \in DOMAIN ops \/ i = Len(ops) + 1
  BY TransitionsAssumption DEF TypeOK

LEMMA NewOperationShape ==
    ASSUME TypeOK, NEW kind \in Kinds, NEW from \in Roots \union Models,
           NEW to \in Roots \union Models, NEW d \in {"none", "pending"}
    PROVE  LET o == NewOperation(kind, from, to, d)
           IN  /\ o \in Operation /\ o.kind = kind /\ o.from = from /\ o.to = to
               /\ o.stage = "prepared" /\ Owned(o) /\ ~o.inspected /\ Carried(o)
  BY DEF TypeOK, NewOperation, Operation, Owned, Carried, Deliveries

LEMMA AdmitStep ==
    ASSUME IInv, AdmitWorkspace
    PROVE  IInv'
  <1> DEFINE n == Len(ops) + 1
             d == IF provider.model \in Native THEN "none" ELSE "pending"
             o == NewOperation("workspace", record.root, n, d)
  <1>1. /\ doing.at = "quiesce" /\ doing.kind = "workspace" /\ Len(ops) < MaxOps
        /\ doing' = [doing EXCEPT !.at = "release", !.op = n]
        /\ UNCHANGED <<record, provider, manager, observer, admission, session>>
    BY DEF AdmitWorkspace, At, IInv, OpsShaped
  <1>2. n \in Roots /\ n \in Nat /\ record.root \in Roots /\ record.root < n
    BY <1>1, TransitionsAssumption DEF IInv, TypeOK, Roots, OpsShaped
  <1>3. /\ o \in Operation /\ o.kind = "workspace" /\ o.from = record.root /\ o.to = n
        /\ o.stage = "prepared" /\ Owned(o) /\ ~o.inspected /\ Carried(o)
    BY <1>2, NewOperationShape DEF IInv, Kinds
  <1>4. ops' = Append(ops, o)
    BY DEF AdmitWorkspace
  <1> HIDE DEF o, d
  <1>5. /\ ops' \in Seq(Operation) /\ Len(ops') = n /\ Len(ops') <= MaxOps
        /\ n \in DOMAIN ops' /\ n \in 1..MaxOps /\ ops'[n] = o
        /\ \A i \in DOMAIN ops : i \in DOMAIN ops' /\ ops'[i] = ops[i]
        /\ \A i \in DOMAIN ops' : i \in DOMAIN ops \/ i = n
    BY <1>1, <1>3, <1>4, Appended DEF IInv
  <1> HIDE DEF n
  <1>6. TypeOK'
    <2>1. doing' = [at |-> "release", kind |-> "workspace", op |-> n,
                    cancelled |-> doing.cancelled]
      BY <1>1 DEF IInv, TypeOK
    <2> QED BY <1>1, <1>5, <2>1 DEF IInv, TypeOK, Places, Kinds
  <1>7. OpsShaped'
    <2>1. \A i \in DOMAIN ops : Shaped(ops'[i], i)
      BY <1>5 DEF IInv, OpsShaped
    <2>2. Shaped(o, n)
      BY <1>2, <1>3 DEF Shaped
    <2>3. record.root <= Len(ops')
      BY <1>2, <1>5 DEF Roots
    <2>4. doing'.at # "quiesce"
      BY <1>1 DEF IInv, TypeOK
    <2> QED BY <1>1, <1>5, <2>1, <2>2, <2>3, <2>4 DEF OpsShaped, Shaped
  <1>8. Owning'
    BY <1>1, <1>3, <1>5 DEF IInv, TypeOK, Owning, Acting, StageAt, Current
  <1>9. Remembered'
    BY <1>1, <1>3, <1>5 DEF IInv, TypeOK, Remembered, TornAt
  <1>10. Together' /\ Handoffs'
    BY <1>1, <1>3, <1>5 DEF IInv, TypeOK, Together, Handoffs
  <1> QED BY <1>6, <1>7, <1>8, <1>9, <1>10 DEF IInv

LEMMA SwitchStep ==
    ASSUME IInv, NEW m \in Models, BeginSwitch(m)
    PROVE  IInv'
  <1> DEFINE n == Len(ops) + 1
  <1>1. PICK kind \in {"host", "live"} :
          /\ ops' = Append(ops, NewOperation(kind, record.model, m, "none"))
          /\ doing' = [Idle EXCEPT !.at = "pre", !.kind = kind, !.op = n]
    BY DEF BeginSwitch
  <1>2. /\ doing.at = "idle" /\ ~record.held /\ ~manager.barrier
        /\ m # record.model /\ record.model \in Models /\ Len(ops) < MaxOps
        /\ UNCHANGED <<record, provider, manager, observer, admission, session>>
    BY DEF BeginSwitch, ParentFree, At, IInv, TypeOK
  <1> DEFINE o == NewOperation(kind, record.model, m, "none")
  <1>3. /\ o \in Operation /\ o.kind = kind /\ o.from = record.model /\ o.to = m
        /\ o.stage = "prepared" /\ Owned(o) /\ ~o.inspected /\ Carried(o)
    BY <1>2, NewOperationShape DEF IInv, Kinds
  <1> HIDE DEF o
  <1>4. ops' = Append(ops, o)
    BY <1>1 DEF o
  <1>5. /\ ops' \in Seq(Operation) /\ Len(ops') = n /\ Len(ops') <= MaxOps
        /\ n \in DOMAIN ops' /\ n \in 1..MaxOps /\ ops'[n] = o
        /\ \A i \in DOMAIN ops : i \in DOMAIN ops' /\ ops'[i] = ops[i]
        /\ \A i \in DOMAIN ops' : i \in DOMAIN ops \/ i = n
    BY <1>2, <1>3, <1>4, Appended DEF IInv
  <1> HIDE DEF n
  <1>6. /\ doing' = [at |-> "pre", kind |-> kind, op |-> n, cancelled |-> FALSE]
        /\ kind # "workspace"
    BY <1>1 DEF Idle
  <1>7. TypeOK'
    BY <1>2, <1>5, <1>6 DEF IInv, TypeOK, Places, Kinds
  <1>8. OpsShaped'
    <2>1. \A i \in DOMAIN ops : Shaped(ops'[i], i)
      BY <1>5 DEF IInv, OpsShaped
    <2>2. Shaped(o, n)
      BY <1>2, <1>3, <1>6 DEF Shaped
    <2>3. record.root <= Len(ops')
      BY <1>5 DEF IInv, TypeOK, OpsShaped, Roots, n
    <2> QED BY <1>2, <1>5, <1>6, <2>1, <2>2, <2>3 DEF OpsShaped, Shaped
  <1>9. Owning'
    BY <1>3, <1>5, <1>6 DEF Owning, Acting, StageAt, Current
  <1>10. Remembered'
    BY <1>2, <1>3, <1>5, <1>6 DEF IInv, Remembered, TornAt
  <1>11. Together' /\ Handoffs'
    BY <1>2, <1>3, <1>5, <1>6 DEF IInv, TypeOK, Together, Handoffs
  <1> QED BY <1>7, <1>8, <1>9, <1>10, <1>11 DEF IInv

\* A transition reaches its next stage; nothing else of any operation changes.
Advanced(os, k, s) == [os EXCEPT ![k].stage = s]
OnlyStage(o, p, s) ==
    /\ o.kind = p.kind /\ o.from = p.from /\ o.to = p.to
    /\ o.stage = s /\ o.inspected = p.inspected
    /\ o.complete = p.complete /\ o.reconciled = p.reconciled /\ o.hold = p.hold
    /\ SameHandoff(o, p)

LEMMA AdvancedOps ==
    ASSUME NEW os \in Seq(Operation), NEW k \in DOMAIN os,
           NEW s \in {"prepared", "teardown", "applied"}
    PROVE  LET f == Advanced(os, k, s)
           IN  /\ f \in Seq(Operation) /\ Len(f) = Len(os)
               /\ DOMAIN f = DOMAIN os
               /\ OnlyStage(f[k], os[k], s)
               /\ \A i \in DOMAIN os : i # k => f[i] = os[i]
  <1> DEFINE o == [os[k] EXCEPT !.stage = s]
             f == Advanced(os, k, s)
  <1>1. os[k] \in Operation
    OBVIOUS
  <1>2. o \in Operation /\ OnlyStage(o, os[k], s)
    BY <1>1 DEF Operation, OnlyStage, SameHandoff
  <1>3. f = [os EXCEPT ![k] = o]
    BY DEF Advanced
  <1> HIDE DEF o, f
  <1>4. /\ f \in Seq(Operation) /\ Len(f) = Len(os)
        /\ DOMAIN f = DOMAIN os
        /\ \A i \in DOMAIN os : f[i] = IF i = k THEN o ELSE os[i]
    BY <1>2, <1>3, Replaced
  <1>5. OnlyStage(f[k], os[k], s) /\ \A i \in DOMAIN os : i # k => f[i] = os[i]
    BY <1>2, <1>4
  <1> QED BY <1>4, <1>5 DEF f

LEMMA CurrentAdvanced ==
    ASSUME ops \in Seq(Operation), doing.op \in DOMAIN ops,
           NEW s \in {"prepared", "teardown", "applied"},
           ops' = [ops EXCEPT ![doing.op].stage = s]
    PROVE  /\ ops' \in Seq(Operation) /\ Len(ops') = Len(ops)
           /\ DOMAIN ops' = DOMAIN ops
           /\ OnlyStage(ops'[doing.op], ops[doing.op], s)
           /\ \A i \in DOMAIN ops : i # doing.op => ops'[i] = ops[i]
  <1> DEFINE f == Advanced(ops, doing.op, s)
  <1>1. f \in Seq(Operation) /\ Len(f) = Len(ops) /\ DOMAIN f = DOMAIN ops
    BY AdvancedOps
  <1>2. OnlyStage(f[doing.op], ops[doing.op], s)
    BY AdvancedOps
  <1>3. \A i \in DOMAIN ops : i # doing.op => f[i] = ops[i]
    BY AdvancedOps
  <1>4. ops' = f
    BY DEF Advanced
  <1> HIDE DEF f
  <1> QED BY <1>1, <1>2, <1>3, <1>4

\* The owner of a transition advances it by one stage.
LEMMA StageStep ==
    ASSUME IInv, doing.at \in Acting, 
           NEW s \in {"prepared", "teardown", "applied"}, s # "prepared",
           NEW place \in Acting, StageAt(place) = s, doing.kind # "workspace" \/ s = "teardown",
           ops' = [ops EXCEPT ![doing.op].stage = s],
           doing' = [doing EXCEPT !.at = place],
           record' \in RecordType, record'.root = record.root,
           provider' \in [root : Roots, model : Models], provider'.root = record.root,
           admission' \in BOOLEAN, UNCHANGED <<manager, observer, session>>,
           place = "effect" => doing.kind = "live",
           place = "closing" => doing.kind # "live",
           place \notin {"pre", "release"},
           doing.at \in {"release", "pre", "observers", "closing"}
    PROVE  IInv'
  <1>1. doing.op \in DOMAIN ops /\ ops \in Seq(Operation)
    BY DEF IInv, TypeOK, Owning
  <1>2. /\ ops' \in Seq(Operation) /\ Len(ops') = Len(ops) /\ DOMAIN ops' = DOMAIN ops
        /\ OnlyStage(ops'[doing.op], ops[doing.op], s)
        /\ \A i \in DOMAIN ops : i # doing.op => ops'[i] = ops[i]
    BY <1>1, CurrentAdvanced
  <1>3. /\ doing'.at = place /\ doing'.op = doing.op /\ doing'.kind = doing.kind
        /\ doing' \in [at : Places, kind : Kinds, op : 0..MaxOps, cancelled : BOOLEAN]
    BY DEF IInv, TypeOK, Acting, Places
  <1>4. TypeOK'
    BY <1>2, <1>3 DEF IInv, TypeOK, RecordType
  <1>5. OpsShaped'
    BY <1>2, <1>3 DEF IInv, OpsShaped, Shaped, Acting, OnlyStage
  <1>6. Owning'
    <2>1. doing'.op \in DOMAIN ops' /\ Owned(Current') /\ ~Current'.inspected
      BY <1>1, <1>2, <1>3 DEF IInv, Owning, Current, Owned, OnlyStage
    <2>2. Current'.kind = doing'.kind /\ Current'.stage = StageAt(doing'.at)
      BY <1>1, <1>2, <1>3 DEF IInv, Owning, Current, Owned, OnlyStage
    <2>3. doing'.at \in {"observers", "closing"} /\ doing'.kind = "workspace"
            => manager'.barrier = session'.agents
      BY <1>3 DEF IInv, Owning
    <2>4. doing'.at \notin {"quiesce", "release", "pre"}
      BY <1>3 DEF Acting
    <2> QED BY <1>3, <2>1, <2>2, <2>3, <2>4 DEF Owning, Current
  <1>7. Remembered'
    <2>1. \A i \in DOMAIN ops : TornAt(i)' => i = doing.op /\ s = "teardown"
      BY <1>1, <1>2, TornIsOwned DEF Acting, TornAt, OnlyStage
    <2>2. s = "teardown" => place \in {"effect", "observers", "closing"}
      BY DEF StageAt, Acting
    <2> QED BY <1>2, <1>3, <2>1, <2>2 DEF Remembered, TornAt
  <1>8. Together' /\ Handoffs'
    BY <1>2, <1>3
      DEF IInv, Together, Handoffs, Carried, SameHandoff, Acting, OnlyStage
  <1> QED BY <1>4, <1>5, <1>6, <1>7, <1>8 DEF IInv

LEMMA ReleaseAndSwitchSteps ==
    ASSUME IInv,
           ReleaseWorkspace \/ ReleaseSwitch \/ ApplySwitch \/ RecordLiveSwitch
    PROVE  IInv'
  <1>1. CASE ReleaseWorkspace
    BY <1>1, StageStep
      DEF ReleaseWorkspace, TearDown, Reach, At, Acting, StageAt, IInv, TypeOK,
          Together, RecordType
  <1>2. CASE ReleaseSwitch
    BY <1>2, StageStep
      DEF ReleaseSwitch, TearDown, Reach, At, Acting, StageAt, IInv, TypeOK,
          Together, RecordType
  <1>3. CASE ApplySwitch \/ RecordLiveSwitch
    <2>1. Switched /\ doing.at \in {"closing", "observers"} /\ doing.kind # "workspace"
      BY <1>3 DEF ApplySwitch, RecordLiveSwitch, At
    <2>2. Current.to \in Models
      BY <2>1 DEF IInv, Owning, OpsShaped, Shaped, Acting, Current
    <2>3. /\ record' \in RecordType /\ record'.root = record.root
          /\ provider' \in [root : Roots, model : Models]
          /\ provider'.root = record.root
      BY <2>1, <2>2 DEF Switched, IInv, TypeOK, RecordType
    <2> QED BY <2>1, <2>3, StageStep
          DEF Switched, Reach, Acting, StageAt, IInv, TypeOK
  <1> QED BY <1>1, <1>2, <1>3

\* apply_workspace_change installs the new root, and what it supersedes was not
\* carried by any model call.
LEMMA ApplyWorkspaceStep ==
    ASSUME IInv, ApplyWorkspace
    PROVE  IInv'
  <1> DEFINE new(i) == IF i = doing.op THEN [ops[i] EXCEPT !.stage = "applied"]
                       ELSE IF Superseded(ops[i])
                            THEN [ops[i] EXCEPT !.delivery = "superseded"] ELSE ops[i]
             f == [i \in DOMAIN ops |-> new(i)]
  <1>1. /\ doing.at = "closing" /\ doing.kind = "workspace" /\ observer = NoRoot
        /\ ops' = f /\ record' = [record EXCEPT !.root = Current.to]
        /\ provider' = [root |-> Current.to, model |-> record.model]
        /\ manager' = [root |-> Current.to, barrier |-> FALSE]
        /\ admission' = TRUE
        /\ doing' = [doing EXCEPT !.at = "post"]
        /\ UNCHANGED <<observer, session>>
    BY DEF ApplyWorkspace, MayApplyWorkspace, LiveObserversStopped, At, Reach
  <1>2. /\ ops \in Seq(Operation) /\ doing.op \in DOMAIN ops
        /\ Current.to = doing.op /\ doing.op \in Roots /\ doing.op <= Len(ops)
    BY <1>1 DEF IInv, TypeOK, Owning, OpsShaped, Shaped, Acting, Current, Roots
  <1>3. \A i \in DOMAIN ops :
          /\ new(i) \in Operation
          /\ new(i).kind = ops[i].kind /\ new(i).from = ops[i].from
          /\ new(i).to = ops[i].to /\ new(i).inspected = ops[i].inspected
          /\ new(i).complete = ops[i].complete /\ new(i).hold = ops[i].hold
          /\ new(i).reconciled = ops[i].reconciled
          /\ new(i).stage = IF i = doing.op THEN "applied" ELSE ops[i].stage
          /\ new(i).bound = ops[i].bound /\ new(i).reads = ops[i].reads
          /\ new(i).delivery \in {ops[i].delivery, "superseded"}
          /\ new(i).delivery # ops[i].delivery => ops[i].delivery = "pending"
    <2>1. ASSUME NEW i \in DOMAIN ops PROVE ops[i] \in Operation
      BY <1>2, <2>1
    <2> QED BY <2>1 DEF Operation, Superseded, Deliveries
  <1>4. f \in [DOMAIN ops -> Operation]
    BY <1>3
  <1>5. \A i \in DOMAIN ops : f[i] = new(i)
    OBVIOUS
  <1> HIDE DEF f, new
  <1>6. f \in Seq(Operation) /\ Len(f) = Len(ops) /\ DOMAIN f = DOMAIN ops
    BY <1>2, <1>4, Rewritten
  <1>7. /\ doing'.at = "post" /\ doing'.op = doing.op /\ doing'.kind = "workspace"
        /\ doing' \in [at : Places, kind : Kinds, op : 0..MaxOps, cancelled : BOOLEAN]
    BY <1>1 DEF IInv, TypeOK, Places
  <1>8. TypeOK'
    BY <1>1, <1>2, <1>6, <1>7 DEF IInv, TypeOK
  <1>9. OpsShaped'
    <2>1. record'.root <= Len(ops')
      BY <1>1, <1>2, <1>6 DEF IInv, TypeOK
    <2>2. \A i \in DOMAIN ops : Shaped(new(i), i)
      BY <1>3 DEF IInv, OpsShaped, Shaped
    <2> QED BY <1>1, <1>5, <1>6, <1>7, <2>1, <2>2 DEF OpsShaped, Shaped
  <1>10. Owning'
    <2>1. Owned(ops[doing.op]) /\ ~ops[doing.op].inspected /\ ops[doing.op].kind = "workspace"
      BY <1>1 DEF IInv, Owning, Acting, Current
    <2>2. /\ Owned(new(doing.op)) /\ ~new(doing.op).inspected
          /\ new(doing.op).kind = "workspace" /\ new(doing.op).stage = "applied"
      BY <1>2, <1>3, <2>1 DEF Owned
    <2> QED BY <1>1, <1>2, <1>5, <1>6, <1>7, <2>2
              DEF Owning, Current, StageAt, Acting
  <1>11. Remembered'
    <2>1. \A i \in DOMAIN ops : ~(new(i).stage = "teardown" /\ ~new(i).inspected)
      BY <1>1, <1>3, TornIsOwned DEF TornAt
    <2> QED BY <1>1, <1>5, <1>6, <2>1 DEF Remembered, TornAt
  <1>12. Together'
    BY <1>1 DEF Together, IInv, TypeOK
  <1>13. Handoffs'
    <2>1. \A i \in DOMAIN ops : Carried(new(i))
      BY <1>3 DEF IInv, Handoffs, Carried
    <2> QED BY <1>1, <1>5, <1>6, <1>7, <2>1 DEF Handoffs, Carried
  <1> QED BY <1>8, <1>9, <1>10, <1>11, <1>12, <1>13 DEF IInv

\* /reconcile marks every operation as inspected, so that none is torn.
LEMMA ReconcileStep ==
    ASSUME IInv, Reconcile
    PROVE  IInv'
  <1> DEFINE new(i) == [ops[i] EXCEPT !.reconciled = @ \/ NeedsReconciliation(ops[i]),
                                      !.inspected = TRUE]
             f == [i \in DOMAIN ops |-> new(i)]
  <1>1. /\ doing.at = "idle" /\ ops' = f
        /\ record' = [record EXCEPT !.held = FALSE, !.phase = FALSE]
        /\ session' = [session EXCEPT !.inspected = TRUE]
        /\ UNCHANGED <<provider, manager, observer, admission, doing>>
    BY DEF Reconcile, ParentFree, At
  <1>2. ops \in Seq(Operation)
    BY DEF IInv, TypeOK
  <1>3. \A i \in DOMAIN ops :
          /\ new(i) \in Operation
          /\ new(i).kind = ops[i].kind /\ new(i).from = ops[i].from
          /\ new(i).to = ops[i].to /\ new(i).inspected
          /\ SameHandoff(new(i), ops[i])
    <2>1. ASSUME NEW i \in DOMAIN ops PROVE ops[i] \in Operation
      BY <1>2, <2>1
    <2> QED BY <2>1 DEF Operation, SameHandoff, NeedsReconciliation
  <1>4. f \in [DOMAIN ops -> Operation]
    BY <1>3
  <1>5. \A i \in DOMAIN ops : f[i] = new(i)
    OBVIOUS
  <1> HIDE DEF f, new
  <1>6. f \in Seq(Operation) /\ Len(f) = Len(ops) /\ DOMAIN f = DOMAIN ops
    BY <1>2, <1>4, Rewritten
  <1>7. TypeOK'
    BY <1>1, <1>6 DEF IInv, TypeOK
  <1>8. OpsShaped'
    <2>1. \A i \in DOMAIN ops : Shaped(new(i), i)
      BY <1>3 DEF IInv, OpsShaped, Shaped
    <2> QED BY <1>1, <1>5, <1>6, <2>1 DEF IInv, TypeOK, OpsShaped, Shaped
  <1>9. Owning' /\ Remembered' /\ Together'
    BY <1>1, <1>3, <1>5, <1>6
      DEF IInv, TypeOK, Owning, Acting, Remembered, TornAt, Together
  <1>10. Handoffs'
    <2>1. \A i \in DOMAIN ops : Carried(new(i))
      BY <1>3 DEF IInv, Handoffs, Carried, SameHandoff
    <2> QED BY <1>1, <1>5, <1>6, <2>1 DEF Handoffs, Carried
  <1> QED BY <1>7, <1>8, <1>9, <1>10 DEF IInv

\* A restart resumes on the record, holding what a teardown left open.
LEMMA RestartStep ==
    ASSUME IInv, Restart
    PROVE  IInv'
  <1> DEFINE new(i) == IF ops[i].delivery = "sent"
                       THEN [ops[i] EXCEPT !.delivery = "uncertain", !.hold = TRUE]
                       ELSE ops[i]
             f == [i \in DOMAIN ops |-> new(i)]
             held == record.held \/ record.phase \/ Unresolved(f) \/ observer # NoRoot
                       \/ \E i \in DOMAIN f : f[i].kind = "workspace" /\ f[i].hold
  <1>1. /\ ops' = f /\ session.life < MaxLives
        /\ record' = [record EXCEPT !.held = @ \/ record.phase \/ Unresolved(f)
                         \/ observer # NoRoot
                         \/ \E i \in DOMAIN f : f[i].kind = "workspace" /\ f[i].hold]
        /\ provider' = [root |-> record.root, model |-> record.model]
        /\ manager' = [root |-> record.root, barrier |-> FALSE]
        /\ observer' = NoRoot /\ admission' = TRUE /\ doing' = Idle
        /\ session' = [session EXCEPT !.life = @ + 1, !.inspected = FALSE]
    BY DEF Restart
  <1>2. ops \in Seq(Operation) /\ held \in BOOLEAN
    BY DEF IInv, TypeOK, Unresolved
  <1>3. \A i \in DOMAIN ops : new(i) \in Operation /\ Same(new(i), ops[i]) /\ Carried(new(i))
              /\ NeedsReconciliation(new(i)) = NeedsReconciliation(ops[i])
    <2>1. ASSUME NEW i \in DOMAIN ops PROVE ops[i] \in Operation /\ Carried(ops[i])
      BY <1>2, <2>1 DEF IInv, Handoffs
    <2> QED BY <2>1
              DEF Operation, Same, Carried, NeedsReconciliation, Deliveries
  <1>4. f \in [DOMAIN ops -> Operation]
    BY <1>3
  <1>5. \A i \in DOMAIN ops : f[i] = new(i)
    OBVIOUS
  <1>6. f \in Seq(Operation) /\ Len(f) = Len(ops) /\ DOMAIN f = DOMAIN ops
    BY <1>2, <1>4, Rewritten
  <1>7. record' = [record EXCEPT !.held = held]
    BY <1>1
  <1>8. \A i \in DOMAIN ops : TornAt(i) => held
    <2>1. ASSUME NEW i \in DOMAIN ops, TornAt(i), ~record.held
          PROVE  NeedsReconciliation(ops[i])
      BY <2>1, TornIsOwned DEF IInv, Remembered, Owned, NeedsReconciliation
    <2>2. ASSUME NEW i \in DOMAIN ops, NeedsReconciliation(ops[i]) PROVE Unresolved(f)
      BY <1>3, <1>5, <1>6, <2>2 DEF Unresolved, NeedsReconciliation
    <2> QED BY <2>1, <2>2
  <1> HIDE DEF f, new, held
  <1>9. /\ record' \in RecordType /\ record'.root = record.root /\ record'.held = held
        /\ record.root \in Roots /\ record.model \in Models
    BY <1>2, <1>7 DEF IInv, TypeOK, RecordType
  <1>10. TypeOK'
    <2>1. session' \in [life : 1..MaxLives, inspected : BOOLEAN, agents : BOOLEAN]
      <3>1. session.life + 1 \in 1..MaxLives
        BY <1>1, TransitionsAssumption DEF IInv, TypeOK
      <3> QED BY <1>1, <3>1 DEF IInv, TypeOK
    <2>2. doing' \in [at : Places, kind : Kinds, op : 0..MaxOps, cancelled : BOOLEAN]
      BY <1>1, TransitionsAssumption DEF Idle, Places, Kinds
    <2> QED BY <1>1, <1>6, <1>9, <2>1, <2>2 DEF IInv, TypeOK, RecordType
  <1>11. OpsShaped'
    <2>1. \A i \in DOMAIN ops : Shaped(new(i), i)
      BY <1>3 DEF IInv, OpsShaped, Shaped, Same
    <2> QED BY <1>1, <1>5, <1>6, <1>9, <2>1
              DEF IInv, TypeOK, OpsShaped, Shaped, Idle
  <1>12. Owning' /\ Together'
    BY <1>1, <1>9 DEF Owning, Acting, Together, Idle
  <1>13. Remembered'
    BY <1>1, <1>3, <1>5, <1>6, <1>8, <1>9 DEF Remembered, TornAt, Same, Idle
  <1>14. Handoffs'
    BY <1>1, <1>3, <1>5, <1>6 DEF Handoffs, Idle
  <1> QED BY <1>10, <1>11, <1>12, <1>13, <1>14 DEF IInv

\* A step of a worker turn on one handoff: it changes what that handoff records.
LEMMA HandoffStep ==
    ASSUME IInv, NEW k \in DOMAIN ops, NEW o \in Operation,
           ops' = [ops EXCEPT ![k] = o],
           Same(o, ops[k]), Carried(o),
           NeedsReconciliation(o) <=> NeedsReconciliation(ops[k]),
           doing.at \in {"idle", "work"},
           \A i \in DOMAIN ops : ~TornAt(i) \/ (doing' = Idle /\ record'.held),
           record' \in RecordType, record'.root = record.root,
           admission' \in BOOLEAN,
           UNCHANGED <<provider, manager, observer, session>>,
           \/ doing' = Idle
           \/ /\ doing' \in {doing, [Idle EXCEPT !.at = "work", !.op = k]}
              /\ doing'.at = "work"
              /\ doing'.op = k => o.delivery = "sent" /\ (o.bound => o.reads = 1)
    PROVE  IInv'
  <1>1. ops \in Seq(Operation) /\ k \in 0..MaxOps
    BY TransitionsAssumption DEF IInv, TypeOK
  <1>2. /\ ops' \in Seq(Operation) /\ Len(ops') = Len(ops) /\ DOMAIN ops' = DOMAIN ops
        /\ \A i \in DOMAIN ops : ops'[i] = IF i = k THEN o ELSE ops[i]
    BY <1>1, Replaced
  <1>3. /\ doing' \in [at : Places, kind : Kinds, op : 0..MaxOps, cancelled : BOOLEAN]
        /\ doing'.at \in {"idle", "work"}
    <2>1. /\ Idle \in [at : Places, kind : Kinds, op : 0..MaxOps, cancelled : BOOLEAN]
          /\ Idle.at = "idle"
      BY TransitionsAssumption DEF Idle, Places, Kinds
    <2> DEFINE w == [Idle EXCEPT !.at = "work", !.op = k]
    <2>2. /\ w \in [at : Places, kind : Kinds, op : 0..MaxOps, cancelled : BOOLEAN]
          /\ w.at = "work"
      BY <1>1 DEF Idle, Places, Kinds
    <2> HIDE DEF w
    <2>3. doing' \in {Idle, doing, w}
      BY DEF w
    <2> QED BY <2>1, <2>2, <2>3 DEF IInv, TypeOK
  <1>4. TypeOK'
    BY <1>2, <1>3 DEF IInv, TypeOK, RecordType
  <1>5. OpsShaped'
    BY <1>2, <1>3 DEF IInv, OpsShaped, Shaped, Same
  <1>6. Owning' /\ Together'
    BY <1>3 DEF IInv, Owning, Acting, Together
  <1>7. Remembered'
    BY <1>2, <1>3 DEF Remembered, TornAt, Same, Idle
  <1>8. Handoffs'
    <2>1. \A i \in DOMAIN ops' : Carried(ops'[i])
      BY <1>2 DEF IInv, Handoffs
    <2>2. doing'.at = "work" /\ doing'.op # 0 =>
            /\ doing'.op \in DOMAIN ops' /\ ops'[doing'.op].delivery = "sent"
            /\ ops'[doing'.op].bound => ops'[doing'.op].reads = 1
      <3>1. CASE doing' = Idle
        BY <3>1 DEF Idle
      <3>2. CASE doing' = [Idle EXCEPT !.at = "work", !.op = k]
        <4>1. doing'.op = k
          BY <3>2 DEF Idle
        <4>2. doing' # Idle
          BY <3>2 DEF Idle
        <4> QED BY <1>2, <4>1, <4>2
      <3>3. CASE doing' = doing /\ doing' # Idle
        BY <1>2, <3>3 DEF IInv, Handoffs, Current
      <3> QED BY <3>1, <3>2, <3>3
    <2> QED BY <2>1, <2>2 DEF Handoffs, Current, Carried
  <1> QED BY <1>4, <1>5, <1>6, <1>7, <1>8 DEF IInv

\* The newest of some operations is one of them.
LEMMA NewestExists ==
    ASSUME NEW n \in Nat, NEW S, S \subseteq 0..n, S # {}
    PROVE  Max(S) \in S
  <1> DEFINE R == {ss \in Nat \X Nat : ss[1] < ss[2]}
             T == {n - x : x \in S}
  <1>1. IsWellFoundedOn(R, Nat)
    BY NatLessThanWellFounded DEF OpToRel
  <1>2. T \subseteq Nat /\ T # {}
    <2>1. ASSUME NEW x \in S PROVE n - x \in Nat
      <3>1. x \in 0..n
        OBVIOUS
      <3> QED BY <3>1
    <2> QED BY <2>1
  <1> HIDE DEF T
  <1>3. PICK t \in T : \A y \in T : ~(<<y, t>> \in R)
    BY <1>1, <1>2, WFMin
  <1>4. PICK x \in S : t = n - x
    BY DEF T
  <1>5. \A y \in S : x >= y
    <2>1. ASSUME NEW y \in S, x < y PROVE FALSE
      <3>1. n - y \in T /\ n - y < t /\ n - y \in Nat /\ t \in Nat
        BY <1>4, <2>1 DEF T
      <3> QED BY <1>3, <3>1
    <2> QED BY <2>1
  <1> QED BY <1>5 DEF Max

\* A turn takes the newest pending handoff with it.
LEMMA StartWorkStep ==
    ASSUME IInv, StartWork
    PROVE  IInv'
  <1> DEFINE pending == {i \in DOMAIN ops : Deliverable(i)}
  <1>1. /\ doing.at = "idle" /\ ~manager.barrier /\ ~record.held
        /\ record' = [record EXCEPT !.phase = TRUE] /\ admission' = TRUE
        /\ UNCHANGED <<provider, manager, observer, session>>
    BY DEF StartWork, ParentFree, At
  <1>2. /\ ops \in Seq(Operation) /\ Len(ops) \in Nat
        /\ record' \in RecordType /\ record'.root = record.root
    <2>1. ops \in Seq(Operation) /\ record \in RecordType
      BY DEF IInv, TypeOK, RecordType
    <2>2. record' \in RecordType /\ record'.root = record.root
      BY <1>1, <2>1 DEF RecordType
    <2> QED BY <2>1, <2>2
  <1>3. \A i \in DOMAIN ops : ~TornAt(i)
    BY <1>1 DEF IInv, Remembered
  <1>4. CASE pending = {}
    <2>1. ops' = ops /\ doing' = [Idle EXCEPT !.at = "work"]
      BY <1>4 DEF StartWork
    <2>2. doing' = [at |-> "work", kind |-> "host", op |-> 0, cancelled |-> FALSE]
      BY <2>1 DEF Idle
    <2>3. TypeOK'
      <3>1. doing' \in [at : Places, kind : Kinds, op : 0..MaxOps, cancelled : BOOLEAN]
        BY <2>2, TransitionsAssumption DEF Places, Kinds
      <3> HIDE DEF pending
      <3> QED BY <1>1, <1>2, <2>1, <3>1 DEF IInv, TypeOK, RecordType
    <2>4. OpsShaped' /\ Owning' /\ Together'
      BY <1>1, <1>2, <2>1, <2>2
        DEF IInv, OpsShaped, Shaped, Owning, Acting, Together
    <2>5. Remembered' /\ Handoffs'
      BY <1>3, <2>1, <2>2 DEF IInv, Remembered, TornAt, Handoffs
    <2> QED BY <2>3, <2>4, <2>5 DEF IInv
  <1>5. CASE pending # {}
    <2> DEFINE k == Max(pending)
               o == [ops[k] EXCEPT !.delivery = "sent"]
    <2>1. k \in pending
      <3>1. pending \subseteq 0..Len(ops)
        BY <1>2
      <3> HIDE DEF pending
      <3> QED BY <1>2, <1>5, <3>1, NewestExists
    <2>2. /\ doing' = [Idle EXCEPT !.at = "work", !.op = k]
          /\ ops' = [ops EXCEPT ![k].delivery = "sent"]
      BY <1>5 DEF StartWork
    <2> HIDE DEF k
    <2>3. k \in DOMAIN ops /\ ops[k] \in Operation /\ ops[k].delivery = "pending"
      BY <1>2, <2>1 DEF Deliverable, Superseded
    <2>4. o \in Operation /\ Same(o, ops[k]) /\ Carried(o) /\ o.delivery = "sent"
          /\ (NeedsReconciliation(o) <=> NeedsReconciliation(ops[k]))
          /\ ~o.bound
      BY <2>3
        DEF IInv, Handoffs, Carried, Operation, Same, NeedsReconciliation,
                  Deliveries
    <2>5. ops' = [ops EXCEPT ![k] = o]
      BY <2>2
    <2> HIDE DEF o
    <2>6. doing'.at = "work"
      BY <2>2 DEF Idle
    <2> QED BY <1>1, <1>2, <1>3, <2>2, <2>3, <2>4, <2>5, <2>6, HandoffStep
  <1> QED BY <1>4, <1>5

\* The first model call of a turn binds the handoff and is the one that carries it.
LEMMA BindStep ==
    ASSUME IInv, BindProvider
    PROVE  IInv'
  <1>1. doing.at = "work" /\ UNCHANGED <<record, provider, manager, observer, admission,
                                         session, doing>>
    BY DEF BindProvider, At
  <1>2. PICK k \in Unbound :
          ops' = [ops EXCEPT ![k].bound = TRUE,
                             ![k].reads = IF k = doing.op THEN @ + 1 ELSE @]
    BY DEF BindProvider
  <1> DEFINE o == [ops[k] EXCEPT !.bound = TRUE,
                                 !.reads = IF k = doing.op THEN @ + 1 ELSE @]
  <1>3. /\ ops \in Seq(Operation) /\ k \in DOMAIN ops /\ ops[k] \in Operation
        /\ ops[k].delivery = "sent" /\ ~ops[k].bound /\ ops[k].reads = 0
    <2>1. k \in DOMAIN ops /\ ops[k].delivery = "sent" /\ ~ops[k].bound
      BY DEF Unbound
    <2> QED BY <2>1 DEF IInv, TypeOK, Handoffs, Carried
  <1>4. /\ o \in Operation /\ Same(o, ops[k]) /\ Carried(o) /\ o.delivery = "sent"
        /\ NeedsReconciliation(o) <=> NeedsReconciliation(ops[k])
        /\ k = doing.op => o.reads = 1
    <2> DEFINE n == IF k = doing.op THEN 1 ELSE 0
    <2>1. o = [ops[k] EXCEPT !.bound = TRUE, !.reads = n]
      BY <1>3 DEF Operation
    <2>2. n \in 0..2 /\ n <= 1 /\ (k = doing.op => n = 1)
      OBVIOUS
    <2> HIDE DEF o, n
    <2>3. /\ o \in Operation /\ o.reads = n
          /\ o.delivery = ops[k].delivery /\ o.bound = TRUE
      BY <1>3, <2>1, <2>2 DEF Operation
    <2>4. Same(o, ops[k]) /\ (NeedsReconciliation(o) <=> NeedsReconciliation(ops[k]))
      BY <1>3, <2>1 DEF Operation, Same, NeedsReconciliation
    <2> QED BY <1>3, <2>2, <2>3, <2>4 DEF Carried
  <1>5. ops' = [ops EXCEPT ![k] = o]
    BY <1>2, <1>3
  <1> HIDE DEF o
  <1>6. \A i \in DOMAIN ops : ~TornAt(i)
    BY <1>1 DEF IInv, Remembered
  <1>7. record' \in RecordType /\ record'.root = record.root /\ admission' \in BOOLEAN
    BY <1>1 DEF IInv, TypeOK, RecordType
  <1>8. doing' = doing /\ doing'.at = "work"
        /\ UNCHANGED <<provider, manager, observer, session>>
    BY <1>1
  <1>9. doing'.op = k => o.delivery = "sent" /\ (o.bound => o.reads = 1)
    BY <1>1, <1>4
  <1> QED BY <1>3, <1>4, <1>5, <1>6, <1>7, <1>8, <1>9, HandoffStep

\* The turn ends: the handoff was delivered, is uncertain, or may be offered again
\* because no model call was bound to it.
LEMMA FinishWorkStep ==
    ASSUME IInv, FinishWork
    PROVE  IInv'
  <1> DEFINE k == doing.op
  <1>1. doing.at = "work" /\ UNCHANGED <<provider, manager, observer, admission, session>>
    BY DEF FinishWork, At
  <1>2. \A i \in DOMAIN ops : ~TornAt(i)
    BY <1>1 DEF IInv, Remembered
  <1>3. /\ ops \in Seq(Operation) /\ record \in RecordType
        /\ manager' \in [root : Roots, barrier : BOOLEAN]
        /\ manager'.root = manager.root /\ admission' \in BOOLEAN
    BY <1>1 DEF IInv, TypeOK, RecordType
  <1>4. CASE k = 0
    <2>1. ops' = ops /\ doing' = Idle /\ record' = Settled(record, ops)
      BY <1>1, <1>4 DEF FinishWork, EndTurn, At
    <2>2. record = [record EXCEPT !.held = @ \/ FALSE]
      BY <1>3 DEF RecordType
    <2>3. record' \in RecordType /\ record'.root = record.root
      BY <1>3, <2>1, <2>2, RecordKept
    <2>4. /\ ops' \in Seq(Operation) /\ Len(ops') = Len(ops) /\ DOMAIN ops' = DOMAIN ops
          /\ \A i \in DOMAIN ops : Same(ops'[i], ops[i]) /\ SameHandoff(ops'[i], ops[i])
      BY <1>3, <2>1 DEF Same, SameHandoff
    <2> QED BY <1>1, <1>2, <1>3, <2>1, <2>3, <2>4, TurnEnds DEF RecordType
  <1>5. CASE k # 0
    <2>1. PICK outcome \in Deliveries :
            /\ \/ outcome = "pending" /\ ~ops[k].bound
               \/ outcome \in {"delivered", "uncertain"} /\ ops[k].bound
            /\ EndTurn([record EXCEPT !.held = @ \/ outcome = "uncertain"],
                       [ops EXCEPT ![k].delivery = outcome,
                                   ![k].hold = @ \/ outcome = "uncertain"])
      <3>1. PICK done \in BOOLEAN :
              LET outcome == IF ~ops[k].bound THEN "pending"
                             ELSE IF done THEN "delivered" ELSE "uncertain"
              IN  EndTurn([record EXCEPT !.held = @ \/ outcome = "uncertain"],
                          [ops EXCEPT ![k].delivery = outcome,
                                      ![k].hold = @ \/ outcome = "uncertain"])
        BY <1>5 DEF FinishWork
      <3> DEFINE oc == IF ~ops[k].bound THEN "pending"
                       ELSE IF done THEN "delivered" ELSE "uncertain"
      <3>2. /\ oc \in Deliveries
            /\ \/ oc = "pending" /\ ~ops[k].bound
               \/ oc \in {"delivered", "uncertain"} /\ ops[k].bound
        BY DEF Deliveries
      <3>3. EndTurn([record EXCEPT !.held = @ \/ oc = "uncertain"],
                    [ops EXCEPT ![k].delivery = oc,
                                ![k].hold = @ \/ oc = "uncertain"])
        BY <3>1
      <3> HIDE DEF oc
      <3> QED BY <3>2, <3>3
    <2> DEFINE held == outcome = "uncertain"
               r == [record EXCEPT !.held = @ \/ held]
               o == [ops[k] EXCEPT !.delivery = outcome, !.hold = @ \/ held]
    <2>2. /\ k \in DOMAIN ops /\ ops[k] \in Operation /\ ops[k].delivery = "sent"
          /\ Carried(ops[k]) /\ (ops[k].bound => ops[k].reads = 1)
      BY <1>1, <1>3, <1>5 DEF IInv, Handoffs, Current
    <2>3. /\ o \in Operation /\ Same(o, ops[k]) /\ Carried(o)
          /\ NeedsReconciliation(o) <=> NeedsReconciliation(ops[k])
      BY <2>1, <2>2 DEF Carried, Operation, Same, NeedsReconciliation
    <2>4. /\ ops' = [ops EXCEPT ![k].delivery = outcome, ![k].hold = @ \/ held]
          /\ doing' = Idle /\ record' = Settled(r, ops')
      BY <1>1, <2>1 DEF EndTurn, At
    <2>5. ops' = [ops EXCEPT ![k] = o]
      BY <1>3, <2>2, <2>4
    <2> HIDE DEF o
    <2>6. record' \in RecordType /\ record'.root = record.root
      <3> HIDE DEF held
      <3>1. held \in BOOLEAN
        BY DEF held
      <3> QED BY <1>3, <2>4, <3>1, RecordKept
    <2> HIDE DEF k
    <2> QED BY <1>1, <1>2, <1>3, <2>2, <2>3, <2>4, <2>5, <2>6, HandoffStep
              DEF k
  <1> QED BY <1>4, <1>5

LEMMA Inductive == IInv /\ [Next]_vars => IInv'
  <1> SUFFICES ASSUME IInv, [Next]_vars PROVE IInv'
    OBVIOUS
  <1>1. CASE UNCHANGED vars
    BY <1>1
      DEF vars, IInv, TypeOK, OpsShaped, Owning, Current, Remembered, TornAt,
          Together, Handoffs
  <1>2. CASE ReleaseWorkspace \/ ReleaseSwitch \/ ApplySwitch \/ RecordLiveSwitch
    BY <1>2, ReleaseAndSwitchSteps
  <1>3. CASE ObserversStopped \/ CancelClose \/ BeginWorkspace \/ LiveEffect
             \/ FirstDispatch \/ ObserverStarts \/ ObserverEnds
    BY <1>3, ContinuingSteps
  <1>4. CASE ObserversLinger \/ CloseFails \/ ApplyWorkspaceFails
             \/ QuiesceFails \/ AdmissionRefused \/ ReleaseWorkspaceRefused
             \/ EndWorkspace \/ SwitchRefused \/ SwitchCancelled
             \/ LiveEffectFails \/ EndSwitch \/ PostSwitchFails
    BY <1>4, EndingSteps
  <1>5. CASE AdmitWorkspace \/ \E m \in Models : BeginSwitch(m)
    BY <1>5, AdmitStep, SwitchStep
  <1>6. CASE ApplyWorkspace \/ DropTurn \/ Reconcile \/ Restart
    BY <1>6, ApplyWorkspaceStep, DropStep, ReconcileStep, RestartStep
  <1>7. CASE StartWork \/ BindProvider \/ FinishWork
    BY <1>7, StartWorkStep, BindStep, FinishWorkStep
  <1> QED BY <1>1, <1>2, <1>3, <1>4, <1>5, <1>6, <1>7 DEF Next, Bounded

LEMMA Invariance == Spec => []IInv
  BY Initially, Inductive, PTL DEF Spec

\* The state of the record, the operations and the turn is as TypeOK describes it.
THEOREM TransitionsTypeCorrect == Spec => []TypeOK
  <1>1. IInv => TypeOK
    BY DEF IInv
  <1> QED BY <1>1, Invariance, PTL

\* After any transition, failed, dropped, refused, interrupted or finished, and
\* after any restart, a worker turn's provider, the running observers and the agents
\* that may be launched are at the root the record names (stop_observers,
\* replace_workspace, install_workspace).
THEOREM OneRootHolds == Spec => []OneRoot
  <1>1. IInv => OneRoot
    BY DEF IInv, Together, OneRoot
  <1> QED BY <1>1, Invariance, PTL

\* However turns fail and the process dies, the conversation of a replaced provider
\* is carried by one model call at the most, and one that was carried is never
\* offered again (begin_, bind_ and finish_workspace_handoff_delivery).
THEOREM HandedOffOnce == Spec => []HandoffOnce
  <1>1. IInv => HandoffOnce
    <2> SUFFICES ASSUME IInv, NEW i \in DOMAIN ops
                 PROVE  /\ ops[i].reads <= 1
                        /\ ops[i].delivery = "delivered" => ops[i].reads = 1
                        /\ ops[i].reads > 0 =>
                             ops[i].delivery \notin {"pending", "superseded"}
      BY DEF HandoffOnce
    <2>1. Carried(ops[i])
      BY DEF IInv, Handoffs
    <2> QED BY <2>1 DEF Carried
  <1> QED BY <1>1, Invariance, PTL

-----------------------------------------------------------------------------
(* The transitions implement Installation.                                 *)

\* What Installation does not see.
Invisible == /\ record'.root = record.root /\ record'.model = record.model
             /\ Torn' <=> Torn
             /\ At("work")' <=> At("work")

LEMMA StillTorn ==
    ASSUME DOMAIN ops' = DOMAIN ops,
           \A i \in DOMAIN ops : Same(ops'[i], ops[i])
    PROVE  Torn' <=> Torn
  BY DEF Torn, Same

\* The turn of a transition ends: its operation may be marked as finished.
LEMMA EndingIsInvisible ==
    ASSUME IInv,
           \/ ObserversLinger \/ CloseFails \/ ApplyWorkspaceFails
           \/ QuiesceFails \/ AdmissionRefused \/ ReleaseWorkspaceRefused
           \/ EndWorkspace \/ SwitchRefused \/ SwitchCancelled
           \/ LiveEffectFails \/ EndSwitch \/ PostSwitchFails
           \/ DropTurn /\ ~At("work")
    PROVE  Invisible
  <1>1. record \in RecordType /\ ops \in Seq(Operation)
    BY DEF IInv, TypeOK, RecordType
  <1>2. record'.root = record.root /\ record'.model = record.model
    BY <1>1
      DEF RecordType, EndTurn, Interrupt, Settled, Held, ObserversLinger, CloseFails,
          ApplyWorkspaceFails, QuiesceFails, AdmissionRefused, ReleaseWorkspaceRefused,
          EndWorkspace, SwitchRefused, SwitchCancelled, LiveEffectFails, EndSwitch,
          PostSwitchFails, DropTurn
  <1>3. doing' = Idle /\ ~At("work")
    BY DEF EndTurn, Interrupt, At, ObserversLinger, CloseFails,
          ApplyWorkspaceFails, QuiesceFails, AdmissionRefused, ReleaseWorkspaceRefused,
          EndWorkspace, SwitchRefused, SwitchCancelled, LiveEffectFails, EndSwitch,
          PostSwitchFails, DropTurn
  <1>4. \/ ops' = ops
        \/ /\ doing.at \in Acting
           /\ \/ \E h \in BOOLEAN : ops' = Finished(ops, doing.op, h)
              \/ ops' = [ops EXCEPT ![doing.op].complete = TRUE]
    BY <1>3
      DEF IInv, TypeOK, OpsShaped, EndTurn, Interrupt, Interrupted, Finished,
          ObserversLinger, CloseFails,
          ApplyWorkspaceFails, QuiesceFails, AdmissionRefused, ReleaseWorkspaceRefused,
          EndWorkspace, SwitchRefused, SwitchCancelled, LiveEffectFails, EndSwitch,
          PostSwitchFails, DropTurn, At, Acting, Places
  <1>5. doing.at \in Acting => doing.op \in DOMAIN ops
    BY DEF IInv, Owning
  <1>6. /\ DOMAIN ops' = DOMAIN ops
        /\ \A i \in DOMAIN ops : Same(ops'[i], ops[i])
    <2>1. CASE ops' = ops
      BY <2>1 DEF Same
    <2>2. ASSUME doing.op \in DOMAIN ops, NEW h \in BOOLEAN,
                 ops' = Finished(ops, doing.op, h)
          PROVE  /\ DOMAIN ops' = DOMAIN ops
                 /\ \A i \in DOMAIN ops : Same(ops'[i], ops[i])
      BY <1>1, <2>2, FinishedOps
    <2>3. CASE doing.op \in DOMAIN ops /\ ops' = [ops EXCEPT ![doing.op].complete = TRUE]
      BY <1>1, <2>3 DEF Same, Operation
    <2> QED BY <1>4, <1>5, <2>1, <2>2, <2>3
  <1>7. Torn' <=> Torn
    BY <1>6, StillTorn
  <1>8. ~At("work")'
    BY <1>3 DEF At, Idle
  <1> QED BY <1>2, <1>3, <1>7, <1>8 DEF Invisible

\* Nothing is torn down or installed by the other steps inside a transition or a
\* turn.
LEMMA ContinuingIsInvisible ==
    ASSUME IInv,
           \/ ObserversStopped \/ CancelClose \/ BeginWorkspace \/ LiveEffect
           \/ FirstDispatch \/ ObserverStarts \/ ObserverEnds \/ BindProvider
    PROVE  Invisible
  <1>1. record \in RecordType /\ ops \in Seq(Operation) /\ doing.at \in Places
    BY DEF IInv, TypeOK, RecordType
  <1>2. record'.root = record.root /\ record'.model = record.model
    BY <1>1
      DEF RecordType, Settled, Held, ObserversStopped, CancelClose, BeginWorkspace,
          LiveEffect, FirstDispatch, ObserverStarts, ObserverEnds, BindProvider
  <1>3. At("work")' <=> At("work")
    BY <1>1
      DEF IInv, TypeOK, Idle, At, Reach, ParentFree, ObserversStopped, CancelClose,
          BeginWorkspace, LiveEffect, FirstDispatch, ObserverStarts, ObserverEnds,
          BindProvider
  <1>4. /\ DOMAIN ops' = DOMAIN ops
        /\ \A i \in DOMAIN ops : Same(ops'[i], ops[i])
    <2>1. CASE BindProvider
      <3>1. PICK k \in Unbound :
              ops' = [ops EXCEPT ![k].bound = TRUE,
                                 ![k].reads = IF k = doing.op THEN @ + 1 ELSE @]
        BY <2>1 DEF BindProvider
      <3>2. \A i \in DOMAIN ops : ops[i] \in Operation
        BY <1>1
      <3> QED BY <1>1, <3>1, <3>2 DEF Same, Operation, Unbound
    <2>2. CASE ops' = ops
      BY <2>2 DEF Same
    <2> QED BY <2>1, <2>2
          DEF ObserversStopped, CancelClose, BeginWorkspace, LiveEffect, FirstDispatch,
              ObserverStarts, ObserverEnds
  <1> QED BY <1>2, <1>3, <1>4, StillTorn DEF Invisible

\* A transition begins as prepared.
LEMMA AdmittingIsInvisible ==
    ASSUME IInv, AdmitWorkspace \/ \E m \in Models : BeginSwitch(m)
    PROVE  Invisible
  <1>1. PICK o \in Operation : /\ ops' = Append(ops, o) /\ o.stage = "prepared"
                               /\ UNCHANGED record
    <2>1. record.root \in Roots /\ record.model \in Models
      BY DEF IInv, TypeOK
    <2>2. CASE AdmitWorkspace
      <3> DEFINE d == IF provider.model \in Native THEN "none" ELSE "pending"
                 o == NewOperation("workspace", record.root, Len(ops) + 1, d)
      <3>1. Len(ops) + 1 \in Roots
        BY <2>2, TransitionsAssumption
          DEF AdmitWorkspace, IInv, TypeOK, OpsShaped, At, Roots
      <3>2. o \in Operation /\ o.stage = "prepared"
        BY <2>1, <3>1, NewOperationShape DEF IInv, Kinds
      <3>3. ops' = Append(ops, o) /\ UNCHANGED record
        BY <2>2 DEF AdmitWorkspace
      <3> QED BY <3>2, <3>3
    <2>3. ASSUME NEW m \in Models, NEW kind \in {"host", "live"}
          PROVE  LET o == NewOperation(kind, record.model, m, "none")
                 IN  o \in Operation /\ o.stage = "prepared"
      BY <2>1, NewOperationShape DEF IInv, Kinds
    <2> QED BY <2>2, <2>3 DEF BeginSwitch
  <1>2. ~At("work")' /\ ~At("work")
    BY DEF IInv, TypeOK, AdmitWorkspace, BeginSwitch, At, Idle, ParentFree
  <1>3. ops \in Seq(Operation)
    BY DEF IInv, TypeOK
  <1>4. /\ \A i \in DOMAIN ops : i \in DOMAIN ops' /\ ops'[i] = ops[i]
        /\ \A i \in DOMAIN ops' : i \in DOMAIN ops \/ ops'[i] = o
    BY <1>1, <1>3
  <1>5. Torn' <=> Torn
    BY <1>1, <1>4 DEF Torn
  <1> QED BY <1>1, <1>2, <1>5 DEF Invisible

\* The steps Installation sees, on the state it sees.
LEMMA SeenAreTruths ==
    /\ Torn \in BOOLEAN /\ Torn' \in BOOLEAN
    /\ At("work") \in BOOLEAN /\ At("work")' \in BOOLEAN
  BY DEF Torn, At

LEMMA InvisibleStutters ==
    ASSUME Invisible
    PROVE  UNCHANGED Promise!vars
  <1>1. (Torn' = Torn) /\ (At("work")' = At("work"))
    BY SeenAreTruths DEF Invisible
  <1> QED BY <1>1 DEF Invisible, Promise!vars

LEMMA StartingWorks ==
    ASSUME IInv, StartWork
    PROVE  Promise!Work
  <1>1. ~Torn /\ ~At("work")
    BY DEF StartWork, ParentFree, At, IInv, Remembered, TornAt, Torn
  <1>2. record'.root = record.root /\ record'.model = record.model
    BY DEF StartWork, IInv, TypeOK
  <1>3. At("work")'
    BY DEF StartWork, At, Idle
  <1>4. /\ DOMAIN ops' = DOMAIN ops
        /\ \A i \in DOMAIN ops : Same(ops'[i], ops[i])
    <2>1. ops' = ops \/ \E k : ops' = [ops EXCEPT ![k].delivery = "sent"]
      BY DEF StartWork
    <2>2. ops \in Seq(Operation) /\ \A i \in DOMAIN ops : ops[i] \in Operation
      BY DEF IInv, TypeOK
    <2>3. ASSUME NEW k, ops' = [ops EXCEPT ![k].delivery = "sent"]
          PROVE  /\ DOMAIN ops' = DOMAIN ops
                 /\ \A i \in DOMAIN ops : Same(ops'[i], ops[i])
      BY <2>2, <2>3 DEF Same, Operation
    <2>4. CASE ops' = ops
      BY <2>4 DEF Same
    <2> QED BY <2>1, <2>3, <2>4
  <1>5. ~Torn'
    BY <1>1, <1>4, StillTorn
  <1>6. (Torn' = Torn) /\ (At("work")' = TRUE)
    BY SeenAreTruths, <1>1, <1>3, <1>5
  <1> QED BY <1>1, <1>2, <1>6 DEF Promise!Work

LEMMA FinishingRests ==
    ASSUME IInv, At("work"), FinishWork \/ DropTurn
    PROVE  Promise!Rest
  <1>1. At("work") /\ doing' = Idle
    BY DEF FinishWork, DropTurn, EndTurn
  <1>2. record'.root = record.root /\ record'.model = record.model
    <2>1. record \in RecordType
      BY DEF IInv, TypeOK, RecordType
    <2> QED BY <2>1 DEF FinishWork, DropTurn, EndTurn, Settled, RecordType
  <1>3. /\ DOMAIN ops' = DOMAIN ops
        /\ \A i \in DOMAIN ops : Same(ops'[i], ops[i])
    <2>1. \/ ops' = ops
          \/ \E d, h : ops' = [ops EXCEPT ![doing.op].delivery = d, ![doing.op].hold = h]
      BY <1>1 DEF FinishWork, DropTurn, EndTurn
    <2>2. ops \in Seq(Operation) /\ \A i \in DOMAIN ops : ops[i] \in Operation
      BY DEF IInv, TypeOK
    <2>3. ASSUME NEW d, NEW h,
                 ops' = [ops EXCEPT ![doing.op].delivery = d, ![doing.op].hold = h]
          PROVE  /\ DOMAIN ops' = DOMAIN ops
                 /\ \A i \in DOMAIN ops : Same(ops'[i], ops[i])
      BY <2>2, <2>3 DEF Same, Operation
    <2>4. CASE ops' = ops
      BY <2>4 DEF Same
    <2> QED BY <2>1, <2>3, <2>4
  <1>4. ~At("work")'
    BY <1>1 DEF At, Idle
  <1>5. (Torn' = Torn) /\ (At("work")' = FALSE)
    BY SeenAreTruths, <1>3, <1>4, StillTorn
  <1> QED BY <1>1, <1>2, <1>5 DEF Promise!Rest

LEMMA RestartRests ==
    ASSUME IInv, Restart
    PROVE  Promise!Rest \/ UNCHANGED Promise!vars
  <1>1. record'.root = record.root /\ record'.model = record.model
    BY DEF Restart, IInv, TypeOK
  <1>2. ~At("work")'
    BY DEF Restart, At, Idle
  <1>3. /\ DOMAIN ops' = DOMAIN ops
        /\ \A i \in DOMAIN ops : Same(ops'[i], ops[i])
    <2>1. ops \in Seq(Operation) /\ \A i \in DOMAIN ops : ops[i] \in Operation
      BY DEF IInv, TypeOK
    <2> DEFINE new(i) == IF ops[i].delivery = "sent"
                         THEN [ops[i] EXCEPT !.delivery = "uncertain", !.hold = TRUE]
                         ELSE ops[i]
    <2>2. \A i \in DOMAIN ops : Same(new(i), ops[i])
      BY <2>1 DEF Same, Operation
    <2>3. ops' = [i \in DOMAIN ops |-> new(i)]
      BY DEF Restart
    <2> HIDE DEF new
    <2> QED BY <2>2, <2>3
  <1>4. (Torn' = Torn) /\ (At("work")' = FALSE)
    BY SeenAreTruths, <1>2, <1>3, StillTorn
  <1>5. CASE At("work")
    BY <1>1, <1>4, <1>5 DEF Promise!Rest
  <1>6. CASE ~At("work")
    <2>1. Invisible
      BY <1>1, <1>2, <1>3, <1>6, StillTorn DEF Invisible
    <2> QED BY <2>1, InvisibleStutters
  <1> QED BY <1>5, <1>6

LEMMA ReleasingTearsDown ==
    ASSUME IInv, ReleaseWorkspace \/ ReleaseSwitch
    PROVE  Promise!TearDown
  <1>1. /\ doing.at \in {"release", "pre"} /\ UNCHANGED record
        /\ ops' = [ops EXCEPT ![doing.op].stage = "teardown"]
        /\ doing'.at \in {"observers", "effect"}
    BY DEF ReleaseWorkspace, ReleaseSwitch, TearDown, Reach, At, IInv, TypeOK
  <1>2. doing.op \in DOMAIN ops /\ ops \in Seq(Operation) /\ ~ops[doing.op].inspected
    BY <1>1 DEF IInv, TypeOK, Owning, Acting, Current
  <1>3. ~Torn
    BY <1>1, TornIsOwned DEF Torn, TornAt
  <1>4. OnlyStage(ops'[doing.op], ops[doing.op], "teardown") /\ DOMAIN ops' = DOMAIN ops
    BY <1>1, <1>2, CurrentAdvanced
  <1>5. Torn'
    BY <1>2, <1>4 DEF Torn, OnlyStage
  <1>6. ~At("work") /\ ~At("work")'
    BY <1>1 DEF At
  <1>7. (Torn' = TRUE) /\ (At("work")' = At("work"))
    BY SeenAreTruths, <1>5, <1>6
  <1> QED BY <1>1, <1>3, <1>6, <1>7 DEF Promise!TearDown

\* The root or the model is installed by the one operation that is torn.
LEMMA ApplyingInstalls ==
    ASSUME IInv, ApplyWorkspace \/ ApplySwitch \/ RecordLiveSwitch
    PROVE  Promise!Install
  <1> DEFINE k == doing.op
  <1>1. /\ doing.at \in {"closing", "observers"} /\ Current.stage = "teardown"
        /\ doing' = [doing EXCEPT !.at = "post"]
    BY
      DEF ApplyWorkspace, ApplySwitch, RecordLiveSwitch, Switched,
          MayApplyWorkspace,
           At, Reach
  <1>2. /\ k \in DOMAIN ops /\ ops \in Seq(Operation) /\ ops[k] \in Operation
        /\ ~ops[k].inspected /\ ops[k].kind = doing.kind /\ record \in RecordType
        /\ Shaped(ops[k], k)
    BY <1>1 DEF IInv, TypeOK, Owning, OpsShaped, Acting, Current, RecordType
  <1>3. \A i \in DOMAIN ops : TornAt(i) => i = k
    BY <1>1, TornIsOwned
  <1>4. Torn
    BY <1>1, <1>2 DEF Torn, Current
  <1>5. ~At("work") /\ ~At("work")'
    BY <1>1 DEF At, IInv, TypeOK
  <1>6. ~Torn'
    <2>1. CASE ApplyWorkspace
      <3>1. DOMAIN ops' = DOMAIN ops /\ ops'[k].stage = "applied"
        BY <1>2, <2>1 DEF ApplyWorkspace, Operation
      <3>2. ASSUME NEW i \in DOMAIN ops, i # k
            PROVE  /\ ops'[i].stage = ops[i].stage
                   /\ ops'[i].inspected = ops[i].inspected
        <4>1. ops[i] \in Operation
          BY <1>2
        <4> QED BY <2>1, <3>2, <4>1 DEF ApplyWorkspace, Operation
      <3> QED BY <1>3, <3>1, <3>2 DEF Torn, TornAt
    <2>2. CASE Switched
      <3>1. /\ DOMAIN ops' = DOMAIN ops
            /\ OnlyStage(ops'[k], ops[k], "applied")
            /\ \A i \in DOMAIN ops : i # k => ops'[i] = ops[i]
        BY <1>2, <2>2, CurrentAdvanced DEF Switched
      <3> QED BY <1>3, <3>1 DEF Torn, TornAt, OnlyStage
    <2> QED BY <2>1, <2>2 DEF ApplySwitch, RecordLiveSwitch
  <1>7. \/ record'.root \in Roots \ {record.root} /\ record'.model = record.model
        \/ record'.model \in Models \ {record.model} /\ record'.root = record.root
    <2>1. CASE ApplyWorkspace
      <3>1. /\ record' = [record EXCEPT !.root = ops[k].to]
            /\ ops[k].kind = "workspace" /\ ops[k].from = record.root
        BY <1>2, <2>1 DEF ApplyWorkspace, MayApplyWorkspace, Current
      <3>2. ops[k].to \in Roots /\ ops[k].to # record.root
        BY <1>2, <3>1 DEF Shaped, IInv, TypeOK, Roots
      <3> QED BY <1>2, <3>1, <3>2 DEF RecordType
    <2>2. CASE Switched /\ doing.kind # "workspace"
      <3>1. /\ record' = [record EXCEPT !.model = ops[k].to]
            /\ ops[k].kind # "workspace" /\ ops[k].from = record.model
        BY <1>2, <2>2 DEF Switched, Current
      <3> QED BY <1>2, <3>1 DEF RecordType, Shaped
    <2> QED BY <2>1, <2>2 DEF ApplySwitch, RecordLiveSwitch
  <1>8. (Torn' = FALSE) /\ (At("work")' = At("work"))
    BY SeenAreTruths, <1>5, <1>6
  <1> QED BY <1>4, <1>5, <1>7, <1>8 DEF Promise!Install

LEMMA ReconcilingInspects ==
    ASSUME IInv, Reconcile
    PROVE  Promise!Inspect \/ UNCHANGED Promise!vars
  <1>1. record'.root = record.root /\ record'.model = record.model
    BY DEF Reconcile, IInv, TypeOK
  <1>2. ~At("work")' /\ ~At("work")
    BY DEF Reconcile, ParentFree, At
  <1>3. ~Torn'
    <2>1. \A i \in DOMAIN ops : ops[i] \in Operation
      BY DEF IInv, TypeOK
    <2>2. DOMAIN ops' = DOMAIN ops /\ \A i \in DOMAIN ops : ops'[i].inspected
      BY <2>1 DEF Reconcile, Operation
    <2> QED BY <2>2 DEF Torn
  <1>4. (Torn' = FALSE) /\ (At("work")' = At("work"))
    BY SeenAreTruths, <1>2, <1>3
  <1>5. CASE Torn
    BY <1>1, <1>2, <1>4, <1>5 DEF Promise!Inspect
  <1>6. CASE ~Torn
    <2>1. Invisible
      BY <1>1, <1>2, <1>3, <1>6 DEF Invisible
    <2> QED BY <2>1, InvisibleStutters
  <1> QED BY <1>5, <1>6

LEMMA EveryStepIsPromised == IInv /\ [Next]_vars => [Promise!Next]_(Promise!vars)
  <1> SUFFICES ASSUME IInv, [Next]_vars PROVE Promise!Next \/ UNCHANGED Promise!vars
    OBVIOUS
  <1>1. CASE UNCHANGED vars
    <2>1. Invisible
      BY <1>1 DEF vars, Invisible, Torn, At
    <2> QED BY <2>1, InvisibleStutters
  <1>2. CASE ReleaseWorkspace \/ ReleaseSwitch
    BY <1>2, ReleasingTearsDown DEF Promise!Next
  <1>3. CASE ApplyWorkspace \/ ApplySwitch \/ RecordLiveSwitch
    BY <1>3, ApplyingInstalls DEF Promise!Next
  <1>4. CASE ObserversStopped \/ CancelClose \/ BeginWorkspace \/ LiveEffect
             \/ FirstDispatch \/ ObserverStarts \/ ObserverEnds \/ BindProvider
    BY <1>4, ContinuingIsInvisible, InvisibleStutters
  <1>5. CASE ObserversLinger \/ CloseFails \/ ApplyWorkspaceFails
             \/ QuiesceFails \/ AdmissionRefused \/ ReleaseWorkspaceRefused
             \/ EndWorkspace \/ SwitchRefused \/ SwitchCancelled
             \/ LiveEffectFails \/ EndSwitch \/ PostSwitchFails
    BY <1>5, EndingIsInvisible, InvisibleStutters
  <1>6. CASE AdmitWorkspace \/ \E m \in Models : BeginSwitch(m)
    BY <1>6, AdmittingIsInvisible, InvisibleStutters
  <1>7. CASE StartWork
    BY <1>7, StartingWorks DEF Promise!Next
  <1>8. CASE FinishWork
    <2>1. At("work")
      BY <1>8 DEF FinishWork
    <2> QED BY <1>8, <2>1, FinishingRests DEF Promise!Next
  <1>10. CASE DropTurn
    <2>1. CASE At("work")
      BY <1>10, <2>1, FinishingRests DEF Promise!Next
    <2>2. CASE ~At("work")
      BY <1>10, <2>2, EndingIsInvisible, InvisibleStutters
    <2> QED BY <2>1, <2>2
  <1>9. CASE Restart \/ Reconcile
    BY <1>9, RestartRests, ReconcilingInspects DEF Promise!Next
  <1> QED BY <1>1, <1>2, <1>3, <1>4, <1>5, <1>6, <1>7, <1>8, <1>9, <1>10
        DEF Next, Bounded

\* The session installs as Installation promises: its root and model change only
\* between worker turns, one of them at a time and once for each teardown; and after
\* a teardown that was interrupted, dropped, failed or died with the process, no
\* worker turn starts before the developer has reconciled it.
THEOREM InstallsAsPromisedHolds == Spec => InstallsAsPromised
  <1>1. Init => Promise!Init
    <2> SUFFICES ASSUME Init PROVE Promise!Init
      OBVIOUS
    <2>1. record.root \in Roots /\ record.model \in Models
      <3>1. 0 \in Roots
        BY TransitionsAssumption DEF Roots
      <3> QED BY <3>1 DEF Init
    <2>2. ~Torn /\ ~At("work")
      BY DEF Init, Torn, At, Idle
    <2>3. (Torn = FALSE) /\ (At("work") = FALSE)
      BY SeenAreTruths, <2>2
    <2> QED BY <2>1, <2>3 DEF Promise!Init
  <1> QED BY <1>1, EveryStepIsPromised, Invariance, PTL
        DEF Spec, InstallsAsPromised, Promise!Spec


-----------------------------------------------------------------------------
(* Deliveries.                                                             *)

\* Deliveries that let a result out, to the conversation or into a frame.
Sent == {"Local", "Reserved", "Acknowledged",
         "CorrectionReserved", "CorrectionAcknowledged"}

\* What the receipt of a call says about who has seen its result.
Accounted(c) ==
    LET p == posts[c]
    IN  /\ p.step \in {"none", "tool"} => p.delivery = "none"
        /\ p.step = "hooks" => p.delivery \in {"LocalPending", "Staged"}
        /\ p.step # "settled" => ~p.required
        /\ p.delivery \in Sent => /\ p.step = "settled" /\ p.continuation # "Held"
                                  /\ p.required => p.admitted
        /\ p.admitted => p.required /\ p.delivery \in Sent
        /\ seen.shown[c] # 0 => seen.shown[c] = 1 /\ p.delivery \in Sent
        /\ p.delivery \in {"Acknowledged", "CorrectionAcknowledged"} => seen.shown[c] = 1
        /\ p.delivery = "Local" => IsNative
        /\ c \in talk => p.step = "settled"
        /\ c \in checks => p.step = "settled" /\ p.delivery \notin Sent

\* What the turn may rely on at the place it has reached.
Placed ==
    /\ turn.at \in {"executing", "answered", "validating", "releasing", "presenting",
                   "presented"} => turn.call \in Calls
    /\ turn.at \in {"sending", "waiting", "presenting", "presented"} => ~IsNative
    /\ IsNative => \A c \in turn.pending : posts[c].step = "none"
    /\ turn.at \in {"validating", "releasing"} =>
         turn.call \notin checks /\ posts[turn.call].delivery \notin Sent
    /\ turn.at \in {"presenting", "presented"} =>
         /\ posts[turn.call].delivery = "Reserved"
         /\ seen.shown[turn.call] = IF Is("presenting") THEN 0 ELSE 1
    /\ Is("sending") => ContinuationOpen(turn.handoff)
    /\ turn.handoff # NoCall =>
         /\ turn.at \in {"sending", "waiting"}
         /\ Is("waiting") => ~turn.over
         /\ posts[turn.handoff].delivery = "CorrectionReserved"
         /\ seen.shown[turn.handoff] = IF Is("sending") THEN 0 ELSE 1

Paid == {c \in Calls : posts[c].admitted}
Kept == ~seen.blind /\ ~seen.rushed /\ authority.corrections = Cardinality(Paid)

DeliveryIInv == DeliveryTypeOK /\ (\A c \in Calls : Accounted(c)) /\ Placed /\ Kept

-----------------------------------------------------------------------------
(* The turn's places.                                                      *)

Moments == {"idle", "ready", "sending", "waiting", "model", "calls", "executing",
           "answered", "validating", "releasing", "presenting", "presented"}

\* What a turn keeps from one place to the next.
SameButPlace(t, u) ==
    /\ t.adapter = u.adapter /\ t.pending = u.pending /\ t.correction = u.correction
    /\ t.handoff = u.handoff /\ t.steered = u.steered /\ t.interrupt = u.interrupt
    /\ t.over = u.over

LEMMA AwaitsFacts ==
    ASSUME turn \in Turn, NEW at \in Moments, NEW call \in Calls \union {NoCall}
    PROVE  /\ Awaits(at, call) \in Turn
           /\ Awaits(at, call).at = at /\ Awaits(at, call).call = call
           /\ SameButPlace(Awaits(at, call), turn)
  BY DEF Awaits, Turn, Moments, SameButPlace

LEMMA StillFacts ==
    ASSUME turn \in Turn
    PROVE  /\ Still(turn.adapter) \in Turn
           /\ Still(turn.adapter).adapter = turn.adapter
           /\ Still(turn.adapter).at = "idle" /\ Still(turn.adapter).pending = {}
           /\ Still(turn.adapter).handoff = NoCall
  BY DEF Still, Turn

\* A turn that has ended relies on nothing.
LEMMA EndedTurn ==
    ASSUME turn \in Turn, turn' = Still(turn.adapter)
    PROVE  turn' \in Turn /\ turn'.adapter = turn.adapter /\ Placed'
  BY StillFacts DEF Placed, Is, IsNative
-----------------------------------------------------------------------------
(* The receipts.                                                           *)

LEMMA ReceiptsKept ==
    ASSUME \A c \in Calls : Accounted(c), Kept,
           UNCHANGED <<posts, talk, seen>>, checks' \subseteq checks,
           turn'.adapter = turn.adapter, authority'.corrections = authority.corrections
    PROVE  (\A c \in Calls : Accounted(c)') /\ Kept'
  BY DEF Accounted, Kept, Paid, IsNative

\* One receipt is written.
LEMMA OtherReceipts ==
    ASSUME posts \in [Calls -> Post], \A c \in Calls : Accounted(c),
           NEW c \in Calls, NEW p \in Post, posts' = [posts EXCEPT ![c] = p],
           talk' \subseteq talk \union {c}, checks' \subseteq checks \union {c},
           seen'.shown = seen.shown, turn'.adapter = turn.adapter
    PROVE  /\ posts' \in [Calls -> Post] /\ posts'[c] = p
           /\ \A d \in Calls \ {c} : posts'[d] = posts[d] /\ Accounted(d)'
  BY DEF Accounted, IsNative
-----------------------------------------------------------------------------
(* Steps that leave the receipts, and what was shown, as they are.         *)

LEMMA TurnEndsKeeps ==
    ASSUME DeliveryIInv, TurnCompletes \/ Fails \/ CancelTurn \/ Die
    PROVE  DeliveryIInv'
  <1> USE DEF DeliveryIInv
  <1>1. PICK recovering \in BOOLEAN, stopped \in BOOLEAN : Ends(recovering, stopped)
    <2>1. CASE TurnCompletes
      BY <2>1 DEF TurnCompletes, DeliveryTypeOK, Unfinished
    <2>2. CASE Fails
      BY <2>2 DEF Fails, DeliveryTypeOK, Unsettled
    <2>3. CASE CancelTurn
      BY <2>3 DEF CancelTurn, DeliveryTypeOK, Unsettled
    <2>4. CASE Die
      BY <2>4 DEF Die, DeliveryTypeOK, Unsettled
    <2> QED BY <2>1, <2>2, <2>3, <2>4
  <1>2. turn' \in Turn /\ turn'.adapter = turn.adapter /\ Placed'
    BY <1>1, EndedTurn DEF Ends, DeliveryTypeOK
  <1>3. /\ authority' \in [recovering : BOOLEAN, stopped : BOOLEAN, corrections : Nat]
        /\ authority'.corrections = authority.corrections
    BY <1>1 DEF Ends, DeliveryTypeOK
  <1>4. /\ UNCHANGED <<posts, talk, seen>> /\ checks' \subseteq checks
        /\ stale' \subseteq stale
    BY DEF TurnCompletes, Fails, CancelTurn, Die
  <1>5. /\ invocation' \in {"none", "open", "complete", "quarantined"}
        /\ bounds' \in [submissions : Nat, steers : Nat, deaths : Nat]
    <2>1. bounds \in [submissions : Nat, steers : Nat, deaths : Nat]
      BY DEF DeliveryTypeOK
    <2>2. bounds' \in [submissions : Nat, steers : Nat, deaths : Nat]
      <3>1. CASE bounds' = bounds
        BY <2>1, <3>1
      <3>2. CASE Die
        BY <2>1, <3>2 DEF Die
      <3> QED BY <3>1, <3>2 DEF TurnCompletes, Fails, CancelTurn
    <2> QED BY <2>2 DEF TurnCompletes, Fails, CancelTurn, Die, DeliveryTypeOK
  <1>6. DeliveryTypeOK'
    BY <1>1, <1>2, <1>3, <1>4, <1>5 DEF DeliveryTypeOK, Ends
  <1> QED BY <1>2, <1>3, <1>4, <1>6, ReceiptsKept

LEMMA BesideTheTurn ==
    ASSUME DeliveryIInv,
           Cancel \/ OwnerStops \/ OtherEffectsLost
             \/ \E c \in Calls : InspectedFileChanges(c)
    PROVE  DeliveryIInv'
  <1> USE DEF DeliveryIInv
  <1>1. UNCHANGED <<posts, talk, turn, seen, checks, invocation, bounds>>
    BY DEF Cancel, OwnerStops, OtherEffectsLost, InspectedFileChanges
  <1>2. /\ authority' \in [recovering : BOOLEAN, stopped : BOOLEAN, corrections : Nat]
        /\ authority'.corrections = authority.corrections
    BY
      DEF Cancel, OwnerStops, OtherEffectsLost, InspectedFileChanges,
          DeliveryTypeOK
  <1>3. stale' \subseteq Calls /\ queued' \in BOOLEAN
    BY
      DEF Cancel, OwnerStops, OtherEffectsLost, InspectedFileChanges,
          DeliveryTypeOK
  <1>4. DeliveryTypeOK'
    BY <1>1, <1>2, <1>3 DEF DeliveryTypeOK
  <1>5. Placed'
    BY <1>1
      DEF Placed, Is, IsNative, ContinuationOpen, Continues, HasLifecycle,
          Released
  <1> QED BY <1>1, <1>2, <1>4, <1>5, ReceiptsKept

LEMMA TurnMoves ==
    ASSUME DeliveryIInv,
           \/ Submit \/ BeginBackend \/ ResultsComplete \/ ValidatePostRelease
           \/ Validated \/ Steer \/ InterruptTurn \/ InterruptAcknowledged
           \/ InterruptedTurnEnds \/ Resubmit
           \/ \E c \in Calls : PostCallback(c)
           \/ \E calls \in SUBSET Calls : ModelAnswers(calls)
    PROVE  DeliveryIInv'
  <1> USE PostDeliveryAssumption DEF DeliveryIInv
  <1>a. turn \in Turn
    BY DEF DeliveryTypeOK
  <1>b. UNCHANGED <<posts, talk, seen, stale, queued>> /\ checks' \subseteq checks
    BY
      DEF Submit, BeginBackend, ResultsComplete, ValidatePostRelease,
          Validated, Steer,
           InterruptTurn, InterruptAcknowledged, InterruptedTurnEnds, Resubmit,
           PostCallback, ModelAnswers
  <1>c. /\ authority' \in [recovering : BOOLEAN, stopped : BOOLEAN, corrections : Nat]
        /\ authority'.corrections = authority.corrections
        /\ invocation' \in {"none", "open", "complete", "quarantined"}
        /\ bounds' \in [submissions : Nat, steers : Nat, deaths : Nat]
    <2>1. /\ authority \in [recovering : BOOLEAN, stopped : BOOLEAN, corrections : Nat]
          /\ invocation \in {"none", "open", "complete", "quarantined"}
          /\ bounds \in [submissions : Nat, steers : Nat, deaths : Nat]
      BY DEF DeliveryTypeOK
    <2>2. CASE Submit
      <3>1. /\ authority' = [authority EXCEPT !.stopped = FALSE]
            /\ bounds' = [bounds EXCEPT !.submissions = @ - 1] /\ bounds.submissions > 0
            /\ invocation' = invocation
        BY <2>2 DEF Submit
      <3>2. bounds' \in [submissions : Nat, steers : Nat, deaths : Nat]
        BY <2>1, <3>1
      <3> QED BY <2>1, <3>1, <3>2
    <2>3. CASE Steer
      BY <2>1, <2>3 DEF Steer
    <2>4. CASE UNCHANGED <<authority, bounds>>
      BY <2>1, <2>4
        DEF BeginBackend, ResultsComplete, ValidatePostRelease, Validated,
           InterruptTurn, InterruptAcknowledged, InterruptedTurnEnds, Resubmit,
           PostCallback, ModelAnswers, Submit, Steer
    <2> QED BY <2>2, <2>3, <2>4
              DEF BeginBackend, ResultsComplete, ValidatePostRelease,
           Validated, InterruptTurn, InterruptAcknowledged, InterruptedTurnEnds, Resubmit,
           PostCallback, ModelAnswers

  <1>1. ASSUME Submit
        PROVE  turn' \in Turn /\ turn'.adapter = turn.adapter /\ Placed'
    <2>1. turn' = Awaits("ready", NoCall)
      BY <1>1 DEF Submit
    <2>2. NoCall \in Calls \union {NoCall}
      BY <1>a DEF Turn
    <2>3. /\ turn' \in Turn /\ turn'.at = "ready" /\ turn'.call = NoCall
          /\ SameButPlace(turn', turn)
      BY <1>a, <2>1, <2>2, AwaitsFacts DEF Moments
    <2> QED
      <3>1. Placed'
        BY <1>1, <1>b, <2>3 DEF Submit, Placed, Is, IsNative, SameButPlace
      <3> QED BY <2>3, <3>1 DEF SameButPlace
  <1>2. ASSUME BeginBackend
        PROVE  turn' \in Turn /\ turn'.adapter = turn.adapter /\ Placed'
    <2>1. turn' = Awaits("sending", NoCall)
      BY <1>2 DEF BeginBackend
    <2>2. NoCall \in Calls \union {NoCall}
      BY <1>a DEF Turn
    <2>3. /\ turn' \in Turn /\ turn'.at = "sending" /\ turn'.call = NoCall
          /\ SameButPlace(turn', turn)
      BY <1>a, <2>1, <2>2, AwaitsFacts DEF Moments
    <2> QED
      <3>1. turn.handoff = NoCall
        BY <1>2 DEF BeginBackend, Placed, Is
      <3>2. Placed'
        BY <1>2, <1>b, <2>3, <3>1
          DEF BeginBackend, Placed, Is, IsNative, SameButPlace,
           ContinuationOpen, Continues, HasLifecycle, Released
      <3> QED BY <2>3, <3>2 DEF SameButPlace
  <1>3. ASSUME ResultsComplete
        PROVE  turn' \in Turn /\ turn'.adapter = turn.adapter /\ Placed'
    <2>1. turn' = Awaits("ready", NoCall)
      BY <1>3 DEF ResultsComplete
    <2>2. NoCall \in Calls \union {NoCall}
      BY <1>a DEF Turn
    <2>3. /\ turn' \in Turn /\ turn'.at = "ready" /\ turn'.call = NoCall
          /\ SameButPlace(turn', turn)
      BY <1>a, <2>1, <2>2, AwaitsFacts DEF Moments
    <2> QED
      <3>1. Placed'
        BY <1>3, <1>b, <2>3
          DEF ResultsComplete, Placed, Is, IsNative, SameButPlace
      <3> QED BY <2>3, <3>1 DEF SameButPlace
  <1>4. ASSUME ValidatePostRelease
        PROVE  turn' \in Turn /\ turn'.adapter = turn.adapter /\ Placed'
    <2>1. turn' = Awaits("validating", turn.call)
      BY <1>4 DEF ValidatePostRelease
    <2>2. turn.call \in Calls \union {NoCall}
      BY <1>a DEF Turn
    <2>3. /\ turn' \in Turn /\ turn'.at = "validating" /\ turn'.call = turn.call
          /\ SameButPlace(turn', turn)
      BY <1>a, <2>1, <2>2, AwaitsFacts DEF Moments
    <2> QED
      <3>1. Placed'
        BY <1>4, <1>b, <2>3
          DEF ValidatePostRelease, Placed, Is, IsNative, SameButPlace,
              Accounted
      <3> QED BY <2>3, <3>1 DEF SameButPlace
  <1>5. ASSUME Validated
        PROVE  turn' \in Turn /\ turn'.adapter = turn.adapter /\ Placed'
    <2>1. turn' = Awaits("releasing", turn.call)
      BY <1>5 DEF Validated
    <2>2. turn.call \in Calls \union {NoCall}
      BY <1>a DEF Turn
    <2>3. /\ turn' \in Turn /\ turn'.at = "releasing" /\ turn'.call = turn.call
          /\ SameButPlace(turn', turn)
      BY <1>a, <2>1, <2>2, AwaitsFacts DEF Moments
    <2> QED
      <3>1. Placed'
        BY <1>5, <1>b, <2>3
          DEF Validated, Placed, Is, IsNative, SameButPlace, Accounted
      <3> QED BY <2>3, <3>1 DEF SameButPlace
  <1>6. ASSUME Steer
        PROVE  turn' \in Turn /\ turn'.adapter = turn.adapter /\ Placed'
    <2>1. turn' \in Turn /\ turn'.adapter = turn.adapter
      BY <1>6, <1>a DEF Steer, Turn
    <2>2. /\ turn'.at = turn.at /\ turn'.call = turn.call /\ turn'.pending = turn.pending
          /\ turn'.handoff = turn.handoff
          /\ turn.handoff # NoCall => turn'.over = turn.over
          /\ Is("waiting")
      BY <1>6, <1>a DEF Steer, Turn, Is
    <2>3. Placed'
      BY <1>b, <2>1, <2>2 DEF Placed, Is, IsNative
    <2> QED BY <2>1, <2>3
  <1>7. ASSUME InterruptTurn
        PROVE  turn' \in Turn /\ turn'.adapter = turn.adapter /\ Placed'
    <2>1. turn' \in Turn /\ turn'.adapter = turn.adapter
      BY <1>7, <1>a DEF InterruptTurn, Turn
    <2>2. /\ turn'.at = turn.at /\ turn'.call = turn.call /\ turn'.pending = turn.pending
          /\ turn'.handoff = turn.handoff
          /\ turn.handoff # NoCall => turn'.over = turn.over
          /\ Is("waiting")
      BY <1>7, <1>a DEF InterruptTurn, Turn, Is
    <2>3. Placed'
      BY <1>b, <2>1, <2>2 DEF Placed, Is, IsNative
    <2> QED BY <2>1, <2>3
  <1>8. ASSUME InterruptAcknowledged
        PROVE  turn' \in Turn /\ turn'.adapter = turn.adapter /\ Placed'
    <2>1. turn' \in Turn /\ turn'.adapter = turn.adapter
      BY <1>8, <1>a DEF InterruptAcknowledged, Turn
    <2>2. /\ turn'.at = turn.at /\ turn'.call = turn.call /\ turn'.pending = turn.pending
          /\ turn'.handoff = turn.handoff
          /\ turn.handoff # NoCall => turn'.over = turn.over
          /\ Is("waiting")
      BY <1>8, <1>a DEF InterruptAcknowledged, Turn, Is
    <2>3. Placed'
      BY <1>b, <2>1, <2>2 DEF Placed, Is, IsNative
    <2> QED BY <2>1, <2>3
  <1>9. ASSUME InterruptedTurnEnds
        PROVE  turn' \in Turn /\ turn'.adapter = turn.adapter /\ Placed'
    <2>1. turn' \in Turn /\ turn'.adapter = turn.adapter
      BY <1>9, <1>a DEF InterruptedTurnEnds, Turn
    <2>2. /\ turn'.at = turn.at /\ turn'.call = turn.call /\ turn'.pending = turn.pending
          /\ turn'.handoff = turn.handoff
          /\ turn.handoff # NoCall => turn'.over = turn.over
          /\ Is("waiting")
      BY <1>9, <1>a DEF InterruptedTurnEnds, Turn, Is
    <2>3. Placed'
      BY <1>b, <2>1, <2>2 DEF Placed, Is, IsNative
    <2> QED BY <2>1, <2>3
  <1>10. ASSUME Resubmit
        PROVE  turn' \in Turn /\ turn'.adapter = turn.adapter /\ Placed'
    <2> DEFINE u == Awaits("ready", NoCall)
    <2>1. u \in Turn /\ u.at = "ready" /\ u.call = NoCall /\ SameButPlace(u, turn)
      BY <1>a, AwaitsFacts DEF Moments
    <2>2. turn' = [u EXCEPT !.steered = FALSE]
      BY <1>10 DEF Resubmit
    <2> HIDE DEF u
    <2>3. /\ turn' \in Turn /\ turn'.at = "ready" /\ turn'.adapter = turn.adapter
          /\ turn'.pending = turn.pending /\ turn'.handoff = turn.handoff
      BY <2>1, <2>2 DEF Turn, SameButPlace
    <2>4. turn.handoff = NoCall
      BY <1>10 DEF Resubmit, TakeOver, Placed, Is
    <2>5. Placed'
      BY <1>b, <2>3, <2>4 DEF Placed, Is, IsNative
    <2> QED BY <2>3, <2>5
  <1>11. ASSUME \E c \in Calls : PostCallback(c)
        PROVE  turn' \in Turn /\ turn'.adapter = turn.adapter /\ Placed'
    <2> PICK c \in Calls : PostCallback(c)
      BY <1>11
    <2> DEFINE u == Awaits("answered", c)
    <2>1. u \in Turn /\ u.at = "answered" /\ u.call = c /\ SameButPlace(u, turn)
      BY <1>a, AwaitsFacts DEF Moments
    <2>2. turn' = [u EXCEPT !.pending = @ \ {c}] /\ turn.handoff = NoCall
      BY DEF PostCallback
    <2> HIDE DEF u
    <2>3. /\ turn' \in Turn /\ turn'.at = "answered" /\ turn'.adapter = turn.adapter
          /\ turn'.call = c /\ turn'.pending \subseteq turn.pending
          /\ turn'.handoff = NoCall
      BY <2>1, <2>2 DEF Turn, SameButPlace
    <2>4. Placed'
      BY <1>b, <2>3 DEF Placed, Is, IsNative
    <2> QED BY <2>3, <2>4
  <1>12. ASSUME \E calls \in SUBSET Calls : ModelAnswers(calls)
        PROVE  turn' \in Turn /\ turn'.adapter = turn.adapter /\ Placed'
    <2> PICK calls \in SUBSET Calls : ModelAnswers(calls)
      BY <1>12
    <2> DEFINE u == Awaits("calls", NoCall)
    <2>1. u \in Turn /\ u.at = "calls" /\ u.call = NoCall /\ SameButPlace(u, turn)
      BY <1>a, AwaitsFacts DEF Moments
    <2>2. turn' = [u EXCEPT !.pending = calls]
      BY DEF ModelAnswers
    <2> HIDE DEF u
    <2>3. /\ turn' \in Turn /\ turn'.at = "calls" /\ turn'.adapter = turn.adapter
          /\ turn'.pending = calls /\ turn'.handoff = turn.handoff
      BY <2>1, <2>2 DEF Turn, SameButPlace
    <2>4. turn.handoff = NoCall /\ \A c \in calls : posts[c].step = "none"
      BY DEF ModelAnswers, Placed, Is, NoPost
    <2>5. Placed'
      BY <1>b, <2>3, <2>4 DEF Placed, Is, IsNative
    <2> QED BY <2>3, <2>5
  <1>13. turn' \in Turn /\ turn'.adapter = turn.adapter /\ Placed'
    BY <1>1, <1>2, <1>3, <1>4, <1>5, <1>6, <1>7, <1>8, <1>9, <1>10, <1>11,
          <1>12
  <1>14. DeliveryTypeOK'
    BY <1>b, <1>c, <1>13 DEF DeliveryTypeOK
  <1> QED BY <1>b, <1>c, <1>13, <1>14, ReceiptsKept
-----------------------------------------------------------------------------
(* Steps that write one receipt.                                           *)

LEMMA PaidFinite == IsFiniteSet(Paid)
  BY PostDeliveryAssumption, FS_Subset DEF Paid

LEMMA NothingCharged ==
    ASSUME posts \in [Calls -> Post], Kept, NEW c \in Calls, NEW p \in Post,
           posts' = [posts EXCEPT ![c] = p], p.admitted = posts[c].admitted,
           authority'.corrections = authority.corrections, seen' = seen
    PROVE  Kept'
  <1>1. Paid' = Paid
    BY DEF Paid
  <1> QED BY <1>1 DEF Kept

Typed ==
    /\ posts \in [Calls -> Post]
    /\ authority \in [recovering : BOOLEAN, stopped : BOOLEAN, corrections : Nat]
    /\ invocation \in {"none", "open", "complete", "quarantined"}

\* release: what was withheld goes out, and its correction is charged.
LEMMA ReleaseFacts ==
    ASSUME Typed, \A c \in Calls : Accounted(c), Kept,
           NEW c \in Calls, NEW next \in {"Local", "Reserved", "CorrectionReserved"},
           NEW expected \in {"LocalPending", "Staged", "Superseded"},
           MayRelease(c, expected), Release(c, next), c \notin checks,
           UNCHANGED <<talk, checks>>, seen'.shown = seen.shown,
           turn'.adapter = turn.adapter, next = "Local" => IsNative
    PROVE  /\ posts' \in [Calls -> Post]
           /\ authority' \in [recovering : BOOLEAN, stopped : BOOLEAN, corrections : Nat]
           /\ \A d \in Calls : Accounted(d)'
           /\ \A d \in Calls \ {c} : posts'[d] = posts[d]
           /\ posts'[c].delivery = next /\ posts'[c].step = "settled"
           /\ seen'.shown[c] = 0
           /\ authority'.corrections = Cardinality(Paid')
  <1> DEFINE p == [posts[c] EXCEPT !.delivery = next, !.admitted = posts[c].required]
  <1>1. posts[c] \in Post /\ OwnerIsValid(c) /\ posts[c].delivery = expected
    BY DEF MayRelease, Typed
  <1>2. /\ p \in Post /\ p.delivery = next /\ p.step = posts[c].step
        /\ p.continuation = posts[c].continuation
        /\ p.required = posts[c].required /\ p.admitted = posts[c].required
    BY <1>1 DEF Post
  <1>3. posts' = [posts EXCEPT ![c] = p]
    BY DEF Release
  <1> HIDE DEF p
  <1>4. /\ posts' \in [Calls -> Post] /\ posts'[c] = p
        /\ \A d \in Calls \ {c} : posts'[d] = posts[d] /\ Accounted(d)'
    BY <1>2, <1>3, OtherReceipts DEF Typed
  <1>5. ~posts[c].admitted /\ seen.shown[c] = 0
    BY <1>1 DEF Accounted, Sent
  <1>6. Accounted(c)'
    BY <1>1, <1>2, <1>4, <1>5 DEF Accounted, Sent, OwnerIsValid, IsNative
  <1>7. CASE posts[c].required
    <2>1. authority' = [authority EXCEPT !.corrections = @ + 1]
      BY <1>7 DEF Release
    <2>2. Paid' = Paid \union {c} /\ c \notin Paid
      BY <1>2, <1>4, <1>5, <1>7 DEF Paid
    <2>3. Cardinality(Paid') = Cardinality(Paid) + 1
      BY <2>2, PaidFinite, FS_AddElement
    <2> QED BY <1>2, <1>4, <1>5, <1>6, <1>1, <2>1, <2>3
              DEF Kept, Typed, OwnerIsValid
  <1>8. CASE ~posts[c].required
    <2>1. authority' = [authority EXCEPT !.corrections = @ + 0]
      BY <1>8 DEF Release
    <2>2. Paid' = Paid
      BY <1>1, <1>2, <1>4, <1>5, <1>8 DEF Paid, Post
    <2> QED BY <1>2, <1>4, <1>5, <1>6, <1>1, <2>1, <2>2
              DEF Kept, Typed, OwnerIsValid
  <1> QED BY <1>7, <1>8

LEMMA TypedFacts ==
    ASSUME DeliveryTypeOK
    PROVE  /\ Typed /\ turn \in Turn
           /\ seen \in [shown : [Calls -> Nat], blind : BOOLEAN, rushed : BOOLEAN]
           /\ \A c \in Calls : posts[c] \in Post
  BY DEF Typed, DeliveryTypeOK

\* begin_tool: the receipt of a call that was not begun before.
LEMMA BeginToolKeeps ==
    ASSUME DeliveryIInv, NEW c \in Calls, BeginTool(c)
    PROVE  DeliveryIInv'
  <1> USE PostDeliveryAssumption DEF DeliveryIInv
  <1>1. Typed /\ turn \in Turn /\ posts[c] \in Post
        /\ seen \in [shown : [Calls -> Nat], blind : BOOLEAN, rushed : BOOLEAN]
    BY TypedFacts
  <1>2. posts[c].step = "none" /\ turn.handoff = NoCall
    BY DEF BeginTool, Asked, Placed, Is, NoPost
  <1> DEFINE p == [posts[c] EXCEPT !.step = "tool"]
             u == Awaits("executing", c)
  <1>3. /\ p \in Post /\ p.step = "tool" /\ p.delivery = posts[c].delivery
        /\ p.required = posts[c].required /\ p.admitted = posts[c].admitted
        /\ posts' = [posts EXCEPT ![c] = p]
    BY <1>1 DEF Post, BeginTool
  <1>4. u \in Turn /\ u.at = "executing" /\ u.call = c /\ SameButPlace(u, turn)
    BY <1>1, AwaitsFacts DEF Moments
  <1>5. turn' = [u EXCEPT !.pending = @ \ {c}]
    BY DEF BeginTool
  <1> HIDE DEF p, u
  <1>6. /\ turn' \in Turn /\ turn'.at = "executing" /\ turn'.adapter = turn.adapter
        /\ turn'.call = c /\ turn'.pending = turn.pending \ {c}
        /\ turn'.handoff = NoCall
    BY <1>2, <1>4, <1>5 DEF Turn, SameButPlace
  <1>7. IF IsNative THEN seen' = [seen EXCEPT !.blind = seen.blind]
                    ELSE seen' = [seen EXCEPT !.blind = Blind(NoCall)]
    BY DEF BeginTool
  <1>8. ~IsNative => Blind(NoCall) = FALSE
    BY
      DEF BeginTool, ContinuationOpen, Continues, Released, Blind, Kept,
          Accounted
  <1>9. seen' = seen
    <2>1. seen.blind = FALSE
      BY <1>1 DEF Kept
    <2>2. seen' = [seen EXCEPT !.blind = FALSE]
      BY <1>7, <1>8, <2>1
    <2> QED BY <1>1, <2>1, <2>2
  <1>10. /\ UNCHANGED <<talk, checks, stale, queued, bounds, invocation, authority>>
    BY DEF BeginTool
  <1>11. /\ posts' \in [Calls -> Post] /\ posts'[c] = p
         /\ \A d \in Calls \ {c} : posts'[d] = posts[d] /\ Accounted(d)'
    BY <1>1, <1>3, <1>6, <1>9, <1>10, OtherReceipts DEF Typed
  <1>12. Accounted(c)'
    BY <1>2, <1>3, <1>9, <1>10, <1>11, <1>6 DEF Accounted, Sent, IsNative
  <1>13. Kept'
    BY <1>1, <1>3, <1>9, <1>10, NothingCharged DEF Typed
  <1>14. DeliveryTypeOK'
    BY <1>6, <1>9, <1>10, <1>11 DEF DeliveryTypeOK
  <1>15. Placed'
    BY <1>2, <1>3, <1>6, <1>11 DEF Placed, Is, IsNative, Turn
  <1> QED BY <1>11, <1>12, <1>13, <1>14, <1>15

\* The hooks of a result begin.
LEMMA BeginPostToolKeeps ==
    ASSUME DeliveryIInv, BeginPostTool
    PROVE  DeliveryIInv'
  <1> USE PostDeliveryAssumption DEF DeliveryIInv
  <1> PICK c \in Calls : c = turn.call
    BY DEF BeginPostTool, Placed, Is
  <1> DEFINE p == [posts[c] EXCEPT !.step = "hooks",
                     !.delivery = IF IsNative THEN "LocalPending" ELSE "Staged"]
  <1>1. /\ Typed /\ turn \in Turn /\ posts[c] \in Post
        /\ posts[c].step = "tool" /\ turn.at = "executing"
    BY TypedFacts DEF BeginPostTool, Placed, Is
  <1>2. /\ p \in Post /\ p.step = "hooks" /\ p.delivery \in {"LocalPending", "Staged"}
        /\ p.required = posts[c].required /\ p.admitted = posts[c].admitted
        /\ posts' = [posts EXCEPT ![c] = p]
    BY <1>1 DEF Post, BeginPostTool
  <1> HIDE DEF p
  <1>3. /\ UNCHANGED <<talk, checks, queued, bounds, invocation, authority, seen, turn>>
        /\ stale' \subseteq stale
    BY DEF BeginPostTool
  <1>4. /\ posts' \in [Calls -> Post] /\ posts'[c] = p
        /\ \A d \in Calls \ {c} : posts'[d] = posts[d] /\ Accounted(d)'
    BY <1>1, <1>2, <1>3, OtherReceipts DEF Typed
  <1>5. Accounted(c)'
    BY <1>1, <1>2, <1>3, <1>4 DEF Accounted, Sent, IsNative
  <1>6. Kept'
    BY <1>1, <1>2, <1>3, NothingCharged DEF Typed
  <1>7. DeliveryTypeOK'
    BY <1>3, <1>4 DEF DeliveryTypeOK
  <1>8. Placed'
    BY <1>1, <1>3, <1>4 DEF Placed, Is, IsNative, Turn
  <1> QED BY <1>4, <1>5, <1>6, <1>7, <1>8

\* Their answer settles the receipt and retains one validation.
LEMMA HooksAnswerKeeps ==
    ASSUME DeliveryIInv, NEW continuation \in {"Continue", "Correction", "Held"},
           NEW consume \in BOOLEAN, NEW lost \in BOOLEAN,
           HooksAnswer(continuation, consume, lost)
    PROVE  DeliveryIInv'
  <1> USE PostDeliveryAssumption DEF DeliveryIInv
  <1> PICK c \in Calls : c = turn.call
    BY DEF HooksAnswer, Placed, Is
  <1> DEFINE wants == ~lost /\ continuation # "Held"
                        /\ (consume \/ continuation = "Correction")
             afford == ~authority.stopped /\ authority.corrections < Limit
             after == IF lost \/ (wants /\ ~afford) THEN "Held" ELSE continuation
             p == [posts[c] EXCEPT !.step = "settled", !.required = wants /\ afford,
                                   !.continuation = after]
  <1>1. /\ Typed /\ turn \in Turn /\ posts[c] \in Post
        /\ posts[c].step = "hooks" /\ turn.at = "executing" /\ turn.handoff = NoCall
    BY TypedFacts DEF HooksAnswer, Placed, Is
  <1>2. (wants /\ afford) \in BOOLEAN /\ after \in {"Continue", "Correction", "Held"}
    OBVIOUS
  <1>3. posts' = [posts EXCEPT ![c] = p]
    BY DEF HooksAnswer
  <1>4. authority' = [authority EXCEPT !.recovering = @ \/ lost]
    BY DEF HooksAnswer
  <1> HIDE DEF wants, afford, after
  <1>5. /\ p \in Post /\ p.step = "settled" /\ p.delivery = posts[c].delivery
        /\ p.admitted = posts[c].admitted
    BY <1>1, <1>2 DEF Post
  <1> HIDE DEF p
  <1>6. /\ authority' \in [recovering : BOOLEAN, stopped : BOOLEAN, corrections : Nat]
        /\ authority'.corrections = authority.corrections
    BY <1>1, <1>4 DEF Typed
  <1>7. /\ UNCHANGED <<stale, queued, bounds, invocation, seen>>
        /\ checks' = checks \union {c} /\ talk' \subseteq talk \union {c}
    BY DEF HooksAnswer
  <1>8. /\ turn' \in Turn /\ turn'.adapter = turn.adapter /\ turn'.handoff = NoCall
        /\ \/ /\ turn'.at = "answered" /\ turn'.call = c
              /\ turn'.pending = turn.pending
           \/ turn'.at = "waiting" /\ turn.adapter = "claude"
    <2>1. CASE turn.adapter = "claude"
      <3> DEFINE u == Awaits("waiting", NoCall)
      <3>1. u \in Turn /\ u.at = "waiting" /\ SameButPlace(u, turn)
        BY <1>1, AwaitsFacts DEF Moments
      <3>2. turn' = [u EXCEPT !.pending = @ \union {c}]
        BY <2>1 DEF HooksAnswer
      <3> HIDE DEF u
      <3> QED BY <1>1, <2>1, <3>1, <3>2 DEF Turn, SameButPlace
    <2>2. CASE turn.adapter # "claude"
      BY <1>1, <2>2, AwaitsFacts DEF HooksAnswer, Moments, SameButPlace
    <2> QED BY <2>1, <2>2
  <1>9. /\ posts' \in [Calls -> Post] /\ posts'[c] = p
        /\ \A d \in Calls \ {c} : posts'[d] = posts[d] /\ Accounted(d)'
    BY <1>1, <1>3, <1>5, <1>7, <1>8, OtherReceipts DEF Typed
  <1>10. Accounted(c)'
    BY <1>1, <1>5, <1>7, <1>8, <1>9 DEF Accounted, Sent, IsNative
  <1>11. Kept'
    BY <1>1, <1>3, <1>5, <1>6, <1>7, NothingCharged DEF Typed
  <1>12. DeliveryTypeOK'
    BY <1>1, <1>6, <1>7, <1>8, <1>9 DEF DeliveryTypeOK
  <1>13. Placed'
    BY <1>1, <1>8, <1>9 DEF Placed, Is, IsNative, Turn, Turn
  <1> QED BY <1>9, <1>10, <1>11, <1>12, <1>13

\* A validation that fails holds the result.
LEMMA HoldKeeps ==
    ASSUME DeliveryIInv, HoldPostDelivery
    PROVE  DeliveryIInv'
  <1> USE PostDeliveryAssumption DEF DeliveryIInv
  <1> PICK c \in Calls : c = turn.call
    BY DEF HoldPostDelivery, Placed, Is
  <1> DEFINE p == [posts[c] EXCEPT !.continuation = "Held"]
  <1>1. /\ Typed /\ turn \in Turn /\ posts[c] \in Post
        /\ posts[c].delivery \notin Sent
    BY TypedFacts DEF HoldPostDelivery, Placed, Is
  <1>2. /\ p \in Post /\ p.step = posts[c].step /\ p.delivery = posts[c].delivery
        /\ p.required = posts[c].required /\ p.admitted = posts[c].admitted
        /\ posts' = [posts EXCEPT ![c] = p]
    BY <1>1 DEF Post, HoldPostDelivery
  <1> HIDE DEF p
  <1>3. /\ authority' \in [recovering : BOOLEAN, stopped : BOOLEAN, corrections : Nat]
        /\ authority'.corrections = authority.corrections
    BY <1>1 DEF HoldPostDelivery, Ends, Typed
  <1>4. /\ UNCHANGED <<talk, checks, stale, bounds, invocation, seen>> /\ queued' = FALSE
        /\ turn' = Still(turn.adapter)
    BY DEF HoldPostDelivery, Ends
  <1>5. turn' \in Turn /\ turn'.adapter = turn.adapter /\ Placed'
    BY <1>1, <1>4, EndedTurn
  <1>6. /\ posts' \in [Calls -> Post] /\ posts'[c] = p
        /\ \A d \in Calls \ {c} : posts'[d] = posts[d] /\ Accounted(d)'
    BY <1>1, <1>2, <1>4, <1>5, OtherReceipts DEF Typed
  <1>7. Accounted(c)'
    BY <1>1, <1>2, <1>4, <1>5, <1>6 DEF Accounted, IsNative
  <1>8. Kept'
    BY <1>1, <1>2, <1>3, <1>4, NothingCharged DEF Typed
  <1>9. DeliveryTypeOK'
    BY <1>3, <1>4, <1>5, <1>6 DEF DeliveryTypeOK
  <1> QED BY <1>5, <1>6, <1>7, <1>8, <1>9

\* The backend acknowledges the result.
LEMMA AckPostDeliveryKeeps ==
    ASSUME DeliveryIInv, AckPostDelivery
    PROVE  DeliveryIInv'
  <1> USE PostDeliveryAssumption DEF DeliveryIInv
  <1> PICK c \in Calls : c = turn.call
    BY TypedFacts DEF AckPostDelivery, Placed, Is, TakeOver, Turn
  <1> DEFINE p == [posts[c] EXCEPT !.delivery = "Acknowledged"]
  <1>1. /\ Typed /\ turn \in Turn /\ posts[c] \in Post
        /\ posts[c].delivery = "Reserved" /\ seen.shown[c] = 1 /\ turn.handoff = NoCall
    BY TypedFacts
      DEF AckPostDelivery, Placed, Is, TakeOver, Correcting, OwnerIsValid, Turn
  <1>2. /\ p \in Post /\ p.step = posts[c].step /\ p.delivery = "Acknowledged"
        /\ p.continuation = posts[c].continuation
        /\ p.required = posts[c].required /\ p.admitted = posts[c].admitted
        /\ posts' = [posts EXCEPT ![c] = p]
    BY <1>1 DEF Post, AckPostDelivery
  <1> HIDE DEF p
  <1>3. UNCHANGED <<authority, invocation, talk, checks, stale, queued, seen, bounds>>
    BY DEF AckPostDelivery
  <1>4. /\ turn' \in Turn /\ turn'.adapter = turn.adapter /\ turn'.at = "waiting"
        /\ turn'.handoff = NoCall /\ ~IsNative
    BY <1>1, AwaitsFacts DEF AckPostDelivery, Moments, SameButPlace, Placed, Is
  <1>5. /\ posts' \in [Calls -> Post] /\ posts'[c] = p
        /\ \A d \in Calls \ {c} : posts'[d] = posts[d] /\ Accounted(d)'
    BY <1>1, <1>2, <1>3, <1>4, OtherReceipts DEF Typed
  <1>6. Accounted(c)'
    BY <1>1, <1>2, <1>3, <1>4, <1>5 DEF Accounted, Sent, IsNative
  <1>7. Kept'
    BY <1>1, <1>2, <1>3, NothingCharged DEF Typed
  <1>8. DeliveryTypeOK'
    BY <1>3, <1>4, <1>5 DEF DeliveryTypeOK
  <1>9. Placed'
    BY <1>1, <1>3, <1>4, <1>5 DEF Placed, Is, IsNative, Turn
  <1> QED BY <1>5, <1>6, <1>7, <1>8, <1>9

\* The backend acknowledges the correction.
LEMMA AckCorrectionKeeps ==
    ASSUME DeliveryIInv, AcknowledgeCorrection
    PROVE  DeliveryIInv'
  <1> USE PostDeliveryAssumption DEF DeliveryIInv
  <1> PICK c \in Calls : c = turn.handoff
    BY TypedFacts DEF AcknowledgeCorrection, Placed, Is, TakeOver, Turn
  <1> DEFINE p == [posts[c] EXCEPT !.delivery = "CorrectionAcknowledged"]
  <1>1. /\ Typed /\ turn \in Turn /\ posts[c] \in Post
        /\ posts[c].delivery = "CorrectionReserved" /\ seen.shown[c] = 1
        /\ turn.at = "waiting"
    BY TypedFacts
      DEF AcknowledgeCorrection, Placed, Is, TakeOver, Correcting,
          OwnerIsValid, Turn
  <1>2. /\ p \in Post /\ p.step = posts[c].step /\ p.delivery = "CorrectionAcknowledged"
        /\ p.continuation = posts[c].continuation
        /\ p.required = posts[c].required /\ p.admitted = posts[c].admitted
        /\ posts' = [posts EXCEPT ![c] = p]
    BY <1>1 DEF Post, AcknowledgeCorrection
  <1> HIDE DEF p
  <1>3. UNCHANGED <<authority, invocation, talk, checks, stale, queued, seen, bounds>>
    BY DEF AcknowledgeCorrection
  <1>4. /\ turn' \in Turn /\ turn'.adapter = turn.adapter /\ turn'.at = "waiting"
        /\ turn'.handoff = NoCall /\ ~IsNative
    BY <1>1 DEF AcknowledgeCorrection, Turn, Placed, Is
  <1>5. /\ posts' \in [Calls -> Post] /\ posts'[c] = p
        /\ \A d \in Calls \ {c} : posts'[d] = posts[d] /\ Accounted(d)'
    BY <1>1, <1>2, <1>3, <1>4, OtherReceipts DEF Typed
  <1>6. Accounted(c)'
    BY <1>1, <1>2, <1>3, <1>4, <1>5 DEF Accounted, Sent, IsNative
  <1>7. Kept'
    BY <1>1, <1>2, <1>3, NothingCharged DEF Typed
  <1>8. DeliveryTypeOK'
    BY <1>3, <1>4, <1>5 DEF DeliveryTypeOK
  <1>9. Placed'
    BY <1>1, <1>3, <1>4, <1>5 DEF Placed, Is, IsNative, Turn
  <1> QED BY <1>5, <1>6, <1>7, <1>8, <1>9

\* A correction begins to supersede the turn.
LEMMA StartSupersessionKeeps ==
    ASSUME DeliveryIInv, StartSupersession
    PROVE  DeliveryIInv'
  <1> USE PostDeliveryAssumption DEF DeliveryIInv
  <1> PICK c \in Calls : c = turn.call
    BY TypedFacts DEF StartSupersession, Placed, Is, TakeOver, Turn
  <1> DEFINE p == [posts[c] EXCEPT !.delivery = "Superseding"]
  <1>1. /\ Typed /\ turn \in Turn /\ posts[c] \in Post
        /\ posts[c].delivery = "Staged" /\ posts[c].step = "settled"
        /\ turn.handoff = NoCall
    BY TypedFacts
      DEF StartSupersession, Placed, Is, TakeOver, Correcting, OwnerIsValid,
          Turn
  <1>2. /\ p \in Post /\ p.step = posts[c].step /\ p.delivery = "Superseding"
        /\ p.continuation = posts[c].continuation
        /\ p.required = posts[c].required /\ p.admitted = posts[c].admitted
        /\ posts' = [posts EXCEPT ![c] = p]
    BY <1>1 DEF Post, StartSupersession
  <1> HIDE DEF p
  <1>3. UNCHANGED <<authority, invocation, talk, checks, stale, queued, seen, bounds>>
    BY DEF StartSupersession
  <1>4. /\ turn' \in Turn /\ turn'.adapter = turn.adapter /\ turn'.at = "waiting"
        /\ turn'.call = NoCall /\ turn'.handoff = NoCall /\ ~IsNative
    <2> DEFINE u == Awaits("waiting", NoCall)
    <2>1. u \in Turn /\ u.at = "waiting" /\ u.call = NoCall /\ SameButPlace(u, turn)
      BY <1>1, AwaitsFacts DEF Moments
    <2>2. turn' = [u EXCEPT !.correction = c] /\ ~IsNative
      BY DEF StartSupersession, Placed, TakeOver, Is
    <2> HIDE DEF u
    <2> QED BY <1>1, <2>1, <2>2 DEF Turn, SameButPlace
  <1>5. /\ posts' \in [Calls -> Post] /\ posts'[c] = p
        /\ \A d \in Calls \ {c} : posts'[d] = posts[d] /\ Accounted(d)'
    BY <1>1, <1>2, <1>3, <1>4, OtherReceipts DEF Typed
  <1>6. Accounted(c)'
    BY <1>1, <1>2, <1>3, <1>4, <1>5 DEF Accounted, Sent, IsNative
  <1>7. Kept'
    BY <1>1, <1>2, <1>3, NothingCharged DEF Typed
  <1>8. DeliveryTypeOK'
    BY <1>3, <1>4, <1>5 DEF DeliveryTypeOK
  <1>9. Placed'
    BY <1>1, <1>3, <1>4, <1>5 DEF Placed, Is, IsNative, Turn
  <1> QED BY <1>5, <1>6, <1>7, <1>8, <1>9

\* The superseded turn is over.
LEMMA FinishSupersessionKeeps ==
    ASSUME DeliveryIInv, FinishSupersession
    PROVE  DeliveryIInv'
  <1> USE PostDeliveryAssumption DEF DeliveryIInv
  <1> PICK c \in Calls : c = turn.correction
    BY TypedFacts DEF FinishSupersession, Placed, Is, TakeOver, Turn
  <1> DEFINE p == [posts[c] EXCEPT !.delivery = "Superseded"]
  <1>1. /\ Typed /\ turn \in Turn /\ posts[c] \in Post
        /\ posts[c].delivery = "Superseding" /\ turn.handoff = NoCall
    BY TypedFacts
      DEF FinishSupersession, Placed, Is, TakeOver, Correcting, OwnerIsValid,
          Turn
  <1>2. /\ p \in Post /\ p.step = posts[c].step /\ p.delivery = "Superseded"
        /\ p.continuation = posts[c].continuation
        /\ p.required = posts[c].required /\ p.admitted = posts[c].admitted
        /\ posts' = [posts EXCEPT ![c] = p]
    BY <1>1 DEF Post, FinishSupersession
  <1> HIDE DEF p
  <1>3. UNCHANGED <<authority, invocation, talk, checks, stale, queued, seen, bounds>>
    BY DEF FinishSupersession
  <1>4. /\ turn' \in Turn /\ turn'.adapter = turn.adapter /\ turn'.at = "answered"
        /\ turn'.call = c /\ turn'.handoff = NoCall /\ ~IsNative
    <2> DEFINE u == Awaits("answered", c)
    <2>1. u \in Turn /\ u.at = "answered" /\ u.call = c /\ SameButPlace(u, turn)
      BY <1>1, AwaitsFacts DEF Moments
    <2>2. turn' = [u EXCEPT !.steered = FALSE] /\ ~IsNative
      BY DEF FinishSupersession, Placed, TakeOver, Is
    <2> HIDE DEF u
    <2> QED BY <1>1, <2>1, <2>2 DEF Turn, SameButPlace
  <1>5. /\ posts' \in [Calls -> Post] /\ posts'[c] = p
        /\ \A d \in Calls \ {c} : posts'[d] = posts[d] /\ Accounted(d)'
    BY <1>1, <1>2, <1>3, <1>4, OtherReceipts DEF Typed
  <1>6. Accounted(c)'
    BY <1>1, <1>2, <1>3, <1>4, <1>5 DEF Accounted, Sent, IsNative
  <1>7. Kept'
    BY <1>1, <1>2, <1>3, NothingCharged DEF Typed
  <1>8. DeliveryTypeOK'
    BY <1>3, <1>4, <1>5 DEF DeliveryTypeOK
  <1>9. Placed'
    BY <1>1, <1>3, <1>4, <1>5 DEF Placed, Is, IsNative, Turn
  <1> QED BY <1>5, <1>6, <1>7, <1>8, <1>9

\* A native loop may use the result.
LEMMA LocalReleaseKeeps ==
    ASSUME DeliveryIInv, CompleteLocalRelease
    PROVE  DeliveryIInv'
  <1> USE PostDeliveryAssumption DEF DeliveryIInv
  <1> PICK c \in Calls : c = turn.call
    BY DEF CompleteLocalRelease, Placed, Is, Presenting
  <1>1. /\ Typed /\ turn \in Turn
        /\ seen \in [shown : [Calls -> Nat], blind : BOOLEAN, rushed : BOOLEAN]
        /\ turn.at = "releasing" /\ turn.handoff = NoCall /\ c \notin checks
        /\ posts[c].step = "settled" /\ IsNative
        /\ MayRelease(c, "LocalPending") /\ Release(c, "Local")
    BY TypedFacts
      DEF CompleteLocalRelease, Presenting, Placed, Is, IsNative, MayRelease,
          OwnerIsValid
  <1>2. /\ UNCHANGED <<talk, checks, stale, queued, bounds>>
        /\ invocation' \in {invocation, "open"}
    BY DEF CompleteLocalRelease
  <1>3. /\ turn' \in Turn /\ turn'.adapter = turn.adapter /\ turn'.at = "calls"
        /\ turn'.pending \subseteq turn.pending /\ turn'.handoff = NoCall
    <2> DEFINE u == Awaits("calls", NoCall)
    <2>1. u \in Turn /\ u.at = "calls" /\ SameButPlace(u, turn)
      BY <1>1, AwaitsFacts DEF Moments
    <2>2. turn' = [u EXCEPT
                  !.pending = IF posts[c].continuation = "Correction" THEN {} ELSE @]
      BY DEF CompleteLocalRelease
    <2> HIDE DEF u
    <2> QED BY <1>1, <2>1, <2>2 DEF Turn, SameButPlace
  <1>4. seen' = seen
    <2>1. seen.rushed = FALSE /\ Charged(c) = FALSE
      BY <1>1 DEF Kept, Charged, CompleteLocalRelease
    <2>2. seen' = [seen EXCEPT !.rushed = FALSE]
      BY <2>1 DEF CompleteLocalRelease
    <2> QED BY <1>1, <2>1, <2>2
  <1>5. /\ posts' \in [Calls -> Post]
        /\ authority' \in [recovering : BOOLEAN, stopped : BOOLEAN, corrections : Nat]
        /\ \A d \in Calls : Accounted(d)'
        /\ \A d \in Calls \ {c} : posts'[d] = posts[d]
        /\ posts'[c].delivery = "Local" /\ posts'[c].step = "settled"
        /\ seen'.shown[c] = 0
        /\ authority'.corrections = Cardinality(Paid')
    BY <1>1, <1>2, <1>3, <1>4, ReleaseFacts
  <1>6. DeliveryTypeOK'
    BY <1>2, <1>3, <1>4, <1>5 DEF DeliveryTypeOK
  <1>7. Kept'
    BY <1>4, <1>5 DEF Kept
  <1>8. Placed'
    BY <1>1, <1>2, <1>3, <1>4, <1>5
      DEF CompleteLocalRelease, Placed, Is, IsNative, Turn
  <1> QED BY <1>5, <1>6, <1>7, <1>8

\* The frame with the result is reserved.
LEMMA ReserveDeliveryKeeps ==
    ASSUME DeliveryIInv, ReservePostDelivery
    PROVE  DeliveryIInv'
  <1> USE PostDeliveryAssumption DEF DeliveryIInv
  <1> PICK c \in Calls : c = turn.call
    BY DEF ReservePostDelivery, Placed, Is, Presenting
  <1>1. /\ Typed /\ turn \in Turn
        /\ seen \in [shown : [Calls -> Nat], blind : BOOLEAN, rushed : BOOLEAN]
        /\ turn.at = "releasing" /\ turn.handoff = NoCall /\ c \notin checks
        /\ posts[c].step = "settled" /\ ~IsNative
        /\ MayRelease(c, "Staged") /\ Release(c, "Reserved")
    BY TypedFacts
      DEF ReservePostDelivery, Presenting, Placed, Is, IsNative, MayRelease,
          OwnerIsValid
  <1>2. /\ UNCHANGED <<talk, checks, stale, queued, bounds>>
        /\ invocation' \in {invocation, "open"}
    BY DEF ReservePostDelivery
  <1>3. /\ turn' \in Turn /\ turn'.adapter = turn.adapter /\ turn'.at = "presenting"
        /\ turn'.call = c /\ turn'.handoff = NoCall
    BY <1>1, AwaitsFacts DEF ReservePostDelivery, Moments, SameButPlace
  <1>4. seen' = seen
    BY DEF ReservePostDelivery
  <1>5. /\ posts' \in [Calls -> Post]
        /\ authority' \in [recovering : BOOLEAN, stopped : BOOLEAN, corrections : Nat]
        /\ \A d \in Calls : Accounted(d)'
        /\ \A d \in Calls \ {c} : posts'[d] = posts[d]
        /\ posts'[c].delivery = "Reserved" /\ posts'[c].step = "settled"
        /\ seen'.shown[c] = 0
        /\ authority'.corrections = Cardinality(Paid')
    BY <1>1, <1>2, <1>3, <1>4, ReleaseFacts
  <1>6. DeliveryTypeOK'
    BY <1>2, <1>3, <1>4, <1>5 DEF DeliveryTypeOK
  <1>7. Kept'
    BY <1>4, <1>5 DEF Kept
  <1>8. Placed'
    BY <1>1, <1>2, <1>3, <1>4, <1>5
      DEF ReservePostDelivery, Placed, Is, IsNative, Turn
  <1> QED BY <1>5, <1>6, <1>7, <1>8

\* The correction is paid and its invocation begun.
LEMMA ReserveCorrectionKeeps ==
    ASSUME DeliveryIInv, ReservePostCorrection
    PROVE  DeliveryIInv'
  <1> USE PostDeliveryAssumption DEF DeliveryIInv
  <1> PICK c \in Calls : c = turn.call
    BY DEF ReservePostCorrection, Placed, Is, Presenting
  <1>1. /\ Typed /\ turn \in Turn
        /\ seen \in [shown : [Calls -> Nat], blind : BOOLEAN, rushed : BOOLEAN]
        /\ turn.at = "releasing" /\ turn.handoff = NoCall /\ c \notin checks
        /\ posts[c].step = "settled" /\ ~IsNative
        /\ MayRelease(c, "Superseded") /\ Release(c, "CorrectionReserved")
    BY TypedFacts
      DEF ReservePostCorrection, Presenting, Placed, Is, IsNative, MayRelease,
          OwnerIsValid
  <1>2. /\ UNCHANGED <<talk, checks, stale, queued, bounds>>
        /\ invocation' \in {invocation, "open"}
    BY DEF ReservePostCorrection
  <1>3. /\ turn' \in Turn /\ turn'.adapter = turn.adapter /\ turn'.at = "sending"
        /\ turn'.handoff = c
    <2> DEFINE u == Awaits("sending", NoCall)
    <2>1. u \in Turn /\ u.at = "sending" /\ SameButPlace(u, turn)
      BY <1>1, AwaitsFacts DEF Moments
    <2>2. turn' = [u EXCEPT !.handoff = c, !.correction = NoCall]
      BY DEF ReservePostCorrection
    <2> HIDE DEF u
    <2> QED BY <1>1, <2>1, <2>2 DEF Turn, SameButPlace
  <1>4. seen' = seen
    <2>1. seen.rushed = FALSE /\ Charged(c) = FALSE
      BY <1>1 DEF Kept, Charged, ReservePostCorrection
    <2>2. seen' = [seen EXCEPT !.rushed = FALSE]
      BY <2>1 DEF ReservePostCorrection
    <2> QED BY <1>1, <2>1, <2>2
  <1>5. /\ posts' \in [Calls -> Post]
        /\ authority' \in [recovering : BOOLEAN, stopped : BOOLEAN, corrections : Nat]
        /\ \A d \in Calls : Accounted(d)'
        /\ \A d \in Calls \ {c} : posts'[d] = posts[d]
        /\ posts'[c].delivery = "CorrectionReserved" /\ posts'[c].step = "settled"
        /\ seen'.shown[c] = 0
        /\ authority'.corrections = Cardinality(Paid')
    BY <1>1, <1>2, <1>3, <1>4, ReleaseFacts
  <1>6. DeliveryTypeOK'
    BY <1>2, <1>3, <1>4, <1>5 DEF DeliveryTypeOK
  <1>7. Kept'
    BY <1>4, <1>5 DEF Kept
  <1>8. Placed'
    BY <1>1, <1>2, <1>3, <1>4, <1>5
      DEF ReservePostCorrection, Placed, Is, IsNative, Turn, ContinuationOpen,
          Continues, HasLifecycle, Released
  <1> QED BY <1>5, <1>6, <1>7, <1>8

-----------------------------------------------------------------------------
(* Steps by which a result is shown, and the reconciliation.               *)

\* The frame of a turn shows the correction it carries, if any.
LEMMA SendKeeps ==
    ASSUME DeliveryIInv, Send
    PROVE  DeliveryIInv'
  <1> USE PostDeliveryAssumption DEF DeliveryIInv
  <1> DEFINE u == Awaits("waiting", NoCall)
             shown == [c \in Calls |-> IF c = turn.handoff THEN seen.shown[c] + 1
                                                          ELSE seen.shown[c]]
  <1>1. /\ Typed /\ turn \in Turn /\ turn.at = "sending"
        /\ seen \in [shown : [Calls -> Nat], blind : BOOLEAN, rushed : BOOLEAN]
        /\ ~IsNative
    BY TypedFacts DEF Send, Is, Placed
  <1>2. u \in Turn /\ u.at = "waiting" /\ SameButPlace(u, turn)
    BY <1>1, AwaitsFacts DEF Moments
  <1>3. turn' = [u EXCEPT !.interrupt = "none", !.over = FALSE]
    BY DEF Send
  <1> HIDE DEF u
  <1>4. /\ turn' \in Turn /\ turn'.adapter = turn.adapter /\ turn'.at = "waiting"
        /\ turn'.handoff = turn.handoff /\ turn'.over = FALSE
    BY <1>2, <1>3 DEF Turn, SameButPlace
  <1>5. Blind(turn.handoff) = FALSE
    BY <1>1
      DEF Blind, Kept, Placed, Is, ContinuationOpen, Continues, Released,
          Accounted,
                IsNative
  <1>6. seen' = [seen EXCEPT !.blind = FALSE, !.shown = shown]
    BY <1>5 DEF Send
  <1>7. shown \in [Calls -> Nat]
    BY <1>1
  <1>8. /\ seen' \in [shown : [Calls -> Nat], blind : BOOLEAN, rushed : BOOLEAN]
        /\ seen'.shown = shown /\ seen'.blind = FALSE /\ seen'.rushed = FALSE
    <2> HIDE DEF shown
    <2> QED BY <1>1, <1>6, <1>7 DEF Kept
  <1>9. UNCHANGED <<posts, authority, invocation, talk, checks, stale, queued, bounds>>
    BY DEF Send
  <1>10. \A c \in Calls : Accounted(c)'
    <2> SUFFICES ASSUME NEW c \in Calls PROVE Accounted(c)'
      OBVIOUS
    <2>1. CASE c = turn.handoff
      BY <1>1, <1>4, <1>8, <1>9, <2>1 DEF Accounted, Placed, Is, IsNative, Sent
    <2>2. CASE c # turn.handoff
      BY <1>1, <1>4, <1>8, <1>9, <2>2 DEF Accounted, IsNative
    <2> QED BY <2>1, <2>2
  <1>11. Placed'
    BY <1>1, <1>4, <1>8, <1>9 DEF Placed, Is, IsNative, Turn
  <1>12. DeliveryTypeOK'
    BY <1>4, <1>8, <1>9 DEF DeliveryTypeOK
  <1>13. Kept'
    BY <1>8, <1>9 DEF Kept, Paid
  <1> QED BY <1>10, <1>11, <1>12, <1>13

\* A request to the model carries the whole conversation.
LEMMA BeginModelKeeps ==
    ASSUME DeliveryIInv, BeginModel
    PROVE  DeliveryIInv'
  <1> USE PostDeliveryAssumption DEF DeliveryIInv
  <1> DEFINE shown == [c \in Calls |-> IF c \in talk THEN 1 ELSE seen.shown[c]]
             blind == seen.blind \/ \E c \in Calls : HasLifecycle(c) /\ ~Released(c)
  <1>1. /\ Typed /\ turn \in Turn /\ turn.at = "ready" /\ IsNative
        /\ turn.handoff = NoCall
        /\ seen \in [shown : [Calls -> Nat], blind : BOOLEAN, rushed : BOOLEAN]
        /\ \A c \in Calls : Continues(c)
    BY TypedFacts DEF BeginModel, Is, Placed, ContinuationOpen
  <1>2. /\ turn' \in Turn /\ turn'.adapter = turn.adapter /\ turn'.at = "model"
        /\ turn'.handoff = NoCall /\ turn'.pending = turn.pending
    BY <1>1, AwaitsFacts DEF BeginModel, Moments, SameButPlace
  <1>3. blind = FALSE
    BY <1>1 DEF Kept, Continues
  <1>4. seen' = [seen EXCEPT !.shown = shown, !.blind = FALSE]
    BY <1>3 DEF BeginModel
  <1>5. shown \in [Calls -> Nat]
    BY <1>1
  <1>6. /\ seen' \in [shown : [Calls -> Nat], blind : BOOLEAN, rushed : BOOLEAN]
        /\ seen'.shown = shown /\ seen'.blind = FALSE /\ seen'.rushed = FALSE
    <2> HIDE DEF shown
    <2> QED BY <1>1, <1>4, <1>5 DEF Kept
  <1>7. /\ UNCHANGED <<posts, authority, talk, checks, stale, queued, bounds>>
        /\ invocation' = "open"
    BY DEF BeginModel
  <1>8. \A c \in Calls : Accounted(c)'
    <2> SUFFICES ASSUME NEW c \in Calls PROVE Accounted(c)'
      OBVIOUS
    <2>1. CASE c \in talk
      BY <1>1, <1>2, <1>6, <1>7, <2>1
         DEF Accounted, Continues, HasLifecycle, Released, IsNative, Sent
    <2>2. CASE c \notin talk
      BY <1>1, <1>2, <1>6, <1>7, <2>2 DEF Accounted, IsNative
    <2> QED BY <2>1, <2>2
  <1>9. Placed'
    BY <1>1, <1>2, <1>7 DEF Placed, Is, IsNative
  <1>10. DeliveryTypeOK'
    BY <1>2, <1>6, <1>7 DEF DeliveryTypeOK
  <1>11. Kept'
    BY <1>6, <1>7 DEF Kept, Paid
  <1> QED BY <1>8, <1>9, <1>10, <1>11

\* The reserved frame is sent.
LEMMA PresentKeeps ==
    ASSUME DeliveryIInv, Present
    PROVE  DeliveryIInv'
  <1> USE PostDeliveryAssumption DEF DeliveryIInv
  <1> PICK c \in Calls : c = turn.call
    BY DEF Present, Placed, Is
  <1> DEFINE shown == [seen.shown EXCEPT ![c] = @ + 1]
  <1>1. /\ Typed /\ turn \in Turn /\ turn.at = "presenting" /\ turn.handoff = NoCall
        /\ seen \in [shown : [Calls -> Nat], blind : BOOLEAN, rushed : BOOLEAN]
        /\ posts[c].delivery = "Reserved" /\ seen.shown[c] = 0 /\ ~IsNative
    BY TypedFacts DEF Present, Placed, Is
  <1>2. /\ turn' \in Turn /\ turn'.adapter = turn.adapter /\ turn'.at = "presented"
        /\ turn'.handoff = NoCall /\ turn'.call = c
    BY <1>1, AwaitsFacts DEF Present, Moments, SameButPlace
  <1>3. seen' = [seen EXCEPT !.shown = shown]
    BY DEF Present
  <1>4. shown \in [Calls -> Nat] /\ shown[c] = 1
        /\ \A d \in Calls \ {c} : shown[d] = seen.shown[d]
    BY <1>1
  <1> HIDE DEF shown
  <1>5. /\ seen' \in [shown : [Calls -> Nat], blind : BOOLEAN, rushed : BOOLEAN]
        /\ seen'.shown = shown /\ seen'.blind = FALSE /\ seen'.rushed = FALSE
    BY <1>1, <1>3, <1>4 DEF Kept
  <1>6. UNCHANGED <<posts, authority, invocation, talk, checks, stale, queued, bounds>>
    BY DEF Present
  <1>7. \A d \in Calls : Accounted(d)'
    <2> SUFFICES ASSUME NEW d \in Calls PROVE Accounted(d)'
      OBVIOUS
    <2>1. CASE d = c
      BY <1>1, <1>2, <1>4, <1>5, <1>6, <2>1 DEF Accounted, IsNative, Sent
    <2>2. CASE d # c
      BY <1>1, <1>2, <1>4, <1>5, <1>6, <2>2 DEF Accounted, IsNative
    <2> QED BY <2>1, <2>2
  <1>8. Placed'
    BY <1>1, <1>2, <1>4, <1>5, <1>6 DEF Placed, Is, IsNative
  <1>9. DeliveryTypeOK'
    BY <1>2, <1>5, <1>6 DEF DeliveryTypeOK
  <1>10. Kept'
    BY <1>5, <1>6 DEF Kept, Paid
  <1> QED BY <1>7, <1>8, <1>9, <1>10

\* A reconciliation marks receipts; it delivers nothing and pays for nothing.
LEMMA ReconcileKeeps ==
    ASSUME DeliveryIInv, ReconcilePhase
    PROVE  DeliveryIInv'
  <1> USE PostDeliveryAssumption DEF DeliveryIInv
  <1>1. Typed /\ turn \in Turn /\ turn.at = "idle" /\ turn.handoff = NoCall
    BY TypedFacts DEF ReconcilePhase, Is, Placed
  <1>2. posts' = [c \in Calls |-> [posts[c] EXCEPT !.reconciled = @ \/ Unfinished(c)]]
    BY DEF ReconcilePhase
  <1>3. \A c \in Calls : (posts[c].reconciled \/ Unfinished(c)) \in BOOLEAN
    BY <1>1 DEF Typed, Post, Unfinished
  <1>4. /\ posts' \in [Calls -> Post]
        /\ \A c \in Calls :
             /\ posts'[c].step = posts[c].step /\ posts'[c].delivery = posts[c].delivery
             /\ posts'[c].continuation = posts[c].continuation
             /\ posts'[c].required = posts[c].required
             /\ posts'[c].admitted = posts[c].admitted
    <2> DEFINE mark == [c \in Calls |-> posts[c].reconciled \/ Unfinished(c)]
    <2>1. mark \in [Calls -> BOOLEAN]
      BY <1>3
    <2>2. posts' = [c \in Calls |-> [posts[c] EXCEPT !.reconciled = mark[c]]]
      BY <1>2
    <2> HIDE DEF mark
    <2> QED BY <1>1, <2>1, <2>2 DEF Typed, Post
  <1>5. /\ authority' \in [recovering : BOOLEAN, stopped : BOOLEAN, corrections : Nat]
        /\ authority'.corrections = authority.corrections
        /\ invocation' \in {"none", "open", "complete", "quarantined"}
    BY <1>1 DEF ReconcilePhase, Typed
  <1>6. UNCHANGED <<talk, turn, checks, stale, queued, seen, bounds>>
    BY DEF ReconcilePhase
  <1>7. \A c \in Calls : Accounted(c)'
    BY <1>4, <1>6 DEF Accounted, IsNative
  <1>8. Placed'
    BY <1>1, <1>4, <1>6 DEF Placed, Is, IsNative, Turn
  <1>9. DeliveryTypeOK'
    BY <1>4, <1>5, <1>6 DEF DeliveryTypeOK
  <1>10. Kept'
    <2>1. Paid' = Paid
      BY <1>4 DEF Paid
    <2> QED BY <1>5, <1>6, <2>1 DEF Kept
  <1> QED BY <1>7, <1>8, <1>9, <1>10
-----------------------------------------------------------------------------
LEMMA DeliveryInitially == DeliveryInit => DeliveryIInv
  <1> SUFFICES ASSUME DeliveryInit PROVE DeliveryIInv
    OBVIOUS
  <1> USE PostDeliveryAssumption
  <1>1. DeliveryTypeOK
    <2>1. NoPost \in Post
      BY DEF NoPost, Post
    <2>2. turn \in Turn
      <3> PICK adapter \in Adapters : turn = Still(adapter)
        BY DEF DeliveryInit
      <3> QED BY DEF Still, Turn
    <2>3. bounds \in [submissions : Nat, steers : Nat, deaths : Nat]
      <3>1. MaxSubmissions \in Nat /\ MaxSteers \in Nat /\ MaxDeaths \in Nat
        BY DEF PostDeliveryAssumption
      <3>2. bounds = [submissions |-> MaxSubmissions, steers |-> MaxSteers,
                      deaths |-> MaxDeaths]
        BY DEF DeliveryInit
      <3> QED BY <3>1, <3>2
    <2>4. seen \in [shown : [Calls -> Nat], blind : BOOLEAN, rushed : BOOLEAN]
      BY DEF DeliveryInit
    <2> QED BY <2>1, <2>2, <2>3, <2>4 DEF DeliveryInit, DeliveryTypeOK
  <1>2. \A c \in Calls : Accounted(c)
    BY DEF DeliveryInit, Accounted, NoPost, Sent
  <1>3. Placed
    BY DEF DeliveryInit, Placed, Is, IsNative, Still
  <1>4. Paid = {}
    BY DEF DeliveryInit, Paid, NoPost
  <1>5. Kept
    BY <1>4, FS_EmptySet DEF DeliveryInit, Kept
  <1> QED BY <1>1, <1>2, <1>3, <1>5 DEF DeliveryIInv

LEMMA DeliveryInductive == DeliveryIInv /\ [DeliveryNext]_deliveryVars => DeliveryIInv'
  <1> SUFFICES ASSUME DeliveryIInv, [DeliveryNext]_deliveryVars PROVE DeliveryIInv'
    OBVIOUS
  <1>1. CASE UNCHANGED deliveryVars
    BY <1>1
      DEF deliveryVars, DeliveryIInv, DeliveryTypeOK, Accounted, Placed, Kept, Paid,
          Is,
       IsNative, ContinuationOpen, Continues, HasLifecycle, Released
  <1>2. CASE \E c \in Calls : BeginTool(c)
    BY <1>2, BeginToolKeeps
  <1>3. CASE \E continuation \in {"Continue", "Correction", "Held"},
                consume, lost \in BOOLEAN : HooksAnswer(continuation, consume, lost)
    BY <1>3, HooksAnswerKeeps
  <1> QED BY <1>1, <1>2, <1>3, TurnEndsKeeps, BesideTheTurn, TurnMoves,
                BeginPostToolKeeps,
             HoldKeeps, AckPostDeliveryKeeps, AckCorrectionKeeps, StartSupersessionKeeps,
             FinishSupersessionKeeps, LocalReleaseKeeps, ReserveDeliveryKeeps,
             ReserveCorrectionKeeps, SendKeeps, BeginModelKeeps, PresentKeeps,
             ReconcileKeeps
          DEF DeliveryNext

LEMMA Always == DeliverySpec => []DeliveryIInv
  BY DeliveryInitially, DeliveryInductive, PTL DEF DeliverySpec

\* The variables keep their types, for every phase and every adapter.
THEOREM DeliveryTypeCorrect == DeliverySpec => []DeliveryTypeOK
  BY Always, PTL DEF DeliveryIInv

\* Nobody works on past a result that was not shown to it, and no result is shown
\* twice, or before it is settled and paid for.
THEOREM DeliveredBeforeWorkHolds == DeliverySpec => []DeliveredBeforeWork
  <1>1. DeliveryIInv => DeliveredBeforeWork
    BY DEF DeliveryIInv, Kept, Accounted, DeliveredBeforeWork
  <1> QED BY <1>1, Always, PTL

\* As many corrections are charged as receipts say they were admitted, each with
\* the release of its result, and none behind a Cancel that was queued before.
THEOREM CorrectionPaidOnceHolds == DeliverySpec => []CorrectionPaidOnce
  <1>1. DeliveryIInv => CorrectionPaidOnce
    BY DEF DeliveryIInv, Kept, Paid, Accounted, Sent, CorrectionPaidOnce
  <1> QED BY <1>1, Always, PTL

=============================================================================
