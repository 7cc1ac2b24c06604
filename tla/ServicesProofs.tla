---------------------------- MODULE ServicesProofs ----------------------------
(***************************************************************************)
(* Proofs about two services that a session uses while others change what  *)
(* they keep: SettingsStore, for any number of saves, of other processes   *)
(* and of controls that the session activates, and LanguageServices, for   *)
(* any number of files and every bound.  No save replaces what its author  *)
(* has not seen; no answer is of a project that never was.                 *)
(***************************************************************************)
EXTENDS SettingsStore, LanguageServices, TLAPS

-----------------------------------------------------------------------------
(* SettingsStore.                                                          *)

\* One worker at a time publishes.
OnePublishes ==
    \A s, t \in Saves :
        save[s].step \in InTransaction /\ save[t].step \in InTransaction => s = t

Unpublished == {"none", "draft", "inspecting", "candidate", "queued", "entered",
           "admitted", "controlled", "locked"}

\* What a save may rely on at its step: the flag of a publication under way, the
\* file under its lock, the session's own copy, the policy it was inspected by.
SoundSave(s) ==
    /\ save[s].step \in InTransaction => uncertain
    /\ save[s].step \in {"locked", "renamed"} => flock = s
    /\ save[s].step = "locked" => file = save[s].base
    /\ save[s].step \in {"entered", "admitted", "controlled", "locked"} => memory = mine
    /\ save[s].step = "renamed" => mine = s
    /\ save[s].step = "synced" =>
         /\ save[s].outcome \in {"applied", "appliedUncertain"}
         /\ save[s].outcome = "applied" => memory = mine
    /\ save[s].step \in Unpublished \union {"renamed"} => save[s].outcome = "none"
    /\ save[s].step \in Unpublished \/ save[s].outcome = "failed" => s \notin landed
    /\ save[s].step \in {"controlled", "locked"} =>
         control = IF Gated(s) THEN Ready(save[s].gen) ELSE Disabled
    /\ save[s].step \in {"admitted", "controlled", "locked"} /\ Gated(s) =>
         gate[s] = "cleared"

\* A control that is ready is in force.
InForce == control.kind = "ready" => control.gen \in alive

SettingsInv == /\ SettingsTypeOK /\ OnePublishes /\ InForce /\ WorkSeesSaved
        /\ \A s \in Saves : SoundSave(s)

-----------------------------------------------------------------------------
(* What a step does to the save that takes it.                             *)

LEMMA GotoFacts ==
    ASSUME save \in [Saves -> Save], NEW s \in Saves, NEW step \in Steps,
           Goto(s, step)
    PROVE  /\ save' \in [Saves -> Save]
           /\ \A t \in Saves : t # s => save'[t] = save[t]
           /\ save'[s].step = step
           /\ save'[s].base = save[s].base /\ save'[s].gen = save[s].gen
           /\ save'[s].live = save[s].live /\ save'[s].outcome = save[s].outcome
  BY DEF Goto, Save

LEMMA FinishFacts ==
    ASSUME save \in [Saves -> Save], NEW s \in Saves, NEW how \in Outcomes,
           Finish(s, how)
    PROVE  /\ save' \in [Saves -> Save]
           /\ \A t \in Saves : t # s => save'[t] = save[t]
           /\ save'[s].step \in {"ended", "cleaned"} /\ save'[s].outcome = how
  <1> DEFINE o(step) == Over(step, how)
  <1>1. \A step \in {"ended", "cleaned"} :
          o(step) \in Save /\ o(step).step = step /\ o(step).outcome = how
    BY DEF Over, Save, Steps, Contents
  <1>2. \E step \in {"ended", "cleaned"} : save' = [save EXCEPT ![s] = o(step)]
    BY DEF Finish
  <1> HIDE DEF o
  <1> QED BY <1>1, <1>2

\* A save out of its transaction moves, or only its attempt is withdrawn; its own
\* inspection may change.
Aside(s) ==
    /\ save' \in [Saves -> Save]
    /\ \A t \in Saves : t # s => save'[t] = save[t] /\ gate'[t] = gate[t]
    /\ save'[s].step \notin InTransaction
    /\ save[s].step \notin InTransaction
    /\ save'[s].step \in Unpublished => save'[s].outcome = "none"
    /\ save'[s].step \in Unpublished \/ save'[s].outcome = "failed" =>
         save[s].step \in Unpublished \/ save[s].outcome = "failed"
    /\ UNCHANGED <<file, flock, memory, uncertain, control, alive, opened, mine, landed>>

LEMMA AsideKeeps ==
    ASSUME SettingsInv, NEW s \in Saves, Aside(s), gate' \in [Saves -> GateStates],
           hook' \in [Saves -> {"none", "running", "known", "unknown"}],
           held' \in BOOLEAN, UNCHANGED <<place, panicked>>
    PROVE  SettingsInv'
  <1>1. SettingsTypeOK'
    BY DEF Aside, SettingsInv, SettingsTypeOK, InTransaction
  <1>2. OnePublishes'
    BY DEF Aside, SettingsInv, OnePublishes
  <1>3. InForce' /\ WorkSeesSaved'
    BY DEF Aside, SettingsInv, InForce, WorkSeesSaved
  <1>4. ASSUME NEW t \in Saves PROVE SoundSave(t)'
    <2>1. CASE t = s
      BY <2>1 DEF Aside, SettingsInv, SoundSave, InTransaction
    <2>2. CASE t # s
      BY <2>2 DEF Aside, SettingsInv, SoundSave, Gated
    <2> QED BY <2>1, <2>2
  <1> QED BY <1>1, <1>2, <1>3, <1>4 DEF SettingsInv

LEMMA InitHolds == SettingsInit => SettingsInv
  <1> SUFFICES ASSUME SettingsInit PROVE SettingsInv
    OBVIOUS
  <1> DEFINE first == [step |-> "none", base |-> Initially, gen |-> NoPlan,
                       live |-> FALSE, outcome |-> "none"]
  <1>1. first \in Save /\ first.step = "none" /\ first.outcome = "none"
    BY DEF Save, Steps, Contents, Outcomes
  <1>2. save = [s \in Saves |-> first]
    BY DEF SettingsInit
  <1> HIDE DEF first
  <1>3. save \in [Saves -> Save] /\ \A s \in Saves : save[s].step = "none" /\ save[s].outcome = "none"
    BY <1>1, <1>2
  <1>4. control \in Controls /\ control.kind # "ready"
    BY DEF SettingsInit, Controls, Disabled, Required
  <1>5. SettingsTypeOK
    <2>1. file \in Contents /\ memory \in Contents /\ mine \in Contents
      BY DEF SettingsInit, Contents
    <2>2. flock \in Saves \union Others \union {NoOne} /\ flock \notin Saves
      BY SettingsAssumption DEF SettingsInit, Contents
    <2>3. opened \in 0..MaxControl /\ alive \subseteq Gens /\ landed \subseteq Saves
      BY SettingsAssumption DEF SettingsInit
    <2>4. /\ gate \in [Saves -> GateStates]
          /\ hook \in [Saves -> {"none", "running", "known", "unknown"}]
      BY DEF SettingsInit, GateStates
    <2> QED BY <1>3, <1>4, <2>1, <2>2, <2>3, <2>4 DEF SettingsInit, SettingsTypeOK
  <1>6. OnePublishes /\ InForce /\ WorkSeesSaved
    BY <1>3, <1>4 DEF SettingsInit, OnePublishes, InForce, WorkSeesSaved, InTransaction
  <1>7. \A s \in Saves : SoundSave(s)
    BY <1>3 DEF SettingsInit, SoundSave, InTransaction
  <1> QED BY <1>5, <1>6, <1>7 DEF SettingsInv

LEMMA ControlFacts ==
    ASSUME control \in Controls
    PROVE  /\ control.gen \in Gens \union {NoPlan}
           /\ control.kind \in {"disabled", "required", "ready"}
           /\ control # Required /\ control # Disabled =>
                control.gen \in Gens /\ control = Ready(control.gen)
           /\ control = Disabled => control.gen = NoPlan
  BY DEF Controls, Disabled, Required, Ready

LEMMA OpenPanelKeeps ==
    ASSUME SettingsInv, NEW s \in Saves, OpenPanel(s) PROVE SettingsInv'
  <1>1. /\ save' \in [Saves -> Save]
        /\ \A t \in Saves : t # s => save'[t] = save[t]
        /\ save'[s].step = "draft" /\ save[s].step = "none"
        /\ save'[s].outcome = save[s].outcome
    <2> DEFINE d == [save[s] EXCEPT !.step = "draft", !.base = file]
    <2>1. save \in [Saves -> Save] /\ file \in Contents
      BY DEF SettingsInv, SettingsTypeOK
    <2>2. d \in Save /\ d.step = "draft" /\ d.outcome = save[s].outcome
      BY <2>1 DEF Save, Steps
    <2>3. save' = [save EXCEPT ![s] = d]
      BY <2>1 DEF OpenPanel, Save
    <2> HIDE DEF d
    <2> QED BY <2>1, <2>2, <2>3 DEF OpenPanel, At
  <1>2. Aside(s)
    BY <1>1
      DEF OpenPanel, Aside, transition, InTransaction, Unpublished, SettingsInv, SoundSave
  <1> QED BY <1>2, AsideKeeps DEF OpenPanel, transition, SettingsInv, SettingsTypeOK

LEMMA StartSaveKeeps ==
    ASSUME SettingsInv, NEW s \in Saves, StartSave(s) PROVE SettingsInv'
  <1>1. /\ save' \in [Saves -> Save]
        /\ \A t \in Saves : t # s => save'[t] = save[t]
        /\ save'[s].step \in {"candidate", "inspecting"} /\ save[s].step = "draft"
        /\ save'[s].outcome = save[s].outcome
    BY ControlFacts DEF StartSave, At, SettingsInv, SettingsTypeOK, Save, Steps
  <1>2. Aside(s)
    BY <1>1
      DEF StartSave, Aside, transition, InTransaction, Unpublished, SettingsInv, SoundSave
  <1> QED BY <1>2, AsideKeeps DEF StartSave, transition, SettingsInv, SettingsTypeOK

LEMMA InspectKeeps ==
    ASSUME SettingsInv, NEW s \in Saves, Inspect(s) PROVE SettingsInv'
  <1>1. Aside(s)
    BY
      DEF Inspect, At, Aside, transition, InTransaction, Unpublished, SettingsInv, SettingsTypeOK,
          SoundSave
  <1> QED BY <1>1, AsideKeeps DEF Inspect, transition, SettingsInv, SettingsTypeOK, GateStates

LEMMA SettleGateKeeps ==
    ASSUME SettingsInv, NEW s \in Saves, SettleGate(s) PROVE SettingsInv'
  <1>1. save[s].step = "inspecting" /\ save \in [Saves -> Save]
    BY DEF SettleGate, At, SettingsInv, SettingsTypeOK
  <1>2. /\ save' \in [Saves -> Save]
        /\ \A t \in Saves : t # s => save'[t] = save[t]
        /\ save'[s].step \in {"candidate", "ended", "cleaned"}
        /\ save'[s].step = "candidate" => save'[s].outcome = save[s].outcome
    <2>1. CASE Goto(s, "candidate")
      BY <1>1, <2>1, GotoFacts DEF Steps
    <2>2. CASE Finish(s, "failed")
      BY <1>1, <2>2, FinishFacts DEF Outcomes
    <2> QED BY <2>1, <2>2 DEF SettleGate
  <1>3. gate' \in [Saves -> GateStates] /\ \A t \in Saves : t # s => gate'[t] = gate[t]
    BY DEF SettleGate, SettingsInv, SettingsTypeOK, GateStates
  <1>4. Aside(s)
    BY <1>1, <1>2, <1>3
      DEF SettleGate, Aside, transition, InTransaction, Unpublished, SettingsInv, SoundSave
  <1> QED BY <1>3, <1>4, AsideKeeps DEF SettleGate, transition, SettingsInv, SettingsTypeOK

LEMMA RefuseKeeps ==
    ASSUME SettingsInv, NEW s \in Saves, Refuse(s) PROVE SettingsInv'
  <1>1. save \in [Saves -> Save]
    BY DEF SettingsInv, SettingsTypeOK
  <1>2. /\ save' \in [Saves -> Save]
        /\ \A t \in Saves : t # s => save'[t] = save[t]
        /\ save'[s].step \in {"ended", "cleaned"}
    BY <1>1, FinishFacts DEF Refuse, Outcomes
  <1>3. Aside(s)
    BY <1>2 DEF Refuse, Aside, transition, InTransaction, Unpublished, SettingsInv, SoundSave
  <1> QED BY <1>3, AsideKeeps DEF Refuse, transition, SettingsInv, SettingsTypeOK

LEMMA SpawnWorkerKeeps ==
    ASSUME SettingsInv, NEW s \in Saves, SpawnWorker(s) PROVE SettingsInv'
  <1>1. save \in [Saves -> Save] /\ save[s].step = "candidate"
    BY DEF SettingsInv, SettingsTypeOK, SpawnWorker, At
  <1>2. /\ save' \in [Saves -> Save]
        /\ \A t \in Saves : t # s => save'[t] = save[t]
        /\ save'[s].step = "queued" /\ save'[s].outcome = save[s].outcome
    BY <1>1, GotoFacts DEF SpawnWorker, Steps
  <1>3. Aside(s)
    BY <1>1, <1>2
      DEF SpawnWorker, Aside, transition, InTransaction, Unpublished, SettingsInv, SoundSave
  <1> QED BY <1>3, AsideKeeps DEF SpawnWorker, transition, SettingsInv, SettingsTypeOK

LEMMA CleanUpKeeps ==
    ASSUME SettingsInv, NEW s \in Saves, CleanUp(s) PROVE SettingsInv'
  <1> DEFINE o == Over("cleaned", save[s].outcome)
  <1>1. save \in [Saves -> Save] /\ save[s].step = "ended" /\ save[s].outcome \in Outcomes
    BY DEF SettingsInv, SettingsTypeOK, CleanUp, At, Save
  <1>2. o \in Save /\ o.step = "cleaned" /\ o.outcome = save[s].outcome
    BY <1>1 DEF Over, Save, Steps, Contents
  <1>3. save' = [save EXCEPT ![s] = o]
    BY DEF CleanUp
  <1> HIDE DEF o
  <1>4. /\ gate' \in [Saves -> GateStates] /\ \A t \in Saves : t # s => gate'[t] = gate[t]
        /\ hook' \in [Saves -> {"none", "running", "known", "unknown"}]
        /\ held' \in BOOLEAN
    BY DEF CleanUp, SettingsInv, SettingsTypeOK, GateStates
  <1>5. Aside(s)
    BY <1>1, <1>2, <1>3, <1>4
      DEF CleanUp, Aside, transition, InTransaction, Unpublished, SettingsInv, SoundSave
  <1> QED BY <1>4, <1>5, AsideKeeps DEF CleanUp, transition, SettingsInv, SettingsTypeOK

LEMMA HookEndsKeeps ==
    ASSUME SettingsInv, NEW s \in Saves, HookEnds(s) PROVE SettingsInv'
  <1>1. /\ hook' \in [Saves -> {"none", "running", "known", "unknown"}]
        /\ held' \in BOOLEAN
        /\ UNCHANGED <<file, flock, memory, uncertain, control, alive, opened, place,
                       save, gate, panicked, mine, landed>>
    BY DEF HookEnds, transition, SettingsInv, SettingsTypeOK
  <1>2. SettingsTypeOK'
    BY <1>1 DEF SettingsInv, SettingsTypeOK
  <1> QED BY <1>1, <1>2
            DEF SettingsInv, OnePublishes, InForce, WorkSeesSaved, SoundSave, Gated

\* Attempts are withdrawn: nothing else of a save changes.
LEMMA WithdrawnKeeps ==
    ASSUME SettingsInv, save' \in [Saves -> Save],
           \A s \in Saves : /\ save'[s].step = save[s].step
                            /\ save'[s].base = save[s].base
                            /\ save'[s].gen = save[s].gen
                            /\ save'[s].outcome = save[s].outcome,
           place' \in {"steady", "revoked", "draining", "quiet", "stopping", "switching"},
           UNCHANGED <<file, flock, memory, uncertain, control, alive, opened, held,
                       gate, hook, panicked, mine, landed>>
    PROVE  SettingsInv'
  <1>1. SettingsTypeOK'
    BY DEF SettingsInv, SettingsTypeOK
  <1>2. OnePublishes' /\ InForce' /\ WorkSeesSaved'
    BY DEF SettingsInv, OnePublishes, InForce, WorkSeesSaved
  <1>3. ASSUME NEW s \in Saves PROVE SoundSave(s)'
    BY DEF SettingsInv, SoundSave, Gated
  <1> QED BY <1>1, <1>2, <1>3 DEF SettingsInv

LEMMA WithdrawalsKeep ==
    ASSUME SettingsInv,
           \/ \E s \in Saves : CancelSave(s)
           \/ CancelControls("revoked", "draining") \/ CancelControls("steady", "stopping")
    PROVE  SettingsInv'
  <1>1. save \in [Saves -> Save]
    BY DEF SettingsInv, SettingsTypeOK
  <1>2. CASE \E s \in Saves : CancelSave(s)
    <2>1. /\ save' \in [Saves -> Save]
          /\ \A t \in Saves : /\ save'[t].step = save[t].step
                              /\ save'[t].base = save[t].base
                              /\ save'[t].gen = save[t].gen
                              /\ save'[t].outcome = save[t].outcome
      <3>1. PICK s \in Saves : save' = [save EXCEPT ![s].live = FALSE]
        BY <1>2 DEF CancelSave
      <3> QED BY <1>1, <3>1 DEF Save
    <2> QED BY <1>2, <2>1, WithdrawnKeeps
              DEF CancelSave, transition, SettingsInv, SettingsTypeOK
  <1>3. ASSUME NEW p, NEW q \in {"draining", "stopping"}, CancelControls(p, q) PROVE SettingsInv'
    <2> DEFINE w(t) == [save[t] EXCEPT !.live = @ /\ gate[t] = "none"]
    <2>1. \A t \in Saves : /\ w(t) \in Save /\ w(t).step = save[t].step
                           /\ w(t).base = save[t].base /\ w(t).gen = save[t].gen
                           /\ w(t).outcome = save[t].outcome
      BY <1>1 DEF Save
    <2>2. save' = [t \in Saves |-> w(t)]
      BY <1>3 DEF CancelControls
    <2> HIDE DEF w
    <2> QED BY <1>3, <2>1, <2>2, WithdrawnKeeps DEF CancelControls
  <1> QED BY <1>2, <1>3

-----------------------------------------------------------------------------
(* The worker: the other saves are out of the transaction.                 *)

LEMMA WorkerAlone ==
    ASSUME SettingsInv, NEW s \in Saves, save' \in [Saves -> Save],
           \A t \in Saves : t # s => save'[t] = save[t] /\ gate'[t] = gate[t],
           save[s].step \in InTransaction \/ ~TransactionHeld,
           landed' \subseteq landed \union {s}
    PROVE  /\ OnePublishes'
           /\ \A t \in Saves : t # s => /\ SoundSave(t)'
                                        /\ save[t].step \notin InTransaction
  <1>1. \A t \in Saves : t # s => save[t].step \notin InTransaction
    BY DEF SettingsInv, OnePublishes, TransactionHeld
  <1>2. OnePublishes'
    BY <1>1 DEF OnePublishes
  <1>3. ASSUME NEW t \in Saves, t # s PROVE SoundSave(t)'
    BY <1>1, <1>3 DEF SettingsInv, SoundSave, InTransaction
  <1> QED BY <1>1, <1>2, <1>3

\* It gives up, or panics: the file lock is released.
LEMMA WorkerEnds ==
    ASSUME SettingsInv, NEW s \in Saves, NEW how \in Outcomes, Finish(s, how),
           save[s].step \in InTransaction \union {"queued"},
           save[s].step = "queued" => ~TransactionHeld /\ uncertain' = uncertain
                                      /\ flock' = flock,
           save[s].step # "queued" => flock' = IF flock = s THEN NoOne ELSE flock,
           how = "failed" => s \notin landed,
           uncertain' \in BOOLEAN, panicked' \in BOOLEAN,
           uncertain' \/ memory = mine,
           gate' \in [Saves -> GateStates],
           \A t \in Saves : t # s => gate'[t] = gate[t],
           UNCHANGED <<file, memory, transition, held, hook, mine, landed>>
    PROVE  SettingsInv'
  <1>1. save \in [Saves -> Save]
    BY DEF SettingsInv, SettingsTypeOK
  <1>2. /\ save' \in [Saves -> Save]
        /\ \A t \in Saves : t # s => save'[t] = save[t]
        /\ save'[s].step \in {"ended", "cleaned"} /\ save'[s].outcome = how
    BY <1>1, FinishFacts
  <1>3. /\ OnePublishes'
        /\ \A t \in Saves : t # s => SoundSave(t)' /\ save[t].step \notin InTransaction
    <2>1. save[s].step \in InTransaction \/ ~TransactionHeld
      OBVIOUS
    <2> QED BY <1>2, <2>1, WorkerAlone
  <1>4. SoundSave(s)'
    BY <1>2 DEF SoundSave, InTransaction, Unpublished
  <1>5. flock' \in Others \union {NoOne}
    <2>1. flock \in Saves => flock = s /\ save[s].step \in InTransaction
      BY <1>3 DEF SettingsInv, SettingsTypeOK, InTransaction
    <2>2. flock \in Saves \union Others \union {NoOne}
      BY DEF SettingsInv, SettingsTypeOK
    <2>3. CASE save[s].step = "queued"
      BY <2>1, <2>2, <2>3 DEF InTransaction
    <2> QED BY <2>1, <2>2, <2>3
  <1>6. flock' \notin Saves
    BY <1>5, SettingsAssumption DEF Contents
  <1>7. SettingsTypeOK'
    BY <1>2, <1>5, <1>6 DEF SettingsInv, SettingsTypeOK, transition
  <1>8. InForce' /\ WorkSeesSaved'
    BY DEF SettingsInv, InForce, WorkSeesSaved, transition
  <1> QED BY <1>3, <1>4, <1>7, <1>8 DEF SettingsInv

\* It gives up while the session's copy is what was saved last.
LEMMA GiveUpKeeps ==
    ASSUME SettingsInv, NEW s \in Saves, GiveUp(s),
           save[s].step \in {"entered", "admitted", "controlled", "locked"},
           UNCHANGED <<file, memory, transition, held, gate, hook, panicked, mine, landed>>
    PROVE  SettingsInv'
  <1>1. /\ save[s].step \in InTransaction /\ save[s].step # "queued"
        /\ s \notin landed /\ memory = mine
    BY DEF InTransaction, SettingsInv, SoundSave, Unpublished
  <1>2. "failed" \in Outcomes
    BY DEF Outcomes
  <1> QED BY <1>1, <1>2, WorkerEnds DEF GiveUp, SettingsInv, SettingsTypeOK

\* It takes its next lock.
LEMMA WorkerStepKeeps ==
    ASSUME SettingsInv, NEW s \in Saves, NEW step \in {"entered", "admitted", "controlled", "locked"},
           Goto(s, step),
           \/ save[s].step = "queued" /\ ~TransactionHeld /\ ~uncertain
           \/ /\ save[s].step \in {"entered", "admitted", "controlled"} /\ uncertain
              /\ save[s].step = "controlled" => step = "locked",
           uncertain' = TRUE,
           step = "locked" => flock' = s /\ file = save[s].base
                              /\ save[s].step = "controlled",
           step # "locked" => flock' = flock,
           step = "controlled" => control = IF Gated(s) THEN Ready(save[s].gen) ELSE Disabled,
           step = "controlled" /\ Gated(s) => save[s].step = "admitted",
           step = "admitted" => gate[s] = "cleared",
           UNCHANGED <<file, memory, transition, held, gate, hook, panicked, mine, landed>>
    PROVE  SettingsInv'
  <1>1. save \in [Saves -> Save] /\ step \in Steps
    BY DEF SettingsInv, SettingsTypeOK, Steps
  <1>2. /\ save' \in [Saves -> Save]
        /\ \A t \in Saves : t # s => save'[t] = save[t]
        /\ save'[s].step = step
        /\ save'[s].base = save[s].base /\ save'[s].gen = save[s].gen
        /\ save'[s].outcome = save[s].outcome
    BY <1>1, GotoFacts
  <1>3. /\ OnePublishes'
        /\ \A t \in Saves : t # s => SoundSave(t)' /\ save[t].step \notin InTransaction
    <2>1. save[s].step \in InTransaction \/ ~TransactionHeld
      BY DEF InTransaction
    <2> QED BY <1>2, <2>1, WorkerAlone
  <1>4. s \notin landed /\ memory = mine
    BY DEF SettingsInv, SoundSave, Unpublished, WorkSeesSaved
  <1>5. SoundSave(s)'
    BY <1>2, <1>4 DEF SettingsInv, SoundSave, InTransaction, Unpublished, Gated, transition
  <1>6. flock' \in Saves => save'[flock'].step \in {"locked", "renamed"}
    <2>1. flock \in Saves => flock # s
      BY DEF SettingsInv, SettingsTypeOK
    <2> QED BY <1>2, <2>1 DEF SettingsInv, SettingsTypeOK
  <1>7. SettingsTypeOK'
    BY <1>2, <1>6 DEF SettingsInv, SettingsTypeOK, transition
  <1>8. InForce' /\ WorkSeesSaved'
    BY DEF SettingsInv, InForce, WorkSeesSaved, transition
  <1> QED BY <1>3, <1>5, <1>7, <1>8 DEF SettingsInv

LEMMA EnterKeeps ==
    ASSUME SettingsInv, NEW s \in Saves, Enter(s) PROVE SettingsInv'
  <1>1. CASE save[s].live /\ ~uncertain
    BY <1>1, WorkerStepKeeps DEF Enter, At
  <1>2. CASE ~(save[s].live /\ ~uncertain)
    <2>1. save[s].step = "queued" /\ s \notin landed /\ "failed" \in Outcomes
      BY DEF Enter, At, SettingsInv, SoundSave, Unpublished, Outcomes
    <2>2. uncertain' \/ memory = mine
      BY <1>2 DEF Enter, SettingsInv, WorkSeesSaved
    <2> QED BY <1>2, <2>1, <2>2, WorkerEnds DEF Enter, SettingsInv, SettingsTypeOK
  <1> QED BY <1>1, <1>2

LEMMA AdmitKeeps ==
    ASSUME SettingsInv, NEW s \in Saves, Admit(s) PROVE SettingsInv'
  <1>1. uncertain = TRUE /\ save[s].step = "entered"
    BY DEF Admit, At, SettingsInv, SettingsTypeOK, SoundSave, InTransaction
  <1>2. CASE GiveUp(s)
    BY <1>1, <1>2, GiveUpKeeps DEF Admit
  <1>3. CASE gate[s] = "cleared" /\ Goto(s, "admitted") /\ UNCHANGED <<flock, uncertain>>
    BY <1>1, <1>3, WorkerStepKeeps DEF Admit
  <1> QED BY <1>2, <1>3 DEF Admit

LEMMA CheckControlKeeps ==
    ASSUME SettingsInv, NEW s \in Saves, CheckControl(s) PROVE SettingsInv'
  <1>1. /\ uncertain = TRUE
        /\ Gated(s) => save[s].step = "admitted"
        /\ ~Gated(s) => save[s].step = "entered"
    BY DEF CheckControl, At, SettingsInv, SettingsTypeOK, SoundSave, InTransaction
  <1>2. CASE GiveUp(s)
    BY <1>1, <1>2, GiveUpKeeps DEF CheckControl
  <1>3. CASE /\ control = IF Gated(s) THEN Ready(save[s].gen) ELSE Disabled
             /\ Goto(s, "controlled") /\ UNCHANGED <<flock, uncertain>>
    BY <1>1, <1>3, WorkerStepKeeps DEF CheckControl
  <1> QED BY <1>2, <1>3 DEF CheckControl

LEMMA LockFileKeeps ==
    ASSUME SettingsInv, NEW s \in Saves, LockFile(s) PROVE SettingsInv'
  <1>1. uncertain = TRUE /\ save[s].step = "controlled"
    BY DEF LockFile, At, SettingsInv, SettingsTypeOK, SoundSave, InTransaction
  <1>2. CASE GiveUp(s)
    BY <1>1, <1>2, GiveUpKeeps DEF LockFile
  <1>3. CASE /\ file = save[s].base
             /\ flock' = s /\ Goto(s, "locked") /\ UNCHANGED uncertain
    BY <1>1, <1>3, WorkerStepKeeps DEF LockFile
  <1> QED BY <1>2, <1>3 DEF LockFile

LEMMA RenameKeeps ==
    ASSUME SettingsInv, NEW s \in Saves, Rename(s) PROVE SettingsInv'
  <1>1. /\ save[s].step = "locked" /\ save[s].step \in InTransaction
        /\ uncertain = TRUE /\ flock = s /\ save \in [Saves -> Save]
        /\ save[s].outcome = "none"
    BY DEF Rename, At, SettingsInv, SettingsTypeOK, SoundSave, InTransaction, Unpublished
  <1>2. CASE GiveUp(s) /\ UNCHANGED <<file, mine, landed>>
    BY <1>1, <1>2, GiveUpKeeps DEF Rename
  <1>3. CASE /\ file' = s /\ mine' = s /\ landed' = landed \union {s}
             /\ Goto(s, "renamed") /\ UNCHANGED <<flock, uncertain>>
    <2>1. /\ save' \in [Saves -> Save]
          /\ \A t \in Saves : t # s => save'[t] = save[t]
          /\ save'[s].step = "renamed" /\ save'[s].outcome = save[s].outcome
      BY <1>1, <1>3, GotoFacts DEF Steps
    <2>2. /\ OnePublishes'
          /\ \A t \in Saves : t # s => SoundSave(t)' /\ save[t].step \notin InTransaction
      BY <1>1, <1>3, <2>1, WorkerAlone DEF Rename
    <2>3. SoundSave(s)'
      BY <1>1, <1>3, <2>1 DEF SoundSave, InTransaction, Unpublished
    <2>4. SettingsTypeOK'
      BY <1>1, <1>3, <2>1 DEF Rename, SettingsInv, SettingsTypeOK, transition, Contents
    <2>5. InForce' /\ WorkSeesSaved'
      BY <1>1, <1>3 DEF Rename, SettingsInv, InForce, WorkSeesSaved, transition
    <2> QED BY <2>2, <2>3, <2>4, <2>5 DEF SettingsInv
  <1> QED BY <1>2, <1>3 DEF Rename

LEMMA SyncDirectoryKeeps ==
    ASSUME SettingsInv, NEW s \in Saves, SyncDirectory(s) PROVE SettingsInv'
  <1>1. /\ save[s].step = "renamed" /\ save[s].step \in InTransaction
        /\ uncertain = TRUE /\ flock = s /\ mine = s /\ save \in [Saves -> Save]
        /\ save[s].outcome = "none"
    BY DEF SyncDirectory, At, SettingsInv, SettingsTypeOK, SoundSave, InTransaction
  <1>2. PICK how \in {"applied", "appliedUncertain"} :
          /\ save' = [save EXCEPT ![s].step = "synced", ![s].outcome = how]
          /\ memory' \in Contents
          /\ how = "applied" => memory' = s
    BY DEF SyncDirectory, SettingsInv, SettingsTypeOK, Contents
  <1>3. /\ save' \in [Saves -> Save]
        /\ \A t \in Saves : t # s => save'[t] = save[t]
        /\ save'[s].step = "synced" /\ save'[s].outcome = how
    <2> DEFINE d == [save[s] EXCEPT !.step = "synced", !.outcome = how]
    <2>1. d \in Save /\ d.step = "synced" /\ d.outcome = how
      BY <1>1 DEF Save, Steps, Outcomes
    <2>2. save' = [save EXCEPT ![s] = d]
      BY <1>1, <1>2 DEF Save
    <2> HIDE DEF d
    <2> QED BY <1>1, <2>1, <2>2
  <1>4. /\ OnePublishes'
        /\ \A t \in Saves : t # s => SoundSave(t)' /\ save[t].step \notin InTransaction
    BY <1>1, <1>3, WorkerAlone DEF SyncDirectory
  <1>5. SoundSave(s)'
    BY <1>1, <1>2, <1>3 DEF SyncDirectory, SoundSave, InTransaction, Unpublished
  <1>6. flock' = NoOne /\ NoOne \notin Saves
    BY <1>1, SettingsAssumption DEF SyncDirectory, Contents
  <1>7. SettingsTypeOK'
    BY <1>2, <1>3, <1>6 DEF SyncDirectory, SettingsInv, SettingsTypeOK, transition
  <1>8. InForce' /\ WorkSeesSaved'
    BY <1>1 DEF SyncDirectory, SettingsInv, InForce, WorkSeesSaved, transition
  <1> QED BY <1>4, <1>5, <1>7, <1>8 DEF SettingsInv

LEMMA FinishPublicationKeeps ==
    ASSUME SettingsInv, NEW s \in Saves, FinishPublication(s) PROVE SettingsInv'
  <1>1. /\ save[s].step = "synced" /\ save[s].step \in InTransaction
        /\ save[s].outcome \in {"applied", "appliedUncertain"}
        /\ save[s].outcome = "applied" => memory = mine
        /\ flock # s /\ save \in [Saves -> Save]
    BY DEF FinishPublication, At, SettingsInv, SettingsTypeOK, SoundSave, InTransaction
  <1>2. PICK how \in {"applied", "appliedUncertain"} :
          Finish(s, how) /\ how \in {save[s].outcome, "appliedUncertain"}
    BY <1>1 DEF FinishPublication
  <1>3. save'[s].outcome = how /\ how \in Outcomes
    BY <1>1, <1>2, FinishFacts DEF Outcomes
  <1>4. uncertain' \in BOOLEAN /\ (uncertain' \/ memory = mine)
    BY <1>1, <1>2, <1>3 DEF FinishPublication
  <1>5. gate' \in [Saves -> GateStates] /\ \A t \in Saves : t # s => gate'[t] = gate[t]
    BY DEF FinishPublication, SettingsInv, SettingsTypeOK, GateStates
  <1>6. UNCHANGED <<file, flock, memory, transition, held, hook, panicked, mine, landed>>
    BY DEF FinishPublication
  <1>7. flock' = IF flock = s THEN NoOne ELSE flock
    BY <1>1, <1>6
  <1>8. save[s].step # "queued" /\ how # "failed" /\ panicked' \in BOOLEAN
    BY <1>1, <1>6 DEF SettingsInv, SettingsTypeOK
  <1> QED BY <1>1, <1>2, <1>3, <1>4, <1>5, <1>6, <1>7, <1>8, WorkerEnds

LEMMA PanicKeeps ==
    ASSUME SettingsInv, NEW s \in Saves, Panic(s) PROVE SettingsInv'
  <1>1. /\ save[s].step \in InTransaction /\ save[s].step # "queued" /\ uncertain = TRUE
    BY DEF Panic, SettingsInv, SettingsTypeOK, SoundSave, InTransaction
  <1>2. PICK how \in Outcomes : Finish(s, how) /\ (how = "failed" => save[s].step \in Unpublished)
    <2> DEFINE how == CASE save[s].step \in {"renamed", "synced"} ->
                             IF save[s].step = "synced" THEN "appliedUncertain"
                             ELSE "publicationUncertain"
                        [] save[s].step = "locked" -> "publicationUncertain"
                        [] OTHER                   -> "failed"
    <2>1. how \in Outcomes /\ (how = "failed" => save[s].step \in Unpublished)
      BY <1>1 DEF Outcomes, Unpublished, InTransaction
    <2>2. Finish(s, how)
      BY DEF Panic
    <2> HIDE DEF how
    <2> QED BY <2>1, <2>2
  <1>3. how = "failed" => s \notin landed
    BY <1>2 DEF SettingsInv, SoundSave
  <1>4. panicked' \in BOOLEAN
    BY DEF Panic, SettingsInv, SettingsTypeOK
  <1> QED BY <1>1, <1>2, <1>3, <1>4, WorkerEnds DEF Panic, SettingsInv, SettingsTypeOK

-----------------------------------------------------------------------------
(* The controls, other processes, and a restart.                           *)

LEMMA ControlKeeps ==
    ASSUME SettingsInv, ~ControlHeld, control' \in Controls, alive' \in SUBSET Gens,
           opened' \in 0..MaxControl, InForce',
           place' \in {"steady", "revoked", "draining", "quiet", "stopping", "switching"},
           UNCHANGED <<file, flock, memory, uncertain, held, save, gate, hook,
                       panicked, mine, landed>>
    PROVE  SettingsInv'
  <1>1. SettingsTypeOK'
    BY DEF SettingsInv, SettingsTypeOK
  <1>2. OnePublishes' /\ WorkSeesSaved'
    BY DEF SettingsInv, OnePublishes, WorkSeesSaved
  <1>3. ASSUME NEW s \in Saves PROVE SoundSave(s)'
    BY DEF SettingsInv, SoundSave, Gated, ControlHeld
  <1> QED BY <1>1, <1>2, <1>3 DEF SettingsInv

LEMMA ControlsKeep ==
    ASSUME SettingsInv, Revoke \/ RequireControl \/ Activate PROVE SettingsInv'
  <1>1. /\ Required \in Controls /\ Required.kind = "required"
        /\ Disabled \in Controls /\ Disabled.kind = "disabled"
    BY DEF Required, Disabled, Controls
  <1>2. CASE Revoke \/ RequireControl
    <2>1. InForce'
      BY <1>1, <1>2 DEF Revoke, RequireControl, InForce
    <2> QED BY <1>1, <1>2, <2>1, ControlKeeps
              DEF Revoke, RequireControl, SettingsInv, SettingsTypeOK
  <1>3. CASE Activate
    <2>1. CASE control' = Disabled /\ UNCHANGED <<alive, opened>>
      <3>1. InForce'
        BY <1>1, <2>1 DEF InForce
      <3> QED BY <1>1, <1>3, <2>1, <3>1, ControlKeeps
                DEF Activate, SettingsInv, SettingsTypeOK
    <2>2. CASE /\ opened < MaxControl
               /\ opened' = opened + 1
               /\ alive' = (alive \ {control.gen}) \union {opened + 1}
               /\ control' = Ready(opened + 1)
      <3>1. opened + 1 \in Gens /\ opened' \in 0..MaxControl
        BY <2>2, SettingsAssumption DEF SettingsInv, SettingsTypeOK, Gens
      <3>2. control' \in Controls /\ control'.gen = opened + 1
        BY <2>2, <3>1 DEF Controls, Ready
      <3>3. InForce' /\ alive' \in SUBSET Gens
        BY <2>2, <3>1, <3>2 DEF InForce, SettingsInv, SettingsTypeOK
      <3> QED BY <1>3, <2>2, <3>1, <3>2, <3>3, ControlKeeps DEF Activate
    <2> QED BY <1>3, <2>1, <2>2 DEF Activate
  <1> QED BY <1>2, <1>3

LEMMA QuiescedKeeps ==
    ASSUME SettingsInv, Quiesced PROVE SettingsInv'
  <1>1. SettingsTypeOK'
    BY DEF Quiesced, SettingsInv, SettingsTypeOK
  <1> QED BY <1>1
            DEF Quiesced, SettingsInv, OnePublishes, InForce, WorkSeesSaved, SoundSave, Gated

LEMMA ReconcileKeeps ==
    ASSUME SettingsInv, Reconcile PROVE SettingsInv'
  <1>1. SettingsTypeOK'
    BY DEF Reconcile, transition, SettingsInv, SettingsTypeOK, GateStates
  <1>2. \A s \in Saves : gate[s] = "cleared" => gate'[s] = "cleared"
    BY DEF Reconcile, SettingsInv, SettingsTypeOK, GateStates
  <1>3. OnePublishes' /\ InForce' /\ WorkSeesSaved'
    BY DEF Reconcile, transition, SettingsInv, OnePublishes, InForce, WorkSeesSaved
  <1>4. ASSUME NEW s \in Saves PROVE SoundSave(s)'
    BY <1>2 DEF Reconcile, transition, SettingsInv, SoundSave, Gated
  <1> QED BY <1>1, <1>3, <1>4 DEF SettingsInv

\* The file is under the lock of the save that relies on it.
LEMMA OthersKeep ==
    ASSUME SettingsInv, NEW o \in Others, OtherLocks(o) \/ OtherWrites(o) \/ OtherUnlocks(o)
    PROVE  SettingsInv'
  <1>1. o \in Contents /\ o \notin Saves /\ NoOne \notin Saves /\ o # NoOne
    BY SettingsAssumption DEF Contents
  <1>2. \A s \in Saves : save[s].step \notin {"locked", "renamed"}
    BY <1>1 DEF OtherLocks, OtherWrites, OtherUnlocks, SettingsInv, SoundSave
  <1>3. flock' \in {o, NoOne} /\ file' \in {file, o}
        /\ UNCHANGED <<memory, uncertain, transition, held, save, gate, hook, panicked,
                       mine, landed>>
    BY DEF OtherLocks, OtherWrites, OtherUnlocks
  <1>4. SettingsTypeOK'
    BY <1>1, <1>3 DEF SettingsInv, SettingsTypeOK, transition
  <1>5. OnePublishes' /\ InForce' /\ WorkSeesSaved'
    BY <1>3 DEF SettingsInv, OnePublishes, InForce, WorkSeesSaved, transition
  <1>6. ASSUME NEW s \in Saves PROVE SoundSave(s)'
    BY <1>2, <1>3 DEF SettingsInv, SoundSave, Gated, transition
  <1> QED BY <1>4, <1>5, <1>6 DEF SettingsInv

LEMMA RestartKeeps ==
    ASSUME SettingsInv, Restart PROVE SettingsInv'
  <1> DEFINE o(s) == Over("cleaned", save[s].outcome)
  <1>1. save \in [Saves -> Save] /\ \A s \in Saves : save[s].outcome \in Outcomes
    BY DEF SettingsInv, SettingsTypeOK, Save
  <1>2. \A s \in Saves : /\ o(s) \in Save /\ o(s).step = "cleaned"
                         /\ o(s).outcome = save[s].outcome
    BY <1>1 DEF Over, Save, Steps, Contents
  <1>3. save' = [s \in Saves |-> IF At(s, "none") THEN save[s] ELSE o(s)]
    BY DEF Restart
  <1> HIDE DEF o
  <1>4. /\ save' \in [Saves -> Save]
        /\ \A s \in Saves : /\ save'[s].step \in {"none", "cleaned"}
                            /\ save'[s].step = "none" => save[s].step = "none"
                            /\ save'[s].outcome = save[s].outcome
    BY <1>1, <1>2, <1>3 DEF At
  <1>5. control' \in Controls /\ control'.kind # "ready"
    BY DEF Restart, Controls, Disabled, Required
  <1>6. flock' \in Others \union {NoOne} /\ flock' \notin Saves
    BY SettingsAssumption DEF Restart, SettingsInv, SettingsTypeOK, Contents
  <1>7. SettingsTypeOK'
    BY <1>4, <1>5, <1>6 DEF Restart, SettingsInv, SettingsTypeOK
  <1>8. OnePublishes' /\ InForce' /\ WorkSeesSaved'
    BY <1>4, <1>5 DEF Restart, OnePublishes, InForce, WorkSeesSaved, InTransaction
  <1>9. ASSUME NEW s \in Saves PROVE SoundSave(s)'
    BY <1>4 DEF Restart, SettingsInv, SoundSave, InTransaction, Unpublished
  <1> QED BY <1>7, <1>8, <1>9 DEF SettingsInv

LEMMA SettingsInductive == SettingsInv /\ [SettingsNext]_settingsVars => SettingsInv'
  <1> SUFFICES ASSUME SettingsInv, [SettingsNext]_settingsVars PROVE SettingsInv'
    OBVIOUS
  <1>1. ASSUME NEW s \in Saves, OpenPanel(s) \/ CancelSave(s) \/ SaveSteps(s) \/ Panic(s)
        PROVE  SettingsInv'
    <2>1. CASE OpenPanel(s) \/ CancelSave(s) \/ Panic(s)
      BY <2>1, OpenPanelKeeps, WithdrawalsKeep, PanicKeeps
    <2>2. CASE StartSave(s) \/ Inspect(s) \/ HookEnds(s) \/ SettleGate(s) \/ Refuse(s)
               \/ SpawnWorker(s) \/ CleanUp(s)
      BY <2>2, StartSaveKeeps, InspectKeeps, HookEndsKeeps, SettleGateKeeps,
            RefuseKeeps,
         SpawnWorkerKeeps, CleanUpKeeps
    <2>3. CASE Enter(s) \/ Admit(s) \/ CheckControl(s) \/ LockFile(s) \/ Rename(s)
               \/ SyncDirectory(s) \/ FinishPublication(s)
      BY <2>3, EnterKeeps, AdmitKeeps, CheckControlKeeps, LockFileKeeps,
            RenameKeeps,
         SyncDirectoryKeeps, FinishPublicationKeeps
    <2> QED BY <1>1, <2>1, <2>2, <2>3 DEF SaveSteps
  <1>2. CASE \/ Revoke \/ CancelControls("revoked", "draining") \/ Quiesced
             \/ CancelControls("steady", "stopping") \/ RequireControl \/ Activate
             \/ Reconcile
    BY <1>2, ControlsKeep, WithdrawalsKeep, QuiescedKeeps, ReconcileKeeps
  <1>3. CASE \E o \in Others : OtherLocks(o) \/ OtherWrites(o) \/ OtherUnlocks(o)
    BY <1>3, OthersKeep
  <1>4. CASE Restart
    BY <1>4, RestartKeeps
  <1>5. CASE UNCHANGED settingsVars
    <2>1. UNCHANGED <<file, flock, memory, uncertain, control, alive, opened, place, held,
                      save, gate, hook, panicked, mine, landed>>
      BY <1>5 DEF settingsVars, transition
    <2>2. SettingsTypeOK'
      BY <2>1 DEF SettingsInv, SettingsTypeOK
    <2> QED BY <2>1, <2>2
              DEF SettingsInv, OnePublishes, InForce, WorkSeesSaved, SoundSave, Gated
  <1> QED BY <1>1, <1>2, <1>3, <1>4, <1>5 DEF SettingsNext

LEMMA SettingsInvariance == SettingsSpec => []SettingsInv
  <1> QED BY InitHolds, SettingsInductive, PTL DEF SettingsSpec

-----------------------------------------------------------------------------
\* The types; and the settings lock belongs to the worker that is using it.
THEOREM SettingsTypeCorrect == SettingsSpec => []SettingsTypeOK
  <1>1. SettingsInv => SettingsTypeOK
    BY DEF SettingsInv
  <1> QED BY <1>1, SettingsInvariance, PTL

\* Unless a publication is in doubt, which refuses new work, the settings that work
\* runs on are those the session last put in the file or loaded: for any number of
\* saves, wherever a worker stops or panics.
THEOREM WorkSeesSavedHolds == SettingsSpec => []WorkSeesSaved
  <1>1. SettingsInv => WorkSeesSaved
    BY DEF SettingsInv
  <1> QED BY <1>1, SettingsInvariance, PTL

\* A save that is reported as failed never reached the file.
THEOREM FailureIsUnpublished == SettingsSpec => []FailureMeansUnpublished
  <1>1. SettingsInv => FailureMeansUnpublished
    BY DEF SettingsInv, SoundSave, FailureMeansUnpublished
  <1> QED BY <1>1, SettingsInvariance, PTL

\* Only a worker's rename changes the file on behalf of a save.
LEMMA PublishingStep ==
    ASSUME SettingsInv, [SettingsNext]_settingsVars, NEW s \in Saves,
           (file' = s /\ file # s) \/ (s \in landed' /\ s \notin landed)
    PROVE  Rename(s) /\ save[s].step = "locked"
  <1>1. \A o \in Others : o # s
    BY SettingsAssumption
  <1>2. ASSUME NEW t \in Saves, Rename(t) PROVE t = s
    BY <1>2 DEF Rename
  <1>3. CASE \E t \in Saves : OpenPanel(t) \/ CancelSave(t) \/ Panic(t)
    BY <1>3 DEF OpenPanel, CancelSave, Panic
  <1>4. CASE \E t \in Saves : \/ StartSave(t) \/ Inspect(t) \/ HookEnds(t) \/ SettleGate(t)
                              \/ Refuse(t) \/ SpawnWorker(t) \/ CleanUp(t)
    BY <1>4
      DEF StartSave, Inspect, HookEnds, SettleGate, Refuse, SpawnWorker,
          CleanUp
  <1>5. CASE \E t \in Saves : \/ Enter(t) \/ Admit(t) \/ CheckControl(t) \/ LockFile(t)
                              \/ SyncDirectory(t) \/ FinishPublication(t)
    BY <1>5
      DEF Enter, Admit, CheckControl, LockFile, SyncDirectory,
          FinishPublication
  <1>6. CASE \/ Revoke \/ CancelControls("revoked", "draining") \/ Quiesced
             \/ CancelControls("steady", "stopping") \/ RequireControl \/ Activate
             \/ Reconcile \/ Restart \/ UNCHANGED settingsVars
    BY <1>6
      DEF Revoke, CancelControls, Quiesced, RequireControl, Activate,
          Reconcile,
                Restart, settingsVars
  <1>7. CASE \E o \in Others : OtherLocks(o) \/ OtherWrites(o) \/ OtherUnlocks(o)
    BY <1>1, <1>7 DEF OtherLocks, OtherWrites, OtherUnlocks
  <1>8. CASE \E t \in Saves : Rename(t)
    BY <1>2, <1>8 DEF Rename, At
  <1> QED BY <1>3, <1>4, <1>5, <1>6, <1>7, <1>8 DEF SettingsNext, SaveSteps

\* Whatever other processes write between the opening of the panel and the worker's
\* rename: a save replaces only the content its draft was made from.
THEOREM NoSettingsLost == SettingsSpec => NoLostSettings
  <1>1. SettingsInv /\ [SettingsNext]_settingsVars =>
          [\A s \in Saves : file' = s /\ file # s => file = save[s].base]_settingsVars
    <2> SUFFICES ASSUME SettingsInv, [SettingsNext]_settingsVars, NEW s \in Saves, file' = s, file # s
                 PROVE  file = save[s].base
      OBVIOUS
    <2>1. save[s].step = "locked"
      BY PublishingStep
    <2> QED BY <2>1 DEF SettingsInv, SoundSave
  <1> QED BY <1>1, SettingsInvariance, PTL DEF SettingsSpec, NoLostSettings

\* A publication happens under the control that inspected it, still current and in
\* force, with its receipt cleared; or under no policy.
THEOREM PublicationInspected == SettingsSpec => InspectedPublication
  <1>1. SettingsInv /\ [SettingsNext]_settingsVars =>
          [\A s \in Saves : landed' # landed /\ s \in landed' \ landed =>
             IF Gated(s) THEN /\ control = Ready(save[s].gen) /\ save[s].gen \in alive
                              /\ gate[s] = "cleared"
             ELSE control = Disabled]_settingsVars
    <2> SUFFICES ASSUME SettingsInv, [SettingsNext]_settingsVars, NEW s \in Saves, s \in landed', s \notin landed
                 PROVE  IF Gated(s) THEN /\ control = Ready(save[s].gen)
                                         /\ save[s].gen \in alive /\ gate[s] = "cleared"
                        ELSE control = Disabled
      OBVIOUS
    <2>1. save[s].step = "locked"
      BY PublishingStep
    <2>2. Ready(save[s].gen).kind = "ready" /\ Ready(save[s].gen).gen = save[s].gen
      BY DEF Ready
    <2> QED BY <2>1, <2>2 DEF SettingsInv, SoundSave, InForce
  <1> QED BY <1>1, SettingsInvariance, PTL DEF SettingsSpec, InspectedPublication

-----------------------------------------------------------------------------
(* LanguageServices.                                                       *)

Entry == [text : Texts, stamp : Nat]
Project == [Files -> Entry]
Told == [path : Files, text : Texts, version : Nat]
Doc == [text : Texts, version : Nat, report : SUBSET Texts, reported : Nat]
Docs == UNION {[paths -> Doc] : paths \in SUBSET Files}
Server == [up : {TRUE}, pull : BOOLEAN, inputs : Project, docs : Docs, pipe : Seq(Told),
           told : SUBSET Told, next : Nat, reports : Nat]
Locked == {"refreshing", "admitted", "taken", "synchronized", "rechecking"}
Answered == {"rechecking", "released", "returned"}
Query == [step : Locked \union Answered \union {"waiting"}, path : Files, text : Texts,
          fresh : BOOLEAN, items : SUBSET Texts, inputs : Project \union {NoView}]
LockSteps == {"free", "check", "walk", "validate", "admitted", "held"}
Lock == [by : {Nobody, "query", "observer"}, step : LockSteps, at : Files, scan : Seq(Entry)]

TypeOK ==
    /\ disk \in Project
    /\ unseen \in BOOLEAN /\ changes \in BOOLEAN /\ wake \in BOOLEAN
    /\ view \in Project \union {NoView}
    /\ server \in Server \union {NoServer} /\ nextVersion \in Nat \ {0}
    /\ lock \in Lock
    /\ observer \in {"off", "starting", "waiting", "awake", "refreshing"}
    /\ started \in BOOLEAN
    /\ query \in Query \union {Idle}
    /\ seen \subseteq Project
    /\ edits \in 0..MaxEdits /\ queries \in 0..MaxQueries

\* The lock is held by a query, by the observer, or by nobody.
Exclusive ==
    /\ lock.by = "query" <=> query.step \in Locked
    /\ lock.by = "observer" <=> observer = "refreshing"
    /\ lock.by = Nobody <=> lock.step = "free"
    /\ query.step \in Locked \ {"refreshing"} <=> lock.step = "held"

\* How far the holder is with its refresh.
Placed ==
    /\ lock.step = "walk" => Len(lock.scan) = lock.at - 1
    /\ lock.step \in {"validate", "admitted", "held"} => Len(lock.scan) = NumFiles
    /\ lock.step \in {"free", "check"} => lock.scan = NoView
    /\ lock.step = "check" => view # NoView
    /\ query.step \in {"admitted", "taken", "synchronized"} => lock.at = 1
    /\ lock.step = "held" => view # NoView

\* The server that is up runs on the admitted view.
Served ==
    /\ server.up => server.inputs = view
    /\ query.step \in {"taken", "synchronized", "rechecking"} => server.up
    /\ query.step = "rechecking" => query.inputs = view

\* What was copied is what the project is, or has been: the stamp tells.
Before(e, f) == e.stamp <= f.stamp /\ (e.stamp = f.stamp => e = f)
Copied ==
    /\ view # NoView => \A x \in Files : Before(view[x], disk[x])
    /\ \A x \in DOMAIN lock.scan : Before(lock.scan[x], disk[x])

\* Some state of the project since the answer has the inputs that were checked.
Witnessed ==
    /\ query.step \in Answered => disk \in seen
    /\ query.step = "rechecking" =>
        \E then \in seen :
            /\ \A x \in Files : Before(view[x], then[x]) /\ Before(then[x], disk[x])
            /\ \A x \in Files : x < lock.at => then[x] = view[x]
    /\ query.step \in {"released", "returned"} => query.inputs \in seen
    /\ query.step = "returned" => \E then \in seen : then[query.path].text = query.text

\* A version is of one text; a report with it is of that text.
Reports ==
    server.up =>
        /\ server.next # 0
        /\ \A m \in server.told : m.version # 0 /\ m.version < server.next
        /\ \A m, n \in server.told : m.version = n.version => m = n
        /\ \A i \in DOMAIN server.pipe :
             server.pipe[i].version # 0 => server.pipe[i] \in server.told
        /\ \A x \in DOMAIN server.docs :
             LET doc == server.docs[x]
             IN  /\ [path |-> x, text |-> doc.text, version |-> doc.version] \in server.told
                 /\ doc.reported = doc.version => doc.report \subseteq {doc.text}
Synchronized ==
    /\ query.step = "synchronized" =>
        query.path \in DOMAIN server.docs /\ Document.text = query.text
    /\ query.step \in Answered /\ query.fresh => query.items = {query.text}

Sound == Exclusive /\ Placed /\ Served /\ Copied /\ Witnessed /\ Reports /\ Synchronized
IInv == TypeOK /\ Sound
-----------------------------------------------------------------------------
USE LanguageServicesAssumption

(* What the records are once they are known to be in use.                  *)
LEMMA Known ==
    ASSUME TypeOK
    PROVE  /\ query.step # "idle" => query \in Query
           /\ server.up => server \in Server
           /\ ~server.up => server = NoServer
           /\ view # NoView => view \in Project
<1>1. query.step # "idle" => query \in Query
  <2>1. query \in Query \/ query = Idle
    BY DEF TypeOK
  <2>2. Idle.step = "idle"
    BY DEF Idle
  <2>3. QED
    BY <2>1, <2>2
<1>2. /\ server.up => server \in Server
      /\ ~server.up => server = NoServer
  <2>1. server \in Server \/ server = NoServer
    BY DEF TypeOK
  <2>2. ~NoServer.up
    BY DEF NoServer
  <2>3. ASSUME server \in Server PROVE server.up
    BY <2>3 DEF Server
  <2>4. QED
    BY <2>1, <2>2, <2>3
<1>3. view # NoView => view \in Project
  BY DEF TypeOK
<1>4. QED
  BY <1>1, <1>2, <1>3

LEMMA Moves ==
    ASSUME NEW q \in Query, NEW s \in Locked \union Answered \union {"waiting"}
    PROVE  /\ [q EXCEPT !.step = s] \in Query
           /\ [q EXCEPT !.step = s].step = s
           /\ [q EXCEPT !.step = s].path = q.path
           /\ [q EXCEPT !.step = s].text = q.text
           /\ [q EXCEPT !.step = s].fresh = q.fresh
           /\ [q EXCEPT !.step = s].items = q.items
           /\ [q EXCEPT !.step = s].inputs = q.inputs
BY DEF Query

LEMMA VersionType ==
    ASSUME TypeOK
    PROVE  Version(server) \in Nat \ {0}
<1>1. nextVersion \in Nat \ {0}
  BY DEF TypeOK
<1>2. CASE server.up
  <2>1. server.next \in Nat
    BY <1>2, Known DEF Server
  <2>2. QED
    BY <1>1, <2>1 DEF Version
<1>3. CASE ~server.up
  BY <1>1, <1>3 DEF Version
<1>4. QED
  BY <1>2, <1>3

LEMMA LockMoves ==
    ASSUME NEW l \in Lock, NEW s \in LockSteps
    PROVE  LET m == [l EXCEPT !.step = s, !.at = 1]
           IN  /\ m \in Lock
               /\ m.step = s /\ m.at = 1 /\ m.by = l.by /\ m.scan = l.scan
<1>1. 1 \in Files
  BY DEF Files, LanguageServicesAssumption
<1>2. QED
  BY <1>1 DEF Lock

LEMMA LockAdvances ==
    ASSUME NEW l \in Lock, l.at # NumFiles
    PROVE  LET m == [l EXCEPT !.at = @ + 1]
           IN  /\ m \in Lock
               /\ m.step = l.step /\ m.at = l.at + 1 /\ m.by = l.by /\ m.scan = l.scan
<1>1. l.at \in Files /\ l.at + 1 \in Files
  BY DEF Lock, Files, LanguageServicesAssumption
<1>2. QED
  BY <1>1 DEF Lock

LEMMA FreeLock == Free \in Lock /\ Free.by = Nobody /\ Free.step = "free" /\ Free.scan = NoView
<1>1. 1 \in Files
  BY DEF Files, LanguageServicesAssumption
<1>2. <<>> \in Seq(Entry)
  OBVIOUS
<1>3. QED
  BY <1>1, <1>2 DEF Free, Lock, LockSteps, NoView

(* A copied project, and how the lock's holder moves on.                   *)
LEMMA CopiedProject ==
    ASSUME TypeOK, Len(lock.scan) = NumFiles
    PROVE  lock.scan \in Project
BY DEF TypeOK, Lock, Project, Files, LanguageServicesAssumption

LEMMA AdvanceLock ==
    ASSUME TypeOK, NEW s \in LockSteps, Advance(s)
    PROVE  /\ lock' \in Lock
           /\ lock'.by = lock.by /\ lock'.scan = lock.scan
           /\ lock.at = NumFiles => lock'.step = s /\ lock'.at = 1
           /\ lock.at # NumFiles => lock'.step = lock.step /\ lock'.at = lock.at + 1
<1>1. lock \in Lock
  BY DEF TypeOK
<1>2. CASE lock.at = NumFiles
  <2>1. lock' = [lock EXCEPT !.step = s, !.at = 1]
    BY <1>2 DEF Advance, Step
  <2>2. QED
    BY <1>1, <1>2, <2>1, LockMoves
<1>3. CASE lock.at # NumFiles
  <2>1. lock' = [lock EXCEPT !.at = @ + 1]
    BY <1>3 DEF Advance
  <2>2. QED
    BY <1>1, <1>3, <2>1, LockAdvances
<1>4. QED
  BY <1>2, <1>3

LEMMA CopyLock ==
    ASSUME TypeOK, CopyFile
    PROVE  /\ lock' \in Lock
           /\ lock'.by = lock.by /\ lock'.scan = Append(lock.scan, disk[lock.at])
           /\ lock.at = NumFiles => lock'.step = "validate" /\ lock'.at = 1
           /\ lock.at # NumFiles => lock'.step = "walk" /\ lock'.at = lock.at + 1
<1> DEFINE copied == Append(lock.scan, disk[lock.at])
<1>1. lock \in Lock /\ disk[lock.at] \in Entry
  BY DEF TypeOK, Lock, Project
<1>2. copied \in Seq(Entry)
  BY <1>1 DEF Lock
<1>3. lock.step = "walk" /\ lock' = IF lock.at = NumFiles
                   THEN [lock EXCEPT !.scan = copied, !.step = "validate", !.at = 1]
                   ELSE [lock EXCEPT !.scan = copied, !.at = @ + 1]
  BY DEF CopyFile
<1> HIDE DEF copied
<1>4. CASE lock.at = NumFiles
  <2>1. [lock EXCEPT !.scan = copied] \in Lock
    BY <1>1, <1>2 DEF Lock
  <2>2. lock' = [[lock EXCEPT !.scan = copied] EXCEPT !.step = "validate", !.at = 1]
    BY <1>3, <1>4
  <2>3. lock' \in Lock /\ lock'.step = "validate" /\ lock'.at = 1
    BY <2>1, <2>2, LockMoves DEF LockSteps
  <2>4. lock'.by = lock.by /\ lock'.scan = copied
    BY <1>1, <2>2 DEF Lock
  <2>5. QED
    BY <1>3, <1>4, <2>3, <2>4 DEF copied
<1>5. CASE lock.at # NumFiles
  <2>1. lock' = [lock EXCEPT !.scan = copied, !.at = @ + 1] /\ lock.at + 1 \in Files
    BY <1>1, <1>3, <1>5 DEF Lock, Files, LanguageServicesAssumption
  <2>2. QED
    BY <1>1, <1>2, <1>3, <1>5, <2>1 DEF Lock, copied
<1>6. QED
  BY <1>4, <1>5

LEMMA StopTypes ==
    ASSUME TypeOK, StopServer
    PROVE  server' = NoServer /\ nextVersion' \in Nat \ {0}
BY VersionType DEF StopServer

LEMMA BeginTypes ==
    ASSUME TypeOK, NEW who \in {"query", "observer"}, BeginRefresh(who)
    PROVE  /\ lock' \in Lock
           /\ lock'.by = who /\ lock'.at = 1 /\ lock'.scan = NoView
           /\ lock'.step = IF view = NoView THEN "walk" ELSE "check"
           /\ server' \in Server \union {NoServer} /\ nextVersion' \in Nat \ {0}
           /\ server' = server \/ server' = NoServer
<1>1. 1 \in Files /\ <<>> \in Seq(Entry)
  BY DEF Files, LanguageServicesAssumption
<1>2. lock' = [by |-> who, step |-> IF view = NoView THEN "walk" ELSE "check",
                at |-> 1, scan |-> NoView]
  BY DEF BeginRefresh
<1>3. /\ server' \in Server \union {NoServer} /\ nextVersion' \in Nat \ {0}
      /\ server' = server \/ server' = NoServer
  BY StopTypes DEF TypeOK, BeginRefresh, KeepServer
<1>4. QED
  BY <1>1, <1>2, <1>3 DEF Lock, LockSteps, NoView

(* The documents of a server.                                              *)
LEMMA NoDocs == <<>> \in Docs /\ <<>> \in Seq(Told)
<1>1. <<>> = [x \in {} |-> 0]
  OBVIOUS
<1>2. [x \in {} |-> 0] \in [{} -> Doc]
  OBVIOUS
<1>3. [{} -> Doc] \in {[paths -> Doc] : paths \in SUBSET Files}
  OBVIOUS
<1>4. [x \in {} |-> 0] \in Docs
  BY <1>2, <1>3 DEF Docs
<1>5. <<>> \in Seq(Told)
  OBVIOUS
<1>6. QED
  BY <1>1, <1>4, <1>5

LEMMA DocsDef ==
    ASSUME NEW d
    PROVE  d \in Docs <=> \E paths \in SUBSET Files : d \in [paths -> Doc]
BY DEF Docs

\* The document and what the server is told of it, when synchronize sends one.
NewDoc == [text |-> query.text, version |-> server.next, report |-> {}, reported |-> 0]
NewTold == [path |-> query.path, text |-> query.text, version |-> server.next]
NewDocs == [x \in DOMAIN server.docs \union {query.path} |->
              IF x = query.path THEN NewDoc ELSE server.docs[x]]
Kept == query.path \in DOMAIN server.docs /\ Document.text = query.text

LEMMA SyncTypes ==
    ASSUME IInv, Synchronize
    PROVE  /\ server' \in Server
           /\ Kept => server' = server
           /\ ~Kept => /\ server'.docs = NewDocs /\ server'.told = server.told \union {NewTold}
                       /\ server'.next = server.next + 1
           /\ server'.inputs = server.inputs /\ server'.pipe = server.pipe
<1>1. query \in Query /\ server \in Server
  BY Known DEF IInv, Sound, Synchronize, Served
<1>2. CASE Kept
  BY <1>1, <1>2 DEF Synchronize, Kept
<1>3. CASE ~Kept
  <2>1. server' = [server EXCEPT !.docs = NewDocs, !.next = @ + 1, !.told = @ \union {NewTold}]
    BY <1>3 DEF Synchronize, Kept, NewDocs, NewDoc, NewTold
  <2>2. NewTold \in Told /\ NewDoc \in Doc
    BY <1>1 DEF NewTold, Told, Query, Server, NewDoc, Doc
  <2>3. NewDocs \in Docs
    <3>1. PICK paths \in SUBSET Files : server.docs \in [paths -> Doc]
      BY <1>1, DocsDef DEF Server
    <3>2. NewDocs \in [paths \union {query.path} -> Doc]
      BY <2>2, <3>1 DEF NewDocs
    <3>3. paths \union {query.path} \in SUBSET Files
      BY <1>1, <3>1 DEF Query
    <3>4. QED
      BY <3>2, <3>3, DocsDef
  <2>4. server.told \union {NewTold} \in SUBSET Told /\ server.next + 1 \in Nat
    BY <1>1, <2>2 DEF Server
  <2>5. server' \in Server
    BY <1>1, <2>1, <2>3, <2>4 DEF Server
  <2>6. /\ server'.docs = NewDocs /\ server'.told = server.told \union {NewTold}
        /\ server'.next = server.next + 1
        /\ server'.inputs = server.inputs /\ server'.pipe = server.pipe
    BY <1>1, <2>1 DEF Server
  <2>7. QED
    BY <1>3, <2>5, <2>6
<1>4. QED
  BY <1>2, <1>3

Message == Head(server.pipe)
ReadDoc == [server.docs[Message.path] EXCEPT !.report = {Message.text},
                                             !.reported = Message.version]
ReadDocs == IF Concerns(Message) THEN [server.docs EXCEPT ![Message.path] = ReadDoc]
            ELSE server.docs
LEMMA ReadTypes ==
    ASSUME IInv, ReadReport
    PROVE  /\ server' \in Server
           /\ server' = [server EXCEPT !.docs = ReadDocs, !.pipe = Tail(@)]
<1>1. server \in Server
  BY Known DEF IInv, Sound, ReadReport, Served
<1>2. Message \in Told /\ Tail(server.pipe) \in Seq(Told)
  BY <1>1 DEF ReadReport, Server, Message
<1>3. server' = [server EXCEPT !.docs = ReadDocs, !.pipe = Tail(@)]
  BY DEF ReadReport, Message, ReadDocs, ReadDoc
<1>4. ReadDocs \in Docs
  <2>1. PICK paths \in SUBSET Files : server.docs \in [paths -> Doc]
    BY <1>1, DocsDef DEF Server
  <2>2. Concerns(Message) => ReadDoc \in Doc
    <3>1. SUFFICES ASSUME Concerns(Message) PROVE ReadDoc \in Doc
      OBVIOUS
    <3>2. server.docs[Message.path] \in Doc
      BY <2>1, <3>1 DEF Concerns
    <3>3. {Message.text} \in SUBSET Texts /\ Message.version \in Nat
      BY <1>2 DEF Told
    <3>4. QED
      BY <3>2, <3>3 DEF ReadDoc, Doc
  <2>3. ReadDocs \in [paths -> Doc]
    BY <2>1, <2>2 DEF ReadDocs, Concerns
  <2>4. QED
    BY <2>1, <2>3, DocsDef
<1>5. QED
  BY <1>1, <1>2, <1>3, <1>4 DEF Server

Pulled == IF server.pull THEN {Document.text} ELSE {}
LEMMA RespondTypes ==
    ASSUME IInv, Respond
    PROVE  /\ query' \in Query
           /\ query'.step = "rechecking" /\ query'.inputs = server.inputs
           /\ query'.path = query.path /\ query'.text = query.text
           /\ query'.items = Pulled \union Document.report /\ query'.items # {}
           /\ query'.fresh = Current
<1>1. query \in Query /\ server \in Server /\ query.path \in DOMAIN server.docs
  BY Known DEF IInv, Sound, Respond, Served, Synchronized
<1>2. Document \in Doc
  <2>1. PICK paths \in SUBSET Files : server.docs \in [paths -> Doc]
    BY <1>1, DocsDef DEF Server
  <2>2. QED
    BY <1>1, <2>1 DEF Document
<1> DEFINE items == Pulled \union Document.report
           fresh == Current
<1>3. items \in SUBSET Texts /\ fresh \in BOOLEAN
  BY <1>2 DEF Pulled, Current, Doc
<1>4. /\ query' = [query EXCEPT !.step = "rechecking", !.items = items,
                          !.fresh = fresh, !.inputs = server.inputs]
      /\ items # {}
  BY DEF Respond, Pulled
<1> HIDE DEF items, fresh
<1>5. server.inputs \in Project
  BY <1>1 DEF Server
<1>6. QED
  <2>1. "rechecking" \in Locked
    BY DEF Locked
  <2>2. QED
    BY <1>1, <1>3, <1>4, <1>5, <2>1 DEF Query, items, fresh

LEMMA TypesInitially == Init => TypeOK
<1> SUFFICES ASSUME Init PROVE TypeOK
  OBVIOUS
<1>1. disk \in Project
  BY DEF Init, Project, Entry, Texts
<1>2. 0 \in 0..MaxEdits /\ 0 \in 0..MaxQueries
  BY DEF LanguageServicesAssumption
<1>3. lock \in Lock /\ server = NoServer /\ view = NoView /\ query = Idle
  BY FreeLock DEF Init
<1>4. nextVersion \in Nat \ {0} /\ seen \subseteq Project
  BY DEF Init
<1>5. QED
  BY <1>1, <1>2, <1>3, <1>4 DEF Init, TypeOK

LEMMA TypesInductive == IInv /\ Next => TypeOK'
<1> SUFFICES ASSUME IInv, Next PROVE TypeOK'
  OBVIOUS
<1> USE DEF IInv, Sound
<1>edit. CASE Edit
  <2>1. PICK x \in Files, t \in Texts :
          disk' = [disk EXCEPT ![x] = [text |-> t, stamp |-> @.stamp + 1]]
    BY <1>edit DEF Edit
  <2>2. disk' \in Project
    BY <2>1 DEF TypeOK, Project, Entry
  <2>3. seen' \subseteq Project
    BY <1>edit, <2>2 DEF Edit, TypeOK
  <2>4. edits' \in 0..MaxEdits /\ unseen' \in BOOLEAN
    BY <1>edit DEF Edit, TypeOK, LanguageServicesAssumption
  <2>5. QED
    BY <1>edit, <2>2, <2>3, <2>4 DEF Edit, TypeOK, asked
<1>ask. CASE Ask
  <2>1. query' \in Query
    BY <1>ask DEF Ask, TypeOK, Query, Project, Entry
  <2>2. queries' \in 0..MaxQueries
    BY <1>ask DEF Ask, TypeOK, LanguageServicesAssumption
  <2>3. QED
    BY <1>ask, <2>1, <2>2 DEF Ask, TypeOK, project, events
<1>publish. CASE Publish
  <2>1. server \in Server
    BY <1>publish, Known DEF Publish
  <2>2. PICK told \in server.told, versioned \in BOOLEAN :
          server' = [server EXCEPT !.reports = @ + 1,
                     !.pipe = Append(@, [told EXCEPT !.version = IF versioned THEN @ ELSE 0])]
    BY <1>publish DEF Publish
  <2>3. [told EXCEPT !.version = IF versioned THEN @ ELSE 0] \in Told
    BY <2>1, <2>2 DEF Server, Told
  <2>4. server.reports + 1 \in Nat
    BY <2>1 DEF Server
  <2>5. Append(server.pipe, [told EXCEPT !.version = IF versioned THEN @ ELSE 0]) \in Seq(Told)
    BY <2>1, <2>3 DEF Server
  <2>6. server' \in Server
    BY <2>1, <2>2, <2>4, <2>5 DEF Server
  <2>7. QED
    BY <1>publish, <2>6 DEF Publish, TypeOK, project, events, asked
<1>check. CASE CheckInput
  <2>1. lock \in Lock
    BY DEF TypeOK
  <2>2. /\ lock' \in Lock
        /\ server' \in Server \union {NoServer} /\ nextVersion' \in Nat \ {0}
    <3>1. CASE Unchanged(lock.at, view)
      BY <1>check, <3>1, AdvanceLock DEF CheckInput, KeepServer, TypeOK, LockSteps
    <3>2. CASE ~Unchanged(lock.at, view)
      <4>1. lock' = [lock EXCEPT !.step = "walk", !.at = 1]
        BY <1>check, <3>2 DEF CheckInput, Step
      <4>2. QED
        BY <1>check, <2>1, <3>2, <4>1, LockMoves, StopTypes DEF CheckInput, LockSteps
    <3>3. QED
      BY <3>1, <3>2
  <2>3. QED
    BY <1>check, <2>2 DEF CheckInput, TypeOK, project, events, asked
<1>copy. CASE CopyFile
  BY <1>copy, CopyLock DEF CopyFile, TypeOK, project, events, asked
<1>validate. CASE ValidateFile
  BY <1>validate, AdvanceLock DEF ValidateFile, TypeOK, LockSteps, project, events, asked
<1>fails. CASE AdmissionFails
  <2>1. query' \in Query \union {Idle} /\ view' \in Project \union {NoView}
    BY <1>fails DEF AdmissionFails, Released, TypeOK
  <2>2. observer' \in {"off", "starting", "waiting", "awake", "refreshing"}
    BY <1>fails DEF AdmissionFails, Released, TypeOK
  <2>3. QED
    BY <1>fails, <2>1, <2>2, FreeLock, StopTypes
       DEF AdmissionFails, TypeOK, project, events, asked
<1>install. CASE Install
  <2>1. view' \in Project \union {NoView}
    BY <1>install, CopiedProject DEF Install, TypeOK, Placed
  <2>2. server' \in Server \union {NoServer} /\ nextVersion' \in Nat \ {0}
    BY <1>install, StopTypes DEF Install, KeepServer, TypeOK
  <2>3. CASE lock.by = "query"
    <3>1. lock' = [lock EXCEPT !.step = "held", !.at = 1] /\ lock \in Lock
      BY <1>install, <2>3 DEF Install, TypeOK
    <3>2. lock' \in Lock
      BY <3>1, LockMoves DEF LockSteps
    <3>3. query' \in Query \union {Idle}
      BY <1>install, <2>3, Known, Moves DEF Install, Exclusive, Locked
    <3>4. QED
      BY <1>install, <2>1, <2>2, <2>3, <3>2, <3>3 DEF Install, TypeOK, project, events, asked
  <2>4. CASE lock.by # "query"
    BY <1>install, <2>1, <2>2, <2>4, FreeLock
       DEF Install, Released, TypeOK, project, events, asked
  <2>5. QED
    BY <2>3, <2>4
<1>watch. CASE Watch
  BY <1>watch DEF Watch, TypeOK, project, events, asked
<1>notice. CASE Notice
  BY <1>notice DEF Notice, TypeOK, project, asked
<1>debounce. CASE Debounce
  BY <1>debounce DEF Debounce, TypeOK, project, asked
<1>observer. CASE ObserverLocks
  BY <1>observer, BeginTypes DEF ObserverLocks, BeginRefresh, TypeOK, project
<1>rests. CASE ObserverRests
  BY <1>rests DEF ObserverRests, TypeOK, project, events, asked
<1>query. CASE QueryLocks
  <2>1. query' \in Query
    BY <1>query, Known, Moves DEF QueryLocks, Locked
  <2>2. QED
    BY <1>query, <2>1, BeginTypes DEF QueryLocks, BeginRefresh, TypeOK, project
<1>take. CASE TakeServer
  <2>1. query' \in Query
    BY <1>take, Known, Moves DEF TakeServer, Locked
  <2>2. server' \in Server \union {NoServer}
    <3>1. CASE server.up
      BY <1>take, <3>1 DEF TakeServer, TypeOK
    <3>2. CASE ~server.up
      <4>1. view \in Project
        BY <1>take, Known DEF TakeServer, Exclusive, Placed, Locked
      <4>2. nextVersion \in Nat
        BY DEF TypeOK
      <4>3. <<>> \in Docs /\ <<>> \in Seq(Told)
        BY NoDocs
      <4>4. PICK pull \in BOOLEAN :
            server' = [up |-> TRUE, pull |-> pull, inputs |-> view, docs |-> <<>>,
                       pipe |-> <<>>, told |-> {}, next |-> nextVersion, reports |-> 0]
        BY <1>take, <3>2 DEF TakeServer
      <4>5. QED
        BY <4>1, <4>2, <4>3, <4>4 DEF Server
    <3>3. QED
      BY <3>1, <3>2
  <2>3. QED
    BY <1>take, <2>1, <2>2 DEF TakeServer, TypeOK, project, events, asked
<1>synchronize. CASE Synchronize
  <2>1. query' \in Query
    BY <1>synchronize, Known, Moves DEF Synchronize, Locked
  <2>2. server' \in Server \union {NoServer}
    BY <1>synchronize, SyncTypes DEF TypeOK
  <2>3. QED
    BY <1>synchronize, <2>1, <2>2 DEF Synchronize, TypeOK, project, events, asked
<1>read. CASE ReadReport
  <2>1. server' \in Server \union {NoServer}
    BY <1>read, ReadTypes
  <2>2. QED
    BY <1>read, <2>1 DEF ReadReport, TypeOK, project, events, asked
<1>respond. CASE Respond
  <2>1. query' \in Query
    BY <1>respond, RespondTypes
  <2>2. QED
    BY <1>respond, <2>1 DEF Respond, TypeOK, project, events, asked
<1>pending. CASE Pending
  BY <1>pending, VersionType, FreeLock DEF Pending, TypeOK, project, events, asked
<1>recheck. CASE RecheckInput
  <2>1. CASE ~Unchanged(lock.at, view)
    BY <1>recheck, <2>1, FreeLock, StopTypes DEF RecheckInput, TypeOK, project, events, asked
  <2>2. CASE Unchanged(lock.at, view) /\ lock.at < NumFiles
    BY <1>recheck, <2>2, AdvanceLock
       DEF RecheckInput, TypeOK, project, events, asked, LockSteps
  <2>3. CASE Unchanged(lock.at, view) /\ ~(lock.at < NumFiles)
    <3>1. query' \in Query
      BY <1>recheck, <2>3, Known, Moves DEF RecheckInput, Answered
    <3>2. QED
      BY <1>recheck, <2>3, <3>1, FreeLock, VersionType
         DEF RecheckInput, TypeOK, project, events, asked
  <2>4. QED
    BY <2>1, <2>2, <2>3
<1>return. CASE Return
  <2>1. query' \in Query \union {Idle}
    BY <1>return, Known, Moves DEF Return, Answered
  <2>2. QED
    BY <1>return, <2>1 DEF Return, TypeOK, project, events, asked
<1>drop. CASE DropQuery
  BY <1>drop, FreeLock DEF DropQuery, TypeOK, project, events, asked
<1>q. QED
  BY <1>edit, <1>ask, <1>publish, <1>check, <1>copy, <1>validate, <1>fails, <1>install,
     <1>watch, <1>notice, <1>debounce, <1>observer, <1>rests, <1>query, <1>take,
     <1>synchronize, <1>read, <1>respond, <1>pending, <1>recheck, <1>return, <1>drop
     DEF Next, Refreshing, Observing, Querying

-----------------------------------------------------------------------------
(* The lock, and how far its holder is.                                    *)
\* What an action leaves of the lock, if it is not one of the lock's.
LEMMA CheckLock ==
    ASSUME TypeOK, CheckInput
    PROVE  /\ lock' \in Lock /\ lock'.by = lock.by /\ lock'.scan = lock.scan
           /\ lock'.step \in {"check", "walk"} /\ (lock'.step = "walk" => lock'.at = 1)
<1>1. lock \in Lock /\ lock.step = "check"
  BY DEF TypeOK, CheckInput
<1>2. CASE Unchanged(lock.at, view)
  <2>1. Advance("walk")
    BY <1>2 DEF CheckInput
  <2>2. QED
    BY <1>1, <2>1, AdvanceLock DEF LockSteps
<1>3. CASE ~Unchanged(lock.at, view)
  <2>1. lock' = [lock EXCEPT !.step = "walk", !.at = 1]
    BY <1>3 DEF CheckInput, Step
  <2>2. QED
    BY <1>1, <2>1, LockMoves DEF LockSteps
<1>4. QED
  BY <1>2, <1>3

LEMMA ValidateLock ==
    ASSUME TypeOK, ValidateFile
    PROVE  /\ lock' \in Lock /\ lock'.by = lock.by /\ lock'.scan = lock.scan
           /\ lock.step = "validate" /\ lock'.step \in {"validate", "admitted"}
<1>1. Advance("admitted") /\ lock.step = "validate"
  BY DEF ValidateFile
<1>2. QED
  BY <1>1, AdvanceLock DEF LockSteps

LEMMA InstallLock ==
    ASSUME IInv, Install
    PROVE  /\ lock.step = "admitted" /\ view' = lock.scan /\ lock.scan \in Project
           /\ lock.scan # NoView
           /\ lock.by = "query" =>
                /\ lock' \in Lock /\ lock'.by = "query" /\ lock'.step = "held"
                /\ lock'.at = 1 /\ lock'.scan = lock.scan
                /\ query \in Query /\ query' = [query EXCEPT !.step = "admitted"]
                /\ query' \in Query /\ query'.step = "admitted" /\ observer' = observer
           /\ lock.by # "query" => lock' = Free /\ observer' = "waiting" /\ query' = query
<1>1. lock \in Lock /\ lock.step = "admitted" /\ view' = lock.scan /\ Len(lock.scan) = NumFiles
  BY DEF IInv, Sound, TypeOK, Placed, Install
<1>2. lock.scan \in Project /\ lock.scan # NoView
  BY <1>1, CopiedProject DEF IInv, NoView, LanguageServicesAssumption
<1>3. CASE lock.by = "query"
  <2>1. lock' = [lock EXCEPT !.step = "held", !.at = 1] /\ observer' = observer
        /\ query' = [query EXCEPT !.step = "admitted"]
    BY <1>3 DEF Install
  <2>2. query \in Query
    BY <1>3, Known DEF IInv, Sound, Exclusive, Locked
  <2>3. "admitted" \in Locked /\ "held" \in LockSteps
    BY DEF Locked, LockSteps
  <2>4. QED
    BY <1>1, <1>2, <1>3, <2>1, <2>2, <2>3, LockMoves, Moves
<1>4. CASE lock.by # "query"
  BY <1>1, <1>2, <1>4 DEF Install, Released
<1>5. QED
  BY <1>3, <1>4

LEMMA RecheckEffect ==
    ASSUME IInv, RecheckInput
    PROVE  \/ lock' = Free /\ query' = Idle /\ server' = NoServer
           \/ /\ lock.at < NumFiles /\ Unchanged(lock.at, view)
              /\ lock' \in Lock /\ lock'.by = lock.by /\ lock'.scan = lock.scan
              /\ lock'.step = lock.step /\ lock'.at = lock.at + 1
              /\ query' = query /\ server' = server
           \/ /\ lock.at = NumFiles /\ Unchanged(lock.at, view)
              /\ lock' = Free /\ query' = [query EXCEPT !.step = "released"]
              /\ server' = server
<1>1. lock.at \in 1..NumFiles
  BY DEF IInv, TypeOK, Lock, Files
<1>2. CASE ~Unchanged(lock.at, view)
  BY <1>2 DEF RecheckInput, StopServer
<1>3. CASE Unchanged(lock.at, view) /\ lock.at < NumFiles
  <2>1. Advance("held") /\ query' = query /\ server' = server
    BY <1>3 DEF RecheckInput
  <2>2. lock.at # NumFiles
    BY <1>1, <1>3, LanguageServicesAssumption
  <2>3. QED
    BY <1>3, <2>1, <2>2, AdvanceLock DEF IInv, LockSteps
<1>4. CASE Unchanged(lock.at, view) /\ ~(lock.at < NumFiles)
  <2>1. lock.at = NumFiles
    BY <1>1, <1>4 DEF LanguageServicesAssumption
  <2>2. QED
    BY <1>4, <2>1 DEF RecheckInput
<1>5. QED
  BY <1>2, <1>3, <1>4

LEMMA LockInductive == IInv /\ Next => Exclusive' /\ Placed'
<1> SUFFICES ASSUME IInv, Next PROVE Exclusive' /\ Placed'
  OBVIOUS
<1>0. TypeOK /\ Exclusive /\ Placed /\ lock \in Lock /\ lock.at \in Files /\ Idle.step = "idle"
  BY DEF IInv, Sound, TypeOK, Lock, Idle
<1>1. query.step # "idle" => query \in Query
  BY <1>0, Known
<1> USE DEF Exclusive, Placed, Locked
<1>edit. CASE Edit
  BY <1>0, <1>edit DEF Edit, asked
<1>ask. CASE Ask
  <2>1. /\ query'.step = "waiting" /\ query.step \in {"idle", "returned"}
        /\ lock' = lock /\ view' = view
    BY <1>ask DEF Ask
  <2>2. observer' = "refreshing" <=> observer = "refreshing"
    BY <1>ask DEF Ask
  <2>3. QED
    BY <1>0, <2>1, <2>2
<1>publish. CASE Publish
  BY <1>0, <1>publish DEF Publish
<1>check. CASE CheckInput
  <2>1. lock.step = "check" /\ query' = query /\ observer' = observer /\ view' = view
    BY <1>check DEF CheckInput
  <2>2. QED
    BY <1>0, <1>check, <2>1, CheckLock DEF NoView
<1>copy. CASE CopyFile
  <2>1. lock.step = "walk" /\ query' = query /\ observer' = observer /\ view' = view
    BY <1>copy DEF CopyFile
  <2>2. Len(Append(lock.scan, disk[lock.at])) = Len(lock.scan) + 1
    BY <1>0 DEF Lock
  <2>3. Len(lock.scan) = lock.at - 1 /\ lock.at \in 1..NumFiles
    BY <1>0, <2>1 DEF Files
  <2>4. CASE lock.at = NumFiles
    <3>1. /\ lock'.by = lock.by /\ lock'.step = "validate" /\ lock'.at = 1
          /\ Len(lock'.scan) = NumFiles
      BY <1>0, <1>copy, <2>2, <2>3, <2>4, CopyLock DEF LanguageServicesAssumption
    <3>2. QED
      BY <1>0, <2>1, <3>1
  <2>5. CASE lock.at # NumFiles
    <3>1. /\ lock'.by = lock.by /\ lock'.step = "walk" /\ Len(lock'.scan) = lock'.at - 1
      BY <1>0, <1>copy, <2>2, <2>3, <2>5, CopyLock
    <3>2. QED
      BY <1>0, <2>1, <3>1
  <2>6. QED
    BY <2>4, <2>5
<1>validate. CASE ValidateFile
  <2>1. query' = query /\ observer' = observer /\ view' = view
    BY <1>validate DEF ValidateFile
  <2>2. QED
    BY <1>0, <1>validate, <2>1, ValidateLock
<1>fails. CASE AdmissionFails
  <2>1. lock.step \in {"check", "walk", "validate"} /\ lock' = Free
    BY <1>fails DEF AdmissionFails
  <2>2. CASE lock.by = "query"
    BY <1>0, <1>fails, <2>1, <2>2, FreeLock DEF AdmissionFails, Released, Nobody
  <2>3. CASE lock.by # "query"
    BY <1>0, <1>fails, <2>1, <2>3, FreeLock DEF AdmissionFails, Released, Nobody
  <2>4. QED
    BY <2>2, <2>3
<1>install. CASE Install
  <2>1. CASE lock.by = "query"
    BY <1>0, <1>install, <2>1, InstallLock DEF Nobody
  <2>2. CASE lock.by # "query"
    BY <1>0, <1>install, <2>2, InstallLock, FreeLock DEF Nobody
  <2>3. QED
    BY <2>1, <2>2
<1>watch. CASE Watch
  BY <1>0, <1>watch DEF Watch, asked
<1>notice. CASE Notice
  BY <1>0, <1>notice DEF Notice, asked
<1>debounce. CASE Debounce
  BY <1>0, <1>debounce DEF Debounce, asked
<1>rests. CASE ObserverRests
  BY <1>0, <1>rests DEF ObserverRests, asked
<1>observer. CASE ObserverLocks
  <2>1. BeginRefresh("observer") /\ observer' = "refreshing" /\ query' = query
        /\ lock = Free /\ view' = view
    BY <1>observer DEF ObserverLocks, BeginRefresh
  <2>2. QED
    BY <1>0, <2>1, BeginTypes, FreeLock DEF Nobody, NoView
<1>query. CASE QueryLocks
  <2>1. BeginRefresh("query") /\ observer' = observer /\ query.step = "waiting"
        /\ query' = [query EXCEPT !.step = "refreshing"] /\ lock = Free /\ view' = view
    BY <1>query DEF QueryLocks, BeginRefresh
  <2>2. query'.step = "refreshing"
    BY <1>1, <2>1, Moves
  <2>3. QED
    BY <1>0, <2>1, <2>2, BeginTypes, FreeLock DEF Nobody, NoView
<1>take. CASE TakeServer
  <2>1. query'.step = "taken" /\ query.step = "admitted"
    BY <1>take, <1>1, Moves DEF TakeServer
  <2>2. QED
    BY <1>0, <1>take, <2>1 DEF TakeServer
<1>synchronize. CASE Synchronize
  <2>1. query'.step = "synchronized" /\ query.step = "taken"
    BY <1>synchronize, <1>1, Moves DEF Synchronize
  <2>2. QED
    BY <1>0, <1>synchronize, <2>1 DEF Synchronize
<1>read. CASE ReadReport
  BY <1>0, <1>read DEF ReadReport
<1>respond. CASE Respond
  <2>1. query'.step = "rechecking" /\ query.step = "synchronized"
    BY <1>respond, RespondTypes DEF Respond
  <2>2. QED
    BY <1>0, <1>respond, <2>1 DEF Respond
<1>pending. CASE Pending
  <2>1. query'.step = "idle" /\ lock' = Free /\ query.step = "synchronized"
        /\ observer' = observer /\ view' = view
    BY <1>0, <1>pending DEF Pending
  <2>2. QED
    BY <1>0, <2>1, FreeLock DEF Nobody
<1>recheck. CASE RecheckInput
  <2>1. query.step = "rechecking" /\ observer' = observer /\ view' = view
    BY <1>recheck DEF RecheckInput
  <2>2. CASE lock' = Free /\ query' = Idle
    BY <1>0, <2>1, <2>2, FreeLock DEF Nobody
  <2>3. CASE lock' = Free /\ query' = [query EXCEPT !.step = "released"]
    <3>1. query'.step = "released"
      BY <1>1, <2>1, <2>3, Moves DEF Answered
    <3>2. QED
      BY <1>0, <2>1, <2>3, <3>1, FreeLock DEF Nobody
  <2>4. CASE lock'.step = lock.step /\ lock'.by = lock.by /\ lock'.scan = lock.scan
             /\ query' = query
    BY <1>0, <2>1, <2>4
  <2>5. QED
    BY <1>recheck, <2>2, <2>3, <2>4, RecheckEffect
<1>return. CASE Return
  <2>1. query'.step \in {"idle", "returned"} /\ query.step = "released"
    BY <1>0, <1>return, <1>1, Moves DEF Return, Answered
  <2>2. QED
    BY <1>0, <1>return, <2>1 DEF Return
<1>drop. CASE DropQuery
  <2>1. query'.step = "idle" /\ observer' = observer /\ view' = view
        /\ lock' = IF lock.by = "query" THEN Free ELSE lock
    BY <1>0, <1>drop DEF DropQuery
  <2>2. QED
    BY <1>0, <2>1, FreeLock DEF Nobody
<1>q. QED
  BY <1>edit, <1>ask, <1>publish, <1>check, <1>copy, <1>validate, <1>fails, <1>install,
     <1>watch, <1>notice, <1>debounce, <1>observer, <1>rests, <1>query, <1>take,
     <1>synchronize, <1>read, <1>respond, <1>pending, <1>recheck, <1>return, <1>drop
     DEF Next, Refreshing, Observing, Querying

-----------------------------------------------------------------------------
(* The server, and the view it runs on.                                    *)
LEMMA PublishEffect ==
    ASSUME IInv, Publish
    PROVE  /\ server \in Server /\ server' \in Server
           /\ server'.docs = server.docs /\ server'.told = server.told
           /\ server'.next = server.next /\ server'.inputs = server.inputs
           /\ \E m \in Told : /\ server'.pipe = Append(server.pipe, m)
                              /\ m.version # 0 => m \in server.told
<1>1. server \in Server
  BY Known DEF Publish, IInv
<1>2. PICK told \in server.told, versioned \in BOOLEAN :
        server' = [server EXCEPT !.reports = @ + 1,
                     !.pipe = Append(@, [told EXCEPT !.version = IF versioned THEN @ ELSE 0])]
  BY DEF Publish
<1> DEFINE m == [told EXCEPT !.version = IF versioned THEN @ ELSE 0]
<1>3. m \in Told /\ (m.version # 0 => m = told)
  <2>1. told \in Told
    BY <1>1, <1>2 DEF Server
  <2>2. CASE versioned
    BY <2>1, <2>2 DEF Told
  <2>3. CASE ~versioned
    BY <2>1, <2>3 DEF Told
  <2>4. QED
    BY <2>2, <2>3
<1>4. Append(server.pipe, m) \in Seq(Told) /\ server.reports + 1 \in Nat
  BY <1>1, <1>3 DEF Server
<1>5. server' = [server EXCEPT !.reports = server.reports + 1, !.pipe = Append(server.pipe, m)]
  BY <1>2
<1> HIDE DEF m
<1>6. QED
  BY <1>1, <1>2, <1>3, <1>4, <1>5 DEF Server

LEMMA ServerInductive == IInv /\ Next => Served'
<1> SUFFICES ASSUME IInv, Next PROVE Served'
  OBVIOUS
<1>0. TypeOK /\ Exclusive /\ Placed /\ Served /\ Idle.step = "idle" /\ ~NoServer.up
  BY DEF IInv, Sound, Idle, NoServer
<1>1. query.step # "idle" => query \in Query
  BY <1>0, Known
<1> USE DEF Served
<1>edit. CASE Edit
  BY <1>0, <1>edit DEF Edit, asked
<1>ask. CASE Ask
  <2>1. query'.step = "waiting" /\ server' = server /\ view' = view
    BY <1>ask DEF Ask
  <2>2. QED
    BY <1>0, <2>1
<1>publish. CASE Publish
  <2>1. server'.up /\ server.up
    BY <1>publish, PublishEffect DEF Server
  <2>2. query' = query /\ view' = view /\ server'.inputs = server.inputs
    BY <1>publish, PublishEffect DEF Publish
  <2>3. QED
    BY <1>0, <2>1, <2>2
<1>check. CASE CheckInput
  <2>1. query' = query /\ view' = view /\ lock.step = "check"
    BY <1>check DEF CheckInput
  <2>2. server' = server \/ server' = NoServer
    BY <1>check DEF CheckInput, KeepServer, StopServer
  <2>3. query.step \notin {"taken", "synchronized", "rechecking"}
    BY <1>0, <2>1 DEF Exclusive, Locked
  <2>4. QED
    BY <1>0, <2>1, <2>2, <2>3
<1>copy. CASE CopyFile
  BY <1>0, <1>copy DEF CopyFile
<1>validate. CASE ValidateFile
  BY <1>0, <1>validate DEF ValidateFile
<1>fails. CASE AdmissionFails
  <2>1. server' = NoServer /\ lock.step \in {"check", "walk", "validate"}
    BY <1>fails DEF AdmissionFails, StopServer
  <2>2. query' = Idle \/ query' = query
    BY <1>fails DEF AdmissionFails, Released
  <2>3. query.step \notin {"taken", "synchronized", "rechecking"}
    BY <1>0, <2>1 DEF Exclusive, Locked
  <2>4. QED
    BY <1>0, <2>1, <2>2, <2>3
<1>install. CASE Install
  <2>1. query'.step \notin {"taken", "synchronized", "rechecking"}
    <3>1. query.step \notin {"taken", "synchronized", "rechecking"}
      BY <1>0, <1>install, InstallLock DEF Exclusive, Locked
    <3>2. QED
      BY <3>1, <1>install, InstallLock
  <2>2. server' = NoServer \/ (server' = server /\ view' = view)
    BY <1>install DEF Install, KeepServer, StopServer
  <2>3. QED
    BY <1>0, <2>1, <2>2
<1>watch. CASE Watch
  BY <1>0, <1>watch DEF Watch, asked
<1>notice. CASE Notice
  BY <1>0, <1>notice DEF Notice, asked
<1>debounce. CASE Debounce
  BY <1>0, <1>debounce DEF Debounce, asked
<1>rests. CASE ObserverRests
  BY <1>0, <1>rests DEF ObserverRests, asked
<1>observer. CASE ObserverLocks
  <2>1. BeginRefresh("observer") /\ query' = query /\ lock = Free /\ view' = view
    BY <1>observer DEF ObserverLocks, BeginRefresh
  <2>2. query.step \notin {"taken", "synchronized", "rechecking"}
    BY <1>0, <2>1, FreeLock DEF Exclusive, Locked, Nobody
  <2>3. QED
    BY <1>0, <2>1, <2>2, BeginTypes
<1>query. CASE QueryLocks
  <2>1. BeginRefresh("query") /\ query' = [query EXCEPT !.step = "refreshing"] /\ view' = view
        /\ query.step = "waiting"
    BY <1>query DEF QueryLocks, BeginRefresh
  <2>2. query'.step = "refreshing"
    BY <1>1, <2>1, Moves DEF Locked
  <2>3. QED
    BY <1>0, <2>1, <2>2, BeginTypes
<1>take. CASE TakeServer
  <2>1. query'.step = "taken" /\ view' = view
    BY <1>take, <1>1, Moves DEF TakeServer, Locked
  <2>2. server'.up /\ server'.inputs = view
    BY <1>0, <1>take DEF TakeServer
  <2>3. QED
    BY <2>1, <2>2
<1>synchronize. CASE Synchronize
  <2>1. query'.step = "synchronized" /\ view' = view /\ query.step = "taken"
    BY <1>synchronize, <1>1, Moves DEF Synchronize, Locked
  <2>2. server'.up /\ server'.inputs = server.inputs
    BY <1>synchronize, SyncTypes DEF Server
  <2>3. QED
    BY <1>0, <2>1, <2>2
<1>read. CASE ReadReport
  <2>1. server'.up /\ server'.inputs = server.inputs
    <3>1. server \in Server
      BY <1>0, <1>read, Known DEF ReadReport
    <3>2. QED
      BY <1>read, <3>1, ReadTypes DEF Server
  <2>2. query' = query /\ view' = view /\ query.step = "synchronized"
    BY <1>read DEF ReadReport
  <2>3. QED
    BY <1>0, <2>1, <2>2
<1>respond. CASE Respond
  <2>1. server' = server /\ view' = view /\ query.step = "synchronized"
    BY <1>respond DEF Respond
  <2>2. query'.inputs = server.inputs
    BY <1>respond, RespondTypes
  <2>3. QED
    BY <1>0, <2>1, <2>2
<1>pending. CASE Pending
  BY <1>0, <1>pending DEF Pending
<1>recheck. CASE RecheckInput
  <2>1. view' = view /\ query.step = "rechecking"
    BY <1>recheck DEF RecheckInput
  <2>2. CASE server' = NoServer /\ query' = Idle
    BY <1>0, <2>1, <2>2
  <2>3. CASE server' = server /\ query' = query
    BY <1>0, <2>1, <2>3
  <2>4. CASE server' = server /\ query' = [query EXCEPT !.step = "released"]
    <3>1. query'.step = "released"
      BY <1>1, <2>1, <2>4, Moves DEF Answered
    <3>2. QED
      BY <1>0, <2>1, <2>4, <3>1
  <2>5. QED
    BY <1>recheck, <2>2, <2>3, <2>4, RecheckEffect
<1>return. CASE Return
  <2>1. query'.step \in {"idle", "returned"} /\ view' = view /\ server' = server
    BY <1>0, <1>return, <1>1, Moves DEF Return, Answered
  <2>2. QED
    BY <1>0, <2>1
<1>drop. CASE DropQuery
  <2>1. query'.step = "idle" /\ view' = view /\ (server' = server \/ server' = NoServer)
    BY <1>0, <1>drop DEF DropQuery
  <2>2. QED
    BY <1>0, <2>1
<1>q. QED
  BY <1>edit, <1>ask, <1>publish, <1>check, <1>copy, <1>validate, <1>fails, <1>install,
     <1>watch, <1>notice, <1>debounce, <1>observer, <1>rests, <1>query, <1>take,
     <1>synchronize, <1>read, <1>respond, <1>pending, <1>recheck, <1>return, <1>drop
     DEF Next, Refreshing, Observing, Querying
-----------------------------------------------------------------------------
(* What was copied, against the project as it is edited.                   *)
LEMMA Later ==
    ASSUME NEW e \in Entry, NEW f \in Entry, NEW g \in Entry, Before(e, f), Before(f, g)
    PROVE  Before(e, g)
BY DEF Before, Entry

LEMMA Between ==
    ASSUME NEW e \in Entry, NEW f \in Entry, NEW g \in Entry, Before(e, f), Before(f, g),
           e.stamp = g.stamp
    PROVE  f = e
BY DEF Before, Entry

\* An edit leaves every file as it was, or gives it a later stamp.
LEMMA Edited ==
    ASSUME TypeOK, Next
    PROVE  disk' \in Project /\ \A x \in Files : Before(disk[x], disk'[x])
<1>1. disk \in Project
  BY DEF TypeOK
<1>2. CASE Edit
  <2>1. PICK x \in Files, t \in Texts :
          disk' = [disk EXCEPT ![x] = [text |-> t, stamp |-> @.stamp + 1]]
    BY <1>2 DEF Edit
  <2>2. disk[x].stamp \in Nat
    BY <1>1 DEF Project, Entry
  <2>3. [text |-> t, stamp |-> disk[x].stamp + 1] \in Entry
    BY <2>2 DEF Entry
  <2>4. disk' \in Project /\ disk'[x] = [text |-> t, stamp |-> disk[x].stamp + 1]
        /\ \A y \in Files \ {x} : disk'[y] = disk[y]
    BY <1>1, <2>1, <2>3 DEF Project
  <2>5. Before(disk[x], disk'[x])
    BY <2>2, <2>4 DEF Before
  <2>6. \A y \in Files \ {x} : Before(disk[y], disk'[y])
    BY <1>1, <2>4 DEF Before, Project, Entry
  <2>7. QED
    BY <2>4, <2>5, <2>6
<1>3. CASE ~Edit
  <2>1. disk' = disk
    BY <1>3 DEF Next, Refreshing, Observing, Querying, Ask, Publish, CheckInput, CopyFile,
         ValidateFile, AdmissionFails, Install, Watch, Notice, Debounce, ObserverLocks,
         ObserverRests, QueryLocks, BeginRefresh, TakeServer, Synchronize, ReadReport, Respond,
         Pending, RecheckInput, Return, DropQuery, project
  <2>2. QED
    BY <1>1, <2>1 DEF Before, Project, Entry
<1>4. QED
  BY <1>2, <1>3

LEMMA Scans ==
    ASSUME IInv, Next
    PROVE  /\ view' = view \/ view' = NoView \/ (view' = lock.scan /\ lock.scan \in Project)
           /\ \/ lock'.scan = lock.scan \/ lock'.scan = NoView
              \/ lock'.scan = Append(lock.scan, disk[lock.at]) /\ lock.step = "walk"
<1>0. TypeOK /\ lock \in Lock /\ Free.scan = NoView
  BY FreeLock DEF IInv, TypeOK
<1>1. CASE Edit \/ Ask \/ Publish \/ Watch \/ Notice \/ Debounce \/ ObserverRests \/ TakeServer
           \/ Synchronize \/ ReadReport \/ Respond \/ Return
  <2>1. view' = view /\ lock' = lock
    BY <1>1 DEF Edit, Ask, Publish, Watch, Notice, Debounce, ObserverRests, TakeServer,
         Synchronize, ReadReport, Respond, Return
  <2>2. QED
    BY <2>1
<1>2. CASE CheckInput
  BY <1>0, <1>2, CheckLock DEF CheckInput
<1>3. CASE CopyFile
  BY <1>0, <1>3, CopyLock DEF CopyFile
<1>4. CASE ValidateFile
  BY <1>0, <1>4, ValidateLock DEF ValidateFile
<1>5. CASE AdmissionFails
  BY <1>0, <1>5 DEF AdmissionFails
<1>6. CASE Install
  BY <1>0, <1>6, InstallLock
<1>7. CASE ObserverLocks
  BY <1>0, <1>7, BeginTypes DEF ObserverLocks, BeginRefresh
<1>8. CASE QueryLocks
  BY <1>0, <1>8, BeginTypes DEF QueryLocks, BeginRefresh
<1>9. CASE RecheckInput
  BY <1>0, <1>9, RecheckEffect DEF RecheckInput
<1>10. CASE Pending \/ DropQuery
  BY <1>0, <1>10 DEF Pending, DropQuery
<1>11. QED
  BY <1>1, <1>2, <1>3, <1>4, <1>5, <1>6, <1>7, <1>8, <1>9, <1>10
     DEF Next, Refreshing, Observing, Querying

LEMMA Within ==
    ASSUME TypeOK, Placed
    PROVE  DOMAIN lock.scan \subseteq Files
<1>1. lock \in Lock
  BY DEF TypeOK
<1>2. lock.scan \in Seq(Entry) /\ lock.at \in 1..NumFiles /\ lock.step \in LockSteps
  BY <1>1 DEF Lock, Files
<1>3. Len(lock.scan) = lock.at - 1 \/ Len(lock.scan) = NumFiles \/ lock.scan = <<>>
  BY <1>2 DEF Placed, LockSteps, NoView
<1>4. Len(lock.scan) <= NumFiles /\ Len(lock.scan) \in Nat
  BY <1>2, <1>3 DEF LanguageServicesAssumption
<1>5. DOMAIN lock.scan = 1..Len(lock.scan)
  BY <1>2
<1>6. QED
  BY <1>4, <1>5 DEF Files, LanguageServicesAssumption

LEMMA CopiedInductive == IInv /\ Next => Copied'
<1> SUFFICES ASSUME IInv, Next PROVE Copied'
  OBVIOUS
<1>0. TypeOK /\ Copied /\ disk \in Project /\ lock \in Lock
  BY DEF IInv, Sound, TypeOK
<1>1. disk' \in Project /\ \A x \in Files : Before(disk[x], disk'[x])
  BY <1>0, Edited
<1>2. \A x \in Files : disk[x] \in Entry /\ disk'[x] \in Entry
  BY <1>0, <1>1 DEF Project
<1>3. lock.scan \in Seq(Entry) /\ lock.at \in Files
  BY <1>0 DEF Lock
<1>4. \A x \in DOMAIN lock.scan : Before(lock.scan[x], disk'[x])
  <2> SUFFICES ASSUME NEW x \in DOMAIN lock.scan
               PROVE  Before(lock.scan[x], disk'[x])
    OBVIOUS
  <2>0. x \in Files
    BY Within DEF IInv, Sound
  <2>1. lock.scan[x] \in Entry /\ Before(lock.scan[x], disk[x])
    BY <1>0, <1>3 DEF Copied
  <2>2. QED
    BY <1>1, <1>2, <2>0, <2>1, Later
<1>5. ASSUME view' # NoView PROVE \A x \in Files : Before(view'[x], disk'[x])
  <2>1. CASE view' = view
    <3> SUFFICES ASSUME NEW x \in Files PROVE Before(view[x], disk'[x])
      BY <2>1
    <3>1. view \in Project /\ Before(view[x], disk[x])
      BY <1>0, <1>5, <2>1, Known DEF Copied
    <3>2. QED
      BY <1>1, <1>2, <3>1, Later DEF Project
  <2>2. CASE view' = lock.scan /\ lock.scan \in Project
    BY <1>4, <2>2 DEF Project
  <2>3. QED
    BY <1>5, <2>1, <2>2, Scans
<1>6. \A x \in DOMAIN lock'.scan : Before(lock'.scan[x], disk'[x])
  <2>1. CASE lock'.scan = lock.scan
    BY <1>4, <2>1
  <2>2. CASE lock'.scan = NoView
    BY <2>2 DEF NoView
  <2>3. CASE lock'.scan = Append(lock.scan, disk[lock.at]) /\ lock.step = "walk"
    <3>1. Len(lock.scan) + 1 = lock.at
      BY <1>0, <1>3, <2>3 DEF IInv, Sound, Placed, Files
    <3> SUFFICES ASSUME NEW x \in DOMAIN lock'.scan PROVE Before(lock'.scan[x], disk'[x])
      OBVIOUS
    <3>2. CASE x = lock.at
      <4>1. lock'.scan[x] = disk[lock.at]
        BY <1>2, <1>3, <2>3, <3>1, <3>2
      <4>2. QED
        BY <1>1, <1>3, <3>2, <4>1
    <3>3. CASE x # lock.at
      <4>1. x \in DOMAIN lock.scan /\ lock'.scan[x] = lock.scan[x]
        BY <1>2, <1>3, <2>3, <3>1, <3>3
      <4>2. QED
        BY <1>4, <4>1
    <3>4. QED
      BY <3>2, <3>3
  <2>4. QED
    BY <2>1, <2>2, <2>3, Scans
<1>7. QED
  BY <1>5, <1>6 DEF Copied
-----------------------------------------------------------------------------
(* What the project was since the answer.                                  *)
Agreed(then) ==
    /\ \A x \in Files : Before(view[x], then[x]) /\ Before(then[x], disk[x])
    /\ \A x \in Files : x < lock.at => then[x] = view[x]
AgreedNow(then) ==
    /\ \A x \in Files : Before(view'[x], then[x]) /\ Before(then[x], disk'[x])
    /\ \A x \in Files : x < lock'.at => then[x] = view'[x]

LEMMA WitnessedInductive == IInv /\ Next => Witnessed'
<1> SUFFICES ASSUME IInv, Next PROVE Witnessed'
  OBVIOUS
<1>0. TypeOK /\ Exclusive /\ Placed /\ Served /\ Copied /\ Witnessed /\ Idle.step = "idle"
  BY DEF IInv, Sound, Idle
<1>1. query.step # "idle" => query \in Query
  BY <1>0, Known
<1>2. disk \in Project /\ seen \subseteq Project /\ lock.at \in 1..NumFiles
  BY <1>0 DEF TypeOK, Lock, Files
<1>3. ASSUME query'.step \notin Answered PROVE Witnessed'
  BY <1>3 DEF Witnessed, Answered
\* Nothing happens to the query, the project, or what a recheck reads.
<1>4. ASSUME query' = query, disk' = disk, seen' = seen,
             query.step = "rechecking" => lock' = lock /\ view' = view
      PROVE  Witnessed'
  BY <1>0, <1>4 DEF Witnessed
<1>5. query.step = "rechecking" => lock.step = "held"
  BY <1>0 DEF Exclusive, Locked
<1>edit. CASE Edit
  <2>1. query' = query /\ lock' = lock /\ view' = view
        /\ seen' = IF seen = {} THEN {} ELSE seen \union {disk'}
    BY <1>edit DEF Edit
  <2>2. CASE query.step \in Answered
    <3>1. seen' = seen \union {disk'}
      BY <1>0, <2>1, <2>2 DEF Witnessed
    <3>2. ASSUME query.step = "rechecking" PROVE \E then \in seen' : AgreedNow(then)
      <4>1. PICK then \in seen : Agreed(then)
        BY <1>0, <3>2 DEF Witnessed, Agreed
      <4>2. \A x \in Files : Before(then[x], disk'[x])
        BY <1>0, <1>2, <4>1, Edited, Later DEF Agreed, Project
      <4>3. QED
        BY <2>1, <3>1, <4>1, <4>2 DEF Agreed, AgreedNow
    <3>3. QED
      BY <1>0, <2>1, <3>1, <3>2 DEF Witnessed, AgreedNow
  <2>3. QED
    BY <1>3, <2>1, <2>2
<1>ask. CASE Ask
  <2>1. query'.step = "waiting"
    BY <1>ask DEF Ask
  <2>2. QED
    BY <1>3, <2>1 DEF Answered
<1>publish. CASE Publish
  BY <1>4, <1>publish DEF Publish, project
<1>refresh. CASE CheckInput \/ CopyFile \/ ValidateFile
  <2>1. query' = query /\ disk' = disk /\ seen' = seen /\ lock.step # "held"
    BY <1>refresh DEF CheckInput, CopyFile, ValidateFile, project
  <2>2. QED
    BY <1>4, <1>5, <2>1
<1>fails. CASE AdmissionFails
  <2>1. disk' = disk /\ seen' = seen /\ lock.step # "held" /\ (query' = query \/ query' = Idle)
    BY <1>fails DEF AdmissionFails, Released, project
  <2>2. CASE query' = query
    BY <1>4, <1>5, <2>1, <2>2
  <2>3. CASE query' = Idle
    BY <1>0, <1>3, <2>3 DEF Answered
  <2>4. QED
    BY <2>1, <2>2, <2>3
<1>install. CASE Install
  <2>1. disk' = disk /\ seen' = seen /\ lock.step # "held"
    BY <1>install DEF Install, project
  <2>2. CASE query' = query
    BY <1>4, <1>5, <2>1, <2>2
  <2>3. CASE query'.step = "admitted"
    BY <1>3, <2>3 DEF Answered
  <2>4. QED
    BY <1>install, <2>2, <2>3, InstallLock
<1>events. CASE Watch \/ Notice \/ Debounce \/ ObserverRests \/ ReadReport
  <2>1. query' = query /\ disk' = disk /\ seen' = seen /\ lock' = lock /\ view' = view
    BY <1>events DEF Watch, Notice, Debounce, ObserverRests, ReadReport, project, asked
  <2>2. QED
    BY <1>4, <2>1
<1>observer. CASE ObserverLocks
  <2>1. query' = query /\ disk' = disk /\ seen' = seen /\ lock = Free
    BY <1>observer DEF ObserverLocks, BeginRefresh, project
  <2>2. QED
    BY <1>4, <1>5, <2>1, FreeLock
<1>query. CASE QueryLocks
  <2>1. query'.step = "refreshing"
    BY <1>query, <1>1, Moves DEF QueryLocks, Locked
  <2>2. QED
    BY <1>3, <2>1 DEF Answered
<1>take. CASE TakeServer
  <2>1. query'.step = "taken"
    BY <1>take, <1>1, Moves DEF TakeServer, Locked
  <2>2. QED
    BY <1>3, <2>1 DEF Answered
<1>synchronize. CASE Synchronize
  <2>1. query'.step = "synchronized"
    BY <1>synchronize, <1>1, Moves DEF Synchronize, Locked
  <2>2. QED
    BY <1>3, <2>1 DEF Answered
<1>respond. CASE Respond
  <2>1. /\ query'.step = "rechecking" /\ seen' = {disk}
        /\ disk' = disk /\ view' = view /\ lock' = lock
    BY <1>respond, RespondTypes DEF Respond, project
  <2>2. lock.step = "held" /\ lock.at = 1 /\ view # NoView
    BY <1>0, <1>respond DEF Respond, Exclusive, Placed, Locked
  <2>3. \A x \in Files : Before(view[x], disk[x]) /\ Before(disk[x], disk[x]) /\ ~(x < 1)
    BY <1>0, <1>2, <2>2 DEF Copied, Before, Files, Project, Entry
  <2>4. AgreedNow(disk)
    BY <2>1, <2>2, <2>3 DEF AgreedNow
  <2>5. QED
    BY <2>1, <2>4 DEF Witnessed, AgreedNow
<1>pending. CASE Pending
  BY <1>0, <1>3, <1>pending DEF Pending, Answered
<1>recheck. CASE RecheckInput
  <2>1. disk' = disk /\ seen' = seen /\ view' = view /\ query.step = "rechecking"
    BY <1>recheck DEF RecheckInput, project
  <2>2. PICK then \in seen : Agreed(then)
    BY <1>0, <2>1 DEF Witnessed, Agreed
  <2>3. then \in Project /\ view \in Project
    <3>1. view # NoView
      BY <1>0, <1>5, <2>1 DEF Placed
    <3>2. QED
      BY <1>0, <1>2, <2>2, <3>1, Known
  <2>4. ASSUME Unchanged(lock.at, view) PROVE then[lock.at] = view[lock.at]
    BY <1>2, <2>2, <2>3, <2>4, Between DEF Agreed, Unchanged, Project, Files
  <2>5. CASE query' = Idle
    BY <1>0, <1>3, <2>5 DEF Answered
  <2>6. CASE lock.at < NumFiles /\ Unchanged(lock.at, view) /\ lock'.at = lock.at + 1
             /\ query' = query
    <3>1. \A x \in Files : x < lock'.at => x < lock.at \/ x = lock.at
      BY <1>2, <2>6 DEF Files, LanguageServicesAssumption
    <3>2. AgreedNow(then)
      BY <2>1, <2>2, <2>4, <2>6, <3>1 DEF Agreed, AgreedNow
    <3>3. QED
      BY <1>0, <2>1, <2>2, <2>6, <3>2 DEF Witnessed, AgreedNow, Answered
  <2>7. CASE lock.at = NumFiles /\ Unchanged(lock.at, view)
             /\ query' = [query EXCEPT !.step = "released"]
    <3>1. \A x \in Files : x < lock.at \/ x = lock.at
      BY <1>2, <2>7 DEF Files, LanguageServicesAssumption
    <3>2. \A x \in Files : then[x] = view[x]
      BY <2>2, <2>4, <2>7, <3>1 DEF Agreed
    <3>3. then = view
      BY <2>3, <3>2 DEF Project
    <3>4. query'.step = "released" /\ query'.inputs = query.inputs /\ query.inputs = view
      BY <1>0, <1>1, <2>1, <2>7, Moves DEF Served, Answered
    <3>5. disk \in seen
      BY <1>0, <2>1 DEF Witnessed, Answered
    <3>6. QED
      BY <2>1, <2>2, <3>3, <3>4, <3>5 DEF Witnessed
  <2>8. QED
    BY <1>recheck, <2>5, <2>6, <2>7, RecheckEffect
<1>return. CASE Return
  <2>1. query.step = "released" /\ disk' = disk /\ seen' = seen
    BY <1>return DEF Return, project
  <2>2. CASE disk[query.path].text = query.text
    <3>1. query' = [query EXCEPT !.step = "returned"]
      BY <1>return, <2>2 DEF Return
    <3>2. query'.step = "returned" /\ query'.inputs = query.inputs
          /\ query'.path = query.path /\ query'.text = query.text
      BY <1>1, <2>1, <3>1, Moves DEF Answered
    <3>3. disk \in seen /\ query.inputs \in seen
      BY <1>0, <2>1 DEF Witnessed, Answered
    <3>4. QED
      BY <2>1, <2>2, <3>2, <3>3 DEF Witnessed
  <2>3. CASE disk[query.path].text # query.text
    BY <1>0, <1>3, <1>return, <2>3 DEF Return, Answered
  <2>4. QED
    BY <2>2, <2>3
<1>drop. CASE DropQuery
  BY <1>0, <1>3, <1>drop DEF DropQuery, Answered
<1>q. QED
  BY <1>edit, <1>ask, <1>publish, <1>refresh, <1>fails, <1>install, <1>events, <1>observer,
     <1>query, <1>take, <1>synchronize, <1>respond, <1>pending, <1>recheck, <1>return, <1>drop
     DEF Next, Refreshing, Observing, Querying

-----------------------------------------------------------------------------
(* The server's documents, and the reports of them.                        *)
\* Most actions leave the server, or stop it.
Stays == server' = server \/ server' = NoServer

LEMMA ServerStays ==
    ASSUME IInv, Next, ~Publish, ~TakeServer, ~Synchronize, ~ReadReport
    PROVE  Stays
<1>0. TypeOK
  BY DEF IInv
<1>1. CASE Edit \/ Ask \/ Watch \/ Notice \/ Debounce \/ ObserverRests \/ CopyFile
           \/ ValidateFile \/ Respond \/ Return \/ Pending
  BY <1>1 DEF Edit, Ask, Watch, Notice, Debounce, ObserverRests, CopyFile, ValidateFile,
     Respond, Return, Pending, Stays
<1>2. CASE CheckInput \/ AdmissionFails \/ Install
  BY <1>2 DEF CheckInput, AdmissionFails, Install, KeepServer, StopServer, Stays
<1>3. CASE ObserverLocks \/ QueryLocks
  BY <1>0, <1>3, BeginTypes DEF ObserverLocks, QueryLocks, Stays
<1>4. CASE RecheckInput
  BY <1>4, RecheckEffect DEF Stays
<1>5. CASE DropQuery
  BY <1>5 DEF DropQuery, Stays
<1>6. QED
  BY <1>1, <1>2, <1>3, <1>4, <1>5 DEF Next, Refreshing, Observing, Querying

LEMMA TakeEffect ==
    ASSUME IInv, TakeServer
    PROVE  \/ server' = server
           \/ /\ server'.told = {} /\ server'.pipe = <<>> /\ server'.docs = <<>>
              /\ server'.next = nextVersion
BY DEF TakeServer

\* What a document is told to be is what the reports of its version say.
Documented(s) ==
    \A x \in DOMAIN s.docs :
        /\ [path |-> x, text |-> s.docs[x].text, version |-> s.docs[x].version] \in s.told
        /\ s.docs[x].reported = s.docs[x].version => s.docs[x].report \subseteq {s.docs[x].text}
Versioned(s) ==
    /\ s.next # 0
    /\ \A m \in s.told : m.version # 0 /\ m.version < s.next
    /\ \A m, n \in s.told : m.version = n.version => m = n
Published(s) == \A i \in DOMAIN s.pipe : s.pipe[i].version # 0 => s.pipe[i] \in s.told

LEMMA ReportsParts == Reports <=> (server.up => Versioned(server) /\ Published(server)
                                                /\ Documented(server))
BY DEF Reports, Versioned, Published, Documented
LEMMA ReportsPartsNow == Reports' <=> (server'.up => Versioned(server') /\ Published(server')
                                                /\ Documented(server'))
BY DEF Reports, Versioned, Published, Documented

LEMMA ReportsInductive == IInv /\ Next => Reports'
<1> SUFFICES ASSUME IInv, Next PROVE Reports'
  OBVIOUS
<1>0. TypeOK /\ Reports /\ Served /\ ~NoServer.up
  BY DEF IInv, Sound, NoServer
<1>1. server.up => /\ server \in Server
                   /\ Versioned(server) /\ Published(server) /\ Documented(server)
  BY <1>0, Known, ReportsParts
<1>2. CASE Stays
  BY <1>0, <1>2 DEF Stays, Reports
<1>take. CASE TakeServer
  <2>1. CASE server' = server
    BY <1>2, <2>1 DEF Stays
  <2>2. CASE server'.told = {} /\ server'.pipe = <<>> /\ server'.docs = <<>>
             /\ server'.next = nextVersion
    <3>1. nextVersion # 0
      BY <1>0 DEF TypeOK
    <3>2. Versioned(server')
      BY <2>2, <3>1 DEF Versioned
    <3>3. Published(server') /\ Documented(server')
      BY <2>2 DEF Published, Documented
    <3>4. QED
      BY <3>2, <3>3, ReportsPartsNow
  <2>3. QED
    BY <1>take, <2>1, <2>2, TakeEffect
<1>publish. CASE Publish
  <2>1. PICK m \in Told : /\ server'.pipe = Append(server.pipe, m)
                          /\ m.version # 0 => m \in server.told
    BY <1>publish, PublishEffect
  <2>2. /\ server.up /\ server \in Server /\ server'.docs = server.docs
        /\ server'.told = server.told /\ server'.next = server.next
    BY <1>publish, PublishEffect DEF Publish
  <2>3. Versioned(server') /\ Documented(server')
    BY <1>1, <2>2 DEF Versioned, Documented
  <2>4. Published(server')
    <3> SUFFICES ASSUME NEW i \in DOMAIN server'.pipe, server'.pipe[i].version # 0
                 PROVE  server'.pipe[i] \in server'.told
      BY DEF Published
    <3>1. server.pipe \in Seq(Told)
      BY <2>2 DEF Server
    <3>2. CASE i \in DOMAIN server.pipe
      <4>1. server'.pipe[i] = server.pipe[i]
        BY <2>1, <3>1, <3>2
      <4>2. QED
        BY <1>1, <2>2, <3>2, <4>1 DEF Published
    <3>3. CASE i \notin DOMAIN server.pipe
      <4>1. server'.pipe[i] = m
        BY <2>1, <3>1, <3>3
      <4>2. QED
        BY <2>1, <2>2, <4>1
    <3>4. QED
      BY <3>2, <3>3
  <2>5. QED
    BY <2>3, <2>4, ReportsPartsNow
<1>synchronize. CASE Synchronize
  <2>1. server.up /\ query \in Query
    BY <1>0, <1>synchronize, Known DEF Synchronize, Served
  <2>2. CASE Kept
    BY <1>2, <1>synchronize, <2>2, SyncTypes DEF Stays
  <2>3. CASE ~Kept
    <3>1. /\ server'.docs = NewDocs /\ server'.told = server.told \union {NewTold}
          /\ server'.next = server.next + 1 /\ server'.pipe = server.pipe
      BY <1>synchronize, <2>3, SyncTypes
    <3>2. NewTold.version = server.next /\ server.next \in Nat /\ server.told \subseteq Told
      BY <1>1, <2>1 DEF NewTold, Server
    <3>3. \A m \in server.told : m.version \in Nat /\ m.version # server.next
      BY <1>1, <2>1, <3>2 DEF Versioned, Told
    <3>4. Versioned(server')
      <4>1. server'.next # 0
        BY <3>1, <3>2
      <4>2. \A m \in server'.told : m.version # 0 /\ m.version < server'.next
        BY <1>1, <2>1, <3>1, <3>2, <3>3 DEF Versioned
      <4>3. \A m, n \in server'.told : m.version = n.version => m = n
        BY <1>1, <2>1, <3>1, <3>2, <3>3 DEF Versioned
      <4>4. QED
        BY <4>1, <4>2, <4>3 DEF Versioned
    <3>5. Published(server')
      BY <1>1, <2>1, <3>1 DEF Published
    <3>6. Documented(server')
      <4> SUFFICES ASSUME NEW x \in DOMAIN server'.docs
                   PROVE  LET doc == server'.docs[x]
                          IN  /\ [path |-> x, text |-> doc.text, version |-> doc.version]
                                   \in server'.told
                              /\ doc.reported = doc.version => doc.report \subseteq {doc.text}
        BY DEF Documented
      <4>1. CASE x = query.path
        <5>1. server'.docs[x] = NewDoc
          BY <3>1, <4>1 DEF NewDocs
        <5>2. [path |-> x, text |-> NewDoc.text, version |-> NewDoc.version] = NewTold
              /\ NewDoc.report = {}
          BY <4>1 DEF NewDoc, NewTold
        <5>3. QED
          BY <3>1, <5>1, <5>2
      <4>2. CASE x # query.path
        <5>1. x \in DOMAIN server.docs /\ server'.docs[x] = server.docs[x]
          BY <3>1, <4>2 DEF NewDocs
        <5>2. QED
          BY <1>1, <2>1, <3>1, <5>1 DEF Documented
      <4>3. QED
        BY <4>1, <4>2
    <3>7. QED
      BY <3>4, <3>5, <3>6, ReportsPartsNow
  <2>4. QED
    BY <2>2, <2>3
<1>read. CASE ReadReport
  <2>1. server.up /\ server.pipe # <<>>
    BY <1>0, <1>read DEF ReadReport, Served
  <2>2. /\ server'.docs = ReadDocs /\ server'.pipe = Tail(server.pipe)
        /\ server'.told = server.told /\ server'.next = server.next
    <3>1. server' = [server EXCEPT !.docs = ReadDocs, !.pipe = Tail(@)]
      BY <1>read, ReadTypes
    <3>2. QED
      BY <1>1, <2>1, <3>1 DEF Server
  <2>3. Versioned(server')
    BY <1>1, <2>1, <2>2 DEF Versioned
  <2>4. server.pipe \in Seq(Told) /\ Message = server.pipe[1] /\ 1 \in DOMAIN server.pipe
    BY <1>1, <2>1 DEF Server, Message
  <2>5. Published(server')
    <3> SUFFICES ASSUME NEW i \in DOMAIN server'.pipe, server'.pipe[i].version # 0
                 PROVE  server'.pipe[i] \in server'.told
      BY DEF Published
    <3>1. i + 1 \in DOMAIN server.pipe /\ server'.pipe[i] = server.pipe[i + 1]
      BY <2>1, <2>2, <2>4
    <3>2. QED
      BY <1>1, <2>1, <2>2, <3>1 DEF Published
  <2>6. Documented(server')
    <3> SUFFICES ASSUME NEW x \in DOMAIN server'.docs
                 PROVE  LET doc == server'.docs[x]
                        IN  /\ [path |-> x, text |-> doc.text, version |-> doc.version]
                                 \in server'.told
                            /\ doc.reported = doc.version => doc.report \subseteq {doc.text}
      BY DEF Documented
    <3>1. x \in DOMAIN server.docs
      BY <2>2 DEF ReadDocs
    <3>2. CASE Concerns(Message) /\ x = Message.path
      <4>1. PICK paths \in SUBSET Files : server.docs \in [paths -> Doc]
        BY <1>1, <2>1, DocsDef DEF Server
      <4>2. server.docs[x] \in Doc
        BY <3>1, <4>1
      <4>3. server'.docs[x] = ReadDoc
        BY <2>2, <3>1, <3>2 DEF ReadDocs
      <4>4. /\ ReadDoc.text = server.docs[x].text /\ ReadDoc.version = server.docs[x].version
            /\ ReadDoc.report = {Message.text} /\ ReadDoc.reported = Message.version
        BY <3>2, <4>2 DEF ReadDoc, Doc
      <4> DEFINE told == [path |-> x, text |-> server.docs[x].text,
                          version |-> server.docs[x].version]
      <4>5. told \in server.told
        BY <1>1, <2>1, <3>1 DEF Documented
      <4>6. ASSUME Message.version = server.docs[x].version
            PROVE  Message.text = server.docs[x].text
        <5>1. told.version = Message.version /\ told.version # 0
          BY <1>1, <2>1, <4>5, <4>6 DEF Versioned
        <5>2. Message \in server.told
          BY <1>1, <2>1, <2>4, <5>1 DEF Published
        <5>3. Message = told
          BY <1>1, <2>1, <4>5, <5>1, <5>2 DEF Versioned
        <5>4. QED
          BY <5>3
      <4>7. QED
        BY <2>2, <4>3, <4>4, <4>5, <4>6
    <3>3. CASE ~(Concerns(Message) /\ x = Message.path)
      <4>1. server'.docs[x] = server.docs[x]
        BY <2>2, <3>1, <3>3 DEF ReadDocs
      <4>2. QED
        BY <1>1, <2>1, <2>2, <3>1, <4>1 DEF Documented
    <3>4. QED
      BY <3>2, <3>3
  <2>7. QED
    BY <2>3, <2>5, <2>6, ReportsPartsNow
<1>q. QED
  BY <1>2, <1>take, <1>publish, <1>synchronize, <1>read, ServerStays

\* The document of the query is of its text, and so is a report called current.
LEMMA SynchronizedInductive == IInv /\ Next => Synchronized'
<1> SUFFICES ASSUME IInv, Next PROVE Synchronized'
  OBVIOUS
<1>0. TypeOK /\ Exclusive /\ Served /\ Reports /\ Synchronized /\ Idle.step = "idle"
  BY DEF IInv, Sound, Idle
<1>1. query.step # "idle" => query \in Query
  BY <1>0, Known
<1>2. query.step = "synchronized" => lock.step = "held"
  BY <1>0 DEF Exclusive, Locked
<1>3. ASSUME query'.step \notin Answered \union {"synchronized"} PROVE Synchronized'
  BY <1>3 DEF Synchronized
<1>4. ASSUME query' = query, query.step = "synchronized" => server' = server
      PROVE  Synchronized'
  BY <1>0, <1>4 DEF Synchronized, Document
<1>quiet. CASE Edit \/ Watch \/ Notice \/ Debounce \/ ObserverRests \/ CopyFile \/ ValidateFile
  <2>1. query' = query /\ server' = server
    BY <1>quiet DEF Edit, Watch, Notice, Debounce, ObserverRests, CopyFile, ValidateFile, asked
  <2>2. QED
    BY <1>4, <2>1
<1>ask. CASE Ask
  <2>1. query'.step = "waiting"
    BY <1>ask DEF Ask
  <2>2. QED
    BY <1>3, <2>1 DEF Answered
<1>publish. CASE Publish
  <2>1. query' = query /\ server'.docs = server.docs
    BY <1>publish, PublishEffect DEF Publish
  <2>2. QED
    BY <1>0, <2>1 DEF Synchronized, Document
<1>check. CASE CheckInput
  <2>1. query' = query /\ lock.step # "held"
    BY <1>check DEF CheckInput
  <2>2. QED
    BY <1>2, <1>4, <2>1
<1>fails. CASE AdmissionFails
  <2>1. lock.step # "held" /\ (query' = query \/ query' = Idle)
    BY <1>fails DEF AdmissionFails, Released
  <2>2. QED
    BY <1>0, <1>2, <1>3, <1>4, <2>1 DEF Answered
<1>install. CASE Install
  <2>1. lock.step # "held" /\ (query' = query \/ query'.step = "admitted")
    BY <1>install, InstallLock
  <2>2. QED
    BY <1>2, <1>3, <1>4, <2>1 DEF Answered
<1>observer. CASE ObserverLocks
  <2>1. query' = query /\ lock = Free
    BY <1>observer DEF ObserverLocks, BeginRefresh
  <2>2. QED
    BY <1>2, <1>4, <2>1, FreeLock
<1>query. CASE QueryLocks
  <2>1. query'.step = "refreshing"
    BY <1>query, <1>1, Moves DEF QueryLocks, Locked
  <2>2. QED
    BY <1>3, <2>1 DEF Answered
<1>take. CASE TakeServer
  <2>1. query'.step = "taken"
    BY <1>take, <1>1, Moves DEF TakeServer, Locked
  <2>2. QED
    BY <1>3, <2>1 DEF Answered
<1>synchronize. CASE Synchronize
  <2>1. query'.step = "synchronized" /\ query'.path = query.path /\ query'.text = query.text
    BY <1>synchronize, <1>1, Moves DEF Synchronize, Locked
  <2>2. query.path \in DOMAIN server'.docs /\ server'.docs[query.path].text = query.text
    <3>1. CASE Kept
      BY <1>synchronize, <3>1, SyncTypes DEF Kept, Document
    <3>2. CASE ~Kept
      <4>1. server'.docs = NewDocs
        BY <1>synchronize, <3>2, SyncTypes
      <4>2. query.path \in DOMAIN NewDocs /\ NewDocs[query.path] = NewDoc
        BY DEF NewDocs
      <4>3. NewDoc.text = query.text
        BY DEF NewDoc
      <4>4. QED
        BY <4>1, <4>2, <4>3
    <3>3. QED
      BY <3>1, <3>2
  <2>3. QED
    BY <2>1, <2>2 DEF Synchronized, Document, Answered
<1>read. CASE ReadReport
  <2>1. query' = query /\ query.step = "synchronized" /\ server \in Server
    BY <1>0, <1>read, Known DEF ReadReport, Served
  <2>2. server'.docs = ReadDocs
    BY <1>read, <2>1, ReadTypes DEF Server
  <2>3. query.path \in DOMAIN server.docs /\ server.docs[query.path].text = query.text
    BY <1>0, <2>1 DEF Synchronized, Document
  <2>4. PICK paths \in SUBSET Files : server.docs \in [paths -> Doc]
    BY <2>1, DocsDef DEF Server
  <2>5. Concerns(Message) => ReadDoc.text = server.docs[Message.path].text
    BY <2>4 DEF Concerns, ReadDoc, Doc
  <2>6. query.path \in DOMAIN ReadDocs /\ ReadDocs[query.path].text = query.text
    BY <2>3, <2>5 DEF ReadDocs
  <2>7. QED
    BY <2>1, <2>2, <2>6 DEF Synchronized, Document, Answered
<1>respond. CASE Respond
  <2>1. query.step = "synchronized" /\ server.up
    BY <1>0, <1>respond DEF Respond, Served
  <2>2. query.path \in DOMAIN server.docs /\ Document.text = query.text
    BY <1>0, <2>1 DEF Synchronized
  <2>3. Document.reported = Document.version => Document.report \subseteq {query.text}
    BY <1>0, <2>1, <2>2 DEF Reports, Document
  <2>4. /\ query'.step = "rechecking" /\ query'.text = query.text
        /\ query'.items = Pulled \union Document.report /\ query'.items # {}
        /\ query'.fresh = Current
    BY <1>respond, RespondTypes
  <2>5. Current => query'.items = {query.text}
    BY <2>2, <2>3, <2>4 DEF Current, Pulled
  <2>6. QED
    BY <2>4, <2>5 DEF Synchronized
<1>pending. CASE Pending
  BY <1>0, <1>3, <1>pending DEF Pending, Answered
<1>recheck. CASE RecheckInput
  <2>1. query.step = "rechecking"
    BY <1>recheck DEF RecheckInput
  <2>2. CASE query' = Idle
    BY <1>0, <1>3, <2>2 DEF Answered
  <2>3. CASE query' = query
    BY <1>4, <2>1, <2>3
  <2>4. CASE query' = [query EXCEPT !.step = "released"]
    <3>1. query'.step = "released" /\ query'.fresh = query.fresh /\ query'.items = query.items
          /\ query'.text = query.text
      BY <1>1, <2>1, <2>4, Moves DEF Answered
    <3>2. QED
      BY <1>0, <2>1, <3>1 DEF Synchronized, Answered
  <2>5. QED
    BY <1>recheck, <2>2, <2>3, <2>4, RecheckEffect
<1>return. CASE Return
  <2>1. query.step = "released"
    BY <1>return DEF Return
  <2>2. CASE query' = Idle
    BY <1>0, <1>3, <2>2 DEF Answered
  <2>3. CASE query' = [query EXCEPT !.step = "returned"]
    <3>1. query'.step = "returned" /\ query'.fresh = query.fresh /\ query'.items = query.items
          /\ query'.text = query.text
      BY <1>1, <2>1, <2>3, Moves DEF Answered
    <3>2. QED
      BY <1>0, <2>1, <3>1 DEF Synchronized, Answered
  <2>4. QED
    BY <1>return, <2>2, <2>3 DEF Return
<1>drop. CASE DropQuery
  BY <1>0, <1>3, <1>drop DEF DropQuery, Answered
<1>q. QED
  BY <1>quiet, <1>ask, <1>publish, <1>check, <1>fails, <1>install, <1>observer, <1>query,
     <1>take, <1>synchronize, <1>read, <1>respond, <1>pending, <1>recheck, <1>return, <1>drop
     DEF Next, Refreshing, Observing, Querying
-----------------------------------------------------------------------------
(* The invariant, and what it says of what a query returns.                *)
LEMMA ServicesInitially == Init => IInv
<1> SUFFICES ASSUME Init PROVE IInv
  OBVIOUS
<1>1. TypeOK
  BY TypesInitially
<1>2. /\ query = Idle /\ Idle.step = "idle" /\ lock = Free /\ observer = "off"
      /\ view = NoView /\ server = NoServer /\ ~NoServer.up
  BY DEF Init, Idle, NoServer
<1>3. Exclusive /\ Placed
  BY <1>2, FreeLock DEF Exclusive, Placed, Locked, Nobody
<1>4. Served /\ Reports
  BY <1>2 DEF Served, Reports
<1>5. Copied
  BY <1>2, FreeLock DEF Copied, NoView
<1>6. Witnessed /\ Synchronized
  BY <1>2 DEF Witnessed, Synchronized, Answered
<1>7. QED
  BY <1>1, <1>3, <1>4, <1>5, <1>6 DEF IInv, Sound

LEMMA Inductive == IInv /\ [Next]_vars => IInv'
<1> SUFFICES ASSUME IInv, [Next]_vars PROVE IInv'
  OBVIOUS
<1>1. CASE Next
  BY <1>1, TypesInductive, LockInductive, ServerInductive, CopiedInductive,
     WitnessedInductive, ReportsInductive, SynchronizedInductive DEF IInv, Sound
<1>2. CASE UNCHANGED vars
  <2>1. /\ TypeOK' = TypeOK /\ Exclusive' = Exclusive /\ Placed' = Placed
        /\ Served' = Served /\ Copied' = Copied
    BY <1>2 DEF vars, TypeOK, Exclusive, Placed, Served, Copied
  <2>2. Witnessed' = Witnessed /\ Reports' = Reports /\ Synchronized' = Synchronized
    BY <1>2 DEF vars, Witnessed, Reports, Synchronized, Document
  <2>3. QED
    BY <2>1, <2>2 DEF IInv, Sound
<1>3. QED
  BY <1>1, <1>2

LEMMA Invariance == Spec => []IInv
BY ServicesInitially, Inductive, PTL DEF Spec

(* Every state of the language services has its type.                      *)
THEOREM TypeCorrect == Spec => []TypeOK
<1>1. IInv => TypeOK
  BY DEF IInv
<1>2. QED
  BY <1>1, Invariance, PTL

(* What the model is given comes from a server whose inputs the project    *)
(* had all at one moment after the answer, for any number of files,        *)
(* although they are copied and checked one by one while anybody edits.    *)
THEOREM ResultIsCurrentHolds == Spec => []ResultIsCurrent
<1>1. IInv => ResultIsCurrent
  BY DEF IInv, Sound, Witnessed, ResultIsCurrent
<1>2. QED
  BY <1>1, Invariance, PTL

(* Diagnostics called current are of the text of the query, for any number *)
(* of reports, published late, for other documents or without a version.   *)
THEOREM ReportIsOfItsTextHolds == Spec => []ReportIsOfItsText
<1>1. IInv => ReportIsOfItsText
  BY DEF IInv, Sound, Synchronized, Answered, ReportIsOfItsText
<1>2. QED
  BY <1>1, Invariance, PTL

===============================================================================
