---------------------------- MODULE SettingsStore ----------------------------
(***************************************************************************)
(* Saved settings (settings/store.rs): one session edits and saves them    *)
(* while a second process (startup.rs) writes the same file, a plugin      *)
(* policy may have to inspect each save first, and the workspace or the    *)
(* model may be replaced in between.                                       *)
(*                                                                         *)
(* A save is a task (the awaiting save), then a blocking worker that       *)
(* nothing can abort, then a clean-up.  The worker takes its locks one     *)
(* after the other and keeps them to its end; which locks are held follows *)
(* from the worker's step, so that each lock is a definition here and not  *)
(* a variable.  A setting's content is abstracted to who wrote it.         *)
(***************************************************************************)
EXTENDS Naturals, FiniteSets

CONSTANTS
    Saves,        \* saves the developer starts, one after another or not
    Others,       \* contents written by other processes
    Initially,    \* the content when the session starts
    NoOne,        \* nobody holds the file lock
    NoPlan,       \* no control: the policy does not ask for an inspection
    MaxControl    \* bound on the controls a session activates

Contents == Saves \union Others \union {Initially}
Gens == 1..MaxControl

ASSUME SettingsAssumption ==
    /\ Saves \intersect Others = {}
    /\ Initially \notin Saves \union Others
    /\ NoOne \notin Contents
    /\ NoPlan \notin Gens
    /\ MaxControl \in Nat

VARIABLES
    file,       \* what the settings file holds
    flock,      \* who holds the settings lock beside the file, across processes
    memory,     \* Handle::state
    uncertain,  \* Handle::uncertain
    control,    \* Handle::control: Disabled, Required or Ready(generation)
    alive,      \* the controls whose live flag is set
    opened,     \* number of controls activated so far
    place,      \* where a replacement of the workspace or the model stands
    held,       \* record.recovery_pending
    save,       \* per save: its awaiting task, its worker and its attempt
    gate,       \* per save: the receipt of its ConfigChange inspection
    hook,       \* per save: the inspecting hook: is it running, did it end well?
    panicked,   \* a worker panicked with the control or the runtime lock held
    mine,       \* history: what this session last put in the file, or loaded
    landed      \* history: the saves whose content reached the file

transition == <<control, alive, opened, place>>
settingsVars == <<file, flock, memory, uncertain, transition, held, save, gate, hook,
          panicked, mine, landed>>

Disabled == [kind |-> "disabled", gen |-> NoPlan]
Required == [kind |-> "required", gen |-> NoPlan]
Ready(g) == [kind |-> "ready", gen |-> g]
Controls == {Disabled, Required} \union {Ready(g) : g \in Gens}

\* The steps of a save, in order.  From "entered" to "synced" its worker holds
\* publication_transaction; "ended" is the worker's end before the clean-up.
Steps == {"none", "draft", "inspecting", "candidate", "queued",
          "entered", "admitted", "controlled", "locked", "renamed", "synced",
          "ended", "cleaned"}
Outcomes == {"none", "applied", "appliedUncertain", "publicationUncertain", "failed"}

Save == [step : Steps, base : Contents, gen : Gens \union {NoPlan},
         live : BOOLEAN, outcome : Outcomes]

\* An inspection that denied, was withdrawn, recorded its publication or was
\* reconciled is closed: it authorizes nothing any more.
GateStates == {"none", "open", "cleared", "closed"}

\* The types, and: the file lock belongs to the worker that is using it.
SettingsTypeOK ==
    /\ file \in Contents
    /\ flock \in Saves \union Others \union {NoOne}
    /\ flock \in Saves => save[flock].step \in {"locked", "renamed"}
    /\ memory \in Contents
    /\ uncertain \in BOOLEAN /\ held \in BOOLEAN /\ panicked \in BOOLEAN
    /\ control \in Controls
    /\ alive \subseteq Gens
    /\ opened \in 0..MaxControl
    /\ place \in {"steady", "revoked", "draining", "quiet", "stopping", "switching"}
    /\ save \in [Saves -> Save]
    /\ gate \in [Saves -> GateStates]
    /\ hook \in [Saves -> {"none", "running", "known", "unknown"}]
    /\ mine \in Contents
    /\ landed \subseteq Saves

SettingsInit ==
    /\ file = Initially /\ memory = Initially /\ mine = Initially
    /\ flock = NoOne /\ landed = {}
    /\ uncertain = FALSE /\ held = FALSE /\ panicked = FALSE
    /\ control \in {Disabled, Required}     \* with_live_settings
    /\ alive = {} /\ opened = 0
    /\ place = "steady"
    /\ save = [s \in Saves |-> [step |-> "none", base |-> Initially,
                  gen |-> NoPlan, live |-> FALSE, outcome |-> "none"]]
    /\ gate = [s \in Saves |-> "none"]
    /\ hook = [s \in Saves |-> "none"]

-----------------------------------------------------------------------------
(* The locks, by the step of the worker that holds them.                   *)

At(s, step) == save[s].step = step
Goto(s, step) == save' = [save EXCEPT ![s].step = step]
Gated(s) == save[s].gen # NoPlan

InTransaction == {"entered", "admitted", "controlled", "locked", "renamed", "synced"}
TransactionHeld == \E s \in Saves : save[s].step \in InTransaction
ControlHeld == \E s \in Saves : save[s].step \in {"controlled", "locked", "renamed"}
RuntimeHeld == \E s \in Saves :
    Gated(s) /\ save[s].step \in {"admitted", "controlled", "locked", "renamed", "synced"}

-----------------------------------------------------------------------------
(* The awaiting save.                                                      *)

\* The panel opens: Handle::draft reads the file and remembers its digest.
OpenPanel(s) ==
    /\ At(s, "none")
    /\ save' = [save EXCEPT ![s].step = "draft", ![s].base = file]
    /\ UNCHANGED <<file, flock, memory, uncertain, transition, held, gate, hook,
                   panicked, mine, landed>>

\* The panel is cancelled or dropped (SaveJob::cancel, its Drop): a flag only.
CancelSave(s) ==
    /\ save[s].step \notin {"none", "draft", "ended", "cleaned"} /\ save[s].live
    /\ save' = [save EXCEPT ![s].live = FALSE]
    /\ UNCHANGED <<file, flock, memory, uncertain, transition, held, gate, hook,
                   panicked, mine, landed>>

\* What is left of a save that returned: how it ended.  One that was never
\* inspected has nothing to clean up.
Over(step, how) == [step |-> step, base |-> Initially, gen |-> NoPlan,
                    live |-> FALSE, outcome |-> how]
Finish(s, how) ==
    save' = [save EXCEPT ![s] =
               Over(IF gate[s] = "none" THEN "cleaned" ELSE "ended", how)]

\* validate_host_control: the attempt, its control and the session must all
\* still be in force (a passed deadline is a refusal at any step).
Authorized(s) == save[s].live /\ save[s].gen \in alive /\ ~held

\* start_save, and save_with_attempt up to its first await.  A policy that is
\* Required but not Ready, and a busy lock, refuse the save (Refuse).
StartSave(s) ==
    /\ At(s, "draft")
    /\ ~uncertain                           \* ensure_save_available
    /\ ~ControlHeld /\ ~panicked            \* try_lock
    /\ control # Required
    /\ save' = [save EXCEPT ![s].gen = control.gen, ![s].live = TRUE,
                   ![s].step = IF control = Disabled THEN "candidate" ELSE "inspecting"]
    /\ UNCHANGED <<file, flock, memory, uncertain, transition, held, gate, hook,
                   panicked, mine, landed>>

\* begin_non_tool_owned and the start of the hook: one unfinished inspection at
\* a time.
Inspect(s) ==
    /\ At(s, "inspecting") /\ gate[s] = "none"
    /\ Authorized(s) /\ ~RuntimeHeld
    /\ \A t \in Saves : gate[t] # "open"
    /\ gate' = [gate EXCEPT ![s] = "open"]
    /\ hook' = [hook EXCEPT ![s] = "running"]
    /\ UNCHANGED <<file, flock, memory, uncertain, transition, held, save,
                   panicked, mine, landed>>

\* finish_non_tool_hook: the outcome is retained, also after a cancellation; an
\* unknown effect holds the session.
HookEnds(s) ==
    /\ hook[s] = "running" /\ ~RuntimeHeld
    /\ \E end \in {"known", "unknown"} :
         /\ hook' = [hook EXCEPT ![s] = end]
         /\ held' = (held \/ end = "unknown")
    /\ UNCHANGED <<file, flock, memory, uncertain, transition, save, gate,
                   panicked, mine, landed>>

\* settle_non_tool, and the dispatch's return.
SettleGate(s) ==
    /\ At(s, "inspecting") /\ gate[s] = "open" /\ hook[s] = "known"
    /\ Authorized(s) /\ ~RuntimeHeld
    /\ \/ gate' = [gate EXCEPT ![s] = "cleared"] /\ Goto(s, "candidate")
       \/ gate' = [gate EXCEPT ![s] = "closed"] /\ Finish(s, "failed")
    /\ UNCHANGED <<file, flock, memory, uncertain, transition, held, hook,
                   panicked, mine, landed>>

\* Any check or await before the worker may end the save: a cancelled attempt, a
\* busy lock, a policy without capability, a deadline, a changed workspace.
Refuse(s) ==
    /\ save[s].step \in {"draft", "inspecting", "candidate"}
    /\ Finish(s, "failed")
    /\ UNCHANGED <<file, flock, memory, uncertain, transition, held, gate, hook,
                   panicked, mine, landed>>

\* publish_candidate spawns the worker.
SpawnWorker(s) ==
    /\ At(s, "candidate") /\ save[s].live
    /\ Goto(s, "queued")
    /\ UNCHANGED <<file, flock, memory, uncertain, transition, held, gate, hook,
                   panicked, mine, landed>>

-----------------------------------------------------------------------------
(* The worker.                                                             *)

\* publication_transaction, the last look at the attempt, begin_publication.
Enter(s) ==
    /\ At(s, "queued") /\ ~TransactionHeld
    /\ IF save[s].live /\ ~uncertain
       THEN Goto(s, "entered") /\ uncertain' = TRUE
       ELSE Finish(s, "failed") /\ UNCHANGED uncertain
    /\ UNCHANGED <<file, flock, memory, transition, held, gate, hook,
                   panicked, mine, landed>>

\* The worker gives up before the file changed: finish_publication restores the
\* flag, and every lock is released.
GiveUp(s) ==
    /\ Finish(s, "failed") /\ uncertain' = FALSE
    /\ flock' = IF flock = s THEN NoOne ELSE flock

\* publish_config_change takes the runtime lock and validates the receipt.
Admit(s) ==
    /\ At(s, "entered") /\ Gated(s)
    /\ \/ Authorized(s) /\ gate[s] = "cleared"
          /\ Goto(s, "admitted") /\ UNCHANGED <<flock, uncertain>>
       \/ GiveUp(s)
    /\ UNCHANGED <<file, memory, transition, held, gate, hook, panicked, mine,
                   landed>>

\* publish: the control lock; the control must be the inspected one.
CheckControl(s) ==
    /\ IF Gated(s) THEN At(s, "admitted") ELSE At(s, "entered")
    /\ IF control = (IF Gated(s) THEN Ready(save[s].gen) ELSE Disabled)
       THEN Goto(s, "controlled") /\ UNCHANGED <<flock, uncertain>>
       ELSE GiveUp(s)
    /\ UNCHANGED <<file, memory, transition, held, gate, hook, panicked, mine,
                   landed>>

MutantLockFile(s) ==
    /\ At(s, "controlled")
    /\ \/ file = save[s].base
          /\ Goto(s, "locked") /\ UNCHANGED <<flock, uncertain>>
       \/ GiveUp(s)
    /\ UNCHANGED <<file, memory, transition, held, gate, hook, panicked, mine,
                   landed>>

\* settings_lock does not wait; under it the file must still be the draft's base.
LockFile(s) ==
    /\ At(s, "controlled")
    /\ \/ flock = NoOne /\ file = save[s].base
          /\ flock' = s /\ Goto(s, "locked") /\ UNCHANGED uncertain
       \/ GiveUp(s)
    /\ UNCHANGED <<file, memory, transition, held, gate, hook, panicked, mine,
                   landed>>

\* startup::save: the new file is renamed into place, or nothing happened.
Rename(s) ==
    /\ At(s, "locked")
    /\ \/ /\ file' = s /\ mine' = s /\ landed' = landed \union {s}
          /\ Goto(s, "renamed")
          /\ UNCHANGED <<flock, uncertain>>
       \/ GiveUp(s) /\ UNCHANGED <<file, mine, landed>>
    /\ UNCHANGED <<memory, transition, held, gate, hook, panicked>>

\* The directory is synchronized and the state replaced; a failed sync leaves
\* the session's copy as it was.  publish returns.
SyncDirectory(s) ==
    /\ At(s, "renamed")
    /\ \/ memory' = s
          /\ save' = [save EXCEPT ![s].step = "synced", ![s].outcome = "applied"]
       \/ UNCHANGED memory
          /\ save' = [save EXCEPT ![s].step = "synced", ![s].outcome = "appliedUncertain"]
    /\ flock' = IF flock = s THEN NoOne ELSE flock
    /\ UNCHANGED <<file, uncertain, transition, held, gate, hook, panicked, mine,
                   landed>>

MutantFinishPublication(s) ==
    /\ At(s, "synced")
    /\ \/ Finish(s, save[s].outcome)
       \/ Gated(s) /\ Finish(s, "appliedUncertain")
    /\ gate' = [gate EXCEPT ![s] = IF Gated(s) THEN "closed" ELSE @]
    /\ uncertain' = FALSE
    /\ UNCHANGED <<file, flock, memory, transition, held, hook, panicked, mine,
                   landed>>

\* The receipt records the publication (or the session's persistence fails and
\* the outcome is uncertain); then finish_publication.
FinishPublication(s) ==
    /\ At(s, "synced")
    /\ \/ Finish(s, save[s].outcome)
       \/ Gated(s) /\ Finish(s, "appliedUncertain")
    /\ gate' = [gate EXCEPT ![s] = IF Gated(s) THEN "closed" ELSE @]
    /\ uncertain' = (save'[s].outcome # "applied")
    /\ UNCHANGED <<file, flock, memory, transition, held, hook, panicked, mine,
                   landed>>

\* The locks whose guard this worker holds; publication_transaction survives.
Poisons(s) ==
    \/ save[s].step \in {"controlled", "locked", "renamed"}
    \/ Gated(s) /\ save[s].step # "entered"

MutantPanic(s) ==
    /\ save[s].step \in InTransaction
    /\ Finish(s, CASE save[s].step = "synced" -> "appliedUncertain"
                   [] OTHER                   -> "failed")
    /\ flock' = IF flock = s THEN NoOne ELSE flock
    /\ panicked' = (panicked \/ Poisons(s))
    /\ UNCHANGED <<file, memory, uncertain, transition, held, gate, hook, mine,
                   landed>>

\* The worker panics: publication_worker_result goes by the stage it had marked.
\* Nobody finishes the publication: the flag stays, and its locks are poisoned.
Panic(s) ==
    /\ save[s].step \in InTransaction
    /\ Finish(s, CASE save[s].step \in {"renamed", "synced"} ->
                        IF save[s].step = "synced" THEN "appliedUncertain"
                        ELSE "publicationUncertain"
                   [] save[s].step = "locked" -> "publicationUncertain"
                   [] OTHER                   -> "failed")
    /\ flock' = IF flock = s THEN NoOne ELSE flock
    /\ panicked' = (panicked \/ Poisons(s))
    /\ UNCHANGED <<file, memory, uncertain, transition, held, gate, hook, mine,
                   landed>>

\* SaveAttempt::drain once the save returned: wait for the hook, then close the
\* inspection of a save that was not published; an unknown effect holds instead,
\* and so does a clean-up that runs out of time, at the end of the turn.
CleanUp(s) ==
    /\ At(s, "ended") /\ ~RuntimeHeld
    /\ \/ /\ gate[s] = "open" /\ hook[s] # "running"
          /\ IF hook[s] = "known"
             THEN gate' = [gate EXCEPT ![s] = "closed"] /\ UNCHANGED held
             ELSE held' = TRUE /\ UNCHANGED gate
       \/ gate[s] = "open" /\ held' = TRUE /\ UNCHANGED gate
       \/ gate[s] # "open" /\ UNCHANGED <<gate, held>>
    /\ save' = [save EXCEPT ![s] = Over("cleaned", save[s].outcome)]
    /\ hook' = [hook EXCEPT ![s] = IF @ = "running" THEN @ ELSE "none"]
    /\ UNCHANGED <<file, flock, memory, uncertain, transition, panicked, mine,
                   landed>>

-----------------------------------------------------------------------------
(* Controls: activated at the start, replaced with the workspace or model. *)

MutantRevoke ==
    /\ place = "steady" /\ ~panicked
    /\ alive' = alive \ {control.gen}
    /\ control' = Required
    /\ place' = "revoked"
    /\ UNCHANGED <<file, flock, memory, uncertain, opened, held, save, gate, hook,
                   panicked, mine, landed>>

\* revoke_control, the first step of a workspace change.
Revoke ==
    /\ place = "steady" /\ ~ControlHeld /\ ~panicked
    /\ alive' = alive \ {control.gen}
    /\ control' = Required
    /\ place' = "revoked"
    /\ UNCHANGED <<file, flock, memory, uncertain, opened, held, save, gate, hook,
                   panicked, mine, landed>>

\* cancel_settings_controls: every attempt that has a receipt.
CancelControls(from, to) ==
    /\ place = from /\ ~RuntimeHeld /\ ~panicked
    /\ save' = [s \in Saves |->
                  [save[s] EXCEPT !.live = @ /\ gate[s] = "none"]]
    /\ place' = to
    /\ UNCHANGED <<file, flock, memory, uncertain, control, alive, opened, held,
                   gate, hook, panicked, mine, landed>>

\* quiesce_settings_controls: no hook runs and no inspection is open; or it runs
\* out of time and the session is held with no control.
Quiesced ==
    /\ place = "draining"
    /\ \/ /\ \A s \in Saves : hook[s] # "running" /\ gate[s] # "open"
          /\ place' = "quiet" /\ UNCHANGED held
       \/ place' = "steady" /\ held' = TRUE
    /\ UNCHANGED <<file, flock, memory, uncertain, control, alive, opened, save,
                   gate, hook, panicked, mine, landed>>

\* A model switch: the controls are cancelled, then replaced (require_control).
RequireControl ==
    /\ place = "stopping" /\ ~ControlHeld
    /\ control' \in {Required, Disabled}
    /\ place' = "switching"
    /\ UNCHANGED <<file, flock, memory, uncertain, alive, opened, held, save, gate,
                   hook, panicked, mine, landed>>

\* activate_control: at the start, and after the workspace or the model was
\* replaced, or their replacement refused.
Activate ==
    /\ place \in {"steady", "quiet", "switching"} /\ ~ControlHeld /\ ~panicked
    /\ \/ control' = Disabled /\ UNCHANGED <<alive, opened>>
       \/ /\ opened < MaxControl
          /\ opened' = opened + 1
          /\ alive' = (alive \ {control.gen}) \union {opened + 1}
          /\ control' = Ready(opened + 1)
    /\ place' = "steady"
    /\ UNCHANGED <<file, flock, memory, uncertain, held, save, gate, hook, panicked,
                   mine, landed>>

\* /reconcile closes the open inspections.
Reconcile ==
    /\ held /\ ~RuntimeHeld /\ ~panicked
    /\ held' = FALSE
    /\ gate' = [s \in Saves |-> IF gate[s] = "open" THEN "closed" ELSE gate[s]]
    /\ UNCHANGED <<file, flock, memory, uncertain, transition, save, hook, panicked,
                   mine, landed>>

-----------------------------------------------------------------------------
(* Other processes, and the end of this one.                               *)

\* startup::prepare or another session: lock, read, write or not, unlock.
OtherLocks(o) ==
    /\ flock = NoOne /\ flock' = o
    /\ file # o
    /\ UNCHANGED <<file, memory, uncertain, transition, held, save, gate, hook,
                   panicked, mine, landed>>
OtherWrites(o) ==
    /\ flock = o /\ file # o
    /\ file' = o
    /\ UNCHANGED <<flock, memory, uncertain, transition, held, save, gate, hook,
                   panicked, mine, landed>>
OtherUnlocks(o) ==
    /\ flock = o /\ flock' = NoOne
    /\ UNCHANGED <<file, memory, uncertain, transition, held, save, gate, hook,
                   panicked, mine, landed>>

\* The session's process ends, and the next one loads what the file holds.  An
\* end that interrupts no save leaves nothing behind and is not taken.
Restart ==
    /\ uncertain \/ \E s \in Saves : save[s].step \notin {"none", "draft", "cleaned"}
    /\ memory' = file /\ mine' = file
    /\ uncertain' = FALSE /\ panicked' = FALSE
    /\ flock' = IF flock \in Saves THEN NoOne ELSE flock
    /\ control' \in {Disabled, Required} /\ alive' = {} /\ place' = "steady"
    /\ held' = (held \/ \E s \in Saves : gate[s] = "open")
    /\ save' = [s \in Saves |->
                  IF At(s, "none") THEN save[s]
                  ELSE Over("cleaned", save[s].outcome)]
    /\ hook' = [s \in Saves |-> "none"]
    /\ UNCHANGED <<file, opened, gate, landed>>

SaveSteps(s) ==
    \/ StartSave(s) \/ Inspect(s) \/ HookEnds(s) \/ SettleGate(s) \/ Refuse(s)
    \/ SpawnWorker(s) \/ Enter(s) \/ Admit(s) \/ CheckControl(s) \/ LockFile(s)
    \/ Rename(s) \/ SyncDirectory(s) \/ FinishPublication(s) \/ CleanUp(s)

SettingsNext ==
    \/ \E s \in Saves :
         OpenPanel(s) \/ CancelSave(s) \/ SaveSteps(s) \/ Panic(s)
    \/ Revoke \/ CancelControls("revoked", "draining") \/ Quiesced
    \/ CancelControls("steady", "stopping") \/ RequireControl \/ Activate \/ Reconcile
    \/ \E o \in Others : OtherLocks(o) \/ OtherWrites(o) \/ OtherUnlocks(o)
    \/ Restart

SettingsSpec == SettingsInit /\ [][SettingsNext]_settingsVars
-----------------------------------------------------------------------------
(* What must hold.                                                         *)

\* A save never overwrites what its author has not seen: the content it replaces
\* is the one its draft was opened on, whatever other processes wrote since.
NoLostSettings ==
    [][\A s \in Saves : file' = s /\ file # s => file = save[s].base]_settingsVars

\* New work (Handle::current) is refused or runs on what this session last
\* saved: a publication that is under way, failed half-way or panicked never
\* leaves the older settings in use.
WorkSeesSaved == ~uncertain => memory = mine

\* A save that is reported as not applied did not reach the file, by any of the
\* worker's ends.
FailureMeansUnpublished ==
    \A s \in Saves : save[s].outcome = "failed" => s \notin landed

\* A save is published only under the policy it was inspected by: without one,
\* or with its control still current and in force and the inspection cleared.
\* So neither a revocation nor a withdrawal is overtaken by a publication.
InspectedPublication ==
    [][\A s \in Saves : landed' # landed /\ s \in landed' \ landed =>
         IF Gated(s) THEN /\ control = Ready(save[s].gen) /\ save[s].gen \in alive
                          /\ gate[s] = "cleared"
         ELSE control = Disabled]_settingsVars
=============================================================================
