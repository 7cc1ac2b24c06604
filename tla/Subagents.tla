----------------------------- MODULE Subagents ------------------------------
(***************************************************************************)
(* The manager of delegated agents (subagents/manager.rs), its queue       *)
(* (schedule.rs), the supervision of finished work (supervision.rs) and    *)
(* the session that drives it (subagents/session.rs).                      *)
(*                                                                         *)
(* An assignment has a status in the durable record and, while a job of it *)
(* runs, an owner: a task of the runtime.  Owners write the status as they *)
(* go; the developer's controls and the cancellation of the parent write   *)
(* it too, and tell owners to stop only afterwards.  A launch is a step of *)
(* its own after the admission that reserved it.  An owner that is told to *)
(* stop gives up at its next await; that await is taken to be immediate.   *)
(* Left out: the replacement of the workspace, and a terminal that no      *)
(* longer takes events, which makes a launch fail.                         *)
(***************************************************************************)
EXTENDS Naturals, FiniteSets

CONSTANTS
    MaxAgents,        \* assignments of a session (32 in the code)
    ActiveLimit,      \* Settings::max_active
    CorrectionLimit,  \* correction rounds of supervision
    Lingering         \* may an owner's clean-up fail, or outlast the time until
                      \* the developer's next control of its agent?

Agents == 1..MaxAgents

ASSUME SubagentsAssumption ==
    /\ MaxAgents \in Nat
    /\ ActiveLimit \in Nat \ {0}
    /\ CorrectionLimit \in Nat
    /\ Lingering \in BOOLEAN

VARIABLES
    orchestrate,  \* is the session started, and resumed, with --orchestrate?
    status,       \* AgentRecord::status; "none" before the assignment
    needs,        \* OrchestrationState::dependencies
    completed,    \* AgentRecord::completed
    cleared,      \* checks and review allow the integration of the child's files
    corrections,  \* OrchestrationState::correction_rounds
    owners,       \* the live tasks that run a job
    launching,    \* jobs that are admitted but not registered yet
    stopping,     \* Manager::stopping
    paused,       \* Manager::queue_paused
    held,         \* record.recovery_pending
    control,      \* the developer's control being handled
    busy,         \* is a turn of the parent running?
    touched,      \* history: an unrecorded integration changed the parent's files
    merged        \* history: agents whose integration was recorded

record  == <<status, needs, completed, cleared, corrections>>
manager == <<owners, launching, stopping, paused>>
session == <<control, busy>>
history == <<orchestrate, touched, merged>>
vars == <<status, needs, completed, cleared, corrections, owners, launching,
          stopping, paused, held, control, busy, orchestrate, touched, merged>>

AgentStatus == {"Queued", "Preparing", "Running", "Stopped", "Failed",
                "Cancelled", "Uncertain", "Validating", "Ready", "Integrating",
                "Integrated"}
Active == {"Preparing", "Running", "Validating", "Integrating"}

Jobs == {"work", "validate", "integrate"}
Working == {"preparing", "working", "judging", "deciding", "validating",
            "inspecting", "merging"}

\* An owner is in the registry ("registered"), taken out of it by a control that
\* will tell it to stop ("taken") or waits for its end ("told"), or nobody waits
\* for it ("detached").  A new owner of an agent may meet one that is ending: the
\* slot tells the two apart, and a third is a bound of the model.
Owner == [agent : Agents, slot : {1, 2}, job : Jobs,
          step : Working \union {"ending", "pumping"},
          mode : {"registered", "taken", "told", "detached"}, ok : BOOLEAN]

Launch == [agent : Agents, job : Jobs, source : {"control", "pump"}]

Controls == [kind : {"none", "pump", "integrate", "reconcile", "cancel",
                     "cancelWait", "stop", "stopWait"},
             agent : Agents \union {0}]

NoControl == [kind |-> "none", agent |-> 0]
Doing(kind, a) == [kind |-> kind, agent |-> a]

TypeOK ==
    /\ orchestrate \in BOOLEAN
    /\ status \in [Agents -> AgentStatus \union {"none"}]
    /\ needs \in [Agents -> SUBSET Agents]
    /\ completed \in [Agents -> BOOLEAN] /\ cleared \in [Agents -> BOOLEAN]
    /\ corrections \in [Agents -> 0..CorrectionLimit]
    /\ owners \in SUBSET Owner /\ launching \in SUBSET Launch
    /\ stopping \in BOOLEAN /\ paused \in BOOLEAN /\ held \in BOOLEAN
    /\ control \in Controls /\ busy \in BOOLEAN
    /\ touched \in BOOLEAN /\ merged \in SUBSET Agents

Init ==
    /\ orchestrate \in BOOLEAN
    /\ status = [a \in Agents |-> "none"]
    /\ needs = [a \in Agents |-> {}]
    /\ completed = [a \in Agents |-> FALSE] /\ cleared = [a \in Agents |-> FALSE]
    /\ corrections = [a \in Agents |-> 0]
    /\ owners = {} /\ launching = {}
    /\ stopping = FALSE /\ paused = FALSE /\ held = FALSE
    /\ control = NoControl /\ busy = FALSE
    /\ touched = FALSE /\ merged = {}

Assigned == {a \in Agents : status[a] # "none"}
ActiveAgents == {a \in Agents : status[a] \in Active}
Integrating == \E a \in Agents : status[a] = "Integrating"

SetStatus(a, s) == status' = [status EXCEPT ![a] = s]

\* The developer's controls, and the parent, act one after another.
Free == control = NoControl /\ \A l \in launching : l.source # "control"

\* The clean-up of an owner is bounded (3 s for observers, 1 s for its backend).
CleanedUp(a) == Lingering \/ \A o \in owners : o.agent = a => o.step \in Working

-----------------------------------------------------------------------------
(* Admission: the queue and the registration of owners.                    *)

MutantEligible(a) ==
    status[a] = "Queued" /\ \A d \in needs[a] : status[d] \in {"Ready", "Integrated"}

\* schedule::gate and dependency_nodes: every prerequisite is integrated.
Eligible(a) ==
    status[a] = "Queued" /\ \A d \in needs[a] : status[d] = "Integrated"

\* schedule::admit_ready: the oldest eligible assignments fill the capacity.
Admitted ==
    {a \in Agents :
        /\ Eligible(a)
        /\ Cardinality({b \in Agents : Eligible(b) /\ b < a})
             + Cardinality(ActiveAgents) < ActiveLimit}

\* Manager::pump up to its launches.
Pump ==
    IF ~orchestrate \/ stopping \/ paused \/ held \/ Integrating
    THEN UNCHANGED <<status, launching>>
    ELSE /\ status' = [a \in Agents |->
                         IF a \in Admitted THEN "Preparing" ELSE status[a]]
         /\ launching' = launching \union
              {[agent |-> a, job |-> "work", source |-> "pump"] : a \in Admitted}

Expected(job) ==
    CASE job = "work" -> "Preparing"
      [] job = "validate" -> "Validating"
      [] job = "integrate" -> "Integrating"

FirstStep(job) ==
    CASE job = "work" -> "preparing"
      [] job = "validate" -> IF orchestrate THEN "judging" ELSE "validating"
      [] job = "integrate" -> "inspecting"

MutantTold(o, mode) == [o EXCEPT !.mode = mode]

\* The sender of an owner's cancel channel is used or dropped.
Told(o, mode) ==
    [o EXCEPT !.mode = mode,
              !.step = IF @ \in Working THEN "ending" ELSE @,
              !.ok = @ /\ o.step \notin Working]

MutantRegister(l) ==
    /\ l \in launching
    /\ status[l.agent] = Expected(l.job)
    /\ \E slot \in {1, 2} :
         /\ \A o \in owners : o.agent = l.agent => o.slot # slot
         /\ owners' =
              {IF o.agent = l.agent /\ o.mode = "registered"
               THEN Told(o, "detached") ELSE o : o \in owners}
              \union {[agent |-> l.agent, slot |-> slot, job |-> l.job,
                       step |-> FirstStep(l.job), mode |-> "registered",
                       ok |-> TRUE]}
    /\ launching' = launching \ {l}
    /\ UNCHANGED <<record, stopping, paused, held, session, history>>

\* Manager::launch: under the registry's lock, unless the manager is stopping or
\* the job was cancelled or superseded.  It replaces an older registration.
Register(l) ==
    /\ l \in launching
    /\ ~stopping /\ status[l.agent] = Expected(l.job)
    /\ \E slot \in {1, 2} :
         /\ \A o \in owners : o.agent = l.agent => o.slot # slot
         /\ owners' =
              {IF o.agent = l.agent /\ o.mode = "registered"
               THEN Told(o, "detached") ELSE o : o \in owners}
              \union {[agent |-> l.agent, slot |-> slot, job |-> l.job,
                       step |-> FirstStep(l.job), mode |-> "registered",
                       ok |-> TRUE]}
    /\ launching' = launching \ {l}
    /\ UNCHANGED <<record, stopping, paused, held, session, history>>

\* A refused launch: pump and start_integration settle the reservation, a
\* developer's assignment and start_validation only report the error.
RefuseLaunch(l) ==
    /\ l \in launching
    /\ stopping \/ status[l.agent] # Expected(l.job)
    /\ launching' = launching \ {l}
    /\ IF \/ l.source = "pump" /\ status[l.agent] \in {"Preparing", "Uncertain"}
          \/ l.job = "integrate" /\ status[l.agent] # "Integrated"
       THEN SetStatus(l.agent, "Uncertain")
       ELSE UNCHANGED status
    /\ UNCHANGED <<needs, completed, cleared, corrections, owners, stopping,
                   paused, held, session, history>>

-----------------------------------------------------------------------------
(* Controls: assignment, queue, validation, integration, reconciliation.   *)

\* start_after, by the developer or by the parent's model.  Admission is resumed
\* even if the assignment is then refused.
Assign(a, dependencies) ==
    /\ Free /\ ~Integrating
    /\ status[a] = "none" /\ \A b \in Agents : b < a => b \in Assigned
    /\ dependencies \subseteq {b \in Agents : b < a}
    /\ ~orchestrate => dependencies = {}
    /\ stopping' = FALSE
    /\ IF held \/ (~orchestrate /\ Cardinality(ActiveAgents) >= ActiveLimit)
       THEN UNCHANGED <<status, needs, launching, control>>
       ELSE /\ needs' = [needs EXCEPT ![a] = dependencies]
            /\ IF orchestrate
               THEN /\ SetStatus(a, "Queued")
                    /\ control' = Doing("pump", 0)
                    /\ UNCHANGED launching
               ELSE /\ SetStatus(a, "Preparing")
                    /\ launching' = launching \union
                         {[agent |-> a, job |-> "work", source |-> "control"]}
                    /\ UNCHANGED control
    /\ UNCHANGED <<completed, cleared, corrections, owners, paused, held, busy,
                   history>>

\* /agents-resume.
ResumeQueue ==
    /\ Free /\ ~busy /\ orchestrate /\ ~held
    /\ stopping' = FALSE /\ paused' = FALSE
    /\ control' = Doing("pump", 0)
    /\ UNCHANGED <<record, owners, launching, held, busy, history>>

PumpForControl ==
    /\ control.kind = "pump"
    /\ Pump
    /\ control' = NoControl
    /\ UNCHANGED <<needs, completed, cleared, corrections, owners, stopping,
                   paused, held, busy, history>>

\* /agent-validate: admit_agent_validation, then the launch.
StartValidation(a) ==
    /\ Free /\ ~busy /\ ~held /\ CleanedUp(a)
    /\ Cardinality(ActiveAgents) < ActiveLimit
    /\ completed[a] /\ status[a] \in {"Stopped", "Ready", "Failed"}
    /\ SetStatus(a, "Validating")
    /\ cleared' = [cleared EXCEPT ![a] = FALSE]
    /\ launching' = launching \union
         {[agent |-> a, job |-> "validate", source |-> "control"]}
    /\ UNCHANGED <<needs, completed, corrections, owners, stopping, paused, held,
                   session, history>>

MayIntegrate(a) ==
    /\ Cardinality(ActiveAgents) < ActiveLimit
    /\ status[a] = "Ready" /\ completed[a] /\ cleared[a]

\* /agent-integrate up to its captures of the child's files ...
StartIntegration(a) ==
    /\ Free /\ ~busy /\ ~held /\ ~Integrating /\ CleanedUp(a)
    /\ MayIntegrate(a)
    /\ control' = Doing("integrate", a)
    /\ UNCHANGED <<record, manager, held, busy, history>>

\* ... and its admission (the captures, or the second look, may refuse it).
AdmitIntegration ==
    /\ control.kind = "integrate"
    /\ control' = NoControl
    /\ LET a == control.agent
       IN \/ /\ MayIntegrate(a)
             /\ SetStatus(a, "Integrating")
             /\ launching' = launching \union
                  {[agent |-> a, job |-> "integrate", source |-> "control"]}
          \/ UNCHANGED <<status, launching>>
    /\ UNCHANGED <<needs, completed, cleared, corrections, owners, stopping,
                   paused, held, busy, history>>

\* /agent-reconcile: the status is read before the inspection of the worktree.
StartReconcile(a) ==
    /\ Free /\ ~busy /\ status[a] = "Uncertain" /\ CleanedUp(a)
    /\ control' = Doing("reconcile", a)
    /\ UNCHANGED <<record, manager, held, busy, history>>

ReconcileAgent ==
    /\ control.kind = "reconcile"
    /\ SetStatus(control.agent, "Failed") \/ UNCHANGED status
    /\ control' = NoControl
    /\ UNCHANGED <<needs, completed, cleared, corrections, manager, held, busy,
                   history>>

-----------------------------------------------------------------------------
(* The jobs.                                                               *)

Becomes(o, step) == owners' = (owners \ {o}) \union {[o EXCEPT !.step = step]}
Ends(o, ok) ==
    owners' = (owners \ {o}) \union {[o EXCEPT !.step = "ending", !.ok = ok]}

\* perform: the worktree is there, the worker may start.
WorktreePrepared(o) ==
    /\ o.step = "preparing"
    /\ SetStatus(o.agent, "Running")
    /\ Becomes(o, "working")
    /\ UNCHANGED <<needs, completed, cleared, corrections, launching, stopping,
                   paused, held, session, history>>

\* The worker's turn is complete; under supervision its evidence is judged next.
WorkerTurnEnds(o) ==
    /\ o.step = "working"
    /\ IF orchestrate
       THEN /\ SetStatus(o.agent, "Validating")
            /\ completed' = [completed EXCEPT ![o.agent] = TRUE]
            /\ Becomes(o, "judging")
       ELSE Ends(o, TRUE) /\ UNCHANGED <<status, completed>>
    /\ UNCHANGED <<needs, cleared, corrections, launching, stopping, paused, held,
                   session, history>>

\* collect_current_evidence: earlier evidence becomes history.
CollectEvidence(o) ==
    /\ o.step = "judging"
    /\ SetStatus(o.agent, "Validating")
    /\ cleared' = [cleared EXCEPT ![o.agent] = FALSE]
    /\ Becomes(o, "deciding")
    /\ UNCHANGED <<needs, completed, corrections, launching, stopping, paused,
                   held, session, history>>

\* supervision::run: the checks and the roles clear the work, hold it, or ask for
\* a correction.
Clear(o) ==
    /\ o.step = "deciding"
    /\ SetStatus(o.agent, "Ready")
    /\ cleared' = [cleared EXCEPT ![o.agent] = TRUE]
    /\ Ends(o, TRUE)
    /\ UNCHANGED <<needs, completed, corrections, launching, stopping, paused,
                   held, session, history>>

Hold(o) ==
    /\ o.step \in {"judging", "deciding"}
    /\ SetStatus(o.agent, "Failed")
    /\ Ends(o, TRUE)
    /\ UNCHANGED <<needs, completed, cleared, corrections, launching, stopping,
                   paused, held, session, history>>

Correct(o) ==
    /\ o.step = "deciding" /\ corrections[o.agent] < CorrectionLimit
    /\ corrections' = [corrections EXCEPT ![o.agent] = @ + 1]
    /\ SetStatus(o.agent, "Running")
    /\ Becomes(o, "working")
    /\ UNCHANGED <<needs, completed, cleared, launching, stopping, paused, held,
                   session, history>>

\* validate, without supervision: the checks passed and the reviewer decides.
ReviewEnds(o) ==
    /\ o.step = "validating"
    /\ \E clear \in BOOLEAN :
         /\ SetStatus(o.agent, IF clear THEN "Ready" ELSE "Stopped")
         /\ cleared' = [cleared EXCEPT ![o.agent] = clear]
    /\ Ends(o, TRUE)
    /\ UNCHANGED <<needs, completed, corrections, launching, stopping, paused,
                   held, session, history>>

\* worktree::integrate begins to change the parent's files ...
BeginMerge(o) ==
    /\ o.step = "inspecting"
    /\ touched' = TRUE
    /\ Becomes(o, "merging")
    /\ UNCHANGED <<record, launching, stopping, paused, held, session, merged,
                   orchestrate>>

\* ... and the record learns of it, if the integration is still wanted.
RecordMerge(o) ==
    /\ o.step = "merging"
    /\ IF ~stopping /\ status[o.agent] = "Integrating"
       THEN /\ SetStatus(o.agent, "Integrated")
            /\ touched' = FALSE
            /\ merged' = merged \union {o.agent}
            /\ Ends(o, TRUE)
       ELSE Ends(o, FALSE) /\ UNCHANGED <<status, touched, merged>>
    /\ UNCHANGED <<needs, completed, cleared, corrections, launching, stopping,
                   paused, held, session, orchestrate>>

\* Any step of a job may fail, and the shared deadline may pass.
JobFails(o) ==
    /\ o.step \in Working
    /\ Ends(o, FALSE)
    /\ UNCHANGED <<record, launching, stopping, paused, held, session, history>>

\* What finish_job makes of the status of the job's agent.
Outcomes(o, ok) ==
    LET s == status[o.agent]
    IN CASE o.job = "integrate" /\ (~ok \/ s # "Integrated") -> {"Uncertain"}
         [] ok /\ o.job = "work" /\ ~orchestrate
               /\ s \notin {"Uncertain", "Cancelled"} -> {"Stopped"}
         [] ~ok /\ o.job # "integrate" /\ s # "Cancelled" ->
               IF s \in {"Preparing", "Uncertain"} THEN {"Uncertain"}
               ELSE {"Uncertain", "Failed"}     \* with or without open operations
         [] OTHER -> {s}

MutantFinishJob(o) ==
    /\ o.step = "ending"
    /\ \E ok \in IF Lingering THEN {o.ok, FALSE} ELSE {o.ok} :
       \E outcome \in Outcomes(o, ok) :
         /\ SetStatus(o.agent, outcome)
         /\ UNCHANGED held
         /\ completed' = [completed EXCEPT ![o.agent] =
                            @ \/ (ok /\ o.job = "work" /\ outcome = "Stopped")]
    /\ Becomes(o, "pumping")
    /\ UNCHANGED <<needs, cleared, corrections, launching, stopping, paused,
                   session, history>>

\* The end of run: observers and backend are closed, then finish_job.
FinishJob(o) ==
    /\ o.step = "ending"
    /\ \E ok \in IF Lingering THEN {o.ok, FALSE} ELSE {o.ok} :
       \E outcome \in Outcomes(o, ok) :
         /\ SetStatus(o.agent, outcome)
         /\ held' = (held \/ (o.job = "integrate" /\ outcome = "Uncertain"))
         /\ completed' = [completed EXCEPT ![o.agent] =
                            @ \/ (ok /\ o.job = "work" /\ outcome = "Stopped")]
    /\ Becomes(o, "pumping")
    /\ UNCHANGED <<needs, cleared, corrections, launching, stopping, paused,
                   session, history>>

PumpForOwner(o) ==
    /\ o.step = "pumping"
    /\ Pump
    /\ owners' = owners \ {o}
    /\ UNCHANGED <<needs, completed, cleared, corrections, stopping, paused, held,
                   session, history>>

-----------------------------------------------------------------------------
(* Cancellation, of one agent and of all.                                  *)

\* An integration that is cut off holds the session; other unfinished or unused
\* work is cancelled.
AfterCancel(s) ==
    IF s = "Integrating" THEN "Uncertain"
    ELSE IF s \in {"Queued", "Preparing", "Running", "Stopped", "Failed",
                   "Validating", "Ready"}
    THEN "Cancelled" ELSE s

\* /agent-cancel: the registry and the record first; the owner is told only after
\* the agent's observers are stopped.
CancelAgent(a) ==
    /\ Free /\ a \in Assigned
    /\ owners' = {IF o.agent = a /\ o.mode = "registered"
                  THEN [o EXCEPT !.mode = "taken"] ELSE o : o \in owners}
    /\ SetStatus(a, AfterCancel(status[a]))
    /\ held' = (held \/ status[a] = "Integrating")
    /\ control' = Doing("cancel", a)
    /\ UNCHANGED <<needs, completed, cleared, corrections, launching, stopping,
                   paused, busy, history>>

\* mark_stopping, by cancel_all: Cancel or Shutdown, a turn of the parent that
\* failed, or Cancel while a control awaits, which drops that control.
Droppable == control.kind \in {"cancel", "cancelWait", "integrate", "reconcile"}

StopAll ==
    /\ Free \/ (~busy /\ Droppable)
    /\ stopping' = TRUE
    /\ status' = [a \in Agents |->
                    IF status[a] = "Queued" \/ status[a] \in Active
                    THEN AfterCancel(status[a]) ELSE status[a]]
    /\ held' = (held \/ Integrating)
    /\ owners' = {CASE o.mode = "registered" -> [o EXCEPT !.mode = "taken"]
                    [] o.mode \in {"taken", "told"} -> Told(o, "detached")
                    [] OTHER -> o : o \in owners}
    /\ control' = Doing("stop", 0)
    /\ busy' = FALSE
    /\ UNCHANGED <<needs, completed, cleared, corrections, launching, paused,
                   history>>

\* stop: the owners that were taken are told, and waited for.
Signal ==
    /\ control.kind \in {"cancel", "stop"}
    /\ owners' = {IF o.mode = "taken" THEN Told(o, "told") ELSE o : o \in owners}
    /\ control' = [control EXCEPT
                     !.kind = IF @ = "cancel" THEN "cancelWait" ELSE "stopWait"]
    /\ UNCHANGED <<record, launching, stopping, paused, held, busy, history>>

\* The 1.5 seconds are over: the task is aborted, and Interrupted is dropped.
AbortOwner(o) ==
    /\ control.kind \in {"cancelWait", "stopWait"}
    /\ o.mode = "told" /\ o.step = "ending"
    /\ LET lost == o.job = "integrate" /\ status[o.agent] # "Integrated"
       IN /\ SetStatus(o.agent, IF lost \/ status[o.agent] \in Active
                                THEN "Uncertain" ELSE status[o.agent])
          /\ held' = (held \/ lost)
    /\ owners' = owners \ {o}
    /\ UNCHANGED <<needs, completed, cleared, corrections, launching, stopping,
                   paused, session, history>>

Stopped ==
    /\ control.kind \in {"cancelWait", "stopWait"}
    /\ \A o \in owners : o.mode # "told"
    /\ control' = NoControl
    /\ UNCHANGED <<record, manager, held, busy, history>>

-----------------------------------------------------------------------------
(* The parent, and a restart.                                              *)

MutantParentTurnBegins ==
    /\ Free /\ ~busy /\ ~held
    /\ busy' = TRUE
    /\ UNCHANGED <<record, manager, held, control, history>>

\* ensure_parent_available, and a session that is not held.
ParentTurnBegins ==
    /\ Free /\ ~busy /\ ~Integrating /\ ~held
    /\ busy' = TRUE
    /\ UNCHANGED <<record, manager, held, control, history>>

ParentTurnCompletes ==
    /\ Free /\ busy
    /\ busy' = FALSE
    /\ UNCHANGED <<record, manager, held, control, history>>

\* /reconcile of the parent: the developer inspected the files.
ReconcileParent ==
    /\ Free /\ ~busy /\ held /\ ActiveAgents = {}
    /\ held' = FALSE /\ touched' = FALSE
    /\ UNCHANGED <<record, manager, session, merged, orchestrate>>

\* The process dies; open_with_session_hooks and Manager::new.
Restart ==
    /\ owners' = {} /\ launching' = {}
    /\ stopping' = FALSE
    /\ paused' = \E a \in Agents : status[a] = "Queued"
    /\ status' = [a \in Agents |->
                    IF a \in ActiveAgents THEN "Uncertain" ELSE status[a]]
    /\ held' = (held \/ ActiveAgents # {} \/ busy)
    /\ control' = NoControl /\ busy' = FALSE
    /\ UNCHANGED <<needs, completed, cleared, corrections, history>>

Next ==
    \/ \E l \in launching : Register(l) \/ RefuseLaunch(l)
    \/ \E a \in Agents :
         \/ \E dependencies \in SUBSET Agents : Assign(a, dependencies)
         \/ StartValidation(a) \/ StartIntegration(a) \/ StartReconcile(a)
         \/ CancelAgent(a)
    \/ ResumeQueue \/ PumpForControl \/ AdmitIntegration \/ ReconcileAgent
    \/ \E o \in owners :
         \/ WorktreePrepared(o) \/ WorkerTurnEnds(o) \/ CollectEvidence(o)
         \/ Clear(o) \/ Hold(o) \/ Correct(o) \/ ReviewEnds(o)
         \/ BeginMerge(o) \/ RecordMerge(o) \/ JobFails(o)
         \/ FinishJob(o) \/ PumpForOwner(o) \/ AbortOwner(o)
    \/ StopAll \/ Signal \/ Stopped
    \/ ParentTurnBegins \/ ParentTurnCompletes \/ ReconcileParent \/ Restart

Spec == Init /\ [][Next]_vars

-----------------------------------------------------------------------------
(* Properties.                                                             *)

\* Parent files that an integration changed without recording it are either in
\* the hands of that integration or hold the session until they are inspected:
\* through cancellation, abort, stop and restart.
UnrecordedMergeIsHeld ==
    touched => held \/ \E o \in owners :
                          o.job = "integrate" /\ o.step \in {"merging", "ending"}

\* The parent does not work while an integration changes its files.
ParentAlone == busy => \A o \in owners : o.step # "merging"

\* No two tasks work on one assignment, however it was cancelled and restarted.
OneWorker ==
    \A o, p \in owners :
        o.agent = p.agent /\ o.step \in Working /\ p.step \in Working => o = p

\* Once a cancellation or a shutdown told the owners, nothing works and nothing
\* queued starts, until the developer or the parent asks for agents again.
NothingRunsAfterStop ==
    stopping /\ control.kind # "stop" => \A o \in owners : o.step \notin Working

\* A dependent is released only after the integration of each prerequisite was
\* recorded, and never while another one changes the parent's files.
ReleaseFollowsIntegration ==
    [][\A a \in Agents : status[a] = "Queued" /\ status'[a] = "Preparing" =>
         needs[a] \subseteq merged /\ \A o \in owners : o.step # "merging"]_vars
=============================================================================
