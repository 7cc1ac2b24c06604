---------------------------- MODULE TaskWorkflow ----------------------------
(***************************************************************************)
(* WorkflowSession (workflow/mod.rs) over the shared session record        *)
(* (workflow/runtime.rs): the developer's commands, worker turns, checks,  *)
(* reviews, acceptance, background observers, an agent's integration,      *)
(* cancellation, crash and resume.                                         *)
(*                                                                         *)
(* The session keeps a copy of the task (local) next to the one in the     *)
(* durable record (saved); the two are separate variables here because     *)
(* several handlers write one from the other.  Every change of the record  *)
(* is one atomic durable update (module SessionStore); a persistence error *)
(* holds the process until it is restarted, which is Crash followed by     *)
(* Resume.                                                                 *)
(***************************************************************************)
EXTENDS TaskState

CONSTANTS
    ArchiveLimit,  \* retained finished tasks (32 in the code)
    MaxGeneration  \* bound on the verification counter of a task

ASSUME WorkflowAssumption ==
    /\ ArchiveLimit \in Nat
    /\ MaxGeneration \in Nat

VARIABLES
    files,      \* digest of what is in the workspace now
    saved,      \* record.task
    phase,      \* record.phase: is a phase open?
    held,       \* record.recovery_pending
    lastSeen,   \* record.last_snapshot
    unsettled,  \* some operation of the record has an unknown outcome
    archived,   \* number of archived tasks
    agent,      \* the delegated agent that may be integrated; "absent" without agents
    observer,   \* the background observer (a writer) of the worker phase
    rewake,     \* a completed observer asks for a worker turn
    local,      \* WorkflowSession::task
    inspected,  \* WorkflowSession::resume_inspected
    pc,         \* where the session's handler stands
    cmd,        \* the command being handled
    captured,   \* digest the handler captured before it went on
    verdict,    \* result of the check or review that just finished
    spent,      \* history: correction rounds ever started for this task
    integrated  \* history: an agent's result was integrated since the last acceptance

recordVars == <<saved, phase, held, lastSeen, unsettled, archived>>
handler    == <<pc, cmd, captured, verdict>>
vars == <<files, saved, phase, held, lastSeen, unsettled, archived, agent,
          observer, rewake, local, inspected, pc, cmd, captured, verdict,
          spent, integrated>>

Commands == {"task", "work", "verify", "review", "correct", "accept",
             "abandon", "reconcile"}
Awaiting ==     \* the handler is at an await: others may step, it may be cancelled
    {"dispatch", "taskStop", "preparing", "working", "verifyQuiesce",
     "verifyCaptured", "verifying", "checking", "checked", "reviewQuiesce",
     "reviewCaptured", "reviewing", "reviewed", "acceptStop", "accepting",
     "abandonStop"}
Places == Awaiting \union {"idle", "publishing", "background", "down"}

\* how the turn being closed ended; "rewake" and its ends are an observer's turn
Outcomes == {"none", "failed", "cancelled", "rewake", "rewoken", "halted"}

AgentStates == {"absent", "none", "ready", "integrating", "uncertain", "settled"}

\* Is the session one with agents (DelegatingSession)?  Chosen at its start.
Delegation == agent # "absent"

TypeOK ==
    /\ files \in Digests
    /\ saved \in Task \union {NoTask}
    /\ phase \in BOOLEAN /\ held \in BOOLEAN /\ unsettled \in BOOLEAN
    /\ lastSeen \in Digests \union {NoDigest}
    /\ archived \in 0..ArchiveLimit
    /\ agent \in AgentStates
    /\ observer \in {"none", "running", "cancelled"}
    /\ rewake \in BOOLEAN
    /\ local \in Task \union {NoTask}
    /\ inspected \in BOOLEAN
    /\ pc \in Places
    /\ cmd \in Commands \union Outcomes
    /\ captured \in Digests \union {NoDigest}
    /\ verdict \in BOOLEAN
    /\ spent \in Nat
    /\ integrated \in BOOLEAN

Init ==
    /\ files \in Digests
    /\ saved = NoTask /\ local = NoTask
    /\ phase = FALSE /\ held = FALSE /\ unsettled = FALSE
    /\ lastSeen = NoDigest
    /\ archived = 0
    /\ agent \in {"absent", "none"}
    /\ observer = "none" /\ rewake = FALSE
    /\ inspected = TRUE
    /\ pc = "idle" /\ cmd = "none" /\ captured = NoDigest /\ verdict = FALSE
    /\ spent = 0 /\ integrated = FALSE

\* One more correction round; the history stops counting beyond the allowance.
Charged == IF spent > CorrectionLimit THEN spent ELSE spent + 1

-----------------------------------------------------------------------------
(* The frame of a turn.                                                    *)

\* The end of WorkflowSession::turn: save the local task, close the phase, and
\* hold the session when an operation is left without a known outcome.
EndTurn(t, end) ==
    /\ local' = t /\ saved' = t
    /\ phase' = FALSE
    /\ held' = (held \/ unsettled)
    /\ UNCHANGED unsettled
    /\ pc' = "publishing" /\ cmd' = end
    /\ captured' = NoDigest

Complete(t) == EndTurn(t, "none")

\* An early error return of a handler leaves the rest to the end of the turn.
Refuse(t) == EndTurn(t, "failed")

\* stop_task_observers: every live observer is told to stop and no completed one
\* will be delivered; the callers then wait until the resources are released.
StopObservers ==
    /\ observer' = IF observer = "running" THEN "cancelled" ELSE observer
    /\ rewake' = FALSE

MutantSubmit(c) ==
    /\ pc = "idle"
    /\ local' = saved
    /\ pc' = "dispatch" /\ cmd' = c
    /\ UNCHANGED <<files, recordVars, agent, observer, rewake, inspected,
                   captured, verdict, spent, integrated>>

\* turn: the parent must be available (DelegatingSession), and the local task
\* is reloaded from the record.
Submit(c) ==
    /\ pc = "idle"
    /\ agent # "integrating"
    /\ local' = saved
    /\ pc' = "dispatch" /\ cmd' = c
    /\ UNCHANGED <<files, recordVars, agent, observer, rewake, inspected,
                   captured, verdict, spent, integrated>>

\* dispatch on the first turn after a resume: a workspace that is not the one
\* last seen, or a conversation without a task, holds the session.
InspectResume ==
    /\ pc = "dispatch" /\ ~inspected
    /\ held' = (held \/ local = NoTask \/ lastSeen # files)
    /\ inspected' = TRUE
    /\ UNCHANGED <<files, saved, phase, lastSeen, unsettled, archived, agent,
                   observer, rewake, local, handler, spent, integrated>>

Handles(c) == pc = "dispatch" /\ inspected /\ cmd = c

\* publish: the state shown to the developer, and the digest kept for the next
\* resume (the capture may fail; an observer's turn does not publish).  A
\* cancelled turn, and with agents any that is not complete, then stops the
\* background work.
Publish ==
    /\ pc = "publishing"
    /\ \/ /\ local # NoTask /\ cmd \notin {"rewoken", "halted"}
          /\ saved' = local /\ lastSeen' = files
       \/ UNCHANGED <<saved, lastSeen>>
    /\ IF cmd \in {"cancelled", "halted"} \/ (cmd = "failed" /\ Delegation)
       THEN pc' = "background" /\ StopObservers
       ELSE pc' = "idle" /\ UNCHANGED <<observer, rewake>>
    /\ cmd' = "none"
    /\ UNCHANGED <<files, phase, held, unsettled, archived, agent, local,
                   inspected, captured, verdict, spent, integrated>>

-----------------------------------------------------------------------------
(* /reconcile, /task and /abandon.                                         *)

\* SharedRuntime::reconcile, after a capture of the files if there is a task.
Reconcile ==
    /\ Handles("reconcile")
    /\ agent # "integrating"
    /\ unsettled' = FALSE
    /\ lastSeen' = IF local = NoTask THEN NoDigest ELSE files
    /\ local' = local /\ saved' = local
    /\ phase' = FALSE /\ held' = FALSE
    /\ pc' = "publishing" /\ cmd' = "none" /\ captured' = NoDigest
    /\ UNCHANGED <<files, archived, agent, observer, rewake, inspected, verdict,
                   spent, integrated>>

\* /task is refused while work is held or the current task is not accepted.
TaskStop ==
    /\ Handles("task")
    /\ IF ~held /\ (local = NoTask \/ local.accepted # NoDigest)
       THEN /\ StopObservers /\ pc' = "taskStop"
            /\ UNCHANGED <<recordVars, local, cmd, captured>>
       ELSE Refuse(local) /\ UNCHANGED <<lastSeen, archived, observer, rewake>>
    /\ UNCHANGED <<files, agent, inspected, verdict, spent, integrated>>

\* archive refuses while a child assignment is unsettled or the history is full.
MayArchive == agent \in {"absent", "none", "settled"} /\ archived < ArchiveLimit

\* Once the observers are gone and left nothing unknown: archive the accepted
\* task, create, allocate, save and publish the new one (its capture may fail),
\* and go on to its first work.
TaskCreate ==
    /\ pc = "taskStop" /\ observer = "none"
    /\ ~held /\ MayArchive
    /\ archived' = IF saved = NoTask THEN archived ELSE archived + 1
    /\ spent' = 0 /\ integrated' = FALSE
    /\ \/ /\ local' = NewTask /\ saved' = NewTask
          /\ lastSeen' = files
          /\ pc' = "preparing"
          /\ UNCHANGED <<phase, held, unsettled, cmd, captured>>
       \/ Refuse(NewTask) /\ UNCHANGED lastSeen
    /\ UNCHANGED <<files, agent, observer, rewake, inspected, verdict>>

AbandonStop ==
    /\ Handles("abandon")
    /\ StopObservers
    /\ pc' = "abandonStop"
    /\ UNCHANGED <<files, recordVars, agent, local, inspected, cmd,
                   captured, verdict, spent, integrated>>

Abandon ==
    /\ pc = "abandonStop" /\ observer = "none"
    /\ MayArchive
    /\ archived' = IF saved = NoTask THEN archived ELSE archived + 1
    /\ Complete(NoTask)
    /\ spent' = 0 /\ integrated' = FALSE
    /\ UNCHANGED <<files, lastSeen, agent, observer, rewake, inspected, verdict>>

-----------------------------------------------------------------------------
(* work: an ordinary prompt, the first work of a task, a correction.       *)

\* /correct needs a task; an ordinary prompt does not.  Learning evidence is
\* prepared before the work starts.
Prepare ==
    /\ \/ Handles("work")
       \/ Handles("correct") /\ local # NoTask
    /\ pc' = "preparing"
    /\ UNCHANGED <<files, recordVars, agent, observer, rewake, local, inspected,
                   cmd, captured, verdict, spent, integrated>>

Correcting == cmd = "correct"

\* The task once work started on it, and whether start_work allows it.
Started  == IF local = NoTask THEN NoTask
            ELSE IF Correcting THEN StartCorrection(local) ELSE StartWork(local)
MayStart == IF local = NoTask THEN TRUE
            ELSE IF Correcting THEN MayCorrect(local) ELSE MayWork(local)

\* start_work, save_task and begin_phase, in this order: when begin_phase (or
\* the retention that follows it) refuses, the started task is already saved.
BeginWork ==
    /\ pc = "preparing" /\ MayStart
    /\ spent' = IF Correcting THEN Charged ELSE spent
    /\ \/ /\ ~held
          /\ local' = Started /\ saved' = Started
          /\ phase' = TRUE /\ pc' = "working"
          /\ UNCHANGED <<held, unsettled, cmd, captured>>
       \/ Refuse(Started)
    /\ UNCHANGED <<files, lastSeen, archived, agent, observer, rewake, inspected,
                   verdict, integrated>>

\* start_work refuses.  A correction is charged before its evidence is moved, so
\* a full history costs one.
RefuseWork ==
    /\ pc = "preparing" /\ ~MayStart
    /\ LET charged == Correcting /\ local.accepted = NoDigest
                        /\ local.corrections < CorrectionLimit
       IN  /\ Refuse(IF charged THEN [local EXCEPT !.corrections = @ + 1] ELSE local)
           /\ spent' = IF charged THEN Charged ELSE spent
    /\ UNCHANGED <<files, lastSeen, archived, agent, observer, rewake, inspected,
                   verdict, integrated>>

\* The worker's tools: admitted, changing files, settled.
ToolBegins ==
    /\ pc = "working" /\ ~unsettled /\ ~held
    /\ unsettled' = TRUE
    /\ UNCHANGED <<files, saved, phase, held, lastSeen, archived, agent, observer,
                   rewake, local, inspected, handler, spent, integrated>>
ToolWrites ==
    /\ pc = "working" /\ unsettled
    /\ files' \in Digests \ {files}
    /\ UNCHANGED <<recordVars, agent, observer, rewake, local, inspected, handler,
                   spent, integrated>>
ToolSettles ==
    /\ pc = "working" /\ unsettled
    /\ unsettled' = FALSE
    /\ UNCHANGED <<files, saved, phase, held, lastSeen, archived, agent, observer,
                   rewake, local, inspected, handler, spent, integrated>>

\* A post-tool plugin correction: the durable loop owner charges the task in
\* the record, behind the session's back.
PostToolCorrection ==
    /\ pc = "working" /\ saved # NoTask
    /\ ~saved.stopped /\ MayCorrect(saved)
    /\ saved' = StartCorrection(saved)
    /\ spent' = Charged
    /\ UNCHANGED <<files, phase, held, lastSeen, unsettled, archived, agent,
                   observer, rewake, local, inspected, handler, integrated>>

\* How a worker turn that returned is recorded by its caller.
TurnOutcome(outcome) ==
    CASE outcome = "cancelled" -> IF cmd = "rewake" THEN "halted" ELSE "cancelled"
      [] cmd = "rewake"        -> "rewoken"
      [] outcome = "failed"    -> "failed"
      [] OTHER                 -> "none"

EndWork(t, outcome) ==
    /\ pc = "working"
    /\ outcome = "complete" => ~unsettled
    /\ outcome = "cancelled" => ~Delegation \/ cmd = "rewake"
    /\ IF outcome = "complete" /\ Correcting
       THEN /\ local' = t
            /\ pc' = "verifyQuiesce"
            /\ UNCHANGED <<recordVars, cmd, captured>>
       ELSE EndTurn(t, TurnOutcome(outcome)) /\ UNCHANGED <<lastSeen, archived>>
    /\ UNCHANGED <<files, agent, observer, rewake, inspected, verdict, spent,
                   integrated>>

MutantWorkEnds(outcome) == EndWork(Stop(local), outcome)

\* inner.turn is over (complete, failed, out of time or cancelled): the task is
\* reloaded from the record, then marked stopped.  A rewake turn ends the same
\* way (observer_turn).
WorkEnds(outcome) == EndWork(Stop(saved), outcome)

-----------------------------------------------------------------------------
(* Observers: asynchronous hooks that outlive the turn that started them.  *)

ObserverStarts ==
    /\ pc = "working" /\ observer = "none" /\ ~held
    /\ saved # NoTask /\ saved.accepted = NoDigest
    /\ observer' = "running"
    /\ UNCHANGED <<files, recordVars, agent, rewake, local, inspected, handler,
                   spent, integrated>>

ObserverWrites ==
    /\ observer # "none" /\ pc # "down"
    /\ files' \in Digests \ {files}
    /\ UNCHANGED <<recordVars, agent, observer, rewake, local, inspected, handler,
                   spent, integrated>>

\* ObserverLease::settle: a failed or interrupted observer has unknown effects
\* and holds the session; an undisturbed one may ask for a worker turn.
ObserverSettles(uncertain) ==
    /\ observer # "none" /\ pc # "down"
    /\ observer' = "none"
    /\ held' = (held \/ uncertain)
    /\ rewake' \in IF observer = "running" /\ ~uncertain THEN BOOLEAN ELSE {rewake}
    /\ UNCHANGED <<files, saved, phase, lastSeen, unsettled, archived, agent,
                   local, inspected, handler, spent, integrated>>

\* observer_turn: the rewake is charged as a correction in the record and its
\* worker phase opened; an exhausted allowance then refuses the turn itself.
Rewake ==
    /\ pc = "idle" /\ rewake
    /\ agent # "integrating" /\ ~held
    /\ saved # NoTask /\ MayCorrect(saved)
    /\ saved' = StartCorrection(saved)
    /\ spent' = Charged
    /\ phase' = TRUE
    /\ rewake' = FALSE
    /\ \/ pc' = "working" /\ cmd' = "rewake"
       \/ UNCHANGED <<pc, cmd>>
    /\ UNCHANGED <<files, held, lastSeen, unsettled, archived, agent, observer,
                   local, inspected, captured, verdict, integrated>>

-----------------------------------------------------------------------------
(* verify: the selected checks, each executed and tied to captured files.  *)

QuiesceThenVerify ==
    /\ Handles("verify")
    /\ pc' = "verifyQuiesce"
    /\ UNCHANGED <<files, recordVars, agent, observer, rewake, local, inspected,
                   cmd, captured, verdict, spent, integrated>>

\* quiesce_observer_writers, then the capture the receipts will name.
VerifyCapture ==
    /\ pc = "verifyQuiesce"
    /\ observer = "none" /\ ~held
    /\ captured' = files
    /\ pc' = "verifyCaptured"
    /\ UNCHANGED <<files, recordVars, agent, observer, rewake, local, inspected,
                   cmd, verdict, spent, integrated>>

\* start_verification, save_task and begin_phase; a refusal after the first
\* leaves the evidence moved to the history.
VerifyBegin ==
    /\ pc = "verifyCaptured" /\ local # NoTask
    /\ MayVerify(local) /\ local.generation < MaxGeneration
    /\ LET t == StartVerification(local)
       IN \/ /\ ~held
             /\ local' = t /\ saved' = t /\ lastSeen' = captured
             /\ phase' = TRUE /\ pc' = "verifying"
             /\ UNCHANGED <<held, unsettled, cmd, captured>>
          \/ Refuse(t) /\ lastSeen' \in {lastSeen, captured}
    /\ UNCHANGED <<files, archived, agent, observer, rewake, inspected, verdict,
                   spent, integrated>>

\* A check command runs; it may itself change files.
CheckBegins ==
    /\ pc = "verifying" /\ ~held
    /\ unsettled' = TRUE
    /\ pc' = "checking"
    /\ UNCHANGED <<files, saved, phase, held, lastSeen, archived, agent, observer,
                   rewake, local, inspected, cmd, captured, verdict, spent,
                   integrated>>
CheckWrites ==
    /\ pc = "checking"
    /\ files' \in Digests \ {files}
    /\ UNCHANGED <<recordVars, agent, observer, rewake, local, inspected, handler,
                   spent, integrated>>
CheckFinishes(success) ==
    /\ pc = "checking"
    /\ unsettled' = FALSE
    /\ verdict' = success
    /\ pc' = "checked"
    /\ UNCHANGED <<files, saved, phase, held, lastSeen, archived, agent, observer,
                   rewake, local, inspected, cmd, captured, spent, integrated>>

WithCheck(success) ==
    [local EXCEPT !.checks =
        Append(@, [snapshot |-> captured, success |-> success])]

\* The receipt: a check counts as passed only if the files captured after it
\* are those captured before; otherwise verification stops here.
RetainCheck(success, stable) ==
    LET t == WithCheck(success)
    IN  /\ pc = "checked"
        /\ IF stable /\ Len(t.checks) < Checks
           THEN /\ local' = t /\ saved' = t
                /\ pc' = "verifying"
                /\ UNCHANGED <<phase, held, unsettled, cmd, captured>>
           ELSE IF Correcting
           THEN /\ local' = t /\ saved' = t
                /\ pc' = "reviewQuiesce"
                /\ captured' = NoDigest
                /\ UNCHANGED <<phase, held, unsettled, cmd>>
           ELSE Complete(t)
        /\ UNCHANGED <<files, lastSeen, archived, agent, observer, rewake,
                       inspected, verdict, spent, integrated>>

CheckReceiptRetained ==
    \/ RetainCheck(verdict /\ files = captured, files = captured)
    \/ RetainCheck(FALSE, FALSE)        \* the second capture failed

-----------------------------------------------------------------------------
(* review: an independent model judges the files and the checks.           *)

QuiesceThenReview ==
    /\ Handles("review")
    /\ pc' = "reviewQuiesce"
    /\ UNCHANGED <<files, recordVars, agent, observer, rewake, local, inspected,
                   cmd, captured, verdict, spent, integrated>>

ReviewCapture ==
    /\ pc = "reviewQuiesce"
    /\ observer = "none" /\ ~held
    /\ captured' = files
    /\ pc' = "reviewCaptured"
    /\ UNCHANGED <<files, recordVars, agent, observer, rewake, local, inspected,
                   cmd, verdict, spent, integrated>>

ChecksOn(t, d) ==
    /\ Checks > 0 /\ Len(t.checks) = Checks
    /\ \A i \in 1..Len(t.checks) : t.checks[i].snapshot = d

\* start_review moves the current review to the history first; missing checks,
\* other files or a hold then refuse the review.
ReviewBegin ==
    /\ pc = "reviewCaptured" /\ local # NoTask /\ MayReview(local)
    /\ LET t == StartReview(local)
       IN \/ /\ ChecksOn(t, captured) /\ ~held
             /\ local' = t /\ saved' = t
             /\ phase' = TRUE /\ unsettled' = TRUE
             /\ pc' = "reviewing"
             /\ UNCHANGED <<held, cmd, captured>>
          \/ Refuse(t)
    /\ UNCHANGED <<files, lastSeen, archived, agent, observer, rewake, inspected,
                   verdict, spent, integrated>>

ReviewDecides(clear) ==
    /\ pc = "reviewing"
    /\ unsettled' = FALSE
    /\ verdict' = clear
    /\ pc' = "reviewed"
    /\ UNCHANGED <<files, saved, phase, held, lastSeen, archived, agent, observer,
                   rewake, local, inspected, cmd, captured, spent, integrated>>

\* The receipt, if the files are still the reviewed ones (Fails otherwise).
ReviewReceiptRetained ==
    /\ pc = "reviewed" /\ files = captured
    /\ Complete([local EXCEPT !.review =
                   [snapshot |-> captured, generation |-> local.generation,
                    clear |-> verdict]])
    /\ UNCHANGED <<files, lastSeen, archived, agent, observer, rewake, inspected,
                   verdict, spent, integrated>>

-----------------------------------------------------------------------------
(* accept.                                                                 *)

\* quiesce, then stop_task_observers.
AcceptStop ==
    /\ Handles("accept")
    /\ observer = "none" /\ ~held
    /\ StopObservers
    /\ pc' = "acceptStop"
    /\ UNCHANGED <<files, recordVars, agent, local, inspected, cmd, captured,
                   verdict, spent, integrated>>

AcceptCapture ==
    /\ pc = "acceptStop"
    /\ observer = "none" /\ ~held
    /\ captured' = files
    /\ pc' = "accepting"
    /\ UNCHANGED <<files, recordVars, agent, observer, rewake, local, inspected,
                   cmd, verdict, spent, integrated>>

AcceptTask ==
    /\ pc = "accepting" /\ local # NoTask
    /\ MayAccept(local, captured)
    /\ Complete(Accept(local, captured))
    /\ lastSeen' = captured
    /\ integrated' = FALSE
    /\ UNCHANGED <<files, archived, agent, observer, rewake, inspected, verdict,
                   spent>>

-----------------------------------------------------------------------------
(* Errors, cancellation, crash and resume.                                 *)

MutantFails ==
    /\ pc \in Awaiting \ {"working", "checked", "taskStop"}
    /\ Refuse(local)
    /\ UNCHANGED <<files, lastSeen, archived, agent, observer, rewake, inspected,
                   verdict, spent, integrated>>

\* Every await of a handler may fail or run out of time, and the checks after
\* it may refuse: the handler returns its error and the turn ends.
Fails ==
    /\ pc \in Awaiting \ {"working", "checked"}
    /\ Refuse(local)
    /\ UNCHANGED <<files, lastSeen, archived, agent, observer, rewake, inspected,
                   verdict, spent, integrated>>

\* Without agents the handlers themselves receive Cancel, where they listen.
CancelInHandler ==
    /\ ~Delegation
    /\ pc \in {"preparing", "checking", "reviewing"}
    /\ EndTurn(local, "cancelled")
    /\ UNCHANGED <<files, lastSeen, archived, agent, observer, rewake,
                   inspected, verdict, spent, integrated>>

\* With agents, DelegatingSession drops the whole turn at whatever await it has
\* reached; between turns, Cancel goes to the background work directly.
CancelFromOutside ==
    /\ \/ pc = "idle"
       \/ Delegation /\ pc \in Awaiting \union {"publishing"} /\ cmd \notin {"rewake", "rewoken", "halted"}
    /\ StopObservers
    /\ pc' = "background" /\ cmd' = "none" /\ captured' = NoDigest
    /\ UNCHANGED <<files, recordVars, agent, local, inspected, verdict, spent,
                   integrated>>

MutantCancelBackground ==
    /\ pc = "background" /\ observer = "none"
    /\ IF Delegation
       THEN /\ local' = Stop(local) /\ saved' = Stop(local)
            /\ phase' = FALSE
            /\ held' = (held \/ agent = "integrating")
            /\ agent' = IF agent = "integrating" THEN "uncertain" ELSE agent
       ELSE UNCHANGED <<local, saved, phase, held, agent>>
    /\ pc' = "idle"
    /\ UNCHANGED <<files, lastSeen, unsettled, archived, observer, rewake,
                   inspected, cmd, captured, verdict, spent, integrated>>

\* cancel_background: nothing more without agents.  With agents the local task
\* is marked stopped and saved over the record's, the phase closed, and a live
\* integration becomes uncertain (Manager::mark_stopping).
CancelBackground ==
    /\ pc = "background" /\ observer = "none"
    /\ IF Delegation
       THEN /\ local' = Stop(local) /\ saved' = Stop(local)
            /\ phase' = FALSE
            /\ held' = (held \/ unsettled \/ agent = "integrating")
            /\ agent' = IF agent = "integrating" THEN "uncertain" ELSE agent
       ELSE UNCHANGED <<local, saved, phase, held, agent>>
    /\ pc' = "idle"
    /\ UNCHANGED <<files, lastSeen, unsettled, archived, observer, rewake,
                   inspected, cmd, captured, verdict, spent, integrated>>

\* The process ends at any point: only the record and the files remain.
Crash ==
    /\ pc # "down"
    /\ pc' = "down" /\ cmd' = "none" /\ captured' = NoDigest
    /\ local' = NoTask
    /\ UNCHANGED <<files, recordVars, agent, observer, rewake, inspected, verdict,
                   spent, integrated>>

\* open_with_session_hooks: interrupted work of any kind holds the session.
\* WorkflowSession::new marks its local copy stopped.
Resume ==
    /\ pc = "down"
    /\ held' = (held \/ observer # "none" \/ phase \/ unsettled
                     \/ agent = "integrating")
    /\ observer' = "none"
    /\ agent' = IF agent = "integrating" THEN "uncertain" ELSE agent
    /\ local' = Stop(saved)
    /\ inspected' = FALSE
    /\ pc' = "idle"
    /\ UNCHANGED <<files, saved, phase, lastSeen, unsettled, archived, rewake,
                   cmd, captured, verdict, spent, integrated>>

-----------------------------------------------------------------------------
(* The rest of the world: other programs, and the agents.                  *)

ExternalEdit ==
    /\ files' \in Digests \ {files}
    /\ UNCHANGED <<recordVars, agent, observer, rewake, local, inspected, handler,
                   spent, integrated>>

\* An agent is created and validated (module Subagents), cancelled or inspected.
AgentMoves ==
    /\ pc # "down"
    /\ \/ agent \in {"none", "settled"} /\ agent' = "ready"
       \/ agent \in {"ready", "uncertain"} /\ agent' = "settled"
    /\ UNCHANGED <<files, recordVars, observer, rewake, local, inspected, handler,
                   spent, integrated>>

\* Manager::start_integration, a developer control between turns: the task in
\* the record loses its evidence and its acceptance.
StartIntegration ==
    /\ pc = "idle" /\ agent = "ready" /\ ~held
    /\ IF saved = NoTask THEN UNCHANGED saved
       ELSE MayInvalidate(saved) /\ saved' = InvalidateForIntegration(saved)
    /\ agent' = "integrating"
    /\ UNCHANGED <<files, phase, held, lastSeen, unsettled, archived, observer,
                   rewake, local, inspected, handler, spent, integrated>>

IntegrationWrites ==
    /\ agent = "integrating" /\ pc # "down"
    /\ files' \in Digests \ {files}
    /\ UNCHANGED <<recordVars, agent, observer, rewake, local, inspected, handler,
                   spent, integrated>>

IntegrationEnds ==
    /\ agent = "integrating" /\ pc # "down"
    /\ \/ agent' = "settled" /\ integrated' = TRUE /\ UNCHANGED held
       \/ agent' = "uncertain" /\ held' = TRUE /\ UNCHANGED integrated
    /\ UNCHANGED <<files, saved, phase, lastSeen, unsettled, archived, observer,
                   rewake, local, inspected, handler, spent>>

-----------------------------------------------------------------------------
Handler ==
    \/ InspectResume \/ Publish \/ Reconcile
    \/ TaskStop \/ TaskCreate \/ AbandonStop \/ Abandon
    \/ Prepare \/ BeginWork \/ RefuseWork
    \/ \E outcome \in {"complete", "failed", "cancelled"} : WorkEnds(outcome)
    \/ QuiesceThenVerify \/ VerifyCapture \/ VerifyBegin \/ CheckBegins
    \/ \E success \in BOOLEAN : CheckFinishes(success)
    \/ CheckReceiptRetained
    \/ QuiesceThenReview \/ ReviewCapture \/ ReviewBegin
    \/ \E clear \in BOOLEAN : ReviewDecides(clear)
    \/ ReviewReceiptRetained
    \/ AcceptStop \/ AcceptCapture \/ AcceptTask
    \/ Fails \/ CancelBackground

Environment ==
    \/ \E c \in Commands : Submit(c)
    \/ ToolBegins \/ ToolWrites \/ ToolSettles \/ PostToolCorrection
    \/ ObserverStarts \/ ObserverWrites \/ Rewake
    \/ CheckWrites
    \/ CancelInHandler \/ CancelFromOutside \/ Crash \/ Resume
    \/ ExternalEdit
    \/ AgentMoves \/ StartIntegration \/ IntegrationWrites \/ IntegrationEnds

ObserverEnds == \E uncertain \in BOOLEAN : ObserverSettles(uncertain)

Next == Handler \/ Environment \/ ObserverEnds

Spec == Init /\ [][Next]_vars

\* Every await of a handler is bounded by the task deadline or a fixed timeout,
\* and an observer by its own deadline; nothing else is assumed to happen.
Fairness == WF_vars(Handler) /\ WF_vars(ObserverEnds)
FairSpec == Spec /\ Fairness

-----------------------------------------------------------------------------
(* Properties.                                                             *)

\* An accepted task, in the record and in the session's copy, still carries the
\* whole evidence its acceptance names: every selected check passed, and a
\* clear review of the same verification, all on the accepted digest.
AcceptedIsEvidenced ==
    \A t \in {saved, local} :
       t # NoTask /\ t.accepted # NoDigest => Reviewed(t, t.accepted)

\* A review that is still current is about the current checks: the same
\* verification run, all of its checks, and the same files.  Evidence of two
\* runs or of two states of the files is never combined.
ReviewMatchesChecks ==
    \A t \in {saved, local} :
       t # NoTask /\ t.review # NoReview =>
          t.review.generation = t.generation /\ ChecksOn(t, t.review.snapshot)

\* An operation with an unknown outcome (a cancelled tool, an interrupted check
\* or review, a crash) holds the session until the developer reconciles.
UnknownOutcomeIsHeld == pc = "idle" /\ unsettled => held

\* Acceptance is given only when nothing can still be changing the files behind
\* it: no hold, no operation or observer under way, no integration.
AcceptanceIsQuiet ==
    [][pc = "accepting" /\ local # local' /\ pc' = "publishing" =>
         ~held /\ ~unsettled /\ observer = "none" /\ agent # "integrating"]_vars

\* Without agents, the correction rounds ever started for a task (by /correct, by
\* a post-tool plugin, by a rewake, across crashes) stay within its allowance.
\* With agents the write of CancelBackground can erase one, like an acceptance's
\* invalidation in IntegrationInvalidates.
CorrectionAllowance == ~Delegation => spent <= CorrectionLimit

\* Every turn and every cancellation comes to an end (or the process does): no
\* handler waits forever for an observer it asked to stop.
TurnEnds == pc \notin {"idle", "down"} ~> pc \in {"idle", "down"}

\* README: "Successful integration invalidates parent acceptance and requires
\* fresh verification": after a successful integration the task is not accepted
\* until the developer accepts it anew.
IntegrationInvalidates ==
    integrated /\ saved # NoTask => saved.accepted = NoDigest

=============================================================================
