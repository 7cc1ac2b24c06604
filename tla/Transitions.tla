---------------------------- MODULE Transitions ----------------------------
(***************************************************************************)
(* The two owned transitions of a session: the developer replaces its      *)
(* workspace (workflow/runtime/workspace_change.rs and replace_workspace), *)
(* or a saved assignment replaces its model (workflow/model_switch.rs,     *)
(* runtime/model_switch.rs and refresh_creator), by a new provider or live *)
(* inside Claude (adapters/claude.rs).  Each transition is an operation of *)
(* the durable record: Prepared, Teardown, Applied.  Between those stages  *)
(* the code awaits observers, the provider's close and hooks, and each of  *)
(* these awaits may fail, run out of time, be cancelled, be dropped        *)
(* (a session with agents drops the whole turn) or die with the process.   *)
(*                                                                         *)
(* Roots are numbered as they are installed: a selected directory is a new *)
(* occurrence even when its path was used before.  The session has no      *)
(* unaccepted task, which both transitions require.                        *)
(***************************************************************************)
EXTENDS Naturals, Sequences, FiniteSets, SequencesExt

CONSTANTS
    Models,      \* connections the session may use
    Native,      \* those with a checkpoint, which need no handoff
    Claude,      \* those that differ only in the model of one Claude account
    NoRoot,      \* no observer runs
    MaxOps,      \* bound on the transitions admitted
    MaxLives     \* bound on the native lifetimes (starts of the process)

ASSUME TransitionsAssumption ==
    /\ Native \subseteq Models /\ Claude \subseteq Models
    /\ Native \intersect Claude = {}
    /\ MaxOps \in Nat /\ MaxLives \in Nat \ {0}
    /\ NoRoot \notin Nat

Roots == 0..MaxOps

VARIABLES
    record,     \* the durable session record, without its operations
    ops,        \* its transitions, in order
    provider,   \* the session's inner provider: the root and the model it serves
    manager,    \* the agents' root and the barrier against parent turns
    observer,   \* the root of the running observer
    admission,  \* may observers start? (negation of admission_closed)
    session,    \* the live session: lifetime, resume inspection, agents or not
    doing       \* the turn in progress

vars == <<record, ops, provider, manager, observer, admission, session, doing>>

Kinds == {"workspace", "host", "live"}
Places == {"idle", "quiesce", "release", "pre", "effect", "observers", "closing",
           "post", "work"}
Deliveries == {"none", "pending", "sent", "delivered", "uncertain", "superseded"}

Operation == [kind : Kinds, life : 1..MaxLives, from : Roots \union Models,
              to : Roots \union Models,
              stage : {"prepared", "teardown", "applied"},
              complete : BOOLEAN, reconciled : BOOLEAN, hold : BOOLEAN,
              delivery : Deliveries,   \* of the handoff to the next prompt
              bound : BOOLEAN,         \* handoff.provider_operation is set
              reads : 0..2,            \* history: model calls that carried it
              inspected : BOOLEAN]     \* history: the developer has inspected it

TypeOK ==
    /\ record \in [root : Roots, model : Models, held : BOOLEAN, phase : BOOLEAN]
    /\ ops \in Seq(Operation) /\ Len(ops) <= MaxOps
    /\ provider \in [root : Roots, model : Models]
    /\ manager \in [root : Roots, barrier : BOOLEAN]
    /\ observer \in Roots \union {NoRoot}
    /\ admission \in BOOLEAN
    /\ session \in [life : 1..MaxLives, inspected : BOOLEAN, agents : BOOLEAN]
    /\ doing \in [at : Places, kind : Kinds, op : 0..MaxOps, cancelled : BOOLEAN]

Idle == [at |-> "idle", kind |-> "host", op |-> 0, cancelled |-> FALSE]
At(place) == doing.at = place
Reach(place) == doing' = [doing EXCEPT !.at = place]

NeedsReconciliation(o) == ~o.complete /\ ~o.reconciled
Unresolved(os) == \E i \in DOMAIN os : NeedsReconciliation(os[i])
\* operation(): the owner of a transition may still act on it.
Owned(o) == ~o.complete /\ ~o.reconciled /\ ~o.hold
Current == ops[doing.op]

\* finish_phase, at the end of a turn.
Settled(r, os) == [r EXCEPT !.phase = FALSE, !.held = @ \/ Unresolved(os)]
Held(r) == [r EXCEPT !.held = TRUE]

\* interrupt_workspace_change and interrupt_model_switch.  unsure: a hook of a
\* prepared switch has effects nobody has settled.
Interrupted(os, i) == [os EXCEPT ![i].complete = TRUE, ![i].hold = TRUE]
\* Mutant: a teardown counts as undone when nothing was applied after it.
MutantIsUncertain(o, unsure) == o.stage = "applied" \/ unsure

IsUncertain(o, unsure) == o.stage # "prepared" \/ unsure

\* A parent turn may start: ensure_parent_available of a session with agents.
ParentFree == At("idle") /\ ~manager.barrier
Barred(b) == manager' = [manager EXCEPT !.barrier = b]

\* Mutant: cancelled observers count as stopped.
MutantLiveObserversStopped == observer = NoRoot \/ ~admission

LiveObserversStopped == observer = NoRoot

Init ==
    /\ \E m \in Models : /\ record = [root |-> 0, model |-> m, held |-> FALSE,
                                      phase |-> FALSE]
                         /\ provider = [root |-> 0, model |-> m]
    /\ ops = <<>>
    /\ manager = [root |-> 0, barrier |-> FALSE]
    /\ observer = NoRoot
    /\ admission = TRUE
    /\ \E a \in BOOLEAN :
           session = [life |-> 1, inspected |-> TRUE, agents |-> a]
    /\ doing = Idle

-----------------------------------------------------------------------------
(* The common parts of both transitions.                                   *)

NewOperation(kind, from, to, delivery) ==
    [kind |-> kind, life |-> session.life, from |-> from, to |-> to,
     stage |-> "prepared", complete |-> FALSE, reconciled |-> FALSE,
     hold |-> FALSE, delivery |-> delivery, bound |-> FALSE, reads |-> 0,
     inspected |-> FALSE]

\* The turn is over.  A workspace change ends through dispatch, hence through
\* finish_phase; refresh_creator returns its errors before that.
EndTurn(r, os) ==
    /\ ops' = os
    /\ record' = IF doing.kind = "workspace" \/ At("work") THEN Settled(r, os) ELSE r
    /\ doing' = Idle

Interrupt(unsure) ==
    EndTurn([record EXCEPT !.held = @ \/ IsUncertain(Current, unsure)],
            Interrupted(ops, doing.op))

\* stop_observers: admission is closed at once, its three seconds are awaited.
TearDown(next) ==
    /\ ops' = [ops EXCEPT ![doing.op].stage = "teardown"]
    /\ admission' = (next = "effect")
    /\ Reach(next)

\* The observers did not stop in time (or the model Claude reports is not the one
\* admitted).  The error of a workspace change leaves its operation incomplete and
\* the barrier up; a switch's owner interrupts it.
ObserversLinger ==
    /\ At("observers") /\ (observer # NoRoot \/ doing.kind = "live")
    /\ IF doing.kind = "workspace" THEN EndTurn(record, ops) ELSE Interrupt(FALSE)
    /\ UNCHANGED <<provider, manager, observer, admission, session>>

ObserversStopped ==
    /\ At("observers") /\ doing.kind # "live" /\ LiveObserversStopped
    /\ Reach("closing")
    /\ UNCHANGED <<record, ops, provider, manager, observer, admission, session>>

\* Mutant: the close of the old provider is awaited without a grace.
MutantCloseFails ==
    /\ At("closing") /\ doing.kind # "workspace"
    /\ Interrupt(FALSE)
    /\ UNCHANGED <<provider, manager, observer, admission, session>>

\* The close fails, or a workspace change's grace runs out, or its close ends after
\* a Cancel.  A switch's close has no grace of its own.
CloseFails ==
    /\ At("closing")
    /\ Interrupt(FALSE)
    /\ UNCHANGED <<provider, manager, observer, admission, session>>

\* Cancel while a workspace change closes the old provider: remembered, and the
\* close goes on.  A session with agents takes the command before it gets here.
CancelClose ==
    /\ At("closing") /\ doing.kind = "workspace" /\ ~session.agents
    /\ ~doing.cancelled
    /\ doing' = [doing EXCEPT !.cancelled = TRUE]
    /\ UNCHANGED <<record, ops, provider, manager, observer, admission, session>>

-----------------------------------------------------------------------------
(* Replacing the workspace.                                                *)

\* /workspace PATH: checked as idle and reconciled, agents barred, the old
\* settings authority revoked; its quiescence is awaited.
BeginWorkspace ==
    /\ ParentFree /\ session.inspected
    /\ ~record.held /\ ~record.phase
    /\ \A i \in DOMAIN ops : ops[i].complete
    /\ manager.root = record.root
    /\ Len(ops) < MaxOps
    /\ Barred(session.agents)
    /\ doing' = [Idle EXCEPT !.at = "quiesce", !.kind = "workspace"]
    /\ UNCHANGED <<record, ops, provider, observer, admission, session>>

QuiesceFails ==
    /\ At("quiesce")
    /\ Barred(FALSE)
    /\ EndTurn(Held(record), ops)
    /\ UNCHANGED <<provider, observer, admission, session>>

\* begin_workspace_change: everything is checked again with the record locked.
MayAdmit == ~record.held /\ ~record.phase /\ ~Unresolved(ops)
            /\ \A i \in DOMAIN ops : ops[i].complete

AdmitWorkspace ==
    /\ At("quiesce") /\ MayAdmit
    /\ ops' = Append(ops, NewOperation("workspace", record.root, Len(ops) + 1,
                              IF provider.model \in Native THEN "none" ELSE "pending"))
    /\ doing' = [doing EXCEPT !.at = "release", !.op = Len(ops) + 1]
    /\ UNCHANGED <<record, provider, manager, observer, admission, session>>

\* Refused: the old settings authority is restored, or its loss holds the session.
AdmissionRefused ==
    /\ At("quiesce") /\ ~MayAdmit
    /\ Barred(FALSE)
    /\ \E lost \in BOOLEAN : EndTurn([record EXCEPT !.held = @ \/ lost], ops)
    /\ UNCHANGED <<provider, observer, admission, session>>

ReleaseWorkspace ==
    /\ At("release") /\ Owned(Current)
    /\ ~record.held /\ ~record.phase
    /\ TearDown("observers")
    /\ UNCHANGED <<record, provider, manager, observer, session>>

\* An observer has held the session in between: the error leaves the operation
\* incomplete and the barrier up.
ReleaseWorkspaceRefused ==
    /\ At("release") /\ record.held
    /\ EndTurn(record, ops)
    /\ UNCHANGED <<provider, manager, observer, admission, session>>

\* The handoffs of this lifetime that no prompt has taken yet.
Superseded(o) == /\ o.kind = "workspace" /\ o.life = session.life
                 /\ o.stage = "applied" /\ o.delivery = "pending"

\* apply_workspace_change
MayApplyWorkspace ==
    /\ Owned(Current) /\ Current.stage = "teardown"
    /\ LiveObserversStopped
    /\ ~record.held /\ ~record.phase
    /\ Current.from = record.root
    /\ (\E i \in DOMAIN ops : Superseded(ops[i])) => Current.delivery # "none"

\* Applied, and installed without an await in between: the new provider, the
\* agents' root, the new settings authority, open observer admission.
ApplyWorkspace ==
    /\ At("closing") /\ doing.kind = "workspace" /\ ~doing.cancelled
    /\ MayApplyWorkspace
    /\ ops' = [i \in DOMAIN ops |->
                  IF i = doing.op THEN [ops[i] EXCEPT !.stage = "applied"]
                  ELSE IF Superseded(ops[i])
                       THEN [ops[i] EXCEPT !.delivery = "superseded"] ELSE ops[i]]
    /\ record' = [record EXCEPT !.root = Current.to]
    /\ provider' = [root |-> Current.to, model |-> record.model]
    /\ manager' = [root |-> Current.to, barrier |-> FALSE]
    /\ admission' = TRUE
    /\ Reach("post")
    /\ UNCHANGED <<observer, session>>

\* The target was changed on disk, the allowance moved on, or a guard fails.
ApplyWorkspaceFails ==
    /\ At("closing") /\ doing.kind = "workspace" /\ ~doing.cancelled
    /\ Interrupt(FALSE)
    /\ UNCHANGED <<provider, manager, observer, admission, session>>

\* end_workspace_change, after CwdChanged: a failed observation or installation
\* holds the session at the new root.
EndWorkspace ==
    /\ At("post") /\ doing.kind = "workspace" /\ Owned(Current)
    /\ \E hold \in BOOLEAN :
           EndTurn([record EXCEPT !.held = @ \/ hold],
                   [ops EXCEPT ![doing.op].complete = TRUE, ![doing.op].hold = hold])
    /\ UNCHANGED <<provider, manager, observer, admission, session>>

-----------------------------------------------------------------------------
(* Switching the model, before the prompt that needs it.                   *)

\* refresh_creator: the new assignment differs from the connection.  An
\* initialized Claude is switched live, unless it runs that model already.
BeginSwitch(m) ==
    /\ ParentFree
    /\ ~record.held /\ ~record.phase
    /\ m # record.model
    /\ \A i \in DOMAIN ops : ops[i].kind = "workspace" \/ ops[i].complete
    /\ Len(ops) < MaxOps
    /\ \E kind \in {"host", "live"} :
           /\ kind = "live" => {m, record.model} \subseteq Claude
           /\ {m, record.model} \subseteq Claude => provider.model # m
           /\ ops' = Append(ops, NewOperation(kind, record.model, m, "none"))
           /\ doing' = [Idle EXCEPT !.at = "pre", !.kind = kind, !.op = Len(ops) + 1]
    /\ UNCHANGED <<record, provider, manager, observer, admission, session>>

\* PreModelSwitch refuses, or (live) the switch lost its release boundary: the
\* refusal is recorded and the provider is left alone.
SwitchRefused ==
    /\ At("pre") /\ Owned(Current)
    /\ EndTurn(record, [ops EXCEPT ![doing.op].complete = TRUE,
                                   ![doing.op].hold = TRUE])
    /\ UNCHANGED <<provider, manager, observer, admission, session>>

\* Cancel or an error before the release.  The live path holds in any case.
SwitchCancelled ==
    /\ At("pre")
    /\ \E unsure \in BOOLEAN : Interrupt(unsure \/ doing.kind = "live")
    /\ UNCHANGED <<provider, manager, observer, admission, session>>

ReleaseSwitch ==
    /\ At("pre") /\ Owned(Current)
    /\ ~record.held /\ ~record.phase
    /\ TearDown(IF doing.kind = "live" THEN "effect" ELSE "observers")
    /\ UNCHANGED <<record, provider, manager, observer, session>>

\* Claude answers set_model: it runs the new model from here on.
LiveEffect ==
    /\ At("effect")
    /\ provider' = [provider EXCEPT !.model = Current.to]
    /\ admission' = FALSE
    /\ Reach("observers")
    /\ UNCHANGED <<record, ops, manager, observer, session>>

\* Claude rejects, disconnects, stays silent for 30 seconds, or Cancel.
LiveEffectFails ==
    /\ At("effect")
    /\ Interrupt(TRUE)
    /\ UNCHANGED <<provider, manager, observer, admission, session>>

\* apply_model_switch: a host switch installs its new provider with the record; a
\* live one only records what Claude did already.
Switched ==
    /\ Owned(Current) /\ Current.stage = "teardown"
    /\ LiveObserversStopped
    /\ Current.from = record.model
    /\ ops' = [ops EXCEPT ![doing.op].stage = "applied"]
    /\ record' = [record EXCEPT !.model = Current.to]
    /\ provider' = [root |-> record.root, model |-> Current.to]
    /\ Reach("post")
    /\ UNCHANGED <<manager, observer, admission, session>>

ApplySwitch == At("closing") /\ doing.kind = "host" /\ Switched
RecordLiveSwitch == At("observers") /\ doing.kind = "live" /\ Switched

\* PostModelSwitch observed: owner.finish.
EndSwitch ==
    /\ At("post") /\ doing.kind # "workspace" /\ Owned(Current)
    /\ EndTurn(record, [ops EXCEPT ![doing.op].complete = TRUE])
    /\ UNCHANGED <<provider, manager, observer, admission, session>>

\* The observation is lost, or (live) cancelled.
PostSwitchFails ==
    /\ At("post") /\ doing.kind # "workspace"
    /\ Interrupt(FALSE)
    /\ UNCHANGED <<provider, manager, observer, admission, session>>

-----------------------------------------------------------------------------
(* Worker turns and the handoff of a replaced conversation.                *)

Deliverable(i) == /\ Superseded(ops[i]) /\ ops[i].to = record.root

\* begin_phase and begin_workspace_handoff_delivery: the newest pending handoff
\* becomes part of this prompt.
StartWork ==
    /\ ParentFree /\ session.inspected /\ ~record.held
    /\ record' = [record EXCEPT !.phase = TRUE]
    /\ admission' = TRUE
    /\ LET pending == {i \in DOMAIN ops : Deliverable(i)} IN
       IF pending = {}
       THEN /\ doing' = [Idle EXCEPT !.at = "work"]
            /\ UNCHANGED ops
       ELSE LET i == Max(pending) IN
            /\ doing' = [Idle EXCEPT !.at = "work", !.op = i]
            /\ ops' = [ops EXCEPT ![i].delivery = "sent"]
    /\ UNCHANGED <<provider, manager, observer, session>>

\* bind_workspace_handoff_provider: the first model call of a worker turn owns the
\* one handoff that is sent and unbound, whether or not its prompt carries it.
Unbound == {i \in DOMAIN ops : ops[i].delivery = "sent" /\ ~ops[i].bound}

BindProvider ==
    /\ At("work") /\ Cardinality(Unbound) = 1
    /\ \E i \in Unbound :
           /\ ops[i].life = session.life /\ ops[i].to = record.root
           /\ ops' = [ops EXCEPT ![i].bound = TRUE,
                                 ![i].reads = IF i = doing.op THEN @ + 1 ELSE @]
    /\ UNCHANGED <<record, provider, manager, observer, admission, session, doing>>

\* Mutant: a handoff whose turn failed is offered again.
MutantFinishWork ==
    /\ At("work")
    /\ \E done \in BOOLEAN :
           IF doing.op = 0 THEN EndTurn(record, ops)
           ELSE EndTurn(record,
                    [ops EXCEPT ![doing.op].delivery =
                                    IF @ = "sent" /\ done THEN "delivered" ELSE "pending",
                                ![doing.op].bound = FALSE])
    /\ UNCHANGED <<provider, manager, observer, admission, session>>

\* finish_workspace_handoff_delivery, then finish_phase.
FinishWork ==
    /\ At("work")
    /\ \E done \in BOOLEAN :
           LET i == doing.op
               outcome == IF ~ops[i].bound THEN "pending"
                          ELSE IF done THEN "delivered" ELSE "uncertain" IN
           IF i = 0 THEN EndTurn(record, ops)
           ELSE EndTurn([record EXCEPT !.held = @ \/ outcome = "uncertain"],
                        [ops EXCEPT ![i].delivery = outcome,
                                    ![i].hold = @ \/ outcome = "uncertain"])
    /\ UNCHANGED <<provider, manager, observer, admission, session>>

\* Cancel in a session with agents drops the turn at whatever it awaits; then
\* cancel_background stops the task's observers and finishes the phase.
DropTurn ==
    /\ session.agents /\ ~At("idle") /\ ~At("release")
    /\ LET owned == doing.kind # "workspace" /\ ~At("work")
           os == IF owned THEN Interrupted(ops, doing.op) ELSE ops
           r == [record EXCEPT !.held = @ \/ (owned /\ IsUncertain(Current, FALSE))] IN
       /\ ops' = os
       /\ \/ LiveObserversStopped /\ record' = Settled(r, os)
          \/ observer # NoRoot /\ record' = r     \* stop_task_observers timed out
    /\ doing' = Idle
    /\ UNCHANGED <<provider, manager, observer, admission, session>>

\* /reconcile EXPLANATION
Reconcile ==
    /\ ParentFree
    /\ ops' = [i \in DOMAIN ops |->
                  [ops[i] EXCEPT !.reconciled = @ \/ NeedsReconciliation(ops[i]),
                                 !.inspected = TRUE]]
    /\ record' = [record EXCEPT !.held = FALSE, !.phase = FALSE]
    /\ session' = [session EXCEPT !.inspected = TRUE]
    /\ UNCHANGED <<provider, manager, observer, admission, doing>>

\* The first dispatch of a resumed session that has no task holds it.
FirstDispatch ==
    /\ ParentFree /\ ~session.inspected
    /\ record' = Settled(Held(record), ops)
    /\ session' = [session EXCEPT !.inspected = TRUE]
    /\ UNCHANGED <<ops, provider, manager, observer, admission, doing>>

-----------------------------------------------------------------------------
(* Observers of the session's plugins, and the process itself.             *)

ObserverStarts ==
    /\ At("work") /\ admission /\ observer = NoRoot
    /\ observer' = record.root
    /\ UNCHANGED <<record, ops, provider, manager, admission, session, doing>>

\* It ends, or is stopped; effects it cannot account for hold the session.
ObserverEnds ==
    /\ observer # NoRoot
    /\ observer' = NoRoot
    /\ \E unsure \in BOOLEAN : record' = [record EXCEPT !.held = @ \/ unsure]
    /\ UNCHANGED <<ops, provider, manager, admission, session, doing>>

\* The process dies and the session is resumed on the recorded root and model.
Restart ==
    /\ session.life < MaxLives
    /\ LET os == [i \in DOMAIN ops |->
                     IF ops[i].delivery = "sent"
                     THEN [ops[i] EXCEPT !.delivery = "uncertain", !.hold = TRUE]
                     ELSE ops[i]] IN
       /\ ops' = os
       /\ record' = [record EXCEPT
              !.held = @ \/ record.phase \/ Unresolved(os) \/ observer # NoRoot
                         \/ \E i \in DOMAIN os :
                                os[i].kind = "workspace" /\ os[i].hold]
    /\ provider' = [root |-> record.root, model |-> record.model]
    /\ manager' = [root |-> record.root, barrier |-> FALSE]
    /\ observer' = NoRoot
    /\ admission' = TRUE
    /\ session' = [session EXCEPT !.life = @ + 1, !.inspected = FALSE]
    /\ doing' = Idle

\* The steps of a transition that have a time limit of their own.  A provider's close has
\* none: only the grace of a workspace change bounds it, so that its applications
\* are not among these steps.
Bounded == \/ ObserversLinger \/ ObserversStopped \/ CloseFails
           \/ QuiesceFails \/ AdmitWorkspace \/ AdmissionRefused
           \/ ReleaseWorkspace \/ ReleaseWorkspaceRefused \/ EndWorkspace
           \/ SwitchRefused \/ SwitchCancelled \/ ReleaseSwitch
           \/ LiveEffect \/ LiveEffectFails \/ RecordLiveSwitch
           \/ EndSwitch \/ PostSwitchFails

Next == \/ Bounded
        \/ BeginWorkspace \/ ApplyWorkspace \/ ApplyWorkspaceFails
        \/ \E m \in Models : BeginSwitch(m)
        \/ ApplySwitch \/ CancelClose \/ DropTurn
        \/ StartWork \/ BindProvider \/ FinishWork
        \/ Reconcile \/ FirstDispatch
        \/ ObserverStarts \/ ObserverEnds \/ Restart

Spec == Init /\ [][Next]_vars
FairSpec == Spec /\ WF_vars(Bounded)

-----------------------------------------------------------------------------
(* Properties                                                              *)

\* A transition was released, and was neither applied nor inspected since.
Torn == \E i \in DOMAIN ops : ops[i].stage = "teardown" /\ ~ops[i].inspected

\* The root and the model of the record change as the transitions promise: by one
\* application for each teardown, never under a worker turn; and after a teardown
\* that was interrupted, failed, was dropped or died with the process, no worker
\* turn starts before the developer has reconciled (begin_phase, finish_phase,
\* interrupt_*, apply_*, the resume).
Promise == INSTANCE Installation WITH
               root <- record.root, model <- record.model,
               torn <- Torn, working <- At("work")
InstallsAsPromised == Promise!Spec

\* Everything that acts for the session acts on the recorded root: a worker turn's
\* provider, the observers its plugins started, and the agents that may be launched
\* (provider installation, stop_observers, install_workspace).
OneRoot ==
    /\ At("work") => provider.root = record.root
    /\ observer # NoRoot => observer = record.root
    /\ ~manager.barrier => manager.root = record.root

\* The conversation of a replaced external provider is carried by one model call
\* at the most; a handoff recorded as delivered was carried, and one that was
\* carried is never offered again or superseded (begin_, bind_ and
\* finish_workspace_handoff_delivery, apply_workspace_change, the resume).
HandoffOnce == \A i \in DOMAIN ops :
    /\ ops[i].reads <= 1
    /\ ops[i].delivery = "delivered" => ops[i].reads = 1
    /\ ops[i].reads > 0 => ops[i].delivery \notin {"pending", "superseded"}

\* Every transition ends, also when the old provider of a workspace change never
\* closes (WORKSPACE_CLOSE_GRACE, the limits of observers and hooks).
InTransition == ~At("idle") /\ ~At("work")
TransitionEnds == InTransition ~> At("idle")

=============================================================================
