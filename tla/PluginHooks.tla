---------------------------- MODULE PluginHooks ----------------------------
(***************************************************************************)
(* One-shot plugin hooks and the observers that outlive the pipeline which *)
(* started them (workflow/runtime/plugin_once.rs, plugin_observer.rs and   *)
(* the reserve, finish and settle steps of plugin_admission.rs,            *)
(* plugin_lifecycle.rs and plugin_non_tool.rs, driven by plugins/).        *)
(* The hooks of one component and one role: only these share a one-shot    *)
(* identity.  Each event runs one pipeline of reservation, run, raw        *)
(* outcome and settlement; the pipelines of several events overlap, since  *)
(* external backends call tools in parallel and observers are detached.    *)
(*                                                                         *)
(* An event is of one of these kinds:                                      *)
(*   pre       before a tool: the outcome is settled when it is retained   *)
(*   post      after a tool: settled with the lifecycle's other proposals  *)
(*   control   not about a tool: as post, but never settled while work is  *)
(*             held; a cancelled settings change may be closed later from  *)
(*             its retained outcome                                        *)
(*   observer  transferred to a job of its own once it runs                *)
(* Every runner may have effects: of the ones declared free of effects     *)
(* nothing needs to be reconciled.                                         *)
(***************************************************************************)
EXTENDS Naturals, FiniteSets

CONSTANTS
    Events,     \* operations of the session whose hook matches
    MaxEpoch    \* bound on the explicit activations

ASSUME PluginHooksAssumption == IsFiniteSet(Events) /\ MaxEpoch \in Nat \ {0}

VARIABLES
    epoch,      \* the durable activation of the component (0: never activated)
    held,       \* recovery_pending
    pipe,       \* the pipeline of each event
    runner,     \* what executes for each event
    attempt     \* the durable one-shot attempt of each event

vars == <<epoch, held, pipe, runner, attempt>>

Kinds == {"pre", "post", "control", "observer"}
\* "dropped": its future is gone (cancelled, failed or died) before the end.
Steps == {"idle", "planned", "reserved", "running", "returned", "retained", "done",
          "dropped"}
Results == {"none", "ok", "refused", "lost"}
States == {"none", "reserved", "unknown", "failed", "succeeded"}

TypeOK ==
    /\ epoch \in 0..MaxEpoch /\ held \in BOOLEAN
    /\ pipe \in [Events -> [step : Steps, kind : Kinds, bound : 0..MaxEpoch,
                            result : Results]]
    /\ runner \in [Events -> {"none", "live", "cleanup"}]
    /\ attempt \in [Events -> [state : States, epoch : 0..MaxEpoch,
                               attested : BOOLEAN,
                               transferred : BOOLEAN]]
    /\ \A e \in Events :
        /\ runner[e] = "live" =>
              \/ pipe[e].step = "running"
              \/ attempt[e].transferred

Init ==
    /\ epoch = 0 /\ held = FALSE
    /\ pipe = [e \in Events |-> [step |-> "idle", kind |-> "pre", bound |-> 0,
                                 result |-> "none"]]
    /\ runner = [e \in Events |-> "none"]
    /\ attempt = [e \in Events |-> [state |-> "none", epoch |-> 0,
                                    attested |-> FALSE, transferred |-> FALSE]]
-----------------------------------------------------------------------------
Unresolved(e) == attempt[e].state \in {"reserved", "unknown"} /\ ~attempt[e].attested

\* Mutant: the lease does not follow a detached cleanup.
MutantLeased(e) == pipe[e].step \in {"reserved", "running", "returned"}
\* The group's execution lease: its runners, their cleanup, and the pipeline
\* until it has retained what they returned.
Leased(e) ==
    \/ runner[e] # "none"
    \/ pipe[e].step \in {"reserved", "running", "returned"}

\* The token of own_post_lifecycle spans the groups and their settlement.
Owned(e) ==
    /\ pipe[e].kind \in {"post", "control"}
    /\ pipe[e].step \in {"reserved", "running", "returned", "retained"}

Step(e, s) == pipe' = [pipe EXCEPT ![e].step = s]
\* Of a pipeline that is over nothing is read again but its attempt.
Over == [step |-> "done", kind |-> "pre", bound |-> 0, result |-> "none"]
End(e) == pipe' = [pipe EXCEPT ![e] = Over]

\* A raw success counts only once its proposals were applied.
Verdict(result, applied) ==
    CASE result = "lost" -> "unknown"
      [] result = "ok" /\ applied -> "succeeded"
      [] OTHER -> "failed"

-----------------------------------------------------------------------------
(* plugin_hook_activation: an explicit invocation opens a new epoch, but   *)
(* never over effects that are not known.                                  *)
Activate ==
    /\ epoch < MaxEpoch
    /\ \A e \in Events : ~Unresolved(e)
    /\ epoch' = epoch + 1
    /\ UNCHANGED <<held, pipe, runner, attempt>>

(* An event arrives with the plan built for it: its declaration carries the *)
(* binding of the epoch then current, or is not one-shot.                   *)
Plan(e) ==
    /\ pipe[e].step = "idle" /\ ~held
    /\ \E bound \in {0, epoch} :
        pipe' = [pipe EXCEPT ![e].step = "planned", ![e].bound = bound]
    /\ UNCHANGED <<epoch, held, runner, attempt>>

\* Cross-operation eligibility, inside the lock of the reservation.
Consumed(e) == \E p \in Events :
    attempt[p].epoch = pipe[e].bound /\ attempt[p].state = "succeeded"
Stale(e) == pipe[e].bound \notin {0, epoch}
Refused(e) ==
    \/ held
    \/ Stale(e)
    \/ \E p \in Events : Unresolved(p)

\* plugin_once::reserve, in the transaction of one of its three callers.
Reserve(e, kinds) ==
    /\ pipe[e].step = "planned"
    /\ ~Refused(e)
    /\ IF pipe[e].bound # 0 /\ Consumed(e)
       THEN End(e) /\ UNCHANGED attempt
       ELSE /\ \E k \in kinds :
                  pipe' = [pipe EXCEPT ![e].step = "reserved", ![e].kind = k]
            /\ attempt' = IF pipe[e].bound = 0 THEN attempt
                          ELSE [attempt EXCEPT ![e].state = "reserved",
                                               ![e].epoch = pipe[e].bound]
    /\ UNCHANGED <<epoch, held, runner>>
ReservePluginHook(e) == Reserve(e, {"pre"})
ReservePostHook(e) == Reserve(e, {"post", "observer"})
ReserveNonToolHook(e) == Reserve(e, {"control", "observer"})
ReserveRefused(e) ==
    /\ pipe[e].step = "planned" /\ Refused(e)
    /\ End(e)
    /\ UNCHANGED <<epoch, held, runner, attempt>>

\* Every member of the group is reserved and prepared before any is run.
Launch(e) ==
    /\ pipe[e].step = "reserved" /\ ~held
    /\ Step(e, "running")
    /\ runner' = [runner EXCEPT ![e] = "live"]
    /\ UNCHANGED <<epoch, held, attempt>>

(* The runner ends, fails, or runs out of time: then its effects are not   *)
(* known and its blocking cleanup may go on.                               *)
Returns(e) ==
    /\ pipe[e].step = "running" /\ runner[e] = "live" /\ pipe[e].kind # "observer"
    /\ \E result \in Results \ {"none"} :
        /\ pipe' = [pipe EXCEPT ![e].step = "returned", ![e].result = result]
        /\ \E r \in IF result = "lost" THEN {"none", "cleanup"} ELSE {"none"} :
              runner' = [runner EXCEPT ![e] = r]
    /\ UNCHANGED <<epoch, held, attempt>>
CleanupEnds(e) ==
    /\ runner[e] = "cleanup"
    /\ runner' = [runner EXCEPT ![e] = "none"]
    /\ UNCHANGED <<epoch, held, pipe, attempt>>

\* The reservation must still be what the runner was started with.
SameAttempt(e) == ~attempt[e].attested

\* A raw outcome is retained once; unknown effects hold the session.
Retain(e, state) ==
    /\ pipe[e].step = "returned" /\ SameAttempt(e)
    /\ attempt' = IF pipe[e].bound = 0 THEN attempt
                  ELSE [attempt EXCEPT ![e].state = state]
    /\ held' = (held \/ pipe[e].result = "lost")
    /\ UNCHANGED <<epoch, runner>>
(* finish_plugin_hook settles at once; finish_post_hook and                *)
(* finish_non_tool_hook retain the raw outcome as unknown until the owner  *)
(* of the proposals settles it.                                            *)
FinishPluginHook(e) ==
    /\ pipe[e].kind = "pre" /\ Retain(e, Verdict(pipe[e].result, TRUE))
    /\ End(e)
FinishPostHook(e) ==
    /\ pipe[e].kind = "post" /\ Retain(e, "unknown")
    /\ Step(e, "retained")
FinishNonToolHook(e) ==
    /\ pipe[e].kind = "control" /\ Retain(e, "unknown")
    /\ Step(e, "retained")

\* settle_hooks, when the proposals of the lifecycle have been applied or not.
SettleHooks(e) ==
    /\ \E applied \in BOOLEAN :
          attempt' = IF pipe[e].bound = 0 THEN attempt
                     ELSE [attempt EXCEPT ![e].state = Verdict(pipe[e].result, applied)]
    /\ End(e)
    /\ UNCHANGED <<epoch, held, runner>>
SettlePostTool(e) ==
    /\ pipe[e].step = "retained" /\ pipe[e].kind = "post"
    /\ SettleHooks(e)
\* settle_non_tool needs its owner still active and every effect known.
MaySettle(e) == ~held /\ pipe[e].result # "lost"
SettleNonTool(e) ==
    /\ pipe[e].step = "retained" /\ pipe[e].kind = "control"
    /\ MaySettle(e)
    /\ SettleHooks(e)
SettleNonToolFails(e) ==
    /\ pipe[e].step = "retained" /\ pipe[e].kind = "control"
    /\ ~MaySettle(e)
    /\ Step(e, "dropped")
    /\ UNCHANGED <<epoch, held, runner, attempt>>

(* The pipeline's future is dropped at one of its awaits.  A runner it was *)
(* polling is cancelled, its cleanup may go on; an observer that was not   *)
(* transferred yet is revoked and nobody takes its result.                 *)
Drop(e) ==
    /\ pipe[e].step \in {"reserved", "running", "returned", "retained"}
    /\ pipe' = [pipe EXCEPT ![e].step = "dropped",
                            ![e].result = IF pipe[e].step = "retained" THEN @ ELSE "none"]
    /\ IF runner[e] = "live"
       THEN \E r \in {"none", "cleanup"} : runner' = [runner EXCEPT ![e] = r]
       ELSE UNCHANGED runner
    /\ UNCHANGED <<epoch, held, attempt>>

(* settle_cancelled_settings_control, once its runners have drained.       *)
CloseControl(e) ==
    /\ pipe[e].kind = "control" /\ pipe[e].step = "dropped" /\ ~Leased(e)
    /\ IF pipe[e].result \in {"ok", "refused"}
       THEN /\ attempt' = IF pipe[e].bound = 0 THEN attempt
                          ELSE [attempt EXCEPT ![e].state = "failed"]
            /\ End(e)
            /\ UNCHANGED held
       ELSE held' = TRUE /\ UNCHANGED <<attempt, pipe>>
    /\ UNCHANGED <<epoch, runner>>
-----------------------------------------------------------------------------
(* A declared observer is transferred as soon as it is dispatched: its     *)
(* pipeline goes on without it.                                            *)
Transfer(e) ==
    /\ pipe[e].kind = "observer" /\ pipe[e].step = "running"
    /\ runner[e] = "live" /\ ~held
    /\ attempt' = [attempt EXCEPT ![e].transferred = TRUE]
    /\ End(e)
    /\ UNCHANGED <<epoch, held, runner>>

(* ObserverLease::settle.  An owner that is held, cancelled or expired     *)
(* breaks the run off with unknown effects; a late original result is      *)
(* settled all the same.                                                   *)
ObserverEnds(e) ==
    /\ attempt[e].transferred /\ runner[e] = "live"
    /\ \E result \in Results \ {"none"} :
        /\ attempt' = [attempt EXCEPT ![e].transferred = FALSE,
                          ![e].state = IF @ = "none" THEN @ ELSE Verdict(result, TRUE)]
        /\ held' = (held \/ result = "lost")
        /\ \E r \in IF result = "lost" THEN {"none", "cleanup"} ELSE {"none"} :
              runner' = [runner EXCEPT ![e] = r]
    /\ UNCHANGED <<epoch, pipe>>

-----------------------------------------------------------------------------
(* reconcile_failed_plugin_once: the developer attests that this attempt   *)
(* failed, once its runner, cleanup and settlement have ended.             *)
Attest(e) ==
    /\ Unresolved(e)
    /\ ~Leased(e) /\ ~Owned(e)
    /\ attempt' = [attempt EXCEPT ![e].attested = TRUE]
    /\ UNCHANGED <<epoch, held, pipe, runner>>

\* The end of a turn holds the session over operations it did not settle.
Hold ==
    /\ \E e \in Events : pipe[e].step = "dropped"
    /\ held' = TRUE
    /\ UNCHANGED <<epoch, pipe, runner, attempt>>

(* reconcile, between turns: operations are closed, attempts are not.      *)
Reconcile ==
    /\ held
    /\ \A e \in Events : pipe[e].step \in {"idle", "done", "dropped"}
    /\ held' = FALSE
    /\ pipe' = [e \in Events |-> IF pipe[e].step = "dropped" THEN Over ELSE pipe[e]]
    /\ UNCHANGED <<epoch, runner, attempt>>

(* The process dies; the next start holds what was under way               *)
(* (observers: interrupt_restored).                                        *)
Restored(p) ==
    IF p.step \in {"idle", "done", "dropped"} THEN p
    ELSE IF p.step = "planned" THEN Over
    ELSE [p EXCEPT !.step = "dropped",
                   !.result = IF p.step = "retained" THEN @ ELSE "none"]
Crash ==
    /\ pipe' = [e \in Events |-> Restored(pipe[e])]
    /\ runner' = [e \in Events |-> "none"]
    /\ attempt' = [e \in Events |-> IF attempt[e].transferred
                                    THEN [attempt[e] EXCEPT !.transferred = FALSE]
                                    ELSE attempt[e]]
    /\ held' = (\/ held
                \/ \E e \in Events : \/ pipe'[e].step = "dropped"
                                      \/ attempt[e].transferred)
    /\ UNCHANGED epoch

Next ==
    \/ Activate \/ Hold \/ Reconcile \/ Crash
    \/ \E e \in Events :
        \/ Plan(e) \/ ReservePluginHook(e) \/ ReservePostHook(e)
        \/ ReserveNonToolHook(e) \/ ReserveRefused(e)
        \/ Launch(e) \/ Returns(e) \/ CleanupEnds(e)
        \/ FinishPluginHook(e) \/ FinishPostHook(e) \/ FinishNonToolHook(e)
        \/ SettlePostTool(e) \/ SettleNonTool(e) \/ SettleNonToolFails(e)
        \/ Drop(e) \/ CloseControl(e)
        \/ Transfer(e) \/ ObserverEnds(e) \/ Attest(e)

Spec == Init /\ [][Next]_vars
-----------------------------------------------------------------------------
(* The one-shot hooks keep OneShot's promise through overlapping events,   *)
(* dropped pipelines, detached cleanup, transferred observers, stale       *)
(* bindings, attestations and crashes: whatever the order, two runs of a   *)
(* one-shot hook never overlap, nothing replays over unknown effects (not  *)
(* even a declaration that omits once), and an attempt that was attested   *)
(* failed is never settled afterwards by the run it belongs to.            *)
HasAttempt(e) == attempt[e].state # "none"
Settler(e) ==
    \/ pipe[e].step \in {"reserved", "running", "returned", "retained"}
    \/ attempt[e].transferred
RunningOnce == {e \in Events : /\ HasAttempt(e)
                               /\ \/ runner[e] # "none"
                                  \/ Unresolved(e) /\ Settler(e)}
RunningPlain == {e \in Events : /\ ~HasAttempt(e)
                                /\ \/ runner[e] # "none"
                                   \/ pipe[e].step \in {"reserved", "running"}}
UnknownRuns == {e \in Events : Unresolved(e)} \ RunningOnce
IsConsumed == \E e \in Events : attempt[e].state = "succeeded"
                               /\ attempt[e].epoch = epoch

Promise == INSTANCE OneShot WITH running <- RunningOnce, plain <- RunningPlain,
                                 unknown <- UnknownRuns, consumed <- IsConsumed
OneShotKept == Promise!Spec
=============================================================================
