----------------------------- MODULE PostDelivery -----------------------------
(***************************************************************************)
(* How the result of a tool call reaches the model after its PostToolUse   *)
(* hooks (workflow/runtime/plugin_lifecycle.rs, tools.rs,                  *)
(* adapters/post_correction.rs and the turns of native.rs,                 *)
(* adapters/codex.rs and adapters/claude.rs).                              *)
(*                                                                         *)
(* Hooks let the work go on, hold it, or ask for a correction.  A native   *)
(* loop has the result in its conversation and may use it once the receipt *)
(* is released.  An external backend gets it by a frame whose delivery is  *)
(* reserved, sent and acknowledged; for a correction its turn is           *)
(* interrupted instead, and a new turn with a paid correction begins.      *)
(* Whatever is neither released nor acknowledged stops the phase: nothing  *)
(* is sent a second time.                                                  *)
(*                                                                         *)
(* One phase (the worker's, or an agent's).  Only calls whose event has a  *)
(* plan of hooks are counted.  Any await may fail; that ends the turn.     *)
(***************************************************************************)
EXTENDS Naturals, FiniteSets

CONSTANTS
    Calls,          \* tool calls of the phase
    Adapters,       \* subset of {"native", "codex", "claude"}
    Limit,          \* corrections allowed
    MaxSubmissions, \* bound on turns
    MaxSteers,      \* bound on the developer's corrections
    MaxDeaths       \* bound on restarts

NoCall == "no call"

ASSUME PostDeliveryAssumption ==
    /\ IsFiniteSet(Calls) /\ NoCall \notin Calls
    /\ Adapters \subseteq {"native", "codex", "claude"}
    /\ {Limit, MaxSubmissions, MaxSteers, MaxDeaths} \subseteq Nat

VARIABLES
    posts,          \* the retained receipt of each call
    authority,      \* [recovering, stopped, corrections] of the record
    invocation,     \* the last one: none, open, complete or quarantined
    talk,           \* results in the native conversation and its checkpoint
    turn,           \* the adapter: what it awaits and for which call
    checks,         \* validations that the executor retained in memory
    stale,          \* calls whose hooks inspected files that have changed
    queued,         \* a Cancel waits in the command channel
    seen,           \* history: [shown, blind, rushed]
    bounds          \* [submissions, steers, deaths]

deliveryVars == <<posts, authority, invocation, talk, turn, checks, stale, queued, seen,
                  bounds>>

NoPost == [step |-> "none", delivery |-> "none", continuation |-> "Continue",
           required |-> FALSE, admitted |-> FALSE, reconciled |-> FALSE]
Still(adapter) ==
    [adapter |-> adapter, at |-> "idle", call |-> NoCall, pending |-> {},
     correction |-> NoCall, handoff |-> NoCall, steered |-> FALSE,
     interrupt |-> "none", over |-> FALSE]

DeliveryInit ==
    /\ posts = [c \in Calls |-> NoPost]
    /\ authority = [recovering |-> FALSE, stopped |-> FALSE, corrections |-> 0]
    /\ invocation = "none" /\ talk = {}
    /\ turn \in {Still(adapter) : adapter \in Adapters}
    /\ checks = {} /\ stale = {} /\ queued = FALSE
    /\ seen = [shown |-> [c \in Calls |-> 0], blind |-> FALSE, rushed |-> FALSE]
    /\ bounds = [submissions |-> MaxSubmissions, steers |-> MaxSteers,
                 deaths |-> MaxDeaths]

Is(at) == turn.at = at
IsNative == turn.adapter = "native"
Awaits(at, call) == [turn EXCEPT !.at = at, !.call = call]
-----------------------------------------------------------------------------
(* What the record lets happen.                                            *)

HasLifecycle(c) == posts[c].step \in {"hooks", "settled"}
Released(c) == /\ posts[c].step = "settled" /\ posts[c].continuation # "Held"
               /\ posts[c].delivery \in {"Local", "Acknowledged", "CorrectionAcknowledged"}
(* ensure_continuation_except: whether it was reconciled does not matter.  *)
\* Mutant: what was reconciled no longer stops the phase.
MutantContinues(c) == posts[c].reconciled \/ ~HasLifecycle(c) \/ Released(c)
Continues(c) == ~HasLifecycle(c) \/ Released(c)
ContinuationOpen(correction) == \A c \in Calls \ {correction} : Continues(c)
MayBegin == ~authority.recovering /\ ~authority.stopped

Unfinished(c) ==
    /\ posts[c].step # "none" /\ ~posts[c].reconciled
    /\ posts[c].step # "settled"
       \/ posts[c].delivery \notin {"Local", "Acknowledged", "CorrectionAcknowledged"}
Unsettled == \/ \E c \in Calls : Unfinished(c)
             \/ invocation = "open"

OwnerIsValid(c) ==
    /\ ~authority.recovering /\ ~authority.stopped
    /\ ~posts[c].reconciled /\ posts[c].step = "settled"
    /\ posts[c].delivery \in {"LocalPending", "Staged", "Superseded"}
    /\ posts[c].continuation # "Held"

\* release: the delivery and the charge of a correction are one update.
MayRelease(c, expected) ==
    /\ OwnerIsValid(c) /\ posts[c].delivery = expected
    /\ posts[c].required => ~posts[c].admitted /\ authority.corrections < Limit
Release(c, next) ==
    /\ posts' = [posts EXCEPT ![c].delivery = next, ![c].admitted = posts[c].required]
    /\ authority' = [authority EXCEPT !.corrections = @ + IF posts[c].required THEN 1 ELSE 0]
Charged(c) == seen.rushed \/ (queued /\ posts[c].required)

\* Somebody works on although a result of the phase was withheld from it.
Blind(except) ==
    seen.blind \/ \E c \in Calls \ {except} :
        HasLifecycle(c) /\ (seen.shown[c] = 0 \/ posts[c].continuation = "Held")
-----------------------------------------------------------------------------
(* The turn of an adapter, from its invocation to its requests for tools.  *)

Submit ==
    /\ Is("idle") /\ ~authority.recovering /\ bounds.submissions > 0
    /\ turn' = Awaits("ready", NoCall)
    /\ authority' = [authority EXCEPT !.stopped = FALSE]
    /\ bounds' = [bounds EXCEPT !.submissions = @ - 1]
    /\ UNCHANGED <<posts, invocation, talk, checks, stale, queued, seen>>

BeginBackend ==
    /\ Is("ready") /\ ~IsNative /\ ContinuationOpen(NoCall) /\ MayBegin
    /\ invocation' = "open"
    /\ turn' = Awaits("sending", NoCall)
    /\ UNCHANGED <<posts, authority, talk, checks, stale, queued, seen, bounds>>
\* The frame of a turn: a prompt, or the correction whose invocation it is.
Send ==
    /\ Is("sending")
    /\ turn' = [Awaits("waiting", NoCall) EXCEPT !.interrupt = "none", !.over = FALSE]
    /\ seen' = [seen EXCEPT !.blind = Blind(turn.handoff),
                            !.shown = [c \in Calls |->
                                IF c = turn.handoff THEN @[c] + 1 ELSE @[c]]]
    /\ UNCHANGED <<posts, authority, invocation, talk, checks, stale, queued, bounds>>
(* ack_post_correction, on the backend's reply to exactly that frame.      *)
AcknowledgeCorrection ==
    LET c == turn.handoff
    IN  /\ Is("waiting") /\ c # NoCall /\ MayBegin
        /\ posts[c].delivery = "CorrectionReserved" /\ posts[c].admitted
        /\ invocation = "open"
        /\ posts' = [posts EXCEPT ![c].delivery = "CorrectionAcknowledged"]
        /\ turn' = [turn EXCEPT !.handoff = NoCall]
        /\ UNCHANGED <<authority, invocation, talk, checks, stale, queued, seen, bounds>>

BeginModel ==
    /\ Is("ready") /\ IsNative /\ ContinuationOpen(NoCall) /\ MayBegin
    /\ invocation' = "open"
    /\ turn' = Awaits("model", NoCall)
    /\ seen' = [seen EXCEPT !.shown = [c \in Calls |-> IF c \in talk THEN 1 ELSE @[c]],
                            !.blind = @ \/ \E c \in Calls : HasLifecycle(c) /\ ~Released(c)]
    /\ UNCHANGED <<posts, authority, talk, checks, stale, queued, bounds>>
ModelAnswers(calls) ==
    /\ Is("model") /\ calls # {} /\ \A c \in calls : posts[c] = NoPost
    /\ invocation' = "complete"
    /\ turn' = [Awaits("calls", NoCall) EXCEPT !.pending = calls]
    /\ UNCHANGED <<posts, authority, talk, checks, stale, queued, seen, bounds>>
ResultsComplete ==
    /\ Is("calls") /\ turn.pending = {}
    /\ turn' = Awaits("ready", NoCall)
    /\ UNCHANGED <<posts, authority, invocation, talk, checks, stale, queued, seen, bounds>>

(* begin_tool.  An external turn that is being superseded gets an answer   *)
(* that nothing was executed.                                              *)
Asked(c) ==
    \/ IsNative /\ Is("calls") /\ c \in turn.pending
    \/ /\ ~IsNative /\ Is("waiting") /\ posts[c] = NoPost
       /\ turn.handoff = NoCall /\ turn.correction = NoCall /\ ~turn.steered
       /\ ~turn.over
BeginTool(c) ==
    /\ Asked(c) /\ ContinuationOpen(NoCall) /\ MayBegin
    /\ posts' = [posts EXCEPT ![c].step = "tool"]
    /\ turn' = [Awaits("executing", c) EXCEPT !.pending = @ \ {c}]
    /\ seen' = [seen EXCEPT !.blind = IF IsNative THEN @ ELSE Blind(NoCall)]
    /\ UNCHANGED <<authority, invocation, talk, checks, stale, queued, bounds>>
-----------------------------------------------------------------------------
(* The hooks of one result: PostToolPlan::dispatch.                        *)

BeginPostTool ==
    /\ Is("executing") /\ posts[turn.call].step = "tool" /\ MayBegin
    /\ posts' = [posts EXCEPT
        ![turn.call].step = "hooks",
        ![turn.call].delivery = IF IsNative THEN "LocalPending" ELSE "Staged"]
    /\ stale' = stale \ {turn.call}
    /\ UNCHANGED <<authority, invocation, talk, turn, checks, queued, seen, bounds>>

(* finish_post_hook and settle_post_tool: unknown effects hold the result  *)
(* and the session; a correction needs what is left of the owner's rounds. *)
HooksAnswer(continuation, consume, lost) ==
    LET c == turn.call
        wants == ~lost /\ continuation # "Held" /\ (consume \/ continuation = "Correction")
        afford == ~authority.stopped /\ authority.corrections < Limit
    IN  /\ Is("executing") /\ posts[c].step = "hooks"
        /\ posts' = [posts EXCEPT
            ![c].step = "settled", ![c].required = wants /\ afford,
            ![c].continuation = IF lost \/ (wants /\ ~afford) THEN "Held" ELSE continuation]
        /\ authority' = [authority EXCEPT !.recovering = @ \/ lost]
        /\ checks' = checks \union {c}
        /\ talk' = IF IsNative THEN talk \union {c} ELSE talk
        /\ turn' = IF turn.adapter = "claude"
                   THEN [Awaits("waiting", NoCall) EXCEPT !.pending = @ \union {c}]
                   ELSE Awaits("answered", c)
        /\ UNCHANGED <<invocation, stale, queued, seen, bounds>>
\* Claude asks for the presentation by a callback of its own.
PostCallback(c) ==
    /\ turn.adapter = "claude" /\ Is("waiting") /\ c \in turn.pending
    /\ turn.handoff = NoCall
    /\ turn' = [Awaits("answered", c) EXCEPT !.pending = @ \ {c}]
    /\ UNCHANGED <<posts, authority, invocation, talk, checks, stale, queued, seen, bounds>>
-----------------------------------------------------------------------------
(* Release: the retained validation is used once, the owner looked at      *)
(* before and after the files are captured again.                          *)

Ends(recovering, stopped) ==
    /\ turn' = Still(turn.adapter) /\ queued' = FALSE
    /\ authority' = [authority EXCEPT !.recovering = recovering, !.stopped = stopped]
Correcting(c) == posts[c].continuation = "Correction" /\ posts[c].delivery = "Staged"
ValidatePostRelease ==
    /\ Is("answered") /\ turn.call \in checks /\ ~Correcting(turn.call)
    /\ IsNative => posts[turn.call].continuation # "Held"
    /\ checks' = checks \ {turn.call}
    /\ turn' = Awaits("validating", turn.call)
    /\ UNCHANGED <<posts, authority, invocation, talk, stale, queued, seen, bounds>>
Validated ==
    /\ Is("validating") /\ OwnerIsValid(turn.call) /\ turn.call \notin stale
    /\ turn' = Awaits("releasing", turn.call)
    /\ UNCHANGED <<posts, authority, invocation, talk, checks, stale, queued, seen, bounds>>
\* Also a presentation that Claude's profile cannot take.
HoldPostDelivery ==
    /\ \/ Is("validating")
       \/ Is("releasing") /\ turn.adapter = "claude"
    /\ posts' = [posts EXCEPT ![turn.call].continuation = "Held"]
    /\ Ends(TRUE, authority.stopped)
    /\ UNCHANGED <<invocation, talk, checks, stale, seen, bounds>>

(* Native: a Cancel that was queued while validation ended comes first.    *)
CompleteLocalRelease ==
    LET c == turn.call
    IN  /\ IsNative /\ Is("releasing") /\ ~queued /\ MayRelease(c, "LocalPending")
        /\ Release(c, "Local")
        /\ turn' = [Awaits("calls", NoCall) EXCEPT
                    !.pending = IF posts[c].continuation = "Correction" THEN {} ELSE @]
        /\ seen' = [seen EXCEPT !.rushed = Charged(c)]
        /\ UNCHANGED <<invocation, talk, checks, stale, queued, bounds>>

(* External: reserve, send, acknowledge.                                   *)
Presenting == ~IsNative /\ Is("releasing") /\ turn.correction # turn.call
ReservePostDelivery ==
    /\ Presenting /\ MayRelease(turn.call, "Staged")
    /\ Release(turn.call, "Reserved")
    /\ turn' = Awaits("presenting", turn.call)
    /\ UNCHANGED <<invocation, talk, checks, stale, queued, seen, bounds>>
Present ==
    /\ Is("presenting")
    /\ seen' = [seen EXCEPT !.shown[turn.call] = @ + 1]
    /\ turn' = Awaits("presented", turn.call)
    /\ UNCHANGED <<posts, authority, invocation, talk, checks, stale, queued, bounds>>
AckPostDelivery ==
    /\ Is("presented") /\ posts[turn.call].delivery = "Reserved"
    /\ posts' = [posts EXCEPT ![turn.call].delivery = "Acknowledged"]
    /\ turn' = Awaits("waiting", NoCall)
    /\ UNCHANGED <<authority, invocation, talk, checks, stale, queued, seen, bounds>>
-----------------------------------------------------------------------------
(* A correction supersedes the backend's turn: no answer to the call, the  *)
(* interruption, its acknowledgement and the end of the turn in either     *)
(* order, then one update charges it and begins its invocation.            *)

StartSupersession ==
    LET c == turn.call
    IN  /\ Is("answered") /\ ~IsNative /\ Correcting(c)
        /\ OwnerIsValid(c) /\ posts[c].required /\ ~posts[c].admitted
        /\ posts' = [posts EXCEPT ![c].delivery = "Superseding"]
        /\ turn' = [Awaits("waiting", NoCall) EXCEPT !.correction = c]
        /\ UNCHANGED <<authority, invocation, talk, checks, stale, queued, seen, bounds>>
Steer ==
    /\ Is("waiting") /\ ~turn.steered /\ bounds.steers > 0
    /\ turn' = [turn EXCEPT !.steered = TRUE]
    /\ bounds' = [bounds EXCEPT !.steers = @ - 1]
    /\ UNCHANGED <<posts, authority, invocation, talk, checks, stale, queued, seen>>
Superseding == turn.steered \/ turn.correction # NoCall
InterruptTurn ==
    /\ Is("waiting") /\ Superseding /\ turn.interrupt = "none"
    /\ turn.handoff # NoCall => turn.adapter = "claude"
    /\ turn' = [turn EXCEPT !.interrupt = "sent"]
    /\ UNCHANGED <<posts, authority, invocation, talk, checks, stale, queued, seen, bounds>>
InterruptAcknowledged ==
    /\ Is("waiting") /\ turn.interrupt = "sent"
    /\ turn' = [turn EXCEPT !.interrupt = "acknowledged"]
    /\ UNCHANGED <<posts, authority, invocation, talk, checks, stale, queued, seen, bounds>>
\* Claude's result is looked at under the phase's rule, Codex's is not.
MayComplete == turn.adapter = "claude" => ContinuationOpen(NoCall)
InterruptedTurnEnds ==
    /\ Is("waiting") /\ turn.handoff = NoCall /\ turn.interrupt # "none" /\ ~turn.over
    /\ turn.correction = NoCall => MayComplete
    /\ invocation' = "complete"
    /\ turn' = [turn EXCEPT !.over = TRUE]
    /\ UNCHANGED <<posts, authority, talk, checks, stale, queued, seen, bounds>>
TakeOver == Is("waiting") /\ turn.over /\ turn.interrupt = "acknowledged"
FinishSupersession ==
    LET c == turn.correction
    IN  /\ TakeOver /\ c # NoCall
        /\ posts[c].delivery = "Superseding" /\ invocation = "complete"
        /\ posts' = [posts EXCEPT ![c].delivery = "Superseded"]
        /\ turn' = [Awaits("answered", c) EXCEPT !.steered = FALSE]
        /\ UNCHANGED <<authority, invocation, talk, checks, stale, queued, seen, bounds>>
Resubmit ==
    /\ TakeOver /\ turn.correction = NoCall
    /\ turn' = [Awaits("ready", NoCall) EXCEPT !.steered = FALSE]
    /\ UNCHANGED <<posts, authority, invocation, talk, checks, stale, queued, seen, bounds>>

(* reserve yields once after the validation, so that the owner of the turn *)
(* polls its commands: a Cancel queued in between wins.                    *)
\* Mutant: it does not yield.
MutantReservePostCorrection ==
    LET c == turn.call
    IN  /\ ~IsNative /\ Is("releasing") /\ turn.correction = c
        /\ ContinuationOpen(c) /\ MayBegin /\ MayRelease(c, "Superseded")
        /\ Release(c, "CorrectionReserved")
        /\ invocation' = "open"
        /\ turn' = [Awaits("sending", NoCall) EXCEPT !.handoff = c, !.correction = NoCall]
        /\ seen' = [seen EXCEPT !.rushed = Charged(c)]
        /\ UNCHANGED <<talk, checks, stale, queued, bounds>>
ReservePostCorrection ==
    LET c == turn.call
    IN  /\ ~IsNative /\ Is("releasing") /\ turn.correction = c /\ ~queued
        /\ ContinuationOpen(c) /\ MayBegin /\ MayRelease(c, "Superseded")
        /\ Release(c, "CorrectionReserved")
        /\ invocation' = "open"
        /\ turn' = [Awaits("sending", NoCall) EXCEPT !.handoff = c, !.correction = NoCall]
        /\ seen' = [seen EXCEPT !.rushed = Charged(c)]
        /\ UNCHANGED <<talk, checks, stale, queued, bounds>>
-----------------------------------------------------------------------------
(* The end of a turn, and what happens beside it.                          *)

TurnCompletes ==
    /\ \/ Is("model")
       \/ Is("waiting") /\ ~Superseding /\ turn.handoff = NoCall /\ MayComplete
    /\ invocation' = "complete"
    /\ Ends(authority.recovering \/ \E c \in Calls : Unfinished(c), authority.stopped)
    /\ UNCHANGED <<posts, talk, checks, stale, seen, bounds>>
Fails ==
    /\ ~Is("idle")
    /\ Ends(authority.recovering \/ Unsettled, authority.stopped)
    /\ UNCHANGED <<posts, invocation, talk, checks, stale, seen, bounds>>
Cancel ==
    /\ ~Is("idle") /\ ~queued /\ queued' = TRUE
    /\ UNCHANGED <<posts, authority, invocation, talk, turn, checks, stale, seen, bounds>>
CancelTurn ==
    /\ queued
    /\ Ends(authority.recovering \/ Unsettled, TRUE)
    /\ UNCHANGED <<posts, invocation, talk, checks, stale, seen, bounds>>

\* An agent is cancelled in the record before its executor is told; another
\* job of the session leaves unknown effects; somebody edits a file.
OwnerStops ==
    /\ ~Is("idle") /\ ~authority.stopped
    /\ authority' = [authority EXCEPT !.stopped = TRUE]
    /\ UNCHANGED <<posts, invocation, talk, turn, checks, stale, queued, seen, bounds>>
OtherEffectsLost ==
    /\ ~Is("idle") /\ ~authority.recovering
    /\ authority' = [authority EXCEPT !.recovering = TRUE]
    /\ UNCHANGED <<posts, invocation, talk, turn, checks, stale, queued, seen, bounds>>
InspectedFileChanges(c) ==
    /\ c \notin stale /\ HasLifecycle(c) /\ ~Released(c)
    /\ stale' = stale \union {c}
    /\ UNCHANGED <<posts, authority, invocation, talk, turn, checks, queued, seen, bounds>>

Die ==
    /\ bounds.deaths > 0
    /\ bounds' = [bounds EXCEPT !.deaths = @ - 1]
    /\ checks' = {} /\ stale' = {}
    /\ Ends(authority.recovering \/ ~Is("idle") \/ Unsettled, authority.stopped)
    /\ UNCHANGED <<posts, invocation, talk, seen>>
ReconcilePhase ==
    /\ Is("idle") /\ authority.recovering
    /\ posts' = [c \in Calls |->
        [posts[c] EXCEPT !.reconciled = @ \/ Unfinished(c)]]
    /\ invocation' = IF invocation = "open" THEN "quarantined" ELSE invocation
    /\ authority' = [authority EXCEPT !.recovering = FALSE]
    /\ UNCHANGED <<talk, turn, checks, stale, queued, seen, bounds>>

DeliveryNext ==
    \/ Submit \/ BeginBackend \/ Send \/ AcknowledgeCorrection \/ BeginModel
    \/ ResultsComplete \/ BeginPostTool \/ ValidatePostRelease \/ Validated
    \/ HoldPostDelivery \/ CompleteLocalRelease \/ ReservePostDelivery \/ Present
    \/ AckPostDelivery \/ StartSupersession \/ Steer \/ InterruptTurn
    \/ InterruptAcknowledged \/ InterruptedTurnEnds \/ FinishSupersession \/ Resubmit
    \/ ReservePostCorrection \/ TurnCompletes \/ Fails \/ Cancel \/ CancelTurn
    \/ OwnerStops \/ OtherEffectsLost \/ Die \/ ReconcilePhase
    \/ \E c \in Calls : BeginTool(c) \/ PostCallback(c) \/ InspectedFileChanges(c)
    \/ \E calls \in SUBSET Calls : ModelAnswers(calls)
    \/ \E continuation \in {"Continue", "Correction", "Held"}, consume, lost \in BOOLEAN :
        HooksAnswer(continuation, consume, lost)

DeliverySpec == DeliveryInit /\ [][DeliveryNext]_deliveryVars
-----------------------------------------------------------------------------
Post ==
    [step : {"none", "tool", "hooks", "settled"},
     delivery : {"none", "LocalPending", "Local", "Staged", "Reserved", "Acknowledged",
                 "Superseding", "Superseded", "CorrectionReserved",
                 "CorrectionAcknowledged"},
     continuation : {"Continue", "Correction", "Held"},
     required : BOOLEAN, admitted : BOOLEAN, reconciled : BOOLEAN]
Turn ==
    [adapter : Adapters,
     at : {"idle", "ready", "sending", "waiting", "model", "calls", "executing", "answered",
           "validating", "releasing", "presenting", "presented"},
     call : Calls \union {NoCall}, pending : SUBSET Calls,
     correction : Calls \union {NoCall}, handoff : Calls \union {NoCall},
     steered : BOOLEAN, interrupt : {"none", "sent", "acknowledged"}, over : BOOLEAN]
\* The variables keep their types.
DeliveryTypeOK ==
    /\ posts \in [Calls -> Post]
    /\ authority \in [recovering : BOOLEAN, stopped : BOOLEAN, corrections : Nat]
    /\ invocation \in {"none", "open", "complete", "quarantined"}
    /\ turn \in Turn
    /\ talk \subseteq Calls /\ checks \subseteq Calls /\ stale \subseteq Calls
    /\ queued \in BOOLEAN
    /\ seen \in [shown : [Calls -> Nat], blind : BOOLEAN, rushed : BOOLEAN]
    /\ bounds \in [submissions : Nat, steers : Nat, deaths : Nat]

(* Neither a request nor a turn nor an external call is begun while an     *)
(* earlier result of the phase was not shown to the model or is held, also *)
(* after a reconciliation or a restart; and no result is shown twice, or   *)
(* before its hooks are settled and its correction paid.                   *)
DeliveredBeforeWork ==
    /\ ~seen.blind
    /\ \A c \in Calls : seen.shown[c] # 0 =>
        /\ seen.shown[c] = 1 /\ posts[c].step = "settled"
        /\ posts[c].continuation # "Held"
        /\ posts[c].required => posts[c].admitted

(* A correction is charged once, in the update that releases its result,   *)
(* and never after a Cancel was queued before that release.                *)
CorrectionPaidOnce ==
    /\ authority.corrections = Cardinality({c \in Calls : posts[c].admitted})
    /\ \A c \in Calls : posts[c].admitted =>
        /\ posts[c].required
        /\ posts[c].delivery \in {"Local", "Reserved", "Acknowledged",
                                 "CorrectionReserved", "CorrectionAcknowledged"}
    /\ ~seen.rushed
=============================================================================
