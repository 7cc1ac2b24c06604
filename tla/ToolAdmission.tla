---------------------------- MODULE ToolAdmission ----------------------------
(***************************************************************************)
(* How the hooks of PreToolUse admit one tool call (plugins/admission.rs   *)
(* and admission/outcomes.rs, with the receipts of                         *)
(* workflow/runtime/plugin_admission.rs and the effect boundary of         *)
(* tools.rs).                                                              *)
(*                                                                         *)
(* Handlers that may rewrite the call run until none changes it; then the  *)
(* candidate and the files the handlers read are frozen as one key, the    *)
(* deciding handlers judge exactly that key, and the inputs are captured   *)
(* again before the call is admitted and once more, under the boundary     *)
(* that mutations of the workspace take, before its effect.                *)
(*                                                                         *)
(* The arguments of a call are a candidate of a small set; what a handler  *)
(* reads is a read set with a revision.  Other operations of the host      *)
(* change files under the boundary; anybody else changes them at any time. *)
(***************************************************************************)
EXTENDS Naturals, Sequences, FiniteSetsExt

CONSTANTS
    Candidates,     \* normalized arguments of the call
    ReadSets,       \* what handlers declare to inspect
    HandlerPlans,   \* the plans to admit under: sequences of handlers
    MaxRewrites,    \* the code's limit of revisions (4)
    MaxEdits        \* bound on the revisions of a read set

Classes == {"Transformer", "Combined", "DecisionGate", "Observer"}
\* priority order; group 0: alone; on: the candidates its matcher matches.
Handlers == [class : Classes, group : Nat, reads : ReadSets, on : SUBSET Candidates,
             recheck : BOOLEAN, once : BOOLEAN, writes : BOOLEAN, required : BOOLEAN]

ASSUME ToolAdmissionAssumption ==
    /\ HandlerPlans \subseteq Seq(Handlers)
    /\ MaxRewrites \in Nat \ {0} /\ MaxEdits \in Nat

VARIABLES
    plan,       \* the handlers of this plan, and those consumed by earlier events
    call,       \* the candidate as rewritten so far
    place,      \* [stage, step]: how far admission is
    round,      \* of the rewriting loop: candidates seen, changed, what already ran
    queue,      \* groups still to run in this stage
    active,     \* the handlers of the group under way
    inputs,     \* the revisions captured for them
    receipts,   \* the retained invocations
    verdict,    \* [held, key]: the plan's hold and the frozen key
    files,      \* revisions, inputs left to recapture, changes around the boundary
    boundary,   \* who holds the mutation boundary
    recovering  \* recovery_pending

admissionVars == <<plan, call, place, round, queue, active, inputs, receipts, verdict,
                   files, boundary, recovering>>

Stages == {"idle", "rewriting", "freezing", "deciding", "observing", "rechecking",
           "validating", "admitted", "starting", "released", "refused"}
At(stage, step) == place = [stage |-> stage, step |-> step]
Proceed(stage, step) == place' = [stage |-> stage, step |-> step]
NoInputs == [r \in {} |-> 0]
NoKey == [call |-> "none", inputs |-> NoInputs]
Key == [call |-> call, inputs |-> inputs]
Indices == DOMAIN plan.handlers
Of(i) == plan.handlers[i]

AdmissionInit ==
    /\ \E handlers \in HandlerPlans :
        \E spent \in SUBSET {i \in DOMAIN handlers : handlers[i].once} :
            plan = [handlers |-> handlers, spent |-> spent]
    /\ call \in Candidates
    /\ place = [stage |-> "idle", step |-> "choose"]
    /\ round = [seen |-> {}, changed |-> FALSE, passed |-> [i \in {} |-> NoKey],
                once |-> {}, skipped |-> {}, moved |-> {}, held |-> FALSE]
    /\ queue = {} /\ active = {} /\ inputs = NoInputs /\ receipts = {}
    /\ verdict = [held |-> FALSE, key |-> NoKey]
    /\ files = [rev |-> [r \in ReadSets |-> 0], left |-> {}, outside |-> {}]
    /\ boundary = "free" /\ recovering = FALSE
-----------------------------------------------------------------------------
\* Handler::matches, and the groups of one stage in plan order.
Matches(i) == call \in Of(i).on
Matching == {i \in Indices : Matches(i)}
Groups(indices) ==
    {{j \in indices : j = i \/ (Of(i).group # 0 /\ Of(j).group = Of(i).group)} :
        i \in indices}
First(groups) == CHOOSE g \in groups : \A h \in groups : Min(g) <= Min(h)

\* What can still rewrite the call: once in all, or again in every pass.
Rewriting == {i \in Matching : /\ Of(i).class \in {"Transformer", "Combined"}
                               /\ i \notin DOMAIN round.passed
                               /\ i \notin round.once \union round.moved}
Class(i) == IF place.stage = "rechecking" THEN "DecisionGate" ELSE Of(i).class

BeginPluginPlan ==
    /\ At("idle", "choose") /\ ~recovering
    /\ round' = [round EXCEPT !.seen = {call}]
    /\ queue' = Groups(Rewriting)
    /\ Proceed("rewriting", "choose")
    /\ UNCHANGED <<plan, call, active, inputs, receipts, verdict, files, boundary,
                   recovering>>

(* The next group of the pass, if it still matches what the call became.   *)
OpenGroup ==
    /\ place.stage = "rewriting" /\ place.step = "choose" /\ queue # {}
    /\ queue' = queue \ {First(queue)}
    /\ active' = First(queue) \intersect Matching
    /\ inputs' = NoInputs
    /\ IF active' = {} THEN UNCHANGED place ELSE Proceed("rewriting", "capture")
    /\ UNCHANGED <<plan, call, round, receipts, verdict, files, boundary, recovering>>
\* A pass that changed nothing ends the loop: the candidate is final.
EndPass ==
    /\ At("rewriting", "choose") /\ queue = {}
    /\ round' = [round EXCEPT !.changed = FALSE]
    /\ IF round.changed
       THEN queue' = Groups(Rewriting) /\ UNCHANGED <<place, active, inputs>>
       ELSE /\ active' = Matching /\ inputs' = NoInputs /\ Proceed("freezing", "capture")
            /\ UNCHANGED queue
    /\ UNCHANGED <<plan, call, receipts, verdict, files, boundary, recovering>>

\* Admission::inputs: one read set after the other, outside the boundary.
Needed == {Of(i).reads : i \in active}
Capture(r) ==
    /\ place.step = "capture" /\ r \in Needed \ DOMAIN inputs
    /\ inputs' = [s \in DOMAIN inputs \union {r} |->
                    IF s = r THEN files.rev[r] ELSE inputs[s]]
    /\ UNCHANGED <<plan, call, place, round, queue, active, receipts, verdict, files,
                   boundary, recovering>>
Deciders(class) == Groups({i \in Matching : Of(i).class = class})
Captured ==
    /\ place.step = "capture" /\ Needed = DOMAIN inputs
    /\ IF place.stage = "rewriting"
       THEN Proceed("rewriting", "reserve") /\ UNCHANGED <<queue, active>>
       ELSE /\ queue' = Deciders("DecisionGate")
            /\ active' = {} /\ Proceed("deciding", "choose")
    /\ UNCHANGED <<plan, call, round, inputs, receipts, verdict, files, boundary,
                   recovering>>
\* The frozen candidate is judged by one group after the other.
OpenDecision ==
    /\ place.stage \in {"deciding", "observing", "rechecking"}
    /\ place.step = "choose" /\ queue # {}
    /\ active' = First(queue) /\ queue' = queue \ {First(queue)}
    /\ Proceed(place.stage, "reserve")
    /\ UNCHANGED <<plan, call, round, inputs, receipts, verdict, files, boundary,
                   recovering>>
-----------------------------------------------------------------------------
(* Admission::group.  Every member is reserved before any is prepared or   *)
(* run; members that write hold the mutation boundary while they run.      *)
Writing == place.stage # "rechecking" /\ \E i \in active : Of(i).writes
Boundary == IF Writing THEN "hook" ELSE boundary
\* plugin_once::reserve: a revalidation is never exempt.
Skipped(i) == place.stage # "rechecking" /\ Of(i).once /\ i \in plan.spent
Receipt(i, state) == [of |-> i, class |-> Class(i), key |-> Key, state |-> state]

ReservePluginHooks ==
    /\ place.step = "reserve" /\ ~recovering
    /\ Writing => boundary = "free"
    /\ boundary' = Boundary
    /\ LET skipped == {i \in active : Skipped(i)}
       IN  /\ round' = [round EXCEPT
                !.skipped = @ \union skipped,
                !.once = IF place.stage = "rechecking" THEN @
                         ELSE @ \union {i \in active : Of(i).once}]
           /\ receipts' = receipts \union {Receipt(i, "reserved") : i \in active \ skipped}
           /\ active' = active \ skipped
    /\ Proceed(place.stage, "run")
    /\ UNCHANGED <<plan, call, queue, inputs, verdict, files, recovering>>
HookWrites(r) ==
    /\ place.step = "run" /\ boundary = "hook" /\ \E i \in active : Of(i).writes
    /\ files.rev[r] < MaxEdits
    /\ files' = [files EXCEPT !.rev[r] = @ + 1]
    /\ UNCHANGED <<plan, call, place, round, queue, active, inputs, receipts, verdict,
                   boundary, recovering>>

(* What a handler answers: a decision and a rewrite, a proposal the host   *)
(* has no owner for, an invalid answer, a failure whose effects are not    *)
(* known; an observer may become a job of its own.                         *)
Said(decision, input) == [kind |-> "said", decision |-> decision, input |-> input]
Other(kind) == [kind |-> kind, decision |-> "none", input |-> "none"]
Answers(i) ==
    {Said(d, c) : d \in {"none", "clear", "object"}, c \in Candidates \union {"none"}}
    \union {Other("unowned"), Other("invalid"), Other("lost")}
    \union (IF ~Of(i).required /\ ~Of(i).writes
            THEN {Other("moved")} ELSE {})

\* outcomes::decode, folded over the members in plan order.
Proposed(answer) == {i \in active : answer[i].input # "none" /\ Class(i) # "DecisionGate"}
Rewrite(answer) == answer[Min(Proposed(answer))].input
Holds(answer, i) ==
    \/ answer[i].kind \in {"unowned", "invalid", "lost"}
    \/ answer[i].decision = "object"
    \/ /\ answer[i].kind = "said" /\ answer[i].decision = "none"
       /\ Of(i).required /\ Class(i) # "Transformer"
    \/ answer[i].input # "none" /\ Class(i) = "DecisionGate"
    \/ i \in Proposed(answer) /\ answer[i].input # Rewrite(answer)
Settled(answer, i) ==
    IF answer[i].kind \in {"moved", "lost"} THEN answer[i].kind
    ELSE IF Holds(answer, i) THEN "held" ELSE "clear"
Moved(answer) == {i \in active : answer[i].kind = "moved"}
Passes(answer) ==
    [i \in {j \in active \ Moved(answer) : Class(j) = "Combined"} |-> Key]

SettleGroup(answer, base) ==
    /\ receipts' = (receipts \ {Receipt(i, "reserved") : i \in active})
                   \union {Receipt(i, Settled(answer, i)) : i \in active}
    /\ LET passes == Passes(answer)
       IN  round' = [base EXCEPT
            !.held = @ \/ \E i \in active : Holds(answer, i),
            !.moved = @ \union Moved(answer),
            !.passed = [i \in DOMAIN @ \union DOMAIN passes |->
                            IF i \in DOMAIN passes THEN passes[i] ELSE base.passed[i]]]
    /\ recovering' = (recovering \/ \E i \in active : answer[i].kind = "lost")
    /\ boundary' = IF boundary = "hook" THEN "free" ELSE boundary
    /\ active' = {}
    /\ UNCHANGED <<plan, queue, inputs, files>>

\* A rewrite makes a new candidate: never one seen before, never too many.
NewCandidate(answer) ==
    place.stage = "rewriting" /\ Proposed(answer) # {} /\ Rewrite(answer) # call
Acceptable(c) == c \notin round.seen /\ Cardinality(round.seen) < MaxRewrites
Answered(answer) == place.step = "run" /\ \A i \in active : answer[i] \in Answers(i)

FinishPluginHooks(answer) ==
    /\ Answered(answer) /\ ~NewCandidate(answer)
    /\ SettleGroup(answer, round)
    /\ Proceed(place.stage, "choose")
    /\ UNCHANGED <<call, verdict>>
RewriteCall(answer) ==
    /\ Answered(answer) /\ NewCandidate(answer) /\ Acceptable(Rewrite(answer))
    /\ SettleGroup(answer, [round EXCEPT !.seen = @ \union {Rewrite(answer)},
                                         !.changed = TRUE])
    /\ call' = Rewrite(answer)
    /\ Proceed(place.stage, "choose")
    /\ UNCHANGED verdict
RewriteRefused(answer) ==
    /\ Answered(answer) /\ NewCandidate(answer) /\ ~Acceptable(Rewrite(answer))
    /\ SettleGroup(answer, round)
    /\ Proceed("refused", "choose")
    /\ verdict' = [verdict EXCEPT !.held = TRUE]
    /\ UNCHANGED call
-----------------------------------------------------------------------------
(* A combined handler judged the call while it was being rewritten: its    *)
(* pass counts for the frozen key only, else its read-only endpoint judges *)
(* again, or the call is held.                                             *)
\* Mutant: a pass counts whatever the candidate has become.
MutantUnjudged ==
    {i \in Matching : /\ Of(i).class = "Combined" /\ i \notin DOMAIN round.passed
                      /\ i \notin round.skipped \union round.moved}
Unjudged ==
    {i \in Matching : /\ Of(i).class = "Combined"
                      /\ i \notin round.skipped \union round.moved
                      /\ ~(i \in DOMAIN round.passed /\ round.passed[i] = Key)}
StageDone(stage) == At(stage, "choose") /\ queue = {}
Observe ==
    /\ StageDone("deciding")
    /\ queue' = Deciders("Observer")
    /\ Proceed("observing", "choose")
    /\ UNCHANGED <<plan, call, round, active, inputs, receipts, verdict, files, boundary,
                   recovering>>
Recheck ==
    /\ StageDone("observing")
    /\ queue' = Groups({i \in Unjudged : Of(i).recheck})
    /\ round' = [round EXCEPT !.held = @ \/ \E i \in Unjudged : ~Of(i).recheck]
    /\ Proceed("rechecking", "choose")
    /\ UNCHANGED <<plan, call, active, inputs, receipts, verdict, files, boundary,
                   recovering>>

(* freeze_plugin, then AdmittedCandidate::validate outside the boundary.   *)
FreezePlugin ==
    /\ StageDone("rechecking") /\ ~recovering
    /\ verdict' = [held |-> round.held, key |-> Key]
    /\ IF round.held
       THEN Proceed("refused", "choose") /\ UNCHANGED files
       ELSE /\ Proceed("validating", "choose")
            /\ files' = [files EXCEPT !.left = DOMAIN inputs]
    /\ UNCHANGED <<plan, call, round, queue, active, inputs, receipts, boundary,
                   recovering>>
Current(r) == files.rev[r] = inputs[r]
Validating == place.stage \in {"validating", "starting"}
ValidateInput(r) ==
    /\ Validating /\ r \in files.left /\ Current(r)
    /\ files' = [files EXCEPT !.left = @ \ {r}, !.outside = @ \ {r}]
    /\ UNCHANGED <<plan, call, place, round, queue, active, inputs, receipts, verdict,
                   boundary, recovering>>
Refuse ==
    /\ Proceed("refused", "choose")
    /\ verdict' = [verdict EXCEPT !.held = TRUE]
    /\ boundary' = IF boundary = "tool" THEN "free" ELSE boundary
    /\ UNCHANGED <<plan, call, round, queue, active, inputs, receipts, files, recovering>>
InputChanged(r) ==
    /\ Validating /\ r \in files.left /\ ~Current(r)
    /\ Refuse

(* admit_tool, and the effect under the boundary of the workspace (a tool  *)
(* that only reads takes none); both look at the frozen key and every      *)
(* receipt again.                                                          *)
FinalKeyHolds ==
    /\ ~recovering /\ ~verdict.held /\ verdict.key # NoKey /\ verdict.key.call = call
    /\ \A p \in receipts : p.state \in {"clear", "moved"}
AdmitTool ==
    /\ place.stage = "validating" /\ files.left = {} /\ FinalKeyHolds
    /\ Proceed("admitted", "choose")
    /\ UNCHANGED <<plan, call, round, queue, active, inputs, receipts, verdict, files,
                   boundary, recovering>>
\* Mutant: validated when admitted, not again when the effect starts.
MutantRevalidated == {}
Revalidated == DOMAIN inputs
StartEffect ==
    /\ place.stage = "admitted"
    /\ boundary = "free"
    /\ boundary' \in {"tool", "free"}
    /\ files' = [files EXCEPT !.left = Revalidated]
    /\ Proceed("starting", "choose")
    /\ UNCHANGED <<plan, call, round, queue, active, inputs, receipts, verdict,
                   recovering>>
ToolEffect ==
    /\ place.stage = "starting" /\ files.left = {} /\ FinalKeyHolds
    /\ Proceed("released", "choose")
    /\ UNCHANGED <<plan, call, round, queue, active, inputs, receipts, verdict, files,
                   boundary, recovering>>

(* Any await may fail: a capture, a runner without a slot, a preparation,  *)
(* an owner that is held meanwhile; the plan is held.                      *)
AdmissionFails == place.stage \notin {"idle", "released", "refused"} /\ Refuse

(* The rest of the host and of the machine.                                *)
Edit(r, outside) ==
    /\ place.stage \notin {"released", "refused"} /\ files.rev[r] < MaxEdits
    /\ files' = [files EXCEPT !.rev[r] = @ + 1,
                              !.outside = IF place.stage = "starting" THEN @ \union outside ELSE @]
    /\ UNCHANGED <<plan, call, place, round, queue, active, inputs, receipts, verdict,
                   boundary, recovering>>
HostEdit(r) == boundary = "free" /\ Edit(r, {})
OutsideEdit(r) == Edit(r, {r})
OtherWorkIsLost ==
    /\ ~recovering /\ place.stage \notin {"released", "refused"}
    /\ recovering' = TRUE
    /\ UNCHANGED <<plan, call, place, round, queue, active, inputs, receipts, verdict,
                   files, boundary>>

AdmissionNext ==
    \/ BeginPluginPlan \/ OpenGroup \/ EndPass \/ Captured \/ OpenDecision
    \/ ReservePluginHooks \/ Observe \/ Recheck \/ FreezePlugin \/ AdmitTool
    \/ StartEffect \/ ToolEffect \/ AdmissionFails \/ OtherWorkIsLost
    \/ \E r \in ReadSets : \/ Capture(r) \/ HookWrites(r) \/ ValidateInput(r)
                           \/ InputChanged(r) \/ HostEdit(r) \/ OutsideEdit(r)
    \/ \E answer \in [active -> UNION {Answers(i) : i \in active}] :
        FinishPluginHooks(answer) \/ RewriteCall(answer) \/ RewriteRefused(answer)
AdmissionSpec == AdmissionInit /\ [][AdmissionNext]_admissionVars

Captures == UNION {[reads -> 0..MaxEdits] : reads \in SUBSET ReadSets}
Keys == [call : Candidates, inputs : Captures]
Passed == UNION {[is -> Keys] : is \in SUBSET Indices}
Receipts == [of : Indices, class : Classes, key : Keys,
             state : {"reserved", "clear", "held", "lost", "moved"}]
AdmissionTypeOK ==
    /\ plan \in [handlers : HandlerPlans, spent : SUBSET Nat]
    /\ call \in Candidates
    /\ place \in [stage : Stages, step : {"choose", "capture", "reserve", "run"}]
    /\ round \in [seen : SUBSET Candidates, changed : BOOLEAN,
                  passed : Passed,
                  once : SUBSET Indices, skipped : SUBSET Indices,
                  moved : SUBSET Indices, held : BOOLEAN]
    /\ queue \subseteq SUBSET Indices /\ active \subseteq Indices
    /\ inputs \in Captures /\ receipts \subseteq Receipts
    /\ verdict \in [held : BOOLEAN, key : Keys \union {NoKey}]
    /\ files \in [rev : [ReadSets -> 0..MaxEdits], left : SUBSET ReadSets,
                  outside : SUBSET ReadSets]
    /\ boundary \in {"free", "hook", "tool"} /\ recovering \in BOOLEAN
-----------------------------------------------------------------------------
(* A tool has an effect only with the call that was frozen, and only when  *)
(* every handler that matches it was heard on exactly that call: gates and *)
(* combined handlers on the frozen key, transformers on a pass that left   *)
(* it as it is (a one-shot consumed by an earlier event and a job of its   *)
(* own are exempt).  And under the mutation boundary no file they read has *)
(* changed since, unless somebody outside the host changed it after the    *)
(* last capture.                                                           *)
Judged(i) ==
    \/ i \in round.skipped \union round.moved
    \/ \E p \in receipts : p.of = i /\ p.state = "clear" /\ p.key = verdict.key
Heard(i) ==
    \/ i \in round.skipped \union round.moved \union round.once
    \/ \E p \in receipts : p.of = i /\ p.state = "clear" /\ p.key.call = call
EffectIsApproved == place.stage = "released" =>
    /\ verdict.key.call = call
    /\ \A p \in receipts : p.state \in {"clear", "moved"}
    /\ \A i \in Matching : IF Of(i).class = "Transformer" THEN Heard(i) ELSE Judged(i)
    /\ boundary = "tool" => \A r \in DOMAIN verdict.key.inputs :
                        Current(r) \/ r \in files.outside
=============================================================================
