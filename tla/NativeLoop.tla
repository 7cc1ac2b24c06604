----------------------------- MODULE NativeLoop -----------------------------
(***************************************************************************)
(* The native conversation of a session (native.rs): the loop of requests  *)
(* and tool calls, its checkpoints in the record, interruption, restart,   *)
(* compaction (native/compaction.rs, workflow/runtime/compaction.rs) and   *)
(* the delivery of observer contexts into it                               *)
(* (workflow/runtime/plugin_observer/delivery.rs, session.rs), as          *)
(* WorkflowSession and DelegatingSession drive it.                         *)
(*                                                                         *)
(* An entry of the conversation is a prompt (of the developer, of a hook,  *)
(* or a correction), the model's final text, a tool call, its result, the  *)
(* context of an observer, or a summary.  A result is "known" when it is   *)
(* the executor's, and otherwise made up: "stopped" by an interruption,    *)
(* "skipped" by a correction, or "interrupted" by a restart.               *)
(***************************************************************************)
EXTENDS Naturals, FiniteSets, Sequences, SequencesExt

CONSTANTS
    Calls,          \* the calls the model may make: each has its own identity
    Ordinary,       \* contexts of observers that wait for the next request
    Rewakes,        \* contexts of observers that start a turn of their own
    Startups,       \* contexts of the observers of the session's start
    AutoLength,     \* the length from which the context is compacted (AUTO_BYTES)
    MaxPrompts, MaxContexts, MaxCrashes      \* bounds of the model

Contexts == Ordinary \union Rewakes \union Startups
None == "none"

ASSUME NativeLoopAssumption ==
    /\ {AutoLength, MaxPrompts, MaxContexts, MaxCrashes} \subseteq Nat
    /\ Calls \intersect Contexts = {} /\ None \notin Calls \union Contexts
    /\ IsFiniteSet(Startups)

VARIABLES
    conv,        \* the live conversation, and what its summaries stand for
    pending,     \* calls of the last response without a result
    saved,       \* the record's checkpoint and its cursor into the operations
    ledger,      \* the operation of each call in the record
    receipt,     \* the executor's result that nobody took yet ("completed")
    delivery,    \* of the context of each observer
    open,        \* other operations that are not complete
    held,        \* recovery_pending
    run,         \* what the session's task is doing
    prompts, crashes,   \* prompts, corrections and /compact; crashes so far
    abandoned       \* history: calls without a result at a /reconcile

vars == <<conv, pending, saved, ledger, receipt, delivery, open, held, run,
          prompts, crashes, abandoned>>
conversation == <<conv, pending, receipt>>
record == <<saved, ledger, delivery, open, held>>
bounds == <<prompts, crashes, abandoned>>

Prompt == [is |-> "prompt", of |-> None, how |-> None]
Answer == [is |-> "answer", of |-> None, how |-> None]
Note == [is |-> "note", of |-> None, how |-> None]      \* a plugin's text
Summary == [is |-> "summary", of |-> None, how |-> None]
Call(c) == [is |-> "call", of |-> c, how |-> None]
Context(x) == [is |-> "context", of |-> x, how |-> None]
Result(c, how) == [is |-> "result", of |-> c, how |-> how]
Entries == {Prompt, Note, Answer, Summary} \union {Call(c) : c \in Calls}
    \union {Context(x) : x \in Contexts}
    \union {Result(c, how) : c \in Calls,
                             how \in {"known", "stopped", "skipped", "interrupted"}}

Steps == {"idle", "submit", "top", "compacting", "summarizing", "compacted", "context",
          "delivering", "entered", "admit", "preparing", "requested", "answered",
          "recorded", "tools", "executing", "hooks", "released", "end", "round",
          "stop", "ending", "closing", "saving", "finishing", "dropped"}
Idle == [step |-> "idle", at |-> None, refs |-> {}, rewake |-> {}, corrections |-> 0,
         finished |-> FALSE, corrected |-> FALSE, outcome |-> None]
Empty == [entries |-> <<>>, gone |-> {}]

Conversations == [entries : Seq(Entries), gone : SUBSET (Calls \union Contexts)]
Runs == [step : Steps, at : {None, "idle", "top", "context", "end"},
         refs : SUBSET Contexts, rewake : SUBSET Rewakes, corrections : 0..MaxPrompts,
         finished : BOOLEAN, corrected : BOOLEAN,
         outcome : {None, "complete", "cancelled", "failed", "refused"}]

TypeOK ==
    /\ conv \in Conversations /\ pending \in Seq(Calls)
    /\ saved \in [conv : Conversations, pending : Seq(Calls), cursor : SUBSET Calls]
    /\ ledger \in [Calls -> {"none", "begun", "known", "lost"}]
    /\ receipt \in Calls \union {None}
    /\ delivery \in [Contexts -> {"none", "pending", "reserved", "delivered", "withheld"}]
    /\ open \subseteq {"turn", "request", "compaction"} /\ held \in BOOLEAN
    /\ run \in Runs /\ run.corrections <= prompts
    /\ prompts \in 0..MaxPrompts /\ crashes \in 0..MaxCrashes /\ abandoned \subseteq Calls
    \* The call in execution is the first without a result; when it has ended
    \* the executor holds its result.
    /\ run.step = "executing" => pending # <<>> /\ ledger[Head(pending)] = "begun"
    /\ run.step = "hooks" => pending # <<>> /\ receipt = Head(pending)

Init ==
    /\ conv = Empty /\ pending = <<>> /\ receipt = None
    /\ saved = [conv |-> Empty, pending |-> <<>>, cursor |-> {}]
    /\ ledger = [c \in Calls |-> "none"]
    /\ delivery = [x \in Contexts |-> "none"]
    /\ open = {} /\ held = FALSE
    /\ run = Idle /\ prompts = 0 /\ crashes = 0 /\ abandoned = {}
-----------------------------------------------------------------------------
With(c, entries) == [c EXCEPT !.entries = @ \o entries]
Say(entries) == conv' = With(conv, entries)
Results(calls, how) == [i \in DOMAIN calls |-> Result(calls[i], how)]

\* events.checkpoint: the cursor covers every operation begun so far.
Checkpoint(c, p) ==
    saved' = [conv |-> c, pending |-> p, cursor |-> {x \in Calls : ledger[x] # "none"}]

Go(step) == run' = [run EXCEPT !.step = step]
\* A turn ends with an outcome; a compaction by the developer is no turn.
End(outcome) ==
    run' = [run EXCEPT !.outcome = outcome, !.refs = {}, !.finished = FALSE,
                       !.corrected = FALSE,
                       !.step = IF run.at = "idle" THEN "finishing" ELSE "ending"]
Deliver(xs, state) == delivery' = [x \in Contexts |-> IF x \in xs THEN state ELSE delivery[x]]

(* The developer's prompt begins the phase and an operation of its own.    *)
BeginTurn(rewake) ==
    /\ run.step = "idle" /\ ~held /\ prompts < MaxPrompts
    /\ prompts' = prompts + 1
    /\ IF "turn" \in open
       THEN /\ run' = [Idle EXCEPT !.step = "ending", !.outcome = "refused",
                                   !.rewake = rewake]
            /\ UNCHANGED open
       ELSE /\ run' = [Idle EXCEPT !.step = "submit", !.rewake = rewake]
            /\ open' = open \union {"turn"}
    /\ UNCHANGED <<conversation, saved, ledger, held, crashes, abandoned>>
StartTurn == BeginTurn({}) /\ UNCHANGED delivery
\* observer_turn: one rewake is reserved, and is the prompt of the turn.
StartRewake ==
    \E x \in Rewakes :
        /\ delivery[x] = "pending"
        /\ Deliver({x}, "reserved")
        /\ BeginTurn({x})

\* submit_prompt, whose hook may add to the prompt or block it.
Submit ==
    /\ run.step = "submit"
    /\ LET text == IF run.rewake = {} THEN <<Prompt>>
                   ELSE [i \in 1..1 |-> Context(CHOOSE x \in run.rewake : TRUE)]
       IN Say(text) /\ Checkpoint(With(conv, text), pending)
    /\ Go("top")
    /\ UNCHANGED <<pending, receipt, ledger, delivery, open, held, bounds>>

\* Corrections that were taken in are submitted like prompts.
SubmitCorrections ==
    /\ run.step \in {"top", "round"} /\ run.corrections > 0
    /\ Say([i \in 1..run.corrections |-> Prompt])
    /\ run' = [run EXCEPT !.corrections = 0, !.corrected = (run.step = "round")]
    /\ UNCHANGED <<pending, receipt, record, bounds>>
PromptBlocked ==
    /\ \/ run.step = "submit" /\ run.rewake = {}
       \/ run.step \in {"top", "round"} /\ run.corrections > 0
    /\ End("failed")
    /\ UNCHANGED <<conversation, record, bounds>>
-----------------------------------------------------------------------------
(* Compaction.                                                             *)
CallsIn(s) == {s[i].of : i \in {j \in DOMAIN s : s[j].is = "call"}}
Answered(s) == {s[i].of : i \in {j \in DOMAIN s : s[j].is = "result"}}
Complete(s) == CallsIn(s) = Answered(s)
Boundaries(s) == {i \in 0..Len(s) : Complete(SubSeq(s, 1, i))}

\* The last two units of the conversation that are complete in themselves.
RecentUnits(s) ==
    LET start == CHOOSE b \in Boundaries(s) :
                    Cardinality({x \in Boundaries(s) : x > b}) = 2
    IN SubSeq(s, start + 1, Len(s))
MayCompact(s) == Complete(s) /\ Cardinality(Boundaries(s)) > 3

\* The summary stands for what is dropped; the current prompt is repeated.
Replacement(c) ==
    LET kept == RecentUnits(c.entries)
        dropped == SubSeq(c.entries, 1, Len(c.entries) - Len(kept))
    IN [entries |-> <<Summary, Prompt>> \o kept,
        gone |-> c.gone \union ({dropped[i].of : i \in DOMAIN dropped} \ {None})]

Long == Len(conv.entries) >= AutoLength
\* compact_context and begin_compaction, by the developer or at the loop's top.
Compacting(place) ==
    /\ run.step = place /\ run.corrections = 0
    /\ place = "top" => Long
CompactionAdmitted ==
    /\ pending = <<>> /\ MayCompact(conv.entries)
    /\ Prompt \in Range(conv.entries)
    /\ saved.conv = conv /\ saved.pending = pending
    /\ ~held /\ "compaction" \notin open
BeginCompaction ==
    /\ \E place \in {"idle", "top"} :
        /\ Compacting(place) /\ CompactionAdmitted
        /\ run' = [run EXCEPT !.step = "compacting", !.at = place]
        /\ IF place = "top" THEN UNCHANGED prompts
           ELSE prompts < MaxPrompts /\ prompts' = prompts + 1
    /\ open' = open \union {"compaction"}
    /\ UNCHANGED <<conversation, saved, ledger, delivery, held, crashes, abandoned>>
CompactionRefused ==
    /\ Compacting("top") /\ ~CompactionAdmitted
    /\ End("failed")
    /\ UNCHANGED <<conversation, record, bounds>>

RequestSummary ==
    /\ run.step = "compacting" /\ ~held
    /\ open' = open \union {"request"}
    /\ Go("summarizing")
    /\ UNCHANGED <<conversation, saved, ledger, delivery, held, bounds>>
\* apply_compaction and the live restore have no await between them.
ApplySummary ==
    /\ run.step = "summarizing"
    /\ Len(Replacement(conv).entries) < Len(conv.entries)
    /\ conv' = Replacement(conv)
    /\ Checkpoint(Replacement(conv), pending)
    /\ open' = open \ {"request"}
    /\ Go("compacted")
    /\ UNCHANGED <<pending, receipt, ledger, delivery, held, bounds>>
\* After PostCompact the loop goes on; its text enters the context.
EndCompaction ==
    /\ run.step = "compacted"
    /\ \E text \in {<<>>, <<Note>>} :
        /\ Say(text)
        /\ IF text = <<>> THEN UNCHANGED saved ELSE Checkpoint(With(conv, text), pending)
    /\ open' = open \ {"compaction"}
    /\ run' = [run EXCEPT !.at = IF @ = "idle" THEN @ ELSE None,
                          !.step = IF run.at = "idle" THEN "finishing" ELSE "context"]
    /\ UNCHANGED <<pending, receipt, ledger, delivery, held, bounds>>
\* A hook holds it, or there is no usable summary: the context stays.
CompactionFails ==
    /\ run.step \in {"compacting", "summarizing", "compacted"}
    /\ open' = open \ {"request", "compaction"}
    /\ End("failed")
    /\ UNCHANGED <<conversation, saved, ledger, delivery, held, bounds>>
NotLong ==
    /\ run.step = "top" /\ run.corrections = 0 /\ ~Long
    /\ Go("context")
    /\ UNCHANGED <<conversation, record, bounds>>
-----------------------------------------------------------------------------
(* Contexts of observers, before the request and after the tools.          *)
ContextReady ==
    /\ Cardinality({x \in Contexts : delivery[x] # "none"}) < MaxContexts
    /\ \E x \in Contexts : delivery[x] = "none" /\ Deliver({x}, "pending")
    /\ UNCHANGED <<conversation, saved, ledger, open, held, run, bounds>>

Pending(kind) == {x \in kind : delivery[x] = "pending"}
After(place) == IF place = "context" THEN "admit" ELSE "round"

\* Ordinary contexts go together, as many as fit; without any, one rewake alone.
Selections ==
    IF Pending(Ordinary) # {} THEN SUBSET Pending(Ordinary) \ {{}}
    ELSE {{x} : x \in Pending(Rewakes)}
ReserveContext ==
    /\ run.step \in {"context", "end"}
    /\ \E xs \in Selections :
        /\ Deliver(xs, "reserved")
        /\ run' = [run EXCEPT !.step = "delivering", !.at = run.step, !.refs = xs]
    /\ UNCHANGED <<conversation, saved, ledger, open, held, bounds>>
\* A rewake is charged to its task, whose allowance may be used up.
RewakeRefused ==
    /\ run.step \in {"context", "end"} /\ Pending(Ordinary) = {} /\ Pending(Rewakes) # {}
    /\ End("failed")
    /\ UNCHANGED <<conversation, record, bounds>>
NoContext ==
    /\ run.step \in {"context", "end"} /\ Selections = {}
    /\ Go(After(run.step))
    /\ UNCHANGED <<conversation, record, bounds>>
\* The context is in the checkpoint before it counts as delivered.
EnterContext ==
    /\ run.step = "delivering"
    /\ LET text == SetToSeq({Context(x) : x \in run.refs})
       IN Say(text) /\ Checkpoint(With(conv, text), pending)
    /\ Go("entered")
    /\ UNCHANGED <<pending, receipt, ledger, delivery, open, held, bounds>>
CompleteContext ==
    /\ run.step = "entered"
    /\ Deliver(run.refs, "delivered")
    /\ run' = [run EXCEPT !.step = After(run.at), !.at = None, !.refs = {},
                          !.corrected = @ \/ (run.at = "end")]
    /\ UNCHANGED <<conversation, saved, ledger, open, held, bounds>>
-----------------------------------------------------------------------------
(* The request.  Contexts of the session's start are bound to it.          *)
BeginModel ==
    /\ run.step = "admit" /\ ~held
    /\ open' = open \union {"request"}
    /\ Deliver(Pending(Startups), "reserved")
    /\ run' = [run EXCEPT !.refs = Pending(Startups),
                          !.step = IF Pending(Startups) = {} THEN "requested" ELSE "preparing"]
    /\ UNCHANGED <<conversation, saved, ledger, held, bounds>>
ModelRefused ==
    /\ run.step = "admit"
    /\ End("failed")
    /\ UNCHANGED <<conversation, record, bounds>>
\* prepare_native_observer_context withholds what is stale.
PrepareStartup ==
    /\ run.step = "preparing"
    /\ \/ /\ LET text == SetToSeq({Context(x) : x \in run.refs})
             IN Say(text) /\ Checkpoint(With(conv, text), pending)
          /\ Go("requested") /\ UNCHANGED delivery
       \/ /\ Deliver(run.refs, "withheld")
          /\ run' = [run EXCEPT !.step = "requested", !.refs = {}]
          /\ UNCHANGED <<conv, saved>>
    /\ UNCHANGED <<pending, receipt, ledger, open, held, bounds>>
\* Its authority ended after it had entered the checkpoint.
StartupStale ==
    /\ run.step = "requested" /\ run.refs # {}
    /\ held' = TRUE /\ End("failed")
    /\ UNCHANGED <<conversation, saved, ledger, delivery, open, bounds>>

\* The model answers with text, or with calls of identities of their own.
NewCalls == {c \in Calls : /\ ledger[c] = "none" /\ c \notin conv.gone
                           /\ c \notin CallsIn(conv.entries)}
Responses == {<<>>} \union {<<c>> : c \in NewCalls}
    \union {<<p[1], p[2]>> : p \in {q \in NewCalls \X NewCalls : q[1] # q[2]}}
Responds ==
    /\ run.step = "requested"
    /\ \E calls \in Responses :
        /\ Say(IF calls = <<>> THEN <<Answer>> ELSE [i \in DOMAIN calls |-> Call(calls[i])])
        /\ pending' = calls
        /\ run' = [run EXCEPT !.step = "answered", !.finished = (calls = <<>>),
                              !.corrected = FALSE]
    /\ open' = open \ {"request"}
    /\ UNCHANGED <<receipt, saved, ledger, delivery, held, bounds>>
ProviderFails ==
    /\ run.step = "requested"
    /\ open' = open \ {"request"}
    /\ End("failed")
    /\ UNCHANGED <<conversation, saved, ledger, delivery, held, bounds>>
CompleteStartup ==
    /\ run.step = "answered"
    /\ Deliver(run.refs, "delivered")
    /\ run' = [run EXCEPT !.step = "recorded", !.refs = {}]
    /\ UNCHANGED <<conversation, saved, ledger, open, held, bounds>>
TakeCalls ==
    /\ run.step = "recorded"
    /\ Checkpoint(conv, pending)
    /\ Go("tools")
    /\ UNCHANGED <<conversation, ledger, delivery, open, held, bounds>>
-----------------------------------------------------------------------------
(* The calls of the response, in order.                                    *)
SkipCall ==
    /\ run.step = "tools" /\ pending # <<>> /\ run.corrections > 0
    /\ Say(<<Result(Head(pending), "skipped")>>)
    /\ pending' = Tail(pending)
    /\ UNCHANGED <<receipt, record, run, bounds>>
BeginTool ==
    /\ run.step = "tools" /\ pending # <<>> /\ run.corrections = 0 /\ ~held
    /\ ledger' = [ledger EXCEPT ![Head(pending)] = "begun"]
    /\ receipt' = None
    /\ Go("executing")
    /\ UNCHANGED <<conv, pending, saved, delivery, open, held, bounds>>
ToolRefused ==
    /\ run.step = "tools" /\ pending # <<>> /\ run.corrections = 0
    /\ End("failed")
    /\ UNCHANGED <<conversation, record, bounds>>
ToolsDone ==
    /\ run.step = "tools" /\ pending = <<>>
    /\ Go("end")
    /\ UNCHANGED <<conversation, record, bounds>>

\* No await separates the effect's end, the executor's receipt and the record.
ToolEnds ==
    /\ run.step = "executing"
    /\ receipt' = Head(pending)
    /\ ledger' = [ledger EXCEPT ![Head(pending)] = "known"]
    /\ Go("hooks")
    /\ UNCHANGED <<conv, pending, saved, delivery, open, held, bounds>>
\* The hooks after it passed: the model gets the result, before the checkpoint.
ToolReturns ==
    /\ run.step = "hooks"
    /\ LET text == <<Result(Head(pending), "known")>>
       IN Say(text) /\ Checkpoint(With(conv, text), Tail(pending))
    /\ pending' = Tail(pending) /\ receipt' = None
    /\ Go("released")
    /\ UNCHANGED <<ledger, delivery, open, held, bounds>>
Continue ==
    /\ run.step = "released"
    /\ Go("tools")
    /\ UNCHANGED <<conversation, record, bounds>>
\* A plugin's correction supersedes the rest of the response.
Supersede ==
    /\ run.step = "released"
    /\ Say(Results(pending, "skipped"))
    /\ pending' = <<>>
    /\ Go("end")
    /\ UNCHANGED <<receipt, record, bounds>>
\* A hook fails, holds the continuation, or its release is not valid any more.
HookFails ==
    /\ run.step \in {"hooks", "released", "stop"}
    /\ End("failed")
    /\ UNCHANGED <<conversation, record, bounds>>

EndRound ==
    /\ run.step = "round" /\ run.corrections = 0
    /\ Checkpoint(conv, pending)
    /\ Go(IF run.finished /\ ~run.corrected THEN "stop" ELSE "top")
    /\ UNCHANGED <<conversation, ledger, delivery, open, held, bounds>>
\* Mutant: a correction that arrives with the hook's end is not looked for.
MutantStop ==
    /\ run.step = "stop"
    /\ End("complete")
    /\ UNCHANGED <<conversation, record, bounds>>
\* The Stop hook passed, and no correction came in meanwhile.
Stop ==
    /\ run.step = "stop"
    /\ IF run.corrections = 0 THEN End("complete") ELSE Go("top")
    /\ UNCHANGED <<conversation, record, bounds>>
StopCorrects ==
    /\ run.step = "stop" /\ prompts < MaxPrompts /\ prompts' = prompts + 1
    /\ Say(<<Note>>) /\ Checkpoint(With(conv, <<Note>>), pending)
    /\ Go("top")
    /\ UNCHANGED <<pending, receipt, ledger, delivery, open, held, crashes, abandoned>>
-----------------------------------------------------------------------------
(* Controls of the developer, wherever the turn awaits or drains them.     *)
Awaiting == {"submit", "top", "compacting", "summarizing", "compacted", "requested",
             "tools", "executing", "hooks", "released", "stop"}
Correct ==
    /\ run.step \in Awaiting \ {"compacting", "summarizing", "compacted"}
    /\ prompts < MaxPrompts /\ prompts' = prompts + 1
    /\ run' = [run EXCEPT !.corrections = @ + 1]
    /\ UNCHANGED <<conversation, record, crashes, abandoned>>
\* The compaction's owner closes it; an interrupted request stays open.
Cancel ==
    /\ run.step \in Awaiting
    /\ open' = open \ {"compaction"}
    /\ End("cancelled")
    /\ UNCHANGED <<conversation, saved, ledger, delivery, held, bounds>>
\* The turn's future is dropped: by DelegatingSession, or at the deadline.
DropTurn ==
    /\ run.step \in Awaiting
    /\ open' = open \ {"compaction"}
    /\ Go("dropped")
    /\ UNCHANGED <<conversation, saved, ledger, delivery, held, bounds>>
-----------------------------------------------------------------------------
(* The end of a turn.                                                      *)
\* Mutant: the executor's result is not looked for.
MutantSettled ==
    With(conv, Results(pending, "stopped"))
\* settle_interruption: the executor's own result first, then made-up ones.
Settled ==
    IF pending # <<>> /\ receipt = Head(pending)
    THEN With(conv, <<Result(receipt, "known")>> \o Results(Tail(pending), "stopped"))
    ELSE With(conv, Results(pending, "stopped"))
Settle == conv' = Settled /\ pending' = <<>> /\ receipt' = None

FinishNativeTurn ==
    /\ run.step = "ending"
    /\ open' = IF run.outcome = "refused" THEN open ELSE open \ {"turn"}
    /\ Settle
    /\ Go(IF run.outcome = "complete" THEN "saving" ELSE "closing")
    /\ UNCHANGED <<saved, ledger, delivery, held, bounds>>
Withheld == {x \in Ordinary \union Rewakes : delivery[x] # "none"}
\* Observers that do not stop in time leave the end unsaved.
Close ==
    /\ run.step = "closing"
    /\ Deliver(Withheld, "withheld")
    /\ \E saved_too \in BOOLEAN : Go(IF saved_too THEN "saving" ELSE "finishing")
    /\ UNCHANGED <<conversation, saved, ledger, open, held, bounds>>
SaveEnd ==
    /\ run.step = "saving"
    /\ Checkpoint(conv, pending)
    /\ Go("finishing")
    /\ UNCHANGED <<conversation, ledger, delivery, open, held, bounds>>
Unresolved == open # {} \/ \E c \in Calls : ledger[c] = "begun"
\* A rewake that completed is delivered; finish_phase holds what is unresolved.
FinishPhase ==
    /\ run.step = "finishing"
    /\ IF run.outcome = "complete" THEN Deliver(run.rewake, "delivered") ELSE UNCHANGED delivery
    /\ held' = (held \/ Unresolved)
    /\ run' = Idle
    /\ UNCHANGED <<conversation, saved, ledger, open, bounds>>

(* A dropped turn is settled by its driver.  At the deadline that is       *)
(* WorkflowSession::work; after a Cancel it is cancel_background, which    *)
(* stops the observers first and gives up when that takes too long.        *)
SettleDropped ==
    /\ \/ run.step = "dropped"
       \/ run.step = "idle" /\ pending # <<>>
    /\ \E stop \in BOOLEAN : Deliver(IF stop THEN Withheld ELSE {}, "withheld")
    /\ Settle /\ Checkpoint(Settled, <<>>)
    /\ held' = (held \/ Unresolved)
    /\ run' = Idle
    /\ UNCHANGED <<ledger, open, bounds>>
CleanupTimesOut ==
    /\ run.step = "dropped"
    /\ Deliver(Withheld, "withheld")
    /\ run' = Idle
    /\ UNCHANGED <<conversation, saved, ledger, open, held, bounds>>

\* /reconcile closes the operations and saves the conversation as it is.
Reconcile ==
    /\ run.step = "idle" /\ (held \/ Unresolved)
    /\ open' = {} /\ held' = FALSE
    /\ ledger' = [c \in Calls |-> IF ledger[c] = "begun" THEN "lost" ELSE ledger[c]]
    /\ Checkpoint(conv, pending)
    /\ abandoned' = abandoned \union Range(pending)
    /\ UNCHANGED <<conversation, delivery, run, prompts, crashes>>
-----------------------------------------------------------------------------
(* The process dies; the next one restores the checkpoint, with the        *)
(* results of operations after its cursor, and replays nothing.            *)
\* Mutant: what was only reserved is offered again.
MutantRecovered(x) ==
    IF delivery[x] = "reserved" THEN "pending"
    ELSE IF x \in Startups THEN "withheld" ELSE delivery[x]
\* A delivery that is uncertain, or bound to the old session, is withheld.
Recovered(x) == IF delivery[x] = "reserved" \/ x \in Startups THEN "withheld" ELSE delivery[x]
KnownAfter(c) == c \notin saved.cursor /\ ledger[c] = "known"
Crash ==
    /\ crashes < MaxCrashes /\ crashes' = crashes + 1
    /\ LET answer(c) == Result(c, IF KnownAfter(c) THEN "known" ELSE "interrupted")
       IN conv' = With(saved.conv, [i \in DOMAIN saved.pending |-> answer(saved.pending[i])])
    /\ pending' = <<>> /\ receipt' = None
    /\ delivery' = [x \in Contexts |-> Recovered(x)]
    /\ held' \in {TRUE, held \/ Unresolved \/ run.step # "idle"}
    /\ run' = Idle
    /\ UNCHANGED <<saved, ledger, open, prompts, abandoned>>

Next ==
    \/ StartTurn \/ StartRewake \/ Submit \/ SubmitCorrections \/ PromptBlocked
    \/ BeginCompaction \/ CompactionRefused \/ RequestSummary \/ ApplySummary
    \/ EndCompaction \/ CompactionFails \/ NotLong
    \/ ContextReady \/ ReserveContext \/ RewakeRefused \/ NoContext \/ EnterContext \/ CompleteContext
    \/ BeginModel \/ ModelRefused \/ PrepareStartup \/ StartupStale
    \/ Responds \/ ProviderFails \/ CompleteStartup \/ TakeCalls
    \/ SkipCall \/ BeginTool \/ ToolRefused \/ ToolsDone \/ ToolEnds \/ ToolReturns
    \/ Continue \/ Supersede \/ HookFails \/ EndRound \/ Stop \/ StopCorrects
    \/ Correct \/ Cancel \/ DropTurn
    \/ FinishNativeTurn \/ Close \/ SaveEnd \/ FinishPhase
    \/ SettleDropped \/ CleanupTimesOut \/ Reconcile \/ Crash

Spec == Init /\ [][Next]_vars
-----------------------------------------------------------------------------
(* The properties.                                                         *)
CallAt(s, c) == CHOOSE i \in DOMAIN s : s[i] = Call(c)
ResultsOf(s, c) == {i \in DOMAIN s : s[i].is = "result" /\ s[i].of = c}
\* The calls in cs each have one result, with only calls and results between.
AnsweredOnce(s, cs) ==
    /\ Answered(s) \subseteq CallsIn(s)
    /\ \A c \in CallsIn(s) \intersect cs :
        \E i \in DOMAIN s :
            /\ ResultsOf(s, c) = {i} /\ CallAt(s, c) < i
            /\ \A j \in CallAt(s, c)..i : s[j].is \in {"call", "result"}
\* A result the model is told is the effect's own, or the effect's is not known.
TrueAnswers(s, cs) ==
    \A c \in Answered(s) \intersect cs : \A i \in ResultsOf(s, c) :
        /\ (s[i].how = "known") <=> (ledger[c] = "known")
        /\ s[i].how = "skipped" => ledger[c] = "none"

(* In every request each call that was not abandoned has exactly one       *)
(* result, the record's where there is one, whatever interrupted the turn, *)
(* the process or the response it belongs to (settle_interruption,         *)
(* restore, tail, the tool loop of run_turn).                              *)
CallsAnswered ==
    run.step = "requested" =>
        /\ AnsweredOnce(conv.entries, Calls \ abandoned)
        /\ TrueAnswers(conv.entries, Calls \ abandoned)

(* An observer's context enters the conversation, and the record's         *)
(* checkpoint, at most once; while it may still be delivered it is in      *)
(* neither, and once it counts as delivered the checkpoint holds it, or a  *)
(* summary of it (reserve_observer_context, complete, restore).            *)
Times(c, x) == Cardinality({i \in DOMAIN c.entries : c.entries[i] = Context(x)})
               + (IF x \in c.gone THEN 1 ELSE 0)
ContextOnce ==
    \A x \in Contexts :
        /\ Times(conv, x) <= 1 /\ Times(saved.conv, x) <= 1
        /\ delivery[x] \in {"none", "pending"} => Times(conv, x) = 0 /\ Times(saved.conv, x) = 0
        /\ delivery[x] = "delivered" => Times(saved.conv, x) = 1

(* A turn that ends as complete ends with the model's answer: no call, no  *)
(* context and no correction of the developer is left without a request    *)
(* that carries it, whenever it came in (the end of run_turn).             *)
LastWord ==
    run.step = "ending" /\ run.outcome = "complete" =>
        /\ conv.entries # <<>> /\ Last(conv.entries) = Answer
        /\ pending = <<>> /\ run.corrections = 0
=============================================================================
