----------------------------- MODULE ToolLedger -----------------------------
(***************************************************************************)
(* The durable ledger of a session: model invocations and tool operations  *)
(* (workflow/runtime.rs, runtime/tool_operations.rs), the allowance they   *)
(* are charged to and the usage they report (workflow/allocation.rs,       *)
(* runtime/budget_accounting.rs), and the steps of the tool executor       *)
(* (tools.rs) between them.                                                *)
(*                                                                         *)
(* The parent worker and its child agents run concurrently; each asks its  *)
(* model, then executes the tool calls of the answer one after another.    *)
(* Every change of the ledger is one atomic durable update (module         *)
(* SessionStore); after a persistence error no update succeeds until the   *)
(* restart, so a run with such an error is one that stops early and        *)
(* restarts.  An admission that was retained but whose persisted clock     *)
(* shows an exhausted deadline is withheld from execution: a choice here.  *)
(* Left to other modules: plugin plans, tool batches, external backends    *)
(* (whose invocations are counted, not charged), and the workspace jobs    *)
(* of a child (Validating, Integrating).                                   *)
(***************************************************************************)
EXTENDS Naturals, Sequences, FiniteSets, FiniteSetsExt

CONSTANTS
    Parent,      \* the phase of the parent worker
    Children,    \* the phases of child agents
    Calls,       \* call identities a model may use within one answer
    NoCall,      \* Option::None for a call
    ToolLimit,   \* Limits::tool_calls
    ModelLimit,  \* Limits::model_calls
    RetireLimit, \* MAX_RETIRED_ALLOCATIONS (32 in the code)
    MaxOps,      \* bound on the operations (4096 in the code)
    MaxEpoch,    \* bound on the allocations of a session
    MaxReports   \* bound on the usage reports of one invocation

Owners == Children \union {Parent}

ASSUME LedgerAssumption ==
    /\ Parent \notin Children
    /\ NoCall \notin Calls
    /\ ToolLimit \in Nat /\ ModelLimit \in Nat /\ RetireLimit \in Nat
    /\ MaxOps \in Nat /\ MaxEpoch \in Nat /\ MaxReports \in Nat

VARIABLES
    ops,        \* record.operations
    epoch,      \* record.task_allocation_epoch
    funded,     \* is record.allocation there?
    grants,     \* the counters of every allocation, current and retired
    retired,    \* the epochs in record.retired_task_allocations
    held,       \* record.recovery_pending
    turn,       \* is record.phase set?
    child,      \* record.agents[c].status
    runner,     \* where each owner's executor stands
    performed   \* how often the effect of each operation happened in the world

ledger == <<ops, epoch, funded, grants, retired, held>>
vars == <<ops, epoch, funded, grants, retired, held, turn, child, runner, performed>>

\* A model invocation or a tool operation.  "fixed" is the receipt's
\* model_result_settled, "settled" its observers_complete; epoch 0 is Unallocated.
Operation ==
    [kind : {"model", "tool"}, owner : Owners, source : 0..MaxOps,
     call : Calls \union {NoCall}, epoch : 0..MaxEpoch,
     complete : BOOLEAN, reconciled : BOOLEAN, result : {"none", "failed", "ok"},
     admitted : BOOLEAN, effect : BOOLEAN, fixed : BOOLEAN, settled : BOOLEAN,
     reports : 0..MaxReports, missing : BOOLEAN]

Grant == [models : 0..ModelLimit, tools : 0..ToolLimit, reports : Nat,
          unknown : BOOLEAN]

\* "ended" is an executor whose future returned or was dropped, before the turn
\* or the job is closed; "refused" one whose tool may only fail.
Steps == {"off", "idle", "open", "begun", "admitted", "starting", "performed",
          "refused", "retained", "fixed", "ended"}

\* "Absent" in a session without agents.
AgentStatus == {"Absent", "New", "Running", "Stopped", "Failed", "Cancelled", "Uncertain"}

Ids == 1..Len(ops)

TypeOK ==
    /\ ops \in Seq(Operation) /\ Len(ops) <= MaxOps
    /\ epoch \in 0..MaxEpoch /\ funded \in BOOLEAN
    /\ grants \in [1..MaxEpoch -> Grant]
    /\ retired \subseteq 1..MaxEpoch
    /\ held \in BOOLEAN /\ turn \in BOOLEAN
    /\ child \in [Children -> AgentStatus]
    /\ runner \in [Owners -> [step : Steps, inv : 0..MaxOps, op : 0..MaxOps]]
    /\ performed \in [1..MaxOps -> Nat]

Runner(step, inv, op) == [step |-> step, inv |-> inv, op |-> op]

Init ==
    /\ ops = <<>>
    /\ epoch = 0 /\ funded = FALSE /\ retired = {}
    /\ grants = [e \in 1..MaxEpoch |->
                   [models |-> 0, tools |-> 0, reports |-> 0, unknown |-> FALSE]]
    /\ held = FALSE /\ turn = FALSE
    /\ child \in {[c \in Children |-> status] : status \in {"Absent", "New"}}
    /\ runner = [o \in Owners |-> Runner("off", 0, 0)]
    /\ performed = [i \in 1..MaxOps |-> 0]

-----------------------------------------------------------------------------
(* Accounting.                                                             *)

\* Operation::needs_reconciliation.
Unresolved(i) ==
    /\ ~ops[i].reconciled
    /\ ~ops[i].complete \/ (ops[i].kind = "tool" /\ ~ops[i].settled)

\* ensure_agent_active.
Active(o) == o \in Children => child[o] = "Running"

\* budget_accounting::active: a retired allocation cannot execute.
Executable(e) == e = 0 \/ (e = epoch /\ funded)

\* budget_accounting::capture.
Current == IF funded THEN epoch ELSE 0

MutantSettlement(e) == IF e # 0 /\ e = epoch /\ funded THEN {e} ELSE {}

\* budget_accounting::settlement: the one allocation, current or retired, that a
\* report about an operation of epoch e belongs to.
Settlement(e) == IF e \in retired \/ (e # 0 /\ e = epoch /\ funded) THEN {e} ELSE {}

\* budget_accounting::mark_missing: an invocation of S without a report is marked,
\* and makes the usage of its allocation unknown.  Marked(S) is record.operations
\* afterwards, MarkUnknown(S) the change of the allocations.
Silent(S) == {i \in S : ops[i].kind = "model" /\ ops[i].reports = 0}

Marked(S) ==
    [i \in Ids |-> [ops[i] EXCEPT !.missing = @ \/ i \in Silent(S)]]

MarkUnknown(S) ==
    grants' = [e \in 1..MaxEpoch |->
                 [grants[e] EXCEPT !.unknown =
                    @ \/ \E i \in Silent(S) : e \in Settlement(ops[i].epoch)]]

\* Marks the operations of S and closes them as acknowledged.
Acknowledge(S) ==
    /\ ops' = [i \in Ids |-> [Marked(S)[i] EXCEPT !.reconciled = @ \/ i \in S]]
    /\ MarkUnknown(S)

-----------------------------------------------------------------------------
(* Turns of the parent.                                                    *)

At(o, step) == runner[o].step = step
Goto(o, step) == runner' = [runner EXCEPT ![o].step = step]
Halt(o, step) == runner' = [runner EXCEPT ![o] = Runner(step, 0, 0)]

\* begin_phase.
OpenTurn ==
    /\ At(Parent, "off") /\ ~held
    /\ turn' = TRUE
    /\ Halt(Parent, "idle")
    /\ UNCHANGED <<ledger, child, performed>>

MutantFinishTurn ==
    /\ runner[Parent].step \in {"idle", "ended"}
    /\ turn' = FALSE
    /\ Halt(Parent, "off")
    /\ LET left == {i \in Ids : Unresolved(i) /\ ops[i].owner = Parent}
       IN  ops' = Marked(left) /\ MarkUnknown(left)
    /\ UNCHANGED <<epoch, funded, retired, held, child, performed>>

\* finish_phase, once the executor has returned or was dropped: what the parent
\* left without a known outcome holds the session.  Children answer for theirs.
FinishTurn ==
    /\ runner[Parent].step \in {"idle", "ended"}
    /\ turn' = FALSE
    /\ Halt(Parent, "off")
    /\ LET left == {i \in Ids : Unresolved(i) /\ ops[i].owner = Parent}
       IN  /\ held' = (held \/ left # {})
           /\ ops' = Marked(left)
           /\ MarkUnknown(left)
    /\ UNCHANGED <<epoch, funded, retired, child, performed>>

\* The developer's /reconcile: everything unresolved is acknowledged as inspected,
\* nothing is replayed.
Reconcile ==
    /\ At(Parent, "off")
    /\ \A c \in Children : child[c] # "Running"
    /\ Acknowledge({i \in Ids : Unresolved(i)})
    /\ held' = FALSE /\ turn' = FALSE
    /\ UNCHANGED <<epoch, funded, retired, child, runner, performed>>

-----------------------------------------------------------------------------
(* Allocations.                                                            *)

\* ensure_children_settled, of the agents there are.
ChildrenSettled == \A c \in Children : child[c] \in {"Absent", "New", "Failed", "Cancelled"}

\* Is the session one with agents?
Delegation == \E c \in Children : child[c] # "Absent"

\* budget_accounting::retire: an allocation that some operation refers to is kept.
Retire ==
    LET referenced == funded /\ \E i \in Ids : ops[i].epoch = epoch
    IN  /\ referenced => Cardinality(retired) < RetireLimit
        /\ retired' = IF referenced THEN retired \union {epoch} ELSE retired

\* archive: a session with agents keeps its allocation until the next one.
Archive ==
    /\ At(Parent, "off") /\ ChildrenSettled
    /\ IF Delegation THEN UNCHANGED <<retired, funded>>
       ELSE Retire /\ funded' = FALSE
    /\ UNCHANGED <<ops, epoch, grants, held, turn, child, runner, performed>>

\* allocate: the allowance of a new task, under a new epoch.
Allocate ==
    /\ At(Parent, "off") /\ ~held /\ ChildrenSettled
    /\ epoch < MaxEpoch
    /\ Retire
    /\ epoch' = epoch + 1 /\ funded' = TRUE
    /\ UNCHANGED <<ops, grants, held, turn, child, runner, performed>>

-----------------------------------------------------------------------------
(* Child agents.                                                           *)

OfChild(c) == {i \in Ids : ops[i].owner = c}

\* Manager::pump and launch, or the start of another job of a stopped child.
StartChild(c) ==
    /\ child[c] \in {"New", "Stopped"} /\ ~held /\ At(c, "off")
    /\ child' = [child EXCEPT ![c] = "Running"]
    /\ Halt(c, "idle")
    /\ UNCHANGED <<ledger, turn, performed>>

\* Manager::cancel: the record refuses the child from now on, its executor is
\* dropped later.
CancelChild(c) ==
    /\ child[c] \in {"Running", "Stopped", "Failed"}
    /\ child' = [child EXCEPT ![c] = "Cancelled"]
    /\ UNCHANGED <<ledger, turn, runner, performed>>

\* Manager::finish_job.
FinishChild(c) ==
    /\ runner[c].step \in {"idle", "ended"}
    /\ Halt(c, "off")
    /\ LET left == {i \in OfChild(c) : ~ops[i].complete}
       IN  IF child[c] = "Cancelled"
           THEN Acknowledge(left) /\ UNCHANGED child
           ELSE /\ UNCHANGED <<ops, grants>>
                /\ child' = [child EXCEPT ![c] =
                      IF At(c, "idle") THEN "Stopped"
                      ELSE IF \E i \in left : ~ops[i].reconciled THEN "Uncertain"
                      ELSE "Failed"]
    /\ UNCHANGED <<epoch, funded, retired, held, turn, performed>>

\* The drop of Interrupted: an owner aborted before it could finish its job.
AbortChild(c) ==
    /\ ~At(c, "off")
    /\ Halt(c, "off")
    /\ LET left == {i \in OfChild(c) : ~ops[i].complete /\ ~ops[i].reconciled}
       IN  ops' = Marked(left) /\ MarkUnknown(left)
    /\ child' = [child EXCEPT ![c] = IF @ = "Running" THEN "Uncertain" ELSE @]
    /\ UNCHANGED <<epoch, funded, retired, held, turn, performed>>

\* Manager::reconcile: the developer inspected an uncertain child.
ReconcileChild(c) ==
    /\ child[c] = "Uncertain"
    /\ Acknowledge({i \in OfChild(c) : ~ops[i].complete})
    /\ child' = [child EXCEPT ![c] = "Failed"]
    /\ UNCHANGED <<epoch, funded, retired, held, turn, runner, performed>>

-----------------------------------------------------------------------------
(* Model invocations.                                                      *)

NewOp(kind, o, source, call, e) ==
    [kind |-> kind, owner |-> o, source |-> source, call |-> call, epoch |-> e,
     complete |-> FALSE, reconciled |-> FALSE, result |-> "none",
     admitted |-> FALSE, effect |-> FALSE, fixed |-> FALSE, settled |-> FALSE,
     reports |-> 0, missing |-> FALSE]

MutantCharge(e, counter) ==
    IF e = 0 \/ counter = "tools" THEN UNCHANGED grants
    ELSE grants' = [grants EXCEPT ![e].models = @ + 1]

\* budget_accounting::admit and Allocation::admit.
Charge(e, counter) ==
    IF e = 0 THEN UNCHANGED grants
    ELSE grants' = [grants EXCEPT ![e][counter] = @ + 1]

\* begin_model.
BeginModel(o) ==
    /\ At(o, "idle")
    /\ ~held /\ Active(o) /\ Len(ops) < MaxOps
    /\ Current # 0 => grants[Current].models < ModelLimit
    /\ Charge(Current, "models")
    /\ ops' = Append(ops, NewOp("model", o, 0, NoCall, Current))
    /\ Halt(o, "ended") \/ runner' = [runner EXCEPT ![o] = Runner("open", Len(ops) + 1, 0)]
    /\ UNCHANGED <<epoch, funded, retired, held, turn, child, performed>>

\* A usage report of the invocation (budget_accounting::observe).
ReportUsage(o) ==
    /\ At(o, "open")
    /\ LET i == runner[o].inv
       IN  /\ ~ops[i].complete /\ ops[i].reports < MaxReports
           /\ ops' = [ops EXCEPT ![i].reports = @ + 1]
           /\ grants' = [e \in 1..MaxEpoch |->
                [grants[e] EXCEPT !.reports =
                   IF e \in Settlement(ops[i].epoch) THEN @ + 1 ELSE @]]
    /\ UNCHANGED <<epoch, funded, retired, held, turn, child, runner, performed>>

\* finish_model: the answer, or the provider's refusal, arrived.
FinishModel(o) ==
    /\ At(o, "open")
    /\ LET i == runner[o].inv
       IN  /\ ~ops[i].complete
           /\ ops' = [Marked({i}) EXCEPT ![i].complete = TRUE]
           /\ MarkUnknown({i})
    /\ UNCHANGED runner \/ Halt(o, "ended")
    /\ UNCHANGED <<epoch, funded, retired, held, turn, child, performed>>

\* The calls of the answer are done; their results go to the next invocation.
EndResponse(o) ==
    /\ At(o, "open") /\ ops[runner[o].inv].complete
    /\ Halt(o, "idle")
    /\ UNCHANGED <<ledger, turn, child, performed>>

-----------------------------------------------------------------------------
(* Tool operations (begin_tool_owned and Tools::execute).                  *)

Correlated(o, call) ==
    {i \in Ids : ops[i].source = runner[o].inv /\ ops[i].call = call}

\* The identity of the call is retained already: a settled and unchanged request
\* gets the retained result, any other one holds the session.
RepeatTool(o, call) ==
    /\ At(o, "open") /\ ops[runner[o].inv].complete
    /\ \E i \in Correlated(o, call) :
         \/ ops[i].settled /\ UNCHANGED <<held, runner>>
         \/ held' = TRUE /\ Halt(o, "ended")
    /\ UNCHANGED <<ops, epoch, funded, grants, retired, turn, child, performed>>

\* A new request may be retained, under the allowance of its source.
MayBegin(o, call) ==
    /\ At(o, "open") /\ ops[runner[o].inv].complete
    /\ Correlated(o, call) = {}
    /\ Executable(ops[runner[o].inv].epoch) /\ Active(o) /\ ~held
    /\ Len(ops) < MaxOps

\* It is charged and then executed, unless the deadline withholds it.
BeginTool(o, call) ==
    LET inv == runner[o].inv
        e == ops[inv].epoch
    IN  /\ MayBegin(o, call)
        /\ e # 0 => grants[e].tools < ToolLimit
        /\ Charge(e, "tools")
        /\ ops' = Append(ops, NewOp("tool", o, inv, call, e))
        /\ Halt(o, "ended")
           \/ runner' = [runner EXCEPT ![o] = Runner("begun", inv, Len(ops) + 1)]
        /\ UNCHANGED <<epoch, funded, retired, held, turn, child, performed>>

\* The deadline or the allowance is exhausted: retained as failed, not charged.
DenyTool(o, call) ==
    LET inv == runner[o].inv
    IN  /\ MayBegin(o, call)
        /\ ops[inv].epoch # 0
        /\ ops' = Append(ops, [NewOp("tool", o, inv, call, ops[inv].epoch) EXCEPT
                                 !.complete = TRUE, !.result = "failed",
                                 !.fixed = TRUE, !.settled = TRUE])
        /\ UNCHANGED <<epoch, funded, grants, retired, held, turn, child, runner,
                       performed>>

\* What every admission of an execution step requires.
MayExecute(o) ==
    LET op == ops[runner[o].op]
    IN  op.result = "none" /\ ~held /\ Active(o) /\ Executable(op.epoch)

SetOp(o, field) == ops' = [ops EXCEPT ![runner[o].op] = [@ EXCEPT ![field] = TRUE]]

\* admit_tool; "refused" when the persisted deadline withholds the admission.
AdmitTool(o) ==
    /\ At(o, "begun") /\ MayExecute(o) /\ ~ops[runner[o].op].admitted
    /\ SetOp(o, "admitted")
    /\ Goto(o, "admitted") \/ Goto(o, "refused")
    /\ UNCHANGED <<epoch, funded, grants, retired, held, turn, child, performed>>

\* A hook, the arguments, the gate, a missing file or a failed admission stops the
\* tool before its effect; a refusal by policy revokes the admission as well
\* (refuse_tool_execution).
RefuseTool(o) ==
    /\ At(o, "begun") \/ At(o, "admitted")
    /\ \/ UNCHANGED ops
       \/ At(o, "admitted") /\ ops' = [ops EXCEPT ![runner[o].op].admitted = FALSE]
    /\ Goto(o, "refused")
    /\ UNCHANGED <<epoch, funded, grants, retired, held, turn, child, performed>>

\* tool_effect.
StartEffect(o) ==
    /\ At(o, "admitted") /\ MayExecute(o) /\ ops[runner[o].op].admitted
    /\ SetOp(o, "effect")
    /\ Goto(o, "starting") \/ Goto(o, "refused")
    /\ UNCHANGED <<epoch, funded, grants, retired, held, turn, child, performed>>

PerformEffect(o) ==
    /\ At(o, "starting")
    /\ performed' = [performed EXCEPT ![runner[o].op] = @ + 1]
    /\ Goto(o, "performed")
    /\ UNCHANGED <<ledger, turn, child>>

MutantRetainResult(o) ==
    /\ runner[o].step \in {"refused", "starting", "performed"}
    /\ \E result \in {"failed", "ok"} :
         ops' = [ops EXCEPT ![runner[o].op].result = result,
                            ![runner[o].op].complete = TRUE]
    /\ Goto(o, "retained")
    /\ UNCHANGED <<epoch, funded, grants, retired, held, turn, child, performed>>

\* original_tool_result: success needs the effect, which may also have failed.
RetainResult(o) ==
    /\ runner[o].step \in {"refused", "starting", "performed"}
    /\ \E result \in {"failed"} \union (IF At(o, "performed") THEN {"ok"} ELSE {}) :
         ops' = [ops EXCEPT ![runner[o].op].result = result,
                            ![runner[o].op].complete = TRUE]
    /\ Goto(o, "retained")
    /\ UNCHANGED <<epoch, funded, grants, retired, held, turn, child, performed>>

\* model_tool_result and settle_tool.
FixResult(o) ==
    /\ At(o, "retained")
    /\ SetOp(o, "fixed")
    /\ Goto(o, "fixed")
    /\ UNCHANGED <<epoch, funded, grants, retired, held, turn, child, performed>>

SettleTool(o) ==
    /\ At(o, "fixed")
    /\ SetOp(o, "settled")
    /\ runner' = [runner EXCEPT ![o] = Runner("open", runner[o].inv, 0)]
    /\ UNCHANGED <<epoch, funded, grants, retired, held, turn, child, performed>>

-----------------------------------------------------------------------------
(* Interruption and recovery.                                              *)

\* The future of the executor returns an error or is dropped at an await: the
\* developer cancels, the deadline passes, a channel closes.
Drop(o) ==
    /\ runner[o].step \notin {"off", "ended"}
    /\ Halt(o, "ended")
    /\ UNCHANGED <<ledger, turn, child, performed>>

\* The process ends and a new one opens the record (open_with_session_hooks).
Restart ==
    /\ runner' = [o \in Owners |-> Runner("off", 0, 0)]
    /\ child' = [c \in Children |-> IF child[c] = "Running" THEN "Uncertain" ELSE child[c]]
    /\ LET uncertain == turn \/ \E i \in Ids : Unresolved(i)
           left == {i \in Ids : uncertain /\ ~ops[i].complete /\ ~ops[i].reconciled}
       IN  /\ held' = (held \/ uncertain \/ child' # child)
           /\ ops' = Marked(left)
           /\ MarkUnknown(left)
    /\ UNCHANGED <<epoch, funded, retired, turn, performed>>

Next ==
    \/ OpenTurn \/ FinishTurn \/ Reconcile \/ Archive \/ Allocate \/ Restart
    \/ \E c \in Children :
         \/ StartChild(c) \/ CancelChild(c) \/ FinishChild(c) \/ AbortChild(c)
         \/ ReconcileChild(c)
    \/ \E o \in Owners :
         \/ BeginModel(o) \/ ReportUsage(o) \/ FinishModel(o) \/ EndResponse(o)
         \/ AdmitTool(o) \/ RefuseTool(o) \/ StartEffect(o) \/ PerformEffect(o)
         \/ RetainResult(o) \/ FixResult(o) \/ SettleTool(o) \/ Drop(o)
         \/ \E call \in Calls :
              RepeatTool(o, call) \/ BeginTool(o, call) \/ DenyTool(o, call)

Spec == Init /\ [][Next]_vars

-----------------------------------------------------------------------------
(* What must hold.                                                         *)

\* A request is what one answer of a model names one tool call.
Requests == (1..MaxOps) \X Calls

RequestOps(q) == {i \in Ids : ops[i].source = q[1] /\ ops[i].call = q[2]}

\* Every time that the effect of some operation of the request happened.
EffectsOf(q) == UNION {{<<i, n>> : n \in 1..performed[i]} : i \in RequestOps(q)}

OutcomeOf(i) ==
    CASE ops[i].result # "none" -> ops[i].result
      [] ops[i].result = "none" /\ ops[i].reconciled -> "acknowledged"
      [] OTHER -> "pending"

RequestOutcome ==
    [q \in Requests |->
        IF RequestOps(q) = {} THEN "none" ELSE OutcomeOf(CHOOSE i \in RequestOps(q) : TRUE)]
RequestEffects == [q \in Requests |-> Cardinality(EffectsOf(q))]

Promise == INSTANCE AtMostOnce WITH outcome <- RequestOutcome, effects <- RequestEffects

\* Through cancellations, crashes, retries of the same call and late results, the
\* ledger keeps the promise of module AtMostOnce for every request.
AtMostOnceKept == Promise!Spec

\* What was charged to an allocation covers what was done under it: every effect
\* that happened and every invocation that went out, also when the allocation was
\* replaced in between; and it never exceeds the allowance.
EffectsAreCharged ==
    \A e \in 1..MaxEpoch :
        /\ grants[e].models <= ModelLimit /\ grants[e].tools <= ToolLimit
        /\ MapThenSumSet(LAMBDA i : performed[i], {i \in Ids : ops[i].epoch = e})
             <= grants[e].tools
        /\ Cardinality({i \in Ids : ops[i].kind = "model" /\ ops[i].epoch = e})
             = grants[e].models

\* An owner begins an operation only when the outcome of each of its earlier ones
\* is known, or was inspected by the developer: after a drop, a crash, or a stop.
UnknownStopsWork ==
    [][Len(ops') > Len(ops) =>
         \A i \in Ids : ops[i].owner = ops'[Len(ops')].owner => ~Unresolved(i)]_vars

\* An allocation whose usage is not flagged unknown has a report of every closed
\* invocation under it, also of those closed after its retirement.
UsageHonest ==
    \A i \in Ids :
        ops[i].kind = "model" /\ (ops[i].complete \/ ops[i].reconciled)
            /\ ops[i].reports = 0 /\ ops[i].epoch # 0
        => grants[ops[i].epoch].unknown

\* Every usage report is booked once, on the allocation its invocation was charged
\* to, also when that allocation is retired by then.
UsageConserved ==
    \A e \in 1..MaxEpoch :
        grants[e].reports =
            MapThenSumSet(LAMBDA i : ops[i].reports, {i \in Ids : ops[i].epoch = e})

\* The usage an allocation shows is what was reported under it, once each, and it
\* says so where a report is missing (budget_accounting.rs).
UsageAccounted == UsageHonest /\ UsageConserved
=============================================================================
