-------------------------- MODULE ToolLedgerProofs --------------------------
(***************************************************************************)
(* Proofs about ToolLedger for any agents, calls, allowances and bounds:   *)
(* the ledger implements AtMostOnce, nobody works on over an operation of  *)
(* its own whose outcome is unknown, the allowances cover what was done,   *)
(* and every usage report is booked once or its absence shows.             *)
(***************************************************************************)
EXTENDS ToolLedger, TLAPS, FiniteSetTheorems, WellFoundedInduction

ToolSteps == {"begun", "admitted", "starting", "performed", "refused", "retained", "fixed"}

\* An operation is of a request, or an invocation; a funded allocation has an epoch.
Kept ==
    /\ \A i \in Ids : IF ops[i].kind = "model" THEN ops[i].call = NoCall
                      ELSE ops[i].call \in Calls /\ ops[i].source # 0
    /\ funded => epoch # 0

\* An executor works for its own invocation, on an operation of its own.
SeatedAt(o) ==
    LET inv == runner[o].inv
        op == runner[o].op
    IN  /\ runner[o].step \in ToolSteps \union {"open"} =>
              /\ inv \in Ids
              /\ ops[inv].owner = o /\ ops[inv].kind = "model"
        /\ runner[o].step \in ToolSteps =>
              /\ op \in Ids /\ ops[inv].complete
              /\ ops[op].owner = o /\ ops[op].kind = "tool"
Seated == \A o \in Owners : SeatedAt(o)
EmployedAt(c) == ~At(c, "off") => child[c] \in {"Running", "Cancelled"}
Employed == \A c \in Children : EmployedAt(c)

\* How far the operation is that an executor works on.
PacedAt(o) ==
    LET op == runner[o].op
        step == runner[o].step
    IN  /\ step \in {"begun", "admitted", "starting", "refused"} =>
              performed[op] = 0 /\ ops[op].result = "none"
        /\ step = "performed" => performed[op] = 1 /\ ops[op].result = "none"
        /\ step \in {"retained", "fixed"} => ops[op].complete /\ ops[op].result # "none"
Paced == \A o \in Owners : PacedAt(o)

\* An effect happens once, for an operation that is there.
Once ==
    /\ \A i \in 1..MaxOps : performed[i] \in {0, 1} /\ (i \notin Ids => performed[i] = 0)
    /\ \A i \in Ids : ops[i].result = "ok" => performed[i] = 1
\* A request has one operation.
Unique == \A i, j \in Ids :
    /\ ops[i].call \in Calls
    /\ ops[i].source = ops[j].source /\ ops[i].call = ops[j].call
    => i = j

\* Who may still have an operation of its own that is not resolved.
Excused(i) ==
    LET o == ops[i].owner
    IN  \/ held \/ At(o, "ended")
        \/ At(o, "open") /\ i = runner[o].inv /\ ~ops[i].complete
        \/ runner[o].step \in ToolSteps /\ i = runner[o].op
        \/ At(o, "off") /\ o \in Children /\ child[o] \in {"Uncertain", "Failed", "Cancelled"}
Quiet == \A i \in Ids : Unresolved(i) => Excused(i)

Served == Kept /\ Seated /\ Employed /\ Paced /\ Once /\ Unique /\ Quiet
IInv == TypeOK /\ Served

-----------------------------------------------------------------------------
(* Operators.                                                              *)

LEMMA OwnersAre == Parent \in Owners /\ Children \subseteq Owners
  BY DEF Owners

\* What an executor's step writes down of it.
LEMMA GotoIs ==
    ASSUME TypeOK, NEW o \in Owners, NEW step \in Steps, Goto(o, step)
    PROVE  /\ runner' \in [Owners -> [step : Steps, inv : 0..MaxOps, op : 0..MaxOps]]
           /\ runner'[o].step = step
           /\ runner'[o].inv = runner[o].inv /\ runner'[o].op = runner[o].op
           /\ \A p \in Owners : p # o => runner'[p] = runner[p]
  BY DEF TypeOK, Goto
LEMMA RunnerIs ==
    ASSUME TypeOK, NEW o \in Owners, NEW step \in Steps,
           NEW inv \in 0..MaxOps, NEW op \in 0..MaxOps,
           runner' = [runner EXCEPT ![o] = Runner(step, inv, op)]
    PROVE  /\ runner' \in [Owners -> [step : Steps, inv : 0..MaxOps, op : 0..MaxOps]]
           /\ runner'[o].step = step /\ runner'[o].inv = inv /\ runner'[o].op = op
           /\ \A p \in Owners : p # o => runner'[p] = runner[p]
  BY DEF TypeOK, Runner
LEMMA HaltIs ==
    ASSUME TypeOK, NEW o \in Owners, NEW step \in Steps, Halt(o, step)
    PROVE  /\ runner' \in [Owners -> [step : Steps, inv : 0..MaxOps, op : 0..MaxOps]]
           /\ runner'[o].step = step
           /\ \A p \in Owners : p # o => runner'[p] = runner[p]
  <1>1. 0 \in 0..MaxOps
    BY LedgerAssumption
  <1> QED BY <1>1, RunnerIs DEF Halt

\* What every change of the ledger leaves of an operation.
Alike(i) ==
    /\ ops'[i].kind = ops[i].kind /\ ops'[i].owner = ops[i].owner
    /\ ops'[i].source = ops[i].source /\ ops'[i].call = ops[i].call
    /\ ops'[i].result = ops[i].result
Intact(i) ==
    /\ Alike(i)
    /\ ops'[i].reconciled = ops[i].reconciled
    /\ ops'[i].complete = ops[i].complete /\ ops'[i].settled = ops[i].settled
Booked(i) == ops'[i].epoch = ops[i].epoch /\ ops'[i].reports = ops[i].reports

\* Marking what sent no report leaves the operations as they are otherwise.
LEMMA MarkedIs ==
    ASSUME TypeOK, NEW S \in SUBSET Ids
    PROVE  /\ Marked(S) \in Seq(Operation) /\ Len(Marked(S)) = Len(ops)
           /\ \A i \in Ids :
                /\ Marked(S)[i] \in Operation
                /\ Marked(S)[i].kind = ops[i].kind /\ Marked(S)[i].owner = ops[i].owner
                /\ Marked(S)[i].source = ops[i].source /\ Marked(S)[i].call = ops[i].call
                /\ Marked(S)[i].result = ops[i].result /\ Marked(S)[i].epoch = ops[i].epoch
                /\ Marked(S)[i].reconciled = ops[i].reconciled
                /\ Marked(S)[i].complete = ops[i].complete
                /\ Marked(S)[i].settled = ops[i].settled
                /\ Marked(S)[i].reports = ops[i].reports
  <1> DEFINE missing(i) == ops[i].missing \/ i \in Silent(S)
  <1>1. \A i \in Ids : ops[i] \in Operation
    BY DEF TypeOK, Ids
  <1>2. \A i \in Ids : missing(i) \in BOOLEAN
    OBVIOUS
  <1>3. Marked(S) = [i \in Ids |-> [ops[i] EXCEPT !.missing = missing(i)]]
    BY DEF Marked
  <1> HIDE DEF missing
  <1>4. \A i \in Ids : [ops[i] EXCEPT !.missing = missing(i)] \in Operation
    BY <1>1, <1>2 DEF Operation
  <1>5. Len(ops) \in Nat
    BY DEF TypeOK
  <1>6. Marked(S) \in Seq(Operation) /\ Len(Marked(S)) = Len(ops)
    BY <1>3, <1>4, <1>5 DEF Ids
  <1>7. \A i \in Ids : Marked(S)[i] = [ops[i] EXCEPT !.missing = missing(i)]
    BY <1>3
  <1>8. ASSUME NEW i \in Ids
        PROVE  /\ Marked(S)[i] \in Operation
               /\ Marked(S)[i].kind = ops[i].kind /\ Marked(S)[i].owner = ops[i].owner
               /\ Marked(S)[i].source = ops[i].source /\ Marked(S)[i].call = ops[i].call
               /\ Marked(S)[i].result = ops[i].result /\ Marked(S)[i].epoch = ops[i].epoch
               /\ Marked(S)[i].reconciled = ops[i].reconciled
               /\ Marked(S)[i].complete = ops[i].complete
               /\ Marked(S)[i].settled = ops[i].settled
               /\ Marked(S)[i].reports = ops[i].reports
    <2>1. ops[i] \in Operation /\ missing(i) \in BOOLEAN
      BY <1>1, <1>2
    <2>2. Marked(S)[i] = [ops[i] EXCEPT !.missing = missing(i)]
      BY <1>7
    <2> QED BY <2>1, <2>2 DEF Operation
  <1> QED BY <1>6, <1>8

LEMMA MarkedIntact ==
    ASSUME TypeOK, NEW S \in SUBSET Ids, ops' = Marked(S)
    PROVE  /\ ops' \in Seq(Operation) /\ Len(ops') = Len(ops) /\ Ids' = Ids
           /\ \A i \in Ids : Intact(i) /\ Booked(i)
  BY MarkedIs DEF Intact, Alike, Booked, Ids

LEMMA UnknownIs ==
    ASSUME TypeOK, NEW S, MarkUnknown(S)
    PROVE  grants' \in [1..MaxEpoch -> Grant]
  BY DEF TypeOK, MarkUnknown, Grant

LEMMA AcknowledgedAre ==
    ASSUME TypeOK, NEW S \in SUBSET Ids, Acknowledge(S)
    PROVE  /\ ops' \in Seq(Operation) /\ Len(ops') = Len(ops) /\ Ids' = Ids
           /\ grants' \in [1..MaxEpoch -> Grant]
           /\ \A i \in Ids :
                /\ Alike(i) /\ Booked(i)
                /\ ops'[i].reconciled = (ops[i].reconciled \/ i \in S)
                /\ ops'[i].complete = ops[i].complete /\ ops'[i].settled = ops[i].settled
  <1> DEFINE closed(i) == ops[i].reconciled \/ i \in S
  <1>1. \A i \in Ids : closed(i) \in BOOLEAN
    OBVIOUS
  <1>2. ops' = [i \in Ids |-> [Marked(S)[i] EXCEPT !.reconciled = closed(i)]]
    BY MarkedIs DEF Acknowledge
  <1> HIDE DEF closed
  <1> DEFINE marked == Marked(S)
  <1>3. \A i \in Ids :
          /\ marked[i] \in Operation
          /\ marked[i].kind = ops[i].kind /\ marked[i].owner = ops[i].owner
          /\ marked[i].source = ops[i].source /\ marked[i].call = ops[i].call
          /\ marked[i].result = ops[i].result
          /\ marked[i].epoch = ops[i].epoch /\ marked[i].reports = ops[i].reports
          /\ marked[i].complete = ops[i].complete /\ marked[i].settled = ops[i].settled
    BY MarkedIs
  <1> HIDE DEF marked
  <1>4. \A i \in Ids :
          LET new == [marked[i] EXCEPT !.reconciled = closed(i)]
          IN  /\ new \in Operation
              /\ new.kind = ops[i].kind /\ new.owner = ops[i].owner
              /\ new.source = ops[i].source /\ new.call = ops[i].call
              /\ new.result = ops[i].result
              /\ new.epoch = ops[i].epoch /\ new.reports = ops[i].reports
              /\ new.reconciled = closed(i) /\ new.complete = ops[i].complete
              /\ new.settled = ops[i].settled
    BY <1>1, <1>3 DEF Operation
  <1>5. Len(ops) \in Nat
    BY DEF TypeOK
  <1>6. ops' \in Seq(Operation) /\ Len(ops') = Len(ops) /\ Ids' = Ids
    BY <1>2, <1>4, <1>5 DEF Ids, marked
  <1>7. \A i \in Ids :
           /\ Alike(i) /\ Booked(i)
           /\ ops'[i].reconciled = closed(i)
           /\ ops'[i].complete = ops[i].complete /\ ops'[i].settled = ops[i].settled
    BY <1>2, <1>4 DEF Alike, Booked, marked
  <1>8. grants' \in [1..MaxEpoch -> Grant]
    BY UnknownIs DEF Acknowledge
  <1> QED BY <1>6, <1>7, <1>8 DEF closed

\* A new operation.
LEMMA AppendedIs ==
    ASSUME TypeOK, NEW op \in Operation, Len(ops) < MaxOps, ops' = Append(ops, op)
    PROVE  /\ ops' \in Seq(Operation) /\ Len(ops') = Len(ops) + 1 /\ Len(ops') <= MaxOps
           /\ Ids' = Ids \union {Len(ops) + 1} /\ Len(ops) + 1 \notin Ids
           /\ Len(ops) + 1 \in 1..MaxOps
           /\ ops'[Len(ops) + 1] = op
           /\ \A i \in Ids : ops'[i] = ops[i]
  BY LedgerAssumption DEF TypeOK, Ids

LEMMA NewOpIs ==
    ASSUME TypeOK, NEW kind \in {"model", "tool"}, NEW o \in Owners, NEW source \in 0..MaxOps,
           NEW call \in Calls \union {NoCall}, NEW e \in 0..MaxEpoch
    PROVE  NewOp(kind, o, source, call, e) \in Operation
  <1>1. 0 \in 0..MaxReports
    BY LedgerAssumption
  <1> QED BY <1>1 DEF NewOp, Operation

\* One field of an operation.
LEMMA SetOpIs ==
    ASSUME TypeOK, NEW o \in Owners, runner[o].op \in Ids,
           NEW field \in {"admitted", "effect", "fixed", "settled"}, SetOp(o, field)
    PROVE  /\ ops' \in Seq(Operation) /\ Len(ops') = Len(ops) /\ Ids' = Ids
           /\ \A i \in Ids :
                /\ Alike(i) /\ Booked(i)
                /\ ops'[i].reconciled = ops[i].reconciled
                /\ ops'[i].complete = ops[i].complete
                /\ IF i = runner[o].op /\ field = "settled" THEN ops'[i].settled
                   ELSE ops'[i].settled = ops[i].settled
  <1> DEFINE op == runner[o].op
             new == [ops[op] EXCEPT ![field] = TRUE]
  <1>1. \A i \in Ids : ops[i] \in Operation
    BY DEF TypeOK, Ids
  <1>2. /\ new \in Operation
        /\ new.kind = ops[op].kind /\ new.owner = ops[op].owner
        /\ new.source = ops[op].source /\ new.call = ops[op].call
        /\ new.result = ops[op].result /\ new.epoch = ops[op].epoch
        /\ new.reports = ops[op].reports
        /\ new.reconciled = ops[op].reconciled /\ new.complete = ops[op].complete
        /\ IF field = "settled" THEN new.settled ELSE new.settled = ops[op].settled
    <2>1. CASE field = "admitted"
      BY <1>1, <2>1 DEF Operation
    <2>2. CASE field = "effect"
      BY <1>1, <2>2 DEF Operation
    <2>3. CASE field = "fixed"
      BY <1>1, <2>3 DEF Operation
    <2>4. CASE field = "settled"
      BY <1>1, <2>4 DEF Operation
    <2> QED BY <2>1, <2>2, <2>3, <2>4
  <1>3. ops' = [ops EXCEPT ![op] = new]
    BY DEF SetOp
  <1> HIDE DEF new
  <1>4. op \in 1..Len(ops) /\ ops \in Seq(Operation) /\ Len(ops) \in Nat
    BY DEF TypeOK, Ids
  <1> HIDE DEF op
  <1>5. /\ ops' \in Seq(Operation) /\ Len(ops') = Len(ops)
        /\ \A i \in 1..Len(ops) : ops'[i] = IF i = op THEN new ELSE ops[i]
    BY <1>2, <1>3, <1>4
  <1>6. Ids' = Ids
    BY <1>5 DEF Ids
  <1>7. ASSUME NEW i \in Ids
        PROVE  /\ Alike(i) /\ Booked(i)
               /\ ops'[i].reconciled = ops[i].reconciled
               /\ ops'[i].complete = ops[i].complete
               /\ IF i = op /\ field = "settled" THEN ops'[i].settled
                  ELSE ops'[i].settled = ops[i].settled
    BY <1>2, <1>5 DEF Alike, Booked, Ids
  <1> QED BY <1>5, <1>6, <1>7 DEF op

\* The operation whose result is retained, the invocation that ends, and a tool
\* that is stopped.
LEMMA RetainedIs ==
    ASSUME TypeOK, Seated, NEW o \in Owners, RetainResult(o)
    PROVE  /\ ops' \in Seq(Operation) /\ Len(ops') = Len(ops) /\ Ids' = Ids
           /\ runner[o].op \in Ids
           /\ ops'[runner[o].op].result \in {"failed", "ok"}
           /\ ops'[runner[o].op].result = "ok" => At(o, "performed")
           /\ ops'[runner[o].op].complete
           /\ \A i \in Ids :
                /\ ops'[i].kind = ops[i].kind /\ ops'[i].owner = ops[i].owner
                /\ ops'[i].source = ops[i].source /\ ops'[i].call = ops[i].call
                /\ ops'[i].reconciled = ops[i].reconciled
                /\ ops'[i].settled = ops[i].settled /\ Booked(i)
                /\ i # runner[o].op => ops'[i] = ops[i]
  <1> DEFINE op == runner[o].op
  <1>1. PICK result \in {"failed"} \union (IF At(o, "performed") THEN {"ok"} ELSE {}) :
          ops' = [ops EXCEPT ![op].result = result, ![op].complete = TRUE]
    BY DEF RetainResult
  <1>2. op \in 1..Len(ops) /\ ops[op] \in Operation /\ ops \in Seq(Operation)
    BY DEF RetainResult, Seated, SeatedAt, TypeOK, ToolSteps, Ids
  <1> DEFINE new == [ops[op] EXCEPT !.result = result, !.complete = TRUE]
  <1>3. /\ new \in Operation
        /\ new.kind = ops[op].kind /\ new.owner = ops[op].owner
        /\ new.source = ops[op].source /\ new.call = ops[op].call
        /\ new.reconciled = ops[op].reconciled /\ new.settled = ops[op].settled
        /\ new.epoch = ops[op].epoch /\ new.reports = ops[op].reports
        /\ new.result = result /\ new.complete
    BY <1>2 DEF Operation
  <1>4. ops' = [ops EXCEPT ![op] = new]
    BY <1>1, <1>2
  <1> HIDE DEF new, op
  <1>5. /\ ops' \in Seq(Operation) /\ Len(ops') = Len(ops)
        /\ \A i \in 1..Len(ops) : ops'[i] = IF i = op THEN new ELSE ops[i]
    BY <1>2, <1>3, <1>4
  <1> QED BY <1>2, <1>3, <1>5 DEF Ids, Booked, op

LEMMA FinishedIs ==
    ASSUME TypeOK, Seated, NEW o \in Owners, FinishModel(o)
    PROVE  /\ ops' \in Seq(Operation) /\ Len(ops') = Len(ops) /\ Ids' = Ids
           /\ runner[o].inv \in Ids /\ ops'[runner[o].inv].complete
           /\ \A i \in Ids :
                /\ Alike(i) /\ ops'[i].reconciled = ops[i].reconciled
                /\ ops'[i].settled = ops[i].settled /\ Booked(i)
                /\ i # runner[o].inv => ops'[i].complete = ops[i].complete
  <1> DEFINE inv == runner[o].inv
             marked == Marked({inv})
             new == [marked[inv] EXCEPT !.complete = TRUE]
  <1>1. inv \in 1..Len(ops) /\ inv \in Ids
    BY DEF FinishModel, Seated, SeatedAt, At, Ids
  <1>2. /\ marked \in Seq(Operation) /\ Len(marked) = Len(ops)
        /\ \A i \in Ids :
             /\ marked[i] \in Operation
             /\ marked[i].kind = ops[i].kind /\ marked[i].owner = ops[i].owner
             /\ marked[i].source = ops[i].source /\ marked[i].call = ops[i].call
             /\ marked[i].result = ops[i].result
             /\ marked[i].epoch = ops[i].epoch /\ marked[i].reports = ops[i].reports
             /\ marked[i].reconciled = ops[i].reconciled
             /\ marked[i].complete = ops[i].complete
             /\ marked[i].settled = ops[i].settled
    BY <1>1, MarkedIs
  <1> HIDE DEF marked, inv
  <1>3. /\ new \in Operation
        /\ new.kind = ops[inv].kind /\ new.owner = ops[inv].owner
        /\ new.source = ops[inv].source /\ new.call = ops[inv].call
        /\ new.epoch = ops[inv].epoch /\ new.reports = ops[inv].reports
        /\ new.result = ops[inv].result /\ new.complete
        /\ new.reconciled = ops[inv].reconciled /\ new.settled = ops[inv].settled
    <2>1. /\ marked[inv] \in Operation
          /\ marked[inv].kind = ops[inv].kind /\ marked[inv].owner = ops[inv].owner
          /\ marked[inv].source = ops[inv].source /\ marked[inv].call = ops[inv].call
          /\ marked[inv].result = ops[inv].result
          /\ marked[inv].epoch = ops[inv].epoch /\ marked[inv].reports = ops[inv].reports
          /\ marked[inv].reconciled = ops[inv].reconciled
          /\ marked[inv].settled = ops[inv].settled
      BY <1>1, <1>2
    <2> QED BY <2>1 DEF Operation
  <1>4. ops' = [marked EXCEPT ![inv] = new]
    BY <1>1, <1>2 DEF FinishModel, marked, inv
  <1> HIDE DEF new
  <1>5. /\ ops' \in Seq(Operation) /\ Len(ops') = Len(ops)
        /\ \A i \in 1..Len(ops) : ops'[i] = IF i = inv THEN new ELSE marked[i]
    BY <1>1, <1>2, <1>3, <1>4
  <1> QED BY <1>1, <1>2, <1>3, <1>5 DEF Ids, Alike, Booked, inv

LEMMA RefusedIs ==
    ASSUME TypeOK, Seated, NEW o \in Owners, RefuseTool(o)
    PROVE  /\ ops' \in Seq(Operation) /\ Len(ops') = Len(ops) /\ Ids' = Ids
           /\ \A i \in Ids : Intact(i) /\ Booked(i)
  <1> DEFINE op == runner[o].op
             new == [ops[op] EXCEPT !.admitted = FALSE]
  <1>1. op \in 1..Len(ops) /\ ops[op] \in Operation /\ ops \in Seq(Operation)
    BY DEF RefuseTool, Seated, SeatedAt, TypeOK, ToolSteps, At, Ids
  <1>2. /\ new \in Operation
        /\ new.kind = ops[op].kind /\ new.owner = ops[op].owner
        /\ new.source = ops[op].source /\ new.call = ops[op].call
        /\ new.result = ops[op].result /\ new.complete = ops[op].complete
        /\ new.reconciled = ops[op].reconciled /\ new.settled = ops[op].settled
        /\ new.epoch = ops[op].epoch /\ new.reports = ops[op].reports
    BY <1>1 DEF Operation
  <1>3. ops' = ops \/ ops' = [ops EXCEPT ![op] = new]
    BY <1>1 DEF RefuseTool
  <1> HIDE DEF new, op
  <1>4. /\ ops' \in Seq(Operation) /\ Len(ops') = Len(ops)
        /\ \A i \in 1..Len(ops) : ops'[i] = ops[i] \/ (i = op /\ ops'[i] = new)
    BY <1>1, <1>2, <1>3
  <1> QED BY <1>2, <1>4 DEF Ids, Intact, Alike, Booked
-----------------------------------------------------------------------------
(* Type correctness.                                                       *)

\* The ledger of charges.
LEMMA ChargeIs ==
    ASSUME TypeOK, NEW e \in 0..MaxEpoch, NEW counter \in {"models", "tools"},
           e # 0 => IF counter = "models" THEN grants[e].models < ModelLimit
                    ELSE grants[e].tools < ToolLimit,
           Charge(e, counter)
    PROVE  grants' \in [1..MaxEpoch -> Grant]
  <1>1. CASE e = 0
    BY <1>1 DEF Charge, TypeOK
  <1>2. CASE e # 0
    <2>1. e \in 1..MaxEpoch /\ grants[e] \in Grant /\ grants \in [1..MaxEpoch -> Grant]
      BY <1>2, LedgerAssumption DEF TypeOK
    <2> DEFINE new == [grants[e] EXCEPT ![counter] = @ + 1]
    <2>2. new \in Grant
      <3>1. CASE counter = "models"
        <4>1. grants[e].models + 1 \in 0..ModelLimit
          BY <1>2, <2>1, <3>1, LedgerAssumption DEF Grant
        <4> QED BY <2>1, <3>1, <4>1 DEF Grant
      <3>2. CASE counter = "tools"
        <4>1. grants[e].tools + 1 \in 0..ToolLimit
          BY <1>2, <2>1, <3>2, LedgerAssumption DEF Grant
        <4> QED BY <2>1, <3>2, <4>1 DEF Grant
      <3> QED BY <3>1, <3>2
    <2>3. grants' = [grants EXCEPT ![e] = new]
      BY <1>2, <2>1 DEF Charge
    <2> HIDE DEF new
    <2> QED BY <2>1, <2>2, <2>3
  <1> QED BY <1>1, <1>2

\* An allocation that is kept has an epoch.
LEMMA RetireIs ==
    ASSUME TypeOK, Kept, Retire
    PROVE  retired' \subseteq 1..MaxEpoch
  <1>1. funded => epoch \in 1..MaxEpoch
    BY LedgerAssumption DEF TypeOK, Kept
  <1>2. retired' = retired \/ (funded /\ retired' = retired \union {epoch})
    BY DEF Retire
  <1> QED BY <1>1, <1>2 DEF TypeOK

LEMMA CurrentIs ==
    ASSUME TypeOK, Kept
    PROVE  Current \in 0..MaxEpoch
  BY LedgerAssumption DEF Current, TypeOK

\* Every step keeps the types.
LEMMA TypeKept ==
    ASSUME TypeOK, Served, Next
    PROVE  TypeOK'
  <1> DEFINE Runners == [Owners -> [step : Steps, inv : 0..MaxOps, op : 0..MaxOps]]
  <1>1. /\ ops \in Seq(Operation) /\ Len(ops) <= MaxOps
        /\ epoch \in 0..MaxEpoch /\ funded \in BOOLEAN
        /\ grants \in [1..MaxEpoch -> Grant] /\ retired \subseteq 1..MaxEpoch
        /\ held \in BOOLEAN /\ turn \in BOOLEAN
        /\ child \in [Children -> AgentStatus] /\ runner \in Runners
        /\ performed \in [1..MaxOps -> Nat]
    BY DEF TypeOK
  <1>2. Parent \in Owners /\ Children \subseteq Owners
    BY OwnersAre
  <1>3. \A o \in Owners, step \in Steps : Halt(o, step) => runner' \in Runners
    BY HaltIs
  <1>4. \A o \in Owners, step \in Steps : Goto(o, step) => runner' \in Runners
    BY GotoIs
  <1>5. CASE OpenTurn
    BY <1>1, <1>2, <1>3, <1>5 DEF OpenTurn, ledger, Steps, TypeOK
  <1>6. CASE FinishTurn
    <2> DEFINE left == {i \in Ids : Unresolved(i) /\ ops[i].owner = Parent}
    <2>1. ops' \in Seq(Operation) /\ Len(ops') = Len(ops)
      BY <1>6, MarkedIntact DEF FinishTurn
    <2>2. grants' \in [1..MaxEpoch -> Grant]
      BY <1>6, UnknownIs DEF FinishTurn
    <2>3. runner' \in Runners
      BY <1>2, <1>3, <1>6 DEF FinishTurn, Steps
    <2> QED BY <1>1, <1>6, <2>1, <2>2, <2>3 DEF FinishTurn, TypeOK
  <1>7. CASE Reconcile
    <2>1. ops' \in Seq(Operation) /\ Len(ops') = Len(ops) /\ grants' \in [1..MaxEpoch -> Grant]
      BY <1>7, AcknowledgedAre DEF Reconcile
    <2> QED BY <1>1, <1>7, <2>1 DEF Reconcile, TypeOK
  <1>8. CASE Archive
    <2>1. retired' \subseteq 1..MaxEpoch
      BY <1>1, <1>8, RetireIs DEF Archive, Served
    <2> QED BY <1>1, <1>8, <2>1 DEF Archive, TypeOK
  <1>9. CASE Allocate
    <2>1. retired' \subseteq 1..MaxEpoch
      BY <1>9, RetireIs DEF Allocate, Served
    <2> QED BY <1>1, <1>9, <2>1, LedgerAssumption DEF Allocate, TypeOK
  <1>10. CASE Restart
    <2> DEFINE uncertain == turn \/ \E i \in Ids : Unresolved(i)
               left == {i \in Ids : uncertain /\ ~ops[i].complete /\ ~ops[i].reconciled}
    <2>1. ops' \in Seq(Operation) /\ Len(ops') = Len(ops)
      BY <1>10, MarkedIntact DEF Restart
    <2>2. grants' \in [1..MaxEpoch -> Grant]
      BY <1>10, UnknownIs DEF Restart
    <2>3. runner' \in Runners
      BY <1>10, LedgerAssumption DEF Restart, Runner, Steps
    <2>4. child' \in [Children -> AgentStatus]
      BY <1>1, <1>10 DEF Restart, AgentStatus
    <2> QED BY <1>1, <1>10, <2>1, <2>2, <2>3, <2>4 DEF Restart, TypeOK
  <1>11. ASSUME NEW c \in Children, StartChild(c) \/ CancelChild(c)
         PROVE  TypeOK'
    <2>1. child' \in [Children -> AgentStatus]
      BY <1>1, <1>11 DEF StartChild, CancelChild, AgentStatus
    <2>2. runner' \in Runners
      BY <1>1, <1>2, <1>3, <1>11 DEF StartChild, CancelChild, Steps
    <2> QED BY <1>1, <1>11, <2>1, <2>2 DEF StartChild, CancelChild, ledger, TypeOK
  <1>12. ASSUME NEW c \in Children, FinishChild(c)
         PROVE  TypeOK'
    <2> DEFINE left == {i \in OfChild(c) : ~ops[i].complete}
    <2>1. runner' \in Runners
      BY <1>2, <1>3, <1>12 DEF FinishChild, Steps
    <2>2. left \in SUBSET Ids
      BY DEF OfChild
    <2>3. CASE child[c] = "Cancelled"
      <3>1. Acknowledge(left) /\ UNCHANGED child
        BY <1>12, <2>3 DEF FinishChild
      <3>2. ops' \in Seq(Operation) /\ Len(ops') = Len(ops)
            /\ grants' \in [1..MaxEpoch -> Grant]
        BY <2>2, <3>1, AcknowledgedAre
      <3> QED BY <1>1, <1>12, <2>1, <3>1, <3>2 DEF FinishChild, TypeOK
    <2>4. CASE child[c] # "Cancelled"
      <3>1. child' \in [Children -> AgentStatus] /\ UNCHANGED <<ops, grants>>
        BY <1>1, <1>12, <2>4 DEF FinishChild, AgentStatus
      <3> QED BY <1>1, <1>12, <2>1, <3>1 DEF FinishChild, TypeOK
    <2> QED BY <2>3, <2>4
  <1>13. ASSUME NEW c \in Children, AbortChild(c)
         PROVE  TypeOK'
    <2> DEFINE left == {i \in OfChild(c) : ~ops[i].complete /\ ~ops[i].reconciled}
    <2>1. left \in SUBSET Ids
      BY DEF OfChild
    <2>2. ops' \in Seq(Operation) /\ Len(ops') = Len(ops)
      BY <1>13, <2>1, MarkedIntact DEF AbortChild
    <2>3. grants' \in [1..MaxEpoch -> Grant]
      BY <1>13, UnknownIs DEF AbortChild
    <2>4. runner' \in Runners
      BY <1>2, <1>3, <1>13 DEF AbortChild, Steps
    <2>5. child' \in [Children -> AgentStatus]
      BY <1>1, <1>13 DEF AbortChild, AgentStatus
    <2> QED BY <1>1, <1>13, <2>2, <2>3, <2>4, <2>5 DEF AbortChild, TypeOK
  <1>14. ASSUME NEW c \in Children, ReconcileChild(c)
         PROVE  TypeOK'
    <2> DEFINE left == {i \in OfChild(c) : ~ops[i].complete}
    <2>1. left \in SUBSET Ids
      BY DEF OfChild
    <2>2. ops' \in Seq(Operation) /\ Len(ops') = Len(ops)
          /\ grants' \in [1..MaxEpoch -> Grant]
      BY <1>14, <2>1, AcknowledgedAre DEF ReconcileChild
    <2>3. child' \in [Children -> AgentStatus]
      BY <1>1, <1>14 DEF ReconcileChild, AgentStatus
    <2> QED BY <1>1, <1>14, <2>2, <2>3 DEF ReconcileChild, TypeOK
  <1>15. ASSUME NEW o \in Owners, BeginModel(o)
         PROVE  TypeOK'
    <2>1. Current \in 0..MaxEpoch /\ Len(ops) < MaxOps
      BY <1>15, CurrentIs DEF BeginModel, Served
    <2>2. NewOp("model", o, 0, NoCall, Current) \in Operation
      BY <2>1, NewOpIs, LedgerAssumption
    <2>3. ops' \in Seq(Operation) /\ Len(ops') <= MaxOps /\ Len(ops) + 1 \in 0..MaxOps
      BY <1>15, <2>1, <2>2, AppendedIs DEF BeginModel
    <2>4. grants' \in [1..MaxEpoch -> Grant]
      BY <1>15, <2>1, ChargeIs DEF BeginModel
    <2>5. runner' \in Runners
      <3>1. CASE Halt(o, "ended")
        BY <1>3, <3>1 DEF Steps
      <3>2. CASE runner' = [runner EXCEPT ![o] = Runner("open", Len(ops) + 1, 0)]
        <4>1. 0 \in 0..MaxOps /\ "open" \in Steps
          BY LedgerAssumption DEF Steps
        <4> QED BY <2>3, <3>2, <4>1, RunnerIs
      <3> QED BY <1>15, <3>1, <3>2 DEF BeginModel
    <2> QED BY <1>1, <1>15, <2>3, <2>4, <2>5 DEF BeginModel, TypeOK
  <1>16. ASSUME NEW o \in Owners, ReportUsage(o)
         PROVE  TypeOK'
    <2> DEFINE i == runner[o].inv
               new == [ops[i] EXCEPT !.reports = @ + 1]
               more(e) == IF e \in Settlement(ops[i].epoch) THEN grants[e].reports + 1
                          ELSE grants[e].reports
    <2>1. i \in 1..Len(ops) /\ ops[i] \in Operation
      BY <1>1, <1>16 DEF ReportUsage, Served, Seated, SeatedAt, At, Ids
    <2>2. new \in Operation
      <3>1. ops[i].reports < MaxReports /\ ops[i].reports \in 0..MaxReports
        BY <1>16, <2>1 DEF ReportUsage, Operation
      <3>2. ops[i].reports + 1 \in 0..MaxReports
        BY <3>1, LedgerAssumption
      <3> QED BY <2>1, <3>2 DEF Operation
    <2>3. ops' = [ops EXCEPT ![i] = new]
      BY <1>1, <1>16, <2>1 DEF ReportUsage
    <2>4. grants' = [e \in 1..MaxEpoch |-> [grants[e] EXCEPT !.reports = more(e)]]
      BY <1>16 DEF ReportUsage
    <2>5. \A e \in 1..MaxEpoch : more(e) \in Nat
      <3>1. \A e \in 1..MaxEpoch : grants[e].reports \in Nat
        BY <1>1 DEF Grant
      <3> QED BY <3>1
    <2> HIDE DEF new, i, more
    <2>6. ops' \in Seq(Operation) /\ Len(ops') = Len(ops)
      BY <1>1, <2>1, <2>2, <2>3
    <2>7. grants' \in [1..MaxEpoch -> Grant]
      BY <1>1, <2>4, <2>5 DEF Grant
    <2> QED BY <1>1, <1>16, <2>6, <2>7 DEF ReportUsage, TypeOK
  <1>17. ASSUME NEW o \in Owners, FinishModel(o)
         PROVE  TypeOK'
    <2>1. ops' \in Seq(Operation) /\ Len(ops') = Len(ops)
      BY <1>17, FinishedIs DEF FinishModel, Served
    <2>2. grants' \in [1..MaxEpoch -> Grant]
      BY <1>17, UnknownIs DEF FinishModel
    <2>3. runner' \in Runners
      BY <1>1, <1>3, <1>17 DEF FinishModel, Steps
    <2> QED BY <1>1, <1>17, <2>1, <2>2, <2>3 DEF FinishModel, TypeOK
  <1>18. ASSUME NEW o \in Owners, EndResponse(o) \/ Drop(o)
         PROVE  TypeOK'
    BY <1>1, <1>3, <1>18 DEF EndResponse, Drop, ledger, Steps, TypeOK
  <1>19. ASSUME NEW o \in Owners, NEW call \in Calls, RepeatTool(o, call)
         PROVE  TypeOK'
    <2>1. runner' \in Runners /\ held' \in BOOLEAN
      BY <1>1, <1>3, <1>19 DEF RepeatTool, Steps
    <2> QED BY <1>1, <1>19, <2>1 DEF RepeatTool, TypeOK
  <1>20. ASSUME NEW o \in Owners, NEW call \in Calls, BeginTool(o, call) \/ DenyTool(o, call)
         PROVE  TypeOK'
    <2> DEFINE inv == runner[o].inv
               e == ops[inv].epoch
               op == NewOp("tool", o, inv, call, e)
               denied == [op EXCEPT !.complete = TRUE, !.result = "failed",
                                    !.fixed = TRUE, !.settled = TRUE]
    <2>1. inv \in 1..Len(ops) /\ ops[inv] \in Operation /\ Len(ops) < MaxOps
      BY <1>1, <1>20 DEF BeginTool, DenyTool, MayBegin, Served, Seated, SeatedAt, At, Ids
    <2>2. inv \in 0..MaxOps /\ e \in 0..MaxEpoch
      BY <1>1, <2>1, LedgerAssumption DEF Operation
    <2>3. op \in Operation
      BY <2>2, NewOpIs
    <2>4. denied \in Operation
      BY <2>3 DEF Operation
    <2>5. ops' = Append(ops, op) \/ ops' = Append(ops, denied)
      BY <1>20 DEF BeginTool, DenyTool
    <2>6. grants' \in [1..MaxEpoch -> Grant]
      BY <1>1, <1>20, <2>2, ChargeIs DEF BeginTool, DenyTool
    <2> HIDE DEF op, denied
    <2>7. ops' \in Seq(Operation) /\ Len(ops') <= MaxOps /\ Len(ops) + 1 \in 0..MaxOps
      BY <2>1, <2>3, <2>4, <2>5, AppendedIs
    <2>8. runner' \in Runners
      <3>1. CASE Halt(o, "ended")
        BY <1>3, <3>1 DEF Steps
      <3>2. CASE runner' = [runner EXCEPT ![o] = Runner("begun", inv, Len(ops) + 1)]
        <4>1. "begun" \in Steps
          BY DEF Steps
        <4> QED BY <2>2, <2>7, <3>2, <4>1, RunnerIs
      <3>3. CASE UNCHANGED runner
        BY <1>1, <3>3
      <3> QED BY <1>20, <3>1, <3>2, <3>3 DEF BeginTool, DenyTool
    <2> QED BY <1>1, <1>20, <2>6, <2>7, <2>8 DEF BeginTool, DenyTool, TypeOK
  <1>21. ASSUME NEW o \in Owners,
                AdmitTool(o) \/ StartEffect(o) \/ FixResult(o) \/ SettleTool(o)
         PROVE  TypeOK'
    <2>1. runner[o].op \in Ids /\ runner[o].inv \in 0..MaxOps
      BY <1>1, <1>21 DEF AdmitTool, StartEffect, FixResult, SettleTool, Served, Seated,
                        SeatedAt, At, ToolSteps
    <2>2. ops' \in Seq(Operation) /\ Len(ops') = Len(ops)
      BY <1>21, <2>1, SetOpIs DEF AdmitTool, StartEffect, FixResult, SettleTool
    <2>3. runner' \in Runners
      <3>1. CASE SettleTool(o)
        <4>1. 0 \in 0..MaxOps /\ "open" \in Steps
          BY LedgerAssumption DEF Steps
        <4> QED BY <2>1, <3>1, <4>1, RunnerIs DEF SettleTool
      <3>2. CASE ~SettleTool(o)
        BY <1>4, <1>21, <3>2 DEF AdmitTool, StartEffect, FixResult, Steps
      <3> QED BY <3>1, <3>2
    <2> QED BY <1>1, <1>21, <2>2, <2>3 DEF AdmitTool, StartEffect, FixResult, SettleTool, TypeOK
  <1>22. ASSUME NEW o \in Owners, RefuseTool(o)
         PROVE  TypeOK'
    <2>1. ops' \in Seq(Operation) /\ Len(ops') = Len(ops)
      BY <1>22, RefusedIs DEF RefuseTool, Served
    <2>2. runner' \in Runners
      BY <1>4, <1>22 DEF RefuseTool, Steps
    <2> QED BY <1>1, <1>22, <2>1, <2>2 DEF RefuseTool, TypeOK
  <1>23. ASSUME NEW o \in Owners, PerformEffect(o)
         PROVE  TypeOK'
    <2>1. runner' \in Runners
      BY <1>4, <1>23 DEF PerformEffect, Steps
    <2>2. performed' \in [1..MaxOps -> Nat]
      <3>1. performed' = [performed EXCEPT ![runner[o].op] = performed[runner[o].op] + 1]
        BY <1>23 DEF PerformEffect
      <3>2. runner[o].op \in Ids
        BY <1>23 DEF PerformEffect, Served, Seated, SeatedAt, At, ToolSteps
      <3>3. runner[o].op \in 1..MaxOps
        BY <1>1, <3>2, LedgerAssumption DEF Ids
      <3>4. performed[runner[o].op] + 1 \in Nat
        BY <1>1, <3>3
      <3> QED BY <1>1, <3>1, <3>3, <3>4
    <2> QED BY <1>1, <1>23, <2>1, <2>2 DEF PerformEffect, ledger, TypeOK
  <1>24. ASSUME NEW o \in Owners, RetainResult(o)
         PROVE  TypeOK'
    <2>1. ops' \in Seq(Operation) /\ Len(ops') = Len(ops)
      BY <1>24, RetainedIs DEF RetainResult, Served
    <2>2. runner' \in Runners
      BY <1>4, <1>24 DEF RetainResult, Steps
    <2> QED BY <1>1, <1>24, <2>1, <2>2 DEF RetainResult, TypeOK
  <1> QED BY <1>5, <1>6, <1>7, <1>8, <1>9, <1>10, <1>11, <1>12, <1>13, <1>14, <1>15, <1>16,
             <1>17, <1>18, <1>19, <1>20, <1>21, <1>22, <1>23, <1>24 DEF Next
-----------------------------------------------------------------------------
(* What a step leaves alone.                                               *)

LEMMA RecordsKept ==
    ASSUME TypeOK, Kept, Once, Unique, Ids' = Ids, performed' = performed,
           \A i \in Ids : Alike(i),
           funded' => epoch' # 0
    PROVE  Kept' /\ Once' /\ Unique'
  BY DEF Kept, Once, Unique, Alike

\* A step of one owner's executor, agent or operations.
LEMMA OwnStep ==
    ASSUME TypeOK, Served, NEW o \in Owners,
           \A p \in Owners : p # o => runner'[p] = runner[p],
           \A c \in Children : c # o => child'[c] = child[c],
           Ids \subseteq Ids',
           \A i \in Ids : ops[i].owner # o => Intact(i) /\ performed'[i] = performed[i],
           \A i \in Ids : ops'[i].owner = ops[i].owner,
           \A i \in Ids' \ Ids : ops'[i].owner = o,
           held => held',
           SeatedAt(o)', PacedAt(o)', o \in Children => EmployedAt(o)',
           \A i \in Ids' : ops'[i].owner = o /\ Unresolved(i)' => Excused(i)'
    PROVE  Seated' /\ Paced' /\ Employed' /\ Quiet'
  <1>1. ASSUME NEW p \in Owners, p # o
        PROVE  SeatedAt(p)' /\ PacedAt(p)'
    <2>1. SeatedAt(p) /\ PacedAt(p) /\ runner'[p] = runner[p]
      BY <1>1 DEF Served, Seated, Paced
    <2>2. ASSUME runner[p].step \in ToolSteps \union {"open"}
          PROVE  Intact(runner[p].inv) /\ runner[p].inv \in Ids
      BY <1>1, <2>1, <2>2 DEF SeatedAt
    <2>3. ASSUME runner[p].step \in ToolSteps
          PROVE  Intact(runner[p].op) /\ runner[p].op \in Ids
                 /\ performed'[runner[p].op] = performed[runner[p].op]
      BY <1>1, <2>1, <2>3 DEF SeatedAt
    <2>4. SeatedAt(p)'
      BY <2>1, <2>2, <2>3 DEF SeatedAt, Intact, Alike
    <2>5. PacedAt(p)'
      BY <2>1, <2>3 DEF PacedAt, Intact, Alike, ToolSteps
    <2> QED BY <2>4, <2>5
  <1>2. \A c \in Children : c # o => EmployedAt(c)'
    BY OwnersAre DEF Served, Employed, EmployedAt, At
  <1>3. ASSUME NEW i \in Ids', ops'[i].owner # o, Unresolved(i)'
        PROVE  Excused(i)'
    <2>1. i \in Ids /\ Intact(i) /\ ops[i].owner # o
      BY <1>3
    <2>2. Unresolved(i)
      BY <1>3, <2>1 DEF Unresolved, Intact, Alike
    <2>3. Excused(i)
      BY <2>1, <2>2 DEF Served, Quiet
    <2>4. ops[i].owner \in Owners
      <3>1. ops[i] \in Operation
        BY <2>1 DEF TypeOK, Ids
      <3> QED BY <3>1 DEF Operation
    <2> QED BY <2>1, <2>3, <2>4 DEF Excused, Intact, Alike, At
  <1> QED BY <1>1, <1>2, <1>3 DEF Seated, Paced, Employed, Quiet
-----------------------------------------------------------------------------
(* Requests.                                                               *)

Promised == [Promise!Next]_Promise!vars

\* The effects of one operation.
LEMMA EffectsAre ==
    ASSUME NEW i, NEW count \in {0, 1}, NEW S, S = {<<i, n>> : n \in 1..count}
    PROVE  Cardinality(S) = count
  <1>1. CASE count = 0
    <2>1. S = {}
      BY <1>1
    <2> QED BY <1>1, <2>1, FS_EmptySet
  <1>2. CASE count = 1
    <2>1. 1..count = {1}
      BY <1>2
    <2>2. S = {<<i, 1>>}
      BY <2>1
    <2> QED BY <1>2, <2>2, FS_Singleton
  <1> QED BY <1>1, <1>2

\* The state of a request is that of its operation, now and after a step.
LEMMA RequestIs ==
    ASSUME TypeOK, Once, Unique, NEW q \in Requests, NEW i \in RequestOps(q)
    PROVE  /\ RequestOps(q) = {i}
           /\ RequestOutcome[q] = OutcomeOf(i) /\ RequestEffects[q] = performed[i]
  <1>1. RequestOps(q) = {i}
    BY DEF RequestOps, Requests, Unique
  <1>2. performed[i] \in {0, 1}
    <2>1. i \in 1..Len(ops) /\ Len(ops) \in Nat /\ Len(ops) <= MaxOps
      BY DEF RequestOps, TypeOK, Ids
    <2> QED BY <2>1, LedgerAssumption DEF Once
  <1>3. RequestOutcome[q] = OutcomeOf(i)
    BY <1>1 DEF RequestOutcome
  <1>4. Cardinality(EffectsOf(q)) = performed[i]
    <2>1. EffectsOf(q) = {<<i, n>> : n \in 1..performed[i]}
      BY <1>1 DEF EffectsOf
    <2> QED BY <1>2, <2>1, EffectsAre
  <1> QED BY <1>1, <1>3, <1>4 DEF RequestEffects
LEMMA RequestBecomes ==
    ASSUME TypeOK', Once', Unique', NEW q \in Requests, NEW i \in RequestOps(q)'
    PROVE  /\ RequestOps(q)' = {i}
           /\ RequestOutcome'[q] = OutcomeOf(i)' /\ RequestEffects'[q] = performed'[i]
  <1>1. RequestOps(q)' = {i}
    BY DEF RequestOps, Requests, Unique
  <1>2. performed'[i] \in {0, 1}
    <2>1. i \in 1..Len(ops') /\ Len(ops') \in Nat /\ Len(ops') <= MaxOps
      BY DEF RequestOps, TypeOK, Ids
    <2> QED BY <2>1, LedgerAssumption DEF Once
  <1>3. RequestOutcome'[q] = OutcomeOf(i)'
    BY <1>1 DEF RequestOutcome
  <1>4. Cardinality(EffectsOf(q)') = performed'[i]
    <2>1. EffectsOf(q)' = {<<i, n>> : n \in 1..performed'[i]}
      BY <1>1 DEF EffectsOf
    <2> QED BY <1>2, <2>1, EffectsAre
  <1> QED BY <1>1, <1>3, <1>4 DEF RequestEffects
LEMMA RequestIsNot ==
    ASSUME NEW q \in Requests
    PROVE  /\ RequestOps(q) = {} => RequestOutcome[q] = "none" /\ RequestEffects[q] = 0
           /\ RequestOps(q)' = {} => RequestOutcome'[q] = "none" /\ RequestEffects'[q] = 0
  <1>1. RequestOps(q) = {} => Cardinality(EffectsOf(q)) = 0
    <2>1. RequestOps(q) = {} => EffectsOf(q) = {}
      BY DEF EffectsOf
    <2> QED BY <2>1, FS_EmptySet
  <1>2. RequestOps(q)' = {} => Cardinality(EffectsOf(q)') = 0
    <2>1. RequestOps(q)' = {} => EffectsOf(q)' = {}
      BY DEF EffectsOf
    <2> QED BY <2>1, FS_EmptySet
  <1> QED BY <1>1, <1>2 DEF RequestOutcome, RequestEffects

\* The state of the requests is what it is of each.
LEMMA RequestsAre ==
    /\ RequestOutcome = [q \in Requests |-> RequestOutcome[q]]
    /\ RequestOutcome' = [q \in Requests |-> RequestOutcome'[q]]
    /\ RequestEffects = [q \in Requests |-> RequestEffects[q]]
    /\ RequestEffects' = [q \in Requests |-> RequestEffects'[q]]
  BY DEF RequestOutcome, RequestEffects

\* Operations that stay as they are, or are acknowledged.
LEMMA NoRequest ==
    ASSUME TypeOK, Once, Unique, TypeOK', Once', Unique',
           Ids' = Ids, performed' = performed,
           \A i \in Ids : Alike(i) /\ ops'[i].reconciled = ops[i].reconciled
    PROVE  Promised
  <1>1. \A q \in Requests : RequestOps(q)' = RequestOps(q)
    BY DEF RequestOps, Alike
  <1>2. \A i \in Ids : OutcomeOf(i)' = OutcomeOf(i)
    BY DEF OutcomeOf, Alike
  <1>3. ASSUME NEW q \in Requests
        PROVE  RequestOutcome'[q] = RequestOutcome[q] /\ RequestEffects'[q] = RequestEffects[q]
    <2>1. CASE RequestOps(q) = {}
      BY <1>1, <2>1, RequestIsNot
    <2>2. ASSUME NEW i \in RequestOps(q)
          PROVE  /\ RequestOutcome'[q] = RequestOutcome[q]
                 /\ RequestEffects'[q] = RequestEffects[q]
      <3>1. i \in RequestOps(q)' /\ i \in Ids
        BY <1>1 DEF RequestOps
      <3> QED BY <1>2, <3>1, RequestIs, RequestBecomes
    <2> QED BY <2>1, <2>2
  <1>4. RequestOutcome' = RequestOutcome /\ RequestEffects' = RequestEffects
    BY <1>3, RequestsAre
  <1> QED BY <1>4 DEF Promised, Promise!vars

LEMMA RequestsAcknowledged ==
    ASSUME TypeOK, Once, Unique, TypeOK', Once', Unique',
           Ids' = Ids, performed' = performed,
           \A i \in Ids : Alike(i) /\ (ops[i].reconciled => ops'[i].reconciled)
    PROVE  Promised
  <1> DEFINE Q == {q \in Requests : /\ RequestOutcome[q] = "pending"
                                    /\ RequestOutcome'[q] = "acknowledged"}
  <1>1. \A q \in Requests : RequestOps(q)' = RequestOps(q)
    BY DEF RequestOps, Alike
  <1>2. \A i \in Ids : \/ OutcomeOf(i)' = OutcomeOf(i)
                       \/ OutcomeOf(i) = "pending" /\ OutcomeOf(i)' = "acknowledged"
    BY DEF OutcomeOf, Alike
  <1>3. ASSUME NEW q \in Requests
        PROVE  /\ RequestOutcome'[q] = IF q \in Q THEN "acknowledged" ELSE RequestOutcome[q]
               /\ RequestEffects'[q] = RequestEffects[q]
    <2>1. CASE RequestOps(q) = {}
      BY <1>1, <2>1, RequestIsNot
    <2>2. ASSUME NEW i \in RequestOps(q)
          PROVE  /\ RequestOutcome'[q] = IF q \in Q THEN "acknowledged" ELSE RequestOutcome[q]
                 /\ RequestEffects'[q] = RequestEffects[q]
      <3>1. i \in RequestOps(q)' /\ i \in Ids
        BY <1>1 DEF RequestOps
      <3>2. /\ RequestOutcome[q] = OutcomeOf(i) /\ RequestOutcome'[q] = OutcomeOf(i)'
            /\ RequestEffects'[q] = RequestEffects[q]
        BY <3>1, RequestIs, RequestBecomes
      <3> QED BY <1>2, <3>1, <3>2
    <2> QED BY <2>1, <2>2
  <1>4. Promise!Acknowledge(Q)
    <2>1. RequestEffects' = RequestEffects
      BY <1>3, RequestsAre
    <2>2. RequestOutcome' = [q \in Requests |-> IF q \in Q THEN "acknowledged"
                                                ELSE RequestOutcome[q]]
      BY <1>3, RequestsAre
    <2> QED BY <2>1, <2>2 DEF Promise!Acknowledge
  <1>5. Q \in SUBSET {q \in Requests : RequestOutcome[q] = "pending"}
    OBVIOUS
  <1> QED BY <1>4, <1>5 DEF Promised, Promise!Next
-----------------------------------------------------------------------------
(* Steps that leave every request as it is.                                *)

LEMMA IntactStep ==
    ASSUME TypeOK, Served, TypeOK', NEW o \in Owners,
           \A p \in Owners : p # o => runner'[p] = runner[p],
           \A c \in Children : c # o => child'[c] = child[c],
           Ids' = Ids, \A i \in Ids : Intact(i),
           UNCHANGED <<performed, epoch, funded>>,
           held => held',
           SeatedAt(o)', PacedAt(o)', o \in Children => EmployedAt(o)',
           \A i \in Ids : ops[i].owner = o /\ Unresolved(i) => Excused(i)'
    PROVE  Served' /\ Promised
  <1>1. Kept' /\ Once' /\ Unique'
    BY RecordsKept DEF Served, Kept, Intact
  <1>2. Seated' /\ Paced' /\ Employed' /\ Quiet'
    <2>1. ASSUME NEW i \in Ids', ops'[i].owner = o, Unresolved(i)'
          PROVE  Excused(i)'
      BY <2>1 DEF Unresolved, Intact, Alike
    <2>2. \A i \in Ids : ops'[i].owner = ops[i].owner
      BY DEF Intact, Alike
    <2> QED BY <2>1, <2>2, OwnStep
  <1>3. Promised
    BY <1>1, NoRequest DEF Served, Intact
  <1> QED BY <1>1, <1>2, <1>3 DEF Served

\* Nothing changed of the operations at all.
LEMMA OpsIntact ==
    ASSUME ops' = ops
    PROVE  Ids' = Ids /\ \A i \in Ids : Intact(i)
  BY DEF Ids, Intact, Alike

LEMMA ParentIsNoChild == Parent \notin Children
  BY LedgerAssumption

LEMMA OpenTurnKeeps ==
    ASSUME TypeOK, Served, TypeOK', OpenTurn
    PROVE  Served' /\ Promised
  <1>1. /\ UNCHANGED <<ledger, child, performed>> /\ At(Parent, "off") /\ ~held
        /\ runner'[Parent].step = "idle"
        /\ \A p \in Owners : p # Parent => runner'[p] = runner[p]
    BY OwnersAre, HaltIs DEF OpenTurn, Steps
  <1>2. ops' = ops /\ UNCHANGED <<performed, epoch, funded, held, child>>
    BY <1>1 DEF ledger
  <1>3. SeatedAt(Parent)' /\ PacedAt(Parent)'
    BY <1>1 DEF SeatedAt, PacedAt, ToolSteps
  <1>4. ASSUME NEW i \in Ids, ops[i].owner = Parent, Unresolved(i)
        PROVE  FALSE
    BY <1>1, <1>4, ParentIsNoChild DEF Served, Quiet, Excused, At, ToolSteps
  <1> QED BY <1>1, <1>2, <1>3, <1>4, IntactStep, OpsIntact, OwnersAre, ParentIsNoChild

LEMMA FinishTurnKeeps ==
    ASSUME TypeOK, Served, TypeOK', FinishTurn
    PROVE  Served' /\ Promised
  <1> DEFINE left == {i \in Ids : Unresolved(i) /\ ops[i].owner = Parent}
  <1>1. /\ UNCHANGED <<epoch, funded, child, performed>>
        /\ runner'[Parent].step = "off"
        /\ \A p \in Owners : p # Parent => runner'[p] = runner[p]
        /\ held' = (held \/ left # {}) /\ ops' = Marked(left)
    BY OwnersAre, HaltIs DEF FinishTurn, Steps
  <1>2. Ids' = Ids /\ \A i \in Ids : Intact(i)
    BY <1>1, MarkedIntact
  <1>3. SeatedAt(Parent)' /\ PacedAt(Parent)'
    BY <1>1 DEF SeatedAt, PacedAt, ToolSteps
  <1>4. ASSUME NEW i \in Ids, ops[i].owner = Parent, Unresolved(i)
        PROVE  Excused(i)'
    BY <1>1, <1>4 DEF Excused
  <1> QED BY <1>1, <1>2, <1>3, <1>4, IntactStep, OwnersAre, ParentIsNoChild

\* Only the allocation changes.
LEMMA AllocationKeeps ==
    ASSUME TypeOK, Served, TypeOK', Archive \/ Allocate
    PROVE  Served' /\ Promised
  <1>1. UNCHANGED <<ops, held, child, runner, performed>> /\ (funded' => epoch' # 0)
    BY DEF Archive, Allocate, Served, Kept, TypeOK
  <1>2. Ids' = Ids /\ \A i \in Ids : Intact(i)
    BY <1>1, OpsIntact
  <1>3. Kept' /\ Once' /\ Unique'
    BY <1>1, <1>2, RecordsKept DEF Served, Intact
  <1>4. Seated' /\ Paced' /\ Employed' /\ Quiet'
    BY <1>1, <1>2 DEF Served, Seated, SeatedAt, Paced, PacedAt, Employed, EmployedAt, At, Quiet,
                      Excused, Unresolved
  <1>5. Promised
    BY <1>1, <1>2, <1>3, NoRequest DEF Served, Intact
  <1> QED BY <1>3, <1>4, <1>5 DEF Served

LEMMA StartChildKeeps ==
    ASSUME TypeOK, Served, TypeOK', NEW c \in Children, StartChild(c)
    PROVE  Served' /\ Promised
  <1>1. /\ UNCHANGED <<ledger, performed>> /\ At(c, "off") /\ ~held
        /\ child[c] \in {"New", "Stopped"} /\ c \in Owners
        /\ child' = [child EXCEPT ![c] = "Running"]
        /\ runner'[c].step = "idle"
        /\ \A p \in Owners : p # c => runner'[p] = runner[p]
    BY OwnersAre, HaltIs DEF StartChild, Steps
  <1>2. ops' = ops /\ UNCHANGED <<performed, epoch, funded, held>>
    BY <1>1 DEF ledger
  <1>3. SeatedAt(c)' /\ PacedAt(c)'
    BY <1>1 DEF SeatedAt, PacedAt, ToolSteps
  <1>4. child'[c] = "Running" /\ \A d \in Children : d # c => child'[d] = child[d]
    BY <1>1 DEF TypeOK
  <1>5. ASSUME NEW i \in Ids, ops[i].owner = c, Unresolved(i)
        PROVE  FALSE
    BY <1>1, <1>5 DEF Served, Quiet, Excused, At, ToolSteps
  <1> QED BY <1>1, <1>2, <1>3, <1>4, <1>5, IntactStep, OpsIntact DEF EmployedAt

LEMMA CancelChildKeeps ==
    ASSUME TypeOK, Served, TypeOK', NEW c \in Children, CancelChild(c)
    PROVE  Served' /\ Promised
  <1>1. /\ UNCHANGED <<ops, performed, epoch, funded, held, runner>> /\ c \in Owners
        /\ child'[c] = "Cancelled" /\ \A d \in Children : d # c => child'[d] = child[d]
    BY OwnersAre DEF CancelChild, ledger, TypeOK
  <1>2. Ids' = Ids /\ \A i \in Ids : Intact(i)
    BY <1>1, OpsIntact
  <1>3. SeatedAt(c)' /\ PacedAt(c)'
    BY <1>1, <1>2 DEF Served, Seated, Paced, SeatedAt, PacedAt
  <1>4. ASSUME NEW i \in Ids, ops[i].owner = c, Unresolved(i)
        PROVE  Excused(i)'
    BY <1>1, <1>4 DEF Served, Quiet, Excused, At
  <1> QED BY <1>1, <1>2, <1>3, <1>4, IntactStep DEF EmployedAt

LEMMA AbortChildKeeps ==
    ASSUME TypeOK, Served, TypeOK', NEW c \in Children, AbortChild(c)
    PROVE  Served' /\ Promised
  <1> DEFINE left == {i \in OfChild(c) : ~ops[i].complete /\ ~ops[i].reconciled}
  <1>1. /\ UNCHANGED <<epoch, funded, held, performed>> /\ c \in Owners /\ ~At(c, "off")
        /\ runner'[c].step = "off"
        /\ \A p \in Owners : p # c => runner'[p] = runner[p]
        /\ ops' = Marked(left)
        /\ child'[c] = IF child[c] = "Running" THEN "Uncertain" ELSE child[c]
        /\ \A d \in Children : d # c => child'[d] = child[d]
    BY OwnersAre, HaltIs DEF AbortChild, Steps, TypeOK
  <1>2. Ids' = Ids /\ \A i \in Ids : Intact(i)
    BY <1>1, MarkedIntact DEF OfChild
  <1>3. SeatedAt(c)' /\ PacedAt(c)'
    BY <1>1 DEF SeatedAt, PacedAt, ToolSteps
  <1>4. child'[c] \in {"Uncertain", "Cancelled"}
    BY <1>1 DEF Served, Employed, EmployedAt
  <1>5. ASSUME NEW i \in Ids, ops[i].owner = c, Unresolved(i)
        PROVE  Excused(i)'
    <2>1. ops'[i].owner = c
      BY <1>2, <1>5 DEF Intact, Alike
    <2> QED BY <1>1, <1>4, <2>1 DEF Excused, At
  <1> QED BY <1>1, <1>2, <1>3, <1>5, IntactStep DEF EmployedAt, At

\* An executor that ends early, or is done with an answer.
LEMMA DropKeeps ==
    ASSUME TypeOK, Served, TypeOK', NEW o \in Owners,
           \/ EndResponse(o) \/ Drop(o)
           \/ \E call \in Calls : RepeatTool(o, call)
    PROVE  Served' /\ Promised
  <1>1. /\ UNCHANGED <<ops, epoch, funded, child, performed>> /\ (held => held')
        /\ ~At(o, "off")
        /\ \/ runner'[o].step = "ended" \/ runner' = runner
           \/ At(o, "open") /\ ops[runner[o].inv].complete /\ runner'[o].step = "idle"
        /\ \A p \in Owners : p # o => runner'[p] = runner[p]
    BY HaltIs DEF EndResponse, Drop, RepeatTool, ledger, Steps, At
  <1>2. Ids' = Ids /\ \A i \in Ids : Intact(i)
    BY <1>1, OpsIntact
  <1>3. SeatedAt(o)' /\ PacedAt(o)'
    BY <1>1, <1>2 DEF Served, Seated, Paced, SeatedAt, PacedAt, ToolSteps
  <1>4. o \in Children => EmployedAt(o)'
    BY <1>1 DEF Served, Employed, EmployedAt
  <1>5. ASSUME NEW i \in Ids, ops[i].owner = o, Unresolved(i)
        PROVE  Excused(i)'
    <2>1. Excused(i) /\ ops'[i] = ops[i]
      BY <1>1, <1>5 DEF Served, Quiet
    <2> QED BY <1>1, <1>5, <2>1 DEF Excused, At, ToolSteps
  <1> QED BY <1>1, <1>2, <1>3, <1>4, <1>5, IntactStep

LEMMA ReportKeeps ==
    ASSUME TypeOK, Served, TypeOK', NEW o \in Owners, ReportUsage(o)
    PROVE  Served' /\ Promised
  <1> DEFINE i == runner[o].inv
             new == [ops[i] EXCEPT !.reports = @ + 1]
  <1>1. /\ UNCHANGED <<runner, epoch, funded, held, child, performed>>
        /\ ops' = [ops EXCEPT ![i].reports = @ + 1]
    BY DEF ReportUsage
  <1>2. i \in 1..Len(ops) /\ ops[i] \in Operation /\ ops \in Seq(Operation)
    BY DEF ReportUsage, Served, Seated, SeatedAt, At, Ids, TypeOK
  <1>3. /\ new.kind = ops[i].kind /\ new.owner = ops[i].owner
        /\ new.source = ops[i].source /\ new.call = ops[i].call
        /\ new.result = ops[i].result /\ new.complete = ops[i].complete
        /\ new.reconciled = ops[i].reconciled /\ new.settled = ops[i].settled
    BY <1>2 DEF Operation
  <1>4. Len(ops') = Len(ops) /\ \A j \in 1..Len(ops) : ops'[j] = IF j = i THEN new ELSE ops[j]
    BY <1>1, <1>2
  <1> HIDE DEF new, i
  <1>5. Ids' = Ids /\ \A j \in Ids : Intact(j)
    BY <1>3, <1>4 DEF Ids, Intact, Alike
  <1>6. SeatedAt(o)' /\ PacedAt(o)'
    BY <1>1, <1>5 DEF Served, Seated, Paced, SeatedAt, PacedAt, Intact, Alike, ToolSteps
  <1>7. o \in Children => EmployedAt(o)'
    BY <1>1 DEF Served, Employed, EmployedAt, At
  <1>8. ASSUME NEW j \in Ids, Unresolved(j)
        PROVE  Excused(j)'
    BY <1>1, <1>5, <1>8 DEF Served, Quiet, Excused, At, Intact, Alike
  <1> QED BY <1>1, <1>5, <1>6, <1>7, <1>8, IntactStep

\* What is written of an operation before and after its result.
LEMMA AdmissionKeeps ==
    ASSUME TypeOK, Served, TypeOK', NEW o \in Owners,
           AdmitTool(o) \/ RefuseTool(o) \/ StartEffect(o) \/ FixResult(o)
    PROVE  Served' /\ Promised
  <1>1. /\ UNCHANGED <<epoch, funded, held, child, performed>>
        /\ runner[o].step \in ToolSteps /\ runner'[o].step \in ToolSteps
        /\ runner'[o].inv = runner[o].inv /\ runner'[o].op = runner[o].op
        /\ \A p \in Owners : p # o => runner'[p] = runner[p]
        /\ \/ /\ runner[o].step \in {"begun", "admitted"}
              /\ runner'[o].step \in {"admitted", "starting", "refused"}
           \/ runner[o].step = "retained" /\ runner'[o].step = "fixed"
    BY GotoIs DEF AdmitTool, RefuseTool, StartEffect, FixResult, At, ToolSteps, Steps
  <1>2. runner[o].op \in Ids
    BY <1>1 DEF Served, Seated, SeatedAt
  <1>3. Ids' = Ids /\ \A i \in Ids : Intact(i)
    <2>1. CASE RefuseTool(o)
      BY <2>1, RefusedIs DEF Served
    <2>2. CASE AdmitTool(o) \/ StartEffect(o) \/ FixResult(o)
      BY <1>2, <2>2, SetOpIs DEF AdmitTool, StartEffect, FixResult, Intact
    <2> QED BY <2>1, <2>2
  <1>4. SeatedAt(o)' /\ PacedAt(o)'
    <2>1. SeatedAt(o) /\ PacedAt(o)
      BY DEF Served, Seated, Paced
    <2>2. runner[o].inv \in Ids /\ Intact(runner[o].inv) /\ Intact(runner[o].op)
      BY <1>1, <1>2, <1>3, <2>1 DEF SeatedAt
    <2>3. SeatedAt(o)'
      BY <1>1, <1>3, <2>1, <2>2 DEF SeatedAt, Intact, Alike
    <2>4. PacedAt(o)'
      BY <1>1, <2>1, <2>2 DEF PacedAt, Intact, Alike
    <2> QED BY <2>3, <2>4
  <1>5. o \in Children => EmployedAt(o)'
    BY <1>1 DEF Served, Employed, EmployedAt, At, ToolSteps
  <1>6. ASSUME NEW i \in Ids, ops[i].owner = o, Unresolved(i)
        PROVE  Excused(i)'
    <2>1. Excused(i) /\ ops'[i].owner = o
      BY <1>3, <1>6 DEF Served, Quiet, Intact, Alike
    <2> QED BY <1>1, <1>6, <2>1 DEF Excused, At, ToolSteps
  <1> QED BY <1>1, <1>3, <1>4, <1>5, <1>6, IntactStep
-----------------------------------------------------------------------------
(* Steps that acknowledge operations.                                      *)

LEMMA ReconcileKeeps ==
    ASSUME TypeOK, Served, TypeOK', Reconcile
    PROVE  Served' /\ Promised
  <1> DEFINE S == {i \in Ids : Unresolved(i)}
  <1>1. UNCHANGED <<epoch, funded, child, runner, performed>> /\ Acknowledge(S)
    BY DEF Reconcile
  <1>2. /\ Ids' = Ids
        /\ \A i \in Ids :
             /\ Alike(i)
             /\ ops'[i].reconciled = (ops[i].reconciled \/ i \in S)
             /\ ops'[i].complete = ops[i].complete /\ ops'[i].settled = ops[i].settled
    BY <1>1, AcknowledgedAre
  <1>3. Kept' /\ Once' /\ Unique'
    BY <1>1, <1>2, RecordsKept DEF Served, Kept
  <1>4. Seated' /\ Paced' /\ Employed'
    BY <1>1, <1>2 DEF Served, Seated, SeatedAt, Paced, PacedAt, Employed, EmployedAt, At, Alike,
                      ToolSteps
  <1>5. ASSUME NEW i \in Ids, Unresolved(i)'
        PROVE  FALSE
    BY <1>2, <1>5 DEF Unresolved, Alike
  <1>6. Quiet'
    BY <1>2, <1>5 DEF Quiet
  <1>7. Promised
    BY <1>1, <1>2, <1>3, RequestsAcknowledged DEF Served
  <1> QED BY <1>3, <1>4, <1>6, <1>7 DEF Served

LEMMA RestartKeeps ==
    ASSUME TypeOK, Served, TypeOK', Restart
    PROVE  Served' /\ Promised
  <1> DEFINE uncertain == turn \/ \E i \in Ids : Unresolved(i)
             left == {i \in Ids : uncertain /\ ~ops[i].complete /\ ~ops[i].reconciled}
  <1>1. /\ UNCHANGED <<epoch, funded, performed>>
        /\ \A o \in Owners : runner'[o].step = "off"
        /\ held' = (held \/ uncertain \/ child' # child) /\ ops' = Marked(left)
    BY DEF Restart, Runner
  <1>2. Ids' = Ids /\ \A i \in Ids : Intact(i)
    BY <1>1, MarkedIntact
  <1>3. Kept' /\ Once' /\ Unique'
    BY <1>1, <1>2, RecordsKept DEF Served, Kept, Intact
  <1>4. Seated' /\ Paced' /\ Employed'
    BY <1>1, OwnersAre DEF Seated, SeatedAt, Paced, PacedAt, Employed, EmployedAt, At, ToolSteps
  <1>5. Quiet'
    <2>1. ASSUME NEW i \in Ids', Unresolved(i)'
          PROVE  held'
      <3>1. i \in Ids /\ Unresolved(i)
        BY <1>2, <2>1 DEF Unresolved, Intact, Alike
      <3> QED BY <1>1, <3>1
    <2> QED BY <2>1 DEF Quiet, Excused
  <1>6. Promised
    BY <1>1, <1>2, <1>3, NoRequest DEF Served, Intact
  <1> QED BY <1>3, <1>4, <1>5, <1>6 DEF Served

LEMMA FinishChildKeeps ==
    ASSUME TypeOK, Served, TypeOK', NEW c \in Children, FinishChild(c)
    PROVE  Served' /\ Promised
  <1> DEFINE left == {i \in OfChild(c) : ~ops[i].complete}
  <1>1. /\ UNCHANGED <<epoch, funded, held, performed>> /\ c \in Owners
        /\ runner[c].step \in {"idle", "ended"} /\ runner'[c].step = "off"
        /\ \A p \in Owners : p # c => runner'[p] = runner[p]
        /\ \A d \in Children : d # c => child'[d] = child[d]
    BY OwnersAre, HaltIs DEF FinishChild, Steps, TypeOK
  <1>2. SeatedAt(c)' /\ PacedAt(c)' /\ EmployedAt(c)'
    BY <1>1 DEF SeatedAt, PacedAt, EmployedAt, At, ToolSteps
  <1>3. CASE child[c] = "Cancelled"
    <2>1. Acknowledge(left) /\ child' = child /\ left \in SUBSET Ids
      BY <1>3 DEF FinishChild, OfChild
    <2>2. /\ Ids' = Ids
          /\ \A i \in Ids :
               /\ Alike(i)
               /\ ops'[i].reconciled = (ops[i].reconciled \/ i \in left)
               /\ ops'[i].complete = ops[i].complete /\ ops'[i].settled = ops[i].settled
      BY <2>1, AcknowledgedAre
    <2>3. Kept' /\ Once' /\ Unique'
      BY <1>1, <2>2, RecordsKept DEF Served, Kept
    <2>4. \A i \in Ids : ops[i].owner # c => Intact(i)
      <3>1. \A i \in Ids : ops[i].reconciled \in BOOLEAN
        <4>1. \A i \in Ids : ops[i] \in Operation
          BY DEF TypeOK, Ids
        <4> QED BY <4>1 DEF Operation
      <3> QED BY <2>2, <3>1 DEF Intact, OfChild
    <2>5. ASSUME NEW i \in Ids', ops'[i].owner = c
          PROVE  Excused(i)'
      BY <1>1, <1>3, <2>1, <2>5 DEF Excused, At
    <2>6. Seated' /\ Paced' /\ Employed' /\ Quiet'
      BY <1>1, <1>2, <2>1, <2>2, <2>4, <2>5, OwnStep DEF Alike
    <2>7. Promised
      BY <1>1, <2>2, <2>3, RequestsAcknowledged DEF Served
    <2> QED BY <2>3, <2>6, <2>7 DEF Served
  <1>4. CASE child[c] # "Cancelled"
    <2>1. /\ ops' = ops
          /\ At(c, "ended") => child'[c] \in {"Uncertain", "Failed"}
      BY <1>4 DEF FinishChild, At, TypeOK
    <2>2. Ids' = Ids /\ \A i \in Ids : Intact(i)
      BY <2>1, OpsIntact
    <2>3. ASSUME NEW i \in Ids, ops[i].owner = c, Unresolved(i)
          PROVE  Excused(i)'
      <3>1. held \/ At(c, "ended")
        BY <1>1, <2>3 DEF Served, Quiet, Excused, At, ToolSteps
      <3> QED BY <1>1, <2>1, <2>3, <3>1 DEF Excused, At
    <2> QED BY <1>1, <1>2, <2>2, <2>3, IntactStep
  <1> QED BY <1>3, <1>4

LEMMA ReconcileChildKeeps ==
    ASSUME TypeOK, Served, TypeOK', NEW c \in Children, ReconcileChild(c)
    PROVE  Served' /\ Promised
  <1> DEFINE left == {i \in OfChild(c) : ~ops[i].complete}
  <1>1. /\ UNCHANGED <<epoch, funded, held, runner, performed>> /\ c \in Owners
        /\ child'[c] = "Failed" /\ \A d \in Children : d # c => child'[d] = child[d]
        /\ Acknowledge(left) /\ left \in SUBSET Ids
    BY OwnersAre DEF ReconcileChild, OfChild, TypeOK
  <1>2. At(c, "off")
    BY DEF ReconcileChild, Served, Employed, EmployedAt
  <1>3. /\ Ids' = Ids
        /\ \A i \in Ids :
             /\ Alike(i)
             /\ ops'[i].reconciled = (ops[i].reconciled \/ i \in left)
             /\ ops'[i].complete = ops[i].complete /\ ops'[i].settled = ops[i].settled
    BY <1>1, AcknowledgedAre
  <1>4. SeatedAt(c)' /\ PacedAt(c)' /\ EmployedAt(c)'
    BY <1>1, <1>2 DEF SeatedAt, PacedAt, EmployedAt, At, ToolSteps
  <1>5. Kept' /\ Once' /\ Unique'
    BY <1>1, <1>3, RecordsKept DEF Served, Kept
  <1>6. \A i \in Ids : ops[i].owner # c => Intact(i)
    <2>1. \A i \in Ids : ops[i].reconciled \in BOOLEAN
      <3>1. \A i \in Ids : ops[i] \in Operation
        BY DEF TypeOK, Ids
      <3> QED BY <3>1 DEF Operation
    <2> QED BY <1>3, <2>1 DEF Intact, OfChild
  <1>7. ASSUME NEW i \in Ids', ops'[i].owner = c
        PROVE  Excused(i)'
    BY <1>1, <1>2, <1>7 DEF Excused, At
  <1>8. Seated' /\ Paced' /\ Employed' /\ Quiet'
    BY <1>1, <1>3, <1>4, <1>6, <1>7, OwnStep DEF Alike
  <1>9. Promised
    BY <1>1, <1>3, <1>5, RequestsAcknowledged DEF Served
  <1> QED BY <1>5, <1>8, <1>9 DEF Served

-----------------------------------------------------------------------------
(* The steps of an executor that change an outcome or who answers for it.  *)

LEMMA FinishModelKeeps ==
    ASSUME TypeOK, Served, TypeOK', NEW o \in Owners, FinishModel(o)
    PROVE  Served' /\ Promised
  <1> DEFINE inv == runner[o].inv
  <1>1. /\ UNCHANGED <<epoch, funded, held, child, performed>> /\ At(o, "open")
        /\ runner' = runner \/ runner'[o].step = "ended"
        /\ \A p \in Owners : p # o => runner'[p] = runner[p]
    BY HaltIs DEF FinishModel, Steps
  <1>2. /\ Ids' = Ids /\ inv \in Ids /\ ops'[inv].complete
        /\ \A i \in Ids :
             /\ Alike(i) /\ ops'[i].reconciled = ops[i].reconciled
             /\ ops'[i].settled = ops[i].settled
             /\ i # inv => ops'[i].complete = ops[i].complete
    BY FinishedIs DEF Served
  <1>3. ops[inv].owner = o /\ ops[inv].kind = "model"
    BY <1>1 DEF Served, Seated, SeatedAt, At
  <1>4. Kept' /\ Once' /\ Unique'
    BY <1>1, <1>2, RecordsKept DEF Served, Kept
  <1>5. \A i \in Ids : ops[i].owner # o => Intact(i)
    BY <1>2, <1>3 DEF Intact
  <1>6. SeatedAt(o)' /\ PacedAt(o)'
    BY <1>1, <1>2, <1>3 DEF SeatedAt, PacedAt, At, Alike, ToolSteps
  <1>7. o \in Children => EmployedAt(o)'
    BY <1>1 DEF Served, Employed, EmployedAt, At
  <1>8. ASSUME NEW i \in Ids', ops'[i].owner = o, Unresolved(i)'
        PROVE  Excused(i)'
    <2>1. CASE i = inv
      BY <1>2, <1>3, <1>8, <2>1 DEF Unresolved, Alike
    <2>2. CASE i # inv
      <3>1. Unresolved(i) /\ ops[i].owner = o
        BY <1>2, <1>8, <2>2 DEF Unresolved, Alike
      <3>2. held
        BY <1>1, <1>2, <2>2, <3>1 DEF Served, Quiet, Excused, At, ToolSteps
      <3> QED BY <1>1, <3>2 DEF Excused
    <2> QED BY <2>1, <2>2
  <1>9. Seated' /\ Paced' /\ Employed' /\ Quiet'
    BY <1>1, <1>2, <1>5, <1>6, <1>7, <1>8, OwnStep DEF Alike
  <1>10. Promised
    BY <1>1, <1>2, <1>4, NoRequest DEF Served
  <1> QED BY <1>4, <1>9, <1>10 DEF Served

LEMMA SettleKeeps ==
    ASSUME TypeOK, Served, TypeOK', NEW o \in Owners, SettleTool(o)
    PROVE  Served' /\ Promised
  <1> DEFINE inv == runner[o].inv
             op == runner[o].op
  <1>1. /\ UNCHANGED <<epoch, funded, held, child, performed>> /\ At(o, "fixed")
        /\ SetOp(o, "settled")
        /\ runner' = [runner EXCEPT ![o] = Runner("open", inv, 0)]
    BY DEF SettleTool
  <1>2. /\ inv \in Ids /\ ops[inv].owner = o /\ ops[inv].kind = "model" /\ ops[inv].complete
        /\ op \in Ids /\ ops[op].owner = o /\ ops[op].complete
    BY <1>1 DEF Served, Seated, SeatedAt, Paced, PacedAt, At, ToolSteps
  <1>3. /\ runner'[o].step = "open" /\ runner'[o].inv = inv
        /\ \A p \in Owners : p # o => runner'[p] = runner[p]
    <2>1. DOMAIN runner = Owners
      BY DEF TypeOK
    <2>2. /\ runner'[o] = Runner("open", inv, 0)
          /\ \A p \in Owners : p # o => runner'[p] = runner[p]
      BY <1>1, <2>1
    <2> QED BY <2>2 DEF Runner
  <1>4. /\ Ids' = Ids
        /\ \A i \in Ids :
             /\ Alike(i) /\ ops'[i].reconciled = ops[i].reconciled
             /\ ops'[i].complete = ops[i].complete
             /\ IF i = op THEN ops'[i].settled ELSE ops'[i].settled = ops[i].settled
    BY <1>1, <1>2, SetOpIs
  <1>5. Kept' /\ Once' /\ Unique'
    BY <1>1, <1>4, RecordsKept DEF Served, Kept
  <1>6. \A i \in Ids : ops[i].owner # o => Intact(i)
    BY <1>2, <1>4 DEF Intact
  <1>7. SeatedAt(o)' /\ PacedAt(o)'
    <2>1. Alike(inv) /\ inv \in Ids'
      BY <1>2, <1>4
    <2> QED BY <1>2, <1>3, <2>1 DEF SeatedAt, PacedAt, Alike, ToolSteps
  <1>8. o \in Children => EmployedAt(o)'
    BY <1>1 DEF Served, Employed, EmployedAt, At
  <1>9. ASSUME NEW i \in Ids', ops'[i].owner = o, Unresolved(i)'
        PROVE  Excused(i)'
    <2>1. CASE i = op
      BY <1>2, <1>4, <1>9, <2>1 DEF Unresolved, Alike
    <2>2. CASE i # op
      <3>1. Unresolved(i) /\ ops[i].owner = o
        BY <1>4, <1>9, <2>2 DEF Unresolved, Alike
      <3>2. held
        BY <1>1, <1>4, <2>2, <3>1 DEF Served, Quiet, Excused, At, ToolSteps
      <3> QED BY <1>1, <3>2 DEF Excused
    <2> QED BY <2>1, <2>2
  <1>10. Seated' /\ Paced' /\ Employed' /\ Quiet'
    BY <1>1, <1>3, <1>4, <1>6, <1>7, <1>8, <1>9, OwnStep DEF Alike
  <1>11. Promised
    BY <1>1, <1>4, <1>5, NoRequest DEF Served
  <1> QED BY <1>5, <1>10, <1>11 DEF Served

\* A new operation leaves those before it as they are.
LEMMA NewRecords ==
    ASSUME TypeOK, Kept, Once, Unique, NEW new, new \notin Ids, new \in 1..MaxOps,
           Ids' = Ids \union {new}, \A i \in Ids : ops'[i] = ops[i],
           UNCHANGED <<performed, epoch, funded>>,
           IF ops'[new].kind = "model" THEN ops'[new].call = NoCall
           ELSE ops'[new].call \in Calls /\ ops'[new].source # 0,
           \A i \in Ids : ops'[new].call \in Calls =>
               ~(ops[i].source = ops'[new].source /\ ops[i].call = ops'[new].call),
           ops'[new].result # "ok"
    PROVE  Kept' /\ Once' /\ Unique'
  <1>1. Kept'
    BY DEF Kept
  <1>2. Once'
    BY DEF Once
  <1>3. Unique'
    BY DEF Unique
  <1> QED BY <1>1, <1>2, <1>3

LEMMA BeginModelKeeps ==
    ASSUME TypeOK, Served, TypeOK', NEW o \in Owners, BeginModel(o)
    PROVE  Served' /\ Promised
  <1> DEFINE new == Len(ops) + 1
             op == NewOp("model", o, 0, NoCall, Current)
  <1>1. /\ UNCHANGED <<epoch, funded, held, child, performed>> /\ At(o, "idle")
        /\ ~held /\ Len(ops) < MaxOps /\ ops' = Append(ops, op)
        /\ Halt(o, "ended") \/ runner' = [runner EXCEPT ![o] = Runner("open", new, 0)]
    BY DEF BeginModel
  <1>2. op \in Operation
    BY CurrentIs, NewOpIs, LedgerAssumption DEF Served
  <1>3. /\ op.kind = "model" /\ op.owner = o /\ op.call = NoCall /\ op.result = "none"
        /\ ~op.complete /\ ~op.reconciled
    BY DEF NewOp
  <1> HIDE DEF op
  <1>4. /\ Ids' = Ids \union {new} /\ new \notin Ids /\ new \in 1..MaxOps
        /\ ops'[new] = op /\ \A i \in Ids : ops'[i] = ops[i]
    BY <1>1, <1>2, AppendedIs
  <1> HIDE DEF new
  <1>5. /\ \A p \in Owners : p # o => runner'[p] = runner[p]
        /\ \/ runner'[o].step = "ended"
           \/ runner'[o].step = "open" /\ runner'[o].inv = new
    <2>1. 0 \in 0..MaxOps /\ new \in 0..MaxOps /\ "open" \in Steps /\ "ended" \in Steps
      BY <1>4, LedgerAssumption DEF Steps
    <2> QED BY <1>1, <2>1, HaltIs, RunnerIs
  <1>6. Kept' /\ Once' /\ Unique'
    BY <1>1, <1>3, <1>4, LedgerAssumption, NewRecords DEF Served
  <1>7. SeatedAt(o)' /\ PacedAt(o)'
    BY <1>3, <1>4, <1>5 DEF SeatedAt, PacedAt, ToolSteps
  <1>8. o \in Children => EmployedAt(o)'
    BY <1>1 DEF Served, Employed, EmployedAt, At
  <1>9. ASSUME NEW i \in Ids', ops'[i].owner = o, Unresolved(i)'
        PROVE  Excused(i)'
    <2>1. CASE i = new
      BY <1>3, <1>4, <1>5, <1>9, <2>1 DEF Excused, At
    <2>2. CASE i # new
      <3>1. i \in Ids /\ Unresolved(i) /\ ops[i].owner = o
        BY <1>4, <1>9, <2>2 DEF Unresolved
      <3> QED BY <1>1, <3>1 DEF Served, Quiet, Excused, At, ToolSteps
    <2> QED BY <2>1, <2>2
  <1>10. Seated' /\ Paced' /\ Employed' /\ Quiet'
    BY <1>1, <1>3, <1>4, <1>5, <1>7, <1>8, <1>9, OwnStep DEF Intact, Alike
  <1>11. Promised
    <2>1. \A q \in Requests : RequestOps(q)' = RequestOps(q)
      BY <1>3, <1>4, LedgerAssumption DEF RequestOps, Requests
    <2>2. ASSUME NEW q \in Requests
          PROVE  /\ RequestOutcome'[q] = RequestOutcome[q]
                 /\ RequestEffects'[q] = RequestEffects[q]
      <3>1. CASE RequestOps(q) = {}
        BY <2>1, <3>1, RequestIsNot
      <3>2. ASSUME NEW i \in RequestOps(q)
            PROVE  /\ RequestOutcome'[q] = RequestOutcome[q]
                   /\ RequestEffects'[q] = RequestEffects[q]
        <4>1. i \in RequestOps(q)' /\ i \in Ids
          BY <2>1 DEF RequestOps
        <4>2. OutcomeOf(i)' = OutcomeOf(i)
          BY <1>4, <4>1 DEF OutcomeOf
        <4> QED BY <1>1, <1>6, <4>1, <4>2, RequestIs, RequestBecomes DEF Served
      <3> QED BY <3>1, <3>2
    <2>3. RequestOutcome' = RequestOutcome /\ RequestEffects' = RequestEffects
      BY <2>2, RequestsAre
    <2> QED BY <2>3 DEF Promised, Promise!vars
  <1> QED BY <1>6, <1>10, <1>11 DEF Served

-----------------------------------------------------------------------------
(* Steps of one request.                                                   *)

\* Every other request stays as it is when every other operation does.
LEMMA OthersStay ==
    ASSUME TypeOK, Once, Unique, TypeOK', Once', Unique', NEW new \in Ids',
           Ids' = Ids \union {new},
           \A i \in Ids : ops'[i].source = ops[i].source /\ ops'[i].call = ops[i].call,
           \A i \in Ids \ {new} : OutcomeOf(i)' = OutcomeOf(i) /\ performed'[i] = performed[i],
           NEW q \in Requests, q = <<ops'[new].source, ops'[new].call>>
    PROVE  /\ RequestOutcome' = [RequestOutcome EXCEPT ![q] = RequestOutcome'[q]]
           /\ RequestEffects' = [RequestEffects EXCEPT ![q] = RequestEffects'[q]]
  <1>1. ASSUME NEW p \in Requests, p # q
        PROVE  RequestOutcome'[p] = RequestOutcome[p] /\ RequestEffects'[p] = RequestEffects[p]
    <2>1. new \notin RequestOps(p)' /\ new \notin RequestOps(p)
      BY <1>1 DEF RequestOps, Requests
    <2>2. RequestOps(p)' = RequestOps(p)
      BY <2>1 DEF RequestOps
    <2>3. CASE RequestOps(p) = {}
      BY <2>2, <2>3, RequestIsNot
    <2>4. ASSUME NEW i \in RequestOps(p)
          PROVE  /\ RequestOutcome'[p] = RequestOutcome[p]
                 /\ RequestEffects'[p] = RequestEffects[p]
      <3>1. i \in RequestOps(p)' /\ i \in Ids \ {new}
        BY <2>1, <2>2 DEF RequestOps
      <3>2. OutcomeOf(i)' = OutcomeOf(i) /\ performed'[i] = performed[i]
        BY <3>1
      <3> QED BY <3>1, <3>2, RequestIs, RequestBecomes
    <2> QED BY <2>3, <2>4
  <1> QED BY <1>1, RequestsAre

LEMMA BeginToolKeeps ==
    ASSUME TypeOK, Served, TypeOK', NEW o \in Owners, NEW call \in Calls,
           BeginTool(o, call) \/ DenyTool(o, call)
    PROVE  Served' /\ Promised
  <1>0. Len(ops) < MaxOps /\ runner[o].inv \in 0..MaxOps
    BY DEF BeginTool, DenyTool, MayBegin, TypeOK
  <1> PICK inv \in 0..MaxOps : inv = runner[o].inv
    BY <1>0
  <1> PICK new \in 1..MaxOps : new = Len(ops) + 1
    BY <1>0, LedgerAssumption DEF TypeOK
  <1> DEFINE fresh == NewOp("tool", o, inv, call, ops[inv].epoch)
             denied == [fresh EXCEPT !.complete = TRUE, !.result = "failed",
                                     !.fixed = TRUE, !.settled = TRUE]
             op == IF BeginTool(o, call) THEN fresh ELSE denied
  <1>1. /\ UNCHANGED <<epoch, funded, held, child, performed>> /\ At(o, "open")
        /\ ops[inv].complete /\ Correlated(o, call) = {} /\ ~held /\ Len(ops) < MaxOps
        /\ ops' = Append(ops, op)
        /\ \/ BeginTool(o, call) /\ Halt(o, "ended")
           \/ /\ BeginTool(o, call)
              /\ runner' = [runner EXCEPT ![o] = Runner("begun", inv, new)]
           \/ ~BeginTool(o, call) /\ runner' = runner
    BY DEF BeginTool, DenyTool, MayBegin
  <1>2. inv \in Ids /\ ops[inv].owner = o /\ ops[inv].kind = "model"
    BY <1>1 DEF Served, Seated, SeatedAt, At
  <1>3. fresh \in Operation
    <2>1. ops[inv] \in Operation
      BY <1>2 DEF TypeOK, Ids
    <2>2. ops[inv].epoch \in 0..MaxEpoch
      BY <2>1 DEF Operation
    <2> QED BY <2>2, NewOpIs
  <1>4. /\ fresh.kind = "tool" /\ fresh.owner = o /\ fresh.source = inv /\ fresh.call = call
        /\ fresh.result = "none" /\ ~fresh.reconciled
    BY DEF NewOp
  <1> HIDE DEF fresh
  <1>5. /\ op \in Operation /\ op.kind = "tool" /\ op.owner = o /\ op.source = inv
        /\ op.call = call /\ ~op.reconciled
        /\ IF BeginTool(o, call) THEN op.result = "none"
           ELSE op.result = "failed" /\ op.complete /\ op.settled
    <2>1. CASE BeginTool(o, call)
      BY <1>3, <1>4, <2>1
    <2>2. CASE ~BeginTool(o, call)
      BY <1>3, <1>4, <2>2 DEF Operation
    <2> QED BY <2>1, <2>2
  <1> HIDE DEF op
  <1>6. /\ Ids' = Ids \union {new} /\ new \notin Ids /\ new \in 1..MaxOps
        /\ ops'[new] = op /\ \A i \in Ids : ops'[i] = ops[i]
    BY <1>1, <1>5, AppendedIs
  <1>7. /\ \A p \in Owners : p # o => runner'[p] = runner[p]
        /\ \/ runner'[o].step = "ended"
           \/ runner'[o].step = "begun" /\ runner'[o].inv = inv /\ runner'[o].op = new
           \/ ~BeginTool(o, call) /\ runner' = runner
    <2>1. inv \in 0..MaxOps /\ new \in 0..MaxOps /\ "begun" \in Steps /\ "ended" \in Steps
      BY <1>6, LedgerAssumption DEF TypeOK, Steps
    <2> QED BY <1>1, <2>1, HaltIs, RunnerIs
  <1>8. Kept' /\ Once' /\ Unique'
    <2>1. \A i \in Ids : ~(ops[i].source = inv /\ ops[i].call = call)
      BY <1>1 DEF Correlated
    <2>2. inv # 0 /\ op.result # "ok"
      BY <1>2, <1>5 DEF Ids, TypeOK
    <2>3. /\ ops'[new].kind # "model" /\ ops'[new].call \in Calls /\ ops'[new].source # 0
          /\ \A i \in Ids : ~(ops[i].source = ops'[new].source /\ ops[i].call = ops'[new].call)
          /\ ops'[new].result # "ok"
      BY <1>5, <1>6, <2>1, <2>2
    <2> QED BY <1>1, <1>6, <2>3, NewRecords DEF Served
  <1>9. SeatedAt(o)' /\ PacedAt(o)'
    <2>1. CASE runner' = runner
      BY <1>1, <1>2, <1>6, <2>1 DEF SeatedAt, PacedAt, At, ToolSteps
    <2>2. CASE runner'[o].step = "ended"
      BY <2>2 DEF SeatedAt, PacedAt, ToolSteps
    <2>3. CASE /\ BeginTool(o, call) /\ runner'[o].step = "begun"
               /\ runner'[o].inv = inv /\ runner'[o].op = new
      <3>1. performed'[new] = 0
        BY <1>1, <1>6 DEF Served, Once
      <3>2. inv \in Ids' /\ ops'[inv] = ops[inv] /\ new \in Ids' /\ ops'[new] = op
        BY <1>2, <1>6
      <3>3. SeatedAt(o)'
        BY <1>1, <1>2, <1>5, <2>3, <3>2 DEF SeatedAt
      <3>4. PacedAt(o)'
        BY <1>5, <2>3, <3>1, <3>2 DEF PacedAt
      <3> QED BY <3>3, <3>4
    <2>4. ~BeginTool(o, call) => runner' = runner
      BY <1>1
    <2> QED BY <1>7, <2>1, <2>2, <2>3, <2>4
  <1>10. o \in Children => EmployedAt(o)'
    BY <1>1 DEF Served, Employed, EmployedAt, At
  <1>11. ASSUME NEW i \in Ids', ops'[i].owner = o, Unresolved(i)'
         PROVE  Excused(i)'
    <2>1. CASE i = new
      <3>1. BeginTool(o, call)
        BY <1>5, <1>6, <1>11, <2>1 DEF Unresolved
      <3> QED BY <1>5, <1>6, <1>7, <1>11, <2>1, <3>1 DEF Excused, At, ToolSteps
    <2>2. CASE i # new
      <3>1. i \in Ids /\ Unresolved(i) /\ ops[i].owner = o
        BY <1>6, <1>11, <2>2 DEF Unresolved
      <3> QED BY <1>1, <3>1 DEF Served, Quiet, Excused, At, ToolSteps
    <2> QED BY <2>1, <2>2
  <1>12. Seated' /\ Paced' /\ Employed' /\ Quiet'
    <2>1. \A i \in Ids : Intact(i) /\ performed'[i] = performed[i]
      BY <1>1, <1>6 DEF Intact, Alike
    <2>2. /\ \A i \in Ids : ops'[i].owner = ops[i].owner
          /\ \A i \in Ids' \ Ids : ops'[i].owner = o
          /\ Ids \subseteq Ids'
      BY <1>5, <1>6
    <2> QED BY <1>1, <1>7, <1>9, <1>10, <1>11, <2>1, <2>2, OwnStep
  <1>13. Promised
    <2>1. <<inv, call>> \in Requests
      <3>1. inv # 0
        BY <1>2 DEF Ids
      <3> QED BY <3>1, LedgerAssumption DEF Requests
    <2> PICK q \in Requests : q = <<inv, call>>
      BY <2>1
    <2>2. RequestOps(q) = {} /\ new \in RequestOps(q)'
      BY <1>1, <1>5, <1>6 DEF RequestOps, Correlated
    <2>3. RequestOutcome[q] = "none" /\ RequestEffects[q] = 0
      BY <2>1, <2>2, RequestIsNot
    <2>4. RequestOutcome'[q] \in {"pending", "failed"} /\ RequestEffects'[q] = 0
      <3>1. RequestOutcome'[q] = OutcomeOf(new)' /\ RequestEffects'[q] = performed'[new]
        BY <1>8, <2>1, <2>2, RequestBecomes
      <3>2. performed'[new] = 0
        BY <1>1, <1>6 DEF Served, Once
      <3>3. OutcomeOf(new)' \in {"pending", "failed"}
        BY <1>5, <1>6 DEF OutcomeOf
      <3> QED BY <3>1, <3>2, <3>3
    <2>5. /\ RequestOutcome' = [RequestOutcome EXCEPT ![q] = RequestOutcome'[q]]
          /\ RequestEffects' = [RequestEffects EXCEPT ![q] = RequestEffects'[q]]
      <3>1. \A i \in Ids \ {new} : OutcomeOf(i)' = OutcomeOf(i) /\ performed'[i] = performed[i]
        BY <1>1, <1>6 DEF OutcomeOf
      <3> QED BY <1>5, <1>6, <1>8, <2>1, <3>1, OthersStay DEF Served
    <2>6. RequestEffects' = RequestEffects
      BY <2>1, <2>3, <2>4, <2>5, RequestsAre
    <2>7. Promise!Retain(q)
      BY <2>3, <2>4, <2>5, <2>6 DEF Promise!Retain
    <2> QED BY <2>1, <2>7 DEF Promised, Promise!Next
  <1> QED BY <1>8, <1>12, <1>13 DEF Served

\* The operation that an executor works on is of one request, whose outcome is open.
LEMMA WorkedOn ==
    ASSUME TypeOK, Served, NEW o \in Owners,
           runner[o].step \in {"starting", "performed", "refused"}
    PROVE  \E op \in 1..MaxOps, q \in Requests :
             /\ op = runner[o].op /\ op \in Ids /\ ops[op].owner = o
             /\ q = <<ops[op].source, ops[op].call>> /\ op \in RequestOps(q)
             /\ ops[op].result = "none" /\ RequestOutcome[q] \in Promise!Open
             /\ RequestEffects[q] = performed[op]
             /\ performed[op] = IF At(o, "performed") THEN 1 ELSE 0
  <1>1. /\ runner[o].op \in Ids /\ ops[runner[o].op].owner = o
        /\ ops[runner[o].op].kind = "tool"
    BY DEF Served, Seated, SeatedAt, ToolSteps
  <1>2. runner[o].op \in 1..MaxOps
    BY <1>1, LedgerAssumption DEF TypeOK, Ids
  <1> PICK op \in 1..MaxOps : op = runner[o].op
    BY <1>2
  <1>3. /\ ops[op].call \in Calls /\ ops[op].source # 0 /\ ops[op].source \in 0..MaxOps
    <2>1. ops[op] \in Operation
      BY <1>1 DEF TypeOK, Ids
    <2> QED BY <1>1, <2>1 DEF Served, Kept, Operation
  <1>4. <<ops[op].source, ops[op].call>> \in Requests
    BY <1>3, LedgerAssumption DEF Requests
  <1> PICK q \in Requests : q = <<ops[op].source, ops[op].call>>
    BY <1>4
  <1>5. op \in RequestOps(q)
    BY <1>1 DEF RequestOps
  <1>6. /\ ops[op].result = "none"
        /\ performed[op] = IF At(o, "performed") THEN 1 ELSE 0
    BY <1>1 DEF Served, Paced, PacedAt, At
  <1>7. OutcomeOf(op) \in Promise!Open
    BY <1>6 DEF OutcomeOf, Promise!Open
  <1>8. RequestOutcome[q] \in Promise!Open /\ RequestEffects[q] = performed[op]
    BY <1>5, <1>7, RequestIs DEF Served
  <1> QED BY <1>1, <1>5, <1>6, <1>8

LEMMA PerformKeeps ==
    ASSUME TypeOK, Served, TypeOK', NEW o \in Owners, PerformEffect(o)
    PROVE  Served' /\ Promised
  <1>1. /\ UNCHANGED <<ops, epoch, funded, held, child>> /\ At(o, "starting")
        /\ performed' = [performed EXCEPT ![runner[o].op] = performed[runner[o].op] + 1]
        /\ runner'[o].step = "performed"
        /\ runner'[o].inv = runner[o].inv /\ runner'[o].op = runner[o].op
        /\ \A p \in Owners : p # o => runner'[p] = runner[p]
    BY GotoIs DEF PerformEffect, ledger, Steps
  <1>2. PICK op \in 1..MaxOps, q \in Requests :
          /\ op = runner[o].op /\ op \in Ids /\ ops[op].owner = o
          /\ q = <<ops[op].source, ops[op].call>> /\ op \in RequestOps(q)
          /\ ops[op].result = "none" /\ RequestOutcome[q] \in Promise!Open
          /\ RequestEffects[q] = performed[op] /\ performed[op] = 0
    BY <1>1, WorkedOn DEF At
  <1>3. performed'[op] = 1 /\ \A i \in 1..MaxOps : i # op => performed'[i] = performed[i]
    BY <1>1, <1>2 DEF TypeOK
  <1>4. Ids' = Ids /\ Ids \subseteq 1..MaxOps /\ \A i \in Ids : Intact(i)
    BY <1>1, OpsIntact, LedgerAssumption DEF TypeOK, Ids
  <1>5. Kept' /\ Once' /\ Unique'
    BY <1>1, <1>2, <1>3, <1>4 DEF Served, Kept, Once, Unique
  <1>6. SeatedAt(o)' /\ PacedAt(o)'
    BY <1>1, <1>2, <1>3, <1>4 DEF Served, Seated, SeatedAt, PacedAt, At, ToolSteps
  <1>7. o \in Children => EmployedAt(o)'
    BY <1>1 DEF Served, Employed, EmployedAt, At
  <1>8. ASSUME NEW i \in Ids', ops'[i].owner = o, Unresolved(i)'
        PROVE  Excused(i)'
    <2>1. Unresolved(i) /\ ops[i].owner = o /\ Excused(i)
      BY <1>1, <1>4, <1>8 DEF Unresolved, Served, Quiet
    <2> QED BY <1>1, <2>1 DEF Excused, At, ToolSteps
  <1>9. Seated' /\ Paced' /\ Employed' /\ Quiet'
    <2>1. \A i \in Ids : ops[i].owner # o => Intact(i) /\ performed'[i] = performed[i]
      BY <1>2, <1>3, <1>4
    <2> QED BY <1>1, <1>4, <1>6, <1>7, <1>8, <2>1, OwnStep
  <1>10. Promised
    <2>1. op \in RequestOps(q)' /\ op \in Ids'
      BY <1>1, <1>2, <1>4 DEF RequestOps
    <2>2. OutcomeOf(op)' = OutcomeOf(op)
      BY <1>1 DEF OutcomeOf
    <2>3. RequestOutcome'[q] = RequestOutcome[q] /\ RequestEffects'[q] = 1
      BY <1>2, <1>3, <1>5, <2>1, <2>2, RequestIs, RequestBecomes DEF Served
    <2>4. /\ RequestOutcome' = [RequestOutcome EXCEPT ![q] = RequestOutcome'[q]]
          /\ RequestEffects' = [RequestEffects EXCEPT ![q] = RequestEffects'[q]]
      <3>1. /\ Ids' = Ids \union {op} /\ q = <<ops'[op].source, ops'[op].call>>
            /\ \A i \in Ids : ops'[i].source = ops[i].source /\ ops'[i].call = ops[i].call
        BY <1>1, <1>2, <1>4
      <3>2. \A i \in Ids \ {op} : OutcomeOf(i)' = OutcomeOf(i) /\ performed'[i] = performed[i]
        BY <1>1, <1>3, <1>4 DEF OutcomeOf
      <3> QED BY <1>5, <2>1, <3>1, <3>2, OthersStay DEF Served
    <2>5. RequestOutcome' = RequestOutcome
      BY <2>3, <2>4, RequestsAre
    <2>6. Promise!Perform(q)
      BY <1>2, <2>3, <2>4, <2>5 DEF Promise!Perform
    <2> QED BY <2>6 DEF Promised, Promise!Next
  <1> QED BY <1>5, <1>9, <1>10 DEF Served

LEMMA RetainKeeps ==
    ASSUME TypeOK, Served, TypeOK', NEW o \in Owners, RetainResult(o)
    PROVE  Served' /\ Promised
  <1>1. /\ UNCHANGED <<epoch, funded, held, child, performed>>
        /\ runner[o].step \in {"refused", "starting", "performed"}
        /\ runner'[o].step = "retained"
        /\ runner'[o].inv = runner[o].inv /\ runner'[o].op = runner[o].op
        /\ \A p \in Owners : p # o => runner'[p] = runner[p]
    BY GotoIs DEF RetainResult, Steps
  <1>2. PICK op \in 1..MaxOps, q \in Requests :
          /\ op = runner[o].op /\ op \in Ids /\ ops[op].owner = o
          /\ q = <<ops[op].source, ops[op].call>> /\ op \in RequestOps(q)
          /\ ops[op].result = "none" /\ RequestOutcome[q] \in Promise!Open
          /\ RequestEffects[q] = performed[op]
          /\ performed[op] = IF At(o, "performed") THEN 1 ELSE 0
    BY <1>1, WorkedOn
  <1>3. /\ Ids' = Ids
        /\ ops'[op].result \in {"failed", "ok"}
        /\ ops'[op].result = "ok" => performed[op] = 1
        /\ ops'[op].complete
        /\ \A i \in Ids :
             /\ ops'[i].kind = ops[i].kind /\ ops'[i].owner = ops[i].owner
             /\ ops'[i].source = ops[i].source /\ ops'[i].call = ops[i].call
             /\ ops'[i].reconciled = ops[i].reconciled
             /\ ops'[i].settled = ops[i].settled
             /\ i # op => ops'[i] = ops[i]
    BY <1>2, RetainedIs DEF Served
  <1>4. Kept' /\ Once' /\ Unique'
    BY <1>1, <1>2, <1>3 DEF Served, Kept, Once, Unique
  <1>5. SeatedAt(o)' /\ PacedAt(o)'
    <2>1. /\ runner[o].inv \in Ids /\ ops[runner[o].inv].owner = o
          /\ ops[runner[o].inv].kind = "model" /\ ops[runner[o].inv].complete
          /\ ops[op].kind = "tool"
      BY <1>1, <1>2 DEF Served, Seated, SeatedAt, ToolSteps
    <2>2. ops'[runner[o].inv] = ops[runner[o].inv]
      BY <1>3, <2>1
    <2> QED BY <1>1, <1>2, <1>3, <2>1, <2>2 DEF SeatedAt, PacedAt
  <1>6. o \in Children => EmployedAt(o)'
    BY <1>1 DEF Served, Employed, EmployedAt, At
  <1>7. ASSUME NEW i \in Ids', ops'[i].owner = o, Unresolved(i)'
        PROVE  Excused(i)'
    <2>1. CASE i = op
      BY <1>1, <1>2, <1>7, <2>1 DEF Excused, At, ToolSteps
    <2>2. CASE i # op
      <3>1. i \in Ids /\ Unresolved(i) /\ ops[i].owner = o
        BY <1>3, <1>7, <2>2 DEF Unresolved
      <3> QED BY <1>1, <1>2, <1>3, <2>2, <3>1 DEF Served, Quiet, Excused, At, ToolSteps
    <2> QED BY <2>1, <2>2
  <1>8. Seated' /\ Paced' /\ Employed' /\ Quiet'
    <2>1. \A i \in Ids : ops[i].owner # o => Intact(i) /\ performed'[i] = performed[i]
      BY <1>1, <1>2, <1>3 DEF Intact, Alike
    <2> QED BY <1>1, <1>3, <1>5, <1>6, <1>7, <2>1, OwnStep
  <1>9. Promised
    <2>1. op \in RequestOps(q)' /\ op \in Ids'
      BY <1>2, <1>3 DEF RequestOps
    <2>2. OutcomeOf(op)' = ops'[op].result
      BY <1>3 DEF OutcomeOf
    <2>3. RequestOutcome'[q] = ops'[op].result /\ RequestEffects'[q] = RequestEffects[q]
      BY <1>1, <1>2, <1>4, <2>1, <2>2, RequestBecomes
    <2>4. /\ RequestOutcome' = [RequestOutcome EXCEPT ![q] = RequestOutcome'[q]]
          /\ RequestEffects' = [RequestEffects EXCEPT ![q] = RequestEffects'[q]]
      <3>1. /\ Ids' = Ids \union {op} /\ q = <<ops'[op].source, ops'[op].call>>
            /\ \A i \in Ids : ops'[i].source = ops[i].source /\ ops'[i].call = ops[i].call
        BY <1>2, <1>3
      <3>2. \A i \in Ids \ {op} : OutcomeOf(i)' = OutcomeOf(i) /\ performed'[i] = performed[i]
        BY <1>1, <1>3 DEF OutcomeOf
      <3> QED BY <1>4, <2>1, <3>1, <3>2, OthersStay DEF Served
    <2>5. RequestEffects' = RequestEffects
      BY <2>3, <2>4, RequestsAre
    <2>6. \/ RequestOutcome' = [RequestOutcome EXCEPT ![q] = "failed"]
          \/ /\ RequestEffects[q] = 1
             /\ RequestOutcome' = [RequestOutcome EXCEPT ![q] = "ok"]
      <3>1. CASE ops'[op].result = "failed"
        BY <2>3, <2>4, <3>1
      <3>2. CASE ops'[op].result = "ok"
        <4>1. RequestEffects[q] = 1
          BY <1>2, <1>3, <3>2
        <4> QED BY <2>3, <2>4, <3>2, <4>1
      <3> QED BY <1>3, <3>1, <3>2
    <2>7. Promise!Settle(q)
      BY <1>2, <2>5, <2>6 DEF Promise!Settle
    <2> QED BY <2>7 DEF Promised, Promise!Next
  <1> QED BY <1>4, <1>8, <1>9 DEF Served

-----------------------------------------------------------------------------
(* The theorems.                                                           *)

LEMMA Initially ==
    ASSUME Init
    PROVE  IInv /\ Promise!Init
  <1>1. /\ ops = <<>> /\ Len(ops) = 0 /\ Ids = {}
        /\ \A o \in Owners : runner[o].step = "off"
        /\ performed = [i \in 1..MaxOps |-> 0]
    BY DEF Init, Ids, Runner
  <1>2. TypeOK
    <2>1. runner \in [Owners -> [step : Steps, inv : 0..MaxOps, op : 0..MaxOps]]
      BY LedgerAssumption DEF Init, Runner, Steps
    <2>2. grants \in [1..MaxEpoch -> Grant]
      BY LedgerAssumption DEF Init, Grant
    <2>3. child \in [Children -> AgentStatus]
      BY DEF Init, AgentStatus
    <2>4. ops \in Seq(Operation) /\ Len(ops) <= MaxOps
      BY <1>1, LedgerAssumption
    <2>5. performed \in [1..MaxOps -> Nat]
      BY <1>1
    <2>6. epoch \in 0..MaxEpoch /\ retired \subseteq 1..MaxEpoch
      BY LedgerAssumption DEF Init
    <2> QED BY <2>1, <2>2, <2>3, <2>4, <2>5, <2>6 DEF Init, TypeOK
  <1>3. Kept /\ Once /\ Unique
    BY <1>1 DEF Init, Kept, Once, Unique
  <1>4. Seated /\ Paced /\ Quiet
    BY <1>1 DEF Seated, SeatedAt, Paced, PacedAt, Quiet, ToolSteps
  <1>5. Employed
    BY <1>1, OwnersAre DEF Employed, EmployedAt, At
  <1>6. Promise!Init
    <2>1. \A q \in Requests : RequestOps(q) = {}
      BY <1>1 DEF RequestOps
    <2>2. \A q \in Requests : RequestOutcome[q] = "none" /\ RequestEffects[q] = 0
      BY <2>1, RequestIsNot
    <2> QED BY <2>2, RequestsAre DEF Promise!Init
  <1> QED BY <1>2, <1>3, <1>4, <1>5, <1>6 DEF IInv, Served

\* Every step keeps the invariant, and is one of AtMostOnce or none of its concern.
LEMMA EveryStep ==
    ASSUME IInv, [Next]_vars
    PROVE  IInv' /\ Promised
  <1>1. CASE Next
    <2>1. TypeOK /\ Served /\ TypeOK'
      BY <1>1, TypeKept DEF IInv
    <2>2. CASE OpenTurn \/ FinishTurn \/ Reconcile \/ Archive \/ Allocate \/ Restart
      BY <2>1, <2>2, OpenTurnKeeps, FinishTurnKeeps, ReconcileKeeps, AllocationKeeps,
         RestartKeeps DEF IInv
    <2>3. CASE \E c \in Children :
                 \/ StartChild(c) \/ CancelChild(c) \/ FinishChild(c) \/ AbortChild(c)
                 \/ ReconcileChild(c)
      BY <2>1, <2>3, StartChildKeeps, CancelChildKeeps, FinishChildKeeps, AbortChildKeeps,
         ReconcileChildKeeps DEF IInv
    <2>4. CASE \E o \in Owners :
                 \/ BeginModel(o) \/ ReportUsage(o) \/ FinishModel(o) \/ EndResponse(o)
                 \/ AdmitTool(o) \/ RefuseTool(o) \/ StartEffect(o) \/ PerformEffect(o)
                 \/ RetainResult(o) \/ FixResult(o) \/ SettleTool(o) \/ Drop(o)
                 \/ \E call \in Calls :
                      RepeatTool(o, call) \/ BeginTool(o, call) \/ DenyTool(o, call)
      <3> PICK o \in Owners :
                 \/ BeginModel(o) \/ ReportUsage(o) \/ FinishModel(o) \/ EndResponse(o)
                 \/ AdmitTool(o) \/ RefuseTool(o) \/ StartEffect(o) \/ PerformEffect(o)
                 \/ RetainResult(o) \/ FixResult(o) \/ SettleTool(o) \/ Drop(o)
                 \/ \E call \in Calls :
                      RepeatTool(o, call) \/ BeginTool(o, call) \/ DenyTool(o, call)
        BY <2>4
      <3>1. CASE \/ EndResponse(o) \/ Drop(o) \/ \E call \in Calls : RepeatTool(o, call)
        BY <2>1, <3>1, DropKeeps DEF IInv
      <3>2. CASE BeginModel(o) \/ ReportUsage(o) \/ FinishModel(o)
        BY <2>1, <3>2, BeginModelKeeps, ReportKeeps, FinishModelKeeps DEF IInv
      <3>3. CASE AdmitTool(o) \/ RefuseTool(o) \/ StartEffect(o) \/ FixResult(o)
        BY <2>1, <3>3, AdmissionKeeps DEF IInv
      <3>4. CASE PerformEffect(o) \/ RetainResult(o) \/ SettleTool(o)
        BY <2>1, <3>4, PerformKeeps, RetainKeeps, SettleKeeps DEF IInv
      <3>5. ASSUME NEW call \in Calls, BeginTool(o, call) \/ DenyTool(o, call)
            PROVE  IInv' /\ Promised
        BY <2>1, <3>5, BeginToolKeeps DEF IInv
      <3> QED BY <3>1, <3>2, <3>3, <3>4, <3>5
    <2> QED BY <1>1, <2>2, <2>3, <2>4 DEF Next
  <1>2. CASE UNCHANGED vars
    <2>1. /\ ops' = ops /\ epoch' = epoch /\ funded' = funded /\ grants' = grants
          /\ retired' = retired /\ held' = held /\ turn' = turn /\ child' = child
          /\ runner' = runner /\ performed' = performed
      BY <1>2 DEF vars
    <2>2. TypeOK'
      BY <2>1 DEF IInv, TypeOK
    <2>3. Kept' /\ Once' /\ Unique'
      BY <2>1 DEF IInv, Served, Kept, Once, Unique, Ids
    <2>4. Seated' /\ Paced' /\ Employed' /\ Quiet'
      BY <2>1 DEF IInv, Served, Seated, SeatedAt, Paced, PacedAt, Employed, EmployedAt, At,
                  Quiet, Excused, Unresolved, Ids
    <2>5. Ids' = Ids /\ \A i \in Ids : Intact(i)
      BY <2>1, OpsIntact
    <2>6. Promised
      BY <2>1, <2>2, <2>3, <2>5, NoRequest DEF IInv, Served, Intact
    <2> QED BY <2>2, <2>3, <2>4, <2>6 DEF IInv, Served
  <1> QED BY <1>1, <1>2

\* The inductive invariant holds of every reachable state.
LEMMA Always == Spec => []IInv
  BY Initially, EveryStep, PTL DEF Spec

\* Every variable stays within its type: the ledger, the allowances and the executors
\* (workflow/runtime.rs, workflow/allocation.rs, tools.rs).
THEOREM TypeCorrect == Spec => []TypeOK
  BY Always, PTL DEF IInv

\* AtMostOnceKept for any agents, calls and bounds: the ledger implements AtMostOnce,
\* so the effect of a tool request happens at most once, between its retention and its
\* outcome, which is final (tool_operations.rs, tools.rs).
THEOREM AtMostOnceKeptHolds == Spec => AtMostOnceKept
  BY Initially, EveryStep, Always, PTL DEF Spec, AtMostOnceKept, Promise!Spec, Promised

\* Only a new invocation or a new tool operation makes the ledger longer.
LEMMA Begins ==
    ASSUME IInv, [Next]_vars, Len(ops') > Len(ops)
    PROVE  \E o \in Owners : /\ ops'[Len(ops')].owner = o
                             /\ ~held
                             /\ \/ At(o, "idle")
                                \/ At(o, "open") /\ ops[runner[o].inv].complete
  <1>1. TypeOK /\ Served /\ Seated /\ Kept /\ Len(ops) \in Nat
    BY DEF IInv, Served, TypeOK
  <1>2. CASE \E o \in Owners : BeginModel(o)
    <2> PICK o \in Owners : BeginModel(o)
      BY <1>2
    <2> DEFINE op == NewOp("model", o, 0, NoCall, Current)
    <2>1. op \in Operation
      BY <1>1, CurrentIs, NewOpIs, LedgerAssumption
    <2>2. op.owner = o
      BY DEF NewOp
    <2>3. ops' = Append(ops, op) /\ Len(ops) < MaxOps /\ ~held /\ At(o, "idle")
      BY DEF BeginModel
    <2> HIDE DEF op
    <2>4. ops'[Len(ops')] = op
      BY <1>1, <2>1, <2>3, AppendedIs
    <2> QED BY <2>2, <2>3, <2>4
  <1>3. CASE \E o \in Owners, call \in Calls : BeginTool(o, call) \/ DenyTool(o, call)
    <2> PICK o \in Owners, call \in Calls : BeginTool(o, call) \/ DenyTool(o, call)
      BY <1>3
    <2> DEFINE inv == runner[o].inv
               op == NewOp("tool", o, inv, call, ops[inv].epoch)
               denied == [op EXCEPT !.complete = TRUE, !.result = "failed",
                                    !.fixed = TRUE, !.settled = TRUE]
    <2>1. /\ ~held /\ At(o, "open") /\ ops[inv].complete /\ Len(ops) < MaxOps
          /\ ops' = Append(ops, op) \/ ops' = Append(ops, denied)
      BY DEF BeginTool, DenyTool, MayBegin
    <2>2. op \in Operation
      <3>1. ops[inv] \in Operation /\ inv \in 0..MaxOps
        BY <1>1, <2>1, LedgerAssumption DEF Seated, SeatedAt, At, TypeOK, Ids
      <3>2. ops[inv].epoch \in 0..MaxEpoch
        BY <3>1 DEF Operation
      <3> QED BY <1>1, <3>1, <3>2, NewOpIs
    <2>3. op.owner = o
      BY DEF NewOp
    <2> HIDE DEF op
    <2>4. denied \in Operation /\ denied.owner = o
      BY <2>2, <2>3 DEF Operation
    <2> HIDE DEF denied
    <2>5. ops'[Len(ops')] \in {op, denied}
      BY <1>1, <2>1, <2>2, <2>4, AppendedIs
    <2> QED BY <2>1, <2>3, <2>4, <2>5
  <1>4. CASE /\ ~\E o \in Owners : BeginModel(o)
             /\ ~\E o \in Owners, call \in Calls : BeginTool(o, call) \/ DenyTool(o, call)
    <2>1. ASSUME Len(ops') = Len(ops)
          PROVE  FALSE
      BY <1>1, <2>1
    <2>2. CASE ops' = ops
      BY <2>1, <2>2
    <2>3. CASE \/ FinishTurn \/ Reconcile \/ Restart
               \/ \E c \in Children : FinishChild(c) \/ AbortChild(c) \/ ReconcileChild(c)
      <3>1. \E S \in SUBSET Ids : ops' = Marked(S) \/ Acknowledge(S) \/ ops' = ops
        <4>1. CASE FinishTurn
          <5> DEFINE S == {i \in Ids : Unresolved(i) /\ ops[i].owner = Parent}
          <5>1. S \in SUBSET Ids /\ ops' = Marked(S)
            BY <4>1 DEF FinishTurn
          <5> QED BY <5>1
        <4>2. CASE Reconcile
          <5> DEFINE S == {i \in Ids : Unresolved(i)}
          <5>1. S \in SUBSET Ids /\ Acknowledge(S)
            BY <4>2 DEF Reconcile
          <5> QED BY <5>1
        <4>3. CASE Restart
          BY <4>3 DEF Restart
        <4>4. ASSUME NEW c \in Children, FinishChild(c) \/ AbortChild(c) \/ ReconcileChild(c)
              PROVE  \E S \in SUBSET Ids : ops' = Marked(S) \/ Acknowledge(S) \/ ops' = ops
          BY <4>4 DEF FinishChild, AbortChild, ReconcileChild, OfChild
        <4> QED BY <2>3, <4>1, <4>2, <4>3, <4>4
      <3> QED BY <1>1, <2>1, <2>2, <3>1, MarkedIntact, AcknowledgedAre
    <2>4. ASSUME NEW o \in Owners,
                 \/ ReportUsage(o) \/ FinishModel(o) \/ AdmitTool(o) \/ RefuseTool(o)
                 \/ StartEffect(o) \/ RetainResult(o) \/ FixResult(o) \/ SettleTool(o)
          PROVE  FALSE
      <3>1. CASE ReportUsage(o)
        BY <1>1, <2>1, <3>1 DEF ReportUsage, TypeOK
      <3>2. CASE FinishModel(o) \/ RefuseTool(o) \/ RetainResult(o)
        BY <1>1, <2>1, <3>2, FinishedIs, RefusedIs, RetainedIs
      <3>3. CASE AdmitTool(o) \/ StartEffect(o) \/ FixResult(o) \/ SettleTool(o)
        BY <1>1, <2>1, <3>3 DEF AdmitTool, StartEffect, FixResult, SettleTool, SetOp, TypeOK
      <3> QED BY <2>4, <3>1, <3>2, <3>3
    <2>5. CASE ~(ops' = ops)
      BY <1>4, <2>3, <2>4, <2>5 DEF Next, vars, OpenTurn, Archive, Allocate, StartChild,
         CancelChild, EndResponse, PerformEffect, Drop, RepeatTool, ledger
    <2> QED BY <2>2, <2>5
  <1> QED BY <1>2, <1>3, <1>4

\* UnknownStopsWork for any agents, calls and bounds: an owner with an operation of
\* its own whose outcome nobody knows begins no other one (workflow/runtime.rs).
THEOREM UnknownStopsWorkHolds == Spec => UnknownStopsWork
  <1> DEFINE Resolved == Len(ops') > Len(ops) =>
               \A i \in Ids : ops[i].owner = ops'[Len(ops')].owner => ~Unresolved(i)
  <1>1. ASSUME IInv, [Next]_vars
        PROVE  [Resolved]_vars
    <2> SUFFICES ASSUME Len(ops') > Len(ops), NEW i \in Ids,
                        ops[i].owner = ops'[Len(ops')].owner, Unresolved(i)
                 PROVE  FALSE
      OBVIOUS
    <2>1. /\ ~held
          /\ \/ At(ops[i].owner, "idle")
             \/ At(ops[i].owner, "open") /\ ops[runner[ops[i].owner].inv].complete
      BY <1>1, Begins
    <2>2. Excused(i)
      BY <1>1 DEF IInv, Served, Quiet
    <2> QED BY <2>1, <2>2 DEF Excused, At, ToolSteps
  <1>2. Spec => [][Resolved]_vars
    BY <1>1, Always, PTL DEF Spec
  <1> QED BY <1>2 DEF UnknownStopsWork
-----------------------------------------------------------------------------
(* Sums.                                                                   *)

Some(s) == CHOOSE x \in s : TRUE

\* g sums f over the subsets of U, one element after another.
Sums(g, f, U) ==
    /\ g = [s \in SUBSET U |-> g[s]] /\ g[{}] = 0
    /\ \A s \in SUBSET U : s # {} => g[s] = f[Some(s)] + g[s \ {Some(s)}]

\* Where something is wrong of numbers, it is wrong of a least one.
LEMMA Least ==
    ASSUME NEW T \in SUBSET Nat, T # {}
    PROVE  \E n \in T : \A m \in Nat : m < n => m \notin T
  <1>1. IsWellFoundedOn(OpToRel(<, Nat), Nat)
    BY NatLessThanWellFounded
  <1>2. PICK n \in T : \A m \in T : ~(<<m, n>> \in OpToRel(<, Nat))
    BY <1>1, WFMin
  <1> QED BY <1>2 DEF OpToRel

LEMMA Smaller ==
    ASSUME NEW U, IsFiniteSet(U), NEW s \in SUBSET U, s # {}
    PROVE  /\ Some(s) \in s /\ IsFiniteSet(s) /\ Cardinality(s) \in Nat
           /\ \A x \in s : /\ s \ {x} \in SUBSET U
                           /\ Cardinality(s \ {x}) \in Nat
                           /\ Cardinality(s \ {x}) + 1 = Cardinality(s)
  <1>1. Some(s) \in s
    BY DEF Some
  <1>2. IsFiniteSet(s) /\ Cardinality(s) \in Nat
    BY FS_Subset, FS_CardinalityType
  <1>3. ASSUME NEW x \in s
        PROVE  Cardinality(s \ {x}) \in Nat /\ Cardinality(s \ {x}) + 1 = Cardinality(s)
    <2>1. IsFiniteSet(s \ {x}) /\ Cardinality(s \ {x}) = Cardinality(s) - 1
      BY <1>2, FS_RemoveElement
    <2>2. Cardinality(s \ {x}) \in Nat
      BY <2>1, FS_CardinalityType
    <2> QED BY <1>2, <2>1, <2>2
  <1> QED BY <1>1, <1>2, <1>3

\* Two sums agree where what they sum does.
LEMMA SumsAgree ==
    ASSUME NEW U, IsFiniteSet(U), NEW g, NEW f, Sums(g, f, U),
           NEW V, NEW h, NEW k, Sums(h, k, V),
           NEW S \in SUBSET U, S \subseteq V, \A x \in S : f[x] = k[x]
    PROVE  g[S] = h[S]
  <1> DEFINE Bad == {n \in Nat : \E s \in SUBSET S : Cardinality(s) = n /\ g[s] # h[s]}
  <1>1. ASSUME Bad # {}
        PROVE  FALSE
    <2>1. PICK n \in Bad : \A m \in Nat : m < n => m \notin Bad
      BY <1>1, Least
    <2>2. PICK s \in SUBSET S : Cardinality(s) = n /\ g[s] # h[s]
      BY <2>1
    <2>3. s # {}
      BY <2>2 DEF Sums
    <2> DEFINE rest == s \ {Some(s)}
    <2>4. /\ Some(s) \in s /\ rest \in SUBSET S
          /\ Cardinality(rest) \in Nat /\ Cardinality(rest) < n
      BY <2>2, <2>3, Smaller
    <2>5. g[rest] = h[rest]
      BY <2>1, <2>4
    <2>6. g[s] = f[Some(s)] + g[rest] /\ h[s] = k[Some(s)] + h[rest]
      BY <2>3 DEF Sums
    <2> QED BY <2>2, <2>4, <2>5, <2>6
  <1>2. Cardinality(S) \in Nat
    BY FS_Subset, FS_CardinalityType
  <1> QED BY <1>1, <1>2

\* There is a sum.
LEMMA SumsExist ==
    ASSUME NEW U, IsFiniteSet(U), NEW f, \A x \in U : f[x] \in Nat
    PROVE  \E g : Sums(g, f, U) /\ g \in [SUBSET U -> Nat]
  <1> DEFINE Upto(n) == {s \in SUBSET U : Cardinality(s) <= n}
             Summed(g, n) ==
               /\ g \in [Upto(n) -> Nat] /\ g[{}] = 0
               /\ \A s \in Upto(n) : s # {} => g[s] = f[Some(s)] + g[s \ {Some(s)}]
             Bad == {n \in Nat : ~\E g : Summed(g, n)}
  <1>1. \A s \in SUBSET U : IsFiniteSet(s) /\ Cardinality(s) \in Nat
    BY FS_Subset, FS_CardinalityType
  <1>2. ASSUME Bad # {}
        PROVE  FALSE
    <2>1. PICK n \in Bad : \A m \in Nat : m < n => m \notin Bad
      BY <1>2, Least
    <2>2. CASE n = 0
      <3>1. Upto(0) = {{}}
        BY <1>1, FS_EmptySet
      <3>2. Summed([s \in Upto(0) |-> 0], 0)
        BY <3>1
      <3> QED BY <2>1, <2>2, <3>2
    <2>3. CASE n # 0
      <3>1. n - 1 \in Nat /\ n - 1 < n
        BY <2>3
      <3>2. PICK g : Summed(g, n - 1)
        BY <2>1, <3>1
      <3> DEFINE less(s) == s \ {Some(s)}
                 h == [s \in Upto(n) |-> IF s \in Upto(n - 1) THEN g[s]
                                         ELSE f[Some(s)] + g[less(s)]]
      <3>3. ASSUME NEW s \in Upto(n), s # {}
            PROVE  Some(s) \in U /\ less(s) \in Upto(n - 1) /\ less(s) \in Upto(n)
        <4>1. /\ Some(s) \in s /\ less(s) \in SUBSET U
              /\ Cardinality(less(s)) \in Nat /\ Cardinality(less(s)) + 1 = Cardinality(s)
          BY <3>3, Smaller
        <4> QED BY <4>1, <3>3
      <3>4. {} \in Upto(n - 1) /\ {} \in Upto(n)
        BY <3>1, FS_EmptySet
      <3> HIDE DEF Upto, less
      <3>5. h \in [Upto(n) -> Nat]
        <4>1. ASSUME NEW s \in Upto(n)
              PROVE  (IF s \in Upto(n - 1) THEN g[s] ELSE f[Some(s)] + g[less(s)]) \in Nat
          <5>1. CASE s \in Upto(n - 1)
            BY <3>2, <5>1
          <5>2. CASE s \notin Upto(n - 1)
            <6>1. s # {}
              BY <3>4, <5>2
            <6>2. f[Some(s)] \in Nat /\ g[less(s)] \in Nat
              BY <3>2, <3>3, <6>1
            <6> QED BY <5>2, <6>2
          <5> QED BY <5>1, <5>2
        <4> QED BY <4>1
      <3>6. ASSUME NEW s \in Upto(n), s # {}
            PROVE  h[s] = f[Some(s)] + h[less(s)]
        <4>1. h[less(s)] = g[less(s)]
          BY <3>3, <3>6
        <4>2. s \in Upto(n - 1) => g[s] = f[Some(s)] + g[less(s)]
          BY <3>2, <3>6 DEF less
        <4> QED BY <4>1, <4>2
      <3>7. h[{}] = 0
        BY <3>2, <3>4
      <3>8. Summed(h, n)
        BY <3>5, <3>6, <3>7 DEF less
      <3> QED BY <2>1, <3>8
    <2> QED BY <2>2, <2>3
  <1> DEFINE N == Cardinality(U)
  <1>3. N \in Nat
    BY <1>1
  <1>4. PICK g : Summed(g, N)
    BY <1>2, <1>3
  <1>5. Upto(N) = SUBSET U
    BY <1>1, FS_Subset
  <1>6. Sums(g, f, U) /\ g \in [SUBSET U -> Nat]
    BY <1>4, <1>5 DEF Sums
  <1> QED BY <1>6

\* Any element may be taken first.
LEMMA SumsTake ==
    ASSUME NEW U, IsFiniteSet(U), NEW g, NEW f, Sums(g, f, U), \A x \in U : f[x] \in Nat,
           NEW S \in SUBSET U, NEW x \in S
    PROVE  g[S] = f[x] + g[S \ {x}]
  <1>0. g \in [SUBSET U -> Nat]
    <2>1. PICK h : Sums(h, f, U) /\ h \in [SUBSET U -> Nat]
      BY SumsExist
    <2>2. \A s \in SUBSET U : g[s] = h[s]
      BY <2>1, SumsAgree
    <2>3. g = [s \in SUBSET U |-> g[s]]
      BY DEF Sums
    <2> QED BY <2>1, <2>2, <2>3
  <1> DEFINE Bad == {n \in Nat : \E s \in SUBSET S, y \in S :
                       y \in s /\ Cardinality(s) = n /\ g[s] # f[y] + g[s \ {y}]}
  <1>1. ASSUME Bad # {}
        PROVE  FALSE
    <2>1. PICK n \in Bad : \A m \in Nat : m < n => m \notin Bad
      BY <1>1, Least
    <2>2. PICK s \in SUBSET S, y \in S :
            y \in s /\ Cardinality(s) = n /\ g[s] # f[y] + g[s \ {y}]
      BY <2>1
    <2>3. ASSUME NEW a \in s, NEW b \in s, a # b
          PROVE  g[s \ {a}] = f[b] + g[(s \ {a}) \ {b}]
      <3>1. /\ Cardinality(s \ {a}) \in Nat /\ Cardinality(s \ {a}) < n
            /\ s \ {a} \in SUBSET S
        BY <2>2, Smaller
      <3>2. Cardinality(s \ {a}) \notin Bad
        BY <2>1, <3>1
      <3>3. b \in s \ {a} /\ b \in S
        BY <2>3
      <3> QED BY <3>1, <3>2, <3>3
    <2>4. PICK c \in s : g[s] = f[c] + g[s \ {c}]
      <3>1. Some(s) \in s
        BY <2>2, Smaller
      <3> QED BY <2>2, <3>1 DEF Sums
    <2>5. c # y
      BY <2>2, <2>4
    <2>6. (s \ {y}) \ {c} = (s \ {c}) \ {y}
      OBVIOUS
    <2>7. g[s \ {c}] = f[y] + g[(s \ {c}) \ {y}] /\ g[s \ {y}] = f[c] + g[(s \ {c}) \ {y}]
      BY <2>2, <2>3, <2>5, <2>6
    <2>8. f[c] \in Nat /\ f[y] \in Nat /\ g[(s \ {c}) \ {y}] \in Nat
      BY <1>0
    <2>9. g[s] = f[y] + g[s \ {y}]
      BY <2>4, <2>7, <2>8
    <2> QED BY <2>2, <2>9
  <1>2. Cardinality(S) \in Nat
    BY FS_Subset, FS_CardinalityType
  <1> QED BY <1>1, <1>2

SumOf(f, U) == MapThenSumSet(LAMBDA x : f[x], U)

\* What the models' sums over a set are.
LEMMA SumIs ==
    ASSUME NEW U, IsFiniteSet(U), NEW f, \A x \in U : f[x] \in Nat
    PROVE  \E g : Sums(g, f, U) /\ SumOf(f, U) = g[U]
  <1> DEFINE Fold(g) == [s \in SUBSET U |-> IF s = {} THEN 0
                                            ELSE f[Some(s)] + g[s \ {Some(s)}]]
  <1>1. PICK g : Sums(g, f, U) /\ g \in [SUBSET U -> Nat]
    BY SumsExist
  <1>2. g = Fold(g)
    BY <1>1 DEF Sums
  <1> DEFINE iter == CHOOSE h : h = Fold(h)
  <1>3. iter = Fold(iter)
    BY <1>2
  <1>4. SumOf(f, U) = iter[U]
    BY DEF SumOf, MapThenSumSet, MapThenFoldSet, Some
  <1> HIDE DEF iter
  <1>5. Sums(iter, f, U)
    BY <1>3 DEF Sums
  <1> QED BY <1>4, <1>5

LEMMA SumSame ==
    ASSUME NEW U, IsFiniteSet(U), NEW f, NEW k, \A x \in U : f[x] \in Nat /\ k[x] = f[x]
    PROVE  SumOf(k, U) = SumOf(f, U) /\ SumOf(f, U) \in Nat
  <1>1. PICK g : Sums(g, f, U) /\ SumOf(f, U) = g[U]
    BY SumIs
  <1>2. PICK h : Sums(h, k, U) /\ SumOf(k, U) = h[U]
    BY SumIs
  <1>3. g[U] = h[U]
    BY <1>1, <1>2, SumsAgree
  <1>4. PICK m : Sums(m, f, U) /\ m \in [SUBSET U -> Nat]
    BY SumsExist
  <1>5. g[U] = m[U]
    BY <1>1, <1>4, SumsAgree
  <1> QED BY <1>1, <1>2, <1>3, <1>4, <1>5

\* One element more.
LEMMA SumOneMore ==
    ASSUME NEW U, IsFiniteSet(U), NEW x, x \notin U,
           NEW f, \A y \in U \union {x} : f[y] \in Nat
    PROVE  SumOf(f, U \union {x}) = f[x] + SumOf(f, U)
  <1> DEFINE V == U \union {x}
  <1>1. IsFiniteSet(V)
    BY FS_AddElement
  <1>2. PICK g : Sums(g, f, U) /\ SumOf(f, U) = g[U]
    BY SumIs
  <1>3. PICK h : Sums(h, f, V) /\ SumOf(f, V) = h[V]
    BY <1>1, SumIs
  <1>4. h[V] = f[x] + h[V \ {x}]
    BY <1>1, <1>3, SumsTake
  <1>5. V \ {x} = U
    OBVIOUS
  <1>6. h[U] = g[U]
    BY <1>2, <1>3, SumsAgree
  <1> QED BY <1>2, <1>3, <1>4, <1>5, <1>6

\* Ones and zeros.
LEMMA SumOfOnes ==
    ASSUME NEW U, IsFiniteSet(U), NEW f, \A x \in U : f[x] \in {0, 1}
    PROVE  SumOf(f, U) = Cardinality({x \in U : f[x] = 1})
  <1> DEFINE Ones(s) == {x \in s : f[x] = 1}
             Bad == {n \in Nat : \E s \in SUBSET U :
                       Cardinality(s) = n /\ SumOf(f, s) # Cardinality(Ones(s))}
  <1>1. ASSUME Bad # {}
        PROVE  FALSE
    <2>1. PICK n \in Bad : \A m \in Nat : m < n => m \notin Bad
      BY <1>1, Least
    <2>2. PICK s \in SUBSET U : Cardinality(s) = n /\ SumOf(f, s) # Cardinality(Ones(s))
      BY <2>1
    <2>3. s # {}
      <3>1. ASSUME s = {}
            PROVE  FALSE
        <4>1. PICK g : Sums(g, f, s) /\ SumOf(f, s) = g[s]
          BY <3>1, FS_EmptySet, SumIs
        <4>2. SumOf(f, s) = 0
          BY <3>1, <4>1 DEF Sums
        <4>3. Ones(s) = {}
          BY <3>1
        <4> QED BY <2>2, <4>2, <4>3, FS_EmptySet
      <3> QED BY <3>1
    <2>4. PICK x \in s : TRUE
      BY <2>3
    <2> DEFINE rest == s \ {x}
    <2>5. /\ rest \in SUBSET U /\ Cardinality(rest) \in Nat /\ Cardinality(rest) < n
          /\ IsFiniteSet(s) /\ IsFiniteSet(rest)
      BY <2>2, <2>3, <2>4, Smaller, FS_Subset
    <2>6. SumOf(f, rest) = Cardinality(Ones(rest))
      BY <2>1, <2>5
    <2>7. s = rest \union {x} /\ x \notin rest
      BY <2>4
    <2>8. \A y \in s : f[y] \in Nat
      BY <2>2
    <2> HIDE DEF rest
    <2>9. SumOf(f, s) = f[x] + SumOf(f, rest)
      BY <2>5, <2>7, <2>8, SumOneMore
    <2>10. IsFiniteSet(Ones(rest)) /\ Cardinality(Ones(rest)) \in Nat
      BY <2>5, FS_Subset, FS_CardinalityType
    <2>11. Cardinality(Ones(s)) = f[x] + Cardinality(Ones(rest))
      <3>1. CASE f[x] = 1
        <4>1. Ones(s) = Ones(rest) \union {x} /\ x \notin Ones(rest)
          BY <2>7, <3>1
        <4> HIDE DEF Ones
        <4>2. Cardinality(Ones(rest) \union {x}) = Cardinality(Ones(rest)) + 1
          BY <2>10, <4>1, FS_AddElement
        <4> QED BY <2>10, <3>1, <4>1, <4>2
      <3>2. CASE f[x] = 0
        <4>1. Ones(s) = Ones(rest)
          BY <2>7, <3>2
        <4> QED BY <2>10, <3>2, <4>1
      <3> QED BY <2>2, <2>4, <3>1, <3>2
    <2> QED BY <2>2, <2>6, <2>9, <2>11
  <1>2. Cardinality(U) \in Nat
    BY FS_CardinalityType
  <1> QED BY <1>1, <1>2

\* The reports of the operations of U.
Reported(seq, U) == MapThenSumSet(LAMBDA x : seq[x].reports, U)

LEMMA ReportedIs ==
    ASSUME NEW seq, NEW U, IsFiniteSet(U), NEW f, f = [x \in U |-> seq[x].reports],
           \A x \in U : f[x] \in Nat
    PROVE  Reported(seq, U) = SumOf(f, U)
  <1> DEFINE Fold(g) == [s \in SUBSET U |-> IF s = {} THEN 0
                                            ELSE seq[Some(s)].reports + g[s \ {Some(s)}]]
  <1>1. PICK g : Sums(g, f, U) /\ SumOf(f, U) = g[U]
    BY SumIs
  <1>2. \A s \in SUBSET U : s # {} => f[Some(s)] = seq[Some(s)].reports
    BY DEF Some
  <1>3. g = Fold(g)
    BY <1>1, <1>2 DEF Sums
  <1> DEFINE iter == CHOOSE h : h = Fold(h)
  <1>4. iter = Fold(iter)
    BY <1>3
  <1>5. Reported(seq, U) = iter[U]
    BY DEF Reported, MapThenSumSet, MapThenFoldSet, Some
  <1> HIDE DEF iter
  <1>6. Sums(iter, f, U)
    BY <1>2, <1>4 DEF Sums
  <1>7. iter[U] = g[U]
    BY <1>1, <1>6, SumsAgree
  <1> QED BY <1>1, <1>5, <1>7

-----------------------------------------------------------------------------
(* The books: what an allocation says of the operations under it.          *)

Under(e) == {i \in Ids : ops[i].epoch = e}
Invocations(e) == {i \in Under(e) : ops[i].kind = "model"}

\* An operation whose effect happened, or may still happen.
Paying == {"begun", "admitted", "starting"}
Due(i) ==
    \/ performed[i] = 1
    \/ \E o \in Owners : runner[o].step \in Paying /\ runner[o].op = i
Used(e) == {i \in Under(e) : Due(i)}

\* The allocation of an operation is kept as long as the operation.
Referenced == \A i \in Ids : ops[i].epoch # 0 => Settlement(ops[i].epoch) = {ops[i].epoch}
Charged == \A e \in 1..MaxEpoch :
    /\ Cardinality(Used(e)) <= grants[e].tools
    /\ Cardinality(Invocations(e)) = grants[e].models
Conserved == \A e \in 1..MaxEpoch : grants[e].reports = Reported(ops, Under(e))

Books == Referenced /\ Charged /\ UsageHonest /\ Conserved

\* The counters of an allocation stay as they are.
Settled(e) ==
    /\ grants'[e].models = grants[e].models /\ grants'[e].tools = grants[e].tools
    /\ grants'[e].reports = grants[e].reports
    /\ grants[e].unknown => grants'[e].unknown

LEMMA SomeAre ==
    ASSUME TypeOK
    PROVE  /\ IsFiniteSet(Ids)
           /\ \A i \in Ids : ops[i] \in Operation /\ ops[i].reports \in Nat
           /\ \A S \in SUBSET Ids : IsFiniteSet(S) /\ Cardinality(S) \in Nat
  <1>1. Len(ops) \in Nat
    BY DEF TypeOK
  <1>2. IsFiniteSet(Ids)
    BY <1>1, FS_Interval DEF Ids
  <1>3. \A S \in SUBSET Ids : IsFiniteSet(S) /\ Cardinality(S) \in Nat
    BY <1>2, FS_Subset, FS_CardinalityType
  <1>4. \A i \in Ids : ops[i] \in Operation
    BY DEF TypeOK, Ids
  <1>5. \A i \in Ids : ops[i].reports \in Nat
    BY <1>4, LedgerAssumption DEF Operation
  <1> QED BY <1>2, <1>3, <1>4, <1>5
LEMMA SomeBecome ==
    ASSUME TypeOK'
    PROVE  /\ IsFiniteSet(Ids')
           /\ \A i \in Ids' : ops'[i] \in Operation /\ ops'[i].reports \in Nat
           /\ \A S \in SUBSET Ids' : IsFiniteSet(S) /\ Cardinality(S) \in Nat
  <1>1. Len(ops') \in Nat
    BY DEF TypeOK
  <1>2. IsFiniteSet(Ids')
    BY <1>1, FS_Interval DEF Ids
  <1>3. \A S \in SUBSET Ids' : IsFiniteSet(S) /\ Cardinality(S) \in Nat
    BY <1>2, FS_Subset, FS_CardinalityType
  <1>4. \A i \in Ids' : ops'[i] \in Operation
    BY DEF TypeOK, Ids
  <1>5. \A i \in Ids' : ops'[i].reports \in Nat
    BY <1>4, LedgerAssumption DEF Operation
  <1> QED BY <1>2, <1>3, <1>4, <1>5

\* A set of operations has reported the same when each of them has.
LEMMA ReportedSame ==
    ASSUME TypeOK, TypeOK', NEW U \in SUBSET Ids, U \subseteq Ids',
           \A i \in U : ops'[i].reports = ops[i].reports
    PROVE  Reported(ops', U) = Reported(ops, U) /\ Reported(ops, U) \in Nat
  <1> DEFINE f == [i \in U |-> ops[i].reports]
             k == [i \in U |-> ops'[i].reports]
  <1>1. IsFiniteSet(U) /\ \A i \in U : f[i] \in Nat /\ k[i] = f[i]
    BY SomeAre
  <1>2. Reported(ops, U) = SumOf(f, U)
    BY <1>1, ReportedIs
  <1>3. Reported(ops', U) = SumOf(k, U)
    BY <1>1, ReportedIs
  <1> QED BY <1>1, <1>2, <1>3, SumSame

\* One operation more, or one with another number of reports.
LEMMA ReportedMore ==
    ASSUME NEW seq, NEW U, IsFiniteSet(U), NEW x, x \notin U,
           \A i \in U \union {x} : seq[i].reports \in Nat
    PROVE  Reported(seq, U \union {x}) = seq[x].reports + Reported(seq, U)
  <1> DEFINE V == U \union {x}
             f == [i \in V |-> seq[i].reports]
             k == [i \in U |-> seq[i].reports]
  <1>1. IsFiniteSet(V)
    BY FS_AddElement
  <1>2. Reported(seq, V) = SumOf(f, V)
    BY <1>1, ReportedIs
  <1>3. Reported(seq, U) = SumOf(k, U)
    BY ReportedIs
  <1>4. SumOf(k, U) = SumOf(f, U)
    BY SumSame
  <1>5. SumOf(f, V) = f[x] + SumOf(f, U)
    BY SumOneMore
  <1> QED BY <1>2, <1>3, <1>4, <1>5

\* Steps that book nothing.
LEMMA BooksStay ==
    ASSUME TypeOK, TypeOK', Books, Ids' = Ids, Referenced',
           \A i \in Ids : ops'[i].kind = ops[i].kind /\ Booked(i),
           \A e \in 1..MaxEpoch : Settled(e),
           \A i \in Ids : Due(i)' => Due(i),
           \A i \in Ids : /\ ops[i].kind = "model" /\ ops[i].reports = 0 /\ ops[i].epoch # 0
                          /\ ops'[i].complete \/ ops'[i].reconciled
                          /\ ~(ops[i].complete \/ ops[i].reconciled)
                          => grants'[ops[i].epoch].unknown
    PROVE  Books'
  <1>1. \A e : Under(e)' = Under(e) /\ Invocations(e)' = Invocations(e)
    BY DEF Under, Invocations, Booked
  <1>2. Charged'
    <2>1. ASSUME NEW e \in 1..MaxEpoch
          PROVE  Cardinality(Used(e)') <= Cardinality(Used(e))
      <3>1. Used(e)' \subseteq Used(e) /\ Used(e) \in SUBSET Ids
        BY <1>1 DEF Used, Under
      <3> QED BY <3>1, SomeAre, FS_Subset
    <2>2. ASSUME NEW e \in 1..MaxEpoch
          PROVE  Cardinality(Used(e)) \in Nat /\ Cardinality(Used(e)') \in Nat
                 /\ grants[e].tools \in Nat
      <3>1. Used(e) \in SUBSET Ids /\ Used(e)' \in SUBSET Ids'
        BY DEF Used, Under
      <3>2. grants[e] \in Grant
        BY DEF TypeOK
      <3> QED BY <3>1, <3>2, SomeAre, SomeBecome, LedgerAssumption DEF Grant
    <2> QED BY <1>1, <2>1, <2>2 DEF Books, Charged, Settled
  <1>3. UsageHonest'
    <2> SUFFICES ASSUME NEW i \in Ids,
                        ops'[i].kind = "model", ops'[i].complete \/ ops'[i].reconciled,
                        ops'[i].reports = 0, ops'[i].epoch # 0
                 PROVE  grants'[ops'[i].epoch].unknown
      BY DEF UsageHonest
    <2>1. ops[i].kind = "model" /\ Booked(i)
      OBVIOUS
    <2>2. CASE ops[i].complete \/ ops[i].reconciled
      <3>1. grants[ops[i].epoch].unknown
        BY <2>1, <2>2 DEF Books, UsageHonest, Booked
      <3>2. ops[i].epoch \in 1..MaxEpoch
        BY <2>1, SomeAre, LedgerAssumption DEF Booked, Operation
      <3> QED BY <2>1, <3>1, <3>2 DEF Settled, Booked
    <2>3. CASE ~(ops[i].complete \/ ops[i].reconciled)
      BY <2>1, <2>3 DEF Booked
    <2> QED BY <2>2, <2>3
  <1>4. Conserved'
    <2>1. ASSUME NEW e \in 1..MaxEpoch
          PROVE  Reported(ops', Under(e)) = Reported(ops, Under(e))
      <3>1. Under(e) \in SUBSET Ids /\ Under(e) \subseteq Ids'
        BY DEF Under
      <3>2. \A i \in Under(e) : ops'[i].reports = ops[i].reports
        BY <3>1 DEF Booked
      <3> QED BY <3>1, <3>2, ReportedSame
    <2> QED BY <1>1, <2>1 DEF Books, Conserved, Settled
  <1> QED BY <1>2, <1>3, <1>4 DEF Books

\* What MarkUnknown and Charge change of the counters.
LEMMA UnknownBooked ==
    ASSUME TypeOK, Referenced, NEW S \in SUBSET Ids, MarkUnknown(S)
    PROVE  /\ \A e \in 1..MaxEpoch : Settled(e)
           /\ \A i \in S : ops[i].kind = "model" /\ ops[i].reports = 0 /\ ops[i].epoch # 0
                             => grants'[ops[i].epoch].unknown
  <1> DEFINE unknown(e) ==
        grants[e].unknown \/ \E i \in Silent(S) : e \in Settlement(ops[i].epoch)
  <1>1. \A e \in 1..MaxEpoch : grants[e] \in Grant /\ unknown(e) \in BOOLEAN
    BY DEF TypeOK, Grant
  <1>2. grants' = [e \in 1..MaxEpoch |-> [grants[e] EXCEPT !.unknown = unknown(e)]]
    BY DEF MarkUnknown
  <1>3. \A e \in 1..MaxEpoch : grants[e].unknown => unknown(e)
    OBVIOUS
  <1>4. ASSUME NEW i \in S, ops[i].kind = "model", ops[i].reports = 0, ops[i].epoch # 0
        PROVE  ops[i].epoch \in 1..MaxEpoch /\ unknown(ops[i].epoch)
    <2>1. ops[i].epoch \in 1..MaxEpoch
      BY <1>4, SomeAre, LedgerAssumption DEF Operation
    <2>2. ops[i].epoch \in Settlement(ops[i].epoch) /\ i \in Silent(S)
      BY <1>4 DEF Referenced, Silent
    <2> QED BY <2>1, <2>2
  <1> HIDE DEF unknown
  <1>5. \A e \in 1..MaxEpoch : /\ grants'[e].models = grants[e].models
                               /\ grants'[e].tools = grants[e].tools
                               /\ grants'[e].reports = grants[e].reports
                               /\ grants'[e].unknown = unknown(e)
    BY <1>1, <1>2 DEF Grant
  <1> QED BY <1>3, <1>4, <1>5 DEF Settled

LEMMA ChargeBooked ==
    ASSUME TypeOK, NEW c \in 0..MaxEpoch, NEW counter \in {"models", "tools"},
           Charge(c, counter), NEW e \in 1..MaxEpoch
    PROVE  /\ grants'[e].models = grants[e].models
                + (IF e = c /\ counter = "models" THEN 1 ELSE 0)
           /\ grants'[e].tools = grants[e].tools
                + (IF e = c /\ counter = "tools" THEN 1 ELSE 0)
           /\ grants'[e].reports = grants[e].reports
           /\ grants'[e].unknown = grants[e].unknown
  <1>1. /\ grants[e] \in Grant /\ grants \in [1..MaxEpoch -> Grant]
        /\ grants[e].models \in Nat /\ grants[e].tools \in Nat
    BY LedgerAssumption DEF TypeOK, Grant
  <1>2. CASE e # c
    <2>1. grants'[e] = grants[e]
      BY <1>1, <1>2 DEF Charge
    <2> QED BY <1>1, <1>2, <2>1
  <1>3. CASE e = c
    <2>1. c # 0
      BY <1>3
    <2>2. grants'[e] = [grants[e] EXCEPT ![counter] = @ + 1]
      BY <1>1, <1>3, <2>1 DEF Charge
    <2>3. CASE counter = "models"
      BY <1>1, <1>3, <2>2, <2>3 DEF Grant
    <2>4. CASE counter = "tools"
      BY <1>1, <1>3, <2>2, <2>4 DEF Grant
    <2> QED BY <2>3, <2>4
  <1> QED BY <1>2, <1>3

\* Steps of the executors that begin nothing.
LEMMA BooksKept ==
    ASSUME TypeOK, TypeOK', Books, Ids' = Ids,
           UNCHANGED <<epoch, funded, retired, performed>>,
           \A i \in Ids : ops'[i].kind = ops[i].kind /\ Booked(i),
           \A e \in 1..MaxEpoch : Settled(e),
           \A o \in Owners : runner'[o].step \in Paying =>
               runner[o].step \in Paying /\ runner'[o].op = runner[o].op,
           \A i \in Ids : /\ ops[i].kind = "model" /\ ops[i].reports = 0 /\ ops[i].epoch # 0
                          /\ ops'[i].complete \/ ops'[i].reconciled
                          /\ ~(ops[i].complete \/ ops[i].reconciled)
                          => grants'[ops[i].epoch].unknown
    PROVE  Books'
  <1>1. Referenced'
    BY DEF Books, Referenced, Settlement, Booked
  <1>2. \A i \in Ids : Due(i)' => Due(i)
    BY DEF Due
  <1> QED BY <1>1, <1>2, BooksStay

\* A new operation, charged if its effect may happen.
LEMMA BooksGrow ==
    ASSUME TypeOK, TypeOK', Books, NEW new, new \notin Ids, Ids' = Ids \union {new},
           \A i \in Ids : ops'[i] = ops[i],
           UNCHANGED <<epoch, funded, retired>>,
           ops'[new].reports = 0,
           ops'[new].epoch # 0 => Settlement(ops'[new].epoch) = {ops'[new].epoch},
           ops'[new].kind = "model" => ~(ops'[new].complete \/ ops'[new].reconciled),
           \A i \in Ids : Due(i)' => Due(i),
           \A e \in 1..MaxEpoch :
               /\ grants'[e].reports = grants[e].reports
               /\ grants'[e].unknown = grants[e].unknown
               /\ grants'[e].models = grants[e].models
                    + (IF ops'[new].epoch = e /\ ops'[new].kind = "model" THEN 1 ELSE 0)
               /\ grants'[e].tools = grants[e].tools
                    \/ grants'[e].tools = grants[e].tools + 1
               /\ ops'[new].epoch = e /\ Due(new)' => grants'[e].tools = grants[e].tools + 1
    PROVE  Books'
  <1> DEFINE Own(e) == IF ops'[new].epoch = e THEN {new} ELSE {}
  <1>1. \A e : Under(e)' = Under(e) \union Own(e)
    BY DEF Under
  <1>2. Referenced'
    BY DEF Books, Referenced, Settlement
  <1>3. Charged'
    <2> SUFFICES ASSUME NEW e \in 1..MaxEpoch
                 PROVE  /\ Cardinality(Used(e)') <= grants'[e].tools
                        /\ Cardinality(Invocations(e)') = grants'[e].models
      BY DEF Charged
    <2>1. /\ Used(e) \in SUBSET Ids /\ Invocations(e) \in SUBSET Ids
          /\ Used(e)' \in SUBSET Ids' /\ Invocations(e)' \in SUBSET Ids'
      BY DEF Used, Invocations, Under
    <2>2. /\ Cardinality(Used(e)) <= grants[e].tools
          /\ Cardinality(Invocations(e)) = grants[e].models
      BY DEF Books, Charged
    <2>3. grants[e].tools \in Nat /\ grants[e].models \in Nat
      <3>1. grants[e] \in Grant
        BY DEF TypeOK
      <3> QED BY <3>1, LedgerAssumption DEF Grant
    <2>4. /\ IsFiniteSet(Used(e)) /\ Cardinality(Used(e)) \in Nat
          /\ IsFiniteSet(Invocations(e)) /\ Cardinality(Invocations(e)) \in Nat
          /\ Cardinality(Used(e)') \in Nat
      BY <2>1, SomeAre, SomeBecome
    <2>5. Cardinality(Used(e)') <= grants'[e].tools
      <3>1. CASE ops'[new].epoch = e /\ Due(new)'
        <4>1. Used(e)' \subseteq Used(e) \union {new}
          BY <1>1 DEF Used, Under
        <4>2. new \notin Used(e)
          BY <2>1
        <4>3. /\ IsFiniteSet(Used(e) \union {new})
              /\ Cardinality(Used(e) \union {new}) = Cardinality(Used(e)) + 1
          BY <2>4, <4>2, FS_AddElement
        <4>4. Cardinality(Used(e)') <= Cardinality(Used(e) \union {new})
          BY <4>1, <4>3, FS_Subset
        <4> QED BY <2>2, <2>3, <2>4, <3>1, <4>3, <4>4
      <3>2. CASE ~(ops'[new].epoch = e /\ Due(new)')
        <4>1. Used(e)' \subseteq Used(e)
          BY <1>1, <3>2 DEF Used, Under
        <4>2. Cardinality(Used(e)') <= Cardinality(Used(e))
          BY <2>4, <4>1, FS_Subset
        <4> QED BY <2>2, <2>3, <2>4, <4>2
      <3> QED BY <3>1, <3>2
    <2>6. Cardinality(Invocations(e)') = grants'[e].models
      <3>1. CASE ops'[new].epoch = e /\ ops'[new].kind = "model"
        <4>1. Invocations(e)' = Invocations(e) \union {new} /\ new \notin Invocations(e)
          BY <1>1, <3>1 DEF Invocations, Under
        <4>2. Cardinality(Invocations(e) \union {new}) = Cardinality(Invocations(e)) + 1
          BY <2>4, <4>1, FS_AddElement
        <4>3. grants'[e].models = grants[e].models + 1
          BY <3>1
        <4> QED BY <2>2, <4>1, <4>2, <4>3
      <3>2. CASE ~(ops'[new].epoch = e /\ ops'[new].kind = "model")
        <4>1. Invocations(e)' = Invocations(e)
          BY <1>1, <3>2 DEF Invocations, Under
        <4> QED BY <2>2, <2>3, <3>2, <4>1
      <3> QED BY <3>1, <3>2
    <2> QED BY <2>5, <2>6
  <1>4. UsageHonest'
    <2> SUFFICES ASSUME NEW i \in Ids',
                        ops'[i].kind = "model", ops'[i].complete \/ ops'[i].reconciled,
                        ops'[i].reports = 0, ops'[i].epoch # 0
                 PROVE  grants'[ops'[i].epoch].unknown
      BY DEF UsageHonest
    <2>1. i \in Ids /\ ops'[i] = ops[i]
      OBVIOUS
    <2>2. grants[ops[i].epoch].unknown
      BY <2>1 DEF Books, UsageHonest
    <2>3. ops[i].epoch \in 1..MaxEpoch
      BY <2>1, SomeAre, LedgerAssumption DEF Operation
    <2> QED BY <2>1, <2>2, <2>3
  <1>5. Conserved'
    <2> SUFFICES ASSUME NEW e \in 1..MaxEpoch
                 PROVE  grants'[e].reports = Reported(ops', Under(e)')
      BY DEF Conserved
    <2>1. /\ Under(e) \in SUBSET Ids /\ Under(e) \subseteq Ids' /\ IsFiniteSet(Under(e))
          /\ new \notin Under(e)
      <3>1. Under(e) \in SUBSET Ids
        BY DEF Under
      <3> QED BY <3>1, SomeAre
    <2>2. Reported(ops', Under(e)) = Reported(ops, Under(e)) /\ Reported(ops, Under(e)) \in Nat
      BY <2>1, ReportedSame
    <2>3. grants[e].reports = Reported(ops, Under(e))
      BY DEF Books, Conserved
    <2>4. CASE ops'[new].epoch = e
      <3>1. \A i \in Under(e) \union {new} : ops'[i].reports \in Nat
        BY <2>1, SomeBecome
      <3>2. Reported(ops', Under(e) \union {new}) = 0 + Reported(ops', Under(e))
        BY <2>1, <3>1, ReportedMore
      <3>3. Under(e)' = Under(e) \union {new}
        BY <1>1, <2>4
      <3>4. Reported(ops', Under(e)') = Reported(ops, Under(e))
        BY <2>2, <3>2, <3>3
      <3> QED BY <2>3, <3>4
    <2>5. CASE ops'[new].epoch # e
      BY <1>1, <2>2, <2>3, <2>5
    <2> QED BY <2>4, <2>5
  <1> QED BY <1>2, <1>3, <1>4, <1>5 DEF Books
-----------------------------------------------------------------------------
(* The books are kept by every step.                                       *)

\* No executor comes to an effect that was not to come.
Stalled ==
    \A o \in Owners : runner'[o].step \in Paying =>
        runner[o].step \in Paying /\ runner'[o].op = runner[o].op

LEMMA StalledIs ==
    ASSUME TypeOK
    PROVE  /\ UNCHANGED runner => Stalled
           /\ \A o \in Owners, step \in Steps \ Paying : Halt(o, step) => Stalled
           /\ \A o \in Owners, step \in Steps :
                /\ Goto(o, step) /\ (step \notin Paying \/ runner[o].step \in Paying)
                => Stalled
  <1>1. UNCHANGED runner => Stalled
    BY DEF Stalled
  <1>2. ASSUME NEW o \in Owners, NEW step \in Steps \ Paying, Halt(o, step)
        PROVE  Stalled
    BY <1>2, HaltIs DEF Stalled
  <1>3. ASSUME NEW o \in Owners, NEW step \in Steps, Goto(o, step),
               step \notin Paying \/ runner[o].step \in Paying
        PROVE  Stalled
    BY <1>3, GotoIs DEF Stalled
  <1> QED BY <1>1, <1>2, <1>3

\* Neither the operations nor the allowances change.
LEMMA BooksIdle ==
    ASSUME TypeOK, TypeOK', Books, UNCHANGED <<ops, grants, epoch, funded, retired, performed>>,
           Stalled
    PROVE  Books'
  <1>1. Ids' = Ids /\ \A i \in Ids : ops'[i] = ops[i]
    BY DEF Ids
  <1> QED BY <1>1, BooksKept DEF Booked, Settled, Stalled

LEMMA IdleBooks ==
    ASSUME TypeOK, Served, Books, TypeOK',
           \/ OpenTurn \/ \E c \in Children : StartChild(c) \/ CancelChild(c)
           \/ \E o \in Owners : EndResponse(o) \/ Drop(o)
           \/ \E o \in Owners, call \in Calls : RepeatTool(o, call)
           \/ UNCHANGED vars
    PROVE  Books'
  <1>1. UNCHANGED <<ops, grants, epoch, funded, retired, performed>>
    BY DEF OpenTurn, StartChild, CancelChild, EndResponse, Drop, RepeatTool, ledger, vars
  <1>2. \/ UNCHANGED runner
        \/ \E o \in Owners, step \in {"idle", "ended"} : Halt(o, step)
    BY OwnersAre DEF OpenTurn, StartChild, CancelChild, EndResponse, Drop, RepeatTool, vars
  <1>3. {"idle", "ended"} \subseteq Steps \ Paying
    BY DEF Steps, Paying
  <1>4. Stalled
    BY <1>2, <1>3, StalledIs
  <1> QED BY <1>1, <1>4, BooksIdle

\* Only the allocation changes: an allocation in use is retired, not dropped.
LEMMA AllocationBooks ==
    ASSUME TypeOK, Served, Books, TypeOK', Archive \/ Allocate
    PROVE  Books'
  <1>1. UNCHANGED <<ops, grants, runner, performed>>
    BY DEF Archive, Allocate
  <1>2. Ids' = Ids /\ \A i \in Ids : ops'[i] = ops[i]
    BY <1>1 DEF Ids
  <1>3. \/ UNCHANGED <<retired, funded, epoch>>
        \/ Retire /\ funded' = FALSE /\ epoch' = epoch
        \/ Retire /\ epoch' = epoch + 1
    BY DEF Archive, Allocate
  <1>4. ASSUME NEW i \in Ids, ops[i].epoch # 0
        PROVE  Settlement(ops[i].epoch)' = {ops[i].epoch}
    <2>1. ops[i].epoch \in retired \/ (ops[i].epoch = epoch /\ funded)
      BY <1>4 DEF Books, Referenced, Settlement
    <2>2. CASE UNCHANGED <<retired, funded, epoch>>
      BY <1>1, <1>4, <2>1, <2>2 DEF Settlement
    <2>3. CASE Retire
      <3>1. ops[i].epoch \in retired'
        BY <1>4, <2>1, <2>3 DEF Retire
      <3> QED BY <1>1, <3>1 DEF Settlement
    <2> QED BY <1>3, <2>2, <2>3
  <1>5. Referenced'
    BY <1>1, <1>2, <1>4 DEF Referenced, Settlement
  <1>6. \A i \in Ids : Due(i)' => Due(i)
    BY <1>1 DEF Due
  <1> QED BY <1>1, <1>2, <1>5, <1>6, BooksStay DEF Booked, Settled

\* What reported nothing is marked, or acknowledged as it is.
LEMMA MarkedBooks ==
    ASSUME TypeOK, Served, Books, TypeOK', NEW S \in SUBSET Ids,
           (ops' = Marked(S) /\ MarkUnknown(S)) \/ Acknowledge(S),
           UNCHANGED <<epoch, funded, retired, performed>>, Stalled
    PROVE  Books'
  <1>1. /\ \A e \in 1..MaxEpoch : Settled(e)
        /\ \A i \in S : ops[i].kind = "model" /\ ops[i].reports = 0 /\ ops[i].epoch # 0
                          => grants'[ops[i].epoch].unknown
    <2>1. MarkUnknown(S)
      BY DEF Acknowledge
    <2> QED BY <2>1, UnknownBooked DEF Books
  <1>2. /\ Ids' = Ids
        /\ \A i \in Ids : /\ ops'[i].kind = ops[i].kind /\ Booked(i)
                          /\ ops'[i].complete = ops[i].complete
                          /\ ops'[i].reconciled => ops[i].reconciled \/ i \in S
    BY MarkedIntact, AcknowledgedAre DEF Intact, Alike
  <1> QED BY <1>1, <1>2, BooksKept DEF Stalled

LEMMA RecoveryBooks ==
    ASSUME TypeOK, Served, Books, TypeOK',
           \/ FinishTurn \/ Reconcile \/ Restart
           \/ \E c \in Children : FinishChild(c) \/ AbortChild(c) \/ ReconcileChild(c)
    PROVE  Books'
  <1>1. "off" \in Steps \ Paying
    BY DEF Steps, Paying
  <1>2. CASE FinishTurn
    <2> DEFINE S == {i \in Ids : Unresolved(i) /\ ops[i].owner = Parent}
    <2>1. /\ S \in SUBSET Ids /\ ops' = Marked(S) /\ MarkUnknown(S) /\ Halt(Parent, "off")
          /\ UNCHANGED <<epoch, funded, retired, performed>>
      BY <1>2 DEF FinishTurn
    <2> QED BY <1>1, <2>1, OwnersAre, StalledIs, MarkedBooks
  <1>3. CASE Reconcile
    <2> DEFINE S == {i \in Ids : Unresolved(i)}
    <2>1. /\ S \in SUBSET Ids /\ Acknowledge(S) /\ UNCHANGED runner
          /\ UNCHANGED <<epoch, funded, retired, performed>>
      BY <1>3 DEF Reconcile
    <2> QED BY <2>1, StalledIs, MarkedBooks
  <1>4. CASE Restart
    <2>1. \E S \in SUBSET Ids : ops' = Marked(S) /\ MarkUnknown(S)
      BY <1>4 DEF Restart
    <2>2. UNCHANGED <<epoch, funded, retired, performed>> /\ Stalled
      BY <1>1, <1>4 DEF Restart, Runner, Stalled, Paying
    <2> QED BY <2>1, <2>2, MarkedBooks
  <1>5. ASSUME NEW c \in Children, FinishChild(c)
        PROVE  Books'
    <2> DEFINE S == {i \in OfChild(c) : ~ops[i].complete}
    <2>1. UNCHANGED <<epoch, funded, retired, performed>> /\ Halt(c, "off")
      BY <1>5 DEF FinishChild
    <2>2. Stalled
      BY <1>1, <2>1, OwnersAre, StalledIs
    <2>3. CASE child[c] = "Cancelled"
      <3>1. S \in SUBSET Ids /\ Acknowledge(S)
        BY <1>5, <2>3 DEF FinishChild, OfChild
      <3> QED BY <2>1, <2>2, <3>1, MarkedBooks
    <2>4. CASE child[c] # "Cancelled"
      BY <1>5, <2>1, <2>2, <2>4, BooksIdle DEF FinishChild
    <2> QED BY <2>3, <2>4
  <1>6. ASSUME NEW c \in Children, AbortChild(c)
        PROVE  Books'
    <2> DEFINE S == {i \in OfChild(c) : ~ops[i].complete /\ ~ops[i].reconciled}
    <2>1. /\ S \in SUBSET Ids /\ ops' = Marked(S) /\ MarkUnknown(S) /\ Halt(c, "off")
          /\ UNCHANGED <<epoch, funded, retired, performed>>
      BY <1>6 DEF AbortChild, OfChild
    <2> QED BY <1>1, <2>1, OwnersAre, StalledIs, MarkedBooks
  <1>7. ASSUME NEW c \in Children, ReconcileChild(c)
        PROVE  Books'
    <2> DEFINE S == {i \in OfChild(c) : ~ops[i].complete}
    <2>1. /\ S \in SUBSET Ids /\ Acknowledge(S) /\ UNCHANGED runner
          /\ UNCHANGED <<epoch, funded, retired, performed>>
      BY <1>7 DEF ReconcileChild, OfChild
    <2> QED BY <2>1, StalledIs, MarkedBooks
  <1> QED BY <1>2, <1>3, <1>4, <1>5, <1>6, <1>7

\* The steps of a tool close no invocation.
LEMMA ToolBooks ==
    ASSUME TypeOK, Served, Books, TypeOK', NEW o \in Owners,
           \/ AdmitTool(o) \/ RefuseTool(o) \/ StartEffect(o) \/ RetainResult(o)
           \/ FixResult(o) \/ SettleTool(o)
    PROVE  Books'
  <1> DEFINE op == runner[o].op
  <1>1. /\ op \in Ids /\ ops[op].kind = "tool" /\ runner[o].inv \in 0..MaxOps
        /\ UNCHANGED <<epoch, funded, grants, retired, performed>>
    BY DEF AdmitTool, RefuseTool, StartEffect, RetainResult, FixResult, SettleTool, At,
           Served, Seated, SeatedAt, ToolSteps, TypeOK
  <1>2. /\ Ids' = Ids
        /\ \A i \in Ids : /\ ops'[i].kind = ops[i].kind /\ Booked(i)
                          /\ ops'[i].reconciled = ops[i].reconciled
                          /\ i # op => ops'[i].complete = ops[i].complete
    <2>1. CASE AdmitTool(o) \/ StartEffect(o) \/ FixResult(o) \/ SettleTool(o)
      BY <1>1, <2>1, SetOpIs DEF AdmitTool, StartEffect, FixResult, SettleTool, Alike
    <2>2. CASE RefuseTool(o)
      BY <2>2, RefusedIs DEF Served, Intact, Alike
    <2>3. CASE RetainResult(o)
      BY <2>3, RetainedIs DEF Served
    <2> QED BY <2>1, <2>2, <2>3
  <1>3. Stalled
    <2>1. CASE SettleTool(o)
      <3>1. 0 \in 0..MaxOps /\ "open" \in Steps \ Paying
        BY LedgerAssumption DEF Steps, Paying
      <3>2. runner'[o].step = "open" /\ \A p \in Owners : p # o => runner'[p] = runner[p]
        BY <1>1, <2>1, <3>1, RunnerIs DEF SettleTool
      <3> QED BY <3>1, <3>2 DEF Stalled
    <2>2. CASE ~SettleTool(o)
      <3>1. \E step \in Steps : /\ Goto(o, step)
                                /\ step \notin Paying \/ runner[o].step \in Paying
        BY <2>2 DEF AdmitTool, RefuseTool, StartEffect, RetainResult, FixResult, At, Steps,
                    Paying
      <3> QED BY <3>1, StalledIs
    <2> QED BY <2>1, <2>2
  <1> QED BY <1>1, <1>2, <1>3, BooksKept DEF Settled, Stalled

LEMMA FinishModelBooks ==
    ASSUME TypeOK, Served, Books, TypeOK', NEW o \in Owners, FinishModel(o)
    PROVE  Books'
  <1> DEFINE inv == runner[o].inv
  <1>1. /\ inv \in Ids /\ {inv} \in SUBSET Ids /\ MarkUnknown({inv})
        /\ UNCHANGED <<epoch, funded, retired, performed>>
    BY FinishedIs DEF FinishModel, Served
  <1>2. /\ \A e \in 1..MaxEpoch : Settled(e)
        /\ \A i \in {inv} : ops[i].kind = "model" /\ ops[i].reports = 0 /\ ops[i].epoch # 0
                              => grants'[ops[i].epoch].unknown
    BY <1>1, UnknownBooked DEF Books
  <1>3. /\ Ids' = Ids
        /\ \A i \in Ids : /\ ops'[i].kind = ops[i].kind /\ Booked(i)
                          /\ ops'[i].reconciled = ops[i].reconciled
                          /\ i # inv => ops'[i].complete = ops[i].complete
    BY FinishedIs DEF Served, Alike
  <1>4. Stalled
    <2>1. "ended" \in Steps \ Paying
      BY DEF Steps, Paying
    <2> QED BY <2>1, StalledIs DEF FinishModel
  <1> QED BY <1>1, <1>2, <1>3, <1>4, BooksKept DEF Stalled

\* The effect was due, and is due once.
LEMMA PerformBooks ==
    ASSUME TypeOK, Served, Books, TypeOK', NEW o \in Owners, PerformEffect(o)
    PROVE  Books'
  <1> DEFINE op == runner[o].op
  <1>1. /\ UNCHANGED <<ops, epoch, funded, grants, retired>> /\ At(o, "starting")
        /\ performed' = [performed EXCEPT ![op] = @ + 1]
        /\ Goto(o, "performed")
    BY DEF PerformEffect, ledger
  <1>2. Ids' = Ids /\ \A i \in Ids : ops'[i] = ops[i]
    BY <1>1 DEF Ids
  <1>3. Referenced'
    BY <1>1, <1>2 DEF Books, Referenced, Settlement
  <1>4. ASSUME NEW i \in Ids, Due(i)'
        PROVE  Due(i)
    <2>1. \A i_1 \in 1..MaxOps : i_1 # op => performed'[i_1] = performed[i_1]
      BY <1>1 DEF TypeOK
    <2>2. i \in 1..MaxOps
      BY LedgerAssumption DEF TypeOK, Ids
    <2>3. CASE i = op
      BY <1>1, <2>3 DEF Due, At, Paying
    <2>4. CASE i # op
      <3>1. \A p \in Owners : runner'[p].step \in Paying => runner'[p] = runner[p]
        <4>1. "performed" \in Steps /\ "performed" \notin Paying
          BY DEF Steps, Paying
        <4> QED BY <1>1, <4>1, GotoIs
      <3> QED BY <1>4, <2>1, <2>2, <2>4, <3>1 DEF Due
    <2> QED BY <2>3, <2>4
  <1> QED BY <1>1, <1>2, <1>3, <1>4, BooksStay DEF Booked, Settled

\* A report is booked on the allocation of its invocation.
LEMMA ReportBooks ==
    ASSUME TypeOK, Served, Books, TypeOK', NEW o \in Owners, ReportUsage(o)
    PROVE  Books'
  <1>1. runner[o].inv \in Ids
    BY DEF ReportUsage, Served, Seated, SeatedAt, At
  <1> PICK i \in Ids : i = runner[o].inv
    BY <1>1
  <1>2. /\ UNCHANGED <<epoch, funded, retired, runner, performed>>
        /\ ops' = [ops EXCEPT ![i].reports = @ + 1]
        /\ grants' = [e \in 1..MaxEpoch |-> [grants[e] EXCEPT !.reports =
                        IF e \in Settlement(ops[i].epoch) THEN @ + 1 ELSE @]]
    BY DEF ReportUsage
  <1>3. /\ i \in 1..Len(ops) /\ ops[i] \in Operation /\ ops[i].epoch \in 0..MaxEpoch
        /\ ops[i].reports \in Nat
    <2>1. i \in 1..Len(ops) /\ ops[i] \in Operation
      BY DEF TypeOK, Ids
    <2> QED BY <2>1, LedgerAssumption DEF Operation
  <1> DEFINE new == [ops[i] EXCEPT !.reports = @ + 1]
  <1>4. /\ new.reports = ops[i].reports + 1 /\ new.epoch = ops[i].epoch
        /\ new.kind = ops[i].kind /\ new.complete = ops[i].complete
        /\ new.reconciled = ops[i].reconciled
    BY <1>3 DEF Operation
  <1>5. /\ Ids' = Ids
        /\ ops'[i].reports = ops[i].reports + 1
        /\ \A j \in Ids : /\ ops'[j].epoch = ops[j].epoch /\ ops'[j].kind = ops[j].kind
                          /\ ops'[j].complete = ops[j].complete
                          /\ ops'[j].reconciled = ops[j].reconciled
                          /\ j # i => ops'[j] = ops[j]
    <2>1. ops' = [ops EXCEPT ![i] = new] /\ ops \in Seq(Operation)
      BY <1>2, <1>3 DEF TypeOK
    <2> HIDE DEF new
    <2>2. Len(ops') = Len(ops) /\ \A j \in 1..Len(ops) : ops'[j] = IF j = i THEN new ELSE ops[j]
      BY <1>3, <2>1
    <2> QED BY <1>3, <1>4, <2>2 DEF Ids
  <1>6. \A e \in 1..MaxEpoch : e \in Settlement(ops[i].epoch) <=> e = ops[i].epoch
    <2>1. CASE ops[i].epoch # 0
      <3>1. Settlement(ops[i].epoch) = {ops[i].epoch}
        BY <2>1 DEF Books, Referenced
      <3> QED BY <3>1
    <2>2. CASE ops[i].epoch = 0
      <3>1. Settlement(0) = {}
        BY DEF Settlement, TypeOK
      <3> QED BY <2>2, <3>1
    <2> QED BY <2>1, <2>2
  <1>7. ASSUME NEW e \in 1..MaxEpoch
        PROVE  /\ grants'[e].models = grants[e].models /\ grants'[e].tools = grants[e].tools
               /\ grants'[e].unknown = grants[e].unknown
               /\ grants'[e].reports = grants[e].reports + IF e = ops[i].epoch THEN 1 ELSE 0
    <2>1. grants[e] \in Grant
      BY DEF TypeOK
    <2>2. grants'[e] = [grants[e] EXCEPT !.reports =
                          IF e = ops[i].epoch THEN @ + 1 ELSE @]
      BY <1>2, <1>6
    <2> QED BY <2>1, <2>2 DEF Grant
  <1>8. Referenced'
    <2>1. ASSUME NEW j \in Ids, ops[j].epoch # 0
          PROVE  ops[j].epoch \in retired' \/ (ops[j].epoch = epoch' /\ funded')
      BY <1>2, <2>1 DEF Books, Referenced, Settlement
    <2>2. \A j \in Ids : ops'[j].epoch = ops[j].epoch
      BY <1>5
    <2> QED BY <1>5, <2>1, <2>2 DEF Referenced, Settlement
  <1>9. Charged'
    <2>1. \A e : /\ Used(e)' = Used(e) /\ Invocations(e)' = Invocations(e)
      BY <1>2, <1>5 DEF Used, Invocations, Under, Due
    <2> QED BY <1>7, <2>1 DEF Books, Charged
  <1>10. UsageHonest'
    <2> SUFFICES ASSUME NEW j \in Ids',
                        ops'[j].kind = "model", ops'[j].complete \/ ops'[j].reconciled,
                        ops'[j].reports = 0, ops'[j].epoch # 0
                 PROVE  grants'[ops'[j].epoch].unknown
      BY DEF UsageHonest
    <2>1. j \in Ids /\ j # i /\ ops'[j] = ops[j]
      BY <1>3, <1>5
    <2>2. grants[ops[j].epoch].unknown
      BY <2>1 DEF Books, UsageHonest
    <2>3. ops[j].epoch \in 1..MaxEpoch
      BY <2>1, SomeAre, LedgerAssumption DEF Operation
    <2> QED BY <1>7, <2>1, <2>2, <2>3
  <1>11. Conserved'
    <2> SUFFICES ASSUME NEW e \in 1..MaxEpoch
                 PROVE  grants'[e].reports = Reported(ops', Under(e)')
      BY DEF Conserved
    <2> DEFINE rest == Under(e) \ {i}
    <2>1. Under(e)' = Under(e)
      BY <1>5 DEF Under
    <2>2. /\ rest \in SUBSET Ids /\ rest \subseteq Ids' /\ IsFiniteSet(rest)
          /\ i \notin rest /\ \A j \in rest : ops'[j].reports = ops[j].reports
      <3>1. rest \in SUBSET Ids
        BY DEF Under
      <3> QED BY <1>5, <3>1, SomeAre
    <2>3. Reported(ops', rest) = Reported(ops, rest) /\ Reported(ops, rest) \in Nat
      BY <2>2, ReportedSame
    <2>4. grants[e].reports = Reported(ops, Under(e))
      BY DEF Books, Conserved
    <2>5. CASE e = ops[i].epoch
      <3>1. Under(e) = rest \union {i}
        BY <2>5 DEF Under
      <3>2. /\ \A j \in rest \union {i} : ops[j].reports \in Nat
            /\ \A j \in rest \union {i} : ops'[j].reports \in Nat
        BY <1>5, <2>2, SomeAre, SomeBecome
      <3> HIDE DEF rest
      <3>3. Reported(ops, rest \union {i}) = ops[i].reports + Reported(ops, rest)
        BY <2>2, <3>2, ReportedMore
      <3>4. Reported(ops', rest \union {i}) = ops'[i].reports + Reported(ops', rest)
        BY <2>2, <3>2, ReportedMore
      <3>5. grants[e].reports = ops[i].reports + Reported(ops, rest)
        BY <2>4, <3>1, <3>3
      <3>6. Reported(ops', Under(e)') = ops[i].reports + 1 + Reported(ops, rest)
        <4>1. Reported(ops', Under(e)') = Reported(ops', rest \union {i})
          BY <2>1, <3>1
        <4> QED BY <1>5, <2>3, <3>4, <4>1
      <3>7. grants'[e].reports = grants[e].reports + 1
        BY <1>7, <2>5
      <3> QED BY <1>3, <2>3, <3>5, <3>6, <3>7
    <2>6. CASE e # ops[i].epoch
      <3>1. Under(e) = rest
        BY <2>6 DEF Under
      <3>2. grants'[e].reports = grants[e].reports + 0
        BY <1>7, <2>6
      <3> QED BY <2>1, <2>3, <2>4, <3>1, <3>2
    <2> QED BY <2>5, <2>6
  <1> QED BY <1>8, <1>9, <1>10, <1>11 DEF Books

\* Before an operation is there, nothing of it is due.
LEMMA NewIsNotDue ==
    ASSUME TypeOK, Served, NEW new \in 1..MaxOps, new \notin Ids
    PROVE  ~Due(new)
  <1>1. performed[new] = 0
    BY DEF Served, Once
  <1>2. \A o \in Owners : runner[o].step \in Paying => runner[o].op \in Ids
    BY DEF Served, Seated, SeatedAt, ToolSteps, Paying
  <1> QED BY <1>1, <1>2 DEF Due

LEMMA BeginModelBooks ==
    ASSUME TypeOK, Served, Books, TypeOK', NEW o \in Owners, BeginModel(o)
    PROVE  Books'
  <1> DEFINE op == NewOp("model", o, 0, NoCall, Current)
  <1>1. /\ UNCHANGED <<epoch, funded, retired, performed>> /\ Len(ops) < MaxOps
        /\ ops' = Append(ops, op) /\ Charge(Current, "models") /\ Current \in 0..MaxEpoch
    BY CurrentIs DEF BeginModel, Served
  <1>2. PICK new \in 1..MaxOps : new = Len(ops) + 1
    BY <1>1, LedgerAssumption DEF TypeOK
  <1>3. op \in Operation
    BY <1>1, NewOpIs, LedgerAssumption
  <1>4. /\ op.kind = "model" /\ op.epoch = Current /\ op.reports = 0
        /\ ~op.complete /\ ~op.reconciled
    BY DEF NewOp
  <1> HIDE DEF op
  <1>5. /\ Ids' = Ids \union {new} /\ new \notin Ids /\ ops'[new] = op
        /\ \A i \in Ids : ops'[i] = ops[i]
    BY <1>1, <1>2, <1>3, AppendedIs
  <1>6. Stalled
    <2>1. CASE Halt(o, "ended")
      <3>1. "ended" \in Steps \ Paying
        BY DEF Steps, Paying
      <3> QED BY <2>1, <3>1, StalledIs
    <2>2. CASE runner' = [runner EXCEPT ![o] = Runner("open", new, 0)]
      <3>1. new \in 0..MaxOps /\ 0 \in 0..MaxOps /\ "open" \in Steps \ Paying
        BY LedgerAssumption DEF Steps, Paying
      <3>2. runner'[o].step = "open" /\ \A p \in Owners : p # o => runner'[p] = runner[p]
        BY <2>2, <3>1, RunnerIs
      <3> QED BY <3>1, <3>2 DEF Stalled
    <2> QED BY <1>2, <2>1, <2>2 DEF BeginModel
  <1>7. \A i \in Ids \union {new} : Due(i)' => Due(i)
    BY <1>1, <1>6 DEF Due, Stalled
  <1>8. ~Due(new)'
    BY <1>5, <1>7, NewIsNotDue
  <1>9. op.epoch # 0 => Settlement(op.epoch) = {op.epoch}
    BY <1>4 DEF Current, Settlement
  <1>10. ASSUME NEW e \in 1..MaxEpoch
         PROVE  /\ grants'[e].reports = grants[e].reports
                /\ grants'[e].unknown = grants[e].unknown
                /\ grants'[e].models = grants[e].models
                     + (IF op.epoch = e /\ op.kind = "model" THEN 1 ELSE 0)
                /\ grants'[e].tools = grants[e].tools
    <2>1. grants[e].tools \in Nat
      <3>1. grants[e] \in Grant
        BY DEF TypeOK
      <3> QED BY <3>1, LedgerAssumption DEF Grant
    <2> QED BY <1>1, <1>4, <2>1, ChargeBooked
  <1>11. /\ ops'[new].kind = "model" /\ ops'[new].epoch = op.epoch /\ ops'[new].reports = 0
         /\ ~(ops'[new].complete \/ ops'[new].reconciled)
         /\ ops'[new].epoch # 0 => Settlement(ops'[new].epoch) = {ops'[new].epoch}
    BY <1>4, <1>5, <1>9
  <1>12. \A e \in 1..MaxEpoch :
           /\ grants'[e].reports = grants[e].reports
           /\ grants'[e].unknown = grants[e].unknown
           /\ grants'[e].models = grants[e].models
                + (IF ops'[new].epoch = e /\ ops'[new].kind = "model" THEN 1 ELSE 0)
           /\ grants'[e].tools = grants[e].tools
                \/ grants'[e].tools = grants[e].tools + 1
           /\ ops'[new].epoch = e /\ Due(new)' => grants'[e].tools = grants[e].tools + 1
    BY <1>4, <1>8, <1>10, <1>11
  <1>13. UNCHANGED <<epoch, funded, retired>> /\ \A i \in Ids : Due(i)' => Due(i)
    BY <1>1, <1>7
  <1> QED BY <1>5, <1>11, <1>12, <1>13, BooksGrow

LEMMA BeginToolBooks ==
    ASSUME TypeOK, Served, Books, TypeOK', NEW o \in Owners, NEW call \in Calls,
           BeginTool(o, call) \/ DenyTool(o, call)
    PROVE  Books'
  <1>0. Len(ops) < MaxOps /\ runner[o].inv \in Ids
    BY DEF BeginTool, DenyTool, MayBegin, Served, Seated, SeatedAt, At
  <1> PICK inv \in Ids : inv = runner[o].inv
    BY <1>0
  <1> PICK new \in 1..MaxOps : new = Len(ops) + 1
    BY <1>0, LedgerAssumption DEF TypeOK
  <1>1. ops[inv] \in Operation /\ inv \in 0..MaxOps /\ ops[inv].epoch \in 0..MaxEpoch
    <2>1. ops[inv] \in Operation
      BY DEF TypeOK, Ids
    <2>2. inv \in 0..MaxOps
      BY LedgerAssumption DEF TypeOK, Ids
    <2> QED BY <2>1, <2>2 DEF Operation
  <1> PICK e \in 0..MaxEpoch : e = ops[inv].epoch
    BY <1>1
  <1> DEFINE fresh == NewOp("tool", o, inv, call, e)
             denied == [fresh EXCEPT !.complete = TRUE, !.result = "failed",
                                     !.fixed = TRUE, !.settled = TRUE]
  <1>2. /\ UNCHANGED <<epoch, funded, retired, performed>>
        /\ \/ /\ ops' = Append(ops, fresh) /\ Charge(e, "tools")
              /\ Halt(o, "ended") \/ runner' = [runner EXCEPT ![o] = Runner("begun", inv, new)]
           \/ ops' = Append(ops, denied) /\ UNCHANGED <<grants, runner>>
    BY DEF BeginTool, DenyTool
  <1>3. fresh \in Operation
    BY <1>1, NewOpIs
  <1>4. fresh.kind = "tool" /\ fresh.epoch = e /\ fresh.reports = 0
    BY DEF NewOp
  <1> HIDE DEF fresh
  <1>5. denied \in Operation /\ denied.kind = "tool" /\ denied.epoch = e /\ denied.reports = 0
    BY <1>3, <1>4 DEF Operation
  <1> HIDE DEF denied
  <1>6. /\ Ids' = Ids \union {new} /\ new \notin Ids /\ ops'[new] \in {fresh, denied}
        /\ \A i \in Ids : ops'[i] = ops[i]
    BY <1>0, <1>2, <1>3, <1>5, AppendedIs
  <1>7. ops'[new].kind = "tool" /\ ops'[new].epoch = e /\ ops'[new].reports = 0
    BY <1>4, <1>5, <1>6
  <1>8. e # 0 => Settlement(e) = {e}
    BY DEF Books, Referenced
  <1>9. \A x \in 1..MaxEpoch : grants[x].tools \in Nat /\ grants[x].models \in Nat
    <2>1. \A x \in 1..MaxEpoch : grants[x] \in Grant
      BY DEF TypeOK
    <2> QED BY <2>1, LedgerAssumption DEF Grant
  <1>10. CASE /\ ops' = Append(ops, fresh) /\ Charge(e, "tools")
              /\ Halt(o, "ended") \/ runner' = [runner EXCEPT ![o] = Runner("begun", inv, new)]
    <2>1. \A p \in Owners : runner'[p].step \in Paying =>
            runner'[p].op = new \/ runner'[p] = runner[p]
      <3>1. CASE Halt(o, "ended")
        <4>1. "ended" \in Steps /\ "ended" \notin Paying
          BY DEF Steps, Paying
        <4> QED BY <3>1, <4>1, HaltIs
      <3>2. CASE runner' = [runner EXCEPT ![o] = Runner("begun", inv, new)]
        <4>1. DOMAIN runner = Owners
          BY DEF TypeOK
        <4>2. /\ runner'[o] = Runner("begun", inv, new)
              /\ \A p \in Owners : p # o => runner'[p] = runner[p]
          BY <3>2, <4>1
        <4> QED BY <4>2 DEF Runner
      <3> QED BY <1>10, <3>1, <3>2
    <2>2. \A i \in Ids : Due(i)' => Due(i)
      BY <1>2, <1>6, <2>1 DEF Due
    <2>3. \A x \in 1..MaxEpoch :
            /\ grants'[x].reports = grants[x].reports
            /\ grants'[x].unknown = grants[x].unknown
            /\ grants'[x].models = grants[x].models + 0
            /\ grants'[x].tools = grants[x].tools + (IF x = e THEN 1 ELSE 0)
      BY <1>10, ChargeBooked
    <2>4. \A x \in 1..MaxEpoch :
            /\ grants'[x].reports = grants[x].reports
            /\ grants'[x].unknown = grants[x].unknown
            /\ grants'[x].models = grants[x].models
                 + (IF ops'[new].epoch = x /\ ops'[new].kind = "model" THEN 1 ELSE 0)
            /\ grants'[x].tools = grants[x].tools
                 \/ grants'[x].tools = grants[x].tools + 1
            /\ ops'[new].epoch = x /\ Due(new)' => grants'[x].tools = grants[x].tools + 1
      BY <1>7, <1>9, <2>3
    <2> QED BY <1>2, <1>6, <1>7, <1>8, <2>2, <2>4, BooksGrow
  <1>11. CASE ops' = Append(ops, denied) /\ UNCHANGED <<grants, runner>>
    <2>1. \A i \in Ids \union {new} : Due(i)' => Due(i)
      BY <1>2, <1>11 DEF Due
    <2>2. ~Due(new)'
      BY <1>6, <2>1, NewIsNotDue
    <2>3. \A x \in 1..MaxEpoch :
            /\ grants'[x].reports = grants[x].reports
            /\ grants'[x].unknown = grants[x].unknown
            /\ grants'[x].models = grants[x].models
                 + (IF ops'[new].epoch = x /\ ops'[new].kind = "model" THEN 1 ELSE 0)
            /\ grants'[x].tools = grants[x].tools
      BY <1>7, <1>9, <1>11
    <2> QED BY <1>2, <1>6, <1>7, <1>8, <2>1, <2>2, <2>3, BooksGrow
  <1> QED BY <1>2, <1>10, <1>11

\* The books are right from the start, and every step keeps them.
LEMMA BooksInitially ==
    ASSUME Init
    PROVE  Books
  <1>1. Ids = {} /\ \A e : Under(e) = {} /\ Used(e) = {} /\ Invocations(e) = {}
    BY DEF Init, Ids, Under, Used, Invocations
  <1>2. \A e \in 1..MaxEpoch : grants[e].models = 0 /\ grants[e].tools = 0
                               /\ grants[e].reports = 0
    BY DEF Init
  <1>3. Charged
    BY <1>1, <1>2, FS_EmptySet DEF Charged
  <1>4. Conserved
    <2> DEFINE f == [i \in {} |-> ops[i].reports]
    <2>1. IsFiniteSet({})
      BY FS_EmptySet
    <2>2. Reported(ops, {}) = SumOf(f, {})
      BY <2>1, ReportedIs
    <2>3. PICK g : Sums(g, f, {}) /\ SumOf(f, {}) = g[{}]
      BY <2>1, SumIs
    <2>4. SumOf(f, {}) = 0
      BY <2>3 DEF Sums
    <2> HIDE DEF f
    <2> QED BY <1>1, <1>2, <2>2, <2>4 DEF Conserved
  <1> QED BY <1>1, <1>3, <1>4 DEF Books, Referenced, UsageHonest

LEMMA EveryStepBooks ==
    ASSUME IInv, Books, IInv', [Next]_vars
    PROVE  Books'
  <1>1. TypeOK /\ Served /\ TypeOK'
    BY DEF IInv
  <1>2. CASE UNCHANGED vars
    BY <1>1, <1>2, IdleBooks
  <1>3. CASE \/ OpenTurn \/ FinishTurn \/ Reconcile \/ Archive \/ Allocate \/ Restart
             \/ \E c \in Children :
                  \/ StartChild(c) \/ CancelChild(c) \/ FinishChild(c) \/ AbortChild(c)
                  \/ ReconcileChild(c)
    BY <1>1, <1>3, IdleBooks, AllocationBooks, RecoveryBooks
  <1>4. ASSUME NEW o \in Owners,
               \/ EndResponse(o) \/ Drop(o) \/ \E call \in Calls : RepeatTool(o, call)
        PROVE  Books'
    BY <1>1, <1>4, IdleBooks
  <1>5. ASSUME NEW o \in Owners,
               \/ AdmitTool(o) \/ RefuseTool(o) \/ StartEffect(o) \/ RetainResult(o)
               \/ FixResult(o) \/ SettleTool(o)
        PROVE  Books'
    BY <1>1, <1>5, ToolBooks
  <1>6. ASSUME NEW o \in Owners,
               \/ BeginModel(o) \/ ReportUsage(o) \/ FinishModel(o) \/ PerformEffect(o)
               \/ \E call \in Calls : BeginTool(o, call) \/ DenyTool(o, call)
        PROVE  Books'
    BY <1>1, <1>6, BeginModelBooks, ReportBooks, FinishModelBooks, PerformBooks,
       BeginToolBooks
  <1> QED BY <1>2, <1>3, <1>4, <1>5, <1>6 DEF Next

LEMMA BooksAlways == Spec => []Books
  BY BooksInitially, EveryStepBooks, Always, PTL DEF Spec

\* EffectsAreCharged for any agents, calls, allowances and bounds: the allowance is
\* never exceeded, and what was charged covers every effect and every invocation
\* (workflow/allocation.rs, runtime/budget_accounting.rs, tools.rs).
THEOREM EffectsAreChargedHolds == Spec => []EffectsAreCharged
  <1>1. ASSUME IInv, Books
        PROVE  EffectsAreCharged
    <2>1. TypeOK
      BY <1>1 DEF IInv
    <2>2. ASSUME NEW e \in 1..MaxEpoch
          PROVE  /\ grants[e].models <= ModelLimit /\ grants[e].tools <= ToolLimit
                 /\ SumOf(performed, Under(e)) <= grants[e].tools
                 /\ Cardinality(Invocations(e)) = grants[e].models
      <3>1. grants[e] \in Grant
        BY <2>1 DEF TypeOK
      <3>2. /\ grants[e].models <= ModelLimit /\ grants[e].tools <= ToolLimit
            /\ grants[e].tools \in Nat
        BY <3>1, LedgerAssumption DEF Grant
      <3>3. /\ Under(e) \in SUBSET Ids /\ Used(e) \in SUBSET Ids
            /\ {i \in Under(e) : performed[i] = 1} \subseteq Used(e)
        BY DEF Under, Used, Due
      <3>4. /\ IsFiniteSet(Under(e)) /\ IsFiniteSet(Used(e)) /\ Cardinality(Used(e)) \in Nat
        BY <2>1, <3>3, SomeAre
      <3>5. \A i \in Under(e) : performed[i] \in {0, 1}
        <4>1. Ids \subseteq 1..MaxOps
          BY <2>1, LedgerAssumption DEF TypeOK, Ids
        <4> QED BY <1>1, <3>3, <4>1 DEF IInv, Served, Once
      <3>6. SumOf(performed, Under(e)) = Cardinality({i \in Under(e) : performed[i] = 1})
        BY <3>4, <3>5, SumOfOnes
      <3>7. /\ Cardinality({i \in Under(e) : performed[i] = 1}) <= Cardinality(Used(e))
            /\ Cardinality({i \in Under(e) : performed[i] = 1}) \in Nat
        <4>1. {i \in Under(e) : performed[i] = 1} \in SUBSET Ids
          BY <3>3
        <4> QED BY <2>1, <3>3, <3>4, <4>1, SomeAre, FS_Subset
      <3>8. /\ Cardinality(Used(e)) <= grants[e].tools
            /\ Cardinality(Invocations(e)) = grants[e].models
        BY <1>1 DEF Books, Charged
      <3> QED BY <3>2, <3>4, <3>6, <3>7, <3>8
    <2>3. \A e : {i \in Ids : ops[i].epoch = e} = Under(e)
      BY DEF Under
    <2>4. \A e : {i \in Ids : ops[i].kind = "model" /\ ops[i].epoch = e} = Invocations(e)
      BY DEF Under, Invocations
    <2> QED BY <2>2, <2>3, <2>4 DEF EffectsAreCharged, SumOf
  <1> QED BY <1>1, Always, BooksAlways, PTL

\* UsageAccounted for any agents, calls and bounds: every report is booked once, on the
\* allocation of its invocation, and a missing one shows (budget_accounting.rs).
THEOREM UsageAccountedHolds == Spec => []UsageAccounted
  <1>1. Books => UsageAccounted
    BY DEF Books, Conserved, Under, Reported, UsageAccounted, UsageConserved
  <1> QED BY <1>1, BooksAlways, PTL

===============================================================================
