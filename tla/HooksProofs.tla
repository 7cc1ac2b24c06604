------------------------------ MODULE HooksProofs ------------------------------
(***************************************************************************)
(* Proofs about the hooks of plugins.  First PluginHooks, for every finite *)
(* set of events and any number of activations: the hooks keep what        *)
(* OneShot promises.  Then ToolAdmission, for every plan, any candidates   *)
(* and any files to read: whoever matches the call that has an effect was  *)
(* heard on it.                                                            *)
(***************************************************************************)
EXTENDS PluginHooks, ToolAdmission, TLAPS, WellFoundedInduction

-----------------------------------------------------------------------------
(* PluginHooks.                                                            *)

Pipe == [step : Steps, kind : Kinds, bound : 0..MaxEpoch, result : Results]
Attempt == [state : States, epoch : 0..MaxEpoch, attested : BOOLEAN, transferred : BOOLEAN]
Runner == {"none", "live", "cleanup"}
InPipeline == {"reserved", "running", "returned", "retained"}

\* What OneShot sees of one event with pipeline p, attempt a and runner r.
Open(a) == a.state \in {"reserved", "unknown"} /\ ~a.attested
Active(p, a, r) ==
    /\ a.state # "none"
    /\ r # "none" \/ (Open(a) /\ (p.step \in InPipeline \/ a.transferred))
Plain(p, a, r) ==
    /\ a.state = "none"
    /\ r # "none" \/ p.step \in {"reserved", "running"}
Won(a) == a.state = "succeeded" /\ a.epoch = epoch

\* How the three of them go together.
Coherent(p, a, r) ==
    /\ r = "live" => p.step = "running" \/ a.transferred
    /\ p.step \in {"idle", "planned"} => a.state = "none" /\ r = "none" /\ ~a.transferred
    /\ p.step \in InPipeline \union {"dropped"} => (p.bound = 0 <=> a.state = "none")
    /\ p.step \in InPipeline => ~a.attested
    /\ p.step \in {"reserved", "running", "returned"} => a.state \in {"none", "reserved"}
    /\ p.step = "retained" => /\ a.state \in {"none", "unknown"}
                              /\ p.kind \in {"post", "control"}
    /\ p.step = "dropped" => a.state \in {"none", "reserved", "unknown"}
    /\ p.step = "running" => r = "live"
    /\ p.step = "reserved" => r = "none"
    /\ p.step \in {"returned", "retained"} /\ r # "none" => p.result = "lost"
    /\ a.transferred => p.step = "done" /\ r = "live" /\ a.state \in {"none", "reserved"}
    /\ a.state = "none" => ~a.attested
    /\ a.state # "none" /\ r # "none" => Open(a)
    /\ Open(a) => a.epoch = epoch
    /\ a.epoch <= epoch
Sound(e) == Coherent(pipe[e], attempt[e], runner[e])

\* Effects that nobody has settled or attested are of one attempt.
OneOpen == \A e, f \in Events : Open(attempt[e]) /\ Open(attempt[f]) => e = f

Typed == /\ epoch \in 0..MaxEpoch /\ held \in BOOLEAN
         /\ pipe \in [Events -> Pipe] /\ runner \in [Events -> Runner]
         /\ attempt \in [Events -> Attempt]
IInv == Typed /\ (\A e \in Events : Sound(e)) /\ OneOpen

-----------------------------------------------------------------------------
(* The abstract variables, event by event.                                 *)

LEMMA Views ==
    /\ RunningOnce = {e \in Events : Active(pipe[e], attempt[e], runner[e])}
    /\ RunningPlain = {e \in Events : Plain(pipe[e], attempt[e], runner[e])}
    /\ UnknownRuns = {e \in Events : Open(attempt[e])} \ RunningOnce
    /\ IsConsumed <=> \E e \in Events : Won(attempt[e])
    /\ \A e \in Events : Unresolved(e) <=> Open(attempt[e])
  BY DEF RunningOnce, RunningPlain, UnknownRuns, IsConsumed, HasAttempt, Unresolved, Settler,
         Active, Plain, Open, Won, InPipeline

LEMMA ViewsAfter ==
    /\ RunningOnce' = {e \in Events : Active(pipe'[e], attempt'[e], runner'[e])}
    /\ RunningPlain' = {e \in Events : Plain(pipe'[e], attempt'[e], runner'[e])}
    /\ UnknownRuns' = {e \in Events : Open(attempt'[e])} \ RunningOnce'
    /\ IsConsumed' <=> \E e \in Events : Won(attempt[e])'
  BY DEF RunningOnce, RunningPlain, UnknownRuns, IsConsumed, HasAttempt, Unresolved, Settler,
         Active, Plain, Open, Won, InPipeline

\* When nothing is unresolved, nothing runs and nothing is unknown.
LEMMA NothingOpen ==
    ASSUME \A e \in Events : Sound(e), \A e \in Events : ~Open(attempt[e])
    PROVE  RunningOnce = {} /\ UnknownRuns = {}
  BY Views DEF Sound, Coherent, Active

\* What becomes of one event, as OneShot sees it.
Keeps(p, a, r, q, b, s) ==
    /\ Active(q, b, s) <=> Active(p, a, r)
    /\ Plain(q, b, s) => Plain(p, a, r)
    /\ Open(b) <=> Open(a)
    /\ Won(b) <=> Won(a)
Loses(p, a, r, q, b, s) ==
    /\ Active(p, a, r) /\ ~Active(q, b, s) /\ ~Plain(q, b, s)
    /\ Open(b) /\ ~Won(b) /\ ~Won(a) /\ Open(a)
Fails(p, a, r, q, b, s) ==
    /\ Active(p, a, r) /\ ~Active(q, b, s) /\ ~Plain(q, b, s) /\ ~Open(b)
    /\ ~Won(b) /\ ~Won(a) /\ ~Plain(p, a, r)
Succeeds(p, a, r, q, b, s) ==
    /\ Active(p, a, r) /\ ~Active(q, b, s) /\ ~Plain(q, b, s) /\ ~Open(b) /\ Won(b)
    /\ ~Plain(p, a, r)
Concludes(p, a, r, q, b, s) ==
    /\ Open(a) /\ ~Active(p, a, r) /\ ~Plain(p, a, r)
    /\ ~Active(q, b, s) /\ ~Plain(q, b, s) /\ ~Open(b) /\ ~Won(b) /\ ~Won(a)
Starts(p, a, r, q, b, s) ==
    /\ \A e \in Events : ~Open(attempt[e]) /\ ~Won(attempt[e])
    /\ Active(q, b, s) /\ ~Plain(p, a, r) /\ ~Plain(q, b, s) /\ ~Won(b)
StartsPlain(p, a, r, q, b, s) ==
    /\ \A e \in Events : ~Open(attempt[e])
    /\ ~Active(q, b, s) /\ Plain(q, b, s) /\ ~Open(b) /\ ~Won(a) /\ ~Won(b)

Moves(p, a, r, q, b, s) ==
    \/ Keeps(p, a, r, q, b, s) \/ Loses(p, a, r, q, b, s) \/ Fails(p, a, r, q, b, s)
    \/ Succeeds(p, a, r, q, b, s) \/ Concludes(p, a, r, q, b, s)
    \/ Starts(p, a, r, q, b, s) \/ StartsPlain(p, a, r, q, b, s)

\* A step of the program, as one of the promise.
Promised == [Promise!Next]_Promise!vars

LEMMA OneEvent ==
    ASSUME IInv, NEW e \in Events, NEW q \in Pipe, NEW b \in Attempt, NEW s \in Runner,
           pipe' = [pipe EXCEPT ![e] = q], attempt' = [attempt EXCEPT ![e] = b],
           runner' = [runner EXCEPT ![e] = s], epoch' = epoch, held' \in BOOLEAN,
           Coherent(q, b, s),
           Moves(pipe[e], attempt[e], runner[e], q, b, s)
    PROVE  IInv' /\ Promised
  <1> DEFINE p == pipe[e]
             a == attempt[e]
             r == runner[e]
  <1>1. /\ Typed' /\ pipe'[e] = q /\ attempt'[e] = b /\ runner'[e] = s
        /\ \A f \in Events \ {e} : /\ pipe'[f] = pipe[f] /\ attempt'[f] = attempt[f]
                                   /\ runner'[f] = runner[f]
    BY DEF IInv, Typed
  <1>2. \A f \in Events : Sound(f)'
    BY <1>1 DEF IInv, Sound, Coherent, Open
  <1>3. Open(b) => Open(a) \/ \A f \in Events : ~Open(attempt[f])
    BY DEF Moves, Keeps, Loses, Fails, Succeeds, Concludes, Starts, StartsPlain
  <1>4. OneOpen'
    BY <1>1, <1>3 DEF IInv, OneOpen, Open
  <1>5. \A f \in Events \ {e} : Won(attempt[f])' <=> Won(attempt[f])
    BY <1>1 DEF Won
  <1>6. Won(attempt[e])' <=> Won(b)
    BY <1>1 DEF Won
  <1> HIDE DEF Active, Plain, Open, Won
  <1>7. CASE Keeps(p, a, r, q, b, s)
    <2>1. RunningOnce' = RunningOnce
      BY <1>1, <1>7, Views, ViewsAfter DEF Keeps
    <2>2. RunningPlain' \subseteq RunningPlain
      BY <1>1, <1>7, Views, ViewsAfter DEF Keeps
    <2>3. UnknownRuns' = UnknownRuns
      BY <1>1, <1>7, <2>1, Views, ViewsAfter DEF Keeps
    <2>4. IsConsumed' = IsConsumed
      BY <1>5, <1>6, <1>7, Views, ViewsAfter DEF Keeps, IsConsumed
    <2> QED BY <1>1, <1>2, <1>4, <2>1, <2>2, <2>3, <2>4
            DEF IInv, Promised, Promise!Next, Promise!EndPlain
  <1>8. CASE Loses(p, a, r, q, b, s)
    <2>1. RunningOnce' = RunningOnce \ {e} /\ e \in RunningOnce
      BY <1>1, <1>8, Views, ViewsAfter DEF Loses
    <2>2. RunningPlain' \subseteq RunningPlain
      BY <1>1, <1>8, Views, ViewsAfter DEF Loses
    <2>3. UnknownRuns' = UnknownRuns \union {e}
      BY <1>1, <1>8, <2>1, Views, ViewsAfter DEF Loses
    <2>4. IsConsumed' = IsConsumed
      BY <1>5, <1>6, <1>8, Views, ViewsAfter DEF Loses, IsConsumed
    <2> QED BY <1>1, <1>2, <1>4, <2>1, <2>2, <2>3, <2>4
            DEF IInv, Promised, Promise!Next, Promise!Lose
  <1>9. CASE Fails(p, a, r, q, b, s)
    <2>1. RunningOnce' = RunningOnce \ {e} /\ e \in RunningOnce
      BY <1>1, <1>9, Views, ViewsAfter DEF Fails
    <2>2. RunningPlain' = RunningPlain
      BY <1>1, <1>9, Views, ViewsAfter DEF Fails
    <2>3. UnknownRuns' = UnknownRuns
      BY <1>1, <1>9, <2>1, Views, ViewsAfter DEF Fails
    <2>4. IsConsumed' = IsConsumed
      BY <1>5, <1>6, <1>9, Views, ViewsAfter DEF Fails, IsConsumed
    <2> QED BY <1>1, <1>2, <1>4, <2>1, <2>2, <2>3, <2>4
            DEF IInv, Promised, Promise!Next, Promise!Fail
  <1>10. CASE Succeeds(p, a, r, q, b, s)
    <2>1. RunningOnce' = RunningOnce \ {e} /\ e \in RunningOnce
      BY <1>1, <1>10, Views, ViewsAfter DEF Succeeds
    <2>2. RunningPlain' = RunningPlain
      BY <1>1, <1>10, Views, ViewsAfter DEF Succeeds
    <2>3. UnknownRuns' = UnknownRuns
      BY <1>1, <1>10, <2>1, Views, ViewsAfter DEF Succeeds
    <2>4. IsConsumed' = TRUE
      BY <1>6, <1>10, ViewsAfter DEF Succeeds, IsConsumed
    <2> QED BY <1>1, <1>2, <1>4, <2>1, <2>2, <2>3, <2>4
            DEF IInv, Promised, Promise!Next, Promise!Succeed
  <1>11. CASE Concludes(p, a, r, q, b, s)
    <2>1. RunningOnce' = RunningOnce
      BY <1>1, <1>11, Views, ViewsAfter DEF Concludes
    <2>2. RunningPlain' = RunningPlain
      BY <1>1, <1>11, Views, ViewsAfter DEF Concludes
    <2>3. UnknownRuns' = UnknownRuns \ {e} /\ e \in UnknownRuns
      BY <1>1, <1>11, <2>1, Views, ViewsAfter DEF Concludes
    <2>4. IsConsumed' = IsConsumed
      BY <1>5, <1>6, <1>11, Views, ViewsAfter DEF Concludes, IsConsumed
    <2> QED BY <1>1, <1>2, <1>4, <2>1, <2>2, <2>3, <2>4
            DEF IInv, Promised, Promise!Next, Promise!Conclude
  <1>12. CASE Starts(p, a, r, q, b, s)
    <2>1. RunningOnce = {} /\ UnknownRuns = {}
      BY <1>12, NothingOpen DEF Starts, IInv
    <2>2. RunningOnce' = {e}
      BY <1>1, <1>12, <2>1, Views, ViewsAfter DEF Starts
    <2>3. RunningPlain' = RunningPlain
      BY <1>1, <1>12, Views, ViewsAfter DEF Starts
    <2>4. UnknownRuns' = {}
      BY <1>1, <1>12, <2>2, ViewsAfter DEF Starts
    <2>5. IsConsumed = FALSE /\ IsConsumed' = FALSE
      BY <1>5, <1>6, <1>12, Views, ViewsAfter DEF Starts, IsConsumed
    <2> QED BY <1>1, <1>2, <1>4, <2>1, <2>2, <2>3, <2>4, <2>5
            DEF IInv, Promised, Promise!Next, Promise!Start, Promise!Quiet
  <1>13. CASE StartsPlain(p, a, r, q, b, s)
    <2>1. RunningOnce = {} /\ UnknownRuns = {}
      BY <1>13, NothingOpen DEF StartsPlain, IInv
    <2>2. RunningOnce' = {}
      BY <1>1, <1>13, <2>1, Views, ViewsAfter DEF StartsPlain
    <2>3. RunningPlain' = RunningPlain \union {e}
      BY <1>1, <1>13, Views, ViewsAfter DEF StartsPlain
    <2>4. UnknownRuns' = {}
      BY <1>1, <1>13, ViewsAfter DEF StartsPlain
    <2>5. IsConsumed' = IsConsumed
      BY <1>5, <1>6, <1>13, Views, ViewsAfter DEF StartsPlain, IsConsumed
    <2> QED BY <1>1, <1>2, <1>4, <2>1, <2>2, <2>3, <2>4, <2>5
            DEF IInv, Promised, Promise!Next, Promise!StartPlain, Promise!Quiet
  <1> QED BY <1>7, <1>8, <1>9, <1>10, <1>11, <1>12, <1>13 DEF Moves

-----------------------------------------------------------------------------
(* One lemma per operation on an event: what it writes is coherent, and is *)
(* a move that the promise allows.                                         *)

LEMMA Before ==
    ASSUME IInv, NEW e \in Events
    PROVE  /\ pipe[e] \in Pipe /\ attempt[e] \in Attempt /\ runner[e] \in Runner
           /\ Coherent(pipe[e], attempt[e], runner[e])
           /\ pipe = [pipe EXCEPT ![e] = pipe[e]]
           /\ attempt = [attempt EXCEPT ![e] = attempt[e]]
           /\ runner = [runner EXCEPT ![e] = runner[e]]
           /\ epoch \in 0..MaxEpoch /\ MaxEpoch \in Nat \ {0} /\ held \in BOOLEAN
  <1>1. Typed /\ Sound(e)
    BY DEF IInv
  <1>2. pipe[e] \in Pipe /\ attempt[e] \in Attempt /\ runner[e] \in Runner
    BY <1>1 DEF Typed
  <1>3. /\ pipe = [pipe EXCEPT ![e] = pipe[e]]
        /\ attempt = [attempt EXCEPT ![e] = attempt[e]]
        /\ runner = [runner EXCEPT ![e] = runner[e]]
    BY <1>1 DEF Typed
  <1> QED BY <1>1, <1>2, <1>3, PluginHooksAssumption DEF Typed, Sound

LEMMA OverFacts ==
    /\ Over \in Pipe /\ Over.step = "done" /\ Over.kind = "pre" /\ Over.bound = 0
    /\ Over.result = "none"
  BY PluginHooksAssumption DEF Over, Pipe, Steps, Kinds, Results

\* An event arrives with its plan.
LEMMA PlanKeeps ==
    ASSUME IInv, NEW e \in Events, Plan(e)
    PROVE  IInv' /\ Promised
  <1> PICK bound \in {0, epoch} :
          pipe' = [pipe EXCEPT ![e].step = "planned", ![e].bound = bound]
    BY DEF Plan
  <1> DEFINE p == pipe[e]
             a == attempt[e]
             r == runner[e]
             q == [pipe[e] EXCEPT !.step = "planned", !.bound = bound]
             b == attempt[e]
             s == runner[e]
  <1>0. pipe' = [pipe EXCEPT ![e] = q]
    OBVIOUS
  <1>1. /\ p \in Pipe /\ a \in Attempt /\ r \in Runner /\ Coherent(p, a, r)
        /\ epoch \in 0..MaxEpoch /\ MaxEpoch \in Nat \ {0} /\ held \in BOOLEAN
    BY Before
  <1>2. p.step = "idle"
    BY <1>1 DEF Plan, Pipe, Attempt
  <1>3. /\ pipe' = [pipe EXCEPT ![e] = q] /\ attempt' = [attempt EXCEPT ![e] = b]
        /\ runner' = [runner EXCEPT ![e] = s] /\ epoch' = epoch /\ held' \in BOOLEAN
    BY <1>0, <1>1, <1>2, Before DEF Plan
  <1>4. /\ q \in Pipe /\ q.step = "planned" /\ q.bound = bound
    BY <1>1, <1>2, OverFacts DEF Pipe, Steps, Kinds, Results
  <1>5. b \in Attempt /\ b = a
    BY <1>1, <1>2 DEF Attempt, States
  <1>6. s \in Runner /\ s = r
    BY <1>1 DEF Runner
  <1> HIDE DEF p, a, r, q, b, s
  <1>7. Coherent(q, b, s)
    BY <1>1, <1>2, <1>4, <1>5, <1>6 DEF Coherent, Open, InPipeline, Pipe, Attempt, Runner
  <1>8. Moves(p, a, r, q, b, s)
    BY <1>1, <1>2, <1>4, <1>5, <1>6 DEF Moves, Keeps,
       Active, Plain, Won, Coherent, Open, InPipeline, Pipe, Attempt, Runner
  <1> QED BY <1>3, <1>4, <1>5, <1>6, <1>7, <1>8, OneEvent DEF p, a, r

\* A reservation is refused.
LEMMA RefusedKeeps ==
    ASSUME IInv, NEW e \in Events, ReserveRefused(e)
    PROVE  IInv' /\ Promised
  <1> DEFINE p == pipe[e]
             a == attempt[e]
             r == runner[e]
             q == Over
             b == attempt[e]
             s == runner[e]
  <1>1. /\ p \in Pipe /\ a \in Attempt /\ r \in Runner /\ Coherent(p, a, r)
        /\ epoch \in 0..MaxEpoch /\ MaxEpoch \in Nat \ {0} /\ held \in BOOLEAN
    BY Before
  <1>2. p.step = "planned"
    BY <1>1 DEF ReserveRefused, End, Pipe, Attempt
  <1>3. /\ pipe' = [pipe EXCEPT ![e] = q] /\ attempt' = [attempt EXCEPT ![e] = b]
        /\ runner' = [runner EXCEPT ![e] = s] /\ epoch' = epoch /\ held' \in BOOLEAN
    BY <1>1, <1>2, Before DEF ReserveRefused, End
  <1>4. /\ q \in Pipe /\ q.step = "done"
    BY <1>1, <1>2, OverFacts DEF Pipe, Steps, Kinds, Results
  <1>5. b \in Attempt /\ b = a
    BY <1>1, <1>2 DEF Attempt, States
  <1>6. s \in Runner /\ s = r
    BY <1>1 DEF Runner
  <1> HIDE DEF p, a, r, q, b, s
  <1>7. Coherent(q, b, s)
    BY <1>1, <1>2, <1>4, <1>5, <1>6 DEF Coherent, Open, InPipeline, Pipe, Attempt, Runner
  <1>8. Moves(p, a, r, q, b, s)
    BY <1>1, <1>2, <1>4, <1>5, <1>6 DEF Moves, Keeps,
       Active, Plain, Won, Coherent, Open, InPipeline, Pipe, Attempt, Runner
  <1> QED BY <1>3, <1>4, <1>5, <1>6, <1>7, <1>8, OneEvent DEF p, a, r

\* Its runner starts.
LEMMA LaunchKeeps ==
    ASSUME IInv, NEW e \in Events, Launch(e)
    PROVE  IInv' /\ Promised
  <1> DEFINE p == pipe[e]
             a == attempt[e]
             r == runner[e]
             q == [pipe[e] EXCEPT !.step = "running"]
             b == attempt[e]
             s == "live"
  <1>1. /\ p \in Pipe /\ a \in Attempt /\ r \in Runner /\ Coherent(p, a, r)
        /\ epoch \in 0..MaxEpoch /\ MaxEpoch \in Nat \ {0} /\ held \in BOOLEAN
    BY Before
  <1>2. p.step = "reserved"
    BY <1>1 DEF Launch, Step, Pipe, Attempt
  <1>3. /\ pipe' = [pipe EXCEPT ![e] = q] /\ attempt' = [attempt EXCEPT ![e] = b]
        /\ runner' = [runner EXCEPT ![e] = s] /\ epoch' = epoch /\ held' \in BOOLEAN
    BY <1>1, <1>2, Before DEF Launch, Step
  <1>4. /\ q \in Pipe /\ q.step = "running" /\ q.kind = p.kind /\ q.bound = p.bound
        /\ q.result = p.result
    BY <1>1, <1>2, OverFacts DEF Pipe, Steps, Kinds, Results
  <1>5. b \in Attempt /\ b = a
    BY <1>1, <1>2 DEF Attempt, States
  <1>6. s \in Runner /\ s = "live"
    BY <1>1 DEF Runner
  <1> HIDE DEF p, a, r, q, b, s
  <1>7. Coherent(q, b, s)
    BY <1>1, <1>2, <1>4, <1>5, <1>6 DEF Coherent, Open, InPipeline, Pipe, Attempt, Runner
  <1>8. Moves(p, a, r, q, b, s)
    BY <1>1, <1>2, <1>4, <1>5, <1>6 DEF Moves, Keeps,
       Active, Plain, Won, Coherent, Open, InPipeline, Pipe, Attempt, Runner
  <1> QED BY <1>3, <1>4, <1>5, <1>6, <1>7, <1>8, OneEvent DEF p, a, r

\* Its runner ends.
LEMMA ReturnsKeeps ==
    ASSUME IInv, NEW e \in Events, Returns(e)
    PROVE  IInv' /\ Promised
  <1> PICK result \in Results \ {"none"} :
          /\ pipe' = [pipe EXCEPT ![e].step = "returned", ![e].result = result]
          /\ \E rest \in IF result = "lost" THEN {"none", "cleanup"} ELSE {"none"} :
                runner' = [runner EXCEPT ![e] = rest]
    BY DEF Returns
  <1> PICK rest \in IF result = "lost" THEN {"none", "cleanup"} ELSE {"none"} :
          runner' = [runner EXCEPT ![e] = rest]
    OBVIOUS
  <1> DEFINE p == pipe[e]
             a == attempt[e]
             r == runner[e]
             q == [pipe[e] EXCEPT !.step = "returned", !.result = result]
             b == attempt[e]
             s == rest
  <1>0. pipe' = [pipe EXCEPT ![e] = q]
    OBVIOUS
  <1>1. /\ p \in Pipe /\ a \in Attempt /\ r \in Runner /\ Coherent(p, a, r)
        /\ epoch \in 0..MaxEpoch /\ MaxEpoch \in Nat \ {0} /\ held \in BOOLEAN
    BY Before
  <1>2. p.step = "running" /\ r = "live"
    BY <1>1 DEF Returns, Pipe, Attempt
  <1>3. /\ pipe' = [pipe EXCEPT ![e] = q] /\ attempt' = [attempt EXCEPT ![e] = b]
        /\ runner' = [runner EXCEPT ![e] = s] /\ epoch' = epoch /\ held' \in BOOLEAN
    BY <1>0, <1>1, <1>2, Before DEF Returns
  <1>4. /\ q \in Pipe /\ q.step = "returned" /\ q.kind = p.kind /\ q.bound = p.bound
        /\ q.result = result
    BY <1>1, <1>2, OverFacts DEF Pipe, Steps, Kinds, Results
  <1>5. b \in Attempt /\ b = a
    BY <1>1, <1>2 DEF Attempt, States
  <1>6. s \in Runner /\ s = rest
    BY <1>1 DEF Runner
  <1> HIDE DEF p, a, r, q, b, s
  <1>7. Coherent(q, b, s)
    BY <1>1, <1>2, <1>4, <1>5, <1>6 DEF Coherent, Open, InPipeline, Pipe, Attempt, Runner
  <1>8. Moves(p, a, r, q, b, s)
    BY <1>1, <1>2, <1>4, <1>5, <1>6 DEF Moves, Keeps,
       Active, Plain, Won, Coherent, Open, InPipeline, Pipe, Attempt, Runner
  <1> QED BY <1>3, <1>4, <1>5, <1>6, <1>7, <1>8, OneEvent DEF p, a, r

\* Its clean-up ends.
LEMMA CleanupKeeps ==
    ASSUME IInv, NEW e \in Events, CleanupEnds(e)
    PROVE  IInv' /\ Promised
  <1> DEFINE p == pipe[e]
             a == attempt[e]
             r == runner[e]
             q == pipe[e]
             b == attempt[e]
             s == "none"
  <1>1. /\ p \in Pipe /\ a \in Attempt /\ r \in Runner /\ Coherent(p, a, r)
        /\ epoch \in 0..MaxEpoch /\ MaxEpoch \in Nat \ {0} /\ held \in BOOLEAN
    BY Before
  <1>2. r = "cleanup"
    BY <1>1 DEF CleanupEnds, Pipe, Attempt
  <1>3. /\ pipe' = [pipe EXCEPT ![e] = q] /\ attempt' = [attempt EXCEPT ![e] = b]
        /\ runner' = [runner EXCEPT ![e] = s] /\ epoch' = epoch /\ held' \in BOOLEAN
    BY <1>1, <1>2, Before DEF CleanupEnds
  <1>4. q \in Pipe /\ q = p
    BY <1>1, <1>2, OverFacts DEF Pipe, Steps, Kinds, Results
  <1>5. b \in Attempt /\ b = a
    BY <1>1, <1>2 DEF Attempt, States
  <1>6. s \in Runner /\ s = "none"
    BY <1>1 DEF Runner
  <1> HIDE DEF p, a, r, q, b, s
  <1>7. Coherent(q, b, s)
    BY <1>1, <1>2, <1>4, <1>5, <1>6 DEF Coherent, Open, InPipeline, Pipe, Attempt, Runner
  <1>8. Moves(p, a, r, q, b, s)
    BY <1>1, <1>2, <1>4, <1>5, <1>6 DEF Moves, Keeps, Loses,
       Active, Plain, Won, Coherent, Open, InPipeline, Pipe, Attempt, Runner
  <1> QED BY <1>3, <1>4, <1>5, <1>6, <1>7, <1>8, OneEvent DEF p, a, r

\* A raw outcome before a tool is retained and settled.
LEMMA FinishPluginKeeps ==
    ASSUME IInv, NEW e \in Events, FinishPluginHook(e)
    PROVE  IInv' /\ Promised
  <1> DEFINE p == pipe[e]
             a == attempt[e]
             r == runner[e]
             q == Over
             b == IF pipe[e].bound = 0 THEN attempt[e]
                  ELSE [attempt[e] EXCEPT !.state = Verdict(pipe[e].result, TRUE)]
             s == runner[e]
  <1>1. /\ p \in Pipe /\ a \in Attempt /\ r \in Runner /\ Coherent(p, a, r)
        /\ epoch \in 0..MaxEpoch /\ MaxEpoch \in Nat \ {0} /\ held \in BOOLEAN
    BY Before
  <1>2. /\ p.step = "returned"
        /\ Verdict(p.result, TRUE) \in {"unknown", "succeeded", "failed"}
        /\ (Verdict(p.result, TRUE) = "unknown" <=> p.result = "lost")
    BY <1>1 DEF FinishPluginHook, Retain, End, Verdict, Pipe, Attempt
  <1>3. /\ pipe' = [pipe EXCEPT ![e] = q] /\ attempt' = [attempt EXCEPT ![e] = b]
        /\ runner' = [runner EXCEPT ![e] = s] /\ epoch' = epoch /\ held' \in BOOLEAN
    BY <1>1, <1>2, Before DEF FinishPluginHook, Retain, End, Verdict
  <1>4. /\ q \in Pipe /\ q.step = "done"
    BY <1>1, <1>2, OverFacts DEF Pipe, Steps, Kinds, Results
  <1>5. /\ b \in Attempt /\ b.epoch = a.epoch /\ (p.bound = 0 => b.state = a.state)
        /\ (p.bound # 0 => b.state = Verdict(p.result, TRUE))
        /\ b.attested = a.attested /\ b.transferred = a.transferred
    BY <1>1, <1>2 DEF Attempt, States
  <1>6. s \in Runner /\ s = r
    BY <1>1 DEF Runner
  <1> HIDE DEF p, a, r, q, b, s
  <1>7. Coherent(q, b, s)
    BY <1>1, <1>2, <1>4, <1>5, <1>6 DEF Coherent, Open, InPipeline, Pipe, Attempt, Runner
  <1>8. Moves(p, a, r, q, b, s)
    BY <1>1, <1>2, <1>4, <1>5, <1>6 DEF Moves, Keeps, Loses, Fails, Succeeds,
       Active, Plain, Won, Coherent, Open, InPipeline, Pipe, Attempt, Runner
  <1> QED BY <1>3, <1>4, <1>5, <1>6, <1>7, <1>8, OneEvent DEF p, a, r

\* A raw outcome is retained as unknown.
LEMMA FinishPostKeeps ==
    ASSUME IInv, NEW e \in Events, FinishPostHook(e)
    PROVE  IInv' /\ Promised
  <1> DEFINE p == pipe[e]
             a == attempt[e]
             r == runner[e]
             q == [pipe[e] EXCEPT !.step = "retained"]
             b == IF pipe[e].bound = 0 THEN attempt[e]
                  ELSE [attempt[e] EXCEPT !.state = "unknown"]
             s == runner[e]
  <1>1. /\ p \in Pipe /\ a \in Attempt /\ r \in Runner /\ Coherent(p, a, r)
        /\ epoch \in 0..MaxEpoch /\ MaxEpoch \in Nat \ {0} /\ held \in BOOLEAN
    BY Before
  <1>2. p.step = "returned" /\ p.kind = "post"
    BY <1>1 DEF FinishPostHook, Retain, Step, Pipe, Attempt
  <1>3. /\ pipe' = [pipe EXCEPT ![e] = q] /\ attempt' = [attempt EXCEPT ![e] = b]
        /\ runner' = [runner EXCEPT ![e] = s] /\ epoch' = epoch /\ held' \in BOOLEAN
    BY <1>1, <1>2, Before DEF FinishPostHook, Retain, Step
  <1>4. /\ q \in Pipe /\ q.step = "retained" /\ q.kind = p.kind /\ q.bound = p.bound
        /\ q.result = p.result
    BY <1>1, <1>2, OverFacts DEF Pipe, Steps, Kinds, Results
  <1>5. /\ b \in Attempt /\ b.epoch = a.epoch /\ (p.bound = 0 => b.state = a.state)
        /\ (p.bound # 0 => b.state = "unknown")
        /\ b.attested = a.attested /\ b.transferred = a.transferred
    BY <1>1, <1>2 DEF Attempt, States
  <1>6. s \in Runner /\ s = r
    BY <1>1 DEF Runner
  <1> HIDE DEF p, a, r, q, b, s
  <1>7. Coherent(q, b, s)
    BY <1>1, <1>2, <1>4, <1>5, <1>6 DEF Coherent, Open, InPipeline, Pipe, Attempt, Runner
  <1>8. Moves(p, a, r, q, b, s)
    BY <1>1, <1>2, <1>4, <1>5, <1>6 DEF Moves, Keeps,
       Active, Plain, Won, Coherent, Open, InPipeline, Pipe, Attempt, Runner
  <1> QED BY <1>3, <1>4, <1>5, <1>6, <1>7, <1>8, OneEvent DEF p, a, r

\* A raw outcome is retained as unknown.
LEMMA FinishNonToolKeeps ==
    ASSUME IInv, NEW e \in Events, FinishNonToolHook(e)
    PROVE  IInv' /\ Promised
  <1> DEFINE p == pipe[e]
             a == attempt[e]
             r == runner[e]
             q == [pipe[e] EXCEPT !.step = "retained"]
             b == IF pipe[e].bound = 0 THEN attempt[e]
                  ELSE [attempt[e] EXCEPT !.state = "unknown"]
             s == runner[e]
  <1>1. /\ p \in Pipe /\ a \in Attempt /\ r \in Runner /\ Coherent(p, a, r)
        /\ epoch \in 0..MaxEpoch /\ MaxEpoch \in Nat \ {0} /\ held \in BOOLEAN
    BY Before
  <1>2. p.step = "returned" /\ p.kind = "control"
    BY <1>1 DEF FinishNonToolHook, Retain, Step, Pipe, Attempt
  <1>3. /\ pipe' = [pipe EXCEPT ![e] = q] /\ attempt' = [attempt EXCEPT ![e] = b]
        /\ runner' = [runner EXCEPT ![e] = s] /\ epoch' = epoch /\ held' \in BOOLEAN
    BY <1>1, <1>2, Before DEF FinishNonToolHook, Retain, Step
  <1>4. /\ q \in Pipe /\ q.step = "retained" /\ q.kind = p.kind /\ q.bound = p.bound
        /\ q.result = p.result
    BY <1>1, <1>2, OverFacts DEF Pipe, Steps, Kinds, Results
  <1>5. /\ b \in Attempt /\ b.epoch = a.epoch /\ (p.bound = 0 => b.state = a.state)
        /\ (p.bound # 0 => b.state = "unknown")
        /\ b.attested = a.attested /\ b.transferred = a.transferred
    BY <1>1, <1>2 DEF Attempt, States
  <1>6. s \in Runner /\ s = r
    BY <1>1 DEF Runner
  <1> HIDE DEF p, a, r, q, b, s
  <1>7. Coherent(q, b, s)
    BY <1>1, <1>2, <1>4, <1>5, <1>6 DEF Coherent, Open, InPipeline, Pipe, Attempt, Runner
  <1>8. Moves(p, a, r, q, b, s)
    BY <1>1, <1>2, <1>4, <1>5, <1>6 DEF Moves, Keeps,
       Active, Plain, Won, Coherent, Open, InPipeline, Pipe, Attempt, Runner
  <1> QED BY <1>3, <1>4, <1>5, <1>6, <1>7, <1>8, OneEvent DEF p, a, r

\* The owner of the proposals settles it.
LEMMA SettleKeeps ==
    ASSUME IInv, NEW e \in Events, SettlePostTool(e) \/ SettleNonTool(e)
    PROVE  IInv' /\ Promised
  <1> PICK applied \in BOOLEAN :
          attempt' = IF pipe[e].bound = 0 THEN attempt
                     ELSE [attempt EXCEPT ![e].state = Verdict(pipe[e].result, applied)]
    BY DEF SettlePostTool, SettleNonTool, SettleHooks
  <1> DEFINE p == pipe[e]
             a == attempt[e]
             r == runner[e]
             q == Over
             b == IF pipe[e].bound = 0 THEN attempt[e]
                  ELSE [attempt[e] EXCEPT !.state = Verdict(pipe[e].result, applied)]
             s == runner[e]
  <1>1. /\ p \in Pipe /\ a \in Attempt /\ r \in Runner /\ Coherent(p, a, r)
        /\ epoch \in 0..MaxEpoch /\ MaxEpoch \in Nat \ {0} /\ held \in BOOLEAN
    BY Before
  <1>2. /\ p.step = "retained"
        /\ Verdict(p.result, applied) \in {"unknown", "succeeded", "failed"}
        /\ (Verdict(p.result, applied) = "unknown" <=> p.result = "lost")
    BY <1>1 DEF SettlePostTool, SettleNonTool, SettleHooks, End, Verdict, Pipe, Attempt
  <1>3. /\ pipe' = [pipe EXCEPT ![e] = q] /\ attempt' = [attempt EXCEPT ![e] = b]
        /\ runner' = [runner EXCEPT ![e] = s] /\ epoch' = epoch /\ held' \in BOOLEAN
    BY <1>1, <1>2, Before DEF SettlePostTool, SettleNonTool, SettleHooks, End, Verdict
  <1>4. /\ q \in Pipe /\ q.step = "done"
    BY <1>1, <1>2, OverFacts DEF Pipe, Steps, Kinds, Results
  <1>5. /\ b \in Attempt /\ b.epoch = a.epoch /\ (p.bound = 0 => b.state = a.state)
        /\ (p.bound # 0 => b.state = Verdict(p.result, applied))
        /\ b.attested = a.attested /\ b.transferred = a.transferred
    BY <1>1, <1>2 DEF Attempt, States
  <1>6. s \in Runner /\ s = r
    BY <1>1 DEF Runner
  <1> HIDE DEF p, a, r, q, b, s
  <1>7. Coherent(q, b, s)
    BY <1>1, <1>2, <1>4, <1>5, <1>6 DEF Coherent, Open, InPipeline, Pipe, Attempt, Runner
  <1>8. Moves(p, a, r, q, b, s)
    BY <1>1, <1>2, <1>4, <1>5, <1>6 DEF Moves, Keeps, Loses, Fails, Succeeds,
       Active, Plain, Won, Coherent, Open, InPipeline, Pipe, Attempt, Runner
  <1> QED BY <1>3, <1>4, <1>5, <1>6, <1>7, <1>8, OneEvent DEF p, a, r

\* A settlement that may not happen.
LEMMA SettleFailsKeeps ==
    ASSUME IInv, NEW e \in Events, SettleNonToolFails(e)
    PROVE  IInv' /\ Promised
  <1> DEFINE p == pipe[e]
             a == attempt[e]
             r == runner[e]
             q == [pipe[e] EXCEPT !.step = "dropped"]
             b == attempt[e]
             s == runner[e]
  <1>1. /\ p \in Pipe /\ a \in Attempt /\ r \in Runner /\ Coherent(p, a, r)
        /\ epoch \in 0..MaxEpoch /\ MaxEpoch \in Nat \ {0} /\ held \in BOOLEAN
    BY Before
  <1>2. p.step = "retained"
    BY <1>1 DEF SettleNonToolFails, Step, Pipe, Attempt
  <1>3. /\ pipe' = [pipe EXCEPT ![e] = q] /\ attempt' = [attempt EXCEPT ![e] = b]
        /\ runner' = [runner EXCEPT ![e] = s] /\ epoch' = epoch /\ held' \in BOOLEAN
    BY <1>1, <1>2, Before DEF SettleNonToolFails, Step
  <1>4. /\ q \in Pipe /\ q.step = "dropped" /\ q.kind = p.kind /\ q.bound = p.bound
        /\ q.result = p.result
    BY <1>1, <1>2, OverFacts DEF Pipe, Steps, Kinds, Results
  <1>5. b \in Attempt /\ b = a
    BY <1>1, <1>2 DEF Attempt, States
  <1>6. s \in Runner /\ s = r
    BY <1>1 DEF Runner
  <1> HIDE DEF p, a, r, q, b, s
  <1>7. Coherent(q, b, s)
    BY <1>1, <1>2, <1>4, <1>5, <1>6 DEF Coherent, Open, InPipeline, Pipe, Attempt, Runner
  <1>8. Moves(p, a, r, q, b, s)
    BY <1>1, <1>2, <1>4, <1>5, <1>6 DEF Moves, Keeps, Loses,
       Active, Plain, Won, Coherent, Open, InPipeline, Pipe, Attempt, Runner
  <1> QED BY <1>3, <1>4, <1>5, <1>6, <1>7, <1>8, OneEvent DEF p, a, r

\* A pipeline is dropped.
LEMMA DropKeeps ==
    ASSUME IInv, NEW e \in Events, Drop(e)
    PROVE  IInv' /\ Promised
  <1> PICK rest \in IF runner[e] = "live" THEN {"none", "cleanup"} ELSE {runner[e]} :
          runner' = [runner EXCEPT ![e] = rest]
    BY Before DEF Drop
  <1> DEFINE p == pipe[e]
             a == attempt[e]
             r == runner[e]
             q == [pipe[e] EXCEPT !.step = "dropped",
                     !.result = IF pipe[e].step = "retained" THEN pipe[e].result ELSE "none"]
             b == attempt[e]
             s == rest
  <1>1. /\ p \in Pipe /\ a \in Attempt /\ r \in Runner /\ Coherent(p, a, r)
        /\ epoch \in 0..MaxEpoch /\ MaxEpoch \in Nat \ {0} /\ held \in BOOLEAN
    BY Before
  <1>2. p.step \in InPipeline
        /\ rest \in IF r = "live" THEN {"none", "cleanup"} ELSE {r}
    BY <1>1 DEF Drop, InPipeline, Pipe, Attempt
  <1>3. /\ pipe' = [pipe EXCEPT ![e] = q] /\ attempt' = [attempt EXCEPT ![e] = b]
        /\ runner' = [runner EXCEPT ![e] = s] /\ epoch' = epoch /\ held' \in BOOLEAN
    BY <1>1, <1>2, Before DEF Drop, InPipeline
  <1>4. /\ q \in Pipe /\ q.step = "dropped" /\ q.kind = p.kind /\ q.bound = p.bound
    BY <1>1, <1>2, OverFacts DEF Pipe, Steps, Kinds, Results
  <1>5. b \in Attempt /\ b = a
    BY <1>1, <1>2 DEF Attempt, States
  <1>6. s \in Runner /\ s = rest
    BY <1>1 DEF Runner
  <1> HIDE DEF p, a, r, q, b, s
  <1>7. Coherent(q, b, s)
    BY <1>1, <1>2, <1>4, <1>5, <1>6 DEF Coherent, Open, InPipeline, Pipe, Attempt, Runner
  <1>8. Moves(p, a, r, q, b, s)
    BY <1>1, <1>2, <1>4, <1>5, <1>6 DEF Moves, Keeps, Loses,
       Active, Plain, Won, Coherent, Open, InPipeline, Pipe, Attempt, Runner
  <1> QED BY <1>3, <1>4, <1>5, <1>6, <1>7, <1>8, OneEvent DEF p, a, r

\* A dropped control is closed from its retained outcome, or holds the session.
LEMMA CloseKeeps ==
    ASSUME IInv, NEW e \in Events, CloseControl(e)
    PROVE  IInv' /\ Promised
  <1> DEFINE p == pipe[e]
             a == attempt[e]
             r == runner[e]
             q == IF pipe[e].result \in {"ok", "refused"} THEN Over ELSE pipe[e]
             b == IF pipe[e].result \in {"ok", "refused"} /\ pipe[e].bound # 0
                  THEN [attempt[e] EXCEPT !.state = "failed"] ELSE attempt[e]
             s == runner[e]
  <1>1. /\ p \in Pipe /\ a \in Attempt /\ r \in Runner /\ Coherent(p, a, r)
        /\ epoch \in 0..MaxEpoch /\ MaxEpoch \in Nat \ {0} /\ held \in BOOLEAN
    BY Before
  <1>2. p.step = "dropped" /\ r = "none"
    BY <1>1 DEF CloseControl, End, Leased, Pipe, Attempt
  <1>3. /\ pipe' = [pipe EXCEPT ![e] = q] /\ attempt' = [attempt EXCEPT ![e] = b]
        /\ runner' = [runner EXCEPT ![e] = s] /\ epoch' = epoch /\ held' \in BOOLEAN
    BY <1>1, <1>2, Before DEF CloseControl, End, Leased
  <1>4. /\ q \in Pipe /\ (p.result \in {"ok", "refused"} => q.step = "done")
        /\ (p.result \notin {"ok", "refused"} => q = p)
    BY <1>1, <1>2, OverFacts DEF Pipe, Steps, Kinds, Results
  <1>5. /\ b \in Attempt /\ b.epoch = a.epoch
        /\ b.state = (IF p.result \in {"ok", "refused"} /\ p.bound # 0 THEN "failed" ELSE a.state)
        /\ b.attested = a.attested /\ b.transferred = a.transferred
    BY <1>1, <1>2 DEF Attempt, States
  <1>6. s \in Runner /\ s = r
    BY <1>1 DEF Runner
  <1> HIDE DEF p, a, r, q, b, s
  <1>7. Coherent(q, b, s)
    BY <1>1, <1>2, <1>4, <1>5, <1>6 DEF Coherent, Open, InPipeline, Pipe, Attempt, Runner
  <1>8. Moves(p, a, r, q, b, s)
    BY <1>1, <1>2, <1>4, <1>5, <1>6 DEF Moves, Keeps, Concludes,
       Active, Plain, Won, Coherent, Open, InPipeline, Pipe, Attempt, Runner
  <1> QED BY <1>3, <1>4, <1>5, <1>6, <1>7, <1>8, OneEvent DEF p, a, r

\* An observer becomes a job of its own.
LEMMA TransferKeeps ==
    ASSUME IInv, NEW e \in Events, Transfer(e)
    PROVE  IInv' /\ Promised
  <1> DEFINE p == pipe[e]
             a == attempt[e]
             r == runner[e]
             q == Over
             b == [attempt[e] EXCEPT !.transferred = TRUE]
             s == runner[e]
  <1>1. /\ p \in Pipe /\ a \in Attempt /\ r \in Runner /\ Coherent(p, a, r)
        /\ epoch \in 0..MaxEpoch /\ MaxEpoch \in Nat \ {0} /\ held \in BOOLEAN
    BY Before
  <1>2. p.step = "running" /\ r = "live"
    BY <1>1 DEF Transfer, End, Pipe, Attempt
  <1>3. /\ pipe' = [pipe EXCEPT ![e] = q] /\ attempt' = [attempt EXCEPT ![e] = b]
        /\ runner' = [runner EXCEPT ![e] = s] /\ epoch' = epoch /\ held' \in BOOLEAN
    BY <1>1, <1>2, Before DEF Transfer, End
  <1>4. /\ q \in Pipe /\ q.step = "done"
    BY <1>1, <1>2, OverFacts DEF Pipe, Steps, Kinds, Results
  <1>5. /\ b \in Attempt /\ b.epoch = a.epoch /\ b.state = a.state
        /\ b.attested = a.attested /\ b.transferred = TRUE
    BY <1>1, <1>2 DEF Attempt, States
  <1>6. s \in Runner /\ s = r
    BY <1>1 DEF Runner
  <1> HIDE DEF p, a, r, q, b, s
  <1>7. Coherent(q, b, s)
    BY <1>1, <1>2, <1>4, <1>5, <1>6 DEF Coherent, Open, InPipeline, Pipe, Attempt, Runner
  <1>8. Moves(p, a, r, q, b, s)
    BY <1>1, <1>2, <1>4, <1>5, <1>6 DEF Moves, Keeps,
       Active, Plain, Won, Coherent, Open, InPipeline, Pipe, Attempt, Runner
  <1> QED BY <1>3, <1>4, <1>5, <1>6, <1>7, <1>8, OneEvent DEF p, a, r

\* The job ends.
LEMMA ObserverEndsKeeps ==
    ASSUME IInv, NEW e \in Events, ObserverEnds(e)
    PROVE  IInv' /\ Promised
  <1> PICK result \in Results \ {"none"} :
          /\ attempt' = [attempt EXCEPT ![e].transferred = FALSE,
                          ![e].state = IF @ = "none" THEN @ ELSE Verdict(result, TRUE)]
          /\ held' = (held \/ result = "lost")
          /\ \E rest \in IF result = "lost" THEN {"none", "cleanup"} ELSE {"none"} :
                runner' = [runner EXCEPT ![e] = rest]
    BY DEF ObserverEnds
  <1> PICK rest \in IF result = "lost" THEN {"none", "cleanup"} ELSE {"none"} :
          runner' = [runner EXCEPT ![e] = rest]
    OBVIOUS
  <1> DEFINE p == pipe[e]
             a == attempt[e]
             r == runner[e]
             q == pipe[e]
             b == [attempt[e] EXCEPT !.transferred = FALSE,
                     !.state = IF attempt[e].state = "none" THEN "none"
                               ELSE Verdict(result, TRUE)]
             s == rest
  <1>0. attempt' = [attempt EXCEPT ![e] = b]
    BY Before DEF Attempt
  <1>1. /\ p \in Pipe /\ a \in Attempt /\ r \in Runner /\ Coherent(p, a, r)
        /\ epoch \in 0..MaxEpoch /\ MaxEpoch \in Nat \ {0} /\ held \in BOOLEAN
    BY Before
  <1>2. /\ a.transferred /\ r = "live"
        /\ Verdict(result, TRUE) \in {"unknown", "succeeded", "failed"}
        /\ (Verdict(result, TRUE) = "unknown" <=> result = "lost")
    BY <1>1 DEF ObserverEnds, Verdict, Pipe, Attempt
  <1>3. /\ pipe' = [pipe EXCEPT ![e] = q] /\ attempt' = [attempt EXCEPT ![e] = b]
        /\ runner' = [runner EXCEPT ![e] = s] /\ epoch' = epoch /\ held' \in BOOLEAN
    BY <1>0, <1>1, <1>2, Before DEF ObserverEnds, Verdict
  <1>4. q \in Pipe /\ q = p
    BY <1>1, <1>2, OverFacts DEF Pipe, Steps, Kinds, Results
  <1>5. /\ b \in Attempt /\ b.epoch = a.epoch /\ b.attested = a.attested /\ ~b.transferred
        /\ b.state = IF a.state = "none" THEN "none" ELSE Verdict(result, TRUE)
    BY <1>1, <1>2 DEF Attempt, States
  <1>6. s \in Runner /\ s = rest
    BY <1>1 DEF Runner
  <1> HIDE DEF p, a, r, q, b, s
  <1>7. Coherent(q, b, s)
    BY <1>1, <1>2, <1>4, <1>5, <1>6 DEF Coherent, Open, InPipeline, Pipe, Attempt, Runner
  <1>8. Moves(p, a, r, q, b, s)
    BY <1>1, <1>2, <1>4, <1>5, <1>6 DEF Moves, Keeps, Loses, Fails, Succeeds,
       Active, Plain, Won, Coherent, Open, InPipeline, Pipe, Attempt, Runner
  <1> QED BY <1>3, <1>4, <1>5, <1>6, <1>7, <1>8, OneEvent DEF p, a, r

\* The developer attests that it failed.
LEMMA AttestKeeps ==
    ASSUME IInv, NEW e \in Events, Attest(e)
    PROVE  IInv' /\ Promised
  <1> DEFINE p == pipe[e]
             a == attempt[e]
             r == runner[e]
             q == pipe[e]
             b == [attempt[e] EXCEPT !.attested = TRUE]
             s == runner[e]
  <1>1. /\ p \in Pipe /\ a \in Attempt /\ r \in Runner /\ Coherent(p, a, r)
        /\ epoch \in 0..MaxEpoch /\ MaxEpoch \in Nat \ {0} /\ held \in BOOLEAN
    BY Before
  <1>2. Open(a) /\ r = "none" /\ p.step \notin InPipeline /\ ~a.transferred
    BY <1>1 DEF Attest, Unresolved, Leased, Owned, Open, InPipeline, Coherent, Pipe, Attempt
  <1>3. /\ pipe' = [pipe EXCEPT ![e] = q] /\ attempt' = [attempt EXCEPT ![e] = b]
        /\ runner' = [runner EXCEPT ![e] = s] /\ epoch' = epoch /\ held' \in BOOLEAN
    BY <1>1, <1>2, Before DEF Attest, Unresolved, Leased, Owned, Open, InPipeline, Coherent
  <1>4. q \in Pipe /\ q = p
    BY <1>1, <1>2, OverFacts DEF Pipe, Steps, Kinds, Results
  <1>5. /\ b \in Attempt /\ b.epoch = a.epoch /\ b.state = a.state /\ b.attested
        /\ b.transferred = a.transferred
    BY <1>1, <1>2 DEF Attempt, States
  <1>6. s \in Runner /\ s = r
    BY <1>1 DEF Runner
  <1> HIDE DEF p, a, r, q, b, s
  <1>7. Coherent(q, b, s)
    BY <1>1, <1>2, <1>4, <1>5, <1>6 DEF Coherent, Open, InPipeline, Pipe, Attempt, Runner
  <1>8. Moves(p, a, r, q, b, s)
    BY <1>1, <1>2, <1>4, <1>5, <1>6 DEF Moves, Keeps, Concludes,
       Active, Plain, Won, Coherent, Open, InPipeline, Pipe, Attempt, Runner
  <1> QED BY <1>3, <1>4, <1>5, <1>6, <1>7, <1>8, OneEvent DEF p, a, r

\* A reservation: of nothing, of a run that is declared one-shot, or of one that is not.
LEMMA ReserveKeeps ==
    ASSUME IInv, NEW e \in Events, NEW kinds \in SUBSET Kinds, Reserve(e, kinds)
    PROVE  IInv' /\ Promised
  <1> DEFINE p == pipe[e]
             a == attempt[e]
             r == runner[e]
  <1>1. /\ p \in Pipe /\ a \in Attempt /\ r \in Runner /\ Coherent(p, a, r)
        /\ epoch \in 0..MaxEpoch /\ MaxEpoch \in Nat \ {0} /\ held \in BOOLEAN
    BY Before
  <1>2. /\ p.step = "planned" /\ epoch' = epoch /\ held' = held /\ runner' = runner
        /\ p.bound \in {0, epoch}
        /\ \A f \in Events : ~Open(attempt[f])
    BY DEF Reserve, Refused, Stale, Unresolved, Open
  <1>3. CASE p.bound # 0 /\ Consumed(e)
    <2>1. /\ pipe' = [pipe EXCEPT ![e] = Over]
          /\ attempt' = [attempt EXCEPT ![e] = a] /\ runner' = [runner EXCEPT ![e] = r]
      BY <1>2, <1>3, Before DEF Reserve, End
    <2> HIDE DEF p, a, r
    <2>2. Coherent(Over, a, r)
      BY <1>1, <1>2, OverFacts DEF Coherent, Open, InPipeline
    <2>3. Moves(p, a, r, Over, a, r)
      BY <1>1, <1>2, OverFacts DEF Moves, Keeps, Active, Plain, Coherent, Open, InPipeline
    <2> QED BY <1>1, <1>2, <2>1, <2>2, <2>3, OverFacts, OneEvent DEF p, a, r
  <1>4. CASE ~(p.bound # 0 /\ Consumed(e))
    <2> PICK k \in kinds :
            pipe' = [pipe EXCEPT ![e].step = "reserved", ![e].kind = k]
      BY <1>4 DEF Reserve
    <2> DEFINE q == [pipe[e] EXCEPT !.step = "reserved", !.kind = k]
               b == IF pipe[e].bound = 0 THEN attempt[e]
                    ELSE [attempt[e] EXCEPT !.state = "reserved", !.epoch = pipe[e].bound]
    <2>1. pipe' = [pipe EXCEPT ![e] = q]
      OBVIOUS
    <2>2. attempt' = [attempt EXCEPT ![e] = b]
      <3>1. attempt' = IF pipe[e].bound = 0 THEN attempt
                       ELSE [attempt EXCEPT ![e].state = "reserved",
                                            ![e].epoch = pipe[e].bound]
        BY <1>4 DEF Reserve
      <3>2. CASE pipe[e].bound = 0
        BY <3>1, <3>2, Before
      <3>3. CASE pipe[e].bound # 0
        BY <3>1, <3>3, Before
      <3> QED BY <3>2, <3>3
    <2>3. runner' = [runner EXCEPT ![e] = r]
      BY <1>2, Before
    <2>4. q \in Pipe /\ q.step = "reserved" /\ q.bound = p.bound
      BY <1>1 DEF Pipe, Steps
    <2>5. /\ b \in Attempt /\ b.attested = a.attested /\ b.transferred = a.transferred
          /\ p.bound = 0 => b = a
          /\ p.bound # 0 => b.state = "reserved" /\ b.epoch = epoch
      BY <1>1, <1>2 DEF Attempt, States, Pipe
    <2>6. p.bound # 0 => \A f \in Events : ~Won(attempt[f])
      BY <1>2, <1>4 DEF Consumed, Won
    <2> HIDE DEF p, a, r, q, b
    <2>7. Coherent(q, b, r)
      BY <1>1, <1>2, <2>4, <2>5 DEF Coherent, Open, InPipeline, Attempt, Pipe
    <2>8. CASE p.bound = 0
      <3>1. ~Won(a) /\ ~Open(a) /\ ~Active(q, b, r) /\ Plain(q, b, r)
        BY <1>1, <1>2, <2>4, <2>5, <2>8 DEF Coherent, Won, Open, Active, Plain
      <3>2. StartsPlain(p, a, r, q, b, r)
        BY <1>2, <2>5, <2>8, <3>1 DEF StartsPlain
      <3> QED BY <1>1, <1>2, <2>1, <2>2, <2>3, <2>4, <2>5, <2>7, <3>2, OneEvent
              DEF Moves, p, a, r
    <2>9. CASE p.bound # 0
      <3>1. Starts(p, a, r, q, b, r)
        BY <1>1, <1>2, <2>4, <2>5, <2>6, <2>9
           DEF Starts, Coherent, Won, Open, Active, Plain, InPipeline
      <3> QED BY <1>1, <1>2, <2>1, <2>2, <2>3, <2>4, <2>5, <2>7, <3>1, OneEvent
              DEF Moves, p, a, r
    <2> QED BY <2>8, <2>9
  <1> QED BY <1>3, <1>4
-----------------------------------------------------------------------------
(* Operations on all events.                                               *)

LEMMA ActivateKeeps ==
    ASSUME IInv, Activate
    PROVE  IInv' /\ Promised
  <1>1. /\ \A e \in Events : ~Open(attempt[e])
        /\ epoch' = epoch + 1 /\ epoch' \in 0..MaxEpoch
        /\ UNCHANGED <<held, pipe, runner, attempt>>
    BY PluginHooksAssumption, Views DEF Activate, IInv, Typed
  <1>2. Typed'
    BY <1>1 DEF IInv, Typed
  <1>3. \A e \in Events : Sound(e)'
    <2> SUFFICES ASSUME NEW e \in Events PROVE Sound(e)'
      OBVIOUS
    <2>1. Sound(e) /\ ~Open(attempt[e]) /\ epoch \in Nat /\ attempt[e].epoch \in Nat
      BY <1>1, PluginHooksAssumption DEF IInv, Typed, Attempt
    <2> QED BY <1>1, <2>1 DEF Sound, Coherent, Open
  <1>4. OneOpen'
    BY <1>1 DEF OneOpen, Open
  <1>5. RunningOnce = {} /\ UnknownRuns = {}
    BY <1>1, NothingOpen DEF IInv
  <1>6. /\ RunningOnce' = RunningOnce /\ RunningPlain' = RunningPlain
        /\ UnknownRuns' = UnknownRuns
    BY <1>1, Views, ViewsAfter DEF Active, Plain, Open
  <1>7. IsConsumed' = FALSE
    <2>1. \A e \in Events : attempt[e].epoch <= epoch /\ attempt[e].epoch \in Nat
      BY PluginHooksAssumption DEF IInv, Typed, Sound, Coherent, Attempt
    <2>2. epoch \in Nat
      BY PluginHooksAssumption DEF IInv, Typed
    <2> QED BY <1>1, <2>1, <2>2 DEF IsConsumed
  <1> QED BY <1>2, <1>3, <1>4, <1>5, <1>6, <1>7
          DEF IInv, Promised, Promise!Next, Promise!Activate, Promise!Quiet

LEMMA HoldKeeps ==
    ASSUME IInv, Hold
    PROVE  IInv' /\ Promised
  <1>1. UNCHANGED <<epoch, pipe, runner, attempt>> /\ held' = TRUE
    BY DEF Hold
  <1>2. IInv'
    BY <1>1 DEF IInv, Typed, Sound, Coherent, Open, OneOpen
  <1>3. UNCHANGED <<RunningOnce, RunningPlain, UnknownRuns, IsConsumed>>
    BY <1>1 DEF RunningOnce, RunningPlain, UnknownRuns, IsConsumed, HasAttempt, Unresolved,
                Settler
  <1> QED BY <1>2, <1>3 DEF Promised, Promise!vars

LEMMA ReconcileKeeps ==
    ASSUME IInv, Reconcile
    PROVE  IInv' /\ Promised
  <1>1. /\ UNCHANGED <<epoch, runner, attempt>> /\ held' = FALSE
        /\ pipe' = [e \in Events |-> IF pipe[e].step = "dropped" THEN Over ELSE pipe[e]]
    BY DEF Reconcile
  <1>2. Typed'
    BY <1>1, OverFacts DEF IInv, Typed
  <1>3. \A e \in Events : Sound(e)'
    BY <1>1, OverFacts DEF IInv, Sound, Coherent, Open, InPipeline
  <1>4. OneOpen'
    BY <1>1 DEF IInv, OneOpen, Open
  <1>5. \A e \in Events :
          /\ Active(pipe'[e], attempt'[e], runner'[e])
               <=> Active(pipe[e], attempt[e], runner[e])
          /\ Plain(pipe'[e], attempt'[e], runner'[e])
               <=> Plain(pipe[e], attempt[e], runner[e])
          /\ Open(attempt'[e]) <=> Open(attempt[e])
          /\ Won(attempt[e])' <=> Won(attempt[e])
    BY <1>1, OverFacts DEF Active, Plain, Open, Won, InPipeline
  <1> HIDE DEF Active, Plain, Open, Won
  <1>6. RunningOnce' = RunningOnce /\ RunningPlain' = RunningPlain
    BY <1>5, Views, ViewsAfter
  <1>7. UnknownRuns' = UnknownRuns
    BY <1>5, <1>6, Views, ViewsAfter
  <1>8. IsConsumed' = IsConsumed
    BY <1>5, Views, ViewsAfter DEF IsConsumed
  <1> QED BY <1>2, <1>3, <1>4, <1>6, <1>7, <1>8 DEF IInv, Promised, Promise!vars

\* A crash leaves the effects of the run that was under way, if any, unknown.
LEMMA CrashKeeps ==
    ASSUME IInv, Crash
    PROVE  IInv' /\ Promised
  <1>1. /\ epoch' = epoch /\ held' \in BOOLEAN
        /\ pipe' = [e \in Events |-> Restored(pipe[e])]
        /\ runner' = [e \in Events |-> "none"]
    BY DEF Crash, IInv, Typed
  <1>2. \A e \in Events :
          /\ pipe[e] \in Pipe /\ attempt[e] \in Attempt
          /\ Coherent(pipe[e], attempt[e], runner[e])
    BY Before
  <1>3. \A e \in Events :
          /\ Restored(pipe[e]) \in Pipe
          /\ Restored(pipe[e]).step =
               IF pipe[e].step \in {"idle", "done", "dropped"} THEN pipe[e].step
               ELSE IF pipe[e].step = "planned" THEN "done" ELSE "dropped"
          /\ Restored(pipe[e]).step # "done" => Restored(pipe[e]).bound = pipe[e].bound
    BY <1>2, OverFacts DEF Restored, Pipe, Steps, Results
  <1>4. /\ attempt' \in [Events -> Attempt]
        /\ \A e \in Events :
             /\ attempt'[e].state = attempt[e].state
             /\ attempt'[e].epoch = attempt[e].epoch
             /\ attempt'[e].attested = attempt[e].attested
             /\ attempt'[e].transferred = FALSE
    <2>1. attempt' = [e \in Events |-> IF attempt[e].transferred
                                       THEN [attempt[e] EXCEPT !.transferred = FALSE]
                                       ELSE attempt[e]]
      BY DEF Crash
    <2> QED BY <1>2, <2>1 DEF Attempt
  <1>5. /\ \A e \in Events :
             /\ pipe'[e] \in Pipe /\ runner'[e] = "none"
             /\ pipe'[e].step =
                  IF pipe[e].step \in {"idle", "done", "dropped"} THEN pipe[e].step
                  ELSE IF pipe[e].step = "planned" THEN "done" ELSE "dropped"
             /\ pipe'[e].step # "done" => pipe'[e].bound = pipe[e].bound
        /\ Typed'
    BY <1>1, <1>3, <1>4 DEF IInv, Typed, Runner
  <1>6. \A e \in Events : Sound(e)'
    <2> SUFFICES ASSUME NEW e \in Events PROVE Sound(e)'
      OBVIOUS
    <2> QED BY <1>1, <1>2, <1>4, <1>5 DEF Sound, Coherent, Open, InPipeline, Pipe, Steps
  <1>7. \A e \in Events :
          /\ ~Active(pipe'[e], attempt'[e], runner'[e])
          /\ ~Plain(pipe'[e], attempt'[e], runner'[e])
          /\ Open(attempt'[e]) <=> Open(attempt[e])
          /\ Won(attempt[e])' <=> Won(attempt[e])
          /\ Active(pipe[e], attempt[e], runner[e]) => Open(attempt[e])
    BY <1>1, <1>2, <1>4, <1>5 DEF Active, Plain, Open, Won, InPipeline, Coherent, Pipe, Steps
  <1>8. OneOpen'
    BY <1>7 DEF IInv, OneOpen, Open
  <1>9. RunningOnce' = {} /\ RunningPlain' = {}
    BY <1>7, ViewsAfter
  <1> HIDE DEF Active, Plain, Open, Won
  <1>10. IsConsumed' = IsConsumed
    BY <1>7, Views, ViewsAfter DEF IsConsumed
  <1>11. CASE RunningOnce = {}
    <2>1. UnknownRuns' = UnknownRuns
      BY <1>7, <1>9, <1>11, Views, ViewsAfter
    <2> QED BY <1>5, <1>6, <1>8, <1>9, <1>10, <1>11, <2>1
            DEF IInv, Promised, Promise!Next, Promise!EndPlain
  <1>12. CASE RunningOnce # {}
    <2> PICK e \in Events : e \in RunningOnce
      BY <1>12, Views
    <2>1. RunningOnce = {e}
      BY <1>7, Views DEF IInv, OneOpen
    <2>2. UnknownRuns = {} /\ UnknownRuns' = {e}
      BY <1>7, <1>9, <2>1, Views, ViewsAfter DEF IInv, OneOpen
    <2> QED BY <1>5, <1>6, <1>8, <1>9, <1>10, <2>1, <2>2
            DEF IInv, Promised, Promise!Next, Promise!Lose
  <1> QED BY <1>11, <1>12
-----------------------------------------------------------------------------
LEMMA HooksInitially == Init => IInv /\ Promise!Init
  <1> SUFFICES ASSUME Init PROVE IInv /\ Promise!Init
    OBVIOUS
  <1>1. Typed
    <2>1. 0 \in 0..MaxEpoch
      BY PluginHooksAssumption
    <2>2. pipe \in [Events -> Pipe]
      BY <2>1 DEF Init, Pipe, Steps, Kinds, Results
    <2>3. attempt \in [Events -> Attempt]
      BY <2>1 DEF Init, Attempt, States
    <2> QED BY <2>1, <2>2, <2>3 DEF Init, Typed, Runner
  <1>2. (\A e \in Events : Sound(e)) /\ OneOpen
    BY DEF Init, Sound, Coherent, Open, OneOpen, InPipeline
  <1>3. Promise!Init
    BY DEF Init, Promise!Init, RunningOnce, RunningPlain, UnknownRuns, IsConsumed, HasAttempt,
           Unresolved
  <1> QED BY <1>1, <1>2, <1>3 DEF IInv

LEMMA EveryStep == IInv /\ [Next]_vars => IInv' /\ Promised
  <1> SUFFICES ASSUME IInv, [Next]_vars PROVE IInv' /\ Promised
    OBVIOUS
  <1>1. CASE UNCHANGED vars
    <2>1. UNCHANGED <<epoch, held, pipe, runner, attempt>>
      BY <1>1 DEF vars
    <2>2. IInv'
      BY <2>1 DEF IInv, Typed, Sound, Coherent, Open, OneOpen
    <2>3. UNCHANGED <<RunningOnce, RunningPlain, UnknownRuns, IsConsumed>>
      BY <2>1 DEF RunningOnce, RunningPlain, UnknownRuns, IsConsumed, HasAttempt, Unresolved,
                  Settler
    <2> QED BY <2>2, <2>3 DEF Promised, Promise!vars
  <1>2. CASE Activate \/ Hold \/ Reconcile \/ Crash
    BY <1>2, ActivateKeeps, HoldKeeps, ReconcileKeeps, CrashKeeps
  <1>3. ASSUME NEW e \in Events,
               ReservePluginHook(e) \/ ReservePostHook(e) \/ ReserveNonToolHook(e)
        PROVE  IInv' /\ Promised
    <2>1. /\ {"pre"} \in SUBSET Kinds /\ {"post", "observer"} \in SUBSET Kinds
          /\ {"control", "observer"} \in SUBSET Kinds
      BY DEF Kinds
    <2> QED BY <1>3, <2>1, ReserveKeeps
            DEF ReservePluginHook, ReservePostHook, ReserveNonToolHook
  <1>4. ASSUME NEW e \in Events,
               \/ Plan(e) \/ ReserveRefused(e) \/ Launch(e) \/ Returns(e) \/ CleanupEnds(e)
               \/ FinishPluginHook(e) \/ FinishPostHook(e) \/ FinishNonToolHook(e)
               \/ SettlePostTool(e) \/ SettleNonTool(e) \/ SettleNonToolFails(e)
               \/ Drop(e) \/ CloseControl(e) \/ Transfer(e) \/ ObserverEnds(e) \/ Attest(e)
        PROVE  IInv' /\ Promised
    BY <1>4, PlanKeeps, RefusedKeeps, LaunchKeeps, ReturnsKeeps, CleanupKeeps,
       FinishPluginKeeps, FinishPostKeeps, FinishNonToolKeeps, SettleKeeps, SettleFailsKeeps,
       DropKeeps, CloseKeeps, TransferKeeps, ObserverEndsKeeps, AttestKeeps
  <1> QED BY <1>1, <1>2, <1>3, <1>4 DEF Next

LEMMA Always == Spec => []IInv
  BY HooksInitially, EveryStep, PTL DEF Spec

\* The variables keep their types, for any events and activations.
THEOREM HooksTypeCorrect == Spec => []TypeOK
  <1>1. IInv => TypeOK
    BY DEF IInv, Typed, TypeOK, Sound, Coherent, Pipe, Attempt, Runner
  <1> QED BY <1>1, Always, PTL

\* The hooks keep the promise of OneShot: two runs of a one-shot hook never overlap,
\* nothing runs over unknown effects, and a run that succeeded is the last of its
\* activation.
THEOREM OneShotKeptHolds == Spec => OneShotKept
  BY HooksInitially, EveryStep, Always, PTL DEF Spec, OneShotKept, Promise!Spec, Promised

-----------------------------------------------------------------------------
(* ToolAdmission.                                                          *)

\* An answer was received.
Settles(p) == p.state \notin {"reserved", "moved"}
Excused == round.skipped \union round.moved
Attended(i) ==
    \/ i \in Excused
    \/ \E p \in receipts : p.of = i /\ p.key = Key /\ Settles(p)
HeardOut(i) ==
    \/ i \in Excused \union round.once
    \/ \E p \in receipts : p.of = i /\ p.key.call = call /\ Settles(p)
\* Handlers whose turn in this stage is still to come.
Pending == (UNION queue) \union active

Judging == {"deciding", "observing", "rechecking"}
Final == {"validating", "admitted", "starting", "released"}

\* What each kind of handler is owed once admission is so far.
TransformersHeard == \A i \in Matching : Of(i).class = "Transformer" =>
    /\ place.stage = "rewriting" /\ ~round.changed => HeardOut(i) \/ i \in Pending
    /\ place.stage \in {"freezing"} \union Judging \union Final => HeardOut(i)
GatesHeard == \A i \in Matching : Of(i).class = "DecisionGate" =>
    /\ place.stage = "deciding" => Attended(i) \/ i \in Pending
    /\ place.stage \in {"observing", "rechecking"} \union Final => Attended(i)
ObserversHeard == \A i \in Matching : Of(i).class = "Observer" =>
    /\ place.stage = "observing" => Attended(i) \/ i \in Pending
    /\ place.stage \in {"rechecking"} \union Final => Attended(i)
CombinedHeard == \A i \in Matching : Of(i).class = "Combined" =>
    /\ place.stage = "rechecking" => Attended(i) \/ i \in Pending \/ round.held
    /\ place.stage \in Final => Attended(i)

\* A pass of a combined handler is an answer it gave.
Backed == \A i \in DOMAIN round.passed :
    /\ Of(i).class = "Combined"
    /\ \E p \in receipts : p.of = i /\ p.key = round.passed[i] /\ Settles(p)

Placed ==
    /\ place.stage = "freezing" => place.step = "capture"
    /\ place.stage \in Judging => place.step # "capture"
    /\ place.stage \in Final \union {"idle", "refused"} => place.step = "choose"
    /\ place.step = "choose" /\ place.stage # "refused" => active = {}
    /\ {} \notin queue

\* The key is frozen; the files under the boundary are as captured; nobody objected.
Frozen == place.stage \in Final => verdict.key = Key
Guarded == place.stage \in {"starting", "released"} /\ boundary = "tool" =>
    \A r \in DOMAIN inputs \ files.left : Current(r) \/ r \in files.outside
Allowed == place.stage = "released" =>
    /\ files.left = {}
    /\ \A p \in receipts : p.state \in {"clear", "moved"}

AdmissionInv ==
    /\ AdmissionTypeOK
    /\ TransformersHeard /\ GatesHeard /\ ObserversHeard /\ CombinedHeard
    /\ Backed /\ Placed /\ Frozen /\ Guarded /\ Allowed

-----------------------------------------------------------------------------
(* Operators.                                                              *)

\* The least of some numbers.
LEMMA MinIsLeast ==
    ASSUME NEW S, S \subseteq Nat, S # {}
    PROVE  Min(S) \in S /\ \A y \in S : Min(S) <= y
  <1> DEFINE R == {ss \in Nat \X Nat : ss[1] < ss[2]}
  <1>1. IsWellFoundedOn(R, Nat)
    BY NatLessThanWellFounded DEF OpToRel
  <1>2. PICK x \in S : \A y \in S : ~(<<y, x>> \in R)
    BY <1>1, WFMin
  <1>3. \A y \in S : x <= y
    <2> SUFFICES ASSUME NEW y \in S PROVE x <= y
      OBVIOUS
    <2>1. <<y, x>> \in Nat \X Nat /\ <<y, x>> \notin R
      BY <1>2
    <2>2. ~(y < x)
      BY <2>1
    <2> QED BY <2>2
  <1> QED BY <1>2, <1>3 DEF Min

\* The first group of some groups is one of them.
LEMMA FirstIsOne ==
    ASSUME NEW Q, Q # {}, \A g \in Q : g \subseteq Nat /\ g # {}
    PROVE  First(Q) \in Q
  <1> DEFINE T == {Min(g) : g \in Q}
  <1>1. T \subseteq Nat /\ T # {}
    BY MinIsLeast
  <1>2. Min(T) \in T /\ \A m \in T : Min(T) <= m
    BY <1>1, MinIsLeast
  <1>3. PICK g \in Q : Min(T) = Min(g)
    BY <1>2
  <1>4. \A h \in Q : Min(g) <= Min(h)
    BY <1>2, <1>3
  <1> QED BY <1>4 DEF First

\* Handlers fall into groups, each into one.
LEMMA GroupsCover ==
    ASSUME NEW is
    PROVE  /\ Groups(is) \subseteq SUBSET is /\ {} \notin Groups(is)
           /\ UNION Groups(is) = is
  <1> DEFINE G(i) == {j \in is : j = i \/ (Of(i).group # 0 /\ Of(j).group = Of(i).group)}
  <1>1. Groups(is) = {G(i) : i \in is}
    BY DEF Groups
  <1>2. \A i \in is : i \in G(i) /\ G(i) \subseteq is
    OBVIOUS
  <1> HIDE DEF G
  <1> QED BY <1>1, <1>2

\* Taking a group out leaves the others.
LEMMA OthersWait ==
    ASSUME NEW Q, NEW g, NEW i \in UNION Q
    PROVE  i \in g \/ i \in UNION (Q \ {g})
  <1> PICK h \in Q : i \in h
    OBVIOUS
  <1>1. CASE h = g
    BY <1>1
  <1>2. CASE h # g
    <2>1. h \in Q \ {g}
      BY <1>2
    <2> QED BY <2>1
  <1> QED BY <1>1, <1>2

\* Partial functions.
LEMMA CapturesAre ==
    ASSUME NEW reads \in SUBSET ReadSets, NEW f \in [reads -> 0..MaxEdits]
    PROVE  f \in Captures
  BY DEF Captures
LEMMA CapturesHave ==
    ASSUME NEW f \in Captures
    PROVE  /\ DOMAIN f \subseteq ReadSets /\ f \in [DOMAIN f -> 0..MaxEdits]
  BY DEF Captures
LEMMA PassedAre ==
    ASSUME NEW is \in SUBSET Indices, NEW f \in [is -> Keys]
    PROVE  f \in Passed
  BY DEF Passed
LEMMA PassedHave ==
    ASSUME NEW f \in Passed
    PROVE  /\ DOMAIN f \subseteq Indices /\ f \in [DOMAIN f -> Keys]
  BY DEF Passed
LEMMA NothingCaptured == NoInputs \in Captures /\ DOMAIN NoInputs = {}
  <1>1. NoInputs \in [{} -> 0..MaxEdits]
    BY DEF NoInputs
  <1> QED BY <1>1, CapturesAre DEF NoInputs

\* The handlers of a plan.
LEMMA PlanHas ==
    ASSUME AdmissionTypeOK
    PROVE  /\ Indices \subseteq Nat /\ Matching \subseteq Indices
           /\ \A i \in Indices : Of(i) \in Handlers
           /\ Key \in Keys
  <1>1. plan.handlers \in Seq(Handlers)
    BY ToolAdmissionAssumption DEF AdmissionTypeOK
  <1>2. Indices = 1..Len(plan.handlers)
    BY <1>1 DEF Indices
  <1> QED BY <1>1, <1>2 DEF Of, Matching, Key, Keys, AdmissionTypeOK
-----------------------------------------------------------------------------
(* Type correctness.                                                       *)

\* What a group answered.
LEMMA AnswersAre ==
    ASSUME AdmissionTypeOK, NEW answer, Answered(answer)
    PROVE  /\ Moved(answer) \subseteq active
           /\ Proposed(answer) # {} => Rewrite(answer) \in Candidates
           /\ DOMAIN Passes(answer) \subseteq active
           /\ Passes(answer) \in [DOMAIN Passes(answer) -> Keys]
           /\ \A i \in active :
                /\ Settled(answer, i) \in {"moved", "lost", "held", "clear"}
                /\ Settled(answer, i) = "moved" <=> i \in Moved(answer)
  <1>1. active \subseteq Nat /\ Key \in Keys
    BY PlanHas DEF AdmissionTypeOK
  <1>2. ASSUME NEW i \in active
        PROVE  answer[i].input \in Candidates \union {"none"}
    BY <1>2 DEF Answered, Answers, Said, Other
  <1>3. ASSUME Proposed(answer) # {} PROVE Rewrite(answer) \in Candidates
    <2>1. Min(Proposed(answer)) \in Proposed(answer)
      BY <1>1, <1>3, MinIsLeast DEF Proposed
    <2> QED BY <1>2, <2>1 DEF Rewrite, Proposed
  <1>4. Passes(answer) = [i \in DOMAIN Passes(answer) |-> Key]
        /\ DOMAIN Passes(answer) \subseteq active
    BY DEF Passes
  <1>5. ASSUME NEW i \in active
        PROVE  /\ Settled(answer, i) \in {"moved", "lost", "held", "clear"}
               /\ Settled(answer, i) = "moved" <=> i \in Moved(answer)
    BY DEF Settled, Moved
  <1> QED BY <1>1, <1>3, <1>4, <1>5 DEF Moved

\* The invocations of a group are receipts.
LEMMA ReceiptsAre ==
    ASSUME AdmissionTypeOK, NEW i \in Indices,
           NEW state \in {"reserved", "clear", "held", "lost", "moved"}
    PROVE  Receipt(i, state) \in Receipts
  BY PlanHas DEF Receipt, Receipts, Class, Classes, Handlers

\* The round after a group.
LEMMA RoundAfter ==
    ASSUME AdmissionTypeOK, NEW answer, Answered(answer), NEW base,
           base = round \/ base = [round EXCEPT !.seen = @ \union {Rewrite(answer)},
                                                !.changed = TRUE],
           base # round => Proposed(answer) # {},
           SettleGroup(answer, base)
    PROVE  /\ round' \in [seen : SUBSET Candidates, changed : BOOLEAN, passed : Passed,
                          once : SUBSET Indices, skipped : SUBSET Indices,
                          moved : SUBSET Indices, held : BOOLEAN]
           /\ round'.changed = base.changed /\ round'.once = round.once
           /\ round'.skipped = round.skipped
           /\ round'.moved = round.moved \union Moved(answer)
           /\ round'.held = (round.held \/ \E i \in active : Holds(answer, i))
           /\ DOMAIN round'.passed = DOMAIN round.passed \union DOMAIN Passes(answer)
           /\ \A i \in DOMAIN round'.passed :
                round'.passed[i] = IF i \in DOMAIN Passes(answer) THEN Key
                                   ELSE round.passed[i]
  <1> DEFINE passes == Passes(answer)
             onHold == base.held \/ \E i \in active : Holds(answer, i)
             moved == base.moved \union Moved(answer)
             passed == [i \in DOMAIN base.passed \union DOMAIN passes |->
                          IF i \in DOMAIN passes THEN passes[i] ELSE base.passed[i]]
  <1>1. base \in [seen : SUBSET Candidates, changed : BOOLEAN, passed : Passed,
                  once : SUBSET Indices, skipped : SUBSET Indices,
                  moved : SUBSET Indices, held : BOOLEAN]
        /\ base.passed = round.passed /\ base.once = round.once /\ base.held = round.held
        /\ base.skipped = round.skipped /\ base.moved = round.moved
    <2>1. CASE base = round
      BY <2>1 DEF AdmissionTypeOK
    <2>2. CASE base # round
      <3> DEFINE seen == round.seen \union {Rewrite(answer)}
      <3>1. seen \in SUBSET Candidates
        BY <2>2, AnswersAre DEF AdmissionTypeOK
      <3>2. base = [round EXCEPT !.seen = seen, !.changed = TRUE]
        BY <2>2
      <3> HIDE DEF seen
      <3> QED BY <3>1, <3>2 DEF AdmissionTypeOK
    <2> QED BY <2>1, <2>2
  <1>2. round' = [base EXCEPT !.held = onHold, !.moved = moved, !.passed = passed]
    BY DEF SettleGroup
  <1>3. onHold \in BOOLEAN
    BY <1>1
  <1>4. moved \in SUBSET Indices
    BY <1>1, AnswersAre DEF AdmissionTypeOK
  <1>5. passed \in Passed
    <2>1. /\ DOMAIN base.passed \subseteq Indices
          /\ base.passed \in [DOMAIN base.passed -> Keys]
      BY <1>1, PassedHave
    <2>2. /\ DOMAIN passes \subseteq Indices /\ passes \in [DOMAIN passes -> Keys]
      BY AnswersAre DEF AdmissionTypeOK
    <2> DEFINE S == DOMAIN base.passed \union DOMAIN passes
    <2>3. S \in SUBSET Indices /\ passed \in [S -> Keys]
      BY <2>1, <2>2
    <2> HIDE DEF passed, S
    <2> QED BY <2>3, PassedAre
  <1>6. DOMAIN passed = DOMAIN round.passed \union DOMAIN passes
        /\ \A i \in DOMAIN passed :
             passed[i] = IF i \in DOMAIN passes THEN Key ELSE round.passed[i]
    BY <1>1 DEF Passes
  <1> HIDE DEF onHold, moved, passed
  <1>7. /\ round' \in [seen : SUBSET Candidates, changed : BOOLEAN, passed : Passed,
                       once : SUBSET Indices, skipped : SUBSET Indices,
                       moved : SUBSET Indices, held : BOOLEAN]
        /\ round'.changed = base.changed /\ round'.once = base.once
        /\ round'.skipped = base.skipped /\ round'.held = onHold
        /\ round'.moved = moved /\ round'.passed = passed
    BY <1>1, <1>2, <1>3, <1>4, <1>5
  <1> QED BY <1>1, <1>6, <1>7 DEF onHold, moved

\* Every step keeps the types.
LEMMA TypeKept ==
    ASSUME AdmissionTypeOK, Placed, AdmissionNext
    PROVE  AdmissionTypeOK'
  <1> DEFINE Round == [seen : SUBSET Candidates, changed : BOOLEAN, passed : Passed,
                       once : SUBSET Indices, skipped : SUBSET Indices,
                       moved : SUBSET Indices, held : BOOLEAN]
             Place == [stage : Stages, step : {"choose", "capture", "reserve", "run"}]
             Files == [rev : [ReadSets -> 0..MaxEdits], left : SUBSET ReadSets,
                       outside : SUBSET ReadSets]
             Judgement == [held : BOOLEAN, key : Keys \union {NoKey}]
             Goal == /\ call' \in Candidates /\ place' \in Place /\ round' \in Round
                     /\ queue' \subseteq SUBSET Indices /\ active' \subseteq Indices
                     /\ inputs' \in Captures /\ receipts' \subseteq Receipts
                     /\ verdict' \in Judgement /\ files' \in Files
                     /\ boundary' \in {"free", "hook", "tool"} /\ recovering' \in BOOLEAN
  <1>1. plan' = plan
    BY DEF AdmissionNext, BeginPluginPlan, OpenGroup, EndPass, Captured, OpenDecision,
           ReservePluginHooks, Observe, Recheck, FreezePlugin, AdmitTool, StartEffect,
           ToolEffect, AdmissionFails, OtherWorkIsLost, Capture, HookWrites, ValidateInput,
           InputChanged, HostEdit, OutsideEdit, Edit, Refuse, FinishPluginHooks,
           RewriteCall, RewriteRefused, SettleGroup
  <1>2. /\ Indices' = Indices /\ Passed' = Passed /\ Receipts' = Receipts
        /\ \A i \in Indices : Of(i)' = Of(i)
    BY <1>1 DEF Indices, Passed, Receipts, Of
  <1>3. /\ plan \in [handlers : HandlerPlans, spent : SUBSET Nat]
        /\ call \in Candidates /\ place \in Place /\ round \in Round
        /\ queue \subseteq SUBSET Indices /\ active \subseteq Indices
        /\ inputs \in Captures /\ receipts \subseteq Receipts
        /\ verdict \in Judgement /\ files \in Files
        /\ boundary \in {"free", "hook", "tool"} /\ recovering \in BOOLEAN
    BY DEF AdmissionTypeOK
  <1>4. SUFFICES Goal
    BY <1>1, <1>2, <1>3 DEF AdmissionTypeOK
  <1>5. \A stage \in Stages, step \in {"choose", "capture", "reserve", "run"} :
           Proceed(stage, step) => place' \in Place
    BY DEF Proceed
  <1>6. \A is \in SUBSET Indices : Groups(is) \subseteq SUBSET Indices
    BY GroupsCover
  <1>7. Matching \subseteq Indices /\ Key \in Keys
    BY PlanHas
  <1>8. queue # {} => First(queue) \subseteq Indices
    <2>1. \A g \in queue : g \subseteq Nat /\ g # {}
      <3> SUFFICES ASSUME NEW g \in queue PROVE g \subseteq Nat /\ g # {}
        OBVIOUS
      <3>1. g \subseteq Indices /\ Indices \subseteq Nat
        BY <1>3, PlanHas
      <3> QED BY <3>1 DEF Placed
    <2>2. queue # {} => First(queue) \in queue
      BY <2>1, FirstIsOne
    <2> QED BY <1>3, <2>2
  <1>9. NoInputs \in Captures
    BY NothingCaptured
  <1>10. CASE BeginPluginPlan
    <2>1. round' \in Round
      BY <1>3, <1>10 DEF BeginPluginPlan
    <2>2. queue' \subseteq SUBSET Indices
      BY <1>6, <1>7, <1>10 DEF BeginPluginPlan, Rewriting
    <2>3. place' \in Place
      BY <1>5, <1>10 DEF BeginPluginPlan, Stages
    <2> QED BY <1>3, <1>10, <2>1, <2>2, <2>3 DEF BeginPluginPlan
  <1>11. CASE OpenGroup
    <2>1. place' \in Place
      BY <1>3, <1>5, <1>11 DEF OpenGroup, Stages
    <2> QED BY <1>3, <1>7, <1>9, <1>11, <2>1 DEF OpenGroup
  <1>12. CASE EndPass
    <2>1. round' \in Round
      BY <1>3, <1>12 DEF EndPass
    <2>2. place' \in Place
      BY <1>3, <1>5, <1>12 DEF EndPass, Stages
    <2>3. queue' \subseteq SUBSET Indices /\ active' \subseteq Indices /\ inputs' \in Captures
      BY <1>3, <1>6, <1>7, <1>9, <1>12 DEF EndPass, Rewriting
    <2> QED BY <1>3, <1>12, <2>1, <2>2, <2>3 DEF EndPass
  <1>13. CASE Captured
    <2>1. place' \in Place
      BY <1>3, <1>5, <1>13 DEF Captured, Stages
    <2>2. queue' \subseteq SUBSET Indices
      BY <1>3, <1>6, <1>7, <1>13 DEF Captured, Deciders
    <2> QED BY <1>3, <1>13, <2>1, <2>2 DEF Captured
  <1>14. CASE OpenDecision
    <2>1. place' \in Place
      BY <1>3, <1>5, <1>14 DEF OpenDecision
    <2> QED BY <1>3, <1>8, <1>14, <2>1 DEF OpenDecision
  <1>15. CASE ReservePluginHooks
    <2> DEFINE skipped == {i \in active : Skipped(i)}
               all == round.skipped \union skipped
               once == IF place.stage = "rechecking" THEN round.once
                       ELSE round.once \union {i \in active : Of(i).once}
    <2>1. place' \in Place
      BY <1>3, <1>5, <1>15 DEF ReservePluginHooks
    <2>2. round' \in Round
      <3>1. all \in SUBSET Indices /\ once \in SUBSET Indices
        BY <1>3
      <3>2. round' = [round EXCEPT !.skipped = all, !.once = once]
        BY <1>15 DEF ReservePluginHooks
      <3> HIDE DEF all, once
      <3> QED BY <1>3, <3>1, <3>2
    <2>3. receipts' \subseteq Receipts
      <3>1. receipts' = receipts \union {Receipt(i, "reserved") : i \in active \ skipped}
        BY <1>15 DEF ReservePluginHooks
      <3>2. \A i \in active \ skipped : Receipt(i, "reserved") \in Receipts
        BY <1>3, ReceiptsAre
      <3> HIDE DEF skipped
      <3> QED BY <1>3, <3>1, <3>2
    <2> QED BY <1>3, <1>15, <2>1, <2>2, <2>3 DEF ReservePluginHooks, Boundary
  <1>16. CASE Observe
    <2>1. place' \in Place
      BY <1>3, <1>5, <1>16 DEF Observe, Stages
    <2>2. queue' \subseteq SUBSET Indices
      BY <1>3, <1>6, <1>7, <1>16 DEF Observe, Deciders
    <2> QED BY <1>3, <1>16, <2>1, <2>2 DEF Observe
  <1>17. CASE Recheck
    <2>1. place' \in Place
      BY <1>3, <1>5, <1>17 DEF Recheck, Stages
    <2>2. queue' \subseteq SUBSET Indices
      BY <1>3, <1>6, <1>7, <1>17 DEF Recheck, Unjudged
    <2>3. round' \in Round
      <3> DEFINE onHold == round.held \/ \E i \in Unjudged : ~Of(i).recheck
      <3>1. onHold \in BOOLEAN
        BY <1>3
      <3>2. round' = [round EXCEPT !.held = onHold]
        BY <1>17 DEF Recheck
      <3> HIDE DEF onHold
      <3> QED BY <1>3, <3>1, <3>2
    <2> QED BY <1>3, <1>17, <2>1, <2>2, <2>3 DEF Recheck
  <1>18. CASE FreezePlugin
    <2>1. place' \in Place
      BY <1>3, <1>5, <1>18 DEF FreezePlugin, Stages
    <2>2. verdict' \in Judgement
      BY <1>3, <1>7, <1>18 DEF FreezePlugin
    <2>3. files' \in Files
      BY <1>3, <1>18, CapturesHave DEF FreezePlugin
    <2> QED BY <1>3, <1>18, <2>1, <2>2, <2>3 DEF FreezePlugin
  <1>19. CASE AdmitTool \/ ToolEffect
    <2>1. place' \in Place
      BY <1>3, <1>5, <1>19 DEF AdmitTool, ToolEffect, Stages
    <2> QED BY <1>3, <1>19, <2>1 DEF AdmitTool, ToolEffect
  <1>20. CASE StartEffect
    <2>1. place' \in Place
      BY <1>3, <1>5, <1>20 DEF StartEffect, Stages
    <2>2. files' \in Files
      BY <1>3, <1>20, CapturesHave DEF StartEffect, Revalidated
    <2> QED BY <1>3, <1>20, <2>1, <2>2 DEF StartEffect
  <1>21. CASE OtherWorkIsLost
    BY <1>3, <1>21 DEF OtherWorkIsLost
  <1>22. ASSUME Refuse
         PROVE  Goal
    <2>1. place' \in Place
      BY <1>5, <1>22 DEF Refuse, Stages
    <2>2. verdict' \in Judgement
      BY <1>3, <1>22 DEF Refuse
    <2> QED BY <1>3, <1>22, <2>1, <2>2 DEF Refuse
  <1>23. CASE AdmissionFails
    BY <1>22, <1>23 DEF AdmissionFails
  <1>24. ASSUME NEW r \in ReadSets, InputChanged(r)
         PROVE  Goal
    BY <1>22, <1>24 DEF InputChanged
  <1>25. ASSUME NEW r \in ReadSets, Capture(r)
         PROVE  Goal
    <2> DEFINE reads == DOMAIN inputs \union {r}
               taken == [s \in reads |-> IF s = r THEN files.rev[r] ELSE inputs[s]]
    <2>1. reads \in SUBSET ReadSets /\ taken \in [reads -> 0..MaxEdits]
      BY <1>3, CapturesHave
    <2>2. inputs' = taken
      BY <1>25 DEF Capture
    <2> HIDE DEF reads, taken
    <2>3. inputs' \in Captures
      BY <2>1, <2>2, CapturesAre
    <2> QED BY <1>3, <1>25, <2>3 DEF Capture
  <1>26. ASSUME NEW r \in ReadSets, files.rev[r] < MaxEdits, NEW outside \in SUBSET ReadSets,
                files' = [files EXCEPT !.rev[r] = @ + 1, !.outside = outside]
         PROVE  files' \in Files
    <2> DEFINE rev == [files.rev EXCEPT ![r] = @ + 1]
    <2>1. files.rev \in [ReadSets -> 0..MaxEdits]
      BY <1>3
    <2>2. rev \in [ReadSets -> 0..MaxEdits]
      BY <1>26, <2>1, ToolAdmissionAssumption
    <2>3. files' = [files EXCEPT !.rev = rev, !.outside = outside]
      BY <1>26
    <2> HIDE DEF rev
    <2> QED BY <1>3, <2>2, <2>3
  <1>27. ASSUME NEW r \in ReadSets, HookWrites(r)
         PROVE  Goal
    <2>1. files' = [files EXCEPT !.rev[r] = @ + 1, !.outside = files.outside]
      BY <1>3, <1>27 DEF HookWrites
    <2>2. files' \in Files
      BY <1>3, <1>26, <1>27, <2>1 DEF HookWrites
    <2> QED BY <1>3, <1>27, <2>2 DEF HookWrites
  <1>28. ASSUME NEW r \in ReadSets, HostEdit(r) \/ OutsideEdit(r)
         PROVE  Goal
    <2>1. PICK more \in SUBSET ReadSets : Edit(r, more)
      BY <1>28 DEF HostEdit, OutsideEdit
    <2> DEFINE outside == IF place.stage = "starting" THEN files.outside \union more
                          ELSE files.outside
    <2>2. outside \in SUBSET ReadSets
      BY <1>3
    <2>3. files' = [files EXCEPT !.rev[r] = @ + 1, !.outside = outside]
      BY <2>1 DEF Edit
    <2> HIDE DEF outside
    <2>4. files' \in Files
      BY <1>26, <2>1, <2>2, <2>3 DEF Edit
    <2> QED BY <1>3, <2>1, <2>4 DEF Edit
  <1>29. ASSUME NEW r \in ReadSets, ValidateInput(r)
         PROVE  Goal
    <2>1. files' \in Files
      BY <1>3, <1>29 DEF ValidateInput
    <2> QED BY <1>3, <1>29, <2>1 DEF ValidateInput
  <1>30. ASSUME NEW answer, FinishPluginHooks(answer) \/ RewriteCall(answer)
                              \/ RewriteRefused(answer)
         PROVE  Goal
    <2>1. PICK base : /\ \/ base = round
                         \/ base = [round EXCEPT !.seen = @ \union {Rewrite(answer)},
                                                 !.changed = TRUE]
                      /\ base # round => Proposed(answer) # {}
                      /\ SettleGroup(answer, base)
      BY <1>30 DEF FinishPluginHooks, RewriteCall, RewriteRefused, NewCandidate
    <2>2. Answered(answer)
      BY <1>30 DEF FinishPluginHooks, RewriteCall, RewriteRefused
    <2>3. round' \in Round
      BY <2>1, <2>2, RoundAfter
    <2>4. call' \in Candidates
      BY <1>3, <1>30, <2>2, AnswersAre
         DEF FinishPluginHooks, RewriteCall, RewriteRefused, NewCandidate
    <2>5. place' \in Place
      BY <1>3, <1>5, <1>30 DEF FinishPluginHooks, RewriteCall, RewriteRefused, Stages
    <2>6. receipts' \subseteq Receipts
      <3>1. receipts' = (receipts \ {Receipt(i, "reserved") : i \in active})
                        \union {Receipt(i, Settled(answer, i)) : i \in active}
        BY <2>1 DEF SettleGroup
      <3>2. \A i \in active : Receipt(i, Settled(answer, i)) \in Receipts
        BY <1>3, <2>2, AnswersAre, ReceiptsAre
      <3> QED BY <1>3, <3>1, <3>2
    <2>7. verdict' \in Judgement
      BY <1>3, <1>30 DEF FinishPluginHooks, RewriteCall, RewriteRefused
    <2>8. recovering' \in BOOLEAN
      BY <1>3, <2>1 DEF SettleGroup
    <2> QED BY <1>3, <2>1, <2>3, <2>4, <2>5, <2>6, <2>7, <2>8 DEF SettleGroup
  <1> QED BY <1>10, <1>11, <1>12, <1>13, <1>14, <1>15, <1>16, <1>17, <1>18, <1>19,
             <1>20, <1>21, <1>23, <1>24, <1>25, <1>27, <1>28, <1>29, <1>30
          DEF AdmissionNext
-----------------------------------------------------------------------------
(* Who was heard.                                                          *)

Heard5 == TransformersHeard /\ GatesHeard /\ ObserversHeard /\ CombinedHeard /\ Backed
Rest == Placed /\ Frozen /\ Guarded /\ Allowed

\* An answer that was received is never taken back.
LEMMA HeardKept ==
    ASSUME plan' = plan, call' = call,
           Excused \subseteq Excused', round.once \subseteq round'.once,
           \A p \in receipts : Settles(p) => p \in receipts'
    PROVE  /\ Matching' = Matching /\ \A i : Of(i)' = Of(i)
           /\ \A i : HeardOut(i) => HeardOut(i)'
           /\ inputs' = inputs => Key' = Key /\ \A i : Attended(i) => Attended(i)'
  <1>1. Matching' = Matching /\ \A i : Of(i)' = Of(i)
    BY DEF Matching, Matches, Indices, Of
  <1>2. \A i : HeardOut(i) => HeardOut(i)'
    BY DEF HeardOut
  <1>3. ASSUME inputs' = inputs
        PROVE  Key' = Key /\ \A i : Attended(i) => Attended(i)'
    <2>1. Key' = Key
      BY <1>3 DEF Key
    <2> QED BY <2>1 DEF Attended
  <1> QED BY <1>1, <1>2, <1>3

\* Steps beside the admission.
LEMMA BesideIsQuiet ==
    ASSUME AdmissionTypeOK, Heard5, Rest, NEW r, r \in ReadSets \/ OtherWorkIsLost,
           \/ Capture(r) \/ HookWrites(r) \/ ValidateInput(r) \/ HostEdit(r) \/ OutsideEdit(r)
           \/ OtherWorkIsLost
    PROVE  Heard5' /\ Rest'
  <1>1. /\ UNCHANGED <<plan, call, place, round, queue, active, receipts, verdict, boundary>>
        /\ inputs' = inputs \/ place.step = "capture"
    BY DEF Capture, HookWrites, ValidateInput, HostEdit, OutsideEdit, Edit, OtherWorkIsLost
  <1>2. /\ Matching' = Matching /\ \A i : Of(i)' = Of(i)
        /\ \A i : HeardOut(i) => HeardOut(i)'
        /\ inputs' = inputs => Key' = Key /\ \A i : Attended(i) => Attended(i)'
    BY <1>1, HeardKept DEF Excused
  <1>3. Pending' = Pending
    BY <1>1 DEF Pending
  <1>4. place.stage \in Judging \union Final => inputs' = inputs
    BY <1>1 DEF Rest, Placed, Judging, Final
  <1>5. Heard5'
    <2>1. TransformersHeard'
      BY <1>1, <1>2, <1>3 DEF Heard5, TransformersHeard
    <2>2. GatesHeard' /\ ObserversHeard' /\ CombinedHeard'
      BY <1>1, <1>2, <1>3, <1>4
         DEF Heard5, GatesHeard, ObserversHeard, CombinedHeard, Judging, Final
    <2>3. Backed'
      BY <1>1, <1>2 DEF Heard5, Backed
    <2> QED BY <2>1, <2>2, <2>3 DEF Heard5
  <1>6. Placed' /\ Frozen'
    BY <1>1, <1>2, <1>4 DEF Rest, Placed, Frozen
  <1>7. Guarded'
    <2> SUFFICES ASSUME place.stage \in {"starting", "released"}, boundary = "tool",
                        NEW s \in DOMAIN inputs' \ files'.left
                 PROVE  Current(s)' \/ s \in files'.outside
      BY <1>1 DEF Guarded
    <2>1. inputs' = inputs
      BY <1>4 DEF Final
    <2>2. s \notin files.left => Current(s) \/ s \in files.outside
      BY <2>1 DEF Rest, Guarded
    <2>3. place.step = "choose"
      BY DEF Rest, Placed, Final
    <2>4. s \in ReadSets
      BY <2>1, CapturesHave DEF AdmissionTypeOK
    <2>5. CASE ValidateInput(r)
      BY <2>1, <2>2, <2>4, <2>5 DEF ValidateInput, Current, AdmissionTypeOK
    <2>6. CASE OutsideEdit(r)
      BY <2>1, <2>2, <2>4, <2>6 DEF OutsideEdit, Edit, Current, AdmissionTypeOK
    <2>7. CASE ~ValidateInput(r) /\ ~OutsideEdit(r)
      <3>1. files' = files
        BY <2>3, <2>7 DEF Capture, HookWrites, HostEdit, OtherWorkIsLost
      <3> QED BY <2>1, <2>2, <3>1 DEF Current
    <2> QED BY <2>5, <2>6, <2>7
  <1>8. Allowed'
    <2> SUFFICES ASSUME place.stage = "released" PROVE files' = files
      BY <1>1 DEF Rest, Allowed
    <2>1. place.step = "choose" /\ files.left = {}
      BY DEF Rest, Placed, Final, Allowed
    <2> QED BY <2>1 DEF Capture, HookWrites, ValidateInput, HostEdit, OutsideEdit, Edit,
                        OtherWorkIsLost
  <1> QED BY <1>5, <1>6, <1>7, <1>8 DEF Rest

\* A refusal ends it.
LEMMA RefusedIsQuiet ==
    ASSUME Heard5, Rest, Refuse
    PROVE  Heard5' /\ Rest'
  <1>1. /\ UNCHANGED <<plan, round, receipts, queue>> /\ place'.stage = "refused"
        /\ place'.step = "choose"
    BY DEF Refuse, Proceed
  <1>2. \A i : Of(i)' = Of(i)
    BY <1>1 DEF Of
  <1>3. Heard5'
    BY <1>1, <1>2 DEF Heard5, TransformersHeard, GatesHeard, ObserversHeard, CombinedHeard,
                      Backed, Judging, Final
  <1> QED BY <1>1, <1>3 DEF Rest, Placed, Frozen, Guarded, Allowed, Judging, Final

\* The steps of the rewriting loop.
LEMMA RewritingHears ==
    ASSUME AdmissionTypeOK, Heard5, Rest, BeginPluginPlan \/ OpenGroup \/ EndPass
    PROVE  Heard5' /\ Rest'
  <1>1. /\ UNCHANGED <<plan, call, receipts>>
        /\ round'.skipped = round.skipped /\ round'.moved = round.moved
        /\ round'.once = round.once /\ round'.passed = round.passed
        /\ place'.stage \in {"rewriting", "freezing"}
        /\ place'.stage = "freezing" => place'.step = "capture" /\ ~round.changed /\ queue = {}
                                        /\ place.stage = "rewriting"
    BY DEF BeginPluginPlan, OpenGroup, EndPass, AdmissionTypeOK, Proceed, At
  <1>2. /\ Matching' = Matching /\ \A i : Of(i)' = Of(i)
        /\ \A i : HeardOut(i) => HeardOut(i)'
    BY <1>1, HeardKept DEF Excused
  <1>3. \A i \in Matching : Of(i).class = "Transformer" => HeardOut(i) \/ i \in Rewriting
    BY DEF Heard5, Backed, Rewriting, HeardOut, Excused
  <1>4. TransformersHeard'
    <2> SUFFICES ASSUME NEW i \in Matching, Of(i).class = "Transformer", ~HeardOut(i)
                 PROVE  /\ place'.stage = "rewriting"
                        /\ ~round'.changed => i \in Pending'
      BY <1>1, <1>2 DEF TransformersHeard, Judging, Final
    <2>1. i \in Rewriting
      BY <1>3
    <2>2. UNION Groups(Rewriting) = Rewriting
      BY GroupsCover
    <2>3. CASE BeginPluginPlan
      BY <2>1, <2>2, <2>3 DEF BeginPluginPlan, Proceed, Pending
    <2>4. CASE OpenGroup
      <3>1. /\ place.stage = "rewriting" /\ place'.stage = "rewriting"
            /\ round' = round /\ active = {}
            /\ queue' = queue \ {First(queue)}
            /\ active' = First(queue) \intersect Matching
        BY <2>4 DEF OpenGroup, Proceed, Rest, Placed
      <3>2. ~round.changed => i \in Pending
        BY <3>1 DEF Heard5, TransformersHeard
      <3>3. ASSUME i \in UNION queue PROVE i \in Pending'
        <4>1. i \in First(queue) \/ i \in UNION (queue \ {First(queue)})
          BY <3>3, OthersWait
        <4> QED BY <3>1, <4>1 DEF Pending
      <3> QED BY <3>1, <3>2, <3>3 DEF Pending
    <2>5. CASE EndPass
      <3>1. /\ place.stage = "rewriting" /\ queue = {} /\ active = {}
        BY <2>5 DEF EndPass, At, Rest, Placed
      <3>2. round.changed
        BY <3>1 DEF Heard5, TransformersHeard, Pending
      <3>3. queue' = Groups(Rewriting) /\ place' = place
        BY <2>5, <3>2 DEF EndPass
      <3> QED BY <2>1, <2>2, <3>1, <3>3 DEF Pending
    <2> QED BY <2>3, <2>4, <2>5
  <1>5. GatesHeard' /\ ObserversHeard' /\ CombinedHeard' /\ Frozen' /\ Guarded' /\ Allowed'
    BY <1>1 DEF GatesHeard, ObserversHeard, CombinedHeard, Frozen, Guarded, Allowed, Final
  <1>6. Backed'
    BY <1>1, <1>2 DEF Heard5, Backed
  <1>7. Placed'
    <2>1. {} \notin queue'
      BY GroupsCover DEF BeginPluginPlan, OpenGroup, EndPass, Rest, Placed
    <2>2. place'.step = "choose" => active' = {}
      BY DEF BeginPluginPlan, OpenGroup, EndPass, At, Proceed, Rest, Placed
    <2> QED BY <1>1, <2>1, <2>2 DEF Placed, Judging, Final
  <1> QED BY <1>4, <1>5, <1>6, <1>7 DEF Heard5, Rest

\* The final candidate goes to the handlers that judge it.
LEMMA DecidingHears ==
    ASSUME AdmissionTypeOK, Heard5, Rest, Captured \/ OpenDecision \/ Observe
    PROVE  Heard5' /\ Rest'
  <1>1. /\ UNCHANGED <<plan, call, receipts, round, inputs>>
        /\ place'.stage \in {"rewriting"} \union Judging
        /\ place'.stage = "rewriting" => Captured /\ place.stage = "rewriting"
                                                  /\ UNCHANGED <<queue, active>>
        /\ place'.stage = "deciding" => \/ Captured /\ place.stage = "freezing"
                                        \/ OpenDecision /\ place.stage = "deciding"
        /\ place'.stage = "observing" => \/ Observe /\ place.stage = "deciding"
                                         \/ OpenDecision /\ place.stage = "observing"
        /\ place'.stage = "rechecking" => OpenDecision /\ place.stage = "rechecking"
    BY DEF Captured, OpenDecision, Observe, StageDone, At, Proceed, Judging, Rest, Placed,
           Final, AdmissionTypeOK, Stages
  <1>2. /\ Matching' = Matching /\ \A i : Of(i)' = Of(i)
        /\ \A i : HeardOut(i) => HeardOut(i)'
        /\ \A i : Attended(i) => Attended(i)'
    BY <1>1, HeardKept DEF Excused
  <1>3. ASSUME OpenDecision, NEW i, i \in Pending PROVE i \in Pending'
    <2>1. active = {} /\ active' = First(queue) /\ queue' = queue \ {First(queue)}
      BY <1>3 DEF OpenDecision, Rest, Placed
    <2>2. i \in First(queue) \/ i \in UNION (queue \ {First(queue)})
      BY <1>3, <2>1, OthersWait DEF Pending
    <2> QED BY <2>1, <2>2 DEF Pending
  <1>4. ASSUME NEW i, Observe, i \in Pending PROVE FALSE
    BY <1>4 DEF Observe, StageDone, At, Rest, Placed, Pending
  <1>5. TransformersHeard'
    BY <1>1, <1>2 DEF Heard5, TransformersHeard, Pending, Judging, Final
  <1>6. GatesHeard'
    <2> SUFFICES ASSUME NEW i \in Matching, Of(i).class = "DecisionGate", ~Attended(i),
                        place'.stage # "rewriting"
                 PROVE  place'.stage = "deciding" /\ i \in Pending'
      BY <1>1, <1>2 DEF GatesHeard, Judging, Final
    <2>1. CASE place'.stage = "deciding" /\ Captured
      <3>1. UNION Deciders("DecisionGate") = {j \in Matching : Of(j).class = "DecisionGate"}
        BY GroupsCover DEF Deciders
      <3> QED BY <1>1, <2>1, <3>1 DEF Captured, Pending
    <2>2. CASE place'.stage = "deciding" /\ OpenDecision /\ place.stage = "deciding"
      BY <1>3, <2>2 DEF Heard5, GatesHeard
    <2>3. CASE place'.stage \in {"observing", "rechecking"}
      BY <1>1, <1>4, <2>3 DEF Heard5, GatesHeard
    <2> QED BY <1>1, <2>1, <2>2, <2>3 DEF Judging
  <1>7. ObserversHeard'
    <2> SUFFICES ASSUME NEW i \in Matching, Of(i).class = "Observer", ~Attended(i),
                        place'.stage \in {"observing", "rechecking"}
                 PROVE  place'.stage = "observing" /\ i \in Pending'
      BY <1>1, <1>2 DEF ObserversHeard, Judging, Final
    <2>1. CASE place'.stage = "observing" /\ Observe
      <3>1. UNION Deciders("Observer") = {j \in Matching : Of(j).class = "Observer"}
        BY GroupsCover DEF Deciders
      <3> QED BY <2>1, <3>1 DEF Observe, Pending
    <2>2. CASE place'.stage = "observing" /\ OpenDecision /\ place.stage = "observing"
      BY <1>3, <2>2 DEF Heard5, ObserversHeard
    <2>3. CASE place'.stage = "rechecking"
      BY <1>1, <2>3 DEF Heard5, ObserversHeard
    <2> QED BY <1>1, <2>1, <2>2, <2>3
  <1>8. CombinedHeard'
    <2> SUFFICES ASSUME NEW i \in Matching, Of(i).class = "Combined", ~Attended(i),
                        place'.stage = "rechecking", ~round.held
                 PROVE  i \in Pending'
      BY <1>1, <1>2 DEF CombinedHeard, Judging, Final
    <2> QED BY <1>1, <1>3 DEF Heard5, CombinedHeard
  <1>9. Backed'
    BY <1>1, <1>2 DEF Heard5, Backed
  <1>10. Frozen' /\ Guarded' /\ Allowed'
    BY <1>1 DEF Frozen, Guarded, Allowed, Judging, Final
  <1>11. Placed'
    <2>1. {} \notin queue'
      BY GroupsCover DEF Captured, OpenDecision, Observe, Deciders, Rest, Placed
    <2>2. /\ place'.step \in {"choose", "reserve"}
          /\ place'.step = "choose" => active' = {}
      BY DEF Captured, OpenDecision, Observe, StageDone, At, Proceed, Rest, Placed
    <2> QED BY <1>1, <2>1, <2>2 DEF Placed, Judging, Final
  <1> QED BY <1>5, <1>6, <1>7, <1>8, <1>9, <1>10, <1>11 DEF Heard5, Rest

\* A combined handler whose pass does not count judges again, or holds the call.
LEMMA RecheckHears ==
    ASSUME AdmissionTypeOK, Heard5, Rest, Recheck
    PROVE  Heard5' /\ Rest'
  <1> DEFINE onHold == round.held \/ \E i \in Unjudged : ~Of(i).recheck
  <1>1. /\ UNCHANGED <<plan, call, receipts, inputs, active>>
        /\ round' = [round EXCEPT !.held = onHold]
        /\ place.stage = "observing" /\ active = {} /\ queue = {}
        /\ place' = [stage |-> "rechecking", step |-> "choose"]
        /\ queue' = Groups({i \in Unjudged : Of(i).recheck})
    BY DEF Recheck, StageDone, At, Proceed, Rest, Placed
  <1>2. /\ round'.held = onHold /\ round'.once = round.once /\ round'.passed = round.passed
        /\ round'.skipped = round.skipped /\ round'.moved = round.moved
    BY <1>1 DEF AdmissionTypeOK
  <1>3. /\ Matching' = Matching /\ \A i : Of(i)' = Of(i)
        /\ \A i : HeardOut(i) => HeardOut(i)'
        /\ \A i : Attended(i) => Attended(i)'
    BY <1>1, <1>2, HeardKept DEF Excused
  <1>4. Pending' = {i \in Unjudged : Of(i).recheck}
    <2>1. UNION queue' = {i \in Unjudged : Of(i).recheck}
      BY <1>1, GroupsCover
    <2> QED BY <1>1, <2>1 DEF Pending
  <1>5. TransformersHeard' /\ GatesHeard' /\ ObserversHeard'
    BY <1>1, <1>3 DEF Heard5, TransformersHeard, GatesHeard, ObserversHeard, Judging, Final,
                      Pending
  <1>6. CombinedHeard'
    <2> SUFFICES ASSUME NEW i \in Matching, Of(i).class = "Combined", ~Attended(i), ~onHold
                 PROVE  i \in Pending'
      BY <1>1, <1>2, <1>3 DEF CombinedHeard, Final
    <2>1. i \in Unjudged
      BY DEF Heard5, Backed, Attended, Unjudged, Excused
    <2> QED BY <1>4, <2>1
  <1>7. Backed'
    BY <1>1, <1>2, <1>3 DEF Heard5, Backed
  <1>8. Placed' /\ Frozen' /\ Guarded' /\ Allowed'
    <2>1. {} \notin queue'
      BY <1>1, GroupsCover
    <2> QED BY <1>1, <2>1 DEF Placed, Frozen, Guarded, Allowed, Judging, Final
  <1> QED BY <1>5, <1>6, <1>7, <1>8 DEF Heard5, Rest

\* From the frozen key to the effect.
LEMMA ReleaseHears ==
    ASSUME AdmissionTypeOK, Heard5, Rest, FreezePlugin \/ AdmitTool \/ StartEffect \/ ToolEffect
    PROVE  Heard5' /\ Rest'
  <1>1. /\ UNCHANGED <<plan, call, receipts, inputs, active, round, queue>>
        /\ place.stage \in {"rechecking"} \union Final
        /\ place'.stage \in {"refused"} \union Final
        /\ place.step = "choose" /\ place'.step = "choose" /\ active = {}
        /\ place.stage = "rechecking" => queue = {}
        /\ place.stage = "rechecking" /\ place'.stage # "refused" => ~round.held
    BY DEF FreezePlugin, AdmitTool, StartEffect, ToolEffect, StageDone, At, Proceed, Final,
           Rest, Placed, AdmissionTypeOK
  <1>2. /\ Matching' = Matching /\ \A i : Of(i)' = Of(i)
        /\ \A i : HeardOut(i) => HeardOut(i)'
        /\ Key' = Key /\ \A i : Attended(i) => Attended(i)'
    BY <1>1, HeardKept DEF Excused
  <1>3. TransformersHeard' /\ GatesHeard' /\ ObserversHeard' /\ CombinedHeard'
    BY <1>1, <1>2 DEF Heard5, TransformersHeard, GatesHeard, ObserversHeard, CombinedHeard,
                      Judging, Final, Pending
  <1>4. Backed'
    BY <1>1, <1>2 DEF Heard5, Backed
  <1>5. Placed'
    BY <1>1 DEF Rest, Placed, Judging, Final
  <1>6. Frozen'
    <2>1. CASE FreezePlugin
      BY <1>2, <2>1 DEF FreezePlugin, Frozen
    <2>2. CASE ~FreezePlugin
      BY <1>2, <2>2 DEF AdmitTool, StartEffect, ToolEffect, Rest, Frozen, Final
    <2> QED BY <2>1, <2>2
  <1>7. Guarded'
    <2>1. CASE FreezePlugin \/ AdmitTool
      BY <2>1 DEF FreezePlugin, AdmitTool, Proceed, Guarded
    <2>2. CASE StartEffect
      <3>1. files'.left = DOMAIN inputs /\ inputs' = inputs
        BY <2>2 DEF StartEffect, Revalidated, AdmissionTypeOK
      <3> QED BY <3>1 DEF Guarded
    <2>3. CASE ToolEffect
      BY <2>3 DEF ToolEffect, Rest, Guarded, Current
    <2> QED BY <2>1, <2>2, <2>3
  <1>8. Allowed'
    <2>1. CASE ToolEffect
      BY <2>1 DEF ToolEffect, FinalKeyHolds, Allowed
    <2>2. CASE ~ToolEffect
      BY <2>2 DEF FreezePlugin, AdmitTool, StartEffect, Proceed, Allowed
    <2> QED BY <2>1, <2>2
  <1> QED BY <1>3, <1>4, <1>5, <1>6, <1>7, <1>8 DEF Heard5, Rest
\* A one-shot consumed by an earlier event is excused.
LEMMA ReserveHears ==
    ASSUME AdmissionTypeOK, Heard5, Rest, ReservePluginHooks
    PROVE  Heard5' /\ Rest'
  <1> DEFINE skipped == {i \in active : Skipped(i)}
             all == round.skipped \union skipped
             once == IF place.stage = "rechecking" THEN round.once
                     ELSE round.once \union {i \in active : Of(i).once}
             reserved == {Receipt(i, "reserved") : i \in active \ skipped}
  <1>1. /\ UNCHANGED <<plan, call, queue, inputs, verdict, files>>
        /\ place'.stage = place.stage /\ place'.step = "run" /\ place.step = "reserve"
        /\ round' = [round EXCEPT !.skipped = all, !.once = once]
        /\ receipts' = receipts \union reserved
        /\ active' = active \ skipped
    BY DEF ReservePluginHooks, Proceed
  <1>2. round.once \subseteq once
    OBVIOUS
  <1>3. skipped \subseteq all /\ round.skipped \subseteq all
    OBVIOUS
  <1>4. \A i \in active : i \in active \ skipped \/ i \in skipped
    OBVIOUS
  <1> HIDE DEF all, once, reserved, skipped
  <1>5. /\ round'.skipped = all /\ round'.moved = round.moved /\ round'.once = once
        /\ round'.passed = round.passed /\ round'.changed = round.changed
        /\ round'.held = round.held
    BY <1>1 DEF AdmissionTypeOK
  <1>6. Excused \subseteq Excused' /\ skipped \subseteq Excused'
    BY <1>3, <1>5 DEF Excused
  <1>7. /\ Matching' = Matching /\ \A i : Of(i)' = Of(i)
        /\ \A i : HeardOut(i) => HeardOut(i)'
        /\ Key' = Key /\ \A i : Attended(i) => Attended(i)'
    BY <1>1, <1>2, <1>5, <1>6, HeardKept
  <1>8. \A i \in Pending : i \in Pending' \/ (HeardOut(i)' /\ Attended(i)')
    BY <1>1, <1>4, <1>6 DEF Pending, HeardOut, Attended
  <1>9. place.stage \in {"rewriting"} \union Judging
    BY <1>1 DEF Rest, Placed, AdmissionTypeOK, Stages, Judging, Final
  <1>10. TransformersHeard' /\ GatesHeard' /\ ObserversHeard' /\ CombinedHeard'
    BY <1>1, <1>5, <1>7, <1>8, <1>9
       DEF Heard5, TransformersHeard, GatesHeard, ObserversHeard, CombinedHeard, Judging, Final
  <1>11. Backed'
    BY <1>1, <1>5, <1>7 DEF Heard5, Backed
  <1>12. Placed' /\ Frozen' /\ Guarded' /\ Allowed'
    BY <1>1, <1>9 DEF Rest, Placed, Frozen, Guarded, Allowed, Judging, Final
  <1> QED BY <1>10, <1>11, <1>12 DEF Heard5, Rest

\* Every member of the group was heard on the call it was asked about.
LEMMA AnswersHear ==
    ASSUME AdmissionTypeOK, Heard5, Rest, NEW answer,
           FinishPluginHooks(answer) \/ RewriteCall(answer) \/ RewriteRefused(answer)
    PROVE  Heard5' /\ Rest'
  <1>1. PICK base : /\ \/ base = round
                       \/ base = [round EXCEPT !.seen = @ \union {Rewrite(answer)},
                                               !.changed = TRUE]
                    /\ base # round => Proposed(answer) # {}
                    /\ RewriteCall(answer) =>
                         base = [round EXCEPT !.seen = @ \union {Rewrite(answer)},
                                              !.changed = TRUE]
                    /\ FinishPluginHooks(answer) => base = round
                    /\ SettleGroup(answer, base)
    <2>1. CASE RewriteCall(answer)
      <3>1. ~FinishPluginHooks(answer)
        BY <2>1 DEF RewriteCall, FinishPluginHooks
      <3> QED BY <2>1, <3>1 DEF RewriteCall, NewCandidate
    <2>2. CASE ~RewriteCall(answer)
      BY <2>2 DEF FinishPluginHooks, RewriteRefused
    <2> QED BY <2>1, <2>2
  <1>2. /\ Answered(answer) /\ place.step = "run" /\ place'.step = "choose"
        /\ place'.stage \in {place.stage, "refused"}
        /\ place.stage # "rewriting" => ~RewriteCall(answer)
        /\ ~RewriteCall(answer) => call' = call
        /\ RewriteRefused(answer) => place'.stage = "refused"
    BY DEF FinishPluginHooks, RewriteCall, RewriteRefused, NewCandidate, Answered, Proceed
  <1>3. /\ plan' = plan /\ queue' = queue /\ inputs' = inputs /\ active' = {}
        /\ receipts' = (receipts \ {Receipt(i, "reserved") : i \in active})
                       \union {Receipt(i, Settled(answer, i)) : i \in active}
    BY <1>1 DEF SettleGroup
  <1>4. /\ round'.changed = base.changed /\ round'.once = round.once
        /\ round'.skipped = round.skipped
        /\ round'.moved = round.moved \union Moved(answer)
        /\ round.held => round'.held
        /\ DOMAIN round'.passed = DOMAIN round.passed \union DOMAIN Passes(answer)
        /\ \A i \in DOMAIN round'.passed :
             round'.passed[i] = IF i \in DOMAIN Passes(answer) THEN Key
                                ELSE round.passed[i]
    BY <1>1, <1>2, RoundAfter
  <1>5. \A p \in receipts : Settles(p) => p \in receipts'
    BY <1>3 DEF Receipt, Settles
  <1>6. ASSUME NEW i \in active
        PROVE  \/ i \in Moved(answer)
               \/ \E p \in receipts' : p.of = i /\ p.key = Key /\ Settles(p)
    <2> DEFINE p == Receipt(i, Settled(answer, i))
    <2>1. p \in receipts'
      BY <1>3, <1>6
    <2>2. p.of = i /\ p.key = Key /\ p.state = Settled(answer, i)
      BY DEF Receipt
    <2>3. /\ Settled(answer, i) \in {"moved", "lost", "held", "clear"}
          /\ Settled(answer, i) = "moved" <=> i \in Moved(answer)
      BY <1>2, <1>6, AnswersAre
    <2> HIDE DEF p
    <2> QED BY <2>1, <2>2, <2>3 DEF Settles
  <1>7. place.stage \in {"rewriting"} \union Judging
    BY <1>2 DEF Rest, Placed, AdmissionTypeOK, Stages, Judging, Final
  <1>8. Backed'
    <2> SUFFICES ASSUME NEW i \in DOMAIN round'.passed
                 PROVE  /\ Of(i)'.class = "Combined"
                        /\ \E p \in receipts' : /\ p.of = i /\ p.key = round'.passed[i]
                                                /\ Settles(p)
      BY DEF Backed, Settles
    <2>1. Of(i)' = Of(i)
      BY <1>3 DEF Of
    <2>2. CASE i \in DOMAIN Passes(answer)
      <3>1. i \in active /\ i \notin Moved(answer) /\ Class(i) = "Combined"
        BY <2>2 DEF Passes
      <3>2. Of(i).class = "Combined"
        BY <3>1 DEF Class
      <3> QED BY <1>4, <1>6, <2>1, <2>2, <3>1, <3>2
    <2>3. CASE i \notin DOMAIN Passes(answer)
      <3>1. i \in DOMAIN round.passed /\ round'.passed[i] = round.passed[i]
        BY <1>4, <2>3
      <3> QED BY <1>5, <2>1, <3>1 DEF Heard5, Backed
    <2> QED BY <2>2, <2>3
  <1>9. ASSUME call' = call
        PROVE  /\ Matching' = Matching /\ \A i : Of(i)' = Of(i)
               /\ \A i : HeardOut(i) => HeardOut(i)'
               /\ \A i : Attended(i) => Attended(i)'
               /\ \A i \in Pending : i \in Pending' \/ (HeardOut(i)' /\ Attended(i)')
    <2>1. Excused \subseteq Excused' /\ Moved(answer) \subseteq Excused'
      BY <1>4 DEF Excused
    <2>2. /\ Matching' = Matching /\ \A i : Of(i)' = Of(i)
          /\ \A i : HeardOut(i) => HeardOut(i)'
          /\ Key' = Key /\ \A i : Attended(i) => Attended(i)'
      BY <1>3, <1>4, <1>5, <1>9, <2>1, HeardKept
    <2>3. ASSUME NEW i \in active PROVE HeardOut(i)' /\ Attended(i)'
      <3>1. CASE i \in Moved(answer)
        BY <2>1, <3>1 DEF HeardOut, Attended
      <3>2. CASE i \notin Moved(answer)
        <4>1. PICK p \in receipts' : p.of = i /\ p.key = Key /\ Settles(p)
          BY <1>6, <2>3, <3>2
        <4>2. p.key.call = call'
          BY <1>9, <4>1 DEF Key
        <4> QED BY <2>2, <4>1, <4>2 DEF HeardOut, Attended, Settles
      <3> QED BY <3>1, <3>2
    <2> QED BY <1>3, <2>2, <2>3 DEF Pending
  <1>10. TransformersHeard'
    <2>1. CASE RewriteCall(answer)
      <3>1. place'.stage = "rewriting" /\ round'.changed
        <4>1. base = [round EXCEPT !.seen = @ \union {Rewrite(answer)}, !.changed = TRUE]
          BY <1>1, <2>1
        <4>2. base.changed
          BY <4>1 DEF AdmissionTypeOK
        <4> QED BY <1>4, <2>1, <4>2 DEF RewriteCall, NewCandidate, Proceed
      <3> QED BY <3>1 DEF TransformersHeard, Judging, Final
    <2>2. CASE FinishPluginHooks(answer)
      <3>1. round'.changed = round.changed /\ place'.stage = place.stage /\ call' = call
        BY <1>1, <1>4, <2>2 DEF FinishPluginHooks, Proceed
      <3> QED BY <1>7, <1>9, <3>1 DEF Heard5, TransformersHeard, Judging, Final
    <2>3. CASE RewriteRefused(answer)
      BY <1>2, <2>3 DEF TransformersHeard, Judging, Final
    <2> QED BY <2>1, <2>2, <2>3
  <1>11. GatesHeard' /\ ObserversHeard' /\ CombinedHeard'
    <2>1. CASE place'.stage \in Judging
      <3>1. place.stage = place'.stage /\ call' = call
        BY <1>2, <2>1 DEF Judging
      <3> QED BY <1>4, <1>9, <2>1, <3>1
              DEF Heard5, GatesHeard, ObserversHeard, CombinedHeard, Judging, Final
    <2>2. CASE place'.stage \notin Judging
      BY <1>2, <1>7, <2>2 DEF GatesHeard, ObserversHeard, CombinedHeard, Judging, Final
    <2> QED BY <2>1, <2>2
  <1>12. Placed' /\ Frozen' /\ Guarded' /\ Allowed'
    BY <1>2, <1>3, <1>7 DEF Rest, Placed, Frozen, Guarded, Allowed, Judging, Final
  <1> QED BY <1>8, <1>10, <1>11, <1>12 DEF Heard5, Rest
-----------------------------------------------------------------------------
(* The invariant.                                                          *)

LEMMA AdmissionInitially ==
    ASSUME AdmissionInit
    PROVE  AdmissionInv
  <1>1. PICK handlers \in HandlerPlans :
          \E spent \in SUBSET {i \in DOMAIN handlers : handlers[i].once} :
              plan = [handlers |-> handlers, spent |-> spent]
    BY DEF AdmissionInit
  <1>2. PICK spent \in SUBSET {i \in DOMAIN handlers : handlers[i].once} :
          plan = [handlers |-> handlers, spent |-> spent]
    BY <1>1
  <1>3. DOMAIN handlers \subseteq Nat
    BY ToolAdmissionAssumption
  <1>4. [i \in {} |-> NoKey] \in Passed
    <2>1. [i \in {} |-> NoKey] \in [{} -> Keys]
      OBVIOUS
    <2> QED BY <2>1, PassedAre
  <1>5. AdmissionTypeOK
    <2>1. plan \in [handlers : HandlerPlans, spent : SUBSET Nat]
      BY <1>2, <1>3
    <2>2. round \in [seen : SUBSET Candidates, changed : BOOLEAN, passed : Passed,
                     once : SUBSET Indices, skipped : SUBSET Indices,
                     moved : SUBSET Indices, held : BOOLEAN]
      BY <1>4 DEF AdmissionInit
    <2>3. files \in [rev : [ReadSets -> 0..MaxEdits], left : SUBSET ReadSets,
                     outside : SUBSET ReadSets]
      BY ToolAdmissionAssumption DEF AdmissionInit
    <2> QED BY <2>1, <2>2, <2>3, NothingCaptured DEF AdmissionInit, AdmissionTypeOK, Stages
  <1>6. Backed
    <2>1. DOMAIN round.passed = {}
      BY DEF AdmissionInit
    <2> QED BY <2>1 DEF Backed
  <1> QED BY <1>5, <1>6 DEF AdmissionInit, AdmissionInv, TransformersHeard, GatesHeard,
             ObserversHeard, CombinedHeard, Placed, Frozen, Guarded, Allowed, Judging, Final

LEMMA Inductive ==
    ASSUME AdmissionInv, AdmissionNext \/ UNCHANGED admissionVars
    PROVE  AdmissionInv'
  <1>1. AdmissionTypeOK /\ Heard5 /\ Rest
    BY DEF AdmissionInv, Heard5, Rest
  <1>2. CASE UNCHANGED admissionVars
    BY <1>2 DEF admissionVars, AdmissionInv, AdmissionTypeOK, Indices, Passed, Receipts,
       TransformersHeard, GatesHeard, ObserversHeard, CombinedHeard, Backed, Placed, Frozen,
       Guarded, Allowed, Matching, Matches, Of, Pending, HeardOut, Attended, Excused, Key,
       Current
  <1>3. CASE AdmissionNext
    <2>1. AdmissionTypeOK'
      BY <1>1, <1>3, TypeKept DEF Rest
    <2>2. CASE BeginPluginPlan \/ OpenGroup \/ EndPass
      BY <1>1, <2>1, <2>2, RewritingHears DEF Heard5, Rest, AdmissionInv
    <2>3. CASE Captured \/ OpenDecision \/ Observe
      BY <1>1, <2>1, <2>3, DecidingHears DEF Heard5, Rest, AdmissionInv
    <2>4. CASE Recheck
      BY <1>1, <2>1, <2>4, RecheckHears DEF Heard5, Rest, AdmissionInv
    <2>5. CASE FreezePlugin \/ AdmitTool \/ StartEffect \/ ToolEffect
      BY <1>1, <2>1, <2>5, ReleaseHears DEF Heard5, Rest, AdmissionInv
    <2>6. CASE ReservePluginHooks
      BY <1>1, <2>1, <2>6, ReserveHears DEF Heard5, Rest, AdmissionInv
    <2>7. CASE AdmissionFails \/ \E r \in ReadSets : InputChanged(r)
      <3>1. Refuse
        BY <2>7 DEF AdmissionFails, InputChanged
      <3> QED BY <1>1, <2>1, <3>1, RefusedIsQuiet DEF Heard5, Rest, AdmissionInv
    <2>8. ASSUME NEW r \in ReadSets,
                 \/ Capture(r) \/ HookWrites(r) \/ ValidateInput(r)
                 \/ HostEdit(r) \/ OutsideEdit(r)
          PROVE  AdmissionInv'
      BY <1>1, <2>1, <2>8, BesideIsQuiet DEF Heard5, Rest, AdmissionInv
    <2>9. CASE OtherWorkIsLost
      BY <1>1, <2>1, <2>9, BesideIsQuiet DEF Heard5, Rest, AdmissionInv
    <2>10. ASSUME NEW answer,
                  FinishPluginHooks(answer) \/ RewriteCall(answer) \/ RewriteRefused(answer)
           PROVE  AdmissionInv'
      BY <1>1, <2>1, <2>10, AnswersHear DEF Heard5, Rest, AdmissionInv
    <2> QED BY <1>3, <2>2, <2>3, <2>4, <2>5, <2>6, <2>7, <2>8, <2>9, <2>10 DEF AdmissionNext
  <1> QED BY <1>2, <1>3

\* Every reachable state has the types of AdmissionTypeOK.
THEOREM AdmissionTypeCorrect == AdmissionSpec => []AdmissionTypeOK
  <1>1. AdmissionInit => AdmissionInv
    BY AdmissionInitially
  <1>2. AdmissionInv /\ [AdmissionNext]_admissionVars => AdmissionInv'
    BY Inductive
  <1>3. AdmissionInv => AdmissionTypeOK
    BY DEF AdmissionInv
  <1> QED BY <1>1, <1>2, <1>3, PTL DEF AdmissionSpec

(* A tool has an effect only with the call that was frozen, only when every *)
(* handler that matches it was heard on exactly that call, and under the    *)
(* boundary only when no file they read has changed since (admission.rs).   *)
THEOREM EffectApproved == AdmissionSpec => []EffectIsApproved
  <1>1. AdmissionInit => AdmissionInv
    BY AdmissionInitially
  <1>2. AdmissionInv /\ [AdmissionNext]_admissionVars => AdmissionInv'
    BY Inductive
  <1>3. ASSUME AdmissionInv PROVE EffectIsApproved
    <2> SUFFICES ASSUME place.stage = "released"
                 PROVE  /\ verdict.key.call = call
                        /\ \A p \in receipts : p.state \in {"clear", "moved"}
                        /\ \A i \in Matching :
                             IF Of(i).class = "Transformer" THEN Heard(i) ELSE Judged(i)
                        /\ boundary = "tool" => \A r \in DOMAIN verdict.key.inputs :
                                            Current(r) \/ r \in files.outside
      BY DEF EffectIsApproved
    <2>1. /\ verdict.key = Key /\ files.left = {} /\ place.stage \in Final
          /\ \A p \in receipts : p.state \in {"clear", "moved"}
      BY <1>3 DEF AdmissionInv, Frozen, Allowed, Final
    <2>2. \A p \in receipts : Settles(p) => p.state = "clear"
      BY <2>1 DEF Settles
    <2>3. \A i : HeardOut(i) => Heard(i)
      BY <2>2 DEF HeardOut, Heard, Excused
    <2>4. \A i : Attended(i) => Judged(i)
      BY <2>1, <2>2 DEF Attended, Judged, Excused
    <2>5. ASSUME NEW i \in Matching
          PROVE  IF Of(i).class = "Transformer" THEN HeardOut(i) ELSE Attended(i)
      <3>1. Of(i).class \in Classes
        BY <1>3, PlanHas DEF AdmissionInv, Handlers
      <3> QED BY <1>3, <2>1, <3>1 DEF AdmissionInv, TransformersHeard, GatesHeard,
                 ObserversHeard, CombinedHeard, Classes
    <2>6. boundary = "tool" => \A r \in DOMAIN inputs : Current(r) \/ r \in files.outside
      BY <1>3, <2>1 DEF AdmissionInv, Guarded
    <2> QED BY <2>1, <2>3, <2>4, <2>5, <2>6 DEF Key
  <1> QED BY <1>1, <1>2, <1>3, PTL DEF AdmissionSpec
=============================================================================
