--------------------------- MODULE SubagentsProofs ---------------------------
(***************************************************************************)
(* Proofs about Subagents for any number of agents and any limits.         *)
(***************************************************************************)
EXTENDS Subagents, TLAPS

Merging == {"inspecting", "merging"}
Started(a) == status[a] \notin {"none", "Queued"}

\* The registry: a task that was told to stop, or that nobody waits for, does not
\* work; an agent has one task that is not detached; and tasks are taken out of the
\* registry by a cancellation in progress only.
Registry ==
    /\ \A o \in owners :
         /\ o.mode \in {"told", "detached"} => o.step \notin Working
         /\ o.mode = "taken" => control.kind \in {"cancel", "stop"}
         /\ o.mode = "told" => control.kind \in {"cancelWait", "stopWait"}
         /\ o.step \in Merging => o.job = "integrate"
         /\ Started(o.agent)
    /\ \A o, p \in owners :
         o.agent = p.agent /\ o.mode # "detached" /\ p.mode # "detached" => o = p

\* Launches: of a control, which nothing else meets; or of the queue, for an agent
\* that no task has served yet.
Launches ==
    \A l \in launching :
        /\ l.source = "control" => control = NoControl
        /\ l.source = "pump" => l.job = "work"
        /\ l.job = "work" => /\ status[l.agent] \in {"Preparing", "Cancelled"}
                             /\ \A o \in owners : o.agent # l.agent
        /\ Started(l.agent)
        /\ \A m \in launching : l.source = "control" /\ m.source = "control" => l = m
        /\ \A m \in launching : l.agent = m.agent /\ l.job = "work" => l = m

Stops ==
    stopping => \/ \A o \in owners : o.step \notin Working
                \/ /\ control.kind = "stop"
                   /\ \A o \in owners : o.step \in Working => o.mode = "taken"

Recorded == \A a \in Agents : status[a] = "Integrated" => a \in merged

\* An integration or a reconciliation is of an agent whose work is not to be started.
Handled ==
    control.kind \in {"integrate", "reconcile"} =>
        /\ control.agent \in Agents /\ Started(control.agent)
        /\ \A l \in launching : l.agent = control.agent => l.job # "work"

GInv == TypeOK /\ Registry /\ Launches /\ Stops /\ Recorded /\ Handled

-----------------------------------------------------------------------------
\* When clean-ups end in time, an agent has one task at all.
Vacant(a) == /\ \A o \in owners : o.agent # a
             /\ \A l \in launching : l.agent # a
Sole ==
    /\ \A o, p \in owners : o.agent = p.agent => o = p
    /\ \A l \in launching : \A o \in owners : o.agent # l.agent
    /\ \A l, m \in launching : l.agent = m.agent => l = m
    /\ control.kind = "integrate" =>
         status[control.agent] = "Ready" /\ Vacant(control.agent)
    /\ control.kind = "reconcile" =>
         status[control.agent] = "Uncertain" /\ Vacant(control.agent)

InHand ==
    \A o \in owners :
        /\ o.mode = "registered" /\ o.step \in Working => status[o.agent] \in Active
        /\ o.mode = "registered" /\ o.step \in Merging => status[o.agent] = "Integrating"
        /\ o.mode = "taken" /\ o.step \in Merging => held

Quiet ==
    busy => /\ \A o \in owners : o.step \notin Merging
            /\ \A l \in launching : l.job # "integrate"
            /\ control.kind # "integrate"

Unrecorded(o) ==
    /\ o.job = "integrate" /\ o.mode = "registered"
    /\ o.step = "merging" \/ (o.step = "ending" /\ ~o.ok)
    /\ status[o.agent] = "Integrating"
Guarded == touched => held \/ \E o \in owners : Unrecorded(o)

LInv == Sole /\ InHand /\ Quiet /\ Guarded
LGuard == Lingering \/ LInv

-----------------------------------------------------------------------------
(* The registry and the queue, whatever clean-ups take.                    *)

LEMMA Initially == Init => GInv /\ LInv
  <1> SUFFICES ASSUME Init PROVE GInv /\ LInv
    OBVIOUS
  <1>1. TypeOK
    <2>1. control \in Controls
      BY DEF Init, NoControl, Controls
    <2>2. corrections \in [Agents -> 0..CorrectionLimit]
      BY SubagentsAssumption DEF Init
    <2> QED BY <2>1, <2>2 DEF Init, TypeOK
  <1>2. Registry /\ Launches /\ Stops /\ Recorded /\ Handled
    BY DEF Init, Registry, Launches, Stops, Recorded, Handled, NoControl
  <1>3. Sole /\ InHand /\ Quiet /\ Guarded
    BY DEF Init, Sole, InHand, Quiet, Guarded, NoControl
  <1> QED BY <1>1, <1>2, <1>3 DEF GInv, LInv

\* A task takes a step and settles the status of its agent.
LEMMA OwnerMoves ==
    ASSUME GInv, NEW o \in owners, NEW n \in Owner,
           n.agent = o.agent, n.job = o.job, n.mode = o.mode,
           n.step \in Working => o.step \in Working,
           n.step \in Merging => o.step \in Merging,
           owners' = (owners \ {o}) \union {n},
           NEW s \in AgentStatus \ {"Queued"},
           status' = [status EXCEPT ![o.agent] = s],
           merged \subseteq merged',
           s = "Integrated" => status[o.agent] = s \/ o.agent \in merged',
           UNCHANGED <<launching, stopping, control>>
    PROVE  Registry' /\ Launches' /\ Stops' /\ Recorded' /\ Handled'
  <1>1. /\ o \in Owner /\ o.agent \in Agents /\ status \in [Agents -> AgentStatus \union {"none"}]
        /\ owners \subseteq Owner /\ launching \subseteq Launch
    BY DEF GInv, TypeOK, Owner
  <1>2. /\ \A a \in Agents : a # o.agent => status'[a] = status[a]
        /\ status'[o.agent] = s
        /\ s # "none" /\ s # "Queued"
    BY <1>1 DEF AgentStatus
  <1>3. Registry'
    <2>1. ASSUME NEW p \in owners'
          PROVE  /\ p.mode \in {"told", "detached"} => p.step \notin Working
                 /\ p.mode = "taken" => control'.kind \in {"cancel", "stop"}
                 /\ p.mode = "told" => control'.kind \in {"cancelWait", "stopWait"}
                 /\ p.step \in Merging => p.job = "integrate"
                 /\ Started(p.agent)'
      <3>1. CASE p = n
        BY <1>2, <3>1 DEF GInv, Registry, Started
      <3>2. CASE p \in owners
        <4>1. p.agent \in Agents
          BY <1>1, <3>2 DEF Owner
        <4> QED BY <1>2, <3>2, <4>1 DEF GInv, Registry, Started
      <3> QED BY <3>1, <3>2
    <2>2. ASSUME NEW p \in owners', NEW q \in owners', p.agent = q.agent,
                 p.mode # "detached", q.mode # "detached"
          PROVE  p = q
      BY <2>2 DEF GInv, Registry
    <2> QED BY <2>1, <2>2 DEF Registry
  <1>4. Launches'
    <2>1. ASSUME NEW l \in launching
          PROVE  /\ l.source = "control" => control' = NoControl
                 /\ l.source = "pump" => l.job = "work"
                 /\ l.job = "work" => /\ status'[l.agent] \in {"Preparing", "Cancelled"}
                                      /\ \A p \in owners' : p.agent # l.agent
                 /\ Started(l.agent)'
      <3>1. l.agent \in Agents
        BY <1>1 DEF Launch
      <3>2. l.job = "work" => l.agent # o.agent
        BY DEF GInv, Launches
      <3> QED BY <1>2, <3>1, <3>2 DEF GInv, Launches, Started
    <2> QED BY <2>1 DEF Launches, GInv
  <1>5. Stops'
    BY DEF GInv, Stops
  <1>6. Recorded'
    BY <1>1, <1>2 DEF GInv, Recorded
  <1>7. Handled'
    BY <1>1, <1>2 DEF GInv, Handled, Started
  <1> QED BY <1>3, <1>4, <1>5, <1>6, <1>7

\* The queue is admitted: its agents were served by no task before.
LEMMA PumpMoves ==
    ASSUME GInv, Pump, owners' \subseteq owners,
           control' \in {control, NoControl}, control.kind \in {"pump", control'.kind},
           UNCHANGED <<stopping, merged>>
    PROVE  /\ Registry' /\ Launches' /\ Stops' /\ Recorded' /\ Handled'
           /\ status' \in [Agents -> AgentStatus \union {"none"}]
           /\ launching' \in SUBSET Launch
  <1>1. /\ status \in [Agents -> AgentStatus \union {"none"}]
        /\ owners \subseteq Owner /\ launching \subseteq Launch
    BY DEF GInv, TypeOK
  <1>2. /\ status' \in [Agents -> AgentStatus \union {"none"}]
        /\ \A a \in Agents : Started(a) => status'[a] = status[a]
        /\ \A a \in Agents : status'[a] = status[a] \/ status'[a] = "Preparing"
    BY <1>1 DEF Pump, Admitted, Eligible, AgentStatus, Started
  <1>3. /\ launching' \in SUBSET Launch
        /\ \A l \in launching' \ launching :
             /\ l.source = "pump" /\ l.job = "work"
             /\ l.agent \in Agents /\ ~Started(l.agent)
             /\ status'[l.agent] = "Preparing"
        /\ launching \subseteq launching'
    <2>1. CASE UNCHANGED launching
      BY <1>1, <2>1
    <2>2. CASE ~UNCHANGED launching
      <3> DEFINE new(a) == [agent |-> a, job |-> "work", source |-> "pump"]
      <3>1. /\ launching' = launching \union {new(a) : a \in Admitted}
            /\ status' = [a \in Agents |->
                            IF a \in Admitted THEN "Preparing" ELSE status[a]]
        BY <2>2 DEF Pump
      <3>2. \A a \in Admitted :
              /\ a \in Agents /\ ~Started(a) /\ status'[a] = "Preparing"
              /\ new(a) \in Launch /\ new(a).source = "pump"
              /\ new(a).job = "work" /\ new(a).agent = a
        BY <3>1 DEF Admitted, Eligible, Started, Launch, Jobs
      <3> HIDE DEF new
      <3> QED BY <1>1, <3>1, <3>2
    <2> QED BY <2>1, <2>2
  <1>4. Registry'
    BY <1>1, <1>2 DEF GInv, Registry, Started, Owner
  <1>5. Launches'
    BY <1>1, <1>2, <1>3 DEF GInv, Registry, Launches, Started, Launch
  <1>6. Stops'
    BY DEF GInv, Stops
  <1>7. Recorded'
    BY <1>1, <1>2 DEF GInv, Recorded
  <1>8. Handled'
    BY <1>1, <1>2, <1>3 DEF GInv, Handled, Started, NoControl
  <1> QED BY <1>2, <1>3, <1>4, <1>5, <1>6, <1>7, <1>8

\* One step of one task, as OwnerMoves takes it.
Moves(o, n, s) ==
    /\ n \in Owner /\ n.agent = o.agent /\ n.job = o.job /\ n.mode = o.mode
    /\ n.step \in Working => o.step \in Working
    /\ n.step \in Merging => o.step \in Merging
    /\ owners' = (owners \ {o}) \union {n}
    /\ s \in AgentStatus \ {"Queued"}
    /\ status' = [status EXCEPT ![o.agent] = s]
    /\ merged \subseteq merged'
    /\ s = "Integrated" => status[o.agent] = s \/ o.agent \in merged'
    /\ UNCHANGED <<launching, stopping, control>>

LEMMA MovesKeep ==
    ASSUME GInv, NEW o \in owners, NEW n, NEW s, Moves(o, n, s),
           orchestrate' \in BOOLEAN, UNCHANGED <<needs, paused>>,
           completed' \in [Agents -> BOOLEAN], cleared' \in [Agents -> BOOLEAN],
           corrections' \in [Agents -> 0..CorrectionLimit],
           held' \in BOOLEAN, busy' \in BOOLEAN, touched' \in BOOLEAN,
           merged' \in SUBSET Agents
    PROVE  GInv'
  <1>1. Registry' /\ Launches' /\ Stops' /\ Recorded' /\ Handled'
    BY OwnerMoves DEF Moves
  <1>2. TypeOK'
    BY DEF Moves, GInv, TypeOK, AgentStatus
  <1> QED BY <1>1, <1>2 DEF GInv

LEMMA OwnerFacts ==
    ASSUME GInv, NEW o \in owners
    PROVE  /\ o \in Owner /\ o.agent \in Agents
           /\ status \in [Agents -> AgentStatus \union {"none"}]
           /\ status[o.agent] \in AgentStatus \ {"Queued"}
           /\ status = [status EXCEPT ![o.agent] = status[o.agent]]
  <1>1. o \in Owner /\ status \in [Agents -> AgentStatus \union {"none"}]
    BY DEF GInv, TypeOK
  <1>2. o.agent \in Agents
    BY <1>1 DEF Owner
  <1>3. status[o.agent] \notin {"none", "Queued"}
    BY DEF GInv, Registry, Started
  <1> QED BY <1>1, <1>2, <1>3

\* The same when clean-ups end in time: what the step must see to.
LEMMA MovesSettle ==
    ASSUME GInv, LInv, NEW o \in owners, NEW n, NEW s, Moves(o, n, s),
           held => held', busy' = busy,
           o.mode = "registered" /\ n.step \in Working => s \in Active,
           o.mode = "registered" /\ n.step \in Merging => s = "Integrating",
           touched' => touched \/ n.step = "merging",
           Unrecorded(o) => \/ held' \/ ~touched'
                            \/ /\ s = "Integrating"
                               /\ n.step = "merging" \/ (n.step = "ending" /\ ~n.ok)
    PROVE  LInv'
  <1>1. /\ owners \subseteq Owner /\ launching \subseteq Launch
        /\ o \in Owner /\ o.agent \in Agents
        /\ status \in [Agents -> AgentStatus \union {"none"}]
    BY OwnerFacts DEF GInv, TypeOK
  <1>2. /\ n.agent = o.agent /\ n.job = o.job /\ n.mode = o.mode
        /\ n.step \in Working => o.step \in Working
        /\ n.step \in Merging => o.step \in Merging
        /\ owners' = (owners \ {o}) \union {n}
        /\ status'[o.agent] = s
        /\ \A a \in Agents : a # o.agent => status'[a] = status[a]
        /\ UNCHANGED <<launching, stopping, control>>
    BY <1>1 DEF Moves
  <1>3. \A p \in owners : p # o => /\ p.agent \in Agents /\ p.agent # o.agent
                                 /\ status'[p.agent] = status[p.agent]
    BY <1>1, <1>2 DEF LInv, Sole, Owner
  <1>4. Sole'
    <2>1. control.kind \in {"integrate", "reconcile"} =>
            control.agent \in Agents /\ control.agent # o.agent
      BY DEF GInv, Handled, LInv, Sole, Vacant
    <2> QED BY <1>2, <1>3, <2>1 DEF LInv, Sole, Vacant
  <1>5. InHand'
    BY <1>2, <1>3 DEF LInv, InHand
  <1>6. Quiet'
    BY <1>2 DEF LInv, Quiet
  <1>7. Guarded'
    <2> SUFFICES ASSUME touched', ~held' PROVE \E p \in owners' : Unrecorded(p)'
      BY DEF Guarded
    <2>1. CASE \E p \in owners : p # o /\ Unrecorded(p)
      BY <1>2, <1>3, <2>1 DEF Unrecorded
    <2>2. CASE Unrecorded(o)
      BY <1>2, <2>2 DEF Unrecorded
    <2>3. CASE n.step = "merging"
      <3>1. o.step \in Merging /\ o.step \in Working /\ n.step \in Merging
        BY <1>2, <2>3 DEF Merging, Working
      <3>2. o.mode = "registered"
        BY <1>1, <3>1 DEF LInv, InHand, GInv, Registry, Owner
      <3> QED BY <1>2, <2>3, <3>1, <3>2 DEF GInv, Registry, Unrecorded
    <2> QED BY <2>1, <2>2, <2>3 DEF LInv, Guarded
  <1> QED BY <1>4, <1>5, <1>6, <1>7 DEF LInv

LEMMA WorktreePreparedKeeps ==
    ASSUME GInv, NEW o \in owners, WorktreePrepared(o)
    PROVE  GInv' /\ (LInv => LInv')
  <1> DEFINE n == [o EXCEPT !.step = "working"]
  <1>1. /\ n \in Owner /\ n.agent = o.agent /\ n.job = o.job /\ n.mode = o.mode
        /\ n.step \in Working => o.step \in Working
        /\ n.step \in Merging => o.step \in Merging
        /\ n.step = "working"
    BY OwnerFacts DEF Owner, Working, Merging, WorktreePrepared
  <1>2. owners' = (owners \ {o}) \union {n}
    BY DEF WorktreePrepared, Becomes
  <1> HIDE DEF n
  <1>3. Moves(o, n, "Running")
    BY <1>1, <1>2, OwnerFacts
      DEF Moves, WorktreePrepared, SetStatus, AgentStatus, session, history,
          record
  <1>5. GInv'
    BY <1>3, MovesKeep, OwnerFacts
      DEF WorktreePrepared, GInv, TypeOK, session, history, record
  <1>6. ASSUME LInv PROVE LInv'
    BY <1>1, <1>3, <1>6, MovesSettle
       DEF WorktreePrepared, session, history, Unrecorded, LInv, InHand, Working, Merging, Active
  <1> QED BY <1>5, <1>6

LEMMA CollectEvidenceKeeps ==
    ASSUME GInv, NEW o \in owners, CollectEvidence(o)
    PROVE  GInv' /\ (LInv => LInv')
  <1> DEFINE n == [o EXCEPT !.step = "deciding"]
  <1>1. /\ n \in Owner /\ n.agent = o.agent /\ n.job = o.job /\ n.mode = o.mode
        /\ n.step \in Working => o.step \in Working
        /\ n.step \in Merging => o.step \in Merging
        /\ n.step = "deciding"
    BY OwnerFacts DEF Owner, Working, Merging, CollectEvidence
  <1>2. owners' = (owners \ {o}) \union {n}
    BY DEF CollectEvidence, Becomes
  <1> HIDE DEF n
  <1>3. Moves(o, n, "Validating")
    BY <1>1, <1>2, OwnerFacts
      DEF Moves, CollectEvidence, SetStatus, AgentStatus, session, history,
          record
  <1>5. GInv'
    BY <1>3, MovesKeep, OwnerFacts
      DEF CollectEvidence, GInv, TypeOK, session, history, record
  <1>6. ASSUME LInv PROVE LInv'
    BY <1>1, <1>3, <1>6, MovesSettle
       DEF CollectEvidence, session, history, Unrecorded, LInv, InHand, Working, Merging, Active
  <1> QED BY <1>5, <1>6

LEMMA ClearKeeps ==
    ASSUME GInv, NEW o \in owners, Clear(o)
    PROVE  GInv' /\ (LInv => LInv')
  <1> DEFINE n == [o EXCEPT !.step = "ending", !.ok = TRUE]
  <1>1. /\ n \in Owner /\ n.agent = o.agent /\ n.job = o.job /\ n.mode = o.mode
        /\ n.step \in Working => o.step \in Working
        /\ n.step \in Merging => o.step \in Merging
        /\ n.step = "ending"
    BY OwnerFacts DEF Owner, Working, Merging, Clear
  <1>2. owners' = (owners \ {o}) \union {n}
    BY DEF Clear, Ends
  <1> HIDE DEF n
  <1>3. Moves(o, n, "Ready")
    BY <1>1, <1>2, OwnerFacts
      DEF Moves, Clear, SetStatus, AgentStatus, session, history, record
  <1>5. GInv'
    BY <1>3, MovesKeep, OwnerFacts
      DEF Clear, GInv, TypeOK, session, history, record
  <1>6. ASSUME LInv PROVE LInv'
    BY <1>1, <1>3, <1>6, MovesSettle
       DEF Clear, session, history, Unrecorded, LInv, InHand, Working, Merging, Active
  <1> QED BY <1>5, <1>6

LEMMA HoldKeeps ==
    ASSUME GInv, NEW o \in owners, Hold(o)
    PROVE  GInv' /\ (LInv => LInv')
  <1> DEFINE n == [o EXCEPT !.step = "ending", !.ok = TRUE]
  <1>1. /\ n \in Owner /\ n.agent = o.agent /\ n.job = o.job /\ n.mode = o.mode
        /\ n.step \in Working => o.step \in Working
        /\ n.step \in Merging => o.step \in Merging
        /\ n.step = "ending"
    BY OwnerFacts DEF Owner, Working, Merging, Hold
  <1>2. owners' = (owners \ {o}) \union {n}
    BY DEF Hold, Ends
  <1> HIDE DEF n
  <1>3. Moves(o, n, "Failed")
    BY <1>1, <1>2, OwnerFacts
      DEF Moves, Hold, SetStatus, AgentStatus, session, history, record
  <1>5. GInv'
    BY <1>3, MovesKeep, OwnerFacts
      DEF Hold, GInv, TypeOK, session, history, record
  <1>6. ASSUME LInv PROVE LInv'
    BY <1>1, <1>3, <1>6, MovesSettle
       DEF Hold, session, history, Unrecorded, LInv, InHand, Working, Merging, Active
  <1> QED BY <1>5, <1>6

LEMMA CorrectKeeps ==
    ASSUME GInv, NEW o \in owners, Correct(o)
    PROVE  GInv' /\ (LInv => LInv')
  <1> DEFINE n == [o EXCEPT !.step = "working"]
  <1>1. /\ n \in Owner /\ n.agent = o.agent /\ n.job = o.job /\ n.mode = o.mode
        /\ n.step \in Working => o.step \in Working
        /\ n.step \in Merging => o.step \in Merging
        /\ n.step = "working"
    BY OwnerFacts DEF Owner, Working, Merging, Correct
  <1>2. owners' = (owners \ {o}) \union {n}
    BY DEF Correct, Becomes
  <1> HIDE DEF n
  <1>3. Moves(o, n, "Running")
    BY <1>1, <1>2, OwnerFacts
      DEF Moves, Correct, SetStatus, AgentStatus, session, history, record
  <1>4. corrections' \in [Agents -> 0..CorrectionLimit]
    <2>1. corrections[o.agent] + 1 \in 0..CorrectionLimit
      BY OwnerFacts, SubagentsAssumption DEF Correct, GInv, TypeOK
    <2> QED BY <2>1 DEF Correct, GInv, TypeOK
  <1>5. GInv'
    BY <1>3, <1>4, MovesKeep
      DEF Correct, GInv, TypeOK, session, history, record
  <1>6. ASSUME LInv PROVE LInv'
    BY <1>1, <1>3, <1>6, MovesSettle
       DEF Correct, session, history, Unrecorded, LInv, InHand, Working, Merging, Active
  <1> QED BY <1>5, <1>6

LEMMA BeginMergeKeeps ==
    ASSUME GInv, NEW o \in owners, BeginMerge(o)
    PROVE  GInv' /\ (LInv => LInv')
  <1> DEFINE n == [o EXCEPT !.step = "merging"]
  <1>1. /\ n \in Owner /\ n.agent = o.agent /\ n.job = o.job /\ n.mode = o.mode
        /\ n.step \in Working => o.step \in Working
        /\ n.step \in Merging => o.step \in Merging
        /\ n.step = "merging"
    BY OwnerFacts DEF Owner, Working, Merging, BeginMerge
  <1>2. owners' = (owners \ {o}) \union {n}
    BY DEF BeginMerge, Becomes
  <1> HIDE DEF n
  <1>3. Moves(o, n, status[o.agent])
    BY <1>1, <1>2, OwnerFacts
      DEF Moves, BeginMerge, SetStatus, AgentStatus, session, history, record
  <1>5. GInv'
    BY <1>3, MovesKeep, OwnerFacts
      DEF BeginMerge, GInv, TypeOK, session, history, record
  <1>6. ASSUME LInv PROVE LInv'
    BY <1>1, <1>3, <1>6, MovesSettle
       DEF BeginMerge, session, history, Unrecorded, LInv, InHand, Working, Merging, Active
  <1> QED BY <1>5, <1>6

LEMMA JobFailsKeeps ==
    ASSUME GInv, NEW o \in owners, JobFails(o)
    PROVE  GInv' /\ (LInv => LInv')
  <1> DEFINE n == [o EXCEPT !.step = "ending", !.ok = FALSE]
  <1>1. /\ n \in Owner /\ n.agent = o.agent /\ n.job = o.job /\ n.mode = o.mode
        /\ n.step \in Working => o.step \in Working
        /\ n.step \in Merging => o.step \in Merging
        /\ n.step = "ending" /\ n.ok = FALSE
    BY OwnerFacts DEF Owner, Working, Merging, JobFails
  <1>2. owners' = (owners \ {o}) \union {n}
    BY DEF JobFails, Ends
  <1> HIDE DEF n
  <1>3. Moves(o, n, status[o.agent])
    BY <1>1, <1>2, OwnerFacts
      DEF Moves, JobFails, SetStatus, AgentStatus, session, history, record
  <1>5. GInv'
    BY <1>3, MovesKeep, OwnerFacts
      DEF JobFails, GInv, TypeOK, session, history, record
  <1>6. ASSUME LInv PROVE LInv'
    BY <1>1, <1>3, <1>6, MovesSettle
       DEF JobFails, session, history, Unrecorded, LInv, InHand, Working, Merging, Active
  <1> QED BY <1>5, <1>6

LEMMA WorkerTurnEndsKeeps ==
    ASSUME GInv, NEW o \in owners, WorkerTurnEnds(o)
    PROVE  GInv' /\ (LInv => LInv')
  <1> DEFINE n == IF orchestrate THEN [o EXCEPT !.step = "judging"]
                  ELSE [o EXCEPT !.step = "ending", !.ok = TRUE]
             s == IF orchestrate THEN "Validating" ELSE status[o.agent]
  <1>1. /\ n \in Owner /\ n.agent = o.agent /\ n.job = o.job /\ n.mode = o.mode
        /\ n.step \in Working => o.step \in Working
        /\ n.step \in Merging => o.step \in Merging
        /\ n.step \in {"judging", "ending"} /\ (n.step = "judging" => s = "Validating")
    BY OwnerFacts DEF Owner, Working, Merging, WorkerTurnEnds
  <1>2. owners' = (owners \ {o}) \union {n}
    BY DEF WorkerTurnEnds, Becomes, Ends
  <1>3. /\ s \in AgentStatus \ {"Queued"}
        /\ status' = [status EXCEPT ![o.agent] = s]
        /\ s = "Integrated" => status[o.agent] = s
    BY OwnerFacts DEF WorkerTurnEnds, SetStatus, AgentStatus
  <1> HIDE DEF n, s
  <1>4. Moves(o, n, s)
    BY <1>1, <1>2, <1>3 DEF Moves, WorkerTurnEnds, session, history
  <1>5. GInv'
    BY <1>4, MovesKeep, OwnerFacts
       DEF WorkerTurnEnds, GInv, TypeOK, session, history
  <1>6. ASSUME LInv PROVE LInv'
    BY <1>1, <1>4, <1>6, MovesSettle
       DEF WorkerTurnEnds, session, history, Unrecorded, Working, Merging, Active
  <1> QED BY <1>5, <1>6

LEMMA ReviewEndsKeeps ==
    ASSUME GInv, NEW o \in owners, ReviewEnds(o)
    PROVE  GInv' /\ (LInv => LInv')
  <1> DEFINE n == [o EXCEPT !.step = "ending", !.ok = TRUE]
  <1>1. /\ n \in Owner /\ n.agent = o.agent /\ n.job = o.job /\ n.mode = o.mode
        /\ n.step \in Working => o.step \in Working
        /\ n.step \in Merging => o.step \in Merging
        /\ n.step = "ending"
    BY OwnerFacts DEF Owner, Working, Merging, ReviewEnds
  <1>2. owners' = (owners \ {o}) \union {n}
    BY DEF ReviewEnds, Ends
  <1> HIDE DEF n
  <1>3. PICK clear \in BOOLEAN :
          /\ status' = [status EXCEPT ![o.agent] = IF clear THEN "Ready" ELSE "Stopped"]
          /\ cleared' = [cleared EXCEPT ![o.agent] = clear]
    BY DEF ReviewEnds, SetStatus
  <1>4. \E s : Moves(o, n, s)
    <2>1. CASE clear
      <3>1. Moves(o, n, "Ready")
        BY <1>1, <1>2, <1>3, <2>1
          DEF Moves, ReviewEnds, session, history, AgentStatus
      <3> QED BY <3>1
    <2>2. CASE ~clear
      <3>1. Moves(o, n, "Stopped")
        BY <1>1, <1>2, <1>3, <2>2
          DEF Moves, ReviewEnds, session, history, AgentStatus
      <3> QED BY <3>1
    <2> QED BY <2>1, <2>2
  <1>5. PICK s : Moves(o, n, s)
    BY <1>4
  <1>6. GInv'
    BY <1>3, <1>5, MovesKeep, OwnerFacts
      DEF ReviewEnds, GInv, TypeOK, session, history
  <1>7. ASSUME LInv PROVE LInv'
    BY <1>1, <1>5, <1>7, MovesSettle
       DEF ReviewEnds, session, history, Unrecorded, Working, Merging
  <1> QED BY <1>6, <1>7

LEMMA EndedTask ==
    ASSUME GInv, NEW o \in owners, NEW ok \in BOOLEAN
    PROVE  LET n == [o EXCEPT !.step = "ending", !.ok = ok]
           IN  /\ n \in Owner /\ n.agent = o.agent /\ n.job = o.job
               /\ n.mode = o.mode /\ n.step = "ending" /\ n.ok = ok
  BY OwnerFacts DEF Owner

LEMMA RecordMergeKeeps ==
    ASSUME GInv, NEW o \in owners, RecordMerge(o)
    PROVE  GInv' /\ (LInv => LInv')
  <1> DEFINE n(ok) == [o EXCEPT !.step = "ending", !.ok = ok]
  <1>1. \A ok \in BOOLEAN :
          /\ n(ok) \in Owner /\ n(ok).agent = o.agent /\ n(ok).job = o.job
          /\ n(ok).mode = o.mode /\ n(ok).step = "ending" /\ n(ok).ok = ok
    BY EndedTask
  <1>2. "ending" \notin Working /\ "ending" \notin Merging
    BY DEF Working, Merging
  <1>3. /\ merged' \in SUBSET Agents /\ touched' \in BOOLEAN
        /\ \E x, s : /\ Moves(o, x, s) /\ x.step = "ending"
                     /\ ~touched' \/ (touched' = touched /\ s = status[o.agent] /\ ~x.ok)
    <2>1. CASE ~stopping /\ status[o.agent] = "Integrating"
      <3>1. /\ owners' = (owners \ {o}) \union {n(TRUE)}
            /\ status' = [status EXCEPT ![o.agent] = "Integrated"]
            /\ merged' = merged \union {o.agent} /\ touched' = FALSE
            /\ UNCHANGED <<launching, stopping, control>>
        BY <2>1 DEF RecordMerge, Ends, SetStatus, session
      <3> HIDE DEF n
      <3>2. Moves(o, n(TRUE), "Integrated")
        BY <1>1, <1>2, <3>1 DEF Moves, AgentStatus
      <3> QED BY <1>1, <3>1, <3>2, OwnerFacts DEF GInv, TypeOK
    <2>2. CASE ~(~stopping /\ status[o.agent] = "Integrating")
      <3>1. /\ owners' = (owners \ {o}) \union {n(FALSE)}
            /\ UNCHANGED <<status, merged, touched, launching, stopping, control>>
        BY <2>2 DEF RecordMerge, Ends, session
      <3> HIDE DEF n
      <3>2. Moves(o, n(FALSE), status[o.agent])
        BY <1>1, <1>2, <3>1, OwnerFacts DEF Moves
      <3> QED BY <1>1, <3>1, <3>2 DEF GInv, TypeOK
    <2> QED BY <2>1, <2>2
  <1> HIDE DEF n
  <1>4. PICK x, s : /\ Moves(o, x, s) /\ x.step = "ending"
                    /\ ~touched' \/ (touched' = touched /\ s = status[o.agent] /\ ~x.ok)
    BY <1>3
  <1>5. GInv'
    BY <1>3, <1>4, MovesKeep DEF RecordMerge, GInv, TypeOK, session
  <1>6. ASSUME LInv PROVE LInv'
    BY <1>2, <1>4, <1>6, MovesSettle DEF RecordMerge, session, Unrecorded
  <1> QED BY <1>5, <1>6

\* finish_job leaves an agent in a status, and makes none integrated.
LEMMA OutcomeIsStatus ==
    ASSUME GInv, NEW o \in owners, NEW ok \in BOOLEAN, NEW s \in Outcomes(o, ok)
    PROVE  /\ s \in AgentStatus \ {"Queued"}
           /\ s = "Integrated" => status[o.agent] = s
           /\ o.job = "integrate" /\ ~ok => s = "Uncertain"
  BY OwnerFacts DEF Outcomes, AgentStatus

LEMMA FinishJobKeeps ==
    ASSUME GInv, NEW o \in owners, FinishJob(o)
    PROVE  GInv' /\ (LInv /\ ~Lingering => LInv')
  <1> DEFINE n == [o EXCEPT !.step = "pumping"]
  <1>1. /\ n \in Owner /\ n.agent = o.agent /\ n.job = o.job /\ n.mode = o.mode
        /\ n.step \in Working => o.step \in Working
        /\ n.step \in Merging => o.step \in Merging
        /\ n.step = "pumping"
    BY OwnerFacts DEF Owner, Working, Merging
  <1>2. owners' = (owners \ {o}) \union {n}
    BY DEF FinishJob, Becomes
  <1> HIDE DEF n
  <1>3. PICK ok \in BOOLEAN : (~Lingering => ok = o.ok) /\ \E s \in Outcomes(o, ok) :
          /\ status' = [status EXCEPT ![o.agent] = s]
          /\ held' = (held \/ (o.job = "integrate" /\ s = "Uncertain"))
          /\ completed' = [completed EXCEPT ![o.agent] =
                             @ \/ (ok /\ o.job = "work" /\ s = "Stopped")]
    BY OwnerFacts DEF FinishJob, SetStatus, Owner
  <1>x. PICK s \in Outcomes(o, ok) :
          /\ status' = [status EXCEPT ![o.agent] = s]
          /\ held' = (held \/ (o.job = "integrate" /\ s = "Uncertain"))
          /\ completed' = [completed EXCEPT ![o.agent] =
                             @ \/ (ok /\ o.job = "work" /\ s = "Stopped")]
    BY <1>3
  <1>y. /\ s \in AgentStatus \ {"Queued"} /\ (s = "Integrated" => status[o.agent] = s)
        /\ o.job = "integrate" /\ ~ok => s = "Uncertain"
    BY OutcomeIsStatus
  <1>4. Moves(o, n, s)
    BY <1>1, <1>2, <1>x, <1>y DEF Moves, FinishJob, session, history
  <1>5. held' \in BOOLEAN /\ completed' \in [Agents -> BOOLEAN]
    BY <1>x, OwnerFacts DEF GInv, TypeOK
  <1>6. GInv'
    BY <1>4, <1>5, MovesKeep DEF FinishJob, GInv, TypeOK, session, history
  <1>7. ASSUME LInv, ~Lingering PROVE LInv'
    <2>1. "pumping" \notin Working /\ "pumping" \notin Merging
      BY DEF Working, Merging
    <2>2. /\ held => held'
          /\ o.job = "integrate" /\ ~ok => held'
          /\ busy' = busy /\ touched' = touched
      BY <1>x, <1>y DEF FinishJob, session, history
    <2>3. Unrecorded(o) => held'
      BY <1>3, <1>7, <2>2 DEF Unrecorded, FinishJob
    <2> QED BY <1>1, <1>4, <1>7, <2>1, <2>2, <2>3, MovesSettle
  <1> QED BY <1>6, <1>7

LEMMA PumpKeeps ==
    ASSUME GInv, PumpForControl \/ \E o \in owners : PumpForOwner(o)
    PROVE  GInv'
  <1>1. /\ Pump /\ owners' \subseteq owners
        /\ control' \in {control, NoControl} /\ control.kind \in {"pump", control'.kind}
        /\ control' \in Controls
        /\ UNCHANGED <<orchestrate, needs, completed, cleared, corrections, stopping,
                       paused, held, busy, touched, merged>>
    BY DEF PumpForControl, PumpForOwner, session, history, NoControl, Controls,
           GInv, TypeOK
  <1>2. /\ Registry' /\ Launches' /\ Stops' /\ Recorded' /\ Handled'
        /\ status' \in [Agents -> AgentStatus \union {"none"}]
        /\ launching' \in SUBSET Launch
    BY <1>1, PumpMoves
  <1>3. TypeOK'
    BY <1>1, <1>2 DEF GInv, TypeOK
  <1> QED BY <1>2, <1>3 DEF GInv

\* A task that is told to stop gives up its work, and stays what it was otherwise.
LEMMA ToldOwner ==
    ASSUME NEW o \in Owner, NEW mode \in {"told", "detached"}
    PROVE  /\ Told(o, mode) \in Owner
           /\ Told(o, mode).agent = o.agent /\ Told(o, mode).job = o.job
           /\ Told(o, mode).mode = mode
           /\ Told(o, mode).step \notin Working
           /\ Told(o, mode).step \notin Merging
           /\ o.step \in Working => Told(o, mode).step = "ending" /\ ~Told(o, mode).ok
           /\ o.step \notin Working => Told(o, mode).step = o.step
  <1> DEFINE n == Told(o, mode)
             e == [o EXCEPT !.mode = mode, !.step = "ending", !.ok = FALSE]
             k == [o EXCEPT !.mode = mode]
  <1>1. /\ o.step \in Working => n = e
        /\ o.step \notin Working => n = k
    BY DEF Told, Owner
  <1>2. /\ e \in Owner /\ e.agent = o.agent /\ e.job = o.job /\ e.mode = mode
        /\ e.step = "ending" /\ ~e.ok
        /\ k \in Owner /\ k.agent = o.agent /\ k.job = o.job /\ k.mode = mode
        /\ k.step = o.step
    BY DEF Owner
  <1>3. "ending" \notin Working /\ Merging \subseteq Working
    BY DEF Working, Merging
  <1> HIDE DEF n, e, k
  <1>4. /\ n \in Owner
        /\ n.agent = o.agent /\ n.job = o.job
        /\ n.mode = mode
        /\ n.step \notin Working
        /\ n.step \notin Merging
        /\ o.step \in Working => n.step = "ending" /\ ~n.ok
        /\ o.step \notin Working => n.step = o.step
    BY <1>1, <1>2, <1>3
  <1> QED BY <1>4 DEF n

LEMMA TakenOwner ==
    ASSUME NEW o \in Owner
    PROVE  LET n == [o EXCEPT !.mode = "taken"]
           IN  /\ n \in Owner /\ n.agent = o.agent /\ n.job = o.job
               /\ n.step = o.step /\ n.mode = "taken" /\ n.ok = o.ok
  BY DEF Owner

LEMMA RegisterKeeps ==
    ASSUME GInv, NEW l \in launching, Register(l)
    PROVE  GInv'
  <1> DEFINE f(o) == IF o.agent = l.agent /\ o.mode = "registered"
                     THEN Told(o, "detached") ELSE o
             n(i) == [agent |-> l.agent, slot |-> i, job |-> l.job,
                      step |-> FirstStep(l.job), mode |-> "registered", ok |-> TRUE]
  <1>1. /\ owners \subseteq Owner /\ launching \subseteq Launch
        /\ l \in Launch /\ l.agent \in Agents /\ l.job \in Jobs
    BY DEF GInv, TypeOK, Launch
  <1>2. PICK slot \in {1, 2} : owners' = {f(o) : o \in owners} \union {n(slot)}
    BY DEF Register
  <1>3. /\ n(slot) \in Owner /\ n(slot).agent = l.agent /\ n(slot).job = l.job
        /\ n(slot).mode = "registered"
        /\ n(slot).step \in Merging => n(slot).job = "integrate"
    BY <1>1 DEF Owner, FirstStep, Jobs, Working, Merging
  <1>4. \A o \in owners :
          /\ f(o) \in Owner /\ f(o).agent = o.agent /\ f(o).job = o.job
          /\ \/ f(o) = o /\ ~(o.agent = l.agent /\ o.mode = "registered")
             \/ /\ f(o).mode = "detached" /\ f(o).step \notin Working
                /\ f(o).step \notin Merging
    BY <1>1, ToldOwner
  <1> HIDE DEF f, n
  <1>5. ~stopping /\ launching' = launching \ {l}
        /\ UNCHANGED <<status, needs, completed, cleared, corrections, orchestrate,
                       stopping, paused, held, control, busy, touched, merged>>
    BY DEF Register, record, session, history
  <1>6. \A o \in owners : o.agent = l.agent => o.mode \in {"registered", "detached"}
    <2>1. CASE l.source = "control"
      BY <1>1, <2>1 DEF GInv, Launches, Registry, NoControl, Owner
    <2>2. CASE l.source = "pump"
      BY <2>2 DEF GInv, Launches
    <2> QED BY <1>1, <2>1, <2>2 DEF Launch
  <1>7. TypeOK'
    BY <1>1, <1>2, <1>3, <1>4, <1>5 DEF GInv, TypeOK
  <1>8. Registry'
    <2>1. ASSUME NEW p \in owners'
          PROVE  /\ p.mode \in {"told", "detached"} => p.step \notin Working
                 /\ p.mode = "taken" => control'.kind \in {"cancel", "stop"}
                 /\ p.mode = "told" => control'.kind \in {"cancelWait", "stopWait"}
                 /\ p.step \in Merging => p.job = "integrate"
                 /\ Started(p.agent)'
      <3>1. CASE p = n(slot)
        BY <1>3, <1>5, <3>1 DEF GInv, Launches, Started
      <3>2. CASE p # n(slot)
        <4>1. PICK o \in owners : p = f(o)
          BY <1>2, <3>2
        <4> QED BY <1>4, <1>5, <4>1 DEF GInv, Registry, Started
      <3> QED BY <3>1, <3>2
    <2>2. ASSUME NEW p \in owners', NEW q \in owners', p.agent = q.agent,
                 p.mode # "detached", q.mode # "detached"
          PROVE  p = q
      <3>1. \A o \in owners : f(o).mode # "detached" => f(o) = o /\ o.agent # l.agent
        BY <1>4, <1>6
      <3>2. \A x \in owners' : x = n(slot) \/ \E o \in owners : x = f(o)
        BY <1>2
      <3> QED BY <1>3, <2>2, <3>1, <3>2 DEF GInv, Registry
    <2> QED BY <2>1, <2>2 DEF Registry
  <1>9. Launches'
    <2>1. \A m \in launching' : m.job = "work" => m.agent # l.agent
      BY <1>5 DEF GInv, Launches
    <2>2. \A m \in launching' : m.job = "work" => \A p \in owners' : p.agent # m.agent
      BY <1>2, <1>3, <1>4, <1>5, <2>1 DEF GInv, Launches
    <2> QED BY <1>5, <2>2 DEF GInv, Launches, Started
  <1>10. Stops' /\ Recorded' /\ Handled'
    BY <1>5 DEF GInv, Stops, Recorded, Handled, Started
  <1> QED BY <1>7, <1>8, <1>9, <1>10 DEF GInv

LEMMA RefuseLaunchKeeps ==
    ASSUME GInv, NEW l \in launching, RefuseLaunch(l)
    PROVE  GInv'
  <1>1. /\ status \in [Agents -> AgentStatus \union {"none"}]
        /\ owners \subseteq Owner /\ launching \subseteq Launch
        /\ l \in Launch /\ l.agent \in Agents
    BY DEF GInv, TypeOK, Launch
  <1>2. /\ status' \in [Agents -> AgentStatus \union {"none"}]
        /\ \A a \in Agents : a # l.agent => status'[a] = status[a]
        /\ status'[l.agent] \in {status[l.agent], "Uncertain"}
        /\ launching' = launching \ {l}
        /\ UNCHANGED <<needs, completed, cleared, corrections, orchestrate, owners,
                       stopping, paused, held, control, busy, touched, merged>>
    BY <1>1 DEF RefuseLaunch, SetStatus, session, history, AgentStatus
  <1>3. \A a \in Agents : Started(a) => Started(a)'
    BY <1>2 DEF Started
  <1>4. TypeOK'
    BY <1>2 DEF GInv, TypeOK
  <1>5. Registry'
    BY <1>1, <1>2, <1>3 DEF GInv, Registry, Owner
  <1>6. Launches'
    <2>1. \A m \in launching' : m.job = "work" => m.agent # l.agent
      BY <1>2 DEF GInv, Launches
    <2> QED BY <1>1, <1>2, <1>3, <2>1 DEF GInv, Launches, Launch
  <1>7. Stops' /\ Recorded' /\ Handled'
    BY <1>1, <1>2, <1>3 DEF GInv, Stops, Recorded, Handled
  <1> QED BY <1>4, <1>5, <1>6, <1>7 DEF GInv

\* When no control is being handled, no task is on its way out of the registry, and
\* the launches are the queue's.
LEMMA WhenFree ==
    ASSUME GInv, Free
    PROVE  /\ control = NoControl /\ control.kind = "none"
           /\ \A o \in owners : o.mode \in {"registered", "detached"}
           /\ \A l \in launching : l.source = "pump" /\ l.job = "work"
                                   /\ status[l.agent] \in {"Preparing", "Cancelled"}
           /\ stopping => \A o \in owners : o.step \notin Working
  <1>1. control = NoControl /\ control.kind = "none"
    BY DEF Free, NoControl
  <1>2. \A o \in owners : o.mode \in {"registered", "taken", "told", "detached"}
    BY DEF GInv, TypeOK, Owner
  <1>3. \A l \in launching : l.source \in {"control", "pump"}
    BY DEF GInv, TypeOK, Launch
  <1> QED BY <1>1, <1>2, <1>3 DEF Free, GInv, Registry, Launches, Stops

LEMMA AssignKeeps ==
    ASSUME GInv, NEW a \in Agents, NEW d \in SUBSET Agents, Assign(a, d)
    PROVE  GInv'
  <1> DEFINE l == [agent |-> a, job |-> "work", source |-> "control"]
  <1>1. /\ status \in [Agents -> AgentStatus \union {"none"}]
        /\ owners \subseteq Owner /\ launching \subseteq Launch
        /\ status[a] = "none" /\ ~Started(a)
    BY DEF GInv, TypeOK, Assign, Started
  <1>2. l \in Launch /\ l.agent = a /\ l.job = "work" /\ l.source = "control"
    BY DEF Launch, Jobs
  <1> HIDE DEF l
  <1>3. /\ stopping' = FALSE /\ owners' = owners /\ merged' = merged
        /\ needs' \in [Agents -> SUBSET Agents]
        /\ UNCHANGED <<completed, cleared, corrections, orchestrate, paused, held,
                       busy, touched>>
    BY DEF Assign, history, GInv, TypeOK
  <1>4. \/ UNCHANGED <<status, launching, control>>
        \/ /\ status' = [status EXCEPT ![a] = "Queued"]
           /\ control' = Doing("pump", 0) /\ UNCHANGED launching
        \/ /\ status' = [status EXCEPT ![a] = "Preparing"]
           /\ launching' = launching \union {l} /\ UNCHANGED control
    BY DEF Assign, SetStatus, l
  <1>5. /\ status' \in [Agents -> AgentStatus \union {"none"}]
        /\ \A b \in Agents : b # a => status'[b] = status[b]
        /\ status'[a] # "Integrated"
    BY <1>1, <1>4 DEF AgentStatus
  <1>6. control' \in {NoControl, Doing("pump", 0)} /\ control' \in Controls
        /\ control'.kind \in {"none", "pump"}
    BY <1>4, WhenFree DEF Assign, Controls, NoControl, Doing
  <1>7. TypeOK'
    BY <1>1, <1>2, <1>3, <1>4, <1>5, <1>6 DEF GInv, TypeOK
  <1>8. Registry'
    <2>1. Assign(a, d) => Free
      BY DEF Assign
    <2>2. \A o \in owners : o.agent \in Agents /\ o.agent # a
      BY <1>1 DEF GInv, Registry, Owner
    <2> QED BY <1>3, <1>5, <2>1, <2>2, WhenFree DEF GInv, Registry, Started
  <1>9. Launches'
    <2>1. Free
      BY DEF Assign
    <2>2. \A m \in launching : m.agent \in Agents /\ m.agent # a /\ m.source = "pump"
      BY <1>1, <2>1, WhenFree DEF GInv, Launches, Launch
    <2>3. \A o \in owners : o.agent # a
      BY <1>1 DEF GInv, Registry
    <2>4. CASE UNCHANGED launching
      BY <1>3, <1>5, <2>2, <2>4 DEF GInv, Launches, Started
    <2>5. CASE launching' = launching \union {l} /\ UNCHANGED control
      <3>1. status'[a] = "Preparing" /\ control' = NoControl
        BY <1>1, <1>2, <1>4, <2>1, <2>2, <2>5 DEF Free
      <3> QED BY <1>2, <1>3, <1>5, <2>2, <2>3, <2>5, <3>1
                DEF GInv, Launches, Started
    <2> QED BY <1>4, <2>4, <2>5
  <1>10. Stops' /\ Recorded' /\ Handled'
    BY <1>3, <1>5, <1>6 DEF GInv, Stops, Recorded, Handled
  <1> QED BY <1>7, <1>8, <1>9, <1>10 DEF GInv

\* A control begins, or the parent's turn does: the tasks and their agents stay.
LEMMA ControlKeeps ==
    ASSUME GInv, Free, control' \in Controls, control'.kind # "stop",
           control' # NoControl => control'.kind \notin {"cancel", "cancelWait", "stopWait"},
           control'.kind \in {"integrate", "reconcile"} =>
               control'.agent \in Agents /\ status[control'.agent] \in {"Ready", "Uncertain"},
           stopping' \in {stopping, FALSE},
           paused' \in BOOLEAN, held' \in BOOLEAN, busy' \in BOOLEAN,
           touched' \in BOOLEAN,
           UNCHANGED <<record, owners, launching, orchestrate, merged>>
    PROVE  GInv'
  <1>1. TypeOK'
    BY DEF GInv, TypeOK, record
  <1>2. Registry'
    BY WhenFree DEF GInv, Registry, record, Started
  <1>3. Launches'
    <2>1. \A l \in launching : l.source # "control"
      BY WhenFree
    <2> QED BY <2>1 DEF GInv, Launches, record, Started
  <1>4. Stops' /\ Recorded'
    <2>1. \/ ~stopping'
          \/ \A o \in owners : o.step \notin Working
      <3>1. CASE stopping' = FALSE
        BY <3>1
      <3>2. CASE stopping' = stopping
        BY <3>2, WhenFree
      <3> QED BY <3>1, <3>2
    <2> QED BY <2>1 DEF GInv, Stops, Recorded, record
  <1>5. Handled'
    BY WhenFree DEF GInv, Handled, record, Started
  <1> QED BY <1>1, <1>2, <1>3, <1>4, <1>5 DEF GInv

LEMMA ControlsKeep ==
    ASSUME GInv,
           \/ ResumeQueue \/ ParentTurnBegins \/ ParentTurnCompletes \/ ReconcileParent
           \/ \E a \in Agents : StartIntegration(a) \/ StartReconcile(a)
    PROVE  GInv'
  <1> USE DEF record, manager, session, history
  <1>1. CASE ResumeQueue
    <2>1. Doing("pump", 0) \in Controls /\ Doing("pump", 0).kind = "pump"
      BY DEF Doing, Controls
    <2> QED BY <1>1, <2>1, ControlKeeps DEF ResumeQueue, GInv, TypeOK
  <1>2. CASE ParentTurnBegins \/ ParentTurnCompletes \/ ReconcileParent
    <2>1. control' = control /\ control.kind = "none" /\ Free
      BY <1>2, WhenFree
        DEF ParentTurnBegins, ParentTurnCompletes, ReconcileParent
    <2> QED BY <1>2, <2>1, ControlKeeps, WhenFree
            DEF ParentTurnBegins, ParentTurnCompletes, ReconcileParent, GInv, TypeOK
  <1>3. CASE \E a \in Agents : StartIntegration(a)
    <2>1. PICK a \in Agents : StartIntegration(a)
      BY <1>3
    <2>2. LET c == Doing("integrate", a)
          IN  c \in Controls /\ c.kind = "integrate" /\ c.agent = a
      BY DEF Doing, Controls
    <2> QED BY <2>1, <2>2, ControlKeeps
              DEF StartIntegration, MayIntegrate, GInv, TypeOK
  <1>4. CASE \E a \in Agents : StartReconcile(a)
    <2>1. PICK a \in Agents : StartReconcile(a)
      BY <1>4
    <2>2. LET c == Doing("reconcile", a)
          IN  c \in Controls /\ c.kind = "reconcile" /\ c.agent = a
      BY DEF Doing, Controls
    <2> QED BY <2>1, <2>2, ControlKeeps DEF StartReconcile, GInv, TypeOK
  <1> QED BY <1>1, <1>2, <1>3, <1>4

LEMMA StartValidationKeeps ==
    ASSUME GInv, NEW a \in Agents, StartValidation(a)
    PROVE  GInv'
  <1> DEFINE l == [agent |-> a, job |-> "validate", source |-> "control"]
  <1>1. /\ status \in [Agents -> AgentStatus \union {"none"}]
        /\ owners \subseteq Owner /\ launching \subseteq Launch
        /\ status[a] \in {"Stopped", "Ready", "Failed"} /\ Started(a) /\ Free
    BY DEF GInv, TypeOK, StartValidation, Started
  <1>2. l \in Launch /\ l.agent = a /\ l.job = "validate" /\ l.source = "control"
    BY DEF Launch, Jobs
  <1>3. launching' = launching \union {l}
    BY DEF StartValidation
  <1> HIDE DEF l
  <1>4. /\ status' \in [Agents -> AgentStatus \union {"none"}]
        /\ \A b \in Agents : b # a => status'[b] = status[b]
        /\ status'[a] = "Validating"
        /\ cleared' \in [Agents -> BOOLEAN]
        /\ UNCHANGED <<needs, completed, corrections, owners, stopping, paused, held,
                       control, busy, orchestrate, touched, merged>>
    BY <1>1
      DEF StartValidation, SetStatus, session, history, AgentStatus, GInv,
          TypeOK
  <1>5. \A b \in Agents : Started(b) => Started(b)'
    BY <1>4 DEF Started
  <1>6. \A m \in launching : m.agent \in Agents /\ m.agent # a /\ m.source = "pump"
    BY <1>1, WhenFree DEF Launch
  <1>7. TypeOK'
    BY <1>2, <1>3, <1>4 DEF GInv, TypeOK
  <1>8. Registry'
    BY <1>1, <1>4, <1>5 DEF GInv, Registry, Owner
  <1>9. Launches'
    BY <1>1, <1>2, <1>3, <1>4, <1>5, <1>6, WhenFree DEF GInv, Launches
  <1>10. Stops' /\ Recorded' /\ Handled'
    BY <1>1, <1>4, WhenFree DEF GInv, Stops, Recorded, Handled
  <1> QED BY <1>7, <1>8, <1>9, <1>10 DEF GInv

LEMMA AdmitIntegrationKeeps ==
    ASSUME GInv, AdmitIntegration
    PROVE  GInv'
  <1> DEFINE a == control.agent
             l == [agent |-> a, job |-> "integrate", source |-> "control"]
  <1>1. /\ status \in [Agents -> AgentStatus \union {"none"}]
        /\ owners \subseteq Owner /\ launching \subseteq Launch
        /\ control.kind = "integrate" /\ a \in Agents /\ Started(a)
        /\ \A m \in launching : m.agent = a => m.job # "work"
    BY DEF GInv, TypeOK, AdmitIntegration, Handled
  <1>2. l \in Launch /\ l.agent = a /\ l.job = "integrate" /\ l.source = "control"
    BY <1>1 DEF Launch, Jobs
  <1>3. launching' \in {launching, launching \union {l}}
    BY DEF AdmitIntegration
  <1> HIDE DEF l
  <1>4. /\ status' \in [Agents -> AgentStatus \union {"none"}]
        /\ \A b \in Agents : b # a => status'[b] = status[b]
        /\ status'[a] \in {status[a], "Integrating"}
        /\ control' = NoControl
        /\ UNCHANGED <<needs, completed, cleared, corrections, owners, stopping,
                       paused, held, busy, orchestrate, touched, merged>>
    BY <1>1
      DEF AdmitIntegration, SetStatus, session, history, AgentStatus, GInv,
          TypeOK
  <1> HIDE DEF a
  <1>5. \A b \in Agents : Started(b) => Started(b)'
    BY <1>4 DEF Started
  <1>6. \A m \in launching : m.agent \in Agents /\ m.source = "pump" /\ m.job = "work"
    <2>1. control # NoControl
      BY <1>1 DEF NoControl
    <2> QED BY <1>1, <2>1 DEF GInv, Launches, Launch
  <1>7. TypeOK'
    <2>1. NoControl \in Controls
      BY DEF NoControl, Controls
    <2> QED BY <1>2, <1>3, <1>4, <2>1 DEF GInv, TypeOK
  <1>8. Registry'
    BY <1>1, <1>4, <1>5 DEF GInv, Registry, Owner
  <1>9. Launches'
    <2>1. \A m \in launching : m.agent # a
      BY <1>1, <1>6
    <2> QED BY <1>1, <1>2, <1>3, <1>4, <1>5, <1>6, <2>1 DEF GInv, Launches
  <1>10. Stops' /\ Recorded' /\ Handled'
    BY <1>1, <1>4 DEF GInv, Stops, Recorded, Handled, NoControl
  <1> QED BY <1>7, <1>8, <1>9, <1>10 DEF GInv

LEMMA ReconcileAgentKeeps ==
    ASSUME GInv, ReconcileAgent
    PROVE  GInv'
  <1> DEFINE a == control.agent
  <1>1. /\ status \in [Agents -> AgentStatus \union {"none"}]
        /\ owners \subseteq Owner /\ launching \subseteq Launch
        /\ control.kind = "reconcile" /\ a \in Agents /\ Started(a)
        /\ \A m \in launching : m.agent = a => m.job # "work"
    BY DEF GInv, TypeOK, ReconcileAgent, Handled
  <1>2. /\ status' \in [Agents -> AgentStatus \union {"none"}]
        /\ \A b \in Agents : b # a => status'[b] = status[b]
        /\ status'[a] \in {status[a], "Failed"}
        /\ control' = NoControl
        /\ UNCHANGED <<needs, completed, cleared, corrections, owners, launching,
                       stopping, paused, held, busy, orchestrate, touched, merged>>
    BY <1>1
      DEF ReconcileAgent, SetStatus, manager, history, AgentStatus, GInv,
          TypeOK
  <1> HIDE DEF a
  <1>3. \A b \in Agents : Started(b) => Started(b)'
    BY <1>2 DEF Started
  <1>4. \A m \in launching : m.agent \in Agents /\ m.source = "pump" /\ m.job = "work"
    <2>1. control # NoControl
      BY <1>1 DEF NoControl
    <2> QED BY <1>1, <2>1 DEF GInv, Launches, Launch
  <1>5. TypeOK'
    <2>1. NoControl \in Controls
      BY DEF NoControl, Controls
    <2> QED BY <1>2, <2>1 DEF GInv, TypeOK
  <1>6. Registry'
    BY <1>1, <1>2, <1>3 DEF GInv, Registry, Owner
  <1>7. Launches'
    BY <1>1, <1>2, <1>3, <1>4 DEF GInv, Launches
  <1>8. Stops' /\ Recorded' /\ Handled'
    BY <1>1, <1>2 DEF GInv, Stops, Recorded, Handled, NoControl
  <1> QED BY <1>5, <1>6, <1>7, <1>8 DEF GInv

LEMMA CancelAgentKeeps ==
    ASSUME GInv, NEW a \in Agents, CancelAgent(a)
    PROVE  GInv'
  <1> DEFINE f(o) == IF o.agent = a /\ o.mode = "registered"
                     THEN [o EXCEPT !.mode = "taken"] ELSE o
  <1>1. /\ status \in [Agents -> AgentStatus \union {"none"}]
        /\ owners \subseteq Owner /\ launching \subseteq Launch
        /\ Free /\ status[a] # "none"
    BY DEF GInv, TypeOK, CancelAgent, Assigned
  <1>2. \A o \in owners :
          /\ f(o) \in Owner /\ f(o).agent = o.agent /\ f(o).job = o.job
          /\ f(o).step = o.step /\ f(o).mode \in {o.mode, "taken"}
    BY <1>1, TakenOwner
  <1>3. owners' = {f(o) : o \in owners}
    BY DEF CancelAgent
  <1> HIDE DEF f
  <1>4. /\ status' \in [Agents -> AgentStatus \union {"none"}]
        /\ \A b \in Agents : b # a => status'[b] = status[b]
        /\ status'[a] = AfterCancel(status[a])
        /\ held' \in BOOLEAN
        /\ UNCHANGED <<needs, completed, cleared, corrections, launching, stopping,
                       paused, busy, orchestrate, touched, merged>>
    BY <1>1
      DEF CancelAgent, SetStatus, history, AgentStatus, AfterCancel, GInv,
          TypeOK
  <1>5. /\ status'[a] \notin {"none", "Queued"}
        /\ status[a] \in {"Preparing", "Cancelled"} => status'[a] = "Cancelled"
        /\ status'[a] = "Integrated" => status[a] = "Integrated"
    BY <1>1, <1>4 DEF AfterCancel, AgentStatus
  <1>6. control' \in Controls /\ control'.kind = "cancel"
    BY DEF CancelAgent, Doing, Controls
  <1>7. \A b \in Agents : Started(b) => Started(b)'
    BY <1>4, <1>5 DEF Started
  <1>8. TypeOK'
    BY <1>2, <1>3, <1>4, <1>6 DEF GInv, TypeOK
  <1>9. Registry'
    <2>1. ASSUME NEW p \in owners'
          PROVE  /\ p.mode \in {"told", "detached"} => p.step \notin Working
                 /\ p.mode = "taken" => control'.kind \in {"cancel", "stop"}
                 /\ p.mode = "told" => control'.kind \in {"cancelWait", "stopWait"}
                 /\ p.step \in Merging => p.job = "integrate"
                 /\ Started(p.agent)'
      <3>1. PICK o \in owners : p = f(o)
        BY <1>3
      <3>2. o.agent \in Agents
        BY <1>1 DEF Owner
      <3> QED BY <1>1, <1>2, <1>6, <1>7, <3>1, <3>2, WhenFree
                DEF GInv, Registry
    <2>2. ASSUME NEW p \in owners', NEW q \in owners', p.agent = q.agent,
                 p.mode # "detached", q.mode # "detached"
          PROVE  p = q
      <3>1. PICK o \in owners : p = f(o)
        BY <1>3
      <3>2. PICK r \in owners : q = f(r)
        BY <1>3
      <3>3. o.mode # "detached" /\ r.mode # "detached"
        BY <2>2, <3>1, <3>2 DEF f
      <3> QED BY <1>2, <2>2, <3>1, <3>2, <3>3 DEF GInv, Registry
    <2> QED BY <2>1, <2>2 DEF Registry
  <1>10. Launches'
    <2>1. \A l \in launching : l.agent \in Agents /\ l.source = "pump" /\ l.job = "work"
                               /\ status'[l.agent] \in {"Preparing", "Cancelled"}
      BY <1>1, <1>4, <1>5, WhenFree DEF Launch
    <2>2. \A l \in launching : \A p \in owners' : p.agent # l.agent
      BY <1>2, <1>3, <2>1 DEF GInv, Launches
    <2> QED BY <1>4, <1>7, <2>1, <2>2 DEF GInv, Launches
  <1>11. Stops'
    BY <1>1, <1>2, <1>3, <1>4, WhenFree DEF Stops
  <1>12. Recorded' /\ Handled'
    BY <1>4, <1>5, <1>6 DEF GInv, Recorded, Handled
  <1> QED BY <1>8, <1>9, <1>10, <1>11, <1>12 DEF GInv

LEMMA StopAllKeeps ==
    ASSUME GInv, StopAll
    PROVE  GInv'
  <1> DEFINE f(o) == CASE o.mode = "registered" -> [o EXCEPT !.mode = "taken"]
                       [] o.mode \in {"taken", "told"} -> Told(o, "detached")
                       [] OTHER -> o
  <1>1. /\ status \in [Agents -> AgentStatus \union {"none"}]
        /\ owners \subseteq Owner /\ launching \subseteq Launch
    BY DEF GInv, TypeOK
  <1>2. \A o \in owners :
          /\ o.mode = "registered" => f(o) = [o EXCEPT !.mode = "taken"]
          /\ o.mode \in {"taken", "told"} => f(o) = Told(o, "detached")
          /\ o.mode = "detached" => f(o) = o
          /\ o.mode \in {"registered", "taken", "told", "detached"}
    BY <1>1 DEF Owner
  <1>3. owners' = {f(o) : o \in owners}
    BY DEF StopAll
  <1> HIDE DEF f
  <1>4. \A o \in owners :
          /\ f(o) \in Owner /\ f(o).agent = o.agent /\ f(o).job = o.job
          /\ \/ o.mode = "registered" /\ f(o).mode = "taken" /\ f(o).step = o.step
             \/ f(o).mode = "detached" /\ f(o).step \notin Working
    <2>1. ASSUME NEW o \in owners
          PROVE  /\ f(o) \in Owner /\ f(o).agent = o.agent /\ f(o).job = o.job
                 /\ \/ o.mode = "registered" /\ f(o).mode = "taken" /\ f(o).step = o.step
                    \/ f(o).mode = "detached" /\ f(o).step \notin Working
      <3>1. CASE o.mode = "registered"
        <4> DEFINE e == [o EXCEPT !.mode = "taken"]
        <4>1. /\ e \in Owner /\ e.agent = o.agent /\ e.job = o.job
              /\ e.step = o.step /\ e.mode = "taken"
          BY <1>1, TakenOwner
        <4>2. f(o) = e
          BY <1>2, <3>1
        <4> HIDE DEF e
        <4> QED BY <3>1, <4>1, <4>2
      <3>2. CASE o.mode \in {"taken", "told"}
        BY <1>1, <1>2, <3>2, ToldOwner
      <3>3. CASE o.mode = "detached"
        BY <1>1, <1>2, <3>3 DEF GInv, Registry
      <3> QED BY <1>2, <3>1, <3>2, <3>3
    <2> QED BY <2>1
  <1>5. /\ status' \in [Agents -> AgentStatus \union {"none"}]
        /\ held' \in BOOLEAN
        /\ stopping' = TRUE /\ busy' = FALSE
        /\ UNCHANGED <<needs, completed, cleared, corrections, launching, paused,
                       orchestrate, touched, merged>>
    BY <1>1 DEF StopAll, history, AgentStatus, AfterCancel, GInv, TypeOK
  <1>6. /\ \A b \in Agents : Started(b) => Started(b)'
        /\ \A b \in Agents : status[b] \in {"Preparing", "Cancelled"} => status'[b] = "Cancelled"
        /\ \A b \in Agents : status'[b] = "Integrated" => status[b] = "Integrated"
    BY <1>1 DEF StopAll, Started, AfterCancel, Active
  <1>7. control' \in Controls /\ control'.kind = "stop"
    BY DEF StopAll, Doing, Controls
  <1>8. Merging \subseteq Working
    BY DEF Merging, Working
  <1>9. TypeOK'
    BY <1>3, <1>4, <1>5, <1>7 DEF GInv, TypeOK
  <1>10. Registry'
    <2>1. ASSUME NEW p \in owners'
          PROVE  /\ p.mode \in {"told", "detached"} => p.step \notin Working
                 /\ p.mode = "taken" => control'.kind \in {"cancel", "stop"}
                 /\ p.mode = "told" => control'.kind \in {"cancelWait", "stopWait"}
                 /\ p.step \in Merging => p.job = "integrate"
                 /\ Started(p.agent)'
      <3>1. PICK o \in owners : p = f(o)
        BY <1>3
      <3>2. o.agent \in Agents
        BY <1>1 DEF Owner
      <3> QED BY <1>4, <1>6, <1>7, <1>8, <3>1, <3>2 DEF GInv, Registry
    <2>2. ASSUME NEW p \in owners', NEW q \in owners', p.agent = q.agent,
                 p.mode # "detached", q.mode # "detached"
          PROVE  p = q
      <3>1. PICK o \in owners : p = f(o)
        BY <1>3
      <3>2. PICK r \in owners : q = f(r)
        BY <1>3
      <3>3. o.mode = "registered" /\ r.mode = "registered"
        BY <1>4, <2>2, <3>1, <3>2
      <3> QED BY <1>4, <2>2, <3>1, <3>2, <3>3 DEF GInv, Registry
    <2> QED BY <2>1, <2>2 DEF Registry
  <1>11. Launches'
    <2>1. \A l \in launching : l.agent \in Agents /\ l.source = "pump" /\ l.job = "work"
                               /\ status'[l.agent] \in {"Preparing", "Cancelled"}
      <3>1. \A l \in launching : l.source = "pump" /\ l.job = "work" /\ l.agent \in Agents
        <4>1. Free \/ control # NoControl
          BY DEF StopAll, Droppable, NoControl
        <4> QED BY <1>1, <4>1, WhenFree DEF GInv, Launches, Launch
      <3> QED BY <1>6, <3>1 DEF GInv, Launches
    <2>2. \A l \in launching : \A p \in owners' : p.agent # l.agent
      BY <1>3, <1>4, <2>1 DEF GInv, Launches
    <2> QED BY <1>5, <1>6, <2>1, <2>2 DEF GInv, Launches
  <1>12. Stops'
    BY <1>3, <1>4, <1>7 DEF Stops
  <1>13. Recorded' /\ Handled'
    BY <1>5, <1>6, <1>7 DEF GInv, Recorded, Handled
  <1> QED BY <1>9, <1>10, <1>11, <1>12, <1>13 DEF GInv

LEMMA SignalKeeps ==
    ASSUME GInv, Signal
    PROVE  GInv'
  <1> DEFINE f(o) == IF o.mode = "taken" THEN Told(o, "told") ELSE o
  <1>1. owners \subseteq Owner /\ launching \subseteq Launch /\ control \in Controls
    BY DEF GInv, TypeOK
  <1>2. \A o \in owners :
          /\ f(o) \in Owner /\ f(o).agent = o.agent /\ f(o).job = o.job
          /\ \/ o.mode # "taken" /\ f(o) = o
             \/ o.mode = "taken" /\ f(o).mode = "told" /\ f(o).step \notin Working
    BY <1>1, ToldOwner
  <1>3. owners' = {f(o) : o \in owners}
    BY DEF Signal
  <1> HIDE DEF f
  <1>4. /\ control' \in Controls /\ control'.kind \in {"cancelWait", "stopWait"}
        /\ control # NoControl /\ control.kind \in {"cancel", "stop"}
    BY <1>1 DEF Signal, Controls, NoControl
  <1>5. UNCHANGED <<status, needs, completed, cleared, corrections, launching, stopping,
                    paused, held, busy, orchestrate, touched, merged>>
    BY DEF Signal, record, history
  <1>6. Merging \subseteq Working
    BY DEF Merging, Working
  <1>7. TypeOK'
    BY <1>2, <1>3, <1>4, <1>5 DEF GInv, TypeOK
  <1>8. Registry'
    <2>1. \A o \in owners : o.mode # "told"
      BY <1>4 DEF GInv, Registry
    <2>2. ASSUME NEW p \in owners'
          PROVE  /\ p.mode \in {"told", "detached"} => p.step \notin Working
                 /\ p.mode = "taken" => control'.kind \in {"cancel", "stop"}
                 /\ p.mode = "told" => control'.kind \in {"cancelWait", "stopWait"}
                 /\ p.step \in Merging => p.job = "integrate"
                 /\ Started(p.agent)'
      <3>1. PICK o \in owners : p = f(o)
        BY <1>3
      <3> QED BY <1>2, <1>4, <1>5, <1>6, <2>1, <3>1 DEF GInv, Registry, Started
    <2>3. ASSUME NEW p \in owners', NEW q \in owners', p.agent = q.agent,
                 p.mode # "detached", q.mode # "detached"
          PROVE  p = q
      <3>1. PICK o \in owners : p = f(o)
        BY <1>3
      <3>2. PICK r \in owners : q = f(r)
        BY <1>3
      <3>3. o.mode # "detached" /\ r.mode # "detached"
        BY <1>2, <2>3, <3>1, <3>2
      <3> QED BY <1>2, <2>3, <3>1, <3>2, <3>3 DEF GInv, Registry
    <2> QED BY <2>2, <2>3 DEF Registry
  <1>9. Launches'
    <2>1. \A l \in launching : l.source # "control"
      BY <1>4 DEF GInv, Launches
    <2>2. \A l \in launching : l.job = "work" => \A p \in owners' : p.agent # l.agent
      BY <1>2, <1>3 DEF GInv, Launches
    <2> QED BY <1>5, <2>1, <2>2 DEF GInv, Launches, Started
  <1>10. Stops'
    <2>1. ASSUME stopping PROVE \A p \in owners' : p.step \notin Working
      BY <1>2, <1>3, <2>1 DEF GInv, Stops
    <2> QED BY <1>5, <2>1 DEF Stops
  <1>11. Recorded' /\ Handled'
    BY <1>4, <1>5 DEF GInv, Recorded, Handled
  <1> QED BY <1>7, <1>8, <1>9, <1>10, <1>11 DEF GInv

LEMMA AbortOwnerKeeps ==
    ASSUME GInv, NEW o \in owners, AbortOwner(o)
    PROVE  GInv'
  <1>1. /\ owners \subseteq Owner /\ launching \subseteq Launch
        /\ o.agent \in Agents /\ Started(o.agent)
    BY OwnerFacts DEF GInv, TypeOK, Registry
  <1>2. /\ status' \in [Agents -> AgentStatus \union {"none"}]
        /\ \A b \in Agents : b # o.agent => status'[b] = status[b]
        /\ status'[o.agent] \in {status[o.agent], "Uncertain"}
        /\ owners' = owners \ {o}
        /\ held' \in BOOLEAN
        /\ UNCHANGED <<needs, completed, cleared, corrections, launching, stopping,
                       paused, control, busy, orchestrate, touched, merged>>
    BY OwnerFacts
      DEF AbortOwner, SetStatus, session, history, AgentStatus, GInv, TypeOK
  <1>3. \A b \in Agents : Started(b) => Started(b)'
    BY <1>2 DEF Started
  <1>4. TypeOK'
    BY <1>2 DEF GInv, TypeOK
  <1>5. Registry'
    BY <1>1, <1>2, <1>3 DEF GInv, Registry, Owner
  <1>6. Launches'
    <2>1. \A l \in launching : l.agent \in Agents /\ (l.job = "work" => l.agent # o.agent)
      BY <1>1 DEF GInv, Launches, Launch
    <2> QED BY <1>2, <1>3, <2>1 DEF GInv, Launches
  <1>7. Stops' /\ Recorded' /\ Handled'
    BY <1>1, <1>2, <1>3 DEF GInv, Stops, Recorded, Handled
  <1> QED BY <1>4, <1>5, <1>6, <1>7 DEF GInv

LEMMA StoppedKeeps ==
    ASSUME GInv, Stopped
    PROVE  GInv'
  <1>1. /\ control' = NoControl /\ control' \in Controls /\ control'.kind = "none"
        /\ control.kind \in {"cancelWait", "stopWait"} /\ control # NoControl
        /\ \A o \in owners : o.mode # "told"
        /\ UNCHANGED <<status, needs, completed, cleared, corrections, owners,
                       launching, stopping, paused, held, busy, orchestrate,
                       touched, merged>>
    BY DEF Stopped, NoControl, Controls, record, manager, history
  <1>2. TypeOK'
    BY <1>1 DEF GInv, TypeOK
  <1>3. Registry'
    BY <1>1 DEF GInv, Registry, Started
  <1>4. Launches'
    BY <1>1 DEF GInv, Launches, Started
  <1>5. Stops' /\ Recorded' /\ Handled'
    BY <1>1 DEF GInv, Stops, Recorded, Handled
  <1> QED BY <1>2, <1>3, <1>4, <1>5 DEF GInv

LEMMA RestartKeeps ==
    ASSUME GInv, Restart
    PROVE  GInv'
  <1>1. /\ owners' = {} /\ launching' = {} /\ stopping' = FALSE
        /\ control' = NoControl /\ control' \in Controls /\ control'.kind = "none"
    BY DEF Restart, NoControl, Controls
  <1>2. TypeOK'
    BY <1>1 DEF Restart, history, GInv, TypeOK, AgentStatus, ActiveAgents
  <1>3. Registry' /\ Launches' /\ Stops' /\ Handled'
    BY <1>1 DEF Registry, Launches, Stops, Handled
  <1>4. Recorded'
    BY DEF Restart, history, GInv, TypeOK, Recorded
  <1> QED BY <1>2, <1>3, <1>4 DEF GInv

LEMMA StepKeeps == GInv /\ [Next]_vars => GInv'
  <1> SUFFICES ASSUME GInv, [Next]_vars PROVE GInv'
    OBVIOUS
  <1>1. CASE \E l \in launching : Register(l) \/ RefuseLaunch(l)
    BY <1>1, RegisterKeeps, RefuseLaunchKeeps
  <1>2. CASE \E a \in Agents :
               \/ \E d \in SUBSET Agents : Assign(a, d)
               \/ StartValidation(a) \/ StartIntegration(a) \/ StartReconcile(a)
               \/ CancelAgent(a)
    BY <1>2, AssignKeeps, StartValidationKeeps, ControlsKeep, CancelAgentKeeps
  <1>3. CASE ResumeQueue \/ PumpForControl \/ AdmitIntegration \/ ReconcileAgent
    BY <1>3, ControlsKeep, PumpKeeps, AdmitIntegrationKeeps,
          ReconcileAgentKeeps
  <1>4. ASSUME NEW o \in owners,
               \/ WorktreePrepared(o) \/ WorkerTurnEnds(o) \/ CollectEvidence(o)
               \/ Clear(o) \/ Hold(o) \/ Correct(o) \/ ReviewEnds(o)
        PROVE  GInv'
    BY <1>4, WorktreePreparedKeeps, WorkerTurnEndsKeeps, CollectEvidenceKeeps,
       ClearKeeps, HoldKeeps, CorrectKeeps, ReviewEndsKeeps
  <1>5. ASSUME NEW o \in owners,
               \/ BeginMerge(o) \/ RecordMerge(o) \/ JobFails(o)
               \/ FinishJob(o) \/ PumpForOwner(o) \/ AbortOwner(o)
        PROVE  GInv'
    BY <1>5, BeginMergeKeeps, RecordMergeKeeps, JobFailsKeeps, FinishJobKeeps,
       PumpKeeps, AbortOwnerKeeps
  <1>6. CASE StopAll \/ Signal \/ Stopped
    BY <1>6, StopAllKeeps, SignalKeeps, StoppedKeeps
  <1>7. CASE ParentTurnBegins \/ ParentTurnCompletes \/ ReconcileParent \/ Restart
    BY <1>7, ControlsKeep, RestartKeeps
  <1>8. CASE UNCHANGED vars
    BY <1>8
      DEF vars, GInv, TypeOK, Registry, Launches, Stops, Recorded, Handled,
          Started
  <1> QED BY <1>1, <1>2, <1>3, <1>4, <1>5, <1>6, <1>7, <1>8 DEF Next

LEMMA Invariance == Spec => []GInv
  <1>1. Init => GInv
    BY Initially
  <1> QED BY <1>1, StepKeeps, PTL DEF Spec

\* The type invariant of the manager's record and of its tasks.
THEOREM TypeCorrect == Spec => []TypeOK
  <1>1. GInv => TypeOK
    BY DEF GInv
  <1> QED BY <1>1, Invariance, PTL

\* However an assignment was cancelled, taken up again or replaced, and however long
\* the clean-up of a task takes: no two tasks work on it at once.
THEOREM OneWorkerHolds == Spec => []OneWorker
  <1>1. GInv => OneWorker
    <2> SUFFICES ASSUME GInv, NEW o \in owners, NEW p \in owners, o.agent = p.agent,
                        o.step \in Working, p.step \in Working
                 PROVE  o = p
      BY DEF OneWorker
    <2>1. o.mode # "detached" /\ p.mode # "detached"
      BY DEF GInv, Registry
    <2> QED BY <2>1 DEF GInv, Registry
  <1> QED BY <1>1, Invariance, PTL

\* Once the tasks of a cancellation or a shutdown were told, none works, and none is
\* started, until somebody asks for agents again: whatever was being launched.
THEOREM StopIsFinal == Spec => []NothingRunsAfterStop
  <1>1. GInv => NothingRunsAfterStop
    BY DEF GInv, Stops, NothingRunsAfterStop
  <1> QED BY <1>1, Invariance, PTL

-----------------------------------------------------------------------------
(* The same with clean-ups that end in time: one task of an agent, and an  *)
(* integration that is in its hands or holds the session.                  *)

LEMMA PumpSettles ==
    ASSUME GInv, LInv, PumpForControl \/ \E o \in owners : PumpForOwner(o)
    PROVE  LInv'
  <1>1. /\ status \in [Agents -> AgentStatus \union {"none"}]
        /\ owners \subseteq Owner /\ launching \subseteq Launch
    BY DEF GInv, TypeOK
  <1>2. /\ Pump /\ owners' \subseteq owners
        /\ \A p \in owners : Unrecorded(p) => p \in owners'
        /\ control' \in {control, NoControl}
        /\ UNCHANGED <<held, busy, touched>>
    BY DEF PumpForControl, PumpForOwner, session, history, Unrecorded
  <1>3. /\ \A a \in Agents : Started(a) => status'[a] = status[a]
        /\ launching \subseteq launching'
        /\ \A l \in launching' \ launching :
             l.agent \in Agents /\ ~Started(l.agent) /\ l.job = "work"
        /\ \A l, m \in launching' \ launching : l.agent = m.agent => l = m
    <2>1. CASE UNCHANGED <<status, launching>>
      BY <2>1
    <2>2. CASE ~UNCHANGED <<status, launching>>
      <3> DEFINE new(a) == [agent |-> a, job |-> "work", source |-> "pump"]
      <3>1. /\ launching' = launching \union {new(a) : a \in Admitted}
            /\ status' = [a \in Agents |->
                            IF a \in Admitted THEN "Preparing" ELSE status[a]]
        BY <1>2, <2>2 DEF Pump
      <3>2. \A a \in Admitted : /\ a \in Agents /\ ~Started(a)
                                /\ new(a).agent = a /\ new(a).job = "work"
        BY DEF Admitted, Eligible, Started
      <3> HIDE DEF new
      <3> QED BY <3>1, <3>2
    <2> QED BY <2>1, <2>2
  <1>4. /\ \A o \in owners : o.agent \in Agents /\ Started(o.agent)
        /\ \A l \in launching : l.agent \in Agents /\ Started(l.agent)
    BY <1>1 DEF GInv, Registry, Launches, Owner, Launch
  <1>5. Sole'
    <2>1. \A l, m \in launching' : l.agent = m.agent => l = m
      BY <1>3, <1>4 DEF LInv, Sole
    <2>2. \A l \in launching' : \A o \in owners' : o.agent # l.agent
      BY <1>2, <1>3, <1>4 DEF LInv, Sole
    <2>3. control'.kind \in {"integrate", "reconcile"} =>
            /\ control' = control /\ Started(control.agent) /\ control.agent \in Agents
            /\ Vacant(control.agent)'
      BY <1>2, <1>3, <1>4 DEF NoControl, GInv, Handled, LInv, Sole, Vacant
    <2>4. /\ control'.kind = "integrate" => status'[control'.agent] = "Ready"
          /\ control'.kind = "reconcile" => status'[control'.agent] = "Uncertain"
      BY <1>3, <2>3 DEF LInv, Sole
    <2> QED BY <1>2, <2>1, <2>2, <2>3, <2>4 DEF LInv, Sole
  <1>6. InHand'
    BY <1>2, <1>3, <1>4 DEF LInv, InHand
  <1>7. Quiet'
    BY <1>2, <1>3 DEF LInv, Quiet, NoControl
  <1>8. Guarded'
    BY <1>2, <1>3, <1>4 DEF LInv, Guarded, Unrecorded
  <1> QED BY <1>5, <1>6, <1>7, <1>8 DEF LInv

\* An agent whose tasks work, if it has any, has none when its status is a settled
\* one: and nobody is about to start one.
LEMMA Settled ==
    ASSUME GInv, LInv, ~Lingering, Free, NEW a \in Agents, CleanedUp(a),
           status[a] \notin Active \union {"Cancelled"}
    PROVE  Vacant(a)
  <1>1. \A o \in owners : o.agent # a
    <2> SUFFICES ASSUME NEW o \in owners, o.agent = a PROVE FALSE
      OBVIOUS
    <2>1. o.step \in Working
      BY DEF CleanedUp
    <2>2. o.mode = "registered"
      BY <2>1, WhenFree DEF GInv, Registry
    <2> QED BY <2>1, <2>2 DEF LInv, InHand
  <1>2. \A l \in launching : l.agent # a
    BY WhenFree DEF Active
  <1> QED BY <1>1, <1>2 DEF Vacant

\* An agent that no task serves changes its status.
LEMMA VacantSettles ==
    ASSUME GInv, LInv, NEW a \in Agents, Vacant(a),
           \A b \in Agents : b # a => status'[b] = status[b],
           control'.kind \in {"integrate", "reconcile"} =>
               control' = control /\ control.agent # a,
           launching \subseteq launching', UNCHANGED <<owners, held, busy, touched>>,
           \A l \in launching' : l \in launching \/ l.agent = a,
           \A l, m \in launching' \ launching : l = m,
           busy => \A l \in launching' \ launching : l.job # "integrate"
    PROVE  LInv'
  <1>1. owners \subseteq Owner /\ launching \subseteq Launch
    BY DEF GInv, TypeOK
  <1>2. \A o \in owners : o.agent \in Agents /\ o.agent # a /\ status'[o.agent] = status[o.agent]
    BY <1>1 DEF Vacant, Owner
  <1>3. \A l \in launching : l.agent \in Agents /\ l.agent # a
    BY <1>1 DEF Vacant, Launch
  <1>4. Sole'
    <2>1. control'.kind \in {"integrate", "reconcile"} =>
            /\ control' = control /\ control.agent # a /\ control.agent \in Agents
            /\ status'[control.agent] = status[control.agent]
            /\ Vacant(control.agent)'
      BY DEF GInv, Handled, LInv, Sole, Vacant
    <2>2. \A l, m \in launching' : l.agent = m.agent => l = m
      BY <1>3 DEF LInv, Sole
    <2>3. \A l \in launching' : \A o \in owners : o.agent # l.agent
      BY <1>2 DEF LInv, Sole
    <2> QED BY <2>1, <2>2, <2>3 DEF LInv, Sole
  <1>5. InHand'
    BY <1>2 DEF LInv, InHand
  <1>6. Quiet'
    BY DEF LInv, Quiet
  <1>7. Guarded'
    BY <1>2 DEF LInv, Guarded, Unrecorded
  <1> QED BY <1>4, <1>5, <1>6, <1>7 DEF LInv

LEMMA AssignSettles ==
    ASSUME GInv, LInv, NEW a \in Agents, NEW d \in SUBSET Agents, Assign(a, d)
    PROVE  LInv'
  <1> DEFINE l == [agent |-> a, job |-> "work", source |-> "control"]
  <1>1. Vacant(a)
    <2>1. ~Started(a)
      BY DEF Assign, Started
    <2> QED BY <2>1 DEF GInv, Registry, Launches, Vacant
  <1>2. l.agent = a /\ l.job = "work"
    OBVIOUS
  <1>3. launching' \in {launching, launching \union {l}}
    BY DEF Assign
  <1> HIDE DEF l
  <1>4. \A b \in Agents : b # a => status'[b] = status[b]
    BY DEF Assign, SetStatus, GInv, TypeOK
  <1>5. control'.kind \in {"none", "pump"}
    BY WhenFree DEF Assign, Doing
  <1> QED BY <1>1, <1>2, <1>3, <1>4, <1>5, VacantSettles DEF Assign, history

LEMMA StartValidationSettles ==
    ASSUME GInv, LInv, ~Lingering, NEW a \in Agents, StartValidation(a)
    PROVE  LInv'
  <1> DEFINE l == [agent |-> a, job |-> "validate", source |-> "control"]
  <1>1. Vacant(a)
    BY Settled DEF StartValidation, Active
  <1>2. l.agent = a /\ l.job = "validate"
    OBVIOUS
  <1>3. launching' = launching \union {l}
    BY DEF StartValidation
  <1> HIDE DEF l
  <1>4. \A b \in Agents : b # a => status'[b] = status[b]
    BY DEF StartValidation, SetStatus, GInv, TypeOK
  <1>5. control'.kind = "none"
    BY WhenFree DEF StartValidation, session
  <1> QED BY <1>1, <1>2, <1>3, <1>4, <1>5, VacantSettles
            DEF StartValidation, history, session

LEMMA AdmitIntegrationSettles ==
    ASSUME GInv, LInv, AdmitIntegration
    PROVE  LInv'
  <1> DEFINE a == control.agent
             l == [agent |-> a, job |-> "integrate", source |-> "control"]
  <1>1. Vacant(a) /\ a \in Agents /\ ~busy
    BY DEF AdmitIntegration, LInv, Sole, Quiet, GInv, Handled, TypeOK
  <1>2. l.agent = a
    OBVIOUS
  <1>3. launching' \in {launching, launching \union {l}}
    BY DEF AdmitIntegration
  <1> HIDE DEF l
  <1>4. \A b \in Agents : b # a => status'[b] = status[b]
    BY DEF AdmitIntegration, SetStatus, GInv, TypeOK
  <1>5. control'.kind = "none"
    BY DEF AdmitIntegration, NoControl
  <1> HIDE DEF a
  <1> QED BY <1>1, <1>2, <1>3, <1>4, <1>5, VacantSettles
            DEF AdmitIntegration, history

LEMMA ReconcileAgentSettles ==
    ASSUME GInv, LInv, ReconcileAgent
    PROVE  LInv'
  <1> DEFINE a == control.agent
  <1>1. Vacant(a) /\ a \in Agents
    BY DEF ReconcileAgent, LInv, Sole, GInv, Handled
  <1>4. \A b \in Agents : b # a => status'[b] = status[b]
    BY DEF ReconcileAgent, SetStatus, GInv, TypeOK
  <1>5. control'.kind = "none"
    BY DEF ReconcileAgent, NoControl
  <1> HIDE DEF a
  <1> QED BY <1>1, <1>4, <1>5, VacantSettles
            DEF ReconcileAgent, history, manager

LEMMA RegisterSettles ==
    ASSUME GInv, LInv, NEW l \in launching, Register(l)
    PROVE  LInv'
  <1> DEFINE f(o) == IF o.agent = l.agent /\ o.mode = "registered"
                     THEN Told(o, "detached") ELSE o
             n(i) == [agent |-> l.agent, slot |-> i, job |-> l.job,
                      step |-> FirstStep(l.job), mode |-> "registered", ok |-> TRUE]
  <1>1. l.job \in Jobs
    BY DEF GInv, TypeOK, Launch
  <1>2. PICK slot \in {1, 2} : owners' = {f(o) : o \in owners} \union {n(slot)}
    BY DEF Register
  <1>3. \A o \in owners : f(o) = o /\ o.agent # l.agent
    BY DEF LInv, Sole
  <1>4. /\ n(slot).agent = l.agent /\ n(slot).mode = "registered"
        /\ n(slot).step \in Merging => l.job = "integrate"
    BY <1>1 DEF FirstStep, Jobs, Merging
  <1> HIDE DEF f
  <1>5. owners' = owners \union {n(slot)}
    BY <1>2, <1>3
  <1> HIDE DEF n
  <1>6. /\ status[l.agent] \in Active
        /\ l.job = "integrate" => status[l.agent] = "Integrating"
    BY <1>1 DEF Register, Expected, Jobs, Active
  <1>7. launching' = launching \ {l}
        /\ UNCHANGED <<status, held, control, busy, touched>>
    BY DEF Register, record, session, history
  <1>8. Sole'
    BY <1>3, <1>4, <1>5, <1>7 DEF LInv, Sole, Vacant
  <1>9. InHand'
    BY <1>4, <1>5, <1>6, <1>7 DEF LInv, InHand
  <1>10. Quiet'
    BY <1>4, <1>5, <1>7 DEF LInv, Quiet
  <1>11. Guarded'
    BY <1>5, <1>7 DEF LInv, Guarded, Unrecorded
  <1> QED BY <1>8, <1>9, <1>10, <1>11 DEF LInv

LEMMA RefuseLaunchSettles ==
    ASSUME GInv, LInv, NEW l \in launching, RefuseLaunch(l)
    PROVE  LInv'
  <1>1. /\ owners \subseteq Owner /\ launching \subseteq Launch
    BY DEF GInv, TypeOK
  <1>2. /\ launching' = launching \ {l}
        /\ \A b \in Agents : b # l.agent => status'[b] = status[b]
        /\ UNCHANGED <<owners, held, control, busy, touched>>
    BY DEF RefuseLaunch, SetStatus, session, history, GInv, TypeOK
  <1>3. \A o \in owners : o.agent # l.agent /\ status'[o.agent] = status[o.agent]
    BY <1>1, <1>2 DEF LInv, Sole, Owner
  <1>4. Sole'
    <2>1. control.kind \in {"integrate", "reconcile"} =>
            control.agent \in Agents /\ control.agent # l.agent /\ Vacant(control.agent)'
      BY <1>2 DEF GInv, Handled, LInv, Sole, Vacant
    <2> QED BY <1>2, <2>1 DEF LInv, Sole
  <1>5. InHand' /\ Quiet' /\ Guarded'
    BY <1>2, <1>3 DEF LInv, InHand, Quiet, Guarded, Unrecorded
  <1> QED BY <1>4, <1>5 DEF LInv

LEMMA ControlsSettle ==
    ASSUME GInv, LInv, ~Lingering,
           \/ ResumeQueue \/ ParentTurnBegins \/ ParentTurnCompletes \/ ReconcileParent
           \/ \E a \in Agents : StartIntegration(a) \/ StartReconcile(a)
    PROVE  LInv'
  <1> USE DEF record, manager, session, history
  <1>1. Free /\ UNCHANGED <<status, owners, launching>>
    BY DEF ResumeQueue, ParentTurnBegins, ParentTurnCompletes, ReconcileParent,
           StartIntegration, StartReconcile
  <1>2. \A o \in owners : o.mode \in {"registered", "detached"}
    BY <1>1, WhenFree
  <1>3. CASE ResumeQueue \/ ParentTurnCompletes \/ ReconcileParent
    <2>1. control'.kind \in {"none", "pump"}
      BY <1>1, <1>3, WhenFree
         DEF ResumeQueue, ParentTurnCompletes, ReconcileParent, Doing
    <2>2. Sole'
      BY <1>1, <2>1 DEF LInv, Sole
    <2>3. InHand'
      BY <1>1, <1>2 DEF LInv, InHand
    <2>4. Quiet'
      BY <1>1, <1>3, <2>1
        DEF LInv, Quiet, ResumeQueue, ParentTurnCompletes, ReconcileParent
    <2>5. Guarded'
      BY <1>1, <1>3
         DEF LInv, Guarded, Unrecorded, ResumeQueue, ParentTurnCompletes, ReconcileParent
    <2> QED BY <2>2, <2>3, <2>4, <2>5 DEF LInv
  <1>4. CASE ParentTurnBegins
    <2>1. control'.kind = "none" /\ UNCHANGED <<held, touched>>
      BY <1>1, <1>4, WhenFree DEF ParentTurnBegins
    <2>2. Sole' /\ InHand' /\ Guarded'
      BY <1>1, <2>1 DEF LInv, Sole, InHand, Guarded, Unrecorded
    <2>3. \A o \in owners : o.step \notin Merging
      <3> SUFFICES ASSUME NEW o \in owners, o.step \in Merging PROVE FALSE
        OBVIOUS
      <3>1. o.step \in Working
        BY DEF Merging, Working
      <3>2. o.mode = "registered"
        BY <1>2, <3>1 DEF GInv, Registry
      <3>3. status[o.agent] = "Integrating"
        BY <3>2 DEF LInv, InHand
      <3> QED BY <1>4, <3>3, OwnerFacts DEF ParentTurnBegins, Integrating
    <2>4. \A l \in launching : l.job = "work"
      BY <1>1, WhenFree
    <2>5. Quiet'
      BY <1>1, <2>1, <2>3, <2>4 DEF Quiet
    <2> QED BY <2>2, <2>5 DEF LInv
  <1>5. CASE \E a \in Agents : StartIntegration(a) \/ StartReconcile(a)
    <2>1. PICK a \in Agents : StartIntegration(a) \/ StartReconcile(a)
      BY <1>5
    <2>2. Vacant(a)
      BY <1>1, <2>1, Settled
        DEF StartIntegration, StartReconcile, MayIntegrate, Active
    <2>3. /\ UNCHANGED <<held, busy, touched>> /\ ~busy
          /\ control'.agent = a
          /\ \/ control'.kind = "integrate" /\ status[a] = "Ready"
             \/ control'.kind = "reconcile" /\ status[a] = "Uncertain"
      BY <2>1 DEF StartIntegration, StartReconcile, MayIntegrate, Doing
    <2>4. Sole'
      BY <1>1, <2>2, <2>3 DEF LInv, Sole, Vacant
    <2>5. InHand' /\ Guarded' /\ Quiet'
      BY <1>1, <2>3 DEF LInv, InHand, Guarded, Quiet, Unrecorded
    <2> QED BY <2>4, <2>5 DEF LInv
  <1> QED BY <1>3, <1>4, <1>5

\* A cancellation's effect on the tasks: each stays what it is, or leaves the
\* registry; only those that stay in it hold an integration open.
Leaving(f) ==
    /\ owners' = {f[o] : o \in owners}
    /\ \A o \in owners :
         /\ f[o].agent = o.agent
         /\ f[o].step \in Merging => f[o].step = o.step
         /\ f[o].mode = "registered" => f[o] = o /\ status'[o.agent] = status[o.agent]
         /\ f[o].mode = "taken" /\ f[o].step \in Merging => held'
         /\ Unrecorded(o) => \/ held'
                             \/ f[o] = o /\ status'[o.agent] = status[o.agent]
    /\ control'.kind \notin {"integrate", "reconcile"}
    /\ busy' => busy
    /\ held => held'
    /\ UNCHANGED <<launching, touched>>

LEMMA LeavingSettles ==
    ASSUME GInv, LInv, NEW f, Leaving(f)
    PROVE  LInv'
  <1> USE DEF Leaving
  <1>1. Sole'
    <2>1. ASSUME NEW p \in owners', NEW q \in owners', p.agent = q.agent
          PROVE  p = q
      <3>1. PICK o \in owners : p = f[o]
        OBVIOUS
      <3>2. PICK r \in owners : q = f[r]
        OBVIOUS
      <3> QED BY <2>1, <3>1, <3>2 DEF LInv, Sole
    <2>2. \A l \in launching' : \A p \in owners' : p.agent # l.agent
      BY DEF LInv, Sole
    <2> QED BY <2>1, <2>2 DEF LInv, Sole
  <1>2. InHand'
    <2> SUFFICES ASSUME NEW p \in owners'
                 PROVE  /\ p.mode = "registered" /\ p.step \in Working =>
                             status'[p.agent] \in Active
                        /\ p.mode = "registered" /\ p.step \in Merging =>
                             status'[p.agent] = "Integrating"
                        /\ p.mode = "taken" /\ p.step \in Merging => held'
      BY DEF InHand
    <2>1. PICK o \in owners : p = f[o]
      OBVIOUS
    <2> QED BY <2>1 DEF LInv, InHand
  <1>3. Quiet'
    BY DEF LInv, Quiet
  <1>4. Guarded'
    <2> SUFFICES ASSUME touched', ~held' PROVE \E p \in owners' : Unrecorded(p)'
      BY DEF Guarded
    <2>1. PICK o \in owners : Unrecorded(o)
      BY DEF LInv, Guarded
    <2>2. f[o] = o /\ status'[o.agent] = status[o.agent] /\ o \in owners'
      BY <2>1
    <2> QED BY <2>1, <2>2 DEF Unrecorded
  <1> QED BY <1>1, <1>2, <1>3, <1>4 DEF LInv

LEMMA CancelAgentSettles ==
    ASSUME GInv, LInv, NEW a \in Agents, CancelAgent(a)
    PROVE  LInv'
  <1> DEFINE f(o) == IF o.agent = a /\ o.mode = "registered"
                     THEN [o EXCEPT !.mode = "taken"] ELSE o
  <1>1. /\ owners' = {f(o) : o \in owners} /\ Free
        /\ held' = (held \/ status[a] = "Integrating")
        /\ UNCHANGED <<launching, busy, touched>>
    BY DEF CancelAgent, history
  <1>2. \A o \in owners :
          /\ f(o).agent = o.agent /\ f(o).step = o.step
          /\ \/ o.agent = a /\ o.mode = "registered" /\ f(o).mode = "taken"
             \/ ~(o.agent = a /\ o.mode = "registered") /\ f(o) = o
    BY TakenOwner DEF GInv, TypeOK
  <1> HIDE DEF f
  <1>3. \A b \in Agents : b # a => status'[b] = status[b]
    BY DEF CancelAgent, SetStatus, GInv, TypeOK
  <1>4. \A o \in owners : o.agent \in Agents /\ o.mode \in {"registered", "detached"}
    BY <1>1, WhenFree DEF GInv, TypeOK, Owner
  <1>5. control'.kind = "cancel"
    BY DEF CancelAgent, Doing
  <1>6. \A o \in owners :
          /\ f(o).agent = o.agent
          /\ f(o).step \in Merging => f(o).step = o.step
          /\ f(o).mode = "registered" =>
               f(o) = o /\ status'[o.agent] = status[o.agent]
          /\ f(o).mode = "taken" /\ f(o).step \in Merging => held'
          /\ Unrecorded(o) /\ f(o) # o => held'
    BY <1>1, <1>2, <1>3, <1>4 DEF LInv, InHand, Unrecorded
  <1>7. \A o \in owners : Unrecorded(o) => held' \/ status'[o.agent] = status[o.agent]
    BY <1>1, <1>3, <1>4 DEF Unrecorded
  <1> DEFINE g == [o \in owners |-> f(o)]
  <1>8. owners' = {g[o] : o \in owners} /\ \A o \in owners : g[o] = f(o)
    BY <1>1
  <1> HIDE DEF g
  <1>9. Leaving(g)
    BY <1>1, <1>5, <1>6, <1>7, <1>8 DEF Leaving
  <1> QED BY <1>9, LeavingSettles

LEMMA StopAllSettles ==
    ASSUME GInv, LInv, StopAll
    PROVE  LInv'
  <1> DEFINE f(o) == CASE o.mode = "registered" -> [o EXCEPT !.mode = "taken"]
                       [] o.mode \in {"taken", "told"} -> Told(o, "detached")
                       [] OTHER -> o
  <1>1. /\ owners' = {f(o) : o \in owners}
        /\ held' = (held \/ Integrating) /\ busy' = FALSE
        /\ UNCHANGED <<launching, touched>>
    BY DEF StopAll, history
  <1>2. ASSUME NEW o \in owners
        PROVE  /\ f(o).agent = o.agent
               /\ \/ o.mode = "registered" /\ f(o).mode = "taken" /\ f(o).step = o.step
                  \/ o.mode # "registered" /\ f(o).mode = "detached" /\ f(o).step \notin Merging
    <2>1. o \in Owner /\ o.mode \in {"registered", "taken", "told", "detached"}
      BY DEF GInv, TypeOK, Owner
    <2>2. CASE o.mode = "registered"
      <3> DEFINE e == [o EXCEPT !.mode = "taken"]
      <3>1. e.agent = o.agent /\ e.step = o.step /\ e.mode = "taken"
        BY <2>1, TakenOwner
      <3>2. f(o) = e
        BY <2>2
      <3> HIDE DEF e, f
      <3> QED BY <2>2, <3>1, <3>2
    <2>3. CASE o.mode \in {"taken", "told"}
      BY <2>1, <2>3, ToldOwner
    <2>4. CASE o.mode = "detached"
      <3>1. f(o) = o
        BY <2>4
      <3>2. o.step \notin Merging
        BY <2>4 DEF GInv, Registry, Merging, Working
      <3> HIDE DEF f
      <3> QED BY <2>4, <3>1, <3>2
    <2> QED BY <2>1, <2>2, <2>3, <2>4
  <1> HIDE DEF f
  <1>3. control'.kind = "stop"
    BY DEF StopAll, Doing
  <1>4. \A o \in owners : status[o.agent] = "Integrating" => held'
    BY <1>1, OwnerFacts DEF Integrating
  <1>5. \A o \in owners :
          /\ f(o).agent = o.agent
          /\ f(o).step \in Merging => f(o).step = o.step
          /\ f(o).mode = "registered" =>
               f(o) = o /\ status'[o.agent] = status[o.agent]
          /\ f(o).mode = "taken" /\ f(o).step \in Merging => held'
          /\ Unrecorded(o) /\ f(o) # o => held'
    BY <1>2, <1>4 DEF LInv, InHand, Unrecorded
  <1>6. \A o \in owners : Unrecorded(o) => held' \/ status'[o.agent] = status[o.agent]
    BY <1>4 DEF Unrecorded
  <1> DEFINE g == [o \in owners |-> f(o)]
  <1>8. owners' = {g[o] : o \in owners} /\ \A o \in owners : g[o] = f(o)
    BY <1>1
  <1> HIDE DEF g
  <1>9. Leaving(g)
    BY <1>1, <1>3, <1>5, <1>6, <1>8 DEF Leaving
  <1> QED BY <1>9, LeavingSettles

LEMMA SignalSettles ==
    ASSUME GInv, LInv, Signal
    PROVE  LInv'
  <1> DEFINE f(o) == IF o.mode = "taken" THEN Told(o, "told") ELSE o
  <1>1. owners' = {f(o) : o \in owners} /\ UNCHANGED <<status, held, launching, busy, touched>>
    BY DEF Signal, record, history
  <1>2. \A o \in owners :
          /\ f(o).agent = o.agent
          /\ \/ o.mode # "taken" /\ f(o) = o
             \/ o.mode = "taken" /\ f(o).mode = "told" /\ f(o).step \notin Merging
    BY ToldOwner DEF GInv, TypeOK
  <1> HIDE DEF f
  <1>3. control'.kind \in {"cancelWait", "stopWait"}
    BY DEF Signal, GInv, TypeOK, Controls
  <1>4. \A o \in owners :
          /\ f(o).agent = o.agent
          /\ f(o).step \in Merging => f(o).step = o.step
          /\ f(o).mode = "registered" =>
               f(o) = o /\ status'[o.agent] = status[o.agent]
          /\ f(o).mode = "taken" /\ f(o).step \in Merging => held'
          /\ Unrecorded(o) /\ f(o) # o => held'
    BY <1>1, <1>2 DEF Unrecorded
  <1> DEFINE g == [o \in owners |-> f(o)]
  <1>8. owners' = {g[o] : o \in owners} /\ \A o \in owners : g[o] = f(o)
    BY <1>1
  <1> HIDE DEF g
  <1>9. Leaving(g)
    BY <1>1, <1>3, <1>4, <1>8 DEF Leaving
  <1> QED BY <1>9, LeavingSettles

LEMMA AbortOwnerSettles ==
    ASSUME GInv, LInv, NEW o \in owners, AbortOwner(o)
    PROVE  LInv'
  <1>1. /\ owners' = owners \ {o} /\ o.mode = "told"
        /\ control.kind \in {"cancelWait", "stopWait"}
        /\ held => held'
        /\ UNCHANGED <<launching, control, busy, touched>>
    BY DEF AbortOwner, session, history
  <1>2. \A p \in owners' : p.agent # o.agent /\ p.agent \in Agents
    BY <1>1 DEF LInv, Sole, GInv, TypeOK, Owner
  <1>3. \A p \in owners' : status'[p.agent] = status[p.agent]
    BY <1>2, OwnerFacts DEF AbortOwner, SetStatus
  <1>4. Sole'
    BY <1>1 DEF LInv, Sole
  <1>5. InHand' /\ Quiet'
    BY <1>1, <1>3 DEF LInv, InHand, Quiet
  <1>6. Guarded'
    <2>1. ~Unrecorded(o)
      BY <1>1 DEF Unrecorded
    <2> QED BY <1>1, <1>3, <2>1 DEF LInv, Guarded, Unrecorded
  <1> QED BY <1>4, <1>5, <1>6 DEF LInv

LEMMA StoppedSettles ==
    ASSUME GInv, LInv, Stopped
    PROVE  LInv'
  <1>1. control'.kind = "none"
        /\ UNCHANGED <<status, owners, launching, held, busy, touched>>
    BY DEF Stopped, NoControl, record, manager, history
  <1> QED BY <1>1 DEF LInv, Sole, InHand, Quiet, Guarded, Unrecorded

LEMMA RestartSettles ==
    ASSUME GInv, LInv, Restart
    PROVE  LInv'
  <1>1. owners' = {} /\ launching' = {} /\ control'.kind = "none" /\ ~busy'
        /\ held' = (held \/ ActiveAgents # {} \/ busy) /\ touched' = touched
    BY DEF Restart, NoControl, history
  <1>2. Sole' /\ InHand' /\ Quiet'
    BY <1>1 DEF Sole, InHand, Quiet
  <1>3. \A o \in owners : Unrecorded(o) => ActiveAgents # {}
    BY OwnerFacts DEF Unrecorded, ActiveAgents, Active
  <1>4. Guarded'
    BY <1>1, <1>3 DEF LInv, Guarded
  <1> QED BY <1>2, <1>4 DEF LInv

LEMMA StepSettles ==
    ASSUME Lingering = FALSE
    PROVE  GInv /\ LInv /\ [Next]_vars => LInv'
  <1> SUFFICES ASSUME GInv, LInv, [Next]_vars PROVE LInv'
    OBVIOUS
  <1>0. ~Lingering
    OBVIOUS
  <1>1. CASE \E l \in launching : Register(l) \/ RefuseLaunch(l)
    BY <1>1, RegisterSettles, RefuseLaunchSettles
  <1>2. CASE \E a \in Agents :
               \/ \E d \in SUBSET Agents : Assign(a, d)
               \/ StartValidation(a) \/ StartIntegration(a) \/ StartReconcile(a)
               \/ CancelAgent(a)
    BY <1>0, <1>2, AssignSettles, StartValidationSettles, ControlsSettle,
          CancelAgentSettles
  <1>3. CASE ResumeQueue \/ PumpForControl \/ AdmitIntegration \/ ReconcileAgent
    BY <1>0, <1>3, ControlsSettle, PumpSettles, AdmitIntegrationSettles,
          ReconcileAgentSettles
  <1>4. ASSUME NEW o \in owners,
               \/ WorktreePrepared(o) \/ WorkerTurnEnds(o) \/ CollectEvidence(o)
               \/ Clear(o) \/ Hold(o) \/ Correct(o) \/ ReviewEnds(o)
        PROVE  LInv'
    BY <1>4, WorktreePreparedKeeps, WorkerTurnEndsKeeps, CollectEvidenceKeeps,
       ClearKeeps, HoldKeeps, CorrectKeeps, ReviewEndsKeeps
  <1>5. ASSUME NEW o \in owners,
               \/ BeginMerge(o) \/ RecordMerge(o) \/ JobFails(o)
               \/ FinishJob(o) \/ PumpForOwner(o) \/ AbortOwner(o)
        PROVE  LInv'
    BY <1>0, <1>5, BeginMergeKeeps, RecordMergeKeeps, JobFailsKeeps,
          FinishJobKeeps,
       PumpSettles, AbortOwnerSettles
  <1>6. CASE StopAll \/ Signal \/ Stopped
    BY <1>6, StopAllSettles, SignalSettles, StoppedSettles
  <1>7. CASE ParentTurnBegins \/ ParentTurnCompletes \/ ReconcileParent \/ Restart
    BY <1>0, <1>7, ControlsSettle, RestartSettles
  <1>8. CASE UNCHANGED vars
    BY <1>8 DEF vars, LInv, Sole, InHand, Quiet, Guarded, Unrecorded, Vacant
  <1> QED BY <1>1, <1>2, <1>3, <1>4, <1>5, <1>6, <1>7, <1>8 DEF Next

LEMMA TimelyInvariance ==
    ASSUME Lingering = FALSE PROVE Spec => [](GInv /\ LInv)
  <1>1. Init => GInv /\ LInv
    BY Initially
  <1>2. GInv /\ LInv /\ [Next]_vars => (GInv /\ LInv)'
    BY StepKeeps, StepSettles
  <1> QED BY <1>1, <1>2, PTL DEF Spec

\* Files of the parent that an integration changed without a record of it hold the
\* session, unless that integration is still at work: whoever cancels it, aborts it,
\* stops everything, or restarts the process, and in whatever order.
THEOREM UnrecordedMergeHeld ==
    ASSUME Lingering = FALSE PROVE Spec => []UnrecordedMergeIsHeld
  <1>1. GInv /\ LInv => UnrecordedMergeIsHeld
    BY DEF LInv, Guarded, Unrecorded, UnrecordedMergeIsHeld
  <1> QED BY <1>1, TimelyInvariance, PTL

\* No turn of the parent runs while an integration changes its files.
THEOREM ParentWorksAlone ==
    ASSUME Lingering = FALSE PROVE Spec => []ParentAlone
  <1>1. GInv /\ LInv => ParentAlone
    BY DEF LInv, Quiet, Merging, ParentAlone
  <1> QED BY <1>1, TimelyInvariance, PTL

\* The queue's admission is asked of prerequisites whose integration was recorded,
\* while no integration changes the parent's files.
LEMMA ReleaseStep ==
    ASSUME GInv, LInv, [Next]_vars, NEW a \in Agents,
           status[a] = "Queued", status'[a] = "Preparing"
    PROVE  needs[a] \subseteq merged /\ \A o \in owners : o.step # "merging"
  <1>1. status \in [Agents -> AgentStatus \union {"none"}] /\ needs[a] \subseteq Agents
    BY DEF GInv, TypeOK
  <1>2. /\ \A o \in owners : o.agent # a
        /\ \A l \in launching : l.agent # a
    BY DEF GInv, Registry, Launches, Started
  <1>3. Pump
    <2>1. CASE \E l \in launching : Register(l) \/ RefuseLaunch(l)
      BY <1>1, <1>2, <2>1 DEF Register, RefuseLaunch, SetStatus, record
    <2>2. CASE \E b \in Agents :
                 \/ \E d \in SUBSET Agents : Assign(b, d)
                 \/ StartValidation(b) \/ StartIntegration(b) \/ StartReconcile(b)
                 \/ CancelAgent(b)
      BY <1>1, <2>2
        DEF Assign, StartValidation, StartIntegration, StartReconcile,
                        CancelAgent, SetStatus, record, AfterCancel
    <2>3. CASE ResumeQueue \/ AdmitIntegration \/ ReconcileAgent
      BY <1>1, <2>3
        DEF ResumeQueue, AdmitIntegration, ReconcileAgent, SetStatus, record
    <2>4. ASSUME NEW o \in owners,
                 \/ WorktreePrepared(o) \/ WorkerTurnEnds(o) \/ CollectEvidence(o)
                 \/ Clear(o) \/ Hold(o) \/ Correct(o) \/ ReviewEnds(o)
                 \/ BeginMerge(o) \/ RecordMerge(o) \/ JobFails(o)
                 \/ FinishJob(o) \/ AbortOwner(o)
          PROVE  FALSE
      <3>1. o.agent # a
        BY <1>2
      <3> QED BY <1>1, <2>4, <3>1
              DEF WorktreePrepared, WorkerTurnEnds, CollectEvidence, Clear, Hold, Correct,
                  ReviewEnds, BeginMerge, RecordMerge, JobFails, FinishJob, AbortOwner,
                  SetStatus, record
    <2>5. CASE PumpForControl \/ \E o \in owners : PumpForOwner(o)
      BY <2>5 DEF PumpForControl, PumpForOwner
    <2>6. CASE StopAll \/ Restart
      BY <1>1, <2>6 DEF StopAll, Restart, AfterCancel, ActiveAgents
    <2>7. CASE Signal \/ Stopped \/ ParentTurnBegins \/ ParentTurnCompletes
               \/ ReconcileParent \/ UNCHANGED vars
      BY <2>7 DEF Signal, Stopped, ParentTurnBegins, ParentTurnCompletes,
                  ReconcileParent, vars, record
    <2> QED BY <2>1, <2>2, <2>3, <2>4, <2>5, <2>6, <2>7 DEF Next
  <1>4. Eligible(a) /\ ~held /\ ~Integrating
    BY <1>3 DEF Pump, Admitted
  <1>5. needs[a] \subseteq merged
    BY <1>1, <1>4 DEF Eligible, GInv, Recorded
  <1>6. \A o \in owners : o.step # "merging"
    <2> SUFFICES ASSUME NEW o \in owners, o.step = "merging" PROVE FALSE
      OBVIOUS
    <2>1. o.step \in Merging /\ o.step \in Working
      BY DEF Merging, Working
    <2>2. o.mode \in {"registered", "taken"}
      BY <2>1, OwnerFacts DEF GInv, Registry, Owner
    <2>3. status[o.agent] = "Integrating"
      BY <1>4, <2>1, <2>2 DEF LInv, InHand
    <2> QED BY <1>4, <2>3, OwnerFacts DEF Integrating
  <1> QED BY <1>5, <1>6

\* A dependent assignment is released by the queue only after each prerequisite was
\* integrated and recorded, never beside a merge into the parent's files.
THEOREM ReleasesFollow ==
    ASSUME Lingering = FALSE PROVE Spec => ReleaseFollowsIntegration
  <1>1. GInv /\ LInv /\ [Next]_vars =>
          [\A a \in Agents : status[a] = "Queued" /\ status'[a] = "Preparing" =>
             needs[a] \subseteq merged /\ \A o \in owners : o.step # "merging"]_vars
    BY ReleaseStep
  <1> QED BY <1>1, TimelyInvariance, PTL DEF Spec, ReleaseFollowsIntegration

===============================================================================
