---------------------------- MODULE SessionLoop -----------------------------
(***************************************************************************)
(* The loop that owns a session (session.rs), the terminal that submits    *)
(* drafts to it and shows its events (terminal.rs), the relay of a session *)
(* with agents (subagents/session.rs), and a turn as far as it takes       *)
(* commands: an external backend's (adapters/claude.rs, codex.rs), a       *)
(* native one (native.rs) and the controls that refuse drafts              *)
(* (workflow/mod.rs, learning/control.rs, native/compaction.rs).           *)
(*                                                                         *)
(* The terminal never waits: it tries to send and polls.  The host waits   *)
(* for room in the event queue wherever it publishes, and every such wait  *)
(* also takes commands.  All its selects are biased: a command is taken    *)
(* before the work it is selected with goes on.  Advisories are dropped    *)
(* when there is no room, and left out.                                    *)
(***************************************************************************)
EXTENDS Naturals, Sequences, FiniteSets

CONSTANTS
    CommandCapacity,     \* of the command queue (16 in main.rs)
    EventCapacity,       \* of the event queue (256)
    CorrectionCapacity,  \* CORRECTION_CAPACITY (32)
    MaxDrafts, MaxCancels    \* bounds: texts typed, Escapes pressed

ASSUME SessionLoopAssumption ==
    /\ {CommandCapacity, EventCapacity, CorrectionCapacity} \subseteq Nat \ {0}
    /\ {MaxDrafts, MaxCancels} \subseteq Nat

VARIABLES
    ui,          \* the terminal's View
    reply,       \* the oneshot of the pending submission
    queue, open, \* the command channel: what is in it, and its receiver
    forwarded,   \* a draft in the channel of DelegatingSession to its parent
    events,      \* the event channel
    host,        \* where session::run stands, and what it publishes
    run,         \* the turn, NoTurn between turns
    background,  \* an observer: "ready" is one that asks for a turn
    agents, native,  \* the session has agents, is a native one (frozen)
    typed, escapes,  \* texts typed and Escapes so far
    fate,        \* history: what became of each text
    late,        \* history: corrections accepted while the final result was published
    excused      \* history: a stop failed, and an error was shown

frozen == <<agents, native>>
history == <<late, excused>>
view == <<ui, typed, escapes>>
vars == <<ui, reply, queue, open, forwarded, events, host, run, background,
          agents, native, typed, escapes, fate, late, excused>>

Drafts == 1..MaxDrafts
Nothing == 0    \* an empty editor, no submission; an observer's prompt
Cancel == [kind |-> "cancel", draft |-> Nothing]
Shutdown == [kind |-> "shutdown", draft |-> Nothing]
Submission(d) == [kind |-> "submit", draft |-> d]

NoTurn == [mode |-> "none", dispatch |-> "none", steering |-> <<>>, taken |-> {},
           interrupting |-> FALSE, completed |-> FALSE, acked |-> FALSE]
Places == {"starting", "startCancelled", "publishing", "idle", "turn", "joining",
           "stopping", "ending", "closing", "ended", "aborted"}
Publications == {"none", "ready", "initial", "started", "error", "finished", "cancelled"}
Over == host.at \in {"ended", "aborted"}
Relayed == agents /\ host.prompt # Nothing    \* an observer's turn is not relayed

TypeOK ==
    /\ ui \in [live : BOOLEAN, text : 0..MaxDrafts, pending : 0..MaxDrafts,
               cancel : BOOLEAN, busy : BOOLEAN, asked : BOOLEAN]
    /\ reply \in {"none", "open", "ok", "no", "closed"}
    /\ queue \in Seq({Cancel, Shutdown} \union {Submission(d) : d \in Drafts})
    /\ Len(queue) <= CommandCapacity /\ open \in BOOLEAN
    /\ forwarded \in 0..MaxDrafts
    /\ events \in Seq(Publications \union {"other"}) /\ Len(events) <= EventCapacity
    /\ host \in [at : Places, event : Publications, prompt : 0..MaxDrafts]
    /\ run \in [mode : {"none", "work", "control", "failing"},
                dispatch : {"none", "other", "result"}, steering : Seq(Drafts),
                taken : SUBSET Drafts, interrupting : BOOLEAN, completed : BOOLEAN,
                acked : BOOLEAN]
    /\ background \in {"none", "running", "ready"}
    /\ agents \in BOOLEAN /\ native \in BOOLEAN
    /\ typed \in 0..MaxDrafts /\ escapes \in 0..MaxCancels
    /\ fate \in [Drafts -> {"none", "discarded", "prompt", "queued", "applied",
                            "dropped", "lost"}]
    /\ late \subseteq Drafts /\ excused \in BOOLEAN

Init ==
    /\ ui = [live |-> TRUE, text |-> Nothing, pending |-> Nothing, cancel |-> FALSE,
             busy |-> FALSE, asked |-> FALSE]
    /\ reply = "none" /\ queue = <<>> /\ open = TRUE /\ forwarded = Nothing
    /\ events = <<>>
    /\ host = [at |-> "starting", event |-> "none", prompt |-> Nothing]
    /\ run = NoTurn /\ background = "none"
    /\ agents \in BOOLEAN /\ native \in BOOLEAN
    /\ typed = 0 /\ escapes = 0
    /\ fate = [d \in Drafts |-> "none"] /\ late = {} /\ excused = FALSE

Room == Len(queue) < CommandCapacity
EventRoom == Len(events) < EventCapacity
At(place) == host.at = place
Promised == {d \in Drafts : fate[d] \in {"prompt", "queued"}}
Fates(ds, f) == [d \in Drafts |-> IF d \in ds THEN f ELSE fate[d]]

-----------------------------------------------------------------------------
(* The terminal.                                                           *)

TypeText ==
    /\ ui.live /\ typed < MaxDrafts
    /\ typed' = typed + 1 /\ ui' = [ui EXCEPT !.text = typed']
    /\ UNCHANGED <<reply, queue, open, forwarded, events, host, run, background, frozen,
                   escapes, fate, history>>

\* View::submit: one submission at a time, none while a cancellation is pending.
Submit ==
    /\ ui.live /\ ui.text # Nothing /\ ui.pending = Nothing /\ ~ui.cancel
    /\ open /\ Room
    /\ queue' = Append(queue, Submission(ui.text))
    /\ ui' = [ui EXCEPT !.pending = ui.text]
    /\ reply' = "open"
    /\ UNCHANGED <<open, forwarded, events, host, run, background, frozen, typed, escapes,
                   fate, history>>

\* request_cancellation: Escape, or Ctrl-C, which also clears an idle editor.
RequestCancellation ==
    /\ ui.live /\ escapes < MaxCancels
    /\ escapes' = escapes + 1 /\ excused' = FALSE
    /\ \/ ui' = [ui EXCEPT !.cancel = TRUE] /\ UNCHANGED fate
       \/ /\ ~ui.busy /\ ui.pending = Nothing /\ ui.text # Nothing
          /\ ui' = [ui EXCEPT !.cancel = TRUE, !.text = Nothing]
          /\ fate' = Fates({ui.text}, "discarded")
    /\ UNCHANGED <<reply, queue, open, forwarded, events, host, run, background, frozen,
                   typed, late>>

\* What the oneshot says: accepted, refused, or dropped with its sender.
Answered(u) ==
    IF u.pending = Nothing \/ reply = "open" THEN u
    ELSE IF reply = "ok"
    THEN [u EXCEPT !.pending = Nothing, !.busy = TRUE,
                   !.text = IF @ = u.pending THEN Nothing ELSE @]
    ELSE [u EXCEPT !.pending = Nothing]

\* View::poll_commands: first the answer, then the pending cancellation.
Polled == [Answered(ui) EXCEPT !.cancel = @ /\ open /\ ~Room]
PollSends ==
    /\ reply' = IF reply = "open" THEN reply ELSE "none"
    /\ queue' = IF ui.cancel /\ open /\ Room THEN Append(queue, Cancel) ELSE queue

Poll ==
    /\ ui.live /\ (Polled # ui \/ reply \notin {"none", "open"})
    /\ ui' = Polled /\ PollSends
    /\ UNCHANGED <<open, forwarded, events, host, run, background, frozen, typed, escapes,
                   fate, history>>

Shown(u, e) == CASE e = "started"  -> [u EXCEPT !.busy = TRUE]
                 [] e = "finished" -> [u EXCEPT !.busy = FALSE]
                 [] OTHER -> u

\* Mutant: the event is shown before the answer that was sent before it.
MutantNextEvent ==
    /\ ui.live /\ events # <<>>
    /\ ui' = Shown(ui, Head(events))
    /\ events' = Tail(events)
    /\ UNCHANGED <<reply, queue, open, forwarded, host, run, background, frozen, typed,
                   escapes, fate, history>>

\* run_view polls once more when it has an event: admission precedes turn events.
NextEvent ==
    /\ ui.live /\ events # <<>>
    /\ ui' = Shown(Polled, Head(events)) /\ PollSends
    /\ events' = Tail(events)
    /\ UNCHANGED <<open, forwarded, host, run, background, frozen, typed, escapes, fate,
                   history>>

\* Ctrl-Q, or the end of the session (events.recv() is None): the receivers go.
Quit ==
    /\ ui.live
    /\ ui' = [ui EXCEPT !.live = FALSE, !.pending = Nothing, !.cancel = FALSE]
    /\ reply' = "none" /\ events' = <<>>
    /\ UNCHANGED <<queue, open, forwarded, host, run, background, frozen, typed, escapes,
                   fate, history>>
SessionStopped == Over /\ events = <<>> /\ Quit

\* session::shutdown waits for room for its Shutdown, and for the worker.
SendShutdown ==
    /\ ~ui.live /\ ~ui.asked /\ (Room \/ ~open)
    /\ ui' = [ui EXCEPT !.asked = TRUE]
    /\ queue' = IF open THEN Append(queue, Shutdown) ELSE queue
    /\ UNCHANGED <<typed, escapes, reply, open, forwarded, events, host, run, background, frozen,
                   fate, history>>

ShutdownTimesOut ==
    /\ ~ui.live /\ ~Over
    /\ host' = [at |-> "aborted", event |-> "none", prompt |-> Nothing]
    /\ run' = NoTurn /\ queue' = <<>> /\ open' = FALSE /\ forwarded' = Nothing
    /\ background' = "none"
    /\ fate' = Fates(Promised, "dropped")
    /\ UNCHANGED <<view, reply, events, frozen, history>>

-----------------------------------------------------------------------------
(* What the host does with a command, and where it goes on.                *)

Take(c) == queue # <<>> /\ c = Head(queue) /\ queue' = Tail(queue)

\* oneshot::Sender::send: it says whether the terminal still listens.
Answer(a) == reply' = IF reply = "open" THEN a ELSE reply
Heard == reply = "open"

Publish(event, prompt) == host' = [at |-> "publishing", event |-> event, prompt |-> prompt]
Wait(place) == host' = [at |-> place, event |-> "none", prompt |-> Nothing]

\* cancel_background stops the observers (and the agents) before the host goes on.
StopThen(event) == host' = [at |-> "stopping", event |-> event, prompt |-> Nothing]

\* The end of session.turn in run: corrections that were not applied go with their
\* channel, and so does a draft its parent did not take.  An adapter whose turn did
\* not complete closes itself first, and DelegatingSession stops all agents.
Leave(end) ==
    /\ run' = NoTurn
    /\ forwarded' = Nothing
    /\ reply' = IF forwarded # Nothing /\ reply = "open" THEN "closed" ELSE reply
    /\ fate' = Fates(Promised, IF end = "complete" THEN "lost" ELSE "dropped")
    /\ CASE end = "complete" -> Publish("finished", Nothing)
         [] end = "shutdown" -> Wait("ending")
         [] Relayed \/ run.mode # "control" ->
                host' = [at |-> "joining", prompt |-> Nothing,
                         event |-> IF end = "failed" THEN "error" ELSE "cancelled"]
         [] end = "failed"   -> Publish("error", Nothing)
         [] OTHER            -> StopThen("finished")

Joined ==
    /\ At("joining")
    /\ \/ /\ background' = "none"
          /\ IF host.event = "error" THEN Publish("error", Nothing) ELSE StopThen("finished")
          /\ UNCHANGED excused
       \/ Publish("error", Nothing) /\ excused' = TRUE /\ UNCHANGED background
    /\ UNCHANGED <<view, reply, queue, open, forwarded, events, run, frozen, fate, late>>

\* A publication that a Cancel interrupted is resumed, but for that of TurnStarted.
Stopped ==
    /\ At("stopping")
    /\ background' = "none"
    /\ CASE host.event = "none"      -> Wait("idle")
         [] host.event = "cancelled" -> StopThen("finished")
         [] OTHER                    -> Publish(host.event, Nothing)
    /\ UNCHANGED <<view, reply, queue, open, forwarded, events, run, frozen, fate, history>>

\* An observer does not stop in time: the loop is left with the error.
StopFails ==
    /\ host.at \in {"stopping", "startCancelled"}
    /\ Wait("ending")
    /\ UNCHANGED <<view, reply, queue, open, forwarded, events, run, background, frozen,
                   fate, history>>

-----------------------------------------------------------------------------
(* start_lifetime and publish_lifecycle.                                   *)

\* The observation of a native start ends, fails or takes too long; others have none.
Started ==
    /\ At("starting") /\ Publish("ready", Nothing)
    /\ UNCHANGED <<view, reply, queue, open, forwarded, events, run, background, frozen,
                   fate, history>>

StartCommand ==
    /\ At("starting") /\ native
    /\ \/ Take(Cancel) /\ Wait("startCancelled")
       \/ Take(Shutdown) /\ Wait("ending")
    /\ UNCHANGED <<view, reply, open, forwarded, events, run, background, frozen, fate,
                   history>>

Queued(kind) == \E i \in DOMAIN queue : queue[i].kind = kind

\* After a cancelled start everything in the queue is thrown away.
StartDrained ==
    /\ At("startCancelled")
    /\ background' = "none"
    /\ queue' = <<>>
    /\ IF Queued("submit") THEN Answer("no") ELSE UNCHANGED reply
    /\ IF Queued("shutdown") THEN Wait("ending") ELSE Publish("ready", Nothing)
    /\ UNCHANGED <<view, open, forwarded, events, run, frozen, fate, history>>

\* The publication goes first: commands are taken only while there is no room.
Published ==
    /\ At("publishing") /\ ui.live /\ EventRoom
    /\ events' = Append(events, host.event)
    /\ CASE host.event = "ready"    -> Wait("idle") \/ Publish("initial", Nothing)
         [] host.event = "error"    -> Publish("finished", Nothing)
         [] host.event \in {"initial", "finished"} -> Wait("idle")
         [] OTHER                   -> host' = [host EXCEPT !.at = "turn", !.event = "none"]
    /\ IF host.event = "started"
       THEN /\ fate' = Fates({host.prompt}, "applied")
            /\ \E mode \in {"work", "control"} :
                   /\ host.prompt = Nothing => mode = "work"
                   /\ run' = [NoTurn EXCEPT !.mode = mode]
            /\ background' = IF host.prompt = Nothing THEN "none" ELSE background
       ELSE UNCHANGED <<fate, run, background>>
    /\ UNCHANGED <<view, reply, queue, open, forwarded, frozen, history>>

\* Mutant: a Cancel is forgotten while the terminal is held.
MutantPublishCommand ==
    /\ At("publishing") /\ ui.live /\ ~EventRoom
    /\ Take(Cancel)
    /\ UNCHANGED <<view, reply, open, forwarded, events, host, run, background, frozen,
                   fate, history>>

\* allow_cancel: only TurnStarted is given up for a Cancel.
PublishCommand ==
    /\ At("publishing") /\ ui.live /\ ~EventRoom
    /\ Take(Cancel)
    /\ StopThen(IF host.event = "started" THEN "cancelled" ELSE host.event)
    /\ fate' = IF host.event = "started" THEN Fates(Promised, "dropped") ELSE fate
    /\ UNCHANGED <<view, reply, open, forwarded, events, run, background, frozen, history>>

\* The terminal is gone (UiClosed); Shutdown is only sent when it is.
PublishEnds ==
    /\ At("publishing") /\ ~ui.live
    /\ Wait("ending")
    /\ fate' = Fates(Promised, "dropped")
    /\ UNCHANGED <<view, reply, queue, open, forwarded, events, run, background, frozen,
                   history>>

\* Wherever the host is busy with something that no draft can correct.
Refuses ==
    \/ At("starting") /\ native
    \/ At("publishing") /\ ui.live /\ ~EventRoom
    \/ At("turn") /\ ~Relayed /\ run.mode \in {"control", "failing"}

RefuseDraft ==
    /\ Refuses
    /\ \E d \in Drafts : Take(Submission(d))
    /\ Answer("no")
    /\ UNCHANGED <<view, open, forwarded, events, host, run, background, frozen, fate,
                   history>>

-----------------------------------------------------------------------------
(* The loop between turns.                                                 *)

\* The owner answers before it publishes anything; a submission whose terminal no
\* longer listens is not run.
AdmitDraft ==
    /\ At("idle")
    /\ \E d \in Drafts :
           /\ Take(Submission(d))
           /\ IF Heard THEN Publish("started", d) /\ fate' = Fates({d}, "prompt")
                       ELSE UNCHANGED <<host, fate>>
    /\ Answer("ok")
    /\ UNCHANGED <<view, open, forwarded, events, run, background, frozen, history>>

\* The assignment is unavailable (Session::admit).
AdmissionFails ==
    /\ At("idle")
    /\ \E d \in Drafts : Take(Submission(d))
    /\ Answer("no")
    /\ UNCHANGED <<view, open, forwarded, events, host, run, background, frozen, fate,
                   history>>

IdleCommand ==
    /\ At("idle")
    /\ \/ Take(Cancel) /\ StopThen("none")
       \/ Take(Shutdown) /\ Wait("ending")
    /\ UNCHANGED <<view, reply, open, forwarded, events, run, background, frozen, fate,
                   history>>

ObserverTurn ==
    /\ At("idle") /\ queue = <<>> /\ open /\ background = "ready"
    /\ Publish("started", Nothing)
    /\ UNCHANGED <<view, reply, queue, open, forwarded, events, run, background, frozen,
                   fate, history>>

-----------------------------------------------------------------------------
(* A turn and the commands it takes.                                       *)

Working == At("turn") /\ run.mode = "work"
Unapplied == {run.steering[i] : i \in DOMAIN run.steering} \union run.taken

\* Cancel and Shutdown end the turn; with agents before anything that is forwarded.
TurnCommand ==
    /\ At("turn") /\ (Relayed \/ run.mode # "failing")
    /\ \/ Take(Cancel) /\ Leave("cancelled")
       \/ Take(Shutdown) /\ Leave("shutdown")
    /\ UNCHANGED <<view, open, events, background, frozen, history>>

\* failure_control: the failure is decided, a Cancel only ends its observation; a
\* Shutdown is passed on by closing the channel.
FailureCommand ==
    /\ At("turn") /\ ~Relayed /\ run.mode = "failing"
    /\ \/ Take(Cancel) /\ UNCHANGED open
       \/ Take(Shutdown) /\ open' = FALSE
    /\ Leave("failed")
    /\ UNCHANGED <<view, events, background, frozen, history>>

\* DelegatingSession passes a draft on to the parent's turn.
Forward ==
    /\ At("turn") /\ Relayed
    /\ \E d \in Drafts : Take(Submission(d)) /\ forwarded' = d
    /\ UNCHANGED <<view, reply, open, events, host, run, background, frozen, fate, history>>

\* A text that controls the agents is done at once, whoever still listens.
AgentControl ==
    /\ At("turn") /\ Relayed
    /\ \E d \in Drafts :
           /\ Take(Submission(d))
           /\ \/ Answer("ok") /\ fate' = Fates({d}, "applied")
              \/ Answer("no") /\ UNCHANGED fate
    /\ UNCHANGED <<view, open, forwarded, events, host, run, background, frozen, history>>

\* The draft the turn itself receives.
Receives(d) ==
    IF Relayed THEN forwarded = d /\ forwarded' = Nothing /\ UNCHANGED queue
    ELSE Take(Submission(d)) /\ UNCHANGED forwarded

\* The parent of agents is in a phase that no draft can correct.
ParentRefuses ==
    /\ At("turn") /\ Relayed /\ run.mode \in {"control", "failing"}
    /\ \E d \in Drafts : Receives(d)
    /\ Answer("no")
    /\ UNCHANGED <<view, open, events, host, run, background, frozen, fate, history>>

\* Mutant: the correction is queued before it is known that its sender listens, and
\* when it does not fit.
MutantRelayDraft ==
    /\ Working
    /\ \E d \in Drafts :
           /\ Receives(d)
           /\ run' = [run EXCEPT !.steering = Append(@, d)]
           /\ fate' = Fates({d}, "queued")
           /\ IF Cardinality(Unapplied) < CorrectionCapacity THEN Answer("ok") ELSE Answer("no")
    /\ UNCHANGED <<view, open, events, host, background, frozen, history>>

\* relay_command, and native.rs's control: a text that is a control is refused, a
\* correction must find a slot, and it is queued only if its sender heard so.
RelayDraft ==
    /\ Working
    /\ \E d \in Drafts :
           /\ Receives(d)
           /\ \/ /\ Cardinality(Unapplied) < CorrectionCapacity
                 /\ Answer("ok")
                 /\ IF Heard
                    THEN /\ run' = IF native THEN [run EXCEPT !.taken = @ \union {d}]
                                   ELSE [run EXCEPT !.steering = Append(@, d)]
                         /\ fate' = Fates({d}, "queued")
                         /\ late' = IF run.dispatch = "result" /\ ~run.interrupting
                                    THEN late \union {d} ELSE late
                    ELSE UNCHANGED <<run, fate, late>>
              \/ Answer("no") /\ UNCHANGED <<run, fate, late>>
    /\ UNCHANGED <<view, open, events, host, background, frozen, excused>>

\* What a turn is selected with goes on when no command waits.
Quiet == Working /\ queue = <<>> /\ forwarded = Nothing
External == Quiet /\ ~native
AtSelect == External /\ run.dispatch = "none" /\ run.steering = <<>>

\* The corrections are taken in and the backend is interrupted.
Interrupt ==
    /\ External /\ run.dispatch = "none" /\ run.steering # <<>>
    /\ run' = [run EXCEPT !.steering = <<>>, !.taken = Unapplied, !.interrupting = TRUE]
    /\ UNCHANGED <<view, reply, queue, open, forwarded, events, host, background, frozen,
                   fate, history>>

InterruptAcked ==
    /\ AtSelect /\ run.interrupting /\ ~run.acked
    /\ run' = [run EXCEPT !.acked = TRUE]
    /\ UNCHANGED <<view, reply, queue, open, forwarded, events, host, background, frozen,
                   fate, history>>

\* A message of the backend: its result, or another one.
BackendMessage ==
    /\ AtSelect /\ ~run.completed
    /\ \E kind \in {"other", "result"} : run' = [run EXCEPT !.dispatch = kind]
    /\ UNCHANGED <<view, reply, queue, open, forwarded, events, host, background, frozen,
                   fate, history>>

\* The work ends the turn, or a check, a review or another control follows it.
WorkEnds ==
    \/ Leave("complete")
    \/ /\ run' = [NoTurn EXCEPT !.mode = "control"]
       /\ fate' = Fates(Unapplied, "lost")
       /\ UNCHANGED <<reply, forwarded, host>>

\* Mutant: the result ends the turn although corrections were taken in.
MutantDispatched ==
    /\ External /\ run.dispatch # "none" /\ ui.live /\ EventRoom
    /\ events' = Append(events, "other")
    /\ IF run.dispatch = "result" THEN WorkEnds
       ELSE /\ run' = [run EXCEPT !.dispatch = "none"]
            /\ UNCHANGED <<reply, forwarded, host, fate>>
    /\ UNCHANGED <<view, queue, open, background, frozen, history>>

\* The message is published, if it shows anything, when the terminal has room.
Dispatched ==
    /\ External /\ run.dispatch # "none"
    /\ \/ ui.live /\ EventRoom /\ events' = Append(events, "other")
       \/ run.dispatch = "other" /\ UNCHANGED events
    /\ IF run.dispatch = "result" /\ ~run.interrupting THEN WorkEnds
       ELSE /\ run' = [run EXCEPT !.dispatch = "none", !.completed = (@ \/ run.dispatch = "result")]
            /\ UNCHANGED <<reply, forwarded, host, fate>>
    /\ UNCHANGED <<view, queue, open, background, frozen, history>>

\* The corrections are the prompt of the next round.
Resubmit ==
    /\ AtSelect /\ run.completed /\ run.acked
    /\ run' = [NoTurn EXCEPT !.mode = "work"]
    /\ fate' = Fates(run.taken, "applied")
    /\ UNCHANGED <<view, reply, queue, open, forwarded, events, host, background, frozen,
                   history>>

\* A backend or a control fails, also because its events find no terminal.
TurnFails ==
    /\ At("turn")
    /\ Leave("failed")
    /\ UNCHANGED <<view, queue, open, events, background, frozen, history>>

\* The native loop applies corrections at its boundaries and ends without one left
\* (LastWord of NativeLoop).
NativeBoundary ==
    /\ Working /\ native /\ run.taken # {}
    /\ run' = [run EXCEPT !.taken = {}]
    /\ fate' = Fates(run.taken, "applied")
    /\ UNCHANGED <<view, reply, queue, open, forwarded, events, host, background, frozen,
                   history>>

NativeCompletes ==
    /\ Working /\ native /\ run.taken = {}
    /\ WorkEnds
    /\ UNCHANGED <<view, queue, open, events, background, frozen, history>>

\* The provider failed and StopFailure hooks observe it; its corrections are lost.
ProviderFails ==
    /\ Working /\ native
    /\ run' = [NoTurn EXCEPT !.mode = "failing"]
    /\ fate' = Fates(run.taken, "dropped")
    /\ UNCHANGED <<view, reply, queue, open, forwarded, events, host, background, frozen,
                   history>>

\* What precedes the work of a control is done.
WorkFollows ==
    /\ At("turn") /\ run.mode = "control"
    /\ run' = [NoTurn EXCEPT !.mode = "work"]
    /\ UNCHANGED <<view, reply, queue, open, forwarded, events, host, background, frozen,
                   fate, history>>

ControlCompletes ==
    /\ At("turn") /\ run.mode = "control"
    /\ Leave("complete")
    /\ UNCHANGED <<view, queue, open, events, background, frozen, history>>

-----------------------------------------------------------------------------
(* Observers, and the end of the session.                                  *)

ObserverStarts ==
    /\ background = "none" /\ (Working \/ (At("starting") /\ native))
    /\ background' = "running"
    /\ UNCHANGED <<view, reply, queue, open, forwarded, events, host, run, frozen, fate,
                   history>>

ObserverEnds ==
    /\ background = "running"
    /\ background' \in {"none", "ready"}
    /\ UNCHANGED <<view, reply, queue, open, forwarded, events, host, run, frozen, fate,
                   history>>

\* The receiver is closed before what is left in it is refused.
CloseCommands ==
    /\ At("ending")
    /\ open' = FALSE /\ queue' = <<>>
    /\ IF Queued("submit") THEN Answer("no") ELSE UNCHANGED reply
    /\ Wait("closing")
    /\ UNCHANGED <<view, forwarded, events, run, background, frozen, fate, history>>

Close ==
    /\ At("closing")
    /\ background' = "none"
    /\ Wait("ended")
    /\ UNCHANGED <<view, reply, queue, open, forwarded, events, run, frozen, fate, history>>

Terminal == Poll \/ NextEvent \/ SessionStopped \/ SendShutdown
Developer == TypeText \/ Submit \/ RequestCancellation \/ Quit

\* What the host does by itself, without its backend, in bounded time.
Host ==
    \/ Started \/ StartCommand \/ StartDrained
    \/ Published \/ PublishCommand \/ PublishEnds
    \/ Joined \/ Stopped \/ StopFails
    \/ RefuseDraft \/ AdmitDraft \/ AdmissionFails \/ IdleCommand \/ ObserverTurn
    \/ TurnCommand \/ FailureCommand \/ Forward \/ AgentControl \/ ParentRefuses \/ RelayDraft
    \/ CloseCommands \/ Close

Backend ==
    \/ Interrupt \/ InterruptAcked \/ BackendMessage \/ Dispatched \/ Resubmit
    \/ TurnFails \/ NativeBoundary \/ NativeCompletes \/ ProviderFails \/ WorkFollows
    \/ ControlCompletes \/ ObserverStarts \/ ObserverEnds

Next == Terminal \/ Developer \/ ShutdownTimesOut \/ Host \/ Backend

Spec == Init /\ [][Next]_vars
FairSpec ==
    /\ Spec
    /\ WF_vars(Poll) /\ WF_vars(NextEvent) /\ WF_vars(SessionStopped) /\ WF_vars(SendShutdown)
    /\ WF_vars(Host)

-----------------------------------------------------------------------------
(* Properties.                                                             *)

\* A text is either the developer's, in the editor or on its way, or the session's,
\* which then has told so: what was refused, or whose answer nobody heard, never
\* runs, and what leaves the editor by itself was accepted (session.rs:600-612,
\* :129-160; terminal.rs:193-226).
Accepted == {d \in Drafts : fate[d] \notin {"none", "discarded"}}
DraftHasOneOwner ==
    /\ \A i \in DOMAIN queue : queue[i].draft \notin Accepted
    /\ forwarded \notin Accepted
    /\ ui.live =>
        /\ ui.text \in Accepted => ui.pending = ui.text /\ reply = "ok"
        /\ ui.pending # Nothing /\ reply = "ok" => ui.pending \in Accepted
        /\ ui.text = Nothing /\ typed # 0 => fate[typed] # "none"

\* When the terminal has seen everything, it shows work exactly while there is some:
\* the answer to a correction, sent before its turn ended, does not mark an idle
\* session busy (terminal.rs:783-801).
BusyTracksTurns ==
    ui.live /\ events = <<>> /\ reply # "ok" =>
        /\ At("idle") => ~ui.busy
        /\ At("turn") => ui.busy

\* An accepted correction is with its turn until it is applied, at most
\* CORRECTION_CAPACITY of them; no work completes without one, but for those
\* accepted while the final result waited to be published (claude.rs:515-560).
CorrectionsApply ==
    /\ {d \in Drafts : fate[d] = "queued"} = Unapplied
    /\ Cardinality(Unapplied) <= CorrectionCapacity
    /\ {d \in Drafts : fate[d] = "lost"} \subseteq late

\* A full queue holds nobody up for ever: a submission is answered, a Cancel stops
\* the observers unless that fails and an error is shown, and a session
\* whose terminal is gone ends by itself (session.rs:354-427, :541-760).
Responsive ==
    /\ ui.pending # Nothing ~> ui.pending = Nothing
    /\ ui.cancel /\ background = "running" ~> background # "running" \/ excused
    /\ ~ui.live ~> Over
=============================================================================
