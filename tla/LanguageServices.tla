-------------------------- MODULE LanguageServices --------------------------
(***************************************************************************)
(* The language services of a session (language_services/mod.rs, view.rs,  *)
(* tools.rs language_query): a query of the model reads its source, takes  *)
(* the lock, admits a filtered copy of the project (a view), synchronizes  *)
(* the document with the server that runs on that view, asks, checks the   *)
(* inputs again, and reads its source again.  Anyone may edit the project  *)
(* at any time; an observer of the file system takes the same lock to      *)
(* admit a new view, and the server publishes reports when it likes.       *)
(*                                                                         *)
(* One server of one language stands for the map of servers.  A file is a  *)
(* text and the stamp of its metadata, which every edit changes.  The       *)
(* paths that were queried are at most MAX_DOCUMENTS, so that synchronize   *)
(* never closes a document: neither the limit nor the closing is here.      *)
(***************************************************************************)
EXTENDS Naturals, Sequences

CONSTANTS
    NumFiles,       \* files of the project
    MaxEdits, MaxQueries, MaxReports    \* bounds of the model

ASSUME LanguageServicesAssumption ==
    /\ {NumFiles, MaxEdits, MaxQueries, MaxReports} \subseteq Nat
    /\ NumFiles > 0

VARIABLES
    disk,       \* the project
    unseen,     \* an edit under the watch is not reported yet
    changes,    \* Changes: one is reported, and taken by nobody
    wake,       \* the observer's queue of one slot
    view,       \* the admitted view
    server,     \* the language server, with its documents and its pipe
    nextVersion,
    lock,       \* the state's lock: who holds it, and how far its refresh is
    observer,   \* observe()
    started,    \* admission_started: some query refreshed the view
    query,      \* language_query(), and the inputs of the server that answered it
    seen,       \* history: the project since the server's response
    edits, queries

vars == <<disk, unseen, changes, wake, view, server, nextVersion, lock, observer,
          started, query, seen, edits, queries>>
events == <<unseen, changes, wake>>
project == <<disk, edits>>
asked == <<queries, started>>

Files == 1..NumFiles    \* in the order in which they are walked
Texts == {"old", "new"}
Nobody == "nobody"
NoView == <<>>
NoServer == [up |-> FALSE]
Free == [by |-> Nobody, step |-> "free", at |-> 1, scan |-> NoView]
Idle == [step |-> "idle"]

Init ==
    /\ disk = [x \in Files |-> [text |-> "old", stamp |-> 0]]
    /\ unseen = FALSE /\ changes = FALSE /\ wake = FALSE
    /\ view = NoView /\ server = NoServer /\ nextVersion = 1
    /\ lock = Free /\ observer = "off" /\ started = FALSE /\ query = Idle /\ seen = {}
    /\ edits = 0 /\ queries = 0
-----------------------------------------------------------------------------
(* The project and the observation of it.                                  *)
Watching == observer \notin {"off", "starting"}
\* The task of the observer begins to watch, while queries already run.
Watch ==
    /\ observer = "starting" /\ observer' = "waiting"
    /\ UNCHANGED <<project, events, view, server, nextVersion, lock, query, seen, asked>>
Edit ==
    /\ edits < MaxEdits /\ edits' = edits + 1
    /\ \E x \in Files : \E t \in Texts \ {disk[x].text} :
        disk' = [disk EXCEPT ![x] = [text |-> t, stamp |-> @.stamp + 1]]
    /\ unseen' = (unseen \/ Watching)
    /\ seen' = IF seen = {} THEN {} ELSE seen \union {disk'}
    /\ UNCHANGED <<changes, wake, view, server, nextVersion, lock, observer, query, asked>>
\* Mutant: the callback wakes the observer only if it is waiting for it.
MutantNotice ==
    /\ unseen
    /\ unseen' = FALSE /\ changes' = TRUE /\ wake' = (wake \/ observer = "waiting")
    /\ UNCHANGED <<project, view, server, nextVersion, lock, observer, query, seen, asked>>
\* The watcher's callback records a hint and wakes the observer once.
Notice ==
    /\ unseen
    /\ unseen' = FALSE /\ changes' = TRUE /\ wake' = TRUE
    /\ UNCHANGED <<project, view, server, nextVersion, lock, observer, query, seen, asked>>
Debounce ==
    /\ wake /\ observer = "waiting"
    /\ wake' = FALSE /\ observer' = "awake"
    /\ UNCHANGED <<project, unseen, changes, view, server, nextVersion, lock, query, seen, asked>>
-----------------------------------------------------------------------------
(* The refresh of the view, under the lock, by a query or by the observer. *)
Version(s) == IF s.up /\ s.next > nextVersion THEN s.next ELSE nextVersion
\* stop(): the servers are killed, and their document versions remembered.
StopServer == server' = NoServer /\ nextVersion' = Version(server)
KeepServer == UNCHANGED <<server, nextVersion>>

\* take_changes, and what they say of the view.
BeginRefresh(who) ==
    /\ lock = Free
    /\ changes' = FALSE
    /\ IF view # NoView /\ changes THEN StopServer ELSE KeepServer
    /\ lock' = [by |-> who, step |-> IF view = NoView THEN "walk" ELSE "check",
                at |-> 1, scan |-> NoView]
    /\ started' = TRUE
    /\ UNCHANGED <<project, unseen, wake, view, seen>>
QueryLocks ==
    /\ query.step = "waiting" /\ BeginRefresh("query")
    /\ query' = [query EXCEPT !.step = "refreshing"]
    /\ UNCHANGED <<observer, queries>>
\* Observation alone admits nothing: a query comes first.
ObserverLocks ==
    /\ observer = "awake" /\ started
    /\ BeginRefresh("observer") /\ observer' = "refreshing"
    /\ UNCHANGED <<query, queries>>
ObserverRests ==
    /\ observer = "awake" /\ ~started /\ lock = Free
    /\ observer' = "waiting"
    /\ UNCHANGED <<project, events, view, server, nextVersion, lock, query, seen, asked>>

\* The lock's holder has dealt with one file; after the last comes another step.
Step(step) == lock' = [lock EXCEPT !.step = step, !.at = 1]
Advance(step) == IF lock.at = NumFiles THEN Step(step) ELSE lock' = [lock EXCEPT !.at = @ + 1]
Unchanged(x, inputs) == disk[x].stamp = inputs[x].stamp
\* metadata_current, file by file, of the view that is installed.
CheckInput ==
    /\ lock.step = "check"
    /\ IF Unchanged(lock.at, view) THEN Advance("walk") /\ KeepServer
       ELSE Step("walk") /\ StopServer
    /\ UNCHANGED <<project, events, view, observer, query, seen, asked>>
\* View::build: each file is copied whole, or the admission fails.
CopyFile ==
    /\ lock.step = "walk"
    /\ LET copied == Append(lock.scan, disk[lock.at])
       IN  lock' = IF lock.at = NumFiles
                   THEN [lock EXCEPT !.scan = copied, !.step = "validate", !.at = 1]
                   ELSE [lock EXCEPT !.scan = copied, !.at = @ + 1]
    /\ UNCHANGED <<project, events, view, server, nextVersion, observer, query, seen, asked>>
ValidateFile ==
    /\ lock.step = "validate"
    /\ Unchanged(lock.at, lock.scan)
    /\ Advance("admitted")
    /\ UNCHANGED <<project, events, view, server, nextVersion, observer, query, seen, asked>>
Released(by) ==
    IF by = "query" THEN query' = Idle /\ UNCHANGED observer
    ELSE observer' = "waiting" /\ UNCHANGED query
\* Something changed meanwhile, a limit is exceeded, or the policy forbids it.
AdmissionFails ==
    /\ lock.step \in {"check", "walk", "validate"}
    /\ StopServer /\ view' = IF lock.step = "check" THEN view ELSE NoView
    /\ lock' = Free /\ Released(lock.by)
    /\ UNCHANGED <<project, events, seen, asked>>
\* Mutant: the server of another revision goes on.
MutantInstall ==
    /\ lock.step = "admitted"
    /\ KeepServer /\ view' = lock.scan
    /\ IF lock.by = "query"
       THEN /\ lock' = [lock EXCEPT !.step = "held", !.at = 1]
            /\ query' = [query EXCEPT !.step = "admitted"] /\ UNCHANGED observer
       ELSE lock' = Free /\ Released("observer")
    /\ UNCHANGED <<project, events, seen, asked>>
\* The candidate is installed if it is another revision.
Install ==
    /\ lock.step = "admitted"
    /\ IF view = lock.scan THEN KeepServer /\ UNCHANGED view
       ELSE StopServer /\ view' = lock.scan
    /\ IF lock.by = "query"
       THEN /\ lock' = [lock EXCEPT !.step = "held", !.at = 1]
            /\ query' = [query EXCEPT !.step = "admitted"] /\ UNCHANGED observer
       ELSE lock' = Free /\ Released("observer")
    /\ UNCHANGED <<project, events, seen, asked>>
-----------------------------------------------------------------------------
(* The query.                                                              *)
Ask ==
    /\ query.step \in {"idle", "returned"} /\ queries < MaxQueries
    /\ queries' = queries + 1
    /\ \E x \in Files :
        query' = [step |-> "waiting", path |-> x, text |-> disk[x].text,
                  fresh |-> FALSE, items |-> {}, inputs |-> NoView]
    /\ observer' = IF observer = "off" THEN "starting" ELSE observer
    /\ seen' = {}
    /\ UNCHANGED <<project, events, view, server, nextVersion, lock, started>>

\* The server is taken out of the map, or started; it may serve pull reports.
TakeServer ==
    /\ query.step = "admitted"
    /\ IF server.up THEN UNCHANGED server
       ELSE \E pull \in BOOLEAN :
            server' = [up |-> TRUE, pull |-> pull, inputs |-> view, docs |-> <<>>,
                       pipe |-> <<>>, told |-> {}, next |-> nextVersion, reports |-> 0]
    /\ query' = [query EXCEPT !.step = "taken"]
    /\ UNCHANGED <<project, events, view, nextVersion, lock, observer, seen, asked>>

Document == server.docs[query.path]
\* synchronize: an unchanged text keeps its document and its reports.
Synchronize ==
    /\ query.step = "taken"
    /\ query' = [query EXCEPT !.step = "synchronized"]
    /\ IF query.path \in DOMAIN server.docs /\ Document.text = query.text
       THEN UNCHANGED server
       ELSE LET told == [path |-> query.path, text |-> query.text, version |-> server.next]
                doc == [text |-> query.text, version |-> server.next, report |-> {}, reported |-> 0]
                docs == [x \in DOMAIN server.docs \union {query.path} |->
                            IF x = query.path THEN doc ELSE server.docs[x]]
            IN server' = [server EXCEPT !.docs = docs, !.next = @ + 1,
                                        !.told = @ \union {told}]
    /\ UNCHANGED <<project, events, view, nextVersion, lock, observer, seen, asked>>

\* The server publishes a report of any text it was told, with its version or not.
Publish ==
    /\ server.up /\ server.reports < MaxReports
    /\ \E told \in server.told, versioned \in BOOLEAN :
        server' = [server EXCEPT !.reports = @ + 1,
                     !.pipe = Append(@, [told EXCEPT !.version = IF versioned THEN @ ELSE 0])]
    /\ UNCHANGED <<project, events, view, nextVersion, lock, observer, query, seen, asked>>

\* handle(publishDiagnostics): a report of another version is dropped.
Concerns(message) ==
    /\ message.path \in DOMAIN server.docs
    /\ message.version \in {0, server.docs[message.path].version}
ReadReport ==
    /\ query.step = "synchronized" /\ server.pipe # <<>>
    /\ LET message == Head(server.pipe)
           docs == IF Concerns(message)
                   THEN [server.docs EXCEPT ![message.path] =
                          [@ EXCEPT !.report = {message.text}, !.reported = message.version]]
                   ELSE server.docs
       IN server' = [server EXCEPT !.docs = docs, !.pipe = Tail(@)]
    /\ UNCHANGED <<project, events, view, nextVersion, lock, observer, query, seen, asked>>
\* Mutant: what is pulled is current, whatever was pushed before.
MutantCurrent == server.pull \/ Document.report = {} \/ Document.reported = Document.version
\* A pulled report does not vouch for one that was pushed besides.
Current == Document.report = {} \/ Document.reported = Document.version
\* diagnostic_report, of a pull response or of what was pushed.
Respond ==
    /\ query.step = "synchronized"
    /\ LET pulled == IF server.pull THEN {Document.text} ELSE {}
           report == Document.report
       IN /\ pulled \union report # {}
          /\ query' = [query EXCEPT !.step = "rechecking", !.items = pulled \union report,
                          !.fresh = Current, !.inputs = server.inputs]
    /\ seen' = {disk}
    /\ UNCHANGED <<project, events, view, server, nextVersion, lock, observer, asked>>
\* No report within two seconds, or content modified: the server stays.
Pending ==
    /\ query.step = "synchronized"
    /\ nextVersion' = Version(server)
    /\ lock' = Free /\ query' = Idle
    /\ UNCHANGED <<project, events, view, server, observer, seen, asked>>

\* inputs_current, once more, after the response.
RecheckInput ==
    /\ query.step = "rechecking"
    /\ IF ~Unchanged(lock.at, view) THEN lock' = Free /\ query' = Idle /\ StopServer
       ELSE IF lock.at < NumFiles
       THEN Advance("held") /\ UNCHANGED <<query, server, nextVersion>>
       ELSE /\ lock' = Free /\ query' = [query EXCEPT !.step = "released"]
            /\ nextVersion' = Version(server) /\ UNCHANGED server
    /\ UNCHANGED <<project, events, view, observer, seen, asked>>
\* The source is read again: the result is of what it still says.
Return ==
    /\ query.step = "released"
    /\ query' = IF disk[query.path].text = query.text THEN [query EXCEPT !.step = "returned"]
                ELSE Idle
    /\ UNCHANGED <<project, events, view, server, nextVersion, lock, observer, seen, asked>>

\* A failure, a deadline or a cancellation drops the query, with a server it took.
DropQuery ==
    /\ query.step \notin {"idle", "returned"}
    /\ query' = Idle
    /\ lock' = IF lock.by = "query" THEN Free ELSE lock
    /\ IF query.step \in {"taken", "synchronized", "rechecking"}
       THEN server' = NoServer ELSE UNCHANGED server
    /\ UNCHANGED <<project, events, view, nextVersion, observer, seen, asked>>

Refreshing == CheckInput \/ CopyFile \/ ValidateFile \/ AdmissionFails \/ Install
Observing == Watch \/ Notice \/ Debounce \/ ObserverLocks \/ ObserverRests
Querying == QueryLocks \/ TakeServer \/ Synchronize \/ ReadReport \/ Respond \/ Pending
            \/ RecheckInput \/ Return \/ DropQuery
Next == Edit \/ Ask \/ Publish \/ Refreshing \/ Observing \/ Querying

Spec == Init /\ [][Next]_vars
\* Every await of a query and of a refresh has a deadline; the observer's task
\* runs, and the file system reports what it was asked to watch.  The lock is
\* handed over in the order of the requests.
FairSpec == Spec /\ WF_vars(Refreshing) /\ WF_vars(Querying)
                 /\ WF_vars(Watch \/ Notice \/ Debounce)
                 /\ SF_vars(ObserverLocks \/ ObserverRests)
-----------------------------------------------------------------------------
(* A result the model is given comes from a server whose inputs were the   *)
(* project's, all at one moment, after the server had answered; and its    *)
(* source said the same then or later (query, refresh, language_query).    *)
ResultIsCurrent ==
    query.step = "returned" =>
        /\ query.inputs \in seen
        /\ \E then \in seen : then[query.path].text = query.text

(* Diagnostics that are called current are of the text they are returned   *)
(* for, whatever the server published late, and of whichever document      *)
(* (synchronize, handle, diagnostic_report).                               *)
ReportIsOfItsText ==
    query.step = "returned" /\ query.fresh => query.items = {query.text}

(* A server whose inputs are changed under the watch does not stay: the    *)
(* observer stops it, or a query does, also when the change comes during   *)
(* a refresh and nobody asks again (observe, debounce, Changes).           *)
Stale == server.up /\ server.inputs # disk
StalePeersStop == (Stale /\ unseen) ~> ~Stale
=============================================================================
