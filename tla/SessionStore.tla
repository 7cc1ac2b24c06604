---------------------------- MODULE SessionStore ----------------------------
(***************************************************************************)
(* The crash-safe session record of workflow/store.rs: one directory, its  *)
(* lock file and its state.json, which processes create, open, replace and *)
(* read.  A write is a chain of file-system calls; a call may fail, the    *)
(* process may die between two of them, and the machine may lose power, in *)
(* which case a directory entry that was not synced is either there or not.*)
(* A record carries the version its writer gave it and the version its     *)
(* writer held in memory when it made it (its base).                       *)
(***************************************************************************)
EXTENDS Naturals, FiniteSets

CONSTANTS
    Procs,       \* processes that use the session directory
    NoProc,      \* nobody holds a lock
    MaxVersion,  \* bound on the records ever offered to the store
    MaxDamage    \* bound on outside damage to the published record

ASSUME StoreAssumption ==
    /\ NoProc \notin Procs
    /\ MaxVersion \in Nat
    /\ MaxDamage \in Nat

VARIABLES
    directory,    \* is the session directory there?
    dirDurable,   \* would it be there after a power loss?
    lockFile,     \* is the lock file there?
    dirLock,      \* holder of the flock on the directory
    published,    \* contents of the entry state.json (an optional record)
    afterLoss,    \* what that entry may hold after a power loss
    pc,           \* where each process stands
    initialized,  \* Store::initialized of each process
    memory,       \* version of the record each process holds in memory
    temp,         \* the temporary record of each process
    next,         \* next version to offer
    acked,        \* newest version whose write returned Ok
    damages,      \* number of times the record was damaged from outside
    lateDamage    \* damage fell between a revalidation and its rename

storeVars == <<directory, dirDurable, lockFile, dirLock, published, afterLoss, pc,
          initialized, memory, temp, next, acked, damages, lateDamage>>

ensemble == <<directory, dirDurable, lockFile, dirLock>>  \* the directory
store    == <<initialized, memory, temp>>                \* an open Store
accidents == <<damages, lateDamage>>

Record == [ver : 1..MaxVersion, base : 0..MaxVersion, intact : BOOLEAN]
Optional == {{}} \union {{r} : r \in Record}    \* {} is "no such file"

Version(entry) == IF entry = {} THEN 0 ELSE (CHOOSE r \in entry : TRUE).ver
Intact(entry)  == \A r \in entry : r.intact
Damaged(r)     == [r EXCEPT !.intact = FALSE]

Writing == {"validated", "written", "synced", "revalidated", "renamed"}
Steps   == {"closed", "made", "locked", "opening", "ready", "held"}
             \union Writing
Owning  == Steps \ {"closed", "made"}      \* these steps hold the directory lock

\* The types, and that the lock's holder is the one process past its locking step.
StoreTypeOK ==
    /\ directory \in BOOLEAN /\ dirDurable \in BOOLEAN /\ lockFile \in BOOLEAN
    /\ dirLock \in Procs \union {NoProc}
    /\ published \in Optional
    /\ afterLoss \in SUBSET Optional
    /\ pc \in [Procs -> Steps]
    /\ initialized \in [Procs -> BOOLEAN]
    /\ memory \in [Procs -> 0..MaxVersion]
    /\ temp \in [Procs -> Optional]
    /\ next \in 1..(MaxVersion + 1)
    /\ acked \in 0..MaxVersion
    /\ damages \in 0..MaxDamage
    /\ lateDamage \in BOOLEAN
    /\ \A p \in Procs : pc[p] \in Owning <=> dirLock = p

StoreInit ==
    /\ directory = FALSE /\ dirDurable = FALSE /\ lockFile = FALSE
    /\ dirLock = NoProc
    /\ published = {}
    /\ afterLoss = {{}}
    /\ pc = [p \in Procs |-> "closed"]
    /\ initialized = [p \in Procs |-> FALSE]
    /\ memory = [p \in Procs |-> 0]
    /\ temp = [p \in Procs |-> {}]
    /\ next = 1
    /\ acked = 0
    /\ damages = 0
    /\ lateDamage = FALSE

Goto(p, step) == pc' = [pc EXCEPT ![p] = step]
Unlock(p) == dirLock' = IF dirLock = p THEN NoProc ELSE dirLock

-----------------------------------------------------------------------------
(* Creating and opening.                                                   *)

\* Store::create: mkdirat succeeds for one caller only.
MakeDirectory(p) ==
    /\ pc[p] = "closed"
    /\ ~directory
    /\ directory' = TRUE
    /\ Goto(p, "made")
    /\ UNCHANGED <<dirDurable, lockFile, dirLock, published, afterLoss,
                   store, next, acked, accidents>>

\* Store::initialize_created: flock the directory, then create and flock "lock".
\* Both refusals (an opener got the lock, the lock file exists) end the call.
LockCreated(p) ==
    /\ pc[p] = "made"
    /\ IF directory /\ dirLock = NoProc /\ ~lockFile
       THEN dirLock' = p /\ lockFile' = TRUE /\ Goto(p, "locked")
       ELSE Goto(p, "closed") /\ UNCHANGED <<dirLock, lockFile>>
    /\ UNCHANGED <<directory, dirDurable, published, afterLoss, store, next, acked, accidents>>

\* ... then sync the lock file, the directory and the parent's entry for it,
\* and only then hand the new store to the caller.
SyncCreated(p) ==
    /\ pc[p] = "locked"
    /\ Goto(p, "ready")
    /\ dirDurable' = TRUE
    /\ UNCHANGED <<directory, lockFile, dirLock, published, afterLoss, store,
                   next, acked, accidents>>

\* Store::open: the exclusive, non-blocking flock on the directory.
LockForOpen(p) ==
    /\ pc[p] = "closed" /\ directory
    /\ dirLock = NoProc
    /\ dirLock' = p
    /\ Goto(p, "opening")
    /\ UNCHANGED <<directory, dirDurable, lockFile, published, afterLoss,
                   store, next, acked, accidents>>

\* Store::open, continued: the lock file must be there and the record must
\* decode; otherwise the half-open store is dropped and its lock released.
FinishOpen(p) ==
    /\ pc[p] = "opening"
    /\ IF lockFile /\ published # {} /\ Intact(published)
       THEN /\ Goto(p, "ready")
            /\ initialized' = [initialized EXCEPT ![p] = TRUE]
            /\ memory' = [memory EXCEPT ![p] = Version(published)]
            /\ UNCHANGED dirLock
       ELSE Goto(p, "closed") /\ Unlock(p) /\ UNCHANGED <<initialized, memory>>
    /\ UNCHANGED <<directory, dirDurable, lockFile, published, afterLoss, temp,
                   next, acked, accidents>>

-----------------------------------------------------------------------------
(* Replacing the record: Store::write_with_directory_sync.                 *)

\* What the store demands of the published record before it replaces it: a
\* store that has written or opened one must be able to read it, a new one
\* must find none.
Replaceable(p) ==
    IF initialized[p] THEN published # {} /\ Intact(published)
                      ELSE published = {}

\* The caller has already changed its record in memory (SharedRuntime's
\* update_guarded); the first validation may refuse it.
BeginWrite(p) ==
    /\ pc[p] = "ready" /\ next <= MaxVersion
    /\ memory' = [memory EXCEPT ![p] = next]
    /\ temp' = [temp EXCEPT ![p] =
                  {[ver |-> next, base |-> memory[p], intact |-> FALSE]}]
    /\ next' = next + 1
    /\ Goto(p, IF Replaceable(p) THEN "validated" ELSE "held")
    /\ UNCHANGED <<ensemble, published, afterLoss, initialized, acked, accidents>>

\* Create the temporary file and write the encoded record into it.
WriteTemp(p) ==
    /\ pc[p] = "validated"
    /\ Goto(p, "written")
    /\ UNCHANGED <<ensemble, published, afterLoss, store,
                   next, acked, accidents>>

\* sync_all on the temporary file: its bytes now survive a power loss.
SyncTemp(p) ==
    /\ pc[p] = "written"
    /\ temp' = [temp EXCEPT ![p] = {[r EXCEPT !.intact = TRUE] : r \in temp[p]}]
    /\ Goto(p, "synced")
    /\ UNCHANGED <<ensemble, published, afterLoss, initialized, memory,
                   next, acked, accidents>>

MutantRevalidate(p) ==
    /\ pc[p] = "synced"
    /\ Goto(p, "revalidated")
    /\ lateDamage' = FALSE
    /\ UNCHANGED <<ensemble, published, afterLoss, store,
                   next, acked, damages>>

\* The second validation, immediately before the replacement.
Revalidate(p) ==
    /\ pc[p] = "synced"
    /\ Goto(p, IF Replaceable(p) THEN "revalidated" ELSE "held")
    /\ lateDamage' = FALSE
    /\ UNCHANGED <<ensemble, published, afterLoss, store,
                   next, acked, damages>>

\* renameat: the new record is visible at once; until the directory is synced
\* a power loss may bring back the old one.
Rename(p) ==
    /\ pc[p] = "revalidated"
    /\ published' = {[r EXCEPT !.intact = TRUE] : r \in temp[p]}
    /\ afterLoss' = afterLoss \union {temp[p]}
    /\ initialized' = [initialized EXCEPT ![p] = TRUE]
    /\ Goto(p, "renamed")
    /\ UNCHANGED <<ensemble, memory, temp, next, acked, accidents>>

MutantSyncDirectory(p) ==
    /\ pc[p] = "renamed"
    /\ acked' = memory[p]
    /\ Goto(p, "ready")
    /\ UNCHANGED <<ensemble, published, afterLoss, store,
                   next, accidents>>

\* The directory sync that makes the replacement durable; write returns Ok.
SyncDirectory(p) ==
    /\ pc[p] = "renamed"
    /\ afterLoss' = {IF Intact(temp[p]) THEN published ELSE temp[p]}
    /\ acked' = memory[p]
    /\ Goto(p, "ready")
    /\ UNCHANGED <<ensemble, published, store, next, accidents>>

MutantFail(p) ==
    /\ pc[p] \in Writing
    /\ Goto(p, "ready")
    /\ UNCHANGED <<ensemble, published, afterLoss, store,
                   next, acked, accidents>>

\* Any call of the chain fails.  Nothing is rolled back; the runtime marks
\* itself failed and refuses every later update.
Fail(p) ==
    /\ pc[p] \in Writing
    /\ Goto(p, "held")
    /\ UNCHANGED <<ensemble, published, afterLoss, store,
                   next, acked, accidents>>

-----------------------------------------------------------------------------
(* Leaving, dying, losing power, damage from outside.                      *)

\* Drop for Store, an error return of initialize_created, or the death of the
\* process at any point: the locks and the Store go, the files stay (a stray
\* temporary file is never read).
LeaveStore(p) ==
    /\ pc[p] # "closed"
    /\ Goto(p, "closed")
    /\ Unlock(p)
    /\ initialized' = [initialized EXCEPT ![p] = FALSE]
    /\ memory' = [memory EXCEPT ![p] = 0]
    /\ temp' = [temp EXCEPT ![p] = {}]
    /\ UNCHANGED <<directory, dirDurable, lockFile, published, afterLoss, next,
                   acked, accidents>>

\* Every process is gone.  An unsynced directory or lock file may be missing,
\* the record is one of those the synced entries allow.
PowerLoss ==
    /\ pc' = [p \in Procs |-> "closed"]
    /\ dirLock' = NoProc
    /\ initialized' = [p \in Procs |-> FALSE]
    /\ memory' = [p \in Procs |-> 0]
    /\ temp' = [p \in Procs |-> {}]
    /\ \E kept \in IF directory THEN {TRUE, dirDurable} ELSE {FALSE},
          entry \in afterLoss :
         /\ directory' = kept
         /\ dirDurable' = kept
         /\ lockFile' \in {kept /\ lockFile, dirDurable /\ lockFile}
         /\ published' = IF kept THEN entry ELSE {}
         /\ afterLoss' = {published'}
    /\ UNCHANGED <<next, acked, accidents>>

\* The file is damaged by something other than the store.
DamageRecord ==
    /\ damages < MaxDamage
    /\ published # {} /\ Intact(published)
    /\ published' = {Damaged(r) : r \in published}
    /\ afterLoss' = afterLoss \union {published'}
    /\ damages' = damages + 1
    /\ lateDamage' = \E p \in Procs : pc[p] = "revalidated"
    /\ UNCHANGED <<ensemble, pc, store, next, acked>>

Process(p) ==
    \/ MakeDirectory(p) \/ LockCreated(p) \/ SyncCreated(p)
    \/ LockForOpen(p) \/ FinishOpen(p)
    \/ BeginWrite(p) \/ WriteTemp(p) \/ SyncTemp(p) \/ Revalidate(p)
    \/ Rename(p) \/ SyncDirectory(p) \/ Fail(p) \/ LeaveStore(p)

StoreNext == (\E p \in Procs : Process(p)) \/ PowerLoss \/ DamageRecord

StoreSpec == StoreInit /\ [][StoreNext]_storeVars

-----------------------------------------------------------------------------
(* Properties.                                                             *)

\* A write that returned Ok is never lost: after any crash or power loss the
\* published record is that one or a later one, and a lock-free reader
\* (Store::read_snapshot) sees a complete record at every moment, whatever
\* write is under way.  (Outside damage excepted.)
AcknowledgedSurvives ==
    damages = 0 => \A entry \in afterLoss \union {published} :
        /\ Intact(entry)
        /\ acked > 0 => directory /\ dirDurable /\ Version(entry) >= acked

\* Every record a process publishes was made from the very record it replaces:
\* no update of another process, and none of its own that failed to reach the
\* disk, is silently skipped over.  A damaged record is kept as evidence: it is
\* replaced only if the damage came after the writer's last look at it.
NoLostUpdate ==
    [][\A p \in Procs : pc[p] = "revalidated" /\ pc'[p] = "renamed" =>
         /\ \A r \in published' : r.base = Version(published)
         /\ Intact(published) \/ lateDamage]_storeVars

=============================================================================
