---------------------------- MODULE SessionProofs -----------------------------
(***************************************************************************)
(* Proofs about the two modules a session consists of, SessionStore and    *)
(* SessionLoop, for every set of processes, every capacity and every       *)
(* bound: an acknowledged write survives and no write skips over another;  *)
(* a draft has one owner, the terminal shows work exactly while there is   *)
(* some, and no accepted correction is lost unnoticed.                     *)
(***************************************************************************)
EXTENDS SessionStore, SessionLoop, TLAPS, FiniteSetTheorems

-----------------------------------------------------------------------------
(* SessionStore.                                                           *)

\* The directory outlives what is in it: a record is only ever published, or
\* offered, in a directory that has been synced.
Durable ==
    /\ dirDurable => directory
    /\ \A p \in Procs :
         /\ pc[p] \in Owning \union {"made"} => directory
         /\ pc[p] \in Writing \union {"ready", "held"} => dirDurable
    /\ \A entry \in afterLoss \union {published} : entry # {} => dirDurable

\* What process p, which alone may replace the record, knows of it.
Informed(p) ==
    /\ pc[p] \in {"closed", "made", "locked", "opening"} =>
         ~initialized[p] /\ memory[p] = 0
    /\ pc[p] = "ready" =>
         memory[p] = IF initialized[p] THEN Version(published) ELSE 0
    /\ pc[p] \in Writing =>
         /\ temp[p] # {}
         /\ \A r \in temp[p] : r.ver = memory[p]
    /\ pc[p] \in Writing \ {"renamed"} =>
         \A r \in temp[p] : r.base = Version(published)
    /\ pc[p] \in {"synced", "revalidated", "renamed"} => Intact(temp[p])
    /\ pc[p] = "revalidated" => Intact(published) \/ lateDamage
    /\ pc[p] = "renamed" =>
         initialized[p] /\ published # {} /\ Version(published) = memory[p]

\* No record the directory may show is older than the last acknowledged one.
Ordered ==
    /\ acked < next
    /\ \A p \in Procs : memory[p] < next
    /\ \A entry \in afterLoss \union {published} : Version(entry) < next
    /\ \A p \in Procs : pc[p] \in Writing => acked <= memory[p]
    /\ acked > 0 => directory /\ dirDurable
    /\ damages = 0 => \A entry \in afterLoss \union {published} :
         Intact(entry) /\ (acked > 0 => Version(entry) >= acked)

StoreInv == StoreTypeOK /\ Durable /\ (\A p \in Procs : Informed(p)) /\ Ordered

-----------------------------------------------------------------------------
(* Directory entries: the records they hold and the marks put on them.     *)

\* An entry holds one record or none, and Version reads the one it holds.
LEMMA EntryShape ==
    ASSUME NEW e \in Optional
    PROVE  /\ e = {} => Version(e) = 0 /\ Intact(e)
           /\ e # {} => \E r \in Record : e = {r} /\ Version(e) = r.ver
           /\ Version(e) \in 0..MaxVersion
  <1>1. CASE e = {}
    BY <1>1, StoreAssumption DEF Version, Intact
  <1>2. CASE e # {}
    <2>1. PICK r \in Record : e = {r}
      BY <1>2 DEF Optional
    <2>2. (CHOOSE x \in e : TRUE) = r
      BY <2>1
    <2>3. Version(e) = r.ver
      BY <1>2, <2>2 DEF Version
    <2>4. r.ver \in 0..MaxVersion
      BY StoreAssumption DEF Record
    <2> QED BY <1>2, <2>1, <2>3, <2>4
  <1> QED BY <1>1, <1>2

\* A freshly made entry.
LEMMA NewEntry ==
    ASSUME NEW r \in Record
    PROVE  {r} \in Optional /\ {r} # {} /\ Version({r}) = r.ver
  <1>1. (CHOOSE x \in {r} : TRUE) = r
    OBVIOUS
  <1> QED BY <1>1 DEF Optional, Version

\* Marking an entry's record as synced, or as damaged, changes only its bytes.
LEMMA MarkedEntry ==
    ASSUME NEW e \in Optional, NEW b \in BOOLEAN
    PROVE  LET m == {[r EXCEPT !.intact = b] : r \in e}
           IN  /\ m \in Optional
               /\ m = {} <=> e = {}
               /\ Version(m) = Version(e)
               /\ b => Intact(m)
               /\ \A x \in m : \E r \in e : x.ver = r.ver /\ x.base = r.base
  <1> DEFINE m == {[r EXCEPT !.intact = b] : r \in e}
  <1>1. CASE e = {}
    <2>1. m = {}
      BY <1>1
    <2> QED BY <1>1, <2>1 DEF Optional, Intact
  <1>2. CASE e # {}
    <2>1. PICK r \in Record : e = {r} /\ Version(e) = r.ver
      BY <1>2, EntryShape
    <2> DEFINE x == [r EXCEPT !.intact = b]
    <2>2. /\ x \in Record /\ x.ver = r.ver /\ x.base = r.base /\ x.intact = b
      BY DEF Record
    <2>3. m = {x}
      BY <2>1
    <2> HIDE DEF x, m
    <2>4. Version(m) = x.ver /\ m \in Optional /\ m # {}
      BY <2>2, <2>3, NewEntry
    <2>5. b => Intact(m)
      BY <2>2, <2>3 DEF Intact
    <2>6. /\ m \in Optional /\ (m = {} <=> e = {})
          /\ Version(m) = Version(e) /\ (b => Intact(m))
          /\ \A y \in m : \E z \in e : y.ver = z.ver /\ y.base = z.base
      BY <1>2, <2>1, <2>2, <2>3, <2>4, <2>5
    <2> QED BY <2>6 DEF m
  <1> QED BY <1>1, <1>2

-----------------------------------------------------------------------------
(* The steps, one by one.                                                  *)

\* The directory lock leaves every other process closed, or before its lock.
LEMMA Exclusive ==
    ASSUME StoreTypeOK, NEW p \in Procs, pc[p] \in Owning
    PROVE  /\ dirLock = p
           /\ \A q \in Procs : q # p => pc[q] \in {"closed", "made"}
  BY StoreAssumption DEF StoreTypeOK, Steps, Owning, Writing

LEMMA Initially == StoreInit => StoreInv
  <1> SUFFICES ASSUME StoreInit PROVE StoreInv
    OBVIOUS
  <1>1. {} \in Optional
    BY DEF Optional
  <1>2. Version({}) = 0 /\ Intact({})
    BY <1>1, EntryShape
  <1>3. StoreTypeOK
    <2>1. /\ next \in 1..(MaxVersion + 1) /\ acked \in 0..MaxVersion
          /\ damages \in 0..MaxDamage
      BY StoreAssumption DEF StoreInit
    <2>2. /\ memory \in [Procs -> 0..MaxVersion] /\ temp \in [Procs -> Optional]
          /\ published \in Optional /\ afterLoss \in SUBSET Optional
      BY <1>1, StoreAssumption DEF StoreInit
    <2>3. \A p \in Procs : pc[p] \in Owning <=> dirLock = p
      BY StoreAssumption DEF StoreInit, Steps, Owning, Writing
    <2> QED BY <2>1, <2>2, <2>3 DEF StoreInit, StoreTypeOK, Steps
  <1>4. Durable
    BY DEF StoreInit, Durable, Owning, Steps, Writing
  <1>5. \A p \in Procs : Informed(p)
    BY DEF StoreInit, Informed, Writing
  <1>6. Ordered
    BY <1>2 DEF StoreInit, Ordered, Writing
  <1> QED BY <1>3, <1>4, <1>5, <1>6 DEF StoreInv

\* Store::create and Store::open change no record and acknowledge nothing.
LEMMA CreatingSteps ==
    ASSUME NEW p \in Procs, StoreInv,
           MakeDirectory(p)
           \/ LockCreated(p)
           \/ SyncCreated(p)
           \/ LockForOpen(p)
           \/ FinishOpen(p)
    PROVE  StoreInv'
  <1> USE DEF storeVars, ensemble, store, accidents
  <1>1. CASE MakeDirectory(p)
    <2>1. StoreTypeOK'
      BY <1>1 DEF StoreInv, StoreTypeOK, MakeDirectory, Goto, Steps, Owning, Writing
    <2>2. Durable'
      BY <1>1
        DEF StoreInv, StoreTypeOK, Durable, MakeDirectory, Goto, Steps, Owning, Writing
    <2>3. \A q \in Procs : Informed(q)'
      BY <1>1
        DEF StoreInv, StoreTypeOK, Informed, MakeDirectory, Goto, Steps, Owning, Writing
    <2>4. Ordered'
      BY <1>1
        DEF StoreInv, StoreTypeOK, Ordered, MakeDirectory, Goto, Steps, Owning, Writing
    <2> QED BY <2>1, <2>2, <2>3, <2>4 DEF StoreInv
  <1>2. CASE LockCreated(p)
    <2>1. StoreTypeOK'
      <3>1. CASE directory /\ dirLock = NoProc /\ ~lockFile
        BY <1>2, <3>1, StoreAssumption
          DEF StoreInv, StoreTypeOK, LockCreated, Goto, Steps, Owning, Writing
      <3>2. CASE ~(directory /\ dirLock = NoProc /\ ~lockFile)
        BY <1>2, <3>2, StoreAssumption
          DEF StoreInv, StoreTypeOK, LockCreated, Goto, Steps, Owning, Writing
      <3> QED BY <3>1, <3>2
    <2>2. Durable'
      BY <1>2, StoreAssumption
        DEF StoreInv, StoreTypeOK, Durable, LockCreated, Goto, Steps, Owning, Writing
    <2>3. \A q \in Procs : Informed(q)'
      BY <1>2, StoreAssumption
        DEF StoreInv, StoreTypeOK, Informed, LockCreated, Goto, Steps, Owning, Writing
    <2>4. Ordered'
      BY <1>2, StoreAssumption
        DEF StoreInv, StoreTypeOK, Ordered, LockCreated, Goto, Steps, Owning, Writing
    <2> QED BY <2>1, <2>2, <2>3, <2>4 DEF StoreInv
  <1>3. CASE SyncCreated(p)
    <2>1. StoreTypeOK'
      BY <1>3, StoreAssumption
        DEF StoreInv, StoreTypeOK, SyncCreated, Goto, Steps, Owning, Writing
    <2>2. Durable'
      BY <1>3, StoreAssumption
        DEF StoreInv, StoreTypeOK, Durable, SyncCreated, Goto, Steps, Owning, Writing
    <2>3. \A q \in Procs : Informed(q)'
      BY <1>3, StoreAssumption
        DEF StoreInv, StoreTypeOK, Informed, SyncCreated, Goto, Steps, Owning, Writing
    <2>4. Ordered'
      BY <1>3, StoreAssumption
        DEF StoreInv, StoreTypeOK, Ordered, SyncCreated, Goto, Steps, Owning, Writing
    <2> QED BY <2>1, <2>2, <2>3, <2>4 DEF StoreInv
  <1>4. CASE LockForOpen(p)
    <2>1. StoreTypeOK'
      BY <1>4, StoreAssumption
        DEF StoreInv, StoreTypeOK, LockForOpen, Goto, Steps, Owning, Writing
    <2>2. Durable'
      BY <1>4, StoreAssumption
        DEF StoreInv, StoreTypeOK, Durable, LockForOpen, Goto, Steps, Owning, Writing
    <2>3. \A q \in Procs : Informed(q)'
      BY <1>4, StoreAssumption
        DEF StoreInv, StoreTypeOK, Informed, LockForOpen, Goto, Steps, Owning, Writing
    <2>4. Ordered'
      BY <1>4, StoreAssumption
        DEF StoreInv, StoreTypeOK, Ordered, LockForOpen, Goto, Steps, Owning, Writing
    <2> QED BY <2>1, <2>2, <2>3, <2>4 DEF StoreInv
  <1>5. CASE FinishOpen(p)
    <2>a. pc[p] \in Owning
      BY <1>5 DEF FinishOpen, Steps, Owning
    <2>b. dirLock = p /\ \A q \in Procs : q # p => pc[q] \in {"closed", "made"}
      BY <2>a, Exclusive DEF StoreInv
    <2>c. Version(published) \in 0..MaxVersion
      BY EntryShape DEF StoreInv, StoreTypeOK
    <2>1. StoreTypeOK'
      <3>1. CASE lockFile /\ published # {} /\ Intact(published)
        <4>1. /\ pc' = [pc EXCEPT ![p] = "ready"]
              /\ initialized' = [initialized EXCEPT ![p] = TRUE]
              /\ memory' = [memory EXCEPT ![p] = Version(published)]
              /\ UNCHANGED <<directory, dirDurable, lockFile, dirLock, published,
                             afterLoss, temp, next, acked, damages, lateDamage>>
          BY <1>5, <3>1 DEF FinishOpen, Goto
        <4>2. memory' \in [Procs -> 0..MaxVersion]
          BY <4>1, <2>c DEF StoreInv, StoreTypeOK
        <4>3. \A q \in Procs : pc'[q] \in Owning <=> dirLock' = q
          BY <4>1, <2>a, <2>b DEF StoreInv, StoreTypeOK, Steps, Owning, Writing
        <4> QED BY <4>1, <4>2, <4>3 DEF StoreInv, StoreTypeOK, Steps
      <3>2. CASE ~(lockFile /\ published # {} /\ Intact(published))
        BY <1>5, <3>2, <2>b, StoreAssumption
          DEF StoreInv, StoreTypeOK, FinishOpen, Goto, Steps, Owning, Writing, Unlock
      <3> QED BY <3>1, <3>2
    <2>2. Durable'
      BY <1>5, <2>b
        DEF StoreInv, StoreTypeOK, Durable, FinishOpen, Goto, Steps, Owning, Writing,
            Unlock
    <2>3. \A q \in Procs : Informed(q)'
      BY <1>5, <2>b
        DEF StoreInv, StoreTypeOK, Informed, FinishOpen, Goto, Steps, Owning, Writing,
            Unlock
    <2>4. Ordered'
      BY <1>5, <2>b
        DEF StoreInv, StoreTypeOK, Ordered, FinishOpen, Goto, Steps, Owning, Writing,
            Unlock
    <2> QED BY <2>1, <2>2, <2>3, <2>4 DEF StoreInv
  <1> QED BY <1>1, <1>2, <1>3, <1>4, <1>5

\* Store::write_with_directory_sync up to its rename: what is published stays.
LEMMA WritingSteps ==
    ASSUME NEW p \in Procs, StoreInv,
           BeginWrite(p)
           \/ WriteTemp(p)
           \/ SyncTemp(p)
           \/ Revalidate(p)
           \/ Fail(p)
    PROVE  StoreInv'
  <1> USE DEF storeVars, ensemble, store, accidents
  <1>1. CASE BeginWrite(p)
    <2>a. pc[p] \in Owning
      BY <1>1 DEF BeginWrite, Steps, Owning, Writing
    <2>b. dirLock = p /\ \A q \in Procs : q # p => pc[q] \in {"closed", "made"}
      BY <2>a, Exclusive DEF StoreInv
    <2> DEFINE r == [ver |-> next, base |-> memory[p], intact |-> FALSE]
    <2>c. r \in Record /\ r.ver = next /\ r.base = memory[p]
      BY <1>1, StoreAssumption DEF StoreInv, StoreTypeOK, BeginWrite, Record
    <2>d. {r} \in Optional /\ temp' = [temp EXCEPT ![p] = {r}]
      BY <1>1, <2>c, NewEntry DEF BeginWrite
    <2>e. Replaceable(p) => memory[p] = Version(published)
      BY <1>1, EntryShape DEF StoreInv, StoreTypeOK, Informed, Replaceable, BeginWrite
    <2> HIDE DEF r
    <2>f. pc' = [pc EXCEPT ![p] = IF Replaceable(p) THEN "validated" ELSE "held"]
      BY <1>1 DEF BeginWrite, Goto
    <2>g. \A entry \in afterLoss \union {published} : Version(entry) \in Nat
      BY EntryShape, StoreAssumption DEF StoreInv, StoreTypeOK
    <2>1. StoreTypeOK'
      <3>1. memory' \in [Procs -> 0..MaxVersion] /\ next' \in 1..(MaxVersion + 1)
        BY <1>1, StoreAssumption DEF StoreInv, StoreTypeOK, BeginWrite
      <3>2. temp' \in [Procs -> Optional]
        BY <2>d DEF StoreInv, StoreTypeOK
      <3>3. pc' \in [Procs -> Steps] /\ \A q \in Procs : pc'[q] \in Owning <=> dirLock = q
        BY <2>b, <2>f DEF StoreInv, StoreTypeOK, Steps, Owning, Writing
      <3> QED BY <1>1, <3>1, <3>2, <3>3 DEF StoreInv, StoreTypeOK, BeginWrite
    <2>2. Durable'
      BY <1>1, <2>f
        DEF StoreInv, StoreTypeOK, Durable, BeginWrite, Goto, Steps, Owning, Writing
    <2>3. \A q \in Procs : Informed(q)'
      <3>1. ASSUME NEW q \in Procs, q # p PROVE Informed(q)'
        BY <1>1, <3>1, <2>b
          DEF StoreInv, StoreTypeOK, Informed, BeginWrite, Goto, Steps, Owning, Writing
      <3>2. Informed(p)'
        BY <1>1, <2>c, <2>d, <2>e, <2>f
          DEF StoreInv, StoreTypeOK, Informed, BeginWrite, Goto, Steps, Owning, Writing
      <3> QED BY <3>1, <3>2
    <2>4. Ordered'
      BY <1>1, <2>f, <2>g, StoreAssumption
        DEF StoreInv, StoreTypeOK, Ordered, BeginWrite, Goto, Steps, Owning, Writing
    <2> QED BY <2>1, <2>2, <2>3, <2>4 DEF StoreInv
  <1>2. CASE WriteTemp(p)
    <2>a. pc[p] \in Owning
      BY <1>2 DEF WriteTemp, Steps, Owning, Writing
    <2>b. dirLock = p /\ \A q \in Procs : q # p => pc[q] \in {"closed", "made"}
      BY <2>a, Exclusive DEF StoreInv

    <2>1. StoreTypeOK'
      BY <1>2, <2>b DEF StoreInv, StoreTypeOK, WriteTemp, Goto, Steps, Owning, Writing
    <2>2. Durable'
      BY <1>2
        DEF StoreInv, StoreTypeOK, Durable, WriteTemp, Goto, Steps, Owning, Writing
    <2>3. \A q \in Procs : Informed(q)'
      <3>1. ASSUME NEW q \in Procs, q # p PROVE Informed(q)'
        BY <1>2, <3>1, <2>b
          DEF StoreInv, StoreTypeOK, Informed, WriteTemp, Goto, Steps, Owning, Writing
      <3>2. Informed(p)'
        BY <1>2, <2>b
          DEF StoreInv, StoreTypeOK, Informed, WriteTemp, Goto, Steps, Owning, Writing
      <3> QED BY <3>1, <3>2
    <2>4. Ordered'
      BY <1>2
        DEF StoreInv, StoreTypeOK, Ordered, WriteTemp, Goto, Steps, Owning, Writing
    <2> QED BY <2>1, <2>2, <2>3, <2>4 DEF StoreInv
  <1>3. CASE SyncTemp(p)
    <2>a. pc[p] \in Owning
      BY <1>3 DEF SyncTemp, Steps, Owning, Writing
    <2>b. dirLock = p /\ \A q \in Procs : q # p => pc[q] \in {"closed", "made"}
      BY <2>a, Exclusive DEF StoreInv
    <2> DEFINE m == {[r EXCEPT !.intact = TRUE] : r \in temp[p]}
    <2>c. temp[p] \in Optional
      BY DEF StoreInv, StoreTypeOK
    <2>d. /\ m \in Optional /\ (m = {} <=> temp[p] = {}) /\ Intact(m)
          /\ \A x \in m : \E r \in temp[p] : x.ver = r.ver /\ x.base = r.base
      BY <2>c, MarkedEntry
    <2>e. temp' = [temp EXCEPT ![p] = m]
      BY <1>3 DEF SyncTemp
    <2> HIDE DEF m
    <2>1. StoreTypeOK'
      <3>1. temp' \in [Procs -> Optional]
        BY <2>d, <2>e DEF StoreInv, StoreTypeOK
      <3>2. pc' \in [Procs -> Steps] /\ \A q \in Procs : pc'[q] \in Owning <=> dirLock = q
        BY <1>3, <2>b DEF StoreInv, StoreTypeOK, SyncTemp, Goto, Steps, Owning, Writing
      <3> QED BY <1>3, <3>1, <3>2 DEF StoreInv, StoreTypeOK, SyncTemp
    <2>2. Durable'
      BY <1>3 DEF StoreInv, StoreTypeOK, Durable, SyncTemp, Goto, Steps, Owning, Writing
    <2>3. \A q \in Procs : Informed(q)'
      <3>1. ASSUME NEW q \in Procs, q # p PROVE Informed(q)'
        BY <1>3, <3>1, <2>b
          DEF StoreInv, StoreTypeOK, Informed, SyncTemp, Goto, Steps, Owning, Writing
      <3>2. pc[p] = "written" /\ pc'[p] = "synced" /\ temp'[p] = m
        BY <1>3, <2>e DEF StoreInv, StoreTypeOK, SyncTemp, Goto
      <3>3. temp[p] # {} /\ \A r \in temp[p] : r.ver = memory[p] /\ r.base = Version(published)
        BY <3>2 DEF StoreInv, Informed, Writing
      <3>4. m # {} /\ Intact(m) /\ \A r \in m : r.ver = memory[p] /\ r.base = Version(published)
        BY <2>d, <3>3
      <3>5. memory' = memory /\ published' = published
        BY <1>3 DEF SyncTemp
      <3>6. Version(published)' = Version(published)
        BY <3>5
      <3>7. Intact(temp[p])'
        BY <3>2, <3>4 DEF Intact
      <3>8. Informed(p)'
        BY <3>2, <3>4, <3>5, <3>6, <3>7 DEF Informed, Writing
      <3> QED BY <3>1, <3>8
    <2>4. Ordered'
      BY <1>3 DEF StoreInv, StoreTypeOK, Ordered, SyncTemp, Goto, Steps, Owning, Writing
    <2> QED BY <2>1, <2>2, <2>3, <2>4 DEF StoreInv
  <1>4. CASE Revalidate(p)
    <2>a. pc[p] \in Owning
      BY <1>4 DEF Revalidate, Steps, Owning, Writing
    <2>b. dirLock = p /\ \A q \in Procs : q # p => pc[q] \in {"closed", "made"}
      BY <2>a, Exclusive DEF StoreInv
    <2>c. Replaceable(p) => Intact(published)
      BY DEF Replaceable, Intact
    <2>1. StoreTypeOK'
      BY <1>4, <2>b DEF StoreInv, StoreTypeOK, Revalidate, Goto, Steps, Owning, Writing
    <2>2. Durable'
      BY <1>4, <2>b
        DEF StoreInv, StoreTypeOK, Durable, Revalidate, Goto, Steps, Owning, Writing
    <2>3. \A q \in Procs : Informed(q)'
      <3>1. ASSUME NEW q \in Procs, q # p PROVE Informed(q)'
        BY <1>4, <3>1, <2>b
          DEF StoreInv, StoreTypeOK, Informed, Revalidate, Goto, Steps, Owning, Writing
      <3>2. Informed(p)'
        BY <1>4, <2>b, <2>c
          DEF StoreInv, StoreTypeOK, Informed, Revalidate, Goto, Steps, Owning, Writing
      <3> QED BY <3>1, <3>2
    <2>4. Ordered'
      BY <1>4
        DEF StoreInv, StoreTypeOK, Ordered, Revalidate, Goto, Steps, Owning, Writing
    <2> QED BY <2>1, <2>2, <2>3, <2>4 DEF StoreInv
  <1>5. CASE Fail(p)
    <2>a. pc[p] \in Owning
      BY <1>5 DEF Fail, Steps, Owning, Writing
    <2>b. dirLock = p /\ \A q \in Procs : q # p => pc[q] \in {"closed", "made"}
      BY <2>a, Exclusive DEF StoreInv

    <2>1. StoreTypeOK'
      BY <1>5, <2>b DEF StoreInv, StoreTypeOK, Fail, Goto, Steps, Owning, Writing
    <2>2. Durable'
      BY <1>5 DEF StoreInv, StoreTypeOK, Durable, Fail, Goto, Steps, Owning, Writing
    <2>3. \A q \in Procs : Informed(q)'
      <3>1. ASSUME NEW q \in Procs, q # p PROVE Informed(q)'
        BY <1>5, <3>1, <2>b
          DEF StoreInv, StoreTypeOK, Informed, Fail, Goto, Steps, Owning, Writing
      <3>2. Informed(p)'
        BY <1>5, <2>b
          DEF StoreInv, StoreTypeOK, Informed, Fail, Goto, Steps, Owning, Writing
      <3> QED BY <3>1, <3>2
    <2>4. Ordered'
      BY <1>5 DEF StoreInv, StoreTypeOK, Ordered, Fail, Goto, Steps, Owning, Writing
    <2> QED BY <2>1, <2>2, <2>3, <2>4 DEF StoreInv
  <1> QED BY <1>1, <1>2, <1>3, <1>4, <1>5

\* The rename publishes the record of the one writer, the directory sync settles it.
LEMMA PublishingSteps ==
    ASSUME NEW p \in Procs, StoreInv,
           Rename(p)
           \/ SyncDirectory(p)
    PROVE  StoreInv'
  <1> USE DEF storeVars, ensemble, store, accidents
  <1>1. CASE Rename(p)
    <2>a. pc[p] \in Owning
      BY <1>1 DEF Rename, Steps, Owning, Writing
    <2>b. dirLock = p /\ \A q \in Procs : q # p => pc[q] \in {"closed", "made"}
      BY <2>a, Exclusive DEF StoreInv
    <2> DEFINE m == {[r EXCEPT !.intact = TRUE] : r \in temp[p]}
    <2>c. temp[p] \in Optional /\ temp[p] # {} /\ Intact(temp[p]) /\ Version(temp[p]) = memory[p]
      BY <1>1, EntryShape DEF StoreInv, StoreTypeOK, Informed, Rename, Writing
    <2>d. m \in Optional /\ m # {} /\ Intact(m) /\ Version(m) = memory[p]
      BY <2>c, MarkedEntry
    <2>e. published' = m
      BY <1>1 DEF Rename
    <2> HIDE DEF m
    <2>f. Version(published)' = memory[p] /\ Intact(published)'
      BY <2>d, <2>e
    <2>g. /\ pc[p] = "revalidated" /\ pc' = [pc EXCEPT ![p] = "renamed"]
          /\ afterLoss' = afterLoss \union {temp[p]}
          /\ UNCHANGED <<directory, dirDurable, lockFile, dirLock, memory, temp,
                         next, acked, damages, lateDamage>>
      BY <1>1 DEF Rename, Goto
    <2>1. StoreTypeOK'
      <3>1. published' \in Optional /\ afterLoss' \in SUBSET Optional
        BY <2>c, <2>d, <2>e, <2>g DEF StoreInv, StoreTypeOK
      <3>2. pc' \in [Procs -> Steps] /\ \A q \in Procs : pc'[q] \in Owning <=> dirLock = q
        BY <2>b, <2>g DEF StoreInv, StoreTypeOK, Steps, Owning, Writing
      <3>3. initialized' \in [Procs -> BOOLEAN]
        BY <1>1 DEF StoreInv, StoreTypeOK, Rename
      <3> QED BY <2>g, <3>1, <3>2, <3>3 DEF StoreInv, StoreTypeOK
    <2>2. Durable'
      <3>1. dirDurable
        BY <2>g DEF StoreInv, Durable, Writing
      <3> QED BY <2>g, <3>1 DEF StoreInv, StoreTypeOK, Durable, Steps, Owning, Writing
    <2>3. \A q \in Procs : Informed(q)'
      <3>1. ASSUME NEW q \in Procs, q # p PROVE Informed(q)'
        <4>1. pc'[q] \in {"closed", "made"} /\ ~initialized'[q] /\ memory'[q] = 0
          BY <1>1, <2>b, <2>g, <3>1 DEF StoreInv, StoreTypeOK, Informed, Rename
        <4> QED BY <4>1 DEF Informed, Writing
      <3>2. Informed(p)'
        <4>1. /\ pc'[p] = "renamed" /\ temp'[p] = temp[p] /\ memory'[p] = memory[p]
              /\ initialized'[p] = TRUE
          BY <1>1, <2>g DEF StoreInv, StoreTypeOK, Rename
        <4>2. \A r \in temp[p] : r.ver = memory[p]
          BY <2>g DEF StoreInv, Informed, Writing
        <4>3. Intact(temp[p])'
          BY <2>c, <2>g DEF Intact
        <4> QED BY <2>c, <2>d, <2>e, <2>f, <4>1, <4>2, <4>3
                  DEF Informed, Writing
      <3> QED BY <3>1, <3>2
    <2>4. Ordered'
      <3>1. acked <= memory[p] /\ memory[p] < next
        BY <2>g DEF StoreInv, Ordered, Writing
      <3>2. \A q \in Procs : pc'[q] \in Writing => acked' <= memory'[q]
        BY <2>g DEF StoreInv, StoreTypeOK, Ordered, Writing
      <3>3. \A entry \in (afterLoss \union {published})' :
              \/ entry \in afterLoss
              \/ Intact(entry) /\ Version(entry) = memory[p]
        BY <2>c, <2>d, <2>e, <2>g
      <3> QED BY <2>g, <3>1, <3>2, <3>3 DEF StoreInv, StoreTypeOK, Ordered
    <2> QED BY <2>1, <2>2, <2>3, <2>4 DEF StoreInv
  <1>2. CASE SyncDirectory(p)
    <2>a. pc[p] \in Owning
      BY <1>2 DEF SyncDirectory, Steps, Owning, Writing
    <2>b. dirLock = p /\ \A q \in Procs : q # p => pc[q] \in {"closed", "made"}
      BY <2>a, Exclusive DEF StoreInv
    <2>c. /\ pc[p] = "renamed" /\ pc' = [pc EXCEPT ![p] = "ready"]
          /\ acked' = memory[p]
          /\ UNCHANGED <<directory, dirDurable, lockFile, dirLock, published,
                         initialized, memory, temp, next, damages, lateDamage>>
      BY <1>2 DEF SyncDirectory, Goto
    <2>d. /\ Version(published) = memory[p] /\ published # {} /\ Intact(temp[p])
          /\ memory[p] < next
      BY <2>c DEF StoreInv, Informed, Ordered
    <2>e. afterLoss' = {published}
      BY <1>2, <2>d DEF SyncDirectory
    <2>1. StoreTypeOK'
      BY <1>2, <2>b, <2>c, <2>e
        DEF StoreInv, StoreTypeOK, SyncDirectory, Goto, Steps, Owning, Writing
    <2>2. Durable'
      <3>1. dirDurable
        BY <2>c DEF StoreInv, Durable, Writing
      <3> QED BY <2>c, <2>e, <3>1
                DEF StoreInv, StoreTypeOK, Durable, Steps, Owning, Writing
    <2>3. \A q \in Procs : Informed(q)'
      <3>1. ASSUME NEW q \in Procs, q # p PROVE Informed(q)'
        <4>1. pc'[q] \in {"closed", "made"} /\ ~initialized'[q] /\ memory'[q] = 0
          BY <2>b, <2>c, <3>1 DEF StoreInv, StoreTypeOK, Informed
        <4> QED BY <4>1 DEF Informed, Writing
      <3>2. Informed(p)'
        <4>1. pc'[p] = "ready" /\ memory'[p] = memory[p] /\ initialized'[p] = initialized[p]
          BY <2>c DEF StoreInv, StoreTypeOK
        <4>2. initialized[p]
          BY <2>c DEF StoreInv, Informed
        <4>3. Version(published)' = Version(published)
          BY <2>c
        <4> QED BY <2>d, <4>1, <4>2, <4>3 DEF Informed, Writing
      <3> QED BY <3>1, <3>2
    <2>4. Ordered'
      <3>1. \A q \in Procs : pc'[q] \notin Writing
        BY <2>b, <2>c DEF StoreInv, StoreTypeOK, Writing
      <3>2. memory[p] \in Nat /\ (acked' > 0 => directory' /\ dirDurable')
        BY <2>c, StoreAssumption DEF StoreInv, StoreTypeOK, Durable, Writing
      <3>3. damages = 0 => Intact(published)
        BY DEF StoreInv, Ordered
      <3>4. \A entry \in (afterLoss \union {published})' : entry = published
        BY <2>c, <2>e
      <3> QED BY <2>c, <2>d, <3>1, <3>2, <3>3, <3>4 DEF StoreInv, StoreTypeOK, Ordered
    <2> QED BY <2>1, <2>2, <2>3, <2>4 DEF StoreInv
  <1> QED BY <1>1, <1>2

\* Leaving gives up the lock and the Store; what is on the disk stays.
LEMMA LeaveStep ==
    ASSUME NEW p \in Procs, StoreInv, LeaveStore(p)
    PROVE  StoreInv'
  <1> USE DEF accidents
  <1>1. {} \in Optional
    BY DEF Optional
  <1>2. /\ pc' = [pc EXCEPT ![p] = "closed"]
        /\ initialized' = [initialized EXCEPT ![p] = FALSE]
        /\ memory' = [memory EXCEPT ![p] = 0]
        /\ temp' = [temp EXCEPT ![p] = {}]
        /\ dirLock' = IF dirLock = p THEN NoProc ELSE dirLock
        /\ UNCHANGED <<directory, dirDurable, lockFile, published, afterLoss,
                       next, acked, damages, lateDamage>>
    BY DEF LeaveStore, Goto, Unlock
  <1>3. StoreTypeOK'
    <2>1. \A q \in Procs : pc'[q] \in Owning <=> dirLock' = q
      BY <1>2, StoreAssumption DEF StoreInv, StoreTypeOK, Steps, Owning, Writing
    <2>2. memory' \in [Procs -> 0..MaxVersion] /\ temp' \in [Procs -> Optional]
      BY <1>1, <1>2, StoreAssumption DEF StoreInv, StoreTypeOK
    <2> QED BY <1>2, <2>1, <2>2 DEF StoreInv, StoreTypeOK, Steps
  <1>4. Durable'
    BY <1>2 DEF StoreInv, StoreTypeOK, Durable, Steps, Owning, Writing
  <1>5. \A q \in Procs : Informed(q)'
    <2>1. Version(published)' = Version(published)
      BY <1>2
    <2>2. ASSUME NEW q \in Procs, q # p PROVE Informed(q)'
      BY <1>2, <2>1, <2>2 DEF StoreInv, StoreTypeOK, Informed, Intact
    <2>3. Informed(p)'
      BY <1>2 DEF StoreInv, StoreTypeOK, Informed, Writing
    <2> QED BY <2>2, <2>3
  <1>6. Ordered'
    BY <1>2, StoreAssumption DEF StoreInv, StoreTypeOK, Ordered, Writing
  <1> QED BY <1>3, <1>4, <1>5, <1>6 DEF StoreInv

\* A power loss leaves one of the entries the synced ones allow.
LEMMA PowerLossStep ==
    ASSUME StoreInv, PowerLoss
    PROVE  StoreInv'
  <1> USE DEF accidents
  <1>1. {} \in Optional /\ Version({}) = 0 /\ Intact({})
    BY EntryShape DEF Optional
  <1>2. PICK kept \in IF directory THEN {TRUE, dirDurable} ELSE {FALSE},
             entry \in afterLoss :
               /\ directory' = kept
               /\ dirDurable' = kept
               /\ lockFile' \in {kept /\ lockFile, dirDurable /\ lockFile}
               /\ published' = IF kept THEN entry ELSE {}
               /\ afterLoss' = {published'}
    BY DEF PowerLoss
  <1>3. /\ pc' = [p \in Procs |-> "closed"] /\ dirLock' = NoProc
        /\ initialized' = [p \in Procs |-> FALSE]
        /\ memory' = [p \in Procs |-> 0] /\ temp' = [p \in Procs |-> {}]
        /\ UNCHANGED <<next, acked, damages, lateDamage>>
    BY DEF PowerLoss
  <1>4. kept \in BOOLEAN /\ (dirDurable => kept)
    BY <1>2 DEF StoreInv, StoreTypeOK, Durable
  <1>5. published' \in Optional /\ (published' # {} => kept)
    BY <1>1, <1>2 DEF StoreInv, StoreTypeOK
  <1>6. StoreTypeOK'
    <2>1. /\ memory' \in [Procs -> 0..MaxVersion] /\ temp' \in [Procs -> Optional]
          /\ initialized' \in [Procs -> BOOLEAN] /\ pc' \in [Procs -> Steps]
      BY <1>1, <1>3, StoreAssumption DEF Steps
    <2>2. \A q \in Procs : pc'[q] \in Owning <=> dirLock' = q
      BY <1>3, StoreAssumption DEF Owning, Steps, Writing
    <2>3. lockFile' \in BOOLEAN /\ directory' \in BOOLEAN /\ dirDurable' \in BOOLEAN
      BY <1>2, <1>4 DEF StoreInv, StoreTypeOK
    <2>4. afterLoss' \in SUBSET Optional /\ dirLock' \in Procs \union {NoProc}
      BY <1>2, <1>3, <1>5
    <2> QED BY <1>3, <1>5, <2>1, <2>2, <2>3, <2>4 DEF StoreInv, StoreTypeOK
  <1>7. Durable'
    BY <1>2, <1>3, <1>4, <1>5 DEF Durable, Owning, Steps, Writing
  <1>8. \A q \in Procs : Informed(q)'
    BY <1>3 DEF Informed, Writing
  <1>9. Ordered'
    <2>1. acked < next /\ \A q \in Procs : memory'[q] < next /\ pc'[q] \notin Writing
      BY <1>3, StoreAssumption DEF StoreInv, StoreTypeOK, Ordered, Writing
    <2>2. acked > 0 => kept /\ published' = entry
      BY <1>2, <1>4 DEF StoreInv, Ordered
    <2>3. published' \in {{}, entry} /\ \A e \in afterLoss' \union {published'} : e = published'
      BY <1>2
    <2>4. Version(entry) < next /\ Version(published') < next
      <3>1. Version(entry) < next /\ 0 < next
        BY StoreAssumption DEF StoreInv, StoreTypeOK, Ordered
      <3> QED BY <1>1, <2>3, <3>1
    <2>5. damages = 0 => Intact(published') /\ (acked > 0 => Version(published') >= acked)
      BY <1>1, <2>2, <2>3 DEF StoreInv, Ordered
    <2> QED BY <1>2, <1>3, <2>1, <2>2, <2>3, <2>4, <2>5 DEF Ordered
  <1> QED BY <1>6, <1>7, <1>8, <1>9 DEF StoreInv

\* Outside damage spoils the bytes of the record and keeps its version.
LEMMA DamageStep ==
    ASSUME StoreInv, DamageRecord
    PROVE  StoreInv'
  <1> DEFINE m == {[r EXCEPT !.intact = FALSE] : r \in published}
  <1>1. /\ published' = m /\ published # {}
        /\ afterLoss' = afterLoss \union {m}
        /\ damages' = damages + 1 /\ damages < MaxDamage
        /\ lateDamage' = \E p \in Procs : pc[p] = "revalidated"
        /\ UNCHANGED <<directory, dirDurable, lockFile, dirLock, pc, initialized,
                       memory, temp, next, acked>>
    BY DEF DamageRecord, Damaged, ensemble, store
  <1>2. m \in Optional /\ m # {} /\ Version(m) = Version(published)
    BY <1>1, MarkedEntry DEF StoreInv, StoreTypeOK
  <1> HIDE DEF m
  <1>3. StoreTypeOK'
    BY <1>1, <1>2, StoreAssumption DEF StoreInv, StoreTypeOK
  <1>4. Durable'
    BY <1>1, <1>2 DEF StoreInv, Durable
  <1>5. Version(published)' = Version(published)
    BY <1>1, <1>2
  <1>6. \A q \in Procs : Informed(q)'
    BY <1>1, <1>2, <1>5 DEF StoreInv, Informed, Intact
  <1>7. Ordered'
    BY <1>1, <1>2, <1>5, StoreAssumption DEF StoreInv, StoreTypeOK, Ordered
  <1> QED BY <1>3, <1>4, <1>6, <1>7 DEF StoreInv

-----------------------------------------------------------------------------
(* The invariant and what it gives.                                        *)

LEMMA StoreInductive == StoreInv /\ [StoreNext]_storeVars => StoreInv'
  <1> SUFFICES ASSUME StoreInv, [StoreNext]_storeVars PROVE StoreInv'
    OBVIOUS
  <1>1. CASE UNCHANGED storeVars
    <2>1. StoreTypeOK' /\ Durable'
      BY <1>1 DEF storeVars, StoreInv, StoreTypeOK, Durable
    <2>2. Version(published)' = Version(published)
      BY <1>1 DEF storeVars
    <2>3. \A q \in Procs : Informed(q)'
      BY <1>1, <2>2 DEF storeVars, StoreInv, Informed, Intact
    <2>4. Ordered'
      BY <1>1 DEF storeVars, StoreInv, Ordered
    <2> QED BY <2>1, <2>3, <2>4 DEF StoreInv
  <1>2. ASSUME NEW p \in Procs, Process(p) PROVE StoreInv'
    BY <1>2, CreatingSteps, WritingSteps, PublishingSteps, LeaveStep
      DEF Process
  <1> QED BY <1>1, <1>2, PowerLossStep, DamageStep DEF StoreNext

LEMMA StoreInvariance == StoreSpec => []StoreInv
  BY Initially, StoreInductive, PTL DEF StoreSpec

\* The types, and that the directory lock has the one holder past its flock.
THEOREM StoreTypeCorrect == StoreSpec => []StoreTypeOK
  <1>1. StoreInv => StoreTypeOK
    BY DEF StoreInv
  <1> QED BY <1>1, StoreInvariance, PTL

\* A write that returned Ok survives every crash and power loss, and no reader
\* sees a partial record, for any number of processes and of writes.
THEOREM AcknowledgedWritesSurvive == StoreSpec => []AcknowledgedSurvives
  <1>1. StoreInv => AcknowledgedSurvives
    BY DEF StoreInv, Ordered, AcknowledgedSurvives
  <1> QED BY <1>1, StoreInvariance, PTL

\* The rename replaces the very record its writer had in hand, and a damaged
\* one only when the damage came after the writer's second validation.
THEOREM UpdatesChained == StoreSpec => NoLostUpdate
  <1>1. ASSUME StoreInv, [StoreNext]_storeVars, NEW p \in Procs,
               pc[p] = "revalidated", pc'[p] = "renamed"
        PROVE  /\ \A r \in published' : r.base = Version(published)
               /\ Intact(published) \/ lateDamage
    <2>1. Rename(p)
      <3>1. ASSUME NEW q \in Procs, Process(q) PROVE Rename(p)
        <4>1. pc[p] \in Owning
          BY <1>1 DEF Owning, Steps, Writing
        <4>2. q # p => pc[q] \in {"closed", "made"}
          BY <1>1, <4>1, Exclusive DEF StoreInv
        <4> QED
          BY <1>1, <3>1, <4>2 DEF StoreInv, StoreTypeOK, Process, Goto, MakeDirectory,
             LockCreated, SyncCreated, LockForOpen, FinishOpen, BeginWrite,
             WriteTemp, SyncTemp, Revalidate, Rename, SyncDirectory, Fail,
             LeaveStore, Writing
      <3>2. CASE PowerLoss
        BY <1>1, <3>2 DEF PowerLoss
      <3>3. CASE DamageRecord
        BY <1>1, <3>3 DEF DamageRecord
      <3>4. CASE UNCHANGED storeVars
        BY <1>1, <3>4 DEF storeVars
      <3> QED BY <1>1, <3>1, <3>2, <3>3, <3>4 DEF StoreNext
    <2> DEFINE m == {[r EXCEPT !.intact = TRUE] : r \in temp[p]}
    <2>2. published' = m /\ temp[p] \in Optional
      BY <2>1, <1>1 DEF Rename, StoreInv, StoreTypeOK
    <2>3. \A x \in m : \E r \in temp[p] : x.ver = r.ver /\ x.base = r.base
      BY <2>2, MarkedEntry
    <2> HIDE DEF m
    <2> QED BY <1>1, <2>2, <2>3 DEF StoreInv, Informed, Writing
  <1>2. StoreInv /\ [StoreNext]_storeVars =>
          [\A p \in Procs : pc[p] = "revalidated" /\ pc'[p] = "renamed" =>
             /\ \A r \in published' : r.base = Version(published)
             /\ Intact(published) \/ lateDamage]_storeVars
    BY <1>1
  <1> QED BY <1>2, StoreInvariance, PTL DEF StoreSpec, NoLostUpdate

-----------------------------------------------------------------------------
(* SessionLoop.                                                            *)

\* The drafts that may be on their way: nobody has taken them yet, and the terminal,
\* as long as it lives, waits for the answer.
Awaited == {d \in Drafts : /\ d <= typed /\ fate[d] = "none"
                           /\ ui.live => d = ui.pending /\ reply = "open"}

\* There is one such draft at most, in the queue or with the parent's relay.
OneInTransit ==
    /\ \A i \in DOMAIN queue : queue[i].kind = "submit" =>
         /\ queue[i].draft \in Awaited /\ forwarded = Nothing
         /\ \A j \in DOMAIN queue : queue[j].kind = "submit" => i = j
    /\ forwarded # Nothing => forwarded \in Awaited

\* What the terminal knows of its texts.
Editor ==
    /\ ui.pending # Nothing <=> reply # "none"
    /\ ~ui.live => reply = "none"
    /\ ui.text \in {Nothing, typed} /\ ui.pending <= typed
    /\ ui.text # Nothing => fate[ui.text] # "discarded"
    /\ \A d \in Drafts : d > typed => fate[d] = "none"
    /\ ui.live =>
        /\ ui.text \in Accepted => ui.pending = ui.text /\ reply = "ok"
        /\ ui.pending # Nothing /\ reply = "ok" => ui.pending \in Accepted
        /\ ui.text = Nothing /\ typed # 0 => fate[typed] # "none"

\* The draft whose turn is about to begin.
Prompted ==
    \A d \in Drafts : fate[d] = "prompt" =>
        At("publishing") /\ host.event = "started" /\ host.prompt = d

\* What a turn holds of its corrections, by the kind of turn it is.
Turning ==
    /\ ~At("turn") => run = NoTurn
    /\ run.mode # "work" => run = [NoTurn EXCEPT !.mode = run.mode]
    /\ native => run.steering = <<>>
    /\ ~native /\ ~run.interrupting => run.taken = {}
    /\ ~native /\ ~run.interrupting /\ run.dispatch = "result" => Unapplied \subseteq late

\* Whether a terminal that is or is not busy shows work, or none, once it has shown
\* the events s.
Works(s, busy) ==
    \/ \E i \in DOMAIN s :
          s[i] = "started" /\ \A j \in DOMAIN s : j > i => s[j] # "finished"
    \/ busy /\ \A i \in DOMAIN s : s[i] # "finished"
Rests(s, busy) ==
    \/ \E i \in DOMAIN s :
          s[i] = "finished" /\ \A j \in DOMAIN s : j > i => s[j] # "started"
    \/ ~busy /\ \A i \in DOMAIN s : s[i] # "started"

Between == \/ host.at \in {"starting", "startCancelled", "idle"}
           \/ /\ host.at \in {"publishing", "stopping"}
              /\ host.event \in {"none", "ready", "initial"}
WillBeBusy == ui.busy \/ reply = "ok"
Shows ==
    ui.live =>
        /\ Between => Rests(events, WillBeBusy)
        /\ At("turn") => Works(events, WillBeBusy)

\* What is published is an event, and the turn that is to begin is of an accepted text.
Publishing ==
    At("publishing") =>
        /\ host.event \notin {"none", "cancelled"}
        /\ host.event = "started" /\ host.prompt # Nothing => host.prompt \in Accepted

IInv == /\ TypeOK /\ OneInTransit /\ Editor /\ Prompted /\ Turning /\ CorrectionsApply
        /\ Publishing /\ Shows

Talk == OneInTransit /\ Editor

-----------------------------------------------------------------------------
(* The two ends of the conversation.                                       *)

Commands == {Cancel, Shutdown} \union {Submission(d) : d \in Drafts}

LEMMA Kinds ==
    ASSUME NEW c \in Commands
    PROVE  /\ c.kind = "submit" => c.draft \in Drafts /\ c = Submission(c.draft)
           /\ c.kind # "submit" => c.draft = Nothing
           /\ c.kind \in {"submit", "cancel", "shutdown"}
BY DEF Commands, Cancel, Shutdown, Submission

LEMMA Elements ==
    ASSUME TypeOK, NEW i \in DOMAIN queue
    PROVE  queue[i] \in Commands /\ i \in Nat \ {0}
BY DEF TypeOK, Commands

LEMMA TakenElement ==
    ASSUME TypeOK, NEW c, Take(c)
    PROVE  /\ Len(queue) \in Nat \ {0} /\ c = queue[1] /\ 1 \in DOMAIN queue
           /\ queue' \in Seq(Commands)
           /\ Len(queue') = Len(queue) - 1
           /\ \A i \in DOMAIN queue' : i \in Nat \ {0} /\ i + 1 \in DOMAIN queue
                                       /\ queue'[i] = queue[i + 1]
BY DEF TypeOK, Take, Commands

\* Only the fates of texts change that a turn has accepted.
Quietly ==
    \A d \in Drafts : \/ fate'[d] = fate[d]
                      \/ /\ fate[d] \notin {"none", "discarded"}
                         /\ fate'[d] \notin {"none", "discarded"}

LEMMA EditorKeeps ==
    ASSUME TypeOK, Editor, UNCHANGED <<ui, reply, typed>>, Quietly
    PROVE  Editor'
BY DEF TypeOK, Editor, Accepted, Drafts, Nothing, Quietly

LEMMA AwaitedKeeps ==
    ASSUME TypeOK, UNCHANGED <<ui, reply, typed>>, Quietly
    PROVE  Awaited \subseteq Awaited'
BY DEF TypeOK, Awaited, Quietly

\* Nobody's part in it changes when the queue does not change or loses its head.
LEMMA AcceptedKeeps ==
    ASSUME TypeOK, Talk, UNCHANGED <<ui, reply, queue, forwarded, typed>>, Quietly
    PROVE  Talk'
BY AwaitedKeeps, EditorKeeps DEF Talk, OneInTransit

LEMMA CommandTaken ==
    ASSUME TypeOK, Talk, NEW c, Take(c), UNCHANGED <<ui, reply, forwarded, typed>>, Quietly
    PROVE  Talk'
<1>1. \A i \in DOMAIN queue' : queue'[i].kind = "submit" =>
         /\ queue'[i].draft \in Awaited' /\ forwarded' = Nothing
         /\ \A j \in DOMAIN queue' : queue'[j].kind = "submit" => i = j
  BY AwaitedKeeps, TakenElement DEF Talk, OneInTransit
<1>2. QED
  BY <1>1, AwaitedKeeps, EditorKeeps DEF Talk, OneInTransit

\* The draft that was on its way is no longer: none is.
LEMMA NoneLeft ==
    ASSUME TypeOK, Talk, NEW d \in Drafts,
           \/ Take(Submission(d)) /\ UNCHANGED forwarded
           \/ forwarded = d /\ forwarded' = Nothing /\ UNCHANGED queue
    PROVE  /\ d \in Awaited /\ forwarded' = Nothing
           /\ \A i \in DOMAIN queue' : queue'[i].kind # "submit"
<1>1. CASE Take(Submission(d)) /\ UNCHANGED forwarded
  <2>1. queue[1] = Submission(d) /\ queue[1].kind = "submit" /\ queue[1].draft = d
        /\ 1 \in DOMAIN queue
    BY <1>1, TakenElement DEF Submission
  <2>2. ASSUME NEW i \in DOMAIN queue', queue'[i].kind = "submit" PROVE FALSE
    BY <1>1, <2>1, <2>2, TakenElement DEF Talk, OneInTransit
  <2>3. QED
    BY <1>1, <2>1, <2>2 DEF Talk, OneInTransit
<1>2. CASE forwarded = d /\ forwarded' = Nothing /\ UNCHANGED queue
  BY <1>2, SessionLoopAssumption DEF Talk, OneInTransit, Drafts, Nothing
<1>3. QED
  BY <1>1, <1>2

\* What becomes of a draft that is taken.
Fated(d, a) ==
    \/ UNCHANGED fate /\ (ui.live => a # "ok")
    \/ /\ \E f \in {"prompt", "queued", "applied"} : fate' = Fates({d}, f)
       /\ a = "ok"

\* A draft is taken, or passed on by the relay, and its sender is told.
LEMMA DraftTaken ==
    ASSUME TypeOK, Talk, NEW d \in Drafts, NEW a \in {"ok", "no", "closed"},
           \/ Take(Submission(d)) /\ UNCHANGED forwarded
           \/ forwarded = d /\ forwarded' = Nothing /\ UNCHANGED queue,
           Answer(a), UNCHANGED <<ui, typed>>, Fated(d, a)
    PROVE  Talk'
<1>1. OneInTransit'
  BY NoneLeft DEF OneInTransit
<1>2. d \in Awaited
  BY NoneLeft
<1>a. /\ d \in 1..MaxDrafts /\ d <= typed /\ fate[d] = "none"
      /\ ui.live => d = ui.pending /\ reply = "open"
      /\ reply' = IF reply = "open" THEN a ELSE reply
  BY <1>2 DEF Awaited, Drafts, Answer
<1>b. ui.live => ui.pending # Nothing
  BY <1>a, SessionLoopAssumption DEF Talk, Editor, TypeOK, Nothing, Drafts
<1>3. CASE UNCHANGED fate /\ (ui.live => a # "ok")
  <2>1. ui.live => reply' # "ok"
    BY <1>a, <1>3
  <2>2. ui.live => ui.text \notin Accepted
    BY <1>a DEF Talk, Editor
  <2>3. UNCHANGED Accepted
    BY <1>3 DEF Accepted
  <2>4. (reply # "none") <=> (reply' # "none")
    BY <1>a DEF TypeOK
  <2>5. reply = "none" => reply' = "none"
    BY <1>a
  <2>6. /\ \A e \in Drafts : e > typed => fate'[e] = "none"
        /\ ui.text # Nothing => fate'[ui.text] # "discarded"
    BY <1>3 DEF Talk, Editor
  <2>7. ui.live /\ ui.text = Nothing /\ typed # 0 => fate'[typed] # "none"
    BY <1>3 DEF Talk, Editor
  <2>8. ui.live => ~(ui.text \in Accepted') /\ ~(ui.pending # Nothing /\ reply' = "ok")
    BY <2>1, <2>2, <2>3
  <2>9. QED
    BY <1>1, <2>4, <2>5, <2>6, <2>7, <2>8 DEF Talk, Editor
<1>4. ASSUME NEW f \in {"prompt", "queued", "applied"}, fate' = Fates({d}, f), a = "ok"
      PROVE  Editor'
  <2>1. fate'[d] = f /\ \A e \in Drafts : e # d => fate'[e] = fate[e]
    BY <1>4 DEF Fates
  <2>2. Accepted' = Accepted \union {d}
    BY <2>1 DEF Accepted
  <2>3. (reply # "none") <=> (reply' # "none")
    BY <1>4, <1>a DEF TypeOK
  <2>4. ui.live => d = ui.pending /\ reply' = "ok" /\ ui.text \notin Accepted
    BY <1>4, <1>a DEF Talk, Editor
  <2>5. \A e \in Drafts : e > typed => fate'[e] = "none"
    BY <1>a, <2>1, SessionLoopAssumption DEF Talk, Editor, TypeOK, Drafts
  <2>6. ASSUME ui.live, ui.text = Nothing, typed # 0 PROVE fate'[typed] # "none"
    <3>1. typed \in Drafts /\ fate[typed] # "none"
      BY <2>6, SessionLoopAssumption DEF Talk, Editor, TypeOK, Drafts
    <3>2. QED
      BY <3>1, <2>1
  <2>7. ASSUME ui.text # Nothing PROVE fate'[ui.text] # "discarded"
    <3>1. ui.text \in Drafts /\ fate[ui.text] # "discarded"
      BY <2>7, SessionLoopAssumption DEF Talk, Editor, TypeOK, Drafts, Nothing
    <3>2. QED
      BY <3>1, <2>1
  <2>8. QED
    BY <1>a, <2>2, <2>3, <2>4, <2>5, <2>6, <2>7 DEF Talk, Editor
<1>5. QED
  BY <1>1, <1>3, <1>4 DEF Talk, Fated

\* An answer other than "ok" goes to the terminal.
LEMMA Refused ==
    ASSUME TypeOK, Editor, NEW a \in {"no", "closed"},
           Answer(a) \/ UNCHANGED reply, UNCHANGED <<ui, typed>>, Quietly
    PROVE  Editor'
<1>1. reply \in {"none", "open", "ok", "no", "closed"}
  BY DEF TypeOK
<1>2. /\ reply = "none" <=> reply' = "none"
      /\ reply = "ok" <=> reply' = "ok"
  BY <1>1 DEF Answer
<1>3. Accepted' = Accepted
  BY DEF TypeOK, Accepted, Quietly
<1>4. \A d \in Drafts : d > typed => fate'[d] = "none"
  BY DEF Editor, Quietly
<1>5. ASSUME ui.live, ui.text = Nothing, typed # 0 PROVE fate'[typed] # "none"
  <2>1. typed \in Drafts /\ fate[typed] # "none"
    BY <1>5, SessionLoopAssumption DEF Editor, TypeOK, Drafts
  <2>2. QED
    BY <2>1 DEF Quietly
<1>6. ASSUME ui.text # Nothing PROVE fate'[ui.text] # "discarded"
  <2>1. ui.text \in Drafts /\ fate[ui.text] # "discarded"
    BY <1>6, SessionLoopAssumption DEF Editor, TypeOK, Drafts, Nothing
  <2>2. QED
    BY <2>1 DEF Quietly
<1>7. QED
  BY <1>2, <1>3, <1>4, <1>5, <1>6 DEF Editor

\* What was left in the queue is thrown away, a draft is refused with it.
LEMMA Emptied ==
    ASSUME TypeOK, Talk, queue' = <<>>,
           IF Queued("submit") THEN Answer("no") ELSE UNCHANGED reply,
           UNCHANGED <<ui, typed, forwarded, fate>>
    PROVE  Talk'
<1>1. Quietly
  BY DEF Quietly
<1>2. Editor'
  BY <1>1, Refused DEF Talk
<1>3. DOMAIN queue' = {}
  OBVIOUS
<1>4. CASE Queued("submit")
  BY <1>2, <1>3, <1>4 DEF Talk, OneInTransit, Queued
<1>5. CASE ~Queued("submit")
  BY <1>1, <1>2, <1>3, <1>5, AwaitedKeeps DEF Talk, OneInTransit
<1>6. QED
  BY <1>4, <1>5

\* The turn ends, perhaps by a command, and so does what its parent did not take.
LEMMA Left ==
    ASSUME TypeOK, Talk,
           UNCHANGED queue \/ \E c : Take(c),
           forwarded' = Nothing,
           reply' = IF forwarded # Nothing /\ reply = "open" THEN "closed" ELSE reply,
           UNCHANGED <<ui, typed>>, Quietly
    PROVE  Talk'
<1>1. Editor'
  BY Refused DEF Answer, Talk
<1>2. CASE forwarded = Nothing
  <2>1. UNCHANGED <<reply, forwarded>>
    BY <1>2
  <2>2. QED
    BY <2>1, AcceptedKeeps, CommandTaken
<1>3. CASE forwarded # Nothing
  <2>1. \A i \in DOMAIN queue : queue[i].kind # "submit"
    BY <1>3 DEF Talk, OneInTransit
  <2>2. \A i \in DOMAIN queue' : queue'[i].kind # "submit"
    BY <2>1, TakenElement
  <2>3. QED
    BY <1>1, <2>2 DEF Talk, OneInTransit
<1>4. QED
  BY <1>2, <1>3

-----------------------------------------------------------------------------
(* The terminal's side of the conversation.                                *)

LEMMA TypeTextTalks ==
    ASSUME TypeOK, Talk, TypeText
    PROVE  Talk'
<1>1. /\ typed' = typed + 1 /\ typed' \in Drafts /\ ui.live
      /\ typed \in Nat
      /\ UNCHANGED <<reply, queue, forwarded, fate>>
  <2>1. MaxDrafts \in Nat /\ typed \in 0..MaxDrafts
    BY SessionLoopAssumption DEF TypeOK
  <2>2. /\ typed < MaxDrafts /\ typed' = typed + 1 /\ ui.live
        /\ UNCHANGED <<reply, queue, forwarded, fate>>
    BY DEF TypeText
  <2>3. QED
    BY <2>1, <2>2 DEF Drafts
<1>2. /\ ui'.text = typed' /\ ui'.live = ui.live /\ ui'.live = TRUE
      /\ ui'.pending = ui.pending
  <2>1. PICK t : t = typed'
    OBVIOUS
  <2>2. ui' = [ui EXCEPT !.text = t] /\ ui.live
    BY <2>1 DEF TypeText
  <2>3. QED
    BY <2>1, <2>2 DEF TypeOK
<1>3. Awaited \subseteq Awaited'
  BY <1>1, <1>2, SessionLoopAssumption DEF Awaited, Drafts
<1>4. fate[typed'] = "none" /\ \A d \in Drafts : d > typed' => fate[d] = "none"
  BY <1>1, SessionLoopAssumption DEF Talk, Editor, Drafts
<1>5. ui.pending \in 0..MaxDrafts /\ ui.pending <= typed'
  BY <1>1, SessionLoopAssumption DEF Talk, Editor, TypeOK
<1>6. Editor'
  <2>1. Accepted' = Accepted /\ typed' \notin Accepted /\ typed' # Nothing
    BY <1>1, <1>4, SessionLoopAssumption DEF Accepted, Nothing, Drafts
  <2>2. QED
    BY <1>1, <1>2, <1>4, <1>5, <2>1 DEF Talk, Editor
<1>7. QED
  BY <1>1, <1>3, <1>6 DEF Talk, OneInTransit

LEMMA SubmitTalks ==
    ASSUME TypeOK, Talk, Submit
    PROVE  Talk'
<1>1. /\ ui.live /\ ui.text # Nothing /\ ui.pending = Nothing
      /\ queue' = Append(queue, Submission(ui.text))
      /\ ui'.live /\ ui'.pending = ui.text /\ ui'.text = ui.text
      /\ reply' = "open"
      /\ UNCHANGED <<forwarded, typed, fate>>
  BY DEF Submit, TypeOK
<1>2. /\ reply = "none" /\ ui.text = typed
      /\ ui.text \notin Accepted
  BY <1>1 DEF Talk, Editor
<1>3. ui.text \in Drafts /\ typed \in Nat
  BY <1>1, SessionLoopAssumption DEF TypeOK, Drafts, Nothing
<1>4. Awaited = {}
  BY <1>1, <1>2 DEF Awaited
<1>5. forwarded = Nothing /\ \A i \in DOMAIN queue : queue[i].kind # "submit"
  BY <1>4 DEF Talk, OneInTransit
<1>6. fate[ui.text] = "none"
  BY <1>1, <1>2, <1>3 DEF Accepted, Talk, Editor, TypeOK
<1>7. Awaited' = {ui.text}
  BY <1>1, <1>2, <1>3, <1>6 DEF Awaited, Drafts
<1>8. /\ queue \in Seq(Commands) /\ Submission(ui.text).draft = ui.text
      /\ Submission(ui.text).kind = "submit"
  BY DEF TypeOK, Commands, Submission
<1>9. \A i \in DOMAIN queue' : queue'[i].kind = "submit" =>
          i = Len(queue) + 1 /\ queue'[i].draft = ui.text
  BY <1>1, <1>5, <1>8
<1>10. OneInTransit'
  BY <1>1, <1>5, <1>7, <1>9 DEF OneInTransit
<1>11. Editor'
  BY <1>1, <1>2, <1>3, <1>6, SessionLoopAssumption DEF Talk, Editor, Accepted, Nothing, TypeOK
<1>12. QED
  BY <1>10, <1>11 DEF Talk

LEMMA RequestTalks ==
    ASSUME TypeOK, Talk, RequestCancellation
    PROVE  Talk'
<1>1. UNCHANGED <<reply, queue, forwarded, typed>> /\ ui.live
  BY DEF RequestCancellation
<1>2. CASE ui' = [ui EXCEPT !.cancel = TRUE] /\ UNCHANGED fate
  <2>1. /\ ui'.live = ui.live /\ ui'.text = ui.text /\ ui'.pending = ui.pending
    BY <1>2 DEF TypeOK
  <2>2. Awaited' = Awaited /\ Accepted' = Accepted
    BY <1>1, <1>2, <2>1 DEF Awaited, Accepted
  <2>3. QED
    BY <1>1, <1>2, <2>1, <2>2 DEF Talk, OneInTransit, Editor
<1>3. CASE /\ ui.pending = Nothing /\ ui.text # Nothing
           /\ ui' = [ui EXCEPT !.cancel = TRUE, !.text = Nothing]
           /\ fate' = Fates({ui.text}, "discarded")
  <2>1. ui'.live = ui.live /\ ui'.text = Nothing /\ ui'.pending = Nothing
    BY <1>3 DEF TypeOK
  <2>2. reply = "none" /\ ui.text = typed /\ ui.text \in Drafts /\ typed \in Nat
    BY <1>3, SessionLoopAssumption DEF Talk, Editor, TypeOK, Drafts, Nothing
  <2>3. /\ fate'[typed] = "discarded"
        /\ \A d \in Drafts : d # typed => fate'[d] = fate[d]
    BY <1>3, <2>2 DEF Fates
  <2>4. Awaited = {}
    BY <1>1, <2>2 DEF Awaited
  <2>5. \A d \in Drafts : d > typed => fate'[d] = "none"
    BY <2>2, <2>3 DEF Talk, Editor, Drafts
  <2>6. OneInTransit'
    BY <1>1, <2>4 DEF Talk, OneInTransit
  <2>7. Nothing \notin Accepted'
    BY SessionLoopAssumption DEF Accepted, Nothing, Drafts
  <2>8. Editor'
    BY <1>1, <2>1, <2>2, <2>3, <2>5, <2>7 DEF Talk, Editor
  <2>9. QED
    BY <2>6, <2>8 DEF Talk
<1>4. QED
  BY <1>2, <1>3 DEF RequestCancellation

View == [live : BOOLEAN, text : 0..MaxDrafts, pending : 0..MaxDrafts,
         cancel : BOOLEAN, busy : BOOLEAN, asked : BOOLEAN]

LEMMA PolledView ==
    ASSUME TypeOK
    PROVE  /\ Polled \in View
           /\ Polled.live = ui.live
           /\ ui.pending = Nothing \/ reply = "open" =>
                Polled.text = ui.text /\ Polled.pending = ui.pending /\ Polled.busy = ui.busy
           /\ ui.pending # Nothing /\ reply = "ok" =>
                /\ Polled.pending = Nothing /\ Polled.busy
                /\ Polled.text = IF ui.text = ui.pending THEN Nothing ELSE ui.text
           /\ ui.pending # Nothing /\ reply \notin {"ok", "open"} =>
                Polled.pending = Nothing /\ Polled.text = ui.text /\ Polled.busy = ui.busy
<1>1. ui \in View
  BY DEF TypeOK, View
<1>2. 0 \in 0..MaxDrafts
  BY SessionLoopAssumption
<1>3. PICK u : u = Answered(ui)
  OBVIOUS
<1>4. Polled = [u EXCEPT !.cancel = @ /\ open /\ ~Room]
  BY <1>3 DEF Polled
<1>5. CASE ui.pending = Nothing \/ reply = "open"
  <2>1. u = ui
    BY <1>3, <1>5 DEF Answered
  <2>2. QED
    BY <1>1, <1>4, <2>1, <1>5 DEF View
<1>6. CASE ui.pending # Nothing /\ reply = "ok"
  <2>1. u = [ui EXCEPT !.pending = Nothing, !.busy = TRUE,
                       !.text = IF @ = ui.pending THEN Nothing ELSE @]
    BY <1>3, <1>6 DEF Answered
  <2>2. /\ u \in View /\ u.live = ui.live /\ u.pending = Nothing /\ u.busy
        /\ u.text = IF ui.text = ui.pending THEN Nothing ELSE ui.text
    BY <1>1, <1>2, <2>1 DEF View, Nothing
  <2>3. QED
    BY <1>4, <2>2, <1>6 DEF View
<1>7. CASE ui.pending # Nothing /\ reply \notin {"ok", "open"}
  <2>1. u = [ui EXCEPT !.pending = Nothing]
    BY <1>3, <1>7 DEF Answered
  <2>2. /\ u \in View /\ u.live = ui.live /\ u.pending = Nothing /\ u.busy = ui.busy
        /\ u.text = ui.text
    BY <1>1, <1>2, <2>1 DEF View, Nothing
  <2>3. QED
    BY <1>4, <2>2, <1>7 DEF View
<1>8. QED
  BY <1>5, <1>6, <1>7

LEMMA ShownView ==
    ASSUME NEW u \in View, NEW e
    PROVE  /\ Shown(u, e) \in View
           /\ Shown(u, e).live = u.live /\ Shown(u, e).text = u.text
           /\ Shown(u, e).pending = u.pending
           /\ Shown(u, e).busy = CASE e = "started" -> TRUE [] e = "finished" -> FALSE
                                   [] OTHER -> u.busy
BY DEF Shown, View

\* A Cancel or a Shutdown that is sent is not a draft.
LEMMA NoDraftSent ==
    ASSUME TypeOK, OneInTransit, UNCHANGED forwarded, Awaited \subseteq Awaited',
           \/ queue' = Append(queue, Cancel) \/ queue' = Append(queue, Shutdown)
           \/ UNCHANGED queue
    PROVE  OneInTransit'
<1>1. queue \in Seq(Commands)
  BY DEF TypeOK, Commands
<1>2. Cancel.kind # "submit" /\ Shutdown.kind # "submit" /\ Cancel \in Commands
      /\ Shutdown \in Commands
  BY DEF Cancel, Shutdown, Commands
<1>3. \A i \in DOMAIN queue' : queue'[i].kind = "submit" =>
          i \in DOMAIN queue /\ queue'[i] = queue[i]
  BY <1>1, <1>2
<1>4. \A i \in DOMAIN queue' : queue'[i].kind = "submit" =>
         /\ queue'[i].draft \in Awaited' /\ forwarded' = Nothing
         /\ \A j \in DOMAIN queue' : queue'[j].kind = "submit" => i = j
  BY <1>3 DEF OneInTransit
<1>5. QED
  BY <1>4 DEF OneInTransit

LEMMA PollTalks ==
    ASSUME TypeOK, Talk, ui.live, PollSends, UNCHANGED <<forwarded, typed, fate>>,
           ui'.live, ui'.text = Polled.text, ui'.pending = Polled.pending
    PROVE  Talk'
<1>1. reply' = IF reply = "open" THEN reply ELSE "none"
  BY DEF PollSends
<1>2. Awaited \subseteq Awaited'
  BY <1>1, PolledView DEF Awaited
<1>3. OneInTransit'
  BY <1>2, NoDraftSent DEF PollSends, Talk
<1>4. Accepted' = Accepted
  BY DEF Accepted
<1>5. CASE ui.pending = Nothing \/ reply = "open"
  <2>1. /\ ui'.pending = ui.pending /\ ui'.text = ui.text
        /\ ui.pending = Nothing => reply = "none"
        /\ reply' = reply
    BY <1>1, <1>5, PolledView DEF Talk, Editor, TypeOK
  <2>2. QED
    BY <1>3, <1>4, <2>1 DEF Talk, Editor
<1>6. CASE ui.pending # Nothing /\ reply = "ok"
  <2>1. /\ ui'.pending = Nothing /\ reply' = "none"
        /\ ui'.text = IF ui.text = ui.pending THEN Nothing ELSE ui.text
    BY <1>1, <1>6, PolledView
  <2>2. ui.text \in Accepted => ui.text = ui.pending
    BY DEF Talk, Editor
  <2>3. Nothing \notin Accepted
    BY SessionLoopAssumption DEF Accepted, Nothing, Drafts
  <2>4. ui.pending \in Accepted
    BY <1>6 DEF Talk, Editor
  <2>5. ui.text = Nothing /\ typed # 0 => fate[typed] # "none"
    BY DEF Talk, Editor
  <2>6. ui.text = ui.pending => fate[typed] # "none"
    BY <1>6, <2>4 DEF Talk, Editor, Accepted
  <2>7. /\ ui.text \in {Nothing, typed} /\ Nothing <= typed
        /\ ui.text # Nothing => fate[ui.text] # "discarded"
        /\ \A d \in Drafts : d > typed => fate[d] = "none"
    BY SessionLoopAssumption DEF Talk, Editor, Nothing, TypeOK
  <2>8. Editor'
    BY <1>4, <2>1, <2>2, <2>3, <2>5, <2>6, <2>7 DEF Editor
  <2>9. QED
    BY <1>3, <2>8 DEF Talk
<1>7. CASE ui.pending # Nothing /\ reply \notin {"ok", "open"}
  <2>1. ui'.pending = Nothing /\ reply' = "none" /\ ui'.text = ui.text
    BY <1>1, <1>7, PolledView
  <2>a. Nothing <= typed
    BY SessionLoopAssumption DEF TypeOK, Nothing
  <2>2. ui.text \notin Accepted
    BY <1>7 DEF Talk, Editor
  <2>3. QED
    BY <1>3, <1>4, <2>1, <2>a, <2>2 DEF Talk, Editor
<1>8. QED
  BY <1>5, <1>6, <1>7

LEMMA QuitTalks ==
    ASSUME TypeOK, Talk, Quit
    PROVE  Talk'
<1>1. /\ ui'.live = FALSE /\ ui'.pending = Nothing /\ ui'.text = ui.text
      /\ reply' = "none" /\ UNCHANGED <<queue, forwarded, typed, fate>> /\ Nothing <= typed
  BY SessionLoopAssumption DEF Quit, TypeOK, Nothing
<1>2. Awaited \subseteq Awaited'
  BY <1>1 DEF Awaited
<1>3. QED
  BY <1>1, <1>2 DEF Talk, Editor, OneInTransit

LEMMA SendShutdownTalks ==
    ASSUME TypeOK, Talk, SendShutdown
    PROVE  Talk'
<1>1. /\ ui'.live = ui.live /\ ui'.pending = ui.pending /\ ui'.text = ui.text /\ ~ui.live
      /\ UNCHANGED <<reply, forwarded, typed, fate>>
  BY DEF SendShutdown, TypeOK
<1>2. Awaited \subseteq Awaited'
  BY <1>1 DEF Awaited
<1>3. OneInTransit'
  BY <1>1, <1>2, NoDraftSent DEF SendShutdown, Talk
<1>4. QED
  BY <1>1, <1>3 DEF Talk, Editor

LEMMA PromisedQuietly ==
    ASSUME TypeOK, NEW f \in {"applied", "dropped", "lost"}, NEW ds,
           ds \subseteq {d \in Drafts : fate[d] \notin {"none", "discarded"}},
           fate' = Fates(ds, f)
    PROVE  Quietly
BY DEF Quietly, Fates

LEMMA ShutdownTimesOutTalks ==
    ASSUME TypeOK, Talk, ShutdownTimesOut
    PROVE  Talk'
<1>1. Promised \subseteq {d \in Drafts : fate[d] \notin {"none", "discarded"}}
  BY DEF Promised
<1>2. /\ UNCHANGED <<ui, typed, reply>> /\ queue' = <<>> /\ forwarded' = Nothing
      /\ fate' = Fates(Promised, "dropped")
  BY DEF ShutdownTimesOut, view
<1>3. Editor'
  BY <1>1, <1>2, PromisedQuietly, EditorKeeps DEF Talk
<1>4. QED
  BY <1>2, <1>3 DEF Talk, OneInTransit

-----------------------------------------------------------------------------
(* The corrections of a turn.                                              *)

Corrections == Prompted /\ Turning /\ CorrectionsApply

Turn == [mode : {"none", "work", "control", "failing"},
         dispatch : {"none", "other", "result"}, steering : Seq(Drafts),
         taken : SUBSET Drafts, interrupting : BOOLEAN, completed : BOOLEAN,
         acked : BOOLEAN]

LEMMA NoTurnFields ==
    /\ NoTurn \in Turn
    /\ NoTurn.mode = "none" /\ NoTurn.dispatch = "none" /\ NoTurn.steering = <<>>
    /\ NoTurn.taken = {} /\ NoTurn.interrupting = FALSE /\ NoTurn.completed = FALSE
    /\ NoTurn.acked = FALSE
BY DEF NoTurn, Turn

LEMMA ModeFields ==
    ASSUME NEW m \in {"none", "work", "control", "failing"}, NEW r,
           r = [NoTurn EXCEPT !.mode = m]
    PROVE  /\ r \in Turn
           /\ r.mode = m /\ r.dispatch = "none" /\ r.steering = <<>>
           /\ r.taken = {} /\ r.interrupting = FALSE /\ r.completed = FALSE
           /\ r.acked = FALSE
BY NoTurnFields DEF Turn

\* Nothing is unapplied in a turn that holds nothing.
LEMMA NothingUnapplied ==
    /\ run.steering = <<>> => Unapplied = run.taken
    /\ (run.steering = <<>>)' => (Unapplied = run.taken)'
BY DEF Unapplied

LEMMA HostMoves ==
    ASSUME TypeOK, Corrections, UNCHANGED <<fate, run, late, native>>,
           \/ UNCHANGED host
           \/ ~At("turn") /\ (At("publishing") => host.event # "started")
    PROVE  Corrections'
BY DEF Corrections, Prompted, Turning, CorrectionsApply, At, Unapplied

\* A turn ends, or does not begin: what was promised is settled.
LEMMA TurnEnds ==
    ASSUME TypeOK, Corrections, NEW f \in {"dropped", "lost"},
           fate' = Fates(Promised, f), run' = NoTurn, UNCHANGED <<late, native>>,
           f = "lost" => At("turn") /\ Unapplied \subseteq late
    PROVE  Corrections'
<1>1. \A d \in Drafts : IF fate[d] \in {"prompt", "queued"} THEN fate'[d] = f
                                                            ELSE fate'[d] = fate[d]
  BY DEF Fates, Promised
<1>2. Prompted'
  BY <1>1 DEF Prompted
<1>3. Unapplied' = {}
  BY NoTurnFields DEF Unapplied
<1>4. Turning'
  BY <1>3, NoTurnFields DEF Turning, NoTurn
<1>5. {d \in Drafts : fate'[d] = "queued"} = {}
  BY <1>1
<1>6. ASSUME NEW d \in Drafts, fate'[d] = "lost" PROVE d \in late
  BY <1>1, <1>6 DEF Corrections, CorrectionsApply, Prompted, At
<1>7. Cardinality({}) <= CorrectionCapacity
  BY FS_EmptySet, SessionLoopAssumption
<1>8. QED
  BY <1>2, <1>3, <1>4, <1>5, <1>6, <1>7 DEF Corrections, CorrectionsApply

\* Some of the corrections that a turn holds are settled, and are no longer held.
LEMMA Settled ==
    ASSUME TypeOK, Corrections, At("turn"), NEW f \in {"applied", "dropped", "lost"},
           fate' = Fates(Unapplied, f), run' \in Turn, run'.steering = <<>>, run'.taken = {},
           run'.mode # "work" => run' = [NoTurn EXCEPT !.mode = run'.mode],
           UNCHANGED <<late, native>>, host'.at = "turn",
           f = "lost" => Unapplied \subseteq late
    PROVE  Corrections'
<1>1. \A d \in Drafts : IF fate[d] = "queued" THEN fate'[d] = f ELSE fate'[d] = fate[d]
  BY DEF Fates, Corrections, CorrectionsApply
<1>2. \A d \in Drafts : fate[d] # "prompt"
  BY DEF Corrections, Prompted, At
<1>3. Prompted'
  BY <1>1, <1>2 DEF Prompted
<1>4. Unapplied' = {}
  BY DEF Unapplied
<1>5. Turning'
  BY <1>4 DEF Turning, At
<1>6. {d \in Drafts : fate'[d] = "queued"} = {}
  BY <1>1
<1>7. ASSUME NEW d \in Drafts, fate'[d] = "lost" PROVE d \in late
  BY <1>1, <1>7 DEF Corrections, CorrectionsApply
<1>8. Cardinality({}) <= CorrectionCapacity
  BY FS_EmptySet, SessionLoopAssumption
<1>9. QED
  BY <1>3, <1>4, <1>5, <1>6, <1>7, <1>8 DEF Corrections, CorrectionsApply

\* A turn goes on with the same corrections.
LEMMA GoesOn ==
    ASSUME TypeOK, Corrections, At("turn"), UNCHANGED <<fate, late, native, host>>,
           Unapplied' = Unapplied,
           run.mode = "work", run'.mode = "work",
           native => run'.steering = <<>>,
           ~native /\ ~run'.interrupting => run'.taken = {},
           ~native /\ ~run'.interrupting /\ run'.dispatch = "result" => Unapplied \subseteq late
    PROVE  Corrections'
BY DEF Corrections, Prompted, Turning, CorrectionsApply, At

LEMMA NobodyCorrects ==
    ASSUME TypeOK, Corrections, UNCHANGED <<fate, run, late, native, host>>
    PROVE  Corrections'
BY HostMoves

\* Discarding a text that the session never had.
LEMMA RequestCorrects ==
    ASSUME TypeOK, Talk, Corrections, RequestCancellation
    PROVE  Corrections'
<1>1. UNCHANGED <<run, late, native, host>>
  BY DEF RequestCancellation, frozen
<1>2. CASE UNCHANGED fate
  BY <1>1, <1>2, HostMoves
<1>3. CASE ui.text # Nothing /\ ui.pending = Nothing /\ fate' = Fates({ui.text}, "discarded")
           /\ ui.live
  <2>1. ui.text \notin Accepted
    BY <1>3 DEF Talk, Editor
  <2>2. \A d \in Drafts : \/ fate'[d] = fate[d]
                          \/ fate[d] \in {"none", "discarded"} /\ fate'[d] = "discarded"
    BY <1>3, <2>1 DEF Fates, Accepted
  <2>3. {d \in Drafts : fate'[d] = "queued"} = {d \in Drafts : fate[d] = "queued"}
        /\ {d \in Drafts : fate'[d] = "lost"} = {d \in Drafts : fate[d] = "lost"}
    BY <2>2
  <2>4. \A d \in Drafts : fate'[d] = "prompt" => fate[d] = "prompt"
    BY <2>2
  <2>5. QED
    BY <1>1, <2>3, <2>4 DEF Corrections, Prompted, Turning, CorrectionsApply, At, Unapplied
<1>4. QED
  BY <1>2, <1>3 DEF RequestCancellation

LEMMA AdmitCorrects ==
    ASSUME TypeOK, Corrections, Talk, AdmitDraft
    PROVE  Corrections'
<1>1. /\ At("idle") /\ UNCHANGED <<run, late, native>>
  BY DEF AdmitDraft, frozen, history
<1>2. CASE UNCHANGED <<host, fate>>
  BY <1>1, <1>2, HostMoves
<1>3. ASSUME NEW d \in Drafts, Take(Submission(d)), Publish("started", d),
             fate' = Fates({d}, "prompt")
      PROVE  Corrections'
  <2>1. fate[d] = "none"
    BY <1>3, NoneLeft DEF AdmitDraft, Awaited
  <2>2. fate'[d] = "prompt" /\ \A e \in Drafts : e # d => fate'[e] = fate[e]
    BY <1>3 DEF Fates
  <2>3. {e \in Drafts : fate'[e] = "queued"} = {e \in Drafts : fate[e] = "queued"}
        /\ {e \in Drafts : fate'[e] = "lost"} = {e \in Drafts : fate[e] = "lost"}
    BY <2>1, <2>2
  <2>4. host'.at = "publishing" /\ host'.event = "started" /\ host'.prompt = d
    BY <1>3 DEF Publish
  <2>5. Prompted'
    BY <1>1, <2>2, <2>4 DEF Prompted, Corrections, At
  <2>6. QED
    BY <1>1, <2>3, <2>4, <2>5 DEF Corrections, Turning, CorrectionsApply, At, Unapplied
<1>4. QED
  BY <1>2, <1>3 DEF AdmitDraft

LEMMA AgentControlCorrects ==
    ASSUME TypeOK, Corrections, Talk, AgentControl
    PROVE  Corrections'
<1>1. UNCHANGED <<host, run, late, native, forwarded>>
  BY DEF AgentControl, frozen, history
<1>2. CASE UNCHANGED fate
  BY <1>1, <1>2, HostMoves
<1>3. ASSUME NEW d \in Drafts, Take(Submission(d)), fate' = Fates({d}, "applied")
      PROVE  Corrections'
  <2>1. fate[d] = "none"
    BY <1>1, <1>3, NoneLeft DEF Awaited
  <2>2. fate'[d] = "applied" /\ \A e \in Drafts : e # d => fate'[e] = fate[e]
    BY <1>3 DEF Fates
  <2>3. {e \in Drafts : fate'[e] = "queued"} = {e \in Drafts : fate[e] = "queued"}
        /\ {e \in Drafts : fate'[e] = "lost"} = {e \in Drafts : fate[e] = "lost"}
        /\ \A e \in Drafts : fate'[e] = "prompt" => fate[e] = "prompt"
    BY <2>1, <2>2
  <2>4. QED
    BY <1>1, <2>3 DEF Corrections, Prompted, Turning, CorrectionsApply, At, Unapplied
<1>4. QED
  BY <1>2, <1>3 DEF AgentControl

LEMMA UnappliedFinite ==
    ASSUME TypeOK
    PROVE  Unapplied \subseteq Drafts /\ IsFiniteSet(Unapplied)
<1>1. Unapplied \subseteq Drafts
  BY DEF TypeOK, Unapplied
<1>2. IsFiniteSet(Drafts)
  BY FS_Interval, SessionLoopAssumption DEF Drafts
<1>3. QED
  BY <1>1, <1>2, FS_Subset

\* A correction is queued only into a slot that is free.
LEMMA RelayCorrects ==
    ASSUME TypeOK, Corrections, Talk, RelayDraft
    PROVE  Corrections'
<1>1. /\ UNCHANGED <<host, native>> /\ At("turn") /\ run.mode = "work"
  BY DEF RelayDraft, frozen, Working
<1>2. CASE UNCHANGED <<run, fate, late>>
  BY <1>1, <1>2, HostMoves
<1>3. ASSUME NEW d \in Drafts, Receives(d), Cardinality(Unapplied) < CorrectionCapacity,
             run' = IF native THEN [run EXCEPT !.taken = @ \union {d}]
                    ELSE [run EXCEPT !.steering = Append(@, d)],
             fate' = Fates({d}, "queued"),
             late' = IF run.dispatch = "result" /\ ~run.interrupting
                     THEN late \union {d} ELSE late
      PROVE  Corrections'
  <2>1. fate[d] = "none"
    BY <1>3, NoneLeft DEF Receives, Awaited
  <2>2. fate'[d] = "queued" /\ \A e \in Drafts : e # d => fate'[e] = fate[e]
    BY <1>3 DEF Fates
  <2>3. {e \in Drafts : fate'[e] = "queued"} = {e \in Drafts : fate[e] = "queued"} \union {d}
        /\ {e \in Drafts : fate'[e] = "lost"} = {e \in Drafts : fate[e] = "lost"}
        /\ \A e \in Drafts : fate'[e] = "prompt" => fate[e] = "prompt"
    BY <2>1, <2>2
  <2>4. /\ run'.mode = "work" /\ run'.dispatch = run.dispatch
        /\ run'.interrupting = run.interrupting
        /\ native => run'.steering = run.steering /\ run'.taken = run.taken \union {d}
        /\ ~native => run'.steering = Append(run.steering, d) /\ run'.taken = run.taken
    BY <1>1, <1>3 DEF TypeOK
  <2>5. Unapplied' = Unapplied \union {d}
    <3>1. CASE native
      BY <2>4, <3>1 DEF Unapplied
    <3>2. CASE ~native
      <4>1. run.steering \in Seq(Drafts)
        BY DEF TypeOK
      <4>2. {run'.steering[i] : i \in DOMAIN run'.steering}
              = {run.steering[i] : i \in DOMAIN run.steering} \union {d}
        BY <2>4, <3>2, <4>1
      <4>3. QED
        BY <2>4, <3>2, <4>2 DEF Unapplied
    <3>3. QED
      BY <3>1, <3>2
  <2>6. Cardinality(Unapplied') <= CorrectionCapacity
    <3>1. CorrectionCapacity \in Nat
      BY SessionLoopAssumption
    <3>2. PICK S : S = Unapplied
      OBVIOUS
    <3>3. IsFiniteSet(S) /\ Cardinality(S) \in Nat
      BY <3>2, UnappliedFinite, FS_CardinalityType
    <3>4. Cardinality(S \union {d}) = Cardinality(S)
          \/ Cardinality(S \union {d}) = Cardinality(S) + 1
      <4>1. IsFiniteSet(S) => Cardinality(S \union {d}) =
               IF d \in S THEN Cardinality(S) ELSE Cardinality(S) + 1
        BY FS_AddElement
      <4>2. QED
        BY <3>3, <4>1
    <3>5. Cardinality(S) < CorrectionCapacity
      BY <1>3, <3>2
    <3>6. IsFiniteSet(S \union {d}) /\ Cardinality(S \union {d}) \in Nat
      BY <3>3, FS_AddElement, FS_CardinalityType
    <3>7. Cardinality(S \union {d}) <= CorrectionCapacity
      BY <3>1, <3>3, <3>4, <3>5, <3>6
    <3>8. QED
      BY <2>5, <3>2, <3>7
  <2>7. Prompted'
    BY <1>1, <2>3 DEF Corrections, Prompted, At
  <2>8. late \subseteq late'
    BY <1>3
  <2>9. Turning'
    <3>1. native => run'.steering = <<>>
      BY <2>4 DEF Corrections, Turning
    <3>2. ~native /\ ~run'.interrupting => run'.taken = {}
      BY <2>4 DEF Corrections, Turning
    <3>3. ~native /\ ~run'.interrupting /\ run'.dispatch = "result" => Unapplied' \subseteq late'
      BY <1>3, <2>4, <2>5, <2>8 DEF Corrections, Turning
    <3>4. QED
      BY <1>1, <2>4, <3>1, <3>2, <3>3 DEF Turning, At
  <2>10. CorrectionsApply'
    <3>1. {e \in Drafts : fate[e] = "queued"} = Unapplied
          /\ {e \in Drafts : fate[e] = "lost"} \subseteq late
      BY DEF Corrections, CorrectionsApply
    <3>2. {e \in Drafts : fate'[e] = "queued"} = Unapplied'
      BY <3>1, <2>3, <2>5
    <3>3. {e \in Drafts : fate'[e] = "lost"} \subseteq late'
      BY <3>1, <2>3, <2>8
    <3>4. QED
      BY <2>6, <3>2, <3>3 DEF CorrectionsApply
  <2>11. QED
    BY <2>7, <2>9, <2>10 DEF Corrections
<1>4. QED
  BY <1>2, <1>3 DEF RelayDraft

LEMMA PublishedCorrects ==
    ASSUME TypeOK, Corrections, Published
    PROVE  Corrections'
<1>1. At("publishing") /\ UNCHANGED <<late, native>>
  BY DEF Published, frozen, history
<1>2. CASE host.event # "started"
  BY <1>1, <1>2, HostMoves DEF Published, At
<1>3. CASE host.event = "started"
  <2>1. /\ fate' = Fates({host.prompt}, "applied")
        /\ host' = [host EXCEPT !.at = "turn", !.event = "none"]
    BY <1>3 DEF Published
  <2>2. PICK m \in {"work", "control"} : run' = [NoTurn EXCEPT !.mode = m]
    BY <1>3 DEF Published
  <2>3. host'.at = "turn"
    BY <2>1 DEF TypeOK
  <2>4. \A e \in Drafts : IF e = host.prompt THEN fate'[e] = "applied" ELSE fate'[e] = fate[e]
    BY <2>1 DEF Fates
  <2>5. \A e \in Drafts : fate[e] = "prompt" => e = host.prompt
    BY DEF Corrections, Prompted
  <2>6. run = NoTurn
    BY <1>1 DEF Corrections, Turning, At
  <2>7. Unapplied = {} /\ Unapplied' = {}
    BY <2>2, <2>6, NoTurnFields, ModeFields DEF Unapplied
  <2>8. Prompted'
    BY <2>4, <2>5 DEF Prompted
  <2>9. /\ run'.mode = m /\ run'.steering = <<>> /\ run'.taken = {}
    BY <2>2, ModeFields
  <2>10. Turning'
    BY <2>2, <2>3, <2>7, <2>9 DEF Turning, At
  <2>11. {e \in Drafts : fate'[e] = "queued"} = {}
    BY <2>4, <2>7 DEF Corrections, CorrectionsApply
  <2>12. {e \in Drafts : fate'[e] = "lost"} \subseteq late
    BY <2>4 DEF Corrections, CorrectionsApply
  <2>13. QED
    BY <1>1, <2>7, <2>8, <2>10, <2>11, <2>12 DEF Corrections, CorrectionsApply
<1>4. QED
  BY <1>2, <1>3

LEMMA PublicationGivenUpCorrects ==
    ASSUME TypeOK, Corrections, PublishCommand \/ PublishEnds
    PROVE  Corrections'
<1>1. At("publishing") /\ UNCHANGED <<run, late, native>>
  BY DEF PublishCommand, PublishEnds, frozen, history
<1>2. run' = NoTurn
  BY <1>1 DEF Corrections, Turning, At
<1>3. CASE fate' = Fates(Promised, "dropped")
  BY <1>1, <1>2, <1>3, TurnEnds
<1>4. CASE UNCHANGED fate /\ host.event # "started"
  BY <1>1, <1>4, HostMoves DEF At
<1>5. QED
  BY <1>3, <1>4 DEF PublishCommand, PublishEnds

\* The turn is left; it is left complete only when what it held came late.
LEMMA LeaveCorrects ==
    ASSUME TypeOK, Corrections, At("turn"),
           NEW end \in {"complete", "cancelled", "shutdown", "failed"}, Leave(end),
           UNCHANGED <<late, native>>,
           end = "complete" => Unapplied \subseteq late
    PROVE  Corrections'
BY TurnEnds DEF Leave

LEMMA EmptyHanded ==
    ASSUME TypeOK, Corrections, run.mode # "work"
    PROVE  Unapplied = {}
<1>1. run = [NoTurn EXCEPT !.mode = run.mode]
  BY DEF Corrections, Turning
<1>2. run.mode \in {"none", "work", "control", "failing"}
  BY DEF TypeOK
<1>3. run.steering = <<>> /\ run.taken = {}
  BY <1>1, <1>2, ModeFields
<1>4. QED
  BY <1>3 DEF Unapplied

\* The work ends.
LEMMA WorkEndsCorrects ==
    ASSUME TypeOK, Corrections, At("turn"), WorkEnds, Unapplied \subseteq late,
           UNCHANGED <<late, native>>
    PROVE  Corrections'
<1>1. CASE Leave("complete")
  BY <1>1, LeaveCorrects
<1>2. CASE /\ run' = [NoTurn EXCEPT !.mode = "control"]
           /\ fate' = Fates(Unapplied, "lost")
           /\ UNCHANGED host
  <2>1. /\ run' \in Turn /\ run'.steering = <<>> /\ run'.taken = {} /\ run'.mode = "control"
    BY <1>2, ModeFields
  <2>2. QED
    BY <1>2, <2>1, Settled DEF At
<1>3. QED
  BY <1>1, <1>2 DEF WorkEnds

LEMMA CommandsCorrect ==
    ASSUME TypeOK, Corrections, TurnCommand \/ FailureCommand \/ TurnFails \/ ControlCompletes
    PROVE  Corrections'
<1>1. At("turn") /\ UNCHANGED <<late, native>>
  BY DEF TurnCommand, FailureCommand, TurnFails, ControlCompletes, frozen, history
<1>2. CASE \E end \in {"cancelled", "shutdown", "failed"} : Leave(end)
  BY <1>1, <1>2, LeaveCorrects
<1>3. CASE ControlCompletes
  <2>1. run.mode # "work" /\ Leave("complete")
    BY <1>3 DEF ControlCompletes
  <2>2. QED
    BY <1>1, <2>1, LeaveCorrects, EmptyHanded
<1>4. QED
  BY <1>2, <1>3 DEF TurnCommand, FailureCommand, TurnFails

LEMMA InterruptCorrects ==
    ASSUME TypeOK, Corrections, Interrupt
    PROVE  Corrections'
<1>1. /\ At("turn") /\ run.mode = "work" /\ ~native
      /\ UNCHANGED <<host, fate, late, native>>
  BY DEF Interrupt, External, Quiet, Working, frozen, history
<1>2. /\ run'.mode = run.mode /\ run'.steering = <<>> /\ run'.taken = Unapplied
      /\ run'.interrupting = TRUE
  BY DEF Interrupt, TypeOK
<1>3. Unapplied' = Unapplied
  BY <1>2, NothingUnapplied
<1>4. QED
  BY <1>1, <1>2, <1>3, GoesOn

LEMMA BackendCorrects ==
    ASSUME TypeOK, Corrections, InterruptAcked \/ BackendMessage
    PROVE  Corrections'
<1>1. /\ At("turn") /\ run.mode = "work" /\ ~native /\ run.steering = <<>>
      /\ UNCHANGED <<host, fate, late, native>>
  BY DEF InterruptAcked, BackendMessage, AtSelect, External, Quiet, Working, frozen, history
<1>2. /\ run'.mode = run.mode /\ run'.steering = run.steering /\ run'.taken = run.taken
      /\ run'.interrupting = run.interrupting
  BY DEF InterruptAcked, BackendMessage, TypeOK
<1>3. Unapplied' = Unapplied
  BY <1>2 DEF Unapplied
<1>4. ~run.interrupting => run.taken = {} /\ Unapplied = {}
  BY <1>1, NothingUnapplied DEF Corrections, Turning
<1>5. QED
  BY <1>1, <1>2, <1>3, <1>4, GoesOn

LEMMA DispatchedCorrects ==
    ASSUME TypeOK, Corrections, Dispatched
    PROVE  Corrections'
<1>1. /\ At("turn") /\ run.mode = "work" /\ ~native
      /\ UNCHANGED <<late, native>>
  BY DEF Dispatched, External, Quiet, Working, frozen, history
<1>2. CASE run.dispatch = "result" /\ ~run.interrupting
  <2>1. Unapplied \subseteq late
    BY <1>1, <1>2 DEF Corrections, Turning
  <2>2. WorkEnds
    BY <1>2 DEF Dispatched
  <2>3. QED
    BY <1>1, <2>1, <2>2, WorkEndsCorrects
<1>3. CASE ~(run.dispatch = "result" /\ ~run.interrupting)
  <2>1. /\ UNCHANGED <<host, fate>>
        /\ run' = [run EXCEPT !.dispatch = "none",
                              !.completed = (@ \/ run.dispatch = "result")]
    BY <1>3 DEF Dispatched
  <2>2. /\ run'.mode = run.mode /\ run'.steering = run.steering /\ run'.taken = run.taken
        /\ run'.interrupting = run.interrupting /\ run'.dispatch = "none"
    BY <2>1 DEF TypeOK
  <2>3. Unapplied' = Unapplied
    BY <2>2 DEF Unapplied
  <2>4. QED
    BY <1>1, <2>1, <2>2, <2>3, GoesOn DEF Corrections, Turning
<1>4. QED
  BY <1>2, <1>3

LEMMA SettlingCorrects ==
    ASSUME TypeOK, Corrections, Resubmit \/ NativeBoundary \/ ProviderFails
    PROVE  Corrections'
<1>1. /\ At("turn") /\ run.mode = "work" /\ UNCHANGED <<host, late, native>>
  BY DEF Resubmit, NativeBoundary, ProviderFails, AtSelect, External, Quiet, Working, frozen,
     history
<1>2. run.steering = <<>>
  BY DEF Resubmit, NativeBoundary, ProviderFails, AtSelect, Corrections, Turning
<1>3. Unapplied = run.taken
  BY <1>2, NothingUnapplied
<1>4. fate' = Fates(Unapplied, "applied") \/ fate' = Fates(Unapplied, "dropped")
  BY <1>3 DEF Resubmit, NativeBoundary, ProviderFails
<1>5. CASE \E m \in {"work", "failing"} : run' = [NoTurn EXCEPT !.mode = m]
  <2>1. PICK m \in {"work", "failing"} : run' = [NoTurn EXCEPT !.mode = m]
    BY <1>5
  <2>2. run' \in Turn /\ run'.mode = m /\ run'.steering = <<>> /\ run'.taken = {}
    BY <2>1, ModeFields
  <2>3. QED
    BY <1>1, <1>4, <2>1, <2>2, Settled DEF At
<1>6. CASE run' = [run EXCEPT !.taken = {}]
  <2>1. run' \in Turn /\ run'.mode = "work" /\ run'.steering = <<>> /\ run'.taken = {}
    BY <1>1, <1>2, <1>6 DEF TypeOK, Turn
  <2>2. QED
    BY <1>1, <1>4, <2>1, Settled DEF At
<1>7. QED
  BY <1>5, <1>6 DEF Resubmit, NativeBoundary, ProviderFails

LEMMA NativeCompletesCorrects ==
    ASSUME TypeOK, Corrections, NativeCompletes
    PROVE  Corrections'
<1>1. /\ At("turn") /\ native /\ run.taken = {} /\ WorkEnds /\ UNCHANGED <<late, native>>
  BY DEF NativeCompletes, Working, frozen, history
<1>2. Unapplied = {}
  BY <1>1, NothingUnapplied DEF Corrections, Turning
<1>3. QED
  BY <1>1, <1>2, WorkEndsCorrects

LEMMA WorkFollowsCorrects ==
    ASSUME TypeOK, Corrections, WorkFollows
    PROVE  Corrections'
<1>1. /\ At("turn") /\ run.mode = "control" /\ UNCHANGED <<host, fate, late, native>>
      /\ run' = [NoTurn EXCEPT !.mode = "work"]
  BY DEF WorkFollows, frozen, history
<1>2. Unapplied = {}
  BY <1>1, EmptyHanded
<1>3. /\ run'.mode = "work" /\ run'.steering = <<>> /\ run'.taken = {}
  BY <1>1, ModeFields
<1>4. Unapplied' = {}
  BY <1>3, NothingUnapplied
<1>5. QED
  BY <1>1, <1>2, <1>3, <1>4 DEF Corrections, Prompted, Turning, CorrectionsApply, At

-----------------------------------------------------------------------------
(* What the terminal shows.                                                *)

LEMMA AppendedEvents ==
    ASSUME NEW s \in Seq(Publications \union {"other"}), NEW e \in Publications \union {"other"},
           NEW b
    PROVE  /\ e = "started" => Works(Append(s, e), b)
           /\ e = "finished" => Rests(Append(s, e), b)
           /\ e # "finished" /\ Works(s, b) => Works(Append(s, e), b)
           /\ e # "started" /\ Rests(s, b) => Rests(Append(s, e), b)
<1>1. /\ DOMAIN s = 1..Len(s) /\ Len(s) \in Nat
      /\ DOMAIN Append(s, e) = 1..(Len(s) + 1)
      /\ Append(s, e)[Len(s) + 1] = e
      /\ \A i \in 1..Len(s) : Append(s, e)[i] = s[i]
  OBVIOUS
<1>2. PICK t : t = Append(s, e)
  OBVIOUS
<1>3. e = "started" => Works(t, b)
  BY <1>1, <1>2 DEF Works
<1>4. e = "finished" => Rests(t, b)
  BY <1>1, <1>2 DEF Rests
<1>5. e # "finished" /\ Works(s, b) => Works(t, b)
  BY <1>1, <1>2 DEF Works
<1>6. e # "started" /\ Rests(s, b) => Rests(t, b)
  BY <1>1, <1>2 DEF Rests
<1>7. QED
  BY <1>2, <1>3, <1>4, <1>5, <1>6

\* What is shown of the head is what was to be shown before.
LEMMA ShownEvents ==
    ASSUME NEW s \in Seq(Publications \union {"other"}), s # <<>>, NEW b \in BOOLEAN,
           NEW c \in BOOLEAN,
           c = CASE Head(s) = "started" -> TRUE [] Head(s) = "finished" -> FALSE [] OTHER -> b
    PROVE  /\ Works(s, b) => Works(Tail(s), c)
           /\ Rests(s, b) => Rests(Tail(s), c)
<1>1. /\ DOMAIN s = 1..Len(s) /\ Len(s) \in Nat \ {0} /\ Head(s) = s[1]
      /\ DOMAIN Tail(s) = 1..(Len(s) - 1)
      /\ \A i \in 1..(Len(s) - 1) : Tail(s)[i] = s[i + 1]
  OBVIOUS
<1>2. PICK t : t = Tail(s)
  OBVIOUS
<1>3. \A i \in 2..Len(s) : i - 1 \in DOMAIN t /\ s[i] = t[i - 1]
  BY <1>1, <1>2
<1>4. \A i \in DOMAIN t : i \in Nat \ {0} /\ i + 1 \in DOMAIN s /\ t[i] = s[i + 1]
  BY <1>1, <1>2
<1>5. Works(s, b) => Works(t, c)
  BY <1>1, <1>3, <1>4 DEF Works
<1>6. Rests(s, b) => Rests(t, c)
  BY <1>1, <1>3, <1>4 DEF Rests
<1>7. QED
  BY <1>2, <1>5, <1>6

\* Nothing new is shown, and the host does not come to a place that promises more.
LEMMA ShowsKeeps ==
    ASSUME TypeOK, Shows, UNCHANGED events, ui'.live => ui.live,
           Between' => Between /\ (WillBeBusy' = WillBeBusy),
           At("turn")' => At("turn") /\ (WillBeBusy => WillBeBusy')
    PROVE  Shows'
<1>1. ASSUME ui'.live, Between' PROVE Rests(events', WillBeBusy')
  BY <1>1 DEF Shows
<1>2. ASSUME ui'.live, At("turn")' PROVE Works(events', WillBeBusy')
  BY <1>2 DEF Shows, Works
<1>3. QED
  BY <1>1, <1>2 DEF Shows

LEMMA BusySame ==
    ASSUME TypeOK, ui'.busy = ui.busy,
           \/ UNCHANGED reply \/ Answer("no") \/ Answer("closed")
           \/ (reply = "none" /\ reply' = "open")
    PROVE  WillBeBusy' = WillBeBusy
BY DEF WillBeBusy, Answer

\* The host stays, or goes where nothing has to be shown.
LEMMA HostStays ==
    ASSUME TypeOK, Shows, UNCHANGED <<events, host>>, ui'.live => ui.live, ui'.busy = ui.busy,
           \/ UNCHANGED reply \/ Answer("no") \/ Answer("closed")
           \/ (reply = "none" /\ reply' = "open")
    PROVE  Shows'
BY BusySame, ShowsKeeps DEF Between, At

LEMMA HostGoesOff ==
    ASSUME TypeOK, UNCHANGED events, ~Between', host'.at # "turn"
    PROVE  Shows'
BY DEF Shows, At

LEMMA HostGoesOn ==
    ASSUME TypeOK, Shows, UNCHANGED <<events, ui>>, Between, host'.at # "turn",
           UNCHANGED reply \/ Answer("no")
    PROVE  Shows'
BY BusySame, ShowsKeeps DEF At

LEMMA LeavesOff ==
    ASSUME NEW end, Leave(end)
    PROVE  ~Between' /\ host'.at # "turn"
BY DEF Leave, Between, Publish, Wait, StopThen

LEMMA ViewShows ==
    ASSUME TypeOK, Talk, Shows, TypeText \/ Submit \/ RequestCancellation
    PROVE  Shows'
<1>1. /\ UNCHANGED <<events, host>> /\ ui'.live = ui.live /\ ui'.busy = ui.busy
  <2>1. CASE TypeText
    BY <2>1 DEF TypeText, TypeOK
  <2>2. CASE Submit
    BY <2>2 DEF Submit, TypeOK
  <2>3. CASE RequestCancellation
    BY <2>3 DEF RequestCancellation, TypeOK
  <2>4. QED
    BY <2>1, <2>2, <2>3
<1>2. UNCHANGED reply \/ (reply = "none" /\ reply' = "open")
  <2>1. CASE Submit
    BY <2>1 DEF Submit, Talk, Editor
  <2>2. CASE TypeText \/ RequestCancellation
    BY <2>2 DEF TypeText, RequestCancellation
  <2>3. QED
    BY <2>1, <2>2
<1>3. QED
  BY <1>1, <1>2, HostStays

LEMMA PolledBusy ==
    ASSUME TypeOK, Talk, PollSends
    PROVE  Polled.busy \in BOOLEAN /\ ((Polled.busy \/ reply' = "ok") <=> WillBeBusy)
           /\ reply' # "ok"
<1>1. reply' = IF reply = "open" THEN reply ELSE "none"
  BY DEF PollSends
<1>2. Polled.busy \in BOOLEAN
  BY PolledView DEF View
<1>3. ui.pending = Nothing => reply = "none"
  BY DEF Talk, Editor, TypeOK
<1>4. Polled.busy <=> WillBeBusy
  BY <1>3, PolledView DEF WillBeBusy, TypeOK
<1>5. QED
  BY <1>1, <1>2, <1>4

LEMMA PollShows ==
    ASSUME TypeOK, Talk, Shows, Poll
    PROVE  Shows'
<1>1. /\ UNCHANGED <<events, host>> /\ ui' = Polled /\ PollSends
  BY DEF Poll
<1>2. ui'.live = ui.live
  BY <1>1, PolledView
<1>3. WillBeBusy' <=> WillBeBusy
  BY <1>1, PolledBusy DEF WillBeBusy
<1>4. WillBeBusy' = WillBeBusy
  BY <1>3, PolledBusy, <1>1 DEF WillBeBusy, TypeOK
<1>5. QED
  BY <1>1, <1>2, <1>4, ShowsKeeps DEF Between, At

LEMMA NextEventShows ==
    ASSUME TypeOK, Talk, Shows, NextEvent
    PROVE  Shows'
<1>1. /\ ui.live /\ events # <<>> /\ ui' = Shown(Polled, Head(events)) /\ PollSends
      /\ events' = Tail(events) /\ UNCHANGED host
  BY DEF NextEvent
<1>2. /\ ui'.live /\ ui'.busy = CASE Head(events) = "started" -> TRUE
                                  [] Head(events) = "finished" -> FALSE [] OTHER -> Polled.busy
  BY <1>1, PolledView, ShownView
<1>3. reply' # "ok" /\ Polled.busy \in BOOLEAN /\ (Polled.busy <=> WillBeBusy)
  BY <1>1, PolledBusy
<1>4. PICK b \in BOOLEAN : b = Polled.busy
  BY <1>3
<1>5. PICK c \in BOOLEAN : c = CASE Head(events) = "started" -> TRUE
                                 [] Head(events) = "finished" -> FALSE [] OTHER -> b
  BY <1>4
<1>6. /\ Works(events, b) => Works(events', c)
      /\ Rests(events, b) => Rests(events', c)
  BY <1>1, <1>5, ShownEvents DEF TypeOK
<1>7. (WillBeBusy <=> b) /\ (WillBeBusy' <=> c)
  BY <1>2, <1>3, <1>4, <1>5 DEF WillBeBusy
<1>8. /\ Works(events, WillBeBusy) => Works(events, b)
      /\ Rests(events, WillBeBusy) => Rests(events, b)
  BY <1>7 DEF Works, Rests
<1>9. /\ Works(events', c) => Works(events', WillBeBusy')
      /\ Rests(events', c) => Rests(events', WillBeBusy')
  BY <1>7 DEF Works, Rests
<1>10. Between' = Between /\ (At("turn"))' = At("turn")
  BY <1>1 DEF Between, At
<1>11. QED
  BY <1>1, <1>6, <1>8, <1>9, <1>10 DEF Shows

LEMMA GoneShows ==
    ASSUME TypeOK, Quit \/ SendShutdown \/ ShutdownTimesOut
    PROVE  Shows'
<1>1. CASE Quit
  BY <1>1 DEF Quit, TypeOK, Shows
<1>2. CASE SendShutdown
  BY <1>2 DEF SendShutdown, TypeOK, Shows
<1>3. CASE ShutdownTimesOut
  BY <1>3 DEF ShutdownTimesOut, view, Shows
<1>4. QED
  BY <1>1, <1>2, <1>3

LEMMA PublishedShows ==
    ASSUME TypeOK, Shows, Publishing, Published
    PROVE  Shows'
<1>1. /\ events' = Append(events, host.event) /\ At("publishing") /\ UNCHANGED <<ui, reply>>
      /\ host.event \in Publications /\ events \in Seq(Publications \union {"other"})
  BY DEF Published, view, TypeOK
<1>2. WillBeBusy' = WillBeBusy
  BY <1>1 DEF WillBeBusy
<1>3. CASE host.event = "started"
  <2>1. host'.at = "turn"
    BY <1>3 DEF Published, TypeOK
  <2>2. Works(events', WillBeBusy')
    BY <1>1, <1>3, AppendedEvents
  <2>3. QED
    BY <2>1, <2>2 DEF Shows, Between
<1>4. CASE host.event # "started"
  <2>a. host.event \in {"ready", "initial", "error", "finished"}
    BY <1>1, <1>4 DEF Publishing, Publications
  <2>1. host'.at # "turn"
    BY <1>4, <2>a DEF Published, Wait, Publish
  <2>2. CASE host.event = "finished"
    <3>1. Rests(events', WillBeBusy')
      BY <1>1, <2>2, AppendedEvents
    <3>2. QED
      BY <2>1, <3>1 DEF Shows, At
  <2>3. CASE host.event \in {"ready", "initial"}
    <3>1. Between
      BY <1>1, <2>3 DEF Between, At
    <3>2. ui.live => Rests(events, WillBeBusy)
      BY <3>1 DEF Shows
    <3>3. ui.live => Rests(events', WillBeBusy')
      BY <1>1, <1>2, <1>4, <3>2, AppendedEvents
    <3>4. QED
      BY <1>1, <2>1, <3>3 DEF Shows, At
  <2>4. CASE host.event = "error"
    <3>1. ~Between'
      BY <2>4 DEF Published, Between, Publish
    <3>2. QED
      BY <2>1, <3>1 DEF Shows, At
  <2>5. QED
    BY <2>a, <2>2, <2>3, <2>4
<1>5. QED
  BY <1>3, <1>4

\* An answer in a turn only says once more that there is one.
LEMMA AnsweredInTurnShows ==
    ASSUME TypeOK, Shows, At("turn"), UNCHANGED <<ui, events, host>>,
           \E a \in {"ok", "no"} : Answer(a)
    PROVE  Shows'
<1>1. WillBeBusy => WillBeBusy'
  BY DEF WillBeBusy, Answer
<1>2. QED
  BY <1>1, ShowsKeeps DEF At, Between

LEMMA DispatchedShows ==
    ASSUME TypeOK, Shows, Dispatched
    PROVE  Shows'
<1>1. At("turn") /\ UNCHANGED ui /\ events \in Seq(Publications \union {"other"})
  BY DEF Dispatched, External, Quiet, Working, view, TypeOK
<1>2. CASE ~Between' /\ host'.at # "turn"
  BY <1>2 DEF Shows, At
<1>3. CASE UNCHANGED <<host, reply>>
  <2>1. WillBeBusy' = WillBeBusy /\ ~Between'
    BY <1>1, <1>3 DEF WillBeBusy, Between, At
  <2>2. events' = events \/ events' = Append(events, "other")
    BY DEF Dispatched
  <2>3. Works(events, WillBeBusy) => Works(events', WillBeBusy')
    BY <1>1, <2>1, <2>2, AppendedEvents
  <2>4. QED
    BY <1>1, <2>1, <2>3 DEF Shows
<1>4. QED
  BY <1>2, <1>3, LeavesOff DEF Dispatched, WorkEnds

LEMMA NativeCompletesShows ==
    ASSUME TypeOK, Shows, NativeCompletes
    PROVE  Shows'
<1>1. UNCHANGED <<ui, events>>
  BY DEF NativeCompletes, view
<1>2. CASE UNCHANGED <<host, reply>>
  BY <1>1, <1>2, HostStays
<1>3. CASE Leave("complete")
  BY <1>1, <1>3, LeavesOff, HostGoesOff
<1>4. QED
  BY <1>2, <1>3 DEF NativeCompletes, WorkEnds

-----------------------------------------------------------------------------
(* Types.                                                                  *)

Replies == {"none", "open", "ok", "no", "closed"}
Queues == {q \in Seq(Commands) : Len(q) <= CommandCapacity}
EventQueues == {s \in Seq(Publications \union {"other"}) : Len(s) <= EventCapacity}
Station == [at : Places, event : Publications, prompt : 0..MaxDrafts]
Observing == {"none", "running", "ready"}
Fortunes == {"none", "discarded", "prompt", "queued", "applied", "dropped", "lost"}

Typed ==
    /\ ui \in View /\ reply \in Replies /\ queue \in Queues /\ open \in BOOLEAN
    /\ forwarded \in 0..MaxDrafts /\ events \in EventQueues /\ host \in Station /\ run \in Turn
    /\ background \in Observing /\ agents \in BOOLEAN /\ native \in BOOLEAN
    /\ typed \in 0..MaxDrafts /\ escapes \in 0..MaxCancels
    /\ fate \in [Drafts -> Fortunes] /\ late \subseteq Drafts /\ excused \in BOOLEAN

LEMMA TypedIsTypeOK == (TypeOK <=> Typed) /\ (TypeOK' <=> Typed')
<1>1. TypeOK <=> Typed
  BY DEF TypeOK, Typed, View, Replies, Queues, Commands, EventQueues, Station, Turn, Observing,
     Fortunes
<1>2. TypeOK' <=> Typed'
  BY DEF TypeOK, Typed, View, Replies, Queues, Commands, EventQueues, Station, Turn, Observing,
     Fortunes
<1>3. QED
  BY <1>1, <1>2

LEMMA HostTyped ==
    ASSUME NEW e \in Publications, NEW p \in 0..MaxDrafts,
           \/ Publish(e, p) \/ StopThen(e) \/ \E place \in Places : Wait(place)
    PROVE  host' \in Station
<1>1. Nothing \in 0..MaxDrafts /\ "none" \in Publications
      /\ {"publishing", "stopping"} \subseteq Places
  BY SessionLoopAssumption DEF Nothing, Places, Publications
<1>2. CASE Publish(e, p)
  BY <1>1, <1>2 DEF Publish, Station
<1>3. CASE StopThen(e)
  BY <1>1, <1>3 DEF StopThen, Station
<1>4. CASE \E place \in Places : Wait(place)
  BY <1>1, <1>4 DEF Wait, Station
<1>5. QED
  BY <1>2, <1>3, <1>4

LEMMA FatesTyped ==
    ASSUME Typed, NEW ds, NEW f \in Fortunes
    PROVE  Fates(ds, f) \in [Drafts -> Fortunes]
BY DEF Typed, Fates

LEMMA TakenTyped ==
    ASSUME Typed, NEW c, Take(c)
    PROVE  queue' \in Queues
<1>1. queue' \in Seq(Commands) /\ Len(queue') = Len(queue) - 1 /\ Len(queue) \in Nat
  BY TypedIsTypeOK, TakenElement
<1>2. Len(queue) <= CommandCapacity /\ CommandCapacity \in Nat
  BY SessionLoopAssumption DEF Typed, Queues
<1>3. QED
  BY <1>1, <1>2 DEF Queues

LEMMA AnswerTyped ==
    ASSUME Typed, NEW a \in Replies, Answer(a)
    PROVE  reply' \in Replies
BY DEF Typed, Answer

LEMMA EmptyTyped == <<>> \in Queues /\ <<>> \in EventQueues /\ Nothing \in 0..MaxDrafts
BY SessionLoopAssumption DEF Queues, EventQueues, Nothing

LEMMA LeaveTyped ==
    ASSUME Typed, NEW end \in {"complete", "shutdown", "cancelled", "failed"}, Leave(end)
    PROVE  /\ run' \in Turn /\ forwarded' \in 0..MaxDrafts /\ reply' \in Replies
           /\ fate' \in [Drafts -> Fortunes] /\ host' \in Station
<1>1. run' \in Turn
  BY NoTurnFields DEF Leave
<1>2. forwarded' \in 0..MaxDrafts /\ reply' \in Replies
  BY EmptyTyped DEF Leave, Typed, Replies
<1>3. fate' \in [Drafts -> Fortunes]
  BY FatesTyped DEF Leave, Fortunes
<1>4. CASE \E e \in {"finished", "error"} : Publish(e, Nothing)
  BY <1>1, <1>2, <1>3, <1>4, HostTyped, EmptyTyped DEF Publications
<1>5. CASE Wait("ending") \/ StopThen("finished")
  BY <1>1, <1>2, <1>3, <1>5, HostTyped, EmptyTyped DEF Publications, Places
<1>6. CASE host' = [at |-> "joining", prompt |-> Nothing,
                    event |-> IF end = "failed" THEN "error" ELSE "cancelled"]
  BY <1>1, <1>2, <1>3, <1>6, EmptyTyped DEF Station, Publications, Places
<1>7. QED
  BY <1>4, <1>5, <1>6 DEF Leave

LEMMA TerminalTyped ==
    ASSUME Typed, TypeText \/ Submit \/ RequestCancellation \/ Quit \/ SendShutdown
                  \/ ShutdownTimesOut
    PROVE  Typed'
<1>1. CASE TypeText
  <2>1. typed' \in 0..MaxDrafts
    BY <1>1, SessionLoopAssumption DEF TypeText, Typed
  <2>2. ui' \in View
    BY <1>1, <2>1 DEF TypeText, Typed, View
  <2>3. QED
    BY <1>1, <2>1, <2>2 DEF TypeText, Typed, frozen, history
<1>2. CASE Submit
  <2>a. ui.text \in 0..MaxDrafts
    BY DEF Typed, View
  <2>b. ui.text \in Drafts
    BY <1>2, <2>a, SessionLoopAssumption DEF Submit, Drafts, Nothing
  <2>1. ui' \in View /\ ui.text \in Drafts
    BY <1>2, <2>a, <2>b DEF Submit, Typed, View
  <2>2. Submission(ui.text) \in Commands
    BY <2>1 DEF Commands
  <2>3. queue' \in Queues
    BY <1>2, <2>2, SessionLoopAssumption DEF Submit, Typed, Queues, Room
  <2>4. QED
    BY <1>2, <2>1, <2>3 DEF Submit, Typed, frozen, history, Replies
<1>3. CASE RequestCancellation
  <2>1. escapes' \in 0..MaxCancels
    BY <1>3, SessionLoopAssumption DEF RequestCancellation, Typed
  <2>2. ui' \in View
    BY <1>3, EmptyTyped DEF RequestCancellation, Typed, View
  <2>3. fate' \in [Drafts -> Fortunes]
    BY <1>3, FatesTyped DEF RequestCancellation, Fortunes, Typed
  <2>4. excused' \in BOOLEAN
    BY <1>3 DEF RequestCancellation
  <2>5. QED
    BY <1>3, <2>1, <2>2, <2>3, <2>4 DEF RequestCancellation, Typed, frozen
<1>4. CASE Quit
  <2>1. ui' \in View
    BY <1>4, EmptyTyped DEF Quit, Typed, View
  <2>2. QED
    BY <1>4, <2>1, EmptyTyped DEF Quit, Typed, frozen, history, Replies
<1>5. CASE SendShutdown
  <2>1. ui' \in View
    BY <1>5 DEF SendShutdown, Typed, View
  <2>2. queue' \in Queues
    BY <1>5, SessionLoopAssumption DEF SendShutdown, Typed, Queues, Room, Commands
  <2>3. QED
    BY <1>5, <2>1, <2>2 DEF SendShutdown, Typed, frozen, history
<1>6. CASE ShutdownTimesOut
  <2>1. host' \in Station
    BY <1>6, EmptyTyped DEF ShutdownTimesOut, Station, Places, Publications
  <2>2. fate' \in [Drafts -> Fortunes] /\ run' \in Turn
    BY <1>6, FatesTyped, NoTurnFields DEF ShutdownTimesOut, Fortunes
  <2>3. QED
    BY <1>6, <2>1, <2>2, EmptyTyped DEF ShutdownTimesOut, Typed, frozen, history, view, Observing
<1>7. QED
  BY <1>1, <1>2, <1>3, <1>4, <1>5, <1>6

LEMMA PollTyped ==
    ASSUME Typed, Poll \/ NextEvent
    PROVE  Typed'
<1>1. Polled \in View
  BY PolledView, TypedIsTypeOK
<1>2. PollSends
  BY DEF Poll, NextEvent
<1>3. reply' \in Replies
  BY <1>2 DEF PollSends, Typed, Replies
<1>4. queue' \in Queues
  BY <1>2, SessionLoopAssumption DEF PollSends, Typed, Queues, Room, Commands
<1>5. CASE Poll
  BY <1>1, <1>3, <1>4, <1>5 DEF Poll, Typed, frozen, history
<1>6. CASE NextEvent
  <2>1. ui' \in View
    BY <1>1, <1>6, ShownView DEF NextEvent
  <2>2. events' \in EventQueues
    BY <1>6, SessionLoopAssumption DEF NextEvent, Typed, EventQueues
  <2>3. QED
    BY <1>3, <1>4, <1>6, <2>1, <2>2 DEF NextEvent, Typed, frozen, history
<1>7. QED
  BY <1>5, <1>6

LEMMA DrainTyped ==
    ASSUME Typed, IF Queued("submit") THEN Answer("no") ELSE UNCHANGED reply
    PROVE  reply' \in Replies
BY AnswerTyped DEF Typed, Replies

\* What the host does between turns.
LEMMA HostActionsTyped ==
    ASSUME Typed,
           \/ Started \/ StartCommand \/ StartDrained \/ PublishCommand \/ PublishEnds
           \/ Joined \/ Stopped \/ StopFails \/ RefuseDraft \/ AdmitDraft \/ AdmissionFails
           \/ IdleCommand \/ ObserverTurn \/ Forward \/ AgentControl \/ ParentRefuses
           \/ CloseCommands \/ Close
    PROVE  Typed'
<1>1. /\ host.event \in Publications /\ Nothing \in 0..MaxDrafts
      /\ {"ready", "initial", "started", "error", "finished", "cancelled", "none"}
           \subseteq Publications
      /\ {"startCancelled", "ending", "idle", "closing", "ended"} \subseteq Places
      /\ {"ok", "no"} \subseteq Replies
      /\ {"applied", "dropped", "prompt"} \subseteq Fortunes /\ "none" \in Observing
      /\ Drafts \subseteq 0..MaxDrafts
  BY SessionLoopAssumption
     DEF Typed, Station, Nothing, Publications, Places, Replies, Fortunes, Observing, Drafts
<1>2. CASE Started \/ StopFails \/ ObserverTurn
  BY <1>1, <1>2, HostTyped DEF Started, StopFails, ObserverTurn, Typed, view, frozen, history
<1>3. CASE StartCommand \/ IdleCommand
  <2>1. host' \in Station
    BY <1>1, <1>3, HostTyped DEF StartCommand, IdleCommand
  <2>2. queue' \in Queues
    BY <1>3, TakenTyped DEF StartCommand, IdleCommand
  <2>3. QED
    BY <1>3, <2>1, <2>2 DEF StartCommand, IdleCommand, Typed, view, frozen, history
<1>4. CASE StartDrained
  <2>1. host' \in Station
    BY <1>1, <1>4, HostTyped DEF StartDrained
  <2>2. QED
    BY <1>1, <1>4, <2>1, DrainTyped, EmptyTyped DEF StartDrained, Typed, view, frozen, history
<1>5. CASE PublishCommand
  <2>1. host' \in Station
    BY <1>1, <1>5, HostTyped DEF PublishCommand
  <2>2. fate' \in [Drafts -> Fortunes] /\ queue' \in Queues
    BY <1>1, <1>5, FatesTyped, TakenTyped DEF PublishCommand, Typed
  <2>3. QED
    BY <1>5, <2>1, <2>2 DEF PublishCommand, Typed, view, frozen, history
<1>6. CASE PublishEnds
  <2>1. host' \in Station /\ fate' \in [Drafts -> Fortunes]
    BY <1>1, <1>6, HostTyped, FatesTyped DEF PublishEnds
  <2>2. QED
    BY <1>6, <2>1 DEF PublishEnds, Typed, view, frozen, history
<1>7. CASE Joined
  <2>1. host' \in Station
    BY <1>1, <1>7, HostTyped DEF Joined
  <2>2. background' \in Observing /\ excused' \in BOOLEAN
    BY <1>1, <1>7 DEF Joined, Typed
  <2>3. QED
    BY <1>7, <2>1, <2>2 DEF Joined, Typed, view, frozen, history
<1>8. CASE Stopped
  <2>1. host' \in Station
    BY <1>1, <1>8, HostTyped DEF Stopped
  <2>2. QED
    BY <1>1, <1>8, <2>1 DEF Stopped, Typed, view, frozen, history
<1>9. CASE RefuseDraft \/ AdmissionFails
  <2>1. queue' \in Queues /\ reply' \in Replies
    BY <1>1, <1>9, TakenTyped, AnswerTyped DEF RefuseDraft, AdmissionFails
  <2>2. QED
    BY <1>9, <2>1 DEF RefuseDraft, AdmissionFails, Typed, view, frozen, history
<1>10. CASE AdmitDraft
  <2>1. queue' \in Queues /\ reply' \in Replies
    BY <1>1, <1>10, TakenTyped, AnswerTyped DEF AdmitDraft
  <2>2. host' \in Station /\ fate' \in [Drafts -> Fortunes]
    BY <1>1, <1>10, HostTyped, FatesTyped DEF AdmitDraft, Typed
  <2>3. QED
    BY <1>10, <2>1, <2>2 DEF AdmitDraft, Typed, view, frozen, history
<1>11. CASE Forward
  <2>1. queue' \in Queues /\ forwarded' \in 0..MaxDrafts
    BY <1>1, <1>11, TakenTyped DEF Forward
  <2>2. QED
    BY <1>11, <2>1 DEF Forward, Typed, view, frozen, history
<1>12. CASE AgentControl
  <2>1. queue' \in Queues /\ reply' \in Replies /\ fate' \in [Drafts -> Fortunes]
    BY <1>1, <1>12, TakenTyped, AnswerTyped, FatesTyped DEF AgentControl, Typed
  <2>2. QED
    BY <1>12, <2>1 DEF AgentControl, Typed, view, frozen, history
<1>13. CASE ParentRefuses
  <2>1. queue' \in Queues /\ reply' \in Replies /\ forwarded' \in 0..MaxDrafts
    BY <1>1, <1>13, TakenTyped, AnswerTyped DEF ParentRefuses, Receives, Typed
  <2>2. QED
    BY <1>13, <2>1 DEF ParentRefuses, Typed, view, frozen, history
<1>14. CASE CloseCommands
  <2>1. host' \in Station /\ reply' \in Replies
    BY <1>1, <1>14, HostTyped, DrainTyped DEF CloseCommands
  <2>2. QED
    BY <1>14, <2>1, EmptyTyped DEF CloseCommands, Typed, view, frozen, history
<1>15. CASE Close
  <2>1. host' \in Station
    BY <1>1, <1>15, HostTyped DEF Close
  <2>2. QED
    BY <1>1, <1>15, <2>1 DEF Close, Typed, view, frozen, history
<1>16. QED
  BY <1>2, <1>3, <1>4, <1>5, <1>6, <1>7, <1>8, <1>9, <1>10, <1>11, <1>12, <1>13, <1>14, <1>15

LEMMA PublishedTyped ==
    ASSUME Typed, Published
    PROVE  Typed'
<1>1. host.event \in Publications /\ Nothing \in 0..MaxDrafts
      /\ {"initial", "finished", "none"} \subseteq Publications
      /\ {"idle", "turn"} \subseteq Places
  BY EmptyTyped DEF Typed, Station, Publications, Places
<1>2. events' \in EventQueues
  BY <1>1, SessionLoopAssumption DEF Published, EventRoom, EventQueues, Typed
<1>3. host' \in Station
  <2>1. CASE host' = [host EXCEPT !.at = "turn", !.event = "none"]
    BY <1>1, <2>1 DEF Typed, Station
  <2>2. CASE Wait("idle") \/ Publish("initial", Nothing) \/ Publish("finished", Nothing)
    BY <1>1, <2>2, HostTyped
  <2>3. QED
    BY <2>1, <2>2 DEF Published
<1>4. /\ fate' \in [Drafts -> Fortunes] /\ run' \in Turn /\ background' \in Observing
  <2>1. CASE host.event = "started"
    <3>1. fate' \in [Drafts -> Fortunes]
      BY <2>1, FatesTyped DEF Published, Fortunes
    <3>2. background' \in Observing
      BY <2>1 DEF Published, Observing, Typed
    <3>3. PICK m \in {"work", "control"} : run' = [NoTurn EXCEPT !.mode = m]
      BY <2>1 DEF Published
    <3>4. run' \in Turn
      BY <3>3, ModeFields
    <3>5. QED
      BY <3>1, <3>2, <3>4
  <2>2. CASE host.event # "started"
    BY <2>2 DEF Published, Typed
  <2>3. QED
    BY <2>1, <2>2
<1>5. QED
  BY <1>2, <1>3, <1>4 DEF Published, Typed, view, frozen, history

\* The turn and its backend.
LEMMA LeavingTyped ==
    ASSUME Typed, TurnCommand \/ FailureCommand \/ TurnFails \/ ControlCompletes
    PROVE  Typed'
<1>1. PICK end \in {"complete", "shutdown", "cancelled", "failed"} : Leave(end)
  BY DEF TurnCommand, FailureCommand, TurnFails, ControlCompletes
<1>2. queue' \in Queues /\ open' \in BOOLEAN
  BY TakenTyped DEF TurnCommand, FailureCommand, TurnFails, ControlCompletes, Typed
<1>3. QED
  BY <1>1, <1>2, LeaveTyped
     DEF TurnCommand, FailureCommand, TurnFails, ControlCompletes, Typed, view, frozen, history

LEMMA WorkEndsTyped ==
    ASSUME Typed, WorkEnds
    PROVE  /\ run' \in Turn /\ forwarded' \in 0..MaxDrafts /\ reply' \in Replies
           /\ fate' \in [Drafts -> Fortunes] /\ host' \in Station
<1>1. CASE Leave("complete")
  BY <1>1, LeaveTyped
<1>2. CASE ~Leave("complete")
  <2>1. /\ run' = [NoTurn EXCEPT !.mode = "control"] /\ fate' = Fates(Unapplied, "lost")
        /\ UNCHANGED <<reply, forwarded, host>>
    BY <1>2 DEF WorkEnds
  <2>2. run' \in Turn
    BY <2>1, ModeFields
  <2>3. fate' \in [Drafts -> Fortunes]
    BY <2>1, FatesTyped DEF Fortunes
  <2>4. QED
    BY <2>1, <2>2, <2>3 DEF Typed
<1>3. QED
  BY <1>1, <1>2

LEMMA RelayTyped ==
    ASSUME Typed, RelayDraft
    PROVE  Typed'
<1>1. PICK d \in Drafts : Receives(d) /\
           (\/ /\ Answer("ok")
               /\ IF Heard
                  THEN /\ run' = IF native THEN [run EXCEPT !.taken = @ \union {d}]
                                 ELSE [run EXCEPT !.steering = Append(@, d)]
                       /\ fate' = Fates({d}, "queued")
                       /\ late' = IF run.dispatch = "result" /\ ~run.interrupting
                                  THEN late \union {d} ELSE late
                  ELSE UNCHANGED <<run, fate, late>>
            \/ Answer("no") /\ UNCHANGED <<run, fate, late>>)
  BY DEF RelayDraft
<1>2. queue' \in Queues /\ forwarded' \in 0..MaxDrafts
  BY <1>1, TakenTyped, EmptyTyped DEF Receives, Typed
<1>3. reply' \in Replies
  BY <1>1, AnswerTyped DEF Replies
<1>4. run' \in Turn
  <2>1. run \in Turn
    BY DEF Typed
  <2>2. CASE UNCHANGED run
    BY <2>1, <2>2
  <2>3. CASE run' = [run EXCEPT !.taken = @ \union {d}]
    BY <2>1, <2>3 DEF Turn
  <2>4. CASE run' = [run EXCEPT !.steering = Append(@, d)]
    <3>1. PICK steering : steering = Append(run.steering, d)
      OBVIOUS
    <3>2. steering \in Seq(Drafts)
      BY <2>1, <3>1 DEF Turn
    <3>3. run' = [run EXCEPT !.steering = steering]
      BY <2>4, <3>1
    <3>4. QED
      BY <2>1, <3>2, <3>3 DEF Turn
  <2>5. QED
    BY <1>1, <2>2, <2>3, <2>4
<1>5. fate' \in [Drafts -> Fortunes] /\ late' \subseteq Drafts
  BY <1>1, FatesTyped DEF Typed, Fortunes
<1>6. QED
  BY <1>2, <1>3, <1>4, <1>5 DEF RelayDraft, Typed, view, frozen, history

LEMMA BackendTyped ==
    ASSUME Typed,
           \/ Interrupt \/ InterruptAcked \/ BackendMessage \/ Dispatched \/ Resubmit
           \/ NativeBoundary \/ NativeCompletes \/ ProviderFails \/ WorkFollows
           \/ ObserverStarts \/ ObserverEnds
    PROVE  Typed'
<1>1. CASE Interrupt
  <2>1. Unapplied \subseteq Drafts
    BY UnappliedFinite, TypedIsTypeOK
  <2>2. run' \in Turn
    <3>1. PICK S : S = Unapplied
      OBVIOUS
    <3>2. run' = [run EXCEPT !.steering = <<>>, !.taken = S, !.interrupting = TRUE]
      BY <1>1, <3>1 DEF Interrupt
    <3>3. S \subseteq Drafts /\ run \in Turn
      BY <2>1, <3>1 DEF Typed
    <3>4. <<>> \in Seq(Drafts)
      OBVIOUS
    <3>5. PICK nothing : nothing = <<>>
      OBVIOUS
    <3>6. run' = [run EXCEPT !.steering = nothing, !.taken = S, !.interrupting = TRUE]
          /\ nothing \in Seq(Drafts)
      BY <3>2, <3>4, <3>5
    <3>7. QED
      BY <3>3, <3>6 DEF Turn
  <2>3. QED
    BY <1>1, <2>2 DEF Interrupt, Typed, view, frozen, history
<1>2. CASE InterruptAcked \/ BackendMessage
  <2>1. run' \in Turn
    BY <1>2 DEF InterruptAcked, BackendMessage, Typed, Turn
  <2>2. QED
    BY <1>2, <2>1 DEF InterruptAcked, BackendMessage, Typed, view, frozen, history
<1>3. CASE Dispatched
  <2>1. events' \in EventQueues
    <3>1. events \in EventQueues
      BY DEF Typed
    <3>2. CASE EventRoom /\ events' = Append(events, "other")
      BY <3>1, <3>2, SessionLoopAssumption DEF EventQueues, EventRoom
    <3>3. CASE UNCHANGED events
      BY <3>1, <3>3
    <3>4. QED
      BY <1>3, <3>2, <3>3 DEF Dispatched
  <2>2. CASE WorkEnds
    BY <1>3, <2>1, <2>2, WorkEndsTyped DEF Dispatched, Typed, view, frozen, history
  <2>3. CASE /\ run' = [run EXCEPT !.dispatch = "none",
                                   !.completed = (@ \/ run.dispatch = "result")]
             /\ UNCHANGED <<reply, forwarded, host, fate>>
    <3>1. run' \in Turn
      BY <2>3 DEF Typed, Turn
    <3>2. QED
      BY <1>3, <2>1, <2>3, <3>1 DEF Dispatched, Typed, view, frozen, history
  <2>4. QED
    BY <1>3, <2>2, <2>3 DEF Dispatched
<1>4. CASE Resubmit \/ ProviderFails
  <2>1. run' \in Turn /\ fate' \in [Drafts -> Fortunes]
    <3>1. PICK m \in {"work", "failing"} : run' = [NoTurn EXCEPT !.mode = m]
      BY <1>4 DEF Resubmit, ProviderFails
    <3>2. run' \in Turn
      BY <3>1, ModeFields
    <3>3. QED
      BY <1>4, <3>2, FatesTyped DEF Resubmit, ProviderFails, Fortunes
  <2>2. QED
    BY <1>4, <2>1 DEF Resubmit, ProviderFails, Typed, view, frozen, history
<1>5. CASE NativeBoundary
  <2>1. run' \in Turn /\ fate' \in [Drafts -> Fortunes]
    BY <1>5, FatesTyped DEF NativeBoundary, Fortunes, Typed, Turn
  <2>2. QED
    BY <1>5, <2>1 DEF NativeBoundary, Typed, view, frozen, history
<1>6. CASE NativeCompletes
  BY <1>6, WorkEndsTyped DEF NativeCompletes, Typed, view, frozen, history
<1>7. CASE WorkFollows
  <2>1. run' \in Turn
    BY <1>7, ModeFields DEF WorkFollows
  <2>2. QED
    BY <1>7, <2>1 DEF WorkFollows, Typed, view, frozen, history
<1>8. CASE ObserverStarts \/ ObserverEnds
  <2>1. background' \in Observing
    BY <1>8 DEF ObserverStarts, ObserverEnds, Observing
  <2>2. QED
    BY <1>8, <2>1 DEF ObserverStarts, ObserverEnds, Typed, view, frozen, history
<1>9. QED
  BY <1>1, <1>2, <1>3, <1>4, <1>5, <1>6, <1>7, <1>8

-----------------------------------------------------------------------------
(* Every step.                                                             *)

LEMMA Parts ==
    /\ IInv <=> TypeOK /\ Talk /\ Corrections /\ Publishing /\ Shows
    /\ IInv' <=> TypeOK' /\ Talk' /\ Corrections' /\ Publishing' /\ Shows'
BY DEF IInv, Talk, Corrections

LEMMA InitHolds == Init => IInv
<1> SUFFICES ASSUME Init PROVE IInv
  OBVIOUS
<1>1. Typed
  <2>1. Nothing \in 0..MaxDrafts /\ 0 \in 0..MaxCancels /\ 0 \in 0..MaxDrafts
    BY SessionLoopAssumption DEF Nothing
  <2>2. ui \in View
    BY <2>1 DEF Init, View
  <2>3. host \in Station
    BY <2>1 DEF Init, Station, Places, Publications
  <2>4. fate \in [Drafts -> Fortunes] /\ background \in Observing /\ reply \in Replies
    BY DEF Init, Fortunes, Observing, Replies
  <2>5. QED
    BY <2>1, <2>2, <2>3, <2>4, EmptyTyped, NoTurnFields DEF Init, Typed
<1>2. Talk
  BY SessionLoopAssumption DEF Init, Talk, OneInTransit, Editor, Accepted, Drafts, Nothing
<1>3. Unapplied = {}
  BY NoTurnFields DEF Init, Unapplied
<1>4. Corrections
  <2>1. Prompted
    BY DEF Init, Prompted
  <2>2. Turning
    BY <1>3, NoTurnFields DEF Init, Turning, NoTurn
  <2>3. Cardinality(Unapplied) <= CorrectionCapacity
    BY <1>3, FS_EmptySet, SessionLoopAssumption
  <2>4. {d \in Drafts : fate[d] = "queued"} = {} /\ {d \in Drafts : fate[d] = "lost"} = {}
    BY DEF Init
  <2>5. QED
    BY <1>3, <2>1, <2>2, <2>3, <2>4 DEF Corrections, CorrectionsApply
<1>5. Publishing /\ Shows
  BY DEF Init, Publishing, Shows, Rests, Between, WillBeBusy, At
<1>6. QED
  BY <1>1, <1>2, <1>4, <1>5, Parts, TypedIsTypeOK

LEMMA Unpublished ==
    ASSUME Publishing,
           (UNCHANGED host /\ Accepted \subseteq Accepted') \/ host'.at # "publishing"
    PROVE  Publishing'
BY DEF Publishing, At

LEMMA PublishingEvent ==
    ASSUME NEW e, e \notin {"none", "cancelled"}, NEW p, Publish(e, p),
           e = "started" /\ p # Nothing => p \in Accepted'
    PROVE  Publishing'
BY DEF Publishing, At, Publish

\* What was accepted once stays the session's.
LEMMA StaysAccepted ==
    ASSUME TypeOK,
           \/ UNCHANGED fate \/ Quietly
           \/ \E d \in Drafts, f \in {"prompt", "queued", "applied"} : fate' = Fates({d}, f)
    PROVE  Accepted \subseteq Accepted'
<1>1. CASE UNCHANGED fate \/ Quietly
  BY <1>1 DEF Accepted, Quietly
<1>2. ASSUME NEW d \in Drafts, NEW f \in {"prompt", "queued", "applied"}, fate' = Fates({d}, f)
      PROVE  Accepted \subseteq Accepted'
  BY <1>2 DEF Accepted, Fates
<1>3. QED
  BY <1>1, <1>2

LEMMA LeavePublishes ==
    ASSUME NEW end, Leave(end)
    PROVE  Publishing'
BY DEF Leave, Publishing, At, Publish, Wait, StopThen

LEMMA TerminalSteps ==
    ASSUME IInv, Terminal \/ Developer \/ ShutdownTimesOut
    PROVE  IInv'
<1>1. /\ TypeOK /\ Typed /\ Talk /\ Corrections /\ Publishing /\ Shows
  BY Parts, TypedIsTypeOK
<1>2. CASE Poll \/ NextEvent
  <2>1. Typed' /\ Corrections' /\ Publishing'
    BY <1>1, <1>2, PollTyped, NobodyCorrects, Unpublished, StaysAccepted
       DEF Poll, NextEvent, frozen, history
  <2>2. Talk'
    <3>1. ui'.live /\ ui'.text = Polled.text /\ ui'.pending = Polled.pending /\ ui.live
      <4>1. CASE Poll
        BY <1>1, <4>1, PolledView DEF Poll
      <4>2. CASE NextEvent
        <5>1. PICK u \in View : u = Polled
          BY <1>1, PolledView
        <5>2. ui' = Shown(u, Head(events)) /\ ui.live
          BY <4>2, <5>1 DEF NextEvent
        <5>3. ui'.live = u.live /\ ui'.text = u.text /\ ui'.pending = u.pending
          <6>1. PICK e : e = Head(events)
            OBVIOUS
          <6>2. /\ Shown(u, e).live = u.live /\ Shown(u, e).text = u.text
                /\ Shown(u, e).pending = u.pending
            BY ShownView
          <6>3. ui' = Shown(u, e)
            BY <5>2, <6>1
          <6>4. QED
            BY <6>2, <6>3
        <5>4. u.live = ui.live
          BY <1>1, <5>1, PolledView
        <5>5. u.live = TRUE
          BY <1>1, <5>1, <5>2, <5>4 DEF View, Typed
        <5>6. ui'.live = TRUE
          BY <5>3, <5>5
        <5>7. QED
          BY <5>1, <5>2, <5>3, <5>6
      <4>3. QED
        BY <1>2, <4>1, <4>2
    <3>2. QED
      BY <1>1, <1>2, <3>1, PollTalks DEF Poll, NextEvent
  <2>3. Shows'
    BY <1>1, <1>2, PollShows, NextEventShows
  <2>4. QED
    BY <2>1, <2>2, <2>3, Parts, TypedIsTypeOK
<1>3. CASE TypeText \/ Submit
  <2>1. Corrections' /\ Publishing'
    BY <1>1, <1>3, NobodyCorrects, Unpublished, StaysAccepted
       DEF TypeText, Submit, frozen, history
  <2>2. QED
    BY <1>1, <1>3, <2>1, TerminalTyped, TypeTextTalks, SubmitTalks, ViewShows, Parts,
       TypedIsTypeOK
<1>4. CASE RequestCancellation
  <2>1. Publishing'
    <3>1. CASE UNCHANGED fate
      BY <1>1, <1>4, <3>1, Unpublished, StaysAccepted DEF RequestCancellation
    <3>2. CASE ui.live /\ ui.pending = Nothing /\ ui.text # Nothing
               /\ fate' = Fates({ui.text}, "discarded")
      <4>1. ui.text \notin Accepted
        BY <1>1, <3>2 DEF Talk, Editor
      <4>2. Accepted \subseteq Accepted'
        BY <3>2, <4>1 DEF Accepted, Fates
      <4>3. QED
        BY <1>1, <1>4, <4>2, Unpublished DEF RequestCancellation
    <3>3. QED
      BY <1>4, <3>1, <3>2 DEF RequestCancellation
  <2>2. QED
    BY <1>1, <1>4, <2>1, TerminalTyped, RequestTalks, RequestCorrects, ViewShows, Parts,
       TypedIsTypeOK
<1>5. CASE Quit \/ SessionStopped
  <2>1. Quit
    BY <1>5 DEF SessionStopped
  <2>2. Corrections' /\ Publishing'
    BY <1>1, <2>1, NobodyCorrects, Unpublished, StaysAccepted DEF Quit, frozen, history
  <2>3. QED
    BY <1>1, <2>1, <2>2, TerminalTyped, QuitTalks, GoneShows, Parts, TypedIsTypeOK
<1>6. CASE SendShutdown
  <2>1. Corrections' /\ Publishing'
    BY <1>1, <1>6, NobodyCorrects, Unpublished, StaysAccepted
       DEF SendShutdown, frozen, history
  <2>2. QED
    BY <1>1, <1>6, <2>1, TerminalTyped, SendShutdownTalks, GoneShows, Parts, TypedIsTypeOK
<1>7. CASE ShutdownTimesOut
  <2>1. Corrections'
    BY <1>1, <1>7, TurnEnds DEF ShutdownTimesOut, frozen, history
  <2>2. Publishing'
    BY <1>7 DEF ShutdownTimesOut, Publishing, At
  <2>3. QED
    BY <1>1, <1>7, <2>1, <2>2, TerminalTyped, ShutdownTimesOutTalks, GoneShows, Parts,
       TypedIsTypeOK
<1>8. QED
  BY <1>2, <1>3, <1>4, <1>5, <1>6, <1>7 DEF Terminal, Developer

LEMMA SameFate ==
    ASSUME UNCHANGED fate PROVE Quietly
BY DEF Quietly

\* The host's own steps between turns: each part of the invariant in turn.
HostSteps ==
    \/ Started \/ StartCommand \/ StartDrained \/ PublishCommand \/ PublishEnds
    \/ Joined \/ Stopped \/ StopFails \/ RefuseDraft \/ AdmitDraft \/ AdmissionFails
    \/ IdleCommand \/ ObserverTurn \/ Forward \/ AgentControl \/ ParentRefuses
    \/ CloseCommands \/ Close

LEMMA HostTalks ==
    ASSUME IInv, HostSteps
    PROVE  Talk'
<1>1. TypeOK /\ Talk
  BY Parts
<1>2. CASE Started \/ Joined \/ Stopped \/ StopFails \/ ObserverTurn \/ Close
  BY <1>1, <1>2, SameFate, AcceptedKeeps
     DEF Started, Joined, Stopped, StopFails, ObserverTurn, Close, view
<1>3. CASE StartCommand \/ IdleCommand
  BY <1>1, <1>3, SameFate, CommandTaken DEF StartCommand, IdleCommand, view
<1>4. CASE StartDrained \/ CloseCommands
  BY <1>1, <1>4, Emptied DEF StartDrained, CloseCommands, view
<1>5. Promised \subseteq {d \in Drafts : fate[d] \notin {"none", "discarded"}}
  BY DEF Promised
<1>6. CASE PublishCommand \/ PublishEnds
  <2>1. Quietly
    BY <1>1, <1>5, <1>6, SameFate, PromisedQuietly DEF PublishCommand, PublishEnds
  <2>2. QED
    BY <1>1, <1>6, <2>1, AcceptedKeeps, CommandTaken DEF PublishCommand, PublishEnds, view
<1>7. CASE RefuseDraft \/ AdmissionFails
  BY <1>1, <1>7, DraftTaken DEF RefuseDraft, AdmissionFails, view, Fated
<1>8. CASE AdmitDraft
  <2>1. PICK d \in Drafts : /\ Take(Submission(d))
                            /\ IF Heard THEN fate' = Fates({d}, "prompt") ELSE UNCHANGED fate
    BY <1>8 DEF AdmitDraft
  <2>2. /\ UNCHANGED <<forwarded, ui, typed>> /\ Answer("ok")
    BY <1>8 DEF AdmitDraft, view
  <2>3. ui.live => Heard
    BY <1>1, <2>1, <2>2, NoneLeft DEF Awaited, Heard
  <2>4. CASE Heard
    BY <1>1, <2>1, <2>2, <2>4, DraftTaken DEF Fated
  <2>5. CASE ~Heard
    <3>1. Answer("no")
      BY <2>2, <2>5 DEF Answer, Heard
    <3>2. QED
      BY <1>1, <2>1, <2>2, <2>5, <3>1, DraftTaken DEF Fated
  <2>6. QED
    BY <2>4, <2>5
<1>9. CASE AgentControl
  BY <1>1, <1>9, DraftTaken DEF AgentControl, view, Fated
<1>10. CASE ParentRefuses
  BY <1>1, <1>10, DraftTaken DEF ParentRefuses, Receives, view, Fated
<1>11. CASE Forward
  <2>1. PICK d \in Drafts : Take(Submission(d)) /\ forwarded' = d
    BY <1>11 DEF Forward
  <2>2. UNCHANGED <<ui, typed, reply, fate>>
    BY <1>11 DEF Forward, view
  <2>3. queue[1] = Submission(d) /\ queue[1].kind = "submit" /\ queue[1].draft = d
        /\ 1 \in DOMAIN queue
    BY <1>1, <2>1, TakenElement DEF Submission
  <2>4. d \in Awaited
    BY <1>1, <2>3 DEF Talk, OneInTransit
  <2>5. ASSUME NEW i \in DOMAIN queue', queue'[i].kind = "submit" PROVE FALSE
    BY <1>1, <2>1, <2>3, <2>5, TakenElement DEF Talk, OneInTransit
  <2>6. Awaited \subseteq Awaited' /\ Editor'
    BY <1>1, <2>2, SameFate, AwaitedKeeps, EditorKeeps DEF Talk
  <2>7. QED
    BY <2>1, <2>4, <2>5, <2>6 DEF Talk, OneInTransit
<1>12. QED
  BY <1>2, <1>3, <1>4, <1>6, <1>7, <1>8, <1>9, <1>10, <1>11 DEF HostSteps

LEMMA HostCorrects ==
    ASSUME IInv, HostSteps
    PROVE  Corrections'
<1>1. TypeOK /\ Talk /\ Corrections
  BY Parts
<1>2. CASE Started \/ StartCommand \/ StartDrained \/ Joined \/ Stopped \/ StopFails
           \/ IdleCommand \/ ObserverTurn \/ CloseCommands \/ Close \/ AdmissionFails
  <2>1. ~At("turn") /\ ~At("publishing") /\ UNCHANGED <<fate, run, late, native>>
    BY <1>2 DEF Started, StartCommand, StartDrained, Joined, Stopped, StopFails, IdleCommand,
       ObserverTurn, CloseCommands, Close, AdmissionFails, At, frozen, history
  <2>2. QED
    BY <1>1, <2>1, HostMoves
<1>3. CASE RefuseDraft \/ Forward \/ ParentRefuses
  BY <1>1, <1>3, HostMoves DEF RefuseDraft, Forward, ParentRefuses, frozen, history
<1>4. QED
  BY <1>1, <1>2, <1>3, PublicationGivenUpCorrects, AdmitCorrects, AgentControlCorrects
     DEF HostSteps

LEMMA HostPublishes ==
    ASSUME IInv, HostSteps
    PROVE  Publishing'
<1>1. Publishing
  BY Parts
<1>2. CASE host'.at # "publishing"
  BY <1>1, <1>2, Unpublished
<1>3. CASE UNCHANGED host /\ Accepted \subseteq Accepted'
  BY <1>1, <1>3, Unpublished
<1>4. CASE Started \/ AdmitDraft \/ ObserverTurn
  <2>1. CASE Started \/ ObserverTurn
    BY <2>1, PublishingEvent DEF Started, ObserverTurn
  <2>2. CASE AdmitDraft
    <3>1. CASE UNCHANGED <<host, fate>>
      BY <1>3, <3>1, StaysAccepted, Parts
    <3>2. ASSUME NEW d \in Drafts, Publish("started", d), fate' = Fates({d}, "prompt")
          PROVE  Publishing'
      <4>1. d \in Accepted'
        BY <3>2 DEF Accepted, Fates
      <4>2. QED
        BY <3>2, <4>1, PublishingEvent
    <3>3. QED
      BY <2>2, <3>1, <3>2 DEF AdmitDraft
  <2>3. QED
    BY <1>4, <2>1, <2>2
<1>5. CASE StartDrained \/ Joined
  <2>1. \/ host'.at # "publishing" \/ Publish("ready", Nothing) \/ Publish("error", Nothing)
    BY <1>5 DEF StartDrained, Joined, Wait, StopThen
  <2>2. QED
    BY <1>2, <2>1, PublishingEvent
<1>6. CASE Stopped
  <2>1. \/ host'.at # "publishing"
        \/ (host.event \notin {"none", "cancelled"} /\ Publish(host.event, Nothing))
    BY <1>6 DEF Stopped, Wait, StopThen
  <2>2. QED
    BY <1>2, <2>1, PublishingEvent
<1>7. CASE StartCommand \/ StopFails \/ IdleCommand \/ CloseCommands \/ Close
           \/ PublishCommand \/ PublishEnds
  <2>1. host'.at # "publishing"
    BY <1>7 DEF StartCommand, StopFails, IdleCommand, CloseCommands, Close, PublishCommand,
       PublishEnds, Wait, StopThen
  <2>2. QED
    BY <1>2, <2>1
<1>8. CASE RefuseDraft \/ AdmissionFails \/ Forward \/ AgentControl \/ ParentRefuses
  <2>1. UNCHANGED host
    BY <1>8 DEF RefuseDraft, AdmissionFails, Forward, AgentControl, ParentRefuses
  <2>2. UNCHANGED fate \/ \E d \in Drafts : fate' = Fates({d}, "applied")
    BY <1>8 DEF RefuseDraft, AdmissionFails, Forward, AgentControl, ParentRefuses
  <2>3. QED
    BY <1>3, <2>1, <2>2, StaysAccepted, Parts
<1>9. QED
  BY <1>4, <1>5, <1>6, <1>7, <1>8 DEF HostSteps

LEMMA HostShows ==
    ASSUME IInv, HostSteps
    PROVE  Shows'
<1>1. TypeOK /\ Shows /\ Talk
  BY Parts
<1>2. UNCHANGED <<ui, events>>
  BY DEF HostSteps, Started, StartCommand, StartDrained, PublishCommand, PublishEnds, Joined,
     Stopped, StopFails, RefuseDraft, AdmitDraft, AdmissionFails, IdleCommand, ObserverTurn,
     Forward, AgentControl, ParentRefuses, CloseCommands, Close, view
<1>3. CASE Started \/ StartCommand \/ StartDrained \/ IdleCommand
  <2>1. /\ Between /\ host'.at # "turn"
    BY <1>3 DEF Started, StartCommand, StartDrained, IdleCommand, Between, At, Wait, Publish,
       StopThen
  <2>2. UNCHANGED reply \/ Answer("no")
    BY <1>3 DEF Started, StartCommand, StartDrained, IdleCommand
  <2>3. QED
    BY <1>1, <1>2, <2>1, <2>2, HostGoesOn
<1>4. CASE PublishEnds \/ Joined \/ StopFails \/ ObserverTurn \/ CloseCommands \/ Close
  <2>1. /\ ~Between' /\ host'.at # "turn"
    BY <1>4 DEF PublishEnds, Joined, StopFails, ObserverTurn, CloseCommands, Close, Between,
       Wait, Publish, StopThen
  <2>2. QED
    BY <1>1, <1>2, <2>1, HostGoesOff
<1>5. CASE PublishCommand
  <2>1. At("publishing") /\ UNCHANGED reply
        /\ StopThen(IF host.event = "started" THEN "cancelled" ELSE host.event)
    BY <1>5 DEF PublishCommand
  <2>2. host'.at = "stopping" /\ (host'.event = "cancelled" \/ host'.event = host.event)
    BY <2>1 DEF StopThen
  <2>3. Between \/ ~Between'
    BY <2>1, <2>2 DEF Between, At
  <2>4. QED
    BY <1>1, <1>2, <2>1, <2>2, <2>3, HostGoesOn, HostGoesOff
<1>6. CASE Stopped
  <2>1. At("stopping") /\ UNCHANGED reply /\ host'.at # "turn"
    BY <1>6 DEF Stopped, Wait, StopThen, Publish
  <2>2. Between \/ ~Between'
    <3>1. CASE host.event \in {"none", "ready", "initial"}
      BY <2>1, <3>1 DEF Between, At
    <3>2. CASE host.event = "cancelled"
      BY <1>6, <3>2 DEF Stopped, StopThen, Between
    <3>3. CASE host.event \notin {"none", "ready", "initial", "cancelled"}
      BY <1>6, <3>3 DEF Stopped, Publish, Between
    <3>4. QED
      BY <3>1, <3>2, <3>3
  <2>3. QED
    BY <1>1, <1>2, <2>1, <2>2, HostGoesOn, HostGoesOff
<1>7. CASE RefuseDraft \/ AdmissionFails \/ Forward \/ ParentRefuses
  <2>1. UNCHANGED host /\ (UNCHANGED reply \/ Answer("no"))
    BY <1>7 DEF RefuseDraft, AdmissionFails, Forward, ParentRefuses
  <2>2. QED
    BY <1>1, <1>2, <2>1, HostStays
<1>8. CASE AdmitDraft
  <2>1. CASE Heard
    <3>1. PICK d \in Drafts : Publish("started", d)
      BY <1>8, <2>1 DEF AdmitDraft
    <3>2. ~Between' /\ host'.at # "turn"
      BY <3>1 DEF Publish, Between
    <3>3. QED
      BY <1>1, <1>2, <3>2, HostGoesOff
  <2>2. CASE ~Heard
    <3>1. UNCHANGED <<host, reply>>
      BY <1>8, <2>2 DEF AdmitDraft, Answer, Heard
    <3>2. QED
      BY <1>1, <1>2, <3>1, HostStays
  <2>3. QED
    BY <2>1, <2>2
<1>9. CASE AgentControl
  <2>1. At("turn") /\ UNCHANGED host /\ \E a \in {"ok", "no"} : Answer(a)
    BY <1>9 DEF AgentControl
  <2>2. QED
    BY <1>1, <1>2, <2>1, AnsweredInTurnShows
<1>10. QED
  BY <1>3, <1>4, <1>5, <1>6, <1>7, <1>8, <1>9 DEF HostSteps

LEMMA HostStepsKeep ==
    ASSUME IInv, HostSteps
    PROVE  IInv'
<1>1. Typed
  BY Parts, TypedIsTypeOK
<1>2. Typed'
  BY <1>1, HostActionsTyped DEF HostSteps
<1>3. QED
  BY <1>2, HostTalks, HostCorrects, HostPublishes, HostShows, Parts, TypedIsTypeOK

LEMMA PublishedKeeps ==
    ASSUME IInv, Published
    PROVE  IInv'
<1>1. /\ TypeOK /\ Typed /\ Talk /\ Corrections /\ Publishing /\ Shows
  BY Parts, TypedIsTypeOK
<1>2. Talk'
  <2>1. Quietly
    <3>1. CASE host.event = "started"
      <4>1. /\ fate' = Fates({host.prompt}, "applied") /\ At("publishing")
        BY <3>1 DEF Published
      <4>2. host.prompt \in Drafts => fate[host.prompt] \notin {"none", "discarded"}
        BY <1>1, <3>1, <4>1, SessionLoopAssumption DEF Publishing, Accepted, Drafts, Nothing
      <4>3. QED
        BY <1>1, <4>1, <4>2 DEF Quietly, Fates
    <3>2. CASE host.event # "started"
      BY <3>2, SameFate DEF Published
    <3>3. QED
      BY <3>1, <3>2
  <2>2. QED
    BY <1>1, <2>1, AcceptedKeeps DEF Published, view
<1>3. Publishing'
  <2>1. CASE host'.at # "publishing"
    BY <1>1, <2>1, Unpublished
  <2>2. CASE Publish("initial", Nothing) \/ Publish("finished", Nothing)
    BY <2>2, PublishingEvent
  <2>3. CASE host' = [host EXCEPT !.at = "turn", !.event = "none"]
    BY <2>3, <1>1, Unpublished DEF Typed, Station
  <2>4. QED
    BY <2>1, <2>2, <2>3 DEF Published, Wait
<1>4. QED
  BY <1>1, <1>2, <1>3, PublishedTyped, PublishedCorrects, PublishedShows, Parts, TypedIsTypeOK

\* Leaving a turn settles only what was promised.
LEMMA LeaveQuietly ==
    ASSUME TypeOK, NEW end, Leave(end)
    PROVE  Quietly
BY PromisedQuietly DEF Leave, Promised

LEMMA LeavingKeeps ==
    ASSUME IInv, TurnCommand \/ FailureCommand \/ TurnFails \/ ControlCompletes
    PROVE  IInv'
<1>1. /\ TypeOK /\ Typed /\ Talk /\ Corrections /\ Publishing /\ Shows
  BY Parts, TypedIsTypeOK
<1>2. PICK end \in {"complete", "shutdown", "cancelled", "failed"} : Leave(end)
  BY DEF TurnCommand, FailureCommand, TurnFails, ControlCompletes
<1>3. /\ UNCHANGED <<ui, typed, events>> /\ (UNCHANGED queue \/ \E c : Take(c))
  BY DEF TurnCommand, FailureCommand, TurnFails, ControlCompletes, view
<1>4. Talk'
  BY <1>1, <1>2, <1>3, LeaveQuietly, Left DEF Leave
<1>5. Shows'
  BY <1>1, <1>2, <1>3, LeavesOff, HostGoesOff
<1>6. QED
  BY <1>1, <1>2, <1>4, <1>5, LeavingTyped, CommandsCorrect, LeavePublishes, Parts, TypedIsTypeOK

LEMMA WorkEndsTalks ==
    ASSUME IInv, WorkEnds, UNCHANGED <<ui, typed, queue>>
    PROVE  Talk' /\ Publishing'
<1>1. /\ TypeOK /\ Talk /\ Publishing /\ Corrections
  BY Parts
<1>2. CASE Leave("complete")
  BY <1>1, <1>2, LeaveQuietly, Left, LeavePublishes DEF Leave
<1>3. CASE fate' = Fates(Unapplied, "lost") /\ UNCHANGED <<reply, forwarded, host>>
  <2>1. Unapplied \subseteq {d \in Drafts : fate[d] \notin {"none", "discarded"}}
    BY <1>1 DEF Corrections, CorrectionsApply
  <2>2. Quietly
    BY <1>1, <1>3, <2>1, PromisedQuietly
  <2>3. QED
    BY <1>1, <1>3, <2>2, AcceptedKeeps, Unpublished, StaysAccepted
<1>4. QED
  BY <1>2, <1>3 DEF WorkEnds

LEMMA RelayKeeps ==
    ASSUME IInv, RelayDraft
    PROVE  IInv'
<1>1. /\ TypeOK /\ Typed /\ Talk /\ Corrections /\ Publishing /\ Shows
  BY Parts, TypedIsTypeOK
<1>2. /\ At("turn") /\ UNCHANGED <<ui, typed, events, host>>
  BY DEF RelayDraft, Working, view
<1>3. PICK d \in Drafts : Receives(d) /\
           (\/ Answer("ok") /\ IF Heard THEN fate' = Fates({d}, "queued") ELSE UNCHANGED fate
            \/ Answer("no") /\ UNCHANGED fate)
  BY DEF RelayDraft
<1>4. \/ Take(Submission(d)) /\ UNCHANGED forwarded
      \/ forwarded = d /\ forwarded' = Nothing /\ UNCHANGED queue
  BY <1>3 DEF Receives
<1>5. Talk' /\ Publishing'
  <2>1. CASE Answer("no") /\ UNCHANGED fate
    BY <1>1, <1>2, <1>4, <2>1, DraftTaken, Unpublished, StaysAccepted DEF Fated
  <2>2. CASE Answer("ok") /\ Heard /\ fate' = Fates({d}, "queued")
    BY <1>1, <1>2, <1>4, <2>2, DraftTaken, Unpublished, StaysAccepted DEF Fated
  <2>3. CASE Answer("ok") /\ ~Heard /\ UNCHANGED fate
    <3>1. Answer("no")
      BY <2>3 DEF Answer, Heard
    <3>2. QED
      BY <1>1, <1>2, <1>4, <2>3, <3>1, DraftTaken, Unpublished, StaysAccepted DEF Fated
  <2>4. QED
    BY <1>3, <2>1, <2>2, <2>3
<1>6. Shows'
  BY <1>1, <1>2, <1>3, AnsweredInTurnShows
<1>7. QED
  BY <1>1, <1>5, <1>6, RelayTyped, RelayCorrects, Parts, TypedIsTypeOK

LEMMA BackendKeeps ==
    ASSUME IInv,
           \/ Interrupt \/ InterruptAcked \/ BackendMessage \/ Dispatched \/ Resubmit
           \/ NativeBoundary \/ NativeCompletes \/ ProviderFails \/ WorkFollows
           \/ ObserverStarts \/ ObserverEnds
    PROVE  IInv'
<1>1. /\ TypeOK /\ Typed /\ Talk /\ Corrections /\ Publishing /\ Shows
  BY Parts, TypedIsTypeOK
<1>2. Typed'
  BY <1>1, BackendTyped
<1>3. Corrections'
  <2>1. CASE ObserverStarts \/ ObserverEnds
    BY <1>1, <2>1, NobodyCorrects DEF ObserverStarts, ObserverEnds, frozen, history
  <2>2. CASE Interrupt \/ InterruptAcked \/ BackendMessage \/ Dispatched
    BY <1>1, <2>2, InterruptCorrects, BackendCorrects, DispatchedCorrects
  <2>3. CASE Resubmit \/ NativeBoundary \/ ProviderFails \/ NativeCompletes \/ WorkFollows
    BY <1>1, <2>3, SettlingCorrects, NativeCompletesCorrects, WorkFollowsCorrects
  <2>4. QED
    BY <2>1, <2>2, <2>3
<1>4. CASE Interrupt \/ InterruptAcked \/ BackendMessage \/ WorkFollows \/ ObserverStarts
           \/ ObserverEnds
  <2>1. UNCHANGED <<ui, typed, reply, queue, forwarded, fate, events, host>>
    BY <1>4 DEF Interrupt, InterruptAcked, BackendMessage, WorkFollows, ObserverStarts,
       ObserverEnds, view
  <2>2. Talk' /\ Publishing' /\ Shows'
    BY <1>1, <2>1, SameFate, AcceptedKeeps, Unpublished, StaysAccepted, HostStays
  <2>3. QED
    BY <1>2, <1>3, <2>2, Parts, TypedIsTypeOK
<1>5. CASE Resubmit \/ NativeBoundary \/ ProviderFails
  <2>1. UNCHANGED <<ui, typed, reply, queue, forwarded, events, host>>
    BY <1>5 DEF Resubmit, NativeBoundary, ProviderFails, view
  <2>2. fate' = Fates(run.taken, "applied") \/ fate' = Fates(run.taken, "dropped")
    BY <1>5 DEF Resubmit, NativeBoundary, ProviderFails
  <2>3. run.taken \subseteq {d \in Drafts : fate[d] \notin {"none", "discarded"}}
    BY <1>1 DEF Corrections, CorrectionsApply, Unapplied
  <2>4. Quietly
    BY <1>1, <2>2, <2>3, PromisedQuietly
  <2>5. Talk' /\ Publishing' /\ Shows'
    BY <1>1, <2>1, <2>4, AcceptedKeeps, Unpublished, StaysAccepted, HostStays
  <2>6. QED
    BY <1>2, <1>3, <2>5, Parts, TypedIsTypeOK
<1>6. CASE Dispatched
  <2>1. Talk' /\ Publishing'
    <3>1. CASE WorkEnds
      BY <1>6, <3>1, WorkEndsTalks DEF Dispatched, view
    <3>2. CASE UNCHANGED <<reply, forwarded, host, fate>>
      BY <1>1, <1>6, <3>2, SameFate, AcceptedKeeps, Unpublished, StaysAccepted
         DEF Dispatched, view
    <3>3. QED
      BY <1>6, <3>1, <3>2 DEF Dispatched
  <2>2. QED
    BY <1>1, <1>2, <1>3, <1>6, <2>1, DispatchedShows, Parts, TypedIsTypeOK
<1>7. CASE NativeCompletes
  <2>1. Talk' /\ Publishing'
    BY <1>7, WorkEndsTalks DEF NativeCompletes, view
  <2>2. QED
    BY <1>1, <1>2, <1>3, <1>7, <2>1, NativeCompletesShows, Parts, TypedIsTypeOK
<1>8. QED
  BY <1>4, <1>5, <1>6, <1>7

LEMMA Inductive == IInv /\ [Next]_vars => IInv'
<1>1. ASSUME IInv, Next PROVE IInv'
  <2>1. CASE Terminal \/ Developer \/ ShutdownTimesOut
    BY <1>1, <2>1, TerminalSteps
  <2>2. CASE Host
    BY <1>1, <2>2, HostStepsKeep, PublishedKeeps, LeavingKeeps, RelayKeeps DEF Host, HostSteps
  <2>3. CASE Backend
    BY <1>1, <2>3, BackendKeeps, LeavingKeeps DEF Backend
  <2>4. QED
    BY <1>1, <2>1, <2>2, <2>3 DEF Next
<1>2. ASSUME IInv, UNCHANGED vars PROVE IInv'
  <2>1. /\ TypeOK /\ Typed /\ Talk /\ Corrections /\ Publishing /\ Shows
    BY <1>2, Parts, TypedIsTypeOK
  <2>2. UNCHANGED <<ui, typed, reply, queue, forwarded, events, host, fate, run, late, native>>
    BY <1>2 DEF vars
  <2>3. Typed'
    BY <1>2, <2>1 DEF vars, Typed
  <2>4. Talk' /\ Corrections' /\ Publishing' /\ Shows'
    BY <2>1, <2>2, SameFate, AcceptedKeeps, NobodyCorrects, Unpublished, StaysAccepted, HostStays
  <2>5. QED
    BY <2>3, <2>4, Parts, TypedIsTypeOK
<1>3. QED
  BY <1>1, <1>2

LEMMA Invariance == Spec => []IInv
BY InitHolds, Inductive, PTL DEF Spec

\* Every variable has its type, and the queues are within their capacities.
THEOREM TypeCorrect == Spec => []TypeOK
<1>1. IInv => TypeOK
  BY DEF IInv
<1>2. QED
  BY <1>1, Invariance, PTL

\* A text is the developer's until the session has said that it accepts it, and what
\* the session has, the terminal does not hold any more (session.rs:600-612).
THEOREM DraftHasOneOwnerHolds == Spec => []DraftHasOneOwner
<1>1. IInv => DraftHasOneOwner
  <2> SUFFICES ASSUME IInv PROVE DraftHasOneOwner
    OBVIOUS
  <2>1. TypeOK /\ OneInTransit /\ Editor
    BY DEF IInv
  <2>2. Awaited \intersect Accepted = {} /\ Nothing \notin Accepted
    BY SessionLoopAssumption DEF Awaited, Accepted, Drafts, Nothing
  <2>3. ASSUME NEW i \in DOMAIN queue PROVE queue[i].draft \notin Accepted
    BY <2>1, <2>2, Elements, Kinds DEF OneInTransit
  <2>4. forwarded \notin Accepted
    BY <2>1, <2>2 DEF OneInTransit
  <2>5. QED
    BY <2>1, <2>3, <2>4 DEF DraftHasOneOwner, Editor
<1>2. QED
  BY <1>1, Invariance, PTL

\* A terminal that has seen everything shows work exactly while there is some
\* (terminal.rs:783-801).
THEOREM BusyTracksTurnsHolds == Spec => []BusyTracksTurns
<1>1. IInv => BusyTracksTurns
  BY DEF IInv, Shows, Works, Rests, WillBeBusy, Between, At, BusyTracksTurns
<1>2. QED
  BY <1>1, Invariance, PTL

\* An accepted correction stays with its turn until it is applied, within
\* CORRECTION_CAPACITY, and none is lost but those that came late (claude.rs:515-560).
THEOREM CorrectionsApplyHolds == Spec => []CorrectionsApply
<1>1. IInv => CorrectionsApply
  BY DEF IInv
<1>2. QED
  BY <1>1, Invariance, PTL

===============================================================================
