----------------------------- MODULE FileJournal -----------------------------
(***************************************************************************)
(* The crash-durable file store of reference_journal_file.py: several       *)
(* processes that share one journal directory, each with at most one store *)
(* object.  A directory is what a power cut can make of it: the sequence   *)
(* of its states since its last fsync; a file, the contents a power cut    *)
(* can leave in it.  Directory updates reach the disk in order, the        *)
(* behaviour the certified ext4 and XFS mounts are required to have.       *)
(***************************************************************************)
EXTENDS Integers, Sequences, FiniteSets

CONSTANTS
    Stores,     \* the processes, each with one store object at a time
    NoStore,    \* nobody holds the flock
    MaxDocs,    \* bound: documents handed to a save
    MaxInode,   \* bound: files that exist at once
    MaxQueue,   \* bound: operations waiting for the single worker
    MaxMishaps  \* bound: input/output errors, crashes and power cuts

ASSUME FileAssumption ==
    /\ IsFiniteSet(Stores) /\ NoStore \notin Stores
    /\ MaxDocs \in Nat \ {0} /\ MaxInode \in Nat /\ MaxQueue \in Nat \ {0}
    /\ MaxMishaps \in Nat

VARIABLES
    disk,     \* what the kernel shows and what a power cut may leave of it
    flock,    \* the store whose open lock file carries the flock
    children, \* stores whose lock descriptor a forked child still holds
    st,       \* the store object of each process
    nextDoc,  \* identity of the next document handed to a save
    acked,    \* documents whose save returned
    denied,   \* documents whose save raised "failed before a durable commit"
    mishaps, forks

fileVars == <<disk, flock, children, st, nextDoc, acked, denied, mishaps, forks>>

Inodes == 1 .. MaxInode
Docs   == [gen : 0 .. MaxDocs - 1, id : 1 .. MaxDocs]
Absent   == [gen |-> -1, id |-> 0]   \* no file
Empty    == [gen |-> -2, id |-> 0]   \* a file without bytes
Torn     == [gen |-> -3, id |-> 0]   \* a file of which a prefix was written
Protocol == [gen |-> -4, id |-> 0]   \* the exact lock protocol bytes
Contents == Docs \cup {Empty, Torn, Protocol}

Entries == [final : 0 .. MaxInode, temp : 0 .. MaxInode, lock : 0 .. MaxInode]
NoEntries == [final |-> 0, temp |-> 0, lock |-> 0]

OpenSteps == {"sync", "anchor", "lock", "flock", "protocol", "protocol_rest",
              "lock_fsync", "lock_publish", "stale", "stale_sync"}
BeforeReplace == {"write", "write_rest", "temp_fsync", "replace"}
AfterReplace  == {"verify", "commit_fsync", "reopen"}
SaveSteps == BeforeReplace \cup AfterReplace
Resting   == {"down", "opened", "idle"}

Snapshots == [inode : 0 .. MaxInode, doc : Docs \cup {Absent}]
Unread    == [inode |-> -1, doc |-> Absent]

\* No store object, or one that raised while it was opened or was closed.
Gone == [pc |-> "down", created |-> FALSE, queue |-> <<>>, closing |-> FALSE,
         snap |-> Unread, ready |-> FALSE, stamp |-> FALSE, poison |-> "none",
         temp |-> 0, doc |-> Absent]

(***************************************************************************)
(* The disk                                                                *)
(***************************************************************************)
Now == disk.history[Len(disk.history)]
FileOf(bytes) == [seen |-> bytes, kept |-> {bytes}]
NewFile == FileOf(Empty)
Seen(i) == IF i = 0 THEN Absent ELSE disk.file[i].seen
Kept(i) == IF i = 0 THEN {Absent} ELSE disk.file[i].kept
Named(entries) == {entries.final, entries.temp, entries.lock}
Referenced ==
    (UNION {Named(disk.history[i]) : i \in 1 .. Len(disk.history)})
        \cup {st[p].temp : p \in Stores}
Free == Inodes \ Referenced
FreshInode == CHOOSE i \in Free : \A j \in Free : i <= j

Linked(d, entries) == [d EXCEPT !.history = Append(@, entries)]
Written(d, i, bytes) == [d EXCEPT !.file[i] = [seen |-> bytes, kept |-> @.kept \cup {bytes}]]
FileSynced(d, i) == [d EXCEPT !.file[i].kept = {d.file[i].seen}]

\* A file that no directory entry and no descriptor names any more is freed.
DirectorySynced(d) ==
    [d EXCEPT
        !.history = <<Now>>,
        !.file = [i \in Inodes |->
            IF i \in Named(Now) \cup {st[p].temp : p \in Stores} THEN d.file[i] ELSE NewFile]]

\* The documents a power cut may leave under the journal's final name.
Survivors ==
    (IF disk.store = "durable" THEN {} ELSE {Absent})
        \cup UNION {Kept(disk.history[i].final) : i \in 1 .. Len(disk.history)}

FileInit ==
    /\ disk = [store |-> "absent", history |-> <<NoEntries>>, file |-> [i \in Inodes |-> NewFile]]
    /\ flock = NoStore /\ children = {}
    /\ st = [p \in Stores |-> Gone]
    /\ nextDoc = 1 /\ acked = {} /\ denied = {}
    /\ mishaps = 0 /\ forks = 0

Ghosts == <<nextDoc, acked, denied>>
Bounds == <<mishaps, forks>>
Goto(p, pc) == st' = [st EXCEPT ![p].pc = pc]

(***************************************************************************)
(* Opening                                                                 *)
(***************************************************************************)

\* The journal directory is opened, or made when it is missing.
OpenDirectory(p) ==
    /\ st[p].pc = "down"
    /\ disk' = [disk EXCEPT !.store = IF @ = "absent" THEN "visible" ELSE @]
    /\ Goto(p, "sync")
    /\ UNCHANGED <<flock, children, Ghosts, Bounds>>

\* Even a directory that was there already is synchronised again.
SyncStoreDirectory(p) ==
    /\ st[p].pc = "sync"
    /\ disk' = DirectorySynced(disk)
    /\ Goto(p, "anchor")
    /\ UNCHANGED <<flock, children, Ghosts, Bounds>>

\* The directories from the journal's parent up to its mount point.
FsyncConfigAnchor(p) ==
    /\ st[p].pc = "anchor"
    /\ disk' = [disk EXCEPT !.store = "durable"]
    /\ Goto(p, "lock")
    /\ UNCHANGED <<flock, children, Ghosts, Bounds>>

CreateOrOpenLock(p) ==
    /\ st[p].pc = "lock"
    /\ \/ /\ Now.lock # 0
          /\ Goto(p, "flock")
          /\ UNCHANGED disk
       \/ /\ Now.lock = 0 /\ Free # {}
          /\ disk' = [Linked(disk, [Now EXCEPT !.lock = FreshInode])
                        EXCEPT !.file[FreshInode] = NewFile]
          /\ st' = [st EXCEPT ![p].pc = "flock", ![p].created = TRUE]
    /\ UNCHANGED <<flock, children, Ghosts, Bounds>>

FlockGranted(p) == flock = NoStore

\* A busy lock or foreign protocol bytes end the opening; an empty protocol
\* is what an interrupted opening left and is written again.
AcquireLock(p) ==
    LET bytes == Seen(Now.lock)
    IN  /\ st[p].pc = "flock"
        /\ \/ /\ ~FlockGranted(p)
              /\ st' = [st EXCEPT ![p] = Gone]
              /\ UNCHANGED flock
           \/ /\ FlockGranted(p)
              /\ ~st[p].created /\ bytes \notin {Empty, Protocol}
              /\ st' = [st EXCEPT ![p] = Gone]
              /\ UNCHANGED flock
           \/ /\ FlockGranted(p)
              /\ st[p].created \/ bytes \in {Empty, Protocol}
              /\ flock' = p
              /\ Goto(p, IF st[p].created \/ bytes = Empty THEN "protocol" ELSE "lock_fsync")
        /\ UNCHANGED <<disk, children, Ghosts, Bounds>>

\* The protocol bytes may need several writes; a prefix of the right bytes
\* over the right bytes changes nothing.
WriteLockProtocol(p) ==
    /\ st[p].pc = "protocol"
    /\ disk' = IF Seen(Now.lock) = Protocol THEN disk ELSE Written(disk, Now.lock, Torn)
    /\ Goto(p, "protocol_rest")
    /\ UNCHANGED <<flock, children, Ghosts, Bounds>>

WriteLockProtocolRest(p) ==
    /\ st[p].pc = "protocol_rest"
    /\ disk' = Written(disk, Now.lock, Protocol)
    /\ Goto(p, "lock_fsync")
    /\ UNCHANGED <<flock, children, Ghosts, Bounds>>

FsyncLock(p) ==
    /\ st[p].pc = "lock_fsync"
    /\ disk' = FileSynced(disk, Now.lock)
    /\ Goto(p, "lock_publish")
    /\ UNCHANGED <<flock, children, Ghosts, Bounds>>

\* Mutant: an opener that did not create the lock does not synchronise it.
LockPublishedOnceOnly(p) == IF st[p].created THEN DirectorySynced(disk) ELSE disk
LockPublished(p) == DirectorySynced(disk)

FsyncLockDirectory(p) ==
    /\ st[p].pc = "lock_publish"
    /\ disk' = LockPublished(p)
    /\ Goto(p, "stale")
    /\ UNCHANGED <<flock, children, Ghosts, Bounds>>

\* What an interrupted save left is removed, under the flock.
RemoveStaleTemp(p) ==
    \/ /\ Now.temp = 0
       /\ Goto(p, "opened")
       /\ UNCHANGED disk
    \/ /\ Now.temp # 0
       /\ disk' = Linked(disk, [Now EXCEPT !.temp = 0])
       /\ Goto(p, "stale_sync")

LeaveNoStaleTemp(p) ==
    /\ st[p].pc = "stale"
    /\ RemoveStaleTemp(p)
    /\ UNCHANGED <<flock, children, Ghosts, Bounds>>

FsyncStaleRemoval(p) ==
    /\ st[p].pc = "stale_sync"
    /\ disk' = DirectorySynced(disk)
    /\ Goto(p, "opened")
    /\ UNCHANGED <<flock, children, Ghosts, Bounds>>

\* The store object takes the descriptors, or a cancelled caller drops them.
Adopt(p) ==
    /\ st[p].pc = "opened"
    /\ Goto(p, "idle")
    /\ UNCHANGED <<disk, flock, children, Ghosts, Bounds>>

\* The flock goes with an explicit unlock, whoever else has the descriptor.
Unlock(p) ==
    /\ flock' = IF flock = p THEN NoStore ELSE flock
    /\ children' = children \ {p}

CloseOpenedResources(p) ==
    /\ st[p].pc = "opened"
    /\ st' = [st EXCEPT ![p] = Gone]
    /\ Unlock(p)
    /\ UNCHANGED <<disk, Ghosts, Bounds>>

Mishap == mishaps < MaxMishaps /\ mishaps' = mishaps + 1

OpenFails(p) ==
    /\ st[p].pc \in OpenSteps
    /\ Mishap
    /\ st' = [st EXCEPT ![p] = Gone]
    /\ Unlock(p)
    /\ UNCHANGED <<disk, Ghosts, forks>>

(***************************************************************************)
(* Operations: callers queue them, one worker runs them in order           *)
(***************************************************************************)
QueuedSaves ==
    {x \in Stores \X (1 .. MaxQueue + 1) :
        x[2] <= Len(st[x[1]].queue) /\ st[x[1]].queue[x[2]] = "save"}

Submit(p, op) ==
    /\ st[p].pc \in SaveSteps \cup {"idle", "barrier"}
    /\ ~st[p].closing /\ Len(st[p].queue) < MaxQueue
    /\ op = "save" => nextDoc + Cardinality(QueuedSaves) <= MaxDocs
    /\ st' = [st EXCEPT ![p].queue = Append(@, op)]
    /\ UNCHANGED <<disk, flock, children, Ghosts, Bounds>>

RequestClose(p) ==
    /\ st[p].pc \in SaveSteps \cup {"idle", "barrier"}
    /\ ~st[p].closing
    /\ st' = [st EXCEPT ![p].closing = TRUE, ![p].queue = Append(@, "close")]
    /\ UNCHANGED <<disk, flock, children, Ghosts, Bounds>>

NextIs(p, op) == st[p].pc = "idle" /\ st[p].queue # <<>> /\ Head(st[p].queue) = op
Done(s) == [s EXCEPT !.queue = Tail(@)]

\* The identities and lock bytes every operation verifies before it starts.
VerifyOpenState(p) ==
    /\ disk.store # "absent"
    /\ Now.lock # 0 /\ Seen(Now.lock) = Protocol

ReadNamedFinal == [inode |-> Now.final, doc |-> Seen(Now.final)]
CanonicalDecode(doc) == doc \in Docs \cup {Absent}

LoadRefused(p) == st[p].poison # "none" \/ st[p].stamp

Load(p) ==
    /\ NextIs(p, "load")
    /\ st' = [st EXCEPT ![p] =
            IF LoadRefused(p)
            THEN Done(@)
            ELSE IF VerifyOpenState(p) /\ CanonicalDecode(ReadNamedFinal.doc)
            THEN [Done(@) EXCEPT !.snap = ReadNamedFinal, !.ready = TRUE]
            ELSE [Done(@) EXCEPT !.poison = "load"]]
    /\ UNCHANGED <<disk, flock, children, Ghosts, Bounds>>

LoadFails(p) ==
    /\ NextIs(p, "load") /\ ~LoadRefused(p)
    /\ Mishap
    /\ st' = [st EXCEPT ![p] = [Done(@) EXCEPT !.poison = "load"]]
    /\ UNCHANGED <<disk, flock, children, Ghosts, forks>>

SaveRefused(p) == st[p].poison # "none" \/ st[p].stamp \/ ~st[p].ready

RefuseSave(p) ==
    /\ NextIs(p, "save") /\ SaveRefused(p)
    /\ st' = [st EXCEPT ![p] = Done(@)]
    /\ UNCHANGED <<disk, flock, children, Ghosts, Bounds>>

\* Exactly the next generation, over exactly the bytes that were loaded.
NextGeneration(p, gen) == gen = st[p].snap.doc.gen + 1

Replaceable(p, gen) ==
    /\ VerifyOpenState(p)
    /\ NextGeneration(p, gen)
    /\ ReadNamedFinal = st[p].snap
    /\ Now.temp = 0

\* A caller hands over the next generation or repeats the last one.
BeginSave(p, gen) ==
    LET candidate == [gen |-> gen, id |-> nextDoc]
    IN  /\ NextIs(p, "save") /\ ~SaveRefused(p)
        /\ nextDoc' = nextDoc + 1
        /\ \/ /\ ~Replaceable(p, gen)
              /\ st' = [st EXCEPT ![p] = [Done(@) EXCEPT !.poison = "failed"]]
              /\ denied' = denied \cup {candidate}
              /\ UNCHANGED disk
           \/ /\ Replaceable(p, gen) /\ Free # {}
              /\ disk' = [Linked(disk, [Now EXCEPT !.temp = FreshInode])
                            EXCEPT !.file[FreshInode] = NewFile]
              /\ st' = [st EXCEPT ![p] = [Done(@) EXCEPT
                            !.pc = "write", !.temp = FreshInode, !.doc = candidate]]
              /\ UNCHANGED denied
        /\ UNCHANGED <<flock, children, acked, Bounds>>

WriteTemp(p) ==
    /\ st[p].pc = "write"
    /\ disk' = Written(disk, st[p].temp, Torn)
    /\ Goto(p, "write_rest")
    /\ UNCHANGED <<flock, children, Ghosts, Bounds>>

WriteTempRest(p) ==
    /\ st[p].pc = "write_rest"
    /\ disk' = Written(disk, st[p].temp, st[p].doc)
    /\ Goto(p, "temp_fsync")
    /\ UNCHANGED <<flock, children, Ghosts, Bounds>>

\* Mutant: the temporary file is renamed before its bytes are durable.
TempUnsynced(p) == disk
TempSynced(p) == FileSynced(disk, st[p].temp)

FsyncTemp(p) ==
    /\ st[p].pc = "temp_fsync"
    /\ disk' = TempSynced(p)
    /\ Goto(p, "replace")
    /\ UNCHANGED <<flock, children, Ghosts, Bounds>>

\* What a save, or a barrier, reads back differs from what it wrote.
Mismatch(p) ==
    \/ st[p].pc = "replace" /\ (Now.temp # st[p].temp \/ Seen(st[p].temp) # st[p].doc)
    \/ /\ st[p].pc \in {"verify", "reopen"}
       /\ ReadNamedFinal # [inode |-> st[p].temp, doc |-> st[p].doc]
    \/ st[p].pc = "barrier" /\ ReadNamedFinal # st[p].snap

Replace(p) ==
    /\ st[p].pc = "replace"
    /\ ~Mismatch(p)
    /\ disk' = Linked(disk, [Now EXCEPT !.final = st[p].temp, !.temp = 0])
    /\ Goto(p, "verify")
    /\ UNCHANGED <<flock, children, Ghosts, Bounds>>

VerifyReplaced(p) ==
    /\ st[p].pc = "verify" /\ ~Mismatch(p)
    /\ Goto(p, "commit_fsync")
    /\ UNCHANGED <<disk, flock, children, Ghosts, Bounds>>

FsyncCommit(p) ==
    /\ st[p].pc = "commit_fsync"
    /\ disk' = DirectorySynced(disk)
    /\ Goto(p, "reopen")
    /\ UNCHANGED <<flock, children, Ghosts, Bounds>>

\* The save returns; its commit stamp waits for the barrier.
CommitSave(p) ==
    /\ st[p].pc = "reopen" /\ ~Mismatch(p)
    /\ st' = [st EXCEPT ![p] = [@ EXCEPT
            !.pc = "idle", !.temp = 0, !.doc = Absent, !.snap = ReadNamedFinal,
            !.ready = FALSE, !.stamp = TRUE]]
    /\ acked' = acked \cup {st[p].doc}
    /\ UNCHANGED <<disk, flock, children, nextDoc, denied, Bounds>>

\* A failing rename may be reported although nothing was renamed.
\* Mutant: only a rename that was verified makes the outcome ambiguous.
AmbiguousOnceVerified(p) == st[p].pc \in AfterReplace \ {"verify"}
Ambiguous(p) == st[p].pc \in AfterReplace

SaveFails(p) ==
    /\ st[p].pc \in SaveSteps
    /\ Mishap \/ (Mismatch(p) /\ UNCHANGED mishaps)
    /\ \E ambiguous \in {Ambiguous(p)} \cup (IF st[p].pc = "replace" THEN {TRUE} ELSE {}) :
        /\ st' = [st EXCEPT ![p] = [@ EXCEPT
                !.pc = "idle", !.temp = 0, !.doc = Absent,
                !.poison = IF ambiguous THEN "ambiguous" ELSE "failed"]]
        /\ denied' = IF ambiguous THEN denied ELSE denied \cup {st[p].doc}
    /\ UNCHANGED <<disk, flock, children, nextDoc, acked, forks>>

BarrierRefused(p) == st[p].poison # "none" \/ ~st[p].stamp

RefuseBarrier(p) ==
    /\ NextIs(p, "barrier") /\ BarrierRefused(p)
    /\ st' = [st EXCEPT ![p] = Done(@)]
    /\ UNCHANGED <<disk, flock, children, Ghosts, Bounds>>

BeginBarrier(p) ==
    /\ NextIs(p, "barrier") /\ ~BarrierRefused(p)
    /\ st' = [st EXCEPT ![p] =
            IF VerifyOpenState(p) /\ ReadNamedFinal = @.snap
            THEN [Done(@) EXCEPT !.pc = "barrier"]
            ELSE [Done(@) EXCEPT !.poison = "ambiguous"]]
    /\ UNCHANGED <<disk, flock, children, Ghosts, Bounds>>

FinishBarrier(p) ==
    /\ st[p].pc = "barrier" /\ ~Mismatch(p)
    /\ disk' = DirectorySynced(disk)
    /\ st' = [st EXCEPT ![p] = [@ EXCEPT !.pc = "idle", !.stamp = FALSE]]
    /\ UNCHANGED <<flock, children, Ghosts, Bounds>>

BarrierFails(p) ==
    /\ st[p].pc = "barrier"
    /\ Mishap \/ (Mismatch(p) /\ UNCHANGED mishaps)
    /\ st' = [st EXCEPT ![p] = [@ EXCEPT !.pc = "idle", !.poison = "ambiguous"]]
    /\ UNCHANGED <<disk, flock, children, Ghosts, forks>>

\* Mutant: a poisoned store is not closed.
CloseUnlessPoisoned(p) == NextIs(p, "close") /\ st[p].poison = "none"
CloseDue(p) == NextIs(p, "close")

\* After the close a process may open the journal anew.
Close(p) ==
    /\ CloseDue(p)
    /\ st' = [st EXCEPT ![p] = Gone]
    /\ Unlock(p)
    /\ UNCHANGED <<disk, Ghosts, Bounds>>

(***************************************************************************)
(* Processes and power                                                     *)
(***************************************************************************)

\* A fork waits until no journal operation runs; the child then closes the
\* descriptors of every tracked store.
ForkGate(p) == st[p].pc \in Resting

HasLockDescriptor(p) == st[p].pc \notin {"down", "sync", "anchor", "lock"}
Tracked(p) == st[p].pc \notin OpenSteps \cup {"down"}

Fork(p) ==
    /\ ForkGate(p)
    /\ forks < 1 /\ forks' = forks + 1
    /\ children' = IF HasLockDescriptor(p) /\ ~Tracked(p) THEN children \cup {p} ELSE children
    /\ UNCHANGED <<disk, flock, st, Ghosts, mishaps>>

\* The process dies: the kernel closes its descriptors.
Crash(p) ==
    /\ st[p].pc # "down"
    /\ Mishap
    /\ st' = [st EXCEPT ![p] = Gone]
    /\ flock' = IF flock = p /\ p \notin children THEN NoStore ELSE flock
    /\ UNCHANGED <<disk, children, Ghosts, forks>>

PowerCut ==
    /\ Mishap
    /\ \E i \in 1 .. Len(disk.history), lost \in BOOLEAN :
        LET entries == IF lost THEN NoEntries ELSE disk.history[i]
        IN  /\ lost => disk.store # "durable"
            /\ \E final \in Kept(entries.final), temp \in Kept(entries.temp),
                  lock \in Kept(entries.lock) :
                disk' = [store |-> IF lost THEN "absent"
                                   ELSE IF disk.store = "visible" THEN "durable"
                                   ELSE disk.store,
                         history |-> <<entries>>,
                         file |-> [f \in Inodes |->
                            IF f = entries.final THEN FileOf(final)
                            ELSE IF f = entries.temp THEN FileOf(temp)
                            ELSE IF f = entries.lock THEN FileOf(lock)
                            ELSE NewFile]]
    /\ st' = [p \in Stores |-> Gone]
    /\ flock' = NoStore /\ children' = {}
    /\ UNCHANGED <<Ghosts, forks>>

OpenStep(p) ==
    \/ SyncStoreDirectory(p) \/ FsyncConfigAnchor(p) \/ CreateOrOpenLock(p)
    \/ AcquireLock(p) \/ WriteLockProtocol(p) \/ WriteLockProtocolRest(p)
    \/ FsyncLock(p) \/ FsyncLockDirectory(p) \/ LeaveNoStaleTemp(p)
    \/ FsyncStaleRemoval(p) \/ Adopt(p)

SaveStep(p) ==
    \/ WriteTemp(p) \/ WriteTempRest(p) \/ FsyncTemp(p) \/ Replace(p)
    \/ VerifyReplaced(p) \/ FsyncCommit(p) \/ CommitSave(p)

\* What the single worker of a store does by itself.
Work(p) ==
    \/ Load(p) \/ RefuseSave(p) \/ SaveStep(p)
    \/ \E gen \in {st[p].snap.doc.gen, st[p].snap.doc.gen + 1} \cap Nat : BeginSave(p, gen)
    \/ RefuseBarrier(p) \/ BeginBarrier(p) \/ FinishBarrier(p) \/ Close(p)

Trouble(p) ==
    \/ OpenFails(p) \/ LoadFails(p) \/ SaveFails(p) \/ BarrierFails(p) \/ Crash(p)

FileNext ==
    \/ \E p \in Stores :
        \/ OpenDirectory(p) \/ OpenStep(p) \/ CloseOpenedResources(p)
        \/ \E op \in {"load", "save", "barrier"} : Submit(p, op)
        \/ RequestClose(p) \/ Work(p) \/ Fork(p) \/ Trouble(p)
    \/ PowerCut

FileSpec == FileInit /\ [][FileNext]_fileVars

\* The executor runs what it accepted; nothing is asked of callers.
FairFileSpec == FileSpec /\ \A p \in Stores : WF_fileVars(Work(p))

(***************************************************************************)
(* Properties                                                              *)
(***************************************************************************)

\* The type of the state; a store past its flock step owns the flock, so no
\* two stores ever work on the journal's names.
FileTypeOK ==
    /\ disk.store \in {"absent", "visible", "durable"}
    /\ disk.history \in Seq(Entries) /\ disk.history # <<>>
    /\ \A i \in Inodes : disk.file[i].seen \in Contents /\ disk.file[i].kept \subseteq Contents
    /\ flock \in Stores \cup {NoStore} /\ children \subseteq Stores
    /\ st \in [Stores -> [pc : OpenSteps \cup SaveSteps \cup Resting \cup {"barrier"},
                          created : BOOLEAN,
                          queue : Seq({"load", "save", "barrier", "close"}), closing : BOOLEAN,
                          snap : Snapshots \cup {Unread}, ready : BOOLEAN, stamp : BOOLEAN,
                          poison : {"none", "load", "failed", "ambiguous"},
                          temp : 0 .. MaxInode, doc : Docs \cup {Absent}]]
    /\ \A p \in Stores : st[p].pc \in {"down", "sync", "anchor", "lock", "flock"} \/ flock = p
    /\ nextDoc \in 1 .. MaxDocs + 1 /\ acked \subseteq Docs /\ denied \subseteq Docs
    /\ mishaps \in 0 .. MaxMishaps /\ forks \in 0 .. 1

\* Whatever fails, crashes or loses power at any step of a save, what is
\* found afterwards is a whole document: the final name never leads to the
\* empty or half-written file that the write left.
OnlyWholeDocuments == Survivors \cup {Seen(Now.final)} \subseteq Docs \cup {Absent}

\* A document that a load returned or a save committed is beyond the reach of
\* a power cut while its store rests, even when the rename was another
\* process's last act before it died without its directory fsync.
ReturnedIsDurable ==
    \A p \in Stores :
        st[p].pc = "idle" /\ st[p].poison = "none" /\ st[p].snap # Unread
            => Survivors = {st[p].snap.doc}

\* No dead process's fork child keeps the flock, which would lock every later
\* opening out: the flock is always a live store's.
FlockHasLiveOwner == flock # NoStore => st[flock].pc # "down"

\* A store that may save finds the temporary name free, whatever an earlier
\* save, another process or a power cut left there.
TempNameIsFree ==
    \A p \in Stores : st[p].pc = "idle" /\ st[p].ready /\ st[p].poison = "none" => Now.temp = 0

\* What every process finds in the directory (CrashDurableReferenceJournalStore): whole documents, a
\* free temporary name, and a flock that only its live owner holds.
DirectoryInvariant == FileTypeOK /\ OnlyWholeDocuments /\ TempNameIsFree /\ FlockHasLiveOwner

\* The file store keeps the promises of a durable register: one successor at
\* a time, acknowledged when settled, denied only what can never appear.
Register ==
    INSTANCE DurableRegister WITH
        Generation <- LAMBDA doc : doc.gen, Absent <- Absent,
        may <- Survivors, acked <- acked, denied <- denied
ImplementsRegister == Register!RegisterSpec

\* A store asked to close drains what it accepted and lets the lock go,
\* poisoned or not.
CloseReleasesTheLock ==
    \A p \in Stores : st[p].closing ~> flock # p
=============================================================================
