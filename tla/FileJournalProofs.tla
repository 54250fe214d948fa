--------------------------- MODULE FileJournalProofs ---------------------------
(***************************************************************************)
(* Proofs about the file journal: what a power cut can leave under the     *)
(* final name, what the directory holds, and the promises of a durable     *)
(* register, for any processes, documents, queues and numbers of errors,   *)
(* crashes and power cuts.                                                 *)
(***************************************************************************)
EXTENDS FileJournal, FiniteSetTheorems, WellFoundedInduction, TLAPS

-----------------------------------------------------------------------------
(* Types. *)

FileType == [seen : Contents, kept : SUBSET Contents]
DiskType == [store : {"absent", "visible", "durable"}, history : Seq(Entries),
             file : [Inodes -> FileType]]
Operations == {"load", "save", "barrier", "close"}
StoreType == [pc : OpenSteps \cup SaveSteps \cup Resting \cup {"barrier"},
              created : BOOLEAN, queue : Seq(Operations), closing : BOOLEAN,
              snap : Snapshots \cup {Unread}, ready : BOOLEAN, stamp : BOOLEAN,
              poison : {"none", "load", "failed", "ambiguous"},
              temp : 0 .. MaxInode, doc : Docs \cup {Absent}]

TypesInv ==
    /\ disk \in DiskType /\ disk.history # <<>>
    /\ flock \in Stores \cup {NoStore} /\ children = {}
    /\ st \in [Stores -> StoreType]
    /\ nextDoc \in 1 .. MaxDocs + 1 /\ acked \subseteq Docs /\ denied \subseteq Docs
    /\ mishaps \in 0 .. MaxMishaps /\ forks \in 0 .. 1

\* Every queued save still has a document to carry.
QueuesInv ==
    /\ nextDoc + Cardinality(QueuedSaves) <= MaxDocs + 1
    /\ \A p \in Stores :
        Len(st[p].queue) <= MaxQueue + 1 /\ (~st[p].closing => Len(st[p].queue) <= MaxQueue)

-----------------------------------------------------------------------------
(* The directory. *)

\* The states of the directory a power cut can go back to.
States == {disk.history[i] : i \in 1 .. Len(disk.history)}

\* A document is no older than its number of predecessors, and was handed over.
Issued(doc) == doc.gen < doc.id /\ doc.id < nextDoc

\* A file that is a whole document, which no power cut changes.
Whole(i) ==
    /\ disk.file[i].seen \in Docs /\ Issued(disk.file[i].seen)
    /\ disk.file[i].kept = {disk.file[i].seen}

FinalsAreWhole ==
    \A e \in States : e.final # 0 => disk.store = "durable" /\ Whole(e.final)

\* No two names lead to one file, and the lock file is the only one there was.
NamesAreApart ==
    \A e \in States :
        /\ e.lock \in {0, Now.lock}
        /\ e.final # 0 => e.final # Now.lock /\ e.final # e.temp
        /\ e.temp # 0 => e.temp # Now.lock

\* At most one other document than the one that is seen may come back.
TwoFinals ==
    \A d, e \in States : d.final # Now.final /\ e.final # Now.final => d.final = e.final

DirectoryInv == FinalsAreWhole /\ NamesAreApart /\ TwoFinals

Settled == \A e \in States : e.final = Now.final

-----------------------------------------------------------------------------
(* The stores. *)

Unlocked == {"down", "sync", "anchor", "lock", "flock"}
Usable(s) == s.pc = "idle" /\ s.poison = "none"

\* What opening has reached so far: the flock, the directories above, the lock's name.
OpeningInv(p) ==
    /\ (flock = p) <=> st[p].pc \notin Unlocked
    /\ st[p].pc # "down" => disk.store # "absent"
    /\ st[p].pc \notin {"down", "sync", "anchor"} => disk.store = "durable"
    /\ st[p].pc \notin Unlocked \ {"flock"} => Now.lock # 0
    /\ st[p].pc \in OpenSteps \cup {"down", "opened"} => st[p].snap = Unread /\ ~st[p].ready

\* A store that is about to read or to write finds the outcome of every earlier save
\* decided, and no temporary file of it.
SettledInv(p) ==
    /\ st[p].pc \in {"stale", "stale_sync", "opened", "barrier", "reopen"} \cup BeforeReplace
           \/ Usable(st[p]) => Settled
    /\ st[p].pc \in {"stale_sync", "opened", "barrier"} \cup AfterReplace \/ Usable(st[p])
           => Now.temp = 0

\* What it remembers is what is there.
SnapshotInv(p) ==
    /\ (Usable(st[p]) /\ st[p].snap # Unread) \/ st[p].pc \in {"barrier"} \cup BeforeReplace
           => st[p].snap = ReadNamedFinal
    /\ Usable(st[p]) /\ st[p].ready => st[p].snap # Unread

\* The document that is being saved is new until it is renamed.
SavingInv(p) ==
    /\ st[p].pc \in SaveSteps =>
           st[p].doc \in Docs /\ Issued(st[p].doc) /\ st[p].doc \notin denied /\ st[p].temp # 0
    /\ st[p].pc \in BeforeReplace =>
           /\ Now.temp = st[p].temp
           /\ \A e \in States : e.final # st[p].temp
           /\ st[p].doc.gen = st[p].snap.doc.gen + 1
           /\ st[p].doc \notin Survivors /\ st[p].doc \notin acked
    /\ st[p].pc \in {"temp_fsync", "replace"} => disk.file[st[p].temp].seen = st[p].doc
    /\ st[p].pc = "replace" => disk.file[st[p].temp].kept = {st[p].doc}
    /\ st[p].pc \in AfterReplace =>
           Now.final = st[p].temp /\ disk.file[st[p].temp].seen = st[p].doc

StoreInv(p) == OpeningInv(p) /\ SettledInv(p) /\ SnapshotInv(p) /\ SavingInv(p)

\* Documents that were reported on were handed over.
ReportedInv == \A doc \in acked \cup denied : doc.id < nextDoc

FileInv ==
    TypesInv /\ QueuesInv /\ DirectoryInv /\ ReportedInv /\ \A p \in Stores : StoreInv(p)

-----------------------------------------------------------------------------
(* The queues: who takes an operation off a queue leaves fewer saves waiting. *)

Queued(Q) == {x \in Stores \X (1 .. MaxQueue + 1) :
                 x[2] <= Len(Q[x[1]]) /\ Q[x[1]][x[2]] = "save"}
Queues == [p \in Stores |-> st[p].queue]

LEMMA SavesAreQueued == QueuedSaves = Queued(Queues)
  BY DEF QueuedSaves, Queued, Queues

LEMMA QueuedIsFinite ==
    ASSUME NEW Q
    PROVE  IsFiniteSet(Queued(Q)) /\ Cardinality(Queued(Q)) \in Nat
  <1>1. IsFiniteSet(1 .. MaxQueue + 1)
    <2>1. MaxQueue + 1 \in Int
      BY FileAssumption
    <2>2. QED
      BY <2>1, FS_Interval
  <1>2. IsFiniteSet(Stores \X (1 .. MaxQueue + 1))
    BY <1>1, FileAssumption, FS_Product
  <1>3. Queued(Q) \in SUBSET (Stores \X (1 .. MaxQueue + 1))
    BY DEF Queued
  <1>4. IsFiniteSet(Queued(Q))
    BY <1>2, <1>3, FS_Subset
  <1>5. QED
    BY <1>4, FS_CardinalityType

\* Fewer queues, fewer saves.
LEMMA QueueEmptied ==
    ASSUME NEW Q, NEW R, \A p \in Stores : R[p] = Q[p] \/ R[p] = <<>>
    PROVE  Cardinality(Queued(R)) <= Cardinality(Queued(Q))
  <1>1. Queued(R) \in SUBSET Queued(Q)
    <2> SUFFICES ASSUME NEW x \in Queued(R) PROVE x \in Queued(Q)
      OBVIOUS
    <2>1. x \in Stores \X (1 .. MaxQueue + 1) /\ x[2] <= Len(R[x[1]]) /\ R[x[1]][x[2]] = "save"
      BY DEF Queued
    <2>2. x[1] \in Stores /\ x[2] \in 1 .. MaxQueue + 1
      BY <2>1
    <2>3. R[x[1]] # <<>>
      BY <2>1, <2>2, FileAssumption
    <2>4. QED
      BY <2>1, <2>2, <2>3 DEF Queued
  <1>2. QED
    BY <1>1, QueuedIsFinite, FS_Subset

LEMMA OneMore ==
    ASSUME NEW S, NEW x, NEW T, IsFiniteSet(S), \A y \in T : y \in S \/ y = x
    PROVE  IsFiniteSet(T) /\ Cardinality(T) <= Cardinality(S) + 1
  <1>1. T \in SUBSET (S \cup {x})
    OBVIOUS
  <1>2. IsFiniteSet(S \cup {x}) /\ Cardinality(S) \in Nat
    BY FS_AddElement, FS_CardinalityType
  <1>3. /\ IsFiniteSet(T) /\ Cardinality(T) <= Cardinality(S \cup {x})
        /\ Cardinality(T) \in Nat /\ Cardinality(S \cup {x}) \in Nat
    BY <1>1, <1>2, FS_Subset, FS_CardinalityType
  <1>4. Cardinality(S \cup {x}) = IF x \in S THEN Cardinality(S) ELSE Cardinality(S) + 1
    BY FS_AddElement, Zenon
  <1>5. Cardinality(S \cup {x}) <= Cardinality(S) + 1
    BY <1>2, <1>4
  <1> QED
    BY <1>2, <1>3, <1>5

LEMMA OneLess ==
    ASSUME NEW S, NEW x \in S, IsFiniteSet(S)
    PROVE  IsFiniteSet(S \ {x}) /\ Cardinality(S \ {x}) = Cardinality(S) - 1
  <1>1. /\ IsFiniteSet(S \ {x})
        /\ Cardinality(S \ {x}) = IF x \in S THEN Cardinality(S) - 1 ELSE Cardinality(S)
    BY FS_RemoveElement, Zenon
  <1> QED
    BY <1>1

\* An injective map into a finite set.
LEMMA NoMoreThan ==
    ASSUME NEW S, NEW T, IsFiniteSet(T), NEW f, f \in [S -> T],
           \A x, y \in S : f[x] = f[y] => x = y
    PROVE  Cardinality(S) <= Cardinality(T)
  <1>1. f \in Injection(S, T)
    BY DEF Injection, IsInjective
  <1> QED
    BY <1>1, FS_Injection

LEMMA AppendedQueue ==
    ASSUME NEW q \in Seq(Operations), NEW o \in Operations, NEW i \in Nat \ {0},
           i <= Len(Append(q, o)), Append(q, o)[i] = "save"
    PROVE  (i <= Len(q) /\ q[i] = "save") \/ (i = Len(q) + 1 /\ o = "save")
  OBVIOUS

LEMMA TailOfQueue ==
    ASSUME NEW q \in Seq(Operations), q # <<>>, NEW i \in Nat \ {0}, i <= Len(Tail(q))
    PROVE  i + 1 <= Len(q) /\ Tail(q)[i] = q[i + 1]
  OBVIOUS

LEMMA InQueued ==
    ASSUME NEW Q, NEW x \in Queued(Q)
    PROVE  /\ x \in Stores \X (1 .. MaxQueue + 1) /\ x = <<x[1], x[2]>>
           /\ x[1] \in Stores /\ x[2] \in 1 .. MaxQueue + 1 /\ x[2] \in Nat \ {0}
           /\ x[2] <= Len(Q[x[1]]) /\ Q[x[1]][x[2]] = "save"
  <1>1. x \in Stores \X (1 .. MaxQueue + 1) /\ x[2] <= Len(Q[x[1]]) /\ Q[x[1]][x[2]] = "save"
    BY DEF Queued
  <1>2. x = <<x[1], x[2]>> /\ x[1] \in Stores /\ x[2] \in 1 .. MaxQueue + 1
    BY <1>1
  <1> QED
    BY <1>1, <1>2, FileAssumption

LEMMA QueueGrows ==
    ASSUME NEW Q \in [Stores -> Seq(Operations)], NEW p \in Stores, NEW o \in Operations,
           NEW R, R = [Q EXCEPT ![p] = Append(@, o)]
    PROVE  /\ Cardinality(Queued(R)) <= Cardinality(Queued(Q)) + 1
           /\ o # "save" => Cardinality(Queued(R)) <= Cardinality(Queued(Q))
  <1>1. ASSUME NEW y \in Queued(R)
        PROVE  y \in Queued(Q) \/ (y = <<p, Len(Q[p]) + 1>> /\ o = "save")
    <2>1. /\ y \in Stores \X (1 .. MaxQueue + 1) /\ y = <<y[1], y[2]>>
          /\ y[1] \in Stores /\ y[2] \in 1 .. MaxQueue + 1 /\ y[2] \in Nat \ {0}
          /\ y[2] <= Len(R[y[1]]) /\ R[y[1]][y[2]] = "save"
      BY <1>1, InQueued
    <2>2. CASE y[1] # p
      <3>1. R[y[1]] = Q[y[1]]
        BY <2>1, <2>2
      <3> QED
        BY <2>1, <3>1 DEF Queued
    <2>3. CASE y[1] = p
      <3>1. R[p] = Append(Q[p], o) /\ Q[p] \in Seq(Operations)
        OBVIOUS
      <3>2. (y[2] <= Len(Q[p]) /\ Q[p][y[2]] = "save") \/ (y[2] = Len(Q[p]) + 1 /\ o = "save")
        BY <2>1, <2>3, <3>1, AppendedQueue
      <3>3. CASE y[2] <= Len(Q[p]) /\ Q[p][y[2]] = "save"
        BY <2>1, <2>3, <3>3 DEF Queued
      <3>4. CASE y[2] = Len(Q[p]) + 1 /\ o = "save"
        BY <2>1, <2>3, <3>4
      <3> QED
        BY <3>2, <3>3, <3>4
    <2> QED
      BY <2>2, <2>3
  <1>2. IsFiniteSet(Queued(Q)) /\ Cardinality(Queued(Q)) \in Nat
    BY QueuedIsFinite
  <1>3. Cardinality(Queued(R)) <= Cardinality(Queued(Q)) + 1
    <2>1. \A y \in Queued(R) : y \in Queued(Q) \/ y = <<p, Len(Q[p]) + 1>>
      BY <1>1
    <2> QED
      BY <2>1, <1>2, OneMore
  <1>4. ASSUME o # "save" PROVE Cardinality(Queued(R)) <= Cardinality(Queued(Q))
    <2>1. \A y \in Queued(R) : y \in Queued(Q)
      BY <1>1, <1>4
    <2>2. Queued(R) \in SUBSET Queued(Q)
      BY <2>1, Zenon
    <2> QED
      BY <1>2, <2>2, FS_Subset
  <1> QED
    BY <1>3, <1>4

LEMMA QueueShrinks ==
    ASSUME NEW Q \in [Stores -> Seq(Operations)], NEW p \in Stores, Q[p] # <<>>,
           Len(Q[p]) <= MaxQueue + 1, NEW R, R = [Q EXCEPT ![p] = Tail(@)]
    PROVE  /\ Cardinality(Queued(R)) <= Cardinality(Queued(Q))
           /\ Head(Q[p]) = "save" => Cardinality(Queued(R)) + 1 <= Cardinality(Queued(Q))
  <1> DEFINE Moved(x) == IF x[1] = p THEN <<p, x[2] + 1>> ELSE x
  <1>1. ASSUME NEW x \in Queued(R) PROVE Moved(x) \in Queued(Q) /\ Moved(x) # <<p, 1>>
    <2>1. /\ x \in Stores \X (1 .. MaxQueue + 1) /\ x = <<x[1], x[2]>>
          /\ x[1] \in Stores /\ x[2] \in 1 .. MaxQueue + 1 /\ x[2] \in Nat \ {0}
          /\ x[2] <= Len(R[x[1]]) /\ R[x[1]][x[2]] = "save"
      BY <1>1, InQueued
    <2>2. CASE x[1] # p
      <3>1. R[x[1]] = Q[x[1]] /\ Moved(x) = x
        BY <2>1, <2>2
      <3>2. x \in Queued(Q)
        BY <2>1, <3>1 DEF Queued
      <3> QED
        BY <2>1, <2>2, <3>1, <3>2
    <2>3. CASE x[1] = p
      <3>1. R[p] = Tail(Q[p]) /\ Q[p] \in Seq(Operations) /\ Len(Q[p]) \in Nat
        OBVIOUS
      <3>2. x[2] + 1 <= Len(Q[p]) /\ Q[p][x[2] + 1] = "save"
        BY <2>1, <2>3, <3>1, TailOfQueue
      <3>3. x[2] + 1 \in 1 .. MaxQueue + 1
        BY <2>1, <3>1, <3>2, FileAssumption
      <3>4. <<p, x[2] + 1>> \in Queued(Q)
        BY <3>2, <3>3 DEF Queued
      <3>5. x[2] + 1 # 1 /\ Moved(x) = <<p, x[2] + 1>>
        BY <2>1, <2>3
      <3> QED
        BY <3>4, <3>5
    <2> QED
      BY <2>2, <2>3
  <1>2. ASSUME NEW x \in Queued(R), NEW y \in Queued(R), Moved(x) = Moved(y) PROVE x = y
    <2>1. /\ x = <<x[1], x[2]>> /\ x[2] \in Nat
          /\ y = <<y[1], y[2]>> /\ y[2] \in Nat
      BY <1>2, InQueued
    <2>2. Moved(x)[1] = x[1] /\ Moved(y)[1] = y[1]
      OBVIOUS
    <2>3. CASE x[1] = p
      <3>1. y[1] = p
        BY <1>2, <2>2, <2>3
      <3>2. <<p, x[2] + 1>> = <<p, y[2] + 1>>
        BY <1>2, <2>3, <3>1
      <3>3. x[2] = y[2]
        BY <2>1, <3>2
      <3>4. x = <<p, x[2]>> /\ y = <<p, y[2]>>
        BY <2>1, <2>3, <3>1
      <3> QED
        BY <3>3, <3>4
    <2>4. CASE x[1] # p
      <3>1. y[1] # p
        BY <1>2, <2>2, <2>4
      <3> QED
        BY <1>2, <2>4, <3>1
    <2> QED
      BY <2>3, <2>4
  <1>3. IsFiniteSet(Queued(Q)) /\ Cardinality(Queued(Q)) \in Nat /\ Cardinality(Queued(R)) \in Nat
    BY QueuedIsFinite
  <1>4. Cardinality(Queued(R)) <= Cardinality(Queued(Q))
    <2>1. \A x \in Queued(R) : Moved(x) \in Queued(Q)
      BY <1>1
    <2>2. \A x, y \in Queued(R) : Moved(x) = Moved(y) => x = y
      BY <1>2
    <2> HIDE DEF Moved
    <2> DEFINE f == [x \in Queued(R) |-> Moved(x)]
    <2>3. f \in [Queued(R) -> Queued(Q)]
      BY <2>1
    <2>4. \A x, y \in Queued(R) : f[x] = f[y] => x = y
      BY <2>2
    <2> HIDE DEF f
    <2> QED
      BY <1>3, <2>3, <2>4, NoMoreThan
  <1>5. ASSUME Head(Q[p]) = "save"
        PROVE  Cardinality(Queued(R)) + 1 <= Cardinality(Queued(Q))
    <2>1. <<p, 1>> \in Queued(Q)
      <3>1. Q[p] \in Seq(Operations)
        OBVIOUS
      <3>2. Q[p][1] = "save" /\ 1 <= Len(Q[p]) /\ 1 \in 1 .. MaxQueue + 1
        BY <1>5, <3>1, FileAssumption
      <3> QED
        BY <3>2 DEF Queued
    <2>2. /\ IsFiniteSet(Queued(Q) \ {<<p, 1>>})
          /\ Cardinality(Queued(Q) \ {<<p, 1>>}) = Cardinality(Queued(Q)) - 1
      BY <1>3, <2>1, OneLess
    <2>3. \A x \in Queued(R) : Moved(x) \in Queued(Q) \ {<<p, 1>>}
      BY <1>1
    <2>4. \A x, y \in Queued(R) : Moved(x) = Moved(y) => x = y
      BY <1>2
    <2> HIDE DEF Moved
    <2> DEFINE f == [x \in Queued(R) |-> Moved(x)]
    <2>6. f \in [Queued(R) -> Queued(Q) \ {<<p, 1>>}]
      BY <2>3
    <2>7. \A x, y \in Queued(R) : f[x] = f[y] => x = y
      BY <2>4
    <2> HIDE DEF f
    <2>5. Cardinality(Queued(R)) <= Cardinality(Queued(Q) \ {<<p, 1>>})
      BY <2>2, <2>6, <2>7, NoMoreThan
    <2> QED
      BY <1>3, <2>2, <2>5
  <1> QED
    BY <1>4, <1>5

-----------------------------------------------------------------------------
(* What a power cut can go back to, and how the directory operations change it. *)

LEMMA NowIs ==
    ASSUME TypesInv
    PROVE  /\ Now \in States /\ Now \in Entries /\ States \subseteq Entries
           /\ Len(disk.history) \in Nat \ {0}
  <1>1. disk.history \in Seq(Entries) /\ disk.history # <<>>
    BY DEF TypesInv, DiskType
  <1>2. Len(disk.history) \in Nat \ {0}
    BY <1>1
  <1>3. \A i \in 1 .. Len(disk.history) : disk.history[i] \in Entries
    BY <1>1
  <1> QED
    BY <1>2, <1>3 DEF Now, States

LEMMA SameHistory ==
    ASSUME disk'.history = disk.history
    PROVE  Now' = Now /\ States' = States
  BY DEF Now, States

LEMMA LinkedHistory ==
    ASSUME TypesInv, NEW e \in Entries, disk'.history = Append(disk.history, e)
    PROVE  /\ Now' = e /\ States' = States \cup {e}
           /\ disk'.history \in Seq(Entries) /\ disk'.history # <<>>
  <1>1. disk.history \in Seq(Entries)
    BY DEF TypesInv, DiskType
  <1>2. /\ disk'.history \in Seq(Entries) /\ disk'.history # <<>>
        /\ Len(disk'.history) = Len(disk.history) + 1 /\ Len(disk.history) \in Nat
        /\ disk'.history[Len(disk.history) + 1] = e
        /\ \A i \in 1 .. Len(disk.history) : disk'.history[i] = disk.history[i]
    BY <1>1
  <1>3. Now' = e
    BY <1>2 DEF Now
  <1>4. ASSUME NEW d \in States' PROVE d \in States \cup {e}
    <2>1. PICK i \in 1 .. Len(disk'.history) : d = disk'.history[i]
      BY <1>4 DEF States
    <2>2. CASE i = Len(disk.history) + 1
      BY <1>2, <2>1, <2>2
    <2>3. CASE i \in 1 .. Len(disk.history)
      BY <1>2, <2>1, <2>3 DEF States
    <2> QED
      BY <1>2, <2>2, <2>3
  <1>5. ASSUME NEW d \in States \cup {e} PROVE d \in States'
    <2>1. CASE d = e
      <3>1. Len(disk.history) + 1 \in 1 .. Len(disk'.history)
        BY <1>2
      <3> QED
        BY <1>2, <2>1, <3>1 DEF States
    <2>2. CASE d \in States
      <3>1. PICK i \in 1 .. Len(disk.history) : d = disk.history[i]
        BY <2>2 DEF States
      <3>2. i \in 1 .. Len(disk'.history) /\ d = disk'.history[i]
        BY <1>2, <3>1
      <3> QED
        BY <3>2 DEF States
    <2> QED
      BY <1>5, <2>1, <2>2
  <1> QED
    BY <1>2, <1>3, <1>4, <1>5

LEMMA OneState ==
    ASSUME NEW e \in Entries, disk'.history = <<e>>
    PROVE  /\ Now' = e /\ States' = {e}
           /\ disk'.history \in Seq(Entries) /\ disk'.history # <<>>
  <1>1. Len(<<e>>) = 1 /\ <<e>>[1] = e
    OBVIOUS
  <1>2. Now' = e
    BY <1>1 DEF Now
  <1>3. 1 .. Len(<<e>>) = {1}
    BY <1>1
  <1>4. States' = {e}
    BY <1>1, <1>3 DEF States
  <1> QED
    BY <1>2, <1>4

LEMMA SyncedDirectory ==
    ASSUME TypesInv, disk' = DirectorySynced(disk)
    PROVE  /\ Now' = Now /\ States' = {Now} /\ disk' \in DiskType /\ disk'.history # <<>>
           /\ disk'.store = disk.store
           /\ \A i \in Named(Now) \cap Inodes : disk'.file[i] = disk.file[i]
           /\ \A p \in Stores : st[p].temp # 0 => disk'.file[st[p].temp] = disk.file[st[p].temp]
  <1>1. /\ disk.store \in {"absent", "visible", "durable"}
        /\ disk.file \in [Inodes -> FileType]
        /\ disk = [store |-> disk.store, history |-> disk.history, file |-> disk.file]
    BY DEF TypesInv, DiskType
  <1>2. NewFile \in FileType
    BY DEF NewFile, FileOf, FileType, Contents
  <1>3. /\ disk'.history = <<Now>> /\ disk'.store = disk.store
        /\ disk'.file = [i \in Inodes |->
              IF i \in Named(Now) \cup {st[p].temp : p \in Stores} THEN disk.file[i] ELSE NewFile]
        /\ disk' = [store |-> disk'.store, history |-> disk'.history, file |-> disk'.file]
    BY <1>1 DEF DirectorySynced
  <1>4. Now \in Entries
    BY NowIs
  <1>5. /\ Now' = Now /\ States' = {Now}
        /\ disk'.history \in Seq(Entries) /\ disk'.history # <<>>
    BY <1>3, <1>4, OneState
  <1>6. disk'.file \in [Inodes -> FileType]
    BY <1>1, <1>2, <1>3
  <1>7. disk' \in DiskType
    BY <1>1, <1>3, <1>5, <1>6 DEF DiskType
  <1>8. \A p \in Stores : st[p].temp \in 0 .. MaxInode
    BY DEF TypesInv, StoreType
  <1>9. \A p \in Stores : st[p].temp # 0 => st[p].temp \in Inodes
    BY <1>8, FileAssumption DEF Inodes
  <1> QED
    BY <1>3, <1>5, <1>7, <1>9

-----------------------------------------------------------------------------
(* Files. *)

LEMMA FreshIsFree ==
    ASSUME Free # {}
    PROVE  FreshInode \in Free
  <1>1. Free \subseteq Nat
    BY FileAssumption DEF Free, Inodes
  <1>2. PICK i \in Free : \A j \in Free : <<j, i>> \notin OpToRel(<, Nat)
    BY <1>1, NatLessThanWellFounded, WFMin
  <1>3. \A j \in Free : i <= j
    <2> SUFFICES ASSUME NEW j \in Free PROVE i <= j
      OBVIOUS
    <2>1. i \in Nat /\ j \in Nat
      BY <1>1
    <2>2. ~(j < i)
      BY <1>2, <2>1 DEF OpToRel
    <2> QED
      BY <2>1, <2>2
  <1> QED
    BY <1>3 DEF FreshInode

LEMMA FreshInodeIsNew ==
    ASSUME TypesInv, Free # {}
    PROVE  /\ FreshInode \in Inodes /\ FreshInode # 0 /\ FreshInode \in 0 .. MaxInode
           /\ \A e \in States : FreshInode \notin Named(e)
           /\ \A p \in Stores : st[p].temp # FreshInode
  <1>1. FreshInode \in Inodes /\ FreshInode \notin Referenced
    BY FreshIsFree DEF Free
  <1>2. ASSUME NEW e \in States PROVE FreshInode \notin Named(e)
    <2>1. PICK i \in 1 .. Len(disk.history) : e = disk.history[i]
      BY <1>2 DEF States
    <2>2. Named(disk.history[i]) \in {Named(disk.history[j]) : j \in 1 .. Len(disk.history)}
      OBVIOUS
    <2>3. Named(e) \subseteq UNION {Named(disk.history[j]) : j \in 1 .. Len(disk.history)}
      BY <2>1, <2>2, Zenon
    <2>4. Referenced = (UNION {Named(disk.history[j]) : j \in 1 .. Len(disk.history)})
                            \cup {st[p].temp : p \in Stores}
      BY DEF Referenced
    <2>5. Named(e) \subseteq Referenced
      BY <2>3, <2>4, Zenon
    <2> QED
      BY <1>1, <2>5
  <1>3. \A p \in Stores : st[p].temp \in Referenced
    BY DEF Referenced
  <1>4. FreshInode # 0 /\ FreshInode \in 0 .. MaxInode
    BY <1>1, FileAssumption DEF Inodes
  <1> QED
    BY <1>1, <1>2, <1>3, <1>4

LEMMA WrittenFile ==
    ASSUME disk \in DiskType, NEW i \in Inodes, NEW bytes \in Contents,
           disk' = Written(disk, i, bytes)
    PROVE  /\ disk' \in DiskType /\ disk'.store = disk.store /\ disk'.history = disk.history
           /\ disk'.file[i].seen = bytes
           /\ \A j \in Inodes \ {i} : disk'.file[j] = disk.file[j]
  <1>1. /\ disk.file \in [Inodes -> FileType]
        /\ disk = [store |-> disk.store, history |-> disk.history, file |-> disk.file]
    BY DEF DiskType
  <1>2. /\ disk'.store = disk.store /\ disk'.history = disk.history
        /\ disk'.file = [disk.file EXCEPT ![i] =
                            [seen |-> bytes, kept |-> disk.file[i].kept \cup {bytes}]]
        /\ disk' = [store |-> disk'.store, history |-> disk'.history, file |-> disk'.file]
    BY <1>1 DEF Written
  <1>3. [seen |-> bytes, kept |-> disk.file[i].kept \cup {bytes}] \in FileType
    BY <1>1 DEF FileType
  <1>4. disk'.file \in [Inodes -> FileType]
    BY <1>1, <1>2, <1>3
  <1>5. disk' \in DiskType
    BY <1>2, <1>4 DEF DiskType
  <1> QED
    BY <1>1, <1>2, <1>5

LEMMA SyncedFile ==
    ASSUME disk \in DiskType, NEW i \in Inodes, disk' = FileSynced(disk, i)
    PROVE  /\ disk' \in DiskType /\ disk'.store = disk.store /\ disk'.history = disk.history
           /\ disk'.file[i].seen = disk.file[i].seen
           /\ disk'.file[i].kept = {disk.file[i].seen}
           /\ \A j \in Inodes \ {i} : disk'.file[j] = disk.file[j]
  <1>1. /\ disk.file \in [Inodes -> FileType]
        /\ disk = [store |-> disk.store, history |-> disk.history, file |-> disk.file]
        /\ disk.file[i] = [seen |-> disk.file[i].seen, kept |-> disk.file[i].kept]
    BY DEF DiskType, FileType
  <1>2. /\ disk'.store = disk.store /\ disk'.history = disk.history
        /\ disk'.file = [disk.file EXCEPT ![i].kept = {disk.file[i].seen}]
        /\ disk' = [store |-> disk'.store, history |-> disk'.history, file |-> disk'.file]
    BY <1>1 DEF FileSynced
  <1>3. [disk.file[i] EXCEPT !.kept = {disk.file[i].seen}] \in FileType
    BY <1>1 DEF FileType
  <1>4. disk'.file \in [Inodes -> FileType]
    BY <1>1, <1>2, <1>3
  <1>5. disk' \in DiskType
    BY <1>2, <1>4 DEF DiskType
  <1>6. /\ disk'.file[i].seen = disk.file[i].seen
        /\ disk'.file[i].kept = {disk.file[i].seen}
    BY <1>1, <1>2
  <1> QED
    BY <1>1, <1>2, <1>5, <1>6

LEMMA LinkedDisk ==
    ASSUME TypesInv, NEW e \in Entries, disk' = Linked(disk, e)
    PROVE  /\ disk' \in DiskType /\ disk'.store = disk.store /\ disk'.file = disk.file
           /\ Now' = e /\ States' = States \cup {e} /\ disk'.history # <<>>
  <1>1. disk \in DiskType
    BY DEF TypesInv
  <1>2. /\ disk'.store = disk.store /\ disk'.file = disk.file
        /\ disk'.history = Append(disk.history, e)
        /\ disk' = [store |-> disk'.store, history |-> disk'.history, file |-> disk'.file]
    BY <1>1 DEF Linked, DiskType
  <1>3. /\ Now' = e /\ States' = States \cup {e}
        /\ disk'.history \in Seq(Entries) /\ disk'.history # <<>>
    BY <1>2, LinkedHistory
  <1>4. disk' \in DiskType
    BY <1>1, <1>2, <1>3 DEF DiskType
  <1> QED
    BY <1>2, <1>3, <1>4

LEMMA LinkedNewFile ==
    ASSUME TypesInv, NEW e \in Entries, NEW i \in Inodes,
           disk' = [Linked(disk, e) EXCEPT !.file[i] = NewFile]
    PROVE  /\ disk' \in DiskType /\ disk'.store = disk.store
           /\ \A j \in Inodes \ {i} : disk'.file[j] = disk.file[j]
           /\ Now' = e /\ States' = States \cup {e} /\ disk'.history # <<>>
  <1>1. disk \in DiskType /\ disk.file \in [Inodes -> FileType]
    BY DEF TypesInv, DiskType
  <1>2. /\ disk'.store = disk.store /\ disk'.file = [disk.file EXCEPT ![i] = NewFile]
        /\ disk'.history = Append(disk.history, e)
        /\ disk' = [store |-> disk'.store, history |-> disk'.history, file |-> disk'.file]
    BY <1>1 DEF Linked, DiskType
  <1>3. /\ Now' = e /\ States' = States \cup {e}
        /\ disk'.history \in Seq(Entries) /\ disk'.history # <<>>
    BY <1>2, LinkedHistory
  <1>4. NewFile \in FileType
    BY DEF NewFile, FileOf, FileType, Contents
  <1>5. disk'.file \in [Inodes -> FileType]
    BY <1>1, <1>2, <1>4
  <1>6. disk' \in DiskType
    BY <1>1, <1>2, <1>3, <1>5 DEF DiskType
  <1> QED
    BY <1>1, <1>2, <1>3, <1>6

-----------------------------------------------------------------------------
(* What a step leaves alone. *)

\* All that a store at rest depends on in the directory.
DiskStays ==
    /\ Now' = Now /\ States' \subseteq States
    /\ ReadNamedFinal' = ReadNamedFinal /\ Survivors' \subseteq Survivors
    /\ disk.store = "durable" => disk'.store = "durable"
    /\ disk.store # "absent" => disk'.store # "absent"
    /\ \A e \in States' : e.final # 0 => disk'.file[e.final] = disk.file[e.final]
    /\ \A p \in Stores : st[p].pc \in SaveSteps /\ st[p].temp # 0 =>
           disk'.file[st[p].temp] = disk.file[st[p].temp]

OnlyStore(p) ==
    st' \in [Stores -> StoreType] /\ \A q \in Stores \ {p} : st'[q] = st[q]

GhostsStay == nextDoc' = nextDoc /\ acked' = acked /\ denied' = denied

LEMMA SurvivorsAre ==
    Survivors = (IF disk.store = "durable" THEN {} ELSE {Absent})
                    \cup UNION {Kept(e.final) : e \in States}
  <1>1. {Kept(e.final) : e \in States}
            = {Kept(disk.history[i].final) : i \in 1 .. Len(disk.history)}
    BY DEF States
  <1> QED
    BY <1>1 DEF Survivors

LEMMA KeptSurvives ==
    ASSUME NEW d
    PROVE  d \in Survivors <=> \/ disk.store # "durable" /\ d = Absent
                               \/ \E e \in States : d \in Kept(e.final)
  BY SurvivorsAre

LEMMA UnchangedDisk ==
    ASSUME disk' = disk
    PROVE  DiskStays /\ States' = States
  BY DEF DiskStays, Now, States, ReadNamedFinal, Seen, Survivors, Kept

\* No power cut can leave more than before.
LEMMA SurvivorsShrink ==
    ASSUME \A e \in States' : \E d \in States : d.final = e.final,
           \A e \in States' : e.final # 0 => disk'.file[e.final] = disk.file[e.final],
           disk.store = "durable" => disk'.store = "durable"
    PROVE  Survivors' \subseteq Survivors
  <1>1. ASSUME NEW d \in Survivors' PROVE d \in Survivors
    <2>1. \/ disk'.store # "durable" /\ d = Absent
          \/ \E e \in States' : d \in (IF e.final = 0 THEN {Absent} ELSE disk'.file[e.final].kept)
      BY <1>1 DEF Survivors, Kept, States
    <2>2. CASE disk'.store # "durable" /\ d = Absent
      BY <2>2, KeptSurvives
    <2>3. ASSUME NEW e \in States',
                 d \in (IF e.final = 0 THEN {Absent} ELSE disk'.file[e.final].kept)
          PROVE  d \in Survivors
      <3>1. PICK c \in States : c.final = e.final
        BY <2>3
      <3>2. d \in Kept(c.final)
        BY <2>3, <3>1 DEF Kept
      <3> QED
        BY <3>1, <3>2, KeptSurvives
    <2> QED
      BY <2>1, <2>2, <2>3
  <1> QED
    BY <1>1

LEMMA DiskStaysIf ==
    ASSUME TypesInv, Now' = Now, States' \subseteq States,
           disk.store = "durable" => disk'.store = "durable",
           disk.store # "absent" => disk'.store # "absent",
           \A e \in States' : e.final # 0 => disk'.file[e.final] = disk.file[e.final],
           Now \in States',
           \A p \in Stores : st[p].pc \in SaveSteps /\ st[p].temp # 0 =>
               disk'.file[st[p].temp] = disk.file[st[p].temp]
    PROVE  DiskStays
  <1>1. ReadNamedFinal' = ReadNamedFinal
    BY DEF ReadNamedFinal, Seen
  <1>2. Survivors' \subseteq Survivors
    BY SurvivorsShrink
  <1> QED
    BY <1>1, <1>2 DEF DiskStays

LEMMA SyncStays ==
    ASSUME TypesInv, disk' = DirectorySynced(disk)
    PROVE  /\ DiskStays /\ Settled' /\ disk' \in DiskType /\ disk'.history # <<>>
           /\ disk'.store = disk.store
  <1>1. /\ Now' = Now /\ States' = {Now} /\ disk' \in DiskType /\ disk'.history # <<>>
        /\ disk'.store = disk.store
        /\ \A i \in Named(Now) \cap Inodes : disk'.file[i] = disk.file[i]
        /\ \A p \in Stores : st[p].temp # 0 => disk'.file[st[p].temp] = disk.file[st[p].temp]
    BY SyncedDirectory
  <1>2. Now \in States /\ Now \in Entries
    BY NowIs
  <1>3. Now.final # 0 => Now.final \in Named(Now) \cap Inodes
    BY <1>2, FileAssumption DEF Entries, Named, Inodes
  <1>4. DiskStays
    BY <1>1, <1>2, <1>3, DiskStaysIf
  <1>5. Settled'
    BY <1>1 DEF Settled
  <1> QED
    BY <1>1, <1>4, <1>5

LEMMA StoreDirectoryStays ==
    ASSUME TypesInv, NEW s \in {"absent", "visible", "durable"}, disk' = [disk EXCEPT !.store = s],
           disk.store = "durable" => s = "durable", disk.store # "absent" => s # "absent"
    PROVE  DiskStays /\ disk' \in DiskType /\ disk'.history # <<>> /\ disk'.store = s
  <1>1. disk \in DiskType /\ disk.history # <<>>
    BY DEF TypesInv
  <1>2. /\ disk' \in DiskType /\ disk'.store = s /\ disk'.history = disk.history
        /\ disk'.file = disk.file
    BY <1>1 DEF DiskType
  <1>3. Now' = Now /\ States' = States /\ Now \in States
    BY <1>2, SameHistory, NowIs
  <1>4. DiskStays
    BY <1>2, <1>3, DiskStaysIf
  <1> QED
    BY <1>1, <1>2, <1>4

LEMMA DirectoryStays ==
    ASSUME TypesInv, DirectoryInv, DiskStays, nextDoc' \in Int, nextDoc <= nextDoc'
    PROVE  DirectoryInv'
  <1>1. nextDoc \in Int
    BY FileAssumption DEF TypesInv
  <1>2. ASSUME NEW e \in States', e.final # 0
        PROVE  disk'.store = "durable" /\ Whole(e.final)'
    <2>1. disk.store = "durable" /\ Whole(e.final) /\ disk'.file[e.final] = disk.file[e.final]
      BY <1>2 DEF DirectoryInv, FinalsAreWhole, DiskStays
    <2>2. disk.file[e.final].seen \in Docs
      BY <2>1 DEF Whole
    <2>3. disk.file[e.final].seen.id \in Int
      BY <2>2 DEF Docs
    <2>4. Issued(disk.file[e.final].seen)'
      BY <1>1, <2>1, <2>3 DEF Whole, Issued
    <2> QED
      BY <2>1, <2>4 DEF Whole, DiskStays
  <1>3. FinalsAreWhole'
    BY <1>2 DEF FinalsAreWhole
  <1>4. NamesAreApart'
    BY DEF DirectoryInv, NamesAreApart, DiskStays
  <1>5. TwoFinals'
    BY DEF DirectoryInv, TwoFinals, DiskStays
  <1> QED
    BY <1>3, <1>4, <1>5 DEF DirectoryInv

\* A store keeps what it knows while it does not move.
LEMMA StoreStays ==
    ASSUME TypesInv, NEW q \in Stores, StoreInv(q), DiskStays, GhostsStay,
           flock' = q <=> flock = q,
           st'[q].pc = st[q].pc, st'[q].poison = st[q].poison, st'[q].snap = st[q].snap,
           st'[q].ready = st[q].ready, st'[q].temp = st[q].temp, st'[q].doc = st[q].doc
    PROVE  StoreInv(q)'
  <1>1. OpeningInv(q)'
    BY DEF StoreInv, OpeningInv, DiskStays, OpenSteps, Unlocked
  <1>2. Settled => Settled'
    BY DEF Settled, DiskStays
  <1>3. SettledInv(q)'
    BY <1>2 DEF StoreInv, SettledInv, DiskStays, Usable
  <1>4. SnapshotInv(q)'
    BY DEF StoreInv, SnapshotInv, DiskStays, Usable
  <1>5. st[q].pc \in SaveSteps => disk'.file[st[q].temp] = disk.file[st[q].temp]
    BY DEF StoreInv, SavingInv, DiskStays
  <1>7. SavingInv(q)'
    <2>1. st[q].pc \in SaveSteps =>
              /\ st[q].doc \in Docs /\ Issued(st[q].doc) /\ st[q].doc \notin denied
              /\ st[q].temp # 0
      BY DEF StoreInv, SavingInv
    <2>2. st[q].pc \in BeforeReplace =>
           /\ Now.temp = st[q].temp
           /\ \A e \in States : e.final # st[q].temp
           /\ st[q].doc.gen = st[q].snap.doc.gen + 1
           /\ st[q].doc \notin Survivors /\ st[q].doc \notin acked
      BY DEF StoreInv, SavingInv
    <2>3. st[q].pc \in BeforeReplace =>
           /\ Now'.temp = st[q].temp
           /\ \A e \in States' : e.final # st[q].temp
           /\ st[q].doc \notin Survivors'
      BY <2>2 DEF DiskStays
    <2>4. /\ st[q].pc \in {"temp_fsync", "replace"} => disk.file[st[q].temp].seen = st[q].doc
          /\ st[q].pc = "replace" => disk.file[st[q].temp].kept = {st[q].doc}
          /\ st[q].pc \in AfterReplace =>
               Now.final = st[q].temp /\ disk.file[st[q].temp].seen = st[q].doc
      BY DEF StoreInv, SavingInv
    <2>5. /\ st[q].pc \in {"temp_fsync", "replace"} => disk'.file[st[q].temp].seen = st[q].doc
          /\ st[q].pc = "replace" => disk'.file[st[q].temp].kept = {st[q].doc}
          /\ st[q].pc \in AfterReplace =>
               Now'.final = st[q].temp /\ disk'.file[st[q].temp].seen = st[q].doc
      BY <1>5, <2>4 DEF DiskStays, SaveSteps, BeforeReplace, AfterReplace
    <2>6. Issued(st[q].doc) => Issued(st[q].doc)'
      BY DEF Issued, GhostsStay
    <2> QED
      BY <2>1, <2>2, <2>3, <2>5, <2>6 DEF SavingInv, GhostsStay
  <1> QED
    BY <1>1, <1>3, <1>4, <1>7 DEF StoreInv

\* A store that has no flock only knows how far its opening has come.
LEMMA OtherUnlocked ==
    ASSUME NEW q \in Stores, StoreInv(q), st'[q] = st[q], st[q].pc \in Unlocked, flock' # q,
           disk.store = "durable" => disk'.store = "durable",
           disk.store # "absent" => disk'.store # "absent",
           Now.lock # 0 => Now'.lock # 0
    PROVE  StoreInv(q)'
  <1>1. OpeningInv(q)'
    BY DEF StoreInv, OpeningInv
  <1>2. SettledInv(q)' /\ SnapshotInv(q)' /\ SavingInv(q)'
    BY DEF SettledInv, SnapshotInv, SavingInv, Unlocked, Usable, SaveSteps, BeforeReplace,
           AfterReplace
  <1> QED
    BY <1>1, <1>2 DEF StoreInv

\* A store that is gone knows nothing.
LEMMA GoneStore ==
    ASSUME NEW p \in Stores, st'[p] = Gone, flock' # p
    PROVE  StoreInv(p)'
  BY DEF StoreInv, OpeningInv, SettledInv, SnapshotInv, SavingInv, Gone, Unlocked, Usable,
         SaveSteps, BeforeReplace, AfterReplace, OpenSteps

LEMMA OwnerIsAlone ==
    ASSUME NEW p \in Stores, NEW q \in Stores \ {p}, StoreInv(p), StoreInv(q),
           st[p].pc \notin Unlocked
    PROVE  flock = p /\ st[q].pc \in Unlocked
  BY DEF StoreInv, OpeningInv

-----------------------------------------------------------------------------
(* A step of one store: what has to be shown of it. *)

Steps == OpenSteps \cup SaveSteps \cup Resting \cup {"barrier"}

\* Only the program counter of p moves.
Moves(p, c) ==
    /\ OnlyStore(p) /\ st'[p].pc = c
    /\ st'[p].created = st[p].created /\ st'[p].snap = st[p].snap /\ st'[p].ready = st[p].ready
    /\ st'[p].poison = st[p].poison /\ st'[p].temp = st[p].temp /\ st'[p].doc = st[p].doc
    /\ st'[p].queue = st[p].queue /\ st'[p].closing = st[p].closing

LEMMA QueueKept ==
    ASSUME QueuesInv, TypesInv, NEW p \in Stores, OnlyStore(p), nextDoc' = nextDoc,
           \/ st'[p].queue = st[p].queue /\ st'[p].closing = st[p].closing
           \/ st'[p].queue = <<>>
    PROVE  QueuesInv'
  <1>1. \A q \in Stores : Queues'[q] = Queues[q] \/ Queues'[q] = <<>>
    BY DEF Queues, OnlyStore
  <1>2. Cardinality(Queued(Queues')) <= Cardinality(Queued(Queues))
    BY <1>1, QueueEmptied
  <1>3. Cardinality(Queued(Queues')) \in Nat /\ Cardinality(Queued(Queues)) \in Nat
    BY QueuedIsFinite
  <1>4. QueuedSaves = Queued(Queues) /\ QueuedSaves' = Queued(Queues')
    BY DEF QueuedSaves, Queued, Queues
  <1>5. nextDoc' + Cardinality(QueuedSaves') <= MaxDocs + 1
    BY <1>2, <1>3, <1>4, FileAssumption DEF QueuesInv, TypesInv
  <1>6. ASSUME NEW q \in Stores
        PROVE  Len(st'[q].queue) <= MaxQueue + 1
               /\ (~st'[q].closing => Len(st'[q].queue) <= MaxQueue)
    BY FileAssumption DEF QueuesInv, OnlyStore
  <1> QED
    BY <1>5, <1>6 DEF QueuesInv

\* An operation leaves the queue; a save that leaves it may take a document.
LEMMA QueueDone ==
    ASSUME QueuesInv, TypesInv, NEW p \in Stores, OnlyStore(p), st[p].queue # <<>>,
           st'[p].queue = Tail(st[p].queue), st'[p].closing = st[p].closing,
           nextDoc' = nextDoc \/ (nextDoc' = nextDoc + 1 /\ Head(st[p].queue) = "save")
    PROVE  QueuesInv' /\ (Head(st[p].queue) = "save" => nextDoc <= MaxDocs)
  <1>1. Queues \in [Stores -> Seq(Operations)] /\ Queues[p] = st[p].queue
    BY DEF Queues, TypesInv, StoreType
  <1>2. Queues' = [Queues EXCEPT ![p] = Tail(st[p].queue)]
    BY DEF Queues, OnlyStore
  <1>3. PICK Q \in [Stores -> Seq(Operations)] : Q = Queues
    BY <1>1
  <1>4. PICK R : R = [Q EXCEPT ![p] = Tail(@)]
    OBVIOUS
  <1>5. R = Queues' /\ Q[p] = st[p].queue
    BY <1>1, <1>2, <1>3, <1>4
  <1>6. Q[p] # <<>> /\ Len(Q[p]) <= MaxQueue + 1
    BY <1>5 DEF QueuesInv
  <1>7. /\ Cardinality(Queued(R)) <= Cardinality(Queued(Q))
        /\ Head(Q[p]) = "save" => Cardinality(Queued(R)) + 1 <= Cardinality(Queued(Q))
    BY <1>4, <1>6, QueueShrinks
  <1>8. Cardinality(Queued(R)) \in Nat /\ Cardinality(Queued(Q)) \in Nat
    BY QueuedIsFinite
  <1>9. QueuedSaves = Queued(Q) /\ QueuedSaves' = Queued(R)
    <2>1. QueuedSaves = Queued(Queues) /\ QueuedSaves' = Queued(Queues')
      BY DEF QueuedSaves, Queued, Queues
    <2> QED
      BY <1>3, <1>5, <2>1
  <1>10. nextDoc' + Cardinality(QueuedSaves') <= MaxDocs + 1
    BY <1>5, <1>7, <1>8, <1>9, FileAssumption DEF QueuesInv, TypesInv
  <1>11. Head(st[p].queue) = "save" => nextDoc <= MaxDocs
    BY <1>5, <1>7, <1>8, <1>9, FileAssumption DEF QueuesInv, TypesInv
  <1>12. ASSUME NEW q \in Stores
         PROVE  Len(st'[q].queue) <= MaxQueue + 1
                /\ (~st'[q].closing => Len(st'[q].queue) <= MaxQueue)
    <2>1. CASE q # p
      BY <2>1 DEF QueuesInv, OnlyStore
    <2>2. CASE q = p
      <3>1. st[p].queue \in Seq(Operations)
        BY DEF TypesInv, StoreType
      <3>2. Len(st'[p].queue) = Len(st[p].queue) - 1 /\ Len(st[p].queue) \in Nat
        BY <3>1
      <3>3. Len(st[p].queue) <= MaxQueue + 1
            /\ (~st[p].closing => Len(st[p].queue) <= MaxQueue)
        BY DEF QueuesInv
      <3>4. Len(st'[p].queue) <= MaxQueue + 1
        BY <3>2, <3>3, FileAssumption
      <3>5. ~st[p].closing => Len(st'[p].queue) <= MaxQueue
        BY <3>2, <3>3, FileAssumption
      <3> QED
        BY <2>2, <3>4, <3>5
    <2> QED
      BY <2>1, <2>2
  <1> QED
    BY <1>10, <1>11, <1>12 DEF QueuesInv

LEMMA Goes ==
    ASSUME TypesInv, NEW p \in Stores, NEW c \in Steps, Goto(p, c)
    PROVE  Moves(p, c)
  <1>1. st \in [Stores -> StoreType] /\ st[p] \in StoreType
    BY DEF TypesInv
  <1>2. st' = [st EXCEPT ![p] = [st[p] EXCEPT !.pc = c]]
    BY DEF Goto
  <1>3. [st[p] EXCEPT !.pc = c] \in StoreType
    BY <1>1 DEF StoreType, Steps
  <1>4. st' \in [Stores -> StoreType] /\ \A q \in Stores \ {p} : st'[q] = st[q]
    BY <1>1, <1>2, <1>3
  <1>5. st'[p] = [st[p] EXCEPT !.pc = c]
    BY <1>1, <1>2
  <1>6. /\ st'[p].pc = c /\ st'[p].created = st[p].created
        /\ st'[p].snap = st[p].snap /\ st'[p].ready = st[p].ready
        /\ st'[p].poison = st[p].poison /\ st'[p].temp = st[p].temp /\ st'[p].doc = st[p].doc
        /\ st'[p].queue = st[p].queue /\ st'[p].closing = st[p].closing
    BY <1>1, <1>5 DEF StoreType
  <1> QED
    BY <1>4, <1>6 DEF Moves, OnlyStore

LEMMA GoneIsAStore == Gone \in StoreType
  <1>1. <<>> \in Seq(Operations) /\ 0 \in 0 .. MaxInode
    BY FileAssumption
  <1> QED
    BY <1>1 DEF Gone, StoreType, Resting

LEMMA Leaves ==
    ASSUME TypesInv, NEW p \in Stores, st' = [st EXCEPT ![p] = Gone]
    PROVE  OnlyStore(p) /\ st'[p] = Gone /\ st'[p].queue = <<>>
  <1>1. st'[p] = Gone
    BY DEF TypesInv
  <1> QED
    BY <1>1, GoneIsAStore DEF OnlyStore, Gone, TypesInv

\* The flock, the documents and the others stay as they are.
Outside == flock' = flock /\ children' = {} /\ GhostsStay
Bounded == mishaps' \in 0 .. MaxMishaps /\ forks' \in 0 .. 1

LEMMA QuietTypes ==
    ASSUME TypesInv, NEW p \in Stores, OnlyStore(p), disk' \in DiskType, disk'.history # <<>>,
           flock' \in Stores \cup {NoStore}, children' = {}, GhostsStay, Bounded
    PROVE  TypesInv'
  BY DEF TypesInv, OnlyStore, GhostsStay, Bounded

\* A step that leaves the names, the flock and the documents as they were.
LEMMA QuietStep ==
    ASSUME FileInv, NEW p \in Stores, OnlyStore(p), disk' \in DiskType, disk'.history # <<>>,
           DiskStays, Outside, Bounded, QueuesInv', StoreInv(p)'
    PROVE  FileInv'
  <1>1. TypesInv'
    BY QuietTypes DEF FileInv, Outside, TypesInv
  <1>2. DirectoryInv'
    BY <1>1, DirectoryStays, FileAssumption DEF FileInv, Outside, GhostsStay, TypesInv
  <1>3. ReportedInv'
    BY DEF FileInv, ReportedInv, Outside, GhostsStay
  <1>4. ASSUME NEW q \in Stores PROVE StoreInv(q)'
    <2>1. CASE q = p
      BY <2>1
    <2>2. CASE q # p
      <3>1. st'[q] = st[q] /\ flock' = flock
        BY <2>2 DEF OnlyStore, Outside
      <3> QED
        BY <3>1, StoreStays DEF FileInv, Outside
    <2> QED
      BY <2>1, <2>2
  <1> QED
    BY <1>1, <1>2, <1>3, <1>4 DEF FileInv

\* A step of the store that holds the flock, or of one that takes or leaves it.
LEMMA OwnerStep ==
    ASSUME FileInv, NEW p \in Stores, OnlyStore(p), TypesInv', QueuesInv', DirectoryInv',
           ReportedInv', StoreInv(p)', \A q \in Stores \ {p} : st[q].pc \in Unlocked,
           flock' \in {p, NoStore} \cup ({flock} \ Stores), disk'.store = disk.store,
           Now.lock # 0 => Now'.lock # 0
    PROVE  FileInv'
  <1>1. ASSUME NEW q \in Stores PROVE StoreInv(q)'
    <2>1. CASE q = p
      BY <2>1
    <2>2. CASE q # p
      <3>1. st'[q] = st[q] /\ st[q].pc \in Unlocked /\ flock' # q
        BY <2>2, FileAssumption DEF OnlyStore
      <3> QED
        BY <3>1, OtherUnlocked DEF FileInv
    <2> QED
      BY <2>1, <2>2
  <1> QED
    BY <1>1 DEF FileInv

\* A store that gives up: nothing is left of it, and its flock goes with it.
LEMMA GivesUp ==
    ASSUME FileInv, NEW p \in Stores, st' = [st EXCEPT ![p] = Gone], disk' = disk,
           flock' = (IF flock = p THEN NoStore ELSE flock), children' = {}, GhostsStay, Bounded
    PROVE  FileInv'
  <1>1. OnlyStore(p) /\ st'[p] = Gone /\ st'[p].queue = <<>>
    BY Leaves DEF FileInv
  <1>2. TypesInv'
    BY <1>1, QuietTypes DEF FileInv, TypesInv
  <1>3. QueuesInv'
    BY <1>1, QueueKept DEF FileInv, GhostsStay
  <1>4. DiskStays
    BY UnchangedDisk
  <1>5. DirectoryInv'
    BY <1>4, DirectoryStays, FileAssumption DEF FileInv, GhostsStay, TypesInv
  <1>6. ReportedInv'
    BY DEF FileInv, ReportedInv, GhostsStay
  <1>7. flock' # p
    BY FileAssumption
  <1>8. ASSUME NEW q \in Stores PROVE StoreInv(q)'
    <2>1. CASE q = p
      BY <1>1, <1>7, <2>1, GoneStore
    <2>2. CASE q # p
      <3>1. st'[q] = st[q] /\ (flock' = q <=> flock = q)
        BY <1>1, <2>2, FileAssumption DEF OnlyStore
      <3> QED
        BY <1>4, <3>1, StoreStays DEF FileInv
    <2> QED
      BY <2>1, <2>2
  <1> QED
    BY <1>2, <1>3, <1>5, <1>6, <1>8 DEF FileInv

\* While a store is being opened only its OpeningInv says anything.
LEMMA StillOpening ==
    ASSUME NEW p \in Stores, st'[p].pc \in Unlocked, OpeningInv(p)'
    PROVE  StoreInv(p)'
  BY DEF StoreInv, SettledInv, SnapshotInv, SavingInv, Unlocked, Usable, SaveSteps,
         BeforeReplace, AfterReplace

-----------------------------------------------------------------------------
(* Opening. *)

LEMMA OpenDirectoryStep ==
    ASSUME FileInv, NEW p \in Stores, OpenDirectory(p)
    PROVE  FileInv'
  <1>1. /\ st[p].pc = "down" /\ Goto(p, "sync")
        /\ disk' = [disk EXCEPT !.store = IF disk.store = "absent" THEN "visible" ELSE disk.store]
        /\ Outside /\ Bounded
    BY DEF OpenDirectory, Ghosts, Bounds, Outside, Bounded, GhostsStay, FileInv, TypesInv
  <1>2. Moves(p, "sync")
    BY <1>1, Goes DEF FileInv, Steps, OpenSteps
  <1>3. QueuesInv'
    BY <1>1, <1>2, QueueKept DEF FileInv, Moves, Outside, GhostsStay
  <1>4. PICK s \in {"absent", "visible", "durable"} :
            s = IF disk.store = "absent" THEN "visible" ELSE disk.store
    BY DEF FileInv, TypesInv, DiskType
  <1>5. DiskStays /\ disk' \in DiskType /\ disk'.history # <<>> /\ disk'.store = s
    BY <1>1, <1>4, StoreDirectoryStays DEF FileInv
  <1>6. s # "absent" /\ Now' = Now
    BY <1>4, <1>5 DEF DiskStays
  <1>7. OpeningInv(p)'
    BY <1>1, <1>2, <1>5, <1>6
       DEF FileInv, StoreInv, OpeningInv, Moves, Outside, Unlocked, OpenSteps
  <1>8. StoreInv(p)'
    BY <1>2, <1>7, StillOpening DEF Moves, Unlocked
  <1> QED
    BY <1>1, <1>2, <1>3, <1>5, <1>8, QuietStep DEF Moves

LEMMA SyncStoreDirectoryStep ==
    ASSUME FileInv, NEW p \in Stores, SyncStoreDirectory(p)
    PROVE  FileInv'
  <1>1. /\ st[p].pc = "sync" /\ Goto(p, "anchor") /\ disk' = DirectorySynced(disk)
        /\ Outside /\ Bounded
    BY DEF SyncStoreDirectory, Ghosts, Bounds, Outside, Bounded, GhostsStay, FileInv, TypesInv
  <1>2. Moves(p, "anchor")
    BY <1>1, Goes DEF FileInv, Steps, OpenSteps
  <1>3. QueuesInv'
    BY <1>1, <1>2, QueueKept DEF FileInv, Moves, Outside, GhostsStay
  <1>4. DiskStays /\ disk' \in DiskType /\ disk'.history # <<>> /\ disk'.store = disk.store
    BY <1>1, SyncStays DEF FileInv
  <1>5. OpeningInv(p)'
    BY <1>1, <1>2, <1>4
       DEF FileInv, StoreInv, OpeningInv, Moves, Outside, Unlocked, OpenSteps, DiskStays
  <1>6. StoreInv(p)'
    BY <1>2, <1>5, StillOpening DEF Moves, Unlocked
  <1> QED
    BY <1>1, <1>2, <1>3, <1>4, <1>6, QuietStep DEF Moves

LEMMA FsyncConfigAnchorStep ==
    ASSUME FileInv, NEW p \in Stores, FsyncConfigAnchor(p)
    PROVE  FileInv'
  <1>1. /\ st[p].pc = "anchor" /\ Goto(p, "lock") /\ disk' = [disk EXCEPT !.store = "durable"]
        /\ Outside /\ Bounded
    BY DEF FsyncConfigAnchor, Ghosts, Bounds, Outside, Bounded, GhostsStay, FileInv, TypesInv
  <1>2. Moves(p, "lock")
    BY <1>1, Goes DEF FileInv, Steps, OpenSteps
  <1>3. QueuesInv'
    BY <1>1, <1>2, QueueKept DEF FileInv, Moves, Outside, GhostsStay
  <1>4. DiskStays /\ disk' \in DiskType /\ disk'.history # <<>> /\ disk'.store = "durable"
    BY <1>1, StoreDirectoryStays DEF FileInv
  <1>5. OpeningInv(p)'
    BY <1>1, <1>2, <1>4
       DEF FileInv, StoreInv, OpeningInv, Moves, Outside, Unlocked, OpenSteps, DiskStays
  <1>6. StoreInv(p)'
    BY <1>2, <1>5, StillOpening DEF Moves, Unlocked
  <1> QED
    BY <1>1, <1>2, <1>3, <1>4, <1>6, QuietStep DEF Moves

\* The lock file appears under a name nobody had.
LEMMA LockLinked ==
    ASSUME FileInv, Now.lock = 0, Free # {},
           disk' = [Linked(disk, [Now EXCEPT !.lock = FreshInode])
                        EXCEPT !.file[FreshInode] = NewFile],
           nextDoc' = nextDoc
    PROVE  /\ disk' \in DiskType /\ disk'.history # <<>> /\ disk'.store = disk.store
           /\ Now'.lock # 0 /\ DirectoryInv'
  <1> DEFINE e == [Now EXCEPT !.lock = FreshInode]
  <1>1. /\ FreshInode \in Inodes /\ FreshInode # 0 /\ FreshInode \in 0 .. MaxInode
        /\ \A d \in States : FreshInode \notin Named(d)
    BY FreshInodeIsNew DEF FileInv
  <1>2. Now \in States /\ Now \in Entries /\ States \subseteq Entries
    BY NowIs DEF FileInv
  <1>3. /\ e \in Entries /\ e.lock = FreshInode /\ e.final = Now.final /\ e.temp = Now.temp
    BY <1>1, <1>2 DEF Entries
  <1>4. /\ disk' \in DiskType /\ disk'.store = disk.store
        /\ \A j \in Inodes \ {FreshInode} : disk'.file[j] = disk.file[j]
        /\ Now' = e /\ States' = States \cup {e} /\ disk'.history # <<>>
    BY <1>1, <1>3, LinkedNewFile DEF FileInv
  <1> HIDE DEF e
  <1>5. \A d \in States : /\ d.final # FreshInode /\ d.temp # FreshInode
                          /\ d.final # 0 => d.final \in Inodes \ {FreshInode}
    <2> SUFFICES ASSUME NEW d \in States
                 PROVE  /\ d.final # FreshInode /\ d.temp # FreshInode
                        /\ d.final # 0 => d.final \in Inodes \ {FreshInode}
      OBVIOUS
    <2>1. d \in Entries /\ FreshInode \notin {d.final, d.temp, d.lock}
      BY <1>1, <1>2 DEF Named
    <2> QED
      BY <2>1, FileAssumption DEF Entries, Inodes
  <1>6. FinalsAreWhole'
    <2> SUFFICES ASSUME NEW d \in States', d.final # 0
                 PROVE  disk'.store = "durable" /\ Whole(d.final)'
      BY DEF FinalsAreWhole
    <2>1. PICK c \in States : c.final = d.final
      BY <1>2, <1>3, <1>4
    <2>2. disk'.file[d.final] = disk.file[d.final]
      BY <1>4, <1>5, <2>1
    <2>3. disk.store = "durable" /\ Whole(d.final)
      BY <2>1 DEF FileInv, DirectoryInv, FinalsAreWhole
    <2> QED
      BY <1>4, <2>2, <2>3 DEF Whole, Issued
  <1>7. NamesAreApart'
    <2> SUFFICES ASSUME NEW d \in States'
                 PROVE  /\ d.lock \in {0, Now'.lock}
                        /\ d.final # 0 => d.final # Now'.lock /\ d.final # d.temp
                        /\ d.temp # 0 => d.temp # Now'.lock
      BY DEF NamesAreApart
    <2>1. \A c \in States : c.lock = 0 /\ (c.final # 0 => c.final # c.temp)
      BY DEF FileInv, DirectoryInv, NamesAreApart
    <2>2. CASE d \in States
      BY <1>3, <1>4, <1>5, <2>1, <2>2
    <2>3. CASE d = e
      BY <1>2, <1>3, <1>4, <1>5, <2>1, <2>3
    <2> QED
      BY <1>4, <2>2, <2>3
  <1>8. TwoFinals'
    BY <1>2, <1>3, <1>4 DEF FileInv, DirectoryInv, TwoFinals
  <1> QED
    BY <1>1, <1>3, <1>4, <1>6, <1>7, <1>8 DEF DirectoryInv

LEMMA CreateOrOpenLockStep ==
    ASSUME FileInv, NEW p \in Stores, CreateOrOpenLock(p)
    PROVE  FileInv'
  <1>1. st[p].pc = "lock" /\ Outside /\ Bounded
    BY DEF CreateOrOpenLock, Ghosts, Bounds, Outside, Bounded, GhostsStay, FileInv, TypesInv
  <1>2. CASE Now.lock # 0 /\ Goto(p, "flock") /\ disk' = disk
    <2>1. Moves(p, "flock")
      BY <1>2, Goes DEF FileInv, Steps, OpenSteps
    <2>2. QueuesInv'
      BY <1>1, <2>1, QueueKept DEF FileInv, Moves, Outside, GhostsStay
    <2>3. DiskStays
      BY <1>2, UnchangedDisk
    <2>4. OpeningInv(p)'
      BY <1>1, <1>2, <2>1, <2>3
         DEF FileInv, StoreInv, OpeningInv, Moves, Outside, Unlocked, OpenSteps, DiskStays
    <2>5. StoreInv(p)'
      BY <2>1, <2>4, StillOpening DEF Moves, Unlocked
    <2>6. disk' \in DiskType /\ disk'.history # <<>>
      BY <1>2 DEF FileInv, TypesInv
    <2> QED
      BY <1>1, <2>1, <2>2, <2>3, <2>5, <2>6, QuietStep DEF Moves
  <1>3. CASE /\ Now.lock = 0 /\ Free # {}
             /\ disk' = [Linked(disk, [Now EXCEPT !.lock = FreshInode])
                            EXCEPT !.file[FreshInode] = NewFile]
             /\ st' = [st EXCEPT ![p].pc = "flock", ![p].created = TRUE]
    <2>1. /\ OnlyStore(p) /\ st'[p].pc = "flock" /\ st'[p].snap = st[p].snap
          /\ st'[p].ready = st[p].ready
          /\ st'[p].queue = st[p].queue /\ st'[p].closing = st[p].closing
      <3>1. st \in [Stores -> StoreType] /\ st[p] \in StoreType
        BY DEF FileInv, TypesInv
      <3>2. st' = [st EXCEPT ![p] = [st[p] EXCEPT !.pc = "flock", !.created = TRUE]]
        BY <1>3
      <3>3. [st[p] EXCEPT !.pc = "flock", !.created = TRUE] \in StoreType
        BY <3>1 DEF StoreType, OpenSteps
      <3>4. st'[p] = [st[p] EXCEPT !.pc = "flock", !.created = TRUE]
        BY <3>1, <3>2
      <3>5. st' \in [Stores -> StoreType] /\ \A q \in Stores \ {p} : st'[q] = st[q]
        BY <3>1, <3>2, <3>3
      <3> QED
        BY <3>1, <3>4, <3>5 DEF StoreType, OnlyStore
    <2>2. /\ disk' \in DiskType /\ disk'.history # <<>> /\ disk'.store = disk.store
          /\ Now'.lock # 0 /\ DirectoryInv'
      BY <1>1, <1>3, LockLinked DEF Outside, GhostsStay
    <2>3. QueuesInv'
      BY <1>1, <2>1, QueueKept DEF FileInv, Outside, GhostsStay
    <2>4. TypesInv'
      BY <1>1, <2>1, <2>2, QuietTypes DEF FileInv, Outside, TypesInv
    <2>5. OpeningInv(p)'
      BY <1>1, <2>1, <2>2 DEF FileInv, StoreInv, OpeningInv, Outside, Unlocked, OpenSteps
    <2>6. StoreInv(p)'
      BY <2>1, <2>5, StillOpening DEF Unlocked
    <2>7. \A q \in Stores : st[q].pc \in Unlocked /\ flock # q
      BY <1>3 DEF FileInv, StoreInv, OpeningInv
    <2>8. flock' \in {flock} \ Stores
      BY <1>1, <2>7 DEF Outside
    <2>9. ReportedInv'
      BY <1>1 DEF FileInv, ReportedInv, Outside, GhostsStay
    <2> QED
      BY <2>1, <2>2, <2>3, <2>4, <2>6, <2>7, <2>8, <2>9, OwnerStep
  <1> QED
    BY <1>2, <1>3 DEF CreateOrOpenLock

LEMMA AcquireLockStep ==
    ASSUME FileInv, NEW p \in Stores, AcquireLock(p)
    PROVE  FileInv'
  <1>1. /\ st[p].pc = "flock" /\ disk' = disk /\ children' = {} /\ GhostsStay /\ Bounded
        /\ \/ st' = [st EXCEPT ![p] = Gone] /\ flock' = flock
           \/ /\ flock = NoStore /\ flock' = p
              /\ \E c \in {"protocol", "lock_fsync"} : Goto(p, c)
    BY DEF AcquireLock, FlockGranted, Ghosts, Bounds, Bounded, GhostsStay, FileInv, TypesInv
  <1>2. CASE st' = [st EXCEPT ![p] = Gone] /\ flock' = flock
    <2>1. flock' = IF flock = p THEN NoStore ELSE flock
      BY <1>1, <1>2 DEF FileInv, StoreInv, OpeningInv, Unlocked
    <2> QED
      BY <1>1, <1>2, <2>1, GivesUp
  <1>3. CASE /\ flock = NoStore /\ flock' = p
             /\ \E c \in {"protocol", "lock_fsync"} : Goto(p, c)
    <2>1. PICK c \in {"protocol", "lock_fsync"} : Goto(p, c)
      BY <1>3
    <2>2. Moves(p, c)
      BY <2>1, Goes DEF FileInv, Steps, OpenSteps
    <2>3. QueuesInv'
      BY <1>1, <2>2, QueueKept DEF FileInv, Moves, GhostsStay
    <2>4. DiskStays /\ disk' \in DiskType /\ disk'.history # <<>> /\ Now' = Now
      BY <1>1, UnchangedDisk DEF FileInv, TypesInv, DiskStays
    <2>5. TypesInv'
      BY <1>1, <1>3, <2>2, <2>4, QuietTypes DEF FileInv, Moves
    <2>6. DirectoryInv'
      BY <1>1, <2>4, DirectoryStays, FileAssumption DEF FileInv, GhostsStay, TypesInv
    <2>7. ReportedInv'
      BY <1>1 DEF FileInv, ReportedInv, GhostsStay
    <2>8. \A q \in Stores : st[q].pc \in Unlocked
      BY <1>3, FileAssumption DEF FileInv, StoreInv, OpeningInv
    <2>9. OpeningInv(p)'
      BY <1>1, <1>3, <2>2, <2>4
         DEF FileInv, StoreInv, OpeningInv, Moves, Unlocked, OpenSteps
    <2>10. SettledInv(p)' /\ SnapshotInv(p)' /\ SavingInv(p)'
      BY <2>2 DEF SettledInv, SnapshotInv, SavingInv, Moves, Usable, SaveSteps, BeforeReplace,
                  AfterReplace
    <2>11. StoreInv(p)'
      BY <2>9, <2>10 DEF StoreInv
    <2> QED
      BY <1>1, <1>3, <2>2, <2>3, <2>4, <2>5, <2>6, <2>7, <2>8, <2>11, OwnerStep DEF Moves
  <1> QED
    BY <1>1, <1>2, <1>3

\* The lock file has a name and contents of its own.
LEMMA LockFileStays ==
    ASSUME FileInv, \A q \in Stores : st[q].pc \notin SaveSteps,
           disk'.history = disk.history, disk'.store = disk.store,
           \A j \in Inodes \ {Now.lock} : disk'.file[j] = disk.file[j]
    PROVE  DiskStays
  <1>1. Now \in States /\ States \subseteq Entries
    BY NowIs DEF FileInv
  <1>2. Now' = Now /\ States' = States
    BY SameHistory
  <1>3. \A e \in States : e.final # 0 => e.final \in Inodes \ {Now.lock}
    <2> SUFFICES ASSUME NEW e \in States, e.final # 0 PROVE e.final \in Inodes \ {Now.lock}
      OBVIOUS
    <2>1. e.final \in 0 .. MaxInode
      BY <1>1 DEF Entries
    <2>2. e.final # Now.lock
      BY DEF FileInv, DirectoryInv, NamesAreApart
    <2> QED
      BY <2>1, <2>2, FileAssumption DEF Inodes
  <1> QED
    BY <1>1, <1>2, <1>3, DiskStaysIf DEF FileInv

\* A store that has the flock is not yet saving while it is being opened.
LEMMA NobodySaves ==
    ASSUME FileInv, NEW p \in Stores, st[p].pc \notin Unlocked, st[p].pc \notin SaveSteps
    PROVE  /\ \A q \in Stores : st[q].pc \notin SaveSteps
           /\ Now.lock \in Inodes
  <1>1. \A q \in Stores \ {p} : st[q].pc \in Unlocked
    BY OwnerIsAlone DEF FileInv
  <1>2. \A q \in Stores : st[q].pc \notin SaveSteps
    BY <1>1 DEF Unlocked, SaveSteps, BeforeReplace, AfterReplace
  <1>3. Now.lock # 0 /\ Now.lock \in 0 .. MaxInode
    BY NowIs DEF FileInv, StoreInv, OpeningInv, Entries, Unlocked
  <1> QED
    BY <1>2, <1>3, FileAssumption DEF Inodes

\* The steps between the flock and the removal of what an interrupted save left.
LEMMA LockedStep ==
    ASSUME FileInv, NEW p \in Stores, NEW c \in {"protocol_rest", "lock_fsync", "lock_publish"},
           st[p].pc \in {"protocol", "protocol_rest", "lock_fsync"}, Goto(p, c),
           DiskStays, disk' \in DiskType, disk'.history # <<>>, Outside, Bounded
    PROVE  FileInv'
  <1>1. Moves(p, c)
    BY Goes DEF FileInv, Steps, OpenSteps
  <1>2. QueuesInv'
    BY <1>1, QueueKept DEF FileInv, Moves, Outside, GhostsStay
  <1>3. OpeningInv(p)'
    BY <1>1 DEF FileInv, StoreInv, OpeningInv, Moves, Outside, Unlocked, OpenSteps, DiskStays
  <1>4. SettledInv(p)' /\ SnapshotInv(p)' /\ SavingInv(p)'
    BY <1>1 DEF SettledInv, SnapshotInv, SavingInv, Moves, Usable, SaveSteps, BeforeReplace,
                AfterReplace
  <1>5. StoreInv(p)'
    BY <1>3, <1>4 DEF StoreInv
  <1> QED
    BY <1>1, <1>2, <1>5, QuietStep DEF Moves

LEMMA WriteLockProtocolStep ==
    ASSUME FileInv, NEW p \in Stores, WriteLockProtocol(p)
    PROVE  FileInv'
  <1>1. /\ st[p].pc = "protocol" /\ Goto(p, "protocol_rest") /\ Outside /\ Bounded
        /\ disk' = disk \/ disk' = Written(disk, Now.lock, Torn)
    BY DEF WriteLockProtocol, Ghosts, Bounds, Outside, Bounded, GhostsStay, FileInv, TypesInv
  <1>2. (\A q \in Stores : st[q].pc \notin SaveSteps) /\ Now.lock \in Inodes
    BY <1>1, NobodySaves DEF Unlocked, SaveSteps, BeforeReplace, AfterReplace
  <1>3. disk \in DiskType /\ disk.history # <<>> /\ Torn \in Contents
    BY DEF FileInv, TypesInv, Contents
  <1>4. CASE disk' = disk
    <2>1. DiskStays
      BY <1>4, UnchangedDisk
    <2> QED
      BY <1>1, <1>3, <1>4, <2>1, LockedStep
  <1>5. CASE disk' = Written(disk, Now.lock, Torn)
    <2>1. /\ disk' \in DiskType /\ disk'.store = disk.store /\ disk'.history = disk.history
          /\ \A j \in Inodes \ {Now.lock} : disk'.file[j] = disk.file[j]
      BY <1>2, <1>3, <1>5, WrittenFile
    <2>2. DiskStays
      BY <1>2, <2>1, LockFileStays
    <2> QED
      BY <1>1, <1>3, <2>1, <2>2, LockedStep
  <1> QED
    BY <1>1, <1>4, <1>5

LEMMA WriteLockProtocolRestStep ==
    ASSUME FileInv, NEW p \in Stores, WriteLockProtocolRest(p)
    PROVE  FileInv'
  <1>1. /\ st[p].pc = "protocol_rest" /\ Goto(p, "lock_fsync") /\ Outside /\ Bounded
        /\ disk' = Written(disk, Now.lock, Protocol)
    BY DEF WriteLockProtocolRest, Ghosts, Bounds, Outside, Bounded, GhostsStay, FileInv, TypesInv
  <1>2. (\A q \in Stores : st[q].pc \notin SaveSteps) /\ Now.lock \in Inodes
    BY <1>1, NobodySaves DEF Unlocked, SaveSteps, BeforeReplace, AfterReplace
  <1>3. disk \in DiskType /\ disk.history # <<>> /\ Protocol \in Contents
    BY DEF FileInv, TypesInv, Contents
  <1>4. /\ disk' \in DiskType /\ disk'.store = disk.store /\ disk'.history = disk.history
        /\ \A j \in Inodes \ {Now.lock} : disk'.file[j] = disk.file[j]
    BY <1>1, <1>2, <1>3, WrittenFile
  <1>5. DiskStays
    BY <1>2, <1>4, LockFileStays
  <1> QED
    BY <1>1, <1>3, <1>4, <1>5, LockedStep

LEMMA FsyncLockStep ==
    ASSUME FileInv, NEW p \in Stores, FsyncLock(p)
    PROVE  FileInv'
  <1>1. /\ st[p].pc = "lock_fsync" /\ Goto(p, "lock_publish") /\ Outside /\ Bounded
        /\ disk' = FileSynced(disk, Now.lock)
    BY DEF FsyncLock, Ghosts, Bounds, Outside, Bounded, GhostsStay, FileInv, TypesInv
  <1>2. (\A q \in Stores : st[q].pc \notin SaveSteps) /\ Now.lock \in Inodes
    BY <1>1, NobodySaves DEF Unlocked, SaveSteps, BeforeReplace, AfterReplace
  <1>3. disk \in DiskType /\ disk.history # <<>>
    BY DEF FileInv, TypesInv
  <1>4. /\ disk' \in DiskType /\ disk'.store = disk.store /\ disk'.history = disk.history
        /\ \A j \in Inodes \ {Now.lock} : disk'.file[j] = disk.file[j]
    BY <1>1, <1>2, <1>3, SyncedFile
  <1>5. DiskStays
    BY <1>2, <1>4, LockFileStays
  <1> QED
    BY <1>1, <1>3, <1>4, <1>5, LockedStep

LEMMA FsyncLockDirectoryStep ==
    ASSUME FileInv, NEW p \in Stores, FsyncLockDirectory(p)
    PROVE  FileInv'
  <1>1. /\ st[p].pc = "lock_publish" /\ Goto(p, "stale") /\ Outside /\ Bounded
        /\ disk' = DirectorySynced(disk)
    BY DEF FsyncLockDirectory, LockPublished, Ghosts, Bounds, Outside, Bounded, GhostsStay,
           FileInv, TypesInv
  <1>2. Moves(p, "stale")
    BY <1>1, Goes DEF FileInv, Steps, OpenSteps
  <1>3. QueuesInv'
    BY <1>1, <1>2, QueueKept DEF FileInv, Moves, Outside, GhostsStay
  <1>4. DiskStays /\ disk' \in DiskType /\ disk'.history # <<>> /\ Settled'
    BY <1>1, SyncStays DEF FileInv
  <1>5. OpeningInv(p)'
    BY <1>1, <1>2, <1>4
       DEF FileInv, StoreInv, OpeningInv, Moves, Outside, Unlocked, OpenSteps, DiskStays
  <1>6. SettledInv(p)' /\ SnapshotInv(p)' /\ SavingInv(p)'
    BY <1>2, <1>4 DEF SettledInv, SnapshotInv, SavingInv, Moves, Usable, SaveSteps,
                      BeforeReplace, AfterReplace
  <1>7. StoreInv(p)'
    BY <1>5, <1>6 DEF StoreInv
  <1> QED
    BY <1>1, <1>2, <1>3, <1>4, <1>7, QuietStep DEF Moves

\* The temporary name changes, the final name stays.
LEMMA Relinked ==
    ASSUME FileInv, NEW e \in Entries, e.final = Now.final, e.lock = Now.lock,
           e.temp # 0 => e.temp # Now.lock /\ e.temp # Now.final,
           Now' = e, States' = States \cup {e}, disk'.store = disk.store,
           \A d \in States : d.final # 0 => disk'.file[d.final] = disk.file[d.final],
           nextDoc' \in Int, nextDoc <= nextDoc'
    PROVE  /\ DirectoryInv' /\ Survivors' \subseteq Survivors /\ (Settled => Settled')
           /\ ReadNamedFinal' = ReadNamedFinal
  <1>1. Now \in States
    BY NowIs DEF FileInv
  <1>2. nextDoc \in Int
    BY FileAssumption DEF FileInv, TypesInv
  <1>3. ASSUME NEW d \in States', d.final # 0
        PROVE  disk'.store = "durable" /\ Whole(d.final)'
    <2>1. PICK c \in States : c.final = d.final
      BY <1>1
    <2>2. disk.store = "durable" /\ Whole(d.final) /\ disk'.file[d.final] = disk.file[d.final]
      BY <1>3, <2>1 DEF FileInv, DirectoryInv, FinalsAreWhole
    <2>3. disk.file[d.final].seen \in Docs
      BY <2>2 DEF Whole
    <2>4. disk.file[d.final].seen.id \in Int
      BY <2>3 DEF Docs
    <2>5. Issued(disk.file[d.final].seen)'
      BY <1>2, <2>2, <2>4 DEF Whole, Issued
    <2> QED
      BY <2>2, <2>5 DEF Whole
  <1>4. FinalsAreWhole'
    BY <1>3 DEF FinalsAreWhole
  <1>5. NamesAreApart'
    BY <1>1 DEF FileInv, DirectoryInv, NamesAreApart
  <1>6. TwoFinals'
    BY <1>1 DEF FileInv, DirectoryInv, TwoFinals
  <1>7. Survivors' \subseteq Survivors
    BY <1>1, SurvivorsShrink
  <1>8. Settled => Settled'
    BY DEF Settled
  <1>9. ReadNamedFinal' = ReadNamedFinal
    BY <1>1 DEF ReadNamedFinal, Seen
  <1> QED
    BY <1>4, <1>5, <1>6, <1>7, <1>8, <1>9 DEF DirectoryInv

LEMMA LeaveNoStaleTempStep ==
    ASSUME FileInv, NEW p \in Stores, LeaveNoStaleTemp(p)
    PROVE  FileInv'
  <1>1. /\ st[p].pc = "stale" /\ Outside /\ Bounded
        /\ \/ Now.temp = 0 /\ Goto(p, "opened") /\ disk' = disk
           \/ disk' = Linked(disk, [Now EXCEPT !.temp = 0]) /\ Goto(p, "stale_sync")
    BY DEF LeaveNoStaleTemp, RemoveStaleTemp, Ghosts, Bounds, Outside, Bounded, GhostsStay,
           FileInv, TypesInv
  <1>2. Settled
    BY <1>1 DEF FileInv, StoreInv, SettledInv
  <1>3. CASE Now.temp = 0 /\ Goto(p, "opened") /\ disk' = disk
    <2>1. Moves(p, "opened")
      BY <1>3, Goes DEF FileInv, Steps, Resting
    <2>2. QueuesInv'
      BY <1>1, <2>1, QueueKept DEF FileInv, Moves, Outside, GhostsStay
    <2>3. /\ DiskStays /\ disk' \in DiskType /\ disk'.history # <<>> /\ Now' = Now
          /\ States' = States /\ disk'.store = disk.store
      BY <1>3, UnchangedDisk DEF FileInv, TypesInv, DiskStays
    <2>4. OpeningInv(p)'
      BY <1>1, <2>1, <2>3 DEF FileInv, StoreInv, OpeningInv, Moves, Outside, Unlocked, OpenSteps
    <2>5. SettledInv(p)'
      BY <1>2, <1>3, <2>1, <2>3 DEF SettledInv, Settled
    <2>6. SnapshotInv(p)' /\ SavingInv(p)'
      BY <2>1 DEF SnapshotInv, SavingInv, Moves, Usable, SaveSteps, BeforeReplace, AfterReplace
    <2>7. StoreInv(p)'
      BY <2>4, <2>5, <2>6 DEF StoreInv
    <2> QED
      BY <1>1, <2>1, <2>2, <2>3, <2>7, QuietStep DEF Moves
  <1>4. CASE disk' = Linked(disk, [Now EXCEPT !.temp = 0]) /\ Goto(p, "stale_sync")
    <2> DEFINE e == [Now EXCEPT !.temp = 0]
    <2>1. Now \in Entries /\ States \subseteq Entries /\ 0 \in 0 .. MaxInode
      BY NowIs, FileAssumption DEF FileInv
    <2>2. e \in Entries /\ e.final = Now.final /\ e.lock = Now.lock /\ e.temp = 0
      BY <2>1 DEF Entries
    <2> HIDE DEF e
    <2>3. disk' = Linked(disk, e)
      BY <1>4 DEF e
    <2>4. /\ disk' \in DiskType /\ disk'.store = disk.store /\ disk'.file = disk.file
          /\ Now' = e /\ States' = States \cup {e} /\ disk'.history # <<>>
      BY <2>2, <2>3, LinkedDisk DEF FileInv
    <2>5. nextDoc' = nextDoc /\ nextDoc \in Int
      BY <1>1, FileAssumption DEF Outside, GhostsStay, FileInv, TypesInv
    <2>6. DirectoryInv' /\ Settled'
      BY <1>2, <2>2, <2>4, <2>5, Relinked
    <2>7. Moves(p, "stale_sync")
      BY <1>4, Goes DEF FileInv, Steps, OpenSteps
    <2>8. QueuesInv'
      BY <1>1, <2>7, QueueKept DEF FileInv, Moves, Outside, GhostsStay
    <2>9. TypesInv'
      BY <1>1, <2>4, <2>7, QuietTypes DEF FileInv, Outside, Moves, TypesInv
    <2>10. OpeningInv(p)'
      BY <1>1, <2>2, <2>4, <2>7
         DEF FileInv, StoreInv, OpeningInv, Moves, Outside, Unlocked, OpenSteps
    <2>11. SettledInv(p)'
      BY <2>2, <2>4, <2>6, <2>7 DEF SettledInv
    <2>12. SnapshotInv(p)' /\ SavingInv(p)'
      BY <2>7 DEF SnapshotInv, SavingInv, Moves, Usable, SaveSteps, BeforeReplace, AfterReplace
    <2>13. StoreInv(p)'
      BY <2>10, <2>11, <2>12 DEF StoreInv
    <2>14. ReportedInv'
      BY <1>1 DEF FileInv, ReportedInv, Outside, GhostsStay
    <2>15. flock' = p /\ \A q \in Stores \ {p} : st[q].pc \in Unlocked
      BY <1>1, OwnerIsAlone DEF FileInv, StoreInv, OpeningInv, Outside, Unlocked
    <2> QED
      BY <2>2, <2>4, <2>6, <2>7, <2>8, <2>9, <2>13, <2>14, <2>15, OwnerStep DEF Moves
  <1> QED
    BY <1>1, <1>3, <1>4

LEMMA FsyncStaleRemovalStep ==
    ASSUME FileInv, NEW p \in Stores, FsyncStaleRemoval(p)
    PROVE  FileInv'
  <1>1. /\ st[p].pc = "stale_sync" /\ Goto(p, "opened") /\ Outside /\ Bounded
        /\ disk' = DirectorySynced(disk)
    BY DEF FsyncStaleRemoval, Ghosts, Bounds, Outside, Bounded, GhostsStay, FileInv, TypesInv
  <1>2. Moves(p, "opened")
    BY <1>1, Goes DEF FileInv, Steps, Resting
  <1>3. QueuesInv'
    BY <1>1, <1>2, QueueKept DEF FileInv, Moves, Outside, GhostsStay
  <1>4. DiskStays /\ disk' \in DiskType /\ disk'.history # <<>> /\ Settled' /\ Now' = Now
    BY <1>1, SyncStays DEF FileInv, DiskStays
  <1>5. OpeningInv(p)'
    BY <1>1, <1>2, <1>4
       DEF FileInv, StoreInv, OpeningInv, Moves, Outside, Unlocked, OpenSteps, DiskStays
  <1>6. SettledInv(p)'
    BY <1>1, <1>2, <1>4 DEF FileInv, StoreInv, SettledInv
  <1>7. SnapshotInv(p)' /\ SavingInv(p)'
    BY <1>2 DEF SnapshotInv, SavingInv, Moves, Usable, SaveSteps, BeforeReplace, AfterReplace
  <1>8. StoreInv(p)'
    BY <1>5, <1>6, <1>7 DEF StoreInv
  <1> QED
    BY <1>1, <1>2, <1>3, <1>4, <1>8, QuietStep DEF Moves

LEMMA AdoptStep ==
    ASSUME FileInv, NEW p \in Stores, Adopt(p)
    PROVE  FileInv'
  <1>1. st[p].pc = "opened" /\ Goto(p, "idle") /\ Outside /\ Bounded /\ disk' = disk
    BY DEF Adopt, Ghosts, Bounds, Outside, Bounded, GhostsStay, FileInv, TypesInv
  <1>2. Moves(p, "idle")
    BY <1>1, Goes DEF FileInv, Steps, Resting
  <1>3. QueuesInv'
    BY <1>1, <1>2, QueueKept DEF FileInv, Moves, Outside, GhostsStay
  <1>4. /\ DiskStays /\ disk' \in DiskType /\ disk'.history # <<>> /\ Now' = Now
        /\ States' = States /\ disk'.store = disk.store
    BY <1>1, UnchangedDisk DEF FileInv, TypesInv, DiskStays
  <1>5. st[p].snap = Unread /\ ~st[p].ready
    BY <1>1 DEF FileInv, StoreInv, OpeningInv
  <1>6. OpeningInv(p)'
    BY <1>1, <1>2, <1>4 DEF FileInv, StoreInv, OpeningInv, Moves, Outside, Unlocked, OpenSteps
  <1>7. SettledInv(p)'
    BY <1>1, <1>2, <1>4 DEF FileInv, StoreInv, SettledInv, Settled
  <1>8. SnapshotInv(p)' /\ SavingInv(p)'
    BY <1>2, <1>5 DEF SnapshotInv, SavingInv, Moves, Usable, SaveSteps, BeforeReplace,
                      AfterReplace
  <1>9. StoreInv(p)'
    BY <1>6, <1>7, <1>8 DEF StoreInv
  <1> QED
    BY <1>1, <1>2, <1>3, <1>4, <1>9, QuietStep DEF Moves

LEMMA CloseOpenedResourcesStep ==
    ASSUME FileInv, NEW p \in Stores, CloseOpenedResources(p)
    PROVE  FileInv'
  <1>1. /\ st' = [st EXCEPT ![p] = Gone] /\ disk' = disk /\ GhostsStay /\ Bounded
        /\ flock' = (IF flock = p THEN NoStore ELSE flock) /\ children' = {}
    BY DEF CloseOpenedResources, Unlock, Ghosts, Bounds, Bounded, GhostsStay, FileInv, TypesInv
  <1> QED
    BY <1>1, GivesUp

LEMMA MishapBound == ASSUME FileInv, Mishap PROVE mishaps' \in 0 .. MaxMishaps
  BY FileAssumption DEF Mishap, FileInv, TypesInv

LEMMA OpenFailsStep ==
    ASSUME FileInv, NEW p \in Stores, OpenFails(p)
    PROVE  FileInv'
  <1>1. /\ st' = [st EXCEPT ![p] = Gone] /\ disk' = disk /\ GhostsStay /\ Bounded
        /\ flock' = (IF flock = p THEN NoStore ELSE flock) /\ children' = {}
    BY MishapBound DEF OpenFails, Unlock, Ghosts, Bounds, Bounded, GhostsStay, FileInv, TypesInv
  <1> QED
    BY <1>1, GivesUp

LEMMA CloseStep ==
    ASSUME FileInv, NEW p \in Stores, Close(p)
    PROVE  FileInv'
  <1>1. /\ st' = [st EXCEPT ![p] = Gone] /\ disk' = disk /\ GhostsStay /\ Bounded
        /\ flock' = (IF flock = p THEN NoStore ELSE flock) /\ children' = {}
    BY DEF Close, Unlock, Ghosts, Bounds, Bounded, GhostsStay, FileInv, TypesInv
  <1> QED
    BY <1>1, GivesUp

LEMMA CrashStep ==
    ASSUME FileInv, NEW p \in Stores, Crash(p)
    PROVE  FileInv'
  <1>1. /\ st' = [st EXCEPT ![p] = Gone] /\ disk' = disk /\ GhostsStay /\ Bounded
        /\ flock' = (IF flock = p THEN NoStore ELSE flock) /\ children' = {}
    BY MishapBound DEF Crash, Ghosts, Bounds, Bounded, GhostsStay, FileInv, TypesInv
  <1> QED
    BY <1>1, GivesUp

LEMMA ForkStep ==
    ASSUME FileInv, NEW p \in Stores, Fork(p)
    PROVE  FileInv'
  <1>1. /\ disk' = disk /\ st' = st /\ GhostsStay /\ Bounded /\ flock' = flock /\ children' = {}
    BY DEF Fork, ForkGate, HasLockDescriptor, Tracked, Resting, OpenSteps, Ghosts, Bounded,
           GhostsStay, FileInv, TypesInv
  <1>2. /\ DiskStays /\ disk' \in DiskType /\ disk'.history # <<>>
        /\ OnlyStore(p) /\ Outside
    BY <1>1, UnchangedDisk DEF FileInv, TypesInv, OnlyStore, Outside
  <1>3. QueuesInv'
    BY <1>1, <1>2, QueueKept DEF FileInv, GhostsStay
  <1>4. StoreInv(p)'
    BY <1>1, <1>2, StoreStays DEF FileInv
  <1> QED
    BY <1>1, <1>2, <1>3, <1>4, QuietStep

-----------------------------------------------------------------------------
(* Operations. *)

LEMMA SubmitStep ==
    ASSUME FileInv, NEW p \in Stores, NEW op \in {"load", "save", "barrier"}, Submit(p, op)
    PROVE  FileInv'
  <1>1. /\ disk' = disk /\ Outside /\ Bounded
        /\ ~st[p].closing /\ Len(st[p].queue) < MaxQueue
        /\ op = "save" => nextDoc + Cardinality(QueuedSaves) <= MaxDocs
        /\ st' = [st EXCEPT ![p].queue = Append(st[p].queue, op)]
    BY DEF Submit, Ghosts, Bounds, Outside, Bounded, GhostsStay, FileInv, TypesInv
  <1>2. st \in [Stores -> StoreType] /\ st[p] \in StoreType /\ st[p].queue \in Seq(Operations)
    BY DEF FileInv, TypesInv, StoreType
  <1>3. Append(st[p].queue, op) \in Seq(Operations)
        /\ Len(Append(st[p].queue, op)) = Len(st[p].queue) + 1 /\ Len(st[p].queue) \in Nat
    BY <1>2 DEF Operations
  <1>4. /\ OnlyStore(p) /\ st'[p].queue = Append(st[p].queue, op)
        /\ st'[p].pc = st[p].pc /\ st'[p].poison = st[p].poison /\ st'[p].snap = st[p].snap
        /\ st'[p].ready = st[p].ready /\ st'[p].temp = st[p].temp /\ st'[p].doc = st[p].doc
        /\ st'[p].closing = st[p].closing
    <2>1. st' = [st EXCEPT ![p] = [st[p] EXCEPT !.queue = Append(st[p].queue, op)]]
      BY <1>1
    <2>2. [st[p] EXCEPT !.queue = Append(st[p].queue, op)] \in StoreType
      BY <1>2, <1>3 DEF StoreType
    <2>3. st'[p] = [st[p] EXCEPT !.queue = Append(st[p].queue, op)]
      BY <1>2, <2>1
    <2>4. OnlyStore(p)
      BY <1>2, <2>1, <2>2 DEF OnlyStore
    <2> QED
      BY <1>2, <2>3, <2>4 DEF StoreType
  <1>5. DiskStays /\ disk' \in DiskType /\ disk'.history # <<>>
    BY <1>1, UnchangedDisk DEF FileInv, TypesInv
  <1>6. StoreInv(p)'
    BY <1>1, <1>4, <1>5, StoreStays DEF FileInv, Outside
  <1>7. QueuesInv'
    <2>1. Queues \in [Stores -> Seq(Operations)] /\ Queues[p] = st[p].queue
      BY DEF Queues, FileInv, TypesInv, StoreType
    <2>2. Queues' = [Queues EXCEPT ![p] = Append(st[p].queue, op)]
      BY <1>4 DEF Queues, OnlyStore
    <2>3. PICK Q \in [Stores -> Seq(Operations)] : Q = Queues
      BY <2>1
    <2>4. PICK R : R = [Q EXCEPT ![p] = Append(@, op)]
      OBVIOUS
    <2>5. R = Queues' /\ Q[p] = st[p].queue
      BY <2>1, <2>2, <2>3, <2>4
    <2>6. op \in Operations
      BY DEF Operations
    <2>7. /\ Cardinality(Queued(R)) <= Cardinality(Queued(Q)) + 1
          /\ op # "save" => Cardinality(Queued(R)) <= Cardinality(Queued(Q))
      BY <2>4, <2>6, QueueGrows
    <2>8. Cardinality(Queued(R)) \in Nat /\ Cardinality(Queued(Q)) \in Nat
      BY QueuedIsFinite
    <2>9. QueuedSaves = Queued(Q) /\ QueuedSaves' = Queued(R)
      <3>1. QueuedSaves = Queued(Queues) /\ QueuedSaves' = Queued(Queues')
        BY DEF QueuedSaves, Queued, Queues
      <3> QED
        BY <2>3, <2>5, <3>1
    <2>10. nextDoc' + Cardinality(QueuedSaves') <= MaxDocs + 1
      <3>1. nextDoc' = nextDoc /\ nextDoc \in Int /\ MaxDocs \in Int
        BY <1>1, FileAssumption DEF Outside, GhostsStay, FileInv, TypesInv
      <3>2. nextDoc + Cardinality(Queued(Q)) <= MaxDocs + 1
        BY <2>9 DEF FileInv, QueuesInv
      <3>3. op = "save" => nextDoc + Cardinality(Queued(Q)) <= MaxDocs
        BY <1>1, <2>9
      <3> QED
        BY <2>7, <2>8, <2>9, <3>1, <3>2, <3>3
    <2>11. ASSUME NEW q \in Stores
           PROVE  Len(st'[q].queue) <= MaxQueue + 1
                  /\ (~st'[q].closing => Len(st'[q].queue) <= MaxQueue)
      <3>1. CASE q # p
        BY <1>4, <3>1 DEF FileInv, QueuesInv, OnlyStore
      <3>2. CASE q = p
        <4>1. Len(st'[p].queue) = Len(st[p].queue) + 1
          BY <1>3, <1>4
        <4>2. Len(st'[p].queue) <= MaxQueue
          BY <1>1, <1>3, <4>1, FileAssumption
        <4>3. Len(st'[p].queue) <= MaxQueue + 1
          BY <1>3, <4>1, <4>2, FileAssumption
        <4> QED
          BY <3>2, <4>2, <4>3
      <3> QED
        BY <3>1, <3>2
    <2> QED
      BY <2>10, <2>11 DEF QueuesInv
  <1> QED
    BY <1>1, <1>4, <1>5, <1>6, <1>7, QuietStep

LEMMA RequestCloseStep ==
    ASSUME FileInv, NEW p \in Stores, RequestClose(p)
    PROVE  FileInv'
  <1>1. /\ disk' = disk /\ Outside /\ Bounded /\ ~st[p].closing
        /\ st' = [st EXCEPT ![p].closing = TRUE, ![p].queue = Append(st[p].queue, "close")]
    BY DEF RequestClose, Ghosts, Bounds, Outside, Bounded, GhostsStay, FileInv, TypesInv
  <1>2. st \in [Stores -> StoreType] /\ st[p] \in StoreType /\ st[p].queue \in Seq(Operations)
    BY DEF FileInv, TypesInv, StoreType
  <1>3. Append(st[p].queue, "close") \in Seq(Operations)
        /\ Len(Append(st[p].queue, "close")) = Len(st[p].queue) + 1 /\ Len(st[p].queue) \in Nat
    BY <1>2 DEF Operations
  <1>4. /\ OnlyStore(p) /\ st'[p].queue = Append(st[p].queue, "close")
        /\ st'[p].pc = st[p].pc /\ st'[p].poison = st[p].poison /\ st'[p].snap = st[p].snap
        /\ st'[p].ready = st[p].ready /\ st'[p].temp = st[p].temp /\ st'[p].doc = st[p].doc
        /\ st'[p].closing
    <2>1. st' = [st EXCEPT ![p] =
                    [st[p] EXCEPT !.closing = TRUE, !.queue = Append(st[p].queue, "close")]]
      BY <1>1
    <2>2. [st[p] EXCEPT !.closing = TRUE, !.queue = Append(st[p].queue, "close")] \in StoreType
      BY <1>2, <1>3 DEF StoreType
    <2>3. st'[p] = [st[p] EXCEPT !.closing = TRUE, !.queue = Append(st[p].queue, "close")]
      BY <1>2, <2>1
    <2>4. OnlyStore(p)
      BY <1>2, <2>1, <2>2 DEF OnlyStore
    <2> QED
      BY <1>2, <2>3, <2>4 DEF StoreType
  <1>5. DiskStays /\ disk' \in DiskType /\ disk'.history # <<>>
    BY <1>1, UnchangedDisk DEF FileInv, TypesInv
  <1>6. StoreInv(p)'
    BY <1>1, <1>4, <1>5, StoreStays DEF FileInv, Outside
  <1>7. QueuesInv'
    <2>1. Queues \in [Stores -> Seq(Operations)] /\ Queues[p] = st[p].queue
      BY DEF Queues, FileInv, TypesInv, StoreType
    <2>2. Queues' = [Queues EXCEPT ![p] = Append(st[p].queue, "close")]
      BY <1>4 DEF Queues, OnlyStore
    <2>3. PICK Q \in [Stores -> Seq(Operations)] : Q = Queues
      BY <2>1
    <2>4. PICK R : R = [Q EXCEPT ![p] = Append(@, "close")]
      OBVIOUS
    <2>5. R = Queues' /\ Q[p] = st[p].queue
      BY <2>1, <2>2, <2>3, <2>4
    <2>6. "close" \in Operations
      BY DEF Operations
    <2>7. Cardinality(Queued(R)) <= Cardinality(Queued(Q))
      BY <2>4, <2>6, QueueGrows
    <2>8. Cardinality(Queued(R)) \in Nat /\ Cardinality(Queued(Q)) \in Nat
      BY QueuedIsFinite
    <2>9. QueuedSaves = Queued(Q) /\ QueuedSaves' = Queued(R)
      <3>1. QueuedSaves = Queued(Queues) /\ QueuedSaves' = Queued(Queues')
        BY DEF QueuedSaves, Queued, Queues
      <3> QED
        BY <2>3, <2>5, <3>1
    <2>10. nextDoc' + Cardinality(QueuedSaves') <= MaxDocs + 1
      <3>1. nextDoc' = nextDoc /\ nextDoc \in Int /\ MaxDocs \in Int
        BY <1>1, FileAssumption DEF Outside, GhostsStay, FileInv, TypesInv
      <3>2. nextDoc + Cardinality(Queued(Q)) <= MaxDocs + 1
        BY <2>9 DEF FileInv, QueuesInv
      <3> QED
        BY <2>7, <2>8, <2>9, <3>1, <3>2
    <2>11. ASSUME NEW q \in Stores
           PROVE  Len(st'[q].queue) <= MaxQueue + 1
                  /\ (~st'[q].closing => Len(st'[q].queue) <= MaxQueue)
      <3>1. CASE q # p
        BY <1>4, <3>1 DEF FileInv, QueuesInv, OnlyStore
      <3>2. CASE q = p
        <4>1. Len(st'[p].queue) = Len(st[p].queue) + 1
          BY <1>3, <1>4
        <4>2. Len(st[p].queue) <= MaxQueue
          BY <1>1 DEF FileInv, QueuesInv
        <4>3. Len(st'[p].queue) <= MaxQueue + 1
          BY <1>3, <4>1, <4>2, FileAssumption
        <4> QED
          BY <1>4, <3>2, <4>3
      <3> QED
        BY <3>1, <3>2
    <2> QED
      BY <2>10, <2>11 DEF QueuesInv
  <1> QED
    BY <1>1, <1>4, <1>5, <1>6, <1>7, QuietStep

\* The worker takes the next operation from the queue.
Takes(p, s) ==
    /\ s \in StoreType /\ s.queue = Tail(st[p].queue) /\ s.closing = st[p].closing
    /\ s.temp = st[p].temp /\ s.doc = st[p].doc

LEMMA DoneStore ==
    ASSUME FileInv, NEW p \in Stores, NEW op, NextIs(p, op)
    PROVE  /\ Done(st[p]) \in StoreType /\ Takes(p, Done(st[p]))
           /\ Done(st[p]).pc = "idle" /\ Done(st[p]).poison = st[p].poison
           /\ Done(st[p]).snap = st[p].snap /\ Done(st[p]).ready = st[p].ready
  <1>1. /\ st[p] \in StoreType /\ st[p].pc = "idle" /\ st[p].queue # <<>>
        /\ st[p].queue \in Seq(Operations)
    BY DEF FileInv, TypesInv, StoreType, NextIs
  <1>2. Tail(st[p].queue) \in Seq(Operations)
    BY <1>1
  <1>3. Done(st[p]) = [st[p] EXCEPT !.queue = Tail(st[p].queue)]
    BY DEF Done
  <1>4. Done(st[p]) \in StoreType
    BY <1>1, <1>2, <1>3 DEF StoreType
  <1> QED
    BY <1>1, <1>3, <1>4 DEF StoreType, Takes

LEMMA TakesOne ==
    ASSUME FileInv, NEW p \in Stores, NEW op, NextIs(p, op), NEW s, Takes(p, s),
           st' = [st EXCEPT ![p] = s],
           nextDoc' = nextDoc \/ (nextDoc' = nextDoc + 1 /\ op = "save")
    PROVE  /\ OnlyStore(p) /\ st'[p] = s /\ QueuesInv' /\ (op = "save" => nextDoc <= MaxDocs)
           /\ st'[p].temp = st[p].temp /\ st'[p].doc = st[p].doc
  <1>1. OnlyStore(p) /\ st'[p] = s
    BY DEF FileInv, TypesInv, OnlyStore, Takes
  <1>2. st[p].queue # <<>> /\ Head(st[p].queue) = op
    BY DEF NextIs
  <1>3. QueuesInv' /\ (op = "save" => nextDoc <= MaxDocs)
    BY <1>1, <1>2, QueueDone DEF FileInv, Takes
  <1> QED
    BY <1>1, <1>3 DEF Takes

\* A refused operation changes nothing but the queue.
LEMMA RefusedStep ==
    ASSUME FileInv, NEW p \in Stores, NEW op, NextIs(p, op), st' = [st EXCEPT ![p] = Done(st[p])],
           disk' = disk, Outside, Bounded
    PROVE  FileInv'
  <1>1. PICK s : s = Done(st[p])
    OBVIOUS
  <1>2. /\ Takes(p, s) /\ s.pc = "idle" /\ s.poison = st[p].poison /\ s.snap = st[p].snap
        /\ s.ready = st[p].ready
    BY <1>1, DoneStore
  <1>3. OnlyStore(p) /\ st'[p] = s /\ QueuesInv' /\ st'[p].temp = st[p].temp
        /\ st'[p].doc = st[p].doc
    BY <1>1, <1>2, TakesOne DEF Outside, GhostsStay
  <1>4. DiskStays /\ disk' \in DiskType /\ disk'.history # <<>>
    BY UnchangedDisk DEF FileInv, TypesInv
  <1>5. st[p].pc = "idle"
    BY DEF NextIs
  <1>6. StoreInv(p)'
    BY <1>2, <1>3, <1>4, <1>5, StoreStays DEF FileInv, Outside
  <1> QED
    BY <1>3, <1>4, <1>6, QuietStep

\* An idle store that is poisoned knows nothing but its flock.
LEMMA PoisonedStore ==
    ASSUME NEW p \in Stores, StoreInv(p), st[p].pc \in {"idle", "barrier"} \cup SaveSteps,
           st'[p].pc = "idle", st'[p].poison # "none", flock' = flock,
           disk'.store = disk.store, Now' = Now
    PROVE  StoreInv(p)'
  <1>1. OpeningInv(p)'
    BY DEF StoreInv, OpeningInv, Unlocked, OpenSteps, SaveSteps, BeforeReplace, AfterReplace
  <1>2. SettledInv(p)' /\ SnapshotInv(p)' /\ SavingInv(p)'
    BY DEF SettledInv, SnapshotInv, SavingInv, Usable, SaveSteps, BeforeReplace, AfterReplace
  <1> QED
    BY <1>1, <1>2 DEF StoreInv

\* What is under the final name can be remembered.
LEMMA ReadIsASnapshot ==
    ASSUME TypesInv, DirectoryInv
    PROVE  /\ ReadNamedFinal \in Snapshots /\ ReadNamedFinal # Unread
           /\ ReadNamedFinal.inode = Now.final /\ ReadNamedFinal.doc = Seen(Now.final)
           /\ Seen(Now.final) \in Docs \cup {Absent}
           /\ Seen(Now.final) # Absent => Issued(Seen(Now.final))
  <1>1. Now \in States /\ Now.final \in 0 .. MaxInode
    BY NowIs DEF Entries
  <1>2. Now.final # 0 => Whole(Now.final)
    BY <1>1 DEF DirectoryInv, FinalsAreWhole
  <1>3. /\ Seen(Now.final) \in Docs \cup {Absent}
        /\ Seen(Now.final) # Absent => Issued(Seen(Now.final))
    BY <1>2 DEF Seen, Whole
  <1>4. -1 \notin 0 .. MaxInode
    BY FileAssumption
  <1>5. ReadNamedFinal # Unread
    BY <1>1, <1>4 DEF ReadNamedFinal, Unread
  <1> QED
    BY <1>1, <1>3, <1>5 DEF ReadNamedFinal, Snapshots

LEMMA LoadStep ==
    ASSUME FileInv, NEW p \in Stores, Load(p)
    PROVE  FileInv'
  <1>1. NextIs(p, "load") /\ disk' = disk /\ Outside /\ Bounded /\ st[p].pc = "idle"
    BY DEF Load, Ghosts, Bounds, Outside, Bounded, GhostsStay, FileInv, TypesInv, NextIs
  <1>2. \/ st' = [st EXCEPT ![p] = Done(st[p])]
        \/ /\ ~LoadRefused(p)
           /\ st' = [st EXCEPT ![p] =
                        [Done(st[p]) EXCEPT !.snap = ReadNamedFinal, !.ready = TRUE]]
        \/ st' = [st EXCEPT ![p] = [Done(st[p]) EXCEPT !.poison = "load"]]
    BY DEF Load
  <1>3. PICK d : d = Done(st[p])
    OBVIOUS
  <1>4. /\ d \in StoreType /\ Takes(p, d) /\ d.pc = "idle" /\ d.poison = st[p].poison
        /\ d.snap = st[p].snap /\ d.ready = st[p].ready
    BY <1>1, <1>3, DoneStore
  <1>5. /\ DiskStays /\ disk' \in DiskType /\ disk'.history # <<>> /\ Now' = Now
        /\ disk'.store = disk.store /\ States' = States /\ ReadNamedFinal' = ReadNamedFinal
    BY <1>1, UnchangedDisk DEF FileInv, TypesInv, DiskStays
  <1>6. CASE st' = [st EXCEPT ![p] = Done(st[p])]
    BY <1>1, <1>6, RefusedStep
  <1>7. CASE /\ ~LoadRefused(p)
             /\ st' = [st EXCEPT ![p] =
                          [Done(st[p]) EXCEPT !.snap = ReadNamedFinal, !.ready = TRUE]]
    <2>1. ReadNamedFinal \in Snapshots /\ ReadNamedFinal # Unread
      BY ReadIsASnapshot DEF FileInv
    <2>2. PICK s : s = [d EXCEPT !.snap = ReadNamedFinal, !.ready = TRUE]
      OBVIOUS
    <2>3. /\ Takes(p, s) /\ s.pc = "idle" /\ s.poison = st[p].poison
          /\ s.snap = ReadNamedFinal
      BY <1>4, <2>1, <2>2 DEF Takes, StoreType
    <2>4. OnlyStore(p) /\ st'[p] = s /\ QueuesInv'
      BY <1>1, <1>3, <1>7, <2>2, <2>3, TakesOne DEF Outside, GhostsStay
    <2>5. st[p].poison = "none" /\ Usable(st[p])
      BY <1>1, <1>7 DEF LoadRefused, Usable
    <2>6. OpeningInv(p)'
      BY <1>1, <1>5, <2>3, <2>4
         DEF FileInv, StoreInv, OpeningInv, Outside, Unlocked, OpenSteps
    <2>7. SettledInv(p)'
      BY <1>1, <1>5, <2>3, <2>4, <2>5
         DEF FileInv, StoreInv, SettledInv, Settled, Usable
    <2>8. SnapshotInv(p)' /\ SavingInv(p)'
      BY <1>5, <2>1, <2>3, <2>4
         DEF SnapshotInv, SavingInv, SaveSteps, BeforeReplace, AfterReplace
    <2>9. StoreInv(p)'
      BY <2>6, <2>7, <2>8 DEF StoreInv
    <2> QED
      BY <1>1, <1>5, <2>4, <2>9, QuietStep
  <1>8. CASE st' = [st EXCEPT ![p] = [Done(st[p]) EXCEPT !.poison = "load"]]
    <2>1. PICK s : s = [d EXCEPT !.poison = "load"]
      OBVIOUS
    <2>2. Takes(p, s) /\ s.pc = "idle" /\ s.poison # "none"
      BY <1>4, <2>1 DEF Takes, StoreType
    <2>3. OnlyStore(p) /\ st'[p] = s /\ QueuesInv'
      BY <1>1, <1>3, <1>8, <2>1, <2>2, TakesOne DEF Outside, GhostsStay
    <2>4. StoreInv(p)'
      BY <1>1, <1>5, <2>2, <2>3, PoisonedStore DEF FileInv, Outside
    <2> QED
      BY <1>1, <1>5, <2>3, <2>4, QuietStep
  <1> QED
    BY <1>2, <1>6, <1>7, <1>8

\* An operation that poisons the store.
LEMMA PoisonStep ==
    ASSUME FileInv, NEW p \in Stores, NEW op, NextIs(p, op), NEW v \in {"load", "failed", "ambiguous"},
           st' = [st EXCEPT ![p] = [Done(st[p]) EXCEPT !.poison = v]],
           disk' = disk, Outside, Bounded
    PROVE  FileInv'
  <1>1. PICK d : d = Done(st[p])
    OBVIOUS
  <1>2. d \in StoreType /\ Takes(p, d) /\ d.pc = "idle" /\ st[p].pc = "idle"
    BY <1>1, DoneStore DEF NextIs
  <1>3. PICK s : s = [d EXCEPT !.poison = v]
    OBVIOUS
  <1>4. Takes(p, s) /\ s.pc = "idle" /\ s.poison # "none"
    BY <1>2, <1>3 DEF Takes, StoreType
  <1>5. OnlyStore(p) /\ st'[p] = s /\ QueuesInv'
    BY <1>1, <1>3, <1>4, TakesOne DEF Outside, GhostsStay
  <1>6. /\ DiskStays /\ disk' \in DiskType /\ disk'.history # <<>> /\ Now' = Now
        /\ disk'.store = disk.store
    BY UnchangedDisk DEF FileInv, TypesInv, DiskStays
  <1>7. StoreInv(p)'
    BY <1>2, <1>4, <1>5, <1>6, PoisonedStore DEF FileInv, Outside
  <1> QED
    BY <1>5, <1>6, <1>7, QuietStep

LEMMA LoadFailsStep ==
    ASSUME FileInv, NEW p \in Stores, LoadFails(p)
    PROVE  FileInv'
  <1>1. /\ NextIs(p, "load") /\ disk' = disk /\ Outside /\ Bounded
        /\ st' = [st EXCEPT ![p] = [Done(st[p]) EXCEPT !.poison = "load"]]
    BY MishapBound
       DEF LoadFails, Ghosts, Outside, Bounded, GhostsStay, FileInv, TypesInv
  <1> QED
    BY <1>1, PoisonStep

LEMMA RefuseSaveStep ==
    ASSUME FileInv, NEW p \in Stores, RefuseSave(p)
    PROVE  FileInv'
  <1>1. /\ NextIs(p, "save") /\ disk' = disk /\ Outside /\ Bounded
        /\ st' = [st EXCEPT ![p] = Done(st[p])]
    BY DEF RefuseSave, Ghosts, Bounds, Outside, Bounded, GhostsStay, FileInv, TypesInv
  <1> QED
    BY <1>1, RefusedStep

LEMMA RefuseBarrierStep ==
    ASSUME FileInv, NEW p \in Stores, RefuseBarrier(p)
    PROVE  FileInv'
  <1>1. /\ NextIs(p, "barrier") /\ disk' = disk /\ Outside /\ Bounded
        /\ st' = [st EXCEPT ![p] = Done(st[p])]
    BY DEF RefuseBarrier, Ghosts, Bounds, Outside, Bounded, GhostsStay, FileInv, TypesInv
  <1> QED
    BY <1>1, RefusedStep

LEMMA BeginBarrierStep ==
    ASSUME FileInv, NEW p \in Stores, BeginBarrier(p)
    PROVE  FileInv'
  <1>1. NextIs(p, "barrier") /\ disk' = disk /\ Outside /\ Bounded /\ st[p].pc = "idle"
        /\ ~BarrierRefused(p)
    BY DEF BeginBarrier, Ghosts, Bounds, Outside, Bounded, GhostsStay, FileInv, TypesInv, NextIs
  <1>2. \/ /\ ReadNamedFinal = st[p].snap
           /\ st' = [st EXCEPT ![p] = [Done(st[p]) EXCEPT !.pc = "barrier"]]
        \/ st' = [st EXCEPT ![p] = [Done(st[p]) EXCEPT !.poison = "ambiguous"]]
    BY DEF BeginBarrier
  <1>3. CASE st' = [st EXCEPT ![p] = [Done(st[p]) EXCEPT !.poison = "ambiguous"]]
    BY <1>1, <1>3, PoisonStep
  <1>4. CASE /\ ReadNamedFinal = st[p].snap
             /\ st' = [st EXCEPT ![p] = [Done(st[p]) EXCEPT !.pc = "barrier"]]
    <2>1. PICK d : d = Done(st[p])
      OBVIOUS
    <2>2. /\ d \in StoreType /\ Takes(p, d) /\ d.snap = st[p].snap
      BY <1>1, <2>1, DoneStore
    <2>3. PICK s : s = [d EXCEPT !.pc = "barrier"]
      OBVIOUS
    <2>4. Takes(p, s) /\ s.pc = "barrier" /\ s.snap = st[p].snap
      BY <2>2, <2>3 DEF Takes, StoreType
    <2>5. OnlyStore(p) /\ st'[p] = s /\ QueuesInv'
      BY <1>1, <1>4, <2>1, <2>3, <2>4, TakesOne DEF Outside, GhostsStay
    <2>6. /\ DiskStays /\ disk' \in DiskType /\ disk'.history # <<>> /\ Now' = Now
          /\ disk'.store = disk.store /\ States' = States /\ ReadNamedFinal' = ReadNamedFinal
      BY <1>1, UnchangedDisk DEF FileInv, TypesInv, DiskStays
    <2>7. Usable(st[p])
      BY <1>1 DEF BarrierRefused, Usable
    <2>8. OpeningInv(p)'
      BY <1>1, <2>4, <2>5, <2>6 DEF FileInv, StoreInv, OpeningInv, Outside, Unlocked, OpenSteps
    <2>9. SettledInv(p)'
      BY <2>4, <2>5, <2>6, <2>7 DEF FileInv, StoreInv, SettledInv, Settled, Usable
    <2>10. SnapshotInv(p)' /\ SavingInv(p)'
      BY <1>4, <2>4, <2>5, <2>6
         DEF SnapshotInv, SavingInv, Usable, SaveSteps, BeforeReplace, AfterReplace
    <2>11. StoreInv(p)'
      BY <2>8, <2>9, <2>10 DEF StoreInv
    <2> QED
      BY <1>1, <2>5, <2>6, <2>11, QuietStep
  <1> QED
    BY <1>2, <1>3, <1>4

LEMMA FinishBarrierStep ==
    ASSUME FileInv, NEW p \in Stores, FinishBarrier(p)
    PROVE  FileInv'
  <1>1. /\ st[p].pc = "barrier" /\ disk' = DirectorySynced(disk) /\ Outside /\ Bounded
        /\ st' = [st EXCEPT ![p] = [st[p] EXCEPT !.pc = "idle", !.stamp = FALSE]]
    BY DEF FinishBarrier, Ghosts, Bounds, Outside, Bounded, GhostsStay, FileInv, TypesInv
  <1>2. st \in [Stores -> StoreType] /\ st[p] \in StoreType
    BY DEF FileInv, TypesInv
  <1>3. PICK s : s = [st[p] EXCEPT !.pc = "idle", !.stamp = FALSE]
    OBVIOUS
  <1>4. /\ s \in StoreType /\ s.pc = "idle" /\ s.snap = st[p].snap
        /\ s.queue = st[p].queue /\ s.closing = st[p].closing
    BY <1>2, <1>3 DEF StoreType, Resting
  <1>5. OnlyStore(p) /\ st'[p] = s
    BY <1>1, <1>2, <1>3, <1>4 DEF OnlyStore
  <1>6. QueuesInv'
    BY <1>1, <1>4, <1>5, QueueKept DEF FileInv, Outside, GhostsStay
  <1>7. /\ DiskStays /\ disk' \in DiskType /\ disk'.history # <<>> /\ Settled' /\ Now' = Now
        /\ ReadNamedFinal' = ReadNamedFinal
    BY <1>1, SyncStays DEF FileInv, DiskStays
  <1>8. ReadNamedFinal # Unread
    BY ReadIsASnapshot DEF FileInv
  <1>9. OpeningInv(p)'
    BY <1>1, <1>4, <1>5, <1>7
       DEF FileInv, StoreInv, OpeningInv, Outside, Unlocked, OpenSteps, DiskStays
  <1>10. SettledInv(p)'
    BY <1>1, <1>4, <1>5, <1>7 DEF FileInv, StoreInv, SettledInv
  <1>11. SnapshotInv(p)'
    BY <1>1, <1>4, <1>5, <1>7, <1>8 DEF FileInv, StoreInv, SnapshotInv
  <1>12. SavingInv(p)'
    BY <1>4, <1>5 DEF SavingInv, SaveSteps, BeforeReplace, AfterReplace
  <1>13. StoreInv(p)'
    BY <1>9, <1>10, <1>11, <1>12 DEF StoreInv
  <1> QED
    BY <1>1, <1>5, <1>6, <1>7, <1>13, QuietStep

LEMMA BarrierFailsStep ==
    ASSUME FileInv, NEW p \in Stores, BarrierFails(p)
    PROVE  FileInv'
  <1>1. /\ st[p].pc = "barrier" /\ disk' = disk /\ Outside /\ Bounded
        /\ st' = [st EXCEPT ![p] = [st[p] EXCEPT !.pc = "idle", !.poison = "ambiguous"]]
    BY MishapBound
       DEF BarrierFails, Ghosts, Outside, Bounded, GhostsStay, FileInv, TypesInv
  <1>2. st \in [Stores -> StoreType] /\ st[p] \in StoreType
    BY DEF FileInv, TypesInv
  <1>3. PICK s : s = [st[p] EXCEPT !.pc = "idle", !.poison = "ambiguous"]
    OBVIOUS
  <1>4. /\ s \in StoreType /\ s.pc = "idle" /\ s.poison # "none"
        /\ s.queue = st[p].queue /\ s.closing = st[p].closing
    BY <1>2, <1>3 DEF StoreType, Resting
  <1>5. OnlyStore(p) /\ st'[p] = s
    BY <1>1, <1>2, <1>3, <1>4 DEF OnlyStore
  <1>6. QueuesInv'
    BY <1>1, <1>4, <1>5, QueueKept DEF FileInv, Outside, GhostsStay
  <1>7. /\ DiskStays /\ disk' \in DiskType /\ disk'.history # <<>> /\ Now' = Now
        /\ disk'.store = disk.store
    BY <1>1, UnchangedDisk DEF FileInv, TypesInv, DiskStays
  <1>8. StoreInv(p)'
    BY <1>1, <1>4, <1>5, <1>7, PoisonedStore DEF FileInv, Outside
  <1> QED
    BY <1>1, <1>5, <1>6, <1>7, <1>8, QuietStep

-----------------------------------------------------------------------------
(* Saves. *)

\* Every queued save still has a document to carry.
LEMMA SaveHasADocument ==
    ASSUME FileInv, NEW p \in Stores, NextIs(p, "save")
    PROVE  nextDoc <= MaxDocs
  <1>1. st[p].queue # <<>> /\ Head(st[p].queue) = "save"
    BY DEF NextIs
  <1>2. Queues \in [Stores -> Seq(Operations)] /\ Queues[p] = st[p].queue
    BY DEF Queues, FileInv, TypesInv, StoreType
  <1>3. Len(st[p].queue) <= MaxQueue + 1
    BY DEF FileInv, QueuesInv
  <1>4. PICK Q \in [Stores -> Seq(Operations)] : Q = Queues
    BY <1>2
  <1>5. PICK R : R = [Q EXCEPT ![p] = Tail(@)]
    OBVIOUS
  <1>6. Cardinality(Queued(R)) + 1 <= Cardinality(Queued(Q))
    BY <1>1, <1>2, <1>3, <1>4, <1>5, QueueShrinks
  <1>7. Cardinality(Queued(R)) \in Nat /\ Cardinality(Queued(Q)) \in Nat
    BY QueuedIsFinite
  <1>8. nextDoc + Cardinality(Queued(Q)) <= MaxDocs + 1
    BY <1>4, SavesAreQueued DEF FileInv, QueuesInv
  <1> QED
    BY <1>6, <1>7, <1>8, FileAssumption DEF FileInv, TypesInv

\* The next document is one the bounds admit, and nobody was told of it.
LEMMA NextDocument ==
    ASSUME FileInv, NEW p \in Stores, NextIs(p, "save"), ~SaveRefused(p), nextDoc <= MaxDocs,
           NEW gen \in {st[p].snap.doc.gen, st[p].snap.doc.gen + 1} \cap Nat
    PROVE  /\ [gen |-> gen, id |-> nextDoc] \in Docs /\ gen < nextDoc
           /\ nextDoc \in Nat /\ Usable(st[p]) /\ st[p].snap = ReadNamedFinal
  <1>1. Usable(st[p]) /\ st[p].ready
    BY DEF NextIs, SaveRefused, Usable
  <1>2. st[p].snap = ReadNamedFinal
    BY <1>1 DEF FileInv, StoreInv, SnapshotInv
  <1>3. /\ st[p].snap.doc \in Docs \cup {Absent}
        /\ st[p].snap.doc # Absent => Issued(st[p].snap.doc)
    BY <1>2, ReadIsASnapshot DEF FileInv
  <1>4. nextDoc \in 1 .. MaxDocs
    BY FileAssumption DEF FileInv, TypesInv
  <1>5. gen < nextDoc /\ gen \in 0 .. MaxDocs - 1
    <2>1. CASE st[p].snap.doc = Absent
      BY <1>4, <2>1, FileAssumption DEF Absent
    <2>2. CASE st[p].snap.doc # Absent
      <3>1. st[p].snap.doc \in Docs /\ Issued(st[p].snap.doc)
        BY <1>3, <2>2
      <3>2. st[p].snap.doc.gen \in Nat /\ st[p].snap.doc.id \in Nat
        BY <3>1, FileAssumption DEF Docs
      <3> QED
        BY <1>4, <3>1, <3>2, FileAssumption DEF Issued
    <2> QED
      BY <2>1, <2>2
  <1>6. [gen |-> gen, id |-> nextDoc] \in Docs
    BY <1>4, <1>5 DEF Docs
  <1> QED
    BY <1>1, <1>2, <1>4, <1>5, <1>6, FileAssumption

\* A document that was never handed over is nowhere.
LEMMA NewDocument ==
    ASSUME FileInv, NEW doc \in Docs, doc.id = nextDoc
    PROVE  doc \notin Survivors /\ doc \notin acked /\ doc \notin denied
  <1>1. nextDoc \in Int /\ doc # Absent /\ ~(nextDoc < nextDoc)
    BY FileAssumption DEF FileInv, TypesInv, Docs, Absent
  <1>2. doc \notin acked /\ doc \notin denied
    BY <1>1 DEF FileInv, ReportedInv
  <1>3. ASSUME doc \in Survivors PROVE FALSE
    <2>1. PICK e \in States : doc \in Kept(e.final)
      BY <1>1, <1>3, KeptSurvives
    <2>2. e.final # 0 /\ doc \in disk.file[e.final].kept
      BY <1>1, <2>1 DEF Kept
    <2>3. Whole(e.final)
      BY <2>2 DEF FileInv, DirectoryInv, FinalsAreWhole
    <2>4. Issued(doc)
      BY <2>2, <2>3 DEF Whole
    <2> QED
      BY <1>1, <2>4 DEF Issued
  <1> QED
    BY <1>2, <1>3

LEMMA BeginSaveStep ==
    ASSUME FileInv, NEW p \in Stores,
           NEW gen \in {st[p].snap.doc.gen, st[p].snap.doc.gen + 1} \cap Nat, BeginSave(p, gen)
    PROVE  FileInv'
  <1>1. PICK doc : doc = [gen |-> gen, id |-> nextDoc]
    OBVIOUS
  <1>2. /\ NextIs(p, "save") /\ ~SaveRefused(p) /\ nextDoc' = nextDoc + 1 /\ acked' = acked
        /\ flock' = flock /\ children' = {} /\ Bounded /\ st[p].pc = "idle"
    BY DEF BeginSave, Bounds, Bounded, FileInv, TypesInv, NextIs
  <1>3. \/ /\ st' = [st EXCEPT ![p] = [Done(st[p]) EXCEPT !.poison = "failed"]]
           /\ denied' = denied \cup {doc} /\ disk' = disk
        \/ /\ Replaceable(p, gen) /\ Free # {} /\ denied' = denied
           /\ disk' = [Linked(disk, [Now EXCEPT !.temp = FreshInode])
                         EXCEPT !.file[FreshInode] = NewFile]
           /\ st' = [st EXCEPT ![p] = [Done(st[p]) EXCEPT
                         !.pc = "write", !.temp = FreshInode, !.doc = doc]]
    BY <1>1 DEF BeginSave
  <1>4. PICK d : d = Done(st[p])
    OBVIOUS
  <1>5. /\ d \in StoreType /\ Takes(p, d) /\ d.pc = "idle" /\ d.snap = st[p].snap
    BY <1>2, <1>4, DoneStore
  <1>6. flock = p /\ \A q \in Stores \ {p} : st[q].pc \in Unlocked
    BY <1>2, OwnerIsAlone DEF FileInv, StoreInv, OpeningInv, Unlocked
  <1>7. nextDoc \in Int /\ nextDoc' \in Int /\ nextDoc <= nextDoc'
    BY <1>2, FileAssumption DEF FileInv, TypesInv
  <1>8. ASSUME nextDoc <= MaxDocs
        PROVE  /\ doc \in Docs /\ doc.gen = gen /\ doc.id = nextDoc /\ gen < nextDoc
               /\ Usable(st[p]) /\ st[p].snap = ReadNamedFinal
               /\ nextDoc' \in 1 .. MaxDocs + 1
    BY <1>1, <1>2, <1>8, NextDocument, FileAssumption
  <1>9. ASSUME nextDoc <= MaxDocs PROVE ReportedInv'
    BY <1>2, <1>3, <1>7, <1>8, <1>9, FileAssumption DEF FileInv, ReportedInv, TypesInv, Docs
  <1>10. CASE /\ st' = [st EXCEPT ![p] = [Done(st[p]) EXCEPT !.poison = "failed"]]
              /\ denied' = denied \cup {doc} /\ disk' = disk
    <2>1. PICK s : s = [d EXCEPT !.poison = "failed"]
      OBVIOUS
    <2>2. Takes(p, s) /\ s.pc = "idle" /\ s.poison # "none"
      BY <1>5, <2>1 DEF Takes, StoreType
    <2>3. OnlyStore(p) /\ st'[p] = s /\ QueuesInv' /\ nextDoc <= MaxDocs
      BY <1>2, <1>4, <1>10, <2>1, <2>2, TakesOne
    <2>4. /\ DiskStays /\ disk' \in DiskType /\ disk'.history # <<>> /\ Now' = Now
          /\ disk'.store = disk.store
      BY <1>10, UnchangedDisk DEF FileInv, TypesInv, DiskStays
    <2>5. TypesInv'
      BY <1>2, <1>8, <1>10, <2>3, <2>4 DEF FileInv, TypesInv, OnlyStore, Bounded
    <2>6. DirectoryInv'
      BY <1>7, <2>4, DirectoryStays DEF FileInv
    <2>7. StoreInv(p)'
      BY <1>2, <2>2, <2>3, <2>4, PoisonedStore DEF FileInv
    <2> QED
      BY <1>2, <1>6, <1>9, <2>3, <2>4, <2>5, <2>6, <2>7, OwnerStep
  <1>11. CASE /\ Replaceable(p, gen) /\ Free # {} /\ denied' = denied
              /\ disk' = [Linked(disk, [Now EXCEPT !.temp = FreshInode])
                            EXCEPT !.file[FreshInode] = NewFile]
              /\ st' = [st EXCEPT ![p] = [Done(st[p]) EXCEPT
                            !.pc = "write", !.temp = FreshInode, !.doc = doc]]
    <2>1. PICK i : i = FreshInode
      OBVIOUS
    <2>2. /\ i \in Inodes /\ i # 0 /\ i \in 0 .. MaxInode
          /\ \A e \in States : i \notin Named(e)
      BY <1>11, <2>1, FreshInodeIsNew DEF FileInv
    <2>3. PICK e : e = [Now EXCEPT !.temp = i]
      OBVIOUS
    <2>4. Now \in States /\ Now \in Entries /\ States \subseteq Entries
      BY NowIs DEF FileInv
    <2>5. e \in Entries /\ e.final = Now.final /\ e.lock = Now.lock /\ e.temp = i
      BY <2>2, <2>3, <2>4 DEF Entries
    <2>6. /\ disk' \in DiskType /\ disk'.store = disk.store
          /\ \A j \in Inodes \ {i} : disk'.file[j] = disk.file[j]
          /\ Now' = e /\ States' = States \cup {e} /\ disk'.history # <<>>
      <3>1. disk' = [Linked(disk, e) EXCEPT !.file[i] = NewFile]
        BY <1>11, <2>1, <2>3
      <3> QED
        BY <2>2, <2>5, <3>1, LinkedNewFile DEF FileInv
    <2>7. \A f \in States : f.final # i /\ (f.final # 0 => f.final \in Inodes \ {i})
      <3> SUFFICES ASSUME NEW f \in States
                   PROVE  f.final # i /\ (f.final # 0 => f.final \in Inodes \ {i})
        OBVIOUS
      <3>1. f \in Entries /\ i \notin {f.final, f.temp, f.lock}
        BY <2>2, <2>4 DEF Named
      <3> QED
        BY <3>1, FileAssumption DEF Entries, Inodes
    <2>8. i # Now.lock /\ i # Now.final
      BY <2>2, <2>4 DEF Named
    <2>9. \A f \in States : f.final # 0 => disk'.file[f.final] = disk.file[f.final]
      BY <2>6, <2>7
    <2>10. /\ DirectoryInv' /\ Survivors' \subseteq Survivors /\ (Settled => Settled')
           /\ ReadNamedFinal' = ReadNamedFinal
      BY <1>7, <2>5, <2>6, <2>8, <2>9, Relinked
    <2>11. [d EXCEPT !.pc = "write", !.temp = i, !.doc = doc].queue = d.queue
      BY <1>5 DEF StoreType
    <2>12. /\ OnlyStore(p) /\ QueuesInv' /\ nextDoc <= MaxDocs
           /\ st'[p] = [d EXCEPT !.pc = "write", !.temp = i, !.doc = doc]
      <3>1. st[p].queue # <<>> /\ Head(st[p].queue) = "save" /\ st[p].queue \in Seq(Operations)
        BY <1>2 DEF NextIs, FileInv, TypesInv, StoreType
      <3>2. st' = [st EXCEPT ![p] = [d EXCEPT !.pc = "write", !.temp = i, !.doc = doc]]
        BY <1>4, <1>11, <2>1
      <3>3. /\ st'[p] = [d EXCEPT !.pc = "write", !.temp = i, !.doc = doc]
            /\ \A q \in Stores \ {p} : st'[q] = st[q]
        BY <3>2 DEF FileInv, TypesInv
      <3>4. nextDoc <= MaxDocs
        BY <1>2, SaveHasADocument
      <3>5. doc \in Docs
        BY <1>8, <3>4
      <3>6. [d EXCEPT !.pc = "write", !.temp = i, !.doc = doc] \in StoreType
        BY <1>5, <2>2, <3>5 DEF StoreType, SaveSteps, BeforeReplace
      <3>7. OnlyStore(p)
        BY <3>2, <3>3, <3>6 DEF OnlyStore, FileInv, TypesInv
      <3>8. st'[p].queue = Tail(st[p].queue) /\ st'[p].closing = st[p].closing
        BY <1>5, <3>3 DEF StoreType, Takes
      <3>9. QueuesInv'
        BY <1>2, <3>1, <3>7, <3>8, QueueDone DEF FileInv
      <3> QED
        BY <3>3, <3>4, <3>7, <3>9
    <2>13. /\ doc \in Docs /\ doc.gen = gen /\ doc.id = nextDoc /\ gen < nextDoc
           /\ Usable(st[p]) /\ st[p].snap = ReadNamedFinal /\ nextDoc' \in 1 .. MaxDocs + 1
      BY <1>8, <2>12
    <2>14. /\ st'[p].pc = "write" /\ st'[p].temp = i /\ st'[p].doc = doc
           /\ st'[p].snap = st[p].snap
      BY <1>5, <2>12 DEF StoreType
    <2>15. TypesInv'
      BY <1>2, <1>11, <2>6, <2>12, <2>13 DEF FileInv, TypesInv, OnlyStore, Bounded
    <2>16. OpeningInv(p)'
      BY <1>2, <2>5, <2>6, <2>14 DEF FileInv, StoreInv, OpeningInv, Unlocked, OpenSteps
    <2>17. SettledInv(p)'
      <3>1. Settled'
        BY <2>10, <2>13 DEF FileInv, StoreInv, SettledInv
      <3> QED
        BY <2>14, <3>1 DEF SettledInv, Usable, AfterReplace
    <2>18. SnapshotInv(p)'
      BY <2>10, <2>13, <2>14 DEF SnapshotInv, Usable
    <2>19. SavingInv(p)'
      <3>1. doc \notin Survivors /\ doc \notin acked /\ doc \notin denied
        BY <2>13, NewDocument
      <3>2. Issued(doc)'
        BY <1>2, <1>7, <2>13 DEF Issued
      <3>3. doc.gen = st[p].snap.doc.gen + 1
        BY <1>11, <2>13 DEF Replaceable, NextGeneration
      <3>4. \A f \in States' : f.final # i
        BY <2>5, <2>6, <2>7, <2>8
      <3> QED
        BY <1>2, <1>11, <2>2, <2>5, <2>6, <2>10, <2>13, <2>14, <3>1, <3>2, <3>3, <3>4
           DEF SavingInv, SaveSteps, BeforeReplace, AfterReplace
    <2>20. StoreInv(p)'
      BY <2>16, <2>17, <2>18, <2>19 DEF StoreInv
    <2>21. Now.lock # 0 => Now'.lock # 0
      BY <2>5, <2>6
    <2> QED
      BY <1>2, <1>6, <1>9, <2>6, <2>10, <2>12, <2>15, <2>20, <2>21, OwnerStep
  <1> QED
    BY <1>3, <1>10, <1>11

\* The file that is being written has no other name than the temporary one.
LEMMA TempFileStays ==
    ASSUME FileInv, NEW p \in Stores, st[p].pc \in BeforeReplace,
           disk'.history = disk.history, disk'.store = disk.store, nextDoc' = nextDoc,
           \A j \in Inodes \ {st[p].temp} : disk'.file[j] = disk.file[j]
    PROVE  /\ Now' = Now /\ States' = States /\ DirectoryInv' /\ Settled'
           /\ Survivors' \subseteq Survivors /\ ReadNamedFinal' = ReadNamedFinal
           /\ st[p].temp \in Inodes
  <1>1. Now \in States /\ States \subseteq Entries
    BY NowIs DEF FileInv
  <1>2. Now' = Now /\ States' = States
    BY SameHistory
  <1>3. st[p].temp \in Inodes /\ \A e \in States : e.final # st[p].temp
    BY FileAssumption
       DEF FileInv, StoreInv, SavingInv, SaveSteps, TypesInv, StoreType, Inodes
  <1>4. \A e \in States : e.final # 0 => disk'.file[e.final] = disk.file[e.final]
    <2> SUFFICES ASSUME NEW e \in States, e.final # 0
                 PROVE  disk'.file[e.final] = disk.file[e.final]
      OBVIOUS
    <2>1. e.final \in Inodes \ {st[p].temp}
      BY <1>1, <1>3, FileAssumption DEF Entries, Inodes
    <2> QED
      BY <2>1
  <1>5. FinalsAreWhole'
    BY <1>2, <1>4 DEF FileInv, DirectoryInv, FinalsAreWhole, Whole, Issued
  <1>6. NamesAreApart' /\ TwoFinals'
    BY <1>2 DEF FileInv, DirectoryInv, NamesAreApart, TwoFinals
  <1>7. Survivors' \subseteq Survivors
    BY <1>2, <1>4, SurvivorsShrink
  <1>8. ReadNamedFinal' = ReadNamedFinal
    BY <1>1, <1>2, <1>4 DEF ReadNamedFinal, Seen
  <1>9. Settled'
    BY <1>2 DEF FileInv, StoreInv, SettledInv, Settled
  <1> QED
    BY <1>2, <1>3, <1>5, <1>6, <1>7, <1>8, <1>9 DEF DirectoryInv

\* A step on the temporary file.
LEMMA TempStep ==
    ASSUME FileInv, NEW p \in Stores, NEW c \in {"write_rest", "temp_fsync", "replace"},
           st[p].pc \in BeforeReplace, Goto(p, c), Outside, Bounded,
           disk' \in DiskType, disk'.history = disk.history, disk'.store = disk.store,
           \A j \in Inodes \ {st[p].temp} : disk'.file[j] = disk.file[j],
           c \in {"temp_fsync", "replace"} => disk'.file[st[p].temp].seen = st[p].doc,
           c = "replace" => disk'.file[st[p].temp].kept = {st[p].doc}
    PROVE  FileInv'
  <1>1. /\ Now' = Now /\ States' = States /\ DirectoryInv' /\ Settled'
        /\ Survivors' \subseteq Survivors /\ ReadNamedFinal' = ReadNamedFinal
    BY TempFileStays DEF Outside, GhostsStay
  <1>2. Moves(p, c)
    BY Goes DEF FileInv, Steps, SaveSteps, BeforeReplace
  <1>3. disk'.history # <<>>
    BY DEF FileInv, TypesInv
  <1>4. TypesInv'
    BY <1>2, <1>3, QuietTypes DEF FileInv, Outside, Moves, TypesInv
  <1>5. QueuesInv'
    BY <1>2, QueueKept DEF FileInv, Moves, Outside, GhostsStay
  <1>6. ReportedInv'
    BY DEF FileInv, ReportedInv, Outside, GhostsStay
  <1>7. OpeningInv(p)'
    BY <1>1, <1>2
       DEF FileInv, StoreInv, OpeningInv, Moves, Outside, Unlocked, OpenSteps, BeforeReplace
  <1>8. SettledInv(p)'
    BY <1>1, <1>2 DEF SettledInv, Moves, Usable, AfterReplace
  <1>9. SnapshotInv(p)'
    BY <1>1, <1>2 DEF FileInv, StoreInv, SnapshotInv, Moves, Usable
  <1>10. SavingInv(p)'
    <2>1. /\ st[p].doc \in Docs /\ Issued(st[p].doc) /\ st[p].doc \notin denied
          /\ st[p].temp # 0 /\ Now.temp = st[p].temp
          /\ \A e \in States : e.final # st[p].temp
          /\ st[p].doc.gen = st[p].snap.doc.gen + 1
          /\ st[p].doc \notin Survivors /\ st[p].doc \notin acked
      BY DEF FileInv, StoreInv, SavingInv, SaveSteps
    <2>2. Issued(st[p].doc)' /\ acked' = acked /\ denied' = denied
      BY <1>2, <2>1 DEF Issued, Outside, GhostsStay, Moves
    <2> QED
      BY <1>1, <1>2, <2>1, <2>2 DEF SavingInv, Moves, SaveSteps, BeforeReplace, AfterReplace
  <1>11. StoreInv(p)'
    BY <1>7, <1>8, <1>9, <1>10 DEF StoreInv
  <1>12. flock' = p /\ \A q \in Stores \ {p} : st[q].pc \in Unlocked
    BY OwnerIsAlone DEF FileInv, StoreInv, OpeningInv, Outside, BeforeReplace, Unlocked
  <1> QED
    BY <1>1, <1>2, <1>4, <1>5, <1>6, <1>11, <1>12, OwnerStep DEF Moves

LEMMA WriteTempStep ==
    ASSUME FileInv, NEW p \in Stores, WriteTemp(p)
    PROVE  FileInv'
  <1>1. /\ st[p].pc = "write" /\ Goto(p, "write_rest") /\ Outside /\ Bounded
        /\ disk' = Written(disk, st[p].temp, Torn)
    BY DEF WriteTemp, Ghosts, Bounds, Outside, Bounded, GhostsStay, FileInv, TypesInv
  <1>2. disk \in DiskType /\ Torn \in Contents /\ st[p].temp \in Inodes
    BY <1>1, FileAssumption
       DEF FileInv, TypesInv, Contents, StoreType, Inodes, StoreInv, SavingInv, SaveSteps,
           BeforeReplace
  <1>3. /\ disk' \in DiskType /\ disk'.store = disk.store /\ disk'.history = disk.history
        /\ \A j \in Inodes \ {st[p].temp} : disk'.file[j] = disk.file[j]
    BY <1>1, <1>2, WrittenFile
  <1> QED
    BY <1>1, <1>3, TempStep DEF BeforeReplace

LEMMA WriteTempRestStep ==
    ASSUME FileInv, NEW p \in Stores, WriteTempRest(p)
    PROVE  FileInv'
  <1>1. /\ st[p].pc = "write_rest" /\ Goto(p, "temp_fsync") /\ Outside /\ Bounded
        /\ disk' = Written(disk, st[p].temp, st[p].doc)
    BY DEF WriteTempRest, Ghosts, Bounds, Outside, Bounded, GhostsStay, FileInv, TypesInv
  <1>2. disk \in DiskType /\ st[p].doc \in Contents /\ st[p].temp \in Inodes
    BY <1>1, FileAssumption
       DEF FileInv, TypesInv, Contents, StoreType, Inodes, StoreInv, SavingInv, SaveSteps,
           BeforeReplace
  <1>3. /\ disk' \in DiskType /\ disk'.store = disk.store /\ disk'.history = disk.history
        /\ disk'.file[st[p].temp].seen = st[p].doc
        /\ \A j \in Inodes \ {st[p].temp} : disk'.file[j] = disk.file[j]
    BY <1>1, <1>2, WrittenFile
  <1> QED
    BY <1>1, <1>3, TempStep DEF BeforeReplace

LEMMA FsyncTempStep ==
    ASSUME FileInv, NEW p \in Stores, FsyncTemp(p)
    PROVE  FileInv'
  <1>1. /\ st[p].pc = "temp_fsync" /\ Goto(p, "replace") /\ Outside /\ Bounded
        /\ disk' = FileSynced(disk, st[p].temp)
    BY DEF FsyncTemp, TempSynced, Ghosts, Bounds, Outside, Bounded, GhostsStay, FileInv, TypesInv
  <1>2. disk \in DiskType /\ st[p].temp \in Inodes /\ disk.file[st[p].temp].seen = st[p].doc
    BY <1>1, FileAssumption
       DEF FileInv, TypesInv, StoreType, Inodes, StoreInv, SavingInv, SaveSteps, BeforeReplace
  <1>3. /\ disk' \in DiskType /\ disk'.store = disk.store /\ disk'.history = disk.history
        /\ disk'.file[st[p].temp].seen = st[p].doc
        /\ disk'.file[st[p].temp].kept = {st[p].doc}
        /\ \A j \in Inodes \ {st[p].temp} : disk'.file[j] = disk.file[j]
    BY <1>1, <1>2, SyncedFile
  <1> QED
    BY <1>1, <1>3, TempStep DEF BeforeReplace

\* The rename: the written document takes the place of the settled one.
LEMMA ReplacedDirectory ==
    ASSUME FileInv, NEW p \in Stores, Replace(p)
    PROVE  /\ disk' \in DiskType /\ disk'.store = disk.store /\ disk'.file = disk.file
           /\ disk'.history # <<>> /\ Now'.lock = Now.lock
           /\ Now'.final = st[p].temp /\ Now'.temp = 0
           /\ \E e : e.final = st[p].temp /\ States' = States \cup {e}
           /\ DirectoryInv' /\ disk.file[st[p].temp].seen = st[p].doc
           /\ disk.file[st[p].temp].kept = {st[p].doc}
  <1>1. /\ st[p].pc = "replace" /\ nextDoc' = nextDoc
        /\ disk' = Linked(disk, [Now EXCEPT !.final = st[p].temp, !.temp = 0])
    BY DEF Replace, Ghosts
  <1>2. Now \in States /\ Now \in Entries /\ States \subseteq Entries /\ 0 \in 0 .. MaxInode
    BY NowIs, FileAssumption DEF FileInv
  <1>3. PICK e : e = [Now EXCEPT !.final = st[p].temp, !.temp = 0]
    OBVIOUS
  <1>4. st[p].temp \in 0 .. MaxInode
    BY DEF FileInv, TypesInv, StoreType
  <1>5. e \in Entries /\ e.final = st[p].temp /\ e.temp = 0 /\ e.lock = Now.lock
    BY <1>2, <1>3, <1>4 DEF Entries
  <1>6. /\ disk' \in DiskType /\ disk'.store = disk.store /\ disk'.file = disk.file
        /\ Now' = e /\ States' = States \cup {e} /\ disk'.history # <<>>
    BY <1>1, <1>3, <1>5, LinkedDisk DEF FileInv
  <1>7. /\ Now.temp = st[p].temp /\ st[p].temp # 0 /\ st[p].doc \in Docs
        /\ Issued(st[p].doc) /\ disk.file[st[p].temp].seen = st[p].doc
        /\ disk.file[st[p].temp].kept = {st[p].doc}
        /\ \A d \in States : d.final # st[p].temp
    BY <1>1 DEF FileInv, StoreInv, SavingInv, SaveSteps, BeforeReplace
  <1>8. Settled /\ disk.store = "durable"
    BY <1>1
       DEF FileInv, StoreInv, SettledInv, OpeningInv, BeforeReplace
  <1>9. FinalsAreWhole'
    <2>1. PICK doc : doc = st[p].doc
      OBVIOUS
    <2>4. disk'.file[e.final].seen = doc /\ disk'.file[e.final].kept = {doc} /\ doc \in Docs
      BY <1>5, <1>6, <1>7, <2>1
    <2>5. Issued(doc)'
      BY <1>1, <1>7, <2>1 DEF Issued
    <2> SUFFICES ASSUME NEW d \in States', d.final # 0
                 PROVE  disk'.store = "durable" /\ Whole(d.final)'
      BY DEF FinalsAreWhole
    <2>2. CASE d \in States
      BY <1>1, <1>6, <2>2 DEF FileInv, DirectoryInv, FinalsAreWhole, Whole, Issued
    <2>3. CASE d = e
      <3>1. Whole(e.final)'
        BY <2>4, <2>5 DEF Whole
      <3> QED
        BY <1>6, <1>8, <2>3, <3>1
    <2> QED
      BY <1>6, <2>2, <2>3
  <1>10. NamesAreApart'
    <2>1. st[p].temp # Now.lock
      BY <1>2, <1>7 DEF FileInv, DirectoryInv, NamesAreApart
    <2> QED
      BY <1>5, <1>6, <1>7, <2>1 DEF FileInv, DirectoryInv, NamesAreApart
  <1>11. TwoFinals'
    BY <1>5, <1>6, <1>8 DEF TwoFinals, Settled
  <1> QED
    BY <1>5, <1>6, <1>7, <1>9, <1>10, <1>11 DEF DirectoryInv

LEMMA ReplaceStep ==
    ASSUME FileInv, NEW p \in Stores, Replace(p)
    PROVE  FileInv'
  <1>1. st[p].pc = "replace" /\ Goto(p, "verify") /\ Outside /\ Bounded
    BY DEF Replace, Ghosts, Bounds, Outside, Bounded, GhostsStay, FileInv, TypesInv
  <1>2. /\ disk' \in DiskType /\ disk'.store = disk.store /\ disk'.file = disk.file
        /\ disk'.history # <<>> /\ Now'.lock = Now.lock
        /\ Now'.final = st[p].temp /\ Now'.temp = 0 /\ DirectoryInv'
        /\ disk.file[st[p].temp].seen = st[p].doc
    BY ReplacedDirectory
  <1>3. Moves(p, "verify")
    BY <1>1, Goes DEF FileInv, Steps, SaveSteps, AfterReplace
  <1>4. TypesInv'
    BY <1>1, <1>2, <1>3, QuietTypes DEF FileInv, Outside, Moves, TypesInv
  <1>5. QueuesInv'
    BY <1>1, <1>3, QueueKept DEF FileInv, Moves, Outside, GhostsStay
  <1>6. ReportedInv'
    BY <1>1 DEF FileInv, ReportedInv, Outside, GhostsStay
  <1>7. OpeningInv(p)'
    BY <1>1, <1>2, <1>3 DEF FileInv, StoreInv, OpeningInv, Moves, Outside, Unlocked, OpenSteps
  <1>8. SettledInv(p)' /\ SnapshotInv(p)'
    BY <1>2, <1>3 DEF SettledInv, SnapshotInv, Moves, Usable, BeforeReplace
  <1>9. SavingInv(p)'
    <2>1. /\ st[p].doc \in Docs /\ Issued(st[p].doc) /\ st[p].doc \notin denied
          /\ st[p].temp # 0
      BY <1>1 DEF FileInv, StoreInv, SavingInv, SaveSteps, BeforeReplace
    <2>2. Issued(st[p].doc)' /\ denied' = denied
      BY <1>1, <1>3, <2>1 DEF Issued, Outside, GhostsStay, Moves
    <2> QED
      BY <1>2, <1>3, <2>1, <2>2 DEF SavingInv, Moves, SaveSteps, BeforeReplace, AfterReplace
  <1>10. StoreInv(p)'
    BY <1>7, <1>8, <1>9 DEF StoreInv
  <1>11. flock' = p /\ \A q \in Stores \ {p} : st[q].pc \in Unlocked
    BY <1>1, OwnerIsAlone DEF FileInv, StoreInv, OpeningInv, Outside, Unlocked
  <1> QED
    BY <1>2, <1>3, <1>4, <1>5, <1>6, <1>10, <1>11, OwnerStep DEF Moves

\* After the rename: what was saved stays in place while it is verified and settled.
LEMMA AfterReplaceStep ==
    ASSUME FileInv, NEW p \in Stores, NEW c \in {"commit_fsync", "reopen"},
           st[p].pc \in {"verify", "commit_fsync"}, Goto(p, c), Outside, Bounded,
           DiskStays, disk' \in DiskType, disk'.history # <<>>, c = "reopen" => Settled'
    PROVE  FileInv'
  <1>1. Moves(p, c)
    BY Goes DEF FileInv, Steps, SaveSteps, AfterReplace
  <1>2. QueuesInv'
    BY <1>1, QueueKept DEF FileInv, Moves, Outside, GhostsStay
  <1>3. OpeningInv(p)'
    BY <1>1 DEF FileInv, StoreInv, OpeningInv, Moves, Outside, Unlocked, OpenSteps, DiskStays
  <1>4. SettledInv(p)'
    BY <1>1 DEF FileInv, StoreInv, SettledInv, Moves, Usable, BeforeReplace, AfterReplace,
                DiskStays
  <1>5. SnapshotInv(p)'
    BY <1>1 DEF SnapshotInv, Moves, Usable, BeforeReplace
  <1>6. SavingInv(p)'
    <2>1. /\ st[p].doc \in Docs /\ Issued(st[p].doc) /\ st[p].doc \notin denied
          /\ st[p].temp # 0 /\ Now.final = st[p].temp
          /\ disk.file[st[p].temp].seen = st[p].doc
      BY DEF FileInv, StoreInv, SavingInv, SaveSteps, AfterReplace
    <2>2. Issued(st[p].doc)' /\ denied' = denied
      BY <1>1, <2>1 DEF Issued, Outside, GhostsStay, Moves
    <2>3. disk'.file[st[p].temp] = disk.file[st[p].temp] /\ Now' = Now
      BY <2>1 DEF DiskStays, SaveSteps, AfterReplace
    <2> QED
      BY <1>1, <2>1, <2>2, <2>3 DEF SavingInv, Moves, SaveSteps, BeforeReplace, AfterReplace
  <1>7. StoreInv(p)'
    BY <1>3, <1>4, <1>5, <1>6 DEF StoreInv
  <1> QED
    BY <1>1, <1>2, <1>7, QuietStep DEF Moves

LEMMA VerifyReplacedStep ==
    ASSUME FileInv, NEW p \in Stores, VerifyReplaced(p)
    PROVE  FileInv'
  <1>1. st[p].pc = "verify" /\ Goto(p, "commit_fsync") /\ Outside /\ Bounded /\ disk' = disk
    BY DEF VerifyReplaced, Ghosts, Bounds, Outside, Bounded, GhostsStay, FileInv, TypesInv
  <1>2. DiskStays /\ disk' \in DiskType /\ disk'.history # <<>>
    BY <1>1, UnchangedDisk DEF FileInv, TypesInv
  <1> QED
    BY <1>1, <1>2, AfterReplaceStep

LEMMA FsyncCommitStep ==
    ASSUME FileInv, NEW p \in Stores, FsyncCommit(p)
    PROVE  FileInv'
  <1>1. /\ st[p].pc = "commit_fsync" /\ Goto(p, "reopen") /\ Outside /\ Bounded
        /\ disk' = DirectorySynced(disk)
    BY DEF FsyncCommit, Ghosts, Bounds, Outside, Bounded, GhostsStay, FileInv, TypesInv
  <1>2. DiskStays /\ disk' \in DiskType /\ disk'.history # <<>> /\ Settled'
    BY <1>1, SyncStays DEF FileInv
  <1> QED
    BY <1>1, <1>2, AfterReplaceStep

LEMMA CommitSaveStep ==
    ASSUME FileInv, NEW p \in Stores, CommitSave(p)
    PROVE  FileInv'
  <1>1. /\ st[p].pc = "reopen" /\ disk' = disk /\ flock' = flock /\ children' = {}
        /\ nextDoc' = nextDoc /\ denied' = denied /\ acked' = acked \cup {st[p].doc} /\ Bounded
        /\ st' = [st EXCEPT ![p] = [st[p] EXCEPT
                    !.pc = "idle", !.temp = 0, !.doc = Absent, !.snap = ReadNamedFinal,
                    !.ready = FALSE, !.stamp = TRUE]]
    BY DEF CommitSave, Bounds, Bounded, FileInv, TypesInv
  <1>2. /\ st \in [Stores -> StoreType] /\ st[p] \in StoreType
        /\ ReadNamedFinal \in Snapshots /\ 0 \in 0 .. MaxInode
    BY ReadIsASnapshot, FileAssumption DEF FileInv, TypesInv
  <1>3. PICK s : s = [st[p] EXCEPT !.pc = "idle", !.temp = 0, !.doc = Absent,
                        !.snap = ReadNamedFinal, !.ready = FALSE, !.stamp = TRUE]
    OBVIOUS
  <1>4. /\ s \in StoreType /\ s.pc = "idle" /\ s.snap = ReadNamedFinal /\ ~s.ready
        /\ s.queue = st[p].queue /\ s.closing = st[p].closing
    BY <1>2, <1>3 DEF StoreType, Resting
  <1>5. OnlyStore(p) /\ st'[p] = s
    BY <1>1, <1>2, <1>3, <1>4 DEF OnlyStore
  <1>6. QueuesInv'
    BY <1>1, <1>4, <1>5, QueueKept DEF FileInv
  <1>7. /\ DiskStays /\ disk' \in DiskType /\ disk'.history # <<>> /\ Now' = Now
        /\ disk'.store = disk.store /\ States' = States /\ ReadNamedFinal' = ReadNamedFinal
    BY <1>1, UnchangedDisk DEF FileInv, TypesInv, DiskStays
  <1>8. st[p].doc \in Docs /\ st[p].doc.id < nextDoc
    BY <1>1 DEF FileInv, StoreInv, SavingInv, SaveSteps, AfterReplace, Issued
  <1>9. TypesInv'
    BY <1>1, <1>5, <1>7, <1>8 DEF FileInv, TypesInv, OnlyStore, Bounded
  <1>10. ReportedInv'
    BY <1>1, <1>8 DEF FileInv, ReportedInv
  <1>11. DirectoryInv'
    <2>1. nextDoc' \in Int /\ nextDoc <= nextDoc'
      BY <1>1, FileAssumption DEF FileInv, TypesInv
    <2> QED
      BY <1>7, <2>1, DirectoryStays DEF FileInv
  <1>12. OpeningInv(p)'
    BY <1>1, <1>4, <1>5, <1>7 DEF FileInv, StoreInv, OpeningInv, Unlocked, OpenSteps
  <1>13. SettledInv(p)'
    BY <1>1, <1>4, <1>5, <1>7 DEF FileInv, StoreInv, SettledInv, Settled, AfterReplace
  <1>14. SnapshotInv(p)' /\ SavingInv(p)'
    BY <1>4, <1>5, <1>7 DEF SnapshotInv, SavingInv, SaveSteps, BeforeReplace, AfterReplace
  <1>15. StoreInv(p)'
    BY <1>12, <1>13, <1>14 DEF StoreInv
  <1>16. flock' = p /\ \A q \in Stores \ {p} : st[q].pc \in Unlocked
    BY <1>1, OwnerIsAlone DEF FileInv, StoreInv, OpeningInv, Unlocked
  <1> QED
    BY <1>5, <1>6, <1>7, <1>9, <1>10, <1>11, <1>15, <1>16, OwnerStep

LEMMA SaveFailsStep ==
    ASSUME FileInv, NEW p \in Stores, SaveFails(p)
    PROVE  FileInv'
  <1>1. /\ st[p].pc \in SaveSteps /\ disk' = disk /\ flock' = flock /\ children' = {}
        /\ nextDoc' = nextDoc /\ acked' = acked /\ Bounded
        /\ \E v \in {"ambiguous", "failed"} :
               st' = [st EXCEPT ![p] = [st[p] EXCEPT !.pc = "idle", !.temp = 0, !.doc = Absent,
                                            !.poison = v]]
        /\ denied' = denied \/ denied' = denied \cup {st[p].doc}
    BY MishapBound DEF SaveFails, Bounded, FileInv, TypesInv
  <1>2. PICK v \in {"ambiguous", "failed"} :
            st' = [st EXCEPT ![p] = [st[p] EXCEPT !.pc = "idle", !.temp = 0, !.doc = Absent,
                                            !.poison = v]]
    BY <1>1
  <1>3. st \in [Stores -> StoreType] /\ st[p] \in StoreType /\ 0 \in 0 .. MaxInode
    BY FileAssumption DEF FileInv, TypesInv
  <1>4. PICK s : s = [st[p] EXCEPT !.pc = "idle", !.temp = 0, !.doc = Absent, !.poison = v]
    OBVIOUS
  <1>5. /\ s \in StoreType /\ s.pc = "idle" /\ s.poison # "none"
        /\ s.queue = st[p].queue /\ s.closing = st[p].closing
    BY <1>3, <1>4 DEF StoreType, Resting
  <1>6. OnlyStore(p) /\ st'[p] = s
    BY <1>2, <1>3, <1>4, <1>5 DEF OnlyStore
  <1>7. QueuesInv'
    BY <1>1, <1>5, <1>6, QueueKept DEF FileInv
  <1>8. /\ DiskStays /\ disk' \in DiskType /\ disk'.history # <<>> /\ Now' = Now
        /\ disk'.store = disk.store
    BY <1>1, UnchangedDisk DEF FileInv, TypesInv, DiskStays
  <1>9. st[p].doc \in Docs /\ st[p].doc.id < nextDoc
    BY <1>1 DEF FileInv, StoreInv, SavingInv, Issued
  <1>10. TypesInv'
    BY <1>1, <1>6, <1>8, <1>9 DEF FileInv, TypesInv, OnlyStore, Bounded
  <1>11. ReportedInv'
    BY <1>1, <1>9 DEF FileInv, ReportedInv
  <1>12. DirectoryInv'
    <2>1. nextDoc' \in Int /\ nextDoc <= nextDoc'
      BY <1>1, FileAssumption DEF FileInv, TypesInv
    <2> QED
      BY <1>8, <2>1, DirectoryStays DEF FileInv
  <1>13. StoreInv(p)'
    BY <1>1, <1>5, <1>6, <1>8, PoisonedStore DEF FileInv
  <1>14. flock' = p /\ \A q \in Stores \ {p} : st[q].pc \in Unlocked
    BY <1>1, OwnerIsAlone
       DEF FileInv, StoreInv, OpeningInv, Unlocked, SaveSteps, BeforeReplace, AfterReplace
  <1> QED
    BY <1>6, <1>7, <1>8, <1>10, <1>11, <1>12, <1>13, <1>14, OwnerStep

-----------------------------------------------------------------------------
(* Power. *)

\* What comes back is one of the states the directory may have had.
LEMMA CutDisk ==
    ASSUME FileInv, PowerCut
    PROVE  \E e \in Entries :
             /\ e = NoEntries \/ e \in States
             /\ disk' \in DiskType /\ disk'.history = <<e>>
             /\ disk.store = "durable" => e \in States
             /\ e.final # 0 =>
                    /\ disk'.store = "durable" /\ e \in States
                    /\ disk'.file[e.final].seen = disk.file[e.final].seen
                    /\ disk'.file[e.final].kept = {disk.file[e.final].seen}
             /\ disk'.store = "durable" => disk.store # "absent"
             /\ disk'.store \in {"absent", "durable"}
             /\ disk.store = "durable" => disk'.store = "durable"
  <1>1. PICK i \in 1 .. Len(disk.history), lost \in BOOLEAN :
            LET entries == IF lost THEN NoEntries ELSE disk.history[i]
            IN  /\ lost => disk.store # "durable"
                /\ \E final \in Kept(entries.final), temp \in Kept(entries.temp),
                      lock \in Kept(entries.lock) :
                    disk' = [store |-> IF lost THEN "absent"
                                       ELSE IF disk.store = "visible" THEN "durable"
                                       ELSE disk.store,
                             history |-> <<entries>>,
                             file |-> [f \in Inodes |->
                                IF f = entries.final THEN FileOf(final)
                                ELSE IF f = entries.temp THEN FileOf(temp)
                                ELSE IF f = entries.lock THEN FileOf(lock)
                                ELSE NewFile]]
    BY DEF PowerCut
  <1>2. PICK e : e = IF lost THEN NoEntries ELSE disk.history[i]
    OBVIOUS
  <1>3. PICK final \in Kept(e.final), temp \in Kept(e.temp), lock \in Kept(e.lock) :
            disk' = [store |-> IF lost THEN "absent"
                               ELSE IF disk.store = "visible" THEN "durable"
                               ELSE disk.store,
                     history |-> <<e>>,
                     file |-> [f \in Inodes |->
                        IF f = e.final THEN FileOf(final)
                        ELSE IF f = e.temp THEN FileOf(temp)
                        ELSE IF f = e.lock THEN FileOf(lock)
                        ELSE NewFile]]
    BY <1>1, <1>2
  <1>4. disk.history[i] \in States /\ States \subseteq Entries
    BY NowIs DEF States, FileInv
  <1>5. NoEntries \in Entries /\ NoEntries.final = 0
    BY FileAssumption DEF NoEntries, Entries
  <1>6. /\ e \in Entries /\ (e = NoEntries \/ e \in States) /\ (~lost => e \in States)
        /\ (e.final # 0 => e \in States /\ ~lost)
    BY <1>2, <1>4, <1>5
  <1>7. disk.file \in [Inodes -> FileType] /\ disk.store \in {"absent", "visible", "durable"}
    BY DEF FileInv, TypesInv, DiskType
  <1>8. \A f \in Inodes : f # 0
    BY FileAssumption DEF Inodes
  <1>9. ASSUME NEW f \in Inodes, NEW bytes \in Kept(f) PROVE FileOf(bytes) \in FileType
    <2>1. bytes \in Contents
      BY <1>7, <1>8 DEF Kept, FileType
    <2> QED
      BY <2>1 DEF FileOf, FileType
  <1>10. NewFile \in FileType
    BY DEF NewFile, FileOf, FileType, Contents
  <1>11. /\ disk'.store = (IF lost THEN "absent"
                           ELSE IF disk.store = "visible" THEN "durable" ELSE disk.store)
         /\ disk'.history = <<e>>
         /\ disk'.file = [f \in Inodes |->
                IF f = e.final THEN FileOf(final)
                ELSE IF f = e.temp THEN FileOf(temp)
                ELSE IF f = e.lock THEN FileOf(lock)
                ELSE NewFile]
    BY <1>3
  <1>12. disk'.file \in [Inodes -> FileType]
    <2> SUFFICES ASSUME NEW f \in Inodes
                 PROVE  (IF f = e.final THEN FileOf(final)
                         ELSE IF f = e.temp THEN FileOf(temp)
                         ELSE IF f = e.lock THEN FileOf(lock) ELSE NewFile) \in FileType
      BY <1>11
    <2>1. CASE f = e.final
      BY <1>3, <1>9, <2>1
    <2>2. CASE f # e.final /\ f = e.temp
      BY <1>3, <1>9, <2>2
    <2>3. CASE f # e.final /\ f # e.temp /\ f = e.lock
      BY <1>3, <1>9, <2>3
    <2>4. CASE f # e.final /\ f # e.temp /\ f # e.lock
      BY <1>10, <2>4
    <2> QED
      BY <2>1, <2>2, <2>3, <2>4
  <1>13. disk'.store \in {"absent", "durable"}
    BY <1>7, <1>11
  <1>14. <<e>> \in Seq(Entries)
    BY <1>6
  <1>15. disk' \in DiskType
    BY <1>3, <1>11, <1>12, <1>13, <1>14 DEF DiskType
  <1>16. ASSUME e.final # 0
         PROVE  /\ disk'.store = "durable" /\ e \in States
                /\ disk'.file[e.final].seen = disk.file[e.final].seen
                /\ disk'.file[e.final].kept = {disk.file[e.final].seen}
    <2>1. e \in States /\ ~lost
      BY <1>6, <1>16
    <2>2. disk.store = "durable" /\ Whole(e.final)
      BY <1>16, <2>1 DEF FileInv, DirectoryInv, FinalsAreWhole
    <2>3. e.final \in Inodes
      BY <1>6, <1>16, FileAssumption DEF Entries, Inodes
    <2>4. final = disk.file[e.final].seen
      BY <1>3, <1>16, <2>2 DEF Kept, Whole
    <2>5. disk'.file[e.final] = FileOf(final)
      BY <1>11, <2>3
    <2>6. disk'.store = "durable"
      BY <1>7, <1>11, <2>1, <2>2
    <2>7. /\ disk'.file[e.final].seen = disk.file[e.final].seen
          /\ disk'.file[e.final].kept = {disk.file[e.final].seen}
      BY <2>4, <2>5 DEF FileOf
    <2> QED
      BY <2>1, <2>6, <2>7
  <1> QED
    BY <1>1, <1>6, <1>11, <1>13, <1>15, <1>16

LEMMA PowerCutStep ==
    ASSUME FileInv, PowerCut
    PROVE  FileInv'
  <1>1. /\ st' = [p \in Stores |-> Gone] /\ flock' = NoStore /\ children' = {}
        /\ GhostsStay /\ Bounded
    BY MishapBound DEF PowerCut, Ghosts, GhostsStay, Bounded, FileInv, TypesInv
  <1>2. PICK e \in Entries :
             /\ e = NoEntries \/ e \in States
             /\ disk' \in DiskType /\ disk'.history = <<e>>
             /\ e.final # 0 =>
                    /\ disk'.store = "durable" /\ e \in States
                    /\ disk'.file[e.final].seen = disk.file[e.final].seen
                    /\ disk'.file[e.final].kept = {disk.file[e.final].seen}
    BY CutDisk
  <1>3. Now' = e /\ States' = {e} /\ disk'.history # <<>>
    BY <1>2, OneState
  <1>4. TypesInv'
    BY <1>1, <1>2, <1>3, GoneIsAStore DEF FileInv, TypesInv, GhostsStay, Bounded
  <1>5. QueuesInv'
    <2>1. \A p \in Stores : Queues'[p] = <<>>
      BY <1>1 DEF Queues, Gone
    <2>2. Cardinality(Queued(Queues')) <= Cardinality(Queued(Queues))
      BY <2>1, QueueEmptied
    <2>3. Cardinality(Queued(Queues')) \in Nat /\ Cardinality(Queued(Queues)) \in Nat
      BY QueuedIsFinite
    <2>4. QueuedSaves = Queued(Queues) /\ QueuedSaves' = Queued(Queues')
      BY DEF QueuedSaves, Queued, Queues
    <2>5. nextDoc' + Cardinality(QueuedSaves') <= MaxDocs + 1
      BY <1>1, <2>2, <2>3, <2>4, FileAssumption DEF FileInv, QueuesInv, TypesInv, GhostsStay
    <2>6. \A p \in Stores : st'[p].queue = <<>>
      BY <1>1 DEF Gone
    <2> QED
      BY <2>5, <2>6, FileAssumption DEF QueuesInv
  <1>6. FinalsAreWhole'
    <2>1. ASSUME e.final # 0 PROVE disk'.store = "durable" /\ Whole(e.final)'
      <3>1. Whole(e.final)
        BY <1>2, <2>1 DEF FileInv, DirectoryInv, FinalsAreWhole
      <3>2. PICK doc : doc = disk.file[e.final].seen
        OBVIOUS
      <3>3. Issued(doc)'
        BY <1>1, <3>1, <3>2 DEF Whole, Issued, GhostsStay
      <3>4. doc \in Docs /\ disk'.file[e.final].seen = doc /\ disk'.file[e.final].kept = {doc}
        BY <1>2, <2>1, <3>1, <3>2 DEF Whole
      <3> QED
        BY <1>2, <2>1, <3>3, <3>4 DEF Whole
    <2> QED
      BY <1>3, <2>1 DEF FinalsAreWhole
  <1>7. NamesAreApart'
    <2>1. CASE e = NoEntries
      BY <1>3, <2>1 DEF NamesAreApart, NoEntries
    <2>2. CASE e \in States
      BY <1>3, <2>2 DEF FileInv, DirectoryInv, NamesAreApart
    <2> QED
      BY <1>2, <2>1, <2>2
  <1>8. TwoFinals'
    BY <1>3 DEF TwoFinals
  <1>9. ReportedInv'
    BY <1>1 DEF FileInv, ReportedInv, GhostsStay
  <1>10. ASSUME NEW p \in Stores PROVE StoreInv(p)'
    <2>1. st'[p] = Gone /\ flock' # p
      BY <1>1, FileAssumption
    <2> QED
      BY <2>1, GoneStore
  <1> QED
    BY <1>4, <1>5, <1>6, <1>7, <1>8, <1>9, <1>10 DEF FileInv, DirectoryInv

-----------------------------------------------------------------------------
(* The invariant. *)

LEMMA FileInitially == ASSUME FileInit PROVE FileInv
  <1>1. /\ st = [p \in Stores |-> Gone] /\ flock = NoStore /\ children = {}
        /\ nextDoc = 1 /\ acked = {} /\ denied = {} /\ mishaps = 0 /\ forks = 0
        /\ disk = [store |-> "absent", history |-> <<NoEntries>>, file |-> [i \in Inodes |-> NewFile]]
    BY DEF FileInit
  <1>2. NewFile \in FileType /\ NoEntries \in Entries
    BY FileAssumption DEF NewFile, FileOf, FileType, Contents, NoEntries, Entries
  <1>3. disk.history = <<NoEntries>> /\ disk.store = "absent" /\ disk \in DiskType
    BY <1>1, <1>2 DEF DiskType
  <1>4. Now = NoEntries /\ States = {NoEntries} /\ disk.history # <<>>
    <2>1. Len(<<NoEntries>>) = 1 /\ <<NoEntries>>[1] = NoEntries /\ 1 .. 1 = {1}
      OBVIOUS
    <2> QED
      BY <1>3, <2>1 DEF Now, States
  <1>5. TypesInv
    BY <1>1, <1>3, <1>4, GoneIsAStore, FileAssumption DEF TypesInv
  <1>6. QueuesInv
    <2>1. QueuedSaves = {}
      BY <1>1, FileAssumption DEF QueuedSaves, Gone
    <2>2. Cardinality(QueuedSaves) = 0
      BY <2>1, FS_EmptySet
    <2>3. nextDoc + Cardinality(QueuedSaves) <= MaxDocs + 1
      BY <1>1, <2>2, FileAssumption
    <2>4. \A p \in Stores : st[p].queue = <<>>
      BY <1>1 DEF Gone
    <2> QED
      BY <2>3, <2>4, FileAssumption DEF QueuesInv
  <1>7. DirectoryInv
    BY <1>4 DEF DirectoryInv, FinalsAreWhole, NamesAreApart, TwoFinals, NoEntries
  <1>8. ReportedInv
    BY <1>1 DEF ReportedInv
  <1>9. ASSUME NEW p \in Stores PROVE StoreInv(p)
    <2>1. st[p] = Gone /\ flock # p
      BY <1>1, FileAssumption
    <2> QED
      BY <2>1 DEF StoreInv, OpeningInv, SettledInv, SnapshotInv, SavingInv, Gone, Unlocked,
                  Usable, SaveSteps, BeforeReplace, AfterReplace, OpenSteps
  <1> QED
    BY <1>5, <1>6, <1>7, <1>8, <1>9 DEF FileInv

LEMMA FileStep == ASSUME FileInv, FileNext PROVE FileInv'
  <1>1. ASSUME NEW p \in Stores, OpenDirectory(p) \/ OpenStep(p) \/ CloseOpenedResources(p)
        PROVE  FileInv'
    BY <1>1, OpenDirectoryStep, SyncStoreDirectoryStep, FsyncConfigAnchorStep,
       CreateOrOpenLockStep, AcquireLockStep, WriteLockProtocolStep, WriteLockProtocolRestStep,
       FsyncLockStep, FsyncLockDirectoryStep, LeaveNoStaleTempStep, FsyncStaleRemovalStep,
       AdoptStep, CloseOpenedResourcesStep
       DEF OpenStep
  <1>2. ASSUME NEW p \in Stores,
               \/ \E op \in {"load", "save", "barrier"} : Submit(p, op)
               \/ RequestClose(p) \/ Fork(p)
        PROVE  FileInv'
    BY <1>2, SubmitStep, RequestCloseStep, ForkStep
  <1>3. ASSUME NEW p \in Stores, Work(p) PROVE FileInv'
    <2>1. CASE SaveStep(p)
      BY <2>1, WriteTempStep, WriteTempRestStep, FsyncTempStep, ReplaceStep, VerifyReplacedStep,
         FsyncCommitStep, CommitSaveStep
         DEF SaveStep
    <2>2. CASE \E gen \in {st[p].snap.doc.gen, st[p].snap.doc.gen + 1} \cap Nat : BeginSave(p, gen)
      BY <2>2, BeginSaveStep
    <2>3. CASE \/ Load(p) \/ RefuseSave(p) \/ RefuseBarrier(p) \/ BeginBarrier(p)
               \/ FinishBarrier(p) \/ Close(p)
      BY <2>3, LoadStep, RefuseSaveStep, RefuseBarrierStep, BeginBarrierStep, FinishBarrierStep,
         CloseStep
    <2> QED
      BY <1>3, <2>1, <2>2, <2>3 DEF Work
  <1>4. ASSUME NEW p \in Stores, Trouble(p) PROVE FileInv'
    BY <1>4, OpenFailsStep, LoadFailsStep, SaveFailsStep, BarrierFailsStep, CrashStep DEF Trouble
  <1> QED
    BY <1>1, <1>2, <1>3, <1>4, PowerCutStep DEF FileNext

LEMMA FileStutter == ASSUME FileInv, UNCHANGED fileVars PROVE FileInv'
  <1>1. /\ disk' = disk /\ flock' = flock /\ children' = children /\ st' = st
        /\ nextDoc' = nextDoc /\ acked' = acked /\ denied' = denied
        /\ mishaps' = mishaps /\ forks' = forks
    BY DEF fileVars
  <1>2. TypesInv'
    BY <1>1 DEF FileInv, TypesInv
  <1>3. QueuesInv'
    <2>1. QueuedSaves' = QueuedSaves
      BY <1>1 DEF QueuedSaves
    <2> QED
      BY <1>1, <2>1 DEF FileInv, QueuesInv
  <1>4. DiskStays
    BY <1>1, UnchangedDisk
  <1>5. DirectoryInv'
    BY <1>1, <1>4, DirectoryStays, FileAssumption DEF FileInv, TypesInv
  <1>6. ReportedInv'
    BY <1>1 DEF FileInv, ReportedInv
  <1>7. \A p \in Stores : StoreInv(p)'
    BY <1>1, <1>4, StoreStays DEF FileInv, GhostsStay
  <1> QED
    BY <1>2, <1>3, <1>5, <1>6, <1>7 DEF FileInv

\* The inductive invariant of the file journal: the whole documents under the final name, the
\* names that lead to different files, and what each store of the directory knows of them.
THEOREM FileInvariant == FileSpec => []FileInv
  <1>1. FileInit => FileInv
    BY FileInitially
  <1>2. FileInv /\ [FileNext]_fileVars => FileInv'
    BY FileStep, FileStutter
  <1> QED
    BY <1>1, <1>2, PTL DEF FileSpec

-----------------------------------------------------------------------------
(* What it says of the properties. *)

\* A power cut leaves a document that was whole under the final name, or nothing.
LEMMA SurvivorIs ==
    ASSUME TypesInv, DirectoryInv, NEW d \in Survivors
    PROVE  \/ d = Absent
           \/ d \in Docs /\ Issued(d)
  <1>1. CASE d = Absent
    BY <1>1
  <1>2. CASE d # Absent
    <2>1. PICK e \in States : d \in Kept(e.final)
      BY <1>2, KeptSurvives
    <2>2. e.final # 0
      BY <1>2, <2>1 DEF Kept
    <2>3. Whole(e.final)
      BY <2>2 DEF DirectoryInv, FinalsAreWhole
    <2> QED
      BY <2>1, <2>2, <2>3 DEF Kept, Whole
  <1> QED
    BY <1>1, <1>2

\* In a settled directory above which nothing can be lost, only what is seen can be left.
LEMMA OnlyOneSurvivor ==
    ASSUME TypesInv, DirectoryInv, Settled, disk.store = "durable"
    PROVE  Survivors = {Seen(Now.final)}
  <1>1. Now \in States
    BY NowIs
  <1>2. Kept(Now.final) = {Seen(Now.final)}
    BY <1>1 DEF DirectoryInv, FinalsAreWhole, Whole, Kept, Seen
  <1>3. ASSUME NEW d \in Survivors PROVE d = Seen(Now.final)
    <2>1. PICK e \in States : d \in Kept(e.final)
      BY KeptSurvives
    <2> QED
      BY <1>2, <2>1 DEF Settled
  <1>4. Seen(Now.final) \in Survivors
    BY <1>1, <1>2, KeptSurvives
  <1> QED
    BY <1>3, <1>4

LEMMA DirectoryOK == ASSUME FileInv PROVE DirectoryInvariant
  <1>1. FileTypeOK
    <2>1. /\ disk.store \in {"absent", "visible", "durable"}
          /\ disk.history \in Seq(Entries) /\ disk.history # <<>>
          /\ \A i \in Inodes : disk.file[i].seen \in Contents /\ disk.file[i].kept \subseteq Contents
      BY DEF FileInv, TypesInv, DiskType, FileType
    <2>2. \A p \in Stores : st[p].pc \in {"down", "sync", "anchor", "lock", "flock"} \/ flock = p
      BY DEF FileInv, StoreInv, OpeningInv, Unlocked
    <2> QED
      BY <2>1, <2>2 DEF FileTypeOK, FileInv, TypesInv, StoreType, Operations
  <1>2. OnlyWholeDocuments
    <2>1. \A d \in Survivors : d \in Docs \cup {Absent}
      BY SurvivorIs DEF FileInv
    <2>2. Seen(Now.final) \in Docs \cup {Absent}
      BY ReadIsASnapshot DEF FileInv
    <2> QED
      BY <2>1, <2>2 DEF OnlyWholeDocuments
  <1>3. TempNameIsFree
    BY DEF TempNameIsFree, FileInv, StoreInv, SettledInv, Usable
  <1>4. FlockHasLiveOwner
    BY DEF FlockHasLiveOwner, FileInv, TypesInv, StoreInv, OpeningInv, Unlocked
  <1> QED
    BY <1>1, <1>2, <1>3, <1>4 DEF DirectoryInvariant

\* What every process finds in the directory, after whatever errors, crashes and power cuts:
\* whole documents under the final name, a free temporary name, and a flock that only its live
\* owner holds.
THEOREM DirectorySafe == FileSpec => []DirectoryInvariant
  <1>1. FileInv => DirectoryInvariant
    BY DirectoryOK
  <1> QED
    BY <1>1, FileInvariant, PTL

\* A document that a load returned or a save committed is beyond the reach of a power cut while
\* its store rests, even when another process renamed it and died before its directory fsync.
THEOREM ReturnedSafe == FileSpec => []ReturnedIsDurable
  <1>1. ASSUME FileInv, NEW p \in Stores,
               st[p].pc = "idle", st[p].poison = "none", st[p].snap # Unread
        PROVE  Survivors = {st[p].snap.doc}
    <2>1. /\ Settled /\ disk.store = "durable" /\ st[p].snap = ReadNamedFinal
      BY <1>1 DEF FileInv, StoreInv, SettledInv, OpeningInv, SnapshotInv, Usable
    <2>2. Survivors = {Seen(Now.final)}
      BY <1>1, <2>1, OnlyOneSurvivor DEF FileInv
    <2> QED
      BY <2>1, <2>2 DEF ReadNamedFinal
  <1>2. FileInv => ReturnedIsDurable
    BY <1>1 DEF ReturnedIsDurable
  <1> QED
    BY <1>2, FileInvariant, PTL

-----------------------------------------------------------------------------
(* The register the file journal implements. *)

LEMMA RegisterInitially == ASSUME FileInit PROVE Register!RegisterInit
  <1>1. disk.store = "absent" /\ disk.history = <<NoEntries>> /\ acked = {} /\ denied = {}
    BY DEF FileInit
  <1>2. 1 .. Len(<<NoEntries>>) = {1} /\ <<NoEntries>>[1] = NoEntries
    OBVIOUS
  <1>3. {Kept(disk.history[i].final) : i \in 1 .. Len(disk.history)} = {{Absent}}
    BY <1>1, <1>2 DEF Kept, NoEntries
  <1>4. Survivors = {Absent}
    BY <1>1, <1>3 DEF Survivors
  <1> QED
    BY <1>1, <1>4 DEF Register!RegisterInit

\* A step of the register, or none.
RegisterStep == Register!RegisterNext \/ UNCHANGED Register!registerVars

LEMMA SilentIsAStutter ==
    ASSUME Survivors' = Survivors, acked' = acked, denied' = denied
    PROVE  RegisterStep
  BY DEF RegisterStep, Register!registerVars

\* What is seen may come back, and at most one other document.
LEMMA TwoSurvivors ==
    ASSUME FileInv
    PROVE  /\ Seen(Now.final) \in Survivors
           /\ \A c, d \in Survivors \ {Seen(Now.final)} : c = d
  <1>1. Now \in States /\ Seen(Now.final) \in Kept(Now.final)
    BY NowIs DEF FileInv, DirectoryInv, FinalsAreWhole, Whole, Kept, Seen
  <1>2. Seen(Now.final) \in Survivors
    BY <1>1, KeptSurvives
  <1>3. ASSUME NEW c \in Survivors, c # Seen(Now.final)
        PROVE  \/ disk.store # "durable" /\ c = Absent
               \/ \E e \in States : e.final # Now.final
                      /\ c = IF e.final = 0 THEN Absent ELSE disk.file[e.final].seen
    <2>1. CASE disk.store # "durable" /\ c = Absent
      BY <2>1
    <2>2. CASE \E e \in States : c \in Kept(e.final)
      <3>1. PICK e \in States : c \in Kept(e.final)
        BY <2>2
      <3>2. CASE e.final = 0
        BY <1>3, <3>1, <3>2 DEF Kept, Seen
      <3>3. CASE e.final # 0
        <4>1. Whole(e.final)
          BY <3>3 DEF FileInv, DirectoryInv, FinalsAreWhole
        <4>2. c = disk.file[e.final].seen
          BY <3>1, <3>3, <4>1 DEF Kept, Whole
        <4>3. e.final # Now.final
          BY <1>3, <3>3, <4>2 DEF Seen
        <4> QED
          BY <3>3, <4>2, <4>3
      <3> QED
        BY <3>2, <3>3
    <2> QED
      BY <1>3, <2>1, <2>2, KeptSurvives
  <1>4. disk.store # "durable" => \A e \in States : e.final = 0
    BY DEF FileInv, DirectoryInv, FinalsAreWhole
  <1>5. \A d, e \in States : d.final # Now.final /\ e.final # Now.final => d.final = e.final
    BY DEF FileInv, DirectoryInv, TwoFinals
  <1>6. ASSUME NEW c \in Survivors \ {Seen(Now.final)}, NEW d \in Survivors \ {Seen(Now.final)}
        PROVE  c = d
    <2>1. CASE disk.store # "durable"
      <3>1. Seen(Now.final) = Absent /\ \A e \in States : e.final = Now.final
        BY <1>1, <1>4, <2>1 DEF Seen
      <3> QED
        BY <1>3, <1>6, <3>1
    <2>2. CASE disk.store = "durable"
      <3>1. PICK e \in States : e.final # Now.final
                /\ c = IF e.final = 0 THEN Absent ELSE disk.file[e.final].seen
        BY <1>3, <1>6, <2>2
      <3>2. PICK f \in States : f.final # Now.final
                /\ d = IF f.final = 0 THEN Absent ELSE disk.file[f.final].seen
        BY <1>3, <1>6, <2>2
      <3> QED
        BY <1>5, <3>1, <3>2
    <2> QED
      BY <2>1, <2>2
  <1> QED
    BY <1>2, <1>6

\* The outcome of the last save is decided.
LEMMA SettledRegister ==
    ASSUME FileInv, NEW outcome \in Survivors, Survivors' = {outcome},
           acked' = acked, denied' = denied
    PROVE  RegisterStep
  <1>1. CASE Survivors = {outcome}
    BY <1>1, SilentIsAStutter
  <1>2. CASE Survivors # {outcome}
    <2>1. PICK other \in Survivors : other # outcome
      BY <1>2
    <2>2. Survivors = {outcome, other}
      BY <2>1, TwoSurvivors
    <2>3. Register!Settle
      BY <2>1, <2>2 DEF Register!Settle
    <2> QED
      BY <2>3 DEF RegisterStep, Register!RegisterNext
  <1> QED
    BY <1>1, <1>2

KeptNext(i) == IF i = 0 THEN {Absent} ELSE disk'.file[i].kept

LEMMA KeptSurvivesNext ==
    ASSUME NEW d
    PROVE  d \in Survivors' <=> \/ disk'.store # "durable" /\ d = Absent
                                \/ \E e \in States' : d \in KeptNext(e.final)
  <1>1. {KeptNext(e.final) : e \in States'}
            = {KeptNext(disk'.history[i].final) : i \in 1 .. Len(disk'.history)}
    BY DEF States
  <1>2. Survivors' = (IF disk'.store = "durable" THEN {} ELSE {Absent})
            \cup UNION {KeptNext(disk'.history[i].final) : i \in 1 .. Len(disk'.history)}
    BY DEF Survivors, Kept, KeptNext
  <1> QED
    BY <1>1, <1>2

\* The same final names with the same files leave the same documents.
LEMMA SurvivorsStay ==
    ASSUME \A e \in States' : \E d \in States : d.final = e.final,
           \A e \in States : \E d \in States' : d.final = e.final,
           \A e \in States : e.final # 0 => disk'.file[e.final] = disk.file[e.final],
           disk.store = "durable" <=> disk'.store = "durable"
    PROVE  Survivors' = Survivors
  <1>1. Survivors' \subseteq Survivors
    BY SurvivorsShrink
  <1>2. ASSUME NEW d \in Survivors PROVE d \in Survivors'
    <2>1. CASE disk.store # "durable" /\ d = Absent
      BY <2>1, KeptSurvivesNext
    <2>2. CASE \E e \in States : d \in Kept(e.final)
      <3>1. PICK e \in States : d \in Kept(e.final)
        BY <2>2
      <3>2. PICK c \in States' : c.final = e.final
        OBVIOUS
      <3>3. d \in KeptNext(c.final)
        BY <3>1, <3>2 DEF Kept, KeptNext
      <3> QED
        BY <3>2, <3>3, KeptSurvivesNext
    <2> QED
      BY <2>1, <2>2, KeptSurvives
  <1> QED
    BY <1>1, <1>2

\* Nothing under the final name while the directories above may be lost.
LEMMA OneSurvivorNext ==
    ASSUME FileInv, FileInv', NEW e \in Entries, States' = {e},
           e.final # 0 => disk'.file[e.final].seen = disk.file[e.final].seen
    PROVE  Survivors' = {Seen(e.final)}
  <1>1. e.final # 0 => disk'.store = "durable"
                       /\ disk'.file[e.final].kept = {disk'.file[e.final].seen}
    BY DEF FileInv, DirectoryInv, FinalsAreWhole, Whole
  <1>2. KeptNext(e.final) = {Seen(e.final)}
    BY <1>1 DEF KeptNext, Seen
  <1>3. ASSUME NEW d \in Survivors' PROVE d = Seen(e.final)
    BY <1>1, <1>2, KeptSurvivesNext DEF Seen
  <1>4. Seen(e.final) \in Survivors'
    BY <1>2, KeptSurvivesNext
  <1> QED
    BY <1>3, <1>4

LEMMA SyncRegister ==
    ASSUME FileInv, FileInv', disk' = DirectorySynced(disk), acked' = acked, denied' = denied
    PROVE  RegisterStep
  <1>1. States' = {Now} /\ \A i \in Named(Now) \cap Inodes : disk'.file[i] = disk.file[i]
    BY SyncedDirectory DEF FileInv
  <1>2. Now \in Entries
    BY NowIs DEF FileInv
  <1>3. Now.final # 0 => disk'.file[Now.final] = disk.file[Now.final]
    BY <1>1, <1>2, FileAssumption DEF Entries, Named, Inodes
  <1>4. Survivors' = {Seen(Now.final)}
    BY <1>1, <1>2, <1>3, OneSurvivorNext
  <1> QED
    BY <1>4, TwoSurvivors, SettledRegister

LEMMA PowerCutRegister ==
    ASSUME FileInv, FileInv', PowerCut
    PROVE  RegisterStep
  <1>1. PICK e \in Entries :
             /\ e = NoEntries \/ e \in States
             /\ disk'.history = <<e>>
             /\ disk.store = "durable" => e \in States
             /\ e.final # 0 =>
                    /\ e \in States
                    /\ disk'.file[e.final].seen = disk.file[e.final].seen
    BY CutDisk
  <1>2. States' = {e}
    BY <1>1, OneState
  <1>3. Survivors' = {Seen(e.final)}
    BY <1>1, <1>2, OneSurvivorNext
  <1>4. Seen(e.final) \in Survivors
    <2>1. CASE e \in States
      <3>1. Seen(e.final) \in Kept(e.final)
        BY <2>1 DEF FileInv, DirectoryInv, FinalsAreWhole, Whole, Kept, Seen
      <3> QED
        BY <2>1, <3>1, KeptSurvives
    <2>2. CASE e \notin States
      <3>1. Seen(e.final) = Absent /\ disk.store # "durable"
        BY <1>1, <2>2 DEF Seen
      <3> QED
        BY <3>1, KeptSurvives
    <2> QED
      BY <2>1, <2>2
  <1>5. acked' = acked /\ denied' = denied
    BY DEF PowerCut, Ghosts
  <1> QED
    BY <1>3, <1>4, <1>5, SettledRegister

LEMMA UnchangedRegister ==
    ASSUME disk' = disk, acked' = acked, denied' = denied
    PROVE  RegisterStep
  <1>1. Survivors' = Survivors
    BY DEF Survivors, Kept
  <1> QED
    BY <1>1, SilentIsAStutter

\* The same names, and the same files under the final one.
LEMMA FilesStayRegister ==
    ASSUME States' = States, disk.store = "durable" <=> disk'.store = "durable",
           \A e \in States : e.final # 0 => disk'.file[e.final] = disk.file[e.final],
           acked' = acked, denied' = denied
    PROVE  RegisterStep
  <1>1. Survivors' = Survivors
    BY SurvivorsStay
  <1> QED
    BY <1>1, SilentIsAStutter

\* Another name comes or goes, not the final one.
LEMMA RelinkedRegister ==
    ASSUME FileInv, NEW e \in Entries, e.final = Now.final, States' = States \cup {e},
           disk'.store = disk.store,
           \A d \in States : d.final # 0 => disk'.file[d.final] = disk.file[d.final],
           acked' = acked, denied' = denied
    PROVE  RegisterStep
  <1>1. Now \in States
    BY NowIs DEF FileInv
  <1>2. Survivors' = Survivors
    BY <1>1, SurvivorsStay
  <1> QED
    BY <1>2, SilentIsAStutter

LEMMA NewFileRegister ==
    ASSUME FileInv, Free # {}, NEW e \in Entries, e.final = Now.final,
           disk' = [Linked(disk, e) EXCEPT !.file[FreshInode] = NewFile],
           acked' = acked, denied' = denied
    PROVE  RegisterStep
  <1>1. PICK i : i = FreshInode
    OBVIOUS
  <1>2. i \in Inodes /\ \A d \in States : i \notin Named(d)
    BY <1>1, FreshInodeIsNew DEF FileInv
  <1>3. /\ disk'.store = disk.store /\ States' = States \cup {e}
        /\ \A j \in Inodes \ {i} : disk'.file[j] = disk.file[j]
    <2>1. disk' = [Linked(disk, e) EXCEPT !.file[i] = NewFile]
      BY <1>1
    <2> QED
      BY <1>2, <2>1, LinkedNewFile DEF FileInv
  <1>4. States \subseteq Entries
    BY NowIs DEF FileInv
  <1>5. ASSUME NEW d \in States, d.final # 0 PROVE disk'.file[d.final] = disk.file[d.final]
    <2>1. d \in Entries /\ i \notin {d.final, d.temp, d.lock}
      BY <1>2, <1>4, <1>5 DEF Named
    <2>2. d.final \in Inodes \ {i}
      BY <1>5, <2>1, FileAssumption DEF Entries, Inodes
    <2> QED
      BY <1>3, <2>2
  <1> QED
    BY <1>3, <1>5, RelinkedRegister

\* Writing the lock file leaves the documents alone.
LEMMA LockFileRegister ==
    ASSUME FileInv, NEW p \in Stores,
           st[p].pc \in {"protocol", "protocol_rest", "lock_fsync"},
           \/ \E bytes \in {Torn, Protocol} : disk' = Written(disk, Now.lock, bytes)
           \/ disk' = FileSynced(disk, Now.lock),
           acked' = acked, denied' = denied
    PROVE  RegisterStep
  <1>1. (\A q \in Stores : st[q].pc \notin SaveSteps) /\ Now.lock \in Inodes
    BY NobodySaves DEF Unlocked, SaveSteps, BeforeReplace, AfterReplace
  <1>2. disk \in DiskType /\ {Torn, Protocol} \subseteq Contents
    BY DEF FileInv, TypesInv, Contents
  <1>3. /\ disk'.store = disk.store /\ disk'.history = disk.history
        /\ \A j \in Inodes \ {Now.lock} : disk'.file[j] = disk.file[j]
    BY <1>1, <1>2, WrittenFile, SyncedFile
  <1>4. DiskStays
    BY <1>1, <1>3, LockFileStays
  <1>5. States' = States
    BY <1>3, SameHistory
  <1> QED
    BY <1>3, <1>4, <1>5, FilesStayRegister DEF DiskStays

\* Writing the temporary file leaves the documents alone.
LEMMA TempFileRegister ==
    ASSUME FileInv, NEW p \in Stores, st[p].pc \in {"write", "write_rest", "temp_fsync"},
           \/ \E bytes \in {Torn, st[p].doc} : disk' = Written(disk, st[p].temp, bytes)
           \/ disk' = FileSynced(disk, st[p].temp),
           acked' = acked, denied' = denied
    PROVE  RegisterStep
  <1>1. /\ disk \in DiskType /\ {Torn, st[p].doc} \subseteq Contents
        /\ st[p].temp \in Inodes /\ \A e \in States : e.final # st[p].temp
    BY FileAssumption
       DEF FileInv, TypesInv, Contents, StoreType, Inodes, StoreInv, SavingInv, SaveSteps,
           BeforeReplace
  <1>2. /\ disk'.store = disk.store /\ disk'.history = disk.history
        /\ \A j \in Inodes \ {st[p].temp} : disk'.file[j] = disk.file[j]
    BY <1>1, WrittenFile, SyncedFile
  <1>3. States' = States /\ States \subseteq Entries
    BY <1>2, SameHistory, NowIs DEF FileInv
  <1>4. ASSUME NEW e \in States, e.final # 0 PROVE disk'.file[e.final] = disk.file[e.final]
    <2>1. e.final \in Inodes \ {st[p].temp}
      BY <1>1, <1>3, <1>4, FileAssumption DEF Entries, Inodes
    <2> QED
      BY <1>2, <2>1
  <1> QED
    BY <1>2, <1>3, <1>4, FilesStayRegister

\* The journal's directory becomes visible, or durable before it holds a document.
LEMMA StoreDirectoryRegister ==
    ASSUME FileInv, NEW p \in Stores, OpenDirectory(p) \/ FsyncConfigAnchor(p)
    PROVE  RegisterStep
  <1>1. acked' = acked /\ denied' = denied
    BY DEF OpenDirectory, FsyncConfigAnchor, Ghosts
  <1>2. PICK s \in {"absent", "visible", "durable"} :
             /\ disk' = [disk EXCEPT !.store = s]
             /\ disk.store = "durable" => s = "durable"
             /\ disk.store # "durable" => s = "durable" \/ s = "visible"
    <2>1. disk.store \in {"absent", "visible", "durable"}
      BY DEF FileInv, TypesInv, DiskType
    <2> QED
      BY <2>1 DEF OpenDirectory, FsyncConfigAnchor
  <1>3. /\ disk'.store = s /\ disk'.history = disk.history /\ disk'.file = disk.file
    BY <1>2 DEF FileInv, TypesInv, DiskType
  <1>4. States' = States /\ Now \in States
    BY <1>3, SameHistory, NowIs DEF FileInv
  <1>5. CASE disk.store = "durable" \/ s # "durable"
    BY <1>1, <1>2, <1>3, <1>4, <1>5, FilesStayRegister
  <1>6. CASE disk.store # "durable" /\ s = "durable"
    <2>1. \A e \in States : e.final = 0
      BY <1>6 DEF FileInv, DirectoryInv, FinalsAreWhole
    <2>2. Survivors = {Absent}
      BY <1>6, <2>1, KeptSurvives DEF Kept
    <2>3. Survivors' = {Absent}
      BY <1>3, <1>4, <1>6, <2>1, KeptSurvivesNext DEF KeptNext
    <2> QED
      BY <1>1, <2>2, <2>3, SilentIsAStutter
  <1> QED
    BY <1>5, <1>6

\* The rename: the next generation joins the settled document.
LEMMA ReplaceRegister ==
    ASSUME FileInv, FileInv', NEW p \in Stores, Replace(p)
    PROVE  RegisterStep
  <1>1. st[p].pc = "replace" /\ acked' = acked /\ denied' = denied
    BY DEF Replace, Ghosts
  <1>2. /\ disk'.store = disk.store /\ disk'.file = disk.file
        /\ disk.file[st[p].temp].kept = {st[p].doc}
    BY ReplacedDirectory
  <1>3. PICK e : e.final = st[p].temp /\ States' = States \cup {e}
    BY ReplacedDirectory
  <1>4. /\ Settled /\ disk.store = "durable" /\ st[p].snap = ReadNamedFinal
        /\ st[p].doc.gen = st[p].snap.doc.gen + 1 /\ st[p].doc \notin denied
        /\ st[p].doc \notin Survivors /\ st[p].temp # 0
    BY <1>1
       DEF FileInv, StoreInv, OpeningInv, SettledInv, SnapshotInv, SavingInv, SaveSteps,
           BeforeReplace
  <1>5. PICK old : old = Seen(Now.final)
    OBVIOUS
  <1>6. PICK new : new = st[p].doc
    OBVIOUS
  <1>7. Survivors = {old}
    BY <1>4, <1>5, OnlyOneSurvivor DEF FileInv
  <1>8. ASSUME NEW d \in Survivors' PROVE d = old \/ d = new
    <2>1. PICK c \in States' : d \in KeptNext(c.final)
      BY <1>2, <1>4, <1>8, KeptSurvivesNext
    <2>2. CASE c \in States
      <3>1. d \in Kept(c.final)
        BY <1>2, <2>1 DEF Kept, KeptNext
      <3>2. d \in Survivors
        BY <2>2, <3>1, KeptSurvives
      <3> QED
        BY <1>7, <3>2
    <2>3. CASE c = e
      BY <1>2, <1>3, <1>4, <1>6, <2>1, <2>3 DEF KeptNext
    <2> QED
      BY <1>3, <2>2, <2>3
  <1>9. old \in Survivors'
    <2>1. PICK c \in States : old \in Kept(c.final)
      BY <1>4, <1>7, KeptSurvives
    <2>2. c \in States' /\ old \in KeptNext(c.final)
      BY <1>2, <1>3, <2>1 DEF Kept, KeptNext
    <2> QED
      BY <2>2, KeptSurvivesNext
  <1>10. new \in Survivors'
    <2>1. e \in States' /\ new \in KeptNext(e.final)
      BY <1>2, <1>3, <1>4, <1>6 DEF KeptNext
    <2> QED
      BY <2>1, KeptSurvivesNext
  <1>11. Survivors' = {old, new} /\ new \notin Survivors
    BY <1>4, <1>6, <1>8, <1>9, <1>10
  <1>12. new.gen = old.gen + 1
    BY <1>4, <1>5, <1>6 DEF ReadNamedFinal
  <1>13. Register!Write
    BY <1>1, <1>4, <1>6, <1>7, <1>11, <1>12 DEF Register!Write
  <1> QED
    BY <1>13 DEF RegisterStep, Register!RegisterNext

\* The save returns when its document is the only one a power cut can leave.
LEMMA CommitSaveRegister ==
    ASSUME FileInv, NEW p \in Stores, CommitSave(p)
    PROVE  RegisterStep
  <1>1. /\ st[p].pc = "reopen" /\ disk' = disk /\ denied' = denied
        /\ acked' = acked \cup {st[p].doc}
    BY DEF CommitSave
  <1>2. /\ Settled /\ disk.store = "durable" /\ Now.final = st[p].temp /\ st[p].temp # 0
        /\ disk.file[st[p].temp].seen = st[p].doc
    BY <1>1
       DEF FileInv, StoreInv, OpeningInv, SettledInv, SavingInv, SaveSteps, AfterReplace
  <1>3. Survivors = {st[p].doc}
    BY <1>2, OnlyOneSurvivor DEF FileInv, Seen
  <1>4. Survivors' = Survivors
    BY <1>1 DEF Survivors, Kept
  <1>5. Register!Acknowledge
    BY <1>1, <1>3, <1>4 DEF Register!Acknowledge
  <1> QED
    BY <1>5 DEF RegisterStep, Register!RegisterNext

\* A save is denied while its document is nowhere.
LEMMA DenyRegister ==
    ASSUME NEW doc, doc \notin Survivors, doc \notin acked, doc \notin denied,
           denied' = denied \cup {doc}, disk' = disk, acked' = acked
    PROVE  RegisterStep
  <1>1. Survivors' = Survivors
    BY DEF Survivors, Kept
  <1>2. Register!Deny
    BY <1>1 DEF Register!Deny
  <1> QED
    BY <1>2 DEF RegisterStep, Register!RegisterNext

LEMMA BeginSaveRegister ==
    ASSUME FileInv, NEW p \in Stores,
           NEW gen \in {st[p].snap.doc.gen, st[p].snap.doc.gen + 1} \cap Nat, BeginSave(p, gen)
    PROVE  RegisterStep
  <1>1. PICK doc : doc = [gen |-> gen, id |-> nextDoc]
    OBVIOUS
  <1>2. /\ NextIs(p, "save") /\ ~SaveRefused(p) /\ acked' = acked
        /\ \/ denied' = denied \cup {doc} /\ disk' = disk
           \/ /\ Free # {} /\ denied' = denied
              /\ disk' = [Linked(disk, [Now EXCEPT !.temp = FreshInode])
                            EXCEPT !.file[FreshInode] = NewFile]
    BY <1>1 DEF BeginSave
  <1>3. CASE denied' = denied \cup {doc} /\ disk' = disk
    <2>1. nextDoc <= MaxDocs
      BY <1>2, SaveHasADocument
    <2>2. doc \in Docs /\ doc.id = nextDoc
      BY <1>1, <1>2, <2>1, NextDocument
    <2>3. doc \notin Survivors /\ doc \notin acked /\ doc \notin denied
      BY <2>2, NewDocument
    <2> QED
      BY <1>2, <1>3, <2>3, DenyRegister
  <1>4. CASE /\ Free # {} /\ denied' = denied
             /\ disk' = [Linked(disk, [Now EXCEPT !.temp = FreshInode])
                           EXCEPT !.file[FreshInode] = NewFile]
    <2>1. PICK e : e = [Now EXCEPT !.temp = FreshInode]
      OBVIOUS
    <2>2. Now \in Entries /\ FreshInode \in 0 .. MaxInode
      BY <1>4, NowIs, FreshInodeIsNew DEF FileInv
    <2>3. e \in Entries /\ e.final = Now.final
      BY <2>1, <2>2 DEF Entries
    <2> QED
      BY <1>2, <1>4, <2>1, <2>3, NewFileRegister
  <1> QED
    BY <1>2, <1>3, <1>4

LEMMA SaveFailsRegister ==
    ASSUME FileInv, NEW p \in Stores, SaveFails(p)
    PROVE  RegisterStep
  <1>1. /\ st[p].pc \in SaveSteps /\ disk' = disk /\ acked' = acked
        /\ \/ denied' = denied
           \/ ~Ambiguous(p) /\ denied' = denied \cup {st[p].doc}
    BY DEF SaveFails
  <1>2. CASE denied' = denied
    BY <1>1, <1>2, UnchangedRegister
  <1>3. CASE ~Ambiguous(p) /\ denied' = denied \cup {st[p].doc}
    <2>1. st[p].pc \in BeforeReplace
      BY <1>1, <1>3 DEF Ambiguous, SaveSteps
    <2>2. st[p].doc \notin Survivors /\ st[p].doc \notin acked /\ st[p].doc \notin denied
      BY <2>1 DEF FileInv, StoreInv, SavingInv, SaveSteps
    <2> QED
      BY <1>1, <1>3, <2>2, DenyRegister
  <1> QED
    BY <1>1, <1>2, <1>3

LEMMA OpenRegister ==
    ASSUME FileInv, FileInv', NEW p \in Stores, OpenStep(p)
    PROVE  RegisterStep
  <1>1. CASE SyncStoreDirectory(p) \/ FsyncLockDirectory(p) \/ FsyncStaleRemoval(p)
    BY <1>1, SyncRegister
       DEF SyncStoreDirectory, FsyncLockDirectory, FsyncStaleRemoval, LockPublished, Ghosts
  <1>2. CASE FsyncConfigAnchor(p)
    BY <1>2, StoreDirectoryRegister
  <1>3. CASE CreateOrOpenLock(p)
    <2>1. acked' = acked /\ denied' = denied
      BY <1>3 DEF CreateOrOpenLock, Ghosts
    <2>2. CASE disk' = disk
      BY <2>1, <2>2, UnchangedRegister
    <2>3. CASE /\ Free # {}
               /\ disk' = [Linked(disk, [Now EXCEPT !.lock = FreshInode])
                             EXCEPT !.file[FreshInode] = NewFile]
      <3>1. PICK e : e = [Now EXCEPT !.lock = FreshInode]
        OBVIOUS
      <3>2. Now \in Entries /\ FreshInode \in 0 .. MaxInode
        BY <2>3, NowIs, FreshInodeIsNew DEF FileInv
      <3>3. e \in Entries /\ e.final = Now.final
        BY <3>1, <3>2 DEF Entries
      <3> QED
        BY <2>1, <2>3, <3>1, <3>3, NewFileRegister
    <2> QED
      BY <1>3, <2>2, <2>3 DEF CreateOrOpenLock
  <1>4. CASE AcquireLock(p) \/ Adopt(p)
    BY <1>4, UnchangedRegister DEF AcquireLock, Adopt, Ghosts
  <1>5. CASE WriteLockProtocol(p) \/ WriteLockProtocolRest(p) \/ FsyncLock(p)
    <2>1. /\ st[p].pc \in {"protocol", "protocol_rest", "lock_fsync"}
          /\ acked' = acked /\ denied' = denied
          /\ \/ disk' = disk
             \/ \E bytes \in {Torn, Protocol} : disk' = Written(disk, Now.lock, bytes)
             \/ disk' = FileSynced(disk, Now.lock)
      BY <1>5 DEF WriteLockProtocol, WriteLockProtocolRest, FsyncLock, Ghosts
    <2> QED
      BY <2>1, UnchangedRegister, LockFileRegister
  <1>6. CASE LeaveNoStaleTemp(p)
    <2>1. acked' = acked /\ denied' = denied
      BY <1>6 DEF LeaveNoStaleTemp, Ghosts
    <2>2. CASE disk' = disk
      BY <2>1, <2>2, UnchangedRegister
    <2>3. CASE disk' = Linked(disk, [Now EXCEPT !.temp = 0])
      <3>1. PICK e : e = [Now EXCEPT !.temp = 0]
        OBVIOUS
      <3>2. Now \in Entries /\ 0 \in 0 .. MaxInode
        BY NowIs, FileAssumption DEF FileInv
      <3>3. e \in Entries /\ e.final = Now.final
        BY <3>1, <3>2 DEF Entries
      <3>4. /\ disk'.store = disk.store /\ disk'.file = disk.file
            /\ States' = States \cup {e}
        BY <2>3, <3>1, <3>3, LinkedDisk DEF FileInv
      <3> QED
        BY <2>1, <3>3, <3>4, RelinkedRegister
    <2> QED
      BY <1>6, <2>2, <2>3 DEF LeaveNoStaleTemp, RemoveStaleTemp
  <1> QED
    BY <1>1, <1>2, <1>3, <1>4, <1>5, <1>6 DEF OpenStep

LEMMA SaveRegister ==
    ASSUME FileInv, FileInv', NEW p \in Stores, SaveStep(p)
    PROVE  RegisterStep
  <1>1. CASE WriteTemp(p) \/ WriteTempRest(p) \/ FsyncTemp(p)
    <2>1. /\ st[p].pc \in {"write", "write_rest", "temp_fsync"}
          /\ acked' = acked /\ denied' = denied
          /\ \/ \E bytes \in {Torn, st[p].doc} : disk' = Written(disk, st[p].temp, bytes)
             \/ disk' = FileSynced(disk, st[p].temp)
      BY <1>1 DEF WriteTemp, WriteTempRest, FsyncTemp, TempSynced, Ghosts
    <2> QED
      BY <2>1, TempFileRegister
  <1>2. CASE Replace(p)
    BY <1>2, ReplaceRegister
  <1>3. CASE VerifyReplaced(p)
    BY <1>3, UnchangedRegister DEF VerifyReplaced, Ghosts
  <1>4. CASE FsyncCommit(p)
    BY <1>4, SyncRegister DEF FsyncCommit, Ghosts
  <1>5. CASE CommitSave(p)
    BY <1>5, CommitSaveRegister
  <1> QED
    BY <1>1, <1>2, <1>3, <1>4, <1>5 DEF SaveStep

LEMMA RegisterSteps == ASSUME FileInv, FileInv', FileNext PROVE RegisterStep
  <1>1. ASSUME NEW p \in Stores, OpenDirectory(p) \/ OpenStep(p) \/ CloseOpenedResources(p)
        PROVE  RegisterStep
    <2>1. CASE CloseOpenedResources(p)
      BY <2>1, UnchangedRegister DEF CloseOpenedResources, Ghosts
    <2> QED
      BY <1>1, <2>1, StoreDirectoryRegister, OpenRegister
  <1>2. ASSUME NEW p \in Stores,
               \/ \E op \in {"load", "save", "barrier"} : Submit(p, op)
               \/ RequestClose(p) \/ Fork(p)
        PROVE  RegisterStep
    BY <1>2, UnchangedRegister DEF Submit, RequestClose, Fork, Ghosts
  <1>3. ASSUME NEW p \in Stores, Work(p) PROVE RegisterStep
    <2>1. CASE SaveStep(p)
      BY <2>1, SaveRegister
    <2>2. CASE \E gen \in {st[p].snap.doc.gen, st[p].snap.doc.gen + 1} \cap Nat : BeginSave(p, gen)
      BY <2>2, BeginSaveRegister
    <2>3. CASE Load(p) \/ RefuseSave(p) \/ RefuseBarrier(p) \/ BeginBarrier(p) \/ Close(p)
      BY <2>3, UnchangedRegister
         DEF Load, RefuseSave, RefuseBarrier, BeginBarrier, Close, Ghosts
    <2>4. CASE FinishBarrier(p)
      BY <2>4, SyncRegister DEF FinishBarrier, Ghosts
    <2> QED
      BY <1>3, <2>1, <2>2, <2>3, <2>4 DEF Work
  <1>4. ASSUME NEW p \in Stores, Trouble(p) PROVE RegisterStep
    <2>1. CASE OpenFails(p) \/ LoadFails(p) \/ BarrierFails(p) \/ Crash(p)
      BY <2>1, UnchangedRegister DEF OpenFails, LoadFails, BarrierFails, Crash, Ghosts
    <2> QED
      BY <1>4, <2>1, SaveFailsRegister DEF Trouble
  <1>5. CASE PowerCut
    BY <1>5, PowerCutRegister
  <1> QED
    BY <1>1, <1>2, <1>3, <1>4, <1>5 DEF FileNext

\* The file store keeps the promises of a durable register, whatever fails and however often the
\* power goes: one successor joins a settled document, a save is acknowledged only when no power
\* cut can undo it, and one that is reported as failed is not, and never becomes, an outcome.
THEOREM RegisterImplemented == FileSpec => ImplementsRegister
  <1>1. FileInit => Register!RegisterInit
    BY RegisterInitially
  <1>2. FileInv /\ FileInv' /\ [FileNext]_fileVars => [Register!RegisterNext]_(Register!registerVars)
    <2>1. ASSUME FileInv, FileInv', FileNext PROVE RegisterStep
      BY <2>1, RegisterSteps
    <2>2. ASSUME UNCHANGED fileVars PROVE RegisterStep
      BY <2>2, UnchangedRegister DEF fileVars
    <2> QED
      BY <2>1, <2>2 DEF RegisterStep
  <1> QED
    BY <1>1, <1>2, FileInvariant, PTL DEF FileSpec, ImplementsRegister, Register!RegisterSpec

=============================================================================
