----------------------- MODULE ReferenceMigrationProofs -----------------------
(***************************************************************************)
(* Proofs about the migration coordinator: what it wrote is recoverable,   *)
(* unfinished work blocks, no foreign edit is lost and what is complete    *)
(* stays applied, for any number of documents, plans, foreign edits,       *)
(* changes of the room, raising calls and crashes.                         *)
(***************************************************************************)
EXTENDS ReferenceMigration, WellFoundedInduction, TLAPS

-----------------------------------------------------------------------------
(* Types. *)

\* The functions from some elements of S to T: what the code keeps in dictionaries.
Partial(S, T) == UNION {[D -> T] : D \in SUBSET S}

PlanDoc == [rev : Nat, edit : Nat, ref : {"old", "new"}]
PlanSet == [subject : Nat, expected : BOOLEAN, docs : Partial(Documents, PlanDoc)]
Doc == [here : BOOLEAN, edit : 0 .. MaxForeign, ref : {"old", "new"}, rev : Nat,
        writable : BOOLEAN]
Found == Partial(Documents, Doc)

JournalType == [states : Partial(PlanSet, States), originals : Partial(PlanSet, Found),
                completions : Partial(PlanSet, Found)]
MemType == [states : Partial(PlanSet, States), completed : Partial(PlanSet, Found),
            blocked : BOOLEAN]

Reading == {"preflight", "stale", "replay"}
Restoration == {"restore", "restore_write", "restore_check", "inventory", "settle"}
Writing == {"record", "write", "readback", "raised", "verify", "completing", "mark"}
              \cup Restoration

OpType == [kind : {"apply", "recover"}, plan : PlanSet, stage : Reading \cup Writing,
           todo : SUBSET Documents, seen : Found, originals : Found,
           attempted : SUBSET Documents, failed : BOOLEAN, rev : Nat]

TypesInv ==
    /\ docs \in [Documents -> Doc] /\ wrote \in [Documents -> PlanSet \cup {NoPlan}]
    /\ edits \in 0 .. MaxForeign /\ subject \in 0 .. MaxSubjects
    /\ journal \in JournalType /\ jopen \in BOOLEAN /\ mem \in MemType
    /\ op \in OpType \cup {Idle}
    /\ faults \in 0 .. MaxFaults /\ crashes \in 0 .. MaxCrashes

-----------------------------------------------------------------------------
(* The inductive invariant. *)

\* What the journal holds belongs to a plan it knows, and was true when it was planned.
JournalHolds ==
    /\ DOMAIN journal.originals \cup DOMAIN journal.completions \subseteq DOMAIN journal.states
    /\ \A p \in DOMAIN journal.states :
           journal.states[p] = "complete" => p \in DOMAIN journal.completions
    /\ \A p \in DOMAIN journal.originals : \A d \in DOMAIN journal.originals[p] :
           /\ d \in ChangesOf(p)
           /\ Content(journal.originals[p][d]) = Content(p.docs[d])

\* An edit of d that is younger than what any completed plan found there.
Younger(edit, d) ==
    \A q \in Completed(journal) : d \in DOMAIN q.docs => q.docs[d].edit < edit

\* What may be undone is younger than what is complete.
UnfinishedIsYounger ==
    \A p \in Incomplete(journal) : \A d \in ChangesOf(p) : Younger(p.docs[d].edit, d)

Wrote(d, p) == wrote[d] # NoPlan /\ wrote[d] = p

\* A document that holds a plan's write holds its postimage.
WritesStand ==
    \A d \in Documents :
        /\ docs[d].edit <= edits
        /\ wrote[d] # NoPlan =>
               /\ docs[d].here /\ d \in ChangesOf(wrote[d])
               /\ Content(docs[d]) = PostContent(wrote[d].docs[d])

\* The documents and the journal.
WorldInv == JournalHolds /\ UnfinishedIsYounger /\ WritesStand /\ WritesAreRecoverable
               /\ CompletedStaysApplied

\* Plans are made of what was there.
MadeOfThePast(p) == \A d \in DOMAIN p.docs : p.docs[d].edit <= edits
PlansArePast == \A p \in DOMAIN journal.states \cup DOMAIN mem.states : MadeOfThePast(p)

\* What is complete in a working journal is known to be.
CompletedIsKnown ==
    /\ DOMAIN mem.completed \subseteq DOMAIN mem.states
    /\ jopen => \A p \in Completed(journal) :
                    p \in DOMAIN mem.states /\ mem.states[p] \in {"complete", "blocked"}

\* Unfinished work blocks, unless it is that of the operation o.
UnfinishedBlocks(o) ==
    \/ ~jopen
    \/ Incomplete(journal) = {}
    \/ mem.blocked
    \/ o.kind = "apply" /\ o.stage \in Writing /\ Incomplete(journal) \subseteq {o.plan}

\* What was read was there, and was the document if the revision is still the same.
Past(x, d) ==
    /\ x.edit <= edits /\ x.rev <= docs[d].rev
    /\ x.rev = docs[d].rev => docs[d].here /\ Content(docs[d]) = Content(x)

\* What was read of a document, unless somebody else changed it since.
Stands(x, d) ==
    ~docs[d].here \/ docs[d].edit > x.edit \/ Content(docs[d]) = Content(x)

\* An application knows its plan, which nobody completed, and works with an open journal
\* in which the plan is being applied.
ApplyInv(o) ==
    o.kind = "apply" =>
        /\ o.plan \in DOMAIN mem.states /\ ~mem.blocked
        /\ jopen /\ o.stage # "replay" => o.plan \notin Completed(journal)
        /\ o.stage \in Writing \ {"settle"} => jopen
        /\ o.stage \in Writing /\ jopen =>
               o.plan \in DOMAIN journal.states /\ journal.states[o.plan] = "applying"
        /\ \A d \in DOMAIN o.seen : Past(o.seen[d], d)
        /\ \A d \in DOMAIN o.originals : Past(o.originals[d], d)
        /\ o.attempted \subseteq ChangesOf(o.plan)
        /\ o.stage \in Writing => DOMAIN o.originals = DOMAIN o.plan.docs

\* A recovery restores what the journal holds of an unfinished plan.
RecoverInv(o) ==
    o.kind = "recover" =>
        /\ jopen /\ mem.blocked /\ o.plan \in Incomplete(journal)
        /\ o.stage \in Restoration
        /\ DOMAIN o.originals \subseteq ChangesOf(o.plan)
        /\ \A d \in Documents : Wrote(d, o.plan) => d \in DOMAIN o.originals

\* The originals are what was planned.
OriginalsInv(o) ==
    o.stage \in Writing =>
        \A d \in DOMAIN o.originals : Content(o.originals[d]) = Content(o.plan.docs[d])

\* What is still to do is a change of the plan that can be undone.
TodoInv(o) ==
    /\ o.stage \in {"record", "write", "readback", "raised",
                    "restore", "restore_write", "restore_check"} =>
           o.todo \subseteq ChangesOf(o.plan) \cap DOMAIN o.originals
    /\ o.stage \in {"write", "readback", "raised", "restore_write", "restore_check"} =>
           o.todo # {}

JournaledDocs(p) == IF p \in DOMAIN journal.originals THEN DOMAIN journal.originals[p] ELSE {}

\* Per stage: what was read before it is relied upon, and what is journaled before it is
\* overwritten.
StageInv(o) ==
    /\ o.stage = "preflight" =>
           \A d \in DOMAIN o.seen : o.seen[d].ref = "old" => Younger(o.seen[d].edit, d)
    /\ o.stage = "record" =>
           /\ ChangesOf(o.plan) \ o.todo \subseteq JournaledDocs(o.plan)
           /\ \A d \in Documents : ~Wrote(d, o.plan)
    /\ o.stage \in {"write", "readback", "raised"} =>
           ChangesOf(o.plan) \subseteq JournaledDocs(o.plan)
    /\ o.stage \in {"verify", "completing", "mark"} =>
           \A d \in DOMAIN o.seen : Stands(o.seen[d], d)
    /\ o.stage \in {"completing", "mark"} => PostApplyHolds(o.plan, o.seen)
    /\ o.stage = "mark" => o.plan \in DOMAIN journal.completions
    /\ o.stage = "restore_write" =>
           LET d == Max(o.todo)
           IN  /\ o.rev <= docs[d].rev
               /\ o.rev = docs[d].rev =>
                     docs[d].here /\ Content(docs[d]) = PostContent(o.originals[d])
    /\ o.stage = "inventory" => \A d \in Documents : Wrote(d, o.plan) =>
           \/ d \in o.todo
           \/ d \in DOMAIN o.seen /\ Content(o.seen[d]) = PostContent(o.plan.docs[d])
    /\ o.stage = "settle" /\ ~o.failed => \A d \in Documents : ~Wrote(d, o.plan)

\* An operation, what it works on and how far it is.
OpInv(o) ==
    o.kind # "idle" =>
        ApplyInv(o) /\ RecoverInv(o) /\ OriginalsInv(o) /\ TodoInv(o) /\ StageInv(o)

MigrationInv ==
    /\ TypesInv /\ WorldInv /\ PlansArePast /\ CompletedIsKnown
    /\ UnfinishedBlocks(op) /\ OpInv(op)

-----------------------------------------------------------------------------
(* The operators: dictionaries, and the first and the last document. *)

LEMMA PartialIs ==
    ASSUME NEW S, NEW T, NEW f \in Partial(S, T)
    PROVE  DOMAIN f \subseteq S /\ f \in [DOMAIN f -> T] /\ \A x \in DOMAIN f : f[x] \in T
  BY DEF Partial

LEMMA IsPartial ==
    ASSUME NEW S, NEW T, NEW D, D \subseteq S, NEW f \in [D -> T]
    PROVE  f \in Partial(S, T)
  BY DEF Partial

LEMMA NothingIsPartial ==
    ASSUME NEW S, NEW T
    PROVE  <<>> \in Partial(S, T) /\ DOMAIN <<>> = {}
  <1>1. DOMAIN <<>> = {}
    OBVIOUS
  <1>2. <<>> \in [{} -> T]
    OBVIOUS
  <1>3. QED
    BY <1>1, <1>2, IsPartial

LEMMA PutIs ==
    ASSUME NEW S, NEW T, NEW f \in Partial(S, T), NEW k \in S, NEW v \in T
    PROVE  /\ Put(f, k, v) \in Partial(S, T)
           /\ DOMAIN Put(f, k, v) = DOMAIN f \cup {k}
           /\ Put(f, k, v)[k] = v
           /\ \A x \in DOMAIN f : x # k => Put(f, k, v)[x] = f[x]
  <1>1. DOMAIN f \cup {k} \subseteq S
    BY PartialIs
  <1>2. \A x \in DOMAIN f : f[x] \in T
    BY PartialIs
  <1>3. Put(f, k, v) \in [DOMAIN f \cup {k} -> T]
    BY <1>2 DEF Put
  <1>4. QED
    BY <1>1, <1>3, IsPartial DEF Put

\* Some documents have a first and a last one.
LEMMA MinIsIn ==
    ASSUME NEW D, D \subseteq Documents, D # {}
    PROVE  Min(D) \in D
  <1>1. D \subseteq Nat
    BY MigrationConstants DEF Documents
  <1>2. PICK x \in D : \A y \in D : ~(<<y, x>> \in OpToRel(<, Nat))
    BY <1>1, NatLessThanWellFounded, WFMin
  <1>3. \A y \in D : ~(y < x)
    BY <1>1, <1>2 DEF OpToRel
  <1>4. \A y \in D : x =< y
    BY <1>1, <1>3
  <1>5. QED
    BY <1>4 DEF Min

LEMMA MaxIsIn ==
    ASSUME NEW D, D \subseteq Documents, D # {}
    PROVE  Max(D) \in D
  <1> DEFINE C == {NDocs - d : d \in D}
  <1>1. \A d \in D : d \in Nat /\ NDocs - d \in Nat /\ NDocs \in Nat
    BY MigrationConstants DEF Documents
  <1>2. C \subseteq Nat /\ C # {}
    BY <1>1
  <1>3. PICK x \in C : \A y \in C : ~(<<y, x>> \in OpToRel(<, Nat))
    BY <1>2, NatLessThanWellFounded, WFMin
  <1>4. \A y \in C : ~(y < x)
    BY <1>2, <1>3 DEF OpToRel
  <1>5. PICK m \in D : x = NDocs - m
    BY <1>3
  <1>6. \A d \in D : m >= d
    <2> SUFFICES ASSUME NEW d \in D PROVE m >= d
      OBVIOUS
    <2>1. ~(NDocs - d < x)
      BY <1>4
    <2>2. d \in Nat /\ m \in Nat /\ NDocs \in Nat
      BY <1>1
    <2> HIDE DEF C
    <2>3. QED
      BY <1>5, <2>1, <2>2
  <1>7. QED
    BY <1>6 DEF Max

-----------------------------------------------------------------------------
(* What the types say. *)

LEMMA PlanIs ==
    ASSUME NEW p \in PlanSet
    PROVE  /\ DOMAIN p.docs \subseteq Documents
           /\ \A d \in DOMAIN p.docs : p.docs[d].edit \in Nat /\ p.docs[d].ref \in {"old", "new"}
           /\ ChangesOf(p) \subseteq DOMAIN p.docs
           /\ \A d \in ChangesOf(p) : p.docs[d].ref = "old"
  <1>1. p.docs \in Partial(Documents, PlanDoc)
    BY DEF PlanSet
  <1>2. DOMAIN p.docs \subseteq Documents /\ \A d \in DOMAIN p.docs : p.docs[d] \in PlanDoc
    BY <1>1, PartialIs
  <1>3. QED
    BY <1>2 DEF PlanDoc, ChangesOf

LEMMA JournalIs ==
    ASSUME NEW j \in JournalType
    PROVE  /\ DOMAIN j.states \subseteq PlanSet
           /\ \A p \in DOMAIN j.states : j.states[p] \in States
           /\ Incomplete(j) \subseteq PlanSet /\ Completed(j) \subseteq PlanSet
           /\ \A p \in DOMAIN j.originals : j.originals[p] \in Found
           /\ j.states \in Partial(PlanSet, States) /\ j.originals \in Partial(PlanSet, Found)
           /\ j.completions \in Partial(PlanSet, Found)
  <1>1. /\ j.states \in Partial(PlanSet, States) /\ j.originals \in Partial(PlanSet, Found)
        /\ j.completions \in Partial(PlanSet, Found)
    BY DEF JournalType
  <1>2. DOMAIN j.states \subseteq PlanSet /\ \A p \in DOMAIN j.states : j.states[p] \in States
    BY <1>1, PartialIs
  <1>3. \A p \in DOMAIN j.originals : j.originals[p] \in Found
    BY <1>1, PartialIs
  <1>4. QED
    BY <1>1, <1>2, <1>3 DEF Incomplete, Completed

\* What was found of documents.
LEMMA FoundIs ==
    ASSUME NEW f \in Found
    PROVE  /\ DOMAIN f \subseteq Documents
           /\ \A d \in DOMAIN f : f[d] \in Doc
  BY PartialIs DEF Found

LEMMA DocIs ==
    ASSUME NEW x \in Doc
    PROVE  /\ x.edit \in Nat /\ x.rev \in Nat /\ x.ref \in {"old", "new"}
           /\ x.here \in BOOLEAN /\ x.writable \in BOOLEAN /\ x.edit \in 0 .. MaxForeign
  BY MigrationConstants DEF Doc

\* An operation that is under way has all its fields.
LEMMA OpIs ==
    ASSUME TypesInv, op.kind # "idle"
    PROVE  /\ op \in OpType /\ op.kind \in {"apply", "recover"} /\ op.plan \in PlanSet
           /\ op.stage \in Reading \cup Writing /\ op.todo \subseteq Documents
           /\ op.seen \in Found /\ op.originals \in Found /\ op.attempted \subseteq Documents
           /\ op.failed \in BOOLEAN /\ op.rev \in Nat
  <1>1. op \in OpType
    BY DEF TypesInv, Idle
  <1>2. QED
    BY <1>1 DEF OpType

\* Two contents are one if the edit and the reference are.
LEMMA Contents ==
    ASSUME NEW x, NEW y
    PROVE  /\ Content(x) = Content(y) <=> (x.edit = y.edit /\ x.ref = y.ref)
           /\ Content(x) = PostContent(y) <=> (x.edit = y.edit /\ x.ref = "new")
           /\ PostContent(x) = PostContent(y) <=> x.edit = y.edit
  BY DEF Content, PostContent

-----------------------------------------------------------------------------
(* Steps that only move the operation. *)

LEMMA WorldStays ==
    ASSUME MigrationInv, UNCHANGED <<docs, wrote, edits, journal>>
    PROVE  WorldInv'
  <1>1. JournalHolds'
    BY DEF MigrationInv, WorldInv, JournalHolds
  <1>2. UnfinishedIsYounger'
    BY DEF MigrationInv, WorldInv, UnfinishedIsYounger, Younger
  <1>3. WritesStand'
    BY DEF MigrationInv, WorldInv, WritesStand
  <1>4. WritesAreRecoverable'
    BY DEF MigrationInv, WorldInv, WritesAreRecoverable
  <1>5. CompletedStaysApplied'
    BY DEF MigrationInv, WorldInv, CompletedStaysApplied
  <1>6. QED
    BY <1>1, <1>2, <1>3, <1>4, <1>5 DEF WorldInv

\* What holds of an operation holds of it in a state that differs in nothing it mentions.
LEMMA OpStays ==
    ASSUME NEW x, OpInv(x), UNCHANGED <<docs, wrote, edits, journal, jopen, mem>>, op' = x
    PROVE  OpInv(op)'
  <1>1. CASE x.kind = "idle"
    BY <1>1 DEF OpInv
  <1>2. CASE x.kind # "idle"
    <2>1. ApplyInv(op)'
      BY <1>2 DEF OpInv, ApplyInv, Past
    <2>2. RecoverInv(op)'
      BY <1>2 DEF OpInv, RecoverInv, Wrote
    <2>3. OriginalsInv(op)' /\ TodoInv(op)'
      BY <1>2 DEF OpInv, OriginalsInv, TodoInv
    <2>4. StageInv(op)'
      BY <1>2 DEF OpInv, StageInv, Younger, Wrote, JournaledDocs, Stands, PostApplyHolds
    <2>5. QED
      BY <2>1, <2>2, <2>3, <2>4 DEF OpInv
  <1>3. QED
    BY <1>1, <1>2

LEMMA OpMoves ==
    ASSUME MigrationInv, NEW x \in OpType \cup {Idle}, op' = x, OpInv(x), UnfinishedBlocks(x),
           UNCHANGED <<docs, wrote, edits, subject, journal, jopen, mem, crashes>>,
           faults' \in 0 .. MaxFaults
    PROVE  MigrationInv'
  <1>1. TypesInv'
    BY DEF MigrationInv, TypesInv
  <1>2. WorldInv'
    BY WorldStays
  <1>3. PlansArePast' /\ CompletedIsKnown'
    BY DEF MigrationInv, PlansArePast, MadeOfThePast, CompletedIsKnown
  <1>4. UnfinishedBlocks(op)'
    BY DEF UnfinishedBlocks
  <1>5. OpInv(op)'
    BY OpStays
  <1>6. QED
    BY <1>1, <1>2, <1>3, <1>4, <1>5 DEF MigrationInv

\* What stays true of an operation that goes on with its plan and its originals.
LEMMA GoesOn ==
    ASSUME MigrationInv, op.kind # "idle", op.stage \in Writing \ {"settle"},
           NEW x \in OpType, x.kind = op.kind, x.plan = op.plan, x.originals = op.originals,
           x.kind = "apply" => x.attempted \subseteq ChangesOf(op.plan), x.stage \in Writing,
           op.stage \in Restoration => x.stage \in Restoration,
           x.kind = "apply" => \A d \in DOMAIN x.seen : Past(x.seen[d], d)
    PROVE  /\ ApplyInv(x) /\ RecoverInv(x) /\ OriginalsInv(x) /\ UnfinishedBlocks(x)
           /\ x.kind \in {"apply", "recover"}
  <1>1. op.kind \in {"apply", "recover"} /\ OpInv(op)
    BY OpIs DEF MigrationInv
  <1>2. ApplyInv(op) /\ RecoverInv(op) /\ OriginalsInv(op) /\ UnfinishedBlocks(op)
    BY <1>1 DEF OpInv, MigrationInv
  <1>3. ApplyInv(x)
    BY <1>2 DEF ApplyInv, Writing, Restoration
  <1>4. RecoverInv(x)
    BY <1>2 DEF RecoverInv
  <1>5. OriginalsInv(x)
    BY <1>2 DEF OriginalsInv
  <1>6. UnfinishedBlocks(x)
    BY <1>2 DEF UnfinishedBlocks
  <1>7. QED
    BY <1>1, <1>3, <1>4, <1>5, <1>6

\* A step of an operation that goes on, whose next stage is prepared for.
LEMMA StageMoves ==
    ASSUME MigrationInv, op.kind # "idle", op.stage \in Writing \ {"settle"},
           NEW x \in OpType, op' = x, x.kind = op.kind, x.plan = op.plan,
           x.originals = op.originals, x.kind = "apply" => x.attempted \subseteq ChangesOf(op.plan),
           x.stage \in Writing, op.stage \in Restoration => x.stage \in Restoration,
           x.kind = "apply" => \A d \in DOMAIN x.seen : Past(x.seen[d], d),
           TodoInv(x), StageInv(x),
           UNCHANGED <<docs, wrote, edits, subject, journal, jopen, mem, crashes>>,
           faults' \in 0 .. MaxFaults
    PROVE  MigrationInv'
  <1>1. ApplyInv(x) /\ RecoverInv(x) /\ OriginalsInv(x) /\ UnfinishedBlocks(x)
    BY GoesOn
  <1>2. OpInv(x)
    BY <1>1 DEF OpInv
  <1>3. QED
    BY <1>1, <1>2, OpMoves

\* What was seen before is seen still, and a document that is there can be added.
LEMMA SeenIs ==
    ASSUME MigrationInv, op.kind # "idle"
    PROVE  /\ op.kind = "apply" => \A d \in DOMAIN op.seen : Past(op.seen[d], d)
           /\ op.kind = "apply" => op.attempted \subseteq ChangesOf(op.plan)
           /\ \A d \in Documents : docs[d].here =>
                  Past(docs[d], d) /\ docs[d] \in Doc /\ Stands(docs[d], d)
  <1>1. OpInv(op) /\ docs \in [Documents -> Doc] /\ op.kind \in {"apply", "recover"}
    BY OpIs DEF MigrationInv, TypesInv
  <1>2. \A d \in Documents : docs[d] \in Doc /\ docs[d].rev \in Nat /\ docs[d].edit <= edits
    BY <1>1, DocIs DEF MigrationInv, WorldInv, WritesStand
  <1>3. QED
    BY <1>1, <1>2 DEF OpInv, ApplyInv, Past, Stands

\* What a failed call costs.
LEMMA FaultsCounted == ASSUME MigrationInv, ProviderRaises PROVE faults' \in 0 .. MaxFaults
  BY MigrationConstants DEF ProviderRaises, MigrationInv, TypesInv

\* An application that begins to restore has only changes of its plan to undo, with originals.
LEMMA RestoringIs ==
    ASSUME MigrationInv, op.kind # "idle", op.stage \in Writing \ {"settle"}, op.kind = "apply",
           NEW A, A \subseteq ChangesOf(op.plan)
    PROVE  /\ A \subseteq ChangesOf(op.plan) \cap DOMAIN op.originals
           /\ Restoring(A) \in OpType
           /\ Restoring(A).kind = op.kind /\ Restoring(A).plan = op.plan
           /\ Restoring(A).originals = op.originals /\ Restoring(A).attempted = op.attempted
           /\ Restoring(A).stage = "restore" /\ Restoring(A).todo = A
           /\ Restoring(A).seen = op.seen
           /\ TodoInv(Restoring(A)) /\ StageInv(Restoring(A))
  <1>1. op \in OpType /\ op.plan \in PlanSet /\ OpInv(op)
    BY OpIs DEF MigrationInv
  <1>2. ChangesOf(op.plan) \subseteq DOMAIN op.plan.docs /\ DOMAIN op.originals = DOMAIN op.plan.docs
        /\ DOMAIN op.plan.docs \subseteq Documents
    BY <1>1, PlanIs DEF OpInv, ApplyInv
  <1>3. A \subseteq Documents /\ A \subseteq ChangesOf(op.plan) \cap DOMAIN op.originals
    BY <1>2
  <1> DEFINE x == [op EXCEPT !.stage = "restore", !.todo = A, !.failed = FALSE]
  <1>4. /\ x \in OpType /\ x.kind = op.kind /\ x.plan = op.plan /\ x.originals = op.originals
        /\ x.attempted = op.attempted /\ x.stage = "restore" /\ x.todo = A /\ x.seen = op.seen
    <2>1. "restore" \in Reading \cup Writing /\ FALSE \in BOOLEAN
      BY DEF Writing, Restoration
    <2>2. QED
      BY <1>1, <1>3, <2>1 DEF OpType
  <1>5. x = Restoring(A)
    BY DEF Restoring
  <1> HIDE DEF x
  <1>6. TodoInv(x) /\ StageInv(x)
    BY <1>3, <1>4 DEF TodoInv, StageInv
  <1>7. QED
    BY <1>3, <1>4, <1>5, <1>6

\* An application begins to restore.
LEMMA RestoringStep ==
    ASSUME MigrationInv, op.kind = "apply", op.stage \in Writing \ {"settle"},
           NEW A, A \subseteq ChangesOf(op.plan),
           op' = Restoring(A), UNCHANGED <<docs, wrote, edits, subject, journal, jopen, mem, crashes>>,
           faults' \in 0 .. MaxFaults
    PROVE  MigrationInv'
  <1>1. /\ Restoring(A) \in OpType
        /\ Restoring(A).kind = op.kind /\ Restoring(A).plan = op.plan
        /\ Restoring(A).originals = op.originals /\ Restoring(A).attempted = op.attempted
        /\ Restoring(A).stage = "restore" /\ Restoring(A).seen = op.seen
        /\ TodoInv(Restoring(A)) /\ StageInv(Restoring(A))
    BY RestoringIs
  <1>2. /\ op.attempted \subseteq ChangesOf(op.plan)
        /\ \A d \in DOMAIN op.seen : Past(op.seen[d], d)
    BY SeenIs
  <1> DEFINE x == Restoring(A)
  <1>3. x.stage \in Writing /\ (op.stage \in Restoration => x.stage \in Restoration)
    BY <1>1 DEF Writing, Restoration
  <1> HIDE DEF x
  <1>4. QED
    BY <1>1, <1>2, <1>3, StageMoves DEF x

\* The plan without changes is verified.
LEMMA NothingToChangeStep == ASSUME MigrationInv, NothingToChange PROVE MigrationInv'
  <1>1. /\ op.kind # "idle" /\ op.stage = "record"
        /\ op' = [op EXCEPT !.stage = "verify", !.todo = Documents, !.seen = <<>>]
        /\ UNCHANGED <<docs, wrote, edits, subject, journal, jopen, mem, faults, crashes>>
    BY DEF NothingToChange, InStage, Fetching
  <1> DEFINE x == [op EXCEPT !.stage = "verify", !.todo = Documents, !.seen = <<>>]
  <1>2. /\ x \in OpType /\ x.kind = op.kind /\ x.plan = op.plan /\ x.originals = op.originals
        /\ x.attempted = op.attempted /\ x.stage = "verify" /\ x.seen = <<>>
    <2>1. "verify" \in Reading \cup Writing /\ <<>> \in Found
      BY NothingIsPartial DEF Writing, Found
    <2>2. op \in OpType
      BY <1>1, OpIs DEF MigrationInv
    <2>3. QED
      BY <2>1, <2>2 DEF OpType
  <1> HIDE DEF x
  <1>3. TodoInv(x) /\ StageInv(x) /\ \A d \in DOMAIN x.seen : Past(x.seen[d], d)
    <2>1. DOMAIN x.seen = {}
      BY <1>2, NothingIsPartial
    <2>2. QED
      BY <1>2, <2>1 DEF TodoInv, StageInv
  <1>4. /\ op.stage \in Writing \ {"settle"} /\ x.stage \in Writing
        /\ op.stage \in Restoration => x.stage \in Restoration
    BY <1>1, <1>2 DEF Writing, Restoration
  <1>5. op.kind = "apply" => op.attempted \subseteq ChangesOf(op.plan)
    BY <1>1, SeenIs
  <1>6. faults' \in 0 .. MaxFaults
    BY <1>1 DEF MigrationInv, TypesInv
  <1>7. QED
    BY <1>1, <1>2, <1>3, <1>4, <1>5, <1>6, StageMoves DEF x

\* A written document is read back: it is what was planned, or everything is restored.
LEMMA ReadBackStep == ASSUME MigrationInv, ReadBack PROVE MigrationInv'
  <1> DEFINE m == Min(op.todo)
  <1>1. /\ op.kind # "idle" /\ op.stage = "readback" /\ faults' \in 0 .. MaxFaults
        /\ UNCHANGED <<docs, wrote, edits, subject, journal, jopen, mem, crashes>>
    BY FaultsCounted DEF ReadBack, InStage, MigrationInv, TypesInv
  <1>2. /\ op \in OpType /\ op.kind = "apply" /\ op.plan \in PlanSet
        /\ op.attempted \subseteq ChangesOf(op.plan) /\ op.attempted \subseteq Documents
        /\ op.todo \subseteq ChangesOf(op.plan) \cap DOMAIN op.originals /\ op.todo # {}
        /\ op.todo \subseteq Documents
        /\ ChangesOf(op.plan) \subseteq JournaledDocs(op.plan)
    BY <1>1, OpIs, SeenIs DEF MigrationInv, OpInv, TodoInv, StageInv, RecoverInv, Restoration
  <1>3. m \in op.todo
    BY <1>2, MinIsIn
  <1>4. op.stage \in Writing \ {"settle"}
    BY <1>1 DEF Writing, Restoration
  <1> DEFINE next == [op EXCEPT !.attempted = @ \cup {m}, !.stage = "write", !.todo = @ \ {m}]
  <1>5. /\ next \in OpType /\ next.kind = op.kind /\ next.plan = op.plan
        /\ next.originals = op.originals /\ next.attempted = op.attempted \cup {m}
        /\ next.stage = "write" /\ next.todo = op.todo \ {m} /\ next.seen = op.seen
    <2>1. "write" \in Reading \cup Writing
      BY DEF Writing
    <2>2. op.attempted \cup {m} \in SUBSET Documents /\ op.todo \ {m} \in SUBSET Documents
      BY <1>2, <1>3
    <2>3. QED
      BY <1>2, <2>1, <2>2 DEF OpType
  <1>6. CASE op' = Restoring(op.attempted)
    BY <1>1, <1>2, <1>4, <1>6, RestoringStep
  <1> HIDE DEF next
  <1>7. CASE op' = Fetching(next, "verify", Documents)
    <2> DEFINE x == [next EXCEPT !.stage = "verify", !.todo = Documents, !.seen = <<>>]
    <2>1. "verify" \in Reading \cup Writing /\ <<>> \in Found /\ DOMAIN <<>> = {}
      BY NothingIsPartial DEF Writing, Found
    <2>2. /\ x \in OpType /\ x.kind = op.kind /\ x.plan = op.plan /\ x.originals = op.originals
          /\ x.attempted = op.attempted \cup {m} /\ x.stage = "verify" /\ x.seen = <<>>
      BY <1>5, <2>1 DEF OpType
    <2>3. op' = x
      BY <1>7 DEF Fetching
    <2> HIDE DEF x
    <2>4. TodoInv(x) /\ StageInv(x) /\ \A d \in DOMAIN x.seen : Past(x.seen[d], d)
      BY <2>1, <2>2 DEF TodoInv, StageInv
    <2>5. /\ x.stage \in Writing /\ op.stage \notin Restoration
          /\ x.attempted \subseteq ChangesOf(op.plan)
      BY <1>1, <1>2, <1>3, <2>2 DEF Writing, Restoration
    <2>6. QED
      BY <1>1, <1>4, <2>2, <2>3, <2>4, <2>5, StageMoves
  <1>8. CASE op' = next /\ op.todo # {m}
    <2>1. TodoInv(next) /\ StageInv(next)
      BY <1>2, <1>3, <1>5, <1>8 DEF TodoInv, StageInv
    <2>2. \A d \in DOMAIN next.seen : Past(next.seen[d], d)
      BY <1>1, <1>2, <1>5, SeenIs
    <2>3. /\ next.stage \in Writing /\ op.stage \notin Restoration
          /\ next.attempted \subseteq ChangesOf(op.plan)
      BY <1>1, <1>2, <1>3, <1>5 DEF Writing, Restoration
    <2>4. QED
      BY <1>1, <1>4, <1>5, <1>8, <2>1, <2>2, <2>3, StageMoves
  <1>9. QED
    BY <1>6, <1>7, <1>8 DEF ReadBack, next

\* After a write that raised the document is restored too if it was written.
LEMMA ReadAfterRaiseStep == ASSUME MigrationInv, ReadAfterRaise PROVE MigrationInv'
  <1> DEFINE m == Min(op.todo)
             A == op.attempted \cup {m}
             r == Restoring(op.attempted)
             x == [r EXCEPT !.attempted = A, !.todo = A]
  <1>1. /\ op.kind # "idle" /\ op.stage = "raised" /\ faults' \in 0 .. MaxFaults
        /\ UNCHANGED <<docs, wrote, edits, subject, journal, jopen, mem, crashes>>
    BY FaultsCounted DEF ReadAfterRaise, InStage, MigrationInv, TypesInv
  <1>2. /\ op \in OpType /\ op.kind = "apply"
        /\ op.attempted \subseteq ChangesOf(op.plan)
        /\ op.todo \subseteq ChangesOf(op.plan) \cap DOMAIN op.originals /\ op.todo # {}
        /\ op.todo \subseteq Documents /\ op.attempted \subseteq Documents
    BY <1>1, OpIs, SeenIs DEF MigrationInv, OpInv, TodoInv, RecoverInv, Restoration
  <1>3. m \in op.todo
    BY <1>2, MinIsIn
  <1>4. op.stage \in Writing \ {"settle"} /\ op.stage \notin Restoration
    BY <1>1 DEF Writing, Restoration
  <1>5. /\ r \in OpType /\ r.kind = op.kind /\ r.plan = op.plan
        /\ r.originals = op.originals /\ r.attempted = op.attempted /\ r.todo = op.attempted
        /\ r.stage = "restore" /\ r.seen = op.seen
        /\ op.attempted \subseteq ChangesOf(op.plan) \cap DOMAIN op.originals
    BY <1>1, <1>2, <1>4, RestoringIs
  <1> HIDE DEF r
  <1>6. CASE op' = r
    BY <1>1, <1>2, <1>4, <1>6, RestoringStep DEF r
  <1>7. CASE op' = x
    <2>1. A \in SUBSET Documents /\ A \subseteq ChangesOf(op.plan) \cap DOMAIN op.originals
      BY <1>2, <1>3, <1>5
    <2> HIDE DEF A
    <2>2. /\ x \in OpType /\ x.kind = op.kind /\ x.plan = op.plan /\ x.originals = op.originals
          /\ x.attempted = A /\ x.stage = "restore" /\ x.todo = A /\ x.seen = op.seen
      BY <1>5, <2>1 DEF OpType
    <2> HIDE DEF x
    <2>3. TodoInv(x) /\ StageInv(x) /\ x.stage \in Writing
      BY <2>1, <2>2 DEF TodoInv, StageInv, Writing, Restoration
    <2>4. \A d \in DOMAIN x.seen : Past(x.seen[d], d)
      BY <1>1, <1>2, <2>2, SeenIs
    <2>5. x.attempted \subseteq ChangesOf(op.plan)
      BY <2>1, <2>2
    <2>6. QED
      BY <1>1, <1>4, <1>7, <2>2, <2>3, <2>4, <2>5, StageMoves
  <1>8. op' = r \/ op' = x
    <2>1. CASE op' = [r EXCEPT
                  !.attempted = IF Reads(m, PostContent(op.originals[m])) THEN @ \cup {m} ELSE @,
                  !.todo = IF Reads(m, PostContent(op.originals[m])) THEN @ \cup {m} ELSE @]
      <3>1. CASE Reads(m, PostContent(op.originals[m]))
        BY <1>5, <2>1, <3>1
      <3>2. CASE ~Reads(m, PostContent(op.originals[m]))
        BY <1>5, <2>1, <3>2 DEF OpType
      <3>3. QED
        BY <3>1, <3>2
    <2>2. QED
      BY <2>1 DEF ReadAfterRaise, r
  <1>9. QED
    BY <1>6, <1>7, <1>8

\* What was read of a plan that is applied stands: it goes to its completion, or back.
LEMMA VerifyStep == ASSUME MigrationInv, VerifyApplied PROVE MigrationInv'
  <1>1. /\ op.kind # "idle" /\ op.stage = "verify" /\ faults' \in 0 .. MaxFaults
        /\ UNCHANGED <<docs, wrote, edits, subject, journal, jopen, mem, crashes>>
    BY DEF VerifyApplied, InStage, MigrationInv, TypesInv
  <1>2. /\ op \in OpType /\ op.kind = "apply"
        /\ op.attempted \subseteq ChangesOf(op.plan)
        /\ \A d \in DOMAIN op.seen : Past(op.seen[d], d) /\ Stands(op.seen[d], d)
    BY <1>1, OpIs, SeenIs DEF MigrationInv, OpInv, StageInv, RecoverInv, Restoration
  <1>3. op.stage \in Writing \ {"settle"} /\ op.stage \notin Restoration
    BY <1>1 DEF Writing, Restoration
  <1>4. CASE op' = Restoring(op.attempted)
    BY <1>1, <1>2, <1>3, <1>4, RestoringStep
  <1>5. CASE PostApplyHolds(op.plan, op.seen) /\ op' = [op EXCEPT !.stage = "completing"]
    <2> DEFINE x == [op EXCEPT !.stage = "completing"]
    <2>1. /\ x \in OpType /\ x.kind = op.kind /\ x.plan = op.plan /\ x.originals = op.originals
          /\ x.attempted = op.attempted /\ x.stage = "completing" /\ x.seen = op.seen
          /\ x.stage \in Writing
      BY <1>2 DEF OpType, Writing
    <2> HIDE DEF x
    <2>2. TodoInv(x) /\ StageInv(x)
      BY <1>2, <1>5, <2>1 DEF TodoInv, StageInv
    <2>3. QED
      BY <1>1, <1>2, <1>3, <1>5, <2>1, <2>2, StageMoves DEF x
  <1>6. QED
    BY <1>4, <1>5 DEF VerifyApplied

-----------------------------------------------------------------------------
(* Restoring. *)

\* The operation in a stage of restoring.
LEMMA RestoringFacts ==
    ASSUME MigrationInv, op.kind # "idle",
           op.stage \in {"restore", "restore_write", "restore_check"}
    PROVE  /\ op \in OpType /\ op.plan \in PlanSet
           /\ op.stage \in Writing \ {"settle"} /\ op.stage \in Restoration
           /\ op.todo \subseteq ChangesOf(op.plan) \cap DOMAIN op.originals
           /\ op.todo \subseteq Documents
           /\ op.todo # {} => Max(op.todo) \in op.todo
           /\ op.kind = "apply" => op.attempted \subseteq ChangesOf(op.plan)
           /\ op.kind = "apply" => \A d \in DOMAIN op.seen : Past(op.seen[d], d)
           /\ OriginalsInv(op) /\ OpInv(op)
  <1>1. op \in OpType /\ op.plan \in PlanSet /\ op.todo \subseteq Documents /\ OpInv(op)
    BY OpIs DEF MigrationInv
  <1>2. /\ op.stage \in Writing \ {"settle"} /\ op.stage \in Restoration
    BY DEF Writing, Restoration
  <1>3. op.todo \subseteq ChangesOf(op.plan) \cap DOMAIN op.originals /\ OriginalsInv(op)
    BY <1>1 DEF OpInv, TodoInv
  <1>4. QED
    BY <1>1, <1>2, <1>3, SeenIs, MaxIsIn

\* One document less to restore.
LEMMA RestoreNextStep ==
    ASSUME MigrationInv, op.kind # "idle",
           op.stage \in {"restore", "restore_write", "restore_check"},
           NEW m, NEW failed \in BOOLEAN, op' = RestoreNext(m, failed),
           UNCHANGED <<docs, wrote, edits, subject, journal, jopen, mem, crashes>>,
           faults' \in 0 .. MaxFaults
    PROVE  MigrationInv'
  <1> DEFINE x == [op EXCEPT !.stage = "restore", !.todo = @ \ {m}, !.rev = 0,
                             !.failed = @ \/ failed]
  <1>1. op' = x
    BY DEF RestoreNext
  <1>2. /\ op \in OpType /\ op.todo \subseteq ChangesOf(op.plan) \cap DOMAIN op.originals
        /\ op.todo \ {m} \in SUBSET Documents
    BY RestoringFacts
  <1>3. /\ x \in OpType /\ x.kind = op.kind /\ x.plan = op.plan /\ x.originals = op.originals
        /\ x.attempted = op.attempted /\ x.stage = "restore" /\ x.todo = op.todo \ {m}
        /\ x.seen = op.seen /\ x.stage \in Writing /\ x.stage \in Restoration
    <2>1. "restore" \in Reading \cup Writing /\ (op.failed \/ failed) \in BOOLEAN /\ 0 \in Nat
      BY DEF Writing, Restoration
    <2>2. QED
      BY <1>2, <2>1 DEF OpType, Writing, Restoration
  <1> HIDE DEF x
  <1>4. TodoInv(x) /\ StageInv(x)
    BY <1>2, <1>3 DEF TodoInv, StageInv
  <1>5. QED
    BY <1>1, <1>3, <1>4, RestoringFacts, StageMoves

\* A document is written back only as it was read.
LEMMA RestoreReadStep == ASSUME MigrationInv, RestoreRead PROVE MigrationInv'
  <1> DEFINE m == Max(op.todo)
  <1>1. /\ op.kind # "idle" /\ op.stage = "restore" /\ op.todo # {} /\ faults' \in 0 .. MaxFaults
        /\ UNCHANGED <<docs, wrote, edits, subject, journal, jopen, mem, crashes>>
    BY FaultsCounted DEF RestoreRead, InStage, MigrationInv, TypesInv
  <1>2. /\ op \in OpType /\ op.stage \in Writing \ {"settle"} /\ m \in op.todo
        /\ m \in Documents /\ docs[m] \in Doc /\ docs[m].rev \in Nat
        /\ op.todo \subseteq ChangesOf(op.plan) \cap DOMAIN op.originals
    BY <1>1, RestoringFacts, DocIs DEF MigrationInv, TypesInv
  <1>3. CASE op' = RestoreNext(m, TRUE)
    BY <1>1, <1>3, RestoreNextStep
  <1>4. CASE op' = [op EXCEPT !.stage = "restore_check"]
    <2> DEFINE x == [op EXCEPT !.stage = "restore_check"]
    <2>1. /\ x \in OpType /\ x.kind = op.kind /\ x.plan = op.plan /\ x.originals = op.originals
          /\ x.attempted = op.attempted /\ x.stage = "restore_check" /\ x.todo = op.todo
          /\ x.seen = op.seen /\ x.stage \in Writing /\ x.stage \in Restoration
      BY <1>2 DEF OpType, Writing, Restoration
    <2> HIDE DEF x
    <2>2. TodoInv(x) /\ StageInv(x)
      BY <1>1, <1>2, <2>1 DEF TodoInv, StageInv
    <2>3. QED
      BY <1>1, <1>4, <2>1, <2>2, RestoringFacts, StageMoves DEF x
  <1>5. CASE /\ Reads(m, PostContent(op.originals[m]))
             /\ op' = [op EXCEPT !.stage = "restore_write", !.rev = docs[m].rev]
    <2> DEFINE x == [op EXCEPT !.stage = "restore_write", !.rev = docs[m].rev]
    <2>1. /\ x \in OpType /\ x.kind = op.kind /\ x.plan = op.plan /\ x.originals = op.originals
          /\ x.attempted = op.attempted /\ x.stage = "restore_write" /\ x.todo = op.todo
          /\ x.seen = op.seen /\ x.rev = docs[m].rev
          /\ x.stage \in Writing /\ x.stage \in Restoration
      BY <1>2 DEF OpType, Writing, Restoration
    <2> HIDE DEF x
    <2>2. TodoInv(x) /\ StageInv(x)
      BY <1>1, <1>2, <1>5, <2>1 DEF TodoInv, StageInv, Reads
    <2>3. QED
      BY <1>1, <1>5, <2>1, <2>2, RestoringFacts, StageMoves DEF x
  <1>6. QED
    BY <1>3, <1>4, <1>5 DEF RestoreRead

LEMMA RestoreCheckStep == ASSUME MigrationInv, RestoreCheck PROVE MigrationInv'
  <1>1. /\ op.kind # "idle" /\ op.stage = "restore_check" /\ faults' \in 0 .. MaxFaults
        /\ UNCHANGED <<docs, wrote, edits, subject, journal, jopen, mem, crashes>>
    BY FaultsCounted DEF RestoreCheck, InStage, MigrationInv, TypesInv
  <1>2. PICK failed \in BOOLEAN : op' = RestoreNext(Max(op.todo), failed)
    BY DEF RestoreCheck, Reads
  <1>3. QED
    BY <1>1, <1>2, RestoreNextStep

\* The inventory that ends a restoration covers whatever the plan still stands in.
LEMMA RestoreEndsStep == ASSUME MigrationInv, RestoreEnds PROVE MigrationInv'
  <1> DEFINE some == IF op.kind = "apply" THEN Documents ELSE DOMAIN op.originals
             x == [op EXCEPT !.stage = "inventory", !.todo = some, !.seen = <<>>]
  <1>1. /\ op.kind # "idle" /\ op.stage = "restore" /\ faults' \in 0 .. MaxFaults
        /\ op' = x
        /\ UNCHANGED <<docs, wrote, edits, subject, journal, jopen, mem, crashes>>
    BY DEF RestoreEnds, InStage, MigrationInv, TypesInv, Fetching
  <1>2. /\ op \in OpType /\ op.originals \in Found /\ op.kind \in {"apply", "recover"}
        /\ OpInv(op)
    BY <1>1, OpIs DEF MigrationInv
  <1>3. some \in SUBSET Documents
    BY <1>2, FoundIs
  <1>4. \A d \in Documents : Wrote(d, op.plan) => d \in some
    BY <1>1, <1>2 DEF OpInv, RecoverInv
  <1> HIDE DEF some
  <1>5. /\ x \in OpType /\ x.kind = op.kind /\ x.plan = op.plan /\ x.originals = op.originals
        /\ x.attempted = op.attempted /\ x.stage = "inventory" /\ x.todo = some
        /\ x.seen = <<>> /\ x.stage \in Writing /\ x.stage \in Restoration
    <2>1. "inventory" \in Reading \cup Writing /\ <<>> \in Found
      BY NothingIsPartial DEF Writing, Restoration, Found
    <2>2. QED
      BY <1>2, <1>3, <2>1 DEF OpType, Writing, Restoration
  <1> HIDE DEF x
  <1>6. TodoInv(x) /\ StageInv(x)
    BY <1>4, <1>5 DEF TodoInv, StageInv
  <1>7. \A d \in DOMAIN x.seen : Past(x.seen[d], d)
    BY <1>5, NothingIsPartial
  <1>8. QED
    BY <1>1, <1>5, <1>6, <1>7, RestoringFacts, StageMoves

\* A plan that still stands in some document shows in the comparison.
LEMMA CompareStep == ASSUME MigrationInv, CompareInventory PROVE MigrationInv'
  <1> DEFINE differs == \/ op.failed
                        \/ DOMAIN op.seen # DOMAIN op.originals
                        \/ \E d \in DOMAIN op.seen :
                              \/ Content(op.seen[d]) # Content(op.originals[d])
                              \/ op.seen[d].writable # op.originals[d].writable
             x == [op EXCEPT !.stage = "settle", !.failed = differs]
  <1>1. /\ op.kind # "idle" /\ op.stage = "inventory" /\ op.todo = {} /\ faults' \in 0 .. MaxFaults
        /\ op' = x
        /\ UNCHANGED <<docs, wrote, edits, subject, journal, jopen, mem, crashes>>
    BY DEF CompareInventory, InStage, MigrationInv, TypesInv
  <1>2. op \in OpType /\ OpInv(op) /\ op.failed \in BOOLEAN
    BY <1>1, OpIs DEF MigrationInv
  <1>3. ASSUME NEW d \in Documents, Wrote(d, op.plan) PROVE differs
    <2>1. /\ d \in DOMAIN op.seen /\ Content(op.seen[d]) = PostContent(op.plan.docs[d])
      BY <1>1, <1>2, <1>3 DEF OpInv, StageInv
    <2>2. d \in ChangesOf(op.plan)
      BY <1>3 DEF MigrationInv, WorldInv, WritesStand, Wrote
    <2>3. op.plan.docs[d].ref # "new"
      BY <2>2 DEF ChangesOf
    <2>4. CASE d \in DOMAIN op.originals
      <3>1. Content(op.originals[d]) = Content(op.plan.docs[d])
        BY <1>1, <1>2, <2>4 DEF OpInv, OriginalsInv, Writing, Restoration
      <3>2. Content(op.seen[d]) # Content(op.originals[d])
        BY <2>1, <2>3, <3>1 DEF Content, PostContent
      <3>3. QED
        BY <2>1, <3>2
    <2>5. CASE d \notin DOMAIN op.originals
      BY <2>1, <2>5
    <2>6. QED
      BY <2>4, <2>5
  <1>4. differs \in BOOLEAN
    BY <1>2
  <1> HIDE DEF differs
  <1>5. /\ x \in OpType /\ x.kind = op.kind /\ x.plan = op.plan /\ x.originals = op.originals
        /\ x.attempted = op.attempted /\ x.stage = "settle" /\ x.failed = differs
        /\ x.seen = op.seen /\ x.stage \in Writing /\ x.stage \in Restoration
    <2>1. "settle" \in Reading \cup Writing
      BY DEF Writing, Restoration
    <2>2. QED
      BY <1>2, <1>4, <2>1 DEF OpType, Writing, Restoration
  <1> HIDE DEF x
  <1>6. TodoInv(x) /\ StageInv(x)
    BY <1>3, <1>5 DEF TodoInv, StageInv
  <1>7. /\ op.stage \in Writing \ {"settle"}
        /\ op.kind = "apply" => op.attempted \subseteq ChangesOf(op.plan)
        /\ op.kind = "apply" => \A d \in DOMAIN op.seen : Past(op.seen[d], d)
    BY <1>1, SeenIs DEF Writing, Restoration
  <1>8. QED
    BY <1>1, <1>5, <1>6, <1>7, StageMoves

-----------------------------------------------------------------------------
(* Reading the inventory, and beginning an operation. *)

\* What is read of a document that still refers to the old entity is younger than what is
\* complete: a completed plan would stand in it.
LEMMA OldIsYounger ==
    ASSUME MigrationInv, NEW d \in Documents, docs[d].here, docs[d].ref = "old"
    PROVE  Younger(docs[d].edit, d)
  <1>1. SUFFICES ASSUME NEW q \in Completed(journal), d \in DOMAIN q.docs
                 PROVE  q.docs[d].edit < docs[d].edit
    BY DEF Younger
  <1>2. \/ docs[d].edit > q.docs[d].edit
        \/ Content(docs[d]) = PostContent(q.docs[d])
    BY <1>1 DEF MigrationInv, WorldInv, CompletedStaysApplied
  <1>3. Content(docs[d]) # PostContent(q.docs[d])
    BY Contents
  <1>4. docs[d].edit \in Nat /\ q.docs[d].edit \in Nat
    <2>1. q \in PlanSet
      BY <1>1, JournalIs DEF MigrationInv, TypesInv
    <2>2. QED
      BY <1>1, <2>1, PlanIs, DocIs DEF MigrationInv, TypesInv
  <1>5. QED
    BY <1>2, <1>3, <1>4

\* One more document that was found.
LEMMA FoundPut ==
    ASSUME NEW f \in Found, NEW d \in Documents, NEW x \in Doc
    PROVE  /\ Put(f, d, x) \in Found
           /\ DOMAIN Put(f, d, x) = DOMAIN f \cup {d}
           /\ Put(f, d, x)[d] = x
           /\ \A e \in DOMAIN f : e # d => Put(f, d, x)[e] = f[e]
  <1>1. f \in Partial(Documents, Doc)
    BY DEF Found
  <1>2. /\ Put(f, d, x) \in Partial(Documents, Doc)
        /\ DOMAIN Put(f, d, x) = DOMAIN f \cup {d}
        /\ Put(f, d, x)[d] = x
        /\ \A e \in DOMAIN f : e # d => Put(f, d, x)[e] = f[e]
    BY <1>1, PutIs
  <1>3. QED
    BY <1>2 DEF Found

\* What is known after a document was looked for.
LEMMA SeenGrows ==
    ASSUME MigrationInv, op.kind # "idle", NEW m \in Documents, NEW found,
           found = IF docs[m].here THEN Put(op.seen, m, docs[m]) ELSE op.seen
    PROVE  /\ found \in Found
           /\ DOMAIN op.seen \subseteq DOMAIN found
           /\ docs[m].here => m \in DOMAIN found
           /\ \A d \in DOMAIN found :
                  \/ d \in DOMAIN op.seen /\ d # m /\ found[d] = op.seen[d]
                  \/ d = m /\ docs[m].here /\ found[d] = docs[m]
                  \/ d \in DOMAIN op.seen /\ found[d] = op.seen[d] /\ ~docs[m].here
  <1>1. op.seen \in Found /\ docs[m] \in Doc
    BY OpIs DEF MigrationInv, TypesInv
  <1>2. CASE docs[m].here
    <2> DEFINE f == op.seen
               x == docs[m]
    <2> HIDE DEF f, x
    <2>1. f \in Found /\ x \in Doc
      BY <1>1 DEF f, x
    <2>2. /\ Put(f, m, x) \in Found /\ DOMAIN Put(f, m, x) = DOMAIN f \cup {m}
          /\ Put(f, m, x)[m] = x /\ \A d \in DOMAIN f : d # m => Put(f, m, x)[d] = f[d]
      BY <2>1, FoundPut
    <2>3. found = Put(f, m, x)
      BY <1>2 DEF f, x
    <2>4. QED
      BY <1>2, <2>2, <2>3 DEF f, x
  <1>3. CASE ~docs[m].here
    BY <1>1, <1>3
  <1>4. QED
    BY <1>2, <1>3

\* One document read, in any of the four inventories.
LEMMA ReadStep ==
    ASSUME MigrationInv, op.kind # "idle",
           op.stage \in {"preflight", "verify", "inventory", "replay"}, op.todo # {},
           op' = [op EXCEPT !.todo = @ \ {Min(op.todo)},
                            !.seen = IF docs[Min(op.todo)].here
                                     THEN Put(@, Min(op.todo), docs[Min(op.todo)]) ELSE @],
           UNCHANGED <<docs, wrote, edits, subject, journal, jopen, mem, crashes>>,
           faults' = faults
    PROVE  MigrationInv'
  <1> DEFINE m == Min(op.todo)
             found == IF docs[m].here THEN Put(op.seen, m, docs[m]) ELSE op.seen
             x == [op EXCEPT !.todo = op.todo \ {m}, !.seen = found]
  <1>1. op' = x /\ faults' \in 0 .. MaxFaults
    BY OpIs DEF OpType, MigrationInv, TypesInv
  <1>2. /\ op \in OpType /\ op.todo \subseteq Documents /\ op.seen \in Found /\ OpInv(op)
        /\ op.kind \in {"apply", "recover"}
    BY OpIs DEF MigrationInv
  <1>3. m \in op.todo /\ m \in Documents
    BY <1>2, MinIsIn
  <1>4. docs[m].here => docs[m] \in Doc /\ Past(docs[m], m) /\ Stands(docs[m], m)
    BY <1>3, SeenIs
  <1>5. /\ found \in Found
        /\ DOMAIN op.seen \subseteq DOMAIN found
        /\ docs[m].here => m \in DOMAIN found
        /\ \A d \in DOMAIN found : \/ d \in DOMAIN op.seen /\ d # m /\ found[d] = op.seen[d]
                                   \/ d = m /\ docs[m].here /\ found[d] = docs[m]
                                   \/ d \in DOMAIN op.seen /\ found[d] = op.seen[d]
                                         /\ ~docs[m].here
    BY <1>3, SeenGrows
  <1> HIDE DEF found
  <1>6. /\ x \in OpType /\ x.kind = op.kind /\ x.plan = op.plan /\ x.originals = op.originals
        /\ x.attempted = op.attempted /\ x.stage = op.stage /\ x.todo = op.todo \ {m}
        /\ x.seen = found /\ x.failed = op.failed /\ x.rev = op.rev
    <2>1. op.todo \ {m} \in SUBSET Documents
      BY <1>2
    <2>2. QED
      BY <1>2, <1>5, <2>1 DEF OpType
  <1> HIDE DEF x
  <1>7. x.kind = "apply" => \A d \in DOMAIN x.seen : Past(x.seen[d], d)
    BY <1>4, <1>5, <1>6, SeenIs
  <1>8. ApplyInv(x)
    BY <1>2, <1>6, <1>7 DEF OpInv, ApplyInv
  <1>9. RecoverInv(x) /\ OriginalsInv(x) /\ TodoInv(x)
    BY <1>2, <1>6 DEF OpInv, RecoverInv, OriginalsInv, TodoInv
  <1>10. StageInv(x)
    <2>1. CASE x.stage = "preflight"
      <3>1. \A d \in DOMAIN x.seen : x.seen[d].ref = "old" => Younger(x.seen[d].edit, d)
        BY <1>2, <1>3, <1>5, <1>6, <2>1, OldIsYounger DEF OpInv, StageInv
      <3>2. QED
        BY <2>1, <3>1 DEF StageInv
    <2>2. CASE x.stage = "verify"
      <3>1. \A d \in DOMAIN x.seen : Stands(x.seen[d], d)
        BY <1>2, <1>4, <1>5, <1>6, <2>2 DEF OpInv, StageInv
      <3>2. QED
        BY <2>2, <3>1 DEF StageInv
    <2>3. CASE x.stage = "inventory"
      <3>1. ASSUME NEW d \in Documents, Wrote(d, x.plan), d \notin x.todo
            PROVE  d \in DOMAIN x.seen /\ Content(x.seen[d]) = PostContent(x.plan.docs[d])
        <4>1. docs[d].here /\ Content(docs[d]) = PostContent(x.plan.docs[d])
          BY <3>1 DEF Wrote, MigrationInv, WorldInv, WritesStand
        <4>2. CASE d = m
          BY <1>5, <1>6, <4>1, <4>2
        <4>3. CASE d # m
          <5>1. d \in DOMAIN op.seen /\ Content(op.seen[d]) = PostContent(op.plan.docs[d])
            BY <1>2, <1>6, <2>3, <3>1, <4>3 DEF OpInv, StageInv
          <5>2. d \in DOMAIN found /\ found[d] = op.seen[d]
            BY <1>5, <4>3, <5>1
          <5>3. QED
            BY <1>6, <5>1, <5>2
        <4>4. QED
          BY <4>2, <4>3
      <3>2. QED
        BY <2>3, <3>1 DEF StageInv
    <2>4. CASE x.stage = "replay"
      BY <2>4 DEF StageInv
    <2>5. QED
      BY <1>6, <2>1, <2>2, <2>3, <2>4
  <1>11. UnfinishedBlocks(x)
    BY <1>6 DEF MigrationInv, UnfinishedBlocks
  <1>12. QED
    BY <1>1, <1>6, <1>8, <1>9, <1>10, <1>11, OpMoves DEF OpInv

\* The states once that of a plan is set.
LEMMA StatesPut ==
    ASSUME NEW f \in Partial(PlanSet, States), NEW p \in PlanSet, NEW s \in States
    PROVE  /\ Put(f, p, s) \in Partial(PlanSet, States)
           /\ DOMAIN Put(f, p, s) = DOMAIN f \cup {p}
           /\ Put(f, p, s)[p] = s
           /\ \A q \in DOMAIN f : q # p => Put(f, p, s)[q] = f[q]
  <1> DEFINE S == PlanSet
             T == States
  <1>1. f \in Partial(S, T) /\ p \in S /\ s \in T
    OBVIOUS
  <1> HIDE DEF S, T
  <1>2. /\ Put(f, p, s) \in Partial(S, T) /\ DOMAIN Put(f, p, s) = DOMAIN f \cup {p}
        /\ Put(f, p, s)[p] = s
        /\ \A q \in DOMAIN f : q # p => Put(f, p, s)[q] = f[q]
    BY <1>1, PutIs
  <1>3. QED
    BY <1>2 DEF S, T

\* What setting a state in memory changes.
LEMMA MemStateIs ==
    ASSUME MigrationInv, NEW p \in PlanSet, NEW s \in States
    PROVE  /\ MemState(p, s) \in MemType
           /\ DOMAIN MemState(p, s).states = DOMAIN mem.states \cup {p}
           /\ MemState(p, s).states[p] = s
           /\ \A q \in DOMAIN mem.states : q # p => MemState(p, s).states[q] = mem.states[q]
           /\ MemState(p, s).completed = mem.completed
           /\ MemState(p, s).blocked = mem.blocked
  <1> DEFINE f == Put(mem.states, p, s)
             x == [mem EXCEPT !.states = f]
  <1>1. mem \in MemType /\ mem.states \in Partial(PlanSet, States)
    BY DEF MigrationInv, TypesInv, MemType
  <1>2. /\ f \in Partial(PlanSet, States) /\ DOMAIN f = DOMAIN mem.states \cup {p}
        /\ f[p] = s /\ \A q \in DOMAIN mem.states : q # p => f[q] = mem.states[q]
    <2> DEFINE g == mem.states
    <2>1. f = Put(g, p, s) /\ g \in Partial(PlanSet, States)
      BY <1>1
    <2> HIDE DEF f, g
    <2>2. QED
      BY <2>1, StatesPut DEF g
  <1> HIDE DEF f
  <1>3. x \in MemType /\ x.states = f /\ x.completed = mem.completed /\ x.blocked = mem.blocked
    BY <1>1, <1>2 DEF MemType
  <1>4. MemState(p, s) = x
    BY DEF MemState, f
  <1>5. QED
    BY <1>2, <1>3, <1>4

\* A plan that is known to be complete is given up in memory: nothing else changes.
LEMMA GivenUp ==
    ASSUME MigrationInv, NEW p \in DOMAIN mem.states, UnfinishedBlocks(Idle),
           op' = Idle, mem' = mem \/ mem' = MemState(p, "blocked"),
           UNCHANGED <<docs, wrote, edits, subject, journal, jopen, crashes>>,
           faults' \in 0 .. MaxFaults
    PROVE  MigrationInv'
  <1>1. p \in PlanSet /\ mem \in MemType
    BY PartialIs DEF MigrationInv, TypesInv, MemType
  <1>2. /\ mem' \in MemType /\ DOMAIN mem'.states = DOMAIN mem.states
        /\ mem'.completed = mem.completed /\ mem'.blocked = mem.blocked
        /\ \A q \in DOMAIN mem.states : mem'.states[q] \in {mem.states[q], "blocked"}
    <2>1. CASE mem' = mem
      BY <1>1, <2>1
    <2>2. CASE mem' = MemState(p, "blocked")
      <3>1. "blocked" \in States
        BY DEF States
      <3>2. /\ MemState(p, "blocked") \in MemType
            /\ DOMAIN MemState(p, "blocked").states = DOMAIN mem.states \cup {p}
            /\ MemState(p, "blocked").states[p] = "blocked"
            /\ \A q \in DOMAIN mem.states : q # p => MemState(p, "blocked").states[q] = mem.states[q]
            /\ MemState(p, "blocked").completed = mem.completed
            /\ MemState(p, "blocked").blocked = mem.blocked
        BY <1>1, <3>1, MemStateIs
      <3>3. QED
        BY <2>2, <3>2
    <2>3. QED
      BY <2>1, <2>2
  <1>3. TypesInv'
    BY <1>2 DEF MigrationInv, TypesInv
  <1>4. WorldInv'
    BY WorldStays
  <1>5. PlansArePast'
    BY <1>2 DEF MigrationInv, PlansArePast, MadeOfThePast
  <1>6. CompletedIsKnown'
    <2>1. /\ DOMAIN mem.completed \subseteq DOMAIN mem.states
          /\ jopen => \A q \in Completed(journal) :
                          q \in DOMAIN mem.states /\ mem.states[q] \in {"complete", "blocked"}
      BY DEF MigrationInv, CompletedIsKnown
    <2>2. QED
      BY <1>2, <2>1 DEF CompletedIsKnown
  <1>7. UnfinishedBlocks(op)'
    BY <1>2 DEF UnfinishedBlocks, Idle
  <1>8. OpInv(op)'
    BY DEF OpInv, Idle
  <1>9. QED
    BY <1>3, <1>4, <1>5, <1>6, <1>7, <1>8 DEF MigrationInv

\* An inventory that raised, outside of a replay.
LEMMA FetchRaisedStep ==
    ASSUME MigrationInv, op.kind # "idle", op.stage \in {"preflight", "verify", "inventory"},
           op' = FetchRaised,
           UNCHANGED <<docs, wrote, edits, subject, journal, jopen, mem, crashes>>,
           faults' \in 0 .. MaxFaults
    PROVE  MigrationInv'
  <1>1. op \in OpType /\ OpInv(op) /\ op.kind \in {"apply", "recover"}
    BY OpIs DEF MigrationInv
  <1>2. /\ op.kind = "apply" => op.attempted \subseteq ChangesOf(op.plan)
        /\ op.kind = "apply" => \A d \in DOMAIN op.seen : Past(op.seen[d], d)
    BY SeenIs
  <1>3. CASE op.stage = "preflight"
    <2> DEFINE x == [op EXCEPT !.stage = "stale"]
    <2>1. "stale" \in Reading \cup Writing
      BY DEF Reading
    <2>2. /\ x \in OpType /\ x.kind = op.kind /\ x.plan = op.plan /\ x.originals = op.originals
          /\ x.attempted = op.attempted /\ x.stage = "stale" /\ x.seen = op.seen
      BY <1>1, <2>1 DEF OpType
    <2>3. op' = x
      BY <1>3 DEF FetchRaised
    <2> HIDE DEF x
    <2>4. op.kind = "apply"
      BY <1>1, <1>3 DEF OpInv, RecoverInv, Restoration
    <2>5. ApplyInv(x)
      BY <1>1, <1>3, <2>2 DEF OpInv, ApplyInv, Writing, Restoration
    <2>6. RecoverInv(x) /\ OriginalsInv(x) /\ TodoInv(x) /\ StageInv(x)
      BY <2>2, <2>4 DEF RecoverInv, OriginalsInv, TodoInv, StageInv, Writing, Restoration
    <2>7. UnfinishedBlocks(x)
      BY <1>3 DEF MigrationInv, UnfinishedBlocks, Writing, Restoration
    <2>8. QED
      BY <2>2, <2>3, <2>5, <2>6, <2>7, OpMoves DEF OpInv
  <1>4. CASE op.stage = "verify"
    <2>1. op.kind = "apply" /\ op.stage \in Writing \ {"settle"}
      BY <1>1, <1>4 DEF OpInv, RecoverInv, Restoration, Writing
    <2>2. op' = Restoring(op.attempted)
      BY <1>4 DEF FetchRaised
    <2>3. QED
      BY <1>2, <2>1, <2>2, RestoringStep
  <1>5. CASE op.stage = "inventory"
    <2> DEFINE x == [op EXCEPT !.stage = "settle", !.failed = TRUE]
    <2>1. "settle" \in Reading \cup Writing /\ TRUE \in BOOLEAN
      BY DEF Writing, Restoration
    <2>2. /\ x \in OpType /\ x.kind = op.kind /\ x.plan = op.plan /\ x.originals = op.originals
          /\ x.attempted = op.attempted /\ x.stage = "settle" /\ x.seen = op.seen
          /\ x.failed = TRUE
      BY <1>1, <2>1 DEF OpType
    <2>3. op' = x
      BY <1>5 DEF FetchRaised
    <2> HIDE DEF x
    <2>4. /\ x.stage \in Writing /\ x.stage \in Restoration /\ op.stage \in Writing \ {"settle"}
          /\ TodoInv(x) /\ StageInv(x)
      BY <1>5, <2>2 DEF Writing, Restoration, TodoInv, StageInv
    <2>5. QED
      BY <1>2, <2>2, <2>3, <2>4, StageMoves
  <1>6. QED
    BY <1>3, <1>4, <1>5

\* A replay has nothing unfinished of its own.
LEMMA ReplayFacts ==
    ASSUME MigrationInv, op.kind # "idle", op.stage \in {"replay", "stale", "preflight"}
    PROVE  /\ op.kind = "apply" /\ op.plan \in DOMAIN mem.states /\ ~mem.blocked
           /\ UnfinishedBlocks(Idle) /\ op \in OpType /\ op.plan \in PlanSet
  <1>1. OpInv(op) /\ op.kind \in {"apply", "recover"} /\ op \in OpType /\ op.plan \in PlanSet
    BY OpIs DEF MigrationInv
  <1>2. op.kind = "apply"
    BY <1>1 DEF OpInv, RecoverInv, Restoration
  <1>3. op.plan \in DOMAIN mem.states /\ ~mem.blocked
    BY <1>1, <1>2 DEF OpInv, ApplyInv
  <1>4. UnfinishedBlocks(Idle)
    BY DEF MigrationInv, UnfinishedBlocks, Writing, Restoration
  <1>5. QED
    BY <1>1, <1>2, <1>3, <1>4

LEMMA FetchDocumentStep == ASSUME MigrationInv, FetchDocument PROVE MigrationInv'
  <1>1. /\ op.kind # "idle" /\ op.stage \in {"preflight", "verify", "inventory", "replay"}
        /\ op.todo # {}
        /\ UNCHANGED <<docs, wrote, edits, subject, journal, jopen, crashes>>
    BY DEF FetchDocument
  <1>2. CASE ProviderRaises /\ op' = FetchRaised /\ op.stage # "replay" /\ mem' = mem
    <2>1. faults' \in 0 .. MaxFaults
      BY <1>2, FaultsCounted
    <2>2. QED
      BY <1>1, <1>2, <2>1, FetchRaisedStep
  <1>3. CASE /\ ProviderRaises /\ op' = FetchRaised /\ op.stage = "replay"
             /\ mem' = MemState(op.plan, "blocked")
    <2>1. faults' \in 0 .. MaxFaults
      BY <1>3, FaultsCounted
    <2>2. op' = Idle
      BY <1>3 DEF FetchRaised
    <2>3. op.plan \in DOMAIN mem.states /\ UnfinishedBlocks(Idle)
      BY <1>1, <1>3, ReplayFacts
    <2>4. QED
      BY <1>1, <1>3, <2>1, <2>2, <2>3, GivenUp
  <1>4. CASE /\ op' = [op EXCEPT !.todo = @ \ {Min(op.todo)},
                                 !.seen = IF docs[Min(op.todo)].here
                                          THEN Put(@, Min(op.todo), docs[Min(op.todo)]) ELSE @]
             /\ mem' = mem /\ faults' = faults
    BY <1>1, <1>4, ReadStep
  <1>5. QED
    BY <1>2, <1>3, <1>4 DEF FetchDocument

LEMMA ReplayCompletedStep == ASSUME MigrationInv, ReplayCompleted PROVE MigrationInv'
  <1>1. /\ op.kind # "idle" /\ op.stage = "replay" /\ op' = Idle
        /\ UNCHANGED <<docs, wrote, edits, subject, journal, jopen, crashes>>
        /\ mem' = mem \/ mem' = MemState(op.plan, "blocked")
        /\ faults' \in 0 .. MaxFaults
    BY DEF ReplayCompleted, InStage, MigrationInv, TypesInv
  <1>2. op.plan \in DOMAIN mem.states /\ UnfinishedBlocks(Idle)
    BY <1>1, ReplayFacts
  <1>3. QED
    BY <1>1, <1>2, GivenUp

\* An operation of apply that has not read anything.
Begun(p, s, D) == [kind |-> "apply", plan |-> p, stage |-> s, todo |-> D, seen |-> <<>>,
                   originals |-> <<>>, attempted |-> {}, failed |-> FALSE, rev |-> 0]

LEMMA FetchingBegun ==
    ASSUME NEW p, NEW s, NEW D
    PROVE  Fetching(Begun(p, "stale", {}), s, D) = Begun(p, s, D)
  <1> DEFINE o == Begun(p, "stale", {})
  <1>1. Fetching(o, s, D) = [o EXCEPT !.stage = s, !.todo = D, !.seen = <<>>]
    BY DEF Fetching
  <1>2. QED
    BY <1>1 DEF Begun

\* An application begins with a plan it knows, which is complete or nobody completed.
LEMMA ApplyStep ==
    ASSUME MigrationInv, NEW p \in DOMAIN mem.states, Apply(p)
    PROVE  MigrationInv'
  <1> DEFINE stage == IF mem.states[p] = "complete" THEN "replay" ELSE "preflight"
             begun == [kind |-> "apply", plan |-> p, stage |-> "stale", todo |-> {},
                       seen |-> <<>>, originals |-> <<>>, attempted |-> {},
                       failed |-> FALSE, rev |-> 0]
  <1>1. /\ op = Idle /\ ~mem.blocked /\ mem.states[p] \in {"planned", "failed", "complete"}
        /\ UNCHANGED <<docs, wrote, edits, subject, journal, jopen, faults, crashes>>
    BY DEF Apply
  <1>2. faults' \in 0 .. MaxFaults /\ UnfinishedBlocks(Idle) /\ p \in PlanSet
    BY <1>1, PartialIs DEF MigrationInv, TypesInv, MemType
  <1>3. jopen => p \notin Completed(journal) \/ mem.states[p] = "complete"
    BY <1>1 DEF MigrationInv, CompletedIsKnown
  <1>4. CASE op' = Idle
    BY <1>1, <1>2, <1>4, GivenUp DEF Apply
  <1>5. CASE /\ mem' = mem
             /\ \/ op' = Fetching(begun, stage, Documents)
                \/ mem.states[p] # "complete" /\ op' = begun
    <2>0. /\ begun = Begun(p, "stale", {})
          /\ Fetching(begun, stage, Documents) = Begun(p, stage, Documents)
      BY FetchingBegun DEF Begun
    <2> HIDE DEF begun
    <2>1. PICK s \in {"preflight", "replay", "stale"}, D \in SUBSET Documents :
              op' = Begun(p, s, D) /\ (s # "replay" => mem.states[p] # "complete")
      BY <1>5, <2>0
    <2> DEFINE x == [kind |-> "apply", plan |-> p, stage |-> s, todo |-> D,
                     seen |-> <<>>, originals |-> <<>>, attempted |-> {},
                     failed |-> FALSE, rev |-> 0]
    <2>2. s \in Reading \cup Writing /\ <<>> \in Found /\ DOMAIN <<>> = {} /\ 0 \in Nat
          /\ s \notin Writing
      BY NothingIsPartial DEF Reading, Writing, Restoration, Found
    <2>3. x \in OpType
      BY <1>2, <2>2 DEF OpType
    <2>4. /\ x.kind = "apply" /\ x.plan = p /\ x.stage = s /\ DOMAIN x.seen = {}
          /\ DOMAIN x.originals = {} /\ x.attempted = {}
      BY <2>2
    <2>5. op' = x
      BY <2>1 DEF Begun
    <2> HIDE DEF x
    <2>6. ApplyInv(x)
      BY <1>1, <1>3, <2>1, <2>2, <2>4 DEF ApplyInv
    <2>7. RecoverInv(x) /\ OriginalsInv(x) /\ TodoInv(x) /\ StageInv(x)
      BY <2>2, <2>4 DEF RecoverInv, OriginalsInv, TodoInv, StageInv
    <2>8. UnfinishedBlocks(x)
      BY <1>2, <2>4 DEF UnfinishedBlocks, Idle
    <2>9. QED
      BY <1>1, <1>2, <1>5, <2>3, <2>5, <2>6, <2>7, <2>8, OpMoves DEF OpInv
  <1>6. \/ op' = Idle
        \/ mem' = mem /\ op' = Fetching(begun, stage, Documents)
        \/ mem' = mem /\ mem.states[p] # "complete" /\ op' = begun
    <2>1. CASE mem.states[p] = "complete"
      BY <2>1 DEF Apply
    <2>2. CASE mem.states[p] # "complete"
      <3>1. stage = "preflight"
        BY <2>2
      <3>2. QED
        BY <2>2, <3>1 DEF Apply
    <2>3. QED
      BY <2>1, <2>2
  <1>7. QED
    BY <1>4, <1>5, <1>6

\* A recovery begins with what the journal holds of its plan, and that is all the plan wrote.
LEMMA RecoverStep ==
    ASSUME MigrationInv, NEW p \in DOMAIN journal.states, Recover(p)
    PROVE  MigrationInv'
  <1> DEFINE originals == IF p \in DOMAIN journal.originals THEN journal.originals[p] ELSE <<>>
             x == [kind |-> "recover", plan |-> p, stage |-> "restore",
                   todo |-> DOMAIN originals, seen |-> <<>>, originals |-> originals,
                   attempted |-> DOMAIN originals, failed |-> FALSE, rev |-> 0]
  <1>1. /\ op = Idle /\ jopen /\ p \in Incomplete(journal) /\ op' = x
        /\ UNCHANGED <<docs, wrote, edits, subject, journal, jopen, mem, faults, crashes>>
    BY DEF Recover
  <1>2. /\ faults' \in 0 .. MaxFaults /\ p \in PlanSet /\ journal \in JournalType
        /\ <<>> \in Found /\ DOMAIN <<>> = {}
    BY <1>1, JournalIs, NothingIsPartial DEF MigrationInv, TypesInv, Found
  <1>3. originals \in Found /\ DOMAIN originals \in SUBSET Documents
    <2>1. originals \in Found
      BY <1>2, JournalIs
    <2>2. QED
      BY <2>1, FoundIs
  <1>4. /\ DOMAIN originals \subseteq ChangesOf(p)
        /\ \A d \in DOMAIN originals : Content(originals[d]) = Content(p.docs[d])
    BY <1>2 DEF MigrationInv, WorldInv, JournalHolds
  <1>5. \A d \in Documents : Wrote(d, p) => d \in DOMAIN originals
    BY <1>1 DEF MigrationInv, WorldInv, WritesAreRecoverable, Wrote, Incomplete
  <1>6. mem.blocked
    BY <1>1 DEF MigrationInv, UnfinishedBlocks, Idle
  <1> HIDE DEF originals
  <1>7. /\ x \in OpType /\ x.kind = "recover" /\ x.plan = p /\ x.stage = "restore"
        /\ x.todo = DOMAIN originals /\ x.originals = originals
    <2>1. "restore" \in Reading \cup Writing /\ 0 \in Nat
      BY DEF Writing, Restoration
    <2>2. QED
      BY <1>2, <1>3, <2>1 DEF OpType
  <1> HIDE DEF x
  <1>8. ApplyInv(x) /\ TodoInv(x) /\ StageInv(x) /\ OriginalsInv(x)
    BY <1>4, <1>7 DEF ApplyInv, TodoInv, StageInv, OriginalsInv
  <1>9. RecoverInv(x)
    BY <1>1, <1>4, <1>5, <1>6, <1>7 DEF RecoverInv, Restoration
  <1>10. UnfinishedBlocks(x)
    BY <1>6 DEF UnfinishedBlocks
  <1>11. QED
    BY <1>1, <1>2, <1>7, <1>8, <1>9, <1>10, OpMoves DEF OpInv

-----------------------------------------------------------------------------
(* Calls of the journal. *)

\* A call that persists j returned, raised, or found the journal closed.
Stored(j) ==
    \/ jopen /\ jopen' = jopen /\ journal' = j /\ faults' = faults
    \/ jopen /\ jopen' = FALSE /\ journal' \in {journal, j} /\ faults < MaxFaults /\ faults' = faults + 1
    \/ ~jopen /\ jopen' = jopen /\ journal' = journal /\ faults' = faults

UnfinishedStates == {"applying", "blocked"}

\* What setting a state in the journal changes.
LEMMA SetStateIs ==
    ASSUME MigrationInv, NEW p \in PlanSet, NEW s \in States
    PROVE  /\ SetState(p, s) \in JournalType
           /\ DOMAIN SetState(p, s).states = DOMAIN journal.states \cup {p}
           /\ SetState(p, s).states[p] = s
           /\ \A q \in DOMAIN journal.states :
                  q # p => SetState(p, s).states[q] = journal.states[q]
           /\ SetState(p, s).originals = journal.originals
           /\ SetState(p, s).completions = journal.completions
  <1> DEFINE f == Put(journal.states, p, s)
             x == [journal EXCEPT !.states = f]
             g == journal.states
  <1>1. journal \in JournalType /\ g \in Partial(PlanSet, States)
    BY DEF MigrationInv, TypesInv, JournalType
  <1>2. /\ f \in Partial(PlanSet, States) /\ DOMAIN f = DOMAIN g \cup {p}
        /\ f[p] = s /\ \A q \in DOMAIN g : q # p => f[q] = g[q]
    <2>1. f = Put(g, p, s)
      OBVIOUS
    <2> HIDE DEF f, g
    <2>2. QED
      BY <1>1, <2>1, StatesPut
  <1> HIDE DEF f
  <1>3. /\ x \in JournalType /\ x.states = f /\ x.originals = journal.originals
        /\ x.completions = journal.completions
    BY <1>1, <1>2 DEF JournalType
  <1>4. SetState(p, s) = x
    BY DEF SetState, f
  <1>5. QED
    BY <1>2, <1>3, <1>4

\* The unfinished and the completed plans once the state of a plan is set.
LEMMA SetStateSets ==
    ASSUME MigrationInv, NEW p \in PlanSet, NEW s \in States, s # "complete",
           p \notin Completed(journal)
    PROVE  /\ Completed(SetState(p, s)) = Completed(journal)
           /\ s \in UnfinishedStates => Incomplete(SetState(p, s)) = Incomplete(journal) \cup {p}
           /\ s \notin UnfinishedStates => Incomplete(SetState(p, s)) = Incomplete(journal) \ {p}
  <1> DEFINE j == SetState(p, s)
  <1>1. /\ DOMAIN j.states = DOMAIN journal.states \cup {p} /\ j.states[p] = s
        /\ \A q \in DOMAIN journal.states : q # p => j.states[q] = journal.states[q]
        /\ j.completions = journal.completions
    BY SetStateIs
  <1> HIDE DEF j
  <1>2. Completed(j) = Completed(journal)
    BY <1>1 DEF Completed
  <1>3. s \in UnfinishedStates => Incomplete(j) = Incomplete(journal) \cup {p}
    BY <1>1 DEF Incomplete, UnfinishedStates
  <1>4. s \notin UnfinishedStates => Incomplete(j) = Incomplete(journal) \ {p}
    BY <1>1 DEF Incomplete, UnfinishedStates
  <1>5. QED
    BY <1>2, <1>3, <1>4 DEF j

\* Nobody completed the plan, and if the state is a final one nothing of the plan stands.
LEMMA StateSet ==
    ASSUME MigrationInv, NEW p \in PlanSet, NEW s \in States, s # "complete",
           p \notin Completed(journal),
           s \in UnfinishedStates => \A d \in ChangesOf(p) : Younger(p.docs[d].edit, d),
           s \notin UnfinishedStates => \A d \in Documents : ~Wrote(d, p),
           journal' = SetState(p, s), UNCHANGED <<docs, wrote, edits>>
    PROVE  WorldInv'
  <1>1. /\ DOMAIN journal'.states = DOMAIN journal.states \cup {p} /\ journal'.states[p] = s
        /\ \A q \in DOMAIN journal.states : q # p => journal'.states[q] = journal.states[q]
        /\ journal'.completions = journal.completions /\ journal'.originals = journal.originals
    BY SetStateIs
  <1>2. /\ Completed(journal') = Completed(journal)
        /\ s \in UnfinishedStates => Incomplete(journal') = Incomplete(journal) \cup {p}
        /\ s \notin UnfinishedStates => Incomplete(journal') = Incomplete(journal) \ {p}
    BY SetStateSets
  <1>3. JournalHolds /\ UnfinishedIsYounger /\ WritesStand /\ WritesAreRecoverable
        /\ CompletedStaysApplied
    BY DEF MigrationInv, WorldInv
  <1>4. JournalHolds'
    BY <1>1, <1>3 DEF JournalHolds
  <1>5. UnfinishedIsYounger'
    BY <1>2, <1>3 DEF UnfinishedIsYounger, Younger
  <1>6. WritesStand' /\ CompletedStaysApplied'
    BY <1>2, <1>3 DEF WritesStand, CompletedStaysApplied
  <1>7. WritesAreRecoverable'
    <2>1. SUFFICES ASSUME NEW d \in Documents, wrote[d] # NoPlan
                   PROVE  /\ wrote[d] \in DOMAIN journal'.states
                          /\ \/ journal'.states[wrote[d]] = "complete"
                             \/ /\ wrote[d] \in Incomplete(journal')
                                /\ wrote[d] \in DOMAIN journal'.originals
                                /\ d \in DOMAIN journal'.originals[wrote[d]]
                                /\ Content(journal'.originals[wrote[d]][d])
                                      = Content(wrote[d].docs[d])
      BY DEF WritesAreRecoverable
    <2>2. /\ wrote[d] \in DOMAIN journal.states
          /\ \/ journal.states[wrote[d]] = "complete"
             \/ /\ wrote[d] \in Incomplete(journal)
                /\ wrote[d] \in DOMAIN journal.originals
                /\ d \in DOMAIN journal.originals[wrote[d]]
                /\ Content(journal.originals[wrote[d]][d]) = Content(wrote[d].docs[d])
      BY <1>3, <2>1 DEF WritesAreRecoverable
    <2>3. CASE wrote[d] = p
      <3>1. s \in UnfinishedStates
        BY <2>1, <2>3 DEF Wrote
      <3>2. journal.states[wrote[d]] # "complete"
        BY <1>3, <2>2, <2>3 DEF JournalHolds, Completed
      <3>3. QED
        BY <1>1, <1>2, <2>2, <2>3, <3>1, <3>2
    <2>4. CASE wrote[d] # p
      <3>1. wrote[d] \in Incomplete(journal) => wrote[d] \in Incomplete(journal')
        BY <1>2, <2>4
      <3>2. QED
        BY <1>1, <2>2, <2>4, <3>1
    <2>5. QED
      BY <2>3, <2>4
  <1>8. QED
    BY <1>4, <1>5, <1>6, <1>7 DEF WorldInv

\* A state that was set, or of which that is unknown.
LEMMA StateStored ==
    ASSUME MigrationInv, NEW p \in PlanSet, NEW s \in States, s # "complete",
           jopen => /\ p \notin Completed(journal)
                    /\ s \in UnfinishedStates => \A d \in ChangesOf(p) : Younger(p.docs[d].edit, d)
                    /\ s \notin UnfinishedStates => \A d \in Documents : ~Wrote(d, p),
           Stored(SetState(p, s)), UNCHANGED <<docs, wrote, edits>>
    PROVE  /\ WorldInv' /\ journal' \in JournalType /\ jopen' \in BOOLEAN
           /\ faults' \in 0 .. MaxFaults
           /\ DOMAIN journal'.states \subseteq DOMAIN journal.states \cup {p}
           /\ jopen' => /\ jopen /\ journal' = SetState(p, s)
                        /\ Completed(journal') = Completed(journal)
                        /\ s \in UnfinishedStates =>
                               Incomplete(journal') = Incomplete(journal) \cup {p}
                        /\ s \notin UnfinishedStates =>
                               Incomplete(journal') = Incomplete(journal) \ {p}
  <1>1. journal \in JournalType /\ jopen \in BOOLEAN /\ faults \in 0 .. MaxFaults
    BY DEF MigrationInv, TypesInv
  <1>2. faults' \in 0 .. MaxFaults
    BY <1>1, MigrationConstants DEF Stored
  <1>3. jopen' \in BOOLEAN
    BY <1>1 DEF Stored
  <1>4. CASE journal' = journal /\ ~jopen'
    BY <1>1, <1>2, <1>3, <1>4, WorldStays
  <1>5. CASE jopen /\ journal' = SetState(p, s)
    <2>1. WorldInv'
      BY <1>5, StateSet
    <2>2. SetState(p, s) \in JournalType /\ DOMAIN SetState(p, s).states = DOMAIN journal.states \cup {p}
      BY SetStateIs
    <2>3. /\ Completed(SetState(p, s)) = Completed(journal)
          /\ s \in UnfinishedStates => Incomplete(SetState(p, s)) = Incomplete(journal) \cup {p}
          /\ s \notin UnfinishedStates => Incomplete(SetState(p, s)) = Incomplete(journal) \ {p}
      BY <1>5, SetStateSets
    <2>4. QED
      BY <1>2, <1>3, <1>5, <2>1, <2>2, <2>3
  <1>6. QED
    BY <1>4, <1>5 DEF Stored

\* The coordinator is idle after a journal call that set the state of a plan.
LEMMA IdleAfterStore ==
    ASSUME MigrationInv, NEW p \in PlanSet, NEW s \in States, s # "complete", MadeOfThePast(p),
           jopen => /\ p \notin Completed(journal)
                    /\ s \in UnfinishedStates => \A d \in ChangesOf(p) : Younger(p.docs[d].edit, d)
                    /\ s \notin UnfinishedStates => \A d \in Documents : ~Wrote(d, p),
           Stored(SetState(p, s)), UNCHANGED <<docs, wrote, edits, subject, crashes>>,
           op' = Idle, mem' \in MemType,
           DOMAIN mem'.states \subseteq DOMAIN mem.states \cup {p},
           \A q \in DOMAIN mem.states :
               q # p => q \in DOMAIN mem'.states /\ mem'.states[q] = mem.states[q],
           DOMAIN mem'.completed \subseteq DOMAIN mem'.states,
           jopen' => mem'.blocked \/ Incomplete(journal') = {}
    PROVE  MigrationInv'
  <1>1. /\ WorldInv' /\ journal' \in JournalType /\ jopen' \in BOOLEAN
        /\ faults' \in 0 .. MaxFaults
        /\ DOMAIN journal'.states \subseteq DOMAIN journal.states \cup {p}
        /\ jopen' => jopen /\ Completed(journal') = Completed(journal)
    BY StateStored
  <1>2. TypesInv'
    BY <1>1 DEF MigrationInv, TypesInv
  <1>3. PlansArePast'
    BY <1>1 DEF MigrationInv, PlansArePast, MadeOfThePast
  <1>4. CompletedIsKnown'
    <2>1. jopen => /\ p \notin Completed(journal)
                   /\ \A q \in Completed(journal) :
                          q \in DOMAIN mem.states /\ mem.states[q] \in {"complete", "blocked"}
      BY DEF MigrationInv, CompletedIsKnown
    <2>2. QED
      BY <1>1, <2>1 DEF CompletedIsKnown
  <1>5. UnfinishedBlocks(op)'
    BY DEF UnfinishedBlocks
  <1>6. OpInv(op)'
    BY DEF OpInv, Idle
  <1>7. QED
    BY <1>1, <1>2, <1>3, <1>4, <1>5, <1>6 DEF MigrationInv

\* A coordinator that is free to plan and to apply has nothing unfinished, and what a plan
\* wrote is complete.
LEMMA NothingUnfinished ==
    ASSUME MigrationInv, UnfinishedBlocks(Idle), ~mem.blocked, jopen
    PROVE  /\ Incomplete(journal) = {}
           /\ \A p : p \notin Completed(journal) => \A d \in Documents : ~Wrote(d, p)
  <1>1. Incomplete(journal) = {}
    BY DEF UnfinishedBlocks, Idle
  <1>2. QED
    BY <1>1 DEF MigrationInv, WorldInv, WritesAreRecoverable, Wrote, JournalHolds, Completed

\* A plan is a digest of what is there.
LEMMA PlanOfIs ==
    ASSUME MigrationInv, NEW expected \in BOOLEAN
    PROVE  PlanOf(expected) \in PlanSet /\ MadeOfThePast(PlanOf(expected))
  <1> DEFINE f == [d \in Inventory |->
                      [rev |-> docs[d].rev, edit |-> docs[d].edit, ref |-> docs[d].ref]]
  <1>1. Inventory \subseteq Documents
    BY DEF Inventory
  <1>2. \A d \in Documents : docs[d] \in Doc /\ docs[d].edit <= edits
    BY DEF MigrationInv, TypesInv, WorldInv, WritesStand
  <1>3. f \in [Inventory -> PlanDoc] /\ DOMAIN f = Inventory
    BY <1>1, <1>2, DocIs DEF PlanDoc
  <1>4. \A d \in DOMAIN f : f[d].edit <= edits
    BY <1>1, <1>2
  <1>5. f \in Partial(Documents, PlanDoc)
    BY <1>1, <1>3, IsPartial
  <1>6. PlanOf(expected) = [subject |-> subject, expected |-> expected, docs |-> f]
    BY DEF PlanOf
  <1> HIDE DEF f
  <1>7. subject \in Nat
    BY MigrationConstants DEF MigrationInv, TypesInv
  <1>8. QED
    BY <1>4, <1>5, <1>6, <1>7 DEF PlanSet, MadeOfThePast

LEMMA CreatePlanStep ==
    ASSUME MigrationInv, NEW expected \in BOOLEAN, CreatePlan(expected)
    PROVE  MigrationInv'
  <1> DEFINE p == PlanOf(expected)
  <1>1. /\ op = Idle /\ ~mem.blocked /\ p \notin DOMAIN mem.states
        /\ mem' = MemState(p, "planned") /\ Stored(SetState(p, "planned"))
        /\ UNCHANGED <<docs, wrote, edits, subject, op, crashes>>
    BY DEF CreatePlan, Persist, Stored
  <1>2. p \in PlanSet /\ MadeOfThePast(p)
    BY PlanOfIs
  <1> HIDE DEF p
  <1>3. "planned" \in States /\ "planned" # "complete" /\ "planned" \notin UnfinishedStates
    BY DEF States, UnfinishedStates
  <1>4. /\ mem' \in MemType /\ DOMAIN mem'.states = DOMAIN mem.states \cup {p}
        /\ \A q \in DOMAIN mem.states : q # p => mem'.states[q] = mem.states[q]
        /\ mem'.completed = mem.completed
    BY <1>1, <1>2, <1>3, MemStateIs
  <1>5. jopen => /\ p \notin Completed(journal) /\ Incomplete(journal) = {}
                 /\ \A d \in Documents : ~Wrote(d, p)
    <2>1. UnfinishedBlocks(Idle)
      BY <1>1 DEF MigrationInv
    <2>2. jopen => p \notin Completed(journal)
      BY <1>1 DEF MigrationInv, CompletedIsKnown
    <2>3. QED
      BY <1>1, <2>1, <2>2, NothingUnfinished
  <1>6. jopen' => Incomplete(journal') = {}
    <2>1. jopen' => jopen /\ Incomplete(journal') = Incomplete(journal) \ {p}
      BY <1>1, <1>2, <1>3, <1>5, StateStored
    <2>2. QED
      BY <1>5, <2>1
  <1>7. /\ DOMAIN mem'.completed \subseteq DOMAIN mem'.states /\ op' = Idle
        /\ DOMAIN mem'.states \subseteq DOMAIN mem.states \cup {p}
        /\ \A q \in DOMAIN mem.states :
               q # p => q \in DOMAIN mem'.states /\ mem'.states[q] = mem.states[q]
    BY <1>1, <1>4 DEF MigrationInv, CompletedIsKnown
  <1>8. QED
    BY <1>1, <1>2, <1>3, <1>4, <1>5, <1>6, <1>7, IdleAfterStore

\* An application that has not written knows its plan, which is not complete and stands nowhere.
LEMMA UnwrittenFacts ==
    ASSUME MigrationInv, op.kind # "idle", op.stage \in {"preflight", "stale"}
    PROVE  /\ op.plan \in PlanSet /\ MadeOfThePast(op.plan)
           /\ op.plan \in DOMAIN mem.states /\ ~mem.blocked
           /\ jopen => /\ op.plan \notin Completed(journal) /\ Incomplete(journal) = {}
                       /\ \A d \in Documents : ~Wrote(d, op.plan)
  <1>1. /\ op.plan \in PlanSet /\ op.plan \in DOMAIN mem.states /\ ~mem.blocked
        /\ UnfinishedBlocks(Idle) /\ op.kind = "apply" /\ OpInv(op)
    BY ReplayFacts DEF MigrationInv
  <1>2. MadeOfThePast(op.plan)
    BY <1>1 DEF MigrationInv, PlansArePast
  <1>3. jopen => op.plan \notin Completed(journal)
    BY <1>1 DEF OpInv, ApplyInv
  <1>4. QED
    BY <1>1, <1>2, <1>3, NothingUnfinished

\* A stale plan is failed in the journal and dead in memory.
LEMMA RejectStaleStep == ASSUME MigrationInv, RejectStale PROVE MigrationInv'
  <1> DEFINE p == op.plan
  <1>1. /\ op.kind # "idle" /\ op.stage = "stale" /\ op' = Idle
        /\ mem' = MemState(p, "blocked") /\ Stored(SetState(p, "failed"))
        /\ UNCHANGED <<docs, wrote, edits, subject, crashes>>
    BY DEF RejectStale, InStage, Persist, Stored
  <1>2. /\ p \in PlanSet /\ MadeOfThePast(p) /\ p \in DOMAIN mem.states /\ ~mem.blocked
        /\ jopen => /\ p \notin Completed(journal) /\ Incomplete(journal) = {}
                    /\ \A d \in Documents : ~Wrote(d, p)
    BY <1>1, UnwrittenFacts
  <1> HIDE DEF p
  <1>3. /\ "failed" \in States /\ "failed" # "complete" /\ "failed" \notin UnfinishedStates
        /\ "blocked" \in States
    BY DEF States, UnfinishedStates
  <1>4. /\ mem' \in MemType /\ DOMAIN mem'.states = DOMAIN mem.states \cup {p}
        /\ \A q \in DOMAIN mem.states : q # p => mem'.states[q] = mem.states[q]
        /\ mem'.completed = mem.completed
    BY <1>1, <1>2, <1>3, MemStateIs
  <1>5. jopen' => Incomplete(journal') = {}
    <2>1. jopen' => jopen /\ Incomplete(journal') = Incomplete(journal) \ {p}
      BY <1>1, <1>2, <1>3, StateStored
    <2>2. QED
      BY <1>2, <2>1
  <1>6. /\ DOMAIN mem'.completed \subseteq DOMAIN mem'.states
        /\ DOMAIN mem'.states \subseteq DOMAIN mem.states \cup {p}
        /\ \A q \in DOMAIN mem.states :
               q # p => q \in DOMAIN mem'.states /\ mem'.states[q] = mem.states[q]
    BY <1>4 DEF MigrationInv, CompletedIsKnown
  <1>7. QED
    BY <1>1, <1>2, <1>3, <1>4, <1>5, <1>6, IdleAfterStore

\* The state a failed application ends in: blocked unless nothing of it stands.
LEMMA SettleApplyStep == ASSUME MigrationInv, SettleApply PROVE MigrationInv'
  <1> DEFINE p == op.plan
             s == IF op.failed THEN "blocked" ELSE "failed"
  <1>1. /\ op.kind = "apply" /\ op.stage = "settle" /\ op' = Idle
        /\ mem' = [MemState(p, s) EXCEPT !.blocked = @ \/ op.failed] /\ Stored(SetState(p, s))
        /\ UNCHANGED <<docs, wrote, edits, subject, crashes>>
    BY DEF SettleApply, InStage, Persist, Stored
  <1>2. p \in PlanSet /\ op.failed \in BOOLEAN /\ OpInv(op)
    BY <1>1, OpIs DEF MigrationInv
  <1>3. /\ s \in States /\ s # "complete" /\ s \in {"blocked", "failed"}
        /\ s \in UnfinishedStates <=> op.failed
    BY <1>2 DEF States, UnfinishedStates
  <1>4. /\ p \in DOMAIN mem.states /\ ~mem.blocked
        /\ jopen => /\ p \notin Completed(journal) /\ p \in Incomplete(journal)
                    /\ Incomplete(journal) \subseteq {p}
    <2>1. /\ p \in DOMAIN mem.states /\ ~mem.blocked
          /\ jopen => p \notin Completed(journal) /\ p \in DOMAIN journal.states
                         /\ journal.states[p] = "applying"
      BY <1>1, <1>2 DEF OpInv, ApplyInv, Writing, Restoration
    <2>2. jopen => Incomplete(journal) \subseteq {p}
      BY <2>1 DEF MigrationInv, UnfinishedBlocks
    <2>3. QED
      BY <2>1, <2>2 DEF Incomplete
  <1>5. jopen => /\ \A d \in ChangesOf(p) : Younger(p.docs[d].edit, d)
                 /\ ~op.failed => \A d \in Documents : ~Wrote(d, p)
    BY <1>1, <1>2, <1>4 DEF MigrationInv, WorldInv, UnfinishedIsYounger, OpInv, StageInv
  <1>6. MadeOfThePast(p)
    BY <1>4 DEF MigrationInv, PlansArePast
  <1> DEFINE t == MemState(p, s)
  <1> HIDE DEF p, s
  <1>7. /\ t \in MemType /\ DOMAIN t.states = DOMAIN mem.states \cup {p}
        /\ \A q \in DOMAIN mem.states : q # p => t.states[q] = mem.states[q]
        /\ t.completed = mem.completed /\ t.blocked = mem.blocked
    BY <1>2, <1>3, MemStateIs
  <1> HIDE DEF t
  <1>8. /\ mem' \in MemType /\ DOMAIN mem'.states = DOMAIN mem.states \cup {p}
        /\ \A q \in DOMAIN mem.states : q # p => mem'.states[q] = mem.states[q]
        /\ mem'.completed = mem.completed /\ mem'.blocked = (t.blocked \/ op.failed)
    <2>1. mem' = [t EXCEPT !.blocked = (t.blocked \/ op.failed)] /\ t.blocked \in BOOLEAN
      BY <1>1, <1>7 DEF t, MemType
    <2>2. QED
      BY <1>2, <1>7, <2>1 DEF MemType
  <1>9. jopen' => mem'.blocked \/ Incomplete(journal') = {}
    <2>1. jopen' => jopen /\ (s \notin UnfinishedStates =>
                                 Incomplete(journal') = Incomplete(journal) \ {p})
      BY <1>1, <1>2, <1>3, <1>4, <1>5, StateStored
    <2>2. QED
      BY <1>2, <1>3, <1>4, <1>8, <2>1
  <1>10. /\ DOMAIN mem'.completed \subseteq DOMAIN mem'.states
         /\ DOMAIN mem'.states \subseteq DOMAIN mem.states \cup {p}
         /\ \A q \in DOMAIN mem.states :
                q # p => q \in DOMAIN mem'.states /\ mem'.states[q] = mem.states[q]
    BY <1>8 DEF MigrationInv, CompletedIsKnown
  <1>11. QED
    BY <1>1, <1>2, <1>3, <1>4, <1>5, <1>6, <1>8, <1>9, <1>10, IdleAfterStore

\* The end of a recovery: the next coordinator is free once nothing unfinished is left.
LEMMA SettleRecoverStep == ASSUME MigrationInv, SettleRecover PROVE MigrationInv'
  <1> DEFINE p == op.plan
             s == IF op.failed THEN "blocked" ELSE "failed"
             forgotten == [states |-> [q \in DOMAIN mem.states |->
                                          IF q = p THEN "failed" ELSE mem.states[q]],
                           completed |-> [q \in DOMAIN mem.completed \ {p} |-> mem.completed[q]],
                           blocked |-> Incomplete(SetState(p, "failed")) # {}]
  <1>1. /\ op.kind = "recover" /\ op.stage = "settle" /\ op' = Idle
        /\ UNCHANGED <<docs, wrote, edits, subject, crashes>>
    BY DEF SettleRecover, InStage
  <1>2. p \in PlanSet /\ op.failed \in BOOLEAN /\ OpInv(op) /\ mem \in MemType
    BY <1>1, OpIs DEF MigrationInv, TypesInv
  <1>3. /\ s \in States /\ s # "complete" /\ (s \in UnfinishedStates <=> op.failed)
        /\ "failed" \in States
    BY <1>2 DEF States, UnfinishedStates
  <1>4. jopen /\ mem.blocked /\ p \in Incomplete(journal) /\ p \notin Completed(journal)
    BY <1>1, <1>2 DEF OpInv, RecoverInv, Incomplete, Completed
  <1>5. /\ \A d \in ChangesOf(p) : Younger(p.docs[d].edit, d)
        /\ ~op.failed => \A d \in Documents : ~Wrote(d, p)
        /\ MadeOfThePast(p)
    BY <1>1, <1>2, <1>4 DEF MigrationInv, WorldInv, UnfinishedIsYounger, OpInv, StageInv,
                            PlansArePast, Incomplete
  <1>6. /\ Stored(SetState(p, s))
        /\ \/ mem' = mem
           \/ mem' = [mem EXCEPT !.blocked = TRUE]
           \/ mem' = forgotten /\ s = "failed" /\ journal' = SetState(p, "failed")
    <2>1. CASE op.failed
      BY <2>1 DEF SettleRecover, Persist, Stored
    <2>2. CASE ~op.failed
      BY <2>2 DEF SettleRecover, Persist, Stored
    <2>3. QED
      BY <2>1, <2>2
  <1>7. DOMAIN mem.completed \subseteq DOMAIN mem.states
    BY DEF MigrationInv, CompletedIsKnown
  <1> HIDE DEF p, s
  <1>8. /\ mem' \in MemType /\ DOMAIN mem'.states = DOMAIN mem.states
        /\ \A q \in DOMAIN mem.states : q # p => mem'.states[q] = mem.states[q]
        /\ DOMAIN mem'.completed \subseteq DOMAIN mem.states
        /\ mem'.blocked \/ Incomplete(journal') = {}
    <2>1. CASE mem' = mem
      BY <1>2, <1>4, <1>7, <2>1
    <2>2. CASE mem' = [mem EXCEPT !.blocked = TRUE]
      BY <1>2, <1>7, <2>2 DEF MemType
    <2>3. CASE mem' = forgotten /\ journal' = SetState(p, "failed")
      <3> DEFINE f == [q \in DOMAIN mem.states |-> IF q = p THEN "failed" ELSE mem.states[q]]
                 c == [q \in DOMAIN mem.completed \ {p} |-> mem.completed[q]]
                 b == Incomplete(SetState(p, "failed")) # {}
      <3>1. /\ DOMAIN mem.states \subseteq PlanSet
            /\ \A q \in DOMAIN mem.states : mem.states[q] \in States
        BY <1>2, PartialIs DEF MemType
      <3>2. f \in Partial(PlanSet, States) /\ DOMAIN f = DOMAIN mem.states
        <4>1. f \in [DOMAIN mem.states -> States]
          BY <1>3, <3>1
        <4>2. QED
          BY <3>1, <4>1, IsPartial
      <3>3. c \in Partial(PlanSet, Found) /\ DOMAIN c \subseteq DOMAIN mem.completed
        <4>1. /\ DOMAIN mem.completed \subseteq PlanSet
              /\ \A q \in DOMAIN mem.completed : mem.completed[q] \in Found
          BY <1>2, PartialIs DEF MemType
        <4>2. c \in [DOMAIN mem.completed \ {p} -> Found]
          BY <4>1
        <4>3. DOMAIN mem.completed \ {p} \subseteq PlanSet
          BY <4>1
        <4>4. QED
          BY <4>2, <4>3, IsPartial
      <3>4. \A q \in DOMAIN mem.states : q # p => f[q] = mem.states[q]
        OBVIOUS
      <3>5. mem' = [states |-> f, completed |-> c, blocked |-> b] /\ b \in BOOLEAN
        BY <2>3
      <3> HIDE DEF f, c, b
      <3>6. mem' \in MemType /\ mem'.states = f /\ mem'.completed = c /\ mem'.blocked = b
        BY <3>2, <3>3, <3>5 DEF MemType
      <3>7. b \/ Incomplete(journal') = {}
        BY <2>3 DEF b
      <3>8. QED
        BY <1>7, <3>2, <3>3, <3>4, <3>6, <3>7
    <2>4. QED
      BY <1>6, <2>1, <2>2, <2>3
  <1>9. QED
    BY <1>1, <1>2, <1>3, <1>4, <1>5, <1>6, <1>7, <1>8, IdleAfterStore

\* The next process finds in the journal what blocks it and what is complete.
LEMMA RestartStep == ASSUME MigrationInv, Restart PROVE MigrationInv'
  <1>1. /\ op' = Idle /\ jopen' = TRUE /\ mem' = FromJournal(journal)
        /\ crashes < MaxCrashes /\ crashes' = crashes + 1
        /\ UNCHANGED <<docs, wrote, edits, subject, journal, faults>>
    BY DEF Restart
  <1>2. journal \in JournalType /\ Completed(journal) \subseteq PlanSet
    BY JournalIs DEF MigrationInv, TypesInv
  <1> DEFINE f == [p \in Completed(journal) |-> "complete"]
             c == [p \in Completed(journal) |-> journal.completions[p]]
             b == Incomplete(journal) # {}
  <1>3. f \in Partial(PlanSet, States) /\ DOMAIN f = Completed(journal)
        /\ \A p \in DOMAIN f : f[p] = "complete"
    <2>1. f \in [Completed(journal) -> States]
      BY DEF States
    <2>2. QED
      BY <1>2, <2>1, IsPartial
  <1>4. c \in Partial(PlanSet, Found) /\ DOMAIN c = Completed(journal)
    <2>1. \A p \in DOMAIN journal.completions : journal.completions[p] \in Found
      BY <1>2, JournalIs, PartialIs
    <2>2. c \in [Completed(journal) -> Found]
      BY <2>1 DEF Completed
    <2>3. QED
      BY <1>2, <2>2, IsPartial
  <1>5. mem' = [states |-> f, completed |-> c, blocked |-> b] /\ b \in BOOLEAN
    BY <1>1 DEF FromJournal
  <1> HIDE DEF f, c, b
  <1>6. mem' \in MemType /\ mem'.states = f /\ mem'.completed = c /\ mem'.blocked = b
    BY <1>3, <1>4, <1>5 DEF MemType
  <1>7. TypesInv'
    BY <1>1, <1>6, MigrationConstants DEF MigrationInv, TypesInv
  <1>8. WorldInv'
    BY <1>1, WorldStays
  <1>9. PlansArePast'
    <2>1. DOMAIN mem'.states \subseteq DOMAIN journal.states
      BY <1>3, <1>6 DEF Completed
    <2>2. QED
      BY <1>1, <2>1 DEF MigrationInv, PlansArePast, MadeOfThePast
  <1>10. CompletedIsKnown'
    BY <1>1, <1>3, <1>4, <1>6 DEF CompletedIsKnown
  <1>11. UnfinishedBlocks(op)'
    BY <1>1, <1>6 DEF UnfinishedBlocks, b
  <1>12. OpInv(op)'
    BY <1>1 DEF OpInv, Idle
  <1>13. QED
    BY <1>7, <1>8, <1>9, <1>10, <1>11, <1>12 DEF MigrationInv

\* A preflight that holds: the plan is journaled as applying before anything is written.
LEMMA BeginApplyingStep == ASSUME MigrationInv, BeginApplying PROVE MigrationInv'
  <1> DEFINE p == op.plan
             x == [op EXCEPT !.stage = "record", !.todo = ChangesOf(p), !.originals = op.seen]
  <1>1. /\ op.kind # "idle" /\ op.stage = "preflight"
        /\ UNCHANGED <<docs, wrote, edits, subject, crashes>>
    BY DEF BeginApplying, InStage
  <1>2. /\ op \in OpType /\ p \in PlanSet /\ op.seen \in Found /\ OpInv(op)
        /\ op.kind = "apply" /\ faults \in 0 .. MaxFaults
    BY <1>1, OpIs, ReplayFacts DEF MigrationInv, TypesInv
  <1>3. /\ MadeOfThePast(p) /\ p \in DOMAIN mem.states /\ ~mem.blocked
        /\ jopen => /\ p \notin Completed(journal) /\ Incomplete(journal) = {}
                    /\ \A d \in Documents : ~Wrote(d, p)
    BY <1>1, UnwrittenFacts
  <1>4. CASE ~PreflightHolds(p, op.seen)
    <2>1. op' = FetchRaised /\ UNCHANGED <<mem, journal, jopen, faults>>
      BY <1>1, <1>4 DEF BeginApplying, FetchRaised
    <2>2. QED
      BY <1>1, <1>2, <2>1, FetchRaisedStep
  <1>5. CASE PreflightHolds(p, op.seen)
    <2>1. mem' = MemState(p, "applying")
      BY <1>5 DEF BeginApplying
    <2>2. /\ "applying" \in States /\ "applying" # "complete" /\ "applying" \in UnfinishedStates
      BY DEF States, UnfinishedStates
    <2>3. /\ DOMAIN op.seen = DOMAIN p.docs
          /\ \A d \in DOMAIN p.docs : Content(op.seen[d]) = Content(p.docs[d])
      BY <1>5 DEF PreflightHolds
    <2>4. \A d \in ChangesOf(p) : Younger(p.docs[d].edit, d)
      <3>1. SUFFICES ASSUME NEW d \in ChangesOf(p) PROVE Younger(p.docs[d].edit, d)
        OBVIOUS
      <3>2. d \in DOMAIN p.docs /\ p.docs[d].ref = "old"
        BY DEF ChangesOf
      <3>3. op.seen[d].ref = "old" /\ op.seen[d].edit = p.docs[d].edit
        BY <2>3, <3>2, Contents
      <3>4. Younger(op.seen[d].edit, d)
        BY <1>1, <1>2, <2>3, <3>2, <3>3 DEF OpInv, StageInv
      <3>5. QED
        BY <3>3, <3>4
    <2>5. /\ mem' \in MemType /\ DOMAIN mem'.states = DOMAIN mem.states \cup {p}
          /\ \A q \in DOMAIN mem.states : q # p => mem'.states[q] = mem.states[q]
          /\ mem'.completed = mem.completed /\ mem'.blocked = mem.blocked
      <3> HIDE DEF p
      <3>1. QED
        BY <1>2, <2>1, <2>2, MemStateIs
    <2>6. /\ DOMAIN mem'.completed \subseteq DOMAIN mem'.states
          /\ DOMAIN mem'.states \subseteq DOMAIN mem.states \cup {p}
          /\ \A q \in DOMAIN mem.states :
                 q # p => q \in DOMAIN mem'.states /\ mem'.states[q] = mem.states[q]
      BY <2>5 DEF MigrationInv, CompletedIsKnown
    <2>7. CASE Stored(SetState(p, "applying")) /\ op' = Idle /\ ~jopen'
      <3> HIDE DEF p
      <3>1. QED
        BY <1>1, <1>2, <1>3, <2>2, <2>4, <2>5, <2>6, <2>7, IdleAfterStore
    <2>8. CASE Refuse(op' = Idle)
      <3>1. /\ jopen /\ UNCHANGED <<journal, jopen>> /\ op' = Idle /\ faults' \in 0 .. MaxFaults
        BY <1>2, <2>8, MigrationConstants DEF Refuse
      <3>2. TypesInv'
        BY <1>1, <2>5, <3>1 DEF MigrationInv, TypesInv
      <3>3. WorldInv'
        BY <1>1, <3>1, WorldStays
      <3>4. PlansArePast'
        BY <1>1, <1>3, <2>5, <3>1 DEF MigrationInv, PlansArePast, MadeOfThePast
      <3>5. CompletedIsKnown'
        <4>1. \A q \in Completed(journal) : /\ q \in DOMAIN mem.states /\ q # p
                                            /\ mem.states[q] \in {"complete", "blocked"}
          BY <1>3, <3>1 DEF MigrationInv, CompletedIsKnown
        <4>2. QED
          BY <2>6, <3>1, <4>1 DEF CompletedIsKnown
      <3>6. UnfinishedBlocks(op)' /\ OpInv(op)'
        BY <1>3, <3>1 DEF UnfinishedBlocks, OpInv, Idle
      <3>7. QED
        BY <3>2, <3>3, <3>4, <3>5, <3>6 DEF MigrationInv
    <2>9. CASE Stored(SetState(p, "applying")) /\ jopen' /\ op' = x
      <3>1. /\ WorldInv' /\ journal' \in JournalType /\ faults' \in 0 .. MaxFaults
            /\ DOMAIN journal'.states \subseteq DOMAIN journal.states \cup {p}
            /\ jopen /\ jopen' \in BOOLEAN /\ journal' = SetState(p, "applying")
            /\ Completed(journal') = Completed(journal)
            /\ Incomplete(journal') = {p}
        <4> HIDE DEF p
        <4>1. /\ WorldInv' /\ journal' \in JournalType /\ jopen' \in BOOLEAN
              /\ faults' \in 0 .. MaxFaults
              /\ DOMAIN journal'.states \subseteq DOMAIN journal.states \cup {p}
              /\ jopen /\ journal' = SetState(p, "applying")
              /\ Completed(journal') = Completed(journal)
              /\ Incomplete(journal') = Incomplete(journal) \cup {p}
          BY <1>1, <1>2, <1>3, <2>2, <2>4, <2>9, StateStored
        <4>2. QED
          BY <1>3, <4>1
      <3>2. p \in DOMAIN journal'.states /\ journal'.states[p] = "applying"
        <4> HIDE DEF p
        <4>1. QED
          BY <1>2, <2>2, <3>1, SetStateIs
      <3>3. /\ ChangesOf(p) \subseteq DOMAIN p.docs /\ ChangesOf(p) \in SUBSET Documents
        BY <1>2, PlanIs
      <3>4. /\ x \in OpType /\ x.kind = "apply" /\ x.plan = p /\ x.originals = op.seen
            /\ x.attempted = op.attempted /\ x.stage = "record" /\ x.seen = op.seen
            /\ x.todo = ChangesOf(p) /\ x.stage \in Writing
        <4>1. "record" \in Reading \cup Writing
          BY DEF Writing
        <4> DEFINE C == ChangesOf(p)
        <4>2. C \in SUBSET Documents
          BY <3>3
        <4> HIDE DEF C
        <4>3. QED
          BY <1>2, <4>1, <4>2 DEF OpType, Writing, C
      <3>5. /\ op' \in OpType /\ op'.kind = "apply" /\ op'.plan = p /\ op'.originals = op.seen
            /\ op'.attempted = op.attempted /\ op'.stage = "record" /\ op'.seen = op.seen
            /\ op'.todo = ChangesOf(p) /\ op'.stage \in Writing
        <4> HIDE DEF x
        <4>1. QED
          BY <2>9, <3>4
      <3> HIDE DEF x, p
      <3>6. ApplyInv(op)'
        <4>1. /\ \A d \in DOMAIN op.seen : Past(op.seen[d], d)
              /\ op.attempted \subseteq ChangesOf(p)
          BY <1>1, <1>2, SeenIs DEF p
        <4>2. \A d \in DOMAIN op'.seen : Past(op.seen[d], d)'
          BY <1>1, <3>5, <4>1 DEF Past
        <4>3. /\ op'.plan \in DOMAIN mem'.states /\ ~mem'.blocked /\ jopen'
              /\ op'.plan \notin Completed(journal')
              /\ op'.plan \in DOMAIN journal'.states /\ journal'.states[op'.plan] = "applying"
              /\ op'.attempted \subseteq ChangesOf(op'.plan)
              /\ DOMAIN op'.originals = DOMAIN op'.plan.docs
          BY <1>3, <2>3, <2>5, <2>9, <3>1, <3>2, <3>5, <4>1
        <4>4. QED
          BY <3>5, <4>2, <4>3 DEF ApplyInv
      <3>7. RecoverInv(op)' /\ OriginalsInv(op)' /\ TodoInv(op)'
        BY <2>3, <3>3, <3>5 DEF RecoverInv, OriginalsInv, TodoInv
      <3>8. StageInv(op)'
        BY <1>1, <1>3, <3>1, <3>5 DEF StageInv, Wrote
      <3>9. OpInv(op)' /\ UnfinishedBlocks(op)'
        BY <3>1, <3>5, <3>6, <3>7, <3>8 DEF OpInv, UnfinishedBlocks
      <3>10. TypesInv'
        BY <1>1, <2>5, <3>1, <3>5 DEF MigrationInv, TypesInv
      <3>11. PlansArePast'
        BY <1>1, <1>3, <2>5, <3>1 DEF MigrationInv, PlansArePast, MadeOfThePast
      <3>12. CompletedIsKnown'
        <4>1. \A q \in Completed(journal) : /\ q \in DOMAIN mem.states /\ q # p
                                            /\ mem.states[q] \in {"complete", "blocked"}
          BY <1>3, <3>1 DEF MigrationInv, CompletedIsKnown
        <4>2. QED
          BY <2>6, <3>1, <4>1 DEF CompletedIsKnown
      <3>13. QED
        BY <3>1, <3>9, <3>10, <3>11, <3>12 DEF MigrationInv
    <2>10. \/ Persist(SetState(p, "applying"), op' = x, op' = Idle)
           \/ Refuse(op' = Idle)
      BY <1>5 DEF BeginApplying
    <2>11. QED
      <3> HIDE DEF x, p
      <3>1. CASE Persist(SetState(p, "applying"), op' = x, op' = Idle)
        <4>1. \/ jopen' /\ op' = x
              \/ ~jopen' /\ op' = Idle
          BY <3>1 DEF Persist
        <4>2. Stored(SetState(p, "applying"))
          BY <3>1 DEF Persist, Stored
        <4>3. QED
          BY <2>7, <2>9, <4>1, <4>2
      <3>2. QED
        BY <2>8, <2>10, <3>1
  <1>6. QED
    BY <1>4, <1>5

\* An application gives up at a journal call that changed nothing, or after which nobody
\* knows what is durable and the journal is closed.
LEMMA GivesUp ==
    ASSUME MigrationInv, op.kind = "apply", op.stage \in Writing \ {"settle"},
           op.stage \notin Restoration,
           \/ op' = [op EXCEPT !.stage = "settle", !.failed = TRUE]
           \/ op' = [op EXCEPT !.stage = "settle"] /\ \A d \in Documents : ~Wrote(d, op.plan),
           UNCHANGED <<docs, wrote, edits, subject, mem, crashes>>,
           faults' \in 0 .. MaxFaults,
           \/ UNCHANGED <<journal, jopen>>
           \/ /\ jopen' = FALSE /\ WorldInv' /\ journal' \in JournalType
              /\ DOMAIN journal'.states \subseteq DOMAIN journal.states
    PROVE  MigrationInv'
  <1>1. op \in OpType /\ OpInv(op) /\ op.plan \in PlanSet
    BY OpIs DEF MigrationInv
  <1>2. /\ op' \in OpType /\ op'.kind = "apply" /\ op'.plan = op.plan
        /\ op'.originals = op.originals /\ op'.attempted = op.attempted
        /\ op'.seen = op.seen /\ op'.stage = "settle"
        /\ op'.failed \/ \A d \in Documents : ~Wrote(d, op.plan)
    <2>1. "settle" \in Reading \cup Writing /\ TRUE \in BOOLEAN
      BY DEF Writing, Restoration
    <2>2. CASE op' = [op EXCEPT !.stage = "settle", !.failed = TRUE]
      BY <1>1, <2>1, <2>2 DEF OpType
    <2>3. CASE op' = [op EXCEPT !.stage = "settle"] /\ \A d \in Documents : ~Wrote(d, op.plan)
      BY <1>1, <2>1, <2>3 DEF OpType
    <2>4. QED
      BY <2>2, <2>3
  <1>3. /\ \A d \in DOMAIN op.seen : Past(op.seen[d], d)
        /\ \A d \in DOMAIN op.originals : Past(op.originals[d], d)
        /\ op.attempted \subseteq ChangesOf(op.plan) /\ op.plan \in DOMAIN mem.states
        /\ ~mem.blocked /\ DOMAIN op.originals = DOMAIN op.plan.docs
    BY <1>1 DEF OpInv, ApplyInv
  <1>4. CASE UNCHANGED <<journal, jopen>>
    <2>1. PICK y \in OpType : y = op'
      BY <1>2
    <2>2. TodoInv(y) /\ StageInv(y) /\ y.stage \in Writing
      BY <1>2, <2>1 DEF TodoInv, StageInv, Writing, Restoration
    <2>3. /\ y.kind = op.kind /\ y.plan = op.plan /\ y.originals = op.originals
          /\ y.attempted \subseteq ChangesOf(op.plan)
          /\ \A d \in DOMAIN y.seen : Past(y.seen[d], d)
      BY <1>2, <1>3, <2>1
    <2>4. op.kind # "idle"
      OBVIOUS
    <2>5. QED
      BY <1>4, <2>1, <2>2, <2>3, <2>4, StageMoves
  <1>5. CASE /\ jopen' = FALSE /\ WorldInv' /\ journal' \in JournalType
             /\ DOMAIN journal'.states \subseteq DOMAIN journal.states
    <2>1. TypesInv'
      BY <1>2, <1>5 DEF MigrationInv, TypesInv
    <2>2. PlansArePast'
      BY <1>5 DEF MigrationInv, PlansArePast, MadeOfThePast
    <2>3. CompletedIsKnown' /\ UnfinishedBlocks(op)'
      BY <1>5 DEF MigrationInv, CompletedIsKnown, UnfinishedBlocks
    <2>4. ApplyInv(op)'
      <3>1. /\ \A d \in DOMAIN op'.seen : Past(op.seen[d], d)'
            /\ \A d \in DOMAIN op'.originals : Past(op.originals[d], d)'
        BY <1>2, <1>3 DEF Past
      <3>2. QED
        BY <1>2, <1>3, <1>5, <3>1 DEF ApplyInv
    <2>5. RecoverInv(op)' /\ TodoInv(op)'
      BY <1>2 DEF RecoverInv, TodoInv
    <2>6. OriginalsInv(op)'
      BY <1>1, <1>2 DEF OpInv, OriginalsInv
    <2>7. StageInv(op)'
      BY <1>2 DEF StageInv, Wrote
    <2>8. QED
      BY <1>5, <2>1, <2>2, <2>3, <2>4, <2>5, <2>6, <2>7 DEF MigrationInv, OpInv
  <1>6. QED
    BY <1>4, <1>5

\* An application goes on after a journal call that returned: its plan is still applying and
\* what the journal had before it has still.
LEMMA GoesOnAfterStore ==
    ASSUME MigrationInv, op.kind = "apply", op.stage \in Writing \ {"settle"},
           op' \in OpType, op'.kind = "apply", op'.plan = op.plan, op'.originals = op.originals,
           op'.attempted = op.attempted, op'.seen = op.seen, op'.stage \in Writing,
           UNCHANGED <<docs, wrote, edits, subject, jopen, mem, crashes>>, faults' = faults,
           WorldInv', journal' \in JournalType, journal'.states = journal.states,
           Completed(journal') = Completed(journal), TodoInv(op)', StageInv(op)'
    PROVE  MigrationInv'
  <1>1. op \in OpType /\ OpInv(op) /\ op.plan \in PlanSet
    BY OpIs DEF MigrationInv
  <1>2. TypesInv'
    BY DEF MigrationInv, TypesInv
  <1>3. PlansArePast' /\ CompletedIsKnown'
    BY DEF MigrationInv, PlansArePast, MadeOfThePast, CompletedIsKnown
  <1>4. UnfinishedBlocks(op)'
    BY DEF MigrationInv, UnfinishedBlocks, Incomplete
  <1>5. ApplyInv(op)'
    <2>1. /\ \A d \in DOMAIN op'.seen : Past(op.seen[d], d)'
          /\ \A d \in DOMAIN op'.originals : Past(op.originals[d], d)'
      BY <1>1 DEF OpInv, ApplyInv, Past
    <2>2. /\ op.plan \in DOMAIN mem.states /\ ~mem.blocked /\ jopen
          /\ op.plan \notin Completed(journal) /\ op.plan \in DOMAIN journal.states
          /\ journal.states[op.plan] = "applying" /\ op.attempted \subseteq ChangesOf(op.plan)
          /\ DOMAIN op.originals = DOMAIN op.plan.docs
      BY <1>1 DEF OpInv, ApplyInv, Writing, Restoration
    <2>3. QED
      BY <2>1, <2>2 DEF ApplyInv
  <1>6. RecoverInv(op)'
    BY DEF RecoverInv
  <1>7. OriginalsInv(op)'
    BY <1>1 DEF OpInv, OriginalsInv
  <1>8. QED
    BY <1>2, <1>3, <1>4, <1>5, <1>6, <1>7 DEF MigrationInv, OpInv

\* The facts of an application between its journal calls.
LEMMA ApplyingFacts ==
    ASSUME MigrationInv, op.kind # "idle", op.stage \in Writing \ {"settle"},
           op.stage \notin Restoration
    PROVE  /\ op \in OpType /\ op.kind = "apply" /\ op.plan \in PlanSet /\ jopen
           /\ op.plan \in DOMAIN journal.states /\ journal.states[op.plan] = "applying"
           /\ op.plan \notin Completed(journal) /\ op.plan \in Incomplete(journal)
           /\ Incomplete(journal) \subseteq {op.plan} /\ ~mem.blocked
           /\ op.seen \in Found /\ op.originals \in Found /\ op.todo \subseteq Documents
           /\ op.plan \in DOMAIN mem.states /\ journal \in JournalType
           /\ ApplyInv(op) /\ OriginalsInv(op) /\ TodoInv(op) /\ StageInv(op)
           /\ DOMAIN op.originals = DOMAIN op.plan.docs
  <1>1. /\ op \in OpType /\ op.plan \in PlanSet /\ op.seen \in Found /\ op.originals \in Found
        /\ op.todo \subseteq Documents /\ op.kind \in {"apply", "recover"} /\ OpInv(op)
        /\ journal \in JournalType
    BY OpIs DEF MigrationInv, TypesInv
  <1>2. op.kind = "apply"
    BY <1>1 DEF OpInv, RecoverInv
  <1>3. /\ op.plan \in DOMAIN mem.states /\ ~mem.blocked /\ jopen
        /\ op.plan \notin Completed(journal) /\ op.plan \in DOMAIN journal.states
        /\ journal.states[op.plan] = "applying" /\ DOMAIN op.originals = DOMAIN op.plan.docs
    BY <1>1, <1>2 DEF OpInv, ApplyInv, Writing, Restoration
  <1>4. op.plan \in Incomplete(journal)
    BY <1>3 DEF Incomplete
  <1>5. Incomplete(journal) \subseteq {op.plan}
    BY <1>3 DEF MigrationInv, UnfinishedBlocks
  <1>6. QED
    BY <1>1, <1>2, <1>3, <1>4, <1>5 DEF OpInv

\* The originals and the completions once those of a plan are put.
LEMMA FoundsPut ==
    ASSUME NEW f \in Partial(PlanSet, Found), NEW p \in PlanSet, NEW x \in Found
    PROVE  /\ Put(f, p, x) \in Partial(PlanSet, Found)
           /\ DOMAIN Put(f, p, x) = DOMAIN f \cup {p}
           /\ Put(f, p, x)[p] = x
           /\ \A q \in DOMAIN f : q # p => Put(f, p, x)[q] = f[q]
  <1> DEFINE S == PlanSet
             T == Found
  <1>1. f \in Partial(S, T) /\ p \in S /\ x \in T
    OBVIOUS
  <1> HIDE DEF S, T
  <1>2. /\ Put(f, p, x) \in Partial(S, T) /\ DOMAIN Put(f, p, x) = DOMAIN f \cup {p}
        /\ Put(f, p, x)[p] = x
        /\ \A q \in DOMAIN f : q # p => Put(f, p, x)[q] = f[q]
    BY <1>1, PutIs
  <1>3. QED
    BY <1>2 DEF S, T

\* What the journal knows of a plan's originals.
Known(p) == IF p \in DOMAIN journal.originals THEN journal.originals[p] ELSE <<>>

\* One more original of a plan that is being applied.
LEMMA OriginalRecorded ==
    ASSUME MigrationInv, NEW p \in Incomplete(journal), NEW d \in ChangesOf(p), d \in Documents,
           NEW x \in Doc, Content(x) = Content(p.docs[d]),
           journal' = [journal EXCEPT !.originals = Put(@, p, Put(Known(p), d, x))],
           UNCHANGED <<docs, wrote, edits>>
    PROVE  /\ WorldInv' /\ journal' \in JournalType /\ journal'.states = journal.states
           /\ Completed(journal') = Completed(journal)
           /\ JournaledDocs(p)' = JournaledDocs(p) \cup {d}
  <1> DEFINE k == Put(Known(p), d, x)
             f == Put(journal.originals, p, k)
             g == journal.originals
  <1>1. journal \in JournalType /\ p \in PlanSet /\ p \in DOMAIN journal.states
    BY JournalIs DEF MigrationInv, TypesInv, Incomplete
  <1>2. g \in Partial(PlanSet, Found) /\ \A q \in DOMAIN g : g[q] \in Found
    BY <1>1, JournalIs
  <1>3. Known(p) \in Found /\ DOMAIN Known(p) = JournaledDocs(p)
    BY <1>2, NothingIsPartial DEF Known, Found, JournaledDocs
  <1>4. /\ k \in Found /\ DOMAIN k = DOMAIN Known(p) \cup {d} /\ k[d] = x
        /\ \A e \in DOMAIN Known(p) : e # d => k[e] = Known(p)[e]
    BY <1>3, FoundPut
  <1>5. f = Put(g, p, k)
    OBVIOUS
  <1>6. journal' = [journal EXCEPT !.originals = f]
    OBVIOUS
  <1> HIDE DEF k, f, g
  <1>7. /\ f \in Partial(PlanSet, Found) /\ DOMAIN f = DOMAIN g \cup {p} /\ f[p] = k
        /\ \A q \in DOMAIN g : q # p => f[q] = g[q]
    BY <1>1, <1>2, <1>4, <1>5, FoundsPut
  <1>8. /\ journal' \in JournalType /\ journal'.states = journal.states
        /\ journal'.completions = journal.completions /\ journal'.originals = f
    BY <1>1, <1>6, <1>7 DEF JournalType
  <1>9. /\ Completed(journal') = Completed(journal) /\ Incomplete(journal') = Incomplete(journal)
    BY <1>8 DEF Completed, Incomplete
  <1>10. JournalHolds /\ UnfinishedIsYounger /\ WritesStand /\ WritesAreRecoverable
         /\ CompletedStaysApplied
    BY DEF MigrationInv, WorldInv
  <1>11. \A e \in DOMAIN k : e \in ChangesOf(p) /\ Content(k[e]) = Content(p.docs[e])
    <2>1. \A e \in DOMAIN Known(p) : e \in ChangesOf(p) /\ Content(Known(p)[e]) = Content(p.docs[e])
      BY <1>10, NothingIsPartial DEF JournalHolds, Known
    <2>2. QED
      BY <1>4, <2>1
  <1>12. JournalHolds'
    <2>1. /\ DOMAIN f \cup DOMAIN journal.completions \subseteq DOMAIN journal.states
          /\ \A q \in DOMAIN journal.states :
                 journal.states[q] = "complete" => q \in DOMAIN journal.completions
      BY <1>1, <1>7, <1>10 DEF JournalHolds, g
    <2>2. ASSUME NEW q \in DOMAIN f, NEW e \in DOMAIN f[q]
          PROVE  e \in ChangesOf(q) /\ Content(f[q][e]) = Content(q.docs[e])
      <3>1. CASE q = p
        BY <1>7, <1>11, <2>2, <3>1
      <3>2. CASE q # p
        <4>1. q \in DOMAIN g /\ f[q] = g[q]
          BY <1>7, <2>2, <3>2
        <4>2. QED
          BY <1>10, <2>2, <4>1 DEF JournalHolds, g
      <3>3. QED
        BY <3>1, <3>2
    <2>3. QED
      BY <1>8, <2>1, <2>2 DEF JournalHolds
  <1>13. UnfinishedIsYounger' /\ WritesStand' /\ CompletedStaysApplied'
    BY <1>9, <1>10 DEF UnfinishedIsYounger, Younger, WritesStand, CompletedStaysApplied
  <1>14. WritesAreRecoverable'
    <2>1. SUFFICES ASSUME NEW e \in Documents, wrote[e] # NoPlan
                   PROVE  /\ wrote[e] \in DOMAIN journal.states
                          /\ \/ journal.states[wrote[e]] = "complete"
                             \/ /\ wrote[e] \in Incomplete(journal) /\ wrote[e] \in DOMAIN f
                                /\ e \in DOMAIN f[wrote[e]]
                                /\ Content(f[wrote[e]][e]) = Content(wrote[e].docs[e])
      BY <1>8, <1>9 DEF WritesAreRecoverable
    <2>2. /\ wrote[e] \in DOMAIN journal.states
          /\ \/ journal.states[wrote[e]] = "complete"
             \/ /\ wrote[e] \in Incomplete(journal) /\ wrote[e] \in DOMAIN g
                /\ e \in DOMAIN g[wrote[e]]
                /\ Content(g[wrote[e]][e]) = Content(wrote[e].docs[e])
      BY <1>10, <2>1 DEF WritesAreRecoverable, g
    <2>3. CASE wrote[e] = p
      <3>1. p \in DOMAIN g => g[p] = Known(p)
        BY DEF g, Known
      <3>2. QED
        BY <1>4, <1>7, <1>11, <2>2, <2>3, <3>1
    <2>4. CASE wrote[e] # p
      BY <1>7, <2>2, <2>4
    <2>5. QED
      BY <2>3, <2>4
  <1>15. JournaledDocs(p)' = JournaledDocs(p) \cup {d}
    BY <1>3, <1>4, <1>7, <1>8 DEF JournaledDocs
  <1>16. QED
    BY <1>8, <1>9, <1>12, <1>13, <1>14, <1>15 DEF WorldInv

\* A call that raised or not.
Counted == faults' = faults \/ (faults < MaxFaults /\ faults' = faults + 1)

LEMMA CountedIs == ASSUME MigrationInv, Counted PROVE faults' \in 0 .. MaxFaults
  BY MigrationConstants DEF Counted, MigrationInv, TypesInv

\* The original of the next document is journaled before any document is written.
LEMMA RecordOriginalStep == ASSUME MigrationInv, RecordOriginal PROVE MigrationInv'
  <1>1. /\ op.kind # "idle" /\ op.stage = "record" /\ op.todo # {}
        /\ UNCHANGED <<docs, wrote, edits, subject, mem, crashes>>
    BY DEF RecordOriginal, InStage
  <1>2. op.stage \in Writing \ {"settle"} /\ op.stage \notin Restoration
    BY <1>1 DEF Writing, Restoration
  <1>3. /\ op \in OpType /\ op.kind = "apply" /\ op.plan \in PlanSet /\ jopen
        /\ op.plan \in Incomplete(journal) /\ op.originals \in Found /\ op.todo \subseteq Documents
        /\ OriginalsInv(op) /\ TodoInv(op) /\ StageInv(op) /\ journal \in JournalType
        /\ DOMAIN op.originals = DOMAIN op.plan.docs
    BY <1>1, <1>2, ApplyingFacts
  <1>p. PICK p \in PlanSet : p = op.plan
    BY <1>3
  <1>d. PICK d \in Documents : d = Min(op.todo) /\ d \in op.todo
    BY <1>1, <1>3, MinIsIn
  <1>5. /\ d \in ChangesOf(p) /\ d \in DOMAIN op.originals /\ op.originals[d] \in Doc
        /\ Content(op.originals[d]) = Content(p.docs[d])
        /\ op.todo \subseteq ChangesOf(p) \cap DOMAIN op.originals
    <2>1. op.todo \subseteq ChangesOf(p) \cap DOMAIN op.originals
      BY <1>1, <1>3, <1>p DEF TodoInv
    <2>2. d \in ChangesOf(p) /\ d \in DOMAIN op.originals
      BY <1>d, <2>1
    <2>3. QED
      BY <1>2, <1>3, <1>p, <2>1, <2>2, FoundIs DEF OriginalsInv
  <1>x. PICK x \in Doc : x = op.originals[d]
    BY <1>5
  <1>6. /\ ChangesOf(p) \ op.todo \subseteq JournaledDocs(p)
        /\ \A e \in Documents : ~Wrote(e, p)
    BY <1>1, <1>3, <1>p DEF StageInv
  <1> DEFINE j == [journal EXCEPT !.originals = Put(@, p, Put(Known(p), d, x))]
             settled == [op EXCEPT !.stage = "settle"]
             last == [op EXCEPT !.stage = "write", !.todo = ChangesOf(p)]
             more == [op EXCEPT !.todo = op.todo \ {d}]
  <1>7. \/ op' = settled /\ UNCHANGED <<journal, jopen>> /\ Counted
        \/ op' = settled /\ jopen' = FALSE /\ journal' \in {journal, j} /\ Counted
        \/ jopen' = jopen /\ journal' = j /\ faults' = faults /\ op.todo = {d} /\ op' = last
        \/ jopen' = jopen /\ journal' = j /\ faults' = faults /\ op.todo # {d} /\ op' = more
    <2>1. \/ op' = settled /\ UNCHANGED <<journal, jopen, faults>>
          \/ Persist(j, op' = IF op.todo = {d} THEN last ELSE more, op' = settled)
          \/ Refuse(op' = settled)
      BY <1>p, <1>d, <1>x DEF RecordOriginal, Known
    <2> HIDE DEF j, settled, last, more
    <2>2. CASE Persist(j, op' = IF op.todo = {d} THEN last ELSE more, op' = settled)
      BY <1>3, <2>2 DEF Persist, Counted
    <2>3. CASE Refuse(op' = settled)
      BY <2>3 DEF Refuse, Counted
    <2>4. CASE op' = settled /\ UNCHANGED <<journal, jopen, faults>>
      BY <2>4 DEF Counted
    <2>5. QED
      BY <2>1, <2>2, <2>3, <2>4
  <1>8. ASSUME journal' = j
        PROVE  /\ WorldInv' /\ journal' \in JournalType /\ journal'.states = journal.states
               /\ Completed(journal') = Completed(journal)
               /\ JournaledDocs(p)' = JournaledDocs(p) \cup {d}
    BY <1>1, <1>3, <1>5, <1>8, <1>p, <1>x, OriginalRecorded
  <1>9. CASE op' = settled /\ UNCHANGED <<journal, jopen>> /\ Counted
    BY <1>1, <1>2, <1>3, <1>6, <1>9, <1>p, CountedIs, GivesUp
  <1>10. CASE op' = settled /\ jopen' = FALSE /\ journal' \in {journal, j} /\ Counted
    <2>1. /\ WorldInv' /\ journal' \in JournalType
          /\ DOMAIN journal'.states \subseteq DOMAIN journal.states
      <3>1. CASE journal' = j
        BY <1>8, <3>1
      <3>2. CASE journal' = journal
        BY <1>1, <1>3, <3>2, WorldStays
      <3>3. QED
        BY <1>10, <3>1, <3>2
    <2>2. QED
      BY <1>1, <1>2, <1>3, <1>6, <1>10, <1>p, <2>1, CountedIs, GivesUp
  <1>11. /\ ChangesOf(p) \subseteq DOMAIN op.originals /\ ChangesOf(p) \in SUBSET Documents
    BY <1>3, <1>p, PlanIs
  <1>12. CASE jopen' = jopen /\ journal' = j /\ faults' = faults /\ op.todo = {d} /\ op' = last
    <2>1. /\ WorldInv' /\ journal' \in JournalType /\ journal'.states = journal.states
          /\ Completed(journal') = Completed(journal)
          /\ JournaledDocs(p)' = JournaledDocs(p) \cup {d}
      BY <1>8, <1>12
    <2>2. /\ op' \in OpType /\ op'.kind = "apply" /\ op'.plan = p
          /\ op'.originals = op.originals /\ op'.attempted = op.attempted
          /\ op'.seen = op.seen /\ op'.stage = "write" /\ op'.todo = ChangesOf(p)
          /\ op'.stage \in Writing
      <3> DEFINE C == ChangesOf(p)
      <3>1. C \in SUBSET Documents /\ "write" \in Reading \cup Writing
        BY <1>11 DEF Writing
      <3> HIDE DEF C
      <3>2. QED
        BY <1>3, <1>12, <1>p, <3>1 DEF OpType, Writing, C
    <2>3. TodoInv(op)'
      BY <1>5, <1>11, <2>2 DEF TodoInv
    <2>4. ChangesOf(p) \subseteq JournaledDocs(p)'
      BY <1>6, <1>12, <2>1
    <2>5. StageInv(op)'
      BY <2>2, <2>4 DEF StageInv
    <2>6. QED
      BY <1>1, <1>2, <1>3, <1>12, <1>p, <2>1, <2>2, <2>3, <2>5, GoesOnAfterStore
  <1>13. CASE jopen' = jopen /\ journal' = j /\ faults' = faults /\ op.todo # {d} /\ op' = more
    <2>1. /\ WorldInv' /\ journal' \in JournalType /\ journal'.states = journal.states
          /\ Completed(journal') = Completed(journal)
          /\ JournaledDocs(p)' = JournaledDocs(p) \cup {d}
      BY <1>8, <1>13
    <2>2. /\ op' \in OpType /\ op'.kind = "apply" /\ op'.plan = p
          /\ op'.originals = op.originals /\ op'.attempted = op.attempted
          /\ op'.seen = op.seen /\ op'.stage = "record" /\ op'.todo = op.todo \ {d}
          /\ op'.stage \in Writing
      <3>1. op.todo \ {d} \in SUBSET Documents
        BY <1>3
      <3>2. QED
        BY <1>1, <1>2, <1>3, <1>13, <1>p, <3>1 DEF OpType
    <2>3. TodoInv(op)'
      BY <1>5, <2>2 DEF TodoInv
    <2>4. ChangesOf(p) \ op'.todo \subseteq JournaledDocs(p)'
      BY <1>6, <2>1, <2>2
    <2>5. \A e \in Documents : ~Wrote(e, p)'
      BY <1>1, <1>6 DEF Wrote
    <2>6. StageInv(op)'
      BY <2>2, <2>4, <2>5 DEF StageInv
    <2>7. QED
      BY <1>1, <1>2, <1>3, <1>13, <1>p, <2>1, <2>2, <2>3, <2>6, GoesOnAfterStore
  <1>14. QED
    <2> HIDE DEF j, settled, last, more
    <2>1. QED
      BY <1>7, <1>9, <1>10, <1>12, <1>13

\* The completion of a plan that is still applying completes nothing yet.
LEMMA CompletionRecorded ==
    ASSUME MigrationInv, NEW p \in Incomplete(journal), NEW x \in Found,
           journal' = [journal EXCEPT !.completions = Put(@, p, x)],
           UNCHANGED <<docs, wrote, edits>>
    PROVE  /\ WorldInv' /\ journal' \in JournalType /\ journal'.states = journal.states
           /\ Completed(journal') = Completed(journal)
           /\ p \in DOMAIN journal'.completions
  <1> DEFINE f == Put(journal.completions, p, x)
             g == journal.completions
  <1>1. /\ journal \in JournalType /\ p \in PlanSet /\ p \in DOMAIN journal.states
        /\ journal.states[p] # "complete"
    BY JournalIs DEF MigrationInv, TypesInv, Incomplete
  <1>2. g \in Partial(PlanSet, Found)
    BY <1>1, JournalIs
  <1>3. f = Put(g, p, x) /\ journal' = [journal EXCEPT !.completions = f]
    OBVIOUS
  <1> HIDE DEF f, g
  <1>4. f \in Partial(PlanSet, Found) /\ DOMAIN f = DOMAIN g \cup {p}
    BY <1>1, <1>2, <1>3, FoundsPut
  <1>5. /\ journal' \in JournalType /\ journal'.states = journal.states
        /\ journal'.completions = f /\ journal'.originals = journal.originals
    BY <1>1, <1>3, <1>4 DEF JournalType
  <1>6. /\ Completed(journal') = Completed(journal) /\ Incomplete(journal') = Incomplete(journal)
        /\ p \in DOMAIN journal'.completions
    BY <1>1, <1>4, <1>5 DEF Completed, Incomplete, g
  <1>7. JournalHolds /\ UnfinishedIsYounger /\ WritesStand /\ WritesAreRecoverable
        /\ CompletedStaysApplied
    BY DEF MigrationInv, WorldInv
  <1>8. JournalHolds'
    BY <1>1, <1>4, <1>5, <1>7 DEF JournalHolds, g
  <1>9. UnfinishedIsYounger' /\ WritesStand' /\ CompletedStaysApplied'
    BY <1>6, <1>7 DEF UnfinishedIsYounger, Younger, WritesStand, CompletedStaysApplied
  <1>10. WritesAreRecoverable'
    BY <1>5, <1>6, <1>7 DEF WritesAreRecoverable
  <1>11. QED
    BY <1>5, <1>6, <1>8, <1>9, <1>10 DEF WorldInv

LEMMA RecordCompletionStep == ASSUME MigrationInv, RecordCompletion PROVE MigrationInv'
  <1>1. /\ op.kind # "idle" /\ op.stage = "completing"
        /\ UNCHANGED <<docs, wrote, edits, subject, mem, crashes>>
    BY DEF RecordCompletion, InStage
  <1>2. op.stage \in Writing \ {"settle"} /\ op.stage \notin Restoration
    BY <1>1 DEF Writing, Restoration
  <1>3. /\ op \in OpType /\ op.kind = "apply" /\ op.plan \in PlanSet /\ jopen
        /\ op.plan \in Incomplete(journal) /\ op.seen \in Found
        /\ StageInv(op) /\ journal \in JournalType
    BY <1>1, <1>2, ApplyingFacts
  <1>4. PICK p \in PlanSet : p = op.plan
    BY <1>3
  <1>5. PICK x \in Found : x = op.seen
    BY <1>3
  <1> DEFINE j == [journal EXCEPT !.completions = Put(@, p, x)]
             settled == [op EXCEPT !.stage = "settle", !.failed = TRUE]
             marked == [op EXCEPT !.stage = "mark"]
  <1>6. \/ op' = settled /\ UNCHANGED <<journal, jopen>> /\ Counted
        \/ op' = settled /\ jopen' = FALSE /\ journal' \in {journal, j} /\ Counted
        \/ jopen' = jopen /\ journal' = j /\ faults' = faults /\ op' = marked
    <2>1. \/ op' = settled /\ UNCHANGED <<journal, jopen, faults>>
          \/ Persist(j, op' = marked, op' = settled)
          \/ Refuse(op' = settled)
      BY <1>4, <1>5 DEF RecordCompletion, CompletionFailed
    <2> HIDE DEF j, settled, marked
    <2>2. CASE Persist(j, op' = marked, op' = settled)
      BY <1>3, <2>2 DEF Persist, Counted
    <2>3. CASE Refuse(op' = settled)
      BY <2>3 DEF Refuse, Counted
    <2>4. CASE op' = settled /\ UNCHANGED <<journal, jopen, faults>>
      BY <2>4 DEF Counted
    <2>5. QED
      BY <2>1, <2>2, <2>3, <2>4
  <1>7. ASSUME journal' = j
        PROVE  /\ WorldInv' /\ journal' \in JournalType /\ journal'.states = journal.states
               /\ Completed(journal') = Completed(journal)
               /\ p \in DOMAIN journal'.completions
    BY <1>1, <1>3, <1>4, <1>7, CompletionRecorded
  <1>8. CASE op' = settled /\ UNCHANGED <<journal, jopen>> /\ Counted
    BY <1>1, <1>2, <1>3, <1>8, CountedIs, GivesUp
  <1>9. CASE op' = settled /\ jopen' = FALSE /\ journal' \in {journal, j} /\ Counted
    <2>1. /\ WorldInv' /\ journal' \in JournalType
          /\ DOMAIN journal'.states \subseteq DOMAIN journal.states
      <3>1. CASE journal' = j
        BY <1>7, <3>1
      <3>2. CASE journal' = journal
        BY <1>1, <1>3, <3>2, WorldStays
      <3>3. QED
        BY <1>9, <3>1, <3>2
    <2>2. QED
      BY <1>1, <1>2, <1>3, <1>9, <2>1, CountedIs, GivesUp
  <1>10. CASE jopen' = jopen /\ journal' = j /\ faults' = faults /\ op' = marked
    <2>1. /\ WorldInv' /\ journal' \in JournalType /\ journal'.states = journal.states
          /\ Completed(journal') = Completed(journal) /\ p \in DOMAIN journal'.completions
      BY <1>7, <1>10
    <2>2. /\ op' \in OpType /\ op'.kind = "apply" /\ op'.plan = p
          /\ op'.originals = op.originals /\ op'.attempted = op.attempted
          /\ op'.seen = x /\ op'.stage = "mark" /\ op'.stage \in Writing
      <3>1. "mark" \in Reading \cup Writing
        BY DEF Writing
      <3>2. QED
        BY <1>3, <1>4, <1>5, <1>10, <3>1 DEF OpType, Writing
    <2>3. TodoInv(op)'
      BY <2>2 DEF TodoInv
    <2>4. /\ \A d \in DOMAIN x : Stands(x[d], d)
          /\ PostApplyHolds(p, x)
      BY <1>1, <1>3, <1>4, <1>5 DEF StageInv
    <2>5. \A d \in DOMAIN x : Stands(x[d], d)'
      BY <1>1, <2>4 DEF Stands
    <2>6. StageInv(op)'
      BY <2>1, <2>2, <2>4, <2>5 DEF StageInv
    <2>7. QED
      BY <1>1, <1>2, <1>3, <1>4, <1>5, <1>10, <2>1, <2>2, <2>3, <2>6, GoesOnAfterStore
  <1>11. QED
    <2> HIDE DEF j, settled, marked
    <2>1. QED
      BY <1>6, <1>8, <1>9, <1>10

\* The plan whose every document was seen with its postimage is complete.
LEMMA CompleteSet ==
    ASSUME MigrationInv, op.kind # "idle", op.stage = "mark",
           journal' = SetState(op.plan, "complete"), UNCHANGED <<docs, wrote, edits>>
    PROVE  /\ WorldInv' /\ journal' \in JournalType
           /\ DOMAIN journal'.states = DOMAIN journal.states
           /\ Completed(journal') = Completed(journal) \cup {op.plan}
           /\ Incomplete(journal') = {}
  <1>1. op.stage \in Writing \ {"settle"} /\ op.stage \notin Restoration
    BY DEF Writing, Restoration
  <1>2. /\ op.plan \in PlanSet /\ op.plan \in DOMAIN journal.states
        /\ Incomplete(journal) \subseteq {op.plan} /\ op.seen \in Found /\ StageInv(op)
    BY <1>1, ApplyingFacts
  <1>3. PICK p \in PlanSet : p = op.plan
    BY <1>2
  <1>4. "complete" \in States
    BY DEF States
  <1>5. /\ journal' \in JournalType
        /\ DOMAIN journal'.states = DOMAIN journal.states
        /\ journal'.states[p] = "complete"
        /\ \A q \in DOMAIN journal.states : q # p => journal'.states[q] = journal.states[q]
        /\ journal'.originals = journal.originals /\ journal'.completions = journal.completions
    <2> DEFINE j == SetState(p, "complete")
    <2>1. /\ j \in JournalType /\ DOMAIN j.states = DOMAIN journal.states \cup {p}
          /\ j.states[p] = "complete"
          /\ \A q \in DOMAIN journal.states : q # p => j.states[q] = journal.states[q]
          /\ j.originals = journal.originals /\ j.completions = journal.completions
      BY <1>4, SetStateIs
    <2>2. journal' = j
      BY <1>3
    <2> HIDE DEF j
    <2>3. QED
      BY <1>2, <1>3, <2>1, <2>2
  <1>6. /\ p \in DOMAIN journal.completions /\ PostApplyHolds(p, op.seen)
        /\ \A d \in DOMAIN op.seen : Stands(op.seen[d], d)
    BY <1>2, <1>3 DEF StageInv
  <1>7. Completed(journal') = Completed(journal) \cup {p}
    BY <1>2, <1>3, <1>5, <1>6 DEF Completed
  <1>8. Incomplete(journal') = {}
    BY <1>2, <1>3, <1>5 DEF Incomplete
  <1>9. JournalHolds /\ UnfinishedIsYounger /\ WritesStand /\ WritesAreRecoverable
        /\ CompletedStaysApplied
    BY DEF MigrationInv, WorldInv
  <1>10. JournalHolds'
    BY <1>5, <1>6, <1>9 DEF JournalHolds
  <1>11. UnfinishedIsYounger' /\ WritesStand'
    BY <1>8, <1>9 DEF UnfinishedIsYounger, WritesStand
  <1>12. WritesAreRecoverable'
    <2>1. \A d \in Documents : wrote[d] # NoPlan =>
              wrote[d] \in DOMAIN journal'.states /\ journal'.states[wrote[d]] = "complete"
      <3>1. SUFFICES ASSUME NEW d \in Documents, wrote[d] # NoPlan
                     PROVE  /\ wrote[d] \in DOMAIN journal'.states
                            /\ journal'.states[wrote[d]] = "complete"
        OBVIOUS
      <3>2. /\ wrote[d] \in DOMAIN journal.states
            /\ journal.states[wrote[d]] = "complete" \/ wrote[d] \in Incomplete(journal)
        BY <1>9, <3>1 DEF WritesAreRecoverable
      <3>3. QED
        BY <1>2, <1>3, <1>5, <3>2
    <2>2. QED
      BY <2>1 DEF WritesAreRecoverable
  <1>13. \A d \in DOMAIN p.docs :
             \/ ~docs[d].here
             \/ docs[d].edit > p.docs[d].edit
             \/ Content(docs[d]) = PostContent(p.docs[d])
    <2>1. SUFFICES ASSUME NEW d \in DOMAIN p.docs
                   PROVE  \/ ~docs[d].here
                          \/ docs[d].edit > p.docs[d].edit
                          \/ Content(docs[d]) = PostContent(p.docs[d])
      OBVIOUS
    <2>2. d \in DOMAIN op.seen /\ Content(op.seen[d]) = PostContent(p.docs[d])
      BY <1>6 DEF PostApplyHolds
    <2>3. op.seen[d].edit = p.docs[d].edit
      BY <2>2, Contents
    <2>4. QED
      BY <1>6, <2>2, <2>3 DEF Stands
  <1>14. CompletedStaysApplied'
    BY <1>7, <1>9, <1>13 DEF CompletedStaysApplied
  <1>15. QED
    BY <1>3, <1>5, <1>7, <1>8, <1>10, <1>11, <1>12, <1>14 DEF WorldInv

LEMMA MarkCompleteStep == ASSUME MigrationInv, MarkComplete PROVE MigrationInv'
  <1>1. /\ op.kind # "idle" /\ op.stage = "mark"
        /\ UNCHANGED <<docs, wrote, edits, subject, crashes>>
    BY DEF MarkComplete, InStage
  <1>2. op.stage \in Writing \ {"settle"} /\ op.stage \notin Restoration
    BY <1>1 DEF Writing, Restoration
  <1>3. /\ op \in OpType /\ op.kind = "apply" /\ op.plan \in PlanSet /\ jopen
        /\ op.seen \in Found /\ journal \in JournalType /\ op.plan \in DOMAIN mem.states
        /\ "complete" \in States /\ jopen \in BOOLEAN
    BY <1>1, <1>2, ApplyingFacts DEF States, MigrationInv, TypesInv
  <1>4. PICK p \in PlanSet : p = op.plan
    BY <1>3
  <1>5. PICK x \in Found : x = op.seen
    BY <1>3
  <1> DEFINE j == SetState(p, "complete")
             settled == [op EXCEPT !.stage = "settle", !.failed = TRUE]
             t == MemState(p, "complete")
             known == [t EXCEPT !.completed = Put(t.completed, p, x)]
  <1>6. /\ t \in MemType /\ DOMAIN t.states = DOMAIN mem.states \cup {p}
        /\ t.states[p] = "complete"
        /\ \A q \in DOMAIN mem.states : q # p => t.states[q] = mem.states[q]
        /\ t.completed = mem.completed
    BY <1>3, MemStateIs
  <1>7. \/ op' = settled /\ mem' = mem /\ UNCHANGED <<journal, jopen>> /\ Counted
        \/ op' = settled /\ mem' = mem /\ jopen' = FALSE /\ journal' \in {journal, j} /\ Counted
        \/ jopen' = jopen /\ journal' = j /\ faults' = faults /\ op' = Idle /\ mem' = known
    <2>1. \/ Persist(j, mem' = known /\ op' = Idle, mem' = mem /\ op' = settled)
          \/ Refuse(mem' = mem /\ op' = settled)
      BY <1>4, <1>5 DEF MarkComplete, CompletionFailed
    <2> HIDE DEF j, settled, known, t
    <2>2. CASE Persist(j, mem' = known /\ op' = Idle, mem' = mem /\ op' = settled)
      BY <1>3, <2>2 DEF Persist, Counted
    <2>3. CASE Refuse(mem' = mem /\ op' = settled)
      BY <2>3 DEF Refuse, Counted
    <2>4. QED
      BY <2>1, <2>2, <2>3
  <1>8. ASSUME journal' = j
        PROVE  /\ WorldInv' /\ journal' \in JournalType
               /\ DOMAIN journal'.states = DOMAIN journal.states
               /\ Completed(journal') = Completed(journal) \cup {p}
               /\ Incomplete(journal') = {}
    BY <1>1, <1>4, <1>8, CompleteSet
  <1>9. CASE op' = settled /\ mem' = mem /\ UNCHANGED <<journal, jopen>> /\ Counted
    BY <1>1, <1>2, <1>3, <1>9, CountedIs, GivesUp
  <1>10. CASE op' = settled /\ mem' = mem /\ jopen' = FALSE /\ journal' \in {journal, j} /\ Counted
    <2>1. /\ WorldInv' /\ journal' \in JournalType
          /\ DOMAIN journal'.states \subseteq DOMAIN journal.states
      <3>1. CASE journal' = j
        BY <1>8, <3>1
      <3>2. CASE journal' = journal
        BY <1>1, <1>3, <3>2, WorldStays
      <3>3. QED
        BY <1>10, <3>1, <3>2
    <2>2. QED
      BY <1>1, <1>2, <1>3, <1>10, <2>1, CountedIs, GivesUp
  <1>11. CASE jopen' = jopen /\ journal' = j /\ faults' = faults /\ op' = Idle /\ mem' = known
    <2>1. /\ WorldInv' /\ journal' \in JournalType
          /\ DOMAIN journal'.states = DOMAIN journal.states
          /\ Completed(journal') = Completed(journal) \cup {p}
          /\ Incomplete(journal') = {}
      BY <1>8, <1>11
    <2> HIDE DEF t
    <2>2. /\ mem' \in MemType /\ mem'.states = t.states
          /\ DOMAIN mem'.completed = DOMAIN mem.completed \cup {p}
      <3> DEFINE g == t.completed
                 c == Put(g, p, x)
      <3>1. g \in Partial(PlanSet, Found)
        BY <1>6 DEF MemType
      <3> HIDE DEF g
      <3>2. c \in Partial(PlanSet, Found) /\ DOMAIN c = DOMAIN g \cup {p}
        BY <3>1, FoundsPut
      <3>3. mem' = [t EXCEPT !.completed = c]
        BY <1>11 DEF g
      <3> HIDE DEF c
      <3>4. QED
        BY <1>6, <3>2, <3>3 DEF MemType, g
    <2>3. TypesInv'
      BY <1>1, <1>11, <2>1, <2>2 DEF MigrationInv, TypesInv
    <2>4. PlansArePast'
      <3>1. DOMAIN mem'.states = DOMAIN mem.states
        BY <1>3, <1>4, <1>6, <2>2
      <3>2. QED
        BY <1>1, <2>1, <3>1 DEF MigrationInv, PlansArePast, MadeOfThePast
    <2>5. CompletedIsKnown'
      <3>1. /\ DOMAIN mem.completed \subseteq DOMAIN mem.states
            /\ \A q \in Completed(journal) :
                   q \in DOMAIN mem.states /\ mem.states[q] \in {"complete", "blocked"}
        BY <1>3 DEF MigrationInv, CompletedIsKnown
      <3>2. QED
        BY <1>6, <2>1, <2>2, <3>1 DEF CompletedIsKnown
    <2>6. UnfinishedBlocks(op)' /\ OpInv(op)'
      BY <1>11, <2>1 DEF UnfinishedBlocks, OpInv, Idle
    <2>7. QED
      BY <2>1, <2>3, <2>4, <2>5, <2>6 DEF MigrationInv
  <1>12. QED
    <2> HIDE DEF j, settled, known
    <2>1. QED
      BY <1>7, <1>9, <1>10, <1>11

-----------------------------------------------------------------------------
(* Documents change. *)

\* The document d becomes y, written by w: a new revision unless it is the same document,
\* a postimage of w that can be undone, and no completed plan comes undone.
Becomes(d, y, w) ==
    /\ docs' = [docs EXCEPT ![d] = y] /\ wrote' = [wrote EXCEPT ![d] = w]
    /\ y \in Doc /\ w \in PlanSet \cup {NoPlan}
    /\ y.rev >= docs[d].rev
    /\ y.rev = docs[d].rev => y.here = docs[d].here /\ Content(y) = Content(docs[d])
    /\ edits' \in {edits, edits + 1} /\ edits' <= MaxForeign /\ y.edit <= edits'
    /\ w # NoPlan => /\ y.here /\ d \in ChangesOf(w) /\ Content(y) = PostContent(w.docs[d])
                     /\ w # wrote[d] => w \in Incomplete(journal) /\ d \in JournaledDocs(w)
    /\ \A q \in Completed(journal) : d \in DOMAIN q.docs =>
           ~y.here \/ y.edit > q.docs[d].edit \/ Content(y) = PostContent(q.docs[d])

\* What was read stays past in the next state.
PastStill(x, e) ==
    /\ x.edit <= edits' /\ x.rev <= docs'[e].rev
    /\ x.rev = docs'[e].rev => docs'[e].here /\ Content(docs'[e]) = Content(x)

LEMMA PastStays ==
    ASSUME MigrationInv, NEW d \in Documents, NEW y, NEW w, Becomes(d, y, w),
           NEW e \in Documents, NEW x \in Doc, Past(x, e)
    PROVE  PastStill(x, e)
  <1>1. /\ docs \in [Documents -> Doc] /\ edits \in Nat
    BY MigrationConstants DEF MigrationInv, TypesInv
  <1>2. x.rev \in Nat /\ x.edit \in Nat /\ docs[e] \in Doc /\ docs[e].rev \in Nat
        /\ docs[e].here \in BOOLEAN
    BY <1>1, DocIs
  <1>3. x.edit <= edits /\ x.edit <= edits'
    BY <1>1, <1>2 DEF Past, Becomes
  <1>4. CASE e # d
    <2>1. docs'[e] = docs[e]
      BY <1>1, <1>4 DEF Becomes
    <2>2. QED
      BY <1>3, <2>1 DEF Past, PastStill
  <1>5. CASE e = d
    <2>1. docs'[e] = y
      BY <1>1, <1>5 DEF Becomes
    <2>2. y.rev \in Nat /\ y.rev >= docs[e].rev
      BY <1>5, DocIs DEF Becomes
    <2>3. CASE y.rev = docs[e].rev
      <3>1. y.here = docs[e].here /\ Content(y) = Content(docs[e])
        BY <1>5, <2>3 DEF Becomes
      <3>2. QED
        BY <1>3, <2>1, <2>3, <3>1 DEF Past, PastStill
    <2>4. CASE y.rev # docs[e].rev
      <3>1. x.rev <= docs[e].rev
        BY DEF Past
      <3>2. x.rev < y.rev
        BY <1>2, <2>2, <2>4, <3>1
      <3>3. QED
        BY <1>2, <1>3, <2>1, <2>2, <3>2 DEF PastStill
    <2>5. QED
      BY <2>3, <2>4
  <1>6. QED
    BY <1>4, <1>5

\* The world after a document changed.
LEMMA WorldMoves ==
    ASSUME MigrationInv, NEW d \in Documents, NEW y, NEW w, Becomes(d, y, w),
           UNCHANGED <<journal, mem>>
    PROVE  /\ WorldInv' /\ PlansArePast'
           /\ docs' \in [Documents -> Doc] /\ wrote' \in [Documents -> PlanSet \cup {NoPlan}]
           /\ edits' \in 0 .. MaxForeign
           /\ \A e \in Documents : e # d => docs'[e] = docs[e] /\ wrote'[e] = wrote[e]
           /\ docs'[d] = y /\ wrote'[d] = w
  <1>1. /\ docs \in [Documents -> Doc] /\ wrote \in [Documents -> PlanSet \cup {NoPlan}]
        /\ edits \in Nat /\ edits \in 0 .. MaxForeign
    BY MigrationConstants DEF MigrationInv, TypesInv
  <1>2. /\ docs' \in [Documents -> Doc] /\ wrote' \in [Documents -> PlanSet \cup {NoPlan}]
        /\ \A e \in Documents : e # d => docs'[e] = docs[e] /\ wrote'[e] = wrote[e]
        /\ docs'[d] = y /\ wrote'[d] = w
    BY <1>1 DEF Becomes
  <1>3. edits' \in 0 .. MaxForeign /\ edits' >= edits /\ edits' \in Nat
    BY <1>1, MigrationConstants DEF Becomes
  <1>4. JournalHolds /\ UnfinishedIsYounger /\ WritesStand /\ WritesAreRecoverable
        /\ CompletedStaysApplied
    BY DEF MigrationInv, WorldInv
  <1>5. JournalHolds' /\ UnfinishedIsYounger'
    BY <1>4 DEF JournalHolds, UnfinishedIsYounger, Younger
  <1>6. WritesStand'
    <2>1. SUFFICES ASSUME NEW e \in Documents
                   PROVE  /\ docs'[e].edit <= edits'
                          /\ wrote'[e] # NoPlan =>
                                 /\ docs'[e].here /\ e \in ChangesOf(wrote'[e])
                                 /\ Content(docs'[e]) = PostContent(wrote'[e].docs[e])
      BY DEF WritesStand
    <2>2. CASE e = d
      BY <1>2, <2>2 DEF Becomes
    <2>3. CASE e # d
      <3>1. docs[e].edit \in Nat /\ docs[e].edit <= edits
        BY <1>1, <1>4, DocIs DEF WritesStand
      <3>2. QED
        BY <1>1, <1>2, <1>3, <1>4, <2>3, <3>1 DEF WritesStand
    <2>4. QED
      BY <2>2, <2>3
  <1>7. WritesAreRecoverable'
    <2>1. SUFFICES ASSUME NEW e \in Documents, wrote'[e] # NoPlan
                   PROVE  /\ wrote'[e] \in DOMAIN journal.states
                          /\ \/ journal.states[wrote'[e]] = "complete"
                             \/ /\ wrote'[e] \in Incomplete(journal)
                                /\ wrote'[e] \in DOMAIN journal.originals
                                /\ e \in DOMAIN journal.originals[wrote'[e]]
                                /\ Content(journal.originals[wrote'[e]][e])
                                      = Content(wrote'[e].docs[e])
      BY DEF WritesAreRecoverable
    <2>2. CASE wrote'[e] = wrote[e]
      BY <1>4, <2>1, <2>2 DEF WritesAreRecoverable
    <2>3. CASE wrote'[e] # wrote[e]
      <3>1. e = d /\ wrote'[e] = w /\ w # NoPlan /\ w # wrote[d]
        BY <1>2, <2>1, <2>3
      <3>2. w \in Incomplete(journal) /\ d \in JournaledDocs(w)
        BY <3>1 DEF Becomes
      <3>3. w \in DOMAIN journal.originals /\ d \in DOMAIN journal.originals[w]
        BY <3>2 DEF JournaledDocs
      <3>4. Content(journal.originals[w][d]) = Content(w.docs[d])
        BY <1>4, <3>3 DEF JournalHolds
      <3>5. w \in DOMAIN journal.states
        BY <3>2 DEF Incomplete
      <3>6. QED
        BY <3>1, <3>2, <3>3, <3>4, <3>5
    <2>4. QED
      BY <2>2, <2>3
  <1>8. CompletedStaysApplied'
    <2>1. SUFFICES ASSUME NEW q \in Completed(journal), NEW e \in DOMAIN q.docs
                   PROVE  \/ ~docs'[e].here
                          \/ docs'[e].edit > q.docs[e].edit
                          \/ Content(docs'[e]) = PostContent(q.docs[e])
      BY DEF CompletedStaysApplied
    <2>2. e \in Documents
      <3>1. q \in PlanSet
        BY JournalIs DEF MigrationInv, TypesInv
      <3>2. QED
        BY <3>1, PlanIs
    <2>3. CASE e = d
      BY <1>2, <2>3 DEF Becomes
    <2>4. CASE e # d
      BY <1>2, <1>4, <2>2, <2>4 DEF CompletedStaysApplied
    <2>5. QED
      BY <2>3, <2>4
  <1>9. PlansArePast'
    <2>1. SUFFICES ASSUME NEW q \in DOMAIN journal.states \cup DOMAIN mem.states,
                          NEW e \in DOMAIN q.docs
                   PROVE  q.docs[e].edit <= edits'
      BY DEF PlansArePast, MadeOfThePast
    <2>2. q.docs[e].edit <= edits
      BY DEF MigrationInv, PlansArePast, MadeOfThePast
    <2>3. q.docs[e].edit \in Nat
      <3>1. q \in PlanSet
        BY JournalIs, PartialIs DEF MigrationInv, TypesInv, MemType
      <3>2. QED
        BY <3>1, PlanIs
    <2>4. QED
      BY <1>1, <1>3, <2>2, <2>3
  <1>10. QED
    BY <1>2, <1>3, <1>5, <1>6, <1>7, <1>8, <1>9 DEF WorldInv

\* An operation goes on after it wrote a document.
LEMMA GoesOnAfterWrite ==
    ASSUME MigrationInv, op.kind # "idle", op.stage \in Writing \ {"settle"},
           op' \in OpType, op'.kind = op.kind, op'.plan = op.plan, op'.originals = op.originals,
           op'.attempted = op.attempted, op'.seen = op.seen, op'.stage \in Writing,
           op.stage \in Restoration => op'.stage \in Restoration,
           NEW d \in Documents, NEW y, NEW w, Becomes(d, y, w),
           op.kind = "recover" => w = NoPlan,
           UNCHANGED <<edits, subject, journal, jopen, mem, crashes>>,
           faults' \in 0 .. MaxFaults, TodoInv(op)', StageInv(op)'
    PROVE  MigrationInv'
  <1>1. /\ OpInv(op) /\ op.kind \in {"apply", "recover"}
        /\ op.seen \in Found /\ op.originals \in Found
    BY OpIs DEF MigrationInv
  <1>2. /\ WorldInv' /\ PlansArePast'
        /\ docs' \in [Documents -> Doc] /\ wrote' \in [Documents -> PlanSet \cup {NoPlan}]
        /\ edits' \in 0 .. MaxForeign
        /\ \A e \in Documents : e # d => wrote'[e] = wrote[e]
        /\ wrote'[d] = w
    BY WorldMoves
  <1>3. TypesInv'
    BY <1>2 DEF MigrationInv, TypesInv
  <1>4. CompletedIsKnown' /\ UnfinishedBlocks(op)'
    BY DEF MigrationInv, CompletedIsKnown, UnfinishedBlocks
  <1>5. ApplyInv(op)'
    <2>1. op.kind = "apply" =>
              /\ \A e \in DOMAIN op.seen : PastStill(op.seen[e], e)
              /\ \A e \in DOMAIN op.originals : PastStill(op.originals[e], e)
      BY <1>1, FoundIs, PastStays DEF OpInv, ApplyInv
    <2>2. op'.kind = "apply" =>
              /\ \A e \in DOMAIN op'.seen : Past(op.seen[e], e)'
              /\ \A e \in DOMAIN op'.originals : Past(op.originals[e], e)'
      BY <2>1 DEF Past, PastStill
    <2>3. ApplyInv(op)
      BY <1>1 DEF OpInv
    <2>4. QED
      BY <2>2, <2>3 DEF ApplyInv, Writing, Restoration
  <1>6. RecoverInv(op)'
    BY <1>1, <1>2 DEF OpInv, RecoverInv, Wrote
  <1>7. OriginalsInv(op)'
    BY <1>1 DEF OpInv, OriginalsInv
  <1>8. QED
    BY <1>2, <1>3, <1>4, <1>5, <1>6, <1>7 DEF MigrationInv, OpInv

\* A document written with the content c.
Rewritten(x, c) == [x EXCEPT !.edit = c.edit, !.ref = c.ref, !.rev = x.rev + 1]

LEMMA RewrittenIs ==
    ASSUME NEW x \in Doc, NEW c, c.edit \in 0 .. MaxForeign, c.ref \in {"old", "new"}
    PROVE  /\ Rewritten(x, c) \in Doc /\ Rewritten(x, c).rev = x.rev + 1
           /\ Rewritten(x, c).edit = c.edit /\ Rewritten(x, c).ref = c.ref
           /\ Rewritten(x, c).here = x.here
           /\ Rewritten(x, c).rev > x.rev
  <1> DEFINE n == x.rev + 1
             e == c.edit
             f == c.ref
             y == [x EXCEPT !.edit = e, !.ref = f, !.rev = n]
  <1>1. n \in Nat /\ e \in 0 .. MaxForeign /\ f \in {"old", "new"} /\ n > x.rev
    BY DocIs
  <1>2. Rewritten(x, c) = y
    BY DEF Rewritten, Doc
  <1> HIDE DEF n, e, f
  <1>3. y \in Doc /\ y.rev = n /\ y.edit = e /\ y.ref = f /\ y.here = x.here
    BY <1>1 DEF Doc
  <1> HIDE DEF y
  <1>4. QED
    BY <1>1, <1>2, <1>3 DEF n, e, f

\* The effect of writing the next change: it is the plan's postimage of what was read, at the
\* revision it was read, so nobody's edit is lost and no completed plan comes undone.
LEMMA WriteEffect ==
    ASSUME MigrationInv, op.kind # "idle", op.stage = "write",
           NEW d \in Documents, d = Min(op.todo), NEW o \in Doc, o = op.originals[d],
           CanWrite(d, o.rev), DocumentWritten(d, PostContent(o)),
           wrote' = [wrote EXCEPT ![d] = op.plan], edits' = edits
    PROVE  /\ Becomes(d, Rewritten(docs[d], PostContent(o)), op.plan)
           /\ Rewritten(docs[d], PostContent(o)).edit = docs[d].edit
  <1>1. op.stage \in Writing \ {"settle"} /\ op.stage \notin Restoration
    BY DEF Writing, Restoration
  <1>2. /\ op.plan \in PlanSet /\ op.plan \in Incomplete(journal) /\ op.originals \in Found
        /\ op.todo \subseteq Documents /\ ApplyInv(op) /\ OriginalsInv(op) /\ TodoInv(op)
        /\ StageInv(op) /\ op.kind = "apply"
    BY <1>1, ApplyingFacts
  <1>3. d \in op.todo
    BY <1>2, MinIsIn DEF TodoInv
  <1>4. /\ d \in ChangesOf(op.plan) /\ d \in DOMAIN op.originals /\ d \in JournaledDocs(op.plan)
    BY <1>2, <1>3 DEF TodoInv, StageInv
  <1>5. Content(o) = Content(op.plan.docs[d])
    BY <1>1, <1>2, <1>4 DEF OriginalsInv
  <1>6. Past(o, d)
    BY <1>2, <1>4 DEF ApplyInv
  <1>7. /\ docs[d] \in Doc /\ docs[d].rev \in Nat /\ docs[d].edit \in Nat
        /\ o.edit \in 0 .. MaxForeign /\ o.edit \in Nat /\ edits \in 0 .. MaxForeign
    BY DocIs DEF MigrationInv, TypesInv
  <1>8. docs[d].here /\ Content(docs[d]) = Content(o) /\ docs[d].edit = o.edit /\ o.edit <= edits
    BY <1>6, Contents DEF Past, CanWrite
  <1> DEFINE y == Rewritten(docs[d], PostContent(o))
  <1>9. /\ PostContent(o).edit = o.edit /\ PostContent(o).ref = "new"
        /\ "new" \in {"old", "new"}
    BY DEF PostContent
  <1>10. /\ y \in Doc /\ y.rev = docs[d].rev + 1 /\ y.edit = o.edit /\ y.ref = "new"
         /\ y.here = docs[d].here
    BY <1>7, <1>9, RewrittenIs
  <1>11. docs' = [docs EXCEPT ![d] = y]
    BY DEF DocumentWritten, Rewritten
  <1> HIDE DEF y
  <1>12. Content(y) = PostContent(op.plan.docs[d])
    BY <1>5, <1>10, Contents
  <1>13. \A q \in Completed(journal) : d \in DOMAIN q.docs => y.edit > q.docs[d].edit
    <2>1. SUFFICES ASSUME NEW q \in Completed(journal), d \in DOMAIN q.docs
                   PROVE  y.edit > q.docs[d].edit
      OBVIOUS
    <2>2. q.docs[d].edit < op.plan.docs[d].edit
      BY <1>2, <1>4, <2>1 DEF MigrationInv, WorldInv, UnfinishedIsYounger, Younger
    <2>3. op.plan.docs[d].edit = o.edit
      BY <1>5, Contents
    <2>4. q.docs[d].edit \in Nat
      <3>1. q \in PlanSet
        BY JournalIs DEF MigrationInv, TypesInv
      <3>2. QED
        BY <2>1, <3>1, PlanIs
    <2>5. QED
      BY <1>7, <1>10, <2>2, <2>3, <2>4
  <1>14. y.rev >= docs[d].rev /\ y.rev # docs[d].rev
    BY <1>7, <1>10
  <1>15. /\ edits' \in {edits, edits + 1} /\ edits' <= MaxForeign /\ y.edit <= edits'
    BY <1>7, <1>8, <1>10, MigrationConstants
  <1>16. Becomes(d, y, op.plan)
    BY <1>2, <1>4, <1>8, <1>10, <1>11, <1>12, <1>13, <1>14, <1>15 DEF Becomes
  <1>17. QED
    BY <1>8, <1>10, <1>16 DEF y

LEMMA WriteDocumentStep == ASSUME MigrationInv, WriteDocument PROVE MigrationInv'
  <1>1. /\ op.kind # "idle" /\ op.stage = "write"
        /\ UNCHANGED <<edits, subject, journal, jopen, mem, crashes>>
    BY DEF WriteDocument, InStage
  <1>2. op.stage \in Writing \ {"settle"} /\ op.stage \notin Restoration
    BY <1>1 DEF Writing, Restoration
  <1>3. /\ op \in OpType /\ op.kind = "apply" /\ op.originals \in Found
        /\ op.todo \subseteq Documents /\ TodoInv(op) /\ StageInv(op)
    BY <1>1, <1>2, ApplyingFacts
  <1>4. PICK d \in Documents : d = Min(op.todo) /\ d \in op.todo
    BY <1>1, <1>3, MinIsIn DEF TodoInv
  <1>5. PICK o \in Doc : o = op.originals[d]
    <2>1. d \in DOMAIN op.originals
      BY <1>1, <1>3, <1>4 DEF TodoInv
    <2>2. QED
      BY <1>3, <2>1, FoundIs
  <1> DEFINE effect == /\ CanWrite(d, o.rev) /\ DocumentWritten(d, PostContent(o))
                       /\ wrote' = [wrote EXCEPT ![d] = op.plan]
  <1>6. /\ Counted
        /\ \/ op' = [op EXCEPT !.stage = "readback"] /\ effect
           \/ op' = [op EXCEPT !.stage = "raised"] /\ (effect \/ UNCHANGED <<docs, wrote>>)
    BY <1>4, <1>5 DEF WriteDocument, ProviderRaises, Counted
  <1>7. faults' \in 0 .. MaxFaults
    BY <1>6, CountedIs
  <1> HIDE DEF effect
  <1>8. PICK s \in {"readback", "raised"} : op' = [op EXCEPT !.stage = s]
    BY <1>6
  <1>9. /\ op' \in OpType /\ op'.kind = op.kind /\ op'.plan = op.plan
        /\ op'.originals = op.originals /\ op'.attempted = op.attempted
        /\ op'.seen = op.seen /\ op'.stage = s /\ op'.todo = op.todo
        /\ op'.stage \in Writing
    <2>1. s \in Reading \cup Writing /\ s \in Writing
      BY DEF Writing
    <2>2. QED
      BY <1>3, <1>8, <2>1 DEF OpType
  <1>10. CASE effect
    <2>1. PICK p \in PlanSet : p = op.plan
      BY <1>1, OpIs DEF MigrationInv
    <2>2. PICK y : y = Rewritten(docs[d], PostContent(o))
      OBVIOUS
    <2>3. Becomes(d, y, p)
      BY <1>1, <1>4, <1>5, <1>10, <2>1, <2>2, WriteEffect DEF effect
    <2>4. TodoInv(op)' /\ StageInv(op)'
      BY <1>1, <1>3, <1>9 DEF TodoInv, StageInv, JournaledDocs
    <2>5. QED
      BY <1>1, <1>2, <1>3, <1>7, <1>9, <2>3, <2>4, GoesOnAfterWrite
  <1>11. CASE UNCHANGED <<docs, wrote>>
    <2>1. PICK x \in OpType : x = op'
      BY <1>9
    <2>2. TodoInv(x) /\ StageInv(x)
      BY <1>1, <1>3, <1>9, <2>1 DEF TodoInv, StageInv
    <2>3. /\ x.attempted \subseteq ChangesOf(op.plan)
          /\ \A e \in DOMAIN x.seen : Past(x.seen[e], e)
      BY <1>1, <1>3, <1>9, <2>1, SeenIs
    <2>4. QED
      BY <1>1, <1>2, <1>3, <1>7, <1>9, <1>11, <2>1, <2>2, <2>3, StageMoves
  <1>12. QED
    BY <1>6, <1>10, <1>11

\* The effect of restoring a document: it was the plan's postimage at the revision that is
\* overwritten, and the plan is unfinished, so younger than whatever is complete.
LEMMA RestoreEffect ==
    ASSUME MigrationInv, op.kind # "idle", op.stage = "restore_write",
           NEW d \in Documents, d = Max(op.todo), NEW o \in Doc, o = op.originals[d],
           CanWrite(d, op.rev), DocumentWritten(d, Content(o)),
           wrote' = [wrote EXCEPT ![d] = NoPlan], edits' = edits
    PROVE  /\ Becomes(d, Rewritten(docs[d], Content(o)), NoPlan)
           /\ Rewritten(docs[d], Content(o)).edit = docs[d].edit
  <1>1. /\ op.plan \in PlanSet /\ op.todo \subseteq Documents /\ OpInv(op)
        /\ op.todo \subseteq ChangesOf(op.plan) \cap DOMAIN op.originals
        /\ op.stage \in Writing \ {"settle"} /\ OriginalsInv(op)
    BY RestoringFacts
  <1>2. d \in op.todo
    BY <1>1, MaxIsIn DEF OpInv, TodoInv
  <1>3. op.plan \in Incomplete(journal)
    <2>1. op.kind \in {"apply", "recover"}
      BY OpIs DEF MigrationInv
    <2>2. QED
      BY <1>1, <2>1 DEF OpInv, ApplyInv, RecoverInv, Incomplete
  <1>4. Content(o) = Content(op.plan.docs[d]) /\ d \in ChangesOf(op.plan)
    BY <1>1, <1>2 DEF OriginalsInv
  <1>5. docs[d].here /\ Content(docs[d]) = PostContent(o)
    BY <1>1 DEF OpInv, StageInv, CanWrite
  <1>6. /\ docs[d] \in Doc /\ docs[d].rev \in Nat /\ docs[d].edit \in Nat
        /\ o.edit \in 0 .. MaxForeign /\ o.edit \in Nat /\ edits \in 0 .. MaxForeign
        /\ o.ref \in {"old", "new"} /\ docs[d].edit <= edits
    BY DocIs DEF MigrationInv, TypesInv, WorldInv, WritesStand
  <1>7. docs[d].edit = o.edit
    BY <1>5, Contents
  <1> DEFINE y == Rewritten(docs[d], Content(o))
  <1>8. Content(o).edit = o.edit /\ Content(o).ref = o.ref
    BY DEF Content
  <1>9. /\ y \in Doc /\ y.rev = docs[d].rev + 1 /\ y.edit = o.edit /\ y.here = docs[d].here
    BY <1>6, <1>8, RewrittenIs
  <1>10. docs' = [docs EXCEPT ![d] = y]
    BY DEF DocumentWritten, Rewritten
  <1> HIDE DEF y
  <1>11. \A q \in Completed(journal) : d \in DOMAIN q.docs => y.edit > q.docs[d].edit
    <2>1. SUFFICES ASSUME NEW q \in Completed(journal), d \in DOMAIN q.docs
                   PROVE  y.edit > q.docs[d].edit
      OBVIOUS
    <2>2. q.docs[d].edit < op.plan.docs[d].edit
      BY <1>3, <1>4, <2>1 DEF MigrationInv, WorldInv, UnfinishedIsYounger, Younger
    <2>3. op.plan.docs[d].edit = o.edit
      BY <1>4, Contents
    <2>4. q.docs[d].edit \in Nat
      <3>1. q \in PlanSet
        BY JournalIs DEF MigrationInv, TypesInv
      <3>2. QED
        BY <2>1, <3>1, PlanIs
    <2>5. QED
      BY <1>6, <1>9, <2>2, <2>3, <2>4
  <1>12. y.rev >= docs[d].rev /\ y.rev # docs[d].rev
    BY <1>6, <1>9
  <1>13. /\ edits' \in {edits, edits + 1} /\ edits' <= MaxForeign /\ y.edit <= edits'
    BY <1>6, <1>7, <1>9, MigrationConstants
  <1>14. Becomes(d, y, NoPlan)
    BY <1>9, <1>10, <1>11, <1>12, <1>13 DEF Becomes
  <1>15. QED
    BY <1>7, <1>9, <1>14 DEF y

LEMMA RestoreWriteStep == ASSUME MigrationInv, RestoreWrite PROVE MigrationInv'
  <1>1. /\ op.kind # "idle" /\ op.stage = "restore_write"
        /\ UNCHANGED <<edits, subject, journal, jopen, mem, crashes>>
    BY DEF RestoreWrite, InStage
  <1>2. /\ op \in OpType /\ op.todo \subseteq Documents /\ OpInv(op)
        /\ op.todo \subseteq ChangesOf(op.plan) \cap DOMAIN op.originals
        /\ op.stage \in Writing \ {"settle"} /\ op.stage \in Restoration
        /\ op.originals \in Found
    BY <1>1, RestoringFacts, OpIs DEF MigrationInv
  <1>3. PICK d \in Documents : d = Max(op.todo) /\ d \in op.todo
    BY <1>1, <1>2, MaxIsIn DEF OpInv, TodoInv
  <1>4. PICK o \in Doc : o = op.originals[d]
    BY <1>2, <1>3, FoundIs
  <1> DEFINE effect == /\ CanWrite(d, op.rev) /\ DocumentWritten(d, Content(o))
                       /\ wrote' = [wrote EXCEPT ![d] = NoPlan]
             checks == [op EXCEPT !.stage = "restore_check"]
  <1>5. /\ Counted
        /\ \/ op' = checks /\ effect
           \/ op' = RestoreNext(d, TRUE) /\ (effect \/ UNCHANGED <<docs, wrote>>)
    BY <1>3, <1>4 DEF RestoreWrite, ProviderRaises, Counted
  <1>6. faults' \in 0 .. MaxFaults
    BY <1>5, CountedIs
  <1> HIDE DEF effect
  <1>7. CASE op' = RestoreNext(d, TRUE) /\ UNCHANGED <<docs, wrote>>
    BY <1>1, <1>6, <1>7, RestoreNextStep
  <1>8. /\ op' \in OpType /\ op'.kind = op.kind /\ op'.plan = op.plan
        /\ op'.originals = op.originals /\ op'.attempted = op.attempted
        /\ op'.seen = op.seen /\ op'.todo \subseteq op.todo
        /\ \/ op'.stage = "restore_check" /\ op'.todo = op.todo
           \/ op'.stage = "restore"
    <2>1. /\ "restore_check" \in Reading \cup Writing /\ "restore" \in Reading \cup Writing
          /\ 0 \in Nat /\ op.todo \ {d} \in SUBSET Documents
      BY <1>2 DEF Writing, Restoration
    <2>2. CASE op' = checks
      BY <1>2, <2>1, <2>2 DEF OpType
    <2>3. CASE op' = RestoreNext(d, TRUE)
      <3> DEFINE x == [op EXCEPT !.stage = "restore", !.todo = op.todo \ {d}, !.rev = 0,
                                 !.failed = TRUE]
      <3>1. op' = x
        BY <1>2, <2>3 DEF RestoreNext, OpType
      <3>2. QED
        BY <1>2, <2>1, <3>1 DEF OpType
    <2>4. QED
      BY <1>5, <2>2, <2>3
  <1>9. CASE effect
    <2>1. PICK y : y = Rewritten(docs[d], Content(o))
      OBVIOUS
    <2>2. PICK w : w = NoPlan
      OBVIOUS
    <2>3. Becomes(d, y, w)
      BY <1>1, <1>3, <1>4, <1>9, <2>1, <2>2, RestoreEffect DEF effect
    <2>4. TodoInv(op)'
      BY <1>1, <1>2, <1>3, <1>8 DEF TodoInv
    <2>5. StageInv(op)'
      BY <1>8 DEF StageInv
    <2>6. op'.stage \in Writing /\ op'.stage \in Restoration
      BY <1>8 DEF Writing, Restoration
    <2>7. QED
      BY <1>1, <1>2, <1>6, <1>8, <2>2, <2>3, <2>4, <2>5, <2>6, GoesOnAfterWrite
  <1>10. QED
    <2> HIDE DEF checks
    <2>1. QED
      BY <1>5, <1>7, <1>9

\* A foreign change that is younger than everything, a removal, or a permission.
LEMMA ForeignEffect ==
    ASSUME MigrationInv, NEW d \in Documents, ForeignChange(d)
    PROVE  \E y, w : /\ Becomes(d, y, w) /\ w \in {wrote[d], NoPlan}
                     /\ y.edit >= docs[d].edit
                     /\ \/ ~y.here \/ y.edit > edits
                        \/ Content(y) = Content(docs[d]) /\ y.here = docs[d].here
  <1>1. /\ docs \in [Documents -> Doc] /\ wrote \in [Documents -> PlanSet \cup {NoPlan}]
        /\ docs[d] \in Doc /\ docs[d].rev \in Nat /\ docs[d].edit \in Nat
        /\ docs[d].edit \in 0 .. MaxForeign /\ docs[d].edit <= edits
        /\ docs[d].here \in BOOLEAN /\ docs[d].writable \in BOOLEAN
        /\ docs[d].rev + 1 \in Nat /\ edits \in 0 .. MaxForeign
        /\ docs[d].ref \in {"old", "new"}
    BY DocIs DEF MigrationInv, TypesInv, WorldInv, WritesStand
  <1>2. /\ edits' = edits + 1 /\ edits < MaxForeign
    BY DEF ForeignChange
  <1>3. /\ edits' \in {edits, edits + 1} /\ edits' <= MaxForeign /\ edits + 1 \in 0 .. MaxForeign
        /\ docs[d].edit <= edits' /\ edits + 1 > edits /\ edits + 1 >= docs[d].edit
    BY <1>1, <1>2, MigrationConstants
  <1>4. \A q \in Completed(journal) : d \in DOMAIN q.docs =>
            /\ edits + 1 > q.docs[d].edit
            /\ \/ ~docs[d].here
               \/ docs[d].edit > q.docs[d].edit
               \/ Content(docs[d]) = PostContent(q.docs[d])
    <2>1. SUFFICES ASSUME NEW q \in Completed(journal), d \in DOMAIN q.docs
                   PROVE  edits + 1 > q.docs[d].edit
      BY DEF MigrationInv, WorldInv, CompletedStaysApplied
    <2>2. q \in PlanSet /\ q \in DOMAIN journal.states
      BY JournalIs DEF MigrationInv, TypesInv, Completed
    <2>3. q.docs[d].edit \in Nat /\ q.docs[d].edit <= edits
      BY <2>1, <2>2, PlanIs DEF MigrationInv, PlansArePast, MadeOfThePast
    <2>4. QED
      BY <1>1, <2>3
  <1>5. wrote[d] # NoPlan => /\ d \in ChangesOf(wrote[d])
                             /\ Content(docs[d]) = PostContent(wrote[d].docs[d])
    BY DEF MigrationInv, WorldInv, WritesStand
  <1>6. wrote = [wrote EXCEPT ![d] = wrote[d]]
    BY <1>1
  <1>7. CASE \E ref \in {"old", "new"} :
                 /\ docs' = [docs EXCEPT ![d] =
                                [here |-> TRUE, edit |-> edits + 1, ref |-> ref,
                                 rev |-> docs[d].rev + 1,
                                 writable |-> docs[d].here => docs[d].writable]]
                 /\ wrote' = [wrote EXCEPT ![d] = NoPlan]
    <2>1. PICK ref \in {"old", "new"} :
                 /\ docs' = [docs EXCEPT ![d] =
                                [here |-> TRUE, edit |-> edits + 1, ref |-> ref,
                                 rev |-> docs[d].rev + 1,
                                 writable |-> docs[d].here => docs[d].writable]]
                 /\ wrote' = [wrote EXCEPT ![d] = NoPlan]
      BY <1>7
    <2> DEFINE may == docs[d].here => docs[d].writable
               y == [here |-> TRUE, edit |-> edits + 1, ref |-> ref,
                     rev |-> docs[d].rev + 1, writable |-> may]
    <2>2. docs' = [docs EXCEPT ![d] = y] /\ may \in BOOLEAN
      BY <2>1
    <2> HIDE DEF may
    <2>3. y \in Doc /\ y.edit = edits + 1 /\ y.rev = docs[d].rev + 1 /\ y.here
      BY <1>1, <1>3, <2>2 DEF Doc
    <2> HIDE DEF y
    <2>4. y.rev >= docs[d].rev /\ y.rev # docs[d].rev
      BY <1>1, <2>3
    <2>5. y.edit <= edits' /\ y.edit > edits /\ y.edit >= docs[d].edit
      BY <1>1, <1>2, <2>3
    <2>6. Becomes(d, y, NoPlan)
      BY <1>3, <1>4, <2>1, <2>2, <2>3, <2>4, <2>5 DEF Becomes
    <2>7. QED
      BY <2>5, <2>6
  <1>8. CASE /\ docs' = [docs EXCEPT ![d] = [docs[d] EXCEPT !.here = FALSE,
                                                            !.rev = docs[d].rev + 1]]
             /\ wrote' = [wrote EXCEPT ![d] = NoPlan]
    <2> DEFINE n == docs[d].rev + 1
               y == [docs[d] EXCEPT !.here = FALSE, !.rev = n]
    <2>1. docs' = [docs EXCEPT ![d] = y] /\ n \in Nat /\ n >= docs[d].rev /\ n # docs[d].rev
      BY <1>1, <1>8
    <2> HIDE DEF n
    <2>2. y \in Doc /\ y.edit = docs[d].edit /\ y.rev = n /\ ~y.here
      BY <1>1, <2>1 DEF Doc
    <2> HIDE DEF y
    <2>3. y.edit <= edits' /\ y.edit >= docs[d].edit
      BY <1>1, <1>3, <2>2
    <2>4. Becomes(d, y, NoPlan)
      BY <1>3, <1>8, <2>1, <2>2, <2>3 DEF Becomes
    <2>5. QED
      BY <2>2, <2>3, <2>4
  <1>9. CASE /\ docs[d].here /\ docs' = [docs EXCEPT ![d].writable = ~docs[d].writable]
             /\ wrote' = wrote
    <2> DEFINE may == ~docs[d].writable
               y == [docs[d] EXCEPT !.writable = may]
    <2>1. docs' = [docs EXCEPT ![d] = y] /\ may \in BOOLEAN
      BY <1>9
    <2> HIDE DEF may
    <2>2. y \in Doc /\ y.edit = docs[d].edit /\ y.rev = docs[d].rev /\ y.here = docs[d].here
          /\ y.ref = docs[d].ref
      BY <1>1, <2>1 DEF Doc
    <2> HIDE DEF y
    <2>3. Content(y) = Content(docs[d])
      BY <2>2, Contents
    <2>4. y.edit <= edits' /\ y.edit >= docs[d].edit /\ y.rev >= docs[d].rev
      BY <1>1, <1>3, <2>2
    <2>5. wrote' = [wrote EXCEPT ![d] = wrote[d]] /\ wrote[d] \in PlanSet \cup {NoPlan}
      BY <1>1, <1>6, <1>9
    <2>6. \A q \in Completed(journal) : d \in DOMAIN q.docs =>
              ~y.here \/ y.edit > q.docs[d].edit \/ Content(y) = PostContent(q.docs[d])
      BY <1>4, <2>2, <2>3
    <2>7. Becomes(d, y, wrote[d])
      BY <1>3, <1>5, <1>9, <2>1, <2>2, <2>3, <2>4, <2>5, <2>6 DEF Becomes
    <2>8. QED
      BY <2>2, <2>3, <2>4, <2>7
  <1>10. QED
    BY <1>7, <1>8, <1>9 DEF ForeignChange

\* What the coordinator read and journaled is as good after a foreign change as before it.
LEMMA ForeignChangeStep ==
    ASSUME MigrationInv, NEW d \in Documents, ForeignChange(d)
    PROVE  MigrationInv'
  <1>1. UNCHANGED <<subject, journal, jopen, mem, op, faults, crashes>>
    BY DEF ForeignChange
  <1>2. PICK y, w : /\ Becomes(d, y, w) /\ w \in {wrote[d], NoPlan}
                    /\ \/ ~y.here \/ y.edit > edits
                       \/ Content(y) = Content(docs[d]) /\ y.here = docs[d].here
    BY ForeignEffect
  <1>3. /\ WorldInv' /\ PlansArePast'
        /\ docs' \in [Documents -> Doc] /\ wrote' \in [Documents -> PlanSet \cup {NoPlan}]
        /\ edits' \in 0 .. MaxForeign
        /\ \A e \in Documents : e # d => docs'[e] = docs[e] /\ wrote'[e] = wrote[e]
        /\ docs'[d] = y /\ wrote'[d] = w
    BY <1>1, <1>2, WorldMoves
  <1>4. TypesInv'
    BY <1>1, <1>3 DEF MigrationInv, TypesInv
  <1>5. CompletedIsKnown' /\ UnfinishedBlocks(op)'
    BY <1>1 DEF MigrationInv, CompletedIsKnown, UnfinishedBlocks
  <1>6. OpInv(op)'
    <2>1. CASE op.kind = "idle"
      BY <1>1, <2>1 DEF OpInv
    <2>2. CASE op.kind # "idle"
      <3>1. /\ OpInv(op) /\ op.kind \in {"apply", "recover"} /\ op.todo \subseteq Documents
            /\ op.seen \in Found /\ op.originals \in Found /\ op.rev \in Nat
        BY <2>2, OpIs DEF MigrationInv
      <3>2. ApplyInv(op) /\ RecoverInv(op) /\ OriginalsInv(op) /\ TodoInv(op) /\ StageInv(op)
        BY <2>2, <3>1 DEF OpInv
      <3>3. \A e \in Documents, p \in PlanSet : wrote'[e] # NoPlan /\ wrote'[e] = p => Wrote(e, p)
        BY <1>2, <1>3 DEF Wrote
      <3>4. ApplyInv(op)'
        <4>1. op.kind = "apply" =>
                  /\ \A e \in DOMAIN op.seen : PastStill(op.seen[e], e)
                  /\ \A e \in DOMAIN op.originals : PastStill(op.originals[e], e)
          BY <1>2, <3>1, <3>2, FoundIs, PastStays DEF ApplyInv
        <4>2. op'.kind = "apply" =>
                  /\ \A e \in DOMAIN op'.seen : Past(op.seen[e], e)'
                  /\ \A e \in DOMAIN op'.originals : Past(op.originals[e], e)'
          BY <1>1, <4>1 DEF Past, PastStill
        <4>3. QED
          BY <1>1, <3>2, <4>2 DEF ApplyInv
      <3>5. op.plan \in PlanSet
        BY <2>2, OpIs DEF MigrationInv
      <3>6. RecoverInv(op)'
        BY <1>1, <3>2, <3>3, <3>5 DEF RecoverInv, Wrote
      <3>7. OriginalsInv(op)' /\ TodoInv(op)'
        BY <1>1, <3>2 DEF OriginalsInv, TodoInv
      <3>8. op.stage \in {"verify", "completing", "mark"} =>
                \A e \in DOMAIN op.seen : Stands(op.seen[e], e)'
        <4>1. SUFFICES ASSUME op.stage \in {"verify", "completing", "mark"},
                              NEW e \in DOMAIN op.seen
                       PROVE  \/ ~docs'[e].here \/ docs'[e].edit > op.seen[e].edit
                              \/ Content(docs'[e]) = Content(op.seen[e])
          BY <1>1 DEF Stands
        <4>2. op.kind = "apply"
          BY <3>1, <3>2, <4>1 DEF RecoverInv, Restoration
        <4>3. Past(op.seen[e], e) /\ Stands(op.seen[e], e)
          BY <3>2, <4>1, <4>2 DEF ApplyInv, StageInv
        <4>4. e \in Documents /\ op.seen[e] \in Doc
          BY <3>1, FoundIs
        <4>5. CASE e # d
          BY <1>3, <4>3, <4>4, <4>5 DEF Stands
        <4>6. CASE e = d
          <5>1. op.seen[e].edit \in Nat /\ op.seen[e].edit <= edits /\ edits \in Nat
            BY <4>3, <4>4, DocIs, MigrationConstants DEF Past, MigrationInv, TypesInv
          <5>2. y \in Doc /\ y.edit \in Nat
            BY <1>2, DocIs DEF Becomes
          <5>3. CASE ~y.here
            BY <1>3, <4>6, <5>3
          <5>4. CASE y.edit > edits
            BY <1>3, <4>6, <5>1, <5>2, <5>4
          <5>5. CASE Content(y) = Content(docs[d]) /\ y.here = docs[d].here
            <6>1. y.edit = docs[d].edit
              BY <5>5, Contents
            <6>2. QED
              BY <1>3, <4>3, <4>6, <5>5, <6>1 DEF Stands
          <5>6. QED
            BY <1>2, <5>3, <5>4, <5>5
        <4>7. QED
          BY <4>5, <4>6
      <3>9. op.stage = "restore_write" =>
                LET m == Max(op.todo)
                IN  /\ op.rev <= docs'[m].rev
                    /\ op.rev = docs'[m].rev =>
                          docs'[m].here /\ Content(docs'[m]) = PostContent(op.originals[m])
        <4>1. SUFFICES ASSUME op.stage = "restore_write", NEW m, m = Max(op.todo)
                       PROVE  /\ op.rev <= docs'[m].rev
                              /\ op.rev = docs'[m].rev =>
                                    docs'[m].here /\ Content(docs'[m]) = PostContent(op.originals[m])
          OBVIOUS
        <4>2. m \in Documents
          BY <3>1, <3>2, <4>1, MaxIsIn DEF TodoInv
        <4>3. /\ op.rev <= docs[m].rev
              /\ op.rev = docs[m].rev =>
                    docs[m].here /\ Content(docs[m]) = PostContent(op.originals[m])
          BY <3>2, <4>1 DEF StageInv
        <4>4. CASE m # d
          BY <1>3, <4>2, <4>3, <4>4
        <4>5. CASE m = d
          <5>1. docs[d].rev \in Nat /\ y.rev \in Nat /\ y.rev >= docs[d].rev
            BY <1>2, DocIs DEF Becomes, MigrationInv, TypesInv
          <5>2. op.rev <= y.rev
            BY <3>1, <4>3, <4>5, <5>1
          <5>3. op.rev = y.rev => y.rev = docs[d].rev
            BY <3>1, <4>3, <4>5, <5>1
          <5>4. y.rev = docs[d].rev => y.here = docs[d].here /\ Content(y) = Content(docs[d])
            BY <1>2 DEF Becomes
          <5>5. QED
            BY <1>3, <4>3, <4>5, <5>2, <5>3, <5>4
        <4>6. QED
          BY <4>4, <4>5
      <3>10. StageInv(op)'
        BY <1>1, <3>2, <3>3, <3>5, <3>8, <3>9 DEF StageInv, Wrote, Younger, JournaledDocs,
                                                  PostApplyHolds
      <3>11. QED
        BY <3>4, <3>6, <3>7, <3>10 DEF OpInv
    <2>3. QED
      BY <2>1, <2>2
  <1>7. QED
    BY <1>3, <1>4, <1>5, <1>6 DEF MigrationInv

LEMMA AuthorityChangesStep == ASSUME MigrationInv, AuthorityChanges PROVE MigrationInv'
  <1>1. /\ subject < MaxSubjects /\ subject' = subject + 1
        /\ UNCHANGED <<docs, wrote, edits, journal, jopen, mem, op, faults, crashes>>
    BY DEF AuthorityChanges
  <1>2. TypesInv'
    BY <1>1, MigrationConstants DEF MigrationInv, TypesInv
  <1>3. WorldInv'
    BY <1>1, WorldStays
  <1>4. PlansArePast' /\ CompletedIsKnown' /\ UnfinishedBlocks(op)'
    BY <1>1 DEF MigrationInv, PlansArePast, MadeOfThePast, CompletedIsKnown, UnfinishedBlocks
  <1>5. OpInv(op)'
    BY <1>1, OpStays DEF MigrationInv
  <1>6. QED
    BY <1>2, <1>3, <1>4, <1>5 DEF MigrationInv

-----------------------------------------------------------------------------
(* The invariant, and what follows from it. *)

LEMMA MigrationStarts == ASSUME MigrationInit PROVE MigrationInv
  <1> DEFINE none == <<>>
             x == [here |-> TRUE, edit |-> 0, ref |-> "old", rev |-> 0, writable |-> TRUE]
  <1>1. /\ docs = [d \in Documents |-> x] /\ wrote = [d \in Documents |-> NoPlan]
        /\ edits = 0 /\ subject = 0 /\ faults = 0 /\ crashes = 0
        /\ journal = [states |-> none, originals |-> none, completions |-> none]
        /\ jopen = TRUE /\ mem = FromJournal(journal) /\ op = Idle
    BY DEF MigrationInit
  <1>2. /\ none \in Partial(PlanSet, States) /\ none \in Partial(PlanSet, Found)
        /\ DOMAIN none = {}
    BY NothingIsPartial
  <1> HIDE DEF none
  <1>3. /\ journal \in JournalType /\ journal.states = none /\ journal.originals = none
        /\ journal.completions = none
    BY <1>1, <1>2 DEF JournalType
  <1>4. Completed(journal) = {} /\ Incomplete(journal) = {}
    BY <1>2, <1>3 DEF Completed, Incomplete
  <1>5. mem \in MemType /\ DOMAIN mem.states = {} /\ DOMAIN mem.completed = {}
    <2> DEFINE f == [p \in Completed(journal) |-> "complete"]
               c == [p \in Completed(journal) |-> journal.completions[p]]
               b == Incomplete(journal) # {}
    <2>1. f \in [Completed(journal) -> States] /\ DOMAIN f = {}
      BY <1>4
    <2>2. c \in [Completed(journal) -> Found] /\ DOMAIN c = {}
      BY <1>4
    <2>3. Completed(journal) \subseteq PlanSet
      BY <1>4
    <2>4. f \in Partial(PlanSet, States) /\ c \in Partial(PlanSet, Found)
      BY <2>1, <2>2, <2>3, IsPartial
    <2>5. mem = [states |-> f, completed |-> c, blocked |-> b] /\ b \in BOOLEAN
      BY <1>1 DEF FromJournal
    <2> HIDE DEF f, c, b
    <2>6. QED
      BY <2>1, <2>2, <2>4, <2>5 DEF MemType
  <1>6. x \in Doc
    BY MigrationConstants DEF Doc
  <1>7. \A d \in Documents : docs[d].edit = 0 /\ wrote[d] = NoPlan
    BY <1>1
  <1> HIDE DEF x
  <1>8. TypesInv
    BY <1>1, <1>3, <1>5, <1>6, MigrationConstants DEF TypesInv
  <1>9. JournalHolds /\ UnfinishedIsYounger /\ CompletedStaysApplied
    BY <1>2, <1>3, <1>4 DEF JournalHolds, UnfinishedIsYounger, CompletedStaysApplied
  <1>10. WritesStand /\ WritesAreRecoverable
    BY <1>1, <1>7 DEF WritesStand, WritesAreRecoverable
  <1>11. PlansArePast /\ CompletedIsKnown
    BY <1>2, <1>3, <1>4, <1>5 DEF PlansArePast, CompletedIsKnown
  <1>12. UnfinishedBlocks(op) /\ OpInv(op)
    BY <1>1, <1>4 DEF UnfinishedBlocks, OpInv, Idle
  <1>13. QED
    BY <1>8, <1>9, <1>10, <1>11, <1>12 DEF MigrationInv, WorldInv

LEMMA MigrationStep == ASSUME MigrationInv, [MigrationNext]_vars PROVE MigrationInv'
  <1>1. ASSUME NEW expected \in BOOLEAN, CreatePlan(expected) PROVE MigrationInv'
    BY <1>1, CreatePlanStep
  <1>2. ASSUME NEW p \in DOMAIN mem.states, Apply(p) PROVE MigrationInv'
    BY <1>2, ApplyStep
  <1>3. ASSUME NEW p \in DOMAIN journal.states, Recover(p) PROVE MigrationInv'
    BY <1>3, RecoverStep
  <1>4. CASE FetchDocument \/ BeginApplying \/ RejectStale \/ RecordOriginal \/ NothingToChange
    BY <1>4, FetchDocumentStep, BeginApplyingStep, RejectStaleStep, RecordOriginalStep,
       NothingToChangeStep
  <1>5. CASE WriteDocument \/ ReadBack \/ ReadAfterRaise \/ VerifyApplied
    BY <1>5, WriteDocumentStep, ReadBackStep, ReadAfterRaiseStep, VerifyStep
  <1>6. CASE RecordCompletion \/ MarkComplete \/ ReplayCompleted
    BY <1>6, RecordCompletionStep, MarkCompleteStep, ReplayCompletedStep
  <1>7. CASE RestoreRead \/ RestoreWrite \/ RestoreCheck \/ RestoreEnds
    BY <1>7, RestoreReadStep, RestoreWriteStep, RestoreCheckStep, RestoreEndsStep
  <1>8. CASE CompareInventory \/ SettleApply \/ SettleRecover
    BY <1>8, CompareStep, SettleApplyStep, SettleRecoverStep
  <1>9. ASSUME NEW d \in Documents, ForeignChange(d) PROVE MigrationInv'
    BY <1>9, ForeignChangeStep
  <1>10. CASE AuthorityChanges \/ Restart
    BY <1>10, AuthorityChangesStep, RestartStep
  <1>11. CASE UNCHANGED vars
    <2>1. UNCHANGED <<docs, wrote, edits, subject, journal, jopen, mem, op, faults, crashes>>
      BY <1>11 DEF vars
    <2>2. TypesInv'
      BY <2>1 DEF MigrationInv, TypesInv
    <2>3. WorldInv'
      BY <2>1, WorldStays
    <2>4. PlansArePast' /\ CompletedIsKnown' /\ UnfinishedBlocks(op)'
      BY <2>1 DEF MigrationInv, PlansArePast, MadeOfThePast, CompletedIsKnown, UnfinishedBlocks
    <2>5. OpInv(op)'
      BY <2>1, OpStays DEF MigrationInv
    <2>6. QED
      BY <2>2, <2>3, <2>4, <2>5 DEF MigrationInv
  <1>12. QED
    BY <1>1, <1>2, <1>3, <1>4, <1>5, <1>6, <1>7, <1>8, <1>9, <1>10, <1>11
    DEF MigrationNext, Coordinator

\* The inductive invariant holds always: whatever the coordinator is doing, its documents, its
\* journal, its memory and the stage it is in fit together (reference_migration.py).
THEOREM MigrationInvariantHolds == MigrationSpec => []MigrationInv
  <1>1. MigrationInit => MigrationInv
    BY MigrationStarts
  <1>2. MigrationInv /\ [MigrationNext]_vars => MigrationInv'
    BY MigrationStep
  <1>3. QED
    BY <1>1, <1>2, PTL DEF MigrationSpec

\* Wherever the process stops, every write of the coordinator is complete or can be recovered
\* from the journal, and unfinished work blocks the next coordinator.
THEOREM WritesStayRecoverable == MigrationSpec => []MigrationInvariant
  <1>1. ASSUME MigrationInv PROVE MigrationInvariant
    <2>1. /\ journal \in JournalType /\ mem \in MemType /\ TypesInv
      BY <1>1 DEF MigrationInv, TypesInv
    <2>2. /\ \A p \in DOMAIN journal.states : journal.states[p] \in States
          /\ \A p \in DOMAIN mem.states : mem.states[p] \in States
          /\ mem.blocked \in BOOLEAN
      BY <2>1, JournalIs, PartialIs DEF MemType
    <2>3. /\ DOMAIN journal.originals \cup DOMAIN journal.completions \subseteq DOMAIN journal.states
          /\ DOMAIN mem.completed \subseteq DOMAIN mem.states
      BY <1>1 DEF MigrationInv, WorldInv, JournalHolds, CompletedIsKnown
    <2>4. MigrationTypeOK
      BY <2>1, <2>2, <2>3 DEF MigrationTypeOK, TypesInv, Doc
    <2>5. WritesAreRecoverable
      BY <1>1 DEF MigrationInv, WorldInv
    <2>6. UnfinishedWorkBlocks
      BY <1>1 DEF MigrationInv, UnfinishedBlocks, UnfinishedWorkBlocks, Idle
    <2>7. QED
      BY <2>4, <2>5, <2>6 DEF MigrationInvariant
  <1>2. QED
    BY <1>1, MigrationInvariantHolds, PTL

\* No recovery and no other application undoes a plan that is complete.
THEOREM CompletedPlansStand == MigrationSpec => []CompletedStaysApplied
  <1>1. ASSUME MigrationInv PROVE CompletedStaysApplied
    BY <1>1 DEF MigrationInv, WorldInv
  <1>2. QED
    BY <1>1, MigrationInvariantHolds, PTL

\* A step that changes documents changes one, and never to an older edit.
LEMMA EditsNeverGoBack ==
    ASSUME MigrationInv, [MigrationNext]_vars
    PROVE  \A e \in Documents : docs'[e].edit >= docs[e].edit
  <1>1. \A e \in Documents : docs[e].edit \in Nat
    BY DocIs DEF MigrationInv, TypesInv
  <1>2. CASE docs' = docs
    BY <1>1, <1>2
  <1>3. ASSUME NEW d \in Documents, NEW y, NEW w, Becomes(d, y, w), y.edit >= docs[d].edit
        PROVE  \A e \in Documents : docs'[e].edit >= docs[e].edit
    BY <1>1, <1>3 DEF Becomes, MigrationInv, TypesInv
  <1>4. ASSUME NEW d \in Documents, ForeignChange(d)
        PROVE  \A e \in Documents : docs'[e].edit >= docs[e].edit
    BY <1>3, <1>4, ForeignEffect
  <1>5. CASE WriteDocument /\ docs' # docs
    <2>1. /\ op.kind # "idle" /\ op.stage = "write" /\ edits' = edits
      BY <1>5 DEF WriteDocument, InStage
    <2>2. /\ op.todo \subseteq ChangesOf(op.plan) \cap DOMAIN op.originals
          /\ op.todo \subseteq Documents /\ op.todo # {} /\ op.originals \in Found
      BY <2>1, OpIs DEF MigrationInv, OpInv, TodoInv
    <2>3. PICK d \in Documents : d = Min(op.todo) /\ d \in op.todo
      BY <2>2, MinIsIn
    <2>4. PICK o \in Doc : o = op.originals[d]
      BY <2>2, <2>3, FoundIs
    <2>5. /\ CanWrite(d, o.rev) /\ DocumentWritten(d, PostContent(o))
          /\ wrote' = [wrote EXCEPT ![d] = op.plan]
      BY <1>5, <2>3, <2>4 DEF WriteDocument
    <2>6. /\ Becomes(d, Rewritten(docs[d], PostContent(o)), op.plan)
          /\ Rewritten(docs[d], PostContent(o)).edit = docs[d].edit
      BY <2>1, <2>3, <2>4, <2>5, WriteEffect
    <2>7. QED
      BY <1>1, <1>3, <2>6
  <1>6. CASE RestoreWrite /\ docs' # docs
    <2>1. /\ op.kind # "idle" /\ op.stage = "restore_write" /\ edits' = edits
      BY <1>6 DEF RestoreWrite, InStage
    <2>2. /\ op.todo \subseteq ChangesOf(op.plan) \cap DOMAIN op.originals
          /\ op.todo \subseteq Documents /\ op.todo # {} /\ op.originals \in Found
      BY <2>1, OpIs DEF MigrationInv, OpInv, TodoInv
    <2>3. PICK d \in Documents : d = Max(op.todo) /\ d \in op.todo
      BY <2>2, MaxIsIn
    <2>4. PICK o \in Doc : o = op.originals[d]
      BY <2>2, <2>3, FoundIs
    <2>5. /\ CanWrite(d, op.rev) /\ DocumentWritten(d, Content(o))
          /\ wrote' = [wrote EXCEPT ![d] = NoPlan]
      BY <1>6, <2>3, <2>4 DEF RestoreWrite
    <2>6. /\ Becomes(d, Rewritten(docs[d], Content(o)), NoPlan)
          /\ Rewritten(docs[d], Content(o)).edit = docs[d].edit
      BY <2>1, <2>3, <2>4, <2>5, RestoreEffect
    <2>7. QED
      BY <1>1, <1>3, <2>6
  <1>7. \/ docs' = docs \/ WriteDocument \/ RestoreWrite
        \/ \E d \in Documents : ForeignChange(d)
    <2>1. CASE \E expected \in BOOLEAN : CreatePlan(expected)
      BY <2>1 DEF CreatePlan
    <2>2. CASE (\E p \in DOMAIN mem.states : Apply(p)) \/ (\E p \in DOMAIN journal.states : Recover(p))
      BY <2>2 DEF Apply, Recover
    <2>3. CASE FetchDocument \/ BeginApplying \/ RejectStale \/ RecordOriginal \/ NothingToChange
      BY <2>3 DEF FetchDocument, BeginApplying, RejectStale, RecordOriginal, NothingToChange
    <2>4. CASE ReadBack \/ ReadAfterRaise \/ VerifyApplied \/ RecordCompletion
      BY <2>4 DEF ReadBack, ReadAfterRaise, VerifyApplied, RecordCompletion
    <2>5. CASE MarkComplete \/ ReplayCompleted \/ RestoreRead \/ RestoreCheck \/ RestoreEnds
      BY <2>5 DEF MarkComplete, ReplayCompleted, RestoreRead, RestoreCheck, RestoreEnds
    <2>6. CASE CompareInventory \/ SettleApply \/ SettleRecover \/ AuthorityChanges \/ Restart
      BY <2>6 DEF CompareInventory, SettleApply, SettleRecover, AuthorityChanges, Restart
    <2>7. CASE UNCHANGED vars
      BY <2>7 DEF vars
    <2>8. QED
      BY <2>1, <2>2, <2>3, <2>4, <2>5, <2>6, <2>7 DEF MigrationNext, Coordinator
  <1>8. QED
    BY <1>2, <1>4, <1>5, <1>6, <1>7

\* No write of the coordinator, of apply or of a restoration, takes back an edit that somebody
\* else made: what it overwrites is what it read, at the revision it read.
THEOREM ForeignEditsSurvive == MigrationSpec => NoForeignEditIsLost
  <1>1. MigrationInv /\ [MigrationNext]_vars =>
            [\A d \in Documents : docs'[d].edit >= docs[d].edit]_vars
    BY EditsNeverGoBack
  <1>2. QED
    BY <1>1, MigrationInvariantHolds, PTL DEF MigrationSpec, NoForeignEditIsLost

===============================================================================
