---------------------------- MODULE JournalStore ----------------------------
(***************************************************************************)
(* The durable half of the companion App (true_family_journal/server.py):  *)
(* class SQLiteJournalStore with its two tables, the compare-and-swap save *)
(* with its bounded window of replay receipts, the durability barrier, and *)
(* the startup validation of every durable row.                            *)
(*                                                                         *)
(* SQLite itself is external: a transaction is atomic and, in WAL mode     *)
(* with synchronous=FULL, a COMMIT survives a process crash.  So a save is *)
(* one step, a failed save is no step, and closing and crashing leave the  *)
(* same tables behind.  SHA-256 is modelled as an injective tagging.       *)
(***************************************************************************)
EXTENDS Integers, Sequences, FiniteSets

CONSTANTS
    JournalId,      \* journal identities
    Payload,        \* what a root holds besides its journal id and generation
    RequestId,      \* request identities a save can carry
    Digest,         \* digests of save bodies
    MaxGeneration,  \* MAX_GENERATION
    MaxReceipts,    \* MAX_RECEIPTS_PER_JOURNAL
    None            \* the absent row, and the JSON null revision

VARIABLES
    journals,   \* table journals, keyed by journal_id
    receipts,   \* table operation_receipts
    db,         \* is the connection "closed", "open", or did startup refuse it
    log         \* history: the saves committed to each journal, oldest first

storeVars == <<journals, receipts, db, log>>

Generation == 0 .. MaxGeneration
Root       == [journal : JournalId, generation : Generation, payload : Payload]

\* hashlib.sha256(root_bytes): the revision of a root.
RevisionOf(root) == <<"sha256", root>>
Revision         == {RevisionOf(root) : root \in Root}

\* _commit_token: derived from the request identity and the body digest only.
CommitToken(id, digest) == <<"commit", id, digest>>
Token                   == {CommitToken(i, d) : i \in RequestId, d \in Digest}

Row     == [root : Root, generation : Generation, revision : Revision, token : Token]
Receipt == [id : RequestId, digest : Digest, journal : JournalId,
            generation : Generation, revision : Revision, token : Token]

\* The arguments of async_save after its validation: the root names the journal.
SaveRequest == {q \in [id : RequestId, digest : Digest, journal : JournalId,
                       expected : Revision \cup {None}, root : Root] :
                    q.root.journal = q.journal}

ASSUME StoreConstants ==
    /\ MaxGeneration \in Nat
    /\ MaxReceipts \in Nat \ {0}
    /\ None \notin Row
    /\ None \notin Revision

-----------------------------------------------------------------------------
(* Saving. *)

ReceiptsOf(j)   == {rc \in receipts : rc.journal = j}

\* Mutant: a request id is never looked up.
NoReceiptsWith(i) == {}

ReceiptsWith(i) == {rc \in receipts : rc.id = i}

\* The oldest generation whose receipt is kept when a journal is at generation g.
FirstRetained(g) == IF g - MaxReceipts + 1 > 0 THEN g - MaxReceipts + 1 ELSE 0

\* Mutant: only the receipt of the current generation relates to its journal.
RelatesToCurrentOnly(rc, row) ==
    rc.generation = row.generation /\ rc.revision = row.revision /\ rc.token = row.token

\* _validate_receipt_relationship: a receipt may not be newer than its journal,
\* and the receipt of the current generation must be the row's own.
RelatesTo(rc, row) ==
    /\ rc.generation <= row.generation
    /\ rc.generation = row.generation =>
           rc.revision = row.revision /\ rc.token = row.token

CurrentRevision(j) == IF journals[j] = None THEN None ELSE journals[j].revision

\* Mutant: the generation of a save is not compared.
StaleGenerationUnchecked(q) == FALSE

StaleGeneration(q) ==
    IF journals[q.journal] = None
    THEN q.root.generation # 0
    ELSE \/ journals[q.journal].generation >= MaxGeneration
         \/ q.root.generation # journals[q.journal].generation + 1

\* Mutant: the expected revision of a save is not compared.
StaleRevisionUnchecked(q) == FALSE

StaleRevision(q) == q.expected # CurrentRevision(q.journal)

\* A unique index that the INSERT or UPDATE of q would violate.
IndexViolation(q) ==
    \/ \E rc \in receipts :
           \/ rc.token = CommitToken(q.id, q.digest)
           \/ rc.journal = q.journal /\ rc.generation = q.root.generation
    \/ \E j \in JournalId \ {q.journal} :
           journals[j] # None /\ journals[j].token = CommitToken(q.id, q.digest)

\* Mutant: the receipts and the unique indexes are all that stops a repeated save.
SaveOutcomeByIndexes(q) ==
    IF ReceiptsWith(q.id) # {} THEN "replayed"
    ELSE IF IndexViolation(q) THEN "cas_conflict" ELSE "committed"

\* What _save_sync answers to q in the current tables.
SaveOutcome(q) ==
    IF ReceiptsWith(q.id) # {}
    THEN LET rc == CHOOSE r \in ReceiptsWith(q.id) : TRUE
         IN  IF rc.digest # q.digest THEN "request_id_conflict"
             ELSE IF rc.journal = q.journal /\ journals[q.journal] # None
                     /\ RelatesTo(rc, journals[q.journal])
                  THEN "replayed"
                  ELSE "storage_failure"
    ELSE IF StaleGeneration(q) THEN "stale_generation"
    ELSE IF StaleRevision(q)   THEN "stale_revision"
    ELSE IF IndexViolation(q)  THEN "cas_conflict"
    ELSE "committed"

\* The canonical response kept with a receipt: the three columns it was built from.
SaveResponse(q) == [token      |-> CommitToken(q.id, q.digest),
                    generation |-> q.root.generation,
                    revision   |-> RevisionOf(q.root)]

\* Mutant: the row keeps the revision it replaces.
NewRowOldRevision(q) == [root       |-> q.root,
                         generation |-> q.root.generation,
                         revision   |-> CurrentRevision(q.journal),
                         token      |-> CommitToken(q.id, q.digest)]

NewRow(q) == [root       |-> q.root,
              generation |-> q.root.generation,
              revision   |-> RevisionOf(q.root),
              token      |-> CommitToken(q.id, q.digest)]

NewReceipt(q) == [id         |-> q.id,
                  digest     |-> q.digest,
                  journal    |-> q.journal,
                  generation |-> q.root.generation,
                  revision   |-> RevisionOf(q.root),
                  token      |-> CommitToken(q.id, q.digest)]

\* Mutant: the DELETE takes one receipt too many.
ExpiredOneMore(q) == {rc \in receipts : rc.journal = q.journal
                                     /\ rc.generation <= FirstRetained(q.root.generation)}

\* The receipts that the DELETE of the same transaction removes.
Expired(q) == {rc \in receipts : rc.journal = q.journal
                              /\ rc.generation < FirstRetained(q.root.generation)}

\* The transaction of a save that commits; every other outcome changes no row.
SaveSync(q) ==
    /\ db = "open"
    /\ SaveOutcome(q) = "committed"
    /\ journals' = [journals EXCEPT ![q.journal] = NewRow(q)]
    /\ receipts' = (receipts \ Expired(q)) \cup {NewReceipt(q)}
    /\ log' = [log EXCEPT ![q.journal] = Append(@, q)]
    /\ UNCHANGED db

\* _barrier_sync: the token's receipt is still retained and fits its journal.
BarrierHolds(j, token) ==
    \E rc \in receipts : /\ rc.journal = j
                         /\ rc.token = token
                         /\ journals[j] # None
                         /\ RelatesTo(rc, journals[j])

-----------------------------------------------------------------------------
(* Opening and closing. *)

RowDecodes(j) ==
    LET row == journals[j]
    IN  /\ row.root.journal = j
        /\ row.root.generation = row.generation
        /\ row.revision = RevisionOf(row.root)

ReceiptDecodes(rc) == rc.token = CommitToken(rc.id, rc.digest)

\* One receipt for every generation of the retained suffix, and none besides.
SuffixContiguous(j) ==
    /\ {rc.generation : rc \in ReceiptsOf(j)} =
           FirstRetained(journals[j].generation) .. journals[j].generation
    /\ \A r1, r2 \in ReceiptsOf(j) : r1.generation = r2.generation => r1 = r2

\* _validate_durable_rows: the rows startup accepts.
DurableRowsValid ==
    /\ \A j \in JournalId : journals[j] # None => RowDecodes(j) /\ SuffixContiguous(j)
    /\ \A rc \in receipts : /\ ReceiptDecodes(rc)
                            /\ journals[rc.journal] # None
                            /\ RelatesTo(rc, journals[rc.journal])

\* _open_sync: create or validate the tables; a database that does not validate
\* is refused and the App does not start.
OpenSync ==
    /\ db = "closed"
    /\ db' = IF DurableRowsValid THEN "open" ELSE "refused"
    /\ UNCHANGED <<journals, receipts, log>>

\* _close_sync, or the death of the process: committed rows stay.
CloseSync ==
    /\ db = "open"
    /\ db' = "closed"
    /\ UNCHANGED <<journals, receipts, log>>

-----------------------------------------------------------------------------

StoreInit ==
    /\ journals = [j \in JournalId |-> None]
    /\ receipts = {}
    /\ db = "closed"
    /\ log = [j \in JournalId |-> <<>>]

StoreNext ==
    \/ OpenSync
    \/ CloseSync
    \/ \E q \in SaveRequest : SaveSync(q)

StoreSpec == StoreInit /\ [][StoreNext]_storeVars

-----------------------------------------------------------------------------
(* Properties. *)

\* Type invariant of the two tables, the connection and the commit history.
StoreTypeOK ==
    /\ journals \in [JournalId -> Row \cup {None}]
    /\ receipts \subseteq Receipt
    /\ db \in {"closed", "open", "refused"}
    /\ log \in [JournalId -> Seq(SaveRequest)]

\* The App's own startup validation (_validate_durable_rows) never refuses a
\* database the App wrote, at whatever save it was stopped and however many
\* receipts were expired by then.
StartupAccepts == db # "refused" /\ DurableRowsValid

\* Saves form one chain: every committed save named the revision of the save
\* before it, and the row is the last save.  No committed save is ever lost.
CommitsFormAChain ==
    \A j \in JournalId :
        /\ IF log[j] = <<>>
           THEN journals[j] = None
           ELSE journals[j] = NewRow(log[j][Len(log[j])])
        /\ \A i \in 1 .. Len(log[j]) :
               /\ log[j][i].journal = j
               /\ log[j][i].root.generation = i - 1
               /\ log[j][i].expected =
                      IF i = 1 THEN None ELSE RevisionOf(log[j][i - 1].root)

\* Every retained receipt is the receipt of the save that the journal committed
\* at its generation, and no two receipts share a request id: what a replay is
\* answered from is what happened.
ReceiptsTellTheLog ==
    /\ \A rc \in receipts : /\ rc.generation + 1 \in 1 .. Len(log[rc.journal])
                            /\ rc = NewReceipt(log[rc.journal][rc.generation + 1])
    /\ \A r1, r2 \in receipts : r1.id = r2.id => r1 = r2

\* Submitting a committed save again never commits it a second time, whether its
\* receipt is still there, was expired, or its request id was used again since.
NoDoubleCommit ==
    \A j \in JournalId : \A i \in 1 .. Len(log[j]) :
        SaveOutcome(log[j][i]) # "committed"

\* Inside the receipt window a repeated save is answered from its receipt with
\* exactly the response of the save that committed, never with a conflict.
RetainedSavesReplay ==
    \A j \in JournalId : \A i \in 1 .. Len(log[j]) :
        i > Len(log[j]) - MaxReceipts =>
            /\ SaveOutcome(log[j][i]) = "replayed"
            /\ BarrierHolds(j, CommitToken(log[j][i].id, log[j][i].digest))

\* The unique indexes are a second line of defence that the CAS never reaches:
\* no save passes the revision check and then fails on an index.
IndexesNeverFire ==
    \A q \in SaveRequest : SaveOutcome(q) # "cas_conflict"
=============================================================================
