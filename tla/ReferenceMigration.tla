------------------------- MODULE ReferenceMigration -------------------------
(***************************************************************************)
(* The direct-write core of the reference migration                        *)
(* (reference_migration.py): a coordinator that plans, applies, verifies   *)
(* and restores changes of documents it does not own, with a journal that  *)
(* survives the process.                                                   *)
(*                                                                         *)
(* Every call of a provider, of the journal or of the authority is one     *)
(* step; between two of them the documents are edited by others, the room  *)
(* changes, calls raise, or the process dies.  A document's payload is     *)
(* [edit, ref]: the edit by somebody else that produced it, and whether it *)
(* refers to the old entity or to its replacement.  Its fingerprint is     *)
(* that payload (Content).  A plan is its own digest: a record of all it   *)
(* was computed from.                                                      *)
(***************************************************************************)
EXTENDS Naturals, FiniteSets, FiniteSetsExt

CONSTANTS
    NDocs,        \* documents of all providers, in the order of the plan
    MaxForeign,   \* bound: edits, removals and permissions by others
    MaxSubjects,  \* bound: changes of the authoritative room state
    MaxFaults,    \* bound: provider or journal calls that raise
    MaxCrashes,   \* bound: restarts of the process
    MaxPlans,     \* bound: plans issued
    NoPlan        \* not a plan

ASSUME MigrationConstants ==
    /\ NDocs \in Nat /\ MaxForeign \in Nat /\ MaxSubjects \in Nat
    /\ MaxFaults \in Nat /\ MaxCrashes \in Nat /\ MaxPlans \in Nat

VARIABLES
    docs,     \* the documents of the providers
    wrote,    \* history: the plan whose postimage stands in a document
    edits,    \* foreign changes made so far
    subject,  \* revision of the room the authority resolves
    journal,  \* what the journal holds durably
    jopen,    \* FALSE once a journal call failed: the adapter is fail-closed
    mem,      \* _plans with _states, _completed and _blocked_reason
    op,       \* the operation the coordinator is in
    faults, crashes

vars == <<docs, wrote, edits, subject, journal, jopen, mem, op, faults, crashes>>

-----------------------------------------------------------------------------

Documents == 1..NDocs

States == {"planned", "applying", "complete", "failed", "blocked"}

Incomplete(j) == {p \in DOMAIN j.states : j.states[p] \in {"applying", "blocked"}}

Completed(j) ==
    {p \in DOMAIN j.states : j.states[p] = "complete" /\ p \in DOMAIN j.completions}

\* canonical_document_fingerprint: of the payload only
Content(x) == [edit |-> x.edit, ref |-> x.ref]

\* post_fingerprint: of the payload with every exact reference replaced
PostContent(x) == [edit |-> x.edit, ref |-> "new"]

Put(f, k, v) == [x \in DOMAIN f \cup {k} |-> IF x = k THEN v ELSE f[x]]

Inventory == {d \in Documents : docs[d].here}

Idle == [kind |-> "idle"]

\* ReferenceMigrationCoordinator.__init__: completed plans are known again, an
\* incomplete one blocks the coordinator
FromJournal(j) ==
    [states |-> [p \in Completed(j) |-> "complete"],
     completed |-> [p \in Completed(j) |-> j.completions[p]],
     blocked |-> Incomplete(j) # {}]

MigrationInit ==
    /\ docs = [d \in Documents |->
                  [here |-> TRUE, edit |-> 0, ref |-> "old", rev |-> 0,
                   writable |-> TRUE]]
    /\ wrote = [d \in Documents |-> NoPlan]
    /\ edits = 0 /\ subject = 0 /\ faults = 0 /\ crashes = 0
    /\ journal = [states |-> <<>>, originals |-> <<>>, completions |-> <<>>]
    /\ jopen = TRUE
    /\ mem = FromJournal(journal)
    /\ op = Idle

-----------------------------------------------------------------------------
(* Calls. *)

\* A journal call that persists j.  When it raises, what is durable is unknown
\* and every later call of the adapter raises until the journal is opened again.
Persist(j, ok, raised) ==
    \/ /\ jopen
       /\ journal' = j
       /\ UNCHANGED <<jopen, faults>>
       /\ ok
    \/ /\ jopen
       /\ faults < MaxFaults
       /\ faults' = faults + 1
       /\ jopen' = FALSE
       /\ journal' \in {journal, j}
       /\ raised
    \/ /\ ~jopen
       /\ UNCHANGED <<journal, jopen, faults>>
       /\ raised

\* A journal call that validates its argument may refuse it and change nothing.
Refuse(raised) ==
    /\ jopen
    /\ faults < MaxFaults
    /\ faults' = faults + 1
    /\ UNCHANGED <<journal, jopen>>
    /\ raised

\* A provider call that raises for reasons of its own.
ProviderRaises ==
    /\ faults < MaxFaults
    /\ faults' = faults + 1

SetState(p, s) == [journal EXCEPT !.states = Put(@, p, s)]

MemState(p, s) == [mem EXCEPT !.states = Put(@, p, s)]

\* write_document is conditional on the revision
CanWrite(d, revision) ==
    docs[d].here /\ docs[d].rev = revision /\ docs[d].writable

DocumentWritten(d, content) ==
    docs' = [docs EXCEPT ![d] =
                [@ EXCEPT !.edit = content.edit, !.ref = content.ref, !.rev = docs[d].rev + 1]]

-----------------------------------------------------------------------------
(* create_plan *)

PlanOf(expected) ==
    [subject |-> subject, expected |-> expected,
     docs |-> [d \in Inventory |->
                  [rev |-> docs[d].rev, edit |-> docs[d].edit, ref |-> docs[d].ref]]]

CreatePlan(expected) ==
    LET p == PlanOf(expected) IN
    /\ op = Idle
    /\ ~mem.blocked
    /\ \A d \in Inventory : docs[d].writable
    /\ expected => \E d \in Inventory : docs[d].ref = "old"
    /\ p \notin DOMAIN mem.states
    /\ Cardinality(DOMAIN journal.states \cup DOMAIN mem.states \cup {p}) <= MaxPlans
    /\ mem' = MemState(p, "planned")
    /\ Persist(SetState(p, "planned"), TRUE, TRUE)
    /\ UNCHANGED <<docs, wrote, edits, subject, op, crashes>>

-----------------------------------------------------------------------------
(* apply: from the preflight to the completion *)

ChangesOf(p) == {d \in DOMAIN p.docs : p.docs[d].ref = "old"}

Fetching(o, stage, some) == [o EXCEPT !.stage = stage, !.todo = some, !.seen = <<>>]

Restoring(attempted) ==
    [op EXCEPT !.stage = "restore", !.todo = attempted, !.failed = FALSE]

\* _assert_preflight
PreflightHolds(p, seen) ==
    /\ DOMAIN seen = DOMAIN p.docs
    /\ \A d \in DOMAIN seen :
          /\ seen[d].rev = p.docs[d].rev
          /\ Content(seen[d]) = Content(p.docs[d])
          /\ seen[d].writable

\* _assert_post_apply
PostApplyHolds(p, seen) ==
    /\ DOMAIN seen = DOMAIN p.docs
    /\ \A d \in DOMAIN seen :
          seen[d].writable /\ Content(seen[d]) = PostContent(p.docs[d])

\* apply up to its first provider call, for the states that go on
Apply(p) ==
    LET begun == [kind |-> "apply", plan |-> p, stage |-> "stale", todo |-> {},
                  seen |-> <<>>, originals |-> <<>>, attempted |-> {},
                  failed |-> FALSE, rev |-> 0]
        stage == IF mem.states[p] = "complete" THEN "replay" ELSE "preflight" IN
    /\ op = Idle
    /\ ~mem.blocked
    /\ mem.states[p] \in {"planned", "failed", "complete"}
    /\ IF subject = p.subject
       THEN /\ op' = Fetching(begun, stage, Documents)
            /\ mem' = mem
       ELSE IF stage = "replay"
       THEN mem' = MemState(p, "blocked") /\ op' = Idle
       ELSE op' = begun /\ mem' = mem
    /\ UNCHANGED <<docs, wrote, edits, subject, journal, jopen, faults, crashes>>

\* Where an operation goes on when reading the inventory raised.
FetchRaised ==
    CASE op.stage = "preflight" -> [op EXCEPT !.stage = "stale"]
      [] op.stage = "verify"    -> Restoring(op.attempted)
      [] op.stage = "inventory" -> [op EXCEPT !.stage = "settle", !.failed = TRUE]
      [] op.stage = "replay"    -> Idle

\* One document of _fetch_inventory; one that is gone is not listed.
FetchDocument ==
    LET d == Min(op.todo) IN
    /\ op.kind # "idle"
    /\ op.stage \in {"preflight", "verify", "inventory", "replay"}
    /\ op.todo # {}
    /\ \/ /\ op' = [op EXCEPT !.todo = @ \ {d},
                              !.seen = IF docs[d].here THEN Put(@, d, docs[d]) ELSE @]
          /\ UNCHANGED <<mem, faults>>
       \/ /\ ProviderRaises
          /\ op' = FetchRaised
          /\ mem' = IF op.stage = "replay" THEN MemState(op.plan, "blocked") ELSE mem
    /\ UNCHANGED <<docs, wrote, edits, subject, journal, jopen, crashes>>

InStage(stage) == op.kind # "idle" /\ op.stage = stage

\* The inventory is complete: compare it and journal the applying state.
BeginApplying ==
    LET p == op.plan IN
    /\ InStage("preflight")
    /\ op.todo = {}
    /\ IF PreflightHolds(p, op.seen)
       THEN /\ mem' = MemState(p, "applying")
            /\ \/ Persist(SetState(p, "applying"),
                          op' = [op EXCEPT !.stage = "record", !.todo = ChangesOf(p),
                                           !.originals = op.seen],
                          op' = Idle)
               \/ Refuse(op' = Idle)
       ELSE /\ op' = [op EXCEPT !.stage = "stale"]
            /\ UNCHANGED <<mem, journal, jopen, faults>>
    /\ UNCHANGED <<docs, wrote, edits, subject, crashes>>

\* A failed preflight: the plan is dead in memory and failed in the journal.
RejectStale ==
    /\ InStage("stale")
    /\ mem' = MemState(op.plan, "blocked")
    /\ op' = Idle
    /\ Persist(SetState(op.plan, "failed"), TRUE, TRUE)
    /\ UNCHANGED <<docs, wrote, edits, subject, crashes>>

\* record_original for the next document to change, or the first write
RecordOriginal ==
    LET p == op.plan
        d == Min(op.todo)
        known == IF p \in DOMAIN journal.originals THEN journal.originals[p] ELSE <<>>
        next == IF op.todo = {d} THEN [op EXCEPT !.stage = "write", !.todo = ChangesOf(p)]
                                 ELSE [op EXCEPT !.todo = @ \ {d}]
        refused == op' = [op EXCEPT !.stage = "settle"] IN
    /\ InStage("record")
    /\ op.todo # {}
    /\ IF d \in DOMAIN known /\ known[d] # op.originals[d]
       THEN refused /\ UNCHANGED <<journal, jopen, faults>>
       ELSE \/ Persist([journal EXCEPT !.originals =
                           Put(@, p, Put(known, d, op.originals[d]))],
                       op' = next, refused)
            \/ Refuse(refused)
    /\ UNCHANGED <<docs, wrote, edits, subject, mem, crashes>>

\* A plan without changes has nothing to journal or to write.
NothingToChange ==
    /\ InStage("record")
    /\ op.todo = {}
    /\ op' = Fetching(op, "verify", Documents)
    /\ UNCHANGED <<docs, wrote, edits, subject, journal, jopen, mem, faults, crashes>>

\* write_document of the next change: it may raise before or after its effect.
WriteDocument ==
    LET d == Min(op.todo)
        original == op.originals[d]
        effect == /\ DocumentWritten(d, PostContent(original))
                  /\ wrote' = [wrote EXCEPT ![d] = op.plan] IN
    /\ InStage("write")
    /\ \/ /\ CanWrite(d, original.rev)
          /\ effect
          /\ op' = [op EXCEPT !.stage = "readback"]
          /\ faults' = faults
       \/ /\ ~CanWrite(d, original.rev)
          /\ op' = [op EXCEPT !.stage = "raised"]
          /\ UNCHANGED <<docs, wrote, faults>>
       \/ /\ ProviderRaises
          /\ op' = [op EXCEPT !.stage = "raised"]
          /\ \/ UNCHANGED <<docs, wrote>>
             \/ CanWrite(d, original.rev) /\ effect
    /\ UNCHANGED <<edits, subject, journal, jopen, mem, crashes>>

Reads(d, content) == docs[d].here /\ Content(docs[d]) = content

\* get_document after a write that returned
ReadBack ==
    LET d == Min(op.todo)
        next == [op EXCEPT !.attempted = @ \cup {d}, !.stage = "write", !.todo = @ \ {d}] IN
    /\ InStage("readback")
    /\ \/ /\ Reads(d, PostContent(op.originals[d]))
          /\ op' = IF op.todo = {d} THEN Fetching(next, "verify", Documents) ELSE next
          /\ faults' = faults
       \/ /\ ~Reads(d, PostContent(op.originals[d]))
          /\ op' = Restoring(op.attempted)
          /\ faults' = faults
       \/ /\ ProviderRaises
          /\ op' = Restoring(op.attempted)
    /\ UNCHANGED <<docs, wrote, edits, subject, journal, jopen, mem, crashes>>

\* get_document after a write that raised: it is restored only if it took effect
ReadAfterRaise ==
    LET d == Min(op.todo) IN
    /\ InStage("raised")
    /\ \/ /\ op' = [Restoring(op.attempted) EXCEPT !.attempted =
                       IF Reads(d, PostContent(op.originals[d])) THEN @ \cup {d} ELSE @,
                    !.todo = IF Reads(d, PostContent(op.originals[d])) THEN @ \cup {d} ELSE @]
          /\ faults' = faults
       \/ /\ ProviderRaises
          /\ op' = Restoring(op.attempted)
    /\ UNCHANGED <<docs, wrote, edits, subject, journal, jopen, mem, crashes>>

\* The final inventory and the authority.
VerifyApplied ==
    /\ InStage("verify")
    /\ op.todo = {}
    /\ op' = IF PostApplyHolds(op.plan, op.seen) /\ subject = op.plan.subject
             THEN [op EXCEPT !.stage = "completing"]
             ELSE Restoring(op.attempted)
    /\ UNCHANGED <<docs, wrote, edits, subject, journal, jopen, mem, faults, crashes>>

CompletionFailed == op' = [op EXCEPT !.stage = "settle", !.failed = TRUE]

\* record_completion
RecordCompletion ==
    LET p == op.plan IN
    /\ InStage("completing")
    /\ IF p \in DOMAIN journal.completions /\ journal.completions[p] # op.seen
       THEN CompletionFailed /\ UNCHANGED <<journal, jopen, faults>>
       ELSE \/ Persist([journal EXCEPT !.completions = Put(@, p, op.seen)],
                       op' = [op EXCEPT !.stage = "mark"], CompletionFailed)
            \/ Refuse(CompletionFailed)
    /\ UNCHANGED <<docs, wrote, edits, subject, mem, crashes>>

\* set_state(COMPLETE) and the return of apply
MarkComplete ==
    LET p == op.plan
        raised == mem' = mem /\ CompletionFailed IN
    /\ InStage("mark")
    /\ \/ Persist(SetState(p, "complete"),
                  /\ mem' = [MemState(p, "complete") EXCEPT
                                !.completed = Put(@, p, op.seen)]
                  /\ op' = Idle,
                  raised)
       \/ Refuse(raised)
    /\ UNCHANGED <<docs, wrote, edits, subject, crashes>>

\* _replay_completed: a completed plan answers only while its documents stand
ReplayCompleted ==
    LET p == op.plan IN
    /\ InStage("replay")
    /\ op.todo = {}
    /\ op' = Idle
    /\ mem' = IF op.seen = mem.completed[p] /\ PostApplyHolds(p, op.seen)
              THEN mem ELSE MemState(p, "blocked")
    /\ UNCHANGED <<docs, wrote, edits, subject, journal, jopen, faults, crashes>>

-----------------------------------------------------------------------------
(* _restore_originals, for a failed apply and for recover_incomplete *)

RestoreNext(d, failed) ==
    [op EXCEPT !.stage = "restore", !.todo = @ \ {d}, !.rev = 0,
               !.failed = @ \/ failed]

\* Mutant: restores whatever differs from the original.
RestoreReadBlindly ==
    LET d == Max(op.todo)
        original == op.originals[d] IN
    /\ InStage("restore")
    /\ op.todo # {}
    /\ op' = IF Reads(d, Content(original))
             THEN [op EXCEPT !.stage = "restore_check"]
             ELSE [op EXCEPT !.stage = "restore_write", !.rev = docs[d].rev]
    /\ UNCHANGED <<docs, wrote, edits, subject, journal, jopen, mem, faults, crashes>>

\* the current document: restored only if it still is the planned postimage
RestoreRead ==
    LET d == Max(op.todo)
        original == op.originals[d] IN
    /\ InStage("restore")
    /\ op.todo # {}
    /\ \/ /\ op' = IF Reads(d, PostContent(original))
                   THEN [op EXCEPT !.stage = "restore_write", !.rev = docs[d].rev]
                   ELSE IF Reads(d, Content(original))
                   THEN [op EXCEPT !.stage = "restore_check"]
                   ELSE RestoreNext(d, TRUE)
          /\ faults' = faults
       \/ ProviderRaises /\ op' = RestoreNext(d, TRUE)
    /\ UNCHANGED <<docs, wrote, edits, subject, journal, jopen, mem, crashes>>

RestoreWrite ==
    LET d == Max(op.todo)
        effect == /\ DocumentWritten(d, Content(op.originals[d]))
                  /\ wrote' = [wrote EXCEPT ![d] = NoPlan] IN
    /\ InStage("restore_write")
    /\ \/ /\ CanWrite(d, op.rev)
          /\ effect
          /\ op' = [op EXCEPT !.stage = "restore_check"]
          /\ faults' = faults
       \/ /\ ~CanWrite(d, op.rev)
          /\ op' = RestoreNext(d, TRUE)
          /\ UNCHANGED <<docs, wrote, faults>>
       \/ /\ ProviderRaises
          /\ op' = RestoreNext(d, TRUE)
          /\ \/ UNCHANGED <<docs, wrote>>
             \/ CanWrite(d, op.rev) /\ effect
    /\ UNCHANGED <<edits, subject, journal, jopen, mem, crashes>>

RestoreCheck ==
    LET d == Max(op.todo) IN
    /\ InStage("restore_check")
    /\ \/ /\ op' = RestoreNext(d, ~Reads(d, Content(op.originals[d])))
          /\ faults' = faults
       \/ ProviderRaises /\ op' = RestoreNext(d, TRUE)
    /\ UNCHANGED <<docs, wrote, edits, subject, journal, jopen, mem, crashes>>

\* Everything attempted was handled: read all providers again, or in a recovery
\* the journaled documents.
RestoreEnds ==
    /\ InStage("restore")
    /\ op.todo = {}
    /\ op' = Fetching(op, "inventory",
                      IF op.kind = "apply" THEN Documents ELSE DOMAIN op.originals)
    /\ UNCHANGED <<docs, wrote, edits, subject, journal, jopen, mem, faults, crashes>>

\* Mutant: trusts the restored documents and compares nothing.
CompareInventoryTrusting ==
    /\ InStage("inventory")
    /\ op.todo = {}
    /\ op' = [op EXCEPT !.stage = "settle"]
    /\ UNCHANGED <<docs, wrote, edits, subject, journal, jopen, mem, faults, crashes>>

CompareInventory ==
    /\ InStage("inventory")
    /\ op.todo = {}
    /\ op' = [op EXCEPT !.stage = "settle",
                        !.failed = \/ @
                                   \/ DOMAIN op.seen # DOMAIN op.originals
                                   \/ \E d \in DOMAIN op.seen :
                                         \/ Content(op.seen[d]) # Content(op.originals[d])
                                         \/ op.seen[d].writable # op.originals[d].writable]
    /\ UNCHANGED <<docs, wrote, edits, subject, journal, jopen, mem, faults, crashes>>

\* The state a failed apply ends in.
SettleApply ==
    LET p == op.plan
        state == IF op.failed THEN "blocked" ELSE "failed" IN
    /\ InStage("settle")
    /\ op.kind = "apply"
    /\ mem' = [MemState(p, state) EXCEPT !.blocked = @ \/ op.failed]
    /\ op' = Idle
    /\ Persist(SetState(p, state), TRUE, TRUE)
    /\ UNCHANGED <<docs, wrote, edits, subject, crashes>>

\* Mutant: a completed plan is recovered like an incomplete one.
RecoverAnything(p) ==
    LET originals == IF p \in DOMAIN journal.originals THEN journal.originals[p] ELSE <<>> IN
    /\ op = Idle
    /\ jopen
    /\ p \in DOMAIN journal.states
    /\ op' = [kind |-> "recover", plan |-> p, stage |-> "restore",
              todo |-> DOMAIN originals, seen |-> <<>>, originals |-> originals,
              attempted |-> DOMAIN originals, failed |-> FALSE, rev |-> 0]
    /\ UNCHANGED <<docs, wrote, edits, subject, journal, jopen, mem, faults, crashes>>

\* recover_incomplete up to the restoration
Recover(p) ==
    LET originals == IF p \in DOMAIN journal.originals THEN journal.originals[p] ELSE <<>> IN
    /\ op = Idle
    /\ jopen
    /\ p \in Incomplete(journal)
    /\ op' = [kind |-> "recover", plan |-> p, stage |-> "restore",
              todo |-> DOMAIN originals, seen |-> <<>>, originals |-> originals,
              attempted |-> DOMAIN originals, failed |-> FALSE, rev |-> 0]
    /\ UNCHANGED <<docs, wrote, edits, subject, journal, jopen, mem, faults, crashes>>

\* The end of recover_incomplete: the journal first, then the memory.
SettleRecover ==
    LET p == op.plan IN
    /\ InStage("settle")
    /\ op.kind = "recover"
    /\ op' = Idle
    /\ IF op.failed
       THEN Persist(SetState(p, "blocked"), mem' = [mem EXCEPT !.blocked = TRUE], mem' = mem)
       ELSE Persist(SetState(p, "failed"),
                    mem' = [states |-> [q \in DOMAIN mem.states |->
                                           IF q = p THEN "failed" ELSE mem.states[q]],
                            completed |-> [q \in DOMAIN mem.completed \ {p} |->
                                              mem.completed[q]],
                            blocked |-> Incomplete(SetState(p, "failed")) # {}],
                    mem' = mem)
    /\ UNCHANGED <<docs, wrote, edits, subject, crashes>>

-----------------------------------------------------------------------------
(* The rest of the world. *)

\* Somebody edits, recreates or removes a document, or changes its permission.
ForeignChange(d) ==
    /\ edits < MaxForeign
    /\ edits' = edits + 1
    /\ \/ /\ \E ref \in {"old", "new"} :
                docs' = [docs EXCEPT ![d] =
                            [here |-> TRUE, edit |-> edits + 1, ref |-> ref,
                             rev |-> @.rev + 1,
                             writable |-> @.here => @.writable]]
          /\ wrote' = [wrote EXCEPT ![d] = NoPlan]
       \/ /\ docs[d].here
          /\ docs' = [docs EXCEPT ![d] = [@ EXCEPT !.here = FALSE, !.rev = docs[d].rev + 1]]
          /\ wrote' = [wrote EXCEPT ![d] = NoPlan]
       \/ /\ docs[d].here
          /\ docs' = [docs EXCEPT ![d].writable = ~@]
          /\ wrote' = wrote
    /\ UNCHANGED <<subject, journal, jopen, mem, op, faults, crashes>>

AuthorityChanges ==
    /\ subject < MaxSubjects
    /\ subject' = subject + 1
    /\ UNCHANGED <<docs, wrote, edits, journal, jopen, mem, op, faults, crashes>>

\* The process dies; the next one opens the journal and builds a coordinator.
Restart ==
    /\ crashes < MaxCrashes
    /\ crashes' = crashes + 1
    /\ op' = Idle
    /\ jopen' = TRUE
    /\ mem' = FromJournal(journal)
    /\ UNCHANGED <<docs, wrote, edits, subject, journal, faults>>

-----------------------------------------------------------------------------

Coordinator ==
    \/ FetchDocument \/ BeginApplying \/ RejectStale \/ RecordOriginal
    \/ NothingToChange \/ WriteDocument \/ ReadBack \/ ReadAfterRaise
    \/ VerifyApplied \/ RecordCompletion \/ MarkComplete \/ ReplayCompleted
    \/ RestoreRead \/ RestoreWrite \/ RestoreCheck \/ RestoreEnds
    \/ CompareInventory \/ SettleApply \/ SettleRecover

MigrationNext ==
    \/ \E expected \in BOOLEAN : CreatePlan(expected)
    \/ \E p \in DOMAIN mem.states : Apply(p)
    \/ \E p \in DOMAIN journal.states : Recover(p)
    \/ Coordinator
    \/ \E d \in Documents : ForeignChange(d)
    \/ AuthorityChanges
    \/ Restart

MigrationSpec == MigrationInit /\ [][MigrationNext]_vars

-----------------------------------------------------------------------------
(* Properties. *)

\* Documents, journal, memory and operation keep the shapes of the code's
\* dictionaries: what is completed was planned, and an original or completion
\* belongs to a plan with a state.
MigrationTypeOK ==
    /\ docs \in [Documents -> [here : BOOLEAN, edit : 0..MaxForeign,
                               ref : {"old", "new"}, rev : Nat, writable : BOOLEAN]]
    /\ edits \in 0..MaxForeign /\ subject \in 0..MaxSubjects
    /\ faults \in 0..MaxFaults /\ crashes \in 0..MaxCrashes
    /\ jopen \in BOOLEAN /\ mem.blocked \in BOOLEAN
    /\ \A p \in DOMAIN journal.states : journal.states[p] \in States
    /\ \A p \in DOMAIN mem.states : mem.states[p] \in States
    /\ DOMAIN journal.originals \cup DOMAIN journal.completions \subseteq DOMAIN journal.states
    /\ DOMAIN mem.completed \subseteq DOMAIN mem.states

\* Wherever the process stops, a document that holds the coordinator's write is
\* either part of a completed plan or covered by a journaled original of a plan
\* that blocks the next coordinator until it is recovered.
WritesAreRecoverable ==
    \A d \in Documents :
        wrote[d] # NoPlan =>
            LET p == wrote[d] IN
            /\ p \in DOMAIN journal.states
            /\ \/ journal.states[p] = "complete"
               \/ /\ p \in Incomplete(journal)
                  /\ p \in DOMAIN journal.originals
                  /\ d \in DOMAIN journal.originals[p]
                  /\ Content(journal.originals[p][d]) = Content(p.docs[d])

\* No write of the coordinator, neither of apply nor of a restoration, takes
\* back an edit that somebody else made.
NoForeignEditIsLost ==
    [][\A d \in Documents : docs'[d].edit >= docs[d].edit]_vars

\* A plan recorded as complete stays applied: unless somebody else edited or
\* removed a document, it holds the postimage of every completed plan; no
\* recovery of another plan undoes it.
CompletedStaysApplied ==
    \A p \in Completed(journal) : \A d \in DOMAIN p.docs :
        \/ ~docs[d].here
        \/ docs[d].edit > p.docs[d].edit
        \/ Content(docs[d]) = PostContent(p.docs[d])

\* While a plan is unfinished in a journal that works, an idle coordinator
\* plans and applies nothing.
UnfinishedWorkBlocks ==
    op = Idle /\ jopen /\ Incomplete(journal) # {} => mem.blocked

\* What a crash may find at any moment (ReferenceMigrationCoordinator): every write is
\* recoverable, and unfinished work blocks whoever comes next.
MigrationInvariant == MigrationTypeOK /\ WritesAreRecoverable /\ UnfinishedWorkBlocks

=============================================================================
