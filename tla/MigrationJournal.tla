-------------------------- MODULE MigrationJournal --------------------------
(***************************************************************************)
(* The journal adapter of reference_migration_ha.py: what each journal     *)
(* method makes of the content, the decoder every content passes, and the  *)
(* adapters that verify, save, barrier and read back one generation after  *)
(* another over a store that may fail, answer late, or outlive them.       *)
(*                                                                         *)
(* Bridge operations appear by what the content couples them to: the write *)
(* of a document is intended, armed, applied, without effect, being undone *)
(* or undone; fences, receipts and observations are BridgeTransaction's.   *)
(***************************************************************************)
EXTENDS Integers, Sequences, FiniteSets

CONSTANTS
    Plans,       \* migration plans
    Documents,
    Changed,     \* the documents each plan changes: [Plans -> SUBSET Documents]
    Bindings,    \* plan, manifest and execution identities a plan may be bound to
    Unbound,     \* the binding without an execution identity
    NoBinding,   \* no binding
    Adapters,    \* adapter objects that exist one after or beside another
    Authorized,  \* the adapters whose store's durability allows host writes
    Nobody,      \* nobody owns the journal
    MaxChanges,  \* bound: generations
    MaxAttempts, \* bound: bridge attempts of a plan
    MaxFaults    \* bound: failing store calls, crashes and shutdowns

ASSUME JournalAssumption ==
    /\ Changed \in [Plans -> SUBSET Documents]
    /\ Unbound \in Bindings /\ NoBinding \notin Bindings /\ Nobody \notin Adapters
    /\ Authorized \subseteq Adapters
    /\ MaxChanges \in Nat /\ MaxAttempts \in Nat /\ MaxFaults \in Nat

VARIABLES
    store,    \* the durable root: [gen, content]
    late,     \* saves whose request is still on its way
    owner,    \* the process owner of the journal
    holder,   \* the adapter inside the ownership lock
    adapter,  \* the adapters
    stopping, \* Home Assistant is stopping
    faults

journalVars == <<store, late, owner, holder, adapter, stopping, faults>>

States == {"none", "planned", "applying", "blocked", "failed", "complete"}
AttemptStates == {"open", "blocked", "committed", "restored"}
WriteStates == {"none", "intended", "armed", "applied", "no_effect", "undoing", "undone"}
Dispatched == WriteStates \ {"none", "intended"}

Attempts == [state : AttemptStates, writes : [Documents -> WriteStates]]
Entries == [state : States, plan : Bindings \cup {NoBinding}, originals : SUBSET Documents,
            completion : Bindings \cup {NoBinding}, attempts : Seq(Attempts)]

NewEntry == [state |-> "none", plan |-> NoBinding, originals |-> {},
             completion |-> NoBinding, attempts |-> <<>>]
NewAttempt == [state |-> "open", writes |-> [d \in Documents |-> "none"]]

\* empty_reference_journal_data
EmptyRoot == [gen |-> 0, content |-> [p \in Plans |-> NewEntry]]

\* A store that holds no journal
Absent == [EmptyRoot EXCEPT !.gen = -1]

Last(e) == e.attempts[Len(e.attempts)]
LastIs(e, states) == e.attempts # <<>> /\ Last(e).state \in states
Restored(e) == e.attempts = <<>> \/ Last(e).state = "restored"

\* A changed plan ends in a committed attempt, an unchanged one has none.
Covered(p, e) ==
    IF Changed[p] = {} THEN e.attempts = <<>> ELSE LastIs(e, {"committed"})

(***************************************************************************)
(* The decoder                                                             *)
(***************************************************************************)
Compatible(attempt) ==
    CASE attempt = "open"      -> {"applying"}
      [] attempt = "committed" -> {"applying", "complete"}
      [] attempt = "restored"  -> {"planned", "applying", "failed", "blocked"}
      [] attempt = "blocked"   -> {"applying", "blocked"}

BridgeContentDecodes(p, e) ==
    e.attempts # <<>> =>
        /\ e.plan # Unbound
        /\ \A i \in 1 .. Len(e.attempts) - 1 : e.attempts[i].state = "restored"
        /\ \A i \in 1 .. Len(e.attempts), d \in Documents :
            /\ e.attempts[i].writes[d] # "none" => d \in Changed[p]
            /\ e.attempts[i].writes[d] \in Dispatched => d \in e.originals
        /\ e.state \in Compatible(Last(e).state)

EntryDecodes(p, e) ==
    /\ e.plan # NoBinding => e.state # "none"
    /\ e.plan = NoBinding =>
        /\ e.originals = {} /\ e.completion = NoBinding /\ e.attempts = <<>>
        /\ e.state \notin {"applying", "blocked", "complete"}
    /\ e.originals \subseteq Changed[p]
    /\ e.state = "complete" => e.completion # NoBinding
    /\ e.completion # NoBinding =>
        /\ e.completion = e.plan /\ e.originals = Changed[p] /\ Covered(p, e)
    /\ BridgeContentDecodes(p, e)

Decodes(content) == \A p \in Plans : EntryDecodes(p, content[p])

(***************************************************************************)
(* What the journal methods make of an entry: the entries a call may save  *)
(***************************************************************************)

\* Mutant: a plan that is bound already is bound again.
RecordPlanAnew(p, e) ==
    IF e.state \in {"none", "planned"}
    THEN {[e EXCEPT !.plan = b, !.state = "planned"] : b \in Bindings} ELSE {}

RecordPlan(p, e) ==
    IF e.plan = NoBinding /\ e.state \in {"none", "planned"}
    THEN {[e EXCEPT !.plan = b, !.state = "planned"] : b \in Bindings} ELSE {}

RecordOriginal(p, e) ==
    IF e.state = "applying" /\ e.plan # NoBinding
    THEN {[e EXCEPT !.originals = @ \cup {d}] : d \in Changed[p]} ELSE {}

RecordCompletion(p, e) ==
    IF /\ e.state = "applying" /\ e.plan # NoBinding
       /\ Covered(p, e) /\ e.originals = Changed[p]
       /\ e.completion = NoBinding
    THEN {[e EXCEPT !.completion = e.plan]} ELSE {}

Allowed(state) ==
    CASE state = "none"     -> {"planned"}
      [] state = "planned"  -> {"applying", "failed"}
      [] state = "applying" -> {"blocked", "complete", "failed"}
      [] state = "blocked"  -> {"failed"}
      [] state = "failed"   -> {"applying", "planned"}
      [] state = "complete" -> {}

SetState(p, e) ==
    {[e EXCEPT !.state = s] : s \in {t \in Allowed(e.state) :
        /\ t \in {"applying", "blocked", "complete"} => e.plan # NoBinding
        /\ t = "complete" => e.completion # NoBinding /\ Covered(p, e)
        /\ e.state = "blocked" /\ t = "failed" => Restored(e)}}

AppendAttempt(p, e) ==
    IF /\ e.state = "applying" /\ e.plan \notin {NoBinding, Unbound}
       /\ Restored(e) /\ Changed[p] # {} /\ Len(e.attempts) < MaxAttempts
    THEN {[e EXCEPT !.attempts = Append(@, NewAttempt)]} ELSE {}

\* The last attempt's writes: an intent, its arming, its outcome, its undoing.
\* Arming needs the durable original of the document it is about to change.
NextWrites(p, e, d) ==
    LET a == Last(e)
        w == a.writes[d]
    IN  (IF w = "none" /\ a.state = "open" /\ d \in Changed[p] THEN {"intended"} ELSE {})
          \cup (IF w = "intended" /\ a.state = "open" /\ d \in e.originals THEN {"armed"} ELSE {})
          \cup (IF w = "armed" THEN {"applied", "no_effect"} ELSE {})
          \cup (IF w = "applied" /\ d \in e.originals THEN {"undoing"} ELSE {})
          \cup (IF w = "undoing" THEN {"undone", "applied"} ELSE {})

\* Terminal states: everything applied; or everything undone, nothing pending.  A fence that
\* cannot be acquired blocks an attempt that wrote nothing, like any later step.
NextAttemptStates(p, a) ==
    (IF a.state = "open" /\ \A d \in Changed[p] : a.writes[d] = "applied"
     THEN {"committed"} ELSE {})
      \cup (IF a.state = "open" THEN {"blocked"} ELSE {})
      \cup (IF /\ a.state \in {"open", "blocked"}
               /\ \A d \in Changed[p] : a.writes[d] \in {"none", "intended", "no_effect", "undone"}
            THEN {"restored"} ELSE {})

ChangedAttempts(p, e) ==
    LET n == Len(e.attempts)
    IN  IF n = 0 \/ Last(e).state \notin {"open", "blocked"} THEN {}
        ELSE (UNION {{[e EXCEPT !.attempts[n].writes[d] = w] : w \in NextWrites(p, e, d)} : d \in Documents})
             \cup {[e EXCEPT !.attempts[n].state = s] : s \in NextAttemptStates(p, Last(e))}

\* Outside of applying only the recovery of a blocked plan may go on.
BridgeChanges(p, e) ==
    {c \in ChangedAttempts(p, e) :
        e.state = "applying" \/ (e.state = "blocked" /\ LastIs(c, {"blocked", "restored"}))}

\* Calls that lead to host writes need a store whose durability allows them.
NeedsAuthority(e, c) ==
    \/ c.state # e.state /\ c.state \in {"applying", "complete"}
    \/ c.originals # e.originals \/ c.completion # e.completion \/ c.attempts # e.attempts

Calls(p, e) ==
    RecordPlan(p, e) \cup RecordOriginal(p, e) \cup RecordCompletion(p, e)
        \cup SetState(p, e) \cup AppendAttempt(p, e) \cup BridgeChanges(p, e)

(***************************************************************************)
(* The adapter                                                             *)
(***************************************************************************)
Closed == [st |-> "closed", failed |-> FALSE, root |-> EmptyRoot, step |-> "idle",
           next |-> EmptyRoot, jobs |-> 0]

JournalInit ==
    /\ store = Absent /\ late = {}
    /\ owner = Nobody /\ holder = Nobody
    /\ adapter = [a \in Adapters |-> Closed]
    /\ stopping = FALSE /\ faults = 0

Fault == faults < MaxFaults /\ faults' = faults + 1

\* async_provision_reference_journal: generation zero into a store that holds
\* nothing, under the lock and while nobody owns the journal
Provisionable == store = Absent /\ owner = Nobody /\ holder = Nobody /\ ~stopping

Provision ==
    /\ Provisionable
    /\ store' = EmptyRoot
    /\ UNCHANGED <<late, owner, holder, adapter, stopping, faults>>

ProvisionFails ==
    /\ Provisionable /\ Fault
    /\ \/ store' = EmptyRoot /\ UNCHANGED late
       \/ late' = late \cup {[over |-> Absent, root |-> EmptyRoot]} /\ UNCHANGED store
    /\ UNCHANGED <<owner, holder, adapter, stopping>>

\* async_create: the store is loaded and decoded under the ownership lock
Create(a) ==
    /\ adapter[a].st = "closed" /\ holder = Nobody /\ owner = Nobody
    /\ store # Absent /\ Decodes(store.content)
    /\ owner' = a
    /\ adapter' = [adapter EXCEPT ![a] = [Closed EXCEPT !.st = "open", !.root = store]]
    /\ UNCHANGED <<store, late, holder, stopping, faults>>

\* async_run
Run(a) ==
    /\ adapter[a].st = "open" /\ owner = a /\ adapter[a].jobs = 0
    /\ adapter' = [adapter EXCEPT ![a].jobs = 1]
    /\ UNCHANGED <<store, late, owner, holder, stopping, faults>>

JobEnds(a) ==
    /\ adapter[a].jobs > 0 /\ adapter[a].step = "idle"
    /\ adapter' = [adapter EXCEPT ![a].jobs = 0]
    /\ UNCHANGED <<store, late, owner, holder, stopping, faults>>

\* Mutant: a candidate is saved without being decoded.
CandidateTrusted(content) == TRUE
CandidateDecodes(content) == Decodes(content)

FailClosed(a) ==
    /\ adapter' = [adapter EXCEPT ![a].failed = TRUE, ![a].step = "idle", ![a].next = EmptyRoot]
    /\ holder' = Nobody

\* A changing call takes the ownership lock, loads the store and compares it
\* with the root it knows, and decodes what it is going to save.
BeginChange(a, p, c) ==
    LET next == [gen |-> adapter[a].root.gen + 1,
                 content |-> [adapter[a].root.content EXCEPT ![p] = c]]
    IN  /\ adapter[a].jobs > 0 /\ adapter[a].step = "idle"
        /\ ~adapter[a].failed
        /\ holder = Nobody
        /\ next.gen <= MaxChanges
        /\ NeedsAuthority(adapter[a].root.content[p], c) => a \in Authorized
        /\ IF owner = a /\ store = adapter[a].root /\ CandidateDecodes(next.content) /\ ~stopping
           THEN /\ holder' = a
                /\ adapter' = [adapter EXCEPT ![a].step = "save", ![a].next = next]
           ELSE FailClosed(a)
        /\ UNCHANGED <<store, late, owner, stopping, faults>>

\* The store saves the next generation over exactly the one it loaded.
Save(a) ==
    /\ adapter[a].step = "save"
    /\ IF store = adapter[a].root
       THEN /\ store' = adapter[a].next
            /\ adapter' = [adapter EXCEPT ![a].step = "confirm"]
            /\ UNCHANGED holder
       ELSE FailClosed(a) /\ UNCHANGED store
    /\ UNCHANGED <<late, owner, stopping, faults>>

\* The barrier, then the read-back that the adapter serves from now on
Confirm(a) ==
    /\ adapter[a].step = "confirm"
    /\ IF store = adapter[a].next
       THEN /\ adapter' = [adapter EXCEPT ![a].step = "idle", ![a].root = store, ![a].next = EmptyRoot]
            /\ holder' = Nobody
       ELSE FailClosed(a)
    /\ UNCHANGED <<store, late, owner, stopping, faults>>

\* Mutant: a failed save leaves the adapter usable with what it meant to save.
FailureForgiven(a) ==
    /\ adapter' = [adapter EXCEPT ![a].step = "idle", ![a].root = adapter[a].next]
    /\ holder' = Nobody
FailureKept(a) == FailClosed(a)

\* A failing save may not have reached the store, may have changed it, or may
\* still be on its way to it.
ChangeFails(a) ==
    /\ adapter[a].step # "idle"
    /\ Fault
    /\ FailureKept(a)
    /\ IF adapter[a].step = "save"
       THEN \/ UNCHANGED <<store, late>>
            \/ store = adapter[a].root /\ store' = adapter[a].next /\ UNCHANGED late
            \/ late' = late \cup {[over |-> adapter[a].root, root |-> adapter[a].next]}
               /\ UNCHANGED store
       ELSE UNCHANGED <<store, late>>
    /\ UNCHANGED <<owner, stopping>>

\* A save that was given up on reaches the store, which still compares.
LateSave(s) ==
    /\ late' = late \ {s}
    /\ store' = IF store = s.over THEN s.root ELSE store
    /\ UNCHANGED <<owner, holder, adapter, stopping, faults>>

\* async_close: no new job; the worker drains, the store closes, then the
\* ownership is given back under its lock.
RequestClose(a) ==
    /\ adapter[a].st = "open"
    /\ adapter' = [adapter EXCEPT ![a].st = "closing"]
    /\ UNCHANGED <<store, late, owner, holder, stopping, faults>>

Drained(a) == adapter[a].jobs = 0

FinishClose(a) ==
    /\ adapter[a].st = "closing" /\ Drained(a)
    /\ holder = Nobody
    /\ owner' = IF owner = a THEN Nobody ELSE owner
    /\ adapter' = [adapter EXCEPT ![a] = [Closed EXCEPT !.jobs = adapter[a].jobs,
                                                        !.root = adapter[a].root]]
    /\ UNCHANGED <<store, late, holder, stopping, faults>>

Stop ==
    /\ ~stopping /\ stopping' = TRUE
    /\ Fault
    /\ UNCHANGED <<store, late, owner, holder, adapter>>

Crash ==
    /\ Fault
    /\ owner' = Nobody /\ holder' = Nobody /\ stopping' = FALSE
    /\ adapter' = [a \in Adapters |-> Closed]
    /\ store' \in {store} \cup {adapter[a].next : a \in
            {b \in Adapters : adapter[b].step = "save" /\ store = adapter[b].root}}
    /\ UNCHANGED late

JournalNext ==
    \/ \E a \in Adapters :
        \/ Create(a) \/ Run(a) \/ JobEnds(a)
        \/ \E p \in Plans : \E c \in Calls(p, adapter[a].root.content[p]) \ {adapter[a].root.content[p]} :
                BeginChange(a, p, c)
        \/ Save(a) \/ Confirm(a) \/ ChangeFails(a)
        \/ RequestClose(a) \/ FinishClose(a)
    \/ \E s \in late : LateSave(s)
    \/ Provision \/ ProvisionFails \/ Stop \/ Crash

JournalSpec == JournalInit /\ [][JournalNext]_journalVars

(***************************************************************************)
(* Properties                                                              *)
(***************************************************************************)
Roots == [gen : -1 .. MaxChanges, content : [Plans -> Entries]]

\* The type of the state; whoever is between the load and the read-back of a
\* change owns the journal and holds its lock, so a closed adapter's worker
\* never writes into its successor's journal.
JournalTypeOK ==
    /\ store \in Roots
    /\ \A s \in late : s.over \in Roots /\ s.root \in Roots
    /\ owner \in Adapters \cup {Nobody} /\ holder \in Adapters \cup {Nobody}
    /\ \A a \in Adapters :
        /\ adapter[a].st \in {"closed", "open", "closing"} /\ adapter[a].failed \in BOOLEAN
        /\ adapter[a].root \in Roots /\ adapter[a].next \in Roots
        /\ adapter[a].step \in {"idle", "save", "confirm"}
        /\ adapter[a].jobs \in 0 .. 1
        /\ adapter[a].step # "idle" => owner = a /\ holder = a
        /\ adapter[a].jobs > 0 => owner = a
    /\ stopping \in BOOLEAN /\ faults \in 0 .. MaxFaults

\* Whatever calls were accepted, failed or cut short, the durable content is
\* one the decoder accepts: the next start is never locked out of the journal
\* that holds the originals it needs.
DurableContentLoads == Decodes(store.content)

\* What the store and its adapters always are: of their types, one owner at a time,
\* and a content that the decoder accepts (decode_reference_journal_data).
AdapterInvariant == JournalTypeOK /\ DurableContentLoads

\* What a usable adapter answers reads from was durable: it is the store's
\* root, or the one that a late save of an earlier adapter replaced since.
ServedRootsWereDurable ==
    \A a \in Adapters :
        owner = a /\ ~adapter[a].failed /\ adapter[a].step = "idle" =>
            \/ adapter[a].root = store
            \/ adapter[a].root.gen < store.gen

\* The store's content is a migration ledger, through ambiguous saves, late
\* saves, crashes and successions of adapters.
Ledger ==
    INSTANCE MigrationLedger WITH
        Writes <- LAMBDA p : Changed[p], ledger <- store.content
ImplementsLedger == Ledger!LedgerSpec
=============================================================================
