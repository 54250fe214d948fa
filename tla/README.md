# TLA+ specifications of the True Family integration and its journal App

This directory models the program in `src/`: a Home Assistant custom
integration that gives seven rooms stable climate entities while the radiator
valves behind them are replaced, and the companion App that keeps a durable
journal for it. The modules are translated from the code; every definition is
listed in `PROJECT.json` under `map` with the lines it stands for.

## 1. The system

| Component | State it keeps | Operations | Talks to |
|---|---|---|---|
| SQLite journal store (`true_family_journal/server.py`, `SQLiteJournalStore`) | tables `journals` and `operation_receipts` | open with strict validation, load, compare-and-swap save, barrier, close | called by the App's handlers through one worker thread |
| Journal App process (`server.py`, the rest) | boot id and key, replay guard, connections, worker queue | authenticate, admit, answer; publish discovery; drain and close | HTTP from Home Assistant, discovery record of the Supervisor |
| Remote journal client (`reference_journal_remote.py`) | endpoint, snapshot, pending save, commit, poisoned flags | open, load, save, replay, barrier, close under an operation lock | HTTP to the App |
| Discovery (`reference_journal_discovery.py`, `__init__.py`) | endpoint of the config entry, pending reload | accept an endpoint, reload the entry | Supervisor, config entries |
| Valve replacement runtime (`replacement.py`, `models.py`) | rooms, sessions, join lease, retained tasks, operation task | pair, cancel, commit, roll back, repair, set a target, unload | bridge client, climate services, `entry.data` |
| Bridge client (`mqtt.py`) | observed bridge states by generation, pending requests, opening in progress, closing proof | open joining, close joining with proof, notify the runtime | MQTT broker and Zigbee2MQTT |
| Bootstrap (`bootstrap.py`, `bootstrap_ha.py`) | plan of initial bindings | plan, confirm, commit to `entry.data` | registries |
| Reference migration coordinator (`reference_migration.py`) | plans in memory, record of the journal, one operation | plan, apply, restore, complete, recover | providers, journal, authority |
| Migration in Home Assistant (`reference_migration_ha.py`) | the adapter: loaded root, owner of the journal, worker jobs, bindings of plans | open, provision, record plans and attempts, save with barrier and read-back, close | remote or file journal |
| Bridge transaction recorder (`reference_transaction.py`) | attempts, fence, release and operation records, observations | record, arm, dispatch, reconcile, acknowledge, verify, retry | operation journal, hosts of the providers |
| File journal (`reference_journal_file.py`) | journal file, its temporary, the lock file, a worker queue, a poisoned flag | open under the lock, load, crash-durable replacement, barrier, close, fork handler | file system |
| Setup manager (`setup_manager.py`) | plans shown to the administrator, what needs recovery | plan, confirm, commit, recover, status | bootstrap, an external migration executor |
| Physical probe contracts (`physical_probe.py`) | recovery record | arm, accept a proof, restore, fail safe, remediate, acknowledge | probe extension |
| Probe extension (`probe/true_family_brt_probe.mjs`) | atomic probe journal, bounded serial queue | arm, probe, restore, recover at start | Zigbee2MQTT |
| Providers and projection (`reference_providers_ha.py`, `reference_projection.py`), preflight (`physical_probe_preflight.py`) | none | pure parsing and validation | |
| Config flow, websocket API, climate proxies | none of their own | thin calls into the runtime and the setup manager | |
| Prototype backend, demo frontend, scripts, CI | | not part of the running integration | |

### What is hard in it

* Replies are lost while saves commit; clients are replaced while their last
  request is still on the wire; the App restarts with a new key and an empty
  replay guard.
* The receipt window is finite and computed in two places, and the startup
  validation refuses a database that does not fit it.
* The runtime is one event loop, so races happen only at awaits, but every
  proof of the bridge is awaited under the mutation lock while synchronous MQTT
  callbacks fail sessions behind it.
* Joining that is left open is a household hazard: every path that fails,
  cancels, unloads or dies must leave somebody responsible for closing it.
* A room must keep its target temperature and its way back through every switch.
* A change over two bridges has no transaction: what a request did is known only
  from a ledger of the host, and requests arrive after the attempt has ended.
* A rename is visible before it is durable, and a fork inherits the lock.
* Plans shown to a user are used several awaits later, after reloads and restarts.

## 2. Modules

| Module | Models | Depends on |
|---|---|---|
| `JournalStore` | tables, save transaction, barrier, startup validation | |
| `JournalServer` | the App process around the store | `JournalStore` |
| `CasJournal` | abstract compare-and-swap journal | |
| `RemoteJournal` | clients, network and App composed; refines `CasJournal` | `JournalServer` |
| `RemoteJournalProofs` | the proofs about the store, and about the whole path to it, the refinement among them | `RemoteJournal` |
| `ValveReplacement` | the replacement runtime | |
| `ValveReplacementProofs` | the proofs about it | `ValveReplacement` |
| `JoinBarrier` | abstract promise of the bridge client: what a proved opening or closing means | |
| `PermitJoin` | the bridge client, the broker and Zigbee2MQTT; refines `JoinBarrier` | `JoinBarrier` |
| `ReferenceMigration` | the migration coordinator, its journal, the providers it writes to | |
| `ReferenceMigrationProofs` | the proofs about it | `ReferenceMigration` |
| `MigrationLedger` | abstract ledger of plans: what may follow what | |
| `MigrationJournal` | the journal adapter of Home Assistant over a journal store; refines `MigrationLedger` | |
| `MigrationJournalProofs` | the proofs about it, the refinement among them | `MigrationJournal` |
| `AllOrNothing` | abstract change of several documents | |
| `BridgeTransaction` | the transaction recorder, its journal and the hosts; refines `AllOrNothing` | |
| `BridgeTransactionProofs` | the proofs about it, the refinement among them | `BridgeTransaction` |
| `DurableRegister` | abstract durable register with ambiguous writes | |
| `FileJournal` | the file store over a disk that loses power; refines `DurableRegister` | |
| `FileJournalProofs` | the proofs about it, the refinement among them | `FileJournal` |
| `PhysicalProbe` | the recovery record of a probe and the extension's queue, journal and core, with the valve it changes | |
| `ZigbeeProofs` | the proofs about the bridge client, the refinement among them, and about the probe | `PermitJoin`, `PhysicalProbe` |
| `EntryLifecycle` | discovery, setup, reload, unload of the config entry | |
| `RoomBootstrap` | evidence, plan and one-time commit of the rooms | |
| `SetupManager` | planning, committing and recovering a migration | |
| `SetupProofs` | the proofs about the entry, the bootstrap and the manager | `MCSetup` |
| `MC*` | constants, symmetry and studies for TLC | |

A `Mutant` operator in a module is a form of the definition below it that is
wrong the way the code could be; no specification uses it.

### JournalStore

A save is one SQLite transaction, hence one step; everything a rolled back
transaction leaves behind is nothing. `SaveOutcome` is the answer of
`_save_sync` in the current tables, in the order of its checks: receipt of the
same request id, generation, revision, unique indexes. `SaveSync` is the
committing case with the DELETE of expired receipts, which is part of the same
transaction. `OpenSync` opens the database if `_validate_durable_rows` accepts
it. A crash is `CloseSync`: WAL with `synchronous=FULL` keeps what committed.
SHA-256 is an injective tagging of what it digests. `log` is a history variable.

### JournalServer and RemoteJournal

A message is in `inbox` until the process takes it or for ever (a lost
request). A reply exists only for a connection that is still open. `Admit` is
the handler up to the await of the worker: signature of the current boot, save
identity derived from the body, replay guard, submission. `WorkerRuns` is the
worker's call together with the signed answer. `Stop`, `DrainEnds` and
`CloseStore` follow the shutdown order listener, handlers, worker, database.

A client's operation holds `call` (its operation lock) from the request to the
reply, the failure or the timeout. The `except` clauses are in `Fails`: only a
signed conflict or rejection of a first submission is a definite failure;
transport errors, timeouts and signed 5xx leave a save ambiguous and replayable.

### ValveReplacement

A task runs until it awaits. `lock` names the task holding `_mutation_lock`
and the await it is in; stage `run` means it is running. A test of a valve
waits under the lock of its room, as a record of `ops` with its own stage. The
bridge callback (`BridgeStateChanges`) is not a task: it happens at any await.
A test remembers in `shared` whether another one was ever under way beside it:
nothing in the code keeps two sessions from waiting on tests of one valve, and
`SwitchKeepsTheTarget` promises nothing of such a pair (see Findings).
The MQTT client is taken at what its barriers promise: a closing is proved only
if nothing unsafe was seen after the request, an opening only if besides no
opening of somebody else was seen (`taint`). These are the promises of
`JoinBarrier`, which `PermitJoin` shows the client to keep. The closed baseline
of the client (`proved`) is current, aged or absent: it ages by time and is
renewed by the next closed state. A valve stands for its IEEE address
and its registry entry. Time is not counted: a deadline may pass at any moment.

### PermitJoin and JoinBarrier

The bridge publishes its state, its info and its responses in order to one
queue (`toClient`), from which the client's callbacks take one message at a time;
retained messages come again after a reconnect. Requests carry a transaction
number. `OpenJoin`, `CloseJoin` and `PublishCloseJoin` are the client up to its
awaits, `OpenJoinProved` and `CloseJoinProved` what follows when the proof is
in, `JoinRequestFails` every timeout and error. Opening states are attributed
by `ClassifyOpen`: provisional until the response of the same transaction
arrives. Other clients, a restart of the bridge, a malformed message and a lost
connection are faults that may happen at any point. `JoinBarrier` says what the
runtime may conclude, without messages or attribution.

### PhysicalProbe

A probe proves that a person stands at the valve: two turns of its knob, a no-op
command, a challenge that sets another target, and the restore of the intended
one. `record` is the recovery record, from which every later start has to know
whether the valve may still have the challenge target. The operators of the
record (`AfterProof`, `RestoreRecord`, `ResultRecord`, ...) are the transitions of
`physical_probe.py`, `RecordValid` its validation with the sequences each phase
must leave for what may still have to be sent. The extension repeats both in
JavaScript.

The core does one task of its serial queue at a time; `task` names the await the
task is at, `core` its latches. A handler runs to its first await in one action
and ends in the next task: resolving a candidate (`resolve`), writing the journal
(`commit`), the race of a command with its deadline (`dispatch`), restores that no
record claims (`safety`), the record of a remediation (`persist`). A write may
succeed, fail before the rename, end in doubt after it (`CommitUncertain`, and the
file is read again) or outlive its timeout and happen later (`CommitTimesOut`). A
command is authorised when it is captured and again when its candidate is
resolved, which may be after its task went on; `Invoke` is the second look.
`AfterCrash` is every directory a crash at this moment may leave: the file, an
older one if its directory entry was not yet durable, and, of a write under way
(a commit, a remediation, a late write, or the remediation a load makes of two
files), a temporary file beside it, empty or torn, or whole. `RestartProcess` goes on
from any of these, and a load that was given up may still have written what it made.

A torn temporary file has consequences that the model keeps. `load` rejects the whole
evidence (`#readEvidence`), at every start, because nothing removes the file: the core is
blocked and restores nothing, although the main file owes the restore. The JavaScript
tests require that corrupt temporary evidence is preserved, so this is what the code
intends; `DebtIsDurable` says what is still true then: the main file owes the restore, so
the debt can be settled by whoever clears the temporary file, and the core takes no request that
would write over it. Only the directories a start can read lead it to the restore by itself.

Left out: a failed write whose temporary file cannot be removed either (in a living
process), a second whole temporary file, which adds evidence of the same debt until
there are too many to load, the radio's own queue (an invoked command is executed at
once or never), publications, request ids and nonces, frame decoding, a scheduler
that throws, and a reload of the extension inside a living process. The three
attempts of an unclaimed restore are one step, failure codes are those that ask for
remediation and the others, and the core's continuation runs with the completion of
its write.

### ReferenceMigration

One step per call of a provider, the journal or the authority; others edit
documents between any two. A payload is the foreign edit it stems from and the
entity it refers to; fingerprints compare payloads, revisions guard writes. A
call may raise before or after its effect. The journal follows the adapter in
`reference_migration_ha.py`: once a write is ambiguous every call raises until
it is opened again; calls that validate may also refuse without effect. `wrote`
is a history variable: whose postimage stands in a document. Planning reads its
documents in one step, which the preflight makes equivalent: it compares every
revision again. Plans are their own digests. Embedded references and malformed
payloads only refuse a plan, like a read-only document.

### MigrationJournal and MigrationLedger

What `ReferenceMigration` takes as one call is opened up here. The content of
the journal is one entry per plan: its state, its binding, its attempts with
their bridges, its completion. Each journal method is an operator from an entry
to the set of entries it may leave, empty where the method raises
(`RecordPlan`, `SetState`, ...); `CandidateDecodes` is the decoder that every
candidate has to pass before it is saved, with the same rules by which the next
process loads. A change goes through `_async_change`: take the operation lock,
build the candidate, save, barrier, read back. A save may be refused, take
effect and raise, or be given up and arrive later (`late`); the first ambiguous
one makes the adapter refuse everything until it is closed. Adapters own the
journal one at a time (`owner`); closing waits for the jobs of the worker.
`MigrationLedger` says what a journal of plans is without any of this: a plan is
bound once, moves only along its states, and each call takes effect at most once.

### BridgeTransaction and AllOrNothing

`journal` is the sequence of attempts as the operation journal holds it:
acquisitions of fences, operations (writes and rollbacks) and releases, each a
record that goes through recorded, armed, acknowledged, verified or blocked.
`observed` is the caller's memory, gone after a crash. The hosts are external and are
modelled as the recorder's protocol describes them: a ledger of every effect
(`effects`, `fences`, `releases`), a binding per provider, a high-water mark per
epoch, leases that run out, receipts that are forgotten (`recent`). A request
stays on the `wire` for ever and may arrive at any time or never. Each method of
`BridgeTransactionRecorder` is an action with its checks (`SuccessionValid`,
`EffectResolved`, `WriteTakenBack`, ...). `AllOrNothing` says that a committed
transaction is in force in every document of its plan and a restored one in none.

### FileJournal and DurableRegister

The directory is a history of entries, of which the last is visible and each is
possible after a power cut until a directory fsync; a file has contents that are
seen and contents that may be kept. Opening, saving and the barrier are one step
per system call that another process or a power cut could come between. `poison`
is `_poisoned` with its reason. A store is a process: a second one waits for the
flock, which goes with its descriptor, and a fork taken between the creation of
the descriptor and its registration inherits it. Each store has one worker that
runs what was accepted, in order, the closing last. `DurableRegister` promises one successor at a time:
acknowledged documents survive, denied ones never appear, an ambiguous save may
do either until somebody has read the register.

### EntryLifecycle, RoomBootstrap and SetupManager

`EntryLifecycle` is one config entry under Home Assistant's lock of setups: the
setup up to each await, its cleanup paths (`data` is `cleanup` while a runtime
that could not be closed is kept), the unload, the retries and reloads Home
Assistant schedules, and the deferred reload of a discovered endpoint.
`RoomBootstrap` binds all rooms once: evidence from the registries, the offer
with its token, the confirmation and the commit that looks at the registries
again. What it leaves is where `ValveReplacement` starts. `SetupManager` is one
operation at a time under its lock, one step per await of the executor or of the
bootstrap, whose answers may be false, stale or missing; `outcome` is what the
executor's store durably holds.

## 3. Runs

TLC explores several studies in one run where they share a module: a variable
(`study` or `part`) is chosen at the start, and `Within` bounds the inputs of
each. A property is checked in every study, liveness in the one whose fairness
is stated. The name of an `MC` module's bound is that of the input it limits.

| Run | Shows | Bounds |
|---|---|---|
| `journal_store` | one chain, no double commit, replay inside the window, startup never refuses | 2 journals, 4 request ids, generation limit 3, window 2: receipts expire, ids return after expiry, the limit is hit |
| `remote_journal` | the protocol implements `CasJournal`; an accepted save is durable and requests of an earlier boot do nothing; shutdown and close complete | protocol: 2 clients, 2 boots, guard of 1, 4 and 3 requests: a client is replaced with a save in flight, the guard evicts, a restart separates save and replay. Shutdown: 1 client, reads retried once, fair |
| `valve_studies` | joining stays owned, outcomes are final, targets are kept, rooms load again | pairing: a bridge state at any await; switch: 2 tests and a user target; claims: a room already replaced meets a third valve, which joins and is interviewed; restart: crash or reload at any await |
| `valve_liveness` | pairings and tests end | one room, two valves, three inputs: the two events of a pairing and a reload, a bridge state or nothing more; fairness below |
| `valve_relabelled` | a failed session is relabelled (finding) | 2 rooms, one event, one unexpected bridge state |
| `zigbee` | join: what the client proves is what the bridge does; it implements `JoinBarrier`. Probe: every record written is one that loads, the main file owes the restore of a challenged valve whatever a crash leaves, a start that can read the directory makes it, and the valve is watched until then | join: 3 requests, one foreign request, one fault, one new setup; probe: 1 operation, 2 claimed restores, 8 sequences, 7 generations, 1 restart |
| `migration` | writes stay recoverable, no foreign edit is lost, unfinished work blocks, completed plans stay applied | 2 documents, 2 plans, one foreign edit, one restart, and two of: room change, failing call, failing call |
| `bridge` | the transaction implements `AllOrNothing`; one fence in play, nothing in flight behind a release, every request journalled; retries start right, ends are final | retry: 1 provider, 2 attempts, 3 fences, the document changed by the bridge only; release: 2 fences, 2 tries of a release, 2 foreign revisions; pair: 2 providers, 1 attempt |
| `file` | the file store implements `DurableRegister`; what was returned is durable; whole documents only; closing ends | 2 processes; power: 2 documents, 3 errors, crashes or power cuts; register: 3 documents, 2 mishaps; close: forks, 1 document, 1 mishap, fair |
| `journal_adapter` | the adapter implements `MigrationLedger`; what is durable decodes; what is served was durable | content: 1 plan, 13 changes, 2 attempts; failing: the same with 11 changes and 1 fault; owners: 2 adapters, 2 plans, 2 changes, 2 faults |
| `setup` | no open journal is out of reach, the newest endpoint is tried unless the entry is left to the user, the commit binds what was confirmed, one unfinished plan, no false success | lifecycle: 3 endpoints, 2 jobs; bootstrap: 2 rooms, 3 entities, 3 valves, 2 offers, 2 registry changes; manager: 2 plans, 2 reloads, 2 tokens, 1 change of the room |
| `setup_race` | an execution starts for a room that changed (finding) | the manager alone |

The invariants of a run that hold together are one named conjunction of named
parts: `RemoteInvariant` (types, `NoStaleBootWork`, `AcceptedSaveIsDurable`),
`RuntimeInvariant` (types, `RoomsLoadAgain`), `BeliefsAreTrue` (types,
`BaselineIsTrue`, `AcknowledgedIsServed`), `ProbeInvariant` (types, `RecordsAreValid`,
`DebtIsDurable`), `MigrationInvariant` (types,
`WritesAreRecoverable`, `UnfinishedWorkBlocks`), `RecorderInvariant` (types,
`OneFenceInPlay`, `ReleaseLeavesNothingInFlight`, `RequestsAreJournalled`),
`DirectoryInvariant` (types, `OnlyWholeDocuments`, `TempNameIsFree`,
`FlockHasLiveOwner`), `AdapterInvariant` (types, `DurableContentLoads`) and
`SetupInvariant` (types of the three protocols, `OpenJournalIsReachable`). Their
conjuncts use each other's facts, and each is proved as one (section 4).

Why the bounds are enough: each study is the smallest instance in which its
hazard occurs. `migration` needs a room change to fail a plan after its last
write, two plans to let a later one complete where an earlier one failed, and
two failures for the restoration of a failed migration to fail in its turn.
`CompletedStaysApplied` depends on the fail-closed journal: with a journal that
answers again after a failed call, the recovery of an earlier plan undoes a
completed one (the mutant of that property). `bridge` needs three fences for the
first to be tombstoned, the second to be released and the third to be taken by a
retry. `file` needs a rename that is visible to one process, made by another that
died, and a power cut: three mishaps with the error that loses the reply. The
thirteen changes of `journal_adapter` are the longest path of a plan through two
attempts. `zigbee` lets a probe go all the way to its acknowledgement, or to a result
after the second restore it may claim (seven generations), with one sequence to spare: a
second resumed no-op meets the reserve. In its run time passes for the probe only while
it works or is down, so a deadline passes before a stop or a remediation begins or after
the process has ended, not in between. Two operations whose files lie in one directory are not reached
with one operation.

Deadlock checking is off where the bounds on inputs stop the system.

### Fairness

`RemoteJournal!FairSpec`: the worker thread runs what is submitted
(`ThreadPoolExecutor` of one thread), a signalled process goes on with its
shutdown (the drain has a timeout), and every client await has a timeout
(`LoseReply`). Nothing obliges anyone to send, stop or restart.

`ValveReplacement!Fairness` (in `MCFairSpec`, whose bound is on inputs, and no fairness
asks for an input): every await under the lock is bounded
(`READBACK_SECONDS`, `PERMIT_JOIN_RECONCILE_SECONDS`, `PERMIT_JOIN_RESPONSE_SECONDS`),
so its holder goes on (weak fairness); `asyncio.Lock` serves waiters in order, so
a task that waits for the lock, which is free again and again, gets it (strong
fairness). Pairing timers and the candidate resolver end by time.

`FileJournal!FairFileSpec`: the store's own thread runs what it accepted. A
system call may fail but returns. Nothing is asked of callers or of other processes.

`EntryLifecycle!LifecycleFairness`: who holds the entry's lock goes on; Home
Assistant executes a scheduled reload and repeats a setup that raised
`ConfigEntryNotReady`; accepted jobs of the adapter end. A setup that ends in SETUP_ERROR is
repeated by nobody. The cleanup of a previous runtime may end so: cancelled while the
runtime shuts down (`OldShutdown`, `except asyncio.CancelledError`) or while its journal closes
(`OldClose`, which `except Exception` does not catch), it leaves the previous runtime in
`entry.data` and no timer, so an endpoint discovered before is not tried until the App's next
discovery or a reload by the user. `NewestEndpointIsTried` excepts these states by name
(`LeftToTheUser`) and no others.

### Assumptions about what is outside

SQLite keeps what committed. On the file systems the code certifies, directory
updates become durable in order, and after a failed fsync the data may or may
not be durable. Zigbee2MQTT publishes its info after every change of the window.
The hosts of the bridge transaction keep their ledgers and tombstones as
`reference_transaction.py` requires of them. Home Assistant serialises setup and
unload of one entry, collapses waiting reloads, and drops `runtime_data` when an
entry is unloaded. The migration executor of the setup manager is external.

### Findings

* `valve_relabelled`: the phase of a session is assigned after an awaited closing
  without being read again (`replacement.py:491`, `:548`, `:615`), so a session
  that an unexpected bridge state failed meanwhile is relabelled. A session revived
  so can be committed while another one tests the same valve, because neither
  `async_commit` (`:556`) nor `_async_test_and_commit` (`:696`) looks at the active
  session or at `_operation_running`: one test then challenges the valve the other
  has verified and is about to bind. The proof of `SwitchKeepsTheTarget` failed on
  this pair (two sessions, two tests, four bridge events), and the property now
  speaks of tests that are alone.
* `setup_race`: `async_commit_migration` awaits the execution binding after its
  last comparison of the room's revision and the runtime (`setup_manager.py:737`);
  the executor may be called for a room that has changed. Its contract asks it
  to look again itself, so this contradicts only what the test says of the race.

## 4. Proofs

TLC checks the instances of section 3; the theorems hold for every value of the
constants. None of the properties below is inductive: each theorem rests on an
invariant that says why the property survives the next step, was checked by TLC on
the run's instance first, and is proved with one lemma per action.

**`RemoteJournalProofs`, the store**: the seven safety properties of `JournalStore`, for every set
of journals, payloads, ids and digests, every generation limit and every receipt
window, from `StoreConstants` (the limit is a natural number, the window at least
one, the absent row is no row). `StoreInv` is the types, the validity of the
durable rows, the chain of commits and the receipts that tell the log: the chain
explains why a repeated save is stale when its receipt is gone (its generation has
been used), the receipts why it replays when it is not, and the window in the
validation is exactly what the DELETE leaves.

**`RemoteJournalProofs`, clients and App**: `RemoteInvariant` and the refinement of `CasJournal`, for any
clients and payloads, any limits of the replay guard and the worker, and any number of
requests, restarts, lost replies, retries and replays, from `StoreConstants`,
`ServerConstants` and `RemoteConstants` (the bounds are natural numbers, an absent value
is none of the values, digests and request ids are those of the saves that clients ask
for). `RemoteInv` stands on `StoreInv` and relates the three sides:

* on the wire, a connection carries one request or one reply and somebody waits for it
  (`WireInv`); what is on its way was asked for by the client it names, and a save asks
  for the successor of something committed (`Honest`, `Follows`);
* the guard knows a save by its digest and anything else by its connection (`GuardInv`),
  so that a save is never refused as a duplicate of something else: its conflict comes
  from the store and means that its generation is taken for ever (`Dead`);
* a client keeps one save until its barrier (`PendingInv`), everything else it ever asked
  for is older than what it asks for next (`OwnInv`), a first submission is nowhere else
  (`FirstInv`), and the reply on its way tells the truth about the call (`InwardInv`).

`FirstInv` is why a definite rejection is final and why a replay never reports one: a
replay has a twin that may still arrive. The proofs of the steps are in two layers. A step of the
App is one that `Serves` the clients (it commits at most what a request in flight asks
for, and answers truthfully), a step of a client is one that `Moves` that client alone;
what these two leave intact is proved once, and each action is shown to be one of them.

**`SetupProofs`**: the three protocols of the config entry, from `MaxReloads >= 1`
and the bounds being natural numbers.
`BootstrapInv` adds to the types that the open offer is what was shown with its
token (`OfferIsShown`); with it a commit writes what the registries say at that
moment and what somebody confirmed. `ManagerInv` says per operation what is known
at each await: a token stands for a plan made at its revision and for the only
plan that may be unfinished (`TokenStands`), planning goes on over nothing
unfinished, a recovery handles the unfinished plan until the executor's store
holds its end. `OneUnfinishedPlan` and `ReportedIsDurable` follow although the
executor's answers are arbitrary. `LifecycleInv` ties the state of the entry to the
task that holds the setup lock (`LockIsHeld`) and accepted work to an adapter that
only this task closes (`WorkIsAccepted`); an open journal is then never out of reach.

**`ValveReplacementProofs`**: `RuntimeInvariant`, `OpenJoiningIsOwned`,
`OutcomesAreFinal` and `SwitchKeepsTheTarget` for any rooms, valves, sessions and
operations, from `NoneIsApart`. `RuntimeInv` is the types, the rooms that load
again, and five parts that say what tasks know of each other: who may hold the
lock in which await and that the session it waits for is not over (`LockInv`), the
active session and its candidate (`SessionsInv`), one test per session and its
phase (`OpsInv`), the target a test restores and the valve it left at it
(`TargetInv`), what an unloaded runtime left (`LifeInv`), and that a window that may
be open is no baseline and somebody's lease (`JoinInv`). `OutcomesAreFinal` needs
`LockInv`: a closing that is in flight must not belong to a session that is over.

**`ZigbeeProofs`, the bridge client**: `BeliefsAreTrue`, `AcceptedWindowIsOurs`, and the refinement
of `JoinBarrier` step by step, for any number of requests, faults, foreign writers
and reconnects, from `PermitConstants` (`None` and `Other` are apart, the bound on
requests is a natural number). `PermitInv` orders the generations the client
counts (`Ordered`), says what a proof of closing rests on (`ProofStands`) and what
the attribution of an opening may be (`Attribution`), what a request in flight knows
of them (`RequestInv`), what its listener heard (`TaintInv`), and that the news of the
window that is open are still on their way or were heard last (`NewsInv`). The last
part is why a closed baseline is true of the bridge, or about to end: without the
queue the claim is not even inductive. `JoinBarrier` is what `ValveReplacement` takes
for granted, so the two developments meet here.

**`MigrationJournalProofs`**: `AdapterInvariant`, `ServedRootsWereDurable`, and the
refinement of `MigrationLedger`, for any plans, documents, bindings and adapters and
any number of generations, attempts, failing stores and crashes, from
`JournalAssumption`. The part of `JournalInv` that carries the refinement is
`SavesFollow`: what an adapter is about to save, and what is still on its way from
an adapter that gave up or died, is the next generation of the root it expects, and
one call of one plan away from it. A save that arrives late is then either refused
by its generation or a step of the ledger, whoever owns the journal by now.

**`ReferenceMigrationProofs`**: `MigrationInvariant`, `CompletedStaysApplied` and
`NoForeignEditIsLost` for any number of documents, plans, foreign edits, changes of
the room, raising calls and crashes, from `MigrationConstants` (the bounds are
natural numbers). `MigrationInv` relates four things that survive each other:

* the documents and the journal (`WorldInv`): a write that stands is the postimage of
  its plan (`WritesStand`), and a plan that may be undone found, in every document it
  changes, an edit younger than any completed plan found there (`UnfinishedIsYounger`).
  This is why no recovery touches what is complete: the content it would have to meet
  is not the one the completed plan left;
* what the coordinator's memory knows of the journal (`CompletedIsKnown`,
  `UnfinishedBlocks`);
* what an operation has read (`Past`, `Stands`): it was there, and if the revision is
  still the same it is still there. The provider compares revisions when it writes,
  so a foreign edit between a read and the write is never overwritten;
* how far the operation is (`StageInv`): originals are journaled before a document is
  overwritten, and a restoration is settled only when nothing of the plan stands.

The parts of `MigrationInv` beyond the types were checked by TLC on the instance of
the run and on one with a single document and more plans before they were proved.

**`FileJournalProofs`**: `DirectoryInvariant`, `ReturnedIsDurable`, and the refinement
of `DurableRegister`, for any finite set of processes and any number of documents,
files, waiting operations, errors, crashes and power cuts, from `FileAssumption`. The
processes are finitely many because the bound on documents counts the queued saves.
`FileInv` says of the directory that every final name a power cut can go back to leads
to a whole document that was synchronised (`FinalsAreWhole`), that no two names lead to
one file (`NamesAreApart`), and that besides the document that is seen at most one
other can come back (`TwoFinals`); and of each store how far opening has brought it
(`OpeningInv`), when every earlier outcome is decided (`SettledInv`), that what it
remembers is what is there (`SnapshotInv`) and what it is saving (`SavingInv`): a
document nobody has seen until the rename. `SettledInv` is the reason for the fsyncs
that look redundant: the directory is synchronised after the flock is taken, by an
opener that created nothing, because another process may have died between its
rename and its fsync. From `Settled` a rename has one predecessor, an acknowledged
document no rival, and a save that failed before the rename can be denied.

**`BridgeTransactionProofs`**: `RecorderInvariant`, `TerminalIsFinal`,
`RetryStartsWhereTheLastEnded` and the refinement of `AllOrNothing`, for any finite set
of providers and any number of attempts, fences, releases, foreign writes, lost and
late messages and crashes, from `BridgeBounds` (the providers are finitely many and at
least one, the bounds natural numbers). `BridgeInv` has four parts:

* the journal (`JournalInv`): every attempt satisfies the validation of the code
  (`AttemptValid`), says of a fence, a release or a write only what the host's ledger
  says (`Told`), only the last is not restored, and the epochs of a provider grow from
  one attempt to the next;
* the hosts (`LedgerInv`): every outcome in a ledger is that of a request the journal
  has asked for, and a fence that is held was granted and never let go;
* the wire and the caller (`WireInv`, `CallerInv`): nothing is there without a record.

The recorder's steps either store one attempt (`Stores`) or leave the journal alone, and
the hosts' only make the ledgers longer; both keep the invariant for reasons proved once
(`StoresKeep`, `HostKeepsJournal`), so that an action has to show only that what it
stores was told. What is in force is proved from two more invariants on top of it.
`BalanceInv` says that a document was written once more than taken back exactly while
the write of the current attempt stands: it counts effects over all attempts, and
reduces the promise to the last of them. It rests on what an attempt may contain: one
write of a document, a rollback only of a write that may have happened, and a second
rollback only once the first is proven to have had no effect (`RollbackOrder`).
`RetryInv` says that the revision a retry expects is the one the newest effect before
it left; it is inductive because a restored attempt ends with a rollback of every
write that happened, and because no earlier attempt has an undecided write.

`BridgeInv`, `BalanceInv` and `RetryInv` were checked by TLC on the instance of the
run; the type of the journal with the existence of a plan written out, because TLC
does not enumerate sequences of records.

**`ZigbeeProofs`, the probe**: `ProbeInvariant` and `ChallengeIsWatched`, for any limits on
claimed restores, unclaimed attempts, sequences and generations and any number of
operations and starts, from `ProbeBounds` (the limits are positive, the bounds natural
numbers) and `NoRecordApart` (no record is none). They hold with time passing at any
moment (`ProbeSpec`), also where the run lets it stand. `ProbeInv` has four parts:

* what is stored (`StoreInv`): the file, the remembered record and whatever a write in
  doubt may leave are records that load, and a response is waited for with a sequence
  that was used;
* the debt (`StoreOwes`, `TaskOwes`): while the valve has the challenge target, all of
  them, the record about to be written and the remediation about to be persisted owe the
  restore, and agree on the operation. The part that makes it inductive is about the
  radio: the response that may still arrive has a sequence that was used before, and is
  never that of the restore that is waited for, so that only an executed restore is
  taken for one;
* commands (`SentInv`): one that may still be invoked is that of the dispatch that waits
  for it and of the record in the file, so a challenge is executed only when the file says so;
* the latches and the task (`Led`): without remediation the file is what is remembered
  (`Known`), a timer runs only where its handler fits (`Scheduling`), what a task knows at
  its await (`TaskInv`), and who will try the restore (`WatchInv`).

`DebtIsDurable` follows because each directory of `AfterCrash`, those with a torn temporary file
included, is made of what owes (`CrashLeaves`), and so is the remediation a load makes of
two files (`SynthesisFits`). A step first settles what is stored (`Ground`) and then decides where its
task goes; each of these decisions (`EnterRemediation`, `StartRestore`, `FailSafe`, ...) is
one lemma. TLC checked `ProbeInv` under `ProbeSpec` on the instance of the run, but for
`sent` being empty or a singleton, which it checks as a cardinality.

Not proved, and why. Liveness (`PairingEnds`, `TestsEnd`, `WaitsEnd`, `ClosingEnds`,
`NewestEndpointIsTried`) and anything with ENABLED are out of the prover's reach. Every
other property of the passing runs is the conclusion of a theorem.

## 5. Plan

Modelled: the journal store with App and client; the valve runtime and the bridge
client; the migration coordinator and its journal adapter; the bridge
transaction; the file journal; the protocols of the config entry; the physical probe.

Proved: every safety property, action property and refinement that a passing run checks.

Next, as the code grows: resolution of subjects and authority of a migration, if they
come to keep state; and two probes whose files lie in one directory, which the proofs
cover for any number of operations but no run reaches.

## 6. Not modelled

* Messages, identities and publications of the probe: checks of formats against a
  profile, and reports to whoever asked.
* Physical probe preflight, reference projection: pure functions from input to a report,
  without state or protocol.
* Reference providers: a read-only inventory of Home Assistant's stores and registries; its
  result is the set of documents that `ReferenceMigration` starts from.
* Resolution of subjects and of the authority of a migration
  (`reference_migration_ha.py`): reduced to the `subject` counter and the
  authorised adapters; the decisions are comparisons of registry data.
* Certification of file systems and devices (`reference_journal_file.py`): decides
  whether a store opens at all; its promise is the ordering assumed above.
* Byte codecs, canonical JSON, digests and HTTP header parsing: modelled by what
  they compare or refuse.
* Climate entities, websocket API, forms of the config flow: thin calls.
* Prototype backend, demo frontend, scripts, CI: not part of the running integration.
