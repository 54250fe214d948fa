--------------------------- MODULE EntryLifecycle ---------------------------
(***************************************************************************)
(* The config entry against the companion App: every start of the App      *)
(* publishes another endpoint with another key, and the entry must come to *)
(* use it without interrupting migration work.  Discovery, the deferred    *)
(* reload, the setup and unload of the entry with their cleanup paths, and *)
(* the adapter's running and closing are True Family's; the states of an   *)
(* entry, its setup lock, reload tasks and retry timer are Home            *)
(* Assistant's.  A reload that waits behind a waiting reload repeats it    *)
(* and is not counted.                                                     *)
(***************************************************************************)
EXTENDS Naturals

CONSTANTS
    MaxBoots, \* bound: endpoints the App publishes
    MaxWork   \* bound: migration jobs

ASSUME LifecycleAssumption == MaxBoots \in Nat /\ MaxWork \in Nat

VARIABLES
    endpoint,  \* the newest endpoint, 0 before the first discovery
    tried,     \* the endpoint that the last opening of the journal used
    entry,     \* [state, disabled, data, registered]: data is the runtime kept
               \* in runtime_data, registered whether commands reach it
    journal,   \* the adapter: [open, closing, jobs]
    pending,   \* the deferred reload: none, or bound to a setup or to the adapter
    listening, \* a listener waits for the setup to end
    reload,    \* a reload task waits for the setup lock
    task,      \* what the holder of the setup lock awaits
    after,     \* the state the entry gets when the failed setup has cleaned up
    work       \* jobs started

lifecycleVars == <<endpoint, tried, entry, journal, pending, listening, reload, task, after, work>>

EntryStates == {"not_loaded", "setup", "loaded", "unloading", "setup_error", "setup_retry",
                "failed_unload"}
Tasks == {"idle", "old_shutdown", "old_close", "opening", "setting_up", "forwarding",
          "cleaning", "discarding", "shutdown", "platforms", "close"}

LifecycleInit ==
    /\ endpoint = 0 /\ tried = 0
    /\ entry = [state |-> "not_loaded", disabled |-> FALSE, data |-> "none", registered |-> FALSE]
    /\ journal = [open |-> FALSE, closing |-> FALSE, jobs |-> 0]
    /\ pending = "none" /\ listening = FALSE
    /\ reload = TRUE /\ task = "idle" /\ after = "setup_retry" /\ work = 0

\* migration_operation_in_progress
Busy == journal.jobs > 0 \/ journal.closing

(***************************************************************************)
(* The deferred reload                                                     *)
(***************************************************************************)

\* async_schedule_pending_reference_journal_reload consumes the pending record,
\* then schedules the reload unless the entry moved on.
\* Mutant: the deferred reload is only consumed.
ScheduleNothing(e, busy) ==
    /\ pending' = "none"
    /\ UNCHANGED reload
SchedulePending(e, busy) ==
    /\ pending' = "none"
    /\ reload' = (reload \/ (/\ pending # "none"
                             /\ e.state = (IF pending = "setup" THEN "setup" ELSE "loaded")
                             /\ ~e.disabled /\ e.registered
                             /\ ~busy))

\* async_step_hassio: the endpoint is cached, then the entry is reloaded, now
\* or when its setup or its migration work is done.
Discover(e) ==
    /\ endpoint' = e
    /\ LET new == e # endpoint
           marks == entry.state = "setup" /\ new /\ ~entry.disabled
           needed == /\ ~entry.disabled
                     /\ \/ entry.state \in {"not_loaded", "setup_error", "setup_retry"}
                        \/ entry.state = "loaded" /\ new
           safe == entry.state = "loaded" => ~Busy
       IN  /\ listening' = (listening \/ (marks /\ pending # "setup"))
           /\ pending' = CASE marks             -> "setup"
                           [] needed /\ safe    -> "none"
                           [] needed /\ ~safe   -> "adapter"
                           [] ~marks /\ ~needed -> pending
           /\ reload' = (reload \/ (needed /\ safe))
    /\ UNCHANGED <<tried, entry, journal, task, after, work>>

\* The user disables or enables the entry, which reloads it.
SetDisabled ==
    /\ entry' = [entry EXCEPT !.disabled = ~@]
    /\ reload' = TRUE
    /\ UNCHANGED <<endpoint, tried, journal, pending, listening, task, after, work>>

(***************************************************************************)
(* Migration work on the registered runtime                                *)
(***************************************************************************)
StartJob ==
    /\ entry.registered /\ journal.open /\ ~journal.closing
    /\ work < MaxWork
    /\ work' = work + 1
    /\ journal' = [journal EXCEPT !.jobs = @ + 1]
    /\ UNCHANGED <<endpoint, tried, entry, pending, listening, reload, task, after>>

EndJob ==
    /\ journal.jobs > 0
    /\ journal' = [journal EXCEPT !.jobs = @ - 1]
    /\ IF journal.jobs = 1
       THEN SchedulePending(entry, journal.closing)
       ELSE UNCHANGED <<pending, reload>>
    /\ UNCHANGED <<endpoint, tried, entry, listening, task, after, work>>

(***************************************************************************)
(* Setup                                                                   *)
(***************************************************************************)

\* The adapter is opened against the newest endpoint.
Open(e) ==
    /\ task' = "opening" /\ tried' = endpoint
    /\ entry' = e

\* async_close refuses new work at once; pending reloads are consumed.
BeginClosing(next) ==
    /\ task' = next
    /\ journal' = [journal EXCEPT !.closing = journal.open]
    /\ pending' = IF journal.open /\ ~journal.closing THEN "none" ELSE pending

\* The owner is given back when accepted work is done, even if the store fails.
WorkDone == journal.jobs = 0

ClosedJournal == [open |-> FALSE, closing |-> FALSE, jobs |-> journal.jobs]

\* A previous runtime that setup or its platforms left behind is cleaned first.
BeginSetup(e) ==
    CASE e.data = "none"    -> Open(e) /\ UNCHANGED <<journal, pending>>
      [] e.data = "cleanup" -> task' = "old_shutdown" /\ entry' = e /\ UNCHANGED <<journal, pending, tried>>
      [] e.data = "live"    -> BeginClosing("old_close") /\ entry' = e /\ UNCHANGED tried

\* Home Assistant's reload task takes the lock.
BeginReload ==
    /\ reload /\ task = "idle"
    /\ reload' = FALSE
    /\ CASE entry.state = "failed_unload" ->
                UNCHANGED <<tried, entry, journal, pending, task>>
         [] entry.state = "loaded" ->
                /\ entry' = [entry EXCEPT !.state = "unloading"]
                /\ task' = "shutdown"
                /\ UNCHANGED <<tried, journal, pending>>
         [] entry.state \notin {"failed_unload", "loaded"} /\ entry.disabled ->
                /\ entry' = [entry EXCEPT !.state = "not_loaded"]
                /\ UNCHANGED <<tried, journal, pending, task>>
         [] entry.state \notin {"failed_unload", "loaded"} /\ ~entry.disabled ->
                BeginSetup([entry EXCEPT !.state = "setup"])
    /\ UNCHANGED <<endpoint, listening, after, work>>

\* The retry timer of an entry that was not ready
BeginRetry ==
    /\ entry.state = "setup_retry" /\ task = "idle" /\ ~entry.disabled
    /\ BeginSetup([entry EXCEPT !.state = "setup"])
    /\ UNCHANGED <<endpoint, listening, reload, after, work>>

\* The setup ends without a loaded entry; a listener reloads an enabled one.
SetupEnds(e, keeps) ==
    /\ task' = "idle"
    /\ entry' = e
    /\ listening' = FALSE
    /\ pending' = IF keeps /\ ~(listening /\ ~e.disabled) THEN pending ELSE "none"
    /\ reload' = (reload \/ (listening /\ ~e.disabled))

\* A cleanup that fails is retried; a setup that is cancelled during it is not.
Unsettled == {"setup_retry", "setup_error"}

OldShutdown ==
    /\ task = "old_shutdown"
    /\ \/ /\ BeginClosing("old_close")
          /\ entry' = [entry EXCEPT !.data = "live"]
          /\ UNCHANGED <<listening, reload>>
       \/ /\ \E state \in Unsettled : SetupEnds([entry EXCEPT !.state = state], TRUE)
          /\ UNCHANGED journal
    /\ UNCHANGED <<endpoint, tried, after, work>>

\* Cancelled or not, the closing is waited for, and the previous runtime stays until it is over.
OldClose ==
    /\ task = "old_close" /\ WorkDone
    /\ journal' = ClosedJournal
    /\ \/ /\ Open([entry EXCEPT !.data = "none"])
          /\ pending' = IF journal.open THEN "none" ELSE pending
          /\ UNCHANGED <<listening, reload>>
       \/ /\ journal.open
          /\ \E state \in Unsettled : SetupEnds([entry EXCEPT !.state = state], FALSE)
          /\ UNCHANGED tried
    /\ UNCHANGED <<endpoint, after, work>>

\* The journal opens; or it is not reachable yet, or refuses; or the persisted
\* rooms do not load, and the journal is closed again.
Opened ==
    /\ task = "opening" /\ endpoint # 0 /\ ~journal.open
    /\ journal' = [open |-> TRUE, closing |-> FALSE, jobs |-> 0]
    /\ task' = "setting_up"
    /\ UNCHANGED <<endpoint, tried, entry, pending, listening, reload, after, work>>

OpeningFails(state) ==
    /\ task = "opening"
    /\ SetupEnds([entry EXCEPT !.state = state], FALSE)
    /\ UNCHANGED <<endpoint, tried, journal, after, work>>

RoomsInvalid ==
    /\ task = "opening" /\ endpoint # 0 /\ ~journal.open
    /\ journal' = [open |-> TRUE, closing |-> TRUE, jobs |-> 0]
    /\ task' = "discarding" /\ after' = "setup_error"
    /\ pending' = "none"
    /\ UNCHANGED <<endpoint, tried, entry, listening, reload, work>>

RuntimeReady ==
    /\ task = "setting_up"
    /\ task' = "forwarding"
    /\ entry' = [entry EXCEPT !.data = "live"]
    /\ UNCHANGED <<endpoint, tried, journal, pending, listening, reload, after, work>>

\* A runtime that cannot clean up now is kept for the next setup.
\* Mutant: the runtime is dropped.
Dropped == "none"
Kept == "cleanup"

\* Cancelled or unsafe: what needs cleanup is kept, otherwise the journal closes.
RuntimeUnsafe(state) ==
    /\ task = "setting_up"
    /\ \/ /\ SetupEnds([entry EXCEPT !.data = Kept, !.state = state], FALSE)
          /\ UNCHANGED <<journal, after>>
       \/ /\ BeginClosing("discarding") /\ after' = state
          /\ UNCHANGED <<entry, listening, reload>>
    /\ UNCHANGED <<endpoint, tried, work>>

\* Any other failure, of the setup or of the platforms: the runtime is shut down.
SetupFails(state) ==
    /\ task \in {"setting_up", "forwarding"}
    /\ task' = "cleaning" /\ after' = state
    /\ pending' = "none"
    /\ UNCHANGED <<endpoint, tried, entry, journal, listening, reload, work>>

Cleaned ==
    /\ task = "cleaning"
    /\ \/ /\ BeginClosing("discarding")
          /\ UNCHANGED <<entry, after, listening, reload>>
       \/ /\ \E state \in {after, "setup_retry"} :
                SetupEnds([entry EXCEPT !.data = Kept, !.state = state], TRUE)
          /\ UNCHANGED <<journal, after>>
    /\ UNCHANGED <<endpoint, tried, work>>

Discarded ==
    /\ task = "discarding" /\ WorkDone
    /\ journal' = ClosedJournal
    /\ \E state \in {after, "setup_retry"} :
            SetupEnds([entry EXCEPT !.state = state], FALSE)
    /\ UNCHANGED <<endpoint, tried, after, work>>

\* The runtime is registered, and the reload deferred by this setup scheduled.
Loaded ==
    /\ task = "forwarding"
    /\ SchedulePending([entry EXCEPT !.registered = TRUE], Busy)
    /\ entry' = [entry EXCEPT !.registered = TRUE, !.state = "loaded"]
    /\ task' = "idle" /\ listening' = FALSE
    /\ UNCHANGED <<endpoint, tried, journal, after, work>>

(***************************************************************************)
(* Unload                                                                  *)
(***************************************************************************)
UnloadFails ==
    /\ task \in {"shutdown", "platforms"}
    /\ task' = "idle"
    /\ entry' = [entry EXCEPT !.state = "failed_unload"]
    /\ UNCHANGED <<endpoint, tried, journal, pending, listening, reload, after, work>>

ShutDown ==
    /\ task = "shutdown"
    /\ task' = "platforms"
    /\ UNCHANGED <<endpoint, tried, entry, journal, pending, listening, reload, after, work>>

PlatformsUnloaded ==
    /\ task = "platforms"
    /\ BeginClosing("close")
    /\ UNCHANGED <<endpoint, tried, entry, listening, reload, after, work>>

Closed ==
    /\ task = "close" /\ WorkDone
    /\ journal' = ClosedJournal
    /\ LET e == [entry EXCEPT !.data = "none", !.registered = FALSE]
       IN  \/ entry.disabled
              /\ entry' = [e EXCEPT !.state = "not_loaded"] /\ task' = "idle"
              /\ UNCHANGED tried
           \/ ~entry.disabled /\ Open([e EXCEPT !.state = "setup"])
           \/ entry' = [entry EXCEPT !.state = "failed_unload"] /\ task' = "idle"
              /\ UNCHANGED tried
    /\ pending' = "none"
    /\ UNCHANGED <<endpoint, listening, reload, after, work>>

(***************************************************************************)
(* Behaviour                                                               *)
(***************************************************************************)

\* Everything the holder of the setup lock does
HolderSteps ==
    \/ OldShutdown \/ OldClose \/ Opened \/ RoomsInvalid \/ RuntimeReady
    \/ \E state \in {"setup_retry", "setup_error"} :
        OpeningFails(state) \/ RuntimeUnsafe(state) \/ SetupFails(state)
    \/ Cleaned \/ Discarded \/ Loaded
    \/ UnloadFails \/ ShutDown \/ PlatformsUnloaded \/ Closed

LifecycleNext ==
    \/ \E e \in {endpoint, endpoint + 1} : e \in 1 .. MaxBoots /\ Discover(e)
    \/ SetDisabled \/ StartJob \/ EndJob
    \/ BeginReload \/ BeginRetry \/ HolderSteps

LifecycleSpec == LifecycleInit /\ [][LifecycleNext]_lifecycleVars

\* The event loop runs ready tasks, timers fire and jobs end.
LifecycleFairness ==
    /\ WF_lifecycleVars(HolderSteps) /\ WF_lifecycleVars(BeginReload)
    /\ WF_lifecycleVars(BeginRetry) /\ WF_lifecycleVars(EndJob)

FairLifecycleSpec == LifecycleSpec /\ LifecycleFairness

(***************************************************************************)
(* Properties                                                              *)
(***************************************************************************)

\* The type of the state; jobs run on an open adapter only, the lock is held
\* exactly while the entry is set up or unloaded, and a pending record has
\* someone who will still consume it: the work it waits for, or the setup.
LifecycleTypeOK ==
    /\ endpoint \in 0 .. MaxBoots /\ tried \in 0 .. MaxBoots
    /\ entry \in [state : EntryStates, disabled : BOOLEAN, data : {"none", "live", "cleanup"},
                  registered : BOOLEAN]
    /\ journal \in [open : BOOLEAN, closing : BOOLEAN, jobs : 0 .. MaxWork]
    /\ pending \in {"none", "setup", "adapter"} /\ listening \in BOOLEAN
    /\ reload \in BOOLEAN /\ task \in Tasks /\ after \in EntryStates /\ work \in 0 .. MaxWork
    /\ journal.jobs > 0 => journal.open
    /\ task # "idle" <=> entry.state \in {"setup", "unloading"}
    /\ pending = "adapter" => journal.jobs > 0
    /\ listening => entry.state = "setup"

\* An open adapter owns the journal, and every later opening fails while it
\* does: so it is always within reach of whoever can close it, the setup that
\* opened it or the runtime that the entry keeps.
OpenJournalIsReachable ==
    journal.open =>
        entry.data # "none" \/ task \in {"setting_up", "forwarding", "cleaning", "discarding"}

\* Nothing sets the entry up again by itself: it is disabled, its unload failed, a runtime is still
\* to be cleaned up, or its setup ended in an error with a runtime kept, as it does when it is
\* cancelled while the journal of a previous one closes.
LeftToTheUser ==
    \/ entry.disabled \/ entry.state = "failed_unload" \/ entry.data = "cleanup"
    \/ entry.state = "setup_error" /\ entry.data = "live"

\* The App's newest endpoint is always tried in the end, however its discovery falls into a setup,
\* a cleanup, migration work or an unload; unless the entry comes to rest where only the user, or
\* the next start of the App, goes on (async_step_hassio, async_setup_entry).
NewestEndpointIsTried == []<>(tried = endpoint \/ LeftToTheUser)

=============================================================================
