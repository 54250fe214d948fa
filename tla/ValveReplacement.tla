-------------------------- MODULE ValveReplacement --------------------------
(***************************************************************************)
(* TrueFamilyRuntime (custom_components/true_family/replacement.py): the   *)
(* room bindings, the pairing sessions, the valve test, the rollback and   *)
(* the shutdown of one config entry, on one asyncio event loop.            *)
(*                                                                         *)
(* A task runs until it awaits.  lock names the task that holds            *)
(* _mutation_lock and the await it is in; while its stage is "run" nothing *)
(* else runs.  The MQTT client is modelled by what its barriers promise:   *)
(* closing fails if the bridge became unsafe after the request, opening    *)
(* also fails if somebody else's opening was seen.  A valve stands for its *)
(* IEEE address and its climate registry entry together.                   *)
(***************************************************************************)
EXTENDS Integers, Sequences, FiniteSets

CONSTANTS
    Room, Valve, Target,
    None,
    InitialRooms,   \* what entry.data may hold when the runtime is first set up
    DefaultTarget,  \* DEFAULT_SAFE_TARGET
    MaxSessions,    \* bound: pairing sessions
    MaxOps,         \* bound: tests of a binding
    MaxEvents,      \* bound: bridge events received
    MaxCallbacks,   \* bound: unsafe bridge states received
    MaxCalls,       \* bound: targets set by a user
    MaxRestarts     \* bound: reloads of the config entry

VARIABLES
    rooms,     \* self.rooms
    persisted, \* the rooms in entry.data
    sessions,  \* self.sessions, by session id
    active,    \* _active_session_id
    owner,     \* _join_owner_session_id
    requires,  \* _bridge_requires_closure
    proved,    \* the closed baseline of the client: "yes", too old ("aged"), or "no"
    taint,     \* what the bridge did since the request in flight was published
    maybeOpen, \* history: an opening was published and no closing proved since
    lock,      \* the task that holds _mutation_lock, or None
    timers,    \* sessions with a live _async_pairing_timeout
    resolving, \* sessions with a live _async_wait_for_candidate_binding
    events,    \* bridge event tasks waiting for the lock, oldest first
    ops,       \* live test tasks (their field shared is history)
    current,   \* _operation_task
    life,      \* "starting", "open", "closing", "final", "down"
    intended,  \* _intended_targets
    target,    \* external: the target each valve holds
    count      \* inputs so far, for the bounds

vars == <<rooms, persisted, sessions, active, owner, requires, proved, taint, maybeOpen, lock,
          timers, resolving, events, ops, current, life, intended, target, count>>

bindingVars == <<rooms, persisted>>
bridgeVars  == <<owner, requires, proved, taint, maybeOpen>>
taskVars    == <<timers, resolving, events, ops, current>>
valveVars   == <<intended, target>>

RoomType == [binding : Valve \cup {None}, previous : Valve \cup {None},
             bootstrap : Valve \cup {None}, revision : Nat]

\* Every valve a room has a claim on.
Claims(room) == {room.binding, room.previous, room.bootstrap} \ {None}

\* The rooms can be loaded: no valve is claimed by two rooms (rooms_from_dict), and
\* a bootstrapped room descends from its bootstrap (validate_bootstrap_rooms).
Loads(rs) ==
    /\ \A r1, r2 \in Room : r1 # r2 => Claims(rs[r1]) \cap Claims(rs[r2]) = {}
    /\ \A r \in Room : rs[r].bootstrap # None =>
           /\ rs[r].binding # None
           /\ rs[r].revision = 0 => rs[r].binding = rs[r].bootstrap /\ rs[r].previous = None
           /\ rs[r].revision = 1 => rs[r].previous = rs[r].bootstrap
           /\ rs[r].revision > 0 => rs[r].previous \notin {None, rs[r].binding}

ASSUME ReplacementConstants ==
    /\ None \notin Room \cup Valve \cup Target
    /\ InitialRooms \subseteq [Room -> RoomType] /\ \A rs \in InitialRooms : Loads(rs)
    /\ DefaultTarget \in Target
    /\ {MaxSessions, MaxOps, MaxEvents, MaxCallbacks, MaxCalls, MaxRestarts} \subseteq Nat

Terminal  == {"complete", "failed", "cancelled", "rolled_back"}
Pairing   == {"awaiting_pairing", "interviewing"}
Phase     == Terminal \cup Pairing \cup {"verifying", "ready_to_commit", "testing"}
SessionId == 1 .. MaxSessions

Started(s) == sessions[s] # None

\* No task is between two awaits.
Idle == lock # None => lock.stage # "run"

\* The lock is free and its next waiter may enter.
Free == lock = None

-----------------------------------------------------------------------------
(* Identities. *)

\* Mutant: the ways back of another room are not reserved.
ClaimedAsBinding(v, r) == v = rooms[r].binding

Claimed(v, r) == v \in Claims(rooms[r])

\* _assert_binding_available.
Available(v, r) == \A other \in Room \ {r} : ~Claimed(v, other)

\* _identity_reserved.
Reserved(v, r, allowCurrent) ==
    /\ ~(allowCurrent /\ rooms[r].binding = v)
    /\ \E other \in Room : Claimed(v, other)

\* _validate_plan.
PlanHolds(s) ==
    LET r == sessions[s].room
    IN  rooms[r].revision = sessions[s].expected /\ rooms[r].binding = sessions[s].old

-----------------------------------------------------------------------------
(* Requests to the bridge. *)

\* Publish a request and await its proof.
Await(l, stage) == lock' = [l EXCEPT !.stage = stage] /\ taint' = "clean"

\* _mark_global_join_closed, after a proved closing.
ClosedSessions == [s \in SessionId |->
                      IF Started(s) THEN [sessions[s] EXCEPT !.closed = TRUE] ELSE None]

MarkClosed ==
    /\ owner' = None /\ requires' = FALSE /\ proved' = "yes" /\ maybeOpen' = FALSE
    /\ timers' = {}
    /\ taint' = "clean"

\* A closing can only be proved when nothing unsafe followed its request.
CloseProved == taint # "unsafe"

\* _async_attempt_close has to publish a closing.
NeedsClose(s, force) ==
    /\ ~(sessions[s].closed /\ ~requires /\ proved = "yes")
    /\ sessions[s].acked \/ force

\* _set_terminal.
End(ss, s, phase) == [ss EXCEPT ![s].phase = phase]
ClearActive(s)    == active' = IF active = s THEN None ELSE active

\* _async_fail: close the window if needed, then fail the session.
Fail(l, s, remediation) ==
    LET marked == [sessions EXCEPT ![s].remediation = @ \/ remediation]
    IN  IF NeedsClose(s, FALSE)
        THEN /\ Await([l EXCEPT !.sid = s], "failclose")
             /\ sessions' = marked
             /\ UNCHANGED <<active, owner, requires, proved, maybeOpen>>
        ELSE /\ sessions' = End(marked, s, "failed")
             /\ ClearActive(s)
             /\ lock' = None
             /\ UNCHANGED bridgeVars

\* Entering the lock: deferred remediation comes first (_async_reconcile_if_required).
Enter(who, sid, arg) ==
    /\ Free
    /\ lock' = [who |-> who, stage |-> IF requires THEN "reconcile" ELSE "run",
                sid |-> sid, arg |-> arg]
    /\ taint' = "clean"

Running(who) == lock # None /\ lock.who = who /\ lock.stage = "run"

-----------------------------------------------------------------------------
(* Pairing. *)

NewSession(r, operation) ==
    [room |-> r, operation |-> operation, phase |-> "awaiting_pairing",
     expected |-> rooms[r].revision, old |-> rooms[r].binding,
     candidate |-> None, binding |-> None,
     acked |-> FALSE, closed |-> FALSE, remediation |-> FALSE]

\* async_start_pairing and the checks of _async_start_pairing.
StartPairing(r, operation) ==
    /\ life = "open"
    /\ active = None /\ current = None
    /\ owner # None => requires
    /\ operation = "repair" => rooms[r].binding # None
    /\ count.sessions < MaxSessions
    /\ Enter("start", None, [room |-> r, operation |-> operation])
    /\ UNCHANGED <<bindingVars, sessions, active, owner, requires, proved, maybeOpen, taskVars,
                   life, valveVars, count>>

\* A stale closing proof is renewed before the window opens.
RefreshBaseline ==
    /\ Running("start") /\ proved # "yes"
    /\ Await(lock, "baseline")
    /\ UNCHANGED <<bindingVars, sessions, active, owner, requires, proved, maybeOpen, taskVars,
                   life, valveVars, count>>

TakeLease(s) == active' = s /\ owner' = s

OpenWindow ==
    /\ Running("start") /\ proved = "yes"
    /\ LET s == count.sessions + 1
       IN  /\ sessions' = [sessions EXCEPT ![s] =
                               NewSession(lock.arg.room, lock.arg.operation)]
           /\ TakeLease(s)
           /\ Await([lock EXCEPT !.sid = s], "open")
           /\ count' = [count EXCEPT !.sessions = s]
    /\ proved' = "no" /\ maybeOpen' = TRUE
    /\ UNCHANGED <<bindingVars, requires, taskVars, life, valveVars>>

OpenSucceeds ==
    /\ lock # None /\ lock.stage = "open"
    /\ taint = "clean"
    /\ sessions' = [sessions EXCEPT ![lock.sid].acked = TRUE]
    /\ timers' = timers \cup {lock.sid}
    /\ lock' = None
    /\ UNCHANGED <<bindingVars, active, bridgeVars, resolving, events, ops, current, life,
                   valveVars, count>>

\* An unacknowledged or ambiguous opening is closed by force.
OpenFails ==
    /\ lock # None /\ lock.stage = "open"
    /\ Await(lock, "failopen")
    /\ UNCHANGED <<bindingVars, sessions, active, owner, requires, proved, maybeOpen, taskVars,
                   life, valveVars, count>>

\* A bridge event creates a task that queues for the lock.  It is stamped with
\* the session in whose window it was received; around the proof of an opening
\* or closing that is either side.  (While starting, it only closes once more.)
BridgeEvent(type, v, good) ==
    /\ Idle /\ life \notin {"starting", "down"}
    /\ count.events < MaxEvents
    /\ \E w \in IF lock = None THEN {owner} ELSE {owner, None} :
           events' = Append(events, [type |-> type, valve |-> v, good |-> good, window |-> w])
    /\ count' = [count EXCEPT !.events = @ + 1]
    /\ UNCHANGED <<bindingVars, sessions, active, bridgeVars, lock, timers, resolving, ops,
                   current, life, valveVars>>

\* async_handle_bridge_event gets the lock; once closing it returns at once.
TakeEvent ==
    /\ events # <<>>
    /\ events' = Tail(events)
    /\ IF life = "open"
       THEN Enter("event", None, Head(events))
       ELSE Free /\ UNCHANGED <<lock, taint>>
    /\ UNCHANGED <<bindingVars, sessions, active, owner, requires, proved, maybeOpen, timers,
                   resolving, ops, current, life, valveVars, count>>

\* The event belongs to the window of the active session.
InWindow == active # None /\ sessions[active].acked /\ lock.arg.window = active

\* Close the window, then go on with the session.
CloseThen(s, changed) ==
    /\ sessions' = [sessions EXCEPT ![s] = changed]
    /\ Await([lock EXCEPT !.sid = s], "close")
    /\ UNCHANGED <<active, owner, requires, proved, maybeOpen>>

Drop == lock' = None /\ UNCHANGED <<sessions, active, bridgeVars>>

Joined(s, v) ==
    CASE sessions[s].candidate = v -> Drop
      [] sessions[s].candidate # v /\
            (\/ sessions[s].operation = "repair" /\ sessions[s].old # v
             \/ Reserved(v, sessions[s].room, sessions[s].operation = "repair")
             \/ sessions[s].candidate # None) -> Fail(lock, s, TRUE)
      [] OTHER ->
            /\ sessions' = [sessions EXCEPT ![s].candidate = v, ![s].phase = "interviewing"]
            /\ lock' = None
            /\ UNCHANGED <<active, bridgeVars>>

Announced(s, v) ==
    IF /\ sessions[s].phase \in Pairing
       /\ sessions[s].operation = "repair"
       /\ rooms[sessions[s].room].binding = v
    THEN CloseThen(s, [sessions[s] EXCEPT !.candidate = v, !.binding = v])
    ELSE Drop

Interviewed(s, v, good) ==
    IF sessions[s].phase \in Pairing /\ sessions[s].candidate = v
    THEN IF good THEN CloseThen(s, sessions[s]) ELSE Fail(lock, s, TRUE)
    ELSE Drop

\* The body of async_handle_bridge_event; late is the pairing deadline passed.
HandleEvent(late) ==
    /\ Running("event")
    /\ LET e == lock.arg
       IN  IF ~InWindow THEN Drop
           ELSE IF late THEN Fail(lock, active, FALSE)
           ELSE CASE e.type = "device_joined"    -> Joined(active, e.valve)
                  [] e.type = "device_announce"  -> Announced(active, e.valve)
                  [] e.type = "device_interview" -> Interviewed(active, e.valve, e.good)
    /\ UNCHANGED <<bindingVars, taskVars, life, valveVars, count>>

\* Mutant: a session that is interviewing does not time out.
PairingTimeoutBeforeJoin(s) ==
    /\ s \in timers /\ Free
    /\ timers' = timers \ {s}
    /\ IF sessions[s].phase = "awaiting_pairing"
       THEN Fail([who |-> "timeout", stage |-> "run", sid |-> s, arg |-> None], s, FALSE)
       ELSE Drop
    /\ UNCHANGED <<bindingVars, resolving, events, ops, current, life, valveVars, count>>

\* _async_pairing_timeout.
PairingTimeout(s) ==
    /\ s \in timers /\ Free
    /\ timers' = timers \ {s}
    /\ IF sessions[s].phase \in Pairing
       THEN Fail([who |-> "timeout", stage |-> "run", sid |-> s, arg |-> None], s, FALSE)
       ELSE Drop
    /\ UNCHANGED <<bindingVars, resolving, events, ops, current, life, valveVars, count>>

ResolverTask(s) == [who |-> "resolver", stage |-> "run", sid |-> s, arg |-> None]

\* _async_wait_for_candidate_binding sees the climate entity of the candidate.
ResolverFinds(s) ==
    /\ s \in resolving /\ Free
    /\ life = "open" /\ sessions[s].phase = "verifying"
    /\ IF Available(sessions[s].candidate, sessions[s].room)
       THEN /\ sessions' = [sessions EXCEPT ![s].binding = sessions[s].candidate,
                                            ![s].phase = "ready_to_commit"]
            /\ UNCHANGED <<active, lock, bridgeVars>>
       ELSE Fail(ResolverTask(s), s, FALSE)
    /\ resolving' = resolving \ {s}
    /\ UNCHANGED <<bindingVars, timers, events, ops, current, life, valveVars, count>>

\* Mutant: a resolver that runs out of polls does not look at the session again.
ResolverGivesUpUnchecked(s) ==
    /\ s \in resolving /\ Free
    /\ Fail(ResolverTask(s), s, TRUE)
    /\ resolving' = resolving \ {s}
    /\ UNCHANGED <<bindingVars, timers, events, ops, current, life, valveVars, count>>

\* It runs out of polls, or finds the session in another phase.
ResolverGivesUp(s) ==
    /\ s \in resolving /\ Free
    /\ IF sessions[s].phase = "verifying" THEN Fail(ResolverTask(s), s, TRUE) ELSE Drop
    /\ resolving' = resolving \ {s}
    /\ UNCHANGED <<bindingVars, timers, events, ops, current, life, valveVars, count>>

-----------------------------------------------------------------------------
(* The end of a closing. *)

Closing == lock # None /\ lock.stage \in {"reconcile", "baseline", "close", "failclose", "failopen"}

\* The phase a session enters when the await of its closing is over.
PhaseAfterClose(l, ok) ==
    CASE l.stage \in {"failclose", "failopen"} -> "failed"
      [] l.stage = "close" /\ l.who = "cancel" ->
             IF ok \/ ~sessions[l.sid].acked THEN "cancelled" ELSE "failed"
      [] l.stage = "close" /\ l.who = "event" ->
             IF l.arg.type = "device_announce" THEN "ready_to_commit" ELSE "verifying"

CloseSucceeds ==
    /\ Closing /\ CloseProved
    /\ MarkClosed
    /\ IF lock.stage \in {"reconcile", "baseline"}
       THEN /\ sessions' = ClosedSessions
            /\ lock' = [lock EXCEPT !.stage = "run"]
            /\ UNCHANGED <<active, resolving>>
       ELSE LET phase == PhaseAfterClose(lock, TRUE)
            IN  /\ sessions' = End(ClosedSessions, lock.sid, phase)
                /\ IF phase \in Terminal THEN ClearActive(lock.sid) ELSE UNCHANGED active
                /\ resolving' = IF phase = "verifying" THEN resolving \cup {lock.sid}
                                ELSE resolving
                /\ lock' = None
    /\ UNCHANGED <<bindingVars, events, ops, current, life, valveVars, count>>

CloseFails ==
    /\ Closing
    /\ IF lock.stage = "close" /\ lock.who = "event"
       THEN Fail(lock, lock.sid, FALSE)
       ELSE /\ requires' = TRUE
            /\ lock' = None
            /\ IF lock.stage \in {"reconcile", "baseline"}
               THEN UNCHANGED <<sessions, active>>
               ELSE /\ sessions' = End(sessions, lock.sid, PhaseAfterClose(lock, FALSE))
                    /\ ClearActive(lock.sid)
            /\ UNCHANGED <<owner, proved, taint, maybeOpen>>
    /\ UNCHANGED <<bindingVars, taskVars, life, valveVars, count>>

\* _handle_bridge_permit_state, called synchronously from the MQTT callbacks
\* while any task awaits: "opened" is somebody else's opening, "unsafe" an
\* offline, restarted or malformed bridge.  An opening that nobody asked for is
\* not told from the lease's own while nobody holds the lease.
BridgeStateChanges(kind) ==
    /\ Idle /\ life # "down"
    /\ count.callbacks < MaxCallbacks
    /\ count' = [count EXCEPT !.callbacks = @ + 1]
    /\ proved' = "no"
    /\ taint' = IF kind = "unsafe" \/ taint = "unsafe" THEN "unsafe" ELSE "opened"
    /\ IF kind = "opened" /\ owner = None
       THEN UNCHANGED <<requires, sessions, active>>
       ELSE /\ requires' = TRUE
            /\ LET s == IF active # None THEN active ELSE owner
               IN  IF s # None /\ sessions[s].phase \notin Terminal
                   THEN /\ sessions' = End([sessions EXCEPT ![s].remediation = TRUE], s, "failed")
                        /\ ClearActive(s)
                   ELSE UNCHANGED <<sessions, active>>
    /\ UNCHANGED <<bindingVars, owner, maybeOpen, lock, taskVars, life, valveVars>>

\* PERMIT_JOIN_BASELINE_MAX_AGE_SECONDS passed since the bridge was last heard to
\* be closed, or it is heard to be closed again.
ProofAges ==
    /\ Idle
    /\ \/ proved = "yes"  /\ proved' = "aged"
       \/ proved = "aged" /\ proved' = "yes"
    /\ UNCHANGED <<bindingVars, sessions, active, owner, requires, taint, maybeOpen, lock,
                   taskVars, life, valveVars, count>>

-----------------------------------------------------------------------------
(* Cancelling, committing, rolling back. *)

Cancel(s) ==
    /\ life = "open" /\ Started(s)
    /\ requires \/ sessions[s].phase \notin Terminal \cup {"testing"}
    /\ Enter("cancel", s, None)
    /\ UNCHANGED <<bindingVars, sessions, active, owner, requires, proved, maybeOpen, taskVars,
                   life, valveVars, count>>

\* The rest of _async_cancel.
CancelSession ==
    /\ Running("cancel")
    /\ LET s == lock.sid
       IN  IF sessions[s].phase \in Terminal \cup {"testing"} THEN Drop
           ELSE IF NeedsClose(s, FALSE) THEN CloseThen(s, sessions[s])
           ELSE /\ sessions' = End(sessions, s, "cancelled")
                /\ ClearActive(s)
                /\ lock' = None
                /\ UNCHANGED bridgeVars
    /\ UNCHANGED <<bindingVars, taskVars, life, valveVars, count>>

NewOp(kind, s, r, v, cur) ==
    [id |-> count.ops + 1, kind |-> kind, session |-> s, room |-> r, valve |-> v, cur |-> cur,
     expected |-> rooms[r].revision, want |-> None, stage |-> "queued", cancelled |-> FALSE,
     shared |-> ops # {}]

\* _create_task of the test, retained as _operation_task.  A test that is not alone
\* at all times is marked as shared, for the properties.
StartOp(op) ==
    /\ ops' = {[o EXCEPT !.shared = TRUE] : o \in ops} \cup {op}
    /\ current' = op.id
    /\ count' = [count EXCEPT !.ops = op.id]
    /\ lock' = None

Commit(s) ==
    /\ life = "open" /\ Started(s)
    /\ count.ops < MaxOps
    /\ requires \/ sessions[s].phase = "ready_to_commit"
    /\ Enter("commit", s, None)
    /\ UNCHANGED <<bindingVars, sessions, active, owner, requires, proved, maybeOpen, taskVars,
                   life, valveVars, count>>

\* The rest of async_commit.
CommitSession ==
    /\ Running("commit")
    /\ LET s == lock.sid
           r == sessions[s].room
       IN  IF /\ sessions[s].phase = "ready_to_commit"
              /\ PlanHolds(s)
              /\ sessions[s].binding # None /\ Available(sessions[s].binding, r)
           THEN /\ sessions' = [sessions EXCEPT ![s].phase = "testing"]
                /\ StartOp(NewOp("commit", s, r, sessions[s].binding, rooms[r].binding))
                /\ UNCHANGED <<active, bridgeVars>>
           ELSE Drop /\ UNCHANGED <<ops, current, count>>
    /\ UNCHANGED <<bindingVars, timers, resolving, events, life, valveVars>>

Rollback(r) ==
    /\ life = "open"
    /\ count.ops < MaxOps
    /\ \/ requires
       \/ active = None /\ current = None /\ rooms[r].previous # None
    /\ Enter("rollback", None, r)
    /\ UNCHANGED <<bindingVars, sessions, active, owner, requires, proved, maybeOpen, taskVars,
                   life, valveVars, count>>

\* The rest of async_rollback_room.
RollbackRoom ==
    /\ Running("rollback")
    /\ LET r == lock.arg
       IN  IF /\ active = None /\ current = None
              /\ rooms[r].binding # None /\ rooms[r].previous # None
              /\ Available(rooms[r].previous, r)
           THEN /\ StartOp(NewOp("rollback", None, r, rooms[r].previous, rooms[r].binding))
                /\ UNCHANGED <<sessions, active, bridgeVars>>
           ELSE Drop /\ UNCHANGED <<ops, current, count>>
    /\ UNCHANGED <<bindingVars, timers, resolving, events, life, valveVars>>

-----------------------------------------------------------------------------
(* The test of a valve, under the lock of its room. *)

\* Mutants: the lock of the room is not taken; it is taken twice by one test.
RoomNeverLocked(r)  == FALSE
RoomLockedTwice(r)  == \E o \in ops : o.room = r

RoomLocked(r) == \E o \in ops : o.room = r /\ o.stage # "queued"

Becomes(o, changed) == ops' = (ops \ {o}) \cup {changed}

TestFrame == UNCHANGED <<bindingVars, sessions, active, bridgeVars, lock, timers, resolving,
                         events, life, intended, count>>

\* The target the room is meant to hold: the last one set through its room, or
\* what the replaced valve reports.
TestTarget(o) ==
    CASE intended[o.room] # None -> {intended[o.room]}
      [] intended[o.room] = None /\ o.cur # None -> {target[o.cur], DefaultTarget}
      [] OTHER -> {DefaultTarget}

\* _async_test_binding up to the challenge; without a usable entity, limits or
\* challenge no command is sent.
Challenge(o) ==
    /\ Idle /\ o.stage = "queued" /\ ~RoomLocked(o.room)
    /\ \E want \in TestTarget(o) :
           \/ /\ Becomes(o, [o EXCEPT !.want = want, !.stage = "failed"])
              /\ UNCHANGED target
           \/ \E c \in Target \ {want} :
                 /\ Becomes(o, [o EXCEPT !.want = want, !.stage = "challenged"])
                 /\ target' = [target EXCEPT ![o.valve] = c]
    /\ UNCHANGED current /\ TestFrame

\* The challenge was freshly reported: command the intended target.
Restore(o) ==
    /\ Idle /\ o.stage = "challenged"
    /\ Becomes(o, [o EXCEPT !.stage = "restored"])
    /\ target' = [target EXCEPT ![o.valve] = o.want]
    /\ UNCHANGED current /\ TestFrame

\* The intended target was freshly reported.
Confirm(o) ==
    /\ Idle /\ o.stage = "restored" /\ target[o.valve] = o.want
    /\ Becomes(o, [o EXCEPT !.stage = "passed"])
    /\ UNCHANGED <<target, current>> /\ TestFrame

\* A command fails or its read-back does not come in time.
Unconfirmed(o) ==
    /\ Idle /\ o.stage \in {"challenged", "restored"}
    /\ Becomes(o, [o EXCEPT !.stage = "recover"])
    /\ UNCHANGED <<target, current>> /\ TestFrame

\* The task of o is done (_operation_finished).
Finished(o) ==
    /\ ops' = ops \ {o}
    /\ current' = IF current = o.id THEN None ELSE current

\* The finally clause: one attempt to restore, whatever comes of it.
Recover(o) ==
    /\ Idle /\ o.stage = "recover"
    /\ target' \in {target, [target EXCEPT ![o.valve] = o.want]}
    /\ IF o.cancelled THEN Finished(o)
       ELSE Becomes(o, [o EXCEPT !.stage = "failed"]) /\ UNCHANGED current
    /\ TestFrame

FinishFrame == UNCHANGED <<bridgeVars, lock, timers, resolving, events, life, valveVars, count>>

\* Switch a room to a verified valve and write the rooms to entry.data.
Switch(r, v) ==
    /\ rooms' = [rooms EXCEPT ![r].binding = v, ![r].previous = rooms[r].binding,
                              ![r].revision = @ + 1]
    /\ persisted' = rooms'

\* A room whose own valve was repaired is left as it is.
Rebind(r, v) == IF rooms[r].binding = v THEN UNCHANGED bindingVars ELSE Switch(r, v)

\* The last part of _async_test_and_commit, under both locks.
FinishCommit(o) ==
    /\ Free /\ o.kind = "commit" /\ o.stage = "passed"
    /\ LET s == o.session
       IN  IF sessions[s].phase = "testing"
           THEN /\ PlanHolds(s) /\ Available(o.valve, o.room)
                /\ sessions' = End(sessions, s, "complete")
                /\ ClearActive(s)
                /\ Rebind(o.room, o.valve)
           ELSE UNCHANGED <<bindingVars, sessions, active>>
    /\ Finished(o) /\ FinishFrame

\* The plan or the identity changed during the test, or persisting failed and
\* the rooms were put back.
RefuseCommit(o) ==
    /\ Free /\ o.kind = "commit" /\ o.stage = "passed"
    /\ sessions[o.session].phase = "testing"
    /\ sessions' = End(sessions, o.session, "failed")
    /\ ClearActive(o.session)
    /\ Finished(o) /\ FinishFrame /\ UNCHANGED bindingVars

FinishRollback(o) ==
    /\ Free /\ o.kind = "rollback" /\ o.stage = "passed"
    /\ rooms[o.room].revision = o.expected
    /\ rooms[o.room].binding = o.cur /\ rooms[o.room].previous = o.valve
    /\ Available(o.valve, o.room)
    /\ Switch(o.room, o.valve)
    /\ Finished(o) /\ FinishFrame /\ UNCHANGED <<sessions, active>>

RefuseRollback(o) ==
    /\ o.kind = "rollback"
    /\ \/ o.stage = "passed" /\ Free
       \/ o.stage = "failed" /\ Idle
    /\ Finished(o) /\ FinishFrame /\ UNCHANGED <<bindingVars, sessions, active>>

\* The test raised: the session fails for remediation.
FailCommit(o) ==
    /\ Free /\ o.kind = "commit" /\ o.stage = "failed"
    /\ sessions' = End([sessions EXCEPT ![o.session].remediation = TRUE], o.session, "failed")
    /\ ClearActive(o.session)
    /\ Finished(o) /\ FinishFrame /\ UNCHANGED bindingVars

\* async_set_temperature, under the room's lock; a failed call may still have
\* reached the valve.
SetTemperature(r, t) ==
    /\ Idle /\ life = "open" /\ ~RoomLocked(r)
    /\ rooms[r].binding # None
    /\ count.calls < MaxCalls
    /\ count' = [count EXCEPT !.calls = @ + 1]
    /\ target' = [target EXCEPT ![rooms[r].binding] = t]
    /\ intended' \in {intended, [intended EXCEPT ![r] = t]}
    /\ UNCHANGED <<bindingVars, sessions, active, bridgeVars, lock, taskVars, life>>

-----------------------------------------------------------------------------
(* Unloading, crashing, loading. *)

\* What cancelling its task leaves of a test: in the body of the try the
\* recovery still runs, within the recovery it does not.
CancelledOps == {[o EXCEPT !.stage = "recover", !.cancelled = TRUE] :
                     o \in {p \in ops : p.stage \in {"challenged", "restored"}}}

\* async_shutdown cancels every retained task; the caller of a commit or a
\* rollback that holds the lock is not one of them.
Shutdown ==
    /\ Idle /\ life = "open"
    /\ life' = "closing"
    /\ lock' = IF lock # None /\ lock.who \in {"commit", "rollback"} THEN lock ELSE None
    /\ timers' = {} /\ resolving' = {} /\ events' = <<>>
    /\ ops' = CancelledOps
    /\ current' = IF \E o \in CancelledOps : o.id = current THEN current ELSE None
    /\ UNCHANGED <<bindingVars, sessions, active, bridgeVars, valveVars, count>>

\* Tasks awaited, the mutation lock and every room lock passed: close joining.
CloseForUnload ==
    /\ life = "closing" /\ lock = None /\ ops = {}
    /\ life' = "final" /\ taint' = "clean"
    /\ UNCHANGED <<bindingVars, sessions, active, owner, requires, proved, maybeOpen, lock,
                   taskVars, valveVars, count>>

GlobalCloseSucceeds ==
    /\ life \in {"final", "starting"} /\ CloseProved
    /\ MarkClosed
    /\ sessions' = ClosedSessions
    /\ life' = IF life = "final" THEN "down" ELSE "open"
    /\ UNCHANGED <<bindingVars, active, lock, resolving, events, ops, current, valveVars, count>>

\* Mutant: a start goes on without a proved closing.
GlobalCloseFailsOpen ==
    /\ life \in {"final", "starting"}
    /\ requires' = TRUE
    /\ life' = IF life = "final" THEN "closing" ELSE "open"
    /\ UNCHANGED <<bindingVars, sessions, active, owner, proved, taint, maybeOpen, lock,
                   taskVars, valveVars, count>>

\* The closing of an unload is retried; a start that cannot prove it is given up.
GlobalCloseFails ==
    /\ life \in {"final", "starting"}
    /\ requires' = TRUE
    /\ life' = IF life = "final" THEN "closing" ELSE "down"
    /\ UNCHANGED <<bindingVars, sessions, active, owner, proved, taint, maybeOpen, lock,
                   taskVars, valveVars, count>>

\* Home Assistant dies: nothing but entry.data, the valves and the bridge remain.
Crash ==
    /\ life # "down" /\ count.restarts < MaxRestarts
    /\ life' = "down"
    /\ lock' = None /\ timers' = {} /\ resolving' = {} /\ events' = <<>>
    /\ ops' = {} /\ current' = None
    /\ UNCHANGED <<bindingVars, sessions, active, bridgeVars, valveVars, count>>

\* A new runtime over the rooms of entry.data; it starts by closing joining.
Load ==
    /\ life = "down" /\ count.restarts < MaxRestarts
    /\ Loads(persisted)
    /\ life' = "starting"
    /\ rooms' = persisted
    /\ sessions' = [s \in SessionId |-> None] /\ active' = None /\ owner' = None
    /\ requires' = TRUE /\ proved' = "no" /\ taint' = "clean"
    /\ intended' = [r \in Room |-> None]
    /\ events' = <<>>
    /\ count' = [count EXCEPT !.restarts = @ + 1]
    /\ UNCHANGED <<persisted, maybeOpen, lock, timers, resolving, ops, current, target>>

-----------------------------------------------------------------------------

Init ==
    /\ rooms \in InitialRooms
    /\ persisted = rooms
    /\ sessions = [s \in SessionId |-> None] /\ active = None /\ owner = None
    /\ requires = TRUE /\ proved = "no" /\ taint = "clean" /\ maybeOpen = FALSE
    /\ lock = None /\ timers = {} /\ resolving = {} /\ events = <<>>
    /\ ops = {} /\ current = None
    /\ life = "starting"
    /\ intended = [r \in Room |-> None]
    /\ target = [v \in Valve |-> DefaultTarget]
    /\ count = [sessions |-> 0, ops |-> 0, events |-> 0, callbacks |-> 0, calls |-> 0,
                restarts |-> 0]

EventType == {"device_joined", "device_announce", "device_interview"}

Bridge ==
    \/ \E type \in EventType, v \in Valve : BridgeEvent(type, v, TRUE)
    \/ \E v \in Valve : BridgeEvent("device_interview", v, FALSE)
    \/ \E kind \in {"opened", "unsafe"} : BridgeStateChanges(kind)

Api ==
    \/ \E r \in Room, operation \in {"replace", "repair"} : StartPairing(r, operation)
    \/ \E s \in SessionId : Cancel(s) \/ Commit(s)
    \/ \E r \in Room : Rollback(r)
    \/ \E r \in Room, t \in Target : SetTemperature(r, t)

\* The task that holds the lock goes on.
Holder ==
    \/ RefreshBaseline \/ OpenWindow \/ OpenSucceeds \/ OpenFails
    \/ \E late \in BOOLEAN : HandleEvent(late)
    \/ CancelSession \/ CommitSession \/ RollbackRoom
    \/ CloseSucceeds \/ CloseFails

TestStep(o) ==
    \/ Challenge(o) \/ Restore(o) \/ Confirm(o) \/ Unconfirmed(o) \/ Recover(o)
    \/ FinishCommit(o) \/ RefuseCommit(o) \/ FailCommit(o)
    \/ FinishRollback(o) \/ RefuseRollback(o)

Next ==
    \/ Bridge \/ Api \/ Holder \/ TakeEvent \/ ProofAges
    \/ \E s \in SessionId : PairingTimeout(s) \/ ResolverFinds(s) \/ ResolverGivesUp(s)
    \/ \E o \in ops : TestStep(o)
    \/ Shutdown \/ CloseForUnload \/ GlobalCloseSucceeds \/ GlobalCloseFails
    \/ Crash \/ Load

Spec == Init /\ [][Next]_vars

\* Every await is bounded (READBACK_SECONDS, PERMIT_JOIN_RECONCILE_SECONDS and
\* the others), and asyncio.Lock serves its waiters in order.
Fairness ==
    /\ WF_vars(Holder)
    /\ SF_vars(TakeEvent)
    /\ \A s \in SessionId : SF_vars(PairingTimeout(s)) /\ SF_vars(ResolverGivesUp(s))
    /\ \A id \in 1 .. MaxOps : SF_vars(\E o \in ops : o.id = id /\ TestStep(o))
    /\ WF_vars(CloseForUnload)
    /\ WF_vars(GlobalCloseSucceeds \/ GlobalCloseFails)

FairSpec == Spec /\ Fairness

-----------------------------------------------------------------------------
(* Properties. *)

SessionType == [room : Room, operation : {"replace", "repair"}, phase : Phase, expected : Nat,
                old : Valve \cup {None}, candidate : Valve \cup {None},
                binding : Valve \cup {None}, acked : BOOLEAN, closed : BOOLEAN,
                remediation : BOOLEAN]

\* None is a value of its own.
ASSUME NoneIsApart == None \notin SessionId /\ None \notin SessionType

\* Type invariant of the runtime, its tasks and the valves.
ReplacementTypeOK ==
    /\ rooms \in [Room -> RoomType] /\ persisted \in [Room -> RoomType]
    /\ sessions \in [SessionId -> SessionType \cup {None}]
    /\ {active, owner} \subseteq {s \in SessionId : Started(s)} \cup {None}
    /\ {requires, maybeOpen} \subseteq BOOLEAN /\ proved \in {"yes", "aged", "no"}
    /\ taint \in {"clean", "opened", "unsafe"}
    /\ timers \cup resolving \subseteq {s \in SessionId : Started(s)}
    /\ current \in {o.id : o \in ops} \cup {None}
    /\ life \in {"starting", "open", "closing", "final", "down"}
    /\ intended \in [Room -> Target \cup {None}] /\ target \in [Valve -> Target]

\* Whatever was committed, rolled back or refused, and in whatever order, the rooms
\* in memory and in entry.data always load again: no valve has two rooms, as its
\* binding or as a way back, and no room loses its line of descent.
RoomsLoadAgain == Loads(rooms) /\ Loads(persisted)

\* What the rooms, sessions and tasks of the runtime always are: of their types, and
\* valid to load (models.py).
RuntimeInvariant == ReplacementTypeOK /\ RoomsLoadAgain

\* Joining that may be open has an owner: whatever failed, was cancelled or died
\* since the window was opened, no other pairing starts before a closing is
\* proved, and an unloaded runtime leaves joining closed.
OpenJoiningIsOwned ==
    maybeOpen => \/ life \in {"open", "closing", "final"} /\ owner # None
                 \/ life \in {"down", "starting"} /\ proved # "yes"

\* A room is switched, by a commit or a rollback, only to a valve that holds the
\* target last set through the room, and it keeps the valve it replaces as its
\* rollback: no temperature set during the test is lost by the switch.  Two tests
\* at once are excepted: a pairing that failed and lived on (see FailedStaysFailed)
\* may test the very valve that another session has just tested for its room.
SwitchKeepsTheTarget ==
    [][\A r \in Room :
           (rooms'[r] # rooms[r] /\ life' # "starting") =>
               /\ intended[r] # None /\ (\A o \in ops : ~o.shared) =>
                      target[rooms'[r].binding] = intended[r]
               /\ rooms'[r].previous = rooms[r].binding
               /\ rooms'[r].revision > rooms[r].revision]_vars

\* A session that was committed or cancelled stays so, whatever late event, late
\* timer or finishing test still knows it (the rooms tell what it did).
OutcomesAreFinal ==
    [][\A s \in SessionId :
           (Started(s) /\ sessions'[s] # None /\ sessions[s].phase \in {"complete", "cancelled"})
               => sessions'[s].phase = sessions[s].phase]_vars

\* A session that failed is never relabelled.  The repository's test of the flow
\* says so of a cancellation; a state received during its closing refutes it.
FailedStaysFailed ==
    [][\A s \in SessionId :
           (Started(s) /\ sessions'[s] # None /\ sessions[s].phase = "failed")
               => sessions'[s].phase = "failed"]_vars

\* A pairing always comes to an end without the user: a valve ready to commit, or
\* a terminal phase.  No path loses the timer or the resolver of a live session.
PairingEnds ==
    \A s \in SessionId :
        (Started(s) /\ sessions[s].phase \in Pairing \cup {"verifying"} /\ life = "open")
            ~> (~Started(s) \/ sessions[s].phase \notin Pairing \cup {"verifying"}
                \/ life # "open")

\* A test ends: it holds its room's lock while it waits for the mutation lock, and
\* nobody waits the other way round.
TestsEnd ==
    \A id \in 1 .. MaxOps :
        (\E o \in ops : o.id = id) ~> ~(\E o \in ops : o.id = id)
=============================================================================
