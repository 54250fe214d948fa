----------------------- MODULE ValveReplacementProofs -----------------------
(***************************************************************************)
(* Proofs about the valve replacement runtime, for any rooms and valves,   *)
(* any number of sessions, tests, events, callbacks and reloads: the rooms *)
(* always load again, joining that may be open is owned, outcomes are      *)
(* final, and a switched room's valve holds the room's target.             *)
(***************************************************************************)
EXTENDS ValveReplacement, TLAPS

-----------------------------------------------------------------------------
(* The inductive invariant. *)

Sessions == [SessionId -> SessionType \cup {None}]
EventRecord == [type : EventType, valve : Valve, good : BOOLEAN, window : SessionId \cup {None}]
StartArg == [room : Room, operation : {"replace", "repair"}]
LockType == [who : {"start", "event", "timeout", "resolver", "cancel", "commit", "rollback"},
             stage : {"run", "reconcile", "baseline", "open", "failopen", "close", "failclose"},
             sid : SessionId \cup {None},
             arg : StartArg \cup EventRecord \cup Room \cup {None}]
TestType == [id : Nat, kind : {"commit", "rollback"}, session : SessionId \cup {None}, room : Room,
             valve : Valve, cur : Valve \cup {None}, expected : Nat, want : Target \cup {None},
             stage : {"queued", "challenged", "restored", "recover", "passed", "failed"},
             cancelled : BOOLEAN, shared : BOOLEAN]
CountType == [sessions : 0 .. MaxSessions, ops : Nat, events : Nat, callbacks : Nat, calls : Nat,
              restarts : Nat]

TypesInv ==
    /\ rooms \in [Room -> RoomType] /\ persisted \in [Room -> RoomType]
    /\ sessions \in Sessions
    /\ active \in SessionId \cup {None} /\ owner \in SessionId \cup {None}
    /\ requires \in BOOLEAN /\ maybeOpen \in BOOLEAN
    /\ proved \in {"yes", "aged", "no"} /\ taint \in {"clean", "opened", "unsafe"}
    /\ lock \in LockType \cup {None}
    /\ timers \subseteq SessionId /\ resolving \subseteq SessionId
    /\ events \in Seq(EventRecord)
    /\ ops \subseteq TestType /\ current \in {o.id : o \in ops} \cup {None}
    /\ life \in {"starting", "open", "closing", "final", "down"}
    /\ intended \in [Room -> Target \cup {None}] /\ target \in [Valve -> Target]
    /\ count \in CountType

\* The active session is not over, and who is past pairing has a candidate.
SessionsInv ==
    /\ active # None => Started(active) /\ sessions[active].phase \notin Terminal
    /\ owner # None => Started(owner)
    /\ \A s \in timers \cup resolving : Started(s)
    /\ \A s \in SessionId : Started(s) =>
           /\ s <= count.sessions
           /\ sessions[s].phase \in {"verifying", "ready_to_commit", "testing"} =>
                  sessions[s].candidate # None

\* Who may hold the lock, and in which await.
LockShape(l) ==
    \/ /\ l.who = "start" /\ l.stage \in {"run", "reconcile", "baseline", "open", "failopen"}
       /\ l.arg \in StartArg
    \/ /\ l.who = "event" /\ l.stage \in {"run", "reconcile", "close", "failclose"}
       /\ l.arg \in EventRecord
    \/ l.who \in {"timeout", "resolver"} /\ l.stage = "failclose"
    \/ l.who = "cancel" /\ l.stage \in {"run", "reconcile", "close"}
    \/ l.who = "commit" /\ l.stage \in {"run", "reconcile"}
    \/ l.who = "rollback" /\ l.stage \in {"run", "reconcile"} /\ l.arg \in Room

\* A closing that another phase follows is not one of a session that is over, nor
\* of a session that is being tested.
LockInv == lock # None =>
    /\ LockShape(lock)
    /\ life = "open" \/ (life = "closing" /\ lock.who \in {"commit", "rollback"})
    /\ lock.who = "start" /\ lock.stage \in {"run", "reconcile", "baseline"} =>
           count.sessions < MaxSessions
    /\ lock.who \in {"cancel", "commit"} => lock.sid \in SessionId /\ Started(lock.sid)
    /\ lock.stage \in {"open", "failopen", "close", "failclose"} =>
           /\ lock.sid \in SessionId /\ Started(lock.sid)
           /\ sessions[lock.sid].phase \notin {"complete", "cancelled"}
    /\ lock.stage = "close" => \A o \in ops : o.kind = "commit" => o.session # lock.sid
    /\ lock.stage = "close" /\ lock.who = "event" => sessions[lock.sid].candidate # None

\* A session has one test at most, and is under test or failed while it has one.
OpsInv ==
    /\ \A o \in ops : o.kind = "commit" =>
           /\ o.session \in SessionId /\ Started(o.session)
           /\ sessions[o.session].phase \in {"testing", "failed"}
    /\ \A o, p \in ops : o.kind = "commit" /\ p.kind = "commit" /\ o.session = p.session => o = p
    /\ \A o \in ops : ~o.shared => ops = {o}

\* A test restores the target its room is meant to hold, and a test that passed
\* left the valve at it, unless the valve is that of another room.
TargetInv == \A o \in ops :
    /\ o.stage # "queued" =>
           o.want \in Target /\ (intended[o.room] # None => o.want = intended[o.room])
    /\ o.stage = "passed" /\ ~o.shared /\ Available(o.valve, o.room) => target[o.valve] = o.want

\* What an unloaded runtime has left.
LifeInv ==
    /\ life \in {"starting", "final", "down"} => lock = None /\ ops = {}
    /\ life # "open" => timers = {} /\ resolving = {}

\* A window that may be open is nobody's baseline, and somebody's lease.
JoinInv ==
    maybeOpen => /\ proved = "no"
                 /\ life \in {"open", "closing", "final"} => owner # None

RuntimeInv == /\ TypesInv /\ RoomsLoadAgain /\ SessionsInv /\ LockInv
              /\ OpsInv /\ TargetInv /\ LifeInv /\ JoinInv

-----------------------------------------------------------------------------
(* Sessions. *)

\* Two records of a session that differ in nothing the invariant is about.
Alike(x, y) ==
    /\ x = None <=> y = None
    /\ x # None => x.phase = y.phase /\ x.candidate = y.candidate

\* Only session s changes, to phase p; its candidate is c.
Alters(ss, tt, s, p, c) ==
    /\ tt \in Sessions
    /\ tt[s] # None /\ tt[s].phase = p /\ tt[s].candidate = c
    /\ \A q \in SessionId \ {s} : Alike(ss[q], tt[q])

Preserves(ss, tt) == tt \in Sessions /\ \A q \in SessionId : Alike(ss[q], tt[q])

\* A record of a session stays one when a field is set.
LEMMA PhaseSet ==
    ASSUME NEW x \in SessionType, NEW p \in Phase
    PROVE  /\ [x EXCEPT !.phase = p] \in SessionType
           /\ [x EXCEPT !.phase = p].phase = p
           /\ [x EXCEPT !.phase = p].candidate = x.candidate
  BY DEF SessionType

\* The same for its candidate and its binding.
LEMMA ValveSet ==
    ASSUME NEW x \in SessionType, NEW c \in Valve \cup {None}
    PROVE  /\ [x EXCEPT !.candidate = c] \in SessionType
           /\ [x EXCEPT !.candidate = c].candidate = c
           /\ [x EXCEPT !.candidate = c].phase = x.phase
           /\ [x EXCEPT !.binding = c] \in SessionType
           /\ [x EXCEPT !.binding = c].candidate = x.candidate
           /\ [x EXCEPT !.binding = c].phase = x.phase
  BY DEF SessionType

\* The same for its flags.
LEMMA FlagSet ==
    ASSUME NEW x \in SessionType, NEW b \in BOOLEAN
    PROVE  /\ [x EXCEPT !.closed = b] \in SessionType
           /\ [x EXCEPT !.closed = b].candidate = x.candidate
           /\ [x EXCEPT !.closed = b].phase = x.phase
           /\ [x EXCEPT !.acked = b] \in SessionType
           /\ [x EXCEPT !.acked = b].candidate = x.candidate
           /\ [x EXCEPT !.acked = b].phase = x.phase
           /\ [x EXCEPT !.remediation = b] \in SessionType
           /\ [x EXCEPT !.remediation = b].candidate = x.candidate
           /\ [x EXCEPT !.remediation = b].phase = x.phase
  BY DEF SessionType

\* What replacing one session's record does to all of them.
LEMMA SessionReplaced ==
    ASSUME NEW ss \in Sessions, NEW s \in SessionId, NEW y \in SessionType
    PROVE  /\ Alters(ss, [ss EXCEPT ![s] = y], s, y.phase, y.candidate)
           /\ [ss EXCEPT ![s] = y][s] = y
  BY NoneIsApart DEF Alters, Alike, Sessions

\* Ending a session.
LEMMA EndSession ==
    ASSUME NEW ss \in Sessions, NEW s \in SessionId, ss[s] # None, NEW p \in Phase
    PROVE  Alters(ss, End(ss, s, p), s, p, ss[s].candidate)
  <1>1. ss[s] \in SessionType
    BY DEF Sessions
  <1> DEFINE y == [ss[s] EXCEPT !.phase = p]
  <1>2. End(ss, s, p) = [ss EXCEPT ![s] = y]
    BY DEF End
  <1>3. y \in SessionType /\ y.phase = p /\ y.candidate = ss[s].candidate
    BY <1>1, PhaseSet
  <1> HIDE DEF y
  <1>4. Alters(ss, [ss EXCEPT ![s] = y], s, y.phase, y.candidate)
    BY <1>3, SessionReplaced
  <1>5. QED
    BY <1>2, <1>3, <1>4

\* A proved closing is noted in every session, and changes nothing else of them.
LEMMA ClosedSessionsAlike ==
    ASSUME sessions \in Sessions
    PROVE  Preserves(sessions, ClosedSessions)
  <1>1. ASSUME NEW q \in SessionId, sessions[q] # None
        PROVE  /\ [sessions[q] EXCEPT !.closed = TRUE] \in SessionType
               /\ Alike(sessions[q], [sessions[q] EXCEPT !.closed = TRUE])
    <2>1. sessions[q] \in SessionType
      BY <1>1 DEF Sessions
    <2>2. QED
      BY <1>1, <2>1, FlagSet, NoneIsApart DEF Alike
  <1>2. ClosedSessions \in Sessions
    BY <1>1 DEF ClosedSessions, Sessions, Started
  <1>3. ASSUME NEW q \in SessionId PROVE Alike(sessions[q], ClosedSessions[q])
    BY <1>1, <1>3 DEF ClosedSessions, Started, Alike
  <1>4. QED
    BY <1>2, <1>3 DEF Preserves

\* Changes of sessions that go on from one another.
LEMMA AltersAfterPreserves ==
    ASSUME NEW ss, NEW tt, NEW uu, NEW s \in SessionId, NEW p, NEW c,
           Preserves(ss, tt), Alters(tt, uu, s, p, c)
    PROVE  Alters(ss, uu, s, p, c)
  BY DEF Preserves, Alters, Alike

\* Noting that a session needs remediation.
LEMMA RemediationNoted ==
    ASSUME NEW ss \in Sessions, NEW s \in SessionId, ss[s] # None, NEW b \in BOOLEAN
    PROVE  Preserves(ss, [ss EXCEPT ![s].remediation = b])
  <1>1. ss[s] \in SessionType
    BY DEF Sessions
  <1> DEFINE y == [ss[s] EXCEPT !.remediation = b]
  <1>2. y \in SessionType /\ y.phase = ss[s].phase /\ y.candidate = ss[s].candidate
    BY <1>1, FlagSet
  <1>3. [ss EXCEPT ![s].remediation = b] = [ss EXCEPT ![s] = y]
    OBVIOUS
  <1> HIDE DEF y
  <1>4. QED
    BY <1>1, <1>2, <1>3, SessionReplaced, NoneIsApart DEF Alters, Preserves, Alike

\* Ending a session that is noted to need remediation.
LEMMA RemediatedEnd ==
    ASSUME NEW ss \in Sessions, NEW s \in SessionId, ss[s] # None, NEW b \in BOOLEAN, NEW p \in Phase
    PROVE  Alters(ss, End([ss EXCEPT ![s].remediation = b], s, p), s, p, ss[s].candidate)
  <1> DEFINE tt == [ss EXCEPT ![s].remediation = b]
  <1>1. Preserves(ss, tt)
    BY RemediationNoted
  <1> HIDE DEF tt
  <1>2. tt \in Sessions /\ tt[s] # None /\ tt[s].candidate = ss[s].candidate
    BY <1>1 DEF Preserves, Alike
  <1>3. Alters(tt, End(tt, s, p), s, p, ss[s].candidate)
    BY <1>2, EndSession
  <1>4. QED
    BY <1>1, <1>3, AltersAfterPreserves DEF tt

\* What _async_fail does: it awaits a closing, or the session is over.
LEMMA FailEffect ==
    ASSUME TypesInv, NEW l, NEW s \in SessionId, Started(s), NEW remediation \in BOOLEAN,
           Fail(l, s, remediation)
    PROVE  \/ /\ lock' = [[l EXCEPT !.sid = s] EXCEPT !.stage = "failclose"] /\ taint' = "clean"
              /\ Preserves(sessions, sessions')
              /\ UNCHANGED <<active, owner, requires, proved, maybeOpen>>
           \/ /\ lock' = None /\ Alters(sessions, sessions', s, "failed", sessions[s].candidate)
              /\ active' = IF active = s THEN None ELSE active
              /\ UNCHANGED bridgeVars
  <1> DEFINE b == sessions[s].remediation \/ remediation
             marked == [sessions EXCEPT ![s].remediation = b]
  <1>1. sessions \in Sessions /\ sessions[s] # None /\ b \in BOOLEAN /\ "failed" \in Phase
    BY DEF TypesInv, Sessions, Started, SessionType, Phase, Terminal
  <1>2. IF NeedsClose(s, FALSE)
        THEN /\ Await([l EXCEPT !.sid = s], "failclose")
             /\ sessions' = marked
             /\ UNCHANGED <<active, owner, requires, proved, maybeOpen>>
        ELSE /\ sessions' = End(marked, s, "failed")
             /\ ClearActive(s) /\ lock' = None /\ UNCHANGED bridgeVars
    BY DEF Fail
  <1> HIDE DEF b
  <1>3. Preserves(sessions, marked)
    BY <1>1, RemediationNoted
  <1>4. Alters(sessions, End(marked, s, "failed"), s, "failed", sessions[s].candidate)
    BY <1>1, RemediatedEnd
  <1> HIDE DEF marked
  <1>5. QED
    BY <1>2, <1>3, <1>4 DEF Await, ClearActive

\* Tests go on while their sessions are only failed.
LEMMA TestsUntouched ==
    ASSUME RuntimeInv, UNCHANGED <<rooms, ops, intended, target>>,
           \A o \in ops : o.kind = "commit" =>
               sessions'[o.session] # None /\ sessions'[o.session].phase \in {"testing", "failed"}
    PROVE  OpsInv' /\ TargetInv'
  <1>1. OpsInv'
    BY DEF RuntimeInv, OpsInv, Started
  <1>2. ASSUME NEW v, NEW r PROVE Available(v, r)' <=> Available(v, r)
    BY DEF Available, Claimed, Claims
  <1>3. TargetInv'
    BY <1>2 DEF RuntimeInv, TargetInv
  <1>4. QED
    BY <1>1, <1>3

\* What a step may never do to an outcome (see OutcomesAreFinal).
Final ==
    \A s \in SessionId :
        (Started(s) /\ sessions'[s] # None /\ sessions[s].phase \in {"complete", "cancelled"})
            => sessions'[s].phase = sessions[s].phase

\* What a change of one session that is not over does to all of them.
LEMMA SessionMoves ==
    ASSUME RuntimeInv, NEW s \in SessionId, Started(s), NEW p \in Phase, NEW c,
           Alters(sessions, sessions', s, p, c),
           p \in {"verifying", "ready_to_commit", "testing"} => c # None,
           sessions[s].phase \notin {"complete", "cancelled"},
           \/ active' = IF active = s THEN None ELSE active
           \/ active' = active /\ p \notin Terminal,
           owner' \in {owner, None}, timers' \subseteq timers \cup {s},
           resolving' \subseteq resolving \cup {s}, count'.sessions = count.sessions
    PROVE  SessionsInv' /\ Final
  <1>0. /\ \A q \in SessionId : sessions[q] # None => sessions'[q] # None
        /\ \A q \in SessionId \ {s} : Alike(sessions[q], sessions'[q])
        /\ sessions'[s] # None /\ sessions'[s].phase = p /\ sessions'[s].candidate = c
    BY DEF Alters, Alike
  <1>1. active' # None => sessions'[active'] # None /\ sessions'[active'].phase \notin Terminal
    BY <1>0 DEF RuntimeInv, TypesInv, SessionsInv, Started, Alike
  <1>2. (owner' # None => sessions'[owner'] # None)
        /\ \A q \in timers' \cup resolving' : sessions'[q] # None
    BY <1>0 DEF RuntimeInv, TypesInv, SessionsInv, Started
  <1>3. ASSUME NEW q \in SessionId, sessions'[q] # None
        PROVE  /\ q <= count'.sessions
               /\ sessions'[q].phase \in {"verifying", "ready_to_commit", "testing"} =>
                      sessions'[q].candidate # None
    BY <1>0, <1>3 DEF RuntimeInv, SessionsInv, Started, Alike
  <1>4. Final
    BY <1>0 DEF Final, Started, Alike
  <1>5. QED
    BY <1>1, <1>2, <1>3, <1>4 DEF SessionsInv, Started

\* A test goes on after such a change, unless its session left it behind.
LEMMA SessionChanged ==
    ASSUME RuntimeInv, NEW s \in SessionId, Started(s), NEW p \in Phase, NEW c,
           Alters(sessions, sessions', s, p, c),
           p # "failed" => \A o \in ops : o.kind = "commit" => o.session # s,
           UNCHANGED <<rooms, ops, intended, target>>
    PROVE  OpsInv' /\ TargetInv'
  <1>0. /\ \A q \in SessionId \ {s} : Alike(sessions[q], sessions'[q])
        /\ sessions'[s] # None /\ sessions'[s].phase = p
    BY DEF Alters
  <1>1. ASSUME NEW o \in ops, o.kind = "commit"
        PROVE  sessions'[o.session] # None /\ sessions'[o.session].phase \in {"testing", "failed"}
    <2>1. o.session \in SessionId /\ sessions[o.session] # None
          /\ sessions[o.session].phase \in {"testing", "failed"}
      BY <1>1 DEF RuntimeInv, OpsInv, Started
    <2>2. QED
      BY <1>0, <1>1, <2>1 DEF Alike
  <1>2. QED
    BY <1>1, TestsUntouched

\* What remarks on sessions that change nothing of theirs do.
LEMMA SessionsPreserved ==
    ASSUME RuntimeInv, Preserves(sessions, sessions'), active' \in {active, None},
           owner' \in {owner, None}, timers' \subseteq {q \in SessionId : Started(q)},
           resolving' \subseteq {q \in SessionId : Started(q)}, count'.sessions = count.sessions,
           UNCHANGED <<rooms, ops, intended, target>>
    PROVE  SessionsInv' /\ OpsInv' /\ TargetInv' /\ Final
  <1>0. \A q \in SessionId : Alike(sessions[q], sessions'[q])
    BY DEF Preserves
  <1>1. SessionsInv'
    <2>1. active' # None => sessions'[active'] # None /\ sessions'[active'].phase \notin Terminal
      BY <1>0 DEF RuntimeInv, TypesInv, SessionsInv, Started, Alike
    <2>2. (owner' # None => sessions'[owner'] # None)
          /\ \A q \in timers' \cup resolving' : sessions'[q] # None
      BY <1>0 DEF RuntimeInv, TypesInv, SessionsInv, Started, Alike
    <2>3. ASSUME NEW q \in SessionId, sessions'[q] # None
          PROVE  /\ q <= count'.sessions
                 /\ sessions'[q].phase \in {"verifying", "ready_to_commit", "testing"} =>
                        sessions'[q].candidate # None
      BY <1>0, <2>3 DEF RuntimeInv, SessionsInv, Started, Alike
    <2>4. QED
      BY <2>1, <2>2, <2>3 DEF SessionsInv, Started
  <1>2. ASSUME NEW o \in ops, o.kind = "commit"
        PROVE  sessions'[o.session] # None /\ sessions'[o.session].phase \in {"testing", "failed"}
    BY <1>0, <1>2 DEF RuntimeInv, OpsInv, Started, Alike
  <1>3. OpsInv' /\ TargetInv'
    BY <1>2, TestsUntouched
  <1>4. Final
    BY <1>0 DEF Final, Started, Alike
  <1>5. QED
    BY <1>1, <1>3, <1>4

-----------------------------------------------------------------------------
(* The lock. *)

Stage == {"run", "reconcile", "baseline", "open", "failopen", "close", "failclose"}

\* The next await of the task that holds the lock.
LEMMA LockStaged ==
    ASSUME NEW l \in LockType, NEW stage \in Stage
    PROVE  /\ [l EXCEPT !.stage = stage] \in LockType
           /\ [l EXCEPT !.stage = stage].stage = stage
           /\ [l EXCEPT !.stage = stage].who = l.who
           /\ [l EXCEPT !.stage = stage].sid = l.sid
           /\ [l EXCEPT !.stage = stage].arg = l.arg
  BY DEF LockType, Stage

\* The session it acts for.
LEMMA LockTagged ==
    ASSUME NEW l \in LockType, NEW s \in SessionId
    PROVE  /\ [l EXCEPT !.sid = s] \in LockType
           /\ [l EXCEPT !.sid = s].stage = l.stage
           /\ [l EXCEPT !.sid = s].who = l.who
           /\ [l EXCEPT !.sid = s].sid = s
           /\ [l EXCEPT !.sid = s].arg = l.arg
  BY DEF LockType

\* Awaiting on behalf of a session.
LEMMA Awaited ==
    ASSUME NEW l \in LockType, NEW s \in SessionId, NEW stage \in Stage,
           Await([l EXCEPT !.sid = s], stage)
    PROVE  /\ lock' \in LockType /\ lock'.stage = stage /\ lock'.who = l.who
           /\ lock'.sid = s /\ lock'.arg = l.arg
           /\ taint' = "clean"
  <1> DEFINE m == [l EXCEPT !.sid = s]
  <1>1. m \in LockType /\ m.who = l.who /\ m.sid = s /\ m.arg = l.arg
    BY LockTagged
  <1>2. lock' = [m EXCEPT !.stage = stage] /\ taint' = "clean"
    BY DEF Await
  <1> HIDE DEF m
  <1>3. QED
    BY <1>1, <1>2, LockStaged

\* Whoever enters the lock runs, or reconciles first.
LEMMA Entered ==
    ASSUME NEW who \in {"start", "event", "cancel", "commit", "rollback"},
           NEW s \in SessionId \cup {None},
           NEW arg \in StartArg \cup EventRecord \cup Room \cup {None},
           Enter(who, s, arg)
    PROVE  /\ lock' \in LockType /\ lock'.who = who /\ lock'.sid = s /\ lock'.arg = arg
           /\ lock'.stage \in {"run", "reconcile"}
           /\ taint' = "clean"
  BY DEF Enter, LockType

\* A step that only moves the lock keeps the invariant if the lock's part holds.
LEMMA OnlyTheLock ==
    ASSUME RuntimeInv, lock' \in LockType \cup {None}, taint' \in {"clean", "opened", "unsafe"},
           events' \in Seq(EventRecord), count' \in CountType, LockInv',
           life \in {"open", "closing"} \/ lock' = lock,
           UNCHANGED <<bindingVars, sessions, active, owner, requires, proved, maybeOpen, timers,
                       resolving, ops, current, life, valveVars>>,
           count'.sessions = count.sessions
    PROVE  RuntimeInv' /\ Final
  <1>1. TypesInv'
    BY DEF RuntimeInv, TypesInv, bindingVars, valveVars
  <1>2. RoomsLoadAgain' /\ Final
    BY DEF RuntimeInv, RoomsLoadAgain, bindingVars, Final
  <1>3. SessionsInv'
    BY DEF RuntimeInv, SessionsInv, Started
  <1>4. OpsInv'
    BY DEF RuntimeInv, OpsInv, Started
  <1>5. TargetInv'
    BY DEF RuntimeInv, TargetInv, Available, Claimed, Claims, bindingVars, valveVars
  <1>6. LifeInv' /\ JoinInv'
    BY DEF RuntimeInv, LifeInv, JoinInv
  <1>7. QED
    BY <1>1, <1>2, <1>3, <1>4, <1>5, <1>6 DEF RuntimeInv

\* A test is only ever asked for while the runtime is open.
LEMMA HolderIsOpen ==
    ASSUME RuntimeInv, lock # None
    PROVE  /\ lock \in LockType /\ life \in {"open", "closing"}
           /\ lock.who \notin {"commit", "rollback"} => life = "open"
  BY DEF RuntimeInv, TypesInv, LockInv

-----------------------------------------------------------------------------
(* The initial state, and the steps that only move the lock or the bridge. *)

\* A runtime begins with no session, no task and joining unproved.
LEMMA InitiallyInv == Init => RuntimeInv
  <1> SUFFICES ASSUME Init PROVE RuntimeInv
    OBVIOUS
  <1>1. rooms \in InitialRooms /\ rooms \in [Room -> RoomType] /\ Loads(rooms) /\ persisted = rooms
    BY ReplacementConstants DEF Init
  <1>2. \A s \in SessionId : sessions[s] = None
    BY DEF Init
  <1>3. intended \in [Room -> Target \cup {None}] /\ target \in [Valve -> Target]
    BY ReplacementConstants DEF Init
  <1>4. count \in CountType
    BY ReplacementConstants DEF Init, CountType
  <1>5. sessions \in Sessions
    BY DEF Init, Sessions
  <1>6. events \in Seq(EventRecord)
    BY DEF Init
  <1>7. TypesInv
    BY <1>1, <1>3, <1>4, <1>5, <1>6 DEF Init, TypesInv
  <1>8. RoomsLoadAgain
    BY <1>1 DEF RoomsLoadAgain
  <1>9. SessionsInv
    BY <1>2 DEF Init, SessionsInv, Started
  <1>10. LockInv /\ OpsInv /\ TargetInv /\ LifeInv /\ JoinInv
    BY DEF Init, LockInv, OpsInv, TargetInv, LifeInv, JoinInv
  <1>11. QED
    BY <1>7, <1>8, <1>9, <1>10 DEF RuntimeInv

\* async_start_pairing gets the lock.
LEMMA StartPairingStep ==
    ASSUME RuntimeInv, NEW r \in Room, NEW operation \in {"replace", "repair"},
           StartPairing(r, operation)
    PROVE  RuntimeInv' /\ Final
  <1>1. /\ Enter("start", None, [room |-> r, operation |-> operation])
        /\ life = "open" /\ count.sessions < MaxSessions
        /\ UNCHANGED <<bindingVars, sessions, active, owner, requires, proved, maybeOpen, taskVars,
                       life, valveVars, count>>
    BY DEF StartPairing
  <1> DEFINE arg == [room |-> r, operation |-> operation]
  <1>2. arg \in StartArg
    BY DEF StartArg
  <1> HIDE DEF arg
  <1>3. /\ lock' \in LockType /\ lock'.who = "start" /\ lock'.arg = arg
        /\ lock'.stage \in {"run", "reconcile"} /\ taint' = "clean"
    BY <1>1, <1>2, Entered DEF arg
  <1>4. LockInv'
    BY <1>1, <1>2, <1>3 DEF LockInv, LockShape
  <1>5. QED
    BY <1>1, <1>3, <1>4, OnlyTheLock DEF taskVars, RuntimeInv, TypesInv

\* async_cancel, async_commit and async_rollback_room get the lock.
LEMMA RequestStep ==
    ASSUME RuntimeInv,
           \/ \E s \in SessionId : Cancel(s) \/ Commit(s)
           \/ \E r \in Room : Rollback(r)
    PROVE  RuntimeInv' /\ Final
  <1>1. ASSUME NEW s \in SessionId, NEW who \in {"cancel", "commit"}, Enter(who, s, None),
               Started(s), life = "open",
               UNCHANGED <<bindingVars, sessions, active, owner, requires, proved, maybeOpen,
                           taskVars, life, valveVars, count>>
        PROVE  RuntimeInv' /\ Final
    <2>1. /\ lock' \in LockType /\ lock'.who = who /\ lock'.sid = s
          /\ lock'.stage \in {"run", "reconcile"} /\ taint' = "clean"
      BY <1>1, Entered
    <2>2. LockInv'
      BY <1>1, <2>1 DEF LockInv, LockShape, Started
    <2>3. QED
      BY <1>1, <2>1, <2>2, OnlyTheLock DEF taskVars, RuntimeInv, TypesInv
  <1>2. ASSUME NEW r \in Room, Rollback(r)
        PROVE  RuntimeInv' /\ Final
    <2>1. /\ Enter("rollback", None, r) /\ life = "open"
          /\ UNCHANGED <<bindingVars, sessions, active, owner, requires, proved, maybeOpen,
                         taskVars, life, valveVars, count>>
      BY <1>2 DEF Rollback
    <2>2. /\ lock' \in LockType /\ lock'.who = "rollback" /\ lock'.arg = r
          /\ lock'.stage \in {"run", "reconcile"} /\ taint' = "clean"
      BY <2>1, Entered
    <2>3. LockInv'
      BY <2>1, <2>2 DEF LockInv, LockShape
    <2>4. QED
      BY <2>1, <2>2, <2>3, OnlyTheLock DEF taskVars, RuntimeInv, TypesInv
  <1>3. QED
    BY <1>1, <1>2 DEF Cancel, Commit

\* A stale proof is renewed; an opening that failed is closed by force.
LEMMA BaselineStep ==
    ASSUME RuntimeInv, RefreshBaseline \/ OpenFails
    PROVE  RuntimeInv' /\ Final
  <1>1. ASSUME NEW stage \in {"baseline", "failopen"}, lock # None, Await(lock, stage),
               stage = "baseline" => lock.who = "start" /\ lock.stage = "run",
               stage = "failopen" => lock.stage = "open",
               UNCHANGED <<bindingVars, sessions, active, owner, requires, proved, maybeOpen,
                           taskVars, life, valveVars, count>>
        PROVE  RuntimeInv' /\ Final
    <2>1. lock \in LockType /\ stage \in Stage
      BY <1>1, HolderIsOpen DEF Stage
    <2>2. lock' = [lock EXCEPT !.stage = stage] /\ taint' = "clean"
      BY <1>1 DEF Await
    <2>3. /\ lock' \in LockType /\ lock'.stage = stage /\ lock'.who = lock.who
          /\ lock'.sid = lock.sid /\ lock'.arg = lock.arg
      BY <2>1, <2>2, LockStaged
    <2>4. LockInv'
      BY <1>1, <2>3 DEF RuntimeInv, LockInv, LockShape, Started
    <2>5. QED
      BY <1>1, <2>2, <2>3, <2>4, HolderIsOpen, OnlyTheLock DEF taskVars, RuntimeInv, TypesInv
  <1>2. QED
    BY <1>1 DEF RefreshBaseline, OpenFails, Running

\* A bridge event is stamped with the session in whose window it came, and queues.
LEMMA BridgeEventStep ==
    ASSUME RuntimeInv, NEW type \in EventType, NEW v \in Valve, NEW good \in BOOLEAN,
           BridgeEvent(type, v, good)
    PROVE  RuntimeInv' /\ Final
  <1>1. PICK w \in {owner, None} :
            events' = Append(events, [type |-> type, valve |-> v, good |-> good, window |-> w])
    BY DEF BridgeEvent
  <1> DEFINE e == [type |-> type, valve |-> v, good |-> good, window |-> w]
  <1>2. e \in EventRecord
    BY <1>1 DEF EventRecord, RuntimeInv, TypesInv
  <1> HIDE DEF e
  <1>3. events' \in Seq(EventRecord)
    BY <1>1, <1>2 DEF RuntimeInv, TypesInv, e
  <1>4. /\ count' = [count EXCEPT !.events = @ + 1]
        /\ UNCHANGED <<bindingVars, sessions, active, bridgeVars, lock, timers, resolving, ops,
                       current, life, valveVars>>
    BY DEF BridgeEvent
  <1>5. count' \in CountType /\ count'.sessions = count.sessions
    BY <1>4 DEF RuntimeInv, TypesInv, CountType
  <1>6. LockInv'
    BY <1>4, <1>5 DEF RuntimeInv, LockInv, LockShape, Started
  <1>7. QED
    BY <1>3, <1>4, <1>5, <1>6, OnlyTheLock DEF bridgeVars, RuntimeInv, TypesInv

\* async_handle_bridge_event gets the lock, or returns once the runtime closes.
LEMMA TakeEventStep ==
    ASSUME RuntimeInv, TakeEvent
    PROVE  RuntimeInv' /\ Final
  <1>1. /\ events \in Seq(EventRecord) /\ events # <<>> /\ events' = Tail(events)
        /\ UNCHANGED <<bindingVars, sessions, active, owner, requires, proved, maybeOpen, timers,
                       resolving, ops, current, life, valveVars, count>>
    BY DEF RuntimeInv, TypesInv, TakeEvent
  <1>2. Head(events) \in EventRecord /\ events' \in Seq(EventRecord)
    BY <1>1
  <1>3. CASE life = "open"
    <2>1. Enter("event", None, Head(events))
      BY <1>3 DEF TakeEvent
    <2>2. /\ lock' \in LockType /\ lock'.who = "event" /\ lock'.arg = Head(events)
          /\ lock'.stage \in {"run", "reconcile"} /\ taint' = "clean"
      BY <1>2, <2>1, Entered
    <2>3. LockInv'
      BY <1>1, <1>2, <1>3, <2>2 DEF LockInv, LockShape
    <2>4. QED
      BY <1>1, <1>2, <1>3, <2>2, <2>3, OnlyTheLock DEF RuntimeInv, TypesInv
  <1>4. CASE life # "open"
    <2>1. lock = None /\ UNCHANGED <<lock, taint>>
      BY <1>4 DEF TakeEvent, Free
    <2>2. LockInv'
      BY <2>1 DEF LockInv
    <2>3. QED
      BY <1>1, <1>2, <2>1, <2>2, OnlyTheLock DEF RuntimeInv, TypesInv
  <1>5. QED
    BY <1>3, <1>4

\* A baseline grows old, and is renewed.
LEMMA ProofAgesStep ==
    ASSUME RuntimeInv, ProofAges
    PROVE  RuntimeInv' /\ Final
  <1>1. /\ UNCHANGED <<rooms, persisted, sessions, active, owner, requires, taint, maybeOpen, lock,
                       timers, resolving, events, ops, current, life, intended, target, count>>
        /\ proved # "no" /\ proved' \in {"yes", "aged"}
    BY DEF ProofAges, bindingVars, taskVars, valveVars
  <1>2. TypesInv'
    BY <1>1 DEF RuntimeInv, TypesInv
  <1>3. SessionsInv' /\ LockInv' /\ OpsInv' /\ RoomsLoadAgain' /\ Final
    BY <1>1 DEF RuntimeInv, SessionsInv, Started, LockInv, LockShape, OpsInv, RoomsLoadAgain, Final
  <1>4. TargetInv' /\ LifeInv' /\ JoinInv'
    BY <1>1 DEF RuntimeInv, TargetInv, Available, Claimed, Claims, LifeInv, JoinInv
  <1>5. QED
    BY <1>2, <1>3, <1>4 DEF RuntimeInv

-----------------------------------------------------------------------------
(* Failing a session. *)

\* What a task whose session is not over leaves when it fails the session.
LEMMA Failed ==
    ASSUME RuntimeInv, life = "open", NEW l \in LockType, NEW s \in SessionId, Started(s),
           NEW remediation \in BOOLEAN, Fail(l, s, remediation),
           \/ l.who = "event" /\ l.arg \in EventRecord
           \/ l.who \in {"timeout", "resolver"},
           sessions[s].phase \notin {"complete", "cancelled"},
           timers' \subseteq timers, resolving' \subseteq resolving,
           UNCHANGED <<bindingVars, events, ops, current, life, valveVars, count>>
    PROVE  RuntimeInv' /\ Final
  <1>0. /\ UNCHANGED <<rooms, persisted, events, ops, current, life, intended, target, count>>
        /\ TypesInv /\ life' = "open"
    BY DEF bindingVars, valveVars, RuntimeInv
  <1>1. CASE /\ lock' = [[l EXCEPT !.sid = s] EXCEPT !.stage = "failclose"] /\ taint' = "clean"
             /\ Preserves(sessions, sessions')
             /\ UNCHANGED <<active, owner, requires, proved, maybeOpen>>
    <2>1. /\ lock' \in LockType /\ lock'.stage = "failclose" /\ lock'.who = l.who
          /\ lock'.sid = s /\ lock'.arg = l.arg
      BY <1>1, Awaited DEF Await, Stage
    <2>2. TypesInv'
      BY <1>0, <1>1, <2>1 DEF TypesInv, Preserves
    <2>3. SessionsInv' /\ OpsInv' /\ TargetInv' /\ Final
      BY <1>0, <1>1, SessionsPreserved DEF RuntimeInv, SessionsInv, TypesInv
    <2>4. sessions'[s] # None /\ sessions'[s].phase = sessions[s].phase
      BY <1>1 DEF Preserves, Alike, Started
    <2>5. LockInv'
      BY <1>0, <2>1, <2>4 DEF LockInv, LockShape, Started
    <2>6. RoomsLoadAgain' /\ LifeInv' /\ JoinInv'
      BY <1>0, <1>1 DEF RuntimeInv, RoomsLoadAgain, LifeInv, JoinInv
    <2>7. QED
      BY <2>2, <2>3, <2>5, <2>6 DEF RuntimeInv
  <1>2. CASE /\ lock' = None /\ Alters(sessions, sessions', s, "failed", sessions[s].candidate)
             /\ active' = IF active = s THEN None ELSE active
             /\ UNCHANGED bridgeVars
    <2>1. UNCHANGED <<owner, requires, proved, taint, maybeOpen>>
      BY <1>2 DEF bridgeVars
    <2>2. TypesInv'
      BY <1>0, <1>2, <2>1 DEF TypesInv, Alters
    <2>3. SessionsInv' /\ Final
      BY <1>0, <1>2, <2>1, SessionMoves DEF Phase, Terminal
    <2>4. OpsInv' /\ TargetInv'
      BY <1>0, <1>2, SessionChanged DEF Phase, Terminal
    <2>5. RoomsLoadAgain' /\ LockInv' /\ LifeInv' /\ JoinInv'
      BY <1>0, <1>2, <2>1 DEF RuntimeInv, RoomsLoadAgain, LockInv, LifeInv, JoinInv
    <2>6. QED
      BY <2>2, <2>3, <2>4, <2>5 DEF RuntimeInv
  <1>3. QED
    BY <1>0, <1>1, <1>2, FailEffect

\* A task that finds nothing to do.
LEMMA Dropped ==
    ASSUME RuntimeInv, lock' = None, timers' \subseteq timers, resolving' \subseteq resolving,
           UNCHANGED <<bindingVars, sessions, active, bridgeVars, events, ops, current, life,
                       valveVars, count>>
    PROVE  RuntimeInv' /\ Final
  <1>0. UNCHANGED <<rooms, persisted, sessions, active, owner, requires, proved, taint, maybeOpen,
                    events, ops, current, life, intended, target, count>>
    BY DEF bindingVars, bridgeVars, valveVars
  <1>1. TypesInv'
    BY <1>0 DEF RuntimeInv, TypesInv
  <1>2. SessionsInv' /\ LockInv' /\ OpsInv' /\ RoomsLoadAgain' /\ Final
    BY <1>0 DEF RuntimeInv, SessionsInv, Started, LockInv, OpsInv, RoomsLoadAgain, Final
  <1>3. TargetInv' /\ LifeInv' /\ JoinInv'
    BY <1>0 DEF RuntimeInv, TargetInv, Available, Claimed, Claims, LifeInv, JoinInv
  <1>4. QED
    BY <1>1, <1>2, <1>3 DEF RuntimeInv

\* A step after which a session is in another phase and nobody holds the lock.
LEMMA Settled ==
    ASSUME RuntimeInv, NEW s \in SessionId, Started(s), NEW p \in Phase, NEW c,
           lock' = None,
           Alters(sessions, sessions', s, p, c),
           p \in {"verifying", "ready_to_commit", "testing"} => c # None,
           p # "failed" => \A o \in ops : o.kind = "commit" => o.session # s,
           sessions[s].phase \notin {"complete", "cancelled"},
           \/ active' = IF active = s THEN None ELSE active
           \/ active' = active /\ p \notin Terminal,
           owner' \in {owner, None}, requires' \in BOOLEAN, proved' \in {"yes", "aged", "no"},
           taint' \in {"clean", "opened", "unsafe"}, maybeOpen' \in BOOLEAN, JoinInv',
           timers' \subseteq timers \cup {s}, resolving' \subseteq resolving \cup {s},
           life = "open" \/ (timers' \subseteq timers /\ resolving' \subseteq resolving),
           UNCHANGED <<bindingVars, events, ops, current, life, valveVars, count>>
    PROVE  RuntimeInv' /\ Final
  <1>0. UNCHANGED <<rooms, persisted, events, ops, current, life, intended, target, count>>
    BY DEF bindingVars, valveVars
  <1>1. TypesInv'
    BY <1>0 DEF RuntimeInv, TypesInv, Alters
  <1>2. SessionsInv' /\ Final
    BY <1>0, SessionMoves
  <1>3. OpsInv' /\ TargetInv'
    BY <1>0, SessionChanged
  <1>4. RoomsLoadAgain' /\ LockInv' /\ LifeInv'
    BY <1>0 DEF RuntimeInv, RoomsLoadAgain, LockInv, LifeInv
  <1>5. QED
    BY <1>1, <1>2, <1>3, <1>4 DEF RuntimeInv

\* The tasks of a timer and of a resolver are holders of the lock.
LEMMA ResolverTaskType ==
    ASSUME NEW s \in SessionId, NEW who \in {"timeout", "resolver"}
    PROVE  /\ [who |-> who, stage |-> "run", sid |-> s, arg |-> None] \in LockType
           /\ [who |-> who, stage |-> "run", sid |-> s, arg |-> None].who = who
  BY DEF LockType

\* _async_pairing_timeout.
LEMMA PairingTimeoutStep ==
    ASSUME RuntimeInv, NEW s \in SessionId, PairingTimeout(s)
    PROVE  RuntimeInv' /\ Final
  <1>1. /\ s \in timers /\ timers' \subseteq timers /\ UNCHANGED resolving
        /\ UNCHANGED <<bindingVars, events, ops, current, life, valveVars, count>>
    BY DEF PairingTimeout
  <1>2. life = "open" /\ Started(s)
    BY <1>1 DEF RuntimeInv, LifeInv, SessionsInv
  <1>3. CASE sessions[s].phase \in Pairing
    <2> DEFINE l == [who |-> "timeout", stage |-> "run", sid |-> s, arg |-> None]
    <2>1. Fail(l, s, FALSE)
      BY <1>3 DEF PairingTimeout
    <2>2. l \in LockType /\ l.who = "timeout"
      BY ResolverTaskType
    <2> HIDE DEF l
    <2>3. QED
      BY <1>1, <1>2, <1>3, <2>1, <2>2, Failed DEF Pairing
  <1>4. CASE sessions[s].phase \notin Pairing
    BY <1>1, <1>4, Dropped DEF PairingTimeout, Drop
  <1>5. QED
    BY <1>3, <1>4

\* _async_wait_for_candidate_binding.
LEMMA ResolverStep ==
    ASSUME RuntimeInv, NEW s \in SessionId, ResolverFinds(s) \/ ResolverGivesUp(s)
    PROVE  RuntimeInv' /\ Final
  <1>1. /\ s \in resolving /\ resolving' \subseteq resolving /\ UNCHANGED timers /\ lock = None
        /\ UNCHANGED <<bindingVars, events, ops, current, life, valveVars, count>>
    BY DEF ResolverFinds, ResolverGivesUp, Free
  <1>2. life = "open" /\ Started(s) /\ sessions \in Sessions
    BY <1>1 DEF RuntimeInv, LifeInv, SessionsInv, TypesInv
  <1>3. ASSUME NEW remediation \in BOOLEAN, sessions[s].phase = "verifying",
               Fail(ResolverTask(s), s, remediation)
        PROVE  RuntimeInv' /\ Final
    <2>1. ResolverTask(s) \in LockType /\ ResolverTask(s).who = "resolver"
      BY ResolverTaskType DEF ResolverTask
    <2>2. QED
      BY <1>1, <1>2, <1>3, <2>1, Failed
  <1>4. CASE ResolverGivesUp(s)
    <2>1. CASE sessions[s].phase = "verifying"
      BY <1>3, <1>4, <2>1 DEF ResolverGivesUp
    <2>2. CASE sessions[s].phase # "verifying"
      BY <1>1, <1>4, <2>2, Dropped DEF ResolverGivesUp, Drop
    <2>3. QED
      BY <2>1, <2>2
  <1>5. CASE ResolverFinds(s)
    <2>1. sessions[s].phase = "verifying"
      BY <1>5 DEF ResolverFinds
    <2>2. CASE ~Available(sessions[s].candidate, sessions[s].room)
      BY <1>3, <1>5, <2>1, <2>2 DEF ResolverFinds
    <2>3. CASE Available(sessions[s].candidate, sessions[s].room)
      <3>1. /\ sessions' = [sessions EXCEPT ![s].binding = sessions[s].candidate,
                                            ![s].phase = "ready_to_commit"]
            /\ UNCHANGED <<active, lock, bridgeVars>>
        BY <1>5, <2>3 DEF ResolverFinds
      <3>2. /\ sessions[s] \in SessionType /\ sessions[s].candidate \in Valve \cup {None}
            /\ sessions[s].candidate # None
        BY <1>2, <2>1 DEF RuntimeInv, SessionsInv, Sessions, SessionType, Started
      <3> DEFINE x == [sessions[s] EXCEPT !.binding = sessions[s].candidate]
                 y == [x EXCEPT !.phase = "ready_to_commit"]
      <3>3. x \in SessionType /\ x.candidate = sessions[s].candidate
        BY <3>2, ValveSet
      <3>4. sessions' = [sessions EXCEPT ![s] = y]
        BY <1>2, <3>1 DEF Sessions
      <3> HIDE DEF x
      <3>5. y \in SessionType /\ y.phase = "ready_to_commit" /\ y.candidate = sessions[s].candidate
        BY <3>3, PhaseSet DEF Phase
      <3> HIDE DEF y
      <3>6. Alters(sessions, [sessions EXCEPT ![s] = y], s, y.phase, y.candidate)
        BY <1>2, <3>5, SessionReplaced
      <3>7. Alters(sessions, sessions', s, "ready_to_commit", sessions[s].candidate)
        BY <3>4, <3>5, <3>6
      <3>8. \A o \in ops : o.kind = "commit" => o.session # s
        BY <2>1 DEF RuntimeInv, OpsInv
      <3>9. JoinInv'
        BY <1>1, <3>1 DEF RuntimeInv, JoinInv, bridgeVars
      <3>10. QED
        BY <1>1, <1>2, <2>1, <3>1, <3>2, <3>7, <3>8, <3>9, Settled
           DEF bridgeVars, Phase, Terminal, RuntimeInv, TypesInv
    <2>4. QED
      BY <2>2, <2>3
  <1>6. QED
    BY <1>4, <1>5

-----------------------------------------------------------------------------
(* Opening a window. *)

\* A new session takes the lease.
LEMMA OpenWindowStep ==
    ASSUME RuntimeInv, OpenWindow
    PROVE  RuntimeInv' /\ Final
  <1> DEFINE s == count.sessions + 1
             y == NewSession(lock.arg.room, lock.arg.operation)
  <1>1. /\ lock # None /\ lock.who = "start" /\ lock.stage = "run"
        /\ sessions' = [sessions EXCEPT ![s] = y]
        /\ active' = s /\ owner' = s
        /\ Await([lock EXCEPT !.sid = s], "open")
        /\ count' = [count EXCEPT !.sessions = s]
        /\ proved' = "no" /\ maybeOpen' = TRUE
        /\ UNCHANGED <<rooms, persisted, requires, timers, resolving, events, ops, current, life,
                       intended, target>>
    BY DEF OpenWindow, Running, TakeLease, bindingVars, taskVars, valveVars
  <1>2. lock \in LockType /\ life = "open" /\ lock.arg \in StartArg
        /\ count.sessions < MaxSessions /\ TypesInv
    BY <1>1, HolderIsOpen DEF RuntimeInv, LockInv, LockShape
  <1>3. s \in SessionId /\ count.sessions \in 0 .. MaxSessions
    BY <1>2, ReplacementConstants DEF TypesInv, CountType, SessionId
  <1>4. ~Started(s)
    BY <1>3 DEF RuntimeInv, SessionsInv, SessionId
  <1>5. lock.arg.room \in Room /\ lock.arg.operation \in {"replace", "repair"}
    BY <1>2 DEF StartArg
  <1>6. /\ rooms[lock.arg.room].revision \in Nat
        /\ rooms[lock.arg.room].binding \in Valve \cup {None}
    BY <1>2, <1>5 DEF TypesInv, RoomType
  <1>7. y \in SessionType /\ y.phase = "awaiting_pairing"
    BY <1>5, <1>6 DEF NewSession, SessionType, Phase, Pairing
  <1> HIDE DEF y
  <1>8. /\ sessions' \in Sessions /\ sessions'[s] # None /\ sessions'[s].phase = "awaiting_pairing"
        /\ \A q \in SessionId \ {s} : sessions'[q] = sessions[q]
    BY <1>1, <1>2, <1>3, <1>7, NoneIsApart DEF TypesInv, Sessions
  <1>9. s > count.sessions /\ s \in 0 .. MaxSessions
    BY <1>2, <1>3, ReplacementConstants DEF SessionId
  <1> HIDE DEF s
  <1>10. count' \in CountType /\ count'.sessions = s
    BY <1>1, <1>2, <1>9 DEF TypesInv, CountType
  <1>11. /\ lock' \in LockType /\ lock'.who = "start" /\ lock'.stage = "open" /\ lock'.sid = s
         /\ lock'.arg = lock.arg /\ taint' = "clean"
    BY <1>1, <1>2, <1>3, Awaited DEF Stage
  <1>12. TypesInv'
    BY <1>1, <1>2, <1>3, <1>8, <1>10, <1>11 DEF TypesInv
  <1>13. SessionsInv'
    <2>1. sessions'[active'] # None /\ sessions'[active'].phase \notin Terminal
          /\ sessions'[owner'] # None
      BY <1>1, <1>8 DEF Terminal
    <2>2. \A q \in timers \cup resolving : sessions'[q] # None
      BY <1>2, <1>8 DEF RuntimeInv, SessionsInv, TypesInv, Started
    <2>3. ASSUME NEW q \in SessionId, sessions'[q] # None
          PROVE  /\ q <= count'.sessions
                 /\ sessions'[q].phase \in {"verifying", "ready_to_commit", "testing"} =>
                        sessions'[q].candidate # None
      <3>1. CASE q = s
        BY <1>8, <1>10, <3>1, <1>3, ReplacementConstants DEF SessionId
      <3>2. CASE q # s
        <4>1. sessions'[q] = sessions[q]
          BY <1>8, <3>2
        <4>2. q <= count.sessions /\ (sessions[q].phase \in {"verifying", "ready_to_commit", "testing"}
                 => sessions[q].candidate # None)
          BY <2>3, <4>1 DEF RuntimeInv, SessionsInv, Started
        <4>3. q <= s
          BY <4>2, <1>3, <1>9 DEF SessionId
        <4>4. QED
          BY <4>1, <4>2, <4>3, <1>10
      <3>3. QED
        BY <3>1, <3>2
    <2>4. QED
      BY <1>1, <2>1, <2>2, <2>3 DEF SessionsInv, Started
  <1>14. LockInv'
    BY <1>1, <1>2, <1>3, <1>8, <1>11 DEF LockInv, LockShape, Started
  <1>15. OpsInv' /\ TargetInv'
    <2>1. ASSUME NEW o \in ops, o.kind = "commit"
          PROVE  sessions'[o.session] # None /\ sessions'[o.session].phase \in {"testing", "failed"}
      BY <1>4, <1>8, <2>1 DEF RuntimeInv, OpsInv, Started
    <2>2. QED
      BY <1>1, <2>1, TestsUntouched
  <1>16. RoomsLoadAgain' /\ LifeInv' /\ JoinInv'
    BY <1>1, <1>2, <1>3, NoneIsApart DEF RuntimeInv, RoomsLoadAgain, LifeInv, JoinInv
  <1>17. Final
    BY <1>4, <1>8 DEF Final, Started
  <1>18. QED
    BY <1>12, <1>13, <1>14, <1>15, <1>16, <1>17 DEF RuntimeInv

\* The window is acknowledged: its timer starts.
LEMMA OpenSucceedsStep ==
    ASSUME RuntimeInv, OpenSucceeds
    PROVE  RuntimeInv' /\ Final
  <1> DEFINE s == lock.sid
             y == [sessions[s] EXCEPT !.acked = TRUE]
  <1>1. /\ lock # None /\ lock.stage = "open" /\ lock' = None /\ timers' = timers \cup {s}
        /\ UNCHANGED <<rooms, persisted, active, owner, requires, proved, taint, maybeOpen,
                       resolving, events, ops, current, life, intended, target, count>>
    BY DEF OpenSucceeds, bindingVars, bridgeVars, valveVars
  <1>2. /\ lock.who = "start" /\ life = "open" /\ s \in SessionId /\ Started(s)
        /\ sessions \in Sessions
    BY <1>1, HolderIsOpen DEF RuntimeInv, LockInv, LockShape, TypesInv
  <1>3. sessions' = [sessions EXCEPT ![s] = y]
    BY DEF OpenSucceeds
  <1>4. sessions[s] \in SessionType
    BY <1>2 DEF Sessions, Started
  <1>5. y \in SessionType /\ y.phase = sessions[s].phase /\ y.candidate = sessions[s].candidate
    BY <1>4, FlagSet
  <1> HIDE DEF y
  <1>6. Alters(sessions, [sessions EXCEPT ![s] = y], s, y.phase, y.candidate)
    BY <1>2, <1>5, SessionReplaced
  <1>7. Preserves(sessions, sessions')
    BY <1>2, <1>3, <1>5, <1>6 DEF Alters, Preserves, Alike, Started
  <1> HIDE DEF s
  <1>8. TypesInv'
    BY <1>1, <1>2, <1>7 DEF RuntimeInv, TypesInv, Preserves
  <1>9. timers' \subseteq {q \in SessionId : Started(q)}
        /\ resolving' \subseteq {q \in SessionId : Started(q)}
    BY <1>1, <1>2 DEF RuntimeInv, TypesInv, SessionsInv
  <1>10. SessionsInv' /\ OpsInv' /\ TargetInv' /\ Final
    BY <1>1, <1>7, <1>9, SessionsPreserved
  <1>11. RoomsLoadAgain' /\ LockInv' /\ LifeInv' /\ JoinInv'
    BY <1>1, <1>2 DEF RuntimeInv, RoomsLoadAgain, LockInv, LifeInv, JoinInv
  <1>12. QED
    BY <1>8, <1>10, <1>11 DEF RuntimeInv

-----------------------------------------------------------------------------
(* Bridge events, and cancelling. *)

\* Closing the window of a session that is not under test.
LEMMA ClosingBegins ==
    ASSUME RuntimeInv, lock # None, NEW s \in SessionId, Started(s), NEW y \in SessionType,
           CloseThen(s, y), lock.who \in {"event", "cancel"},
           lock.who = "event" => lock.arg \in EventRecord,
           y.phase = sessions[s].phase,
           sessions[s].phase \notin Terminal \cup {"testing"},
           sessions[s].phase \in {"verifying", "ready_to_commit"} \/ lock.who = "event" =>
               y.candidate # None,
           UNCHANGED <<bindingVars, taskVars, life, valveVars, count>>
    PROVE  RuntimeInv' /\ Final
  <1>1. /\ UNCHANGED <<rooms, persisted, timers, resolving, events, ops, current, life, intended,
                       target, count, active, owner, requires, proved, maybeOpen>>
        /\ sessions' = [sessions EXCEPT ![s] = y]
        /\ Await([lock EXCEPT !.sid = s], "close")
    BY DEF CloseThen, bindingVars, taskVars, valveVars
  <1>2. lock \in LockType /\ life = "open" /\ sessions \in Sessions
    BY HolderIsOpen DEF RuntimeInv, TypesInv
  <1>3. Alters(sessions, [sessions EXCEPT ![s] = y], s, y.phase, y.candidate)
    BY <1>2, SessionReplaced
  <1>4. Alters(sessions, sessions', s, sessions[s].phase, y.candidate)
    BY <1>1, <1>3
  <1>5. /\ lock' \in LockType /\ lock'.stage = "close" /\ lock'.who = lock.who /\ lock'.sid = s
        /\ lock'.arg = lock.arg /\ taint' = "clean"
    BY <1>1, <1>2, Awaited DEF Stage
  <1>6. TypesInv'
    BY <1>1, <1>4, <1>5 DEF RuntimeInv, TypesInv, Alters
  <1>7. sessions[s].phase \in Phase
    BY <1>2 DEF Sessions, SessionType, Started
  <1>8. \A o \in ops : o.kind = "commit" => o.session # s
    BY DEF RuntimeInv, OpsInv, Terminal
  <1>9. SessionsInv' /\ Final
    BY <1>1, <1>4, <1>7, SessionMoves DEF Terminal
  <1>10. OpsInv' /\ TargetInv'
    BY <1>1, <1>4, <1>7, <1>8, SessionChanged
  <1>11. sessions'[s] # None /\ sessions'[s].phase = sessions[s].phase
         /\ sessions'[s].candidate = y.candidate
    BY <1>4 DEF Alters
  <1>12. LockInv'
    BY <1>1, <1>2, <1>5, <1>8, <1>11 DEF LockInv, LockShape, Started, Terminal
  <1>13. RoomsLoadAgain' /\ LifeInv' /\ JoinInv'
    BY <1>1, <1>2 DEF RuntimeInv, RoomsLoadAgain, LifeInv, JoinInv
  <1>14. QED
    BY <1>6, <1>9, <1>10, <1>12, <1>13 DEF RuntimeInv

\* async_handle_bridge_event.
LEMMA HandleEventStep ==
    ASSUME RuntimeInv, NEW late \in BOOLEAN, HandleEvent(late)
    PROVE  RuntimeInv' /\ Final
  <1>1. /\ lock # None /\ lock.who = "event" /\ lock.stage = "run"
        /\ UNCHANGED <<bindingVars, taskVars, life, valveVars, count>>
    BY DEF HandleEvent, Running
  <1>2. lock \in LockType /\ life = "open" /\ lock.arg \in EventRecord
    BY <1>1, HolderIsOpen DEF RuntimeInv, LockInv, LockShape
  <1>3. UNCHANGED <<timers, resolving>> /\ UNCHANGED <<bindingVars, events, ops, current, life, valveVars, count>>
    BY <1>1 DEF taskVars
  <1>4. CASE Drop
    BY <1>3, <1>4, Dropped DEF Drop
  <1>5. CASE ~InWindow
    BY <1>4, <1>5 DEF HandleEvent
  <1>6. CASE InWindow
    <2> DEFINE s == active
               v == lock.arg.valve
    <2>1. /\ s \in SessionId /\ Started(s) /\ sessions[s].phase \notin Terminal
          /\ sessions[s] \in SessionType /\ sessions \in Sessions
      BY <1>6 DEF InWindow, RuntimeInv, TypesInv, SessionsInv, Sessions, Started
    <2>2. v \in Valve /\ lock.arg.type \in EventType /\ v # None
      BY <1>2, ReplacementConstants DEF EventRecord
    <2>3. ASSUME NEW remediation \in BOOLEAN, Fail(lock, s, remediation)
          PROVE  RuntimeInv' /\ Final
      BY <1>1, <1>2, <1>3, <2>1, <2>3, Failed DEF Terminal
    <2>4. CASE late
      BY <1>6, <2>3, <2>4 DEF HandleEvent
    <2>5. CASE ~late /\ lock.arg.type = "device_joined"
      <3>1. Joined(s, v)
        BY <1>6, <2>5 DEF HandleEvent
      <3> DEFINE other == \/ sessions[s].operation = "repair" /\ sessions[s].old # v
                          \/ Reserved(v, sessions[s].room, sessions[s].operation = "repair")
                          \/ sessions[s].candidate # None
      <3>2. CASE sessions[s].candidate = v
        BY <1>4, <3>1, <3>2 DEF Joined
      <3>3. CASE sessions[s].candidate # v /\ other
        BY <2>3, <3>1, <3>3 DEF Joined
      <3>4. CASE sessions[s].candidate # v /\ ~other
        <4> DEFINE x == [sessions[s] EXCEPT !.candidate = v]
                   y == [x EXCEPT !.phase = "interviewing"]
        <4>1. /\ sessions' = [sessions EXCEPT ![s].candidate = v, ![s].phase = "interviewing"]
              /\ lock' = None /\ UNCHANGED <<active, bridgeVars>>
          BY <3>1, <3>4 DEF Joined
        <4>2. x \in SessionType /\ x.candidate = v
          BY <2>1, <2>2, ValveSet
        <4>3. sessions' = [sessions EXCEPT ![s] = y]
          BY <2>1, <4>1 DEF Sessions
        <4> HIDE DEF x
        <4>4. y \in SessionType /\ y.phase = "interviewing" /\ y.candidate = v
          BY <4>2, PhaseSet DEF Phase, Pairing
        <4> HIDE DEF y
        <4>5. Alters(sessions, [sessions EXCEPT ![s] = y], s, y.phase, y.candidate)
          BY <2>1, <4>4, SessionReplaced
        <4>6. Alters(sessions, sessions', s, "interviewing", v)
          BY <4>3, <4>4, <4>5
        <4>7. \A o \in ops : o.kind = "commit" => o.session # s
          <5>1. ASSUME NEW o \in ops, o.kind = "commit", o.session = s PROVE FALSE
            BY <1>6, <2>1, <5>1, <3>4, <2>2 DEF RuntimeInv, OpsInv, SessionsInv, Terminal
          <5>2. QED
            BY <5>1
        <4>8. JoinInv'
          BY <1>3, <4>1 DEF RuntimeInv, JoinInv, bridgeVars
        <4>9. QED
          BY <1>2, <1>3, <2>1, <4>1, <4>6, <4>7, <4>8, Settled
             DEF bridgeVars, Phase, Pairing, Terminal, RuntimeInv, TypesInv
      <3>5. QED
        BY <3>2, <3>3, <3>4
    <2>6. CASE ~late /\ lock.arg.type = "device_announce"
      <3>1. Announced(s, v)
        BY <1>6, <2>6 DEF HandleEvent
      <3>2. CASE /\ sessions[s].phase \in Pairing
                 /\ sessions[s].operation = "repair"
                 /\ rooms[sessions[s].room].binding = v
        <4> DEFINE x == [sessions[s] EXCEPT !.candidate = v]
                   y == [x EXCEPT !.binding = v]
        <4>1. CloseThen(s, [sessions[s] EXCEPT !.candidate = v, !.binding = v])
          BY <3>1, <3>2 DEF Announced
        <4>2. x \in SessionType /\ x.candidate = v /\ x.phase = sessions[s].phase
          BY <2>1, <2>2, ValveSet
        <4>3. CloseThen(s, y)
          BY <4>1
        <4> HIDE DEF x
        <4>4. y \in SessionType /\ y.phase = sessions[s].phase /\ y.candidate = v
          BY <2>2, <4>2, ValveSet
        <4> HIDE DEF y
        <4>5. QED
          BY <1>1, <1>2, <2>1, <2>2, <3>2, <4>3, <4>4, ClosingBegins DEF Pairing, Terminal
      <3>3. QED
        BY <1>4, <3>1, <3>2 DEF Announced
    <2>7. CASE ~late /\ lock.arg.type = "device_interview"
      <3>1. Interviewed(s, v, lock.arg.good)
        BY <1>6, <2>7 DEF HandleEvent
      <3>2. CASE sessions[s].phase \in Pairing /\ sessions[s].candidate = v /\ lock.arg.good
        <4>1. CloseThen(s, sessions[s])
          BY <3>1, <3>2 DEF Interviewed
        <4>2. QED
          BY <1>1, <1>2, <2>1, <2>2, <3>2, <4>1, ClosingBegins DEF Pairing, Terminal
      <3>3. QED
        BY <1>4, <2>3, <3>1, <3>2 DEF Interviewed
    <2>8. QED
      BY <2>2, <2>4, <2>5, <2>6, <2>7 DEF EventType
  <1>7. QED
    BY <1>5, <1>6

\* The rest of _async_cancel.
LEMMA CancelSessionStep ==
    ASSUME RuntimeInv, CancelSession
    PROVE  RuntimeInv' /\ Final
  <1> DEFINE s == lock.sid
  <1>1. /\ lock # None /\ lock.who = "cancel"
        /\ UNCHANGED <<bindingVars, taskVars, life, valveVars, count>>
    BY DEF CancelSession, Running
  <1>2. /\ s \in SessionId /\ Started(s) /\ sessions \in Sessions /\ life = "open"
        /\ lock \in LockType
    BY <1>1, HolderIsOpen DEF RuntimeInv, LockInv, TypesInv
  <1>3. sessions[s] \in SessionType
    BY <1>2 DEF Sessions, Started
  <1>4. UNCHANGED <<timers, resolving>> /\ UNCHANGED <<bindingVars, events, ops, current, life, valveVars, count>>
    BY <1>1 DEF taskVars
  <1>5. CASE sessions[s].phase \in Terminal \cup {"testing"}
    BY <1>4, <1>5, Dropped DEF CancelSession, Drop
  <1>6. CASE sessions[s].phase \notin Terminal \cup {"testing"} /\ NeedsClose(s, FALSE)
    <2>1. CloseThen(s, sessions[s])
      BY <1>6 DEF CancelSession
    <2>2. sessions[s].phase \in {"verifying", "ready_to_commit"} => sessions[s].candidate # None
      BY <1>2 DEF RuntimeInv, SessionsInv
    <2>3. QED
      BY <1>1, <1>2, <1>3, <1>6, <2>1, <2>2, ClosingBegins
  <1>7. CASE sessions[s].phase \notin Terminal \cup {"testing"} /\ ~NeedsClose(s, FALSE)
    <2>1. /\ sessions' = End(sessions, s, "cancelled") /\ ClearActive(s) /\ lock' = None
          /\ UNCHANGED bridgeVars
      BY <1>7 DEF CancelSession
    <2>2. Alters(sessions, sessions', s, "cancelled", sessions[s].candidate)
      BY <1>2, <2>1, EndSession DEF Phase, Terminal, Started
    <2>3. \A o \in ops : o.kind = "commit" => o.session # s
      BY <1>7 DEF RuntimeInv, OpsInv, Terminal
    <2>4. JoinInv'
      BY <1>4, <2>1 DEF RuntimeInv, JoinInv, bridgeVars
    <2>5. QED
      BY <1>2, <1>4, <1>7, <2>1, <2>2, <2>3, <2>4, Settled
         DEF bridgeVars, ClearActive, Phase, Terminal, RuntimeInv, TypesInv
  <1>8. QED
    BY <1>5, <1>6, <1>7

-----------------------------------------------------------------------------
(* The end of a closing, and what the bridge does meanwhile. *)

\* A closing that is over leaves its session in a phase that may follow.
LEMMA PhaseFollows ==
    ASSUME RuntimeInv, Closing, lock.stage \notin {"reconcile", "baseline"}, NEW ok \in BOOLEAN
    PROVE  /\ lock \in LockType /\ lock.sid \in SessionId /\ Started(lock.sid)
           /\ sessions[lock.sid].phase \notin {"complete", "cancelled"}
           /\ PhaseAfterClose(lock, ok) \in {"failed", "cancelled", "ready_to_commit", "verifying"}
           /\ PhaseAfterClose(lock, ok) # "failed" =>
                  \A o \in ops : o.kind = "commit" => o.session # lock.sid
           /\ PhaseAfterClose(lock, ok) \in {"ready_to_commit", "verifying"} =>
                  sessions[lock.sid].candidate # None /\ lock.stage = "close" /\ lock.who = "event"
           /\ life = "open"
           /\ lock.stage \in {"close", "failclose", "failopen"}
  <1>1. /\ lock # None /\ lock.stage \in {"close", "failclose", "failopen"}
        /\ lock \in LockType
    BY HolderIsOpen DEF Closing
  <1>2. /\ lock.sid \in SessionId /\ Started(lock.sid)
        /\ sessions[lock.sid].phase \notin {"complete", "cancelled"}
        /\ lock.stage = "close" => \A o \in ops : o.kind = "commit" => o.session # lock.sid
        /\ lock.stage = "close" /\ lock.who = "event" => sessions[lock.sid].candidate # None
        /\ lock.stage = "close" => lock.who \in {"event", "cancel"}
        /\ lock.who \notin {"commit", "rollback"}
    BY <1>1 DEF RuntimeInv, LockInv, LockShape
  <1>3. CASE lock.stage \in {"failclose", "failopen"}
    <2>1. PhaseAfterClose(lock, ok) = "failed"
      BY <1>3 DEF PhaseAfterClose
    <2>2. QED
      BY <1>1, <1>2, <2>1, HolderIsOpen
  <1>4. CASE lock.stage = "close" /\ lock.who = "cancel"
    <2>1. PhaseAfterClose(lock, ok) \in {"cancelled", "failed"}
      BY <1>4 DEF PhaseAfterClose
    <2>2. QED
      BY <1>1, <1>2, <1>4, <2>1, HolderIsOpen
  <1>5. CASE lock.stage = "close" /\ lock.who = "event"
    <2>1. PhaseAfterClose(lock, ok) \in {"ready_to_commit", "verifying"}
      BY <1>5 DEF PhaseAfterClose
    <2>2. QED
      BY <1>1, <1>2, <1>5, <2>1, HolderIsOpen
  <1>6. QED
    BY <1>1, <1>2, <1>3, <1>4, <1>5

\* The closing is proved.
LEMMA CloseSucceedsStep ==
    ASSUME RuntimeInv, CloseSucceeds
    PROVE  RuntimeInv' /\ Final
  <1>1. /\ Closing /\ lock # None /\ owner' = None /\ requires' = FALSE /\ proved' = "yes"
        /\ maybeOpen' = FALSE /\ timers' = {} /\ taint' = "clean"
        /\ UNCHANGED <<bindingVars, events, ops, current, life, valveVars, count>>
        /\ UNCHANGED <<rooms, persisted, intended, target>>
    BY DEF CloseSucceeds, MarkClosed, Closing, bindingVars, valveVars
  <1>2. lock \in LockType /\ sessions \in Sessions
    BY <1>1, HolderIsOpen DEF RuntimeInv, TypesInv
  <1>3. Preserves(sessions, ClosedSessions)
    BY <1>2, ClosedSessionsAlike
  <1>4. JoinInv'
    BY <1>1 DEF JoinInv
  <1>5. CASE lock.stage \in {"reconcile", "baseline"}
    <2>1. /\ sessions' = ClosedSessions /\ lock' = [lock EXCEPT !.stage = "run"]
          /\ UNCHANGED <<active, resolving>>
      BY <1>5 DEF CloseSucceeds
    <2>2. /\ lock' \in LockType /\ lock'.stage = "run" /\ lock'.who = lock.who
          /\ lock'.sid = lock.sid /\ lock'.arg = lock.arg
      BY <1>2, <2>1, LockStaged DEF Stage
    <2>3. Preserves(sessions, sessions')
      BY <1>3, <2>1
    <2>4. TypesInv'
      BY <1>1, <2>1, <2>2, <2>3 DEF RuntimeInv, TypesInv, Preserves
    <2>5. resolving' \subseteq {q \in SessionId : Started(q)}
      BY <2>1 DEF RuntimeInv, TypesInv, SessionsInv
    <2>6. SessionsInv' /\ OpsInv' /\ TargetInv' /\ Final
      BY <1>1, <2>1, <2>3, <2>5, SessionsPreserved
    <2>7. \A q \in SessionId : Started(q) => sessions'[q] # None
      BY <2>3 DEF Preserves, Alike, Started
    <2>8. LockInv'
      BY <1>1, <1>5, <2>2, <2>7 DEF RuntimeInv, LockInv, LockShape, Started
    <2>9. RoomsLoadAgain' /\ LifeInv'
      BY <1>1, <2>1, HolderIsOpen DEF RuntimeInv, RoomsLoadAgain, LifeInv
    <2>10. QED
      BY <1>4, <2>4, <2>6, <2>8, <2>9 DEF RuntimeInv
  <1>6. CASE lock.stage \notin {"reconcile", "baseline"}
    <2> DEFINE s == lock.sid
               p == PhaseAfterClose(lock, TRUE)
               c == sessions[s].candidate
    <2>1. /\ sessions' = End(ClosedSessions, s, p) /\ lock' = None
          /\ IF p \in Terminal THEN ClearActive(s) ELSE UNCHANGED active
          /\ resolving' = IF p = "verifying" THEN resolving \cup {s} ELSE resolving
      BY <1>6 DEF CloseSucceeds
    <2>2. /\ s \in SessionId /\ Started(s) /\ sessions[s].phase \notin {"complete", "cancelled"}
          /\ p \in {"failed", "cancelled", "ready_to_commit", "verifying"}
          /\ p # "failed" => \A o \in ops : o.kind = "commit" => o.session # s
          /\ p \in {"ready_to_commit", "verifying"} => c # None
          /\ life = "open"
      BY <1>1, <1>6, PhaseFollows
    <2> HIDE DEF p
    <2>3. p \in Phase /\ (p \notin Terminal \/ p \in {"failed", "cancelled"})
      BY <2>2 DEF Phase, Terminal
    <2>4. ClosedSessions \in Sessions /\ ClosedSessions[s] # None /\ ClosedSessions[s].candidate = c
      BY <1>3, <2>2 DEF Preserves, Alike, Started
    <2>5. Alters(ClosedSessions, End(ClosedSessions, s, p), s, p, ClosedSessions[s].candidate)
      BY <2>2, <2>3, <2>4, EndSession
    <2>6. Alters(ClosedSessions, sessions', s, p, c)
      BY <2>1, <2>4, <2>5
    <2>7. Alters(sessions, sessions', s, p, c)
      BY <1>3, <2>2, <2>6, AltersAfterPreserves
    <2>8. \/ active' = IF active = s THEN None ELSE active
          \/ active' = active /\ p \notin Terminal
      BY <2>1 DEF ClearActive
    <2>9. timers' \subseteq timers \cup {s} /\ resolving' \subseteq resolving \cup {s}
      BY <1>1, <2>1
    <2> HIDE DEF s, c
    <2>10. p \in {"verifying", "ready_to_commit", "testing"} => c # None
      BY <2>2
    <2>11. QED
      BY <1>1, <1>4, <2>1, <2>2, <2>3, <2>7, <2>8, <2>9, <2>10, Settled
  <1>7. QED
    BY <1>5, <1>6

\* The closing could not be proved.
LEMMA CloseFailsStep ==
    ASSUME RuntimeInv, CloseFails
    PROVE  RuntimeInv' /\ Final
  <1>1. /\ Closing /\ lock # None /\ lock \in LockType
        /\ UNCHANGED <<bindingVars, events, ops, current, life, valveVars, count>>
        /\ UNCHANGED <<rooms, persisted, intended, target, timers, resolving>>
    BY HolderIsOpen DEF CloseFails, Closing, bindingVars, valveVars, taskVars
  <1>2. CASE lock.stage = "close" /\ lock.who = "event"
    <2>1. Fail(lock, lock.sid, FALSE)
      BY <1>2 DEF CloseFails
    <2>2. /\ lock.sid \in SessionId /\ Started(lock.sid) /\ life = "open"
          /\ sessions[lock.sid].phase \notin {"complete", "cancelled"}
      BY <1>1, <1>2, PhaseFollows
    <2>3. lock.arg \in EventRecord
      BY <1>1, <1>2 DEF RuntimeInv, LockInv, LockShape
    <2>4. QED
      BY <1>1, <1>2, <2>1, <2>2, <2>3, Failed
  <1>3. CASE ~(lock.stage = "close" /\ lock.who = "event")
    <2>1. /\ requires' = TRUE /\ lock' = None
          /\ UNCHANGED <<owner, proved, taint, maybeOpen>>
      BY <1>3 DEF CloseFails
    <2>2. JoinInv'
      BY <1>1, <2>1 DEF RuntimeInv, JoinInv
    <2>3. CASE lock.stage \in {"reconcile", "baseline"}
      <3>1. UNCHANGED <<sessions, active>>
        BY <1>3, <2>3 DEF CloseFails
      <3>2. TypesInv'
        BY <1>1, <2>1, <3>1 DEF RuntimeInv, TypesInv
      <3>3. SessionsInv' /\ LockInv' /\ OpsInv' /\ RoomsLoadAgain' /\ Final
        BY <1>1, <2>1, <3>1
           DEF RuntimeInv, SessionsInv, Started, LockInv, OpsInv, RoomsLoadAgain, Final
      <3>4. TargetInv' /\ LifeInv'
        BY <1>1, <2>1, <3>1 DEF RuntimeInv, TargetInv, Available, Claimed, Claims, LifeInv
      <3>5. QED
        BY <2>2, <3>2, <3>3, <3>4 DEF RuntimeInv
    <2>4. CASE lock.stage \notin {"reconcile", "baseline"}
      <3> DEFINE s == lock.sid
                 p == PhaseAfterClose(lock, FALSE)
      <3>1. sessions' = End(sessions, s, p) /\ ClearActive(s)
        BY <1>3, <2>4 DEF CloseFails
      <3>2. /\ s \in SessionId /\ Started(s) /\ sessions[s].phase \notin {"complete", "cancelled"}
            /\ p \in {"failed", "cancelled"}
            /\ p # "failed" => \A o \in ops : o.kind = "commit" => o.session # s
            /\ life = "open"
        BY <1>1, <1>3, <2>4, PhaseFollows
      <3> HIDE DEF p
      <3>3. Alters(sessions, End(sessions, s, p), s, p, sessions[s].candidate)
        BY <3>2, EndSession DEF Phase, Terminal, Started, RuntimeInv, TypesInv
      <3>4. Alters(sessions, sessions', s, p, sessions[s].candidate)
        BY <3>1, <3>3
      <3>5. QED
        BY <1>1, <2>1, <2>2, <3>1, <3>2, <3>4, Settled
           DEF ClearActive, Phase, Terminal, RuntimeInv, TypesInv
    <2>5. QED
      BY <2>3, <2>4
  <1>4. QED
    BY <1>2, <1>3

\* A state received from the bridge fails the session it endangers.
LEMMA BridgeStateStep ==
    ASSUME RuntimeInv, NEW kind \in {"opened", "unsafe"}, BridgeStateChanges(kind)
    PROVE  RuntimeInv' /\ Final
  <1>1. /\ proved' = "no" /\ taint' \in {"unsafe", "opened"}
        /\ requires' \in {requires, TRUE}
        /\ count' = [count EXCEPT !.callbacks = @ + 1]
        /\ UNCHANGED <<rooms, persisted, owner, maybeOpen, lock, timers, resolving, events, ops,
                       current, life, intended, target>>
    BY DEF BridgeStateChanges, bindingVars, taskVars, valveVars
  <1>2. count' \in CountType /\ count'.sessions = count.sessions
    BY <1>1 DEF RuntimeInv, TypesInv, CountType
  <1>3. RoomsLoadAgain' /\ LifeInv' /\ JoinInv'
    BY <1>1 DEF RuntimeInv, RoomsLoadAgain, LifeInv, JoinInv
  <1>4. CASE UNCHANGED <<sessions, active>>
    <2>1. TypesInv'
      BY <1>1, <1>2, <1>4 DEF RuntimeInv, TypesInv
    <2>2. SessionsInv' /\ LockInv' /\ OpsInv' /\ Final
      BY <1>1, <1>2, <1>4 DEF RuntimeInv, SessionsInv, Started, LockInv, LockShape, OpsInv, Final
    <2>3. TargetInv'
      BY <1>1, <1>4 DEF RuntimeInv, TargetInv, Available, Claimed, Claims
    <2>4. QED
      BY <1>3, <2>1, <2>2, <2>3 DEF RuntimeInv
  <1>5. ASSUME NEW s \in SessionId, Started(s), sessions[s].phase \notin Terminal,
               sessions' = End([sessions EXCEPT ![s].remediation = TRUE], s, "failed"),
               ClearActive(s)
        PROVE  RuntimeInv' /\ Final
    <2>1. Alters(sessions, sessions', s, "failed", sessions[s].candidate)
      BY <1>5, RemediatedEnd DEF Phase, Terminal, Started, RuntimeInv, TypesInv
    <2>2. TypesInv'
      BY <1>1, <1>2, <1>5, <2>1 DEF RuntimeInv, TypesInv, Alters, ClearActive
    <2>3. SessionsInv' /\ Final
      BY <1>1, <1>2, <1>5, <2>1, SessionMoves DEF Phase, Terminal, ClearActive
    <2>4. OpsInv' /\ TargetInv'
      BY <1>1, <1>5, <2>1, SessionChanged DEF Phase, Terminal
    <2>5. \A q \in SessionId : Started(q) =>
              /\ sessions'[q] # None /\ sessions'[q].candidate = sessions[q].candidate
              /\ sessions'[q].phase \in {sessions[q].phase, "failed"}
      BY <2>1 DEF Alters, Alike, Started
    <2>6. LockInv'
      BY <1>1, <1>2, <2>5 DEF RuntimeInv, LockInv, LockShape, Started
    <2>7. QED
      BY <1>3, <2>2, <2>3, <2>4, <2>6 DEF RuntimeInv
  <1>6. CASE ~UNCHANGED <<sessions, active>>
    <2> DEFINE s == IF active # None THEN active ELSE owner
    <2>1. /\ s # None /\ sessions[s].phase \notin Terminal
          /\ sessions' = End([sessions EXCEPT ![s].remediation = TRUE], s, "failed")
          /\ ClearActive(s)
      BY <1>6 DEF BridgeStateChanges
    <2>2. s \in SessionId /\ Started(s)
      BY <2>1 DEF RuntimeInv, TypesInv, SessionsInv
    <2>3. QED
      BY <1>5, <2>1, <2>2
  <1>7. QED
    BY <1>4, <1>6

-----------------------------------------------------------------------------
(* Loading, unloading and dying. *)

\* A closing of the whole bridge begins, or is given up.
LEMMA GlobalStep ==
    ASSUME RuntimeInv, CloseForUnload \/ GlobalCloseFails
    PROVE  RuntimeInv' /\ Final
  <1>1. /\ UNCHANGED <<rooms, persisted, sessions, active, owner, proved, maybeOpen, lock, timers,
                       resolving, events, ops, current, intended, target, count>>
        /\ requires' \in {requires, TRUE} /\ taint' \in {taint, "clean"}
        /\ lock = None /\ ops = {}
        /\ \/ life = "closing" /\ life' = "final"
           \/ life = "final" /\ life' = "closing"
           \/ life = "starting" /\ life' = "down"
    BY DEF CloseForUnload, GlobalCloseFails, bindingVars, taskVars, valveVars, RuntimeInv, LifeInv
  <1>2. TypesInv'
    BY <1>1 DEF RuntimeInv, TypesInv
  <1>3. SessionsInv' /\ LockInv' /\ OpsInv' /\ RoomsLoadAgain' /\ Final
    BY <1>1 DEF RuntimeInv, SessionsInv, Started, LockInv, OpsInv, RoomsLoadAgain, Final
  <1>4. TargetInv' /\ LifeInv' /\ JoinInv'
    BY <1>1 DEF RuntimeInv, TargetInv, LifeInv, JoinInv
  <1>5. QED
    BY <1>2, <1>3, <1>4 DEF RuntimeInv

\* It is proved.
LEMMA GlobalCloseStep ==
    ASSUME RuntimeInv, GlobalCloseSucceeds
    PROVE  RuntimeInv' /\ Final
  <1>1. /\ life \in {"final", "starting"} /\ life' \in {"down", "open"}
        /\ owner' = None /\ requires' = FALSE /\ proved' = "yes" /\ maybeOpen' = FALSE
        /\ timers' = {} /\ taint' = "clean" /\ sessions' = ClosedSessions
        /\ UNCHANGED <<rooms, persisted, active, lock, resolving, events, ops, current, intended,
                       target, count>>
    BY DEF GlobalCloseSucceeds, MarkClosed, bindingVars, valveVars
  <1>2. lock = None /\ ops = {} /\ resolving = {}
    BY <1>1 DEF RuntimeInv, LifeInv
  <1>3. Preserves(sessions, sessions')
    BY <1>1, ClosedSessionsAlike DEF RuntimeInv, TypesInv
  <1>4. TypesInv'
    BY <1>1, <1>3 DEF RuntimeInv, TypesInv, Preserves
  <1>5. SessionsInv' /\ OpsInv' /\ TargetInv' /\ Final
    BY <1>1, <1>2, <1>3, SessionsPreserved
  <1>6. RoomsLoadAgain' /\ LockInv' /\ LifeInv' /\ JoinInv'
    BY <1>1, <1>2 DEF RuntimeInv, RoomsLoadAgain, LockInv, LifeInv, JoinInv
  <1>7. QED
    BY <1>4, <1>5, <1>6 DEF RuntimeInv

\* Home Assistant dies: only entry.data, the valves and the bridge are left.
LEMMA CrashStep ==
    ASSUME RuntimeInv, Crash
    PROVE  RuntimeInv' /\ Final
  <1>1. /\ life' = "down" /\ lock' = None /\ timers' = {} /\ resolving' = {} /\ events' = <<>>
        /\ ops' = {} /\ current' = None
        /\ UNCHANGED <<rooms, persisted, sessions, active, owner, requires, proved, taint, maybeOpen,
                       intended, target, count>>
    BY DEF Crash, bindingVars, bridgeVars, valveVars
  <1>2. TypesInv'
    BY <1>1 DEF RuntimeInv, TypesInv
  <1>3. SessionsInv' /\ LockInv' /\ OpsInv' /\ RoomsLoadAgain' /\ Final
    BY <1>1 DEF RuntimeInv, SessionsInv, Started, LockInv, OpsInv, RoomsLoadAgain, Final
  <1>4. TargetInv' /\ LifeInv' /\ JoinInv'
    BY <1>1 DEF RuntimeInv, TargetInv, LifeInv, JoinInv
  <1>5. QED
    BY <1>2, <1>3, <1>4 DEF RuntimeInv

\* A new runtime knows the rooms of entry.data, and no session.
LEMMA LoadStep ==
    ASSUME RuntimeInv, Load
    PROVE  RuntimeInv' /\ Final /\ life' = "starting"
  <1>1. /\ life = "down" /\ life' = "starting" /\ rooms' = persisted /\ Loads(persisted)
        /\ sessions' = [s \in SessionId |-> None] /\ active' = None /\ owner' = None
        /\ requires' = TRUE /\ proved' = "no" /\ taint' = "clean" /\ events' = <<>>
        /\ intended' = [r \in Room |-> None]
        /\ count' = [count EXCEPT !.restarts = @ + 1]
        /\ UNCHANGED <<persisted, maybeOpen, lock, timers, resolving, ops, current, target>>
    BY DEF Load
  <1>2. lock = None /\ ops = {} /\ timers = {} /\ resolving = {}
    BY <1>1 DEF RuntimeInv, LifeInv
  <1>3. \A s \in SessionId : sessions'[s] = None
    BY <1>1
  <1>4. /\ sessions' \in Sessions /\ intended' \in [Room -> Target \cup {None}]
        /\ events' \in Seq(EventRecord) /\ count' \in CountType
    BY <1>1 DEF RuntimeInv, TypesInv, Sessions, CountType
  <1>5. TypesInv'
    BY <1>1, <1>2, <1>4 DEF RuntimeInv, TypesInv
  <1>6. SessionsInv' /\ LockInv' /\ OpsInv' /\ Final
    BY <1>1, <1>2, <1>3 DEF SessionsInv, Started, LockInv, OpsInv, Final
  <1>7. TargetInv' /\ LifeInv' /\ JoinInv' /\ RoomsLoadAgain'
    BY <1>1, <1>2 DEF TargetInv, LifeInv, JoinInv, RoomsLoadAgain
  <1>8. QED
    BY <1>1, <1>5, <1>6, <1>7 DEF RuntimeInv

Stopped(o) == [o EXCEPT !.stage = "recover", !.cancelled = TRUE]

\* Cancelling a test keeps it what it was, but for where it goes on.
LEMMA Cancelled ==
    ASSUME NEW o \in TestType
    PROVE  /\ Stopped(o) \in TestType /\ Stopped(o).stage = "recover"
           /\ Stopped(o).kind = o.kind /\ Stopped(o).session = o.session
           /\ Stopped(o).room = o.room /\ Stopped(o).valve = o.valve
           /\ Stopped(o).want = o.want /\ Stopped(o).shared = o.shared
  <1> DEFINE x == [o EXCEPT !.stage = "recover"]
             y == [x EXCEPT !.cancelled = TRUE]
  <1>1. x \in TestType /\ x.stage = "recover"
        /\ x.id = o.id /\ x.kind = o.kind /\ x.session = o.session /\ x.room = o.room
        /\ x.valve = o.valve /\ x.want = o.want /\ x.shared = o.shared
    BY DEF TestType
  <1>2. Stopped(o) = y
    BY DEF Stopped
  <1> HIDE DEF x
  <1>3. y \in TestType /\ y.stage = x.stage
        /\ y.id = x.id /\ y.kind = x.kind /\ y.session = x.session /\ y.room = x.room
        /\ y.valve = x.valve /\ y.want = x.want /\ y.shared = x.shared
    BY <1>1 DEF TestType
  <1> HIDE DEF y
  <1>4. QED
    BY <1>1, <1>2, <1>3

\* async_shutdown.
LEMMA ShutdownStep ==
    ASSUME RuntimeInv, Shutdown
    PROVE  RuntimeInv' /\ Final
  <1>1. /\ life = "open" /\ life' = "closing"
        /\ lock' = IF lock # None /\ lock.who \in {"commit", "rollback"} THEN lock ELSE None
        /\ timers' = {} /\ resolving' = {} /\ events' = <<>>
        /\ ops' = CancelledOps
        /\ current' = IF \E o \in CancelledOps : o.id = current THEN current ELSE None
        /\ UNCHANGED <<rooms, persisted, sessions, active, owner, requires, proved, taint, maybeOpen,
                       intended, target, count>>
    BY DEF Shutdown, bindingVars, bridgeVars, valveVars
  <1>2. ASSUME NEW c \in ops'
        PROVE  \E o \in ops : /\ c \in TestType /\ c.stage = "recover" /\ o.stage # "queued"
                              /\ c = Stopped(o)
                              /\ c.kind = o.kind /\ c.session = o.session /\ c.room = o.room
                              /\ c.want = o.want /\ c.shared = o.shared
    <2>1. PICK o \in ops : /\ o.stage \in {"challenged", "restored"}
                           /\ c = Stopped(o)
      BY <1>1, <1>2 DEF CancelledOps, Stopped
    <2>2. o \in TestType
      BY DEF RuntimeInv, TypesInv
    <2>3. QED
      BY <2>1, <2>2, Cancelled
  <1>3. \A c \in ops' : c \in TestType
    BY <1>2
  <1>4. TypesInv'
    BY <1>1, <1>3 DEF RuntimeInv, TypesInv
  <1>5. OpsInv'
    <2>1. ASSUME NEW c \in ops', c.kind = "commit"
          PROVE  /\ c.session \in SessionId /\ sessions'[c.session] # None
                 /\ sessions'[c.session].phase \in {"testing", "failed"}
      BY <1>1, <1>2, <2>1 DEF RuntimeInv, OpsInv, Started
    <2>2. ASSUME NEW c \in ops', NEW d \in ops', c.kind = "commit", d.kind = "commit",
                 c.session = d.session
          PROVE  c = d
      <3>1. PICK o \in ops : /\ c = Stopped(o)
                             /\ c.kind = o.kind /\ c.session = o.session
        BY <1>2
      <3>2. PICK p \in ops : /\ d = Stopped(p)
                             /\ d.kind = p.kind /\ d.session = p.session
        BY <1>2
      <3>3. o = p
        BY <2>2, <3>1, <3>2 DEF RuntimeInv, OpsInv
      <3>4. QED
        BY <3>1, <3>2, <3>3
    <2>3. ASSUME NEW c \in ops', ~c.shared PROVE ops' = {c}
      <3>1. PICK o \in ops : /\ c = Stopped(o)
                             /\ c.shared = o.shared
        BY <1>2
      <3>2. ops = {o}
        BY <2>3, <3>1 DEF RuntimeInv, OpsInv
      <3>3. ASSUME NEW d \in ops' PROVE d = c
        BY <1>2, <3>1, <3>2
      <3>4. QED
        BY <3>3
    <2>4. QED
      BY <2>1, <2>2, <2>3 DEF OpsInv, Started
  <1>6. TargetInv'
    BY <1>1, <1>2 DEF RuntimeInv, TargetInv
  <1>7. LockInv'
    <2>1. CASE lock' = None
      BY <2>1 DEF LockInv
    <2>2. CASE lock # None /\ lock.who \in {"commit", "rollback"} /\ lock' = lock
      BY <1>1, <2>2 DEF RuntimeInv, LockInv, LockShape, Started
    <2>3. QED
      BY <1>1, <2>1, <2>2
  <1>8. SessionsInv' /\ RoomsLoadAgain' /\ Final
    BY <1>1 DEF RuntimeInv, SessionsInv, Started, RoomsLoadAgain, Final
  <1>9. LifeInv' /\ JoinInv'
    BY <1>1 DEF RuntimeInv, LifeInv, JoinInv
  <1>10. QED
    BY <1>4, <1>5, <1>6, <1>7, <1>8, <1>9 DEF RuntimeInv

-----------------------------------------------------------------------------
(* Tests begin. *)

Joint(o)      == [o EXCEPT !.shared = TRUE]
Staged(o, st) == [o EXCEPT !.stage = st]
Aiming(o, w)  == [o EXCEPT !.want = w]

\* What a field of a test set leaves of the others.
LEMMA TestShared ==
    ASSUME NEW o \in TestType
    PROVE  /\ Joint(o) \in TestType /\ Joint(o).shared /\ Joint(o).stage = o.stage
           /\ Joint(o).id = o.id /\ Joint(o).kind = o.kind /\ Joint(o).session = o.session
           /\ Joint(o).room = o.room /\ Joint(o).valve = o.valve /\ Joint(o).want = o.want
  BY DEF TestType, Joint

\* The same for its stage.
LEMMA TestStaged ==
    ASSUME NEW o \in TestType,
           NEW st \in {"queued", "challenged", "restored", "recover", "passed", "failed"}
    PROVE  /\ Staged(o, st) \in TestType /\ Staged(o, st).stage = st
           /\ Staged(o, st).id = o.id /\ Staged(o, st).kind = o.kind
           /\ Staged(o, st).session = o.session
           /\ Staged(o, st).room = o.room
           /\ Staged(o, st).valve = o.valve
           /\ Staged(o, st).want = o.want
           /\ Staged(o, st).shared = o.shared
  BY DEF TestType, Staged

\* The same for its target.
LEMMA TestAimed ==
    ASSUME NEW o \in TestType, NEW w \in Target
    PROVE  /\ Aiming(o, w) \in TestType /\ Aiming(o, w).want = w
           /\ Aiming(o, w).id = o.id /\ Aiming(o, w).kind = o.kind
           /\ Aiming(o, w).session = o.session
           /\ Aiming(o, w).room = o.room
           /\ Aiming(o, w).valve = o.valve
           /\ Aiming(o, w).shared = o.shared
  BY DEF TestType, Aiming

\* A test is retained, and makes every test that is under way a shared one.
LEMMA TestStarts ==
    ASSUME RuntimeInv, NEW op \in TestType, StartOp(op), op.stage = "queued",
           op.shared <=> ops # {},
           \A o \in ops : o.kind = "commit" =>
               /\ sessions'[o.session] # None
               /\ sessions'[o.session].phase \in {"testing", "failed"}
               /\ op.kind = "commit" => o.session # op.session,
           op.kind = "commit" =>
               /\ op.session \in SessionId /\ sessions'[op.session] # None
               /\ sessions'[op.session].phase = "testing",
           UNCHANGED <<rooms, intended, target>>
    PROVE  /\ OpsInv' /\ TargetInv' /\ lock' = None
           /\ ops' \subseteq TestType /\ current' \in {o.id : o \in ops'} \cup {None}
           /\ count' \in CountType /\ count'.sessions = count.sessions
  <1>1. /\ ops' = {Joint(o) : o \in ops} \cup {op} /\ current' = op.id /\ lock' = None
        /\ count' = [count EXCEPT !.ops = op.id]
    BY DEF StartOp, Joint
  <1>2. op.id \in Nat
    BY DEF TestType
  <1>3. count' \in CountType /\ count'.sessions = count.sessions
    BY <1>1, <1>2 DEF RuntimeInv, TypesInv, CountType
  <1>4. ASSUME NEW c \in ops', c # op
        PROVE  \E o \in ops : /\ c = Joint(o) /\ c \in TestType /\ c.shared /\ c.stage = o.stage
                              /\ c.kind = o.kind /\ c.session = o.session /\ c.room = o.room
                              /\ c.want = o.want
    <2>1. PICK o \in ops : c = Joint(o)
      BY <1>1, <1>4
    <2>2. o \in TestType
      BY DEF RuntimeInv, TypesInv
    <2>3. QED
      BY <2>1, <2>2, TestShared
  <1>5. ops' \subseteq TestType
    BY <1>4
  <1>6. OpsInv'
    <2>1. ASSUME NEW c \in ops', c.kind = "commit"
          PROVE  /\ c.session \in SessionId /\ sessions'[c.session] # None
                 /\ sessions'[c.session].phase \in {"testing", "failed"}
      <3>1. CASE c = op
        BY <2>1, <3>1
      <3>2. CASE c # op
        BY <1>4, <2>1, <3>2 DEF RuntimeInv, OpsInv
      <3>3. QED
        BY <3>1, <3>2
    <2>2. ASSUME NEW c \in ops', NEW d \in ops', c.kind = "commit", d.kind = "commit",
                 c.session = d.session
          PROVE  c = d
      <3>1. CASE c = op \/ d = op
        BY <1>4, <2>2, <3>1
      <3>2. CASE c # op /\ d # op
        <4>1. PICK o \in ops : c = Joint(o) /\ c.kind = o.kind /\ c.session = o.session
          BY <1>4, <3>2
        <4>2. PICK p \in ops : d = Joint(p) /\ d.kind = p.kind /\ d.session = p.session
          BY <1>4, <3>2
        <4>3. QED
          BY <2>2, <4>1, <4>2 DEF RuntimeInv, OpsInv
      <3>3. QED
        BY <3>1, <3>2
    <2>3. ASSUME NEW c \in ops', ~c.shared PROVE ops' = {c}
      <3>1. c = op
        BY <1>4, <2>3
      <3>2. ops = {}
        BY <2>3, <3>1
      <3>3. QED
        BY <1>1, <3>1, <3>2
    <2>4. QED
      BY <2>1, <2>2, <2>3 DEF OpsInv, Started
  <1>7. TargetInv'
    <2>1. ASSUME NEW c \in ops', c.stage # "queued"
          PROVE  /\ c.want \in Target /\ (intended[c.room] # None => c.want = intended[c.room])
                 /\ c.shared
      BY <1>4, <2>1 DEF RuntimeInv, TargetInv
    <2>2. QED
      BY <2>1 DEF TargetInv
  <1>8. QED
    BY <1>1, <1>3, <1>5, <1>6, <1>7

\* The rest of the invariant after a test began.
LEMMA TestBegun ==
    ASSUME RuntimeInv, lock # None, lock.who \in {"commit", "rollback"}, lock' = None,
           SessionsInv', OpsInv', TargetInv', sessions' \in Sessions,
           active' = active, ops' \subseteq TestType,
           current' \in {o.id : o \in ops'} \cup {None}, count' \in CountType,
           UNCHANGED <<bindingVars, bridgeVars, timers, resolving, events, life, valveVars>>
    PROVE  RuntimeInv'
  <1>1. UNCHANGED <<rooms, persisted, owner, requires, proved, taint, maybeOpen, intended, target>>
    BY DEF bindingVars, bridgeVars, valveVars
  <1>2. TypesInv'
    BY <1>1 DEF RuntimeInv, TypesInv
  <1>3. RoomsLoadAgain' /\ LockInv' /\ LifeInv' /\ JoinInv'
    BY <1>1, HolderIsOpen DEF RuntimeInv, RoomsLoadAgain, LockInv, LifeInv, JoinInv
  <1>4. QED
    BY <1>2, <1>3 DEF RuntimeInv

\* The record of a new test.
LEMMA NewOpType ==
    ASSUME RuntimeInv, NEW kind \in {"commit", "rollback"}, NEW s \in SessionId \cup {None},
           NEW r \in Room, NEW v \in Valve, NEW cur \in Valve \cup {None}
    PROVE  /\ NewOp(kind, s, r, v, cur) \in TestType
           /\ NewOp(kind, s, r, v, cur).kind = kind /\ NewOp(kind, s, r, v, cur).session = s
           /\ NewOp(kind, s, r, v, cur).stage = "queued"
           /\ NewOp(kind, s, r, v, cur).shared <=> ops # {}
  <1>1. rooms[r].revision \in Nat /\ count.ops + 1 \in Nat
    BY DEF RuntimeInv, TypesInv, RoomType, CountType
  <1>2. QED
    BY <1>1 DEF NewOp, TestType

\* The rest of async_commit.
LEMMA CommitSessionStep ==
    ASSUME RuntimeInv, CommitSession
    PROVE  RuntimeInv' /\ Final
  <1> DEFINE s == lock.sid
             r == sessions[s].room
             op == NewOp("commit", s, r, sessions[s].binding, rooms[r].binding)
             fits == /\ sessions[s].phase = "ready_to_commit"
                     /\ PlanHolds(s)
                     /\ sessions[s].binding # None /\ Available(sessions[s].binding, r)
  <1>1. /\ lock # None /\ lock.who = "commit"
        /\ UNCHANGED <<bindingVars, timers, resolving, events, life, valveVars>>
    BY DEF CommitSession, Running
  <1>2. s \in SessionId /\ Started(s) /\ sessions \in Sessions
    BY <1>1 DEF RuntimeInv, LockInv, TypesInv
  <1>3. CASE ~fits
    BY <1>1, <1>3, Dropped DEF CommitSession, Drop
  <1>4. CASE fits
    <2>1. /\ sessions' = [sessions EXCEPT ![s].phase = "testing"] /\ StartOp(op)
          /\ UNCHANGED <<active, bridgeVars>>
      BY <1>4 DEF CommitSession
    <2>2. sessions[s] \in SessionType
      BY <1>2 DEF Sessions, Started
    <2>3. r \in Room /\ sessions[s].binding \in Valve
      BY <1>4, <2>2 DEF SessionType
    <2>4. rooms[r].binding \in Valve \cup {None}
      BY <2>3 DEF RuntimeInv, TypesInv, RoomType
    <2>5. op \in TestType /\ op.kind = "commit" /\ op.session = s /\ op.stage = "queued"
          /\ (op.shared <=> ops # {})
      BY <1>2, <2>3, <2>4, NewOpType
    <2>6. Alters(sessions, sessions', s, "testing", sessions[s].candidate)
      BY <1>2, <2>1, EndSession DEF Phase, Started, End
    <2>7. sessions[s].candidate # None
      BY <1>2, <1>4 DEF RuntimeInv, SessionsInv
    <2> HIDE DEF op
    <2>8. ASSUME NEW o \in ops, o.kind = "commit"
          PROVE  /\ o.session # s /\ sessions'[o.session] # None
                 /\ sessions'[o.session].phase \in {"testing", "failed"}
      <3>1. /\ o.session \in SessionId /\ sessions[o.session] # None
            /\ sessions[o.session].phase \in {"testing", "failed"} /\ o.session # s
        BY <1>4, <2>8 DEF RuntimeInv, OpsInv, Started
      <3>2. QED
        BY <2>6, <3>1 DEF Alters, Alike
    <2>9. sessions'[s] # None /\ sessions'[s].phase = "testing" /\ sessions' \in Sessions
      BY <2>6 DEF Alters
    <2>10. /\ OpsInv' /\ TargetInv' /\ lock' = None
           /\ ops' \subseteq TestType /\ current' \in {o.id : o \in ops'} \cup {None}
           /\ count' \in CountType /\ count'.sessions = count.sessions
      BY <1>1, <1>2, <2>1, <2>5, <2>8, <2>9, TestStarts DEF bindingVars, valveVars
    <2>11. SessionsInv' /\ Final
      BY <1>1, <1>2, <1>4, <2>1, <2>6, <2>7, <2>10, SessionMoves DEF Phase, Terminal, bridgeVars
    <2>12. QED
      BY <1>1, <2>1, <2>9, <2>10, <2>11, TestBegun
  <1>5. QED
    BY <1>3, <1>4

\* The rest of async_rollback_room.
LEMMA RollbackRoomStep ==
    ASSUME RuntimeInv, RollbackRoom
    PROVE  RuntimeInv' /\ Final
  <1> DEFINE r == lock.arg
             op == NewOp("rollback", None, r, rooms[r].previous, rooms[r].binding)
             fits == /\ active = None /\ current = None
                     /\ rooms[r].binding # None /\ rooms[r].previous # None
                     /\ Available(rooms[r].previous, r)
  <1>1. /\ lock # None /\ lock.who = "rollback"
        /\ UNCHANGED <<bindingVars, timers, resolving, events, life, valveVars>>
    BY DEF RollbackRoom, Running
  <1>2. r \in Room
    BY <1>1 DEF RuntimeInv, LockInv, LockShape
  <1>3. CASE ~fits
    BY <1>1, <1>3, Dropped DEF RollbackRoom, Drop
  <1>4. CASE fits
    <2>1. StartOp(op) /\ UNCHANGED <<sessions, active, bridgeVars>>
      BY <1>4 DEF RollbackRoom
    <2>2. rooms[r].binding \in Valve \cup {None} /\ rooms[r].previous \in Valve
      BY <1>2, <1>4 DEF RuntimeInv, TypesInv, RoomType
    <2>3. op \in TestType /\ op.kind = "rollback" /\ op.stage = "queued"
          /\ (op.shared <=> ops # {})
      BY <1>2, <2>2, NewOpType
    <2> HIDE DEF op
    <2>4. \A o \in ops : o.kind = "commit" =>
              sessions'[o.session] # None /\ sessions'[o.session].phase \in {"testing", "failed"}
      BY <2>1 DEF RuntimeInv, OpsInv, Started
    <2>5. /\ OpsInv' /\ TargetInv' /\ lock' = None
          /\ ops' \subseteq TestType /\ current' \in {o.id : o \in ops'} \cup {None}
          /\ count' \in CountType /\ count'.sessions = count.sessions
      BY <1>1, <2>1, <2>3, <2>4, TestStarts DEF bindingVars, valveVars
    <2>6. SessionsInv' /\ Final /\ sessions' \in Sessions
      BY <1>1, <2>1, <2>5
         DEF RuntimeInv, TypesInv, SessionsInv, Started, Final, bridgeVars
    <2>7. QED
      BY <1>1, <2>1, <2>5, <2>6, TestBegun
  <1>5. QED
    BY <1>3, <1>4

-----------------------------------------------------------------------------
(* Tests go on. *)

\* A test advances: all other tests are shared ones, so nothing is promised of theirs.
LEMMA Advanced ==
    ASSUME RuntimeInv, NEW o \in ops, NEW c \in TestType, Becomes(o, c),
           c.id = o.id, c.kind = o.kind, c.session = o.session, c.room = o.room,
           c.shared = o.shared, c.stage # "queued",
           c.want \in Target /\ (intended[c.room] # None => c.want = intended[c.room]),
           c.stage = "passed" => target'[c.valve] = c.want,
           target' \in [Valve -> Target], current' = current, TestFrame
    PROVE  RuntimeInv' /\ Final
  <1>1. /\ UNCHANGED <<rooms, persisted, sessions, active, owner, requires, proved, taint, maybeOpen,
                       lock, timers, resolving, events, life, intended, count>>
        /\ ops' = (ops \ {o}) \cup {c}
    BY DEF TestFrame, bindingVars, bridgeVars, Becomes
  <1>2. TypesInv'
    <2>1. ops' \subseteq TestType /\ current' \in {p.id : p \in ops'} \cup {None}
      BY <1>1 DEF RuntimeInv, TypesInv
    <2>2. QED
      BY <1>1, <2>1 DEF RuntimeInv, TypesInv
  <1>3. OpsInv'
    <2>1. ASSUME NEW p \in ops', p.kind = "commit"
          PROVE  p.session \in SessionId /\ sessions[p.session] # None
                 /\ sessions[p.session].phase \in {"testing", "failed"}
      BY <1>1, <2>1 DEF RuntimeInv, OpsInv, Started
    <2>2. ASSUME NEW p \in ops', NEW q \in ops', p.kind = "commit", q.kind = "commit",
                 p.session = q.session
          PROVE  p = q
      BY <1>1, <2>2 DEF RuntimeInv, OpsInv
    <2>3. ASSUME NEW p \in ops', ~p.shared PROVE ops' = {p}
      <3>1. CASE p = c
        <4>1. ops = {o}
          BY <2>3, <3>1 DEF RuntimeInv, OpsInv
        <4>2. QED
          BY <1>1, <3>1, <4>1
      <3>2. CASE p # c
        <4>1. p \in ops /\ p # o /\ ops = {p}
          BY <1>1, <2>3, <3>2 DEF RuntimeInv, OpsInv
        <4>2. QED
          BY <4>1
      <3>3. QED
        BY <3>1, <3>2
    <2>4. QED
      BY <1>1, <2>1, <2>2, <2>3 DEF OpsInv, Started
  <1>4. TargetInv'
    <2>1. ASSUME NEW p \in ops', p # c, p.stage # "queued"
          PROVE  /\ p.want \in Target /\ (intended[p.room] # None => p.want = intended[p.room])
                 /\ p.shared
      <3>1. p \in ops /\ p # o
        BY <1>1, <2>1
      <3>2. p.shared
        <4>1. CASE ~p.shared
          BY <3>1, <4>1 DEF RuntimeInv, OpsInv
        <4>2. QED
          BY <4>1
      <3>3. QED
        BY <2>1, <3>1, <3>2 DEF RuntimeInv, TargetInv
    <2>2. QED
      BY <1>1, <2>1 DEF TargetInv
  <1>5. SessionsInv' /\ RoomsLoadAgain' /\ Final
    BY <1>1 DEF RuntimeInv, SessionsInv, Started, RoomsLoadAgain, Final
  <1>6. LockInv'
    <2>1. \A p \in ops' : \E q \in ops : p.kind = q.kind /\ p.session = q.session
      BY <1>1
    <2>2. QED
      BY <1>1, <2>1 DEF RuntimeInv, LockInv, LockShape, Started
  <1>7. LifeInv' /\ JoinInv'
    BY <1>1 DEF RuntimeInv, LifeInv, JoinInv
  <1>8. QED
    BY <1>2, <1>3, <1>4, <1>5, <1>6, <1>7 DEF RuntimeInv

\* What a test aims for is what its room is meant to hold.
LEMMA Aimed ==
    ASSUME RuntimeInv, NEW o \in ops, NEW want \in TestTarget(o)
    PROVE  want \in Target /\ (intended[o.room] # None => want = intended[o.room])
  <1>1. /\ o.room \in Room /\ o.cur \in Valve \cup {None} /\ DefaultTarget \in Target
        /\ target \in [Valve -> Target] /\ intended \in [Room -> Target \cup {None}]
    BY ReplacementConstants DEF RuntimeInv, TypesInv, TestType
  <1>2. CASE intended[o.room] # None
    <2>1. TestTarget(o) = {intended[o.room]}
      BY <1>2 DEF TestTarget
    <2>2. QED
      BY <1>1, <1>2, <2>1
  <1>3. CASE intended[o.room] = None /\ o.cur # None
    <2>1. TestTarget(o) = {target[o.cur], DefaultTarget}
      BY <1>3 DEF TestTarget
    <2>2. QED
      BY <1>1, <1>3, <2>1
  <1>4. CASE intended[o.room] = None /\ o.cur = None
    <2>1. TestTarget(o) = {DefaultTarget}
      BY <1>4 DEF TestTarget
    <2>2. QED
      BY <1>1, <1>4, <2>1
  <1>5. QED
    BY <1>2, <1>3, <1>4

\* _async_test_binding up to the challenge.
LEMMA ChallengeStep ==
    ASSUME RuntimeInv, NEW o \in ops, Challenge(o)
    PROVE  RuntimeInv' /\ Final
  <1>1. o \in TestType /\ o.valve \in Valve /\ target \in [Valve -> Target]
    BY DEF RuntimeInv, TypesInv, TestType
  <1>2. PICK want \in TestTarget(o), st \in {"failed", "challenged"} :
            /\ Becomes(o, [o EXCEPT !.want = want, !.stage = st])
            /\ \/ UNCHANGED target
               \/ \E c \in Target : target' = [target EXCEPT ![o.valve] = c]
    BY DEF Challenge
  <1>3. want \in Target /\ (intended[o.room] # None => want = intended[o.room])
    BY Aimed
  <1> DEFINE x == Aiming(o, want)
             y == Staged(x, st)
  <1>4. x \in TestType /\ x.want = want /\ x.id = o.id /\ x.kind = o.kind
        /\ x.session = o.session /\ x.room = o.room /\ x.shared = o.shared
    BY <1>1, <1>3, TestAimed
  <1>5. Becomes(o, y)
    BY <1>2 DEF Aiming, Staged
  <1> HIDE DEF x
  <1> st \in {"queued", "challenged", "restored", "recover", "passed", "failed"}
    BY <1>2
  <1>6. y \in TestType /\ y.want = want /\ y.stage = st /\ y.id = o.id /\ y.kind = o.kind
        /\ y.session = o.session /\ y.room = o.room /\ y.shared = o.shared
    BY <1>4, TestStaged
  <1> HIDE DEF y
  <1>7. target' \in [Valve -> Target]
    BY <1>1, <1>2
  <1>8. current' = current /\ TestFrame
    BY DEF Challenge
  <1>9. QED
    BY <1>3, <1>5, <1>6, <1>7, <1>8, Advanced

\* The test restores the target, confirms it, or gives up.
LEMMA TestMovesStep ==
    ASSUME RuntimeInv, NEW o \in ops,
           \/ Restore(o) \/ Confirm(o) \/ Unconfirmed(o)
           \/ Recover(o) /\ ~o.cancelled
    PROVE  RuntimeInv' /\ Final
  <1>1. o \in TestType /\ o.valve \in Valve /\ target \in [Valve -> Target]
    BY DEF RuntimeInv, TypesInv, TestType
  <1>2. o.stage # "queued"
    BY DEF Restore, Confirm, Unconfirmed, Recover
  <1>3. o.want \in Target /\ (intended[o.room] # None => o.want = intended[o.room])
    BY <1>2 DEF RuntimeInv, TargetInv
  <1>4. PICK st \in {"restored", "passed", "recover", "failed"} :
            /\ Becomes(o, [o EXCEPT !.stage = st])
            /\ target' \in {target, [target EXCEPT ![o.valve] = o.want]}
            /\ st = "passed" => target' = target /\ target[o.valve] = o.want
            /\ current' = current /\ TestFrame
    BY DEF Restore, Confirm, Unconfirmed, Recover
  <1> st \in {"queued", "challenged", "restored", "recover", "passed", "failed"}
    BY <1>4
  <1> DEFINE y == Staged(o, st)
  <1>5. y \in TestType /\ y.want = o.want /\ y.stage = st /\ y.id = o.id /\ y.kind = o.kind
        /\ y.session = o.session /\ y.room = o.room /\ y.shared = o.shared /\ y.valve = o.valve
    BY <1>1, TestStaged
  <1>6. Becomes(o, y)
    BY <1>4 DEF Staged
  <1> HIDE DEF y
  <1>7. target' \in [Valve -> Target]
    BY <1>1, <1>3, <1>4
  <1>8. QED
    BY <1>3, <1>4, <1>5, <1>6, <1>7, Advanced

\* A target set through a room is no test's of another room.
LEMMA SetTemperatureStep ==
    ASSUME RuntimeInv, NEW r \in Room, NEW t \in Target, SetTemperature(r, t)
    PROVE  RuntimeInv' /\ Final
  <1> DEFINE v == rooms[r].binding
  <1>1. /\ ~RoomLocked(r) /\ v # None
        /\ target' = [target EXCEPT ![v] = t]
        /\ intended' \in {intended, [intended EXCEPT ![r] = t]}
        /\ count' = [count EXCEPT !.calls = @ + 1]
        /\ UNCHANGED <<rooms, persisted, sessions, active, owner, requires, proved, taint, maybeOpen,
                       lock, timers, resolving, events, ops, current, life>>
    BY DEF SetTemperature, bindingVars, bridgeVars, taskVars
  <1>2. /\ v \in Valve /\ target \in [Valve -> Target]
        /\ intended \in [Room -> Target \cup {None}]
    BY <1>1 DEF RuntimeInv, TypesInv, RoomType
  <1>3. target' \in [Valve -> Target] /\ intended' \in [Room -> Target \cup {None}]
    BY <1>1, <1>2
  <1>4. count' \in CountType /\ count'.sessions = count.sessions
    BY <1>1 DEF RuntimeInv, TypesInv, CountType
  <1>5. TypesInv'
    BY <1>1, <1>3, <1>4 DEF RuntimeInv, TypesInv
  <1>6. TargetInv'
    <2>1. ASSUME NEW o \in ops, o.stage # "queued"
          PROVE  /\ o.want \in Target /\ (intended'[o.room] # None => o.want = intended'[o.room])
                 /\ o.stage = "passed" /\ ~o.shared /\ Available(o.valve, o.room)' =>
                        target'[o.valve] = o.want
      <3>1. o.room # r /\ o.room \in Room /\ o.valve \in Valve
        BY <1>1, <2>1 DEF RoomLocked, RuntimeInv, TypesInv, TestType
      <3>2. intended'[o.room] = intended[o.room]
        BY <1>1, <1>2, <3>1
      <3>3. Available(o.valve, o.room)' => Available(o.valve, o.room) /\ o.valve # v
        BY <1>1, <3>1 DEF Available, Claimed, Claims
      <3>4. o.valve # v => target'[o.valve] = target[o.valve]
        BY <1>1, <1>2, <3>1
      <3> HIDE DEF v
      <3>5. QED
        BY <2>1, <3>2, <3>3, <3>4 DEF RuntimeInv, TargetInv
    <2>2. QED
      BY <1>1, <2>1 DEF TargetInv
  <1>7. SessionsInv' /\ LockInv' /\ OpsInv' /\ RoomsLoadAgain' /\ Final
    BY <1>1, <1>4
       DEF RuntimeInv, SessionsInv, Started, LockInv, LockShape, OpsInv, RoomsLoadAgain, Final
  <1>8. LifeInv' /\ JoinInv'
    BY <1>1 DEF RuntimeInv, LifeInv, JoinInv
  <1>9. QED
    BY <1>5, <1>6, <1>7, <1>8 DEF RuntimeInv

-----------------------------------------------------------------------------
(* Tests end. *)

\* What is left when a test is over.
LEMMA TestGone ==
    ASSUME RuntimeInv, NEW o \in ops, Finished(o),
           \A p \in ops \ {o} : p.kind = "commit" =>
               sessions'[p.session] # None /\ sessions'[p.session].phase \in {"testing", "failed"},
           UNCHANGED intended
    PROVE  /\ OpsInv' /\ TargetInv' /\ ops' = ops \ {o}
           /\ ops' \subseteq TestType /\ current' \in {p.id : p \in ops'} \cup {None}
  <1>1. ops' = ops \ {o} /\ current' = IF current = o.id THEN None ELSE current
    BY DEF Finished
  <1>2. ops' \subseteq TestType
    BY <1>1 DEF RuntimeInv, TypesInv
  <1>3. current' \in {p.id : p \in ops'} \cup {None}
    BY <1>1 DEF RuntimeInv, TypesInv
  <1>4. \A p \in ops' : p.shared
    <2>1. ASSUME NEW p \in ops', ~p.shared PROVE FALSE
      BY <1>1, <2>1 DEF RuntimeInv, OpsInv
    <2>2. QED
      BY <2>1
  <1>5. OpsInv'
    BY <1>1, <1>4 DEF RuntimeInv, OpsInv, Started
  <1>6. TargetInv'
    BY <1>1, <1>4 DEF RuntimeInv, TargetInv
  <1>7. QED
    BY <1>1, <1>2, <1>3, <1>5, <1>6

\* The rest of the invariant when a test is over.
LEMMA TestOver ==
    ASSUME RuntimeInv, NEW o \in ops, Finished(o),
           rooms' \in [Room -> RoomType], persisted' \in [Room -> RoomType], RoomsLoadAgain',
           target' \in [Valve -> Target],
           \/ UNCHANGED <<sessions, active>>
           \/ /\ o.kind = "commit" /\ lock = None
              /\ \E p \in {"complete", "failed"} :
                     Alters(sessions, sessions', o.session, p, sessions[o.session].candidate)
              /\ active' = IF active = o.session THEN None ELSE active,
           UNCHANGED <<bridgeVars, lock, timers, resolving, events, life, intended, count>>
    PROVE  RuntimeInv' /\ Final
  <1>1. UNCHANGED <<owner, requires, proved, taint, maybeOpen, lock, timers, resolving, events,
                    life, intended, count>>
    BY DEF bridgeVars
  <1>2. SessionsInv' /\ Final /\ sessions' \in Sessions /\ active' \in SessionId \cup {None}
        /\ \A p \in ops \ {o} : p.kind = "commit" =>
               sessions'[p.session] # None /\ sessions'[p.session].phase \in {"testing", "failed"}
    <2>1. CASE UNCHANGED <<sessions, active>>
      BY <1>1, <2>1 DEF RuntimeInv, TypesInv, SessionsInv, OpsInv, Started, Final
    <2>2. CASE /\ o.kind = "commit" /\ lock = None
               /\ \E p \in {"complete", "failed"} :
                      Alters(sessions, sessions', o.session, p, sessions[o.session].candidate)
               /\ active' = IF active = o.session THEN None ELSE active
      <3>1. PICK p \in {"complete", "failed"} :
                Alters(sessions, sessions', o.session, p, sessions[o.session].candidate)
        BY <2>2
      <3>2. /\ o.session \in SessionId /\ Started(o.session)
            /\ sessions[o.session].phase \in {"testing", "failed"}
        BY <2>2 DEF RuntimeInv, OpsInv
      <3>3. SessionsInv' /\ Final
        BY <1>1, <2>2, <3>1, <3>2, SessionMoves DEF Phase, Terminal
      <3>4. ASSUME NEW q \in ops \ {o}, q.kind = "commit"
            PROVE  sessions'[q.session] # None
                   /\ sessions'[q.session].phase \in {"testing", "failed"}
        <4>1. /\ q.session \in SessionId /\ sessions[q.session] # None
              /\ sessions[q.session].phase \in {"testing", "failed"} /\ q.session # o.session
          BY <2>2, <3>4 DEF RuntimeInv, OpsInv, Started
        <4>2. QED
          BY <3>1, <4>1 DEF Alters, Alike
      <3>5. sessions' \in Sessions /\ active' \in SessionId \cup {None}
        BY <2>2, <3>1 DEF Alters, RuntimeInv, TypesInv
      <3>6. QED
        BY <3>3, <3>4, <3>5
    <2>3. QED
      BY <2>1, <2>2
  <1>3. /\ OpsInv' /\ TargetInv' /\ ops' = ops \ {o}
        /\ ops' \subseteq TestType /\ current' \in {p.id : p \in ops'} \cup {None}
    BY <1>1, <1>2, TestGone
  <1>4. TypesInv'
    BY <1>1, <1>2, <1>3 DEF RuntimeInv, TypesInv
  <1>5. LockInv'
    <2>1. CASE lock = None
      BY <1>1, <2>1 DEF LockInv
    <2>2. CASE UNCHANGED <<sessions, active>>
      BY <1>1, <1>3, <2>2 DEF RuntimeInv, LockInv, LockShape, Started
    <2>3. QED
      BY <2>1, <2>2
  <1>6. LifeInv' /\ JoinInv'
    BY <1>1, <1>3 DEF RuntimeInv, LifeInv, JoinInv
  <1>7. QED
    BY <1>2, <1>3, <1>4, <1>5, <1>6 DEF RuntimeInv

\* A room switched to an available valve still loads.
LEMMA Switched ==
    ASSUME TypesInv, Loads(rooms), NEW r \in Room, NEW v \in Valve, Available(v, r),
           rooms[r].bootstrap # None => rooms[r].binding # v, Switch(r, v)
    PROVE  /\ rooms' \in [Room -> RoomType] /\ persisted' = rooms' /\ Loads(rooms')
           /\ rooms'[r].binding = v /\ rooms'[r].previous = rooms[r].binding
           /\ rooms'[r].revision > rooms[r].revision
           /\ \A q \in Room \ {r} : rooms'[q] = rooms[q]
  <1> DEFINE x == [rooms[r] EXCEPT !.binding = v]
             y == [x EXCEPT !.previous = rooms[r].binding]
             z == [y EXCEPT !.revision = rooms[r].revision + 1]
  <1>1. rooms \in [Room -> RoomType] /\ rooms[r] \in RoomType /\ v # None
    BY ReplacementConstants DEF TypesInv
  <1>2. rooms' = [rooms EXCEPT ![r] = z] /\ persisted' = rooms'
    BY <1>1 DEF Switch, RoomType
  <1>3. /\ rooms[r].binding \in Valve \cup {None} /\ rooms[r].revision \in Nat
        /\ rooms[r].revision + 1 \in Nat
    BY <1>1 DEF RoomType
  <1>4. x \in RoomType /\ x.binding = v /\ x.bootstrap = rooms[r].bootstrap
    BY <1>1 DEF RoomType
  <1> HIDE DEF x
  <1>5. y \in RoomType /\ y.binding = v /\ y.bootstrap = rooms[r].bootstrap
        /\ y.previous = rooms[r].binding
    BY <1>3, <1>4 DEF RoomType
  <1> HIDE DEF y
  <1>6. z \in RoomType /\ z.binding = v /\ z.bootstrap = rooms[r].bootstrap
        /\ z.previous = rooms[r].binding /\ z.revision = rooms[r].revision + 1
    BY <1>3, <1>5 DEF RoomType
  <1> HIDE DEF z
  <1>7. /\ rooms' \in [Room -> RoomType] /\ rooms'[r] = z
        /\ \A q \in Room \ {r} : rooms'[q] = rooms[q]
    BY <1>1, <1>2, <1>6
  <1>8. Claims(z) \subseteq Claims(rooms[r]) \cup {v}
    BY <1>6 DEF Claims
  <1>9. ASSUME NEW q \in Room \ {r} PROVE Claims(z) \cap Claims(rooms[q]) = {}
    <2>1. Claims(rooms[r]) \cap Claims(rooms[q]) = {}
      BY DEF Loads
    <2>2. v \notin Claims(rooms[q])
      BY DEF Available, Claimed
    <2>3. QED
      BY <1>8, <2>1, <2>2
  <1>10. ASSUME NEW q \in Room, NEW p \in Room, q # p
         PROVE  Claims(rooms'[q]) \cap Claims(rooms'[p]) = {}
    <2>1. CASE q = r
      BY <1>7, <1>9, <1>10, <2>1
    <2>2. CASE p = r
      BY <1>7, <1>9, <1>10, <2>2
    <2>3. CASE q # r /\ p # r
      BY <1>7, <1>10, <2>3 DEF Loads
    <2>4. QED
      BY <2>1, <2>2, <2>3
  <1>11. ASSUME rooms[r].bootstrap # None
         PROVE  /\ z.binding # None /\ z.previous \notin {None, z.binding}
                /\ z.revision # 0 /\ (z.revision = 1 => z.previous = z.bootstrap)
    <2>1. /\ rooms[r].binding # None
          /\ rooms[r].revision = 0 => rooms[r].binding = rooms[r].bootstrap
      BY <1>11 DEF Loads
    <2>2. z.revision # 0 /\ (z.revision = 1 => rooms[r].revision = 0)
      BY <1>3, <1>6
    <2>3. QED
      BY <1>1, <1>6, <1>11, <2>1, <2>2
  <1>12. ASSUME NEW q \in Room, rooms'[q].bootstrap # None
         PROVE  /\ rooms'[q].binding # None
                /\ rooms'[q].revision = 0 =>
                       rooms'[q].binding = rooms'[q].bootstrap /\ rooms'[q].previous = None
                /\ rooms'[q].revision = 1 => rooms'[q].previous = rooms'[q].bootstrap
                /\ rooms'[q].revision > 0 => rooms'[q].previous \notin {None, rooms'[q].binding}
    <2>1. CASE q = r
      BY <1>6, <1>7, <1>11, <1>12, <2>1
    <2>2. CASE q # r
      BY <1>7, <1>12, <2>2 DEF Loads
    <2>3. QED
      BY <2>1, <2>2
  <1>13. Loads(rooms')
    BY <1>10, <1>12 DEF Loads
  <1>14. rooms'[r].revision > rooms[r].revision
    BY <1>3, <1>6, <1>7
  <1>15. QED
    BY <1>2, <1>6, <1>7, <1>13, <1>14

\* What a step does to the rooms it switches (see SwitchKeepsTheTarget).
Switches ==
    \A r \in Room :
        (rooms'[r] # rooms[r] /\ life' # "starting") =>
            /\ intended[r] # None /\ (\A o \in ops : ~o.shared) =>
                   target[rooms'[r].binding] = intended[r]
            /\ rooms'[r].previous = rooms[r].binding
            /\ rooms'[r].revision > rooms[r].revision

\* A room is switched to the valve of its test, which holds the target it is meant to hold.
LEMMA SwitchedAsTested ==
    ASSUME RuntimeInv, NEW o \in ops, o.stage = "passed", Available(o.valve, o.room),
           rooms[o.room].bootstrap # None => rooms[o.room].binding # o.valve,
           Switch(o.room, o.valve)
    PROVE  /\ rooms' \in [Room -> RoomType] /\ persisted' = rooms' /\ RoomsLoadAgain'
           /\ Switches
  <1>1. o.room \in Room /\ o.valve \in Valve
    BY DEF RuntimeInv, TypesInv, TestType
  <1>2. /\ rooms' \in [Room -> RoomType] /\ persisted' = rooms' /\ Loads(rooms')
        /\ rooms'[o.room].binding = o.valve /\ rooms'[o.room].previous = rooms[o.room].binding
        /\ rooms'[o.room].revision > rooms[o.room].revision
        /\ \A q \in Room \ {o.room} : rooms'[q] = rooms[q]
    BY <1>1, Switched DEF RuntimeInv, RoomsLoadAgain
  <1>3. intended[o.room] # None /\ ~o.shared => target[o.valve] = intended[o.room]
    BY DEF RuntimeInv, TargetInv
  <1>4. Switches
    BY <1>2, <1>3 DEF Switches
  <1>5. QED
    BY <1>2, <1>4 DEF RoomsLoadAgain

\* The last part of _async_test_and_commit.
LEMMA FinishCommitStep ==
    ASSUME RuntimeInv, NEW o \in ops, FinishCommit(o)
    PROVE  RuntimeInv' /\ Final /\ Switches
  <1>1. /\ lock = None /\ o.kind = "commit" /\ o.stage = "passed" /\ Finished(o)
        /\ UNCHANGED <<bridgeVars, lock, timers, resolving, events, life, intended, count>>
        /\ target' = target
        /\ RoomsLoadAgain /\ TypesInv
    BY DEF FinishCommit, FinishFrame, Free, valveVars, RuntimeInv
  <1>2. target' \in [Valve -> Target]
    BY <1>1 DEF TypesInv
  <1>3. CASE UNCHANGED bindingVars
    <2>1. /\ rooms' = rooms /\ rooms' \in [Room -> RoomType] /\ persisted' \in [Room -> RoomType]
          /\ RoomsLoadAgain'
      BY <1>1, <1>3 DEF TypesInv, RoomsLoadAgain, bindingVars
    <2>2. Switches
      BY <2>1 DEF Switches
    <2>3. QED
      <3>1. CASE sessions[o.session].phase = "testing"
        <4>1. sessions' = End(sessions, o.session, "complete") /\ ClearActive(o.session)
          BY <3>1 DEF FinishCommit
        <4>2. o.session \in SessionId /\ Started(o.session) /\ sessions \in Sessions
          BY <1>1 DEF RuntimeInv, OpsInv, TypesInv
        <4>3. Alters(sessions, sessions', o.session, "complete", sessions[o.session].candidate)
          BY <4>1, <4>2, EndSession DEF Phase, Terminal, Started
        <4>4. QED
          BY <1>1, <1>2, <2>1, <2>2, <4>1, <4>3, TestOver DEF ClearActive
      <3>2. CASE sessions[o.session].phase # "testing"
        <4>1. UNCHANGED <<sessions, active>>
          BY <3>2 DEF FinishCommit
        <4>2. QED
          BY <1>1, <1>2, <2>1, <2>2, <4>1, TestOver
      <3>3. QED
        BY <3>1, <3>2
  <1>4. CASE ~UNCHANGED bindingVars
    <2>1. /\ sessions[o.session].phase = "testing"
          /\ Available(o.valve, o.room)
          /\ sessions' = End(sessions, o.session, "complete") /\ ClearActive(o.session)
          /\ rooms[o.room].binding # o.valve /\ Switch(o.room, o.valve)
      BY <1>4 DEF FinishCommit, Rebind
    <2>2. /\ rooms' \in [Room -> RoomType] /\ persisted' = rooms' /\ RoomsLoadAgain'
          /\ Switches
      BY <1>1, <2>1, SwitchedAsTested
    <2>3. o.session \in SessionId /\ Started(o.session) /\ sessions \in Sessions
      BY <1>1 DEF RuntimeInv, OpsInv, TypesInv
    <2>4. Alters(sessions, sessions', o.session, "complete", sessions[o.session].candidate)
      BY <2>1, <2>3, EndSession DEF Phase, Terminal, Started
    <2>5. QED
      BY <1>1, <1>2, <2>1, <2>2, <2>4, TestOver DEF ClearActive
  <1>5. QED
    BY <1>3, <1>4

\* A rollback switches the room back.
LEMMA FinishRollbackStep ==
    ASSUME RuntimeInv, NEW o \in ops, FinishRollback(o)
    PROVE  RuntimeInv' /\ Final /\ Switches
  <1>1. /\ o.kind = "rollback" /\ o.stage = "passed" /\ Finished(o)
        /\ Available(o.valve, o.room) /\ Switch(o.room, o.valve)
        /\ rooms[o.room].binding = o.cur /\ rooms[o.room].previous = o.valve
        /\ UNCHANGED <<bridgeVars, lock, timers, resolving, events, life, intended, count>>
        /\ UNCHANGED <<target, sessions, active>>
    BY DEF FinishRollback, FinishFrame, valveVars
  <1>2. target' \in [Valve -> Target] /\ o.room \in Room /\ o.valve \in Valve
        /\ rooms[o.room].revision \in Nat /\ o.valve # None
    BY <1>1, ReplacementConstants DEF RuntimeInv, TypesInv, TestType, RoomType
  <1>3. rooms[o.room].bootstrap # None => rooms[o.room].binding # o.valve
    BY <1>1, <1>2 DEF RuntimeInv, RoomsLoadAgain, Loads
  <1>4. /\ rooms' \in [Room -> RoomType] /\ persisted' = rooms' /\ RoomsLoadAgain'
        /\ Switches
    BY <1>1, <1>3, SwitchedAsTested
  <1>5. QED
    BY <1>1, <1>2, <1>4, TestOver

\* A test that ends without a switch.
LEMMA TestRefusedStep ==
    ASSUME RuntimeInv, NEW o \in ops,
           \/ RefuseCommit(o) \/ FailCommit(o) \/ RefuseRollback(o)
           \/ Recover(o) /\ o.cancelled
    PROVE  RuntimeInv' /\ Final /\ rooms' = rooms
  <1>1. /\ Finished(o)
        /\ UNCHANGED <<bridgeVars, lock, timers, resolving, events, life, intended, count>>
        /\ UNCHANGED <<rooms, persisted>>
    BY DEF RefuseCommit, FailCommit, RefuseRollback, Recover, FinishFrame, TestFrame, valveVars,
           bindingVars
  <1>2. /\ rooms' \in [Room -> RoomType] /\ persisted' \in [Room -> RoomType] /\ RoomsLoadAgain'
    BY <1>1 DEF RuntimeInv, TypesInv, RoomsLoadAgain
  <1>3. CASE RefuseRollback(o) \/ Recover(o)
    <2>1. UNCHANGED <<sessions, active>>
          /\ target' \in {target, [target EXCEPT ![o.valve] = o.want]}
      BY <1>3 DEF RefuseRollback, Recover, FinishFrame, TestFrame, valveVars
    <2>2. target \in [Valve -> Target] /\ (Recover(o) => o.want \in Target)
      BY DEF Recover, RuntimeInv, TypesInv, TargetInv
    <2>3. target' \in [Valve -> Target]
      BY <1>3, <2>1, <2>2 DEF RefuseRollback, FinishFrame, valveVars
    <2>4. QED
      BY <1>1, <1>2, <2>1, <2>3, TestOver
  <1>4. CASE RefuseCommit(o) \/ FailCommit(o)
    <2>1. lock = None /\ o.kind = "commit" /\ target' = target /\ ClearActive(o.session)
          /\ \/ sessions' = End(sessions, o.session, "failed")
             \/ sessions' = End([sessions EXCEPT ![o.session].remediation = TRUE],
                                o.session, "failed")
      BY <1>4 DEF RefuseCommit, FailCommit, Free, FinishFrame, valveVars
    <2>2. o.session \in SessionId /\ sessions[o.session] # None /\ sessions \in Sessions
          /\ target' \in [Valve -> Target]
      BY <2>1 DEF RuntimeInv, OpsInv, TypesInv, Started
    <2>3. Alters(sessions, sessions', o.session, "failed", sessions[o.session].candidate)
      BY <2>1, <2>2, EndSession, RemediatedEnd DEF Phase, Terminal
    <2>4. QED
      BY <1>1, <1>2, <2>1, <2>2, <2>3, TestOver DEF ClearActive
  <1>5. QED
    BY <1>3, <1>4

-----------------------------------------------------------------------------
(* The theorems. *)

\* Only the end of a test, and a load, touch the rooms.
LEMMA OnlyTestsSwitch ==
    ASSUME Next
    PROVE  rooms' = rooms \/ Load \/ \E o \in ops : FinishCommit(o) \/ FinishRollback(o)
  <1>1. CASE Bridge \/ Api
    BY <1>1 DEF Bridge, Api, BridgeEvent, BridgeStateChanges, StartPairing, Cancel, Commit, Rollback,
                SetTemperature, bindingVars
  <1>2. CASE Holder
    BY <1>2 DEF Holder, RefreshBaseline, OpenWindow, OpenSucceeds, OpenFails, HandleEvent,
                CancelSession, CommitSession, RollbackRoom, CloseSucceeds, CloseFails, bindingVars
  <1>3. CASE TakeEvent \/ ProofAges \/ Shutdown \/ CloseForUnload \/ GlobalCloseSucceeds
             \/ GlobalCloseFails \/ Crash
    BY <1>3 DEF TakeEvent, ProofAges, Shutdown, CloseForUnload, GlobalCloseSucceeds,
                GlobalCloseFails, Crash, bindingVars
  <1>4. CASE \E s \in SessionId : PairingTimeout(s) \/ ResolverFinds(s) \/ ResolverGivesUp(s)
    BY <1>4 DEF PairingTimeout, ResolverFinds, ResolverGivesUp, bindingVars
  <1>5. ASSUME NEW o \in ops, TestStep(o)
        PROVE  rooms' = rooms \/ FinishCommit(o) \/ FinishRollback(o)
    BY <1>5 DEF TestStep, Challenge, Restore, Confirm, Unconfirmed, Recover, RefuseCommit, FailCommit,
                RefuseRollback, TestFrame, bindingVars
  <1>6. QED
    BY <1>1, <1>2, <1>3, <1>4, <1>5 DEF Next

\* One step of the runtime keeps the invariant and the outcomes.
LEMMA RuntimeStep ==
    ASSUME RuntimeInv, [Next]_vars
    PROVE  RuntimeInv' /\ Final
  <1>1. CASE UNCHANGED vars
    <2>1. UNCHANGED <<rooms, persisted, sessions, active, owner, requires, proved, taint, maybeOpen,
                      lock, timers, resolving, events, ops, current, life, intended, target, count>>
      BY <1>1 DEF vars
    <2>2. TypesInv' /\ RoomsLoadAgain' /\ Final
      BY <2>1 DEF RuntimeInv, TypesInv, RoomsLoadAgain, Final
    <2>3. SessionsInv' /\ LockInv' /\ OpsInv'
      BY <2>1 DEF RuntimeInv, SessionsInv, Started, LockInv, LockShape, OpsInv
    <2>4. TargetInv' /\ LifeInv' /\ JoinInv'
      BY <2>1 DEF RuntimeInv, TargetInv, Available, Claimed, Claims, LifeInv, JoinInv
    <2>5. QED
      BY <2>2, <2>3, <2>4 DEF RuntimeInv
  <1>2. CASE Bridge
    BY <1>2, BridgeEventStep, BridgeStateStep DEF Bridge, EventType
  <1>3. CASE Api
    BY <1>3, StartPairingStep, RequestStep, SetTemperatureStep DEF Api
  <1>4. CASE Holder
    BY <1>4, BaselineStep, OpenWindowStep, OpenSucceedsStep, HandleEventStep, CancelSessionStep,
       CommitSessionStep, RollbackRoomStep, CloseSucceedsStep, CloseFailsStep DEF Holder
  <1>5. CASE TakeEvent \/ ProofAges
    BY <1>5, TakeEventStep, ProofAgesStep
  <1>6. CASE \E s \in SessionId : PairingTimeout(s) \/ ResolverFinds(s) \/ ResolverGivesUp(s)
    BY <1>6, PairingTimeoutStep, ResolverStep
  <1>7. ASSUME NEW o \in ops, TestStep(o)
        PROVE  RuntimeInv' /\ Final
    BY <1>7, ChallengeStep, TestMovesStep, TestRefusedStep, FinishCommitStep, FinishRollbackStep
       DEF TestStep
  <1>8. CASE Shutdown \/ CloseForUnload \/ GlobalCloseSucceeds \/ GlobalCloseFails \/ Crash \/ Load
    BY <1>8, ShutdownStep, GlobalStep, GlobalCloseStep, CrashStep, LoadStep
  <1>9. QED
    BY <1>1, <1>2, <1>3, <1>4, <1>5, <1>6, <1>7, <1>8 DEF Next

\* One step switches rooms as promised.
LEMMA SwitchStep ==
    ASSUME RuntimeInv, [Next]_vars
    PROVE  Switches
  <1>1. CASE rooms' = rooms
    BY <1>1 DEF Switches
  <1>2. CASE Load
    BY <1>2, LoadStep DEF Switches
  <1>3. ASSUME NEW o \in ops, FinishCommit(o) \/ FinishRollback(o)
        PROVE  Switches
    BY <1>3, FinishCommitStep, FinishRollbackStep
  <1>4. QED
    BY <1>1, <1>2, <1>3, OnlyTestsSwitch DEF vars

\* The inductive invariant holds always.
LEMMA RuntimeAlways == Spec => []RuntimeInv
  <1>1. Init => RuntimeInv
    BY InitiallyInv
  <1>2. RuntimeInv /\ [Next]_vars => RuntimeInv'
    BY RuntimeStep
  <1>3. QED
    BY <1>1, <1>2, PTL DEF Spec

\* Rooms, sessions and tasks keep their types, and the rooms in memory and in
\* entry.data always load again (rooms_from_dict, validate_bootstrap_rooms), after
\* any commits, rollbacks, failures and reloads.
THEOREM RoomsAlwaysLoad == Spec => []RuntimeInvariant
  <1>1. RuntimeInv => RuntimeInvariant
    <2> SUFFICES ASSUME RuntimeInv PROVE RuntimeInvariant
      OBVIOUS
    <2>1. {active, owner} \subseteq {s \in SessionId : Started(s)} \cup {None}
          /\ timers \cup resolving \subseteq {s \in SessionId : Started(s)}
      BY DEF RuntimeInv, TypesInv, SessionsInv
    <2>2. ReplacementTypeOK
      BY <2>1 DEF RuntimeInv, TypesInv, ReplacementTypeOK, Sessions
    <2>3. QED
      BY <2>2 DEF RuntimeInvariant, RuntimeInv
  <1>2. QED
    BY <1>1, RuntimeAlways, PTL

\* Joining that may be open is owned by a session of the runtime, or the runtime has
\* to prove a closing before anything else (_async_reconcile_if_required, async_start).
THEOREM JoiningIsOwned == Spec => []OpenJoiningIsOwned
  <1>1. RuntimeInv => OpenJoiningIsOwned
    BY DEF RuntimeInv, TypesInv, JoinInv, OpenJoiningIsOwned
  <1>2. QED
    BY <1>1, RuntimeAlways, PTL

\* No late event, timer, resolver or finishing test relabels a session that was
\* committed or cancelled (_set_terminal and its callers).
THEOREM OutcomesStay == Spec => OutcomesAreFinal
  <1>1. RuntimeInv /\ [Next]_vars =>
            [\A s \in SessionId :
                (Started(s) /\ sessions'[s] # None /\ sessions[s].phase \in {"complete", "cancelled"})
                    => sessions'[s].phase = sessions[s].phase]_vars
    BY RuntimeStep DEF Final
  <1>2. QED
    BY <1>1, RuntimeAlways, PTL DEF Spec, OutcomesAreFinal

\* A commit or a rollback (_async_test_and_commit, async_rollback_room) switches a room
\* only to a valve that holds the room's target, and keeps the way back.
THEOREM SwitchIsSafe == Spec => SwitchKeepsTheTarget
  <1>1. RuntimeInv /\ [Next]_vars =>
            [\A r \in Room :
                (rooms'[r] # rooms[r] /\ life' # "starting") =>
                    /\ intended[r] # None /\ (\A o \in ops : ~o.shared) =>
                           target[rooms'[r].binding] = intended[r]
                    /\ rooms'[r].previous = rooms[r].binding
                    /\ rooms'[r].revision > rooms[r].revision]_vars
    BY SwitchStep DEF Switches
  <1>2. QED
    BY <1>1, RuntimeAlways, PTL DEF Spec, SwitchKeepsTheTarget
=============================================================================
