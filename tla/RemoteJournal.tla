--------------------------- MODULE RemoteJournal ----------------------------
(***************************************************************************)
(* RemoteReferenceJournalStore (reference_journal_remote.py) in the Home   *)
(* Assistant process, composed with the App: clients that open, load,      *)
(* save, replay an ambiguous save, pass the barrier and close, each with   *)
(* its operation lock, over connections that may fail at any point.  A     *)
(* request that is lost is one that stays in inbox for ever.               *)
(***************************************************************************)
EXTENDS JournalServer

CONSTANTS
    ReadAttempts,  \* READ_ATTEMPTS
    MaxPosts       \* bound: HTTP requests one client sends

VARIABLES
    cl,        \* the state of each client object
    accepted,  \* history: saves some caller was told are committed
    rejected   \* history: saves some caller was told are definitely rejected

vars == <<storeVars, serverVars, cl, accepted, rejected>>

NewClient == [phase     |-> "new",   \* "new", "opening", "ready", "closing", "closed"
              boot      |-> 0,       \* _endpoint.boot_id
              call      |-> None,    \* the operation that holds _operation_lock
              posts     |-> 0,
              snapshot  |-> None,    \* _snapshot: a root, or None for the absent journal
              saveReady |-> FALSE,   \* _save_ready
              pending   |-> None,    \* _pending_save
              commit    |-> None,    \* _commit: its token
              poisoned  |-> FALSE,
              ambiguous |-> FALSE,
              replay    |-> FALSE]   \* _replay_allowed

\* What a client may ask to save, and the store call it is turned into.
SaveBody == [expected : Revision \cup {None}, root : Root]

SaveOfBody(c, body) ==
    SaveOf([client |-> c, path |-> "save", body |-> body,
            id |-> SaveRequestId(BodyDigest([client |-> c, path |-> "save", body |-> body]))])

\* What holds _operation_lock: an operation, at one of its attempts, and the
\* connection it waits on.
Call == [op      : {"hello", "load", "save", "replay", "barrier"},
         attempt : Nat,
         conn    : Client \X Nat]

\* Digests and request ids are those of the saves of the clients.
ASSUME RemoteConstants ==
    /\ MaxPosts \in Nat /\ ReadAttempts \in Nat
    /\ None \notin SaveBody /\ None \notin Token /\ None \notin Root /\ None \notin Call
    /\ \A c \in Client, body \in SaveBody :
        SaveOfBody(c, body).digest \in Digest /\ SaveOfBody(c, body).id \in RequestId

\* _signed_request: a save's id is derived from its body, any other id is random.
Request(c, bootId, path, body) ==
    LET conn == <<c, cl[c].posts + 1>>
    IN  [conn |-> conn, client |-> c, path |-> path, boot |-> bootId, body |-> body,
         id   |-> IF path = "save" THEN SaveOfBody(c, body).id ELSE <<"tfj", conn>>]

\* Take the operation lock and submit the request of operation op; upd carries
\* what the operation assigns before it awaits the response.
Post(c, op, attempt, path, body, upd) ==
    LET m == Request(c, upd.boot, path, body)
    IN  /\ cl[c].posts < MaxPosts
        /\ cl' = [cl EXCEPT ![c] = [upd EXCEPT !.posts = @ + 1,
                                      !.call = [op |-> op, attempt |-> attempt, conn |-> m.conn]]]
        /\ inbox' = inbox \cup {m}
        /\ open' = open \cup {m.conn}
        /\ UNCHANGED <<storeVars, procVars, replies>>

\* _raise_if_unusable, with the lock free.
Usable(c) == cl[c].phase = "ready" /\ ~cl[c].poisoned /\ cl[c].call = None

-----------------------------------------------------------------------------
(* Operations. *)

\* async_open against the endpoint discovery published last.
Open(c) ==
    /\ cl[c].phase = "new"
    /\ published # 0
    /\ Post(c, "hello", 1, "hello", None,
            [cl[c] EXCEPT !.phase = "opening", !.boot = published])
    /\ UNCHANGED <<accepted, rejected>>

Load(c) ==
    /\ Usable(c)
    /\ cl[c].commit = None
    /\ Post(c, "load", 1, "load", None, cl[c])
    /\ UNCHANGED <<accepted, rejected>>

NextGeneration(c) == IF cl[c].snapshot = None THEN 0 ELSE cl[c].snapshot.generation + 1

SaveEnabled(c) == Usable(c) /\ cl[c].commit = None /\ cl[c].saveReady

Save(c, payload) ==
    LET body == [expected |-> IF cl[c].snapshot = None THEN None ELSE RevisionOf(cl[c].snapshot),
                 root     |-> [journal |-> Journal, generation |-> NextGeneration(c),
                               payload |-> payload]]
    IN  /\ SaveEnabled(c)
        /\ NextGeneration(c) <= MaxGeneration
        /\ Post(c, "save", 1, "save", body, [cl[c] EXCEPT !.pending = body])
        /\ UNCHANGED <<accepted, rejected>>

\* A root that is not the next generation, or a generation space that is
\* exhausted: the store fails closed before it submits anything.
SaveRefusedLocally(c) ==
    /\ SaveEnabled(c)
    /\ cl' = [cl EXCEPT ![c].poisoned = TRUE, ![c].ambiguous = FALSE, ![c].replay = FALSE]
    /\ UNCHANGED <<storeVars, serverVars, accepted, rejected>>

\* async_replay_save: the exact retained request, on a poisoned store too.
ReplaySave(c) ==
    /\ cl[c].phase = "ready" /\ cl[c].call = None
    /\ cl[c].pending # None
    /\ cl[c].replay
    /\ cl[c].poisoned => cl[c].ambiguous
    /\ Post(c, "replay", 1, "save", cl[c].pending, cl[c])
    /\ UNCHANGED <<accepted, rejected>>

Barrier(c) ==
    /\ Usable(c)
    /\ cl[c].commit # None
    /\ Post(c, "barrier", 1, "barrier", cl[c].commit, cl[c])
    /\ UNCHANGED <<accepted, rejected>>

\* async_close: refuse new operations at once, finish when the lock is free.
Close(c) ==
    /\ cl[c].phase = "ready"
    /\ cl' = [cl EXCEPT ![c].phase = IF cl[c].call = None THEN "closed" ELSE "closing"]
    /\ UNCHANGED <<storeVars, serverVars, accepted, rejected>>

-----------------------------------------------------------------------------
(* Responses. *)

\* Mutant: an operation that ends does not let a waiting close finish.
DoneKeepsPhase(c) == [cl[c] EXCEPT !.call = None]

\* The client object once its call is over.
Done(c) == [cl[c] EXCEPT !.call = None,
                         !.phase = CASE @ = "closing" -> "closed"
                                     [] OTHER -> @]

PendingSave(c) == SaveOfBody(c, cl[c].pending)

\* _validate_save_response against the retained candidate.
MatchesPending(c, response) == response = SaveResponse(PendingSave(c))

AcceptSave(c) ==
    /\ cl' = [cl EXCEPT ![c] = [Done(c) EXCEPT
                !.snapshot = cl[c].pending.root, !.saveReady = FALSE,
                !.commit = CommitToken(PendingSave(c).id, PendingSave(c).digest),
                !.poisoned = FALSE, !.ambiguous = FALSE, !.replay = TRUE]]
    /\ accepted' = accepted \cup {PendingSave(c)}
    /\ UNCHANGED rejected

\* _mark_poisoned at the end of a failed call.
Poison(c, ambiguous, replay) ==
    /\ cl' = [cl EXCEPT ![c] = [Done(c) EXCEPT
                !.poisoned = TRUE, !.ambiguous = ambiguous, !.replay = replay]]
    /\ UNCHANGED <<accepted, rejected>>

\* A verified rejection of a first submission: the save is known not to exist.
RejectSave(c) ==
    /\ cl' = [cl EXCEPT ![c] = [Done(c) EXCEPT
                !.pending = None, !.poisoned = TRUE, !.ambiguous = FALSE, !.replay = FALSE]]
    /\ rejected' = rejected \cup {PendingSave(c)}
    /\ UNCHANGED accepted

Succeeds(c, response) ==
    CASE cl[c].call.op = "hello" ->
            /\ cl' = [cl EXCEPT ![c] = [Done(c) EXCEPT !.phase = "ready"]]
            /\ UNCHANGED <<accepted, rejected>>
      [] cl[c].call.op = "load" ->
            /\ cl' = [cl EXCEPT ![c] = [Done(c) EXCEPT !.snapshot = response, !.saveReady = TRUE]]
            /\ UNCHANGED <<accepted, rejected>>
      [] cl[c].call.op \in {"save", "replay"} ->
            IF MatchesPending(c, response) THEN AcceptSave(c) ELSE Poison(c, TRUE, TRUE)
      [] cl[c].call.op = "barrier" ->
            IF response = cl[c].commit
            THEN /\ cl' = [cl EXCEPT ![c] = [Done(c) EXCEPT
                              !.commit = None, !.pending = None, !.replay = FALSE]]
                 /\ UNCHANGED <<accepted, rejected>>
            ELSE Poison(c, TRUE, FALSE)

\* Mutant: a timeout is taken for a rejection.
DefiniteOrLost(kind) == kind # "unsigned" /\ kind # "unavailable"

\* A first submission failed for certain: only a signed rejection says so.
Definite(kind) == kind \in {"conflict", "rejected"}

\* The except clauses: "lost" is a timeout or transport error, "unsigned" an
\* authentication failure, "unavailable" a signed 5xx, the rest signed rejections.
Fails(c, kind) ==
    CASE cl[c].call.op = "hello" ->
            /\ cl' = [cl EXCEPT ![c] = [Done(c) EXCEPT !.phase = "closed"]]
            /\ UNCHANGED <<accepted, rejected>>
      [] cl[c].call.op = "load"    -> Poison(c, FALSE, FALSE)
      [] cl[c].call.op = "barrier" -> Poison(c, TRUE, FALSE)
      [] cl[c].call.op = "replay"  -> Poison(c, TRUE, TRUE)
      [] cl[c].call.op = "save"    ->
            IF Definite(kind) THEN RejectSave(c) ELSE Poison(c, TRUE, kind # "unsigned")

\* A reply arrives on the connection the call waits on.
Receive(c, r) ==
    /\ cl[c].call # None
    /\ r.conn = cl[c].call.conn
    /\ IF r.status = "ok" THEN Succeeds(c, r.response) ELSE Fails(c, r.status)
    /\ replies' = replies \ {r}
    /\ open' = open \ {r.conn}
    /\ UNCHANGED <<storeVars, procVars, inbox>>

\* The connection is given up: no reply on it is read any more.
HangUp(c) ==
    /\ open' = open \ {cl[c].call.conn}
    /\ replies' = {r \in replies : r.conn # cl[c].call.conn}

\* Timeout or transport error.  The request may still reach the App later.
LoseReply(c) ==
    /\ cl[c].call # None
    /\ Fails(c, "lost")
    /\ HangUp(c)
    /\ UNCHANGED <<storeVars, procVars, inbox>>

\* A read that failed before a response began is retried under a new id.
RetryRead(c) ==
    /\ cl[c].call # None
    /\ cl[c].call.op \in {"hello", "load"}
    /\ cl[c].call.attempt < ReadAttempts
    /\ cl[c].posts < MaxPosts
    /\ LET m == Request(c, cl[c].boot, cl[c].call.op, None)
       IN  /\ cl' = [cl EXCEPT ![c].posts = @ + 1,
                             ![c].call = [op |-> @.op, attempt |-> @.attempt + 1, conn |-> m.conn]]
           /\ inbox' = inbox \cup {m}
           /\ open' = (open \ {cl[c].call.conn}) \cup {m.conn}
           /\ replies' = {r \in replies : r.conn # cl[c].call.conn}
    /\ UNCHANGED <<storeVars, procVars, accepted, rejected>>

-----------------------------------------------------------------------------

Init ==
    /\ ServerInit
    /\ cl = [c \in Client |-> NewClient]
    /\ accepted = {} /\ rejected = {}

ClientNext(c) ==
    \/ Open(c) \/ Load(c) \/ SaveRefusedLocally(c) \/ ReplaySave(c) \/ Barrier(c) \/ Close(c)
    \/ LoseReply(c) \/ RetryRead(c)
    \/ \E p \in Payload : Save(c, p)
    \/ \E r \in replies : Receive(c, r)

Next ==
    \/ ServerNext /\ UNCHANGED <<cl, accepted, rejected>>
    \/ \E c \in Client : ClientNext(c)

Spec == Init /\ [][Next]_vars

\* The event loop and the worker thread keep running, and a signalled process
\* goes on with its shutdown; a client's await is bounded by its timeout.
\* Nothing obliges anyone to send, stop or restart.
FairSpec == /\ Spec
            /\ WF_vars(WorkerRuns /\ UNCHANGED <<cl, accepted, rejected>>)
            /\ WF_vars(DrainEnds /\ UNCHANGED <<cl, accepted, rejected>>)
            /\ WF_vars(CloseStore /\ UNCHANGED <<cl, accepted, rejected>>)
            /\ \A c \in Client : WF_vars(LoseReply(c))

-----------------------------------------------------------------------------
(* Properties. *)

InLog(s) == \E i \in 1 .. Len(log[Journal]) : log[Journal][i] = s

\* Type invariant of the process, the network and the client objects.
RemoteTypeOK ==
    /\ proc \in {"down", "serving", "draining", "closing"}
    /\ (proc = "down") = (db # "open")
    /\ boot \in 0 .. MaxBoot /\ published \in 0 .. boot
    /\ Len(guard) <= MaxReplayEntries /\ Len(worker) <= MaxConnections
    /\ \A m \in inbox : m.client \in Client /\ m.boot \in 1 .. boot
    /\ \A c \in Client : /\ cl[c].posts \in 0 .. MaxPosts
                         /\ cl[c].snapshot \in Root \cup {None}
                         /\ cl[c].call # None => cl[c].call.conn = <<c, cl[c].posts>>

\* A client that holds a commit (its save was accepted and awaits the barrier)
\* holds the token of a save that is durably in the chain, whatever crashes,
\* late requests and other clients did since.
AcceptedSaveIsDurable ==
    \A c \in Client : cl[c].commit # None =>
        \E i \in 1 .. Len(log[Journal]) :
            LET s == log[Journal][i]
            IN  s.root = cl[c].snapshot /\ cl[c].commit = CommitToken(s.id, s.digest)

\* After a client was told that its save failed definitely, it never appears in
\* the journal; and what a client was told is committed is in the journal: the
\* protocol implements the abstract compare-and-swap journal.
Promise == INSTANCE CasJournal WITH
               chain <- log[Journal],
               Predecessor <- LAMBDA s : s.expected,
               Successor <- LAMBDA s : RevisionOf(s.root)
ImplementsCasJournal == Promise!CasSpec

\* The requests a process has admitted all carry its own boot: credentials of an
\* earlier boot reach neither the worker nor the tables.
NoStaleBootWork == \A i \in 1 .. Len(worker) : worker[i].boot = boot

\* What holds in every state of clients, network and App (_process_signed_request,
\* async_save): only work of this boot is admitted, and an accepted save is durable.
RemoteInvariant == RemoteTypeOK /\ NoStaleBootWork /\ AcceptedSaveIsDurable

\* A shutdown that began completes although requests keep arriving until the
\* drain ends: the close that queues behind the worker's calls gets its turn.
ShutdownCompletes == (proc = "draining") ~> (proc = "down")

\* async_close waits for the operation lock, and always gets it: whatever call
\* holds it ends by a reply, a failure, or the timeout of its last attempt.
CloseCompletes ==
    \A c \in Client : (cl[c].phase = "closing") ~> (cl[c].phase = "closed")
=============================================================================
