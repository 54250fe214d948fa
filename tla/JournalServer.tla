--------------------------- MODULE JournalServer ----------------------------
(***************************************************************************)
(* The companion App process around the store (true_family_journal/        *)
(* server.py): boots with a fresh key, authenticates requests against it,  *)
(* the bounded replay guard, the single SQLite worker, signed replies, and *)
(* the shutdown that drains handlers, then the worker, then the database.  *)
(*                                                                         *)
(* A request travels on a connection of its own.  HMAC is modelled by what *)
(* it decides: a request verifies iff it was signed under the current      *)
(* boot's key, and an unauthenticated reply carries no signature.          *)
(***************************************************************************)
EXTENDS JournalStore

CONSTANTS
    Journal,         \* the one journal of the Home Assistant config entry
    Client,          \* client objects, each with its own random client_id
    MaxBoot,         \* bound: starts of the App process
    MaxReplayEntries,\* MAX_REPLAY_ENTRIES
    MaxConnections   \* MAX_ACCEPTED_CONNECTIONS

VARIABLES
    proc,      \* "down", "serving", "draining" handlers, "closing" the store
    boot,      \* boot id (and key) of the latest process
    published, \* boot id in the Supervisor's discovery record, 0 if none
    guard,     \* ReplayGuard._entries, oldest first
    worker,    \* requests submitted to the single SQLite worker thread
    inbox,     \* requests on their way to the process
    open,      \* connections whose client still waits for the reply
    replies    \* replies on their way back

procVars   == <<proc, boot, published, guard, worker>>
netVars    == <<inbox, open, replies>>
serverVars == <<procVars, netVars>>

ASSUME ServerConstants ==
    /\ JournalId = {Journal}
    /\ MaxBoot \in Nat
    /\ MaxReplayEntries \in Nat \ {0}
    /\ MaxConnections \in Nat \ {0}

\* The SHA-256 of a request body, and the save identity derived from it.
BodyDigest(m)         == <<"sha256", m.client, m.path, m.body>>
SaveRequestId(digest) == <<"tfj", digest>>

\* The store call that a save request turns into.
SaveOf(m) == [id       |-> m.id,
              digest   |-> BodyDigest(m),
              journal  |-> Journal,
              expected |-> m.body.expected,
              root     |-> m.body.root]

\* Only a connection that is still open carries a reply back.
Send(m, status, response) ==
    replies' = IF m.conn \in open
               THEN replies \cup {[conn |-> m.conn, status |-> status, response |-> response]}
               ELSE replies

-----------------------------------------------------------------------------
(* The replay guard. *)

Identity(m) == [id |-> m.id, path |-> m.path, digest |-> BodyDigest(m)]

\* ReplayGuard.claim refuses a known id unless the path is idempotent and the
\* path and digest are the ones first claimed.
ClaimConflicts(m) ==
    \E i \in 1 .. Len(guard) :
        /\ guard[i].id = m.id
        /\ m.path \notin {"save", "barrier"} \/ guard[i] # Identity(m)

\* The entries with entry k moved to the end.
MovedToEnd(k) ==
    [i \in 1 .. Len(guard) |-> IF i < k THEN guard[i]
                               ELSE IF i < Len(guard) THEN guard[i + 1] ELSE guard[k]]

\* The entries after a successful claim: a known id moves to the end, a new one
\* is appended and may push out the oldest.
Claimed(m) ==
    LET known   == {i \in 1 .. Len(guard) : guard[i].id = m.id}
        entries == Append(guard, Identity(m))
    IN  IF known # {} THEN MovedToEnd(CHOOSE i \in known : TRUE)
        ELSE IF Len(entries) > MaxReplayEntries THEN Tail(entries) ELSE entries

-----------------------------------------------------------------------------
(* Handlers. *)

\* The limit of active connections.  Those that await the worker stand for them; the others
\* are answered within their own step.
Busy == Len(worker) >= MaxConnections

\* verify_request: the request is signed under this boot's key and names it.
Verifies(m) == m.boot = boot

\* _accept over its limit, or a request that does not verify under this boot:
\* an unsigned error, and nothing else happens.
RefuseUnsigned(m) ==
    /\ m \in inbox
    /\ proc \in {"serving", "draining"}
    /\ Busy \/ ~Verifies(m)
    /\ Send(m, "unsigned", None)
    /\ inbox' = inbox \ {m}
    /\ UNCHANGED <<storeVars, procVars, open>>

\* The signed refusal of a verified request before any work is submitted.
Refusal(m) ==
    IF m.path = "save" /\ m.id # SaveRequestId(BodyDigest(m)) THEN "rejected"
    ELSE IF ClaimConflicts(m) THEN "conflict"
    ELSE "none"

\* _process_signed_request up to the point where it awaits the worker.
Admit(m) ==
    /\ m \in inbox
    /\ proc \in {"serving", "draining"}
    /\ ~Busy /\ Verifies(m)
    /\ inbox' = inbox \ {m}
    /\ UNCHANGED <<storeVars, proc, boot, published, open>>
    /\ guard' = IF Refusal(m) = "none" THEN Claimed(m) ELSE guard
    /\ worker' = IF Refusal(m) = "none" /\ m.path # "hello" THEN Append(worker, m) ELSE worker
    /\ IF Refusal(m) # "none" THEN Send(m, Refusal(m), None)
       ELSE IF m.path = "hello" THEN Send(m, "ok", None)
       ELSE UNCHANGED replies

\* Mutant: a stale save is reported like a committed one.
StatusOfLenient(m) ==
    CASE m.path = "load"    -> "ok"
      [] m.path = "barrier" -> IF BarrierHolds(Journal, m.body) THEN "ok" ELSE "conflict"
      [] m.path = "save"    -> IF SaveOutcome(SaveOf(m)) = "storage_failure" THEN "unavailable"
                                                                             ELSE "ok"

\* What the worker's call answers, as the handler signs it.
StatusOf(m) ==
    CASE m.path = "load"    -> "ok"
      [] m.path = "barrier" -> IF BarrierHolds(Journal, m.body) THEN "ok" ELSE "conflict"
      [] m.path = "save"    -> CASE SaveOutcome(SaveOf(m)) \in {"committed", "replayed"} -> "ok"
                                 [] SaveOutcome(SaveOf(m)) = "storage_failure" -> "unavailable"
                                 [] OTHER -> "conflict"

\* A replayed save is answered with the stored response, which is the one computed here again
\* (ReceiptsTellTheLog).
ResponseOf(m) ==
    CASE m.path = "load"    -> IF journals[Journal] = None THEN None ELSE journals[Journal].root
      [] m.path = "barrier" -> m.body
      [] m.path = "save"    -> SaveResponse(SaveOf(m))

\* A handler cancelled by the drain timeout still waits for the worker, but
\* its connection is aborted and gets no reply.
Answer(m, status, response) ==
    IF proc = "closing" THEN UNCHANGED replies ELSE Send(m, status, response)

WorkerHasTurn == db = "open" /\ worker # <<>>

WorkerRuns ==
    /\ WorkerHasTurn
    /\ LET m == Head(worker)
       IN  /\ Answer(m, StatusOf(m), IF StatusOf(m) = "ok" THEN ResponseOf(m) ELSE None)
           /\ IF m.path = "save" /\ SaveOutcome(SaveOf(m)) = "committed"
              THEN SaveSync(SaveOf(m))
              ELSE UNCHANGED storeVars
    /\ worker' = Tail(worker)
    /\ UNCHANGED <<proc, boot, published, guard, inbox, open>>

\* A sqlite3.Error inside the call: rolled back and reported as a storage failure.
WorkerFails ==
    /\ WorkerHasTurn
    /\ Answer(Head(worker), "unavailable", None)
    /\ worker' = Tail(worker)
    /\ UNCHANGED <<storeVars, proc, boot, published, guard, inbox, open>>

-----------------------------------------------------------------------------
(* The process. *)

\* async_create and async_start: a fresh boot id and key, then the store.
Start ==
    /\ proc = "down"
    /\ boot < MaxBoot
    /\ boot' = boot + 1
    /\ OpenSync
    /\ proc' = IF DurableRowsValid THEN "serving" ELSE "down"
    /\ guard' = <<>>
    /\ worker' = <<>>
    /\ UNCHANGED <<published, netVars>>

\* SupervisorDiscovery.async_replace, only after the listener is up.
Publish ==
    /\ proc = "serving"
    /\ published # boot
    /\ published' = boot
    /\ UNCHANGED <<storeVars, proc, boot, guard, worker, netVars>>

\* SIGTERM, or discovery failed: the listener closes.
Stop ==
    /\ proc = "serving"
    /\ proc' = "draining"
    /\ UNCHANGED <<storeVars, boot, published, guard, worker, netVars>>

\* Every handler ended, or the drain timeout cancelled the rest.
DrainEnds ==
    /\ proc = "draining"
    /\ proc' = "closing"
    /\ UNCHANGED <<storeVars, boot, published, guard, worker, netVars>>

\* store.async_close queues behind every submitted call.
CloseStore ==
    /\ proc = "closing"
    /\ worker = <<>>
    /\ CloseSync
    /\ proc' = "down"
    /\ UNCHANGED <<boot, published, guard, worker, netVars>>

Crash ==
    /\ proc # "down"
    /\ CloseSync
    /\ proc' = "down"
    /\ guard' = <<>>
    /\ worker' = <<>>
    /\ UNCHANGED <<boot, published, netVars>>

ServerInit ==
    /\ StoreInit
    /\ proc = "down" /\ boot = 0 /\ published = 0
    /\ guard = <<>> /\ worker = <<>>
    /\ inbox = {} /\ open = {} /\ replies = {}

ServerNext ==
    \/ Start \/ Publish \/ Stop \/ DrainEnds \/ CloseStore \/ Crash
    \/ WorkerRuns \/ WorkerFails
    \/ \E m \in inbox : RefuseUnsigned(m) \/ Admit(m)
=============================================================================
