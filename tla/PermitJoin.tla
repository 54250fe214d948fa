----------------------------- MODULE PermitJoin -----------------------------
(***************************************************************************)
(* Zigbee2MqttClient (custom_components/true_family/mqtt.py) with the      *)
(* bridge it watches: requests to open and close joining, the attribution  *)
(* of bridge states to requests, and the proof of a closing.               *)
(*                                                                         *)
(* External: the bridge and the broker, as the client uses them.  Messages *)
(* of the bridge arrive in the order it publishes them, unless Home        *)
(* Assistant is disconnected: then they are lost and the retained ones are *)
(* delivered again.  Anybody may open or close joining at the bridge; a    *)
(* foreign opening never ends at the very time ours would, which is the    *)
(* single-writer contract of the broker that the code names.  A deadline   *)
(* may pass at any time.                                                   *)
(***************************************************************************)
EXTENDS Integers, Sequences

CONSTANTS
    None, Other,  \* no window or transaction, and that of somebody else
    MaxRequests,  \* bound: requests of the runtime; each has its own transaction
    MaxForeign,   \* bound: openings and closings by others
    MaxFaults,    \* bound: bridge restarts, malformed messages, disconnections
    MaxSetups     \* bound: reloads of the client

VARIABLES
    subscribed, \* are the callbacks installed
    c,          \* what the client has observed, see Fresh
    req,        \* the runtime's request in flight, or None
    join,       \* external: None, or whose window the bridge has open
    up,         \* external: does the bridge run
    toBridge,   \* requests on their way
    toClient,   \* messages on their way
    taint,      \* history: the worst note since the request was published
    served,     \* history: transactions the bridge has executed
    count       \* inputs so far

vars == <<subscribed, c, req, join, up, toBridge, toClient, taint, served, count>>
external == <<join, up, toBridge, served>>

Tx    == 1 .. MaxRequests

\* The permit state of the bridge with the generation it was heard in, the
\* attribution of an opening of ours, and a request in flight.
InfoType == [open : BOOLEAN, end : Tx \cup {None, Other}, retained : BOOLEAN, gen : Nat]
OwnType  == [tx : Tx, gen : Nat, acked : BOOLEAN, info : Nat, provisional : InfoType \cup {None}]
ReqType  == [kind : {"open", "close"}, tx : Tx, gen : Nat,
             stage : {"online", "ack", "acked", "refused"}]

ASSUME PermitConstants ==
    /\ {MaxRequests, MaxForeign, MaxFaults, MaxSetups} \subseteq Nat
    /\ None # Other /\ None \notin Tx /\ Other \notin Tx
    /\ None \notin InfoType \cup OwnType \cup ReqType

Later(a, b) == IF a > b THEN a ELSE b

\* Observations before the first message.  own is the attribution of an opening;
\* note is what a callback makes the listener hear besides its own openings and
\* closed states, while the callback runs.
Fresh == [gen |-> 0,       \* _generation
          unsafe |-> 0,    \* _unsafe_generation
          foreign |-> 0,   \* _unattributed_open_generation
          proof |-> 0,     \* _closed_proof_generation
          online |-> "unknown", invalid |-> FALSE,
          info |-> None,   \* the permit state with its generation, or None
          seen |-> FALSE,  \* _bridge_info_seen
          own |-> None,
          aged |-> FALSE,  \* the info is older than PERMIT_JOIN_BASELINE_MAX_AGE_SECONDS
          note |-> "clean"]

Info(open, end, retained) ==
    [type |-> "info", open |-> open, end |-> end, retained |-> retained]
State(online) == [type |-> "state", online |-> online]
Ack(tx, ok)   == [type |-> "ack", tx |-> tx, ok |-> ok]
Bad(type)     == [type |-> "bad", of |-> type]

InfoOf(j) == Info(j # None, j, FALSE)
Publish(messages) == toClient' = IF subscribed THEN toClient \o messages ELSE <<>>

-----------------------------------------------------------------------------
(* Judging what was observed. *)

\* _mark_unsafe.
MarkUnsafe(s) ==
    [s EXCEPT !.unsafe = s.gen, !.proof = 0, !.own = None, !.note = "unsafe"]

\* _reject_open_state.
Reject(s, gen) ==
    [s EXCEPT !.foreign = Later(@, gen),
              !.own = IF @ = None THEN None ELSE [@ EXCEPT !.provisional = None],
              !.note = "opened"]

\* _is_provisional_open_candidate and _is_valid_open_candidate.
Candidate(s, late) == s.info.gen > s.own.gen /\ ~s.info.retained /\ ~late
Valid(s, late)     == Candidate(s, late) /\ s.info.end = s.own.tx

\* Mutant: every opening after the acknowledgement is taken for ours.
ClassifyOpenEager(s, late) ==
    CASE s.own = None -> [s EXCEPT !.foreign = Later(@, s.info.gen), !.note = "opened"]
      [] s.own # None -> [s EXCEPT !.own.info = s.info.gen]

\* _classify_open_state of an online bridge that reports open joining.
ClassifyOpen(s, late) ==
    CASE s.own = None ->
            [s EXCEPT !.foreign = Later(@, s.info.gen), !.note = "opened"]
      [] s.own # None /\ ~s.own.acked ->
            IF Candidate(s, late) /\ s.own.provisional = None
            THEN [s EXCEPT !.own.provisional = s.info]
            ELSE IF Candidate(s, late) /\ s.own.provisional.gen = s.info.gen
            THEN s
            ELSE Reject(s, s.info.gen)
      [] s.own # None /\ s.own.acked ->
            IF Valid(s, late) THEN [s EXCEPT !.own.info = s.info.gen]
            ELSE Reject(s, s.info.gen)

\* _notify_classified_permit_state of the current state.
Classify(s, late) ==
    CASE s.online # "online" \/ s.info = None ->
            IF s.note = "unsafe" THEN s ELSE [s EXCEPT !.note = "opened"]
      [] OTHER -> IF s.info.open THEN ClassifyOpen(s, late)
                  ELSE IF /\ s.own # None
                          /\ s.own.provisional # None
                          /\ s.info.gen > s.own.provisional.gen
                  THEN Reject(s, s.info.gen)
                  ELSE s

\* current_closed_baseline, but for its age.
ClosedBaseline ==
    /\ subscribed
    /\ c.proof > 0
    /\ c.online = "online" /\ c.info # None
    /\ ~c.info.open /\ ~c.info.retained /\ c.info.gen >= c.proof

\* The request in flight has been published.
Published == req # None /\ req.stage # "online"

Promise == INSTANCE JoinBarrier WITH
               request <- IF Published THEN req.kind ELSE "none",
               proved  <- IF ~ClosedBaseline THEN "no" ELSE IF c.aged THEN "aged" ELSE "yes"

-----------------------------------------------------------------------------
(* The callbacks. *)

\* _next_generation.
Heard(s) == [s EXCEPT !.gen = @ + 1]

\* bridge_state_received.  An online bridge that reports online again restarted.
StateReceived(m) ==
    LET s == [Heard(c) EXCEPT !.online = IF m.online THEN "online" ELSE "offline",
                              !.invalid = FALSE]
    IN  IF m.online /\ c.online # "online" THEN Classify(s, FALSE) ELSE MarkUnsafe(s)

\* A closing has been published and is not settled.
ClosingInFlight == Published /\ req.kind = "close"

\* Mutant: an opening is only looked at while an own opening is attributed.
InfoReceivedOwnOnly(m, late) ==
    LET info == [open |-> m.open, end |-> m.end, retained |-> m.retained, gen |-> c.gen + 1]
        s    == [Heard(c) EXCEPT !.info = info, !.seen = TRUE, !.aged = FALSE,
                                 !.proof = IF m.open THEN 0 ELSE @]
    IN  IF m.open /\ c.own = None THEN Heard(c) ELSE Classify(s, late)

\* bridge_info_received; late is a deadline of the opening passed.
InfoReceived(m, late) ==
    LET info == [open |-> m.open, end |-> m.end, retained |-> m.retained, gen |-> c.gen + 1]
        s    == [Heard(c) EXCEPT !.info = info, !.seen = TRUE, !.aged = FALSE,
                                 !.proof = IF m.open THEN 0 ELSE @]
    IN  IF m.retained /\ (c.seen \/ ClosingInFlight) THEN MarkUnsafe(s) ELSE Classify(s, late)

\* A malformed state or info: what it was about is unknown from now on.
BadReceived(m) ==
    MarkUnsafe(IF m.of = "state"
               THEN [Heard(c) EXCEPT !.online = "unknown", !.invalid = TRUE]
               ELSE [Heard(c) EXCEPT !.info = None, !.seen = TRUE])

ProvisionalOpen == c.own # None /\ c.own.provisional # None

\* _reject_provisional_open.
RejectProvisional == IF ProvisionalOpen THEN Reject(c, c.own.provisional.gen) ELSE c

\* _commit_provisional_open, right after the acknowledgement: the candidate is
\* judged again, now by its end too.
CommitProvisional(s) ==
    LET p    == s.own.provisional
        open == [s EXCEPT !.own.provisional = None]
    IN  IF p = None THEN s
        ELSE IF p.end = s.own.tx THEN [open EXCEPT !.own.info = p.gen]
        ELSE Reject(s, p.gen)

\* join_response_received: the response to a pending request, to no pending
\* request, or one that does not acknowledge what was asked.
Answers(m) == Published /\ m.tx = req.tx

OwnershipKept == req.kind = "open" => c.own # None /\ c.own.tx = req.tx

\* What a response makes of the observations; it is no state and has no generation.
ResponseReceived(m) ==
    CASE ~Answers(m) -> RejectProvisional
      [] Answers(m) /\ req.stage # "ack" -> c
      [] Answers(m) /\ req.stage = "ack" ->
            IF m.ok /\ OwnershipKept
            THEN IF req.kind = "open" THEN CommitProvisional([c EXCEPT !.own.acked = TRUE]) ELSE c
            ELSE IF req.kind = "open" THEN RejectProvisional ELSE c

\* What a response makes of the request.  A response to nobody's request refuses
\* an opening whose bridge state was already seen.
Answered(m) ==
    CASE Answers(m) /\ req.stage = "ack" ->
            [req EXCEPT !.stage = IF m.ok /\ OwnershipKept THEN "acked" ELSE "refused"]
      [] ~Answers(m) /\ Published /\ req.stage = "ack" /\ req.kind = "open" /\ ProvisionalOpen ->
            [req EXCEPT !.stage = "refused"]
      [] OTHER -> req

\* A message arrives and its callback runs.
Receive(late) ==
    /\ subscribed /\ toClient # <<>>
    /\ late => req = None /\ c.own # None
    /\ LET m == Head(toClient)
           s == CASE m.type = "state" -> StateReceived(m)
                  [] m.type = "info"  -> InfoReceived(m, late)
                  [] m.type = "ack"   -> ResponseReceived(m)
                  [] m.type = "bad"   -> BadReceived(m)
       IN  /\ c' = [s EXCEPT !.note = "clean"]
           /\ taint' = IF Published THEN Promise!Worse(taint, s.note) ELSE "clean"
           /\ req' = IF m.type = "ack" THEN Answered(m) ELSE req
    /\ toClient' = Tail(toClient)
    /\ UNCHANGED <<subscribed, external, count>>

-----------------------------------------------------------------------------
(* Requests of the runtime, one at a time under its mutation lock. *)

Send(tx, kind) == toBridge' = Append(toBridge, [tx |-> tx, kind |-> kind])

\* _begin_open_attribution.
OwnOpening(tx) ==
    [tx |-> tx, gen |-> c.gen, acked |-> FALSE, info |-> 0, provisional |-> None]

\* async_open_join up to its first await.
OpenJoin ==
    /\ req = None /\ ClosedBaseline /\ ~c.aged
    /\ count.requests < MaxRequests
    /\ LET tx == count.requests + 1
       IN  /\ c' = [c EXCEPT !.proof = 0, !.own = OwnOpening(tx)]
           /\ req' = [kind |-> "open", tx |-> tx, gen |-> c.gen, stage |-> "ack"]
           /\ Send(tx, "open")
           /\ count' = [count EXCEPT !.requests = tx]
    /\ taint' = "clean"
    /\ UNCHANGED <<subscribed, join, up, toClient, served>>

\* The loop of async_open_join finds its proof.
OpenJoinProved ==
    /\ req # None /\ req.kind = "open" /\ req.stage = "acked"
    /\ c.unsafe <= req.gen /\ c.foreign <= req.gen /\ c.online = "online"
    /\ c.own # None /\ c.own.acked /\ c.own.info > req.gen
    /\ req' = None /\ taint' = "clean"
    /\ UNCHANGED <<subscribed, c, external, toClient, count>>

\* async_reconcile_join_closed waits until the bridge is known to be online.
CloseJoin ==
    /\ req = None /\ subscribed
    /\ count.requests < MaxRequests
    /\ req' = [kind |-> "close", tx |-> count.requests + 1, gen |-> 0, stage |-> "online"]
    /\ count' = [count EXCEPT !.requests = @ + 1]
    /\ UNCHANGED <<subscribed, c, external, toClient, taint>>

PublishCloseJoin ==
    /\ req # None /\ req.stage = "online"
    /\ c.online = "online"
    /\ req' = [req EXCEPT !.stage = "ack", !.gen = c.gen]
    /\ Send(req.tx, "close")
    /\ taint' = "clean"
    /\ UNCHANGED <<subscribed, c, join, up, toClient, served, count>>

\* Mutant: a closing is proved by its acknowledgement and the state known before.
CloseJoinProvedByAck ==
    /\ req # None /\ req.kind = "close" /\ req.stage = "acked"
    /\ c.info # None /\ ~c.info.open /\ ~c.info.retained
    /\ c' = [c EXCEPT !.proof = c.info.gen, !.own = None, !.aged = FALSE]
    /\ req' = None /\ taint' = "clean"
    /\ UNCHANGED <<subscribed, external, toClient, count>>

\* The loop of async_reconcile_join_closed finds its proof.
CloseJoinProved ==
    /\ req # None /\ req.kind = "close" /\ req.stage = "acked"
    /\ c.unsafe <= req.gen /\ c.online = "online"
    /\ c.info # None
    /\ c.info.gen > req.gen /\ ~c.info.open /\ ~c.info.retained
    /\ c' = [c EXCEPT !.proof = c.info.gen, !.own = None, !.aged = FALSE]
    /\ req' = None /\ taint' = "clean"
    /\ UNCHANGED <<subscribed, external, toClient, count>>

\* A check of either loop fails, the acknowledgement is refused, or a timeout.
\* The attribution of an opening stays until a closing is proved.
JoinRequestFails ==
    /\ req # None
    /\ req' = None /\ taint' = "clean"
    /\ UNCHANGED <<subscribed, c, external, toClient, count>>

\* The current info grows too old for a baseline.
BaselineAges ==
    /\ c.proof > 0 /\ ~c.aged
    /\ c' = [c EXCEPT !.aged = TRUE]
    /\ UNCHANGED <<subscribed, req, external, toClient, taint, count>>

\* async_setup: subscribing makes the broker deliver what it retained.
Setup ==
    /\ ~subscribed /\ count.setups < MaxSetups
    /\ subscribed' = TRUE
    /\ c' = Fresh
    /\ toClient' = <<State(up), Info(join # None, join, TRUE)>>
    /\ count' = [count EXCEPT !.setups = @ + 1]
    /\ UNCHANGED <<req, external, taint>>

\* async_shutdown.
Shutdown ==
    /\ subscribed
    /\ subscribed' = FALSE
    /\ c' = Fresh /\ req' = None /\ toClient' = <<>> /\ taint' = "clean"
    /\ UNCHANGED <<external, count>>

-----------------------------------------------------------------------------
(* External: the bridge and the broker. *)

Frame == UNCHANGED <<subscribed, c, req, taint>>

\* The bridge executes a request, and publishes its response and its new state in
\* either order; or it refuses; or the request is lost.
Serve ==
    /\ up /\ toBridge # <<>>
    /\ LET r == Head(toBridge)
           j == IF r.kind = "open" THEN r.tx ELSE None
       IN  \/ /\ join' = j
              /\ served' = served \cup {r.tx}
              /\ \/ Publish(<<InfoOf(j), Ack(r.tx, TRUE)>>)
                 \/ Publish(<<Ack(r.tx, TRUE), InfoOf(j)>>)
           \/ Publish(<<Ack(r.tx, FALSE)>>) /\ UNCHANGED <<join, served>>
           \/ UNCHANGED <<join, served, toClient>>
    /\ toBridge' = Tail(toBridge)
    /\ Frame /\ UNCHANGED <<up, count>>

WindowEnds ==
    /\ up /\ join # None
    /\ join' = None
    /\ Publish(<<InfoOf(None)>>)
    /\ Frame /\ UNCHANGED <<up, toBridge, served, count>>

\* Somebody else opens or closes joining, over MQTT (the response goes to the
\* topic everybody reads) or at the bridge itself.
Foreign ==
    /\ up /\ count.foreign < MaxForeign
    /\ \E j \in {None, Other} :
           /\ join' = j
           /\ \/ Publish(<<InfoOf(j)>>)
              \/ Publish(<<Ack(Other, TRUE), InfoOf(j)>>)
    /\ count' = [count EXCEPT !.foreign = @ + 1]
    /\ Frame /\ UNCHANGED <<up, toBridge, served>>

Restart ==
    /\ IF up THEN /\ count.faults < MaxFaults
                  /\ count' = [count EXCEPT !.faults = @ + 1]
                  /\ Publish(<<State(FALSE)>>)
             ELSE /\ Publish(<<State(TRUE), InfoOf(None)>>)
                  /\ UNCHANGED count
    /\ up' = ~up /\ join' = None /\ toBridge' = <<>>
    /\ Frame /\ UNCHANGED served

Malformed ==
    /\ count.faults < MaxFaults
    /\ \E of \in {"state", "info"} : Publish(<<Bad(of)>>)
    /\ count' = [count EXCEPT !.faults = @ + 1]
    /\ Frame /\ UNCHANGED <<join, up, toBridge, served>>

\* Home Assistant loses the broker and subscribes again.
Reconnect ==
    /\ subscribed /\ count.faults < MaxFaults
    /\ toClient' = <<State(up), Info(join # None, join, TRUE)>>
    /\ count' = [count EXCEPT !.faults = @ + 1]
    /\ Frame /\ UNCHANGED <<join, up, toBridge, served>>

-----------------------------------------------------------------------------

Init ==
    /\ subscribed = FALSE /\ c = Fresh /\ req = None
    /\ join \in IF MaxForeign > 0 THEN {None, Other} ELSE {None}
    /\ up = TRUE
    /\ toBridge = <<>> /\ toClient = <<>>
    /\ taint = "clean" /\ served = {}
    /\ count = [requests |-> 0, foreign |-> IF join = Other THEN 1 ELSE 0, faults |-> 0, setups |-> 0]

Next ==
    \/ Setup \/ Shutdown
    \/ \E late \in BOOLEAN : Receive(late)
    \/ OpenJoin \/ OpenJoinProved \/ CloseJoin \/ PublishCloseJoin \/ CloseJoinProved
    \/ JoinRequestFails \/ BaselineAges
    \/ Serve \/ WindowEnds \/ Foreign \/ Restart \/ Malformed \/ Reconnect

Spec == Init /\ [][Next]_vars

-----------------------------------------------------------------------------
(* Properties. *)

\* Type invariant of the client's observations and its request.
PermitTypeOK ==
    /\ subscribed \in BOOLEAN /\ up \in BOOLEAN
    /\ {c.unsafe, c.foreign, c.proof} \subseteq 0 .. c.gen
    /\ c.info # None => c.info.gen \in 1 .. c.gen
    /\ c.own # None => /\ c.own.info \in 0 .. c.gen
                       /\ c.own.provisional # None => ~c.own.acked
    /\ req # None => req.tx \in Tx /\ req.gen <= c.gen
    /\ join \in Tx \cup {None, Other}

\* News of open joining is on its way to the client.
OpeningHeardSoon == \E i \in 1 .. Len(toClient) :
                        toClient[i].type = "info" /\ toClient[i].open

\* While the client offers a closed baseline the bridge is closed, or the message
\* that takes the baseline away is already on its way: across lost messages,
\* restarts, foreign openings and late acknowledgements.
BaselineIsTrue == ClosedBaseline => join = None \/ OpeningHeardSoon

\* What the client takes for acknowledged, the bridge has executed: no response to
\* another writer, to an earlier request or to a refused one is mistaken for it.
AcknowledgedIsServed == Published /\ req.stage = "acked" => req.tx \in served

\* What the client believes of the bridge is true (mqtt.py): its closed baseline, and
\* the requests it takes for acknowledged.
BeliefsAreTrue == PermitTypeOK /\ BaselineIsTrue /\ AcknowledgedIsServed

\* An opening that is accepted as ours, and not contradicted since, is the window
\* the bridge has open, or that window has ended, or news of another is coming.
AcceptedWindowIsOurs ==
    (/\ c.own # None /\ c.own.acked /\ c.own.info > 0
     /\ c.foreign <= c.own.gen) =>
        join \in {None, c.own.tx} \/ OpeningHeardSoon

\* The client keeps its word to the runtime: the barriers of the abstract module,
\* which the replacement runtime is specified on.
ImplementsJoinBarrier == Promise!BarrierSpec
=============================================================================
