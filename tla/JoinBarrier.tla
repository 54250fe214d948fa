---------------------------- MODULE JoinBarrier -----------------------------
(***************************************************************************)
(* What the bridge client (mqtt.py) promises the replacement runtime about *)
(* joining, without topics, generations or acknowledgements: at most one   *)
(* request; a closing is never proved if the bridge became unsafe since    *)
(* its request was published; an opening succeeds only if besides nobody   *)
(* else was seen opening; only a proved closing gives a closed baseline,   *)
(* and only such a baseline allows an opening.  ValveReplacement takes the *)
(* client at this word.                                                    *)
(***************************************************************************)
VARIABLES
    request, \* "none", or the request published and not yet answered
    taint,   \* the worst thing heard of the bridge since it was published
    proved   \* the closed baseline: "yes", "aged" (too old to use) or "no"

barrierVars == <<request, taint, proved>>

Worse(a, b) == CASE "unsafe" \in {a, b} -> "unsafe"
                 [] "opened" \in {a, b} -> "opened"
                 [] OTHER -> "clean"

BarrierInit == request = "none" /\ taint = "clean" /\ proved = "no"

PublishOpen ==
    /\ request = "none" /\ proved = "yes"
    /\ request' = "open" /\ taint' = "clean" /\ proved' = "no"

PublishClose ==
    /\ request = "none"
    /\ request' = "close" /\ taint' = "clean"
    /\ UNCHANGED proved

\* The bridge is heard: what is bad takes the baseline away.
Hear ==
    \E kind \in {"opened", "unsafe"} :
        /\ taint' = IF request = "none" THEN "clean" ELSE Worse(taint, kind)
        /\ proved' = "no"
        /\ UNCHANGED request

\* A baseline lapses, is renewed by fresh closed news, or is lost.
Lapse ==
    /\ \/ proved = "yes"  /\ proved' \in {"aged", "no"}
       \/ proved = "aged" /\ proved' \in {"yes", "no"}
    /\ UNCHANGED <<request, taint>>

CloseProves ==
    /\ request = "close" /\ taint # "unsafe"
    /\ request' = "none" /\ proved' = "yes" /\ taint' = "clean"

OpenProves ==
    /\ request = "open" /\ taint = "clean"
    /\ request' = "none" /\ taint' = "clean"
    /\ UNCHANGED proved

RequestFails ==
    /\ request # "none"
    /\ request' = "none" /\ taint' = "clean"
    /\ UNCHANGED proved

\* The client gives up its subscriptions with whatever is in flight.
Forget ==
    request' = "none" /\ proved' = "no" /\ taint' = "clean"

BarrierNext ==
    \/ PublishOpen \/ PublishClose \/ Hear \/ Lapse
    \/ CloseProves \/ OpenProves \/ RequestFails \/ Forget

BarrierSpec == BarrierInit /\ [][BarrierNext]_barrierVars
=============================================================================
