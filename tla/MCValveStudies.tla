--------------------------- MODULE MCValveStudies ---------------------------
(* The safety of valve replacement in four studies, each with the inputs it is  *)
(* about.                                                                       *)
EXTENDS MCValveReplacement

VARIABLE study

mcVars == <<vars, study>>

\* The bounds of each study
Bound ==
    [pairing |-> [ops |-> 1, events |-> 2, callbacks |-> 1, calls |-> 0, restarts |-> 0],
     switch  |-> [ops |-> 2, events |-> 2, callbacks |-> 0, calls |-> 1, restarts |-> 0],
     claims  |-> [ops |-> 1, events |-> 2, callbacks |-> 0, calls |-> 0, restarts |-> 0],
     restart |-> [ops |-> 1, events |-> 2, callbacks |-> 0, calls |-> 0, restarts |-> 1]]

\* Only a room that was replaced once meets a third valve, and only valves that join and
\* are interviewed: the other events are those of the pairing study.
Within ==
    /\ \A input \in DOMAIN Bound[study] : count[input] <= Bound[study][input]
    /\ \A i \in 1 .. Len(events) :
           IF study = "claims" THEN events[i].good /\ events[i].type # "device_announce"
           ELSE events[i].valve # v3

MCInit ==
    /\ Init
    /\ study \in DOMAIN Bound
    /\ rooms = IF study = "claims" THEN Replaced ELSE Bootstrapped
MCNext == Next /\ UNCHANGED study /\ Within'
MCSpec == MCInit /\ [][MCNext]_mcVars
=============================================================================
