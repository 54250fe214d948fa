------------------------------- MODULE MCZigbee -------------------------------
(* The two things the program asks of Zigbee2MQTT, side by side: permit-join     *)
(* barriers and the physical probe.  They share no state, so a run takes one.    *)
EXTENDS PermitJoin, PhysicalProbe

VARIABLE part

mcVars == <<vars, probeVars, part>>

\* Time passes for the probe while it works and while it is down: what remains of it when a
\* stop or a remediation begins is taken not to change before the process ends.
ProbeWithin == ProbeStep \/ (TimePasses /\ ~core.rem /\ ~core.stopping)

MCInit ==
    /\ Init /\ ProbeInit
    /\ part \in {"join", "probe"} /\ (part = "probe" => join = None)
MCNext ==
    \/ part = "join" /\ Next /\ UNCHANGED <<probeVars, part>>
    \/ part = "probe" /\ ProbeWithin /\ UNCHANGED <<vars, part>>
MCSpec == MCInit /\ [][MCNext]_mcVars
=============================================================================
