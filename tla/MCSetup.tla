------------------------------ MODULE MCSetup ------------------------------
(* The three protocols of the config entry, explored one at a time: nothing   *)
(* of them is shared, so a behaviour belongs to the part chosen at the start, *)
(* and the other two stay where they begin.                                   *)
EXTENDS EntryLifecycle, RoomBootstrap, SetupManager

VARIABLE part

setupVars == <<lifecycleVars, bootstrapVars, managerVars, part>>

MCInit ==
    /\ LifecycleInit /\ BootstrapInit /\ ManagerInit
    /\ part \in {"lifecycle", "bootstrap", "manager"}
    /\ part # "bootstrap" => registry = [x \in Entities |-> NoDevice]

MCNext ==
    /\ UNCHANGED part
    /\ \/ part = "lifecycle" /\ LifecycleNext /\ UNCHANGED <<bootstrapVars, managerVars>>
       \/ part = "bootstrap" /\ BootstrapNext /\ UNCHANGED <<lifecycleVars, managerVars>>
       \/ part = "manager"   /\ ManagerNext /\ UNCHANGED <<lifecycleVars, bootstrapVars>>

MCSpec == MCInit /\ [][MCNext]_setupVars /\ (part = "lifecycle" => LifecycleFairness)

\* The types of the three protocols; no open journal is out of reach, and no two
\* rooms are bound to one valve.
SetupInvariant ==
    LifecycleTypeOK /\ OpenJournalIsReachable /\ BootstrapTypeOK /\ ManagerTypeOK
=============================================================================
