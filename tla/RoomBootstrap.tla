---------------------------- MODULE RoomBootstrap ----------------------------
(***************************************************************************)
(* The one-time bootstrap of the rooms: the administrator assigns a        *)
(* climate entity to every room, is shown what the registries say of them, *)
(* and confirms it with a token, while the registries change and the entry *)
(* is loaded, used and unloaded in between.  Planning and committing never *)
(* await, so each is one step.  The registry evidence of an entity is its  *)
(* device; an entity that is missing, disabled, of another model or without*)
(* a plausible state has none.                                             *)
(***************************************************************************)
EXTENDS Naturals

CONSTANTS
    Rooms, Entities, Devices,
    NoDevice,  \* no device: no acceptable evidence, or an unbound room
    MaxOffers, \* bound: tokens issued
    MaxChanges \* bound: registry changes and rooms bound by replacement

ASSUME BootstrapAssumption ==
    /\ NoDevice \notin Devices
    /\ MaxOffers \in Nat /\ MaxChanges \in Nat

VARIABLES
    registry, \* [Entities -> Devices \cup {NoDevice}]
    rooms,    \* [loaded, record, bound]: record is the committed evidence
    plan,     \* the coordinator's plan of the entry
    offers,   \* how many tokens were issued
    offer,    \* the manager's: the newest token and its plan
    shown,    \* history: the evidence each token was issued with
    confirmed,\* history: the evidence the confirmed token was issued with
    changes

bootstrapVars == <<registry, rooms, plan, offers, offer, shown, confirmed, changes>>

Unbound == [r \in Rooms |-> NoDevice]
NoEvidence == [r \in Rooms |-> [entity |-> NoDevice, device |-> NoDevice]]
NoBootstrap == [evidence |-> NoEvidence, bound |-> Unbound]

\* snapshot_home_assistant and resolve_bootstrap
Evidence(selection) == [r \in Rooms |-> [entity |-> selection[r], device |-> registry[selection[r]]]]

Resolves(evidence) ==
    \A r, s \in Rooms :
        /\ evidence[r].device # NoDevice
        /\ r # s => evidence[r].entity # evidence[s].entity /\ evidence[r].device # evidence[s].device

Bootstrapped == rooms.record # NoEvidence
Ready == ~rooms.loaded /\ ~Bootstrapped

BootstrapInit ==
    /\ registry \in [Entities -> Devices \cup {NoDevice}]
    /\ rooms = [loaded |-> FALSE, record |-> NoEvidence, bound |-> Unbound]
    /\ plan = NoBootstrap /\ offers = 0 /\ offer = [id |-> 0, plan |-> NoBootstrap]
    /\ shown = [t \in 1 .. MaxOffers |-> NoEvidence] /\ confirmed = NoEvidence
    /\ changes = 0

\* The coordinator's plan binds the evidence to the entry's data.
NewPlan(selection) == [evidence |-> Evidence(selection), bound |-> rooms.bound]

\* async_plan_bootstrap: the newest plan replaces the coordinator's, the
\* newest token the manager's
PlanBootstrap(selection) ==
    LET new == NewPlan(selection)
    IN  /\ Ready /\ offers < MaxOffers
        /\ Resolves(Evidence(selection))
        /\ plan' = new
        /\ offers' = offers + 1
        /\ offer' = [id |-> offers + 1, plan |-> new]
        /\ shown' = [shown EXCEPT ![offers + 1] = Evidence(selection)]
        /\ UNCHANGED <<registry, rooms, confirmed, changes>>

\* The plan must still be the coordinator's, of the same entry data, and of
\* registries that say what they said.
\* Mutant: the evidence is not compared with the plan's.
StillHoldsForEntry(now) ==
    /\ plan = offer.plan
    /\ rooms.bound = plan.bound
    /\ Resolves(now)
StillHolds(now) ==
    /\ plan = offer.plan
    /\ rooms.bound = plan.bound
    /\ Resolves(now) /\ now = plan.evidence

NothingBound == rooms.bound = Unbound

\* Record and rooms are written in one update of the entry.
Mapped(now) == [rooms EXCEPT !.record = now, !.bound = [r \in Rooms |-> now[r].device]]

CommitBootstrap(t) ==
    LET now == Evidence([r \in Rooms |-> plan.evidence[r].entity])
    IN  /\ Ready
        /\ t = offer.id /\ offer.plan # NoBootstrap
        /\ offer' = [id |-> 0, plan |-> NoBootstrap]
        /\ IF plan # NoBootstrap /\ StillHolds(now) /\ NothingBound
           THEN /\ rooms' = Mapped(now)
                /\ confirmed' = shown[t]
                /\ plan' = NoBootstrap
           ELSE UNCHANGED <<rooms, confirmed, plan>>
        /\ UNCHANGED <<registry, offers, shown, changes>>

\* The manager and its tokens are lost with the process; so is the plan.
ProcessRestarts ==
    /\ plan' = NoBootstrap /\ offer' = [id |-> 0, plan |-> NoBootstrap]
    /\ rooms' = [rooms EXCEPT !.loaded = FALSE]
    /\ UNCHANGED <<registry, offers, shown, confirmed, changes>>

LoadOrUnload ==
    /\ rooms' = [rooms EXCEPT !.loaded = ~@]
    /\ UNCHANGED <<registry, plan, offers, offer, shown, confirmed, changes>>

RegistryChanges ==
    /\ changes < MaxChanges /\ changes' = changes + 1
    /\ \E x \in Entities, d \in Devices \cup {NoDevice} :
        registry[x] # d /\ registry' = [registry EXCEPT ![x] = d]
    /\ UNCHANGED <<rooms, plan, offers, offer, shown, confirmed>>

\* A replacement binds another valve to a room of the loaded entry.
RoomReplaced ==
    /\ changes < MaxChanges /\ changes' = changes + 1
    /\ rooms.loaded
    /\ \E r \in Rooms, d \in Devices :
        /\ \A s \in Rooms : rooms.bound[s] # d
        /\ rooms' = [rooms EXCEPT !.bound[r] = d]
    /\ UNCHANGED <<registry, plan, offers, offer, shown, confirmed>>

BootstrapNext ==
    \/ \E selection \in [Rooms -> Entities] : PlanBootstrap(selection)
    \/ \E t \in 1 .. MaxOffers : CommitBootstrap(t)
    \/ ProcessRestarts \/ LoadOrUnload \/ RegistryChanges \/ RoomReplaced

BootstrapSpec == BootstrapInit /\ [][BootstrapNext]_bootstrapVars

(***************************************************************************)
(* Properties                                                              *)
(***************************************************************************)

\* The type of the state, and that no two rooms are ever bound to one valve.
BootstrapTypeOK ==
    LET Records == [Rooms -> [entity : Entities \cup {NoDevice}, device : Devices \cup {NoDevice}]]
        Offered == [evidence : Records, bound : [Rooms -> Devices \cup {NoDevice}]]
    IN  /\ registry \in [Entities -> Devices \cup {NoDevice}]
        /\ rooms \in [loaded : BOOLEAN, record : Records, bound : [Rooms -> Devices \cup {NoDevice}]]
        /\ plan \in Offered /\ offers \in 0 .. MaxOffers
        /\ offer \in [id : 0 .. MaxOffers, plan : Offered]
        /\ shown \in [1 .. MaxOffers -> Records] /\ confirmed \in Records
        /\ changes \in 0 .. MaxChanges
        /\ \A r, s \in Rooms :
            r # s /\ rooms.bound[r] # NoDevice => rooms.bound[r] # rooms.bound[s]

\* What is committed is what the administrator was shown and confirmed, and
\* what the registries say at that moment; and it takes no room from a valve
\* that a replacement bound meanwhile.
ConfirmedIsCommitted ==
    [][rooms'.record # rooms.record =>
        /\ rooms'.record = confirmed'
        /\ \A r \in Rooms : /\ rooms'.record[r].device = registry[rooms'.record[r].entity]
                            /\ rooms.bound[r] = NoDevice]_bootstrapVars
=============================================================================
