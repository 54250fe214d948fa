----------------------------- MODULE SetupProofs -----------------------------
(***************************************************************************)
(* Proofs about the three protocols of the config entry: the bootstrap of  *)
(* the rooms, the migrations of the setup manager, and the lifecycle of    *)
(* the entry, for any rooms, valves and plans and any number of steps.     *)
(***************************************************************************)
EXTENDS MCSetup, FiniteSetTheorems, TLAPS

-----------------------------------------------------------------------------
(* The bootstrap of the rooms. *)

\* What a token was issued for is what was shown with it.
OfferIsShown ==
    offer.plan # NoBootstrap =>
        offer.id \in 1 .. MaxOffers /\ shown[offer.id] = offer.plan.evidence

BootstrapInv == BootstrapTypeOK /\ OfferIsShown

Records == [Rooms -> [entity : Entities \cup {NoDevice}, device : Devices \cup {NoDevice}]]
Offered == [evidence : Records, bound : [Rooms -> Devices \cup {NoDevice}]]
RoomsType == [loaded : BOOLEAN, record : Records, bound : [Rooms -> Devices \cup {NoDevice}]]

\* Whatever is selected, its evidence is a record of the rooms.
LEMMA EvidenceType ==
    ASSUME BootstrapTypeOK, NEW selection \in [Rooms -> Entities]
    PROVE  /\ Evidence(selection) \in Records
           /\ NewPlan(selection) \in Offered
  BY DEF BootstrapTypeOK, Evidence, NewPlan, Records, Offered

\* What a journal without evidence holds has the types of one with it.
LEMMA NoBootstrapType ==
    /\ NoEvidence \in Records /\ NoBootstrap \in Offered
    /\ Unbound \in [Rooms -> Devices \cup {NoDevice}]
  BY DEF NoEvidence, NoBootstrap, Unbound, Records, Offered

\* A bootstrap that commits writes the evidence the plan was made of, which is
\* what the registries say now and what was shown with the token.
LEMMA CommitWritesTheOffer ==
    ASSUME BootstrapInv, NEW t \in 1 .. MaxOffers, CommitBootstrap(t),
           rooms' # rooms
    PROVE  LET now == Evidence([r \in Rooms |-> plan.evidence[r].entity])
           IN  /\ now = plan.evidence /\ now \in Records
               /\ Resolves(now)
               /\ rooms.bound = Unbound
               /\ rooms'.record = now
               /\ rooms'.bound = [r \in Rooms |-> now[r].device]
               /\ rooms' \in RoomsType
               /\ confirmed' = now
               /\ plan' = NoBootstrap
  <1> DEFINE now == Evidence([r \in Rooms |-> plan.evidence[r].entity])
  <1>1. /\ t = offer.id /\ offer.plan # NoBootstrap
        /\ StillHolds(now) /\ NothingBound
        /\ rooms' = Mapped(now) /\ confirmed' = shown[t] /\ plan' = NoBootstrap
    BY DEF CommitBootstrap
  <1>2. now = plan.evidence /\ plan = offer.plan /\ Resolves(now)
    BY <1>1 DEF StillHolds
  <1>3. plan.evidence \in Records
    BY DEF BootstrapInv, BootstrapTypeOK, Records
  <1> DEFINE given == [r \in Rooms |-> now[r].device]
  <1>4. /\ rooms \in RoomsType /\ now \in Records
        /\ given \in [Rooms -> Devices \cup {NoDevice}]
        /\ rooms' = [rooms EXCEPT !.record = now, !.bound = given]
        /\ confirmed' = now /\ rooms.bound = Unbound
    BY <1>1, <1>2, <1>3 DEF BootstrapInv, BootstrapTypeOK, OfferIsShown, NothingBound, Mapped,
                            RoomsType, Records
  <1> HIDE DEF now, given
  <1>5. rooms'.record = now /\ rooms'.bound = given /\ rooms' \in RoomsType
    BY <1>4 DEF RoomsType
  <1>6. QED
    BY <1>1, <1>2, <1>4, <1>5, Zenon DEF now, given

\* A replacement binds a valve that no room is bound to, and the bootstrap distinct ones.
LEMMA BootstrapStep == BootstrapInv /\ [BootstrapNext]_bootstrapVars => BootstrapInv'
  <1> SUFFICES ASSUME BootstrapInv, [BootstrapNext]_bootstrapVars
               PROVE  BootstrapInv'
    OBVIOUS
  <1> USE BootstrapAssumption
  <1>1. ASSUME NEW selection \in [Rooms -> Entities], PlanBootstrap(selection)
        PROVE  BootstrapInv'
    <2> DEFINE new == NewPlan(selection)
    <2>1. /\ new \in Offered /\ Evidence(selection) \in Records
          /\ new.evidence = Evidence(selection)
      BY EvidenceType DEF BootstrapInv, NewPlan
    <2>2. /\ offers \in 0 .. MaxOffers /\ offers < MaxOffers
          /\ plan' = new /\ offers' = offers + 1
          /\ offer' = [id |-> offers + 1, plan |-> new]
          /\ shown' = [shown EXCEPT ![offers + 1] = Evidence(selection)]
          /\ UNCHANGED <<registry, rooms, confirmed, changes>>
      BY <1>1 DEF PlanBootstrap, BootstrapInv, BootstrapTypeOK
    <2>3. BootstrapTypeOK'
      BY <2>1, <2>2 DEF BootstrapInv, BootstrapTypeOK, Records, Offered
    <2>4. OfferIsShown'
      BY <2>1, <2>2 DEF BootstrapInv, BootstrapTypeOK, OfferIsShown
    <2>5. QED
      BY <2>3, <2>4 DEF BootstrapInv
  <1>2. ASSUME NEW t \in 1 .. MaxOffers, CommitBootstrap(t)
        PROVE  BootstrapInv'
    <2>1. /\ offer' = [id |-> 0, plan |-> NoBootstrap]
          /\ UNCHANGED <<registry, offers, shown, changes>>
      BY <1>2 DEF CommitBootstrap
    <2>2. OfferIsShown'
      BY <2>1 DEF OfferIsShown, NoBootstrap, NoEvidence, Unbound
    <2>3. CASE rooms' = rooms
      <3>1. plan' \in {plan, NoBootstrap} /\ confirmed' \in {confirmed, shown[t]}
        BY <1>2 DEF CommitBootstrap
      <3>2. BootstrapTypeOK'
        BY <2>1, <2>3, <3>1, NoBootstrapType DEF BootstrapInv, BootstrapTypeOK, Records, Offered
      <3>3. QED
        BY <2>2, <3>2 DEF BootstrapInv
    <2>4. CASE rooms' # rooms
      <3> DEFINE now == Evidence([r \in Rooms |-> plan.evidence[r].entity])
                 given == [r \in Rooms |-> now[r].device]
      <3>1. /\ now \in Records /\ Resolves(now)
            /\ rooms' \in RoomsType /\ rooms'.bound = given
            /\ confirmed' = now /\ plan' = NoBootstrap
        BY <1>2, <2>4, CommitWritesTheOffer
      <3>2. /\ given \in [Rooms -> Devices \cup {NoDevice}]
            /\ \A r, s \in Rooms : r # s => given[r] # given[s]
        BY <3>1 DEF Records, Resolves
      <3> HIDE DEF now, given
      <3>3. BootstrapTypeOK'
        BY <2>1, <3>1, <3>2, NoBootstrapType
        DEF BootstrapInv, BootstrapTypeOK, Records, Offered, RoomsType
      <3>4. QED
        BY <2>2, <3>3 DEF BootstrapInv
    <2>5. QED
      BY <2>3, <2>4
  <1>3. CASE ProcessRestarts
    <2>1. rooms' \in RoomsType /\ rooms'.bound = rooms.bound
      BY <1>3 DEF ProcessRestarts, BootstrapInv, BootstrapTypeOK, Records, RoomsType
    <2> DEFINE none == NoBootstrap
    <2>2. /\ plan' = none /\ none \in Offered
          /\ offer' = [id |-> 0, plan |-> none]
          /\ UNCHANGED <<registry, offers, shown, confirmed, changes>>
      BY <1>3, NoBootstrapType DEF ProcessRestarts
    <2> HIDE DEF none
    <2>3. BootstrapTypeOK'
      BY <2>1, <2>2 DEF BootstrapInv, BootstrapTypeOK, Records, Offered, RoomsType
    <2>4. OfferIsShown'
      BY <1>3 DEF ProcessRestarts, OfferIsShown, NoBootstrap, NoEvidence, Unbound
    <2>5. QED
      BY <2>3, <2>4 DEF BootstrapInv
  <1>4. CASE LoadOrUnload
    BY <1>4 DEF LoadOrUnload, BootstrapInv, BootstrapTypeOK, OfferIsShown, NoBootstrap, NoEvidence, Unbound
  <1>5. CASE RegistryChanges
    BY <1>5 DEF RegistryChanges, BootstrapInv, BootstrapTypeOK, OfferIsShown, NoBootstrap, NoEvidence, Unbound
  <1>6. CASE RoomReplaced
    <2>1. PICK r \in Rooms, d \in Devices :
             /\ \A s \in Rooms : rooms.bound[s] # d
             /\ rooms' = [rooms EXCEPT !.bound[r] = d]
      BY <1>6 DEF RoomReplaced
    <2>2. /\ changes < MaxChanges /\ changes' = changes + 1
          /\ UNCHANGED <<registry, plan, offers, offer, shown, confirmed>>
      BY <1>6 DEF RoomReplaced
    <2>3. rooms' = [rooms EXCEPT !.bound = [@ EXCEPT ![r] = d]]
      BY <2>1
    <2>4. /\ rooms' \in RoomsType
          /\ rooms'.bound = [rooms.bound EXCEPT ![r] = d]
      BY <2>3 DEF BootstrapInv, BootstrapTypeOK, RoomsType, Records
    <2>5. \A x, y \in Rooms :
             x # y /\ rooms'.bound[x] # NoDevice => rooms'.bound[x] # rooms'.bound[y]
      <3>1. rooms.bound \in [Rooms -> Devices \cup {NoDevice}]
        BY DEF BootstrapInv, BootstrapTypeOK
      <3>2. \A x \in Rooms : rooms'.bound[x] = IF x = r THEN d ELSE rooms.bound[x]
        BY <2>4, <3>1
      <3>3. QED
        BY <2>1, <3>2 DEF BootstrapInv, BootstrapTypeOK
    <2>6. BootstrapTypeOK'
      BY <2>2, <2>4, <2>5 DEF BootstrapInv, BootstrapTypeOK, RoomsType, Records
    <2>7. QED
      BY <2>2, <2>6 DEF BootstrapInv, OfferIsShown, NoBootstrap, NoEvidence, Unbound
  <1>7. CASE UNCHANGED bootstrapVars
    BY <1>7 DEF bootstrapVars, BootstrapInv, BootstrapTypeOK, OfferIsShown, NoBootstrap, NoEvidence, Unbound
  <1>8. QED
    BY <1>1, <1>2, <1>3, <1>4, <1>5, <1>6, <1>7 DEF BootstrapNext

\* The entry starts with nothing offered and nothing bound.
LEMMA BootstrapStarts == BootstrapInit => BootstrapInv
  BY BootstrapAssumption, NoBootstrapType
  DEF BootstrapInit, BootstrapInv, BootstrapTypeOK, OfferIsShown, Records, Offered, Unbound

\* Type correctness of the bootstrap, no two rooms on one valve, and tokens that stand for
\* what was shown with them.
THEOREM BootstrapInvariant == BootstrapSpec => []BootstrapInv
  BY BootstrapStarts, BootstrapStep, PTL DEF BootstrapSpec

\* The rooms are bound to what the administrator confirmed, and to what the registries say
\* at that moment, and never over a valve that a replacement bound.
THEOREM BootstrapCommitsWhatWasConfirmed == BootstrapSpec => ConfirmedIsCommitted
  <1> DEFINE Confirmed ==
        rooms'.record # rooms.record =>
            /\ rooms'.record = confirmed'
            /\ \A r \in Rooms : /\ rooms'.record[r].device = registry[rooms'.record[r].entity]
                                /\ rooms.bound[r] = NoDevice
  <1>1. BootstrapInv /\ [BootstrapNext]_bootstrapVars => [Confirmed]_bootstrapVars
    <2> SUFFICES ASSUME BootstrapInv, BootstrapNext, rooms'.record # rooms.record
                 PROVE  Confirmed
      BY DEF bootstrapVars
    <2>1. rooms' # rooms
      OBVIOUS
    <2>2. PICK t \in 1 .. MaxOffers : CommitBootstrap(t)
      <3>1. ASSUME NEW selection \in [Rooms -> Entities], PlanBootstrap(selection)  PROVE FALSE
        BY <2>1, <3>1 DEF PlanBootstrap
      <3>2. ASSUME ProcessRestarts \/ LoadOrUnload \/ RegistryChanges \/ RoomReplaced  PROVE FALSE
        BY <3>2 DEF ProcessRestarts, LoadOrUnload, RegistryChanges, RoomReplaced, BootstrapInv, BootstrapTypeOK
      <3>3. QED
        BY <3>1, <3>2 DEF BootstrapNext
    <2> DEFINE now == Evidence([r \in Rooms |-> plan.evidence[r].entity])
    <2>3. /\ now = plan.evidence /\ now \in Records
          /\ rooms.bound = Unbound
          /\ rooms'.record = now /\ confirmed' = now
      BY <2>1, <2>2, CommitWritesTheOffer
    <2>4. \A r \in Rooms : now[r].device = registry[now[r].entity]
      BY <2>3 DEF Evidence
    <2>5. QED
      BY <2>3, <2>4 DEF Unbound
  <1>2. QED
    BY <1>1, BootstrapInvariant, PTL DEF BootstrapSpec, ConfirmedIsCommitted

-----------------------------------------------------------------------------
(* The migrations of the setup manager. *)

OpType ==
    [kind : {"none", "plan", "status", "commit", "recover"},
     step : {"idle", "refresh", "make", "issue", "ready", "bind", "run", "failed", "outcome", "confirm"},
     plan : Plans \cup {NoPlan}, revision : 0 .. MaxRevision,
     result : {"none", "complete", "restored"}, stale : BOOLEAN]
TokenType ==
    [id : 0 .. MaxTokens, plan : Plans \cup {NoPlan}, revision : 0 .. MaxRevision,
     runtime : 0 .. MaxReloads]

RoomType == [loaded : BOOLEAN, runtime : 1 .. MaxReloads, revision : 0 .. MaxRevision]

ManagerTypes ==
    /\ room \in RoomType
    /\ bound \in BOOLEAN
    /\ outcome \in [Plans -> Outcomes] /\ planned \in [Plans -> 0 .. Unplanned]
    /\ op \in OpType /\ token \in TokenType /\ tokens \in 0 .. MaxTokens
    /\ recovery \subseteq Plans /\ unchecked \in BOOLEAN
    /\ reported \in [Plans -> {"nothing", "complete", "recovered"}]

\* A token stands for a plan made at its revision, and only that plan may be unfinished.
TokenStands ==
    /\ token # NoToken =>
        /\ token.plan \in Plans
        /\ planned[token.plan] = token.revision
        /\ Incomplete \subseteq {token.plan}
    /\ \E p \in Plans \cup {NoPlan} : Incomplete \subseteq {p}

\* A plan is made over nothing unfinished.
PlanningOverNothing ==
    op.kind = "plan" /\ op.step \in {"make", "issue"} =>
        /\ Incomplete = {}
        /\ op.step = "issue" => op.plan \in Plans /\ planned[op.plan] = op.revision

\* What is executed is the plan of the newest token.
CommittingTheToken ==
    op.kind = "commit" =>
        /\ op.plan \in Plans /\ token # NoToken /\ token.plan = op.plan
        /\ op.step = "outcome" => op.result = "complete"

\* What is recovered is the unfinished plan, until the Store holds its end.
RecoveringTheUnfinished ==
    op.kind = "recover" =>
        /\ op.plan \in Plans
        /\ op.step \in {"ready", "run"} => Incomplete = {op.plan}
        /\ op.step \in {"outcome", "confirm"} =>
            Incomplete \subseteq {op.plan} /\ op.result \in {"complete", "restored"}
        /\ op.step = "confirm" => outcome[op.plan] \in {"complete", "failed"}

ManagerInv ==
    /\ ManagerTypes /\ TokenStands
    /\ PlanningOverNothing /\ CommittingTheToken /\ RecoveringTheUnfinished

\* Having no operation, and no token, has the types of having one.
LEMMA IdleType == Idle \in OpType /\ Idle.kind = "none" /\ NoToken \in TokenType
  BY ManagerAssumption DEF Idle, OpType, NoToken, TokenType

\* What an operation that begins, or goes on to a step, leaves in op.
LEMMA BeginOp ==
    ASSUME ManagerTypes, NEW kind \in {"plan", "commit", "recover"}, NEW p \in Plans \cup {NoPlan},
           NEW step \in {"refresh", "ready"}, Begin(kind, p, step)
    PROVE  /\ op' \in OpType /\ op'.kind = kind /\ op'.plan = p /\ op'.step = step
           /\ op'.revision = room.revision
  BY DEF ManagerTypes, Begin, Idle, OpType, RoomType

\* The next step of an operation leaves the rest of it alone.
LEMMA ToOp ==
    ASSUME op \in OpType,
           NEW step \in {"make", "issue", "ready", "bind", "run", "failed", "outcome", "confirm"},
           To(step)
    PROVE  /\ op' \in OpType /\ op'.step = step
           /\ op'.kind = op.kind /\ op'.plan = op.plan /\ op'.revision = op.revision
           /\ op'.result = op.result
  BY DEF To, OpType

\* A step that changes no plan, no outcome and no token, and ends the operation or
\* leaves it alone, keeps the invariant.
LEMMA OnlyAround ==
    ASSUME ManagerInv, ManagerTypes', UNCHANGED <<outcome, planned>>,
           token' \in {token, NoToken}, op' = Idle \/ (op' = op /\ token' = token)
    PROVE  ManagerInv'
  BY IdleType DEF ManagerInv, TokenStands, PlanningOverNothing, CommittingTheToken,
     RecoveringTheUnfinished, Incomplete

\* What raising the revision, unloading, loading and restarting leave of the room.
LEMMA RoomSteps ==
    ASSUME room \in RoomType, RevisionRaised \/ Unload \/ Load \/ Restart
    PROVE  room' \in RoomType
  <1> USE ManagerAssumption
  <1>0. room.revision \in 0 .. MaxRevision /\ room.runtime \in 1 .. MaxReloads
    BY DEF RoomType
  <1>1. CASE Unload
    BY <1>1 DEF Unload, RoomType
  <1>3. CASE RevisionRaised
    <2>1. room.revision + 1 \in 0 .. MaxRevision
      BY <1>0, <1>3 DEF RevisionRaised
    <2>2. QED
      BY <1>3, <2>1 DEF RevisionRaised, RoomType
  <1>2. CASE Load \/ Restart
    <2>1. room.runtime + 1 \in 1 .. MaxReloads
      BY <1>0, <1>2 DEF Load, Restart
    <2>2. QED
      BY <1>2, <2>1 DEF Load, Restart, RoomType
  <1>4. QED
    BY <1>1, <1>2, <1>3

\* Ending one plan's work makes no other plan unfinished.
LEMMA NotIncomplete ==
    ASSUME ManagerTypes, NEW p \in Plans, NEW e \in Outcomes, outcome' = [outcome EXCEPT ![p] = e]
    PROVE  /\ outcome'[p] = e
           /\ Incomplete' \subseteq Incomplete \cup {p}
           /\ e # "incomplete" => p \notin Incomplete'
  BY DEF ManagerTypes, Incomplete

\* Nothing is planned, nothing unfinished, and no token issued at the start.
LEMMA ManagerStarts == ASSUME ManagerInit PROVE ManagerInv
  <1>1. room \in RoomType
    BY ManagerAssumption DEF ManagerInit, RoomType
  <1>2. ManagerTypes
    <2>1. Unplanned \in 0 .. Unplanned
      BY ManagerAssumption DEF Unplanned
    <2>2. 0 \in 0 .. MaxTokens
      BY ManagerAssumption
    <2>3. QED
      BY <1>1, <2>1, <2>2, IdleType DEF ManagerInit, ManagerTypes, Outcomes
  <1>3. Incomplete = {}
    BY DEF ManagerInit, Incomplete
  <1>4. op.kind = "none" /\ token = NoToken
    BY IdleType DEF ManagerInit
  <1>5. QED
    BY <1>2, <1>3, <1>4 DEF ManagerInv, TokenStands, PlanningOverNothing, CommittingTheToken,
       RecoveringTheUnfinished

\* Every step of the setup manager and its requests keeps the invariant.
LEMMA ManagerStep == ManagerInv /\ [ManagerNext]_managerVars => ManagerInv'
  <1> SUFFICES ASSUME ManagerInv, [ManagerNext]_managerVars
               PROVE  ManagerInv'
    OBVIOUS
  <1> USE ManagerAssumption
  <1>0. ManagerTypes
    BY DEF ManagerInv
  <1>1. ASSUME NEW revision \in 0 .. MaxRevision, PlanMigration(revision)
        PROVE  ManagerInv'
    <2>1. /\ op' \in OpType /\ op'.kind = "plan" /\ op'.step = "refresh"
          /\ UNCHANGED <<room, bound, outcome, planned, token, tokens, recovery, unchecked, reported>>
      BY <1>0, <1>1, BeginOp DEF PlanMigration
    <2>2. QED
      BY <2>1 DEF ManagerInv, ManagerTypes, TokenStands, PlanningOverNothing, CommittingTheToken,
         RecoveringTheUnfinished, Incomplete
  <1>2. CASE Status
    <2>1. /\ op' \in OpType /\ op'.kind = "status" /\ op'.step = "refresh"
          /\ UNCHANGED <<room, bound, outcome, planned, token, tokens, recovery, unchecked, reported>>
      BY <1>2, IdleType DEF Status, Idle, OpType
    <2>2. QED
      BY <2>1 DEF ManagerInv, ManagerTypes, TokenStands, PlanningOverNothing, CommittingTheToken,
         RecoveringTheUnfinished, Incomplete
  <1>3. CASE PlanRefreshed
    <2>1. /\ recovery' \subseteq Plans /\ unchecked' \in BOOLEAN
          /\ UNCHANGED <<room, bound, outcome, planned, token, tokens, reported>>
      BY <1>0, <1>3 DEF PlanRefreshed, Refreshed, Incomplete, ManagerTypes
    <2>2. CASE End
      <3>1. ManagerTypes'
        BY <1>0, <2>1, <2>2, IdleType DEF ManagerTypes, End
      <3>2. QED
        BY <2>1, <2>2, <3>1, OnlyAround DEF End
    <2>3. CASE op.kind # "status" /\ ~RecoveryRequired
      <3>1. Incomplete = {} /\ To("make") /\ op.kind = "plan"
        BY <1>3, <2>3 DEF PlanRefreshed, Refreshed, RecoveryRequired
      <3>2. op' \in OpType /\ op'.kind = "plan" /\ op'.step = "make"
        BY <1>0, <3>1, ToOp DEF ManagerTypes
      <3>3. QED
        BY <2>1, <3>1, <3>2 DEF ManagerInv, ManagerTypes, TokenStands, PlanningOverNothing,
           CommittingTheToken, RecoveringTheUnfinished, Incomplete
    <2>4. QED
      BY <1>3, <2>2, <2>3 DEF PlanRefreshed
  <1>4. CASE MakePlan
    <2>1. UNCHANGED <<room, bound, outcome, token, tokens, recovery, unchecked, reported>>
      BY <1>4 DEF MakePlan
    <2>2. CASE End /\ UNCHANGED planned
      <3>1. ManagerTypes'
        BY <1>0, <2>1, <2>2, IdleType DEF ManagerTypes, End
      <3>2. QED
        BY <2>1, <2>2, <3>1, OnlyAround DEF End
    <2>3. ASSUME NEW p \in Plans, planned[p] \in {Unplanned, room.revision},
                 planned' = [planned EXCEPT ![p] = room.revision],
                 op' = IF PlannedFor(room.revision)
                       THEN [op EXCEPT !.step = "issue", !.plan = p] ELSE Idle
          PROVE  ManagerInv'
      <3>1. op.kind = "plan" /\ op.step = "make" /\ Incomplete = {}
        BY <1>4 DEF MakePlan, ManagerInv, PlanningOverNothing
      <3>2. /\ planned' \in [Plans -> 0 .. Unplanned] /\ planned'[p] = room.revision
            /\ \A q \in Plans : planned[q] # Unplanned => planned'[q] = planned[q]
        BY <1>0, <2>3 DEF ManagerTypes, Unplanned, RoomType
      <3>3. CASE op' = [op EXCEPT !.step = "issue", !.plan = p] /\ room.revision = op.revision
        <4>1. /\ op' \in OpType /\ op'.kind = "plan" /\ op'.step = "issue" /\ op'.plan = p
              /\ op'.revision = room.revision
          BY <1>0, <3>1, <3>3 DEF ManagerTypes, OpType
        <4>2. token \in TokenType /\ token.revision # Unplanned
          BY <1>0 DEF ManagerTypes, TokenType, Unplanned
        <4>3. QED
          BY <2>1, <3>1, <3>2, <4>1, <4>2 DEF ManagerInv, ManagerTypes, TokenStands,
             PlanningOverNothing, CommittingTheToken, RecoveringTheUnfinished, Incomplete
      <3>4. CASE op' = Idle
        <4>1. op' \in OpType /\ op'.kind = "none"
          BY <3>4, IdleType
        <4>2. token \in TokenType /\ token.revision # Unplanned
          BY <1>0 DEF ManagerTypes, TokenType, Unplanned
        <4>3. QED
          BY <2>1, <3>1, <3>2, <4>1, <4>2 DEF ManagerInv, ManagerTypes, TokenStands,
             PlanningOverNothing, CommittingTheToken, RecoveringTheUnfinished, Incomplete
      <3>5. QED
        BY <2>3, <3>3, <3>4 DEF PlannedFor
    <2>4. QED
      BY <1>4, <2>2, <2>3 DEF MakePlan
  <1>5. CASE IssueToken
    <2>1. /\ op.kind = "plan" /\ op.step = "issue" /\ op' = Idle
          /\ UNCHANGED <<room, bound, outcome, planned, recovery, unchecked, reported>>
      BY <1>5 DEF IssueToken, End
    <2>2. CASE token' \in {token, NoToken} /\ UNCHANGED tokens
      <3>1. ManagerTypes'
        BY <1>0, <2>1, <2>2, IdleType DEF ManagerTypes
      <3>2. QED
        BY <2>1, <2>2, <3>1, OnlyAround
    <2>3. CASE /\ tokens < MaxTokens /\ tokens' = tokens + 1
               /\ token' = [id |-> tokens + 1, plan |-> op.plan, revision |-> op.revision,
                            runtime |-> room.runtime]
      <3>1. /\ Incomplete = {} /\ op.plan \in Plans /\ planned[op.plan] = op.revision
            /\ op.revision \in 0 .. MaxRevision
        BY <1>0, <2>1 DEF ManagerInv, PlanningOverNothing, ManagerTypes, OpType
      <3>2. /\ tokens' \in 0 .. MaxTokens /\ token' \in TokenType
            /\ token'.plan = op.plan /\ token'.revision = op.revision
        BY <1>0, <2>3, <3>1 DEF ManagerTypes, TokenType, RoomType
      <3>3. op' \in OpType /\ op'.kind = "none"
        BY <2>1, IdleType
      <3>4. QED
        BY <2>1, <3>1, <3>2, <3>3 DEF ManagerInv, ManagerTypes, TokenStands,
           PlanningOverNothing, CommittingTheToken, RecoveringTheUnfinished, Incomplete
    <2>4. QED
      BY <1>5, <2>2, <2>3 DEF IssueToken
  <1>6. ASSUME NEW t \in 1 .. MaxTokens, CommitMigration(t)
        PROVE  ManagerInv'
    <2>1. UNCHANGED <<room, bound, outcome, planned, tokens, recovery, unchecked, reported>>
      BY <1>6 DEF CommitMigration
    <2>2. CASE token' = NoToken /\ op = Idle /\ op' = op
      <3>1. ManagerTypes'
        BY <1>0, <2>1, <2>2, IdleType DEF ManagerTypes
      <3>2. QED
        BY <2>1, <2>2, <3>1, OnlyAround
    <2>3. CASE Begin("commit", token.plan, "ready") /\ UNCHANGED token
      <3>1. token # NoToken /\ token.plan \in Plans
        BY <1>6 DEF CommitMigration, ManagerInv, TokenStands
      <3>2. op' \in OpType /\ op'.kind = "commit" /\ op'.step = "ready" /\ op'.plan = token.plan
        BY <1>0, <2>3, <3>1, BeginOp
      <3>3. QED
        BY <2>1, <2>3, <3>1, <3>2 DEF ManagerInv, ManagerTypes, TokenStands,
           PlanningOverNothing, CommittingTheToken, RecoveringTheUnfinished, Incomplete
    <2>4. QED
      BY <1>6, <2>2, <2>3 DEF CommitMigration
  <1>7. CASE RecheckCommit
    <2>1. /\ op.kind = "commit"
          /\ UNCHANGED <<room, bound, outcome, planned, tokens, recovery, unchecked, reported>>
      BY <1>7 DEF RecheckCommit
    <2>2. CASE End /\ token' \in {token, NoToken}
      <3>1. ManagerTypes'
        BY <1>0, <2>1, <2>2, IdleType DEF ManagerTypes, End
      <3>2. QED
        BY <2>1, <2>2, <3>1, OnlyAround DEF End
    <2>3. CASE To("bind") /\ UNCHANGED token
      <3>1. op' \in OpType /\ op'.kind = "commit" /\ op'.step = "bind" /\ op'.plan = op.plan
        BY <1>0, <2>1, <2>3, ToOp DEF ManagerTypes
      <3>2. QED
        BY <2>1, <2>3, <3>1 DEF ManagerInv, ManagerTypes, TokenStands,
           PlanningOverNothing, CommittingTheToken, RecoveringTheUnfinished, Incomplete
    <2>4. QED
      BY <1>7, <2>2, <2>3 DEF RecheckCommit
  <1>8. CASE StartCommit
    <2>1. /\ op.kind = "commit"
          /\ UNCHANGED <<room, bound, outcome, planned, token, tokens, recovery, unchecked, reported>>
      BY <1>8 DEF StartCommit
    <2>2. CASE End
      <3>1. ManagerTypes'
        BY <1>0, <2>1, <2>2, IdleType DEF ManagerTypes, End
      <3>2. QED
        BY <2>1, <2>2, <3>1, OnlyAround DEF End
    <2>3. CASE op' = [op EXCEPT !.step = "run", !.stale = ~(room.loaded /\ Current(token))]
      <3> DEFINE stale == ~(room.loaded /\ Current(token))
      <3>1. stale \in BOOLEAN /\ op' = [op EXCEPT !.step = "run", !.stale = stale]
        BY <2>3
      <3> HIDE DEF stale
      <3>2. op' \in OpType /\ op'.kind = "commit" /\ op'.step = "run" /\ op'.plan = op.plan
        BY <1>0, <2>1, <3>1 DEF ManagerTypes, OpType
      <3>3. QED
        BY <2>1, <3>2 DEF ManagerInv, ManagerTypes, TokenStands,
           PlanningOverNothing, CommittingTheToken, RecoveringTheUnfinished, Incomplete
    <2>4. QED
      BY <1>8, <2>2, <2>3 DEF StartCommit
  <1>9. CASE RunCommit
    <2>1. /\ op.kind = "commit" /\ op.plan \in Plans
          /\ token # NoToken /\ token.plan = op.plan
          /\ UNCHANGED <<room, bound, planned, token, tokens, recovery, unchecked, reported>>
      BY <1>9 DEF RunCommit, ManagerInv, CommittingTheToken
    <2>2. PICK effect \in Outcomes : outcome' = [outcome EXCEPT ![op.plan] = effect]
      BY <1>9 DEF RunCommit
    <2>3. outcome' \in [Plans -> Outcomes]
      BY <1>0, <2>2 DEF ManagerTypes
    <2>4. Incomplete' \subseteq {op.plan}
      BY <1>0, <2>1, <2>2, NotIncomplete DEF ManagerInv, TokenStands
    <2>5. /\ op' \in OpType /\ op'.kind = "commit" /\ op'.plan = op.plan
          /\ op'.step = "outcome" => op'.result = "complete"
      <3>1. CASE op' = [op EXCEPT !.step = "outcome", !.result = "complete"]
        BY <1>0, <2>1, <3>1 DEF ManagerTypes, OpType
      <3>2. CASE To("failed")
        BY <1>0, <2>1, <3>2, ToOp DEF ManagerTypes
      <3>3. QED
        BY <1>9, <3>1, <3>2 DEF RunCommit
    <2>6. QED
      BY <2>1, <2>3, <2>4, <2>5 DEF ManagerInv, ManagerTypes, TokenStands,
         PlanningOverNothing, CommittingTheToken, RecoveringTheUnfinished
  <1>10. CASE CommitFailed
    <2>1. /\ recovery' \subseteq Plans /\ unchecked' \in BOOLEAN /\ op' = Idle
          /\ UNCHANGED <<room, bound, outcome, planned, token, tokens, reported>>
      BY <1>0, <1>10 DEF CommitFailed, Refreshed, Incomplete, ManagerTypes, End
    <2>2. ManagerTypes'
      BY <1>0, <2>1, IdleType DEF ManagerTypes
    <2>3. QED
      BY <2>1, <2>2, OnlyAround
  <1>11. CASE ReportCommit
    <2>1. /\ op.plan \in Plans /\ op' = Idle /\ token' \in {token, NoToken}
          /\ reported' \in {reported, [reported EXCEPT ![op.plan] = "complete"]}
          /\ UNCHANGED <<room, bound, outcome, planned, tokens, recovery, unchecked>>
      BY <1>11 DEF ReportCommit, End, ManagerInv, CommittingTheToken
    <2>2. ManagerTypes'
      BY <1>0, <2>1, IdleType DEF ManagerTypes
    <2>3. QED
      BY <2>1, <2>2, OnlyAround
  <1>12. ASSUME NEW p \in recovery, RecoverMigration(p)
         PROVE  ManagerInv'
    <2>1. /\ p \in Plans
          /\ op' \in OpType /\ op'.kind = "recover" /\ op'.step = "refresh" /\ op'.plan = p
          /\ UNCHANGED <<room, bound, outcome, planned, token, tokens, recovery, unchecked, reported>>
      BY <1>0, <1>12, BeginOp DEF RecoverMigration, ManagerTypes
    <2>2. QED
      BY <2>1 DEF ManagerInv, ManagerTypes, TokenStands, PlanningOverNothing, CommittingTheToken,
         RecoveringTheUnfinished, Incomplete
  <1>13. CASE RecoveryRefreshed
    <2>1. /\ op.kind = "recover" /\ recovery' \subseteq Plans /\ unchecked' \in BOOLEAN
          /\ UNCHANGED <<room, bound, outcome, planned, token, tokens, reported>>
      BY <1>0, <1>13 DEF RecoveryRefreshed, Refreshed, Incomplete, ManagerTypes
    <2>2. CASE End
      <3>1. ManagerTypes'
        BY <1>0, <2>1, <2>2, IdleType DEF ManagerTypes, End
      <3>2. QED
        BY <2>1, <2>2, <3>1, OnlyAround DEF End
    <2>3. CASE ~unchecked' /\ op.plan \in recovery' /\ To("ready")
      <3>1. op.plan \in Incomplete
        BY <1>13, <2>3 DEF RecoveryRefreshed, Refreshed
      <3>2. Incomplete = {op.plan}
        BY <3>1 DEF ManagerInv, TokenStands
      <3>3. op' \in OpType /\ op'.kind = "recover" /\ op'.step = "ready" /\ op'.plan = op.plan
        BY <1>0, <2>1, <2>3, ToOp DEF ManagerTypes
      <3>4. Incomplete' = Incomplete
        BY <2>1 DEF Incomplete
      <3>5. QED
        BY <2>1, <3>2, <3>3, <3>4 DEF ManagerInv, ManagerTypes, TokenStands, PlanningOverNothing,
           CommittingTheToken, RecoveringTheUnfinished
    <2>4. QED
      BY <1>13, <2>2, <2>3 DEF RecoveryRefreshed
  <1>14. CASE StartRecovery
    <2>1. /\ op.kind = "recover" /\ op.step = "ready"
          /\ UNCHANGED <<room, bound, outcome, planned, token, tokens, recovery, unchecked, reported>>
      BY <1>14 DEF StartRecovery
    <2>2. CASE End
      <3>1. ManagerTypes'
        BY <1>0, <2>1, <2>2, IdleType DEF ManagerTypes, End
      <3>2. QED
        BY <2>1, <2>2, <3>1, OnlyAround DEF End
    <2>3. CASE To("run")
      <3>1. op' \in OpType /\ op'.kind = "recover" /\ op'.step = "run" /\ op'.plan = op.plan
        BY <1>0, <2>1, <2>3, ToOp DEF ManagerTypes
      <3>2. QED
        BY <2>1, <3>1 DEF ManagerInv, ManagerTypes, TokenStands, PlanningOverNothing,
           CommittingTheToken, RecoveringTheUnfinished, Incomplete
    <2>4. QED
      BY <1>14, <2>2, <2>3 DEF StartRecovery
  <1>15. CASE RunRecovery
    <2>1. /\ op.kind = "recover" /\ op.plan \in Plans /\ Incomplete = {op.plan}
          /\ UNCHANGED <<room, bound, planned, token, tokens, recovery, unchecked, reported>>
      BY <1>15 DEF RunRecovery, ManagerInv, RecoveringTheUnfinished
    <2>2. PICK effect \in Outcomes : outcome' = [outcome EXCEPT ![op.plan] = effect]
      BY <1>15 DEF RunRecovery, Outcomes
    <2>3. outcome' \in [Plans -> Outcomes]
      BY <1>0, <2>2 DEF ManagerTypes
    <2>4. Incomplete' \subseteq {op.plan}
      BY <1>0, <2>1, <2>2, NotIncomplete
    <2>5. CASE End
      <3>1. op' \in OpType /\ op'.kind = "none"
        BY <2>5, IdleType DEF End
      <3>2. QED
        BY <2>1, <2>3, <2>4, <3>1 DEF ManagerInv, ManagerTypes, TokenStands,
           PlanningOverNothing, CommittingTheToken, RecoveringTheUnfinished
    <2>6. ASSUME NEW result \in {"complete", "restored"},
                 op' = [op EXCEPT !.step = "outcome", !.result = result]
          PROVE  ManagerInv'
      <3>1. /\ op' \in OpType /\ op'.kind = "recover" /\ op'.step = "outcome" /\ op'.plan = op.plan
            /\ op'.result = result
        BY <1>0, <2>1, <2>6 DEF ManagerTypes, OpType
      <3>2. QED
        BY <2>1, <2>3, <2>4, <3>1 DEF ManagerInv, ManagerTypes, TokenStands,
           PlanningOverNothing, CommittingTheToken, RecoveringTheUnfinished
    <2>7. QED
      BY <1>15, <2>5, <2>6 DEF RunRecovery
  <1>16. CASE RecoveryOutcome
    <2>1. /\ op.kind = "recover" /\ op.step = "outcome"
          /\ UNCHANGED <<room, bound, outcome, planned, token, tokens, recovery, unchecked, reported>>
      BY <1>16 DEF RecoveryOutcome
    <2>2. CASE End
      <3>1. ManagerTypes'
        BY <1>0, <2>1, <2>2, IdleType DEF ManagerTypes, End
      <3>2. QED
        BY <2>1, <2>2, <3>1, OnlyAround DEF End
    <2>3. CASE DurableOutcome(op.plan, op.result) /\ To("confirm")
      <3>1. /\ op' \in OpType /\ op'.kind = "recover" /\ op'.step = "confirm" /\ op'.plan = op.plan
            /\ op'.result = op.result
        BY <1>0, <2>1, <2>3, ToOp DEF ManagerTypes
      <3>2. outcome[op.plan] \in {"complete", "failed"}
        BY <2>3 DEF DurableOutcome
      <3>3. QED
        BY <2>1, <3>1, <3>2 DEF ManagerInv, ManagerTypes, TokenStands, PlanningOverNothing,
           CommittingTheToken, RecoveringTheUnfinished, Incomplete
    <2>4. QED
      BY <1>16, <2>2, <2>3 DEF RecoveryOutcome
  <1>17. CASE ReportRecovery
    <2>1. /\ op.plan \in Plans /\ op' = Idle
          /\ UNCHANGED <<room, bound, outcome, planned, tokens>>
      BY <1>17 DEF ReportRecovery, End, ManagerInv, RecoveringTheUnfinished
    <2>2. recovery' \subseteq Plans /\ unchecked' \in BOOLEAN
      BY <1>0, <1>17 DEF ReportRecovery, Refreshed, Incomplete, ManagerTypes
    <2>3. /\ token' \in {token, NoToken}
          /\ reported' = reported \/ reported' = [reported EXCEPT ![op.plan] = "recovered"]
      BY <1>17 DEF ReportRecovery
    <2>4. ManagerTypes'
      BY <1>0, <2>1, <2>2, <2>3, IdleType DEF ManagerTypes
    <2>5. QED
      BY <2>1, <2>3, <2>4, OnlyAround
  <1>18. CASE RevisionRaised \/ Unload \/ Load
    <2>1. UNCHANGED <<bound, outcome, planned, op, token, tokens, recovery, unchecked, reported>>
      BY <1>18 DEF RevisionRaised, Unload, Load
    <2>2. room' \in RoomType
      BY <1>0, <1>18, RoomSteps DEF ManagerTypes
    <2>3. ManagerTypes'
      BY <1>0, <2>1, <2>2 DEF ManagerTypes
    <2>4. QED
      BY <2>1, <2>3, OnlyAround
  <1>19. CASE ExecutorChanges
    <2>1. ManagerTypes'
      BY <1>0, <1>19 DEF ExecutorChanges, ManagerTypes
    <2>2. QED
      BY <1>19, <2>1, OnlyAround DEF ExecutorChanges
  <1>20. CASE Restart
    <2>1. room' \in RoomType
      BY <1>0, <1>20, RoomSteps DEF ManagerTypes
    <2>2. ManagerTypes'
      BY <1>0, <1>20, <2>1, IdleType DEF Restart, ManagerTypes
    <2>3. QED
      BY <1>20, <2>2, OnlyAround DEF Restart
  <1>21. CASE UNCHANGED managerVars
    <2>1. ManagerTypes'
      BY <1>0, <1>21 DEF managerVars, ManagerTypes
    <2>2. QED
      BY <1>21, <2>1, OnlyAround DEF managerVars
  <1>22. QED
    BY <1>1, <1>2, <1>3, <1>4, <1>5, <1>6, <1>7, <1>8, <1>9, <1>10, <1>11, <1>12, <1>13,
       <1>14, <1>15, <1>16, <1>17, <1>18, <1>19, <1>20, <1>21 DEF ManagerNext

\* The inductive invariant of the setup manager: its types, one unfinished plan at most and
\* a token that stands for the plan it was made for (setup_manager.py).
THEOREM ManagerInvariant == ManagerSpec => []ManagerInv
  BY ManagerStarts, ManagerStep, PTL DEF ManagerSpec

\* What is inductive implies what the run checks; and the newest token stands for a plan
\* that was made for the token's revision (async_plan_migration).
LEMMA ManagerImplies == ManagerInv => ManagerTypeOK
  BY DEF ManagerInv, ManagerTypes, TokenStands, ManagerTypeOK, RoomType, OpType, TokenType

\* At most one plan is ever unfinished, however operations, failures, reloads and
\* restarts follow each other (the migration_recovery_required check).
THEOREM ManagerLeavesOneUnfinishedPlan == ManagerSpec => []OneUnfinishedPlan
  <1>1. ASSUME ManagerInv PROVE OneUnfinishedPlan
    <2>1. PICK p \in Plans \cup {NoPlan} : Incomplete \subseteq {p}
      BY <1>1 DEF ManagerInv, TokenStands
    <2>2. IsFiniteSet({p}) /\ Cardinality({p}) = 1
      BY FS_Singleton
    <2>3. Cardinality(Incomplete) <= Cardinality({p})
      BY <2>1, <2>2, FS_Subset
    <2>4. QED
      BY <2>2, <2>3 DEF OneUnfinishedPlan
  <1>2. QED
    BY <1>1, ManagerInvariant, PTL

\* What the user is told is what the executor's Store holds, whatever the executor
\* answered (_async_require_terminal_outcome).
THEOREM ManagerReportsDurableOutcomes == ManagerSpec => ReportedIsDurable
  <1> DEFINE Told == \A p \in Plans : reported'[p] # reported[p] =>
        outcome[p] \in (IF reported'[p] = "complete" THEN {"complete"} ELSE {"complete", "failed"})
  <1>1. ASSUME ManagerInv, ManagerNext PROVE Told
    <2>0. reported \in [Plans -> {"nothing", "complete", "recovered"}]
      BY <1>1 DEF ManagerInv, ManagerTypes
    <2>1. CASE ReportCommit
      <3>1. op.result = "complete"
        BY <1>1, <2>1 DEF ReportCommit, ManagerInv, CommittingTheToken
      <3>2. \/ UNCHANGED reported
            \/ /\ outcome[op.plan] = "complete"
               /\ reported' = [reported EXCEPT ![op.plan] = "complete"]
        BY <2>1, <3>1 DEF ReportCommit, DurableOutcome
      <3>3. QED
        BY <2>0, <3>2
    <2>2. CASE ReportRecovery
      <3>1. outcome[op.plan] \in {"complete", "failed"}
        BY <1>1, <2>2 DEF ReportRecovery, ManagerInv, RecoveringTheUnfinished
      <3>2. reported' = reported \/ reported' = [reported EXCEPT ![op.plan] = "recovered"]
        BY <2>2 DEF ReportRecovery
      <3>3. QED
        BY <2>0, <3>1, <3>2
    <2>3. ASSUME ~ReportCommit, ~ReportRecovery PROVE UNCHANGED reported
      BY <1>1, <2>3 DEF ManagerNext, PlanMigration, Status, PlanRefreshed, MakePlan, IssueToken,
         CommitMigration, RecheckCommit, StartCommit, RunCommit, CommitFailed, RecoverMigration,
         RecoveryRefreshed, StartRecovery, RunRecovery, RecoveryOutcome, RevisionRaised, Unload,
         Load, ExecutorChanges, Restart
    <2>4. QED
      BY <2>1, <2>2, <2>3
  <1>2. ManagerInv /\ [ManagerNext]_managerVars => [Told]_managerVars
    BY <1>1
  <1>3. QED
    BY <1>2, ManagerInvariant, PTL DEF ManagerSpec, ReportedIsDurable

(***************************************************************************)
(* The life of the config entry                                            *)
(***************************************************************************)
EntryType == [state : EntryStates, disabled : BOOLEAN, data : {"none", "live", "cleanup"},
              registered : BOOLEAN]
JournalType == [open : BOOLEAN, closing : BOOLEAN, jobs : 0 .. MaxWork]

UnloadTasks == {"shutdown", "platforms", "close"}
SetupTasks == Tasks \ (UnloadTasks \cup {"idle"})

LifecycleTypes ==
    /\ endpoint \in 0 .. MaxBoots /\ tried \in 0 .. MaxBoots
    /\ entry \in EntryType /\ journal \in JournalType
    /\ pending \in {"none", "setup", "adapter"} /\ listening \in BOOLEAN
    /\ reload \in BOOLEAN /\ task \in Tasks /\ work \in 0 .. MaxWork
    /\ after \in {"setup_error", "setup_retry"}

\* Who holds the setup lock shows in the state of the entry.
LockIsHeld ==
    /\ entry.state = "setup" <=> task \in SetupTasks
    /\ entry.state = "unloading" <=> task \in UnloadTasks
    /\ listening => entry.state = "setup"

\* Work is accepted by an open adapter, which closes under the setup lock only.
WorkIsAccepted ==
    /\ journal.jobs <= work
    /\ journal.jobs > 0 => journal.open
    /\ pending = "adapter" => journal.jobs > 0
    /\ journal.closing => task \in {"old_close", "discarding", "close"}

LifecycleInv ==
    /\ LifecycleTypes /\ LockIsHeld /\ WorkIsAccepted /\ OpenJournalIsReachable
    /\ task = "forwarding" => entry.data = "live"

\* What beginning to close the adapter changes: its flag, and a pending record is consumed.
LEMMA ClosingBegins ==
    ASSUME LifecycleInv, NEW next \in {"old_close", "discarding", "close"}, BeginClosing(next)
    PROVE  /\ task' = next
           /\ journal' \in JournalType /\ journal'.open = journal.open
           /\ journal'.jobs = journal.jobs
           /\ pending' \in {pending, "none"}
  BY DEF BeginClosing, LifecycleInv, LifecycleTypes, JournalType

\* A setup that ends gives the lock back and takes its listener with it.
LEMMA SetupIsOver ==
    ASSUME LifecycleInv, NEW e, NEW keeps \in BOOLEAN, SetupEnds(e, keeps)
    PROVE  /\ task' = "idle" /\ entry' = e /\ listening' = FALSE
           /\ pending' \in {pending, "none"} /\ reload' \in BOOLEAN
  BY DEF SetupEnds, LifecycleInv, LifecycleTypes

\* A setup begins with opening the journal, or with what an earlier one left behind.
LEMMA SetupBegins ==
    ASSUME LifecycleInv, task = "idle", BeginSetup([entry EXCEPT !.state = "setup"]),
           reload' \in BOOLEAN, UNCHANGED <<endpoint, listening, after, work>>
    PROVE  LifecycleInv'
  <1> DEFINE e == [entry EXCEPT !.state = "setup"]
  <1>1. /\ e \in EntryType /\ e.state = "setup" /\ e.data = entry.data
    BY DEF LifecycleInv, LifecycleTypes, EntryType, EntryStates
  <1> HIDE DEF e
  <1>2. CASE e.data \in {"none", "cleanup"}
    <2>1. /\ entry' = e /\ task' \in {"opening", "old_shutdown"} /\ tried' \in {tried, endpoint}
          /\ UNCHANGED <<journal, pending>>
      BY <1>2 DEF BeginSetup, Open, e
    <2>2. QED
      BY <1>1, <2>1 DEF LifecycleInv, LifecycleTypes, LockIsHeld, WorkIsAccepted,
         OpenJournalIsReachable, Tasks, SetupTasks, UnloadTasks
  <1>3. CASE e.data = "live"
    <2>1. entry' = e /\ BeginClosing("old_close") /\ UNCHANGED tried
      BY <1>3 DEF BeginSetup, e
    <2>2. QED
      BY <1>1, <1>3, <2>1, ClosingBegins DEF LifecycleInv, LifecycleTypes, LockIsHeld,
         WorkIsAccepted, OpenJournalIsReachable, Tasks, SetupTasks, UnloadTasks
  <1>4. QED
    BY <1>1, <1>2, <1>3 DEF LifecycleInv, LifecycleTypes, EntryType

\* A runtime that cannot clean up now is kept for the next setup.
LEMMA KeptForCleanup ==
    ASSUME LifecycleInv, NEW state \in {"setup_retry", "setup_error"}
    PROVE  LET e == [entry EXCEPT !.data = Kept, !.state = state]
           IN  e \in EntryType /\ e.state = state /\ e.data = "cleanup"
  <1>1. entry \in EntryType /\ state \in EntryStates
    BY DEF LifecycleInv, LifecycleTypes, EntryStates
  <1>2. QED
    BY <1>1 DEF EntryType, Kept

\* Every step of the entry's life keeps the invariant.
LEMMA LifecycleStep == LifecycleInv /\ [LifecycleNext]_lifecycleVars => LifecycleInv'
  <1> SUFFICES ASSUME LifecycleInv, [LifecycleNext]_lifecycleVars
               PROVE  LifecycleInv'
    OBVIOUS
  <1> USE LifecycleAssumption
  <1>0. /\ entry \in EntryType /\ journal \in JournalType
        /\ journal.jobs \in Nat /\ work \in 0 .. MaxWork
    BY DEF LifecycleInv, LifecycleTypes, JournalType
  <1>1. ASSUME NEW e \in 1 .. MaxBoots, Discover(e)
        PROVE  LifecycleInv'
    <2>1. /\ endpoint' = e /\ UNCHANGED <<tried, entry, journal, task, after, work>>
          /\ listening' \in BOOLEAN /\ reload' \in BOOLEAN
      BY <1>1 DEF Discover, LifecycleInv, LifecycleTypes
    <2>5. pending' \in {"none", "setup", "adapter"}
      <3> DEFINE marks == entry.state = "setup" /\ e # endpoint /\ ~entry.disabled
                 needed == /\ ~entry.disabled
                           /\ \/ entry.state \in {"not_loaded", "setup_error", "setup_retry"}
                              \/ entry.state = "loaded" /\ e # endpoint
                 safe == entry.state = "loaded" => ~Busy
      <3>1. pending' = CASE marks             -> "setup"
                         [] needed /\ safe    -> "none"
                         [] needed /\ ~safe   -> "adapter"
                         [] ~marks /\ ~needed -> pending
        BY <1>1 DEF Discover
      <3>2. pending \in {"none", "setup", "adapter"} /\ (marks => ~needed)
        BY DEF LifecycleInv, LifecycleTypes
      <3> HIDE DEF marks, needed, safe
      <3>3. QED
        BY <3>1, <3>2
    <2>2. listening' => entry.state = "setup"
      BY <1>1 DEF Discover, LifecycleInv, LockIsHeld
    <2>3. ASSUME pending' = "adapter" PROVE journal.jobs > 0
      <3>1. pending = "adapter" \/ (entry.state = "loaded" /\ Busy)
        BY <1>1, <2>3 DEF Discover
      <3>2. entry.state = "loaded" => ~journal.closing
        BY DEF LifecycleInv, LifecycleTypes, LockIsHeld, WorkIsAccepted, Tasks, SetupTasks, UnloadTasks
      <3>3. QED
        BY <3>1, <3>2 DEF Busy, LifecycleInv, WorkIsAccepted
    <2>4. QED
      BY <2>1, <2>2, <2>3, <2>5 DEF LifecycleInv, LifecycleTypes, LockIsHeld, WorkIsAccepted, OpenJournalIsReachable,
         Tasks, SetupTasks, UnloadTasks
  <1>2. CASE SetDisabled
    <2>1. /\ entry' \in EntryType /\ entry'.state = entry.state /\ entry'.data = entry.data
          /\ reload' = TRUE
          /\ UNCHANGED <<endpoint, tried, journal, pending, listening, task, after, work>>
      BY <1>0, <1>2 DEF SetDisabled, EntryType
    <2>2. QED
      BY <2>1 DEF LifecycleInv, LifecycleTypes, LockIsHeld, WorkIsAccepted, OpenJournalIsReachable,
         Tasks, SetupTasks, UnloadTasks
  <1>3. CASE StartJob
    <2>1. /\ journal' \in JournalType /\ journal'.jobs = journal.jobs + 1
          /\ journal'.open /\ journal.open /\ ~journal'.closing
          /\ work' = work + 1 /\ work' \in 0 .. MaxWork
          /\ UNCHANGED <<endpoint, tried, entry, pending, listening, reload, task, after>>
      BY <1>0, <1>3 DEF StartJob, JournalType, LifecycleInv, WorkIsAccepted
    <2>2. QED
      BY <1>0, <2>1 DEF LifecycleInv, LifecycleTypes, LockIsHeld, WorkIsAccepted, OpenJournalIsReachable,
         Tasks, SetupTasks, UnloadTasks
  <1>4. CASE EndJob
    <2>1. /\ journal' \in JournalType /\ journal'.jobs = journal.jobs - 1
          /\ journal'.open = journal.open /\ journal'.closing = journal.closing
          /\ journal.open
          /\ UNCHANGED <<endpoint, tried, entry, listening, task, after, work>>
      BY <1>0, <1>4 DEF EndJob, JournalType, LifecycleInv, WorkIsAccepted
    <2>2. reload' \in BOOLEAN /\ (pending' = "none" \/ (pending' = pending /\ journal.jobs > 1))
      <3>1. CASE journal.jobs = 1
        <4>1. SchedulePending(entry, journal.closing)
          BY <1>4, <3>1 DEF EndJob
        <4>2. QED
          BY <4>1 DEF SchedulePending, LifecycleInv, LifecycleTypes
      <3>2. CASE journal.jobs # 1
        <4>1. journal.jobs > 1 /\ UNCHANGED <<pending, reload>>
          BY <1>0, <1>4, <3>2 DEF EndJob
        <4>2. QED
          BY <4>1 DEF LifecycleInv, LifecycleTypes
      <3>3. QED
        BY <3>1, <3>2
    <2>3. QED
      BY <1>0, <2>1, <2>2 DEF LifecycleInv, LifecycleTypes, LockIsHeld, WorkIsAccepted, OpenJournalIsReachable,
         Tasks, SetupTasks, UnloadTasks
  <1>5. CASE BeginReload
    <2>0. task = "idle" /\ reload' = FALSE /\ UNCHANGED <<endpoint, listening, after, work>>
      BY <1>5 DEF BeginReload
    <2>1. CASE UNCHANGED <<tried, entry, journal, pending, task>>
      BY <2>0, <2>1 DEF LifecycleInv, LifecycleTypes, LockIsHeld, WorkIsAccepted, OpenJournalIsReachable,
         Tasks, SetupTasks, UnloadTasks
    <2>2. CASE /\ entry' = [entry EXCEPT !.state = "unloading"] /\ task' = "shutdown"
               /\ entry.state = "loaded" /\ UNCHANGED <<tried, journal, pending>>
      <3>1. entry' \in EntryType /\ entry'.state = "unloading" /\ entry'.data = entry.data
        BY <1>0, <2>2 DEF EntryType, EntryStates
      <3>2. QED
        BY <2>0, <2>2, <3>1 DEF LifecycleInv, LifecycleTypes, LockIsHeld, WorkIsAccepted, OpenJournalIsReachable,
         Tasks, SetupTasks, UnloadTasks
    <2>3. CASE /\ entry' = [entry EXCEPT !.state = "not_loaded"]
               /\ UNCHANGED <<tried, journal, pending, task>>
      <3>1. entry' \in EntryType /\ entry'.state = "not_loaded" /\ entry'.data = entry.data
        BY <1>0, <2>3 DEF EntryType, EntryStates
      <3>2. QED
        BY <2>0, <2>3, <3>1 DEF LifecycleInv, LifecycleTypes, LockIsHeld, WorkIsAccepted, OpenJournalIsReachable,
         Tasks, SetupTasks, UnloadTasks
    <2>4. CASE BeginSetup([entry EXCEPT !.state = "setup"])
      BY <2>0, <2>4, SetupBegins
    <2>5. QED
      BY <1>5, <2>1, <2>2, <2>3, <2>4 DEF BeginReload
  <1>6. CASE BeginRetry
    BY <1>6, SetupBegins DEF BeginRetry, LifecycleInv, LifecycleTypes
  <1>7. CASE OldShutdown
    <2>0. task = "old_shutdown" /\ UNCHANGED <<endpoint, tried, after, work>>
      BY <1>7 DEF OldShutdown
    <2>1. CASE /\ BeginClosing("old_close") /\ entry' = [entry EXCEPT !.data = "live"]
               /\ UNCHANGED <<listening, reload>>
      <3>1. entry' \in EntryType /\ entry'.state = entry.state /\ entry'.data = "live"
        BY <1>0, <2>1 DEF EntryType
      <3>2. QED
        BY <2>0, <2>1, <3>1, ClosingBegins DEF LifecycleInv, LifecycleTypes, LockIsHeld, WorkIsAccepted, OpenJournalIsReachable,
         Tasks, SetupTasks, UnloadTasks
    <2>2. ASSUME NEW state \in Unsettled, SetupEnds([entry EXCEPT !.state = state], TRUE), UNCHANGED journal
          PROVE  LifecycleInv'
      <3>1. entry' = [entry EXCEPT !.state = state] /\ state \in {"setup_retry", "setup_error"}
        BY <2>2, SetupIsOver DEF Unsettled
      <3>2. entry' \in EntryType /\ entry'.state = state /\ entry'.data = entry.data
        BY <1>0, <3>1 DEF EntryType, EntryStates
      <3>3. QED
        BY <2>0, <2>2, <3>1, <3>2, SetupIsOver DEF LifecycleInv, LifecycleTypes, LockIsHeld, WorkIsAccepted, OpenJournalIsReachable,
         Tasks, SetupTasks, UnloadTasks
    <2>3. QED
      BY <1>7, <2>1, <2>2 DEF OldShutdown
  <1>8. CASE OldClose
    <2>0. /\ task = "old_close" /\ UNCHANGED <<endpoint, after, work>>
      BY <1>8 DEF OldClose
    <2>9. /\ ~journal'.open /\ ~journal'.closing /\ journal'.jobs = 0 /\ journal' \in JournalType
          /\ journal.jobs = 0
      <3>1. journal' = ClosedJournal /\ journal.jobs = 0
        BY <1>8 DEF OldClose, WorkDone
      <3>2. journal' = [open |-> FALSE, closing |-> FALSE, jobs |-> 0]
        BY <3>1 DEF ClosedJournal
      <3>3. [open |-> FALSE, closing |-> FALSE, jobs |-> 0] \in JournalType
        BY DEF JournalType
      <3>4. QED
        BY <3>1, <3>2, <3>3
    <2>1. CASE /\ Open([entry EXCEPT !.data = "none"])
               /\ pending' \in {pending, "none"} /\ UNCHANGED <<listening, reload>>
      <3>1. /\ entry' = [entry EXCEPT !.data = "none"] /\ task' = "opening" /\ tried' = endpoint
        BY <2>1 DEF Open
      <3>2. entry' \in EntryType /\ entry'.state = entry.state
        BY <1>0, <3>1 DEF EntryType
      <3>3. QED
        BY <2>0, <2>9, <2>1, <3>1, <3>2 DEF LifecycleInv, LifecycleTypes, LockIsHeld, WorkIsAccepted, OpenJournalIsReachable,
         Tasks, SetupTasks, UnloadTasks
    <2>2. ASSUME NEW state \in Unsettled, SetupEnds([entry EXCEPT !.state = state], FALSE), UNCHANGED tried
          PROVE  LifecycleInv'
      <3>1. /\ entry' = [entry EXCEPT !.state = state] /\ SetupEnds(entry', FALSE)
            /\ state \in {"setup_retry", "setup_error"}
        BY <2>2, SetupIsOver DEF Unsettled
      <3>2. entry' \in EntryType /\ entry'.state = state
        BY <1>0, <3>1 DEF EntryType, EntryStates
      <3>3. QED
        <4>1. /\ task' = "idle" /\ listening' \in BOOLEAN /\ ~listening'
              /\ pending' \in {pending, "none"} /\ reload' \in BOOLEAN /\ tried' = tried
          BY <2>2, <3>1, SetupIsOver
        <4>2. QED
          BY <2>0, <2>9, <3>1, <3>2, <4>1 DEF LifecycleInv, LifecycleTypes, LockIsHeld, WorkIsAccepted, OpenJournalIsReachable,
         Tasks, SetupTasks, UnloadTasks
    <2>3. QED
      BY <1>8, <2>1, <2>2 DEF OldClose
  <1>9. CASE Opened
    <2>1. /\ journal' = [open |-> TRUE, closing |-> FALSE, jobs |-> 0] /\ journal' \in JournalType
          /\ task = "opening" /\ task' = "setting_up" /\ ~journal.open
          /\ UNCHANGED <<endpoint, tried, entry, pending, listening, reload, after, work>>
      BY <1>9 DEF Opened, JournalType
    <2>2. QED
      BY <1>0, <2>1 DEF LifecycleInv, LifecycleTypes, LockIsHeld, WorkIsAccepted, OpenJournalIsReachable,
         Tasks, SetupTasks, UnloadTasks
  <1>10. CASE RoomsInvalid
    <2>1. /\ journal' = [open |-> TRUE, closing |-> TRUE, jobs |-> 0] /\ journal' \in JournalType
          /\ task = "opening" /\ task' = "discarding" /\ after' = "setup_error" /\ pending' = "none"
          /\ UNCHANGED <<endpoint, tried, entry, listening, reload, work>>
      BY <1>10 DEF RoomsInvalid, JournalType
    <2>2. QED
      BY <1>0, <2>1 DEF LifecycleInv, LifecycleTypes, LockIsHeld, WorkIsAccepted, OpenJournalIsReachable,
         Tasks, SetupTasks, UnloadTasks
  <1>11. CASE RuntimeReady
    <2>1. /\ entry' \in EntryType /\ entry'.state = entry.state /\ entry'.data = "live"
          /\ task = "setting_up" /\ task' = "forwarding"
          /\ UNCHANGED <<endpoint, tried, journal, pending, listening, reload, after, work>>
      BY <1>0, <1>11 DEF RuntimeReady, EntryType
    <2>2. QED
      BY <2>1 DEF LifecycleInv, LifecycleTypes, LockIsHeld, WorkIsAccepted, OpenJournalIsReachable,
         Tasks, SetupTasks, UnloadTasks
  <1>12. ASSUME NEW state \in {"setup_retry", "setup_error"}, OpeningFails(state)
         PROVE  LifecycleInv'
    <2>1. /\ task = "opening" /\ entry' = [entry EXCEPT !.state = state]
          /\ SetupEnds(entry', FALSE) /\ UNCHANGED <<endpoint, tried, journal, after, work>>
      BY <1>12, SetupIsOver DEF OpeningFails
    <2>2. entry' \in EntryType /\ entry'.state = state /\ entry'.data = entry.data
      BY <1>0, <2>1 DEF EntryType, EntryStates
    <2>3. QED
      BY <2>1, <2>2, SetupIsOver DEF LifecycleInv, LifecycleTypes, LockIsHeld, WorkIsAccepted, OpenJournalIsReachable,
         Tasks, SetupTasks, UnloadTasks
  <1>13. ASSUME NEW state \in {"setup_retry", "setup_error"}, RuntimeUnsafe(state)
         PROVE  LifecycleInv'
    <2>0. task = "setting_up" /\ UNCHANGED <<endpoint, tried, work>>
      BY <1>13 DEF RuntimeUnsafe
    <2>1. CASE SetupEnds([entry EXCEPT !.data = Kept, !.state = state], FALSE) /\ UNCHANGED <<journal, after>>
      <3>1. entry' \in EntryType /\ entry'.state = state /\ entry'.data = "cleanup"
        BY <2>1, SetupIsOver, KeptForCleanup
      <3>2. QED
        BY <2>0, <2>1, <3>1, SetupIsOver DEF LifecycleInv, LifecycleTypes, LockIsHeld, WorkIsAccepted, OpenJournalIsReachable,
         Tasks, SetupTasks, UnloadTasks
    <2>2. CASE BeginClosing("discarding") /\ after' = state /\ UNCHANGED <<entry, listening, reload>>
      BY <2>0, <2>2, ClosingBegins DEF LifecycleInv, LifecycleTypes, LockIsHeld, WorkIsAccepted, OpenJournalIsReachable,
         Tasks, SetupTasks, UnloadTasks
    <2>3. QED
      BY <1>13, <2>1, <2>2 DEF RuntimeUnsafe
  <1>14. ASSUME NEW state \in {"setup_retry", "setup_error"}, SetupFails(state)
         PROVE  LifecycleInv'
    BY <1>14 DEF LifecycleInv, LifecycleTypes, LockIsHeld, WorkIsAccepted, OpenJournalIsReachable,
         Tasks, SetupTasks, UnloadTasks, SetupFails
  <1>15. CASE Cleaned
    <2>0. task = "cleaning" /\ UNCHANGED <<endpoint, tried, work>>
      BY <1>15 DEF Cleaned
    <2>1. CASE BeginClosing("discarding") /\ UNCHANGED <<entry, after, listening, reload>>
      BY <2>0, <2>1, ClosingBegins DEF LifecycleInv, LifecycleTypes, LockIsHeld, WorkIsAccepted, OpenJournalIsReachable,
         Tasks, SetupTasks, UnloadTasks
    <2>2. ASSUME NEW state \in {after, "setup_retry"}, UNCHANGED <<journal, after>>,
                 SetupEnds([entry EXCEPT !.data = Kept, !.state = state], TRUE)
          PROVE  LifecycleInv'
      <3>1. state \in {"setup_retry", "setup_error"}
        BY DEF LifecycleInv, LifecycleTypes
      <3>2. entry' \in EntryType /\ entry'.state = state /\ entry'.data = "cleanup"
        <4>1. entry' = [entry EXCEPT !.data = Kept, !.state = state]
          BY <2>2, SetupIsOver
        <4>2. QED
          BY <3>1, <4>1, KeptForCleanup
      <3>3. QED
        <4>1. /\ task' = "idle" /\ listening' \in BOOLEAN /\ ~listening'
              /\ pending' \in {pending, "none"} /\ reload' \in BOOLEAN
          BY <2>2, SetupIsOver
        <4>2. QED
          BY <2>0, <2>2, <3>1, <3>2, <4>1 DEF LifecycleInv, LifecycleTypes, LockIsHeld, WorkIsAccepted, OpenJournalIsReachable,
         Tasks, SetupTasks, UnloadTasks
    <2>3. QED
      BY <1>15, <2>1, <2>2 DEF Cleaned
  <1>16. CASE Discarded
    <2>0. /\ task = "discarding" /\ UNCHANGED <<endpoint, tried, after, work>>
      BY <1>16 DEF Discarded
    <2>9. /\ ~journal'.open /\ ~journal'.closing /\ journal'.jobs = 0 /\ journal' \in JournalType
          /\ journal.jobs = 0
      <3>1. journal' = ClosedJournal /\ journal.jobs = 0
        BY <1>16 DEF Discarded, WorkDone
      <3>2. journal' = [open |-> FALSE, closing |-> FALSE, jobs |-> 0]
        BY <3>1 DEF ClosedJournal
      <3>3. [open |-> FALSE, closing |-> FALSE, jobs |-> 0] \in JournalType
        BY DEF JournalType
      <3>4. QED
        BY <3>1, <3>2, <3>3
    <2>1. PICK state \in {after, "setup_retry"} : SetupEnds([entry EXCEPT !.state = state], FALSE)
      BY <1>16 DEF Discarded
    <2>2. state \in {"setup_retry", "setup_error"} /\ entry' = [entry EXCEPT !.state = state]
      BY <2>1, SetupIsOver DEF LifecycleInv, LifecycleTypes
    <2>3. entry' \in EntryType /\ entry'.state = state
      BY <1>0, <2>2 DEF EntryType, EntryStates
    <2>4. /\ task' = "idle" /\ listening' \in BOOLEAN /\ ~listening'
          /\ pending' \in {pending, "none"} /\ reload' \in BOOLEAN
      BY <2>1, SetupIsOver
    <2>5. QED
      BY <2>0, <2>9, <2>2, <2>3, <2>4 DEF LifecycleInv, LifecycleTypes, LockIsHeld, WorkIsAccepted, OpenJournalIsReachable,
         Tasks, SetupTasks, UnloadTasks
  <1>17. CASE Loaded
    <2>1. /\ entry' = [entry EXCEPT !.registered = TRUE, !.state = "loaded"]
          /\ task = "forwarding" /\ task' = "idle" /\ listening' \in BOOLEAN /\ ~listening'
          /\ pending' = "none" /\ reload' \in BOOLEAN
          /\ UNCHANGED <<endpoint, tried, journal, after, work>>
      BY <1>17 DEF Loaded, SchedulePending, LifecycleInv, LifecycleTypes
    <2>2. entry' \in EntryType /\ entry'.state = "loaded" /\ entry'.data = entry.data
      BY <1>0, <2>1 DEF EntryType, EntryStates
    <2>3. QED
      BY <2>1, <2>2 DEF LifecycleInv, LifecycleTypes, LockIsHeld, WorkIsAccepted, OpenJournalIsReachable,
         Tasks, SetupTasks, UnloadTasks
  <1>18. CASE UnloadFails
    <2>1. /\ entry' \in EntryType /\ entry'.state = "failed_unload" /\ entry'.data = entry.data
          /\ task \in {"shutdown", "platforms"} /\ task' = "idle"
          /\ UNCHANGED <<endpoint, tried, journal, pending, listening, reload, after, work>>
      BY <1>0, <1>18 DEF UnloadFails, EntryType, EntryStates
    <2>2. QED
      BY <2>1 DEF LifecycleInv, LifecycleTypes, LockIsHeld, WorkIsAccepted, OpenJournalIsReachable,
         Tasks, SetupTasks, UnloadTasks
  <1>19. CASE ShutDown
    BY <1>19 DEF LifecycleInv, LifecycleTypes, LockIsHeld, WorkIsAccepted, OpenJournalIsReachable,
         Tasks, SetupTasks, UnloadTasks, ShutDown
  <1>20. CASE PlatformsUnloaded
    <2>1. /\ task = "platforms" /\ BeginClosing("close")
          /\ UNCHANGED <<endpoint, tried, entry, listening, reload, after, work>>
      BY <1>20 DEF PlatformsUnloaded
    <2>2. QED
      BY <2>1, ClosingBegins DEF LifecycleInv, LifecycleTypes, LockIsHeld, WorkIsAccepted, OpenJournalIsReachable,
         Tasks, SetupTasks, UnloadTasks
  <1>21. CASE Closed
    <2>0. /\ task = "close" /\ pending' = "none" /\ UNCHANGED <<endpoint, listening, reload, after, work>>
      BY <1>21 DEF Closed
    <2>9. /\ ~journal'.open /\ ~journal'.closing /\ journal'.jobs = 0 /\ journal' \in JournalType
          /\ journal.jobs = 0
      <3>1. journal' = ClosedJournal /\ journal.jobs = 0
        BY <1>21 DEF Closed, WorkDone
      <3>2. journal' = [open |-> FALSE, closing |-> FALSE, jobs |-> 0]
        BY <3>1 DEF ClosedJournal
      <3>3. [open |-> FALSE, closing |-> FALSE, jobs |-> 0] \in JournalType
        BY DEF JournalType
      <3>4. QED
        BY <3>1, <3>2, <3>3
    <2> DEFINE e == [entry EXCEPT !.data = "none", !.registered = FALSE]
    <2>1. e \in EntryType
      BY <1>0 DEF EntryType
    <2>2. /\ \/ entry' = [e EXCEPT !.state = "not_loaded"] /\ task' = "idle" /\ UNCHANGED tried
             \/ Open([e EXCEPT !.state = "setup"])
             \/ entry' = [entry EXCEPT !.state = "failed_unload"] /\ task' = "idle" /\ UNCHANGED tried
      BY <1>21 DEF Closed
    <2> HIDE DEF e
    <2>3. CASE entry' = [e EXCEPT !.state = "not_loaded"] /\ task' = "idle" /\ UNCHANGED tried
      <3>1. entry' \in EntryType /\ entry'.state = "not_loaded"
        BY <2>1, <2>3 DEF EntryType, EntryStates
      <3>2. QED
        BY <2>0, <2>9, <2>3, <3>1 DEF LifecycleInv, LifecycleTypes, LockIsHeld, WorkIsAccepted, OpenJournalIsReachable,
         Tasks, SetupTasks, UnloadTasks
    <2>4. CASE Open([e EXCEPT !.state = "setup"])
      <3>1. entry' \in EntryType /\ entry'.state = "setup" /\ task' = "opening" /\ tried' = endpoint
        BY <2>1, <2>4 DEF Open, EntryType, EntryStates
      <3>2. QED
        BY <2>0, <2>9, <3>1 DEF LifecycleInv, LifecycleTypes, LockIsHeld, WorkIsAccepted, OpenJournalIsReachable,
         Tasks, SetupTasks, UnloadTasks
    <2>5. CASE entry' = [entry EXCEPT !.state = "failed_unload"] /\ task' = "idle" /\ UNCHANGED tried
      <3>1. entry' \in EntryType /\ entry'.state = "failed_unload"
        BY <1>0, <2>5 DEF EntryType, EntryStates
      <3>2. QED
        BY <2>0, <2>9, <2>5, <3>1 DEF LifecycleInv, LifecycleTypes, LockIsHeld, WorkIsAccepted, OpenJournalIsReachable,
         Tasks, SetupTasks, UnloadTasks
    <2>6. QED
      BY <2>2, <2>3, <2>4, <2>5
  <1>22. CASE UNCHANGED lifecycleVars
    BY <1>22 DEF LifecycleInv, LifecycleTypes, LockIsHeld, WorkIsAccepted, OpenJournalIsReachable,
         Tasks, SetupTasks, UnloadTasks, lifecycleVars
  <1>23. QED
    BY <1>1, <1>2, <1>3, <1>4, <1>5, <1>6, <1>7, <1>8, <1>9, <1>10, <1>11, <1>12, <1>13, <1>14,
       <1>15, <1>16, <1>17, <1>18, <1>19, <1>20, <1>21, <1>22 DEF LifecycleNext, HolderSteps

\* The entry starts unloaded, with no journal open.
LEMMA LifecycleStarts == ASSUME LifecycleInit PROVE LifecycleInv
  <1>1. /\ entry = [state |-> "not_loaded", disabled |-> FALSE, data |-> "none", registered |-> FALSE]
        /\ journal = [open |-> FALSE, closing |-> FALSE, jobs |-> 0]
    BY DEF LifecycleInit
  <1>2. entry \in EntryType /\ journal \in JournalType
    BY <1>1, LifecycleAssumption DEF EntryType, EntryStates, JournalType
  <1>3. listening \in BOOLEAN /\ ~listening /\ reload \in BOOLEAN
    BY DEF LifecycleInit
  <1>4. /\ entry.state = "not_loaded" /\ ~journal.open /\ ~journal.closing /\ journal.jobs = 0
        /\ pending = "none" /\ task = "idle"
        /\ endpoint = 0 /\ tried = 0 /\ work = 0 /\ after = "setup_retry"
    BY <1>1 DEF LifecycleInit
  <1>5. LifecycleTypes
    BY <1>2, <1>3, <1>4, LifecycleAssumption DEF LifecycleTypes, Tasks
  <1>6. LockIsHeld
    BY <1>3, <1>4 DEF LockIsHeld, Tasks, SetupTasks, UnloadTasks
  <1>7. WorkIsAccepted
    BY <1>4 DEF WorkIsAccepted
  <1>8. OpenJournalIsReachable
    BY <1>4 DEF OpenJournalIsReachable
  <1>9. QED
    BY <1>4, <1>5, <1>6, <1>7, <1>8 DEF LifecycleInv

\* The setup lock, the jobs of the adapter and the entry's runtime fit together in every
\* interleaving of discoveries, reloads, failing setups, unloads and migration work.
THEOREM LifecycleInvariant == LifecycleSpec => []LifecycleInv
  BY LifecycleStarts, LifecycleStep, PTL DEF LifecycleSpec

\* What is inductive implies what the run checks.
LEMMA LifecycleImplies == LifecycleInv => LifecycleTypeOK /\ OpenJournalIsReachable
  BY DEF LifecycleInv, LifecycleTypes, LockIsHeld, WorkIsAccepted, OpenJournalIsReachable,
         Tasks, SetupTasks, UnloadTasks, LifecycleTypeOK, EntryType, EntryStates, JournalType

\* An open journal is always within reach of a setup or a runtime that will close it.
THEOREM LifecycleReachesItsJournal == LifecycleSpec => []OpenJournalIsReachable
  BY LifecycleInvariant, LifecycleImplies, PTL

(***************************************************************************)
(* The three protocols side by side                                        *)
(***************************************************************************)

\* The three protocols share no state: whichever of them runs, the types, the rooms and
\* valves, the plans and tokens, and the reach of the journal hold of all of them.
THEOREM SetupIsSafe == MCSpec => []SetupInvariant
  <1> DEFINE Inv == LifecycleInv /\ BootstrapInv /\ ManagerInv
  <1>1. MCInit => Inv
    BY LifecycleStarts, BootstrapStarts, ManagerStarts DEF MCInit
  <1>2. Inv /\ [MCNext]_setupVars => Inv'
    <2>1. [MCNext]_setupVars =>
            [LifecycleNext]_lifecycleVars /\ [BootstrapNext]_bootstrapVars /\ [ManagerNext]_managerVars
      BY DEF MCNext, setupVars
    <2>2. QED
      BY <2>1, LifecycleStep, BootstrapStep, ManagerStep
  <1>3. Inv => SetupInvariant
    BY LifecycleImplies, ManagerImplies DEF SetupInvariant, BootstrapInv
  <1>4. QED
    BY <1>1, <1>2, <1>3, PTL DEF MCSpec
=============================================================================
