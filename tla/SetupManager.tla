---------------------------- MODULE SetupManager ----------------------------
(***************************************************************************)
(* The migration operations of the setup manager.  One operation runs at a *)
(* time, and awaits the executor, the inventories and the bridges; between *)
(* any two of its steps a replacement may raise the room's revision, the   *)
(* entry may be reloaded, and the executor may be substituted, fail or     *)
(* answer something its Store does not hold.  The executor is a protocol   *)
(* without an implementation in this repository: its plans, its Store and  *)
(* what its calls may do to them are external here.  Consecutive awaits    *)
(* that only read the readiness and the execution binding are one step,    *)
(* which may refuse at will.                                               *)
(***************************************************************************)
EXTENDS Naturals, FiniteSets

CONSTANTS
    Plans,       \* plan identities of one room
    NoPlan,
    MaxRevision, \* bound: replacements of the room's valve
    MaxReloads,  \* bound: runtimes of the entry
    MaxTokens    \* bound: tokens issued

ASSUME ManagerAssumption ==
    /\ NoPlan \notin Plans
    /\ MaxRevision \in Nat /\ MaxReloads \in Nat \ {0} /\ MaxTokens \in Nat

VARIABLES
    room,      \* [loaded, runtime, revision] of the bootstrapped entry
    bound,     \* the executor and its bridges are still the injected ones
    outcome,   \* the executor's Store: [Plans -> Outcomes]
    planned,   \* the revision each plan is for, or Unplanned
    op,        \* the operation that holds the lock
    token,     \* the newest migration token: [id, plan, revision, runtime]
    tokens,    \* how many tokens were issued
    recovery,  \* plans with a recovery token
    unchecked, \* the last discovery of incomplete plans failed
    reported   \* history: [Plans -> what the user was told]

managerVars == <<room, bound, outcome, planned, op, token, tokens, recovery, unchecked, reported>>

Outcomes == {"none", "incomplete", "complete", "failed"}
Unplanned == MaxRevision + 1
Idle == [kind |-> "none", step |-> "idle", plan |-> NoPlan, revision |-> 0, result |-> "none",
         stale |-> FALSE]
NoToken == [id |-> 0, plan |-> NoPlan, revision |-> 0, runtime |-> 0]

Incomplete == {p \in Plans : outcome[p] = "incomplete"}

ManagerInit ==
    /\ room = [loaded |-> TRUE, runtime |-> 1, revision |-> 0] /\ bound = TRUE
    /\ outcome = [p \in Plans |-> "none"] /\ planned = [p \in Plans |-> Unplanned]
    /\ op = Idle /\ token = NoToken /\ tokens = 0
    /\ recovery = {} /\ unchecked = FALSE
    /\ reported = [p \in Plans |-> "nothing"]

\* The lock is free, the entry is loaded and the executor is the injected one.
Begin(kind, plan, step) ==
    /\ op = Idle
    /\ room.loaded /\ bound
    /\ op' = [Idle EXCEPT !.kind = kind, !.step = step, !.plan = plan, !.revision = room.revision]

End == op' = Idle
To(step) == op' = [op EXCEPT !.step = step]

\* _async_refresh_recovery_tokens: the incomplete plans, or that they are unknown
Refreshed ==
    \/ bound /\ recovery' = Incomplete /\ unchecked' = FALSE
    \/ unchecked' = TRUE /\ UNCHANGED recovery

\* _async_require_execution_binding: it answers for the scope it was injected with
BindingMatches == bound

\* The entry still has the runtime and the room the revision of the token.
Current(t) ==
    /\ room.runtime = t.runtime
    /\ room.revision = t.revision

(***************************************************************************)
(* Planning                                                                *)
(***************************************************************************)
PlanMigration(revision) ==
    /\ Begin("plan", NoPlan, "refresh")
    /\ revision = room.revision
    /\ UNCHANGED <<room, bound, outcome, planned, token, tokens, recovery, unchecked, reported>>

\* async_status also looks for work to recover; it needs neither the entry
\* to be loaded nor an executor.
Status ==
    /\ op = Idle
    /\ op' = [Idle EXCEPT !.kind = "status", !.step = "refresh"]
    /\ UNCHANGED <<room, bound, outcome, planned, token, tokens, recovery, unchecked, reported>>

\* Nothing new is planned over unfinished or unknown work.
\* Mutant: only known unfinished work stands in the way of a new plan.
RecoveryKnownOnly == recovery' # {}
RecoveryRequired == unchecked' \/ recovery' # {}

PlanRefreshed ==
    /\ op.kind \in {"plan", "status"} /\ op.step = "refresh"
    /\ Refreshed
    /\ IF op.kind = "status" \/ RecoveryRequired THEN End ELSE To("make")
    /\ UNCHANGED <<room, bound, outcome, planned, token, tokens, reported>>

\* _valid_migration_plan for the room as the operation read it at its start
PlannedFor(revision) == revision = op.revision

\* The executor plans for the room as it is now; a plan's content is fixed.
MakePlan ==
    /\ op.kind = "plan" /\ op.step = "make"
    /\ \/ /\ bound
          /\ \E p \in Plans :
                /\ planned[p] \in {Unplanned, room.revision}
                /\ planned' = [planned EXCEPT ![p] = room.revision]
                /\ op' = IF PlannedFor(room.revision)
                         THEN [op EXCEPT !.step = "issue", !.plan = p] ELSE Idle
       \/ End /\ UNCHANGED planned
    /\ UNCHANGED <<room, bound, outcome, token, tokens, recovery, unchecked, reported>>

\* After the execution binding was awaited.  An entry unloaded meanwhile has
\* no runtime_data: reading it raises, when the previous token is gone and
\* the new one has not been returned to anybody.
IssueToken ==
    /\ op.kind = "plan" /\ op.step = "issue"
    /\ \/ /\ BindingMatches /\ room.loaded /\ tokens < MaxTokens
          /\ token' = [id |-> tokens + 1, plan |-> op.plan, revision |-> op.revision,
                       runtime |-> room.runtime]
          /\ tokens' = tokens + 1
       \/ BindingMatches /\ ~room.loaded /\ token' = NoToken /\ UNCHANGED tokens
       \/ UNCHANGED <<token, tokens>>
    /\ End
    /\ UNCHANGED <<room, bound, outcome, planned, recovery, unchecked, reported>>

(***************************************************************************)
(* Committing                                                              *)
(***************************************************************************)
\* What the token was issued for is compared before the first await.
CommitMigration(t) ==
    /\ token # NoToken /\ t = token.id
    /\ IF Current(token)
       THEN Begin("commit", token.plan, "ready") /\ UNCHANGED token
       ELSE op = Idle /\ room.loaded /\ bound /\ token' = NoToken /\ UNCHANGED op
    /\ UNCHANGED <<room, bound, outcome, planned, tokens, recovery, unchecked, reported>>

\* Binding, readiness of all providers and binding again were awaited; then
\* what the token was issued for is compared once more.
RecheckCommit ==
    /\ op.kind = "commit" /\ op.step = "ready"
    /\ \/ End /\ UNCHANGED token
       \/ BindingMatches /\ room.loaded /\ ~Current(token) /\ token' = NoToken /\ End
       \/ BindingMatches /\ room.loaded /\ Current(token) /\ UNCHANGED token /\ To("bind")
    /\ UNCHANGED <<room, bound, outcome, planned, tokens, recovery, unchecked, reported>>

\* The execution binding is awaited once more, then the executor is called.
StartCommit ==
    /\ op.kind = "commit" /\ op.step = "bind"
    /\ \/ BindingMatches /\ op' = [op EXCEPT !.step = "run", !.stale = ~(room.loaded /\ Current(token))]
       \/ End
    /\ UNCHANGED <<room, bound, outcome, planned, token, tokens, recovery, unchecked, reported>>

\* The executor does what it does to its Store, and answers or fails.
RunCommit ==
    /\ op.kind = "commit" /\ op.step = "run"
    /\ \E effect \in Outcomes \ {"none"} :
        /\ outcome[op.plan] = "complete" => effect = "complete"
        /\ outcome' = [outcome EXCEPT ![op.plan] = effect]
    /\ \/ op' = [op EXCEPT !.step = "outcome", !.result = "complete"]
       \/ To("failed")
    /\ UNCHANGED <<room, bound, planned, token, tokens, recovery, unchecked, reported>>

CommitFailed ==
    /\ op.kind = "commit" /\ op.step = "failed"
    /\ Refreshed
    /\ End
    /\ UNCHANGED <<room, bound, outcome, planned, token, tokens, reported>>

\* _valid_durable_outcome: the Store's terminal record must match the answer.
\* Mutant: a complete answer needs no terminal record.
AnswerTrusted(plan, result) == result = "complete" \/ outcome[plan] = "failed"
DurableOutcome(plan, result) ==
    IF result = "complete" THEN outcome[plan] = "complete" ELSE outcome[plan] = "failed"

ReportCommit ==
    /\ op.kind = "commit" /\ op.step = "outcome"
    /\ \/ /\ BindingMatches /\ DurableOutcome(op.plan, op.result)
          /\ token' = NoToken /\ reported' = [reported EXCEPT ![op.plan] = "complete"]
       \/ UNCHANGED <<token, reported>>
    /\ End
    /\ UNCHANGED <<room, bound, outcome, planned, tokens, recovery, unchecked>>

(***************************************************************************)
(* Recovery                                                                *)
(***************************************************************************)
RecoverMigration(p) ==
    /\ Begin("recover", p, "refresh")
    /\ UNCHANGED <<room, bound, outcome, planned, token, tokens, recovery, unchecked, reported>>

\* A token is only good for a plan that is incomplete now.
RecoveryRefreshed ==
    /\ op.kind = "recover" /\ op.step = "refresh"
    /\ Refreshed
    /\ IF unchecked' \/ op.plan \notin recovery' THEN End ELSE To("ready")
    /\ UNCHANGED <<room, bound, outcome, planned, token, tokens, reported>>

\* Binding, durable plan, binding, recovery readiness, and the binding twice
StartRecovery ==
    /\ op.kind = "recover" /\ op.step = "ready"
    /\ \/ BindingMatches /\ To("run")
       \/ End
    /\ UNCHANGED <<room, bound, outcome, planned, token, tokens, recovery, unchecked, reported>>

RunRecovery ==
    /\ op.kind = "recover" /\ op.step = "run"
    /\ \E effect \in {"incomplete", "complete", "failed"} :
        outcome' = [outcome EXCEPT ![op.plan] = effect]
    /\ \/ \E result \in {"complete", "restored"} :
            op' = [op EXCEPT !.step = "outcome", !.result = result]
       \/ End
    /\ UNCHANGED <<room, bound, planned, token, tokens, recovery, unchecked, reported>>

RecoveryOutcome ==
    /\ op.kind = "recover" /\ op.step = "outcome"
    /\ \/ BindingMatches /\ DurableOutcome(op.plan, op.result) /\ To("confirm")
       \/ End
    /\ UNCHANGED <<room, bound, outcome, planned, token, tokens, recovery, unchecked, reported>>

ReportRecovery ==
    /\ op.kind = "recover" /\ op.step = "confirm"
    /\ Refreshed
    /\ IF unchecked' \/ op.plan \in recovery'
       THEN UNCHANGED <<token, reported>>
       ELSE token' = NoToken /\ reported' = [reported EXCEPT ![op.plan] = "recovered"]
    /\ End
    /\ UNCHANGED <<room, bound, outcome, planned, tokens>>

(***************************************************************************)
(* Everyone else                                                           *)
(***************************************************************************)
RevisionRaised ==
    /\ room.loaded /\ room.revision < MaxRevision
    /\ room' = [room EXCEPT !.revision = @ + 1]
    /\ UNCHANGED <<bound, outcome, planned, op, token, tokens, recovery, unchecked, reported>>

Unload ==
    /\ room.loaded
    /\ room' = [room EXCEPT !.loaded = FALSE]
    /\ UNCHANGED <<bound, outcome, planned, op, token, tokens, recovery, unchecked, reported>>

Load ==
    /\ ~room.loaded /\ room.runtime < MaxReloads
    /\ room' = [room EXCEPT !.loaded = TRUE, !.runtime = @ + 1]
    /\ UNCHANGED <<bound, outcome, planned, op, token, tokens, recovery, unchecked, reported>>

ExecutorChanges ==
    /\ bound' = ~bound
    /\ UNCHANGED <<room, outcome, planned, op, token, tokens, recovery, unchecked, reported>>

\* The process dies and starts again; the executor's Store stays.
Restart ==
    /\ room.runtime < MaxReloads
    /\ op' = Idle /\ token' = NoToken /\ recovery' = {} /\ unchecked' = FALSE /\ bound' = TRUE
    /\ room' = [room EXCEPT !.loaded = TRUE, !.runtime = @ + 1]
    /\ UNCHANGED <<outcome, planned, tokens, reported>>

ManagerNext ==
    \/ \E revision \in 0 .. MaxRevision : PlanMigration(revision)
    \/ Status \/ PlanRefreshed \/ MakePlan \/ IssueToken
    \/ \E t \in 1 .. MaxTokens : CommitMigration(t)
    \/ RecheckCommit \/ StartCommit \/ RunCommit \/ CommitFailed \/ ReportCommit
    \/ \E p \in recovery : RecoverMigration(p)
    \/ RecoveryRefreshed \/ StartRecovery \/ RunRecovery \/ RecoveryOutcome \/ ReportRecovery
    \/ RevisionRaised \/ Unload \/ Load \/ ExecutorChanges \/ Restart

ManagerSpec == ManagerInit /\ [][ManagerNext]_managerVars

(***************************************************************************)
(* Properties                                                              *)
(***************************************************************************)

\* The type of the state; and the newest token was issued for the revision
\* that its plan was made for (async_plan_migration).
ManagerTypeOK ==
    /\ room \in [loaded : BOOLEAN, runtime : 1 .. MaxReloads, revision : 0 .. MaxRevision]
    /\ bound \in BOOLEAN
    /\ outcome \in [Plans -> Outcomes] /\ planned \in [Plans -> 0 .. Unplanned]
    /\ op.kind \in {"none", "plan", "status", "commit", "recover"}
    /\ op.plan \in Plans \cup {NoPlan} /\ op.revision \in 0 .. MaxRevision
    /\ op.result \in {"none", "complete", "restored"} /\ op.stale \in BOOLEAN
    /\ token.id \in 0 .. MaxTokens /\ token.plan \in Plans \cup {NoPlan} /\ tokens \in 0 .. MaxTokens
    /\ recovery \subseteq Plans /\ unchecked \in BOOLEAN
    /\ reported \in [Plans -> {"nothing", "complete", "recovered"}]
    /\ token # NoToken => planned[token.plan] = token.revision

\* At most one plan is ever unfinished: whatever fails, whoever restarts, a
\* plan is only made when the Store showed that no other was left half done
\* (the migration_recovery_required check of async_plan_migration).
OneUnfinishedPlan == Cardinality(Incomplete) <= 1

\* The user is told that a migration completed, or was recovered, only when
\* the executor's Store holds that terminal outcome, whatever it answered
\* (_async_require_terminal_outcome).
ReportedIsDurable ==
    [][\A p \in Plans : reported'[p] # reported[p] =>
        outcome[p] \in (IF reported'[p] = "complete" THEN {"complete"} ELSE {"complete", "failed"})]_managerVars

\* Execution starts only for a room that is still at the planned revision and
\* runtime: the race between the readiness checks and the execution is closed
\* (tests/ha/test_setup_manager.py:1903 on async_commit_migration).
ExecutionStartsFresh == op.kind = "commit" /\ op.step = "run" => ~op.stale
=============================================================================
