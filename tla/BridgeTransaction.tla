-------------------------- MODULE BridgeTransaction --------------------------
(***************************************************************************)
(* The bridge transaction of reference_transaction.py: a journal of        *)
(* attempts that is written before anything is dispatched, the recorder    *)
(* that decides what the caller may do next, and the providers' hosts,     *)
(* each with one document, a fence ledger and an operation ledger.         *)
(*                                                                         *)
(* A caller records an intent, arms it (durably), dispatches it, asks the  *)
(* host for the receipt, verifies the effect and releases the fence.  It   *)
(* may crash anywhere: the journal and the hosts keep what they have, the  *)
(* caller's observations are gone.  A request is on the wire from the step *)
(* that asks the caller to dispatch it, and is executed at any later time  *)
(* or never; a crash before the sending is a request never executed.       *)
(*                                                                         *)
(* Data: one object per provider; a fingerprint is "pre", "post" or        *)
(* "foreign", a revision a number.  Digests, tokens and receipt identities *)
(* are not modelled: a request names the intent it carries.  Times are     *)
(* reduced to what the code compares them for: a lease has run out         *)
(* (expired), an observation or a verification is recent, an observation   *)
(* was taken after a fence or a receipt was durable (obs.seen).            *)
(***************************************************************************)
EXTENDS Integers, Sequences, FiniteSets

CONSTANTS Providers,     \* a plan changes one document of each provider it names
          MaxAttempts,   \* bound on the attempts of the plan
          MaxEpoch,      \* bound on the fence epochs of a provider
          MaxReleases,   \* bound on the release attempts of a fence
          MaxRevision    \* no writer but the bridge goes beyond this revision of a document

ASSUME BridgeBounds ==
    /\ IsFiniteSet(Providers) /\ Providers # {}
    /\ MaxAttempts \in Nat \ {0} /\ MaxEpoch \in Nat \ {0}
    /\ MaxReleases \in Nat \ {0} /\ MaxRevision \in Nat

VARIABLES journal,     \* durable: the plan's attempts, in order
          binding,     \* host: binding[p] is the epoch of the fence held, 0 if none
          expired,     \* host and caller: epochs of p whose lease has run out
          fences,      \* host ledger: outcome of acquisition <<p, e>>
          releases,    \* host ledger: outcome of release <<p, e, k>>
          effects,     \* host ledger: outcome of object operation <<a, i>>
          doc,         \* host: the provider's document
          wire,        \* requests the recorder asked for; one may be late, lost, never recalled
          obs,         \* volatile: the caller's fresh observation of p, if it has one
          recent       \* operations whose newest verification is still fresh

hostVars   == <<binding, expired, fences, releases, effects, doc>>
callerVars == <<obs, recent>>
vars == <<journal, binding, expired, fences, releases, effects, doc, wire, obs, recent>>

Epochs == 1..MaxEpoch
None == "none"

FenceStates  == {"recorded", "armed", "acknowledged", "no_effect", "blocked"}
ObjectStates == {"recorded", "armed", "acknowledged", "verified", "blocked"}
AttemptStates == {"open", "committed", "restored", "blocked"}
Fingerprints == {"pre", "post", "foreign"}

-----------------------------------------------------------------------------
(* The records of the journal.                                             *)

\* One acquisition of a fence.  "from" is the state it was blocked in.
AcquisitionRecords == [p : Providers, e : Epochs, st : FenceStates,
                       from : {None, "recorded", "armed"}]

\* Try k of releasing the fence <<p, e>>.
ReleaseRecords == [p : Providers, e : Epochs, k : 1..MaxReleases,
                   st : FenceStates \ {"blocked"}]

\* One write or rollback of p's object under the fence e: it expects revision rev,
\* its receipt says out and leaves revision res.
OperationRecords == [p : Providers, kind : {"write", "rollback"}, e : Epochs,
                     rev : Nat, st : ObjectStates,
                     from : {None} \cup (ObjectStates \ {"blocked"}),
                     out : {None, "applied", "no_effect"}, res : Nat]

NewOperation(p, kind, e, rev) ==
    [p |-> p, kind |-> kind, e |-> e, rev |-> rev,
     st |-> "recorded", from |-> None, out |-> None, res |-> 0]

\* What the receipt of outcome out makes of an operation: an applied one changed the
\* revision, one without effect left it.
WithReceipt(op, out) ==
    [op EXCEPT !.st = "acknowledged", !.out = out,
               !.res = IF out = "applied" THEN op.rev + 1 ELSE op.rev]

\* The evidence a record must have, and must not have, in its state.
HasReceipt(op) ==
    \/ op.st \in {"acknowledged", "verified"}
    \/ op.st = "blocked" /\ op.from \in {"acknowledged", "verified"}

OperationRecordValid(op) ==
    /\ (op.st = "blocked") <=> (op.from # None)
    /\ HasReceipt(op) <=> (op.out # None)

AcquisitionRecordValid(r) == (r.st = "blocked") <=> (r.from # None)

NewAttempt(want) ==
    [state |-> "open", want |-> want, acqs |-> {}, ops |-> <<>>, rels |-> {}, phase |-> -1]

\* What the bridge finds before and leaves after an operation.
PreFingerprint(op)  == IF op.kind = "write" THEN "pre"  ELSE "post"
PostFingerprint(op) == IF op.kind = "write" THEN "post" ELSE "pre"

\* An observation that is no longer fresh is worth as much as none.
NoObservation == [rev |-> -1, fp |-> None, seen |-> {}]

\* What is dispatched: the intent of a fence, and for an object the authorization that
\* was armed with it.
AcquireRequest(p, e)    == [do |-> "acquire", p |-> p, e |-> e]
ReleaseRequest(p, e, k) == [do |-> "release", p |-> p, e |-> e, k |-> k]
ObjectRequest(a, i)     == [do |-> "object", a |-> a, i |-> i]

Current == Len(journal)
Planned(t) == DOMAIN t.want
Op(a, i) == journal[a].ops[i]
CurrentAcquisitions == IF Current = 0 THEN {} ELSE journal[Current].acqs
CurrentReleases     == IF Current = 0 THEN {} ELSE journal[Current].rels
CurrentOperations   == IF Current = 0 THEN {} ELSE DOMAIN journal[Current].ops


-----------------------------------------------------------------------------
(* Predicates over the records of an attempt t.                            *)

WritesOf(t, p)    == {i \in DOMAIN t.ops : t.ops[i].p = p /\ t.ops[i].kind = "write"}
RollbacksOf(t, p) == {i \in DOMAIN t.ops : t.ops[i].p = p /\ t.ops[i].kind = "rollback"}
LatestOf(S) == CHOOSE i \in S : \A j \in S : j <= i
ReleasesOf(t, p, e) == {r \in t.rels : r.p = p /\ r.e = e}
LastRelease(t, p, e) == CHOOSE r \in ReleasesOf(t, p, e) : \A s \in ReleasesOf(t, p, e) : s.k <= r.k
OperationsUnder(t, p, e) == {i \in DOMAIN t.ops : t.ops[i].p = p /\ t.ops[i].e = e}
Acquired(t, p, e) == \E r \in t.acqs : r.p = p /\ r.e = e /\ r.st = "acknowledged"

ProvenUndispatched(op) == op.st = "blocked" /\ op.from = "recorded"
VerifiedOutcome(op, out) == op.st = "verified" /\ op.out = out
EligibleRollbackParent(op) ==
    /\ op.st = "verified" \/ (op.st = "blocked" /\ op.from = "verified")
    /\ op.out = "applied"
RollbackProvenNoEffect(op) == ProvenUndispatched(op) \/ VerifiedOutcome(op, "no_effect")
\* Mutant: a write that was blocked after it was armed counts as one without effect.
EffectResolvedArmed(op) == op.st \in {"verified", "blocked"}

EffectResolved(op) ==
    \/ op.st = "verified"
    \/ op.st = "blocked" /\ op.from \in {"recorded", "verified"}
\* Mutant: an acquisition that was blocked after it was armed counts as never asked for.
AcquisitionUndispatchedArmed(r) == r.st = "blocked"

AcquisitionUndispatched(r) == r.st = "blocked" /\ r.from = "recorded"

\* A blocked attempt may take a fence only to undo an applied write.
NeedsCompensation(t, p) ==
    \E i \in WritesOf(t, p) :
        /\ EligibleRollbackParent(t.ops[i])
        /\ RollbacksOf(t, p) # {} => RollbackProvenNoEffect(t.ops[LatestOf(RollbacksOf(t, p))])

\* A fence that is held or may yet be held.
InPlay(t, r) ==
    \/ r.st \in {"recorded", "armed"}
    \/ r.st = "blocked" /\ r.from = "armed"
    \/ /\ r.st = "acknowledged"
       /\ \A s \in ReleasesOf(t, r.p, r.e) : s.st # "acknowledged"

BlockedEvidence(t) == \/ \E r \in t.acqs : r.st = "blocked"
                      \/ \E i \in DOMAIN t.ops : t.ops[i].st = "blocked"

-----------------------------------------------------------------------------
(* What every stored attempt is checked for, and what is decoded after a   *)
(* restart is checked for again.                                           *)

AcquisitionsValid(t) ==
    /\ \A r \in t.acqs : AcquisitionRecordValid(r)
    /\ \A r, s \in t.acqs : r.p = s.p /\ r.e = s.e => r = s

RollbackValid(t, i) ==
    LET op == t.ops[i]
        parents == {j \in WritesOf(t, op.p) : j < i /\ EligibleRollbackParent(t.ops[j])}
        earlier == {j \in RollbacksOf(t, op.p) : j < i}
    IN /\ parents # {}
       /\ op.rev = t.ops[LatestOf(parents)].res
       /\ IF earlier = {} THEN op.e > t.ops[LatestOf(parents)].e
          ELSE /\ RollbackProvenNoEffect(t.ops[LatestOf(earlier)])
               /\ op.e > t.ops[LatestOf(earlier)].e

OperationsValid(t) ==
    \A i \in DOMAIN t.ops :
        LET op == t.ops[i]
        IN /\ OperationRecordValid(op)
           /\ Acquired(t, op.p, op.e)
           /\ \A j \in 1..(i - 1) : t.ops[j].p = op.p => t.ops[j].e <= op.e
           /\ IF op.kind = "write"
              THEN /\ op.rev = t.want[op.p]
                   /\ WritesOf(t, op.p) = {i}
              ELSE RollbackValid(t, i)

ReleasePhaseValid(t) ==
    /\ (t.rels = {}) <=> (t.phase = -1)
    /\ t.phase # -1 =>
         \A i \in DOMAIN t.ops :
             IF i <= t.phase
             THEN t.ops[i].kind = "write" /\ EffectResolved(t.ops[i])
             ELSE t.ops[i].kind = "rollback"

ReleasesValid(t) ==
    \A r \in t.rels :
        /\ Acquired(t, r.p, r.e)
        /\ r.k > 1 => \E s \in ReleasesOf(t, r.p, r.e) : s.k = r.k - 1 /\ s.st = "no_effect"
        /\ \A i \in OperationsUnder(t, r.p, r.e) : EffectResolved(t.ops[i])

\* A newer fence of a provider needs the older one tombstoned, durably released, or
\* never asked for.
SuccessionValid(t) ==
    \A r, s \in t.acqs :
        r.p = s.p /\ r.e < s.e =>
            \/ AcquisitionUndispatched(r)
            \/ r.st = "no_effect"
            \/ /\ r.st = "acknowledged"
               /\ ReleasesOf(t, r.p, r.e) # {}
               /\ LastRelease(t, r.p, r.e).st = "acknowledged"

\* At the end every fence is released, tombstoned or was never asked for.
LifecycleEnded(t) ==
    /\ t.acqs # {}
    /\ \A r \in t.acqs :
         \/ r.st = "no_effect" /\ ReleasesOf(t, r.p, r.e) = {}
         \/ AcquisitionUndispatched(r) /\ ReleasesOf(t, r.p, r.e) = {}
         \/ /\ r.st = "acknowledged"
            /\ ReleasesOf(t, r.p, r.e) # {}
            /\ \A s \in ReleasesOf(t, r.p, r.e) :
                  s.st = IF s = LastRelease(t, r.p, r.e) THEN "acknowledged" ELSE "no_effect"

CommittedValid(t) ==
    /\ ~BlockedEvidence(t)
    /\ \A p \in Planned(t) : \E i \in WritesOf(t, p) : VerifiedOutcome(t.ops[i], "applied")
    /\ \A p \in Planned(t) : RollbacksOf(t, p) = {}

\* Mutant: a rollback that was verified to have had no effect takes a write back.
WriteTakenBackByAnyRollback(t, p, i) ==
    \/ ProvenUndispatched(t.ops[i]) /\ RollbacksOf(t, p) = {}
    \/ VerifiedOutcome(t.ops[i], "no_effect") /\ RollbacksOf(t, p) = {}
    \/ /\ EligibleRollbackParent(t.ops[i])
       /\ RollbacksOf(t, p) # {}
       /\ t.ops[LatestOf(RollbacksOf(t, p))].st = "verified"

WriteTakenBack(t, p, i) ==
    \/ ProvenUndispatched(t.ops[i]) /\ RollbacksOf(t, p) = {}
    \/ VerifiedOutcome(t.ops[i], "no_effect") /\ RollbacksOf(t, p) = {}
    \/ /\ EligibleRollbackParent(t.ops[i])
       /\ RollbacksOf(t, p) # {}
       /\ VerifiedOutcome(t.ops[LatestOf(RollbacksOf(t, p))], "applied")

RestoredValid(t) ==
    /\ \A p \in Planned(t) : \A i \in WritesOf(t, p) : WriteTakenBack(t, p, i)
    /\ (\E p \in Planned(t) : WritesOf(t, p) = {}) =>
         BlockedEvidence(t) \/ \E r \in t.acqs : r.st = "no_effect"

StateValid(t) ==
    CASE t.state = "open"      -> ~BlockedEvidence(t)
      [] t.state = "blocked"   -> BlockedEvidence(t)
      [] t.state = "committed" -> LifecycleEnded(t) /\ CommittedValid(t)
      [] t.state = "restored"  -> LifecycleEnded(t) /\ RestoredValid(t)

AttemptValid(t) ==
    /\ AcquisitionsValid(t) /\ OperationsValid(t)
    /\ ReleasePhaseValid(t) /\ ReleasesValid(t) /\ SuccessionValid(t)
    /\ StateValid(t)

\* The journal stores an attempt only if it is valid as a whole; otherwise the call
\* raises and changes nothing.
Store(t) ==
    /\ AttemptValid(t)
    /\ journal' = [journal EXCEPT ![Current] = t]

StoreOp(i, op) == Store([journal[Current] EXCEPT !.ops[i] = op])

Blocked(op) == [op EXCEPT !.st = "blocked", !.from = op.st]

\* Blocking an operation blocks its attempt; only restoring it is left.
BlockOp(i) ==
    LET t == journal[Current]
    IN /\ t.state \in {"open", "blocked"}
       /\ Store([t EXCEPT !.state = "blocked", !.ops[i] = Blocked(t.ops[i])])

-----------------------------------------------------------------------------
Init ==
    /\ journal = <<>>
    /\ binding = [p \in Providers |-> 0]
    /\ expired = [p \in Providers |-> {}]
    /\ fences = <<>> /\ releases = <<>> /\ effects = <<>>
    /\ doc = [p \in Providers |-> [rev |-> 0, fp |-> "pre"]]
    /\ wire = {}
    /\ obs = [p \in Providers |-> NoObservation]
    /\ recent = {}

Known(f, x) == x \in DOMAIN f
With(f, x, v) == [y \in DOMAIN f \cup {x} |-> IF y = x THEN v ELSE f[y]]

-----------------------------------------------------------------------------
(* Attempts.                                                               *)

\* Mutant: a retry expects what the first attempt expected.
RetryRevisionUnchanged(t, p) == t.want[p]

\* The revision a retry expects: what the restored attempt t is known to have left.
RetryRevision(t, p) ==
    IF \A i \in WritesOf(t, p) : ProvenUndispatched(t.ops[i])
    THEN t.want[p]
    ELSE LET i == LatestOf(WritesOf(t, p))
         IN IF t.ops[i].out = "no_effect" THEN t.ops[i].res
            ELSE t.ops[LatestOf(RollbacksOf(t, p))].res

\* The plan names its providers once; a retry is of the same plan.
BeginAttempt(plan) ==
    /\ Current < MaxAttempts
    /\ plan # {}
    /\ Current > 0 => journal[Current].state = "restored" /\ plan = Planned(journal[Current])
    /\ journal' = Append(journal, NewAttempt(
           [p \in plan |-> IF Current = 0 THEN doc[p].rev
                           ELSE RetryRevision(journal[Current], p)]))
    /\ UNCHANGED <<hostVars, wire, callerVars>>

\* A terminal attempt rests on verifications that are still fresh.
TerminalVerificationFresh(state, t, i) ==
    \/ ProvenUndispatched(t.ops[i])
    \/ <<Current, i>> \in recent
    \/ /\ state = "restored" /\ t.ops[i].kind = "write" /\ t.ops[i].out = "applied"
    \/ /\ t.ops[i].kind = "rollback" /\ i # LatestOf(RollbacksOf(t, t.ops[i].p))

FinishAttempt(state) ==
    /\ Current > 0
    /\ LET t == journal[Current]
       IN /\ t.state = "open" \/ (t.state = "blocked" /\ state = "restored")
          /\ \A i \in DOMAIN t.ops : TerminalVerificationFresh(state, t, i)
          /\ Store([t EXCEPT !.state = state])
    /\ UNCHANGED <<hostVars, wire, callerVars>>

-----------------------------------------------------------------------------
(* The fence: record the intent, arm it, dispatch, learn the outcome.      *)

\* The next acquisition takes an epoch above every one the journal has ever allocated.
EpochHighWater(p) ==
    LET S == UNION {{r.e : r \in {x \in journal[a].acqs : x.p = p}} : a \in DOMAIN journal}
    IN LatestOf(S \cup {0})

PrepareAcquisition(p) ==
    /\ Current > 0
    /\ p \in Planned(journal[Current])
    /\ LET t == journal[Current]
           e == EpochHighWater(p) + 1
       IN /\ t.state = "open" \/ (t.state = "blocked" /\ NeedsCompensation(t, p))
          /\ e <= MaxEpoch
          /\ Store([t EXCEPT !.acqs = @ \cup {[p |-> p, e |-> e, st |-> "recorded", from |-> None]}])
    /\ UNCHANGED <<hostVars, wire, callerVars>>

SetAcquisition(r, st, state) ==
    Store([journal[Current] EXCEPT
             !.state = state,
             !.acqs = (@ \ {r}) \cup
                 {[r EXCEPT !.st = st, !.from = IF st = "blocked" THEN r.st ELSE None]}])

\* An expired intent is blocked; otherwise it is armed, and dispatched only if the
\* authority shows neither a receipt for it nor a fence of the provider.
ReconcileAcquisition(r) ==
    /\ r.st = "recorded"
    /\ IF r.e \in expired[r.p]
       THEN SetAcquisition(r, "blocked", "blocked") /\ UNCHANGED wire
       ELSE /\ SetAcquisition(r, "armed", journal[Current].state)
            /\ wire' = IF Known(fences, <<r.p, r.e>>) \/ binding[r.p] # 0 THEN wire
                       ELSE wire \cup {AcquireRequest(r.p, r.e)}
    /\ UNCHANGED <<hostVars, callerVars>>

\* The state the host's receipt, for an effect or a tombstone, gives its record.
AcquisitionState(r) ==
    IF fences[<<r.p, r.e>>] = "applied" THEN "acknowledged" ELSE "no_effect"
ReleaseState(r) ==
    IF releases[<<r.p, r.e, r.k>>] = "applied" THEN "acknowledged" ELSE "no_effect"

AcknowledgeAcquisition(r) ==
    /\ r.st = "armed"
    /\ Known(fences, <<r.p, r.e>>)
    /\ SetAcquisition(r, AcquisitionState(r), journal[Current].state)
    /\ UNCHANGED <<hostVars, wire, callerVars>>

\* The caller gives an acquisition up (journal.block_acquisition).
AbortAcquisition(r) ==
    /\ r.st \in {"recorded", "armed"}
    /\ SetAcquisition(r, "blocked", "blocked")
    /\ UNCHANGED <<hostVars, wire, callerVars>>

PrepareRelease(p, e) ==
    LET t == journal[Current]
        k == Cardinality(ReleasesOf(t, p, e)) + 1
    IN /\ t.state \in {"open", "blocked"}
       /\ Acquired(t, p, e)
       /\ k <= MaxReleases
       /\ t.rels = {} => \A i \in DOMAIN t.ops : EffectResolved(t.ops[i])
       /\ \A i \in OperationsUnder(t, p, e) : EffectResolved(t.ops[i])
       /\ k > 1 => LastRelease(t, p, e).st = "no_effect"
       /\ Store([t EXCEPT !.rels = @ \cup {[p |-> p, e |-> e, k |-> k, st |-> "recorded"]},
                          !.phase = IF t.rels = {} THEN Len(t.ops) ELSE @])
       /\ UNCHANGED <<hostVars, wire, callerVars>>

SetRelease(r, st) ==
    Store([journal[Current] EXCEPT !.rels = (@ \ {r}) \cup {[r EXCEPT !.st = st]}])

ReconcileRelease(r) ==
    /\ r.st = "recorded"
    /\ SetRelease(r, "armed")
    /\ wire' = IF Known(releases, <<r.p, r.e, r.k>>) \/ binding[r.p] # r.e THEN wire
               ELSE wire \cup {ReleaseRequest(r.p, r.e, r.k)}
    /\ UNCHANGED <<hostVars, callerVars>>

AcknowledgeRelease(r) ==
    /\ r.st = "armed"
    /\ Known(releases, <<r.p, r.e, r.k>>)
    /\ SetRelease(r, ReleaseState(r))
    /\ UNCHANGED <<hostVars, wire, callerVars>>

-----------------------------------------------------------------------------
(* The object operations.                                                  *)

LiveFence(p, e) == binding[p] = e /\ e \notin expired[p]

PrepareOperation(p, kind) ==
    LET t == journal[Current]
        rev == IF kind = "write" THEN t.want[p] ELSE t.ops[LatestOf(WritesOf(t, p))].res
    IN /\ t.state = "open" \/ (t.state = "blocked" /\ kind = "rollback")
       /\ LiveFence(p, binding[p])
       /\ Acquired(t, p, binding[p])
       /\ ReleasesOf(t, p, binding[p]) = {}
       /\ kind = "write" => t.phase = -1
       /\ kind = "rollback" => WritesOf(t, p) # {}
       /\ Store([t EXCEPT !.ops = Append(@, NewOperation(p, kind, binding[p], rev))])
       /\ UNCHANGED <<hostVars, wire, callerVars>>

Observe(p) ==
    /\ \E e \in Epochs : Known(fences, <<p, e>>)
    /\ obs' = [obs EXCEPT ![p] =
          [rev |-> doc[p].rev, fp |-> doc[p].fp,
           seen |-> {x \in DOMAIN fences : x[1] = p} \cup
                    {x \in DOMAIN effects : Op(x[1], x[2]).p = p}]]
    /\ UNCHANGED <<journal, hostVars, wire, recent>>

FreshlyObserved(p) == obs[p] # NoObservation

IsPreimage(o, op) == o.rev = op.rev /\ o.fp = PreFingerprint(op)

MatchesReceipt(o, op, id) ==
    /\ o.rev = op.res
    /\ o.fp = IF op.out = "applied" THEN PostFingerprint(op) ELSE PreFingerprint(op)
    /\ id \in o.seen

MayArm(t, i) ==
    /\ t.phase # -1 => i > t.phase
    /\ t.state = "blocked" => t.ops[i].kind = "rollback"
    /\ ReleasesOf(t, t.ops[i].p, t.ops[i].e) = {}

\* A recorded intent is armed, and asked to be dispatched, on a fresh observation of the
\* exact preimage under the current fence; any other document or fence blocks it.
ReconcileRecorded(i) ==
    LET t == journal[Current]  op == t.ops[i]
    IN /\ op.st = "recorded"
       /\ FreshlyObserved(op.p)
       /\ <<op.p, op.e>> \in obs[op.p].seen
       /\ IF IsPreimage(obs[op.p], op) /\ LiveFence(op.p, op.e)
          THEN /\ MayArm(t, i)
               /\ StoreOp(i, [op EXCEPT !.st = "armed"])
               /\ wire' = wire \cup {ObjectRequest(Current, i)}
          ELSE BlockOp(i) /\ UNCHANGED wire
       /\ UNCHANGED <<hostVars, callerVars>>

Acknowledge(i) ==
    LET op == Op(Current, i)
    IN /\ op.st = "armed"
       /\ Known(effects, <<Current, i>>)
       /\ StoreOp(i, WithReceipt(op, effects[<<Current, i>>]))
       /\ UNCHANGED <<hostVars, wire, callerVars>>

\* A receipt, or an earlier verification, is confirmed by a fresh observation of what the
\* receipt says; any other document blocks the operation.  The caller observes again
\* before it verifies again.
VerifyReceipt(i) ==
    LET t == journal[Current]  op == t.ops[i]
    IN /\ op.st \in {"acknowledged", "verified"}
       /\ t.state \in {"open", "blocked"}
       /\ FreshlyObserved(op.p)
       /\ IF MatchesReceipt(obs[op.p], op, <<Current, i>>)
          THEN /\ StoreOp(i, [op EXCEPT !.st = "verified"])
               /\ recent' = recent \cup {<<Current, i>>}
               /\ obs' = [obs EXCEPT ![op.p] = NoObservation]
          ELSE BlockOp(i) /\ UNCHANGED <<obs, recent>>
       /\ UNCHANGED <<hostVars, wire>>

\* The caller gives an operation up (journal.block_operation).
AbortOperation(i) ==
    /\ Op(Current, i).st # "blocked"
    /\ BlockOp(i)
    /\ UNCHANGED <<hostVars, wire, callerVars>>

-----------------------------------------------------------------------------
(* The hosts.  A request is executed once; its outcome is kept, and an     *)
(* outcome "no_effect" is a tombstone: the request can never take effect.  *)

HostHighWater(p) ==
    LET S == {x[2] : x \in {y \in DOMAIN fences : y[1] = p}}
    IN LatestOf(S \cup {0})

\* A fence is acquired, and an acquisition is ruled out, on either side of the end of
\* its lease; a receipt that says otherwise is refused.
AcquiredInTime(p, e) == e \notin expired[p]
RuledOutInTime(p, e) == e \in expired[p]

HostAcquire(p, e) ==
    /\ AcquireRequest(p, e) \in wire
    /\ ~Known(fences, <<p, e>>)
    /\ binding[p] = 0
    /\ e > HostHighWater(p)
    /\ AcquiredInTime(p, e)
    /\ fences' = With(fences, <<p, e>>, "applied")
    /\ binding' = [binding EXCEPT ![p] = e]
    /\ UNCHANGED <<journal, expired, releases, effects, doc, wire, callerVars>>

\* Asked for the outcome of an acquisition it never saw, the authority rules it out, but
\* only after the lease it would have had.
HostTombstoneAcquisition(r) ==
    /\ r.st = "armed"
    /\ ~Known(fences, <<r.p, r.e>>)
    /\ RuledOutInTime(r.p, r.e)
    /\ fences' = With(fences, <<r.p, r.e>>, "no_effect")
    /\ UNCHANGED <<journal, binding, expired, releases, effects, doc, wire, callerVars>>

HostRelease(p, e, k) ==
    /\ ReleaseRequest(p, e, k) \in wire
    /\ ~Known(releases, <<p, e, k>>)
    /\ binding[p] = e
    /\ releases' = With(releases, <<p, e, k>>, "applied")
    /\ binding' = [binding EXCEPT ![p] = 0]
    /\ UNCHANGED <<journal, expired, fences, effects, doc, wire, callerVars>>

HostTombstoneRelease(r) ==
    /\ r.st = "armed"
    /\ ~Known(releases, <<r.p, r.e, r.k>>)
    /\ binding[r.p] = r.e
    /\ releases' = With(releases, <<r.p, r.e, r.k>>, "no_effect")
    /\ UNCHANGED <<journal, binding, expired, fences, effects, doc, wire, callerVars>>

\* The write is conditional: under the current, unexpired fence, on the exact preimage.
\* What an unexpired lease still allows is ruled out only when it has run out.
EffectInTime(op) == LiveFence(op.p, op.e) /\ IsPreimage(doc[op.p], op)
EffectRuledOut(op) == op.e \in expired[op.p]

HostWrite(a, i) ==
    LET op == Op(a, i)
    IN /\ ObjectRequest(a, i) \in wire
       /\ ~Known(effects, <<a, i>>)
       /\ EffectInTime(op)
       /\ doc' = [doc EXCEPT ![op.p] = [rev |-> op.rev + 1, fp |-> PostFingerprint(op)]]
       /\ effects' = With(effects, <<a, i>>, "applied")
       /\ UNCHANGED <<journal, binding, expired, fences, releases, wire, callerVars>>

HostRulesOutWrite(a, i) ==
    LET op == Op(a, i)
    IN /\ op.st = "armed"
       /\ ~Known(effects, <<a, i>>)
       /\ EffectRuledOut(op)
       /\ effects' = With(effects, <<a, i>>, "no_effect")
       /\ UNCHANGED <<journal, binding, expired, fences, releases, doc, wire, callerVars>>

-----------------------------------------------------------------------------
(* The environment: the wire, time, other writers, the caller's crash.     *)

LeaseRunsOut(p, e) ==
    /\ e \notin expired[p]
    /\ \E r \in CurrentAcquisitions : r.p = p /\ r.e = e /\ InPlay(journal[Current], r)
    /\ expired' = [expired EXCEPT ![p] = @ \cup {e}]
    /\ UNCHANGED <<journal, binding, fences, releases, effects, doc, wire, callerVars>>

EvidenceAges(p) ==
    LET aged == {x \in recent : Op(x[1], x[2]).p = p}
    IN /\ FreshlyObserved(p) \/ aged # {}
       /\ obs' = [obs EXCEPT ![p] = NoObservation]
       /\ recent' = recent \ aged
       /\ UNCHANGED <<journal, hostVars, wire>>

\* Somebody else changes the document while no lease protects it.
Drift(p, fp) ==
    /\ ~LiveFence(p, binding[p]) \/ binding[p] = 0
    /\ doc[p].rev < MaxRevision
    /\ doc' = [doc EXCEPT ![p] = [rev |-> @.rev + 1, fp |-> fp]]
    /\ UNCHANGED <<journal, binding, expired, fences, releases, effects, wire, callerVars>>

Crash ==
    /\ obs' = [p \in Providers |-> NoObservation]
    /\ obs' # obs
    /\ UNCHANGED <<journal, hostVars, wire, recent>>

-----------------------------------------------------------------------------
AttemptStep == \/ \E plan \in SUBSET Providers : BeginAttempt(plan)
               \/ FinishAttempt("committed")
               \/ FinishAttempt("restored")

FenceStep ==
    \/ \E p \in Providers : PrepareAcquisition(p)
    \/ \E r \in CurrentAcquisitions : \/ ReconcileAcquisition(r)
                                     \/ AcknowledgeAcquisition(r)
                                     \/ AbortAcquisition(r)
    \/ \E r \in CurrentAcquisitions : PrepareRelease(r.p, r.e)
    \/ \E r \in CurrentReleases : ReconcileRelease(r) \/ AcknowledgeRelease(r)

ObjectStep ==
    \/ \E p \in Providers : Observe(p)
    \/ /\ Current > 0
       /\ \E p \in Providers, kind \in {"write", "rollback"} : PrepareOperation(p, kind)
    \/ \E i \in CurrentOperations : \/ ReconcileRecorded(i)
                                   \/ Acknowledge(i)
                                   \/ VerifyReceipt(i)
                                   \/ AbortOperation(i)

HostStep ==
    \/ \E q \in wire : /\ q.do = "acquire"
                      /\ HostAcquire(q.p, q.e)
    \/ \E q \in wire : /\ q.do = "release"
                      /\ HostRelease(q.p, q.e, q.k)
    \/ \E q \in wire : /\ q.do = "object"
                      /\ HostWrite(q.a, q.i)
    \/ \E r \in CurrentAcquisitions : HostTombstoneAcquisition(r)
    \/ \E r \in CurrentReleases : HostTombstoneRelease(r)
    \/ \E i \in CurrentOperations : HostRulesOutWrite(Current, i)

EnvironmentStep ==
    \/ \E p \in Providers, e \in Epochs : LeaseRunsOut(p, e)
    \/ \E p \in Providers : EvidenceAges(p)
    \/ \E p \in Providers, fp \in {"pre", "foreign"} : Drift(p, fp)
    \/ Crash

Next == AttemptStep \/ FenceStep \/ ObjectStep \/ HostStep \/ EnvironmentStep

Spec == Init /\ [][Next]_vars

-----------------------------------------------------------------------------
(* Correctness.                                                            *)

Attempts(plan) == [state : AttemptStates, want : [plan -> Nat],
             acqs : SUBSET AcquisitionRecords, ops : Seq(OperationRecords),
             rels : SUBSET ReleaseRecords, phase : {-1} \cup Nat]

\* The journal, the hosts' ledgers and the caller's memory hold what they should: every
\* outcome in a ledger belongs to an intent of the journal.
BridgeTypeOK ==
    /\ \A a \in DOMAIN journal : /\ Planned(journal[a]) \subseteq Providers
                               /\ journal[a] \in Attempts(Planned(journal[a]))
    /\ \A p \in Providers : \/ binding[p] = 0
                           \/ /\ Known(fences, <<p, binding[p]>>)
                              /\ fences[<<p, binding[p]>>] = "applied"
    /\ \A p \in Providers : expired[p] \subseteq 1..EpochHighWater(p)
    /\ \A x \in DOMAIN effects \cup recent : x[1] \in DOMAIN journal /\ x[2] \in DOMAIN journal[x[1]].ops
    /\ \A x \in DOMAIN fences : x[2] \in 1..EpochHighWater(x[1])

Asked(r) == r.st # "recorded" /\ ~(r.st = "blocked" /\ r.from = "recorded")

\* Nothing leaves the caller before the journal durably says that it may have: each
\* request on the wire or about to be sent has a record that was armed, so that a crash
\* never leaves an effect nobody would look for.
RequestsAreJournalled ==
    \A q \in wire :
        CASE q.do = "acquire" -> \E a \in DOMAIN journal : \E r \in journal[a].acqs :
                                    r.p = q.p /\ r.e = q.e /\ Asked(r)
          [] q.do = "release" -> \E a \in DOMAIN journal : \E r \in journal[a].rels :
                                    r.p = q.p /\ r.e = q.e /\ r.k = q.k /\ r.st # "recorded"
          [] q.do = "object"  -> Asked(Op(q.a, q.i))

\* Over all attempts a provider has at most one fence that is held or may yet be held
\* (the succession rule inside an attempt, the end of life of a terminal one between
\* attempts).
OneFenceInPlay ==
    \A p \in Providers, a, b \in DOMAIN journal :
        \A r \in journal[a].acqs, s \in journal[b].acqs :
            (r.p = p /\ s.p = p /\ InPlay(journal[a], r) /\ InPlay(journal[b], s)) => r = s

\* Once the release of a fence has been asked for, no write under it can still happen:
\* each has its outcome at the host, or was never asked for.
ReleaseLeavesNothingInFlight ==
    \A a \in DOMAIN journal : \A r \in journal[a].rels :
        \A i \in OperationsUnder(journal[a], r.p, r.e) :
            \/ Known(effects, <<a, i>>)
            \/ ObjectRequest(a, i) \notin wire

\* What makes a crash at any moment harmless (BridgeTransactionRecorder): one fence in
\* play, nothing in flight behind its release, nothing on the wire without a record.
RecorderInvariant ==
    BridgeTypeOK /\ OneFenceInPlay /\ ReleaseLeavesNothingInFlight /\ RequestsAreJournalled

Terminal(a) == journal[a].state \in {"committed", "restored"}

\* A committed or restored attempt is over: no delayed request of it changes a document,
\* takes a fence or lets one go afterwards.
TerminalIsFinal ==
    [][\A a \in DOMAIN journal : Terminal(a) =>
          /\ \A x \in DOMAIN effects' \ DOMAIN effects : x[1] # a
          /\ \A p \in Providers : binding'[p] # binding[p] =>
                ~\E r \in journal[a].acqs : r.p = p /\ r.e \in {binding[p], binding'[p]}]_vars

\* A retry expects the revisions that the earlier attempts really left behind, as the
\* hosts' ledgers tell it (_retry_expected_writes).
RetryStartsWhereTheLastEnded ==
    \A a \in DOMAIN journal : a > 1 =>
        \A p \in Planned(journal[a]) :
            LET ours == {x \in DOMAIN effects : /\ effects[x] = "applied"
                                               /\ x[1] < a
                                               /\ Op(x[1], x[2]).p = p}
                newest == CHOOSE x \in ours : \A y \in ours :
                              y[1] < x[1] \/ (y[1] = x[1] /\ y[2] <= x[2])
            IN journal[a].want[p] = IF ours = {} THEN journal[1].want[p]
                                    ELSE Op(newest[1], newest[2]).rev + 1

\* The plan's change of p's document is in force: written more often than taken back.
InForce(p) ==
    LET did(kind) == {x \in DOMAIN effects : /\ effects[x] = "applied"
                                             /\ Op(x[1], x[2]).p = p
                                             /\ Op(x[1], x[2]).kind = kind}
    IN Cardinality(did("write")) > Cardinality(did("rollback"))

Outcome == IF Current = 0 THEN "idle"
           ELSE IF journal[Current].state = "blocked" THEN "open"
           ELSE journal[Current].state

\* The transaction keeps the promise of AllOrNothing, through crashes, lost replies and
\* delayed requests.
Abstract == INSTANCE AllOrNothing WITH
                status <- Outcome,
                plan <- IF Current = 0 THEN {} ELSE Planned(journal[1]),
                effect <- [p \in Providers |-> InForce(p)]
AllOrNothing == Abstract!Spec
=============================================================================
