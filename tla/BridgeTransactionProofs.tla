----------------------- MODULE BridgeTransactionProofs -----------------------
(***************************************************************************)
(* Proofs about the bridge transaction: one fence in play, nothing in      *)
(* flight behind a release, nothing on the wire without a record, the      *)
(* refinement of AllOrNothing, and retries that start from what was left,  *)
(* for any providers, attempts, epochs, releases, foreign writes and       *)
(* crashes.                                                                *)
(***************************************************************************)
EXTENDS BridgeTransaction, FiniteSetTheorems, WellFoundedInduction, TLAPS

-----------------------------------------------------------------------------
(* The inductive invariant. *)

Outcomes   == {"applied", "no_effect"}
AnyAttempt == UNION {Attempts(plan) : plan \in SUBSET Providers}

\* What the journal has a record of.
Allocated(p, e) == \E a \in DOMAIN journal : \E r \in journal[a].acqs : r.p = p /\ r.e = e
AcquisitionAsked(p, e) ==
    \E a \in DOMAIN journal : \E r \in journal[a].acqs : r.p = p /\ r.e = e /\ Asked(r)
ReleaseAsked(p, e, k) ==
    \E a \in DOMAIN journal : \E r \in journal[a].rels :
        r.p = p /\ r.e = e /\ r.k = k /\ r.st # "recorded"
OperationAsked(a, i) ==
    a \in DOMAIN journal /\ i \in DOMAIN journal[a].ops /\ Asked(Op(a, i))

\* What the record t of attempt a was told is what the hosts' ledgers say.
Told(a, t) ==
    /\ \A r \in t.acqs :
           /\ r.st \in {"acknowledged", "no_effect"} => Known(fences, <<r.p, r.e>>)
           /\ r.st = "acknowledged" => fences[<<r.p, r.e>>] = "applied"
    /\ \A r \in t.rels : r.st = "acknowledged" =>
           Known(releases, <<r.p, r.e, r.k>>) /\ releases[<<r.p, r.e, r.k>>] = "applied"
    /\ \A i \in DOMAIN t.ops : t.ops[i].out # None =>
           /\ Known(effects, <<a, i>>) /\ effects[<<a, i>>] = t.ops[i].out
           /\ t.ops[i].res = IF t.ops[i].out = "applied" THEN t.ops[i].rev + 1 ELSE t.ops[i].rev

AttemptInv(a) ==
    /\ AttemptValid(journal[a]) /\ Told(a, journal[a])
    /\ IsFiniteSet(journal[a].rels)
    /\ \A r \in journal[a].acqs : r.p \in Planned(journal[a])
    /\ Planned(journal[a]) = Planned(journal[1]) /\ Planned(journal[a]) # {}

JournalInv ==
    /\ journal \in Seq(AnyAttempt)
    /\ \A a \in DOMAIN journal : AttemptInv(a)
    /\ \A a \in DOMAIN journal : a # Current => journal[a].state = "restored"
    /\ \A a, b \in DOMAIN journal : a < b =>
           \A r \in journal[a].acqs, s \in journal[b].acqs : r.p = s.p => r.e < s.e

\* Every outcome at a host is that of a request, and a fence that is held was never let go.
LedgerInv ==
    /\ fences \in [DOMAIN fences -> Outcomes] /\ DOMAIN fences \subseteq Providers \X Epochs
    /\ releases \in [DOMAIN releases -> Outcomes]
    /\ effects \in [DOMAIN effects -> Outcomes] /\ DOMAIN effects \subseteq Nat \X Nat
    /\ IsFiniteSet(DOMAIN effects)
    /\ \A x \in DOMAIN fences : AcquisitionAsked(x[1], x[2])
    /\ \A p \in Providers, e \in Epochs, k \in 1 .. MaxReleases :
           Known(releases, <<p, e, k>>) => Known(fences, <<p, e>>)
    /\ \A x \in DOMAIN effects : OperationAsked(x[1], x[2])
    /\ binding \in [Providers -> Nat] /\ expired \in [Providers -> SUBSET Epochs]
    /\ doc \in [Providers -> [rev : Nat, fp : Fingerprints]]
    /\ \A p \in Providers : binding[p] # 0 =>
           /\ Known(fences, <<p, binding[p]>>) /\ fences[<<p, binding[p]>>] = "applied"
           /\ \A k \in 1 .. MaxReleases : Known(releases, <<p, binding[p], k>>) =>
                  releases[<<p, binding[p], k>>] # "applied"

WireInv ==
    \A q \in wire :
        /\ q.do \in {"acquire", "release", "object"}
        /\ q.do = "acquire" => AcquisitionAsked(q.p, q.e)
        /\ q.do = "release" => ReleaseAsked(q.p, q.e, q.k)
        /\ q.do = "object"  => OperationAsked(q.a, q.i)

CallerInv ==
    /\ \A p \in Providers : \A e \in expired[p] : Allocated(p, e)
    /\ \A x \in recent : x[1] \in DOMAIN journal /\ x[2] \in DOMAIN journal[x[1]].ops

BridgeInv == JournalInv /\ LedgerInv /\ WireInv /\ CallerInv

\* The current attempt's change of p's document is in force.
Standing(p) ==
    /\ Current # 0
    /\ \E i \in WritesOf(journal[Current], p) :
           Known(effects, <<Current, i>>) /\ effects[<<Current, i>>] = "applied"
    /\ \A i \in RollbacksOf(journal[Current], p) :
           ~(Known(effects, <<Current, i>>) /\ effects[<<Current, i>>] = "applied")

Did(p, kind) == {x \in DOMAIN effects : /\ effects[x] = "applied"
                                        /\ Op(x[1], x[2]).p = p /\ Op(x[1], x[2]).kind = kind}

BalanceInv ==
    \A p \in Providers : Cardinality(Did(p, "write")) =
        Cardinality(Did(p, "rollback")) + IF Standing(p) THEN 1 ELSE 0

\* How a record of the journal may change: intents stay, and what was asked for stays asked.
SameIntent(op, new) ==
    new.p = op.p /\ new.kind = op.kind /\ new.e = op.e /\ new.rev = op.rev /\ (Asked(op) => Asked(new))

EvolvesTo(t, u) ==
    /\ u.want = t.want
    /\ \A r \in t.acqs : \E s \in u.acqs : s.p = r.p /\ s.e = r.e /\ (Asked(r) => Asked(s))
    /\ \A s \in u.acqs :
           /\ s.p \in Planned(t)
           /\ \/ \E r \in t.acqs : s.p = r.p /\ s.e = r.e
              \/ \A a \in DOMAIN journal : \A r \in journal[a].acqs : r.p = s.p => r.e < s.e
    /\ \A r \in t.rels : \E s \in u.rels :
           s.p = r.p /\ s.e = r.e /\ s.k = r.k /\ (r.st # "recorded" => s.st # "recorded")
    /\ DOMAIN t.ops \subseteq DOMAIN u.ops
    /\ \A i \in DOMAIN t.ops : SameIntent(t.ops[i], u.ops[i])

Stores(u) ==
    /\ Current # 0
    /\ u \in AnyAttempt /\ AttemptValid(u) /\ Told(Current, u) /\ IsFiniteSet(u.rels)
    /\ EvolvesTo(journal[Current], u)
    /\ journal' = [journal EXCEPT ![Current] = u]

JournalGrows ==
    /\ DOMAIN journal \subseteq DOMAIN journal'
    /\ \A p, e : Allocated(p, e) => Allocated(p, e)'
    /\ \A p, e : AcquisitionAsked(p, e) => AcquisitionAsked(p, e)'
    /\ \A p, e, k : ReleaseAsked(p, e, k) => ReleaseAsked(p, e, k)'
    /\ \A a, i : OperationAsked(a, i) => OperationAsked(a, i)'
    /\ \A a \in DOMAIN journal : DOMAIN journal[a].ops \subseteq DOMAIN journal'[a].ops
    /\ \A a \in DOMAIN journal : \A i \in DOMAIN journal[a].ops :
           SameIntent(journal[a].ops[i], journal'[a].ops[i])
    /\ \A a \in DOMAIN journal : journal'[a].want = journal[a].want

\* What a step that stores an attempt keeps.
Kept == BridgeInv' /\ JournalGrows /\ DOMAIN journal' = DOMAIN journal /\ UNCHANGED hostVars

-----------------------------------------------------------------------------
(* Numbers, ledgers and records. *)

\* A bounded set of numbers that is not empty has a latest element.
LEMMA LatestIsIn ==
    ASSUME NEW S, NEW n \in Nat, S \subseteq 0 .. n, S # {}
    PROVE  LatestOf(S) \in S /\ \A j \in S : j <= LatestOf(S)
  <1> DEFINE C == {n - d : d \in S}
  <1>1. \A d \in S : d \in Nat /\ n - d \in Nat
    OBVIOUS
  <1>2. C \subseteq Nat /\ C # {}
    BY <1>1
  <1>3. PICK x \in C : \A y \in C : ~(<<y, x>> \in OpToRel(<, Nat))
    BY <1>2, NatLessThanWellFounded, WFMin
  <1>4. \A y \in C : ~(y < x)
    BY <1>2, <1>3 DEF OpToRel
  <1>5. PICK m \in S : x = n - m
    BY <1>3
  <1>6. ASSUME NEW d \in S
        PROVE  d <= m
    <2>1. ~(n - d < x)
      BY <1>4
    <2>2. QED
      BY <1>1, <1>5, <2>1
  <1>7. \E i \in S : \A j \in S : j <= i
    BY <1>6
  <1>8. QED
    BY <1>7 DEF LatestOf

\* What a ledger holds once an outcome is entered.
IsLedger(f) == f \in [DOMAIN f -> Outcomes]
Gains(f, x, v, g) ==
    /\ IsLedger(g) /\ DOMAIN g = DOMAIN f \cup {x} /\ g[x] = v
    /\ \A y \in DOMAIN f : g[y] = f[y]

\* An outcome entered under a new key makes a ledger longer and changes nothing in it.
LEMMA LedgerGains ==
    ASSUME NEW f, NEW x, NEW v \in Outcomes, NEW g, IsLedger(f), x \notin DOMAIN f, g = With(f, x, v)
    PROVE  Gains(f, x, v, g)
  <1>1. g = [y \in DOMAIN f \cup {x} |-> IF y = x THEN v ELSE f[y]]
    BY DEF With
  <1>2. DOMAIN g = DOMAIN f \cup {x} /\ g[x] = v /\ \A y \in DOMAIN f : g[y] = f[y]
    BY <1>1
  <1>3. \A y \in DOMAIN f \cup {x} : (IF y = x THEN v ELSE f[y]) \in Outcomes
    BY DEF IsLedger
  <1>4. g \in [DOMAIN f \cup {x} -> Outcomes]
    BY <1>1, <1>3
  <1>5. QED
    BY <1>2, <1>4 DEF Gains, IsLedger

\* The attempts of the journal and their records.
LEMMA AttemptTypes ==
    ASSUME NEW t \in AnyAttempt
    PROVE  /\ Planned(t) \subseteq Providers /\ t.want \in [Planned(t) -> Nat]
           /\ t.state \in AttemptStates /\ t.phase \in {-1} \cup Nat
           /\ t.acqs \subseteq AcquisitionRecords /\ t.rels \subseteq ReleaseRecords
           /\ t.ops \in Seq(OperationRecords)
           /\ t \in Attempts(Planned(t))
           /\ t = [state |-> t.state, want |-> t.want, acqs |-> t.acqs, ops |-> t.ops,
                   rels |-> t.rels, phase |-> t.phase]
  <1>1. PICK plan \in SUBSET Providers : t \in Attempts(plan)
    BY DEF AnyAttempt
  <1>2. t.want \in [plan -> Nat]
    BY <1>1 DEF Attempts
  <1>3. Planned(t) = plan
    BY <1>2 DEF Planned
  <1>4. QED
    BY <1>1, <1>3 DEF Attempts

\* The attempts are numbered from 1, and the last of them is the current one.
LEMMA JournalTypes ==
    ASSUME JournalInv
    PROVE  /\ Current \in Nat /\ DOMAIN journal = 1 .. Current
           /\ \A a \in DOMAIN journal : journal[a] \in AnyAttempt
           /\ Current # 0 => Current \in DOMAIN journal /\ 1 \in DOMAIN journal
  BY DEF JournalInv, Current

-----------------------------------------------------------------------------
(* Steps that store an attempt. *)

\* What a storing step leaves of the journal: the current attempt alone is replaced.
LEMMA StoresGrow ==
    ASSUME JournalInv, NEW u, Stores(u)
    PROVE  JournalGrows /\ DOMAIN journal' = DOMAIN journal /\ journal'[Current] = u
           /\ \A a \in DOMAIN journal : a # Current => journal'[a] = journal[a]
  <1>1. /\ DOMAIN journal' = DOMAIN journal /\ journal'[Current] = u
        /\ \A a \in DOMAIN journal : a # Current => journal'[a] = journal[a]
        /\ Current \in DOMAIN journal
    BY JournalTypes DEF Stores, JournalInv
  <1>2. EvolvesTo(journal[Current], u)
    BY DEF Stores
  <1>3. ASSUME NEW a \in DOMAIN journal
        PROVE  /\ \A r \in journal[a].acqs : \E s \in journal'[a].acqs :
                      s.p = r.p /\ s.e = r.e /\ (Asked(r) => Asked(s))
               /\ \A r \in journal[a].rels : \E s \in journal'[a].rels :
                      s.p = r.p /\ s.e = r.e /\ s.k = r.k /\ (r.st # "recorded" => s.st # "recorded")
               /\ DOMAIN journal[a].ops \subseteq DOMAIN journal'[a].ops
               /\ \A i \in DOMAIN journal[a].ops : SameIntent(journal[a].ops[i], journal'[a].ops[i])
               /\ journal'[a].want = journal[a].want
    <2>1. CASE a = Current
      BY <1>1, <1>2, <2>1 DEF EvolvesTo
    <2>2. CASE a # Current
      <3>1. journal'[a] = journal[a]
        BY <1>1, <2>2
      <3>2. QED
        BY <3>1 DEF SameIntent
    <2>3. QED
      BY <2>1, <2>2
  <1>4. \A p, e : Allocated(p, e) => Allocated(p, e)'
    BY <1>1, <1>3 DEF Allocated
  <1>5. \A p, e : AcquisitionAsked(p, e) => AcquisitionAsked(p, e)'
    BY <1>1, <1>3 DEF AcquisitionAsked, Asked
  <1>6. \A p, e, k : ReleaseAsked(p, e, k) => ReleaseAsked(p, e, k)'
    BY <1>1, <1>3 DEF ReleaseAsked
  <1>7. \A a, i : OperationAsked(a, i) => OperationAsked(a, i)'
    BY <1>1, <1>3 DEF OperationAsked, SameIntent, Op, Asked
  <1>8. QED
    BY <1>1, <1>3, <1>4, <1>5, <1>6, <1>7 DEF JournalGrows

\* The ledgers, the wire and the caller's memory, when the journal grows and the hosts rest.
LEMMA GrowthKeeps ==
    ASSUME LedgerInv, WireInv, CallerInv, JournalGrows, UNCHANGED hostVars,
           \A q \in wire' :
               \/ q \in wire
               \/ q.do = "acquire" /\ AcquisitionAsked(q.p, q.e)'
               \/ q.do = "release" /\ ReleaseAsked(q.p, q.e, q.k)'
               \/ q.do = "object" /\ OperationAsked(q.a, q.i)',
           \A x \in recent' : x \in recent \/
               (x[1] \in DOMAIN journal' /\ x[2] \in DOMAIN journal'[x[1]].ops)
    PROVE  LedgerInv' /\ WireInv' /\ CallerInv'
  <1>1. /\ binding' = binding /\ expired' = expired /\ fences' = fences /\ releases' = releases
        /\ effects' = effects /\ doc' = doc
    BY DEF hostVars
  <1>2. LedgerInv'
    <2>1. \A x \in DOMAIN fences' : AcquisitionAsked(x[1], x[2])'
      BY <1>1 DEF LedgerInv, JournalGrows
    <2>2. \A x \in DOMAIN effects' : OperationAsked(x[1], x[2])'
      BY <1>1 DEF LedgerInv, JournalGrows
    <2>3. QED
      BY <1>1, <2>1, <2>2 DEF LedgerInv, Known
  <1>3. WireInv'
    BY DEF WireInv, JournalGrows
  <1>4. CallerInv'
    <2>1. \A p \in Providers : \A e \in expired'[p] : Allocated(p, e)'
      BY <1>1 DEF CallerInv, JournalGrows
    <2>2. \A x \in recent' : x[1] \in DOMAIN journal' /\ x[2] \in DOMAIN journal'[x[1]].ops
      BY DEF CallerInv, JournalGrows
    <2>3. QED
      BY <2>1, <2>2 DEF CallerInv
  <1>5. QED
    BY <1>2, <1>3, <1>4

\* The records of attempt a are still what the ledgers say.
LEMMA ToldStays ==
    ASSUME NEW a, NEW t, Told(a, t), UNCHANGED hostVars
    PROVE  Told(a, t)'
  BY DEF Told, Known, hostVars

\* A valid attempt that evolves from the current one keeps the journal in order.
LEMMA StoresKeepJournal ==
    ASSUME BridgeInv, NEW u, Stores(u), UNCHANGED hostVars
    PROVE  JournalInv'
  <1> DEFINE t == journal[Current]
  <1>1. /\ DOMAIN journal' = DOMAIN journal /\ journal'[Current] = u
        /\ \A a \in DOMAIN journal : a # Current => journal'[a] = journal[a]
        /\ JournalInv
    BY StoresGrow DEF BridgeInv
  <1>2. /\ Current \in DOMAIN journal /\ 1 \in DOMAIN journal /\ t \in AnyAttempt /\ u \in AnyAttempt
        /\ Current' = Current /\ Current \in Nat /\ DOMAIN journal = 1 .. Current
    BY <1>1, JournalTypes DEF Stores, Current
  <1>3. journal' \in Seq(AnyAttempt)
    BY <1>1, <1>2 DEF Stores, JournalInv
  <1>4. Planned(u) = Planned(t) /\ AttemptInv(Current)
    BY <1>1, <1>2 DEF Stores, EvolvesTo, Planned, JournalInv
  <1>5. Planned(journal'[1]) = Planned(journal[1])
    BY <1>1, <1>2, <1>4
  <1>6. ASSUME NEW a \in DOMAIN journal
        PROVE  AttemptInv(a)'
    <2>1. CASE a = Current
      <3>1. \A r \in u.acqs : r.p \in Planned(u)
        BY <1>4 DEF Stores, EvolvesTo
      <3>2. Told(a, u)'
        BY <2>1, ToldStays DEF Stores
      <3>3. Told(a, journal[a])'
        BY <1>1, <2>1, <3>2 DEF Told, Known
      <3>4. QED
        BY <1>1, <1>4, <1>5, <2>1, <3>1, <3>3 DEF AttemptInv, Stores
    <2>2. CASE a # Current
      <3>1. journal'[a] = journal[a] /\ AttemptInv(a)
        BY <1>1, <2>2 DEF JournalInv
      <3>2. Told(a, journal[a])'
        BY <3>1 DEF AttemptInv, Told, Known, hostVars
      <3>3. QED
        BY <1>5, <3>1, <3>2 DEF AttemptInv
    <2>3. QED
      BY <2>1, <2>2
  <1>7. ASSUME NEW a \in DOMAIN journal, NEW b \in DOMAIN journal, a < b,
               NEW r \in journal'[a].acqs, NEW s \in journal'[b].acqs, r.p = s.p
        PROVE  r.e < s.e
    <2>1. a # Current
      BY <1>2, <1>7
    <2>2. r \in journal[a].acqs
      BY <1>1, <1>7, <2>1
    <2>3. CASE b # Current
      BY <1>1, <1>7, <2>2, <2>3 DEF JournalInv
    <2>4. CASE b = Current
      <3>1. s \in u.acqs
        BY <1>1, <1>7, <2>4
      <3>2. CASE \E q \in t.acqs : s.p = q.p /\ s.e = q.e
        BY <1>1, <1>7, <2>2, <2>4, <3>2 DEF JournalInv
      <3>3. CASE ~\E q \in t.acqs : s.p = q.p /\ s.e = q.e
        BY <1>7, <2>2, <3>1, <3>3 DEF Stores, EvolvesTo
      <3>4. QED
        BY <3>2, <3>3
    <2>5. QED
      BY <2>3, <2>4
  <1>8. \A a \in DOMAIN journal' : a # Current' => journal'[a].state = "restored"
    BY <1>1, <1>2 DEF JournalInv
  <1>9. QED
    BY <1>1, <1>3, <1>6, <1>7, <1>8 DEF JournalInv

\* Storing an attempt, with or without a new request, keeps the invariant.
LEMMA StoresKeep ==
    ASSUME BridgeInv, NEW u, Stores(u), UNCHANGED hostVars,
           \A q \in wire' :
               \/ q \in wire
               \/ q.do = "acquire" /\ AcquisitionAsked(q.p, q.e)'
               \/ q.do = "release" /\ ReleaseAsked(q.p, q.e, q.k)'
               \/ q.do = "object" /\ OperationAsked(q.a, q.i)',
           \A x \in recent' : x \in recent \/ (x[1] = Current /\ x[2] \in DOMAIN u.ops)
    PROVE  Kept
  <1>1. /\ JournalGrows /\ Current \in DOMAIN journal /\ DOMAIN journal' = DOMAIN journal
        /\ journal'[Current] = u
    BY StoresGrow, JournalTypes DEF BridgeInv, Stores
  <1>2. JournalInv'
    BY StoresKeepJournal
  <1>3. LedgerInv' /\ WireInv' /\ CallerInv'
    <2>1. ASSUME NEW x \in recent', x \notin recent
          PROVE  x[1] \in DOMAIN journal' /\ x[2] \in DOMAIN journal'[x[1]].ops
      <3>1. x[1] = Current /\ x[2] \in DOMAIN u.ops
        BY <2>1
      <3>2. QED
        BY <1>1, <3>1
    <2>2. QED
      BY <1>1, <2>1, GrowthKeeps DEF BridgeInv
  <1>4. QED
    BY <1>1, <1>2, <1>3 DEF BridgeInv, Kept

-----------------------------------------------------------------------------
(* Fences. *)

\* A new stage of a fence is stored once the host's ledger allows it.
LEMMA SetAcquisitionStores ==
    ASSUME BridgeInv, NEW r \in CurrentAcquisitions, NEW st \in FenceStates, NEW state \in AttemptStates,
           st = "blocked" => r.st \in {"recorded", "armed"},
           st # "blocked" => st # "recorded",
           st \in {"acknowledged", "no_effect"} => Known(fences, <<r.p, r.e>>),
           st = "acknowledged" => fences[<<r.p, r.e>>] = "applied",
           SetAcquisition(r, st, state)
    PROVE  \E u : /\ Stores(u)
                  /\ u.ops = journal[Current].ops /\ u.rels = journal[Current].rels /\ u.state = state
                  /\ st # "blocked" => \E s \in u.acqs : s.p = r.p /\ s.e = r.e /\ Asked(s)
  <1>0. PICK t : t = journal[Current]
    OBVIOUS
  <1>1. PICK new : new = [r EXCEPT !.st = st, !.from = IF st = "blocked" THEN r.st ELSE None]
    OBVIOUS
  <1>2. Current # 0 /\ r \in t.acqs
    BY <1>0 DEF CurrentAcquisitions
  <1>3. /\ Current \in DOMAIN journal /\ t \in AnyAttempt /\ AttemptInv(Current)
        /\ r \in AcquisitionRecords /\ t.acqs \subseteq AcquisitionRecords
    BY <1>0, <1>2, JournalTypes, AttemptTypes DEF BridgeInv, JournalInv
  <1>4. /\ new.p = r.p /\ new.e = r.e /\ new.st = st
        /\ new.from = (IF st = "blocked" THEN r.st ELSE None)
        /\ new \in AcquisitionRecords
    BY <1>1, <1>3 DEF AcquisitionRecords
  <1>5. Asked(r) => Asked(new)
    BY <1>4 DEF Asked
  <1>6. PICK acqs : acqs = (t.acqs \ {r}) \cup {new}
    OBVIOUS
  <1>7. acqs \in SUBSET AcquisitionRecords
    BY <1>3, <1>4, <1>6
  <1>8. PICK u : u = [t EXCEPT !.state = state, !.acqs = acqs]
    OBVIOUS
  <1>9. Store(u)
    BY <1>0, <1>1, <1>6, <1>8 DEF SetAcquisition
  <1>10. /\ u \in AnyAttempt
         /\ u.want = t.want /\ u.acqs = acqs /\ u.ops = t.ops /\ u.rels = t.rels /\ u.state = state
    <2>1. t \in Attempts(Planned(t)) /\ Planned(t) \in SUBSET Providers
      BY <1>3, AttemptTypes
    <2>2. u \in Attempts(Planned(t)) /\ u.want = t.want /\ u.acqs = acqs /\ u.ops = t.ops
          /\ u.rels = t.rels /\ u.state = state
      BY <1>7, <1>8, <2>1 DEF Attempts
    <2>3. QED
      BY <2>1, <2>2 DEF AnyAttempt
  <1>11. EvolvesTo(t, u)
    <2>1. \A q \in t.acqs : \E s \in u.acqs : s.p = q.p /\ s.e = q.e /\ (Asked(q) => Asked(s))
      <3> SUFFICES ASSUME NEW q \in t.acqs
                   PROVE  \E s \in u.acqs : s.p = q.p /\ s.e = q.e /\ (Asked(q) => Asked(s))
        OBVIOUS
      <3>1. CASE q = r
        BY <1>4, <1>5, <1>6, <1>10, <3>1
      <3>2. CASE q # r
        BY <1>6, <1>10, <3>2
      <3>3. QED
        BY <3>1, <3>2
    <2>2. ASSUME NEW s \in u.acqs
          PROVE  s.p \in Planned(t) /\ \E q \in t.acqs : s.p = q.p /\ s.e = q.e
      BY <1>0, <1>2, <1>3, <1>4, <1>6, <1>10 DEF AttemptInv
    <2>3. QED
      BY <1>10, <2>1, <2>2 DEF EvolvesTo, SameIntent
  <1>12. Told(Current, u)
    <2>1. Told(Current, t)
      BY <1>0, <1>3 DEF AttemptInv
    <2>2. ASSUME NEW s \in u.acqs
          PROVE  /\ s.st \in {"acknowledged", "no_effect"} => Known(fences, <<s.p, s.e>>)
                 /\ s.st = "acknowledged" => fences[<<s.p, s.e>>] = "applied"
      <3>1. CASE s = new
        BY <1>4, <3>1
      <3>2. CASE s \in t.acqs
        BY <2>1, <3>2 DEF Told
      <3>3. QED
        BY <1>6, <1>10, <3>1, <3>2
    <2>3. QED
      BY <1>10, <2>1, <2>2 DEF Told
  <1>13. Stores(u)
    BY <1>0, <1>2, <1>3, <1>9, <1>10, <1>11, <1>12 DEF Stores, Store, AttemptInv
  <1>14. st # "blocked" => Asked(new)
    BY <1>4 DEF Asked
  <1>15. QED
    BY <1>0, <1>4, <1>6, <1>10, <1>13, <1>14

\* Arming, acknowledging and blocking an acquisition.
LEMMA AcquisitionSteps ==
    ASSUME BridgeInv, NEW r \in CurrentAcquisitions,
           ReconcileAcquisition(r) \/ AcknowledgeAcquisition(r) \/ AbortAcquisition(r)
    PROVE  Kept
  <1>1. /\ Current # 0 /\ Current \in DOMAIN journal /\ journal[Current] \in AnyAttempt
        /\ journal[Current].state \in AttemptStates
    BY JournalTypes, AttemptTypes DEF CurrentAcquisitions, BridgeInv
  <1>2. UNCHANGED hostVars /\ recent' = recent
    BY DEF ReconcileAcquisition, AcknowledgeAcquisition, AbortAcquisition, callerVars
  <1>3. ASSUME NEW st \in {"armed", "blocked", "acknowledged", "no_effect"}, NEW state \in AttemptStates,
               SetAcquisition(r, st, state),
               st = "blocked" => r.st \in {"recorded", "armed"},
               st \in {"acknowledged", "no_effect"} => Known(fences, <<r.p, r.e>>),
               st = "acknowledged" => fences[<<r.p, r.e>>] = "applied",
               wire' = wire \/ (st = "armed" /\ wire' = wire \cup {AcquireRequest(r.p, r.e)})
        PROVE  Kept
    <2>1. PICK u : /\ Stores(u)
                   /\ st # "blocked" => \E s \in u.acqs : s.p = r.p /\ s.e = r.e /\ Asked(s)
      <3>1. st \in FenceStates
        BY DEF FenceStates
      <3>2. QED
        BY <1>3, <3>1, SetAcquisitionStores
    <2>2. journal'[Current] = u /\ DOMAIN journal' = DOMAIN journal
      BY <2>1, StoresGrow DEF BridgeInv
    <2>3. st = "armed" => AcquisitionAsked(r.p, r.e)'
      BY <1>1, <2>1, <2>2 DEF AcquisitionAsked, Asked
    <2>4. ASSUME NEW q \in wire'
          PROVE  q \in wire \/ (q.do = "acquire" /\ AcquisitionAsked(q.p, q.e)')
      BY <1>3, <2>3 DEF AcquireRequest
    <2>5. QED
      BY <1>2, <2>1, <2>4, StoresKeep
  <1>4. CASE ReconcileAcquisition(r)
    BY <1>1, <1>3, <1>4 DEF ReconcileAcquisition, AttemptStates
  <1>5. CASE AcknowledgeAcquisition(r)
    BY <1>1, <1>3, <1>5 DEF AcknowledgeAcquisition, AcquisitionState, AttemptStates
  <1>6. CASE AbortAcquisition(r)
    BY <1>1, <1>3, <1>6 DEF AbortAcquisition, AttemptStates
  <1>7. QED
    BY <1>4, <1>5, <1>6

\* The epochs the journal has allocated are bounded by the highest of them.
LEMMA HighWater ==
    ASSUME JournalInv, NEW p \in Providers
    PROVE  /\ EpochHighWater(p) \in 0 .. MaxEpoch
           /\ \A a \in DOMAIN journal : \A r \in journal[a].acqs : r.p = p => r.e <= EpochHighWater(p)
  <1> DEFINE S == UNION {{r.e : r \in {x \in journal[a].acqs : x.p = p}} : a \in DOMAIN journal}
  <1>1. \A a \in DOMAIN journal : journal[a].acqs \subseteq AcquisitionRecords
    BY JournalTypes, AttemptTypes
  <1>2. MaxEpoch \in Nat
    BY BridgeBounds
  <1>3. S \cup {0} \subseteq 0 .. MaxEpoch
    BY <1>1, <1>2 DEF AcquisitionRecords, Epochs
  <1>4. EpochHighWater(p) = LatestOf(S \cup {0})
    BY DEF EpochHighWater
  <1>5. \A a \in DOMAIN journal : \A r \in journal[a].acqs : r.p = p => r.e \in S
    OBVIOUS
  <1> HIDE DEF S
  <1>6. LatestOf(S \cup {0}) \in S \cup {0} /\ \A j \in S \cup {0} : j <= LatestOf(S \cup {0})
    BY <1>2, <1>3, LatestIsIn
  <1>7. QED
    BY <1>3, <1>4, <1>5, <1>6

\* A new acquisition takes an epoch above all others.
LEMMA PrepareAcquisitionSteps ==
    ASSUME BridgeInv, NEW p \in Providers, PrepareAcquisition(p)
    PROVE  Kept
  <1>0. PICK t : t = journal[Current]
    OBVIOUS
  <1>1. PICK e : e = EpochHighWater(p) + 1
    OBVIOUS
  <1>2. PICK new : new = [p |-> p, e |-> e, st |-> "recorded", from |-> None]
    OBVIOUS
  <1>3. PICK acqs : acqs = t.acqs \cup {new}
    OBVIOUS
  <1>4. PICK u : u = [t EXCEPT !.acqs = acqs]
    OBVIOUS
  <1>5. /\ Current # 0 /\ Current \in DOMAIN journal /\ t \in AnyAttempt /\ AttemptInv(Current)
        /\ JournalInv /\ t.acqs \subseteq AcquisitionRecords
    <2>1. JournalInv /\ Current > 0
      BY DEF BridgeInv, PrepareAcquisition
    <2>2. Current # 0 /\ Current \in DOMAIN journal /\ t \in AnyAttempt
      BY <1>0, <2>1, JournalTypes
    <2>3. QED
      BY <2>1, <2>2, AttemptTypes DEF JournalInv
  <1>6. /\ Store(u) /\ e <= MaxEpoch /\ p \in Planned(t)
        /\ UNCHANGED hostVars /\ recent' = recent /\ wire' = wire
    BY <1>0, <1>1, <1>2, <1>3, <1>4 DEF PrepareAcquisition, callerVars
  <1>7. e \in Epochs /\ \A a \in DOMAIN journal : \A r \in journal[a].acqs : r.p = p => r.e < e
    <2>1. /\ EpochHighWater(p) \in 0 .. MaxEpoch
          /\ \A a \in DOMAIN journal : \A r \in journal[a].acqs : r.p = p => r.e <= EpochHighWater(p)
      BY <1>5, HighWater
    <2>2. MaxEpoch \in Nat
      BY BridgeBounds
    <2>3. \A a \in DOMAIN journal : \A r \in journal[a].acqs : r.e \in Int
      BY <1>5, JournalTypes, AttemptTypes DEF AcquisitionRecords, Epochs
    <2>4. QED
      BY <1>1, <1>6, <2>1, <2>2, <2>3 DEF Epochs
  <1>8. new \in AcquisitionRecords /\ acqs \in SUBSET AcquisitionRecords
    BY <1>2, <1>3, <1>5, <1>7 DEF AcquisitionRecords, FenceStates
  <1>9. /\ u \in AnyAttempt
        /\ u.want = t.want /\ u.acqs = acqs /\ u.ops = t.ops /\ u.rels = t.rels
    <2>1. t \in Attempts(Planned(t)) /\ Planned(t) \in SUBSET Providers
      BY <1>5, AttemptTypes
    <2>2. u \in Attempts(Planned(t)) /\ u.want = t.want /\ u.acqs = acqs /\ u.ops = t.ops
          /\ u.rels = t.rels
      BY <1>4, <1>8, <2>1 DEF Attempts
    <2>3. QED
      BY <2>1, <2>2 DEF AnyAttempt
  <1>10. EvolvesTo(t, u)
    <2>1. \A q \in t.acqs : \E s \in u.acqs : s.p = q.p /\ s.e = q.e /\ (Asked(q) => Asked(s))
      BY <1>3, <1>9
    <2>2. ASSUME NEW s \in u.acqs
          PROVE  /\ s.p \in Planned(t)
                 /\ \/ \E q \in t.acqs : s.p = q.p /\ s.e = q.e
                    \/ \A a \in DOMAIN journal : \A q \in journal[a].acqs : q.p = s.p => q.e < s.e
      <3>1. CASE s = new
        BY <1>2, <1>6, <1>7, <3>1
      <3>2. CASE s \in t.acqs
        BY <1>0, <1>5, <3>2 DEF AttemptInv
      <3>3. QED
        BY <1>3, <1>9, <3>1, <3>2
    <2>3. QED
      BY <1>9, <2>1, <2>2 DEF EvolvesTo, SameIntent
  <1>11. Told(Current, u)
    <2>1. Told(Current, t)
      BY <1>0, <1>5 DEF AttemptInv
    <2>2. new.st = "recorded"
      BY <1>2
    <2>3. ASSUME NEW s \in u.acqs
          PROVE  /\ s.st \in {"acknowledged", "no_effect"} => Known(fences, <<s.p, s.e>>)
                 /\ s.st = "acknowledged" => fences[<<s.p, s.e>>] = "applied"
      <3>1. CASE s = new
        BY <2>2, <3>1
      <3>2. CASE s \in t.acqs
        BY <2>1, <3>2 DEF Told
      <3>3. QED
        BY <1>3, <1>9, <3>1, <3>2
    <2>4. QED
      BY <1>9, <2>1, <2>3 DEF Told
  <1>12. Stores(u)
    BY <1>0, <1>5, <1>6, <1>9, <1>10, <1>11 DEF Stores, Store, AttemptInv
  <1>13. QED
    BY <1>6, <1>12, StoresKeep

-----------------------------------------------------------------------------
(* Releases. *)

\* What is stored when only the releases, their phase or the state of the attempt change.
LEMMA ReleaseStores ==
    ASSUME BridgeInv, Current # 0, NEW rels, NEW u,
           rels \subseteq ReleaseRecords, IsFiniteSet(rels),
           u \in AnyAttempt, u.want = journal[Current].want, u.acqs = journal[Current].acqs,
           u.ops = journal[Current].ops, u.rels = rels,
           \A r \in journal[Current].rels : \E s \in rels :
               s.p = r.p /\ s.e = r.e /\ s.k = r.k /\ (r.st # "recorded" => s.st # "recorded"),
           \A r \in rels : r \in journal[Current].rels \/
               (r.st = "acknowledged" =>
                   Known(releases, <<r.p, r.e, r.k>>) /\ releases[<<r.p, r.e, r.k>>] = "applied"),
           Store(u)
    PROVE  Stores(u)
  <1>0. PICK t : t = journal[Current]
    OBVIOUS
  <1>1. t \in AnyAttempt /\ AttemptInv(Current)
    BY <1>0, JournalTypes DEF BridgeInv, JournalInv
  <1>2. Told(Current, t) /\ \A r \in t.acqs : r.p \in Planned(t)
    BY <1>0, <1>1 DEF AttemptInv
  <1>3. EvolvesTo(t, u)
    BY <1>0, <1>2 DEF EvolvesTo, SameIntent
  <1>4. Told(Current, u)
    BY <1>0, <1>2 DEF Told
  <1>5. QED
    BY <1>0, <1>3, <1>4 DEF Stores, Store

\* Preparing a release, the first or a retried one, keeps the invariant.
LEMMA PrepareReleaseSteps ==
    ASSUME BridgeInv, NEW r \in CurrentAcquisitions, PrepareRelease(r.p, r.e)
    PROVE  Kept
  <1>0. PICK t : t = journal[Current]
    OBVIOUS
  <1>1. PICK k : k = Cardinality(ReleasesOf(t, r.p, r.e)) + 1
    OBVIOUS
  <1>2. PICK new : new = [p |-> r.p, e |-> r.e, k |-> k, st |-> "recorded"]
    OBVIOUS
  <1>3. PICK rels : rels = t.rels \cup {new}
    OBVIOUS
  <1>4. PICK phase : phase = IF t.rels = {} THEN Len(t.ops) ELSE t.phase
    OBVIOUS
  <1>5. PICK u : u = [t EXCEPT !.rels = rels, !.phase = phase]
    OBVIOUS
  <1>6. /\ Current # 0 /\ t \in AnyAttempt /\ AttemptInv(Current) /\ r \in AcquisitionRecords
        /\ t.rels \subseteq ReleaseRecords /\ t.ops \in Seq(OperationRecords) /\ t.phase \in {-1} \cup Nat
        /\ IsFiniteSet(t.rels)
    <2>1. Current # 0 /\ r \in t.acqs
      BY <1>0 DEF CurrentAcquisitions
    <2>2. t \in AnyAttempt /\ AttemptInv(Current)
      BY <1>0, <2>1, JournalTypes DEF BridgeInv, JournalInv
    <2>3. QED
      BY <1>0, <2>1, <2>2, AttemptTypes DEF AttemptInv
  <1>7. /\ Store(u) /\ k <= MaxReleases
        /\ UNCHANGED hostVars /\ recent' = recent /\ wire' = wire
    BY <1>0, <1>1, <1>2, <1>3, <1>4, <1>5 DEF PrepareRelease, callerVars
  <1>8. k \in 1 .. MaxReleases
    <2>1. IsFiniteSet(ReleasesOf(t, r.p, r.e))
      BY <1>6, FS_Subset DEF ReleasesOf
    <2>2. Cardinality(ReleasesOf(t, r.p, r.e)) \in Nat
      BY <2>1, FS_CardinalityType
    <2>3. QED
      BY <1>1, <1>7, <2>2, BridgeBounds
  <1>9. /\ new \in ReleaseRecords /\ rels \in SUBSET ReleaseRecords /\ IsFiniteSet(rels)
        /\ phase \in {-1} \cup Nat /\ new.st = "recorded"
    <2>1. new \in ReleaseRecords /\ new.st = "recorded"
      BY <1>2, <1>6, <1>8 DEF ReleaseRecords, AcquisitionRecords, FenceStates
    <2>2. IsFiniteSet(rels)
      BY <1>3, <1>6, FS_AddElement
    <2>3. phase \in {-1} \cup Nat
      BY <1>4, <1>6
    <2>4. QED
      BY <1>3, <1>6, <2>1, <2>2, <2>3
  <1>10. /\ u \in AnyAttempt
         /\ u.want = t.want /\ u.acqs = t.acqs /\ u.ops = t.ops /\ u.rels = rels
    <2>1. t \in Attempts(Planned(t)) /\ Planned(t) \in SUBSET Providers
      BY <1>6, AttemptTypes
    <2>2. u \in Attempts(Planned(t)) /\ u.want = t.want /\ u.acqs = t.acqs /\ u.ops = t.ops
          /\ u.rels = rels
      BY <1>5, <1>9, <2>1 DEF Attempts
    <2>3. QED
      BY <2>1, <2>2 DEF AnyAttempt
  <1>11. Stores(u)
    BY <1>0, <1>3, <1>6, <1>7, <1>9, <1>10, ReleaseStores
  <1>12. QED
    BY <1>7, <1>11, StoresKeep

\* Arming and acknowledging a release.
LEMMA SetReleaseStores ==
    ASSUME BridgeInv, NEW r \in CurrentReleases, NEW st \in FenceStates \ {"blocked", "recorded"},
           st = "acknowledged" =>
               Known(releases, <<r.p, r.e, r.k>>) /\ releases[<<r.p, r.e, r.k>>] = "applied",
           SetRelease(r, st)
    PROVE  \E u : Stores(u) /\ \E s \in u.rels : s.p = r.p /\ s.e = r.e /\ s.k = r.k /\ s.st = st
  <1>0. PICK t : t = journal[Current]
    OBVIOUS
  <1>2. PICK new : new = [r EXCEPT !.st = st]
    OBVIOUS
  <1>3. PICK rels : rels = (t.rels \ {r}) \cup {new}
    OBVIOUS
  <1>5. PICK u : u = [t EXCEPT !.rels = rels]
    OBVIOUS
  <1>6. /\ Current # 0 /\ t \in AnyAttempt /\ r \in t.rels /\ r \in ReleaseRecords
        /\ t.rels \subseteq ReleaseRecords /\ IsFiniteSet(t.rels)
    <2>1. Current # 0 /\ r \in t.rels
      BY <1>0 DEF CurrentReleases
    <2>2. t \in AnyAttempt /\ AttemptInv(Current)
      BY <1>0, <2>1, JournalTypes DEF BridgeInv, JournalInv
    <2>3. QED
      BY <1>0, <2>1, <2>2, AttemptTypes DEF AttemptInv
  <1>7. Store(u)
    BY <1>0, <1>2, <1>3, <1>5 DEF SetRelease
  <1>8. new.p = r.p /\ new.e = r.e /\ new.k = r.k /\ new.st = st /\ new \in ReleaseRecords
    BY <1>2, <1>6 DEF ReleaseRecords
  <1>9. rels \in SUBSET ReleaseRecords /\ IsFiniteSet(rels)
    <2>1. IsFiniteSet(t.rels \ {r})
      BY <1>6, FS_Subset
    <2>2. QED
      BY <1>3, <1>6, <1>8, <2>1, FS_AddElement
  <1>10. /\ u \in AnyAttempt
         /\ u.want = t.want /\ u.acqs = t.acqs /\ u.ops = t.ops /\ u.rels = rels
    <2>1. t \in Attempts(Planned(t)) /\ Planned(t) \in SUBSET Providers
      BY <1>6, AttemptTypes
    <2>2. u \in Attempts(Planned(t)) /\ u.want = t.want /\ u.acqs = t.acqs /\ u.ops = t.ops
          /\ u.rels = rels
      BY <1>5, <1>9, <2>1 DEF Attempts
    <2>3. QED
      BY <2>1, <2>2 DEF AnyAttempt
  <1>11. \A q \in t.rels : \E s \in rels :
             s.p = q.p /\ s.e = q.e /\ s.k = q.k /\ (q.st # "recorded" => s.st # "recorded")
    <2> SUFFICES ASSUME NEW q \in t.rels
                 PROVE  \E s \in rels : s.p = q.p /\ s.e = q.e /\ s.k = q.k
                                        /\ (q.st # "recorded" => s.st # "recorded")
      OBVIOUS
    <2>1. CASE q = r
      BY <1>3, <1>8, <2>1
    <2>2. CASE q # r
      BY <1>3, <2>2
    <2>3. QED
      BY <2>1, <2>2
  <1>12. \A q \in rels : q \in t.rels \/
             (q.st = "acknowledged" =>
                 Known(releases, <<q.p, q.e, q.k>>) /\ releases[<<q.p, q.e, q.k>>] = "applied")
    BY <1>3, <1>8
  <1>13. Stores(u)
    BY <1>0, <1>6, <1>7, <1>9, <1>10, <1>11, <1>12, ReleaseStores
  <1>14. QED
    BY <1>3, <1>8, <1>10, <1>13

\* So does settling one, by its answer or by the host's ledger.
LEMMA ReleaseSteps ==
    ASSUME BridgeInv, NEW r \in CurrentReleases, ReconcileRelease(r) \/ AcknowledgeRelease(r)
    PROVE  Kept
  <1>1. UNCHANGED hostVars /\ recent' = recent
    BY DEF ReconcileRelease, AcknowledgeRelease, callerVars
  <1>2. ASSUME NEW st \in {"armed", "acknowledged", "no_effect"}, SetRelease(r, st),
               st = "acknowledged" =>
                   Known(releases, <<r.p, r.e, r.k>>) /\ releases[<<r.p, r.e, r.k>>] = "applied",
               wire' = wire \/ (wire' = wire \cup {ReleaseRequest(r.p, r.e, r.k)})
        PROVE  Kept
    <2>1. PICK u : Stores(u) /\ \E s \in u.rels : s.p = r.p /\ s.e = r.e /\ s.k = r.k /\ s.st = st
      <3>1. st \in FenceStates \ {"blocked", "recorded"}
        BY DEF FenceStates
      <3>2. QED
        BY <1>2, <3>1, SetReleaseStores
    <2>2. journal'[Current] = u /\ DOMAIN journal' = DOMAIN journal /\ Current \in DOMAIN journal
      BY <2>1, StoresGrow, JournalTypes DEF BridgeInv, Stores
    <2>3. ReleaseAsked(r.p, r.e, r.k)'
      BY <2>1, <2>2 DEF ReleaseAsked
    <2>4. ASSUME NEW q \in wire'
          PROVE  q \in wire \/ (q.do = "release" /\ ReleaseAsked(q.p, q.e, q.k)')
      BY <1>2, <2>3 DEF ReleaseRequest
    <2>5. QED
      BY <1>1, <2>1, <2>4, StoresKeep
  <1>3. CASE ReconcileRelease(r)
    BY <1>2, <1>3 DEF ReconcileRelease
  <1>4. CASE AcknowledgeRelease(r)
    BY <1>2, <1>4 DEF AcknowledgeRelease, ReleaseState
  <1>5. QED
    BY <1>3, <1>4

-----------------------------------------------------------------------------
(* Object operations and the end of an attempt. *)

\* What is stored when only the operations or the state of the attempt change.
LEMMA OperationStores ==
    ASSUME BridgeInv, Current # 0, NEW ops, NEW u,
           u \in AnyAttempt, u.want = journal[Current].want, u.acqs = journal[Current].acqs,
           u.ops = ops, u.rels = journal[Current].rels,
           DOMAIN journal[Current].ops \subseteq DOMAIN ops,
           \A i \in DOMAIN journal[Current].ops : SameIntent(journal[Current].ops[i], ops[i]),
           \A i \in DOMAIN ops : ops[i].out # None =>
               /\ Known(effects, <<Current, i>>) /\ effects[<<Current, i>>] = ops[i].out
               /\ ops[i].res = IF ops[i].out = "applied" THEN ops[i].rev + 1 ELSE ops[i].rev,
           Store(u)
    PROVE  Stores(u)
  <1>0. PICK t : t = journal[Current]
    OBVIOUS
  <1>1. t \in AnyAttempt /\ AttemptInv(Current)
    BY <1>0, JournalTypes DEF BridgeInv, JournalInv
  <1>2. Told(Current, t) /\ (\A r \in t.acqs : r.p \in Planned(t)) /\ IsFiniteSet(t.rels)
    BY <1>0, <1>1 DEF AttemptInv
  <1>3. EvolvesTo(t, u)
    BY <1>0, <1>2 DEF EvolvesTo
  <1>4. Told(Current, u)
    BY <1>0, <1>2 DEF Told
  <1>5. QED
    BY <1>0, <1>2, <1>3, <1>4 DEF Stores, Store

\* What the invariant says of the current attempt.
LEMMA CurrentFacts ==
    ASSUME BridgeInv, Current # 0
    PROVE  /\ journal[Current] \in AnyAttempt /\ AttemptInv(Current) /\ Current \in DOMAIN journal
           /\ journal[Current].ops \in Seq(OperationRecords)
           /\ journal[Current].want \in [Planned(journal[Current]) -> Nat]
           /\ journal[Current] \in Attempts(Planned(journal[Current]))
           /\ Planned(journal[Current]) \in SUBSET Providers
  BY JournalTypes, AttemptTypes DEF BridgeInv, JournalInv

\* So does ending an attempt.
LEMMA FinishAttemptSteps ==
    ASSUME BridgeInv, NEW state \in {"committed", "restored"}, FinishAttempt(state)
    PROVE  Kept
  <1>0. PICK t : t = journal[Current]
    OBVIOUS
  <1>1. PICK u : u = [t EXCEPT !.state = state]
    OBVIOUS
  <1>2. Current # 0 /\ Store(u) /\ UNCHANGED hostVars /\ recent' = recent /\ wire' = wire
    BY <1>0, <1>1 DEF FinishAttempt, callerVars
  <1>3. /\ t \in AnyAttempt /\ AttemptInv(Current) /\ t \in Attempts(Planned(t))
        /\ Planned(t) \in SUBSET Providers
    BY <1>0, <1>2, CurrentFacts
  <1>4. /\ u \in AnyAttempt
        /\ u.want = t.want /\ u.acqs = t.acqs /\ u.ops = t.ops /\ u.rels = t.rels
    <2>1. u \in Attempts(Planned(t)) /\ u.want = t.want /\ u.acqs = t.acqs /\ u.ops = t.ops
          /\ u.rels = t.rels
      BY <1>1, <1>3 DEF Attempts, AttemptStates
    <2>2. QED
      BY <1>3, <2>1 DEF AnyAttempt
  <1>5. /\ \A i \in DOMAIN t.ops : SameIntent(t.ops[i], t.ops[i])
        /\ Told(Current, t)
    BY <1>0, <1>3 DEF SameIntent, AttemptInv
  <1>6. Stores(u)
    <2>1. \A i \in DOMAIN t.ops : t.ops[i].out # None =>
               /\ Known(effects, <<Current, i>>) /\ effects[<<Current, i>>] = t.ops[i].out
               /\ t.ops[i].res = IF t.ops[i].out = "applied" THEN t.ops[i].rev + 1 ELSE t.ops[i].rev
      BY <1>5 DEF Told
    <2>2. QED
      BY <1>0, <1>2, <1>4, <1>5, <2>1, OperationStores
  <1>7. QED
    BY <1>2, <1>6, StoresKeep

\* So does preparing a write or a rollback.
LEMMA PrepareOperationSteps ==
    ASSUME BridgeInv, Current # 0, NEW p \in Providers, NEW kind \in {"write", "rollback"},
           PrepareOperation(p, kind)
    PROVE  Kept
  <1>0. PICK t : t = journal[Current]
    OBVIOUS
  <1>1. PICK rev : rev = IF kind = "write" THEN t.want[p] ELSE t.ops[LatestOf(WritesOf(t, p))].res
    OBVIOUS
  <1>2. PICK new : new = NewOperation(p, kind, binding[p], rev)
    OBVIOUS
  <1>3. PICK ops : ops = Append(t.ops, new)
    OBVIOUS
  <1>4. PICK u : u = [t EXCEPT !.ops = ops]
    OBVIOUS
  <1>5. /\ t \in AnyAttempt /\ AttemptInv(Current) /\ t \in Attempts(Planned(t))
        /\ Planned(t) \in SUBSET Providers /\ t.ops \in Seq(OperationRecords)
        /\ t.want \in [Planned(t) -> Nat] /\ t.acqs \subseteq AcquisitionRecords
    BY <1>0, CurrentFacts, AttemptTypes
  <1>6. /\ Store(u) /\ UNCHANGED hostVars /\ recent' = recent /\ wire' = wire
        /\ Acquired(t, p, binding[p]) /\ (kind = "rollback" => WritesOf(t, p) # {})
    BY <1>0, <1>1, <1>2, <1>3, <1>4 DEF PrepareOperation, callerVars
  <1>7. rev \in Nat
    <2>1. CASE kind = "write"
      <3>1. p \in Planned(t)
        BY <1>0, <1>5, <1>6 DEF Acquired, AttemptInv
      <3>2. QED
        BY <1>1, <1>5, <2>1, <3>1
    <2>2. CASE kind = "rollback"
      <3>1. WritesOf(t, p) \subseteq 0 .. Len(t.ops) /\ WritesOf(t, p) \subseteq DOMAIN t.ops
        BY <1>5 DEF WritesOf
      <3>2. WritesOf(t, p) # {} /\ Len(t.ops) \in Nat
        BY <1>5, <1>6, <2>2
      <3>3. LatestOf(WritesOf(t, p)) \in WritesOf(t, p)
        BY <3>1, <3>2, LatestIsIn
      <3>4. LatestOf(WritesOf(t, p)) \in DOMAIN t.ops
        BY <3>1, <3>3
      <3>5. t.ops[LatestOf(WritesOf(t, p))] \in OperationRecords
        BY <1>5, <3>4
      <3>6. t.ops[LatestOf(WritesOf(t, p))].res \in Nat
        BY <3>5 DEF OperationRecords
      <3>7. QED
        BY <1>1, <2>2, <3>6
    <2>3. QED
      BY <2>1, <2>2
  <1>8. binding[p] \in Epochs
    BY <1>5, <1>6 DEF Acquired, AcquisitionRecords
  <1>9. new \in OperationRecords /\ new.out = None
    BY <1>2, <1>7, <1>8 DEF NewOperation, OperationRecords, ObjectStates
  <1>10. /\ ops \in Seq(OperationRecords) /\ Len(ops) = Len(t.ops) + 1
         /\ \A i \in DOMAIN t.ops : i \in DOMAIN ops /\ ops[i] = t.ops[i]
         /\ \A i \in DOMAIN ops : i \in DOMAIN t.ops \/ ops[i] = new
    BY <1>3, <1>5, <1>9
  <1>11. /\ u \in AnyAttempt
         /\ u.want = t.want /\ u.acqs = t.acqs /\ u.ops = ops /\ u.rels = t.rels
    <2>1. u \in Attempts(Planned(t)) /\ u.want = t.want /\ u.acqs = t.acqs /\ u.ops = ops
          /\ u.rels = t.rels
      BY <1>4, <1>5, <1>10 DEF Attempts
    <2>2. QED
      BY <1>5, <2>1 DEF AnyAttempt
  <1>12. \A i \in DOMAIN t.ops : SameIntent(t.ops[i], ops[i])
    BY <1>10 DEF SameIntent
  <1>13. Stores(u)
    <2>1. \A i \in DOMAIN ops : ops[i].out # None =>
               /\ Known(effects, <<Current, i>>) /\ effects[<<Current, i>>] = ops[i].out
               /\ ops[i].res = IF ops[i].out = "applied" THEN ops[i].rev + 1 ELSE ops[i].rev
      BY <1>0, <1>5, <1>9, <1>10 DEF AttemptInv, Told
    <2>2. QED
      BY <1>0, <1>6, <1>10, <1>11, <1>12, <2>1, OperationStores
  <1>14. QED
    BY <1>6, <1>13, StoresKeep

\* The attempt t in another state, with another record of its operation i.
WithOperation(t, state, i, new) == [t EXCEPT !.state = state, !.ops[i] = new]

\* Storing another record of one operation, with or without blocking the attempt.
LEMMA SetOperationStores ==
    ASSUME BridgeInv, NEW i \in CurrentOperations, NEW new \in OperationRecords,
           NEW state \in AttemptStates, NEW u,
           u = WithOperation(journal[Current], state, i, new),
           SameIntent(Op(Current, i), new),
           new.out # None =>
               /\ Known(effects, <<Current, i>>) /\ effects[<<Current, i>>] = new.out
               /\ new.res = IF new.out = "applied" THEN new.rev + 1 ELSE new.rev,
           Store(u)
    PROVE  /\ Stores(u) /\ DOMAIN u.ops = DOMAIN journal[Current].ops /\ u.ops[i] = new
           /\ u.state = state
           /\ \A j \in DOMAIN journal[Current].ops : j # i => u.ops[j] = journal[Current].ops[j]
  <1>0. PICK t : t = journal[Current]
    OBVIOUS
  <1>1. Current # 0 /\ i \in DOMAIN t.ops
    BY <1>0 DEF CurrentOperations
  <1>2. /\ t \in AnyAttempt /\ AttemptInv(Current) /\ t \in Attempts(Planned(t))
        /\ Planned(t) \in SUBSET Providers /\ t.ops \in Seq(OperationRecords)
    BY <1>0, <1>1, CurrentFacts
  <1>3. PICK ops : ops = [t.ops EXCEPT ![i] = new]
    OBVIOUS
  <1>4. /\ ops \in Seq(OperationRecords) /\ DOMAIN ops = DOMAIN t.ops /\ ops[i] = new
        /\ \A j \in DOMAIN t.ops : j # i => ops[j] = t.ops[j]
    BY <1>1, <1>2, <1>3
  <1>5. u = [t EXCEPT !.state = state, !.ops = ops]
    <2>1. u = [t EXCEPT !.state = state, !.ops[i] = new]
      BY <1>0 DEF WithOperation
    <2>2. QED
      BY <1>2, <1>3, <2>1 DEF Attempts
  <1>6. /\ u \in AnyAttempt
        /\ u.want = t.want /\ u.acqs = t.acqs /\ u.ops = ops /\ u.rels = t.rels /\ u.state = state
    <2>1. u \in Attempts(Planned(t)) /\ u.want = t.want /\ u.acqs = t.acqs /\ u.ops = ops
          /\ u.rels = t.rels /\ u.state = state
      BY <1>2, <1>4, <1>5 DEF Attempts
    <2>2. QED
      BY <1>2, <2>1 DEF AnyAttempt
  <1>7. \A j \in DOMAIN t.ops : SameIntent(t.ops[j], ops[j])
    <2> SUFFICES ASSUME NEW j \in DOMAIN t.ops
                 PROVE  SameIntent(t.ops[j], ops[j])
      OBVIOUS
    <2>1. CASE j = i
      BY <1>0, <1>4, <2>1 DEF Op
    <2>2. CASE j # i
      BY <1>4, <2>2 DEF SameIntent
    <2>3. QED
      BY <2>1, <2>2
  <1>8. \A j \in DOMAIN ops : ops[j].out # None =>
               /\ Known(effects, <<Current, j>>) /\ effects[<<Current, j>>] = ops[j].out
               /\ ops[j].res = IF ops[j].out = "applied" THEN ops[j].rev + 1 ELSE ops[j].rev
    <2>1. Told(Current, t)
      BY <1>0, <1>2 DEF AttemptInv
    <2> SUFFICES ASSUME NEW j \in DOMAIN ops, ops[j].out # None
                 PROVE  /\ Known(effects, <<Current, j>>) /\ effects[<<Current, j>>] = ops[j].out
                        /\ ops[j].res = IF ops[j].out = "applied" THEN ops[j].rev + 1 ELSE ops[j].rev
      OBVIOUS
    <2>2. CASE j = i
      BY <1>4, <2>2
    <2>3. CASE j # i
      BY <1>4, <2>1, <2>3 DEF Told
    <2>4. QED
      BY <2>2, <2>3
  <1>9. Stores(u)
    <2>1. /\ u.want = journal[Current].want /\ u.acqs = journal[Current].acqs
          /\ u.rels = journal[Current].rels /\ u.ops = ops
          /\ DOMAIN journal[Current].ops \subseteq DOMAIN ops
          /\ \A j \in DOMAIN journal[Current].ops : SameIntent(journal[Current].ops[j], ops[j])
      BY <1>0, <1>4, <1>6, <1>7
    <2>2. u \in AnyAttempt /\ Store(u) /\ BridgeInv /\ Current # 0
      BY <1>1, <1>6
    <2>3. QED
      BY <1>8, <2>1, <2>2, OperationStores
  <1>10. QED
    BY <1>0, <1>4, <1>6, <1>9

\* What is stored of an operation, in the form the lemmas on operations take.
LEMMA StoreOpStores ==
    ASSUME NEW i, NEW new, journal[Current] \in AnyAttempt, StoreOp(i, new)
    PROVE  Store(WithOperation(journal[Current], journal[Current].state, i, new))
  <1>0. PICK t : t = journal[Current]
    OBVIOUS
  <1>1. t \in Attempts(Planned(t)) /\ t = [state |-> t.state, want |-> t.want, acqs |-> t.acqs,
                                         ops |-> t.ops, rels |-> t.rels, phase |-> t.phase]
    BY <1>0, AttemptTypes
  <1>2. [t EXCEPT !.ops[i] = new] = WithOperation(t, t.state, i, new)
    BY <1>1 DEF WithOperation, Attempts
  <1>3. QED
    BY <1>0, <1>2 DEF StoreOp

\* What a step makes of the record of operation i: its intent is kept, and an outcome it
\* has is the host's.
LEMMA OperationKept ==
    ASSUME BridgeInv, NEW i \in CurrentOperations, NEW op, op = Op(Current, i)
    PROVE  /\ Current # 0 /\ op \in OperationRecords /\ journal[Current] \in AnyAttempt
           /\ journal[Current].state \in AttemptStates
           /\ op.out # None =>
               /\ Known(effects, <<Current, i>>) /\ effects[<<Current, i>>] = op.out
               /\ op.res = IF op.out = "applied" THEN op.rev + 1 ELSE op.rev
  <1>1. Current # 0 /\ i \in DOMAIN journal[Current].ops
    BY DEF CurrentOperations
  <1>2. /\ journal[Current] \in AnyAttempt /\ AttemptInv(Current)
        /\ journal[Current].ops \in Seq(OperationRecords)
    BY <1>1, CurrentFacts
  <1>3. journal[Current].state \in AttemptStates
    BY <1>2, AttemptTypes
  <1>4. op \in OperationRecords
    BY <1>1, <1>2 DEF Op
  <1>5. Told(Current, journal[Current])
    BY <1>2 DEF AttemptInv
  <1>6. QED
    BY <1>1, <1>2, <1>3, <1>4, <1>5 DEF Told, Op

\* An operation that is blocked remembers the stage it was blocked in.
LEMMA BlockOpSteps ==
    ASSUME BridgeInv, NEW i \in CurrentOperations, Op(Current, i).st # "blocked",
           BlockOp(i), UNCHANGED <<hostVars, wire, recent>>
    PROVE  Kept
  <1>0. PICK op : op = Op(Current, i)
    OBVIOUS
  <1>1. PICK new : new = Blocked(op)
    OBVIOUS
  <1>2. PICK u : u = WithOperation(journal[Current], "blocked", i, new)
    OBVIOUS
  <1>3. Store(u)
    BY <1>0, <1>1, <1>2 DEF BlockOp, WithOperation, Op
  <1>4. op \in OperationRecords /\ op.st # "blocked"
    BY <1>0, OperationKept
  <1>5. /\ new \in OperationRecords /\ new.p = op.p /\ new.kind = op.kind /\ new.e = op.e
        /\ new.rev = op.rev /\ new.out = op.out /\ new.res = op.res /\ new.st = "blocked"
        /\ new.from = op.st
    BY <1>1, <1>4 DEF Blocked, OperationRecords, ObjectStates
  <1>6. SameIntent(op, new)
    BY <1>5 DEF SameIntent, Asked
  <1>7. new.out # None =>
            /\ Known(effects, <<Current, i>>) /\ effects[<<Current, i>>] = new.out
            /\ new.res = IF new.out = "applied" THEN new.rev + 1 ELSE new.rev
    BY <1>0, <1>5, OperationKept
  <1>8. Stores(u)
    BY <1>0, <1>2, <1>3, <1>5, <1>6, <1>7, SetOperationStores DEF AttemptStates
  <1>9. QED
    BY <1>8, StoresKeep

\* Another record of operation i is stored; a request is sent only for one that is armed.
LEMMA StoreOpSteps ==
    ASSUME BridgeInv, NEW i \in CurrentOperations, NEW new \in OperationRecords,
           StoreOp(i, new), SameIntent(Op(Current, i), new), Asked(new),
           new.out # None =>
               /\ Known(effects, <<Current, i>>) /\ effects[<<Current, i>>] = new.out
               /\ new.res = IF new.out = "applied" THEN new.rev + 1 ELSE new.rev,
           UNCHANGED hostVars,
           wire' = wire \/ wire' = wire \cup {ObjectRequest(Current, i)},
           recent' = recent \/ recent' = recent \cup {<<Current, i>>}
    PROVE  Kept
  <1>1. PICK u : u = WithOperation(journal[Current], journal[Current].state, i, new)
    OBVIOUS
  <1>2. Current # 0 /\ journal[Current] \in AnyAttempt /\ journal[Current].state \in AttemptStates
    BY OperationKept
  <1>3. Store(u)
    BY <1>1, <1>2, StoreOpStores
  <1>4. Stores(u) /\ DOMAIN u.ops = DOMAIN journal[Current].ops /\ u.ops[i] = new
    BY <1>1, <1>2, <1>3, SetOperationStores
  <1>5. i \in DOMAIN u.ops
    BY <1>2, <1>4 DEF CurrentOperations
  <1>6. journal'[Current] = u /\ DOMAIN journal' = DOMAIN journal /\ Current \in DOMAIN journal
    BY <1>2, <1>4, StoresGrow, CurrentFacts DEF BridgeInv
  <1>7. PICK a : a = Current
    OBVIOUS
  <1>8. ASSUME NEW q \in wire'
        PROVE  q \in wire \/ (q.do = "object" /\ OperationAsked(q.a, q.i)')
    <2>1. OperationAsked(a, i)'
      BY <1>4, <1>5, <1>6, <1>7 DEF OperationAsked, Op
    <2>2. ObjectRequest(Current, i).do = "object" /\ ObjectRequest(Current, i).a = a
          /\ ObjectRequest(Current, i).i = i
      BY <1>7 DEF ObjectRequest
    <2>3. CASE q = ObjectRequest(Current, i)
      BY <2>1, <2>2, <2>3
    <2>4. CASE q \in wire
      BY <2>4
    <2>5. QED
      BY <2>3, <2>4
  <1>9. \A x \in recent' : x \in recent \/ (x[1] = Current /\ x[2] \in DOMAIN u.ops)
    BY <1>5
  <1>10. QED
    BY <1>4, <1>8, <1>9, StoresKeep

\* Reconciling, acknowledging, verifying and aborting operations keep the invariant.
LEMMA OperationSteps ==
    ASSUME BridgeInv, NEW i \in CurrentOperations,
           ReconcileRecorded(i) \/ Acknowledge(i) \/ VerifyReceipt(i) \/ AbortOperation(i)
    PROVE  Kept
  <1>0. PICK op : op = Op(Current, i)
    OBVIOUS
  <1>1. /\ op \in OperationRecords
        /\ op.out # None =>
               /\ Known(effects, <<Current, i>>) /\ effects[<<Current, i>>] = op.out
               /\ op.res = IF op.out = "applied" THEN op.rev + 1 ELSE op.rev
    BY <1>0, OperationKept
  <1>2. ASSUME NEW st \in {"armed", "verified"}, StoreOp(i, [op EXCEPT !.st = st]),
               UNCHANGED hostVars,
               wire' = wire \/ wire' = wire \cup {ObjectRequest(Current, i)},
               recent' = recent \/ recent' = recent \cup {<<Current, i>>}
        PROVE  Kept
    <2>1. PICK new : new = [op EXCEPT !.st = st]
      OBVIOUS
    <2>2. /\ new \in OperationRecords /\ new.p = op.p /\ new.kind = op.kind /\ new.e = op.e
          /\ new.rev = op.rev /\ new.out = op.out /\ new.res = op.res /\ new.st = st
      BY <1>1, <2>1 DEF OperationRecords, ObjectStates
    <2>3. SameIntent(op, new) /\ Asked(new)
      BY <2>2 DEF SameIntent, Asked
    <2>4. StoreOp(i, new)
      BY <1>2, <2>1
    <2>5. QED
      BY <1>0, <1>1, <1>2, <2>2, <2>3, <2>4, StoreOpSteps
  <1>3. CASE ReconcileRecorded(i)
    <2>1. op.st = "recorded" /\ UNCHANGED hostVars /\ recent' = recent
      BY <1>0, <1>3 DEF ReconcileRecorded, Op, callerVars
    <2>2. CASE BlockOp(i) /\ UNCHANGED wire
      BY <1>0, <2>1, <2>2, BlockOpSteps
    <2>3. CASE /\ StoreOp(i, [op EXCEPT !.st = "armed"])
               /\ wire' = wire \cup {ObjectRequest(Current, i)}
      BY <1>2, <2>1, <2>3
    <2>4. QED
      BY <1>0, <1>3, <2>2, <2>3 DEF ReconcileRecorded, Op
  <1>4. CASE Acknowledge(i)
    <2>1. PICK new : new = WithReceipt(op, effects[<<Current, i>>])
      OBVIOUS
    <2>2. op.st = "armed" /\ Known(effects, <<Current, i>>) /\ StoreOp(i, new)
          /\ UNCHANGED hostVars /\ wire' = wire /\ recent' = recent
      BY <1>0, <1>4, <2>1 DEF Acknowledge, callerVars
    <2>3. effects[<<Current, i>>] \in Outcomes
      BY <2>2 DEF BridgeInv, LedgerInv, Known
    <2>4. /\ new \in OperationRecords /\ new.p = op.p /\ new.kind = op.kind /\ new.e = op.e
          /\ new.rev = op.rev /\ new.st = "acknowledged" /\ new.out = effects[<<Current, i>>]
          /\ new.res = IF new.out = "applied" THEN new.rev + 1 ELSE new.rev
      <3>1. PICK out : out = effects[<<Current, i>>]
        OBVIOUS
      <3>2. PICK res : res = IF out = "applied" THEN op.rev + 1 ELSE op.rev
        OBVIOUS
      <3>3. op.rev \in Nat /\ res \in Nat /\ out \in {None, "applied", "no_effect"}
        BY <1>1, <2>3, <3>1, <3>2 DEF OperationRecords, Outcomes
      <3>4. new = [op EXCEPT !.st = "acknowledged", !.out = out, !.res = res]
        BY <2>1, <3>1, <3>2 DEF WithReceipt
      <3>5. /\ new \in OperationRecords /\ new.p = op.p /\ new.kind = op.kind /\ new.e = op.e
            /\ new.rev = op.rev /\ new.st = "acknowledged" /\ new.out = out /\ new.res = res
        BY <1>1, <3>3, <3>4 DEF OperationRecords, ObjectStates
      <3>6. QED
        BY <3>1, <3>2, <3>5
    <2>5. SameIntent(op, new) /\ Asked(new)
      BY <2>4 DEF SameIntent, Asked
    <2>6. QED
      BY <1>0, <2>2, <2>4, <2>5, StoreOpSteps
  <1>5. CASE VerifyReceipt(i)
    <2>1. op.st \in {"acknowledged", "verified"} /\ UNCHANGED hostVars /\ wire' = wire
      BY <1>0, <1>5 DEF VerifyReceipt, Op
    <2>2. CASE BlockOp(i) /\ UNCHANGED <<obs, recent>>
      BY <1>0, <2>1, <2>2, BlockOpSteps
    <2>3. CASE /\ StoreOp(i, [op EXCEPT !.st = "verified"])
               /\ recent' = recent \cup {<<Current, i>>}
      BY <1>2, <2>1, <2>3
    <2>4. QED
      BY <1>0, <1>5, <2>2, <2>3 DEF VerifyReceipt, Op
  <1>6. CASE AbortOperation(i)
    BY <1>6, BlockOpSteps DEF AbortOperation, callerVars
  <1>7. QED
    BY <1>3, <1>4, <1>5, <1>6

-----------------------------------------------------------------------------
(* The start of an attempt. *)

\* The indices of an attempt's operations are bounded.
LEMMA LatestOperation ==
    ASSUME NEW t \in AnyAttempt, NEW S, S \subseteq DOMAIN t.ops, S # {}
    PROVE  LatestOf(S) \in S /\ \A j \in S : j <= LatestOf(S)
  <1>1. t.ops \in Seq(OperationRecords)
    BY AttemptTypes
  <1>2. Len(t.ops) \in Nat /\ S \subseteq 0 .. Len(t.ops)
    BY <1>1
  <1>3. QED
    BY <1>2, LatestIsIn

\* A write of a restored attempt was ruled out, had no effect, or was taken back.
LEMMA RestoredWrite ==
    ASSUME NEW t \in AnyAttempt, AttemptValid(t), t.state = "restored",
           NEW p \in Planned(t), NEW i \in WritesOf(t, p)
    PROVE  WriteTakenBack(t, p, i) /\ WritesOf(t, p) = {i} /\ LatestOf(WritesOf(t, p)) = i
  <1>1. OperationsValid(t) /\ RestoredValid(t)
    BY DEF AttemptValid, StateValid
  <1>2. i \in DOMAIN t.ops /\ t.ops[i].p = p /\ t.ops[i].kind = "write"
    BY DEF WritesOf
  <1>3. WritesOf(t, p) = {i}
    BY <1>1, <1>2 DEF OperationsValid
  <1>4. LatestOf(WritesOf(t, p)) \in WritesOf(t, p)
    BY LatestOperation DEF WritesOf
  <1>5. QED
    BY <1>1, <1>3, <1>4 DEF RestoredValid

\* What a retry expects of a document is a revision.
LEMMA RetryRevisionType ==
    ASSUME NEW t \in AnyAttempt, AttemptValid(t), t.state = "restored", NEW p \in Planned(t)
    PROVE  RetryRevision(t, p) \in Nat
  <1>1. t.want[p] \in Nat /\ t.ops \in Seq(OperationRecords)
    BY AttemptTypes
  <1>2. CASE \A i \in WritesOf(t, p) : ProvenUndispatched(t.ops[i])
    BY <1>1, <1>2 DEF RetryRevision
  <1>3. CASE ~\A i \in WritesOf(t, p) : ProvenUndispatched(t.ops[i])
    <2>1. PICK i \in WritesOf(t, p) : ~ProvenUndispatched(t.ops[i])
      BY <1>3
    <2>2. WriteTakenBack(t, p, i) /\ LatestOf(WritesOf(t, p)) = i /\ i \in DOMAIN t.ops
      <3>1. WriteTakenBack(t, p, i) /\ LatestOf(WritesOf(t, p)) = i
        BY RestoredWrite
      <3>2. i \in DOMAIN t.ops
        BY DEF WritesOf
      <3>3. QED
        BY <3>1, <3>2
    <2>3. t.ops[i].res \in Nat
      <3>1. t.ops[i] \in OperationRecords
        BY <1>1, <2>2
      <3>2. QED
        BY <3>1 DEF OperationRecords
    <2>4. CASE t.ops[i].out = "no_effect"
      BY <1>3, <2>2, <2>3, <2>4 DEF RetryRevision
    <2>5. CASE t.ops[i].out # "no_effect"
      <3>1. RollbacksOf(t, p) # {}
        BY <2>1, <2>2, <2>5 DEF WriteTakenBack, VerifiedOutcome
      <3>2. RollbacksOf(t, p) \subseteq DOMAIN t.ops
        BY DEF RollbacksOf
      <3>3. LatestOf(RollbacksOf(t, p)) \in DOMAIN t.ops
        BY <3>1, <3>2, LatestOperation
      <3>4. t.ops[LatestOf(RollbacksOf(t, p))].res \in Nat
        <4>1. t.ops[LatestOf(RollbacksOf(t, p))] \in OperationRecords
          BY <1>1, <3>3
        <4>2. QED
          BY <4>1 DEF OperationRecords
      <3>5. QED
        BY <1>3, <2>2, <2>5, <3>4 DEF RetryRevision
    <2>6. QED
      BY <2>4, <2>5
  <1>4. QED
    BY <1>2, <1>3

\* A new attempt is a valid one, with nothing in it yet.
LEMMA NewAttemptValid ==
    ASSUME NEW plan \in SUBSET Providers, NEW want \in [plan -> Nat], NEW u, u = NewAttempt(want)
    PROVE  /\ u \in AnyAttempt /\ AttemptValid(u) /\ u.want = want /\ Planned(u) = plan
           /\ u.acqs = {} /\ u.ops = <<>> /\ u.rels = {} /\ u.state = "open"
  <1>1. /\ u.want = want /\ u.acqs = {} /\ u.ops = <<>> /\ u.rels = {} /\ u.state = "open"
        /\ u.phase = -1
    BY DEF NewAttempt
  <1>2. u \in Attempts(plan)
    BY DEF NewAttempt, Attempts, AttemptStates
  <1>3. ~BlockedEvidence(u)
    BY <1>1 DEF BlockedEvidence
  <1>4. /\ AcquisitionsValid(u) /\ OperationsValid(u) /\ ReleasePhaseValid(u) /\ ReleasesValid(u)
        /\ SuccessionValid(u)
    BY <1>1 DEF AcquisitionsValid, OperationsValid, ReleasePhaseValid, ReleasesValid, SuccessionValid
  <1>5. StateValid(u)
    BY <1>1, <1>3 DEF StateValid
  <1>6. QED
    BY <1>1, <1>2, <1>4, <1>5 DEF AttemptValid, AnyAttempt, Planned

\* Beginning an attempt keeps the invariant and leaves every earlier attempt alone.
LEMMA BeginAttemptSteps ==
    ASSUME BridgeInv, NEW plan \in SUBSET Providers, BeginAttempt(plan)
    PROVE  /\ BridgeInv' /\ JournalGrows /\ Current' = Current + 1 /\ UNCHANGED hostVars
           /\ \A a \in DOMAIN journal : journal'[a] = journal[a]
           /\ journal'[Current + 1].ops = <<>> /\ Planned(journal'[1]) = plan
           /\ journal'[Current + 1].want =
                  [p \in plan |-> IF Current = 0 THEN doc[p].rev
                                  ELSE RetryRevision(journal[Current], p)]
  <1>1. JournalInv /\ LedgerInv /\ UNCHANGED hostVars /\ recent' = recent /\ wire' = wire
    BY DEF BridgeInv, BeginAttempt, callerVars
  <1>2. PICK want : want = [p \in plan |-> IF Current = 0 THEN doc[p].rev
                                           ELSE RetryRevision(journal[Current], p)]
    OBVIOUS
  <1>3. PICK u : u = NewAttempt(want)
    OBVIOUS
  <1>4. /\ journal' = Append(journal, u) /\ plan # {}
        /\ Current > 0 => journal[Current].state = "restored" /\ plan = Planned(journal[Current])
    BY <1>2, <1>3 DEF BeginAttempt
  <1>5. Current \in Nat /\ DOMAIN journal = 1 .. Current
    BY <1>1, JournalTypes
  <1>6. want \in [plan -> Nat]
    <2>1. CASE Current = 0
      <3>1. \A p \in plan : doc[p].rev \in Nat
        BY <1>1 DEF LedgerInv
      <3>2. QED
        BY <1>2, <2>1, <3>1
    <2>2. CASE Current # 0
      <3>1. journal[Current] \in AnyAttempt /\ AttemptValid(journal[Current])
        BY <2>2, CurrentFacts DEF AttemptInv
      <3>2. \A p \in plan : RetryRevision(journal[Current], p) \in Nat
        BY <1>4, <1>5, <2>2, <3>1, RetryRevisionType
      <3>3. QED
        BY <1>2, <2>2, <3>2
    <2>3. QED
      BY <2>1, <2>2
  <1>7. /\ u \in AnyAttempt /\ AttemptValid(u) /\ Planned(u) = plan
        /\ u.acqs = {} /\ u.ops = <<>> /\ u.rels = {} /\ u.want = want
    BY <1>3, <1>6, NewAttemptValid
  <1>8. /\ journal' \in Seq(AnyAttempt) /\ DOMAIN journal' = 1 .. (Current + 1)
        /\ Len(journal') = Current + 1
        /\ \A a \in DOMAIN journal : journal'[a] = journal[a]
        /\ journal'[Current + 1] = u
    BY <1>1, <1>4, <1>5, <1>7 DEF JournalInv, Current
  <1>9. JournalGrows
    <2>1. DOMAIN journal \subseteq DOMAIN journal'
      BY <1>5, <1>8
    <2>2. \A p, e : Allocated(p, e) => Allocated(p, e)'
      BY <1>8, <2>1 DEF Allocated
    <2>3. \A p, e : AcquisitionAsked(p, e) => AcquisitionAsked(p, e)'
      BY <1>8, <2>1 DEF AcquisitionAsked
    <2>4. \A p, e, k : ReleaseAsked(p, e, k) => ReleaseAsked(p, e, k)'
      BY <1>8, <2>1 DEF ReleaseAsked
    <2>5. \A a, i : OperationAsked(a, i) => OperationAsked(a, i)'
      BY <1>8, <2>1 DEF OperationAsked, Op
    <2>6. QED
      BY <1>8, <2>1, <2>2, <2>3, <2>4, <2>5 DEF JournalGrows, SameIntent
  <1>10. LedgerInv' /\ WireInv' /\ CallerInv'
    BY <1>1, <1>9, GrowthKeeps DEF BridgeInv
  <1>11. JournalInv' /\ Planned(journal'[1]) = plan
    <2>1. Planned(journal'[1]) = plan
      <3>1. CASE Current = 0
        BY <1>7, <1>8, <3>1
      <3>2. CASE Current # 0
        <4>1. 1 \in DOMAIN journal /\ Current > 0
          BY <1>5, <3>2
        <4>2. Planned(journal[Current]) = Planned(journal[1])
          BY <3>2, CurrentFacts DEF AttemptInv
        <4>3. QED
          BY <1>4, <1>8, <4>1, <4>2
      <3>3. QED
        BY <3>1, <3>2
    <2>2. ASSUME NEW a \in DOMAIN journal'
          PROVE  AttemptInv(a)'
      <3>1. CASE a = Current + 1
        <4>1. Told(a, journal[a])'
          BY <1>7, <1>8, <3>1 DEF Told
        <4>2. IsFiniteSet({})
          BY FS_EmptySet
        <4>3. QED
          BY <1>4, <1>7, <1>8, <2>1, <3>1, <4>1, <4>2 DEF AttemptInv
      <3>2. CASE a \in DOMAIN journal
        <4>1. journal'[a] = journal[a] /\ AttemptInv(a)
          BY <1>1, <1>8, <3>2 DEF JournalInv
        <4>2. Told(a, journal[a])'
          BY <1>1, <4>1 DEF AttemptInv, Told, Known, hostVars
        <4>3. Planned(journal[a]) = plan
          <5>1. Planned(journal[a]) = Planned(journal[1]) /\ 1 \in DOMAIN journal
            BY <1>5, <3>2, <4>1 DEF AttemptInv
          <5>2. QED
            BY <1>8, <2>1, <5>1
        <4>4. QED
          BY <1>4, <2>1, <4>1, <4>2, <4>3 DEF AttemptInv
      <3>3. QED
        BY <1>5, <1>8, <3>1, <3>2
    <2>3. ASSUME NEW a \in DOMAIN journal', a # Current'
          PROVE  journal'[a].state = "restored"
      <3>1. a \in DOMAIN journal /\ Current > 0
        BY <1>5, <1>8, <2>3 DEF Current
      <3>2. QED
        BY <1>1, <1>4, <1>8, <3>1 DEF JournalInv
    <2>4. ASSUME NEW a \in DOMAIN journal', NEW b \in DOMAIN journal', a < b,
                 NEW r \in journal'[a].acqs, NEW s \in journal'[b].acqs, r.p = s.p
          PROVE  r.e < s.e
      <3>1. a \in DOMAIN journal /\ b \in DOMAIN journal
        BY <1>5, <1>7, <1>8, <2>4
      <3>2. QED
        BY <1>1, <1>8, <2>4, <3>1 DEF JournalInv
    <2>5. QED
      BY <1>8, <2>1, <2>2, <2>3, <2>4 DEF JournalInv
  <1>12. QED
    BY <1>1, <1>2, <1>7, <1>8, <1>9, <1>10, <1>11 DEF BridgeInv, Current

-----------------------------------------------------------------------------
(* The hosts and the environment. *)

\* A ledger that only gains entries.
Extended(f, g) == \A x \in DOMAIN f : x \in DOMAIN g /\ g[x] = f[x]

\* Entering an outcome extends a ledger.
LEMMA WithExtends ==
    ASSUME NEW f, NEW x, NEW v, ~Known(f, x)
    PROVE  Extended(f, With(f, x, v))
  BY DEF Extended, With, Known

\* Longer ledgers never contradict the journal: it concludes from outcomes that are known.
LEMMA HostKeepsJournal ==
    ASSUME JournalInv, journal' = journal,
           Extended(fences, fences'), Extended(releases, releases'), Extended(effects, effects')
    PROVE  JournalInv'
  <1>1. ASSUME NEW a \in DOMAIN journal
        PROVE  AttemptInv(a)'
    <2>1. AttemptInv(a) /\ Told(a, journal[a])
      BY DEF JournalInv, AttemptInv
    <2>2. Told(a, journal[a])'
      BY <2>1 DEF Told, Known, Extended
    <2>3. QED
      BY <2>1, <2>2 DEF AttemptInv
  <1>2. QED
    BY <1>1 DEF JournalInv, Current

\* The wire and the caller's memory, when the journal rests.
LEMMA HostKeepsRest ==
    ASSUME WireInv, CallerInv, UNCHANGED <<journal, wire, recent, expired>>
    PROVE  WireInv' /\ CallerInv'
  BY DEF WireInv, CallerInv, AcquisitionAsked, ReleaseAsked, OperationAsked, Allocated, Op

\* The intents that are asked for are typed.
LEMMA AskedTypes ==
    ASSUME JournalInv
    PROVE  /\ \A p, e : AcquisitionAsked(p, e) => p \in Providers /\ e \in Epochs
           /\ \A p, e, k : ReleaseAsked(p, e, k) =>
                  p \in Providers /\ e \in Epochs /\ k \in 1 .. MaxReleases
           /\ \A a, i : OperationAsked(a, i) => a \in Nat /\ i \in Nat /\ Op(a, i) \in OperationRecords
  <1>1. \A a \in DOMAIN journal : /\ journal[a].acqs \subseteq AcquisitionRecords
                                /\ journal[a].rels \subseteq ReleaseRecords
                                /\ journal[a].ops \in Seq(OperationRecords)
    BY JournalTypes, AttemptTypes
  <1>2. DOMAIN journal = 1 .. Current /\ Current \in Nat
    BY JournalTypes
  <1>3. \A p, e : AcquisitionAsked(p, e) => p \in Providers /\ e \in Epochs
    BY <1>1 DEF AcquisitionAsked, AcquisitionRecords
  <1>4. \A p, e, k : ReleaseAsked(p, e, k) => p \in Providers /\ e \in Epochs /\ k \in 1 .. MaxReleases
    BY <1>1 DEF ReleaseAsked, ReleaseRecords
  <1>5. ASSUME NEW a, NEW i, OperationAsked(a, i)
        PROVE  a \in Nat /\ i \in Nat /\ Op(a, i) \in OperationRecords
    <2>1. a \in DOMAIN journal /\ i \in DOMAIN journal[a].ops
      BY <1>5 DEF OperationAsked
    <2>2. journal[a].ops \in Seq(OperationRecords)
      BY <1>1, <2>1
    <2>3. QED
      BY <1>2, <2>1, <2>2 DEF Op
  <1>6. QED
    BY <1>3, <1>4, <1>5

\* A host that decides a fence asked of it keeps the invariant.
LEMMA FenceLedgerSteps ==
    ASSUME BridgeInv, NEW p, NEW e, NEW v \in Outcomes, AcquisitionAsked(p, e), ~Known(fences, <<p, e>>),
           fences' = With(fences, <<p, e>>, v),
           binding' = binding \/ (v = "applied" /\ binding' = [binding EXCEPT ![p] = e]),
           UNCHANGED <<journal, expired, releases, effects, doc, wire, callerVars>>
    PROVE  BridgeInv'
  <1>1. JournalInv /\ LedgerInv /\ WireInv /\ CallerInv /\ p \in Providers /\ e \in Epochs
        /\ UNCHANGED <<journal, wire, recent, expired, releases, effects, doc>>
    BY AskedTypes DEF BridgeInv, callerVars
  <1>2. /\ fences' \in [DOMAIN fences' -> Outcomes]
        /\ DOMAIN fences' = DOMAIN fences \cup {<<p, e>>}
        /\ fences'[<<p, e>>] = v
        /\ \A y \in DOMAIN fences : fences'[y] = fences[y]
    <2>1. fences \in [DOMAIN fences -> Outcomes] /\ <<p, e>> \notin DOMAIN fences
      BY <1>1 DEF LedgerInv, Known
    <2>2. PICK x : x = <<p, e>>
      OBVIOUS
    <2>3. x \notin DOMAIN fences /\ fences' = With(fences, x, v) /\ IsLedger(fences)
      BY <2>1, <2>2 DEF IsLedger
    <2>4. Gains(fences, x, v, fences')
      BY <2>3, LedgerGains
    <2>5. QED
      BY <2>2, <2>4 DEF Gains, IsLedger
  <1>3. JournalInv'
    BY <1>1, <1>2, HostKeepsJournal DEF Extended
  <1>4. WireInv' /\ CallerInv'
    BY <1>1, HostKeepsRest
  <1>5. LedgerInv'
    <2>1. \A x \in DOMAIN fences' : AcquisitionAsked(x[1], x[2])'
      <3>1. \A x \in DOMAIN fences' : AcquisitionAsked(x[1], x[2])
        BY <1>1, <1>2 DEF LedgerInv
      <3>2. QED
        BY <1>1, <3>1 DEF AcquisitionAsked
    <2>2. \A x \in DOMAIN effects' : OperationAsked(x[1], x[2])'
      BY <1>1 DEF LedgerInv, OperationAsked, Op
    <2>3. DOMAIN fences' \subseteq Providers \X Epochs
      BY <1>1, <1>2 DEF LedgerInv
    <2>4. \A q \in Providers, f \in Epochs, k \in 1 .. MaxReleases :
              Known(releases', <<q, f, k>>) => Known(fences', <<q, f>>)
      BY <1>1, <1>2 DEF LedgerInv, Known
    <2>5. binding' \in [Providers -> Nat]
      BY <1>1, BridgeBounds DEF LedgerInv, Epochs
    <2>6. ASSUME NEW q \in Providers, binding'[q] # 0
          PROVE  /\ Known(fences', <<q, binding'[q]>>) /\ fences'[<<q, binding'[q]>>] = "applied"
                 /\ \A k \in 1 .. MaxReleases : Known(releases', <<q, binding'[q], k>>) =>
                        releases'[<<q, binding'[q], k>>] # "applied"
      <3>1. CASE binding'[q] = binding[q]
        <4>1. Known(fences, <<q, binding[q]>>) /\ fences[<<q, binding[q]>>] = "applied"
              /\ \A k \in 1 .. MaxReleases : Known(releases, <<q, binding[q], k>>) =>
                        releases[<<q, binding[q], k>>] # "applied"
          BY <1>1, <2>6, <3>1 DEF LedgerInv
        <4>2. QED
          BY <1>1, <1>2, <3>1, <4>1 DEF Known
      <3>2. CASE binding'[q] # binding[q]
        <4>1. q = p /\ binding'[q] = e /\ v = "applied"
          BY <1>1, <3>2 DEF LedgerInv
        <4>2. \A k \in 1 .. MaxReleases : ~Known(releases, <<p, e, k>>)
          BY <1>1 DEF LedgerInv
        <4>3. QED
          BY <1>1, <1>2, <4>1, <4>2 DEF Known
      <3>3. QED
        BY <3>1, <3>2
    <2>7. QED
      BY <1>1, <1>2, <2>1, <2>2, <2>3, <2>4, <2>5, <2>6 DEF LedgerInv
  <1>6. QED
    BY <1>3, <1>4, <1>5 DEF BridgeInv

\* So does one that decides a release.
LEMMA ReleaseLedgerSteps ==
    ASSUME BridgeInv, NEW p, NEW e, NEW k, NEW v \in Outcomes, ReleaseAsked(p, e, k),
           ~Known(releases, <<p, e, k>>), binding[p] = e,
           releases' = With(releases, <<p, e, k>>, v),
           \/ v = "no_effect" /\ binding' = binding
           \/ binding' = [binding EXCEPT ![p] = 0],
           UNCHANGED <<journal, expired, fences, effects, doc, wire, callerVars>>
    PROVE  BridgeInv'
  <1>1. JournalInv /\ LedgerInv /\ WireInv /\ CallerInv /\ p \in Providers /\ e \in Epochs /\ e # 0
        /\ UNCHANGED <<journal, wire, recent, expired, fences, effects, doc>>
    BY AskedTypes, BridgeBounds DEF BridgeInv, callerVars, Epochs
  <1>2. /\ releases' \in [DOMAIN releases' -> Outcomes]
        /\ DOMAIN releases' = DOMAIN releases \cup {<<p, e, k>>}
        /\ releases'[<<p, e, k>>] = v
        /\ \A y \in DOMAIN releases : releases'[y] = releases[y]
    <2>1. releases \in [DOMAIN releases -> Outcomes] /\ <<p, e, k>> \notin DOMAIN releases
      BY <1>1 DEF LedgerInv, Known
    <2>2. PICK x : x = <<p, e, k>>
      OBVIOUS
    <2>3. x \notin DOMAIN releases /\ releases' = With(releases, x, v) /\ IsLedger(releases)
      BY <2>1, <2>2 DEF IsLedger
    <2>4. Gains(releases, x, v, releases')
      BY <2>3, LedgerGains
    <2>5. QED
      BY <2>2, <2>4 DEF Gains, IsLedger
  <1>3. JournalInv'
    BY <1>1, <1>2, HostKeepsJournal DEF Extended
  <1>4. WireInv' /\ CallerInv'
    BY <1>1, HostKeepsRest
  <1>5. LedgerInv'
    <2>1. \A x \in DOMAIN fences' : AcquisitionAsked(x[1], x[2])'
      BY <1>1 DEF LedgerInv, AcquisitionAsked
    <2>2. \A x \in DOMAIN effects' : OperationAsked(x[1], x[2])'
      BY <1>1 DEF LedgerInv, OperationAsked, Op
    <2>3. \A q \in Providers, f \in Epochs, j \in 1 .. MaxReleases :
              Known(releases', <<q, f, j>>) => Known(fences', <<q, f>>)
      BY <1>1, <1>2 DEF LedgerInv, Known
    <2>4. binding' \in [Providers -> Nat]
      BY <1>1 DEF LedgerInv
    <2>5. ASSUME NEW q \in Providers, binding'[q] # 0
          PROVE  /\ Known(fences', <<q, binding'[q]>>) /\ fences'[<<q, binding'[q]>>] = "applied"
                 /\ \A j \in 1 .. MaxReleases : Known(releases', <<q, binding'[q], j>>) =>
                        releases'[<<q, binding'[q], j>>] # "applied"
      <3>1. binding'[q] = binding[q] /\ (q = p => v = "no_effect")
        BY <1>1, <2>5 DEF LedgerInv
      <3>2. /\ Known(fences, <<q, binding[q]>>) /\ fences[<<q, binding[q]>>] = "applied"
            /\ \A j \in 1 .. MaxReleases : Known(releases, <<q, binding[q], j>>) =>
                      releases[<<q, binding[q], j>>] # "applied"
        BY <1>1, <2>5, <3>1 DEF LedgerInv
      <3>3. QED
        BY <1>1, <1>2, <3>1, <3>2 DEF Known
    <2>6. QED
      BY <1>1, <1>2, <2>1, <2>2, <2>3, <2>4, <2>5 DEF LedgerInv
  <1>6. QED
    BY <1>3, <1>4, <1>5 DEF BridgeInv

\* So does one that decides a write.
LEMMA EffectLedgerSteps ==
    ASSUME BridgeInv, NEW a, NEW i, NEW v \in Outcomes, OperationAsked(a, i),
           ~Known(effects, <<a, i>>), effects' = With(effects, <<a, i>>, v),
           doc' \in [Providers -> [rev : Nat, fp : Fingerprints]],
           UNCHANGED <<journal, binding, expired, fences, releases, wire, callerVars>>
    PROVE  BridgeInv'
  <1>1. JournalInv /\ LedgerInv /\ WireInv /\ CallerInv /\ a \in Nat /\ i \in Nat
        /\ UNCHANGED <<journal, wire, recent, expired, binding, fences, releases>>
    BY AskedTypes DEF BridgeInv, callerVars
  <1>2. /\ effects' \in [DOMAIN effects' -> Outcomes]
        /\ DOMAIN effects' = DOMAIN effects \cup {<<a, i>>}
        /\ effects'[<<a, i>>] = v
        /\ \A y \in DOMAIN effects : effects'[y] = effects[y]
    <2>1. effects \in [DOMAIN effects -> Outcomes] /\ <<a, i>> \notin DOMAIN effects
      BY <1>1 DEF LedgerInv, Known
    <2>2. PICK x : x = <<a, i>>
      OBVIOUS
    <2>3. x \notin DOMAIN effects /\ effects' = With(effects, x, v) /\ IsLedger(effects)
      BY <2>1, <2>2 DEF IsLedger
    <2>4. Gains(effects, x, v, effects')
      BY <2>3, LedgerGains
    <2>5. QED
      BY <2>2, <2>4 DEF Gains, IsLedger
  <1>3. JournalInv'
    BY <1>1, <1>2, HostKeepsJournal DEF Extended
  <1>4. WireInv' /\ CallerInv'
    BY <1>1, HostKeepsRest
  <1>5. LedgerInv'
    <2>1. \A x \in DOMAIN fences' : AcquisitionAsked(x[1], x[2])'
      BY <1>1 DEF LedgerInv, AcquisitionAsked
    <2>2. \A x \in DOMAIN effects' : OperationAsked(x[1], x[2])'
      <3>1. \A x \in DOMAIN effects' : OperationAsked(x[1], x[2])
        BY <1>1, <1>2 DEF LedgerInv
      <3>2. QED
        BY <1>1, <3>1 DEF OperationAsked, Op
    <2>3. DOMAIN effects' \subseteq Nat \X Nat
      <3>1. DOMAIN effects \subseteq Nat \X Nat /\ <<a, i>> \in Nat \X Nat
        BY <1>1 DEF LedgerInv
      <3>2. QED
        BY <1>2, <3>1
    <2>4. IsFiniteSet(DOMAIN effects')
      <3>1. IsFiniteSet(DOMAIN effects)
        BY <1>1 DEF LedgerInv
      <3>2. IsFiniteSet(DOMAIN effects \cup {<<a, i>>})
        BY <3>1, FS_AddElement
      <3>3. QED
        BY <1>2, <3>2
    <2>5. QED
      BY <1>1, <1>2, <2>1, <2>2, <2>3, <2>4 DEF LedgerInv, Known
  <1>6. QED
    BY <1>3, <1>4, <1>5 DEF BridgeInv

\* Every step of a host keeps the invariant.
LEMMA HostSteps ==
    ASSUME BridgeInv, HostStep
    PROVE  BridgeInv'
  <1>1. JournalInv /\ LedgerInv /\ WireInv
    BY DEF BridgeInv
  <1>2. ASSUME NEW q \in wire, q.do = "acquire", HostAcquire(q.p, q.e)
        PROVE  BridgeInv'
    <2>1. AcquisitionAsked(q.p, q.e)
      BY <1>1, <1>2 DEF WireInv
    <2>2. QED
      BY <1>2, <2>1, FenceLedgerSteps DEF HostAcquire, Outcomes
  <1>3. ASSUME NEW q \in wire, q.do = "release", HostRelease(q.p, q.e, q.k)
        PROVE  BridgeInv'
    <2>1. ReleaseAsked(q.p, q.e, q.k)
      BY <1>1, <1>3 DEF WireInv
    <2>2. QED
      BY <1>3, <2>1, ReleaseLedgerSteps DEF HostRelease, Outcomes
  <1>4. ASSUME NEW q \in wire, q.do = "object", HostWrite(q.a, q.i)
        PROVE  BridgeInv'
    <2>1. PICK op : op = Op(q.a, q.i)
      OBVIOUS
    <2>2. OperationAsked(q.a, q.i) /\ op \in OperationRecords
      BY <1>1, <1>4, <2>1, AskedTypes DEF WireInv
    <2>3. doc' = [doc EXCEPT ![op.p] = [rev |-> op.rev + 1, fp |-> PostFingerprint(op)]]
      BY <1>4, <2>1 DEF HostWrite
    <2>4. op.rev + 1 \in Nat /\ PostFingerprint(op) \in Fingerprints
      BY <2>2 DEF OperationRecords, PostFingerprint, Fingerprints
    <2>5. doc' \in [Providers -> [rev : Nat, fp : Fingerprints]]
      BY <1>1, <2>3, <2>4 DEF LedgerInv
    <2>6. QED
      BY <1>4, <2>2, <2>5, EffectLedgerSteps DEF HostWrite, Outcomes
  <1>5. ASSUME NEW r \in CurrentAcquisitions, HostTombstoneAcquisition(r)
        PROVE  BridgeInv'
    <2>1. AcquisitionAsked(r.p, r.e)
      BY <1>1, <1>5, JournalTypes DEF AcquisitionAsked, Asked, CurrentAcquisitions, HostTombstoneAcquisition
    <2>2. QED
      BY <1>5, <2>1, FenceLedgerSteps DEF HostTombstoneAcquisition, Outcomes
  <1>6. ASSUME NEW r \in CurrentReleases, HostTombstoneRelease(r)
        PROVE  BridgeInv'
    <2>1. ReleaseAsked(r.p, r.e, r.k)
      BY <1>1, <1>6, JournalTypes DEF ReleaseAsked, CurrentReleases, HostTombstoneRelease
    <2>2. QED
      BY <1>6, <2>1, ReleaseLedgerSteps DEF HostTombstoneRelease, Outcomes
  <1>7. ASSUME NEW i \in CurrentOperations, HostRulesOutWrite(Current, i)
        PROVE  BridgeInv'
    <2>1. OperationAsked(Current, i)
      BY <1>1, <1>7, JournalTypes DEF OperationAsked, Asked, CurrentOperations, HostRulesOutWrite
    <2>2. doc' \in [Providers -> [rev : Nat, fp : Fingerprints]]
      BY <1>1, <1>7 DEF LedgerInv, HostRulesOutWrite
    <2>3. QED
      BY <1>7, <2>1, <2>2, EffectLedgerSteps DEF HostRulesOutWrite, Outcomes
  <1>8. QED
    BY <1>2, <1>3, <1>4, <1>5, <1>6, <1>7 DEF HostStep

\* Steps that leave the journal, the wire and the ledgers alone.
LEMMA QuietSteps ==
    ASSUME BridgeInv, UNCHANGED <<journal, binding, fences, releases, effects, wire>>,
           expired' \in [Providers -> SUBSET Epochs],
           \A p \in Providers : \A e \in expired'[p] : e \in expired[p] \/ Allocated(p, e),
           doc' \in [Providers -> [rev : Nat, fp : Fingerprints]], recent' \subseteq recent
    PROVE  BridgeInv'
  <1>1. JournalInv'
    BY HostKeepsJournal DEF BridgeInv, Extended
  <1>2. LedgerInv'
    <2>1. (\A x \in DOMAIN fences' : AcquisitionAsked(x[1], x[2])')
          /\ (\A x \in DOMAIN effects' : OperationAsked(x[1], x[2])')
      BY DEF BridgeInv, LedgerInv, AcquisitionAsked, OperationAsked, Op
    <2>2. QED
      BY <2>1 DEF BridgeInv, LedgerInv, Known
  <1>3. WireInv'
    BY DEF BridgeInv, WireInv, AcquisitionAsked, ReleaseAsked, OperationAsked, Op
  <1>4. CallerInv'
    BY DEF BridgeInv, CallerInv, Allocated
  <1>5. QED
    BY <1>1, <1>2, <1>3, <1>4 DEF BridgeInv

\* So do expiring fences, foreign writes, lost messages, crashes and observations.
LEMMA EnvironmentSteps ==
    ASSUME BridgeInv, EnvironmentStep \/ (\E p \in Providers : Observe(p))
    PROVE  BridgeInv'
  <1>1. LedgerInv /\ JournalInv
    BY DEF BridgeInv
  <1>2. /\ expired \in [Providers -> SUBSET Epochs]
        /\ doc \in [Providers -> [rev : Nat, fp : Fingerprints]]
    BY <1>1 DEF LedgerInv
  <1>3. ASSUME NEW p \in Providers, NEW e \in Epochs, LeaseRunsOut(p, e)
        PROVE  BridgeInv'
    <2>1. Allocated(p, e)
      <3>1. PICK r \in CurrentAcquisitions : r.p = p /\ r.e = e
        BY <1>3 DEF LeaseRunsOut
      <3>2. Current # 0 /\ r \in journal[Current].acqs
        BY <3>1 DEF CurrentAcquisitions
      <3>3. QED
        BY <1>1, <3>1, <3>2, JournalTypes DEF Allocated
    <2>2. /\ expired' = [expired EXCEPT ![p] = @ \cup {e}] /\ doc' = doc /\ recent' = recent
          /\ UNCHANGED <<journal, binding, fences, releases, effects, wire>>
      BY <1>3 DEF LeaseRunsOut, callerVars
    <2>3. expired' \in [Providers -> SUBSET Epochs]
      BY <1>2, <2>2
    <2>4. \A q \in Providers : \A f \in expired'[q] : f \in expired[q] \/ Allocated(q, f)
      BY <1>2, <2>1, <2>2
    <2>5. QED
      BY <1>2, <2>2, <2>3, <2>4, QuietSteps
  <1>4. ASSUME NEW p \in Providers, EvidenceAges(p)
        PROVE  BridgeInv'
    <2>1. /\ UNCHANGED <<journal, binding, expired, doc, fences, releases, effects, wire>>
          /\ recent' \subseteq recent
      BY <1>4 DEF EvidenceAges, hostVars
    <2>2. QED
      BY <1>2, <2>1, QuietSteps
  <1>5. ASSUME NEW p \in Providers, NEW fp \in {"pre", "foreign"}, Drift(p, fp)
        PROVE  BridgeInv'
    <2>1. /\ UNCHANGED <<journal, binding, expired, fences, releases, effects, wire, recent>>
          /\ doc' = [doc EXCEPT ![p] = [rev |-> doc[p].rev + 1, fp |-> fp]]
      BY <1>5 DEF Drift, callerVars
    <2>2. doc[p].rev + 1 \in Nat /\ fp \in Fingerprints
      BY <1>2 DEF Fingerprints
    <2>3. doc' \in [Providers -> [rev : Nat, fp : Fingerprints]]
      BY <1>2, <2>1, <2>2
    <2>4. QED
      BY <1>2, <2>1, <2>3, QuietSteps
  <1>6. ASSUME Crash \/ (\E p \in Providers : Observe(p))
        PROVE  BridgeInv'
    <2>1. UNCHANGED <<journal, binding, expired, doc, fences, releases, effects, wire, recent>>
      BY <1>6 DEF Crash, Observe, hostVars
    <2>2. QED
      BY <1>2, <2>1, QuietSteps
  <1>7. QED
    BY <1>3, <1>4, <1>5, <1>6 DEF EnvironmentStep

-----------------------------------------------------------------------------
(* The invariant holds. *)

\* The empty journal satisfies the invariant.
LEMMA InitialBridge == Init => BridgeInv
  <1> SUFFICES ASSUME Init
               PROVE  BridgeInv
    OBVIOUS
  <1>1. JournalInv
    BY DEF Init, JournalInv
  <1>2. DOMAIN fences = {} /\ DOMAIN releases = {} /\ DOMAIN effects = {}
    BY DEF Init
  <1>3. IsFiniteSet({})
    BY FS_EmptySet
  <1>4. LedgerInv
    <2>1. fences \in [{} -> Outcomes] /\ releases \in [{} -> Outcomes] /\ effects \in [{} -> Outcomes]
      BY DEF Init
    <2>2. binding \in [Providers -> Nat] /\ expired \in [Providers -> SUBSET Epochs]
          /\ \A p \in Providers : binding[p] = 0
      BY DEF Init
    <2>3. doc \in [Providers -> [rev : Nat, fp : Fingerprints]]
      BY DEF Init, Fingerprints
    <2>4. QED
      BY <1>2, <1>3, <2>1, <2>2, <2>3 DEF LedgerInv, Known
  <1>5. WireInv /\ CallerInv
    BY DEF Init, WireInv, CallerInv
  <1>6. QED
    BY <1>1, <1>4, <1>5 DEF BridgeInv

\* Every step keeps the invariant.
LEMMA BridgeStep == BridgeInv /\ [Next]_vars => BridgeInv'
  <1> SUFFICES ASSUME BridgeInv, [Next]_vars
               PROVE  BridgeInv'
    OBVIOUS
  <1>1. CASE AttemptStep
    <2>1. CASE FinishAttempt("committed") \/ FinishAttempt("restored")
      BY <2>1, FinishAttemptSteps DEF Kept
    <2>2. QED
      BY <1>1, <2>1, BeginAttemptSteps DEF AttemptStep
  <1>2. CASE FenceStep
    <2>1. ASSUME NEW p \in Providers, PrepareAcquisition(p)
          PROVE  BridgeInv'
      BY <2>1, PrepareAcquisitionSteps DEF Kept
    <2>2. ASSUME NEW r \in CurrentAcquisitions,
                 ReconcileAcquisition(r) \/ AcknowledgeAcquisition(r) \/ AbortAcquisition(r)
          PROVE  BridgeInv'
      BY <2>2, AcquisitionSteps DEF Kept
    <2>3. ASSUME NEW r \in CurrentAcquisitions, PrepareRelease(r.p, r.e)
          PROVE  BridgeInv'
      BY <2>3, PrepareReleaseSteps DEF Kept
    <2>4. ASSUME NEW r \in CurrentReleases, ReconcileRelease(r) \/ AcknowledgeRelease(r)
          PROVE  BridgeInv'
      BY <2>4, ReleaseSteps DEF Kept
    <2>5. QED
      BY <1>2, <2>1, <2>2, <2>3, <2>4 DEF FenceStep
  <1>3. CASE ObjectStep
    <2>1. ASSUME NEW p \in Providers, NEW kind \in {"write", "rollback"}, Current > 0,
                 PrepareOperation(p, kind)
          PROVE  BridgeInv'
      BY <2>1, PrepareOperationSteps DEF Kept
    <2>2. ASSUME NEW i \in CurrentOperations,
                 ReconcileRecorded(i) \/ Acknowledge(i) \/ VerifyReceipt(i) \/ AbortOperation(i)
          PROVE  BridgeInv'
      BY <2>2, OperationSteps DEF Kept
    <2>3. QED
      BY <1>3, <2>1, <2>2, EnvironmentSteps DEF ObjectStep
  <1>4. CASE HostStep
    BY <1>4, HostSteps
  <1>5. CASE EnvironmentStep
    BY <1>5, EnvironmentSteps
  <1>6. CASE UNCHANGED vars
    <2>1. UNCHANGED <<journal, binding, fences, releases, effects, wire, expired, doc, recent>>
      BY <1>6 DEF vars
    <2>2. QED
      BY <2>1, QuietSteps DEF BridgeInv, LedgerInv
  <1>7. QED
    BY <1>1, <1>2, <1>3, <1>4, <1>5, <1>6 DEF Next

\* The journal is in order and agrees with the hosts' ledgers, every outcome at a host and
\* every request on the wire has a record that was armed, and a fence that is held was
\* acquired and not released (BridgeTransactionRecorder, BridgeTransactionJournal).
THEOREM BridgeInvariantHolds == Spec => []BridgeInv
  <1>1. QED
    BY InitialBridge, BridgeStep, PTL DEF Spec

-----------------------------------------------------------------------------
(* The invariant of the recorder. *)

\* The last release of a fence is one of its releases, and has the highest number.
LEMMA LastReleaseIn ==
    ASSUME NEW t \in AnyAttempt, NEW p, NEW e, ReleasesOf(t, p, e) # {}
    PROVE  LastRelease(t, p, e) \in ReleasesOf(t, p, e)
           /\ \A s \in ReleasesOf(t, p, e) : s.k <= LastRelease(t, p, e).k
  <1> DEFINE R == ReleasesOf(t, p, e)
             K == {r.k : r \in R}
  <1>1. t.rels \subseteq ReleaseRecords /\ R \subseteq t.rels
    BY AttemptTypes DEF ReleasesOf
  <1>2. MaxReleases \in Nat
    BY BridgeBounds
  <1>3. K \subseteq 0 .. MaxReleases /\ K # {}
    BY <1>1, <1>2 DEF ReleaseRecords
  <1>4. \A r \in R : r.k \in K
    OBVIOUS
  <1>5. \A k \in K : \E r \in R : r.k = k
    OBVIOUS
  <1> HIDE DEF K
  <1>6. LatestOf(K) \in K /\ \A j \in K : j <= LatestOf(K)
    BY <1>2, <1>3, LatestIsIn
  <1>7. PICK r \in R : r.k = LatestOf(K)
    BY <1>5, <1>6
  <1>8. \A s \in R : s.k <= r.k
    BY <1>4, <1>6, <1>7
  <1>9. QED
    BY <1>8 DEF LastRelease

\* A fence that was superseded, or that is left behind by an attempt that ended, is not in play.
LEMMA SupersededNotInPlay ==
    ASSUME NEW t \in AnyAttempt, NEW r \in t.acqs,
           \/ AcquisitionUndispatched(r)
           \/ r.st = "no_effect"
           \/ /\ r.st = "acknowledged"
              /\ ReleasesOf(t, r.p, r.e) # {}
              /\ LastRelease(t, r.p, r.e).st = "acknowledged"
    PROVE  ~InPlay(t, r)
  <1>1. CASE AcquisitionUndispatched(r) \/ r.st = "no_effect"
    BY <1>1 DEF AcquisitionUndispatched, InPlay
  <1>2. CASE /\ r.st = "acknowledged"
             /\ ReleasesOf(t, r.p, r.e) # {}
             /\ LastRelease(t, r.p, r.e).st = "acknowledged"
    <2>1. LastRelease(t, r.p, r.e) \in ReleasesOf(t, r.p, r.e)
      BY <1>2, LastReleaseIn
    <2>2. QED
      BY <1>2, <2>1 DEF InPlay
  <1>3. QED
    BY <1>1, <1>2

\* Of an ended attempt no fence is in play, and no release is undecided.
LEMMA EndedFences ==
    ASSUME NEW t \in AnyAttempt, AttemptValid(t), t.state \in {"committed", "restored"},
           NEW r \in t.acqs
    PROVE  /\ \/ AcquisitionUndispatched(r) \/ r.st = "no_effect"
              \/ /\ r.st = "acknowledged" /\ ReleasesOf(t, r.p, r.e) # {}
                 /\ LastRelease(t, r.p, r.e).st = "acknowledged"
                 /\ LastRelease(t, r.p, r.e) \in ReleasesOf(t, r.p, r.e)
           /\ ~InPlay(t, r)
           /\ \A s \in ReleasesOf(t, r.p, r.e) : s.st \in {"acknowledged", "no_effect"}
  <1>1. LifecycleEnded(t)
    BY DEF AttemptValid, StateValid
  <1>2. ReleasesOf(t, r.p, r.e) # {} =>
            LastRelease(t, r.p, r.e) \in ReleasesOf(t, r.p, r.e)
    BY LastReleaseIn
  <1>3. \/ AcquisitionUndispatched(r) \/ r.st = "no_effect"
        \/ /\ r.st = "acknowledged" /\ ReleasesOf(t, r.p, r.e) # {}
           /\ LastRelease(t, r.p, r.e).st = "acknowledged"
           /\ LastRelease(t, r.p, r.e) \in ReleasesOf(t, r.p, r.e)
    BY <1>1, <1>2 DEF LifecycleEnded
  <1>4. \A s \in ReleasesOf(t, r.p, r.e) : s.st \in {"acknowledged", "no_effect"}
    BY <1>1 DEF LifecycleEnded
  <1>5. ~InPlay(t, r)
    BY <1>3, SupersededNotInPlay
  <1>6. QED
    BY <1>3, <1>4, <1>5

\* At most one fence of a provider is in play.
LEMMA OneFence == BridgeInv => OneFenceInPlay
  <1> SUFFICES ASSUME BridgeInv
               PROVE  OneFenceInPlay
    OBVIOUS
  <1>1. ASSUME NEW a \in DOMAIN journal, NEW b \in DOMAIN journal, a < b,
               NEW r \in journal[a].acqs
        PROVE  ~InPlay(journal[a], r)
    <2>1. a # Current /\ journal[a] \in AnyAttempt
      BY <1>1, JournalTypes DEF BridgeInv
    <2>2. journal[a].state = "restored" /\ AttemptValid(journal[a])
      BY <2>1 DEF BridgeInv, JournalInv, AttemptInv
    <2>3. QED
      BY <2>1, <2>2, EndedFences
  <1>2. ASSUME NEW a \in DOMAIN journal, NEW r \in journal[a].acqs, NEW s \in journal[a].acqs,
               r.p = s.p, r.e < s.e
        PROVE  ~InPlay(journal[a], r)
    <2>1. journal[a] \in AnyAttempt /\ AttemptValid(journal[a])
      BY JournalTypes DEF BridgeInv, JournalInv, AttemptInv
    <2>2. SuccessionValid(journal[a])
      BY <2>1 DEF AttemptValid
    <2>3. QED
      BY <1>2, <2>1, <2>2, SupersededNotInPlay DEF SuccessionValid
  <1>3. ASSUME NEW a \in DOMAIN journal, NEW b \in DOMAIN journal,
               NEW r \in journal[a].acqs, NEW s \in journal[b].acqs, r.p = s.p,
               InPlay(journal[a], r), InPlay(journal[b], s)
        PROVE  r = s
    <2>1. a \in Nat /\ b \in Nat
      BY JournalTypes DEF BridgeInv
    <2>2. a = b
      BY <1>1, <1>3, <2>1
    <2>3. r.e \in Nat /\ s.e \in Nat
      <3>1. journal[a].acqs \subseteq AcquisitionRecords
        BY JournalTypes, AttemptTypes DEF BridgeInv
      <3>2. r \in AcquisitionRecords /\ s \in AcquisitionRecords
        BY <2>2, <3>1
      <3>3. QED
        BY <3>2 DEF AcquisitionRecords, Epochs
    <2>4. r.e = s.e
      BY <1>2, <1>3, <2>2, <2>3
    <2>5. AcquisitionsValid(journal[a])
      BY DEF BridgeInv, JournalInv, AttemptInv, AttemptValid
    <2>6. QED
      BY <1>3, <2>2, <2>4, <2>5 DEF AcquisitionsValid
  <1>4. QED
    BY <1>3 DEF OneFenceInPlay

\* Under a fence whose release was asked for, an operation was never asked for or has its outcome.
LEMMA ReleasedOperations ==
    ASSUME BridgeInv, NEW a \in DOMAIN journal, NEW r \in journal[a].rels,
           NEW i \in OperationsUnder(journal[a], r.p, r.e)
    PROVE  /\ i \in DOMAIN journal[a].ops /\ EffectResolved(Op(a, i))
           /\ Known(effects, <<a, i>>) \/ ~Asked(Op(a, i))
  <1>1. AttemptValid(journal[a]) /\ Told(a, journal[a])
    BY DEF BridgeInv, JournalInv, AttemptInv
  <1>2. i \in DOMAIN journal[a].ops /\ EffectResolved(Op(a, i))
    BY <1>1 DEF AttemptValid, ReleasesValid, Op, OperationsUnder
  <1>3. OperationRecordValid(Op(a, i))
    BY <1>1, <1>2 DEF AttemptValid, OperationsValid, Op
  <1>4. CASE Op(a, i).st = "blocked" /\ Op(a, i).from = "recorded"
    BY <1>2, <1>4 DEF Asked
  <1>5. CASE HasReceipt(Op(a, i))
    <2>1. Op(a, i).out # None
      BY <1>3, <1>5 DEF OperationRecordValid
    <2>2. QED
      BY <1>1, <1>2, <2>1 DEF Told, Op
  <1>6. QED
    BY <1>2, <1>4, <1>5 DEF EffectResolved, HasReceipt

\* The invariant contains the types.
LEMMA BridgeTyped == BridgeInv => BridgeTypeOK
  <1> SUFFICES ASSUME BridgeInv
               PROVE  BridgeTypeOK
    OBVIOUS
  <1>1. JournalInv /\ LedgerInv /\ CallerInv
    BY DEF BridgeInv
  <1>2. \A a \in DOMAIN journal : /\ Planned(journal[a]) \subseteq Providers
                                 /\ journal[a] \in Attempts(Planned(journal[a]))
    BY <1>1, JournalTypes, AttemptTypes
  <1>3. \A p \in Providers : \/ binding[p] = 0
                            \/ /\ Known(fences, <<p, binding[p]>>)
                               /\ fences[<<p, binding[p]>>] = "applied"
    BY <1>1 DEF LedgerInv
  <1>4. ASSUME NEW p \in Providers, NEW e \in Epochs, Allocated(p, e)
        PROVE  e \in 1 .. EpochHighWater(p)
    <2>1. EpochHighWater(p) \in Nat /\ e <= EpochHighWater(p)
      BY <1>1, <1>4, HighWater, BridgeBounds DEF Allocated
    <2>2. QED
      BY <2>1 DEF Epochs
  <1>5. \A p \in Providers : expired[p] \subseteq 1 .. EpochHighWater(p)
    BY <1>1, <1>4 DEF CallerInv, LedgerInv
  <1>6. \A x \in DOMAIN effects \cup recent :
            x[1] \in DOMAIN journal /\ x[2] \in DOMAIN journal[x[1]].ops
    BY <1>1 DEF CallerInv, LedgerInv, OperationAsked
  <1>7. ASSUME NEW x \in DOMAIN fences
        PROVE  x[2] \in 1 .. EpochHighWater(x[1])
    <2>1. AcquisitionAsked(x[1], x[2]) /\ x[1] \in Providers /\ x[2] \in Epochs
      BY <1>1 DEF LedgerInv
    <2>2. Allocated(x[1], x[2])
      BY <2>1 DEF AcquisitionAsked, Allocated
    <2>3. QED
      BY <1>4, <2>1, <2>2
  <1>8. QED
    BY <1>2, <1>3, <1>5, <1>6, <1>7 DEF BridgeTypeOK

\* The invariant implies what the run checks of the recorder.
LEMMA BridgeSafe == BridgeInv => RecorderInvariant
  <1> SUFFICES ASSUME BridgeInv
               PROVE  RecorderInvariant
    OBVIOUS
  <1>1. RequestsAreJournalled
    <2> SUFFICES ASSUME NEW q \in wire
                 PROVE  CASE q.do = "acquire" -> \E a \in DOMAIN journal : \E r \in journal[a].acqs :
                                    r.p = q.p /\ r.e = q.e /\ Asked(r)
                          [] q.do = "release" -> \E a \in DOMAIN journal : \E r \in journal[a].rels :
                                    r.p = q.p /\ r.e = q.e /\ r.k = q.k /\ r.st # "recorded"
                          [] q.do = "object"  -> Asked(Op(q.a, q.i))
      BY DEF RequestsAreJournalled
    <2>1. /\ q.do \in {"acquire", "release", "object"}
          /\ q.do = "acquire" => AcquisitionAsked(q.p, q.e)
          /\ q.do = "release" => ReleaseAsked(q.p, q.e, q.k)
          /\ q.do = "object"  => OperationAsked(q.a, q.i)
      BY DEF BridgeInv, WireInv
    <2>2. CASE q.do = "acquire"
      BY <2>1, <2>2 DEF AcquisitionAsked
    <2>3. CASE q.do = "release"
      BY <2>1, <2>3 DEF ReleaseAsked
    <2>4. CASE q.do = "object"
      BY <2>1, <2>4 DEF OperationAsked
    <2>5. QED
      BY <2>1, <2>2, <2>3, <2>4
  <1>2. ReleaseLeavesNothingInFlight
    <2> SUFFICES ASSUME NEW a \in DOMAIN journal, NEW r \in journal[a].rels,
                        NEW i \in OperationsUnder(journal[a], r.p, r.e),
                        ObjectRequest(a, i) \in wire
                 PROVE  Known(effects, <<a, i>>)
      BY DEF ReleaseLeavesNothingInFlight
    <2>1. PICK q \in wire : q = ObjectRequest(a, i)
      OBVIOUS
    <2>2. q.do = "object" /\ q.a = a /\ q.i = i
      BY <2>1 DEF ObjectRequest
    <2>3. Asked(Op(a, i))
      BY <2>2 DEF BridgeInv, WireInv, OperationAsked
    <2>4. QED
      BY <2>3, ReleasedOperations
  <1>3. QED
    BY <1>1, <1>2, OneFence, BridgeTyped DEF RecorderInvariant

\* Over all attempts a provider has at most one fence that is held or may yet be held, no
\* write is in flight behind the release of its fence, and nothing is on the wire that the
\* journal has no armed record of (BridgeTransactionRecorder).
THEOREM RecorderSafe == Spec => []RecorderInvariant
  <1>1. QED
    BY BridgeInvariantHolds, BridgeSafe, PTL

-----------------------------------------------------------------------------
(* A terminal attempt is over. *)

\* An epoch of a provider belongs to one fence of one attempt.
LEMMA UniqueFence ==
    ASSUME BridgeInv, NEW a \in DOMAIN journal, NEW b \in DOMAIN journal,
           NEW r \in journal[a].acqs, NEW s \in journal[b].acqs, r.p = s.p, r.e = s.e
    PROVE  a = b /\ r = s
  <1>1. a \in Nat /\ b \in Nat
    BY JournalTypes DEF BridgeInv
  <1>2. r.e \in Nat
    <2>1. journal[a].acqs \subseteq AcquisitionRecords
      BY JournalTypes, AttemptTypes DEF BridgeInv
    <2>2. QED
      BY <2>1 DEF AcquisitionRecords, Epochs
  <1>3. a = b
    <2>1. ~(a < b) /\ ~(b < a)
      BY <1>2 DEF BridgeInv, JournalInv
    <2>2. QED
      BY <1>1, <2>1
  <1>4. AcquisitionsValid(journal[a])
    BY DEF BridgeInv, JournalInv, AttemptInv, AttemptValid
  <1>5. QED
    BY <1>3, <1>4 DEF AcquisitionsValid

\* An operation of an attempt that ended was never asked for, or has its outcome.
LEMMA EndedOperations ==
    ASSUME BridgeInv, NEW a \in DOMAIN journal, Terminal(a), NEW i \in DOMAIN journal[a].ops
    PROVE  EffectResolved(Op(a, i)) /\ (Known(effects, <<a, i>>) \/ ~Asked(Op(a, i)))
  <1>1. journal[a] \in AnyAttempt /\ AttemptValid(journal[a])
        /\ journal[a].state \in {"committed", "restored"}
    BY JournalTypes DEF BridgeInv, JournalInv, AttemptInv, Terminal
  <1>2. PICK r \in journal[a].acqs : r.p = Op(a, i).p /\ r.e = Op(a, i).e /\ r.st = "acknowledged"
    BY <1>1 DEF AttemptValid, OperationsValid, Acquired, Op
  <1>3. PICK s : s \in ReleasesOf(journal[a], r.p, r.e)
    BY <1>1, <1>2, EndedFences DEF AcquisitionUndispatched
  <1>4. s \in journal[a].rels /\ s.p = r.p /\ s.e = r.e
    BY <1>3 DEF ReleasesOf
  <1>5. i \in OperationsUnder(journal[a], s.p, s.e)
    BY <1>2, <1>4 DEF OperationsUnder, Op
  <1>6. QED
    BY <1>4, <1>5, ReleasedOperations

\* Which steps the hosts' fences and effects depend on.
LEMMA LedgerChanges ==
    ASSUME [Next]_vars
    PROVE  \/ UNCHANGED <<binding, effects>>
           \/ \E q \in wire : q.do = "acquire" /\ HostAcquire(q.p, q.e)
           \/ \E q \in wire : q.do = "release" /\ HostRelease(q.p, q.e, q.k)
           \/ \E q \in wire : q.do = "object" /\ HostWrite(q.a, q.i)
           \/ \E i \in CurrentOperations : HostRulesOutWrite(Current, i)
  <1>1. CASE AttemptStep
    BY <1>1 DEF AttemptStep, BeginAttempt, FinishAttempt, hostVars
  <1>2. CASE FenceStep
    BY <1>2 DEF FenceStep, PrepareAcquisition, ReconcileAcquisition, AcknowledgeAcquisition,
                AbortAcquisition, PrepareRelease, ReconcileRelease, AcknowledgeRelease, hostVars
  <1>3. CASE ObjectStep
    BY <1>3 DEF ObjectStep, Observe, PrepareOperation, ReconcileRecorded, Acknowledge, VerifyReceipt,
                AbortOperation, hostVars
  <1>4. CASE HostStep
    BY <1>4 DEF HostStep, HostTombstoneAcquisition, HostTombstoneRelease
  <1>5. CASE EnvironmentStep
    BY <1>5 DEF EnvironmentStep, LeaseRunsOut, EvidenceAges, Drift, Crash, hostVars
  <1>6. CASE UNCHANGED vars
    BY <1>6 DEF vars
  <1>7. QED
    BY <1>1, <1>2, <1>3, <1>4, <1>5, <1>6 DEF Next

\* No write of an ended attempt is decided any more.
LEMMA FinalEffects ==
    ASSUME BridgeInv, [Next]_vars, NEW a \in DOMAIN journal, Terminal(a),
           NEW x \in DOMAIN effects' \ DOMAIN effects
    PROVE  x[1] # a
  <1>1. ASSUME NEW i, OperationAsked(a, i), ~Known(effects, <<a, i>>)
        PROVE  FALSE
    BY <1>1, EndedOperations DEF OperationAsked
  <1>2. ASSUME NEW q \in wire, q.do = "object", HostWrite(q.a, q.i)
        PROVE  x[1] # a
    <2>1. OperationAsked(q.a, q.i) /\ ~Known(effects, <<q.a, q.i>>)
      BY <1>2 DEF BridgeInv, WireInv, HostWrite
    <2>2. x = <<q.a, q.i>>
      BY <1>2 DEF HostWrite, With
    <2>3. QED
      BY <1>1, <2>1, <2>2
  <1>3. ASSUME NEW i \in CurrentOperations, HostRulesOutWrite(Current, i)
        PROVE  x[1] # a
    <2>1. OperationAsked(Current, i) /\ ~Known(effects, <<Current, i>>)
      BY <1>3, JournalTypes DEF BridgeInv, OperationAsked, Asked, CurrentOperations, HostRulesOutWrite
    <2>2. x = <<Current, i>>
      BY <1>3 DEF HostRulesOutWrite, With
    <2>3. QED
      BY <1>1, <2>1, <2>2
  <1>4. QED
    BY <1>2, <1>3, LedgerChanges DEF HostAcquire, HostRelease

\* No fence of an ended attempt is bound or unbound any more.
LEMMA FinalFences ==
    ASSUME BridgeInv, [Next]_vars, NEW a \in DOMAIN journal, Terminal(a),
           NEW p \in Providers, binding'[p] # binding[p], NEW r \in journal[a].acqs, r.p = p,
           r.e \in {binding[p], binding'[p]}
    PROVE  FALSE
  <1>1. /\ JournalInv /\ LedgerInv /\ journal[a] \in AnyAttempt
        /\ AttemptValid(journal[a]) /\ Told(a, journal[a])
        /\ journal[a].state \in {"committed", "restored"}
    BY JournalTypes DEF BridgeInv, JournalInv, AttemptInv, Terminal
  <1>2. r.e \in Epochs /\ r.e # 0
    <2>1. journal[a].acqs \subseteq AcquisitionRecords
      BY <1>1, AttemptTypes
    <2>2. r.e \in Epochs
      BY <2>1 DEF AcquisitionRecords
    <2>3. QED
      BY <2>2, BridgeBounds DEF Epochs
  <1>3. /\ \/ AcquisitionUndispatched(r) \/ r.st = "no_effect"
           \/ /\ r.st = "acknowledged" /\ ReleasesOf(journal[a], r.p, r.e) # {}
              /\ LastRelease(journal[a], r.p, r.e).st = "acknowledged"
              /\ LastRelease(journal[a], r.p, r.e) \in ReleasesOf(journal[a], r.p, r.e)
    BY <1>1, EndedFences
  <1>4. ASSUME NEW q \in wire, q.do = "acquire", HostAcquire(q.p, q.e)
        PROVE  FALSE
    <2>1. AcquisitionAsked(q.p, q.e) /\ ~Known(fences, <<q.p, q.e>>)
      BY <1>4 DEF BridgeInv, WireInv, HostAcquire
    <2>2. q.p = p /\ r.e = q.e
      BY <1>1, <1>2, <1>4 DEF HostAcquire, LedgerInv
    <2>3. PICK b \in DOMAIN journal : \E s \in journal[b].acqs : s.p = q.p /\ s.e = q.e /\ Asked(s)
      BY <2>1 DEF AcquisitionAsked
    <2>4. Asked(r)
      BY <2>2, <2>3, UniqueFence
    <2>5. r.st \in {"acknowledged", "no_effect"}
      BY <1>3, <2>4 DEF Asked, AcquisitionUndispatched
    <2>6. QED
      BY <1>1, <2>1, <2>2, <2>5 DEF Told
  <1>5. ASSUME NEW q \in wire, q.do = "release", HostRelease(q.p, q.e, q.k)
        PROVE  FALSE
    <2>1. ReleaseAsked(q.p, q.e, q.k)
      BY <1>5 DEF BridgeInv, WireInv
    <2>2. q.p = p /\ r.e = q.e /\ binding[p] = q.e /\ q.e \in Epochs
      BY <1>1, <1>2, <1>5 DEF HostRelease, LedgerInv
    <2>3. PICK b \in DOMAIN journal : \E s \in journal[b].rels : s.p = q.p /\ s.e = q.e
      BY <2>1 DEF ReleaseAsked
    <2>4. Acquired(journal[b], q.p, q.e)
      BY <2>3 DEF BridgeInv, JournalInv, AttemptInv, AttemptValid, ReleasesValid
    <2>5. r.st = "acknowledged"
      BY <2>2, <2>3, <2>4, UniqueFence DEF Acquired
    <2>6. PICK s \in journal[a].rels : s.p = p /\ s.e = r.e /\ s.st = "acknowledged"
      BY <1>3, <2>5 DEF ReleasesOf, AcquisitionUndispatched
    <2>7. Known(releases, <<p, r.e, s.k>>) /\ releases[<<p, r.e, s.k>>] = "applied"
      BY <1>1, <2>6 DEF Told
    <2>8. s.k \in 1 .. MaxReleases
      BY <1>1, <2>6, AttemptTypes DEF ReleaseRecords
    <2>9. QED
      BY <1>1, <1>2, <2>2, <2>7, <2>8 DEF LedgerInv
  <1>6. QED
    BY <1>4, <1>5, LedgerChanges DEF HostWrite, HostRulesOutWrite

\* The two together: no step touches an ended attempt's effects.
LEMMA FinalStep ==
    BridgeInv /\ [Next]_vars =>
        [\A a \in DOMAIN journal : Terminal(a) =>
          /\ \A x \in DOMAIN effects' \ DOMAIN effects : x[1] # a
          /\ \A p \in Providers : binding'[p] # binding[p] =>
                ~\E r \in journal[a].acqs : r.p = p /\ r.e \in {binding[p], binding'[p]}]_vars
  BY FinalEffects, FinalFences

\* A committed or restored attempt is over: no delayed request of it changes a document,
\* takes a fence or lets one go afterwards (BridgeTransactionRecorder).
THEOREM TerminalStaysFinal == Spec => TerminalIsFinal
  <1>1. QED
    BY BridgeInvariantHolds, FinalStep, PTL DEF Spec, TerminalIsFinal

-----------------------------------------------------------------------------
(* What the hosts did of the plan. *)

\* The steps that store an attempt and leave it open.
Recording ==
    \/ \E p \in Providers : PrepareAcquisition(p)
    \/ \E r \in CurrentAcquisitions :
           ReconcileAcquisition(r) \/ AcknowledgeAcquisition(r) \/ AbortAcquisition(r)
    \/ \E r \in CurrentAcquisitions : PrepareRelease(r.p, r.e)
    \/ \E r \in CurrentReleases : ReconcileRelease(r) \/ AcknowledgeRelease(r)
    \/ Current > 0 /\ \E p \in Providers, kind \in {"write", "rollback"} : PrepareOperation(p, kind)
    \/ \E i \in CurrentOperations :
           ReconcileRecorded(i) \/ Acknowledge(i) \/ VerifyReceipt(i) \/ AbortOperation(i)

\* A step that records keeps the invariant and the hosts.
LEMMA RecordingKept ==
    ASSUME BridgeInv, Recording
    PROVE  Kept
  BY PrepareAcquisitionSteps, AcquisitionSteps, PrepareReleaseSteps, ReleaseSteps,
     PrepareOperationSteps, OperationSteps DEF Recording

\* The steps that are of none of these kinds.
Elsewhere == UNCHANGED <<journal, effects>>

\* The kinds of step that the refinement and the retries tell apart.
LEMMA StepKinds ==
    ASSUME [Next]_vars
    PROVE  \/ Recording \/ Elsewhere
           \/ \E plan \in SUBSET Providers : BeginAttempt(plan)
           \/ \E state \in {"committed", "restored"} : FinishAttempt(state)
           \/ \E q \in wire : q.do = "object" /\ HostWrite(q.a, q.i)
           \/ \E i \in CurrentOperations : HostRulesOutWrite(Current, i)
  <1>1. CASE AttemptStep
    BY <1>1 DEF AttemptStep
  <1>2. CASE FenceStep
    BY <1>2 DEF FenceStep, Recording
  <1>3. CASE ObjectStep
    BY <1>3 DEF ObjectStep, Recording, Elsewhere, Observe, hostVars
  <1>4. CASE HostStep
    BY <1>4 DEF HostStep, Elsewhere, HostAcquire, HostRelease, HostTombstoneAcquisition,
                HostTombstoneRelease
  <1>5. CASE EnvironmentStep
    BY <1>5 DEF EnvironmentStep, Elsewhere, LeaseRunsOut, EvidenceAges, Drift, Crash, hostVars
  <1>6. CASE UNCHANGED vars
    BY <1>6 DEF vars, Elsewhere
  <1>7. QED
    BY <1>1, <1>2, <1>3, <1>4, <1>5, <1>6 DEF Next

\* The operations with an outcome are those of records that stay what they are.
LEMMA EffectIntents ==
    ASSUME BridgeInv, JournalGrows, NEW x \in DOMAIN effects
    PROVE  /\ Op(x[1], x[2])'.p = Op(x[1], x[2]).p /\ Op(x[1], x[2])'.kind = Op(x[1], x[2]).kind
           /\ Op(x[1], x[2])'.rev = Op(x[1], x[2]).rev
  <1>1. x[1] \in DOMAIN journal /\ x[2] \in DOMAIN journal[x[1]].ops
    BY DEF BridgeInv, LedgerInv, OperationAsked
  <1>2. SameIntent(journal[x[1]].ops[x[2]], journal'[x[1]].ops[x[2]])
    BY <1>1 DEF JournalGrows
  <1>3. QED
    BY <1>2 DEF SameIntent, Op

\* What was done to a document stays so while no effect is entered.
LEMMA DidKept ==
    ASSUME BridgeInv, JournalGrows, effects' = effects, NEW p, NEW kind
    PROVE  Did(p, kind)' = Did(p, kind)
  BY EffectIntents DEF Did

\* The effects on a document can be counted.
LEMMA DidFinite ==
    ASSUME BridgeInv, NEW p, NEW kind
    PROVE  IsFiniteSet(Did(p, kind)) /\ Cardinality(Did(p, kind)) \in Nat
  <1>1. IsFiniteSet(DOMAIN effects) /\ Did(p, kind) \subseteq DOMAIN effects
    BY DEF BridgeInv, LedgerInv, Did
  <1>2. QED
    BY <1>1, FS_Subset, FS_CardinalityType

\* Counting effects or looking at the current attempt tells the same of what is in force.
LEMMA InForceIsStanding ==
    ASSUME BridgeInv, BalanceInv, NEW p \in Providers
    PROVE  InForce(p) = Standing(p)
  <1>1. Cardinality(Did(p, "write")) \in Nat /\ Cardinality(Did(p, "rollback")) \in Nat
    BY DidFinite
  <1>2. InForce(p) <=> Cardinality(Did(p, "write")) > Cardinality(Did(p, "rollback"))
    BY DEF InForce, Did
  <1>3. Standing(p) \in BOOLEAN /\ InForce(p) \in BOOLEAN
    BY DEF Standing, InForce
  <1>4. QED
    BY <1>1, <1>2, <1>3 DEF BalanceInv

\* What stands is unchanged by a step that enters no effect and begins no attempt.
LEMMA StandingKept ==
    ASSUME BridgeInv, JournalGrows, effects' = effects, DOMAIN journal' = DOMAIN journal,
           Current' = Current, NEW p
    PROVE  Standing(p)' = Standing(p)
  <1>1. CASE Current = 0
    BY <1>1 DEF Standing
  <1>2. CASE Current # 0
    <2>1. Current \in DOMAIN journal
      BY <1>2, CurrentFacts
    <2>2. PICK t, u : t = journal[Current] /\ u = journal'[Current]
      OBVIOUS
    <2>3. /\ DOMAIN t.ops \subseteq DOMAIN u.ops
          /\ \A i \in DOMAIN t.ops : SameIntent(t.ops[i], u.ops[i])
      BY <2>1, <2>2 DEF JournalGrows
    <2>4. \A i : Known(effects, <<Current, i>>) => i \in DOMAIN t.ops
      BY <2>2 DEF BridgeInv, LedgerInv, OperationAsked, Known
    <2>5. \A i : Known(effects, <<Current, i>>) =>
              /\ i \in WritesOf(t, p) <=> i \in WritesOf(u, p)
              /\ i \in RollbacksOf(t, p) <=> i \in RollbacksOf(u, p)
      BY <2>3, <2>4 DEF WritesOf, RollbacksOf, SameIntent
    <2>6. Standing(p) <=>
              /\ \E i \in WritesOf(t, p) :
                     Known(effects, <<Current, i>>) /\ effects[<<Current, i>>] = "applied"
              /\ \A i \in RollbacksOf(t, p) :
                     ~(Known(effects, <<Current, i>>) /\ effects[<<Current, i>>] = "applied")
      BY <1>2, <2>2 DEF Standing
    <2>7. Standing(p)' <=>
              /\ \E i \in WritesOf(u, p) :
                     Known(effects, <<Current, i>>) /\ effects[<<Current, i>>] = "applied"
              /\ \A i \in RollbacksOf(u, p) :
                     ~(Known(effects, <<Current, i>>) /\ effects[<<Current, i>>] = "applied")
      BY <1>2, <2>2 DEF Standing, Known
    <2>8. Standing(p)' <=> Standing(p)
      BY <2>5, <2>6, <2>7
    <2>9. Standing(p)' \in BOOLEAN /\ Standing(p) \in BOOLEAN
      BY DEF Standing
    <2>10. QED
      BY <2>8, <2>9
  <1>3. QED
    BY <1>1, <1>2

\* What was ruled out, and what was never asked for, did not happen.
LEMMA NoEffectFacts ==
    ASSUME BridgeInv, Current # 0, NEW i \in DOMAIN journal[Current].ops
    PROVE  /\ RollbackProvenNoEffect(Op(Current, i)) =>
                  ~(Known(effects, <<Current, i>>) /\ effects[<<Current, i>>] = "applied")
           /\ VerifiedOutcome(Op(Current, i), "applied") \/ EligibleRollbackParent(Op(Current, i)) =>
                  Known(effects, <<Current, i>>) /\ effects[<<Current, i>>] = "applied"
  <1>1. Told(Current, journal[Current])
    BY CurrentFacts DEF AttemptInv
  <1>2. Op(Current, i).out # None => /\ Known(effects, <<Current, i>>)
                                    /\ effects[<<Current, i>>] = Op(Current, i).out
    BY <1>1 DEF Told, Op
  <1>3. Known(effects, <<Current, i>>) => Asked(Op(Current, i))
    BY DEF BridgeInv, LedgerInv, OperationAsked, Known
  <1>4. RollbackProvenNoEffect(Op(Current, i)) =>
            ~Asked(Op(Current, i)) \/ Op(Current, i).out = "no_effect"
    BY DEF RollbackProvenNoEffect, ProvenUndispatched, VerifiedOutcome, Asked
  <1>5. VerifiedOutcome(Op(Current, i), "applied") \/ EligibleRollbackParent(Op(Current, i)) =>
            Op(Current, i).out = "applied"
    BY DEF VerifiedOutcome, EligibleRollbackParent
  <1>6. QED
    BY <1>2, <1>3, <1>4, <1>5 DEF None

-----------------------------------------------------------------------------
(* The writes and rollbacks of an attempt. *)

\* An attempt writes a document once.
LEMMA OnlyWrite ==
    ASSUME NEW t, AttemptValid(t), NEW p, NEW i \in WritesOf(t, p)
    PROVE  WritesOf(t, p) = {i}
  <1>1. i \in DOMAIN t.ops /\ t.ops[i].p = p /\ t.ops[i].kind = "write"
    BY DEF WritesOf
  <1>2. QED
    BY <1>1 DEF AttemptValid, OperationsValid

\* A rollback undoes an applied write that precedes it.
LEMMA RollbackParent ==
    ASSUME NEW t \in AnyAttempt, AttemptValid(t), NEW p, NEW i \in RollbacksOf(t, p)
    PROVE  RollbackValid(t, i) /\ \E j \in WritesOf(t, p) : j < i /\ EligibleRollbackParent(t.ops[j])
  <1>1. i \in DOMAIN t.ops /\ t.ops[i].p = p /\ t.ops[i].kind # "write"
    BY DEF RollbacksOf
  <1>2. RollbackValid(t, i)
    BY <1>1 DEF AttemptValid, OperationsValid
  <1>3. {j \in WritesOf(t, t.ops[i].p) : j < i /\ EligibleRollbackParent(t.ops[j])} # {}
    BY <1>2 DEF RollbackValid
  <1>4. QED
    BY <1>1, <1>2, <1>3

\* A rollback follows another only if that one is proven to have had no effect.
LEMMA RollbackOrder ==
    ASSUME NEW t \in AnyAttempt, AttemptValid(t), NEW p,
           NEW i \in RollbacksOf(t, p), NEW j \in RollbacksOf(t, p), i < j
    PROVE  RollbackProvenNoEffect(t.ops[i])
  <1> DEFINE S == {k \in RollbacksOf(t, p) : i < k}
  <1>1. t.ops \in Seq(OperationRecords)
    BY AttemptTypes
  <1>2. RollbacksOf(t, p) \subseteq DOMAIN t.ops /\ DOMAIN t.ops \subseteq Nat
    BY <1>1 DEF RollbacksOf
  <1>3. S \subseteq Nat /\ S # {}
    BY <1>2
  <1>4. PICK m \in S : \A k \in S : ~(<<k, m>> \in OpToRel(<, Nat))
    BY <1>3, NatLessThanWellFounded, WFMin
  <1>5. \A k \in S : ~(k < m)
    BY <1>3, <1>4 DEF OpToRel
  <1>6. PICK earlier : earlier = {k \in RollbacksOf(t, p) : k < m}
    OBVIOUS
  <1>7. i \in earlier /\ \A k \in earlier : k <= i
    <2>1. i < m /\ i \in Nat
      BY <1>2, <1>4
    <2>2. ASSUME NEW k \in earlier
          PROVE  k <= i
      <3>1. k \in RollbacksOf(t, p) /\ k < m /\ k \in Nat
        BY <1>2, <1>6
      <3>2. k \notin S
        BY <1>5, <3>1
      <3>3. ~(i < k)
        BY <3>1, <3>2
      <3>4. QED
        BY <2>1, <3>1, <3>3
    <2>3. QED
      BY <1>6, <2>1, <2>2
  <1>8. earlier \subseteq DOMAIN t.ops /\ earlier # {}
    BY <1>2, <1>6, <1>7
  <1>9. LatestOf(earlier) \in earlier /\ \A k \in earlier : k <= LatestOf(earlier)
    BY <1>8, LatestOperation
  <1>10. LatestOf(earlier) = i
    BY <1>2, <1>7, <1>8, <1>9
  <1>11. m \in RollbacksOf(t, p)
    BY <1>4
  <1>12. RollbackValid(t, m) /\ t.ops[m].p = p
    BY <1>11, RollbackParent DEF RollbacksOf
  <1>13. RollbackProvenNoEffect(t.ops[LatestOf(earlier)])
    BY <1>6, <1>8, <1>12 DEF RollbackValid
  <1>14. QED
    BY <1>10, <1>13

Happened(a, i) == Known(effects, <<a, i>>) /\ effects[<<a, i>>] = "applied"
NothingStands == \A p \in Providers : ~Standing(p)
PlanStands    == \A p \in Planned(journal[1]) : Standing(p)
EndedRestored  == Current # 0 /\ journal[Current].state = "restored"
EndedCommitted == Current # 0 /\ journal[Current].state = "committed"

\* A write stands when it happened and no rollback of it did.
LEMMA StandingMeans ==
    ASSUME NEW p
    PROVE  Standing(p) <=> /\ Current # 0
                           /\ \E i \in WritesOf(journal[Current], p) : Happened(Current, i)
                           /\ \A i \in RollbacksOf(journal[Current], p) : ~Happened(Current, i)
  BY DEF Standing, Happened

\* A write of the plan is one of a planned provider.
LEMMA OperationPlanned ==
    ASSUME BridgeInv, NEW a \in DOMAIN journal, NEW i \in DOMAIN journal[a].ops
    PROVE  Op(a, i).p \in Planned(journal[a])
  BY DEF BridgeInv, JournalInv, AttemptInv, AttemptValid, OperationsValid, Acquired, Op

\* Nothing of a restored attempt stands.
LEMMA RestoredStands == BridgeInv /\ EndedRestored => NothingStands
  <1> SUFFICES ASSUME BridgeInv, EndedRestored, NEW p \in Providers, Standing(p)
               PROVE  FALSE
    BY DEF NothingStands
  <1>1. PICK t : t = journal[Current]
    OBVIOUS
  <1>2. /\ t \in AnyAttempt /\ AttemptValid(t) /\ t.state = "restored" /\ Current # 0
        /\ Current \in DOMAIN journal
    BY <1>1, CurrentFacts DEF EndedRestored, AttemptInv
  <1>3. PICK i \in WritesOf(t, p) : Happened(Current, i)
    BY <1>1, StandingMeans
  <1>4. i \in DOMAIN t.ops /\ t.ops[i].p = p /\ Op(Current, i) = t.ops[i]
    BY <1>1, <1>3 DEF WritesOf, Op
  <1>5. p \in Planned(t)
    BY <1>1, <1>2, <1>4, OperationPlanned
  <1>6. WriteTakenBack(t, p, i)
    BY <1>2, <1>5, RestoredWrite
  <1>7. ~RollbackProvenNoEffect(Op(Current, i))
    BY <1>1, <1>2, <1>3, <1>4, NoEffectFacts DEF Happened
  <1>8. RollbacksOf(t, p) # {} /\ VerifiedOutcome(t.ops[LatestOf(RollbacksOf(t, p))], "applied")
    BY <1>4, <1>6, <1>7 DEF WriteTakenBack, RollbackProvenNoEffect
  <1>9. PICK j : j = LatestOf(RollbacksOf(t, p))
    OBVIOUS
  <1>10. RollbacksOf(t, p) \subseteq DOMAIN t.ops
    BY DEF RollbacksOf
  <1>11. j \in RollbacksOf(t, p) /\ j \in DOMAIN t.ops /\ VerifiedOutcome(Op(Current, j), "applied")
    BY <1>1, <1>2, <1>8, <1>9, <1>10, LatestOperation DEF Op
  <1>12. Happened(Current, j)
    BY <1>1, <1>2, <1>11, NoEffectFacts DEF Happened
  <1>13. QED
    BY <1>1, <1>11, <1>12, StandingMeans

\* Everything that a committed attempt planned stands.
LEMMA CommittedStands == BridgeInv /\ EndedCommitted => PlanStands
  <1> SUFFICES ASSUME BridgeInv, EndedCommitted, NEW p \in Planned(journal[1])
               PROVE  Standing(p)
    BY DEF PlanStands
  <1>1. PICK t : t = journal[Current]
    OBVIOUS
  <1>2. /\ t \in AnyAttempt /\ AttemptValid(t) /\ t.state = "committed" /\ Current # 0
        /\ Current \in DOMAIN journal /\ p \in Planned(t)
    BY <1>1, CurrentFacts DEF EndedCommitted, AttemptInv
  <1>3. CommittedValid(t)
    BY <1>2 DEF AttemptValid, StateValid
  <1>4. PICK i \in WritesOf(t, p) : VerifiedOutcome(t.ops[i], "applied")
    BY <1>2, <1>3 DEF CommittedValid
  <1>5. RollbacksOf(t, p) = {}
    BY <1>2, <1>3 DEF CommittedValid
  <1>6. i \in DOMAIN t.ops /\ Op(Current, i) = t.ops[i]
    BY <1>1, <1>4 DEF WritesOf, Op
  <1>7. Happened(Current, i)
    BY <1>1, <1>2, <1>4, <1>6, NoEffectFacts DEF Happened
  <1>8. QED
    BY <1>1, <1>2, <1>4, <1>5, <1>7, StandingMeans

\* The same of the state after a step.
LEMMA RestoredStandsAfter == (BridgeInv /\ EndedRestored)' => NothingStands'
  BY RestoredStands, PTL

\* The same of the state after a step.
LEMMA CommittedStandsAfter == (BridgeInv /\ EndedCommitted)' => PlanStands'
  BY CommittedStands, PTL

-----------------------------------------------------------------------------
(* A write that happens changes whether the plan's change stands. *)

\* An undecided write that was asked for is one of the current attempt, which has not ended.
LEMMA WrittenAttempt ==
    ASSUME BridgeInv, NEW a, NEW i, OperationAsked(a, i), ~Known(effects, <<a, i>>)
    PROVE  /\ a = Current /\ Current # 0 /\ Current \in DOMAIN journal
           /\ journal[Current].state \in {"open", "blocked"}
           /\ i \in DOMAIN journal[Current].ops /\ Op(a, i).p \in Planned(journal[1])
           /\ Op(a, i).p \in Providers /\ Op(a, i).kind \in {"write", "rollback"}
  <1>1. a \in DOMAIN journal /\ i \in DOMAIN journal[a].ops /\ Asked(Op(a, i))
    BY DEF OperationAsked
  <1>2. ~Terminal(a)
    BY <1>1, EndedOperations
  <1>3. a = Current
    BY <1>1, <1>2 DEF BridgeInv, JournalInv, Terminal
  <1>4. Current # 0
    BY <1>1, <1>3, JournalTypes DEF BridgeInv
  <1>5. journal[Current].state \in {"open", "blocked"}
    BY <1>1, <1>2, <1>3, JournalTypes, AttemptTypes DEF BridgeInv, Terminal, AttemptStates
  <1>6. Op(a, i).p \in Planned(journal[1]) /\ Planned(journal[a]) \subseteq Providers
    BY <1>1, OperationPlanned, JournalTypes, AttemptTypes DEF BridgeInv, JournalInv, AttemptInv
  <1>7. Op(a, i).kind \in {"write", "rollback"} /\ Op(a, i).p \in Providers
    BY <1>1, AskedTypes DEF BridgeInv, OperationAsked, OperationRecords
  <1>8. QED
    BY <1>1, <1>3, <1>4, <1>5, <1>6, <1>7

\* Before a write nothing of its provider happened in the attempt; before a rollback, only
\* the write did.
LEMMA BeforeTheWrite ==
    ASSUME BridgeInv, NEW i, OperationAsked(Current, i), ~Known(effects, <<Current, i>>),
           NEW t, t = journal[Current], NEW p, p = t.ops[i].p
    PROVE  /\ t.ops[i].kind = "write" =>
                  WritesOf(t, p) = {i} /\ RollbacksOf(t, p) = {} /\ ~Standing(p)
           /\ t.ops[i].kind = "rollback" =>
                  i \in RollbacksOf(t, p) /\ i \notin WritesOf(t, p) /\ Standing(p)
  <1>1. /\ Current # 0 /\ Current \in DOMAIN journal /\ i \in DOMAIN t.ops
        /\ t \in AnyAttempt /\ AttemptValid(t) /\ t.ops \in Seq(OperationRecords)
        /\ Op(Current, i) = t.ops[i] /\ ~Happened(Current, i) /\ Asked(t.ops[i])
    BY WrittenAttempt, CurrentFacts DEF AttemptInv, Happened, Op, OperationAsked
  <1>2. \A j \in DOMAIN t.ops : /\ RollbackProvenNoEffect(t.ops[j]) => ~Happened(Current, j)
                               /\ EligibleRollbackParent(t.ops[j]) => Happened(Current, j)
    BY <1>1, NoEffectFacts DEF Happened, Op
  <1>3. ASSUME t.ops[i].kind = "write"
        PROVE  WritesOf(t, p) = {i} /\ RollbacksOf(t, p) = {} /\ ~Standing(p)
    <2>1. i \in WritesOf(t, p)
      BY <1>1, <1>3 DEF WritesOf
    <2>2. WritesOf(t, p) = {i}
      BY <1>1, <2>1, OnlyWrite
    <2>3. ASSUME NEW j \in RollbacksOf(t, p)
          PROVE  FALSE
      BY <1>1, <1>2, <2>2, RollbackParent
    <2>4. ~Standing(p)
      BY <1>1, <2>2, StandingMeans
    <2>5. QED
      BY <2>2, <2>3, <2>4
  <1>4. ASSUME t.ops[i].kind = "rollback"
        PROVE  i \in RollbacksOf(t, p) /\ i \notin WritesOf(t, p) /\ Standing(p)
    <2>1. i \in RollbacksOf(t, p) /\ i \notin WritesOf(t, p)
      BY <1>1, <1>4 DEF RollbacksOf, WritesOf
    <2>2. PICK j \in WritesOf(t, p) : EligibleRollbackParent(t.ops[j])
      BY <1>1, <2>1, RollbackParent
    <2>3. Happened(Current, j)
      BY <1>2, <2>2 DEF WritesOf
    <2>4. ~RollbackProvenNoEffect(t.ops[i])
      <3>1. Told(Current, t) /\ OperationRecordValid(t.ops[i])
        BY <1>1, CurrentFacts DEF AttemptInv, AttemptValid, OperationsValid
      <3>2. t.ops[i].out = None
        BY <1>1, <3>1 DEF Told
      <3>3. QED
        BY <1>1, <3>2 DEF RollbackProvenNoEffect, ProvenUndispatched, VerifiedOutcome, Asked, None
    <2>5. \A g, h \in RollbacksOf(t, p) : g < h => RollbackProvenNoEffect(t.ops[g])
      BY <1>1, RollbackOrder
    <2>6. ASSUME NEW k \in RollbacksOf(t, p)
          PROVE  ~Happened(Current, k)
      <3>1. k \in DOMAIN t.ops /\ k \in Nat /\ i \in Nat
        BY <1>1 DEF RollbacksOf
      <3>2. CASE k < i
        <4>1. RollbackProvenNoEffect(t.ops[k])
          BY <2>1, <2>5, <3>2
        <4>2. Op(Current, k) = t.ops[k] /\ k \in DOMAIN journal[Current].ops
          BY <3>1 DEF Op
        <4>3. QED
          BY <1>1, <4>1, <4>2, NoEffectFacts DEF Happened
      <3>3. CASE i < k
        <4>1. RollbackProvenNoEffect(t.ops[i])
          BY <2>1, <2>5, <3>3
        <4>2. QED
          BY <2>4, <4>1
      <3>4. CASE i = k
        BY <1>1, <3>4
      <3>5. QED
        BY <3>1, <3>2, <3>3, <3>4
    <2>7. QED
      BY <1>1, <2>1, <2>2, <2>3, <2>6, StandingMeans
  <1>5. QED
    BY <1>3, <1>4

\* An applied outcome is entered; the journal rests.
LEMMA OutcomeEntered ==
    ASSUME BridgeInv, NEW x, NEW v \in Outcomes, ~Known(effects, x), effects' = With(effects, x, v)
    PROVE  /\ DOMAIN effects' = DOMAIN effects \cup {x} /\ effects'[x] = v /\ x \notin DOMAIN effects
           /\ \A y \in DOMAIN effects : effects'[y] = effects[y]
  BY DEF With, Known

\* What happened after an outcome is entered.
LEMMA HappenedAfter ==
    ASSUME BridgeInv, NEW a, NEW i, NEW v \in Outcomes, ~Known(effects, <<a, i>>),
           effects' = With(effects, <<a, i>>, v), NEW b, NEW j
    PROVE  Happened(b, j)' <=> Happened(b, j) \/ (v = "applied" /\ b = a /\ j = i)
  <1>1. PICK x, y : x = <<a, i>> /\ y = <<b, j>>
    OBVIOUS
  <1>2. /\ DOMAIN effects' = DOMAIN effects \cup {x} /\ effects'[x] = v /\ x \notin DOMAIN effects
        /\ \A z \in DOMAIN effects : effects'[z] = effects[z]
    BY <1>1, OutcomeEntered
  <1>3. (y = x) <=> (b = a /\ j = i)
    BY <1>1
  <1>4. Happened(b, j)' <=> y \in DOMAIN effects' /\ effects'[y] = "applied"
    BY <1>1 DEF Happened, Known
  <1>5. Happened(b, j) <=> y \in DOMAIN effects /\ effects[y] = "applied"
    BY <1>1 DEF Happened, Known
  <1>6. QED
    BY <1>2, <1>3, <1>4, <1>5

\* What stands after an outcome is entered.
LEMMA StandingAfter ==
    ASSUME journal' = journal, NEW p
    PROVE  Standing(p)' <=> /\ Current # 0
                            /\ \E i \in WritesOf(journal[Current], p) : Happened(Current, i)'
                            /\ \A i \in RollbacksOf(journal[Current], p) : ~Happened(Current, i)'
  <1>1. Current' = Current
    BY DEF Current
  <1>2. QED
    BY <1>1 DEF Standing, Happened

\* A write or rollback that happens: the plan's change of its provider, and of no other,
\* comes into force or is taken back.
LEMMA HostWriteTurns ==
    ASSUME BridgeInv, NEW a, NEW i, OperationAsked(a, i), HostWrite(a, i), NEW op, op = Op(a, i)
    PROVE  /\ Current # 0 /\ journal[Current].state \in {"open", "blocked"}
           /\ op.p \in Planned(journal[1]) /\ op.p \in Providers /\ journal' = journal
           /\ op.kind \in {"write", "rollback"}
           /\ op.kind = "write" => ~Standing(op.p)
           /\ op.kind = "rollback" => Standing(op.p)
           /\ Standing(op.p)' = ~Standing(op.p)
           /\ \A p : p # op.p => Standing(p)' = Standing(p)
  <1>1. ~Known(effects, <<a, i>>) /\ effects' = With(effects, <<a, i>>, "applied") /\ journal' = journal
    BY DEF HostWrite
  <1>2. /\ a = Current /\ Current # 0 /\ Current \in DOMAIN journal
        /\ journal[Current].state \in {"open", "blocked"}
        /\ i \in DOMAIN journal[Current].ops /\ op.p \in Planned(journal[1])
        /\ op.p \in Providers /\ op.kind \in {"write", "rollback"}
    BY <1>1, WrittenAttempt
  <1>3. PICK t : t = journal[Current]
    OBVIOUS
  <1>4. op = t.ops[i] /\ i \in DOMAIN t.ops
    BY <1>2, <1>3 DEF Op
  <1>5. /\ op.kind = "write" =>
               WritesOf(t, op.p) = {i} /\ RollbacksOf(t, op.p) = {} /\ ~Standing(op.p)
        /\ op.kind = "rollback" =>
               i \in RollbacksOf(t, op.p) /\ i \notin WritesOf(t, op.p) /\ Standing(op.p)
    BY <1>1, <1>2, <1>3, <1>4, BeforeTheWrite
  <1>6. \A j : Happened(Current, j)' <=> Happened(Current, j) \/ j = i
    <2>1. \A b, j : Happened(b, j)' <=> Happened(b, j) \/ ("applied" = "applied" /\ b = a /\ j = i)
      BY <1>1, HappenedAfter DEF Outcomes
    <2>2. Current' = Current
      BY <1>1 DEF Current
    <2>3. QED
      BY <1>2, <2>1, <2>2
  <1>7. \A p : Standing(p)' <=> /\ \E j \in WritesOf(t, p) : Happened(Current, j)'
                                /\ \A j \in RollbacksOf(t, p) : ~Happened(Current, j)'
    BY <1>1, <1>2, <1>3, StandingAfter
  <1>8. \A p : Standing(p) <=> /\ \E j \in WritesOf(t, p) : Happened(Current, j)
                               /\ \A j \in RollbacksOf(t, p) : ~Happened(Current, j)
    BY <1>2, <1>3, StandingMeans
  <1>9. \A p : Standing(p)' \in BOOLEAN /\ Standing(p) \in BOOLEAN
    BY DEF Standing
  <1>10. Standing(op.p)' <=> ~Standing(op.p)
    BY <1>2, <1>5, <1>6, <1>7
  <1>11. ASSUME NEW p, p # op.p
         PROVE  Standing(p)' <=> Standing(p)
    <2>1. i \notin WritesOf(t, p) /\ i \notin RollbacksOf(t, p)
      BY <1>4, <1>11 DEF WritesOf, RollbacksOf
    <2>2. QED
      BY <1>6, <1>7, <1>8, <2>1
  <1>12. QED
    BY <1>1, <1>2, <1>5, <1>9, <1>10, <1>11

\* What was done to a document after an outcome is entered.
LEMMA DidAfter ==
    ASSUME BridgeInv, NEW a, NEW i, NEW v \in Outcomes, ~Known(effects, <<a, i>>),
           effects' = With(effects, <<a, i>>, v), journal' = journal, NEW p, NEW kind
    PROVE  Did(p, kind)' = IF v = "applied" /\ Op(a, i).p = p /\ Op(a, i).kind = kind
                           THEN Did(p, kind) \cup {<<a, i>>} ELSE Did(p, kind)
  <1>1. PICK x : x = <<a, i>>
    OBVIOUS
  <1>2. /\ DOMAIN effects' = DOMAIN effects \cup {x} /\ effects'[x] = v /\ x \notin DOMAIN effects
        /\ \A z \in DOMAIN effects : effects'[z] = effects[z]
    BY <1>1, OutcomeEntered
  <1>3. x[1] = a /\ x[2] = i
    BY <1>1
  <1>4. \A z : Op(z[1], z[2])' = Op(z[1], z[2])
    BY DEF Op
  <1>5. Did(p, kind)' = {z \in DOMAIN effects \cup {x} : /\ effects'[z] = "applied"
                             /\ Op(z[1], z[2]).p = p /\ Op(z[1], z[2]).kind = kind}
    BY <1>2, <1>4 DEF Did
  <1>6. \A z : z \in Did(p, kind)' <=>
            \/ z \in Did(p, kind)
            \/ z = x /\ v = "applied" /\ Op(a, i).p = p /\ Op(a, i).kind = kind
    BY <1>2, <1>3, <1>5 DEF Did
  <1>7. QED
    BY <1>1, <1>6

\* Every step keeps the balance of writes and rollbacks.
LEMMA BalanceStep == BridgeInv /\ BalanceInv /\ [Next]_vars => BalanceInv'
  <1> SUFFICES ASSUME BridgeInv, BalanceInv, [Next]_vars, NEW p \in Providers
               PROVE  Cardinality(Did(p, "write")') =
                      Cardinality(Did(p, "rollback")') + IF Standing(p)' THEN 1 ELSE 0
    BY DEF BalanceInv
  <1>1. Cardinality(Did(p, "write")) = Cardinality(Did(p, "rollback")) + IF Standing(p) THEN 1 ELSE 0
    BY DEF BalanceInv
  <1>2. /\ IsFiniteSet(Did(p, "write")) /\ Cardinality(Did(p, "write")) \in Nat
        /\ IsFiniteSet(Did(p, "rollback")) /\ Cardinality(Did(p, "rollback")) \in Nat
    BY DidFinite
  <1>3. ASSUME Did(p, "write")' = Did(p, "write"), Did(p, "rollback")' = Did(p, "rollback"),
               Standing(p)' = Standing(p)
        PROVE  Cardinality(Did(p, "write")') =
                      Cardinality(Did(p, "rollback")') + IF Standing(p)' THEN 1 ELSE 0
    BY <1>1, <1>3
  <1>4. ASSUME Kept
        PROVE  Cardinality(Did(p, "write")') =
                      Cardinality(Did(p, "rollback")') + IF Standing(p)' THEN 1 ELSE 0
    <2>1. JournalGrows /\ effects' = effects /\ DOMAIN journal' = DOMAIN journal
      BY <1>4 DEF Kept, hostVars
    <2>2. Current' = Current
      <3>1. JournalInv /\ JournalInv'
        BY <1>4 DEF Kept, BridgeInv
      <3>2. Current \in Nat /\ DOMAIN journal = 1 .. Current /\ Len(journal') \in Nat
            /\ DOMAIN journal' = 1 .. Len(journal')
        BY <3>1 DEF JournalInv, Current
      <3>3. QED
        BY <2>1, <3>2 DEF Current
    <2>3. QED
      BY <1>3, <2>1, <2>2, DidKept, StandingKept
  <1>5. CASE Recording
    BY <1>4, <1>5, RecordingKept
  <1>6. CASE \E state \in {"committed", "restored"} : FinishAttempt(state)
    BY <1>4, <1>6, FinishAttemptSteps
  <1>7. CASE Elsewhere
    <2>1. \A x, y : Op(x, y)' = Op(x, y)
      BY <1>7 DEF Op, Elsewhere
    <2>2. Did(p, "write")' = Did(p, "write") /\ Did(p, "rollback")' = Did(p, "rollback")
      BY <1>7, <2>1 DEF Did, Elsewhere
    <2>3. Standing(p)' = Standing(p)
      BY <1>7 DEF Standing, Known, Current, Elsewhere
    <2>4. QED
      BY <1>3, <2>2, <2>3
  <1>8. ASSUME NEW plan \in SUBSET Providers, BeginAttempt(plan)
        PROVE  Cardinality(Did(p, "write")') =
                      Cardinality(Did(p, "rollback")') + IF Standing(p)' THEN 1 ELSE 0
    <2>1. /\ JournalGrows /\ Current' = Current + 1 /\ effects' = effects
          /\ journal'[Current + 1].ops = <<>>
      BY <1>8, BeginAttemptSteps DEF hostVars
    <2>2. ~Standing(p)'
      <3>1. PICK u : u = journal'[Current + 1]
        OBVIOUS
      <3>2. WritesOf(u, p) = {}
        BY <2>1, <3>1 DEF WritesOf
      <3>3. QED
        BY <2>1, <3>1, <3>2 DEF Standing
    <2>3. ~Standing(p)
      <3>1. Current = 0 \/ EndedRestored
        BY <1>8, JournalTypes DEF BeginAttempt, EndedRestored, BridgeInv
      <3>2. QED
        BY <3>1, RestoredStands DEF NothingStands, Standing
    <2>4. QED
      BY <1>1, <2>1, <2>2, <2>3, DidKept
  <1>9. ASSUME NEW i \in CurrentOperations, HostRulesOutWrite(Current, i)
        PROVE  Cardinality(Did(p, "write")') =
                      Cardinality(Did(p, "rollback")') + IF Standing(p)' THEN 1 ELSE 0
    <2>1. /\ ~Known(effects, <<Current, i>>) /\ journal' = journal
          /\ effects' = With(effects, <<Current, i>>, "no_effect")
      BY <1>9 DEF HostRulesOutWrite
    <2>2. "no_effect" \in Outcomes /\ "no_effect" # "applied"
      BY DEF Outcomes
    <2>3. Did(p, "write")' = Did(p, "write") /\ Did(p, "rollback")' = Did(p, "rollback")
      BY <2>1, <2>2, DidAfter
    <2>4. \A j : Happened(Current, j)' <=> Happened(Current, j)
      <3>1. PICK a : a = Current
        OBVIOUS
      <3>2. \A j : Happened(a, j)' <=> Happened(a, j)
        BY <2>1, <2>2, <3>1, HappenedAfter
      <3>3. Current' = Current
        BY <2>1 DEF Current
      <3>4. QED
        BY <3>1, <3>2, <3>3
    <2>5. Standing(p)' <=> Standing(p)
      BY <2>1, <2>4, StandingAfter, StandingMeans
    <2>6. Standing(p)' \in BOOLEAN /\ Standing(p) \in BOOLEAN
      BY DEF Standing
    <2>7. QED
      BY <1>3, <2>3, <2>5, <2>6
  <1>10. ASSUME NEW q \in wire, q.do = "object", HostWrite(q.a, q.i)
         PROVE  Cardinality(Did(p, "write")') =
                      Cardinality(Did(p, "rollback")') + IF Standing(p)' THEN 1 ELSE 0
    <2>1. PICK op : op = Op(q.a, q.i)
      OBVIOUS
    <2>2. PICK x : x = <<q.a, q.i>>
      OBVIOUS
    <2>3. /\ OperationAsked(q.a, q.i) /\ ~Known(effects, x) /\ journal' = journal
          /\ effects' = With(effects, <<q.a, q.i>>, "applied")
      BY <1>10, <2>2 DEF BridgeInv, WireInv, HostWrite
    <2>4. /\ op.kind \in {"write", "rollback"}
          /\ op.kind = "write" => ~Standing(op.p)
          /\ op.kind = "rollback" => Standing(op.p)
          /\ Standing(op.p)' = ~Standing(op.p)
          /\ \A r : r # op.p => Standing(r)' = Standing(r)
      BY <1>10, <2>1, <2>3, HostWriteTurns
    <2>5. \A kind : Did(p, kind)' = IF op.p = p /\ op.kind = kind
                                    THEN Did(p, kind) \cup {x} ELSE Did(p, kind)
      BY <2>1, <2>2, <2>3, DidAfter DEF Outcomes
    <2>6. x \notin Did(p, "write") /\ x \notin Did(p, "rollback")
      BY <2>3 DEF Did, Known
    <2>7. /\ Cardinality(Did(p, "write") \cup {x}) = Cardinality(Did(p, "write")) + 1
          /\ Cardinality(Did(p, "rollback") \cup {x}) = Cardinality(Did(p, "rollback")) + 1
      BY <1>2, <2>6, FS_AddElement
    <2>8. CASE op.p # p
      BY <1>3, <2>4, <2>5, <2>8
    <2>9. CASE op.p = p /\ op.kind = "write"
      <3>1. Did(p, "write")' = Did(p, "write") \cup {x} /\ Did(p, "rollback")' = Did(p, "rollback")
        BY <2>5, <2>9
      <3>2. ~Standing(p) /\ Standing(p)'
        BY <2>4, <2>9
      <3>3. QED
        BY <1>1, <1>2, <2>7, <3>1, <3>2
    <2>10. CASE op.p = p /\ op.kind = "rollback"
      <3>1. Did(p, "rollback")' = Did(p, "rollback") \cup {x} /\ Did(p, "write")' = Did(p, "write")
        BY <2>5, <2>10
      <3>2. Standing(p) /\ ~Standing(p)'
        BY <2>4, <2>10
      <3>3. Cardinality(Did(p, "write")) = Cardinality(Did(p, "rollback")) + 1
        BY <1>1, <3>2
      <3>4. Cardinality(Did(p, "write")') = Cardinality(Did(p, "rollback")')
        BY <2>7, <3>1, <3>3
      <3>5. Cardinality(Did(p, "write")') \in Nat
        BY <1>2, <3>1
      <3>6. QED
        BY <3>2, <3>4, <3>5
    <2>11. QED
      BY <2>4, <2>8, <2>9, <2>10
  <1>11. QED
    BY <1>5, <1>6, <1>7, <1>8, <1>9, <1>10, StepKinds

-----------------------------------------------------------------------------
(* The transaction keeps the promise of AllOrNothing. *)

Unended(t) == t.state \in {"open", "blocked"}

\* What a record that is still to be settled says of its attempt.
LEMMA UnsettledFence ==
    ASSUME BridgeInv, NEW r \in CurrentAcquisitions, r.st \in {"recorded", "armed"}
    PROVE  Unended(journal[Current])
  <1>1. Current # 0 /\ r \in journal[Current].acqs
    BY DEF CurrentAcquisitions
  <1>2. journal[Current] \in AnyAttempt /\ AttemptValid(journal[Current])
        /\ journal[Current].state \in AttemptStates
    BY <1>1, CurrentFacts, AttemptTypes DEF AttemptInv
  <1>3. ~(journal[Current].state \in {"committed", "restored"})
    BY <1>1, <1>2, EndedFences DEF AcquisitionUndispatched
  <1>4. QED
    BY <1>2, <1>3 DEF Unended, AttemptStates

\* An attempt with an undecided release has not ended.
LEMMA UnsettledRelease ==
    ASSUME BridgeInv, NEW r \in CurrentReleases, r.st \in {"recorded", "armed"}
    PROVE  Unended(journal[Current])
  <1>1. Current # 0 /\ r \in journal[Current].rels
    BY DEF CurrentReleases
  <1>2. journal[Current] \in AnyAttempt /\ AttemptValid(journal[Current])
        /\ journal[Current].state \in AttemptStates
    BY <1>1, CurrentFacts, AttemptTypes DEF AttemptInv
  <1>3. PICK s \in journal[Current].acqs : s.p = r.p /\ s.e = r.e
    BY <1>1, <1>2 DEF AttemptValid, ReleasesValid, Acquired
  <1>4. r \in ReleasesOf(journal[Current], s.p, s.e)
    BY <1>1, <1>3 DEF ReleasesOf
  <1>5. ~(journal[Current].state \in {"committed", "restored"})
    BY <1>2, <1>4, EndedFences
  <1>6. QED
    BY <1>2, <1>5 DEF Unended, AttemptStates

\* An attempt with an undecided operation has not ended.
LEMMA UnsettledOperation ==
    ASSUME BridgeInv, NEW i \in CurrentOperations, Op(Current, i).st \in {"recorded", "armed"}
    PROVE  Unended(journal[Current])
  <1>1. Current # 0 /\ i \in DOMAIN journal[Current].ops
    BY DEF CurrentOperations
  <1>2. Current \in DOMAIN journal /\ journal[Current].state \in AttemptStates
    BY <1>1, CurrentFacts, AttemptTypes
  <1>3. ~Terminal(Current)
    BY <1>1, <1>2, EndedOperations DEF EffectResolved
  <1>4. QED
    BY <1>2, <1>3 DEF Unended, AttemptStates, Terminal

\* The state of what is stored.
LEMMA StoredState ==
    ASSUME BridgeInv, Current # 0, NEW u, Store(u)
    PROVE  journal'[Current] = u
  BY CurrentFacts DEF Store

\* An attempt that is recorded into has not ended, before or after.
LEMMA RecordingStaysOpen ==
    ASSUME BridgeInv, Recording
    PROVE  Current # 0 /\ Unended(journal[Current]) /\ Unended(journal'[Current])
  <1>0. PICK t : t = journal[Current]
    OBVIOUS
  <1>1. Current # 0
    <2>1. Current \in Nat
      BY JournalTypes DEF BridgeInv
    <2>2. Current = 0 => CurrentAcquisitions = {} /\ CurrentReleases = {} /\ CurrentOperations = {}
      BY DEF CurrentAcquisitions, CurrentReleases, CurrentOperations
    <2>3. \A p : PrepareAcquisition(p) => Current > 0
      BY DEF PrepareAcquisition
    <2>4. QED
      BY <2>1, <2>2, <2>3 DEF Recording
  <1>2. /\ t \in AnyAttempt /\ t \in Attempts(Planned(t)) /\ Current \in DOMAIN journal
        /\ t.state \in AttemptStates /\ AttemptInv(Current)
    BY <1>0, <1>1, CurrentFacts, AttemptTypes
  <1>3. \A acqs : [t EXCEPT !.acqs = acqs].state = t.state
    BY <1>2 DEF Attempts
  <1>4. \A acqs, state : [t EXCEPT !.state = state, !.acqs = acqs].state = state
    BY <1>2 DEF Attempts
  <1>5. \A rels : [t EXCEPT !.rels = rels].state = t.state
    BY <1>2 DEF Attempts
  <1>6. \A rels, phase : [t EXCEPT !.rels = rels, !.phase = phase].state = t.state
    BY <1>2 DEF Attempts
  <1>7. \A ops : [t EXCEPT !.ops = ops].state = t.state
    BY <1>2 DEF Attempts
  <1>8. \A i, new, state : WithOperation(t, state, i, new).state = state
    BY <1>2 DEF Attempts, WithOperation
  <1>9. ASSUME NEW u, Store(u), Unended(t), u.state \in {t.state, "blocked"}
        PROVE  Current # 0 /\ Unended(journal[Current]) /\ Unended(journal'[Current])
    BY <1>0, <1>1, <1>9, StoredState DEF Unended
  <1>10. ASSUME NEW p \in Providers, PrepareAcquisition(p)
         PROVE  Current # 0 /\ Unended(journal[Current]) /\ Unended(journal'[Current])
    <2>1. PICK acqs : Store([t EXCEPT !.acqs = acqs])
      BY <1>0, <1>10 DEF PrepareAcquisition
    <2>2. Unended(t)
      BY <1>0, <1>10 DEF PrepareAcquisition, Unended
    <2>3. QED
      BY <1>3, <1>9, <2>1, <2>2
  <1>11. ASSUME NEW r \in CurrentAcquisitions,
                ReconcileAcquisition(r) \/ AcknowledgeAcquisition(r) \/ AbortAcquisition(r)
         PROVE  Current # 0 /\ Unended(journal[Current]) /\ Unended(journal'[Current])
    <2>1. r.st \in {"recorded", "armed"}
      BY <1>11 DEF ReconcileAcquisition, AcknowledgeAcquisition, AbortAcquisition
    <2>2. Unended(t)
      BY <1>0, <2>1, UnsettledFence
    <2>3. \E st : SetAcquisition(r, st, "blocked") \/ SetAcquisition(r, st, t.state)
      BY <1>0, <1>11 DEF ReconcileAcquisition, AcknowledgeAcquisition, AbortAcquisition
    <2>4. PICK acqs, state : state \in {t.state, "blocked"} /\ Store([t EXCEPT !.state = state, !.acqs = acqs])
      BY <1>0, <2>3 DEF SetAcquisition
    <2>5. QED
      BY <1>4, <1>9, <2>2, <2>4
  <1>12. ASSUME NEW r \in CurrentAcquisitions, PrepareRelease(r.p, r.e)
         PROVE  Current # 0 /\ Unended(journal[Current]) /\ Unended(journal'[Current])
    <2>1. PICK rels, phase : Store([t EXCEPT !.rels = rels, !.phase = phase])
      BY <1>0, <1>12 DEF PrepareRelease
    <2>2. Unended(t)
      BY <1>0, <1>12 DEF PrepareRelease, Unended
    <2>3. QED
      BY <1>6, <1>9, <2>1, <2>2
  <1>13. ASSUME NEW r \in CurrentReleases, ReconcileRelease(r) \/ AcknowledgeRelease(r)
         PROVE  Current # 0 /\ Unended(journal[Current]) /\ Unended(journal'[Current])
    <2>1. r.st \in {"recorded", "armed"} /\ \E st : SetRelease(r, st)
      BY <1>13 DEF ReconcileRelease, AcknowledgeRelease
    <2>2. Unended(t)
      BY <1>0, <2>1, UnsettledRelease
    <2>3. PICK rels : Store([t EXCEPT !.rels = rels])
      BY <1>0, <2>1 DEF SetRelease
    <2>4. QED
      BY <1>5, <1>9, <2>2, <2>3
  <1>14. ASSUME NEW p \in Providers, NEW kind \in {"write", "rollback"}, PrepareOperation(p, kind)
         PROVE  Current # 0 /\ Unended(journal[Current]) /\ Unended(journal'[Current])
    <2>1. PICK ops : Store([t EXCEPT !.ops = ops])
      BY <1>0, <1>14 DEF PrepareOperation
    <2>2. Unended(t)
      BY <1>0, <1>14 DEF PrepareOperation, Unended
    <2>3. QED
      BY <1>7, <1>9, <2>1, <2>2
  <1>15. ASSUME NEW i \in CurrentOperations,
                ReconcileRecorded(i) \/ Acknowledge(i) \/ VerifyReceipt(i) \/ AbortOperation(i)
         PROVE  Current # 0 /\ Unended(journal[Current]) /\ Unended(journal'[Current])
    <2>1. CASE BlockOp(i)
      <3>1. PICK new : Store(WithOperation(t, "blocked", i, new))
        BY <1>0, <2>1 DEF BlockOp, WithOperation
      <3>2. Unended(t)
        BY <1>0, <2>1 DEF BlockOp, Unended
      <3>3. QED
        BY <1>8, <1>9, <3>1, <3>2
    <2>2. CASE Unended(t) /\ \E new : StoreOp(i, new)
      <3>1. PICK new : Store(WithOperation(t, t.state, i, new))
        BY <1>0, <1>2, <2>2, StoreOpStores
      <3>2. QED
        BY <1>8, <1>9, <2>2, <3>1
    <2>3. CASE ReconcileRecorded(i)
      <3>1. Unended(t)
        BY <1>0, <2>3, UnsettledOperation DEF ReconcileRecorded, Op
      <3>2. QED
        BY <2>1, <2>2, <2>3, <3>1 DEF ReconcileRecorded
    <2>4. CASE Acknowledge(i)
      <3>1. Unended(t)
        BY <1>0, <2>4, UnsettledOperation DEF Acknowledge
      <3>2. QED
        BY <2>2, <2>4, <3>1 DEF Acknowledge
    <2>5. CASE VerifyReceipt(i)
      <3>1. Unended(t)
        BY <1>0, <2>5 DEF VerifyReceipt, Unended
      <3>2. QED
        BY <2>1, <2>2, <2>5, <3>1 DEF VerifyReceipt
    <2>6. QED
      BY <1>15, <2>1, <2>3, <2>4, <2>5 DEF AbortOperation
  <1>16. QED
    BY <1>10, <1>11, <1>12, <1>13, <1>14, <1>15 DEF Recording

\* What the abstract specification sees of a state.
ThePlan   == IF Current = 0 THEN {} ELSE Planned(journal[1])
TheEffect == [p \in Providers |-> InForce(p)]

\* InForceIsStanding of the state after a step.
LEMMA InForceAfter == (BridgeInv /\ BalanceInv)' => (\A p \in Providers : InForce(p) = Standing(p))'
  <1>1. BridgeInv /\ BalanceInv => \A p \in Providers : InForce(p) = Standing(p)
    BY InForceIsStanding
  <1>2. QED
    BY <1>1, PTL

\* The abstract effects change as the current attempt's do.
LEMMA EffectsSeen ==
    ASSUME BridgeInv, BalanceInv, BridgeInv', BalanceInv'
    PROVE  /\ TheEffect = [p \in Providers |-> Standing(p)]
           /\ TheEffect' = [p \in Providers |-> Standing(p)']
  BY InForceIsStanding, InForceAfter DEF TheEffect

\* Initially nothing is promised and nothing is in force.
LEMMA InitialAbstract == Init => Abstract!Init
  <1> SUFFICES ASSUME Init
               PROVE  Abstract!Init
    OBVIOUS
  <1>1. Current = 0 /\ DOMAIN effects = {}
    BY DEF Init, Current
  <1>2. ASSUME NEW p \in Providers
        PROVE  InForce(p) = FALSE
    <2>1. InForce(p) <=> Cardinality({}) > Cardinality({})
      BY <1>1 DEF InForce
    <2>2. Cardinality({}) = 0
      BY FS_EmptySet
    <2>3. InForce(p) \in BOOLEAN
      BY DEF InForce
    <2>4. QED
      BY <2>1, <2>2, <2>3
  <1>3. QED
    BY <1>1, <1>2 DEF Abstract!Init, Outcome

\* Steps that the abstract specification does not see.
LEMMA UnseenStep ==
    ASSUME Outcome' = Outcome, ThePlan' = ThePlan, TheEffect' = TheEffect
    PROVE  UNCHANGED Abstract!vars
  BY DEF Abstract!vars, ThePlan, TheEffect

\* The plan is that of the first attempt, for good.
LEMMA PlanKept ==
    ASSUME BridgeInv, Current # 0, Current' = Current, JournalGrows
    PROVE  ThePlan' = ThePlan
  <1>1. 1 \in DOMAIN journal
    BY JournalTypes DEF BridgeInv
  <1>2. journal'[1].want = journal[1].want
    BY <1>1 DEF JournalGrows
  <1>3. QED
    BY <1>2 DEF ThePlan, Planned

\* No attempt begins while the journal keeps its length.
LEMMA CurrentKept ==
    ASSUME BridgeInv, BridgeInv', DOMAIN journal' = DOMAIN journal
    PROVE  Current' = Current
  <1>1. Len(journal) \in Nat /\ DOMAIN journal = 1 .. Len(journal)
        /\ Len(journal') \in Nat /\ DOMAIN journal' = 1 .. Len(journal')
    BY DEF BridgeInv, JournalInv
  <1>2. QED
    BY <1>1 DEF Current

\* Every step is a step of AllOrNothing, or none.
LEMMA AbstractStep ==
    BridgeInv /\ BalanceInv /\ BridgeInv' /\ BalanceInv' /\ [Next]_vars =>
        [Abstract!Next]_(Abstract!vars)
  <1> SUFFICES ASSUME BridgeInv, BalanceInv, BridgeInv', BalanceInv', [Next]_vars
               PROVE  Abstract!Next \/ UNCHANGED Abstract!vars
    OBVIOUS
  <1>1. /\ TheEffect = [p \in Providers |-> Standing(p)]
        /\ TheEffect' = [p \in Providers |-> Standing(p)']
    BY EffectsSeen
  <1>2. ASSUME Kept, Current # 0
        PROVE  ThePlan' = ThePlan /\ TheEffect' = TheEffect /\ Current' = Current
    <2>1. JournalGrows /\ DOMAIN journal' = DOMAIN journal /\ effects' = effects
      BY <1>2 DEF Kept, hostVars
    <2>2. Current' = Current
      BY <2>1, CurrentKept
    <2>3. \A p \in Providers : Standing(p)' = Standing(p)
      BY <2>1, <2>2, StandingKept
    <2>4. QED
      BY <1>1, <1>2, <2>1, <2>2, <2>3, PlanKept
  <1>3. CASE Recording
    <2>1. Current # 0 /\ Unended(journal[Current]) /\ Unended(journal'[Current]) /\ Kept
      BY <1>3, RecordingStaysOpen, RecordingKept
    <2>2. ThePlan' = ThePlan /\ TheEffect' = TheEffect /\ Current' = Current
      BY <1>2, <2>1
    <2>3. Outcome' = Outcome
      BY <2>1, <2>2 DEF Outcome, Unended
    <2>4. QED
      BY <2>2, <2>3, UnseenStep
  <1>4. ASSUME NEW state \in {"committed", "restored"}, FinishAttempt(state)
        PROVE  Abstract!Next
    <2>1. Current # 0 /\ journal[Current].state \in {"open", "blocked"} /\ Kept
      BY <1>4, FinishAttemptSteps DEF FinishAttempt
    <2>2. ThePlan' = ThePlan /\ TheEffect' = TheEffect /\ Current' = Current
      BY <1>2, <2>1
    <2>3. journal'[Current].state = state
      <3>1. PICK t : t = journal[Current]
        OBVIOUS
      <3>2. t \in Attempts(Planned(t))
        BY <2>1, <3>1, CurrentFacts
      <3>3. [t EXCEPT !.state = state].state = state
        BY <3>2 DEF Attempts
      <3>4. Store([t EXCEPT !.state = state])
        BY <1>4, <3>1 DEF FinishAttempt
      <3>5. QED
        BY <2>1, <3>3, <3>4, StoredState
    <2>4. Outcome = "open" /\ Outcome' = state
      BY <2>1, <2>2, <2>3 DEF Outcome
    <2>5. CASE state = "committed"
      <3>1. EndedCommitted'
        BY <2>1, <2>2, <2>3, <2>5 DEF EndedCommitted
      <3>2. PlanStands'
        BY <3>1, CommittedStandsAfter
      <3>3. \A p \in ThePlan' : Standing(p)'
        BY <2>1, <2>2, <3>2 DEF PlanStands, ThePlan
      <3>4. ThePlan \subseteq Providers
        BY <2>1, JournalTypes, AttemptTypes DEF BridgeInv, ThePlan
      <3>5. \A p \in ThePlan : TheEffect[p]
        BY <1>1, <2>2, <3>3, <3>4
      <3>6. Abstract!Commit
        BY <2>2, <2>4, <2>5, <3>5 DEF Abstract!Commit, ThePlan, TheEffect
      <3>7. QED
        BY <3>6 DEF Abstract!Next
    <2>6. CASE state = "restored"
      <3>1. EndedRestored'
        BY <2>1, <2>2, <2>3, <2>6 DEF EndedRestored
      <3>2. \A p \in Providers : ~Standing(p)'
        BY <3>1, RestoredStandsAfter DEF NothingStands
      <3>4. ThePlan \subseteq Providers
        BY <2>1, JournalTypes, AttemptTypes DEF BridgeInv, ThePlan
      <3>5. \A p \in ThePlan : ~TheEffect[p]
        BY <1>1, <2>2, <3>2, <3>4
      <3>6. Abstract!Restore
        BY <2>2, <2>4, <2>6, <3>5 DEF Abstract!Restore, ThePlan, TheEffect
      <3>7. QED
        BY <3>6 DEF Abstract!Next
    <2>7. QED
      BY <2>5, <2>6
  <1>5. CASE Elsewhere
    <2>1. \A p : Standing(p)' = Standing(p)
      BY <1>5 DEF Standing, Known, Current, Elsewhere
    <2>2. TheEffect' = TheEffect
      BY <1>1, <2>1
    <2>3. QED
      BY <1>5, <2>2, UnseenStep DEF Outcome, ThePlan, Current, Elsewhere
  <1>6. ASSUME NEW plan \in SUBSET Providers, BeginAttempt(plan)
        PROVE  Abstract!Next
    <2>1. /\ JournalGrows /\ Current' = Current + 1 /\ Planned(journal'[1]) = plan /\ Current \in Nat
          /\ journal'[Current + 1].ops = <<>>
      BY <1>6, BeginAttemptSteps, JournalTypes DEF BridgeInv
    <2>2. Current = 0 \/ EndedRestored
      BY <1>6, <2>1 DEF BeginAttempt, EndedRestored
    <2>3. \A p \in Providers : ~Standing(p) /\ ~Standing(p)'
      <3>1. PICK u : u = journal'[Current + 1]
        OBVIOUS
      <3>2. \A p : WritesOf(u, p) = {}
        BY <2>1, <3>1 DEF WritesOf
      <3>3. \A p : ~Standing(p)'
        BY <2>1, <3>1, <3>2 DEF Standing
      <3>4. \A p \in Providers : ~Standing(p)
        BY <2>2, RestoredStands DEF NothingStands, Standing
      <3>5. QED
        BY <3>3, <3>4
    <2>4. TheEffect' = TheEffect
      <3>1. \A p \in Providers : Standing(p) \in BOOLEAN /\ Standing(p)' \in BOOLEAN
        BY DEF Standing
      <3>2. \A p \in Providers : Standing(p)' = Standing(p)
        BY <2>3, <3>1
      <3>3. QED
        BY <1>1, <3>2
    <2>5. Outcome = (IF Current = 0 THEN "idle" ELSE "restored")
      BY <2>2 DEF Outcome, EndedRestored
    <2>6. Outcome' = "open"
      <3>1. journal'[Current + 1].state = "open"
        <4>1. PICK want : journal' = Append(journal, NewAttempt(want))
          BY <1>6 DEF BeginAttempt
        <4>2. journal'[Current + 1] = NewAttempt(want)
          BY <4>1 DEF BridgeInv, JournalInv, Current
        <4>3. QED
          BY <4>2 DEF NewAttempt
      <3>2. QED
        BY <2>1, <3>1 DEF Outcome
    <2>7. ThePlan' = plan
      BY <2>1 DEF ThePlan
    <2>8. Current # 0 => ThePlan = plan
      <3>1. Current # 0 => 1 \in DOMAIN journal
        BY JournalTypes DEF BridgeInv
      <3>2. Current # 0 => journal'[1].want = journal[1].want
        BY <2>1, <3>1 DEF JournalGrows
      <3>3. QED
        BY <2>1, <3>2 DEF ThePlan, Planned
    <2>9. plan # {}
      BY <1>6 DEF BeginAttempt
    <2>10. Abstract!Begin
      BY <2>4, <2>5, <2>6, <2>7, <2>8, <2>9 DEF Abstract!Begin, ThePlan, TheEffect
    <2>11. QED
      BY <2>10 DEF Abstract!Next
  <1>7. ASSUME NEW i \in CurrentOperations, HostRulesOutWrite(Current, i)
        PROVE  UNCHANGED Abstract!vars
    <2>1. /\ ~Known(effects, <<Current, i>>) /\ journal' = journal
          /\ effects' = With(effects, <<Current, i>>, "no_effect")
      BY <1>7 DEF HostRulesOutWrite
    <2>2. "no_effect" \in Outcomes /\ "no_effect" # "applied"
      BY DEF Outcomes
    <2>3. \A p, kind : Did(p, kind)' = Did(p, kind)
      BY <2>1, <2>2, DidAfter
    <2>4. \A p : InForce(p) <=> Cardinality(Did(p, "write")) > Cardinality(Did(p, "rollback"))
      BY DEF InForce, Did
    <2>5. \A p : InForce(p)' <=> Cardinality(Did(p, "write")') > Cardinality(Did(p, "rollback")')
      BY DEF InForce, Did
    <2>6. \A p : InForce(p)' = InForce(p)
      <3>1. \A p : InForce(p) \in BOOLEAN /\ InForce(p)' \in BOOLEAN
        BY DEF InForce
      <3>2. QED
        BY <2>3, <2>4, <2>5, <3>1
    <2>7. TheEffect' = TheEffect
      BY <2>6 DEF TheEffect
    <2>8. QED
      BY <2>1, <2>7, UnseenStep DEF Outcome, ThePlan, Current
  <1>8. ASSUME NEW q \in wire, q.do = "object", HostWrite(q.a, q.i)
        PROVE  Abstract!Next
    <2>1. PICK op : op = Op(q.a, q.i)
      OBVIOUS
    <2>2. OperationAsked(q.a, q.i)
      BY <1>8 DEF BridgeInv, WireInv
    <2>3. /\ Current # 0 /\ journal[Current].state \in {"open", "blocked"}
          /\ op.p \in Planned(journal[1]) /\ op.p \in Providers /\ journal' = journal
          /\ Standing(op.p)' = ~Standing(op.p)
          /\ \A r : r # op.p => Standing(r)' = Standing(r)
      BY <1>8, <2>1, <2>2, HostWriteTurns
    <2>4. Current' = Current
      BY <2>3 DEF Current
    <2>5. Outcome = "open" /\ Outcome' = "open" /\ ThePlan' = ThePlan /\ op.p \in ThePlan
      BY <2>3, <2>4 DEF Outcome, ThePlan
    <2>6. TheEffect' = [TheEffect EXCEPT ![op.p] = ~TheEffect[op.p]]
      BY <1>1, <2>3
    <2>7. Abstract!Change(op.p)
      BY <2>5, <2>6 DEF Abstract!Change, ThePlan, TheEffect
    <2>8. QED
      BY <2>3, <2>7 DEF Abstract!Next
  <1>9. QED
    BY <1>3, <1>4, <1>5, <1>6, <1>7, <1>8, StepKinds

\* A document is changed and changed back only while an attempt of the plan is open; an
\* attempt commits with every document changed, and ends restored with every change taken
\* back, whatever crashes, is lost or comes late (reference_transaction.py).
THEOREM KeepsThePromise == Spec => AllOrNothing
  <1>1. Init => BalanceInv
    <2> SUFFICES ASSUME Init, NEW p \in Providers
                 PROVE  Cardinality(Did(p, "write")) =
                        Cardinality(Did(p, "rollback")) + IF Standing(p) THEN 1 ELSE 0
      BY DEF BalanceInv
    <2>1. Current = 0 /\ DOMAIN effects = {}
      BY DEF Init, Current
    <2>2. Did(p, "write") = {} /\ Did(p, "rollback") = {} /\ ~Standing(p)
      BY <2>1 DEF Did, Standing
    <2>3. Cardinality({}) = 0
      BY FS_EmptySet
    <2>4. QED
      BY <2>2, <2>3
  <1>2. Spec => []BalanceInv
    BY <1>1, BridgeInvariantHolds, BalanceStep, PTL DEF Spec
  <1>3. QED
    BY <1>2, BridgeInvariantHolds, InitialAbstract, AbstractStep, PTL
       DEF Spec, AllOrNothing, Abstract!Spec

-----------------------------------------------------------------------------
(* A retry starts from what the earlier attempts left. *)

\* What happened to p's document before attempt a, and the last that did.
Ours(a, p) == {x \in DOMAIN effects : effects[x] = "applied" /\ x[1] < a /\ Op(x[1], x[2]).p = p}
Newest(x, S) == \A y \in S : y[1] < x[1] \/ (y[1] = x[1] /\ y[2] <= x[2])

\* Revision w is what was left of p's document before attempt a.
LeftAt(a, p, w) ==
    \/ Ours(a, p) = {} /\ w = journal[1].want[p]
    \/ \E x \in Ours(a, p) : Newest(x, Ours(a, p)) /\ w = Op(x[1], x[2]).rev + 1

RetryInv ==
    \A a \in DOMAIN journal : \A p \in Planned(journal[a]) : LeftAt(a, p, journal[a].want[p])

\* What happened before an attempt stays so while no effect is entered.
LEMMA OursKept ==
    ASSUME BridgeInv, JournalGrows, effects' = effects, NEW a, NEW p
    PROVE  Ours(a, p)' = Ours(a, p)
  BY EffectIntents DEF Ours

\* And so does the revision it left.
LEMMA LeftAtKept ==
    ASSUME BridgeInv, JournalGrows, Current # 0, NEW a, NEW p, NEW w,
           Ours(a, p)' = Ours(a, p), LeftAt(a, p, w)
    PROVE  LeftAt(a, p, w)'
  <1>1. 1 \in DOMAIN journal
    BY JournalTypes DEF BridgeInv
  <1>2. journal'[1].want = journal[1].want
    BY <1>1 DEF JournalGrows
  <1>3. CASE Ours(a, p) = {} /\ w = journal[1].want[p]
    BY <1>2, <1>3 DEF LeftAt
  <1>4. CASE \E x \in Ours(a, p) : Newest(x, Ours(a, p)) /\ w = Op(x[1], x[2]).rev + 1
    <2>1. PICK x \in Ours(a, p) : Newest(x, Ours(a, p)) /\ w = Op(x[1], x[2]).rev + 1
      BY <1>4
    <2>2. x \in DOMAIN effects
      BY DEF Ours
    <2>3. Op(x[1], x[2])'.rev = Op(x[1], x[2]).rev
      BY <2>2, EffectIntents
    <2>4. Newest(x, Ours(a, p))'
      BY <2>1 DEF Newest
    <2>5. QED
      BY <2>1, <2>3, <2>4 DEF LeftAt
  <1>5. QED
    BY <1>3, <1>4 DEF LeftAt

\* Where an effect of the current attempt comes from.
LEMMA CurrentEffect ==
    ASSUME BridgeInv, Current # 0, NEW t, t = journal[Current], NEW p,
           NEW x \in DOMAIN effects, effects[x] = "applied", x[1] = Current, Op(x[1], x[2]).p = p
    PROVE  /\ Happened(Current, x[2]) /\ x[2] \in DOMAIN t.ops /\ x = <<Current, x[2]>>
           /\ x[2] \in WritesOf(t, p) \/ x[2] \in RollbacksOf(t, p)
  <1>1. x[2] \in DOMAIN t.ops /\ Op(x[1], x[2]) = t.ops[x[2]]
    BY DEF BridgeInv, LedgerInv, OperationAsked, Op
  <1>2. x = <<Current, x[2]>>
    BY DEF BridgeInv, LedgerInv
  <1>3. t.ops[x[2]].kind \in {"write", "rollback"}
    <2>1. t.ops \in Seq(OperationRecords)
      BY CurrentFacts
    <2>2. t.ops[x[2]] \in OperationRecords
      BY <1>1, <2>1
    <2>3. QED
      BY <2>2 DEF OperationRecords
  <1>4. QED
    BY <1>1, <1>2, <1>3 DEF Happened, Known, WritesOf, RollbacksOf

\* An attempt that wrote nothing of a document left it as it found it.
LEMMA NothingHere ==
    ASSUME BridgeInv, Current # 0, NEW t, t = journal[Current], NEW p,
           \A j \in WritesOf(t, p) : ~Happened(Current, j)
    PROVE  Ours(Current + 1, p) = Ours(Current, p)
  <1>1. t \in AnyAttempt /\ AttemptValid(t) /\ Current \in Nat
    BY CurrentFacts, JournalTypes DEF AttemptInv, BridgeInv
  <1>2. \A x \in DOMAIN effects : x[1] \in Nat
    BY DEF BridgeInv, LedgerInv
  <1>3. ASSUME NEW x \in DOMAIN effects, effects[x] = "applied", x[1] = Current, Op(x[1], x[2]).p = p
        PROVE  FALSE
    <2>1. Happened(Current, x[2]) /\ (x[2] \in WritesOf(t, p) \/ x[2] \in RollbacksOf(t, p))
      BY <1>3, CurrentEffect
    <2>2. x[2] \in RollbacksOf(t, p)
      BY <2>1
    <2>3. PICK j \in WritesOf(t, p) : EligibleRollbackParent(t.ops[j])
      BY <1>1, <2>2, RollbackParent
    <2>4. j \in DOMAIN t.ops /\ Op(Current, j) = t.ops[j]
      BY DEF WritesOf, Op
    <2>5. Happened(Current, j)
      BY <2>3, <2>4, NoEffectFacts DEF Happened
    <2>6. QED
      BY <2>5
  <1>4. QED
    BY <1>1, <1>2, <1>3 DEF Ours

\* What a retry expects is what the attempt it follows left behind.
LEMMA RetryLeft ==
    ASSUME BridgeInv, RetryInv, EndedRestored, NEW t, t = journal[Current], NEW p \in Planned(t)
    PROVE  LeftAt(Current + 1, p, RetryRevision(t, p))
  <1>1. /\ t \in AnyAttempt /\ AttemptValid(t) /\ Told(Current, t) /\ t.state = "restored"
        /\ Current # 0 /\ Current \in DOMAIN journal /\ Current \in Nat
        /\ t.ops \in Seq(OperationRecords)
    BY CurrentFacts, JournalTypes DEF EndedRestored, AttemptInv, BridgeInv
  <1>2. LeftAt(Current, p, t.want[p])
    BY <1>1 DEF RetryInv
  <1>3. ASSUME \A j \in WritesOf(t, p) : ~Happened(Current, j)
        PROVE  LeftAt(Current + 1, p, t.want[p])
    <2>1. Ours(Current + 1, p) = Ours(Current, p)
      BY <1>1, <1>3, NothingHere
    <2>2. QED
      BY <1>2, <2>1 DEF LeftAt
  <1>4. \A j \in WritesOf(t, p) : j \in DOMAIN t.ops /\ Op(Current, j) = t.ops[j]
    BY DEF WritesOf, Op
  <1>5. CASE \A j \in WritesOf(t, p) : ProvenUndispatched(t.ops[j])
    <2>1. \A j \in WritesOf(t, p) : ~Happened(Current, j)
      BY <1>1, <1>4, <1>5, NoEffectFacts DEF Happened, RollbackProvenNoEffect
    <2>2. QED
      BY <1>3, <1>5, <2>1 DEF RetryRevision
  <1>6. CASE ~\A j \in WritesOf(t, p) : ProvenUndispatched(t.ops[j])
    <2>1. PICK i \in WritesOf(t, p) : ~ProvenUndispatched(t.ops[i])
      BY <1>6
    <2>2. WriteTakenBack(t, p, i) /\ WritesOf(t, p) = {i} /\ LatestOf(WritesOf(t, p)) = i
      BY <1>1, RestoredWrite
    <2>3. i \in DOMAIN t.ops /\ Op(Current, i) = t.ops[i]
      BY <1>4
    <2>4. CASE t.ops[i].out = "no_effect"
      <3>1. /\ Known(effects, <<Current, i>>) /\ effects[<<Current, i>>] = "no_effect"
            /\ t.ops[i].res = t.ops[i].rev
        BY <1>1, <2>3, <2>4 DEF Told, None
      <3>2. t.ops[i].rev = t.want[p]
        <4>1. t.ops[i].kind = "write" /\ t.ops[i].p = p
          BY DEF WritesOf
        <4>2. QED
          BY <1>1, <2>3, <4>1 DEF AttemptValid, OperationsValid
      <3>3. \A j \in WritesOf(t, p) : ~Happened(Current, j)
        BY <2>2, <3>1 DEF Happened
      <3>4. RetryRevision(t, p) = t.want[p]
        BY <1>6, <2>2, <2>4, <3>1, <3>2 DEF RetryRevision
      <3>5. QED
        BY <1>3, <3>3, <3>4
    <2>5. CASE t.ops[i].out # "no_effect"
      <3>1. PICK r : r = LatestOf(RollbacksOf(t, p))
        OBVIOUS
      <3>2. RollbacksOf(t, p) # {} /\ VerifiedOutcome(t.ops[r], "applied")
        BY <2>1, <2>2, <2>5, <3>1 DEF WriteTakenBack, VerifiedOutcome
      <3>3. RollbacksOf(t, p) \subseteq DOMAIN t.ops
        BY DEF RollbacksOf
      <3>4. r \in RollbacksOf(t, p) /\ r \in DOMAIN t.ops /\ \A j \in RollbacksOf(t, p) : j <= r
        BY <1>1, <3>1, <3>2, <3>3, LatestOperation
      <3>5. t.ops[r].out = "applied" /\ t.ops[r].p = p /\ Op(Current, r) = t.ops[r]
        BY <3>2, <3>4 DEF VerifiedOutcome, RollbacksOf, Op
      <3>6. /\ Known(effects, <<Current, r>>) /\ effects[<<Current, r>>] = "applied"
            /\ t.ops[r].res = t.ops[r].rev + 1
        BY <1>1, <3>4, <3>5 DEF Told, None
      <3>7. RetryRevision(t, p) = t.ops[r].rev + 1
        BY <1>6, <2>2, <2>5, <3>1, <3>6 DEF RetryRevision
      <3>8. PICK x : x = <<Current, r>>
        OBVIOUS
      <3>9. x[1] = Current /\ x[2] = r
        BY <3>8
      <3>10. x \in Ours(Current + 1, p)
        BY <1>1, <3>5, <3>6, <3>8, <3>9 DEF Ours, Known
      <3>11. i <= r
        <4>1. PICK j \in WritesOf(t, p) : j < r
          BY <1>1, <3>4, RollbackParent
        <4>2. i \in Nat /\ r \in Nat
          BY <1>1, <2>3, <3>4
        <4>3. QED
          BY <2>2, <4>1, <4>2
      <3>12. ASSUME NEW y \in Ours(Current + 1, p)
             PROVE  y[1] < x[1] \/ (y[1] = x[1] /\ y[2] <= x[2])
        <4>1. /\ y \in DOMAIN effects /\ effects[y] = "applied" /\ y[1] < Current + 1
              /\ Op(y[1], y[2]).p = p
          BY DEF Ours
        <4>2. y[1] \in Nat
          BY <4>1 DEF BridgeInv, LedgerInv
        <4>3. CASE y[1] = Current
          <5>1. y[2] \in WritesOf(t, p) \/ y[2] \in RollbacksOf(t, p)
            BY <1>1, <4>1, <4>3, CurrentEffect
          <5>2. y[2] <= r
            BY <2>2, <3>4, <3>11, <5>1
          <5>3. QED
            BY <3>9, <4>3, <5>2
        <4>4. CASE y[1] # Current
          BY <1>1, <3>9, <4>1, <4>2, <4>4
        <4>5. QED
          BY <4>3, <4>4
      <3>13. Newest(x, Ours(Current + 1, p))
        BY <3>12 DEF Newest
      <3>14. RetryRevision(t, p) = Op(x[1], x[2]).rev + 1
        BY <3>5, <3>7, <3>9
      <3>15. QED
        BY <3>10, <3>13, <3>14 DEF LeftAt
    <2>6. QED
      BY <2>4, <2>5
  <1>7. QED
    BY <1>5, <1>6

\* A host's outcome for the current attempt says nothing of what was left before it.
LEMMA OursAfter ==
    ASSUME BridgeInv, NEW i, NEW v \in Outcomes, ~Known(effects, <<Current, i>>), journal' = journal,
           effects' = With(effects, <<Current, i>>, v), NEW a \in DOMAIN journal, NEW p
    PROVE  Ours(a, p)' = Ours(a, p)
  <1>1. PICK x : x = <<Current, i>>
    OBVIOUS
  <1>2. /\ DOMAIN effects' = DOMAIN effects \cup {x}
        /\ \A z \in DOMAIN effects : effects'[z] = effects[z]
    BY <1>1, OutcomeEntered
  <1>3. ~(x[1] < a)
    BY <1>1, JournalTypes DEF BridgeInv
  <1>4. \A z : Op(z[1], z[2])' = Op(z[1], z[2])
    BY DEF Op
  <1>5. QED
    BY <1>2, <1>3, <1>4 DEF Ours

\* Every step keeps the expected revisions right.
LEMMA RetryStep == BridgeInv /\ RetryInv /\ BridgeInv' /\ [Next]_vars => RetryInv'
  <1> SUFFICES ASSUME BridgeInv, RetryInv, BridgeInv', [Next]_vars
               PROVE  RetryInv'
    OBVIOUS
  <1>1. ASSUME JournalGrows, DOMAIN journal' = DOMAIN journal,
               \A a \in DOMAIN journal : \A p : Ours(a, p)' = Ours(a, p)
        PROVE  RetryInv'
    <2> SUFFICES ASSUME NEW a \in DOMAIN journal', NEW p \in Planned(journal'[a])
                 PROVE  LeftAt(a, p, journal[a].want[p])'
      BY DEF RetryInv
    <2>1. a \in DOMAIN journal /\ journal'[a].want = journal[a].want
      BY <1>1 DEF JournalGrows
    <2>2. PICK w : w = journal[a].want[p]
      OBVIOUS
    <2>3. LeftAt(a, p, w)
      BY <2>1, <2>2 DEF RetryInv, Planned
    <2>4. Current # 0
      BY <2>1, JournalTypes DEF BridgeInv
    <2>5. LeftAt(a, p, w)'
      BY <1>1, <2>1, <2>3, <2>4, LeftAtKept
    <2>6. QED
      BY <2>1, <2>2, <2>5 DEF LeftAt
  <1>2. ASSUME Kept
        PROVE  RetryInv'
    BY <1>1, <1>2, OursKept DEF Kept, hostVars
  <1>3. CASE Recording
    BY <1>2, <1>3, RecordingKept
  <1>4. CASE \E state \in {"committed", "restored"} : FinishAttempt(state)
    BY <1>2, <1>4, FinishAttemptSteps
  <1>5. journal' = journal => JournalGrows
    BY DEF JournalGrows, Allocated, AcquisitionAsked, ReleaseAsked, OperationAsked, Op, SameIntent
  <1>6. CASE Elsewhere
    <2>1. journal' = journal /\ effects' = effects
      BY <1>6 DEF Elsewhere
    <2>2. QED
      BY <1>1, <1>5, <2>1, OursKept
  <1>7. ASSUME NEW i \in CurrentOperations, HostRulesOutWrite(Current, i)
        PROVE  RetryInv'
    <2>1. /\ ~Known(effects, <<Current, i>>) /\ journal' = journal
          /\ effects' = With(effects, <<Current, i>>, "no_effect")
      BY <1>7 DEF HostRulesOutWrite
    <2>2. QED
      BY <1>1, <1>5, <2>1, OursAfter DEF Outcomes
  <1>8. ASSUME NEW q \in wire, q.do = "object", HostWrite(q.a, q.i)
        PROVE  RetryInv'
    <2>1. /\ ~Known(effects, <<q.a, q.i>>) /\ journal' = journal
          /\ effects' = With(effects, <<q.a, q.i>>, "applied") /\ OperationAsked(q.a, q.i)
      BY <1>8 DEF HostWrite, BridgeInv, WireInv
    <2>2. q.a = Current
      BY <2>1, WrittenAttempt
    <2>3. QED
      BY <1>1, <1>5, <2>1, <2>2, OursAfter DEF Outcomes
  <1>9. ASSUME NEW plan \in SUBSET Providers, BeginAttempt(plan)
        PROVE  RetryInv'
    <2>1. /\ JournalGrows /\ Current' = Current + 1 /\ effects' = effects
          /\ \A a \in DOMAIN journal : journal'[a] = journal[a]
          /\ journal'[Current + 1].want = [p \in plan |-> IF Current = 0 THEN doc[p].rev
                                                         ELSE RetryRevision(journal[Current], p)]
      BY <1>9, BeginAttemptSteps DEF hostVars
    <2>2. /\ Current \in Nat /\ DOMAIN journal = 1 .. Current /\ DOMAIN journal' = 1 .. (Current + 1)
      <3>1. DOMAIN journal' = 1 .. Current'
        BY DEF BridgeInv, JournalInv, Current
      <3>2. QED
        BY <2>1, <3>1, JournalTypes DEF BridgeInv
    <2>3. PICK n : n = Current + 1
      OBVIOUS
    <2> SUFFICES ASSUME NEW a \in DOMAIN journal', NEW p \in Planned(journal'[a])
                 PROVE  LeftAt(a, p, journal[a].want[p])'
      BY DEF RetryInv
    <2>4. CASE a \in DOMAIN journal
      <3>1. Current # 0 /\ journal'[a] = journal[a]
        BY <2>1, <2>2, <2>4
      <3>2. PICK w : w = journal[a].want[p]
        OBVIOUS
      <3>3. LeftAt(a, p, w)
        BY <2>4, <3>1, <3>2 DEF RetryInv
      <3>4. LeftAt(a, p, w)'
        BY <2>1, <3>1, <3>3, LeftAtKept, OursKept
      <3>5. QED
        BY <3>1, <3>2, <3>4 DEF LeftAt
    <2>5. CASE a = n /\ Current # 0
      <3>1. EndedRestored /\ plan = Planned(journal[Current])
        BY <1>9, <2>2, <2>5 DEF BeginAttempt, EndedRestored
      <3>2. p \in plan
        BY <2>1, <2>3, <2>5 DEF Planned
      <3>3. PICK w : w = RetryRevision(journal[Current], p)
        OBVIOUS
      <3>4. LeftAt(n, p, w)
        BY <2>3, <3>1, <3>2, <3>3, RetryLeft
      <3>5. LeftAt(n, p, w)'
        BY <2>1, <2>5, <3>4, LeftAtKept, OursKept
      <3>6. journal'[a].want[p] = w
        BY <2>1, <2>3, <2>5, <3>2, <3>3
      <3>7. QED
        BY <2>5, <3>5, <3>6 DEF LeftAt
    <2>6. CASE a = n /\ Current = 0
      <3>1. a = 1
        BY <2>3, <2>6
      <3>2. \A x \in DOMAIN effects' : x[1] \in DOMAIN journal'
        BY DEF BridgeInv, LedgerInv, OperationAsked
      <3>3. \A x \in DOMAIN effects' : ~(x[1] < 1)
        BY <2>2, <3>2
      <3>4. Ours(a, p)' = {}
        BY <3>1, <3>3 DEF Ours
      <3>5. QED
        BY <3>1, <3>4 DEF LeftAt
    <2>7. QED
      BY <2>2, <2>3, <2>4, <2>5, <2>6
  <1>10. QED
    BY <1>3, <1>4, <1>6, <1>7, <1>8, <1>9, StepKinds

\* There is one newest effect, so the property follows from the invariant.
LEMMA RetrySafe == BridgeInv /\ RetryInv => RetryStartsWhereTheLastEnded
  <1> SUFFICES ASSUME BridgeInv, RetryInv, NEW a \in DOMAIN journal, a > 1,
                      NEW p \in Planned(journal[a])
               PROVE  LET ours == Ours(a, p)
                          newest == CHOOSE x \in ours : Newest(x, ours)
                      IN journal[a].want[p] = IF ours = {} THEN journal[1].want[p]
                                              ELSE Op(newest[1], newest[2]).rev + 1
    BY DEF RetryStartsWhereTheLastEnded, Ours, Newest
  <1>1. LeftAt(a, p, journal[a].want[p])
    BY DEF RetryInv
  <1>2. CASE Ours(a, p) = {} /\ journal[a].want[p] = journal[1].want[p]
    BY <1>2
  <1>3. CASE \E x \in Ours(a, p) : /\ Newest(x, Ours(a, p))
                                   /\ journal[a].want[p] = Op(x[1], x[2]).rev + 1
    <2>1. PICK x \in Ours(a, p) : /\ Newest(x, Ours(a, p))
                                  /\ journal[a].want[p] = Op(x[1], x[2]).rev + 1
      BY <1>3
    <2>2. PICK y : y = CHOOSE z \in Ours(a, p) : Newest(z, Ours(a, p))
      OBVIOUS
    <2>3. y \in Ours(a, p) /\ Newest(y, Ours(a, p))
      BY <2>1, <2>2
    <2>4. Ours(a, p) \subseteq Nat \X Nat
      BY DEF Ours, BridgeInv, LedgerInv
    <2>5. x[1] \in Nat /\ x[2] \in Nat /\ y[1] \in Nat /\ y[2] \in Nat
      BY <2>1, <2>3, <2>4
    <2>6. /\ y[1] < x[1] \/ (y[1] = x[1] /\ y[2] <= x[2])
          /\ x[1] < y[1] \/ (x[1] = y[1] /\ x[2] <= y[2])
      BY <2>1, <2>3 DEF Newest
    <2>7. x[1] = y[1] /\ x[2] = y[2]
      BY <2>5, <2>6
    <2>8. QED
      BY <2>1, <2>2, <2>7
  <1>4. QED
    BY <1>1, <1>2, <1>3 DEF LeftAt

\* A retry expects the revisions that the earlier attempts really left behind, as the
\* hosts' ledgers tell it (_retry_expected_writes).
THEOREM RetriesStartRight == Spec => []RetryStartsWhereTheLastEnded
  <1>1. Init => RetryInv
    BY DEF Init, RetryInv
  <1>2. QED
    BY <1>1, BridgeInvariantHolds, RetryStep, RetrySafe, PTL DEF Spec

=============================================================================
