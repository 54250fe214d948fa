------------------------ MODULE MigrationJournalProofs ------------------------
(***************************************************************************)
(* Proofs about the journal adapter: its types and ownership, the content  *)
(* that the decoder always accepts, the roots that reads are served from,  *)
(* and the steps of the migration ledger, for any plans, documents,        *)
(* bindings and adapters and any number of generations, attempts, failing  *)
(* stores, late saves and crashes.                                         *)
(***************************************************************************)
EXTENDS MigrationJournal, SequenceTheorems, TLAPS

-----------------------------------------------------------------------------
(* The inductive invariant. *)

AdapterType == [st : {"closed", "open", "closing"}, failed : BOOLEAN, root : Roots,
                step : {"idle", "save", "confirm"}, next : Roots, jobs : 0 .. 1]

JournalTypes ==
    /\ store \in Roots /\ late \subseteq [over : Roots, root : Roots]
    /\ owner \in Adapters \cup {Nobody} /\ holder \in Adapters \cup {Nobody}
    /\ adapter \in [Adapters -> AdapterType]
    /\ stopping \in BOOLEAN /\ faults \in 0 .. MaxFaults

\* Who is inside a change owns the journal and its lock, who has work owns the journal.
ChangesAreOwned ==
    \A a \in Adapters :
        /\ adapter[a].step # "idle" => owner = a /\ holder = a
        /\ adapter[a].jobs > 0 => owner = a

\* What may be saved over a root: the next generation, which the decoder accepts and
\* which is the root's content but for one call of one plan.
Follows(old, new) ==
    /\ new.gen = old.gen + 1
    /\ Decodes(new.content)
    /\ \/ new.content = old.content
       \/ \E p \in Plans : \E c \in Calls(p, old.content[p]) :
              new.content = [old.content EXCEPT ![p] = c]

\* Whatever is still going to reach the store may be saved over what it expects there.
SavesFollow ==
    /\ \A a \in Adapters : adapter[a].step = "save" => Follows(adapter[a].root, adapter[a].next)
    /\ \A s \in late : Follows(s.over, s.root)

JournalInv ==
    /\ JournalTypes /\ ChangesAreOwned /\ DurableContentLoads /\ SavesFollow
    /\ ServedRootsWereDurable

-----------------------------------------------------------------------------
(* The calls: what each leaves of an entry. *)

\* The last attempt of a history that has one.
LEMMA LastType ==
    ASSUME NEW e \in Entries, e.attempts # <<>>
    PROVE  /\ Len(e.attempts) \in Nat \ {0} /\ Last(e) \in Attempts
           /\ Last(e) = e.attempts[Len(e.attempts)]
  BY DEF Entries, Last

\* What a bridge operation makes of a history: its last attempt is another one.
LEMMA ChangedLast ==
    ASSUME NEW p \in Plans, NEW e \in Entries, NEW x \in ChangedAttempts(p, e)
    PROVE  /\ e.attempts # <<>> /\ Last(e).state \in {"open", "blocked"}
           /\ \E a \in Attempts :
                x = [e EXCEPT !.attempts = [e.attempts EXCEPT ![Len(e.attempts)] = a]]
  <1> DEFINE n == Len(e.attempts)
  <1>1. n # 0 /\ Last(e).state \in {"open", "blocked"}
    BY DEF ChangedAttempts
  <1>2. e.attempts \in Seq(Attempts) /\ e.attempts # <<>> /\ n \in Nat
    BY <1>1 DEF Entries
  <1>3. Last(e) \in Attempts /\ Last(e) = e.attempts[n]
    BY <1>2, LastType
  <1>4. \/ \E d \in Documents : \E w \in NextWrites(p, e, d) :
              x = [e EXCEPT !.attempts[n].writes[d] = w]
        \/ \E s \in NextAttemptStates(p, Last(e)) : x = [e EXCEPT !.attempts[n].state = s]
    <2>1. x \in (UNION {{[e EXCEPT !.attempts[n].writes[d] = w] : w \in NextWrites(p, e, d)} :
                         d \in Documents})
                 \cup {[e EXCEPT !.attempts[n].state = s] : s \in NextAttemptStates(p, Last(e))}
      BY <1>1, Zenon DEF ChangedAttempts
    <2>2. QED
      BY <2>1
  <1>5. CASE \E d \in Documents : \E w \in NextWrites(p, e, d) :
              x = [e EXCEPT !.attempts[n].writes[d] = w]
    <2>0. PICK d \in Documents : \E w \in NextWrites(p, e, d) :
              x = [e EXCEPT !.attempts[n].writes[d] = w]
      BY <1>5
    <2>1. PICK w \in NextWrites(p, e, d) : x = [e EXCEPT !.attempts[n].writes[d] = w]
      BY <2>0
    <2>2. w \in WriteStates
      BY <2>1 DEF NextWrites, WriteStates
    <2> DEFINE a == [Last(e) EXCEPT !.writes[d] = w]
    <2>3. a \in Attempts
      BY <2>2, <1>3 DEF Attempts
    <2>4. x = [e EXCEPT !.attempts = [e.attempts EXCEPT ![n] = a]]
      BY <2>1, <1>3
    <2>5. QED
      BY <2>3, <2>4, <1>1, <1>2
  <1>6. CASE \E s \in NextAttemptStates(p, Last(e)) : x = [e EXCEPT !.attempts[n].state = s]
    <2>1. PICK s \in NextAttemptStates(p, Last(e)) : x = [e EXCEPT !.attempts[n].state = s]
      BY <1>6
    <2>2. s \in AttemptStates
      BY <2>1 DEF NextAttemptStates, AttemptStates
    <2> DEFINE a == [Last(e) EXCEPT !.state = s]
    <2>3. a \in Attempts
      BY <2>2, <1>3 DEF Attempts
    <2>4. x = [e EXCEPT !.attempts = [e.attempts EXCEPT ![n] = a]]
      BY <2>1, <1>3
    <2>5. QED
      BY <2>3, <2>4, <1>1, <1>2
  <1>7. QED
    BY <1>4, <1>5, <1>6

\* A call leaves an entry.
LEMMA CallsType ==
    ASSUME NEW p \in Plans, NEW e \in Entries, NEW x \in Calls(p, e)
    PROVE  x \in Entries
  <1> USE JournalAssumption
  <1>1. CASE x \in RecordPlan(p, e)
    <2>1. PICK b \in Bindings : x = [e EXCEPT !.plan = b, !.state = "planned"]
      BY <1>1 DEF RecordPlan
    <2>2. "planned" \in States /\ b \in Bindings \cup {NoBinding}
      BY DEF States
    <2>3. QED
      BY <2>1, <2>2 DEF Entries
  <1>2. CASE x \in RecordOriginal(p, e)
    <2>1. PICK d \in Changed[p] : x = [e EXCEPT !.originals = @ \cup {d}]
      BY <1>2 DEF RecordOriginal
    <2>2. d \in Documents
      BY <2>1
    <2>3. QED
      BY <2>1, <2>2 DEF Entries
  <1>3. CASE x \in RecordCompletion(p, e)
    BY <1>3 DEF RecordCompletion, Entries
  <1>4. CASE x \in SetState(p, e)
    <2>1. PICK s \in Allowed(e.state) : x = [e EXCEPT !.state = s]
      BY <1>4 DEF SetState
    <2>2. s \in States
      BY <2>1 DEF Allowed, States, Entries
    <2>3. QED
      BY <2>1, <2>2 DEF Entries
  <1>5. CASE x \in AppendAttempt(p, e)
    <2>1. x = [e EXCEPT !.attempts = Append(@, NewAttempt)]
      BY <1>5 DEF AppendAttempt
    <2>2. NewAttempt \in Attempts
      BY DEF NewAttempt, Attempts, AttemptStates, WriteStates
    <2>3. e.attempts \in Seq(Attempts)
      BY DEF Entries
    <2>4. Append(e.attempts, NewAttempt) \in Seq(Attempts)
      BY <2>2, <2>3
    <2>5. QED
      BY <2>1, <2>4 DEF Entries
  <1>6. CASE x \in BridgeChanges(p, e)
    <2>1. x \in ChangedAttempts(p, e)
      BY <1>6 DEF BridgeChanges
    <2>2. PICK a \in Attempts :
             x = [e EXCEPT !.attempts = [e.attempts EXCEPT ![Len(e.attempts)] = a]]
      BY <2>1, ChangedLast
    <2>3. e.attempts \in Seq(Attempts)
      BY DEF Entries
    <2>4. [e.attempts EXCEPT ![Len(e.attempts)] = a] \in Seq(Attempts)
      BY <2>1, <2>2, <2>3, ChangedLast, LastType, ExceptSeq
    <2>5. QED
      BY <2>2, <2>4 DEF Entries
  <1>7. QED
    BY <1>1, <1>2, <1>3, <1>4, <1>5, <1>6 DEF Calls

\* What the ledger calls settled is what the adapter calls restored.
LEMMA SettledIs ==
    ASSUME NEW e \in Entries
    PROVE  Restored(e) <=> Ledger!Settled(e)
  <1>1. CASE e.attempts = <<>>
    BY <1>1 DEF Restored, Ledger!Settled, Ledger!LastState
  <1>2. CASE e.attempts # <<>>
    <2>1. Last(e) \in Attempts
      BY <1>2, LastType
    <2>2. Last(e).state # "none"
      BY <2>1 DEF Attempts, AttemptStates
    <2>3. QED
      BY <1>2, <2>1, <2>2 DEF Restored, Last, Ledger!Settled, Ledger!LastState
  <1>3. QED
    BY <1>1, <1>2

\* An entry whose attempts and whose state stay moves as the ledger allows.
LEMMA AttemptsStay ==
    ASSUME NEW e \in Entries, NEW x \in Entries, x.attempts = e.attempts
    PROVE  Ledger!KeepsAttempts(e, x)
  <1>1. e.attempts \in Seq(Attempts)
    BY DEF Entries
  <1>2. QED
    BY <1>1 DEF Ledger!KeepsAttempts

\* An entry of a plan that goes back to planned, or fails, has nothing pending.
LEMMA DecodedIsSettled ==
    ASSUME NEW p \in Plans, NEW x \in Entries, EntryDecodes(p, x),
           x.state \in {"planned", "failed"}
    PROVE  Ledger!Settled(x)
  <1>1. CASE x.attempts = <<>>
    BY <1>1 DEF Ledger!Settled, Ledger!LastState
  <1>2. CASE x.attempts # <<>>
    <2>1. Last(x) \in Attempts
      BY <1>2, LastType
    <2>2. x.state \in Compatible(Last(x).state)
      BY <1>2 DEF EntryDecodes, BridgeContentDecodes
    <2>3. Last(x).state = "restored"
      BY <2>1, <2>2 DEF Compatible, Attempts, AttemptStates
    <2>4. QED
      BY <1>2, <2>3, SettledIs DEF Restored
  <1>3. QED
    BY <1>1, <1>2

\* Every call of the adapter is a step of the ledger, from an entry and to an entry
\* that the decoder accepts.
LEMMA CallsAreLedgerSteps ==
    ASSUME NEW p \in Plans, NEW e \in Entries, NEW x \in Calls(p, e),
           EntryDecodes(p, e), EntryDecodes(p, x)
    PROVE  Ledger!EntryStep(p, e, x)
  <1> USE DEF Ledger!EntryStep, Ledger!BindsOnce, Ledger!KeepsOriginals,
              Ledger!CompletionEarned, Ledger!StateMoves
  <1>1. x \in Entries
    BY CallsType
  <1>2. CASE x \in RecordPlan(p, e)
    <2>1. PICK b \in Bindings : x = [e EXCEPT !.plan = b, !.state = "planned"]
      BY <1>2 DEF RecordPlan
    <2>2. e.plan = NoBinding /\ e.state \in {"none", "planned"}
      BY <1>2 DEF RecordPlan
    <2>3. /\ x.plan = b /\ x.state = "planned" /\ x.originals = e.originals
          /\ x.completion = e.completion /\ x.attempts = e.attempts
      BY <2>1 DEF Entries
    <2>4. Ledger!KeepsAttempts(e, x) /\ Ledger!Settled(x)
      BY <1>1, <2>3, AttemptsStay, DecodedIsSettled
    <2>5. QED
      BY <2>2, <2>3, <2>4
  <1>3. CASE x \in RecordOriginal(p, e)
    <2>1. PICK d \in Changed[p] : x = [e EXCEPT !.originals = @ \cup {d}]
      BY <1>3 DEF RecordOriginal
    <2>2. e.plan # NoBinding /\ e.state = "applying"
      BY <1>3 DEF RecordOriginal
    <2>3. /\ x.plan = e.plan /\ x.state = e.state /\ x.originals = e.originals \cup {d}
          /\ x.completion = e.completion /\ x.attempts = e.attempts
      BY <2>1 DEF Entries
    <2>4. Ledger!KeepsAttempts(e, x)
      BY <1>1, <2>3, AttemptsStay
    <2>5. QED
      BY <2>2, <2>3, <2>4
  <1>4. CASE x \in RecordCompletion(p, e)
    <2>1. x = [e EXCEPT !.completion = e.plan]
      BY <1>4 DEF RecordCompletion
    <2>2. /\ e.originals = Changed[p] /\ Covered(p, e) /\ e.completion = NoBinding
      BY <1>4 DEF RecordCompletion
    <2>3. /\ x.plan = e.plan /\ x.state = e.state /\ x.originals = e.originals
          /\ x.completion = e.plan /\ x.attempts = e.attempts
      BY <2>1 DEF Entries
    <2>4. Ledger!KeepsAttempts(e, x)
      BY <1>1, <2>3, AttemptsStay
    <2>5. Ledger!LastState(x) = IF Changed[p] = {} THEN "none" ELSE "committed"
      BY <2>2, <2>3 DEF Covered, LastIs, Last, Ledger!LastState
    <2>6. QED
      BY <2>2, <2>3, <2>4, <2>5
  <1>5. CASE x \in SetState(p, e)
    <2>1. PICK s \in Allowed(e.state) :
            /\ x = [e EXCEPT !.state = s]
            /\ s = "complete" => e.completion # NoBinding
            /\ e.state = "blocked" /\ s = "failed" => Restored(e)
      BY <1>5 DEF SetState
    <2>2. e.state # "complete" /\ (e.state = "blocked" => s = "failed")
      BY <2>1 DEF Allowed, Entries, States
    <2>3. /\ x.plan = e.plan /\ x.state = s /\ x.originals = e.originals
          /\ x.completion = e.completion /\ x.attempts = e.attempts
      BY <2>1 DEF Entries
    <2>4. Ledger!KeepsAttempts(e, x)
      BY <1>1, <2>3, AttemptsStay
    <2>5. x.state \in {"planned", "failed"} => Ledger!Settled(x)
      BY <1>1, DecodedIsSettled
    <2>6. e.state = "blocked" => Ledger!Settled(e)
      BY <2>1, <2>2, SettledIs
    <2>7. QED
      BY <2>1, <2>2, <2>3, <2>4, <2>5, <2>6
  <1>6. CASE x \in AppendAttempt(p, e)
    <2>1. x = [e EXCEPT !.attempts = Append(@, NewAttempt)]
      BY <1>6 DEF AppendAttempt
    <2>2. e.state = "applying" /\ Restored(e)
      BY <1>6 DEF AppendAttempt
    <2>3. e.attempts \in Seq(Attempts)
      BY DEF Entries
    <2>4. /\ x.plan = e.plan /\ x.state = e.state /\ x.originals = e.originals
          /\ x.completion = e.completion /\ x.attempts = Append(e.attempts, NewAttempt)
      BY <2>1 DEF Entries
    <2>5. Ledger!KeepsAttempts(e, x)
      BY <2>2, <2>3, <2>4, SettledIs DEF Ledger!KeepsAttempts
    <2>6. QED
      BY <2>4, <2>5
  <1>7. CASE x \in BridgeChanges(p, e)
    <2> DEFINE n == Len(e.attempts)
    <2>1. x \in ChangedAttempts(p, e)
      BY <1>7 DEF BridgeChanges
    <2>2. PICK a \in Attempts : x = [e EXCEPT !.attempts = [e.attempts EXCEPT ![n] = a]]
      BY <2>1, ChangedLast
    <2>3. e.attempts # <<>> /\ Last(e).state \in {"open", "blocked"}
      BY <2>1, ChangedLast
    <2>4. e.attempts \in Seq(Attempts) /\ n \in Nat \ {0} /\ Last(e) = e.attempts[n]
      BY <2>3, LastType DEF Entries
    <2>5. /\ x.plan = e.plan /\ x.state = e.state /\ x.originals = e.originals
          /\ x.completion = e.completion /\ x.attempts = [e.attempts EXCEPT ![n] = a]
      BY <2>2 DEF Entries
    <2>6. Len(x.attempts) = n /\ \A i \in 1 .. n : i # n => x.attempts[i] = e.attempts[i]
      BY <2>4, <2>5, ExceptSeq
    <2>7. Ledger!KeepsAttempts(e, x)
      BY <2>3, <2>4, <2>6 DEF Ledger!KeepsAttempts
    <2>8. QED
      BY <2>5, <2>7
  <1>8. QED
    BY <1>2, <1>3, <1>4, <1>5, <1>6, <1>7 DEF Calls

\* What may be saved over a root is a step of the ledger, or none.
LEMMA FollowsIsALedgerStep ==
    ASSUME NEW old \in Roots, NEW new \in Roots, Follows(old, new), Decodes(old.content)
    PROVE  \/ new.content = old.content
           \/ \E p \in Plans :
                /\ Ledger!EntryStep(p, old.content[p], new.content[p])
                /\ \A q \in Plans \ {p} : new.content[q] = old.content[q]
  <1> SUFFICES ASSUME new.content # old.content
               PROVE  \E p \in Plans :
                        /\ Ledger!EntryStep(p, old.content[p], new.content[p])
                        /\ \A q \in Plans \ {p} : new.content[q] = old.content[q]
    OBVIOUS
  <1>1. PICK p \in Plans : \E x \in Calls(p, old.content[p]) :
            new.content = [old.content EXCEPT ![p] = x]
    BY DEF Follows
  <1>2. PICK x \in Calls(p, old.content[p]) : new.content = [old.content EXCEPT ![p] = x]
    BY <1>1
  <1>3. old.content \in [Plans -> Entries]
    BY DEF Roots
  <1>4. new.content[p] = x /\ \A q \in Plans \ {p} : new.content[q] = old.content[q]
    BY <1>2, <1>3
  <1>5. EntryDecodes(p, old.content[p]) /\ EntryDecodes(p, x)
    BY <1>4 DEF Follows, Decodes
  <1>6. Ledger!EntryStep(p, old.content[p], x)
    BY <1>2, <1>3, <1>5, CallsAreLedgerSteps
  <1>7. QED
    BY <1>4, <1>6

-----------------------------------------------------------------------------
(* The adapters: each step keeps the invariant. *)

\* An empty journal is a root that the decoder accepts, and provisioning saves it.
LEMMA EmptyRootIs ==
    /\ EmptyRoot \in Roots /\ Absent \in Roots /\ EmptyRoot # Absent
    /\ Decodes(EmptyRoot.content) /\ Absent.content = EmptyRoot.content
    /\ Follows(Absent, EmptyRoot)
  <1> USE JournalAssumption
  <1>1. NewEntry \in Entries
    BY DEF NewEntry, Entries, States
  <1>2. EmptyRoot.gen = 0 /\ EmptyRoot.content = [p \in Plans |-> NewEntry]
    BY DEF EmptyRoot
  <1>3. Absent = [gen |-> -1, content |-> [p \in Plans |-> NewEntry]]
    BY DEF Absent, EmptyRoot
  <1>4. EmptyRoot \in Roots /\ Absent \in Roots
    BY <1>1, <1>3 DEF EmptyRoot, Roots
  <1>5. ASSUME NEW p \in Plans PROVE EntryDecodes(p, NewEntry)
    BY DEF EntryDecodes, BridgeContentDecodes, NewEntry
  <1>6. Decodes(EmptyRoot.content)
    BY <1>2, <1>5 DEF Decodes
  <1>7. Absent.gen = -1 /\ Absent.content = EmptyRoot.content
    BY <1>2, <1>3
  <1>8. QED
    BY <1>2, <1>4, <1>6, <1>7 DEF Follows

\* A closed adapter is one.
LEMMA ClosedType == Closed \in AdapterType /\ Closed.step = "idle" /\ Closed.jobs = 0
  BY EmptyRootIs DEF Closed, AdapterType

\* Whoever owns the journal beside a change is the one inside it.
LEMMA OneInside ==
    ASSUME JournalInv, NEW a \in Adapters, NEW b \in Adapters, adapter[a].step # "idle", b # a
    PROVE  adapter[b].step = "idle" /\ adapter[b].jobs = 0 /\ owner = a /\ owner # b
  BY DEF JournalInv, ChangesAreOwned, JournalTypes, AdapterType

\* The invariant, when one adapter and the lock change, and the next generation of
\* the store, if there is one, may be saved over this one.
LEMMA AdapterMoves ==
    ASSUME JournalInv, NEW a \in Adapters, NEW x \in AdapterType,
           adapter' = [adapter EXCEPT ![a] = x],
           x.step # "idle" => owner' = a /\ holder' = a,
           x.jobs > 0 => owner' = a,
           x.step = "save" => Follows(x.root, x.next),
           owner' = a /\ ~x.failed /\ x.step = "idle" => x.root = store' \/ x.root.gen < store'.gen,
           owner' \in Adapters \cup {Nobody}, holder' \in Adapters \cup {Nobody},
           \A b \in Adapters \ {a} : adapter[b].step # "idle" => owner' = b /\ holder' = b,
           \A b \in Adapters \ {a} : owner' = b \/ adapter[b].jobs > 0 => owner = b /\ owner' = b,
           store' = store \/ (store' \in Roots /\ Follows(store, store')),
           late' \subseteq [over : Roots, root : Roots],
           \A s \in late' : Follows(s.over, s.root),
           stopping' \in BOOLEAN, faults' \in 0 .. MaxFaults
    PROVE  JournalInv'
  <1>1. /\ adapter' \in [Adapters -> AdapterType] /\ adapter'[a] = x
        /\ \A b \in Adapters \ {a} : adapter'[b] = adapter[b]
    BY DEF JournalInv, JournalTypes
  <1>2. JournalTypes'
    BY <1>1 DEF JournalInv, JournalTypes
  <1>3. ChangesAreOwned'
    BY <1>1 DEF JournalInv, ChangesAreOwned
  <1>4. DurableContentLoads'
    BY DEF JournalInv, DurableContentLoads, Follows
  <1>5. SavesFollow'
    BY <1>1 DEF JournalInv, SavesFollow
  <1>6. ServedRootsWereDurable'
    <2>1. \A b \in Adapters : adapter[b].root.gen \in Int
      BY DEF JournalInv, JournalTypes, AdapterType, Roots
    <2>2. store.gen \in Int /\ (store' = store \/ store'.gen = store.gen + 1)
      BY DEF JournalInv, JournalTypes, Roots, Follows
    <2>3. QED
      BY <1>1, <2>1, <2>2 DEF JournalInv, ServedRootsWereDurable
  <1>7. QED
    BY <1>2, <1>3, <1>4, <1>5, <1>6 DEF JournalInv

\* The invariant, when the adapters stay and the next generation of the store, if
\* there is one, may be saved over this one.
LEMMA StoreMoves ==
    ASSUME JournalInv, UNCHANGED <<owner, holder, adapter>>,
           store' = store \/ (store' \in Roots /\ Follows(store, store')),
           late' \subseteq [over : Roots, root : Roots],
           \A s \in late' : Follows(s.over, s.root),
           stopping' \in BOOLEAN, faults' \in 0 .. MaxFaults
    PROVE  JournalInv'
  <1>1. JournalTypes'
    BY DEF JournalInv, JournalTypes
  <1>2. ChangesAreOwned'
    BY DEF JournalInv, ChangesAreOwned
  <1>3. DurableContentLoads'
    BY DEF JournalInv, DurableContentLoads, Follows
  <1>4. SavesFollow'
    BY DEF JournalInv, SavesFollow
  <1>5. ServedRootsWereDurable'
    <2>1. \A a \in Adapters : adapter[a].root.gen \in Int
      BY DEF JournalInv, JournalTypes, AdapterType, Roots
    <2>2. store.gen \in Int /\ (store' = store \/ store'.gen = store.gen + 1)
      BY DEF JournalInv, JournalTypes, Roots, Follows
    <2>3. QED
      BY <2>1, <2>2 DEF JournalInv, ServedRootsWereDurable
  <1>6. QED
    BY <1>1, <1>2, <1>3, <1>4, <1>5 DEF JournalInv

\* async_create serves what it loaded and decoded.
LEMMA CreateStep == ASSUME JournalInv, NEW a \in Adapters, Create(a) PROVE JournalInv'
  <1> DEFINE x == [Closed EXCEPT !.st = "open", !.root = store]
  <1>1. x \in AdapterType /\ x.step = "idle" /\ x.jobs = 0 /\ x.root = store
    BY ClosedType DEF JournalInv, JournalTypes, AdapterType
  <1>2. \A b \in Adapters \ {a} : adapter[b].step = "idle" /\ adapter[b].jobs = 0
    BY JournalAssumption DEF Create, JournalInv, ChangesAreOwned, JournalTypes, AdapterType
  <1>3. /\ adapter' = [adapter EXCEPT ![a] = x] /\ owner' = a /\ owner = Nobody
        /\ UNCHANGED <<store, late, holder, stopping, faults>>
    BY DEF Create
  <1>4. /\ store \in Roots /\ late \subseteq [over : Roots, root : Roots]
        /\ \A s \in late : Follows(s.over, s.root)
        /\ holder \in Adapters \cup {Nobody}
        /\ stopping \in BOOLEAN /\ faults \in 0 .. MaxFaults
    BY DEF JournalInv, JournalTypes, SavesFollow
  <1> HIDE DEF x
  <1>5. /\ x.step # "idle" => owner' = a /\ holder' = a
        /\ x.jobs > 0 => owner' = a
        /\ x.step = "save" => Follows(x.root, x.next)
        /\ x.root = store'
    BY <1>1, <1>3
  <1>6. /\ \A b \in Adapters \ {a} : adapter[b].step # "idle" => owner' = b /\ holder' = b
        /\ \A b \in Adapters \ {a} : owner' = b \/ adapter[b].jobs > 0 => owner = b /\ owner' = b
    BY <1>2, <1>3
  <1>7. owner' \in Adapters \cup {Nobody} /\ holder' \in Adapters \cup {Nobody}
    BY <1>3, <1>4
  <1>8. late' \subseteq [over : Roots, root : Roots] /\ \A s \in late' : Follows(s.over, s.root)
    BY <1>3, <1>4
  <1>9. stopping' \in BOOLEAN /\ faults' \in 0 .. MaxFaults /\ store' = store
    BY <1>3, <1>4
  <1>10. QED
    BY <1>1, <1>3, <1>5, <1>6, <1>7, <1>8, <1>9, AdapterMoves

\* What a step that keeps the owner and the lock may make of an idle adapter.
LEMMA IdleMoves ==
    ASSUME JournalInv, NEW a \in Adapters, NEW x \in AdapterType,
           adapter' = [adapter EXCEPT ![a] = x],
           x.step = adapter[a].step, x.root = adapter[a].root, x.next = adapter[a].next,
           x.failed = adapter[a].failed, x.jobs > 0 => owner = a,
           UNCHANGED <<store, late, owner, holder, stopping, faults>>
    PROVE  JournalInv'
  BY AdapterMoves DEF JournalInv, JournalTypes, ChangesAreOwned, SavesFollow,
     ServedRootsWereDurable

\* A job begins or ends, or a close is asked for.
LEMMA JobsStep ==
    ASSUME JournalInv, NEW a \in Adapters, Run(a) \/ JobEnds(a) \/ RequestClose(a)
    PROVE  JournalInv'
  <1>1. adapter[a] \in AdapterType
    BY DEF JournalInv, JournalTypes
  <1>2. CASE Run(a)
    <2> DEFINE x == [adapter[a] EXCEPT !.jobs = 1]
    <2>1. /\ x \in AdapterType /\ x.step = adapter[a].step /\ x.root = adapter[a].root
          /\ x.next = adapter[a].next /\ x.failed = adapter[a].failed
      BY <1>1 DEF AdapterType
    <2>2. adapter' = [adapter EXCEPT ![a] = x]
      BY <1>2 DEF Run
    <2> HIDE DEF x
    <2>3. QED
      BY <1>2, <2>1, <2>2, IdleMoves DEF Run
  <1>3. CASE JobEnds(a)
    <2> DEFINE x == [adapter[a] EXCEPT !.jobs = 0]
    <2>1. /\ x \in AdapterType /\ x.step = adapter[a].step /\ x.root = adapter[a].root
          /\ x.next = adapter[a].next /\ x.failed = adapter[a].failed /\ x.jobs = 0
      BY <1>1 DEF AdapterType
    <2>2. adapter' = [adapter EXCEPT ![a] = x]
      BY <1>3 DEF JobEnds
    <2> HIDE DEF x
    <2>3. UNCHANGED <<store, late, owner, holder, stopping, faults>>
      BY <1>3 DEF JobEnds
    <2>4. ~(x.jobs > 0)
      BY <2>1
    <2>5. QED
      BY <2>1, <2>2, <2>3, <2>4, IdleMoves
  <1>4. CASE RequestClose(a)
    <2> DEFINE x == [adapter[a] EXCEPT !.st = "closing"]
    <2>1. /\ x \in AdapterType /\ x.step = adapter[a].step /\ x.root = adapter[a].root
          /\ x.next = adapter[a].next /\ x.failed = adapter[a].failed
          /\ x.jobs = adapter[a].jobs
      BY <1>1 DEF AdapterType
    <2>2. adapter' = [adapter EXCEPT ![a] = x]
      BY <1>4 DEF RequestClose
    <2>3. x.jobs > 0 => owner = a
      BY <2>1 DEF JournalInv, ChangesAreOwned
    <2> HIDE DEF x
    <2>4. QED
      BY <1>4, <2>1, <2>2, <2>3, IdleMoves DEF RequestClose
  <1>5. QED
    BY <1>2, <1>3, <1>4

\* An adapter that fails gives the lock back, whatever becomes of its save.
LEMMA FailsStep ==
    ASSUME JournalInv, NEW a \in Adapters, FailClosed(a),
           \A b \in Adapters \ {a} : adapter[b].step = "idle",
           UNCHANGED owner,
           store' = store \/ (store' \in Roots /\ Follows(store, store')),
           late' \subseteq [over : Roots, root : Roots],
           \A s \in late' : Follows(s.over, s.root),
           stopping' \in BOOLEAN, faults' \in 0 .. MaxFaults
    PROVE  JournalInv'
  <1>1. adapter[a] \in AdapterType
    BY DEF JournalInv, JournalTypes
  <1> DEFINE x == [adapter[a] EXCEPT !.failed = TRUE, !.step = "idle", !.next = EmptyRoot]
  <1>2. /\ x \in AdapterType /\ x.failed = TRUE /\ x.step = "idle" /\ x.jobs = adapter[a].jobs
    BY <1>1, EmptyRootIs DEF AdapterType
  <1>3. adapter' = [adapter EXCEPT ![a] = x]
    BY DEF FailClosed, JournalInv, JournalTypes
  <1>4. /\ holder' = Nobody /\ owner' \in Adapters \cup {Nobody}
        /\ x.jobs > 0 => owner' = a
        /\ \A b \in Adapters \ {a} : owner' = b \/ adapter[b].jobs > 0 => owner = b /\ owner' = b
    BY <1>2 DEF FailClosed, JournalInv, JournalTypes, ChangesAreOwned
  <1> HIDE DEF x
  <1>5. QED
    BY <1>2, <1>3, <1>4, AdapterMoves

\* What every step may rely on: nobody else is inside a change while the lock is free or
\* is another's.
LEMMA OthersIdle ==
    ASSUME JournalInv, NEW a \in Adapters, holder = Nobody \/ adapter[a].step # "idle"
    PROVE  /\ \A b \in Adapters \ {a} : adapter[b].step = "idle"
           /\ adapter[a].jobs > 0 \/ adapter[a].step # "idle" =>
                /\ owner = a
                /\ \A b \in Adapters \ {a} : owner # b /\ adapter[b].jobs = 0
  BY JournalAssumption DEF JournalInv, ChangesAreOwned, JournalTypes, AdapterType

\* What the store is when nothing reached it.
LEMMA NothingReached ==
    ASSUME JournalInv, UNCHANGED <<store, late>>
    PROVE  /\ store' = store /\ late' \subseteq [over : Roots, root : Roots]
           /\ \A s \in late' : Follows(s.over, s.root)
  BY DEF JournalInv, JournalTypes, SavesFollow

\* The invariant, when the owner moves inside a change.
LEMMA OwnerMoves ==
    ASSUME JournalInv, NEW a \in Adapters, NEW x \in AdapterType,
           adapter' = [adapter EXCEPT ![a] = x],
           owner = a, owner' = a, holder' \in {a, Nobody},
           x.step # "idle" => holder' = a,
           x.step = "save" => Follows(x.root, x.next),
           ~x.failed /\ x.step = "idle" => x.root = store',
           \A b \in Adapters \ {a} : adapter[b].step = "idle",
           store' = store \/ (store' \in Roots /\ Follows(store, store')),
           late' \subseteq [over : Roots, root : Roots],
           \A s \in late' : Follows(s.over, s.root),
           stopping' \in BOOLEAN, faults' \in 0 .. MaxFaults
    PROVE  JournalInv'
  <1>1. \A b \in Adapters \ {a} : adapter[b].step # "idle" => owner' = b /\ holder' = b
    OBVIOUS
  <1>2. \A b \in Adapters \ {a} : owner' = b \/ adapter[b].jobs > 0 => owner = b /\ owner' = b
    BY DEF JournalInv, ChangesAreOwned
  <1>3. owner' \in Adapters \cup {Nobody} /\ holder' \in Adapters \cup {Nobody}
    OBVIOUS
  <1>4. QED
    BY <1>1, <1>2, <1>3, AdapterMoves

\* A change is begun over the root that the adapter knows, with a content that decodes, or
\* the adapter fails.
LEMMA BeginChangeStep ==
    ASSUME JournalInv, NEW a \in Adapters, NEW p \in Plans,
           NEW c \in Calls(p, adapter[a].root.content[p]), BeginChange(a, p, c)
    PROVE  JournalInv'
  <1> DEFINE next == [gen |-> adapter[a].root.gen + 1,
                      content |-> [adapter[a].root.content EXCEPT ![p] = c]]
             ready == /\ owner = a /\ store = adapter[a].root /\ CandidateDecodes(next.content)
                      /\ ~stopping
  <1>1. /\ adapter[a].jobs > 0 /\ adapter[a].step = "idle" /\ holder = Nobody
        /\ next.gen <= MaxChanges
        /\ UNCHANGED <<store, late, owner, stopping, faults>>
    BY DEF BeginChange
  <1>2. /\ owner = a /\ \A b \in Adapters \ {a} : adapter[b].step = "idle"
        /\ \A b \in Adapters \ {a} : owner # b /\ adapter[b].jobs = 0
    BY <1>1, OthersIdle
  <1>3. adapter[a] \in AdapterType /\ stopping' \in BOOLEAN /\ faults' \in 0 .. MaxFaults
    BY <1>1 DEF JournalInv, JournalTypes
  <1>4. CASE ready
    <2> DEFINE x == [adapter[a] EXCEPT !.step = "save", !.next = next]
    <2>1. adapter' = [adapter EXCEPT ![a] = x] /\ holder' = a
      BY <1>4, <1>3 DEF BeginChange, JournalInv, JournalTypes
    <2>2. adapter[a].root \in Roots /\ adapter[a].root.content \in [Plans -> Entries]
      BY <1>3 DEF AdapterType, Roots
    <2>3. c \in Entries
      BY <2>2, CallsType
    <2>4. [adapter[a].root.content EXCEPT ![p] = c] \in [Plans -> Entries]
      BY <2>2, <2>3
    <2>5. next.gen \in -1 .. MaxChanges /\ next.gen = adapter[a].root.gen + 1
      BY <1>1, <2>2, JournalAssumption DEF Roots
    <2>6. next \in Roots
      BY <2>4, <2>5 DEF Roots
    <2>7. Follows(adapter[a].root, next)
      BY <1>4 DEF Follows, CandidateDecodes
    <2> HIDE DEF next
    <2>8. /\ x \in AdapterType /\ x.step = "save" /\ x.root = adapter[a].root /\ x.next = next
      BY <1>3, <2>6 DEF AdapterType
    <2> HIDE DEF x
    <2>9. Follows(x.root, x.next)
      BY <2>7, <2>8
    <2>10. QED
      BY <1>1, <1>2, <1>3, <2>1, <2>8, <2>9, NothingReached, OwnerMoves
  <1>5. CASE ~ready
    <2>1. FailClosed(a)
      BY <1>5 DEF BeginChange
    <2>2. QED
      BY <1>1, <1>2, <1>3, <2>1, NothingReached, FailsStep
  <1>6. QED
    BY <1>4, <1>5

\* The next generation is saved over the root it follows, or the adapter fails.
LEMMA SaveStep == ASSUME JournalInv, NEW a \in Adapters, Save(a) PROVE JournalInv'
  <1>1. /\ adapter[a].step = "save" /\ UNCHANGED <<late, owner, stopping, faults>>
    BY DEF Save
  <1>2. /\ owner = a /\ holder = a
        /\ \A b \in Adapters \ {a} : adapter[b].step = "idle" /\ owner # b /\ adapter[b].jobs = 0
    BY <1>1, OthersIdle DEF JournalInv, ChangesAreOwned
  <1>3. /\ adapter[a] \in AdapterType /\ stopping' \in BOOLEAN /\ faults' \in 0 .. MaxFaults
        /\ late' \subseteq [over : Roots, root : Roots] /\ \A s \in late' : Follows(s.over, s.root)
    BY <1>1 DEF JournalInv, JournalTypes, SavesFollow
  <1>4. CASE store = adapter[a].root
    <2> DEFINE x == [adapter[a] EXCEPT !.step = "confirm"]
    <2>1. x \in AdapterType /\ x.step = "confirm"
      BY <1>3 DEF AdapterType
    <2>2. adapter' = [adapter EXCEPT ![a] = x] /\ holder' = holder /\ store' = adapter[a].next
      BY <1>4, <1>3 DEF Save, JournalInv, JournalTypes
    <2>3. store' \in Roots /\ Follows(store, store')
      BY <1>1, <1>3, <1>4, <2>2 DEF JournalInv, SavesFollow, AdapterType
    <2> HIDE DEF x
    <2>4. QED
      BY <1>1, <1>2, <1>3, <2>1, <2>2, <2>3, OwnerMoves
  <1>5. CASE store # adapter[a].root
    <2>1. FailClosed(a) /\ store' = store
      BY <1>5 DEF Save
    <2>2. QED
      BY <1>1, <1>2, <1>3, <2>1, FailsStep
  <1>6. QED
    BY <1>4, <1>5

\* What was saved is read back and served, or the adapter fails.
LEMMA ConfirmStep == ASSUME JournalInv, NEW a \in Adapters, Confirm(a) PROVE JournalInv'
  <1>1. /\ adapter[a].step = "confirm" /\ UNCHANGED <<store, late, owner, stopping, faults>>
    BY DEF Confirm
  <1>2. /\ owner = a /\ holder = a
        /\ \A b \in Adapters \ {a} : adapter[b].step = "idle" /\ owner # b /\ adapter[b].jobs = 0
    BY <1>1, OthersIdle DEF JournalInv, ChangesAreOwned
  <1>3. adapter[a] \in AdapterType /\ stopping' \in BOOLEAN /\ faults' \in 0 .. MaxFaults
    BY <1>1 DEF JournalInv, JournalTypes
  <1>4. CASE store = adapter[a].next
    <2> DEFINE x == [adapter[a] EXCEPT !.step = "idle", !.root = store, !.next = EmptyRoot]
    <2>1. x \in AdapterType /\ x.step = "idle" /\ x.root = store
      BY <1>3, EmptyRootIs DEF AdapterType, JournalInv, JournalTypes
    <2>2. adapter' = [adapter EXCEPT ![a] = x] /\ holder' = Nobody
      BY <1>4, <1>3 DEF Confirm, JournalInv, JournalTypes
    <2> HIDE DEF x
    <2>3. /\ x.step # "idle" => owner' = a /\ holder' = a
          /\ x.step = "save" => Follows(x.root, x.next)
          /\ x.root = store'
      BY <1>1, <2>1
    <2>4. QED
      BY <1>1, <1>2, <1>3, <2>1, <2>2, <2>3, NothingReached, OwnerMoves
  <1>5. CASE store # adapter[a].next
    <2>1. FailClosed(a)
      BY <1>5 DEF Confirm
    <2>2. QED
      BY <1>1, <1>2, <1>3, <2>1, NothingReached, FailsStep
  <1>6. QED
    BY <1>4, <1>5

\* A fault is one more of them.
LEMMA FaultCounted == ASSUME JournalInv, Fault PROVE faults' \in 0 .. MaxFaults
  BY JournalAssumption DEF Fault, JournalInv, JournalTypes

\* A save that fails may have reached the store, or still be on its way.
LEMMA ChangeFailsStep == ASSUME JournalInv, NEW a \in Adapters, ChangeFails(a) PROVE JournalInv'
  <1>1. /\ adapter[a].step # "idle" /\ UNCHANGED <<owner, stopping>> /\ FailClosed(a)
    BY DEF ChangeFails, FailureKept
  <1>2. \A b \in Adapters \ {a} : adapter[b].step = "idle"
    BY <1>1, OthersIdle
  <1>3. adapter[a] \in AdapterType /\ stopping' \in BOOLEAN
    BY <1>1 DEF JournalInv, JournalTypes
  <1>4. faults' \in 0 .. MaxFaults
    BY FaultCounted DEF ChangeFails
  <1>5. CASE UNCHANGED <<store, late>>
    BY <1>1, <1>2, <1>3, <1>4, <1>5, NothingReached, FailsStep
  <1>6. CASE ~UNCHANGED <<store, late>>
    <2>1. adapter[a].step = "save"
      BY <1>6 DEF ChangeFails
    <2>2. Follows(adapter[a].root, adapter[a].next)
      BY <2>1 DEF JournalInv, SavesFollow
    <2>3. adapter[a].root \in Roots /\ adapter[a].next \in Roots
      BY <1>3 DEF AdapterType
    <2>4. /\ late \subseteq [over : Roots, root : Roots]
          /\ \A s \in late : Follows(s.over, s.root)
      BY DEF JournalInv, JournalTypes, SavesFollow
    <2>5. \/ store = adapter[a].root /\ store' = adapter[a].next /\ late' = late
          \/ /\ late' = late \cup {[over |-> adapter[a].root, root |-> adapter[a].next]}
             /\ store' = store
      BY <1>6, <2>1 DEF ChangeFails
    <2>6. store' = store \/ (store' \in Roots /\ Follows(store, store'))
      BY <2>2, <2>3, <2>5
    <2>7. /\ late' \subseteq [over : Roots, root : Roots]
          /\ \A s \in late' : Follows(s.over, s.root)
      BY <2>2, <2>3, <2>4, <2>5
    <2>8. QED
      BY <1>1, <1>2, <1>3, <1>4, <2>6, <2>7, FailsStep
  <1>7. QED
    BY <1>5, <1>6

\* A drained adapter closes and gives the ownership back.
LEMMA FinishCloseStep == ASSUME JournalInv, NEW a \in Adapters, FinishClose(a) PROVE JournalInv'
  <1> DEFINE x == [Closed EXCEPT !.jobs = adapter[a].jobs, !.root = adapter[a].root]
  <1>1. /\ adapter[a].jobs = 0 /\ holder = Nobody
        /\ owner' = (IF owner = a THEN Nobody ELSE owner)
        /\ adapter' = [adapter EXCEPT ![a] = x]
        /\ UNCHANGED <<store, late, holder, stopping, faults>>
    BY DEF FinishClose, Drained
  <1>2. adapter[a] \in AdapterType
    BY DEF JournalInv, JournalTypes
  <1>3. x \in AdapterType /\ x.step = "idle" /\ x.jobs = 0
    BY <1>1, <1>2, ClosedType DEF AdapterType
  <1> HIDE DEF x
  <1>4. /\ \A b \in Adapters : adapter[b].step = "idle"
        /\ \A b \in Adapters : adapter[b].jobs > 0 => owner = b
    BY <1>1, JournalAssumption DEF JournalInv, ChangesAreOwned, JournalTypes
  <1>5. /\ owner' \in Adapters \cup {Nobody} /\ holder' \in Adapters \cup {Nobody}
        /\ owner' # a
        /\ stopping' \in BOOLEAN /\ faults' \in 0 .. MaxFaults
    BY <1>1, JournalAssumption DEF JournalInv, JournalTypes
  <1>6. /\ x.step # "idle" => owner' = a /\ holder' = a
        /\ x.jobs > 0 => owner' = a
        /\ x.step = "save" => Follows(x.root, x.next)
    BY <1>3
  <1>7. /\ \A b \in Adapters \ {a} : adapter[b].step # "idle" => owner' = b /\ holder' = b
        /\ \A b \in Adapters \ {a} : owner' = b \/ adapter[b].jobs > 0 => owner = b /\ owner' = b
    BY <1>1, <1>4, JournalAssumption
  <1>8. QED
    BY <1>1, <1>3, <1>5, <1>6, <1>7, NothingReached, AdapterMoves

\* A save that was given up on still follows what it is saved over.
LEMMA LateSaveStep == ASSUME JournalInv, NEW s \in late, LateSave(s) PROVE JournalInv'
  <1>1. /\ s.over \in Roots /\ s.root \in Roots /\ Follows(s.over, s.root)
    BY DEF JournalInv, JournalTypes, SavesFollow
  <1>2. store' = store \/ (store' \in Roots /\ Follows(store, store'))
    BY <1>1 DEF LateSave
  <1>3. /\ late' \subseteq late /\ UNCHANGED <<owner, holder, adapter, stopping, faults>>
    BY DEF LateSave
  <1>4. QED
    BY <1>2, <1>3, StoreMoves DEF JournalInv, JournalTypes, SavesFollow

\* Generation zero goes into a store that holds nothing, now or later; and Home Assistant
\* stops.
LEMMA ProvisionStep == ASSUME JournalInv, Provision \/ ProvisionFails \/ Stop PROVE JournalInv'
  <1>1. /\ late \subseteq [over : Roots, root : Roots] /\ \A s \in late : Follows(s.over, s.root)
        /\ stopping \in BOOLEAN /\ faults \in 0 .. MaxFaults
    BY DEF JournalInv, JournalTypes, SavesFollow
  <1>2. CASE Provision
    BY <1>1, <1>2, EmptyRootIs, StoreMoves DEF Provision, Provisionable
  <1>3. CASE ProvisionFails
    <2>1. /\ store = Absent /\ faults' \in 0 .. MaxFaults
          /\ UNCHANGED <<owner, holder, adapter, stopping>>
      BY <1>3, FaultCounted DEF ProvisionFails, Provisionable
    <2>2. \/ store' = EmptyRoot /\ late' = late
          \/ late' = late \cup {[over |-> Absent, root |-> EmptyRoot]} /\ store' = store
      BY <1>3 DEF ProvisionFails
    <2>3. late' \subseteq [over : Roots, root : Roots] /\ \A s \in late' : Follows(s.over, s.root)
      BY <1>1, <2>2, EmptyRootIs
    <2>4. store' = store \/ (store' \in Roots /\ Follows(store, store'))
      BY <2>1, <2>2, EmptyRootIs
    <2>5. QED
      BY <1>1, <2>1, <2>3, <2>4, StoreMoves
  <1>4. CASE Stop
    BY <1>1, <1>4, FaultCounted, NothingReached, StoreMoves DEF Stop
  <1>5. QED
    BY <1>2, <1>3, <1>4

\* A crash leaves the store, with or without a save that was under way.
LEMMA CrashStep == ASSUME JournalInv, Crash PROVE JournalInv'
  <1>1. /\ owner' = Nobody /\ holder' = Nobody /\ stopping' = FALSE /\ late' = late
        /\ adapter' = [a \in Adapters |-> Closed]
    BY DEF Crash
  <1>2. store' = store \/ (store' \in Roots /\ Follows(store, store'))
    <2>1. CASE store' # store
      <3>1. PICK a \in Adapters : /\ store' = adapter[a].next
                                  /\ adapter[a].step = "save" /\ store = adapter[a].root
        BY <2>1 DEF Crash
      <3>2. QED
        BY <3>1 DEF JournalInv, JournalTypes, SavesFollow, AdapterType
    <2>2. QED
      BY <2>1
  <1>3. \A a \in Adapters : adapter'[a] = Closed
    BY <1>1
  <1>4. JournalTypes'
    BY <1>1, <1>2, ClosedType, FaultCounted DEF Crash, JournalInv, JournalTypes
  <1>5. ChangesAreOwned'
    BY <1>3, ClosedType DEF ChangesAreOwned
  <1>6. DurableContentLoads'
    BY <1>2 DEF JournalInv, DurableContentLoads, Follows
  <1>7. SavesFollow'
    BY <1>1, <1>3, ClosedType DEF JournalInv, SavesFollow
  <1>8. ServedRootsWereDurable'
    BY <1>1, JournalAssumption DEF ServedRootsWereDurable
  <1>9. QED
    BY <1>4, <1>5, <1>6, <1>7, <1>8 DEF JournalInv

LEMMA JournalStarts == JournalInit => JournalInv
  <1> SUFFICES ASSUME JournalInit PROVE JournalInv
    OBVIOUS
  <1>1. /\ store = Absent /\ late = {} /\ owner = Nobody /\ holder = Nobody
        /\ \A a \in Adapters : adapter[a] = Closed
    BY DEF JournalInit
  <1>2. JournalTypes
    <2>1. adapter \in [Adapters -> AdapterType]
      BY ClosedType DEF JournalInit
    <2>2. store \in Roots /\ late \subseteq [over : Roots, root : Roots]
      BY <1>1, EmptyRootIs
    <2>3. MaxFaults \in Nat /\ faults = 0
      BY JournalAssumption DEF JournalInit
    <2>4. faults \in 0 .. MaxFaults
      BY <2>3
    <2>5. stopping \in BOOLEAN
      BY DEF JournalInit
    <2>6. QED
      BY <1>1, <2>1, <2>2, <2>4, <2>5 DEF JournalTypes
  <1>3. ChangesAreOwned /\ SavesFollow
    BY <1>1, ClosedType DEF ChangesAreOwned, SavesFollow
  <1>4. DurableContentLoads
    BY <1>1, EmptyRootIs DEF DurableContentLoads
  <1>5. ServedRootsWereDurable
    BY <1>1, JournalAssumption DEF ServedRootsWereDurable
  <1>6. QED
    BY <1>2, <1>3, <1>4, <1>5 DEF JournalInv

LEMMA JournalStep == JournalInv /\ [JournalNext]_journalVars => JournalInv'
  <1> SUFFICES ASSUME JournalInv, [JournalNext]_journalVars PROVE JournalInv'
    OBVIOUS
  <1>1. ASSUME NEW a \in Adapters, Create(a) PROVE JournalInv'
    BY <1>1, CreateStep
  <1>2. ASSUME NEW a \in Adapters, Run(a) \/ JobEnds(a) \/ RequestClose(a) PROVE JournalInv'
    BY <1>2, JobsStep
  <1>3. ASSUME NEW a \in Adapters, NEW p \in Plans,
               NEW c \in Calls(p, adapter[a].root.content[p]), BeginChange(a, p, c)
        PROVE  JournalInv'
    BY <1>3, BeginChangeStep
  <1>4. ASSUME NEW a \in Adapters, Save(a) PROVE JournalInv'
    BY <1>4, SaveStep
  <1>5. ASSUME NEW a \in Adapters, Confirm(a) PROVE JournalInv'
    BY <1>5, ConfirmStep
  <1>6. ASSUME NEW a \in Adapters, ChangeFails(a) PROVE JournalInv'
    BY <1>6, ChangeFailsStep
  <1>7. ASSUME NEW a \in Adapters, FinishClose(a) PROVE JournalInv'
    BY <1>7, FinishCloseStep
  <1>8. ASSUME NEW s \in late, LateSave(s) PROVE JournalInv'
    BY <1>8, LateSaveStep
  <1>9. CASE Provision \/ ProvisionFails \/ Stop
    BY <1>9, ProvisionStep
  <1>10. CASE Crash
    BY <1>10, CrashStep
  <1>11. CASE UNCHANGED journalVars
    <2>1. UNCHANGED <<store, late, owner, holder, adapter, stopping, faults>>
      BY <1>11 DEF journalVars
    <2>2. stopping' \in BOOLEAN /\ faults' \in 0 .. MaxFaults
      BY <2>1 DEF JournalInv, JournalTypes
    <2>3. QED
      BY <2>1, <2>2, NothingReached, StoreMoves
  <1>12. QED
    BY <1>1, <1>2, <1>3, <1>4, <1>5, <1>6, <1>7, <1>8, <1>9, <1>10, <1>11 DEF JournalNext

-----------------------------------------------------------------------------
(* The theorems. *)

\* The inductive invariant: types, one owner inside a change, a content that the decoder
\* accepts, and whatever is still going to be saved follows what it is saved over.
THEOREM JournalInvariant == JournalSpec => []JournalInv
  BY JournalStarts, JournalStep, PTL DEF JournalSpec

\* Whatever calls were accepted, failed, late or cut short, one owner at a time writes and
\* the durable content is one the decoder accepts (decode_reference_journal_data), so the
\* next start is not locked out of the originals it needs.
THEOREM DurableContentAlwaysLoads == JournalSpec => []AdapterInvariant
  <1>1. JournalInv => AdapterInvariant
    <2> SUFFICES ASSUME JournalInv PROVE AdapterInvariant
      OBVIOUS
    <2>1. JournalTypes /\ ChangesAreOwned /\ DurableContentLoads
      BY DEF JournalInv
    <2>2. \A a \in Adapters : adapter[a] \in AdapterType
      BY <2>1 DEF JournalTypes
    <2>3. JournalTypeOK
      BY <2>1, <2>2 DEF JournalTypeOK, JournalTypes, ChangesAreOwned, AdapterType
    <2>4. QED
      BY <2>1, <2>3 DEF AdapterInvariant
  <1>2. QED
    BY <1>1, JournalInvariant, PTL

\* What a usable adapter answers reads from was durable: async_load and the read-back of
\* every save, under the ownership lock.
THEOREM ServedIsDurable == JournalSpec => []ServedRootsWereDurable
  <1>1. JournalInv => ServedRootsWereDurable
    BY DEF JournalInv
  <1>2. QED
    BY <1>1, JournalInvariant, PTL

\* Whatever reaches the store is a step of the ledger, or leaves its content.
LEMMA StoreStepsAreLedgerSteps ==
    ASSUME JournalInv, [JournalNext]_journalVars
    PROVE  [Ledger!LedgerNext]_(store.content)
  <1>1. store' = store \/ Follows(store, store')
    <2>1. ASSUME NEW a \in Adapters, store' # store, Save(a) \/ ChangeFails(a)
          PROVE  Follows(store, store')
      BY <2>1 DEF Save, ChangeFails, JournalInv, SavesFollow
    <2>2. ASSUME NEW s \in late, store' # store, LateSave(s)
          PROVE  Follows(store, store')
      BY <2>2 DEF LateSave, JournalInv, SavesFollow
    <2>3. ASSUME Provision \/ ProvisionFails, store' # store
          PROVE  Follows(store, store')
      BY <2>3, EmptyRootIs DEF Provision, ProvisionFails, Provisionable
    <2>4. ASSUME Crash, store' # store PROVE Follows(store, store')
      BY <2>4 DEF Crash, JournalInv, SavesFollow
    <2>5. ASSUME NEW a \in Adapters,
                 \/ Create(a) \/ Run(a) \/ JobEnds(a) \/ Confirm(a) \/ RequestClose(a)
                 \/ FinishClose(a)
          PROVE  store' = store
      BY <2>5 DEF Create, Run, JobEnds, Confirm, RequestClose, FinishClose
    <2>6. ASSUME NEW a \in Adapters, NEW p \in Plans, NEW c, BeginChange(a, p, c)
          PROVE  store' = store
      BY <2>6 DEF BeginChange
    <2>7. ASSUME Stop \/ UNCHANGED journalVars PROVE store' = store
      BY <2>7 DEF Stop, journalVars
    <2>8. QED
      BY <2>1, <2>2, <2>3, <2>4, <2>5, <2>6, <2>7 DEF JournalNext
  <1>2. store \in Roots /\ store' \in Roots /\ Decodes(store.content)
    BY JournalStep DEF JournalInv, JournalTypes, DurableContentLoads
  <1>3. QED
    BY <1>1, <1>2, FollowsIsALedgerStep DEF Ledger!LedgerNext

\* The durable content is a migration ledger: through ambiguous and late saves, crashes and
\* successions of adapters, a plan is bound once, its originals are only ever added, an attempt
\* begins after the last one was restored, a completion rests on every original and a committed
\* attempt, and what is complete stays so.
THEOREM StoreImplementsLedger == JournalSpec => ImplementsLedger
  <1>1. JournalInit => Ledger!LedgerInit
    BY EmptyRootIs DEF JournalInit, Ledger!LedgerInit, EmptyRoot, NewEntry, Ledger!NewEntry
  <1>2. JournalInv /\ [JournalNext]_journalVars => [Ledger!LedgerNext]_(store.content)
    BY StoreStepsAreLedgerSteps
  <1>3. QED
    BY <1>1, <1>2, JournalInvariant, PTL DEF JournalSpec, ImplementsLedger, Ledger!LedgerSpec

===============================================================================
