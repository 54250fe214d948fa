----------------------------- MODULE PhysicalProbe -----------------------------
(***************************************************************************)
(* The physical probe of a valve: the durable recovery record of           *)
(* physical_probe.py, and the core of the Zigbee2MQTT extension            *)
(* (true_family_brt_probe.mjs) that carries it from an armed operation     *)
(* through two turns of the knob, a no-op and a challenge to the restoring *)
(* of the intended target, through lost commands, failing writes, crashes, *)
(* a full queue and a stop.                                                *)
(*                                                                         *)
(* The core does one task of its serial queue at a time; task says at      *)
(* which await it is.  A command is authorised when it is captured and     *)
(* again when its candidate is resolved, just before it is invoked, which  *)
(* may be long after its task stopped waiting; the radio executes an       *)
(* invoked command at once or never (its own queue is not modelled).       *)
(*                                                                         *)
(* Data: a failure code is "drift" (the codes that ask for remediation     *)
(* after the restore) or "other"; a sequence is its place among those      *)
(* used; proofs are named by the phase they prove.  Times are reduced to   *)
(* what is compared: left, and whether the proof is due.                   *)
(***************************************************************************)
EXTENDS Integers, FiniteSets

CONSTANTS
    NoRecord,      \* null: nothing was armed
    MaxRestores,   \* MAX_RESTORE_ATTEMPTS
    MaxUnclaimed,  \* MAX_UNCLAIMED_SAFETY_ATTEMPTS
    MaxSequences,  \* MAX_USED_SEQUENCES
    MaxGeneration, \* MAX_GENERATION
    MaxProbes,     \* bound: operations armed
    MaxStarts      \* bound: starts of the extension

ASSUME ProbeBounds ==
    /\ {MaxRestores, MaxUnclaimed, MaxSequences, MaxGeneration} \subseteq Nat \ {0}
    /\ {MaxProbes, MaxStarts} \subseteq Nat

VARIABLES
    disk,      \* the journal file
    other,     \* what else it may be after a crash: a late write, an older file; or, after
               \* one, the temporary file beside it, whole or torn
    record,    \* this.record
    core,      \* the latches of the core
    timer,     \* a timer is scheduled for the record
    task,      \* the task of the queue and the await it is at
    sent,      \* captured commands whose candidate is being resolved
    device,    \* the target the valve has: the intended one or the challenge
    air,       \* the command whose response may arrive, once, twice or late
    attempted, \* the challenge is on the valve and a restore of it was tried, in vain
    left,      \* of the operation: 3 a full proof window, 2 the settling, 1 less, 0 nothing
    due,       \* the proof deadline of the record has passed
    starts     \* starts so far

probeVars == <<disk, other, record, core, timer, task, sent, device, air, attempted, left, due, starts>>
worldVars == <<device, air, attempted>>
timeVars  == <<left, due, starts>>

-----------------------------------------------------------------------------
(* The recovery record. *)

Before == {"physical1", "physical2", "noop"}
Active == Before \cup {"challenge", "restore"}
Ended  == {"result", "quiescent", "remediation"}

RecordType ==
    [op : 1 .. MaxProbes, phase : Active \cup Ended, gen : 1 .. MaxGeneration,
     owed : BOOLEAN,  \* restore_required
     after : BOOLEAN, \* remediation_after_restore
     tries : 0 .. MaxRestores, used : 0 .. MaxSequences, seq : 0 .. MaxSequences,
     proofs : SUBSET Active, outcome : {"none", "verified", "restored", "safe"},
     code : {"none", "drift", "other"},
     here : BOOLEAN]  \* bound to the boot that runs

ASSUME NoRecordApart == NoRecord \notin RecordType

PostChallenge == MaxRestores + MaxUnclaimed
PostNoop      == 1 + PostChallenge

\* The sequences a record leaves for what may still have to be sent.
Reserve(r) ==
    CASE r.phase = "physical1" -> 3 + PostNoop
      [] r.phase = "physical2" -> 2 + PostNoop
      [] r.phase = "noop"      -> PostNoop
      [] r.phase = "challenge" -> PostChallenge
      [] r.phase = "restore"   -> MaxRestores - r.tries + MaxUnclaimed
      [] r.phase \in Ended     -> MaxUnclaimed

\* The proofs up to a phase.
Proved(phase) ==
    CASE phase = "physical1" -> {}
      [] phase = "physical2" -> {"physical1"}
      [] phase = "noop"      -> {"physical1", "physical2"}
      [] phase = "challenge" -> Before
      [] phase = "restore"   -> Before \cup {"challenge"}

ResultValid(r) ==
    /\ ~r.owed /\ ~r.after
    /\ (r.outcome = "verified") <=> (r.code = "none")
    /\ (r.outcome = "safe") <=> (r.tries = 0)
    /\ CASE r.outcome = "verified" -> r.proofs = Active
         [] r.outcome = "restored" -> r.proofs \in {Active, Active \ {"challenge"}}
         [] r.outcome = "safe"     -> r.proofs \in {Proved(p) : p \in Before}
         [] r.outcome = "none"     -> FALSE

ActiveValid(r) ==
    /\ r.outcome = "none"
    /\ r.owed <=> r.phase \in {"challenge", "restore"}
    /\ IF r.phase = "restore"
       THEN /\ r.proofs \in {Before, Before \cup {"challenge"}, Active}
            /\ r.tries >= 1
            /\ r.code = "drift" => r.after
            /\ r.proofs # Proved("restore") => r.code # "none"
       ELSE /\ r.proofs = Proved(r.phase)
            /\ r.tries = 0 /\ r.code = "none" /\ ~r.after

RecordValid(r) ==
    /\ r \in RecordType
    /\ r.used + Reserve(r) <= MaxSequences
    /\ r.phase \in Active => ActiveValid(r)
    /\ r.phase \in {"result", "quiescent"} => ResultValid(r)
    /\ r.phase = "remediation" => ~r.after /\ r.outcome = "none" /\ r.code # "none"

ArmRecord(op) ==
    [op |-> op, phase |-> "physical1", gen |-> 1, owed |-> FALSE, after |-> FALSE,
     tries |-> 0, used |-> 0, seq |-> 0, proofs |-> {}, outcome |-> "none",
     code |-> "none", here |-> TRUE]

\* accept_proof, up to the challenge: a physical proof uses its sequence, a command the next.
AfterProof(r) ==
    LET p == [r EXCEPT !.gen = @ + 1, !.proofs = @ \cup {r.phase}]
    IN  CASE r.phase = "physical1" -> [p EXCEPT !.phase = "physical2", !.used = @ + 1]
          [] r.phase = "physical2" -> [p EXCEPT !.phase = "noop", !.used = @ + 2, !.seq = r.used + 2]
          [] r.phase = "noop"      -> [p EXCEPT !.phase = "challenge", !.used = @ + 1,
                                                !.seq = r.used + 1, !.owed = TRUE]

\* begin_restore: one more claimed attempt, with a fresh sequence.
RestoreRecord(r, code, after) ==
    [r EXCEPT !.phase = "restore", !.gen = @ + 1, !.used = @ + 1, !.seq = r.used + 1,
              !.owed = TRUE, !.after = after, !.tries = @ + 1, !.code = code, !.outcome = "none"]

\* reuse_restore: the persisted attempt again, for the boot that runs.
ReuseRecord(r) ==
    [r EXCEPT !.gen = @ + 1, !.here = TRUE, !.code = IF @ = "none" THEN "other" ELSE @]

ResumeRecord(r) ==
    LET bound == [r EXCEPT !.gen = @ + 1, !.here = TRUE]
    IN  IF r.phase = "noop" THEN [bound EXCEPT !.used = @ + 1, !.seq = r.used + 1] ELSE bound

\* _terminal.
ResultRecord(r, outcome, code) ==
    [r EXCEPT !.phase = "result", !.gen = @ + 1, !.owed = FALSE, !.after = FALSE, !.seq = 0,
              !.outcome = outcome, !.code = code]

\* acknowledge: the only record that allows the cleanup.
QuiescentRecord(r) == [r EXCEPT !.phase = "quiescent", !.gen = @ + 1]

\* to_remediation, which no generation limit stops.
RemediationRecord(r, code, owed) ==
    [r EXCEPT !.phase = "remediation", !.gen = IF @ < MaxGeneration THEN @ + 1 ELSE @,
              !.owed = owed, !.after = FALSE, !.seq = 0, !.outcome = "none", !.code = code]

-----------------------------------------------------------------------------
(* Tasks and latches. *)

FreshCore == [rem |-> FALSE, safe |-> FALSE, blocked |-> FALSE, over |-> "no",
              stopping |-> FALSE, issued |-> FALSE]

Rest == [at |-> "idle"]
Load == [at |-> "load"]
Gone == [at |-> "down"]

\* The journal write of next; then is what the task does after it and code what it fails with.
Commit(next, then, code) == [at |-> "commit", next |-> next, then |-> then, code |-> code]
\* The restores no record claims, whether they go on while it stops, and whether
\* remediation is persisted after them.
Safety(code, persist, allow) == [at |-> "safety", code |-> code, persist |-> persist, allow |-> allow]
Persist(code, owed)          == [at |-> "persist", code |-> code, owed |-> owed]

Quiet       == task = Rest /\ core.over # "queued"
Operational == ~core.rem /\ ~core.safe /\ ~core.stopping
NoOther     == [kind |-> "none", rec |-> NoRecord]
NoCommand   == <<0, 0>>

\* The epoch moves: no command captured before is invoked.
Revoked == {[o EXCEPT !.valid = FALSE] : o \in sent}

Goes(t)       == task' = t /\ UNCHANGED <<core, timer>>
Latched(t, c) == task' = t /\ core' = c /\ timer' = FALSE

\* #enterRemediation: latch, try a restore if one is owed, then persist.
EnterRemediation(r, code, owed) ==
    Latched(IF r = NoRecord THEN Rest ELSE IF owed THEN Safety(code, TRUE, FALSE) ELSE Persist(code, FALSE),
            [core EXCEPT !.rem = TRUE, !.safe = TRUE])

\* #recordNeedsSafetyRestore.
NeedsRestore(r) == r # NoRecord /\ (r.owed \/ r.phase \in {"result", "quiescent"})

\* #failSafe: before a challenge an operation ends with nothing to restore.
FailSafe(r, code) ==
    LET next == ResultRecord(r, "safe", code)
    IN  IF r.here /\ left >= 2 /\ RecordValid(next) /\ ~core.stopping
        THEN Goes(Commit(next, "safe", code))
        ELSE EnterRemediation(r, code, FALSE)

Named(code) == IF code = "none" THEN "other" ELSE code

\* #startRestore: a claimed restore, if an attempt and a full window are left for it.
StartRestore(r, code) ==
    LET next == RestoreRecord(r, code, r.after \/ code = "drift")
    IN  IF r.tries < MaxRestores /\ left = 3 /\ RecordValid(next)
        THEN Latched(Commit(next, "restore", Named(code)), [core EXCEPT !.safe = TRUE])
        ELSE EnterRemediation(r, Named(code), TRUE)

\* #handleCompeting, and #handleProofTimeout with the code "other".
HandleCompeting(code) ==
    IF core.stopping \/ core.rem THEN Goes(Rest)
    ELSE CASE record.phase \in Before -> FailSafe(record, code)
           [] record.phase \in {"challenge", "restore"} -> StartRestore(record, code)
           [] record.phase = "result" -> EnterRemediation(record, code, TRUE)

\* What follows a write that definitely failed, or that is not begun.
Refused(t) ==
    CASE t.then \in {"arm", "resume", "ack"} -> Goes(Rest)
      [] t.then = "stop"                     -> Goes([at |-> "stop"])
      [] t.then = "safe"                     -> EnterRemediation(record, t.code, FALSE)
      [] t.then \in {"restore", "recover"}   -> EnterRemediation(record, t.code, TRUE)
      [] OTHER                               -> EnterRemediation(record, "other", NeedsRestore(record))

Begin(t) == IF RecordValid(t.next) /\ ~core.stopping THEN Goes(t) ELSE Refused(t)

-----------------------------------------------------------------------------
(* The directory: what a crash leaves of it, and what a start makes of that. *)

EvidenceMayRequireRestore(r) ==
    \/ r.owed \/ r.tries > 0
    \/ r.phase \in {"challenge", "restore"}
    \/ r.phase \in {"result", "quiescent"} /\ r.outcome # "safe"
    \/ r.proofs \cap {"challenge", "restore"} # {}

\* The remediation made of the journal and a temporary file beside it.
Synthesised(main, temp) ==
    LET evidence == {main, temp} \ {NoRecord}
        source   == CHOOSE r \in evidence : \A o \in evidence : r.gen >= o.gen
    IN  RemediationRecord(source, "other", \E r \in evidence : EvidenceMayRequireRestore(r))

SameOperation(main, temp) == main # NoRecord => main.op = temp.op

Temp(r) == [kind |-> "temp", rec |-> r]
Torn(r) == [kind |-> "torn", rec |-> r]

\* What the directory may hold if the process ends now.  A write opens the temporary file,
\* fills it, syncs it and renames it: it may be missing, torn, whole, or in place.  A load that
\* makes a remediation of two files writes it like any other record.  A torn file is never
\* removed, and keeps every later start from reading the rest.
AfterCrash ==
    LET here  == {disk} \cup (IF other.kind = "behind" THEN {other.rec} ELSE {})
        hoped == (IF other.kind = "late" THEN {other.rec} ELSE {})
                 \cup (IF task.at = "commit" THEN {task.next} ELSE {})
                 \cup (IF task.at = "persist" /\ ~core.blocked
                       THEN {RemediationRecord(record, task.code, task.owed)} ELSE {})
        made  == IF task = Load /\ SameOperation(disk, other.rec)
                 THEN {Synthesised(disk, other.rec)} ELSE {}
    IN  CASE other.kind = "torn" -> {<<disk, other>>}
          [] other.kind = "temp" ->
               {<<r, other>> : r \in {disk} \cup made}
               \cup {<<r, NoOther>> : r \in made} \cup {<<disk, Torn(other.rec)>> : r \in made}
          [] OTHER ->
               {<<r, NoOther>> : r \in here \cup hoped}
               \cup {<<r, Temp(h)>> : r \in here, h \in hoped}
               \cup {<<r, Torn(NoRecord)>> : r \in IF hoped = {} THEN {} ELSE here}

CanClaim(r) ==
    /\ left = 3
    /\ \/ r.phase = "restore"
       \/ r.tries < MaxRestores /\ r.proofs \in {Before, Before \cup {"challenge"}}

\* #recoverRestoreRequired.
Recover(r) ==
    LET next == IF r.phase = "restore" THEN ReuseRecord(r)
                ELSE [RestoreRecord(r, "other", r.phase = "remediation" \/ r.after) EXCEPT !.here = TRUE]
    IN  IF CanClaim(r) /\ RecordValid(next)
        THEN Latched(Commit(next, "recover", "other"), [core EXCEPT !.safe = TRUE])
        ELSE EnterRemediation(r, "other", TRUE)

\* The rest of #startImpl, for a record another boot left.
StartWith(r) ==
    IF core.stopping \/ core.over # "no" \/ r = NoRecord THEN Goes(Rest)
    ELSE IF r.phase \in {"result", "quiescent"} THEN EnterRemediation(r, "other", TRUE)
    ELSE IF r.owed THEN Recover(r)
    ELSE IF r.phase = "remediation" THEN Latched(Rest, [core EXCEPT !.rem = TRUE, !.safe = TRUE])
    ELSE IF due' THEN EnterRemediation(r, "other", FALSE)
    ELSE task' = Rest /\ timer' = TRUE /\ UNCHANGED core

LoadReads(r) ==
    /\ record' = r
    /\ IF r = NoRecord THEN due' = FALSE
       ELSE due' \in IF r.phase \in Active THEN {left = 0, TRUE} ELSE {FALSE}
    /\ StartWith(r)

\* A file is unreadable, which a torn one always is, or they are of two operations, or the
\* load was given up and the journal is blocked: nothing is restored.
LoadRefuses(blocked) ==
    /\ record' = NoRecord
    /\ Latched(Rest, [core EXCEPT !.rem = TRUE, !.safe = TRUE, !.blocked = blocked])
    /\ UNCHANGED due

\* The remediation could not be persisted, or the evidence not be deleted.
LoadKeepsEvidence(r) ==
    /\ record' = r
    /\ disk' \in {disk, r}
    /\ Latched(IF r.owed THEN Safety("other", FALSE, FALSE) ELSE Rest,
               [core EXCEPT !.rem = TRUE, !.safe = TRUE, !.blocked = TRUE])
    /\ UNCHANGED <<other, due>>

LoadJournal ==
    /\ task = Load
    /\ \/ LoadRefuses(FALSE) /\ UNCHANGED <<disk, other>>
       \* what was given up goes on by itself, and nothing reads the result before a restart
       \/ LoadRefuses(TRUE) /\ \E found \in AfterCrash : disk' = found[1] /\ other' = found[2]
       \/ other.kind = "none" /\ LoadReads(disk) /\ UNCHANGED <<disk, other>>
       \/ /\ other.kind = "temp" /\ SameOperation(disk, other.rec)
          /\ LET r == Synthesised(disk, other.rec)
             IN  \/ LoadKeepsEvidence(r)
                 \/ LoadReads(r) /\ disk' = r /\ other' = NoOther
    /\ UNCHANGED <<sent, worldVars, left, starts>>

-----------------------------------------------------------------------------
(* Requests. *)

Request ==
    /\ Quiet /\ Operational
    /\ \/ /\ IF record = NoRecord THEN TRUE ELSE record.phase = "quiescent" /\ record.op < MaxProbes
          /\ Goes([at |-> "resolve", for |-> "arm"])
       \/ /\ record # NoRecord
          /\ record.phase \in Before /\ left > 0
          /\ Goes([at |-> "resolve", for |-> "resume"])
       \/ /\ record # NoRecord
          /\ record.phase = "result" /\ record.here
          /\ IF left = 0 THEN EnterRemediation(record, "other", TRUE)
             ELSE Goes([at |-> "resolve", for |-> "ack"])
    /\ UNCHANGED <<disk, other, record, sent, worldVars, timeVars>>

RequestFails ==
    /\ task.at = "resolve" /\ task.for # "proof"
    /\ IF task.for = "ack" /\ ~core.stopping THEN EnterRemediation(record, "other", TRUE) ELSE Goes(Rest)
    /\ UNCHANGED <<disk, other, record, sent, worldVars, timeVars>>

\* The candidate is resolved; whether the request still stands is looked at again.
RequestResolved ==
    /\ task.at = "resolve" /\ task.for # "proof"
    /\ IF task.for = "ack" /\ left = 0 /\ ~core.stopping THEN EnterRemediation(record, "other", TRUE)
       ELSE IF ~Operational \/ (task.for # "arm" /\ left = 0) THEN Goes(Rest)
       ELSE CASE task.for = "arm" ->
                   Begin(Commit(ArmRecord(IF record = NoRecord THEN 1 ELSE record.op + 1), "arm", "other"))
              [] task.for = "resume" ->
                   Begin(Commit(ResumeRecord(record),
                                IF record.phase = "noop" THEN "dispatch" ELSE "resume", "other"))
              [] task.for = "ack" -> Begin(Commit(QuiescentRecord(record), "ack", "other"))
    /\ left' \in IF task.for = "arm" THEN 1 .. 3 ELSE {left}
    /\ UNCHANGED <<disk, other, record, sent, worldVars, due, starts>>

-----------------------------------------------------------------------------
(* Frames of the valve, and writes of others to it. *)

\* #acceptProof.
AcceptProof ==
    LET p == AfterProof(record)
    IN  CASE record.phase = "physical1" -> Begin(Commit(p, "frame", "other"))
          [] record.phase \in {"physical2", "noop"} -> Begin(Commit(p, "dispatch", "other"))
          [] record.phase = "challenge" ->
               StartRestore([record EXCEPT !.proofs = @ \cup {"challenge"}], "none")
          [] record.phase = "restore" ->
               IF record.after \/ left < 2 THEN EnterRemediation(record, Named(record.code), FALSE)
               ELSE Begin(Commit(ResultRecord([record EXCEPT !.proofs = @ \cup {"restore"}],
                                              IF record.code = "none" THEN "verified" ELSE "restored",
                                              record.code), "result", "other"))

Listens ==
    /\ Quiet /\ record # NoRecord
    /\ ~core.stopping /\ ~core.rem

\* The frame the phase expects: a turn of the knob, or the response to the last command.
ProofArrives ==
    /\ Listens
    /\ record.phase \in Active /\ record.here
    /\ core.safe => record.phase = "restore"
    /\ record.phase \notin {"physical1", "physical2"} => air = <<record.op, record.seq>>
    /\ IF due THEN HandleCompeting("other")
       ELSE IF record.phase \in {"physical1", "physical2"} THEN Goes([at |-> "resolve", for |-> "proof"])
       ELSE AcceptProof
    /\ UNCHANGED <<disk, other, record, sent, worldVars, timeVars>>

ProofResolved ==
    /\ task.at = "resolve" /\ task.for = "proof"
    /\ \/ HandleCompeting("other")
       \/ IF core.rem \/ core.over # "no" THEN Goes(Rest)
          ELSE IF due THEN HandleCompeting("other") ELSE AcceptProof
    /\ UNCHANGED <<disk, other, record, sent, worldVars, timeVars>>

\* A frame nothing expects, a write of another client, a change of the controls.
Competes ==
    /\ Listens
    /\ record.phase \in Active \cup {"result"}
    /\ \E code \in {"drift", "other"} : HandleCompeting(code)
    /\ UNCHANGED <<disk, other, record, sent, worldVars, timeVars>>

OnTimer ==
    /\ timer /\ Listens
    /\ IF record.phase = "result" THEN left = 0 /\ EnterRemediation(record, "other", TRUE)
       ELSE due /\ HandleCompeting("other")
    /\ UNCHANGED <<disk, other, record, sent, worldVars, timeVars>>

-----------------------------------------------------------------------------
(* Writing the journal. *)

\* #scheduleForRecord.
Scheduled(r) ==
    /\ ~core.stopping /\ ~core.rem
    /\ core.safe => r.phase = "restore"
    /\ r.phase \in Active \cup {"result"}

Command(r) == [op |-> r.op, gen |-> r.gen, phase |-> r.phase, seq |-> r.seq, valid |-> TRUE]

Settled(r, t) == task' = t /\ timer' = Scheduled(r) /\ UNCHANGED core

\* #dispatchExpected up to the capture of the command.
DispatchExpected(r) ==
    IF core.stopping \/ core.rem \/ (core.safe /\ r.phase # "restore")
    THEN Settled(r, Rest) /\ sent' = {}
    ELSE \/ /\ ~due'
            /\ Settled(r, [at |-> "dispatch", command |-> Command(r)])
            /\ sent' = {Command(r)}
         \/ /\ r.phase = "restore" => due'
            /\ sent' = {}
            /\ CASE r.phase = "noop"      -> FailSafe(r, "other")
                 [] r.phase = "challenge" -> StartRestore(r, "other")
                 [] r.phase = "restore"   -> EnterRemediation(r, "other", TRUE)

\* An ended operation that is durable, unless its settling no longer fits.
ResultDurable(r) ==
    IF core.rem \/ core.over # "no" THEN Settled(r, Rest)
    ELSE IF left < 2 THEN EnterRemediation(r, "other", FALSE)
    ELSE /\ task' = Rest /\ timer' = ~core.stopping
         /\ core' = [core EXCEPT !.safe = @ /\ task.then = "safe"]

AckDurable(r) ==
    IF core.over # "no" THEN EnterRemediation(r, "drift", TRUE)
    ELSE \/ EnterRemediation(r, "other", TRUE)
         \/ left > 0 /\ Settled(r, Rest)

CommitSucceeds ==
    /\ task.at = "commit"
    /\ LET r == task.next
       IN  /\ disk' = r /\ other' = NoOther /\ record' = r
           /\ IF r.phase \in Active THEN due' \in {left = 0, TRUE} ELSE due' = FALSE
           /\ air' = IF air = <<r.op, r.seq>> THEN air ELSE NoCommand
           /\ CASE task.then \in {"dispatch", "restore", "recover"} -> DispatchExpected(r)
                [] task.then \in {"safe", "result"} -> ResultDurable(r) /\ sent' = {}
                [] task.then = "ack" -> AckDurable(r) /\ sent' = {}
                [] task.then = "stop" -> Goes([at |-> "stop"]) /\ sent' = {}
                [] OTHER -> Settled(r, Rest) /\ sent' = {}
    /\ UNCHANGED <<device, attempted, left, starts>>

CommitFails ==
    /\ task.at = "commit"
    /\ Refused(task)
    /\ UNCHANGED <<disk, other, record, sent, worldVars, timeVars>>

\* The write ends as terminal, as an acknowledgement, or with a restore owed before or after it.
Defended(observed) ==
    \/ task.then \in {"safe", "result", "ack"}
    \/ task.next.owed
    \/ observed # NoRecord /\ observed.owed

\* Renamed, but no more is known: #reconcileUncertain reads the file again.
CommitUncertain ==
    /\ task.at = "commit"
    /\ disk' = task.next
    /\ other' = IF other.kind = "behind" THEN other ELSE [kind |-> "behind", rec |-> disk]
    /\ \E read \in BOOLEAN :
         LET observed == IF read THEN task.next ELSE record
         IN  /\ record' = observed
             /\ Latched(IF observed = NoRecord THEN Rest
                        ELSE IF Defended(observed) THEN Safety("other", TRUE, core.stopping)
                        ELSE Persist("other", FALSE),
                        [core EXCEPT !.rem = TRUE, !.safe = TRUE, !.blocked = @ \/ ~read])
    /\ sent' = Revoked
    /\ UNCHANGED <<worldVars, timeVars>>

\* The write may still happen; the journal is blocked, so nothing reads it before a restart.
CommitTimesOut ==
    /\ task.at = "commit"
    /\ other' = [kind |-> "late", rec |-> task.next]
    /\ Latched(IF record # NoRecord /\ Defended(record) THEN Safety("other", FALSE, core.stopping) ELSE Rest,
               [core EXCEPT !.rem = TRUE, !.safe = TRUE, !.blocked = TRUE])
    /\ sent' = Revoked
    /\ UNCHANGED <<disk, record, worldVars, timeVars>>

-----------------------------------------------------------------------------
(* Commands. *)

Matches(o) ==
    record # NoRecord /\ <<o.op, o.gen, o.phase>> = <<record.op, record.gen, record.phase>>

\* #expectedAuthorizationAllows, once more when the candidate is resolved.
Allows(o) ==
    /\ o.valid /\ Matches(o)
    /\ ~core.rem /\ ~core.stopping
    /\ IF o.phase = "restore" THEN record.owed /\ ~due ELSE ~core.safe /\ ~due

\* The candidate is resolved: the command is executed, or lost on its way.
Invoke ==
    \E o \in sent :
        /\ Allows(o)
        /\ sent' = {}
        /\ \/ /\ device' = IF o.phase = "challenge" THEN "challenge" ELSE "intended"
              /\ attempted' = FALSE
              /\ air' = <<o.op, o.seq>>
           \/ /\ attempted' = (attempted \/ (device = "challenge" /\ o.phase = "restore"))
              /\ UNCHANGED <<device, air>>
        /\ UNCHANGED <<disk, other, record, core, timer, task, timeVars>>

\* The race of the command, its deadline and the stop is decided.
RaceEnds ==
    /\ task.at = "dispatch"
    /\ \/ sent = {} /\ Goes(Rest) /\ UNCHANGED sent
       \/ /\ sent' = Revoked
          /\ IF core.stopping \/ core.rem \/ (core.safe /\ record.phase # "restore") THEN Goes(Rest)
             ELSE CASE record.phase = "noop"      -> FailSafe(record, "other")
                    [] record.phase = "challenge" -> StartRestore(record, "other")
                    [] record.phase = "restore"   -> EnterRemediation(record, "other", TRUE)
    /\ UNCHANGED <<disk, other, record, worldVars, timeVars>>

\* Mutant: a restore that was tried is taken for one that is done.
SafetyRestoreTrusted ==
    /\ task.at = "safety"
    /\ device' \in {device, "intended"}
    /\ attempted' = (device' = "challenge")
    /\ task' = IF task.persist THEN Persist(task.code, FALSE) ELSE Rest
    /\ UNCHANGED <<disk, other, record, core, timer, sent, air, timeVars>>

\* The attempts of an unclaimed restore: one of them is executed, or none.
SafetyRestore ==
    /\ task.at = "safety"
    /\ IF core.stopping /\ ~task.allow THEN UNCHANGED <<core, worldVars>>
       ELSE /\ \E invoked \in BOOLEAN :
                 /\ device' \in IF invoked THEN {device, "intended"} ELSE {device}
                 /\ attempted' = (device' = "challenge")
                 /\ core' = [core EXCEPT !.issued = @ \/ (invoked /\ task.allow)]
            /\ UNCHANGED air
    /\ task' = IF task.persist THEN Persist(task.code, TRUE) ELSE Rest
    /\ UNCHANGED <<disk, other, record, timer, sent, timeVars>>

\* #persistRemediation; a write that fails or ends in doubt blocks the journal.
PersistRemediation ==
    /\ task.at = "persist"
    /\ LET next == RemediationRecord(record, task.code, task.owed)
           Installed(blocked) ==
               record' = next /\ due' = FALSE /\ core' = [core EXCEPT !.blocked = @ \/ blocked]
       IN  \/ /\ <<record.phase, record.code, record.owed>> = <<"remediation", task.code, task.owed>>
              /\ task' = Rest
              /\ UNCHANGED <<disk, other, record, due, core>>
           \/ /\ core.blocked \/ core.stopping
              /\ Installed(FALSE) /\ task' = Rest
              /\ UNCHANGED <<disk, other>>
           \/ /\ ~core.blocked
              /\ Installed(FALSE) /\ task' = Rest
              /\ disk' = next /\ other' = NoOther
           \/ /\ ~core.blocked
              /\ Installed(TRUE) /\ task' = Rest
              /\ \/ UNCHANGED <<disk, other>>
                 \/ /\ disk' = next
                    /\ other' = IF other.kind = "behind" THEN other ELSE [kind |-> "behind", rec |-> disk]
           \/ /\ ~core.blocked
              /\ Installed(TRUE)
              /\ task' = IF record.owed /\ ~task.owed THEN Safety("other", FALSE, core.stopping) ELSE Rest
              \* an older doubt is decided here, to keep one at a time
              /\ disk' \in {disk} \cup (IF other.kind = "behind" THEN {other.rec} ELSE {})
              /\ other' = [kind |-> "late", rec |-> next]
    /\ UNCHANGED <<timer, sent, worldVars, left, starts>>

-----------------------------------------------------------------------------
(* A full queue, a stop, time, and crashes. *)

\* Mutant: a full queue latches, and the work it needs is dropped like any other.
LatchQueueOverflowUnforced ==
    /\ task.at \notin {"idle", "down"} /\ ~core.stopping /\ core.over = "no"
    /\ core' = [core EXCEPT !.rem = TRUE, !.safe = TRUE, !.over = "done"]
    /\ timer' = FALSE
    /\ sent' = Revoked
    /\ UNCHANGED <<disk, other, record, task, worldVars, timeVars>>

\* latchQueueOverflow: something arrived while the queue was full.
LatchQueueOverflow ==
    /\ task.at \notin {"idle", "down"} /\ ~core.stopping /\ core.over = "no"
    /\ core' = [core EXCEPT !.rem = TRUE, !.safe = TRUE, !.over = "queued"]
    /\ timer' = FALSE
    /\ sent' = Revoked
    /\ UNCHANGED <<disk, other, record, task, worldVars, timeVars>>

HandleQueueOverflow ==
    /\ task = Rest /\ core.over = "queued"
    /\ LET owed == NeedsRestore(record)
       IN  Latched(IF record = NoRecord THEN Rest
                   ELSE IF owed THEN Safety("drift", TRUE, FALSE) ELSE Persist("drift", FALSE),
                   [core EXCEPT !.over = "done"])
    /\ UNCHANGED <<disk, other, record, sent, worldVars, timeVars>>

RequestStop ==
    /\ task.at # "down" /\ ~core.stopping
    /\ core' = [core EXCEPT !.safe = TRUE, !.stopping = TRUE]
    /\ timer' = FALSE
    /\ sent' = Revoked
    /\ UNCHANGED <<disk, other, record, task, worldVars, timeVars>>

\* #stopImpl, the last task: claim the restore of a challenge, then send it.
Stop ==
    /\ Quiet /\ core.stopping
    /\ LET next == RestoreRecord(record, "other", record.after)
       IN  IF record = NoRecord \/ core.issued THEN Goes(Gone)
           ELSE IF ~record.owed THEN Goes(Gone)
           ELSE IF record.phase = "challenge" /\ ~core.blocked /\ CanClaim(record) /\ RecordValid(next)
           THEN Goes(Commit(next, "stop", "other"))
           ELSE Goes([at |-> "stop"])
    /\ UNCHANGED <<disk, other, record, sent, worldVars, timeVars>>

StopDispatch ==
    /\ task.at = "stop"
    /\ device' \in {device, "intended"} /\ attempted' = (device' = "challenge")
    /\ Goes(Gone)
    /\ UNCHANGED <<disk, other, record, sent, air, timeVars>>

Timed == IF record = NoRecord THEN FALSE ELSE record.phase \in Active

Tick ==
    /\ left > 0
    /\ left' = left - 1
    /\ due' = (due \/ (left = 1 /\ Timed))
    /\ UNCHANGED <<disk, other, record, core, timer, task, sent, worldVars, starts>>

ProofFallsDue ==
    /\ Timed /\ ~due
    /\ due' = TRUE
    /\ UNCHANGED <<disk, other, record, core, timer, task, sent, worldVars, left, starts>>

Elsewhere(r) == IF r = NoRecord THEN r ELSE [r EXCEPT !.here = FALSE]

\* The process ends, at once or after a stop, and starts again as another boot.
RestartProcess ==
    /\ starts < MaxStarts
    /\ starts' = starts + 1
    /\ \E found \in AfterCrash :
         /\ disk' = Elsewhere(found[1])
         /\ other' = [found[2] EXCEPT !.rec = Elsewhere(@)]
    /\ record' = NoRecord /\ core' = FreshCore /\ timer' = FALSE /\ task' = Load
    /\ sent' = {} /\ due' = FALSE
    /\ left' \in 0 .. left
    /\ UNCHANGED worldVars

-----------------------------------------------------------------------------
ProbeInit ==
    /\ disk = NoRecord /\ other = NoOther /\ record = NoRecord
    /\ core = FreshCore /\ timer = FALSE /\ task = Load /\ sent = {}
    /\ device = "intended" /\ air = NoCommand /\ attempted = FALSE
    /\ left = 0 /\ due = FALSE /\ starts = 0

ProbeStep ==
    \/ LoadJournal \/ Request \/ RequestFails \/ RequestResolved
    \/ ProofArrives \/ ProofResolved \/ Competes \/ OnTimer
    \/ CommitSucceeds \/ CommitFails \/ CommitUncertain \/ CommitTimesOut
    \/ Invoke \/ RaceEnds \/ SafetyRestore \/ PersistRemediation
    \/ LatchQueueOverflow \/ HandleQueueOverflow \/ RequestStop \/ Stop \/ StopDispatch
    \/ RestartProcess

TimePasses == Tick \/ ProofFallsDue

ProbeNext == ProbeStep \/ TimePasses

ProbeSpec == ProbeInit /\ [][ProbeNext]_probeVars

-----------------------------------------------------------------------------
(* Properties. *)

ProbeTypeOK ==
    /\ disk \in RecordType \cup {NoRecord} /\ record \in RecordType \cup {NoRecord}
    /\ other \in [kind : {"none", "late", "behind", "temp", "torn"}, rec : RecordType \cup {NoRecord}]
    /\ core \in [rem : BOOLEAN, safe : BOOLEAN, blocked : BOOLEAN, over : {"no", "queued", "done"},
                 stopping : BOOLEAN, issued : BOOLEAN]
    /\ timer \in BOOLEAN /\ attempted \in BOOLEAN /\ due \in BOOLEAN
    /\ device \in {"intended", "challenge"}
    /\ left \in 0 .. 3 /\ starts \in 0 .. MaxStarts
    /\ Cardinality(sent) <= 1

\* Every record the program holds or wrote is one its validation accepts: no transition,
\* in any order of proofs, failures and restarts, makes a record it would refuse to read.
RecordsAreValid ==
    \A r \in {disk, record, other.rec} \ {NoRecord} : RecordValid(r)

\* A start that reads the directory makes of it a record that leads to a restore.
Recovers(main, kept) ==
    IF kept.kind = "none" THEN NeedsRestore(main)
    ELSE /\ kept.kind = "temp" /\ SameOperation(main, kept.rec)
         /\ \E r \in {main, kept.rec} \ {NoRecord} : EvidenceMayRequireRestore(r)

\* A valve may be left with the challenge target only while the journal says so (write-ahead of
\* #commit).  Whatever a crash at this moment leaves, the main file owes the restore; and the
\* files are such that a start which reads them restores, but for a torn temporary file, beside
\* which every start refuses and restores nothing.  A core that refused them keeps its
\* remediation, and takes no request that would write over the debt.
DebtIsDurable ==
    device = "challenge" =>
        /\ \A found \in AfterCrash :
              /\ NeedsRestore(found[1])
              /\ Recovers(found[1], found[2]) \/ found[2].kind = "torn"
        /\ record = NoRecord /\ task.at # "load" => core.rem

\* The invariant of a run: what is stored, and what it promises about the valve.
ProbeInvariant == ProbeTypeOK /\ RecordsAreValid /\ DebtIsDurable

\* No challenged valve is forgotten: until a restore was tried there is a timer, or the task
\* a full queue asked for; and an orderly stop does not end before one was tried.
ChallengeIsWatched ==
    device = "challenge" /\ ~attempted =>
        /\ task = Rest /\ record # NoRecord /\ ~core.stopping => timer \/ core.over = "queued"
        /\ task = Gone => record = NoRecord
=============================================================================
