--------------------------- MODULE MigrationLedger ---------------------------
(***************************************************************************)
(* What the journal of the reference migration promises whoever reads it   *)
(* after a crash, without adapters, saves or codecs: one entry at a time   *)
(* changes, and an entry is a history.  Its plan is bound once; originals  *)
(* are only ever added, and only while the plan is applied; an attempt is  *)
(* begun after the previous one was restored and is then left alone; a     *)
(* completion rests on every original and on a committed attempt; what is  *)
(* complete is never anything else again, and blocked work is left only    *)
(* for failure, once nothing of it is left in the providers.               *)
(***************************************************************************)
EXTENDS Integers, Sequences

CONSTANTS
    Plans,     \* migration plans
    Writes(_), \* the documents a plan changes
    NoBinding  \* the plan is not bound yet

VARIABLE
    ledger \* [Plans -> [state, plan, originals, completion, attempts]]

NewEntry == [state |-> "none", plan |-> NoBinding, originals |-> {},
             completion |-> NoBinding, attempts |-> <<>>]

LastState(e) == IF e.attempts = <<>> THEN "none" ELSE e.attempts[Len(e.attempts)].state

Settled(e) == LastState(e) \in {"none", "restored"}

BindsOnce(old, new) ==
    /\ old.plan # NoBinding => new.plan = old.plan
    /\ old.completion # NoBinding => new.completion = old.completion

KeepsOriginals(old, new) ==
    /\ old.originals \subseteq new.originals
    /\ new.originals # old.originals => old.state = "applying" /\ new.plan # NoBinding

KeepsAttempts(old, new) ==
    LET n == Len(old.attempts)
    IN  /\ Len(new.attempts) \in n .. n + 1
        /\ Len(new.attempts) > n => Settled(old) /\ old.state = "applying"
        /\ \A i \in 1 .. n :
            old.attempts[i] # new.attempts[i] =>
                i = n /\ old.attempts[i].state \in {"open", "blocked"}

CompletionEarned(p, old, new) ==
    new.completion # old.completion =>
        /\ new.completion = new.plan /\ new.originals = Writes(p)
        /\ LastState(new) = IF Writes(p) = {} THEN "none" ELSE "committed"

StateMoves(old, new) ==
    new.state # old.state =>
        /\ old.state # "complete"
        /\ new.state = "complete" => new.completion # NoBinding
        /\ old.state = "blocked" => new.state = "failed" /\ Settled(old)
        /\ new.state \in {"planned", "failed"} => Settled(new)

EntryStep(p, old, new) ==
    /\ BindsOnce(old, new) /\ KeepsOriginals(old, new) /\ KeepsAttempts(old, new)
    /\ CompletionEarned(p, old, new) /\ StateMoves(old, new)

LedgerInit == ledger = [p \in Plans |-> NewEntry]

LedgerNext ==
    \E p \in Plans :
        /\ EntryStep(p, ledger[p], ledger'[p])
        /\ \A q \in Plans \ {p} : ledger'[q] = ledger[q]

LedgerSpec == LedgerInit /\ [][LedgerNext]_ledger
=============================================================================
