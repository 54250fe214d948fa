------------------------- MODULE MCMigrationJournal -------------------------
(* The journal adapter in three studies: one adapter that carries one plan    *)
(* through attempts that are restored and retried up to its completion; one   *)
(* whose store fails, or that crashes, on the way to the second attempt; and  *)
(* two adapters, one beside or after the other, with more faults and a plan   *)
(* that changes nothing.                                                      *)
EXTENDS MigrationJournal

CONSTANTS m1, m2, d1, a1, a2

MCChanged == [p \in {m1, m2} |-> IF p = m1 THEN {d1} ELSE {}]

VARIABLE study

mcVars == <<journalVars, study>>

\* The bounds of each study
Bound ==
    [content |-> [adapters |-> {a1},     plans |-> {m1},     changes |-> 13, attempts |-> 2, faults |-> 0],
     failing |-> [adapters |-> {a1},     plans |-> {m1},     changes |-> 11, attempts |-> 2, faults |-> 1],
     owners  |-> [adapters |-> {a1, a2}, plans |-> {m1, m2}, changes |-> 2,  attempts |-> 1, faults |-> 2]]

Within ==
    LET b == Bound[study]
    IN  /\ faults <= b.faults
        /\ \A a \in Adapters \ b.adapters : adapter[a] = Closed
        /\ \A a \in b.adapters :
              LET next == adapter[a].next
              IN  /\ next.gen <= b.changes
                  /\ \A p \in Plans \ b.plans : next.content[p] = NewEntry
                  /\ \A p \in b.plans : Len(next.content[p].attempts) <= b.attempts

MCInit == JournalInit /\ study \in DOMAIN Bound
MCNext == JournalNext /\ UNCHANGED study /\ Within'
MCSpec == MCInit /\ [][MCNext]_mcVars
=============================================================================
