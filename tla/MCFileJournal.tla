---------------------------- MODULE MCFileJournal ----------------------------
(* Two processes with a file store each, in three studies: errors, crashes and *)
(* power cuts; the promise of a durable register over more documents; and      *)
(* forks and the closing of a store, under fairness.                           *)
EXTENDS FileJournal, TLC

VARIABLE study

mcVars == <<fileVars, study>>

\* The bounds of each study
Bound ==
    [power    |-> [docs |-> 2, mishaps |-> 3],
     register |-> [docs |-> 3, mishaps |-> 2],
     close    |-> [docs |-> 1, mishaps |-> 1]]

Within ==
    /\ nextDoc + Cardinality(QueuedSaves) <= Bound[study].docs + 1
    /\ mishaps <= Bound[study].mishaps

MCInit == FileInit /\ study \in DOMAIN Bound
MCNext == FileNext /\ UNCHANGED study /\ Within'

\* The fairness of FairFileSpec, in the study that is about it
MCSpec ==
    /\ MCInit /\ [][MCNext]_mcVars
    /\ \A p \in Stores : WF_mcVars(study = "close" /\ Work(p) /\ UNCHANGED study)

\* In the study of closing: async_close lets the journal's lock go in the end.
ClosingEnds == study = "close" => CloseReleasesTheLock
=============================================================================
