--------------------------- MODULE MCJournalStore ---------------------------
(* JournalStore on two journals, with request ids and digests that are reused *)
(* across saves, a receipt window of two and the generation limit in reach.   *)
EXTENDS JournalStore, TLC

MCSymmetry == Permutations(JournalId) \cup Permutations(RequestId)
              \cup Permutations(Payload) \cup Permutations(Digest)
=============================================================================
