------------------------- MODULE RemoteJournalProofs -------------------------
(***************************************************************************)
(* Proofs about the journal of the companion App.  The first part is about *)
(* JournalStore, for any set of journals, payloads, requests and digests,  *)
(* any generation limit and any receipt window.  The second part is about  *)
(* the whole path from the clients to the store: the promises of the       *)
(* compare-and-swap journal for any clients and payloads, any limits of    *)
(* the App, and any number of requests, restarts and lost replies.         *)
(***************************************************************************)
EXTENDS RemoteJournal, TLAPS

-----------------------------------------------------------------------------
(* The store. *)

\* The inductive invariant.  DurableRowsValid alone is inductive over the rows;
\* the other conjuncts connect the rows to the history of commits.
StoreInv ==
    /\ StoreTypeOK
    /\ StartupAccepts
    /\ CommitsFormAChain
    /\ ReceiptsTellTheLog

-----------------------------------------------------------------------------
(* The operators of a save. *)

\* What the outcome "committed" of _save_sync tells about the tables: every
\* check of the transaction passed.
LEMMA CommittedPassedTheChecks ==
    ASSUME NEW q, SaveOutcome(q) = "committed"
    PROVE  /\ ReceiptsWith(q.id) = {}
           /\ ~StaleGeneration(q)
           /\ ~StaleRevision(q)
           /\ ~IndexViolation(q)
  BY DEF SaveOutcome

\* The receipt window moves forward with the generation, ends at it, and is one
\* generation wide at least: the DELETE of a save never removes its own receipt.
LEMMA WindowMoves ==
    ASSUME NEW g \in Nat
    PROVE  /\ FirstRetained(g) \in 0 .. g
           /\ FirstRetained(0) = 0
           /\ FirstRetained(g) <= FirstRetained(g + 1)
           /\ FirstRetained(g + 1) <= g + 1
  BY StoreConstants DEF FirstRetained

\* The tables and the log after a save are well typed.
LEMMA NewRowType ==
    ASSUME NEW q \in SaveRequest
    PROVE  /\ NewRow(q) \in Row
           /\ NewReceipt(q) \in Receipt
           /\ q.root \in Root
           /\ q.journal \in JournalId
           /\ q.root.journal = q.journal
           /\ q.root.generation \in Generation
  BY DEF SaveRequest, NewRow, NewReceipt, Row, Receipt, Root, Revision, RevisionOf,
         Token, CommitToken

\* A save that commits moves its journal to the next generation, starting at 0.
LEMMA CommitsTheNextGeneration ==
    ASSUME StoreTypeOK, NEW q \in SaveRequest, SaveOutcome(q) = "committed"
    PROVE  q.root.generation = IF journals[q.journal] = None THEN 0
                               ELSE journals[q.journal].generation + 1
  BY CommittedPassedTheChecks DEF StaleGeneration

-----------------------------------------------------------------------------
(* A save preserves the invariant. *)

\* The facts every part of the preservation proof uses: how the committed save
\* relates to the rows before it, and which receipts remain.
LEMMA SaveFacts ==
    ASSUME StoreInv, NEW q \in SaveRequest, SaveSync(q)
    PROVE  /\ q.root.generation \in Nat
           /\ q.journal \in JournalId
           /\ journals' = [journals EXCEPT ![q.journal] = NewRow(q)]
           /\ log' = [log EXCEPT ![q.journal] = Append(@, q)]
           /\ NewReceipt(q) \in receipts'
           /\ \A rc \in receipts' \ {NewReceipt(q)} :
                  /\ rc \in receipts
                  /\ rc.journal = q.journal =>
                         rc.generation >= FirstRetained(q.root.generation)
           /\ \A rc \in receipts :
                  (rc.journal # q.journal \/ rc.generation >= FirstRetained(q.root.generation))
                      => rc \in receipts'
           /\ \A rc \in receipts : rc.journal = q.journal =>
                  rc.generation < q.root.generation
           /\ \A rc \in receipts : rc.id # q.id
  <1>1. /\ q.root.generation \in Generation
        /\ q.journal \in JournalId
    BY NewRowType
  <1>2. /\ SaveOutcome(q) = "committed"
        /\ journals' = [journals EXCEPT ![q.journal] = NewRow(q)]
        /\ receipts' = (receipts \ Expired(q)) \cup {NewReceipt(q)}
        /\ log' = [log EXCEPT ![q.journal] = Append(@, q)]
    BY DEF SaveSync
  <1>3. StoreTypeOK /\ DurableRowsValid
    BY DEF StoreInv, StartupAccepts
  <1>4. ReceiptsWith(q.id) = {}
    BY <1>2, CommittedPassedTheChecks
  <1>5. ASSUME NEW rc \in receipts, rc.journal = q.journal
        PROVE  rc.generation < q.root.generation
    <2>1. /\ journals[q.journal] # None
          /\ rc.generation <= journals[q.journal].generation
      BY <1>3, <1>5 DEF DurableRowsValid, RelatesTo
    <2>2. q.root.generation = journals[q.journal].generation + 1
      BY <1>2, <1>3, <2>1, CommitsTheNextGeneration
    <2>3. rc.generation \in Nat /\ journals[q.journal].generation \in Nat
      <3>1. journals[q.journal] \in Row
        BY <1>1, <1>3, <2>1 DEF StoreTypeOK
      <3>2. QED
        BY <1>3, <3>1 DEF StoreTypeOK, Row, Receipt, Generation
    <2>4. QED
      BY <2>1, <2>2, <2>3
  <1>6. \A rc \in receipts : rc.generation \in Nat
    BY <1>3 DEF StoreTypeOK, Receipt, Generation
  <1>7. FirstRetained(q.root.generation) \in Nat
    BY <1>1, WindowMoves DEF Generation
  <1>8. \A rc \in receipts : rc.id # q.id
    BY <1>4 DEF ReceiptsWith
  <1>9. \A rc \in receipts : rc \in Expired(q) <=>
            rc.journal = q.journal /\ rc.generation < FirstRetained(q.root.generation)
    BY DEF Expired
  <1>10. QED
    BY <1>1, <1>2, <1>5, <1>6, <1>7, <1>8, <1>9 DEF Generation

\* A committed save leaves both tables and the log well typed.
LEMMA SaveKeepsTypes ==
    ASSUME StoreInv, NEW q \in SaveRequest, SaveSync(q)
    PROVE  StoreTypeOK'
  <1>1. StoreTypeOK
    BY DEF StoreInv
  <1>2. /\ q.journal \in JournalId
        /\ NewRow(q) \in Row
        /\ NewReceipt(q) \in Receipt
    BY NewRowType
  <1>3. journals' \in [JournalId -> Row \cup {None}]
    BY <1>1, <1>2 DEF StoreTypeOK, SaveSync
  <1>4. receipts' \subseteq Receipt
    BY <1>1, <1>2 DEF StoreTypeOK, SaveSync
  <1>5. log' \in [JournalId -> Seq(SaveRequest)]
    BY <1>1, <1>2 DEF StoreTypeOK, SaveSync
  <1>6. db' = db
    BY DEF SaveSync
  <1>7. QED
    BY <1>1, <1>3, <1>4, <1>5, <1>6 DEF StoreTypeOK

\* A committed save, with its DELETE of expired receipts, leaves rows that
\* _validate_durable_rows accepts: the receipts are exactly the window's.
LEMMA SaveKeepsRowsValid ==
    ASSUME StoreInv, NEW q \in SaveRequest, SaveSync(q)
    PROVE  DurableRowsValid'
  <1> DEFINE g == q.root.generation
             j == q.journal
  <1>1. StoreTypeOK /\ DurableRowsValid
    BY DEF StoreInv, StartupAccepts
  <1>2. j \in JournalId /\ g \in Nat /\ NewRow(q) \in Row /\ NewReceipt(q) \in Receipt
    BY NewRowType DEF Generation
  <1>3. journals'[j] = NewRow(q) /\ NewRow(q) # None
    BY <1>1, <1>2, StoreConstants DEF StoreTypeOK, SaveSync
  <1>4. \A k \in JournalId : k # j => journals'[k] = journals[k]
    BY <1>1, <1>2, SaveFacts DEF StoreTypeOK
  <1>5. NewRow(q).generation = g /\ NewReceipt(q).generation = g /\ NewReceipt(q).journal = j
    BY DEF NewRow, NewReceipt
  <1>6. \A k \in JournalId : journals[k] # None =>
            journals[k] \in Row /\ journals[k].generation \in Nat
    BY <1>1 DEF StoreTypeOK, Row, Generation
  <1>7. \A rc \in receipts : rc.journal \in JournalId /\ rc.generation \in Nat
    BY <1>1 DEF StoreTypeOK, Receipt, Generation
  <1>8. RowDecodes(j)'
    BY <1>3, NewRowType DEF RowDecodes, NewRow
  <1>9. SuffixContiguous(j)'
    <2>1. \A r1, r2 \in ReceiptsOf(j)' : r1.generation = r2.generation => r1 = r2
      <3> SUFFICES ASSUME NEW r1 \in receipts', NEW r2 \in receipts',
                          r1.journal = j, r2.journal = j, r1.generation = r2.generation
                   PROVE  r1 = r2
        BY DEF ReceiptsOf
      <3>1. CASE r1 = NewReceipt(q) \/ r2 = NewReceipt(q)
        BY <1>2, <1>5, <1>7, <3>1, SaveFacts
      <3>2. CASE r1 # NewReceipt(q) /\ r2 # NewReceipt(q)
        <4>1. r1 \in receipts /\ r2 \in receipts
          BY <3>2, SaveFacts
        <4>2. journals[j] # None
          BY <1>1, <4>1 DEF DurableRowsValid
        <4>3. QED
          BY <1>1, <1>2, <4>1, <4>2 DEF DurableRowsValid, SuffixContiguous, ReceiptsOf
      <3>3. QED
        BY <3>1, <3>2
    <2>2. \A rc \in ReceiptsOf(j)' : rc.generation \in FirstRetained(g) .. g
      <3> SUFFICES ASSUME NEW rc \in receipts', rc.journal = j
                   PROVE  rc.generation \in FirstRetained(g) .. g
        BY DEF ReceiptsOf
      <3>1. FirstRetained(g) \in 0 .. g
        BY <1>2, WindowMoves
      <3>2. CASE rc = NewReceipt(q)
        BY <1>2, <1>5, <3>1, <3>2
      <3>3. CASE rc # NewReceipt(q)
        BY <1>2, <1>7, <3>1, <3>3, SaveFacts
      <3>4. QED
        BY <3>2, <3>3
    <2>3. ASSUME NEW n \in FirstRetained(g) .. g
          PROVE  \E rc \in ReceiptsOf(j)' : rc.generation = n
      <3>1. CASE n = g
        BY <1>5, <3>1, SaveFacts DEF ReceiptsOf
      <3>2. CASE n # g
        <4> HIDE DEF g
        <4>0. FirstRetained(g) \in 0 .. g
          BY <1>2, WindowMoves
        <4>1. FirstRetained(g) \in 0 .. g /\ n \in Nat /\ n < g
          BY <1>2, <3>2, <4>0
        <4> USE DEF g
        <4>2. journals[j] # None /\ g = journals[j].generation + 1
          BY <1>1, <1>2, <4>1, CommitsTheNextGeneration DEF SaveSync
        <4>3. FirstRetained(journals[j].generation) <= FirstRetained(g)
          BY <1>2, <1>6, <4>2, WindowMoves
        <4>4. FirstRetained(journals[j].generation) \in Nat
          BY <1>2, <1>6, <4>2, WindowMoves
        <4>5. n \in FirstRetained(journals[j].generation) .. journals[j].generation
          BY <1>2, <1>6, <4>1, <4>2, <4>3, <4>4
        <4>6. PICK rc \in ReceiptsOf(j) : rc.generation = n
          BY <1>1, <1>2, <4>2, <4>5 DEF DurableRowsValid, SuffixContiguous
        <4>7. rc \in receipts' /\ rc.journal = j
          BY <4>6, SaveFacts DEF ReceiptsOf
        <4>8. QED
          BY <4>6, <4>7 DEF ReceiptsOf
      <3>3. QED
        BY <3>1, <3>2
    <2>4. {rc.generation : rc \in ReceiptsOf(j)'} = FirstRetained(g) .. g
      BY <2>2, <2>3
    <2>5. (journals'[j]).generation = g
      BY <1>3, <1>5
    <2>6. QED
      BY <2>1, <2>4, <2>5 DEF SuffixContiguous, FirstRetained
  <1>10. ASSUME NEW k \in JournalId, k # j, journals'[k] # None
         PROVE  RowDecodes(k)' /\ SuffixContiguous(k)'
    <2>1. journals'[k] = journals[k]
      BY <1>4, <1>10
    <2>2. ReceiptsOf(k)' = ReceiptsOf(k)
      BY <1>5, <1>10, SaveFacts DEF ReceiptsOf
    <2>3. RowDecodes(k) /\ SuffixContiguous(k)
      BY <1>1, <1>10, <2>1 DEF DurableRowsValid
    <2>4. QED
      BY <2>1, <2>2, <2>3 DEF RowDecodes, SuffixContiguous, FirstRetained
  <1>11. ASSUME NEW rc \in receipts'
         PROVE  /\ ReceiptDecodes(rc)
                /\ journals'[rc.journal] # None
                /\ RelatesTo(rc, journals'[rc.journal])
    <2>1. CASE rc = NewReceipt(q)
      BY <1>2, <1>3, <2>1 DEF ReceiptDecodes, RelatesTo, NewReceipt, NewRow
    <2>2. CASE rc # NewReceipt(q) /\ rc.journal = j
      <3>1. rc \in receipts /\ rc.generation < g
        BY <2>2, SaveFacts
      <3>2. ReceiptDecodes(rc)
        BY <1>1, <3>1 DEF DurableRowsValid
      <3>3. RelatesTo(rc, NewRow(q))
        BY <1>2, <1>5, <1>7, <3>1 DEF RelatesTo
      <3>4. QED
        BY <1>3, <2>2, <3>2, <3>3
    <2>3. CASE rc # NewReceipt(q) /\ rc.journal # j
      <3>1. rc \in receipts
        BY <2>3, SaveFacts
      <3>2. journals'[rc.journal] = journals[rc.journal]
        BY <1>4, <1>7, <2>3, <3>1
      <3>3. QED
        BY <1>1, <3>1, <3>2 DEF DurableRowsValid
    <2>4. QED
      BY <2>1, <2>2, <2>3
  <1>12. \A k \in JournalId : journals'[k] # None => RowDecodes(k)' /\ SuffixContiguous(k)'
    BY <1>8, <1>9, <1>10
  <1>13. QED
    BY <1>11, <1>12 DEF DurableRowsValid, ReceiptDecodes, RelatesTo

\* A committed save extends the chain of commits of its own journal and no other.
LEMMA SaveKeepsChain ==
    ASSUME StoreInv, NEW q \in SaveRequest, SaveSync(q)
    PROVE  CommitsFormAChain'
  <1> DEFINE j == q.journal
             n == Len(log[j])
  <1>1. StoreTypeOK /\ CommitsFormAChain
    BY DEF StoreInv
  <1>2. j \in JournalId /\ q.root.generation \in Nat
    BY NewRowType DEF Generation
  <1>3. log[j] \in Seq(SaveRequest) /\ n \in Nat
    BY <1>1, <1>2 DEF StoreTypeOK
  <1>4. log'[j] = Append(log[j], q) /\ journals'[j] = NewRow(q)
    BY <1>1, <1>2 DEF StoreTypeOK, SaveSync
  <1>5. \A k \in JournalId : k # j => log'[k] = log[k] /\ journals'[k] = journals[k]
    BY <1>1, <1>2, SaveFacts DEF StoreTypeOK
  <1>6. /\ q.root.generation = n
        /\ q.expected = IF n = 0 THEN None ELSE RevisionOf(log[j][n].root)
    <2>1. q.expected = CurrentRevision(j)
      BY CommittedPassedTheChecks DEF SaveSync, StaleRevision
    <2>2. CASE n = 0
      <3>1. journals[j] = None
        BY <1>1, <1>2, <1>3, <2>2 DEF CommitsFormAChain
      <3>2. QED
        BY <1>1, <2>1, <2>2, <3>1, CommitsTheNextGeneration DEF SaveSync, CurrentRevision
    <2>3. CASE n # 0
      <3>1. journals[j] = NewRow(log[j][n]) /\ log[j][n].root.generation = n - 1
        BY <1>1, <1>2, <1>3, <2>3 DEF CommitsFormAChain
      <3>2. log[j][n] \in SaveRequest
        BY <1>3, <2>3
      <3>3. journals[j] # None
        BY <3>1, <3>2, NewRowType, StoreConstants
      <3>4. journals[j].generation = n - 1
        BY <3>1 DEF NewRow
      <3>5. q.root.generation = n
        BY <1>1, <1>3, <3>3, <3>4, CommitsTheNextGeneration DEF SaveSync
      <3>6. q.expected = RevisionOf(log[j][n].root)
        BY <2>1, <3>1, <3>3 DEF CurrentRevision, NewRow
      <3>7. QED
        BY <2>3, <3>5, <3>6
    <2>4. QED
      BY <2>2, <2>3
  <1>7. /\ Len(log'[j]) = n + 1
        /\ log'[j][n + 1] = q
        /\ \A i \in 1 .. n : log'[j][i] = log[j][i]
    BY <1>3, <1>4
  <1>8. /\ log'[j] # <<>>
        /\ journals'[j] = NewRow(log'[j][Len(log'[j])])
    BY <1>3, <1>4, <1>7
  <1>9. ASSUME NEW i \in 1 .. n + 1
        PROVE  /\ log'[j][i].journal = j
               /\ log'[j][i].root.generation = i - 1
               /\ log'[j][i].expected =
                      IF i = 1 THEN None ELSE RevisionOf(log'[j][i - 1].root)
    <2>1. CASE i = n + 1
      <3>1. n # 0 => log'[j][n] = log[j][n]
        BY <1>3, <1>7
      <3>2. QED
        BY <1>3, <1>6, <1>7, <2>1, <3>1
    <2>2. CASE i # n + 1
      <3>1. i \in 1 .. n /\ (i # 1 => i - 1 \in 1 .. n)
        BY <1>3, <2>2
      <3>2. /\ log[j][i].journal = j
            /\ log[j][i].root.generation = i - 1
            /\ log[j][i].expected = IF i = 1 THEN None ELSE RevisionOf(log[j][i - 1].root)
        BY <1>1, <1>2, <3>1 DEF CommitsFormAChain
      <3>3. QED
        BY <1>7, <3>1, <3>2
    <2>3. QED
      BY <2>1, <2>2
  <1>10. QED
    <2> SUFFICES ASSUME NEW k \in JournalId
                 PROVE  /\ IF log'[k] = <<>>
                           THEN journals'[k] = None
                           ELSE journals'[k] = NewRow(log'[k][Len(log'[k])])
                        /\ \A i \in 1 .. Len(log'[k]) :
                               /\ log'[k][i].journal = k
                               /\ log'[k][i].root.generation = i - 1
                               /\ log'[k][i].expected =
                                      IF i = 1 THEN None ELSE RevisionOf(log'[k][i - 1].root)
      BY DEF CommitsFormAChain, NewRow, RevisionOf, CommitToken
    <2>1. CASE k = j
      BY <1>7, <1>8, <1>9, <2>1
    <2>2. CASE k # j
      BY <1>1, <1>5, <2>2 DEF CommitsFormAChain
    <2>3. QED
      BY <2>1, <2>2

\* The receipt a save inserts tells the commit it appends to the log, and the
\* receipts it leaves alone still tell theirs.
LEMMA SaveKeepsReceiptsTold ==
    ASSUME StoreInv, NEW q \in SaveRequest, SaveSync(q)
    PROVE  ReceiptsTellTheLog'
  <1> DEFINE j == q.journal
             n == Len(log[j])
  <1>1. StoreTypeOK /\ ReceiptsTellTheLog /\ CommitsFormAChain'
    BY SaveKeepsChain DEF StoreInv
  <1>2. j \in JournalId /\ q.root.generation \in Nat
    BY NewRowType DEF Generation
  <1>3. log[j] \in Seq(SaveRequest) /\ n \in Nat
    BY <1>1, <1>2 DEF StoreTypeOK
  <1>4. log'[j] = Append(log[j], q)
    BY <1>1, <1>2 DEF StoreTypeOK, SaveSync
  <1>5. /\ Len(log'[j]) = n + 1
        /\ log'[j][n + 1] = q
        /\ \A i \in 1 .. n : log'[j][i] = log[j][i]
    BY <1>3, <1>4
  <1>6. \A k \in JournalId : k # j => log'[k] = log[k]
    BY <1>1, <1>2, SaveFacts DEF StoreTypeOK
  <1>7. q.root.generation = n
    <2>1. n + 1 \in 1 .. Len(log'[j])
      BY <1>3, <1>5
    <2>2. log'[j][n + 1].root.generation = (n + 1) - 1
      BY <1>1, <1>2, <2>1 DEF CommitsFormAChain
    <2>3. QED
      BY <1>3, <1>5, <2>2
  <1>8. ASSUME NEW rc \in receipts'
        PROVE  /\ rc.generation + 1 \in 1 .. Len(log'[rc.journal])
               /\ rc = NewReceipt(log'[rc.journal][rc.generation + 1])
    <2>1. CASE rc = NewReceipt(q)
      <3>1. rc.journal = j /\ rc.generation = n
        BY <1>7, <2>1 DEF NewReceipt
      <3>2. QED
        BY <1>3, <1>5, <2>1, <3>1
    <2>2. CASE rc # NewReceipt(q)
      <3>1. rc \in receipts
        BY <2>2, SaveFacts
      <3>2. /\ rc.generation + 1 \in 1 .. Len(log[rc.journal])
            /\ rc = NewReceipt(log[rc.journal][rc.generation + 1])
            /\ rc.journal \in JournalId
        BY <1>1, <3>1 DEF ReceiptsTellTheLog, StoreTypeOK, Receipt
      <3>3. CASE rc.journal = j
        <4>1. rc.generation + 1 \in 1 .. n
          BY <3>2, <3>3
        <4>2. rc.generation + 1 \in 1 .. n + 1
          BY <1>3, <4>1
        <4>3. log'[j][rc.generation + 1] = log[j][rc.generation + 1]
          BY <1>5, <4>1
        <4>4. QED
          BY <1>5, <3>2, <3>3, <4>2, <4>3
      <3>4. CASE rc.journal # j
        BY <1>6, <3>2, <3>4
      <3>5. QED
        BY <3>3, <3>4
    <2>3. QED
      BY <2>1, <2>2
  <1>9. ASSUME NEW r1 \in receipts', NEW r2 \in receipts', r1.id = r2.id
        PROVE  r1 = r2
    <2>1. NewReceipt(q).id = q.id
      BY DEF NewReceipt
    <2>2. CASE r1 = NewReceipt(q) \/ r2 = NewReceipt(q)
      BY <1>9, <2>1, <2>2, SaveFacts
    <2>3. CASE r1 # NewReceipt(q) /\ r2 # NewReceipt(q)
      <3>1. r1 \in receipts /\ r2 \in receipts
        BY <2>3, SaveFacts
      <3>2. QED
        BY <1>1, <1>9, <3>1 DEF ReceiptsTellTheLog
    <2>4. QED
      BY <2>2, <2>3
  <1>10. QED
    BY <1>8, <1>9 DEF ReceiptsTellTheLog, NewReceipt, RevisionOf, CommitToken

-----------------------------------------------------------------------------
(* The invariant. *)

\* The empty database that executescript creates satisfies the invariant.
LEMMA InitEstablishes == StoreInit => StoreInv
  <1> SUFFICES ASSUME StoreInit
               PROVE  StoreInv
    OBVIOUS
  <1>1. StoreTypeOK
    BY DEF StoreInit, StoreTypeOK
  <1>2. StartupAccepts
    BY DEF StoreInit, StartupAccepts, DurableRowsValid
  <1>3. CommitsFormAChain
    BY DEF StoreInit, CommitsFormAChain
  <1>4. ReceiptsTellTheLog
    BY DEF StoreInit, ReceiptsTellTheLog
  <1>5. QED
    BY <1>1, <1>2, <1>3, <1>4 DEF StoreInv

\* Saving, opening and closing preserve the invariant.
LEMMA StepPreserves == StoreInv /\ [StoreNext]_storeVars => StoreInv'
  <1> SUFFICES ASSUME StoreInv, [StoreNext]_storeVars
               PROVE  StoreInv'
    OBVIOUS
  <1>1. ASSUME UNCHANGED <<journals, receipts, log>>, db' \in {"closed", "open"}
        PROVE  StoreInv'
    BY <1>1 DEF StoreInv, StoreTypeOK, StartupAccepts, DurableRowsValid, RowDecodes,
                SuffixContiguous, ReceiptsOf, ReceiptDecodes, RelatesTo,
                CommitsFormAChain, ReceiptsTellTheLog
  <1>2. CASE OpenSync
    <2>1. db' = "open"
      BY <1>2 DEF OpenSync, StoreInv, StartupAccepts
    <2>2. QED
      BY <1>1, <1>2, <2>1 DEF OpenSync
  <1>3. CASE CloseSync
    BY <1>1, <1>3 DEF CloseSync
  <1>4. ASSUME NEW q \in SaveRequest, SaveSync(q)
        PROVE  StoreInv'
    <2>1. StoreTypeOK'
      BY <1>4, SaveKeepsTypes
    <2>2. CommitsFormAChain' /\ ReceiptsTellTheLog'
      BY <1>4, SaveKeepsChain, SaveKeepsReceiptsTold
    <2>3. DurableRowsValid' /\ db' = "open"
      BY <1>4, SaveKeepsRowsValid DEF SaveSync
    <2>4. QED
      BY <2>1, <2>2, <2>3 DEF StoreInv, StartupAccepts
  <1>5. CASE UNCHANGED storeVars
    <2>1. db \in {"closed", "open"}
      BY DEF StoreInv, StoreTypeOK, StartupAccepts
    <2>2. QED
      BY <1>1, <1>5, <2>1 DEF storeVars
  <1>6. QED
    BY <1>2, <1>3, <1>4, <1>5 DEF StoreNext

\* The four inductive properties of SQLiteJournalStore hold of every database
\* the App can have written.
THEOREM StoreInvariant == StoreSpec => []StoreInv
  BY InitEstablishes, StepPreserves, PTL DEF StoreSpec

\* Type correctness of the two tables (journals, operation_receipts).
THEOREM StoreTypes == StoreSpec => []StoreTypeOK
  <1>1. StoreInv => StoreTypeOK
    BY DEF StoreInv
  <1>2. QED
    BY <1>1, StoreInvariant, PTL

\* _validate_durable_rows never refuses the App's own database, whatever the
\* receipt window and wherever between two saves the App was stopped.
THEOREM StartupNeverRefuses == StoreSpec => []StartupAccepts
  <1>1. StoreInv => StartupAccepts
    BY DEF StoreInv
  <1>2. QED
    BY <1>1, StoreInvariant, PTL

\* The saves of a journal are one compare-and-swap chain and none is lost.
THEOREM OneChain == StoreSpec => []CommitsFormAChain
  <1>1. StoreInv => CommitsFormAChain
    BY DEF StoreInv
  <1>2. QED
    BY <1>1, StoreInvariant, PTL

\* A receipt tells what was committed under its request id.
THEOREM ReceiptsAreTrue == StoreSpec => []ReceiptsTellTheLog
  <1>1. StoreInv => ReceiptsTellTheLog
    BY DEF StoreInv
  <1>2. QED
    BY <1>1, StoreInvariant, PTL

-----------------------------------------------------------------------------
(* What follows from the invariant. *)

\* A committed save, and where it stands in its journal.
LEMMA CommittedSave ==
    ASSUME StoreInv, NEW j \in JournalId, NEW i \in 1 .. Len(log[j])
    PROVE  /\ log[j][i] \in SaveRequest
           /\ log[j][i].journal = j
           /\ log[j][i].root.generation = i - 1
           /\ Len(log[j]) \in Nat
           /\ journals[j] # None
           /\ journals[j].generation = Len(log[j]) - 1
  <1> DEFINE n == Len(log[j])
  <1>1. StoreTypeOK /\ CommitsFormAChain
    BY DEF StoreInv
  <1>2. log[j] \in Seq(SaveRequest) /\ n \in Nat /\ n # 0
    BY <1>1 DEF StoreTypeOK
  <1>3. log[j][i] \in SaveRequest /\ log[j][n] \in SaveRequest
    BY <1>2
  <1>4. journals[j] = NewRow(log[j][n]) /\ log[j][n].root.generation = n - 1
    BY <1>1, <1>2 DEF CommitsFormAChain
  <1>5. journals[j] # None
    BY <1>3, <1>4, NewRowType, StoreConstants
  <1>6. journals[j].generation = n - 1
    BY <1>4 DEF NewRow
  <1>7. log[j][i].journal = j /\ log[j][i].root.generation = i - 1
    BY <1>1 DEF CommitsFormAChain
  <1>8. QED
    BY <1>2, <1>3, <1>5, <1>6, <1>7

\* The generation a committed save used is behind its journal for ever, so the
\* checks of _save_sync cannot pass for it again.
LEMMA NoCommittedSaveCommitsAgain == StoreInv => NoDoubleCommit
  <1> SUFFICES ASSUME StoreInv, NEW j \in JournalId, NEW i \in 1 .. Len(log[j]),
                      SaveOutcome(log[j][i]) = "committed"
               PROVE  FALSE
    BY DEF NoDoubleCommit
  <1>1. ~StaleGeneration(log[j][i])
    BY CommittedPassedTheChecks
  <1>2. QED
    BY <1>1, CommittedSave DEF StaleGeneration

\* A save whose receipt has been expired, or whose request id is reused, is
\* refused; it is never committed twice.
THEOREM NeverCommittedTwice == StoreSpec => []NoDoubleCommit
  BY NoCommittedSaveCommitsAgain, StoreInvariant, PTL

\* Inside the window the receipt of a commit is found by its request id and
\* agrees with the request in every compared column.
LEMMA RetainedReplay == StoreInv => RetainedSavesReplay
  <1> SUFFICES ASSUME StoreInv, NEW j \in JournalId, NEW i \in 1 .. Len(log[j]),
                      i > Len(log[j]) - MaxReceipts
               PROVE  /\ SaveOutcome(log[j][i]) = "replayed"
                      /\ BarrierHolds(j, CommitToken(log[j][i].id, log[j][i].digest))
    BY DEF RetainedSavesReplay
  <1> DEFINE q == log[j][i]
             g == journals[j].generation
  <1>1. ReceiptsTellTheLog /\ DurableRowsValid
    BY DEF StoreInv, StartupAccepts
  <1>2. /\ q.journal = j
        /\ q.root.generation = i - 1
        /\ journals[j] # None
        /\ g = Len(log[j]) - 1
        /\ Len(log[j]) \in Nat
    BY CommittedSave
  <1>3. i - 1 \in FirstRetained(g) .. g
    BY <1>2, StoreConstants DEF FirstRetained
  <1>4. PICK rc \in ReceiptsOf(j) : rc.generation = i - 1
    <2>1. {rc.generation : rc \in ReceiptsOf(j)} = FirstRetained(g) .. g
      BY <1>1, <1>2 DEF DurableRowsValid, SuffixContiguous
    <2> HIDE DEF g
    <2>2. i - 1 \in {rc.generation : rc \in ReceiptsOf(j)}
      BY <1>3, <2>1
    <2>3. QED
      BY <2>2
  <1>5. rc \in receipts /\ rc.journal = j
    BY <1>4 DEF ReceiptsOf
  <1>6. rc = NewReceipt(q)
    BY <1>1, <1>4, <1>5 DEF ReceiptsTellTheLog
  <1>7. rc.id = q.id /\ rc.digest = q.digest /\ rc.token = CommitToken(q.id, q.digest)
    BY <1>6 DEF NewReceipt
  <1>8. ReceiptsWith(q.id) = {rc}
    BY <1>1, <1>5, <1>7 DEF ReceiptsWith, ReceiptsTellTheLog
  <1>9. RelatesTo(rc, journals[j])
    BY <1>1, <1>5 DEF DurableRowsValid
  <1>10. SaveOutcome(q) = "replayed"
    <2>1. (CHOOSE r \in ReceiptsWith(q.id) : TRUE) = rc
      BY <1>8
    <2>2. QED
      BY <1>2, <1>5, <1>7, <1>8, <1>9, <2>1 DEF SaveOutcome
  <1>11. BarrierHolds(j, CommitToken(q.id, q.digest))
    BY <1>2, <1>5, <1>7, <1>9 DEF BarrierHolds
  <1>12. QED
    BY <1>10, <1>11

\* A save inside the receipt window is replayed from its receipt, and its commit
\* token passes the durability barrier.
THEOREM ReplayAnswersTheCommit == StoreSpec => []RetainedSavesReplay
  BY RetainedReplay, StoreInvariant, PTL

\* A save that passed the revision check brings a fresh generation and revision,
\* so no unique index of the two tables can refuse its rows.
LEMMA IndexesIdle == StoreInv => IndexesNeverFire
  <1> SUFFICES ASSUME StoreInv, NEW q \in SaveRequest, SaveOutcome(q) = "cas_conflict"
               PROVE  FALSE
    BY DEF IndexesNeverFire
  <1>1. StoreTypeOK /\ DurableRowsValid
    BY DEF StoreInv, StartupAccepts
  <1>2. /\ ReceiptsWith(q.id) = {}
        /\ ~StaleGeneration(q)
        /\ IndexViolation(q)
    BY DEF SaveOutcome
  <1>3. \A rc \in receipts : rc.id # q.id
    BY <1>2 DEF ReceiptsWith
  <1>4. ASSUME NEW rc \in receipts
        PROVE  rc.token # CommitToken(q.id, q.digest)
    BY <1>1, <1>3 DEF DurableRowsValid, ReceiptDecodes, CommitToken
  <1>5. ASSUME NEW rc \in receipts, rc.journal = q.journal
        PROVE  rc.generation # q.root.generation
    <2>1. journals[q.journal] # None /\ rc.generation <= journals[q.journal].generation
      BY <1>1, <1>5 DEF DurableRowsValid, RelatesTo
    <2>2. q.root.generation = journals[q.journal].generation + 1
      BY <1>2, <2>1 DEF StaleGeneration
    <2>3. journals[q.journal] \in Row
      BY <1>1, <2>1, NewRowType DEF StoreTypeOK
    <2>4. rc.generation \in Nat /\ journals[q.journal].generation \in Nat
      BY <1>1, <2>3 DEF StoreTypeOK, Row, Receipt, Generation
    <2>5. QED
      BY <2>1, <2>2, <2>4
  <1>6. ASSUME NEW j \in JournalId, journals[j] # None
        PROVE  journals[j].token # CommitToken(q.id, q.digest)
    <2> DEFINE g == journals[j].generation
    <2>1. g \in Nat
      <3>1. journals[j] \in Row
        BY <1>1, <1>6 DEF StoreTypeOK
      <3>2. QED
        BY <3>1 DEF Row, Generation
    <2>2. g \in FirstRetained(g) .. g
      BY <2>1, StoreConstants DEF FirstRetained
    <2>3. PICK rc \in ReceiptsOf(j) : rc.generation = g
      BY <1>1, <1>6, <2>2 DEF DurableRowsValid, SuffixContiguous
    <2>4. rc \in receipts /\ rc.journal = j
      BY <2>3 DEF ReceiptsOf
    <2>5. rc.token = journals[j].token
      BY <1>1, <2>3, <2>4 DEF DurableRowsValid, RelatesTo
    <2>6. QED
      BY <1>4, <2>4, <2>5
  <1>7. QED
    BY <1>2, <1>4, <1>5, <1>6 DEF IndexViolation

\* No save passes the revision check of _save_sync and then fails on one of the
\* unique indexes of the two tables.
THEOREM UniqueIndexesIdle == StoreSpec => []IndexesNeverFire
  BY IndexesIdle, StoreInvariant, PTL

-----------------------------------------------------------------------------
(* What is on its way. *)

Paths   == {"hello", "load", "barrier", "save"}
Bodies  == SaveBody \cup Token \cup {None}
Conns   == Client \X (1 .. MaxPosts)
Digests == {"sha256"} \X Client \X Paths \X Bodies
Ids     == {"tfj"} \X (Digests \cup Conns)
Message == [conn : Conns, client : Client, path : Paths, boot : 1 .. MaxBoot, body : Bodies,
            id : Ids]
Entry   == [id : Ids, path : Paths, digest : Digests]

InFlight == inbox \cup {worker[i] : i \in 1 .. Len(worker)}

\* A body asks for the successor of the empty journal, or of a save that is committed.
Follows(body) ==
    /\ body \in SaveBody
    /\ body.root.generation = 0 => body.expected = None
    /\ body.root.generation # 0 =>
           /\ body.root.generation <= Len(log[Journal])
           /\ body.expected = RevisionOf(log[Journal][body.root.generation].root)

Honest(m) ==
    /\ m \in Message /\ m.conn \in {m.client} \X (1 .. cl[m.client].posts)
    /\ m.path = "save" => Follows(m.body) /\ m.id = SaveRequestId(BodyDigest(m))
    /\ m.path # "save" => m.id = <<"tfj", m.conn>>
    /\ m.boot \in 1 .. boot

\* What was committed, a client asked for.
LogInv ==
    \A i \in 1 .. Len(log[Journal]) :
        \E c \in Client, body \in SaveBody : log[Journal][i] = SaveOfBody(c, body)

\* Every connection carries one request.
Apart ==
    /\ \A m, n \in inbox : m.conn = n.conn => m = n
    /\ \A m \in inbox : \A i \in 1 .. Len(worker) : worker[i].conn # m.conn
    /\ \A i, j \in 1 .. Len(worker) : worker[i].conn = worker[j].conn => i = j

\* A reply is the only one on its connection, no request is on it, and somebody waits.
WireInv ==
    /\ \A m \in InFlight : Honest(m)
    /\ Apart
    /\ \A r \in replies : r.conn \in open /\ \A m \in InFlight : m.conn # r.conn
    /\ \A r1, r2 \in replies : r1.conn = r2.conn => r1 = r2
    /\ \A k \in open : \E c \in Client : cl[c].call # None /\ cl[c].call.conn = k

\* The guard knows a save by its digest, and any other request by its connection.
GuardInv ==
    \A i \in 1 .. Len(guard) :
        \/ guard[i].path = "save" /\ guard[i].id = SaveRequestId(guard[i].digest)
        \/ guard[i].id[2] \in Conns

ProcessInv ==
    /\ proc \in {"down", "serving", "draining", "closing"}
    /\ (proc = "down") = (db # "open")
    /\ boot \in 0 .. MaxBoot /\ published \in 0 .. boot
    /\ guard \in Seq(Entry) /\ Len(guard) <= MaxReplayEntries
    /\ worker \in Seq(Message) /\ Len(worker) <= MaxConnections
    /\ \A i \in 1 .. Len(worker) : worker[i].boot = boot

-----------------------------------------------------------------------------
(* What a client knows. *)

\* A save whose generation another save has: it never enters the journal.
Dead(s) == Len(log[Journal]) >= s.root.generation + 1 /\ ~InLog(s)

Calling(c, ops) == cl[c].call # None /\ cl[c].call.op \in ops

ClientType ==
    [phase : {"new", "opening", "ready", "closing", "closed"}, boot : 0 .. MaxBoot,
     call : Call \cup {None}, posts : 0 .. MaxPosts, snapshot : Root \cup {None},
     saveReady : BOOLEAN, pending : SaveBody \cup {None}, commit : Token \cup {None},
     poisoned : BOOLEAN, ambiguous : BOOLEAN, replay : BOOLEAN]

CallInv(c) ==
    /\ cl[c].phase = "new" => cl[c].call = None
    /\ cl[c].phase # "new" => cl[c].boot \in 1 .. boot
    /\ cl[c].call # None => cl[c].call.conn = <<c, cl[c].posts>> /\ cl[c].posts # 0
    /\ Calling(c, {"hello"}) <=> cl[c].phase = "opening"
    /\ Calling(c, {"hello", "load"}) => ~cl[c].poisoned /\ cl[c].commit = None
    /\ Calling(c, {"save"}) => cl[c].commit = None
    /\ Calling(c, {"barrier"}) => cl[c].commit # None

SnapshotInv(c) ==
    cl[c].snapshot # None =>
        /\ cl[c].snapshot.generation + 1 \in 1 .. Len(log[Journal])
        /\ cl[c].snapshot = log[Journal][cl[c].snapshot.generation + 1].root

\* A save is kept until its barrier, and no other is begun before.
PendingInv(c) ==
    /\ cl[c].phase \in {"new", "opening"} => ~cl[c].poisoned /\ cl[c].commit = None
    /\ ~cl[c].poisoned /\ cl[c].commit = None /\ ~Calling(c, {"save", "replay"})
           => cl[c].pending = None
    /\ cl[c].pending # None =>
           Follows(cl[c].pending) /\ NextGeneration(c) <= cl[c].pending.root.generation + 1
    /\ Calling(c, {"save", "replay"}) => cl[c].pending # None
    /\ cl[c].commit # None =>
           /\ cl[c].pending # None /\ cl[c].snapshot = cl[c].pending.root
           /\ cl[c].snapshot # None
           /\ cl[c].commit = CommitToken(PendingSave(c).id, PendingSave(c).digest)
           /\ InLog(PendingSave(c))

\* Whatever else it ever asked for is older than what it asks for next.
OwnInv(c) ==
    /\ \A m \in InFlight : m.client = c /\ m.path = "save" =>
           m.body = cl[c].pending \/ m.body.root.generation < NextGeneration(c)
    /\ \A body \in SaveBody : InLog(SaveOfBody(c, body)) =>
           body = cl[c].pending \/ body.root.generation < NextGeneration(c)

\* The request of the call, on its way to the App.
OutwardInv(c) ==
    \A m \in InFlight : cl[c].call # None /\ m.conn = cl[c].call.conn =>
        /\ cl[c].call.op \in {"save", "replay"} => m.path = "save" /\ m.body = cl[c].pending
        /\ cl[c].call.op = "load" => m.path = "load"
        /\ cl[c].call.op = "save" => ~InLog(PendingSave(c))

\* A first submission is nowhere else.
FirstInv(c) ==
    Calling(c, {"save"}) =>
        \A m \in InFlight : m.client = c /\ m.path = "save" /\ m.body = cl[c].pending =>
            m.conn = cl[c].call.conn

\* What a reply on its way back says is true.
InwardInv(c) ==
    \A r \in replies : cl[c].call # None /\ r.conn = cl[c].call.conn =>
        /\ cl[c].call.op \in {"save", "replay"} /\ r.status = "ok" => InLog(PendingSave(c))
        /\ cl[c].call.op = "save" /\ Definite(r.status) => Dead(PendingSave(c))
        /\ cl[c].call.op = "load" /\ r.status = "ok" =>
               /\ r.response = None => cl[c].snapshot = None
               /\ r.response # None =>
                      /\ r.response \in Root
                      /\ r.response.generation + 1 \in 1 .. Len(log[Journal])
                      /\ r.response = log[Journal][r.response.generation + 1].root
                      /\ cl[c].snapshot # None =>
                             cl[c].snapshot.generation <= r.response.generation

ClientInv(c) ==
    /\ CallInv(c) /\ SnapshotInv(c) /\ PendingInv(c) /\ OwnInv(c)
    /\ OutwardInv(c) /\ FirstInv(c) /\ InwardInv(c)

\* What was reported is so.
ReportInv ==
    /\ \A s \in accepted : InLog(s)
    /\ \A s \in rejected : s.root.generation \in Nat /\ Dead(s)

RemoteInv ==
    /\ StoreInv /\ LogInv /\ ProcessInv /\ GuardInv /\ WireInv
    /\ cl \in [Client -> ClientType]
    /\ \A c \in Client : ClientInv(c)
    /\ ReportInv

-----------------------------------------------------------------------------
(* The saves that the clients ask for. *)

\* The fields of a save call, all derived from the client and the body.
LEMMA SaveFields ==
    ASSUME NEW c, NEW body
    PROVE  /\ SaveOfBody(c, body).id = <<"tfj", <<"sha256", c, "save", body>>>>
           /\ SaveOfBody(c, body).digest = <<"sha256", c, "save", body>>
           /\ SaveOfBody(c, body).journal = Journal
           /\ SaveOfBody(c, body).expected = body.expected
           /\ SaveOfBody(c, body).root = body.root
  BY DEF SaveOfBody, SaveOf, BodyDigest, SaveRequestId

\* Every save a client can ask for is one the store accepts as an argument.
LEMMA SavesAreRequests ==
    ASSUME NEW c \in Client, NEW body \in SaveBody
    PROVE  /\ SaveOfBody(c, body) \in SaveRequest
           /\ Journal \in JournalId
           /\ body.root \in Root
           /\ body.root.generation \in Nat
           /\ body.root.generation <= MaxGeneration
           /\ body.root # None
           /\ SaveOfBody(c, body).digest \in Digest
           /\ SaveOfBody(c, body).id \in RequestId
  <1>1. /\ body.expected \in Revision \cup {None} /\ body.root \in Root
        /\ body.root.journal = Journal /\ body.root.generation \in Generation
        /\ Journal \in JournalId
    BY ServerConstants DEF SaveBody, Root
  <1>2. /\ SaveOfBody(c, body).digest \in Digest /\ SaveOfBody(c, body).id \in RequestId
    BY RemoteConstants
  <1>3. SaveOfBody(c, body) = [id       |-> SaveOfBody(c, body).id,
                               digest   |-> SaveOfBody(c, body).digest,
                               journal  |-> Journal,
                               expected |-> body.expected,
                               root     |-> body.root]
    BY DEF SaveOfBody, SaveOf
  <1>4. SaveOfBody(c, body) \in SaveRequest
    BY <1>1, <1>2, <1>3 DEF SaveRequest
  <1>5. QED
    BY <1>1, <1>2, <1>4, StoreConstants, RemoteConstants DEF Generation

\* Neither the digest nor the id of a save is that of another client or body.
LEMMA SavesDiffer ==
    ASSUME NEW c, NEW body, NEW d, NEW other,
           \/ SaveOfBody(c, body).digest = SaveOfBody(d, other).digest
           \/ SaveOfBody(c, body).id = SaveOfBody(d, other).id
    PROVE  c = d /\ body = other
  BY SaveFields

\* The save call that an honest request is turned into is the one the client meant.
LEMMA HonestSave ==
    ASSUME NEW m, Honest(m), m.path = "save"
    PROVE  /\ SaveOf(m) = SaveOfBody(m.client, m.body)
           /\ m.client \in Client /\ m.body \in SaveBody
           /\ Follows(m.body)
  <1>1. m.client \in Client /\ m.body \in SaveBody /\ Follows(m.body)
    BY DEF Honest, Message, Follows
  <1>2. m.id = SaveRequestId(BodyDigest(m)) /\ BodyDigest(m) = <<"sha256", m.client, "save", m.body>>
    BY DEF Honest, BodyDigest
  <1>3. SaveOf(m) = SaveOfBody(m.client, m.body)
    BY <1>2 DEF SaveOfBody, SaveOf, BodyDigest
  <1>4. QED
    BY <1>1, <1>3

-----------------------------------------------------------------------------
(* The chain. *)

\* The log of the journal: entry i has generation i - 1.
LEMMA Chain ==
    ASSUME StoreInv
    PROVE  /\ Journal \in JournalId
           /\ log[Journal] \in Seq(SaveRequest)
           /\ Len(log[Journal]) \in Nat
           /\ \A i \in 1 .. Len(log[Journal]) :
                  /\ log[Journal][i] \in SaveRequest
                  /\ log[Journal][i].root.generation = i - 1
                  /\ log[Journal][i].root \in Root
           /\ Len(log[Journal]) = 0 => journals[Journal] = None
           /\ Len(log[Journal]) # 0 =>
                  /\ journals[Journal] # None
                  /\ journals[Journal].generation = Len(log[Journal]) - 1
                  /\ journals[Journal].root = log[Journal][Len(log[Journal])].root
                  /\ journals[Journal].revision = RevisionOf(log[Journal][Len(log[Journal])].root)
           /\ receipts \subseteq Receipt
  <1>1. Journal \in JournalId
    BY ServerConstants
  <1>2. StoreTypeOK /\ CommitsFormAChain
    BY DEF StoreInv
  <1>3. log[Journal] \in Seq(SaveRequest) /\ receipts \subseteq Receipt
    BY <1>1, <1>2 DEF StoreTypeOK
  <1>4. Len(log[Journal]) \in Nat
    BY <1>3
  <1>5. ASSUME NEW i \in 1 .. Len(log[Journal])
        PROVE  /\ log[Journal][i] \in SaveRequest
               /\ log[Journal][i].root.generation = i - 1
               /\ log[Journal][i].root \in Root
               /\ journals[Journal] # None
               /\ journals[Journal].generation = Len(log[Journal]) - 1
    <2>1. /\ log[Journal][i] \in SaveRequest
          /\ log[Journal][i].root.generation = i - 1
          /\ journals[Journal] # None
          /\ journals[Journal].generation = Len(log[Journal]) - 1
      BY <1>1, CommittedSave
    <2>2. QED
      BY <2>1, NewRowType
  <1>6. Len(log[Journal]) = 0 => journals[Journal] = None
    BY <1>1, <1>2, <1>3 DEF CommitsFormAChain
  <1>7. Len(log[Journal]) # 0 =>
            journals[Journal] = NewRow(log[Journal][Len(log[Journal])])
    BY <1>1, <1>2, <1>3 DEF CommitsFormAChain
  <1>8. Len(log[Journal]) # 0 =>
                  /\ journals[Journal] # None
                  /\ journals[Journal].generation = Len(log[Journal]) - 1
                  /\ journals[Journal].root = log[Journal][Len(log[Journal])].root
                  /\ journals[Journal].revision = RevisionOf(log[Journal][Len(log[Journal])].root)
    <2>1. Len(log[Journal]) # 0 => Len(log[Journal]) \in 1 .. Len(log[Journal])
      BY <1>4
    <2>2. QED
      BY <1>5, <1>7, <2>1 DEF NewRow
  <1>9. QED
    BY <1>1, <1>3, <1>4, <1>5, <1>6, <1>8

\* A committed save stands where its generation says, and no other save does.
LEMMA InLogAt ==
    ASSUME StoreInv, NEW s, InLog(s)
    PROVE  /\ s.root.generation + 1 \in 1 .. Len(log[Journal])
           /\ log[Journal][s.root.generation + 1] = s
  <1>1. PICK i \in 1 .. Len(log[Journal]) : log[Journal][i] = s
    BY DEF InLog
  <1>2. s.root.generation = i - 1
    BY <1>1, Chain
  <1>3. s.root.generation + 1 = i
    BY <1>2, Chain
  <1>4. QED
    BY <1>1, <1>3

-----------------------------------------------------------------------------
(* What _save_sync answers to a save of a client. *)

\* A receipt with the id of a client's save is that save's own.
LEMMA OwnReceipt ==
    ASSUME StoreInv, LogInv, NEW c \in Client, NEW body \in SaveBody, NEW rc \in receipts,
           rc.id = SaveOfBody(c, body).id
    PROVE  rc.digest = SaveOfBody(c, body).digest /\ (rc.journal = Journal => InLog(SaveOfBody(c, body)))
  <1> DEFINE s == SaveOfBody(c, body)
             k == rc.generation + 1
  <1>1. /\ rc.journal \in JournalId
        /\ k \in 1 .. Len(log[rc.journal])
        /\ rc = NewReceipt(log[rc.journal][k])
    BY DEF StoreInv, ReceiptsTellTheLog, StoreTypeOK, Receipt
  <1>2. rc.journal = Journal
    BY <1>1, ServerConstants
  <1>3. k \in 1 .. Len(log[Journal]) /\ rc.id = log[Journal][k].id /\ rc.digest = log[Journal][k].digest
    BY <1>1, <1>2 DEF NewReceipt
  <1>4. PICK d \in Client, other \in SaveBody : log[Journal][k] = SaveOfBody(d, other)
    BY <1>3 DEF LogInv
  <1>5. d = c /\ other = body
    <2>1. SaveOfBody(d, other).id = SaveOfBody(c, body).id
      BY <1>3, <1>4
    <2>2. QED
      BY <2>1, SavesDiffer
  <1>6. log[Journal][k] = s
    BY <1>4, <1>5
  <1>7. QED
    BY <1>3, <1>6 DEF InLog

\* "replayed": the save is in the journal.
LEMMA ReplayedIsCommitted ==
    ASSUME StoreInv, LogInv, NEW c \in Client, NEW body \in SaveBody,
           SaveOutcome(SaveOfBody(c, body)) = "replayed"
    PROVE  InLog(SaveOfBody(c, body))
  <1> DEFINE s == SaveOfBody(c, body)
  <1>1. ReceiptsWith(s.id) # {}
    BY DEF SaveOutcome
  <1>2. PICK rc \in receipts : rc.id = s.id
    BY <1>1 DEF ReceiptsWith
  <1>3. rc.journal = Journal
    BY <1>2, ServerConstants DEF StoreInv, StoreTypeOK, Receipt
  <1>4. QED
    BY <1>2, <1>3, OwnReceipt

\* A conflict: the generation of the save is taken.
LEMMA ConflictIsLate ==
    ASSUME StoreInv, LogInv, NEW c \in Client, NEW body, Follows(body),
           SaveOutcome(SaveOfBody(c, body)) \notin {"committed", "replayed", "storage_failure"}
    PROVE  Len(log[Journal]) >= body.root.generation + 1
  <1> DEFINE s == SaveOfBody(c, body)
             n == Len(log[Journal])
             g == body.root.generation
  <1>1. body \in SaveBody /\ g \in Nat /\ g <= MaxGeneration /\ s \in SaveRequest
        /\ MaxGeneration \in Nat
    BY SavesAreRequests, StoreConstants DEF Follows
  <1>2. /\ s.journal = Journal /\ s.expected = body.expected /\ s.root = body.root
    BY SaveFields
  <1>3. ReceiptsWith(s.id) = {}
    <2> SUFFICES ASSUME ReceiptsWith(s.id) # {}
                 PROVE  FALSE
      OBVIOUS
    <2> DEFINE rc == CHOOSE r \in ReceiptsWith(s.id) : TRUE
    <2>1. rc \in ReceiptsWith(s.id)
      OBVIOUS
    <2>2. rc \in receipts /\ rc.id = s.id
      BY <2>1 DEF ReceiptsWith
    <2>3. rc.digest = s.digest
      BY <1>1, <2>2, OwnReceipt
    <2>4. QED
      BY <2>3 DEF SaveOutcome
  <1>4. SaveOutcome(s) # "cas_conflict"
    BY <1>1, IndexesIdle DEF IndexesNeverFire
  <1>5. StaleGeneration(s) \/ StaleRevision(s)
    BY <1>3, <1>4 DEF SaveOutcome
  <1>6. g <= n /\ n \in Nat
    BY <1>1, Chain DEF Follows
  <1>7. CASE n = 0
    <2>1. g = 0 /\ journals[Journal] = None /\ body.expected = None
      BY <1>1, <1>6, <1>7, Chain DEF Follows
    <2>2. QED
      BY <1>2, <1>5, <2>1 DEF StaleGeneration, StaleRevision, CurrentRevision
  <1>8. CASE n # 0
    <2>1. /\ journals[Journal] # None
          /\ journals[Journal].generation = n - 1
          /\ journals[Journal].revision = RevisionOf(log[Journal][n].root)
      BY <1>8, Chain
    <2>2. CASE StaleGeneration(s)
      <3>1. n - 1 >= MaxGeneration \/ g # (n - 1) + 1
        BY <1>2, <2>1, <2>2 DEF StaleGeneration
      <3>2. QED
        BY <1>1, <1>6, <3>1
    <2>3. CASE ~StaleGeneration(s) /\ StaleRevision(s)
      <3>1. g = (n - 1) + 1
        BY <1>2, <2>1, <2>3 DEF StaleGeneration
      <3>2. g = n
        BY <1>6, <3>1
      <3>3. body.expected = RevisionOf(log[Journal][n].root)
        BY <1>8, <3>2 DEF Follows
      <3>4. QED
        BY <1>2, <2>1, <2>3, <3>3 DEF StaleRevision, CurrentRevision
    <2>4. QED
      BY <1>5, <2>2, <2>3
  <1>9. QED
    BY <1>7, <1>8

\* "committed": the save is new, and next.
LEMMA CommittedIsNext ==
    ASSUME StoreInv, NEW c \in Client, NEW body \in SaveBody,
           SaveOutcome(SaveOfBody(c, body)) = "committed"
    PROVE  /\ ~InLog(SaveOfBody(c, body))
           /\ body.root.generation = Len(log[Journal])
           /\ body.expected = CurrentRevision(Journal)
  <1> DEFINE s == SaveOfBody(c, body)
             n == Len(log[Journal])
  <1>1. s \in SaveRequest /\ s.journal = Journal /\ s.root = body.root /\ s.expected = body.expected
        /\ Journal \in JournalId /\ n \in Nat /\ body.root.generation \in Nat
    BY SaveFields, SavesAreRequests, Chain
  <1>2. ~InLog(s)
    BY <1>1, NoCommittedSaveCommitsAgain DEF NoDoubleCommit, InLog
  <1>3. body.root.generation = IF journals[Journal] = None THEN 0
                               ELSE journals[Journal].generation + 1
    BY <1>1, CommitsTheNextGeneration DEF StoreInv
  <1>4. body.root.generation = n
    <2>1. CASE n = 0
      BY <1>3, <2>1, Chain
    <2>2. CASE n # 0
      <3>1. journals[Journal] # None /\ journals[Journal].generation = n - 1
        BY <2>2, Chain
      <3>2. body.root.generation = (n - 1) + 1
        BY <1>3, <3>1
      <3>3. QED
        BY <1>1, <3>2
    <2>3. QED
      BY <2>1, <2>2
  <1>5. body.expected = CurrentRevision(Journal)
    BY <1>1, CommittedPassedTheChecks DEF StaleRevision
  <1>6. QED
    BY <1>2, <1>4, <1>5

-----------------------------------------------------------------------------
(* A log that grows. *)

\* Entries are only added to the log of the journal.
Grows ==
    /\ StoreInv'
    /\ Len(log[Journal]) <= Len(log'[Journal])
    /\ \A i \in 1 .. Len(log[Journal]) : log'[Journal][i] = log[Journal][i]

\* Where the log ends and what its entries are, before and after a step.
ChainFacts ==
    /\ Len(log[Journal]) \in Nat
    /\ \A i \in 1 .. Len(log[Journal]) :
           log[Journal][i].root.generation = i - 1 /\ log[Journal][i].root \in Root
    /\ Len(log[Journal]) = 0 => journals[Journal] = None
    /\ Len(log[Journal]) # 0 =>
           journals[Journal] # None /\ journals[Journal].root = log[Journal][Len(log[Journal])].root

LEMMA ChainEnds == StoreInv => ChainFacts
  BY Chain DEF ChainFacts

LEMMA ChainNext == StoreInv' => ChainFacts'
  BY ChainEnds, PTL

\* Nothing that is committed is forgotten, and nothing that is dead comes back.
LEMMA GrowsKeeps ==
    ASSUME StoreInv, Grows, NEW s
    PROVE  /\ InLog(s) => InLog(s)'
           /\ Follows(s) => Follows(s)'
           /\ s.root.generation \in Nat /\ Dead(s) => Dead(s)'
  <1> DEFINE n == Len(log[Journal])
             k == Len(log'[Journal])
  <1>1. n \in Nat /\ k \in Nat /\ n <= k
    BY ChainEnds, ChainNext DEF Grows, ChainFacts
  <1>2. InLog(s) => InLog(s)'
    BY <1>1 DEF InLog, Grows
  <1>3. Follows(s) => Follows(s)'
    <2> SUFFICES ASSUME Follows(s)
                 PROVE  Follows(s)'
      OBVIOUS
    <2>1. s \in SaveBody /\ s.root.generation \in Nat
      BY SavesAreRequests DEF Follows, SaveBody, Root, Generation
    <2>2. s.root.generation # 0 => s.root.generation \in 1 .. n
      BY <1>1, <2>1 DEF Follows
    <2>3. QED
      BY <1>1, <2>1, <2>2 DEF Follows, Grows, RevisionOf
  <1>4. ASSUME s.root.generation \in Nat, Dead(s)
        PROVE  Dead(s)'
    <2>1. n >= s.root.generation + 1 /\ ~InLog(s)
      BY <1>4 DEF Dead
    <2>2. ASSUME NEW i \in 1 .. k, log'[Journal][i] = s
          PROVE  FALSE
      <3>1. s.root.generation = i - 1
        BY <2>2, ChainNext DEF Grows, ChainFacts
      <3>2. i \in 1 .. n
        BY <1>1, <1>4, <2>1, <3>1
      <3>3. QED
        BY <2>1, <2>2, <3>2 DEF InLog, Grows
    <2>3. ~InLog(s)'
      BY <2>2 DEF InLog
    <2>4. k >= s.root.generation + 1
      BY <1>1, <1>4, <2>1
    <2>5. QED
      BY <2>3, <2>4 DEF Dead
  <1>5. QED
    BY <1>2, <1>3, <1>4

-----------------------------------------------------------------------------
(* Steps of the App, as the clients see them. *)

\* No request carries two answers: h has left, and nothing else is on its connection.
Answered(h) == h \in InFlight /\ \A m \in InFlight' : m.conn # h.conn

\* What a reply to request h says about the journal is so.
Truthful(h, r) ==
    /\ h.path = "save" /\ r.status = "ok" => InLog(SaveOf(h))'
    /\ h.path = "save" /\ Definite(r.status) =>
           log' = log /\ Len(log[Journal]) >= h.body.root.generation + 1
    /\ h.path = "load" /\ r.status = "ok" =>
           /\ log' = log
           /\ r.response = IF journals[Journal] = None THEN None ELSE journals[Journal].root

\* Requests only leave, what is committed was asked for by one that left, and so
\* was every new reply.
Serves ==
    /\ UNCHANGED <<cl, accepted, rejected, open>>
    /\ boot' \in boot .. MaxBoot
    /\ InFlight' \subseteq InFlight
    /\ Grows
    /\ \A i \in 1 .. Len(log'[Journal]) : i > Len(log[Journal]) =>
           \E h \in InFlight : Answered(h) /\ h.path = "save" /\ log'[Journal][i] = SaveOf(h)
    /\ \A r \in replies' : r \notin replies =>
           r.conn \in open /\ \E h \in InFlight : Answered(h) /\ h.conn = r.conn /\ Truthful(h, r)
    /\ \A r1, r2 \in replies' : r1 \notin replies /\ r2 \notin replies => r1 = r2

\* What a step of the App commits, a client has a request for in flight.
LEMMA NewlyCommitted ==
    ASSUME RemoteInv, Serves, NEW c \in Client, NEW body \in SaveBody,
           InLog(SaveOfBody(c, body))', ~InLog(SaveOfBody(c, body))
    PROVE  \E h \in InFlight : /\ Answered(h) /\ h.path = "save" /\ h.client = c /\ h.body = body
                               /\ \A m \in InFlight : m.conn = h.conn => m = h
  <1> DEFINE s == SaveOfBody(c, body)
  <1>1. PICK i \in 1 .. Len(log'[Journal]) : log'[Journal][i] = s
    BY DEF InLog, SaveOfBody, SaveOf, BodyDigest, SaveRequestId
  <1>2. i > Len(log[Journal])
    <2> SUFFICES ASSUME ~(i > Len(log[Journal]))
                 PROVE  FALSE
      OBVIOUS
    <2>1. i \in 1 .. Len(log[Journal])
      BY ChainEnds, ChainNext DEF ChainFacts, Serves, Grows, RemoteInv
    <2>2. QED
      BY <1>1, <2>1 DEF Serves, Grows, InLog
  <1>3. PICK h \in InFlight : Answered(h) /\ h.path = "save" /\ s = SaveOf(h)
    BY <1>1, <1>2 DEF Serves
  <1>4. Honest(h)
    BY DEF RemoteInv, WireInv
  <1>5. SaveOfBody(h.client, h.body) = SaveOfBody(c, body)
    BY <1>3, <1>4, HonestSave
  <1>6. h.client = c /\ h.body = body
    BY <1>5, SavesDiffer
  <1>7. \A m \in InFlight : m.conn = h.conn => m = h
    BY DEF RemoteInv, WireInv, Apart, InFlight
  <1>8. QED
    BY <1>3, <1>6, <1>7

\* The pending save after a step that leaves the client alone.
LEMMA PendingNext ==
    ASSUME NEW c, NEW body, cl'[c].pending = body
    PROVE  /\ InLog(PendingSave(c))' <=> InLog(SaveOfBody(c, body))'
           /\ Dead(PendingSave(c))' <=> Dead(SaveOfBody(c, body))'
           /\ PendingSave(c)' = SaveOfBody(c, body)
  <1>1. PendingSave(c)' = SaveOfBody(c, body)
    BY DEF PendingSave, SaveOfBody, SaveOf, BodyDigest, SaveRequestId
  <1>2. QED
    BY <1>1 DEF InLog, Dead, SaveOfBody, SaveOf, BodyDigest, SaveRequestId

\* The App does not disturb what a client keeps: snapshot, pending save, commit.
LEMMA ServesKeepsState ==
    ASSUME RemoteInv, Serves, NEW c \in Client
    PROVE  CallInv(c)' /\ SnapshotInv(c)' /\ PendingInv(c)' /\ FirstInv(c)'
  <1>1. ClientInv(c) /\ cl' = cl /\ StoreInv /\ Grows /\ InFlight' \subseteq InFlight
    BY DEF RemoteInv, Serves
  <1>2. boot \in Int /\ boot' \in Int /\ boot <= boot'
    BY DEF RemoteInv, ProcessInv, Serves
  <1>3. CallInv(c)'
    BY <1>1, <1>2 DEF ClientInv, CallInv, Calling
  <1>4. SnapshotInv(c)'
    <2>1. PICK snapshot, k : snapshot = cl[c].snapshot /\ k = snapshot.generation + 1
      OBVIOUS
    <2>2. cl'[c].snapshot = snapshot
      BY <1>1, <2>1
    <2>3. Len(log[Journal]) \in Nat /\ Len(log'[Journal]) \in Nat
      BY <1>1, ChainEnds, ChainNext DEF ChainFacts, Grows
    <2>4. ASSUME snapshot # None
          PROVE  k \in 1 .. Len(log'[Journal]) /\ snapshot = log'[Journal][k].root
      <3>1. k \in 1 .. Len(log[Journal]) /\ snapshot = log[Journal][k].root
        BY <1>1, <2>1, <2>4 DEF ClientInv, SnapshotInv
      <3>2. log'[Journal][k] = log[Journal][k] /\ k \in 1 .. Len(log'[Journal])
        BY <1>1, <2>3, <3>1 DEF Grows
      <3>3. QED
        BY <3>1, <3>2
    <2>5. QED
      BY <2>1, <2>2, <2>4 DEF SnapshotInv
  <1>5. PendingInv(c)'
    <2>1. PICK body : body = cl[c].pending
      OBVIOUS
    <2>2. cl'[c].pending = body
      BY <1>1, <2>1
    <2>3. /\ InLog(PendingSave(c)) => InLog(PendingSave(c))'
          /\ Follows(cl[c].pending) => Follows(cl[c].pending)'
          /\ PendingSave(c)' = PendingSave(c)
      <3>1. InLog(SaveOfBody(c, body)) => InLog(SaveOfBody(c, body))'
        BY <1>1, GrowsKeeps
      <3>2. Follows(body) => Follows(body)'
        BY <1>1, GrowsKeeps
      <3>3. PendingSave(c) = SaveOfBody(c, body)
        BY <2>1 DEF PendingSave
      <3>4. QED
        BY <2>1, <2>2, <3>1, <3>2, <3>3, PendingNext DEF Follows
    <2>4. PendingInv(c)
      BY <1>1 DEF ClientInv
    <2>5. QED
      BY <1>1, <2>3, <2>4 DEF PendingInv, Calling, NextGeneration
  <1>6. FirstInv(c)'
    BY <1>1 DEF ClientInv, FirstInv, Calling
  <1>7. QED
    BY <1>3, <1>4, <1>5, <1>6

\* The App commits nothing of a client's but its pending save or an older one.
LEMMA ServesKeepsOwn ==
    ASSUME RemoteInv, Serves, NEW c \in Client
    PROVE  OwnInv(c)'
  <1>1. OwnInv(c) /\ cl' = cl /\ InFlight' \subseteq InFlight
    BY DEF RemoteInv, ClientInv, Serves
  <1>2. NextGeneration(c)' = NextGeneration(c)
    BY <1>1 DEF NextGeneration
  <1>3. ASSUME NEW body \in SaveBody, InLog(SaveOfBody(c, body))'
        PROVE  body = cl[c].pending \/ body.root.generation < NextGeneration(c)
    <2>1. CASE InLog(SaveOfBody(c, body))
      BY <1>1, <2>1 DEF OwnInv
    <2>2. CASE ~InLog(SaveOfBody(c, body))
      <3>1. \E h \in InFlight : h.path = "save" /\ h.client = c /\ h.body = body
        BY <1>3, <2>2, NewlyCommitted
      <3>2. QED
        BY <1>1, <3>1 DEF OwnInv
    <2>3. QED
      BY <2>1, <2>2
  <1>4. \A m \in InFlight' : m.client = c /\ m.path = "save" =>
           m.body = cl[c].pending \/ m.body.root.generation < NextGeneration(c)
    BY <1>1 DEF OwnInv
  <1>5. QED
    BY <1>1, <1>2, <1>3, <1>4 DEF OwnInv

\* A first submission that is still on its way has not been committed.
LEMMA ServesKeepsOutward ==
    ASSUME RemoteInv, Serves, NEW c \in Client
    PROVE  OutwardInv(c)'
  <1>1. /\ cl \in [Client -> ClientType] /\ ClientInv(c)
        /\ cl' = cl /\ InFlight' \subseteq InFlight
    BY DEF RemoteInv, Serves
  <1>2. OutwardInv(c) /\ FirstInv(c) /\ PendingInv(c)
    BY <1>1 DEF ClientInv
  <1>3. ASSUME NEW m \in InFlight', cl[c].call # None, m.conn = cl[c].call.conn,
               cl[c].call.op = "save", InLog(PendingSave(c))'
        PROVE  FALSE
    <2>1. PICK body \in SaveBody : body = cl[c].pending
      BY <1>2, <1>3 DEF PendingInv, Calling, Follows
    <2>2. InLog(SaveOfBody(c, body))' /\ PendingSave(c) = SaveOfBody(c, body)
      BY <1>1, <1>3, <2>1, PendingNext DEF PendingSave
    <2>3. ~InLog(SaveOfBody(c, body))
      BY <1>1, <1>2, <1>3, <2>2 DEF OutwardInv
    <2>4. PICK h \in InFlight : /\ Answered(h) /\ h.path = "save" /\ h.client = c /\ h.body = body
                                /\ \A n \in InFlight : n.conn = h.conn => n = h
      BY <2>2, <2>3, NewlyCommitted
    <2>5. h.conn = m.conn
      BY <1>2, <1>3, <2>1, <2>4 DEF FirstInv, Calling
    <2>6. QED
      BY <1>3, <2>4, <2>5 DEF Answered
  <1>4. QED
    BY <1>1, <1>2, <1>3 DEF OutwardInv

\* A request on the connection a client waits on is that client's.
LEMMA OwnConnection ==
    ASSUME RemoteInv, NEW c \in Client, NEW m \in InFlight, cl[c].call # None,
           m.conn = cl[c].call.conn
    PROVE  m.client = c /\ Honest(m)
  <1>1. Honest(m) /\ cl[c].call.conn = <<c, cl[c].posts>>
    BY DEF RemoteInv, WireInv, ClientInv, CallInv
  <1>2. PICK k \in 1 .. cl[m.client].posts : m.conn = <<m.client, k>>
    BY <1>1 DEF Honest
  <1>3. QED
    BY <1>1, <1>2

\* A new reply on its way back says what is true.
LEMMA ServesKeepsNewReplies ==
    ASSUME RemoteInv, Serves, NEW c \in Client, NEW r \in replies', r \notin replies,
           cl[c].call # None, r.conn = cl[c].call.conn,
           NEW body, body = cl[c].pending
    PROVE  /\ cl[c].call.op \in {"save", "replay"} /\ r.status = "ok" => InLog(SaveOfBody(c, body))'
           /\ cl[c].call.op = "save" /\ Definite(r.status) => Dead(SaveOfBody(c, body))'
           /\ cl[c].call.op = "load" /\ r.status = "ok" =>
                  /\ r.response = None => cl[c].snapshot = None
                  /\ r.response # None =>
                         /\ r.response \in Root
                         /\ r.response.generation + 1 \in 1 .. Len(log'[Journal])
                         /\ r.response = log'[Journal][r.response.generation + 1].root
                         /\ cl[c].snapshot # None =>
                                cl[c].snapshot.generation <= r.response.generation
  <1>1. PICK h \in InFlight : Answered(h) /\ h.conn = r.conn /\ Truthful(h, r)
    BY DEF Serves
  <1>2. h.client = c /\ Honest(h) /\ h.conn = cl[c].call.conn
    BY <1>1, OwnConnection
  <1>3. /\ OutwardInv(c) /\ SnapshotInv(c) /\ StoreInv /\ ChainFacts
        /\ cl \in [Client -> ClientType] /\ PendingInv(c)
    BY ChainEnds DEF RemoteInv, ClientInv
  <1>4. cl[c].call.op \in {"save", "replay"} => h.path = "save" /\ SaveOf(h) = SaveOfBody(c, body)
    BY <1>2, <1>3, HonestSave DEF OutwardInv
  <1>5. ASSUME cl[c].call.op \in {"save", "replay"}, r.status = "ok"
        PROVE  InLog(SaveOfBody(c, body))'
    <2>1. InLog(SaveOf(h))'
      BY <1>1, <1>4, <1>5 DEF Truthful
    <2>2. QED
      BY <1>4, <1>5, <2>1 DEF InLog, SaveOf, SaveOfBody, BodyDigest, SaveRequestId
  <1>6. ASSUME cl[c].call.op = "save", Definite(r.status)
        PROVE  Dead(SaveOfBody(c, body))'
    <2>1. h.path = "save" /\ h.body = body /\ ~InLog(PendingSave(c))
      BY <1>2, <1>3, <1>6 DEF OutwardInv
    <2>2. log' = log /\ Len(log[Journal]) >= body.root.generation + 1
      BY <1>1, <1>6, <2>1 DEF Truthful
    <2>3. ~InLog(SaveOfBody(c, body)) /\ SaveOfBody(c, body).root = body.root
      BY <2>1, SaveFields DEF PendingSave
    <2>4. QED
      BY <2>2, <2>3 DEF Dead, InLog, SaveOfBody, SaveOf, BodyDigest, SaveRequestId
  <1>7. ASSUME cl[c].call.op = "load", r.status = "ok"
        PROVE  /\ r.response = None => cl[c].snapshot = None
               /\ r.response # None =>
                      /\ r.response \in Root
                      /\ r.response.generation + 1 \in 1 .. Len(log'[Journal])
                      /\ r.response = log'[Journal][r.response.generation + 1].root
                      /\ cl[c].snapshot # None =>
                             cl[c].snapshot.generation <= r.response.generation
    <2> DEFINE n == Len(log[Journal])
    <2>1. /\ log' = log
          /\ r.response = IF journals[Journal] = None THEN None ELSE journals[Journal].root
      BY <1>1, <1>2, <1>3, <1>7 DEF OutwardInv, Truthful
    <2>2. n \in Nat
      BY <1>3 DEF ChainFacts
    <2>3. CASE n = 0
      <3>1. r.response = None
        BY <1>3, <2>1, <2>3 DEF ChainFacts
      <3>2. cl[c].snapshot = None
        BY <1>3, <2>3 DEF SnapshotInv
      <3>3. QED
        BY <3>1, <3>2
    <2>4. CASE n # 0
      <3>1. n \in 1 .. n
        BY <2>2, <2>4
      <3>2. /\ r.response = log[Journal][n].root
            /\ log[Journal][n].root.generation = n - 1
            /\ r.response \in Root
        BY <1>3, <2>1, <2>4, <3>1 DEF ChainFacts
      <3>3. r.response # None
        BY <3>2, RemoteConstants
      <3>4. r.response.generation = n - 1 /\ r.response.generation + 1 = n
        BY <2>2, <3>2
      <3>5. cl[c].snapshot # None => cl[c].snapshot.generation <= n - 1
        <4> SUFFICES ASSUME cl[c].snapshot # None
                     PROVE  cl[c].snapshot.generation <= n - 1
          OBVIOUS
        <4>1. cl[c].snapshot \in Root
          BY <1>3 DEF ClientType
        <4>2. cl[c].snapshot.generation \in Nat
          BY <4>1, StoreConstants DEF Root, Generation
        <4>3. QED
          BY <1>3, <2>2, <4>2 DEF SnapshotInv
      <3>6. QED
        BY <2>1, <3>1, <3>2, <3>3, <3>4, <3>5
    <2>5. QED
      BY <2>3, <2>4
  <1>8. QED
    BY <1>5, <1>6, <1>7

\* Every reply on its way back stays true.
LEMMA ServesKeepsInward ==
    ASSUME RemoteInv, Serves, NEW c \in Client
    PROVE  InwardInv(c)'
  <1>1. /\ InwardInv(c) /\ PendingInv(c) /\ cl' = cl /\ StoreInv /\ Grows /\ ChainFacts /\ ChainFacts'
        /\ cl \in [Client -> ClientType]
    BY ChainEnds, ChainNext DEF RemoteInv, ClientInv, Serves, Grows
  <1>2. PICK body : body = cl[c].pending
    OBVIOUS
  <1>3. /\ InLog(PendingSave(c))' <=> InLog(SaveOfBody(c, body))'
        /\ Dead(PendingSave(c))' <=> Dead(SaveOfBody(c, body))'
        /\ PendingSave(c) = SaveOfBody(c, body)
    BY <1>1, <1>2, PendingNext DEF PendingSave
  <1>4. InLog(SaveOfBody(c, body)) => InLog(SaveOfBody(c, body))'
    BY <1>1, GrowsKeeps
  <1>5. Calling(c, {"save"}) /\ Dead(SaveOfBody(c, body)) => Dead(SaveOfBody(c, body))'
    <2> SUFFICES ASSUME Calling(c, {"save"}), Dead(SaveOfBody(c, body))
                 PROVE  Dead(SaveOfBody(c, body))'
      OBVIOUS
    <2>1. body \in SaveBody
      BY <1>1, <1>2 DEF PendingInv, Calling, Follows
    <2>2. SaveOfBody(c, body).root.generation \in Nat
      BY <2>1, SaveFields, SavesAreRequests
    <2>3. QED
      BY <1>1, <2>2, GrowsKeeps
  <1>6. ASSUME NEW r \in replies', cl[c].call # None, r.conn = cl[c].call.conn
        PROVE  /\ cl[c].call.op \in {"save", "replay"} /\ r.status = "ok" => InLog(SaveOfBody(c, body))'
               /\ cl[c].call.op = "save" /\ Definite(r.status) => Dead(SaveOfBody(c, body))'
               /\ cl[c].call.op = "load" /\ r.status = "ok" =>
                      /\ r.response = None => cl[c].snapshot = None
                      /\ r.response # None =>
                             /\ r.response \in Root
                             /\ r.response.generation + 1 \in 1 .. Len(log'[Journal])
                             /\ r.response = log'[Journal][r.response.generation + 1].root
                             /\ cl[c].snapshot # None =>
                                    cl[c].snapshot.generation <= r.response.generation
    <2>1. CASE r \in replies
      <3>1. /\ cl[c].call.op \in {"save", "replay"} /\ r.status = "ok" => InLog(SaveOfBody(c, body))
            /\ cl[c].call.op = "save" /\ Definite(r.status) => Dead(SaveOfBody(c, body))
        BY <1>1, <1>3, <1>6, <2>1 DEF InwardInv
      <3>2. ASSUME cl[c].call.op = "load", r.status = "ok", r.response # None
            PROVE  /\ r.response.generation + 1 \in 1 .. Len(log'[Journal])
                   /\ r.response = log'[Journal][r.response.generation + 1].root
        <4>1. /\ r.response.generation + 1 \in 1 .. Len(log[Journal])
              /\ r.response = log[Journal][r.response.generation + 1].root
          BY <1>1, <1>6, <2>1, <3>2 DEF InwardInv
        <4>2. QED
          BY <1>1, <4>1 DEF Grows, ChainFacts
      <3>3. QED
        BY <1>1, <1>4, <1>5, <1>6, <2>1, <3>1, <3>2 DEF InwardInv, Calling
    <2>2. CASE r \notin replies
      BY <1>2, <1>6, <2>2, ServesKeepsNewReplies
    <2>3. QED
      BY <2>1, <2>2
  <1>7. QED
    BY <1>1, <1>3, <1>6 DEF InwardInv

\* A step of the App keeps what every client knows, and what was reported.
LEMMA ServesKeepsClients ==
    ASSUME RemoteInv, Serves
    PROVE  /\ cl' \in [Client -> ClientType]
           /\ \A c \in Client : ClientInv(c)'
           /\ ReportInv'
  <1>1. cl' \in [Client -> ClientType]
    BY DEF RemoteInv, Serves
  <1>2. \A c \in Client : ClientInv(c)'
    BY ServesKeepsState, ServesKeepsOwn, ServesKeepsOutward, ServesKeepsInward DEF ClientInv
  <1>3. ReportInv'
    <2>1. StoreInv /\ Grows /\ ReportInv /\ accepted' = accepted /\ rejected' = rejected
      BY DEF RemoteInv, Serves
    <2>2. \A s \in accepted : InLog(s)'
      BY <2>1, GrowsKeeps DEF ReportInv
    <2>3. \A s \in rejected : Dead(s)'
      BY <2>1, GrowsKeeps DEF ReportInv
    <2>4. QED
      BY <2>1, <2>2, <2>3 DEF ReportInv
  <1>4. QED
    BY <1>1, <1>2, <1>3

\* Requests in flight stay honest, and what is committed a client asked for.
LEMMA ServesKeepsWire ==
    ASSUME RemoteInv, Serves, Apart'
    PROVE  WireInv' /\ LogInv'
  <1>1. /\ StoreInv /\ Grows /\ cl' = cl /\ open' = open /\ InFlight' \subseteq InFlight
        /\ WireInv /\ LogInv /\ ChainFacts /\ ChainFacts'
    BY ChainEnds, ChainNext DEF RemoteInv, Serves, Grows
  <1>2. boot \in Int /\ boot' \in Int /\ boot <= boot'
    BY DEF RemoteInv, ProcessInv, Serves
  <1>3. ASSUME NEW m \in InFlight'
        PROVE  Honest(m)'
    <2>1. Honest(m)
      BY <1>1 DEF WireInv
    <2>2. Follows(m.body) => Follows(m.body)'
      BY <1>1, GrowsKeeps
    <2>3. QED
      BY <1>1, <1>2, <2>1, <2>2 DEF Honest, SaveRequestId, BodyDigest
  <1>4. ASSUME NEW r \in replies'
        PROVE  r.conn \in open /\ \A m \in InFlight' : m.conn # r.conn
    BY <1>1 DEF WireInv, Serves, Answered
  <1>5. WireInv'
    <2>1. ASSUME NEW r1 \in replies', NEW r2 \in replies', r1.conn = r2.conn
          PROVE  r1 = r2
      <3>1. \A r \in replies' : r \notin replies => \E h \in InFlight : h.conn = r.conn
        BY DEF Serves
      <3>2. \A r \in replies : \A h \in InFlight : h.conn # r.conn
        BY <1>1 DEF WireInv
      <3>3. QED
        BY <1>1, <2>1, <3>1, <3>2 DEF WireInv, Serves
    <2>2. QED
      BY <1>1, <1>3, <1>4, <2>1 DEF WireInv
  <1>6. ASSUME NEW i \in 1 .. Len(log'[Journal])
        PROVE  \E c \in Client, body \in SaveBody : log'[Journal][i] = SaveOfBody(c, body)
    <2>1. CASE i > Len(log[Journal])
      <3>1. PICK h \in InFlight : h.path = "save" /\ log'[Journal][i] = SaveOf(h)
        BY <2>1 DEF Serves
      <3>2. Honest(h)
        BY <1>1 DEF WireInv
      <3>3. QED
        BY <3>1, <3>2, HonestSave
    <2>2. CASE ~(i > Len(log[Journal]))
      <3>1. i \in 1 .. Len(log[Journal]) /\ log'[Journal][i] = log[Journal][i]
        BY <1>1, <2>2 DEF ChainFacts, Grows
      <3>2. QED
        BY <1>1, <3>1 DEF LogInv
    <2>3. QED
      BY <2>1, <2>2
  <1>7. LogInv'
    BY <1>6 DEF LogInv, SaveOfBody, SaveOf, BodyDigest, SaveRequestId
  <1>8. QED
    BY <1>5, <1>7

\* A step of the App preserves the invariant when it serves, and keeps its own state.
LEMMA ServesKeeps ==
    ASSUME RemoteInv, Serves, Apart', ProcessInv', GuardInv'
    PROVE  RemoteInv'
  BY ServesKeepsClients, ServesKeepsWire DEF RemoteInv, Serves, Grows

-----------------------------------------------------------------------------
(* The steps of the App. *)

appRest == <<cl, accepted, rejected>>

\* A step that leaves the log and the replies alone.
LEMMA QuietServes ==
    ASSUME RemoteInv, StoreInv', log' = log, UNCHANGED <<appRest, open, replies>>,
           boot' \in boot .. MaxBoot, InFlight' \subseteq InFlight
    PROVE  Serves
  <1>1. Len(log[Journal]) \in Nat
    BY ChainEnds DEF RemoteInv, ChainFacts
  <1>2. QED
    BY <1>1 DEF Serves, Grows, appRest

\* The tables keep their invariant when the store takes a step of its own, or none.
LEMMA StoreKeeps == RemoteInv /\ (OpenSync \/ CloseSync \/ UNCHANGED storeVars) => StoreInv'
  BY StepPreserves DEF RemoteInv, StoreNext

\* What a process that starts, stops, closes or dies leaves behind.
LEMMA ProcessSteps ==
    ASSUME RemoteInv, UNCHANGED appRest,
           Start \/ Publish \/ Stop \/ DrainEnds \/ CloseStore \/ Crash
    PROVE  RemoteInv'
  <1>1. /\ ProcessInv /\ GuardInv /\ WireInv /\ StoreInv
        /\ MaxReplayEntries \in Nat /\ MaxConnections \in Nat /\ MaxBoot \in Nat
    BY ServerConstants DEF RemoteInv
  <1>2. boot \in Int /\ boot \in boot .. MaxBoot
    BY <1>1 DEF ProcessInv
  <1>3. ASSUME UNCHANGED storeVars, UNCHANGED <<boot, guard, worker, netVars>>, ProcessInv'
        PROVE  RemoteInv'
    <2>1. StoreInv' /\ InFlight' = InFlight /\ log' = log
      BY <1>3, StoreKeeps DEF InFlight, netVars, storeVars
    <2>2. Serves
      BY <1>2, <1>3, <2>1, QuietServes DEF netVars
    <2>3. Apart' /\ GuardInv'
      BY <1>1, <1>3 DEF netVars, WireInv, Apart, GuardInv, SaveRequestId
    <2>4. QED
      BY <1>3, <2>2, <2>3, ServesKeeps
  <1>4. ASSUME boot' \in boot .. MaxBoot, guard' = <<>> \/ guard' = guard, worker' = <<>>, UNCHANGED netVars,
               OpenSync \/ CloseSync, ProcessInv'
        PROVE  RemoteInv'
    <2>1. StoreInv' /\ log' = log
      BY <1>4, StoreKeeps DEF OpenSync, CloseSync
    <2>2. InFlight' \subseteq InFlight
      BY <1>4 DEF InFlight, netVars
    <2>3. Serves
      BY <1>4, <2>1, <2>2, QuietServes DEF netVars
    <2>4. Apart' /\ GuardInv'
      BY <1>1, <1>4 DEF netVars, WireInv, Apart, GuardInv, SaveRequestId
    <2>5. QED
      BY <1>4, <2>3, <2>4, ServesKeeps
  <1>5. CASE Start
    <2>1. DurableRowsValid
      BY <1>1 DEF StoreInv, StartupAccepts
    <2>2. proc' = "serving" /\ db' = "open"
      BY <1>5, <2>1 DEF Start, OpenSync
    <2>3. ProcessInv'
      BY <1>1, <1>5, <2>2 DEF Start, ProcessInv, netVars
    <2>4. QED
      BY <1>1, <1>2, <1>4, <1>5, <2>3 DEF Start
  <1>6. CASE Publish
    <2>1. ProcessInv'
      BY <1>1, <1>6 DEF Publish, ProcessInv, storeVars
    <2>2. QED
      BY <1>3, <1>6, <2>1 DEF Publish
  <1>7. CASE Stop
    <2>1. ProcessInv'
      BY <1>1, <1>7 DEF Stop, ProcessInv, storeVars
    <2>2. QED
      BY <1>3, <1>7, <2>1 DEF Stop
  <1>8. CASE DrainEnds
    <2>1. ProcessInv'
      BY <1>1, <1>8 DEF DrainEnds, ProcessInv, storeVars
    <2>2. QED
      BY <1>3, <1>8, <2>1 DEF DrainEnds
  <1>9. CASE CloseStore
    <2>1. ProcessInv'
      BY <1>1, <1>9 DEF CloseStore, CloseSync, ProcessInv
    <2>2. QED
      BY <1>2, <1>4, <1>9, <2>1 DEF CloseStore
  <1>10. CASE Crash
    <2>1. ProcessInv'
      BY <1>1, <1>10 DEF Crash, CloseSync, ProcessInv
    <2>2. QED
      BY <1>2, <1>4, <1>10, <2>1 DEF Crash
  <1>11. QED
    BY <1>5, <1>6, <1>7, <1>8, <1>9, <1>10

\* What Send adds to the replies.
LEMMA SendAdds ==
    ASSUME NEW m, NEW status, NEW response, Send(m, status, response),
           NEW r \in replies', r \notin replies
    PROVE  m.conn \in open /\ r.conn = m.conn /\ r.status = status /\ r.response = response
  BY DEF Send

\* A step that answers one request, or lets it go unanswered.
LEMMA AnswerServes ==
    ASSUME RemoteInv, Grows, UNCHANGED <<appRest, open>>, boot' = boot, InFlight' \subseteq InFlight,
           NEW m \in InFlight, Answered(m),
           log' = log \/ (m.path = "save" /\ log'[Journal] = Append(log[Journal], SaveOf(m))),
           NEW status, NEW response, Send(m, status, response) \/ replies' = replies,
           \A r : r.status = status /\ r.response = response => Truthful(m, r)
    PROVE  Serves
  <1>1. boot \in boot .. MaxBoot
    BY ServerConstants DEF RemoteInv, ProcessInv
  <1>2. ASSUME NEW i \in 1 .. Len(log'[Journal]), i > Len(log[Journal])
        PROVE  m.path = "save" /\ log'[Journal][i] = SaveOf(m)
    <2>1. log[Journal] \in Seq(SaveRequest)
      BY Chain DEF RemoteInv
    <2>2. QED
      BY <1>2, <2>1
  <1>3. \A r \in replies' : r \notin replies =>
            r.conn \in open /\ m.conn = r.conn /\ Truthful(m, r)
    BY SendAdds
  <1>4. \A r1, r2 \in replies' : r1 \notin replies /\ r2 \notin replies => r1 = r2
    BY DEF Send
  <1>5. QED
    BY <1>1, <1>2, <1>3, <1>4 DEF Serves, appRest

\* The log grows in a step that leaves the tables alone.
LEMMA QuietGrows ==
    ASSUME RemoteInv, UNCHANGED storeVars
    PROVE  Grows /\ log' = log
  <1>1. Len(log[Journal]) \in Nat
    BY ChainEnds DEF RemoteInv, ChainFacts
  <1>2. QED
    BY <1>1, StoreKeeps DEF Grows, storeVars

\* An unsigned refusal says nothing about the journal.
LEMMA RefuseUnsignedStep ==
    ASSUME RemoteInv, UNCHANGED appRest, NEW m \in inbox, RefuseUnsigned(m)
    PROVE  RemoteInv'
  <1>1. /\ ProcessInv /\ GuardInv /\ WireInv /\ Grows /\ log' = log
        /\ inbox' = inbox \ {m} /\ UNCHANGED <<storeVars, procVars, open>>
    BY QuietGrows DEF RemoteInv, RefuseUnsigned
  <1>2. InFlight' \subseteq InFlight /\ Answered(m) /\ m \in InFlight
    BY <1>1 DEF InFlight, procVars, Answered, WireInv, Apart
  <1>3. \A r : r.status = "unsigned" /\ r.response = None => Truthful(m, r)
    BY DEF Truthful, Definite
  <1>4. Send(m, "unsigned", None)
    BY DEF RefuseUnsigned
  <1>5. boot' = boot
    BY <1>1 DEF procVars
  <1>6. Serves
    BY <1>1, <1>2, <1>3, <1>4, <1>5, AnswerServes
  <1>7. Apart' /\ GuardInv' /\ ProcessInv'
    BY <1>1 DEF WireInv, Apart, GuardInv, ProcessInv, procVars, storeVars, SaveRequestId
  <1>8. QED
    BY <1>6, <1>7, ServesKeeps

-----------------------------------------------------------------------------
(* The replay guard. *)

\* A save of a client never meets a conflict: its id is derived from its digest.
LEMMA SavesAreNeverConflicts ==
    ASSUME RemoteInv, NEW m, Honest(m), m.path = "save"
    PROVE  Refusal(m) = "none"
  <1>1. /\ guard \in Seq(Entry) /\ GuardInv
        /\ m.id = SaveRequestId(BodyDigest(m)) /\ m \in Message
    BY DEF RemoteInv, ProcessInv, Honest
  <1>2. ASSUME ClaimConflicts(m)
        PROVE  FALSE
    <2>1. PICK i \in 1 .. Len(guard) : guard[i].id = m.id /\ guard[i] # Identity(m)
      BY <1>2 DEF ClaimConflicts
    <2>2. guard[i] \in Entry
      BY <1>1
    <2>3. CASE guard[i].path = "save" /\ guard[i].id = SaveRequestId(guard[i].digest)
      <3>1. guard[i].digest = BodyDigest(m)
        BY <1>1, <2>1, <2>3 DEF SaveRequestId
      <3>2. guard[i] = [id |-> guard[i].id, path |-> guard[i].path, digest |-> guard[i].digest]
        BY <2>2 DEF Entry
      <3>3. QED
        BY <2>1, <2>3, <3>1, <3>2 DEF Identity
    <2>4. CASE guard[i].id[2] \in Conns
      <3>1. BodyDigest(m) \in Conns
        BY <1>1, <2>1, <2>4 DEF SaveRequestId
      <3>2. Len(BodyDigest(m)) = 4
        BY DEF BodyDigest
      <3>3. \A k \in Conns : Len(k) = 2
        BY DEF Conns
      <3>4. QED
        BY <3>1, <3>2, <3>3
    <2>5. QED
      BY <1>1, <2>3, <2>4 DEF GuardInv
  <1>3. QED
    BY <1>1, <1>2 DEF Refusal

\* The entries after a claim are the old ones and the new identity.
LEMMA ClaimedEntries ==
    ASSUME guard \in Seq(Entry), Len(guard) <= MaxReplayEntries, NEW m, Identity(m) \in Entry
    PROVE  /\ Claimed(m) \in Seq(Entry) /\ Len(Claimed(m)) <= MaxReplayEntries
           /\ \A i \in 1 .. Len(Claimed(m)) :
                  Claimed(m)[i] = Identity(m) \/ \E j \in 1 .. Len(guard) : Claimed(m)[i] = guard[j]
  <1> DEFINE known   == {i \in 1 .. Len(guard) : guard[i].id = m.id}
             entries == Append(guard, Identity(m))
             n       == Len(guard)
  <1>1. n \in Nat /\ MaxReplayEntries \in Nat \ {0}
    BY ServerConstants
  <1>2. CASE known # {}
    <2> DEFINE k == CHOOSE i \in known : TRUE
    <2>1. k \in 1 .. n
      BY <1>2
    <2>2. Claimed(m) = MovedToEnd(k)
      BY <1>2 DEF Claimed
    <2> HIDE DEF k
    <2>3. /\ MovedToEnd(k) \in Seq(Entry) /\ Len(MovedToEnd(k)) = n
          /\ \A i \in 1 .. n : \E j \in 1 .. n : MovedToEnd(k)[i] = guard[j]
      <3>1. ASSUME NEW i \in 1 .. n
            PROVE  \E j \in 1 .. n : MovedToEnd(k)[i] = guard[j] /\ guard[j] \in Entry
        <4>1. MovedToEnd(k)[i] = IF i < k THEN guard[i] ELSE IF i < n THEN guard[i + 1] ELSE guard[k]
          BY DEF MovedToEnd
        <4>2. i \in 1 .. n /\ k \in 1 .. n /\ (i < n => i + 1 \in 1 .. n)
          BY <1>1, <2>1
        <4>3. \A j \in 1 .. n : guard[j] \in Entry
          OBVIOUS
        <4>4. QED
          BY <4>1, <4>2, <4>3
      <3>2. MovedToEnd(k) \in [1 .. n -> Entry]
        BY <3>1 DEF MovedToEnd
      <3>3. \A f \in [1 .. n -> Entry] : f \in Seq(Entry) /\ Len(f) = n
        BY <1>1
      <3>4. MovedToEnd(k) \in Seq(Entry) /\ Len(MovedToEnd(k)) = n
        BY <3>2, <3>3
      <3>5. QED
        BY <3>1, <3>4
    <2>4. QED
      BY <2>2, <2>3
  <1>3. CASE known = {}
    <2>1. /\ entries \in Seq(Entry) /\ Len(entries) = n + 1
          /\ \A i \in 1 .. n + 1 : entries[i] = IF i = n + 1 THEN Identity(m) ELSE guard[i]
      BY <1>1
    <2>2. CASE n + 1 > MaxReplayEntries
      <3>1. Claimed(m) = Tail(entries)
        BY <1>3, <2>1, <2>2 DEF Claimed
      <3>2. /\ Tail(entries) \in Seq(Entry) /\ Len(Tail(entries)) = n
            /\ \A i \in 1 .. n : Tail(entries)[i] = entries[i + 1]
        BY <1>1, <2>1
      <3>3. ASSUME NEW i \in 1 .. n
            PROVE  Tail(entries)[i] = Identity(m) \/ \E j \in 1 .. n : Tail(entries)[i] = guard[j]
        <4>1. i + 1 \in 1 .. n + 1 /\ (i + 1 # n + 1 => i + 1 \in 1 .. n)
          BY <1>1
        <4>2. QED
          BY <2>1, <3>2, <4>1
      <3>4. QED
        BY <3>1, <3>2, <3>3
    <2>3. CASE ~(n + 1 > MaxReplayEntries)
      <3>1. Claimed(m) = entries
        BY <1>3, <2>1, <2>3 DEF Claimed
      <3>2. QED
        BY <1>1, <2>1, <2>3, <3>1
    <2>4. QED
      BY <2>2, <2>3
  <1>4. QED
    BY <1>2, <1>3

\* The identity of an honest request.
LEMMA HonestIdentity ==
    ASSUME NEW m, Honest(m)
    PROVE  /\ Identity(m) \in Entry
           /\ \/ Identity(m).path = "save" /\ Identity(m).id = SaveRequestId(Identity(m).digest)
              \/ Identity(m).id[2] \in Conns
  <1>1. m \in Message
    BY DEF Honest
  <1>2. Identity(m) \in Entry
    BY <1>1 DEF Message, Identity, Entry, BodyDigest, Digests
  <1>3. CASE m.path = "save"
    BY <1>2, <1>3 DEF Honest, Identity
  <1>4. CASE m.path # "save"
    BY <1>1, <1>2, <1>4 DEF Honest, Identity, Message
  <1>5. QED
    BY <1>2, <1>3, <1>4

-----------------------------------------------------------------------------
(* Admitting and answering a request. *)

\* What every admission leaves behind.
LEMMA AdmitFacts ==
    ASSUME RemoteInv, UNCHANGED appRest, NEW m \in inbox, Admit(m)
    PROVE  /\ Honest(m) /\ m \in InFlight /\ m.boot = boot /\ Grows /\ StoreInv' /\ log' = log
           /\ inbox' = inbox \ {m} /\ UNCHANGED <<storeVars, proc, boot, published, open>>
           /\ GuardInv'
           /\ guard' \in Seq(Entry) /\ Len(guard') <= MaxReplayEntries
           /\ Len(worker) < MaxConnections
  <1>1. /\ inbox' = inbox \ {m} /\ UNCHANGED <<storeVars, proc, boot, published, open>>
        /\ guard' = guard \/ guard' = Claimed(m)
        /\ m.boot = boot /\ ~Busy
    BY DEF Admit, Verifies
  <1>2. m \in InFlight /\ Honest(m)
    BY DEF RemoteInv, WireInv, InFlight
  <1>3. /\ guard \in Seq(Entry) /\ Len(guard) <= MaxReplayEntries /\ GuardInv /\ worker \in Seq(Message)
    BY DEF RemoteInv, ProcessInv
  <1>4. /\ Identity(m) \in Entry
        /\ \/ Identity(m).path = "save" /\ Identity(m).id = SaveRequestId(Identity(m).digest)
           \/ Identity(m).id[2] \in Conns
    BY <1>2, HonestIdentity
  <1>5. Grows /\ StoreInv' /\ log' = log
    BY <1>1, QuietGrows DEF Grows
  <1>6. CASE guard' = guard
    BY <1>1, <1>2, <1>3, <1>5, <1>6, ServerConstants DEF GuardInv, SaveRequestId, Busy
  <1>7. CASE guard' = Claimed(m)
    <2>1. /\ Claimed(m) \in Seq(Entry) /\ Len(Claimed(m)) <= MaxReplayEntries
          /\ \A i \in 1 .. Len(Claimed(m)) :
                 Claimed(m)[i] = Identity(m) \/ \E j \in 1 .. Len(guard) : Claimed(m)[i] = guard[j]
      BY <1>3, <1>4, ClaimedEntries
    <2>2. \A i \in 1 .. Len(guard') :
              \/ guard'[i].path = "save" /\ guard'[i].id = SaveRequestId(guard'[i].digest)
              \/ guard'[i].id[2] \in Conns
      BY <1>3, <1>4, <1>7, <2>1 DEF GuardInv
    <2>3. GuardInv'
      BY <2>2 DEF GuardInv, SaveRequestId
    <2>4. QED
      BY <1>1, <1>2, <1>3, <1>5, <1>7, <2>1, <2>3, ServerConstants DEF Busy
  <1>8. QED
    BY <1>1, <1>6, <1>7

\* A request that is answered before the worker sees it, or handed to the worker.
LEMMA AdmitStep ==
    ASSUME RemoteInv, UNCHANGED appRest, NEW m \in inbox, Admit(m)
    PROVE  RemoteInv'
  <1>1. /\ Honest(m) /\ m \in InFlight /\ m.boot = boot /\ Grows /\ StoreInv' /\ log' = log
        /\ inbox' = inbox \ {m} /\ UNCHANGED <<storeVars, proc, boot, published, open>>
        /\ GuardInv' /\ guard' \in Seq(Entry) /\ Len(guard') <= MaxReplayEntries
        /\ Len(worker) < MaxConnections
    BY AdmitFacts
  <1>2. ProcessInv /\ Apart /\ worker \in Seq(Message) /\ m \in Message
    BY <1>1 DEF RemoteInv, WireInv, ProcessInv, Honest
  <1>3. CASE worker' = worker
    <2>1. InFlight' \subseteq InFlight /\ Answered(m)
      BY <1>1, <1>2, <1>3 DEF InFlight, Answered, Apart
    <2>2. PICK status : /\ Send(m, status, None)
                        /\ \A r : r.status = status /\ r.response = None => Truthful(m, r)
      <3>1. CASE Refusal(m) # "none"
        <4>1. m.path # "save"
          BY <1>1, <3>1, SavesAreNeverConflicts
        <4>2. Refusal(m) # "ok" /\ Send(m, Refusal(m), None)
          BY <3>1 DEF Refusal, Admit
        <4>3. QED
          BY <4>1, <4>2 DEF Truthful
      <3>2. CASE Refusal(m) = "none"
        <4>1. m.path = "hello"
          <5> SUFFICES ASSUME m.path # "hello"
                       PROVE  FALSE
            OBVIOUS
          <5>1. worker' = Append(worker, m)
            BY <3>2 DEF Admit
          <5>2. Len(Append(worker, m)) = Len(worker) + 1 /\ Len(worker) \in Nat
            BY <1>2
          <5>3. QED
            BY <1>3, <5>1, <5>2
        <4>2. Send(m, "ok", None)
          BY <3>2, <4>1 DEF Admit
        <4>3. QED
          BY <4>1, <4>2 DEF Truthful
      <3>3. QED
        BY <3>1, <3>2
    <2>3. Serves
      BY <1>1, <2>1, <2>2, AnswerServes
    <2>4. Apart' /\ ProcessInv'
      BY <1>1, <1>2, <1>3 DEF Apart, ProcessInv, storeVars
    <2>5. QED
      BY <1>1, <2>3, <2>4, ServesKeeps
  <1>4. CASE worker' # worker
    <2> DEFINE n == Len(worker)
    <2>1. worker' = Append(worker, m) /\ replies' = replies
      BY <1>4 DEF Admit
    <2>2. /\ n \in Nat /\ Len(worker') = n + 1 /\ worker' \in Seq(Message) /\ worker'[n + 1] = m
          /\ \A i \in 1 .. n : worker'[i] = worker[i]
      BY <1>2, <2>1
    <2>3. ASSUME NEW i \in 1 .. n + 1
          PROVE  i # n + 1 => i \in 1 .. n /\ worker'[i] = worker[i]
      BY <2>2
    <2>4. InFlight' \subseteq InFlight
      BY <1>1, <2>2, <2>3 DEF InFlight
    <2>5. boot' \in boot .. MaxBoot
      BY <1>1, <1>2, ServerConstants DEF ProcessInv
    <2>6. Serves
      BY <1>1, <2>1, <2>4, <2>5, QuietServes
    <2>7. Apart'
      BY <1>1, <1>2, <2>2, <2>3 DEF Apart
    <2>8. \A i \in 1 .. Len(worker') : worker'[i].boot = boot'
      BY <1>1, <1>2, <2>2, <2>3 DEF ProcessInv
    <2>9. Len(worker') <= MaxConnections
      BY <1>1, <2>2, ServerConstants
    <2>10. ProcessInv'
      BY <1>1, <1>2, <2>2, <2>8, <2>9 DEF ProcessInv, storeVars
    <2>11. QED
      BY <1>1, <2>6, <2>7, <2>10, ServesKeeps
  <1>5. QED
    BY <1>3, <1>4

\* Taking the head off the worker's queue.
LEMMA HeadLeaves ==
    ASSUME RemoteInv, worker # <<>>, worker' = Tail(worker), UNCHANGED <<proc, boot, published, guard, inbox>>,
           db' = db
    PROVE  /\ Head(worker) \in InFlight /\ Honest(Head(worker)) /\ Head(worker) \in Message
           /\ Answered(Head(worker))
           /\ InFlight' \subseteq InFlight
           /\ Apart' /\ GuardInv' /\ ProcessInv'
  <1> DEFINE n == Len(worker)
  <1>1. ProcessInv /\ Apart /\ GuardInv /\ worker \in Seq(Message)
    BY DEF RemoteInv, WireInv, ProcessInv
  <1>2. /\ n \in Nat /\ n # 0 /\ Head(worker) = worker[1] /\ 1 \in 1 .. n
        /\ worker' \in Seq(Message) /\ Len(worker') = n - 1
        /\ \A i \in 1 .. n - 1 : worker'[i] = worker[i + 1] /\ i + 1 \in 1 .. n
    BY <1>1
  <1>3. Head(worker) \in InFlight /\ Honest(Head(worker)) /\ Head(worker) \in Message
    BY <1>2 DEF RemoteInv, WireInv, InFlight, Honest
  <1>4. InFlight' \subseteq InFlight
    BY <1>2 DEF InFlight
  <1>5. ASSUME NEW m \in InFlight'
        PROVE  m.conn # Head(worker).conn
    <2>1. CASE m \in inbox
      BY <1>1, <1>2, <2>1 DEF Apart
    <2>2. CASE m \notin inbox
      <3>1. PICK i \in 1 .. n - 1 : m = worker'[i]
        BY <1>2, <2>2 DEF InFlight
      <3>2. m = worker[i + 1] /\ i + 1 \in 1 .. n /\ i + 1 # 1
        BY <1>2, <3>1
      <3>3. QED
        BY <1>1, <1>2, <3>2 DEF Apart
    <2>3. QED
      BY <2>1, <2>2
  <1>6. Apart'
    BY <1>1, <1>2 DEF Apart
  <1>7. Len(worker') <= MaxConnections
    BY <1>1, <1>2, ServerConstants DEF ProcessInv
  <1>8. \A i \in 1 .. Len(worker') : worker'[i].boot = boot'
    BY <1>1, <1>2 DEF ProcessInv
  <1>9. ProcessInv'
    BY <1>1, <1>2, <1>7, <1>8 DEF ProcessInv
  <1>10. GuardInv'
    BY <1>1 DEF GuardInv, SaveRequestId
  <1>11. QED
    BY <1>3, <1>4, <1>5, <1>6, <1>9, <1>10 DEF Answered

\* A storage failure says nothing about the journal.
LEMMA WorkerFailsStep ==
    ASSUME RemoteInv, UNCHANGED appRest, WorkerFails
    PROVE  RemoteInv'
  <1>0. PICK m : m = Head(worker)
    OBVIOUS
  <1>1. /\ worker # <<>> /\ worker' = Tail(worker)
        /\ UNCHANGED <<storeVars, proc, boot, published, guard, inbox, open>>
        /\ Send(m, "unavailable", None) \/ replies' = replies
    BY <1>0 DEF WorkerFails, WorkerHasTurn, Answer
  <1>2. /\ m \in InFlight /\ Answered(m) /\ InFlight' \subseteq InFlight
        /\ Apart' /\ GuardInv' /\ ProcessInv'
    BY <1>0, <1>1, HeadLeaves DEF storeVars
  <1>3. Grows /\ log' = log
    BY <1>1, QuietGrows
  <1>4. \A r : r.status = "unavailable" /\ r.response = None => Truthful(m, r)
    BY DEF Truthful, Definite
  <1>5. Serves
    BY <1>1, <1>2, <1>3, <1>4, AnswerServes
  <1>6. QED
    BY <1>2, <1>5, ServesKeeps

\* A save that commits goes to the end of the log.
LEMMA CommitGrows ==
    ASSUME RemoteInv, NEW m, Honest(m), m.path = "save", SaveSync(SaveOf(m))
    PROVE  /\ Grows /\ db' = db
           /\ log'[Journal] = Append(log[Journal], SaveOf(m))
           /\ InLog(SaveOf(m))'
  <1> DEFINE n == Len(log[Journal])
  <1>1. /\ SaveOf(m) = SaveOfBody(m.client, m.body) /\ m.client \in Client /\ m.body \in SaveBody
    BY HonestSave
  <1>2. SaveOf(m) \in SaveRequest /\ SaveOf(m).journal = Journal
    BY <1>1, SavesAreRequests, SaveFields
  <1>3. StoreInv'
    BY <1>2, StepPreserves DEF RemoteInv, StoreNext
  <1>4. /\ log \in [JournalId -> Seq(SaveRequest)] /\ Journal \in JournalId
        /\ log[Journal] \in Seq(SaveRequest) /\ n \in Nat
    BY Chain DEF RemoteInv, StoreInv, StoreTypeOK
  <1>5. log'[Journal] = Append(log[Journal], SaveOf(m)) /\ db' = db
    BY <1>2, <1>4 DEF SaveSync
  <1>6. /\ Len(log'[Journal]) = n + 1 /\ log'[Journal][n + 1] = SaveOf(m)
        /\ \A i \in 1 .. n : log'[Journal][i] = log[Journal][i]
    BY <1>2, <1>4, <1>5
  <1>7. Grows
    BY <1>3, <1>4, <1>6 DEF Grows
  <1>8. n + 1 \in 1 .. Len(log'[Journal])
    BY <1>4, <1>6
  <1>9. InLog(SaveOf(m))'
    BY <1>6, <1>8 DEF InLog, SaveOf, BodyDigest
  <1>10. QED
    BY <1>5, <1>7, <1>9

\* What the worker's answer to a request that commits nothing says is so.
LEMMA WorkerAnswerIsTruthful ==
    ASSUME RemoteInv, NEW m, Honest(m), UNCHANGED storeVars,
           ~(m.path = "save" /\ SaveOutcome(SaveOf(m)) = "committed"),
           NEW r, r.status = StatusOf(m),
           r.response = IF StatusOf(m) = "ok" THEN ResponseOf(m) ELSE None
    PROVE  Truthful(m, r)
  <1>1. log' = log
    BY DEF storeVars
  <1>2. CASE m.path = "save"
    <2> DEFINE s == SaveOf(m)
    <2>1. s = SaveOfBody(m.client, m.body) /\ m.client \in Client /\ m.body \in SaveBody
          /\ Follows(m.body) /\ StoreInv /\ LogInv
      BY <1>2, HonestSave DEF RemoteInv
    <2>2. StatusOf(m) = CASE SaveOutcome(s) \in {"committed", "replayed"} -> "ok"
                          [] SaveOutcome(s) = "storage_failure" -> "unavailable"
                          [] OTHER -> "conflict"
      BY <1>2 DEF StatusOf
    <2>3. CASE SaveOutcome(s) = "replayed"
      <3>1. r.status = "ok" /\ ~Definite(r.status)
        BY <2>2, <2>3 DEF Definite
      <3>2. InLog(s)
        BY <2>1, <2>3, ReplayedIsCommitted
      <3>3. InLog(SaveOf(m))'
        BY <1>1, <3>2 DEF InLog, SaveOf, BodyDigest
      <3>4. QED
        BY <1>2, <3>1, <3>3 DEF Truthful
    <2>4. CASE SaveOutcome(s) = "storage_failure"
      <3>1. r.status = "unavailable"
        BY <2>2, <2>4
      <3>2. QED
        BY <1>2, <3>1 DEF Truthful, Definite
    <2>5. CASE SaveOutcome(s) \notin {"committed", "replayed", "storage_failure"}
      <3>1. r.status = "conflict"
        BY <2>2, <2>5
      <3>2. Len(log[Journal]) >= m.body.root.generation + 1
        BY <2>1, <2>5, ConflictIsLate
      <3>3. QED
        BY <1>1, <1>2, <3>1, <3>2 DEF Truthful
    <2>6. QED
      BY <1>2, <2>3, <2>4, <2>5
  <1>3. CASE m.path = "load"
    <2>1. r.response = IF journals[Journal] = None THEN None ELSE journals[Journal].root
      BY <1>3 DEF StatusOf, ResponseOf
    <2>2. QED
      BY <1>1, <1>3, <2>1 DEF Truthful
  <1>4. CASE m.path \notin {"save", "load"}
    BY <1>4 DEF Truthful
  <1>5. QED
    BY <1>2, <1>3, <1>4

\* The worker answers the request at the head of its queue.
LEMMA WorkerRunsStep ==
    ASSUME RemoteInv, UNCHANGED appRest, WorkerRuns
    PROVE  RemoteInv'
  <1>0. PICK m : m = Head(worker)
    OBVIOUS
  <1> DEFINE response == IF StatusOf(m) = "ok" THEN ResponseOf(m) ELSE None
  <1>1. /\ worker # <<>> /\ worker' = Tail(worker)
        /\ UNCHANGED <<proc, boot, published, guard, inbox, open>>
        /\ Send(m, StatusOf(m), response) \/ replies' = replies
        /\ IF m.path = "save" /\ SaveOutcome(SaveOf(m)) = "committed"
           THEN SaveSync(SaveOf(m)) ELSE UNCHANGED storeVars
    BY <1>0 DEF WorkerRuns, WorkerHasTurn, Answer
  <1>2. db' = db
    BY <1>1 DEF SaveSync, storeVars
  <1>3. /\ m \in InFlight /\ Answered(m) /\ InFlight' \subseteq InFlight /\ Honest(m)
        /\ Apart' /\ GuardInv' /\ ProcessInv'
    BY <1>0, <1>1, <1>2, HeadLeaves
  <1>4. CASE m.path = "save" /\ SaveOutcome(SaveOf(m)) = "committed"
    <2>1. /\ Grows /\ log'[Journal] = Append(log[Journal], SaveOf(m)) /\ InLog(SaveOf(m))'
      BY <1>1, <1>3, <1>4, CommitGrows
    <2>2. StatusOf(m) = "ok"
      BY <1>4 DEF StatusOf
    <2>3. \A r : r.status = StatusOf(m) /\ r.response = response => Truthful(m, r)
      BY <1>4, <2>1, <2>2 DEF Truthful, Definite
    <2>4. PICK ok, answer : ok = StatusOf(m) /\ answer = response
      OBVIOUS
    <2> HIDE DEF response
    <2>5. Serves
      BY <1>1, <1>3, <1>4, <2>1, <2>3, <2>4, AnswerServes
    <2>6. QED
      BY <1>3, <2>5, ServesKeeps
  <1>5. CASE ~(m.path = "save" /\ SaveOutcome(SaveOf(m)) = "committed")
    <2>1. UNCHANGED storeVars
      BY <1>1, <1>5
    <2>2. Grows /\ log' = log
      BY <2>1, QuietGrows
    <2>3. \A r : r.status = StatusOf(m) /\ r.response = response => Truthful(m, r)
      BY <1>3, <1>5, <2>1, WorkerAnswerIsTruthful
    <2>4. PICK status, answer : status = StatusOf(m) /\ answer = response
      OBVIOUS
    <2> HIDE DEF response
    <2>5. Serves
      BY <1>1, <1>3, <2>2, <2>3, <2>4, AnswerServes
    <2>6. QED
      BY <1>3, <2>5, ServesKeeps
  <1>6. QED
    BY <1>4, <1>5

\* Whatever the App does, the invariant holds after it.
LEMMA ServerSteps ==
    ASSUME RemoteInv, UNCHANGED appRest, ServerNext
    PROVE  RemoteInv'
  BY ProcessSteps, WorkerRunsStep, WorkerFailsStep, RefuseUnsignedStep, AdmitStep DEF ServerNext

-----------------------------------------------------------------------------
(* Steps of a client. *)

\* Nobody asks or is answered on the next connection of a client yet.
NextConn(c) == <<c, cl[c].posts + 1>>

\* The request m goes out on the next connection of client c.
Asks(c, m) ==
    /\ m.client = c /\ m.conn = NextConn(c) /\ Honest(m)'
    /\ inbox' = inbox \cup {m}
    /\ cl'[c].posts = cl[c].posts + 1

\* One client moves: it may send a request, and stop waiting for another.
Moves(c) ==
    /\ UNCHANGED <<storeVars, procVars>>
    /\ cl' \in [Client -> ClientType] /\ \A d \in Client : d # c => cl'[d] = cl[d]
    /\ replies' \subseteq replies
    /\ \/ inbox' = inbox /\ cl'[c].posts = cl[c].posts
       \/ \E m \in Message : Asks(c, m)
    /\ \A r \in replies' : r.conn \in open'
    /\ \A k \in open' : \E d \in Client : cl'[d].call # None /\ cl'[d].call.conn = k

\* The next connection of a client is new.
LEMMA NextConnIsNew ==
    ASSUME RemoteInv, NEW c \in Client
    PROVE  /\ \A m \in InFlight : m.conn # NextConn(c)
           /\ \A r \in replies : r.conn # NextConn(c)
           /\ cl[c] \in ClientType /\ cl[c].posts \in Nat
  <1>1. cl \in [Client -> ClientType] /\ WireInv /\ \A d \in Client : CallInv(d)
    BY DEF RemoteInv, ClientInv
  <1>2. \A d \in Client : cl[d].posts \in Nat
    BY <1>1 DEF ClientType
  <1>3. ASSUME NEW m \in InFlight, m.conn = NextConn(c)
        PROVE  FALSE
    <2>1. m.client \in Client /\ m.conn \in {m.client} \X (1 .. cl[m.client].posts)
      BY <1>1 DEF WireInv, Honest, Message
    <2>2. m.client = c /\ cl[c].posts + 1 \in 1 .. cl[m.client].posts
      BY <1>3, <2>1 DEF NextConn
    <2>3. QED
      BY <1>2, <2>2
  <1>4. ASSUME NEW r \in replies, r.conn = NextConn(c)
        PROVE  FALSE
    <2>1. PICK d \in Client : cl[d].call # None /\ cl[d].call.conn = r.conn
      BY <1>1 DEF WireInv
    <2>2. r.conn = <<d, cl[d].posts>>
      BY <1>1, <2>1 DEF CallInv
    <2>3. d = c /\ cl[d].posts = cl[c].posts + 1
      BY <1>4, <2>2 DEF NextConn
    <2>4. QED
      BY <1>2, <2>3
  <1>5. QED
    BY <1>1, <1>2, <1>3, <1>4

\* A client's step leaves the App's state and what is in flight in order.
LEMMA MovesKeepWire ==
    ASSUME RemoteInv, NEW c \in Client, Moves(c)
    PROVE  /\ StoreInv' /\ LogInv' /\ ProcessInv' /\ GuardInv' /\ WireInv'
           /\ log' = log /\ boot' = boot /\ worker' = worker
  <1>1. /\ UNCHANGED <<storeVars, procVars>> /\ log' = log /\ boot' = boot /\ worker' = worker
        /\ WireInv /\ ProcessInv /\ GuardInv /\ LogInv
    BY DEF RemoteInv, Moves, storeVars, procVars
  <1>2. StoreInv'
    BY <1>1, StoreKeeps
  <1>3. LogInv'
    BY <1>1 DEF LogInv, SaveOfBody, SaveOf, BodyDigest, SaveRequestId
  <1>4. ProcessInv' /\ GuardInv'
    BY <1>1 DEF ProcessInv, GuardInv, storeVars, procVars, SaveRequestId
  <1>5. ASSUME NEW m \in InFlight
        PROVE  Honest(m)'
    <2>1. Honest(m) /\ m.client \in Client
      BY <1>1 DEF WireInv, Honest, Message
    <2>2. /\ cl[m.client].posts \in Nat /\ cl'[m.client].posts \in Nat
          /\ cl[m.client].posts <= cl'[m.client].posts
      <3>1. cl[m.client].posts \in Nat
        BY <2>1, NextConnIsNew
      <3>2. cl'[m.client].posts = cl[m.client].posts \/ cl'[m.client].posts = cl[m.client].posts + 1
        BY <2>1 DEF Moves, Asks
      <3>3. QED
        BY <3>1, <3>2
    <2>3. QED
      BY <1>1, <2>1, <2>2 DEF Honest, Follows, SaveRequestId, BodyDigest, RevisionOf
  <1>6. CASE inbox' = inbox
    <2>1. InFlight' = InFlight
      BY <1>1, <1>6 DEF InFlight
    <2>2. WireInv'
      BY <1>1, <1>5, <1>6, <2>1 DEF WireInv, Apart, Moves
    <2>3. QED
      BY <1>1, <1>2, <1>3, <1>4, <2>2
  <1>7. ASSUME NEW m \in Message, Asks(c, m)
        PROVE  WireInv'
    <2>1. InFlight' = InFlight \cup {m} /\ inbox' = inbox \cup {m}
      BY <1>1, <1>7 DEF InFlight, Asks
    <2>2. /\ \A n \in InFlight : n.conn # m.conn
          /\ \A r \in replies : r.conn # m.conn
      BY <1>7, NextConnIsNew DEF Asks
    <2>3. Apart'
      BY <1>1, <2>1, <2>2 DEF WireInv, Apart, InFlight
    <2>4. \A n \in InFlight' : Honest(n)'
      BY <1>5, <1>7, <2>1 DEF Asks
    <2>5. \A r \in replies' : r.conn \in open' /\ \A n \in InFlight' : n.conn # r.conn
      BY <1>1, <2>1, <2>2 DEF WireInv, Moves
    <2>6. \A r1, r2 \in replies' : r1.conn = r2.conn => r1 = r2
      BY <1>1 DEF WireInv, Moves
    <2>7. QED
      BY <2>3, <2>4, <2>5, <2>6 DEF WireInv, Moves
  <1>8. QED
    BY <1>1, <1>2, <1>3, <1>4, <1>6, <1>7 DEF Moves

\* In a step that leaves the log alone, what is committed stays the same.
LEMMA SameLog ==
    ASSUME log' = log, NEW s
    PROVE  (InLog(s)' <=> InLog(s)) /\ (Dead(s)' <=> Dead(s)) /\ (Follows(s)' <=> Follows(s))
  BY DEF InLog, Dead, Follows, RevisionOf

\* A client's step is nothing to the other clients.
LEMMA MovesKeepOthers ==
    ASSUME RemoteInv, NEW c \in Client, Moves(c), NEW d \in Client, d # c
    PROVE  ClientInv(d)'
  <1>1. /\ log' = log /\ boot' = boot /\ worker' = worker /\ cl'[d] = cl[d] /\ replies' \subseteq replies
        /\ ClientInv(d)
    BY MovesKeepWire DEF RemoteInv, Moves
  <1>2. PICK body : body = cl[d].pending
    OBVIOUS
  <1>3. /\ InLog(PendingSave(d))' <=> InLog(PendingSave(d))
        /\ Dead(PendingSave(d))' <=> Dead(PendingSave(d))
        /\ PendingSave(d)' = PendingSave(d)
        /\ Follows(cl[d].pending)' <=> Follows(cl[d].pending)
        /\ NextGeneration(d)' = NextGeneration(d)
    <2>1. PendingSave(d) = SaveOfBody(d, body)
      BY <1>2 DEF PendingSave
    <2>2. /\ InLog(SaveOfBody(d, body))' <=> InLog(SaveOfBody(d, body))
          /\ Dead(SaveOfBody(d, body))' <=> Dead(SaveOfBody(d, body))
          /\ Follows(body)' <=> Follows(body)
      BY <1>1, SameLog
    <2>3. /\ InLog(PendingSave(d))' <=> InLog(SaveOfBody(d, body))'
          /\ Dead(PendingSave(d))' <=> Dead(SaveOfBody(d, body))'
          /\ PendingSave(d)' = SaveOfBody(d, body)
      BY <1>1, <1>2, PendingNext
    <2>4. Follows(cl[d].pending)' <=> Follows(body)'
      BY <1>1, <1>2 DEF Follows
    <2>5. QED
      BY <1>1, <1>2, <2>1, <2>2, <2>3, <2>4 DEF NextGeneration
  <1>4. ASSUME NEW m \in InFlight', m \notin InFlight
        PROVE  m.client = c /\ m.conn = NextConn(c)
    BY <1>1, <1>4 DEF Moves, Asks, InFlight
  <1>5. ASSUME NEW m \in InFlight', cl[d].call # None, m.conn = cl[d].call.conn
        PROVE  m \in InFlight
    BY <1>1, <1>4, <1>5 DEF ClientInv, CallInv, NextConn
  <1>6. CallInv(d)' /\ SnapshotInv(d)'
    BY <1>1 DEF ClientInv, CallInv, SnapshotInv, Calling
  <1>7. PendingInv(d)'
    BY <1>1, <1>3 DEF ClientInv, PendingInv, Calling
  <1>8. OwnInv(d)'
    <2>1. \A body1 \in SaveBody : InLog(SaveOfBody(d, body1))' <=> InLog(SaveOfBody(d, body1))
      BY <1>1, SameLog
    <2>2. \A m \in InFlight' : m.client = d => m \in InFlight
      BY <1>4
    <2>3. QED
      BY <1>1, <1>3, <2>1, <2>2 DEF ClientInv, OwnInv
  <1>9. OutwardInv(d)'
    BY <1>1, <1>3, <1>5 DEF ClientInv, OutwardInv
  <1>10. FirstInv(d)'
    BY <1>1, <1>4 DEF ClientInv, FirstInv, Calling
  <1>11. InwardInv(d)'
    BY <1>1, <1>3 DEF ClientInv, InwardInv
  <1>12. QED
    BY <1>6, <1>7, <1>8, <1>9, <1>10, <1>11 DEF ClientInv

\* What is left to show of a client's step: its own state, and its reports.
LEMMA MovesKeep ==
    ASSUME RemoteInv, NEW c \in Client, Moves(c), ClientInv(c)', ReportInv'
    PROVE  RemoteInv'
  <1>1. \A d \in Client : ClientInv(d)'
    BY MovesKeepOthers
  <1>2. QED
    BY <1>1, MovesKeepWire DEF RemoteInv, Moves

-----------------------------------------------------------------------------
(* Operations. *)

Operations == {"hello", "load", "save", "replay", "barrier"}

\* The client waits for the answer to operation op, and its request is on its way.
Posted(c, op, path, body, upd) ==
    /\ Moves(c)
    /\ cl'[c] = [upd EXCEPT !.posts = cl[c].posts + 1,
                            !.call = [op |-> op, attempt |-> 1, conn |-> NextConn(c)]]
    /\ cl'[c].call # None
    /\ replies' = replies
    /\ \E m \in Message : /\ Asks(c, m) /\ m.path = path /\ m.body = body
                          /\ InFlight' = InFlight \cup {m}

\* What Post does for an operation that takes the free lock.
LEMMA PostFacts ==
    ASSUME RemoteInv, NEW c \in Client, NEW op \in Operations, NEW path \in Paths,
           NEW body \in Bodies, NEW upd \in ClientType,
           upd.posts = cl[c].posts, upd.boot \in 1 .. boot, cl[c].call = None,
           path = "save" => Follows(body), Post(c, op, 1, path, body, upd)
    PROVE  Posted(c, op, path, body, upd)
  <1>1. PICK m, conn : m = Request(c, upd.boot, path, body) /\ conn = NextConn(c)
    OBVIOUS
  <1> DEFINE call == [op |-> op, attempt |-> 1, conn |-> conn]
  <1>2. /\ m.conn = conn /\ m.client = c /\ m.path = path /\ m.boot = upd.boot /\ m.body = body
        /\ m.id = IF path = "save" THEN SaveOfBody(c, body).id ELSE <<"tfj", conn>>
        /\ m = [conn |-> m.conn, client |-> m.client, path |-> m.path, boot |-> m.boot,
                body |-> m.body, id |-> m.id]
    BY <1>1 DEF Request, NextConn
  <1>3. /\ cl[c].posts < MaxPosts
        /\ cl' = [cl EXCEPT ![c] = [upd EXCEPT !.posts = @ + 1, !.call = call]]
        /\ inbox' = inbox \cup {m} /\ open' = open \cup {conn}
        /\ UNCHANGED <<storeVars, procVars, replies>>
    BY <1>1, <1>2 DEF Post
  <1>4. /\ cl \in [Client -> ClientType] /\ cl[c].posts \in Nat /\ WireInv /\ ProcessInv
        /\ MaxPosts \in Nat
    BY NextConnIsNew, RemoteConstants DEF RemoteInv
  <1>5. conn \in Conns /\ conn \in Client \X Nat
    BY <1>1, <1>3, <1>4 DEF Conns, NextConn
  <1>6. call \in Call
    BY <1>5 DEF Call, Operations
  <1>7. cl'[c] = [upd EXCEPT !.posts = cl[c].posts + 1, !.call = call]
    BY <1>3, <1>4
  <1>8. cl[c].posts + 1 \in 0 .. MaxPosts
    BY <1>3, <1>4
  <1> HIDE DEF call
  <1>9. cl'[c] \in ClientType /\ cl'[c].call = call /\ cl'[c].posts = cl[c].posts + 1
    BY <1>6, <1>7, <1>8 DEF ClientType
  <1>10. cl'[c].call # None /\ cl'[c].call.conn = conn
    BY <1>6, <1>9, RemoteConstants DEF call
  <1>11. BodyDigest(m) = <<"sha256", c, path, body>> /\ BodyDigest(m) \in Digests
    BY <1>2 DEF BodyDigest, Digests
  <1>12. m.id \in Ids /\ (path = "save" => m.id = SaveRequestId(BodyDigest(m)))
    <2>1. path = "save" => m.id = <<"tfj", BodyDigest(m)>>
      BY <1>2, <1>11, SaveFields
    <2>2. m.id \in Ids
      BY <1>2, <1>5, <1>11, <2>1 DEF Ids
    <2>3. QED
      BY <2>1, <2>2 DEF SaveRequestId
  <1>13. upd.boot \in 1 .. MaxBoot
    BY <1>4, ServerConstants DEF ProcessInv
  <1>14. m \in Message
    BY <1>2, <1>5, <1>12, <1>13 DEF Message
  <1>15. Honest(m)'
    <2>1. boot' = boot /\ log' = log
      BY <1>3 DEF procVars, storeVars
    <2>2. m.conn \in {c} \X (1 .. cl'[c].posts)
      BY <1>1, <1>2, <1>4, <1>9 DEF NextConn
    <2>3. path = "save" => Follows(body)'
      BY <2>1, SameLog
    <2>4. Follows(body)' <=> Follows(m.body)'
      BY <1>2
    <2>5. path = "save" => m.id = SaveRequestId(BodyDigest(m))'
      BY <1>12 DEF BodyDigest, SaveRequestId
    <2>6. path # "save" => m.id = <<"tfj", m.conn>>
      BY <1>2
    <2>7. m.client = c /\ m.path = path /\ m.boot \in 1 .. boot'
      BY <1>2, <2>1
    <2>8. QED
      BY <1>14, <2>2, <2>3, <2>4, <2>5, <2>6, <2>7 DEF Honest
  <1>16. Asks(c, m)
    BY <1>1, <1>2, <1>3, <1>9, <1>15 DEF Asks
  <1>17. InFlight' = InFlight \cup {m}
    BY <1>3 DEF InFlight, procVars
  <1>18. \A k \in open' : \E d \in Client : cl'[d].call # None /\ cl'[d].call.conn = k
    <2>1. ASSUME NEW k \in open
          PROVE  \E d \in Client : cl'[d].call # None /\ cl'[d].call.conn = k
      <3>1. PICK d \in Client : cl[d].call # None /\ cl[d].call.conn = k
        BY <1>4 DEF WireInv
      <3>2. cl'[d] = cl[d]
        BY <1>3, <1>4, <3>1
      <3>3. QED
        BY <3>1, <3>2
    <2>2. QED
      BY <1>3, <1>10, <2>1
  <1>19. Moves(c)
    <2>1. \A d \in Client : d # c => cl'[d] = cl[d]
      BY <1>3, <1>4
    <2>2. cl' \in [Client -> ClientType]
      BY <1>3, <1>4, <1>7, <1>9
    <2>3. \A r \in replies' : r.conn \in open'
      BY <1>3, <1>4 DEF WireInv
    <2>4. QED
      BY <1>3, <1>14, <1>16, <1>18, <2>1, <2>2, <2>3 DEF Moves
  <1>20. QED
    BY <1>1, <1>2, <1>3, <1>7, <1>10, <1>14, <1>16, <1>17, <1>19 DEF call, Posted

\* What was reported stays so in a step that reports nothing and commits nothing.
LEMMA ReportsKept ==
    ASSUME RemoteInv, log' = log, UNCHANGED <<accepted, rejected>>
    PROVE  ReportInv'
  <1>1. /\ \A s \in accepted : InLog(s)
        /\ \A s \in rejected : s.root.generation \in Nat /\ Dead(s)
    BY DEF RemoteInv, ReportInv
  <1>2. QED
    BY <1>1, SameLog DEF ReportInv

\* An operation that keeps snapshot, pending save and commit: all but a new save.
LEMMA PostKeeps ==
    ASSUME RemoteInv, NEW c \in Client, NEW op \in {"hello", "load", "replay", "barrier"},
           NEW path \in Paths, NEW body \in Bodies, NEW upd \in ClientType,
           upd.posts = cl[c].posts, upd.boot \in 1 .. boot, cl[c].call = None,
           upd.pending = cl[c].pending, upd.snapshot = cl[c].snapshot,
           upd.commit = cl[c].commit, upd.poisoned = cl[c].poisoned,
           upd.phase # "new", op = "hello" <=> upd.phase = "opening",
           op \in {"hello", "load"} => ~cl[c].poisoned /\ cl[c].commit = None,
           op = "barrier" => cl[c].commit # None,
           IF op = "replay" THEN path = "save" /\ body = cl[c].pending /\ cl[c].pending # None
                            ELSE path = op,
           Post(c, op, 1, path, body, upd), UNCHANGED <<accepted, rejected>>
    PROVE  RemoteInv'
  <1>1. /\ ClientInv(c) /\ cl \in [Client -> ClientType] /\ CallInv(c) /\ SnapshotInv(c)
        /\ PendingInv(c) /\ OwnInv(c)
    BY DEF RemoteInv, ClientInv
  <1>2. path = "save" => Follows(body)
    BY <1>1 DEF PendingInv
  <1>3. /\ Moves(c) /\ replies' = replies /\ cl'[c].call # None
        /\ cl'[c] = [upd EXCEPT !.posts = cl[c].posts + 1,
                                !.call = [op |-> op, attempt |-> 1, conn |-> NextConn(c)]]
        /\ \E m \in Message : /\ Asks(c, m) /\ m.path = path /\ m.body = body
                              /\ InFlight' = InFlight \cup {m}
    <2>1. op \in Operations
      BY DEF Operations
    <2>2. Posted(c, op, path, body, upd)
      BY <1>2, <2>1, PostFacts
    <2>3. QED
      BY <2>2 DEF Posted
  <1>4. PICK m \in Message : /\ Asks(c, m) /\ m.path = path /\ m.body = body
                             /\ InFlight' = InFlight \cup {m}
    BY <1>3
  <1>5. /\ cl'[c].posts = cl[c].posts + 1 /\ cl'[c].boot = upd.boot /\ cl'[c].phase = upd.phase
        /\ cl'[c].call = [op |-> op, attempt |-> 1, conn |-> NextConn(c)]
        /\ cl'[c].snapshot = cl[c].snapshot /\ cl'[c].pending = cl[c].pending
        /\ cl'[c].commit = cl[c].commit /\ cl'[c].poisoned = cl[c].poisoned
    BY <1>3 DEF ClientType
  <1>6. log' = log /\ boot' = boot
    BY <1>3, MovesKeepWire
  <1>7. cl'[c].call.op = op /\ cl'[c].call.conn = NextConn(c) /\ m.client = c /\ m.conn = NextConn(c)
    BY <1>4, <1>5 DEF Asks
  <1>8. PICK pending : pending = cl[c].pending
    OBVIOUS
  <1>9. /\ InLog(PendingSave(c))' <=> InLog(PendingSave(c))
        /\ PendingSave(c)' = PendingSave(c)
        /\ Follows(cl[c].pending)' <=> Follows(cl[c].pending)
        /\ NextGeneration(c)' = NextGeneration(c)
    <2>1. /\ InLog(PendingSave(c))' <=> InLog(SaveOfBody(c, pending))'
          /\ PendingSave(c)' = SaveOfBody(c, pending)
      BY <1>5, <1>8, PendingNext
    <2>2. /\ InLog(SaveOfBody(c, pending))' <=> InLog(SaveOfBody(c, pending))
          /\ Follows(pending)' <=> Follows(pending)
      BY <1>6, SameLog
    <2>3. Follows(cl[c].pending)' <=> Follows(pending)'
      BY <1>5, <1>8 DEF Follows
    <2>4. QED
      BY <1>5, <1>8, <2>1, <2>2, <2>3 DEF PendingSave, NextGeneration
  <1>10. \A n \in InFlight : n.conn # NextConn(c)
    BY NextConnIsNew
  <1>11. CallInv(c)'
    <2>1. cl[c].posts + 1 # 0
      BY NextConnIsNew
    <2>2. QED
      BY <1>3, <1>5, <1>6, <1>7, <2>1 DEF CallInv, Calling, NextConn
  <1>12. SnapshotInv(c)'
    BY <1>1, <1>5, <1>6 DEF SnapshotInv
  <1>13. PendingInv(c)'
    <2>1. Calling(c, {"save", "replay"})' <=> op = "replay"
      BY <1>3, <1>7 DEF Calling
    <2>2. ~Calling(c, {"save", "replay"})
      BY DEF Calling
    <2>3. upd.phase = "opening" => ~cl[c].poisoned /\ cl[c].commit = None
      OBVIOUS
    <2>4. QED
      BY <1>1, <1>5, <1>9, <2>1, <2>2, <2>3 DEF PendingInv
  <1>14. OwnInv(c)'
    <2>1. \A b \in SaveBody : InLog(SaveOfBody(c, b))' <=> InLog(SaveOfBody(c, b))
      BY <1>6, SameLog
    <2>2. m.path = "save" => m.body = cl[c].pending
      BY <1>4
    <2>3. QED
      BY <1>1, <1>4, <1>5, <1>9, <2>1, <2>2 DEF OwnInv
  <1>15. OutwardInv(c)'
    <2>1. ASSUME NEW n \in InFlight', n.conn = NextConn(c)
          PROVE  n = m
      BY <1>4, <1>10, <2>1
    <2>2. QED
      BY <1>4, <1>5, <1>7, <2>1 DEF OutwardInv
  <1>16. FirstInv(c)'
    BY <1>7 DEF FirstInv, Calling
  <1>17. InwardInv(c)'
    BY <1>3, <1>7, NextConnIsNew DEF InwardInv
  <1>18. ClientInv(c)'
    BY <1>11, <1>12, <1>13, <1>14, <1>15, <1>16, <1>17 DEF ClientInv
  <1>19. QED
    BY <1>3, <1>6, <1>18, ReportsKept, MovesKeep

\* async_open, async_load, async_replay_save and async_barrier.
LEMMA PostSteps ==
    ASSUME RemoteInv, NEW c \in Client, Open(c) \/ Load(c) \/ ReplaySave(c) \/ Barrier(c)
    PROVE  RemoteInv'
  <1>1. /\ ClientInv(c) /\ cl[c] \in ClientType /\ CallInv(c) /\ PendingInv(c) /\ ProcessInv
        /\ boot \in Nat
    BY DEF RemoteInv, ClientInv, ProcessInv
  <1>2. \/ cl[c].pending = None \/ cl[c].pending \in SaveBody
    BY <1>1 DEF ClientType
  <1>3. CASE Open(c)
    <2>1. PICK upd : upd = [cl[c] EXCEPT !.phase = "opening", !.boot = published]
      OBVIOUS
    <2>2. cl[c].phase = "new" /\ published # 0 /\ cl[c].call = None
      BY <1>1, <1>3 DEF Open, CallInv
    <2>3. published \in 1 .. boot /\ published \in 0 .. MaxBoot
      BY <1>1, <2>2, ServerConstants DEF ProcessInv
    <2>4. /\ upd \in ClientType /\ upd.posts = cl[c].posts /\ upd.boot = published
          /\ upd.pending = cl[c].pending /\ upd.snapshot = cl[c].snapshot
          /\ upd.commit = cl[c].commit /\ upd.poisoned = cl[c].poisoned /\ upd.phase = "opening"
      BY <1>1, <2>1, <2>3 DEF ClientType
    <2>5. Post(c, "hello", 1, "hello", None, upd) /\ UNCHANGED <<accepted, rejected>>
      BY <1>3, <2>1 DEF Open
    <2>6. ~cl[c].poisoned /\ cl[c].commit = None
      BY <1>1, <2>2 DEF PendingInv
    <2>7. "hello" \in Paths /\ None \in Bodies
      BY DEF Paths, Bodies
    <2>8. QED
      BY <2>2, <2>3, <2>4, <2>5, <2>6, <2>7, PostKeeps
  <1>4. ASSUME cl[c].phase = "ready"
        PROVE  cl[c].boot \in 1 .. boot
    BY <1>1, <1>4 DEF CallInv
  <1>5. PICK upd : upd = cl[c]
    OBVIOUS
  <1>6. CASE Load(c)
    <2>1. /\ cl[c].phase = "ready" /\ cl[c].call = None /\ ~cl[c].poisoned /\ cl[c].commit = None
          /\ Post(c, "load", 1, "load", None, upd) /\ UNCHANGED <<accepted, rejected>>
      BY <1>5, <1>6 DEF Load, Usable
    <2>2. "load" \in Paths /\ None \in Bodies
      BY DEF Paths, Bodies
    <2>3. QED
      BY <1>1, <1>4, <1>5, <2>1, <2>2, PostKeeps
  <1>7. CASE ReplaySave(c)
    <2>1. PICK body : body = cl[c].pending
      OBVIOUS
    <2>2. /\ cl[c].phase = "ready" /\ cl[c].call = None /\ cl[c].pending # None
          /\ Post(c, "replay", 1, "save", body, upd) /\ UNCHANGED <<accepted, rejected>>
      BY <1>5, <1>7, <2>1 DEF ReplaySave
    <2>3. "save" \in Paths /\ body \in Bodies
      BY <1>2, <2>1, <2>2 DEF Paths, Bodies
    <2>4. QED
      BY <1>1, <1>4, <1>5, <2>1, <2>2, <2>3, PostKeeps
  <1>8. CASE Barrier(c)
    <2>1. PICK body : body = cl[c].commit
      OBVIOUS
    <2>2. /\ cl[c].phase = "ready" /\ cl[c].call = None /\ cl[c].commit # None
          /\ Post(c, "barrier", 1, "barrier", body, upd) /\ UNCHANGED <<accepted, rejected>>
      BY <1>5, <1>8, <2>1 DEF Barrier, Usable
    <2>3. "barrier" \in Paths /\ body \in Bodies
      BY <1>1, <2>1 DEF Paths, Bodies, ClientType
    <2>4. QED
      BY <1>1, <1>4, <1>5, <2>1, <2>2, <2>3, PostKeeps
  <1>9. QED
    BY <1>3, <1>6, <1>7, <1>8

\* What a client saves next is newer than all it saved before, and follows what it read.
LEMMA SaveFollows ==
    ASSUME RemoteInv, NEW c \in Client, SaveEnabled(c), NextGeneration(c) <= MaxGeneration,
           NEW payload \in Payload, NEW body,
           body = [expected |-> IF cl[c].snapshot = None THEN None ELSE RevisionOf(cl[c].snapshot),
                   root     |-> [journal |-> Journal, generation |-> NextGeneration(c),
                                 payload |-> payload]]
    PROVE  /\ Follows(body) /\ body \in SaveBody /\ body.root.generation = NextGeneration(c)
           /\ NextGeneration(c) \in Nat
           /\ cl[c].pending = None
           /\ ~InLog(SaveOfBody(c, body))
           /\ \A m \in InFlight : m.client = c /\ m.path = "save" =>
                  m.body # body /\ m.body.root.generation < NextGeneration(c)
           /\ \A b \in SaveBody : InLog(SaveOfBody(c, b)) => b.root.generation < NextGeneration(c)
  <1>1. /\ cl[c] \in ClientType /\ CallInv(c) /\ SnapshotInv(c) /\ PendingInv(c) /\ OwnInv(c)
        /\ WireInv /\ ChainFacts /\ cl[c].snapshot \in Root \cup {None}
    BY ChainEnds DEF RemoteInv, ClientInv, ClientType
  <1>2. cl[c].phase = "ready" /\ ~cl[c].poisoned /\ cl[c].call = None /\ cl[c].commit = None
    BY DEF SaveEnabled, Usable
  <1>3. cl[c].pending = None
    BY <1>1, <1>2 DEF PendingInv, Calling
  <1>4. /\ NextGeneration(c) \in Nat
        /\ cl[c].snapshot = None => NextGeneration(c) = 0
        /\ cl[c].snapshot # None =>
               /\ NextGeneration(c) \in 1 .. Len(log[Journal])
               /\ cl[c].snapshot = log[Journal][NextGeneration(c)].root
    <2>1. cl[c].snapshot # None => cl[c].snapshot.generation \in Nat
      BY <1>1, StoreConstants DEF Root, Generation
    <2>2. QED
      BY <1>1, <2>1 DEF NextGeneration, SnapshotInv
  <1>5. NextGeneration(c) \in Generation
    BY <1>4, StoreConstants DEF Generation
  <1>6. body.root \in Root /\ body.root.generation = NextGeneration(c)
    BY <1>5, ServerConstants DEF Root
  <1>7. body.expected \in Revision \cup {None}
    BY <1>1 DEF Revision
  <1>8. body \in SaveBody
    BY <1>6, <1>7 DEF SaveBody
  <1>9. Follows(body)
    <2>1. CASE cl[c].snapshot = None
      BY <1>4, <1>6, <1>8, <2>1 DEF Follows
    <2>2. CASE cl[c].snapshot # None
      <3>1. body.expected = RevisionOf(log[Journal][NextGeneration(c)].root)
        BY <1>4, <2>2
      <3>2. QED
        BY <1>1, <1>4, <1>6, <1>8, <2>2, <3>1 DEF Follows, ChainFacts
    <2>3. QED
      BY <2>1, <2>2
  <1>10. body # None
    BY <1>8, RemoteConstants
  <1>11. ASSUME NEW m \in InFlight, m.client = c, m.path = "save"
         PROVE  m.body # body /\ m.body.root.generation < NextGeneration(c)
    <2>1. m.body \in SaveBody
      BY <1>1, <1>11, HonestSave DEF WireInv
    <2>2. m.body.root.generation < NextGeneration(c)
      BY <1>1, <1>3, <1>11, <2>1, RemoteConstants DEF OwnInv
    <2>3. QED
      BY <1>4, <1>6, <2>2
  <1>12. ASSUME NEW b \in SaveBody, InLog(SaveOfBody(c, b))
         PROVE  b.root.generation < NextGeneration(c)
    BY <1>1, <1>3, <1>12, RemoteConstants DEF OwnInv
  <1>13. ~InLog(SaveOfBody(c, body))
    BY <1>4, <1>6, <1>8, <1>12
  <1>14. QED
    BY <1>3, <1>4, <1>6, <1>8, <1>9, <1>11, <1>12, <1>13

\* async_save: a first submission.
LEMMA SaveStep ==
    ASSUME RemoteInv, NEW c \in Client, NEW payload \in Payload, Save(c, payload)
    PROVE  RemoteInv'
  <1>1. PICK body, upd, g :
            /\ body = [expected |-> IF cl[c].snapshot = None THEN None ELSE RevisionOf(cl[c].snapshot),
                       root     |-> [journal |-> Journal, generation |-> NextGeneration(c),
                                     payload |-> payload]]
            /\ upd = [cl[c] EXCEPT !.pending = body]
            /\ g = NextGeneration(c)
    OBVIOUS
  <1>2. /\ SaveEnabled(c) /\ NextGeneration(c) <= MaxGeneration
        /\ Post(c, "save", 1, "save", body, upd) /\ UNCHANGED <<accepted, rejected>>
    BY <1>1 DEF Save
  <1>3. /\ Follows(body) /\ body \in SaveBody /\ body.root.generation = g /\ g \in Nat
        /\ cl[c].pending = None /\ ~InLog(SaveOfBody(c, body))
        /\ \A m \in InFlight : m.client = c /\ m.path = "save" =>
               m.body # body /\ m.body.root.generation < g
        /\ \A b \in SaveBody : InLog(SaveOfBody(c, b)) => b.root.generation < g
    BY <1>1, <1>2, SaveFollows
  <1>4. /\ cl[c] \in ClientType /\ CallInv(c) /\ SnapshotInv(c) /\ PendingInv(c)
        /\ cl[c].phase = "ready" /\ ~cl[c].poisoned /\ cl[c].call = None /\ cl[c].commit = None
    BY <1>2 DEF RemoteInv, ClientInv, SaveEnabled, Usable
  <1>5. /\ upd \in ClientType /\ upd.posts = cl[c].posts /\ upd.boot = cl[c].boot
        /\ upd.pending = body /\ upd.snapshot = cl[c].snapshot /\ upd.commit = cl[c].commit
        /\ upd.poisoned = cl[c].poisoned /\ upd.phase = cl[c].phase
    BY <1>1, <1>3, <1>4 DEF ClientType
  <1>6. Posted(c, "save", "save", body, upd)
    <2>1. "save" \in Operations /\ "save" \in Paths /\ body \in Bodies
      BY <1>3 DEF Operations, Paths, Bodies
    <2>2. upd.boot \in 1 .. boot
      BY <1>4, <1>5 DEF CallInv
    <2>3. QED
      BY <1>2, <1>3, <1>4, <1>5, <2>1, <2>2, PostFacts
  <1>7. PICK m \in Message : /\ Asks(c, m) /\ m.path = "save" /\ m.body = body
                             /\ InFlight' = InFlight \cup {m}
    BY <1>6 DEF Posted
  <1>8. /\ Moves(c) /\ replies' = replies /\ cl'[c].call # None
        /\ cl'[c].posts = cl[c].posts + 1 /\ cl'[c].boot = upd.boot /\ cl'[c].phase = "ready"
        /\ cl'[c].call = [op |-> "save", attempt |-> 1, conn |-> NextConn(c)]
        /\ cl'[c].snapshot = cl[c].snapshot /\ cl'[c].pending = body
        /\ cl'[c].commit = None /\ cl'[c].poisoned = FALSE
    BY <1>4, <1>5, <1>6 DEF Posted, ClientType
  <1>9. log' = log /\ boot' = boot
    BY <1>8, MovesKeepWire
  <1>10. /\ cl'[c].call.op = "save" /\ cl'[c].call.conn = NextConn(c)
         /\ m.client = c /\ m.conn = NextConn(c)
         /\ \A n \in InFlight : n.conn # NextConn(c)
    BY <1>7, <1>8, NextConnIsNew DEF Asks
  <1>11. /\ ~InLog(PendingSave(c))' /\ Follows(body)' /\ NextGeneration(c)' = g
         /\ \A b \in SaveBody : InLog(SaveOfBody(c, b))' => b.root.generation < g
    <2>1. InLog(PendingSave(c))' <=> InLog(SaveOfBody(c, body))'
      BY <1>8, PendingNext
    <2>2. /\ InLog(SaveOfBody(c, body))' <=> InLog(SaveOfBody(c, body))
          /\ Follows(body)' <=> Follows(body)
          /\ \A b \in SaveBody : InLog(SaveOfBody(c, b))' <=> InLog(SaveOfBody(c, b))
      BY <1>9, SameLog
    <2>3. QED
      BY <1>1, <1>3, <1>8, <2>1, <2>2 DEF NextGeneration
  <1>12. CallInv(c)'
    <2>1. cl[c].posts + 1 # 0
      BY NextConnIsNew
    <2>2. QED
      BY <1>4, <1>5, <1>8, <1>9, <1>10, <2>1 DEF CallInv, Calling, NextConn
  <1>13. SnapshotInv(c)'
    BY <1>4, <1>8, <1>9 DEF SnapshotInv
  <1>14. PendingInv(c)'
    <2>1. body # None /\ Calling(c, {"save", "replay"})'
      BY <1>3, <1>8, <1>10, RemoteConstants DEF Calling
    <2>2. Follows(cl[c].pending)'
      BY <1>8, <1>11 DEF Follows
    <2>3. NextGeneration(c)' <= cl'[c].pending.root.generation + 1
      BY <1>3, <1>8, <1>11
    <2>4. QED
      BY <1>8, <2>1, <2>2, <2>3 DEF PendingInv
  <1>15. OwnInv(c)'
    BY <1>3, <1>7, <1>8, <1>11 DEF OwnInv
  <1>16. \A n \in InFlight' : n.conn = NextConn(c) => n = m
    BY <1>7, <1>10
  <1>17. OutwardInv(c)'
    BY <1>7, <1>8, <1>10, <1>11, <1>16 DEF OutwardInv
  <1>18. FirstInv(c)'
    BY <1>3, <1>7, <1>8, <1>10 DEF FirstInv
  <1>19. InwardInv(c)'
    BY <1>8, <1>10, NextConnIsNew DEF InwardInv
  <1>20. ClientInv(c)'
    BY <1>12, <1>13, <1>14, <1>15, <1>17, <1>18, <1>19 DEF ClientInv
  <1>21. QED
    BY <1>2, <1>8, <1>9, <1>20, ReportsKept, MovesKeep

-----------------------------------------------------------------------------
(* Steps that end a call, or send nothing. *)

\* A client's new state, when it sends nothing.
LEMMA QuietMoves ==
    ASSUME RemoteInv, NEW c \in Client, NEW new \in ClientType, new.posts = cl[c].posts,
           cl' = [cl EXCEPT ![c] = new], UNCHANGED <<storeVars, procVars, inbox>>,
           \/ new.call = cl[c].call /\ UNCHANGED <<open, replies>>
           \/ /\ cl[c].call # None /\ open' = open \ {cl[c].call.conn}
              /\ \A r \in replies' : r \in replies /\ r.conn # cl[c].call.conn
    PROVE  Moves(c) /\ cl'[c] = new /\ log' = log /\ boot' = boot /\ InFlight' = InFlight
  <1>1. /\ cl \in [Client -> ClientType] /\ WireInv
    BY DEF RemoteInv
  <1>2. cl'[c] = new /\ \A d \in Client : d # c => cl'[d] = cl[d]
    BY <1>1
  <1>3. ASSUME NEW k \in open'
        PROVE  \E d \in Client : cl'[d].call # None /\ cl'[d].call.conn = k
    <2>1. k \in open
      BY <1>3
    <2>2. PICK d \in Client : cl[d].call # None /\ cl[d].call.conn = k
      BY <1>1, <2>1 DEF WireInv
    <2>3. CASE d = c
      BY <1>2, <1>3, <2>2, <2>3
    <2>4. CASE d # c
      BY <1>2, <2>2, <2>4
    <2>5. QED
      BY <2>3, <2>4
  <1>4. \A r \in replies' : r \in replies /\ r.conn \in open'
    BY <1>1 DEF WireInv
  <1>5. cl' \in [Client -> ClientType]
    BY <1>1
  <1>6. Moves(c)
    BY <1>2, <1>3, <1>4, <1>5 DEF Moves
  <1>7. QED
    BY <1>2, <1>6 DEF storeVars, procVars, InFlight

\* Snapshot, pending save and commit stay: what a client knows of them does too.
LEMMA StateKept ==
    ASSUME RemoteInv, NEW c \in Client, log' = log,
           cl'[c].pending = cl[c].pending, cl'[c].snapshot = cl[c].snapshot,
           cl'[c].commit = cl[c].commit,
           \A m \in InFlight' : m.path = "save" => m \in InFlight,
           cl'[c].phase \in {"new", "opening"} => ~cl'[c].poisoned /\ cl[c].commit = None,
           Calling(c, {"save", "replay"})' => Calling(c, {"save", "replay"}),
           ~cl'[c].poisoned /\ ~Calling(c, {"save", "replay"})' =>
               ~cl[c].poisoned /\ ~Calling(c, {"save", "replay"})
    PROVE  SnapshotInv(c)' /\ PendingInv(c)' /\ OwnInv(c)'
  <1>1. SnapshotInv(c) /\ PendingInv(c) /\ OwnInv(c)
    BY DEF RemoteInv, ClientInv
  <1>2. PICK pending : pending = cl[c].pending
    OBVIOUS
  <1>3. /\ InLog(PendingSave(c))' <=> InLog(PendingSave(c))
        /\ PendingSave(c)' = PendingSave(c)
        /\ Follows(cl[c].pending)' <=> Follows(cl[c].pending)
        /\ NextGeneration(c)' = NextGeneration(c)
    <2>1. /\ InLog(PendingSave(c))' <=> InLog(SaveOfBody(c, pending))'
          /\ PendingSave(c)' = SaveOfBody(c, pending)
      BY <1>2, PendingNext
    <2>2. /\ InLog(SaveOfBody(c, pending))' <=> InLog(SaveOfBody(c, pending))
          /\ Follows(pending)' <=> Follows(pending)
      BY SameLog
    <2>3. Follows(cl[c].pending)' <=> Follows(pending)'
      BY <1>2 DEF Follows
    <2>4. QED
      BY <1>2, <2>1, <2>2, <2>3 DEF PendingSave, NextGeneration
  <1>4. SnapshotInv(c)'
    BY <1>1 DEF SnapshotInv
  <1>5. PendingInv(c)'
    BY <1>1, <1>3 DEF PendingInv
  <1>6. OwnInv(c)'
    <2>1. \A b \in SaveBody : InLog(SaveOfBody(c, b))' <=> InLog(SaveOfBody(c, b))
      BY SameLog
    <2>2. QED
      BY <1>1, <1>3, <2>1 DEF OwnInv
  <1>7. QED
    BY <1>4, <1>5, <1>6

\* SaveRefusedLocally, and async_close.
LEMMA LocalSteps ==
    ASSUME RemoteInv, NEW c \in Client, SaveRefusedLocally(c) \/ Close(c)
    PROVE  RemoteInv'
  <1>1. PICK new : new = cl'[c]
    OBVIOUS
  <1>2. /\ cl \in [Client -> ClientType] /\ cl[c] \in ClientType /\ CallInv(c) /\ PendingInv(c)
        /\ OutwardInv(c) /\ FirstInv(c) /\ InwardInv(c) /\ WireInv
    BY DEF RemoteInv, ClientInv
  <1>3. /\ UNCHANGED <<storeVars, serverVars, accepted, rejected>>
        /\ cl[c].phase = "ready"
        /\ \/ /\ new = [cl[c] EXCEPT !.poisoned = TRUE, !.ambiguous = FALSE, !.replay = FALSE]
              /\ cl[c].call = None
           \/ new = [cl[c] EXCEPT !.phase = IF cl[c].call = None THEN "closed" ELSE "closing"]
    BY <1>1, <1>2 DEF SaveRefusedLocally, Close, SaveEnabled, Usable
  <1>4. cl' = [cl EXCEPT ![c] = new]
    BY <1>1, <1>2 DEF SaveRefusedLocally, Close
  <1>5. /\ new \in ClientType /\ new.posts = cl[c].posts /\ new.call = cl[c].call
        /\ new.boot = cl[c].boot /\ new.snapshot = cl[c].snapshot /\ new.pending = cl[c].pending
        /\ new.commit = cl[c].commit /\ new.phase \in {"ready", "closed", "closing"}
        /\ new.poisoned = cl[c].poisoned \/ (new.poisoned /\ new.call = None)
    BY <1>2, <1>3 DEF ClientType
  <1>6. /\ UNCHANGED <<storeVars, procVars, inbox>> /\ UNCHANGED <<open, replies>>
    BY <1>3 DEF serverVars, netVars
  <1>7. Moves(c) /\ cl'[c] = new /\ log' = log /\ boot' = boot /\ InFlight' = InFlight
    BY <1>4, <1>5, <1>6, QuietMoves
  <1>8. /\ Calling(c, {"save", "replay"})' <=> Calling(c, {"save", "replay"})
        /\ Calling(c, {"hello"})' <=> Calling(c, {"hello"})
        /\ Calling(c, {"hello", "load"})' <=> Calling(c, {"hello", "load"})
        /\ Calling(c, {"save"})' <=> Calling(c, {"save"})
        /\ Calling(c, {"barrier"})' <=> Calling(c, {"barrier"})
    BY <1>5, <1>7 DEF Calling
  <1>9. SnapshotInv(c)' /\ PendingInv(c)' /\ OwnInv(c)'
    BY <1>5, <1>7, <1>8, StateKept
  <1>10. CallInv(c)'
    <2>1. Calling(c, {"hello", "load"})' => ~new.poisoned
      BY <1>2, <1>5, <1>8 DEF CallInv, Calling
    <2>2. ~Calling(c, {"hello"})
      BY <1>2, <1>3 DEF CallInv
    <2>3. QED
      BY <1>2, <1>3, <1>5, <1>7, <1>8, <2>1, <2>2 DEF CallInv
  <1>11. /\ InLog(PendingSave(c))' <=> InLog(PendingSave(c))
         /\ Dead(PendingSave(c))' <=> Dead(PendingSave(c))
    <2>1. PICK pending : pending = cl[c].pending
      OBVIOUS
    <2>2. PendingSave(c) = SaveOfBody(c, pending)
      BY <2>1 DEF PendingSave
    <2>3. QED
      BY <1>5, <1>7, <2>1, <2>2, PendingNext, SameLog
  <1>12. OutwardInv(c)' /\ FirstInv(c)'
    BY <1>2, <1>5, <1>7, <1>8, <1>11 DEF OutwardInv, FirstInv, Calling
  <1>13. InwardInv(c)'
    BY <1>2, <1>5, <1>6, <1>7, <1>11 DEF InwardInv
  <1>14. ClientInv(c)'
    BY <1>9, <1>10, <1>12, <1>13 DEF ClientInv
  <1>15. QED
    BY <1>3, <1>7, <1>14, ReportsKept, MovesKeep

-----------------------------------------------------------------------------
(* Responses. *)

\* A call that ends: nothing is on its way for the client any more.
LEMMA EndKeeps ==
    ASSUME RemoteInv, NEW c \in Client, Moves(c), cl'[c].call = None,
           cl'[c].posts = cl[c].posts, cl'[c].boot = cl[c].boot, cl[c].phase # "new",
           cl'[c].phase \notin {"new", "opening"},
           SnapshotInv(c)', PendingInv(c)', OwnInv(c)', ReportInv'
    PROVE  RemoteInv'
  <1>1. CallInv(c)'
    BY MovesKeepWire DEF RemoteInv, ClientInv, CallInv, Calling
  <1>2. OutwardInv(c)' /\ FirstInv(c)' /\ InwardInv(c)'
    BY DEF OutwardInv, FirstInv, InwardInv, Calling
  <1>3. QED
    BY <1>1, <1>2, MovesKeep DEF ClientInv

\* The end of a call on the wire: its connection closes, and with it its replies.
Ended(c) ==
    /\ cl[c].call # None
    /\ UNCHANGED <<storeVars, procVars, inbox>>
    /\ open' = open \ {cl[c].call.conn}
    /\ \A r \in replies' : r \in replies /\ r.conn # cl[c].call.conn

\* Where a call can end, and the phase its end leads to.
LEMMA DoneFacts ==
    ASSUME RemoteInv, NEW c \in Client, cl[c].call # None
    PROVE  /\ cl[c] \in ClientType /\ cl \in [Client -> ClientType] /\ ClientInv(c)
           /\ cl[c].phase # "new"
           /\ cl[c].call.op \in Operations
           /\ cl[c].call.op = "hello" <=> cl[c].phase = "opening"
           /\ Done(c) = [cl[c] EXCEPT !.call = None,
                                      !.phase = IF cl[c].phase = "closing" THEN "closed"
                                                                           ELSE cl[c].phase]
           /\ Done(c) \in ClientType
  <1>1. /\ cl[c] \in ClientType /\ cl \in [Client -> ClientType] /\ ClientInv(c) /\ CallInv(c)
    BY DEF RemoteInv, ClientInv
  <1>2. cl[c].call.op \in Operations
    BY <1>1 DEF ClientType, Call, Operations
  <1>3. Done(c) = [cl[c] EXCEPT !.call = None,
                                !.phase = IF cl[c].phase = "closing" THEN "closed"
                                                                     ELSE cl[c].phase]
    BY <1>1 DEF Done, ClientType
  <1>4. QED
    BY <1>1, <1>2, <1>3 DEF CallInv, Calling, ClientType

\* A call that ends without news: snapshot, pending save and commit stay, and a save
\* that may have been committed poisons the client.
LEMMA EndsWithoutNews ==
    ASSUME RemoteInv, NEW c \in Client, Ended(c), UNCHANGED <<accepted, rejected>>,
           NEW new \in ClientType, cl' = [cl EXCEPT ![c] = new],
           new.posts = cl[c].posts, new.boot = cl[c].boot, new.call = None,
           new.snapshot = cl[c].snapshot, new.pending = cl[c].pending, new.commit = cl[c].commit,
           new.phase \notin {"new", "opening"},
           new.poisoned \/ (cl[c].call.op \notin {"save", "replay"} /\ ~cl[c].poisoned)
    PROVE  RemoteInv'
  <1>1. Moves(c) /\ cl'[c] = new /\ log' = log /\ boot' = boot /\ InFlight' = InFlight
    BY QuietMoves DEF Ended
  <1>2. SnapshotInv(c)' /\ PendingInv(c)' /\ OwnInv(c)'
    <2>1. ~Calling(c, {"save", "replay"})'
      BY <1>1 DEF Calling
    <2>2. ~new.poisoned => ~cl[c].poisoned /\ ~Calling(c, {"save", "replay"})
      BY DEF Calling
    <2>3. QED
      BY <1>1, <2>1, <2>2, StateKept
  <1>3. ReportInv'
    BY <1>1, ReportsKept
  <1>4. cl[c].phase # "new"
    BY DoneFacts DEF Ended
  <1>5. QED
    BY <1>1, <1>2, <1>3, <1>4, EndKeeps

\* _mark_poisoned: any call but the opening one may end so.
LEMMA PoisonEnds ==
    ASSUME RemoteInv, NEW c \in Client, Ended(c), cl[c].call.op # "hello",
           NEW ambiguous \in BOOLEAN, NEW replay \in BOOLEAN, Poison(c, ambiguous, replay)
    PROVE  RemoteInv'
  <1>1. PICK new : new = [Done(c) EXCEPT !.poisoned = TRUE, !.ambiguous = ambiguous, !.replay = replay]
    OBVIOUS
  <1>2. cl' = [cl EXCEPT ![c] = new] /\ UNCHANGED <<accepted, rejected>>
    BY <1>1 DEF Poison
  <1>3. /\ cl[c] \in ClientType /\ cl[c].phase \notin {"new", "opening"}
        /\ Done(c) = [cl[c] EXCEPT !.call = None,
                                   !.phase = IF cl[c].phase = "closing" THEN "closed"
                                                                        ELSE cl[c].phase]
    BY DoneFacts DEF Ended
  <1>4. /\ new \in ClientType /\ new.posts = cl[c].posts /\ new.boot = cl[c].boot
        /\ new.call = None /\ new.snapshot = cl[c].snapshot /\ new.pending = cl[c].pending
        /\ new.commit = cl[c].commit /\ new.phase \notin {"new", "opening"} /\ new.poisoned
    BY <1>1, <1>3 DEF ClientType
  <1>5. QED
    BY <1>2, <1>4, EndsWithoutNews

\* The opening call succeeds or fails: nothing was ever saved.
LEMMA HelloEnds ==
    ASSUME RemoteInv, NEW c \in Client, Ended(c), cl[c].call.op = "hello",
           NEW phase \in {"ready", "closed"}, cl' = [cl EXCEPT ![c] = [Done(c) EXCEPT !.phase = phase]],
           UNCHANGED <<accepted, rejected>>
    PROVE  RemoteInv'
  <1>1. PICK new : new = [Done(c) EXCEPT !.phase = phase]
    OBVIOUS
  <1>2. /\ cl[c] \in ClientType /\ ClientInv(c)
        /\ Done(c) = [cl[c] EXCEPT !.call = None,
                                   !.phase = IF cl[c].phase = "closing" THEN "closed"
                                                                        ELSE cl[c].phase]
    BY DoneFacts DEF Ended
  <1>3. ~cl[c].poisoned
    BY <1>2 DEF ClientInv, CallInv, Calling, Ended
  <1>4. /\ new \in ClientType /\ new.posts = cl[c].posts /\ new.boot = cl[c].boot
        /\ new.call = None /\ new.snapshot = cl[c].snapshot /\ new.pending = cl[c].pending
        /\ new.commit = cl[c].commit /\ new.phase \notin {"new", "opening"}
    BY <1>1, <1>2 DEF ClientType
  <1>5. QED
    BY <1>1, <1>3, <1>4, EndsWithoutNews

\* A load tells a snapshot that is committed, and no older than the one before.
LEMMA LoadEnds ==
    ASSUME RemoteInv, NEW c \in Client, Ended(c), cl[c].call.op = "load",
           NEW r \in replies, r.conn = cl[c].call.conn, r.status = "ok",
           cl' = [cl EXCEPT ![c] = [Done(c) EXCEPT !.snapshot = r.response, !.saveReady = TRUE]],
           UNCHANGED <<accepted, rejected>>
    PROVE  RemoteInv'
  <1>1. PICK new : new = [Done(c) EXCEPT !.snapshot = r.response, !.saveReady = TRUE]
    OBVIOUS
  <1>2. /\ cl[c] \in ClientType /\ ClientInv(c) /\ cl[c].phase \notin {"new", "opening"}
        /\ Done(c) = [cl[c] EXCEPT !.call = None,
                                   !.phase = IF cl[c].phase = "closing" THEN "closed"
                                                                        ELSE cl[c].phase]
    BY DoneFacts DEF Ended
  <1>3. /\ r.response = None => cl[c].snapshot = None
        /\ r.response # None =>
               /\ r.response \in Root
               /\ r.response.generation + 1 \in 1 .. Len(log[Journal])
               /\ r.response = log[Journal][r.response.generation + 1].root
               /\ cl[c].snapshot # None => cl[c].snapshot.generation <= r.response.generation
    BY <1>2 DEF ClientInv, InwardInv, Ended
  <1>4. r.response \in Root \cup {None}
    BY <1>3
  <1>5. /\ new \in ClientType /\ new.posts = cl[c].posts /\ new.boot = cl[c].boot
        /\ new.call = None /\ new.snapshot = r.response /\ new.pending = cl[c].pending
        /\ new.commit = cl[c].commit /\ new.phase \notin {"new", "opening"}
        /\ new.poisoned = cl[c].poisoned
    BY <1>1, <1>2, <1>4 DEF ClientType
  <1>6. Moves(c) /\ cl'[c] = new /\ log' = log /\ boot' = boot /\ InFlight' = InFlight
    BY <1>1, <1>5, QuietMoves DEF Ended
  <1>7. ~cl[c].poisoned /\ cl[c].commit = None
    BY <1>2 DEF ClientInv, CallInv, Calling, Ended
  <1>8. cl[c].pending = None
    BY <1>2, <1>7 DEF ClientInv, PendingInv, Calling
  <1>9. SnapshotInv(c)'
    BY <1>3, <1>5, <1>6 DEF SnapshotInv
  <1>10. PendingInv(c)'
    BY <1>5, <1>6, <1>7, <1>8 DEF PendingInv, Calling
  <1>11. OwnInv(c)'
    <2>1. NextGeneration(c) \in Nat /\ NextGeneration(c)' \in Nat /\ NextGeneration(c) <= NextGeneration(c)'
      <3>1. NextGeneration(c)' = IF r.response = None THEN 0 ELSE r.response.generation + 1
        BY <1>5, <1>6 DEF NextGeneration
      <3>2. /\ cl[c].snapshot # None => cl[c].snapshot.generation \in Nat
            /\ r.response # None => r.response.generation \in Nat
        BY <1>2, <1>3, StoreConstants DEF ClientType, Root, Generation
      <3>3. QED
        BY <1>3, <3>1, <3>2 DEF NextGeneration
    <2>2. ASSUME NEW b \in SaveBody, b.root.generation < NextGeneration(c)
          PROVE  b.root.generation < NextGeneration(c)'
      <3>1. b.root.generation \in Nat
        BY SavesAreRequests DEF SaveBody, Root, Generation
      <3>2. QED
        BY <2>1, <2>2, <3>1
    <2>3. \A b \in SaveBody : InLog(SaveOfBody(c, b))' <=> InLog(SaveOfBody(c, b))
      BY <1>6, SameLog
    <2>4. \A b \in SaveBody : b # None
      BY RemoteConstants
    <2>5. \A m \in InFlight : m.client = c /\ m.path = "save" => m.body \in SaveBody
      BY HonestSave DEF RemoteInv, WireInv
    <2>6. OwnInv(c)
      BY <1>2 DEF ClientInv
    <2>7. QED
      BY <1>6, <1>8, <2>2, <2>3, <2>4, <2>5, <2>6 DEF OwnInv
  <1>12. ReportInv'
    BY <1>6, ReportsKept
  <1>13. QED
    BY <1>2, <1>5, <1>6, <1>9, <1>10, <1>11, <1>12, EndKeeps

\* A confirmed save is in the journal: its root is the snapshot, its token the commit.
LEMMA AcceptEnds ==
    ASSUME RemoteInv, NEW c \in Client, Ended(c), cl[c].call.op \in {"save", "replay"},
           InLog(PendingSave(c)), AcceptSave(c)
    PROVE  RemoteInv'
  <1>1. PICK body, s : body = cl[c].pending /\ s = PendingSave(c)
    OBVIOUS
  <1>2. /\ cl[c] \in ClientType /\ ClientInv(c) /\ cl[c].phase \notin {"new", "opening"}
        /\ Done(c) = [cl[c] EXCEPT !.call = None,
                                   !.phase = IF cl[c].phase = "closing" THEN "closed"
                                                                        ELSE cl[c].phase]
    BY DoneFacts DEF Ended
  <1>3. Follows(body) /\ body \in SaveBody /\ body # None /\ NextGeneration(c) <= body.root.generation + 1
    BY <1>1, <1>2 DEF ClientInv, PendingInv, Calling, Ended, Follows
  <1>4. /\ s = SaveOfBody(c, body) /\ InLog(s) /\ s.root = body.root
        /\ s.id \in RequestId /\ s.digest \in Digest
        /\ body.root \in Root /\ body.root # None /\ body.root.generation \in Nat
    BY <1>1, <1>3, SaveFields, SavesAreRequests DEF PendingSave
  <1>5. CommitToken(s.id, s.digest) \in Token /\ CommitToken(s.id, s.digest) # None
    <2>1. CommitToken(s.id, s.digest) \in Token
      BY <1>4 DEF Token
    <2>2. QED
      BY <2>1, RemoteConstants
  <1>6. PICK new : new = [Done(c) EXCEPT
                !.snapshot = body.root, !.saveReady = FALSE,
                !.commit = CommitToken(s.id, s.digest),
                !.poisoned = FALSE, !.ambiguous = FALSE, !.replay = TRUE]
    OBVIOUS
  <1>7. cl' = [cl EXCEPT ![c] = new] /\ accepted' = accepted \cup {s} /\ rejected' = rejected
    BY <1>1, <1>6 DEF AcceptSave
  <1>8. /\ new \in ClientType /\ new.posts = cl[c].posts /\ new.boot = cl[c].boot
        /\ new.call = None /\ new.snapshot = body.root /\ new.pending = body
        /\ new.commit = CommitToken(s.id, s.digest) /\ new.phase \notin {"new", "opening"}
    BY <1>1, <1>2, <1>4, <1>5, <1>6 DEF ClientType
  <1>9. Moves(c) /\ cl'[c] = new /\ log' = log /\ boot' = boot /\ InFlight' = InFlight
    BY <1>7, <1>8, QuietMoves DEF Ended
  <1>10. /\ body.root.generation + 1 \in 1 .. Len(log[Journal])
         /\ log[Journal][body.root.generation + 1].root = body.root
    BY <1>4, InLogAt DEF RemoteInv
  <1>11. InLog(s)' /\ Follows(body)' /\ (InLog(PendingSave(c))' <=> InLog(s)')
         /\ PendingSave(c)' = s
    <2>1. InLog(PendingSave(c))' <=> InLog(SaveOfBody(c, body))'
      BY <1>8, <1>9, PendingNext
    <2>2. InLog(SaveOfBody(c, body))' <=> InLog(s)'
      BY <1>4
    <2>3. PendingSave(c)' = SaveOfBody(c, body)
      BY <1>8, <1>9, PendingNext
    <2>4. QED
      BY <1>3, <1>4, <1>9, <2>1, <2>2, <2>3, SameLog
  <1>12. SnapshotInv(c)'
    BY <1>8, <1>9, <1>10 DEF SnapshotInv
  <1>13. NextGeneration(c)' = body.root.generation + 1
    BY <1>4, <1>8, <1>9 DEF NextGeneration
  <1>14. PendingInv(c)'
    <2>1. Follows(cl[c].pending)'
      BY <1>8, <1>9, <1>11 DEF Follows
    <2>2. NextGeneration(c)' <= cl'[c].pending.root.generation + 1
      BY <1>4, <1>8, <1>9, <1>13
    <2>3. QED
      BY <1>3, <1>4, <1>5, <1>8, <1>9, <1>11, <2>1, <2>2 DEF PendingInv, Calling
  <1>15. OwnInv(c)'
    <2>1. ASSUME NEW b \in SaveBody, b.root.generation < NextGeneration(c)
          PROVE  b.root.generation < NextGeneration(c)'
      <3>1. b.root.generation \in Nat /\ NextGeneration(c) \in Nat
        BY <1>2, StoreConstants DEF SaveBody, Root, Generation, NextGeneration, ClientType
      <3>2. QED
        BY <1>3, <1>4, <1>13, <2>1, <3>1
    <2>2. \A b \in SaveBody : InLog(SaveOfBody(c, b))' <=> InLog(SaveOfBody(c, b))
      BY <1>9, SameLog
    <2>3. \A m \in InFlight : m.client = c /\ m.path = "save" => m.body \in SaveBody
      BY HonestSave DEF RemoteInv, WireInv
    <2>4. OwnInv(c)
      BY <1>2 DEF ClientInv
    <2>5. QED
      BY <1>1, <1>8, <1>9, <2>1, <2>2, <2>3, <2>4 DEF OwnInv
  <1>16. ReportInv'
    BY <1>7, <1>9, <1>11, SameLog DEF RemoteInv, ReportInv
  <1>17. QED
    BY <1>2, <1>8, <1>9, <1>12, <1>14, <1>15, <1>16, EndKeeps

\* A save that was rejected for certain is dead, and no copy of it is on its way.
LEMMA RejectEnds ==
    ASSUME RemoteInv, NEW c \in Client, Ended(c), cl[c].call.op = "save",
           NEW r \in replies, r.conn = cl[c].call.conn,
           Dead(PendingSave(c)), RejectSave(c)
    PROVE  RemoteInv'
  <1>1. PICK body, s : body = cl[c].pending /\ s = PendingSave(c)
    OBVIOUS
  <1>2. /\ cl[c] \in ClientType /\ ClientInv(c) /\ cl[c].phase \notin {"new", "opening"}
        /\ Done(c) = [cl[c] EXCEPT !.call = None,
                                   !.phase = IF cl[c].phase = "closing" THEN "closed"
                                                                        ELSE cl[c].phase]
    BY DoneFacts DEF Ended
  <1>3. Follows(body) /\ body \in SaveBody
    BY <1>1, <1>2 DEF ClientInv, PendingInv, Calling, Ended, Follows
  <1>4. /\ s = SaveOfBody(c, body) /\ Dead(s) /\ s.root = body.root /\ body.root.generation \in Nat
    BY <1>1, <1>3, SaveFields, SavesAreRequests DEF PendingSave
  <1>5. PICK new : new = [Done(c) EXCEPT
                !.pending = None, !.poisoned = TRUE, !.ambiguous = FALSE, !.replay = FALSE]
    OBVIOUS
  <1>6. cl' = [cl EXCEPT ![c] = new] /\ rejected' = rejected \cup {s} /\ accepted' = accepted
    BY <1>1, <1>5 DEF RejectSave
  <1>7. /\ new \in ClientType /\ new.posts = cl[c].posts /\ new.boot = cl[c].boot
        /\ new.call = None /\ new.snapshot = cl[c].snapshot /\ new.pending = None
        /\ new.commit = cl[c].commit /\ new.phase \notin {"new", "opening"} /\ new.poisoned
    BY <1>2, <1>5 DEF ClientType
  <1>8. Moves(c) /\ cl'[c] = new /\ log' = log /\ boot' = boot /\ InFlight' = InFlight
    BY <1>6, <1>7, QuietMoves DEF Ended
  <1>9. cl[c].commit = None
    BY <1>2 DEF ClientInv, CallInv, Calling, Ended
  <1>10. SnapshotInv(c)'
    BY <1>2, <1>7, <1>8 DEF ClientInv, SnapshotInv
  <1>11. PendingInv(c)'
    BY <1>7, <1>8, <1>9 DEF PendingInv, Calling
  <1>12. OwnInv(c)'
    <2>1. ASSUME NEW m \in InFlight, m.client = c, m.path = "save"
          PROVE  m.body.root.generation < NextGeneration(c)
      <3>1. m.body # body
        BY <1>1, <1>2, <2>1 DEF ClientInv, FirstInv, Calling, Ended, RemoteInv, WireInv
      <3>2. QED
        BY <1>1, <1>2, <2>1, <3>1 DEF ClientInv, OwnInv
    <2>2. ASSUME NEW b \in SaveBody, InLog(SaveOfBody(c, b))
          PROVE  b.root.generation < NextGeneration(c)
      <3>1. b # body
        BY <1>4, <2>2 DEF Dead
      <3>2. QED
        BY <1>1, <1>2, <2>2, <3>1 DEF ClientInv, OwnInv
    <2>3. \A b \in SaveBody : InLog(SaveOfBody(c, b))' <=> InLog(SaveOfBody(c, b))
      BY <1>8, SameLog
    <2>4. NextGeneration(c)' = NextGeneration(c)
      BY <1>7, <1>8 DEF NextGeneration
    <2>5. QED
      BY <1>8, <2>1, <2>2, <2>3, <2>4 DEF OwnInv
  <1>13. ReportInv'
    BY <1>4, <1>6, <1>8, SameLog DEF RemoteInv, ReportInv
  <1>14. QED
    BY <1>2, <1>7, <1>8, <1>10, <1>11, <1>12, <1>13, EndKeeps

\* The barrier is passed: the save is done with.
LEMMA BarrierEnds ==
    ASSUME RemoteInv, NEW c \in Client, Ended(c), cl[c].call.op = "barrier",
           cl' = [cl EXCEPT ![c] = [Done(c) EXCEPT !.commit = None, !.pending = None, !.replay = FALSE]],
           UNCHANGED <<accepted, rejected>>
    PROVE  RemoteInv'
  <1>1. PICK body, new :
            /\ body = cl[c].pending
            /\ new = [Done(c) EXCEPT !.commit = None, !.pending = None, !.replay = FALSE]
    OBVIOUS
  <1>2. /\ cl[c] \in ClientType /\ ClientInv(c) /\ cl[c].phase \notin {"new", "opening"}
        /\ Done(c) = [cl[c] EXCEPT !.call = None,
                                   !.phase = IF cl[c].phase = "closing" THEN "closed"
                                                                        ELSE cl[c].phase]
    BY DoneFacts DEF Ended
  <1>3. /\ cl[c].commit # None /\ cl[c].snapshot = body.root /\ cl[c].snapshot # None
        /\ body \in SaveBody
    BY <1>1, <1>2 DEF ClientInv, CallInv, PendingInv, Calling, Ended, Follows
  <1>4. /\ new \in ClientType /\ new.posts = cl[c].posts /\ new.boot = cl[c].boot
        /\ new.call = None /\ new.snapshot = cl[c].snapshot /\ new.pending = None
        /\ new.commit = None /\ new.phase \notin {"new", "opening"}
    BY <1>1, <1>2 DEF ClientType
  <1>5. Moves(c) /\ cl'[c] = new /\ log' = log /\ boot' = boot /\ InFlight' = InFlight
    BY <1>1, <1>4, QuietMoves DEF Ended
  <1>6. SnapshotInv(c)'
    BY <1>2, <1>4, <1>5 DEF ClientInv, SnapshotInv
  <1>7. PendingInv(c)'
    BY <1>4, <1>5 DEF PendingInv, Calling
  <1>8. OwnInv(c)'
    <2>1. body.root.generation \in Nat
      BY <1>3, SavesAreRequests
    <2>2. body.root.generation < NextGeneration(c)
      BY <1>3, <2>1 DEF NextGeneration
    <2>3. \A b \in SaveBody : InLog(SaveOfBody(c, b))' <=> InLog(SaveOfBody(c, b))
      BY <1>5, SameLog
    <2>4. NextGeneration(c)' = NextGeneration(c)
      <3>1. cl'[c].snapshot = cl[c].snapshot
        BY <1>4, <1>5
      <3>2. QED
        BY <3>1 DEF NextGeneration
    <2>5. OwnInv(c)
      BY <1>2 DEF ClientInv
    <2>6. QED
      BY <1>1, <1>5, <2>2, <2>3, <2>4, <2>5 DEF OwnInv
  <1>9. ReportInv'
    BY <1>5, ReportsKept
  <1>10. QED
    BY <1>2, <1>4, <1>5, <1>6, <1>7, <1>8, <1>9, EndKeeps

\* What a reply can report of a call, and what a failure leaves: the whole client step.
LEMMA SuccessKeeps ==
    ASSUME RemoteInv, NEW c \in Client, Ended(c), NEW r \in replies, r.conn = cl[c].call.conn,
           r.status = "ok", Succeeds(c, r.response)
    PROVE  RemoteInv'
  <1>1. cl[c].call.op \in Operations /\ ClientInv(c)
    BY DoneFacts DEF Ended
  <1>2. CASE cl[c].call.op = "hello"
    BY <1>2, HelloEnds DEF Succeeds
  <1>3. CASE cl[c].call.op = "load"
    BY <1>3, LoadEnds DEF Succeeds
  <1>4. CASE cl[c].call.op \in {"save", "replay"}
    <2>1. InLog(PendingSave(c))
      BY <1>1, <1>4 DEF ClientInv, InwardInv, Ended
    <2>2. AcceptSave(c) \/ Poison(c, TRUE, TRUE)
      BY <1>4 DEF Succeeds
    <2>3. QED
      BY <1>4, <2>1, <2>2, AcceptEnds, PoisonEnds
  <1>5. CASE cl[c].call.op = "barrier"
    <2>1. CASE r.response = cl[c].commit
      BY <1>5, <2>1, BarrierEnds DEF Succeeds
    <2>2. CASE r.response # cl[c].commit
      <3>1. Poison(c, TRUE, FALSE)
        BY <1>5, <2>2 DEF Succeeds
      <3>2. QED
        BY <1>5, <3>1, PoisonEnds
    <2>3. QED
      BY <2>1, <2>2
  <1>6. QED
    BY <1>1, <1>2, <1>3, <1>4, <1>5 DEF Operations

\* A failure reported by a reply, or no reply at all.
LEMMA FailureKeeps ==
    ASSUME RemoteInv, NEW c \in Client, Ended(c), NEW kind,
           Definite(kind) => \E r \in replies : r.conn = cl[c].call.conn /\ r.status = kind,
           Fails(c, kind)
    PROVE  RemoteInv'
  <1>1. cl[c].call.op \in Operations /\ ClientInv(c)
    BY DoneFacts DEF Ended
  <1>2. CASE cl[c].call.op = "hello"
    BY <1>2, HelloEnds DEF Fails
  <1>3. CASE cl[c].call.op \in {"load", "barrier", "replay"}
    <2>1. Poison(c, FALSE, FALSE) \/ Poison(c, TRUE, FALSE) \/ Poison(c, TRUE, TRUE)
      BY <1>3 DEF Fails
    <2>2. QED
      BY <1>3, <2>1, PoisonEnds
  <1>4. CASE cl[c].call.op = "save"
    <2>1. CASE Definite(kind)
      <3>1. PICK r \in replies : r.conn = cl[c].call.conn /\ r.status = kind
        BY <2>1
      <3>2. Dead(PendingSave(c))
        BY <1>1, <1>4, <2>1, <3>1 DEF ClientInv, InwardInv, Ended
      <3>3. RejectSave(c)
        BY <1>4, <2>1 DEF Fails
      <3>4. QED
        BY <1>4, <3>1, <3>2, <3>3, RejectEnds
    <2>2. CASE ~Definite(kind)
      <3>1. Poison(c, TRUE, kind # "unsigned") /\ (kind # "unsigned") \in BOOLEAN
        BY <1>4, <2>2 DEF Fails
      <3>2. QED
        BY <1>4, <3>1, PoisonEnds
    <2>3. QED
      BY <2>1, <2>2
  <1>5. QED
    BY <1>1, <1>2, <1>3, <1>4 DEF Operations

\* A reply arrives, or the client gives up waiting.
LEMMA ReplySteps ==
    ASSUME RemoteInv, NEW c \in Client, (\E r \in replies : Receive(c, r)) \/ LoseReply(c)
    PROVE  RemoteInv'
  <1>1. ASSUME NEW r \in replies, Receive(c, r)
        PROVE  RemoteInv'
    <2>1. /\ cl[c].call # None /\ r.conn = cl[c].call.conn
          /\ IF r.status = "ok" THEN Succeeds(c, r.response) ELSE Fails(c, r.status)
          /\ UNCHANGED <<storeVars, procVars, inbox>>
          /\ open' = open \ {cl[c].call.conn} /\ replies' = replies \ {r}
      BY <1>1 DEF Receive
    <2>2. Ended(c)
      BY <2>1 DEF Ended, RemoteInv, WireInv
    <2>3. QED
      BY <2>1, <2>2, SuccessKeeps, FailureKeeps
  <1>2. ASSUME LoseReply(c)
        PROVE  RemoteInv'
    <2>1. Ended(c) /\ Fails(c, "lost")
      BY <1>2 DEF LoseReply, HangUp, Ended
    <2>2. ~Definite("lost")
      BY DEF Definite
    <2>3. QED
      BY <2>1, <2>2, FailureKeeps
  <1>3. QED
    BY <1>1, <1>2

\* A read that is retried goes out on a new connection.
LEMMA RetryStep ==
    ASSUME RemoteInv, NEW c \in Client, RetryRead(c)
    PROVE  RemoteInv'
  <1>1. PICK m, conn, op, attempt, new :
            /\ m = Request(c, cl[c].boot, cl[c].call.op, None)
            /\ conn = NextConn(c) /\ op = cl[c].call.op /\ attempt = cl[c].call.attempt + 1
            /\ new = [cl[c] EXCEPT !.posts = @ + 1,
                                  !.call = [op |-> op, attempt |-> attempt, conn |-> m.conn]]
    OBVIOUS
  <1>2. /\ cl[c].call # None /\ op \in {"hello", "load"} /\ cl[c].posts < MaxPosts
        /\ cl' = [cl EXCEPT ![c] = new]
        /\ inbox' = inbox \cup {m}
        /\ open' = (open \ {cl[c].call.conn}) \cup {m.conn}
        /\ replies' = {r \in replies : r.conn # cl[c].call.conn}
        /\ UNCHANGED <<storeVars, procVars, accepted, rejected>>
    BY <1>1 DEF RetryRead
  <1>3. /\ cl \in [Client -> ClientType] /\ cl[c] \in ClientType /\ cl[c].call \in Call
        /\ WireInv /\ ProcessInv /\ cl[c].posts \in Nat /\ MaxPosts \in Nat
        /\ CallInv(c) /\ PendingInv(c) /\ cl[c].phase # "new"
    BY <1>2, DoneFacts, NextConnIsNew, RemoteConstants DEF RemoteInv, ClientInv, ClientType
  <1>4. /\ m.conn = conn /\ m.client = c /\ m.path = op /\ m.boot = cl[c].boot /\ m.body = None
        /\ m.id = <<"tfj", conn>>
        /\ m = [conn |-> m.conn, client |-> m.client, path |-> m.path, boot |-> m.boot,
                body |-> m.body, id |-> m.id]
    BY <1>1, <1>2 DEF Request, NextConn
  <1>5. conn \in Conns /\ conn \in Client \X Nat /\ attempt \in Nat
    BY <1>1, <1>2, <1>3 DEF Conns, NextConn, Call
  <1>6. /\ cl'[c] = new
        /\ new.posts = cl[c].posts + 1 /\ new.call = [op |-> op, attempt |-> attempt, conn |-> conn]
        /\ new.phase = cl[c].phase /\ new.boot = cl[c].boot /\ new.snapshot = cl[c].snapshot
        /\ new.pending = cl[c].pending /\ new.commit = cl[c].commit
        /\ new.poisoned = cl[c].poisoned /\ new \in ClientType
    <2>1. cl' = [cl EXCEPT ![c] = new]
      BY <1>2
    <2>2. new = [cl[c] EXCEPT !.posts = cl[c].posts + 1,
                              !.call = [op |-> op, attempt |-> attempt, conn |-> conn]]
      BY <1>1, <1>3, <1>4
    <2>3. [op |-> op, attempt |-> attempt, conn |-> conn] \in Call
      BY <1>2, <1>5 DEF Call
    <2>4. cl[c].posts + 1 \in 0 .. MaxPosts
      BY <1>2, <1>3
    <2>5. QED
      BY <1>3, <2>1, <2>2, <2>3, <2>4 DEF ClientType
  <1>7. cl'[c].call # None /\ cl'[c].call.conn = conn /\ cl'[c].call.op = op
    <2>1. new.call \in Call
      BY <1>2, <1>5, <1>6 DEF Call
    <2>2. QED
      BY <1>6, <2>1, RemoteConstants
  <1>8. m \in Message
    <2>1. m.id \in Ids
      BY <1>4, <1>5 DEF Ids
    <2>2. m.boot \in 1 .. MaxBoot
      BY <1>3, <1>4, ServerConstants DEF CallInv, ProcessInv
    <2>3. QED
      BY <1>2, <1>4, <1>5, <2>1, <2>2 DEF Message, Paths, Bodies
  <1>9. Honest(m)'
    <2>1. boot' = boot
      BY <1>2 DEF procVars
    <2>2. m.conn \in {c} \X (1 .. cl'[c].posts)
      BY <1>1, <1>3, <1>4, <1>6 DEF NextConn
    <2>3. m.boot \in 1 .. boot'
      BY <1>3, <1>4, <2>1 DEF CallInv
    <2>4. m.path # "save" /\ m.id = <<"tfj", m.conn>>
      BY <1>2, <1>4
    <2>5. QED
      BY <1>4, <1>8, <2>2, <2>3, <2>4 DEF Honest
  <1>10. Asks(c, m)
    BY <1>1, <1>2, <1>4, <1>6, <1>9 DEF Asks
  <1>11. Moves(c)
    <2>1. \A d \in Client : d # c => cl'[d] = cl[d]
      BY <1>2, <1>3
    <2>2. cl' \in [Client -> ClientType]
      BY <1>2, <1>3, <1>6, <2>1
    <2>3. ASSUME NEW k \in open'
          PROVE  \E d \in Client : cl'[d].call # None /\ cl'[d].call.conn = k
      <3>1. CASE k = conn
        BY <1>7, <3>1
      <3>2. CASE k # conn
        <4>1. k \in open /\ k # cl[c].call.conn
          BY <1>2, <1>4, <2>3, <3>2
        <4>2. PICK d \in Client : cl[d].call # None /\ cl[d].call.conn = k
          BY <1>3, <4>1 DEF WireInv
        <4>3. QED
          BY <2>1, <4>1, <4>2
      <3>3. QED
        BY <3>1, <3>2
    <2>4. \A r \in replies' : r.conn \in open'
      BY <1>2, <1>3 DEF WireInv
    <2>5. QED
      BY <1>2, <1>8, <1>10, <2>1, <2>2, <2>3, <2>4 DEF Moves
  <1>12. log' = log /\ boot' = boot
    BY <1>11, MovesKeepWire
  <1>13. InFlight' = InFlight \cup {m}
    BY <1>2 DEF InFlight, procVars
  <1>14. SnapshotInv(c)' /\ PendingInv(c)' /\ OwnInv(c)'
    <2>1. ~Calling(c, {"save", "replay"}) /\ ~Calling(c, {"save", "replay"})'
      BY <1>1, <1>2, <1>7 DEF Calling
    <2>2. \A n \in InFlight' : n.path = "save" => n \in InFlight
      BY <1>2, <1>4, <1>13
    <2>3. cl'[c].phase \in {"new", "opening"} => ~cl'[c].poisoned /\ cl[c].commit = None
      BY <1>3, <1>6 DEF PendingInv
    <2>4. QED
      BY <1>6, <1>12, <2>1, <2>2, <2>3, StateKept
  <1>15. CallInv(c)'
    <2>1. cl'[c].posts # 0 /\ cl'[c].call.conn = <<c, cl'[c].posts>>
      BY <1>1, <1>3, <1>6, <1>7 DEF NextConn
    <2>2. /\ Calling(c, {"hello"})' <=> Calling(c, {"hello"})
          /\ Calling(c, {"hello", "load"})' <=> Calling(c, {"hello", "load"})
          /\ ~Calling(c, {"save"})' /\ ~Calling(c, {"barrier"})'
      BY <1>1, <1>2, <1>7 DEF Calling
    <2>3. QED
      BY <1>3, <1>6, <1>7, <1>12, <2>1, <2>2 DEF CallInv
  <1>16. OutwardInv(c)' /\ FirstInv(c)' /\ InwardInv(c)'
    <2>1. \A n \in InFlight' : n.conn = conn => n = m
      BY <1>1, <1>13, NextConnIsNew
    <2>2. \A r \in replies' : r.conn # conn
      BY <1>1, <1>2, NextConnIsNew
    <2>3. QED
      BY <1>2, <1>4, <1>7, <2>1, <2>2 DEF OutwardInv, FirstInv, InwardInv, Calling
  <1>17. ClientInv(c)'
    BY <1>14, <1>15, <1>16 DEF ClientInv
  <1>18. QED
    BY <1>2, <1>11, <1>12, <1>17, ReportsKept, MovesKeep

-----------------------------------------------------------------------------
(* The invariant. *)

\* The first state: nobody asked for anything.
LEMMA RemoteInitHolds == Init => RemoteInv
  <1> SUFFICES ASSUME Init
               PROVE  RemoteInv
    OBVIOUS
  <1>1. StoreInv /\ log = [j \in JournalId |-> <<>>] /\ db = "closed"
    BY InitEstablishes DEF Init, ServerInit, StoreInit
  <1>2. log[Journal] = <<>> /\ Len(log[Journal]) = 0
    BY <1>1, ServerConstants
  <1>3. /\ proc = "down" /\ boot = 0 /\ published = 0 /\ guard = <<>> /\ worker = <<>>
        /\ inbox = {} /\ open = {} /\ replies = {}
        /\ cl = [c \in Client |-> NewClient] /\ accepted = {} /\ rejected = {}
    BY DEF Init, ServerInit
  <1>4. LogInv /\ ReportInv
    BY <1>2, <1>3 DEF LogInv, ReportInv
  <1>5. ProcessInv /\ GuardInv
    BY <1>1, <1>3, ServerConstants DEF ProcessInv, GuardInv
  <1>6. InFlight = {}
    BY <1>3 DEF InFlight
  <1>7. WireInv
    BY <1>3, <1>6 DEF WireInv, Apart
  <1>8. NewClient \in ClientType
    BY ServerConstants, RemoteConstants DEF NewClient, ClientType
  <1>9. ASSUME NEW c \in Client
        PROVE  ClientInv(c)
    <2>1. cl[c] = NewClient
      BY <1>3
    <2>2. /\ cl[c].phase = "new" /\ cl[c].call = None /\ cl[c].snapshot = None
          /\ cl[c].pending = None /\ cl[c].commit = None /\ cl[c].poisoned = FALSE
      BY <2>1 DEF NewClient
    <2>3. \A body \in SaveBody : ~InLog(SaveOfBody(c, body))
      BY <1>2 DEF InLog
    <2>4. QED
      BY <1>3, <1>6, <2>2, <2>3 DEF ClientInv, CallInv, SnapshotInv, PendingInv, OwnInv, OutwardInv,
                                    FirstInv, InwardInv, Calling
  <1>10. QED
    BY <1>1, <1>3, <1>4, <1>5, <1>7, <1>8, <1>9 DEF RemoteInv

\* Every step of the App and of the clients preserves the invariant.
LEMMA RemoteStepPreserves == RemoteInv /\ [Next]_vars => RemoteInv'
  <1> SUFFICES ASSUME RemoteInv, [Next]_vars
               PROVE  RemoteInv'
    OBVIOUS
  <1>1. CASE ServerNext /\ UNCHANGED <<cl, accepted, rejected>>
    BY <1>1, ServerSteps DEF appRest
  <1>2. ASSUME NEW c \in Client, ClientNext(c)
        PROVE  RemoteInv'
    BY <1>2, PostSteps, SaveStep, LocalSteps, ReplySteps, RetryStep DEF ClientNext
  <1>3. CASE UNCHANGED vars
    <2>1. /\ UNCHANGED <<storeVars, procVars, netVars, cl, accepted, rejected>>
      BY <1>3 DEF vars, serverVars
    <2>2. StoreInv' /\ InFlight' \subseteq InFlight /\ log' = log /\ boot' = boot
      BY <2>1, StoreKeeps DEF InFlight, netVars, procVars, storeVars
    <2>3. boot' \in boot .. MaxBoot
      BY <2>2, ServerConstants DEF RemoteInv, ProcessInv
    <2>4. Serves
      BY <2>1, <2>2, <2>3, QuietServes DEF netVars, appRest
    <2>5. Apart' /\ GuardInv' /\ ProcessInv'
      BY <2>1 DEF RemoteInv, WireInv, Apart, GuardInv, ProcessInv, netVars, procVars, storeVars,
                  SaveRequestId
    <2>6. QED
      BY <2>4, <2>5, ServesKeeps
  <1>4. QED
    BY <1>1, <1>2, <1>3 DEF Next

\* The inductive invariant of clients, network and App, over any number of requests,
\* restarts, lost replies and replays (async_save, async_replay_save, _save_sync).
THEOREM RemoteInvariantHolds == Spec => []RemoteInv
  BY RemoteInitHolds, RemoteStepPreserves, PTL DEF Spec

\* What a client was told about its save, and what may reach the store, is so whatever
\* crashes, late requests, retries and other clients did since (RemoteReferenceJournalStore,
\* _process_signed_request).
THEOREM RemoteSafe == Spec => []RemoteInvariant
  <1>1. ASSUME RemoteInv
        PROVE  RemoteInvariant
    <2>1. ASSUME NEW m \in inbox
          PROVE  m.client \in Client /\ m.boot \in 1 .. boot
      <3>1. Honest(m)
        BY <1>1 DEF RemoteInv, WireInv, InFlight
      <3>2. QED
        BY <3>1 DEF Honest, Message
    <2>2. ASSUME NEW c \in Client
          PROVE  /\ cl[c].posts \in 0 .. MaxPosts
                 /\ cl[c].snapshot \in Root \cup {None}
                 /\ cl[c].call # None => cl[c].call.conn = <<c, cl[c].posts>>
      <3>1. cl[c] \in ClientType /\ CallInv(c)
        BY <1>1 DEF RemoteInv, ClientInv
      <3>2. QED
        BY <3>1 DEF ClientType, CallInv
    <2>3. RemoteTypeOK /\ NoStaleBootWork
      BY <1>1, <2>1, <2>2 DEF RemoteTypeOK, NoStaleBootWork, RemoteInv, ProcessInv
    <2>4. ASSUME NEW c \in Client, cl[c].commit # None
          PROVE  \E i \in 1 .. Len(log[Journal]) :
                     LET s == log[Journal][i]
                     IN  s.root = cl[c].snapshot /\ cl[c].commit = CommitToken(s.id, s.digest)
      <3>1. /\ cl[c].snapshot = cl[c].pending.root
            /\ cl[c].commit = CommitToken(PendingSave(c).id, PendingSave(c).digest)
            /\ InLog(PendingSave(c))
        BY <1>1, <2>4 DEF RemoteInv, ClientInv, PendingInv
      <3>2. PICK i \in 1 .. Len(log[Journal]) : log[Journal][i] = PendingSave(c)
        BY <3>1 DEF InLog
      <3>3. PendingSave(c).root = cl[c].pending.root
        BY SaveFields DEF PendingSave
      <3>4. QED
        BY <3>1, <3>2, <3>3
    <2>5. QED
      BY <2>3, <2>4 DEF RemoteInvariant, AcceptedSaveIsDurable
  <1>2. QED
    BY <1>1, RemoteInvariantHolds, PTL

-----------------------------------------------------------------------------
(* The compare-and-swap journal. *)

\* No step of a client changes the journal, and it reports one thing at a time.
LEMMA ClientsReport ==
    ASSUME RemoteInv, NEW c \in Client, ClientNext(c)
    PROVE  /\ UNCHANGED storeVars
           /\ \/ accepted \subseteq accepted' /\ rejected' = rejected
              \/ rejected \subseteq rejected' /\ accepted' = accepted
  <1> DEFINE Reports == \/ accepted \subseteq accepted' /\ rejected' = rejected
                        \/ rejected \subseteq rejected' /\ accepted' = accepted
  <1>1. CASE Open(c) \/ Load(c) \/ SaveRefusedLocally(c) \/ ReplaySave(c) \/ Barrier(c) \/ Close(c)
             \/ RetryRead(c) \/ \E p \in Payload : Save(c, p)
    BY <1>1 DEF Open, Load, SaveRefusedLocally, ReplaySave, Barrier, Close, RetryRead, Save, Post
  <1>2. ASSUME NEW response, Succeeds(c, response), cl[c].call.op \in Operations
        PROVE  Reports
    BY <1>2 DEF Succeeds, AcceptSave, Poison, Operations
  <1>3. ASSUME NEW kind, Fails(c, kind), cl[c].call.op \in Operations
        PROVE  Reports
    BY <1>3 DEF Fails, RejectSave, Poison, Operations
  <1>4. ASSUME cl[c].call # None
        PROVE  cl[c].call.op \in Operations
    BY <1>4, DoneFacts
  <1>5. CASE \E r \in replies : Receive(c, r)
    BY <1>2, <1>3, <1>4, <1>5 DEF Receive
  <1>6. CASE LoseReply(c)
    BY <1>3, <1>4, <1>6 DEF LoseReply
  <1>7. QED
    BY <1>1, <1>5, <1>6 DEF ClientNext

\* A report is about a save that is in the chain, or about one that never will be.
LEMMA ReportsAreAllowed ==
    ASSUME RemoteInv', log' = log,
           \/ accepted \subseteq accepted' /\ rejected' = rejected
           \/ rejected \subseteq rejected' /\ accepted' = accepted
    PROVE  Promise!CasNext
  <1>1. (\A s \in accepted' : InLog(s)) /\ (\A s \in rejected' : ~InLog(s))
    BY DEF RemoteInv, ReportInv, InLog, Dead
  <1>2. QED
    BY <1>1 DEF Promise!CasNext, Promise!Accept, Promise!Reject, Promise!InChain, InLog

\* The worker commits a save only where its request expects it to go, and never one that
\* a caller was told is rejected.
LEMMA CommitsAreAllowed ==
    ASSUME RemoteInv, UNCHANGED appRest, WorkerRuns
    PROVE  Promise!Commit \/ UNCHANGED storeVars
  <1>0. PICK m : m = Head(worker)
    OBVIOUS
  <1>1. /\ worker # <<>> /\ worker' = Tail(worker)
        /\ UNCHANGED <<proc, boot, published, guard, inbox, open>>
        /\ Send(m, StatusOf(m), IF StatusOf(m) = "ok" THEN ResponseOf(m) ELSE None) \/ replies' = replies
        /\ IF m.path = "save" /\ SaveOutcome(SaveOf(m)) = "committed"
           THEN SaveSync(SaveOf(m)) ELSE UNCHANGED storeVars
    BY <1>0 DEF WorkerRuns, WorkerHasTurn, Answer
  <1>2. Honest(m)
    <2>1. m \in InFlight
      BY <1>0, <1>1 DEF RemoteInv, ProcessInv, InFlight
    <2>2. QED
      BY <2>1 DEF RemoteInv, WireInv
  <1>3. CASE m.path = "save" /\ SaveOutcome(SaveOf(m)) = "committed"
    <2> DEFINE n == Len(log[Journal])
    <2>1. PICK s : s = SaveOf(m)
      OBVIOUS
    <2>2. /\ s = SaveOfBody(m.client, m.body) /\ m.client \in Client /\ m.body \in SaveBody
          /\ s.expected = m.body.expected /\ s.root = m.body.root
      BY <1>2, <1>3, <2>1, HonestSave, SaveFields
    <2>3. ~InLog(s) /\ s.root.generation = n /\ s.expected = CurrentRevision(Journal)
      BY <1>3, <2>1, <2>2, CommittedIsNext DEF RemoteInv
    <2>4. log'[Journal] = Append(log[Journal], s)
      BY <1>1, <1>2, <1>3, <2>1, CommitGrows
    <2>5. log[Journal] \in Seq(SaveRequest) /\ n \in Nat
      BY Chain DEF RemoteInv
    <2>6. Len(log'[Journal]) = n + 1 /\ log'[Journal][n + 1] = s
      BY <2>4, <2>5
    <2>7. s.expected = IF log[Journal] = <<>> THEN None ELSE RevisionOf(log[Journal][n].root)
      <3>1. log[Journal] = <<>> <=> n = 0
        BY <2>5
      <3>2. QED
        BY <2>3, <3>1, Chain DEF RemoteInv, CurrentRevision
    <2>8. s \notin rejected
      <3> SUFFICES ASSUME s \in rejected
                   PROVE  FALSE
        OBVIOUS
      <3>1. n >= s.root.generation + 1
        BY DEF RemoteInv, ReportInv, Dead
      <3>2. QED
        BY <2>3, <2>5, <3>1
    <2>9. UNCHANGED <<accepted, rejected>>
      BY DEF appRest
    <2>10. Promise!Commit
      BY <2>3, <2>4, <2>6, <2>7, <2>8, <2>9 DEF Promise!Commit, Promise!Tip, Promise!InChain, InLog
    <2>11. QED
      BY <2>10
  <1>4. CASE ~(m.path = "save" /\ SaveOutcome(SaveOf(m)) = "committed")
    BY <1>1, <1>4
  <1>5. QED
    BY <1>3, <1>4

\* Whatever the process does besides, it commits nothing.
LEMMA OtherStepsCommitNothing ==
    ASSUME ServerNext, ~WorkerRuns
    PROVE  log' = log
  BY DEF ServerNext, Start, Publish, Stop, DrainEnds, CloseStore, Crash, WorkerFails, RefuseUnsigned,
         Admit, OpenSync, CloseSync, storeVars

\* The remote journal keeps the promises of the compare-and-swap journal: a save that was
\* reported as committed is in the chain, one that was rejected for certain never enters it
\* (async_save, async_replay_save, _save_sync).
THEOREM CasImplemented == Spec => ImplementsCasJournal
  <1>1. Init => Promise!CasInit
    BY ServerConstants, InitEstablishes DEF Init, ServerInit, StoreInit, Promise!CasInit
  <1>2. RemoteInv /\ RemoteInv' /\ [Next]_vars => [Promise!CasNext]_(Promise!casVars)
    <2> SUFFICES ASSUME RemoteInv, RemoteInv', [Next]_vars
                 PROVE  [Promise!CasNext]_(Promise!casVars)
      OBVIOUS
    <2>1. CASE ServerNext /\ UNCHANGED appRest
      <3>1. CASE WorkerRuns
        BY <2>1, <3>1, CommitsAreAllowed DEF Promise!CasNext, Promise!casVars, storeVars, appRest
      <3>2. CASE ~WorkerRuns
        BY <2>1, <3>2, OtherStepsCommitNothing DEF Promise!casVars, appRest
      <3>3. QED
        BY <3>1, <3>2
    <2>2. ASSUME NEW c \in Client, ClientNext(c)
          PROVE  Promise!CasNext
      BY <2>2, ClientsReport, ReportsAreAllowed DEF storeVars
    <2>3. CASE UNCHANGED vars
      BY <2>3 DEF vars, storeVars, Promise!casVars
    <2>4. QED
      BY <2>1, <2>2, <2>3 DEF Next, appRest
  <1>3. QED
    BY <1>1, <1>2, RemoteInvariantHolds, PTL DEF Spec, ImplementsCasJournal, Promise!CasSpec

=============================================================================
