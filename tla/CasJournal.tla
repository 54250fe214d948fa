----------------------------- MODULE CasJournal -----------------------------
(***************************************************************************)
(* What the remote journal promises its callers, without a protocol: one   *)
(* chain of committed saves, each naming its predecessor; a save reported  *)
(* as committed is in the chain; a save reported as definitely rejected is *)
(* not in the chain and never enters it.  A save may also stay unreported  *)
(* for ever (the ambiguous outcome).                                       *)
(***************************************************************************)
EXTENDS Integers, Sequences

CONSTANTS
    Predecessor(_), \* the revision a save expects to replace
    Successor(_),   \* the revision a save creates
    None            \* the revision of the empty chain

VARIABLES
    chain,     \* committed saves, oldest first
    accepted,  \* saves a caller was told are committed
    rejected   \* saves a caller was told are definitely not committed

casVars == <<chain, accepted, rejected>>

InChain(s) == \E i \in 1 .. Len(chain) : chain[i] = s
Tip        == IF chain = <<>> THEN None ELSE Successor(chain[Len(chain)])

CasInit == chain = <<>> /\ accepted = {} /\ rejected = {}

\* One save joins the chain.
Commit ==
    /\ Len(chain') = Len(chain) + 1
    /\ chain' = Append(chain, chain'[Len(chain) + 1])
    /\ LET s == chain'[Len(chain) + 1]
       IN  Predecessor(s) = Tip /\ ~InChain(s) /\ s \notin rejected
    /\ UNCHANGED <<accepted, rejected>>

Accept ==
    /\ accepted \subseteq accepted'
    /\ \A s \in accepted' : InChain(s)
    /\ UNCHANGED <<chain, rejected>>

Reject ==
    /\ rejected \subseteq rejected'
    /\ \A s \in rejected' : ~InChain(s)
    /\ UNCHANGED <<chain, accepted>>

CasNext == Commit \/ Accept \/ Reject

CasSpec == CasInit /\ [][CasNext]_casVars
=============================================================================
