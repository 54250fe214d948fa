------------------------ MODULE MCBridgeTransaction ------------------------
(* BridgeTransaction in three studies: attempts of one provider's change that *)
(* are restored and retried; releases that fail and are tried again while     *)
(* somebody else writes the document; and a plan over two providers.          *)
EXTENDS BridgeTransaction, TLC

VARIABLE study

mcVars == <<vars, study>>

\* How many providers the plan names, and the bounds of each study
Bound ==
    [retry   |-> [providers |-> 1, attempts |-> 2, epoch |-> 3, releases |-> 1, revision |-> 0],
     release |-> [providers |-> 1, attempts |-> 1, epoch |-> 2, releases |-> 2, revision |-> 2],
     pair    |-> [providers |-> 2, attempts |-> 1, epoch |-> 1, releases |-> 1, revision |-> 0]]

Within ==
    LET b == Bound[study]
        inPlay == IF journal = <<>> THEN Providers ELSE Planned(journal[1])
    IN  /\ Current <= b.attempts
        /\ journal # <<>> => Cardinality(inPlay) = b.providers
        /\ \A a \in 1 .. Current :
              /\ \A r \in journal[a].acqs : r.e <= b.epoch
              /\ \A r \in journal[a].rels : r.k <= b.releases
        /\ Cardinality({p \in Providers : doc[p].rev > 0}) <= b.providers
        /\ \A p \in Providers \ inPlay : doc[p].rev = 0

\* A change of a document that is no write of the bridge
DriftWithin ==
    effects' = effects => \A p \in Providers :
        doc'[p].rev <= Bound[study].revision \/ doc'[p].rev = doc[p].rev

MCSymmetry == Permutations(Providers)

MCInit == Init /\ study \in DOMAIN Bound
MCNext == Next /\ UNCHANGED study /\ Within' /\ DriftWithin
MCSpec == MCInit /\ [][MCNext]_mcVars
=============================================================================
