--------------------------- MODULE DurableRegister ---------------------------
(***************************************************************************)
(* What a crash-durable file promises, without files: a register of which  *)
(* a power cut may leave one of the documents in "may".  There are never    *)
(* more than two of them, the old one and its next generation; a write      *)
(* starts only from a settled register; a save is acknowledged only when    *)
(* no power cut can undo it; a save reported as certainly failed is not     *)
(* among the outcomes and never becomes one.                                *)
(***************************************************************************)
EXTENDS Integers

CONSTANTS
    Generation(_), \* the generation a document carries
    Absent         \* the register before the first document

VARIABLES
    may,    \* the documents a power cut may leave
    acked,  \* documents whose save was reported as committed
    denied  \* documents whose save was reported as not committed

registerVars == <<may, acked, denied>>

RegisterInit == may = {Absent} /\ acked = {} /\ denied = {}

\* A write begins: one successor joins the settled document.
Write ==
    \E old \in may, new \in may' \ may :
        /\ may = {old} /\ may' = {old, new}
        /\ Generation(new) = Generation(old) + 1 /\ new \notin denied
        /\ UNCHANGED <<acked, denied>>

\* The outcome is decided, one way or the other.
Settle ==
    \E outcome, other \in may :
        /\ outcome # other /\ may = {outcome, other}
        /\ may' = {outcome}
        /\ UNCHANGED <<acked, denied>>

Acknowledge ==
    \E outcome \in may :
        /\ may = {outcome} /\ acked' = acked \cup {outcome}
        /\ UNCHANGED <<may, denied>>

Deny ==
    \E doc \in denied' \ denied :
        /\ denied' = denied \cup {doc}
        /\ doc \notin may \cup acked
        /\ UNCHANGED <<may, acked>>

RegisterNext == Write \/ Settle \/ Acknowledge \/ Deny

RegisterSpec == RegisterInit /\ [][RegisterNext]_registerVars
=============================================================================
