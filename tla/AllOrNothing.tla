---------------------------- MODULE AllOrNothing ----------------------------
(***************************************************************************)
(* What a bridge transaction promises, whatever it does to keep it: the    *)
(* providers' documents are changed while an attempt is open and never     *)
(* outside one, an attempt commits only with every document changed, and   *)
(* ends restored only with every change taken back.  BridgeTransaction     *)
(* implements this specification under the mapping given there.            *)
(***************************************************************************)
CONSTANT Providers

VARIABLES status,   \* "idle", "open", "committed" or "restored"
          plan,     \* the providers whose documents the plan changes
          effect    \* effect[p]: the plan's change of p's document is in force

vars == <<status, plan, effect>>

Init == /\ status = "idle" /\ plan = {}
        /\ effect = [p \in Providers |-> FALSE]

Begin == /\ status \in {"idle", "restored"}
         /\ status' = "open"
         /\ plan' \in (IF status = "idle" THEN (SUBSET Providers) \ {{}} ELSE {plan})
         /\ UNCHANGED effect

\* Applying p's change, or undoing it
Change(p) == /\ status = "open" /\ p \in plan
             /\ UNCHANGED <<status, plan>>
             /\ effect' = [effect EXCEPT ![p] = ~@]

Commit == /\ status = "open"
          /\ status' = "committed"
          /\ \A p \in plan : effect[p]
          /\ UNCHANGED <<plan, effect>>

Restore == /\ status = "open"
           /\ status' = "restored"
           /\ \A p \in plan : ~effect[p]
           /\ UNCHANGED <<plan, effect>>

Next == \/ Begin \/ Commit \/ Restore
        \/ \E p \in Providers : Change(p)

Spec == Init /\ [][Next]_vars
=============================================================================
