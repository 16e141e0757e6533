------------------------------ MODULE BookOnce ------------------------------
(***************************************************************************)
(* What posting to QuickBooks promises for each bank line                   *)
(* (docs/accounting/module-ledger.md:87, "prevents duplicates"): at most    *)
(* one transaction is created for it, then the ledger shows that one, and   *)
(* neither is ever taken back.  Jobs, retries, reviews and documents are    *)
(* below this level.                                                        *)
(***************************************************************************)
CONSTANT Lines

VARIABLES
    held,   \* ids of the transactions QuickBooks holds for each line
    shown   \* ids the ledger shows for each line

vars == <<held, shown>>

Init == held = [l \in Lines |-> {}] /\ shown = [l \in Lines |-> {}]

\* QuickBooks chooses the id.
Book(l) ==
    /\ held[l] = {}
    /\ \E id \in held'[l] : held' = [held EXCEPT ![l] = {id}]
    /\ UNCHANGED shown

Show(l) ==
    /\ held[l] # {}
    /\ shown' = [shown EXCEPT ![l] = held[l]]
    /\ UNCHANGED held

Next == \E l \in Lines : Book(l) \/ Show(l)

Spec == Init /\ [][Next]_vars
=============================================================================
