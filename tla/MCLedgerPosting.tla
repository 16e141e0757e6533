-------------------------- MODULE MCLedgerPosting --------------------------
(* Instances of LedgerPosting for TLC: contents are named by their form.    *)
EXTENDS LedgerPosting, TLC

CONSTANTS matched, legacy, full

\* No posting worker is special.
Symmetry == Permutations(Workers)

=============================================================================
