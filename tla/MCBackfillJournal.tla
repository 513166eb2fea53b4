------------------------- MODULE MCBackfillJournal -------------------------
(***************************************************************************)
(* TLC instances of BackfillJournal.  Correlation ids are distinct, and    *)
(* which call gets which is left open by letting calls come in any order.  *)
(***************************************************************************)
EXTENDS BackfillJournal, TLC

CONSTANTS k1, k2, k3, s1, s2, f1, f2, c1, c2

MCCid == [c \in Call |-> CASE c = k1 -> 1 [] c = k2 -> 2 [] c = k3 -> 3]

\* The sessions are alike.
MCSymmetry == Permutations({s1, s2})
=============================================================================
