------------------------- MODULE MCOrderFulfilment -------------------------
(***************************************************************************)
(* Small instances of OrderFulfilment for TLC.                             *)
(***************************************************************************)
EXTENDS OrderInvariant, TLC

OneSupplier == [p \in Plans |-> CHOOSE s \in Suppliers : TRUE]

(***************************************************************************)
(* Sessions of one kind are interchangeable; used for safety runs only.    *)
(***************************************************************************)
SessionSymmetry ==
  Permutations(Builders) \cup Permutations(Admins)
    \cup Permutations(Senders) \cup Permutations(Retriers)

=============================================================================
