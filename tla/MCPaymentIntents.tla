--------------------------- MODULE MCPaymentIntents ---------------------------
(* Identities are model values; no property tells two orders, transfers or *)
(* registrars apart, so the safety runs may permute them.                  *)
EXTENDS PaymentIntents, TLC

Symmetry == Permutations(Orders) \cup Permutations(Transfers) \cup Permutations(Registrars)
===============================================================================
