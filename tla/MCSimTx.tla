------------------------------ MODULE MCSimTx ------------------------------
(* The instance of SimTx that TLC checks. *)
EXTENDS SimTx, TLC

MCSymmetry == Permutations(Clients) \cup Permutations(Orders)
=============================================================================
