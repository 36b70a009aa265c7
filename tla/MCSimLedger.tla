---------------------------- MODULE MCSimLedger ----------------------------
(* The instance of SimLedger that TLC checks: funding may be paid or earned. *)
EXTENDS SimLedger, TLC

MCFundingAdds == {-1, 2}
MCSymmetry == Permutations(Orders)
=============================================================================
