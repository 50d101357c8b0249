------------------------- MODULE MCGoldReserveVault -------------------------
(* Instance of GoldReserveVault for TLC.                                   *)
EXTENDS GoldReserveVault

MCGoldPrice ==
  [e \in 0..MaxBlock |-> [base |-> IF e = 0 THEN 3 ELSE 4, quote |-> 4]]

MCWorkers ==
  <<[kind |-> "paid", pay |-> 1, ratio |-> 0],
    [kind |-> "threshold", pay |-> 0, ratio |-> 5000],
    [kind |-> "legacy", pay |-> 2, ratio |-> 0],
    [kind |-> "refund", pay |-> 8, ratio |-> 0],
    [kind |-> "paid", pay |-> 8, ratio |-> 0]>>
=============================================================================
